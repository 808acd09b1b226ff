----------------------------- MODULE SessionLog -----------------------------
(***************************************************************************)
(* The durable session log: SessionStore (houyicoder-session) over the     *)
(* local-file backend (houyicoder-memory).  One session, one process at a  *)
(* time; every append is serialized by append_lock, but the bytes of a     *)
(* write reach the file in more than one step, so a concurrent reader, a   *)
(* failed write and a crash all see a line that is not finished.           *)
(*                                                                         *)
(* A line of the file is a record, or bytes no parser accepts (Torn), and  *)
(* may lack its newline.  The SHA-256 of a line is modelled as a free      *)
(* constructor over what the line holds: the digest of a record is its     *)
(* prev_hash with its id appended.  Distinct lines therefore have distinct *)
(* digests, and << >> is "no hash".                                        *)
(***************************************************************************)
EXTENDS Naturals, Sequences, FiniteSets

CONSTANTS
    EventIds,   \* ids of the durable events callers may append
    Claims,     \* the events only append_if writes; its predicate admits
                \* one while the log holds none of them
    Torn,       \* the "id" of a line that does not parse
    Faults,     \* the faults a behaviour may contain, a subset of FaultKinds
    MaxRestarts, \* bound on process restarts, crashes included
    MaxAppends  \* bound on append calls

FaultKinds == {"crash", "io", "dup"}

ASSUME ConstantsAssumption ==
    /\ Claims \subseteq EventIds
    /\ Torn \notin EventIds
    /\ Faults \subseteq FaultKinds
    /\ MaxRestarts \in Nat
    /\ MaxAppends \in Nat

VARIABLES
    log,      \* log.jsonl: a sequence of lines
    writing,  \* the append holding append_lock: idle, or its record and
              \* whether part of its bytes are visible in the file
    held,     \* LogChain.last_hashes for the session, << >> when cold
    warm,     \* the backend's write_state is loaded for the session
    seen,     \* SessionWriteState.seen
    verify,   \* verify_disk_chain on its background thread
    acked,    \* ids whose append returned Ok (callers' knowledge)
    damaged,  \* a fault left bytes that are not the chain's, or a phantom
              \* hash in the cache (a history variable)
    presented, \* ids callers have passed to append
    restarts, appends

vars == <<log, writing, held, warm, seen, verify, acked, damaged, presented, restarts, appends>>

Symbols == EventIds \cup {Torn}
Hash == Seq(Symbols)
Line == [id : Symbols, prev : Hash, ended : BOOLEAN]
Record(e, prev) == [id |-> e, prev |-> prev, ended |-> TRUE]
Unended(e, prev) == [id |-> e, prev |-> prev, ended |-> FALSE]
Garbled(ended) == [id |-> Torn, prev |-> << >>, ended |-> ended]

Idle == [busy |-> FALSE, id |-> Torn, prev |-> << >>, partial |-> FALSE]
Verdicts == {"none", "running", "verified", "unverified"}
NoVerify == [verdict |-> "none", pos |-> 0, prev |-> << >>, mid |-> FALSE]

\* hash_line_bytes / hash_event: injective in the line's content.
HashLine(line) == Append(line.prev, line.id)

IsRecord(line) == line.id # Torn

\* The newest line of a file that ends without a newline.
OpenEnded(l) == l # << >> /\ ~l[Len(l)].ended

\* Mutant of Land: the file is opened with truncate instead of append.
MutLand(l, piece) == <<piece>>

\* OpenOptions::append: bytes go to the end of the file, so a piece written
\* after an unterminated line joins that line, and the two together parse as
\* neither.
Land(l, piece) ==
    IF OpenEnded(l)
    THEN [l EXCEPT ![Len(l)] = Garbled(piece.ended)]
    ELSE Append(l, piece)

\* The bytes a reader of the file finds while an append is in progress.
View == IF writing.partial THEN Land(log, Garbled(FALSE)) ELSE log


\* SessionWriteState::scan: every line that parses, terminated or not.
ScanIds(l) == {l[i].id : i \in 1..Len(l)} \ {Torn}

\* read_log, strict: a line that does not parse fails the whole read.
Replayable(l) == \A i \in 1..Len(l) : IsRecord(l[i])

\* Mutant of Tip: the cold link hashes the file's first line.
MutTip(l) == IF l = << >> THEN << >> ELSE HashLine(l[1])

\* read_lines_reverse from the end: the newest whole line.  A file that is
\* one unterminated line counts as a whole line.
Tip(l) ==
    IF l = << >> THEN << >>
    ELSE IF Len(l) = 1 \/ l[Len(l)].ended
         THEN HashLine(l[Len(l)])
         ELSE HashLine(l[Len(l) - 1])

\* LogChain::link: the held hash, else the cold read (an empty file yields
\* None, which the cache does not keep).
Link == IF held # << >> THEN held ELSE Tip(log)

\* load_write_state on the session's first append in this process.
Seen == IF warm THEN seen ELSE ScanIds(log)

-----------------------------------------------------------------------------
Init ==
    /\ log = << >>
    /\ writing = Idle
    /\ held = << >>
    /\ warm = FALSE
    /\ seen = {}
    /\ verify = NoVerify
    /\ acked = {}
    /\ damaged = FALSE
    /\ presented = {}
    /\ restarts = 0
    /\ appends = 0

\* append_locked up to the backend's dedup test, for an id the log does not
\* hold yet: the link is read (and remembered), the write state is loaded.
BeginWrite(e) ==
    /\ e \notin Seen
    /\ writing' = [busy |-> TRUE, id |-> e, prev |-> Link, partial |-> FALSE]
    /\ held' = Link
    /\ warm' = TRUE
    /\ seen' = Seen
    /\ UNCHANGED <<log, verify, acked, damaged, restarts>>

\* The dedup path: append_sync answers Ok without writing, and append_locked
\* goes on to remember the hash of the record it did not write.
DedupAppend(e) ==
    /\ e \in Seen
    /\ held' = Append(Link, e)
    /\ warm' = TRUE
    /\ seen' = Seen
    /\ acked' = acked \cup {e}
    /\ damaged' = TRUE
    /\ UNCHANGED <<log, writing, verify, restarts>>

\* A caller takes append_lock with an event.  Engine callers mint a fresh id
\* per event; an imported trajectory may present one twice ("dup").
Present(e) ==
    /\ ~writing.busy
    /\ appends < MaxAppends
    /\ "dup" \in Faults \/ e \notin presented
    /\ presented' = presented \cup {e}
    /\ appends' = appends + 1

\* SessionStore::append of a durable event.
StoreAppend(e) ==
    /\ e \notin Claims
    /\ Present(e)
    /\ BeginWrite(e) \/ DedupAppend(e)

\* Mutant of AppendIf: the predicate is evaluated before the lock is taken, so
\* what it saw need not be what the log holds.
MutAppendIf(e) ==
    /\ e \in Claims
    /\ Present(e)
    /\ BeginWrite(e)

\* SessionStore::append_if: the strict replay and the predicate run under the
\* append lock; a refusal and a corrupt log leave everything as it was.
AppendIf(e) ==
    /\ e \in Claims
    /\ Present(e)
    /\ Replayable(log)
    /\ ScanIds(log) \cap Claims = {}
    /\ BeginWrite(e)

\* write_all has moved part of the line's bytes into the file.
WritePartial ==
    /\ writing.busy
    /\ ~writing.partial
    /\ writing' = [writing EXCEPT !.partial = TRUE]
    /\ UNCHANGED <<log, held, warm, seen, verify, acked, damaged, presented, restarts, appends>>

\* write_all and sync_all succeeded: record_durable, remember, note_durable.
WriteOk ==
    /\ writing.busy
    /\ LET record == Record(writing.id, writing.prev)
       IN /\ log' = Land(log, record)
          /\ held' = HashLine(record)
    /\ seen' = seen \cup {writing.id}
    /\ acked' = acked \cup {writing.id}
    /\ writing' = Idle
    /\ UNCHANGED <<warm, verify, damaged, presented, restarts, appends>>

\* What an interrupted write leaves in the file: nothing, an unparseable
\* prefix, the whole record without its newline, or the whole line.
Leftovers ==
    {Land(log, Garbled(FALSE)),
     Land(log, Unended(writing.id, writing.prev)),
     Land(log, Record(writing.id, writing.prev))}
    \cup (IF writing.partial THEN {} ELSE {log})

\* Mutant of WriteFails: the failed write is rolled back to the length of the
\* line before it, which is not where the write began.
MutWriteFails ==
    /\ "io" \in Faults
    /\ writing.busy
    /\ log' = SubSeq(log, 1, Len(log) - 1)
    /\ damaged' = TRUE
    /\ writing' = Idle
    /\ UNCHANGED <<held, warm, seen, verify, acked, presented, restarts, appends>>

\* write_all or sync_all failed: log_write_failed, Err(Io).  The caches keep
\* what they held before the call.
WriteFails ==
    /\ "io" \in Faults
    /\ writing.busy
    /\ \E left \in Leftovers :
          /\ log' = left
          /\ damaged' = (damaged \/ left # log)
    /\ writing' = Idle
    /\ UNCHANGED <<held, warm, seen, verify, acked, presented, restarts, appends>>

\* The process ends and a later one opens the same file: every in-memory
\* structure starts cold.  The file is what the ending left.
Reopen(left) ==
    /\ restarts < MaxRestarts
    /\ restarts' = restarts + 1
    /\ log' = left
    /\ writing' = Idle
    /\ held' = << >>
    /\ warm' = FALSE
    /\ seen' = {}
    /\ verify' = NoVerify
    /\ UNCHANGED <<acked, presented, appends>>

\* An exit between appends.
Restart ==
    /\ ~writing.busy
    /\ Reopen(log)
    /\ UNCHANGED damaged

\* A crash inside an append.  A whole line it leaves is an ordinary record of
\* the chain; an unterminated one is what no writer repairs.
Crash ==
    /\ "crash" \in Faults
    /\ writing.busy
    /\ \E left \in Leftovers :
          /\ Reopen(left)
          /\ damaged' = (damaged \/ OpenEnded(left))

-----------------------------------------------------------------------------
\* verify_disk: one thread walks the file while appends go on.

\* resume_session_impl starts the walk when a process reopens a session.
VerifyStart ==
    /\ restarts > 0
    /\ verify.verdict = "none"
    /\ verify' = [NoVerify EXCEPT !.verdict = "running"]
    /\ UNCHANGED <<log, writing, held, warm, seen, acked, damaged, presented, restarts, appends>>

Ended(l, i) == i <= Len(l) /\ l[i].ended

\* Mutant of VerifyLine: the link of a record that parses is not compared.
MutVerifyLine ==
    LET next == verify.pos + 1
    IN /\ verify.verdict = "running"
       /\ ~verify.mid
       /\ Ended(View, next)
       /\ verify' =
            IF IsRecord(View[next])
            THEN [verify EXCEPT !.pos = next, !.prev = HashLine(View[next])]
            ELSE [verify EXCEPT !.verdict = "unverified"]
       /\ UNCHANGED <<log, writing, held, warm, seen, acked, damaged, presented, restarts, appends>>

\* One forward window holding the next whole line.
VerifyLine ==
    LET next == verify.pos + 1
    IN /\ verify.verdict = "running"
       /\ ~verify.mid
       /\ Ended(View, next)
       /\ verify' =
            IF IsRecord(View[next]) /\ View[next].prev = verify.prev
            THEN [verify EXCEPT !.pos = next, !.prev = HashLine(View[next])]
            ELSE [verify EXCEPT !.verdict = "unverified"]
       /\ UNCHANGED <<log, writing, held, warm, seen, acked, damaged, presented, restarts, appends>>

\* A window that holds only an unterminated tail: the walk moves its offset
\* to the end of those bytes, inside the line.
VerifyTail ==
    /\ verify.verdict = "running"
    /\ ~verify.mid
    /\ verify.pos < Len(View)
    /\ ~Ended(View, verify.pos + 1)
    /\ verify' = [verify EXCEPT !.mid = TRUE]
    /\ UNCHANGED <<log, writing, held, warm, seen, acked, damaged, presented, restarts, appends>>

\* The next read after that: at the end of the file the walk is over; if the
\* line has been terminated meanwhile the read skips its tail, and counts it
\* as a record no window holds.
VerifyAfterTail ==
    /\ verify.verdict = "running"
    /\ verify.mid
    /\ verify' = [verify EXCEPT !.verdict =
                    IF Ended(View, verify.pos + 1) THEN "unverified" ELSE "verified"]
    /\ UNCHANGED <<log, writing, held, warm, seen, acked, damaged, presented, restarts, appends>>

VerifyEnd ==
    /\ verify.verdict = "running"
    /\ ~verify.mid
    /\ verify.pos = Len(View)
    /\ verify' = [verify EXCEPT !.verdict = "verified"]
    /\ UNCHANGED <<log, writing, held, warm, seen, acked, damaged, presented, restarts, appends>>

\* Mutant of Verify: a walk that met an unterminated tail waits for its
\* newline instead of ending at the end of the file.
MutVerify ==
    \/ VerifyStart \/ VerifyLine \/ VerifyTail \/ VerifyEnd
    \/ Ended(View, verify.pos + 1) /\ VerifyAfterTail

Verify == VerifyStart \/ VerifyLine \/ VerifyTail \/ VerifyAfterTail \/ VerifyEnd

Next ==
    \/ \E e \in EventIds : StoreAppend(e) \/ AppendIf(e)
    \/ WritePartial
    \/ WriteOk
    \/ WriteFails
    \/ Restart
    \/ Crash
    \/ Verify

Spec == Init /\ [][Next]_vars

\* The append future and the verify thread both run to completion.
Fairness == WF_vars(WriteOk) /\ WF_vars(Verify)
FairSpec == Spec /\ Fairness

-----------------------------------------------------------------------------
\* The first n lines are records, and each carries the hash of the line
\* before it.
ChainedUpTo(l, n) ==
    \A i \in 1..n :
        /\ IsRecord(l[i])
        /\ l[i].prev = IF i = 1 THEN << >> ELSE HashLine(l[i - 1])

Chained(l) == ChainedUpTo(l, Len(l))

\* The shape of every variable.
TypeOK ==
    /\ log \in Seq(Line)
    /\ writing \in [busy : BOOLEAN, id : Symbols, prev : Hash, partial : BOOLEAN]
    /\ held \in Hash
    /\ warm \in BOOLEAN
    /\ seen \subseteq EventIds
    /\ verify \in [verdict : Verdicts, pos : Nat, prev : Hash, mid : BOOLEAN]
    /\ acked \subseteq EventIds
    /\ damaged \in BOOLEAN
    /\ presented \subseteq EventIds
    /\ restarts \in Nat
    /\ appends \in Nat

\* Until a fault leaves foreign bytes or a phantom hash, the file is one
\* unbroken chain of terminated records and the cached hash is its tip: across
\* cold links, restarts, failed writes that left nothing and crashes that left
\* a whole line (SessionStore::append_locked, LogChain::link).
ChainIntegrity ==
    ~damaged =>
        /\ Chained(log)
        /\ \A i \in 1..Len(log) : log[i].ended
        /\ held # << >> => held = Tip(log)

\* An append that answered Ok is readable in the file for good, whatever the
\* process does afterwards (append_sync syncs before it answers; dedup answers
\* Ok only for an id the file holds).
AckedReadable == ~damaged => acked \subseteq ScanIds(log)

\* append_if's check and write are one step: however callers race, and
\* whatever faults there are, the log never holds two claims
\* (RecapAttempt, child returns).
OneClaim ==
    \A i, j \in 1..Len(log) :
        log[i].id \in Claims /\ log[j].id \in Claims => i = j

\* A verdict of Verified is about a chain: the lines the walk hashed link to
\* each other in the file as it is now, although appends and failed writes
\* went on while it read (verify_disk).
VerifiedMeansChained ==
    verify.verdict = "verified" =>
        /\ verify.pos <= Len(log)
        /\ ChainedUpTo(log, verify.pos)

\* No step rewrites or removes a terminated line.
AppendOnly ==
    [][\A i \in 1..Len(log) : log[i].ended => i <= Len(log') /\ log'[i] = log[i]]_log

\* The verify thread never stays at one place of the file, whatever lies there and
\* whatever appends do meanwhile: it reaches a verdict or goes past that line.  So
\* only a log that outgrows it for ever keeps it from a verdict: the walk follows
\* the end of the file, and not the end it had at the start (chain.rs:164).
VerifyProgresses ==
    \A n \in 0..MaxAppends :
        (verify.verdict = "running" /\ verify.pos = n)
            ~> (verify.verdict # "running" \/ verify.pos > n)

\* chain.rs: a broken chain "reports where the first record that does not"
\* link is; an intact file is not reported broken.
NoFalseAlarm == verify.verdict = "unverified" => ~Chained(log)

\* records.rs: "fsync so a crash after the append does not lose the event".
\* The unconditional form of AckedReadable.
AppendLands == acked \subseteq ScanIds(log)

\* lib.rs: appends are serialized so that they "don't fork the chain".  No two
\* records of the file follow the same record.
NoFork ==
    \A i, j \in 1..Len(log) :
        IsRecord(log[i]) /\ IsRecord(log[j]) /\ log[i].prev = log[j].prev => i = j

\* lib.rs: an import rebuilds a chain "which is consistent by construction".
\* Every link names a line the file holds.
NoPhantomLink ==
    \A i \in 1..Len(log) :
        log[i].prev = << >> \/ \E j \in 1..Len(log) : log[i].prev = HashLine(log[j])

=============================================================================
