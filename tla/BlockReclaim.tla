---------------------------- MODULE BlockReclaim ----------------------------
(***************************************************************************)
(* The content-addressed block store (houyicoder-memory,                   *)
(* local_file/blocks.rs) and the pass that frees the blocks no reference   *)
(* names (blocks/gc.rs and gc/{cursor,sources,sweep}.rs), beside writers   *)
(* of other processes that store a block first and append the event naming *)
(* it later.                                                               *)
(*                                                                         *)
(* A source is a file that names blocks: a session log, which only grows,  *)
(* or a manifest or write record, which is published whole.  Sources and   *)
(* blocks are numbers in the order of their keys and addresses.  A bucket  *)
(* is the set of addresses filed for its shard, refs the union of the      *)
(* buckets, and a recorded bucket size is the set filed up to that size.   *)
(* The kernel lock lets one pass run at a time.  Modification times are    *)
(* ages, which stop at Lease; elapsed is the wall time of the pass.        *)
(***************************************************************************)
EXTENDS Integers, FiniteSets

CONSTANTS
    Blocks,      \* block addresses
    Shards,      \* number of shard directories
    Sources,     \* source keys
    Logs,        \* the sources that are append-only
    Lease,       \* write_lease, in ticks
    WriteWindow, \* the longest a writer takes from its put to its append
    PassMax,     \* the longest a pass runs: its budget and one unit of work
    MaxPuts      \* bound on the blocks stored and sessions imported

ASSUME ConstantsAssumption ==
    /\ Blocks \subseteq Nat /\ Sources \subseteq Nat /\ Logs \subseteq Sources
    /\ Shards \in Nat \ {0}
    /\ Lease \in Nat \ {0} /\ WriteWindow \in Nat /\ PassMax \in Nat
    /\ MaxPuts \in Nat

VARIABLES
    age,       \* per block: time since its modification time, Absent if unstored
    file,      \* per source: stage, len and ver (its size and time), refs named
    pend,      \* per source: the block its writer stored and has not yet named
    puts,      \* blocks stored and sessions imported so far
    late,      \* sources imported after the last listing of a pass that was sweeping
    snatched,  \* blocks stored again after the sweep read their time for the last time
    cursor,    \* the cursor file
    refs,      \* the bucket files
    pc,        \* the step of reclaim_orphan_blocks
    listed,    \* the source list of this mark (its fingerprint)
    todo,      \* the sources this mark has still to read
    at,        \* the source whose state has been read and its file not yet
    filed,     \* what each filed log held when it was read
    swept,     \* the last shard the sweep finished
    finished,  \* the shards this sweep has finished
    restarted, \* the mark was already restarted once
    victims,   \* unnamed blocks of the shard being walked, still to be judged
    probe,     \* the block found stale, until it is kept or unlinked
    elapsed    \* how long the pass has run

disk == <<age, file, pend, puts, late, snatched>>
work == <<cursor, refs>>
pass == <<pc, listed, todo, at, filed, swept, finished, restarted, victims, probe>>
vars == <<disk, work, pass, elapsed>>

Absent == -1
None == -1
Nothing == [src |-> None]
NoCursor == [held |-> FALSE]
NoPut == [block |-> None, wait |-> 0]

Shard(b) == b % Shards
Smallest(S) == CHOOSE x \in S : \A y \in S : x <= y


\* An age is only compared with the lease, so it stops there.
AgeCap(t) == IF t <= Lease THEN t ELSE Lease

Live == {s \in Sources : file[s].stage = "live"}
Stored == {b \in Blocks : age[b] # Absent}
Named == UNION {file[s].refs : s \in Live}
Pending == {pend[s].block : s \in Sources} \ {None}

\* The state a source shows to stat.
SourceState(s) == [len |-> file[s].len, ver |-> file[s].ver]

NoSources == [s \in {} |-> 0]

\* No pass runs: "idle", or "down" after a pass that an error or a death
\* stopped.  Only the fairness tells the two apart.
Between == {"idle", "down"}

Init ==
    /\ age = [b \in Blocks |-> Absent]
    /\ file = [s \in Sources |->
                 [stage |-> "unborn", len |-> 0, ver |-> 0, refs |-> {}, end |-> "whole"]]
    /\ pend = [s \in Sources |-> NoPut] /\ puts = 0 /\ late = {} /\ snatched = {}
    /\ cursor = NoCursor /\ refs = {}
    /\ pc = "idle" /\ listed = {} /\ todo = {} /\ at = Nothing
    /\ filed = NoSources /\ swept = None /\ finished = 0 /\ restarted = FALSE
    /\ victims = {} /\ probe = None /\ elapsed = 0
----------------------------------------------------------------------------
(***************************************************************************)
(* The writers.                                                            *)
(***************************************************************************)

\* block_put_sync: the bytes are published by rename, or the stored file is
\* touched; either way the block is now zero old.
Put(s, b) ==
    /\ pend[s] = NoPut /\ file[s].stage # "gone" /\ puts < MaxPuts
    /\ age' = [age EXCEPT ![b] = 0]
    /\ pend' = [pend EXCEPT ![s] = [block |-> b, wait |-> 0]]
    /\ puts' = puts + 1
    /\ snatched' = IF pc = "unlink" /\ probe = b THEN snatched \cup {b} ELSE snatched \ {b}
    /\ UNCHANGED <<file, late, work, pass, elapsed>>

\* append_sync: the event naming the stored block is appended at the end of
\* the log as it stands.  After a torn record it joins it: the line is whole,
\* does not parse, and the event is lost.  The other sources are published
\* whole.
Append(s) ==
    /\ pend[s] # NoPut
    /\ file' = [file EXCEPT ![s] =
         [stage |-> "live",
          len   |-> IF s \in Logs THEN @.len + 1 ELSE @.len,
          ver   |-> @.ver + 1,
          refs  |-> CASE s \notin Logs    -> {pend[s].block}
                      [] @.end = "torn"   -> @.refs
                      [] OTHER            -> @.refs \cup {pend[s].block},
          end   |-> IF @.end = "torn" THEN "joined" ELSE @.end]]
    /\ pend' = [pend EXCEPT ![s] = NoPut]
    /\ UNCHANGED <<age, puts, late, snatched, work, pass, elapsed>>

\* The writer dies before its append, or part way through it: inside the
\* record, which then names nothing, or before its newline.
WriterDies(s) ==
    /\ pend[s] # NoPut
    /\ \/ UNCHANGED file
       \/ /\ s \in Logs /\ file[s].end # "joined"
          /\ file' = [file EXCEPT ![s].stage = "live", ![s].len = @ + 1,
                                  ![s].ver = @ + 1, ![s].end = "torn"]
       \/ /\ s \in Logs /\ file[s].end = "whole"
          /\ file' = [file EXCEPT ![s].stage = "live", ![s].len = @ + 1,
                                  ![s].ver = @ + 1, ![s].end = "torn",
                                  ![s].refs = @ \cup {pend[s].block}]
    /\ pend' = [pend EXCEPT ![s] = NoPut]
    /\ UNCHANGED <<age, puts, late, snatched, work, pass, elapsed>>

\* The prune removes a session that no process holds; its id is never reused.
Delete(s) ==
    /\ file[s].stage = "live" /\ pend[s] = NoPut
    /\ file' = [file EXCEPT ![s] =
         [stage |-> "gone", len |-> 0, ver |-> 0, refs |-> {}, end |-> "whole"]]
    /\ UNCHANGED <<age, pend, puts, late, snatched, work, pass, elapsed>>

\* seed_trajectory: an exported session is appended to a new log.  Its events
\* name blocks of an earlier life of the session, and nothing stores or touches
\* them.  A block that was gone before the import is not reclaim's doing.
Import(s, b) ==
    /\ s \in Logs /\ file[s].stage = "unborn" /\ pend[s] = NoPut
    /\ b \in Stored /\ puts < MaxPuts
    /\ puts' = puts + 1
    /\ file' = [file EXCEPT ![s].stage = "live", ![s].len = 1, ![s].ver = 1, ![s].refs = {b}]
    /\ late' = IF pc \in {"sweep", "shard", "unlink"} THEN late \cup {s} ELSE late
    /\ UNCHANGED <<age, pend, snatched, work, pass, elapsed>>

\* Time passes.  A writer appends within WriteWindow of its put and a pass
\* ends within PassMax of its start.
Tick ==
    /\ \A s \in Sources : pend[s] = NoPut \/ pend[s].wait < WriteWindow
    /\ pc \in Between \/ elapsed < PassMax
    /\ age' = [b \in Blocks |-> IF age[b] = Absent THEN Absent ELSE AgeCap(age[b] + 1)]
    /\ pend' = [s \in Sources |-> IF pend[s] = NoPut THEN NoPut
                                  ELSE [pend[s] EXCEPT !.wait = @ + 1]]
    /\ elapsed' = IF pc \in Between THEN 0 ELSE elapsed + 1
    /\ UNCHANGED <<file, puts, late, snatched, work, pass>>
----------------------------------------------------------------------------
(***************************************************************************)
(* The mark.                                                               *)
(***************************************************************************)
\* Mutant of MovedLogs: a log that only grew is taken as unmoved.
MutMovedLogs(c) == {s \in DOMAIN c.filed : file[s].len < c.filed[s].len}

\* The filed logs that no longer hold what the mark recorded.
MovedLogs(c) == {s \in DOMAIN c.filed : SourceState(s) # c.filed[s]}

\* resumable_cursor: a cursor over this list whose buckets are all there, cut
\* back to before the first log that moved if that log grew.
ResumableCursor(c, now) ==
    IF ~c.held THEN NoCursor
    ELSE IF c.listed # now \/ ~(c.refs \subseteq refs) THEN NoCursor
    ELSE IF MovedLogs(c) = {} THEN c
    ELSE LET moved == Smallest(MovedLogs(c)) IN
         IF file[moved].len > c.filed[moved].len
         THEN [c EXCEPT !.filed =
                 [s \in {t \in DOMAIN c.filed : t < moved} |-> c.filed[s]]]
         ELSE NoCursor

\* MarkRun::open over a fresh listing: buckets cut to their recorded size and
\* the recorded logs skipped, or everything from the start.
Open(held, now) ==
    LET c == ResumableCursor(held, now) IN
    /\ listed' = now /\ pc' = "mark" /\ at' = Nothing
    /\ IF c.held
       THEN /\ refs' = c.refs /\ filed' = c.filed /\ swept' = c.swept
            /\ todo' = now \ DOMAIN c.filed
       ELSE /\ refs' = {} /\ filed' = NoSources /\ swept' = None
            /\ todo' = now

\* Cursor::write_to, after the buckets were flushed.
Recorded(f, r, w) == [held |-> TRUE, listed |-> listed, filed |-> f, refs |-> r, swept |-> w]

\* The pass is over, completed or partial (idle) or stopped (down): its own
\* state is dropped.
Return(to) ==
    /\ pc' = to /\ listed' = {} /\ todo' = {} /\ at' = Nothing
    /\ filed' = NoSources /\ swept' = None /\ finished' = 0 /\ restarted' = FALSE
    /\ victims' = {} /\ probe' = None /\ elapsed' = 0

\* reclaim_orphan_blocks up to the mark, its lock taken.
Begin ==
    /\ pc \in Between
    /\ Open(cursor, Live) /\ UNCHANGED cursor
    /\ restarted' = FALSE /\ finished' = 0 /\ victims' = {} /\ probe' = None /\ elapsed' = 0
    /\ UNCHANGED disk

\* mark: the state of the next source, read before the file.
MarkStat ==
    /\ pc = "mark" /\ at = Nothing /\ todo # {}
    /\ LET s == Smallest(todo) IN
         /\ file[s].stage = "live"
         /\ at' = [src |-> s, state |-> SourceState(s)]
    /\ UNCHANGED <<disk, work, pc, listed, todo, filed, swept, finished, restarted,
                   victims, probe, elapsed>>

\* Mutant of MarkRead: the torn tail of a log ends its reading before the
\* whole records are filed.
MutMarkRead ==
    /\ pc = "mark" /\ at # Nothing
    /\ LET s == at.src IN
         /\ file[s].stage = "live" /\ file[s].end # "joined"
         /\ refs' = IF file[s].end = "torn" THEN refs ELSE refs \cup file[s].refs
         /\ filed' = IF s \notin Logs THEN filed
                     ELSE [t \in DOMAIN filed \cup {s} |->
                             IF t = s THEN at.state ELSE filed[t]]
         /\ todo' = todo \ {s}
    /\ at' = Nothing
    /\ \/ cursor' = Recorded(filed', refs', swept)
       \/ UNCHANGED cursor
    /\ UNCHANGED <<disk, pc, listed, swept, finished, restarted, victims, probe, elapsed>>

\* mark_log and mark_whole: every address the file names is filed, a torn
\* tail names nothing, and a log is filed under the state read before.  The
\* cursor is written at a stride.
MarkRead ==
    /\ pc = "mark" /\ at # Nothing
    /\ LET s == at.src IN
         /\ file[s].stage = "live" /\ file[s].end # "joined"
         /\ refs' = refs \cup file[s].refs
         /\ filed' = IF s \notin Logs THEN filed
                     ELSE [t \in DOMAIN filed \cup {s} |->
                             IF t = s THEN at.state ELSE filed[t]]
         /\ todo' = todo \ {s}
    /\ at' = Nothing
    /\ \/ cursor' = Recorded(filed', refs', swept)
       \/ UNCHANGED cursor
    /\ UNCHANGED <<disk, pc, listed, swept, finished, restarted, victims, probe, elapsed>>

\* mark_log: a line that is whole and does not parse stops the pass.
MarkRefused ==
    /\ pc = "mark" /\ at # Nothing
    /\ file[at.src].stage = "live" /\ file[at.src].end = "joined"
    /\ Return("idle")
    /\ UNCHANGED <<disk, work>>

\* The budget is spent between two sources: what is filed is recorded.
MarkBudget ==
    /\ pc = "mark" /\ at = Nothing /\ todo # {}
    /\ cursor' = Recorded(filed, refs, swept)
    /\ Return("idle")
    /\ UNCHANGED <<disk, refs>>

MarkedAll == pc = "mark" /\ at = Nothing /\ todo = {}

\* The mark ends, is recorded, and the sources are listed again: they are the
\* same and the sweep begins, or one restart, or the end of the pass.
Relist ==
    /\ MarkedAll /\ Live = listed
    /\ cursor' = Recorded(filed, refs, swept)
    /\ pc' = "sweep"
    /\ UNCHANGED <<disk, refs, listed, todo, at, filed, swept, finished, restarted,
                   victims, probe, elapsed>>

RelistRestart ==
    /\ MarkedAll /\ Live # listed /\ ~restarted
    /\ restarted' = TRUE
    /\ cursor' = Recorded(filed, refs, swept)
    /\ Open(cursor', Live)
    /\ UNCHANGED <<disk, finished, victims, probe, elapsed>>

RelistMoved ==
    /\ MarkedAll /\ Live # listed /\ restarted
    /\ cursor' = Recorded(filed, refs, swept)
    /\ Return("idle")
    /\ UNCHANGED <<disk, refs>>

----------------------------------------------------------------------------
(***************************************************************************)
(* The sweep.                                                              *)
(***************************************************************************)
\* The shard directories after the last one finished, empty ones included.
ShardsLeft == {h \in 0..(Shards - 1) : h > swept}

\* The next shard: its bucket and its directory are read.
SweepShard ==
    /\ pc = "sweep" /\ ShardsLeft # {}
    /\ LET h == Smallest(ShardsLeft) IN
         /\ victims' = {b \in Stored : Shard(b) = h} \ refs
         /\ swept' = h
    /\ pc' = "shard"
    /\ UNCHANGED <<disk, work, listed, todo, at, filed, finished, restarted, probe, elapsed>>

\* remove_if_stale, up to the first read of the time.
Judge(b) ==
    /\ pc = "shard" /\ probe = None /\ b \in victims
    /\ victims' = victims \ {b}
    /\ probe' = IF age[b] = Lease THEN b ELSE None
    /\ UNCHANGED <<disk, work, pc, listed, todo, at, filed, swept, finished, restarted, elapsed>>

\* Mutant of Reread: the time is not compared with the one read first.
MutReread ==
    /\ pc = "shard" /\ probe # None
    /\ pc' = "unlink" /\ probe' = probe
    /\ UNCHANGED <<disk, work, listed, todo, at, filed, swept, finished, restarted,
                   victims, elapsed>>

\* remove_if_stale: the time is read again, and a changed one keeps the block.
\* A re-store gives a time a whole lease later than the one read first, so no
\* timestamp finer than the lease hides it.
Reread ==
    /\ pc = "shard" /\ probe # None
    /\ IF age[probe] = Lease THEN pc' = "unlink" /\ probe' = probe
                             ELSE pc' = pc /\ probe' = None
    /\ UNCHANGED <<disk, work, listed, todo, at, filed, swept, finished, restarted,
                   victims, elapsed>>

\* Then the file is removed, whatever time it has by now, or cannot be.
Unlink ==
    /\ pc = "unlink"
    /\ age' = [age EXCEPT ![probe] = Absent]
    /\ pc' = "shard" /\ probe' = None
    /\ UNCHANGED <<file, pend, puts, late, snatched, work, listed, todo, at, filed, swept,
                   finished, restarted, victims, elapsed>>

UnlinkFails ==
    /\ pc = "unlink"
    /\ snatched' = snatched \ {probe}
    /\ pc' = "shard" /\ probe' = None
    /\ UNCHANGED <<age, file, pend, puts, late, work, listed, todo, at, filed, swept,
                   finished, restarted, victims, elapsed>>

PowersOfTwo == {1, 2, 4, 8, 16, 32, 64, 128, 256}

\* A shard is finished; at a power of two it is recorded.
ShardEnd ==
    /\ pc = "shard" /\ probe = None /\ victims = {}
    /\ finished' = finished + 1
    /\ cursor' = IF finished' \in PowersOfTwo THEN Recorded(filed, refs, swept) ELSE cursor
    /\ pc' = "sweep"
    /\ UNCHANGED <<disk, refs, listed, todo, at, filed, swept, restarted, victims, probe, elapsed>>

\* Mutant of ShardBudget: the finished shard is not recorded.
MutShardBudget ==
    /\ pc = "shard" /\ probe = None /\ victims = {}
    /\ Return("idle")
    /\ UNCHANGED <<disk, work>>

\* The budget is spent after a shard: it is recorded and the pass returns.
ShardBudget ==
    /\ pc = "shard" /\ probe = None /\ victims = {}
    /\ cursor' = Recorded(filed, refs, swept)
    /\ Return("idle")
    /\ UNCHANGED <<disk, refs>>

\* finish: the cursor is removed first, then the buckets.
FinishCursor ==
    /\ pc = "sweep" /\ ShardsLeft = {}
    /\ cursor' = NoCursor
    /\ pc' = "clear"
    /\ UNCHANGED <<disk, refs, listed, todo, at, filed, swept, finished, restarted,
                   victims, probe, elapsed>>

FinishRefs ==
    /\ pc = "clear"
    /\ refs' = {}
    /\ Return("idle")
    /\ UNCHANGED <<disk, cursor>>

\* A source or a shard that cannot be read, a workspace that cannot be
\* written: the pass returns with what is on disk.  A listed source that is
\* gone is one of these.
Fail ==
    /\ pc \in {"mark", "sweep", "shard", "clear"}
    /\ Return("down")
    /\ UNCHANGED <<disk, work>>

\* The process of the pass dies: the cursor being written is unreadable, and
\* what was filed after the last record may not have reached the disk.
PassDies ==
    /\ pc \notin Between
    /\ cursor' \in {cursor, NoCursor}
    /\ refs' \in {refs, IF cursor.held THEN cursor.refs ELSE {}}
    /\ Return("down")
    /\ snatched' = snatched \ {probe}
    /\ UNCHANGED <<age, file, pend, puts, late>>
----------------------------------------------------------------------------
Write == \E s \in Sources :
           (\E b \in Blocks : Put(s, b) \/ Import(s, b)) \/ Append(s) \/ WriterDies(s) \/ Delete(s)
Mark == MarkStat \/ MarkRead \/ MarkRefused \/ MarkBudget \/ Relist \/ RelistRestart \/ RelistMoved
Sweep == SweepShard \/ (\E b \in Blocks : Judge(b)) \/ Reread \/ Unlink \/ UnlinkFails
         \/ ShardEnd \/ ShardBudget
         \/ FinishCursor \/ FinishRefs

Next == Write \/ Tick \/ Begin \/ Mark \/ Sweep \/ Fail \/ PassDies

\* What may end a pass without progress: a budget spent before the mark is
\* through, an error, a death, a file that cannot be removed.
Setback == MarkBudget \/ Fail \/ PassDies \/ UnlinkFails

\* Some writer that waits appends or dies, time passes, housekeeping starts a pass again
\* and again, a pass goes on, and setbacks end.  A budget spent in the sweep
\* is not one: every pass may stop after its first shard.
Fairness ==
    /\ WF_vars(\E s \in Sources : Append(s) \/ WriterDies(s))
    /\ SF_vars(Tick) /\ WF_vars(Begin) /\ WF_vars(Mark \/ Sweep \/ Fail)
    /\ <>[][~Setback]_vars

Spec == Init /\ [][Next]_vars
FairSpec == Spec /\ Fairness
----------------------------------------------------------------------------
LogStates == [len : Nat, ver : Nat]

TypeOK ==
    /\ age \in [Blocks -> {Absent} \cup 0..Lease]
    /\ \A s \in Sources :
         /\ file[s].stage \in {"unborn", "live", "gone"}
         /\ SourceState(s) \in LogStates /\ file[s].end \in {"whole", "torn", "joined"}
         /\ file[s].refs \subseteq Blocks
         /\ pend[s] \in {NoPut} \cup [block : Blocks, wait : 0..WriteWindow]
    /\ refs \subseteq Blocks /\ todo \subseteq listed /\ listed \subseteq Sources
    /\ pc \in {"idle", "down", "mark", "sweep", "shard", "unlink", "clear"}
    /\ DOMAIN filed \subseteq listed \cap Logs
    /\ victims \subseteq Blocks /\ probe \in Blocks \cup {None} /\ snatched \subseteq Blocks
    /\ elapsed \in 0..PassMax /\ puts \in 0..MaxPuts

\* A block that a log or a record names is never freed: reclaim keeps what a
\* live reference names across marks that are cut short and resumed, sources
\* that grow, tear, appear and vanish under the mark, sessions imported with
\* old references, blocks stored again while the sweep judges them, and crashes
\* of the pass.  Three things are not covered: a session imported while the sweep
\* is under way (late); a block stored again between the second read of its time
\* and its unlink (snatched, sweep.rs:157-158); and, as a condition on the
\* constants, a writer that appends so late, or a pass that runs so long, that
\* the two together outlast the lease (sweep.rs:159-161).
NamedStored == \A s \in Live \ late : file[s].refs \subseteq Stored \cup snatched

\* The same for every source: what housekeeping.rs:190 says of all outcomes.
AllNamedStored == Named \subseteq Stored

\* A block whose writer has not yet appended the event naming it is never
\* freed, so an append that follows its put never names a missing block, unless
\* the put came between the sweep's second read of the time and its unlink.
PendingStored == Pending \subseteq Stored \cup snatched

\* A cursor a resumed pass would trust is backed: every log it lets the mark
\* skip has all its addresses in the buckets the cursor recorded.
CursorBacked ==
    cursor.held =>
      \A s \in DOMAIN cursor.filed :
        file[s].stage = "live" /\ SourceState(s) = cursor.filed[s]
          => file[s].refs \subseteq cursor.refs

\* A block nothing names and no writer holds does not stay stored for ever
\* while passes keep running, unless a log with a record that joined a torn
\* one stays in the store: every pass then stops at it.
OrphansReclaimed ==
    \A b \in Blocks :
      <>[](/\ b \notin Named /\ b \notin Pending
           /\ \A s \in Live : file[s].end # "joined")
        => <>[](b \notin Stored)
============================================================================
