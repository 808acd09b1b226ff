--------------------------- MODULE EventSequencer ---------------------------
(***************************************************************************)
(* The per-session ordering authority for frontend events                  *)
(* (houyicoder-service, server/event_sequencer.rs) with the server that    *)
(* drains it (server/outbound_frames.rs) and the clients that attach, lose *)
(* their connection and attach again with the cursor they reached.         *)
(*                                                                         *)
(* A durable record is its ordinal and maps to one frame.  The walk over   *)
(* the log is the one LogState describes: it returns consecutive records.  *)
(* Sequence numbers start at 1, and cursor 0 stands for "no cursor".       *)
(*                                                                         *)
(* A connection replays (replay_events), flushes (flush_events) and then   *)
(* waits in its select ("live").  Producers leave a permit in one of two   *)
(* Notifys, the log's and the sequencer's, of which each holds one; the    *)
(* model has one for both, so it wakes the server no more often than the   *)
(* code.  Only a permit, or the end of a turn's leg, makes it flush again. *)
(***************************************************************************)
EXTENDS Naturals, FiniteSets, SequencesExt

CONSTANTS
    Clients,     \* frontends that may attach, one at a time
    Agents,      \* agents whose status frames supersede each other
    NoAgent,
    Budget,      \* frames the reliable window holds
    Batch,       \* records one round of the walk maps (DURABLE_BATCH_RECORDS)
    EphemeralCap, \* MAX_EPHEMERAL_PENDING
    MaxLog, MaxNotices, MaxVersions, MaxSeq, MaxChanges \* bounds on what happens

ASSUME ConstantsAssumption ==
    /\ NoAgent \notin Agents /\ IsFiniteSet(Agents)
    /\ Budget \in Nat \ {0}
    /\ Batch \in Nat \ {0}
    /\ EphemeralCap \in Nat
    /\ {MaxLog, MaxNotices, MaxVersions, MaxSeq, MaxChanges} \subseteq Nat

VARIABLES
    log,      \* durable records the session's current epoch holds
    nextSeq, pos, \* next_seq, trajectory_position.index
    pending,  \* pending and pending_status, in order of arrival
    ephemerals, \* ephemeral_pending
    window, floor, \* ReliableWindow: its frames as a set, each with its own seq
    latest,   \* latest_status
    conn,     \* the attached client, the phase of its connection
    wake,     \* a permit waits in append_notify or in the sequencer's notify
    opening, held, \* ReplayPlan
    outbox,   \* frames sequenced and not yet sent on the connection
    client,   \* what each client has received of the current epoch
    notices, version, \* notices and status versions enqueued so far
    changes,  \* attaches and clears so far
    (* What the properties except; no step reads these. *)
    lost,     \* payloads the window trimmed, or that left with a replay plan
    skipped,  \* per client: another's fresh attach restarted the walk above this record
    halted    \* the last flush ended at a page it could not read

state == <<log, nextSeq, pos, pending, ephemerals, window, floor, latest>>
history == <<lost, skipped, halted>>
vars == <<state, conn, wake, opening, held, outbox, client, notices, version,
          changes, history>>

Rec(n) == [kind |-> "rec", n |-> n, agent |-> NoAgent]
Note(n) == [kind |-> "note", n |-> n, agent |-> NoAgent]
Status(a, v) == [kind |-> "status", n |-> v, agent |-> a]
Ephemeral == [kind |-> "ephemeral", n |-> 0, agent |-> NoAgent]
Frame(seq, payload) == [seq |-> seq, payload |-> payload]
NoFrame == Frame(0, Ephemeral)
Down == [who |-> NoAgent, phase |-> "down"]
Fresh == [cursor |-> 0, recs |-> {}, notes |-> {}, status |-> [a \in Agents |-> 0]]

\* Successive sequence numbers for a batch of payloads.
Sequenced(payloads) == [i \in 1..Len(payloads) |-> Frame(nextSeq + i - 1, payloads[i])]

Retainable(frame) == frame.payload.kind \in {"rec", "note"}
IsNote(payload) == payload.kind = "note"

\* Frames ReliableWindow::retain drops off the front: all but the newest.
Trimmed(all) == {f \in all : Cardinality({g \in all : g.seq > f.seq}) >= Budget}

\* retain, sequence_runtime and latest_status for the frames of one batch.
File(frames) ==
    LET all == window \cup {f \in Range(frames) : Retainable(f)}
        trimmed == Trimmed(all)
    IN /\ window' = all \ trimmed
       /\ floor' = IF trimmed = {} THEN floor ELSE Max({f.seq : f \in trimmed})
       /\ lost' = (lost \ {f.payload : f \in Range(frames)})
                    \cup {f.payload : f \in {g \in trimmed : IsNote(g.payload)}}
       /\ latest' = [a \in Agents |->
            LET mine == {i \in 1..Len(frames) : frames[i].payload.agent = a}
            IN IF mine = {} THEN latest[a] ELSE frames[Max(mine)]]

\* The listings of a set of frames in the order of their numbers.
BySeq(S) ==
    {s \in Bijection(1..Cardinality(S), S) :
        \A i, j \in 1..Cardinality(S) : i < j => s[i].seq <= s[j].seq}

\* Mutant of Covers: a cursor just below the floor is taken as covered.
MutCovers(last) == last # 0 /\ (floor = 0 \/ last + 1 >= floor)

\* ReliableWindow::covers.
Covers(last) == last # 0 /\ (floor = 0 \/ last >= floor)

\* Mutant of ReliableAfter: the frame the client saw last is sent again.
MutReliableAfter(last) == BySeq({f \in window : f.seq >= last})

\* collect_reliable_after: window and status frames past the cursor, by seq.
ReliableAfter(last) == BySeq({f \in window \cup Range(latest) : f.seq > last})

\* What only memory holds, and begin_replay keeps aside: the payloads of the
\* window's runtime frames by seq, then the statuses in the map's own order.
RuntimePayloads(h) ==
    LET notes == {f \in window : IsNote(f.payload)}
        known == Range(latest) \ {NoFrame}
    IN \E s \in BySeq(notes), t \in Bijection(1..Cardinality(known), known) :
          h = [i \in 1..Len(s \o t) |-> (s \o t)[i].payload]

\* load_entries: the records one round reads, n of them.  A round shorter than
\* a batch ends the walk; so does a page that cannot be read.
Round(n) == [i \in 1..n |-> Rec(pos + i)]
WholeRound == Min({Batch, log - pos})
Rounds == 0..WholeRound

-----------------------------------------------------------------------------
Init ==
    /\ log = 0
    /\ nextSeq = 1
    /\ pos = 0
    /\ pending = << >>
    /\ ephemerals = 0
    /\ window = {}
    /\ floor = 0
    /\ latest = [a \in Agents |-> NoFrame]
    /\ conn = Down
    /\ wake = FALSE
    /\ opening = << >>
    /\ held = << >>
    /\ outbox = << >>
    /\ client = [c \in Clients |-> Fresh]
    /\ notices = 0
    /\ version = [a \in Agents |-> 0]
    /\ changes = 0
    /\ lost = {}
    /\ skipped = [c \in Clients |-> 0]
    /\ halted = FALSE

(* Producers: they take the sequencer's lock and never wait for the server. *)
(* Each leaves a permit once what it brings can be read.                    *)

\* Mutant of AppendRecord: the store does not fire its notify.
MutAppendRecord ==
    /\ log < MaxLog
    /\ log' = log + 1
    /\ UNCHANGED <<nextSeq, pos, pending, ephemerals, window, floor, latest, conn, wake,
                   opening, held, outbox, client, notices, version, changes, history>>

AppendRecord ==
    /\ log < MaxLog
    /\ log' = log + 1
    /\ wake' = TRUE
    /\ UNCHANGED <<nextSeq, pos, pending, ephemerals, window, floor, latest, conn,
                   opening, held, outbox, client, notices, version, changes, history>>

EnqueueReliable ==
    /\ notices < MaxNotices
    /\ notices' = notices + 1
    /\ pending' = Append(pending, Note(notices + 1))
    /\ wake' = TRUE
    /\ UNCHANGED <<log, nextSeq, pos, ephemerals, window, floor, latest, conn,
                   opening, held, outbox, client, version, changes, history>>

\* A status replaces the agent's status still waiting, at its own place.
EnqueueStatus(a) ==
    /\ version[a] < MaxVersions
    /\ version' = [version EXCEPT ![a] = @ + 1]
    /\ LET mine == {i \in 1..Len(pending) : pending[i].agent = a}
           others == IF mine = {} THEN pending ELSE RemoveAt(pending, Max(mine))
       IN pending' = Append(others, Status(a, version[a] + 1))
    /\ wake' = TRUE
    /\ UNCHANGED <<log, nextSeq, pos, ephemerals, window, floor, latest, conn,
                   opening, held, outbox, client, notices, changes, history>>

\* A preview is dropped while its queue is full.  MaxSeq bounds how many come.
EnqueueEphemeral ==
    /\ ephemerals < EphemeralCap
    /\ nextSeq + Len(pending) < MaxSeq
    /\ ephemerals' = ephemerals + 1
    /\ pending' = Append(pending, Ephemeral)
    /\ wake' = TRUE
    /\ UNCHANGED <<log, nextSeq, pos, window, floor, latest, conn,
                   opening, held, outbox, client, notices, version, changes, history>>

-----------------------------------------------------------------------------
(* The server: the only consumer. *)

\* Mutant of BeginReplay: the runtime payloads are not kept aside before the
\* window is emptied.
MutBeginReplay(c, start) ==
    LET last == client[c].cursor
    IN IF Covers(last)
       THEN /\ opening' \in ReliableAfter(last)
            /\ held' = << >>
            /\ UNCHANGED <<pos, window, floor, skipped>>
       ELSE /\ opening' = << >>
            /\ held' = << >>
            /\ pos' = start
            /\ window' = {}
            /\ floor' = 0
            /\ skipped' = [d \in Clients |-> IF d = c THEN 0 ELSE start]

\* begin_replay: a covered cursor is answered from the window; another restarts
\* the walk and keeps aside what only memory holds.  The emptied window covers
\* every cursor again, those of clients that miss records below the start too.
BeginReplay(c, start) ==
    LET last == client[c].cursor
    IN IF Covers(last)
       THEN /\ opening' \in ReliableAfter(last)
            /\ held' = << >>
            /\ UNCHANGED <<pos, window, floor, skipped>>
       ELSE /\ opening' = << >>
            /\ RuntimePayloads(held')
            /\ pos' = start
            /\ window' = {}
            /\ floor' = 0
            /\ skipped' = [d \in Clients |-> IF d = c THEN 0 ELSE start]

\* Hello from a client that reconnects with its cursor, under the lease that
\* admits one connection.
Reconnect(c) ==
    /\ conn = Down
    /\ changes < MaxChanges
    /\ client[c].cursor # 0
    /\ changes' = changes + 1
    /\ conn' = [who |-> c, phase |-> "replay"]
    /\ BeginReplay(c, 0)
    /\ UNCHANGED <<log, nextSeq, pending, ephemerals, latest, wake, outbox, client, notices,
                   version, lost, halted>>

\* Hello from a frontend that has seen nothing: its walk starts at the oldest
\* record memory holds (replay_starts_at), and it reads those below by itself.
AttachFresh(c) ==
    /\ conn = Down
    /\ changes < MaxChanges
    /\ client[c].cursor = 0
    /\ changes' = changes + 1
    /\ conn' = [who |-> c, phase |-> "replay"]
    /\ \E start \in 0..log :
          /\ BeginReplay(c, start)
          /\ client' = [client EXCEPT ![c].recs = 1..start]
    /\ UNCHANGED <<log, nextSeq, pending, ephemerals, latest, wake, outbox, notices,
                   version, lost, halted>>

\* next_replay_batch: one round of the log, and after its last round the
\* payloads kept aside.  replay_events goes on to flush.
ReplayBatch ==
    /\ conn.phase = "replay"
    /\ outbox = << >>
    /\ \E n \in Rounds :
          LET complete == n < Batch
              frames == Sequenced(Round(n) \o (IF complete THEN held ELSE << >>))
          IN /\ outbox' = opening \o frames
             /\ opening' = << >>
             /\ nextSeq' = nextSeq + Len(frames)
             /\ pos' = pos + n
             /\ File(frames)
             /\ held' = IF complete THEN << >> ELSE held
             /\ conn' = IF complete THEN [conn EXCEPT !.phase = "flush"] ELSE conn
    /\ UNCHANGED <<log, pending, ephemerals, wake, client, notices, version, changes, skipped, halted>>

\* sequence_pending: the previews left waiting after a drain.
Drained == 0

\* next_serve_wake, drive_while: a permit is taken and the server flushes.
Wake ==
    /\ conn.phase = "live"
    /\ outbox = << >>
    /\ wake
    /\ wake' = FALSE
    /\ conn' = [conn EXCEPT !.phase = "flush"]
    /\ UNCHANGED <<state, opening, held, outbox, client, notices, version, changes, history>>

\* drive_turn, run_notification_turn, direct shell: a leg of a turn has ended,
\* and the server flushes whether or not a permit waits.
LegEnds ==
    /\ conn.phase = "live"
    /\ outbox = << >>
    /\ conn' = [conn EXCEPT !.phase = "flush"]
    /\ UNCHANGED <<state, wake, opening, held, outbox, client, notices, version, changes, history>>

\* flush_events / sequence_available: one round, with the waiting runtime
\* events once the walk is finished.  A page that cannot be read finishes it
\* as the end of the log does, and what is left waits for the next wake.
Flush ==
    /\ conn.phase = "flush"
    /\ outbox = << >>
    /\ \E n \in Rounds :
          LET finished == n < Batch
              frames == Sequenced(Round(n) \o (IF finished THEN pending ELSE << >>))
          IN /\ outbox' = frames
             /\ nextSeq' = nextSeq + Len(frames)
             /\ pos' = pos + n
             /\ File(frames)
             /\ pending' = IF finished THEN << >> ELSE pending
             /\ ephemerals' = IF finished THEN Drained ELSE ephemerals
             /\ conn' = IF finished THEN [conn EXCEPT !.phase = "live"] ELSE conn
             /\ halted' = (n < WholeRound)
    /\ UNCHANGED <<log, wake, opening, held, client, notices, version, changes, skipped>>

\* One frame reaches the client, which moves its cursor to the frame's seq.
Received(c, frame) ==
    LET p == frame.payload
    IN [c EXCEPT !.cursor = frame.seq,
                 !.recs = IF p.kind = "rec" THEN @ \cup {p.n} ELSE @,
                 !.notes = IF IsNote(p) THEN @ \cup {p.n} ELSE @,
                 !.status = [a \in Agents |-> IF p.agent = a THEN p.n ELSE @[a]]]

Send ==
    /\ conn # Down
    /\ outbox # << >>
    /\ client' = [client EXCEPT ![conn.who] = Received(@, Head(outbox))]
    /\ outbox' = Tail(outbox)
    /\ UNCHANGED <<state, conn, wake, opening, held, notices, version, changes, history>>

\* The connection fails in a send, of a replay too, or the client leaves:
\* frames not sent are gone, and so is the replay plan with what it held.
Disconnect ==
    /\ conn.phase = "live" \/ outbox # << >>
    /\ conn' = Down
    /\ outbox' = << >>
    /\ held' = << >>
    /\ lost' = lost \cup Range(held)
    /\ UNCHANGED <<state, wake, opening, client, notices, version, changes,
                   skipped, halted>>

\* dispatch_session_reset on the live connection: the epoch holds the clear
\* marker only, and the sequencer forgets everything but its numbers.  The
\* permits stay, with the marker's.
ResetSequencer ==
    /\ conn.phase = "live"
    /\ outbox = << >>
    /\ changes < MaxChanges
    /\ changes' = changes + 1
    /\ log' = 1
    /\ pos' = 0
    /\ pending' = << >>
    /\ ephemerals' = 0
    /\ window' = {}
    /\ floor' = 0
    /\ latest' = [a \in Agents |-> NoFrame]
    /\ wake' = TRUE
    /\ version' = [a \in Agents |-> 0]
    /\ client' = [c \in Clients |-> [client[c] EXCEPT !.recs = {}, !.status = version']]
    /\ lost' = {Note(n) : n \in 1..notices}
    /\ skipped' = [c \in Clients |-> 0]
    /\ UNCHANGED <<nextSeq, conn, opening, held, outbox, notices, halted>>

Next ==
    \/ AppendRecord \/ EnqueueReliable \/ EnqueueEphemeral
    \/ \E a \in Agents : EnqueueStatus(a)
    \/ \E c \in Clients : Reconnect(c) \/ AttachFresh(c)
    \/ ReplayBatch \/ Wake \/ LegEnds \/ Flush \/ Send \/ Disconnect \/ ResetSequencer

Spec == Init /\ [][Next]_vars

\* The server task runs while it has work: a permit is one, a record left
\* behind by a failed read is not.
Fairness == WF_vars(ReplayBatch) /\ WF_vars(Wake) /\ WF_vars(Flush) /\ WF_vars(Send)
FairSpec == Spec /\ Fairness

-----------------------------------------------------------------------------
Payload ==
    [kind : {"rec", "note", "status", "ephemeral"}, n : Nat, agent : Agents \cup {NoAgent}]
Frames == [seq : Nat, payload : Payload]

\* The shape of every variable.
TypeOK ==
    /\ {log, nextSeq, pos, ephemerals, floor, notices, changes} \subseteq Nat
    /\ pending \in Seq(Payload)
    /\ window \in SUBSET Frames /\ IsFiniteSet(window)
    /\ latest \in [Agents -> Frames]
    /\ conn \in [who : Clients \cup {NoAgent}, phase : {"down", "replay", "flush", "live"}]
    /\ wake \in BOOLEAN
    /\ opening \in Seq(Frames)
    /\ held \in Seq(Payload)
    /\ outbox \in Seq(Frames)
    /\ client \in [Clients -> [cursor : Nat, recs : SUBSET Nat, notes : SUBSET Nat,
                               status : [Agents -> Nat]]]
    /\ version \in [Agents -> Nat]
    /\ lost \subseteq Payload
    /\ skipped \in [Clients -> Nat]
    /\ halted \in BOOLEAN

\* Frames reach a client in sequence order and none of their numbers is ever
\* used twice, over reconnects, replays and clears (next_seq, after_cursor).
SeqOrdered ==
    /\ \A i \in 1..Len(outbox) : outbox[i].seq < nextSeq
    /\ \A i \in 1..Len(outbox) - 1 : outbox[i].seq < outbox[i + 1].seq
    /\ conn # Down /\ outbox # << >> => client[conn.who].cursor < outbox[1].seq

CaughtUp == conn.phase = "live" /\ outbox = << >> /\ pos = log

\* A client whose server has nothing left to send holds every durable record of
\* the epoch, wherever its connection failed before and whoever else attached in
\* between (covers, begin_replay).  The one exception: another frontend's fresh
\* attach restarted the walk above records this client had missed, and emptied
\* the window, which therefore covers its cursor (event_sequencer.rs:471-481).
DurableDelivered ==
    CaughtUp => \A n \in 1..log : n \in client[conn.who].recs \/ n <= skipped[conn.who]

\* Every notice that is not lost was delivered.
NoticesDelivered ==
    CaughtUp /\ pending = << >> =>
        \A n \in 1..notices : n \in client[conn.who].notes \/ Note(n) \in lost

\* The client shows the newest status of every agent, unless that one is lost.
StatusCurrent ==
    CaughtUp /\ pending = << >> =>
        \A a \in Agents : \/ client[conn.who].status[a] = version[a]
                          \/ Status(a, version[a]) \in lost

\* Such a client also holds what no log keeps, every notice and the newest
\* status of every agent, although an attach that is not covered empties the
\* window first (begin_replay) and another client may come in between.  Lost is
\* what the window's budget trimmed, and what a replay plan still held when the
\* connection failed in a send before the walk's last round: the plan is a local
\* of replay_events, and a notice in it is nowhere else (outbound_frames.rs:108-116).
MemoryDelivered == NoticesDelivered /\ StatusCurrent

\* A record reaches an attached client in the end: a permit left behind a round
\* brings the server back to it.  It is delivered if reads do not go on failing;
\* a flush that could not read a page returns as if it were done, and without a
\* new permit nothing reads that page again (outbound_frames.rs:166-170).
EventuallyDelivered ==
    <>[]~halted =>
        \A n \in 1..MaxLog :
            (log >= n /\ conn.phase = "live")
                ~> \/ log < n \/ conn = Down
                   \/ n \in client[conn.who].recs \/ n <= skipped[conn.who]

=============================================================================
