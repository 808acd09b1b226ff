------------------------------ MODULE LogState ------------------------------
(***************************************************************************)
(* The in-process log state of one session (houyicoder-session): the       *)
(* bounded window of newest rows, the ordinals a reader pages by, the fold *)
(* that rebuilds both from the log, and a reader walking the history while *)
(* appends trim the window under it.                                       *)
(*                                                                         *)
(* A durable record is its position in the log, so a row of the window is  *)
(* that position, or Delta for a streamed row that is never written.  A    *)
(* byte offset is the number of records before it.  A "wide" record is one *)
(* no read window can hold: it costs more than the resident budget and a   *)
(* read of the log counts its ordinal without returning it.                *)
(*                                                                         *)
(* SessionLog, which this module reduces to the kinds of its records, and  *)
(* this module share no name, so that one module can extend both.          *)
(***************************************************************************)
EXTENDS Naturals, Sequences, FiniteSetsExt

CONSTANTS
    Budget,      \* rows the resident window may hold (DEFAULT_RESIDENT_BYTES)
    Limit,       \* records one page asks for
    MaxLog,      \* bound on the records of the log
    MaxDeltas,   \* bound on streamed rows between two durable ones
    MaxStarts    \* bound on new processes

ASSUME StateAssumption ==
    /\ Budget \in Nat \ {0}
    /\ Limit \in Nat \ {0}
    /\ MaxLog \in Nat
    /\ MaxDeltas \in Nat
    /\ MaxStarts \in Nat

VARIABLES
    records,   \* the durable log: a sequence of record kinds
    st,        \* the session's LogState, or Absent
    app,       \* the append holding append_lock
    fold,      \* RestoredHistory each folding task has read and not installed
    walk,      \* a reader walking the history page by page
    ready,     \* restore_trajectory has run in this process
    clearing,  \* between the two steps of Runner::reset_trajectory
    starts,    \* processes started after the first
    \* History, which no guard reads.
    astray     \* something has put the state out of step with the log

stateVars == <<records, st, app, fold, walk, ready, clearing, starts, astray>>

Kinds == {"rec", "wide", "clear"}
Delta == 0
Folders == {"owner", "reader"}
NoOffset == [some |-> FALSE, at |-> 0]
At(n) == [some |-> TRUE, at |-> n]
NoAppend == [step |-> "idle", kind |-> "rec"]
Absent == [held |-> FALSE, window |-> << >>, base |-> 0, epoch |-> NoOffset, durable |-> 0]
Empty(epoch) == [held |-> TRUE, window |-> << >>, base |-> 0, epoch |-> epoch, durable |-> 0]
NoFold == Absent
WalkStart == [index |-> 0, offset |-> NoOffset, below |-> FALSE, horizon |-> 0,
              epoch |-> NoOffset, got |-> << >>, end |-> 0]

-----------------------------------------------------------------------------
(* LogState: push, trim, page. *)

Wide(l, row) == row # Delta /\ l[row] = "wide"

\* The window is within its budget, or one row is left of it.
Fits(l, rows) ==
    \/ Len(rows) <= 1
    \/ /\ Len(rows) <= Budget
       /\ \A i \in 1..Len(rows) : ~Wide(l, rows[i])

\* Rows trim() pops off the front.
Dropped(l, rows) ==
    Min({k \in 0..Len(rows) : Fits(l, SubSeq(rows, k + 1, Len(rows)))})

\* The members of a set in a sequence of rows, in their order.
Only(rows, S) ==
    LET d[n \in 0..Len(rows)] ==
          IF n = 0 THEN << >>
          ELSE IF rows[n] \in S THEN Append(d[n - 1], rows[n])
          ELSE d[n - 1]
    IN d[Len(rows)]
Durables(rows) == Only(rows, Nat \ {Delta})

\* Mutant of Push: base_index counts every dropped row, streamed ones too.
MutPush(l, s, row) ==
    LET rows == Append(s.window, row)
        k == Dropped(l, rows)
    IN [s EXCEPT !.window = SubSeq(rows, k + 1, Len(rows)),
                 !.base = @ + k,
                 !.durable = @ + (IF row = Delta THEN 0 ELSE 1)]

\* LogState::push and trim.
Push(l, s, row) ==
    LET rows == Append(s.window, row)
        k == Dropped(l, rows)
    IN [s EXCEPT !.window = SubSeq(rows, k + 1, Len(rows)),
                 !.base = @ + Len(Durables(SubSeq(rows, 1, k))),
                 !.durable = @ + (IF row = Delta THEN 0 ELSE 1)]

\* states.entry(session).or_default()
OrDefault(s) == IF s.held THEN s ELSE Empty(NoOffset)

\* LogState::page: durable rows from an ordinal onward, at most Limit.
Page(s, from) ==
    LET rows == Durables(s.window)
        skip == from - s.base
        last == IF skip + Limit <= Len(rows) THEN skip + Limit ELSE Len(rows)
    IN SubSeq(rows, skip + 1, last)

-----------------------------------------------------------------------------
(* Reading the log: fold_epoch and read_page. *)

\* The offset the current epoch starts at: the newest clear, or the head.
EpochStart(l) == Max({0} \cup {p - 1 : p \in {q \in 1..Len(l) : l[q] = "clear"}})

Readable(l) == {p \in EpochStart(l) + 1..Len(l) : l[p] # "wide"}

\* fold_epoch: the newest unbroken run of readable records, trimmed to the
\* budget, and the counts of the whole epoch.  A wide record takes an ordinal
\* and holds no row.
FoldEpoch(l) ==
    LET start == EpochStart(l)
        newest == Max(Readable(l))
        first == Min({p \in Readable(l) : \A q \in p..newest : q \in Readable(l)})
        oldest == IF newest - first < Budget THEN first ELSE newest - Budget + 1
    IN [Empty(At(start)) EXCEPT
          !.durable = Len(l) - start,
          !.window = IF Readable(l) = {} THEN << >>
                     ELSE [i \in 1..newest - oldest + 1 |-> oldest + i - 1],
          !.base = IF Readable(l) = {} THEN 0 ELSE oldest - start - 1]

\* Mutant of LogPage: the epoch's offset does not resolve a position that
\* carries none of its own.
MutLogPage(l, w) == [rows |-> << >>, index |-> w.index, offset |-> w.offset]

\* read_page: walk forward from the position until the horizon, the limit or
\* the end of the log, counting an ordinal for every record passed.
LogPage(l, w) ==
    LET off == IF w.offset.some THEN w.offset.at ELSE w.epoch.at
        ord == IF w.offset.some THEN w.index ELSE 0
        Taken(n) == {p \in off + 1..off + n :
                        l[p] # "wide" /\ ord + (p - off - 1) >= w.index}
        stops == {n \in 0..Len(l) - off :
                    \/ ord + n >= w.horizon
                    \/ Cardinality(Taken(n)) >= Limit
                    \/ off + n = Len(l)}
        n == Min(stops)
    IN IF ~w.offset.some /\ ~w.epoch.some
       THEN [rows |-> << >>, index |-> w.index, offset |-> w.offset]
       ELSE [rows |-> Only([i \in 1..n |-> off + i], Taken(n)),
             index |-> ord + n, offset |-> At(off + n)]

-----------------------------------------------------------------------------
StateInit ==
    /\ records = << >>
    /\ st = Absent
    /\ app = NoAppend
    /\ fold = [f \in Folders |-> NoFold]
    /\ walk = WalkStart
    /\ ready = TRUE
    /\ clearing = FALSE
    /\ starts = 0
    /\ astray = FALSE

\* The append lock is free and the owner has restored the session.  Nothing
\* keeps an append away from a fold or from between a clear's two steps.
CanAppend ==
    /\ ready
    /\ app = NoAppend

\* needs_epoch_offset
NeedsEpoch == ~st.held \/ ~st.epoch.some

\* append_locked takes the lock; a record that opens an epoch discards the
\* window and notes where the log stands.
Open(kind) ==
    /\ app' = [step |-> "opened", kind |-> kind]
    /\ st' = IF NeedsEpoch THEN Empty(At(Len(records))) ELSE st

\* A caller appends a durable event.
AppendDurable ==
    /\ CanAppend
    /\ Len(records) < MaxLog
    /\ \E kind \in {"rec", "wide"} : Open(kind)
    /\ UNCHANGED <<records, fold, walk, ready, clearing, starts, astray>>

\* The backend write succeeded: the record is in the log and not yet noted.
BackendWrote ==
    /\ app.step = "opened"
    /\ records' = Append(records, app.kind)
    /\ app' = [app EXCEPT !.step = "written"]
    /\ UNCHANGED <<st, fold, walk, ready, clearing, starts, astray>>

\* The append is over.  With a clear's marker so is dispatch_session_reset,
\* which goes on after a failed marker and restarts the reader's walk.
AppendOver ==
    /\ app' = NoAppend
    /\ IF app.kind = "clear"
       THEN clearing' = FALSE /\ walk' = WalkStart
       ELSE UNCHANGED <<clearing, walk>>
    /\ UNCHANGED <<fold, ready, starts>>

\* The backend write failed and left no record: append answers Err, and the
\* state keeps the epoch start_epoch gave it.  Of a clear's marker that epoch
\* is one the log does not have (the caller only warns).
BackendFailed ==
    /\ app.step = "opened"
    /\ AppendOver
    /\ astray' = (astray \/ app.kind = "clear")
    /\ UNCHANGED <<records, st>>

\* The write landed and its sync failed: append answers Err, and the log has a
\* record the state never notes.  (A torn line is SessionLog's question.)
BackendUnsynced ==
    /\ app.step = "opened"
    /\ records' = Append(records, app.kind)
    /\ AppendOver
    /\ astray' = TRUE
    /\ UNCHANGED st

\* The rows of a state folded from a log whose newest record is wide end below
\* what it counts: the fold's gap_after_run is not part of the state.
Gapped(s) == s.base + Len(Durables(s.window)) # s.durable

\* note_durable.  A row pushed after a gap takes the ordinal of the wide record.
NoteDurable ==
    /\ app.step = "written"
    /\ st' = Push(records, OrDefault(st), Len(records))
    /\ AppendOver
    /\ astray' = (astray \/ Gapped(st))
    /\ UNCHANGED records

\* A streamed row: no backend, no durable counter.
NoteDelta ==
    /\ CanAppend
    /\ Cardinality({i \in DOMAIN st.window : st.window[i] = Delta}) < MaxDeltas
    /\ st' = Push(records, OrDefault(st), Delta)
    /\ UNCHANGED <<records, app, fold, walk, ready, clearing, starts, astray>>

\* Runner::reset_trajectory, first step: the log state is dropped, whatever
\* append is under way.  The task that runs it is the walk's own, so no page of
\* the walk is being read.
ResetTrajectory ==
    /\ ready
    /\ ~clearing
    /\ ~walk.below
    /\ Len(records) < MaxLog
    /\ st' = Absent
    /\ clearing' = TRUE
    /\ UNCHANGED <<records, app, fold, walk, ready, starts, astray>>

\* Second step: the marker is appended like any durable event.  It opens the
\* new epoch, and with it a state in step with the log, unless an append or a
\* fold has come between and opened one before it.
AppendMarker ==
    /\ clearing
    /\ CanAppend
    /\ Open("clear")
    /\ astray' = ~NeedsEpoch
    /\ UNCHANGED <<records, fold, walk, ready, clearing, starts>>

\* The process ends, at any step of an append or of a clear, and a new one
\* opens the log.
NewProcess ==
    /\ starts < MaxStarts
    /\ starts' = starts + 1
    /\ st' = Absent
    /\ app' = NoAppend
    /\ fold' = [f \in Folders |-> NoFold]
    /\ walk' = WalkStart
    /\ ready' = FALSE
    /\ clearing' = FALSE
    /\ astray' = FALSE
    /\ UNCHANGED records

-----------------------------------------------------------------------------
(* Folding and walking. *)

\* Since the fold was read the log has grown, or a record of it is in flight.
Overtaken(f) ==
    app # NoAppend \/ fold[f].epoch.at + fold[f].durable # Len(records)

\* commit_restore: install the folded history; an empty one drops the state.
CommitRestore(f) ==
    /\ st' = IF fold[f].durable = 0 THEN Absent ELSE fold[f]
    /\ fold' = [fold EXCEPT ![f] = NoFold]
    /\ astray' = (astray \/ Overtaken(f))

\* restore_trajectory, which runs before the session's first append.
RestoreRead ==
    /\ ~ready
    /\ fold["owner"] = NoFold
    /\ fold' = [fold EXCEPT !["owner"] = FoldEpoch(records)]
    /\ UNCHANGED <<records, st, app, walk, ready, clearing, starts, astray>>

RestoreCommit ==
    /\ ~ready
    /\ fold["owner"].held
    /\ CommitRestore("owner")
    /\ ready' = TRUE
    /\ UNCHANGED <<records, app, walk, clearing, starts>>

\* A page over a session this process holds nothing of: fold_session.  Any
\* reader may ask, a search of the conversation while a clear runs too.
FoldSession ==
    /\ ~st.held
    /\ fold["reader"] = NoFold
    /\ fold' = [fold EXCEPT !["reader"] = FoldEpoch(records)]
    /\ UNCHANGED <<records, st, app, walk, ready, clearing, starts, astray>>

FoldCommit ==
    /\ fold["reader"].held
    /\ CommitRestore("reader")
    /\ UNCHANGED <<records, app, walk, ready, clearing, starts>>

\* The walk is the server task's, which is inside dispatch_session_reset while
\* a clear runs.
CanRead == ~clearing /\ st.held

Deliver(w, rows, index, offset) ==
    [w EXCEPT !.got = @ \o rows, !.index = index, !.offset = offset, !.below = FALSE]

\* trajectory_page answered by the window (WindowRead::Held).  A page without
\* records ends the walk for now: what the state counts has been read.
ReadHeld ==
    /\ CanRead
    /\ ~walk.below
    /\ walk.index >= st.base
    /\ LET rows == Page(st, walk.index)
       IN walk' = IF rows = << >>
                  THEN [walk EXCEPT !.end = st.durable]
                  ELSE Deliver(walk, rows, walk.index + Len(rows), NoOffset)
    /\ walk' # walk
    /\ UNCHANGED <<records, st, app, fold, ready, clearing, starts, astray>>

\* The position is older than the window (WindowRead::Below): the reader keeps
\* the horizon it saw and goes to the log.
ReadBelow ==
    /\ CanRead
    /\ ~walk.below
    /\ walk.index < st.base
    /\ walk' = [walk EXCEPT !.below = TRUE, !.horizon = st.base, !.epoch = st.epoch]
    /\ UNCHANGED <<records, st, app, fold, ready, clearing, starts, astray>>

\* Mutant of ReadLog: the position moves by the records returned, so a record
\* passed over takes no ordinal.
MutReadLog ==
    /\ walk.below
    /\ LET page == LogPage(records, walk)
       IN walk' = Deliver(walk, page.rows, walk.index + Len(page.rows), page.offset)
    /\ UNCHANGED <<records, st, app, fold, ready, clearing, starts, astray>>

\* read_page.  A page that moved without a record continues at its position.
ReadLog ==
    /\ walk.below
    /\ LET page == LogPage(records, walk)
       IN walk' = Deliver(walk, page.rows, page.index, page.offset)
    /\ UNCHANGED <<records, st, app, fold, ready, clearing, starts, astray>>

StateNext ==
    \/ AppendDurable \/ BackendWrote \/ BackendFailed \/ BackendUnsynced
    \/ NoteDurable \/ NoteDelta
    \/ ResetTrajectory \/ AppendMarker \/ NewProcess
    \/ RestoreRead \/ RestoreCommit \/ FoldSession \/ FoldCommit
    \/ ReadHeld \/ ReadBelow \/ ReadLog

StateSpec == StateInit /\ [][StateNext]_stateVars

\* The append future, the clear and the reader run to completion.
StateFairness ==
    /\ WF_stateVars(BackendWrote) /\ WF_stateVars(NoteDurable) /\ WF_stateVars(AppendMarker)
    /\ WF_stateVars(RestoreRead \/ RestoreCommit) /\ WF_stateVars(FoldCommit)
    /\ WF_stateVars(ReadHeld \/ ReadBelow \/ ReadLog)
FairStateSpec == StateSpec /\ StateFairness

-----------------------------------------------------------------------------
Quiet == app = NoAppend /\ ~clearing /\ ready /\ \A f \in Folders : fold[f] = NoFold

\* The shape of every variable.
StateTypeOK ==
    LET Offset == [some : BOOLEAN, at : Nat]
        State == [held : BOOLEAN, window : Seq(Nat), base : Nat, epoch : Offset, durable : Nat]
    IN /\ records \in Seq(Kinds)
       /\ st \in State
       /\ app \in [step : {"idle", "opened", "written"}, kind : Kinds]
       /\ fold \in [Folders -> State]
       /\ walk \in [index : Nat, offset : Offset, below : BOOLEAN, horizon : Nat,
                    epoch : Offset, got : Seq(Nat), end : Nat]
       /\ ready \in BOOLEAN
       /\ clearing \in BOOLEAN
       /\ starts \in Nat
       /\ astray \in BOOLEAN

\* Between appends the log state is the log's: its epoch is the newest clear
\* boundary, it counts every record of the epoch, and the window holds them at
\* the ordinals it claims, up to the newest a read can hold (append_locked,
\* commit_restore, trim).  It is so until one of five things happens, each of
\* which the code lets happen: a fold is installed that an append overtook, a
\* record follows the gap a wide newest record left in a fold, a clear's marker
\* finds an epoch opened before it, the marker is not written, or a record
\* lands whose append failed.  A later clear or process is in step again.
StateMirrorsLog ==
    Quiet /\ st.held /\ ~astray =>
        LET rows == Durables(st.window)
            start == EpochStart(records)
        IN /\ st.durable > 0 => st.epoch = At(start)
           /\ st.durable = Len(records) - start
           /\ st.base + Len(rows) <= st.durable
           /\ \A i \in 1..Len(rows) : rows[i] = start + st.base + i
           /\ \A p \in start + st.base + Len(rows) + 1..Len(records) : records[p] = "wide"

\* A walk reads the epoch's records in order and without repeats, and passes
\* over none that a read could hold, while appends trim the window, deltas
\* come and go and processes restart at any step and on any log, until the
\* state it pages by is astray (trajectory_page).
WalkLosesNothing ==
    LET got == {walk.got[i] : i \in 1..Len(walk.got)}
        reached == Max({walk.end + EpochStart(records)} \cup got)
    IN ~clearing /\ ~astray =>
        /\ \A i \in 1..Len(walk.got) - 1 : walk.got[i] < walk.got[i + 1]
        /\ \A p \in EpochStart(records) + 1..reached : records[p] = "wide" \/ p \in got

\* A reader that keeps paging catches up with everything the log state counts,
\* or the state is dropped, replaced or astray first.
WalkCatchesUp ==
    \A n \in 1..MaxLog :
        (~clearing /\ st.held /\ st.durable >= n)
            ~> (walk.end >= n \/ clearing \/ ~ready \/ st.durable < n \/ astray)

\* trajectory.rs: "Appending writes here; reading never does."  What a reader's
\* fold installs never takes away a record an append has noted.
ReadingNeverDrops == [][FoldCommit => ~st.held \/ st'.durable >= st.durable]_stateVars

\* status.rs: the log state is dropped first "so the marker appended afterwards
\* is the only event in the fresh log state".
MarkerOpensEpoch ==
    [][NoteDurable /\ app.kind = "clear" => st'.durable = 1]_stateVars

=============================================================================
