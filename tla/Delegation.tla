----------------------------- MODULE Delegation -----------------------------
(***************************************************************************)
(* A parent session and the children it delegates to: how the ending of a  *)
(* child reaches the parent's log and the parent's model.                  *)
(*                                                                         *)
(*   - a model call of the agent tool starts a child's task and either     *)
(*     waits for its ending or is answered at once with an acknowledgement *)
(*     (houyicoder-service, composition/multi_agent/spawn_exec);           *)
(*   - whoever takes the child's EndingClaim first - its run's end, the    *)
(*     reader who sends it to the background, the wait budget - decides    *)
(*     whether the waiting call or the notification queue gets the ending  *)
(*     (core, agent/multi_agent/ending.rs);                                *)
(*   - the child's task writes the return boundary; after a restart, or    *)
(*     when that write failed, the entry of a later turn does it           *)
(*     (orphan_reconcile.rs), and writes what the model is still owed.     *)
(*                                                                         *)
(* The log is durable.  The tasks, the queue, the claims and the turn die  *)
(* with the process; the turn alone dies with its client.                  *)
(***************************************************************************)
EXTENDS Integers, Sequences, FiniteSets

CONSTANTS
    MaxCalls,    \* bound: delegation calls of the model
    MaxSetbacks  \* bound: restarts, failed reads and appends of the parent's log,
                 \* turns dropped or stopped, and context clears, together

ASSUME BoundsAssumption == MaxCalls \in Nat /\ MaxSetbacks \in Nat

\* The child a call creates has the call's own number; a call that continues an
\* earlier child has that child's.
Calls == 1..MaxCalls
Kids == Calls

VARIABLES
    log,    \* the parent's log: calls, results, spawns, returns, notices, clears
    task,   \* per call, its child's task
    turn,   \* the parent's turn
    scan,   \* the reconciliation pass of the turn
    gen,    \* ScanGeneration
    queue,  \* queued_notifications, each with the call whose child it reports
    gap,    \* history: the calls whose notice was taken and never appended
            \* (spilt) and those whose return was never written (unreturned),
            \* the children a pass judged while a task was building them (hasty)
    setbacks  \* how many of them have happened

vars == <<log, task, turn, scan, gen, queue, gap, setbacks>>

-----------------------------------------------------------------------------
(* Reading a log.                                                          *)

Entry(t, c, k, how) == [t |-> t, c |-> c, k |-> k, how |-> how]

At(p, S(_)) == {n \in 1..Len(p) : S(p[n])}
Newest(S) == IF S = {} THEN 0 ELSE CHOOSE n \in S : \A m \in S : m <= n
Oldest(S) == IF S = {} THEN 0 ELSE CHOOSE n \in S : \A m \in S : n <= m

Spawns(p, k) == At(p, LAMBDA e : e.t = "spawn" /\ e.k = k)
Returns(p, k) == At(p, LAMBDA e : e.t = "return" /\ e.k = k)
Notices(p, k) == At(p, LAMBDA e : e.t = "notice" /\ e.k = k)
Results(p, c) == At(p, LAMBDA e : e.t = "result" /\ e.c = c)

\* The model's epoch: what follows the newest clear marker.
Epoch(p) == Newest(At(p, LAMBDA e : e.t = "clear"))
Visible(p, c) == \E n \in At(p, LAMBDA e : e.t = "call" /\ e.c = c) : n > Epoch(p)
AnsweredInView(p, c) == \E n \in Results(p, c) : n > Epoch(p)

\* Spawns minus returns in event order, floored at zero.
Depth(p, k) ==
    LET d[n \in 0..Len(p)] ==
          IF n = 0 THEN 0
          ELSE IF n \in Spawns(p, k) THEN d[n - 1] + 1
          ELSE IF n \in Returns(p, k) /\ d[n - 1] > 0 THEN d[n - 1] - 1
          ELSE d[n - 1]
    IN d[Len(p)]
HasOpenSpawn(p, k) == Depth(p, k) > 0

\* completion_notice_pending: no notice in the epoch follows the newest spawn.
NoticePending(p, k) ==
    LET inView(S) == {n \in S : n > Epoch(p)}
    IN inView(Notices(p, k)) = {}
       \/ Newest(inView(Notices(p, k))) < Newest(inView(Spawns(p, k)))

\* fold and owed_record: what the log says the model is still owed about k.
CallOf(p, k) == p[Newest(Spawns(p, k))].c
LastReturn(p, k) == Newest({n \in Returns(p, k) : n > Newest(Spawns(p, k))})
LaunchedInBackground(p, k) ==
    LET answered == Oldest(Results(p, CallOf(p, k)))
    IN LastReturn(p, k) # 0 /\ answered # 0 /\ answered < LastReturn(p, k)

\* Mutant of OwedRecord: an answered call is owed nothing once it is closed.
MutOwedRecord(p, k) ==
    IF Spawns(p, k) = {} THEN "none"
    ELSE IF Visible(p, CallOf(p, k)) /\ ~AnsweredInView(p, CallOf(p, k)) THEN "answer"
    ELSE IF HasOpenSpawn(p, k) THEN "notice" ELSE "none"
OwedRecord(p, k) ==
    LET c == CallOf(p, k)
        orphaned == LastReturn(p, k) # 0 /\ p[LastReturn(p, k)].how = "orphan"
        unreported == LaunchedInBackground(p, k) /\ AnsweredInView(p, c)
    IN IF Spawns(p, k) = {} THEN "none"
       ELSE IF Visible(p, c) /\ ~AnsweredInView(p, c) THEN "answer"
       ELSE IF HasOpenSpawn(p, k) THEN "notice"
       ELSE IF ~NoticePending(p, k) THEN "none"
       ELSE IF unreported \/ (orphaned /\ ~Visible(p, c)) THEN "notice"
       ELSE "none"

\* pending_approvals: every call of the log without a result.  Calls are
\* numbered in log order, so the first of them is the smallest.
Unanswered(p) ==
    {c \in Calls : /\ At(p, LAMBDA e : e.t = "call" /\ e.c = c) # {}
                   /\ Results(p, c) = {}}

-----------------------------------------------------------------------------
(* The child's task.  pc is where it stands:                               *)
(*   start  admitted, its child is being built                             *)
(*   built  the spawn is recorded, the child not yet registered            *)
(*   run    registered and running                                         *)
(*   tail   its terminal is published, cleanup and hooks run               *)
(*   hold   it holds the boundary claim and writes the return              *)
(*   end    over                                                           *)

NoTask == [pc |-> "none", kid |-> 0, back |-> FALSE, resume |-> FALSE,
           ending |-> "undecided", refused |-> FALSE]
Running == {"run", "tail", "hold"}

\* Mutant of Live: the entry goes with the child's terminal.
MutLive(k) == \E i \in Calls : task[i].kid = k /\ task[i].pc = "run"
\* The registry holds a child from its announcement until its runner is gone.
Live(k) == \E i \in Calls : task[i].kid = k /\ task[i].pc \in Running
Busy(i) == task[i].pc \in Running \cup {"start", "built"}

\* The session ids a resume has claimed; the task carries the claim.
Reserved(k) == \E i \in Calls : task[i].kid = k /\ task[i].resume /\ Busy(i)

NoScan == [at |-> 0, gen |-> 0, left |-> {}, cur |-> 0, step |-> "off", ok |-> TRUE]

\* BoundaryClaims: the children whose boundary somebody is writing.
Claimed(k) ==
    \/ \E i \in Calls : task[i].kid = k /\ task[i].pc = "hold"
    \/ scan.cur = k /\ HasOpenSpawn(SubSeq(log, 1, scan.at), k)

NoTurn == [pc |-> "idle", call |-> 0, how |-> "none", todo |-> <<>>, last |-> FALSE]

Init ==
    /\ log = <<>>
    /\ task = [i \in Calls |-> NoTask]
    /\ turn = NoTurn
    /\ scan = NoScan
    /\ gen = [requested |-> 1, scanned |-> 0]
    /\ queue = <<>>
    /\ gap = [spilt |-> {}, hasty |-> {}, unreturned |-> {}]
    /\ setbacks = 0

Setback == setbacks < MaxSetbacks /\ setbacks' = setbacks + 1
Write(e) == log' = Append(log, e)

\* A failed or refused return asks for another pass.
Reopen == [gen EXCEPT !.requested = @ + 1]

-----------------------------------------------------------------------------
(* The turn.                                                               *)

\* Runner::run, up to the scan.
Enter ==
    /\ turn.pc = "idle"
    /\ turn' = [NoTurn EXCEPT !.pc = IF gen.scanned # gen.requested
                                     THEN "scan" ELSE "reconcile"]
    /\ UNCHANGED <<log, task, scan, gen, queue, gap, setbacks>>

\* Runner::run_notification_turn: nothing is reconciled.
NotificationTurn ==
    /\ turn.pc = "idle" /\ queue # <<>>
    /\ turn' = [NoTurn EXCEPT !.pc = "boundary"]
    /\ UNCHANGED <<log, task, scan, gen, queue, gap, setbacks>>

\* reconcile_tool_results: every call without a result is answered.
Reconcile ==
    /\ turn.pc = "reconcile"
    /\ IF Unanswered(log) = {}
       THEN turn' = [turn EXCEPT !.pc = "boundary"] /\ UNCHANGED log
       ELSE Write(Entry("result", Oldest(Unanswered(log)), 0, "interrupted"))
            /\ UNCHANGED turn
    /\ UNCHANGED <<task, scan, gen, queue, gap, setbacks>>

\* drain_turn_boundary takes the whole queue, then appends notice by notice.
Drained(todo) == [turn EXCEPT !.pc = IF todo = <<>> THEN "model" ELSE "notices",
                              !.todo = todo]
TakeNotices ==
    /\ turn.pc = "boundary"
    /\ turn' = Drained(queue)
    /\ queue' = <<>>
    /\ UNCHANGED <<log, task, scan, gen, gap, setbacks>>

\* append_notification: only while the log still owes it.
AppendNotice ==
    /\ turn.pc = "notices"
    /\ LET i == Head(turn.todo)
       IN IF NoticePending(log, task[i].kid)
          THEN Write(Entry("notice", i, task[i].kid, "none"))
          ELSE UNCHANGED log
    /\ turn' = Drained(Tail(turn.todo))
    /\ UNCHANGED <<task, scan, gen, queue, gap, setbacks>>

\* The model gives its answer.
Finish ==
    /\ turn.pc = "model"
    /\ turn' = NoTurn
    /\ UNCHANGED <<log, task, scan, gen, queue, gap, setbacks>>

\* The model delegates: the call is appended.
Delegate(i) ==
    /\ turn.pc = "model"
    /\ i = 1 + Cardinality(At(log, LAMBDA e : e.t = "call"))
    /\ Write(Entry("call", i, 0, "none"))
    /\ turn' = [turn EXCEPT !.pc = "spawn", !.call = i]
    /\ UNCHANGED <<task, scan, gen, queue, gap, setbacks>>

\* The model can name a child whose id a result or a notice gave it.
Named(k) ==
    \/ Notices(log, k) # {}
    \/ \E i \in Calls : /\ At(log, LAMBDA e : e.t = "spawn" /\ e.c = i /\ e.k = k) # {}
                        /\ \E n \in Results(log, i) : log[n].how # "interrupted"

\* run_background_spawn and run_foreground_spawn: a child to continue is
\* claimed, and the child's task starts.
Spawn(i, k, back) ==
    /\ turn.pc = "spawn" /\ turn.call = i
    /\ k = i \/ Named(k)
    /\ IF k # i /\ (Live(k) \/ Reserved(k))
       THEN /\ turn' = [turn EXCEPT !.pc = "result", !.how = "refused"]
            /\ UNCHANGED task
       ELSE /\ turn' = [turn EXCEPT !.pc = "wait"]
            /\ task' = [task EXCEPT ![i] =
                          [NoTask EXCEPT !.pc = "start", !.kid = k, !.back = back,
                                         !.resume = k # i,
                                         !.ending = IF back THEN "notify" ELSE @]]
    /\ UNCHANGED <<log, scan, gen, queue, gap, setbacks>>

\* The child is announced: a background call is answered.
Launched(i) ==
    /\ turn.pc = "wait" /\ turn.call = i
    /\ task[i].back /\ task[i].pc \in Running \cup {"end"} /\ ~task[i].refused
    /\ turn' = [turn EXCEPT !.pc = "result", !.how = "ack"]
    /\ UNCHANGED <<log, task, scan, gen, queue, gap, setbacks>>

\* Mutant of SettledOutcome: the inline result is returned whatever was claimed.
MutSettledOutcome(t) == "answer"
\* settled_outcome: an ending claimed for the notice is not returned as well.
SettledOutcome(t) == IF t.ending = "notify" THEN "ack" ELSE "answer"

\* The task is over: its result, or the refusal to build a child.
Joined(i) ==
    /\ turn.pc = "wait" /\ turn.call = i
    /\ task[i].pc = "end" /\ (~task[i].back \/ task[i].refused)
    /\ turn' = [turn EXCEPT !.pc = "result",
                            !.how = IF task[i].refused THEN "refused"
                                    ELSE SettledOutcome(task[i])]
    /\ UNCHANGED <<log, task, scan, gen, queue, gap, setbacks>>

\* The hand-over signal, or a wait budget that finds the child handed over.
Released(i) ==
    /\ turn.pc = "wait" /\ turn.call = i
    /\ ~task[i].back /\ task[i].pc \in Running /\ task[i].ending = "notify"
    /\ turn' = [turn EXCEPT !.pc = "result", !.how = "ack"]
    /\ UNCHANGED <<log, task, scan, gen, queue, gap, setbacks>>

\* The wait budget elapses first: claim_notification.
BudgetElapsed(i) ==
    /\ turn.pc = "wait" /\ turn.call = i
    /\ ~task[i].back /\ task[i].pc \in Running /\ task[i].ending = "undecided"
    /\ task' = [task EXCEPT ![i].ending = "notify"]
    /\ turn' = [turn EXCEPT !.pc = "result", !.how = "ack"]
    /\ UNCHANGED <<log, scan, gen, queue, gap, setbacks>>

\* The tool's result is appended and the loop goes on, or ends when stopped.
AppendResult ==
    /\ turn.pc = "result"
    /\ Write(Entry("result", turn.call, 0, turn.how))
    /\ turn' = IF turn.last THEN NoTurn ELSE [NoTurn EXCEPT !.pc = "boundary"]
    /\ UNCHANGED <<task, scan, gen, queue, gap, setbacks>>

\* Esc while the tool is waited for: the call is answered as interrupted.
StopTurn ==
    /\ turn.pc \in {"spawn", "wait"} /\ Setback
    /\ turn' = [turn EXCEPT !.pc = "result", !.how = "interrupted", !.last = TRUE]
    /\ UNCHANGED <<log, task, scan, gen, queue, gap>>

\* What a turn that ends here had taken from the queue and not appended.
Spill == [gap EXCEPT !.spilt = @ \cup {turn.todo[n] : n \in DOMAIN turn.todo}]

\* The turn's future is dropped with its client: nothing after the last append
\* happens, and a claim of the scan is released.
DropTurn ==
    /\ turn.pc # "idle" /\ Setback
    /\ turn' = NoTurn /\ scan' = NoScan
    /\ gap' = IF turn.pc = "notices" THEN Spill ELSE gap
    /\ UNCHANGED <<log, task, gen, queue>>

\* An append of the turn's own fails: the run returns the error.
TurnFails ==
    /\ turn.pc \in {"reconcile", "notices", "result"} /\ Setback
    /\ turn.pc = "reconcile" => Unanswered(log) # {}
    /\ turn' = NoTurn
    /\ gap' = IF turn.pc = "notices" THEN Spill ELSE gap
    /\ UNCHANGED <<log, task, scan, gen, queue>>

\* The user clears the context between turns.
Clear ==
    /\ turn.pc = "idle" /\ Setback
    /\ Write(Entry("clear", 0, 0, "none"))
    /\ UNCHANGED <<task, turn, scan, gen, queue, gap>>

-----------------------------------------------------------------------------
(* The task.                                                               *)

\* spawn_child appends the spawn record; the child is registered after it.
RecordSpawn(i) ==
    /\ task[i].pc = "start"
    /\ Write(Entry("spawn", i, task[i].kid, "none"))
    /\ task' = [task EXCEPT ![i].pc = "built"]
    /\ UNCHANGED <<turn, scan, gen, queue, gap, setbacks>>

SpawnFails(i) ==
    /\ task[i].pc = "start" /\ Setback
    /\ task' = [task EXCEPT ![i].pc = "end", ![i].refused = TRUE]
    /\ UNCHANGED <<log, turn, scan, gen, queue, gap>>

Announce(i) ==
    /\ task[i].pc = "built"
    /\ task' = [task EXCEPT ![i].pc = "run"]
    /\ UNCHANGED <<log, turn, scan, gen, queue, gap, setbacks>>

\* background_child: the reader sends a waited-for child to the background.
Handover(i) ==
    /\ task[i].pc \in Running /\ ~task[i].back /\ task[i].ending = "undecided"
    /\ task' = [task EXCEPT ![i].ending = "notify"]
    /\ UNCHANGED <<log, turn, scan, gen, queue, gap, setbacks>>

\* Mutant of Ending: the publisher reads the mode the child started in.
MutEnding(t) == IF t.back THEN "notify" ELSE "caller"
\* claim_caller: the run's end takes an undecided claim for the caller.
Ending(t) == IF t.ending = "undecided" THEN "caller" ELSE t.ending

\* The run reaches its terminal, is cancelled, cut or fails, and publishes it.
RunEnds(i) ==
    /\ task[i].pc = "run"
    /\ task' = [task EXCEPT ![i].pc = "tail", ![i].ending = Ending(task[i])]
    /\ queue' = IF Ending(task[i]) = "notify" THEN Append(queue, i) ELSE queue
    /\ UNCHANGED <<log, turn, scan, gen, gap, setbacks>>

\* write_return_boundary, under the claim.
ClaimReturn(i) ==
    /\ task[i].pc = "tail"
    /\ IF ~Claimed(task[i].kid)
       THEN task' = [task EXCEPT ![i].pc = "hold"] /\ UNCHANGED gen
       ELSE task' = [task EXCEPT ![i].pc = "end"] /\ gen' = Reopen
    /\ UNCHANGED <<log, turn, scan, queue, gap, setbacks>>

WriteReturn(i) ==
    /\ task[i].pc = "hold"
    /\ Write(Entry("return", 0, task[i].kid, "live"))
    /\ task' = [task EXCEPT ![i].pc = "end"]
    /\ UNCHANGED <<turn, scan, gen, queue, gap, setbacks>>

ReturnFails(i) ==
    /\ task[i].pc = "hold" /\ Setback
    /\ task' = [task EXCEPT ![i].pc = "end"]
    /\ gen' = Reopen
    /\ gap' = [gap EXCEPT !.unreturned = @ \cup {i}]
    /\ UNCHANGED <<log, turn, scan, queue>>

-----------------------------------------------------------------------------
(* The reconciliation pass.                                                *)

Prefix == SubSeq(log, 1, scan.at)

\* run_once reads the generation, then the log.
ScanRead ==
    /\ turn.pc = "scan" /\ scan.step = "off"
    /\ scan' = [NoScan EXCEPT !.at = Len(log), !.gen = gen.requested, !.step = "read"]
    /\ UNCHANGED <<log, task, turn, gen, queue, gap, setbacks>>

ScanReadFails ==
    /\ turn.pc = "scan" /\ scan.step = "off" /\ Setback
    /\ turn' = [turn EXCEPT !.pc = "reconcile"]
    /\ UNCHANGED <<log, task, scan, gen, queue, gap>>

\* live_children, read after the log.
ScanLive ==
    /\ scan.step = "read"
    /\ scan' = [scan EXCEPT !.step = "pick",
                            !.left = {k \in Kids : ~Live(k) /\ OwedRecord(Prefix, k) # "none"}]
    /\ UNCHANGED <<log, task, turn, gen, queue, gap, setbacks>>

\* The pass turns to the next child, and claims an open boundary.
ScanPick(k) ==
    /\ scan.step = "pick" /\ k \in scan.left
    /\ scan' = IF ~HasOpenSpawn(Prefix, k)
               THEN [scan EXCEPT !.left = @ \ {k}, !.cur = k, !.step = "record"]
               ELSE IF Claimed(k)
               THEN [scan EXCEPT !.left = @ \ {k}, !.ok = FALSE]
               ELSE [scan EXCEPT !.left = @ \ {k}, !.cur = k, !.step = "check"]
    /\ UNCHANGED <<log, task, turn, gen, queue, gap, setbacks>>

Picked(ok) == [scan EXCEPT !.cur = 0, !.step = "pick", !.ok = @ /\ ok]

\* is_live under the claim; the child's log is read after it.
ScanCheck ==
    /\ scan.step = "check"
    /\ IF Live(scan.cur)
       THEN scan' = Picked(FALSE) /\ UNCHANGED gap
       ELSE /\ scan' = [scan EXCEPT !.step = "return"]
            /\ gap' = [gap EXCEPT !.hasty = @ \cup
                         {k \in {scan.cur} : \E i \in Calls : task[i].kid = k /\ Busy(i)}]
    /\ UNCHANGED <<log, task, turn, gen, queue, setbacks>>

\* Mutant of Settles: the return is appended without reading the log again.
MutSettles(k) == TRUE
\* settle_open_return: the append is conditional on the spawn being open.
Settles(k) == HasOpenSpawn(log, k)

ScanReturn ==
    /\ scan.step = "return"
    /\ IF Settles(scan.cur)
       THEN /\ Write(Entry("return", 0, scan.cur, "orphan"))
            /\ scan' = [scan EXCEPT !.step = "record"]
       ELSE UNCHANGED log /\ scan' = Picked(TRUE)
    /\ UNCHANGED <<task, turn, gen, queue, gap, setbacks>>

\* The record the model is owed: the answer, or the notice in its place.
ScanRecord ==
    /\ scan.step = "record"
    /\ LET k == scan.cur
           c == CallOf(Prefix, k)
           answer == OwedRecord(Prefix, k) = "answer"
       IN IF answer /\ Visible(log, c) /\ ~AnsweredInView(log, c)
          THEN Write(Entry("result", c, 0, "orphan"))
          ELSE IF ~(answer /\ AnsweredInView(log, c)) /\ NoticePending(log, k)
          THEN Write(Entry("notice", c, k, "none"))
          ELSE UNCHANGED log
    /\ scan' = Picked(TRUE)
    /\ UNCHANGED <<task, turn, gen, queue, gap, setbacks>>

ScanWriteFails ==
    /\ scan.step \in {"return", "record"} /\ Setback
    /\ scan' = Picked(FALSE)
    /\ UNCHANGED <<log, task, turn, gen, queue, gap>>

\* Mutant of Recorded: the generation requested by now is taken as scanned.
MutRecorded == [gen EXCEPT !.scanned = gen.requested]
\* ScanGeneration::record.
Recorded == IF gen.requested = scan.gen THEN [gen EXCEPT !.scanned = scan.gen] ELSE gen

ScanEnd ==
    /\ scan.step = "pick" /\ scan.left = {}
    /\ gen' = IF scan.ok THEN Recorded ELSE gen
    /\ scan' = NoScan
    /\ turn' = [turn EXCEPT !.pc = "reconcile"]
    /\ UNCHANGED <<log, task, queue, gap, setbacks>>

\* The process dies and another one opens the session.
Crash ==
    /\ Setback
    /\ task' = [i \in Calls |-> IF task[i].pc = "none" THEN NoTask
                                ELSE [NoTask EXCEPT !.pc = "end", !.kid = task[i].kid]]
    /\ turn' = NoTurn /\ scan' = NoScan
    /\ gen' = [requested |-> 1, scanned |-> 0]
    /\ queue' = <<>>
    /\ UNCHANGED <<log, gap>>

-----------------------------------------------------------------------------

TurnStep ==
    \/ Reconcile \/ TakeNotices \/ AppendNotice \/ Finish \/ AppendResult
    \/ \E i \in Calls : \/ Delegate(i) \/ Launched(i) \/ Joined(i) \/ Released(i)
                        \/ \E k \in Kids, back \in BOOLEAN : Spawn(i, k, back)
    \/ ScanRead \/ ScanLive \/ ScanCheck \/ ScanReturn \/ ScanRecord \/ ScanEnd
    \/ \E k \in Kids : ScanPick(k)
TaskStep(i) ==
    RecordSpawn(i) \/ Announce(i) \/ RunEnds(i) \/ ClaimReturn(i) \/ WriteReturn(i)
Fault ==
    \/ StopTurn \/ DropTurn \/ TurnFails \/ ScanReadFails \/ ScanWriteFails \/ Crash
    \/ \E i \in Calls : SpawnFails(i) \/ ReturnFails(i)
Next ==
    \/ Enter \/ NotificationTurn \/ TurnStep \/ Clear \/ Fault
    \/ \E i \in Calls : TaskStep(i) \/ Handover(i) \/ BudgetElapsed(i)

Spec == Init /\ [][Next]_vars

\* The runtime polls the turn and every child's task; a run that has started
\* ends by itself, by its ceiling or by a cancel; a user, or the drain that sees
\* a queued notice, comes back.
FairSpec ==
    /\ Spec
    /\ WF_vars(TurnStep) /\ WF_vars(Enter)
    /\ \A i \in Calls : WF_vars(TaskStep(i))

-----------------------------------------------------------------------------
(* Properties.                                                             *)

\* The types of the variables; no pass has read a generation nobody requested.
Kinds == {"call", "result", "spawn", "return", "notice", "clear"}

TypeOK ==
    /\ \A n \in 1..Len(log) :
          log[n] \in [t : Kinds, c : Calls \cup {0}, k : Kids \cup {0},
                      how : {"none", "live", "orphan", "answer", "ack",
                             "refused", "interrupted"}]
    /\ task \in [Calls -> [pc : {"none", "start", "built", "end"} \cup Running,
                           kid : Kids \cup {0}, back : BOOLEAN, resume : BOOLEAN,
                           ending : {"undecided", "caller", "notify"},
                           refused : BOOLEAN]]
    /\ turn.pc \in {"idle", "scan", "reconcile", "boundary", "notices",
                    "model", "spawn", "wait", "result"}
    /\ scan.step \in {"off", "read", "pick", "check", "return", "record"}
    /\ gen.scanned <= gen.requested

\* The spawn a call recorded, and whether its child is over.
SpawnAt(i) == Newest(At(log, LAMBDA e : e.t = "spawn" /\ e.c = i))
Ended(i) == task[i].pc = "end" /\ SpawnAt(i) # 0

\* The ending of call i's child as the model reads it: a result that carries it
\* or a notice.  A call answered as interrupted is told that nobody waited.
NoticesOf(i) == At(log, LAMBDA e : e.t = "notice" /\ e.c = i)
AnsweredAs(i, hows) == \E n \in Results(log, i) : log[n].how \in hows
Told(i) == NoticesOf(i) # {} \/ AnsweredAs(i, {"answer", "orphan", "interrupted"})

\* A child no later call continues, that no pass judged while it was built.
Plain(i) ==
    /\ \A j \in Calls : task[j].kid = task[i].kid => j = i
    /\ task[i].kid \notin gap.hasty

\* What the claims are for: every return closes a spawn that was open, so a live
\* ending and the pass never both write one.  The exception is a child a pass
\* judged between its spawn record and its registration.
Closes(n) == Depth(SubSeq(log, 1, n - 1), log[n].k) > 0
OneReturnOnceBuilt ==
    \A k \in Kids \ gap.hasty : \A n \in Returns(log, k) : Closes(n)

\* The registry and the reservation together: one child is never driven by two
\* tasks, however the call that started the first one ended.  The exception is
\* the one of OneReturnOnceBuilt: a child that a pass judged between its spawn
\* record and its registration, whose notice lets the model name it too early.
OneDriver ==
    \A i, j \in Calls :
        i # j /\ Busy(i) /\ Busy(j) /\ task[i].kid = task[j].kid
            => task[i].kid \in gap.hasty

\* EndingClaim and completion_notice_pending: an epoch holds at most one notice
\* of an ending, and an ending the waiting call returned is not announced too,
\* unless its return could not be written.
NoSecondReport ==
    \A i \in Calls : Plain(i) =>
        /\ Cardinality({n \in NoticesOf(i) : n > Epoch(log)}) <= 1
        /\ NoticesOf(i) # {} /\ AnsweredAs(i, {"answer"}) => i \in gap.unreturned

\* Where an ending the model was not told of still waits: in the queue or the
\* turn that drains it, for a result, or in the log with a pass due.
Waits(i) ==
    \/ \E n \in DOMAIN queue : queue[n] = i
    \/ turn.pc = "notices" /\ \E n \in DOMAIN turn.todo : turn.todo[n] = i
    \/ Results(log, i) = {}
    \/ OwedRecord(log, task[i].kid) # "none" /\ gen.scanned # gen.requested

\* The launch acknowledgement was appended after the return.
LateAck(i) ==
    \E n \in Returns(log, task[i].kid), m \in Results(log, i) :
        log[m].how = "ack" /\ SpawnAt(i) < n /\ n < m
\* Endings that may stay untold: taken by a turn that ended before appending
\* them, or in a context the user cleared.
Lost(i) == i \in gap.spilt \/ SpawnAt(i) < Epoch(log)

\* No ending is dropped: through restarts, failed appends and dropped turns a
\* child that is over is told of, or its report still waits somewhere that a
\* later turn reads.  Not covered are the endings the code does lose: a notice
\* taken from the queue by a turn that ended before appending it, or of a context
\* the user cleared (Lost); a child that ended before its launch was acknowledged,
\* which reads as one that was waited for (LateAck); and a child that
\* another call continues or that a pass judged while it was built (not Plain).
EndingKept ==
    \A i \in Calls :
        Ended(i) /\ Plain(i) /\ ~Lost(i) /\ ~LateAck(i) => Told(i) \/ Waits(i)

\* The parent's model eventually learns how every child ended.
EndingTold ==
    \A i \in Calls : Ended(i) ~> Told(i) \/ ~Plain(i) \/ Lost(i) \/ LateAck(i)

\* ScanGeneration: a return that could not be written, or was refused the claim,
\* asks for another pass, so an ended child's boundary is closed in the end.  A
\* continued child is excepted: a pass that finds it running leaves the spawn of
\* its earlier run and still counts as complete.
BoundaryClosed ==
    \A i \in Calls : Ended(i) ~> ~HasOpenSpawn(log, task[i].kid) \/ ~Plain(i)

\* orphan_reconcile.rs, run_once: "a live ending and this scan cannot both write
\* one".  Violated: a pass that is still due finds the spawn of a child whose
\* task has not registered it.
OneReturn == \A k \in Kids : \A n \in Returns(log, k) : Closes(n)

\* append.rs, append_notification: "the model reads one report per ending".
\* Violated: when the return of a waited-for child fails, the pass announces the
\* child whose result the call already holds.
OneReport ==
    \A i \in Calls : Plain(i) =>
        Cardinality(NoticesOf(i)) + (IF AnsweredAs(i, {"answer", "orphan"}) THEN 1 ELSE 0) <= 1

\* orphan_reconcile.rs, owed_record: "a host that stopped before the parent's
\* next boundary drained it owes the model that notice".  Violated: a child that
\* ends before its launch is acknowledged reads as one that was waited for.
NoticeRestored ==
    \A i \in Calls : Ended(i) /\ Plain(i) /\ ~Lost(i) => Told(i) \/ Waits(i)

\* handover.rs, settled_outcome: "the notification the publisher queued carries
\* it".  Violated: the notice of a child's earlier run, appended after the spawn
\* that continues it, counts as the notice of the later run.
ContinuedTold ==
    \A i \in Calls : Ended(i) /\ task[i].kid \notin gap.hasty /\ ~Lost(i) /\ ~LateAck(i)
        => Told(i) \/ Waits(i)
=============================================================================
