--------------------------- MODULE ChildAdmission ---------------------------
(***************************************************************************)
(* The slots a parent's children run in, and the shutdown that waits for   *)
(* them.                                                                   *)
(*                                                                         *)
(*   - ConcurrencyGate lets Cap children run and QueueCap more spawn calls *)
(*     wait in line (core, agent/multi_agent/concurrency_gate.rs);         *)
(*   - RunningChildren files each admitted child so that the shutdown can  *)
(*     end it and wait for it (composition/multi_agent/children.rs);       *)
(*   - ParentCancelLink carries a stop of the turn to the child it waits   *)
(*     on, and to no child the reader sent to the background               *)
(*     (composition/multi_agent/spawn_exec/handover.rs).                   *)
(*                                                                         *)
(* A spawn call, the task of its child and the shutdown run on different   *)
(* threads: every lock and every channel is a step of its own.             *)
(***************************************************************************)
EXTENDS Integers, Sequences, FiniteSets, SequencesExt

CONSTANTS
    Fore,      \* spawn calls whose turn waits for the child
    Back,      \* spawn calls that return when the child has started
    Cap,       \* ConcurrencyGate: children that run at once
    QueueCap,  \* ConcurrencyGate: calls that wait for a slot
    MaxStuck   \* bound: tasks that never answer their token

ASSUME GateAssumption ==
    Cap \in Nat \ {0} /\ QueueCap \in Nat /\ MaxStuck \in Nat /\ Fore \cap Back = {}
    /\ IsFiniteSet(Fore) /\ IsFiniteSet(Back)

Spawns == Fore \cup Back

VARIABLES
    call,    \* per spawn, where its call stands
    task,    \* per spawn, where its child's task stands
    sem,     \* the semaphore: free permits, the line, who was handed a permit
    queued,  \* ConcurrencyGate.queued
    reg,     \* RunningChildren: closing, filed slots, drained slots, watches
    token,   \* per spawn, what cancelled the child's lifecycle token, if anything
    ending,  \* per spawn, its EndingClaim
    link,    \* per spawn, its ParentCancelLink
    bound,   \* the spawns whose claim the link can read
    join,    \* join_children: its step, the children left and the one it waits for
    stuck,   \* tasks that neither end nor answer their token
    aborted, \* tasks the join aborted
    freed    \* history: children already handed over when their turn stopped

vars == <<call, task, sem, queued, reg, token, ending, link, bound, join, stuck,
          aborted, freed>>

-----------------------------------------------------------------------------
(* The semaphore: a permit given back goes to the first in line.           *)

GiveBack(m) ==
    IF m.line = <<>> THEN [m EXCEPT !.free = @ + 1]
    ELSE [m EXCEPT !.line = Tail(@), !.handed = @ \cup {Head(m.line)}]
Take(m) == [m EXCEPT !.free = @ - 1]

Step(s, from, to) == call[s] = from /\ call' = [call EXCEPT ![s] = to]

Alive(s) == task[s] \in {"builds", "runs"}

Init ==
    /\ call = [s \in Spawns |-> "idle"]
    /\ task = [s \in Spawns |-> "none"]
    /\ sem = [free |-> Cap, line |-> <<>>, handed |-> {}]
    /\ queued = 0
    /\ reg = [closing |-> FALSE, filed |-> {}, drained |-> {},
              watch |-> [s \in Spawns |-> "none"]]
    /\ token = [s \in Spawns |-> "live"]
    /\ ending = [s \in Spawns |-> IF s \in Back THEN "notify" ELSE "undecided"]
    /\ link = [s \in Spawns |-> "none"]
    /\ bound = {} /\ stuck = {} /\ aborted = {} /\ freed = {}
    /\ join = [pc |-> "none", left |-> {}, cur |-> {}]

-----------------------------------------------------------------------------
(* The spawn call.                                                         *)

\* try_acquire: a background spawn is refused when no slot is free.
TryAcquire(s) ==
    /\ s \in Back
    /\ Step(s, "idle", IF sem.free > 0 THEN "holds" ELSE "over")
    /\ sem' = IF sem.free > 0 THEN Take(sem) ELSE sem
    /\ UNCHANGED <<task, queued, reg, token, ending, link, bound, join, stuck,
                   aborted, freed>>

\* run_foreground_spawn: refused at once during a shutdown; else the fast path of
\* acquire.
Acquire(s) ==
    LET go == ~reg.closing /\ sem.free > 0
    IN /\ s \in Fore
       /\ Step(s, "idle", IF reg.closing THEN "over" ELSE IF go THEN "holds" ELSE "full")
       /\ sem' = IF go THEN Take(sem) ELSE sem
       /\ UNCHANGED <<task, queued, reg, token, ending, link, bound, join, stuck,
                      aborted, freed>>

Room == queued < QueueCap
\* take_queue_slot, later: Rejected when the queue is full.
Reject(s) ==
    /\ ~Room
    /\ Step(s, "full", "over")
    /\ UNCHANGED <<task, sem, queued, reg, token, ending, link, bound, join, stuck,
                   aborted, freed>>
\* ... or a place in it; a permit freed meanwhile is taken at once, else the call
\* joins the line.
Park(s) ==
    /\ Room
    /\ \/ sem.free > 0 /\ Step(s, "full", "holds") /\ sem' = Take(sem) /\ queued' = queued
       \/ sem.free = 0 /\ Step(s, "full", "parked")
          /\ sem' = [sem EXCEPT !.line = Append(@, s)] /\ queued' = queued + 1
    /\ UNCHANGED <<task, reg, token, ending, link, bound, join, stuck, aborted, freed>>

QueueSlotDrop == queued' = queued - 1

\* The wait was handed a permit: the queue slot goes back.
Wake(s) ==
    /\ s \in sem.handed
    /\ Step(s, "parked", "holds")
    /\ sem' = [sem EXCEPT !.handed = @ \ {s}]
    /\ QueueSlotDrop
    /\ UNCHANGED <<task, reg, token, ending, link, bound, join, stuck, aborted,
                   freed>>

\* Mutant of LeaveLine: a permit already handed over is lost with the wait.
MutLeaveLine(s) == [sem EXCEPT !.line = RemoveFirst(@, s), !.handed = @ \ {s}]
\* Mutant of LeaveLine: the wait is over and its place in line is kept.
MutLeaveLinePlace(s) ==
    IF s \in sem.handed THEN GiveBack([sem EXCEPT !.handed = @ \ {s}]) ELSE sem
LeaveLine(s) ==
    IF s \in sem.handed THEN GiveBack([sem EXCEPT !.handed = @ \ {s}])
    ELSE [sem EXCEPT !.line = RemoveFirst(@, s)]
\* The caller's future is dropped while it waits.
Leave(s) ==
    /\ Step(s, "parked", "over")
    /\ sem' = LeaveLine(s)
    /\ QueueSlotDrop
    /\ UNCHANGED <<task, reg, token, ending, link, bound, join, stuck, aborted,
                   freed>>

Open == ~reg.closing
\* admit_child: the call is refused and its permit dropped, or the slot is filed and
\* the task started (detach, supervise): the permit, the completion signal and the
\* lease ride the task.
Admit(s) ==
    /\ Step(s, "holds", IF Open THEN "started" ELSE "over")
    /\ reg' = IF Open THEN [reg EXCEPT !.filed = @ \cup {s}] ELSE reg
    /\ sem' = IF Open THEN sem ELSE GiveBack(sem)
    /\ task' = IF Open THEN [task EXCEPT ![s] = "builds"] ELSE task
    /\ link' = IF Open /\ s \in Fore THEN [link EXCEPT ![s] = "armed"] ELSE link
    /\ UNCHANGED <<queued, token, ending, bound, join, stuck, aborted, freed>>

\* attach_watch: refused when the slot is gone, and then a background call waits
\* for the task itself.
AttachWatch(s) ==
    /\ Step(s, "started", IF s \in Back /\ s \notin reg.filed THEN "inline" ELSE "waits")
    /\ reg' = IF s \in reg.filed
              THEN [reg EXCEPT !.watch[s] = IF s \in Fore THEN "awaited" ELSE "detached"]
              ELSE reg
    /\ UNCHANGED <<task, sem, queued, token, ending, link, bound, join, stuck,
                   aborted, freed>>

\* The call returns: a background one once the child has started or its task is
\* gone, a foreground one when the task ends or its child was handed over.  A task
\* the join aborted is unwrapped as a panic.
Return(s) ==
    /\ \/ s \in Back /\ Step(s, "waits", "over") /\ task[s] \in {"runs", "drops", "ended"}
       \/ s \in Back /\ Step(s, "inline", "over") /\ task[s] = "ended"
       \/ s \in Fore /\ task[s] = "ended"
          /\ Step(s, "waits", IF s \in aborted THEN "panics" ELSE "over")
       \/ s \in Fore /\ ending[s] = "notify" /\ task[s] \in {"runs", "drops"}
          /\ Step(s, "waits", "over")
    /\ link' = [link EXCEPT ![s] = IF @ = "armed" THEN "none" ELSE @]
    /\ aborted' = IF task[s] = "ended" THEN aborted \ {s} ELSE aborted
    /\ UNCHANGED <<task, sem, queued, reg, token, ending, bound, join, stuck, freed>>

\* background_child, or the wait budget: the ending is claimed for the notice, which
\* lets the call return.
HandOver(s) ==
    /\ s \in Fore /\ task[s] = "runs" /\ ending[s] = "undecided"
    /\ ending' = [ending EXCEPT ![s] = "notify"]
    /\ UNCHANGED <<call, task, sem, queued, reg, token, link, bound, join, stuck,
                   aborted, freed>>

\* The turn is stopped, or its future dropped: the link reads the claim, if the
\* task has bound one.
Stop(s) ==
    /\ link[s] = "armed"
    /\ link' = [link EXCEPT ![s] = IF s \in bound /\ ending[s] = "notify"
                                   THEN "none" ELSE "cancels"]
    /\ freed' = IF ending[s] = "notify" THEN freed \cup {s} ELSE freed
    /\ call' = call \/ Step(s, "waits", "over")
    /\ UNCHANGED <<task, sem, queued, reg, token, ending, bound, join, stuck, aborted>>
\* ... and then cancels the child.
Forward(s) ==
    /\ link[s] = "cancels"
    /\ link' = [link EXCEPT ![s] = "none"]
    /\ token' = [token EXCEPT ![s] = IF @ = "live" THEN "turn" ELSE @]
    /\ UNCHANGED <<call, task, sem, queued, reg, ending, bound, join, stuck, aborted,
                   freed>>

-----------------------------------------------------------------------------
(* The child's task.                                                       *)

\* Mutant of Binding: the child is announced and its claim not yet shared.
MutBinding(s) == {}
\* supervise: the claim is bound before the child is announced.
Binding(s) == Fore \cap {s}
Announce(s) ==
    /\ s \notin stuck /\ task[s] = "builds"
    /\ bound' = bound \cup Binding(s)
    /\ task' = [task EXCEPT ![s] = "runs"]
    /\ UNCHANGED <<call, sem, queued, reg, token, ending, link, join, stuck, aborted,
                   freed>>

\* A construction, a hook or a run that hangs: the watchdog cancels the token and
\* then waits for the run like everyone else.
Hang(s) ==
    /\ Alive(s) /\ s \notin stuck /\ Cardinality(stuck) < MaxStuck
    /\ stuck' = stuck \cup {s}
    /\ UNCHANGED <<call, task, sem, queued, reg, token, ending, link, bound, join,
                   aborted, freed>>

\* The run is over - its own end, a refused construction, its ceiling, a cancelled
\* token - or the task was aborted: the lease leaves first.
Finish(s) ==
    /\ Alive(s) /\ (s \in aborted \/ s \notin stuck)
    /\ task' = [task EXCEPT ![s] = "drops"]
    /\ reg' = [reg EXCEPT !.filed = @ \ {s}]
    /\ ending' = [ending EXCEPT ![s] = IF @ = "undecided" THEN "caller" ELSE @]
    /\ UNCHANGED <<call, sem, queued, token, link, bound, join, stuck, aborted, freed>>

\* ... then the permit and the completion signal.  What only the task and the call's
\* link still read is forgotten.
Complete(s) ==
    /\ task[s] = "drops"
    /\ task' = [task EXCEPT ![s] = "ended"]
    /\ sem' = GiveBack(sem)
    /\ reg' = [reg EXCEPT !.watch[s] = "none"]
    /\ token' = [token EXCEPT ![s] = "live"]
    /\ ending' = [ending EXCEPT ![s] = "caller"]
    /\ link' = [link EXCEPT ![s] = "none"]
    /\ bound' = bound \ {s} /\ stuck' = stuck \ {s} /\ freed' = freed \ {s}
    /\ aborted' = IF call[s] = "over" THEN aborted \ {s} ELSE aborted
    /\ UNCHANGED <<call, queued, join>>

-----------------------------------------------------------------------------
(* join_children, which the release of the session's lock runs once.       *)

\* Mutant of Told: only the children a reader can reach are cancelled.
MutTold == {s \in Spawns : task[s] = "runs"}
Told == {s \in Spawns : task[s] = "runs"} \cup reg.filed
\* Under both locks: every token, the gate, the children set aside.
Close ==
    /\ join.pc = "none"
    /\ token' = [s \in Spawns |-> IF s \in Told /\ token[s] = "live" THEN "shutdown"
                                  ELSE token[s]]
    /\ reg' = [reg EXCEPT !.closing = TRUE,
                          !.drained = IF @ = {} THEN reg.filed ELSE @,
                          !.filed = IF reg.drained = {} THEN {} ELSE @]
    /\ join' = [join EXCEPT !.pc = "closed"]
    /\ UNCHANGED <<call, task, sem, queued, ending, link, bound, stuck, aborted, freed>>

TakeDrained ==
    /\ join.pc = "closed"
    /\ join' = [pc |-> "joins", left |-> reg.drained, cur |-> {}]
    /\ reg' = [reg EXCEPT !.drained = {}]
    /\ UNCHANGED <<call, task, sem, queued, token, ending, link, bound, stuck, aborted,
                   freed>>

\* The children are waited for one by one.
JoinNext ==
    /\ join.pc = "joins" /\ join.cur = {}
    /\ \/ \E s \in join.left : join' = [join EXCEPT !.left = @ \ {s}, !.cur = {s}]
       \/ join.left = {} /\ join' = [join EXCEPT !.pc = "done"]
    /\ UNCHANGED <<call, task, sem, queued, reg, token, ending, link, bound, stuck,
                   aborted, freed>>

\* Mutant of Joined: a child without a watch has no task to wait for.
MutJoined(s) == reg.watch[s] = "none" \/ task[s] = "ended"
Joined(s) == task[s] = "ended"
JoinOne(s) ==
    /\ join.pc = "joins" /\ join.cur = {s} /\ Joined(s)
    /\ join' = [join EXCEPT !.cur = {}]
    /\ UNCHANGED <<call, task, sem, queued, reg, token, ending, link, bound, stuck,
                   aborted, freed>>

\* Mutant of Abortable: only a detached task is aborted.
MutAbortable(s) == reg.watch[s] = "detached"
Abortable(s) == reg.watch[s] # "none"
\* The budget of a watched child elapses.
JoinTimeout(s) ==
    /\ join.cur = {s} /\ Abortable(s) /\ ~Joined(s)
    /\ aborted' = aborted \cup {s}
    /\ UNCHANGED <<call, task, sem, queued, reg, token, ending, link, bound, join,
                   stuck, freed>>

-----------------------------------------------------------------------------
CallStep(s) ==
    \/ TryAcquire(s) \/ Acquire(s) \/ Reject(s) \/ Park(s) \/ Wake(s)
    \/ Admit(s) \/ AttachWatch(s) \/ Return(s)
TaskStep(s) == Announce(s) \/ Finish(s) \/ Complete(s)
JoinStep ==
    TakeDrained \/ JoinNext \/ \E s \in Spawns : JoinOne(s) \/ JoinTimeout(s)

Next ==
    \/ \E s \in Spawns : \/ CallStep(s) \/ TaskStep(s) \/ Leave(s) \/ HandOver(s)
                         \/ Stop(s) \/ Forward(s) \/ Hang(s)
    \/ Close \/ JoinStep

\* Tasks, calls and the join are polled; nobody has to spawn, stop, hand over or
\* shut down.  A run that does not hang ends: watch_liveness bounds it.
Fairness ==
    /\ \A s \in Spawns :
         /\ WF_vars(call[s] # "idle" /\ CallStep(s))
         /\ WF_vars(TaskStep(s))
    /\ WF_vars(JoinStep)

Spec == Init /\ [][Next]_vars /\ Fairness

-----------------------------------------------------------------------------
TypeOK ==
    /\ call \in [Spawns -> {"idle", "full", "parked", "holds", "started",
                            "waits", "inline", "over", "panics"}]
    /\ task \in [Spawns -> {"none", "builds", "runs", "drops", "ended"}]
    /\ sem.free \in 0..Cap /\ ToSet(sem.line) \subseteq Spawns /\ sem.handed \subseteq Spawns
    /\ queued \in 0..Cardinality(Spawns)
    /\ reg.closing \in BOOLEAN /\ reg.filed \subseteq Spawns /\ reg.drained \subseteq Spawns
    /\ reg.watch \in [Spawns -> {"none", "detached", "awaited"}]
    /\ token \in [Spawns -> {"live", "turn", "shutdown"}]
    /\ ending \in [Spawns -> {"undecided", "caller", "notify"}]
    /\ link \in [Spawns -> {"none", "armed", "cancels"}]
    /\ bound \subseteq Spawns /\ stuck \subseteq Spawns /\ aborted \subseteq Spawns
    /\ freed \subseteq Spawns
    /\ join.pc \in {"none", "closed", "joins", "done"}
    /\ join.left \subseteq Spawns /\ join.cur \subseteq Spawns

\* concurrency_gate.rs: nothing leaks, however calls leave and tasks end.  Every
\* running slot is free, handed to a wait, held by a call or ridden by a task, and
\* none is free while a call is in line; the queue counter is the number of waits
\* that have not given their place back, and its bound is hard under contention.
SlotsAccounted ==
    LET held == {s \in Spawns : call[s] = "holds" \/ Alive(s) \/ task[s] = "drops"}
    IN /\ sem.free + Cardinality(sem.handed) + Cardinality(held) = Cap
       /\ sem.line # <<>> => sem.free = 0
       /\ queued = Cardinality({s \in Spawns : call[s] = "parked"})
       /\ queued <= QueueCap

\* children.rs, multi_agent.rs: an admission racing the shutdown meets a cancelled
\* token or a closed gate, never neither: once the gate is closed no child that may
\* still work has a live token.
TokenOrGate ==
    \A s \in Spawns : reg.closing /\ Alive(s) => token[s] # "live"

\* multi_agent.rs, before it reclaims the worktrees: "Every child is joined by this
\* point".  When the join is over no child works or will work.
JoinedAll ==
    \A s \in Spawns : join.pc = "done" => ~Alive(s)

\* handover.rs: a stop of the turn that follows a hand-over leaves the child alone.
FreedKeepRunning == \A s \in freed : token[s] # "turn"

\* concurrency_gate.rs: a wait the gate admitted is not evicted and is served, unless
\* its caller goes away or a hung child keeps its slot for ever.
ParkedServed ==
    \A s \in Spawns : call[s] = "parked" ~> call[s] # "parked" \/ stuck # {}

\* children.rs: the abort backstop.  The join returns, hung children included, unless
\* it waits for a hung child that was set aside before its task was watched.
JoinEnds ==
    join.pc = "closed" ~> \/ join.pc = "done"
                          \/ \E s \in join.cur : s \in stuck /\ reg.watch[s] = "none"

-----------------------------------------------------------------------------
(* Two things the comments say and the code does not do.                   *)

\* children.rs: "so a wedged task cannot hold the shutdown lock forever".
JoinAlwaysEnds == join.pc = "closed" ~> join.pc = "done"

\* handover.rs: a panic reaches the caller "as the panic it is"; an abort is no panic.
AbortIsNoPanic == \A s \in Spawns : call[s] # "panics"
=============================================================================
