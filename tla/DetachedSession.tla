--------------------------- MODULE DetachedSession ---------------------------
(***************************************************************************)
(* A detached session: one runner in a background process, clients that    *)
(* attach over a socket and go away at any time, and the questions the run *)
(* asks them.                                                              *)
(*                                                                         *)
(*   - serve_session takes the session's lease, offers again what the last *)
(*     client left unanswered, and then serves requests until the client   *)
(*     is gone (houyicoder-service, server/session.rs and server.rs);      *)
(*   - a run makes tool calls; the ones a rule gates come back as an       *)
(*     Interruption, are parked in the lease store, asked one by one, and  *)
(*     the run is resumed with the verdicts (core, agent/turn);            *)
(*   - a child agent asks through the bus: the ask is kept in a park and   *)
(*     published to whoever listens (composition/multi_agent/drive.rs).    *)
(*                                                                         *)
(* The run is a future owned by the connection that drives it: a client    *)
(* that leaves drops it wherever it stands.  What survives is the log (the *)
(* calls and their results), the parked turn, the runner's flags and the   *)
(* children.                                                               *)
(***************************************************************************)
EXTENDS Integers, FiniteSets, FiniteSetsExt

CONSTANTS
    Clients,      \* connections a client may open, one after the other or at once
    MaxCalls,     \* bound: tool calls the model and the user make
    MaxBatch,     \* bound: calls of one model response
    Kids,         \* children that ask the user once each
    MaxMessages,  \* bound: user messages and commands
    MaxNotes,     \* bound: notification turns
    MaxCloses,    \* bound: connections lost
    MaxEscapes    \* bound: session/cancel notifications

Calls == 1..MaxCalls

ASSUME KidsAssumption == MaxCalls \in Nat /\ Kids \cap Calls = {}

VARIABLES
    host,     \* the process: its runner is in the SessionHost, its socket is bound
    lease,    \* LifecycleState of the session in the lease store
    parked,   \* the PendingTurn in the lease store
    runner,   \* the runner's flags: paused, aborted, and its cancel token
    made,     \* calls appended to the log so far are 1..made
    gated,    \* the calls whose tool asks before it runs
    open,     \* ToolCall events without a ToolResult
    results,  \* how many ToolResults each call has
    runs,     \* how often each call's tool was started
    yes,      \* how often the user allowed each call
    kid,      \* each child's ask: waiting, settled by an answer, its timeout or
              \* a cancel, or dropped with the connection that showed it
    sv,       \* per connection, the state of its serve_session task
    gone,     \* the connections whose client has left
    used      \* how much of each bound is used up

vars == <<host, lease, parked, runner, made, gated, open, results, runs, yes, kid,
          sv, gone, used>>
log == <<made, gated, open, results, runs, yes>>

-----------------------------------------------------------------------------
(* The parked turn.  The code's lists of calls are all in log order, so a   *)
(* list is the set of its calls, and its head the least of them.            *)

NoTurn == [on |-> FALSE, remaining |-> {}, decided |-> {}]
Park(asks) == [on |-> TRUE, remaining |-> asks, decided |-> {}]

\* advance_pending: the head ask, whichever it is, becomes the decision.
Advance(turn, decision) ==
    IF ~turn.on THEN turn
    ELSE [turn EXCEPT !.remaining = @ \ {Min(@)},
                      !.decided = @ \cup {decision}]

(* The connection's task.  pc is where it stands:                          *)
(*   greet      handshake, trust, history replay                           *)
(*   reask      resume_pending shows the head of asks                      *)
(*   ask        collect_interruption_decisions shows the head of asks      *)
(*   reconcile  the run answers every open call as interrupted             *)
(*   drive      the run is about to call the model                         *)
(*   exec       the run executes a response's calls (todo, busy)           *)
(*   resume     the run is entered again with the verdicts in got          *)
(*   settle     the verdicts are applied to the open calls (todo, busy)    *)
(*   flush      a leg has returned; its events go out before asks are read *)
(*   park       the receiver is open and the children's park not yet read  *)
(*   kids       the children's asks found at the attach are shown          *)
(*   shell      a command the user typed is running                        *)
(*   idle       the serve loop waits                                       *)
RunPcs == {"reconcile", "drive", "exec", "resume", "settle"}
Pcs == RunPcs \cup {"off", "greet", "reask", "ask", "flush", "park", "kids", "shell",
                   "idle"}

Off == [pc |-> "off", from |-> "send", next |-> "drive", asks |-> {},
        got |-> {}, todo |-> {}, busy |-> {}, stop |-> FALSE, esc |-> FALSE,
        card |-> {}, kids |-> {}, loop |-> FALSE, loopq |-> {}, runq |-> {}]

Waiting == {k \in Kids : kid[k] = "waiting"}
Serving == {c \in Clients : sv[c].pc # "off"}

Init ==
    /\ host = [runner |-> FALSE, listens |-> FALSE]
    /\ lease = "none"
    /\ parked = NoTurn
    /\ runner = [paused |-> FALSE, aborted |-> FALSE, cancelled |-> FALSE]
    /\ made = 0 /\ gated = {} /\ open = {}
    /\ results = [i \in Calls |-> 0]
    /\ runs = [i \in Calls |-> 0]
    /\ yes = [i \in Calls |-> 0]
    /\ kid = [k \in Kids |-> "none"]
    /\ sv = [c \in Clients |-> Off]
    /\ gone = [c \in Clients |-> FALSE]
    /\ used = [messages |-> 0, notes |-> 0, closes |-> 0, escapes |-> 0]

\* At is the guard of a connection's own step: nothing moves under a card,
\* because drive_while awaits the child's answer inside its select arm.
At(c, pcs) == sv[c].pc \in pcs /\ sv[c].card = {}
Spend(what) == used' = [used EXCEPT ![what] = @ + 1]

-----------------------------------------------------------------------------
(* The process starts: the runner is put in the host, then the socket is    *)
(* bound.  Nothing takes a runner out again.                                *)

Insert ==
    /\ ~host.runner
    /\ host' = [host EXCEPT !.runner = TRUE]
    /\ UNCHANGED <<lease, parked, runner, log, kid, sv, gone, used>>

Listen ==
    /\ host.runner /\ ~host.listens
    /\ host' = [host EXCEPT !.listens = TRUE]
    /\ UNCHANGED <<lease, parked, runner, log, kid, sv, gone, used>>

-----------------------------------------------------------------------------
(* Attaching and leaving.                                                  *)

\* Mutant of LeaseFree: the check and the set are two steps, so a second
\* connection that looked before the first one set Running goes on.
MutLeaseFree == TRUE
\* try_take_lease refuses a session that is already served.
LeaseFree == lease # "Running"

\* serve_session up to serve.  The lease is taken first: a session without a
\* runner is refused with its lease left Running.
Attach(c) ==
    /\ sv[c].pc = "off" /\ host.listens
    /\ LeaseFree
    /\ lease' = "Running"
    /\ sv' = IF host.runner THEN [sv EXCEPT ![c] = [Off EXCEPT !.pc = "greet"]] ELSE sv
    /\ UNCHANGED <<host, parked, runner, log, kid, gone, used>>

Close(c) ==
    /\ sv[c].pc # "off" /\ ~gone[c]
    /\ used.closes < MaxCloses
    /\ Spend("closes")
    /\ gone' = [gone EXCEPT ![c] = TRUE]
    /\ UNCHANGED <<host, lease, parked, runner, log, kid, sv>>

\* Mutant of Exit: a serve that ends with an error returns early and leaves the
\* session marked Running.
MutExit(c) ==
    /\ lease' = IF gone[c] THEN lease ELSE "Detached"
    /\ gone' = [gone EXCEPT ![c] = FALSE]
    /\ sv' = [sv EXCEPT ![c] = Off]
\* serve returned: the lease is released, the parked turn is retained.  The
\* client may open another connection.
Exit(c) ==
    /\ lease' = "Detached"
    /\ gone' = [gone EXCEPT ![c] = FALSE]
    /\ sv' = [sv EXCEPT ![c] = Off]

\* The task notices that its client is gone.  A run it was driving is dropped
\* (OnClose::Abandon) with everything it had not yet appended.
Leave(c) ==
    /\ gone[c] /\ At(c, RunPcs \cup {"greet", "reask", "ask", "idle"})
    /\ Exit(c)
    /\ UNCHANGED <<host, parked, runner, log, kid, used>>

\* Mutant of Subscribed: the park is read first.
MutSubscribed(c, half) ==
    CASE half = 1 -> [sv[c] EXCEPT !.pc = "park", !.kids = Waiting]
      [] half = 2 -> [sv[c] EXCEPT !.pc = "kids", !.loop = TRUE]
\* The two halves of it: the serve loop's receiver is opened, then the park is
\* read, while the children run on.
Subscribed(c, half) ==
    CASE half = 1 -> [sv[c] EXCEPT !.pc = "park", !.loop = TRUE]
      [] half = 2 -> [sv[c] EXCEPT !.pc = "kids", !.kids = Waiting]

\* The end of resume_pending, of a reattached leg or of a request.
LegOver(c) ==
    sv' = [sv EXCEPT ![c] =
             IF @.from = "reattach" THEN [Subscribed(c, 1) EXCEPT !.from = "send"]
                                    ELSE [@ EXCEPT !.pc = "idle"]]

\* Handshake and replay are over: what the last client left is read.
Greet(c) ==
    /\ At(c, {"greet"})
    /\ IF parked.on
       THEN sv' = [sv EXCEPT ![c] = [@ EXCEPT !.pc = "reask", !.from = "reattach",
                                              !.asks = parked.remaining,
                                              !.got = parked.decided]]
       ELSE sv' = [sv EXCEPT ![c] = Subscribed(c, 1)]
    /\ UNCHANGED <<host, lease, parked, runner, log, kid, gone, used>>

\* take_pending_child_permissions.
ParkRead(c) ==
    /\ At(c, {"park"})
    /\ sv' = [sv EXCEPT ![c] = Subscribed(c, 2)]
    /\ UNCHANGED <<host, lease, parked, runner, log, kid, gone, used>>

-----------------------------------------------------------------------------
(* Asking.                                                                 *)

\* Mutant of AbortFlags: the durable flag is set whether or not the run is
\* paused on an ask.
MutAbortFlags == [runner EXCEPT !.aborted = TRUE, !.cancelled = TRUE]
\* Runner::abort: the durable flag only while the run is paused on an ask.
AbortFlags == [runner EXCEPT !.aborted = @ \/ runner.paused, !.cancelled = TRUE]

\* Mutant of Unpark: the parked turn is left in the store while the run goes on.
MutUnpark(turn) == turn
\* Every verdict is in: set_pending(None), and the run is resumed.  Nothing is
\* awaited between the last advance_pending and this, so no turn is ever found
\* parked with nothing left to ask.
Unpark(turn) == NoTurn
ToResume(s) == [s EXCEPT !.pc = "resume", !.asks = {}, !.runq = {}]

\* The store's turn after the verdict on the card that is shown.
Answered(call, ok) == Advance(parked, <<call, ok>>)

\* The user answers the card on screen (handle_approval,
\* reemit_and_settle_ask).  ok is the settled verdict: an allowed call whose
\* grant could not be installed is settled as refused.
Answer(c, ok) ==
    /\ At(c, {"ask", "reask"}) /\ ~gone[c] /\ sv[c].asks # {}
    /\ LET call == Min(sv[c].asks)
           last == sv[c].asks = {call} \/ (sv[c].pc = "ask" /\ runner.aborted)
           s == [sv[c] EXCEPT !.asks = @ \ {call}, !.got = @ \cup {<<call, ok>>}]
       IN /\ yes' = IF ok THEN [yes EXCEPT ![call] = @ + 1] ELSE yes
          /\ parked' = IF last THEN Unpark(Answered(call, ok)) ELSE Answered(call, ok)
          /\ sv' = [sv EXCEPT ![c] = IF last THEN ToResume(s) ELSE s]
    /\ UNCHANGED <<host, lease, runner, made, gated, open, results, runs, kid, gone, used>>

\* Esc on a card: the run is aborted and the card counts as refused.  The
\* first ask's batch stops only when the abort reached the paused run.
EscapeAsk(c) ==
    /\ At(c, {"ask", "reask"}) /\ ~gone[c] /\ sv[c].asks # {}
    /\ used.escapes < MaxEscapes /\ Spend("escapes")
    /\ runner' = AbortFlags
    /\ LET call == Min(sv[c].asks)
           last == sv[c].pc = "reask" \/ AbortFlags.aborted \/ sv[c].asks = {call}
           turn == IF sv[c].pc = "reask" THEN Answered(call, FALSE) ELSE parked
           s == [sv[c] EXCEPT !.asks = @ \ {call}, !.esc = TRUE,
                              !.got = @ \cup {<<call, FALSE>>}]
       IN /\ parked' = IF last THEN Unpark(turn) ELSE turn
          /\ sv' = [sv EXCEPT ![c] = IF last THEN ToResume(s) ELSE s]
    /\ UNCHANGED <<host, lease, log, kid, gone>>

\* A leg returned.  Its events are flushed first; only then is a new
\* interruption parked and its first card shown.
Flush(c) ==
    /\ At(c, {"flush"})
    /\ IF sv[c].asks = {}
       THEN LegOver(c) /\ UNCHANGED parked
       ELSE /\ parked' = Park(sv[c].asks)
            /\ sv' = [sv EXCEPT ![c] =
                        [@ EXCEPT !.pc = IF sv[c].from = "reattach"
                                         THEN "reask" ELSE "ask",
                                  !.got = {}, !.esc = FALSE]]
    /\ UNCHANGED <<host, lease, runner, log, kid, gone, used>>

\* The flush fails because the client is gone: serve returns.
FlushFails(c) ==
    /\ At(c, {"flush"}) /\ gone[c]
    /\ Exit(c)
    /\ UNCHANGED <<host, parked, runner, log, kid, used>>

-----------------------------------------------------------------------------
(* The run.                                                                *)

\* A ToolResult is appended for the call.
Record(call) ==
    /\ open' = open \ {call}
    /\ results' = [results EXCEPT ![call] = @ + 1]

Start(call) == runs' = [runs EXCEPT ![call] = @ + 1]

Fresh == [paused |-> FALSE, aborted |-> FALSE, cancelled |-> FALSE]
Paused == [runner EXCEPT !.paused = TRUE]

\* The leg returns: with asks it is an Interruption, without it is over.
Returned(s, asks) ==
    [Off EXCEPT !.pc = "flush", !.asks = asks, !.from = s.from,
                !.loop = s.loop, !.loopq = s.loopq]

Reconciling(s, next) ==
    [s EXCEPT !.pc = "reconcile", !.next = next, !.asks = {}, !.todo = open]

\* Runner::run: the flags are reset, every call an earlier leg left open is
\* answered, then the message is appended and the model called.
MessageSend(c) ==
    /\ At(c, {"idle"}) /\ ~gone[c]
    /\ used.messages < MaxMessages /\ Spend("messages")
    /\ runner' = Fresh
    /\ sv' = [sv EXCEPT ![c] = [Reconciling(@, "drive") EXCEPT !.runq = {}]]
    /\ UNCHANGED <<host, lease, parked, log, kid, gone>>

\* Runner::run_notification_turn: the flags are reset and the model is called.
NotificationDrain(c) ==
    /\ At(c, {"idle"}) /\ ~gone[c]
    /\ used.notes < MaxNotes /\ Spend("notes")
    /\ runner' = Fresh
    /\ sv' = [sv EXCEPT ![c] = [@ EXCEPT !.pc = "drive", !.runq = {}]]
    /\ UNCHANGED <<host, lease, parked, log, kid, gone>>

\* reconcile_tool_results, one appended answer at a time.
Reconcile(c) ==
    /\ At(c, {"reconcile"})
    /\ IF sv[c].todo # {}
       THEN /\ Record(Min(sv[c].todo))
            /\ sv' = [sv EXCEPT ![c].todo = @ \ {Min(@)}]
       ELSE /\ sv' = [sv EXCEPT ![c] = IF @.next = "drive"
                                       THEN [@ EXCEPT !.pc = "drive"]
                                       ELSE Returned(@, {})]
            /\ UNCHANGED <<open, results>>
    /\ UNCHANGED <<host, lease, parked, runner, made, gated, runs, yes, kid, gone, used>>

\* The model answers with n calls, those in g gated: they are appended, the
\* others are dispatched.
Respond(c, n, g) ==
    /\ At(c, {"drive"})
    /\ made + n <= MaxCalls /\ g \subseteq (made + 1)..(made + n)
    /\ sv' = [sv EXCEPT ![c] = [@ EXCEPT !.pc = "exec", !.asks = g,
                                         !.todo = ((made + 1)..(made + n)) \ g]]
    /\ made' = made + n
    /\ gated' = gated \cup g
    /\ open' = open \cup ((made + 1)..(made + n))
    /\ UNCHANGED <<host, lease, parked, runner, results, runs, yes, kid, gone, used>>

\* The model gives its answer, or a ceiling is reached.
Finish(c) ==
    /\ At(c, {"drive"}) /\ ~runner.cancelled
    /\ sv' = [sv EXCEPT ![c] = Returned(@, {})]
    /\ UNCHANGED <<host, lease, parked, runner, log, kid, gone, used>>

\* The loop sees its token cancelled: the open calls are answered first.
Stop(c) ==
    /\ At(c, {"drive"}) /\ runner.cancelled
    /\ sv' = [sv EXCEPT ![c] = Reconciling(@, "end")]
    /\ UNCHANGED <<host, lease, parked, runner, log, kid, gone, used>>

\* A provider or log error ends the leg where it stands.
RunFails(c) ==
    /\ At(c, RunPcs)
    /\ sv' = [sv EXCEPT ![c] = Returned(@, {})]
    /\ UNCHANGED <<host, lease, parked, runner, log, kid, gone, used>>

\* The next call of the response, or the user's command, is dispatched; a
\* cancelled token may win the race before its tool starts (dispatch_call).
Dispatch(c) ==
    /\ At(c, {"exec", "shell"}) /\ sv[c].todo # {}
    /\ sv' = [sv EXCEPT ![c] = [@ EXCEPT !.todo = sv[c].todo \ {Min(sv[c].todo)},
                                         !.busy = sv[c].busy \cup {Min(sv[c].todo)}]]
    /\ \/ Start(Min(sv[c].todo))
       \/ runner.cancelled /\ UNCHANGED runs
    /\ UNCHANGED <<host, lease, parked, runner, made, gated, open, results, yes, kid, gone, used>>

\* A dispatched call's result is appended, whichever finishes first.
Result(c, call) ==
    /\ At(c, {"exec"}) /\ call \in sv[c].busy
    /\ Record(call)
    /\ sv' = [sv EXCEPT ![c].busy = @ \ {call}]
    /\ UNCHANGED <<host, lease, parked, runner, made, gated, runs, yes, kid, gone, used>>

\* The response is resolved: an interruption, another model call, or the end.
Resolved(c) ==
    /\ At(c, {"exec"}) /\ sv[c].todo = {} /\ sv[c].busy = {}
    /\ IF sv[c].asks # {}
       THEN runner' = Paused /\ sv' = [sv EXCEPT ![c] = Returned(@, @.asks)]
       ELSE /\ UNCHANGED runner
            /\ sv' = [sv EXCEPT ![c] = IF runner.cancelled
                                       THEN Reconciling(@, "end")
                                       ELSE [@ EXCEPT !.pc = "drive"]]
    /\ UNCHANGED <<host, lease, parked, log, kid, gone, used>>

\* Runner::resume: a cancel given on the card ends the run, otherwise the
\* verdicts are applied to every open call of the log.
Resume(c) ==
    /\ At(c, {"resume"})
    /\ IF runner.aborted
       THEN /\ runner' = [runner EXCEPT !.paused = FALSE, !.aborted = FALSE]
            /\ sv' = [sv EXCEPT ![c] = Reconciling(@, "end")]
       ELSE /\ runner' = Fresh
            /\ sv' = [sv EXCEPT ![c] = [@ EXCEPT !.pc = "settle", !.stop = FALSE,
                                                 !.todo = open]]
    /\ UNCHANGED <<host, lease, parked, log, kid, gone, used>>

\* The verdict is looked up by the call's id.
Allowed(s, call) == <<call, TRUE>> \in s.got
Undecided(s, call) == \A ok \in BOOLEAN : <<call, ok>> \notin s.got

\* settle_batch on the next open call; a cancelled token may win the race
\* before an allowed call's tool starts.
Settle(c) ==
    /\ At(c, {"settle"}) /\ sv[c].busy = {} /\ sv[c].todo # {}
    /\ LET call == Min(sv[c].todo)
           s == [sv[c] EXCEPT !.todo = @ \ {call}]
       IN IF ~sv[c].stop /\ Allowed(sv[c], call)
          THEN /\ Start(call) \/ (runner.cancelled /\ UNCHANGED runs)
               /\ sv' = [sv EXCEPT ![c] = [s EXCEPT !.busy = {call}]]
               /\ UNCHANGED <<open, results>>
          ELSE IF ~sv[c].stop /\ Undecided(sv[c], call)
          THEN /\ sv' = [sv EXCEPT ![c] = [s EXCEPT !.asks = @ \cup {call}]]
               /\ UNCHANGED <<open, results, runs>>
          ELSE /\ Record(call)
               /\ sv' = [sv EXCEPT ![c] = s]
               /\ UNCHANGED runs
    /\ UNCHANGED <<host, lease, parked, runner, made, gated, yes, kid, gone, used>>

\* The allowed call's result; a stop that landed meanwhile holds the rest.
SettleResult(c) ==
    /\ At(c, {"settle"})
    /\ \E call \in sv[c].busy : Record(call)
    /\ sv' = [sv EXCEPT ![c] = [@ EXCEPT !.busy = {}, !.stop = runner.cancelled]]
    /\ UNCHANGED <<host, lease, parked, runner, made, gated, runs, yes, kid, gone, used>>

\* Calls no verdict named are raised again, otherwise the model is called.
Settled(c) ==
    /\ At(c, {"settle"}) /\ sv[c].busy = {} /\ sv[c].todo = {}
    /\ IF sv[c].asks # {}
       THEN runner' = Paused /\ sv' = [sv EXCEPT ![c] = Returned(@, @.asks)]
       ELSE UNCHANGED runner /\ sv' = [sv EXCEPT ![c].pc = "drive"]
    /\ UNCHANGED <<host, lease, parked, log, kid, gone, used>>

\* session/cancel while a run or a command is in flight.
Escape(c) ==
    /\ At(c, RunPcs \cup {"shell"}) /\ ~gone[c]
    /\ used.escapes < MaxEscapes /\ Spend("escapes")
    /\ runner' = AbortFlags
    /\ sv' = [sv EXCEPT ![c].esc = @ \/ sv[c].pc = "resume"]
    /\ UNCHANGED <<host, lease, parked, log, kid, gone>>

\* Mutant of DirectShell: the command is already running when its call is
\* appended.
MutDirectShell(c) ==
    /\ At(c, {"idle"}) /\ ~gone[c] /\ ~runner.paused
    /\ used.messages < MaxMessages /\ Spend("messages")
    /\ made < MaxCalls
    /\ made' = made + 1
    /\ open' = open \cup {made + 1}
    /\ Start(made + 1)
    /\ runner' = [runner EXCEPT !.cancelled = FALSE]
    /\ sv' = [sv EXCEPT ![c] = [@ EXCEPT !.pc = "shell", !.busy = {made + 1}]]
    /\ UNCHANGED <<host, lease, parked, gated, results, yes, kid, gone>>
\* run_direct_shell: refused while a run is paused on an ask.  The call is
\* appended first, the command started after it.
DirectShell(c) ==
    /\ At(c, {"idle"}) /\ ~gone[c] /\ ~runner.paused
    /\ used.messages < MaxMessages /\ Spend("messages")
    /\ made < MaxCalls
    /\ made' = made + 1
    /\ open' = open \cup {made + 1}
    /\ runner' = [runner EXCEPT !.cancelled = FALSE]
    /\ sv' = [sv EXCEPT ![c] = [@ EXCEPT !.pc = "shell", !.todo = {made + 1}]]
    /\ UNCHANGED <<host, lease, parked, gated, results, runs, yes, kid, gone>>

ShellResult(c) ==
    /\ At(c, {"shell"})
    /\ \E call \in sv[c].busy : Record(call)
    /\ sv' = [sv EXCEPT ![c] = [@ EXCEPT !.pc = "idle", !.busy = {}]]
    /\ UNCHANGED <<host, lease, parked, runner, made, gated, runs, yes, kid, gone, used>>

\* OnClose::Settle: the command is cancelled and its result awaited, for a
\* bounded time.  Its call is the last of the log.
ShellClose(c) ==
    /\ At(c, {"shell"}) /\ gone[c]
    /\ runner' = AbortFlags
    /\ \/ Record(made)
       \/ UNCHANGED <<open, results>>
    /\ Exit(c)
    /\ UNCHANGED <<host, parked, made, gated, runs, yes, kid, used>>

-----------------------------------------------------------------------------
(* Children.                                                               *)

\* route_approvals_via_bus: the ask enters the park, then it is published to
\* every receiver: the serve loop's and the one of the run in flight.
KidAsk(k) ==
    /\ kid[k] = "none" /\ made > 0
    /\ kid' = [kid EXCEPT ![k] = "waiting"]
    /\ sv' = [c \in Clients |->
                 [sv[c] EXCEPT !.loopq = IF sv[c].loop THEN @ \cup {k} ELSE @,
                               !.runq = IF sv[c].pc \in RunPcs THEN @ \cup {k} ELSE @]]
    /\ UNCHANGED <<host, lease, parked, runner, log, gone, used>>

\* APPROVAL_TIMEOUT, or the child's own cancel.
KidTimeout(k) ==
    /\ kid[k] = "waiting"
    /\ kid' = [kid EXCEPT ![k] = "settled"]
    /\ UNCHANGED <<host, lease, parked, runner, log, sv, gone, used>>

\* The response reaches the child while it waits and nobody afterwards.
Publish(k, verdict) == kid' = [kid EXCEPT ![k] = IF @ = "waiting" THEN verdict ELSE @]

\* The serve loop, the run's wait loop or the reattach shows a child's card.
ShowFromLoop(c, k) ==
    /\ At(c, {"idle"}) /\ k \in sv[c].loopq
    /\ sv' = [sv EXCEPT ![c] = [@ EXCEPT !.card = {k}, !.loopq = sv[c].loopq \ {k}]]
    /\ UNCHANGED <<host, lease, parked, runner, log, kid, gone, used>>

ShowFromRun(c, k) ==
    /\ At(c, RunPcs) /\ k \in sv[c].runq
    /\ sv' = [sv EXCEPT ![c] = [@ EXCEPT !.card = {k}, !.runq = sv[c].runq \ {k}]]
    /\ UNCHANGED <<host, lease, parked, runner, log, kid, gone, used>>

ShowParked(c, k) ==
    /\ At(c, {"kids"}) /\ k \in sv[c].kids
    /\ sv' = [sv EXCEPT ![c] = [@ EXCEPT !.card = {k}, !.kids = sv[c].kids \ {k}]]
    /\ UNCHANGED <<host, lease, parked, runner, log, kid, gone, used>>

KidsShown(c) ==
    /\ At(c, {"kids"}) /\ sv[c].kids = {}
    /\ sv' = [sv EXCEPT ![c].pc = "idle"]
    /\ UNCHANGED <<host, lease, parked, runner, log, kid, gone, used>>

\* The user answers a child's card: the same handle_approval, so the store's
\* turn is advanced here too.
CardAnswer(c, ok) ==
    /\ ~gone[c]
    /\ \E k \in sv[c].card :
          /\ Publish(k, "settled")
          /\ parked' = Advance(parked, <<k, ok>>)
    /\ sv' = [sv EXCEPT ![c].card = {}]
    /\ UNCHANGED <<host, lease, runner, log, gone, used>>

CardEscape(c) ==
    /\ ~gone[c]
    /\ used.escapes < MaxEscapes /\ Spend("escapes")
    /\ \E k \in sv[c].card : Publish(k, "settled")
    /\ runner' = AbortFlags
    /\ sv' = [sv EXCEPT ![c] = [@ EXCEPT !.card = {},
                                         !.esc = sv[c].esc \/ sv[c].pc = "resume"]]
    /\ UNCHANGED <<host, lease, parked, log, gone>>

\* The client left with the card on screen: the child is told no.
CardClose(c) ==
    /\ gone[c]
    /\ \E k \in sv[c].card : Publish(k, "dropped")
    /\ sv' = [sv EXCEPT ![c].card = {}]
    /\ UNCHANGED <<host, lease, parked, runner, log, gone, used>>

-----------------------------------------------------------------------------

\* What the connection's task does by itself.
Step(c) ==
    \/ Leave(c) \/ Greet(c) \/ ParkRead(c) \/ Flush(c) \/ FlushFails(c)
    \/ Reconcile(c) \/ Finish(c) \/ Stop(c) \/ RunFails(c)
    \/ \E n \in 1..MaxBatch, g \in SUBSET Calls : Respond(c, n, g)
    \/ Dispatch(c) \/ Resolved(c) \/ (\E call \in Calls : Result(c, call))
    \/ Resume(c) \/ Settle(c) \/ SettleResult(c) \/ Settled(c)
    \/ ShellResult(c) \/ ShellClose(c) \/ KidsShown(c) \/ CardClose(c)
    \/ \E k \in Kids : ShowFromLoop(c, k) \/ ShowFromRun(c, k) \/ ShowParked(c, k)

\* What the person at the client does.
Person(c) ==
    \/ Attach(c)
    \/ \E ok \in BOOLEAN : Answer(c, ok) \/ CardAnswer(c, ok)

Next ==
    \/ Insert \/ Listen
    \/ \E c \in Clients : \/ Step(c) \/ Person(c)
                          \/ Close(c) \/ MessageSend(c) \/ NotificationDrain(c)
                          \/ DirectShell(c) \/ Escape(c) \/ EscapeAsk(c) \/ CardEscape(c)
    \/ \E k \in Kids : KidAsk(k) \/ KidTimeout(k)

Spec == Init /\ [][Next]_vars

\* The tasks of the process run on, and a person at a client answers the card
\* on screen and comes back after a disconnect.  Nobody need write a message,
\* and the timeouts of the children are not relied upon.
Fairness == WF_vars(Insert \/ Listen) /\ \A c \in Clients : WF_vars(Step(c)) /\ WF_vars(Person(c))
FairSpec == Spec /\ Fairness

-----------------------------------------------------------------------------
(* Properties.                                                             *)

\* Every variable keeps its type, and a store without a turn holds no verdict.
TypeOK ==
    /\ lease \in {"none", "Running", "Detached"}
    /\ parked.on \in BOOLEAN /\ (~parked.on => parked = NoTurn)
    /\ \A f \in {"paused", "aborted", "cancelled"} : runner[f] \in BOOLEAN
    /\ made \in 0..MaxCalls
    /\ open \subseteq 1..made /\ gated \subseteq 1..made
    /\ kid \in [Kids -> {"none", "waiting", "settled", "dropped"}]
    /\ \A c \in Clients : sv[c].pc \in Pcs /\ Cardinality(sv[c].card) <= 1

\* One connection at a time serves the session, and the lease is held exactly
\* while one does: also when several attach at once, when one attaches while
\* another's task is still leaving, and when the connection ends in the middle
\* of anything.  The way out of serve_session that keeps the lease, for want of
\* a runner, is not taken, because the runner is in the host before the socket
\* is bound (serve_session, try_take_lease, main.rs:441-452).
OneServer ==
    /\ Cardinality(Serving) <= 1
    /\ Serving # {} <=> lease = "Running"

Ledger == INSTANCE CallLedger
    WITH made <- made, gated <- gated, open <- open,
         results <- results, runs <- runs, yes <- yes

\* The session keeps the ledger of its calls, step by step, although the run
\* that writes it is dropped with its connection between any two appends and
\* its calls are found again by reconcile, by resume and by the next
\* connection (pending_state, apply_decisions, reconcile_tool_results).
KeepsLedger == Ledger!Spec

\* The turn in the store is the one being asked: the cards that are left agree
\* with the connection's own list, each is a call of the log still without a
\* result, and no verdict on another card - a child's - was taken for one of
\* this turn (advance_pending pops whatever is at the head).
ParkedTurnTrue ==
    /\ parked.on =>
         /\ parked.remaining \subseteq open
         /\ \A d \in parked.decided : d[1] \in open
    /\ \A c \in Clients : sv[c].pc \in {"ask", "reask"} =>
         parked.on /\ parked.remaining = sv[c].asks /\ parked.decided = sv[c].got

\* A resume ends as interrupted only when the user pressed Esc on a card of
\* its own batch: no earlier cancel is left over to swallow later verdicts
\* (abort, reset_run_state, take_aborted).
NoPoisonedResume ==
    \A c \in Clients : sv[c].pc = "resume" => runner.aborted = sv[c].esc

\* A parked turn is taken up again and settled, if people keep coming back:
\* however serve ends the lease is given back, and the next connection finds
\* the turn.  A panic inside serve, which gives nothing back, is not modelled.
ParkedTurnSettled == parked.on ~> ~parked.on

\* A child's ask is heard whenever it was published - during a run, between
\* runs, under another card, with nobody attached, between the subscription of
\* a new connection and its read of the park - without its timeout.
KidHeard == \A k \in Kids : (kid[k] = "waiting") ~> (kid[k] # "waiting")

-----------------------------------------------------------------------------
(* What comments of the code say and the code does not do.                 *)

\* multi_agent.rs: "a connection that drops again before the user answers must
\* still find it on the next reattach".  The bridge denies such an ask.
KidAskSurvives == \A k \in Kids : kid[k] # "dropped"

\* direct_shell.rs: a call left without a result is one "which the next model
\* run reconciles before appending its own input", so the model is called with
\* every call answered.  A notification turn does not reconcile.
ModelSeesResults == \A c \in Clients : sv[c].pc = "drive" => open = {}

\* What follows from it: a resume after such a turn offers the call again, and
\* a tool that was already started is started once more.
RunsOnce == \A i \in Calls : runs[i] <= 1

\* transitions.rs: "the ask is retained for the next reattaching client".  A
\* client that leaves while the interrupted leg's events are flushed leaves
\* the run paused and nothing parked.
PausedIsParked == runner.paused /\ Serving = {} => parked.on
=============================================================================
