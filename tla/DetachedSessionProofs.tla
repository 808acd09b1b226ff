------------------------ MODULE DetachedSessionProofs ------------------------
(***************************************************************************)
(* The safety of DetachedSession, for every number of clients, calls,      *)
(* children, messages, lost connections and cancels.  Each step of the     *)
(* session is shown to be a step of the ledger of its calls, or to leave   *)
(* the ledger alone, so what is shown here of every ledger holds of the    *)
(* session's log.                                                          *)
(***************************************************************************)
EXTENDS DetachedSession, TLAPS, FiniteSetTheorems, WellFoundedInduction

-----------------------------------------------------------------------------
(* The ledger on its own.                                                  *)

\* A step of the ledger, or none.
LedgerStep == [Ledger!Next]_(Ledger!vars)

\* A call that is not in the log has not been started.  Without this a call could
\* turn out to be gated after its start.
NotYet == \A i \in Ledger!Calls : i \notin 1..made => runs[i] = 0

LedgerInv ==
    /\ Ledger!TypeOK
    /\ Ledger!Authorised
    /\ Ledger!OneResult
    /\ NotYet

\* The invariant holds of an empty ledger.
LEMMA LedgerInitHolds == Ledger!Init => LedgerInv
  BY KidsAssumption DEF Ledger!Init, LedgerInv, Ledger!TypeOK, Ledger!Authorised,
      Ledger!OneResult, NotYet, Ledger!Allowance, Ledger!Calls

\* Calls appended to the log are new: nothing of an earlier call changes.
LEMMA LedgerMakeHolds ==
    ASSUME LedgerInv, NEW n \in Ledger!Calls, NEW g \in SUBSET Ledger!Calls,
           Ledger!Make(n, g)
    PROVE LedgerInv'
<1>1. Ledger!TypeOK'
  BY KidsAssumption DEF LedgerInv, Ledger!TypeOK, Ledger!Make, Ledger!Calls
<1>2. Ledger!Authorised'
  <2> SUFFICES ASSUME NEW i \in Ledger!Calls PROVE (runs[i] <= Ledger!Allowance(i))'
    BY KidsAssumption DEF Ledger!Authorised
  <2>1. CASE i \in 1..made
    BY <2>1, KidsAssumption DEF LedgerInv, Ledger!TypeOK, Ledger!Authorised,
        Ledger!Allowance, Ledger!Make, Ledger!Calls
  <2>2. CASE i \notin 1..made
    <3>1. runs[i] = 0
      BY <2>2 DEF LedgerInv, NotYet
    <3> QED BY <3>1, KidsAssumption DEF LedgerInv, Ledger!TypeOK, Ledger!Allowance,
        Ledger!Make, Ledger!Calls
  <2> QED BY <2>1, <2>2
<1>3. Ledger!OneResult'
  BY KidsAssumption DEF LedgerInv, Ledger!TypeOK, Ledger!OneResult, Ledger!Make,
      Ledger!Calls
<1>4. NotYet'
  BY KidsAssumption DEF LedgerInv, Ledger!TypeOK, NotYet, Ledger!Make, Ledger!Calls
<1> QED BY <1>1, <1>2, <1>3, <1>4 DEF LedgerInv

\* A word of the user raises what a call may be started.
LEMMA LedgerAllowHolds ==
    ASSUME LedgerInv, NEW i \in Ledger!Calls, Ledger!Allow(i) PROVE LedgerInv'
<1>1. Ledger!TypeOK'
  BY DEF LedgerInv, Ledger!TypeOK, Ledger!Allow
<1>2. Ledger!Authorised'
  BY DEF LedgerInv, Ledger!TypeOK, Ledger!Authorised, Ledger!Allowance, Ledger!Allow
<1>3. Ledger!OneResult'
  BY DEF LedgerInv, Ledger!OneResult, Ledger!Allow
<1>4. NotYet'
  BY DEF LedgerInv, Ledger!TypeOK, NotYet, Ledger!Allow, Ledger!Calls
<1> QED BY <1>1, <1>2, <1>3, <1>4 DEF LedgerInv

\* A start needs a word that is left.
LEMMA LedgerBeginHolds ==
    ASSUME LedgerInv, NEW i \in Ledger!Calls, Ledger!Begin(i) PROVE LedgerInv'
<1>1. Ledger!TypeOK'
  BY DEF LedgerInv, Ledger!TypeOK, Ledger!Begin
<1>2. Ledger!Authorised'
  BY DEF LedgerInv, Ledger!TypeOK, Ledger!Authorised, Ledger!Allowance, Ledger!Begin
<1>3. Ledger!OneResult'
  BY DEF LedgerInv, Ledger!OneResult, Ledger!Begin
<1>4. NotYet'
  BY DEF LedgerInv, Ledger!TypeOK, NotYet, Ledger!Begin, Ledger!Calls
<1> QED BY <1>1, <1>2, <1>3, <1>4 DEF LedgerInv

\* A result closes an open call.
LEMMA LedgerRecordHolds ==
    ASSUME LedgerInv, NEW i \in Ledger!Calls, Ledger!Record(i) PROVE LedgerInv'
<1>1. Ledger!TypeOK'
  BY DEF LedgerInv, Ledger!TypeOK, Ledger!Record
<1>2. Ledger!Authorised'
  BY DEF LedgerInv, Ledger!TypeOK, Ledger!Authorised, Ledger!Allowance, Ledger!Record
<1>3. Ledger!OneResult'
  BY DEF LedgerInv, Ledger!TypeOK, Ledger!OneResult, Ledger!Record
<1>4. NotYet'
  BY DEF LedgerInv, Ledger!TypeOK, NotYet, Ledger!Record, Ledger!Calls
<1> QED BY <1>1, <1>2, <1>3, <1>4 DEF LedgerInv

\* Every step of the ledger keeps it.
LEMMA LedgerInductive == LedgerInv /\ LedgerStep => LedgerInv'
<1> SUFFICES ASSUME LedgerInv, LedgerStep PROVE LedgerInv'
  OBVIOUS
<1>1. ASSUME NEW n \in Ledger!Calls, NEW g \in SUBSET Ledger!Calls, Ledger!Make(n,
    g) PROVE LedgerInv'
  BY <1>1, LedgerMakeHolds
<1>2. ASSUME NEW i \in Ledger!Calls,
    Ledger!Allow(i) \/ Ledger!Begin(i) \/ Ledger!Record(i) PROVE LedgerInv'
  BY <1>2, LedgerAllowHolds, LedgerBeginHolds, LedgerRecordHolds
<1>3. CASE UNCHANGED Ledger!vars
  BY <1>3 DEF Ledger!vars, LedgerInv, Ledger!TypeOK, Ledger!Authorised, Ledger!OneResult,
      NotYet, Ledger!Allowance
<1> QED BY <1>1, <1>2, <1>3 DEF LedgerStep, Ledger!Next

\* It holds of every behaviour of the ledger.
LEMMA LedgerInvariant == Ledger!Spec => []LedgerInv
  BY LedgerInitHolds, LedgerInductive, PTL DEF Ledger!Spec, LedgerStep

\* For every number of calls: a tool is started at most as often as somebody
\* allowed, however starts, verdicts and results interleave.
THEOREM LedgerAuthorised == Ledger!Spec => []Ledger!Authorised
<1>1. LedgerInv => Ledger!Authorised
  BY DEF LedgerInv
<1> QED BY <1>1, LedgerInvariant, PTL

\* For every number of calls: a call of the log has one result, or is open.
THEOREM LedgerOneResult == Ledger!Spec => []Ledger!OneResult
<1>1. LedgerInv => Ledger!OneResult
  BY DEF LedgerInv
<1> QED BY <1>1, LedgerInvariant, PTL

-----------------------------------------------------------------------------
(* The inductive invariant.                                                *)

Verdicts == Calls \X BOOLEAN

Task == [pc : Pcs, from : {"send", "reattach"}, next : {"drive", "end"},
         asks : SUBSET Calls, got : SUBSET Verdicts,
         todo : SUBSET Calls, busy : SUBSET Calls,
         stop : BOOLEAN, esc : BOOLEAN, card : SUBSET Kids, kids : SUBSET Kids,
         loop : BOOLEAN, loopq : SUBSET Kids, runq : SUBSET Kids]

PendingTurn == [on : BOOLEAN, remaining : SUBSET Calls, decided : SUBSET Verdicts]
RunnerFlags == [paused : BOOLEAN, aborted : BOOLEAN, cancelled : BOOLEAN]
KidAsks == [Kids -> {"none", "waiting", "settled", "dropped"}]

Types ==
    /\ lease \in {"none", "Running", "Detached"}
    /\ parked \in PendingTurn /\ (~parked.on => parked = NoTurn)
    /\ runner \in RunnerFlags
    /\ kid \in KidAsks
    /\ sv \in [Clients -> Task]
    /\ gone \in [Clients -> BOOLEAN]

\* One connection serves, and the lease is held while it does and not otherwise.
Alone ==
    /\ \A c \in Clients : sv[c].pc # "off" =>
         /\ lease = "Running"
         /\ \A d \in Clients : sv[d].pc # "off" => c = d
    /\ lease = "Running" => \E c \in Clients : sv[c].pc # "off"

\* A process that listens has its runner.
Up == host.listens => host.runner

\* The user's word for one more start of the call, not used so far.
Word(i) == runs[i] < Ledger!Allowance(i)

\* The calls a connection has in hand are open, each is in one of its lists,
\* and a list is used only where the task stands in the part that fills it.
InHand(s) ==
    /\ s.asks \cup s.todo \cup s.busy \subseteq open
    /\ s.asks \cap s.todo = {}
    /\ s.asks \cap s.busy = {}
    /\ s.todo \cap s.busy = {}
    /\ s.asks # {} => s.pc \in {"exec", "settle", "flush", "ask", "reask"}
    /\ s.todo # {} => s.pc \in {"reconcile", "exec", "settle", "shell"}
    /\ s.busy # {} => s.pc \in {"exec", "settle", "shell"}
    /\ s.card # {} => s.pc \in RunPcs \cup {"idle", "kids"}
    /\ s.pc = "shell" => s.todo \cup s.busy = {made}

\* What the connection is about to start needs no word, or has one.
Words(s) ==
    /\ s.pc \in {"exec", "shell"} => \A i \in s.todo : i \notin gated /\ runs[i] = 0
    /\ s.pc \in {"ask", "reask", "resume"} =>
         \A i \in Calls : <<i, TRUE>> \in s.got => Word(i)
    /\ s.pc = "settle" => \A i \in s.todo : <<i, TRUE>> \in s.got => Word(i)

\* The runner is paused while cards are shown, and not while it runs; a cancel
\* is noted only while it is paused.
Flags(s) ==
    /\ s.pc \in {"reconcile", "drive", "exec",
        "settle"} => ~runner.paused /\ ~runner.aborted
    /\ s.pc = "flush" /\ s.asks # {} => runner.paused /\ ~runner.aborted
    /\ s.pc \in {"greet", "ask", "reask"} => ~s.esc
    /\ s.pc = "resume" => runner.paused /\ (runner.aborted <=> s.esc)

\* The turn in the store: its cards and verdicts are about open calls, the
\* allowed ones have their word, and no cancel waits for it.
Turn ==
    parked.on =>
       /\ runner.paused /\ ~runner.aborted
       /\ parked.remaining \subseteq open
       /\ \A d \in parked.decided : d[1] \in open
       /\ \A i \in Calls : <<i, TRUE>> \in parked.decided => Word(i)

\* While a turn is parked no run goes on, and the connection that shows it has
\* the same cards and verdicts in hand.
Shown(s) ==
    /\ parked.on => s.pc \in {"off", "greet", "ask", "reask"}
    /\ s.pc \in {"ask", "reask"} =>
         parked.on /\ parked.remaining = s.asks /\ parked.decided = s.got

Conn(s) == InHand(s) /\ Words(s) /\ Flags(s) /\ Shown(s)

IInv == Types /\ Alone /\ LedgerInv /\ Turn /\ \A c \in Clients : Conn(sv[c])

-----------------------------------------------------------------------------
(* Lemmas about the operators and about one step.                          *)

\* The head of a list of calls is one of them.
LEMMA MinOfCalls == ASSUME NEW S \in SUBSET Calls, S # {} PROVE Min(S) \in S
<1>1. MaxCalls \in Nat /\ S \subseteq Nat
  BY KidsAssumption DEF Calls
<1> DEFINE Less == {p \in Nat \X Nat : p[1] < p[2]}
<1>2. IsWellFoundedOn(Less, Nat)
  BY NatLessThanWellFounded DEF OpToRel
<1> HIDE DEF Less
<1>3. PICK x \in S : \A y \in S : <<y, x>> \notin Less
  BY <1>1, <1>2, WFMin
<1>4. ASSUME NEW y \in S PROVE x <= y
  <2>1. x \in Nat /\ y \in Nat
    BY <1>1
  <2>2. y < x => <<y, x>> \in Less
    BY <2>1 DEF Less
  <2> QED BY <1>3, <2>1, <2>2
<1> QED BY <1>4 DEF Min

\* The verdicts of a card.
LEMMA VerdictIs ==
    ASSUME NEW i \in Calls, NEW ok \in BOOLEAN
    PROVE <<i, ok>> \in Verdicts /\ <<i, ok>>[1] = i
  BY DEF Verdicts

\* A connection that is not served is typed, with nothing to ask or do.
LEMMA OffIsTask == Off \in Task /\ Off.pc = "off" /\ Off.asks = {} /\ Off.todo = {}
                   /\ Off.busy = {} /\ Off.card = {} /\ Off.got = {} /\ ~Off.esc
  BY DEF Off, Task, Pcs, RunPcs

\* No parked turn is typed, and off.
LEMMA NoTurnIsTurn == NoTurn \in PendingTurn /\ ~NoTurn.on
  BY DEF NoTurn, PendingTurn

\* A cancel: noted for good only while the run is paused.
LEMMA AbortFlagsIs ==
    ASSUME runner \in RunnerFlags
    PROVE /\ AbortFlags \in RunnerFlags
          /\ ~runner.paused /\ ~runner.aborted => ~AbortFlags.paused /\ ~AbortFlags.aborted
          /\ AbortFlags.paused <=> runner.paused
          /\ AbortFlags.aborted <=> runner.aborted \/ runner.paused
  BY DEF AbortFlags, RunnerFlags

\* A step of one connection: the others are off and stay as they are, so it is
\* enough to look at the one that moves.
LEMMA StepKeeps ==
    ASSUME IInv, NEW c \in Clients,
           sv[c].pc # "off" \/ lease # "Running",
           sv' = [sv EXCEPT ![c] = sv'[c]],
           sv'[c].pc # "off" <=> lease' = "Running",
           Types', LedgerStep, Turn', Conn(sv[c])'
    PROVE IInv'
<1>1. ASSUME NEW d \in Clients, d # c PROVE sv'[d] = sv[d] /\ sv[d].pc = "off"
  BY <1>1 DEF IInv, Types, Alone
<1>2. Alone'
  BY <1>1 DEF Alone
<1>3. ASSUME NEW d \in Clients PROVE Conn(sv[d])'
  <2>1. CASE d = c
    BY <2>1
  <2>2. CASE d # c
    <3>1. sv'[d] = sv[d] /\ sv[d].pc = "off" /\ InHand(sv[d])
      BY <1>1, <2>2 DEF IInv, Conn
    <3>2. InHand(sv[d])'
      BY <3>1 DEF InHand, RunPcs
    <3> QED BY <3>1, <3>2 DEF Conn, Words, Flags, Shown
  <2> QED BY <2>1, <2>2
<1>4. LedgerInv'
  BY LedgerInductive DEF IInv
<1> QED BY <1>2, <1>3, <1>4 DEF IInv

\* Who leaves the log leaves the ledger.
LEMMA SameLog == ASSUME UNCHANGED log PROVE LedgerStep
  BY DEF log, LedgerStep, Ledger!vars

\* A step of one connection that writes nothing to the log.
LEMMA QuietKeeps ==
    ASSUME IInv, NEW c \in Clients, sv[c].pc # "off",
           sv' = [sv EXCEPT ![c] = sv'[c]], sv'[c] \in Task, sv'[c].pc # "off",
           UNCHANGED <<lease, gone>>, UNCHANGED log, kid' \in KidAsks,
           runner' \in RunnerFlags, parked' \in PendingTurn,
               ~parked'.on => parked' = NoTurn,
           Turn', Conn(sv[c])'
    PROVE IInv' /\ LedgerStep
<1>1. LedgerStep
  BY SameLog
<1>2. Types'
  BY DEF IInv, Types
<1>3. lease' = "Running"
  BY DEF IInv, Alone
<1> QED BY <1>1, <1>2, <1>3, StepKeeps

\* What is parked is not touched by steps that leave it, the log and the flags.
LEMMA SameTurn ==
    ASSUME Turn, UNCHANGED <<parked, runner>>, UNCHANGED log
    PROVE  Turn'
  BY DEF Turn, Word, Ledger!Allowance, log

\* Nothing is parked while a run or a command is on its way.
LEMMA NoneParked ==
    ASSUME IInv, NEW c \in Clients,
           sv[c].pc \notin {"off", "greet", "ask", "reask"}
    PROVE ~parked.on /\ parked = NoTurn
  BY DEF IInv, Conn, Shown, Types

\* A connection that ends: the lease is given back and the record reset.
LEMMA ExitKeeps ==
    ASSUME IInv, NEW c \in Clients, sv[c].pc # "off", Exit(c),
           UNCHANGED <<parked, kid>>, runner' \in RunnerFlags, LedgerStep, Turn'
    PROVE IInv'
<1>1. sv'[c] = Off /\ sv' = [sv EXCEPT ![c] = Off]
  BY DEF IInv, Types, Exit
<1>2. Types'
  BY <1>1, OffIsTask DEF IInv, Types, Exit
<1>3. Conn(sv[c])'
  BY <1>1, OffIsTask DEF Conn, InHand, Words, Flags, Shown
<1>4. lease' # "Running"
  BY DEF Exit
<1> QED BY <1>1, <1>2, <1>3, <1>4, StepKeeps, OffIsTask

-----------------------------------------------------------------------------
(* Attaching and leaving.                                                  *)

\* A client attaches where the lease is free.
LEMMA AttachKeeps ==
    ASSUME IInv, Up, NEW c \in Clients, Attach(c)
    PROVE  IInv' /\ LedgerStep
<1> DEFINE t == [Off EXCEPT !.pc = "greet"]
<1>1. t \in Task /\ t.pc = "greet" /\ t.asks = {} /\ t.todo = {} /\ t.busy = {}
      /\ t.card = {} /\ ~t.esc
  BY DEF Task, Off, Pcs, RunPcs
<1>2. sv'[c] = t /\ sv' = [sv EXCEPT ![c] = t]
  BY DEF IInv, Types, Attach, Up
<1> HIDE DEF t
<1>3. /\ lease # "Running"
      /\ lease' = "Running"
      /\ UNCHANGED <<parked, runner, kid, gone>>
      /\ UNCHANGED log
  BY DEF Attach, LeaseFree
<1>4. Types'
  BY <1>1, <1>2, <1>3 DEF IInv, Types
<1>5. Turn'
  BY <1>3, SameTurn DEF IInv
<1>6. Conn(sv[c])'
  BY <1>1, <1>2 DEF Conn, InHand, Words, Flags, Shown
<1> QED BY <1>1, <1>2, <1>3, <1>4, <1>5, <1>6, SameLog, StepKeeps

\* Steps that move no connection: a client closes, a child gives up waiting.
LEMMA AsideKeeps ==
    ASSUME IInv, UNCHANGED <<lease, parked, runner, sv>>, UNCHANGED log,
           kid' \in KidAsks, gone' \in [Clients -> BOOLEAN]
    PROVE IInv' /\ LedgerStep
<1>1. LedgerStep /\ LedgerInv'
  BY SameLog, LedgerInductive DEF IInv
<1>2. Types' /\ Alone'
  BY DEF IInv, Types, Alone
<1>3. Turn'
  BY SameTurn DEF IInv
<1>4. ASSUME NEW c \in Clients PROVE Conn(sv[c])'
  <2>1. Conn(sv[c])
    BY DEF IInv
  <2> QED BY <2>1 DEF Conn, InHand, Words, Flags, Shown, Word, Ledger!Allowance, log
<1> QED BY <1>1, <1>2, <1>3, <1>4 DEF IInv

\* A client closes its connection.
LEMMA CloseKeeps ==
    ASSUME IInv, NEW c \in Clients, Close(c)
    PROVE  IInv' /\ LedgerStep
<1>1. gone' \in [Clients -> BOOLEAN] /\ kid' \in KidAsks
  BY DEF IInv, Types, Close
<1> QED BY <1>1, AsideKeeps DEF Close

\* The task of a client that left ends, with the run it was driving.
LEMMA LeaveKeeps ==
    ASSUME IInv, NEW c \in Clients, Leave(c) \/ FlushFails(c)
    PROVE  IInv' /\ LedgerStep
<1>1. /\ sv[c].pc # "off"
      /\ Exit(c)
      /\ UNCHANGED <<parked, runner, kid>>
      /\ UNCHANGED log
  BY DEF Leave, FlushFails, At, RunPcs
<1>2. Turn' /\ LedgerStep
  BY <1>1, SameTurn, SameLog DEF IInv
<1>3. runner' \in RunnerFlags
  BY <1>1 DEF IInv, Types
<1> QED BY <1>1, <1>2, <1>3, ExitKeeps

\* The handshake: the cards of the parked turn are shown, or the loop begins.
LEMMA GreetKeeps ==
    ASSUME IInv, NEW c \in Clients, Greet(c)
    PROVE  IInv' /\ LedgerStep
<1> DEFINE s == sv[c]
           t == IF parked.on
                THEN [s EXCEPT !.pc = "reask", !.from = "reattach",
                               !.asks = parked.remaining, !.got = parked.decided]
                ELSE [s EXCEPT !.pc = "park", !.loop = TRUE]
<1>1. s \in Task /\ Conn(s) /\ s.pc = "greet" /\ s.card = {}
  BY DEF IInv, Types, Greet, At
<1>p. Waiting \subseteq Kids /\ Turn /\ parked \in PendingTurn
  BY DEF Waiting, IInv, Types
<1>2. t \in Task
  BY <1>1, <1>p DEF PendingTurn, Task, Pcs, RunPcs, Off, IInv, Types
<1>3. /\ t.pc = (IF parked.on THEN "reask" ELSE "park")
      /\ t.asks = (IF parked.on THEN parked.remaining ELSE s.asks)
      /\ t.got = (IF parked.on THEN parked.decided ELSE s.got)
      /\ t.todo = s.todo /\ t.busy = s.busy /\ t.card = s.card
      /\ t.esc = s.esc
  BY <1>1 DEF Task, Off
<1>4. sv'[c] = t /\ sv' = [sv EXCEPT ![c] = t]
  BY <1>1, <1>p DEF IInv, Types, Greet, Subscribed
<1> HIDE DEF t
<1>5. /\ UNCHANGED <<lease, gone>>
      /\ UNCHANGED log
      /\ UNCHANGED <<parked, runner, kid>>
  BY <1>1 DEF Greet
<1>6. Turn'
  BY <1>5, SameTurn DEF IInv
<1>7. InHand(sv[c])'
  BY <1>1, <1>p, <1>3, <1>4, <1>5 DEF Turn, Conn, InHand, RunPcs, log
<1>8. Words(sv[c])'
  BY <1>1, <1>p, <1>3, <1>4, <1>5 DEF Turn, Conn, Words, Word, Ledger!Allowance, log
<1>9. Flags(sv[c])' /\ Shown(sv[c])'
  BY <1>1, <1>p, <1>3, <1>4, <1>5 DEF Turn, Conn, InHand, Flags, Shown
<1> QED BY <1>1, <1>2, <1>3, <1>4, <1>5, <1>6, <1>7, <1>8, <1>9, QuietKeeps,
           NoTurnIsTurn DEF IInv, Types, Conn

-----------------------------------------------------------------------------
(* Asking.                                                                 *)

\* The events of a leg are flushed, then a new interruption is parked.
LEMMA FlushKeeps ==
    ASSUME IInv, NEW c \in Clients, Flush(c)
    PROVE  IInv' /\ LedgerStep
<1> DEFINE s == sv[c]
           t == IF s.asks # {}
                THEN [s EXCEPT !.pc = IF s.from = "reattach" THEN "reask" ELSE "ask",
                               !.got = {}, !.esc = FALSE]
                ELSE IF s.from = "reattach"
                THEN [s EXCEPT !.pc = "park", !.loop = TRUE, !.from = "send"]
                ELSE [s EXCEPT !.pc = "idle"]
<1>1. s \in Task /\ Conn(s) /\ s.pc = "flush" /\ s.card = {}
  BY DEF IInv, Types, Flush, At
<1>p. Waiting \subseteq Kids
  BY DEF Waiting
<1>2. t \in Task
  BY <1>1, <1>p DEF Task, Pcs, RunPcs, Off, IInv, Types
<1>3. /\ t.pc = (IF s.asks # {} THEN IF s.from = "reattach" THEN "reask" ELSE "ask"
               ELSE IF s.from = "reattach" THEN "park" ELSE "idle")
      /\ t.asks = s.asks /\ t.got = (IF s.asks # {} THEN {} ELSE s.got)
      /\ t.todo = s.todo /\ t.busy = s.busy /\ t.card = s.card
      /\ t.esc = (IF s.asks # {} THEN FALSE ELSE s.esc)
  BY <1>1 DEF Task, Off
<1>4. sv'[c] = t /\ sv' = [sv EXCEPT ![c] = t]
  BY <1>1, <1>p DEF IInv, Types, Flush, Subscribed, LegOver
<1> HIDE DEF t
<1>5. UNCHANGED <<lease, gone>> /\ UNCHANGED log /\ UNCHANGED <<runner, kid>>
  BY <1>1 DEF Flush
<1>q. LET p == Park(s.asks) IN p \in PendingTurn /\ p.on /\ p.remaining = s.asks /\ p.decided = {}
  BY <1>1 DEF Park, PendingTurn, Task
<1>e. /\ parked' = IF s.asks # {} THEN Park(s.asks) ELSE parked
      /\ ~parked.on /\ parked = NoTurn
      /\ parked' \in PendingTurn /\ (~parked'.on => parked' = NoTurn)
      /\ (s.asks = {} => ~parked'.on) /\ (s.asks # {} => parked'.on)
      /\ s.asks # {} => parked'.remaining = s.asks /\ parked'.decided = {}
  BY <1>1, <1>q, NoneParked, NoTurnIsTurn DEF Flush
<1>6. Turn'
  BY <1>1, <1>5, <1>e DEF Turn, Conn, InHand, Flags, log
<1>7. InHand(sv[c])'
  BY <1>1, <1>p, <1>3, <1>4, <1>5, <1>e DEF Conn, InHand, RunPcs, log
<1>8. Words(sv[c])'
  BY <1>1, <1>p, <1>3, <1>4, <1>5, <1>e DEF Conn, Words, Word, Ledger!Allowance, log
<1>9. Flags(sv[c])' /\ Shown(sv[c])'
  BY <1>1, <1>p, <1>3, <1>4, <1>5, <1>e DEF Conn, InHand, Flags, Shown
<1> QED BY <1>1, <1>2, <1>3, <1>4, <1>5, <1>e, <1>6, <1>7, <1>8, <1>9, QuietKeeps,
           NoTurnIsTurn DEF IInv, Types, Conn, RunPcs

\* A verdict on the card shown: it moves from the cards to the verdicts, in the
\* store and in hand alike.
LEMMA AdvanceShown ==
    ASSUME IInv, NEW c \in Clients, sv[c].pc \in {"ask", "reask"},
           sv[c].asks # {},
           NEW ok \in BOOLEAN
    PROVE LET call == Min(sv[c].asks) turn == Answered(call, ok)
          IN /\ call \in sv[c].asks /\ call \in open /\ call \in Calls
             /\ turn \in PendingTurn /\ turn.on
             /\ turn.remaining = sv[c].asks \ {call}
             /\ turn.decided = sv[c].got \cup {<<call, ok>>}
<1> DEFINE call == Min(sv[c].asks)
<1>1. sv[c] \in Task /\ parked \in PendingTurn /\ Conn(sv[c])
  BY DEF IInv, Types
<1>2. call \in sv[c].asks /\ call \in Calls
  BY <1>1, MinOfCalls DEF Task
<1>3. call \in open
  BY <1>1, <1>2 DEF Conn, InHand
<1>4. parked.on /\ parked.remaining = sv[c].asks /\ parked.decided = sv[c].got
  BY <1>1 DEF Conn, Shown
<1>5. <<call, ok>> \in Verdicts
  BY <1>2, VerdictIs
<1> QED BY <1>1, <1>2, <1>3, <1>4, <1>5 DEF Answered, Advance, PendingTurn

\* A card of the parked turn is answered.
LEMMA AnswerKeeps ==
    ASSUME IInv, NEW c \in Clients, NEW ok \in BOOLEAN, Answer(c, ok)
    PROVE IInv' /\ LedgerStep
<1> DEFINE s == sv[c]
           call == Min(s.asks)
           last == s.asks = {call} \/ (s.pc = "ask" /\ runner.aborted)
           u == [s EXCEPT !.asks = @ \ {call}, !.got = @ \cup {<<call, ok>>}]
           t == IF last THEN [u EXCEPT !.pc = "resume", !.asks = {}, !.runq = {}] ELSE u
<1>1. /\ s \in Task
      /\ Conn(s)
      /\ s.pc \in {"ask", "reask"}
      /\ s.asks # {}
      /\ s.card = {}
  BY DEF IInv, Types, Answer, At
<1>2. /\ call \in s.asks /\ call \in open /\ call \in Calls
      /\ Answered(call, ok) \in PendingTurn /\ Answered(call, ok).on
      /\ Answered(call, ok).remaining = s.asks \ {call}
      /\ Answered(call, ok).decided = s.got \cup {<<call, ok>>}
  BY <1>1, AdvanceShown
<1>3. /\ u \in Task
      /\ u.pc = s.pc
      /\ u.asks = s.asks \ {call}
      /\ u.got = s.got \cup {<<call, ok>>}
      /\ u.todo = s.todo /\ u.busy = s.busy /\ u.card = s.card /\ u.esc = s.esc
  <2>1. <<call, ok>> \in Verdicts
    BY <1>2, VerdictIs
  <2> QED BY <1>1, <1>2, <2>1 DEF Task
<1>4. sv'[c] = t /\ sv' = [sv EXCEPT ![c] = t]
  BY DEF IInv, Types, Answer, ToResume
<1> HIDE DEF u
<1>5. t \in Task /\ t.pc = (IF last THEN "resume" ELSE s.pc)
      /\ t.asks = (IF last THEN {} ELSE s.asks \ {call})
      /\ t.got = s.got \cup {<<call, ok>>}
      /\ t.todo = s.todo /\ t.busy = s.busy /\ t.card = s.card /\ t.esc = s.esc
  BY <1>1, <1>3 DEF Task, Pcs, RunPcs
<1>6. parked' = IF last THEN NoTurn ELSE Answered(call, ok)
  BY DEF Answer, Unpark
<1>7. /\ UNCHANGED <<lease, runner, kid, gone>>
      /\ yes' = IF ok THEN [yes EXCEPT ![call] = @ + 1] ELSE yes
      /\ UNCHANGED <<made, gated, open, results, runs>>
  BY DEF Answer
<1> HIDE DEF t, last, call
<1>8. LedgerStep
  <2>1. CASE ok
    <3>1. Ledger!Allow(call)
      BY <1>2, <1>7, <2>1 DEF Ledger!Allow
    <3> QED BY <1>2, <3>1 DEF LedgerStep, Ledger!Next, Calls, Ledger!Calls
  <2>2. CASE ~ok
    BY <1>7, <2>2 DEF LedgerStep, Ledger!vars
  <2> QED BY <2>1, <2>2
<1>9. Types'
  BY <1>2, <1>4, <1>5, <1>6, <1>7, NoTurnIsTurn DEF IInv, Types
<1>10. ASSUME NEW i \in Calls, <<i, TRUE>> \in t.got PROVE Word(i)'
  <2>1. Ledger!TypeOK /\ Ledger!Authorised /\ (<<i, TRUE>> \in s.got => Word(i))
    BY <1>1 DEF IInv, LedgerInv, Conn, Words
  <2>2. /\ runs[i] \in Nat
        /\ yes[i] \in Nat
        /\ yes[call] \in Nat
        /\ yes \in [Calls -> Nat]
    BY <1>2, <2>1 DEF Ledger!TypeOK, Calls, Ledger!Calls
  <2>3. CASE <<i, TRUE>> \in s.got
    BY <1>2, <1>7, <2>1, <2>2, <2>3 DEF Word, Ledger!Allowance
  <2>4. CASE <<i, TRUE>> \notin s.got
    <3>1. i = call /\ ok
      <4>1. <<i, TRUE>> = <<call, ok>>
        BY <1>5, <1>10, <2>4
      <4> QED BY <4>1
    <3>2. runs[i] <= Ledger!Allowance(i)
      BY <2>1 DEF Ledger!Authorised, Calls, Ledger!Calls
    <3> QED BY <1>7, <2>2, <3>1, <3>2 DEF Word, Ledger!Allowance
  <2> QED BY <2>3, <2>4
<1>11. Turn'
  <2>1. parked.on /\ Turn /\ parked.decided = s.got
    BY <1>1 DEF IInv, Conn, Shown
  <2>2. CASE last
    BY <1>6, <2>2, NoTurnIsTurn DEF Turn
  <2>3. CASE ~last
    <3>1. /\ parked' = Answered(call, ok)
          /\ s.asks \subseteq open
          /\ t.got = parked'.decided
      BY <1>1, <1>2, <1>5, <1>6, <2>3 DEF Conn, InHand
    <3>2. ASSUME NEW d \in parked'.decided PROVE d[1] \in open'
      BY <1>2, <1>7, <2>1, <3>1, <3>2, VerdictIs DEF Turn
    <3> QED BY <1>2, <1>7, <1>10, <2>1, <3>1, <3>2 DEF Turn
  <2> QED BY <2>2, <2>3
<1>12. InHand(sv[c])'
  BY <1>1, <1>4, <1>5, <1>7 DEF Conn, InHand, RunPcs
<1>13. Words(sv[c])'
  BY <1>1, <1>4, <1>5, <1>10 DEF Words
<1>14. Flags(sv[c])'
  <2>1. runner.paused /\ ~runner.aborted /\ ~s.esc
    BY <1>1 DEF Conn, Flags, Shown, IInv, Turn
  <2> QED BY <1>1, <1>4, <1>5, <1>7, <2>1 DEF Flags
<1>15. Shown(sv[c])'
  BY <1>1, <1>2, <1>4, <1>5, <1>6, NoTurnIsTurn DEF Shown
<1>16. lease' = "Running" /\ sv'[c].pc # "off"
  BY <1>1, <1>4, <1>5, <1>7 DEF IInv, Alone
<1> QED BY <1>1, <1>4, <1>8, <1>9, <1>11, <1>12, <1>13, <1>14, <1>15, <1>16,
           StepKeeps
         DEF Conn

\* Esc on a card: the run is aborted and the card counts as refused.
LEMMA EscapeAskKeeps ==
    ASSUME IInv, NEW c \in Clients, EscapeAsk(c) PROVE IInv' /\ LedgerStep
<1> DEFINE s == sv[c]
           call == Min(s.asks)
           u == [s EXCEPT !.asks = @ \ {call}, !.esc = TRUE, !.got = @ \cup {<<call,
               FALSE>>}]
           t == [u EXCEPT !.pc = "resume", !.asks = {}, !.runq = {}]
<1>1. /\ s \in Task
      /\ Conn(s)
      /\ s.pc \in {"ask", "reask"}
      /\ s.asks # {}
      /\ s.card = {}
  BY DEF IInv, Types, EscapeAsk, At
<1>2. runner \in RunnerFlags /\ runner.paused
  BY <1>1 DEF IInv, Types, Conn, Shown, Turn
<1>3. AbortFlags \in RunnerFlags /\ AbortFlags.aborted /\ AbortFlags.paused
  BY <1>2, AbortFlagsIs
<1>4. call \in s.asks /\ call \in Calls
  BY <1>1, MinOfCalls DEF Task
<1>5. u \in Task /\ u.pc = s.pc /\ u.got = s.got \cup {<<call, FALSE>>} /\ u.esc
      /\ u.todo = s.todo /\ u.busy = s.busy /\ u.card = s.card
  <2>1. <<call, FALSE>> \in Verdicts
    BY <1>4, VerdictIs
  <2> QED BY <1>1, <1>4, <2>1 DEF Task
<1>6. sv'[c] = t /\ sv' = [sv EXCEPT ![c] = t] /\ parked' = NoTurn
  BY <1>3 DEF IInv, Types, EscapeAsk, ToResume, Unpark
<1> HIDE DEF u
<1>7. t \in Task /\ t.pc = "resume" /\ t.asks = {} /\ t.got = u.got /\ t.esc
      /\ t.todo = s.todo /\ t.busy = s.busy /\ t.card = s.card
  BY <1>5 DEF Task, Pcs, RunPcs
<1> HIDE DEF t, call
<1>8. UNCHANGED <<lease, gone, kid>> /\ UNCHANGED log /\ runner' = AbortFlags
  BY DEF EscapeAsk
<1>9. Turn'
  BY <1>6, NoTurnIsTurn DEF Turn
<1>10. InHand(sv[c])'
  BY <1>1, <1>6, <1>7, <1>8 DEF Conn, InHand, RunPcs, log
<1>11. Words(sv[c])'
  BY <1>1, <1>5, <1>6, <1>7, <1>8 DEF Conn, Words, Word, Ledger!Allowance, log
<1>12. Flags(sv[c])' /\ Shown(sv[c])'
  BY <1>3, <1>6, <1>7, <1>8, NoTurnIsTurn DEF Flags, Shown
<1> QED BY <1>1, <1>3, <1>6, <1>7, <1>8, <1>9, <1>10, <1>11, <1>12, QuietKeeps,
           NoTurnIsTurn
         DEF IInv, Types, Conn

\* The open calls are calls of the log.
LEMMA OpenCalls ==
    ASSUME IInv
    PROVE  open \subseteq Calls /\ made \in Nat /\ open \subseteq 1..made
                                     /\ made <= MaxCalls
  BY KidsAssumption DEF IInv, LedgerInv, Ledger!TypeOK, Calls

\* A new run has neither flag.
LEMMA FreshFlags == Fresh \in RunnerFlags /\ ~Fresh.paused /\ ~Fresh.aborted
  BY DEF Fresh, RunnerFlags

-----------------------------------------------------------------------------
(* The run: steps that do not write to the log.                            *)

\* A message starts a run.
LEMMA MessageSendKeeps ==
    ASSUME IInv, NEW c \in Clients, MessageSend(c)
    PROVE  IInv' /\ LedgerStep
<1> DEFINE s == sv[c]
           t == [s EXCEPT !.pc = "reconcile", !.next = "drive", !.asks = {},
                           !.todo = open, !.runq = {}]
<1>1. s \in Task /\ Conn(s) /\ s.pc = "idle" /\ s.card = {}
  BY DEF IInv, Types, MessageSend, At
<1>p. open \subseteq Calls
  BY OpenCalls
<1>2. t \in Task
  BY <1>1, <1>p DEF Task, Pcs, RunPcs, Off, IInv, Types
<1>3. /\ t.pc = "reconcile" /\ t.asks = {} /\ t.got = s.got
      /\ t.todo = open /\ t.busy = s.busy /\ t.card = s.card
      /\ t.esc = s.esc
  BY <1>1 DEF Task, Off
<1>4. sv'[c] = t /\ sv' = [sv EXCEPT ![c] = t]
  BY <1>1, <1>p DEF IInv, Types, MessageSend, Reconciling
<1> HIDE DEF t
<1>5. UNCHANGED <<lease, gone>> /\ UNCHANGED log /\ UNCHANGED <<parked, kid>>
  BY <1>1 DEF MessageSend
<1>e. runner' = Fresh /\ Fresh \in RunnerFlags /\ ~Fresh.paused /\ ~Fresh.aborted
  BY FreshFlags DEF MessageSend
<1>6. Turn'
  BY <1>1, <1>5, NoneParked DEF RunPcs, Turn
<1>7. InHand(sv[c])'
  BY <1>1, <1>p, <1>3, <1>4, <1>5, <1>e, NoneParked DEF Conn, InHand, RunPcs, log
<1>8. Words(sv[c])'
  BY <1>1, <1>p, <1>3, <1>4, <1>5, <1>e, NoneParked
  DEF Conn, Words, Word, Ledger!Allowance, log
<1>9. Flags(sv[c])' /\ Shown(sv[c])'
  BY <1>1, <1>p, <1>3, <1>4, <1>5, <1>e, NoneParked
  DEF Conn, InHand, Flags, Shown, RunPcs
<1> QED BY <1>1, <1>2, <1>3, <1>4, <1>5, <1>e, <1>6, <1>7, <1>8, <1>9, QuietKeeps,
           NoTurnIsTurn DEF IInv, Types, Conn, RunPcs

\* A notification starts a run.
LEMMA NotificationDrainKeeps ==
    ASSUME IInv, NEW c \in Clients, NotificationDrain(c)
    PROVE  IInv' /\ LedgerStep
<1> DEFINE s == sv[c]
           t == [s EXCEPT !.pc = "drive", !.runq = {}]
<1>1. s \in Task /\ Conn(s) /\ s.pc = "idle" /\ s.card = {}
  BY DEF IInv, Types, NotificationDrain, At
<1>2. t \in Task
  BY <1>1 DEF Task, Pcs, RunPcs, Off, IInv, Types
<1>3. /\ t.pc = "drive" /\ t.asks = s.asks /\ t.got = s.got
      /\ t.todo = s.todo /\ t.busy = s.busy /\ t.card = s.card
      /\ t.esc = s.esc
  BY <1>1 DEF Task, Off
<1>4. sv'[c] = t /\ sv' = [sv EXCEPT ![c] = t]
  BY <1>1 DEF IInv, Types, NotificationDrain
<1> HIDE DEF t
<1>5. UNCHANGED <<lease, gone>> /\ UNCHANGED log /\ UNCHANGED <<parked, kid>>
  BY <1>1 DEF NotificationDrain
<1>e. runner' = Fresh /\ Fresh \in RunnerFlags /\ ~Fresh.paused /\ ~Fresh.aborted
  BY FreshFlags DEF NotificationDrain
<1>6. Turn'
  BY <1>1, <1>5, NoneParked DEF RunPcs, Turn
<1>7. InHand(sv[c])'
  BY <1>1, <1>3, <1>4, <1>5, <1>e, NoneParked DEF Conn, InHand, RunPcs, log
<1>8. Words(sv[c])'
  BY <1>1, <1>3, <1>4, <1>5, <1>e, NoneParked
  DEF Conn, Words, Word, Ledger!Allowance, log
<1>9. Flags(sv[c])' /\ Shown(sv[c])'
  BY <1>1, <1>3, <1>4, <1>5, <1>e, NoneParked
  DEF Conn, InHand, Flags, Shown, RunPcs
<1> QED BY <1>1, <1>2, <1>3, <1>4, <1>5, <1>e, <1>6, <1>7, <1>8, <1>9, QuietKeeps,
           NoTurnIsTurn DEF IInv, Types, Conn, RunPcs

\* The run ends.
LEMMA FinishKeeps ==
    ASSUME IInv, NEW c \in Clients, Finish(c)
    PROVE  IInv' /\ LedgerStep
<1> DEFINE s == sv[c]
           t == [Off EXCEPT !.pc = "flush", !.asks = {}, !.from = s.from,
                              !.loop = s.loop, !.loopq = s.loopq]
<1>1. s \in Task /\ Conn(s) /\ s.pc = "drive" /\ s.card = {}
  BY DEF IInv, Types, Finish, At
<1>2. t \in Task
  BY <1>1 DEF Task, Pcs, RunPcs, Off, IInv, Types
<1>3. /\ t.pc = "flush" /\ t.asks = {} /\ t.got = {}
      /\ t.todo = {} /\ t.busy = {} /\ t.card = {}
      /\ t.esc = FALSE
  BY <1>1 DEF Task, Off
<1>4. sv'[c] = t /\ sv' = [sv EXCEPT ![c] = t]
  BY <1>1 DEF IInv, Types, Finish, Returned
<1> HIDE DEF t
<1>5. /\ UNCHANGED <<lease, gone>>
      /\ UNCHANGED log
      /\ UNCHANGED <<parked, runner, kid>>
  BY <1>1 DEF Finish
<1>6. Turn'
  BY <1>1, <1>5, NoneParked DEF RunPcs, Turn
<1>7. InHand(sv[c])'
  BY <1>1, <1>3, <1>4, <1>5, NoneParked DEF Conn, InHand, RunPcs, log
<1>8. Words(sv[c])'
  BY <1>1, <1>3, <1>4, <1>5, NoneParked DEF Conn, Words, Word, Ledger!Allowance, log
<1>9. Flags(sv[c])' /\ Shown(sv[c])'
  BY <1>1, <1>3, <1>4, <1>5, NoneParked DEF Conn, InHand, Flags, Shown, RunPcs
<1> QED BY <1>1, <1>2, <1>3, <1>4, <1>5, <1>6, <1>7, <1>8, <1>9, QuietKeeps,
           NoTurnIsTurn DEF IInv, Types, Conn, RunPcs

\* The run is stopped.
LEMMA StopKeeps ==
    ASSUME IInv, NEW c \in Clients, Stop(c)
    PROVE  IInv' /\ LedgerStep
<1> DEFINE s == sv[c]
           t == [s EXCEPT !.pc = "reconcile", !.next = "end", !.asks = {}, !.todo = open]
<1>1. s \in Task /\ Conn(s) /\ s.pc = "drive" /\ s.card = {}
  BY DEF IInv, Types, Stop, At
<1>p. open \subseteq Calls
  BY OpenCalls
<1>2. t \in Task
  BY <1>1, <1>p DEF Task, Pcs, RunPcs, Off, IInv, Types
<1>3. /\ t.pc = "reconcile" /\ t.asks = {} /\ t.got = s.got
      /\ t.todo = open /\ t.busy = s.busy /\ t.card = s.card
      /\ t.esc = s.esc
  BY <1>1 DEF Task, Off
<1>4. sv'[c] = t /\ sv' = [sv EXCEPT ![c] = t]
  BY <1>1, <1>p DEF IInv, Types, Stop, Reconciling
<1> HIDE DEF t
<1>5. /\ UNCHANGED <<lease, gone>>
      /\ UNCHANGED log
      /\ UNCHANGED <<parked, runner, kid>>
  BY <1>1 DEF Stop
<1>6. Turn'
  BY <1>1, <1>5, NoneParked DEF RunPcs, Turn
<1>7. InHand(sv[c])'
  BY <1>1, <1>p, <1>3, <1>4, <1>5, NoneParked DEF Conn, InHand, RunPcs, log
<1>8. Words(sv[c])'
  BY <1>1, <1>p, <1>3, <1>4, <1>5, NoneParked
  DEF Conn, Words, Word, Ledger!Allowance, log
<1>9. Flags(sv[c])' /\ Shown(sv[c])'
  BY <1>1, <1>p, <1>3, <1>4, <1>5, NoneParked
  DEF Conn, InHand, Flags, Shown, RunPcs
<1> QED BY <1>1, <1>2, <1>3, <1>4, <1>5, <1>6, <1>7, <1>8, <1>9, QuietKeeps,
           NoTurnIsTurn DEF IInv, Types, Conn, RunPcs

\* The run fails.
LEMMA RunFailsKeeps ==
    ASSUME IInv, NEW c \in Clients, RunFails(c)
    PROVE  IInv' /\ LedgerStep
<1> DEFINE s == sv[c]
           t == [Off EXCEPT !.pc = "flush", !.asks = {}, !.from = s.from,
                              !.loop = s.loop, !.loopq = s.loopq]
<1>1. s \in Task /\ Conn(s) /\ s.pc \in RunPcs /\ s.card = {}
  BY DEF IInv, Types, RunFails, At
<1>2. t \in Task
  BY <1>1 DEF Task, Pcs, RunPcs, Off, IInv, Types
<1>3. /\ t.pc = "flush" /\ t.asks = {} /\ t.got = {}
      /\ t.todo = {} /\ t.busy = {} /\ t.card = {}
      /\ t.esc = FALSE
  BY <1>1 DEF Task, Off
<1>4. sv'[c] = t /\ sv' = [sv EXCEPT ![c] = t]
  BY <1>1 DEF IInv, Types, RunFails, Returned
<1> HIDE DEF t
<1>5. /\ UNCHANGED <<lease, gone>>
      /\ UNCHANGED log
      /\ UNCHANGED <<parked, runner, kid>>
  BY <1>1 DEF RunFails
<1>6. Turn'
  BY <1>1, <1>5, NoneParked DEF RunPcs, Turn
<1>7. InHand(sv[c])'
  BY <1>1, <1>3, <1>4, <1>5, NoneParked DEF Conn, InHand, RunPcs, log
<1>8. Words(sv[c])'
  BY <1>1, <1>3, <1>4, <1>5, NoneParked DEF Conn, Words, Word, Ledger!Allowance, log
<1>9. Flags(sv[c])' /\ Shown(sv[c])'
  BY <1>1, <1>3, <1>4, <1>5, NoneParked DEF Conn, InHand, Flags, Shown, RunPcs
<1> QED BY <1>1, <1>2, <1>3, <1>4, <1>5, <1>6, <1>7, <1>8, <1>9, QuietKeeps,
           NoTurnIsTurn DEF IInv, Types, Conn, RunPcs

\* Pausing keeps the flags typed.
LEMMA PausedFlags ==
    ASSUME IInv, ~runner.aborted
    PROVE Paused \in RunnerFlags /\ Paused.paused /\ ~Paused.aborted
  BY DEF IInv, Types, Paused, RunnerFlags

\* The response is resolved: an interruption, another model call or the end.
LEMMA ResolvedKeeps ==
    ASSUME IInv, NEW c \in Clients, Resolved(c)
    PROVE  IInv' /\ LedgerStep
<1> DEFINE s == sv[c]
           t == IF s.asks # {} THEN [Off EXCEPT !.pc = "flush", !.asks = s.asks,
               !.from = s.from,
                                               !.loop = s.loop, !.loopq = s.loopq]
                ELSE IF runner.cancelled
                THEN [s EXCEPT !.pc = "reconcile", !.next = "end", !.asks = {},
                    !.todo = open]
                ELSE [s EXCEPT !.pc = "drive"]
<1>1. /\ s \in Task
      /\ Conn(s)
      /\ s.pc = "exec"
      /\ s.card = {}
      /\ s.todo = {}
      /\ s.busy = {}
  BY DEF IInv, Types, Resolved, At
<1>p. open \subseteq Calls
  BY OpenCalls
<1>2. t \in Task
  BY <1>1, <1>p DEF Task, Pcs, RunPcs, Off, IInv, Types
<1>3. /\ t.pc = (IF s.asks # {} THEN "flush" ELSE IF runner.cancelled THEN "reconcile" ELSE "drive")
      /\ t.asks = s.asks
      /\ t.got = (IF s.asks # {} THEN {} ELSE s.got)
      /\ t.todo = (IF s.asks = {} /\ runner.cancelled THEN open ELSE {})
      /\ t.busy = {}
      /\ t.card = {}
      /\ t.esc = (IF s.asks # {} THEN FALSE ELSE s.esc)
  BY <1>1 DEF Task, Off
<1>4. sv'[c] = t /\ sv' = [sv EXCEPT ![c] = t]
  BY <1>1, <1>p DEF IInv, Types, Resolved, Returned, Reconciling
<1> HIDE DEF t
<1>5. UNCHANGED <<lease, gone>> /\ UNCHANGED log /\ UNCHANGED <<parked, kid>>
  BY <1>1 DEF Resolved
<1>e. /\ s.asks # {} => runner' = Paused /\ Paused \in RunnerFlags /\ Paused.paused /\ ~Paused.aborted
      /\ s.asks = {} => runner' = runner
      /\ runner \in RunnerFlags /\ ~runner.paused /\ ~runner.aborted
  <2>1. ~runner.paused /\ ~runner.aborted
    BY <1>1 DEF Conn, Flags
  <2> QED BY <2>1, PausedFlags DEF Resolved, IInv, Types
<1>6. Turn'
  BY <1>1, <1>5, NoneParked DEF RunPcs, Turn
<1>7. InHand(sv[c])'
  BY <1>1, <1>p, <1>3, <1>4, <1>5, <1>e, NoneParked DEF Conn, InHand, RunPcs, log
<1>8. Words(sv[c])'
  BY <1>1, <1>p, <1>3, <1>4, <1>5, <1>e, NoneParked
  DEF Conn, Words, Word, Ledger!Allowance, log
<1>9. Flags(sv[c])' /\ Shown(sv[c])'
  BY <1>1, <1>p, <1>3, <1>4, <1>5, <1>e, NoneParked
  DEF Conn, InHand, Flags, Shown, RunPcs
<1> QED BY <1>1, <1>2, <1>3, <1>4, <1>5, <1>e, <1>6, <1>7, <1>8, <1>9, QuietKeeps,
           NoTurnIsTurn DEF IInv, Types, Conn, RunPcs

\* The verdicts are settled: what nobody named is raised again.
LEMMA SettledKeeps ==
    ASSUME IInv, NEW c \in Clients, Settled(c)
    PROVE  IInv' /\ LedgerStep
<1> DEFINE s == sv[c]
           t == IF s.asks # {} THEN [Off EXCEPT !.pc = "flush", !.asks = s.asks,
               !.from = s.from,
                                               !.loop = s.loop, !.loopq = s.loopq]
                ELSE [s EXCEPT !.pc = "drive"]
<1>1. /\ s \in Task
      /\ Conn(s)
      /\ s.pc = "settle"
      /\ s.card = {}
      /\ s.todo = {}
      /\ s.busy = {}
  BY DEF IInv, Types, Settled, At
<1>2. t \in Task
  BY <1>1 DEF Task, Pcs, RunPcs, Off, IInv, Types
<1>3. /\ t.pc = (IF s.asks # {} THEN "flush" ELSE "drive")
      /\ t.asks = s.asks
      /\ t.got = (IF s.asks # {} THEN {} ELSE s.got)
      /\ t.todo = {} /\ t.busy = {} /\ t.card = {}
      /\ t.esc = (IF s.asks # {} THEN FALSE ELSE s.esc)
  BY <1>1 DEF Task, Off
<1>4. sv'[c] = t /\ sv' = [sv EXCEPT ![c] = t]
  BY <1>1 DEF IInv, Types, Settled, Returned
<1> HIDE DEF t
<1>5. UNCHANGED <<lease, gone>> /\ UNCHANGED log /\ UNCHANGED <<parked, kid>>
  BY <1>1 DEF Settled
<1>e. /\ s.asks # {} => runner' = Paused /\ Paused \in RunnerFlags /\ Paused.paused /\ ~Paused.aborted
      /\ s.asks = {} => runner' = runner
      /\ runner \in RunnerFlags /\ ~runner.paused /\ ~runner.aborted
  <2>1. ~runner.paused /\ ~runner.aborted
    BY <1>1 DEF Conn, Flags
  <2> QED BY <2>1, PausedFlags DEF Settled, IInv, Types
<1>6. Turn'
  BY <1>1, <1>5, NoneParked DEF RunPcs, Turn
<1>7. InHand(sv[c])'
  BY <1>1, <1>3, <1>4, <1>5, <1>e, NoneParked DEF Conn, InHand, RunPcs, log
<1>8. Words(sv[c])'
  BY <1>1, <1>3, <1>4, <1>5, <1>e, NoneParked
  DEF Conn, Words, Word, Ledger!Allowance, log
<1>9. Flags(sv[c])' /\ Shown(sv[c])'
  BY <1>1, <1>3, <1>4, <1>5, <1>e, NoneParked
  DEF Conn, InHand, Flags, Shown, RunPcs
<1> QED BY <1>1, <1>2, <1>3, <1>4, <1>5, <1>e, <1>6, <1>7, <1>8, <1>9, QuietKeeps,
           NoTurnIsTurn DEF IInv, Types, Conn, RunPcs

\* The parked run is taken up again.
LEMMA ResumeKeeps ==
    ASSUME IInv, NEW c \in Clients, Resume(c)
    PROVE  IInv' /\ LedgerStep
<1> DEFINE s == sv[c]
           t == IF runner.aborted
                THEN [s EXCEPT !.pc = "reconcile", !.next = "end", !.asks = {},
                    !.todo = open]
                ELSE [s EXCEPT !.pc = "settle", !.stop = FALSE, !.todo = open]
<1>1. s \in Task /\ Conn(s) /\ s.pc = "resume" /\ s.card = {}
  BY DEF IInv, Types, Resume, At
<1>p. open \subseteq Calls
  BY OpenCalls
<1>2. t \in Task
  BY <1>1, <1>p DEF Task, Pcs, RunPcs, Off, IInv, Types
<1>3. /\ t.pc = (IF runner.aborted THEN "reconcile" ELSE "settle")
      /\ t.asks = (IF runner.aborted THEN {} ELSE s.asks)
      /\ t.got = s.got
      /\ t.todo = open /\ t.busy = s.busy /\ t.card = s.card
      /\ t.esc = s.esc
  BY <1>1 DEF Task, Off
<1>4. sv'[c] = t /\ sv' = [sv EXCEPT ![c] = t]
  BY <1>1, <1>p DEF IInv, Types, Resume, Reconciling
<1> HIDE DEF t
<1>5. UNCHANGED <<lease, gone>> /\ UNCHANGED log /\ UNCHANGED <<parked, kid>>
  BY <1>1 DEF Resume
<1>e. runner' \in RunnerFlags /\ ~runner'.paused /\ ~runner'.aborted
  <2>1. LET f == [runner EXCEPT !.paused = FALSE, !.aborted = FALSE]
        IN f \in RunnerFlags /\ ~f.paused /\ ~f.aborted
    BY DEF IInv, Types, RunnerFlags
  <2> QED BY <2>1, FreshFlags DEF Resume
<1>6. Turn'
  BY <1>1, <1>5, NoneParked DEF RunPcs, Turn
<1>7. InHand(sv[c])'
  BY <1>1, <1>p, <1>3, <1>4, <1>5, <1>e, NoneParked DEF Conn, InHand, RunPcs, log
<1>8. Words(sv[c])'
  BY <1>1, <1>p, <1>3, <1>4, <1>5, <1>e, NoneParked
  DEF Conn, Words, Word, Ledger!Allowance, log
<1>9. Flags(sv[c])' /\ Shown(sv[c])'
  BY <1>1, <1>p, <1>3, <1>4, <1>5, <1>e, NoneParked
  DEF Conn, InHand, Flags, Shown, RunPcs
<1> QED BY <1>1, <1>2, <1>3, <1>4, <1>5, <1>e, <1>6, <1>7, <1>8, <1>9, QuietKeeps,
           NoTurnIsTurn DEF IInv, Types, Conn, RunPcs

\* Esc during a run.
LEMMA EscapeKeeps ==
    ASSUME IInv, NEW c \in Clients, Escape(c)
    PROVE  IInv' /\ LedgerStep
<1> DEFINE s == sv[c]
           t == [s EXCEPT !.esc = @ \/ s.pc = "resume"]
<1>1. s \in Task /\ Conn(s) /\ s.pc \in RunPcs \cup {"shell"} /\ s.card = {}
  BY DEF IInv, Types, Escape, At
<1>2. t \in Task
  BY <1>1 DEF Task, Pcs, RunPcs, Off, IInv, Types
<1>3. /\ t.pc = s.pc /\ t.asks = s.asks /\ t.got = s.got
      /\ t.todo = s.todo /\ t.busy = s.busy /\ t.card = s.card
      /\ t.esc = (s.esc \/ s.pc = "resume")
  BY <1>1 DEF Task, Off
<1>4. sv'[c] = t /\ sv' = [sv EXCEPT ![c] = t]
  <2>1. sv' = [sv EXCEPT ![c] = t]
    BY DEF Escape
  <2> QED BY <2>1 DEF IInv, Types
<1> HIDE DEF t
<1>5. UNCHANGED <<lease, gone>> /\ UNCHANGED log /\ UNCHANGED <<parked, kid>>
  BY <1>1 DEF Escape
<1>e. /\ runner' = AbortFlags
      /\ runner \in RunnerFlags
      /\ AbortFlags \in RunnerFlags
      /\ ~runner.paused /\ ~runner.aborted => ~AbortFlags.paused /\ ~AbortFlags.aborted
      /\ AbortFlags.paused <=> runner.paused
      /\ AbortFlags.aborted <=> runner.aborted \/ runner.paused
  BY AbortFlagsIs DEF Escape, IInv, Types
<1>6. Turn'
  BY <1>1, <1>5, NoneParked DEF RunPcs, Turn
<1>7. InHand(sv[c])'
  BY <1>1, <1>3, <1>4, <1>5, <1>e, NoneParked DEF Conn, InHand, RunPcs, log
<1>8. Words(sv[c])'
  BY <1>1, <1>3, <1>4, <1>5, <1>e, NoneParked
  DEF Conn, Words, Word, Ledger!Allowance, log
<1>9. Flags(sv[c])' /\ Shown(sv[c])'
  BY <1>1, <1>3, <1>4, <1>5, <1>e, NoneParked
  DEF Conn, InHand, Flags, Shown, RunPcs
<1> QED BY <1>1, <1>2, <1>3, <1>4, <1>5, <1>e, <1>6, <1>7, <1>8, <1>9, QuietKeeps,
           NoTurnIsTurn DEF IInv, Types, Conn, RunPcs

-----------------------------------------------------------------------------
(* Children.                                                               *)

\* The serve loop shows a child's card.
LEMMA ShowFromLoopKeeps ==
    ASSUME IInv, NEW c \in Clients, NEW k \in Kids, ShowFromLoop(c, k)
    PROVE  IInv' /\ LedgerStep
<1> DEFINE s == sv[c]
           t == [s EXCEPT !.card = {k}, !.loopq = @ \ {k}]
<1>1. s \in Task /\ Conn(s) /\ s.pc = "idle" /\ s.card = {}
  BY DEF IInv, Types, ShowFromLoop, At
<1>2. t \in Task
  BY <1>1 DEF Task, Pcs, RunPcs, Off, IInv, Types
<1>3. /\ t.pc = s.pc /\ t.asks = s.asks /\ t.got = s.got
      /\ t.todo = s.todo /\ t.busy = s.busy /\ t.card = {k}
      /\ t.esc = s.esc
  BY <1>1 DEF Task, Off
<1>4. sv'[c] = t /\ sv' = [sv EXCEPT ![c] = t]
  <2>1. sv' = [sv EXCEPT ![c] = t]
    BY DEF ShowFromLoop
  <2> QED BY <2>1 DEF IInv, Types
<1> HIDE DEF t
<1>5. /\ UNCHANGED <<lease, gone>>
      /\ UNCHANGED log
      /\ UNCHANGED <<parked, runner, kid>>
  BY <1>1 DEF ShowFromLoop
<1>6. Turn'
  BY <1>1, <1>5, NoneParked DEF RunPcs, Turn
<1>7. InHand(sv[c])'
  BY <1>1, <1>3, <1>4, <1>5, NoneParked DEF Conn, InHand, RunPcs, log
<1>8. Words(sv[c])'
  BY <1>1, <1>3, <1>4, <1>5, NoneParked DEF Conn, Words, Word, Ledger!Allowance, log
<1>9. Flags(sv[c])' /\ Shown(sv[c])'
  BY <1>1, <1>3, <1>4, <1>5, NoneParked DEF Conn, InHand, Flags, Shown, RunPcs
<1> QED BY <1>1, <1>2, <1>3, <1>4, <1>5, <1>6, <1>7, <1>8, <1>9, QuietKeeps,
           NoTurnIsTurn DEF IInv, Types, Conn, RunPcs

\* The run shows a child's card.
LEMMA ShowFromRunKeeps ==
    ASSUME IInv, NEW c \in Clients, NEW k \in Kids, ShowFromRun(c, k)
    PROVE  IInv' /\ LedgerStep
<1> DEFINE s == sv[c]
           t == [s EXCEPT !.card = {k}, !.runq = @ \ {k}]
<1>1. s \in Task /\ Conn(s) /\ s.pc \in RunPcs /\ s.card = {}
  BY DEF IInv, Types, ShowFromRun, At
<1>2. t \in Task
  BY <1>1 DEF Task, Pcs, RunPcs, Off, IInv, Types
<1>3. /\ t.pc = s.pc /\ t.asks = s.asks /\ t.got = s.got
      /\ t.todo = s.todo /\ t.busy = s.busy /\ t.card = {k}
      /\ t.esc = s.esc
  BY <1>1 DEF Task, Off
<1>4. sv'[c] = t /\ sv' = [sv EXCEPT ![c] = t]
  <2>1. sv' = [sv EXCEPT ![c] = t]
    BY DEF ShowFromRun
  <2> QED BY <2>1 DEF IInv, Types
<1> HIDE DEF t
<1>5. /\ UNCHANGED <<lease, gone>>
      /\ UNCHANGED log
      /\ UNCHANGED <<parked, runner, kid>>
  BY <1>1 DEF ShowFromRun
<1>6. Turn'
  BY <1>1, <1>5, NoneParked DEF RunPcs, Turn
<1>7. InHand(sv[c])'
  BY <1>1, <1>3, <1>4, <1>5, NoneParked DEF Conn, InHand, RunPcs, log
<1>8. Words(sv[c])'
  BY <1>1, <1>3, <1>4, <1>5, NoneParked DEF Conn, Words, Word, Ledger!Allowance, log
<1>9. Flags(sv[c])' /\ Shown(sv[c])'
  BY <1>1, <1>3, <1>4, <1>5, NoneParked DEF Conn, InHand, Flags, Shown, RunPcs
<1> QED BY <1>1, <1>2, <1>3, <1>4, <1>5, <1>6, <1>7, <1>8, <1>9, QuietKeeps,
           NoTurnIsTurn DEF IInv, Types, Conn, RunPcs

\* A connection shows the card a child parked.
LEMMA ShowParkedKeeps ==
    ASSUME IInv, NEW c \in Clients, NEW k \in Kids, ShowParked(c, k)
    PROVE  IInv' /\ LedgerStep
<1> DEFINE s == sv[c]
           t == [s EXCEPT !.card = {k}, !.kids = @ \ {k}]
<1>1. s \in Task /\ Conn(s) /\ s.pc = "kids" /\ s.card = {}
  BY DEF IInv, Types, ShowParked, At
<1>2. t \in Task
  BY <1>1 DEF Task, Pcs, RunPcs, Off, IInv, Types
<1>3. /\ t.pc = s.pc /\ t.asks = s.asks /\ t.got = s.got
      /\ t.todo = s.todo /\ t.busy = s.busy /\ t.card = {k}
      /\ t.esc = s.esc
  BY <1>1 DEF Task, Off
<1>4. sv'[c] = t /\ sv' = [sv EXCEPT ![c] = t]
  <2>1. sv' = [sv EXCEPT ![c] = t]
    BY DEF ShowParked
  <2> QED BY <2>1 DEF IInv, Types
<1> HIDE DEF t
<1>5. /\ UNCHANGED <<lease, gone>>
      /\ UNCHANGED log
      /\ UNCHANGED <<parked, runner, kid>>
  BY <1>1 DEF ShowParked
<1>6. Turn'
  BY <1>1, <1>5, NoneParked DEF RunPcs, Turn
<1>7. InHand(sv[c])'
  BY <1>1, <1>3, <1>4, <1>5, NoneParked DEF Conn, InHand, RunPcs, log
<1>8. Words(sv[c])'
  BY <1>1, <1>3, <1>4, <1>5, NoneParked DEF Conn, Words, Word, Ledger!Allowance, log
<1>9. Flags(sv[c])' /\ Shown(sv[c])'
  BY <1>1, <1>3, <1>4, <1>5, NoneParked DEF Conn, InHand, Flags, Shown, RunPcs
<1> QED BY <1>1, <1>2, <1>3, <1>4, <1>5, <1>6, <1>7, <1>8, <1>9, QuietKeeps,
           NoTurnIsTurn DEF IInv, Types, Conn, RunPcs

\* The children's park is read.
LEMMA ParkReadKeeps ==
    ASSUME IInv, NEW c \in Clients, ParkRead(c)
    PROVE  IInv' /\ LedgerStep
<1> DEFINE s == sv[c]
           t == [s EXCEPT !.pc = "kids", !.kids = Waiting]
<1>1. s \in Task /\ Conn(s) /\ s.pc = "park" /\ s.card = {} /\ Waiting \subseteq Kids
  BY DEF IInv, Types, ParkRead, At, Waiting
<1>2. t \in Task
  BY <1>1 DEF Task, Pcs, RunPcs, Off, IInv, Types
<1>3. /\ t.pc = "kids" /\ t.asks = s.asks /\ t.got = s.got
      /\ t.todo = s.todo /\ t.busy = s.busy /\ t.card = s.card
      /\ t.esc = s.esc
  BY <1>1 DEF Task, Off
<1>4. sv'[c] = t /\ sv' = [sv EXCEPT ![c] = t]
  BY <1>1 DEF IInv, Types, ParkRead, Subscribed
<1> HIDE DEF t
<1>5. /\ UNCHANGED <<lease, gone>>
      /\ UNCHANGED log
      /\ UNCHANGED <<parked, runner, kid>>
  BY <1>1 DEF ParkRead
<1>6. Turn'
  BY <1>1, <1>5, NoneParked DEF RunPcs, Turn
<1>7. InHand(sv[c])'
  BY <1>1, <1>3, <1>4, <1>5, NoneParked DEF Conn, InHand, RunPcs, log
<1>8. Words(sv[c])'
  BY <1>1, <1>3, <1>4, <1>5, NoneParked DEF Conn, Words, Word, Ledger!Allowance, log
<1>9. Flags(sv[c])' /\ Shown(sv[c])'
  BY <1>1, <1>3, <1>4, <1>5, NoneParked DEF Conn, InHand, Flags, Shown, RunPcs
<1> QED BY <1>1, <1>2, <1>3, <1>4, <1>5, <1>6, <1>7, <1>8, <1>9, QuietKeeps,
           NoTurnIsTurn DEF IInv, Types, Conn, RunPcs

\* The parked children's cards are all shown.
LEMMA KidsShownKeeps ==
    ASSUME IInv, NEW c \in Clients, KidsShown(c)
    PROVE  IInv' /\ LedgerStep
<1> DEFINE s == sv[c]
           t == [s EXCEPT !.pc = "idle"]
<1>1. s \in Task /\ Conn(s) /\ s.pc = "kids" /\ s.card = {}
  BY DEF IInv, Types, KidsShown, At
<1>2. t \in Task
  BY <1>1 DEF Task, Pcs, RunPcs, Off, IInv, Types
<1>3. /\ t.pc = "idle" /\ t.asks = s.asks /\ t.got = s.got
      /\ t.todo = s.todo /\ t.busy = s.busy /\ t.card = s.card
      /\ t.esc = s.esc
  BY <1>1 DEF Task, Off
<1>4. sv'[c] = t /\ sv' = [sv EXCEPT ![c] = t]
  BY <1>1 DEF IInv, Types, KidsShown
<1> HIDE DEF t
<1>5. /\ UNCHANGED <<lease, gone>>
      /\ UNCHANGED log
      /\ UNCHANGED <<parked, runner, kid>>
  BY <1>1 DEF KidsShown
<1>6. Turn'
  BY <1>1, <1>5, NoneParked DEF RunPcs, Turn
<1>7. InHand(sv[c])'
  BY <1>1, <1>3, <1>4, <1>5, NoneParked DEF Conn, InHand, RunPcs, log
<1>8. Words(sv[c])'
  BY <1>1, <1>3, <1>4, <1>5, NoneParked DEF Conn, Words, Word, Ledger!Allowance, log
<1>9. Flags(sv[c])' /\ Shown(sv[c])'
  BY <1>1, <1>3, <1>4, <1>5, NoneParked DEF Conn, InHand, Flags, Shown, RunPcs
<1> QED BY <1>1, <1>2, <1>3, <1>4, <1>5, <1>6, <1>7, <1>8, <1>9, QuietKeeps,
           NoTurnIsTurn DEF IInv, Types, Conn, RunPcs

\* A child's card is answered.
LEMMA CardAnswerKeeps ==
    ASSUME IInv, NEW c \in Clients, NEW ok \in BOOLEAN, CardAnswer(c, ok)
    PROVE  IInv' /\ LedgerStep
<1> DEFINE s == sv[c]
           t == [s EXCEPT !.card = {}]
<1>1. /\ s \in Task
      /\ Conn(s)
      /\ s.card # {}
      /\ s.pc \in RunPcs \cup {"idle", "kids"}
  BY DEF IInv, Types, CardAnswer, Conn, InHand
<1>2. t \in Task
  BY <1>1 DEF Task, Pcs, RunPcs, Off, IInv, Types
<1>3. /\ t.pc = s.pc /\ t.asks = s.asks /\ t.got = s.got
      /\ t.todo = s.todo /\ t.busy = s.busy /\ t.card = {}
      /\ t.esc = s.esc
  BY <1>1 DEF Task, Off
<1>4. sv'[c] = t /\ sv' = [sv EXCEPT ![c] = t]
  BY <1>1 DEF IInv, Types, CardAnswer
<1> HIDE DEF t
<1>5. UNCHANGED <<lease, gone>> /\ UNCHANGED log /\ UNCHANGED <<runner, parked>>
  <2>1. ~parked.on
    BY <1>1, NoneParked DEF RunPcs
  <2> QED BY <2>1 DEF CardAnswer, Advance
<1>e. kid' \in KidAsks
  BY DEF CardAnswer, Publish, IInv, Types, KidAsks
<1>6. Turn'
  BY <1>1, <1>5, NoneParked DEF RunPcs, Turn
<1>7. InHand(sv[c])'
  BY <1>1, <1>3, <1>4, <1>5, <1>e, NoneParked DEF Conn, InHand, RunPcs, log
<1>8. Words(sv[c])'
  BY <1>1, <1>3, <1>4, <1>5, <1>e, NoneParked
  DEF Conn, Words, Word, Ledger!Allowance, log
<1>9. Flags(sv[c])' /\ Shown(sv[c])'
  BY <1>1, <1>3, <1>4, <1>5, <1>e, NoneParked
  DEF Conn, InHand, Flags, Shown, RunPcs
<1> QED BY <1>1, <1>2, <1>3, <1>4, <1>5, <1>e, <1>6, <1>7, <1>8, <1>9, QuietKeeps,
           NoTurnIsTurn DEF IInv, Types, Conn, RunPcs

\* Esc on a child's card.
LEMMA CardEscapeKeeps ==
    ASSUME IInv, NEW c \in Clients, CardEscape(c)
    PROVE  IInv' /\ LedgerStep
<1> DEFINE s == sv[c]
           t == [s EXCEPT !.card = {}, !.esc = @ \/ s.pc = "resume"]
<1>1. /\ s \in Task
      /\ Conn(s)
      /\ s.card # {}
      /\ s.pc \in RunPcs \cup {"idle", "kids"}
  BY DEF IInv, Types, CardEscape, Conn, InHand
<1>2. t \in Task
  BY <1>1 DEF Task, Pcs, RunPcs, Off, IInv, Types
<1>3. /\ t.pc = s.pc /\ t.asks = s.asks /\ t.got = s.got
      /\ t.todo = s.todo /\ t.busy = s.busy /\ t.card = {}
      /\ t.esc = (s.esc \/ s.pc = "resume")
  BY <1>1 DEF Task, Off
<1>4. sv'[c] = t /\ sv' = [sv EXCEPT ![c] = t]
  <2>1. sv' = [sv EXCEPT ![c] = t]
    BY DEF CardEscape
  <2> QED BY <2>1 DEF IInv, Types
<1> HIDE DEF t
<1>5. UNCHANGED <<lease, gone>> /\ UNCHANGED log /\ UNCHANGED <<parked>>
  BY <1>1 DEF CardEscape
<1>e. /\ kid' \in KidAsks
      /\ runner' = AbortFlags
      /\ runner \in RunnerFlags
      /\ AbortFlags \in RunnerFlags
      /\ ~runner.paused /\ ~runner.aborted => ~AbortFlags.paused /\ ~AbortFlags.aborted
      /\ AbortFlags.paused <=> runner.paused
      /\ AbortFlags.aborted <=> runner.aborted \/ runner.paused
  BY AbortFlagsIs DEF CardEscape, Publish, KidAsks, IInv, Types
<1>6. Turn'
  BY <1>1, <1>5, NoneParked DEF RunPcs, Turn
<1>7. InHand(sv[c])'
  BY <1>1, <1>3, <1>4, <1>5, <1>e, NoneParked DEF Conn, InHand, RunPcs, log
<1>8. Words(sv[c])'
  BY <1>1, <1>3, <1>4, <1>5, <1>e, NoneParked
  DEF Conn, Words, Word, Ledger!Allowance, log
<1>9. Flags(sv[c])' /\ Shown(sv[c])'
  BY <1>1, <1>3, <1>4, <1>5, <1>e, NoneParked
  DEF Conn, InHand, Flags, Shown, RunPcs
<1> QED BY <1>1, <1>2, <1>3, <1>4, <1>5, <1>e, <1>6, <1>7, <1>8, <1>9, QuietKeeps,
           NoTurnIsTurn DEF IInv, Types, Conn, RunPcs

\* The connection closes under a child's card.
LEMMA CardCloseKeeps ==
    ASSUME IInv, NEW c \in Clients, CardClose(c)
    PROVE  IInv' /\ LedgerStep
<1> DEFINE s == sv[c]
           t == [s EXCEPT !.card = {}]
<1>1. /\ s \in Task
      /\ Conn(s)
      /\ s.card # {}
      /\ s.pc \in RunPcs \cup {"idle", "kids"}
  BY DEF IInv, Types, CardClose, Conn, InHand
<1>2. t \in Task
  BY <1>1 DEF Task, Pcs, RunPcs, Off, IInv, Types
<1>3. /\ t.pc = s.pc /\ t.asks = s.asks /\ t.got = s.got
      /\ t.todo = s.todo /\ t.busy = s.busy /\ t.card = {}
      /\ t.esc = s.esc
  BY <1>1 DEF Task, Off
<1>4. sv'[c] = t /\ sv' = [sv EXCEPT ![c] = t]
  BY <1>1 DEF IInv, Types, CardClose
<1> HIDE DEF t
<1>5. UNCHANGED <<lease, gone>> /\ UNCHANGED log /\ UNCHANGED <<runner, parked>>
  BY <1>1 DEF CardClose
<1>e. kid' \in KidAsks
  BY DEF CardClose, Publish, IInv, Types, KidAsks
<1>6. Turn'
  BY <1>1, <1>5, NoneParked DEF RunPcs, Turn
<1>7. InHand(sv[c])'
  BY <1>1, <1>3, <1>4, <1>5, <1>e, NoneParked DEF Conn, InHand, RunPcs, log
<1>8. Words(sv[c])'
  BY <1>1, <1>3, <1>4, <1>5, <1>e, NoneParked
  DEF Conn, Words, Word, Ledger!Allowance, log
<1>9. Flags(sv[c])' /\ Shown(sv[c])'
  BY <1>1, <1>3, <1>4, <1>5, <1>e, NoneParked
  DEF Conn, InHand, Flags, Shown, RunPcs
<1> QED BY <1>1, <1>2, <1>3, <1>4, <1>5, <1>e, <1>6, <1>7, <1>8, <1>9, QuietKeeps,
           NoTurnIsTurn DEF IInv, Types, Conn, RunPcs

\* A child waits no longer.
LEMMA KidTimeoutKeeps ==
    ASSUME IInv, NEW k \in Kids, KidTimeout(k)
    PROVE  IInv' /\ LedgerStep
<1>1. kid' \in KidAsks /\ gone' \in [Clients -> BOOLEAN]
  BY DEF IInv, Types, KidTimeout, KidAsks
<1> QED BY <1>1, AsideKeeps DEF KidTimeout

\* A child's ask only adds to the receivers' queues.
LEMMA KidAskKeeps ==
    ASSUME IInv, NEW k \in Kids, KidAsk(k)
    PROVE  IInv' /\ LedgerStep
<1>1. /\ UNCHANGED <<lease, parked, runner, gone>>
      /\ UNCHANGED log
      /\ kid' \in KidAsks
  BY DEF IInv, Types, KidAsk, KidAsks
<1>2. ASSUME NEW c \in Clients
      PROVE /\ sv'[c] \in Task
            /\ sv'[c].pc = sv[c].pc
            /\ sv'[c].asks = sv[c].asks
            /\ sv'[c].got = sv[c].got
            /\ sv'[c].todo = sv[c].todo /\ sv'[c].busy = sv[c].busy
            /\ sv'[c].card = sv[c].card /\ sv'[c].esc = sv[c].esc
  <2> DEFINE s == sv[c]
             Q == IF s.loop THEN s.loopq \cup {k} ELSE s.loopq
             R == IF s.pc \in RunPcs THEN s.runq \cup {k} ELSE s.runq
  <2>1. s \in Task
    BY DEF IInv, Types
  <2>2. sv'[c] = [s EXCEPT !.loopq = Q, !.runq = R]
    BY DEF KidAsk
  <2>3. Q \subseteq Kids /\ R \subseteq Kids
    BY <2>1 DEF Task
  <2> HIDE DEF Q, R
  <2> QED BY <2>1, <2>2, <2>3 DEF Task
<1>3. sv' \in [Clients -> Task]
  <2>1. sv' = [c \in Clients |-> sv'[c]]
    BY DEF KidAsk
  <2> QED BY <1>2, <2>1
<1>4. Types' /\ Alone'
  BY <1>1, <1>2, <1>3 DEF IInv, Types, Alone
<1>5. LedgerStep /\ LedgerInv'
  BY <1>1, SameLog, LedgerInductive DEF IInv
<1>6. Turn'
  BY <1>1, SameTurn DEF IInv
<1>7. ASSUME NEW c \in Clients PROVE Conn(sv[c])'
  <2>1. Conn(sv[c])
    BY DEF IInv
  <2> QED BY <1>1, <1>2, <2>1
          DEF Conn, InHand, Words, Flags, Shown, Word, Ledger!Allowance, log
<1> QED BY <1>4, <1>5, <1>6, <1>7 DEF IInv

-----------------------------------------------------------------------------
(* Steps that write to the log.                                            *)

\* A step of one connection during a run or a command, when nothing is parked.
LEMMA LogStepKeeps ==
    ASSUME IInv, NEW c \in Clients,
           sv[c].pc \notin {"off", "greet", "ask", "reask"},
           sv' = [sv EXCEPT ![c] = sv'[c]], sv'[c] \in Task, sv'[c].pc # "off",
           UNCHANGED <<lease, parked, kid, gone>>, runner' \in RunnerFlags, LedgerStep,
           Conn(sv[c])'
    PROVE IInv'
<1>1. ~parked.on
  BY NoneParked
<1>2. Turn'
  BY <1>1 DEF Turn
<1>3. Types'
  BY DEF IInv, Types
<1>4. lease' = "Running"
  BY DEF IInv, Alone
<1> QED BY <1>2, <1>3, <1>4, StepKeeps

\* A result of an open call is an entry of the ledger, and so is a start on a word.
LEMMA RecordIsStep ==
    ASSUME IInv, NEW i \in open, Record(i), UNCHANGED <<made, gated, runs, yes>>
    PROVE LedgerStep
<1>1. Ledger!Record(i) /\ i \in Ledger!Calls
  BY OpenCalls DEF Record, Ledger!Record, Calls, Ledger!Calls
<1> QED BY <1>1 DEF LedgerStep, Ledger!Next

\* Starting an allowed call is a step of the ledger.
LEMMA StartIsStep ==
    ASSUME IInv, NEW i \in open, Word(i), Start(i),
           UNCHANGED <<made, gated, open, results, yes>>
    PROVE LedgerStep
<1>1. Ledger!Begin(i) /\ i \in Ledger!Calls
  BY OpenCalls DEF Start, Word, Ledger!Begin, Calls, Ledger!Calls
<1> QED BY <1>1 DEF LedgerStep, Ledger!Next

\* A call that needs no word, or is allowed, and was not started yet.
LEMMA UngatedHasWord ==
    ASSUME IInv, NEW i \in Calls, i \notin gated, runs[i] = 0 PROVE Word(i)
<1>1. yes[i] \in Nat
  BY DEF IInv, LedgerInv, Ledger!TypeOK, Calls, Ledger!Calls
<1> QED BY <1>1 DEF Word, Ledger!Allowance

\* The words of other calls stay when one is started.
LEMMA OtherWords ==
    ASSUME IInv, NEW j \in Calls, Start(j), UNCHANGED <<gated, yes>>,
           NEW i \in Calls, i # j
    PROVE runs'[i] = runs[i] /\ (Word(i) => Word(i)')
<1>1. runs \in [Calls -> Nat]
  BY DEF IInv, LedgerInv, Ledger!TypeOK, Calls, Ledger!Calls
<1>2. runs'[i] = runs[i]
  BY <1>1 DEF Start
<1> QED BY <1>2 DEF Word, Ledger!Allowance

\* The oldest call left open is answered.
LEMMA ReconcileKeeps ==
    ASSUME IInv, NEW c \in Clients, Reconcile(c) PROVE IInv' /\ LedgerStep
<1> DEFINE s == sv[c]
           call == Min(s.todo)
<1>1. s \in Task /\ Conn(s) /\ s.pc = "reconcile" /\ s.card = {}
  BY DEF IInv, Types, Reconcile, At
<1>2. /\ UNCHANGED <<lease, parked, runner, kid, gone>>
      /\ UNCHANGED <<made, gated, runs, yes>>
      /\ runner' \in RunnerFlags
  BY DEF Reconcile, IInv, Types
<1>3. CASE s.todo # {}
  <2> DEFINE t == [s EXCEPT !.todo = @ \ {call}]
  <2>1. call \in s.todo
    BY <1>1, <1>3, MinOfCalls DEF Task
  <2>2. call \in open /\ Record(call)
    BY <1>1, <1>3, <2>1 DEF Conn, InHand, Reconcile
  <2>3. sv'[c] = t /\ sv' = [sv EXCEPT ![c] = t]
    BY <1>3 DEF IInv, Types, Reconcile
  <2>4. /\ t \in Task
        /\ t.pc = "reconcile"
        /\ t.asks = s.asks
        /\ t.todo = s.todo \ {call}
        /\ t.busy = s.busy /\ t.card = s.card
    BY <1>1 DEF Task
  <2> HIDE DEF t, call
  <2>5. LedgerStep
    BY <1>2, <2>2, RecordIsStep
  <2>6. Conn(sv[c])'
    BY <1>1, <1>2, <2>1, <2>2, <2>3, <2>4, NoneParked
       DEF Conn, InHand, Words, Flags, Shown, Record, RunPcs
  <2> QED BY <1>1, <1>2, <2>3, <2>4, <2>5, <2>6, LogStepKeeps
<1>4. CASE s.todo = {}
  <2> DEFINE t == IF s.next = "drive" THEN [s EXCEPT !.pc = "drive"]
                  ELSE [Off EXCEPT !.pc = "flush", !.asks = {}, !.from = s.from,
                                   !.loop = s.loop, !.loopq = s.loopq]
  <2>1. UNCHANGED log
    BY <1>4 DEF Reconcile, log
  <2>2. sv'[c] = t /\ sv' = [sv EXCEPT ![c] = t]
    BY <1>4 DEF IInv, Types, Reconcile, Returned
  <2>3. t \in Task /\ t.pc \in {"drive", "flush"} /\ t.todo = {}
        /\ t.asks \subseteq s.asks
        /\ t.busy \subseteq s.busy
        /\ t.card \subseteq s.card
    BY <1>1, <1>4 DEF Task, Off, Pcs, RunPcs
  <2> HIDE DEF t
  <2>4. LedgerStep
    BY <2>1, SameLog
  <2>5. Conn(sv[c])'
    BY <1>1, <1>2, <1>4, <2>1, <2>2, <2>3, NoneParked
       DEF Conn, InHand, Words, Flags, Shown, RunPcs, log
  <2> QED BY <1>1, <1>2, <2>2, <2>3, <2>4, <2>5, LogStepKeeps
<1> QED BY <1>3, <1>4

\* The model answers with calls, gated or not.
LEMMA RespondKeeps ==
    ASSUME IInv, NEW c \in Clients, NEW n \in 1..MaxBatch, NEW g \in SUBSET Calls,
           Respond(c, n, g)
    PROVE IInv' /\ LedgerStep
<1> DEFINE s == sv[c]
           new == (made + 1)..(made + n)
           t == [s EXCEPT !.pc = "exec", !.asks = g, !.todo = new \ g]
<1>1. s \in Task /\ Conn(s) /\ s.pc = "drive" /\ s.card = {}
  BY DEF IInv, Types, Respond, At
<1>2. /\ made \in Nat
      /\ n \in Nat
      /\ n > 0
      /\ made + n <= MaxCalls
      /\ g \subseteq new
      /\ made' = made + n /\ gated' = gated \cup g /\ open' = open \cup new
      /\ UNCHANGED <<lease, parked, runner, results, runs, yes, kid, gone>>
  BY OpenCalls DEF Respond
<1>3. new \subseteq Calls /\ n \in Ledger!Calls
  BY <1>2, KidsAssumption DEF Calls, Ledger!Calls
<1>4. sv'[c] = t /\ sv' = [sv EXCEPT ![c] = t]
  BY DEF IInv, Types, Respond
<1>5. /\ t \in Task
      /\ t.pc = "exec"
      /\ t.asks = g
      /\ t.todo = new \ g
      /\ t.busy = s.busy
      /\ t.card = s.card
  BY <1>1, <1>3 DEF Task, Pcs, RunPcs
<1>6. ASSUME NEW i \in new PROVE i \notin gated /\ runs[i] = 0 /\ i \notin open
  <2>1. i \in Calls /\ i \notin 1..made
    BY <1>2, <1>3
  <2> QED BY <2>1 DEF IInv, LedgerInv, Ledger!TypeOK, NotYet, Calls, Ledger!Calls
<1>7. LedgerStep
  <2>1. Ledger!Make(n, g)
    BY <1>2 DEF Ledger!Make
  <2> QED BY <1>3, <2>1 DEF LedgerStep, Ledger!Next, Calls, Ledger!Calls
<1> HIDE DEF t, new
<1>8. InHand(sv[c])' /\ Words(sv[c])'
  BY <1>1, <1>2, <1>4, <1>5, <1>6 DEF Conn, InHand, Words, RunPcs
<1>9. Flags(sv[c])' /\ Shown(sv[c])' /\ runner' \in RunnerFlags
  BY <1>1, <1>2, <1>4, <1>5, NoneParked DEF Conn, Flags, Shown, IInv, Types
<1> QED BY <1>1, <1>2, <1>4, <1>5, <1>7, <1>8, <1>9, LogStepKeeps DEF Conn

\* The next call of the response is started, unless a cancellation wins.
LEMMA DispatchKeeps ==
    ASSUME IInv, NEW c \in Clients, Dispatch(c) PROVE IInv' /\ LedgerStep
<1> DEFINE s == sv[c]
           call == Min(s.todo)
           t == [s EXCEPT !.todo = s.todo \ {call}, !.busy = s.busy \cup {call}]
<1>1. /\ s \in Task
      /\ Conn(s)
      /\ s.pc \in {"exec", "shell"}
      /\ s.card = {}
      /\ s.todo # {}
  BY DEF IInv, Types, Dispatch, At
<1>2. call \in s.todo /\ call \in Calls
  BY <1>1, MinOfCalls DEF Task
<1>3. call \in open /\ call \notin gated /\ runs[call] = 0
  BY <1>1, <1>2 DEF Conn, InHand, Words
<1>4. sv'[c] = t /\ sv' = [sv EXCEPT ![c] = t]
  BY DEF IInv, Types, Dispatch
<1>5. t \in Task /\ t.pc = s.pc /\ t.asks = s.asks /\ t.todo = s.todo \ {call}
      /\ t.busy = s.busy \cup {call} /\ t.card = s.card
  BY <1>1, <1>2 DEF Task
<1>6. /\ UNCHANGED <<lease, parked, runner, kid, gone>>
      /\ UNCHANGED <<made, gated, open, results, yes>>
      /\ runner' \in RunnerFlags
  BY DEF Dispatch, IInv, Types
<1>7. Start(call) \/ UNCHANGED runs
  BY DEF Dispatch
<1> HIDE DEF t, call
<1>8. LedgerStep
  BY <1>2, <1>3, <1>6, <1>7, StartIsStep, UngatedHasWord, SameLog DEF log
<1>9. ASSUME NEW i \in t.todo PROVE i \notin gated' /\ runs'[i] = 0
  <2>1. i \in s.todo /\ i # call /\ i \in Calls
    BY <1>1, <1>5, <1>9 DEF Task
  <2>2. i \notin gated /\ runs[i] = 0
    BY <1>1, <2>1 DEF Conn, Words
  <2> QED BY <1>2, <1>6, <1>7, <2>1, <2>2, OtherWords
<1>10. InHand(sv[c])'
  BY <1>1, <1>2, <1>3, <1>4, <1>5, <1>6 DEF Conn, InHand, RunPcs
<1>11. Words(sv[c])'
  BY <1>1, <1>4, <1>5, <1>9 DEF Words
<1>12. Flags(sv[c])' /\ Shown(sv[c])'
  BY <1>1, <1>4, <1>5, <1>6, NoneParked DEF Conn, Flags, Shown
<1> QED BY <1>1, <1>4, <1>5, <1>6, <1>8, <1>10, <1>11, <1>12, LogStepKeeps
        DEF Conn

\* A started call has its result.
LEMMA ResultKeeps ==
    ASSUME IInv, NEW c \in Clients, NEW call \in Calls, Result(c, call)
    PROVE IInv' /\ LedgerStep
<1> DEFINE s == sv[c]
           t == [s EXCEPT !.busy = @ \ {call}]
<1>1. s \in Task /\ Conn(s) /\ s.pc = "exec" /\ s.card = {} /\ call \in s.busy
  BY DEF IInv, Types, Result, At
<1>2. call \in open /\ Record(call)
  BY <1>1 DEF Conn, InHand, Result
<1>3. /\ UNCHANGED <<lease, parked, runner, kid, gone>>
      /\ UNCHANGED <<made, gated, runs, yes>>
      /\ runner' \in RunnerFlags
  BY DEF Result, IInv, Types
<1>4. sv'[c] = t /\ sv' = [sv EXCEPT ![c] = t]
  BY DEF IInv, Types, Result
<1>5. t \in Task /\ t.pc = "exec" /\ t.asks = s.asks /\ t.todo = s.todo
      /\ t.busy = s.busy \ {call} /\ t.card = s.card
  BY <1>1 DEF Task
<1> HIDE DEF t
<1>6. LedgerStep
  BY <1>2, <1>3, RecordIsStep
<1>7. InHand(sv[c])' /\ Words(sv[c])'
  BY <1>1, <1>2, <1>3, <1>4, <1>5 DEF Conn, InHand, Words, Record, RunPcs
<1>8. Flags(sv[c])' /\ Shown(sv[c])'
  BY <1>1, <1>3, <1>4, <1>5, NoneParked DEF Conn, Flags, Shown
<1> QED BY <1>1, <1>3, <1>4, <1>5, <1>6, <1>7, <1>8, LogStepKeeps DEF Conn

\* The verdicts are applied to the open calls: an allowed call is started, a call
\* without a verdict is put aside, the others are answered.
LEMMA SettleKeeps ==
    ASSUME IInv, NEW c \in Clients, Settle(c) PROVE IInv' /\ LedgerStep
<1> DEFINE s == sv[c]
           call == Min(s.todo)
           go == ~s.stop /\ Allowed(s, call)
           aside == ~s.stop /\ Undecided(s, call)
           u == [s EXCEPT !.todo = @ \ {call}]
<1>1. /\ s \in Task
      /\ Conn(s)
      /\ s.pc = "settle"
      /\ s.card = {}
      /\ s.busy = {}
      /\ s.todo # {}
  BY DEF IInv, Types, Settle, At
<1>2. call \in s.todo /\ call \in Calls /\ call \in open
  BY <1>1, MinOfCalls DEF Task, Conn, InHand
<1>3. /\ UNCHANGED <<lease, parked, runner, kid, gone>>
      /\ UNCHANGED <<made, gated, yes>>
      /\ runner' \in RunnerFlags
  BY DEF Settle, IInv, Types
<1>4. u \in Task /\ u.pc = "settle" /\ u.asks = s.asks /\ u.todo = s.todo \ {call}
      /\ u.busy = {} /\ u.card = {} /\ u.got = s.got
  BY <1>1 DEF Task
<1>5. CASE go
  <2> DEFINE t == [u EXCEPT !.busy = {call}]
  <2>1. /\ sv' = [sv EXCEPT ![c] = t]
        /\ UNCHANGED <<open, results>>
        /\ (Start(call) \/ UNCHANGED runs)
    BY <1>5 DEF Settle
  <2>2. sv'[c] = t
    BY <2>1 DEF IInv, Types
  <2> HIDE DEF u, call
  <2>3. /\ t \in Task
        /\ t.pc = "settle"
        /\ t.asks = s.asks
        /\ t.todo = s.todo \ {call}
        /\ t.busy = {call} /\ t.card = {} /\ t.got = s.got
    BY <1>2, <1>4 DEF Task
  <2> HIDE DEF t
  <2>4. Word(call)
    BY <1>1, <1>2, <1>5 DEF Conn, Words, Allowed
  <2>5. LedgerStep
    BY <1>2, <1>3, <2>1, <2>4, StartIsStep, SameLog DEF log
  <2>6. InHand(sv[c])'
    BY <1>1, <1>2, <1>3, <2>1, <2>2, <2>3 DEF Conn, InHand, RunPcs
  <2>7. ASSUME NEW i \in t.todo, <<i, TRUE>> \in t.got PROVE Word(i)'
    <3>1. i \in Calls /\ i \in s.todo /\ i # call /\ <<i, TRUE>> \in s.got
      BY <1>1, <2>3, <2>7 DEF Task
    <3>2. Word(i)
      BY <1>1, <3>1 DEF Conn, Words
    <3>3. CASE Start(call)
      BY <1>2, <1>3, <3>1, <3>2, <3>3, OtherWords
    <3>4. CASE UNCHANGED runs
      BY <1>3, <3>2, <3>4 DEF Word, Ledger!Allowance
    <3> QED BY <2>1, <3>3, <3>4
  <2>8. Words(sv[c])' /\ Flags(sv[c])' /\ Shown(sv[c])'
    BY <1>1, <1>3, <2>2, <2>3, <2>7, NoneParked DEF Conn, Words, Flags, Shown
  <2> QED BY <1>1, <1>3, <2>1, <2>2, <2>3, <2>5, <2>6, <2>8, LogStepKeeps DEF Conn
<1>6. CASE ~go /\ aside
  <2> DEFINE t == [u EXCEPT !.asks = @ \cup {call}]
  <2>1. sv' = [sv EXCEPT ![c] = t] /\ UNCHANGED <<open, results, runs>>
    BY <1>6 DEF Settle
  <2>2. sv'[c] = t
    BY <2>1 DEF IInv, Types
  <2> HIDE DEF u, call
  <2>3. /\ t \in Task
        /\ t.pc = "settle"
        /\ t.asks = s.asks \cup {call}
        /\ t.todo = s.todo \ {call}
        /\ t.busy = {} /\ t.card = {} /\ t.got = s.got
    BY <1>2, <1>4 DEF Task
  <2> HIDE DEF t
  <2>4. LedgerStep
    BY <1>3, <2>1, SameLog DEF log
  <2>5. InHand(sv[c])'
    BY <1>1, <1>2, <1>3, <2>1, <2>2, <2>3 DEF Conn, InHand, RunPcs
  <2>6. Words(sv[c])' /\ Flags(sv[c])' /\ Shown(sv[c])'
    BY <1>1, <1>3, <2>1, <2>2, <2>3, NoneParked
       DEF Conn, Words, Flags, Shown, Word, Ledger!Allowance
  <2> QED BY <1>1, <1>3, <2>1, <2>2, <2>3, <2>4, <2>5, <2>6, LogStepKeeps DEF Conn
<1>7. CASE ~go /\ ~aside
  <2>1. sv' = [sv EXCEPT ![c] = u] /\ Record(call) /\ UNCHANGED runs
    BY <1>7 DEF Settle
  <2>2. sv'[c] = u
    BY <2>1 DEF IInv, Types
  <2> HIDE DEF u, call
  <2>3. LedgerStep
    BY <1>2, <1>3, <2>1, RecordIsStep
  <2>4. InHand(sv[c])'
    BY <1>1, <1>2, <1>3, <1>4, <2>1, <2>2 DEF Conn, InHand, RunPcs, Record
  <2>5. Words(sv[c])' /\ Flags(sv[c])' /\ Shown(sv[c])'
    BY <1>1, <1>3, <1>4, <2>1, <2>2, NoneParked
       DEF Conn, Words, Flags, Shown, Word, Ledger!Allowance
  <2> QED BY <1>1, <1>3, <1>4, <2>1, <2>2, <2>3, <2>4, <2>5, LogStepKeeps DEF Conn
<1> QED BY <1>5, <1>6, <1>7

\* An allowed call has its result.
LEMMA SettleResultKeeps ==
    ASSUME IInv, NEW c \in Clients, SettleResult(c) PROVE IInv' /\ LedgerStep
<1> DEFINE s == sv[c]
           t == [s EXCEPT !.busy = {}, !.stop = runner.cancelled]
<1>1. /\ s \in Task
      /\ Conn(s)
      /\ s.pc = "settle"
      /\ s.card = {}
      /\ runner \in RunnerFlags
  BY DEF IInv, Types, SettleResult, At
<1>2. PICK call \in s.busy : Record(call)
  BY DEF SettleResult
<1>3. call \in open
  BY <1>1, <1>2 DEF Conn, InHand
<1>4. /\ UNCHANGED <<lease, parked, runner, kid, gone>>
      /\ UNCHANGED <<made, gated, runs, yes>>
      /\ runner' \in RunnerFlags
  BY <1>1 DEF SettleResult
<1>5. sv'[c] = t /\ sv' = [sv EXCEPT ![c] = t]
  BY DEF IInv, Types, SettleResult
<1>6. t \in Task /\ t.pc = "settle" /\ t.asks = s.asks /\ t.todo = s.todo
      /\ t.busy = {} /\ t.card = s.card /\ t.got = s.got
  BY <1>1 DEF Task, RunnerFlags
<1> HIDE DEF t
<1>7. LedgerStep
  BY <1>2, <1>3, <1>4, RecordIsStep
<1>8. InHand(sv[c])'
  BY <1>1, <1>2, <1>3, <1>4, <1>5, <1>6 DEF Conn, InHand, Record, RunPcs
<1>9. Words(sv[c])' /\ Flags(sv[c])' /\ Shown(sv[c])'
  BY <1>1, <1>4, <1>5, <1>6, NoneParked
  DEF Conn, Words, Flags, Shown, Word, Ledger!Allowance
<1> QED BY <1>1, <1>4, <1>5, <1>6, <1>7, <1>8, <1>9, LogStepKeeps DEF Conn

\* A shell command of the user starts.
LEMMA DirectShellKeeps ==
    ASSUME IInv, NEW c \in Clients, DirectShell(c) PROVE IInv' /\ LedgerStep
<1> DEFINE s == sv[c]
           t == [s EXCEPT !.pc = "shell", !.todo = {made + 1}]
<1>1. /\ s \in Task
      /\ Conn(s)
      /\ s.pc = "idle"
      /\ s.card = {}
      /\ runner \in RunnerFlags
  BY DEF IInv, Types, DirectShell, At
<1>2. /\ made \in Nat
      /\ made < MaxCalls
      /\ made' = made + 1
      /\ open' = open \cup {made + 1}
      /\ UNCHANGED <<lease, parked, gated, results, runs, yes, kid, gone>>
  BY OpenCalls DEF DirectShell
<1>3. made + 1 \in Calls /\ 1 \in Ledger!Calls
  BY <1>2, KidsAssumption DEF Calls, Ledger!Calls
<1>4. sv'[c] = t /\ sv' = [sv EXCEPT ![c] = t]
  BY DEF IInv, Types, DirectShell
<1>5. /\ t \in Task
      /\ t.pc = "shell"
      /\ t.asks = s.asks
      /\ t.todo = {made + 1}
      /\ t.busy = s.busy
      /\ t.card = s.card
  BY <1>1, <1>3 DEF Task, Pcs, RunPcs
<1>6. made + 1 \notin gated /\ runs[made + 1] = 0 /\ made + 1 \notin open
  <2>1. made + 1 \notin 1..made
    BY <1>2
  <2> QED BY <1>3, <2>1 DEF IInv, LedgerInv, Ledger!TypeOK, NotYet, Calls, Ledger!Calls
<1>7. LedgerStep
  <2>1. (made + 1)..(made + 1) = {made + 1} /\ made + 1 <= MaxCalls
    BY <1>2, KidsAssumption
  <2>2. Ledger!Make(1, {})
    BY <1>2, <2>1 DEF Ledger!Make
  <2> QED BY <1>3, <2>2 DEF LedgerStep, Ledger!Next
<1>8. runner' \in RunnerFlags
  BY <1>1 DEF DirectShell, RunnerFlags
<1> HIDE DEF t
<1>9. Conn(sv[c])'
  BY <1>1, <1>2, <1>4, <1>5, <1>6, NoneParked
  DEF Conn, InHand, Words, Flags, Shown, RunPcs
<1> QED BY <1>1, <1>2, <1>4, <1>5, <1>7, <1>8, <1>9, LogStepKeeps

\* The shell command has its result.
LEMMA ShellResultKeeps ==
    ASSUME IInv, NEW c \in Clients, ShellResult(c) PROVE IInv' /\ LedgerStep
<1> DEFINE s == sv[c]
           t == [s EXCEPT !.pc = "idle", !.busy = {}]
<1>1. s \in Task /\ Conn(s) /\ s.pc = "shell" /\ s.card = {}
  BY DEF IInv, Types, ShellResult, At
<1>2. PICK call \in s.busy : Record(call)
  BY DEF ShellResult
<1>3. call \in open /\ s.todo = {} /\ s.asks = {}
  BY <1>1, <1>2 DEF Conn, InHand
<1>4. /\ UNCHANGED <<lease, parked, runner, kid, gone>>
      /\ UNCHANGED <<made, gated, runs, yes>>
      /\ runner' \in RunnerFlags
  BY DEF ShellResult, IInv, Types
<1>5. sv'[c] = t /\ sv' = [sv EXCEPT ![c] = t]
  BY DEF IInv, Types, ShellResult
<1>6. t \in Task /\ t.pc = "idle" /\ t.asks = s.asks /\ t.todo = s.todo
      /\ t.busy = {} /\ t.card = s.card
  BY <1>1 DEF Task, Pcs, RunPcs
<1> HIDE DEF t
<1>7. LedgerStep
  BY <1>2, <1>3, <1>4, RecordIsStep
<1>8. Conn(sv[c])'
  BY <1>1, <1>3, <1>4, <1>5, <1>6, NoneParked
  DEF Conn, InHand, Words, Flags, Shown, RunPcs
<1> QED BY <1>1, <1>4, <1>5, <1>6, <1>7, <1>8, LogStepKeeps

\* The client goes while the shell command runs, which may be too late to be recorded.
LEMMA ShellCloseKeeps ==
    ASSUME IInv, NEW c \in Clients, ShellClose(c) PROVE IInv' /\ LedgerStep
<1>1. sv[c].pc = "shell" /\ Conn(sv[c]) /\ Exit(c) /\ runner \in RunnerFlags
  BY DEF IInv, Types, ShellClose, At
<1>2. made \in open
  BY <1>1 DEF Conn, InHand
<1>3. UNCHANGED <<parked, kid>> /\ UNCHANGED <<made, gated, runs, yes>>
      /\ (Record(made) \/ UNCHANGED <<open, results>>)
  BY DEF ShellClose
<1>4. LedgerStep
  BY <1>2, <1>3, RecordIsStep, SameLog DEF log
<1>5. runner' \in RunnerFlags
  BY <1>1, AbortFlagsIs DEF ShellClose
<1>6. Turn'
  BY <1>1, <1>3, NoneParked DEF Turn
<1> QED BY <1>1, <1>3, <1>4, <1>5, <1>6, ExitKeeps

-----------------------------------------------------------------------------
(* The invariant and the theorems.                                         *)

\* The invariant holds of a new session.
LEMMA InitHolds == Init => IInv
<1> SUFFICES ASSUME Init PROVE IInv
  OBVIOUS
<1>1. LedgerInv
  <2>1. Ledger!Init
    BY DEF Init, Ledger!Init, Calls, Ledger!Calls
  <2> QED BY <2>1, LedgerInitHolds
<1>2. Types
  BY OffIsTask, NoTurnIsTurn DEF Init, Types, RunnerFlags, KidAsks
<1>3. Alone
  BY OffIsTask DEF Init, Alone
<1>4. Turn
  BY NoTurnIsTurn DEF Init, Turn
<1>5. ASSUME NEW c \in Clients PROVE Conn(sv[c])
  BY OffIsTask, NoTurnIsTurn DEF Init, Conn, InHand, Words, Flags, Shown
<1> QED BY <1>1, <1>2, <1>3, <1>4, <1>5 DEF IInv

\* It says nothing of anything but the variables.
LEMMA StutterKeeps == ASSUME IInv, UNCHANGED vars PROVE IInv' /\ LedgerStep
<1>1. /\ UNCHANGED <<lease, parked, runner, sv>>
      /\ UNCHANGED log
      /\ UNCHANGED <<kid, gone>>
  BY DEF vars, log
<1>2. kid' \in KidAsks /\ gone' \in [Clients -> BOOLEAN]
  BY <1>1 DEF IInv, Types
<1> QED BY <1>1, <1>2, AsideKeeps

\* The start of the process moves no connection.
LEMMA StartupKeeps == ASSUME IInv, Insert \/ Listen PROVE IInv' /\ LedgerStep
<1>1. /\ UNCHANGED <<lease, parked, runner, sv>>
      /\ UNCHANGED log
      /\ UNCHANGED <<kid, gone>>
  BY DEF Insert, Listen
<1>2. kid' \in KidAsks /\ gone' \in [Clients -> BOOLEAN]
  BY <1>1 DEF IInv, Types
<1> QED BY <1>1, <1>2, AsideKeeps

\* Every step keeps it, and is a step of the ledger or leaves it.
LEMMA Inductive == IInv /\ Up /\ [Next]_vars => IInv' /\ LedgerStep
<1> SUFFICES ASSUME IInv, Up, [Next]_vars PROVE IInv' /\ LedgerStep
  OBVIOUS
<1>1. ASSUME NEW c \in Clients, Step(c) PROVE IInv' /\ LedgerStep
  <2>1. CASE Leave(c) \/ Greet(c) \/ ParkRead(c) \/ Flush(c) \/ FlushFails(c)
    BY <2>1, LeaveKeeps, GreetKeeps, ParkReadKeeps, FlushKeeps
  <2>2. CASE Reconcile(c) \/ Finish(c) \/ Stop(c) \/ RunFails(c)
    BY <2>2, ReconcileKeeps, FinishKeeps, StopKeeps, RunFailsKeeps
  <2>3. CASE \E n \in 1..MaxBatch, g \in SUBSET Calls : Respond(c, n, g)
    BY <2>3, RespondKeeps
  <2>4. CASE Dispatch(c) \/ Resolved(c) \/ (\E call \in Calls : Result(c, call))
    BY <2>4, DispatchKeeps, ResolvedKeeps, ResultKeeps
  <2>5. CASE Resume(c) \/ Settle(c) \/ SettleResult(c) \/ Settled(c)
    BY <2>5, ResumeKeeps, SettleKeeps, SettleResultKeeps, SettledKeeps
  <2>6. CASE ShellResult(c) \/ ShellClose(c) \/ KidsShown(c) \/ CardClose(c)
    BY <2>6, ShellResultKeeps, ShellCloseKeeps, KidsShownKeeps, CardCloseKeeps
  <2>7. CASE \E k \in Kids : ShowFromLoop(c, k) \/ ShowFromRun(c, k) \/ ShowParked(c, k)
    BY <2>7, ShowFromLoopKeeps, ShowFromRunKeeps, ShowParkedKeeps
  <2> QED BY <1>1, <2>1, <2>2, <2>3, <2>4, <2>5, <2>6, <2>7 DEF Step
<1>2. ASSUME NEW c \in Clients, Person(c) PROVE IInv' /\ LedgerStep
  BY <1>2, AttachKeeps, AnswerKeeps, CardAnswerKeeps DEF Person
<1>3. ASSUME NEW c \in Clients,
             \/ Close(c) \/ MessageSend(c) \/ NotificationDrain(c)
             \/ DirectShell(c) \/ Escape(c) \/ EscapeAsk(c) \/ CardEscape(c)
      PROVE IInv' /\ LedgerStep
  BY <1>3, CloseKeeps, MessageSendKeeps, NotificationDrainKeeps, DirectShellKeeps,
     EscapeKeeps, EscapeAskKeeps, CardEscapeKeeps
<1>4. ASSUME NEW k \in Kids, KidAsk(k) \/ KidTimeout(k) PROVE IInv' /\ LedgerStep
  BY <1>4, KidAskKeeps, KidTimeoutKeeps
<1>5. CASE UNCHANGED vars
  BY <1>5, StutterKeeps
<1>6. CASE Insert \/ Listen
  BY <1>6, StartupKeeps
<1> QED BY <1>1, <1>2, <1>3, <1>4, <1>5, <1>6 DEF Next

\* Only the start of the process touches the host, and it binds the socket last.
LEMMA UpKept == Up /\ [Next]_vars => Up'
<1> SUFFICES ASSUME Up, [Next]_vars PROVE Up'
  OBVIOUS
<1>1. ASSUME NEW c \in Clients, Step(c) PROVE host' = host
  <2>1. CASE Leave(c) \/ Greet(c) \/ ParkRead(c) \/ Flush(c) \/ FlushFails(c)
    BY <2>1 DEF Leave, Greet, ParkRead, Flush, FlushFails
  <2>2. CASE Reconcile(c) \/ Finish(c) \/ Stop(c) \/ RunFails(c)
    BY <2>2 DEF Reconcile, Finish, Stop, RunFails
  <2>3. CASE \E n \in 1..MaxBatch, g \in SUBSET Calls : Respond(c, n, g)
    BY <2>3 DEF Respond
  <2>4. CASE Dispatch(c) \/ Resolved(c) \/ (\E call \in Calls : Result(c, call))
    BY <2>4 DEF Dispatch, Resolved, Result
  <2>5. CASE Resume(c) \/ Settle(c) \/ SettleResult(c) \/ Settled(c)
    BY <2>5 DEF Resume, Settle, SettleResult, Settled
  <2>6. CASE ShellResult(c) \/ ShellClose(c) \/ KidsShown(c) \/ CardClose(c)
    BY <2>6 DEF ShellResult, ShellClose, KidsShown, CardClose
  <2>7. CASE \E k \in Kids : ShowFromLoop(c, k) \/ ShowFromRun(c, k) \/ ShowParked(c, k)
    BY <2>7 DEF ShowFromLoop, ShowFromRun, ShowParked
  <2> QED BY <1>1, <2>1, <2>2, <2>3, <2>4, <2>5, <2>6, <2>7 DEF Step
<1>2. ASSUME NEW c \in Clients, Person(c) PROVE host' = host
  BY <1>2 DEF Person, Attach, Answer, CardAnswer
<1>3. ASSUME NEW c \in Clients,
             \/ Close(c) \/ MessageSend(c) \/ NotificationDrain(c)
             \/ DirectShell(c) \/ Escape(c) \/ EscapeAsk(c) \/ CardEscape(c)
      PROVE host' = host
  BY <1>3 DEF Close, MessageSend, NotificationDrain, DirectShell, Escape, EscapeAsk,
     CardEscape
<1>4. ASSUME NEW k \in Kids, KidAsk(k) \/ KidTimeout(k) PROVE host' = host
  BY <1>4 DEF KidAsk, KidTimeout
<1>5. CASE UNCHANGED vars
  BY <1>5 DEF vars, Up
<1>6. CASE Insert
  BY <1>6 DEF Insert, Up
<1>7. CASE Listen
  BY <1>7 DEF Listen, Up
<1>8. CASE host' = host
  BY <1>8 DEF Up
<1> QED BY <1>1, <1>2, <1>3, <1>4, <1>5, <1>6, <1>7, <1>8 DEF Next

\* Both hold of every behaviour of the session.
LEMMA Invariant == Spec => [](IInv /\ Up)
<1>1. Init => Up
  BY DEF Init, Up
<1>2. IInv /\ Up /\ [Next]_vars => (IInv /\ Up)'
  BY Inductive, UpKept
<1> QED BY InitHolds, <1>1, <1>2, PTL DEF Spec

\* For every number of clients: one connection at a time serves the session,
\* and the lease is held exactly while one does, however attaches, losses and
\* exits interleave (serve_session, try_take_lease).
THEOREM ServedByOne == Spec => []OneServer
<1>1. IInv => OneServer
  <2> SUFFICES ASSUME IInv PROVE OneServer
    OBVIOUS
  <2>1. CASE Serving = {}
    <3>1. Cardinality(Serving) = 0
      BY <2>1, FS_EmptySet
    <3>2. lease # "Running"
      BY <2>1 DEF Serving, IInv, Alone
    <3> QED BY <2>1, <3>1, <3>2 DEF OneServer
  <2>2. CASE Serving # {}
    <3>1. PICK c \in Clients : sv[c].pc # "off"
      BY <2>2 DEF Serving
    <3>2. Serving = {c} /\ lease = "Running"
      BY <3>1 DEF Serving, IInv, Alone
    <3>3. Cardinality(Serving) = 1
      BY <3>2, FS_Singleton
    <3> QED BY <3>2, <3>3 DEF OneServer
  <2> QED BY <2>1, <2>2
<1> QED BY <1>1, Invariant, PTL

\* For every batch of calls: the turn in the store is the one being asked, about
\* calls still open, and a verdict on another card never enters it.
THEOREM ParkedTurnKept == Spec => []ParkedTurnTrue
<1>1. IInv => ParkedTurnTrue
  BY DEF IInv, Turn, Conn, Shown, ParkedTurnTrue
<1> QED BY <1>1, Invariant, PTL

\* For every order of cancels, verdicts and lost connections: a resume ends as
\* interrupted exactly when a card of its own batch was cancelled.
THEOREM ResumeClean == Spec => []NoPoisonedResume
<1>1. IInv => NoPoisonedResume
  <2> SUFFICES ASSUME IInv, NEW c \in Clients, sv[c].pc = "resume"
               PROVE runner.aborted = sv[c].esc
    BY DEF NoPoisonedResume
  <2>1. runner \in RunnerFlags /\ sv[c] \in Task /\ Flags(sv[c])
    BY DEF IInv, Types, Conn
  <2>2. runner.aborted \in BOOLEAN /\ sv[c].esc \in BOOLEAN
    BY <2>1 DEF RunnerFlags, Task
  <2>3. runner.aborted <=> sv[c].esc
    BY <2>1 DEF Flags
  <2> QED BY <2>2, <2>3
<1> QED BY <1>1, Invariant, PTL

\* The refinement: every step of the session is a step of the ledger of its
\* calls or leaves the ledger alone, wherever a run is dropped, and whoever finds
\* its calls again.
THEOREM SessionKeepsLedger == Spec => KeepsLedger
<1>1. Init => Ledger!Init
  BY DEF Init, Ledger!Init, Calls, Ledger!Calls
<1>2. IInv /\ Up /\ [Next]_vars => [Ledger!Next]_(Ledger!vars)
  BY Inductive DEF LedgerStep
<1> QED BY <1>1, <1>2, Invariant, PTL DEF Spec, KeepsLedger, Ledger!Spec

\* What the ledger promises holds of the session's log: a tool is started at most
\* as often as somebody allowed, and every call has one result or is open.
THEOREM SessionAuthorised == Spec => [](Ledger!Authorised /\ Ledger!OneResult)
<1>1. IInv => Ledger!Authorised /\ Ledger!OneResult
  BY DEF IInv, LedgerInv
<1> QED BY <1>1, Invariant, PTL
=============================================================================
