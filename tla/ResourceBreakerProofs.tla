------------------------ MODULE ResourceBreakerProofs ------------------------
(***************************************************************************)
(* The safety properties of ResourceBreaker for every set of commands and  *)
(* every configuration.                                                    *)
(*                                                                         *)
(* OverLimitNotClosed and OpenHasInstant are nearly inductive; the exact   *)
(* process count also needs to know that a command inside record has       *)
(* already left the running ones.                                          *)
(***************************************************************************)
EXTENDS ResourceBreaker, FiniteSetTheorems, TLAPS

\* The task holding record's lock is past its command.
LockEnding == lock # NoCmd => phase[lock] = "ending"

IInv ==
    /\ TypeOK
    /\ LockEnding
    /\ InFlightExact
    /\ OverLimitNotClosed
    /\ OpenHasInstant

-----------------------------------------------------------------------------
(* Counting the running commands. *)

\* The running commands are finitely many, and no more than the commands.
LEMMA RunningFinite ==
    /\ IsFiniteSet(Running)
    /\ Cardinality(Running) \in Nat
    /\ Cardinality(Running) <= Cardinality(Cmds)
<1>1. Running \subseteq Cmds /\ IsFiniteSet(Cmds)
  BY ConstantsAssumption DEF Running
<1>. QED
  BY <1>1, FS_Subset, FS_CardinalityType

\* A command that starts makes one more.
LEMMA OneMore ==
    ASSUME NEW c \in Cmds,
           phase \in [Cmds -> {"idle", "acquired", "running", "ending"}],
           phase[c] # "running", phase' = [phase EXCEPT ![c] = "running"]
    PROVE  /\ Cardinality(Running') = Cardinality(Running) + 1
           /\ Cardinality(Running) + 1 <= Cardinality(Cmds)
<1>1. Running' = Running \cup {c} /\ c \notin Running
  BY DEF Running
<1>2. Cardinality(Running') = Cardinality(Running) + 1
  BY <1>1, RunningFinite, FS_AddElement
<1>3. Running' \subseteq Cmds
  BY DEF Running
<1>4. Cardinality(Running') <= Cardinality(Cmds)
  BY <1>3, ConstantsAssumption, FS_Subset
<1>. QED
  BY <1>2, <1>4

\* A command that ends makes one less.
LEMMA OneLess ==
    ASSUME NEW c \in Cmds,
           phase \in [Cmds -> {"idle", "acquired", "running", "ending"}],
           phase[c] = "running", phase' = [phase EXCEPT ![c] = "ending"]
    PROVE  /\ Cardinality(Running') = Cardinality(Running) - 1
           /\ Cardinality(Running) >= 1
<1>1. Running' = Running \ {c} /\ c \in Running
  BY DEF Running
<1>2. Cardinality(Running') = Cardinality(Running) - 1
  BY <1>1, RunningFinite, FS_RemoveElement
<1>3. Cardinality(Running) # 0
  BY <1>1, RunningFinite, FS_EmptySet
<1>. QED
  BY <1>2, <1>3, RunningFinite

\* A step that moves no command into or out of its run leaves the count alone.
LEMMA SameRunning ==
    ASSUME NEW c \in Cmds, NEW p \in {"idle", "acquired", "ending"},
           phase \in [Cmds -> {"idle", "acquired", "running", "ending"}],
           phase[c] # "running", phase' = [phase EXCEPT ![c] = p]
    PROVE  Running' = Running
BY DEF Running

\* Saturating arithmetic stays within the counter and is exact below its top.
LEMMA SatAddType ==
    ASSUME NEW a \in 0..MaxCount, NEW b \in Nat
    PROVE  /\ SatAdd(a, b) \in 0..MaxCount
           /\ SatAdd(a, b) >= a
           /\ a + b <= MaxCount => SatAdd(a, b) = a + b
BY ConstantsAssumption DEF SatAdd

\* What any call inside record leaves the breaker in.
LEMMA BreakerStep ==
    ASSUME TypeOK, OpenHasInstant,
           \/ RecordFailure
           \/ RecordSuccess
           \/ UNCHANGED breaker
    PROVE  /\ state' \in {"Closed", "Open", "HalfOpen"}
           /\ opened' \in BOOLEAN
           /\ age' \in 0..CoolDown
           /\ OpenHasInstant'
<1>0. 0 \in 0..CoolDown
  BY ConstantsAssumption
<1>1. CASE RecordFailure
  BY <1>0, <1>1 DEF RecordFailure, OpenHasInstant
<1>2. CASE RecordSuccess
  <2>1. state' = "Closed" /\ ~opened' /\ opened' \in BOOLEAN /\ age' = 0
    BY <1>2, Zenon DEF RecordSuccess
  <2>. QED
    BY <1>0, <2>1 DEF OpenHasInstant
<1>3. CASE UNCHANGED breaker
  BY <1>3 DEF breaker, TypeOK, OpenHasInstant
<1>. QED
  BY <1>1, <1>2, <1>3

-----------------------------------------------------------------------------
(* One lemma per action. *)

\* Time passing changes no counter and no state of the breaker.
LEMMA TickInductive == IInv /\ Tick => IInv'
<1>. SUFFICES ASSUME IInv, Tick PROVE IInv'
  OBVIOUS
<1>. USE DEF IInv, Tick, inner
<1>1. TypeOK'
  BY ConstantsAssumption DEF TypeOK
<1>2. LockEnding' /\ InFlightExact'
  BY DEF LockEnding, InFlightExact, Running
<1>3. OverLimitNotClosed' /\ OpenHasInstant'
  BY DEF OverLimitNotClosed, OpenHasInstant
<1>. QED
  BY <1>1, <1>2, <1>3

\* try_acquire moves an Open breaker to HalfOpen at most, and counts nothing.
LEMMA AcquireInductive ==
    ASSUME IInv, NEW c \in Cmds, TryAcquire(c) \/ SpawnFails(c)
    PROVE  IInv'
<1>. USE DEF IInv
<1>1. CASE TryAcquire(c)
  <2>. USE <1>1 DEF TryAcquire, Allow, inner
  <2>1. TypeOK'
    BY DEF TypeOK
  <2>2. LockEnding'
    BY DEF LockEnding, TypeOK
  <2>3. InFlightExact'
    <3>1. Running' = Running
      BY SameRunning DEF TypeOK
    <3>. QED
      BY <3>1 DEF InFlightExact
  <2>4. OverLimitNotClosed' /\ OpenHasInstant'
    BY DEF OverLimitNotClosed, OpenHasInstant, TypeOK
  <2>. QED
    BY <2>1, <2>2, <2>3, <2>4
<1>2. CASE SpawnFails(c)
  <2>. USE <1>2 DEF SpawnFails, inner, breaker
  <2>1. TypeOK'
    BY DEF TypeOK
  <2>2. LockEnding'
    BY DEF LockEnding, TypeOK
  <2>3. InFlightExact'
    <3>1. Running' = Running
      BY SameRunning DEF TypeOK
    <3>. QED
      BY <3>1 DEF InFlightExact
  <2>4. OverLimitNotClosed' /\ OpenHasInstant'
    BY DEF OverLimitNotClosed, OpenHasInstant
  <2>. QED
    BY <2>1, <2>2, <2>3, <2>4
<1>. QED
  BY <1>1, <1>2

\* record(Start) counts the command and judges the process cap.
LEMMA StartInductive ==
    ASSUME IInv, NEW c \in Cmds, Start(c)
    PROVE  IInv'
<1>. USE DEF IInv, Start
<1>1. procs' \in 0..MaxCount
  BY SatAddType DEF TypeOK
<1>2. /\ RecordFailure \/ UNCHANGED breaker
      /\ reason' \in {"none", "cpu", "procs", "command"}
  BY DEF TypeOK
<1>3. /\ state' \in {"Closed", "Open", "HalfOpen"}
      /\ opened' \in BOOLEAN
      /\ age' \in 0..CoolDown
      /\ OpenHasInstant'
  BY <1>2, BreakerStep
<1>4. phase' \in [Cmds -> {"idle", "acquired", "running", "ending"}]
  BY DEF TypeOK
<1>5. TypeOK'
  BY <1>1, <1>2, <1>3, <1>4 DEF TypeOK
<1>6. LockEnding'
  BY DEF LockEnding
<1>7. InFlightExact'
  <2>1. /\ Cardinality(Running') = Cardinality(Running) + 1
        /\ Cardinality(Running) + 1 <= Cardinality(Cmds)
    BY OneMore DEF TypeOK
  <2>2. Cardinality(Cmds) \in Nat /\ Cardinality(Cmds) <= MaxCount
    BY ConstantsAssumption, FS_CardinalityType
  <2>3. procs + 1 <= MaxCount
    BY <2>1, <2>2, RunningFinite, ConstantsAssumption DEF InFlightExact
  <2>4. procs' = procs + 1
    BY <2>3, SatAddType DEF TypeOK
  <2>. QED
    BY <2>1, <2>4 DEF InFlightExact
<1>8. OverLimitNotClosed'
  BY <1>2 DEF OverLimitNotClosed, RecordFailure, breaker
<1>. QED
  BY <1>3, <1>5, <1>6, <1>7, <1>8

\* The span guard's record(End) takes the command out of the count exactly once.
LEMMA EndInductive ==
    ASSUME IInv, NEW c \in Cmds, NEW used \in 0..MaxUse, NEW exceeded \in BOOLEAN,
           End(c, used, exceeded)
    PROVE  IInv'
<1>. USE DEF IInv, End
<1>1. /\ cpu' \in 0..MaxCount
      /\ fails' \in 0..MaxCount
      /\ exceeded => fails' >= fails
  <2>1. cpu' \in 0..MaxCount
    BY SatAddType DEF TypeOK
  <2>2. /\ fails \in 0..MaxCount
        /\ SatAdd(fails, 1) \in 0..MaxCount
        /\ SatAdd(fails, 1) >= fails
    BY SatAddType DEF TypeOK
  <2>3. 0 \in 0..MaxCount
    BY ConstantsAssumption
  <2>. QED
    BY <2>1, <2>2, <2>3
<1>2. /\ Cardinality(Running') = Cardinality(Running) - 1
      /\ Cardinality(Running) >= 1
  BY OneLess DEF TypeOK
<1>3. procs' = procs - 1 /\ procs >= 1
  <2>1. procs \in Nat /\ procs >= 1
    BY <1>2, RunningFinite DEF InFlightExact
  <2>. QED
    BY <2>1 DEF SatSub
<1>4. /\ RecordFailure \/ RecordSuccess \/ UNCHANGED breaker
      /\ reason' \in {"none", "cpu", "procs", "command"}
  BY DEF TypeOK
<1>10. /\ state' \in {"Closed", "Open", "HalfOpen"}
       /\ opened' \in BOOLEAN
       /\ age' \in 0..CoolDown
       /\ OpenHasInstant'
  BY <1>4, BreakerStep
<1>5. phase' \in [Cmds -> {"idle", "acquired", "running", "ending"}]
  BY DEF TypeOK
<1>6. TypeOK'
  <2>1. procs' \in 0..MaxCount
    BY <1>3, ConstantsAssumption DEF TypeOK
  <2>2. lock' \in Cmds \cup {NoCmd} /\ probes' \subseteq Cmds
    BY DEF TypeOK
  <2>. HIDE DEF End, IInv
  <2>. QED
    BY <1>1, <1>4, <1>5, <1>10, <2>1, <2>2 DEF TypeOK
<1>7. LockEnding'
  BY DEF LockEnding, TypeOK
<1>8. InFlightExact'
  BY <1>2, <1>3 DEF InFlightExact
<1>9. OverLimitNotClosed'
  <2>1. lock' # NoCmd
    BY ConstantsAssumption
  <2>2. fails' >= FailThreshold => state' # "Closed"
    <3>1. CASE exceeded
      BY <3>1 DEF RecordFailure
    <3>2. CASE ~exceeded
      BY <3>2, ConstantsAssumption
    <3>. QED
      BY <3>1, <3>2
  <2>. QED
    BY <2>1, <2>2 DEF OverLimitNotClosed
<1>. QED
  BY <1>6, <1>7, <1>8, <1>9, <1>10

\* The rest of record(End) adds the CPU time and judges the aggregate budget.
LEMMA EndCpuInductive ==
    ASSUME IInv, NEW c \in Cmds, EndCpu(c)
    PROVE  IInv'
<1>. USE DEF IInv, EndCpu
<1>7. /\ RecordFailure \/ UNCHANGED breaker
      /\ reason' \in {"none", "cpu", "procs", "command"}
  BY DEF TypeOK
<1>8. /\ state' \in {"Closed", "Open", "HalfOpen"}
      /\ opened' \in BOOLEAN
      /\ age' \in 0..CoolDown
      /\ OpenHasInstant'
  BY <1>7, BreakerStep
<1>1. TypeOK'
  BY <1>7, <1>8 DEF TypeOK
<1>2. LockEnding'
  BY DEF LockEnding
<1>3. phase[c] = "ending"
  BY ConstantsAssumption DEF LockEnding
<1>4. Running' = Running
  BY <1>3, SameRunning DEF TypeOK
<1>5. InFlightExact'
  BY <1>4 DEF InFlightExact
<1>6. OverLimitNotClosed'
  BY <1>7 DEF OverLimitNotClosed, RecordFailure, breaker
<1>. QED
  BY <1>1, <1>2, <1>5, <1>6, <1>8

-----------------------------------------------------------------------------
\* A new breaker satisfies the invariant (ResourceBreaker::new).
LEMMA InitInvariant == Init => IInv
<1>. SUFFICES ASSUME Init PROVE IInv
  OBVIOUS
<1>. USE DEF Init
<1>1. TypeOK
  <2>1. 0 \in 0..CoolDown /\ 0 \in 0..MaxCount
    BY ConstantsAssumption
  <2>2. opened \in BOOLEAN
    BY Zenon
  <2>. QED
    BY <2>1, <2>2 DEF TypeOK
<1>2. InFlightExact
  <2>1. Running = {}
    BY DEF Running
  <2>. QED
    BY <2>1, FS_EmptySet DEF InFlightExact
<1>3. LockEnding /\ OverLimitNotClosed /\ OpenHasInstant
  BY ConstantsAssumption DEF LockEnding, OverLimitNotClosed, OpenHasInstant
<1>. QED
  BY <1>1, <1>2, <1>3 DEF IInv

\* Every step keeps the invariant.
LEMMA StepInvariant == IInv /\ [Next]_vars => IInv'
<1>. SUFFICES ASSUME IInv, [Next]_vars PROVE IInv'
  OBVIOUS
<1>1. CASE Tick
  BY <1>1, TickInductive
<1>2. ASSUME NEW c \in Cmds, TryAcquire(c) \/ SpawnFails(c) PROVE IInv'
  BY <1>2, AcquireInductive
<1>3. ASSUME NEW c \in Cmds, Start(c) PROVE IInv'
  BY <1>3, StartInductive
<1>4. ASSUME NEW c \in Cmds, NEW used \in 0..MaxUse, NEW exceeded \in BOOLEAN,
             End(c, used, exceeded)
      PROVE IInv'
  BY <1>4, EndInductive
<1>5. ASSUME NEW c \in Cmds, EndCpu(c) PROVE IInv'
  BY <1>5, EndCpuInductive
<1>6. CASE UNCHANGED vars
  BY <1>6
  DEF IInv, vars, breaker, inner, TypeOK, LockEnding, InFlightExact, Running,
              OverLimitNotClosed, OpenHasInstant
<1>. QED
  BY <1>1, <1>2, <1>3, <1>4, <1>5, <1>6 DEF Next

\* The inductive invariant holds in every reachable state.
THEOREM Invariance == Spec => []IInv
BY InitInvariant, StepInvariant, PTL DEF Spec

\* Once record has returned, an aggregate over its budget or a streak of
\* overruns leaves the breaker not Closed, for every set of commands and every
\* interleaving of their calls (record, try_acquire).
THEOREM LimitsTrip == Spec => []OverLimitNotClosed
<1>1. IInv => OverLimitNotClosed
  BY DEF IInv
<1>. QED
  BY Invariance, <1>1, PTL

\* in_flight_procs is the number of running commands (BreakerSpanGuard).
THEOREM CountExact == Spec => []InFlightExact
<1>1. IInv => InFlightExact
  BY DEF IInv
<1>. QED
  BY Invariance, <1>1, PTL

\* An Open breaker always has the instant it opened at (BreakerInner::allow).
THEOREM InstantKept == Spec => []OpenHasInstant
<1>1. IInv => OpenHasInstant
  BY DEF IInv
<1>. QED
  BY Invariance, <1>1, PTL

=============================================================================
