--------------------------- MODULE ResourceBreaker ---------------------------
(***************************************************************************)
(* The aggregate breaker for spawned commands (houyicoder-resilience,      *)
(* resource_breaker.rs over the CircuitBreaker of lib.rs), driven by the   *)
(* commands of the sandbox (houyicoder-sandbox, mac/exec.rs and            *)
(* mac/process.rs).                                                        *)
(*                                                                         *)
(* A call to the breaker is one step.  ResourceBreaker::record holds its   *)
(* own lock over two such calls, try_acquire does not take that lock, and  *)
(* so an End is two steps that a try_acquire may separate.  Instants are   *)
(* replaced by age, the time since opened_at, which stops at CoolDown.     *)
(***************************************************************************)
EXTENDS Naturals, FiniteSets

CONSTANTS
    Cmds,          \* tasks that run sandboxed commands
    NoCmd,
    CoolDown,      \* cool_down, in ticks
    CpuBudget,     \* aggregate_cpu_budget_secs
    ProcCap,       \* in_flight_proc_cap
    FailThreshold, \* per_cmd_fail_threshold
    MaxUse,        \* bound on the CPU one command uses
    MaxCount       \* where the counters saturate (u64::MAX, u32::MAX)

ASSUME ConstantsAssumption ==
    /\ NoCmd \notin Cmds
    /\ IsFiniteSet(Cmds)
    /\ CoolDown \in Nat \ {0}
    /\ CpuBudget \in Nat
    /\ ProcCap \in Nat
    /\ FailThreshold \in Nat \ {0}
    /\ MaxUse \in Nat
    /\ MaxCount \in Nat
    /\ CpuBudget < MaxCount
    /\ FailThreshold <= MaxCount
    /\ Cardinality(Cmds) <= MaxCount

VARIABLES
    state,    \* BreakerInner.state
    opened,   \* opened_at is Some
    age,      \* time since opened_at
    cpu,      \* aggregate_cpu_secs
    procs,    \* in_flight_procs
    fails,    \* consecutive_cmd_fails
    reason,   \* last_trip_reason
    phase,    \* where each task is in exec_inner
    lock,     \* the task between the two halves of an End
    probes    \* commands admitted in HalfOpen and not ended (a history variable)

breaker == <<state, opened, age>>
inner == <<cpu, procs, fails, reason>>
vars == <<breaker, inner, phase, lock, probes>>


\* saturating_add
SatAdd(a, b) == IF a + b <= MaxCount THEN a + b ELSE MaxCount

SatSub(a, b) == IF b <= a THEN a - b ELSE 0

-----------------------------------------------------------------------------
(* CircuitBreaker with the failure threshold of 1 it is built with. *)

\* Mutant of Allowed: nothing ever leaves Open but a success.
MutAllowed == state # "Open"

\* BreakerInner::allow: what it answers.
Allowed == state = "Open" /\ opened => age >= CoolDown

\* And what it does: a cooled-down breaker turns HalfOpen.
Allow ==
    /\ Allowed
    /\ state' = IF state = "Open" /\ opened THEN "HalfOpen" ELSE state
    /\ UNCHANGED <<opened, age>>


\* record_failure: with a threshold of 1 every failure leaves the breaker Open
\* with a new instant.
RecordFailure ==
    /\ state' = "Open"
    /\ opened' = TRUE
    /\ age' = 0

RecordSuccess ==
    /\ state' = "Closed"
    /\ opened' = FALSE
    /\ age' = 0

-----------------------------------------------------------------------------
Init ==
    /\ state = "Closed"
    /\ opened = FALSE
    /\ age = 0
    /\ cpu = 0
    /\ procs = 0
    /\ fails = 0
    /\ reason = "none"
    /\ phase = [c \in Cmds |-> "idle"]
    /\ lock = NoCmd
    /\ probes = {}

\* Time passes; only the time since opened_at matters.
Tick ==
    /\ opened
    /\ age < CoolDown
    /\ age' = age + 1
    /\ UNCHANGED <<state, opened, inner, phase, lock, probes>>

\* A refused command returns BreakerOpen and changes nothing.
TryAcquire(c) ==
    /\ phase[c] = "idle"
    /\ Allow
    /\ phase' = [phase EXCEPT ![c] = "acquired"]
    /\ probes' = IF state' = "HalfOpen" THEN probes \cup {c} ELSE probes
    /\ UNCHANGED <<inner, lock>>

\* cmd.spawn() fails: exec_inner returns before any Start.
SpawnFails(c) ==
    /\ phase[c] = "acquired"
    /\ phase' = [phase EXCEPT ![c] = "idle"]
    /\ probes' = probes \ {c}
    /\ UNCHANGED <<breaker, inner, lock>>

\* record(Start)
Start(c) ==
    /\ phase[c] = "acquired"
    /\ lock = NoCmd
    /\ phase' = [phase EXCEPT ![c] = "running"]
    /\ procs' = SatAdd(procs, 1)
    /\ IF procs' > ProcCap
       THEN RecordFailure /\ reason' = "procs"
       ELSE UNCHANGED <<breaker, reason>>
    /\ UNCHANGED <<cpu, fails, lock, probes>>

\* Mutant of End: a command that ends within its budget is not released.
MutEnd(c, used, exceeded) ==
    /\ phase[c] = "running"
    /\ lock = NoCmd
    /\ lock' = c
    /\ phase' = [phase EXCEPT ![c] = "ending"]
    /\ procs' = IF exceeded THEN SatSub(procs, 1) ELSE procs
    /\ cpu' = SatAdd(cpu, used)
    /\ fails' = IF exceeded THEN SatAdd(fails, 1) ELSE 0
    /\ IF exceeded
       THEN IF fails' >= FailThreshold
            THEN RecordFailure /\ reason' = "command"
            ELSE UNCHANGED <<breaker, reason>>
       ELSE RecordSuccess /\ UNCHANGED reason
    /\ UNCHANGED probes

\* record(End) up to the aggregate check.  The span guard records it on every
\* path out of a command: a finish, a timeout (exceeded), a cancelled future.
End(c, used, exceeded) ==
    /\ phase[c] = "running"
    /\ lock = NoCmd
    /\ lock' = c
    /\ phase' = [phase EXCEPT ![c] = "ending"]
    /\ procs' = SatSub(procs, 1)
    /\ cpu' = SatAdd(cpu, used)
    /\ fails' = IF exceeded THEN SatAdd(fails, 1) ELSE 0
    /\ IF exceeded
       THEN IF fails' >= FailThreshold
            THEN RecordFailure /\ reason' = "command"
            ELSE UNCHANGED <<breaker, reason>>
       ELSE RecordSuccess /\ UNCHANGED reason
    /\ UNCHANGED probes

\* Mutant of EndCpu: the budget is taken one second too wide.
MutEndCpu(c) ==
    /\ lock = c
    /\ lock' = NoCmd
    /\ phase' = [phase EXCEPT ![c] = "idle"]
    /\ IF cpu > CpuBudget + 1
       THEN RecordFailure /\ reason' = "cpu"
       ELSE UNCHANGED <<breaker, reason>>
    /\ probes' = probes \ {c}
    /\ UNCHANGED <<cpu, procs, fails>>

\* record(End): the aggregate check, and the lock is released.
EndCpu(c) ==
    /\ lock = c
    /\ lock' = NoCmd
    /\ phase' = [phase EXCEPT ![c] = "idle"]
    /\ IF cpu > CpuBudget
       THEN RecordFailure /\ reason' = "cpu"
       ELSE UNCHANGED <<breaker, reason>>
    /\ probes' = probes \ {c}
    /\ UNCHANGED <<cpu, procs, fails>>

Next ==
    \/ Tick
    \/ \E c \in Cmds :
          \/ TryAcquire(c) \/ SpawnFails(c) \/ Start(c) \/ EndCpu(c)
          \/ \E used \in 0..MaxUse, exceeded \in BOOLEAN : End(c, used, exceeded)

Spec == Init /\ [][Next]_vars

\* Time passes, and a task inside record leaves it.
FairSpec == Spec /\ WF_vars(Tick) /\ \A c \in Cmds : WF_vars(EndCpu(c))

-----------------------------------------------------------------------------
\* The shape of every variable.
TypeOK ==
    /\ state \in {"Closed", "Open", "HalfOpen"}
    /\ opened \in BOOLEAN
    /\ age \in 0..CoolDown
    /\ cpu \in 0..MaxCount
    /\ procs \in 0..MaxCount
    /\ fails \in 0..MaxCount
    /\ reason \in {"none", "cpu", "procs", "command"}
    /\ phase \in [Cmds -> {"idle", "acquired", "running", "ending"}]
    /\ lock \in Cmds \cup {NoCmd}
    /\ probes \subseteq Cmds

Running == {c \in Cmds : phase[c] = "running"}

\* in_flight_procs is the number of commands running, whatever path each took
\* out of exec_inner (BreakerSpanGuard).
InFlightExact == procs = Cardinality(Running)

\* Once the aggregate CPU is over its budget, or the last commands all overran
\* theirs, the breaker is not Closed when record has returned, although every
\* clean End closes it in between.
OverLimitNotClosed ==
    /\ cpu > CpuBudget /\ lock = NoCmd => state # "Closed"
    /\ fails >= FailThreshold => state # "Closed"

\* allow never meets an Open breaker without the instant it opened at, where it
\* would let every call pass; and only a Closed breaker has none.
OpenHasInstant == state = "Closed" <=> ~opened

\* A refusal ends: the breaker admits a command again, even if nothing else
\* happens to it.
RefusalEnds == ~Allowed ~> Allowed

\* resource_breaker.rs: "When Open, try_acquire rejects new spawns for the
\* cool-down."
CoolDownHonoured == [][~Allowed /\ Allowed' => age' >= CoolDown]_vars

\* lib.rs: "a single HalfOpen probe is permitted"
SingleProbe == Cardinality(probes) <= 1

\* resource_breaker.rs: the trip reason is "None if never tripped or has
\* recovered".
ReasonCleared == state = "Closed" => reason = "none"

\* resource_breaker.rs: the aggregate is the CPU "across all in-flight spawned
\* commands"; nothing in flight, nothing used.
CpuOfInFlight == procs = 0 => cpu = 0

=============================================================================
