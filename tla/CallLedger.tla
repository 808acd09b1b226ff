------------------------------ MODULE CallLedger ------------------------------
(***************************************************************************)
(* What a session's log promises of its tool calls, whoever drives the     *)
(* session: a call is appended once, it is started only while it has no    *)
(* result and only on somebody's word, and it gets one result.             *)
(*                                                                         *)
(* This is the abstract specification; DetachedSession implements it.      *)
(***************************************************************************)
EXTENDS Naturals

CONSTANT MaxCalls  \* bound: calls of one behaviour

Calls == 1..MaxCalls

VARIABLES
    made,     \* the calls of the log are 1..made
    gated,    \* the calls whose tool asks before it runs
    open,     \* calls without a result
    results,  \* how many results each call has
    runs,     \* how often each call's tool was started
    yes       \* how often the user allowed each call

vars == <<made, gated, open, results, runs, yes>>

Init ==
    /\ made = 0 /\ gated = {} /\ open = {}
    /\ results = [i \in Calls |-> 0]
    /\ runs = [i \in Calls |-> 0]
    /\ yes = [i \in Calls |-> 0]

\* The starts a call is good for.
Allowance(i) == yes[i] + (IF i \in gated THEN 0 ELSE 1)

\* ToolCall events: n calls, those in g gated.
Make(n, g) ==
    /\ made' = made + n
    /\ made + n <= MaxCalls
    /\ g \subseteq (made + 1)..(made + n)
    /\ gated' = gated \cup g
    /\ open' = open \cup ((made + 1)..(made + n))
    /\ UNCHANGED <<results, runs, yes>>

\* The user allows a call that has no result.
Allow(i) ==
    /\ i \in open
    /\ yes' = [yes EXCEPT ![i] = @ + 1]
    /\ UNCHANGED <<made, gated, open, results, runs>>

\* The call's tool is started.
Begin(i) ==
    /\ i \in open
    /\ runs[i] < Allowance(i)
    /\ runs' = [runs EXCEPT ![i] = @ + 1]
    /\ UNCHANGED <<made, gated, open, results, yes>>

\* A ToolResult event.
Record(i) ==
    /\ i \in open
    /\ open' = open \ {i}
    /\ results' = [results EXCEPT ![i] = @ + 1]
    /\ UNCHANGED <<made, gated, runs, yes>>

Next ==
    \/ \E n \in Calls, g \in SUBSET Calls : Make(n, g)
    \/ \E i \in Calls : Allow(i) \/ Begin(i) \/ Record(i)

Spec == Init /\ [][Next]_vars

TypeOK ==
    /\ made \in 0..MaxCalls
    /\ gated \subseteq 1..made
    /\ open \subseteq 1..made
    /\ results \in [Calls -> Nat]
    /\ runs \in [Calls -> Nat]
    /\ yes \in [Calls -> Nat]

\* A tool starts only on somebody's word: once for a call no rule gates, and
\* once more for each time the user allowed that very call.
Authorised == \A i \in Calls : runs[i] <= Allowance(i)

\* A call of the log has one result, or none while it is open.
OneResult ==
    \A i \in Calls : results[i] = IF i \in 1..made /\ i \notin open THEN 1 ELSE 0
==============================================================================
