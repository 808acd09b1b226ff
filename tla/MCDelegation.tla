---------------------------- MODULE MCDelegation ----------------------------
EXTENDS Delegation

\* Bound of delegation_told: a delegation more leaves room for a setback less,
\* so that one delegation may meet two setbacks and two delegations one.
MaxTogether == 3
FewTogether ==
    Cardinality(At(log, LAMBDA e : e.t = "call")) + setbacks <= MaxTogether
=============================================================================
