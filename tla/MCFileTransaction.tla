------------------------- MODULE MCFileTransaction -------------------------
EXTENDS FileTransaction, TLC

CONSTANTS a, big, i1, i2, rw, ro

\* One content that is kept and one over the ceiling.
MCContents == {a, big}
MCSize == (a :> 2) @@ (big :> 5) @@ (Torn :> 1)

MCSymmetry == Permutations({i1, i2})
=============================================================================
