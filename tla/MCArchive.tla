----------------------------- MODULE MCArchive -----------------------------
EXTENDS Archive, TLC
CONSTANTS f1, f2, x1, x2, a, b, p1, p2
MCPlace == f1 :> x1 @@ f2 :> x2
MCSymmetry == Permutations({a, b}) \cup Permutations({p1, p2})
=============================================================================
