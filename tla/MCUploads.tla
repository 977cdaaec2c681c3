------------------------------ MODULE MCUploads ------------------------------
EXTENDS Uploads, TLC
CONSTANTS f, g, c1, c2, a, b, e

\* Bodies of two pieces, and an empty one.
Sizes == [x \in Body |-> IF x = e THEN 0 ELSE 2]
Symmetric == Permutations(Name) \cup Permutations(Client)
=============================================================================
