------------------------------ MODULE MCUpload ------------------------------
(* ScriptUpload for TLC. *)
EXTENDS ScriptUpload, TLC
CONSTANTS x, y, z, j1, j2, j3
Sizes == (x :> 1) @@ (y :> 3) @@ (z :> 2)
\* Five bytes, of which the first chunk takes all it may, or leaves a byte free.
TwoTexts == {<<x, y, x>>, <<y, z>>}
Old == <<z>>
Symmetry == Permutations(Jobs)
=============================================================================
