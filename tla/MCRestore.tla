----------------------------- MODULE MCRestore ------------------------------
(* BackupRestore for TLC. *)
EXTENDS BackupRestore, TLC
CONSTANTS switch, wifi, script, schedule, webhook, j1, j2
ThePlan == <<switch, wifi, script, schedule, webhook>>
Kinds == (switch :> "component") @@ (wifi :> "component") @@ (script :> "script") @@ (schedule :> "list")
         @@ (webhook :> "list")
Content(v) == [p \in {switch, wifi, script, schedule, webhook} |-> v]
Own == Content(1)
TheSource == Content(2)
\* A backup whose script could not be read.
TheGiven == {[Content(4) EXCEPT ![script] = None]}
Symmetry == Permutations(Jobs)
=============================================================================
