----------------------------- MODULE MCTargets -----------------------------
(* LocalTargets for TLC. *)
EXTENDS LocalTargets, TLC
CONSTANTS l1, l2, l3, r1, o1, t1, t2
LocalIds == {l1, l2, l3}
\* l1 and l2 are two names of one device, l1 and l3 the same address.
Hosts == (l1 :> "a") @@ (l2 :> "b") @@ (l3 :> "a")
Macs == (l1 :> "m") @@ (l2 :> "m") @@ (l3 :> "m") @@ (r1 :> "n") @@ (o1 :> "m")
\* Two devices with an address each.
TwoIds == {l1, l2}
TwoHosts == (l1 :> "a") @@ (l2 :> "b")
TwoMacs == (l1 :> "m") @@ (l2 :> "k") @@ (r1 :> "n") @@ (o1 :> "p")
Symmetry == Permutations(Tasks)
=============================================================================
