-------------------------- MODULE MCRemoteTransport --------------------------
(* RemoteTransport for TLC: two calls over two sessions. *)
EXTENDS RemoteTransport, TLC

CONSTANTS k1, k2, s1, s2

TwoCalls == {k1, k2}
TwoSessions == {s1, s2}

Symmetry == Permutations(Calls) \cup Permutations(Sessions)
=============================================================================
