--------------------------- MODULE MCRemoteServer ---------------------------
(* RemoteServer for TLC: a few devices, credentials and commands. *)
EXTENDS RemoteServer

CONSTANTS s1, s2, s3, d1, d2, d3, c1, c2, c3, u1, u2

ThreeSockets == {s1, s2, s3}
OneDevice == {d1}
ThreeDevices == {d1, d2, d3}
TwoCreds == {c1, c2}
ThreeCreds == {c1, c2, c3}
OneCred == {c1}
OneUpdate == {u1}
TwoUpdates == {u1, u2}
NoUpdates == {}
=============================================================================
