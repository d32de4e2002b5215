--------------------------- MODULE MCWsTransport ---------------------------
(* WsTransport for TLC: a read-only call and a mutating one. *)
EXTENDS WsTransport

CONSTANTS r1, w1

Reads1 == {r1}
OneReadOneWrite == {r1, w1}
=============================================================================
