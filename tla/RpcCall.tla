------------------------------ MODULE RpcCall ------------------------------
(***************************************************************************)
(* What every RPC transport of the integration promises the device manager *)
(* (rpc/base.py RpcTransport), whatever happens to the connection:         *)
(*                                                                         *)
(*  - a call that returns an answer was executed by the device;            *)
(*  - a call of a method that is not read-only is executed at most once,   *)
(*    even when its caller is told that the outcome is unknown;            *)
(*  - a read-only call (Get or List) may be replayed once;                *)
(*  - a mutating call refused for authentication is never executed.        *)
(*                                                                         *)
(* The device may execute a request after its caller gave up: a timeout    *)
(* says nothing about execution.                                           *)
(***************************************************************************)
EXTENDS Naturals

CONSTANTS Calls,     \* the calls made on one transport
          ReadOnly   \* those whose method is Get* or List*

VARIABLES status,    \* what the caller of each call knows
          executed   \* how often the device executed each call

Answers == {"answered", "refused", "unknown"}

\* How often the device may execute a call: a read-only method is retried once
\* after a transport failure, anything else is sent at most once.
Limit(c) == IF c \in ReadOnly THEN 2 ELSE 1

Init == /\ status = [c \in Calls |-> "idle"]
        /\ executed = [c \in Calls |-> 0]

Start(c) == /\ status[c] = "idle"
            /\ status' = [status EXCEPT ![c] = "active"]
            /\ UNCHANGED executed

Execute(c) == /\ status[c] # "idle"
              /\ status[c] = "refused" => c \in ReadOnly
              /\ executed[c] < Limit(c)
              /\ executed' = [executed EXCEPT ![c] = @ + 1]
              /\ UNCHANGED status

Return(c) == \E a \in Answers :
               /\ status[c] = "active"
               /\ a = "answered" => executed[c] >= 1
               /\ a = "refused" /\ c \notin ReadOnly => executed[c] = 0
               /\ status' = [status EXCEPT ![c] = a]
               /\ UNCHANGED executed

Next == \E c \in Calls : Start(c) \/ Execute(c) \/ Return(c)

Spec == Init /\ [][Next]_<<status, executed>>
=============================================================================
