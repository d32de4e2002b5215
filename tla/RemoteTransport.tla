--------------------------- MODULE RemoteTransport ---------------------------
(***************************************************************************)
(* RemoteRpcTransport (remote.py): calls to one device over the sessions   *)
(* it opens, one after the other.  A caller takes the transport that the   *)
(* device manager has at that moment and may use it later, when it was     *)
(* closed or replaced.  RemoteServer shows how sessions come and go; here  *)
(* they do so at any time, and the frames, futures and closes of each      *)
(* session are modelled.                                                   *)
(*                                                                         *)
(* One action is the code between two awaits that can suspend.             *)
(***************************************************************************)
EXTENDS Naturals, FiniteSets

CONSTANTS
    Calls,      \* the tasks that call async_call, one call each
    Sessions,   \* the sessions of the device
    None

ASSUME NamesAssumption == None \notin Calls \cup Sessions

VARIABLES
    pc,         \* where each call stands
    via,        \* the transport each call took
    fut,        \* the future of each call
    outcome,    \* how each call returned to its caller
    route,      \* DeviceManager.transports of this device
    handler,    \* the task that reads each session
    open,       \* not socket.closed
    connected,  \* the flag of each transport
    closing,    \* an async_close of the session awaits the close of the socket
    closed,     \* history: an async_close of the session has returned
    pending,    \* _pending of all sessions: entries [via, id, call]
    nextId,     \* the next value of each session's _ids
    up,         \* the device is still at the other end
    net,        \* frames between the sessions and the device
    executed    \* history: how often the device executed each call

callVars    == <<pc, via, fut, outcome>>
sessionVars == <<route, handler, open, connected, closing, closed>>
idVars      == <<pending, nextId>>
devVars     == <<up, net, executed>>
vars == <<callVars, sessionVars, idVars, devVars>>

----------------------------------------------------------------------------
(* Values *)

PCs == {"idle", "taken", "waiting", "done"}
Outcomes == {"none", "answered", "timeout", "unavailable"}

\* A future: what resolved it and (history) the call whose request was answered.
Futures == [kind : {"none", "wait", "answer", "closed"}, from : Calls \cup {None}]
Plain(kind) == [kind |-> kind, from |-> None]

Entries == [via : Sessions, id : Nat, call : Calls]
Frames == [kind : {"request", "answer"}, via : Sessions, id : Nat, call : Calls]
FrameOf(kind, e) == [kind |-> kind, via |-> e.via, id |-> e.id, call |-> e.call]

----------------------------------------------------------------------------
(* Careless forms of the pieces below, for mutation runs only *)

IdFromPendingSize(s) == Cardinality({p \in pending : p.via = s})
LeavePending(s) == fut

----------------------------------------------------------------------------
(* Conditions and pieces of steps *)

\* async_connect lets the call through.
Usable(s) == s # None /\ open[s] /\ connected[s]

\* next(self._ids): a counter of the session's own that never goes back.
FreshId(s) == nextId[s]

\* Every future still pending on the session gets RpcUnavailableError.
FailPending(s) ==
    [c \in Calls |-> IF fut[c].kind = "wait" /\ \E p \in pending : p.via = s /\ p.call = c
                     THEN Plain("closed") ELSE fut[c]]

PendingWithout(c) == {p \in pending : p.call # c}

\* The call returns (or raises) o to its caller.
Finish(c, o) ==
    /\ pc' = [pc EXCEPT ![c] = "done"]
    /\ via' = [via EXCEPT ![c] = None]
    /\ outcome' = [outcome EXCEPT ![c] = o]

----------------------------------------------------------------------------
(* async_call *)

Init ==
    /\ pc = [c \in Calls |-> "idle"]
    /\ via = [c \in Calls |-> None]
    /\ fut = [c \in Calls |-> Plain("none")]
    /\ outcome = [c \in Calls |-> "none"]
    /\ route = None
    /\ handler = [s \in Sessions |-> "none"]
    /\ open = [s \in Sessions |-> FALSE]
    /\ connected = [s \in Sessions |-> FALSE]
    /\ closing = [s \in Sessions |-> FALSE]
    /\ closed = [s \in Sessions |-> FALSE]
    /\ pending = {}
    /\ nextId = [s \in Sessions |-> 1]
    /\ up = [s \in Sessions |-> FALSE]
    /\ net = {}
    /\ executed = [c \in Calls |-> 0]

\* get_transport; tasks that make several calls keep what it returned.
Take(c) ==
    /\ pc[c] = "idle"
    /\ pc' = [pc EXCEPT ![c] = "taken"]
    /\ via' = [via EXCEPT ![c] = route]
    /\ UNCHANGED <<fut, outcome, sessionVars, idVars, devVars>>

Offline(c) ==
    /\ pc[c] = "taken" /\ ~Usable(via[c])
    /\ Finish(c, "unavailable")
    /\ UNCHANGED <<fut, sessionVars, idVars, devVars>>

\* The future is registered and the frame written; it may go nowhere.
Send(c) ==
    LET e == [via |-> via[c], id |-> FreshId(via[c]), call |-> c] IN
    /\ pc[c] = "taken" /\ Usable(via[c])
    /\ pending' = pending \cup {e}
    /\ nextId' = [nextId EXCEPT ![via[c]] = @ + 1]
    /\ fut' = [fut EXCEPT ![c] = Plain("wait")]
    /\ net' = IF up[via[c]] THEN net \cup {FrameOf("request", e)} ELSE net
    /\ pc' = [pc EXCEPT ![c] = "waiting"]
    /\ UNCHANGED <<via, outcome, sessionVars, up, executed>>

\* send_json raises on a broken connection; the future is dropped again.
SendFails(c) ==
    /\ pc[c] = "taken" /\ Usable(via[c]) /\ ~up[via[c]]
    /\ nextId' = [nextId EXCEPT ![via[c]] = @ + 1]
    /\ connected' = [connected EXCEPT ![via[c]] = FALSE]
    /\ Finish(c, "unavailable")
    /\ UNCHANGED <<fut, route, handler, open, closing, closed, pending, devVars>>

\* The call resumes with o: the finally block pops the future.
Resume(c, o) ==
    /\ pc[c] = "waiting"
    /\ pending' = PendingWithout(c)
    /\ fut' = [fut EXCEPT ![c] = Plain("none")]
    /\ Finish(c, o)
    /\ UNCHANGED <<sessionVars, nextId, devVars>>

\* A result, an error and a malformed reply all end the call.
Answered(c) == fut[c].kind = "answer" /\ Resume(c, "answered")
Closed(c)   == fut[c].kind = "closed" /\ Resume(c, "unavailable")

\* The 12 s may also pass after the future was resolved, before its task ran.
Timeout(c)  == Resume(c, "timeout")

----------------------------------------------------------------------------
(* Sessions: RemoteServer.async_handle and async_close of the transport *)

\* RemoteServer installed the session, the device manager routes to it.
Connect(s) ==
    /\ handler[s] = "none"
    /\ handler' = [handler EXCEPT ![s] = "serving"]
    /\ open' = [open EXCEPT ![s] = TRUE]
    /\ connected' = [connected EXCEPT ![s] = TRUE]
    /\ up' = [up EXCEPT ![s] = TRUE]
    /\ route' = s
    /\ UNCHANGED <<callVars, closing, closed, idVars, net, executed>>

\* async_handle_frame: a reply resolves the future registered under its id,
\* once.  A frame that was read already is handled even while the socket closes.
Receive(m) ==
    /\ m.kind = "answer" /\ handler[m.via] = "serving"
    /\ net' = net \ {m}
    /\ fut' = [c \in Calls |->
                 IF fut[c].kind = "wait" /\ [via |-> m.via, id |-> m.id, call |-> c] \in pending
                 THEN [kind |-> "answer", from |-> m.call] ELSE fut[c]]
    /\ UNCHANGED <<pc, via, outcome, sessionVars, idVars, up, executed>>

\* The device left or the socket was closed: the handler ends.  The futures
\* pending on the session are left to their timeout.
HandlerEnds(s) ==
    /\ handler[s] = "serving" /\ (~up[s] \/ ~open[s])
    /\ handler' = [handler EXCEPT ![s] = "done"]
    /\ open' = [open EXCEPT ![s] = FALSE]
    /\ IF route = s THEN route' = None /\ connected' = [connected EXCEPT ![s] = FALSE]
                    ELSE UNCHANGED <<route, connected>>
    /\ net' = {m \in net : m.kind = "request" \/ m.via # s}
    /\ UNCHANGED <<callVars, closing, closed, idVars, up, executed>>

\* async_close of an open socket: it waits until the handler let go.
CloseBegin(s) ==
    /\ handler[s] = "serving" /\ open[s]
    /\ open' = [open EXCEPT ![s] = FALSE]
    /\ connected' = [connected EXCEPT ![s] = FALSE]
    /\ closing' = [closing EXCEPT ![s] = TRUE]
    /\ UNCHANGED <<callVars, route, handler, closed, idVars, devVars>>

\* The socket is closed: what is still pending on the session fails.
FailAndClear(s) ==
    /\ fut' = FailPending(s)
    /\ pending' = {p \in pending : p.via # s}
    /\ closed' = [closed EXCEPT ![s] = TRUE]

CloseFinish(s) ==
    /\ closing[s] /\ handler[s] = "done"
    /\ closing' = [closing EXCEPT ![s] = FALSE]
    /\ FailAndClear(s)
    /\ UNCHANGED <<pc, via, outcome, route, handler, open, connected, nextId, devVars>>

\* async_close of a socket that is closed, or being closed, does not wait.
CloseAgain(s) ==
    /\ handler[s] # "none" /\ ~open[s]
    /\ connected' = [connected EXCEPT ![s] = FALSE]
    /\ FailAndClear(s)
    /\ UNCHANGED <<pc, via, outcome, route, handler, open, closing, nextId, devVars>>

----------------------------------------------------------------------------
(* The device and the network *)

DeviceLeaves(s) ==
    /\ up[s]
    /\ up' = [up EXCEPT ![s] = FALSE]
    /\ UNCHANGED <<callVars, sessionVars, idVars, net, executed>>

\* A request is executed and answered or not; it may have arrived before the
\* device left, and then its answer is lost.
Execute(m) ==
    /\ m.kind = "request"
    /\ executed' = [executed EXCEPT ![m.call] = @ + 1]
    /\ \/ net' = net \ {m}
       \/ up[m.via] /\ net' = (net \ {m}) \cup {FrameOf("answer", m)}
    /\ UNCHANGED <<callVars, sessionVars, idVars, up>>

Drop(m) ==
    /\ m.kind = "request" /\ ~up[m.via]
    /\ net' = net \ {m}
    /\ UNCHANGED <<callVars, sessionVars, idVars, up, executed>>

----------------------------------------------------------------------------

CallStep(c) == \/ Offline(c) \/ Send(c) \/ SendFails(c)
               \/ Answered(c) \/ Closed(c) \/ Timeout(c)

SessionStep(s) == Connect(s) \/ HandlerEnds(s) \/ CloseBegin(s) \/ CloseFinish(s) \/ CloseAgain(s)

DeviceStep == \/ \E s \in Sessions : DeviceLeaves(s)
              \/ \E m \in net : Execute(m) \/ Drop(m)

Next == \/ \E c \in Calls : Take(c) \/ CallStep(c)
        \/ \E s \in Sessions : SessionStep(s)
        \/ \E m \in net : Receive(m)
        \/ DeviceStep

Spec == Init /\ [][Next]_vars

----------------------------------------------------------------------------
(* Properties *)

TypeOK ==
    /\ pc \in [Calls -> PCs] /\ via \in [Calls -> Sessions \cup {None}]
    /\ fut \in [Calls -> Futures] /\ outcome \in [Calls -> Outcomes]
    /\ route \in Sessions \cup {None}
    /\ handler \in [Sessions -> {"none", "serving", "done"}]
    /\ {open, connected, closing, closed, up} \subseteq [Sessions -> BOOLEAN]
    /\ pending \subseteq Entries /\ nextId \in [Sessions -> Nat]
    /\ net \subseteq Frames /\ executed \in [Calls -> Nat]

\* A future is only ever resolved with the device's answer to a request of its
\* own call, also when answers come late, after timeouts, or on an older session
\* than the one calls use by now (ids and _pending, lines 105-134).
OwnAnswer == \A c \in Calls : fut[c].kind = "answer" => fut[c].from = c

\* "Close and fail pending calls" (line 151): once async_close of a session has
\* returned, no call waits on it, neither one that was pending nor one whose
\* caller had taken the transport before and only then comes to use it.
ClosedEndsCalls ==
    \A c \in Calls : pc[c] = "waiting" /\ via[c] # None /\ closed[via[c]] => fut[c].kind # "wait"

\* The promise of RpcCall, without any replay: a session is never reconnected,
\* so a read-only call is not executed twice either.
StatusOf(c) == CASE pc[c] = "idle" -> "idle"
                 [] pc[c] \in {"taken", "waiting"} -> "active"
                 [] pc[c] = "done" /\ outcome[c] = "answered" -> "answered"
                 [] OTHER -> "unknown"
status == [c \in Calls |-> StatusOf(c)]
Promise == INSTANCE RpcCall WITH ReadOnly <- {}
KeepsPromise == Promise!Spec

----------------------------------------------------------------------------
(* The inductive invariant behind the theorems of RemoteTransport_proofs *)

\* Ids are old, and those in flight on a session are pending on it, if at all,
\* for the call that sent the frame.
IdInv ==
    /\ \A m \in net : m.id < nextId[m.via]
    /\ \A p \in pending : p.id < nextId[p.via]
    /\ \A m \in net, p \in pending : m.via = p.via /\ m.id = p.id => m.call = p.call
    /\ OwnAnswer

\* A call has one frame at most, before its execution a request and after it
\* an answer; it is answered only after an execution.
ExecInv ==
    \A c \in Calls :
        /\ executed[c] <= 1
        /\ pc[c] \in {"idle", "taken"} => executed[c] = 0 /\ \A m \in net : m.call # c
        /\ \A m, n \in net : m.call = c /\ n.call = c => m = n
        /\ \A m \in net : m.call = c => executed[c] = IF m.kind = "answer" THEN 1 ELSE 0
        /\ fut[c].kind = "answer" => executed[c] = 1
        /\ outcome[c] = "answered" => executed[c] = 1

\* A waiting call is pending on the session it took, which an async_close has
\* not finished with, and which no longer accepts calls once it was closed.
SessionInv ==
    /\ \A c \in Calls : pc[c] = "waiting" =>
          /\ via[c] # None
          /\ fut[c].kind = "wait" => \E p \in pending : p.via = via[c] /\ p.call = c
    /\ \A s \in Sessions : handler[s] # "serving" => ~open[s]
    /\ \A s \in Sessions : closing[s] \/ closed[s] => handler[s] # "none" /\ ~open[s]
    /\ ClosedEndsCalls

IInv == TypeOK /\ IdInv /\ ExecInv /\ SessionInv
=============================================================================
