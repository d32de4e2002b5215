---------------------------- MODULE WsTransport ----------------------------
(***************************************************************************)
(* WebSocketRpcTransport (rpc/websocket.py): concurrent RPC calls over one *)
(* client WebSocket that is dialled on demand, with request ids, a pending *)
(* map, a reader task, two asyncio locks, digest authentication and one    *)
(* retry.                                                                  *)
(*                                                                         *)
(* asyncio runs one task at a time and switches only at an await, so one   *)
(* action is the code between two awaits that can suspend.  Where that     *)
(* code is cut in two actions for readability, the second one is a         *)
(* continuation: no other task of the loop moves before it (LoopFree).     *)
(* The device and the network are not part of the loop and move any time.  *)
(***************************************************************************)
EXTENDS Naturals, FiniteSets

CONSTANTS
    Calls,           \* the tasks that call async_call, one call each
    ReadOnly,        \* those whose method is Get* or List*
    NoCall,          \* no task: the holder of a free lock
    HasPassword,     \* the transport was given a password
    PasswordRight,   \* it is the device's
    AuthRequired,    \* the device asks for authentication
    CallsAfterClose  \* calls may begin after async_close did

ASSUME CallsAssumption == ReadOnly \subseteq Calls /\ NoCall \notin Calls
ASSUME AuthAssumption == {HasPassword, PasswordRight, AuthRequired, CallsAfterClose}
                           \subseteq BOOLEAN

VARIABLES
    pc,         \* where each call stands
    attempt,    \* 0, or 1 once the call is being retried
    fut,        \* the future of each call: what it was resolved with
    outcome,    \* how each call returned to its caller
    sentOn,     \* the connection each call last sent its frame on
    connLock,   \* holder of _connect_lock
    authLock,   \* holder of _auth_lock
    socket,     \* _socket (and its _reader): the number of the connection, 0 for None
    link,       \* state of that connection
    reader,     \* state of its reader task
    connected,  \* the flag the fast path of async_connect trusts
    pending,    \* _pending: request id -> call
    nextId,     \* the next value of _ids
    nonceCount, \* _nonce_count, 0 while _challenge is None
    closer,     \* the task that calls async_close
    unread,     \* history: some reader was cancelled before it ever ran
    conns,      \* connections opened so far
    devNc,      \* the nonce count the device expects on the newest connection
    net,        \* frames between the transport and the device
    executed    \* history: how often the device executed each call

callVars   == <<pc, attempt, outcome, sentOn>>
socketVars == <<socket, link, reader, unread>>
idVars     == <<pending, nextId, nonceCount>>
lockVars   == <<connLock, authLock>>
devVars    == <<conns, devNc, executed>>
vars == <<callVars, fut, lockVars, socketVars, connected, idVars, closer, devVars, net>>

----------------------------------------------------------------------------
(* Values *)

Continuations == {"connect", "retry"}
PCs == Continuations \cup
       {"idle", "wantAuth", "wantLock", "closeDial", "dial", "waiting", "closeRetry", "done"}
Challenges == {"unauthorized", "badChallenge"}
Replies == {"answer"} \cup Challenges
Outcomes == {"none", "answered", "authError", "authFailed", "timeout", "unavailable"}

\* A future: what resolved it, the nonce count of a challenge, and (history)
\* the call whose request was answered.
Futures == [kind : Replies \cup {"none", "wait", "disconnected"},
            nc : Nat, from : Calls \cup {NoCall}]
Plain(kind) == [kind |-> kind, nc |-> 0, from |-> NoCall]

Frames == [kind : Replies \cup {"request"}, id : Nat, call : Calls, conn : Nat, nc : Nat]
Requests == {m \in net : m.kind = "request"}

----------------------------------------------------------------------------
(* Careless forms of the conditions and pieces below, for mutation runs only *)

RetryAnything(c) == attempt[c] = 0
LockIgnored == TRUE
IdFromPendingSize == Cardinality(DOMAIN pending)
LeavePending == fut
EntryCleared(c) == [j \in DOMAIN pending |-> IF pending[j] = c THEN NoCall ELSE pending[j]]
AuthLockKept(c) == authLock
ConnectLockKept == connLock

----------------------------------------------------------------------------
(* Conditions of the code *)

\* Between two awaits one task has the loop.
LoopFree == (\A c \in Calls : pc[c] \notin Continuations) /\ closer # "finish"

\* The test of the fast path and of the recheck under the lock.
Live == socket # 0 /\ link # "closed" /\ connected

\* A mutating call is never replayed; a read-only one once.
RetryAllowed(c) == attempt[c] = 0 /\ c \in ReadOnly

\* asyncio.Lock: free, so the next task that waits for it may have it.
AuthLockFree == authLock = NoCall
ConnectLockFree == connLock = NoCall

\* next(self._ids): a counter that never goes back.
FreshId == nextId

\* Whether closing the current socket suspends: its reader must be awaited and
\* the close handshake made, unless the connection is known to be dead.
CloseSuspends == socket # 0 /\ reader # "ended"

----------------------------------------------------------------------------
(* Pieces of steps *)

IsPending(c) == \E i \in DOMAIN pending : pending[i] = c
PendingWith(i, c) == [j \in DOMAIN pending \cup {i} |-> IF j = i THEN c ELSE pending[j]]
PendingWithout(c) == [j \in {i \in DOMAIN pending : pending[i] # c} |-> pending[j]]

\* Every future still pending gets RpcUnavailableError.
FailPending == [c \in Calls |-> IF IsPending(c) /\ fut[c].kind = "wait"
                                THEN Plain("disconnected") ELSE fut[c]]

\* The finally block of the reader, as run by the tasks that end it.
ReaderFinally == fut' = FailPending

\* _close_socket up to its first suspension and the end of the reader it
\* cancels.  A reader cancelled before its first turn never reaches its
\* finally block.  What the device still answers on the old socket is lost.
TakeSocket ==
    /\ socket' = 0 /\ link' = "none" /\ reader' = "none"
    /\ IF reader = "running" THEN ReaderFinally ELSE UNCHANGED fut
    /\ connected' = (connected /\ reader = "created")
    /\ unread' = (unread \/ reader = "created")
    /\ net' = Requests

\* The call c returns (or raises) o to its caller; async with releases the lock.
ReleasedAuthLock(c) == IF authLock = c THEN NoCall ELSE authLock
Finish(c, o) ==
    /\ pc' = [pc EXCEPT ![c] = "done"]
    /\ outcome' = [outcome EXCEPT ![c] = o]
    /\ authLock' = ReleasedAuthLock(c)
    /\ attempt' = [attempt EXCEPT ![c] = 0]

\* RpcUnavailableError inside an attempt: retry after closing, or give up.
Unavailable(c) ==
    IF RetryAllowed(c)
    THEN pc' = [pc EXCEPT ![c] = "retry"] /\ UNCHANGED <<attempt, outcome, authLock>>
    ELSE Finish(c, "unavailable")

----------------------------------------------------------------------------
(* async_call, _async_call and async_connect *)

Init ==
    /\ pc = [c \in Calls |-> "idle"]
    /\ attempt = [c \in Calls |-> 0]
    /\ fut = [c \in Calls |-> Plain("none")]
    /\ outcome = [c \in Calls |-> "none"]
    /\ sentOn = [c \in Calls |-> 0]
    /\ connLock = NoCall /\ authLock = NoCall
    /\ socket = 0 /\ link = "none" /\ reader = "none" /\ connected = FALSE
    /\ pending = [i \in {} |-> NoCall] /\ nextId = 1 /\ nonceCount = 0
    /\ closer = "idle" /\ unread = FALSE
    /\ conns = 0 /\ devNc = 1 /\ net = {}
    /\ executed = [c \in Calls |-> 0]

\* async_call begins; with a password it queues for the authentication lock.
Invoke(c) ==
    /\ LoopFree /\ pc[c] = "idle"
    /\ closer = "idle" \/ CallsAfterClose
    /\ pc' = [pc EXCEPT ![c] = IF HasPassword THEN "wantAuth" ELSE "connect"]
    /\ UNCHANGED <<attempt, outcome, sentOn, fut, lockVars, socketVars, connected, idVars,
                   closer, devVars, net>>

TakeAuthLock(c) ==
    /\ LoopFree /\ pc[c] = "wantAuth" /\ AuthLockFree
    /\ authLock' = c
    /\ pc' = [pc EXCEPT ![c] = "connect"]
    /\ UNCHANGED <<attempt, outcome, sentOn, fut, connLock, socketVars, connected, idVars,
                   closer, devVars, net>>

\* async_connect, no live connection: queue for the connect lock.
NeedConnection(c) ==
    /\ pc[c] = "connect" /\ ~Live
    /\ pc' = [pc EXCEPT ![c] = "wantLock"]
    /\ UNCHANGED <<attempt, outcome, sentOn, fut, lockVars, socketVars, connected, idVars,
                   closer, devVars, net>>

\* The lock is ours and another caller connected meanwhile: share its connection.
ShareConnection(c) ==
    /\ LoopFree /\ pc[c] = "wantLock" /\ ConnectLockFree /\ Live
    /\ pc' = [pc EXCEPT ![c] = "connect"]
    /\ UNCHANGED <<attempt, outcome, sentOn, fut, lockVars, socketVars, connected, idVars,
                   closer, devVars, net>>

\* The lock is ours and there is no live connection: close what is left, dial.
BeginConnect(c) ==
    /\ LoopFree /\ pc[c] = "wantLock" /\ ConnectLockFree /\ ~Live
    /\ connLock' = c
    /\ TakeSocket
    /\ pc' = [pc EXCEPT ![c] = IF CloseSuspends THEN "closeDial" ELSE "dial"]
    /\ UNCHANGED <<attempt, outcome, sentOn, authLock, idVars, closer, devVars>>

\* The last statement of _close_socket, after the await of socket.close():
\* whatever socket self._socket holds by now, it is marked not connected.
CloseDone(c) ==
    /\ LoopFree
    /\ \/ pc[c] = "closeDial" /\ pc' = [pc EXCEPT ![c] = "dial"] /\ UNCHANGED attempt
       \/ /\ pc[c] = "closeRetry"
          /\ pc' = [pc EXCEPT ![c] = "connect"]
          /\ attempt' = [attempt EXCEPT ![c] = 1]
    /\ connected' = FALSE
    /\ UNCHANGED <<outcome, sentOn, fut, lockVars, socketVars, idVars, closer, devVars, net>>

\* A connection takes many turns of the loop: by its end every task that was
\* woken before it has run.
Settled == LoopFree /\ \A c \in Calls : pc[c] = "waiting" => fut[c].kind = "wait"

DialOk(c) ==
    /\ Settled /\ pc[c] = "dial"
    /\ conns' = conns + 1 /\ devNc' = 1
    /\ socket' = conns + 1 /\ link' = "open" /\ reader' = "created" /\ connected' = TRUE
    /\ connLock' = NoCall
    /\ pc' = [pc EXCEPT ![c] = "connect"]
    /\ UNCHANGED <<attempt, outcome, sentOn, fut, authLock, unread, idVars, closer, executed, net>>

\* async with leaves the lock on an exception too.
LockAfterFailedDial == NoCall

DialFails(c) ==
    /\ Settled /\ pc[c] = "dial"
    /\ connLock' = LockAfterFailedDial
    /\ Unavailable(c)
    /\ UNCHANGED <<sentOn, fut, socketVars, connected, idVars, closer, devVars, net>>

\* _close_socket before the second attempt, without the connect lock.
RetryClose(c) ==
    /\ pc[c] = "retry"
    /\ TakeSocket
    /\ IF CloseSuspends
       THEN pc' = [pc EXCEPT ![c] = "closeRetry"] /\ UNCHANGED attempt
       ELSE /\ pc' = [pc EXCEPT ![c] = "connect"]
            /\ attempt' = [attempt EXCEPT ![c] = 1]
    /\ UNCHANGED <<outcome, sentOn, lockVars, idVars, closer, devVars>>

----------------------------------------------------------------------------
(* _call_connected: build the frame, register the future, send, wait *)

Frame(c) == [kind |-> "request", id |-> FreshId, call |-> c, conn |-> socket, nc |-> nonceCount]

\* _build_auth uses the current nonce count and advances it.
NonceCountNext == IF nonceCount = 0 THEN 0 ELSE nonceCount + 1

\* The frame is written; on a connection that is already lost it goes nowhere.
Send(c) ==
    /\ pc[c] = "connect" /\ Live
    /\ pending' = PendingWith(FreshId, c) /\ nextId' = nextId + 1
    /\ nonceCount' = NonceCountNext
    /\ fut' = [fut EXCEPT ![c] = Plain("wait")]
    /\ net' = IF link = "open" THEN net \cup {Frame(c)} ELSE net
    /\ sentOn' = [sentOn EXCEPT ![c] = socket]
    /\ pc' = [pc EXCEPT ![c] = "waiting"]
    /\ UNCHANGED <<attempt, outcome, lockVars, socketVars, connected, closer, devVars>>

\* send_json raises on a lost connection; the future is dropped again.
SendFails(c) ==
    /\ pc[c] = "connect" /\ Live /\ link = "lost"
    /\ nextId' = nextId + 1 /\ nonceCount' = NonceCountNext
    /\ connected' = FALSE
    /\ Unavailable(c)
    /\ UNCHANGED <<sentOn, fut, connLock, socketVars, pending, closer, devVars, net>>

\* What every way out of the wait does: pop the future.
Woken(c) ==
    /\ LoopFree /\ pc[c] = "waiting"
    /\ pending' = PendingWithout(c)
    /\ fut' = [fut EXCEPT ![c] = Plain("none")]
    /\ sentOn' = [sentOn EXCEPT ![c] = 0]

\* A result, an error other than 401 and a malformed reply all end the call.
ReturnAnswer(c) ==
    /\ Woken(c) /\ fut[c].kind = "answer"
    /\ Finish(c, "answered")
    /\ UNCHANGED <<connLock, socketVars, connected, nextId, nonceCount, closer, devVars, net>>

\* _set_challenge: there is a password and the challenge is complete.
Adoptable(c) == HasPassword /\ fut[c].kind = "unauthorized"

\* 401 on the first attempt: adopt the challenge and send again, or give up.
Challenged(c) ==
    /\ Woken(c) /\ fut[c].kind \in Challenges /\ attempt[c] = 0
    /\ IF Adoptable(c)
       THEN /\ nonceCount' = fut[c].nc
            /\ attempt' = [attempt EXCEPT ![c] = 1]
            /\ pc' = [pc EXCEPT ![c] = "connect"]
            /\ UNCHANGED <<outcome, authLock>>
       ELSE Finish(c, "authError") /\ UNCHANGED nonceCount
    /\ UNCHANGED <<connLock, socketVars, connected, nextId, closer, devVars, net>>

\* 401 on the second attempt, whatever used up the first one.
AuthFails(c) ==
    /\ Woken(c) /\ fut[c].kind \in Challenges /\ attempt[c] = 1
    /\ connected' = FALSE
    /\ Finish(c, "authFailed")
    /\ UNCHANGED <<connLock, socketVars, nextId, nonceCount, closer, devVars, net>>

Disconnected(c) ==
    /\ Woken(c) /\ fut[c].kind = "disconnected"
    /\ Unavailable(c)
    /\ UNCHANGED <<connLock, socketVars, connected, nextId, nonceCount, closer, devVars, net>>

\* The timeout may fire after the future was resolved but before its task ran.
Timeout(c) ==
    /\ Woken(c)
    /\ Finish(c, "timeout")
    /\ UNCHANGED <<connLock, socketVars, connected, nextId, nonceCount, closer, devVars, net>>

----------------------------------------------------------------------------
(* _reader_loop *)

ReaderStart ==
    /\ LoopFree /\ reader = "created"
    /\ reader' = "running"
    /\ UNCHANGED <<callVars, fut, lockVars, socket, link, unread, connected, idVars, closer,
                   devVars, net>>

\* One reply: it resolves the future registered under its id, once; an id that
\* is not pending (a late answer) is ignored.
Deliver(m) ==
    /\ LoopFree /\ reader = "running" /\ m.kind \in Replies /\ m.conn = socket
    /\ net' = net \ {m}
    /\ fut' = [c \in Calls |->
                 IF m.id \in DOMAIN pending /\ pending[m.id] = c /\ fut[c].kind = "wait"
                 THEN [kind |-> m.kind, nc |-> m.nc, from |-> m.call] ELSE fut[c]]
    /\ UNCHANGED <<callVars, lockVars, socketVars, connected, idVars, closer, devVars>>

\* The socket ends (close frame, error, missed heartbeat): the finally block
\* marks the transport disconnected and fails every pending call.
ReaderEnd ==
    /\ LoopFree /\ reader = "running" /\ link = "lost"
    /\ reader' = "ended" /\ link' = "closed" /\ connected' = FALSE
    /\ ReaderFinally
    /\ net' = Requests
    /\ UNCHANGED <<callVars, lockVars, socket, unread, idVars, closer, devVars>>

----------------------------------------------------------------------------
(* async_close *)

CloseBegin ==
    /\ LoopFree /\ closer = "idle"
    /\ TakeSocket
    /\ closer' = IF CloseSuspends THEN "closing" ELSE "finish"
    /\ UNCHANGED <<callVars, lockVars, idVars, devVars>>

CloseFinish ==
    /\ closer = "finish" \/ (closer = "closing" /\ LoopFree)
    /\ closer' = "closed"
    /\ connected' = FALSE
    /\ fut' = FailPending
    /\ pending' = [i \in {} |-> NoCall]
    /\ UNCHANGED <<callVars, lockVars, socketVars, nextId, nonceCount, devVars, net>>

----------------------------------------------------------------------------
(* The device and the network, as tests/fake_shelly.py plays them *)

LinkLost ==
    /\ link = "open" /\ link' = "lost"
    /\ UNCHANGED <<callVars, fut, lockVars, socket, reader, unread, connected, idVars, closer,
                   devVars, net>>

\* Frames of one connection are handled in the order they were sent.
NextInLine(m) == m \in Requests /\ \A n \in Requests : n.conn = m.conn => m.id <= n.id

Authorized(m) == AuthRequired => PasswordRight /\ m.nc = devNc

Reply(m, kind, nc) == [m EXCEPT !.kind = kind, !.nc = nc]

\* A request on the open connection is refused with a challenge ...
Refuse(m) ==
    /\ NextInLine(m) /\ m.conn = socket /\ link = "open" /\ ~Authorized(m)
    /\ \E kind \in Challenges : net' = (net \ {m}) \cup {Reply(m, kind, devNc)}
    /\ UNCHANGED <<callVars, fut, lockVars, socketVars, connected, idVars, closer, devVars>>

\* ... or executed, and answered or not.
Execute(m) ==
    /\ NextInLine(m) /\ m.conn = socket /\ link = "open" /\ Authorized(m)
    /\ executed' = [executed EXCEPT ![m.call] = @ + 1]
    /\ devNc' = IF AuthRequired THEN devNc + 1 ELSE devNc
    /\ \/ net' = net \ {m}
       \/ net' = (net \ {m}) \cup {Reply(m, "answer", 0)}
    /\ UNCHANGED <<callVars, fut, lockVars, socketVars, connected, idVars, closer, conns>>

\* A request whose connection is gone may have reached the device or not; its
\* answer is lost either way.  One without credentials is never executed by a
\* device that asks for them.
Stray(m) ==
    /\ m \in Requests /\ (m.conn # socket \/ link # "open")
    /\ net' = net \ {m}
    /\ \/ /\ AuthRequired => PasswordRight /\ m.nc > 0
          /\ executed' = [executed EXCEPT ![m.call] = @ + 1]
       \/ UNCHANGED executed
    /\ UNCHANGED <<callVars, fut, lockVars, socketVars, connected, idVars, closer, conns, devNc>>

----------------------------------------------------------------------------

\* The steps of the task that runs call c.
CallStep(c) ==
    \/ TakeAuthLock(c) \/ NeedConnection(c) \/ ShareConnection(c) \/ BeginConnect(c)
    \/ CloseDone(c) \/ DialOk(c) \/ DialFails(c) \/ RetryClose(c)
    \/ Send(c) \/ SendFails(c)
    \/ ReturnAnswer(c) \/ Challenged(c) \/ AuthFails(c) \/ Disconnected(c) \/ Timeout(c)

ReaderStep == ReaderStart \/ ReaderEnd \/ \E m \in net : Deliver(m)

CloserStep == CloseBegin \/ CloseFinish

DeviceStep == LinkLost \/ \E m \in net : Refuse(m) \/ Execute(m) \/ Stray(m)

\* The transport was closed, every call has returned and no other may begin.
Terminating ==
    /\ closer = "closed"
    /\ \A c \in Calls : pc[c] = "done" \/ (pc[c] = "idle" /\ ~CallsAfterClose)
    /\ UNCHANGED vars

Next ==
    \/ \E c \in Calls : Invoke(c) \/ CallStep(c)
    \/ ReaderStep \/ CloserStep \/ DeviceStep \/ Terminating

Spec == Init /\ [][Next]_vars

\* A task that can run does (asyncio), each wait for the network is bounded by
\* a timeout (the 12 s of a call, the 5 s of a close, aiohttp's dial), locks are
\* handed to those who wait.  Nothing is assumed of the device.
Fairness == /\ \A c \in Calls : WF_vars(CallStep(c))
            /\ WF_vars(ReaderStart) /\ WF_vars(CloseFinish)

FairSpec == Spec /\ Fairness

----------------------------------------------------------------------------
(* Properties *)

TypeOK ==
    /\ pc \in [Calls -> PCs] /\ attempt \in [Calls -> 0..1]
    /\ fut \in [Calls -> Futures] /\ outcome \in [Calls -> Outcomes]
    /\ sentOn \in [Calls -> Nat]
    /\ connLock \in Calls \cup {NoCall} /\ authLock \in Calls \cup {NoCall}
    /\ socket \in Nat /\ link \in {"none", "open", "lost", "closed"}
    /\ reader \in {"none", "created", "running", "ended"} /\ connected \in BOOLEAN
    /\ DOMAIN pending \subseteq Nat /\ pending \in [DOMAIN pending -> Calls]
    /\ nextId \in Nat /\ nonceCount \in Nat
    /\ closer \in {"idle", "closing", "finish", "closed"} /\ unread \in BOOLEAN
    /\ conns \in Nat /\ devNc \in Nat /\ net \subseteq Frames
    /\ executed \in [Calls -> Nat]

\* Request ids tie an answer to its call: whatever was timed out, retried or
\* reconnected before, a future is only ever resolved with the device's answer
\* to a request of that very call (ids, _pending and the reader, lines 130-191).
OwnAnswer == \A c \in Calls : fut[c].kind \in Replies => fut[c].from = c

\* Nobody waits for an answer that no reader will read: an unresolved call was
\* sent on the current connection and that connection's reader is alive, so it
\* ends with the connection and not only by its timeout.  A reader cancelled
\* before its first turn is the exception (its finally block never runs).
NoStrandedCall ==
    ~unread => \A c \in Calls :
        pc[c] = "waiting" /\ fut[c].kind = "wait" =>
            socket # 0 /\ sentOn[c] = socket /\ reader \in {"created", "running"}

\* Connecting never overwrites a socket that nobody closed: whatever the callers
\* and closers do, there is at most one connection and one reader task
\* (async_connect under _connect_lock, lines 73-91).
NoSocketLeaked == [][conns' # conns => socket = 0]_vars

\* With the right password a mutating call fails authentication only after a
\* reconnection: calls that share a connection never spoil each other's nonce
\* count (_auth_lock, lines 96-100).
NonceKeptInStep ==
    HasPassword /\ PasswordRight =>
        \A c \in Calls \ ReadOnly : outcome[c] = "authFailed" => conns > 1

\* Every call returns to its caller, whatever the device and the network do: no
\* lock is left held, no future is left alone.
EveryCallReturns == \A c \in Calls : pc[c] # "idle" ~> pc[c] = "done"

\* A mutating call is executed at most once, whatever is lost, closed, timed out
\* or retried: only Get and List methods are replayed (lines 117-123, 276-279).
AtMostOnce == \A c \in Calls \ ReadOnly : executed[c] <= 1

\* The transport keeps the promise of every RPC transport: at-most-once
\* execution of mutating calls, at most one replay of read-only ones, answers
\* only for executed requests, and no execution behind a refusal.
StatusOf(o) == CASE o = "answered" -> "answered"
                 [] o \in {"authError", "authFailed"} -> "refused"
                 [] o \in {"timeout", "unavailable"} -> "unknown"
                 [] o = "none" -> "active"
status == [c \in Calls |-> IF pc[c] = "idle" THEN "idle" ELSE StatusOf(outcome[c])]
Promise == INSTANCE RpcCall
KeepsPromise == Promise!Spec

----------------------------------------------------------------------------
(* The inductive invariant behind the theorems of WsTransport_proofs *)

\* Ids of frames and of futures are old, and a frame's id is only ever pending
\* for the call that sent it.
IdInv ==
    /\ \A m \in net : m.id < nextId
    /\ \A i \in DOMAIN pending : i < nextId
    /\ \A m \in net : m.id \in DOMAIN pending => pending[m.id] = m.call
    /\ OwnAnswer

\* Only the holder of the connect lock dials, and it dials without a socket;
\* every unresolved future is pending.
SocketInv ==
    /\ socket = 0 <=> link = "none"
    /\ socket = 0 <=> reader = "none"
    /\ link = "closed" <=> reader = "ended"
    /\ \A c \in Calls : pc[c] \in {"closeDial", "dial"} <=> connLock = c
    /\ connLock # NoCall => socket = 0
    /\ \A c \in Calls : pc[c] = "waiting" /\ fut[c].kind = "wait" => IsPending(c)
    /\ NoStrandedCall

\* A mutating call has at most one frame under way, and none once it was
\* executed, before it is sent, or after it was refused.
NotSent(c) == executed[c] = 0 /\ \A m \in net : m.call # c
MutatingInv ==
    \A c \in Calls \ ReadOnly :
        /\ pc[c] \notin {"retry", "closeRetry"}
        /\ pc[c] \notin {"waiting", "done"} => NotSent(c)
        /\ fut[c].kind \in Challenges => NotSent(c)
        /\ outcome[c] \in {"authError", "authFailed"} => NotSent(c)
        /\ executed[c] <= 1
        /\ \A m \in net : m.call = c /\ m.kind # "answer" => executed[c] = 0
        /\ \A m, n \in net : m.call = c /\ n.call = c => m = n

\* Each attempt of a call sends at most one frame.
SentBy(c) == {m \in Requests : m.call = c}
Budget(c) == IF pc[c] = "done" THEN 2
             ELSE attempt[c] + IF pc[c] \in {"waiting", "retry", "closeRetry"} THEN 1 ELSE 0
AttemptInv ==
    /\ IsFiniteSet(net)
    /\ \A c \in Calls : /\ pc[c] \in {"idle", "retry", "closeRetry"} => attempt[c] = 0
                        /\ executed[c] + Cardinality(SentBy(c)) <= Budget(c)

\* An answer, on its way, delivered or returned, follows an execution; a call
\* has an outcome exactly when it is done.
AnswerInv ==
    /\ \A m \in net : m.kind = "answer" => executed[m.call] >= 1
    /\ \A c \in Calls : /\ fut[c].kind = "answer" => executed[c] >= 1
                        /\ outcome[c] = "answered" => executed[c] >= 1
                        /\ outcome[c] # "none" <=> pc[c] = "done"

\* Frames under way have different ids and belong to a connection that was
\* opened; the current one is the newest.
FrameInv ==
    /\ \A m, n \in net : m.id = n.id => m = n
    /\ \A m \in net : 1 <= m.conn /\ m.conn <= conns
    /\ socket \in {0, conns}

\* With a password one call at a time is past the authentication lock, so the
\* one request that is pending is the last that was sent.
Inside(c) == pc[c] \notin {"idle", "wantAuth", "done"}
SerialInv ==
    /\ \A c \in Calls : fut[c].kind # "none" => pc[c] = "waiting"
    /\ \A i \in DOMAIN pending : pc[pending[i]] = "waiting"
    /\ HasPassword => /\ \A c \in Calls : Inside(c) => authLock = c
                      /\ \A i \in DOMAIN pending : i + 1 = nextId

\* A challenge carries a nonce count; who was challenged has adopted it.
ChallengeInv ==
    /\ devNc > 0
    /\ nonceCount > 0 => AuthRequired /\ conns > 0
    /\ \A m \in net : m.kind \in Challenges => m.nc > 0 /\ AuthRequired
    /\ \A c \in Calls : fut[c].kind \in Challenges =>
          fut[c].nc > 0 /\ AuthRequired /\ conns > 0
    /\ \A c \in Calls \ ReadOnly : attempt[c] = 1 => nonceCount > 0

\* The counted requests under way carry, in their order, the counts from the one
\* the device expects up to the transport's.
InStep ==
    /\ nonceCount > 0 => devNc <= nonceCount
    /\ \A m \in Requests : m.nc > 0 => devNc <= m.nc /\ m.nc < nonceCount
    /\ \A m, n \in Requests : m.nc > 0 /\ n.nc > 0 /\ m.id < n.id => m.nc < n.nc
    /\ \A k \in devNc..nonceCount : k # nonceCount => \E m \in Requests : m.nc = k

\* A challenge that somebody has received or waits for is the device's latest
\* word: nothing was sent after the request it answers.
LatestWord ==
    /\ \A c \in Calls : fut[c].kind \in Challenges => fut[c].nc = devNc /\ Requests = {}
    /\ \A m \in net : m.kind \in Challenges /\ m.id \in DOMAIN pending =>
          m.nc = devNc /\ Requests = {}

\* A mutating call that was challenged once is not challenged again.
NotAgain ==
    \A c \in Calls \ ReadOnly : attempt[c] = 1 =>
        /\ fut[c].kind \notin Challenges
        /\ \A m \in net : m.id \in DOMAIN pending /\ pending[m.id] = c =>
              m.kind \notin Challenges /\ (m.kind = "request" => m.nc > 0)

\* So it is on the first connection of a transport with the right password.
NonceInv ==
    /\ HasPassword /\ PasswordRight /\ conns <= 1 =>
          NotAgain /\ (link = "open" => InStep /\ LatestWord)
    /\ NonceKeptInStep

\* All of it: what every step of the transport preserves.
IInv == /\ TypeOK /\ IdInv /\ SocketInv /\ MutatingInv /\ AttemptInv /\ AnswerInv
        /\ FrameInv /\ SerialInv /\ ChallengeInv /\ NonceInv

----------------------------------------------------------------------------
(* What the repository says and the code does not do (violated) *)

\* "Connect once; concurrent callers share the same attempt" (line 70): a
\* connection that is up is not torn down while nobody closes the transport.
HealthyConnectionKept ==
    [][socket # 0 /\ link = "open" /\ socket' # socket => closer # "idle" \/ closer' # "idle"]_vars

\* "Close WebSocket and fail pending calls" (line 264): once async_close has
\* returned and the calls made before it have, no socket is open.
ClosedStaysClosed == closer = "closed" /\ (\A c \in Calls : pc[c] \in {"idle", "done"}) => socket = 0

\* "reconnecting once after transport failure" (line 94): a call that reconnects
\* with the right password is not told that its authentication failed.
RightPasswordAccepted ==
    HasPassword /\ PasswordRight => \A c \in Calls : outcome[c] # "authFailed"
=============================================================================
