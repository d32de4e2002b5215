------------------------- MODULE WsTransport_proofs -------------------------
(***************************************************************************)
(* What WsTransport guarantees for any number of calls, any mix of         *)
(* read-only and mutating methods, with or without authentication.         *)
(* IInv is inductive; it is proved one conjunct at a time.                 *)
(***************************************************************************)
EXTENDS WsTransport, FiniteSetTheorems, TLAPS

\* Every variable has its type, in every reachable state of the transport
\* (the fields of WebSocketRpcTransport, lines 43-61, and its calls).
LEMMA TypeStep == TypeOK /\ [Next]_vars => TypeOK'
<1> SUFFICES ASSUME TypeOK, [Next]_vars PROVE TypeOK'
  OBVIOUS
<1> USE CallsAssumption DEF TypeOK, PCs, Continuations, Outcomes, callVars, socketVars,
        idVars, lockVars, devVars
<1>0. Plain("none") \in Futures /\ Plain("wait") \in Futures /\ Plain("disconnected") \in Futures
  BY DEF Plain, Futures, Replies, Challenges
<1>1. FailPending \in [Calls -> Futures]
  BY <1>0 DEF FailPending
<1>2. /\ Requests \subseteq Frames /\ Requests \subseteq net
  BY DEF Requests
<1>3. TakeSocket => /\ fut' \in [Calls -> Futures] /\ net' \subseteq Frames
                    /\ socket' \in Nat /\ link' \in {"none", "open", "lost", "closed"}
                    /\ reader' \in {"none", "created", "running", "ended"}
                    /\ connected' \in BOOLEAN /\ unread' \in BOOLEAN
  BY <1>1, <1>2 DEF TakeSocket, ReaderFinally
<1>4. ASSUME NEW c \in Calls, NEW o \in Outcomes, Finish(c, o)
      PROVE  /\ pc' \in [Calls -> PCs] /\ outcome' \in [Calls -> Outcomes]
             /\ authLock' \in Calls \cup {NoCall} /\ attempt' \in [Calls -> 0..1]
  BY <1>4 DEF Finish, ReleasedAuthLock
<1>5. ASSUME NEW c \in Calls, Unavailable(c)
      PROVE  /\ pc' \in [Calls -> PCs] /\ outcome' \in [Calls -> Outcomes]
             /\ authLock' \in Calls \cup {NoCall} /\ attempt' \in [Calls -> 0..1]
  BY <1>4, <1>5 DEF Unavailable
<1>6. ASSUME NEW c \in Calls, Woken(c)
      PROVE  /\ DOMAIN pending' \subseteq Nat /\ pending' \in [DOMAIN pending' -> Calls]
             /\ fut' \in [Calls -> Futures] /\ sentOn' \in [Calls -> Nat]
  BY <1>0, <1>6 DEF Woken, PendingWithout
<1>7. NonceCountNext \in Nat
  BY DEF NonceCountNext
<1>8. ASSUME NEW c \in Calls PROVE [Invoke(c) \/ CallStep(c)]_vars => TypeOK'
  <2> SUFFICES ASSUME [Invoke(c) \/ CallStep(c)]_vars PROVE TypeOK'
    OBVIOUS
  <2>1. CASE Invoke(c) BY <2>1 DEF Invoke
  <2>2. CASE TakeAuthLock(c) BY <2>2 DEF TakeAuthLock
  <2>3. CASE NeedConnection(c) BY <2>3 DEF NeedConnection
  <2>4. CASE ShareConnection(c) BY <2>4 DEF ShareConnection
  <2>5. CASE BeginConnect(c) BY <2>5, <1>3 DEF BeginConnect
  <2>6. CASE CloseDone(c)
    <3>1. pc' \in [Calls -> PCs] /\ attempt' \in [Calls -> 0..1]
      <4>1. CASE pc[c] = "closeDial" BY <2>6, <4>1 DEF CloseDone
      <4>2. CASE pc[c] = "closeRetry" BY <2>6, <4>2 DEF CloseDone
      <4> QED BY <2>6, <4>1, <4>2 DEF CloseDone
    <3> QED BY <2>6, <3>1 DEF CloseDone
  <2>7. CASE DialOk(c) BY <2>7 DEF DialOk
  <2>8. CASE DialFails(c) BY <2>8, <1>5 DEF DialFails, LockAfterFailedDial
  <2>9. CASE RetryClose(c) BY <2>9, <1>3 DEF RetryClose
  <2>10. CASE Send(c)
    <3>1. Frame(c) \in Frames BY DEF Frame, Frames, FreshId
    <3> QED BY <2>10, <3>1, <1>0, <1>7 DEF Send, PendingWith, FreshId
  <2>11. CASE SendFails(c)
    <3>1. Unavailable(c) BY <2>11 DEF SendFails
    <3>2. nextId' \in Nat /\ nonceCount' \in Nat BY <2>11, <1>7 DEF SendFails
    <3> QED BY <2>11, <3>1, <3>2, <1>5 DEF SendFails
  <2>12. CASE ReturnAnswer(c)
    BY <2>12, <1>4, <1>6 DEF ReturnAnswer
  <2>13. CASE Challenged(c)
    <3>1. fut[c].nc \in Nat BY DEF Futures
    <3>2. "authError" \in Outcomes OBVIOUS
    <3> QED BY <2>13, <3>1, <3>2, <1>4, <1>6 DEF Challenged
  <2>14. CASE AuthFails(c) BY <2>14, <1>4, <1>6 DEF AuthFails
  <2>15. CASE Disconnected(c) BY <2>15, <1>5, <1>6 DEF Disconnected
  <2>16. CASE Timeout(c) BY <2>16, <1>4, <1>6 DEF Timeout
  <2>17. CASE UNCHANGED vars BY <2>17 DEF vars
  <2> QED BY <2>1, <2>2, <2>3, <2>4, <2>5, <2>6, <2>7, <2>8, <2>9, <2>10, <2>11, <2>12,
             <2>13, <2>14, <2>15, <2>16, <2>17 DEF CallStep
<1>9. ASSUME NEW m \in net PROVE m \in Frames
  BY <1>9
<1>10. CASE ReaderStep
  <2>1. CASE ReaderStart BY <2>1 DEF ReaderStart
  <2>2. CASE ReaderEnd BY <2>2, <1>1, <1>2 DEF ReaderEnd, ReaderFinally
  <2>3. ASSUME NEW m \in net, Deliver(m) PROVE TypeOK'
    <3>1. [kind |-> m.kind, nc |-> m.nc, from |-> m.call] \in Futures
      BY <2>3, <1>9 DEF Deliver, Frames, Futures, Replies, Challenges
    <3>2. fut' \in [Calls -> Futures]
      BY <2>3, <3>1 DEF Deliver
    <3> QED BY <2>3, <3>2 DEF Deliver
  <2> QED BY <1>10, <2>1, <2>2, <2>3 DEF ReaderStep
<1>11. CASE CloserStep
  <2>1. CASE CloseBegin BY <2>1, <1>3 DEF CloseBegin
  <2>2. CASE CloseFinish BY <2>2, <1>1 DEF CloseFinish
  <2> QED BY <1>11, <2>1, <2>2 DEF CloserStep
<1>12. CASE DeviceStep
  <2>1. CASE LinkLost BY <2>1 DEF LinkLost
  <2>2. ASSUME NEW m \in net, NEW k \in Replies, NEW n \in Nat PROVE Reply(m, k, n) \in Frames
    BY <1>9 DEF Reply, Frames
  <2>3. ASSUME NEW m \in net, Refuse(m) PROVE TypeOK'
    <3>1. PICK kind \in Challenges : net' = (net \ {m}) \cup {Reply(m, kind, devNc)}
      BY <2>3 DEF Refuse
    <3> QED BY <2>3, <3>1, <2>2 DEF Refuse, Replies
  <2>4. ASSUME NEW m \in net PROVE m.call \in Calls
    BY <1>9 DEF Frames
  <2>5. ASSUME NEW m \in net, Execute(m) PROVE TypeOK'
    <3>1. net' \subseteq Frames
      <4>1. Reply(m, "answer", 0) \in Frames BY <2>2 DEF Replies
      <4>2. net' = net \ {m} \/ net' = (net \ {m}) \cup {Reply(m, "answer", 0)}
        BY <2>5 DEF Execute
      <4> QED BY <4>1, <4>2
    <3>2. executed' \in [Calls -> Nat] /\ devNc' \in Nat
      BY <2>5, <2>4 DEF Execute
    <3> QED BY <2>5, <3>1, <3>2 DEF Execute
  <2>6. ASSUME NEW m \in net, Stray(m) PROVE TypeOK'
    BY <2>6, <2>4 DEF Stray
  <2> QED BY <1>12, <2>1, <2>3, <2>5, <2>6 DEF DeviceStep
<1>13. CASE Terminating BY <1>13 DEF Terminating, vars
<1>14. CASE UNCHANGED vars BY <1>14 DEF vars
<1> QED BY <1>8, <1>10, <1>11, <1>12, <1>13, <1>14 DEF Next

----------------------------------------------------------------------------
(* Facts about the pieces of steps *)

\* FailPending only turns unresolved futures into disconnected ones, and it
\* turns every pending one.
LEMMA FailPendingFact ==
    ASSUME TypeOK, NEW c \in Calls
    PROVE  /\ \/ FailPending[c] = fut[c]
              \/ FailPending[c].kind = "disconnected" /\ fut[c].kind = "wait"
           /\ IsPending(c) => FailPending[c].kind # "wait"
BY DEF FailPending, Plain

\* Closing a socket leaves of the frames only requests, and resolves futures
\* at most by a disconnection.
LEMMA TakeSocketFact ==
    ASSUME TypeOK, TakeSocket
    PROVE  /\ net' = Requests /\ net' \subseteq net
           /\ socket' = 0 /\ link' = "none" /\ reader' = "none"
           /\ \A c \in Calls :
                \/ fut'[c] = fut[c]
                \/ fut'[c].kind = "disconnected" /\ fut[c].kind = "wait"
BY FailPendingFact DEF TakeSocket, ReaderFinally, Requests

\* A call that leaves its wait takes its future out of the pending map.
LEMMA WokenFact ==
    ASSUME TypeOK, NEW c \in Calls, Woken(c)
    PROVE  /\ pc[c] = "waiting"
           /\ fut'[c].kind = "none" /\ sentOn'[c] = 0
           /\ \A d \in Calls \ {c} : fut'[d] = fut[d] /\ sentOn'[d] = sentOn[d]
           /\ DOMAIN pending' = {i \in DOMAIN pending : pending[i] # c}
           /\ \A i \in DOMAIN pending' : pending'[i] = pending[i]
BY DEF Woken, Plain, PendingWithout, TypeOK

\* The frames of the type invariant, field by field.
LEMMA FrameFact ==
    ASSUME TypeOK, NEW m \in net
    PROVE  /\ m.kind \in Replies \cup {"request"} /\ m.id \in Nat /\ m.call \in Calls
           /\ m.conn \in Nat /\ m.nc \in Nat
BY DEF TypeOK, Frames

\* A reply keeps the id and the call of its request.
LEMMA ReplyFact ==
    ASSUME TypeOK, NEW m \in net, NEW k, NEW n
    PROVE  LET r == Reply(m, k, n) IN r.kind = k /\ r.id = m.id /\ r.call = m.call
BY DEF TypeOK, Frames, Reply

----------------------------------------------------------------------------
(* Answers reach the call that asked *)

\* Every step keeps ids fresh, and every frame and future with its own call
\* (next(self._ids), _pending, the reader loop).
LEMMA IdStep == TypeOK /\ IdInv /\ [Next]_vars => IdInv'
<1> SUFFICES ASSUME TypeOK, IdInv, [Next]_vars PROVE IdInv'
  OBVIOUS
<1> USE DEF callVars, socketVars, idVars, lockVars, devVars
<1>1. ASSUME net' \subseteq net, nextId' \in Nat, nextId' >= nextId,
             DOMAIN pending' \subseteq DOMAIN pending,
             \A i \in DOMAIN pending' : pending'[i] = pending[i],
             \A c \in Calls : fut'[c] = fut[c] \/ fut'[c].kind \notin Replies
      PROVE  IdInv'
  <2>1. \A m \in net : m.id \in Nat
    BY FrameFact
  <2> QED BY <1>1, <2>1 DEF IdInv, OwnAnswer, TypeOK
<1>2. nextId \in Nat /\ nextId >= nextId /\ nextId + 1 \in Nat /\ nextId + 1 >= nextId
  BY DEF TypeOK
<1>3. TakeSocket /\ UNCHANGED idVars => IdInv'
  BY <1>1, <1>2, TakeSocketFact DEF Replies, Challenges
<1>4. ASSUME NEW c \in Calls, Woken(c), UNCHANGED <<net, nextId>> PROVE IdInv'
  BY <1>1, <1>2, <1>4, WokenFact DEF Replies, Challenges
<1>5. ASSUME NEW c \in Calls, CallStep(c) PROVE IdInv'
  <2>1. CASE TakeAuthLock(c) \/ NeedConnection(c) \/ ShareConnection(c) \/ CloseDone(c)
             \/ DialOk(c) \/ DialFails(c)
    BY <2>1, <1>1, <1>2
       DEF TakeAuthLock, NeedConnection, ShareConnection, CloseDone, DialOk, DialFails
  <2>2. CASE BeginConnect(c) \/ RetryClose(c)
    BY <2>2, <1>3 DEF BeginConnect, RetryClose
  <2>3. CASE SendFails(c)
    BY <2>3, <1>1, <1>2 DEF SendFails
  <2>4. CASE ReturnAnswer(c) \/ Challenged(c) \/ AuthFails(c) \/ Disconnected(c) \/ Timeout(c)
    BY <2>4, <1>4 DEF ReturnAnswer, Challenged, AuthFails, Disconnected, Timeout
  <2>5. CASE Send(c)
    <3>1. /\ nextId' = nextId + 1
          /\ DOMAIN pending' = DOMAIN pending \cup {nextId}
          /\ pending'[nextId] = c
          /\ \A i \in DOMAIN pending : i # nextId => pending'[i] = pending[i]
      BY <2>5 DEF Send, PendingWith, FreshId
    <3>2. \A m \in net' : m \in net \/ (m.id = nextId /\ m.call = c)
      BY <2>5 DEF Send, Frame, FreshId
    <3>3. \A d \in Calls : fut'[d] = fut[d] \/ fut'[d].kind = "wait"
      BY <2>5 DEF Send, Plain, TypeOK
    <3>4. \A m \in net : m.id \in Nat
      BY FrameFact
    <3>5. OwnAnswer'
      BY <3>3 DEF IdInv, OwnAnswer, Replies, Challenges
    <3>6. \A m \in net' : m.id \in DOMAIN pending' => pending'[m.id] = m.call
      BY <3>1, <3>2, <3>4 DEF IdInv, TypeOK
    <3>7. (\A m \in net' : m.id < nextId') /\ \A i \in DOMAIN pending' : i < nextId'
      BY <3>1, <3>2, <3>4 DEF IdInv, TypeOK
    <3> QED BY <3>5, <3>6, <3>7 DEF IdInv
  <2> QED BY <1>5, <2>1, <2>2, <2>3, <2>4, <2>5 DEF CallStep
<1>6. ASSUME NEW c \in Calls, Invoke(c) PROVE IdInv'
  BY <1>6, <1>1, <1>2 DEF Invoke
<1>7. CASE ReaderStep
  <2>1. CASE ReaderStart BY <2>1, <1>1, <1>2 DEF ReaderStart
  <2>2. CASE ReaderEnd
    <3>1. \A c \in Calls : fut'[c] = fut[c] \/ fut'[c].kind \notin Replies
      BY <2>2, FailPendingFact DEF ReaderEnd, ReaderFinally, Replies, Challenges
    <3> QED BY <2>2, <3>1, <1>1, <1>2 DEF ReaderEnd, Requests
  <2>3. ASSUME NEW m \in net, Deliver(m) PROVE IdInv'
    <3>1. net' \subseteq net /\ UNCHANGED <<nextId, pending>>
      BY <2>3 DEF Deliver
    <3>2. OwnAnswer'
      <4> SUFFICES ASSUME NEW c \in Calls, fut'[c].kind \in Replies PROVE fut'[c].from = c
        BY DEF OwnAnswer
      <4>1. CASE fut'[c] = fut[c] BY <4>1 DEF IdInv, OwnAnswer
      <4>2. CASE fut'[c] # fut[c]
        <5>1. /\ m.id \in DOMAIN pending /\ pending[m.id] = c
              /\ fut'[c] = [kind |-> m.kind, nc |-> m.nc, from |-> m.call]
          BY <2>3, <4>2 DEF Deliver
        <5> QED BY <5>1 DEF IdInv
      <4> QED BY <4>1, <4>2
    <3> QED BY <3>1, <3>2 DEF IdInv
  <2> QED BY <1>7, <2>1, <2>2, <2>3 DEF ReaderStep
<1>8. CASE CloserStep
  <2>1. CASE CloseBegin BY <2>1, <1>3 DEF CloseBegin
  <2>2. CASE CloseFinish
    <3>1. \A c \in Calls : fut'[c] = fut[c] \/ fut'[c].kind \notin Replies
      BY <2>2, FailPendingFact DEF CloseFinish, Replies, Challenges
    <3> QED BY <2>2, <3>1, <1>1, <1>2 DEF CloseFinish
  <2> QED BY <1>8, <2>1, <2>2 DEF CloserStep
<1>9. CASE DeviceStep
  <2>1. CASE LinkLost BY <2>1, <1>1, <1>2 DEF LinkLost
  <2>2. ASSUME NEW m \in net, NEW k, NEW n, net' \subseteq net \cup {Reply(m, k, n)},
               UNCHANGED <<fut, pending, nextId>>
        PROVE  IdInv'
    BY <2>2, ReplyFact DEF IdInv, OwnAnswer
  <2>3. ASSUME NEW m \in net, Refuse(m) PROVE IdInv'
    BY <2>3, <2>2 DEF Refuse
  <2>4. ASSUME NEW m \in net, Execute(m) PROVE IdInv'
    BY <2>4, <2>2 DEF Execute
  <2>5. ASSUME NEW m \in net, Stray(m) PROVE IdInv'
    BY <2>5, <1>1, <1>2 DEF Stray
  <2> QED BY <1>9, <2>1, <2>3, <2>4, <2>5 DEF DeviceStep
<1>10. CASE Terminating \/ UNCHANGED vars
  BY <1>10, <1>1, <1>2 DEF Terminating, vars
<1> QED BY <1>5, <1>6, <1>7, <1>8, <1>9, <1>10 DEF Next

----------------------------------------------------------------------------
(* One connection, one reader, and nobody waiting without them *)

\* Every step keeps one connection with one reader, which every waiting call
\* depends on (async_connect, _close_socket, the reader's finally block).
LEMMA SocketStep == TypeOK /\ IdInv /\ SocketInv /\ [Next]_vars => SocketInv'
<1> SUFFICES ASSUME TypeOK, IdInv, SocketInv, [Next]_vars PROVE SocketInv'
  OBVIOUS
<1> USE CallsAssumption DEF callVars, socketVars, idVars, lockVars, devVars
<1> DEFINE Dialling(c) == pc[c] \in {"closeDial", "dial"}
           Unresolved(c) == pc[c] = "waiting" /\ fut[c].kind = "wait"
\* The two halves of the invariant: connection and lock, futures.
<1> DEFINE Conn == /\ socket = 0 <=> link = "none"
                   /\ socket = 0 <=> reader = "none"
                   /\ link = "closed" <=> reader = "ended"
                   /\ \A c \in Calls : Dialling(c) <=> connLock = c
                   /\ connLock # NoCall => socket = 0
           Wait == \A c \in Calls : Unresolved(c) =>
                     /\ IsPending(c)
                     /\ ~unread => /\ socket # 0 /\ sentOn[c] = socket
                                   /\ reader \in {"created", "running"}
<1>1. SocketInv <=> Conn /\ Wait
  BY DEF SocketInv, NoStrandedCall
<1>2. SocketInv' <=> Conn' /\ Wait'
  BY DEF SocketInv, NoStrandedCall, IsPending
<1> HIDE DEF Dialling, Unresolved
<1>3. Conn /\ Wait BY <1>1
<1>4. ASSUME UNCHANGED <<socket, link, reader, connLock>>,
             \A c \in Calls : Dialling(c)' <=> Dialling(c)
      PROVE  Conn'
  BY <1>3, <1>4
<1>5. ASSUME UNCHANGED <<socket, reader, unread>>,
             \A c \in Calls : Unresolved(c)' =>
                /\ Unresolved(c) /\ sentOn'[c] = sentOn[c]
                /\ IsPending(c) => IsPending(c)'
      PROVE  Wait'
  BY <1>3, <1>5
<1>6. TakeSocket /\ UNCHANGED <<pending, sentOn>>
        /\ (\A c \in Calls : pc'[c] = "waiting" => pc[c] = "waiting") => Wait'
  <2> SUFFICES ASSUME TakeSocket, UNCHANGED <<pending, sentOn>>,
                      \A c \in Calls : pc'[c] = "waiting" => pc[c] = "waiting",
                      NEW c \in Calls, Unresolved(c)'
               PROVE  IsPending(c)' /\ unread'
    OBVIOUS
  <2>1. pc[c] = "waiting" /\ fut'[c].kind = "wait" BY DEF Unresolved
  <2>2. fut[c].kind = "wait" BY <2>1, TakeSocketFact
  <2>3. IsPending(c) /\ (~unread => reader \in {"created", "running"})
    BY <2>1, <2>2, <1>3 DEF Unresolved
  <2>4. reader # "running" BY <2>1, <2>3, FailPendingFact DEF TakeSocket, ReaderFinally
  <2>5. unread' BY <2>3, <2>4 DEF TakeSocket
  <2> QED BY <2>3, <2>5 DEF IsPending
<1>7. ASSUME NEW c \in Calls, Woken(c),
             UNCHANGED <<socketVars, connLock>>,
             pc'[c] \notin {"closeDial", "dial"},
             \A d \in Calls \ {c} : pc'[d] = pc[d]
      PROVE  SocketInv'
  <2>1. \A d \in Calls : Dialling(d)' <=> Dialling(d)
    BY <1>7, WokenFact DEF Dialling
  <2>2. ASSUME NEW d \in Calls, Unresolved(d)'
        PROVE  Unresolved(d) /\ sentOn'[d] = sentOn[d] /\ (IsPending(d) => IsPending(d)')
    <3>1. d # c BY <2>2, <1>7, WokenFact DEF Unresolved
    <3> QED BY <2>2, <3>1, <1>7, WokenFact DEF Unresolved, IsPending
  <2> QED BY <2>1, <2>2, <1>2, <1>4, <1>5, <1>7
<1>8. ASSUME NEW c \in Calls, NEW o PROVE
        /\ Finish(c, o) => pc' = [pc EXCEPT ![c] = "done"]
        /\ Unavailable(c) => \E p \in {"done", "retry"} : pc' = [pc EXCEPT ![c] = p]
  BY DEF Finish, Unavailable
<1>9. ASSUME NEW c \in Calls, NEW p \in PCs, pc' = [pc EXCEPT ![c] = p]
      PROVE  pc'[c] = p /\ \A d \in Calls \ {c} : pc'[d] = pc[d]
  BY <1>9 DEF TypeOK
\* A step of c that only moves c between places that neither dial nor wait.
<1>10. ASSUME NEW c \in Calls, NEW p \in PCs, pc' = [pc EXCEPT ![c] = p],
              ~Dialling(c), p \notin {"closeDial", "dial", "waiting"},
              UNCHANGED <<socketVars, connLock, pending, fut, sentOn>>
       PROVE  SocketInv'
  <2>1. \A d \in Calls : Dialling(d)' <=> Dialling(d)
    BY <1>9, <1>10 DEF Dialling
  <2>2. \A d \in Calls : Unresolved(d)' => Unresolved(d)
    BY <1>9, <1>10 DEF Unresolved
  <2>3. \A d \in Calls : IsPending(d) => IsPending(d)'
    BY <1>10 DEF IsPending
  <2> QED BY <2>1, <2>2, <2>3, <1>2, <1>4, <1>5, <1>10
<1>11. ASSUME NEW c \in Calls, CallStep(c) PROVE SocketInv'
  <2>1. CASE TakeAuthLock(c) \/ NeedConnection(c) \/ ShareConnection(c)
    BY <2>1, <1>10 DEF TakeAuthLock, NeedConnection, ShareConnection, Dialling, PCs, Continuations
  <2>2. CASE BeginConnect(c)
    <3>1. Wait'
      <4>1. \A d \in Calls : pc'[d] = "waiting" => pc[d] = "waiting"
        BY <2>2 DEF BeginConnect, TypeOK
      <4> QED BY <2>2, <4>1, <1>6 DEF BeginConnect
    <3>2. pc'[c] \in {"closeDial", "dial"} /\ \A d \in Calls \ {c} : pc'[d] = pc[d]
      BY <2>2 DEF BeginConnect, TypeOK
    <3>3. connLock = NoCall /\ connLock' = c
      BY <2>2 DEF BeginConnect, ConnectLockFree
    <3>4. socket' = 0 /\ link' = "none" /\ reader' = "none"
      BY <2>2, TakeSocketFact DEF BeginConnect
    <3>5. Conn' BY <3>2, <3>3, <3>4, <1>3 DEF Dialling
    <3> QED BY <3>1, <3>5, <1>2
  <2>3. CASE CloseDone(c)
    <3>1. PICK p \in {"dial", "connect"} : /\ pc' = [pc EXCEPT ![c] = p]
                                           /\ p = "dial" <=> Dialling(c)
      BY <2>3 DEF CloseDone, Dialling
    <3>2. \A d \in Calls : Dialling(d)' <=> Dialling(d)
      BY <3>1, <1>9 DEF Dialling, PCs, Continuations
    <3>3. \A d \in Calls : Unresolved(d)' => Unresolved(d)
      BY <2>3, <3>1, <1>9 DEF CloseDone, Unresolved, PCs, Continuations
    <3>4. \A d \in Calls : IsPending(d) => IsPending(d)'
      BY <2>3 DEF CloseDone, IsPending
    <3> QED BY <2>3, <3>2, <3>3, <3>4, <1>2, <1>4, <1>5 DEF CloseDone
  <2>4. CASE DialOk(c)
    <3>1. pc'[c] = "connect" /\ pc[c] = "dial" /\ \A d \in Calls \ {c} : pc'[d] = pc[d]
      BY <2>4 DEF DialOk, TypeOK
    <3>2. connLock = c
      BY <3>1, <1>3 DEF Dialling
    <3>3. /\ socket = 0 /\ socket' # 0 /\ link' = "open" /\ reader' = "created"
          /\ connLock' = NoCall
      BY <2>4, <3>2, <1>3 DEF DialOk, TypeOK
    <3>4. Conn'
      BY <3>1, <3>2, <3>3, <1>3 DEF Dialling
    <3>5. \A d \in Calls : Unresolved(d)' => Unresolved(d)
      BY <2>4, <3>1 DEF DialOk, Unresolved
    <3>6. (\A d \in Calls : IsPending(d) => IsPending(d)') /\ unread' = unread
      BY <2>4 DEF DialOk, IsPending
    <3>7. Wait' BY <3>3, <3>5, <3>6, <1>3
    <3> QED BY <3>4, <3>7, <1>2
  <2>5. CASE DialFails(c)
    <3>1. PICK p \in {"done", "retry"} : pc' = [pc EXCEPT ![c] = p]
      BY <2>5, <1>8 DEF DialFails
    <3>2. connLock = c /\ connLock' = NoCall
      BY <2>5, <1>3 DEF DialFails, LockAfterFailedDial, Dialling
    <3>3. pc'[c] = p /\ \A d \in Calls \ {c} : pc'[d] = pc[d]
      BY <3>1, <1>9 DEF PCs, Continuations
    <3>4. Conn'
      BY <2>5, <3>2, <3>3, <1>3 DEF DialFails, Dialling
    <3>5. \A d \in Calls : Unresolved(d)' => Unresolved(d)
      BY <2>5, <3>3 DEF DialFails, Unresolved
    <3>6. \A d \in Calls : IsPending(d) => IsPending(d)'
      BY <2>5 DEF DialFails, IsPending
    <3> QED BY <2>5, <3>4, <3>5, <3>6, <1>2, <1>5 DEF DialFails
  <2>6. CASE RetryClose(c)
    <3>1. PICK p \in {"closeRetry", "connect"} : pc' = [pc EXCEPT ![c] = p]
      BY <2>6 DEF RetryClose
    <3>2. pc[c] = "retry" /\ pc'[c] = p /\ \A d \in Calls \ {c} : pc'[d] = pc[d]
      BY <2>6, <3>1, <1>9 DEF RetryClose, PCs, Continuations
    <3>3. Wait'
      BY <2>6, <3>2, <1>6 DEF RetryClose
    <3>4. Conn'
      BY <2>6, <3>2, <1>3, TakeSocketFact DEF RetryClose, Dialling
    <3> QED BY <3>3, <3>4, <1>2
  <2>7. CASE Send(c)
    <3>1. pc[c] = "connect" /\ pc'[c] = "waiting" /\ \A d \in Calls \ {c} : pc'[d] = pc[d]
      BY <2>7 DEF Send, TypeOK
    <3>2. Conn'
      <4>1. \A d \in Calls : Dialling(d)' <=> Dialling(d) BY <3>1 DEF Dialling
      <4> QED BY <2>7, <4>1, <1>4 DEF Send
    <3>3. /\ socket # 0 /\ reader \in {"created", "running"} /\ sentOn'[c] = socket
          /\ UNCHANGED <<socket, reader, unread>>
      BY <2>7, <1>3 DEF Send, Live, TypeOK
    <3>4. \A d \in Calls \ {c} : fut'[d] = fut[d] /\ sentOn'[d] = sentOn[d]
      BY <2>7 DEF Send, TypeOK
    <3>5. /\ pending'[nextId] = c /\ nextId \in DOMAIN pending'
          /\ \A i \in DOMAIN pending : i \in DOMAIN pending' /\ pending'[i] = pending[i]
      BY <2>7 DEF Send, PendingWith, FreshId, IdInv, TypeOK
    <3>6. \A d \in Calls : (d = c \/ IsPending(d)) => IsPending(d)'
      BY <3>5 DEF IsPending
    <3>7. \A d \in Calls \ {c} : Unresolved(d)' => Unresolved(d)
      BY <3>1, <3>4 DEF Unresolved
    <3>8. Wait' BY <3>3, <3>4, <3>6, <3>7, <1>3
    <3> QED BY <3>2, <3>8, <1>2
  <2>8. CASE SendFails(c)
    <3>1. PICK p \in {"done", "retry"} : pc' = [pc EXCEPT ![c] = p]
      BY <2>8, <1>8 DEF SendFails
    <3> QED BY <2>8, <3>1, <1>10 DEF SendFails, Dialling, PCs, Continuations
  <2>9. CASE ReturnAnswer(c) \/ Challenged(c) \/ AuthFails(c) \/ Disconnected(c) \/ Timeout(c)
    <3>1. Woken(c) /\ UNCHANGED <<socketVars, connLock>>
      BY <2>9 DEF ReturnAnswer, Challenged, AuthFails, Disconnected, Timeout
    <3>2. PICK p \in {"done", "retry", "connect"} : pc' = [pc EXCEPT ![c] = p]
      BY <2>9, <1>8 DEF ReturnAnswer, Challenged, AuthFails, Disconnected, Timeout
    <3>3. pc'[c] = p /\ \A d \in Calls \ {c} : pc'[d] = pc[d]
      BY <3>2, <1>9 DEF PCs, Continuations
    <3> QED BY <3>1, <3>3, <1>7
  <2> QED BY <1>11, <2>1, <2>2, <2>3, <2>4, <2>5, <2>6, <2>7, <2>8, <2>9 DEF CallStep
<1>12. ASSUME NEW c \in Calls, Invoke(c) PROVE SocketInv'
  <2>1. PICK p \in {"wantAuth", "connect"} : pc' = [pc EXCEPT ![c] = p]
    BY <1>12 DEF Invoke
  <2> QED BY <1>12, <2>1, <1>10 DEF Invoke, Dialling, PCs, Continuations
\* Steps outside the calls that keep the connection.
<1>13. ASSUME UNCHANGED <<pc, socket, reader, unread, connLock, sentOn, pending>>,
              link' = link \/ (link = "open" /\ link' = "lost"),
              \A c \in Calls : fut'[c].kind = "wait" => fut[c].kind = "wait"
       PROVE  SocketInv'
  <2>1. Conn' BY <1>13, <1>3 DEF Dialling
  <2>2. Wait' BY <1>13, <1>5 DEF Unresolved, IsPending
  <2> QED BY <2>1, <2>2, <1>2
<1>14. CASE ReaderStep
  <2>1. CASE ReaderStart
    <3>1. Conn' BY <2>1, <1>3 DEF ReaderStart, Dialling
    <3>2. \A c \in Calls : (Unresolved(c)' => Unresolved(c)) /\ (IsPending(c) => IsPending(c)')
      BY <2>1 DEF ReaderStart, Unresolved, IsPending
    <3>3. Wait' BY <2>1, <3>2, <1>3 DEF ReaderStart
    <3> QED BY <3>1, <3>3, <1>2
  <2>2. CASE ReaderEnd
    <3>1. Conn' BY <2>2, <1>3 DEF ReaderEnd, Dialling
    <3>2. \A c \in Calls : ~Unresolved(c)'
      <4> SUFFICES ASSUME NEW c \in Calls, Unresolved(c)' PROVE FALSE
        OBVIOUS
      <4>1. pc[c] = "waiting" /\ FailPending[c].kind = "wait"
        BY <2>2 DEF ReaderEnd, ReaderFinally, Unresolved
      <4>2. fut[c].kind = "wait" BY <4>1, FailPendingFact
      <4>3. IsPending(c) BY <4>1, <4>2, <1>3 DEF Unresolved
      <4> QED BY <4>1, <4>3, FailPendingFact
    <3> QED BY <3>1, <3>2, <1>2
  <2>3. ASSUME NEW m \in net, Deliver(m) PROVE SocketInv'
    <3>1. \A c \in Calls : fut'[c].kind = "wait" => fut[c].kind = "wait"
      BY <2>3 DEF Deliver, Replies, Challenges
    <3> QED BY <2>3, <3>1, <1>13 DEF Deliver
  <2> QED BY <1>14, <2>1, <2>2, <2>3 DEF ReaderStep
<1>15. CASE CloserStep
  <2>1. CASE CloseBegin
    <3>1. Wait' BY <2>1, <1>6 DEF CloseBegin
    <3>2. Conn' BY <2>1, <1>3, TakeSocketFact DEF CloseBegin, Dialling
    <3> QED BY <3>1, <3>2, <1>2
  <2>2. CASE CloseFinish
    <3>1. Conn' BY <2>2, <1>4 DEF CloseFinish, Dialling
    <3>2. \A c \in Calls : ~Unresolved(c)'
      <4> SUFFICES ASSUME NEW c \in Calls, Unresolved(c)' PROVE FALSE
        OBVIOUS
      <4>1. pc[c] = "waiting" /\ FailPending[c].kind = "wait"
        BY <2>2 DEF CloseFinish, Unresolved
      <4>2. fut[c].kind = "wait" BY <4>1, FailPendingFact
      <4>3. IsPending(c) BY <4>1, <4>2, <1>3 DEF Unresolved
      <4> QED BY <4>1, <4>3, FailPendingFact
    <3> QED BY <3>1, <3>2, <1>2
  <2> QED BY <1>15, <2>1, <2>2 DEF CloserStep
<1>16. CASE DeviceStep
  <2>1. CASE LinkLost BY <2>1, <1>13 DEF LinkLost
  <2>2. ASSUME NEW m \in net, Refuse(m) \/ Execute(m) \/ Stray(m) PROVE SocketInv'
    BY <2>2, <1>13 DEF Refuse, Execute, Stray
  <2> QED BY <1>16, <2>1, <2>2 DEF DeviceStep
<1>17. CASE Terminating \/ UNCHANGED vars
  BY <1>17, <1>13 DEF Terminating, vars
<1> QED BY <1>11, <1>12, <1>14, <1>15, <1>16, <1>17 DEF Next

----------------------------------------------------------------------------
(* A mutating call is executed at most once *)

\* Every step keeps a mutating call to one frame and one execution (_async_call,
\* _is_retry_safe).
LEMMA MutatingStep == TypeOK /\ IdInv /\ AnswerInv /\ MutatingInv /\ [Next]_vars => MutatingInv'
<1> SUFFICES ASSUME TypeOK, IdInv, AnswerInv, MutatingInv, [Next]_vars PROVE MutatingInv'
  OBVIOUS
<1> USE CallsAssumption DEF callVars, socketVars, idVars, lockVars, devVars
\* Steps that add no frame and execute nothing.
<1>1. ASSUME net' \subseteq net, UNCHANGED executed,
             \A c \in Calls \ ReadOnly :
                /\ pc'[c] \notin {"retry", "closeRetry"}
                /\ \/ pc'[c] \notin {"waiting", "done"}
                   \/ fut'[c].kind \in Challenges
                   \/ outcome'[c] \in {"authError", "authFailed"}
                   => NotSent(c)
      PROVE  MutatingInv'
  <2>1. \A c \in Calls \ ReadOnly : NotSent(c) => NotSent(c)'
    BY <1>1 DEF NotSent
  <2> QED BY <1>1, <2>1 DEF MutatingInv
\* ... where the futures and outcomes do not become refusals either.
<1>2. ASSUME net' \subseteq net, UNCHANGED <<executed, outcome>>,
             \A c \in Calls : fut'[c] = fut[c] \/ fut'[c].kind \notin Challenges,
             \A c \in Calls \ ReadOnly :
                \/ pc'[c] = pc[c]
                \/ pc'[c] \notin {"retry", "closeRetry"} /\ pc[c] \notin {"waiting", "done"}
      PROVE  MutatingInv'
  BY <1>2, <1>1 DEF MutatingInv
<1>3. ASSUME NEW c \in Calls, Unavailable(c), c \notin ReadOnly
      PROVE  pc'[c] = "done" /\ outcome'[c] = "unavailable"
  BY <1>3 DEF Unavailable, RetryAllowed, Finish, TypeOK
<1>4. ASSUME NEW c \in Calls, NEW o, Finish(c, o) \/ Unavailable(c)
      PROVE  /\ Finish(c, o) => pc'[c] = "done" /\ outcome'[c] = o
             /\ \A d \in Calls \ {c} : pc'[d] = pc[d] /\ outcome'[d] = outcome[d]
  BY <1>4 DEF Unavailable, Finish, TypeOK
<1>5. ASSUME NEW c \in Calls, Unavailable(c), net' \subseteq net, UNCHANGED executed,
             \A d \in Calls : fut'[d] = fut[d] \/ fut'[d].kind \notin Challenges
      PROVE  MutatingInv'
  BY <1>5, <1>3, <1>4, <1>1 DEF MutatingInv
<1>6. ASSUME NEW c \in Calls, NEW o, Finish(c, o), Woken(c), UNCHANGED <<net, executed>>,
             o \in {"authError", "authFailed"} => fut[c].kind \in Challenges
      PROVE  MutatingInv'
  <2>1. \A d \in Calls : fut'[d] = fut[d] \/ fut'[d].kind \notin Challenges
    BY <1>6, WokenFact DEF Challenges
  <2> QED BY <2>1, <1>6, <1>4, <1>1 DEF MutatingInv
<1>7. ASSUME NEW c \in Calls, CallStep(c) PROVE MutatingInv'
  <2>1. CASE TakeAuthLock(c) \/ NeedConnection(c) \/ ShareConnection(c)
    BY <2>1, <1>2 DEF TakeAuthLock, NeedConnection, ShareConnection, TypeOK
  <2>2. CASE BeginConnect(c)
    <3>1. \A d \in Calls : fut'[d] = fut[d] \/ fut'[d].kind \notin Challenges
      BY <2>2, TakeSocketFact DEF BeginConnect, Challenges
    <3> QED BY <2>2, <3>1, <1>2, TakeSocketFact DEF BeginConnect, TypeOK
  <2>3. CASE CloseDone(c)
    <3>1. \A d \in Calls \ ReadOnly :
             pc'[d] = pc[d] \/ (pc[d] = "closeDial" /\ pc'[d] = "dial")
      BY <2>3 DEF CloseDone, MutatingInv, TypeOK
    <3> QED BY <2>3, <3>1, <1>2 DEF CloseDone
  <2>4. CASE DialOk(c)
    BY <2>4, <1>2 DEF DialOk, TypeOK
  <2>5. CASE DialFails(c) BY <2>5, <1>5 DEF DialFails
  <2>6. CASE RetryClose(c)
    <3>1. c \in ReadOnly BY <2>6 DEF RetryClose, MutatingInv
    <3>2. \A d \in Calls \ {c} : pc'[d] = pc[d]
      BY <2>6 DEF RetryClose, TypeOK
    <3>3. \A d \in Calls : fut'[d] = fut[d] \/ fut'[d].kind \notin Challenges
      BY <2>6, TakeSocketFact DEF RetryClose, Challenges
    <3> QED BY <2>6, <3>1, <3>2, <3>3, <1>2, TakeSocketFact DEF RetryClose
  <2>7. CASE Send(c)
    <3>1. pc'[c] = "waiting" /\ fut'[c].kind = "wait" /\ outcome'[c] = "none"
      BY <2>7 DEF Send, Plain, AnswerInv, TypeOK
    <3>2. \A d \in Calls \ {c} : pc'[d] = pc[d] /\ fut'[d] = fut[d]
      BY <2>7 DEF Send, TypeOK
    <3>3. \A m \in net' : m \in net \/ (m = Frame(c) /\ m.call = c)
      BY <2>7 DEF Send, Frame
    <3>4. UNCHANGED <<executed, outcome>> BY <2>7 DEF Send
    <3>5. ASSUME NEW d \in Calls \ ReadOnly, d # c, NotSent(d) PROVE NotSent(d)'
      BY <3>3, <3>4, <3>5 DEF NotSent
    <3>6. c \notin ReadOnly => NotSent(c)
      BY <2>7 DEF Send, MutatingInv
    <3> QED BY <3>1, <3>2, <3>3, <3>4, <3>5, <3>6 DEF MutatingInv, NotSent, Challenges
  <2>8. CASE SendFails(c) BY <2>8, <1>5 DEF SendFails
  <2>9. CASE ReturnAnswer(c) \/ AuthFails(c) \/ Timeout(c)
    BY <2>9, <1>6 DEF ReturnAnswer, AuthFails, Timeout
  <2>10. CASE Challenged(c)
    <3>1. CASE Finish(c, "authError")
      BY <2>10, <3>1, <1>6 DEF Challenged
    <3>2. CASE pc' = [pc EXCEPT ![c] = "connect"] /\ UNCHANGED outcome
      <4>1. fut[c].kind \in Challenges BY <2>10 DEF Challenged
      <4>2. \A d \in Calls : fut'[d] = fut[d] \/ fut'[d].kind \notin Challenges
        BY <2>10, WokenFact DEF Challenged, Challenges
      <4>3. pc'[c] = "connect" /\ \A d \in Calls \ {c} : pc'[d] = pc[d]
        BY <3>2 DEF TypeOK
      <4> QED BY <2>10, <3>2, <4>1, <4>2, <4>3, <1>1 DEF Challenged, MutatingInv
    <3> QED BY <2>10, <3>1, <3>2 DEF Challenged
  <2>11. CASE Disconnected(c)
    <3>1. \A d \in Calls : fut'[d] = fut[d] \/ fut'[d].kind \notin Challenges
      BY <2>11, WokenFact DEF Disconnected, Challenges
    <3> QED BY <2>11, <3>1, <1>5 DEF Disconnected
  <2> QED BY <1>7, <2>1, <2>2, <2>3, <2>4, <2>5, <2>6, <2>7, <2>8, <2>9, <2>10, <2>11
          DEF CallStep
<1>8. ASSUME NEW c \in Calls, Invoke(c) PROVE MutatingInv'
  BY <1>8, <1>2 DEF Invoke, TypeOK
<1>9. CASE ReaderStep
  <2>1. CASE ReaderStart BY <2>1, <1>2 DEF ReaderStart
  <2>2. CASE ReaderEnd
    <3>1. \A d \in Calls : fut'[d] = fut[d] \/ fut'[d].kind \notin Challenges
      BY <2>2, FailPendingFact DEF ReaderEnd, ReaderFinally, Challenges
    <3> QED BY <2>2, <3>1, <1>2 DEF ReaderEnd, Requests
  <2>3. ASSUME NEW m \in net, Deliver(m) PROVE MutatingInv'
    <3>1. ASSUME NEW c \in Calls \ ReadOnly, fut'[c].kind \in Challenges PROVE NotSent(c)'
      <4>1. CASE fut'[c] = fut[c]
        BY <2>3, <3>1, <4>1 DEF Deliver, MutatingInv, NotSent
      <4>2. CASE fut'[c] # fut[c]
        <5>1. m.id \in DOMAIN pending /\ pending[m.id] = c /\ fut'[c].kind = m.kind
          BY <2>3, <4>2 DEF Deliver
        <5>2. m.call = c /\ m.kind # "answer"
          BY <3>1, <5>1 DEF IdInv, Challenges
        <5>3. executed[c] = 0 /\ \A n \in net : n.call = c => n = m
          BY <5>2 DEF MutatingInv
        <5> QED BY <2>3, <5>3 DEF Deliver, NotSent
      <4> QED BY <4>1, <4>2
    <3>2. net' \subseteq net /\ UNCHANGED <<pc, outcome, executed>>
      BY <2>3 DEF Deliver
    <3> QED BY <3>1, <3>2 DEF MutatingInv, NotSent
  <2> QED BY <1>9, <2>1, <2>2, <2>3 DEF ReaderStep
<1>10. CASE CloserStep
  <2>1. CASE CloseBegin
    <3>1. \A d \in Calls : fut'[d] = fut[d] \/ fut'[d].kind \notin Challenges
      BY <2>1, TakeSocketFact DEF CloseBegin, Challenges
    <3> QED BY <2>1, <3>1, <1>2, TakeSocketFact DEF CloseBegin
  <2>2. CASE CloseFinish
    <3>1. \A d \in Calls : fut'[d] = fut[d] \/ fut'[d].kind \notin Challenges
      BY <2>2, FailPendingFact DEF CloseFinish, Challenges
    <3> QED BY <2>2, <3>1, <1>2 DEF CloseFinish
  <2> QED BY <1>10, <2>1, <2>2 DEF CloserStep
<1>11. CASE DeviceStep
  <2>1. CASE LinkLost BY <2>1, <1>2 DEF LinkLost
  <2>2. ASSUME NEW m \in net, m.kind = "request", NEW k \in Replies, NEW n \in Nat,
               net' = net \ {m} \/ net' = (net \ {m}) \cup {Reply(m, k, n)},
               \/ UNCHANGED executed
               \/ /\ executed' = [executed EXCEPT ![m.call] = @ + 1]
                  /\ net' = net \ {m} \/ k = "answer",
               UNCHANGED <<pc, fut, outcome>>
        PROVE  MutatingInv'
    <3> SUFFICES ASSUME NEW c \in Calls \ ReadOnly
                 PROVE  /\ NotSent(c) => NotSent(c)'
                        /\ executed'[c] <= 1
                        /\ \A x \in net' : x.call = c /\ x.kind # "answer" => executed'[c] = 0
                        /\ \A x, y \in net' : x.call = c /\ y.call = c => x = y
      BY <2>2 DEF MutatingInv
    <3>1. Reply(m, k, n).kind = k /\ Reply(m, k, n).call = m.call
      BY ReplyFact
    <3>2. \A x \in net' : (x \in net /\ x # m) \/ x = Reply(m, k, n)
      BY <2>2
    <3>3. CASE m.call = c
      <4>1. executed[c] = 0 /\ \A x \in net : x.call = c => x = m
        BY <2>2, <3>3 DEF MutatingInv
      <4>2. ~NotSent(c) BY <3>3 DEF NotSent
      <4>3. executed'[c] = 0 \/ (executed'[c] = 1 /\ (net' = net \ {m} \/ k = "answer"))
        BY <2>2, <3>3, <4>1 DEF TypeOK
      <4> QED BY <2>2, <3>1, <3>2, <4>1, <4>2, <4>3
    <3>4. CASE m.call # c
      <4>1. executed'[c] = executed[c] BY <2>2, <3>4 DEF TypeOK
      <4>2. \A x \in net' : x.call = c => x \in net
        BY <3>1, <3>2, <3>4
      <4> QED BY <4>1, <4>2 DEF MutatingInv, NotSent
    <3> QED BY <3>3, <3>4
  <2>3. ASSUME NEW m \in net, Refuse(m) PROVE MutatingInv'
    <3>1. PICK k \in Challenges : net' = (net \ {m}) \cup {Reply(m, k, devNc)}
      BY <2>3 DEF Refuse
    <3> QED BY <2>3, <3>1, <2>2 DEF Refuse, NextInLine, Requests, Replies, TypeOK
  <2>4. ASSUME NEW m \in net, Execute(m) PROVE MutatingInv'
    <3>1. net' = net \ {m} \/ net' = (net \ {m}) \cup {Reply(m, "answer", 0)}
      BY <2>4 DEF Execute
    <3>2. m.kind = "request" /\ executed' = [executed EXCEPT ![m.call] = @ + 1]
          /\ UNCHANGED <<pc, fut, outcome>>
      BY <2>4 DEF Execute, NextInLine, Requests
    <3> QED BY <3>1, <3>2, <2>2 DEF Replies
  <2>5. ASSUME NEW m \in net, Stray(m) PROVE MutatingInv'
    BY <2>5, <2>2 DEF Stray, Requests, Replies
  <2> QED BY <1>11, <2>1, <2>3, <2>4, <2>5 DEF DeviceStep
<1>12. CASE Terminating \/ UNCHANGED vars
  BY <1>12, <1>2 DEF Terminating, vars
<1> QED BY <1>7, <1>8, <1>9, <1>10, <1>11, <1>12 DEF Next

----------------------------------------------------------------------------
(* Answers follow executions, and outcomes end calls *)

\* Every step keeps answers behind executions, and outcomes with finished calls
\* (_call_connected, the reader loop).
LEMMA AnswerStep == TypeOK /\ IdInv /\ AnswerInv /\ [Next]_vars => AnswerInv'
<1> SUFFICES ASSUME TypeOK, IdInv, AnswerInv, [Next]_vars PROVE AnswerInv'
  OBVIOUS
<1> USE DEF callVars, socketVars, idVars, lockVars, devVars
\* Steps that execute nothing, create no answer and end no call.
<1>1. ASSUME net' \subseteq net, UNCHANGED <<executed, outcome>>,
             \A c \in Calls : fut'[c] = fut[c] \/ fut'[c].kind # "answer",
             \A c \in Calls : pc'[c] = "done" <=> pc[c] = "done"
      PROVE  AnswerInv'
  <2>1. \A m \in net : m.call \in Calls BY FrameFact
  <2> QED BY <1>1, <2>1 DEF AnswerInv
\* Steps that end the call c, or send it to its retry.
<1>2. ASSUME NEW c \in Calls, NEW o \in Outcomes, o # "none", pc[c] # "done",
             Finish(c, o) \/ (pc' = [pc EXCEPT ![c] = "retry"] /\ UNCHANGED outcome),
             net' \subseteq net, UNCHANGED executed,
             \A d \in Calls : fut'[d] = fut[d] \/ fut'[d].kind # "answer",
             o = "answered" => fut[c].kind = "answer"
      PROVE  AnswerInv'
  <2>1. \A m \in net : m.call \in Calls BY FrameFact
  <2>2. \A d \in Calls \ {c} : pc'[d] = pc[d] /\ outcome'[d] = outcome[d]
    BY <1>2 DEF Finish, TypeOK
  <2>3. \/ pc'[c] = "done" /\ outcome'[c] = o
        \/ pc'[c] = "retry" /\ outcome'[c] = outcome[c]
    BY <1>2 DEF Finish, TypeOK
  <2>4. outcome[c] = "none" BY <1>2 DEF AnswerInv
  <2> QED BY <1>2, <2>1, <2>2, <2>3, <2>4 DEF AnswerInv
<1>3. ASSUME NEW c \in Calls, Unavailable(c), pc[c] # "done", net' \subseteq net,
             UNCHANGED executed,
             \A d \in Calls : fut'[d] = fut[d] \/ fut'[d].kind # "answer"
      PROVE  AnswerInv'
  BY <1>3, <1>2 DEF Unavailable, Outcomes
<1>4. ASSUME NEW c \in Calls, CallStep(c) PROVE AnswerInv'
  <2>1. CASE TakeAuthLock(c) \/ NeedConnection(c) \/ ShareConnection(c) \/ CloseDone(c)
             \/ DialOk(c)
    BY <2>1, <1>1 DEF TakeAuthLock, NeedConnection, ShareConnection, CloseDone, DialOk, TypeOK
  <2>2. CASE BeginConnect(c) \/ RetryClose(c)
    <3>1. TakeSocket BY <2>2 DEF BeginConnect, RetryClose
    <3>2. \A d \in Calls : fut'[d] = fut[d] \/ fut'[d].kind # "answer"
      BY <3>1, TakeSocketFact
    <3> QED BY <2>2, <3>1, <3>2, <1>1, TakeSocketFact DEF BeginConnect, RetryClose, TypeOK
  <2>3. CASE DialFails(c) BY <2>3, <1>3 DEF DialFails
  <2>4. CASE SendFails(c) BY <2>4, <1>3 DEF SendFails
  <2>5. CASE Send(c)
    <3>1. \A m \in net' : m \in net \/ (m.kind = "request" /\ m.call = c)
      BY <2>5 DEF Send, Frame
    <3>2. /\ UNCHANGED <<executed, outcome>>
          /\ \A d \in Calls : pc'[d] = "done" <=> pc[d] = "done"
          /\ \A d \in Calls : fut'[d] = fut[d] \/ fut'[d].kind # "answer"
      BY <2>5 DEF Send, Plain, TypeOK
    <3> QED BY <3>1, <3>2 DEF AnswerInv
  <2>6. ASSUME Woken(c), UNCHANGED net
        PROVE  /\ pc[c] # "done" /\ net' \subseteq net
               /\ \A d \in Calls : fut'[d] = fut[d] \/ fut'[d].kind # "answer"
    BY <2>6, WokenFact
  <2>7. CASE ReturnAnswer(c) \/ AuthFails(c) \/ Timeout(c)
    BY <2>7, <2>6, <1>2 DEF ReturnAnswer, AuthFails, Timeout, Outcomes
  <2>8. CASE Challenged(c)
    <3>1. Woken(c) /\ UNCHANGED <<net, executed>> BY <2>8 DEF Challenged
    <3>2. CASE Finish(c, "authError")
      BY <3>1, <3>2, <2>6, <1>2 DEF Outcomes
    <3>3. CASE pc' = [pc EXCEPT ![c] = "connect"] /\ UNCHANGED outcome
      <4>1. \A d \in Calls : pc'[d] = "done" <=> pc[d] = "done"
        BY <3>1, <3>3, <2>6 DEF TypeOK
      <4> QED BY <3>1, <3>3, <4>1, <2>6, <1>1
    <3> QED BY <2>8, <3>2, <3>3 DEF Challenged
  <2>9. CASE Disconnected(c) BY <2>9, <2>6, <1>3 DEF Disconnected
  <2> QED BY <1>4, <2>1, <2>2, <2>3, <2>4, <2>5, <2>7, <2>8, <2>9 DEF CallStep
<1>5. ASSUME NEW c \in Calls, Invoke(c) PROVE AnswerInv'
  BY <1>5, <1>1 DEF Invoke, TypeOK
<1>6. CASE ReaderStep
  <2>1. CASE ReaderStart BY <2>1, <1>1 DEF ReaderStart
  <2>2. CASE ReaderEnd
    <3>1. \A d \in Calls : fut'[d] = fut[d] \/ fut'[d].kind # "answer"
      BY <2>2, FailPendingFact DEF ReaderEnd, ReaderFinally
    <3> QED BY <2>2, <3>1, <1>1 DEF ReaderEnd, Requests
  <2>3. ASSUME NEW m \in net, Deliver(m) PROVE AnswerInv'
    <3>1. ASSUME NEW c \in Calls, fut'[c].kind = "answer" PROVE executed[c] >= 1
      <4>1. CASE fut'[c] = fut[c] BY <3>1, <4>1 DEF AnswerInv
      <4>2. CASE fut'[c] # fut[c]
        <5>1. m.id \in DOMAIN pending /\ pending[m.id] = c /\ fut'[c].kind = m.kind
          BY <2>3, <4>2 DEF Deliver
        <5> QED BY <3>1, <5>1 DEF IdInv, AnswerInv
      <4> QED BY <4>1, <4>2
    <3>2. net' \subseteq net /\ UNCHANGED <<pc, outcome, executed>>
      BY <2>3 DEF Deliver
    <3> QED BY <3>1, <3>2 DEF AnswerInv
  <2> QED BY <1>6, <2>1, <2>2, <2>3 DEF ReaderStep
<1>7. CASE CloserStep
  <2>1. CASE CloseBegin
    <3>1. \A d \in Calls : fut'[d] = fut[d] \/ fut'[d].kind # "answer"
      BY <2>1, TakeSocketFact DEF CloseBegin
    <3> QED BY <2>1, <3>1, <1>1, TakeSocketFact DEF CloseBegin
  <2>2. CASE CloseFinish
    <3>1. \A d \in Calls : fut'[d] = fut[d] \/ fut'[d].kind # "answer"
      BY <2>2, FailPendingFact DEF CloseFinish
    <3> QED BY <2>2, <3>1, <1>1 DEF CloseFinish
  <2> QED BY <1>7, <2>1, <2>2 DEF CloserStep
<1>8. CASE DeviceStep
  <2>1. CASE LinkLost BY <2>1, <1>1 DEF LinkLost
  <2>2. ASSUME NEW m \in net, Refuse(m) PROVE AnswerInv'
    <3>1. PICK k \in Challenges : net' = (net \ {m}) \cup {Reply(m, k, devNc)}
      BY <2>2 DEF Refuse
    <3>2. \A x \in net' : x \in net \/ x.kind # "answer"
      BY <3>1, ReplyFact DEF Challenges
    <3> QED BY <2>2, <3>2 DEF Refuse, AnswerInv
  <2>3. ASSUME NEW m \in net, \A x \in net' : x \in net \/ x.call = m.call,
               executed' = [executed EXCEPT ![m.call] = @ + 1],
               UNCHANGED <<pc, fut, outcome>>
        PROVE  AnswerInv'
    <3>1. m.call \in Calls /\ \A x \in net : x.call \in Calls BY FrameFact
    <3>2. \A c \in Calls : executed'[c] >= executed[c] /\ executed[c] \in Nat
      BY <2>3, <3>1 DEF TypeOK
    <3>3. executed'[m.call] >= 1
      BY <2>3, <3>1 DEF TypeOK
    <3>4. \A x \in net' : x.kind = "answer" => executed'[x.call] >= 1
      <4> SUFFICES ASSUME NEW x \in net', x.kind = "answer" PROVE executed'[x.call] >= 1
        OBVIOUS
      <4>1. CASE x.call = m.call BY <4>1, <3>3
      <4>2. CASE x \in net
        <5>1. executed[x.call] >= 1 /\ x.call \in Calls BY <4>2, <3>1 DEF AnswerInv
        <5>2. executed'[x.call] \in Nat BY <5>1, <2>3, <3>1 DEF TypeOK
        <5> QED BY <5>1, <5>2, <3>2
      <4> QED BY <4>1, <4>2, <2>3
    <3>5. \A c \in Calls : executed[c] >= 1 => executed'[c] >= 1
      BY <2>3, <3>1 DEF TypeOK
    <3> QED BY <2>3, <3>4, <3>5 DEF AnswerInv
  <2>4. ASSUME NEW m \in net, Execute(m) PROVE AnswerInv'
    <3>1. net' = net \ {m} \/ net' = (net \ {m}) \cup {Reply(m, "answer", 0)}
      BY <2>4 DEF Execute
    <3>2. \A x \in net' : x \in net \/ x.call = m.call
      BY <3>1, ReplyFact
    <3> QED BY <2>4, <3>2, <2>3 DEF Execute
  <2>5. ASSUME NEW m \in net, Stray(m) PROVE AnswerInv'
    <3>1. CASE UNCHANGED executed BY <2>5, <3>1, <1>1 DEF Stray
    <3>2. CASE executed' = [executed EXCEPT ![m.call] = @ + 1]
      BY <2>5, <3>2, <2>3 DEF Stray
    <3> QED BY <2>5, <3>1, <3>2 DEF Stray
  <2> QED BY <1>8, <2>1, <2>2, <2>4, <2>5 DEF DeviceStep
<1>9. CASE Terminating \/ UNCHANGED vars
  BY <1>9, <1>1 DEF Terminating, vars
<1> QED BY <1>4, <1>5, <1>6, <1>7, <1>8, <1>9 DEF Next

----------------------------------------------------------------------------
(* Each attempt sends at most one frame *)

\* Every step keeps a call to one frame for each attempt (the two attempts of
\* _async_call).
LEMMA AttemptStep == TypeOK /\ IdInv /\ AttemptInv /\ [Next]_vars => AttemptInv'
<1> SUFFICES ASSUME TypeOK, IdInv, AttemptInv, [Next]_vars PROVE AttemptInv'
  OBVIOUS
<1> USE DEF callVars, socketVars, idVars, lockVars, devVars
<1>0. \A c \in Calls : IsFiniteSet(SentBy(c)) /\ Cardinality(SentBy(c)) \in Nat
  <2> TAKE c \in Calls
  <2>1. SentBy(c) \subseteq net BY DEF SentBy, Requests
  <2> QED BY <2>1, FS_Subset, FS_CardinalityType DEF AttemptInv
\* Steps that send nothing: the same requests, a budget that does not shrink.
<1>1. ASSUME net' \subseteq net, Requests \subseteq net', UNCHANGED executed,
             \A c \in Calls : /\ pc'[c] \in {"idle", "retry", "closeRetry"} => attempt'[c] = 0
                             /\ Budget(c)' >= Budget(c)
      PROVE  AttemptInv'
  <2>1. IsFiniteSet(net') BY <1>1, FS_Subset DEF AttemptInv
  <2>2. \A c \in Calls : SentBy(c)' = SentBy(c)
    BY <1>1 DEF SentBy, Requests
  <2>3. \A c \in Calls : Budget(c) \in Nat /\ Budget(c)' \in Nat /\ executed[c] \in Nat
    <3>1. (\A c \in Calls : attempt[c] \in 0..1) /\ TypeOK'
      BY TypeStep DEF TypeOK
    <3> QED BY <3>1 DEF Budget, TypeOK
  <2>4. ASSUME NEW c \in Calls
        PROVE  executed'[c] + Cardinality(SentBy(c)') <= Budget(c)'
    <3>1. executed[c] + Cardinality(SentBy(c)) <= Budget(c) BY DEF AttemptInv
    <3>2. executed'[c] = executed[c] /\ Budget(c)' >= Budget(c) BY <1>1
    <3> QED BY <3>1, <3>2, <2>2, <2>3, <1>0
  <2> QED BY <1>1, <2>1, <2>4 DEF AttemptInv
<1>2. Requests \subseteq net BY DEF Requests
<1>3. ASSUME UNCHANGED <<pc, attempt>> PROVE
        \A c \in Calls : /\ pc'[c] \in {"idle", "retry", "closeRetry"} => attempt'[c] = 0
                        /\ Budget(c)' >= Budget(c)
  <2>1. \A c \in Calls : Budget(c)' = Budget(c) /\ Budget(c) \in Nat
    BY <1>3 DEF Budget, TypeOK
  <2> QED BY <1>3, <2>1 DEF AttemptInv
<1> DEFINE Used(p) == IF p \in {"waiting", "retry", "closeRetry"} THEN 1 ELSE 0
           Grows == \A d \in Calls : /\ pc'[d] \in {"idle", "retry", "closeRetry"} => attempt'[d] = 0
                                    /\ Budget(d)' >= Budget(d)
\* Moving the call c alone.
<1>4. ASSUME NEW c \in Calls, NEW p, NEW a \in {0, 1},
             pc' = [pc EXCEPT ![c] = p], attempt' = [attempt EXCEPT ![c] = a],
             p \in {"idle", "retry", "closeRetry"} => a = 0,
             p = "done" \/ (pc[c] # "done" /\ a + Used(p) >= attempt[c] + Used(pc[c]))
      PROVE  Grows
  <2> TAKE d \in Calls
  <2>1. CASE d = c BY <1>4, <2>1 DEF Budget, TypeOK
  <2>2. CASE d # c
    <3>1. pc'[d] = pc[d] /\ attempt'[d] = attempt[d] BY <1>4, <2>2 DEF TypeOK
    <3>2. Budget(d)' = Budget(d) /\ Budget(d) \in Nat BY <3>1 DEF Budget, TypeOK
    <3> QED BY <3>1, <3>2 DEF AttemptInv
  <2> QED BY <2>1, <2>2
<1>used. Used("done") = 0 /\ Used("connect") = 0 /\ Used("retry") = 1 /\ Used("waiting") = 1
      /\ Used("closeRetry") = 1 /\ Used("dial") = 0 /\ \A p : Used(p) \in {0, 1}
  OBVIOUS
<1> HIDE DEF Grows, Used
<1>5. ASSUME NEW c \in Calls, NEW o, Finish(c, o) PROVE Grows
  <2>1. pc' = [pc EXCEPT ![c] = "done"] /\ attempt' = [attempt EXCEPT ![c] = 0]
    BY <1>5 DEF Finish
  <2> QED BY <2>1, <1>4
<1>6. ASSUME NEW c \in Calls, pc[c] \in {"dial", "connect", "waiting"}, Unavailable(c) PROVE Grows
  <2>1. CASE ~RetryAllowed(c) BY <1>5, <1>6, <2>1 DEF Unavailable
  <2>2. CASE RetryAllowed(c)
    <3>1. attempt[c] = 0 /\ attempt' = [attempt EXCEPT ![c] = 0] /\ pc' = [pc EXCEPT ![c] = "retry"]
      BY <1>6, <2>2 DEF Unavailable, RetryAllowed, TypeOK
    <3>2. pc[c] # "done" /\ 0 + Used("retry") >= attempt[c] + Used(pc[c])
      BY <3>1, <1>6, <1>used
    <3> QED BY <3>1, <3>2, <1>4
  <2> QED BY <2>1, <2>2
<1>7. ASSUME NEW c \in Calls, NEW p \in PCs \ {"idle", "retry", "closeRetry"}, pc[c] # "done",
             pc' = [pc EXCEPT ![c] = p], UNCHANGED attempt,
             pc[c] \in {"waiting", "retry", "closeRetry"} => p = "waiting"
      PROVE  Grows
  <2>1. attempt' = [attempt EXCEPT ![c] = attempt[c]] /\ attempt[c] \in {0, 1}
    BY <1>7 DEF TypeOK
  <2>2. attempt[c] + Used(p) >= attempt[c] + Used(pc[c])
    BY <2>1, <1>7, <1>used DEF Used
  <2> QED BY <2>1, <2>2, <1>4, <1>7
<1>8. ASSUME net' \subseteq net, Requests \subseteq net', UNCHANGED executed, Grows
      PROVE  AttemptInv'
  BY <1>1, <1>8 DEF Grows
<1>9. ASSUME NEW c \in Calls, CallStep(c) PROVE AttemptInv'
  <2>1. CASE TakeAuthLock(c) \/ NeedConnection(c) \/ ShareConnection(c) \/ DialOk(c)
    BY <2>1, <1>2, <1>7, <1>8
       DEF TakeAuthLock, NeedConnection, ShareConnection, DialOk, PCs, Continuations
  <2>2. CASE BeginConnect(c)
    <3>1. PICK p \in {"closeDial", "dial"} : pc' = [pc EXCEPT ![c] = p]
      BY <2>2 DEF BeginConnect
    <3>2. Grows BY <2>2, <3>1, <1>7 DEF BeginConnect, PCs
    <3> QED BY <2>2, <3>2, <1>8, <1>2, TakeSocketFact DEF BeginConnect
  <2>3. CASE CloseDone(c)
    <3>1. CASE pc[c] = "closeDial"
      BY <2>3, <3>1, <1>2, <1>7, <1>8 DEF CloseDone, PCs
    <3>2. CASE pc[c] = "closeRetry"
      <4>1. attempt[c] = 0 BY <3>2 DEF AttemptInv
      <4>2. pc' = [pc EXCEPT ![c] = "connect"] /\ attempt' = [attempt EXCEPT ![c] = 1]
        BY <2>3, <3>2 DEF CloseDone
      <4>3. pc[c] # "done" /\ 1 + Used("connect") >= attempt[c] + Used(pc[c])
        BY <3>2, <4>1, <1>used
      <4>4. Grows BY <4>2, <4>3, <1>4
      <4> QED BY <2>3, <4>4, <1>2, <1>8 DEF CloseDone
    <3> QED BY <2>3, <3>1, <3>2 DEF CloseDone
  <2>4. CASE DialFails(c)
    BY <2>4, <1>6, <1>2, <1>8 DEF DialFails
  <2>5. CASE RetryClose(c)
    <3>1. pc[c] = "retry" /\ attempt[c] = 0 BY <2>5 DEF RetryClose, AttemptInv
    <3>2. CASE pc' = [pc EXCEPT ![c] = "closeRetry"] /\ UNCHANGED attempt
      <4>1. attempt' = [attempt EXCEPT ![c] = 0] BY <3>1, <3>2 DEF TypeOK
      <4>2. pc[c] # "done" /\ 0 + Used("closeRetry") >= attempt[c] + Used(pc[c])
        BY <3>1, <1>used
      <4>3. Grows BY <3>2, <4>1, <4>2, <1>4
      <4> QED BY <2>5, <4>3, <1>8, <1>2, TakeSocketFact DEF RetryClose
    <3>3. CASE pc' = [pc EXCEPT ![c] = "connect"] /\ attempt' = [attempt EXCEPT ![c] = 1]
      <4>1. pc[c] # "done" /\ 1 + Used("connect") >= attempt[c] + Used(pc[c])
        BY <3>1, <1>used
      <4>2. Grows BY <3>3, <4>1, <1>4
      <4> QED BY <2>5, <4>2, <1>8, <1>2, TakeSocketFact DEF RetryClose
    <3> QED BY <2>5, <3>2, <3>3 DEF RetryClose
  <2>6. CASE Send(c)
    <3>1. Frame(c) \notin net /\ Frame(c).kind = "request" /\ Frame(c).call = c
      BY DEF IdInv, Frame, FreshId, TypeOK
    <3>2. net' \subseteq net \cup {Frame(c)} /\ IsFiniteSet(net')
      <4>1. net' = net \/ net' = net \cup {Frame(c)} BY <2>6 DEF Send
      <4> QED BY <4>1, FS_AddElement DEF AttemptInv
    <3>3. SentBy(c)' = SentBy(c) \/ SentBy(c)' = SentBy(c) \cup {Frame(c)}
      BY <2>6, <3>1 DEF Send, SentBy, Requests
    <3>4. Cardinality(SentBy(c)') <= Cardinality(SentBy(c)) + 1
      BY <3>3, <1>0, FS_AddElement
    <3>5. Cardinality(SentBy(c)') \in Nat
      BY <3>3, <1>0, FS_AddElement, FS_CardinalityType
    <3>6. Budget(c)' = Budget(c) + 1 /\ Budget(c) \in Nat
      BY <2>6 DEF Send, Budget, TypeOK
    <3>7. executed'[c] + Cardinality(SentBy(c)') <= Budget(c)'
      <4>1. executed[c] + Cardinality(SentBy(c)) <= Budget(c) /\ executed[c] \in Nat
        BY DEF AttemptInv, TypeOK
      <4>2. executed'[c] = executed[c] BY <2>6 DEF Send
      <4> QED BY <4>1, <4>2, <3>4, <3>5, <3>6, <1>0
    <3>8. \A d \in Calls \ {c} :
             /\ pc'[d] = pc[d] /\ attempt'[d] = attempt[d] /\ executed'[d] = executed[d]
             /\ SentBy(d)' = SentBy(d)
      <4> SUFFICES ASSUME NEW d \in Calls \ {c}
                   PROVE  /\ pc'[d] = pc[d] /\ attempt'[d] = attempt[d]
                          /\ executed'[d] = executed[d] /\ SentBy(d)' = SentBy(d)
        OBVIOUS
      <4>1. pc'[d] = pc[d] /\ attempt'[d] = attempt[d] /\ executed'[d] = executed[d]
        BY <2>6 DEF Send, TypeOK
      <4>2. net \subseteq net' BY <2>6 DEF Send
      <4>3. SentBy(d)' = SentBy(d)
        BY <3>1, <3>2, <4>2 DEF SentBy, Requests
      <4> QED BY <4>1, <4>3
    <3>9. \A d \in Calls \ {c} : Budget(d)' = Budget(d)
      BY <3>8 DEF Budget
    <3>10. pc'[c] = "waiting" BY <2>6 DEF Send, TypeOK
    <3> QED BY <3>2, <3>7, <3>8, <3>9, <3>10 DEF AttemptInv
  <2>7. CASE SendFails(c) BY <2>7, <1>6, <1>2, <1>8 DEF SendFails
  <2>8. CASE ReturnAnswer(c) \/ AuthFails(c) \/ Timeout(c)
    BY <2>8, <1>5, <1>2, <1>8 DEF ReturnAnswer, AuthFails, Timeout
  <2>9. CASE Challenged(c)
    <3>1. net' = net /\ UNCHANGED executed BY <2>9 DEF Challenged
    <3>2. CASE Finish(c, "authError") BY <3>1, <3>2, <1>5, <1>2, <1>8
    <3>3. CASE attempt' = [attempt EXCEPT ![c] = 1] /\ pc' = [pc EXCEPT ![c] = "connect"]
      <4>1. pc[c] = "waiting" /\ attempt[c] = 0 BY <2>9 DEF Challenged, Woken
      <4>2. pc[c] # "done" /\ 1 + Used("connect") >= attempt[c] + Used(pc[c])
        BY <4>1, <1>used
      <4>3. Grows BY <3>3, <4>2, <1>4
      <4> QED BY <3>1, <4>3, <1>2, <1>8
    <3> QED BY <2>9, <3>2, <3>3 DEF Challenged
  <2>10. CASE Disconnected(c) BY <2>10, <1>6, <1>2, <1>8 DEF Disconnected, Woken
  <2> QED BY <1>9, <2>1, <2>2, <2>3, <2>4, <2>5, <2>6, <2>7, <2>8, <2>9, <2>10 DEF CallStep
<1>10. ASSUME NEW c \in Calls, Invoke(c) PROVE AttemptInv'
  <2>1. PICK p \in {"wantAuth", "connect"} : pc' = [pc EXCEPT ![c] = p]
    BY <1>10 DEF Invoke
  <2> QED BY <1>10, <2>1, <1>7, <1>2, <1>8 DEF Invoke, PCs, Continuations
<1>11. CASE ReaderStep
  <2>1. CASE ReaderStart BY <2>1, <1>2, <1>3, <1>1 DEF ReaderStart
  <2>2. CASE ReaderEnd BY <2>2, <1>2, <1>3, <1>1 DEF ReaderEnd
  <2>3. ASSUME NEW m \in net, Deliver(m) PROVE AttemptInv'
    <3>1. m \notin Requests BY <2>3 DEF Deliver, Requests, Replies, Challenges
    <3> QED BY <2>3, <3>1, <1>2, <1>3, <1>1 DEF Deliver
  <2> QED BY <1>11, <2>1, <2>2, <2>3 DEF ReaderStep
<1>12. CASE CloserStep
  <2>1. CASE CloseBegin BY <2>1, <1>2, <1>3, <1>1, TakeSocketFact DEF CloseBegin
  <2>2. CASE CloseFinish BY <2>2, <1>2, <1>3, <1>1 DEF CloseFinish
  <2> QED BY <1>12, <2>1, <2>2 DEF CloserStep
<1>13. CASE DeviceStep
  <2>1. CASE LinkLost BY <2>1, <1>2, <1>3, <1>1 DEF LinkLost
  \* The device takes the request m off the wire; an execution pays for it.
  <2>2. ASSUME NEW m \in Requests, NEW k \in Replies, NEW n,
               net' = net \ {m} \/ net' = (net \ {m}) \cup {Reply(m, k, n)},
               UNCHANGED executed \/ executed' = [executed EXCEPT ![m.call] = @ + 1],
               UNCHANGED <<pc, attempt>>
        PROVE  AttemptInv'
    <3>1. m \in net /\ m.call \in Calls /\ m.kind = "request"
      BY <1>2, FrameFact DEF Requests
    <3>2. IsFiniteSet(net')
      <4>1. IsFiniteSet(net \ {m}) BY FS_RemoveElement DEF AttemptInv
      <4> QED BY <2>2, <4>1, FS_AddElement
    <3>3. Requests' = Requests \ {m}
      <4>1. Reply(m, k, n).kind # "request"
        BY <3>1, ReplyFact DEF Replies, Challenges
      <4> QED BY <2>2, <4>1 DEF Requests
    <3>4. \A c \in Calls : SentBy(c)' = SentBy(c) \ {m}
      BY <3>3 DEF SentBy
    <3>5. \A c \in Calls : Budget(c)' = Budget(c)
      BY <2>2 DEF Budget
    <3>6. ASSUME NEW c \in Calls
          PROVE  executed'[c] + Cardinality(SentBy(c)') <= Budget(c)
      <4>1. /\ executed[c] + Cardinality(SentBy(c)) <= Budget(c)
            /\ executed[c] \in Nat /\ Budget(c) \in Nat
        BY DEF AttemptInv, TypeOK, Budget
      <4>2. CASE m.call = c
        <5>1. m \in SentBy(c) BY <4>2 DEF SentBy
        <5>2. Cardinality(SentBy(c)') = Cardinality(SentBy(c)) - 1
          BY <5>1, <3>4, <1>0, FS_RemoveElement
        <5>3. executed'[c] <= executed[c] + 1 /\ executed'[c] \in Nat
          BY <2>2, <4>2, <3>1 DEF TypeOK
        <5> QED BY <4>1, <5>2, <5>3, <1>0
      <4>3. CASE m.call # c
        <5>1. SentBy(c)' = SentBy(c) BY <4>3, <3>4 DEF SentBy
        <5>2. executed'[c] = executed[c] BY <2>2, <4>3, <3>1 DEF TypeOK
        <5> QED BY <4>1, <5>1, <5>2
      <4> QED BY <4>2, <4>3
    <3> QED BY <2>2, <3>2, <3>5, <3>6 DEF AttemptInv
  <2>3. ASSUME NEW m \in net, Refuse(m) PROVE AttemptInv'
    BY <2>3, <2>2 DEF Refuse, NextInLine, Replies
  <2>4. ASSUME NEW m \in net, Execute(m) PROVE AttemptInv'
    <3>1. net' = net \ {m} \/ net' = (net \ {m}) \cup {Reply(m, "answer", 0)}
      BY <2>4 DEF Execute
    <3> QED BY <2>4, <3>1, <2>2 DEF Execute, NextInLine, Replies
  <2>5. ASSUME NEW m \in net, Stray(m) PROVE AttemptInv'
    BY <2>5, <2>2 DEF Stray, Replies
  <2> QED BY <1>13, <2>1, <2>3, <2>4, <2>5 DEF DeviceStep
<1>14. CASE Terminating \/ UNCHANGED vars
  BY <1>14, <1>2, <1>3, <1>1 DEF Terminating, vars
<1> QED BY <1>9, <1>10, <1>11, <1>12, <1>13, <1>14 DEF Next

----------------------------------------------------------------------------
(* Nonce counts *)

\* Every step keeps the ids under way apart and the frames on connections that
\* were opened (next(self._ids), async_connect).
LEMMA FrameStep == TypeOK /\ IdInv /\ FrameInv /\ [Next]_vars => FrameInv'
<1> SUFFICES ASSUME TypeOK, IdInv, FrameInv, [Next]_vars PROVE FrameInv'
  OBVIOUS
<1> USE DEF callVars, socketVars, idVars, lockVars, devVars
<1>1. ASSUME net' \subseteq net, UNCHANGED conns, socket' \in {0, socket}
      PROVE  FrameInv'
  BY <1>1 DEF FrameInv
<1>2. TakeSocket /\ UNCHANGED conns => FrameInv'
  BY <1>1, TakeSocketFact
<1>3. ASSUME NEW m \in net, NEW k, NEW n, net' \subseteq (net \ {m}) \cup {Reply(m, k, n)},
             UNCHANGED <<conns, socket>>
      PROVE  FrameInv'
  <2>1. Reply(m, k, n).id = m.id /\ Reply(m, k, n).conn = m.conn
    BY DEF TypeOK, Frames, Reply
  <2> QED BY <1>3, <2>1 DEF FrameInv
<1>4. ASSUME NEW c \in Calls, CallStep(c) PROVE FrameInv'
  <2>1. CASE TakeAuthLock(c) \/ NeedConnection(c) \/ ShareConnection(c) \/ CloseDone(c)
             \/ DialFails(c) \/ SendFails(c)
    BY <2>1, <1>1
       DEF TakeAuthLock, NeedConnection, ShareConnection, CloseDone, DialFails, SendFails
  <2>2. CASE BeginConnect(c) \/ RetryClose(c)
    BY <2>2, <1>2 DEF BeginConnect, RetryClose
  <2>3. CASE ReturnAnswer(c) \/ Challenged(c) \/ AuthFails(c) \/ Disconnected(c) \/ Timeout(c)
    BY <2>3, <1>1 DEF ReturnAnswer, Challenged, AuthFails, Disconnected, Timeout
  <2>4. CASE DialOk(c)
    <3>1. \A m \in net : m.conn \in Nat BY FrameFact
    <3> QED BY <2>4, <3>1 DEF DialOk, FrameInv, TypeOK
  <2>5. CASE Send(c)
    <3>1. Frame(c).id = nextId /\ Frame(c).conn = socket
      BY DEF Frame, FreshId
    <3>2. \A m \in net' : m \in net \/ m = Frame(c)
      BY <2>5 DEF Send
    <3>3. \A m \in net : m.id # nextId
      BY FrameFact DEF IdInv, TypeOK
    <3>4. socket # 0 /\ UNCHANGED <<socket, conns>>
      BY <2>5 DEF Send, Live
    <3>5. 1 <= socket /\ socket <= conns
      BY <3>4 DEF FrameInv, TypeOK
    <3> QED BY <3>1, <3>2, <3>3, <3>4, <3>5 DEF FrameInv
  <2> QED BY <1>4, <2>1, <2>2, <2>3, <2>4, <2>5 DEF CallStep
<1>5. ASSUME NEW c \in Calls, Invoke(c) PROVE FrameInv'
  BY <1>5, <1>1 DEF Invoke
<1>6. CASE ReaderStep
  BY <1>6, <1>1 DEF ReaderStep, ReaderStart, ReaderEnd, Deliver, Requests
<1>7. CASE CloserStep
  BY <1>7, <1>1, <1>2 DEF CloserStep, CloseBegin, CloseFinish
<1>8. CASE DeviceStep
  <2>1. CASE LinkLost BY <2>1, <1>1 DEF LinkLost
  <2>2. ASSUME NEW m \in net, Refuse(m) PROVE FrameInv'
    BY <2>2, <1>3 DEF Refuse
  <2>3. ASSUME NEW m \in net, Execute(m) PROVE FrameInv'
    BY <2>3, <1>3 DEF Execute
  <2>4. ASSUME NEW m \in net, Stray(m) PROVE FrameInv'
    BY <2>4, <1>1 DEF Stray
  <2> QED BY <1>8, <2>1, <2>2, <2>3, <2>4 DEF DeviceStep
<1>9. CASE Terminating \/ UNCHANGED vars
  BY <1>9, <1>1 DEF Terminating, vars
<1> QED BY <1>4, <1>5, <1>6, <1>7, <1>8, <1>9 DEF Next

\* Every step keeps the calls in line (_auth_lock, lines 96-100).
LEMMA SerialStep == TypeOK /\ IdInv /\ SerialInv /\ [Next]_vars => SerialInv'
<1> SUFFICES ASSUME TypeOK, IdInv, SerialInv, [Next]_vars PROVE SerialInv'
  OBVIOUS
<1> USE CallsAssumption DEF callVars, socketVars, idVars, lockVars, devVars
\* No call enters: those that were inside are, or are out.
<1>1. ASSUME \A d \in Calls : pc'[d] = pc[d], UNCHANGED <<authLock, nextId>>,
             \A d \in Calls : fut'[d].kind # "none" => fut[d].kind # "none",
             DOMAIN pending' \subseteq DOMAIN pending,
             \A i \in DOMAIN pending' : pending'[i] = pending[i]
      PROVE  SerialInv'
  <2>1. \A i \in DOMAIN pending : pending[i] \in Calls BY DEF TypeOK
  <2> QED BY <1>1, <2>1 DEF SerialInv, Inside
<1>2. TakeSocket => \A d \in Calls : fut'[d].kind # "none" => fut[d].kind # "none"
  BY TakeSocketFact
\* Call c goes on to a place where it does not wait.
<1>3. ASSUME NEW c \in Calls, NEW p \in PCs, pc' = [pc EXCEPT ![c] = p], p # "waiting",
             fut'[c].kind = "none",
             \A d \in Calls \ {c} : fut'[d].kind # "none" => fut[d].kind # "none",
             DOMAIN pending' \subseteq DOMAIN pending,
             \A i \in DOMAIN pending' : pending'[i] = pending[i] /\ pending[i] # c,
             \/ p \in {"wantAuth", "done"} \/ ~HasPassword \/ authLock' = c
             \/ Inside(c) /\ authLock' = authLock,
             authLock' \in {authLock, ReleasedAuthLock(c)} \/ authLock = NoCall,
             nextId' = nextId \/ Inside(c)
      PROVE  SerialInv'
  <2>1. pc'[c] = p /\ \A d \in Calls \ {c} : pc'[d] = pc[d]
    BY <1>3 DEF TypeOK
  <2>2. \A i \in DOMAIN pending : pending[i] \in Calls BY DEF TypeOK
  <2>3. \A d \in Calls : fut'[d].kind # "none" => pc'[d] = "waiting"
    BY <1>3, <2>1 DEF SerialInv
  <2>4. \A i \in DOMAIN pending' : pc'[pending'[i]] = "waiting"
    BY <1>3, <2>1, <2>2 DEF SerialInv
  <2>5. ASSUME HasPassword, NEW d \in Calls, Inside(d)' PROVE authLock' = d
    <3>1. CASE d = c
      BY <1>3, <2>1, <2>5, <3>1 DEF SerialInv, Inside
    <3>2. CASE d # c
      <4>1. authLock = d BY <2>1, <2>5, <3>2 DEF SerialInv, Inside
      <4> QED BY <1>3, <3>2, <4>1 DEF ReleasedAuthLock
    <3> QED BY <3>1, <3>2
  <2>6. ASSUME HasPassword, NEW i \in DOMAIN pending' PROVE i + 1 = nextId'
    <3>1. i \in DOMAIN pending /\ pending[i] # c /\ i + 1 = nextId
      BY <1>3, <2>6 DEF SerialInv
    <3>2. authLock = pending[i] BY <2>2, <2>6, <3>1 DEF SerialInv, Inside
    <3>3. ~Inside(c) BY <2>6, <3>1, <3>2 DEF SerialInv
    <3> QED BY <1>3, <3>1, <3>3
  <2> QED BY <2>3, <2>4, <2>5, <2>6 DEF SerialInv
\* The same for one that did not wait before.
<1>4. ASSUME NEW c \in Calls, NEW p \in PCs, pc' = [pc EXCEPT ![c] = p],
             p # "waiting", pc[c] # "waiting", UNCHANGED pending,
             \A d \in Calls : fut'[d].kind # "none" => fut[d].kind # "none",
             \/ p \in {"wantAuth", "done"} \/ ~HasPassword \/ authLock' = c
             \/ Inside(c) /\ authLock' = authLock,
             authLock' \in {authLock, ReleasedAuthLock(c)} \/ authLock = NoCall,
             nextId' = nextId \/ Inside(c)
      PROVE  SerialInv'
  <2>1. fut'[c].kind = "none" /\ \A i \in DOMAIN pending : pending[i] # c
    BY <1>4 DEF SerialInv
  <2> QED BY <1>3, <1>4, <2>1
\* A call that was woken returns, tries again or goes on with the challenge.
<1>5. ASSUME NEW c \in Calls, NEW p \in PCs, pc' = [pc EXCEPT ![c] = p], p # "waiting",
             Woken(c), UNCHANGED nextId,
             \/ authLock' = authLock
             \/ authLock' = ReleasedAuthLock(c) /\ p = "done"
      PROVE  SerialInv'
  <2>1. Inside(c) BY <1>5 DEF Woken, Inside
  <2>2. /\ fut'[c].kind = "none" /\ \A d \in Calls \ {c} : fut'[d] = fut[d]
        /\ DOMAIN pending' = {i \in DOMAIN pending : pending[i] # c}
        /\ \A i \in DOMAIN pending' : pending'[i] = pending[i]
    BY <1>5, WokenFact
  <2>3. \A i \in DOMAIN pending' : i \in DOMAIN pending /\ pending[i] # c
    BY <2>2
  <2> QED BY <1>3, <1>5, <2>1, <2>2, <2>3
<1>6. ASSUME NEW c \in Calls, Unavailable(c)
      PROVE  \E p \in {"retry", "done"} :
               /\ pc' = [pc EXCEPT ![c] = p]
               /\ \/ authLock' = authLock
                  \/ authLock' = ReleasedAuthLock(c) /\ p = "done"
  BY <1>6 DEF Unavailable, Finish
<1>7. {"retry", "done", "connect", "wantAuth", "wantLock", "closeDial", "dial", "closeRetry"}
        \subseteq PCs
  BY DEF PCs, Continuations
<1>8. ASSUME NEW c \in Calls, CallStep(c) PROVE SerialInv'
  <2>1. CASE TakeAuthLock(c)
    BY <2>1, <1>4, <1>7 DEF TakeAuthLock, AuthLockFree
  <2>2. CASE NeedConnection(c) \/ ShareConnection(c) \/ CloseDone(c) \/ DialOk(c)
    <3>1. \E p \in {"wantLock", "connect", "dial"} : pc' = [pc EXCEPT ![c] = p]
      BY <2>2 DEF NeedConnection, ShareConnection, CloseDone, DialOk
    <3>2. Inside(c) /\ pc[c] # "waiting" /\ UNCHANGED <<pending, nextId, fut, authLock>>
      BY <2>2 DEF NeedConnection, ShareConnection, CloseDone, DialOk, Inside
    <3> QED BY <3>1, <3>2, <1>4, <1>7
  <2>3. CASE BeginConnect(c) \/ RetryClose(c)
    <3>1. \E p \in {"closeDial", "dial", "closeRetry", "connect"} : pc' = [pc EXCEPT ![c] = p]
      BY <2>3 DEF BeginConnect, RetryClose
    <3>2. /\ Inside(c) /\ pc[c] # "waiting" /\ UNCHANGED <<pending, nextId, authLock>>
          /\ \A d \in Calls : fut'[d].kind # "none" => fut[d].kind # "none"
      BY <2>3, <1>2 DEF BeginConnect, RetryClose, Inside
    <3> QED BY <3>1, <3>2, <1>4, <1>7
  <2>4. CASE DialFails(c) \/ SendFails(c)
    <3>1. /\ Inside(c) /\ pc[c] # "waiting" /\ UNCHANGED <<pending, fut>> /\ Unavailable(c)
      BY <2>4 DEF DialFails, SendFails, Inside
    <3> QED BY <3>1, <1>4, <1>6, <1>7
  <2>5. CASE Send(c)
    <3>1. /\ pc[c] = "connect" /\ pc' = [pc EXCEPT ![c] = "waiting"]
          /\ nextId' = nextId + 1 /\ UNCHANGED authLock
          /\ DOMAIN pending' = DOMAIN pending \cup {nextId} /\ pending'[nextId] = c
          /\ \A i \in DOMAIN pending : i # nextId => pending'[i] = pending[i]
          /\ \A d \in Calls \ {c} : fut'[d] = fut[d]
      BY <2>5 DEF Send, PendingWith, FreshId, TypeOK
    <3>2. pc'[c] = "waiting" /\ \A d \in Calls \ {c} : pc'[d] = pc[d]
      BY <3>1 DEF TypeOK
    <3>3. \A i \in DOMAIN pending : pending[i] \in Calls /\ pending[i] # c
      BY <3>1 DEF TypeOK, SerialInv
    <3>4. \A d \in Calls : fut'[d].kind # "none" => pc'[d] = "waiting"
      BY <3>1, <3>2 DEF SerialInv
    <3>5. \A i \in DOMAIN pending' : pc'[pending'[i]] = "waiting"
      BY <3>1, <3>2, <3>3 DEF SerialInv
    <3>6. ASSUME HasPassword
          PROVE  /\ \A d \in Calls : Inside(d)' => authLock' = d
                 /\ \A i \in DOMAIN pending' : i + 1 = nextId'
      <4>1. authLock = c BY <3>1, <3>6 DEF SerialInv, Inside
      <4>2. \A d \in Calls : Inside(d)' => authLock' = d
        BY <3>1, <3>2, <3>6, <4>1 DEF SerialInv, Inside
      <4>3. DOMAIN pending = {}
        BY <3>3, <3>6, <4>1 DEF SerialInv, Inside
      <4> QED BY <3>1, <4>2, <4>3
    <3> QED BY <3>4, <3>5, <3>6 DEF SerialInv
  <2>6. CASE ReturnAnswer(c) \/ Challenged(c) \/ AuthFails(c) \/ Disconnected(c) \/ Timeout(c)
    <3>1. Woken(c) /\ UNCHANGED nextId
      BY <2>6 DEF ReturnAnswer, Challenged, AuthFails, Disconnected, Timeout
    <3>2. CASE Challenged(c)
      <4>1. \/ pc' = [pc EXCEPT ![c] = "connect"] /\ authLock' = authLock
            \/ pc' = [pc EXCEPT ![c] = "done"] /\ authLock' = ReleasedAuthLock(c)
        BY <3>2 DEF Challenged, Finish
      <4> QED BY <3>1, <4>1, <1>5, <1>7
    <3>3. CASE Disconnected(c)
      BY <3>1, <3>3, <1>5, <1>6, <1>7 DEF Disconnected
    <3>4. CASE ReturnAnswer(c) \/ AuthFails(c) \/ Timeout(c)
      <4>1. pc' = [pc EXCEPT ![c] = "done"] /\ authLock' = ReleasedAuthLock(c)
        BY <3>4 DEF ReturnAnswer, AuthFails, Timeout, Finish
      <4> QED BY <3>1, <4>1, <1>5, <1>7
    <3> QED BY <2>6, <3>2, <3>3, <3>4
  <2> QED BY <1>8, <2>1, <2>2, <2>3, <2>4, <2>5, <2>6 DEF CallStep
<1>9. ASSUME NEW c \in Calls, Invoke(c) PROVE SerialInv'
  <2>1. \E p \in {"wantAuth", "connect"} :
          pc' = [pc EXCEPT ![c] = p] /\ (p = "wantAuth" \/ ~HasPassword)
    BY <1>9 DEF Invoke
  <2>2. pc[c] # "waiting" /\ UNCHANGED <<pending, nextId, fut, authLock>>
    BY <1>9 DEF Invoke
  <2> QED BY <2>1, <2>2, <1>4, <1>7
<1>10. CASE ReaderStep
  <2>1. CASE ReaderStart BY <2>1, <1>1 DEF ReaderStart
  <2>2. CASE ReaderEnd
    <3>1. \A d \in Calls : fut'[d].kind # "none" => fut[d].kind # "none"
      BY <2>2, FailPendingFact DEF ReaderEnd, ReaderFinally
    <3> QED BY <2>2, <3>1, <1>1 DEF ReaderEnd
  <2>3. ASSUME NEW m \in net, Deliver(m) PROVE SerialInv'
    <3>1. \A d \in Calls : fut'[d].kind # "none" => fut[d].kind # "none"
      BY <2>3 DEF Deliver
    <3> QED BY <2>3, <3>1, <1>1 DEF Deliver
  <2> QED BY <1>10, <2>1, <2>2, <2>3 DEF ReaderStep
<1>11. CASE CloserStep
  <2>1. CASE CloseBegin BY <2>1, <1>1, <1>2 DEF CloseBegin
  <2>2. CASE CloseFinish
    <3>1. \A d \in Calls : fut'[d].kind # "none" => fut[d].kind # "none"
      BY <2>2, FailPendingFact DEF CloseFinish
    <3> QED BY <2>2, <3>1, <1>1 DEF CloseFinish
  <2> QED BY <1>11, <2>1, <2>2 DEF CloserStep
<1>12. CASE DeviceStep
  BY <1>12, <1>1 DEF DeviceStep, LinkLost, Refuse, Execute, Stray
<1>13. CASE Terminating \/ UNCHANGED vars
  BY <1>13, <1>1 DEF Terminating, vars
<1> QED BY <1>8, <1>9, <1>10, <1>11, <1>12, <1>13 DEF Next

\* A step of a mutating call towards its second attempt is the challenge
\* (lines 112-131): it never closes the socket for a retry.
LEMMA SecondAttempt ==
    ASSUME TypeOK, MutatingInv, NEW c \in Calls, CallStep(c) \/ Invoke(c),
           NEW d \in Calls \ ReadOnly, attempt'[d] = 1, attempt[d] # 1
    PROVE  d = c /\ Challenged(c) /\ Adoptable(c)
<1> USE DEF callVars, socketVars, idVars, lockVars, devVars
<1>1. d \in Calls /\ pc[d] \notin {"retry", "closeRetry"}
  BY DEF MutatingInv
<1>2. CASE Challenged(c)
  <2>1. Adoptable(c) \/ attempt' = [attempt EXCEPT ![c] = 0]
    BY <1>2 DEF Challenged, Finish
  <2>2. attempt' = [attempt EXCEPT ![c] = 0] \/ attempt' = [attempt EXCEPT ![c] = 1]
    BY <1>2 DEF Challenged, Finish
  <2> QED BY <1>1, <1>2, <2>1, <2>2 DEF TypeOK
<1>3. CASE CloseDone(c) \/ RetryClose(c)
  BY <1>1, <1>3 DEF CloseDone, RetryClose, TypeOK
<1>4. CASE DialFails(c) \/ SendFails(c) \/ Disconnected(c)
  <2>1. UNCHANGED attempt \/ attempt' = [attempt EXCEPT ![c] = 0]
    BY <1>4 DEF DialFails, SendFails, Disconnected, Unavailable, Finish
  <2> QED BY <1>1, <2>1 DEF TypeOK
<1>5. CASE ReturnAnswer(c) \/ AuthFails(c) \/ Timeout(c)
  <2>1. attempt' = [attempt EXCEPT ![c] = 0]
    BY <1>5 DEF ReturnAnswer, AuthFails, Timeout, Finish
  <2> QED BY <1>1, <2>1 DEF TypeOK
<1>6. CASE TakeAuthLock(c) \/ NeedConnection(c) \/ ShareConnection(c) \/ BeginConnect(c)
           \/ DialOk(c) \/ Send(c) \/ Invoke(c)
  BY <1>6 DEF TakeAuthLock, NeedConnection, ShareConnection, BeginConnect, DialOk, Send, Invoke
<1> QED BY <1>2, <1>3, <1>4, <1>5, <1>6 DEF CallStep

\* What a call does to the nonce count (_build_auth and _set_challenge).
LEMMA CountStep ==
    ASSUME TypeOK, NEW c \in Calls, CallStep(c) \/ Invoke(c)
    PROVE  \/ UNCHANGED nonceCount
           \/ (Send(c) \/ SendFails(c)) /\ nonceCount > 0 /\ nonceCount' = nonceCount + 1
           \/ Challenged(c) /\ Adoptable(c) /\ nonceCount' = fut[c].nc
<1> USE DEF callVars, socketVars, idVars, lockVars, devVars
<1>1. CASE Send(c) \/ SendFails(c)
  BY <1>1 DEF Send, SendFails, NonceCountNext, TypeOK
<1>2. CASE Challenged(c)
  BY <1>2 DEF Challenged
<1>3. CASE TakeAuthLock(c) \/ NeedConnection(c) \/ ShareConnection(c) \/ BeginConnect(c)
           \/ CloseDone(c) \/ DialOk(c) \/ DialFails(c) \/ RetryClose(c) \/ Invoke(c)
  BY <1>3 DEF TakeAuthLock, NeedConnection, ShareConnection, BeginConnect, CloseDone, DialOk,
              DialFails, RetryClose, Invoke
<1>4. CASE ReturnAnswer(c) \/ AuthFails(c) \/ Disconnected(c) \/ Timeout(c)
  BY <1>4 DEF ReturnAnswer, AuthFails, Disconnected, Timeout
<1> QED BY <1>1, <1>2, <1>3, <1>4 DEF CallStep

\* What a call does to the network and to the futures: it sends or it loses.
LEMMA CallEffect ==
    ASSUME TypeOK, NEW c \in Calls, CallStep(c) \/ Invoke(c)
    PROVE  /\ net' \subseteq net \/ (Send(c) /\ net' \subseteq net \cup {Frame(c)})
           /\ \A d \in Calls : fut'[d] = fut[d] \/ fut'[d].kind \notin Challenges
           /\ UNCHANGED <<devNc, conns>> \/ DialOk(c)
           /\ UNCHANGED executed
<1> USE DEF callVars, socketVars, idVars, lockVars, devVars
<1>1. CASE Send(c)
  BY <1>1 DEF Send, Plain, Challenges, TypeOK
<1>2. CASE TakeAuthLock(c) \/ NeedConnection(c) \/ ShareConnection(c) \/ CloseDone(c)
           \/ DialOk(c) \/ DialFails(c) \/ SendFails(c) \/ Invoke(c)
  BY <1>2 DEF TakeAuthLock, NeedConnection, ShareConnection, CloseDone, DialOk, DialFails,
              SendFails, Invoke
<1>3. CASE BeginConnect(c) \/ RetryClose(c)
  BY <1>3, TakeSocketFact DEF BeginConnect, RetryClose, Challenges
<1>4. CASE ReturnAnswer(c) \/ Challenged(c) \/ AuthFails(c) \/ Disconnected(c) \/ Timeout(c)
  <2>1. Woken(c) /\ UNCHANGED <<net, devNc, conns, executed>>
    BY <1>4 DEF ReturnAnswer, Challenged, AuthFails, Disconnected, Timeout
  <2> QED BY <2>1, WokenFact DEF Challenges
<1> QED BY <1>1, <1>2, <1>3, <1>4 DEF CallStep

\* Every step keeps what a challenge brings (_set_challenge, the device).
LEMMA ChallengeStep ==
    TypeOK /\ FrameInv /\ MutatingInv /\ ChallengeInv /\ [Next]_vars => ChallengeInv'
<1> SUFFICES ASSUME TypeOK, FrameInv, MutatingInv, ChallengeInv, [Next]_vars
             PROVE  ChallengeInv'
  OBVIOUS
<1> USE DEF callVars, socketVars, idVars, lockVars, devVars
<1>1. /\ devNc \in Nat /\ nonceCount \in Nat /\ conns \in Nat
      /\ \A c \in Calls : fut[c].nc \in Nat
  BY DEF TypeOK, Futures
<1>2. ASSUME \A m \in net' : m.kind \in Challenges => m \in net,
             \A c \in Calls : fut'[c] = fut[c] \/ fut'[c].kind \notin Challenges,
             UNCHANGED <<nonceCount, conns, attempt>>, devNc' > 0
      PROVE  ChallengeInv'
  BY <1>2 DEF ChallengeInv
<1>3. ASSUME NEW c \in Calls, CallStep(c) \/ Invoke(c) PROVE ChallengeInv'
  <2>1. devNc' > 0 /\ conns' \in Nat /\ conns' >= conns
    <3>1. CASE DialOk(c) BY <1>1, <3>1 DEF DialOk
    <3>2. CASE ~DialOk(c) BY <1>1, <1>3, <3>2, CallEffect DEF ChallengeInv
    <3> QED BY <3>1, <3>2
  <2>2. \A m \in net' : m.kind \in Challenges => m.nc > 0 /\ AuthRequired
    <3>1. Frame(c).kind \notin Challenges BY DEF Frame, Challenges
    <3>2. \A m \in net' : m \in net \/ m = Frame(c) BY <1>3, CallEffect
    <3> QED BY <3>1, <3>2 DEF ChallengeInv
  <2>3. \A d \in Calls : fut'[d].kind \in Challenges =>
          fut'[d].nc > 0 /\ AuthRequired /\ conns' > 0
    <3>1. \A d \in Calls : fut'[d] = fut[d] \/ fut'[d].kind \notin Challenges
      BY <1>3, CallEffect
    <3> QED BY <1>1, <2>1, <3>1 DEF ChallengeInv
  <2>4. Challenged(c) /\ Adoptable(c) =>
          /\ fut[c].nc > 0 /\ AuthRequired /\ conns > 0 /\ nonceCount' = fut[c].nc
    BY DEF Challenged, ChallengeInv, Adoptable
  <2>5. nonceCount' > 0 => AuthRequired /\ conns' > 0
    BY <1>1, <1>3, <2>1, <2>4, CountStep DEF ChallengeInv
  <2>6. nonceCount > 0 => nonceCount' > 0
    BY <1>1, <1>3, <2>4, CountStep
  <2>7. ASSUME NEW d \in Calls \ ReadOnly, attempt'[d] = 1 PROVE nonceCount' > 0
    <3>1. CASE attempt[d] = 1 BY <2>6, <3>1 DEF ChallengeInv
    <3>2. CASE attempt[d] # 1
      <4>1. Challenged(c) /\ Adoptable(c) BY <1>3, <2>7, <3>2, SecondAttempt
      <4> QED BY <2>4, <4>1
    <3> QED BY <3>1, <3>2
  <2> QED BY <2>1, <2>2, <2>3, <2>5, <2>7 DEF ChallengeInv
<1>4. CASE ReaderStep
  <2>1. CASE ReaderStart BY <2>1, <1>2 DEF ReaderStart, ChallengeInv
  <2>2. CASE ReaderEnd
    <3>1. \A c \in Calls : fut'[c] = fut[c] \/ fut'[c].kind \notin Challenges
      BY <2>2, FailPendingFact DEF ReaderEnd, ReaderFinally, Challenges
    <3> QED BY <2>2, <3>1, <1>2 DEF ReaderEnd, Requests, ChallengeInv
  <2>3. ASSUME NEW m \in net, Deliver(m) PROVE ChallengeInv'
    <3>1. net' \subseteq net /\ UNCHANGED <<nonceCount, conns, attempt, devNc>>
      BY <2>3 DEF Deliver
    <3>2. conns > 0 BY <1>1, FrameFact DEF FrameInv
    <3>3. ASSUME NEW c \in Calls, fut'[c].kind \in Challenges
          PROVE  fut'[c].nc > 0 /\ AuthRequired
      <4>1. \/ fut'[c] = fut[c]
            \/ fut'[c] = [kind |-> m.kind, nc |-> m.nc, from |-> m.call]
        BY <2>3 DEF Deliver
      <4> QED BY <3>3, <4>1 DEF ChallengeInv
    <3> QED BY <3>1, <3>2, <3>3 DEF ChallengeInv
  <2> QED BY <1>4, <2>1, <2>2, <2>3 DEF ReaderStep
<1>5. CASE CloserStep
  <2>1. CASE CloseBegin
    BY <2>1, <1>2, TakeSocketFact DEF CloseBegin, ChallengeInv, Challenges
  <2>2. CASE CloseFinish
    <3>1. \A c \in Calls : fut'[c] = fut[c] \/ fut'[c].kind \notin Challenges
      BY <2>2, FailPendingFact DEF CloseFinish, Challenges
    <3> QED BY <2>2, <3>1, <1>2 DEF CloseFinish, ChallengeInv
  <2> QED BY <1>5, <2>1, <2>2 DEF CloserStep
<1>6. CASE DeviceStep
  <2>1. CASE LinkLost BY <2>1, <1>2 DEF LinkLost, ChallengeInv
  <2>2. ASSUME NEW m \in net, Refuse(m) PROVE ChallengeInv'
    <3>1. PICK k \in Challenges : net' = (net \ {m}) \cup {Reply(m, k, devNc)}
      BY <2>2 DEF Refuse
    <3>2. Reply(m, k, devNc).nc = devNc BY DEF TypeOK, Frames, Reply
    <3>3. AuthRequired BY <2>2 DEF Refuse, Authorized
    <3> QED BY <2>2, <3>1, <3>2, <3>3 DEF Refuse, ChallengeInv
  <2>3. ASSUME NEW m \in net, Execute(m) PROVE ChallengeInv'
    <3>1. Reply(m, "answer", 0).kind \notin Challenges BY ReplyFact DEF Challenges
    <3>2. devNc' > 0 BY <1>1, <2>3 DEF Execute, ChallengeInv
    <3> QED BY <2>3, <3>1, <3>2, <1>2 DEF Execute
  <2>4. ASSUME NEW m \in net, Stray(m) PROVE ChallengeInv'
    BY <2>4, <1>2 DEF Stray, ChallengeInv
  <2> QED BY <1>6, <2>1, <2>2, <2>3, <2>4 DEF DeviceStep
<1>7. CASE Terminating \/ UNCHANGED vars
  BY <1>7, <1>2 DEF Terminating, vars, ChallengeInv
<1> QED BY <1>3, <1>4, <1>5, <1>6, <1>7 DEF Next

\* Only the second challenge ends a call with the outcome authFailed (line 129).
LEMMA FailedFact ==
    ASSUME TypeOK, [Next]_vars, NEW d \in Calls,
           outcome'[d] = "authFailed", outcome[d] # "authFailed"
    PROVE  AuthFails(d)
<1> USE DEF callVars, socketVars, idVars, lockVars, devVars
<1>1. ASSUME NEW c \in Calls, NEW o, Finish(c, o), o # "authFailed" PROVE FALSE
  BY <1>1 DEF Finish, TypeOK
<1>2. ASSUME NEW c \in Calls, CallStep(c) \/ Invoke(c) PROVE AuthFails(d)
  <2>1. CASE AuthFails(c)
    BY <2>1 DEF AuthFails, Finish, TypeOK
  <2>2. CASE DialFails(c) \/ SendFails(c) \/ Disconnected(c)
    BY <2>2, <1>1 DEF DialFails, SendFails, Disconnected, Unavailable
  <2>3. CASE ReturnAnswer(c) \/ Challenged(c) \/ Timeout(c)
    BY <2>3, <1>1 DEF ReturnAnswer, Challenged, Timeout
  <2>4. CASE TakeAuthLock(c) \/ NeedConnection(c) \/ ShareConnection(c) \/ BeginConnect(c)
             \/ CloseDone(c) \/ DialOk(c) \/ RetryClose(c) \/ Send(c) \/ Invoke(c)
    BY <2>4 DEF TakeAuthLock, NeedConnection, ShareConnection, BeginConnect, CloseDone, DialOk,
                RetryClose, Send, Invoke
  <2> QED BY <1>2, <2>1, <2>2, <2>3, <2>4 DEF CallStep
<1>3. CASE ReaderStep \/ CloserStep \/ DeviceStep
  BY <1>3 DEF ReaderStep, ReaderStart, ReaderEnd, Deliver, CloserStep, CloseBegin, CloseFinish,
              DeviceStep, LinkLost, Refuse, Execute, Stray
<1>4. CASE Terminating \/ UNCHANGED vars
  BY <1>4 DEF Terminating, vars
<1> QED BY <1>2, <1>3, <1>4 DEF Next

\* The first in line of the counted requests has the count the device expects.
LEMMA FirstInLine ==
    ASSUME TypeOK, FrameInv, InStep, devNc > 0,
           NEW m \in Requests, m.nc > 0, NextInLine(m),
           \A n \in net : n.conn = m.conn
    PROVE  /\ m.nc = devNc /\ devNc < nonceCount
           /\ \A n \in Requests \ {m} : n.nc > 0 => devNc < n.nc
<1>1. \A n \in Requests : n \in net /\ n.nc \in Nat /\ n.id \in Nat
  BY FrameFact DEF Requests
<1>2. devNc \in Nat /\ nonceCount \in Nat BY DEF TypeOK
<1>3. devNc <= m.nc /\ m.nc < nonceCount BY DEF InStep
<1>4. devNc \in devNc..nonceCount /\ devNc # nonceCount BY <1>1, <1>2, <1>3
<1>5. PICK n \in Requests : n.nc = devNc BY <1>4 DEF InStep
<1>6. ASSUME NEW k \in Requests \ {m}, k.nc > 0 PROVE m.nc < k.nc
  <2>1. m.id <= k.id /\ m.id # k.id BY <1>1, <1>6 DEF NextInLine, FrameInv
  <2>2. m.id < k.id BY <1>1, <2>1
  <2> QED BY <1>6, <2>2 DEF InStep
<1>7. n = m
  <2> SUFFICES ASSUME n # m PROVE FALSE OBVIOUS
  <2>1. m.nc < n.nc BY <1>5, <1>6
  <2> QED BY <1>1, <1>2, <1>3, <1>5, <2>1
<1> QED BY <1>1, <1>2, <1>3, <1>5, <1>6, <1>7

\* Every step keeps the nonce counts of the first connection in step, and no
\* mutating call is refused twice on it (_auth_lock, _build_auth, _set_challenge).
LEMMA NonceStep ==
    /\ TypeOK /\ IdInv /\ SocketInv /\ MutatingInv
    /\ FrameInv /\ SerialInv /\ ChallengeInv /\ NonceInv /\ [Next]_vars
    => NonceInv'
<1> SUFFICES ASSUME TypeOK, IdInv, SocketInv, MutatingInv, FrameInv, SerialInv, ChallengeInv,
                    NonceInv, [Next]_vars
             PROVE  NonceInv'
  OBVIOUS
<1> USE DEF callVars, socketVars, idVars, lockVars, devVars
<1>1. /\ devNc \in Nat /\ nonceCount \in Nat /\ conns \in Nat /\ nextId \in Nat
      /\ \A m \in net : m.id \in Nat /\ m.nc \in Nat /\ m.conn \in Nat
  BY FrameFact DEF TypeOK
<1>2. conns' \in Nat /\ conns' >= conns
  <2>1. conns' = conns \/ conns' = conns + 1
    <3>1. ASSUME NEW c \in Calls, CallStep(c) \/ Invoke(c)
          PROVE  conns' = conns \/ conns' = conns + 1
      BY <3>1, CallEffect DEF DialOk
    <3>2. CASE ReaderStep \/ CloserStep \/ DeviceStep
      BY <3>2 DEF ReaderStep, ReaderStart, ReaderEnd, Deliver, CloserStep, CloseBegin,
                  CloseFinish, DeviceStep, LinkLost, Refuse, Execute, Stray
    <3>3. CASE Terminating \/ UNCHANGED vars BY <3>3 DEF Terminating, vars
    <3> QED BY <3>1, <3>2, <3>3 DEF Next
  <2> QED BY <1>1, <2>1
<1>3. NonceKeptInStep'
  <2> SUFFICES ASSUME HasPassword, PasswordRight, NEW d \in Calls \ ReadOnly,
                      outcome'[d] = "authFailed"
               PROVE  conns' > 1
    BY DEF NonceKeptInStep
  <2>1. CASE outcome[d] = "authFailed"
    BY <1>1, <1>2, <2>1 DEF NonceInv, NonceKeptInStep
  <2>2. CASE outcome[d] # "authFailed"
    <3>1. fut[d].kind \in Challenges /\ attempt[d] = 1 BY <2>2, FailedFact DEF AuthFails
    <3>2. ~(conns <= 1) BY <3>1 DEF NonceInv, NotAgain
    <3> QED BY <1>1, <1>2, <3>2
  <2> QED BY <2>1, <2>2
<1> SUFFICES ASSUME HasPassword, PasswordRight, conns' <= 1
             PROVE  NotAgain' /\ (link' = "open" => InStep' /\ LatestWord')
  BY <1>3 DEF NonceInv
<1>4. conns <= 1 /\ NotAgain /\ (link = "open" => InStep /\ LatestWord)
  <2>1. conns <= 1 BY <1>1, <1>2
  <2> QED BY <2>1 DEF NonceInv
\* On the open connection every frame is on that connection.
<1>5. ASSUME link = "open" PROVE \A m \in net : m.conn = socket
  <2>1. socket # 0 BY <1>5 DEF SocketInv
  <2>2. socket = conns BY <2>1 DEF FrameInv
  <2> QED BY <1>1, <1>4, <2>1, <2>2 DEF FrameInv
\* Steps that neither send, challenge, execute nor take a challenge in.
<1>6. ASSUME net' \subseteq net, DOMAIN pending' \subseteq DOMAIN pending,
             \A i \in DOMAIN pending' : pending'[i] = pending[i],
             \A d \in Calls : fut'[d] = fut[d] \/ fut'[d].kind \notin Challenges,
             \A d \in Calls \ ReadOnly : attempt'[d] = 1 => attempt[d] = 1
      PROVE  NotAgain'
  BY <1>4, <1>6 DEF NotAgain
<1>7. ASSUME net' \subseteq net, DOMAIN pending' \subseteq DOMAIN pending,
             \A d \in Calls : fut'[d] = fut[d] \/ fut'[d].kind \notin Challenges,
             link' = "open" => link = "open" /\ Requests' = Requests /\
                 UNCHANGED <<nonceCount, devNc>>
      PROVE  link' = "open" => InStep' /\ LatestWord'
  <2> SUFFICES ASSUME link' = "open" PROVE InStep' /\ LatestWord'
    OBVIOUS
  <2>1. link = "open" /\ Requests' = Requests /\ UNCHANGED <<nonceCount, devNc>> BY <1>7
  <2>2. InStep' BY <1>4, <2>1 DEF InStep
  <2>3. LatestWord' BY <1>4, <1>7, <2>1 DEF LatestWord
  <2> QED BY <2>2, <2>3
<1> DEFINE Goal == NotAgain' /\ (link' = "open" => InStep' /\ LatestWord')
\* Who waits has the authentication lock: nobody else sends.
<1>8. ASSUME NEW c \in Calls, pc[c] = "connect"
      PROVE  DOMAIN pending = {} /\ \A d \in Calls : fut[d].kind = "none"
  <2>1. authLock = c BY <1>8 DEF SerialInv, Inside
  <2>2. \A d \in Calls : pc[d] = "waiting" => FALSE
    BY <1>8, <2>1 DEF SerialInv, Inside
  <2>3. \A i \in DOMAIN pending : pending[i] \in Calls BY DEF TypeOK
  <2> QED BY <2>2, <2>3 DEF SerialInv
<1>9. ASSUME NEW c \in Calls, Send(c) PROVE Goal
  <2>1. /\ pc[c] = "connect" /\ UNCHANGED <<attempt, link, devNc>>
        /\ DOMAIN pending' = DOMAIN pending \cup {nextId} /\ pending'[nextId] = c
        /\ nonceCount' = NonceCountNext
        /\ net' = IF link = "open" THEN net \cup {Frame(c)} ELSE net
    BY <1>9 DEF Send, PendingWith, FreshId
  <2>2. \A d \in Calls : fut'[d].kind \in {"none", "wait"}
    BY <1>8, <1>9, <2>1 DEF Send, Plain, TypeOK
  <2>3. DOMAIN pending' = {nextId} BY <1>8, <2>1
  <2>4. /\ Frame(c).kind = "request" /\ Frame(c).id = nextId /\ Frame(c).nc = nonceCount
    BY DEF Frame, FreshId
  <2>5. \A m \in net : m.id < nextId BY DEF IdInv
  <2>6. \A m \in net' : m.id \in DOMAIN pending' => m = Frame(c)
    BY <1>1, <2>1, <2>3, <2>5
  <2>7. NotAgain'
    <3> SUFFICES ASSUME NEW d \in Calls \ ReadOnly, attempt'[d] = 1
                 PROVE  /\ fut'[d].kind \notin Challenges
                        /\ \A m \in net' : m.id \in DOMAIN pending' /\ pending'[m.id] = d =>
                              m.kind \notin Challenges /\ (m.kind = "request" => m.nc > 0)
      BY DEF NotAgain
    <3>1. nonceCount > 0 BY <2>1 DEF ChallengeInv
    <3>2. fut'[d].kind \notin Challenges BY <2>2 DEF Challenges
    <3> QED BY <2>4, <2>6, <3>1, <3>2 DEF Challenges
  <2>8. ASSUME link' = "open" PROVE InStep' /\ LatestWord'
    <3>1. InStep /\ net' = net \cup {Frame(c)} BY <1>4, <2>1, <2>8
    <3>2. Requests' = Requests \cup {Frame(c)} BY <2>4, <3>1 DEF Requests
    <3>3. LatestWord'
      BY <2>2, <2>4, <2>6 DEF LatestWord, Challenges
    <3>4. \A m \in Requests : m.id \in Nat /\ m.nc \in Nat /\ m.id < nextId
      BY <1>1, <2>5 DEF Requests
    <3>5. CASE nonceCount = 0
      <4>1. nonceCount' = 0 BY <2>1, <3>5 DEF NonceCountNext
      <4>2. \A m \in Requests' : ~(m.nc > 0)
        BY <2>4, <3>1, <3>2, <3>4, <3>5 DEF InStep
      <4>3. devNc' > 0 /\ devNc' \in Nat BY <1>1, <2>1 DEF ChallengeInv
      <4>4. \A k \in devNc'..nonceCount' : FALSE BY <4>1, <4>3
      <4>5. InStep' BY <4>1, <4>2, <4>4 DEF InStep
      <4> QED BY <3>3, <4>5
    <3>6. CASE nonceCount > 0
      <4>1. nonceCount' = nonceCount + 1 BY <2>1, <3>6, <1>1 DEF NonceCountNext
      <4>2. devNc <= nonceCount BY <3>1, <3>6 DEF InStep
      <4>3. \A m \in Requests : m.nc > 0 => devNc <= m.nc /\ m.nc < nonceCount
        BY <3>1 DEF InStep
      <4>4. \A m \in Requests' : m.nc > 0 => devNc <= m.nc /\ m.nc < nonceCount'
        BY <1>1, <2>4, <3>2, <3>4, <4>1, <4>2, <4>3
      <4>5. \A m, n \in Requests' : m.nc > 0 /\ n.nc > 0 /\ m.id < n.id => m.nc < n.nc
        <5> SUFFICES ASSUME NEW m \in Requests', NEW n \in Requests',
                            m.nc > 0, n.nc > 0, m.id < n.id
                     PROVE  m.nc < n.nc
          OBVIOUS
        <5>1. CASE m \in Requests /\ n \in Requests BY <3>1, <5>1 DEF InStep
        <5>2. CASE m \in Requests /\ n = Frame(c) BY <2>4, <4>3, <5>2
        <5>3. CASE m = Frame(c)
          <6>1. n.id <= nextId BY <1>1, <2>4, <3>2, <3>4
          <6> QED BY <1>1, <2>4, <3>2, <3>4, <5>3, <6>1
        <5> QED BY <3>2, <5>1, <5>2, <5>3
      <4>6. \A k \in devNc..nonceCount' : k # nonceCount' => \E m \in Requests' : m.nc = k
        <5> SUFFICES ASSUME NEW k \in devNc..nonceCount', k # nonceCount'
                     PROVE  \E m \in Requests' : m.nc = k
          OBVIOUS
        <5>1. CASE k = nonceCount BY <2>4, <3>2, <5>1
        <5>2. CASE k # nonceCount
          <6>1. k \in devNc..nonceCount BY <1>1, <4>1, <5>2
          <6> QED BY <3>1, <3>2, <5>2, <6>1 DEF InStep
        <5> QED BY <5>1, <5>2
      <4>7. devNc <= nonceCount' BY <1>1, <4>1, <4>2
      <4>8. InStep' BY <2>1, <4>4, <4>5, <4>6, <4>7 DEF InStep
      <4> QED BY <3>3, <4>8
    <3> QED BY <1>1, <3>5, <3>6
  <2> QED BY <2>7, <2>8
<1>10. ASSUME NEW c \in Calls, DialOk(c) PROVE Goal
  <2>1. /\ conns' = conns + 1 /\ devNc' = 1
        /\ UNCHANGED <<attempt, fut, pending, nextId, nonceCount, net>>
    BY <1>10 DEF DialOk
  <2>2. conns = 0 BY <1>1, <2>1
  <2>3. net = {}
    <3> SUFFICES ASSUME NEW m \in net PROVE FALSE OBVIOUS
    <3> QED BY <1>1, <2>2 DEF FrameInv
  <2>4. nonceCount = 0 BY <1>1, <2>2 DEF ChallengeInv
  <2>5. \A d \in Calls : fut[d].kind \notin Challenges BY <2>2 DEF ChallengeInv
  <2>6. Requests' = {} BY <2>1, <2>3 DEF Requests
  <2>7. NotAgain' BY <2>1, <2>3, <2>5 DEF NotAgain
  <2>8. InStep' BY <2>1, <2>4, <2>6 DEF InStep
  <2>9. LatestWord' BY <2>1, <2>3, <2>5 DEF LatestWord
  <2> QED BY <2>7, <2>8, <2>9
<1>11. ASSUME NEW c \in Calls, Woken(c), UNCHANGED <<link, net, devNc>>,
              \A d \in Calls \ ReadOnly : attempt'[d] = 1 => attempt[d] = 1,
              UNCHANGED nonceCount
       PROVE  Goal
  <2>1. /\ DOMAIN pending' = {i \in DOMAIN pending : pending[i] # c}
        /\ \A i \in DOMAIN pending' : pending'[i] = pending[i]
        /\ fut'[c].kind = "none" /\ \A d \in Calls \ {c} : fut'[d] = fut[d]
    BY <1>11, WokenFact
  <2>2. Requests' = Requests BY <1>11 DEF Requests
  <2>3. \A d \in Calls : fut'[d] = fut[d] \/ fut'[d].kind \notin Challenges
    BY <2>1 DEF Challenges
  <2>4. DOMAIN pending' \subseteq DOMAIN pending BY <2>1
  <2>5. net' \subseteq net BY <1>11
  <2> QED BY <1>6, <1>7, <1>11, <2>1, <2>2, <2>3, <2>4, <2>5
<1>12. ASSUME NEW c \in Calls, Challenged(c), Adoptable(c) PROVE Goal
  <2>1. /\ Woken(c) /\ fut[c].kind \in Challenges /\ nonceCount' = fut[c].nc
        /\ attempt' = [attempt EXCEPT ![c] = 1] /\ UNCHANGED <<link, net, devNc>>
    BY <1>12 DEF Challenged
  <2>2. /\ DOMAIN pending' = {i \in DOMAIN pending : pending[i] # c}
        /\ \A i \in DOMAIN pending' : pending'[i] = pending[i]
        /\ fut'[c].kind = "none" /\ \A d \in Calls \ {c} : fut'[d] = fut[d]
    BY <2>1, WokenFact
  <2>3. \A d \in Calls \ {c} : attempt'[d] = attempt[d] BY <2>1 DEF TypeOK
  <2>4. NotAgain'
    <3> SUFFICES ASSUME NEW d \in Calls \ ReadOnly, attempt'[d] = 1
                 PROVE  /\ fut'[d].kind \notin Challenges
                        /\ \A m \in net' : m.id \in DOMAIN pending' /\ pending'[m.id] = d =>
                              m.kind \notin Challenges /\ (m.kind = "request" => m.nc > 0)
      BY DEF NotAgain
    <3>1. CASE d = c BY <2>2, <3>1 DEF Challenges
    <3>2. CASE d # c
      <4>1. attempt[d] = 1 BY <2>3, <3>2
      <4> QED BY <1>4, <2>1, <2>2, <3>2, <4>1 DEF NotAgain
    <3> QED BY <3>1, <3>2
  <2>5. ASSUME link' = "open" PROVE InStep' /\ LatestWord'
    <3>1. fut[c].nc = devNc /\ Requests = {} BY <1>4, <2>1, <2>5 DEF LatestWord
    <3>2. Requests' = {} BY <2>1, <3>1 DEF Requests
    <3>3. devNc' = devNc /\ nonceCount' = devNc BY <2>1, <3>1
    <3>4. InStep' BY <1>1, <3>2, <3>3 DEF InStep
    <3>5. LatestWord' BY <1>4, <2>1, <2>2, <2>5, <3>2 DEF LatestWord, Challenges
    <3> QED BY <3>4, <3>5
  <2> QED BY <2>4, <2>5
<1>13. ASSUME NEW c \in Calls, CallStep(c) \/ Invoke(c) PROVE Goal
  <2>1. CASE Send(c) BY <1>9, <2>1
  <2>2. CASE DialOk(c) BY <1>10, <2>2
  <2>3. CASE Challenged(c) /\ Adoptable(c) BY <1>12, <2>3
  <2>4. ASSUME ~(Challenged(c) /\ Adoptable(c))
        PROVE  \A d \in Calls \ ReadOnly : attempt'[d] = 1 => attempt[d] = 1
    BY <1>13, <2>4, SecondAttempt
  <2>5. CASE ReturnAnswer(c) \/ (Challenged(c) /\ ~Adoptable(c)) \/ AuthFails(c)
             \/ Disconnected(c) \/ Timeout(c)
    <3>1. Woken(c) /\ UNCHANGED <<link, net, devNc, nonceCount>>
      BY <2>5 DEF ReturnAnswer, Challenged, AuthFails, Disconnected, Timeout
    <3>2. ~(Challenged(c) /\ Adoptable(c))
      <4>1. Challenged(c) /\ Adoptable(c) =>
              fut[c].kind \in Challenges /\ attempt[c] = 0 /\ pc'[c] = "connect"
        BY DEF Challenged, TypeOK
      <4>2. Timeout(c) => pc'[c] = "done"
        BY DEF Timeout, Finish, TypeOK
      <4> QED BY <2>5, <4>1, <4>2 DEF ReturnAnswer, AuthFails, Disconnected, Challenges
    <3> QED BY <1>11, <2>4, <3>1, <3>2
  <2>6. CASE ~Challenged(c) /\ (BeginConnect(c) \/ RetryClose(c))
    <3>1. TakeSocket /\ UNCHANGED <<pending, nextId, nonceCount>>
      BY <2>6 DEF BeginConnect, RetryClose
    <3>2. /\ net' \subseteq net /\ link' = "none"
          /\ \A d \in Calls : fut'[d] = fut[d] \/ fut'[d].kind \notin Challenges
      BY <3>1, TakeSocketFact DEF Challenges
    <3> QED BY <1>6, <1>7, <2>4, <2>6, <3>1, <3>2
  <2>7. CASE ~Challenged(c) /\ (TakeAuthLock(c) \/ NeedConnection(c) \/ ShareConnection(c)
             \/ CloseDone(c) \/ DialFails(c) \/ SendFails(c) \/ Invoke(c))
    <3>1. UNCHANGED <<net, pending, fut, link, devNc>>
      BY <2>7 DEF TakeAuthLock, NeedConnection, ShareConnection, CloseDone, DialFails,
                  SendFails, Invoke
    <3>2. link' = "open" => UNCHANGED nonceCount
      BY <2>7 DEF TakeAuthLock, NeedConnection, ShareConnection, CloseDone, DialFails,
                  SendFails, Invoke
    <3>3. Requests' = Requests BY <3>1 DEF Requests
    <3> QED BY <1>6, <1>7, <2>4, <2>7, <3>1, <3>2, <3>3
  <2>8. Challenged(c) => pc[c] = "waiting" BY DEF Challenged, Woken
  <2>9. pc[c] = "waiting" => ~(BeginConnect(c) \/ RetryClose(c) \/ TakeAuthLock(c)
           \/ NeedConnection(c) \/ ShareConnection(c) \/ CloseDone(c) \/ DialFails(c)
           \/ SendFails(c) \/ Invoke(c))
    BY DEF BeginConnect, RetryClose, TakeAuthLock, NeedConnection, ShareConnection, CloseDone,
           DialFails, SendFails, Invoke
  <2> QED BY <1>13, <2>1, <2>2, <2>3, <2>5, <2>6, <2>7, <2>8, <2>9 DEF CallStep
<1>14. CASE ReaderStep
  <2>1. CASE ReaderStart
    <3>1. UNCHANGED <<net, pending, fut, link, devNc, nonceCount, attempt>> BY <2>1 DEF ReaderStart
    <3>2. Requests' = Requests BY <3>1 DEF Requests
    <3> QED BY <1>6, <1>7, <3>1, <3>2
  <2>2. CASE ReaderEnd
    <3>1. /\ net' \subseteq net /\ link' = "closed" /\ UNCHANGED <<pending, attempt>>
      BY <2>2 DEF ReaderEnd, Requests
    <3>2. \A d \in Calls : fut'[d] = fut[d] \/ fut'[d].kind \notin Challenges
      BY <2>2, FailPendingFact DEF ReaderEnd, ReaderFinally, Challenges
    <3> QED BY <1>6, <1>7, <3>1, <3>2
  <2>3. ASSUME NEW m \in net, Deliver(m) PROVE Goal
    <3>1. /\ net' = net \ {m} /\ UNCHANGED <<pending, attempt, link, devNc, nonceCount>>
          /\ m.kind \in Replies
      BY <2>3 DEF Deliver
    <3>2. Requests' = Requests BY <3>1 DEF Requests, Replies, Challenges
    <3>3. \A d \in Calls : \/ fut'[d] = fut[d]
                          \/ /\ m.id \in DOMAIN pending /\ pending[m.id] = d
                             /\ fut'[d] = [kind |-> m.kind, nc |-> m.nc, from |-> m.call]
      BY <2>3 DEF Deliver
    <3>4. NotAgain'
      BY <1>4, <3>1, <3>3 DEF NotAgain
    <3>5. ASSUME link' = "open" PROVE InStep' /\ LatestWord'
      <4>1. InStep /\ LatestWord BY <1>4, <3>1, <3>5
      <4>2. InStep' BY <3>1, <3>2, <4>1 DEF InStep
      <4>3. LatestWord' BY <3>1, <3>2, <3>3, <4>1 DEF LatestWord
      <4> QED BY <4>2, <4>3
    <3> QED BY <3>4, <3>5
  <2> QED BY <1>14, <2>1, <2>2, <2>3 DEF ReaderStep
<1>15. CASE CloserStep
  <2>1. CASE CloseBegin
    <3>1. TakeSocket /\ UNCHANGED <<pending, nonceCount, attempt>> BY <2>1 DEF CloseBegin
    <3>2. /\ net' \subseteq net /\ link' = "none"
          /\ \A d \in Calls : fut'[d] = fut[d] \/ fut'[d].kind \notin Challenges
      BY <3>1, TakeSocketFact DEF Challenges
    <3> QED BY <1>6, <1>7, <3>1, <3>2
  <2>2. CASE CloseFinish
    <3>1. \A d \in Calls : fut'[d] = fut[d] \/ fut'[d].kind \notin Challenges
      BY <2>2, FailPendingFact DEF CloseFinish, Challenges
    <3>2. DOMAIN pending' = {} /\ UNCHANGED <<net, link, devNc, nonceCount, attempt>>
      BY <2>2 DEF CloseFinish
    <3>3. Requests' = Requests BY <3>2 DEF Requests
    <3> QED BY <1>6, <1>7, <3>1, <3>2, <3>3
  <2> QED BY <1>15, <2>1, <2>2 DEF CloserStep
<1>16. CASE DeviceStep
  <2>1. CASE LinkLost
    BY <1>6, <1>7, <2>1 DEF LinkLost
  <2>2. ASSUME NEW m \in net, Stray(m) PROVE Goal
    <3>1. /\ net' \subseteq net /\ UNCHANGED <<pending, fut, attempt, link, devNc, nonceCount>>
          /\ m.conn # socket \/ link # "open"
      BY <2>2 DEF Stray
    <3>2. link # "open" BY <1>5, <3>1
    <3> QED BY <1>6, <1>7, <3>1, <3>2
  <2>3. ASSUME NEW m \in net, Refuse(m) PROVE Goal
    <3>1. PICK k \in Challenges : net' = (net \ {m}) \cup {Reply(m, k, devNc)}
      BY <2>3 DEF Refuse
    <3>2. /\ NextInLine(m) /\ link = "open" /\ AuthRequired /\ m.nc # devNc
          /\ UNCHANGED <<pending, fut, attempt, link, devNc, nonceCount>>
      BY <2>3 DEF Refuse, Authorized
    <3> DEFINE r == Reply(m, k, devNc)
    <3>3. r.kind = k /\ r.id = m.id /\ r.nc = devNc
      BY DEF TypeOK, Frames, Reply
    <3> HIDE DEF r
    <3>4. m \in Requests /\ net' = (net \ {m}) \cup {r} BY <3>1, <3>2 DEF NextInLine, r
    <3>5. Requests' = Requests \ {m} BY <3>3, <3>4 DEF Requests, Challenges
    <3>6. InStep /\ LatestWord BY <1>4, <3>2
    <3>7. m.nc = 0
      <4> SUFFICES ASSUME m.nc > 0 PROVE FALSE BY <1>1
      <4>1. \A n \in net : n.conn = m.conn BY <1>5, <3>2
      <4> QED BY <3>2, <3>4, <3>6, <4>1, FirstInLine DEF ChallengeInv
    <3>8. InStep'
      <4>1. \A n \in Requests : n.nc > 0 => n # m BY <1>1, <3>7
      <4>2. \A q \in devNc..nonceCount : q > 0 BY <1>1 DEF ChallengeInv
      <4>3. ASSUME NEW q \in devNc..nonceCount, q # nonceCount
            PROVE  \E n \in Requests' : n.nc = q
        <5>1. PICK n \in Requests : n.nc = q BY <3>6, <4>3 DEF InStep
        <5>2. n # m BY <3>7, <4>2, <5>1
        <5> QED BY <3>5, <5>1, <5>2
      <4> QED BY <3>2, <3>5, <3>6, <4>3 DEF InStep
    <3>9. m.id \in DOMAIN pending => Requests' = {}
      <4> SUFFICES ASSUME m.id \in DOMAIN pending, NEW n \in Requests \ {m} PROVE FALSE
        BY <3>5
      <4>1. m.id + 1 = nextId BY DEF SerialInv
      <4>2. n \in net /\ n.id < nextId BY DEF IdInv, Requests
      <4>3. n.conn = m.conn BY <1>5, <3>2, <4>2
      <4>4. m.id <= n.id BY <3>2, <4>3 DEF NextInLine
      <4>5. n.id = m.id BY <1>1, <4>1, <4>2, <4>4
      <4> QED BY <4>2, <4>5 DEF FrameInv
    <3>10. LatestWord'
      BY <3>2, <3>3, <3>4, <3>6, <3>9 DEF LatestWord
    <3>11. NotAgain'
      <4> SUFFICES ASSUME NEW d \in Calls \ ReadOnly, attempt[d] = 1
                   PROVE  /\ fut[d].kind \notin Challenges
                          /\ \A n \in net' : n.id \in DOMAIN pending /\ pending[n.id] = d =>
                                n.kind \notin Challenges /\ (n.kind = "request" => n.nc > 0)
        BY <3>2 DEF NotAgain
      <4>1. ~(m.id \in DOMAIN pending /\ pending[m.id] = d)
        BY <1>4, <3>4, <3>7 DEF NotAgain, Requests
      <4> QED BY <1>4, <3>3, <3>4, <4>1 DEF NotAgain
    <3> QED BY <3>8, <3>10, <3>11
  <2>4. ASSUME NEW m \in net, Execute(m) PROVE Goal
    <3>1. /\ NextInLine(m) /\ link = "open" /\ Authorized(m) /\ m \in Requests
          /\ UNCHANGED <<pending, fut, attempt, link, nonceCount>>
          /\ devNc' = IF AuthRequired THEN devNc + 1 ELSE devNc
          /\ net' \subseteq (net \ {m}) \cup {Reply(m, "answer", 0)}
          /\ net \ {m} \subseteq net'
      BY <2>4 DEF Execute, NextInLine
    <3>2. Reply(m, "answer", 0).kind = "answer" BY ReplyFact
    <3>3. Requests' = Requests \ {m} BY <3>1, <3>2 DEF Requests
    <3>4. InStep /\ LatestWord BY <1>4, <3>1
    <3>5. NotAgain' BY <1>4, <3>1, <3>2 DEF NotAgain, Challenges
    <3>6. LatestWord'
      <4>1. \A d \in Calls : fut[d].kind \notin Challenges BY <3>1, <3>4 DEF LatestWord
      <4>2. \A n \in net : n.kind \in Challenges => n.id \notin DOMAIN pending
        BY <3>1, <3>4 DEF LatestWord
      <4>3. \A n \in net' : n.kind \in Challenges => n \in net
        BY <3>1, <3>2 DEF Challenges
      <4> QED BY <3>1, <4>1, <4>2, <4>3 DEF LatestWord
    <3>7. CASE AuthRequired
      <4>1. m.nc = devNc /\ m.nc > 0 /\ devNc' = devNc + 1
        BY <3>1, <3>7 DEF Authorized, ChallengeInv
      <4>2. \A n \in net : n.conn = m.conn BY <1>5, <3>1
      <4>3. devNc < nonceCount /\ \A n \in Requests \ {m} : n.nc > 0 => devNc < n.nc
        BY <3>1, <3>4, <4>1, <4>2, FirstInLine DEF ChallengeInv
      <4>4. \A n \in Requests : n.nc \in Nat BY <1>1 DEF Requests
      <4>5. ASSUME NEW q \in devNc'..nonceCount, q # nonceCount
            PROVE  \E n \in Requests' : n.nc = q
        <5>1. q \in devNc..nonceCount /\ q # devNc BY <1>1, <4>1, <4>5
        <5>2. PICK n \in Requests : n.nc = q BY <3>4, <4>5, <5>1 DEF InStep
        <5> QED BY <3>3, <4>1, <5>1, <5>2
      <4>6. \A n \in Requests' : n.nc > 0 => devNc' <= n.nc /\ n.nc < nonceCount
        BY <1>1, <3>3, <3>4, <4>1, <4>3, <4>4 DEF InStep
      <4>7. devNc' <= nonceCount BY <1>1, <4>1, <4>3
      <4>8. InStep' BY <3>1, <3>3, <3>4, <4>5, <4>6, <4>7 DEF InStep
      <4> QED BY <3>5, <3>6, <4>8
    <3>8. CASE ~AuthRequired
      <4>1. nonceCount = 0 /\ devNc' = devNc /\ devNc > 0
        BY <1>1, <3>1, <3>8 DEF ChallengeInv
      <4>2. \A q \in devNc..nonceCount : FALSE BY <1>1, <4>1
      <4>3. InStep' BY <3>1, <3>3, <3>4, <4>1, <4>2 DEF InStep
      <4> QED BY <3>5, <3>6, <4>3
    <3> QED BY <3>7, <3>8
  <2> QED BY <1>16, <2>1, <2>2, <2>3, <2>4 DEF DeviceStep
<1>17. CASE Terminating \/ UNCHANGED vars
  <2>1. UNCHANGED <<net, pending, fut, attempt, link, devNc, nonceCount>>
    BY <1>17 DEF Terminating, vars
  <2>2. Requests' = Requests BY <2>1 DEF Requests
  <2> QED BY <1>6, <1>7, <2>1, <2>2
<1> QED BY <1>13, <1>14, <1>15, <1>16, <1>17 DEF Next

----------------------------------------------------------------------------
(* The theorems *)

\* IInv holds in every reachable state of the transport.
THEOREM Invariance == Spec => []IInv
<1>1. Init => IInv
  <2> SUFFICES ASSUME Init PROVE IInv
    OBVIOUS
  <2> USE CallsAssumption DEF Init, Plain
  <2>1. TypeOK
    <3>1. Plain("none") \in Futures BY DEF Futures
    <3>2. DOMAIN pending = {} /\ pending \in [DOMAIN pending -> Calls]
      OBVIOUS
    <3>3. /\ pc \in [Calls -> PCs] /\ attempt \in [Calls -> 0..1]
          /\ fut \in [Calls -> Futures] /\ outcome \in [Calls -> Outcomes]
          /\ sentOn \in [Calls -> Nat] /\ executed \in [Calls -> Nat]
      BY <3>1 DEF PCs, Continuations, Outcomes
    <3> QED BY <3>2, <3>3 DEF TypeOK
  <2>2. IdInv BY DEF IdInv, OwnAnswer, Replies, Challenges
  <2>3. SocketInv BY DEF SocketInv, NoStrandedCall
  <2>4. MutatingInv BY DEF MutatingInv, NotSent, Challenges
  <2>5. AnswerInv BY DEF AnswerInv
  <2>6. AttemptInv
    <3>1. \A c \in Calls : SentBy(c) = {} BY DEF SentBy, Requests
    <3>2. \A c \in Calls : Budget(c) = 0 BY DEF Budget
    <3>3. IsFiniteSet({}) /\ Cardinality({}) = 0 BY FS_EmptySet
    <3>4. \A c \in Calls : executed[c] = 0 /\ attempt[c] = 0 /\ pc[c] = "idle" OBVIOUS
    <3>5. IsFiniteSet(net) BY <3>3
    <3>6. \A c \in Calls : executed[c] + Cardinality(SentBy(c)) <= Budget(c)
      <4> TAKE c \in Calls
      <4>1. Cardinality(SentBy(c)) = 0 BY <3>1, <3>3
      <4>2. executed[c] = 0 /\ Budget(c) = 0 BY <3>2, <3>4
      <4> HIDE DEF Init
      <4> QED BY <4>1, <4>2
    <3> QED BY <3>4, <3>5, <3>6 DEF AttemptInv
  <2>7. FrameInv BY DEF FrameInv
  <2>8. SerialInv BY DEF SerialInv, Inside
  <2>9. ChallengeInv BY DEF ChallengeInv, Challenges
  <2>10. NonceInv BY DEF NonceInv, NotAgain, NonceKeptInStep
  <2> QED BY <2>1, <2>2, <2>3, <2>4, <2>5, <2>6, <2>7, <2>8, <2>9, <2>10 DEF IInv
<1>2. IInv /\ [Next]_vars => IInv'
  BY TypeStep, IdStep, SocketStep, MutatingStep, AnswerStep, AttemptStep,
     FrameStep, SerialStep, ChallengeStep, NonceStep DEF IInv
<1> QED BY <1>1, <1>2, PTL DEF Spec

\* Every variable keeps its type (lines 43-61 of rpc/websocket.py).
THEOREM TypeCorrect == Spec => []TypeOK
BY Invariance, PTL DEF IInv

\* No answer is ever given to another call than the one that asked
\* (request ids, _pending and the reader loop).
THEOREM AnswersAreOwn == Spec => []OwnAnswer
BY Invariance, PTL DEF IInv, IdInv

\* No call is left waiting for a connection that nobody reads
\* (the reader's finally block, _close_socket, the fast path of async_connect).
THEOREM NobodyStranded == Spec => []NoStrandedCall
BY Invariance, PTL DEF IInv, SocketInv

\* A mutating method is executed at most once per call (the retry rules of
\* _async_call).
THEOREM MutatingAtMostOnce == Spec => []AtMostOnce
<1>1. IInv => AtMostOnce BY DEF IInv, MutatingInv, AtMostOnce
<1> QED BY <1>1, Invariance, PTL

\* With the right password no mutating call fails authentication on the first
\* connection: calls do not spoil each other's nonce count (_auth_lock).
THEOREM NonceCountsKept == Spec => []NonceKeptInStep
BY Invariance, PTL DEF IInv, NonceInv

\* A connection is only opened when there is none (_connect_lock).
THEOREM NoLeak == Spec => NoSocketLeaked
<1>1. IInv /\ [Next]_vars => [conns' # conns => socket = 0]_vars
  <2> SUFFICES ASSUME IInv, [Next]_vars, conns' # conns PROVE socket = 0
    OBVIOUS
  <2> USE DEF callVars, socketVars, idVars, lockVars, devVars
  <2>1. PICK c \in Calls : Invoke(c) \/ CallStep(c)
    BY DEF Next, vars, ReaderStep, ReaderStart, ReaderEnd, Deliver, CloserStep, CloseBegin,
           CloseFinish, DeviceStep, LinkLost, Refuse, Execute, Stray, Terminating
  <2>2. DialOk(c)
    BY <2>1 DEF Invoke, CallStep, TakeAuthLock, NeedConnection, ShareConnection, BeginConnect,
           CloseDone, DialFails, RetryClose, Send, SendFails, ReturnAnswer, Challenged,
           AuthFails, Disconnected, Timeout
  <2>3. connLock = c
    BY <2>2 DEF DialOk, IInv, SocketInv
  <2> QED BY <2>3, CallsAssumption DEF IInv, SocketInv
<1> QED BY <1>1, Invariance, PTL DEF Spec, NoSocketLeaked

\* The transport implements RpcCall: every step of it is a step of the promise
\* or changes nothing the promise speaks of.
THEOREM Refinement == Spec => KeepsPromise
<1>1. Init => Promise!Init
  BY DEF Init, Promise!Init, status
<1>2. IInv /\ IInv' /\ [Next]_vars => [Promise!Next]_<<status, executed>>
  <2> SUFFICES ASSUME IInv, IInv', [Next]_vars
               PROVE  Promise!Next \/ UNCHANGED <<status, executed>>
    OBVIOUS
  <2> USE DEF callVars, socketVars, idVars, lockVars, devVars
  <2>0. /\ TypeOK /\ MutatingInv /\ AttemptInv /\ AnswerInv
        /\ TypeOK' /\ MutatingInv' /\ AttemptInv'
    BY DEF IInv
  <2>1. ASSUME UNCHANGED outcome, \A c \in Calls : pc'[c] = "idle" <=> pc[c] = "idle"
        PROVE  UNCHANGED status
    BY <2>1 DEF status
  <2>2. ASSUME NEW c \in Calls, NEW o \in Outcomes \ {"none"}, Finish(c, o),
               pc[c] \notin {"idle", "done"}, UNCHANGED executed,
               o = "answered" => executed[c] >= 1,
               o \in {"authError", "authFailed"} /\ c \notin ReadOnly => executed[c] = 0
        PROVE  Promise!Next
    <3>1. outcome[c] = "none" BY <2>0, <2>2 DEF AnswerInv
    <3>2. status[c] = "active" BY <2>2, <3>1 DEF status, StatusOf
    <3>3. status' = [status EXCEPT ![c] = StatusOf(o)]
      <4>1. pc'[c] = "done" /\ outcome'[c] = o BY <2>0, <2>2 DEF Finish, TypeOK
      <4>2. \A d \in Calls \ {c} : pc'[d] = pc[d] /\ outcome'[d] = outcome[d]
        BY <2>0, <2>2 DEF Finish, TypeOK
      <4> QED BY <4>1, <4>2 DEF status
    <3>4. /\ StatusOf(o) \in Promise!Answers
          /\ StatusOf(o) = "answered" => o = "answered"
          /\ StatusOf(o) = "refused" => o \in {"authError", "authFailed"}
      BY <2>2 DEF StatusOf, Outcomes, Promise!Answers
    <3>5. Promise!Return(c)
      BY <2>2, <3>2, <3>3, <3>4 DEF Promise!Return
    <3> QED BY <3>5 DEF Promise!Next
  <2>3. ASSUME NEW c \in Calls, Unavailable(c), pc[c] \notin {"idle", "done"}, UNCHANGED executed
        PROVE  Promise!Next \/ UNCHANGED <<status, executed>>
    <3>1. CASE RetryAllowed(c)
      BY <2>0, <2>1, <2>3, <3>1 DEF Unavailable, TypeOK
    <3>2. CASE ~RetryAllowed(c)
      BY <2>2, <2>3, <3>2 DEF Unavailable, Outcomes
    <3> QED BY <3>1, <3>2
  <2>4. ASSUME NEW c \in Calls, Invoke(c) PROVE Promise!Next
    <3>1. pc[c] = "idle" /\ outcome[c] = "none" BY <2>0, <2>4 DEF Invoke, AnswerInv
    <3>2. pc'[c] # "idle" /\ \A d \in Calls \ {c} : pc'[d] = pc[d]
      BY <2>0, <2>4 DEF Invoke, TypeOK
    <3>3. UNCHANGED <<outcome, executed>> BY <2>4 DEF Invoke
    <3>4. status' = [status EXCEPT ![c] = "active"]
      <4>1. StatusOf(outcome[c]) = "active" BY <3>1 DEF StatusOf
      <4>2. status' = [d \in Calls |-> IF pc'[d] = "idle" THEN "idle" ELSE StatusOf(outcome[d])]
        BY <3>3 DEF status, StatusOf
      <4> QED BY <3>1, <3>2, <4>1, <4>2 DEF status
    <3>5. Promise!Start(c)
      BY <3>1, <3>3, <3>4 DEF Promise!Start, status
    <3> QED BY <3>5 DEF Promise!Next
  <2>5. ASSUME NEW c \in Calls, CallStep(c) PROVE Promise!Next \/ UNCHANGED <<status, executed>>
    <3>1. CASE TakeAuthLock(c) \/ NeedConnection(c) \/ ShareConnection(c) \/ BeginConnect(c)
               \/ CloseDone(c) \/ DialOk(c) \/ RetryClose(c) \/ Send(c)
      <4>1. UNCHANGED <<outcome, executed>>
            /\ \A d \in Calls : pc'[d] = "idle" <=> pc[d] = "idle"
        BY <2>0, <3>1 DEF TakeAuthLock, NeedConnection, ShareConnection, BeginConnect,
                          CloseDone, DialOk, RetryClose, Send, TypeOK
      <4> QED BY <4>1, <2>1
    <3>2. CASE DialFails(c) \/ SendFails(c)
      BY <2>3, <3>2 DEF DialFails, SendFails
    <3>3. CASE Disconnected(c)
      BY <2>3, <3>3 DEF Disconnected, Woken
    <3>4. CASE ReturnAnswer(c)
      BY <2>0, <2>2, <3>4 DEF ReturnAnswer, Woken, AnswerInv, Outcomes
    <3>5. CASE Timeout(c)
      BY <2>2, <3>5 DEF Timeout, Woken, Outcomes
    <3>6. ASSUME fut[c].kind \in Challenges, c \notin ReadOnly PROVE executed[c] = 0
      BY <2>0, <3>6 DEF MutatingInv, NotSent
    <3>7. CASE AuthFails(c)
      BY <2>2, <3>6, <3>7 DEF AuthFails, Woken, Outcomes
    <3>8. CASE Challenged(c)
      <4>1. CASE Finish(c, "authError")
        BY <2>2, <3>6, <3>8, <4>1 DEF Challenged, Woken, Outcomes
      <4>2. CASE pc' = [pc EXCEPT ![c] = "connect"] /\ UNCHANGED outcome
        BY <2>0, <2>1, <3>8, <4>2 DEF Challenged, Woken, TypeOK
      <4> QED BY <3>8, <4>1, <4>2 DEF Challenged
    <3> QED BY <2>5, <3>1, <3>2, <3>3, <3>4, <3>5, <3>7, <3>8 DEF CallStep
  <2>6. CASE ReaderStep \/ CloserStep
    BY <2>1, <2>6
    DEF ReaderStep, ReaderStart, ReaderEnd, Deliver, CloserStep, CloseBegin, CloseFinish
  <2>7. ASSUME NEW m \in Requests, UNCHANGED <<pc, outcome>>,
               executed' = [executed EXCEPT ![m.call] = @ + 1]
        PROVE  Promise!Next
    <3> DEFINE c == m.call
    <3>1. c \in Calls /\ m \in net BY <2>0, FrameFact DEF Requests
    <3>2. /\ executed[c] \in Nat /\ executed'[c] = executed[c] + 1
      BY <2>0, <2>7, <3>1 DEF TypeOK
    <3>3. executed'[c] <= Budget(c)' /\ Budget(c)' \in Nat /\ Budget(c)' <= 2
      <4>1. IsFiniteSet(SentBy(c)') /\ Cardinality(SentBy(c)') \in Nat
        <5>1. SentBy(c)' \subseteq net' /\ IsFiniteSet(net')
          BY <2>0 DEF SentBy, Requests, AttemptInv
        <5> QED BY <5>1, FS_Subset, FS_CardinalityType
      <4>2. executed'[c] + Cardinality(SentBy(c)') <= Budget(c)'
        BY <2>0, <3>1 DEF AttemptInv
      <4>3. Budget(c)' \in Nat /\ Budget(c)' <= 2
        BY <2>0, <3>1 DEF Budget, TypeOK
      <4> QED BY <4>1, <4>2, <4>3, <3>2
    <3>4. c \notin ReadOnly => executed'[c] <= 1
      BY <2>0, <3>1 DEF MutatingInv
    <3>5. executed[c] < Promise!Limit(c)
      <4>1. executed'[c] <= 2 BY <3>2, <3>3
      <4>2. CASE c \in ReadOnly BY <4>1, <4>2, <3>2 DEF Promise!Limit
      <4>3. CASE c \notin ReadOnly BY <4>3, <3>2, <3>4 DEF Promise!Limit
      <4> QED BY <4>2, <4>3
    <3>6. pc[c] # "idle"
      <4> SUFFICES ASSUME pc[c] = "idle" PROVE FALSE
        OBVIOUS
      <4>1. pc'[c] = "idle" /\ attempt'[c] = 0 BY <2>0, <2>7, <3>1 DEF AttemptInv
      <4>2. Budget(c)' = 0 BY <4>1 DEF Budget
      <4> QED BY <4>2, <3>2, <3>3
    <3>7. status[c] # "idle" BY <2>0, <3>1, <3>6 DEF status, StatusOf, TypeOK, Outcomes
    <3>8. status[c] = "refused" => c \in ReadOnly
      <4> SUFFICES ASSUME status[c] = "refused", c \notin ReadOnly PROVE FALSE
        OBVIOUS
      <4>1. outcome[c] \in {"authError", "authFailed"}
        BY <2>0, <3>1 DEF status, StatusOf, TypeOK, Outcomes
      <4> QED BY <2>0, <4>1, <3>1 DEF MutatingInv, NotSent
    <3>9. UNCHANGED status BY <2>1, <2>7
    <3>10. Promise!Execute(c)
      BY <2>7, <3>5, <3>7, <3>8, <3>9 DEF Promise!Execute
    <3> QED BY <3>1, <3>10 DEF Promise!Next
  <2>8. CASE DeviceStep
    <3>1. CASE LinkLost BY <2>1, <3>1 DEF LinkLost
    <3>2. ASSUME NEW m \in net, Refuse(m) PROVE UNCHANGED <<status, executed>>
      BY <2>1, <3>2 DEF Refuse
    <3>3. ASSUME NEW m \in net, Execute(m) PROVE Promise!Next
      BY <2>7, <3>3 DEF Execute, NextInLine
    <3>4. ASSUME NEW m \in net, Stray(m) PROVE Promise!Next \/ UNCHANGED <<status, executed>>
      BY <2>1, <2>7, <3>4 DEF Stray
    <3> QED BY <2>8, <3>1, <3>2, <3>3, <3>4 DEF DeviceStep
  <2>9. CASE Terminating \/ UNCHANGED vars
    BY <2>1, <2>9 DEF Terminating, vars
  <2> QED BY <2>4, <2>5, <2>6, <2>8, <2>9 DEF Next
<1> QED BY <1>1, <1>2, Invariance, PTL DEF Spec, KeepsPromise, Promise!Spec
=============================================================================
