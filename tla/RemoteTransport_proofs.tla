----------------------- MODULE RemoteTransport_proofs -----------------------
(* RemoteTransport keeps its invariant and implements RpcCall, for any number *)
(* of calls and sessions.                                                     *)
EXTENDS RemoteTransport, TLAPS

\* A future is resolved for its own call, or not at all.
LEMMA FutureFact ==
    ASSUME TypeOK, NEW s \in Sessions
    PROVE  /\ FailPending(s) \in [Calls -> Futures]
           /\ \A c \in Calls : \/ FailPending(s)[c] = fut[c]
                               \/ FailPending(s)[c] = Plain("closed")
  BY DEF TypeOK, FailPending, Plain, Futures

----------------------------------------------------------------------------
(* Types *)

\* Every step keeps the types (the fields of RemoteRpcTransport, lines 87-94).
LEMMA TypeStep == TypeOK /\ [Next]_vars => TypeOK'
  <1> SUFFICES ASSUME TypeOK, [Next]_vars PROVE TypeOK'
    OBVIOUS
  <1> USE DEF TypeOK
  <1>1. ASSUME NEW c \in Calls, Take(c) PROVE TypeOK'
    BY <1>1 DEF Take, PCs, sessionVars, idVars, devVars
  <1>2. ASSUME NEW c \in Calls, Offline(c) PROVE TypeOK'
    BY <1>2 DEF Offline, Finish, PCs, Outcomes, sessionVars, idVars, devVars
  <1>3. ASSUME NEW c \in Calls, Send(c) PROVE TypeOK'
    <2> DEFINE e == [via |-> via[c], id |-> FreshId(via[c]), call |-> c]
    <2>1. via[c] \in Sessions BY <1>3 DEF Send, Usable
    <2>2. e \in Entries /\ FrameOf("request", e) \in Frames
      BY <2>1 DEF Entries, Frames, FrameOf, FreshId
    <2>3. Plain("wait") \in Futures BY DEF Plain, Futures
    <2> HIDE DEF e
    <2>4. /\ pending' = pending \cup {e}
          /\ net' \in {net, net \cup {FrameOf("request", e)}}
      BY <1>3 DEF Send, e
    <2>5. pc' \in [Calls -> PCs] /\ fut' \in [Calls -> Futures]
          /\ nextId' \in [Sessions -> Nat]
      BY <1>3, <2>1, <2>3 DEF Send, PCs
    <2> QED BY <1>3, <2>2, <2>4, <2>5 DEF Send, sessionVars
  <1>4. ASSUME NEW c \in Calls, SendFails(c) PROVE TypeOK'
    <2>1. via[c] \in Sessions BY <1>4 DEF SendFails, Usable
    <2> QED BY <1>4, <2>1 DEF SendFails, Finish, PCs, Outcomes, devVars
  <1>5. ASSUME NEW c \in Calls, NEW o \in Outcomes, Resume(c, o) PROVE TypeOK'
    BY <1>5 DEF Resume, Finish, PendingWithout, Plain, Futures, PCs, sessionVars, devVars
  <1>6. ASSUME NEW s \in Sessions, Connect(s) PROVE TypeOK'
    BY <1>6 DEF Connect, callVars, idVars
  <1>7. ASSUME NEW s \in Sessions, HandlerEnds(s) PROVE TypeOK'
    <2>1. /\ route' \in Sessions \cup {None} /\ connected' \in [Sessions -> BOOLEAN]
          /\ open' \in [Sessions -> BOOLEAN]
          /\ handler' \in [Sessions -> {"none", "serving", "done"}]
      BY <1>7 DEF HandlerEnds
    <2>2. net' \subseteq Frames /\ UNCHANGED <<callVars, closing, closed, idVars, up, executed>>
      BY <1>7 DEF HandlerEnds
    <2> QED BY <2>1, <2>2 DEF callVars, idVars
  <1>8. ASSUME NEW s \in Sessions, CloseBegin(s) PROVE TypeOK'
    BY <1>8 DEF CloseBegin, callVars, idVars, devVars
  <1>9. ASSUME NEW s \in Sessions, CloseFinish(s) PROVE TypeOK'
    BY <1>9, FutureFact DEF CloseFinish, FailAndClear, devVars
  <1>10. ASSUME NEW s \in Sessions, CloseAgain(s) PROVE TypeOK'
    BY <1>10, FutureFact DEF CloseAgain, FailAndClear, devVars
  <1>11. ASSUME NEW m \in net, Receive(m) PROVE TypeOK'
    <2>1. [kind |-> "answer", from |-> m.call] \in Futures BY DEF Futures, Frames
    <2>2. fut' \in [Calls -> Futures] BY <1>11, <2>1 DEF Receive
    <2> QED BY <1>11, <2>2 DEF Receive, sessionVars, idVars
  <1>12. ASSUME NEW s \in Sessions, DeviceLeaves(s) PROVE TypeOK'
    BY <1>12 DEF DeviceLeaves, callVars, sessionVars, idVars
  <1>13. ASSUME NEW m \in net, Execute(m) PROVE TypeOK'
    <2>1. FrameOf("answer", m) \in Frames /\ m.call \in Calls BY DEF Frames, FrameOf
    <2>2. executed' = [executed EXCEPT ![m.call] = executed[m.call] + 1] BY <1>13 DEF Execute
    <2>3. executed[m.call] \in Nat BY <2>1
    <2>4. executed' \in [Calls -> Nat] BY <2>1, <2>2, <2>3
    <2>5. net' \subseteq Frames BY <1>13, <2>1 DEF Execute
    <2> QED BY <1>13, <2>4, <2>5 DEF Execute, callVars, sessionVars, idVars
  <1>14. ASSUME NEW m \in net, Drop(m) PROVE TypeOK'
    BY <1>14 DEF Drop, callVars, sessionVars, idVars
  <1>15. CASE UNCHANGED vars
    BY <1>15 DEF vars, callVars, sessionVars, idVars, devVars
  <1> QED
    BY <1>1, <1>2, <1>3, <1>4, <1>5, <1>6, <1>7, <1>8, <1>9, <1>10, <1>11, <1>12, <1>13,
       <1>14, <1>15
    DEF Next, CallStep, SessionStep, DeviceStep, Answered, Closed, Timeout, Outcomes

----------------------------------------------------------------------------
(* Ids *)

\* Frames that descend from frames and entries that stay keep their ids apart.
LEMMA IdFact ==
    ASSUME IdInv, pending' \subseteq pending, OwnAnswer', TypeOK,
           nextId' = nextId,
           \A m \in net' : \E n \in net : m.via = n.via /\ m.id = n.id /\ m.call = n.call
    PROVE  IdInv'
  <1>1. \A m \in net' : m.id < nextId'[m.via] BY DEF IdInv
  <1>2. \A p \in pending' : p.id < nextId'[p.via] BY DEF IdInv
  <1>3. \A m \in net', p \in pending' : m.via = p.via /\ m.id = p.id => m.call = p.call
    BY DEF IdInv
  <1> QED BY <1>1, <1>2, <1>3 DEF IdInv

\* Every step keeps the ids apart (lines 105-113, 129-142).
LEMMA IdStep == TypeOK /\ IdInv /\ [Next]_vars => IdInv'
  <1> SUFFICES ASSUME TypeOK, IdInv, [Next]_vars PROVE IdInv'
    OBVIOUS
  <1>0. OwnAnswer BY DEF IdInv
  <1>1. ASSUME NEW c \in Calls, Take(c) \/ Offline(c) PROVE IdInv'
    BY <1>0, <1>1, IdFact DEF Take, Offline, OwnAnswer, idVars, devVars
  <1>2. ASSUME NEW c \in Calls, Send(c) PROVE IdInv'
    <2> DEFINE s == via[c]
               e == [via |-> s, id |-> nextId[s], call |-> c]
    <2>1. s \in Sessions /\ nextId[s] \in Nat BY <1>2 DEF Send, Usable, TypeOK
    <2>2. e.via = s /\ e.id = nextId[s] /\ e.call = c OBVIOUS
    <2>3. FrameOf("request", e).via = s /\ FrameOf("request", e).id = nextId[s]
          /\ FrameOf("request", e).call = c
      BY DEF FrameOf
    <2>4. /\ pending' = pending \cup {e}
          /\ net' \subseteq net \cup {FrameOf("request", e)}
          /\ nextId' = [nextId EXCEPT ![s] = nextId[s] + 1]
      BY <1>2 DEF Send, FreshId
    <2> HIDE DEF e
    <2>5. /\ \A r \in Sessions : nextId[r] \in Nat /\ nextId'[r] \in Nat /\ nextId'[r] >= nextId[r]
          /\ nextId'[s] = nextId[s] + 1
      BY <2>1, <2>4 DEF TypeOK
    <2>6. \A m \in net : m.via \in Sessions /\ m.id \in Nat BY DEF TypeOK, Frames
    <2>7. \A p \in pending : p.via \in Sessions /\ p.id \in Nat BY DEF TypeOK, Entries
    <2>8. \A m \in net' : m.id < nextId'[m.via]
      <3>1. \A m \in net : m.id < nextId'[m.via] BY <2>5, <2>6 DEF IdInv
      <3> QED BY <2>1, <2>3, <2>4, <2>5, <3>1
    <2>9. \A p \in pending' : p.id < nextId'[p.via]
      <3>1. \A p \in pending : p.id < nextId'[p.via] BY <2>5, <2>7 DEF IdInv
      <3> QED BY <2>1, <2>2, <2>4, <2>5, <3>1
    <2>10. ASSUME NEW m \in net', NEW p \in pending', m.via = p.via, m.id = p.id
           PROVE  m.call = p.call
      <3>1. CASE m \in net /\ p \in pending BY <2>10, <3>1 DEF IdInv
      <3>2. CASE m \in net /\ p = e
        BY <2>1, <2>2, <2>6, <2>10, <3>2 DEF IdInv
      <3>3. CASE m = FrameOf("request", e) /\ p \in pending
        BY <2>1, <2>3, <2>7, <2>10, <3>3 DEF IdInv
      <3>4. CASE m = FrameOf("request", e) /\ p = e BY <2>2, <2>3, <3>4
      <3> QED BY <2>4, <3>1, <3>2, <3>3, <3>4
    <2>11. OwnAnswer' BY <1>0, <1>2 DEF Send, OwnAnswer, Plain, TypeOK
    <2> QED BY <2>8, <2>9, <2>10, <2>11 DEF IdInv
  <1>3. ASSUME NEW c \in Calls, SendFails(c) PROVE IdInv'
    <2> DEFINE s == via[c]
    <2>1. s \in Sessions BY <1>3 DEF SendFails, Usable, TypeOK
    <2>2. \A r \in Sessions : nextId[r] \in Nat /\ nextId'[r] \in Nat /\ nextId'[r] >= nextId[r]
      BY <1>3, <2>1 DEF SendFails, TypeOK
    <2>3. net' = net /\ pending' = pending /\ fut' = fut BY <1>3 DEF SendFails, devVars
    <2>4. \A m \in net : m.via \in Sessions /\ m.id \in Nat BY DEF TypeOK, Frames
    <2>5. \A p \in pending : p.via \in Sessions /\ p.id \in Nat BY DEF TypeOK, Entries
    <2>6. \A m \in net' : m.id < nextId'[m.via] BY <2>2, <2>3, <2>4 DEF IdInv
    <2>7. \A p \in pending' : p.id < nextId'[p.via] BY <2>2, <2>3, <2>5 DEF IdInv
    <2> QED BY <1>0, <2>3, <2>6, <2>7 DEF IdInv, OwnAnswer
  <1>4. ASSUME NEW c \in Calls, NEW o, Resume(c, o) PROVE IdInv'
    <2>1. OwnAnswer' BY <1>0, <1>4 DEF Resume, OwnAnswer, Plain, TypeOK
    <2> QED BY <1>4, <2>1, IdFact DEF Resume, PendingWithout, devVars
  <1>5. ASSUME NEW s \in Sessions, Connect(s) \/ CloseBegin(s) \/ HandlerEnds(s) \/ DeviceLeaves(s)
        PROVE  IdInv'
    <2>1. OwnAnswer' BY <1>0, <1>5 DEF Connect, CloseBegin, HandlerEnds, DeviceLeaves, OwnAnswer, callVars
    <2>2. net' \subseteq net /\ pending' = pending /\ nextId' = nextId
      BY <1>5 DEF Connect, CloseBegin, HandlerEnds, DeviceLeaves, idVars, devVars
    <2> QED BY <2>1, <2>2, IdFact
  <1>6. ASSUME NEW s \in Sessions, CloseFinish(s) \/ CloseAgain(s) PROVE IdInv'
    <2>1. FailAndClear(s) /\ net' = net /\ nextId' = nextId
      BY <1>6 DEF CloseFinish, CloseAgain, devVars
    <2>2. OwnAnswer' BY <1>0, <2>1, FutureFact DEF FailAndClear, OwnAnswer, Plain
    <2> QED BY <2>1, <2>2, IdFact DEF FailAndClear
  <1>7. ASSUME NEW m \in net, Receive(m) PROVE IdInv'
    <2>1. OwnAnswer'
      <3> SUFFICES ASSUME NEW c \in Calls, fut'[c].kind = "answer" PROVE fut'[c].from = c
        BY DEF OwnAnswer
      <3> DEFINE p == [via |-> m.via, id |-> m.id, call |-> c]
      <3>1. CASE fut'[c] = fut[c] BY <1>0, <3>1 DEF OwnAnswer
      <3>2. CASE fut'[c] # fut[c]
        <4>1. p \in pending /\ fut'[c].from = m.call BY <1>7, <3>2 DEF Receive
        <4> QED BY <4>1 DEF IdInv
      <3> QED BY <3>1, <3>2
    <2> QED BY <1>7, <2>1, IdFact DEF Receive, idVars
  <1>8. ASSUME NEW m \in net, Execute(m) \/ Drop(m) PROVE IdInv'
    <2>1. OwnAnswer' BY <1>0, <1>8 DEF Execute, Drop, OwnAnswer, callVars
    <2>2. \A x \in net' : \E n \in net : x.via = n.via /\ x.id = n.id /\ x.call = n.call
      BY <1>8 DEF Execute, Drop, FrameOf
    <2> QED BY <1>8, <2>1, <2>2, IdFact DEF Execute, Drop, idVars
  <1>9. CASE UNCHANGED vars
    BY <1>0, <1>9, IdFact DEF vars, callVars, idVars, devVars, OwnAnswer
  <1> QED
    BY <1>1, <1>2, <1>3, <1>4, <1>5, <1>6, <1>7, <1>8, <1>9
    DEF Next, CallStep, SessionStep, DeviceStep, Answered, Closed, Timeout

----------------------------------------------------------------------------
(* Executions *)

\* What ExecInv says of one call.
ExecOf(c) ==
    /\ executed[c] <= 1
    /\ pc[c] \in {"idle", "taken"} => executed[c] = 0 /\ \A m \in net : m.call # c
    /\ \A m, n \in net : m.call = c /\ n.call = c => m = n
    /\ \A m \in net : m.call = c => executed[c] = IF m.kind = "answer" THEN 1 ELSE 0
    /\ fut[c].kind = "answer" => executed[c] = 1
    /\ outcome[c] = "answered" => executed[c] = 1

\* A call whose frames at most disappear, and which gains no answer, keeps it.
LEMMA ExecFact ==
    ASSUME NEW c \in Calls, ExecOf(c), net' \subseteq net, executed' = executed,
           pc'[c] \in {"idle", "taken"} => pc[c] \in {"idle", "taken"},
           fut'[c].kind = "answer" => fut[c].kind = "answer" \/ executed[c] = 1,
           outcome'[c] = "answered" => outcome[c] = "answered" \/ fut[c].kind = "answer"
    PROVE  ExecOf(c)'
  BY DEF ExecOf

\* Every step keeps one frame and one execution per call (lines 101-127).
LEMMA ExecStep == TypeOK /\ IdInv /\ ExecInv /\ [Next]_vars => ExecInv'
  <1> SUFFICES ASSUME TypeOK, IdInv, ExecInv, [Next]_vars, NEW c \in Calls PROVE ExecOf(c)'
    BY DEF ExecInv, ExecOf
  <1>0. ExecOf(c) BY DEF ExecInv, ExecOf
  <1>1. ASSUME NEW k \in Calls, Take(k) \/ Offline(k) \/ SendFails(k) PROVE ExecOf(c)'
    BY <1>0, <1>1, ExecFact DEF Take, Offline, SendFails, Finish, devVars, TypeOK
  <1>2. ASSUME NEW k \in Calls, Send(k) PROVE ExecOf(c)'
    <2> DEFINE e == [via |-> via[k], id |-> FreshId(via[k]), call |-> k]
               f == FrameOf("request", e)
    <2>1. f.kind = "request" /\ f.call = k BY DEF FrameOf
    <2>2. /\ net' \in {net, net \cup {f}} /\ executed' = executed /\ outcome' = outcome
          /\ pc' = [pc EXCEPT ![k] = "waiting"] /\ fut' = [fut EXCEPT ![k] = Plain("wait")]
          /\ pc[k] = "taken"
      BY <1>2 DEF Send
    <2> HIDE DEF f
    <2>3. CASE k = c
      <3>1. executed[c] = 0 /\ \A m \in net : m.call # c BY <1>0, <2>2, <2>3 DEF ExecOf
      <3> QED BY <1>0, <2>1, <2>2, <2>3, <3>1 DEF ExecOf, Plain, TypeOK
    <2>4. CASE k # c
      <3>1. pc'[c] = pc[c] /\ fut'[c] = fut[c] BY <2>2, <2>4 DEF TypeOK
      <3> QED BY <1>0, <2>1, <2>2, <2>4, <3>1 DEF ExecOf
    <2> QED BY <2>3, <2>4
  <1>3. ASSUME NEW k \in Calls, Answered(k) \/ Closed(k) \/ Timeout(k) PROVE ExecOf(c)'
    <2>1. /\ net' = net /\ executed' = executed
          /\ pc'[c] = pc[c] \/ pc'[c] = "done"
          /\ fut'[c] = fut[c] \/ fut'[c] = Plain("none")
          /\ outcome'[c] = "answered" => outcome[c] = "answered" \/ fut[c].kind = "answer"
      BY <1>3 DEF Answered, Closed, Timeout, Resume, Finish, devVars, TypeOK
    <2> QED BY <1>0, <2>1, ExecFact DEF Plain
  <1>4. ASSUME NEW s \in Sessions, Connect(s) \/ CloseBegin(s) \/ HandlerEnds(s) \/ DeviceLeaves(s)
        PROVE  ExecOf(c)'
    <2>1. net' \subseteq net /\ executed' = executed /\ pc' = pc /\ fut' = fut /\ outcome' = outcome
      BY <1>4 DEF Connect, CloseBegin, HandlerEnds, DeviceLeaves, callVars, devVars
    <2> QED BY <1>0, <2>1, ExecFact
  <1>5. ASSUME NEW s \in Sessions, CloseFinish(s) \/ CloseAgain(s) PROVE ExecOf(c)'
    <2>1. /\ net' = net /\ executed' = executed /\ pc' = pc /\ outcome' = outcome
          /\ fut' = FailPending(s)
      BY <1>5 DEF CloseFinish, CloseAgain, FailAndClear, devVars
    <2>2. fut'[c].kind = "answer" => fut[c].kind = "answer" BY <2>1, FutureFact DEF Plain
    <2> QED BY <1>0, <2>1, <2>2, ExecFact
  <1>6. ASSUME NEW m \in net, Receive(m) PROVE ExecOf(c)'
    <2>1. /\ net' \subseteq net /\ executed' = executed /\ pc' = pc /\ outcome' = outcome
          /\ m.kind = "answer"
      BY <1>6 DEF Receive
    <2>2. ASSUME fut'[c] # fut[c] PROVE executed[c] = 1
      <3> DEFINE p == [via |-> m.via, id |-> m.id, call |-> c]
      <3>1. p \in pending BY <1>6, <2>2 DEF Receive
      <3>2. m.call = c BY <3>1 DEF IdInv
      <3> QED BY <1>0, <2>1, <3>2 DEF ExecOf
    <2> QED BY <1>0, <2>1, <2>2, ExecFact
  <1>7. ASSUME NEW m \in net, Execute(m) PROVE ExecOf(c)'
    <2> DEFINE a == FrameOf("answer", m)
    <2>1. a.kind = "answer" /\ a.call = m.call BY DEF FrameOf
    <2>2. /\ pc' = pc /\ fut' = fut /\ outcome' = outcome
          /\ net' \in {net \ {m}, (net \ {m}) \cup {a}} /\ m.kind = "request"
          /\ executed' = [executed EXCEPT ![m.call] = executed[m.call] + 1]
      BY <1>7 DEF Execute, callVars
    <2> HIDE DEF a
    <2>3. CASE m.call = c
      <3>1. executed[c] = 0 /\ pc[c] \notin {"idle", "taken"} /\ \A n \in net : n.call = c => n = m
        BY <1>0, <2>2, <2>3 DEF ExecOf
      <3>2. executed'[c] = 1 BY <2>2, <2>3, <3>1 DEF TypeOK
      <3>3. \A x \in net' : x.call = c => x = a BY <2>2, <3>1
      <3> QED BY <2>1, <2>2, <3>1, <3>2, <3>3 DEF ExecOf
    <2>4. CASE m.call # c
      <3>1. executed'[c] = executed[c] BY <2>2, <2>4 DEF TypeOK
      <3> QED BY <1>0, <2>1, <2>2, <2>4, <3>1 DEF ExecOf
    <2> QED BY <2>3, <2>4
  <1>8. ASSUME NEW m \in net, Drop(m) PROVE ExecOf(c)'
    BY <1>0, <1>8, ExecFact DEF Drop, callVars
  <1>9. CASE UNCHANGED vars BY <1>0, <1>9, ExecFact DEF vars, callVars, devVars
  <1> QED
    BY <1>1, <1>2, <1>3, <1>4, <1>5, <1>6, <1>7, <1>8, <1>9
    DEF Next, CallStep, SessionStep, DeviceStep

----------------------------------------------------------------------------
(* Closed sessions *)

\* What SessionInv says of one call.
WaitOf(c) ==
    pc[c] = "waiting" =>
        /\ via[c] # None
        /\ fut[c].kind = "wait" => /\ \E p \in pending : p.via = via[c] /\ p.call = c
                                  /\ ~closed[via[c]]

\* What SessionInv says of one session.
StateOf(s) ==
    /\ handler[s] # "serving" => ~open[s]
    /\ closing[s] \/ closed[s] => handler[s] # "none" /\ ~open[s]

\* SessionInv, call by call and session by session.
LEMMA SessionInvParts ==
    SessionInv <=> (\A c \in Calls : WaitOf(c)) /\ (\A s \in Sessions : StateOf(s))
  BY DEF SessionInv, ClosedEndsCalls, WaitOf, StateOf

\* The session part: a socket that is closed stays closed (lines 150-154).
LEMMA StateStep == TypeOK /\ SessionInv /\ [Next]_vars => \A s \in Sessions : StateOf(s)'
  <1> SUFFICES ASSUME TypeOK, SessionInv, [Next]_vars, NEW s \in Sessions PROVE StateOf(s)'
    OBVIOUS
  <1>0. StateOf(s) BY SessionInvParts
  <1> USE DEF StateOf
  <1>1. ASSUME NEW c \in Calls, Take(c) \/ CallStep(c) PROVE StateOf(s)'
    BY <1>0, <1>1
    DEF Take, CallStep, Offline, Send, SendFails, Answered, Closed, Timeout, Resume, sessionVars
  <1>2. ASSUME NEW t \in Sessions, SessionStep(t) PROVE StateOf(s)'
    <2>1. CASE Connect(t) BY <1>0, <2>1 DEF Connect, TypeOK
    <2>2. CASE HandlerEnds(t) BY <1>0, <2>2 DEF HandlerEnds, TypeOK
    <2>3. CASE CloseBegin(t) BY <1>0, <2>3 DEF CloseBegin, TypeOK
    <2>4. CASE CloseFinish(t)
      <3>1. /\ handler' = handler /\ open' = open /\ handler[t] = "done"
            /\ closing' = [closing EXCEPT ![t] = FALSE] /\ closed' = [closed EXCEPT ![t] = TRUE]
        BY <2>4 DEF CloseFinish, FailAndClear
      <3> QED BY <1>0, <3>1 DEF TypeOK
    <2>5. CASE CloseAgain(t)
      <3>1. /\ handler' = handler /\ open' = open /\ handler[t] # "none" /\ ~open[t]
            /\ closing' = closing /\ closed' = [closed EXCEPT ![t] = TRUE]
        BY <2>5 DEF CloseAgain, FailAndClear
      <3> QED BY <1>0, <3>1 DEF TypeOK
    <2> QED BY <1>2, <2>1, <2>2, <2>3, <2>4, <2>5 DEF SessionStep
  <1>3. ASSUME NEW m \in net, Receive(m) PROVE StateOf(s)'
    BY <1>0, <1>3 DEF Receive, sessionVars
  <1>4. CASE DeviceStep
    BY <1>0, <1>4 DEF DeviceStep, DeviceLeaves, Execute, Drop, sessionVars
  <1>5. CASE UNCHANGED vars BY <1>0, <1>5 DEF vars, sessionVars
  <1> QED BY <1>1, <1>2, <1>3, <1>4, <1>5 DEF Next

\* The call part: only an open session takes calls, and the end of a close fails
\* all that are pending (lines 96-99, 155-158).
LEMMA WaitStep == TypeOK /\ SessionInv /\ [Next]_vars => \A c \in Calls : WaitOf(c)'
  <1> SUFFICES ASSUME TypeOK, SessionInv, [Next]_vars, NEW c \in Calls PROVE WaitOf(c)'
    OBVIOUS
  <1>0. WaitOf(c) BY SessionInvParts
  <1>1. ASSUME NEW k \in Calls, Take(k) \/ Offline(k) \/ SendFails(k) PROVE WaitOf(c)'
    <2>1. pc'[c] = "waiting" => pc[c] = "waiting" /\ via'[c] = via[c]
      BY <1>1 DEF Take, Offline, SendFails, Finish, TypeOK
    <2>2. fut' = fut /\ pending' = pending /\ closed' = closed
      BY <1>1 DEF Take, Offline, SendFails, sessionVars, idVars
    <2> QED BY <1>0, <2>1, <2>2 DEF WaitOf
  <1>2. ASSUME NEW k \in Calls, Send(k) PROVE WaitOf(c)'
    <2> DEFINE e == [via |-> via[k], id |-> FreshId(via[k]), call |-> k]
    <2>1. via[k] \in Sessions /\ via[k] # None /\ ~closed[via[k]]
      BY <1>2, SessionInvParts DEF Send, Usable, StateOf, TypeOK
    <2>2. pending' = pending \cup {e} /\ via' = via /\ closed' = closed
      BY <1>2 DEF Send, sessionVars
    <2>3. e.via = via[k] /\ e.call = k OBVIOUS
    <2> HIDE DEF e
    <2>4. CASE c = k BY <2>1, <2>2, <2>3, <2>4 DEF WaitOf
    <2>5. CASE c # k
      <3>1. pc'[c] = pc[c] /\ fut'[c] = fut[c] BY <1>2, <2>5 DEF Send, TypeOK
      <3> QED BY <1>0, <2>2, <3>1 DEF WaitOf
    <2> QED BY <2>4, <2>5
  <1>3. ASSUME NEW k \in Calls, NEW o, Resume(k, o) PROVE WaitOf(c)'
    <2>1. CASE c = k BY <1>3, <2>1 DEF Resume, Finish, WaitOf, TypeOK
    <2>2. CASE c # k
      <3>1. pc'[c] = pc[c] /\ via'[c] = via[c] /\ fut'[c] = fut[c] /\ closed' = closed
        BY <1>3, <2>2 DEF Resume, Finish, sessionVars, TypeOK
      <3>2. \A p \in pending : p.call = c => p \in pending'
        BY <1>3, <2>2 DEF Resume, PendingWithout
      <3> QED BY <1>0, <3>1, <3>2 DEF WaitOf
    <2> QED BY <2>1, <2>2
  <1>4. ASSUME NEW s \in Sessions, Connect(s) \/ CloseBegin(s) \/ HandlerEnds(s) \/ DeviceLeaves(s)
        PROVE  WaitOf(c)'
    BY <1>0, <1>4 DEF Connect, CloseBegin, HandlerEnds, DeviceLeaves, WaitOf, callVars,
                      sessionVars, idVars
  <1>5. ASSUME NEW s \in Sessions, CloseFinish(s) \/ CloseAgain(s) PROVE WaitOf(c)'
    <2>1. /\ pc' = pc /\ via' = via /\ fut' = FailPending(s)
          /\ pending' = {p \in pending : p.via # s} /\ closed' = [closed EXCEPT ![s] = TRUE]
      BY <1>5 DEF CloseFinish, CloseAgain, FailAndClear
    <2>2. fut'[c].kind = "wait" =>
            fut[c].kind = "wait" /\ ~(\E p \in pending : p.via = s /\ p.call = c)
      BY <2>1 DEF FailPending, Plain
    <2>3. via[c] # s => closed'[via[c]] = closed[via[c]] BY <2>1 DEF TypeOK
    <2> QED BY <1>0, <2>1, <2>2, <2>3 DEF WaitOf
  <1>6. ASSUME NEW m \in net, Receive(m) PROVE WaitOf(c)'
    <2>1. /\ pc' = pc /\ via' = via /\ pending' = pending /\ closed' = closed
          /\ fut'[c].kind = "wait" => fut[c].kind = "wait"
      BY <1>6 DEF Receive, sessionVars, idVars
    <2> QED BY <1>0, <2>1 DEF WaitOf
  <1>7. ASSUME NEW m \in net, Execute(m) \/ Drop(m) PROVE WaitOf(c)'
    BY <1>0, <1>7 DEF Execute, Drop, WaitOf, callVars, sessionVars, idVars
  <1>8. CASE UNCHANGED vars
    BY <1>0, <1>8 DEF vars, WaitOf, callVars, sessionVars, idVars
  <1> QED
    BY <1>1, <1>2, <1>3, <1>4, <1>5, <1>6, <1>7, <1>8
    DEF Next, CallStep, SessionStep, DeviceStep, Answered, Closed, Timeout

----------------------------------------------------------------------------
(* The theorems *)

\* IInv holds in every reachable state of the sessions of a device.
THEOREM Invariance == Spec => []IInv
  <1>1. Init => IInv
    <2> SUFFICES ASSUME Init PROVE IInv OBVIOUS
    <2>1. TypeOK BY DEF Init, TypeOK, PCs, Outcomes, Plain, Futures, Entries, Frames
    <2>2. IdInv BY DEF Init, IdInv, OwnAnswer, Plain
    <2>3. ExecInv BY DEF Init, ExecInv, Plain
    <2>4. SessionInv BY DEF Init, SessionInv, ClosedEndsCalls
    <2> QED BY <2>1, <2>2, <2>3, <2>4 DEF IInv
  <1>2. IInv /\ [Next]_vars => IInv'
    <2> SUFFICES ASSUME IInv, [Next]_vars PROVE IInv' OBVIOUS
    <2>1. SessionInv'
      <3>1. \A c \in Calls : WaitOf(c)' BY WaitStep DEF IInv
      <3>2. \A s \in Sessions : StateOf(s)' BY StateStep DEF IInv
      <3> QED BY <3>1, <3>2 DEF SessionInv, ClosedEndsCalls, WaitOf, StateOf
    <2> QED BY <2>1, TypeStep, IdStep, ExecStep DEF IInv
  <1> QED BY <1>1, <1>2, PTL DEF Spec

\* An answer on any session reaches the call that asked (lines 129-142).
THEOREM AnswersAreOwn == Spec => []OwnAnswer
BY Invariance, PTL DEF IInv, IdInv

\* Once async_close has returned nobody waits on the session (lines 150-158).
THEOREM ClosedIsQuiet == Spec => []ClosedEndsCalls
BY Invariance, PTL DEF IInv, SessionInv

\* The transport implements RpcCall without any replay: no call is executed
\* twice, and an answer is only returned after an execution (lines 101-127).
THEOREM Refinement == Spec => KeepsPromise
<1>1. Init => Promise!Init
  BY DEF Init, Promise!Init, status, StatusOf
<1>2. IInv /\ [Next]_vars => [Promise!Next]_<<status, executed>>
  <2> SUFFICES ASSUME IInv, [Next]_vars
               PROVE  Promise!Next \/ UNCHANGED <<status, executed>>
    OBVIOUS
  <2>0. TypeOK /\ ExecInv BY DEF IInv
  <2>1. ASSUME UNCHANGED outcome,
               \A c \in Calls : \/ pc'[c] = pc[c]
                                \/ pc[c] = "taken" /\ pc'[c] = "waiting"
        PROVE  UNCHANGED status
    BY <2>1 DEF status, StatusOf
  <2>2. ASSUME NEW c \in Calls, NEW o \in Outcomes \ {"none"}, Finish(c, o),
               pc[c] \in {"taken", "waiting"}, UNCHANGED executed,
               o = "answered" => executed[c] >= 1
        PROVE  Promise!Next
    <3> DEFINE a == IF o = "answered" THEN "answered" ELSE "unknown"
    <3>1. status[c] = "active" BY <2>2 DEF status, StatusOf
    <3>2. status' = [status EXCEPT ![c] = a]
      <4>1. StatusOf(c)' = a BY <2>0, <2>2 DEF Finish, StatusOf, TypeOK
      <4>2. \A d \in Calls \ {c} : StatusOf(d)' = StatusOf(d)
        BY <2>0, <2>2 DEF Finish, StatusOf, TypeOK
      <4> QED BY <4>1, <4>2 DEF status
    <3>3. Promise!Return(c)
      BY <2>2, <3>1, <3>2 DEF Promise!Return, Promise!Answers
    <3> QED BY <3>3 DEF Promise!Next
  <2>3. ASSUME NEW c \in Calls, Take(c) PROVE Promise!Next
    <3>1. pc[c] = "idle" /\ StatusOf(c) = "idle" BY <2>3 DEF Take, StatusOf
    <3>2. StatusOf(c)' = "active" BY <2>0, <2>3 DEF Take, StatusOf, TypeOK
    <3>3. \A d \in Calls \ {c} : StatusOf(d)' = StatusOf(d)
      BY <2>0, <2>3 DEF Take, StatusOf, TypeOK
    <3>4. status[c] = "idle" /\ status' = [status EXCEPT ![c] = "active"]
      BY <3>1, <3>2, <3>3 DEF status
    <3>5. UNCHANGED executed BY <2>3 DEF Take, devVars
    <3> QED BY <3>4, <3>5 DEF Promise!Next, Promise!Start
  <2>4. ASSUME NEW c \in Calls, CallStep(c) PROVE Promise!Next \/ UNCHANGED <<status, executed>>
    <3>1. CASE Offline(c)
      BY <2>2, <3>1 DEF Offline, Outcomes, devVars
    <3>2. CASE Send(c)
      BY <2>0, <2>1, <3>2 DEF Send, TypeOK
    <3>3. CASE SendFails(c)
      BY <2>2, <3>3 DEF SendFails, Outcomes, devVars
    <3>4. CASE Answered(c)
      <4>1. executed[c] = 1 BY <2>0, <3>4 DEF Answered, ExecInv
      <4> QED BY <2>2, <3>4, <4>1 DEF Answered, Resume, Outcomes, devVars
    <3>5. CASE Closed(c) \/ Timeout(c)
      BY <2>2, <3>5 DEF Closed, Timeout, Resume, Outcomes, devVars
    <3> QED BY <2>4, <3>1, <3>2, <3>3, <3>4, <3>5 DEF CallStep
  <2>5. ASSUME NEW s \in Sessions, SessionStep(s) PROVE UNCHANGED <<status, executed>>
    BY <2>1, <2>5 DEF SessionStep, Connect, HandlerEnds, CloseBegin, CloseFinish, CloseAgain,
                      callVars, devVars
  <2>6. ASSUME NEW m \in net, Receive(m) PROVE UNCHANGED <<status, executed>>
    BY <2>1, <2>6 DEF Receive
  <2>7. CASE DeviceStep
    <3>1. ASSUME NEW s \in Sessions, DeviceLeaves(s) PROVE UNCHANGED <<status, executed>>
      BY <2>1, <3>1 DEF DeviceLeaves, callVars
    <3>2. ASSUME NEW m \in net, Drop(m) PROVE UNCHANGED <<status, executed>>
      BY <2>1, <3>2 DEF Drop, callVars
    <3>3. ASSUME NEW m \in net, Execute(m) PROVE Promise!Next
      <4> DEFINE c == m.call
      <4>1. c \in Calls BY <2>0 DEF TypeOK, Frames
      <4>2. executed[c] = 0 /\ pc[c] \notin {"idle", "taken"}
        BY <2>0, <3>3, <4>1 DEF Execute, ExecInv
      <4>3. status[c] # "idle" /\ status[c] # "refused" BY <4>1, <4>2 DEF status, StatusOf
      <4>4. executed[c] < Promise!Limit(c) BY <4>2 DEF Promise!Limit
      <4>5. UNCHANGED status BY <2>1, <3>3 DEF Execute, callVars
      <4>6. executed' = [executed EXCEPT ![c] = @ + 1] BY <3>3 DEF Execute
      <4>7. Promise!Execute(c) BY <4>3, <4>4, <4>5, <4>6 DEF Promise!Execute
      <4> QED BY <4>1, <4>7 DEF Promise!Next
    <3> QED BY <2>7, <3>1, <3>2, <3>3 DEF DeviceStep
  <2>8. CASE UNCHANGED vars
    BY <2>1, <2>8 DEF vars, callVars, devVars
  <2> QED BY <2>3, <2>4, <2>5, <2>6, <2>7, <2>8 DEF Next
<1> QED BY <1>1, <1>2, Invariance, PTL DEF Spec, KeepsPromise, Promise!Spec
=============================================================================
