------------------------- MODULE DeviceState_proofs -------------------------
(* DeviceState keeps its invariant, for any components and tasks and any   *)
(* number of changes, connections and tasks begun.                         *)
EXTENDS DeviceState, TLAPS

Others(t) == \A u \in Tasks \ {t} : task'[u] = task[u]

LEMMA IdleFact == Idle \in TaskType
  BY DEF Idle, TaskType

LEMMA UnknownFact == Unknown \in Versions
  BY DEF Unknown, Versions

LEMMA OnlyFact ==
    ASSUME NEW c \in Components, NEW v \in Nat
    PROVE  /\ Only(c, v) \in Versions /\ Only(c, v)[c] = v
           /\ \A d \in Components \ {c} : Only(c, v)[d] = 0
  BY DEF Only, Unknown, Versions

LEMMA MergedFact ==
    ASSUME TypeOK, NEW news \in Versions
    PROVE  /\ Merged(news) \in Versions
           /\ \A c \in Components :
                 Merged(news)[c] = IF news[c] > 0 THEN news[c] ELSE status[c]
  BY DEF Merged, Named, Versions, TypeOK

\* What is written becomes the newest that was known unless it is older.
LEMMA WritesFact ==
    ASSUME TypeOK, NEW s \in Versions, Writes(s)
    PROVE  /\ status' = s /\ newest' \in Versions
           /\ \A c \in Components : newest'[c] = IF newest[c] > s[c] THEN newest[c] ELSE s[c]
  BY DEF Writes, Newer, Versions, TypeOK

-----------------------------------------------------------------------------
(* What each action does, in the terms of the proofs. *)

\* The device changes, or answers a task, and says so in the order of the events.
SendEffect ==
    /\ dev' \in Versions /\ \A c \in Components : dev[c] <= dev'[c]
    /\ queue' \in [Sessions -> Seq(Frames)]
    /\ line # 0 => \A c \in Components : dev'[c] # dev[c] =>
          \E k \in DOMAIN queue'[line] :
              queue'[line][k].type = "push" /\ queue'[line][k].body[c] = dev'[c]
    /\ \A s \in Sessions : \A k \in DOMAIN queue[s] :
          k \in DOMAIN queue'[s] /\ queue'[s][k] = queue[s][k]
    /\ \A s \in Sessions : \A k \in DOMAIN queue'[s] : k \notin DOMAIN queue[s] =>
          /\ s = line /\ Len(queue[s]) < k
          /\ \A c \in Components : queue'[s][k].body[c] <= dev'[c]
          /\ queue'[s][k].type = "push" =>
                /\ queue'[s][k].task = None
                /\ \A c \in Components : queue'[s][k].body[c] > 0 => queue'[s][k].body[c] = dev'[c]
          /\ \A t \in Tasks : queue'[s][k].task = t =>
                /\ task[t].pc = "wait" /\ task[t].ans = None /\ task[t].via = s
                /\ Reads(t) => queue'[s][k].body = dev'
                /\ \A l \in DOMAIN queue'[s] : queue'[s][l].task = t => l = k
    /\ UNCHANGED <<kind, present, sockets, record, task, begun, doctor, history>>

LEMMA AppendFact ==
    ASSUME NEW q \in Seq(Frames), NEW f \in Frames
    PROVE  /\ Append(q, f) \in Seq(Frames) /\ Len(Append(q, f)) = Len(q) + 1
           /\ Len(q) \in Nat /\ DOMAIN q = 1..Len(q) /\ DOMAIN Append(q, f) = 1..(Len(q) + 1)
           /\ \A k \in 1..Len(q) : Append(q, f)[k] = q[k]
           /\ Append(q, f)[Len(q) + 1] = f
  OBVIOUS

LEMMA FrameFact ==
    ASSUME NEW body \in Versions, NEW t \in Tasks
    PROVE  /\ Push(body) \in Frames /\ Push(body).type = "push" /\ Push(body).task = None
           /\ Push(body).body = body
           /\ Answer(t, body) \in Frames /\ Answer(t, body).type = "answer"
           /\ Answer(t, body).task = t /\ Answer(t, body).body = body
  BY DEF Push, Answer, Frames

\* One change of a component.
LEMMA NowFact ==
    ASSUME TypeOK, NEW c \in Components, NEW now, now = [dev EXCEPT ![c] = @ + 1]
    PROVE  /\ now \in Versions /\ now[c] = dev[c] + 1
           /\ \A d \in Components \ {c} : now[d] = dev[d]
           /\ \A d \in Components : dev[d] \in Nat /\ dev[d] <= now[d]
  BY DEF TypeOK, Versions

\* The socket that the device uses is one of them.
LEMMA LineFact ==
    ASSUME TypeOK, line # 0
    PROVE  line \in Sessions /\ queue[line] \in Seq(Frames)
  BY DeviceAssumption DEF TypeOK, Sessions

\* What the frames added at the end of the line make of all sockets.
LineEffect(said) ==
    /\ Len(queue[line]) \in Nat /\ said \in Seq(Frames)
    /\ \A k \in DOMAIN queue[line] : k \in DOMAIN said /\ said[k] = queue[line][k]
    /\ \A k \in DOMAIN said : k \notin DOMAIN queue[line] =>
          /\ Len(queue[line]) < k
          /\ \A c \in Components : said[k].body[c] <= dev'[c]
          /\ said[k].type = "push" =>
                /\ said[k].task = None
                /\ \A c \in Components : said[k].body[c] > 0 => said[k].body[c] = dev'[c]
          /\ \A t \in Tasks : said[k].task = t =>
                /\ task[t].pc = "wait" /\ task[t].ans = None /\ task[t].via = line
                /\ Reads(t) => said[k].body = dev'
                /\ \A l \in DOMAIN said : said[l].task = t => l = k
    /\ \A c \in Components : dev'[c] # dev[c] =>
          \E k \in DOMAIN said : said[k].type = "push" /\ said[k].body[c] = dev'[c]

LEMMA LineSends ==
    ASSUME TypeOK, line # 0, NEW said, LineEffect(said), queue' = [queue EXCEPT ![line] = said],
           dev' \in Versions, \A c \in Components : dev[c] <= dev'[c],
           UNCHANGED <<kind, present, sockets, record, task, begun, doctor, history>>
    PROVE  SendEffect
  <1>1. line \in Sessions /\ queue \in [Sessions -> Seq(Frames)] /\ said \in Seq(Frames)
    BY LineFact DEF TypeOK, LineEffect
  <1>2. /\ queue' \in [Sessions -> Seq(Frames)] /\ queue'[line] = said
        /\ \A s \in Sessions \ {line} : queue'[s] = queue[s]
    BY <1>1
  <1>3. \A c \in Components : dev'[c] # dev[c] =>
          \E k \in DOMAIN queue'[line] :
              queue'[line][k].type = "push" /\ queue'[line][k].body[c] = dev'[c]
    BY <1>2 DEF LineEffect
  <1>4. \A s \in Sessions : \A k \in DOMAIN queue[s] :
          k \in DOMAIN queue'[s] /\ queue'[s][k] = queue[s][k]
    BY <1>2 DEF LineEffect
  <1>5. ASSUME NEW s \in Sessions, NEW k \in DOMAIN queue'[s], k \notin DOMAIN queue[s]
        PROVE  /\ s = line /\ Len(queue[s]) < k
               /\ \A c \in Components : queue'[s][k].body[c] <= dev'[c]
               /\ queue'[s][k].type = "push" =>
                     /\ queue'[s][k].task = None
                     /\ \A c \in Components :
                           queue'[s][k].body[c] > 0 => queue'[s][k].body[c] = dev'[c]
               /\ \A t \in Tasks : queue'[s][k].task = t =>
                     /\ task[t].pc = "wait" /\ task[t].ans = None /\ task[t].via = s
                     /\ Reads(t) => queue'[s][k].body = dev'
                     /\ \A l \in DOMAIN queue'[s] : queue'[s][l].task = t => l = k
    <2>1. s = line /\ queue'[s] = said BY <1>2, <1>5
    <2> QED BY <1>5, <2>1 DEF LineEffect
  <1> QED BY <1>2, <1>3, <1>4, <1>5, Zenon DEF SendEffect

LEMMA ChangesFact ==
    ASSUME TypeOK, SessionInv, VersionsInv, NEW c \in Components, NEW full \in BOOLEAN,
           DeviceChanges(c, full)
    PROVE  SendEffect
  <1> DEFINE now == [dev EXCEPT ![c] = @ + 1]
             news == IF full THEN now ELSE Only(c, now[c])
             said == Append(queue[line], Push(news))
  <1>1. /\ now \in Versions /\ now[c] = dev[c] + 1
        /\ \A d \in Components \ {c} : now[d] = dev[d]
        /\ \A d \in Components : dev[d] \in Nat /\ dev[d] <= now[d]
    BY NowFact
  <1>2. /\ dev' = now
        /\ queue' = IF line = 0 THEN queue ELSE [queue EXCEPT ![line] = said]
        /\ UNCHANGED <<kind, present, sockets, record, task, begun, doctor, history>>
    BY DEF DeviceChanges, Changed
  <1> HIDE DEF now
  <1>3. /\ news \in Versions /\ news[c] = now[c]
        /\ \A d \in Components : news[d] > 0 => news[d] = now[d]
        /\ \A d \in Components : news[d] <= now[d]
    <2>1. /\ now[c] \in Nat /\ \A d \in Components : now[d] \in Nat
      BY <1>1 DEF Versions
    <2>2. /\ Only(c, now[c]) \in Versions /\ Only(c, now[c])[c] = now[c]
          /\ \A d \in Components \ {c} : Only(c, now[c])[d] = 0
      BY <2>1, OnlyFact
    <2>3. CASE full BY <1>1, <2>1, <2>3
    <2>4. CASE ~full BY <2>1, <2>2, <2>4
    <2> QED BY <2>3, <2>4
  <1> HIDE DEF news
  <1>4. CASE line = 0
    <2>1. queue' = queue /\ queue \in [Sessions -> Seq(Frames)] BY <1>2, <1>4 DEF TypeOK
    <2> QED BY <1>1, <1>2, <1>4, <2>1 DEF SendEffect
  <1>5. CASE line # 0
    <2>0. Push(news) \in Frames /\ Push(news).type = "push" /\ Push(news).task = None
          /\ Push(news).body = news
      BY <1>3 DEF Push, Frames
    <2>1. queue' = [queue EXCEPT ![line] = said] BY <1>2, <1>5
    <2> DEFINE q == queue[line]
    <2>2. /\ said \in Seq(Frames) /\ Len(q) \in Nat /\ DOMAIN q = 1..Len(q)
          /\ DOMAIN said = 1..(Len(q) + 1)
          /\ \A k \in 1..Len(q) : said[k] = q[k]
          /\ said[Len(q) + 1] = Push(news)
      BY <1>5, <2>0, AppendFact, LineFact
    <2> HIDE DEF said, q
    <2>4. None \notin Tasks BY DeviceAssumption
    <2>5. \A d \in Components : dev'[d] # dev[d] =>
            \E k \in DOMAIN said : said[k].type = "push" /\ said[k].body[d] = dev'[d]
      BY <1>1, <1>2, <1>3, <2>0, <2>2
    <2>6. \A k \in DOMAIN q : k \in DOMAIN said /\ said[k] = q[k] BY <2>2
    <2>7. \A k \in DOMAIN said : k \notin DOMAIN q =>
            /\ Len(q) < k /\ said[k].task = None /\ said[k].body = news
      BY <2>0, <2>2
    <2>8. \A k \in DOMAIN said : k \notin DOMAIN q =>
            /\ \A d \in Components : said[k].body[d] <= dev'[d]
            /\ \A d \in Components : said[k].body[d] > 0 => said[k].body[d] = dev'[d]
            /\ \A t \in Tasks : said[k].task # t
      BY <1>2, <1>3, <2>4, <2>7
    <2>9. dev' \in Versions /\ \A d \in Components : dev[d] <= dev'[d] BY <1>1, <1>2
    <2>10. LineEffect(said) BY <2>2, <2>5, <2>6, <2>7, <2>8, Zenon DEF LineEffect, q
    <2> QED BY <1>2, <1>5, <2>1, <2>9, <2>10, LineSends
  <1> QED BY <1>4, <1>5

LEMMA ExecutesFact ==
    ASSUME TypeOK, SessionInv, FramesInv, VersionsInv, NEW t \in Tasks, Executes(t)
    PROVE  SendEffect
  <1> DEFINE q == queue[line]
  <1>0. /\ task[t].pc = "wait" /\ task[t].ans = None /\ task[t].via = line /\ line # 0
        /\ \A k \in DOMAIN q : q[k].task # t
        /\ UNCHANGED <<kind, present, sockets, record, task, begun, doctor, history>>
        /\ q \in Seq(Frames) /\ dev \in Versions /\ None \notin Tasks
        /\ \A c \in Components : dev[c] \in Nat
    BY DeviceAssumption, LineFact DEF Executes, TypeOK, Versions
  <1> HIDE DEF q
  <1>1. CASE task[t].does # "set" /\ dev' = dev
             /\ queue' = [queue EXCEPT ![line] =
                            Append(q, Answer(t, IF Reads(t) THEN dev ELSE Unknown))]
    <2> DEFINE body == IF Reads(t) THEN dev ELSE Unknown
               said == Append(q, Answer(t, body))
    <2>1. /\ body \in Versions
          /\ Reads(t) => body = dev
          /\ \A c \in Components : body[c] <= dev[c]
      BY <1>0, UnknownFact DEF Unknown
    <2>2. queue' = [queue EXCEPT ![line] = said] BY <1>1
    <2> HIDE DEF body
    <2>3. /\ Answer(t, body) \in Frames /\ Answer(t, body).type = "answer"
          /\ Answer(t, body).task = t /\ Answer(t, body).body = body
      BY <2>1, FrameFact
    <2>4. /\ said \in Seq(Frames)
          /\ Len(q) \in Nat /\ DOMAIN q = 1..Len(q)
          /\ DOMAIN said = 1..(Len(q) + 1)
          /\ \A k \in 1..Len(q) : said[k] = q[k]
          /\ said[Len(q) + 1] = Answer(t, body)
      BY <1>0, <2>3, AppendFact
    <2> HIDE DEF said
    <2>5. /\ dev' \in Versions /\ \A c \in Components : dev[c] <= dev'[c] /\ dev'[c] = dev[c]
      BY <1>0, <1>1
    <2>6. \A k \in DOMAIN q : k \in DOMAIN said /\ said[k] = q[k] BY <2>4
    <2>7. \A k \in DOMAIN said : k \notin DOMAIN q => k = Len(q) + 1
      BY <2>4
    <2>8. \A k \in DOMAIN said : k \notin DOMAIN q =>
            /\ Len(q) < k
            /\ \A c \in Components : said[k].body[c] <= dev'[c]
            /\ said[k].type # "push"
            /\ \A u \in Tasks : said[k].task = u =>
                  /\ u = t
                  /\ Reads(u) => said[k].body = dev'
                  /\ \A l \in DOMAIN said : said[l].task = u => l = k
      <3> SUFFICES ASSUME NEW k \in DOMAIN said, k \notin DOMAIN q
                   PROVE  /\ Len(q) < k
                          /\ \A c \in Components : said[k].body[c] <= dev'[c]
                          /\ said[k].type # "push"
                          /\ \A u \in Tasks : said[k].task = u =>
                                /\ u = t
                                /\ Reads(u) => said[k].body = dev'
                                /\ \A l \in DOMAIN said : said[l].task = u => l = k
        OBVIOUS
      <3>1. k = Len(q) + 1 /\ said[k] = Answer(t, body) BY <2>4, <2>7
      <3>2. \A l \in DOMAIN said : said[l].task = t => l = k BY <1>0, <2>4, <2>7, <3>1
      <3> QED BY <1>1, <2>1, <2>3, <2>4, <2>5, <3>1, <3>2
    <2>9. LineEffect(said)
      BY <1>0, <2>4, <2>5, <2>6, <2>8, ZenonT(30) DEF LineEffect, q
    <2> QED BY <1>0, <2>2, <2>5, <2>9, LineSends
  <1>2. ASSUME task[t].does = "set", NEW c \in Components,
               dev' = [dev EXCEPT ![c] = @ + 1],
               queue' = [queue EXCEPT ![line] =
                           Append(Append(q, Push(Only(c, dev'[c]))), Answer(t, Only(c, dev'[c])))]
        PROVE  SendEffect
    <2> DEFINE news == Only(c, dev'[c])
               pushed == Append(q, Push(news))
               said == Append(pushed, Answer(t, news))
    <2>1. /\ dev' \in Versions /\ dev'[c] = dev[c] + 1
          /\ \A d \in Components \ {c} : dev'[d] = dev[d]
          /\ \A d \in Components : dev[d] \in Nat /\ dev[d] <= dev'[d]
      BY <1>2, NowFact
    <2>2. /\ news \in Versions /\ news[c] = dev'[c]
          /\ \A d \in Components : news[d] > 0 => news[d] = dev'[d]
          /\ \A d \in Components : news[d] <= dev'[d]
      <3>1. dev'[c] \in Nat /\ \A d \in Components : dev'[d] \in Nat BY <2>1 DEF Versions
      <3> QED BY <3>1, OnlyFact
    <2>5. queue' = [queue EXCEPT ![line] = said] BY <1>2
    <2> HIDE DEF news
    <2>3. /\ Push(news) \in Frames /\ Push(news).type = "push" /\ Push(news).task = None
          /\ Push(news).body = news
          /\ Answer(t, news) \in Frames /\ Answer(t, news).type = "answer"
          /\ Answer(t, news).task = t /\ Answer(t, news).body = news
      BY <2>2, FrameFact
    <2>4. /\ pushed \in Seq(Frames) /\ Len(pushed) = Len(q) + 1
          /\ Len(q) \in Nat /\ DOMAIN q = 1..Len(q)
          /\ \A k \in 1..Len(q) : pushed[k] = q[k]
          /\ pushed[Len(q) + 1] = Push(news)
      BY <1>0, <2>3, AppendFact
    <2> HIDE DEF pushed
    <2>6. /\ said \in Seq(Frames) /\ Len(said) = Len(pushed) + 1
          /\ DOMAIN said = 1..(Len(pushed) + 1)
          /\ \A k \in 1..Len(pushed) : said[k] = pushed[k]
          /\ said[Len(pushed) + 1] = Answer(t, news)
      BY <2>3, <2>4, AppendFact
    <2> HIDE DEF said
    <2>7. /\ DOMAIN said = 1..(Len(q) + 2)
          /\ \A k \in 1..Len(q) : said[k] = q[k]
          /\ said[Len(q) + 1] = Push(news) /\ said[Len(q) + 2] = Answer(t, news)
      BY <2>4, <2>6
    <2>8. \A k \in DOMAIN q : k \in DOMAIN said /\ said[k] = q[k] BY <2>4, <2>7
    <2>9. \A k \in DOMAIN said : k \notin DOMAIN q => k = Len(q) + 1 \/ k = Len(q) + 2
      BY <2>4, <2>7
    <2>10. \A k \in DOMAIN said : k \notin DOMAIN q =>
            /\ Len(q) < k
            /\ \A d \in Components : said[k].body[d] <= dev'[d]
            /\ said[k].type = "push" =>
                  /\ said[k].task = None
                  /\ \A d \in Components : said[k].body[d] > 0 => said[k].body[d] = dev'[d]
            /\ \A u \in Tasks : said[k].task = u =>
                  /\ u = t
                  /\ \A l \in DOMAIN said : said[l].task = u => l = k
      <3> SUFFICES ASSUME NEW k \in DOMAIN said, k \notin DOMAIN q
                   PROVE  /\ Len(q) < k
                          /\ \A d \in Components : said[k].body[d] <= dev'[d]
                          /\ said[k].type = "push" =>
                                /\ said[k].task = None
                                /\ \A d \in Components :
                                      said[k].body[d] > 0 => said[k].body[d] = dev'[d]
                          /\ \A u \in Tasks : said[k].task = u =>
                                /\ u = t
                                /\ \A l \in DOMAIN said : said[l].task = u => l = k
        OBVIOUS
      <3>1. \A l \in DOMAIN said : said[l].task = t => l = Len(q) + 2
        BY <1>0, <2>3, <2>7, <2>8, <2>9
      <3>2. CASE k = Len(q) + 1 BY <1>0, <2>2, <2>3, <2>4, <2>7, <3>2
      <3>3. CASE k = Len(q) + 2 BY <1>0, <2>2, <2>3, <2>4, <2>7, <3>1, <3>3
      <3> QED BY <2>9, <3>2, <3>3
    <2>11. \A d \in Components : dev'[d] # dev[d] =>
             \E k \in DOMAIN said : said[k].type = "push" /\ said[k].body[d] = dev'[d]
      BY <2>1, <2>2, <2>3, <2>4, <2>7
    <2>12. ~Reads(t) BY <1>2 DEF Reads
    <2>13. \A k \in DOMAIN said : k \notin DOMAIN q =>
             \A u \in Tasks : said[k].task = u =>
                /\ task[u].pc = "wait" /\ task[u].ans = None /\ task[u].via = line
                /\ Reads(u) => said[k].body = dev'
      BY <1>0, <2>10, <2>12, Zenon
    <2>14. /\ dev' \in Versions
           /\ \A d \in Components : dev[d] <= dev'[d]
      BY <2>1
    <2>15. ASSUME NEW k \in DOMAIN said, k \notin DOMAIN q
           PROVE  /\ Len(q) < k
                  /\ \A d \in Components : said[k].body[d] <= dev'[d]
                  /\ said[k].type = "push" =>
                        /\ said[k].task = None
                        /\ \A d \in Components : said[k].body[d] > 0 => said[k].body[d] = dev'[d]
                  /\ \A u \in Tasks : said[k].task = u =>
                        /\ task[u].pc = "wait" /\ task[u].ans = None /\ task[u].via = line
                        /\ Reads(u) => said[k].body = dev'
                        /\ \A l \in DOMAIN said : said[l].task = u => l = k
      <3>1. /\ Len(q) < k
            /\ \A d \in Components : said[k].body[d] <= dev'[d]
            /\ said[k].type = "push" =>
                  /\ said[k].task = None
                  /\ \A d \in Components : said[k].body[d] > 0 => said[k].body[d] = dev'[d]
        BY <2>10, <2>15, Zenon
      <3>2. \A u \in Tasks : said[k].task = u => \A l \in DOMAIN said : said[l].task = u => l = k
        BY <2>10, <2>15, Zenon
      <3> QED BY <2>13, <2>15, <3>1, <3>2, Zenon
    <2>16. LineEffect(said)
      BY <2>4, <2>6, <2>8, <2>11, <2>15, Zenon DEF LineEffect, q
    <2> QED BY <1>0, <2>5, <2>14, <2>16, LineSends
  <1>3. \/ /\ task[t].does # "set" /\ dev' = dev
           /\ queue' = [queue EXCEPT ![line] =
                          Append(q, Answer(t, IF Reads(t) THEN dev ELSE Unknown))]
        \/ /\ task[t].does = "set"
           /\ \E c \in Components :
                /\ dev' = [dev EXCEPT ![c] = @ + 1]
                /\ queue' = [queue EXCEPT ![line] =
                               Append(Append(q, Push(Only(c, dev'[c]))),
                                      Answer(t, Only(c, dev'[c])))]
    BY LineFact DEF Executes, TypeOK, q
  <1>4. CASE task[t].does = "set"
    <2>1. PICK c \in Components :
            /\ dev' = [dev EXCEPT ![c] = @ + 1]
            /\ queue' = [queue EXCEPT ![line] =
                           Append(Append(q, Push(Only(c, dev'[c]))),
                                  Answer(t, Only(c, dev'[c])))]
      BY <1>3, <1>4
    <2> QED BY <1>2, <1>4, <2>1, Zenon
  <1>5. CASE task[t].does # "set" BY <1>1, <1>3, <1>5
  <1> QED BY <1>4, <1>5

\* The manager takes the first frame of a socket: a push is written, an answer
\* goes to its task.
HandleEffect(s) ==
    /\ s \in served /\ queue' \in [Sessions -> Seq(Frames)]
    /\ \A r \in Sessions \ {s} : queue'[r] = queue[r]
    /\ Len(queue[s]) \in Nat \ {0}
    /\ DOMAIN queue[s] = 1..Len(queue[s]) /\ DOMAIN queue'[s] = 1..(Len(queue[s]) - 1)
    /\ \A k \in DOMAIN queue'[s] : queue'[s][k] = queue[s][k + 1]
    /\ heard' = IF heard > s THEN heard ELSE s
    /\ \/ /\ queue[s][1].type = "push" /\ task' = task /\ online' = TRUE /\ error' = FALSE
          /\ status' \in Versions /\ newest' \in Versions
          /\ \A c \in Components :
                /\ status'[c] = IF queue[s][1].body[c] > 0 THEN queue[s][1].body[c] ELSE status[c]
                /\ newest'[c] = IF newest[c] > status'[c] THEN newest[c] ELSE status'[c]
       \/ /\ queue[s][1].type # "push"
          /\ UNCHANGED <<online, error, status, newest>>
          /\ \E t \in Tasks :
                /\ queue[s][1].task = t /\ task' \in [Tasks -> TaskType] /\ Others(t)
                /\ task'[t].pc = task[t].pc /\ task'[t].does = task[t].does
                /\ task'[t].via = task[t].via /\ task'[t].ans = queue[s][1].body
       \/ /\ queue[s][1].type # "push" /\ \A t \in Tasks : queue[s][1].task # t
          /\ UNCHANGED <<online, error, status, newest, task>>
    /\ UNCHANGED <<kind, present, sockets, dev, discovered, begun, doctor, failed, leftover>>

LEMMA HandleFact ==
    ASSUME TypeOK, NEW s \in Sessions, HandleFrame(s)
    PROVE  HandleEffect(s)
  <1> DEFINE q == queue[s]
             f == q[1]
  <1>1. /\ q \in Seq(Frames) /\ q # << >> /\ queue' = [queue EXCEPT ![s] = Tail(q)]
        /\ queue \in [Sessions -> Seq(Frames)] /\ s \in served
        /\ UNCHANGED <<kind, present, sockets, dev, begun, doctor, failed, leftover>>
    BY DEF HandleFrame, TypeOK
  <1>2. /\ Len(q) \in Nat \ {0} /\ queue' \in [Sessions -> Seq(Frames)]
        /\ \A r \in Sessions \ {s} : queue'[r] = queue[r]
        /\ DOMAIN q = 1..Len(q) /\ DOMAIN queue'[s] = 1..(Len(q) - 1)
        /\ \A k \in DOMAIN queue'[s] : queue'[s][k] = q[k + 1]
    <2> HIDE DEF q
    <2>1. /\ Len(q) \in Nat \ {0} /\ Tail(q) \in Seq(Frames)
          /\ DOMAIN q = 1..Len(q) /\ DOMAIN Tail(q) = 1..(Len(q) - 1)
          /\ \A k \in DOMAIN Tail(q) : Tail(q)[k] = q[k + 1]
      BY <1>1
    <2> QED BY <1>1, <2>1
  <1>3. f \in Frames /\ f = Head(q) BY <1>1, <1>2
  <1>4. /\ f.type \in {"push", "answer"} /\ f.task \in Tasks \cup {None} /\ f.body \in Versions
    BY <1>3 DEF Frames
  <1>5. heard' = IF heard > s THEN heard ELSE s BY DEF HandleFrame, Newer
  <1>6. CASE f.type = "push"
    <2>1. Writes(Merged(f.body)) /\ MarkSeen /\ UNCHANGED <<task, discovered>>
      BY <1>3, <1>6 DEF HandleFrame
    <2>2. /\ Merged(f.body) \in Versions
          /\ \A c \in Components :
                Merged(f.body)[c] = IF f.body[c] > 0 THEN f.body[c] ELSE status[c]
      BY <1>4, MergedFact
    <2>3. /\ status' = Merged(f.body) /\ newest' \in Versions
          /\ \A c \in Components : newest'[c] = IF newest[c] > Merged(f.body)[c]
                                                THEN newest[c] ELSE Merged(f.body)[c]
      BY <2>1, <2>2, WritesFact
    <2>4. online' = TRUE /\ error' = FALSE /\ task' = task /\ discovered' = discovered
      BY <2>1 DEF MarkSeen
    <2>5. status' \in Versions
          /\ \A c \in Components :
                /\ status'[c] = IF f.body[c] > 0 THEN f.body[c] ELSE status[c]
                /\ newest'[c] = IF newest[c] > status'[c] THEN newest[c] ELSE status'[c]
      BY <2>2, <2>3
    <2> QED BY <1>1, <1>2, <1>5, <1>6, <2>3, <2>4, <2>5, Zenon DEF HandleEffect
  <1>7. CASE f.type # "push" /\ f.task \in Tasks
    <2>1. /\ task' = [task EXCEPT ![f.task].ans = f.body]
          /\ UNCHANGED <<online, error, status, newest, discovered>>
      BY <1>3, <1>4, <1>7 DEF HandleFrame, record
    <2>2. task \in [Tasks -> TaskType] BY DEF TypeOK
    <2> DEFINE t == f.task
    <2>3. /\ t \in Tasks /\ task' \in [Tasks -> TaskType] /\ Others(t)
          /\ task'[t].pc = task[t].pc /\ task'[t].does = task[t].does
          /\ task'[t].via = task[t].via /\ task'[t].ans = f.body
      BY <1>4, <1>7, <2>1, <2>2 DEF TaskType, Others
    <2> QED BY <1>1, <1>2, <1>5, <1>7, <2>1, <2>3, Zenon DEF HandleEffect
  <1>8. CASE f.type # "push" /\ f.task \notin Tasks
    <2>1. UNCHANGED <<online, error, status, newest, discovered, task>>
      BY <1>3, <1>8 DEF HandleFrame, record
    <2> QED BY <1>1, <1>2, <1>5, <1>8, <2>1, Zenon DEF HandleEffect
  <1> QED BY <1>6, <1>7, <1>8

\* A task that ends leaves frames for nobody.
Forgets(t) ==
    /\ queue' \in [Sessions -> Seq(Frames)]
    /\ \A s \in Sessions :
          /\ DOMAIN queue'[s] = DOMAIN queue[s]
          /\ \A k \in DOMAIN queue[s] :
                /\ queue'[s][k].type = queue[s][k].type /\ queue'[s][k].body = queue[s][k].body
                /\ queue'[s][k].task = IF queue[s][k].task = t THEN None ELSE queue[s][k].task

\* A task goes on with its answer, without it, or after the capabilities were read.
TaskEffect(t) ==
    /\ task[t].pc # "idle" /\ task' \in [Tasks -> TaskType] /\ Others(t)
    /\ \/ task'[t] = Idle
       \/ /\ Reads(t) /\ task'[t].pc \in {"discover", "inspect"} /\ task'[t].ans = None
          /\ task'[t].does = task[t].does /\ task'[t].via = task[t].via
    /\ HasWord(t)' => HasWord(t)
    /\ Forgets(t)
    /\ status' \in Versions /\ newest' \in Versions
    /\ \/ status' = status /\ newest' = newest
       \/ /\ task[t].ans # None
          /\ \A c \in Components : status'[c] \in {status[c], task[t].ans[c]}
    /\ \A c \in Components : newest[c] <= newest'[c]
    /\ \A c \in Components : newest'[c] # newest[c] =>
          task[t].ans # None /\ newest'[c] = task[t].ans[c]
    /\ \A c \in Components : status'[c] # status[c] => status'[c] <= newest'[c]
    /\ task'[t].pc = "discover" \/ (Reads(t) /\ task[t].pc = "wait") =>
          \/ task[t].pc = "wait" /\ task[t].ans = None /\ (task[t].via = line => failed')
             /\ task'[t] = Idle
          \/ /\ Reads(t) /\ task[t].ans # None
             /\ \A c \in Components : task[t].ans[c] <= newest'[c]
    /\ failed /\ ~failed' => /\ Reads(t) /\ task[t].via = line
                             /\ task[t].pc = "discover" \/ task[t].ans # None
    /\ online' \in BOOLEAN /\ error' \in BOOLEAN /\ discovered' \in BOOLEAN
    /\ failed' \in BOOLEAN
    /\ online' => online \/ HasWord(t)
    /\ ~online' => error' \/ (~online /\ (error => error'))
    /\ issues' \in SUBSET Keys /\ active' \in SUBSET Keys /\ report' \in {None} \cup SUBSET Keys
    /\ present => \/ UNCHANGED <<issues, active, report>>
                  \/ \E errors \in SUBSET Keys :
                        /\ active' = errors /\ report' = errors /\ errors \subseteq issues'
                        /\ issues' \subseteq errors \cup (issues \ active)
    /\ UNCHANGED <<kind, present, sockets, dev, begun, inherited, heard, leftover>>

\* The steps that write no frame for nobody leave the sockets as they are: a task
\* that has its answer, or waits for none, has no frame on one.
LEMMA SameQueue ==
    ASSUME TypeOK, FramesInv, NEW t \in Tasks, task[t].pc # "wait" \/ task[t].ans # None,
           queue' = queue
    PROVE  Forgets(t)
  <1>1. \A s \in Sessions : \A k \in DOMAIN queue[s] : queue[s][k].task # t BY DEF FramesInv
  <1>2. queue \in [Sessions -> Seq(Frames)] BY DEF TypeOK
  <1> QED BY <1>1, <1>2, Zenon DEF Forgets

\* Frames for a task that gave up are for nobody.
LEMMA WithoutFact ==
    ASSUME TypeOK, NEW t \in Tasks, queue' = WithoutAnswer(t)
    PROVE  Forgets(t)
  <1> DEFINE Out(s) == [k \in DOMAIN queue[s] |->
                 IF queue[s][k].task = t THEN [queue[s][k] EXCEPT !.task = None] ELSE queue[s][k]]
  <1>1. queue' = [s \in Sessions |-> Out(s)] BY DEF WithoutAnswer
  <1>2. ASSUME NEW s \in Sessions
        PROVE  /\ Out(s) \in Seq(Frames) /\ DOMAIN Out(s) = DOMAIN queue[s]
               /\ \A k \in DOMAIN queue[s] :
                     /\ Out(s)[k].type = queue[s][k].type /\ Out(s)[k].body = queue[s][k].body
                     /\ Out(s)[k].task = IF queue[s][k].task = t THEN None ELSE queue[s][k].task
    <2> DEFINE q == queue[s]
               N == Len(q)
    <2>1. q \in Seq(Frames) /\ N \in Nat /\ DOMAIN q = 1..N /\ \A k \in 1..N : q[k] \in Frames
      BY DEF TypeOK
    <2> HIDE DEF q, N
    <2>2. \A k \in 1..N : /\ q[k].type \in {"push", "answer"}
                          /\ q[k].task \in Tasks \cup {None} /\ q[k].body \in Versions
                          /\ q[k] = [type |-> q[k].type, task |-> q[k].task, body |-> q[k].body]
      BY <2>1 DEF Frames
    <2> DEFINE o == [k \in 1..N |-> IF q[k].task = t THEN [q[k] EXCEPT !.task = None] ELSE q[k]]
    <2>3. Out(s) = o BY <2>1 DEF q
    <2>4. \A k \in 1..N : /\ o[k] \in Frames
                          /\ o[k].type = q[k].type /\ o[k].body = q[k].body
                          /\ o[k].task = IF q[k].task = t THEN None ELSE q[k].task
      BY <2>1, <2>2 DEF Frames
    <2>5. DOMAIN o = 1..N /\ o \in [1..N -> Frames] BY <2>4
    <2> HIDE DEF o
    <2>6. o \in Seq(Frames) BY <2>1, <2>5
    <2> QED BY <2>1, <2>3, <2>4, <2>5, <2>6 DEF q
  <1> HIDE DEF Out
  <1>3. /\ queue' \in [Sessions -> Seq(Frames)]
        /\ \A s \in Sessions : queue'[s] = Out(s)
    BY <1>1, <1>2
  <1> QED BY <1>2, <1>3, Zenon DEF Forgets

LEMMA EndsFact ==
    ASSUME TypeOK, NEW t \in Tasks, Ends(t)
    PROVE  /\ task' \in [Tasks -> TaskType] /\ Others(t)
           /\ task'[t] = Idle /\ task'[t].pc = "idle" /\ ~HasWord(t)'
  <1>1. task' = [task EXCEPT ![t] = Idle] /\ task \in [Tasks -> TaskType] BY DEF Ends, TypeOK
  <1> QED BY <1>1, IdleFact DEF Others, Idle, HasWord

LEMMA GoesFact ==
    ASSUME TypeOK, NEW t \in Tasks, NEW pc \in {"discover", "inspect"}, Goes(t, pc)
    PROVE  /\ task' \in [Tasks -> TaskType] /\ Others(t)
           /\ task'[t].pc = pc /\ task'[t].ans = None
           /\ task'[t].does = task[t].does /\ task'[t].via = task[t].via
  BY DEF Goes, TypeOK, TaskType, Others

\* What an answer, whole or merged, does to the record and to the newest that it has had.
Wrote(ans) ==
    /\ status' \in Versions /\ newest' \in Versions
    /\ \A c \in Components : status'[c] \in {status[c], ans[c]}
    /\ \A c \in Components : newest[c] <= newest'[c]
    /\ \A c \in Components : newest'[c] # newest[c] => newest'[c] = ans[c]
    /\ \A c \in Components : status'[c] # status[c] => status'[c] <= newest'[c]

LEMMA WroteFact ==
    ASSUME TypeOK, VersionsInv, NEW ans \in Versions, NEW s \in Versions, Writes(s),
           \A c \in Components : s[c] \in {status[c], ans[c]}
    PROVE  Wrote(ans) /\ \A c \in Components : s[c] <= newest'[c]
  <1>1. /\ status' = s /\ newest' \in Versions
        /\ \A c \in Components : newest'[c] = IF newest[c] > s[c] THEN newest[c] ELSE s[c]
    BY WritesFact
  <1>2. \A c \in Components : /\ status[c] \in Nat /\ newest[c] \in Nat /\ s[c] \in Nat
                              /\ ans[c] \in Nat /\ newest'[c] \in Nat /\ status[c] <= newest[c]
    BY <1>1 DEF TypeOK, Versions, VersionsInv
  <1>3. \A c \in Components :
           /\ newest[c] <= newest'[c] /\ s[c] <= newest'[c]
           /\ newest'[c] # newest[c] => newest'[c] = ans[c]
    BY <1>1, <1>2
  <1> QED BY <1>1, <1>3 DEF Wrote

LEMMA AnswerFact ==
    ASSUME TypeOK, FramesInv, NEW t \in Tasks, task[t].ans # None
    PROVE  task[t].ans \in Versions /\ task[t].pc = "wait"
  BY DEF TypeOK, TaskType, FramesInv

\* A refresh that has its answers, with the capabilities known or still to be read.
LEMMA RefreshWritesFact ==
    ASSUME TypeOK, SessionInv, FramesInv, VersionsInv, NEW t \in Tasks, RefreshWrites(t)
    PROVE  TaskEffect(t)
  <1> DEFINE ans == task[t].ans
  <1>1. /\ Reads(t) /\ task[t].pc = "wait" /\ ans # None /\ ans \in Versions /\ Writes(ans)
        /\ UNCHANGED <<kind, present, sockets, dev, queue, discovered, begun, issues,
                       active, report, inherited, heard, leftover>>
    BY AnswerFact DEF RefreshWrites, Answered, doctor
  <1>2. Forgets(t) BY <1>1, SameQueue
  <1>3. Wrote(ans) /\ \A c \in Components : ans[c] <= newest'[c] BY <1>1, WroteFact
  <1>4. /\ task' \in [Tasks -> TaskType] /\ Others(t)
        /\ \/ task'[t] = Idle
           \/ /\ task'[t].pc \in {"discover", "inspect"} /\ task'[t].ans = None
              /\ task'[t].does = task[t].does /\ task'[t].via = task[t].via
    <2>1. Ends(t) \/ Goes(t, "inspect") \/ Goes(t, "discover") BY DEF RefreshWrites
    <2> QED BY <2>1, EndsFact, GoesFact
  <1>5. \/ online' = TRUE /\ error' = FALSE /\ failed' = (failed /\ task[t].via # line)
        \/ UNCHANGED <<online, error, failed>>
    BY DEF RefreshWrites, MarkSeen, Heals
  <1>6. /\ online \in BOOLEAN /\ error \in BOOLEAN /\ discovered \in BOOLEAN
        /\ failed \in BOOLEAN /\ HasWord(t)
        /\ issues \in SUBSET Keys /\ active \in SUBSET Keys /\ report \in {None} \cup SUBSET Keys
    BY <1>1 DEF TypeOK, HasWord
  <1>7. /\ online' \in BOOLEAN /\ error' \in BOOLEAN /\ discovered' \in BOOLEAN
        /\ failed' \in BOOLEAN
        /\ ~online' => error' \/ (~online /\ (error => error'))
        /\ failed /\ ~failed' => task[t].via = line
    <2>1. discovered' \in BOOLEAN BY <1>1, <1>6, Zenon
    <2>2. CASE online' = TRUE /\ error' = FALSE /\ failed' = (failed /\ task[t].via # line)
      BY <2>1, <2>2, Zenon
    <2>3. CASE UNCHANGED <<online, error, failed>>
      <3>1. online' = online /\ error' = error /\ failed' = failed BY <2>3
      <3> QED BY <1>6, <2>1, <3>1, Zenon
    <2> QED BY <1>5, <2>2, <2>3
  <1>8. /\ issues' \in SUBSET Keys /\ active' \in SUBSET Keys
        /\ report' \in {None} \cup SUBSET Keys /\ UNCHANGED <<issues, active, report>>
    BY <1>1, <1>6
  <1> QED BY <1>1, <1>2, <1>3, <1>4, <1>6, <1>7, <1>8, Zenon DEF TaskEffect, Wrote

\* Capabilities read: the record has been written before.
LEMMA DiscoversFact ==
    ASSUME TypeOK, SessionInv, FramesInv, VersionsInv, NEW t \in Tasks, Discovers(t)
    PROVE  TaskEffect(t)
  <1>0. Reads(t) BY DEF SessionInv, Discovers
  <1>1. /\ task[t].pc = "discover"
        /\ online' = TRUE /\ error' = FALSE /\ discovered' = TRUE
        /\ failed' = (failed /\ task[t].via # line)
        /\ UNCHANGED <<kind, present, sockets, dev, queue, status, begun, newest, issues,
                       active, report, inherited, heard, leftover>>
    BY DEF Discovers, MarkSeen, Heals, doctor
  <1>2. Forgets(t) BY <1>1, SameQueue
  <1>3. /\ task' \in [Tasks -> TaskType] /\ Others(t)
        /\ \/ task'[t] = Idle
           \/ /\ task'[t].pc \in {"discover", "inspect"} /\ task'[t].ans = None
              /\ task'[t].does = task[t].does /\ task'[t].via = task[t].via
        /\ task'[t].pc # "discover"
    <2>1. Ends(t) \/ Goes(t, "inspect") BY DEF Discovers
    <2> QED BY <2>1, EndsFact, GoesFact
  <1>4. /\ failed \in BOOLEAN
        /\ issues \in SUBSET Keys /\ active \in SUBSET Keys /\ report \in {None} \cup SUBSET Keys
        /\ status \in Versions /\ newest \in Versions
    BY DEF TypeOK
  <1>5. /\ online' \in BOOLEAN /\ error' \in BOOLEAN /\ discovered' \in BOOLEAN
        /\ failed' \in BOOLEAN
        /\ failed /\ ~failed' => task[t].via = line
        /\ status' \in Versions /\ newest' \in Versions
        /\ \A c \in Components : newest[c] <= newest'[c]
    <2>1. /\ status' \in Versions /\ newest' \in Versions
          /\ \A c \in Components : newest[c] <= newest'[c]
      BY <1>1, <1>4 DEF Versions
    <2> QED BY <1>1, <2>1, Zenon
  <1>6. /\ issues' \in SUBSET Keys /\ active' \in SUBSET Keys
        /\ report' \in {None} \cup SUBSET Keys /\ UNCHANGED <<issues, active, report>>
    BY <1>1, <1>4
  <1>7. task[t].pc # "idle" /\ task[t].pc # "wait" /\ HasWord(t) BY <1>1 DEF HasWord
  <1> QED BY <1>0, <1>1, <1>2, <1>3, <1>5, <1>6, <1>7, Zenon DEF TaskEffect

\* What a report does to the issues of a device that is there.
LEMMA ReportedFact ==
    ASSUME TypeOK, NEW errors \in SUBSET Keys, NEW fine \in SUBSET Keys, Reported(errors, fine)
    PROVE  /\ issues' \in SUBSET Keys /\ active' \in SUBSET Keys
           /\ present => /\ active' = errors /\ errors \subseteq issues'
                         /\ issues' \subseteq errors \cup (issues \ active)
  <1>1. issues \in SUBSET Keys /\ active \in SUBSET Keys BY DEF TypeOK
  <1>2. CASE errors # {} /\ ~present
    <2>1. issues' = issues \ fine /\ active' = active BY <1>2 DEF Reported
    <2> QED BY <1>1, <1>2, <2>1
  <1>3. CASE ~(errors # {} /\ ~present)
    <2>1. issues' = ((issues \ fine) \ (active \ errors)) \cup errors /\ active' = errors
      BY <1>3 DEF Reported
    <2> QED BY <1>1, <2>1
  <1> QED BY <1>2, <1>3

\* A refresh or an examination that fails: the doctor notes the one error it has.
LEMMA RefreshFailsFact ==
    ASSUME TypeOK, SessionInv, FramesInv, VersionsInv, NEW t \in Tasks, RefreshFails(t)
    PROVE  TaskEffect(t)
  <1>1. /\ Reads(t)
        /\ (task[t].pc = "wait" /\ task[t].ans = None) \/ task[t].pc = "discover"
        /\ online' = FALSE /\ error' = TRUE
        /\ failed' = (failed \/ task[t].via = line)
        /\ queue' = WithoutAnswer(t)
        /\ Ends(t)
        /\ UNCHANGED <<kind, present, sockets, dev, status, discovered, begun, newest, heard,
                       leftover>>
    BY DEF RefreshFails, MarkFailed, GivesUp
  <1>2. Forgets(t) BY <1>1, WithoutFact
  <1>3. /\ task' \in [Tasks -> TaskType] /\ Others(t)
        /\ task'[t] = Idle /\ task'[t].pc = "idle" /\ ~HasWord(t)'
    BY <1>1, EndsFact
  <1>4. /\ status' \in Versions /\ newest' \in Versions /\ discovered' \in BOOLEAN
        /\ \A c \in Components : newest[c] <= newest'[c]
    BY <1>1 DEF TypeOK, Versions
  <1>5. /\ failed' \in BOOLEAN /\ online' \in BOOLEAN
        /\ error' \in BOOLEAN
        /\ task[t].via = line => failed'
        /\ failed => failed'
    BY <1>1, Zenon DEF TypeOK
  <1>6. /\ issues' \in SUBSET Keys /\ active' \in SUBSET Keys
        /\ report' \in {None} \cup SUBSET Keys /\ inherited' = inherited
        /\ present => \/ UNCHANGED <<issues, active, report>>
                      \/ \E errors \in SUBSET Keys :
                            /\ active' = errors /\ report' = errors /\ errors \subseteq issues'
                            /\ issues' \subseteq errors \cup (issues \ active)
    <2> DEFINE offline == {"connectivity"}
    <2>0. /\ issues \in SUBSET Keys /\ active \in SUBSET Keys
          /\ report \in {None} \cup SUBSET Keys /\ offline \in SUBSET Keys /\ {} \in SUBSET Keys
      BY DEF TypeOK, Keys
    <2>1. CASE task[t].does = "exam"
      <3>1. /\ Reported(offline, {}) /\ inherited' = inherited
            /\ report' = IF present THEN offline ELSE report
        BY <2>1 DEF RefreshFails
      <3>2. /\ issues' \in SUBSET Keys /\ active' \in SUBSET Keys
            /\ present => /\ active' = offline /\ offline \subseteq issues'
                          /\ issues' \subseteq offline \cup (issues \ active)
        BY <2>0, <3>1, ReportedFact
      <3>3. report' \in {None} \cup SUBSET Keys /\ (present => report' = offline)
        BY <2>0, <3>1
      <3> HIDE DEF offline
      <3> QED BY <2>0, <3>1, <3>2, <3>3
    <2>2. CASE task[t].does # "exam"
      <3>1. UNCHANGED <<issues, active, report, inherited>> BY <2>2 DEF RefreshFails, doctor
      <3> QED BY <2>0, <3>1
    <2> QED BY <2>1, <2>2
  <1>7. task[t].pc # "idle" /\ task'[t].pc # "discover" BY <1>1, <1>3
  <1> QED BY <1>1, <1>2, <1>3, <1>4, <1>5, <1>6, <1>7, Zenon DEF TaskEffect

\* Whatever a call notes: the device is offline only with an error, or as before.
LEMMA NotedFact ==
    ASSUME TypeOK, NEW word \in Words, Noted(word)
    PROVE  /\ online' \in BOOLEAN /\ error' \in BOOLEAN
           /\ ~online' => error' \/ (~online /\ (error => error'))
  <1>1. \/ online' = online /\ error' = error
        \/ online' = TRUE /\ error' = FALSE
        \/ online' = online /\ error' = TRUE
        \/ online' = FALSE /\ error' = TRUE
    BY DEF Noted, Words, MarkSeen, MarkFailed
  <1>2. online \in BOOLEAN /\ error \in BOOLEAN BY DEF TypeOK
  <1> QED BY <1>1, <1>2

\* The end of an examination that heard the device.
LEMMA InspectsFact ==
    ASSUME TypeOK, SessionInv, FramesInv, VersionsInv, NEW t \in Tasks,
           NEW errors \in SUBSET {"component"}, NEW word \in Words, Inspects(t, errors, word)
    PROVE  TaskEffect(t)
  <1>1. /\ task[t].pc = "inspect" /\ report' = errors /\ Ends(t)
        /\ Reported(errors, {"connectivity"} \ errors) /\ Noted(word)
        /\ UNCHANGED <<kind, present, sockets, dev, queue, status, discovered, begun, inherited,
                       newest, failed, heard, leftover>>
    BY DEF Inspects, history
  <1>2. Forgets(t) BY <1>1, SameQueue
  <1>3. /\ task' \in [Tasks -> TaskType] /\ Others(t)
        /\ task'[t] = Idle /\ task'[t].pc = "idle" /\ ~HasWord(t)'
    BY <1>1, EndsFact
  <1>4. /\ status' \in Versions /\ newest' \in Versions
        /\ \A c \in Components : newest[c] <= newest'[c]
    BY <1>1 DEF TypeOK, Versions
  <1>5. /\ online' \in BOOLEAN /\ error' \in BOOLEAN
        /\ ~online' => error' \/ (~online /\ (error => error'))
    BY <1>1, NotedFact
  <1>6. errors \in SUBSET Keys /\ {"connectivity"} \ errors \in SUBSET Keys BY DEF Keys
  <1>7. /\ issues' \in SUBSET Keys /\ active' \in SUBSET Keys
        /\ report' \in {None} \cup SUBSET Keys
        /\ present => /\ active' = errors /\ report' = errors /\ errors \subseteq issues'
                      /\ issues' \subseteq errors \cup (issues \ active)
    BY <1>1, <1>6, ReportedFact
  <1>8. /\ task[t].pc # "idle" /\ task[t].pc # "wait" /\ task'[t].pc # "discover"
        /\ status' = status /\ newest' = newest
        /\ failed => failed'
        /\ failed' \in BOOLEAN /\ discovered' \in BOOLEAN
        /\ HasWord(t)
    BY <1>1, <1>3 DEF HasWord, TypeOK
  <1> QED
    BY <1>1, <1>2, <1>3, <1>4, <1>5, <1>6, <1>7, <1>8, Zenon DEF TaskEffect

\* One that raises: its last call has noted what became of it.
LEMMA InspectionLostFact ==
    ASSUME TypeOK, SessionInv, FramesInv, VersionsInv, NEW t \in Tasks, NEW word \in Words,
           InspectionLost(t, word)
    PROVE  TaskEffect(t)
  <1>1. /\ task[t].pc = "inspect" /\ Ends(t) /\ Noted(word)
        /\ UNCHANGED <<kind, present, sockets, dev, queue, status, discovered, begun,
                       issues, active, report, inherited, newest, failed, heard, leftover>>
    BY DEF InspectionLost, doctor, history
  <1>2. Forgets(t) BY <1>1, SameQueue
  <1>3. /\ task' \in [Tasks -> TaskType] /\ Others(t)
        /\ task'[t] = Idle /\ task'[t].pc = "idle" /\ ~HasWord(t)'
    BY <1>1, EndsFact
  <1>4. /\ status' \in Versions /\ newest' \in Versions
        /\ \A c \in Components : newest[c] <= newest'[c]
    BY <1>1 DEF TypeOK, Versions
  <1>5. /\ online' \in BOOLEAN /\ error' \in BOOLEAN
        /\ ~online' => error' \/ (~online /\ (error => error'))
    BY <1>1, NotedFact
  <1>6. /\ failed' \in BOOLEAN /\ discovered' \in BOOLEAN
        /\ issues' \in SUBSET Keys /\ active' \in SUBSET Keys
        /\ report' \in {None} \cup SUBSET Keys
    BY <1>1 DEF TypeOK
  <1>7. /\ task[t].pc # "idle" /\ task[t].pc # "wait" /\ task'[t].pc # "discover"
        /\ status' = status /\ newest' = newest
        /\ failed => failed'
        /\ HasWord(t)
        /\ UNCHANGED <<issues, active, report>>
    BY <1>1, <1>3 DEF HasWord
  <1> QED BY <1>1, <1>2, <1>3, <1>4, <1>5, <1>6, <1>7, Zenon DEF TaskEffect

\* A call that returned: a command also writes what it set.
LEMMA CallReturnsFact ==
    ASSUME TypeOK, SessionInv, FramesInv, VersionsInv, NEW t \in Tasks, CallReturns(t)
    PROVE  TaskEffect(t)
  <1> DEFINE ans == task[t].ans
  <1>1. /\ ~Reads(t) /\ ans # None /\ ans \in Versions /\ task[t].pc = "wait"
        /\ Writes(Merged(ans)) /\ Ends(t) /\ online' = TRUE /\ error' = FALSE
        /\ UNCHANGED <<kind, present, sockets, dev, queue, discovered, begun, issues,
                       active, report, inherited, failed, heard, leftover>>
    BY AnswerFact DEF CallReturns, MarkSeen, doctor
  <1>2. Forgets(t) BY <1>1, SameQueue
  <1>3. Wrote(ans)
    <2>1. /\ Merged(ans) \in Versions
          /\ \A c \in Components : Merged(ans)[c] \in {status[c], ans[c]}
      BY <1>1, MergedFact
    <2> QED BY <1>1, <2>1, WroteFact
  <1>4. /\ task' \in [Tasks -> TaskType] /\ Others(t)
        /\ task'[t] = Idle /\ task'[t].pc = "idle" /\ ~HasWord(t)'
    BY <1>1, EndsFact
  <1>5. online' \in BOOLEAN /\ error' \in BOOLEAN BY <1>1
  <1>6. /\ issues' \in SUBSET Keys /\ active' \in SUBSET Keys
        /\ report' \in {None} \cup SUBSET Keys /\ UNCHANGED <<issues, active, report>>
        /\ discovered' \in BOOLEAN /\ failed' \in BOOLEAN /\ (failed => failed')
    BY <1>1 DEF TypeOK
  <1>7. task[t].pc # "idle" /\ task'[t].pc # "discover" /\ HasWord(t) BY <1>1, <1>4 DEF HasWord
  <1> QED BY <1>1, <1>2, <1>3, <1>4, <1>5, <1>6, <1>7, Zenon DEF TaskEffect, Wrote

\* A call that failed, for want of the device or by its own reply.
LEMMA CallFailsFact ==
    ASSUME TypeOK, SessionInv, FramesInv, VersionsInv, NEW t \in Tasks,
           NEW unavailable \in BOOLEAN, CallFails(t, unavailable)
    PROVE  TaskEffect(t)
  <1>1. /\ ~Reads(t) /\ task[t].pc = "wait" /\ task[t].ans = None
        /\ error' = TRUE /\ (online' = online \/ online' = FALSE)
        /\ queue' = WithoutAnswer(t) /\ Ends(t)
        /\ UNCHANGED <<kind, present, sockets, dev, status, discovered, begun, issues,
                       active, report, inherited, newest, failed, heard, leftover>>
    BY DEF CallFails, MarkFailed, GivesUp, doctor, history
  <1>2. Forgets(t) BY <1>1, WithoutFact
  <1>3. /\ task' \in [Tasks -> TaskType] /\ Others(t)
        /\ task'[t] = Idle /\ task'[t].pc = "idle" /\ ~HasWord(t)'
    BY <1>1, EndsFact
  <1>4. /\ status' \in Versions /\ newest' \in Versions
        /\ \A c \in Components : newest[c] <= newest'[c]
        /\ status' = status /\ newest' = newest
    BY <1>1 DEF TypeOK, Versions
  <1>5. error' \in BOOLEAN /\ online' \in BOOLEAN /\ (online' => online)
    <2>1. online \in BOOLEAN BY DEF TypeOK
    <2>2. CASE online' = online BY <1>1, <2>1, <2>2
    <2>3. CASE online' = FALSE BY <1>1, <2>3
    <2> QED BY <1>1, <2>2, <2>3
  <1>6. /\ issues' \in SUBSET Keys /\ active' \in SUBSET Keys
        /\ report' \in {None} \cup SUBSET Keys /\ UNCHANGED <<issues, active, report>>
        /\ discovered' \in BOOLEAN /\ failed' \in BOOLEAN /\ (failed => failed')
    BY <1>1 DEF TypeOK
  <1>7. /\ task[t].pc # "idle" /\ task'[t].pc # "discover"
        /\ error'
    BY <1>1, <1>3
  <1> QED BY <1>1, <1>2, <1>3, <1>4, <1>5, <1>6, <1>7, Zenon DEF TaskEffect

\* All of them.
LEMMA FinishFact ==
    ASSUME TypeOK, SessionInv, FramesInv, VersionsInv, NEW t \in Tasks, Finish(t)
    PROVE  TaskEffect(t)
  BY RefreshWritesFact, DiscoversFact, RefreshFailsFact, InspectsFact, InspectionLostFact,
     CallReturnsFact, CallFailsFact DEF Finish

-----------------------------------------------------------------------------
(* Each kind of step keeps the invariant. *)

LEMMA EmptyFact ==
    ASSUME NEW q \in Seq(Frames), \A k \in DOMAIN q : FALSE
    PROVE  q = << >>
  <1>1. Len(q) \in Nat /\ DOMAIN q = 1..Len(q) OBVIOUS
  <1>2. Len(q) = 0
    <2>1. Len(q) # 0 => 1 \in DOMAIN q BY <1>1
    <2> QED BY <2>1
  <1> QED BY <1>2

LEMMA NatFact ==
    ASSUME TypeOK
    PROVE  /\ \A c \in Components :
                 /\ dev[c] \in Nat /\ status[c] \in Nat /\ newest[c] \in Nat
                 /\ \A t \in Tasks : task[t].ans # None => task[t].ans[c] \in Nat
           /\ \A s \in Sessions :
                 /\ s \in Nat \ {0} /\ queue[s] \in Seq(Frames) /\ Len(queue[s]) \in Nat
                 /\ DOMAIN queue[s] = 1..Len(queue[s])
                 /\ \A k \in DOMAIN queue[s] :
                       queue[s][k] \in Frames /\ \A c \in Components : queue[s][k].body[c] \in Nat
           /\ opened \in Nat /\ line \in Nat /\ session \in Nat /\ heard \in Nat
  <1>1. /\ dev \in Versions /\ status \in Versions /\ newest \in Versions
        /\ \A t \in Tasks : task[t].ans # None => task[t].ans \in Versions
    <2>1. \A t \in Tasks : task[t] \in TaskType BY DEF TypeOK
    <2> QED BY <2>1 DEF TypeOK, TaskType
  <1>2. \A s \in Sessions :
           /\ s \in Nat \ {0} /\ queue[s] \in Seq(Frames) /\ Len(queue[s]) \in Nat
           /\ DOMAIN queue[s] = 1..Len(queue[s])
           /\ \A k \in DOMAIN queue[s] : queue[s][k] \in Frames
    BY DEF TypeOK, Sessions
  <1>3. \A s \in Sessions : \A k \in DOMAIN queue[s] : queue[s][k].body \in Versions
    BY <1>2, Zenon DEF Frames
  <1>4. opened \in Nat /\ line \in Nat /\ session \in Nat /\ heard \in Nat
    BY DeviceAssumption DEF TypeOK
  <1> QED BY <1>1, <1>2, <1>3, <1>4 DEF Versions

\* Frames are on sockets that are open, of which the line is the last.
LEMMA SocketFact ==
    ASSUME TypeOK, SessionInv
    PROVE  /\ line # 0 => line = opened /\ line \in Sessions /\ line \in waiting \cup served
           /\ session # 0 => session \in served
           /\ waiting \cap served = {} /\ waiting \cup served \subseteq Sessions
           /\ \A s \in Sessions :
                 /\ s \in waiting \cup served => s <= opened
                 /\ \A k \in DOMAIN queue[s] : s \in waiting \cup served
  <1>1. opened \in Nat /\ opened <= MaxSessions /\ MaxSessions \in Nat
    BY DeviceAssumption DEF TypeOK
  <1>2. waiting \cup served \subseteq 1..opened BY DEF SessionInv
  <1>3. waiting \cup served \subseteq Sessions BY DEF TypeOK
  <1>4. \A s \in Sessions : \A k \in DOMAIN queue[s] : s \in waiting \cup served
    <2>1. DOMAIN << >> = {} OBVIOUS
    <2> QED BY <2>1 DEF SessionInv
  <1> QED BY <1>1, <1>2, <1>3, <1>4 DEF SessionInv

LEMMA SendKeeps ==
    ASSUME IInv, SendEffect
    PROVE  IInv'
  <1>1. /\ TypeOK /\ SessionInv /\ FramesInv /\ VersionsInv /\ OrderInv /\ FreshInv /\ NewsInv
        /\ OnlineHasReason /\ SilenceInv /\ RepairsInv
    BY DEF IInv
  <1>2. UNCHANGED <<kind, present, opened, line, waiting, served, session, status, online, error,
                    discovered, task, begun, issues, active, report, inherited, newest, failed,
                    heard, leftover>>
    BY DEF SendEffect, sockets, record, doctor, history
  <1>3. TypeOK'
    <2>1. dev' \in Versions /\ queue' \in [Sessions -> Seq(Frames)] BY DEF SendEffect
    <2> QED BY <1>1, <1>2, <2>1 DEF TypeOK
  <1>4. /\ \A c \in Components :
              /\ dev[c] \in Nat /\ status[c] \in Nat /\ newest[c] \in Nat
              /\ \A t \in Tasks : task[t].ans # None => task[t].ans[c] \in Nat
              /\ dev'[c] \in Nat /\ dev[c] <= dev'[c]
        /\ \A s \in Sessions :
              /\ s \in Nat /\ DOMAIN queue[s] = 1..Len(queue[s]) /\ Len(queue[s]) \in Nat
              /\ DOMAIN queue'[s] \subseteq Nat
              /\ \A k \in DOMAIN queue[s] :
                    /\ k \in DOMAIN queue'[s] /\ queue'[s][k] = queue[s][k]
                    /\ \A c \in Components : queue[s][k].body[c] \in Nat
              /\ \A k \in DOMAIN queue'[s] : \A c \in Components : queue'[s][k].body[c] \in Nat
    <2>1. /\ dev' \in Versions
          /\ \A s \in Sessions :
                /\ DOMAIN queue'[s] \subseteq Nat
                /\ \A k \in DOMAIN queue'[s] : queue'[s][k] \in Frames
      BY <1>3 DEF TypeOK
    <2>2. \A s \in Sessions : \A k \in DOMAIN queue'[s] : queue'[s][k].body \in Versions
      BY <2>1, Zenon DEF Frames
    <2>3. /\ \A c \in Components : dev'[c] \in Nat
          /\ \A s \in Sessions : \A k \in DOMAIN queue'[s] :
                \A c \in Components : queue'[s][k].body[c] \in Nat
      BY <2>1, <2>2 DEF Versions
    <2>4. /\ \A c \in Components : dev[c] <= dev'[c]
          /\ \A s \in Sessions : \A k \in DOMAIN queue[s] :
                k \in DOMAIN queue'[s] /\ queue'[s][k] = queue[s][k]
      BY DEF SendEffect
    <2>5. /\ \A c \in Components :
                /\ dev[c] \in Nat /\ status[c] \in Nat /\ newest[c] \in Nat
                /\ \A t \in Tasks : task[t].ans # None => task[t].ans[c] \in Nat
          /\ \A s \in Sessions :
                /\ s \in Nat /\ DOMAIN queue[s] = 1..Len(queue[s]) /\ Len(queue[s]) \in Nat
                /\ \A k \in DOMAIN queue[s] : \A c \in Components : queue[s][k].body[c] \in Nat
      BY <1>1, NatFact
    <2> QED BY <2>1, <2>3, <2>4, <2>5
  <1>5. \A s \in Sessions : \A k \in DOMAIN queue'[s] : k \notin DOMAIN queue[s] =>
          /\ s = line /\ Len(queue[s]) < k
          /\ \A c \in Components : queue'[s][k].body[c] <= dev'[c]
          /\ queue'[s][k].type = "push" =>
                /\ queue'[s][k].task = None
                /\ \A c \in Components : queue'[s][k].body[c] > 0 => queue'[s][k].body[c] = dev'[c]
          /\ \A t \in Tasks : queue'[s][k].task = t =>
                /\ task[t].pc = "wait" /\ task[t].ans = None /\ task[t].via = s
                /\ Reads(t) => queue'[s][k].body = dev'
                /\ \A l \in DOMAIN queue'[s] : queue'[s][l].task = t => l = k
    BY DEF SendEffect
  <1>6. SessionInv'
    <2>1. ASSUME NEW s \in Sessions, s \notin waiting \cup served
          PROVE  queue'[s] = << >>
      <3>1. s # 0 BY <1>1, NatFact
      <3>2. s # line BY <1>1, <2>1, <3>1, SocketFact
      <3>3. queue[s] = << >> BY <1>1, <2>1 DEF SessionInv
      <3>4. \A k \in DOMAIN queue'[s] : k \in DOMAIN queue[s] BY <1>5, <3>2
      <3>5. queue'[s] \in Seq(Frames) BY <1>3 DEF TypeOK
      <3>6. \A k \in DOMAIN queue'[s] : FALSE
        <4>1. DOMAIN << >> = {} OBVIOUS
        <4> QED BY <3>3, <3>4, <4>1
      <3> QED BY <3>5, <3>6, EmptyFact
    <2> QED BY <1>1, <1>2, <2>1 DEF SessionInv, Reads
  <1>7. FramesInv'
    <2>1. \A t \in Tasks : task[t].ans # None => task[t].pc = "wait" BY <1>1 DEF FramesInv
    <2>2. \A s \in Sessions : \A k \in DOMAIN queue'[s] :
             queue'[s][k].type = "push" => queue'[s][k].task = None
      BY <1>1, <1>4, <1>5 DEF FramesInv
    <2>3. ASSUME NEW s \in Sessions, NEW k \in DOMAIN queue'[s], NEW t \in Tasks,
                 queue'[s][k].task = t
          PROVE  /\ task[t].pc = "wait" /\ task[t].ans = None /\ task[t].via = s
                 /\ \A l \in DOMAIN queue'[s] : queue'[s][l].task = t => l = k
      <3>1. CASE k \notin DOMAIN queue[s] BY <1>5, <2>3, <3>1
      <3>2. CASE k \in DOMAIN queue[s]
        <4>1. /\ task[t].pc = "wait" /\ task[t].ans = None /\ task[t].via = s
              /\ \A l \in DOMAIN queue[s] : queue[s][l].task = t => l = k
          BY <1>1, <1>4, <2>3, <3>2 DEF FramesInv
        <4>2. \A l \in DOMAIN queue'[s] : l \notin DOMAIN queue[s] => queue'[s][l].task # t
          BY <1>4, <1>5, <2>3, <3>2
        <4> QED BY <1>4, <4>1, <4>2
      <3> QED BY <3>1, <3>2
    <2> QED BY <1>2, <2>1, <2>2, <2>3 DEF FramesInv
  <1>8. VersionsInv'
    <2> SUFFICES ASSUME NEW c \in Components
                 PROVE  /\ dev'[c] >= 1 /\ status[c] <= newest[c] /\ newest[c] <= dev'[c]
                        /\ \A s \in Sessions : \A k \in DOMAIN queue'[s] :
                              queue'[s][k].body[c] <= dev'[c]
                        /\ \A t \in Tasks : task[t].ans # None => task[t].ans[c] <= dev'[c]
      BY <1>2 DEF VersionsInv
    <2>1. /\ dev[c] >= 1 /\ status[c] <= newest[c] /\ newest[c] <= dev[c]
          /\ \A s \in Sessions : \A k \in DOMAIN queue[s] : queue[s][k].body[c] <= dev[c]
          /\ \A t \in Tasks : task[t].ans # None => task[t].ans[c] <= dev[c]
      BY <1>1 DEF VersionsInv
    <2>2. ASSUME NEW s \in Sessions, NEW k \in DOMAIN queue'[s]
          PROVE  queue'[s][k].body[c] <= dev'[c]
      <3>1. CASE k \in DOMAIN queue[s] BY <1>4, <2>1, <3>1
      <3>2. CASE k \notin DOMAIN queue[s] BY <1>5, <3>2
      <3> QED BY <3>1, <3>2
    <2> QED BY <1>4, <2>1, <2>2
  <1>9. OrderInv'
    <2> SUFFICES ASSUME NEW s \in Sessions, NEW k \in DOMAIN queue'[s], NEW c \in Components,
                        queue'[s][k].type = "push", queue'[s][k].body[c] > 0
                 PROVE  /\ heard <= s =>
                              /\ newest[c] <= queue'[s][k].body[c]
                              /\ \A t \in Tasks : task[t].ans # None =>
                                    task[t].ans[c] <= queue'[s][k].body[c]
                        /\ \A r \in Sessions : \A l \in DOMAIN queue'[r] :
                              r < s \/ (r = s /\ l < k) =>
                                 queue'[r][l].body[c] <= queue'[s][k].body[c]
      BY <1>2 DEF OrderInv, PushNames, Named
    <2>1. CASE k \in DOMAIN queue[s]
      <3>1. queue'[s][k] = queue[s][k] BY <1>4, <2>1
      <3>2. /\ heard <= s =>
                  /\ newest[c] <= queue[s][k].body[c]
                  /\ \A t \in Tasks : task[t].ans # None => task[t].ans[c] <= queue[s][k].body[c]
            /\ \A r \in Sessions : \A l \in DOMAIN queue[r] :
                  r < s \/ (r = s /\ l < k) => queue[r][l].body[c] <= queue[s][k].body[c]
        BY <1>1, <2>1, <3>1 DEF OrderInv, PushNames, Named
      <3>3. ASSUME NEW r \in Sessions, NEW l \in DOMAIN queue'[r], r < s \/ (r = s /\ l < k)
            PROVE  queue'[r][l].body[c] <= queue'[s][k].body[c]
        <4>1. l \in DOMAIN queue[r]
          <5>1. s <= opened BY <1>1, <2>1, SocketFact
          <5>2. line # 0 => line = opened BY <1>1, SocketFact
          <5>3. l \notin DOMAIN queue[r] => r = line /\ Len(queue[r]) < l BY <1>5
          <5>4. opened \in Nat BY <1>1, NatFact
          <5>5. r \in Nat \ {0} BY <1>1, NatFact
          <5> QED BY <1>4, <2>1, <3>3, <5>1, <5>2, <5>3, <5>4, <5>5
        <4>2. queue[r][l].body[c] <= queue[s][k].body[c] BY <3>2, <3>3, <4>1
        <4> QED BY <1>4, <3>1, <4>1, <4>2
      <3> QED BY <3>1, <3>2, <3>3
    <2>2. CASE k \notin DOMAIN queue[s]
      <3>1. queue'[s][k].body[c] = dev'[c] BY <1>5, <2>2
      <3> QED BY <1>2, <1>8, <3>1 DEF VersionsInv
    <2> QED BY <2>1, <2>2
  <1>10. ASSUME line # 0, NEW c \in Components
         PROVE  /\ Told(c) => Told(c)'
                /\ dev'[c] # dev[c] => Told(c)'
    <2>0. line \in Sessions BY <1>1, <1>10, SocketFact
    <2>1. CASE dev'[c] = dev[c]
      <3>1. PushQueued(c) => PushQueued(c)' BY <1>2, <1>4, <2>0, <2>1 DEF PushQueued
      <3> QED BY <1>2, <2>1, <3>1 DEF Told
    <2>2. CASE dev'[c] # dev[c]
      <3>1. PushQueued(c)' BY <1>2, <1>10, <2>2 DEF SendEffect, PushQueued
      <3> QED BY <2>2, <3>1 DEF Told
    <2> QED BY <2>1, <2>2
  <1>11. FreshInv'
    <2> SUFFICES ASSUME line # 0, NEW t \in Tasks, Reads(t), task[t].via = line,
                        NEW c \in Components
                 PROVE  /\ task[t].ans # None => task[t].ans[c] = dev'[c] \/ Told(c)'
                        /\ \A k \in DOMAIN queue'[line] :
                              queue'[line][k].task = t =>
                                 queue'[line][k].body[c] = dev'[c] \/ Told(c)'
                        /\ task[t].pc = "discover" => Told(c)'
      BY <1>2 DEF FreshInv, Reads
    <2>1. line \in Sessions BY <1>1, SocketFact
    <2>2. /\ Told(c) => Told(c)'
          /\ dev'[c] # dev[c] => Told(c)'
      BY <1>10
    <2>3. /\ task[t].ans # None => task[t].ans[c] = dev[c] \/ Told(c)
          /\ \A k \in DOMAIN queue[line] :
                queue[line][k].task = t => queue[line][k].body[c] = dev[c] \/ Told(c)
          /\ task[t].pc = "discover" => Told(c)
      BY <1>1 DEF FreshInv
    <2>4. \A k \in DOMAIN queue'[line] : k \notin DOMAIN queue[line] /\ queue'[line][k].task = t =>
            queue'[line][k].body[c] = dev'[c]
      BY <1>5, <2>1
    <2>5. \A k \in DOMAIN queue[line] : queue'[line][k] = queue[line][k] BY <1>4, <2>1
    <2> QED BY <2>2, <2>3, <2>4, <2>5
  <1>12. NewsInv'
    <2>1. line \in served => line # 0 BY <1>1, SocketFact DEF Sessions
    <2>2. Refreshing' = Refreshing BY <1>2 DEF Refreshing, Reads
    <2> QED BY <1>1, <1>2, <1>10, <2>1, <2>2 DEF NewsInv
  <1>13. OnlineHasReason' /\ SilenceInv' /\ RepairsInv'
    BY <1>1, <1>2 DEF OnlineHasReason, SilenceInv, HasWord, RepairsInv
  <1> QED BY <1>3, <1>6, <1>7, <1>8, <1>9, <1>11, <1>12, <1>13 DEF IInv

LEMMA HandleKeeps ==
    ASSUME IInv, NEW s \in Sessions, HandleEffect(s)
    PROVE  IInv'
  <1> DEFINE f == queue[s][1]
  <1>1. /\ TypeOK /\ SessionInv /\ FramesInv /\ VersionsInv /\ OrderInv /\ FreshInv /\ NewsInv
        /\ OnlineHasReason /\ SilenceInv /\ RepairsInv
    BY DEF IInv
  <1>2. /\ UNCHANGED <<kind, present, opened, line, waiting, served, session, dev, discovered,
                       begun, issues, active, report, inherited, failed, leftover>>
        /\ s \in served /\ heard' = IF heard > s THEN heard ELSE s
    BY DEF HandleEffect, sockets, doctor
  <1>3. /\ queue' \in [Sessions -> Seq(Frames)]
        /\ \A r \in Sessions \ {s} : queue'[r] = queue[r]
        /\ Len(queue[s]) \in Nat \ {0}
        /\ DOMAIN queue[s] = 1..Len(queue[s]) /\ DOMAIN queue'[s] = 1..(Len(queue[s]) - 1)
        /\ \A k \in DOMAIN queue'[s] : k + 1 \in DOMAIN queue[s] /\ queue'[s][k] = queue[s][k + 1]
        /\ 1 \in DOMAIN queue[s]
    BY DEF HandleEffect
  <1>4. \/ /\ f.type = "push" /\ task' = task /\ online' = TRUE /\ error' = FALSE
           /\ status' \in Versions /\ newest' \in Versions
           /\ \A c \in Components :
                 /\ status'[c] = IF f.body[c] > 0 THEN f.body[c] ELSE status[c]
                 /\ newest'[c] = IF newest[c] > status'[c] THEN newest[c] ELSE status'[c]
        \/ /\ f.type # "push"
           /\ UNCHANGED <<online, error, status, newest>>
           /\ \E t \in Tasks :
                 /\ f.task = t /\ task' \in [Tasks -> TaskType] /\ Others(t)
                 /\ task'[t].pc = task[t].pc /\ task'[t].does = task[t].does
                 /\ task'[t].via = task[t].via /\ task'[t].ans = f.body
        \/ /\ f.type # "push" /\ \A t \in Tasks : f.task # t
           /\ UNCHANGED <<online, error, status, newest, task>>
    BY DEF HandleEffect
  <1>5. TypeOK'
    <2>1. /\ status' \in Versions /\ newest' \in Versions /\ task' \in [Tasks -> TaskType]
          /\ online' \in BOOLEAN /\ error' \in BOOLEAN
      BY <1>1, <1>4, Zenon DEF TypeOK
    <2>2. heard' \in 0..MaxSessions BY <1>1, <1>2, DeviceAssumption DEF TypeOK, Sessions
    <2> QED BY <1>1, <1>2, <1>3, <2>1, <2>2 DEF TypeOK
  <1>6. /\ \A c \in Components :
              /\ dev[c] \in Nat /\ status[c] \in Nat /\ newest[c] \in Nat /\ f.body[c] \in Nat
              /\ \A t \in Tasks : task[t].ans # None => task[t].ans[c] \in Nat
        /\ \A r \in Sessions : r \in Nat \ {0} /\ DOMAIN queue[r] \subseteq Nat
        /\ heard \in Nat
    BY <1>1, <1>3, NatFact
  <1>7. \A t \in Tasks :
          /\ task'[t].pc = task[t].pc /\ task'[t].does = task[t].does
          /\ task'[t].via = task[t].via
          /\ Reads(t)' = Reads(t)
          /\ \/ task'[t] = task[t]
             \/ f.task = t /\ task'[t].ans = f.body
    <2>1. CASE task' = task BY <2>1 DEF Reads
    <2>2. ASSUME NEW t \in Tasks, f.task = t, Others(t),
                 task'[t].pc = task[t].pc, task'[t].does = task[t].does,
                 task'[t].via = task[t].via, task'[t].ans = f.body
          PROVE  \A u \in Tasks :
                    /\ task'[u].pc = task[u].pc /\ task'[u].does = task[u].does
                    /\ task'[u].via = task[u].via
                    /\ Reads(u)' = Reads(u)
                    /\ \/ task'[u] = task[u]
                       \/ f.task = u /\ task'[u].ans = f.body
      BY <2>2 DEF Others, Reads
    <2> QED BY <1>4, <2>1, <2>2
  <1>8. \A t \in Tasks : f.task = t => task[t].pc = "wait" /\ task[t].ans = None /\ task[t].via = s
    BY <1>1, <1>3 DEF FramesInv
  <1>9. \A c \in Components :
          /\ newest[c] <= newest'[c] /\ newest'[c] \in {newest[c], f.body[c]}
          /\ newest'[c] # newest[c] => f.type = "push" /\ f.body[c] > 0
          /\ f.type = "push" /\ f.body[c] > 0 => f.body[c] <= newest'[c]
          /\ status'[c] <= newest'[c]
    <2> SUFFICES ASSUME NEW c \in Components
                 PROVE  /\ newest[c] <= newest'[c] /\ newest'[c] \in {newest[c], f.body[c]}
                        /\ newest'[c] # newest[c] => f.type = "push" /\ f.body[c] > 0
                        /\ f.type = "push" /\ f.body[c] > 0 => f.body[c] <= newest'[c]
                        /\ status'[c] <= newest'[c]
      OBVIOUS
    <2>1. status[c] <= newest[c] BY <1>1 DEF VersionsInv
    <2>2. /\ status[c] \in Nat /\ newest[c] \in Nat /\ f.body[c] \in Nat BY <1>6
    <2>3. CASE f.type = "push"
      <3>1. /\ status'[c] = IF f.body[c] > 0 THEN f.body[c] ELSE status[c]
            /\ newest'[c] = IF newest[c] > status'[c] THEN newest[c] ELSE status'[c]
        BY <1>4, <2>3
      <3> HIDE DEF f
      <3> QED BY <2>1, <2>2, <2>3, <3>1
    <2>4. CASE f.type # "push"
      <3>1. status' = status /\ newest' = newest BY <1>4, <2>4
      <3> QED BY <2>1, <2>2, <2>4, <3>1
    <2> QED BY <2>3, <2>4
  <1>10. SessionInv'
    <2>1. ASSUME NEW t \in Tasks
          PROVE  /\ IF task'[t].pc = "idle" THEN task'[t] = Idle
                    ELSE task'[t].via \in (1..opened) \ waiting
                 /\ task'[t].pc \in {"discover", "inspect"} => Reads(t)'
      <3>1. /\ IF task[t].pc = "idle" THEN task[t] = Idle
               ELSE task[t].via \in (1..opened) \ waiting
            /\ task[t].pc \in {"discover", "inspect"} => Reads(t)
        BY <1>1 DEF SessionInv
      <3>2. CASE task'[t] = task[t] BY <1>7, <3>1, <3>2
      <3>3. CASE f.task = t
        <4>1. task[t].pc = "wait" BY <1>8, <3>3
        <4> QED BY <1>7, <3>1, <4>1
      <3> QED BY <1>7, <3>2, <3>3
    <2>2. \A r \in Sessions : r \notin waiting \cup served => queue'[r] = << >>
      BY <1>1, <1>2, <1>3 DEF SessionInv
    <2>3. /\ line' \in {0, opened'} \cap ({0} \cup waiting' \cup served')
          /\ session' \in {0} \cup served'
          /\ waiting' \cap served' = {} /\ waiting' \cup served' \subseteq 1..opened'
      BY <1>1, <1>2 DEF SessionInv
    <2> QED BY <1>2, <2>1, <2>2, <2>3 DEF SessionInv
  <1> HIDE DEF f
  <1>11. FramesInv'
    <2>1. ASSUME NEW t \in Tasks, task'[t].ans # None PROVE task'[t].pc = "wait"
      <3>1. CASE task'[t] = task[t] BY <1>1, <2>1, <3>1 DEF FramesInv
      <3>2. CASE f.task = t BY <1>7, <1>8, <3>2
      <3> QED BY <1>7, <3>1, <3>2
    <2>2. \A r \in Sessions : \A k \in DOMAIN queue'[r] :
             queue'[r][k].type = "push" => queue'[r][k].task = None
      <3> SUFFICES ASSUME NEW r \in Sessions, NEW k \in DOMAIN queue'[r],
                          queue'[r][k].type = "push"
                   PROVE  queue'[r][k].task = None
        OBVIOUS
      <3>1. CASE r = s BY <1>1, <1>3, <3>1 DEF FramesInv
      <3>2. CASE r # s BY <1>1, <1>3, <3>2 DEF FramesInv
      <3> QED BY <3>1, <3>2
    <2>3. ASSUME NEW r \in Sessions, NEW k \in DOMAIN queue'[r], NEW t \in Tasks,
                 queue'[r][k].task = t
          PROVE  /\ task'[t].pc = "wait" /\ task'[t].ans = None /\ task'[t].via = r
                 /\ \A l \in DOMAIN queue'[r] : queue'[r][l].task = t => l = k
      <3>1. CASE r = s
        <4>1. /\ k + 1 \in DOMAIN queue[s] /\ queue[s][k + 1].task = t /\ k \in Nat /\ k + 1 # 1
          BY <1>3, <2>3, <3>1
        <4>2. /\ task[t].pc = "wait" /\ task[t].ans = None /\ task[t].via = s
              /\ \A l \in DOMAIN queue[s] : queue[s][l].task = t => l = k + 1
          BY <1>1, <4>1 DEF FramesInv
        <4>3. f.task # t BY <1>3, <4>1, <4>2 DEF f
        <4>4. \A l \in DOMAIN queue'[s] : queue'[s][l].task = t => l = k BY <1>3, <4>2
        <4> QED BY <1>7, <3>1, <4>2, <4>3, <4>4
      <3>2. CASE r # s
        <4>1. queue'[r] = queue[r] BY <1>3, <3>2
        <4>2. /\ task[t].pc = "wait" /\ task[t].ans = None /\ task[t].via = r
              /\ \A l \in DOMAIN queue[r] : queue[r][l].task = t => l = k
          BY <1>1, <2>3, <4>1 DEF FramesInv
        <4>3. f.task # t BY <1>8, <3>2, <4>2
        <4> QED BY <1>7, <4>1, <4>2, <4>3
      <3> QED BY <3>1, <3>2
    <2> QED BY <2>1, <2>2, <2>3 DEF FramesInv
  <1>12. VersionsInv'
    <2> SUFFICES ASSUME NEW c \in Components
                 PROVE  /\ dev[c] >= 1 /\ status'[c] <= newest'[c] /\ newest'[c] <= dev[c]
                        /\ \A r \in Sessions : \A k \in DOMAIN queue'[r] :
                              queue'[r][k].body[c] <= dev[c]
                        /\ \A t \in Tasks : task'[t].ans # None => task'[t].ans[c] <= dev[c]
      BY <1>2 DEF VersionsInv
    <2>1. /\ dev[c] >= 1 /\ newest[c] <= dev[c]
          /\ \A r \in Sessions : \A k \in DOMAIN queue[r] : queue[r][k].body[c] <= dev[c]
          /\ \A t \in Tasks : task[t].ans # None => task[t].ans[c] <= dev[c]
      BY <1>1 DEF VersionsInv
    <2>2. f.body[c] <= dev[c] BY <1>3, <2>1 DEF f
    <2>3. status'[c] <= newest'[c] /\ newest'[c] <= dev[c] BY <1>9, <2>1, <2>2
    <2>4. \A t \in Tasks : task'[t].ans # None => task'[t].ans[c] <= dev[c]
      BY <1>7, <2>1, <2>2
    <2>5. \A r \in Sessions : \A k \in DOMAIN queue'[r] : queue'[r][k].body[c] <= dev[c]
      BY <1>3, <2>1
    <2> QED BY <2>1, <2>3, <2>4, <2>5
  <1>13. ASSUME NEW r \in Sessions, NEW k \in DOMAIN queue'[r]
         PROVE  \E j \in DOMAIN queue[r] :
                   queue'[r][k] = queue[r][j] /\ j = (IF r = s THEN k + 1 ELSE k)
    <2>1. CASE r = s BY <1>3, <2>1
    <2>2. CASE r # s BY <1>3, <2>2
    <2> QED BY <2>1, <2>2
  <1>14. OrderInv'
    <2> SUFFICES ASSUME NEW r \in Sessions, NEW k \in DOMAIN queue'[r], NEW c \in Components,
                        queue'[r][k].type = "push", queue'[r][k].body[c] > 0
                 PROVE  /\ heard' <= r =>
                              /\ newest'[c] <= queue'[r][k].body[c]
                              /\ \A t \in Tasks : task'[t].ans # None =>
                                    task'[t].ans[c] <= queue'[r][k].body[c]
                        /\ \A q \in Sessions : \A l \in DOMAIN queue'[q] :
                              q < r \/ (q = r /\ l < k) =>
                                 queue'[q][l].body[c] <= queue'[r][k].body[c]
      BY DEF OrderInv, PushNames, Named
    <2>1. PICK j \in DOMAIN queue[r] :
             queue'[r][k] = queue[r][j] /\ j = (IF r = s THEN k + 1 ELSE k)
      BY <1>13
    <2>2. /\ heard <= r =>
                /\ newest[c] <= queue[r][j].body[c]
                /\ \A t \in Tasks : task[t].ans # None => task[t].ans[c] <= queue[r][j].body[c]
          /\ \A q \in Sessions : \A l \in DOMAIN queue[q] :
                q < r \/ (q = r /\ l < j) => queue[q][l].body[c] <= queue[r][j].body[c]
      BY <1>1, <2>1 DEF OrderInv, PushNames, Named
    <2>3. ASSUME heard' <= r
          PROVE  /\ newest'[c] <= queue'[r][k].body[c]
                 /\ \A t \in Tasks : task'[t].ans # None =>
                       task'[t].ans[c] <= queue'[r][k].body[c]
      <3>1. heard <= r /\ s <= r BY <1>2, <1>6, <2>3
      <3>2. s < r \/ (s = r /\ 1 < j)
        <4>1. CASE r = s BY <1>3, <2>1, <4>1
        <4>2. CASE r # s BY <1>6, <3>1, <4>2
        <4> QED BY <4>1, <4>2
      <3>3. f.body[c] <= queue[r][j].body[c] BY <1>3, <2>2, <3>2 DEF f
      <3>4. newest'[c] <= queue[r][j].body[c] BY <1>9, <2>2, <3>1, <3>3
      <3>5. \A t \in Tasks : task'[t].ans # None => task'[t].ans[c] <= queue[r][j].body[c]
        BY <1>7, <2>2, <3>1, <3>3
      <3> QED BY <2>1, <3>4, <3>5
    <2>4. ASSUME NEW q \in Sessions, NEW l \in DOMAIN queue'[q], q < r \/ (q = r /\ l < k)
          PROVE  queue'[q][l].body[c] <= queue'[r][k].body[c]
      <3>1. PICK i \in DOMAIN queue[q] :
               queue'[q][l] = queue[q][i] /\ i = (IF q = s THEN l + 1 ELSE l)
        BY <1>13
      <3>2. q < r \/ (q = r /\ i < j)
        <4>1. CASE q < r BY <4>1
        <4>2. CASE q = r /\ q = s
          <5>1. k \in Nat /\ l \in Nat /\ l < k BY <1>3, <1>6, <2>4, <4>2
          <5> QED BY <2>1, <3>1, <4>2, <5>1
        <4>3. CASE q = r /\ q # s /\ l < k BY <2>1, <3>1, <4>3
        <4> QED BY <1>6, <2>4, <4>1, <4>2, <4>3
      <3>3. queue[q][i].body[c] <= queue[r][j].body[c] BY <2>2, <3>2
      <3> QED BY <2>1, <3>1, <3>3
    <2> QED BY <2>3, <2>4
  <1>15. line # 0 => line \in Sessions BY <1>1, SocketFact
  <1>16. ASSUME NEW c \in Components, Told(c)
         PROVE  Told(c)'
    <2>1. /\ newest[c] <= dev[c] /\ newest'[c] <= dev[c] /\ dev[c] >= 1
          /\ newest[c] \in Nat /\ newest'[c] \in Nat /\ dev[c] \in Nat
      BY <1>1, <1>2, <1>5, <1>6, <1>12 DEF VersionsInv, TypeOK, Versions
    <2>2. CASE newest[c] = dev[c] BY <1>2, <1>9, <2>1, <2>2 DEF Told
    <2>3. ASSUME line # 0, NEW k \in DOMAIN queue[line], queue[line][k].type = "push",
                 queue[line][k].body[c] = dev[c]
          PROVE  Told(c)'
      <3>1. CASE line # s
        <4>1. queue'[line] = queue[line] BY <1>3, <1>15, <2>3, <3>1
        <4> QED BY <1>2, <2>3, <4>1 DEF Told, PushQueued
      <3>2. CASE line = s /\ k = 1
        <4>1. f.type = "push" /\ f.body[c] = dev[c] BY <2>3, <3>2 DEF f
        <4>2. newest'[c] = dev[c] BY <1>9, <2>1, <4>1
        <4> QED BY <1>2, <4>2 DEF Told
      <3>3. CASE line = s /\ k # 1
        <4>1. k - 1 \in DOMAIN queue'[line] /\ queue'[line][k - 1] = queue[line][k]
          BY <1>3, <2>3, <3>3
        <4> QED BY <1>2, <2>3, <4>1 DEF Told, PushQueued
      <3> QED BY <3>1, <3>2, <3>3
    <2> QED BY <1>16, <2>2, <2>3 DEF Told, PushQueued
  <1>17. FreshInv'
    <2> SUFFICES ASSUME line # 0, NEW t \in Tasks, Reads(t), task[t].via = line,
                        NEW c \in Components
                 PROVE  /\ task'[t].ans # None => task'[t].ans[c] = dev[c] \/ Told(c)'
                        /\ \A k \in DOMAIN queue'[line] :
                              queue'[line][k].task = t =>
                                 queue'[line][k].body[c] = dev[c] \/ Told(c)'
                        /\ task'[t].pc = "discover" => Told(c)'
      BY <1>2, <1>7 DEF FreshInv
    <2>1. /\ task[t].ans # None => task[t].ans[c] = dev[c] \/ Told(c)
          /\ \A k \in DOMAIN queue[line] :
                queue[line][k].task = t => queue[line][k].body[c] = dev[c] \/ Told(c)
          /\ task[t].pc = "discover" => Told(c)
      BY <1>1 DEF FreshInv
    <2>2. Told(c) => Told(c)' BY <1>16
    <2>3. f.task = t => f.body[c] = dev[c] \/ Told(c)
      <3>1. f.task = t => line = s BY <1>8
      <3> QED BY <1>3, <2>1, <3>1 DEF f
    <2>4. task'[t].ans # None => task'[t].ans[c] = dev[c] \/ Told(c)'
      BY <1>7, <2>1, <2>2, <2>3
    <2>5. \A k \in DOMAIN queue'[line] : queue'[line][k].task = t =>
             queue'[line][k].body[c] = dev[c] \/ Told(c)'
      BY <1>13, <1>15, <2>1, <2>2
    <2> QED BY <1>7, <2>1, <2>2, <2>4, <2>5
  <1>18. NewsInv'
    <2>1. Refreshing => Refreshing' BY <1>2, <1>7 DEF Refreshing
    <2> QED BY <1>1, <1>2, <1>16, <2>1 DEF NewsInv
  <1>19. kind = "remote" /\ session = 0 => leftover
    BY <1>1, <1>2 DEF SilenceInv
  <1>20. OnlineHasReason'
    <2>1. CASE online' = TRUE BY <1>2, <1>19, <2>1 DEF OnlineHasReason
    <2>2. CASE UNCHANGED <<online, error>> BY <1>1, <1>2, <2>2 DEF OnlineHasReason
    <2> QED BY <1>4, <2>1, <2>2
  <1>21. SilenceInv' BY <1>2, <1>19 DEF SilenceInv
  <1>22. RepairsInv'
    <2> SUFFICES ASSUME kind = "remote", ~present
                 PROVE  \A t \in Tasks : task'[t] = Idle
      BY <1>1, <1>2 DEF RepairsInv
    <2>1. \A t \in Tasks : task[t] = Idle BY <1>1 DEF RepairsInv
    <2>2. \A t \in Tasks : f.task # t BY <1>8, <2>1 DEF Idle
    <2> QED BY <1>7, <2>1, <2>2
  <1> QED BY <1>5, <1>10, <1>11, <1>12, <1>14, <1>17, <1>18, <1>20, <1>21, <1>22 DEF IInv

\* A refresh, a call or an examination begins on a socket.
LEMMA BeginsFact ==
    ASSUME TypeOK, NEW t \in Tasks, NEW does \in {"refresh", "exam", "call", "set"}, NEW s \in Nat,
           Begins(t, does, s)
    PROVE  /\ task[t] = Idle /\ task' \in [Tasks -> TaskType] /\ Others(t) /\ begun' \in Nat
           /\ task'[t].does = does /\ task'[t].pc = "wait" /\ task'[t].via = s
           /\ task'[t].ans = None
           /\ Idle.pc = "idle" /\ Idle.does = "nothing" /\ Idle.ans = None /\ Idle.via = 0
  <1>1. /\ task[t] = Idle /\ begun' = begun + 1
        /\ task' = [task EXCEPT ![t] = [does |-> does, pc |-> "wait", via |-> s, ans |-> None]]
    BY DEF Begins
  <1>2. [does |-> does, pc |-> "wait", via |-> s, ans |-> None] \in TaskType
    BY DEF TaskType
  <1>3. task \in [Tasks -> TaskType] /\ begun \in Nat BY DEF TypeOK
  <1> QED BY <1>1, <1>2, <1>3 DEF Others, Idle

\* The frames and versions know nothing of a task that begins.
LEMMA BeginsKeeps ==
    ASSUME IInv, NEW t \in Tasks, NEW does \in {"refresh", "exam", "call", "set"},
           NEW s \in served', Begins(t, does, s),
           UNCHANGED <<opened, line, dev, queue, status, newest, heard>>,
           waiting' = waiting \ {s}, served' = served \cup {s}, s \in waiting \cup served
    PROVE  /\ task' \in [Tasks -> TaskType] /\ begun' \in Nat
           /\ waiting' \in SUBSET Sessions /\ served' \in SUBSET Sessions /\ s \in Sessions
           /\ FramesInv' /\ VersionsInv' /\ OrderInv' /\ FreshInv'
           /\ (session' = s => SessionInv')
           /\ \A c \in Components : Told(c)' = Told(c)
           /\ (Refreshing \/ (line = s /\ does = "refresh") => Refreshing')
  <1>1. /\ TypeOK /\ SessionInv /\ FramesInv /\ VersionsInv /\ OrderInv /\ FreshInv
    BY DEF IInv
  <1>2. /\ s \in Sessions /\ waiting \in SUBSET Sessions /\ served \in SUBSET Sessions
        /\ s \in Nat \ {0} /\ s \in 1..opened
    BY <1>1, NatFact DEF TypeOK, SessionInv
  <1>3. /\ task[t] = Idle /\ task' \in [Tasks -> TaskType] /\ Others(t) /\ begun' \in Nat
        /\ task'[t].does = does /\ task'[t].pc = "wait" /\ task'[t].via = s
        /\ task'[t].ans = None
        /\ Idle.pc = "idle" /\ Idle.does = "nothing" /\ Idle.ans = None /\ Idle.via = 0
    BY <1>1, <1>2, BeginsFact
  <1>4. \A u \in Tasks : u # t => task'[u] = task[u] /\ Reads(u)' = Reads(u)
    BY <1>3 DEF Others, Reads
  <1>5. \A r \in Sessions : \A k \in DOMAIN queue[r] : queue[r][k].task # t
    BY <1>1, <1>3 DEF FramesInv
  <1>6. line # 0 => line \in Sessions BY <1>1, SocketFact
  <1>7. ASSUME session' = s PROVE SessionInv'
    <2>1. ASSUME NEW u \in Tasks
          PROVE  /\ IF task'[u].pc = "idle" THEN task'[u] = Idle
                    ELSE task'[u].via \in (1..opened') \ waiting'
                 /\ task'[u].pc \in {"discover", "inspect"} => Reads(u)'
      <3>1. CASE u = t BY <1>2, <1>3, <3>1
      <3>2. CASE u # t BY <1>1, <1>4, <3>2 DEF SessionInv
      <3> QED BY <3>1, <3>2
    <2>2. /\ line' \in {0, opened'} \cap ({0} \cup waiting' \cup served')
          /\ session' \in {0} \cup served'
          /\ waiting' \cap served' = {} /\ waiting' \cup served' \subseteq 1..opened'
      BY <1>1, <1>2, <1>7 DEF SessionInv
    <2>3. \A r \in Sessions : r \notin waiting' \cup served' => queue'[r] = << >>
      BY <1>1 DEF SessionInv
    <2> QED BY <2>1, <2>2, <2>3 DEF SessionInv
  <1>8. FramesInv' BY <1>1, <1>3, <1>4, <1>5 DEF FramesInv
  <1>9. VersionsInv' BY <1>1, <1>3, <1>4 DEF VersionsInv
  <1>10. OrderInv' BY <1>1, <1>3, <1>4 DEF OrderInv, PushNames
  <1>11. \A c \in Components : Told(c)' = Told(c) BY DEF Told, PushQueued
  <1>12. FreshInv' BY <1>1, <1>3, <1>4, <1>5, <1>6, <1>11 DEF FreshInv
  <1>13. Refreshing \/ (line = s /\ does = "refresh") => Refreshing'
    BY <1>3, <1>4 DEF Refreshing, Reads
  <1> QED
    BY <1>2, <1>3, <1>7, <1>8, <1>9, <1>10, <1>11, <1>12, <1>13

LEMMA BeginKeeps ==
    ASSUME IInv, NEW t \in Tasks, NEW does \in {"refresh", "exam", "call", "set"},
           Begin(t, does)
    PROVE  IInv'
  <1>1. TypeOK /\ SessionInv /\ NewsInv /\ OnlineHasReason /\ RepairsInv BY DEF IInv
  <1>2. /\ session # 0 /\ present /\ Begins(t, does, session)
        /\ UNCHANGED <<kind, present, opened, line, waiting, served, session, dev, queue, status,
                       online, error, discovered, issues, active, report, inherited, newest, failed,
                       heard, leftover>>
    BY DEF Begin, Reachable, sockets, record, doctor, history
  <1>3. session \in served /\ waiting' = waiting \ {session} /\ served' = served \cup {session}
    BY <1>1, <1>2 DEF SessionInv
  <1>4. /\ task' \in [Tasks -> TaskType] /\ begun' \in Nat
        /\ FramesInv' /\ VersionsInv' /\ OrderInv' /\ FreshInv' /\ SessionInv'
        /\ \A c \in Components : Told(c)' = Told(c)
        /\ (Refreshing => Refreshing')
    BY <1>2, <1>3, BeginsKeeps
  <1>5. TypeOK' BY <1>1, <1>2, <1>4 DEF TypeOK
  <1>6. NewsInv' BY <1>1, <1>2, <1>4 DEF NewsInv
  <1>7. OnlineHasReason' /\ SilenceInv' /\ RepairsInv'
    BY <1>1, <1>2 DEF OnlineHasReason, SilenceInv, RepairsInv
  <1> QED BY <1>4, <1>5, <1>6, <1>7 DEF IInv

\* A socket is installed, and a refresh over it is under way.
LEMMA ConnectKeeps ==
    ASSUME IInv, NEW s \in Sessions, NEW t \in Tasks, RemoteConnects(s, t)
    PROVE  IInv'
  <1>1. TypeOK /\ SessionInv /\ NewsInv /\ RepairsInv BY DEF IInv
  <1>2. /\ s \in waiting /\ waiting' = waiting \ {s} /\ served' = served \cup {s}
        /\ session' = s /\ present' = TRUE /\ online' = TRUE /\ error' = FALSE
        /\ Begins(t, "refresh", s) /\ kind = "remote"
        /\ failed' = (failed /\ s # line) /\ leftover' = FALSE
        /\ UNCHANGED <<kind, opened, line, dev, queue, status, discovered, issues, active, report,
                       inherited, newest, heard>>
    BY DEF RemoteConnects, MarkSeen, doctor
  <1>3. /\ task' \in [Tasks -> TaskType] /\ begun' \in Nat
        /\ waiting' \in SUBSET Sessions /\ served' \in SUBSET Sessions
        /\ FramesInv' /\ VersionsInv' /\ OrderInv' /\ FreshInv' /\ SessionInv'
        /\ \A c \in Components : Told(c)' = Told(c)
        /\ (Refreshing \/ line = s => Refreshing')
    BY <1>2, BeginsKeeps
  <1>4. s # 0 BY <1>1, NatFact
  <1>5. TypeOK'
    <2>1. session' \in 0..MaxSessions BY <1>2, DeviceAssumption DEF Sessions
    <2>2. failed' \in BOOLEAN BY <1>2, Zenon
    <2>3. queue' \in [Sessions -> Seq(Frames)] BY <1>1, <1>2 DEF TypeOK
    <2> QED BY <1>1, <1>2, <1>3, <2>1, <2>2, <2>3, Zenon DEF TypeOK
  <1>6. NewsInv'
    <2>1. CASE line = s BY <1>3, <2>1 DEF NewsInv
    <2>2. CASE line # s BY <1>1, <1>2, <1>3, <2>2 DEF NewsInv
    <2> QED BY <2>1, <2>2
  <1>7. OnlineHasReason' /\ SilenceInv' BY <1>2, <1>4 DEF OnlineHasReason, SilenceInv
  <1>8. RepairsInv'
    <2>1. /\ issues \subseteq active \cup inherited /\ active \subseteq issues
          /\ report # None => report = active
      <3>1. CASE present BY <1>1, <3>1 DEF RepairsInv
      <3>2. CASE ~present BY <1>1, <1>2, <3>2 DEF RepairsInv
      <3> QED BY <3>1, <3>2
    <2> QED BY <1>2, <2>1 DEF RepairsInv
  <1> QED BY <1>3, <1>5, <1>6, <1>7, <1>8 DEF IInv

\* Frames that are gone contradict nothing.
LEMMA DropKeeps ==
    ASSUME IInv, queue' \in [Sessions -> Seq(Frames)],
           \A s \in Sessions : queue'[s] = queue[s] \/ queue'[s] = << >>,
           UNCHANGED <<dev, task, newest, heard>>,
           \A c \in Components : status'[c] <= newest[c],
           line' # 0 => \/ line' = line /\ queue'[line] = queue[line]
                        \/ \A t \in Tasks : Reads(t) => task[t].via # line'
    PROVE  FramesInv' /\ VersionsInv' /\ OrderInv' /\ FreshInv'
  <1>1. TypeOK /\ FramesInv /\ VersionsInv /\ OrderInv /\ FreshInv BY DEF IInv
  <1>2. DOMAIN << >> = {} OBVIOUS
  <1>3. \A s \in Sessions : \A k \in DOMAIN queue'[s] :
           k \in DOMAIN queue[s] /\ queue'[s] = queue[s]
    BY <1>2
  <1>4. FramesInv'
    <2>1. \A s \in Sessions : \A k \in DOMAIN queue'[s] :
             queue'[s][k].type = "push" => queue'[s][k].task = None
      BY <1>1, <1>3 DEF FramesInv
    <2>2. ASSUME NEW s \in Sessions, NEW k \in DOMAIN queue'[s], NEW t \in Tasks,
                 queue'[s][k].task = t
          PROVE  /\ task[t].pc = "wait" /\ task[t].ans = None /\ task[t].via = s
                 /\ \A l \in DOMAIN queue'[s] : queue'[s][l].task = t => l = k
      <3>1. k \in DOMAIN queue[s] /\ queue'[s] = queue[s] BY <1>3
      <3> QED BY <1>1, <2>2, <3>1 DEF FramesInv
    <2> QED BY <1>1, <2>1, <2>2 DEF FramesInv
  <1>5. VersionsInv' BY <1>1, <1>3 DEF VersionsInv
  <1>6. OrderInv'
    <2> SUFFICES ASSUME NEW s \in Sessions, NEW k \in DOMAIN queue'[s], NEW c \in Components,
                        PushNames(s, k, c)'
                 PROVE  /\ heard <= s =>
                              /\ newest[c] <= queue'[s][k].body[c]
                              /\ \A t \in Tasks : task[t].ans # None =>
                                    task[t].ans[c] <= queue'[s][k].body[c]
                        /\ \A r \in Sessions : \A l \in DOMAIN queue'[r] :
                              r < s \/ (r = s /\ l < k) =>
                                 queue'[r][l].body[c] <= queue'[s][k].body[c]
      BY DEF OrderInv
    <2>1. k \in DOMAIN queue[s] /\ queue'[s] = queue[s] /\ PushNames(s, k, c)
      BY <1>3 DEF PushNames
    <2>2. /\ heard <= s =>
                /\ newest[c] <= queue[s][k].body[c]
                /\ \A t \in Tasks : task[t].ans # None => task[t].ans[c] <= queue[s][k].body[c]
          /\ \A r \in Sessions : \A l \in DOMAIN queue[r] :
                r < s \/ (r = s /\ l < k) => queue[r][l].body[c] <= queue[s][k].body[c]
      BY <1>1, <2>1 DEF OrderInv
    <2> QED BY <1>3, <2>1, <2>2
  <1>7. FreshInv'
    <2> SUFFICES ASSUME line' # 0, NEW t \in Tasks, Reads(t), task[t].via = line',
                        NEW c \in Components
                 PROVE  /\ task[t].ans # None => task[t].ans[c] = dev[c] \/ Told(c)'
                        /\ \A k \in DOMAIN queue'[line'] :
                              queue'[line'][k].task = t =>
                                 queue'[line'][k].body[c] = dev[c] \/ Told(c)'
                        /\ task[t].pc = "discover" => Told(c)'
      BY DEF FreshInv, Reads
    <2>1. line' = line /\ queue'[line] = queue[line] OBVIOUS
    <2>2. Told(c)' = Told(c) BY <2>1 DEF Told, PushQueued
    <2> QED BY <1>1, <2>1, <2>2 DEF FreshInv
  <1> QED BY <1>4, <1>5, <1>6, <1>7

\* A task reads over a socket that it began with.
LEMMA ViaFact ==
    ASSUME TypeOK, SessionInv, NEW t \in Tasks, Reads(t)
    PROVE  task[t] # Idle /\ task[t].via \in (1..opened) \ waiting
  <1>1. task[t] # Idle BY DEF Reads, Idle
  <1> QED BY <1>1 DEF SessionInv

\* The device opens another socket, or leaves the one that it uses.
LEMMA DialKeeps ==
    ASSUME IInv, Dials \/ HangsUp
    PROVE  IInv'
  <1>1. /\ TypeOK /\ SessionInv /\ FramesInv /\ VersionsInv /\ OrderInv /\ FreshInv /\ NewsInv
        /\ OnlineHasReason /\ SilenceInv /\ RepairsInv
    BY DEF IInv
  <1>2. /\ kind = "remote"
        /\ UNCHANGED <<kind, present, served, session, dev, queue, status, online, error,
                       discovered, task, begun, issues, active, report, inherited, newest, failed,
                       heard, leftover>>
    BY DEF Dials, HangsUp, record, doctor, history
  <1>3. opened \in Nat /\ MaxSessions \in Nat /\ opened <= MaxSessions
        /\ waiting \cup served \subseteq 1..opened
    BY <1>1, DeviceAssumption DEF TypeOK, SessionInv
  <1>4. \/ /\ opened < MaxSessions /\ opened' = opened + 1 /\ line' = opened + 1
           /\ waiting' = waiting \cup {opened + 1}
        \/ opened' = opened /\ line' = 0 /\ waiting' = waiting
    BY DEF Dials, HangsUp
  <1>5. TypeOK'
    <2>1. opened' \in 0..MaxSessions /\ line' \in 0..MaxSessions /\ waiting' \in SUBSET Sessions
      <3>1. waiting \in SUBSET Sessions BY <1>1 DEF TypeOK
      <3>2. opened < MaxSessions => opened + 1 \in Sessions BY <1>3 DEF Sessions
      <3>3. opened' \in 0..MaxSessions /\ line' \in 0..MaxSessions BY <1>3, <1>4
      <3> QED BY <1>4, <3>1, <3>2, <3>3
    <2> QED BY <1>1, <1>2, <2>1 DEF TypeOK
  <1>6. opened + 1 \notin waiting \cup served /\ 0 \notin served BY <1>3
  <1>7. \A t \in Tasks : task[t].pc # "idle" => task[t].via \in (1..opened') \ waiting'
    <2>1. \A t \in Tasks : task[t].pc # "idle" => task[t].via \in (1..opened) \ waiting
      BY <1>1 DEF SessionInv
    <2> QED BY <1>3, <1>4, <2>1
  <1>8. SessionInv'
    <2>1. /\ line' \in {0, opened'} \cap ({0} \cup waiting' \cup served')
          /\ session' \in {0} \cup served'
          /\ waiting' \cap served' = {}
      BY <1>1, <1>2, <1>4, <1>6 DEF SessionInv
    <2>2. waiting' \cup served' \subseteq 1..opened'
      BY <1>2, <1>3, <1>4
    <2>3. \A s \in Sessions : s \notin waiting' \cup served' => queue'[s] = << >>
      BY <1>1, <1>2, <1>4 DEF SessionInv
    <2>4. \A t \in Tasks :
             /\ IF task'[t].pc = "idle" THEN task'[t] = Idle
                ELSE task'[t].via \in (1..opened') \ waiting'
             /\ task'[t].pc \in {"discover", "inspect"} => Reads(t)'
      BY <1>1, <1>2, <1>7 DEF SessionInv, Reads
    <2> QED BY <2>1, <2>2, <2>3, <2>4 DEF SessionInv
  <1>9. line' \notin served /\ (line' # 0 => \A t \in Tasks : Reads(t) => task[t].via # line')
    <2>1. line' # 0 => \A t \in Tasks : Reads(t) => task[t].via # line'
      BY <1>1, <1>3, <1>4, ViaFact
    <2> QED BY <1>4, <1>6, <2>1
  <1>10. FramesInv' /\ VersionsInv' /\ OrderInv' /\ FreshInv'
    <2>1. queue' \in [Sessions -> Seq(Frames)] BY <1>5 DEF TypeOK
    <2>2. \A c \in Components : status'[c] <= newest[c] BY <1>1, <1>2 DEF VersionsInv
    <2> QED BY <1>2, <1>9, <2>1, <2>2, DropKeeps
  <1>11. NewsInv' BY <1>2, <1>9 DEF NewsInv
  <1>12. OnlineHasReason' /\ SilenceInv' /\ RepairsInv'
    BY <1>1, <1>2 DEF OnlineHasReason, SilenceInv, HasWord, RepairsInv
  <1> QED BY <1>5, <1>8, <1>10, <1>11, <1>12 DEF IInv

\* A handler ends with its socket.
LEMMA EndKeeps ==
    ASSUME IInv, NEW s \in Sessions, SocketEnds(s)
    PROVE  IInv'
  <1>1. /\ TypeOK /\ SessionInv /\ FramesInv /\ VersionsInv /\ OrderInv /\ FreshInv /\ NewsInv
        /\ OnlineHasReason /\ SilenceInv /\ RepairsInv
    BY DEF IInv
  <1>2. /\ kind = "remote" /\ s \in served /\ served' = served \ {s}
        /\ queue' = [queue EXCEPT ![s] = << >>]
        /\ line' = (IF s = line THEN 0 ELSE line)
        /\ UNCHANGED <<kind, present, opened, waiting, dev, status, error, discovered, task, begun,
                       issues, active, report, inherited, newest, failed, heard>>
    BY DEF SocketEnds, doctor
  <1>3. \/ /\ s = session /\ session' = 0 /\ online' = FALSE
           /\ leftover' = (served' # {} \/ \E t \in Tasks : HasWord(t))
        \/ s # session /\ UNCHANGED <<session, online, leftover>>
    BY DEF SocketEnds, RemoteLeaves
  <1>4. /\ queue' \in [Sessions -> Seq(Frames)] /\ queue'[s] = << >>
        /\ \A r \in Sessions \ {s} : queue'[r] = queue[r]
    <2>1. << >> \in Seq(Frames) OBVIOUS
    <2> QED BY <1>1, <1>2, <2>1 DEF TypeOK
  <1>5. TypeOK'
    <2>1. served' \in SUBSET Sessions /\ line' \in 0..MaxSessions /\ session' \in 0..MaxSessions
      BY <1>1, <1>2, <1>3, DeviceAssumption DEF TypeOK
    <2>2. online' \in BOOLEAN /\ leftover' \in BOOLEAN
      <3>1. (served' # {} \/ \E t \in Tasks : HasWord(t)) \in BOOLEAN OBVIOUS
      <3> QED BY <1>1, <1>3, <3>1, Zenon DEF TypeOK
    <2> QED BY <1>1, <1>2, <1>4, <2>1, <2>2, Zenon DEF TypeOK
  <1>6. SessionInv'
    <2>1. /\ line' \in {0, opened'} \cap ({0} \cup waiting' \cup served')
          /\ session' \in {0} \cup served'
          /\ waiting' \cap served' = {} /\ waiting' \cup served' \subseteq 1..opened'
      BY <1>1, <1>2, <1>3 DEF SessionInv
    <2>2. \A r \in Sessions : r \notin waiting' \cup served' => queue'[r] = << >>
      BY <1>1, <1>2, <1>4 DEF SessionInv
    <2>3. \A t \in Tasks :
             /\ IF task'[t].pc = "idle" THEN task'[t] = Idle
                ELSE task'[t].via \in (1..opened') \ waiting'
             /\ task'[t].pc \in {"discover", "inspect"} => Reads(t)'
      BY <1>1, <1>2 DEF SessionInv, Reads
    <2> QED BY <2>1, <2>2, <2>3 DEF SessionInv
  <1>7. line' # 0 => line' = line /\ line # s /\ queue'[line] = queue[line]
    BY <1>1, <1>2, <1>4, SocketFact
  <1>8. FramesInv' /\ VersionsInv' /\ OrderInv' /\ FreshInv'
    <2>1. \A c \in Components : status'[c] <= newest[c] BY <1>1, <1>2 DEF VersionsInv
    <2>2. \A r \in Sessions : queue'[r] = queue[r] \/ queue'[r] = << >> BY <1>4
    <2> QED BY <1>2, <1>4, <1>7, <2>1, <2>2, DropKeeps
  <1>9. NewsInv'
    <2> SUFFICES ASSUME line' \in served', NEW c \in Components
                 PROVE  Told(c)' \/ failed' \/ Refreshing'
      BY DEF NewsInv
    <2>1. line' = line /\ line \in served /\ queue'[line] = queue[line]
      <3>1. 0 \notin served BY <1>1 DEF TypeOK, Sessions
      <3> QED BY <1>2, <1>7, <3>1
    <2>2. Told(c)' = Told(c) BY <1>2, <2>1 DEF Told, PushQueued
    <2>3. Refreshing' = Refreshing BY <1>2, <2>1 DEF Refreshing, Reads
    <2> QED BY <1>1, <1>2, <2>1, <2>2, <2>3 DEF NewsInv
  <1>10. \A t \in Tasks : HasWord(t)' = HasWord(t) BY <1>2 DEF HasWord
  <1>11. OnlineHasReason' /\ SilenceInv'
    <2>1. CASE s = session
      <3>1. session' = 0 /\ ~online'
            /\ (~leftover' => served' = {} /\ \A t \in Tasks : ~HasWord(t))
        BY <1>3, <2>1
      <3> QED BY <1>10, <3>1 DEF OnlineHasReason, SilenceInv
    <2>2. CASE s # session
      <3>1. UNCHANGED <<session, online, leftover>> BY <1>3, <2>2
      <3>2. session = 0 => leftover BY <1>1, <1>2 DEF SilenceInv
      <3> QED BY <1>1, <1>2, <3>1, <3>2 DEF OnlineHasReason, SilenceInv
    <2> QED BY <2>1, <2>2
  <1>12. RepairsInv' BY <1>1, <1>2 DEF RepairsInv
  <1> QED BY <1>5, <1>6, <1>8, <1>9, <1>11, <1>12 DEF IInv

\* A target is removed, or the entry is loaded again.
LEMMA ResetKeeps ==
    ASSUME IInv, Removed \/ Reload
    PROVE  IInv'
  <1>1. /\ TypeOK /\ SessionInv /\ FramesInv /\ VersionsInv /\ OrderInv /\ FreshInv /\ NewsInv
        /\ OnlineHasReason /\ RepairsInv
    BY DEF IInv
  <1>2. /\ queue' = [s \in Sessions |-> << >>] /\ online' = FALSE /\ kind = "local"
        /\ UNCHANGED <<kind, opened, waiting, dev, task, begun, issues, newest, failed, heard,
                       leftover>>
        /\ \/ line' = 0 /\ served' = {} /\ session' = 0
           \/ /\ UNCHANGED <<line, served, session>> /\ \A t \in Tasks : task[t] = Idle
    BY DEF Removed, Reload, sockets, doctor, history
  <1>3. queue' \in [Sessions -> Seq(Frames)] /\ \A s \in Sessions : queue'[s] = << >>
    <2>1. << >> \in Seq(Frames) OBVIOUS
    <2> QED BY <1>2, <2>1
  <1>4. TypeOK'
    <2>1. /\ present' \in BOOLEAN /\ error' \in BOOLEAN /\ discovered' \in BOOLEAN
          /\ status' \in Versions /\ inherited' \in SUBSET Keys /\ active' \in SUBSET Keys
          /\ report' \in {None} \cup SUBSET Keys
      <3>1. CASE Removed BY <1>1, <3>1 DEF TypeOK, Removed, doctor
      <3>2. CASE Reload BY <1>1, <3>2, UnknownFact DEF TypeOK, Reload
      <3> QED BY <3>1, <3>2
    <2>2. line' \in 0..MaxSessions /\ session' \in 0..MaxSessions /\ served' \in SUBSET Sessions
      BY <1>1, <1>2, DeviceAssumption DEF TypeOK
    <2> QED BY <1>1, <1>2, <1>3, <2>1, <2>2 DEF TypeOK
  <1>5. SessionInv'
    <2>1. /\ line' \in {0, opened'} \cap ({0} \cup waiting' \cup served')
          /\ session' \in {0} \cup served'
          /\ waiting' \cap served' = {} /\ waiting' \cup served' \subseteq 1..opened'
      BY <1>1, <1>2 DEF SessionInv
    <2>2. \A t \in Tasks :
             /\ IF task'[t].pc = "idle" THEN task'[t] = Idle
                ELSE task'[t].via \in (1..opened') \ waiting'
             /\ task'[t].pc \in {"discover", "inspect"} => Reads(t)'
      BY <1>1, <1>2 DEF SessionInv, Reads
    <2> QED BY <1>3, <2>1, <2>2 DEF SessionInv
  <1>6. FramesInv' /\ VersionsInv' /\ OrderInv' /\ FreshInv'
    <2>1. \A c \in Components : status'[c] <= newest[c]
      <3>1. CASE status' = status BY <1>1, <3>1 DEF VersionsInv
      <3>2. CASE status' = Unknown BY <1>1, <3>2, NatFact DEF Unknown
      <3> QED BY <3>1, <3>2 DEF Removed, Reload
    <2>2. line' # 0 => \A t \in Tasks : Reads(t) => task[t].via # line'
      BY <1>1, <1>2, ViaFact
    <2> QED BY <1>2, <1>3, <2>1, <2>2, DropKeeps
  <1>7. NewsInv' /\ OnlineHasReason' /\ SilenceInv'
    BY <1>2 DEF NewsInv, OnlineHasReason, SilenceInv
  <1>8. RepairsInv'
    <2>1. CASE Removed BY <1>2, <2>1 DEF RepairsInv, Removed
    <2>2. CASE Reload BY <1>1, <1>2, <2>2 DEF RepairsInv, Reload
    <2> QED BY <2>1, <2>2
  <1> QED BY <1>4, <1>5, <1>6, <1>7, <1>8 DEF IInv

LEMMA TaskKeeps ==
    ASSUME IInv, NEW t \in Tasks, TaskEffect(t)
    PROVE  IInv'
  <1>1. /\ TypeOK /\ SessionInv /\ FramesInv /\ VersionsInv /\ OrderInv /\ FreshInv /\ NewsInv
        /\ OnlineHasReason /\ SilenceInv /\ RepairsInv
    BY DEF IInv
  <1>2. /\ UNCHANGED <<kind, present, opened, line, waiting, served, session, dev, begun, inherited,
                       heard, leftover>>
        /\ task[t].pc # "idle" /\ task' \in [Tasks -> TaskType] /\ Others(t)
        /\ \/ task'[t] = Idle
           \/ /\ Reads(t) /\ task'[t].pc \in {"discover", "inspect"} /\ task'[t].ans = None
              /\ task'[t].does = task[t].does /\ task'[t].via = task[t].via
        /\ queue' \in [Sessions -> Seq(Frames)]
        /\ \A s \in Sessions :
              /\ DOMAIN queue'[s] = DOMAIN queue[s]
              /\ \A k \in DOMAIN queue[s] :
                    /\ queue'[s][k].type = queue[s][k].type
                    /\ queue'[s][k].body = queue[s][k].body
                    /\ queue'[s][k].task = IF queue[s][k].task = t THEN None ELSE queue[s][k].task
    BY DEF TaskEffect, Forgets, sockets
  <1>3. TypeOK'
    <2>1. /\ status' \in Versions /\ newest' \in Versions
          /\ online' \in BOOLEAN /\ error' \in BOOLEAN /\ discovered' \in BOOLEAN
          /\ failed' \in BOOLEAN
          /\ issues' \in SUBSET Keys /\ active' \in SUBSET Keys
          /\ report' \in {None} \cup SUBSET Keys
      BY DEF TaskEffect
    <2> QED BY <1>1, <1>2, <2>1 DEF TypeOK
  <1>4. /\ \A u \in Tasks : u # t => task'[u] = task[u] /\ Reads(u)' = Reads(u)
        /\ task'[t].ans = None /\ task'[t].pc # "wait"
        /\ Reads(t)' => Reads(t) /\ task'[t].via = task[t].via
        /\ task'[t].pc \in {"discover", "inspect"} => Reads(t)'
        /\ None \notin Tasks
    <2>1. Idle.ans = None /\ Idle.pc = "idle" /\ Idle.does = "nothing" BY DEF Idle
    <2> QED BY <1>2, <2>1, DeviceAssumption DEF Others, Reads
  <1>5. \A s \in Sessions : \A k \in DOMAIN queue'[s] : queue'[s][k].task # t
    BY <1>2, <1>4
  <1>6. \A c \in Components :
              /\ dev[c] \in Nat /\ status[c] \in Nat /\ newest[c] \in Nat
              /\ status'[c] \in Nat /\ newest'[c] \in Nat
              /\ \A u \in Tasks : task[u].ans # None => task[u].ans[c] \in Nat
    BY <1>1, <1>3, NatFact DEF TypeOK, Versions
  <1>7. SessionInv'
    <2>1. ASSUME NEW u \in Tasks
          PROVE  /\ IF task'[u].pc = "idle" THEN task'[u] = Idle
                    ELSE task'[u].via \in (1..opened) \ waiting
                 /\ task'[u].pc \in {"discover", "inspect"} => Reads(u)'
      <3>1. CASE u = t
        <4>1. task[t].via \in (1..opened) \ waiting BY <1>1, <1>2 DEF SessionInv
        <4>2. CASE task'[t] = Idle BY <1>4, <3>1, <4>2 DEF Idle
        <4>3. CASE task'[t] # Idle
          <5>1. task'[t].pc # "idle" /\ task'[t].via = task[t].via BY <1>2, <4>3
          <5> QED BY <1>4, <3>1, <4>1, <5>1
        <4> QED BY <4>2, <4>3
      <3>2. CASE u # t BY <1>1, <1>4, <3>2 DEF SessionInv
      <3> QED BY <3>1, <3>2
    <2>2. \A s \in Sessions : s \notin waiting \cup served => queue'[s] = << >>
      <3> SUFFICES ASSUME NEW s \in Sessions, s \notin waiting \cup served
                   PROVE  queue'[s] = << >>
        OBVIOUS
      <3>1. queue[s] = << >> /\ DOMAIN << >> = {} BY <1>1 DEF SessionInv
      <3>2. \A k \in DOMAIN queue'[s] : FALSE BY <1>2, <3>1
      <3>3. queue'[s] \in Seq(Frames) BY <1>2
      <3> QED BY <3>2, <3>3, EmptyFact
    <2>3. /\ line' \in {0, opened'} \cap ({0} \cup waiting' \cup served')
          /\ session' \in {0} \cup served'
          /\ waiting' \cap served' = {} /\ waiting' \cup served' \subseteq 1..opened'
      BY <1>1, <1>2 DEF SessionInv
    <2> QED BY <1>2, <2>1, <2>2, <2>3 DEF SessionInv
  <1>8. FramesInv'
    <2>1. \A u \in Tasks : task'[u].ans # None => task'[u].pc = "wait"
      BY <1>1, <1>4 DEF FramesInv
    <2>2. \A s \in Sessions : \A k \in DOMAIN queue'[s] :
             queue'[s][k].type = "push" => queue'[s][k].task = None
      BY <1>1, <1>2 DEF FramesInv
    <2>3. ASSUME NEW s \in Sessions, NEW k \in DOMAIN queue'[s], NEW u \in Tasks,
                 queue'[s][k].task = u
          PROVE  /\ task'[u].pc = "wait" /\ task'[u].ans = None /\ task'[u].via = s
                 /\ \A l \in DOMAIN queue'[s] : queue'[s][l].task = u => l = k
      <3>1. u # t /\ queue[s][k].task = u /\ k \in DOMAIN queue[s] BY <1>2, <1>4, <1>5, <2>3
      <3>2. \A l \in DOMAIN queue'[s] : queue'[s][l].task = u =>
               l \in DOMAIN queue[s] /\ queue[s][l].task = u
        BY <1>2, <1>4
      <3>3. /\ task[u].pc = "wait" /\ task[u].ans = None /\ task[u].via = s
            /\ \A l \in DOMAIN queue[s] : queue[s][l].task = u => l = k
        BY <1>1, <3>1 DEF FramesInv
      <3> QED BY <1>4, <3>1, <3>2, <3>3
    <2> QED BY <2>1, <2>2, <2>3 DEF FramesInv
  <1>9. \A c \in Components :
          /\ newest[c] <= newest'[c]
          /\ newest'[c] # newest[c] => task[t].ans # None /\ newest'[c] = task[t].ans[c]
          /\ status'[c] # status[c] => status'[c] <= newest'[c]
    BY DEF TaskEffect
  <1>10. VersionsInv'
    <2> SUFFICES ASSUME NEW c \in Components
                 PROVE  /\ dev[c] >= 1 /\ status'[c] <= newest'[c] /\ newest'[c] <= dev[c]
                        /\ \A s \in Sessions : \A k \in DOMAIN queue'[s] :
                              queue'[s][k].body[c] <= dev[c]
                        /\ \A u \in Tasks : task'[u].ans # None => task'[u].ans[c] <= dev[c]
      BY <1>2 DEF VersionsInv
    <2>1. /\ dev[c] >= 1 /\ status[c] <= newest[c] /\ newest[c] <= dev[c]
          /\ \A s \in Sessions : \A k \in DOMAIN queue[s] : queue[s][k].body[c] <= dev[c]
          /\ \A u \in Tasks : task[u].ans # None => task[u].ans[c] <= dev[c]
      BY <1>1 DEF VersionsInv
    <2>2. status'[c] <= newest'[c] /\ newest'[c] <= dev[c] BY <1>6, <1>9, <2>1
    <2>3. \A s \in Sessions : \A k \in DOMAIN queue'[s] : queue'[s][k].body[c] <= dev[c]
      BY <1>2, <2>1
    <2> QED BY <1>4, <2>1, <2>2, <2>3
  <1>11. OrderInv'
    <2> SUFFICES ASSUME NEW s \in Sessions, NEW k \in DOMAIN queue'[s], NEW c \in Components,
                        queue'[s][k].type = "push", queue'[s][k].body[c] > 0
                 PROVE  /\ heard <= s =>
                              /\ newest'[c] <= queue'[s][k].body[c]
                              /\ \A u \in Tasks : task'[u].ans # None =>
                                    task'[u].ans[c] <= queue'[s][k].body[c]
                        /\ \A r \in Sessions : \A l \in DOMAIN queue'[r] :
                              r < s \/ (r = s /\ l < k) =>
                                 queue'[r][l].body[c] <= queue'[s][k].body[c]
      BY <1>2 DEF OrderInv, PushNames, Named
    <2>0. k \in DOMAIN queue[s] /\ queue'[s][k].body = queue[s][k].body
          /\ queue[s][k].type = "push"
      BY <1>2
    <2>1. /\ heard <= s =>
                /\ newest[c] <= queue[s][k].body[c]
                /\ \A u \in Tasks : task[u].ans # None => task[u].ans[c] <= queue[s][k].body[c]
          /\ \A r \in Sessions : \A l \in DOMAIN queue[r] :
                r < s \/ (r = s /\ l < k) => queue[r][l].body[c] <= queue[s][k].body[c]
      BY <1>1, <2>0 DEF OrderInv, PushNames, Named
    <2>2. heard <= s => newest'[c] <= queue[s][k].body[c] BY <1>9, <2>1
    <2>3. \A r \in Sessions : \A l \in DOMAIN queue'[r] :
             l \in DOMAIN queue[r] /\ queue'[r][l].body = queue[r][l].body
      BY <1>2
    <2> QED BY <1>4, <2>0, <2>1, <2>2, <2>3
  <1>12. line # 0 => line \in Sessions BY <1>1, SocketFact
  <1>13. ASSUME NEW c \in Components, Told(c)
         PROVE  Told(c)'
    <2>1. /\ newest[c] <= newest'[c] /\ newest[c] <= dev[c] /\ newest'[c] <= dev[c]
          /\ newest[c] \in Nat /\ newest'[c] \in Nat /\ dev[c] \in Nat
      BY <1>1, <1>2, <1>6, <1>9, <1>10 DEF VersionsInv
    <2>2. CASE newest[c] = dev[c] BY <1>2, <2>1, <2>2 DEF Told
    <2>3. CASE PushQueued(c)
      <3>1. PushQueued(c)' BY <1>2, <1>12, <2>3 DEF PushQueued
      <3> QED BY <3>1 DEF Told
    <2> QED BY <1>13, <2>2, <2>3 DEF Told
  <1>14. ASSUME task'[t].pc = "discover" \/ (Reads(t) /\ task[t].pc = "wait"),
                line # 0, task[t].via = line, NEW c \in Components
         PROVE  (failed' /\ task'[t].pc # "discover") \/ Told(c)'
    <2>1. CASE failed' /\ task'[t] = Idle BY <2>1 DEF Idle
    <2>2. CASE Reads(t) /\ task[t].ans # None /\ task[t].ans[c] <= newest'[c]
      <3>1. task[t].ans[c] = dev[c] \/ Told(c) BY <1>1, <1>14, <2>2 DEF FreshInv
      <3>2. newest'[c] <= dev[c] BY <1>2, <1>10 DEF VersionsInv
      <3>3. CASE task[t].ans[c] = dev[c]
        <4>1. newest'[c] = dev[c] BY <1>6, <2>2, <3>2, <3>3
        <4> QED BY <1>2, <4>1 DEF Told
      <3> QED BY <1>13, <3>1, <3>3
    <2> QED BY <1>14, <2>1, <2>2 DEF TaskEffect
  <1>15. FreshInv'
    <2> SUFFICES ASSUME line # 0, NEW u \in Tasks, Reads(u)', task'[u].via = line,
                        NEW c \in Components
                 PROVE  /\ task'[u].ans # None => task'[u].ans[c] = dev[c] \/ Told(c)'
                        /\ \A k \in DOMAIN queue'[line] :
                              queue'[line][k].task = u =>
                                 queue'[line][k].body[c] = dev[c] \/ Told(c)'
                        /\ task'[u].pc = "discover" => Told(c)'
      BY <1>2 DEF FreshInv
    <2>1. CASE u = t
      <3>1. task'[t].pc = "discover" => Told(c)' BY <1>4, <1>14, <2>1
      <3> QED BY <1>4, <1>5, <1>12, <2>1, <3>1
    <2>2. CASE u # t
      <3>1. task'[u] = task[u] /\ Reads(u) /\ task[u].via = line BY <1>4, <2>2
      <3>2. /\ task[u].ans # None => task[u].ans[c] = dev[c] \/ Told(c)
            /\ \A k \in DOMAIN queue[line] :
                  queue[line][k].task = u => queue[line][k].body[c] = dev[c] \/ Told(c)
            /\ task[u].pc = "discover" => Told(c)
        BY <1>1, <3>1 DEF FreshInv
      <3>3. Told(c) => Told(c)' BY <1>13
      <3>4. \A k \in DOMAIN queue'[line] :
               /\ k \in DOMAIN queue[line] /\ queue'[line][k].body = queue[line][k].body
               /\ queue'[line][k].task = u => queue[line][k].task = u
        BY <1>2, <1>4, <1>12
      <3> QED BY <3>1, <3>2, <3>3, <3>4
    <2> QED BY <2>1, <2>2
  <1>16. NewsInv'
    <2> SUFFICES ASSUME kind = "remote", line \in served, NEW c \in Components
                 PROVE  Told(c)' \/ failed' \/ Refreshing'
      BY <1>2 DEF NewsInv
    <2>0. line # 0 BY <1>1 DEF TypeOK, Sessions
    <2>1. Told(c) \/ failed \/ Refreshing BY <1>1 DEF NewsInv
    <2>2. CASE Told(c) BY <1>13, <2>2
    <2>3. CASE failed /\ ~failed'
      <3>1. /\ Reads(t) /\ task[t].via = line
            /\ task[t].pc = "discover" \/ task[t].ans # None
        BY <2>3 DEF TaskEffect
      <3>2. CASE task[t].pc = "discover"
        <4>1. Told(c) BY <1>1, <2>0, <3>1, <3>2 DEF FreshInv
        <4> QED BY <1>13, <4>1
      <3>3. CASE task[t].ans # None
        <4>1. task[t].pc = "wait" BY <1>1, <3>3 DEF FramesInv
        <4> QED BY <1>14, <2>0, <2>3, <3>1, <4>1
      <3> QED BY <3>1, <3>2, <3>3
    <2>4. CASE Refreshing
      <3>1. PICK u \in Tasks : Reads(u) /\ task[u].pc = "wait" /\ task[u].via = line
        BY <2>4 DEF Refreshing
      <3>2. CASE u = t BY <1>14, <2>0, <3>1, <3>2
      <3>3. CASE u # t
        <4>1. Refreshing' BY <1>2, <1>4, <3>1, <3>3 DEF Refreshing
        <4> QED BY <4>1
      <3> QED BY <3>2, <3>3
    <2> QED BY <2>1, <2>2, <2>3, <2>4
  <1>17. /\ online' => online \/ HasWord(t)
         /\ ~online' => error' \/ (~online /\ (error => error'))
         /\ \A u \in Tasks : HasWord(u)' => HasWord(u)
    <2>1. \A u \in Tasks : u # t => HasWord(u)' = HasWord(u) BY <1>4 DEF HasWord
    <2>2. HasWord(t)' => HasWord(t) BY DEF TaskEffect
    <2> QED BY <2>1, <2>2, Zenon DEF TaskEffect
  <1>18. SilenceInv' BY <1>1, <1>2, <1>17 DEF SilenceInv
  <1>19. OnlineHasReason'
    <2> SUFFICES ASSUME kind = "remote"
                 PROVE  /\ session # 0 /\ ~online' => error'
                        /\ session = 0 /\ online' => leftover
      BY <1>2 DEF OnlineHasReason
    <2>1. session # 0 /\ ~online => error BY <1>1 DEF OnlineHasReason
    <2>2. session = 0 /\ ~leftover => ~online /\ ~HasWord(t) BY <1>1 DEF SilenceInv
    <2> QED BY <1>17, <2>1, <2>2, Zenon
  <1>20. RepairsInv'
    <2>1. ASSUME present
          PROVE  /\ issues' \subseteq active' \cup inherited /\ active' \subseteq issues'
                 /\ report' # None => report' = active'
      <3>1. /\ issues \subseteq active \cup inherited /\ active \subseteq issues
            /\ report # None => report = active
        BY <1>1, <2>1 DEF RepairsInv
      <3>2. CASE UNCHANGED <<issues, active, report>> BY <3>1, <3>2
      <3>3. ASSUME NEW errors \in SUBSET Keys, active' = errors, report' = errors,
                   errors \subseteq issues', issues' \subseteq errors \cup (issues \ active)
            PROVE  /\ issues' \subseteq active' \cup inherited /\ active' \subseteq issues'
                   /\ report' # None => report' = active'
        BY <3>1, <3>3
      <3> QED BY <2>1, <3>2, <3>3 DEF TaskEffect
    <2>2. ~(kind = "remote" /\ ~present) BY <1>1, <1>2 DEF RepairsInv, Idle
    <2> QED BY <1>2, <2>1, <2>2 DEF RepairsInv
  <1> QED
    BY <1>3, <1>7, <1>8, <1>10, <1>11, <1>15, <1>16, <1>18, <1>19, <1>20 DEF IInv

-----------------------------------------------------------------------------
LEMMA InitFact == Init => IInv
  <1> SUFFICES ASSUME Init PROVE IInv OBVIOUS
  <1>1. /\ kind \in {"remote", "local"} /\ session \in {0, 1} /\ opened = session /\ line = session
        /\ waiting = {} /\ served = {session} \ {0}
        /\ present = (kind = "local") /\ (kind = "remote" => session = 0)
        /\ online = FALSE /\ error = FALSE /\ discovered = FALSE
        /\ begun = 0 /\ issues = {} /\ active = {} /\ report = None /\ inherited = {}
        /\ failed = FALSE /\ heard = 0 /\ leftover = FALSE
    BY DEF Init
  <1>2. /\ dev \in Versions /\ status \in Versions /\ newest \in Versions
        /\ \A c \in Components : dev[c] = 1 /\ status[c] = 0 /\ newest[c] = 0
    BY DEF Init, Versions, Unknown
  <1>3. /\ task \in [Tasks -> TaskType] /\ \A t \in Tasks : task[t] = Idle
        /\ Idle.pc = "idle" /\ Idle.does = "nothing" /\ Idle.ans = None
    BY IdleFact DEF Init, Idle
  <1>4. /\ queue \in [Sessions -> Seq(Frames)] /\ DOMAIN << >> = {}
        /\ \A s \in Sessions : queue[s] = << >>
    <2>1. << >> \in Seq(Frames) OBVIOUS
    <2> QED BY <2>1 DEF Init
  <1>5. 0 \in 0..MaxSessions /\ 1 \in 0..MaxSessions /\ 1 \in Sessions
    BY DeviceAssumption DEF Sessions
  <1>6. TypeOK
    <2>1. /\ session \in 0..MaxSessions /\ opened \in 0..MaxSessions /\ line \in 0..MaxSessions
          /\ waiting \in SUBSET Sessions /\ served \in SUBSET Sessions /\ begun \in Nat
          /\ heard \in 0..MaxSessions
      BY <1>1, <1>5
    <2>2. /\ issues \in SUBSET Keys /\ active \in SUBSET Keys /\ inherited \in SUBSET Keys
          /\ report \in {None} \cup SUBSET Keys
      BY <1>1
    <2>3. present \in BOOLEAN BY <1>1
    <2> QED BY <1>1, <1>2, <1>3, <1>4, <2>1, <2>2, <2>3 DEF TypeOK
  <1>7. SessionInv
    <2>1. served \subseteq 1..opened BY <1>1
    <2> QED BY <1>1, <1>3, <1>4, <2>1 DEF SessionInv
  <1>8. FramesInv BY <1>3, <1>4 DEF FramesInv
  <1>9. VersionsInv BY <1>2, <1>3, <1>4 DEF VersionsInv
  <1>10. OrderInv BY <1>4 DEF OrderInv
  <1>11. FreshInv BY <1>3 DEF FreshInv, Reads
  <1>12. NewsInv /\ OnlineHasReason BY <1>1 DEF NewsInv, OnlineHasReason
  <1>13. SilenceInv BY <1>1, <1>3 DEF SilenceInv, HasWord
  <1>14. RepairsInv BY <1>1, <1>3 DEF RepairsInv
  <1> QED
    BY <1>6, <1>7, <1>8, <1>9, <1>10, <1>11, <1>12, <1>13, <1>14 DEF IInv

LEMMA NextKeeps == IInv /\ [Next]_vars => IInv'
  <1> SUFFICES ASSUME IInv, [Next]_vars PROVE IInv' OBVIOUS
  <1>0. TypeOK /\ SessionInv /\ FramesInv /\ VersionsInv BY DEF IInv
  <1>1. ASSUME NEW c \in Components, NEW full \in BOOLEAN, DeviceChanges(c, full) PROVE IInv'
    BY <1>0, <1>1, ChangesFact, SendKeeps
  <1>2. CASE Dials \/ HangsUp BY <1>2, DialKeeps
  <1>3. CASE Removed \/ Reload BY <1>3, ResetKeeps
  <1>4. ASSUME NEW s \in Sessions, HandleFrame(s) PROVE IInv'
    BY <1>0, <1>4, HandleFact, HandleKeeps
  <1>5. ASSUME NEW s \in Sessions, SocketEnds(s) PROVE IInv' BY <1>5, EndKeeps
  <1>6. ASSUME NEW s \in Sessions, NEW t \in Tasks, RemoteConnects(s, t) PROVE IInv'
    BY <1>6, ConnectKeeps
  <1>7. ASSUME NEW t \in Tasks, Executes(t) PROVE IInv'
    BY <1>0, <1>7, ExecutesFact, SendKeeps
  <1>8. ASSUME NEW t \in Tasks, Finish(t) PROVE IInv' BY <1>0, <1>8, FinishFact, TaskKeeps
  <1>9. ASSUME NEW t \in Tasks, NEW does \in {"refresh", "exam", "call", "set"}, Begin(t, does)
        PROVE  IInv'
    BY <1>9, BeginKeeps
  <1>10. CASE UNCHANGED vars
    <2>1. UNCHANGED <<kind, present, opened, line, waiting, served, session, dev, queue, status,
                      online, error, discovered, task, begun, issues, active, report, inherited,
                      newest, failed, heard, leftover>>
      BY <1>10 DEF vars, sockets, record, doctor, history
    <2>2. TypeOK' /\ SessionInv' /\ FramesInv' /\ VersionsInv' /\ OrderInv'
      BY <2>1 DEF IInv, TypeOK, SessionInv, FramesInv, VersionsInv, OrderInv, PushNames, Reads
    <2>3. FreshInv' /\ NewsInv' /\ OnlineHasReason' /\ SilenceInv' /\ RepairsInv'
      BY <2>1 DEF IInv, FreshInv, NewsInv, Told, PushQueued, Refreshing, Reads, OnlineHasReason,
              SilenceInv, HasWord, RepairsInv
    <2> QED BY <2>2, <2>3 DEF IInv
  <1> QED
    BY <1>1, <1>2, <1>3, <1>4, <1>5, <1>6, <1>7, <1>8, <1>9, <1>10 DEF Next

\* Together they are an invariant: every record, frame and task stays related, with
\* any number of sockets of the device served at one time.
THEOREM Invariance == Spec => []IInv
  BY InitFact, NextKeeps, PTL DEF Spec

\* The variables keep their types, whatever arrives in whatever order.
THEOREM TypeCorrect == Spec => []TypeOK
  <1>1. IInv => TypeOK BY DEF IInv
  <1> QED BY <1>1, Invariance, PTL

\* Nothing that a device became while its socket was served is missed, except by a
\* refresh that failed or something older that took the place of newer news.
THEOREM NewsReachesRecord == Spec => []Informed
  <1>1. IInv => Informed
    <2> SUFFICES ASSUME IInv, kind = "remote", line \in served, NEW c \in Components,
                        status[c] # dev[c]
                 PROVE  Announced(c) \/ Refreshing \/ failed \/ status[c] < newest[c]
      BY DEF Informed
    <2>1. Told(c) \/ failed \/ Refreshing BY DEF IInv, NewsInv
    <2>2. /\ dev[c] \in Nat /\ status[c] \in Nat /\ newest[c] \in Nat
          /\ dev[c] >= 1 /\ status[c] <= newest[c]
      BY NatFact DEF IInv, VersionsInv
    <2>3. CASE newest[c] = dev[c] BY <2>2, <2>3
    <2>4. CASE PushQueued(c) BY <2>2, <2>4 DEF PushQueued, Announced, Named
    <2> QED BY <2>1, <2>3, <2>4 DEF Told
  <1> QED BY <1>1, Invariance, PTL

\* A remote device is shown offline with the error that says why, and online
\* without session only if something could still speak for it when its session left.
THEOREM OnlineReasoned == Spec => []OnlineHasReason
  <1>1. IInv => OnlineHasReason BY DEF IInv
  <1> QED BY <1>1, Invariance, PTL

\* The repairs of a device are the errors of the last report and what was inherited.
THEOREM RepairsCorrect == Spec => []RepairsMirrorReport
  <1>1. IInv => RepairsMirrorReport BY DEF IInv, RepairsInv, RepairsMirrorReport
  <1> QED BY <1>1, Invariance, PTL

\* No frame takes the record back to an older status, unless it came on a socket
\* older than one that was heard before it.
THEOREM FramesInOrder == Spec => NewsInOrder
  <1>1. IInv /\ [Next]_vars => [OlderOnlyByAnswer]_vars
    <2> SUFFICES ASSUME IInv, Next, NEW d \in Components, status'[d] < status[d]
                 PROVE  \/ \E t \in Tasks : task[t].ans # None /\ task'[t].ans = None
                        \/ \E s \in Sessions : s < heard /\ queue'[s] # queue[s]
                        \/ inherited # inherited'
      BY DEF OlderOnlyByAnswer
    <2>0. TypeOK /\ SessionInv /\ FramesInv /\ VersionsInv /\ OrderInv BY DEF IInv
    <2>1. /\ status[d] \in Nat /\ newest[d] \in Nat /\ status[d] <= newest[d]
          /\ status' # status
      BY <2>0, NatFact DEF VersionsInv
    <2>2. ASSUME NEW c \in Components, NEW full \in BOOLEAN, DeviceChanges(c, full) PROVE FALSE
      BY <2>1, <2>2 DEF DeviceChanges, record
    <2>3. ASSUME NEW s \in Sessions, HandleFrame(s)
          PROVE  s < heard /\ queue'[s] # queue[s]
      <3>1. HandleEffect(s) BY <2>0, <2>3, HandleFact
      <3>2. /\ Len(queue[s]) \in Nat \ {0} /\ DOMAIN queue[s] = 1..Len(queue[s])
            /\ DOMAIN queue'[s] = 1..(Len(queue[s]) - 1)
        BY <3>1 DEF HandleEffect
      <3>3. 1 \in DOMAIN queue[s] /\ queue'[s] # queue[s]
        <4>1. Len(queue[s]) \in DOMAIN queue[s] /\ Len(queue[s]) \notin DOMAIN queue'[s]
          BY <3>2
        <4> QED BY <3>2, <4>1
      <3>4. /\ queue[s][1].type = "push"
            /\ status'[d] = IF queue[s][1].body[d] > 0 THEN queue[s][1].body[d] ELSE status[d]
        BY <2>1, <3>1, Zenon DEF HandleEffect
      <3>5. queue[s][1].body[d] \in Nat /\ s \in Nat /\ heard \in Nat BY <2>0, <3>3, NatFact
      <3>6. queue[s][1].body[d] > 0 /\ heard <= s => newest[d] <= queue[s][1].body[d]
        BY <2>0, <3>3, <3>4 DEF OrderInv, PushNames, Named
      <3>7. s < heard BY <2>1, <3>4, <3>5, <3>6
      <3> QED BY <3>3, <3>7
    <2>4. Dials \/ HangsUp \/ Removed => FALSE BY <2>1 DEF Dials, HangsUp, Removed, record
    <2>5. CASE Reload
      <3>1. inherited = {} /\ issues # {} /\ inherited' = issues BY <2>5 DEF Reload
      <3> QED BY <3>1
    <2>6. ASSUME NEW t \in Tasks, Executes(t) PROVE FALSE
      BY <2>1, <2>6 DEF Executes, record
    <2>7. ASSUME NEW s \in Sessions, SocketEnds(s) PROVE FALSE
      BY <2>1, <2>7 DEF SocketEnds
    <2>8. ASSUME NEW s \in Sessions, NEW t \in Tasks, RemoteConnects(s, t) PROVE FALSE
      BY <2>1, <2>8 DEF RemoteConnects
    <2>9. ASSUME NEW t \in Tasks, NEW does \in {"refresh", "exam", "call", "set"}, Begin(t, does)
          PROVE  FALSE
      BY <2>1, <2>9 DEF Begin, record
    <2>10. ASSUME NEW t \in Tasks, Finish(t)
          PROVE  task[t].ans # None /\ task'[t].ans = None
      <3>1. TaskEffect(t) BY <2>0, <2>10, FinishFact
      <3>2. task[t].ans # None BY <2>1, <3>1 DEF TaskEffect
      <3>3. task'[t].ans = None BY <3>1 DEF TaskEffect, Idle
      <3> QED BY <3>2, <3>3
    <2> QED BY <2>2, <2>3, <2>4, <2>5, <2>6, <2>7, <2>8, <2>9, <2>10, Zenon DEF Next
  <1> QED BY <1>1, Invariance, PTL DEF Spec, NewsInOrder
=============================================================================
