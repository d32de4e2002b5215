------------------------ MODULE LocalTargets_proofs ------------------------
(* LocalTargets keeps its invariant, for any sets of targets and commands, *)
(* any limit and any number of reloads.                                    *)
EXTENDS LocalTargets, FiniteSetTheorems, TLAPS

\* A command that begins, and one that stops.
LEMMA TaskFact ==
    ASSUME TypeOK, NEW t \in Tasks
    PROVE  /\ \A pc, id, snap, left : Start(t, pc, id, snap, left) =>
                /\ task'[t] = [pc |-> pc, id |-> id, snap |-> snap, left |-> left, gen |-> gen]
                /\ \A u \in Tasks : u # t => task'[u] = task[u]
           /\ Stop(t) => task'[t] = Idle /\ \A u \in Tasks : u # t => task'[u] = task[u]
  BY DEF Start, Stop, TypeOK

----------------------------------------------------------------------------
(* Types *)

\* The first refresh of a target, and the refreshes that a load starts.
LEMMA RefreshType ==
    ASSUME NEW S \in SUBSET Ids, NEW g \in Nat
    PROVE  Refreshing(S, g) \in TaskType
  BY DEF Refreshing, TaskType, Phases

LEMMA IdleType == Idle \in TaskType
  BY DEF Idle, TaskType, Phases

\* Every step keeps the types.
LEMMA TypeStep == TypeOK /\ TasksInv /\ [Next]_vars => TypeOK'
  <1> SUFFICES ASSUME TypeOK, TasksInv, [Next]_vars PROVE TypeOK'
    OBVIOUS
  <1> USE IdleType, TargetsAssumption
  <1> USE DEF TypeOK, Ids, TaskType, Phases
  <1>1. ASSUME NEW t \in Tasks, RefreshAll(t) PROVE TypeOK'
    <2>1. devices' \in SUBSET Ids /\ transports' \in SUBSET Ids /\ known' \in SUBSET Ids
      BY <1>1 DEF RefreshAll, Synced
    <2>2. task' \in [Tasks -> TaskType]
      <3>1. Pollable(devices', transports') \in SUBSET Ids BY <2>1 DEF Pollable
      <3> QED BY <1>1, <3>1 DEF RefreshAll, Start
    <2> QED BY <1>1, <2>1, <2>2 DEF RefreshAll, setup, history
  <1>2. ASSUME NEW t \in Tasks, NEW i \in Ids, RefreshOne(t, i) PROVE TypeOK'
    BY <1>2 DEF RefreshOne, Start, inventory, setup, history
  <1>3. ASSUME NEW t \in Tasks, NEW i \in Ids, Refreshed(t, i) PROVE TypeOK'
    <2>1. known' \in SUBSET Ids BY <1>3 DEF Refreshed
    <2>2. task' \in [Tasks -> TaskType] BY <1>3 DEF Refreshed, Stop
    <2>3. entry' \in {"loaded", "closing", "unloaded", "starting"} BY <1>3 DEF Refreshed
    <2> QED BY <1>3, <2>1, <2>2, <2>3 DEF Refreshed, history
  <1>4. ASSUME NEW t \in Tasks, NEW i \in Local, Add(t, i) PROVE TypeOK'
    <2>1. task' \in [Tasks -> TaskType] BY <1>4 DEF Add, Start
    <2> QED BY <1>4, <2>1 DEF Add, inventory, setup
  <1>5. ASSUME NEW t \in Tasks, ProbeFails(t) \/ Discard(t) PROVE TypeOK'
    BY <1>5 DEF ProbeFails, Discard, Stop, inventory, setup, history
  <1>6. ASSUME NEW t \in Tasks, NEW adv \in BOOLEAN, Register(t, adv) PROVE TypeOK'
    <2>1. task[t].id \in Local BY <1>6 DEF Register, TasksInv, Changing
    <2>2. task' \in [Tasks -> TaskType]
      <3>1. {task[t].id} \in SUBSET Ids BY <2>1
      <3>2. Refreshing({task[t].id}, gen) \in TaskType
        BY <3>1, RefreshType
      <3> HIDE DEF TaskType
      <3> QED BY <1>6, <3>2 DEF Register
    <2>3. stored' \in SUBSET Local BY <1>6, <2>1 DEF Register, Extended
    <2>4. live' \in SUBSET (Nat \X Local) /\ late' \in SUBSET (Nat \X Local)
      BY <1>6, <2>1 DEF Register
    <2>5. devices' \in SUBSET Ids /\ transports' \in SUBSET Ids /\ localIds' \in SUBSET Local
      BY <1>6, <2>1 DEF Register
    <2> HIDE DEF TaskType
    <2> QED BY <1>6, <2>2, <2>3, <2>4, <2>5 DEF Register, setup
  <1>7. ASSUME NEW t \in Tasks, RegisterLate(t) PROVE TypeOK'
    <2>1. task[t].id \in Local BY <1>7 DEF RegisterLate, TasksInv, Changing
    <2>2. task' \in [Tasks -> TaskType] BY <1>7 DEF RegisterLate, Stop
    <2>3. stored' \in SUBSET Local BY <1>7, <2>1 DEF RegisterLate, Extended
    <2>4. live' \in SUBSET (Nat \X Local) /\ late' \in SUBSET (Nat \X Local)
      BY <1>7, <2>1 DEF RegisterLate
    <2> QED BY <1>7, <2>2, <2>3, <2>4 DEF RegisterLate, inventory, setup
  <1>8. ASSUME NEW t \in Tasks, NEW i \in Local, Remove(t, i) PROVE TypeOK'
    <2>1. task' \in [Tasks -> TaskType] BY <1>8 DEF Remove, Start
    <2> QED BY <1>8, <2>1 DEF Remove, setup
  <1>9. ASSUME NEW t \in Tasks, NEW i \in Local, RemoveAgain(t, i) PROVE TypeOK'
    BY <1>9 DEF RemoveAgain, Forget, setup, history
  <1>10. ASSUME NEW t \in Tasks, RemoveFinish(t) PROVE TypeOK'
    <2>1. task' \in [Tasks -> TaskType] BY <1>10 DEF RemoveFinish, Stop
    <2> QED BY <1>10, <2>1 DEF RemoveFinish, StoredWithout, Forget, setup, history
  <1>11. ASSUME NEW r \in Remote, RemoteConnects(r) \/ RemoteLeaves(r) PROVE TypeOK'
    BY <1>11 DEF RemoteConnects, RemoteLeaves, setup, history
  <1>12. ASSUME NEW o \in Official, OfficialChanges(o) PROVE TypeOK'
    BY <1>12 DEF OfficialChanges, inventory, history
  <1>13. CASE Unload
    BY <1>13 DEF Unload, LocalTransports, inventory
  <1>14. CASE Unloaded
    BY <1>14 DEF Unloaded, history
  <1>15. ASSUME NEW t \in Tasks, Load(t) PROVE TypeOK'
    <2>1. gen' \in Nat /\ live' \in SUBSET (Nat \X Local) BY <1>15 DEF Load
    <2>2. task' \in [Tasks -> TaskType]
      <3>1. Refreshing(stored, gen') \in TaskType
        BY <2>1, RefreshType
      <3> HIDE DEF TaskType
      <3> QED BY <1>15, <3>1 DEF Load
    <2>3. entry' \in {"loaded", "closing", "unloaded", "starting"} BY <1>15 DEF Load
    <2> QED BY <1>15, <2>1, <2>2, <2>3 DEF Load, Synced, history
  <1>16. CASE UNCHANGED vars
    BY <1>16 DEF vars
  <1> QED
    BY <1>1, <1>2, <1>3, <1>4, <1>5, <1>6, <1>7, <1>8, <1>9, <1>10, <1>11, <1>12, <1>13,
       <1>14, <1>15, <1>16
    DEF Next, Begin, Step, Outside

----------------------------------------------------------------------------
(* What the actions do to the commands under way and to the local targets. *)

\* The commands of the other tasks go on.
Others(t) == \A u \in Tasks : u # t => task'[u] = task[u]

\* What the refreshes of targets change: neither the commands under way nor the
\* local targets.
RefreshEffect ==
    /\ \A u \in Tasks :
         /\ Changing(u)' = Changing(u) /\ (Changing(u) => task'[u] = task[u])
         /\ task'[u].gen <= gen /\ task'[u].snap \in {{}, task[u].snap}
    /\ transports' \cap Local = transports \cap Local
    /\ devices' \cap Local = devices \cap Local
    /\ UNCHANGED <<stored, localIds, remoteIds, live, doomed, gen, used, overlapped, late>>
    /\ entry' = entry \/ (entry = "starting" /\ entry' = "loaded")

LEMMA RefreshFact ==
    ASSUME TypeOK, TasksInv, NEW t \in Tasks, NEW i,
           RefreshAll(t) \/ RefreshOne(t, i) \/ Refreshed(t, i)
    PROVE  RefreshEffect
  <1>1. CASE RefreshAll(t)
    <2>1. task'[t] \in {Idle, Refreshing(Pollable(devices', transports'), gen)}
          /\ \A u \in Tasks : u # t => task'[u] = task[u]
      BY <1>1, TaskFact DEF RefreshAll, Free, Refreshing
    <2>2. task[t] = Idle BY <1>1 DEF RefreshAll, Free
    <2>3. /\ transports' \cap Local = transports \cap Local
          /\ devices' \cap Local = devices \cap Local
      BY <1>1, TargetsAssumption DEF RefreshAll, Synced, TypeOK
    <2> QED BY <1>1, <2>1, <2>2, <2>3
        DEF RefreshEffect, RefreshAll, setup, history, Changing, Idle, Refreshing, TypeOK,
            TasksInv
  <1>2. CASE RefreshOne(t, i)
    <2>1. /\ task'[t] = Refreshing({i}, gen) /\ \A u \in Tasks : u # t => task'[u] = task[u]
          /\ task[t] = Idle
      BY <1>2, TaskFact DEF RefreshOne, Free, Refreshing
    <2> QED BY <1>2, <2>1
        DEF RefreshEffect, RefreshOne, Refreshing, Idle, inventory, setup, history, Changing,
            TasksInv, TypeOK
  <1>3. CASE Refreshed(t, i)
    <2>1. ~Changing(t) BY <1>3 DEF Refreshed, TasksInv
    <2>2. /\ task'[t].pc \in {"idle", task[t].pc} /\ task'[t].gen \in {0, task[t].gen}
          /\ task'[t].snap \in {{}, task[t].snap}
          /\ \A u \in Tasks : u # t => task'[u] = task[u]
      BY <1>3 DEF Refreshed, Stop, Idle, TypeOK, TaskType
    <2> QED BY <1>3, <2>1, <2>2
        DEF RefreshEffect, Refreshed, history, Changing, TasksInv, TypeOK, TaskType
  <1> QED BY <1>1, <1>2, <1>3


AddEffect(t, i) ==
    /\ task'[t] = [pc |-> "probe", id |-> i, snap |-> stored, left |-> {}, gen |-> gen]
    /\ Others(t) /\ task[t] = Idle /\ entry = "loaded" /\ used' = used \cup {i}
    /\ i \notin used /\ HostFree(i) /\ BelowLimit
    /\ overlapped' = (overlapped \/ \E u \in Tasks : Changing(u))
    /\ UNCHANGED <<stored, devices, transports, localIds, remoteIds, live, entry, doomed,
                   gen, late>>

LEMMA AddFact ==
    ASSUME TypeOK, NEW t \in Tasks, NEW i \in Local, Add(t, i)
    PROVE  AddEffect(t, i)
  BY TaskFact DEF Add, Free, Others, inventory, setup, AddEffect

\* An addition that is given up.
GiveUpEffect(t) ==
    /\ task'[t] = Idle /\ Others(t) /\ task[t].pc = "probe"
    /\ UNCHANGED <<stored, devices, transports, localIds, remoteIds, live, entry, doomed,
                   gen, used, overlapped, late>>

LEMMA GiveUpFact ==
    ASSUME TypeOK, NEW t \in Tasks, ProbeFails(t) \/ Discard(t)
    PROVE  GiveUpEffect(t)
  BY TaskFact DEF ProbeFails, Discard, Others, inventory, setup, history, GiveUpEffect

RegisterEffect(t) ==
    LET i == task[t].id IN
    /\ task'[t] = Refreshing({i}, gen) /\ Others(t)
    /\ task[t].pc = "probe" /\ task[t].gen = gen /\ i \in Local
    /\ stored' = task[t].snap \cup {i} /\ devices' = devices \cup {i}
    /\ transports' = transports \cup {i} /\ localIds' = localIds \cup {i}
    /\ live' = live \cup {<<gen, i>>}
    /\ late' = IF entry = "loaded" THEN late ELSE late \cup {<<gen, i>>}
    /\ UNCHANGED <<remoteIds, entry, doomed, gen, used, overlapped>>

LEMMA RegisterFact ==
    ASSUME TypeOK, TasksInv, NEW t \in Tasks, NEW adv, Register(t, adv)
    PROVE  RegisterEffect(t)
  BY DEF TypeOK, TasksInv, Changing, Register, Extended, Own, Others, setup, RegisterEffect

LateEffect(t) ==
    LET i == task[t].id IN
    /\ task'[t] = Idle /\ Others(t)
    /\ task[t].pc = "probe" /\ task[t].gen # gen /\ i \in Local
    /\ stored' = task[t].snap \cup {i}
    /\ live' = live \cup {<<task[t].gen, i>>} /\ late' = late \cup {<<task[t].gen, i>>}
    /\ UNCHANGED <<devices, transports, localIds, remoteIds, entry, doomed, gen, used,
                   overlapped>>

LEMMA RegisterLateFact ==
    ASSUME TypeOK, TasksInv, NEW t \in Tasks, RegisterLate(t)
    PROVE  LateEffect(t)
  BY TaskFact DEF TasksInv, Changing, RegisterLate, Extended, Own, Others, inventory, setup,
      LateEffect

RemoveEffect(t, i) ==
    /\ task'[t] = [pc |-> "closing", id |-> i, snap |-> {}, left |-> {}, gen |-> gen]
    /\ Others(t) /\ task[t] = Idle /\ entry = "loaded"
    /\ i \in localIds \cap transports /\ transports' = transports \ {i}
    /\ overlapped' = (overlapped \/ \E u \in Tasks : Changing(u))
    /\ UNCHANGED <<stored, devices, localIds, remoteIds, live, entry, doomed, gen, used,
                   late>>

LEMMA RemoveFact ==
    ASSUME TypeOK, NEW t \in Tasks, NEW i \in Local, Remove(t, i)
    PROVE  RemoveEffect(t, i)
  BY TaskFact DEF Remove, Free, Others, setup, RemoveEffect

AgainEffect(i) ==
    /\ i \in localIds \ transports /\ entry = "loaded"
    /\ devices' = devices \ {i} /\ localIds' = localIds \ {i} /\ stored' = stored \ {i}
    /\ UNCHANGED <<task, transports, remoteIds, live, entry, doomed, gen, used, overlapped,
                   late>>

LEMMA RemoveAgainFact ==
    ASSUME TypeOK, NEW t \in Tasks, NEW i \in Local, RemoveAgain(t, i)
    PROVE  AgainEffect(i)
  BY DEF RemoveAgain, Free, Forget, setup, history, AgainEffect

FinishEffect(t) ==
    LET i == task[t].id IN
    /\ task'[t] = Idle /\ Others(t) /\ task[t].pc = "closing" /\ i \in Local
    /\ live' = live \ {<<task[t].gen, i>>} /\ stored' = stored \ {i}
    /\ task[t].gen = gen => devices' = devices \ {i} /\ localIds' = localIds \ {i}
    /\ task[t].gen # gen => UNCHANGED <<devices, localIds>>
    /\ UNCHANGED <<transports, remoteIds, entry, doomed, gen, used, overlapped, late>>

LEMMA RemoveFinishFact ==
    ASSUME TypeOK, TasksInv, NEW t \in Tasks, RemoveFinish(t)
    PROVE  FinishEffect(t)
  BY TaskFact
  DEF TasksInv, Changing, RemoveFinish, StoredWithout, Forget, Own, Others, setup, history,
      FinishEffect

RemoteEffect(r) ==
    /\ r \notin Local /\ devices \subseteq devices' /\ devices' \subseteq devices \cup {r}
    /\ transports \ {r} \subseteq transports' /\ transports' \subseteq transports \cup {r}
    /\ remoteIds' \in {remoteIds, remoteIds \cup {r}}
    /\ UNCHANGED <<task, stored, localIds, live, entry, doomed, gen, used, overlapped, late>>

LEMMA RemoteFact ==
    ASSUME TypeOK, NEW r \in Remote, RemoteConnects(r) \/ RemoteLeaves(r)
    PROVE  RemoteEffect(r)
  BY TargetsAssumption DEF RemoteConnects, RemoteLeaves, setup, history, RemoteEffect

LoadEffect(t) ==
    /\ task'[t] \in {Idle, Refreshing(stored, gen + 1)} /\ Others(t)
    /\ task[t] = Idle /\ entry = "unloaded" /\ entry' \in {"loaded", "starting"}
    /\ gen' = gen + 1 /\ localIds' = stored /\ remoteIds' = {}
    /\ devices' \cap Local = stored /\ transports' \cap Local = stored
    /\ live' = live \cup ({gen + 1} \X stored)
    /\ UNCHANGED <<stored, doomed, used, overlapped, late>>

LEMMA LoadFact ==
    ASSUME TypeOK, NEW t \in Tasks, Load(t)
    PROVE  LoadEffect(t)
  <1>1. devices' \cap Local = stored /\ transports' \cap Local = stored
    BY TargetsAssumption DEF TypeOK, Load, Synced
  <1>2. task'[t] \in {Idle, Refreshing(stored, gen + 1)} /\ Others(t)
    BY DEF Load, TypeOK, Others
  <1> QED BY <1>1, <1>2 DEF Load, history, LoadEffect

----------------------------------------------------------------------------
(* The parts of the invariant *)

\* Every step keeps the facts about the commands.
LEMMA TasksStep == TypeOK /\ TasksInv /\ FreshInv /\ [Next]_vars => TasksInv'
  <1> SUFFICES ASSUME TypeOK, TasksInv, FreshInv, [Next]_vars PROVE TasksInv'
    OBVIOUS
  <1>0. gen \in Nat /\ \A u \in Tasks : task[u].gen \in Nat BY DEF TypeOK, TaskType
  <1>1. ASSUME NEW t \in Tasks, NEW i,
               RefreshAll(t) \/ RefreshOne(t, i) \/ Refreshed(t, i)
        PROVE  TasksInv'
    <2>1. RefreshEffect BY <1>1, RefreshFact
    <2> QED BY <2>1, <1>0 DEF RefreshEffect, TasksInv, Own, Changing
  <1>2. ASSUME NEW t \in Tasks, NEW i \in Local, Add(t, i) PROVE TasksInv'
    <2>1. AddEffect(t, i) BY <1>2, AddFact
    <2> QED BY <2>1, <1>0 DEF AddEffect, Others, Idle, TasksInv, Own, Changing
  <1>3. ASSUME NEW t \in Tasks, ProbeFails(t) \/ Discard(t) PROVE TasksInv'
    <2>1. GiveUpEffect(t) BY <1>3, GiveUpFact
    <2> QED BY <2>1, <1>0 DEF GiveUpEffect, Others, Idle, TasksInv, Own, Changing
  <1>4. ASSUME NEW t \in Tasks, NEW adv \in BOOLEAN, Register(t, adv) PROVE TasksInv'
    <2>1. RegisterEffect(t) BY <1>4, RegisterFact
    <2>2. \A u \in Tasks : u # t /\ Changing(u) => task[u].id # task[t].id
      BY <2>1 DEF RegisterEffect, FreshInv, Probing
    <2> QED BY <2>1, <1>0, <2>2
        DEF RegisterEffect, Others, Refreshing, TasksInv, Own, Changing
  <1>5. ASSUME NEW t \in Tasks, RegisterLate(t) PROVE TasksInv'
    <2>1. LateEffect(t) BY <1>5, RegisterLateFact
    <2> QED BY <2>1, <1>0 DEF LateEffect, Others, Idle, TasksInv, Own, Changing
  <1>6. ASSUME NEW t \in Tasks, NEW i \in Local, Remove(t, i) PROVE TasksInv'
    <2>1. RemoveEffect(t, i) BY <1>6, RemoveFact
    <2> QED BY <2>1, <1>0 DEF RemoveEffect, Others, Idle, TasksInv, Own, Changing
  <1>7. ASSUME NEW t \in Tasks, NEW i \in Local, RemoveAgain(t, i) PROVE TasksInv'
    <2>1. AgainEffect(i) BY <1>7, RemoveAgainFact
    <2> QED BY <2>1, <1>0 DEF AgainEffect, TasksInv, Own, Changing
  <1>8. ASSUME NEW t \in Tasks, RemoveFinish(t) PROVE TasksInv'
    <2>1. FinishEffect(t) BY <1>8, RemoveFinishFact
    <2> QED BY <2>1, <1>0 DEF FinishEffect, Others, Idle, TasksInv, Own, Changing
  <1>9. ASSUME NEW r \in Remote, RemoteConnects(r) \/ RemoteLeaves(r) PROVE TasksInv'
    <2>1. RemoteEffect(r) BY <1>9, RemoteFact
    <2> QED BY <2>1, <1>0 DEF RemoteEffect, TasksInv, Own, Changing
  <1>10. ASSUME NEW o \in Official, OfficialChanges(o) PROVE TasksInv'
    BY <1>10, <1>0 DEF OfficialChanges, inventory, history, TasksInv, Own, Changing
  <1>11. CASE Unload
    BY <1>11, <1>0 DEF Unload, LocalTransports, inventory, TasksInv, Own, Changing
  <1>12. CASE Unloaded
    BY <1>12, <1>0, TargetsAssumption DEF Unloaded, history, TasksInv, Own, Changing
  <1>13. ASSUME NEW t \in Tasks, Load(t) PROVE TasksInv'
    <2>1. LoadEffect(t) BY <1>13, LoadFact
    <2> QED BY <2>1, <1>0 DEF LoadEffect, Others, Idle, Refreshing, TasksInv, Own, Changing
  <1>14. CASE UNCHANGED vars
    BY <1>14 DEF vars, TasksInv, Own, Changing
  <1> QED
    BY <1>1, <1>2, <1>3, <1>4, <1>5, <1>6, <1>7, <1>8, <1>9, <1>10, <1>11, <1>12, <1>13, <1>14
    DEF Next, Begin, Step, Outside

\* Every step keeps the ids of additions under way apart from all others.
LEMMA FreshStep == TypeOK /\ TasksInv /\ FreshInv /\ [Next]_vars => FreshInv'
  <1> SUFFICES ASSUME TypeOK, TasksInv, FreshInv, [Next]_vars PROVE FreshInv'
    OBVIOUS
  <1>1. ASSUME NEW t \in Tasks, NEW i,
               RefreshAll(t) \/ RefreshOne(t, i) \/ Refreshed(t, i)
        PROVE  FreshInv'
    <2>1. RefreshEffect BY <1>1, RefreshFact
    <2> QED BY <2>1 DEF RefreshEffect, TasksInv, FreshInv, Probing, Changing
  <1>2. ASSUME NEW t \in Tasks, NEW i \in Local, Add(t, i) PROVE FreshInv'
    <2>1. AddEffect(t, i) BY <1>2, AddFact
    <2> QED BY <2>1 DEF AddEffect, Others, Idle, TasksInv, FreshInv, Probing, Changing
  <1>3. ASSUME NEW t \in Tasks, ProbeFails(t) \/ Discard(t) PROVE FreshInv'
    <2>1. GiveUpEffect(t) BY <1>3, GiveUpFact
    <2> QED BY <2>1 DEF GiveUpEffect, Others, Idle, TasksInv, FreshInv, Probing, Changing
  <1>4. ASSUME NEW t \in Tasks, NEW adv \in BOOLEAN, Register(t, adv) PROVE FreshInv'
    <2>1. RegisterEffect(t) BY <1>4, RegisterFact
    <2> QED BY <2>1
        DEF RegisterEffect, Others, Refreshing, TasksInv, FreshInv, Probing, Changing
  <1>5. ASSUME NEW t \in Tasks, RegisterLate(t) PROVE FreshInv'
    <2>1. LateEffect(t) BY <1>5, RegisterLateFact
    <2> QED BY <2>1 DEF LateEffect, Others, Idle, TasksInv, FreshInv, Probing, Changing
  <1>6. ASSUME NEW t \in Tasks, NEW i \in Local, Remove(t, i) PROVE FreshInv'
    <2>1. RemoveEffect(t, i) BY <1>6, RemoveFact
    <2> QED BY <2>1 DEF RemoveEffect, Others, Idle, TasksInv, FreshInv, Probing, Changing
  <1>7. ASSUME NEW t \in Tasks, NEW i \in Local, RemoveAgain(t, i) PROVE FreshInv'
    <2>1. AgainEffect(i) BY <1>7, RemoveAgainFact
    <2> QED BY <2>1 DEF AgainEffect, TasksInv, FreshInv, Probing, Changing
  <1>8. ASSUME NEW t \in Tasks, RemoveFinish(t) PROVE FreshInv'
    <2>1. FinishEffect(t) BY <1>8, RemoveFinishFact
    <2> QED BY <2>1 DEF FinishEffect, Others, Idle, TasksInv, FreshInv, Probing, Changing
  <1>9. ASSUME NEW r \in Remote, RemoteConnects(r) \/ RemoteLeaves(r) PROVE FreshInv'
    <2>1. RemoteEffect(r) BY <1>9, RemoteFact
    <2> QED BY <2>1 DEF RemoteEffect, TasksInv, FreshInv, Probing, Changing
  <1>10. ASSUME NEW o \in Official, OfficialChanges(o) PROVE FreshInv'
    BY <1>10 DEF OfficialChanges, inventory, history, TasksInv, FreshInv, Probing, Changing
  <1>11. CASE Unload
    BY <1>11 DEF Unload, LocalTransports, inventory, TasksInv, FreshInv, Probing, Changing
  <1>12. CASE Unloaded
    BY <1>12 DEF Unloaded, history, TasksInv, FreshInv, Probing, Changing
  <1>13. ASSUME NEW t \in Tasks, Load(t) PROVE FreshInv'
    <2>1. LoadEffect(t) BY <1>13, LoadFact
    <2> QED BY <2>1
        DEF LoadEffect, Others, Idle, Refreshing, TasksInv, FreshInv, Probing, Changing
  <1>14. CASE UNCHANGED vars
    BY <1>14 DEF vars, TasksInv, FreshInv, Probing, Changing
  <1> QED
    BY <1>1, <1>2, <1>3, <1>4, <1>5, <1>6, <1>7, <1>8, <1>9, <1>10, <1>11, <1>12, <1>13, <1>14
    DEF Next, Begin, Step, Outside

\* Every step keeps the tables of the manager in agreement.
LEMMA TablesStep == TypeOK /\ TasksInv /\ FreshInv /\ TablesInv /\ [Next]_vars => TablesInv'
  <1> SUFFICES ASSUME TypeOK, TasksInv, FreshInv, TablesInv, [Next]_vars PROVE TablesInv'
    OBVIOUS
  <1>1. ASSUME NEW t \in Tasks, NEW i,
               RefreshAll(t) \/ RefreshOne(t, i) \/ Refreshed(t, i)
        PROVE  TablesInv'
    <2>1. RefreshEffect BY <1>1, RefreshFact
    <2>2. /\ \A u \in Tasks : task[u].pc = "closing" => task'[u] = task[u]
          /\ entry' # "unloaded" => entry # "unloaded"
      BY <2>1 DEF RefreshEffect, Changing
    <2> QED BY <2>1, <2>2 DEF RefreshEffect, TablesInv, Closes
  <1>2. ASSUME NEW t \in Tasks, NEW i \in Local, Add(t, i) PROVE TablesInv'
    <2>1. AddEffect(t, i) BY <1>2, AddFact
    <2> QED BY <2>1 DEF AddEffect, Others, Idle, TablesInv, Closes
  <1>3. ASSUME NEW t \in Tasks, ProbeFails(t) \/ Discard(t) PROVE TablesInv'
    <2>1. GiveUpEffect(t) BY <1>3, GiveUpFact
    <2> QED BY <2>1 DEF GiveUpEffect, Others, Idle, TablesInv, Closes
  <1>4. ASSUME NEW t \in Tasks, NEW adv \in BOOLEAN, Register(t, adv) PROVE TablesInv'
    <2>1. RegisterEffect(t) BY <1>4, RegisterFact
    <2> QED BY <2>1 DEF RegisterEffect, Others, Refreshing, TablesInv, Closes
  <1>5. ASSUME NEW t \in Tasks, RegisterLate(t) PROVE TablesInv'
    <2>1. LateEffect(t) BY <1>5, RegisterLateFact
    <2> QED BY <2>1 DEF LateEffect, Others, Idle, TablesInv, Closes
  <1>6. ASSUME NEW t \in Tasks, NEW i \in Local, Remove(t, i) PROVE TablesInv'
    <2>1. RemoveEffect(t, i) BY <1>6, RemoveFact
    <2> QED BY <2>1 DEF RemoveEffect, Others, Idle, TablesInv, Closes
  <1>7. ASSUME NEW t \in Tasks, NEW i \in Local, RemoveAgain(t, i) PROVE TablesInv'
    <2>1. AgainEffect(i) BY <1>7, RemoveAgainFact
    <2> QED BY <2>1 DEF AgainEffect, TablesInv, Closes
  <1>8. ASSUME NEW t \in Tasks, RemoveFinish(t) PROVE TablesInv'
    <2>1. FinishEffect(t) BY <1>8, RemoveFinishFact
    <2>2. task[t].gen = gen => task[t].id \notin transports
      BY <2>1 DEF FinishEffect, TasksInv, Own
    <2> QED BY <2>1, <2>2 DEF FinishEffect, Others, Idle, TablesInv, Closes
  <1>9. ASSUME NEW r \in Remote, RemoteConnects(r) \/ RemoteLeaves(r) PROVE TablesInv'
    <2>1. RemoteEffect(r) BY <1>9, RemoteFact
    <2> QED BY <2>1 DEF RemoteEffect, TablesInv, Closes
  <1>10. ASSUME NEW o \in Official, OfficialChanges(o) PROVE TablesInv'
    BY <1>10 DEF OfficialChanges, inventory, history, TablesInv, Closes
  <1>11. CASE Unload
    BY <1>11 DEF Unload, LocalTransports, inventory, TablesInv, Closes
  <1>12. CASE Unloaded
    BY <1>12 DEF Unloaded, history, TablesInv, Closes
  <1>13. ASSUME NEW t \in Tasks, Load(t) PROVE TablesInv'
    <2>1. LoadEffect(t) BY <1>13, LoadFact
    <2> QED BY <2>1 DEF LoadEffect, Others, Idle, Refreshing, TablesInv, Closes
  <1>14. CASE UNCHANGED vars
    BY <1>14 DEF vars, TablesInv, Closes
  <1> QED
    BY <1>1, <1>2, <1>3, <1>4, <1>5, <1>6, <1>7, <1>8, <1>9, <1>10, <1>11, <1>12, <1>13, <1>14
    DEF Next, Begin, Step, Outside

\* Every step keeps track of what async_close leaves open.
LEMMA CloseStep ==
    TypeOK /\ TasksInv /\ TablesInv /\ CloseInv /\ TransportsAccounted /\ [Next]_vars
        => CloseInv'
  <1> SUFFICES ASSUME TypeOK, TasksInv, TablesInv, CloseInv, TransportsAccounted, [Next]_vars
           PROVE  CloseInv'
    OBVIOUS
  <1>1. ASSUME NEW t \in Tasks, NEW i,
               RefreshAll(t) \/ RefreshOne(t, i) \/ Refreshed(t, i)
        PROVE  CloseInv'
    <2>1. RefreshEffect BY <1>1, RefreshFact
    <2>2. /\ \A u \in Tasks : task[u].pc = "closing" => task'[u] = task[u]
          /\ (entry' = "unloaded") = (entry = "unloaded") /\ (entry' = "closing") = (entry = "closing")
      BY <2>1 DEF RefreshEffect, Changing
    <2> QED BY <2>1, <2>2 DEF RefreshEffect, CloseInv, Closes
  <1>2. ASSUME NEW t \in Tasks, NEW i \in Local, Add(t, i) PROVE CloseInv'
    <2>1. AddEffect(t, i) BY <1>2, AddFact
    <2> QED BY <2>1 DEF AddEffect, Others, Idle, CloseInv, Closes
  <1>3. ASSUME NEW t \in Tasks, ProbeFails(t) \/ Discard(t) PROVE CloseInv'
    <2>1. GiveUpEffect(t) BY <1>3, GiveUpFact
    <2> QED BY <2>1 DEF GiveUpEffect, Others, Idle, CloseInv, Closes
  <1>4. ASSUME NEW t \in Tasks, NEW adv \in BOOLEAN, Register(t, adv) PROVE CloseInv'
    <2>1. RegisterEffect(t) BY <1>4, RegisterFact
    <2> QED BY <2>1 DEF RegisterEffect, Others, Refreshing, CloseInv, Closes
  <1>5. ASSUME NEW t \in Tasks, RegisterLate(t) PROVE CloseInv'
    <2>1. LateEffect(t) BY <1>5, RegisterLateFact
    <2> QED BY <2>1 DEF LateEffect, Others, Idle, CloseInv, Closes
  <1>6. ASSUME NEW t \in Tasks, NEW i \in Local, Remove(t, i) PROVE CloseInv'
    <2>1. RemoveEffect(t, i) BY <1>6, RemoveFact
    <2> QED BY <2>1 DEF RemoveEffect, Others, Idle, CloseInv, Closes
  <1>7. ASSUME NEW t \in Tasks, NEW i \in Local, RemoveAgain(t, i) PROVE CloseInv'
    <2>1. AgainEffect(i) BY <1>7, RemoveAgainFact
    <2> QED BY <2>1 DEF AgainEffect, CloseInv, Closes
  <1>8. ASSUME NEW t \in Tasks, RemoveFinish(t) PROVE CloseInv'
    <2>1. FinishEffect(t) BY <1>8, RemoveFinishFact
    <2> QED BY <2>1 DEF FinishEffect, Others, Idle, CloseInv, Closes
  <1>9. ASSUME NEW r \in Remote, RemoteConnects(r) \/ RemoteLeaves(r) PROVE CloseInv'
    <2>1. RemoteEffect(r) BY <1>9, RemoteFact
    <2> QED BY <2>1 DEF RemoteEffect, CloseInv, Closes
  <1>10. ASSUME NEW o \in Official, OfficialChanges(o) PROVE CloseInv'
    BY <1>10 DEF OfficialChanges, inventory, history, CloseInv, Closes
  <1>11. CASE Unload
    BY <1>11 DEF Unload, LocalTransports, inventory, CloseInv, Closes
  <1>12. CASE Unloaded
    BY <1>12 DEF Unloaded, history, CloseInv, Closes, TransportsAccounted, TypeOK
  <1>13. ASSUME NEW t \in Tasks, Load(t) PROVE CloseInv'
    <2>1. LoadEffect(t) BY <1>13, LoadFact
    <2> QED BY <2>1 DEF LoadEffect, Others, Idle, Refreshing, CloseInv, Closes
  <1>14. CASE UNCHANGED vars
    BY <1>14 DEF vars, CloseInv, Closes
  <1> QED
    BY <1>1, <1>2, <1>3, <1>4, <1>5, <1>6, <1>7, <1>8, <1>9, <1>10, <1>11, <1>12, <1>13, <1>14
    DEF Next, Begin, Step, Outside

\* Every step accounts for every transport that is open.
LEMMA AccountStep ==
    TypeOK /\ TasksInv /\ CloseInv /\ TransportsAccounted /\ [Next]_vars
        => TransportsAccounted'
  <1> SUFFICES ASSUME TypeOK, TasksInv, CloseInv, TransportsAccounted, [Next]_vars
           PROVE  TransportsAccounted'
    OBVIOUS
  <1>0. live \subseteq Nat \X Local /\ \A c \in live : c[1] \in Nat /\ c[2] \in Local /\ c = <<c[1], c[2]>>
    BY DEF TypeOK
  <1>1. ASSUME NEW t \in Tasks, NEW i,
               RefreshAll(t) \/ RefreshOne(t, i) \/ Refreshed(t, i)
        PROVE  TransportsAccounted'
    <2>1. RefreshEffect BY <1>1, RefreshFact
    <2>2. \A u \in Tasks : task[u].pc = "closing" => task'[u] = task[u]
      BY <2>1 DEF RefreshEffect, Changing
    <2> QED BY <2>1, <1>0, <2>2 DEF RefreshEffect, TransportsAccounted, Closes
  <1>2. ASSUME NEW t \in Tasks, NEW i \in Local, Add(t, i) PROVE TransportsAccounted'
    <2>1. AddEffect(t, i) BY <1>2, AddFact
    <2> QED BY <2>1, <1>0 DEF AddEffect, Others, Idle, TransportsAccounted, Closes
  <1>3. ASSUME NEW t \in Tasks, ProbeFails(t) \/ Discard(t) PROVE TransportsAccounted'
    <2>1. GiveUpEffect(t) BY <1>3, GiveUpFact
    <2> QED BY <2>1, <1>0 DEF GiveUpEffect, Others, Idle, TransportsAccounted, Closes
  <1>4. ASSUME NEW t \in Tasks, NEW adv \in BOOLEAN, Register(t, adv) PROVE TransportsAccounted'
    <2>1. RegisterEffect(t) BY <1>4, RegisterFact
    <2> QED BY <2>1, <1>0 DEF RegisterEffect, Others, Refreshing, TransportsAccounted, Closes
  <1>5. ASSUME NEW t \in Tasks, RegisterLate(t) PROVE TransportsAccounted'
    <2>1. LateEffect(t) BY <1>5, RegisterLateFact
    <2> QED BY <2>1, <1>0 DEF LateEffect, Others, Idle, TransportsAccounted, Closes
  <1>6. ASSUME NEW t \in Tasks, NEW i \in Local, Remove(t, i) PROVE TransportsAccounted'
    <2>1. RemoveEffect(t, i) BY <1>6, RemoveFact
    <2> QED BY <2>1, <1>0 DEF RemoveEffect, Others, Idle, TransportsAccounted, Closes
  <1>7. ASSUME NEW t \in Tasks, NEW i \in Local, RemoveAgain(t, i) PROVE TransportsAccounted'
    <2>1. AgainEffect(i) BY <1>7, RemoveAgainFact
    <2> QED BY <2>1, <1>0 DEF AgainEffect, TransportsAccounted, Closes
  <1>8. ASSUME NEW t \in Tasks, RemoveFinish(t) PROVE TransportsAccounted'
    <2>1. FinishEffect(t) BY <1>8, RemoveFinishFact
    <2> QED BY <2>1, <1>0 DEF FinishEffect, Others, Idle, TransportsAccounted, Closes
  <1>9. ASSUME NEW r \in Remote, RemoteConnects(r) \/ RemoteLeaves(r) PROVE TransportsAccounted'
    <2>1. RemoteEffect(r) BY <1>9, RemoteFact
    <2> QED BY <2>1, <1>0 DEF RemoteEffect, TransportsAccounted, Closes
  <1>10. ASSUME NEW o \in Official, OfficialChanges(o) PROVE TransportsAccounted'
    BY <1>10, <1>0 DEF OfficialChanges, inventory, history, TransportsAccounted, Closes
  <1>11. CASE Unload
    BY <1>11, <1>0
        DEF Unload, LocalTransports, inventory, TransportsAccounted, Closes, CloseInv
  <1>12. CASE Unloaded
    BY <1>12, <1>0 DEF Unloaded, history, TransportsAccounted, Closes, CloseInv
  <1>13. ASSUME NEW t \in Tasks, Load(t) PROVE TransportsAccounted'
    <2>1. LoadEffect(t) BY <1>13, LoadFact
    <2> QED BY <2>1, <1>0
        DEF LoadEffect, Others, Idle, Refreshing, TransportsAccounted, Closes, CloseInv
  <1>14. CASE UNCHANGED vars
    BY <1>14 DEF vars, TransportsAccounted, Closes
  <1> QED
    BY <1>1, <1>2, <1>3, <1>4, <1>5, <1>6, <1>7, <1>8, <1>9, <1>10, <1>11, <1>12, <1>13, <1>14
    DEF Next, Begin, Step, Outside

\* Every step keeps the list and the tables equal while commands do not overlap.
LEMMA SequentialStep ==
    TypeOK /\ TasksInv /\ FreshInv /\ TablesInv /\ SequentialInv /\ [Next]_vars
        => SequentialInv'
  <1> SUFFICES ASSUME TypeOK, TasksInv, FreshInv, TablesInv, SequentialInv, [Next]_vars
           PROVE  SequentialInv'
    OBVIOUS
  <1>0. stored \subseteq Local /\ overlapped \in BOOLEAN BY DEF TypeOK
  <1>1. ASSUME NEW t \in Tasks, NEW i,
               RefreshAll(t) \/ RefreshOne(t, i) \/ Refreshed(t, i)
        PROVE  SequentialInv'
    <2>1. RefreshEffect BY <1>1, RefreshFact
    <2> QED BY <2>1, <1>0 DEF RefreshEffect, SequentialInv, Changing, Probing, Own
  <1>2. ASSUME NEW t \in Tasks, NEW i \in Local, Add(t, i) PROVE SequentialInv'
    <2>1. AddEffect(t, i) BY <1>2, AddFact
    <2>2. ~overlapped' => ~overlapped /\ \A u \in Tasks : ~Changing(u)
      BY <2>1, <1>0 DEF AddEffect
    <2> QED BY <2>1, <1>0, <2>2
        DEF AddEffect, Others, Idle, SequentialInv, Changing, Probing, Own, HostFree
  <1>3. ASSUME NEW t \in Tasks, ProbeFails(t) \/ Discard(t) PROVE SequentialInv'
    <2>1. GiveUpEffect(t) BY <1>3, GiveUpFact
    <2> QED BY <2>1, <1>0
        DEF GiveUpEffect, Others, Idle, SequentialInv, Changing, Probing, Own
  <1>4. ASSUME NEW t \in Tasks, NEW adv \in BOOLEAN, Register(t, adv) PROVE SequentialInv'
    <2>1. RegisterEffect(t) BY <1>4, RegisterFact
    <2> QED BY <2>1, <1>0
        DEF RegisterEffect, Others, Refreshing, SequentialInv, Changing, Probing, Own
  <1>5. ASSUME NEW t \in Tasks, RegisterLate(t) PROVE SequentialInv'
    <2>1. LateEffect(t) BY <1>5, RegisterLateFact
    <2> QED BY <2>1, <1>0 DEF LateEffect, Others, Idle, SequentialInv, Changing, Probing, Own
  <1>6. ASSUME NEW t \in Tasks, NEW i \in Local, Remove(t, i) PROVE SequentialInv'
    <2>1. RemoveEffect(t, i) BY <1>6, RemoveFact
    <2>2. ~overlapped' => ~overlapped /\ \A u \in Tasks : ~Changing(u)
      BY <2>1, <1>0 DEF RemoveEffect
    <2> QED BY <2>1, <1>0, <2>2
        DEF RemoveEffect, Others, Idle, SequentialInv, Changing, Probing, Own
  <1>7. ASSUME NEW t \in Tasks, NEW i \in Local, RemoveAgain(t, i) PROVE SequentialInv'
    <2>1. AgainEffect(i) BY <1>7, RemoveAgainFact
    <2>2. PICK u \in Tasks : Closes(u, <<gen, i>>)
      BY <2>1 DEF AgainEffect, TablesInv
    <2> QED BY <2>1, <1>0, <2>2 DEF AgainEffect, SequentialInv, Changing, Probing, Own, Closes
  <1>8. ASSUME NEW t \in Tasks, RemoveFinish(t) PROVE SequentialInv'
    <2>1. FinishEffect(t) BY <1>8, RemoveFinishFact
    <2> QED BY <2>1, <1>0
        DEF FinishEffect, Others, Idle, SequentialInv, Changing, Probing, Own
  <1>9. ASSUME NEW r \in Remote, RemoteConnects(r) \/ RemoteLeaves(r) PROVE SequentialInv'
    <2>1. RemoteEffect(r) BY <1>9, RemoteFact
    <2> QED BY <2>1, <1>0 DEF RemoteEffect, SequentialInv, Changing, Probing, Own
  <1>10. ASSUME NEW o \in Official, OfficialChanges(o) PROVE SequentialInv'
    BY <1>10, <1>0
        DEF OfficialChanges, inventory, history, SequentialInv, Changing, Probing, Own
  <1>11. CASE Unload
    BY <1>11, <1>0
        DEF Unload, LocalTransports, inventory, SequentialInv, Changing, Probing, Own
  <1>12. CASE Unloaded
    BY <1>12, <1>0 DEF Unloaded, history, SequentialInv, Changing, Probing, Own
  <1>13. ASSUME NEW t \in Tasks, Load(t) PROVE SequentialInv'
    <2>1. LoadEffect(t) BY <1>13, LoadFact
    <2> QED BY <2>1, <1>0
        DEF LoadEffect, Others, Idle, Refreshing, SequentialInv, Changing, Probing, Own
  <1>14. CASE UNCHANGED vars
    BY <1>14 DEF vars, SequentialInv, Changing, Probing, Own
  <1> QED
    BY <1>1, <1>2, <1>3, <1>4, <1>5, <1>6, <1>7, <1>8, <1>9, <1>10, <1>11, <1>12, <1>13, <1>14
    DEF Next, Begin, Step, Outside


\* A step that adds neither a target nor an addition keeps the limit.
LEMMA LimitFact ==
    ASSUME TypeOK, LimitInv, localIds' \subseteq localIds, Probing' \subseteq Probing,
           IsFiniteSet(remoteIds'), gen' = gen
    PROVE  LimitInv'
  <1>1. IsFiniteSet(localIds) /\ IsFiniteSet(Probing)
    BY TargetsAssumption, FS_Subset DEF TypeOK, Probing
  <1>2. /\ Cardinality(localIds') <= Cardinality(localIds)
        /\ Cardinality(Probing') <= Cardinality(Probing)
    BY <1>1, FS_Subset
  <1>3. /\ Cardinality(localIds) \in Nat /\ Cardinality(Probing) \in Nat
        /\ Cardinality(localIds') \in Nat /\ Cardinality(Probing') \in Nat
        /\ Cardinality(Tasks) \in Nat
    BY <1>1, FS_Subset, FS_CardinalityType, TargetsAssumption
  <1> QED BY <1>2, <1>3, TargetsAssumption DEF LimitInv

\* Every step keeps the limit, but for additions that overlap.
LEMMA LimitStep == TypeOK /\ TasksInv /\ LimitInv /\ [Next]_vars => LimitInv'
  <1> SUFFICES ASSUME TypeOK, TasksInv, LimitInv, [Next]_vars PROVE LimitInv'
    OBVIOUS
  <1>0. IsFiniteSet(remoteIds) BY DEF LimitInv
  <1>1. ASSUME NEW t \in Tasks, NEW i,
               RefreshAll(t) \/ RefreshOne(t, i) \/ Refreshed(t, i)
        PROVE  LimitInv'
    <2>1. RefreshEffect BY <1>1, RefreshFact
    <2>2. Probing' \subseteq Probing BY <2>1 DEF RefreshEffect, Probing, Changing
    <2> QED BY <2>1, LimitFact, <1>0, <2>2 DEF RefreshEffect, Probing
  <1>2. ASSUME NEW t \in Tasks, NEW i \in Local, Add(t, i) PROVE LimitInv'
    <2>1. AddEffect(t, i) BY <1>2, AddFact
    <2>2. IsFiniteSet(localIds) /\ IsFiniteSet(Probing) /\ IsFiniteSet(remoteIds)
      BY <1>0, TargetsAssumption, FS_Subset DEF TypeOK, Probing
    <2>3. Cardinality(localIds) <= Cardinality(localIds \cup remoteIds)
      BY <2>2, FS_Union, FS_Subset
    <2>4. Probing' \in SUBSET Tasks BY DEF Probing
    <2>5. Cardinality(Probing') <= Cardinality(Tasks) /\ Cardinality(Probing') \in Nat
      BY <2>4, TargetsAssumption, FS_Subset, FS_CardinalityType
    <2>6. Cardinality(localIds) \in Nat /\ Cardinality(localIds \cup remoteIds) \in Nat
          /\ Cardinality(Tasks) \in Nat
      BY <2>2, FS_Union, FS_CardinalityType, TargetsAssumption
    <2>7. Cardinality(localIds \cup remoteIds) < MaxDevices /\ UNCHANGED <<localIds, remoteIds>>
      BY <2>1 DEF AddEffect, BelowLimit
    <2> QED BY <1>0, <2>3, <2>5, <2>6, <2>7, TargetsAssumption DEF LimitInv
  <1>3. ASSUME NEW t \in Tasks, ProbeFails(t) \/ Discard(t) PROVE LimitInv'
    <2>1. GiveUpEffect(t) BY <1>3, GiveUpFact
    <2> QED BY <2>1, LimitFact, <1>0 DEF GiveUpEffect, Others, Idle, Probing
  <1>4. ASSUME NEW t \in Tasks, NEW adv \in BOOLEAN, Register(t, adv) PROVE LimitInv'
    <2>1. RegisterEffect(t) BY <1>4, RegisterFact
    <2>2. IsFiniteSet(localIds) /\ IsFiniteSet(Probing)
      BY TargetsAssumption, FS_Subset DEF TypeOK, Probing
    <2>3. t \in Probing /\ Probing' = Probing \ {t}
      BY <2>1 DEF RegisterEffect, Others, Refreshing, Probing
    <2>4. Cardinality(Probing') = Cardinality(Probing) - 1 BY <2>2, <2>3, FS_RemoveElement
    <2>5. Cardinality(localIds') <= Cardinality(localIds) + 1
      <3>1. localIds' = localIds \cup {task[t].id} BY <2>1 DEF RegisterEffect
      <3>2. Cardinality(localIds') = IF task[t].id \in localIds THEN Cardinality(localIds)
                                     ELSE Cardinality(localIds) + 1
        BY <2>2, <3>1, FS_AddElement
      <3> QED BY <2>2, <3>2, FS_CardinalityType
    <2>6. Cardinality(localIds) \in Nat /\ Cardinality(Probing) \in Nat /\ Cardinality(Tasks) \in Nat
          /\ Cardinality(localIds') \in Nat
      <3>1. IsFiniteSet(localIds')
        BY <2>1, <2>2, FS_AddElement DEF RegisterEffect
      <3> QED BY <2>2, <3>1, FS_CardinalityType, TargetsAssumption
    <2> QED BY <2>1, <2>4, <2>5, <2>6, TargetsAssumption DEF RegisterEffect, LimitInv
  <1>5. ASSUME NEW t \in Tasks, RegisterLate(t) PROVE LimitInv'
    <2>1. LateEffect(t) BY <1>5, RegisterLateFact
    <2> QED BY <2>1, LimitFact, <1>0 DEF LateEffect, Others, Idle, Probing
  <1>6. ASSUME NEW t \in Tasks, NEW i \in Local, Remove(t, i) PROVE LimitInv'
    <2>1. RemoveEffect(t, i) BY <1>6, RemoveFact
    <2> QED BY <2>1, LimitFact, <1>0 DEF RemoveEffect, Others, Idle, Probing
  <1>7. ASSUME NEW t \in Tasks, NEW i \in Local, RemoveAgain(t, i) PROVE LimitInv'
    <2>1. AgainEffect(i) BY <1>7, RemoveAgainFact
    <2> QED BY <2>1, LimitFact, <1>0 DEF AgainEffect, Probing
  <1>8. ASSUME NEW t \in Tasks, RemoveFinish(t) PROVE LimitInv'
    <2>1. FinishEffect(t) BY <1>8, RemoveFinishFact
    <2> QED BY <2>1, LimitFact, <1>0 DEF FinishEffect, Others, Idle, Probing
  <1>9. ASSUME NEW r \in Remote, RemoteConnects(r) \/ RemoteLeaves(r) PROVE LimitInv'
    <2>1. RemoteEffect(r) BY <1>9, RemoteFact
    <2>2. IsFiniteSet(remoteIds')
      BY <2>1, <1>0, FS_AddElement DEF RemoteEffect
    <2> QED BY <2>1, LimitFact, <1>0, <2>2 DEF RemoteEffect, Probing
  <1>10. ASSUME NEW o \in Official, OfficialChanges(o) PROVE LimitInv'
    BY <1>10, LimitFact, <1>0 DEF OfficialChanges, inventory, history, Probing
  <1>11. CASE Unload
    BY <1>11, LimitFact, <1>0 DEF Unload, LocalTransports, inventory, Probing
  <1>12. CASE Unloaded
    BY <1>12, LimitFact, <1>0 DEF Unloaded, history, Probing
  <1>13. ASSUME NEW t \in Tasks, Load(t) PROVE LimitInv'
    <2>1. LoadEffect(t) BY <1>13, LoadFact
    <2>2. gen' # 0 BY <2>1 DEF LoadEffect, TypeOK
    <2> QED BY <2>1, <2>2, FS_EmptySet DEF LoadEffect, LimitInv
  <1>14. CASE UNCHANGED vars
    BY <1>14 DEF vars, Probing, LimitInv
  <1> QED
    BY <1>1, <1>2, <1>3, <1>4, <1>5, <1>6, <1>7, <1>8, <1>9, <1>10, <1>11, <1>12, <1>13, <1>14
    DEF Next, Begin, Step, Outside

----------------------------------------------------------------------------
(* Theorems *)

\* The inductive invariant holds initially.
LEMMA InitInv == Init => IInv
  <1> SUFFICES ASSUME Init PROVE IInv
    OBVIOUS
  <1>1. /\ \A t \in Tasks : task[t] = Idle
        /\ Probing = {}
    BY DEF Init, Probing, Idle
  <1>2. TypeOK
    <2>1. task \in [Tasks -> TaskType] BY IdleType DEF Init
    <2> HIDE DEF TaskType
    <2> QED BY <2>1 DEF Init, TypeOK
  <1>3. TasksInv /\ FreshInv /\ TablesInv /\ CloseInv /\ TransportsAccounted
    BY <1>1 DEF Init, Idle, TasksInv, FreshInv, TablesInv, CloseInv, TransportsAccounted,
        Changing
  <1>4. SequentialInv BY <1>1 DEF Init, Idle, SequentialInv, Changing
  <1>5. LimitInv
    <2>1. Cardinality(localIds) = 0 /\ Cardinality(Probing) = 0 /\ IsFiniteSet(remoteIds)
      BY <1>1, FS_EmptySet DEF Init
    <2>2. Cardinality(Tasks) \in Nat BY FS_CardinalityType, TargetsAssumption
    <2> QED BY <2>1, <2>2, TargetsAssumption DEF LimitInv
  <1> QED BY <1>2, <1>3, <1>4, <1>5 DEF IInv

\* The inductive invariant holds in every reachable state of the inventory.
THEOREM Invariance == Spec => []IInv
  <1>1. IInv /\ [Next]_vars => IInv'
    BY TypeStep, TasksStep, FreshStep, TablesStep, CloseStep, AccountStep, SequentialStep, LimitStep
    DEF IInv
  <1> QED BY InitInv, <1>1, PTL DEF Spec

\* Every variable of the inventory keeps its type.
THEOREM TypeCorrect == Spec => []TypeOK
  <1>1. IInv => TypeOK BY DEF IInv
  <1> QED BY Invariance, <1>1, PTL

\* The tables name the same local targets, but for a removal that awaits the
\* close of its transport (device_manager.py 116-148, 420-436).
THEOREM TablesAgree == Spec => []TargetsAgree
  <1>1. IInv => TargetsAgree
    BY DEF IInv, TablesInv, TargetsAgree, Closes, Own, TypeOK
  <1> QED BY Invariance, <1>1, PTL

\* Every open transport of a local target is in the table, is being closed, or was
\* opened by an addition that outlived the tables (device_manager.py 125-131).
THEOREM NoTransportLost == Spec => []TransportsAccounted
  <1>1. IInv => TransportsAccounted BY DEF IInv
  <1> QED BY Invariance, <1>1, PTL

\* What is persisted is what is managed, and no address is stored twice, while
\* commands do not overlap (device_manager.py 370-436).
THEOREM PersistedIsManaged == Spec => []SequentialPersisted
  <1>1. IInv => SequentialPersisted
    BY DEF IInv, SequentialInv, SequentialPersisted, TypeOK
  <1> QED BY Invariance, <1>1, PTL

\* Additions that overlap exceed the limit by less than the number of commands,
\* until a reload takes the persisted list (device_manager.py 387-388).
THEOREM LimitKept == Spec => []LimitNearlyKept
  <1>1. IInv => LimitNearlyKept
    <2> SUFFICES ASSUME IInv, gen = 0
                 PROVE  Cardinality(localIds) <= MaxDevices - 1 + Cardinality(Tasks)
      BY DEF LimitNearlyKept
    <2>1. IsFiniteSet(localIds) /\ IsFiniteSet(Probing)
      BY TargetsAssumption, FS_Subset DEF IInv, TypeOK, Probing
    <2>2. Cardinality(localIds) \in Nat /\ Cardinality(Probing) \in Nat
          /\ Cardinality(Tasks) \in Nat
      BY <2>1, FS_CardinalityType, TargetsAssumption
    <2> QED BY <2>2, TargetsAssumption DEF IInv, LimitInv
  <1> QED BY Invariance, <1>1, PTL
=============================================================================
