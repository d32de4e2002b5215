---------------------------- MODULE LocalTargets ----------------------------
(***************************************************************************)
(* The inventory of DeviceManager: local targets that commands add and     *)
(* remove, remote targets that connect, targets of the official            *)
(* integration, and the list of local targets that the config entry        *)
(* persists.  A command is a task whose awaits are the points where other  *)
(* commands, the coordinator or an unload of the entry run.                *)
(***************************************************************************)
EXTENDS Integers, FiniteSets

CONSTANTS
    Local, Remote, Official,  \* ids of targets; every addition has a fresh id
    Tasks,                    \* commands and refreshes under way at one time
    Host,                     \* Host[i]: address and port given for local target i
    Mac,                      \* Mac[i]: the address in the device's own identity
    MaxDevices,
    MaxReloads,               \* bound: how often the entry is loaded again
    None

Ids == Local \cup Remote \cup Official

ASSUME TargetsAssumption ==
    /\ Local \cap Remote = {} /\ Local \cap Official = {} /\ Remote \cap Official = {}
    /\ IsFiniteSet(Local) /\ IsFiniteSet(Tasks)
    /\ DOMAIN Mac = Ids /\ DOMAIN Host = Local
    /\ MaxDevices \in Nat \ {0} /\ MaxReloads \in Nat
    /\ None \notin Ids

VARIABLES
    stored,      \* entry.data[CONF_LOCAL_DEVICES]
    devices, transports, localIds, remoteIds,  \* of the manager now in use
    known,       \* devices whose record has an identity, hence a MAC
    loadedOfficial,  \* official entries that are loaded
    live,        \* transports of local targets created and not closed, with their manager
    entry,       \* "loaded", "closing", "unloaded" or "starting"
    doomed,      \* transports that async_close found when it began
    gen,         \* which manager is in use: one per load of the entry
    task,
    used, overlapped, late  \* history: ids given out, commands that met, late transports

vars == <<stored, devices, transports, localIds, remoteIds, known, loadedOfficial, live,
          entry, doomed, gen, task, used, overlapped, late>>
inventory == <<devices, transports, localIds, remoteIds, known>>
setup == <<entry, doomed, gen, loadedOfficial>>
history == <<used, overlapped, late>>

Idle == [pc |-> "idle", id |-> None, snap |-> {}, left |-> {}, gen |-> 0]
Phases == {"idle", "probe", "closing", "refresh"}
TaskType == [pc : Phases, id : Ids \cup {None}, snap : SUBSET Local, left : SUBSET Ids, gen : Nat]

TypeOK ==
    /\ stored \in SUBSET Local /\ devices \in SUBSET Ids /\ transports \in SUBSET Ids
    /\ localIds \in SUBSET Local /\ remoteIds \in SUBSET Remote /\ known \in SUBSET Ids
    /\ loadedOfficial \in SUBSET Official /\ live \in SUBSET (Nat \X Local)
    /\ entry \in {"loaded", "closing", "unloaded", "starting"} /\ doomed \in SUBSET Local
    /\ gen \in Nat
    /\ task \in [Tasks -> TaskType]
    /\ used \in SUBSET Local /\ overlapped \in BOOLEAN /\ late \in SUBSET (Nat \X Local)

-----------------------------------------------------------------------------
\* Careless forms of definitions below: mistakes the properties must notice.
LimitUnchecked == TRUE
StillStored(t) == stored
ExtendedByAddress(t) == task[t].snap \cup {Host[task[t].id]}
OnlineTransports == transports \cap Local \cap known
ForgetRecordOnly(i) ==
    devices' = devices \ {i} /\ known' = known \ {i} /\ UNCHANGED localIds

-----------------------------------------------------------------------------
\* A task of the manager in use; the others hold an earlier, closed one.
Own(t) == task[t].gen = gen
Changing(t) == task[t].pc \in {"probe", "closing"}
Free(t) == entry = "loaded" /\ task[t] = Idle
Start(t, pc, id, snap, left) ==
    task' = [task EXCEPT ![t] = [pc |-> pc, id |-> id, snap |-> snap, left |-> left,
                                 gen |-> gen]]
Refreshing(S, g) == [pc |-> "refresh", id |-> None, snap |-> {}, left |-> S, gen |-> g]
Stop(t) == task' = [task EXCEPT ![t] = Idle]

\* async_sync_official_devices: the official targets are those loaded now.
Synced(S) == (S \ Official) \cup loadedOfficial
Pollable(D, T) == (D \cap T) \ Remote

Init ==
    /\ stored = {} /\ devices = {} /\ transports = {} /\ localIds = {} /\ remoteIds = {}
    /\ known = {} /\ loadedOfficial = {} /\ live = {} /\ doomed = {}
    /\ entry = "loaded" /\ gen = 0 /\ task = [t \in Tasks |-> Idle]
    /\ used = {} /\ overlapped = FALSE /\ late = {}

\* async_refresh_all.  A device without a transport makes it raise; the
\* refreshes that gather had started go on.
RefreshAll(t) ==
    /\ Free(t)
    /\ devices' = Synced(devices) /\ transports' = Synced(transports)
    /\ known' = known \ (Official \ loadedOfficial)
    /\ IF Pollable(devices', transports') = {} THEN UNCHANGED task
       ELSE Start(t, "refresh", None, {}, Pollable(devices', transports'))
    /\ UNCHANGED <<stored, localIds, remoteIds, live, setup, history>>

RefreshOne(t, i) ==
    /\ Free(t) /\ i \in devices \cap transports
    /\ Start(t, "refresh", None, {}, {i})
    /\ UNCHANGED <<stored, inventory, live, setup, history>>

\* The end of one async_refresh_device: the record of a target that was removed
\* meanwhile is written too, but no longer in the inventory.
Refreshed(t, i) ==
    /\ i \in task[t].left
    /\ known' \in {known, IF Own(t) THEN known \cup ({i} \cap devices) ELSE known}
    /\ LET left == task[t].left \ {i}
       IN  /\ IF left = {} THEN Stop(t) ELSE task' = [task EXCEPT ![t].left = left]
           /\ entry' = IF left = {} /\ Own(t) /\ entry = "starting" THEN "loaded" ELSE entry
    /\ UNCHANGED <<stored, devices, transports, localIds, remoteIds, live, doomed, gen,
                   loadedOfficial, history>>

-----------------------------------------------------------------------------
BelowLimit == Cardinality(localIds \cup remoteIds) < MaxDevices
HostFree(i) == \A j \in stored : Host[j] # Host[i]

\* async_add_local up to its first await: the list it will extend is copied now.
Add(t, i) ==
    /\ Free(t) /\ i \in Local \ used
    /\ HostFree(i)
    /\ BelowLimit
    /\ Start(t, "probe", i, stored, {})
    /\ used' = used \cup {i}
    /\ overlapped' = (overlapped \/ \E u \in Tasks : Changing(u))
    /\ UNCHANGED <<stored, inventory, live, setup, late>>

ProbeFails(t) ==
    /\ task[t].pc = "probe" /\ Stop(t)
    /\ UNCHANGED <<stored, inventory, live, setup, history>>

\* The device answered: a duplicate of a known device is refused (or the
\* official one used instead); otherwise the target is persisted and created.
Duplicate(i) == \E j \in devices \cap known : Mac[j] = Mac[i]
Extended(t) == task[t].snap \cup {task[t].id}

Discard(t) ==
    /\ task[t].pc = "probe" /\ Own(t) /\ Duplicate(task[t].id) /\ Stop(t)
    /\ UNCHANGED <<stored, inventory, live, setup, history>>

Register(t, advertised) ==
    LET i == task[t].id IN
    /\ task[t].pc = "probe" /\ Own(t)
    /\ ~(advertised /\ Duplicate(i))
    /\ stored' = Extended(t)
    /\ devices' = devices \cup {i} /\ transports' = transports \cup {i}
    /\ localIds' = localIds \cup {i}
    /\ live' = live \cup {<<gen, i>>}
    /\ late' = IF entry = "loaded" THEN late ELSE late \cup {<<gen, i>>}
    /\ task' = [task EXCEPT ![t] = Refreshing({i}, gen)]
    /\ UNCHANGED <<remoteIds, known, setup, used, overlapped>>

\* The same for a command that began before the entry was loaded again: it
\* writes the list of the entry and the tables of a manager nobody uses.
RegisterLate(t) ==
    /\ task[t].pc = "probe" /\ ~Own(t)
    /\ stored' = Extended(t)
    /\ live' = live \cup {<<task[t].gen, task[t].id>>}
    /\ late' = late \cup {<<task[t].gen, task[t].id>>}
    /\ Stop(t)
    /\ UNCHANGED <<inventory, setup, used, overlapped>>

\* async_remove_local: the transport leaves the table before its close is awaited.
Remove(t, i) ==
    /\ Free(t) /\ i \in localIds \cap transports
    /\ transports' = transports \ {i}
    /\ Start(t, "closing", i, {}, {})
    /\ overlapped' = (overlapped \/ \E u \in Tasks : Changing(u))
    /\ UNCHANGED <<stored, devices, localIds, remoteIds, known, live, setup, used, late>>

\* What follows the close, for the manager in use and for an earlier one.
Forget(i) ==
    /\ devices' = devices \ {i} /\ localIds' = localIds \ {i} /\ known' = known \ {i}
StoredWithout(t) == stored \ {task[t].id}

RemoveAgain(t, i) ==  \* a second removal finds no transport and does not wait
    /\ Free(t) /\ i \in localIds \ transports
    /\ Forget(i) /\ stored' = stored \ {i}
    /\ UNCHANGED <<transports, remoteIds, live, setup, task, history>>

RemoveFinish(t) ==
    /\ task[t].pc = "closing"
    /\ live' = live \ {<<task[t].gen, task[t].id>>}
    /\ stored' = StoredWithout(t)
    /\ IF Own(t) THEN Forget(task[t].id) ELSE UNCHANGED <<devices, localIds, known>>
    /\ Stop(t)
    /\ UNCHANGED <<transports, remoteIds, setup, history>>

-----------------------------------------------------------------------------
\* async_remote_connected and async_remote_disconnected.
RemoteConnects(r) ==
    /\ entry # "unloaded" /\ r \notin transports
    /\ devices' = devices \cup {r} /\ transports' = transports \cup {r}
    /\ remoteIds' = remoteIds \cup {r} /\ known' = known \cup {r}
    /\ UNCHANGED <<stored, localIds, live, setup, task, history>>

RemoteLeaves(r) ==
    /\ r \in transports /\ transports' = transports \ {r}
    /\ UNCHANGED <<stored, devices, localIds, remoteIds, known, live, setup, task, history>>

OfficialChanges(o) ==
    /\ loadedOfficial' \in {loadedOfficial \cup {o}, loadedOfficial \ {o}}
    /\ UNCHANGED <<stored, inventory, live, entry, doomed, gen, task, history>>

\* async_unload_entry: async_close walks a copy of the transports and then
\* empties the tables.  Commands that are under way go on.
LocalTransports == transports \cap Local

Unload ==
    /\ entry = "loaded" /\ gen < MaxReloads
    /\ entry' = "closing" /\ doomed' = LocalTransports
    /\ overlapped' = (overlapped \/ \E u \in Tasks : Changing(u))
    /\ UNCHANGED <<stored, inventory, live, gen, loadedOfficial, task, used, late>>

Unloaded ==
    /\ entry = "closing" /\ entry' = "unloaded" /\ doomed' = {}
    /\ live' = live \ ({gen} \X doomed)
    /\ devices' = {} /\ transports' = {}
    /\ UNCHANGED <<stored, localIds, remoteIds, known, gen, loadedOfficial, task, history>>

\* async_setup_entry: a new manager starts with what is persisted.
Load(t) ==
    /\ entry = "unloaded" /\ task[t] = Idle
    /\ gen' = gen + 1
    /\ devices' = Synced(stored) /\ transports' = Synced(stored)
    /\ localIds' = stored /\ remoteIds' = {} /\ known' = {}
    /\ live' = live \cup ({gen'} \X stored)
    /\ IF stored = {} THEN entry' = "loaded" /\ UNCHANGED task
       ELSE /\ entry' = "starting"
            /\ task' = [task EXCEPT ![t] = Refreshing(stored, gen')]
    /\ UNCHANGED <<stored, doomed, loadedOfficial, history>>

Step(t) ==
    \/ \E i \in Ids : Refreshed(t, i)
    \/ ProbeFails(t) \/ Discard(t) \/ \E adv \in BOOLEAN : Register(t, adv)
    \/ RegisterLate(t) \/ RemoveFinish(t)

Begin(t) ==
    \/ RefreshAll(t) \/ Load(t)
    \/ \E i \in Ids : RefreshOne(t, i)
    \/ \E i \in Local : Add(t, i) \/ Remove(t, i) \/ RemoveAgain(t, i)

Outside ==
    \/ \E r \in Remote : RemoteConnects(r) \/ RemoteLeaves(r)
    \/ \E o \in Official : OfficialChanges(o)
    \/ Unload \/ Unloaded

Next == (\E t \in Tasks : Begin(t) \/ Step(t)) \/ Outside

Spec == Init /\ [][Next]_vars

-----------------------------------------------------------------------------
(* The inductive invariant, with the parts that make it one. *)

Probing == {t \in Tasks : task[t].pc = "probe"}
Closes(t, c) == task[t].pc = "closing" /\ c = <<task[t].gen, task[t].id>>

\* A command works on one local target, for the manager it began with; the
\* transport that a removal closes is out of the table.
TasksInv ==
    \A t \in Tasks :
        /\ task[t].gen <= gen
        /\ Changing(t) => task[t].id \in Local /\ task[t].left = {}
        /\ task[t].pc = "closing" /\ Own(t) => task[t].id \notin transports

\* The id of an addition under way is nowhere else yet.
FreshInv ==
    /\ stored \cup localIds \cup (transports \cap Local) \subseteq used
    /\ \A t \in Tasks : task[t].snap \subseteq used /\ (Changing(t) => task[t].id \in used)
    /\ \A t \in Probing :
          /\ task[t].id \notin stored \cup localIds \cup transports
          /\ \A u \in Tasks :
                /\ task[t].id \notin task[u].snap
                /\ u # t /\ Changing(u) => task[u].id # task[t].id

TablesInv ==
    entry # "unloaded" =>
        /\ devices \cap Local = localIds
        /\ transports \cap Local \subseteq localIds
        /\ \A i \in localIds \ transports : \E t \in Tasks : Closes(t, <<gen, i>>)

\* What async_close does not find was opened after it began.
CloseInv ==
    /\ entry # "closing" => doomed = {}
    /\ entry = "closing" =>
          \A i \in transports \cap Local : i \in doomed \/ <<gen, i>> \in late
    /\ entry = "unloaded" =>
          \A c \in live \ late : \E t \in Tasks : Closes(t, c)

\* Without overlaps there is one command at a time and it knows the whole list.
SequentialInv ==
    ~overlapped =>
        /\ \A t, u \in Tasks : Changing(t) /\ Changing(u) => t = u
        /\ \A t \in Tasks : Changing(t) => Own(t) /\ entry = "loaded"
        /\ entry # "unloaded" => stored = localIds
        /\ \A t \in Probing :
              task[t].snap = stored /\ \A j \in stored : Host[j] # Host[task[t].id]
        /\ \A i, j \in stored : i # j => Host[i] # Host[j]

\* An addition under way counts as if it had succeeded.
LimitInv ==
    /\ IsFiniteSet(remoteIds)
    /\ gen = 0 =>
          Cardinality(localIds) + Cardinality(Probing) <= MaxDevices - 1 + Cardinality(Tasks)

-----------------------------------------------------------------------------
\* The tables of the manager agree: a local target has a record, an id and a
\* transport, except that a removal has taken the transport and awaits its close
\* (device_manager.py 116-148, 420-436).  A refresh that ends after the removal
\* does not bring the target back, and only in that window can the refresh of
\* all targets fail for want of a transport.
TargetsAgree ==
    entry \in {"loaded", "starting"} =>
        /\ devices \cap Local = localIds
        /\ transports \cap Local \subseteq localIds
        /\ \A i \in localIds \ transports :
              \E t \in Tasks : task[t].pc = "closing" /\ task[t].id = i /\ Own(t)

\* Whoever opens a transport answers for it: it is in the table, a removal or
\* the unload is closing it, or it was opened by an addition that outlived its
\* manager (device_manager.py 125-131, 414-425).
TransportsAccounted ==
    \A c \in live \ late :
        \/ c[1] = gen /\ c[2] \in transports \cup doomed
        \/ \E t \in Tasks : Closes(t, c)

\* What is persisted is what is managed, and no address is stored twice, as long
\* as additions, removals and unloads do not meet (device_manager.py 370-436).
SequentialPersisted ==
    ~overlapped =>
        /\ (\A t \in Tasks : ~Changing(t)) /\ entry = "loaded" => stored = localIds
        /\ \A i, j \in stored : i # j => Host[i] # Host[j]

\* Additions that overlap may exceed the limit, but by no more than their number
\* less one (device_manager.py 387-388), until a reload takes the persisted list.
LimitNearlyKept ==
    gen = 0 => Cardinality(localIds) <= MaxDevices - 1 + Cardinality(Tasks)

\* The inductive invariant.
IInv ==
    /\ TypeOK /\ TasksInv /\ FreshInv /\ TablesInv /\ CloseInv /\ TransportsAccounted
    /\ SequentialInv /\ LimitInv

\* Violated: when no command is under way, every local target that is served is
\* persisted and will be there after a restart.  The list that async_add_local
\* writes was copied before its network waits, and lacks what was added meanwhile.
ServedPersisted ==
    (entry = "loaded" /\ \A t \in Tasks : task[t] = Idle) => localIds \subseteq stored

\* Violated in the same way: a target that is not served any more is not persisted.
\* An addition that began before a removal writes the removed target back.
RemovedStaysGone ==
    (entry = "loaded" /\ \A t \in Tasks : task[t] = Idle) => stored \subseteq localIds

=============================================================================
