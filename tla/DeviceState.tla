---------------------------- MODULE DeviceState -----------------------------
(***************************************************************************)
(* The record of one device in DeviceManager, written by everything that   *)
(* learns about the device: refreshes, calls, entities, pushes, connection *)
(* and disconnection of its sessions, of which the server may serve several *)
(* at one time; and the repair issues that the doctor keeps for it.  A     *)
(* device's status is one version number per component.                    *)
(***************************************************************************)
EXTENDS Integers, Sequences, FiniteSets, SequencesExt

CONSTANTS
    Components,
    Tasks,        \* refreshes, calls and examinations under way at one time
    MaxVersion,   \* bound: changes of one component
    MaxSessions,  \* bound: sockets that the device opens
    MaxBegun,     \* bound: tasks begun
    None

ASSUME DeviceAssumption ==
    /\ MaxVersion \in Nat /\ MaxSessions \in Nat \ {0} /\ MaxBegun \in Nat
    /\ None \notin [Components -> Nat] /\ None \notin Tasks
    /\ \A S \in SUBSET {"connectivity", "component"} : None # S

VARIABLES
    kind,       \* "remote": connects to us; "local": polled, may be removed
    present,    \* the manager has the record in devices
    opened,     \* sockets of the device so far, numbered as it opened them
    line,       \* the socket that it uses, 0 when nobody would get what it sends
    waiting,    \* sockets that are identified and wait to be installed
    served,     \* sockets that are installed and whose handler reads them
    session,    \* the socket whose transport is in the table, 0 for none
    dev,        \* the device's own status
    queue,      \* for each socket, the frames on it in order
    status, online, error, discovered,  \* the record
    task, begun,
    issues, active, report,  \* Home Assistant's repairs, the doctor's memory and result
    inherited,  \* history: issues that were there when the entry was loaded again
    newest,     \* history: the newest status that the record has had
    failed,     \* history: a refresh over line failed since line was installed
    heard,      \* history: the latest socket of which a frame was handled
    leftover    \* history: what could still speak for the device when its session left

sockets == <<opened, line, waiting, served, session>>
record == <<status, online, error, discovered>>
doctor == <<issues, active, report, inherited>>
history == <<newest, failed, heard, leftover>>
vars == <<kind, present, sockets, dev, queue, record, task, begun, doctor, history>>

Sessions == 1..MaxSessions
Versions == [Components -> Nat]
Keys == {"connectivity", "component"}
Idle == [does |-> "nothing", pc |-> "idle", via |-> 0, ans |-> None]

\* What an answer or a push says: the version of each component, 0 for those it
\* does not name.
Unknown == [c \in Components |-> 0]
Only(c, v) == [Unknown EXCEPT ![c] = v]
Named(news) == {c \in Components : news[c] > 0}
Answer(t, body) == [type |-> "answer", task |-> t, body |-> body]
Push(body) == [type |-> "push", task |-> None, body |-> body]
Frames == [type : {"answer", "push"}, task : Tasks \cup {None}, body : Versions]

TaskType == [does : {"nothing", "refresh", "exam", "call", "set"},
             pc : {"idle", "wait", "discover", "inspect"},
             via : Nat, ans : {None} \cup Versions]

TypeOK ==
    /\ kind \in {"remote", "local"} /\ present \in BOOLEAN
    /\ opened \in 0..MaxSessions /\ line \in 0..MaxSessions /\ session \in 0..MaxSessions
    /\ waiting \in SUBSET Sessions /\ served \in SUBSET Sessions /\ begun \in Nat
    /\ dev \in Versions /\ queue \in [Sessions -> Seq(Frames)]
    /\ status \in Versions /\ online \in BOOLEAN /\ error \in BOOLEAN /\ discovered \in BOOLEAN
    /\ task \in [Tasks -> TaskType]
    /\ issues \in SUBSET Keys /\ active \in SUBSET Keys /\ report \in {None} \cup SUBSET Keys
    /\ inherited \in SUBSET Keys /\ newest \in Versions
    /\ failed \in BOOLEAN /\ heard \in 0..MaxSessions /\ leftover \in BOOLEAN

-----------------------------------------------------------------------------
\* Careless forms of definitions below: mistakes the properties must notice.
MergedIntoNothing(news) == news
OnlyKnownMerged(news) ==
    [c \in Components |-> IF c \in Named(news) /\ status[c] > 0 THEN news[c] ELSE status[c]]
OfflineOnly == online' = FALSE /\ UNCHANGED error
ReportedOnlyNew(errors, fine) == issues' = (issues \ fine) \cup errors /\ active' = errors
ActiveByTitle(errors, fine) ==
    /\ issues' = (issues \ fine) \cup errors
    /\ active' = IF "connectivity" \in errors THEN {"offline"} ELSE errors
KeepsWaiting(t) == FALSE

-----------------------------------------------------------------------------
Begins(t, does, via) ==
    /\ task[t] = Idle /\ begun < MaxBegun
    /\ begun' = begun + 1
    /\ task' = [task EXCEPT ![t] = [does |-> does, pc |-> "wait", via |-> via, ans |-> None]]

Goes(t, pc) == task' = [task EXCEPT ![t].pc = pc, ![t].ans = None]
Ends(t) == task' = [task EXCEPT ![t] = Idle]
Reads(t) == task[t].does \in {"refresh", "exam"}
Merged(news) == [c \in Components |-> IF c \in Named(news) THEN news[c] ELSE status[c]]
Heals(t) == failed' = (failed /\ task[t].via # line)
Newer(v, w) == IF v > w THEN v ELSE w
Writes(s) ==
    status' = s /\ newest' = [c \in Components |-> Newer(newest[c], s[c])]

MarkSeen == online' = TRUE /\ error' = FALSE
MarkFailed == online' = FALSE /\ error' = TRUE

\* A call that times out, or whose session is gone, ends with an error.
GivesUp(t) == task[t].pc = "wait" /\ task[t].ans = None

\* A task that has heard from the device and has not said so yet.
HasWord(t) == task[t].ans # None \/ task[t].pc \in {"discover", "inspect"}

Init ==
    /\ kind \in {"remote", "local"} /\ present = (kind = "local")
    /\ session = (IF kind = "local" THEN 1 ELSE 0) /\ opened = session /\ line = session
    /\ waiting = {} /\ served = {session} \ {0}
    /\ dev = [c \in Components |-> 1] /\ queue = [s \in Sessions |-> << >>]
    /\ status = Unknown /\ online = FALSE /\ error = FALSE /\ discovered = FALSE
    /\ task = [t \in Tasks |-> Idle] /\ begun = 0
    /\ issues = {} /\ active = {} /\ report = None /\ inherited = {}
    /\ newest = Unknown /\ failed = FALSE /\ heard = 0 /\ leftover = FALSE

-----------------------------------------------------------------------------
\* The device: its status changes, and a connected device says so, in full
\* (NotifyFullStatus) or only what changed (NotifyStatus), on the socket it uses.
Changed(c, full) ==
    LET now == [dev EXCEPT ![c] = @ + 1] IN
    /\ dev[c] < MaxVersion
    /\ dev' = now
    /\ queue' = IF line = 0 THEN queue
                ELSE [queue EXCEPT ![line] =
                        Append(@, Push(IF full THEN now ELSE Only(c, now[c])))]

DeviceChanges(c, full) ==
    /\ Changed(c, full)
    /\ UNCHANGED <<kind, present, sockets, record, task, begun, doctor, history>>

\* It executes a request that came on that socket and answers, in order with its pushes.
Executes(t) ==
    /\ task[t].pc = "wait" /\ task[t].ans = None
    /\ task[t].via = line /\ line # 0
    /\ ~\E k \in DOMAIN queue[line] : queue[line][k].task = t
    /\ \/ /\ task[t].does # "set" /\ UNCHANGED dev
          /\ queue' = [queue EXCEPT ![line] =
                         Append(@, Answer(t, IF Reads(t) THEN dev ELSE Unknown))]
       \/ /\ task[t].does = "set"
          /\ \E c \in Components :
               /\ dev[c] < MaxVersion
               /\ LET now == [dev EXCEPT ![c] = @ + 1]
                      news == Only(c, now[c])
                  IN  /\ dev' = now
                      /\ queue' = [queue EXCEPT ![line] =
                                     Append(Append(@, Push(news)), Answer(t, news))]
    /\ UNCHANGED <<kind, present, sockets, record, task, begun, doctor, history>>

\* It opens a socket and tells the server who it is; frames before that are not
\* kept.  The one it used before may be lost without anybody noticing.
Dials ==
    /\ kind = "remote" /\ opened < MaxSessions
    /\ opened' = opened + 1 /\ line' = opened + 1 /\ waiting' = waiting \cup {opened + 1}
    /\ UNCHANGED <<kind, present, served, session, dev, queue, record, task, begun, doctor,
                   history>>

HangsUp ==
    /\ kind = "remote" /\ line # 0 /\ line' = 0
    /\ UNCHANGED <<kind, present, opened, waiting, served, session, dev, queue, record, task, begun,
                   doctor, history>>

\* async_handle_frame of transport and manager, on any socket that is served: an
\* answer wakes its task later, a push is written at once: all components it names
\* replace what the record has.
HandleFrame(s) ==
    /\ s \in served /\ queue[s] # << >>
    /\ queue' = [queue EXCEPT ![s] = Tail(@)] /\ heard' = Newer(heard, s)
    /\ LET f == Head(queue[s])
       IN  CASE f.type = "push" ->
                  Writes(Merged(f.body)) /\ MarkSeen /\ UNCHANGED <<task, discovered>>
             [] f.type = "answer" /\ f.task \in Tasks ->
                  task' = [task EXCEPT ![f.task].ans = f.body] /\ UNCHANGED <<record, newest>>
             [] OTHER -> UNCHANGED <<task, record, newest>>
    /\ UNCHANGED <<kind, present, sockets, dev, begun, doctor, failed, leftover>>

-----------------------------------------------------------------------------
\* The sessions of a remote device.  A socket is installed once the handler that
\* waits has seen the close of the session it found; by then others may have been
\* installed, and the ones before it may still be served (RemoteServer says in which
\* orders, these are all of them and more).  async_remote_connected starts a refresh.
RemoteConnects(s, t) ==
    /\ kind = "remote" /\ s \in waiting
    /\ waiting' = waiting \ {s} /\ served' = served \cup {s}
    /\ session' = s /\ present' = TRUE /\ MarkSeen
    /\ Begins(t, "refresh", s)
    /\ failed' = (failed /\ s # line) /\ leftover' = FALSE
    /\ UNCHANGED <<kind, opened, line, dev, queue, status, discovered, doctor, newest, heard>>

\* async_remote_disconnected only notes that the device is offline.
RemoteLeaves ==
    /\ session' = 0 /\ online' = FALSE
    /\ leftover' = (served' # {} \/ \E t \in Tasks : HasWord(t))

\* A handler ends, with the frames that it has not read.  The manager learns of it
\* only if the session is the registered one.
SocketEnds(s) ==
    /\ kind = "remote" /\ s \in served
    /\ served' = served \ {s} /\ queue' = [queue EXCEPT ![s] = << >>]
    /\ line' = (IF s = line THEN 0 ELSE line)
    /\ IF s = session THEN RemoteLeaves ELSE UNCHANGED <<session, online, leftover>>
    /\ UNCHANGED <<kind, present, opened, waiting, dev, status, error, discovered, task, begun,
                   doctor, newest, failed, heard>>

\* async_remove_local, as the record sees it: tasks under way keep the record.
Removed ==
    /\ kind = "local" /\ present
    /\ present' = FALSE /\ session' = 0 /\ served' = {} /\ line' = 0
    /\ queue' = [s \in Sessions |-> << >>] /\ online' = FALSE
    /\ UNCHANGED <<kind, opened, waiting, dev, status, error, discovered, task, begun, doctor,
                   history>>

-----------------------------------------------------------------------------
\* get_device and get_transport: without a record or a transport nothing begins.
Reachable == present /\ session # 0

Begin(t, does) ==
    /\ Reachable /\ Begins(t, does, session)
    /\ UNCHANGED <<kind, present, sockets, dev, queue, record, doctor, history>>

\* async_refresh_device with its three answers: the record takes them as they
\* are; capabilities are read once, by calls that may fail afterwards.
Answered(t) == task[t].ans
RefreshWrites(t) ==
    /\ Reads(t) /\ task[t].pc = "wait" /\ task[t].ans # None
    /\ Writes(Answered(t))
    /\ IF discovered
       THEN /\ MarkSeen /\ Heals(t)
            /\ IF task[t].does = "exam" THEN Goes(t, "inspect") ELSE Ends(t)
       ELSE Goes(t, "discover") /\ UNCHANGED <<online, error, failed>>
    /\ UNCHANGED <<kind, present, sockets, dev, queue, discovered, begun, doctor, heard, leftover>>

Discovers(t) ==
    /\ task[t].pc = "discover"
    /\ discovered' = TRUE /\ MarkSeen /\ Heals(t)
    /\ IF task[t].does = "exam" THEN Goes(t, "inspect") ELSE Ends(t)
    /\ UNCHANGED <<kind, present, sockets, dev, queue, status, begun, doctor, newest, heard,
                   leftover>>

\* The doctor writes the issues of its findings.  An error finding asks for the
\* name of the device first, which raises when the device was removed.
Reported(errors, fine) ==
    IF errors # {} /\ ~present THEN issues' = issues \ fine /\ UNCHANGED active
    ELSE issues' = ((issues \ fine) \ (active \ errors)) \cup errors /\ active' = errors

\* A failing refresh: timeout, closed session, error reply.  The answers of a
\* task that gave up are for nobody when they come.
WithoutAnswer(t) ==
    [s \in Sessions |-> [k \in DOMAIN queue[s] |->
        IF queue[s][k].task = t THEN [queue[s][k] EXCEPT !.task = None] ELSE queue[s][k]]]
RefreshFails(t) ==
    /\ Reads(t) /\ (GivesUp(t) \/ task[t].pc = "discover")
    /\ MarkFailed
    /\ failed' = (failed \/ task[t].via = line)
    /\ queue' = WithoutAnswer(t)
    /\ IF task[t].does = "exam"
       THEN /\ Reported({"connectivity"}, {})
            /\ report' = IF present THEN {"connectivity"} ELSE report
            /\ UNCHANGED inherited
       ELSE UNCHANGED doctor
    /\ Ends(t)
    /\ UNCHANGED <<kind, present, sockets, dev, status, discovered, begun, newest, heard, leftover>>

\* The end of async_run for a device that answered.  The calls that ask for its
\* scripts, if any, are one step, with what the last of them writes.
Words == {"unasked", "seen", "failed", "unavailable"}
Noted(word) ==
    CASE word = "unasked" -> UNCHANGED <<online, error>>
      [] word = "seen" -> MarkSeen
      [] word = "failed" -> error' = TRUE /\ UNCHANGED online
      [] word = "unavailable" -> MarkFailed

Inspects(t, errors, word) ==
    /\ task[t].pc = "inspect" /\ Noted(word)
    /\ Reported(errors, {"connectivity"} \ errors) /\ report' = errors
    /\ Ends(t)
    /\ UNCHANGED <<kind, present, sockets, dev, queue, status, discovered, begun, inherited,
                   history>>

\* The next of them raises when the device was removed meanwhile: there is no report.
InspectionLost(t, word) ==
    /\ task[t].pc = "inspect" /\ ~present /\ Noted(word)
    /\ Ends(t)
    /\ UNCHANGED <<kind, present, sockets, dev, queue, status, discovered, begun, doctor, history>>

\* async_call: a command of an entity also writes the value it set, from its
\* own memory, when the call returns.
CallReturns(t) ==
    /\ ~Reads(t) /\ task[t].ans # None
    /\ MarkSeen
    /\ Writes(Merged(task[t].ans))
    /\ Ends(t)
    /\ UNCHANGED <<kind, present, sockets, dev, queue, discovered, begun, doctor, failed, heard,
                   leftover>>

CallFails(t, unavailable) ==
    /\ ~Reads(t) /\ GivesUp(t)
    /\ IF unavailable THEN MarkFailed ELSE error' = TRUE /\ UNCHANGED online
    /\ queue' = WithoutAnswer(t) /\ Ends(t)
    /\ UNCHANGED <<kind, present, sockets, dev, status, discovered, begun, doctor, history>>

\* The entry is loaded again while nothing is under way: a new manager and a new
\* doctor, the same Home Assistant with its issues.
Reload ==
    /\ inherited = {} /\ issues # {} /\ \A t \in Tasks : task[t] = Idle
    /\ present /\ kind = "local"
    /\ inherited' = issues /\ active' = {} /\ report' = None
    /\ status' = Unknown /\ online' = FALSE /\ error' = FALSE /\ discovered' = FALSE
    /\ queue' = [s \in Sessions |-> << >>]
    /\ UNCHANGED <<kind, present, sockets, dev, task, begun, issues, history>>

Finish(t) ==
    \/ RefreshWrites(t) \/ Discovers(t) \/ RefreshFails(t)
    \/ \E word \in Words : \/ InspectionLost(t, word)
                          \/ \E errors \in SUBSET {"component"} : Inspects(t, errors, word)
    \/ CallReturns(t) \/ \E u \in BOOLEAN : CallFails(t, u)

Next ==
    \/ \E c \in Components, full \in BOOLEAN : DeviceChanges(c, full)
    \/ Dials \/ HangsUp \/ Removed \/ Reload
    \/ \E s \in Sessions : \/ HandleFrame(s) \/ SocketEnds(s)
                           \/ \E t \in Tasks : RemoteConnects(s, t)
    \/ \E t \in Tasks : \/ Executes(t) \/ Finish(t)
                        \/ \E does \in {"refresh", "exam", "call", "set"} : Begin(t, does)

Spec == Init /\ [][Next]_vars

\* Calls time out, and a task that was woken runs.
FairSpec == Spec /\ \A t \in Tasks : WF_vars(Finish(t))

-----------------------------------------------------------------------------
(* The inductive invariant, with the parts that make it one. *)

\* The device uses the socket that it opened last, if any; a task keeps the one
\* that it began with; one that is not installed yet carries no requests.
SessionInv ==
    /\ line \in {0, opened} \cap ({0} \cup waiting \cup served)
    /\ session \in {0} \cup served
    /\ waiting \cap served = {} /\ waiting \cup served \subseteq 1..opened
    /\ \A s \in Sessions : s \notin waiting \cup served => queue[s] = << >>
    /\ \A t \in Tasks :
          /\ IF task[t].pc = "idle" THEN task[t] = Idle ELSE task[t].via \in (1..opened) \ waiting
          /\ task[t].pc \in {"discover", "inspect"} => Reads(t)

\* An answer on a socket is for a task that still waits for it there, and only one is.
FramesInv ==
    /\ \A t \in Tasks : task[t].ans # None => task[t].pc = "wait"
    /\ \A s \in Sessions : \A k \in DOMAIN queue[s] :
          queue[s][k].type = "push" => queue[s][k].task = None
    /\ \A s \in Sessions : \A k \in DOMAIN queue[s] : \A t \in Tasks :
          queue[s][k].task = t =>
             /\ task[t].pc = "wait" /\ task[t].ans = None /\ task[t].via = s
             /\ \A l \in DOMAIN queue[s] : queue[s][l].task = t => l = k

\* Nobody knows more than the device.
VersionsInv ==
    \A c \in Components :
        /\ dev[c] >= 1 /\ status[c] <= newest[c] /\ newest[c] <= dev[c]
        /\ \A s \in Sessions : \A k \in DOMAIN queue[s] : queue[s][k].body[c] <= dev[c]
        /\ \A t \in Tasks : task[t].ans # None => task[t].ans[c] <= dev[c]

\* A push is at least as new as what was sent before it, on its socket or an older
\* one; and as what was written or answered, unless a later socket has been heard.
PushNames(s, k, c) == queue[s][k].type = "push" /\ c \in Named(queue[s][k].body)
OrderInv ==
    \A s \in Sessions : \A k \in DOMAIN queue[s], c \in Components :
        PushNames(s, k, c) =>
            /\ heard <= s =>
                  /\ newest[c] <= queue[s][k].body[c]
                  /\ \A t \in Tasks : task[t].ans # None => task[t].ans[c] <= queue[s][k].body[c]
            /\ \A r \in Sessions : \A l \in DOMAIN queue[r] :
                  r < s \/ (r = s /\ l < k) => queue[r][l].body[c] <= queue[s][k].body[c]

\* What the device is has been written, or a push that says so is on its way.
PushQueued(c) ==
    line # 0 /\ \E k \in DOMAIN queue[line] :
                    queue[line][k].type = "push" /\ queue[line][k].body[c] = dev[c]
Told(c) == newest[c] = dev[c] \/ PushQueued(c)
Refreshing == \E t \in Tasks : Reads(t) /\ task[t].pc = "wait" /\ task[t].via = line

\* What the answer to a refresh lacks is told; so is everything once it is written.
FreshInv ==
    line # 0 =>
        \A t \in Tasks : Reads(t) /\ task[t].via = line =>
            \A c \in Components :
                /\ task[t].ans # None => task[t].ans[c] = dev[c] \/ Told(c)
                /\ \A k \in DOMAIN queue[line] :
                      queue[line][k].task = t => queue[line][k].body[c] = dev[c] \/ Told(c)
                /\ task[t].pc = "discover" => Told(c)
NewsInv ==
    kind = "remote" /\ line \in served =>
        \A c \in Components : Told(c) \/ failed \/ Refreshing

\* A device that had nobody left to speak for it when its session went stays so.
SilenceInv ==
    kind = "remote" /\ session = 0 /\ ~leftover =>
        served = {} /\ ~online /\ \A t \in Tasks : ~HasWord(t)

\* The issues are those that the doctor remembers or found at its start.
RepairsInv ==
    /\ present =>
          /\ issues \subseteq active \cup inherited /\ active \subseteq issues
          /\ report # None => report = active
    /\ kind = "remote" /\ ~present =>
          /\ issues = {} /\ active = {} /\ report = None
          /\ \A t \in Tasks : task[t] = Idle

-----------------------------------------------------------------------------
Announced(c) ==
    \E k \in DOMAIN queue[line] : queue[line][k].type = "push" /\ c \in Named(queue[line][k].body)

\* While the socket that a remote device uses is served, registered or not, the
\* device is known as it is, or the news is on its way there, or a refresh over it is
\* under way, unless that refresh failed or something older took the place of newer
\* news (device_manager.py 213-239, 285-321, 323-351): pushes and the refresh after
\* each connection miss nothing between them.
Informed ==
    (kind = "remote" /\ line \in served) =>
        \A c \in Components :
            status[c] # dev[c] => Announced(c) \/ Refreshing \/ failed \/ status[c] < newest[c]

\* A connected remote device counts as offline only together with the error that
\* says why.  One without session counts as online only if, when its session left,
\* another socket of it was still served or a task had its answer and had not ended:
\* neither a call that waited in vain nor anything later brings it back
\* (device_manager.py 234-238, 274-282, 285-290, 353-359).
OnlineHasReason ==
    kind = "remote" =>
        /\ session # 0 /\ ~online => error
        /\ session = 0 /\ online => leftover

\* The repairs of a device are the errors of the doctor's last report, and what
\* an earlier load of the entry left behind (doctor.py 45-152, 242-265).
RepairsMirrorReport ==
    (present /\ report # None) => report \subseteq issues /\ issues \subseteq report \cup inherited

\* The record goes back to an older status only by an answer that a slower task
\* brings, by a new load, or by a frame of a socket that the device had already
\* replaced by one that was heard before it: never by the frames of the sockets in
\* the order in which the device opened them (device_manager.py 285-321).
OlderOnlyByAnswer ==
    (\E c \in Components : status'[c] < status[c]) =>
        \/ \E t \in Tasks : task[t].ans # None /\ task'[t].ans = None
        \/ \E s \in Sessions : s < heard /\ queue'[s] # queue[s]
        \/ inherited # inherited'
NewsInOrder == [][OlderOnlyByAnswer]_vars

IInv ==
    /\ TypeOK /\ SessionInv /\ FramesInv /\ VersionsInv /\ OrderInv /\ FreshInv /\ NewsInv
    /\ OnlineHasReason /\ SilenceInv /\ RepairsInv

\* Every refresh, call and examination ends (the transports time out).
TasksEnd == \A t \in Tasks : (task[t] # Idle) ~> (task[t] = Idle)

\* Violated: a remote device that is connected, with nothing under way and no
\* failure, is known as it is.
UpToDate ==
    (kind = "remote" /\ line \in served /\ (\A s \in Sessions : queue[s] = << >>) /\ ~failed
     /\ \A t \in Tasks : task[t] = Idle) => status = dev

=============================================================================
