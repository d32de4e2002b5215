--------------------------- MODULE BackupRestore ----------------------------
(***************************************************************************)
(* BackupEngine, RestoreEngine and MigrationEngine around one target       *)
(* device: a restore plans from a backup, captures the target first and    *)
(* applies the plan operation by operation while other restores, backups   *)
(* and migrations go on.  A device is what each of its parts holds: the    *)
(* configuration of a component, the code of a script, the number of       *)
(* entries of a list (schedules, webhooks).                                *)
(***************************************************************************)
EXTENDS Integers, Sequences, FiniteSets, SequencesExt

CONSTANTS
    Jobs,         \* the backups, restores and migrations ordered, each once
    Order,        \* the parts, in the order in which plans list them
    Kind,         \* "component", "script" or "list"
    Network,      \* components that are never restored
    Supported,    \* parts for which the target has the component and the methods
    Given,        \* backups that are restored: contents
    OldContent, Source,  \* what the target holds at first, and the source of migrations
    Half, None,   \* half of a code; what is in no backup
    MaxBackups,
    MaxFaults     \* bound: calls that fail

Parts == Range(Order)
Of(kind) == {p \in Parts : Kind[p] = kind}
Values == Nat \cup {Half}
Contents == [Parts -> Values]
Captured == [Parts -> Values \cup {None}]

ASSUME RestoreAssumption ==
    /\ IsFiniteSet(Jobs) /\ Order \in Seq(Parts)
    /\ Kind \in [Parts -> {"component", "script", "list"}] /\ Network \subseteq Of("component")
    /\ \A p, q \in Of("script") : p = q  \* one: running and created are about it
    /\ Supported \subseteq Parts /\ Given \subseteq Captured
    /\ OldContent \in [Parts -> Nat] /\ Source \in [Parts -> Nat]
    /\ Half \notin Nat /\ None \notin Nat \cup {Half}
    /\ MaxFaults \in Nat /\ MaxBackups \in Nat /\ 2 * Cardinality(Jobs) <= MaxBackups

VARIABLES
    content, running,  \* of the target; whether its script runs
    created,           \* the script that a job created on the target, if any
    exact,             \* source and target are of one model
    backups,           \* the repository
    faults,
    job,
    calm,              \* history: content and running when nothing was under way
    unread,            \* history: parts that a backup could not read since then
    met                \* history: jobs that ran at the same time as another

target == <<content, running, created>>
history == <<calm, unread, met>>
vars == <<target, exact, backups, faults, job, history>>

Statuses == {"ABSENT", "READY", "SUCCESS", "SKIPPED", "UNSUPPORTED", "FAILED"}
Nothing == [p \in Parts |-> None]
NoPlan == [p \in Parts |-> "ABSENT"]
Idle == [does |-> "nothing", pc |-> "idle", of |-> "target", stage |-> "component",
         cap |-> Nothing, bk |-> Nothing, plan |-> NoPlan, step |-> "none",
         was |-> FALSE, err |-> FALSE]

Phases == {"idle", "capture", "save", "preview", "apply", "done", "failed"}
Steps == {"none", "write", "status", "stop", "create", "half", "whole", "verify", "start"}
JobType == [does : {"nothing", "backup", "restore", "migrate"}, pc : Phases,
            of : {"source", "target"}, stage : {"component", "script", "list"},
            cap : Captured, bk : Captured, plan : [Parts -> Statuses], step : Steps,
            was : BOOLEAN, err : BOOLEAN]
BackupType == [of : {"source", "target"}, content : Captured]

TypeOK ==
    /\ content \in Contents /\ running \in BOOLEAN /\ exact \in BOOLEAN
    /\ created \in [Jobs -> {"none", "empty", "half", "whole"}]
    /\ backups \in Seq(BackupType) /\ Len(backups) = MaxBackups
    /\ faults \in 0..MaxFaults
    /\ job \in [Jobs -> JobType]
    /\ calm \in [content : Contents, running : BOOLEAN]
    /\ unread \subseteq Parts /\ met \subseteq Jobs

-----------------------------------------------------------------------------
\* Careless forms of definitions below: mistakes the properties must notice.
AnyComponent(b, p) == IF b[p] = None THEN "ABSENT" ELSE "READY"
AddedAll(b) == Append(backups, b)

-----------------------------------------------------------------------------
Active == {j \in Jobs : job[j].pc \notin {"idle", "done", "failed"}}
Quiet == Active = {}

Init ==
    /\ content = OldContent /\ running \in BOOLEAN /\ created = [j \in Jobs |-> "none"]
    /\ exact \in BOOLEAN /\ faults = 0
    /\ backups = [k \in 1..MaxBackups |-> [of |-> "source", content |-> Nothing]]
    /\ job = [j \in Jobs |-> Idle]
    /\ calm = [content |-> content, running |-> running] /\ unread = {} /\ met = {}

\* A command, up to its first call; a restore and a migration are confirmed.
Begin(j, new) ==
    /\ job[j].pc = "idle" /\ job' = [job EXCEPT ![j] = new]
    /\ calm' = IF Quiet THEN [content |-> content, running |-> running] ELSE calm
    /\ unread' = IF Quiet THEN {} ELSE unread
    /\ met' = IF Quiet THEN met ELSE met \cup Active \cup {j}
    /\ UNCHANGED <<target, exact, backups, faults>>

Backup(j) == Begin(j, [Idle EXCEPT !.does = "backup", !.pc = "capture"])
Restore(j, b) == Begin(j, [Idle EXCEPT !.does = "restore", !.pc = "preview", !.bk = b])
Migrate(j) == Begin(j, [Idle EXCEPT !.does = "migrate", !.pc = "capture", !.of = "source"])

\* A call failed.
Fault == faults < MaxFaults /\ faults' = faults + 1

Fails(j) ==
    /\ Fault
    /\ job' = [job EXCEPT ![j] = [Idle EXCEPT !.does = job[j].does, !.pc = "failed"]]
    /\ UNCHANGED <<target, exact, backups, history>>

-----------------------------------------------------------------------------
\* async_create reads the components, then the scripts, then the lists.  A code
\* or a list that cannot be read is left out; anything else fails the backup.
AfterStage == [component |-> "script", script |-> "list", list |-> "list"]
Now(j) == IF job[j].of = "source" THEN Source ELSE content
Read(j, missing) ==
    [p \in Parts |-> IF p \in Of(job[j].stage) \ missing THEN Now(j)[p] ELSE job[j].cap[p]]

Capture(j, missing) ==
    LET stage == job[j].stage
    IN  /\ job[j].pc = "capture"
        /\ missing \subseteq Of(stage) /\ (stage = "component" => missing = {})
        /\ job' = [job EXCEPT ![j] = [@ EXCEPT !.cap = Read(j, missing),
                                               !.stage = AfterStage[stage],
                                               !.pc = IF stage = "list" THEN "save" ELSE "capture"]]
        /\ unread' = IF job[j].of = "target" THEN unread \cup missing ELSE unread
        /\ IF missing = {} THEN UNCHANGED faults ELSE Fault
        /\ UNCHANGED <<target, exact, backups, calm, met>>

CaptureFails(j) == job[j].pc = "capture" /\ job[j].stage # "list" /\ Fails(j)

Added(b) ==
    LET all == Append(backups, b)
    IN  SubSeq(all, 1 + (IF Len(all) > MaxBackups THEN Len(all) - MaxBackups ELSE 0), Len(all))

\* The plan of _plan_scripts, _plan_list_resource and the components.
Planned(b, p) ==
    CASE p \in Network -> "SKIPPED"
      [] p \in Of("script") \ Supported -> "UNSUPPORTED"  \* even where its code is missing
      [] p \in Supported \ Network -> IF b[p] = None THEN "ABSENT" ELSE "READY"
      [] OTHER -> IF b[p] = None THEN "ABSENT" ELSE "UNSUPPORTED"

\* The first operation that is still to be done, and how it begins: a script is
\* written in place on a device of the same model, and created elsewhere.
Todo(plan) == {k \in DOMAIN Order : plan[Order[k]] = "READY"}
Item(plan) == Order[CHOOSE k \in Todo(plan) : \A i \in Todo(plan) : k <= i]
FirstStep(plan) ==
    CASE Kind[Item(plan)] # "script" -> "write"
      [] Kind[Item(plan)] = "script" /\ exact -> "status"
      [] OTHER -> "create"
Continue(j, plan) ==
    job' = [job EXCEPT ![j] =
        IF Todo(plan) = {} THEN [Idle EXCEPT !.does = job[j].does, !.pc = "done", !.plan = plan]
        ELSE [job[j] EXCEPT !.plan = plan, !.was = FALSE, !.err = FALSE, !.cap = Nothing,
                            !.pc = "apply", !.step = FirstStep(plan)]]

\* async_preview refreshes the target; it refuses when that fails, or when an exact
\* clone of another model is asked for.  The safety backup is next.
Plan(j) == [p \in Parts |-> Planned(job[j].bk, p)]

\* A careless form of the next definition: the plan is applied at once.
PreviewIsEnough(j) ==
    /\ job[j].pc = "preview" /\ Continue(j, Plan(j))
    /\ UNCHANGED <<target, exact, backups, faults, history>>

Preview(j) ==
    /\ job[j].pc = "preview"
    /\ job' = [job EXCEPT ![j] = [@ EXCEPT !.plan = Plan(j), !.pc = "capture", !.of = "target",
                                           !.stage = "component", !.cap = Nothing]]
    /\ UNCHANGED <<target, exact, backups, faults, history>>

PreviewFails(j) == job[j].pc = "preview" /\ Fails(j)

\* The backup is added and saved; what it was made for goes on after the save.
Save(j) ==
    /\ job[j].pc = "save"
    /\ backups' = Added([of |-> job[j].of, content |-> job[j].cap])
    /\ CASE job[j].of = "source" ->
              job' = [job EXCEPT ![j].pc = "preview", ![j].bk = job[j].cap]
         [] job[j].does = "backup" -> Continue(j, NoPlan)
         [] OTHER -> Continue(j, job[j].plan)
    /\ UNCHANGED <<target, exact, faults, history>>

-----------------------------------------------------------------------------
\* One operation of async_apply.  What the calls of its steps do to the target;
\* a list gets one entry more.
Write(j, p, value) ==
    IF Kind[p] = "script" /\ ~exact
    THEN /\ created' = [created EXCEPT ![j] = IF value = Half THEN "half" ELSE "whole"]
         /\ UNCHANGED <<content, running>>
    ELSE /\ content' = [content EXCEPT ![p] = IF Kind[p] = "list" THEN @ + 1 ELSE value]
         /\ UNCHANGED <<created, running>>

Effect(j, p) ==
    CASE job[j].step \in {"write", "whole"} -> Write(j, p, job[j].bk[p])
      [] job[j].step = "half" -> Write(j, p, Half)
      [] job[j].step = "create" ->
           created' = [created EXCEPT ![j] = "empty"] /\ UNCHANGED <<content, running>>
      [] job[j].step \in {"stop", "start"} ->
           running' = (job[j].step = "start") /\ UNCHANGED <<content, created>>
      [] OTHER -> UNCHANGED target

Holds(j, p) == IF exact THEN content[p] = job[j].bk[p] ELSE created[j] = "whole"
Result(j, p, err) ==
    Continue(j, [job[j].plan EXCEPT ![p] = IF err THEN "FAILED" ELSE "SUCCESS"])
GoTo(j, step) == job' = [job EXCEPT ![j].step = step]
Finally(j, p, err) ==
    IF job[j].was THEN job' = [job EXCEPT ![j].step = "start", ![j].err = err]
    ELSE Result(j, p, err)

Answered(j) ==
    LET p == Item(job[j].plan) IN
    /\ job[j].pc = "apply"
    /\ Effect(j, p)
    /\ CASE job[j].step = "write" -> Result(j, p, FALSE)
         [] job[j].step = "create" -> GoTo(j, "half")
         [] job[j].step = "status" ->
              job' = [job EXCEPT ![j].was = running,
                                 ![j].step = IF running THEN "stop" ELSE "half"]
         [] job[j].step = "stop" -> GoTo(j, "half")
         [] job[j].step = "half" -> GoTo(j, "whole")
         [] job[j].step = "whole" -> GoTo(j, "verify")
         [] job[j].step = "verify" -> Finally(j, p, ~Holds(j, p))
         [] OTHER -> Result(j, p, job[j].err)
    /\ UNCHANGED <<exact, backups, faults, history>>

\* A call fails, executed or not; the operation is FAILED and the next one goes on.
CallFails(j, executed) ==
    LET p == Item(job[j].plan) IN
    /\ job[j].pc = "apply"
    /\ Fault
    /\ executed => job[j].step \notin {"status", "verify"}
    /\ IF executed THEN Effect(j, p) ELSE UNCHANGED target
    /\ IF job[j].step \in {"half", "whole", "verify"} THEN Finally(j, p, TRUE)
       ELSE Result(j, p, TRUE)
    /\ UNCHANGED <<exact, backups, history>>

Next ==
    \/ \E j \in Jobs :
          \/ Backup(j) \/ Migrate(j) \/ \E b \in Given : Restore(j, b)
          \/ \E missing \in SUBSET Parts : Capture(j, missing)
          \/ CaptureFails(j) \/ Preview(j) \/ PreviewFails(j) \/ Save(j)
          \/ Answered(j) \/ \E executed \in BOOLEAN : CallFails(j, executed)

Spec == Init /\ [][Next]_vars

-----------------------------------------------------------------------------
(* The inductive invariant, with the parts that make it one. *)

\* What a job carries fits its phase: only parts that the target can take and the
\* backup holds are ready, a script goes through the steps of its mode, and what
\* is to be started again was running.
JobInv(j) ==
    LET r == job[j] IN
    /\ r.pc = "idle" => r = Idle
    /\ r.of = "source" => r.does = "migrate" /\ r.plan = NoPlan
    /\ r.does = "backup" => r.plan = NoPlan /\ r.pc # "preview"
    /\ \A p \in Parts : r.plan[p] = "READY" => p \in Supported \ Network /\ r.bk[p] # None
    /\ r.pc \in {"capture", "save", "preview"} =>
          \A p \in Parts : r.plan[p] \notin {"SUCCESS", "FAILED"}
    /\ r.pc = "apply" =>
          LET p == Item(r.plan) IN
          /\ Todo(r.plan) # {}
          /\ r.step \in CASE Kind[p] # "script" -> {"write"}
                          [] Kind[p] = "script" /\ exact ->
                               {"status", "stop", "half", "whole", "verify", "start"}
                          [] OTHER -> {"create", "half", "whole", "verify"}
          /\ r.was => exact /\ Kind[p] = "script" /\ r.step # "status"
          /\ r.step \in {"stop", "start"} => r.was
JobsInv == \A j \in Jobs : JobInv(j)

\* Half a code is only found where a code belongs.
ListsInv == \A p \in Of("list") : content[p] \in Nat

\* The backups that jobs may still add push the oldest out of the repository;
\* a migration adds two.
SourceAhead ==
    {j \in Jobs : job[j].pc = "idle" \/ (job[j].of = "source" /\ job[j].pc \in {"capture", "save"})}
TargetAhead == {j \in Jobs : job[j].pc \in {"idle", "capture", "save", "preview"}}
Remaining == Cardinality(SourceAhead) + Cardinality(TargetAhead)
Kept(p) ==
    \E k \in DOMAIN backups :
        k > Remaining /\ backups[k].of = "target" /\ backups[k].content[p] = calm.content[p]
Settled(p) == p \in unread \/ Kept(p)

\* What a backup under way has read of the target, or could not read.
Passed == [component |-> {}, script |-> {"component"}, list |-> {"component", "script"}]
Behind(j, p) ==
    /\ job[j].of = "target"
    /\ job[j].pc = "save" \/ (job[j].pc = "capture" /\ Kind[p] \in Passed[job[j].stage])

\* A part is overwritten only by jobs whose own backup was added before, and what
\* that one read was calm or is in an earlier one.
KeptInv ==
    \A p \in Parts :
        /\ content[p] # calm.content[p] => Settled(p)
        /\ \A j \in Jobs :
              /\ job[j].pc = "apply" => Settled(p)
              /\ Behind(j, p) => job[j].cap[p] = calm.content[p] \/ Settled(p)

\* A job that met no other has changed what its plan says and nothing else.
Restored(j, p) ==
    IF Kind[p] = "script" /\ ~exact THEN created[j] = "whole"
    ELSE content[p] = IF Kind[p] = "list" THEN calm.content[p] + 1 ELSE job[j].bk[p]
Untouched(j, p) ==
    /\ job[j].plan[p] \notin {"SUCCESS", "FAILED"}
    /\ Kind[p] = "script" => p # Item(job[j].plan)
SoloInv ==
    \A j \in Active \ met :
        /\ Active = {j}
        /\ job[j].pc # "apply" => content = calm.content /\ running = calm.running
        /\ job[j].pc = "apply" =>
              /\ \A p \in Parts :
                    /\ job[j].plan[p] = "SUCCESS" => Restored(j, p)
                    /\ Untouched(j, p) => content[p] = calm.content[p]
              /\ (\A p \in Of("script") : job[j].plan[p] # "FAILED") =>
                    IF job[j].was THEN calm.running ELSE running = calm.running
              /\ job[j].step = "start" /\ ~job[j].err => Holds(j, Item(job[j].plan))

IInv == TypeOK /\ JobsInv /\ ListsInv /\ KeptInv /\ SoloInv

-----------------------------------------------------------------------------
\* Whatever fails and overlaps: what a part of the target held when nothing was
\* under way is in a backup of the target once the part holds something else,
\* unless that part could not be read (restore.py 253-270, backup.py 146-193).
TargetRecoverable ==
    \A p \in Parts :
        content[p] # calm.content[p] =>
            \/ p \in unread
            \/ \E k \in DOMAIN backups :
                  backups[k].of = "target" /\ backups[k].content[p] = calm.content[p]

\* The report of a restore that ran alone says what became of every part: what
\* is a success holds the backup's content, what was not tried is as it was, the
\* script runs as before unless its operation failed; and no restore at all
\* touches the network (restore.py 74-125, 270-309).
Reports(j) == job[j].pc # "done" /\ job'[j].pc = "done" /\ job'[j].does # "backup"
TrueReport(j, plan) ==
    /\ \A p \in Parts :
          /\ plan[p] = "SUCCESS" =>
                IF Kind[p] = "script" /\ ~exact THEN created'[j] = "whole"
                ELSE content'[p] = IF Kind[p] = "list" THEN calm.content[p] + 1 ELSE job[j].bk[p]
          /\ plan[p] \notin {"SUCCESS", "FAILED"} => content'[p] = calm.content[p]
    /\ (\A p \in Of("script") : plan[p] # "FAILED") => running' = calm.running
ReportStep ==
    /\ \A p \in Network : content'[p] = content[p]
    /\ \A j \in Jobs \ met : Reports(j) => TrueReport(j, job'[j].plan)
ReportTrue == [][ReportStep]_vars

\* Violated: everything that a restore overwrites is in a backup.
SafetyComplete ==
    \A p \in Parts :
        content[p] # calm.content[p] =>
            \E k \in DOMAIN backups :
                backups[k].of = "target" /\ backups[k].content[p] = calm.content[p]
=============================================================================
