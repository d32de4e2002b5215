----------------------- MODULE BackupRestore_proofs ------------------------
(* BackupRestore keeps its invariant, for any jobs, parts and backups and  *)
(* any number of calls that fail.                                          *)
EXTENDS BackupRestore, Minimum, FiniteSetTheorems, TLAPS

\* The parts are those of the order.
LEMMA OrderFact ==
    /\ DOMAIN Order \subseteq Nat
    /\ \A k \in DOMAIN Order : Order[k] \in Parts
    /\ \A p \in Parts : \E k \in DOMAIN Order : Order[k] = p
  BY RestoreAssumption DEF Parts, Range

\* While something is to be done, the next item is a part that is ready.
LEMMA ItemFact ==
    ASSUME NEW plan, Todo(plan) # {}
    PROVE  Item(plan) \in Parts /\ plan[Item(plan)] = "READY"
  <1>1. Todo(plan) \in SUBSET Nat BY OrderFact DEF Todo
  <1>2. \E k \in Todo(plan) : \A i \in Todo(plan) : k <= i BY <1>1, NatMin
  <1> DEFINE first == CHOOSE k \in Todo(plan) : \A i \in Todo(plan) : k <= i
  <1>3. first \in Todo(plan) BY <1>2
  <1>4. Item(plan) = Order[first] BY DEF Item
  <1> HIDE DEF first
  <1> QED BY <1>3, <1>4, OrderFact DEF Todo

\* Where nothing is to be done, no part is ready.
LEMMA NothingReady ==
    ASSUME NEW plan, Todo(plan) = {}
    PROVE  \A p \in Parts : plan[p] # "READY"
  BY OrderFact DEF Todo

LEMMA NoPlanFact == NoPlan \in [Parts -> Statuses] /\ Todo(NoPlan) = {}
  BY OrderFact DEF Todo, NoPlan, Statuses

LEMMA IdleFact == Idle \in JobType
  BY NoPlanFact DEF Idle, JobType, Phases, Steps, Nothing, Captured

\* What is planned from a backup is in it and the target can take it.
LEMMA PlannedFact ==
    ASSUME NEW b, NEW p \in Parts
    PROVE  /\ Planned(b, p) \in Statuses \ {"SUCCESS", "FAILED"}
           /\ Planned(b, p) = "READY" => p \in Supported \ Network /\ b[p] # None
  BY DEF Planned, Statuses

\* How a job goes on: it ends, or begins its next operation.
LEMMA ContinueFact ==
    ASSUME TypeOK, NEW j \in Jobs, NEW plan \in [Parts -> Statuses], Continue(j, plan)
    PROVE  /\ job' = [job EXCEPT ![j] = job'[j]]
           /\ Todo(plan) = {} =>
                job'[j] = [Idle EXCEPT !.does = job[j].does, !.pc = "done", !.plan = plan]
           /\ Todo(plan) # {} =>
                job'[j] = [job[j] EXCEPT !.plan = plan, !.was = FALSE, !.err = FALSE,
                              !.cap = Nothing, !.pc = "apply", !.step = FirstStep(plan)]
           /\ job' \in [Jobs -> JobType]
  <1> DEFINE r == IF Todo(plan) = {}
                  THEN [Idle EXCEPT !.does = job[j].does, !.pc = "done", !.plan = plan]
                  ELSE [job[j] EXCEPT !.plan = plan, !.was = FALSE, !.err = FALSE,
                              !.cap = Nothing, !.pc = "apply", !.step = FirstStep(plan)]
  <1>1. job' = [job EXCEPT ![j] = r] BY DEF Continue
  <1>2. r \in JobType
    <2>1. FirstStep(plan) \in Steps BY DEF FirstStep, Steps
    <2>2. job[j] \in JobType BY DEF TypeOK
    <2>3. Nothing \in Captured BY DEF Nothing, Captured
    <2>4. CASE Todo(plan) = {}
      BY <2>2, <2>3, <2>4, IdleFact DEF JobType, Phases
    <2>5. CASE Todo(plan) # {}
      <3> HIDE DEF r
      <3>1. r = [job[j] EXCEPT !.plan = plan, !.was = FALSE, !.err = FALSE,
                              !.cap = Nothing, !.pc = "apply", !.step = FirstStep(plan)]
        BY <2>5 DEF r
      <3> QED BY <2>1, <2>2, <2>3, <3>1 DEF JobType, Phases
    <2> QED BY <2>4, <2>5
  <1> HIDE DEF r
  <1>3. job'[j] = r BY <1>1 DEF TypeOK
  <1> QED BY <1>1, <1>2, <1>3 DEF TypeOK, r

-----------------------------------------------------------------------------
(* What each action does, in the terms of the proofs. *)

Others(j) == \A i \in Jobs \ {j} : job'[i] = job[i]
Same == UNCHANGED <<target, exact, backups, faults>>

\* A command begins; when nothing is under way the history begins anew.
BeginEffect(j) ==
    /\ job[j].pc = "idle" /\ job' \in [Jobs -> JobType] /\ Others(j)
    /\ job'[j].pc \in {"capture", "preview"} /\ job'[j].stage = "component"
    /\ job'[j].plan = NoPlan
    /\ job'[j].of = "source" => job'[j].does = "migrate" /\ job'[j].pc = "capture"
    /\ job'[j].does = "backup" => job'[j].pc = "capture"
    /\ IF Quiet THEN calm' = [content |-> content, running |-> running] /\ unread' = {}
                ELSE UNCHANGED <<calm, unread>>
    /\ met' = IF Quiet THEN met ELSE met \cup Active \cup {j}
    /\ Same

LEMMA BeginFact ==
    ASSUME TypeOK, JobsInv, NEW j \in Jobs, Backup(j) \/ Migrate(j) \/ \E b \in Given : Restore(j, b)
    PROVE  BeginEffect(j)
  <1> USE IdleFact, NoPlanFact
  <1>1. PICK new : Begin(j, new) /\
                   \/ new = [Idle EXCEPT !.does = "backup", !.pc = "capture"]
                   \/ new = [Idle EXCEPT !.does = "migrate", !.pc = "capture", !.of = "source"]
                   \/ \E b \in Given : new = [Idle EXCEPT !.does = "restore", !.pc = "preview", !.bk = b]
    BY DEF Backup, Migrate, Restore
  <1>2. /\ new \in JobType /\ new.pc \in {"capture", "preview"} /\ new.stage = "component"
        /\ new.plan = NoPlan
        /\ new.of = "source" => new.does = "migrate" /\ new.pc = "capture"
        /\ new.does = "backup" => new.pc = "capture"
    <2>1. \A b \in Given : b \in Captured BY RestoreAssumption
    <2>2. CASE new = [Idle EXCEPT !.does = "backup", !.pc = "capture"]
      BY <2>2 DEF JobType, Phases, Idle
    <2>3. CASE new = [Idle EXCEPT !.does = "migrate", !.pc = "capture", !.of = "source"]
      BY <2>3 DEF JobType, Phases, Idle
    <2>4. CASE \E b \in Given : new = [Idle EXCEPT !.does = "restore", !.pc = "preview", !.bk = b]
      BY <2>1, <2>4, ZenonT(60) DEF JobType, Phases, Idle
    <2> QED BY <1>1, <2>2, <2>3, <2>4
  <1>3. job'[j] = new /\ job' \in [Jobs -> JobType] /\ Others(j)
    BY <1>1, <1>2 DEF TypeOK, Begin, Others
  <1> QED BY <1>1, <1>2, <1>3 DEF BeginEffect, Begin, Same

\* A stage of a backup: what is read, and what could not be.
CaptureEffect(j) ==
    /\ job[j].pc = "capture" /\ job' \in [Jobs -> JobType] /\ Others(j)
    /\ \E missing \in SUBSET Parts :
          /\ job'[j] = [job[j] EXCEPT !.cap = Read(j, missing),
                !.stage = AfterStage[job[j].stage],
                !.pc = IF job[j].stage = "list" THEN "save" ELSE "capture"]
          /\ unread' = IF job[j].of = "target" THEN unread \cup missing ELSE unread
    /\ faults' \in 0..MaxFaults
    /\ UNCHANGED <<target, exact, backups, calm, met>>

LEMMA CaptureFact ==
    ASSUME TypeOK, NEW j \in Jobs, NEW missing \in SUBSET Parts, Capture(j, missing)
    PROVE  CaptureEffect(j)
  <1> DEFINE new == [job[j] EXCEPT !.cap = Read(j, missing), !.stage = AfterStage[job[j].stage],
                                   !.pc = IF job[j].stage = "list" THEN "save" ELSE "capture"]
  <1>1. job[j] \in JobType BY DEF TypeOK
  <1>2. job' = [job EXCEPT ![j] = new] BY DEF Capture
  <1>3. new \in JobType
    <2>1. \A p \in Parts : Now(j)[p] \in Values
      BY RestoreAssumption DEF Now, TypeOK, Contents, Values
    <2>2. Read(j, missing) \in Captured BY <1>1, <2>1 DEF Read, Captured, JobType
    <2>3. AfterStage[job[j].stage] \in {"component", "script", "list"}
      BY <1>1 DEF AfterStage, JobType
    <2> QED BY <1>1, <2>2, <2>3 DEF JobType, Phases
  <1>4. job'[j] = new BY <1>2 DEF TypeOK
  <1>5. job' \in [Jobs -> JobType] /\ Others(j) BY <1>2, <1>3 DEF TypeOK, Others
  <1>6. faults' \in 0..MaxFaults BY RestoreAssumption DEF TypeOK, Capture, Fault
  <1> QED BY <1>4, <1>5, <1>6 DEF CaptureEffect, Capture

\* A backup or a preview fails, and the command with it.
FailsEffect(j) ==
    /\ job[j].pc \in {"capture", "preview"} /\ job' \in [Jobs -> JobType] /\ Others(j)
    /\ job'[j] = [Idle EXCEPT !.does = job[j].does, !.pc = "failed"]
    /\ faults' \in 0..MaxFaults
    /\ UNCHANGED <<target, exact, backups, history>>

LEMMA FailsFact ==
    ASSUME TypeOK, NEW j \in Jobs, CaptureFails(j) \/ PreviewFails(j)
    PROVE  FailsEffect(j)
  <1> DEFINE new == [Idle EXCEPT !.does = job[j].does, !.pc = "failed"]
  <1>1. new \in JobType BY IdleFact DEF TypeOK, JobType, Phases
  <1>2. job' = [job EXCEPT ![j] = new] BY DEF CaptureFails, PreviewFails, Fails
  <1>3. job'[j] = new /\ job' \in [Jobs -> JobType] /\ Others(j)
    BY <1>1, <1>2 DEF TypeOK, Others
  <1>4. faults' \in 0..MaxFaults
    BY RestoreAssumption DEF TypeOK, CaptureFails, PreviewFails, Fails, Fault
  <1> QED BY <1>3, <1>4 DEF FailsEffect, CaptureFails, PreviewFails, Fails

\* The plan is made and the safety backup begins.
PreviewEffect(j) ==
    /\ job[j].pc = "preview" /\ job' \in [Jobs -> JobType] /\ Others(j)
    /\ job'[j] = [job[j] EXCEPT !.plan = Plan(j), !.pc = "capture", !.of = "target",
                                !.stage = "component", !.cap = Nothing]
    /\ \A p \in Parts :
          /\ job'[j].plan[p] \notin {"SUCCESS", "FAILED"}
          /\ job'[j].plan[p] = "READY" => p \in Supported \ Network /\ job[j].bk[p] # None
    /\ Same /\ UNCHANGED history

LEMMA PreviewFact ==
    ASSUME TypeOK, NEW j \in Jobs, Preview(j)
    PROVE  PreviewEffect(j)
  <1> DEFINE new == [job[j] EXCEPT !.plan = Plan(j), !.pc = "capture", !.of = "target",
                                   !.stage = "component", !.cap = Nothing]
  <1>1. Plan(j) \in [Parts -> Statuses] BY PlannedFact DEF Plan
  <1>2. job[j] \in JobType BY DEF TypeOK
  <1>3. Nothing \in Captured BY DEF Nothing, Captured
  <1>4. new \in JobType BY <1>1, <1>2, <1>3 DEF JobType, Phases
  <1>5. job' = [job EXCEPT ![j] = new] BY DEF Preview
  <1>6. job'[j] = new /\ job' \in [Jobs -> JobType] /\ Others(j)
    BY <1>4, <1>5 DEF TypeOK, Others
  <1>7. job'[j].plan = Plan(j) BY <1>2, <1>6 DEF JobType
  <1>8. \A p \in Parts :
          /\ job'[j].plan[p] \notin {"SUCCESS", "FAILED"}
          /\ job'[j].plan[p] = "READY" => p \in Supported \ Network /\ job[j].bk[p] # None
    BY <1>7, PlannedFact DEF Plan
  <1> QED BY <1>6, <1>8 DEF PreviewEffect, Preview, Same

\* What a job with this plan does next.
Goes(j, plan) ==
    /\ Todo(plan) = {} =>
         job'[j] = [Idle EXCEPT !.does = job[j].does, !.pc = "done", !.plan = plan]
    /\ Todo(plan) # {} =>
         job'[j] = [job[j] EXCEPT !.plan = plan, !.was = FALSE, !.err = FALSE,
                       !.cap = Nothing, !.pc = "apply", !.step = FirstStep(plan)]

\* The backup is the newest, the oldest is dropped, and the job goes on.
SaveEffect(j) ==
    /\ job[j].pc = "save" /\ job' \in [Jobs -> JobType] /\ Others(j)
    /\ MaxBackups >= 1 /\ backups' \in Seq(BackupType) /\ Len(backups') = MaxBackups
    /\ \A k \in 1..MaxBackups :
          backups'[k] = IF k = MaxBackups THEN [of |-> job[j].of, content |-> job[j].cap]
                        ELSE backups[k + 1]
    /\ job[j].of = "source" => job'[j] = [job[j] EXCEPT !.pc = "preview", !.bk = job[j].cap]
    /\ job[j].of # "source" => Goes(j, job[j].plan)
    /\ UNCHANGED <<target, exact, faults, history>>

\* A full repository drops its oldest backup for a new one.
LEMMA AddedFact ==
    ASSUME TypeOK, MaxBackups >= 1, NEW b \in BackupType
    PROVE  /\ Added(b) \in Seq(BackupType) /\ Len(Added(b)) = MaxBackups
           /\ \A k \in 1..MaxBackups :
                 Added(b)[k] = IF k = MaxBackups THEN b ELSE backups[k + 1]
  <1> DEFINE all == Append(backups, b)
  <1>1. backups \in Seq(BackupType) /\ Len(backups) = MaxBackups /\ MaxBackups \in Nat
    BY RestoreAssumption DEF TypeOK
  <1>2. all \in Seq(BackupType) /\ Len(all) = MaxBackups + 1 /\ all[MaxBackups + 1] = b
        /\ \A k \in 1..MaxBackups : all[k] = backups[k]
    BY <1>1
  <1> HIDE DEF all
  <1>3. Added(b) = SubSeq(all, 2, MaxBackups + 1)
    <2>1. Added(b) = SubSeq(all, 1 + (IF Len(all) > MaxBackups THEN Len(all) - MaxBackups ELSE 0),
                            Len(all))
      BY DEF Added, all
    <2>2. 1 + (IF Len(all) > MaxBackups THEN Len(all) - MaxBackups ELSE 0) = 2 BY <1>1, <1>2
    <2> QED BY <1>2, <2>1, <2>2
  <1>4. SubSeq(all, 2, MaxBackups + 1) = [k \in 1..MaxBackups |-> all[k + 1]]
    BY <1>1, <1>2
  <1>5. \A k \in 1..MaxBackups : all[k + 1] \in BackupType BY <1>1, <1>2
  <1> QED BY <1>1, <1>2, <1>3, <1>4, <1>5

LEMMA SomeBackups == Jobs # {} => MaxBackups >= 1
  <1> SUFFICES ASSUME Jobs # {} PROVE MaxBackups >= 1
    OBVIOUS
  <1>1. Cardinality(Jobs) \in Nat /\ Cardinality(Jobs) # 0
    BY RestoreAssumption, FS_CardinalityType, FS_EmptySet
  <1> QED BY <1>1, RestoreAssumption

LEMMA SaveFact ==
    ASSUME TypeOK, JobsInv, NEW j \in Jobs, Save(j)
    PROVE  SaveEffect(j)
  <1> DEFINE b == [of |-> job[j].of, content |-> job[j].cap]
  <1>1. job[j] \in JobType BY DEF TypeOK
  <1>2. b \in BackupType BY <1>1 DEF JobType, BackupType
  <1>3. MaxBackups >= 1 BY SomeBackups
  <1>4. backups' = Added(b) BY DEF Save
  <1>5. /\ backups' \in Seq(BackupType) /\ Len(backups') = MaxBackups
        /\ \A k \in 1..MaxBackups : backups'[k] = IF k = MaxBackups THEN b ELSE backups[k + 1]
    BY <1>2, <1>3, <1>4, AddedFact
  <1>6. CASE job[j].of = "source"
    <2> DEFINE new == [job[j] EXCEPT !.pc = "preview", !.bk = job[j].cap]
    <2>1. new \in JobType BY <1>1 DEF JobType, Phases
    <2>2. job[j].does # "backup" BY <1>6 DEF JobsInv, JobInv
    <2>3. job' = [job EXCEPT ![j] = new] BY <1>1, <1>6, <2>2 DEF Save
    <2>4. job'[j] = new /\ job' \in [Jobs -> JobType] /\ Others(j)
      BY <2>1, <2>3 DEF TypeOK, Others
    <2> QED BY <1>3, <1>5, <1>6, <2>4 DEF SaveEffect, Save
  <1>7. CASE job[j].of # "source"
    <2>1. Continue(j, job[j].plan)
      BY <1>7 DEF Save, JobsInv, JobInv
    <2>2. job[j].plan \in [Parts -> Statuses] BY <1>1, SMTT(30) DEF JobType
    <2>3. Goes(j, job[j].plan) /\ job' \in [Jobs -> JobType] /\ job' = [job EXCEPT ![j] = job'[j]]
      BY <2>1, <2>2, ContinueFact DEF Goes
    <2>4. Others(j) BY <2>3 DEF TypeOK, Others
    <2> QED BY <1>3, <1>5, <1>7, <2>3, <2>4 DEF SaveEffect, Save
  <1> QED BY <1>6, <1>7

\* An operation concerns one part that is ready, and its step fits its kind.
LEMMA ItemNow ==
    ASSUME TypeOK, JobsInv, NEW j \in Jobs, job[j].pc = "apply", NEW p, p = Item(job[j].plan)
    PROVE  /\ p \in Parts /\ job[j].plan[p] = "READY" /\ p \in Supported \ Network
           /\ job[j].bk[p] \in Values
           /\ Kind[p] # "script" => job[j].step = "write"
           /\ Kind[p] = "script" /\ exact =>
                job[j].step \in {"status", "stop", "half", "whole", "verify", "start"}
           /\ Kind[p] = "script" /\ ~exact => job[j].step \in {"create", "half", "whole", "verify"}
           /\ job[j].was => exact /\ Kind[p] = "script" /\ job[j].step # "status"
           /\ job[j].step \in {"stop", "start"} => job[j].was
  <1>1. p \in Parts /\ job[j].plan[p] = "READY" BY ItemFact DEF JobsInv, JobInv
  <1>2. p \in Supported \ Network /\ job[j].bk[p] # None BY <1>1 DEF JobsInv, JobInv
  <1>3. job[j].bk[p] \in Values BY <1>1, <1>2 DEF TypeOK, JobType, Captured
  <1>4. job[j].step \in CASE Kind[p] # "script" -> {"write"}
                          [] Kind[p] = "script" /\ exact ->
                               {"status", "stop", "half", "whole", "verify", "start"}
                          [] OTHER -> {"create", "half", "whole", "verify"}
    BY DEF JobsInv, JobInv
  <1>5. /\ job[j].was => exact /\ Kind[p] = "script" /\ job[j].step # "status"
        /\ job[j].step \in {"stop", "start"} => job[j].was
    BY DEF JobsInv, JobInv
  <1> QED BY <1>1, <1>2, <1>3, <1>4, <1>5

\* An operation touches its own part, and no other job's script.
Frame(j, p) ==
    /\ content' \in Contents /\ running' \in BOOLEAN
    /\ created' \in [Jobs -> {"none", "empty", "half", "whole"}]
    /\ \A q \in Parts \ {p} : content'[q] = content[q]
    /\ \A i \in Jobs \ {j} : created'[i] = created[i]
    /\ Kind[p] = "script" /\ ~exact => content' = content
    /\ Kind[p] # "script" \/ exact => created' = created
    /\ Kind[p] # "script" => running' = running
    /\ Kind[p] = "list" => content'[p] \in Nat

LEMMA FrameFact ==
    ASSUME TypeOK, JobsInv, ListsInv, NEW j \in Jobs, job[j].pc = "apply",
           NEW p, p = Item(job[j].plan), Effect(j, p) \/ UNCHANGED target
    PROVE  Frame(j, p)
  <1> USE DEF Frame
  <1>1. /\ p \in Parts /\ job[j].bk[p] \in Values
        /\ Kind[p] # "script" => job[j].step = "write"
        /\ Kind[p] = "script" => job[j].step # "write"
        /\ Kind[p] = "script" /\ ~exact => job[j].step \notin {"stop", "start"}
        /\ job[j].step = "create" => Kind[p] = "script" /\ ~exact
    BY ItemNow
  <1>2. /\ content \in Contents /\ running \in BOOLEAN
        /\ created \in [Jobs -> {"none", "empty", "half", "whole"}]
        /\ Kind[p] = "list" => content[p] \in Nat
    BY <1>1 DEF TypeOK, ListsInv, Of
  <1>3. CASE UNCHANGED target BY <1>2, <1>3 DEF target
  <1>4. ASSUME NEW v \in Values, Write(j, p, v) PROVE Frame(j, p)
    <2>1. CASE Kind[p] = "script" /\ ~exact BY <1>2, <1>4, <2>1 DEF Write
    <2>2. CASE Kind[p] # "script" \/ exact
      <3>1. created' = created /\ running' = running BY <1>4, <2>2 DEF Write
      <3>2. content' = [content EXCEPT ![p] = IF Kind[p] = "list" THEN content[p] + 1 ELSE v]
        BY <1>4, <2>2 DEF Write
      <3>3. (IF Kind[p] = "list" THEN content[p] + 1 ELSE v) \in Values BY <1>2 DEF Values
      <3>4. content' \in Contents /\ \A q \in Parts \ {p} : content'[q] = content[q]
        BY <1>1, <1>2, <3>2, <3>3 DEF Contents
      <3>5. Kind[p] = "list" => content'[p] \in Nat BY <1>1, <1>2, <3>2 DEF Contents
      <3> QED BY <1>2, <2>2, <3>1, <3>4, <3>5
    <2> QED BY <2>1, <2>2
  <1>5. CASE Effect(j, p)
    <2>1. CASE job[j].step \in {"write", "whole"} BY <1>1, <1>4, <1>5, <2>1 DEF Effect
    <2>2. CASE job[j].step = "half"
      <3>1. Half \in Values BY DEF Values
      <3> QED BY <1>4, <1>5, <2>2, <3>1 DEF Effect
    <2>3. CASE job[j].step = "create" BY <1>1, <1>2, <1>5, <2>3 DEF Effect
    <2>4. CASE job[j].step \in {"stop", "start"} BY <1>1, <1>2, <1>5, <2>4 DEF Effect
    <2>5. CASE job[j].step \notin {"write", "whole", "half", "create", "stop", "start"}
      BY <1>2, <1>5, <2>5 DEF Effect, target
    <2> QED BY <2>1, <2>2, <2>3, <2>4, <2>5
  <1> QED BY <1>3, <1>5

\* A step of an operation on a script that does not end it.
Within(j, p) ==
    /\ Kind[p] = "script"
    /\ \E step \in Steps : \E was, err \in BOOLEAN :
          /\ job'[j] = [job[j] EXCEPT !.step = step, !.was = was, !.err = err]
          /\ step \in IF exact THEN {"stop", "half", "whole", "verify", "start"}
                      ELSE {"half", "whole", "verify"}
          /\ was => exact /\ (job[j].was \/ running)
          /\ step \in {"stop", "start"} => was
          /\ ~was => ~job[j].was /\ running' = running
          /\ step = "start" /\ ~err => content' = content /\ content[p] = job[j].bk[p]

\* What was done when an operation ends well.
Success(j, p) ==
    CASE Kind[p] # "script" ->
           content'[p] = IF Kind[p] = "list" THEN content[p] + 1 ELSE job[j].bk[p]
      [] Kind[p] = "script" /\ ~exact -> created'[j] = "whole" /\ running' = running
      [] OTHER -> /\ content' = content
                  /\ content[p] = job[j].bk[p] \/ (job[j].step = "start" /\ ~job[j].err)
                  /\ IF job[j].was THEN running' ELSE running' = running

Ended(j, p) ==
    \E v \in {"SUCCESS", "FAILED"} :
        Goes(j, [job[j].plan EXCEPT ![p] = v]) /\ (v = "SUCCESS" => Success(j, p))

ApplyEffect(j) ==
    LET p == Item(job[j].plan)
    IN  /\ job[j].pc = "apply" /\ job' \in [Jobs -> JobType] /\ Others(j)
        /\ Frame(j, p) /\ (Within(j, p) \/ Ended(j, p))
        /\ faults' \in 0..MaxFaults
        /\ UNCHANGED <<exact, backups, history>>

LEMMA EndedFact ==
    ASSUME TypeOK, NEW j \in Jobs, NEW p \in Parts, NEW err \in BOOLEAN, Result(j, p, err),
           ~err => Success(j, p)
    PROVE  Ended(j, p) /\ job' \in [Jobs -> JobType] /\ Others(j)
  <1> DEFINE v == IF err THEN "FAILED" ELSE "SUCCESS"
             plan == [job[j].plan EXCEPT ![p] = v]
  <1>1. job[j].plan \in [Parts -> Statuses] BY DEF TypeOK, JobType
  <1>2. plan \in [Parts -> Statuses] BY <1>1 DEF Statuses
  <1>3. Continue(j, plan) BY SMTT(30) DEF Result
  <1> HIDE DEF plan
  <1>4. /\ Goes(j, plan) /\ job' \in [Jobs -> JobType]
        /\ job' = [job EXCEPT ![j] = job'[j]]
    BY <1>2, <1>3, ContinueFact DEF Goes
  <1>5. Others(j) BY <1>4 DEF TypeOK, Others
  <1>6. Ended(j, p)
    <2>1. v \in {"SUCCESS", "FAILED"} /\ (v = "SUCCESS" => Success(j, p)) OBVIOUS
    <2>2. Goes(j, [job[j].plan EXCEPT ![p] = v]) BY <1>4 DEF plan
    <2> HIDE DEF v
    <2> QED BY <2>1, <2>2 DEF Ended
  <1> QED BY <1>4, <1>5, <1>6

\* A job whose step, or what it remembers of the script, changes.
LEMMA StepFact ==
    ASSUME TypeOK, NEW j \in Jobs, NEW step \in Steps, NEW was \in BOOLEAN, NEW err \in BOOLEAN,
           \/ job' = [job EXCEPT ![j].step = step] /\ was = job[j].was /\ err = job[j].err
           \/ job' = [job EXCEPT ![j].was = was, ![j].step = step] /\ err = job[j].err
           \/ job' = [job EXCEPT ![j].step = step, ![j].err = err] /\ was = job[j].was
    PROVE  /\ job'[j] = [job[j] EXCEPT !.step = step, !.was = was, !.err = err]
           /\ job' \in [Jobs -> JobType] /\ Others(j)
  <1> DEFINE r == job[j]
  <1>1. r \in JobType BY DEF TypeOK
  <1>2. [r EXCEPT !.step = step, !.was = was, !.err = err] \in JobType BY <1>1 DEF JobType
  <1>3. CASE job' = [job EXCEPT ![j].step = step] /\ was = job[j].was /\ err = job[j].err
    <2>1. job'[j] = [r EXCEPT !.step = step] /\ Others(j) BY <1>3 DEF TypeOK, Others
    <2>2. [r EXCEPT !.step = step] = [r EXCEPT !.step = step, !.was = r.was, !.err = r.err]
      BY <1>1 DEF JobType
    <2> QED BY <1>2, <1>3, <2>1, <2>2 DEF TypeOK, Others
  <1>4. CASE job' = [job EXCEPT ![j].was = was, ![j].step = step] /\ err = job[j].err
    <2>1. job'[j] = [r EXCEPT !.was = was, !.step = step] /\ Others(j) BY <1>4 DEF TypeOK, Others
    <2>2. [r EXCEPT !.was = was, !.step = step] = [r EXCEPT !.step = step, !.was = was, !.err = r.err]
      BY <1>1 DEF JobType
    <2> QED BY <1>2, <1>4, <2>1, <2>2 DEF TypeOK, Others
  <1>5. CASE job' = [job EXCEPT ![j].step = step, ![j].err = err] /\ was = job[j].was
    <2>1. job'[j] = [r EXCEPT !.step = step, !.err = err] /\ Others(j) BY <1>5 DEF TypeOK, Others
    <2>2. [r EXCEPT !.step = step, !.err = err] = [r EXCEPT !.step = step, !.was = r.was, !.err = err]
      BY <1>1 DEF JobType
    <2> QED BY <1>2, <1>5, <2>1, <2>2 DEF TypeOK, Others
  <1> QED BY <1>3, <1>4, <1>5

\* The end of an upload: the script is started again if it was running.
LEMMA FinallyFact ==
    ASSUME TypeOK, JobsInv, NEW j \in Jobs, job[j].pc = "apply", NEW p, p = Item(job[j].plan),
           job[j].step \in {"half", "whole", "verify"}, NEW err \in BOOLEAN, Finally(j, p, err),
           running' = running, ~err => UNCHANGED target /\ Holds(j, p)
    PROVE  (Within(j, p) \/ Ended(j, p)) /\ job' \in [Jobs -> JobType] /\ Others(j)
  <1>1. /\ p \in Parts /\ Kind[p] = "script"
        /\ job[j].was => exact
    BY ItemNow
  <1>2. job[j].was \in BOOLEAN BY DEF TypeOK, JobType
  <1>3. CASE job[j].was
    <2>1. job' = [job EXCEPT ![j].step = "start", ![j].err = err] BY <1>3 DEF Finally
    <2>2. "start" \in Steps BY DEF Steps
    <2>3. /\ job'[j] = [job[j] EXCEPT !.step = "start", !.was = job[j].was, !.err = err]
          /\ job' \in [Jobs -> JobType] /\ Others(j)
      BY <1>2, <2>1, <2>2, StepFact
    <2>4. ~err => content' = content /\ content[p] = job[j].bk[p]
      BY <1>1, <1>3 DEF Holds, target
    <2>5. Within(j, p) BY <1>1, <1>2, <1>3, <2>2, <2>3, <2>4 DEF Within
    <2> QED BY <2>3, <2>5
  <1>4. CASE ~job[j].was
    <2>1. Result(j, p, err) BY <1>4 DEF Finally
    <2>2. ~err => Success(j, p) BY <1>1, <1>4 DEF Success, Holds, target
    <2> QED BY <1>1, <2>1, <2>2, EndedFact
  <1> QED BY <1>3, <1>4

LEMMA AnsweredFact ==
    ASSUME TypeOK, JobsInv, ListsInv, NEW j \in Jobs, Answered(j), NEW p, p = Item(job[j].plan)
    PROVE  (Within(j, p) \/ Ended(j, p)) /\ job' \in [Jobs -> JobType] /\ Others(j)
  <1>1. job[j].pc = "apply" /\ Effect(j, p) BY DEF Answered
  <1>2. /\ p \in Parts
        /\ Kind[p] # "script" => job[j].step = "write"
        /\ Kind[p] = "script" /\ exact =>
             job[j].step \in {"status", "stop", "half", "whole", "verify", "start"}
        /\ Kind[p] = "script" /\ ~exact => job[j].step \in {"create", "half", "whole", "verify"}
        /\ job[j].was => exact /\ Kind[p] = "script" /\ job[j].step # "status"
        /\ job[j].step \in {"stop", "start"} => job[j].was
    BY <1>1, ItemNow
  <1>3. /\ job[j].was \in BOOLEAN /\ job[j].err \in BOOLEAN /\ job[j].step \in Steps
        /\ running \in BOOLEAN /\ exact \in BOOLEAN
    BY DEF TypeOK, JobType
  <1>4. CASE job[j].step = "write"
    <2>1. Kind[p] # "script" BY <1>2, <1>4
    <2>2. Result(j, p, FALSE) BY <1>4 DEF Answered
    <2>3. Write(j, p, job[j].bk[p]) BY <1>1, <1>4 DEF Effect
    <2>4. Success(j, p) BY <1>2, <2>1, <2>3 DEF Write, Success, TypeOK, Contents
    <2> QED BY <1>2, <2>2, <2>4, EndedFact
  <1>5. CASE job[j].step \in {"create", "stop", "half", "whole"}
    <2> DEFINE next == IF job[j].step = "half" THEN "whole"
                       ELSE IF job[j].step = "whole" THEN "verify" ELSE "half"
    <2>1. GoTo(j, next) BY <1>5 DEF Answered
    <2>2. next \in {"half", "whole", "verify"} /\ next \in Steps BY <1>5 DEF Steps
    <2> HIDE DEF next
    <2>3. /\ job'[j] = [job[j] EXCEPT !.step = next, !.was = job[j].was, !.err = job[j].err]
          /\ job' \in [Jobs -> JobType] /\ Others(j)
      BY <1>3, <2>1, <2>2, StepFact DEF GoTo
    <2>4. ~job[j].was => running' = running BY <1>1, <1>2, <1>5 DEF Effect, Write
    <2>5. Kind[p] = "script" BY <1>2, <1>5
    <2>6. Within(j, p)
      BY <1>2, <1>3, <2>2, <2>3, <2>4, <2>5 DEF Within
    <2> QED BY <2>3, <2>6
  <1>6. CASE job[j].step = "status"
    <2> DEFINE next == IF running THEN "stop" ELSE "half"
    <2>1. job' = [job EXCEPT ![j].was = running, ![j].step = next] BY <1>6 DEF Answered
    <2>2. next \in {"stop", "half"} /\ next \in Steps /\ (next = "stop" => running)
      BY DEF Steps
    <2> HIDE DEF next
    <2>3. /\ job'[j] = [job[j] EXCEPT !.step = next, !.was = running, !.err = job[j].err]
          /\ job' \in [Jobs -> JobType] /\ Others(j)
      BY <1>3, <2>1, <2>2, StepFact
    <2>4. running' = running BY <1>1, <1>6 DEF Effect, target
    <2>5. Kind[p] = "script" /\ exact /\ ~job[j].was BY <1>2, <1>3, <1>6
    <2>6. Within(j, p)
      BY <1>3, <2>2, <2>3, <2>4, <2>5 DEF Within
    <2> QED BY <2>3, <2>6
  <1>7. CASE job[j].step = "verify"
    <2>1. Finally(j, p, ~Holds(j, p)) BY <1>7 DEF Answered
    <2>2. UNCHANGED target BY <1>1, <1>7 DEF Effect
    <2>3. Holds(j, p) \in BOOLEAN BY <1>3 DEF Holds
    <2> QED BY <1>1, <1>7, <2>1, <2>2, <2>3, FinallyFact DEF target
  <1>8. CASE job[j].step = "start"
    <2>1. Result(j, p, job[j].err) BY <1>8 DEF Answered
    <2>2. job[j].was /\ exact /\ Kind[p] = "script" BY <1>2, <1>8
    <2>3. running' /\ content' = content BY <1>1, <1>8 DEF Effect
    <2>4. ~job[j].err => Success(j, p) BY <1>8, <2>2, <2>3 DEF Success
    <2> QED BY <1>2, <1>3, <2>1, <2>4, EndedFact
  <1>9. job[j].step \in {"write", "create", "stop", "half", "whole", "status", "verify", "start"}
    BY <1>2, <1>3
  <1> QED BY <1>4, <1>5, <1>6, <1>7, <1>8, <1>9

LEMMA CallFailsFact ==
    ASSUME TypeOK, JobsInv, ListsInv, NEW j \in Jobs, NEW executed \in BOOLEAN,
           CallFails(j, executed), NEW p, p = Item(job[j].plan)
    PROVE  (Within(j, p) \/ Ended(j, p)) /\ job' \in [Jobs -> JobType] /\ Others(j)
  <1>1. /\ job[j].pc = "apply" /\ (Effect(j, p) \/ UNCHANGED target)
        /\ p \in Parts
    BY ItemNow DEF CallFails
  <1>2. CASE job[j].step \in {"half", "whole", "verify"}
    <2>1. Finally(j, p, TRUE) BY <1>2 DEF CallFails
    <2>2. running' = running BY <1>1, <1>2 DEF Effect, Write, target
    <2> QED BY <1>1, <1>2, <2>1, <2>2, FinallyFact
  <1>3. CASE job[j].step \notin {"half", "whole", "verify"}
    <2>1. Result(j, p, TRUE) BY <1>3 DEF CallFails
    <2> QED BY <1>1, <2>1, EndedFact
  <1> QED BY <1>2, <1>3

LEMMA ApplyFact ==
    ASSUME TypeOK, JobsInv, ListsInv, NEW j \in Jobs,
           Answered(j) \/ \E executed \in BOOLEAN : CallFails(j, executed)
    PROVE  ApplyEffect(j)
  <1> DEFINE p == Item(job[j].plan)
  <1>1. job[j].pc = "apply" /\ (Effect(j, p) \/ UNCHANGED target) BY DEF Answered, CallFails
  <1>2. Frame(j, p) BY <1>1, FrameFact
  <1>3. (Within(j, p) \/ Ended(j, p)) /\ job' \in [Jobs -> JobType] /\ Others(j)
    BY AnsweredFact, CallFailsFact
  <1>4. faults' \in 0..MaxFaults /\ UNCHANGED <<exact, backups, history>>
    <2>1. CASE Answered(j) BY <2>1 DEF TypeOK, Answered
    <2>2. ASSUME NEW executed \in BOOLEAN, CallFails(j, executed)
          PROVE  faults' \in 0..MaxFaults /\ UNCHANGED <<exact, backups, history>>
      BY <2>2, RestoreAssumption DEF TypeOK, CallFails, Fault
    <2> QED BY <2>1, <2>2
  <1> QED BY <1>1, <1>2, <1>3, <1>4 DEF ApplyEffect

LEMMA NextFact ==
    ASSUME TypeOK, JobsInv, ListsInv, Next
    PROVE  \E j \in Jobs :
              \/ BeginEffect(j) \/ CaptureEffect(j) \/ FailsEffect(j) \/ PreviewEffect(j)
              \/ SaveEffect(j) \/ ApplyEffect(j)
  <1>1. PICK j \in Jobs :
           \/ Backup(j) \/ Migrate(j) \/ \E b \in Given : Restore(j, b)
           \/ \E missing \in SUBSET Parts : Capture(j, missing)
           \/ CaptureFails(j) \/ Preview(j) \/ PreviewFails(j) \/ Save(j)
           \/ Answered(j) \/ \E executed \in BOOLEAN : CallFails(j, executed)
    BY Zenon DEF Next
  <1>2. CASE Backup(j) \/ Migrate(j) \/ \E b \in Given : Restore(j, b)
    BY <1>2, BeginFact
  <1>3. CASE \E missing \in SUBSET Parts : Capture(j, missing)
    BY <1>3, CaptureFact
  <1>4. CASE CaptureFails(j) \/ PreviewFails(j)
    BY <1>4, FailsFact
  <1>5. CASE Preview(j)
    BY <1>5, PreviewFact
  <1>6. CASE Save(j)
    BY <1>6, SaveFact
  <1>7. CASE Answered(j) \/ \E executed \in BOOLEAN : CallFails(j, executed)
    BY <1>7, ApplyFact
  <1> QED BY <1>1, <1>2, <1>3, <1>4, <1>5, <1>6, <1>7

-----------------------------------------------------------------------------
(* Types, and what jobs carry *)

LEMMA TypeStep ==
    ASSUME TypeOK, JobsInv, ListsInv, [Next]_vars
    PROVE  TypeOK'
  <1>1. CASE UNCHANGED vars BY <1>1 DEF TypeOK, vars, target, history
  <1>2. ASSUME NEW j \in Jobs, BeginEffect(j) PROVE TypeOK'
    BY <1>2 DEF BeginEffect, Same, target, TypeOK, Active
  <1>3. ASSUME NEW j \in Jobs, CaptureEffect(j) PROVE TypeOK'
    BY <1>3 DEF CaptureEffect, target, TypeOK
  <1>4. ASSUME NEW j \in Jobs, FailsEffect(j) PROVE TypeOK'
    BY <1>4 DEF FailsEffect, target, history, TypeOK
  <1>5. ASSUME NEW j \in Jobs, PreviewEffect(j) PROVE TypeOK'
    BY <1>5 DEF PreviewEffect, Same, target, history, TypeOK
  <1>6. ASSUME NEW j \in Jobs, SaveEffect(j) PROVE TypeOK'
    BY <1>6 DEF SaveEffect, target, history, TypeOK
  <1>7. ASSUME NEW j \in Jobs, ApplyEffect(j) PROVE TypeOK'
    BY <1>7 DEF ApplyEffect, Frame, history, TypeOK
  <1> QED BY <1>1, <1>2, <1>3, <1>4, <1>5, <1>6, <1>7, NextFact

\* A job keeps its invariant while another one moves.
LEMMA OtherJobs ==
    ASSUME JobsInv, NEW j \in Jobs, Others(j), exact' = exact, JobInv(j)'
    PROVE  JobsInv'
  <1>1. ASSUME NEW i \in Jobs, i # j PROVE JobInv(i)'
    <2>1. job'[i] = job[i] BY <1>1 DEF Others
    <2> QED BY <2>1 DEF JobsInv, JobInv
  <1> QED BY <1>1 DEF JobsInv

\* How a plan is begun fits the next part.
LEMMA GoesFact ==
    ASSUME TypeOK, NEW j \in Jobs, NEW plan \in [Parts -> Statuses], Goes(j, plan),
           exact' = exact, job[j].of = "target", job[j].does = "backup" => plan = NoPlan,
           \A p \in Parts : plan[p] = "READY" => p \in Supported \ Network /\ job[j].bk[p] # None
    PROVE  JobInv(j)'
  <1>1. job[j] \in JobType BY DEF TypeOK
  <1>2. CASE Todo(plan) = {}
    <2>1. /\ job'[j].pc = "done" /\ job'[j].plan = plan /\ job'[j].of = "target"
          /\ job'[j].does = job[j].does
      BY <1>2 DEF Goes, Idle
    <2>2. \A p \in Parts : plan[p] # "READY" BY <1>2, NothingReady
    <2> QED BY <2>1, <2>2 DEF JobInv
  <1>3. CASE Todo(plan) # {}
    <2>1. /\ job'[j].pc = "apply" /\ job'[j].plan = plan /\ job'[j].of = "target"
          /\ job'[j].does = job[j].does /\ job'[j].bk = job[j].bk /\ job'[j].was = FALSE
          /\ job'[j].step = FirstStep(plan)
      BY <1>1, <1>3 DEF Goes, JobType
    <2>2. FirstStep(plan) \in CASE Kind[Item(plan)] # "script" -> {"write"}
                          [] Kind[Item(plan)] = "script" /\ exact ->
                               {"status", "stop", "half", "whole", "verify", "start"}
                          [] OTHER -> {"create", "half", "whole", "verify"}
      BY DEF FirstStep
    <2>3. FirstStep(plan) \notin {"stop", "start"} BY DEF FirstStep
    <2> QED BY <1>3, <2>1, <2>2, <2>3 DEF JobInv
  <1> QED BY <1>2, <1>3

LEMMA JobsStep ==
    ASSUME TypeOK, JobsInv, ListsInv, [Next]_vars
    PROVE  JobsInv'
  <1> USE DEF JobInv
  <1>1. CASE UNCHANGED vars BY <1>1 DEF JobsInv, vars
  <1>2. ASSUME NEW j \in Jobs, BeginEffect(j) PROVE JobsInv'
    <2>1. JobInv(j)'
      <3>1. \A p \in Parts : job'[j].plan[p] = "ABSENT" BY <1>2 DEF BeginEffect, NoPlan
      <3> QED BY <1>2, <3>1 DEF BeginEffect
    <2> QED BY <1>2, <2>1, OtherJobs DEF BeginEffect, Same
  <1>3. ASSUME NEW j \in Jobs, CaptureEffect(j) PROVE JobsInv'
    <2>1. /\ job'[j].pc \in {"capture", "save"} /\ job'[j].of = job[j].of
          /\ job'[j].does = job[j].does /\ job'[j].plan = job[j].plan /\ job'[j].bk = job[j].bk
          /\ job[j].pc = "capture"
      BY <1>3 DEF CaptureEffect, TypeOK, JobType
    <2>2. JobInv(j)' BY <2>1 DEF JobsInv
    <2> QED BY <1>3, <2>2, OtherJobs DEF CaptureEffect
  <1>4. ASSUME NEW j \in Jobs, FailsEffect(j) PROVE JobsInv'
    <2>1. /\ job'[j].pc = "failed" /\ job'[j].of = "target" /\ job'[j].plan = NoPlan
      BY <1>4 DEF FailsEffect, Idle
    <2>2. JobInv(j)'
      <3>1. \A p \in Parts : NoPlan[p] = "ABSENT" BY DEF NoPlan
      <3> QED BY <2>1, <3>1
    <2> QED BY <1>4, <2>2, OtherJobs DEF FailsEffect
  <1>5. ASSUME NEW j \in Jobs, PreviewEffect(j) PROVE JobsInv'
    <2>1. /\ job'[j].pc = "capture" /\ job'[j].of = "target" /\ job'[j].bk = job[j].bk
          /\ job'[j].does = job[j].does /\ job[j].pc = "preview"
      BY <1>5 DEF PreviewEffect, TypeOK, JobType
    <2>2. job[j].does # "backup" BY <2>1 DEF JobsInv
    <2>3. JobInv(j)' BY <1>5, <2>1, <2>2 DEF PreviewEffect
    <2> QED BY <1>5, <2>3, OtherJobs DEF PreviewEffect, Same
  <1>6. ASSUME NEW j \in Jobs, SaveEffect(j) PROVE JobsInv'
    <2>1. JobInv(j)'
      <3>1. CASE job[j].of = "source"
        <4>1. /\ job'[j].pc = "preview" /\ job'[j].of = "source" /\ job'[j].plan = job[j].plan
              /\ job'[j].does = job[j].does /\ job[j].plan = NoPlan /\ job[j].does = "migrate"
          BY <1>6, <3>1 DEF SaveEffect, TypeOK, JobType, JobsInv
        <4>2. \A p \in Parts : NoPlan[p] = "ABSENT" BY DEF NoPlan
        <4> QED BY <4>1, <4>2
      <3>2. CASE job[j].of # "source"
        <4>1. job[j].of = "target" /\ job[j].plan \in [Parts -> Statuses]
          BY <3>2 DEF TypeOK, JobType
        <4>2. Goes(j, job[j].plan) /\ exact' = exact BY <1>6, <3>2 DEF SaveEffect
        <4> QED BY <4>1, <4>2, GoesFact DEF JobsInv
      <3> QED BY <3>1, <3>2
    <2> QED BY <1>6, <2>1, OtherJobs DEF SaveEffect
  <1>7. ASSUME NEW j \in Jobs, ApplyEffect(j) PROVE JobsInv'
    <2> DEFINE p == Item(job[j].plan)
    <2>1. job[j].pc = "apply" /\ exact' = exact /\ (Within(j, p) \/ Ended(j, p))
      BY <1>7 DEF ApplyEffect
    <2>2. p \in Parts /\ job[j].plan[p] = "READY" BY <2>1, ItemNow
    <2>3. JobInv(j) BY DEF JobsInv
    <2>4. job[j] \in JobType BY DEF TypeOK
    <2>5. job[j].of = "target"
      <3>1. job[j].of # "source" BY <2>2, <2>3 DEF NoPlan
      <3> QED BY <2>4, <3>1 DEF JobType
    <2>6. job[j].does # "backup" BY <2>2, <2>3 DEF NoPlan
    <2>7. CASE Within(j, p)
      <3>1. PICK step \in Steps, was \in BOOLEAN, err \in BOOLEAN :
              /\ job'[j] = [job[j] EXCEPT !.step = step, !.was = was, !.err = err]
              /\ step \in IF exact THEN {"stop", "half", "whole", "verify", "start"}
                          ELSE {"half", "whole", "verify"}
              /\ was => exact
              /\ step \in {"stop", "start"} => was
        BY <2>7 DEF Within
      <3>2. /\ job'[j].pc = "apply" /\ job'[j].of = job[j].of /\ job'[j].does = job[j].does
            /\ job'[j].plan = job[j].plan /\ job'[j].bk = job[j].bk /\ job'[j].step = step
            /\ job'[j].was = was
        BY <2>1, <2>4, <3>1 DEF JobType
      <3>3. Kind[p] = "script" BY <2>7 DEF Within
      <3>4. /\ Todo(job'[j].plan) # {} /\ Item(job'[j].plan) = p
        BY <2>1, <2>3, <3>2
      <3> HIDE DEF p
      <3>5. step \in CASE Kind[p] # "script" -> {"write"}
                          [] Kind[p] = "script" /\ exact ->
                               {"status", "stop", "half", "whole", "verify", "start"}
                          [] OTHER -> {"create", "half", "whole", "verify"}
        BY <3>1, <3>3
      <3>6. step # "status" BY <3>1
      <3>7. JobInv(j)' BY <2>1, <2>3, <3>1, <3>2, <3>3, <3>4, <3>5, <3>6
      <3> QED BY <1>7, <3>7, OtherJobs DEF ApplyEffect
    <2>8. CASE Ended(j, p)
      <3>1. PICK v \in {"SUCCESS", "FAILED"} : Goes(j, [job[j].plan EXCEPT ![p] = v])
        BY <2>8 DEF Ended
      <3> DEFINE plan == [job[j].plan EXCEPT ![p] = v]
      <3> HIDE DEF p
      <3>2. job[j].plan \in [Parts -> Statuses] BY <2>4 DEF JobType
      <3>3. plan \in [Parts -> Statuses] BY <3>2 DEF Statuses
      <3>4. \A q \in Parts : plan[q] = "READY" => job[j].plan[q] = "READY" BY <3>2
      <3>5. \A q \in Parts : plan[q] = "READY" => q \in Supported \ Network /\ job[j].bk[q] # None
        BY <2>3, <3>4
      <3> HIDE DEF plan
      <3>6. Goes(j, plan) BY <3>1 DEF plan
      <3>7. JobInv(j)' BY <2>1, <2>5, <2>6, <3>3, <3>5, <3>6, GoesFact
      <3> QED BY <1>7, <3>7, OtherJobs DEF ApplyEffect
    <2> QED BY <2>1, <2>7, <2>8
  <1> QED BY <1>1, <1>2, <1>3, <1>4, <1>5, <1>6, <1>7, NextFact

LEMMA ListsStep ==
    ASSUME TypeOK, JobsInv, ListsInv, [Next]_vars
    PROVE  ListsInv'
  <1>1. CASE content' = content BY <1>1 DEF ListsInv
  <1>2. ASSUME NEW j \in Jobs, ApplyEffect(j) PROVE ListsInv'
    BY <1>2 DEF ApplyEffect, Frame, ListsInv, Of
  <1> QED BY <1>1, <1>2, NextFact
       DEF vars, target, BeginEffect, CaptureEffect, FailsEffect, PreviewEffect, SaveEffect, Same

-----------------------------------------------------------------------------
(* What is overwritten is in a backup *)

LEMMA Smaller ==
    ASSUME NEW S, IsFiniteSet(S), NEW T \in SUBSET S
    PROVE  /\ Cardinality(S) \in Nat /\ Cardinality(T) \in Nat
           /\ Cardinality(T) <= Cardinality(S)
           /\ T # S => Cardinality(T) <= Cardinality(S) - 1
  <1>1. IsFiniteSet(T) /\ Cardinality(T) <= Cardinality(S) BY FS_Subset
  <1>2. Cardinality(S) \in Nat /\ Cardinality(T) \in Nat BY <1>1, FS_CardinalityType
  <1>3. T # S => Cardinality(T) # Cardinality(S) BY FS_Subset
  <1> QED BY <1>1, <1>2, <1>3

\* There is room for all the backups that jobs may still add.
LEMMA Room ==
    /\ IsFiniteSet(SourceAhead) /\ IsFiniteSet(TargetAhead)
    /\ Remaining \in Nat /\ Remaining <= MaxBackups
  <1>1. IsFiniteSet(Jobs) /\ 2 * Cardinality(Jobs) <= MaxBackups /\ MaxBackups \in Nat
    BY RestoreAssumption
  <1>2. SourceAhead \in SUBSET Jobs /\ TargetAhead \in SUBSET Jobs
    BY DEF SourceAhead, TargetAhead
  <1>3. IsFiniteSet(SourceAhead) /\ IsFiniteSet(TargetAhead) BY <1>1, <1>2, FS_Subset
  <1>4. Cardinality(SourceAhead) \in Nat /\ Cardinality(SourceAhead) <= Cardinality(Jobs)
    BY <1>1, <1>2, Smaller
  <1>5. Cardinality(TargetAhead) \in Nat /\ Cardinality(TargetAhead) <= Cardinality(Jobs)
    BY <1>1, <1>2, Smaller
  <1>6. Cardinality(Jobs) \in Nat BY <1>1, FS_CardinalityType
  <1> QED BY <1>1, <1>3, <1>4, <1>5, <1>6 DEF Remaining

\* No step makes a job add more backups than were expected of it.
LEMMA Fewer ==
    ASSUME NEW j \in Jobs, Others(j),
           j \in SourceAhead' => j \in SourceAhead,
           j \in TargetAhead' => j \in TargetAhead
    PROVE  /\ Remaining' \in Nat /\ Remaining' <= Remaining
           /\ \/ j \in SourceAhead /\ j \notin SourceAhead'
              \/ j \in TargetAhead /\ j \notin TargetAhead'
              => Remaining' <= Remaining - 1
  <1>1. SourceAhead' \in SUBSET SourceAhead
    BY DEF SourceAhead, Others
  <1>2. TargetAhead' \in SUBSET TargetAhead
    BY DEF TargetAhead, Others
  <1>3. /\ Cardinality(SourceAhead) \in Nat /\ Cardinality(SourceAhead') \in Nat
        /\ Cardinality(SourceAhead') <= Cardinality(SourceAhead)
        /\ SourceAhead' # SourceAhead =>
             Cardinality(SourceAhead') <= Cardinality(SourceAhead) - 1
    BY <1>1, Room, Smaller
  <1>4. /\ Cardinality(TargetAhead) \in Nat /\ Cardinality(TargetAhead') \in Nat
        /\ Cardinality(TargetAhead') <= Cardinality(TargetAhead)
        /\ TargetAhead' # TargetAhead =>
             Cardinality(TargetAhead') <= Cardinality(TargetAhead) - 1
    BY <1>2, Room, Smaller
  <1>5. Remaining' = Cardinality(SourceAhead') + Cardinality(TargetAhead') BY DEF Remaining
  <1>6. Remaining = Cardinality(SourceAhead) + Cardinality(TargetAhead) BY DEF Remaining
  <1>7. j \in SourceAhead /\ j \notin SourceAhead' => SourceAhead' # SourceAhead OBVIOUS
  <1>8. j \in TargetAhead /\ j \notin TargetAhead' => TargetAhead' # TargetAhead OBVIOUS
  <1> HIDE DEF Remaining, SourceAhead, TargetAhead
  <1> QED BY <1>3, <1>4, <1>5, <1>6, <1>7, <1>8

\* A backup that is kept stays, also when a new one pushes the oldest out.
LEMMA StaysKept ==
    ASSUME TypeOK, calm' = calm, Remaining' \in Nat,
           \/ backups' = backups /\ Remaining' <= Remaining
           \/ /\ Remaining' <= Remaining - 1 /\ Len(backups') = MaxBackups
              /\ backups' \in Seq(BackupType)
              /\ \A k \in 1..MaxBackups : k # MaxBackups => backups'[k] = backups[k + 1],
           NEW p \in Parts, Kept(p)
    PROVE  Kept(p)'
  <1>1. PICK k \in DOMAIN backups :
          k > Remaining /\ backups[k].of = "target" /\ backups[k].content[p] = calm.content[p]
    BY DEF Kept
  <1>2. Remaining \in Nat /\ MaxBackups \in Nat BY Room, RestoreAssumption
  <1>3. DOMAIN backups = 1..MaxBackups /\ k \in 1..MaxBackups BY <1>1, <1>2 DEF TypeOK
  <1>4. CASE backups' = backups /\ Remaining' <= Remaining
    <2>1. k > Remaining' BY <1>1, <1>2, <1>3, <1>4
    <2> QED BY <1>1, <1>4, <2>1 DEF Kept
  <1>5. CASE /\ Remaining' <= Remaining - 1 /\ Len(backups') = MaxBackups
             /\ backups' \in Seq(BackupType)
             /\ \A i \in 1..MaxBackups : i # MaxBackups => backups'[i] = backups[i + 1]
    <2>1. k - 1 \in 1..MaxBackups /\ k - 1 # MaxBackups /\ k - 1 > Remaining'
          /\ (k - 1) + 1 = k
      BY <1>1, <1>2, <1>3, <1>5
    <2>2. backups'[k - 1] = backups[k] BY <1>5, <2>1
    <2>3. DOMAIN backups' = 1..MaxBackups BY <1>2, <1>5
    <2> QED BY <1>1, <2>1, <2>2, <2>3 DEF Kept
  <1> QED BY <1>4, <1>5

LEMMA KeptStep ==
    ASSUME TypeOK, JobsInv, ListsInv, KeptInv, [Next]_vars
    PROVE  KeptInv'
  <1>1. CASE UNCHANGED vars
    BY <1>1 DEF KeptInv, Settled, Kept, Behind, Remaining, SourceAhead, TargetAhead,
                vars, target, history
  <1>2. ASSUME NEW j \in Jobs, BeginEffect(j) PROVE KeptInv'
    <2>1. job'[j].pc # "apply" /\ \A p \in Parts : ~Behind(j, p)'
      BY <1>2 DEF BeginEffect, Behind, Passed
    <2>2. CASE Quiet
      <3>1. content' = calm'.content BY <1>2, <2>2 DEF BeginEffect, Same, target
      <3>2. \A i \in Jobs \ {j} : job'[i].pc # "apply" /\ \A p \in Parts : ~Behind(i, p)'
        BY <1>2, <2>2 DEF BeginEffect, Others, Behind, Quiet, Active
      <3> QED BY <2>1, <3>1, <3>2 DEF KeptInv
    <2>3. CASE ~Quiet
      <3>1. j \in SourceAhead /\ j \in TargetAhead
        BY <1>2 DEF BeginEffect, SourceAhead, TargetAhead
      <3>2. Remaining' \in Nat /\ Remaining' <= Remaining
        BY <1>2, <3>1, Fewer DEF BeginEffect
      <3>3. \A p \in Parts : Settled(p) => Settled(p)'
        BY <1>2, <2>3, <3>2, StaysKept DEF BeginEffect, Same, Settled
      <3>4. \A i \in Jobs \ {j} : job'[i] = job[i] BY <1>2 DEF BeginEffect, Others
      <3>5. content' = content /\ calm' = calm BY <1>2, <2>3 DEF BeginEffect, Same, target
      <3> QED BY <2>1, <3>3, <3>4, <3>5 DEF KeptInv, Behind
    <2> QED BY <2>2, <2>3
  <1>3. ASSUME NEW j \in Jobs, CaptureEffect(j) PROVE KeptInv'
    <2>1. job[j] \in JobType BY DEF TypeOK
    <2>2. PICK missing \in SUBSET Parts :
          /\ job'[j] = [job[j] EXCEPT !.cap = Read(j, missing),
                !.stage = AfterStage[job[j].stage],
                !.pc = IF job[j].stage = "list" THEN "save" ELSE "capture"]
          /\ unread' = IF job[j].of = "target" THEN unread \cup missing ELSE unread
      BY <1>3 DEF CaptureEffect
    <2>3. /\ job[j].pc = "capture" /\ job'[j].of = job[j].of
          /\ job'[j].stage = AfterStage[job[j].stage]
          /\ job'[j].pc = IF job[j].stage = "list" THEN "save" ELSE "capture"
          /\ job'[j].cap = Read(j, missing)
      BY <1>3, <2>1, <2>2 DEF CaptureEffect, JobType
    <2>4. Remaining' \in Nat /\ Remaining' <= Remaining
      <3>1. j \in TargetAhead BY <2>3 DEF TargetAhead
      <3>2. j \in SourceAhead' => j \in SourceAhead BY <2>3 DEF SourceAhead
      <3> QED BY <1>3, <3>1, <3>2, Fewer DEF CaptureEffect
    <2>5. \A p \in Parts : Settled(p) => Settled(p)'
      <3>1. \A p \in Parts : Kept(p) => Kept(p)'
        BY <1>3, <2>4, StaysKept DEF CaptureEffect
      <3> QED BY <2>2, <3>1 DEF Settled
    <2>6. content' = content /\ calm' = calm BY <1>3 DEF CaptureEffect, target
    <2>7. \A p \in Parts : Behind(j, p)' => job'[j].cap[p] = calm.content[p] \/ Settled(p)'
      <3> SUFFICES ASSUME NEW p \in Parts, Behind(j, p)'
                   PROVE  job'[j].cap[p] = calm.content[p] \/ Settled(p)'
        OBVIOUS
      <3>1. job[j].of = "target" BY <2>3 DEF Behind
      <3>2. Kind[p] \in {"component", "script", "list"} BY RestoreAssumption
      <3>3. job[j].stage \in {"component", "script", "list"} BY <2>1 DEF JobType
      <3>4. Behind(j, p) \/ p \in Of(job[j].stage)
        BY <2>3, <3>1, <3>2, <3>3 DEF Behind, Of, Passed, AfterStage
      <3>5. CASE p \in missing BY <2>2, <3>1, <3>5 DEF Settled
      <3>6. CASE p \in Of(job[j].stage) \ missing
        <4>1. job'[j].cap[p] = content[p] BY <2>3, <3>1, <3>6 DEF Read, Now
        <4> QED BY <2>5, <4>1 DEF KeptInv
      <3>7. CASE p \notin Of(job[j].stage)
        <4>1. job'[j].cap[p] = job[j].cap[p] BY <2>3, <3>7 DEF Read
        <4> QED BY <2>5, <3>4, <3>7, <4>1 DEF KeptInv
      <3> QED BY <3>5, <3>6, <3>7
    <2>8. \A i \in Jobs \ {j} : job'[i] = job[i] BY <1>3 DEF CaptureEffect, Others
    <2>9. job'[j].pc # "apply" BY <2>3
    <2> QED BY <2>5, <2>6, <2>7, <2>8, <2>9 DEF KeptInv, Behind
  <1>4. ASSUME NEW j \in Jobs, FailsEffect(j) \/ PreviewEffect(j) PROVE KeptInv'
    <2>1. job[j] \in JobType BY DEF TypeOK
    <2>2. /\ job'[j].pc \in {"failed", "capture"} /\ job'[j].of = "target"
          /\ job'[j].stage = "component" /\ job[j].pc \in {"capture", "preview"}
          /\ Others(j) /\ content' = content /\ calm' = calm /\ unread' = unread
          /\ backups' = backups
      BY <1>4, <2>1 DEF FailsEffect, PreviewEffect, Same, target, history, Idle, JobType
    <2>3. Remaining' \in Nat /\ Remaining' <= Remaining
      <3>1. j \in TargetAhead BY <2>2 DEF TargetAhead
      <3>2. j \notin SourceAhead' BY <2>2 DEF SourceAhead
      <3> QED BY <2>2, <3>1, <3>2, Fewer
    <2>4. \A p \in Parts : Settled(p) => Settled(p)'
      BY <2>2, <2>3, StaysKept DEF Settled
    <2>5. job'[j].pc # "apply" /\ \A p \in Parts : ~Behind(j, p)'
      BY <2>2 DEF Behind, Passed
    <2>6. \A i \in Jobs \ {j} : job'[i] = job[i] BY <2>2 DEF Others
    <2> QED BY <2>2, <2>4, <2>5, <2>6 DEF KeptInv, Behind
  <1>5. ASSUME NEW j \in Jobs, SaveEffect(j) PROVE KeptInv'
    <2>1. job[j] \in JobType BY DEF TypeOK
    <2>2. /\ job[j].pc = "save" /\ Others(j) /\ content' = content /\ calm' = calm
          /\ unread' = unread
      BY <1>5 DEF SaveEffect, target, history
    <2>3. job[j].of = "source" => job'[j].pc = "preview"
      BY <1>5, <2>1 DEF SaveEffect, JobType
    <2>4. job[j].of # "source" => job[j].of = "target" /\ job'[j].pc \in {"done", "apply"}
      BY <1>5, <2>1, IdleFact DEF SaveEffect, Goes, JobType
    <2>5. Remaining' \in Nat /\ Remaining' <= Remaining - 1
      <3>1. j \in TargetAhead BY <2>2 DEF TargetAhead
      <3>2. CASE job[j].of = "source"
        <4>1. j \in SourceAhead /\ j \notin SourceAhead'
          BY <2>2, <2>3, <3>2 DEF SourceAhead
        <4> QED BY <2>2, <3>1, <4>1, Fewer
      <3>3. CASE job[j].of # "source"
        <4>1. j \notin TargetAhead' /\ j \notin SourceAhead'
          BY <2>4, <3>3 DEF TargetAhead, SourceAhead
        <4> QED BY <2>2, <3>1, <4>1, Fewer
      <3> QED BY <3>2, <3>3
    <2>6. \A p \in Parts : Settled(p) => Settled(p)'
      <3>1. \A p \in Parts : Kept(p) => Kept(p)'
        BY <1>5, <2>2, <2>5, StaysKept DEF SaveEffect
      <3> QED BY <2>2, <3>1 DEF Settled
    <2>7. job'[j].pc = "apply" => \A p \in Parts : Settled(p)'
      <3> SUFFICES ASSUME job'[j].pc = "apply", NEW p \in Parts PROVE Settled(p)'
        OBVIOUS
      <3>1. job[j].of = "target" BY <2>3, <2>4
      <3>2. job[j].cap[p] = calm.content[p] \/ Settled(p) BY <2>2, <3>1 DEF KeptInv, Behind
      <3>3. ASSUME job[j].cap[p] = calm.content[p] PROVE Kept(p)'
        <4>1. /\ MaxBackups >= 1 /\ MaxBackups \in Nat /\ DOMAIN backups' = 1..MaxBackups
              /\ backups'[MaxBackups] = [of |-> job[j].of, content |-> job[j].cap]
          BY <1>5, RestoreAssumption DEF SaveEffect
        <4>2. MaxBackups > Remaining' BY <2>5, <4>1, Room
        <4> QED BY <2>2, <3>1, <3>3, <4>1, <4>2 DEF Kept
      <3> QED BY <2>6, <3>2, <3>3 DEF Settled
    <2>8. \A p \in Parts : ~Behind(j, p)' BY <2>3, <2>4 DEF Behind
    <2>9. \A i \in Jobs \ {j} : job'[i] = job[i] BY <2>2 DEF Others
    <2> QED BY <2>2, <2>6, <2>7, <2>8, <2>9 DEF KeptInv, Behind
  <1>6. ASSUME NEW j \in Jobs, ApplyEffect(j) PROVE KeptInv'
    <2> DEFINE p == Item(job[j].plan)
    <2>1. job[j] \in JobType BY DEF TypeOK
    <2>2. /\ job[j].pc = "apply" /\ Others(j) /\ calm' = calm
          /\ unread' = unread /\ backups' = backups /\ (Within(j, p) \/ Ended(j, p))
      BY <1>6, SMTT(30) DEF ApplyEffect, history
    <2>3. job'[j].pc \in {"apply", "done"}
      BY <2>1, <2>2, IdleFact DEF Within, Ended, Goes, JobType
    <2>4. Remaining' \in Nat /\ Remaining' <= Remaining
      <3>1. j \notin TargetAhead' /\ j \notin SourceAhead'
        BY <2>3 DEF TargetAhead, SourceAhead
      <3> QED BY <2>2, <3>1, Fewer
    <2>5. \A q \in Parts : Settled(q)'
      <3>1. \A q \in Parts : Settled(q) BY <2>2 DEF KeptInv
      <3> QED BY <2>2, <2>4, <3>1, StaysKept DEF Settled
    <2>6. \A q \in Parts : ~Behind(j, q)' BY <2>3 DEF Behind
    <2>7. \A i \in Jobs \ {j} : job'[i] = job[i] BY <2>2 DEF Others
    <2> QED BY <2>5, <2>6, <2>7 DEF KeptInv, Behind
  <1> QED BY <1>1, <1>2, <1>3, <1>4, <1>5, <1>6, NextFact

-----------------------------------------------------------------------------
(* A job that met no other *)

\* When an operation ends, the plan tells what became of every part.
LEMMA EndTold ==
    ASSUME IInv, NEW j \in Active \ met, job[j].pc = "apply", NEW p, p = Item(job[j].plan),
           Frame(j, p), NEW v \in {"SUCCESS", "FAILED"}, v = "SUCCESS" => Success(j, p)
    PROVE  TrueReport(j, [job[j].plan EXCEPT ![p] = v])
  <1> DEFINE plan == [job[j].plan EXCEPT ![p] = v]
  <1>1. j \in Jobs /\ TypeOK /\ JobsInv BY DEF Active, IInv
  <1>2. job[j].plan \in [Parts -> Statuses] BY <1>1 DEF TypeOK, JobType
  <1>3. /\ p \in Parts /\ job[j].plan[p] = "READY"
        /\ job[j].was => exact /\ Kind[p] = "script"
    BY <1>1, ItemNow
  <1>4. plan[p] = v /\ \A q \in Parts \ {p} : plan[q] = job[j].plan[q] BY <1>2, <1>3
  <1> HIDE DEF plan
  <1>5. /\ \A q \in Parts :
              /\ job[j].plan[q] = "SUCCESS" => Restored(j, q)
              /\ Untouched(j, q) => content[q] = calm.content[q]
        /\ (\A q \in Of("script") : job[j].plan[q] # "FAILED") =>
              IF job[j].was THEN calm.running ELSE running = calm.running
        /\ job[j].step = "start" /\ ~job[j].err => Holds(j, p)
    BY DEF IInv, SoloInv
  <1>6. ASSUME NEW q \in Parts
        PROVE  /\ plan[q] = "SUCCESS" =>
                    IF Kind[q] = "script" /\ ~exact THEN created'[j] = "whole"
                    ELSE content'[q] = IF Kind[q] = "list" THEN calm.content[q] + 1 ELSE job[j].bk[q]
               /\ plan[q] \notin {"SUCCESS", "FAILED"} => content'[q] = calm.content[q]
    <2>1. CASE q # p
      <3>1. plan[q] = job[j].plan[q] /\ content'[q] = content[q] BY <1>4, <2>1 DEF Frame
      <3>2. plan[q] \notin {"SUCCESS", "FAILED"} => Untouched(j, q)
        BY <2>1, <3>1 DEF Untouched
      <3>3. Kind[q] = "script" => Kind[p] # "script"
        BY <1>3, <2>1, RestoreAssumption DEF Of
      <3>4. Kind[q] = "script" => created' = created BY <3>3 DEF Frame
      <3> QED BY <1>5, <3>1, <3>2, <3>4 DEF Restored
    <2>2. CASE q = p
      <3>1. plan[q] = v BY <1>4, <2>2
      <3>2. Kind[p] # "script" => content[p] = calm.content[p] BY <1>3, <1>5 DEF Untouched
      <3>3. v = "SUCCESS" /\ Kind[p] = "script" /\ exact => content'[p] = job[j].bk[p]
        BY <1>5 DEF Success, Holds
      <3> QED BY <2>2, <3>1, <3>2, <3>3 DEF Success
    <2> QED BY <2>1, <2>2
  <1>7. ASSUME \A q \in Of("script") : plan[q] # "FAILED" PROVE running' = calm.running
    <2>1. \A q \in Of("script") : job[j].plan[q] # "FAILED" BY <1>3, <1>4, <1>7 DEF Of
    <2>2. IF job[j].was THEN calm.running ELSE running = calm.running BY <1>5, <2>1
    <2>3. /\ running \in BOOLEAN /\ running' \in BOOLEAN /\ calm.running \in BOOLEAN
          /\ job[j].was \in BOOLEAN
      BY <1>1 DEF TypeOK, JobType, Frame
    <2>4. CASE Kind[p] # "script" BY <1>3, <2>2, <2>4 DEF Frame
    <2>5. CASE Kind[p] = "script"
      <3>1. v = "SUCCESS" BY <1>3, <1>4, <1>7, <2>5 DEF Of
      <3> QED BY <1>3, <2>2, <2>3, <2>5, <3>1 DEF Success
    <2> QED BY <2>4, <2>5
  <1> QED BY <1>6, <1>7 DEF TrueReport, plan

\* A job that begins to apply its plan has changed nothing so far.
LEMMA SaveTold ==
    ASSUME IInv, NEW j \in Active \ met, SaveEffect(j)
    PROVE  TrueReport(j, job[j].plan)
  <1>1. content' = calm.content /\ running' = calm.running
    BY DEF IInv, SoloInv, SaveEffect, target
  <1>2. \A p \in Parts : job[j].plan[p] \notin {"SUCCESS", "FAILED"}
    BY DEF IInv, JobsInv, JobInv, SaveEffect, Active
  <1> QED BY <1>1, <1>2 DEF TrueReport

\* What is told of the plan is what the next operation finds.
LEMMA ToldToSolo ==
    ASSUME TypeOK, NEW j \in Jobs, NEW plan \in [Parts -> Statuses], Goes(j, plan),
           Todo(plan) # {}, TrueReport(j, plan), exact' = exact, calm' = calm
    PROVE  /\ job'[j].pc = "apply"
           /\ \A p \in Parts :
                 /\ job'[j].plan[p] = "SUCCESS" => Restored(j, p)'
                 /\ Untouched(j, p)' => content'[p] = calm'.content[p]
           /\ (\A p \in Of("script") : job'[j].plan[p] # "FAILED") =>
                 IF job'[j].was THEN calm'.running ELSE running' = calm'.running
           /\ job'[j].step # "start"
  <1>1. job[j] \in JobType BY DEF TypeOK
  <1>2. /\ job'[j].pc = "apply" /\ job'[j].plan = plan /\ job'[j].was = FALSE
        /\ job'[j].step = FirstStep(plan) /\ job'[j].bk = job[j].bk
    BY <1>1 DEF Goes, JobType
  <1>3. FirstStep(plan) # "start" BY DEF FirstStep
  <1>4. \A p \in Parts : job'[j].plan[p] = "SUCCESS" => Restored(j, p)'
    BY <1>2 DEF TrueReport, Restored
  <1>5. \A p \in Parts : Untouched(j, p)' => content'[p] = calm'.content[p]
    BY <1>2 DEF TrueReport, Untouched
  <1> QED BY <1>2, <1>3, <1>4, <1>5 DEF TrueReport

\* While no command begins, a job that met no other stays alone.
LEMMA StaysSolo ==
    ASSUME SoloInv, NEW j \in Jobs, j \in Active, Others(j), met' = met,
           NEW i \in Active' \ met'
    PROVE  i = j /\ j \in Active \ met /\ Active' = {j}
  <1>1. \A k \in Jobs \ {j} : k \in Active' => k \in Active BY DEF Others, Active
  <1>2. i \in Jobs /\ i \in Active BY <1>1 DEF Active
  <1>3. Active = {i} BY <1>2 DEF SoloInv
  <1> QED BY <1>1, <1>2, <1>3 DEF Active

LEMMA SoloStep ==
    ASSUME IInv, [Next]_vars
    PROVE  SoloInv'
  <1>0. TypeOK /\ JobsInv /\ ListsInv /\ KeptInv /\ SoloInv BY DEF IInv
  <1>1. CASE UNCHANGED vars
    BY <1>0, <1>1 DEF SoloInv, Restored, Untouched, Holds, Active, vars, target, history
  <1>2. ASSUME NEW j \in Jobs, BeginEffect(j) PROVE SoloInv'
    <2>1. CASE Quiet
      <3>1. Active' \subseteq {j}
        BY <1>2, <2>1 DEF BeginEffect, Others, Quiet, Active
      <3>2. job'[j].pc # "apply" /\ content' = calm'.content /\ running' = calm'.running
        BY <1>2, <2>1 DEF BeginEffect, Same, target
      <3> QED BY <3>1, <3>2 DEF SoloInv
    <2>2. CASE ~Quiet
      <3>1. Active' \subseteq met' BY <1>2, <2>2 DEF BeginEffect, Others, Active
      <3> QED BY <3>1 DEF SoloInv
    <2> QED BY <2>1, <2>2
  <1>3. ASSUME NEW j \in Jobs, CaptureEffect(j) \/ PreviewEffect(j) \/ FailsEffect(j)
        PROVE  SoloInv'
    <2>1. job[j] \in JobType BY <1>0 DEF TypeOK
    <2>2. /\ j \in Active /\ Others(j) /\ met' = met /\ calm' = calm
          /\ content' = content /\ running' = running /\ job[j].pc # "apply"
      BY <1>3 DEF CaptureEffect, PreviewEffect, FailsEffect, Active, target, history, Same
    <2>3. job'[j].pc # "apply"
      BY <1>3, <2>1, IdleFact DEF CaptureEffect, PreviewEffect, FailsEffect, JobType
    <2>4. ASSUME NEW i \in Active' \ met'
          PROVE  i = j /\ Active' = {j} /\ content' = calm'.content /\ running' = calm'.running
      <3>1. i = j /\ j \in Active \ met /\ Active' = {j} BY <1>0, <2>2, StaysSolo
      <3> QED BY <1>0, <2>2, <3>1 DEF SoloInv
    <2> QED BY <2>3, <2>4 DEF SoloInv
  <1>4. ASSUME NEW j \in Jobs, SaveEffect(j) PROVE SoloInv'
    <2>1. job[j] \in JobType BY <1>0 DEF TypeOK
    <2>2. /\ j \in Active /\ Others(j) /\ met' = met /\ calm' = calm /\ exact' = exact
          /\ content' = content /\ running' = running /\ job[j].pc = "save"
      BY <1>4 DEF SaveEffect, Active, target, history
    <2> SUFFICES ASSUME j \in Active \ met, Active' = {j}
                 PROVE  SoloInv'
      BY <1>0, <2>2, StaysSolo DEF SoloInv
    <2>3. content' = calm'.content /\ running' = calm'.running
      BY <1>0, <2>2 DEF SoloInv
    <2>4. CASE job'[j].pc # "apply" BY <2>3, <2>4 DEF SoloInv
    <2>5. CASE job'[j].pc = "apply"
      <3>1. job[j].of # "source" BY <1>4, <2>1, <2>5 DEF SaveEffect, JobType
      <3>2. Goes(j, job[j].plan) BY <1>4, <3>1 DEF SaveEffect
      <3>3. Todo(job[j].plan) # {} BY <2>1, <2>5, <3>2, IdleFact DEF Goes, JobType
      <3>4. job[j].plan \in [Parts -> Statuses] BY <2>1 DEF JobType
      <3>5. TrueReport(j, job[j].plan) BY <1>4, SaveTold
      <3>6. /\ \A p \in Parts :
                 /\ job'[j].plan[p] = "SUCCESS" => Restored(j, p)'
                 /\ Untouched(j, p)' => content'[p] = calm'.content[p]
            /\ (\A p \in Of("script") : job'[j].plan[p] # "FAILED") =>
                 IF job'[j].was THEN calm'.running ELSE running' = calm'.running
            /\ job'[j].step # "start"
        BY <1>0, <2>2, <3>2, <3>3, <3>4, <3>5, ToldToSolo
      <3> QED BY <2>5, <3>6 DEF SoloInv
    <2> QED BY <2>4, <2>5
  <1>5. ASSUME NEW j \in Jobs, ApplyEffect(j) PROVE SoloInv'
    <2> DEFINE p == Item(job[j].plan)
    <2>1. job[j] \in JobType BY <1>0 DEF TypeOK
    <2>2. /\ j \in Active /\ Others(j) /\ met' = met /\ calm' = calm /\ exact' = exact
          /\ job[j].pc = "apply" /\ Frame(j, p) /\ (Within(j, p) \/ Ended(j, p))
      BY <1>5 DEF ApplyEffect, Active, history
    <2> SUFFICES ASSUME j \in Active \ met, Active' = {j}
                 PROVE  SoloInv'
      BY <1>0, <2>2, StaysSolo DEF SoloInv
    <2>3. p \in Parts /\ job[j].plan[p] = "READY" BY <1>0, <2>2, ItemNow
    <2>4. CASE Within(j, p)
      <3>1. Kind[p] = "script" BY <2>4 DEF Within
      <3>2. PICK step \in Steps, was \in BOOLEAN, err \in BOOLEAN :
              /\ job'[j] = [job[j] EXCEPT !.step = step, !.was = was, !.err = err]
              /\ was => exact /\ (job[j].was \/ running)
              /\ ~was => ~job[j].was /\ running' = running
              /\ step \in {"stop", "start"} => was
              /\ step = "start" /\ ~err => content' = content /\ content[p] = job[j].bk[p]
        BY <2>4 DEF Within
      <3>3. /\ job'[j].pc = "apply" /\ job'[j].plan = job[j].plan /\ job'[j].bk = job[j].bk
            /\ job'[j].step = step /\ job'[j].was = was /\ job'[j].err = err
        BY <2>1, <2>2, <3>2 DEF JobType
      <3>4. Item(job'[j].plan) = p BY <3>3
      <3>5. /\ \A q \in Parts :
                  /\ job[j].plan[q] = "SUCCESS" => Restored(j, q)
                  /\ Untouched(j, q) => content[q] = calm.content[q]
            /\ (\A q \in Of("script") : job[j].plan[q] # "FAILED") =>
                  IF job[j].was THEN calm.running ELSE running = calm.running
        BY <1>0, <2>2 DEF SoloInv
      <3> HIDE DEF p
      <3>6. ASSUME NEW q \in Parts
            PROVE  /\ job'[j].plan[q] = "SUCCESS" => Restored(j, q)'
                   /\ Untouched(j, q)' => content'[q] = calm'.content[q]
        <4>1. CASE q = p
          BY <2>3, <3>1, <3>3, <3>4, <4>1 DEF Untouched
        <4>2. CASE q # p
          <5>1. Kind[q] # "script" BY <2>3, <3>1, <4>2, RestoreAssumption DEF Of
          <5>2. content'[q] = content[q] BY <2>2, <4>2 DEF Frame
          <5> QED BY <2>2, <3>3, <3>5, <5>1, <5>2 DEF Restored, Untouched
        <4> QED BY <4>1, <4>2
      <3>7. (\A q \in Of("script") : job'[j].plan[q] # "FAILED") =>
                 IF job'[j].was THEN calm'.running ELSE running' = calm'.running
        <4>1. running \in BOOLEAN /\ calm.running \in BOOLEAN BY <1>0 DEF TypeOK
        <4> QED BY <2>2, <3>2, <3>3, <3>5, <4>1
      <3>8. job'[j].step = "start" /\ ~job'[j].err => Holds(j, Item(job[j].plan))'
        <4>1. Holds(j, Item(job[j].plan))' = IF exact'
                THEN content'[Item(job'[j].plan)] = job'[j].bk[Item(job'[j].plan)]
                ELSE created'[j] = "whole"
          BY DEF Holds
        <4>2. step = "start" => exact BY <3>2
        <4>3. step = "start" /\ ~err => content'[p] = job'[j].bk[p] BY <3>2, <3>3
        <4> QED BY <2>2, <3>3, <3>4, <4>1, <4>2, <4>3
      <3> QED BY <3>3, <3>6, <3>7, <3>8 DEF SoloInv
    <2>5. CASE Ended(j, p)
      <3>1. PICK v \in {"SUCCESS", "FAILED"} :
              Goes(j, [job[j].plan EXCEPT ![p] = v]) /\ (v = "SUCCESS" => Success(j, p))
        BY <2>5 DEF Ended
      <3> DEFINE plan == [job[j].plan EXCEPT ![p] = v]
      <3>2. TrueReport(j, plan) BY <2>2, <3>1, EndTold
      <3>3. plan \in [Parts -> Statuses]
        <4>1. job[j].plan \in [Parts -> Statuses] BY <2>1 DEF JobType
        <4> HIDE DEF p
        <4> QED BY <4>1 DEF Statuses
      <3>4. Goes(j, plan) BY <3>1
      <3> HIDE DEF plan, p
      <3>5. CASE Todo(plan) = {}
        <4>1. job'[j].pc = "done" BY <3>4, <3>5 DEF Goes, Idle
        <4> QED BY <4>1 DEF SoloInv, Active
      <3>6. CASE Todo(plan) # {}
        <4>1. /\ job'[j].pc = "apply"
              /\ \A q \in Parts :
                   /\ job'[j].plan[q] = "SUCCESS" => Restored(j, q)'
                   /\ Untouched(j, q)' => content'[q] = calm'.content[q]
              /\ (\A q \in Of("script") : job'[j].plan[q] # "FAILED") =>
                   IF job'[j].was THEN calm'.running ELSE running' = calm'.running
              /\ job'[j].step # "start"
          BY <1>0, <2>2, <3>2, <3>3, <3>4, <3>6, ToldToSolo
        <4> QED BY <4>1 DEF SoloInv
      <3> QED BY <3>5, <3>6
    <2> QED BY <2>2, <2>4, <2>5
  <1> QED BY <1>0, <1>1, <1>2, <1>3, <1>4, <1>5, NextFact

-----------------------------------------------------------------------------
(* The theorems *)

LEMMA InitFact == Init => IInv
  <1> SUFFICES ASSUME Init PROVE IInv
    OBVIOUS
  <1> USE DEF Init
  <1>1. TypeOK
    <2>1. Nothing \in Captured BY DEF Nothing, Captured
    <2>2. backups \in Seq(BackupType) /\ Len(backups) = MaxBackups
      <3>1. [of |-> "source", content |-> Nothing] \in BackupType BY <2>1 DEF BackupType
      <3> QED BY <3>1, RestoreAssumption
    <2>3. OldContent \in Contents BY RestoreAssumption DEF Contents, Values
    <2>4. job \in [Jobs -> JobType] BY IdleFact
    <2>5. created \in [Jobs -> {"none", "empty", "half", "whole"}] OBVIOUS
    <2>6. faults \in 0..MaxFaults BY RestoreAssumption
    <2>7. content \in Contents /\ calm \in [content : Contents, running : BOOLEAN] BY <2>3
    <2>8. running \in BOOLEAN /\ exact \in BOOLEAN /\ unread \subseteq Parts /\ met \subseteq Jobs
      OBVIOUS
    <2> QED BY <2>2, <2>4, <2>5, <2>6, <2>7, <2>8, Zenon DEF TypeOK
  <1>2. /\ Active = {}
        /\ \A j \in Jobs : job[j] = Idle
        /\ content = calm.content
    BY DEF Active, Idle
  <1>3. JobsInv
    <2>1. \A p \in Parts : NoPlan[p] = "ABSENT" BY DEF NoPlan
    <2> QED BY <1>2, <2>1 DEF JobsInv, JobInv, Idle
  <1>4. ListsInv
    <2>1. OldContent \in [Parts -> Nat] BY RestoreAssumption
    <2> QED BY <2>1 DEF ListsInv, Of
  <1>5. KeptInv BY <1>2 DEF KeptInv, Behind, Idle
  <1>6. SoloInv BY <1>2 DEF SoloInv
  <1> QED BY <1>1, <1>3, <1>4, <1>5, <1>6 DEF IInv

\* The inductive invariant holds in every reachable state (backup.py 103-193,
\* restore.py 245-311, migration.py 31-43).
THEOREM Invariance == Spec => []IInv
  <1>1. IInv /\ [Next]_vars => IInv'
    BY TypeStep, JobsStep, ListsStep, KeptStep, SoloStep DEF IInv
  <1> QED BY <1>1, InitFact, PTL DEF Spec

\* Every variable keeps its type: the repository never holds more than its
\* limit, and no restore writes what is in no backup.
THEOREM TypeCorrect == Spec => []TypeOK
  <1>1. IInv => TypeOK BY DEF IInv
  <1> QED BY <1>1, Invariance, PTL

\* Whatever fails and overlaps: what a restore or a migration overwrote is in a
\* backup of the target unless it could not be read (restore.py 253-270).
THEOREM NothingLost == Spec => []TargetRecoverable
  <1>1. IInv => TargetRecoverable
    BY DEF IInv, KeptInv, Settled, Kept, TargetRecoverable
  <1> QED BY <1>1, Invariance, PTL

\* The report of a restore that met no other job is true of every part, and the
\* network is never touched (restore.py 74-125, 270-309).
THEOREM ReportsAreTrue == Spec => ReportTrue
  <1>1. ASSUME IInv, [Next]_vars PROVE [ReportStep]_vars
    <2>0. TypeOK /\ JobsInv /\ ListsInv BY <1>1 DEF IInv
    <2>1. CASE UNCHANGED vars BY <2>1
    <2>2. ASSUME NEW j \in Jobs,
                 \/ BeginEffect(j) \/ CaptureEffect(j) \/ FailsEffect(j) \/ PreviewEffect(j)
                 \/ SaveEffect(j) /\ job[j].of = "source"
          PROVE  ReportStep
      <3>1. content' = content /\ Others(j) /\ job'[j].pc # "done"
        <4>1. job[j] \in JobType BY <2>0 DEF TypeOK
        <4>2. CASE BeginEffect(j) BY <4>2 DEF BeginEffect, Same, target
        <4>3. CASE CaptureEffect(j) BY <4>1, <4>3 DEF CaptureEffect, target, JobType
        <4>4. CASE FailsEffect(j) BY <4>4 DEF FailsEffect, target, Idle
        <4>5. CASE PreviewEffect(j) BY <4>1, <4>5 DEF PreviewEffect, Same, target, JobType
        <4>6. CASE SaveEffect(j) /\ job[j].of = "source"
          BY <4>1, <4>6 DEF SaveEffect, target, JobType
        <4> QED BY <2>2, <4>2, <4>3, <4>4, <4>5, <4>6
      <3> QED BY <3>1 DEF ReportStep, Reports, Others
    <2>3. ASSUME NEW j \in Jobs, SaveEffect(j), job[j].of # "source" PROVE ReportStep
      <3>1. content' = content /\ Others(j) /\ j \in Active /\ Goes(j, job[j].plan)
        BY <2>3 DEF SaveEffect, target, Active
      <3>2. job'[j].plan = job[j].plan
        <4>1. job[j] \in JobType BY <2>0 DEF TypeOK
        <4> QED BY <3>1, <4>1, IdleFact DEF Goes, JobType
      <3>3. j \notin met => TrueReport(j, job'[j].plan) BY <1>1, <2>3, <3>1, <3>2, SaveTold
      <3> QED BY <3>1, <3>3 DEF ReportStep, Reports, Others
    <2>4. ASSUME NEW j \in Jobs, ApplyEffect(j) PROVE ReportStep
      <3> DEFINE p == Item(job[j].plan)
      <3>1. /\ job[j].pc = "apply" /\ j \in Active /\ Others(j) /\ Frame(j, p)
            /\ Within(j, p) \/ Ended(j, p)
        BY <2>4 DEF ApplyEffect, Active
      <3>2. job[j] \in JobType BY <2>0 DEF TypeOK
      <3>3. \A q \in Network : content'[q] = content[q]
        <4>1. p \notin Network BY <2>0, <3>1, ItemNow
        <4>2. Network \subseteq Parts BY RestoreAssumption DEF Of
        <4> HIDE DEF p
        <4> QED BY <3>1, <4>1, <4>2 DEF Frame
      <3>4. ASSUME j \notin met, job'[j].pc = "done" PROVE TrueReport(j, job'[j].plan)
        <4>1. ~Within(j, p) BY <3>1, <3>2, <3>4, Zenon DEF Within, JobType
        <4>2. PICK v \in {"SUCCESS", "FAILED"} :
                Goes(j, [job[j].plan EXCEPT ![p] = v]) /\ (v = "SUCCESS" => Success(j, p))
          BY <3>1, <4>1 DEF Ended
        <4> DEFINE plan == [job[j].plan EXCEPT ![p] = v]
        <4>3. TrueReport(j, plan) BY <1>1, <3>1, <3>4, <4>2, EndTold
        <4>4. Goes(j, plan) BY <4>2
        <4> HIDE DEF plan, p
        <4>5. job'[j].plan = plan BY <3>2, <4>4, IdleFact DEF Goes, JobType
        <4> QED BY <4>3, <4>5
      <3> QED BY <3>1, <3>3, <3>4 DEF ReportStep, Reports, Others
    <2> QED BY <1>1, <2>0, <2>1, <2>2, <2>3, <2>4, NextFact
  <1> QED BY <1>1, Invariance, PTL DEF Spec, ReportTrue
=============================================================================
