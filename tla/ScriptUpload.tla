---------------------------- MODULE ScriptUpload ----------------------------
(***************************************************************************)
(* ScriptStudio and BackupRepository around one Shelly script: uploads     *)
(* that read and back up the old code, stop the script, write the new code *)
(* chunk by chunk, read it back and start the script again, while other    *)
(* uploads and commands work on the same script.  Every call may fail, be  *)
(* executed without its caller knowing, or be executed later.              *)
(***************************************************************************)
EXTENDS Integers, Sequences, FiniteSets, SequencesExt

CONSTANTS
    Jobs,        \* the commands given, each once
    Chars, Size, \* characters and the bytes that UTF-8 takes for each
    Texts,       \* the codes that are uploaded
    OldCode,     \* what the script holds at first
    ChunkLimit,  \* PUT_CHUNK_BYTES
    ReadLimit,   \* bytes that the device returns for one Script.GetCode
    MaxReads,    \* bound: the 256 rounds of async_read_script_code
    MaxBackups,
    Earlier,     \* stands for the ids of the backups of earlier days, of other scripts
    MaxLate      \* bound: requests whose fate is open after their caller gave up

ASSUME UploadAssumption ==
    /\ Size \in [Chars -> 1..4] /\ ChunkLimit \in Nat /\ ReadLimit \in Nat
    /\ ChunkLimit >= 4 /\ ReadLimit >= 4
    /\ Texts \subseteq Seq(Chars) \ {<< >>} /\ OldCode \in Seq(Chars)
    /\ MaxReads \in Nat \ {0} /\ MaxLate \in Nat
    /\ IsFiniteSet(Jobs) /\ MaxBackups \in Nat /\ Cardinality(Jobs) <= MaxBackups
    /\ Earlier \notin Jobs

VARIABLES
    code, running,  \* the script on the device
    late,           \* requests that the device may still execute
    backups, disk,  \* the repository in memory and in Home Assistant's storage
    saving,         \* the saves under way, in the order in which they were asked for
    job,
    calm,           \* history: code and running when nothing was under way
    stray,          \* history: since then the script was started or stopped otherwise
    spoilt,         \* history: since then an upload that began to write failed
    discarded,      \* history: since then a backup was deleted
    met             \* history: jobs that a fault or another job came across

device == <<code, running, late>>
repository == <<backups, disk, saving>>
history == <<calm, stray, spoilt, discarded, met>>
vars == <<device, repository, job, history>>

Ended == {"ok", "failed"}
Idle == [does |-> "nothing", pc |-> "idle", text |-> << >>, got |-> << >>, reads |-> 0,
         todo |-> << >>, was |-> FALSE, err |-> FALSE]
Backups == [id : Jobs \cup {Earlier}, code : Seq(Chars)]
Saves == [by : Jobs, list : Seq(Backups)]
Phases == {"idle", "read", "save", "status", "stop", "put", "verify", "start"} \cup Ended
JobType == [does : {"nothing", "upload", "start", "stop", "restart", "delete"}, pc : Phases,
            text : Seq(Chars), got : Seq(Chars), reads : 0..MaxReads,
            todo : Seq(Seq(Chars)), was : BOOLEAN, err : BOOLEAN]
Commands == [op : {"put"}, text : Seq(Chars), append : BOOLEAN] \cup [op : {"stop", "start"}]

TypeOK ==
    /\ code \in Seq(Chars) /\ running \in BOOLEAN /\ late \subseteq Commands
    /\ backups \in Seq(Backups) /\ disk \in Seq(Backups)
    /\ Len(backups) <= MaxBackups /\ Len(disk) <= MaxBackups
    /\ saving \in Seq(Saves) /\ \A k \in DOMAIN saving : Len(saving[k].list) <= MaxBackups
    /\ job \in [Jobs -> JobType]
    /\ calm \in [code : Seq(Chars), running : BOOLEAN]
    /\ stray \in BOOLEAN /\ spoilt \in BOOLEAN /\ discarded \in BOOLEAN
    /\ met \subseteq Jobs

-----------------------------------------------------------------------------
\* The bytes of a text: each character has as many as UTF-8 takes for it.
BytesOf(text) == {at \in (1..Len(text)) \X (1..4) : at[2] <= Size[text[at[1]]]}
Bytes(text) == Cardinality(BytesOf(text))

\* Careless forms of definitions below: mistakes the properties must notice.
FullOnly(size, c) == size >= ChunkLimit
AddedFirst(b) == SubSeq(Append(backups, b), 1, MaxBackups)
AddedAll(b) == Append(backups, b)
NeverAgain(j) == FALSE
ByLength(j, text) == Len(text) >= Len(job[j].text)

-----------------------------------------------------------------------------
\* _utf8_chunks: characters are collected until the next one would exceed the limit.
Overflows(size, c) == size + Size[c] > ChunkLimit
Empty == [done |-> << >>, current |-> << >>, size |-> 0]
Collect(acc, c) ==
    IF acc.current # << >> /\ Overflows(acc.size, c)
    THEN [done |-> Append(acc.done, acc.current), current |-> <<c>>, size |-> Size[c]]
    ELSE [done |-> acc.done, current |-> Append(acc.current, c), size |-> acc.size + Size[c]]
Chunks(text) ==
    LET all[n \in 0..Len(text)] == IF n = 0 THEN Empty ELSE Collect(all[n - 1], text[n])
    IN  Append(all[Len(text)].done, all[Len(text)].current)

\* What Script.GetCode returns from an offset in bytes: whole characters.
From(text, offset) ==
    SubSeq(text, 1 + Cardinality({i \in DOMAIN text : Bytes(SubSeq(text, 1, i)) <= offset}),
           Len(text))
Piece(text, offset) ==
    LET rest == From(text, offset)
    IN  SubSeq(rest, 1, Cardinality({i \in DOMAIN rest : Bytes(SubSeq(rest, 1, i)) <= ReadLimit}))

\* BackupRepository.async_add: the newest MAX_BACKUPS are kept.
Added(b) ==
    LET all == Append(backups, b)
    IN  SubSeq(all, 1 + (IF Len(all) > MaxBackups THEN Len(all) - MaxBackups ELSE 0), Len(all))

-----------------------------------------------------------------------------
\* The device executes a command; a chunk that exceeds the documented size is refused.
Accepts(cmd) == cmd.op = "put" => Bytes(cmd.text) <= ChunkLimit
Execute(cmd) ==
    CASE cmd.op = "put" -> code' = (IF cmd.append THEN code \o cmd.text ELSE cmd.text)
                           /\ UNCHANGED running
      [] OTHER -> running' = (cmd.op = "start") /\ UNCHANGED code

Request(j) ==
    IF job[j].pc = "put"
    THEN [op |-> "put", text |-> Head(job[j].todo), append |-> job[j].todo # Chunks(job[j].text)]
    ELSE [op |-> job[j].pc]

Active == {j \in Jobs : job[j].pc \notin {"idle"} \cup Ended}
Quiet == Active = {} /\ late = {}

\* History of a step: what is since the last calm begins when that ends.
Remember(isStray, isSpoilt, isDiscard, hit) ==
    /\ calm' = IF Quiet THEN [code |-> code, running |-> running] ELSE calm
    /\ stray' = ((~Quiet /\ stray) \/ isStray)
    /\ spoilt' = ((~Quiet /\ spoilt) \/ isSpoilt)
    /\ discarded' = ((~Quiet /\ discarded) \/ isDiscard)
    /\ met' = met \cup hit

Init ==
    /\ code = OldCode /\ running \in BOOLEAN /\ late = {}
    /\ backups = [k \in 1..MaxBackups |-> [id |-> Earlier, code |-> << >>]] /\ disk = backups
    /\ saving = << >>
    /\ job = [j \in Jobs |-> Idle]
    /\ calm = [code |-> code, running |-> running]
    /\ stray = FALSE /\ spoilt = FALSE /\ discarded = FALSE /\ met = {}

-----------------------------------------------------------------------------
Becomes(j, new) == job' = [job EXCEPT ![j] = new]

Begin(j, new, isStray) ==
    /\ job[j].pc = "idle"
    /\ Becomes(j, new)
    /\ Remember(isStray, FALSE, FALSE,
                IF Quiet THEN {} ELSE Active \cup {j})
    /\ UNCHANGED <<device, repository>>

\* async_upload, async_start, async_stop and async_restart up to the first call.
Upload(j, text) ==
    /\ text # << >>
    /\ Begin(j, [Idle EXCEPT !.does = "upload", !.pc = "read", !.text = text,
                             !.todo = Chunks(text)], FALSE)

Control(j, does) ==
    Begin(j, [Idle EXCEPT !.does = does, !.pc = IF does = "start" THEN "start" ELSE "stop"], TRUE)

\* Home Assistant's store is asked to save the list as it is now.
Asks(j) == saving' = Append(saving, [by |-> j, list |-> backups'])

\* BackupRepository.async_delete: ids are unique, and an unknown one is an error.
Delete(j, id) ==
    /\ job[j].pc = "idle"
    /\ \E k \in DOMAIN backups : backups[k].id = id /\ backups' = RemoveAt(backups, k)
    /\ Asks(j)
    /\ Becomes(j, [Idle EXCEPT !.does = "delete", !.pc = "save"])
    /\ Remember(FALSE, FALSE, TRUE, {})
    /\ UNCHANGED <<device, disk>>

\* The saves end in the order in which they were asked for.  The store writes the
\* list that it was given, or one that a later save has given it meanwhile, whose save
\* has then nothing left to write.
Saved(j) ==
    /\ job[j].pc = "save"
    /\ saving # << >> /\ Head(saving).by = j /\ saving' = Tail(saving)
    /\ \E k \in DOMAIN saving : disk' = saving[k].list
    /\ Becomes(j, [job[j] EXCEPT !.pc = IF job[j].does = "delete" THEN "ok" ELSE "status"])
    /\ Remember(FALSE, FALSE, FALSE, {})
    /\ UNCHANGED <<device, backups>>

-----------------------------------------------------------------------------
\* The finally clause: a script that was stopped is started, whatever happened.
MustStart(j) == job[j].was
Finally(j, err) ==
    Becomes(j, [job[j] EXCEPT !.err = err,
                              !.pc = IF MustStart(j) THEN "start"
                                     ELSE IF err THEN "failed" ELSE "ok"])

\* async_read_script_code, one round: the code before the upload, or its verification.
Matches(j, text) == text = job[j].text
Read(j) ==
    LET piece == Piece(code, Bytes(job[j].got))
        got == job[j].got \o piece
        left == From(code, Bytes(got)) # << >>
    IN  /\ job[j].pc \in {"read", "verify"}
        /\ UNCHANGED <<device, disk>>
        /\ \/ /\ left /\ job[j].reads + 1 < MaxReads
              /\ Becomes(j, [job[j] EXCEPT !.got = got, !.reads = @ + 1])
              /\ Remember(FALSE, FALSE, FALSE, {}) /\ UNCHANGED <<backups, saving>>
           \/ /\ left /\ job[j].reads + 1 = MaxReads
              /\ IF job[j].pc = "verify" THEN Finally(j, TRUE)
                 ELSE Becomes(j, [job[j] EXCEPT !.pc = "failed"])
              /\ Remember(FALSE, job[j].pc = "verify", FALSE, {}) /\ UNCHANGED <<backups, saving>>
           \/ /\ ~left /\ job[j].pc = "read"
              /\ backups' = Added([id |-> j, code |-> got]) /\ Asks(j)
              /\ Becomes(j, [job[j] EXCEPT !.pc = "save", !.got = << >>, !.reads = 0])
              /\ Remember(FALSE, FALSE, FALSE, {})
           \/ /\ ~left /\ job[j].pc = "verify"
              /\ Finally(j, ~Matches(j, got))
              /\ Remember(FALSE, ~Matches(j, got), FALSE, {})
              /\ UNCHANGED <<backups, saving>>

\* Script.GetStatus decides whether the script is stopped and started.
Status(j) ==
    /\ job[j].pc = "status"
    /\ Becomes(j, [job[j] EXCEPT !.was = running, !.pc = IF running THEN "stop" ELSE "put"])
    /\ Remember(FALSE, FALSE, FALSE, {})
    /\ UNCHANGED <<device, repository>>

\* A call that changes the script is executed and answered.
Answered(j) ==
    /\ job[j].pc \in {"stop", "put", "start"}
    /\ Accepts(Request(j)) /\ Execute(Request(j))
    /\ CASE job[j].pc = "stop" ->
              Becomes(j, [job[j] EXCEPT !.pc = CASE job[j].does = "upload" -> "put"
                                                 [] job[j].does = "restart" -> "start"
                                                 [] OTHER -> "ok"])
         [] job[j].pc = "put" ->
              Becomes(j, [job[j] EXCEPT !.todo = Tail(@),
                                        !.pc = IF Len(job[j].todo) = 1 THEN "verify" ELSE "put"])
         [] OTHER -> Becomes(j, [job[j] EXCEPT !.pc = IF job[j].err THEN "failed" ELSE "ok"])
    /\ Remember(FALSE, FALSE, FALSE, {})
    /\ UNCHANGED <<late, repository>>

\* A call fails, and the request may be executed all the same, now or later; or
\* the device refuses a chunk, which is no fault of the connection.
Refused(j) == job[j].pc = "put" /\ ~Accepts(Request(j))
CallFails(j) ==
    /\ job[j].pc \in {"read", "status", "stop", "put", "verify", "start"}
    /\ IF job[j].pc \in {"put", "verify"} THEN Finally(j, TRUE)
       ELSE Becomes(j, [job[j] EXCEPT !.pc = "failed"])
    /\ Remember(job[j].pc \in {"stop", "start"}, job[j].pc \in {"put", "verify"}, FALSE,
                IF Refused(j) THEN {} ELSE {j})
    /\ UNCHANGED <<code, running, repository>>
    /\ \/ UNCHANGED late
       \/ /\ job[j].pc \in {"stop", "put", "start"} /\ Accepts(Request(j))
          /\ Cardinality(late) < MaxLate
          /\ late' = late \cup {Request(j)}

LateExecutes(cmd) ==
    /\ cmd \in late /\ late' = late \ {cmd}
    /\ Execute(cmd)
    /\ Remember(FALSE, FALSE, FALSE, Active)
    /\ UNCHANGED <<repository, job>>

LateLost(cmd) ==
    /\ cmd \in late /\ late' = late \ {cmd}
    /\ Remember(FALSE, FALSE, FALSE, {})
    /\ UNCHANGED <<code, running, repository, job>>

\* Home Assistant stops: what was under way is gone, and a save under way may have
\* been written; the repository is loaded from storage.
Restart ==
    /\ Active # {}
    /\ disk' \in {disk} \cup {saving[k].list : k \in DOMAIN saving}
    /\ backups' = disk' /\ saving' = << >>
    /\ job' = [j \in Jobs |-> IF j \in Active THEN [job[j] EXCEPT !.pc = "failed"] ELSE job[j]]
    /\ Remember(TRUE, TRUE, FALSE, Active)
    /\ UNCHANGED device

Next ==
    \/ \E j \in Jobs :
          \/ \E text \in Texts : Upload(j, text)
          \/ \E does \in {"start", "stop", "restart"} : Control(j, does)
          \/ \E id \in Jobs : Delete(j, id)
          \/ Saved(j) \/ Read(j) \/ Status(j) \/ Answered(j) \/ CallFails(j)
    \/ \E cmd \in late : LateExecutes(cmd) \/ LateLost(cmd)
    \/ Restart

Spec == Init /\ [][Next]_vars

-----------------------------------------------------------------------------
(* The inductive invariant, with the parts that make it one. *)

\* What a job carries fits its phase: only an upload reads, writes and verifies, and
\* one that stopped the script is going to start it.
JobInv(j) ==
    LET r == job[j] IN
    /\ r.pc = "idle" => r = Idle
    /\ r.pc \in {"read", "status", "put", "verify"} => r.does = "upload"
    /\ r.pc = "save" => r.does \in {"upload", "delete"}
    /\ r.does = "delete" => r.pc \in {"save", "ok", "failed"}
    /\ r.does = "upload" =>
          /\ r.pc \in {"stop", "start"} => r.was
          /\ r.pc \in {"read", "save", "status", "stop", "put"} => r.todo # << >>
          /\ r.pc \in {"save", "status", "stop", "put"} => r.got = << >> /\ r.reads = 0
    /\ r.was => r.does = "upload" /\ r.pc \notin {"idle", "read", "save", "status"}
JobsInv == \A j \in Jobs : JobInv(j)

\* A script that stands still although it ran is going to be started.
RunInv ==
    ~stray =>
        /\ \A cmd \in late : cmd.op = "put"
        /\ \A j \in Active : job[j].does \in {"upload", "delete"} /\ (job[j].was => calm.running)
        /\ running => calm.running
        /\ calm.running /\ ~running =>
              \E j \in Jobs : job[j].was /\ job[j].pc \in {"put", "verify", "start"}

\* The uploads that may still add a backup do not push out the one that holds the code.
Ahead == {j \in Jobs : job[j].pc \in {"idle", "read"}}
Kept(s) ==
    \E k \in DOMAIN s :
        s[k].code = calm.code /\ Len(s) - k + Cardinality(Ahead) < MaxBackups
Safe == Kept(backups) /\ Kept(disk)

\* Nobody can overwrite the code before it is stored, and what is read until then is it.
JobSafe(j) ==
    LET r == job[j] IN
    /\ r.pc = "read" => Safe \/ (code = calm.code /\ IsPrefix(r.got, code))
    /\ r.pc = "save" /\ r.does = "upload" => Kept(backups)
    /\ r.pc \in {"status", "stop", "put", "verify", "start"} /\ r.does = "upload" => Safe

\* Each save under way is that of one job, which waits for it; whichever is written,
\* the code stays stored.
SavingInv ==
    \A k \in DOMAIN saving :
        /\ job[saving[k].by].pc = "save"
        /\ \A l \in DOMAIN saving : saving[l].by = saving[k].by => l = k
        /\ ~discarded => Kept(saving[k].list)
SafeInv ==
    ~discarded =>
        /\ \A j \in Jobs : JobSafe(j)
        /\ (\E cmd \in late : cmd.op = "put") => Safe
        /\ code # calm.code => Safe

\* What is not whole is being written, or is still to be found out by a verification.
Uploaded == {job[j].text : j \in {i \in Jobs : job[i].does = "upload"}}
MixInv ==
    ~spoilt =>
        /\ \A cmd \in late : cmd.op # "put"
        /\ \/ code \in {calm.code} \cup Uploaded
           \/ \E j \in Jobs : job[j].pc = "put"
           \/ \E j \in Jobs : job[j].pc = "verify" /\ IsPrefix(job[j].got, code)

\* The parts are what follows the first n characters of a text, each up to the next cut.
CutFrom(parts, n, text) ==
    \E cut \in [1..(Len(parts) + 1) -> 0..Len(text)] :
        /\ cut[1] = n /\ cut[Len(parts) + 1] = Len(text)
        /\ \A k \in 1..Len(parts) :
              /\ cut[k] < cut[k + 1] /\ parts[k] = SubSeq(text, cut[k] + 1, cut[k + 1])
              /\ Bytes(parts[k]) <= ChunkLimit

\* A job that nothing came across has the script to itself: what it reads is the
\* beginning of the code, more in each round, and what it has yet to write is what the
\* code lacks of its text.
Undisturbed == {j \in Active \ met : job[j].does # "delete"}
Headway(r) == IsPrefix(r.got, code) /\ r.reads * (ReadLimit - 3) <= Bytes(r.got)
WritesOn(r) ==
    \/ r.todo = Chunks(r.text)
    \/ /\ Len(r.todo) < Len(Chunks(r.text)) /\ IsPrefix(code, r.text)
       /\ CutFrom(r.todo, Len(code), r.text)
SoloJob(r) ==
    /\ r.does = "upload" => r.text # << >>
    /\ r.pc \in {"read", "save", "status", "stop"} /\ r.does = "upload" => r.todo = Chunks(r.text)
    /\ r.pc \in {"read", "verify"} => Headway(r)
    /\ r.pc = "put" => WritesOn(r)
    /\ r.pc = "verify" => code = r.text
SoloInv ==
    \A j \in Undisturbed :
        late = {} /\ (\A i \in Active \ {j} : job[i].does = "delete") /\ SoloJob(job[j])

IInv == TypeOK /\ JobsInv /\ SavingInv /\ RunInv /\ SafeInv /\ MixInv /\ SoloInv

-----------------------------------------------------------------------------
\* Whatever fails, overlaps or is executed late, and across a restart: once the
\* code differs from what it was when nothing was under way, that code is in
\* storage, unless a backup was deleted (scripts.py 62-69, backup.py 107-112).
OriginalKept ==
    (code # calm.code /\ ~discarded) => \E k \in DOMAIN disk : disk[k].code = calm.code

\* When all uploads have ended the script runs as it did before them, unless a
\* call that starts or stops it failed or it was started or stopped by command,
\* also when uploads that see each other's stop overlap (scripts.py 64-72).
RunningAgain == (Quiet /\ ~stray) => running = calm.running

\* When all uploads have ended and none failed to write or to verify, the code is
\* whole: what it was or what one of them was given (scripts.py 139-149).
NoMixture ==
    (Quiet /\ ~spoilt) =>
        code \in {calm.code} \cup Uploaded

\* An upload that no fault and no other command came across succeeds: the chunks
\* keep to the limit and are all of the code (scripts.py 99-118).
SoloSucceeds == \A j \in Jobs : job[j].pc = "failed" => j \in met

\* The rounds suffice for the code: each but the last brings all that the device
\* returns for one, less what it cuts off before a character that does not fit.
Readable == Bytes(code) <= MaxReads * (ReadLimit - 3)

\* Violated: the code is in a backup when it is overwritten, unless the backup
\* was deleted.
Overwrites(j) ==
    job[j].pc = "put" /\ job'[j].todo # job[j].todo /\ ~Request(j).append
OverwriteStored ==
    [][\A j \in Jobs :
          Overwrites(j) /\ ~discarded => \E k \in DOMAIN backups : backups[k].code = code]_vars
=============================================================================
