----------------------------- MODULE JobRunner -----------------------------
(***************************************************************************)
(* apps/web-ui/server/job-runner.js: one entry of the in-memory job table  *)
(* and the child process behind it.                                        *)
(*                                                                         *)
(* Node runs one callback at a time, so every callback (the stdout/stderr  *)
(* 'data' handlers, 'error', 'close') and every synchronous call           *)
(* (createCommandJob, mergeJobMetadata) is one action.  The child process  *)
(* runs beside it: it writes to its pipe and exits whenever it likes, and  *)
(* Node reads the pipe later.                                              *)
(*                                                                         *)
(* `emitted' is everything emitForJob ever published for this job, in      *)
(* order.  A listener sees the part published while it is attached.        *)
(***************************************************************************)
EXTENDS Integers, Sequences

CONSTANTS
    MaxLog,      \* MAX_LOG_ENTRIES, the bound of job.log
    MaxChunks,   \* bound of the model: chunks one child may write
    MetaKeys,    \* keys callers put in job.metadata
    Topics       \* event types callers publish beside the runner's own

ASSUME MaxLogAssumption == MaxLog \in Nat
ASSUME MaxChunksAssumption == MaxChunks \in Nat

VARIABLES
    job,         \* the table entry
    child,       \* the child process as Node sees it
    exit,        \* how the child ended: "none", "zero", "nonzero", "unspawned"
    written,     \* chunks the child has written to its pipe
    read,        \* chunks the 'data' handlers have consumed
    emitted      \* events published for the job, oldest first

runnerVars == <<job, child, exit, written, read, emitted>>

Terminal == {"succeeded", "failed"}
Statuses == {"absent", "queued", "running"} \cup Terminal
ChildStates == {"none", "unspawned", "alive", "exited", "errored", "closed"}
ExitCodes == {"none", "zero", "nonzero", "unspawned"}

\* A log entry is the number of the chunk it holds; 0 is the entry the
\* 'error' handler writes.
SpawnErrorEntry == 0
LogEntries == 0..MaxChunks

Events ==
    [type : {"queued", "started", "error"}]
        \cup [type : {"log"}, chunk : 1..MaxChunks]
        \cup [type : {"metadata"}, meta : SUBSET MetaKeys]
        \cup [type : {"published"}, topic : Topics]
        \cup [type : {"finished"}, status : Terminal]

TypeOK ==
    /\ job \in [status : Statuses, log : Seq(LogEntries), shifted : BOOLEAN,
                exitCode : ExitCodes, meta : SUBSET MetaKeys]
    /\ child \in ChildStates
    /\ exit \in ExitCodes
    /\ written \in 0..MaxChunks
    /\ read \in 0..written
    /\ emitted \in Seq(Events)

-----------------------------------------------------------------------------
\* Not the code: drops the newest entry of a full log instead of the oldest.
PushLogDroppingNewest(j, entry) ==
    IF Len(j.log) >= MaxLog
    THEN [j EXCEPT !.shifted = TRUE]
    ELSE [j EXCEPT !.log = Append(j.log, entry)]

(* pushLog: append, and drop the oldest entry of an over-full log. *)
PushLog(j, entry) ==
    LET longer == Append(j.log, entry)
        full == Len(longer) > MaxLog
    IN  [status |-> j.status, meta |-> j.meta, exitCode |-> j.exitCode,
         log |-> IF full THEN Tail(longer) ELSE longer,
         shifted |-> j.shifted \/ full]

(* emitForJob: the listeners run inside the emitting callback. *)
Emit(payload) == emitted' = Append(emitted, payload)
EmitBoth(first, second) == emitted' = Append(Append(emitted, first), second)

\* A table entry as createCommandJob builds it; "absent" stands for no entry.
Entry(status, meta) ==
    [status |-> status, log |-> <<>>, shifted |-> FALSE,
     exitCode |-> "none", meta |-> meta]

Init ==
    /\ job = Entry("absent", {})
    /\ child = "none"
    /\ exit = "none"
    /\ written = 0
    /\ read = 0
    /\ emitted = <<>>

-----------------------------------------------------------------------------
(* createCommandJob.  The entry is in the table, and 'queued' published,   *)
(* before spawn is called, so a spawn that throws (bad argument, E2BIG)    *)
(* leaves a queued entry with no child.  A missing executable does not     *)
(* throw: the entry goes to running and 'error' comes in a later callback. *)

SpawnThrows(meta) ==
    /\ job.status = "absent"
    /\ job' = Entry("queued", meta)
    /\ Emit([type |-> "queued"])
    /\ UNCHANGED <<child, exit, written, read>>

Spawn(meta, outcome) ==
    /\ job.status = "absent"
    /\ job' = Entry("running", meta)
    /\ child' = outcome
    /\ EmitBoth([type |-> "queued"], [type |-> "started"])
    /\ UNCHANGED <<exit, written, read>>

CreateCommandJob(meta) ==
    \/ \E outcome \in {"alive", "unspawned"} : Spawn(meta, outcome)
    \/ SpawnThrows(meta)

-----------------------------------------------------------------------------
(* The operating system's side of the child. *)

ChildWrites ==
    /\ child = "alive"
    /\ written < MaxChunks
    /\ written' = written + 1
    /\ UNCHANGED <<job, child, exit, read, emitted>>

ChildExits ==
    /\ child = "alive"
    /\ child' = "exited"
    /\ exit' \in {"zero", "nonzero"}
    /\ UNCHANGED <<job, written, read, emitted>>

-----------------------------------------------------------------------------
(* The child's callbacks. *)

OnData ==
    /\ read < written
    /\ read' = read + 1
    /\ job' = PushLog(job, read + 1)
    /\ Emit([type |-> "log", chunk |-> read + 1])
    /\ UNCHANGED <<child, exit, written>>

OnError ==
    /\ child = "unspawned"
    /\ child' = "errored"
    /\ exit' = "unspawned"
    /\ job' = PushLog([job EXCEPT !.status = "failed"], SpawnErrorEntry)
    /\ EmitBoth([type |-> "error"], [type |-> "finished", status |-> "failed"])
    /\ UNCHANGED <<written, read>>

\* Node emits 'close' once the child is gone and its pipes are drained; after
\* a failed spawn it comes too, with a negative code.
\* Not the code: 'exit' instead of 'close', which does not wait for the pipes.
ClosableOnExit == child \in {"errored", "exited"}

Closable == child = "errored" \/ (child = "exited" /\ read = written)

\* Not the code: takes the negative code of a failed spawn for a success.
VerdictByPositiveCode(code) == IF code = "nonzero" THEN "failed" ELSE "succeeded"

Verdict(code) == IF code = "zero" THEN "succeeded" ELSE "failed"

\* Not the code: records the exit code, and a status only for success.
OnCloseKeepingStatus ==
    /\ Closable
    /\ child' = "closed"
    /\ job' = [job EXCEPT !.exitCode = exit,
                          !.status = IF exit = "zero" THEN "succeeded" ELSE @]
    /\ Emit([type |-> "finished", status |-> Verdict(exit)])
    /\ UNCHANGED <<exit, written, read>>

OnClose ==
    /\ Closable
    /\ child' = "closed"
    /\ job' = [job EXCEPT !.exitCode = exit, !.status = Verdict(exit)]
    /\ Emit([type |-> "finished", status |-> Verdict(exit)])
    /\ UNCHANGED <<exit, written, read>>

(* mergeJobMetadata *)
MergeJobMetadata(patch) ==
    /\ job.status # "absent"
    /\ job' = [job EXCEPT !.meta = @ \cup patch]
    /\ Emit([type |-> "metadata", meta |-> job.meta \cup patch])
    /\ UNCHANGED <<child, exit, written, read>>

(* publishJobEvent *)
PublishJobEvent(topic) ==
    /\ job.status # "absent"
    /\ Emit([type |-> "published", topic |-> topic])
    /\ UNCHANGED <<job, child, exit, written, read>>

-----------------------------------------------------------------------------
ChildStep == ChildWrites \/ ChildExits
Callback == OnData \/ OnError \/ OnClose

\* Bounds of the model: a caller merges only patches that add a key, and
\* publishes each topic once.
Published(topic) ==
    \E i \in 1..Len(emitted) :
        emitted[i].type = "published" /\ emitted[i].topic = topic

CallerStep ==
    \/ \E patch \in SUBSET MetaKeys :
           \/ CreateCommandJob(patch)
           \/ ~(patch \subseteq job.meta) /\ MergeJobMetadata(patch)
    \/ \E topic \in Topics : ~Published(topic) /\ PublishJobEvent(topic)

Next == ChildStep \/ Callback \/ CallerStep

\* Node runs every callback that is due; that the command itself ends is an
\* assumption about the command.
Fairness == WF_runnerVars(Callback) /\ WF_runnerVars(ChildExits)

Spec == Init /\ [][Next]_runnerVars
FairSpec == Spec /\ Fairness

-----------------------------------------------------------------------------
(* Properties *)

Finished(e) == e.type = "finished"
Announced == \E i \in 1..Len(emitted) : Finished(emitted[i])

\* The retained log is exactly the most recent output: no chunk is missing
\* from its middle or end, whatever was shifted out, and logShifted tells
\* whether the beginning is gone (pushLog, job-runner.js:27).
LogIsRecentOutput ==
    exit # "unspawned" =>
        /\ \A i \in 1..Len(job.log) : job.log[i] = read - Len(job.log) + i
        /\ Len(job.log) = (IF read < MaxLog THEN read ELSE MaxLog)
        /\ job.shifted <=> read > MaxLog

\* Everything published after the end was announced agrees with it: no
\* output follows a 'finished' event, and every 'finished' event carries the
\* status the job keeps, although a failed spawn announces its end twice
\* (once from 'error', once from 'close').
NothingAfterTheEnd ==
    \A i \in 1..Len(emitted) : Finished(emitted[i]) =>
        /\ emitted[i].status = job.status
        /\ \A k \in i..Len(emitted) : emitted[k].type \in {"finished", "metadata", "published"}

\* A verdict is never revised: once succeeded or failed, a job stays so, even
\* when 'close' runs after 'error' has already settled it.
VerdictIsFinal ==
    [][job.status \in Terminal => job'.status = job.status]_runnerVars

\* Every job whose command was handed to the operating system is concluded.
EverySpawnedJobConcludes == job.status = "running" ~> job.status \in Terminal

-----------------------------------------------------------------------------
(* The runner implements the abstract life cycle. *)
Phase ==
    CASE job.status = "absent" -> "absent"
      [] job.status = "queued" -> "stuck"
      [] job.status = "running" -> "running"
      [] OTHER -> "ended"

Lifecycle == INSTANCE JobLifecycle WITH
    phase <- Phase,
    output <- read,
    verdict <- IF job.status \in Terminal THEN job.status ELSE "none"

\* Seen from outside, a job only ever registers, publishes and concludes once.
ImplementsLifecycle == Lifecycle!Spec

=============================================================================
