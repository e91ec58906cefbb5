----------------------------- MODULE ImportJob -----------------------------
(***************************************************************************)
(* apps/web-ui/server/index.mjs, POST /api/import: one upload, from the    *)
(* first byte to the record of its outcome, on top of the job runner and   *)
(* of the activity log file.                                               *)
(*                                                                         *)
(* The handler is a sequence of synchronous stretches separated by awaits; *)
(* each stretch is one action, and between two of them any other callback  *)
(* of the server may run: the child's, the listener's continuation, and    *)
(* appends to the same activity file, among them those of another request. *)
(* Listeners run inside the emitting callback, so what the import's        *)
(* listener does on 'started', 'finished' and 'error' is part of the       *)
(* runner's step.                                                          *)
(***************************************************************************)
EXTENDS JobRunner, JsonFile

CONSTANTS
    ActivityLimit,   \* HOTPASS_ACTIVITY_LIMIT
    DiskFaults       \* may a write to the activity file fail?

ASSUME ActivityLimitAssumption == ActivityLimit \in Nat
ASSUME DiskFaultsAssumption == DiskFaults \in BOOLEAN
ASSUME NamesAssumption == /\ {"stage", "artifacts"} \subseteq MetaKeys
                          /\ {"file-accepted", "artifact-ready"} \subseteq Topics

VARIABLES
    req,        \* where the handler is
    response,   \* what the client was answered: "none", "202", "4xx", "500"
    tmp,        \* does the upload's temporary directory exist?
    root,       \* the job's workspace: "absent", "present", "removed"
    listening,  \* is the import's listener attached?
    stage,      \* furthest stage published to the job's streams
    finisher,   \* where the listener's continuation after 'finished' is
    activity,   \* the activity log file
    append      \* every appendActivityEvent call: how far it got, what it read

importVars == <<req, response, tmp, root, listening, stage, finisher>>
logVars == <<activity, append>>
vars == <<runnerVars, importVars, logVars>>

\* The activity events of this import, and one event of some other request.
Actions == {"queued", "upload-complete", "refine-started", "failed-to-start",
            "completed", "failed", "errored", "elsewhere"}

\* In "hung" the handler waits for an upload that broke off; in "crashed" the
\* server's process is gone.
Handler == {"start", "receiving", "rejecting", "storing", "spawning",
            "queueing", "cleaning", "apologising", "done", "hung", "crashed"}

ImportTypeOK ==
    /\ TypeOK
    /\ req \in Handler
    /\ response \in {"none", "202", "4xx", "500"}
    /\ tmp \in BOOLEAN
    /\ root \in {"absent", "present", "removed"}
    /\ listening \in BOOLEAN
    /\ stage \in {"none", "upload-complete", "refine-started"}
    /\ finisher \in {"idle", "listing", "concluding", "done"}
    /\ activity.kind \in {"missing", "truncated", "garbled", "whole"}
    /\ activity.kind = "whole" => /\ activity.value \in Seq(Actions)
                                  /\ Len(activity.value) <= ActivityLimit
    /\ append \in [Actions -> [at : {"idle", "reading", "opening", "writing",
                                     "stored", "failed"},
                               copy : Seq(Actions)]]

ImportInit ==
    /\ Init
    /\ req = "start"
    /\ response = "none"
    /\ tmp = FALSE
    /\ root = "absent"
    /\ listening = FALSE
    /\ stage = "none"
    /\ finisher = "idle"
    /\ activity \in {Missing, Whole(<<>>)}
    /\ append = [a \in Actions |-> [at |-> "idle", copy |-> <<>>]]

\* Input/output callbacks run while the process lives; the error of a failed
\* spawn is raised on the next tick, ahead of all of them.
NodeRuns == req # "crashed" /\ child # "unspawned"

-----------------------------------------------------------------------------
(* appendActivityEvent: read the log, put the event in front, cut to the   *)
(* limit, write the log; then tell the activity streams.                   *)

Begun(ops, actions) ==
    [a \in Actions |-> IF a \in actions THEN [ops[a] EXCEPT !.at = "reading"]
                                        ELSE ops[a]]

Step(a, from, to) ==
    /\ append[a].at = from
    /\ NodeRuns
    /\ append' = [append EXCEPT ![a].at = to]
    /\ UNCHANGED <<runnerVars, importVars>>

\* Not the code: cuts the old log to the limit, then adds the event.
TrimmedTooEarly(log) ==
    SubSeq(log, 1, IF Len(log) <= ActivityLimit THEN Len(log)
                                                ELSE ActivityLimit + 1)

Trimmed(log) == SubSeq(log, 1, IF Len(log) < ActivityLimit THEN Len(log)
                                                           ELSE ActivityLimit)

ReadLog(a) ==
    /\ append[a].at = "reading"
    /\ NodeRuns
    /\ append' = IF Readable(activity)
                 THEN [append EXCEPT ![a] =
                         [at |-> "opening",
                          copy |-> Trimmed(<<a>> \o Content(activity, <<>>))]]
                 ELSE [append EXCEPT ![a].at = "failed"]
    /\ UNCHANGED <<runnerVars, importVars, activity>>

OpenLog(a) ==
    /\ Step(a, "opening", "writing")
    /\ activity' = Opened

WriteLog(a) ==
    /\ Step(a, "writing", "stored")
    /\ activity' \in Written(activity, append[a].copy)

WriteFails(a) ==
    /\ DiskFaults
    /\ Step(a, "opening", "failed") \/ Step(a, "writing", "failed")
    /\ UNCHANGED activity

\* Some other request of the server appends its own event.
Elsewhere ==
    /\ append["elsewhere"].at = "idle"
    /\ NodeRuns
    /\ append' = Begun(append, {"elsewhere"})
    /\ UNCHANGED <<runnerVars, importVars, activity>>

Settled(a) == append[a].at \in {"stored", "failed"}

-----------------------------------------------------------------------------
(* The listener.  Heard(types) is what it does when a callback publishes   *)
(* events of these types; it does nothing unless it is attached.           *)

Heard(types) ==
    IF ~listening
    THEN UNCHANGED <<listening, stage, finisher, append>>
    ELSE /\ listening' = ("error" \notin types)
         /\ stage' = IF "started" \in types THEN "refine-started" ELSE stage
         /\ finisher' = IF "finished" \in types /\ "error" \notin types
                        THEN "listing" ELSE finisher
         /\ append' = Begun(append,
                {a \in {"refine-started"} : "started" \in types}
                    \cup {a \in {"errored"} : "error" \in types})


\* Its continuation after 'finished': publish the artifacts that exist, append
\* the outcome, detach.
Conclusion(status) == IF status = "succeeded" THEN "completed" ELSE "failed"

Outcome == Conclusion(job.status)

\* enumerateImportArtifacts: the files of the workspace, whatever the command's
\* exit code; there may be none.
Enumerable(found) == found => root = "present"

ListArtifacts(found) ==
    /\ finisher = "listing"
    /\ NodeRuns
    /\ Enumerable(found)
    /\ IF found
       THEN /\ job' = [job EXCEPT !.meta = @ \cup {"artifacts"}]
            /\ EmitBoth([type |-> "metadata", meta |-> job.meta \cup {"artifacts"}],
                        [type |-> "published", topic |-> "artifact-ready"])
       ELSE UNCHANGED <<job, emitted>>
    /\ finisher' = "concluding"
    /\ append' = Begun(append, {Outcome})
    /\ UNCHANGED <<child, exit, written, read, req, response, tmp, root,
                   listening, stage, activity>>

\* Not the code: without the `finally', detaches only if the outcome was stored.
DetachIfStored ==
    /\ finisher = "concluding"
    /\ append[Outcome].at = "stored"
    /\ finisher' = "done"
    /\ listening' = FALSE
    /\ UNCHANGED <<runnerVars, req, response, tmp, root, stage, logVars>>

Detach ==
    /\ finisher = "concluding"
    /\ Settled(Outcome)
    /\ finisher' = "done"
    /\ listening' = FALSE
    /\ UNCHANGED <<runnerVars, req, response, tmp, root, stage, logVars>>

-----------------------------------------------------------------------------
(* The runner's steps, each with what the listener does inside it. *)

Unheard == UNCHANGED <<req, response, tmp, root, activity>>

JobWrites == ChildWrites /\ UNCHANGED <<importVars, logVars>>
JobExits == ChildExits /\ UNCHANGED <<importVars, logVars>>
JobData == OnData /\ Heard({"log"}) /\ Unheard /\ NodeRuns
JobError == OnError /\ Heard({"error", "finished"}) /\ Unheard
JobClose == OnClose /\ Heard({"finished"}) /\ Unheard

-----------------------------------------------------------------------------
(* The handler. *)

Answer(code) ==
    /\ req' = "done"
    /\ response' = code

CreateTempDir ==
    /\ req = "start"
    /\ \/ /\ req' = "receiving"
          /\ tmp' = TRUE
          /\ UNCHANGED response
       \/ /\ Answer("500")
          /\ UNCHANGED tmp
    /\ UNCHANGED <<runnerVars, root, listening, stage, finisher, logVars>>

\* Busboy's constructor throws on headers that announce no form; no try is
\* around it, so Express answers and the directory stays.
ParserThrows ==
    /\ req = "receiving"
    /\ Answer("500")
    /\ UNCHANGED <<runnerVars, tmp, root, listening, stage, finisher, logVars>>

\* The body is read to its end: the handler goes on with the files, or with
\* the reason to reject them.
Accept ==
    /\ req = "receiving"
    /\ req' \in {"storing", "rejecting"}
    /\ UNCHANGED <<runnerVars, response, tmp, root, listening, stage, finisher, logVars>>

\* The client breaks off: req.pipe(busboy) does not end the parser, and
\* finishedParsing is never settled.
BreakOff ==
    /\ req = "receiving"
    /\ req' = "hung"
    /\ UNCHANGED <<runnerVars, response, tmp, root, listening, stage, finisher, logVars>>

\* The promise of a file too long is rejected before Promise.all listens to it:
\* an unhandled rejection, which ends the process.
RejectUnheard ==
    /\ req = "receiving"
    /\ req' = "crashed"
    /\ UNCHANGED <<runnerVars, response, tmp, root, listening, stage, finisher, logVars>>

\* Not the code: answers without waiting for the removal.
RejectOnly ==
    /\ req = "rejecting"
    /\ Answer("4xx")
    /\ UNCHANGED <<runnerVars, tmp, root, listening, stage, finisher, logVars>>

\* The directory is removed and the client told why; when the removal fails,
\* the handler rejects and Express answers.
Reject ==
    /\ req = "rejecting"
    /\ \/ Answer("4xx") /\ tmp' = FALSE
       \/ Answer("500") /\ UNCHANGED tmp
    /\ UNCHANGED <<runnerVars, root, listening, stage, finisher, logVars>>

\* Move the files into the workspace, remove the temporary directory, write the
\* profile if one is attached; any of the calls may fail.
StoreFiles ==
    /\ req = "storing"
    /\ \/ /\ req' = "spawning"
          /\ root' = "present"
          /\ tmp' = FALSE
       \/ /\ req' = "cleaning"
          /\ root' \in {"absent", "present"}
          /\ tmp' \in BOOLEAN
    /\ UNCHANGED <<runnerVars, response, listening, stage, finisher, logVars>>

\* createCommandJob, mergeJobMetadata and the start of the 'queued' append,
\* without an await between them.  An attached profile is listed among the
\* job's artifacts at once.  No listener is attached yet.
\* Not the code: attaches the listener together with the spawn.
DispatchListening(outcome, listed) ==
    /\ req = "spawning"
    /\ job' = Entry("running", {"stage"} \cup listed)
    /\ child' = outcome
    /\ emitted' = emitted \o <<[type |-> "queued"], [type |-> "started"],
                               [type |-> "metadata", meta |-> {"stage"} \cup listed]>>
    /\ append' = Begun(append, {"queued"})
    /\ req' = "queueing"
    /\ listening' = TRUE
    /\ UNCHANGED <<exit, written, read, response, tmp, root, stage,
                   finisher, activity>>

Dispatch(outcome, listed) ==
    /\ req = "spawning"
    /\ job' = Entry("running", {"stage"} \cup listed)
    /\ child' = outcome
    /\ emitted' = emitted \o <<[type |-> "queued"], [type |-> "started"],
                               [type |-> "metadata", meta |-> {"stage"} \cup listed]>>
    /\ append' = Begun(append, {"queued"})
    /\ req' = "queueing"
    /\ UNCHANGED <<exit, written, read, response, tmp, root, listening, stage,
                   finisher, activity>>

DispatchThrows(listed) ==
    /\ req = "spawning"
    /\ SpawnThrows(listed)
    /\ req' = "cleaning"
    /\ UNCHANGED <<response, tmp, root, listening, stage, finisher, logVars>>

\* After the 'queued' append: publish the files and the profile, start the
\* 'upload-complete' append without awaiting it, attach the listener, answer.
Announce ==
    /\ req = "queueing"
    /\ append["queued"].at = "stored"
    /\ NodeRuns
    /\ IF "artifacts" \in job.meta
       THEN EmitBoth([type |-> "published", topic |-> "file-accepted"],
                     [type |-> "published", topic |-> "artifact-ready"])
       ELSE Emit([type |-> "published", topic |-> "file-accepted"])
    /\ stage' = "upload-complete"
    /\ append' = Begun(append, {"upload-complete"})
    /\ listening' = TRUE
    /\ Answer("202")
    /\ UNCHANGED <<job, child, exit, written, read, tmp, root, finisher, activity>>

\* Not the code: lets a rejected append reach the catch after the answer too,
\* as it could if the append were not awaited.
QueuedFailsLate ==
    /\ req \in {"queueing", "done"}
    /\ append["queued"].at = "failed" \/ append["upload-complete"].at = "failed"
    /\ NodeRuns
    /\ req' = "cleaning"
    /\ UNCHANGED <<runnerVars, response, tmp, root, listening, stage, finisher, logVars>>

QueuedFails ==
    /\ req = "queueing"
    /\ append["queued"].at = "failed"
    /\ NodeRuns
    /\ req' = "cleaning"
    /\ UNCHANGED <<runnerVars, response, tmp, root, listening, stage, finisher, logVars>>

\* The catch clause: remove both directories, record the failure, answer 500.
\* A removal that fails is not noticed; it may have removed some of the files.
CleanUp ==
    /\ req = "cleaning"
    /\ root' \in (IF root = "present" THEN {"present", "removed"} ELSE {root})
    /\ tmp' \in {FALSE, tmp}
    /\ append' = Begun(append, {"failed-to-start"})
    /\ req' = "apologising"
    /\ UNCHANGED <<runnerVars, response, listening, stage, finisher, activity>>

\* Not the code: an append that fails inside the catch clause is not caught.
ApologiseIfStored ==
    /\ req = "apologising"
    /\ append["failed-to-start"].at = "stored"
    /\ Answer("500")
    /\ UNCHANGED <<runnerVars, tmp, root, listening, stage, finisher, logVars>>

Apologise ==
    /\ req = "apologising"
    /\ Settled("failed-to-start")
    /\ Answer("500")
    /\ UNCHANGED <<runnerVars, tmp, root, listening, stage, finisher, logVars>>

-----------------------------------------------------------------------------
HandlerStep ==
    \/ CreateTempDir \/ Reject \/ StoreFiles
    \/ \E listed \in SUBSET {"artifacts"} :
           \/ \E outcome \in {"alive", "unspawned"} : Dispatch(outcome, listed)
           \/ DispatchThrows(listed)
    \/ Announce \/ QueuedFails \/ CleanUp \/ Apologise

Reception == ParserThrows \/ Accept \/ BreakOff \/ RejectUnheard

FinisherStep == (\E found \in BOOLEAN : ListArtifacts(found)) \/ Detach
AppendStep(a) == ReadLog(a) \/ OpenLog(a) \/ WriteLog(a) \/ WriteFails(a)
JobCallback == JobData \/ JobError \/ JobClose

ImportNext ==
    \/ HandlerStep \/ Reception \/ FinisherStep \/ Elsewhere
    \/ \E a \in Actions : AppendStep(a)
    \/ JobWrites \/ JobExits \/ JobCallback

\* Node runs what is due, and a file operation ends one way or the other.  The
\* upload need not arrive.  That the command ends is assumed of it.
ImportFairness ==
    /\ WF_vars(HandlerStep)
    /\ WF_vars(FinisherStep)
    /\ \A a \in Actions : WF_vars(AppendStep(a))
    /\ WF_vars(JobCallback)
    /\ WF_vars(JobExits)

ImportSpec == ImportInit /\ [][ImportNext]_vars /\ ImportFairness

-----------------------------------------------------------------------------
(* Properties *)

\* Only an answer 500 may leave the temporary directory behind: a client told
\* that its upload was rejected, or accepted, has none on the server, although
\* a removal may fail on every way there (index.mjs:1728-1784, 1826).
TempDirReclaimed == response \in {"202", "4xx"} => ~tmp

\* A client told 202 has its files in the workspace the command reads, also
\* while later appends to the activity log fail.
AcceptedWorkspaceKept == response = "202" => root = "present"

\* Artifacts are announced only by a workspace that stays, the attached profile
\* like the command's files; and the links a job lists outlive their files only
\* when its 'queued' event could not be stored or its command not be spawned:
\* the catch clause never runs after that append (index.mjs:1957, 1977, 2028).
ArtifactsBacked ==
    /\ Published("artifact-ready") => root = "present"
    /\ "artifacts" \in job.meta /\ append["queued"].at = "stored" => root = "present"

\* The import's listener does not outlive its job: once attached to a job
\* whose command runs or has just ended, it is detached, whatever happens to
\* the activity log (the `finally' at index.mjs:2051).
ListenerReleased ==
    (listening /\ child \in {"alive", "exited"}) ~> ~listening

\* Every request whose upload was read to its end is answered, whatever fails
\* while its files are moved, its command spawned and its failure recorded.  An
\* upload that breaks off keeps its handler waiting (index.mjs:1720).
EveryRequestAnswered == req \in {"rejecting", "storing"} ~> response # "none"

=============================================================================
