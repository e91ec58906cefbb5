----------------------------- MODULE RefineRun -----------------------------
(***************************************************************************)
(* One request to refine, from its entry point to its answer: the command  *)
(* `hotpass run' (cli/commands/run.py), `hotpass orchestrate', a request   *)
(* of an agent (broker_agent_run) and the Prefect task run_pipeline_task,  *)
(* all of which run pipeline/base.py between the lineage events of         *)
(* lineage.py.  run and orchestrate with features go on with               *)
(* pipeline/features, the others stop at the base pipeline.                *)
(*                                                                         *)
(* A data frame, or a file written from one, is the set of the stages its  *)
(* records have been through.  Everything is sequential; what can go wrong *)
(* is a step that fails after others have taken effect.                    *)
(***************************************************************************)
EXTENDS Integers, Sequences

CONSTANTS
    TaskRetries,    \* retries=2 of run_pipeline_task, 0 without Prefect
    Features        \* the features of the bundle that may be enabled

ASSUME TaskRetriesAssumption == TaskRetries \in Nat

VARIABLES
    opts,       \* entry point, configuration and input of the request
    pc,         \* the stage the request is at
    attempt,    \* 1 + retries of the task so far
    frame,      \* stages the records in memory have been through
    report,     \* "none", "clean", "critical": schema errors of the report
    files,      \* what is on disk: which attempt wrote it (0: none), its stages
    delivered,  \* the automation deliveries were made
    lineage,    \* events the lineage backend received for the run
    audit,      \* statuses of the broker's audit records
    told        \* the answer: an exit code, a summary or an exception

vars == <<opts, pc, attempt, frame, report, files, delivered, lineage, audit, told>>

Bundle == <<"entity_resolution", "geospatial", "enrichment", "compliance">>
Bundled == {Bundle[i] : i \in 1..Len(Bundle)}
Stages == {"redacted", "preprocessed", "aggregated", "validated"} \cup Bundled
Names == {"notices", "parquet", "workbook", "daily", "report", "archive"}
Attempts == 1..(1 + TaskRetries)
Lines == {"evaluated", "starting", "ingesting", "aggregating", "validating", "publishing",
          "noticing", "reporting", "delivering", "archiving", "completing", "leaving", "done"}
             \cup Bundled

RefineTypeOK ==
    /\ pc \in Lines
    /\ attempt \in Attempts
    /\ frame \in SUBSET Stages
    /\ report \in {"none", "clean", "critical"}
    /\ files \in [Names -> [by : 0..attempt, stages : SUBSET Stages]]
    /\ delivered \in BOOLEAN
    /\ lineage \in Seq([type : {"START", "COMPLETE", "FAIL"}, attempt : 1..attempt,
                        outputs : SUBSET {"workbook", "archive"}])
    /\ audit \in Seq({"denied", "approved", "executed", "failed"})
    /\ told \in {"nothing", "code0", "code1", "code2", "summary", "raised"}

Requests ==
    [via : {"run", "orchestrate", "agent", "task"}, features : SUBSET Features,
     redact : BOOLEAN, presidio : {"off", "failing", "working"}, archive : BOOLEAN, rows : {"none", "some"}, passes : BOOLEAN,
     auditLog : BOOLEAN, overridden : BOOLEAN, required : BOOLEAN,
     decision : {"denied", "approved", "malformed"}]

\* What an entry point cannot be asked for: only run and orchestrate enable
\* features, the task does not archive, only agents are approved; consent
\* matters to the compliance feature alone, Presidio to redaction.
Possible(o) ==
    /\ o.via \in {"agent", "task"} => o.features = {}
    /\ o.via = "task" => ~o.archive
    /\ o.via # "agent" => o.decision = "approved"
    /\ ~o.redact => o.presidio = "off"
    /\ "compliance" \notin o.features => o.auditLog /\ o.overridden /\ o.required

Nothing == [by |-> 0, stages |-> {}]

Init ==
    /\ opts \in {o \in Requests : Possible(o)}
    /\ pc = IF opts.via = "agent" THEN "evaluated" ELSE "starting"
    /\ attempt = 1
    /\ frame = {}
    /\ report = "none"
    /\ files = [n \in Names |-> Nothing]
    /\ delivered = FALSE
    /\ lineage = <<>>
    /\ audit = <<>>
    /\ told = "nothing"

-----------------------------------------------------------------------------
At(line) == pc = line
GoTo(line) == pc' = line

\* What the command is told of a request that ended well: orchestrate's exit
\* code, unlike run's, knows about the expectations.
GoodAnswer ==
    CASE opts.via = "run" -> "code0"
      [] opts.via = "orchestrate" -> IF opts.passes THEN "code0" ELSE "code1"
      [] OTHER -> "summary"

BadAnswer(kind) ==
    IF opts.via \in {"agent", "task"} THEN "raised"
    ELSE IF kind = "contract" THEN "code2" ELSE "code1"

\* LineageEmitter._emit: a client that fails is logged, its event is lost.
Emit(type, outputs) ==
    \/ lineage' = Append(lineage, [type |-> type, attempt |-> attempt, outputs |-> outputs])
    \/ lineage' = lineage

\* broker_agent_run's records
Audited(status) == audit' = IF opts.via = "agent" THEN Append(audit, status) ELSE audit

\* A file written by this attempt from the frame.
Saved(names) ==
    [n \in Names |-> IF n \in names THEN [by |-> attempt, stages |-> frame] ELSE files[n]]

\* An exception between emit_start and the end of the try: FAIL, then the
\* answer of the entry point, or the next attempt of the task.
Fails(kind) ==
    /\ Emit("FAIL", {"workbook"})
    /\ \/ /\ opts.via = "task" /\ attempt <= TaskRetries
          /\ attempt' = attempt + 1
          /\ frame' = {} /\ report' = "none"
          /\ GoTo("starting")
          /\ UNCHANGED <<audit, told>>
       \/ /\ ~(opts.via = "task" /\ attempt <= TaskRetries)
          /\ Audited("failed")
          /\ told' = BadAnswer(kind)
          /\ GoTo("done")
          /\ UNCHANGED <<attempt, frame, report>>

-----------------------------------------------------------------------------
(* The broker *)

\* Not the code: a denied request is recorded and run all the same.
EvaluateLeniently ==
    /\ At("evaluated")
    /\ audit' = <<opts.decision>>
    /\ GoTo("starting")
    /\ UNCHANGED <<opts, attempt, frame, report, files, delivered, lineage, told>>

\* evaluate_agent_request, then the options: a payload that is missing or
\* malformed raises after 'approved' was recorded, and nothing concludes it.
Evaluate ==
    /\ At("evaluated")
    /\ CASE opts.decision = "denied" -> /\ audit' = <<"denied">>
                                        /\ told' = "raised" /\ GoTo("done")
         [] opts.decision = "malformed" -> /\ audit' = <<"approved">>
                                           /\ told' = "raised" /\ GoTo("done")
         [] opts.decision = "approved" -> /\ audit' = <<"approved">>
                                          /\ GoTo("starting") /\ UNCHANGED told
    /\ UNCHANGED <<opts, attempt, frame, report, files, delivered, lineage>>

\* Configuration, telemetry session, emitter; an error here has no START.
Start ==
    /\ At("starting")
    /\ \/ /\ Emit("START", {}) /\ GoTo("ingesting")
          /\ UNCHANGED <<audit, told>>
       \/ /\ opts.via \in {"agent", "orchestrate", "run"}
          /\ Audited("failed")
          /\ told' = BadAnswer("setup") /\ GoTo("done")
          /\ UNCHANGED lineage
    /\ UNCHANGED <<opts, attempt, frame, report, files, delivered>>

-----------------------------------------------------------------------------
(* pipeline/base.py *)

\* What redact_dataframe may return.  Presidio is off unless the environment
\* enables it, and then the frame comes back as it was, with a warning.  Engines
\* that cannot be made do the same; a text they fail on is left as it is.
Redacted(stages) ==
    IF ~opts.redact \/ opts.presidio = "off" THEN {stages}
    ELSE {stages \cup {"redacted"}} \cup
             (IF opts.presidio = "failing" THEN {stages} ELSE {})

\* Sources are read, duplicate rows set aside, the rest preprocessed and
\* handed to redaction.
Ingest ==
    /\ At("ingesting")
    /\ frame' \in Redacted(IF opts.rows = "some" THEN {"preprocessed"} ELSE {})
    /\ GoTo(IF opts.rows = "some" THEN "aggregating" ELSE "publishing")
    /\ UNCHANGED <<opts, attempt, report, files, delivered, lineage, audit, told>>

\* Aggregation reconstructs values (primary contact, joined notes), so what
\* it returns counts as not redacted.
Aggregate ==
    /\ At("aggregating")
    /\ frame' = {"preprocessed", "aggregated"}
    /\ GoTo("validating")
    /\ UNCHANGED <<opts, attempt, report, files, delivered, lineage, audit, told>>

\* Not the code: the frame is redacted at ingestion only.
ValidateOnly ==
    /\ At("validating")
    /\ \/ /\ frame' = frame \cup {"validated"} /\ report' = "clean"
       \/ /\ frame' = frame /\ report' = "critical"
    /\ GoTo("publishing")
    /\ UNCHANGED <<opts, attempt, files, delivered, lineage, audit, told>>

\* Invalid rows are dropped, unless none is left: then all are kept and the
\* report says so.  Redaction is applied again.
Validate ==
    /\ At("validating")
    /\ \/ /\ frame' \in Redacted(frame \cup {"validated"}) /\ report' = "clean"
       \/ /\ frame' \in Redacted(frame) /\ report' = "critical"
    /\ GoTo("publishing")
    /\ UNCHANGED <<opts, attempt, files, delivered, lineage, audit, told>>

\* Without rows only the workbook is written (handle_empty_pipeline).
PublishedNames == IF opts.rows = "some" THEN {"parquet", "workbook", "daily"} ELSE {"workbook"}

\* publish_outputs: parquet, workbook, daily list, in this order.
Publish ==
    /\ At("publishing")
    /\ files' = Saved(PublishedNames)
    /\ report' = IF opts.rows = "some" THEN report ELSE "clean"
    /\ GoTo(IF opts.rows = "some" THEN "noticing" ELSE Bundle[1])
    /\ UNCHANGED <<opts, attempt, frame, delivered, lineage, audit, told>>

\* publish_outputs fails after some of its files.
PublishFails ==
    /\ At("publishing")
    /\ \E names \in {{}, {"parquet"}, {"parquet", "workbook"}} :
           /\ names \subseteq PublishedNames
           /\ files' = Saved(names)
    /\ Fails("disk")
    /\ UNCHANGED <<opts, delivered>>

\* The rows set aside at ingestion, as they were read: before preprocessing
\* and before redaction.
PersistNotices ==
    /\ At("noticing")
    /\ \E found \in BOOLEAN :
           files' = IF found THEN [files EXCEPT !["notices"] = [by |-> attempt, stages |-> {}]]
                    ELSE files
    /\ GoTo(Bundle[1])
    /\ UNCHANGED <<opts, attempt, frame, report, delivered, lineage, audit, told>>

-----------------------------------------------------------------------------
(* pipeline/features: applied to the result after its files are written. *)

After(feature) ==
    LET i == CHOOSE k \in 1..Len(Bundle) : Bundle[k] = feature
    IN  IF i < Len(Bundle) THEN Bundle[i + 1]
        ELSE IF opts.via = "run" THEN "reporting" ELSE "archiving"

SkipFeature(feature) ==
    /\ At(feature) /\ feature \notin opts.features
    /\ GoTo(After(feature))
    /\ UNCHANGED <<opts, attempt, frame, report, files, delivered, lineage, audit, told>>

\* Records with contact data and no granted status: the consent column of the
\* sources is not among those aggregation keeps, so a status comes from
\* add_provenance_columns ("pending", with the audit log on) and overrides;
\* without the column nothing is a violation.
ConsentViolated == opts.rows = "some" /\ opts.auditLog /\ ~opts.overridden

\* Entity resolution falls back to rules; geocoding and enrichment that fail
\* are logged and leave the frame.
Apply(feature) ==
    /\ At(feature) /\ feature \in opts.features
    /\ feature = "compliance" => ~(opts.required /\ ConsentViolated)
    /\ frame' \in {frame \cup {feature}} \cup
           (IF feature \in {"geospatial", "enrichment"} THEN {frame} ELSE {})
    /\ GoTo(After(feature))
    /\ UNCHANGED <<opts, attempt, report, files, delivered, lineage, audit, told>>

EnforceConsent ==
    /\ At("compliance") /\ "compliance" \in opts.features
    /\ opts.required /\ ConsentViolated
    /\ Fails("consent")
    /\ UNCHANGED <<opts, files, delivered>>

\* Any other error of the compliance checks is logged: the run goes on with
\* its consent unchecked.
ComplianceBreaks ==
    /\ At("compliance") /\ "compliance" \in opts.features
    /\ GoTo(After("compliance"))
    /\ UNCHANGED <<opts, attempt, frame, report, files, delivered, lineage, audit, told>>

-----------------------------------------------------------------------------
(* What follows the pipeline *)

\* run only: quality report, party store; then webhooks and CRM
\* (AutomationDelivery), from the daily list.
WriteReport ==
    /\ At("reporting")
    /\ files' = Saved({"report"})
    /\ GoTo("delivering")
    /\ UNCHANGED <<opts, attempt, frame, report, delivered, lineage, audit, told>>

Deliver ==
    /\ At("delivering")
    /\ delivered' = TRUE
    /\ GoTo("archiving")
    /\ UNCHANGED <<opts, attempt, frame, report, files, lineage, audit, told>>

\* Deliveries that were made stay made when a dead letter cannot be written.
DeliverFails ==
    /\ At("delivering")
    /\ delivered' = TRUE
    /\ Fails("delivery")
    /\ UNCHANGED <<opts, files>>

\* Not the code: an archive that cannot be made is left out silently.
ArchiveIfPossible ==
    /\ At("archiving")
    /\ \E possible \in BOOLEAN :
           files' = IF possible /\ opts.archive
                    THEN [files EXCEPT !["archive"] = files["workbook"]] ELSE files
    /\ GoTo("completing")
    /\ UNCHANGED <<opts, attempt, frame, report, delivered, lineage, audit, told>>

\* create_refined_archive packs the workbook that is on disk.
Archive ==
    /\ At("archiving")
    /\ files' = IF opts.archive THEN [files EXCEPT !["archive"] = files["workbook"]] ELSE files
    /\ GoTo("completing")
    /\ UNCHANGED <<opts, attempt, frame, report, delivered, lineage, audit, told>>

Complete ==
    /\ At("completing")
    /\ Emit("COMPLETE", IF opts.archive THEN {"workbook", "archive"} ELSE {"workbook"})
    /\ GoTo("leaving")
    /\ UNCHANGED <<opts, attempt, frame, report, files, delivered, audit, told>>

\* The telemetry session ends; an exporter that raises takes the place of the
\* answer, after COMPLETE was emitted.  The task has no session.
Leave ==
    /\ At("leaving")
    /\ \/ Audited("executed") /\ told' = GoodAnswer
       \/ opts.via # "task" /\ Audited("failed") /\ told' = BadAnswer("telemetry")
    /\ GoTo("done")
    /\ UNCHANGED <<opts, attempt, frame, report, files, delivered, lineage>>

\* A contract is violated, a stage raises, a file cannot be written.
StageFails ==
    /\ pc \in {"ingesting", "aggregating", "validating", "noticing", "reporting", "archiving"}
    /\ \E kind \in {"contract", "error"} : Fails(kind)
    /\ UNCHANGED <<opts, files, delivered>>

Next ==
    \/ Evaluate \/ Start
    \/ Ingest \/ Aggregate \/ Validate \/ Publish \/ PublishFails \/ PersistNotices
    \/ \E feature \in Bundled : SkipFeature(feature) \/ Apply(feature)
    \/ EnforceConsent \/ ComplianceBreaks
    \/ WriteReport \/ Deliver \/ DeliverFails \/ Archive \/ Complete \/ Leave
    \/ StageFails

Spec == Init /\ [][Next]_vars

-----------------------------------------------------------------------------
(* Properties *)

Success == told \in {"code0", "summary"}

\* A request that is told of success left the files of its last attempt and of
\* one frame, validated unless the report says it was impossible, and an archive
\* of that workbook: no step between the frame and the answer (export.py:47-92,
\* orchestration.py:491) fails unnoticed, and no file of a failed attempt passes
\* for one of the attempt that succeeded.  The files are redacted if that was
\* asked for and Presidio is enabled and fails on nothing; otherwise success
\* does not tell whether they are (compliance.py:388-391).
SuccessMeansWhole ==
    Success =>
        /\ \A n \in PublishedNames :
               files[n] = [by |-> attempt, stages |-> files["workbook"].stages]
        /\ opts.redact /\ opts.presidio = "working" =>
               "redacted" \in files["workbook"].stages
        /\ opts.rows = "some" =>
               "validated" \in files["workbook"].stages \/ report = "critical"
        /\ opts.archive => files["archive"] = files["workbook"]
        /\ opts.via = "run" => delivered /\ files["report"].by = attempt

\* The lineage backend, whatever events it misses, is told of the attempts in
\* order, each begun before it ends and ended once; COMPLETE names only
\* outputs that attempt wrote; a request told of success did not fail last
\* (orchestration.py:468-515, run.py:200-330).
LineageTellsTheOutcome ==
    /\ \A i, k \in 1..Len(lineage) : i < k =>
           \/ lineage[i].attempt < lineage[k].attempt
           \/ /\ lineage[i].attempt = lineage[k].attempt
              /\ lineage[i].type = "START" /\ lineage[k].type # "START"
    /\ \A i \in 1..Len(lineage) : lineage[i].type = "COMPLETE" =>
           \A n \in lineage[i].outputs : files[n].by = lineage[i].attempt
    /\ Success => \A i \in 1..Len(lineage) :
           lineage[i].type = "FAIL" => lineage[i].attempt < attempt

\* What agents did can be read from the audit: a denied request ran nothing,
\* what ran was approved first, and an approval is followed by the outcome,
\* except where the payload is malformed (orchestration.py:391).
AuditTellsTheStory ==
    /\ (lineage # <<>> \/ \E n \in Names : files[n].by > 0) /\ opts.via = "agent" =>
           opts.decision = "approved" /\ audit # <<>> /\ audit[1] = "approved"
    /\ pc = "done" /\ opts.via = "agent" =>
           audit = CASE opts.decision = "denied" -> <<"denied">>
                     [] opts.decision = "malformed" -> <<"approved">>
                     [] OTHER -> <<"approved", IF Success THEN "executed" ELSE "failed">>

=============================================================================
