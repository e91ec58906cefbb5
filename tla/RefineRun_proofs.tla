-------------------------- MODULE RefineRun_proofs --------------------------
(***************************************************************************)
(* Proofs about RefineRun: files, lineage and audit agree with the answer  *)
(* whatever step of whatever entry point fails, for any number of retries  *)
(* of the task.                                                            *)
(***************************************************************************)
EXTENDS RefineRun, SequenceTheorems, TLAPS

-----------------------------------------------------------------------------
(* The inductive invariant. *)

\* The lines between START and the end of the attempt, and those of them that
\* follow the publication.
AfterPublishing == {"noticing", "reporting", "delivering", "archiving", "completing"} \cup Bundled
Working == {"ingesting", "aggregating", "validating", "publishing"} \cup AfterPublishing

OptsInv == opts \in Requests

\* An answer ends the request.
AnswerInv == told # "nothing" => pc = "done"

\* What SuccessMeansWhole says of records that may be published, ...
FrameWhole ==
    /\ opts.redact /\ opts.presidio = "working" => "redacted" \in frame
    /\ opts.rows = "some" => "validated" \in frame \/ report = "critical"

\* ... of the published files, ...
FilesWhole ==
    /\ \A n \in PublishedNames :
           files[n] = [by |-> attempt, stages |-> files["workbook"].stages]
    /\ opts.redact /\ opts.presidio = "working" => "redacted" \in files["workbook"].stages
    /\ opts.rows = "some" => "validated" \in files["workbook"].stages \/ report = "critical"

\* ... and of what is made of them, line by line.
WholeInv ==
    /\ pc = "publishing" => FrameWhole
    /\ pc \in AfterPublishing \cup {"leaving"} \/ Success => FilesWhole
    /\ pc \in {"delivering", "archiving", "completing", "leaving"} \/ Success =>
           (opts.via = "run" => files["report"].by = attempt)
    /\ pc \in {"archiving", "completing", "leaving"} \/ Success =>
           (opts.via = "run" => delivered)
    /\ pc \in {"completing", "leaving"} \/ Success =>
           (opts.archive => files["archive"] = files["workbook"])

\* Events in order; the present attempt has begun at most, until its end.
LineageInv ==
    /\ \A i, k \in 1..Len(lineage) : i < k =>
           \/ lineage[i].attempt < lineage[k].attempt
           \/ /\ lineage[i].attempt = lineage[k].attempt
              /\ lineage[i].type = "START" /\ lineage[k].type # "START"
    /\ pc \in {"evaluated", "starting"} =>
           \A i \in 1..Len(lineage) : lineage[i].attempt < attempt
    /\ pc \in Working =>
           \A i \in 1..Len(lineage) :
               lineage[i].attempt < attempt \/ lineage[i].type = "START"

\* COMPLETE is followed by nothing but the end of the session.
CompleteInv ==
    /\ \A i \in 1..Len(lineage) : lineage[i].type = "COMPLETE" =>
           /\ pc \in {"leaving", "done"}
           /\ \A n \in lineage[i].outputs : files[n].by = lineage[i].attempt
    /\ pc = "leaving" \/ Success =>
           \A i \in 1..Len(lineage) : lineage[i].type = "FAIL" => lineage[i].attempt < attempt

\* An agent's request runs once it was approved, and is concluded at its end.
AuditInv ==
    opts.via = "agent" =>
        /\ pc = "evaluated" \/ opts.decision # "approved" =>
               /\ pc \in {"evaluated", "done"}
               /\ lineage = <<>> /\ \A n \in Names : files[n].by = 0
        /\ pc = "evaluated" => audit = <<>>
        /\ pc \notin {"evaluated", "done"} => audit = <<"approved">>
        /\ pc = "done" =>
               audit = CASE opts.decision = "denied" -> <<"denied">>
                         [] opts.decision = "malformed" -> <<"approved">>
                         [] OTHER -> <<"approved", IF Success THEN "executed" ELSE "failed">>

TypeInv == OptsInv /\ RefineTypeOK

IInv == TypeInv /\ AnswerInv /\ WholeInv /\ LineageInv /\ CompleteInv /\ AuditInv

-----------------------------------------------------------------------------
(* Lemmas about the data *)

Event(a) == [type : {"START", "COMPLETE", "FAIL"}, attempt : 1..a,
             outputs : SUBSET {"workbook", "archive"}]
File(a) == [by : 0..a, stages : SUBSET Stages]

\* What a sequence is after one more element.
LEMMA Appended ==
    ASSUME NEW S, NEW s \in Seq(S), NEW e \in S
    PROVE  /\ Append(s, e) \in Seq(S)
           /\ Len(Append(s, e)) = Len(s) + 1
           /\ \A i \in 1..Len(s) : Append(s, e)[i] = s[i]
           /\ Append(s, e)[Len(s) + 1] = e
OBVIOUS

\* Events and files of earlier attempts are such of later ones.
LEMMA Later ==
    ASSUME NEW a \in Nat
    PROVE  /\ \A s : s \in Seq(Event(a)) => s \in Seq(Event(a + 1))
           /\ [Names -> File(a)] \subseteq [Names -> File(a + 1)]
<1>1. Event(a) \subseteq Event(a + 1)
  BY DEF Event
<1>2. File(a) \subseteq File(a + 1)
  BY DEF File
<1>3. ASSUME NEW s \in Seq(Event(a)) PROVE s \in Seq(Event(a + 1))
  <2>1. \A i \in 1..Len(s) : s[i] \in Event(a + 1)
    BY <1>1
  <2> QED
    BY <2>1
<1>4. [Names -> File(a)] \subseteq [Names -> File(a + 1)]
  BY <1>2
<1> QED
  BY <1>3, <1>4

\* The feature after each feature of the bundle.
LEMMA AfterFeature ==
    ASSUME NEW feature \in Bundled
    PROVE  After(feature) \in Bundled \cup (IF opts.via = "run" THEN {"reporting"} ELSE {"archiving"})
<1>1. /\ Len(Bundle) = 4 /\ Bundle[1] = "entity_resolution" /\ Bundle[2] = "geospatial"
      /\ Bundle[3] = "enrichment" /\ Bundle[4] = "compliance"
  BY DEF Bundle
<1>2. PICK k \in 1..Len(Bundle) : Bundle[k] = feature
  BY DEF Bundled
<1> DEFINE i == CHOOSE k2 \in 1..Len(Bundle) : Bundle[k2] = feature
<1>3. i \in 1..4
  BY <1>1, <1>2
<1>4. i < 4 => Bundle[i + 1] \in Bundled
  BY <1>1, <1>3 DEF Bundled
<1> QED
  BY <1>1, <1>3, <1>4 DEF After

\* Bundled, name by name.
LEMMA BundledNames == Bundled = {"entity_resolution", "geospatial", "enrichment", "compliance"}
<1>1. /\ Len(Bundle) = 4 /\ Bundle[1] = "entity_resolution" /\ Bundle[2] = "geospatial"
      /\ Bundle[3] = "enrichment" /\ Bundle[4] = "compliance"
  BY DEF Bundle
<1>2. 1..4 = {1, 2, 3, 4}
  OBVIOUS
<1> QED
  BY <1>1, <1>2 DEF Bundled

\* The type of lineage and files, in the terms of these lemmas.
LEMMA TypeTerms ==
    RefineTypeOK =>
        /\ lineage \in Seq(Event(attempt)) /\ files \in [Names -> File(attempt)]
        /\ attempt \in Nat \ {0}
BY TaskRetriesAssumption DEF RefineTypeOK, Event, File, Attempts

-----------------------------------------------------------------------------
(* Two steps that many actions share: an event is emitted, an attempt fails. *)

\* An event that was emitted, or lost, leaves the earlier ones in place.
LEMMA Emitted ==
    ASSUME TypeInv, NEW type \in {"START", "COMPLETE", "FAIL"},
           NEW outputs \in SUBSET {"workbook", "archive"}, Emit(type, outputs)
    PROVE  /\ lineage' \in Seq(Event(attempt))
           /\ Len(lineage') \in {Len(lineage), Len(lineage) + 1}
           /\ Len(lineage) \in Nat
           /\ \A i \in 1..Len(lineage) : lineage'[i] = lineage[i]
           /\ Len(lineage') > Len(lineage) =>
                  lineage'[Len(lineage) + 1] =
                      [type |-> type, attempt |-> attempt, outputs |-> outputs]
<1> DEFINE e == [type |-> type, attempt |-> attempt, outputs |-> outputs]
<1>1. lineage \in Seq(Event(attempt)) /\ attempt \in Nat \ {0}
  BY TypeTerms DEF TypeInv
<1>2. e \in Event(attempt)
  BY <1>1 DEF Event
<1>3. CASE lineage' = Append(lineage, e)
  BY <1>1, <1>2, <1>3, Appended
<1>4. CASE lineage' = lineage
  BY <1>1, <1>4
<1> QED
  BY <1>3, <1>4 DEF Emit

\* What an attempt that fails comes to.
LEMMA Failed ==
    ASSUME TypeInv, NEW kind, Fails(kind)
    PROVE  /\ Emit("FAIL", {"workbook"})
           /\ \/ /\ opts.via = "task" /\ attempt <= TaskRetries
                 /\ attempt' = attempt + 1 /\ frame' = {} /\ report' = "none"
                 /\ pc' = "starting" /\ audit' = audit /\ told' = told
              \/ /\ Audited("failed") /\ told' \in {"raised", "code1", "code2"}
                 /\ pc' = "done" /\ attempt' = attempt /\ frame' = frame /\ report' = report
BY DEF Fails, BadAnswer, GoTo

-----------------------------------------------------------------------------
(* Types *)

\* The variables' types, with those of lineage and files in the lemmas' terms.
LEMMA FromTerms ==
    ASSUME pc' \in Lines, attempt' \in Attempts, frame' \in SUBSET Stages,
           report' \in {"none", "clean", "critical"}, files' \in [Names -> File(attempt')],
           delivered' \in BOOLEAN, lineage' \in Seq(Event(attempt')),
           audit' \in Seq({"denied", "approved", "executed", "failed"}),
           told' \in {"nothing", "code0", "code1", "code2", "summary", "raised"}
    PROVE  RefineTypeOK'
<1>1. (delivered \in BOOLEAN)'
  OBVIOUS
<1> QED
  BY <1>1, Zenon DEF RefineTypeOK, Event, File

\* A failing attempt keeps the types.
LEMMA FailedTypes ==
    ASSUME TypeInv, NEW kind, Fails(kind), files' \in [Names -> File(attempt)],
           delivered' \in BOOLEAN
    PROVE  RefineTypeOK'
<1> USE TaskRetriesAssumption DEF TypeInv
<1>1. lineage \in Seq(Event(attempt)) /\ attempt \in Nat \ {0} /\ attempt \in Attempts
  BY TypeTerms DEF RefineTypeOK
<1>2. lineage' \in Seq(Event(attempt))
  BY Failed, Emitted
<1>3. audit' \in Seq({"denied", "approved", "executed", "failed"})
  <2>1. audit \in Seq({"denied", "approved", "executed", "failed"})
    BY DEF RefineTypeOK
  <2>2. audit' = audit \/ audit' = Append(audit, "failed")
    BY Failed DEF Audited
  <2> QED
    BY <2>1, <2>2, Appended
<1>4. frame' \in SUBSET Stages /\ report' \in {"none", "clean", "critical"}
  BY Failed DEF RefineTypeOK
<1>5. told' \in {"nothing", "code0", "code1", "code2", "summary", "raised"}
  BY Failed DEF RefineTypeOK
<1>6. pc' \in Lines
  BY Failed DEF Lines
<1>7. /\ attempt' \in Attempts /\ lineage' \in Seq(Event(attempt'))
      /\ files' \in [Names -> File(attempt')]
  <2>1. CASE attempt' = attempt
    BY <1>1, <1>2, <2>1
  <2>2. CASE attempt' = attempt + 1 /\ attempt <= TaskRetries
    BY <1>1, <1>2, <2>2, Later DEF Attempts
  <2> QED
    BY <2>1, <2>2, Failed
<1> QED
  BY <1>3, <1>4, <1>5, <1>6, <1>7, FromTerms

\* A step that emits nothing and keeps the attempt keeps the types if it keeps
\* those of the variables it changes.
LEMMA QuietTypes ==
    ASSUME TypeInv, attempt' = attempt, lineage' = lineage,
           pc' \in Lines, frame' \in SUBSET Stages,
           report' \in {"none", "clean", "critical"}, files' \in [Names -> File(attempt)],
           delivered' \in BOOLEAN,
           audit' \in Seq({"denied", "approved", "executed", "failed"}),
           told' \in {"nothing", "code0", "code1", "code2", "summary", "raised"}
    PROVE  RefineTypeOK'
<1>1. lineage' \in Seq(Event(attempt')) /\ attempt' \in Attempts
  BY TypeTerms DEF TypeInv, RefineTypeOK
<1>2. files' \in [Names -> File(attempt')]
  OBVIOUS
<1> QED
  BY <1>1, <1>2, FromTerms, Zenon

\* Files saved from the frame are files of the attempt.
LEMMA SavedTypes ==
    ASSUME TypeInv, NEW names \in SUBSET Names
    PROVE  Saved(names) \in [Names -> File(attempt)]
<1>1. files \in [Names -> File(attempt)] /\ attempt \in Nat \ {0} /\ frame \in SUBSET Stages
  BY TypeTerms DEF TypeInv, RefineTypeOK
<1>2. [by |-> attempt, stages |-> frame] \in File(attempt)
  BY <1>1 DEF File
<1> QED
  BY <1>1, <1>2 DEF Saved

\* Every step keeps the types.
LEMMA TypeStep ==
    ASSUME TypeInv, [Next]_vars
    PROVE  TypeInv'
<1>0. /\ lineage \in Seq(Event(attempt)) /\ files \in [Names -> File(attempt)]
      /\ attempt \in Nat \ {0} /\ RefineTypeOK
  BY TypeTerms DEF TypeInv
<1> USE DEF GoTo
<1> DEFINE Kept == /\ pc \in Lines /\ frame \in SUBSET Stages
                   /\ report \in {"none", "clean", "critical"} /\ delivered \in BOOLEAN
                   /\ audit \in Seq({"denied", "approved", "executed", "failed"})
                   /\ told \in {"nothing", "code0", "code1", "code2", "summary", "raised"}
<1>k. Kept
  BY <1>0, Zenon DEF RefineTypeOK
<1>opts. OptsInv'
  <2>1. opts' = opts
    BY Zenon DEF Next, vars, Evaluate, Start, Ingest, Aggregate, Validate, Publish, PublishFails,
       PersistNotices, SkipFeature, Apply, EnforceConsent, ComplianceBreaks, WriteReport,
       Deliver, DeliverFails, Archive, Complete, Leave, StageFails
  <2> QED
    BY <2>1 DEF TypeInv, OptsInv
<1> SUFFICES RefineTypeOK'
  BY <1>opts DEF TypeInv
<1>a. ASSUME NEW status \in {"denied", "approved", "executed", "failed"}, Audited(status)
      PROVE  audit' \in Seq({"denied", "approved", "executed", "failed"})
  BY <1>k, <1>a, Appended DEF Audited
<1>1. CASE Evaluate
  <2>1. audit' = <<"denied">> \/ audit' = <<"approved">>
    BY <1>1, <1>opts DEF Evaluate, OptsInv, Requests, TypeInv
  <2>2. audit' \in Seq({"denied", "approved", "executed", "failed"})
    <3>1. \A s \in {"denied", "approved"} : <<s>> \in Seq({"denied", "approved", "executed", "failed"})
      OBVIOUS
    <3> QED
      BY <2>1, <3>1
  <2>3. told' \in {"nothing", "code0", "code1", "code2", "summary", "raised"} /\ pc' \in Lines
    BY <1>1, <1>k DEF Evaluate, OptsInv, Requests, TypeInv, Lines
  <2> QED
    BY <1>0, <1>1, <1>k, <2>2, <2>3, QuietTypes DEF Evaluate
<1>2. CASE Start
  <2>1. CASE Emit("START", {}) /\ pc' = "ingesting" /\ UNCHANGED <<audit, told>>
    <3>1. lineage' \in Seq(Event(attempt'))
      BY <1>2, <2>1, Emitted DEF Start
    <3>2. attempt' \in Attempts
      BY <1>0, <1>2 DEF Start, RefineTypeOK
    <3> QED
      BY <1>0, <1>2, <1>k, <2>1, <3>1, <3>2, FromTerms DEF Start, Lines
  <2>2. CASE Audited("failed") /\ told' = BadAnswer("setup") /\ pc' = "done" /\ lineage' = lineage
    <3>1. told' \in {"raised", "code1", "code2"}
      BY <2>2 DEF BadAnswer
    <3> QED
      BY <1>0, <1>2, <1>k, <1>a, <2>2, <3>1, QuietTypes DEF Start, Lines
  <2> QED
    BY <1>2, <2>1, <2>2 DEF Start
<1>3. CASE Ingest
  <2>1. frame' \in SUBSET Stages /\ pc' \in Lines
    BY <1>3 DEF Ingest, Redacted, Stages, Lines
  <2> QED
    BY <1>0, <1>3, <1>k, <2>1, QuietTypes DEF Ingest
<1>4. CASE Aggregate
  <2>1. frame' \in SUBSET Stages /\ pc' \in Lines
    BY <1>4 DEF Aggregate, Stages, Lines
  <2> QED
    BY <1>0, <1>4, <1>k, <2>1, QuietTypes DEF Aggregate
<1>5. CASE Validate
  <2>1. frame' \in SUBSET Stages /\ pc' \in Lines /\ report' \in {"none", "clean", "critical"}
    BY <1>5, <1>k DEF Validate, Redacted, Stages, Lines
  <2> QED
    BY <1>0, <1>5, <1>k, <2>1, QuietTypes DEF Validate
<1>names. PublishedNames \in SUBSET Names
  BY DEF PublishedNames, Names
<1>bundle. Bundle[1] \in Lines
  BY DEF Bundle, Bundled, Lines
<1>6. CASE Publish
  <2>1. pc' \in Lines /\ report' \in {"none", "clean", "critical"}
    BY <1>6, <1>k, <1>bundle DEF Publish, Lines
  <2>2. files' \in [Names -> File(attempt)]
    BY <1>6, <1>names, SavedTypes DEF Publish
  <2> QED
    BY <1>0, <1>6, <1>k, <2>1, <2>2, QuietTypes DEF Publish
<1>7. CASE PublishFails
  <2>1. files' \in [Names -> File(attempt)]
    BY <1>7, SavedTypes DEF PublishFails, Names
  <2> QED
    BY <1>7, <1>k, <2>1, FailedTypes DEF PublishFails
<1>8. CASE PersistNotices
  <2>1. [by |-> attempt, stages |-> {}] \in File(attempt)
    BY <1>0 DEF File
  <2>2. files' \in [Names -> File(attempt)]
    BY <1>0, <1>8, <2>1 DEF PersistNotices
  <2>3. pc' \in Lines
    BY <1>8, <1>bundle DEF PersistNotices
  <2> QED
    BY <1>0, <1>8, <1>k, <2>2, <2>3, QuietTypes DEF PersistNotices
<1>after. \A feature \in Bundled : After(feature) \in Lines
  BY AfterFeature DEF Lines
<1>9. CASE \E feature \in Bundled : SkipFeature(feature)
  BY <1>0, <1>9, <1>k, <1>after, QuietTypes DEF SkipFeature
<1>10. CASE \E feature \in Bundled : Apply(feature)
  <2>1. PICK feature \in Bundled : Apply(feature)
    BY <1>10
  <2>2. frame' \in SUBSET Stages
    BY <2>1, <1>k DEF Apply, Stages
  <2> QED
    BY <1>0, <1>k, <1>after, <2>1, <2>2, QuietTypes DEF Apply
<1>11. CASE EnforceConsent
  BY <1>0, <1>11, <1>k, FailedTypes DEF EnforceConsent
<1>12. CASE ComplianceBreaks
  <2>1. pc' \in Lines
    BY <1>12, <1>after DEF ComplianceBreaks, Bundled, Bundle
  <2> QED
    BY <1>0, <1>12, <1>k, <2>1, QuietTypes DEF ComplianceBreaks
<1>13. CASE WriteReport
  <2>1. files' \in [Names -> File(attempt)]
    BY <1>13, SavedTypes DEF WriteReport, Names
  <2> QED
    BY <1>0, <1>13, <1>k, <2>1, QuietTypes DEF WriteReport, Lines
<1>14. CASE Deliver
  BY <1>0, <1>14, <1>k, QuietTypes DEF Deliver, Lines
<1>15. CASE DeliverFails
  BY <1>0, <1>15, <1>k, FailedTypes DEF DeliverFails
<1>16. CASE Archive
  <2>1. files' \in [Names -> File(attempt)]
    BY <1>0, <1>16 DEF Archive, Names
  <2> QED
    BY <1>0, <1>16, <1>k, <2>1, QuietTypes DEF Archive, Lines
<1>17. CASE Complete
  <2>1. lineage' \in Seq(Event(attempt'))
    BY <1>17, Emitted DEF Complete
  <2>2. attempt' \in Attempts
    BY <1>0, <1>17 DEF Complete, RefineTypeOK
  <2> QED
    BY <1>0, <1>17, <1>k, <2>1, <2>2, FromTerms DEF Complete, Lines
<1>18. CASE Leave
  <2>1. audit' \in Seq({"denied", "approved", "executed", "failed"})
    BY <1>18, <1>a DEF Leave
  <2>2. told' \in {"nothing", "code0", "code1", "code2", "summary", "raised"}
    BY <1>18 DEF Leave, GoodAnswer, BadAnswer
  <2> QED
    BY <1>0, <1>18, <1>k, <2>1, <2>2, QuietTypes DEF Leave, Lines
<1>19. CASE StageFails
  BY <1>0, <1>19, <1>k, FailedTypes DEF StageFails
<1>20. CASE UNCHANGED vars
  BY <1>0, <1>20, <1>k, QuietTypes DEF vars
<1> QED
  BY <1>1, <1>2, <1>3, <1>4, <1>5, <1>6, <1>7, <1>8, <1>9, <1>10, <1>11, <1>12, <1>13,
     <1>14, <1>15, <1>16, <1>17, <1>18, <1>19, <1>20, Zenon DEF Next

-----------------------------------------------------------------------------
(* Files *)

\* Only the end answers.
LEMMA AnswerStep ==
    ASSUME TypeInv, AnswerInv, [Next]_vars
    PROVE  AnswerInv'
<1> USE DEF AnswerInv, GoTo, At
<1>1. CASE Evaluate
  BY <1>1 DEF Evaluate, TypeInv, OptsInv, Requests
<1>2. CASE Start
  BY <1>2 DEF Start
<1>3. ASSUME NEW kind, Fails(kind), pc # "done" PROVE AnswerInv'
  BY <1>3, Failed
<1>4. CASE PublishFails \/ EnforceConsent \/ DeliverFails \/ StageFails
  BY <1>3, <1>4 DEF PublishFails, EnforceConsent, DeliverFails, StageFails
<1>5. CASE Leave
  BY <1>5 DEF Leave
<1>6. CASE Next /\ ~(Evaluate \/ Start \/ PublishFails \/ EnforceConsent \/ DeliverFails
                       \/ StageFails \/ Leave)
  <2>1. pc # "done" /\ told' = told
    BY <1>6, BundledNames DEF Next, Ingest, Aggregate, Validate, Publish, PersistNotices, SkipFeature,
       Apply, ComplianceBreaks, WriteReport, Deliver, Archive, Complete
  <2> QED
    BY <2>1
<1>7. CASE UNCHANGED vars
  BY <1>7 DEF vars
<1> QED
  BY <1>1, <1>2, <1>4, <1>5, <1>6, <1>7

\* An attempt that fails leaves nothing to be whole.
LEMMA FailedWhole ==
    ASSUME TypeInv, AnswerInv, pc # "done", NEW kind, Fails(kind)
    PROVE  WholeInv'
<1>1. pc' \in {"starting", "done"} /\ ~Success'
  BY Failed DEF AnswerInv, Success
<1> QED
  BY <1>1, BundledNames DEF WholeInv, AfterPublishing

\* Files, report and answer stay what they are where FilesWhole matters.
LEMMA KeptWhole ==
    ASSUME FilesWhole, opts' = opts, attempt' = attempt, report' = report,
           \A n \in {"parquet", "workbook", "daily"} : files'[n] = files[n]
    PROVE  FilesWhole'
BY DEF FilesWhole, PublishedNames

\* Every step keeps the files those of one frame and one attempt.
LEMMA WholeStep ==
    ASSUME TypeInv, AnswerInv, WholeInv, [Next]_vars
    PROVE  WholeInv'
<1>0. /\ files \in [Names -> File(attempt)] /\ attempt \in Nat \ {0} /\ opts \in Requests
  BY TypeTerms DEF TypeInv, OptsInv
<1> USE DEF GoTo, At
<1>b. /\ AfterPublishing = {"noticing", "reporting", "delivering", "archiving", "completing",
                            "entity_resolution", "geospatial", "enrichment", "compliance"}
      /\ Bundle[1] = "entity_resolution"
  BY BundledNames DEF AfterPublishing, Bundle
<1>q. ASSUME pc # "done" PROVE ~Success
  BY <1>q DEF AnswerInv, Success
<1>1. CASE Evaluate
  <2>1. ~Success' /\ pc' \in {"starting", "done"}
    BY <1>0, <1>1, <1>q DEF Evaluate, Success, Requests
  <2> QED
    BY <2>1, <1>b DEF WholeInv
<1>2. CASE Start
  <2>1. ~Success' /\ pc' \in {"ingesting", "done"}
    BY <1>2, <1>q DEF Start, Success, BadAnswer
  <2> QED
    BY <2>1, <1>b DEF WholeInv
<1>3. CASE Ingest
  <2>1. ~Success' /\ pc' \in {"aggregating", "publishing"}
    BY <1>3, <1>q DEF Ingest, Success
  <2>2. pc' = "publishing" => FrameWhole'
    BY <1>3 DEF Ingest, FrameWhole, Redacted
  <2> QED
    BY <2>1, <2>2, <1>b DEF WholeInv
<1>4. CASE Aggregate
  <2>1. ~Success' /\ pc' = "validating"
    BY <1>4, <1>q DEF Aggregate, Success
  <2> QED
    BY <2>1, <1>b DEF WholeInv
<1>5. CASE Validate
  <2>1. ~Success' /\ pc' = "publishing"
    BY <1>5, <1>q DEF Validate, Success
  <2>2. FrameWhole'
    BY <1>5 DEF Validate, FrameWhole, Redacted
  <2> QED
    BY <2>1, <2>2, <1>b DEF WholeInv
<1>6. CASE Publish
  <2>1. ~Success' /\ pc' \in {"noticing", "entity_resolution"}
    BY <1>6, <1>b, <1>q DEF Publish, Success
  <2>2. \A n \in PublishedNames : files'[n] = [by |-> attempt, stages |-> frame]
    BY <1>6 DEF Publish, Saved, PublishedNames, Names
  <2>3. "workbook" \in PublishedNames
    BY DEF PublishedNames
  <2>4. FrameWhole /\ PublishedNames' = PublishedNames
    BY <1>6 DEF Publish, WholeInv, PublishedNames
  <2>5. FilesWhole'
    <3>1. files'["workbook"].stages = frame
      BY <2>2, <2>3
    <3>2. opts' = opts /\ attempt' = attempt /\ (opts.rows = "some" => report' = report)
      BY <1>6 DEF Publish
    <3> QED
      BY <2>2, <2>4, <3>1, <3>2 DEF FilesWhole, FrameWhole
  <2> QED
    BY <2>1, <2>5, <1>b DEF WholeInv
<1>7. CASE PublishFails \/ EnforceConsent \/ DeliverFails \/ StageFails
  BY <1>7, FailedWhole, BundledNames DEF PublishFails, EnforceConsent, DeliverFails, StageFails
<1>8. CASE PersistNotices
  <2>1. ~Success' /\ pc' = "entity_resolution" /\ FilesWhole
    BY <1>8, <1>b, <1>q DEF PersistNotices, Success, WholeInv
  <2>2. \A n \in {"parquet", "workbook", "daily"} : files'[n] = files[n]
    BY <1>0, <1>8 DEF PersistNotices, Names
  <2>3. FilesWhole'
    BY <1>8, <2>1, <2>2, KeptWhole DEF PersistNotices
  <2> QED
    BY <2>1, <2>3, <1>b DEF WholeInv
<1>f. ASSUME NEW feature \in Bundled, pc = feature, pc' = After(feature), told' = told,
             opts' = opts, attempt' = attempt, report' = report, files' = files
      PROVE  WholeInv'
  <2>1. ~Success' /\ FilesWhole
    BY <1>b, <1>q, <1>f, BundledNames DEF Success, WholeInv
  <2>2. FilesWhole'
    BY <1>f, <2>1, KeptWhole
  <2>3. pc' \in {"entity_resolution", "geospatial", "enrichment", "compliance", "reporting"}
        \/ (pc' = "archiving" /\ opts.via # "run")
    <3>1. After(feature) \in Bundled \cup (IF opts.via = "run" THEN {"reporting"} ELSE {"archiving"})
      BY AfterFeature
    <3> QED
      BY <1>f, <3>1, BundledNames
  <2> QED
    BY <1>f, <2>1, <2>2, <2>3, <1>b DEF WholeInv
<1>9. CASE \E feature \in Bundled : SkipFeature(feature) \/ Apply(feature)
  BY <1>9, <1>f DEF SkipFeature, Apply
<1>10. CASE ComplianceBreaks
  BY <1>10, <1>f, BundledNames DEF ComplianceBreaks
<1>11. CASE WriteReport
  <2>1. ~Success' /\ pc' = "delivering" /\ FilesWhole
    BY <1>11, <1>b, <1>q DEF WriteReport, Success, WholeInv
  <2>2. /\ \A n \in {"parquet", "workbook", "daily"} : files'[n] = files[n]
        /\ files'["report"].by = attempt
    BY <1>0, <1>11 DEF WriteReport, Names, Saved
  <2>3. FilesWhole'
    BY <1>11, <2>1, <2>2, KeptWhole DEF WriteReport
  <2> QED
    BY <1>11, <2>1, <2>2, <2>3, <1>b DEF WholeInv, WriteReport
<1>12. CASE Deliver
  <2>1. ~Success' /\ pc' = "archiving" /\ FilesWhole
    BY <1>12, <1>b, <1>q DEF Deliver, Success, WholeInv
  <2>2. FilesWhole'
    BY <1>12, <2>1, KeptWhole DEF Deliver
  <2> QED
    BY <1>12, <2>1, <2>2, <1>b DEF WholeInv, Deliver
<1>13. CASE Archive
  <2>1. ~Success' /\ pc' = "completing" /\ FilesWhole
    BY <1>13, <1>b, <1>q DEF Archive, Success, WholeInv
  <2>2. /\ \A n \in {"parquet", "workbook", "daily", "report"} : files'[n] = files[n]
        /\ opts.archive => files'["archive"] = files'["workbook"]
    BY <1>0, <1>13 DEF Archive, Names
  <2>3. FilesWhole'
    BY <1>13, <2>1, <2>2, KeptWhole DEF Archive
  <2> QED
    BY <1>13, <2>1, <2>2, <2>3, <1>b DEF WholeInv, Archive
<1>14. CASE Complete
  <2>1. ~Success' /\ pc' = "leaving" /\ FilesWhole
    BY <1>14, <1>b, <1>q DEF Complete, Success, WholeInv
  <2>2. FilesWhole'
    BY <1>14, <2>1, KeptWhole DEF Complete
  <2> QED
    BY <1>14, <2>1, <2>2, <1>b DEF WholeInv, Complete
<1>15. CASE Leave
  <2>1. FilesWhole /\ pc' = "done"
    BY <1>15 DEF Leave, WholeInv
  <2>2. FilesWhole'
    BY <1>15, <2>1, KeptWhole DEF Leave
  <2> QED
    BY <1>15, <2>1, <2>2, <1>b DEF WholeInv, Leave
<1>16. CASE UNCHANGED vars
  <2>1. FilesWhole => FilesWhole'
    BY <1>16, KeptWhole DEF vars
  <2>2. FrameWhole => FrameWhole'
    BY <1>16 DEF vars, FrameWhole
  <2> QED
    BY <1>16, <2>1, <2>2 DEF vars, WholeInv, Success
<1> QED
  BY <1>1, <1>2, <1>3, <1>4, <1>5, <1>6, <1>7, <1>8, <1>9, <1>10, <1>11, <1>12, <1>13,
     <1>14, <1>15, <1>16, Zenon DEF Next

-----------------------------------------------------------------------------
(* Lineage *)

\* Every event belongs to an attempt that was made.
LEMMA EventsAttempt ==
    ASSUME NEW a, NEW s \in Seq(Event(a))
    PROVE  \A i \in 1..Len(s) : s[i].attempt \in 1..a
<1>1. \A i \in 1..Len(s) : s[i] \in Event(a)
  OBVIOUS
<1> QED
  BY <1>1 DEF Event

\* A failing attempt keeps the order of the events and ends their attempt.
LEMMA FailedLineage ==
    ASSUME TypeInv, AnswerInv, LineageInv, CompleteInv, pc \in Working, NEW kind, Fails(kind)
    PROVE  LineageInv' /\ CompleteInv'
<1>0. attempt \in Nat \ {0} /\ lineage \in Seq(Event(attempt)) /\ lineage' \in Seq(Event(attempt))
  BY TypeTerms, Failed, Emitted DEF TypeInv
<1>1. /\ Len(lineage') \in {Len(lineage), Len(lineage) + 1} /\ Len(lineage) \in Nat
      /\ \A i \in 1..Len(lineage) : lineage'[i] = lineage[i]
      /\ Len(lineage') > Len(lineage) =>
             /\ lineage'[Len(lineage) + 1].type = "FAIL"
             /\ lineage'[Len(lineage) + 1].attempt = attempt
  <2>1. Emit("FAIL", {"workbook"}) /\ {"workbook"} \in SUBSET {"workbook", "archive"}
    BY Failed
  <2>2. /\ Len(lineage') \in {Len(lineage), Len(lineage) + 1} /\ Len(lineage) \in Nat
        /\ \A i \in 1..Len(lineage) : lineage'[i] = lineage[i]
        /\ Len(lineage') > Len(lineage) =>
               lineage'[Len(lineage) + 1] =
                   [type |-> "FAIL", attempt |-> attempt, outputs |-> {"workbook"}]
    BY <2>1, Emitted
  <2> QED
    BY <2>2
<1>2. /\ \A i \in 1..Len(lineage) : lineage[i].attempt \in 1..attempt
      /\ \A i \in 1..Len(lineage') : lineage'[i].attempt \in 1..attempt
  BY <1>0, EventsAttempt
<1>3. \/ (pc' = "starting" /\ attempt' = attempt + 1 /\ ~Success')
      \/ (pc' = "done" /\ ~Success')
  BY Failed, BundledNames DEF AnswerInv, Success, Working, AfterPublishing
<1>4. /\ pc' \notin Working /\ pc' # "leaving" /\ ~Success'
      /\ pc' \in {"evaluated", "starting"} => attempt' = attempt + 1
  BY <1>3, BundledNames DEF Working, AfterPublishing
<1>5. pc \notin {"leaving", "done"}
  BY BundledNames DEF Working, AfterPublishing
<1>6. \A i \in 1..Len(lineage') : lineage'[i].type # "COMPLETE"
  BY <1>1, <1>5 DEF CompleteInv
<1>7. \A i, k \in 1..Len(lineage') : i < k =>
           \/ lineage'[i].attempt < lineage'[k].attempt
           \/ /\ lineage'[i].attempt = lineage'[k].attempt
              /\ lineage'[i].type = "START" /\ lineage'[k].type # "START"
  <2> SUFFICES ASSUME NEW i \in 1..Len(lineage'), NEW k \in 1..Len(lineage'), i < k
               PROVE  \/ lineage'[i].attempt < lineage'[k].attempt
                      \/ /\ lineage'[i].attempt = lineage'[k].attempt
                         /\ lineage'[i].type = "START" /\ lineage'[k].type # "START"
    OBVIOUS
  <2>1. CASE k \in 1..Len(lineage)
    <3>1. i \in 1..Len(lineage) /\ lineage'[i] = lineage[i] /\ lineage'[k] = lineage[k]
      BY <1>1, <2>1
    <3> QED
      BY <2>1, <3>1 DEF LineageInv
  <2>2. CASE k = Len(lineage) + 1
    <3>1. i \in 1..Len(lineage) /\ lineage'[i] = lineage[i]
      BY <1>1, <2>2
    <3>2. lineage[i].attempt < attempt \/ lineage[i].type = "START"
      BY <3>1 DEF LineageInv
    <3>3. lineage'[k].attempt = attempt /\ lineage'[k].type = "FAIL"
      BY <1>1, <2>2
    <3> QED
      BY <1>2, <3>1, <3>2, <3>3
  <2> QED
    BY <1>1, <2>1, <2>2
<1>8. pc' \in {"evaluated", "starting"} =>
          \A i \in 1..Len(lineage') : lineage'[i].attempt < attempt'
  BY <1>0, <1>2, <1>4
<1> QED
  BY <1>4, <1>6, <1>7, <1>8 DEF LineageInv, CompleteInv

\* A step that emits nothing, inside an attempt.
LEMMA QuietLineage ==
    ASSUME TypeInv, AnswerInv, LineageInv, CompleteInv, pc \in Working,
           lineage' = lineage, attempt' = attempt, told' = told, pc' \in Working
    PROVE  LineageInv' /\ CompleteInv'
<1>1. pc \notin {"leaving", "done", "evaluated", "starting"}
      /\ pc' \notin {"leaving", "done", "evaluated", "starting"}
  BY BundledNames DEF Working, AfterPublishing
<1>2. ~Success'
  BY <1>1 DEF AnswerInv, Success
<1>3. CompleteInv'
  BY <1>1, <1>2 DEF CompleteInv
<1>4. LineageInv'
  BY <1>1 DEF LineageInv
<1> QED
  BY <1>3, <1>4

\* Every step keeps the lineage events in agreement with the attempts.
LEMMA LineageStep ==
    ASSUME TypeInv, AnswerInv, WholeInv, LineageInv, CompleteInv, [Next]_vars
    PROVE  LineageInv' /\ CompleteInv'
<1>0. attempt \in Nat \ {0} /\ lineage \in Seq(Event(attempt)) /\ opts \in Requests
  BY TypeTerms DEF TypeInv, OptsInv
<1>t. \A i \in 1..Len(lineage) : lineage[i].attempt \in 1..attempt
  BY <1>0, EventsAttempt
<1> USE DEF GoTo, At
<1>w. Working = {"ingesting", "aggregating", "validating", "publishing", "noticing", "reporting",
                 "delivering", "archiving", "completing",
                 "entity_resolution", "geospatial", "enrichment", "compliance"}
  BY BundledNames DEF Working, AfterPublishing
<1>q. ASSUME pc # "done" PROVE ~Success
  BY <1>q DEF AnswerInv, Success
<1>c. ASSUME pc \notin {"leaving", "done"} PROVE \A i \in 1..Len(lineage) : lineage[i].type # "COMPLETE"
  BY <1>c DEF CompleteInv
<1>1. CASE Evaluate
  <2>1. /\ ~Success' /\ pc' \in {"starting", "done"}
        /\ UNCHANGED <<lineage, attempt>> /\ pc = "evaluated"
    BY <1>0, <1>1, <1>q DEF Evaluate, Success, Requests
  <2>2. CompleteInv'
    BY <1>c, <2>1 DEF CompleteInv
  <2>3. LineageInv'
    BY <1>w, <2>1 DEF LineageInv
  <2> QED
    BY <2>2, <2>3
<1>2. CASE Start
  <2>1. CASE Emit("START", {}) /\ pc' = "ingesting" /\ UNCHANGED <<audit, told>>
    <3>0. /\ Len(lineage') \in {Len(lineage), Len(lineage) + 1} /\ Len(lineage) \in Nat
          /\ \A i \in 1..Len(lineage) : lineage'[i] = lineage[i]
          /\ Len(lineage') > Len(lineage) =>
                 lineage'[Len(lineage) + 1] =
                     [type |-> "START", attempt |-> attempt, outputs |-> {}]
      BY <2>1, Emitted
    <3>1. /\ Len(lineage') \in {Len(lineage), Len(lineage) + 1} /\ Len(lineage) \in Nat
          /\ \A i \in 1..Len(lineage) : lineage'[i] = lineage[i]
          /\ Len(lineage') > Len(lineage) =>
                 /\ lineage'[Len(lineage) + 1].type = "START"
                 /\ lineage'[Len(lineage) + 1].attempt = attempt
      BY <3>0
    <3>2. \A i \in 1..Len(lineage) : lineage[i].attempt < attempt
      BY <1>2 DEF Start, LineageInv
    <3>3. \A i, k \in 1..Len(lineage') : i < k =>
               \/ lineage'[i].attempt < lineage'[k].attempt
               \/ /\ lineage'[i].attempt = lineage'[k].attempt
                  /\ lineage'[i].type = "START" /\ lineage'[k].type # "START"
      <4> SUFFICES ASSUME NEW i \in 1..Len(lineage'), NEW k \in 1..Len(lineage'), i < k
                   PROVE  \/ lineage'[i].attempt < lineage'[k].attempt
                          \/ /\ lineage'[i].attempt = lineage'[k].attempt
                             /\ lineage'[i].type = "START" /\ lineage'[k].type # "START"
        OBVIOUS
      <4>1. CASE k \in 1..Len(lineage)
        <5>1. i \in 1..Len(lineage) /\ lineage'[i] = lineage[i] /\ lineage'[k] = lineage[k]
          BY <3>1, <4>1
        <5> QED
          BY <4>1, <5>1 DEF LineageInv
      <4>2. CASE k = Len(lineage) + 1
        <5>1. i \in 1..Len(lineage) /\ lineage'[i] = lineage[i] /\ lineage'[k].attempt = attempt
          BY <3>1, <4>2
        <5> QED
          BY <3>2, <5>1
      <4> QED
        BY <3>1, <4>1, <4>2
    <3>4. /\ pc = "starting" /\ attempt' = attempt /\ ~Success'
          /\ pc' \notin {"leaving", "done", "evaluated", "starting"}
      BY <1>2, <1>q, <2>1 DEF Start, Success
    <3>5. \A i \in 1..Len(lineage') : lineage'[i].attempt < attempt \/ lineage'[i].type = "START"
      BY <3>1, <3>2
    <3>6. \A i \in 1..Len(lineage') : lineage'[i].type # "COMPLETE"
      BY <1>c, <3>1, <3>4
    <3>7. CompleteInv'
      BY <3>4, <3>6 DEF CompleteInv
    <3>8. LineageInv'
      BY <3>3, <3>4, <3>5 DEF LineageInv
    <3> QED
      BY <3>7, <3>8
  <2>2. CASE told' = BadAnswer("setup") /\ pc' = "done" /\ lineage' = lineage
    <3>1. ~Success' /\ pc = "starting" /\ attempt' = attempt
      BY <1>2, <2>2 DEF Start, BadAnswer, Success
    <3>2. CompleteInv'
      BY <1>c, <2>2, <3>1 DEF CompleteInv
    <3>3. LineageInv'
      BY <1>w, <2>2, <3>1 DEF LineageInv
    <3> QED
      BY <3>2, <3>3
  <2> QED
    BY <1>2, <2>1, <2>2 DEF Start
<1>3. CASE PublishFails \/ EnforceConsent \/ DeliverFails \/ StageFails
  BY <1>3, <1>w, FailedLineage DEF PublishFails, EnforceConsent, DeliverFails, StageFails
<1>4. CASE Ingest \/ Aggregate \/ Validate \/ Publish \/ PersistNotices \/ WriteReport \/ Deliver
           \/ Archive
  <2>1. Bundle[1] = "entity_resolution"
    BY DEF Bundle
  <2>2. /\ pc \in Working /\ pc' \in Working
        /\ lineage' = lineage /\ attempt' = attempt /\ told' = told
    BY <1>4, <1>w, <2>1 DEF Ingest, Aggregate, Validate, Publish, PersistNotices, WriteReport,
       Deliver, Archive
  <2> QED
    BY <2>2, QuietLineage
<1>5. CASE \E feature \in Bundled : SkipFeature(feature) \/ Apply(feature)
  <2>1. PICK feature \in Bundled : pc = feature /\ pc' = After(feature)
                /\ lineage' = lineage /\ attempt' = attempt /\ told' = told
    BY <1>5 DEF SkipFeature, Apply
  <2>2. pc \in Working /\ pc' \in Working
    BY <2>1, AfterFeature DEF Working, AfterPublishing
  <2> QED
    BY <2>1, <2>2, QuietLineage
<1>6. CASE ComplianceBreaks
  <2>1. pc \in Working /\ pc' \in Working
    BY <1>6, AfterFeature, BundledNames DEF Working, AfterPublishing, ComplianceBreaks
  <2> QED
    BY <1>6, <2>1, QuietLineage DEF ComplianceBreaks
<1>7. CASE Complete
  <2> DEFINE outputs == IF opts.archive THEN {"workbook", "archive"} ELSE {"workbook"}
  <2>0. Emit("COMPLETE", outputs) /\ outputs \in SUBSET {"workbook", "archive"}
    BY <1>7 DEF Complete
  <2>1. /\ Len(lineage') \in {Len(lineage), Len(lineage) + 1} /\ Len(lineage) \in Nat
        /\ \A i \in 1..Len(lineage) : lineage'[i] = lineage[i]
        /\ Len(lineage') > Len(lineage) =>
               /\ lineage'[Len(lineage) + 1].type = "COMPLETE"
               /\ lineage'[Len(lineage) + 1].attempt = attempt
               /\ lineage'[Len(lineage) + 1].outputs = outputs
    <3>1. /\ Len(lineage') \in {Len(lineage), Len(lineage) + 1} /\ Len(lineage) \in Nat
          /\ \A i \in 1..Len(lineage) : lineage'[i] = lineage[i]
          /\ Len(lineage') > Len(lineage) =>
                 lineage'[Len(lineage) + 1] =
                     [type |-> "COMPLETE", attempt |-> attempt, outputs |-> outputs]
      <4> HIDE DEF outputs
      <4> QED
        BY <2>0, Emitted
    <3> HIDE DEF outputs
    <3> QED
      BY <3>1
  <2>2. /\ pc = "completing" /\ pc' = "leaving" /\ attempt' = attempt /\ files' = files /\ ~Success'
    BY <1>7, <1>q DEF Complete, Success
  <2>3. \A i \in 1..Len(lineage) : lineage[i].attempt < attempt \/ lineage[i].type = "START"
    BY <1>w, <2>2 DEF LineageInv
  <2>4. \A i, k \in 1..Len(lineage') : i < k =>
             \/ lineage'[i].attempt < lineage'[k].attempt
             \/ /\ lineage'[i].attempt = lineage'[k].attempt
                /\ lineage'[i].type = "START" /\ lineage'[k].type # "START"
    <3> SUFFICES ASSUME NEW i \in 1..Len(lineage'), NEW k \in 1..Len(lineage'), i < k
                 PROVE  \/ lineage'[i].attempt < lineage'[k].attempt
                        \/ /\ lineage'[i].attempt = lineage'[k].attempt
                           /\ lineage'[i].type = "START" /\ lineage'[k].type # "START"
      OBVIOUS
    <3>1. CASE k \in 1..Len(lineage)
      <4>1. i \in 1..Len(lineage) /\ lineage'[i] = lineage[i] /\ lineage'[k] = lineage[k]
        BY <2>1, <3>1
      <4> QED
        BY <3>1, <4>1 DEF LineageInv
    <3>2. CASE k = Len(lineage) + 1
      <4>1. i \in 1..Len(lineage) /\ lineage'[i] = lineage[i]
        BY <2>1, <3>2
      <4>2. lineage'[k].attempt = attempt /\ lineage'[k].type = "COMPLETE"
        BY <2>1, <3>2
      <4>3. lineage[i].attempt < attempt \/ lineage[i].type = "START"
        BY <2>3, <4>1
      <4>4. lineage[i].attempt \in 1..attempt
        BY <1>t, <4>1
      <4> QED
        BY <1>0, <4>1, <4>2, <4>3, <4>4
    <3> QED
      BY <2>1, <3>1, <3>2
  <2>5. FilesWhole /\ (opts.archive => files["archive"] = files["workbook"])
    BY <2>2 DEF WholeInv, AfterPublishing
  <2>6. files["workbook"].by = attempt
    BY <2>5 DEF FilesWhole, PublishedNames
  <2>7. \A n \in outputs : files[n].by = attempt
    BY <2>5, <2>6
  <2>8. /\ \A i \in 1..Len(lineage) : lineage'[i].type # "COMPLETE"
        /\ \A i \in 1..Len(lineage') : lineage'[i].type = "FAIL" => lineage'[i].attempt < attempt
    BY <1>c, <2>1, <2>2, <2>3
  <2>9. \A i \in 1..Len(lineage') : lineage'[i].type = "COMPLETE" =>
            \A n \in lineage'[i].outputs : files'[n].by = lineage'[i].attempt
    BY <2>1, <2>2, <2>7, <2>8
  <2>10. CompleteInv'
    BY <2>2, <2>8, <2>9 DEF CompleteInv
  <2>11. LineageInv'
    BY <1>w, <2>2, <2>4 DEF LineageInv
  <2> QED
    BY <2>10, <2>11
<1>8. CASE Leave
  <2>1. pc = "leaving" /\ pc' = "done" /\ UNCHANGED <<attempt, files, lineage>>
    BY <1>8 DEF Leave
  <2>2. CompleteInv'
    BY <2>1 DEF CompleteInv
  <2>3. LineageInv'
    BY <1>w, <2>1 DEF LineageInv
  <2> QED
    BY <2>2, <2>3
<1>9. CASE UNCHANGED vars
  BY <1>9 DEF vars, LineageInv, CompleteInv, Success
<1> QED
  BY <1>1, <1>2, <1>3, <1>4, <1>5, <1>6, <1>7, <1>8, <1>9, Zenon DEF Next

-----------------------------------------------------------------------------
(* Audit *)

\* The record of an approved request, concluded.
LEMMA Concluded ==
    ASSUME NEW status \in {"executed", "failed"}
    PROVE  Append(<<"approved">>, status) = <<"approved", status>>
<1> DEFINE S == {"approved", "executed", "failed"}
           s == <<"approved">>
           t == <<"approved", status>>
<1>1. s \in Seq(S) /\ Len(s) = 1 /\ s[1] = "approved"
  OBVIOUS
<1>2. t \in Seq(S) /\ Len(t) = 2 /\ t[1] = "approved" /\ t[2] = status
  OBVIOUS
<1>3. /\ Append(s, status) \in Seq(S) /\ Len(Append(s, status)) = 2
      /\ Append(s, status)[1] = "approved" /\ Append(s, status)[2] = status
  <2> HIDE DEF s
  <2>1. status \in S
    OBVIOUS
  <2> HIDE DEF S
  <2>2. /\ Append(s, status) \in Seq(S)
        /\ Len(Append(s, status)) = Len(s) + 1
        /\ \A i \in 1..Len(s) : Append(s, status)[i] = s[i]
        /\ Append(s, status)[Len(s) + 1] = status
    BY <1>1, <2>1, Appended
  <2>3. Len(s) = 1 /\ Len(s) + 1 = 2 /\ 1 \in 1..Len(s)
    BY <1>1
  <2> QED
    BY <1>1, <2>2, <2>3, Zenon
<1>4. \A i \in 1..2 : Append(s, status)[i] = t[i]
  <2> HIDE DEF s, t
  <2>1. \A i \in 1..2 : i = 1 \/ i = 2
    OBVIOUS
  <2> QED
    BY <1>2, <1>3, <2>1
<1> HIDE DEF s, t
<1>5. Append(s, status) = t
  BY <1>2, <1>3, <1>4, SeqEqual
<1> QED
  BY <1>5 DEF s, t

\* What an agent is told of a failure.
LEMMA AgentRaises ==
    ASSUME opts.via = "agent", NEW kind
    PROVE  BadAnswer(kind) = "raised"
BY DEF BadAnswer

\* Nothing changes for a request that is not an agent's, and an agent's is not
\* tried again: a failing attempt concludes it.
LEMMA FailedAudit ==
    ASSUME OptsInv, AuditInv, opts' = opts, pc \in Working, NEW kind, Fails(kind)
    PROVE  AuditInv'
<1>1. CASE opts.via # "agent"
  BY <1>1 DEF AuditInv
<1>2. CASE opts.via = "agent"
  <2>1. /\ Audited("failed") /\ pc' = "done" /\ told' = "raised"
    BY <1>2, AgentRaises DEF Fails, GoTo
  <2>2. pc \notin {"evaluated", "done"}
    BY BundledNames DEF Working, AfterPublishing
  <2>3. audit = <<"approved">> /\ opts.decision = "approved"
    BY <1>2, <2>2 DEF AuditInv
  <2>4. audit' = <<"approved", "failed">>
    BY <1>2, <2>1, <2>3, Concluded DEF Audited
  <2> QED
    BY <2>1, <2>3, <2>4 DEF AuditInv, Success
<1> QED
  BY <1>1, <1>2

\* A step that leaves the audit alone, of a request that goes on.
LEMMA QuietAudit ==
    ASSUME AuditInv, opts' = opts, audit' = audit, pc \notin {"evaluated", "done"},
           pc' \notin {"evaluated", "done"}
    PROVE  AuditInv'
BY DEF AuditInv

\* Every step keeps the agent's audit trail in agreement with the request.
LEMMA AuditStep ==
    ASSUME TypeInv, AuditInv, [Next]_vars
    PROVE  AuditInv'
<1> USE DEF GoTo, At
<1>0. OptsInv /\ opts \in Requests
  BY DEF TypeInv, OptsInv
<1>w. Working = {"ingesting", "aggregating", "validating", "publishing", "noticing", "reporting",
                 "delivering", "archiving", "completing",
                 "entity_resolution", "geospatial", "enrichment", "compliance"}
  BY BundledNames DEF Working, AfterPublishing
<1>1. CASE Evaluate
  <2>1. /\ opts' = opts /\ lineage' = lineage /\ files' = files /\ pc = "evaluated"
    BY <1>1 DEF Evaluate
  <2>2. opts.decision \in {"denied", "approved", "malformed"}
    BY <1>0 DEF Requests
  <2>3. \/ opts.decision = "denied" /\ audit' = <<"denied">> /\ told' = "raised" /\ pc' = "done"
        \/ opts.decision = "malformed" /\ audit' = <<"approved">> /\ told' = "raised" /\ pc' = "done"
        \/ opts.decision = "approved" /\ audit' = <<"approved">> /\ pc' = "starting"
    BY <1>1, <2>2 DEF Evaluate
  <2>4. opts.via = "agent" => lineage = <<>> /\ \A n \in Names : files[n].by = 0
    BY <2>1 DEF AuditInv
  <2> QED
    BY <2>1, <2>3, <2>4 DEF AuditInv
<1>2. CASE Start
  <2>1. CASE pc' = "ingesting" /\ UNCHANGED <<audit, told>>
    <3>1. opts' = opts /\ pc = "starting"
      BY <1>2 DEF Start
    <3> QED
      BY <2>1, <3>1, QuietAudit
  <2>2. CASE Audited("failed") /\ told' = BadAnswer("setup") /\ pc' = "done"
    <3>1. opts' = opts /\ pc = "starting"
      BY <1>2 DEF Start
    <3>2. CASE opts.via # "agent"
      BY <3>1, <3>2 DEF AuditInv
    <3>3. CASE opts.via = "agent"
      <4>1. audit = <<"approved">> /\ opts.decision = "approved"
        BY <3>1, <3>3 DEF AuditInv
      <4>2. audit' = <<"approved", "failed">> /\ told' = "raised"
        BY <2>2, <3>3, <4>1, Concluded, AgentRaises DEF Audited
      <4> QED
        BY <2>2, <3>1, <4>1, <4>2 DEF AuditInv, Success
    <3> QED
      BY <3>2, <3>3
  <2> QED
    BY <1>2, <2>1, <2>2 DEF Start
<1>3. CASE PublishFails \/ EnforceConsent \/ DeliverFails \/ StageFails
  BY <1>0, <1>3, <1>w, FailedAudit DEF PublishFails, EnforceConsent, DeliverFails, StageFails
<1>4. CASE Ingest \/ Aggregate \/ Validate \/ Publish \/ PersistNotices \/ WriteReport \/ Deliver
           \/ Archive \/ Complete
  <2>1. Bundle[1] = "entity_resolution"
    BY DEF Bundle
  <2>2. /\ opts' = opts /\ audit' = audit
        /\ pc \notin {"evaluated", "done"} /\ pc' \notin {"evaluated", "done"}
    BY <1>4, <2>1 DEF Ingest, Aggregate, Validate, Publish, PersistNotices, WriteReport,
       Deliver, Archive, Complete
  <2> QED
    BY <2>2, QuietAudit
<1>5. CASE \E feature \in Bundled : SkipFeature(feature) \/ Apply(feature)
  <2>1. PICK feature \in Bundled : pc = feature /\ pc' = After(feature)
                /\ opts' = opts /\ audit' = audit
    BY <1>5 DEF SkipFeature, Apply
  <2>2. pc \notin {"evaluated", "done"} /\ pc' \notin {"evaluated", "done"}
    BY <2>1, AfterFeature, BundledNames
  <2> QED
    BY <2>1, <2>2, QuietAudit
<1>6. CASE ComplianceBreaks
  <2>1. "compliance" \in Bundled
    BY BundledNames
  <2>2. pc \notin {"evaluated", "done"} /\ pc' \notin {"evaluated", "done"}
    BY <1>6, <2>1, AfterFeature, BundledNames DEF ComplianceBreaks
  <2> QED
    BY <1>6, <2>2, QuietAudit DEF ComplianceBreaks
<1>7. CASE Leave
  <2>1. opts' = opts /\ pc = "leaving" /\ pc' = "done"
    BY <1>7 DEF Leave
  <2>2. CASE opts.via # "agent"
    BY <2>1, <2>2 DEF AuditInv
  <2>3. CASE opts.via = "agent"
    <3>1. audit = <<"approved">> /\ opts.decision = "approved"
      BY <2>1, <2>3 DEF AuditInv
    <3>2. \/ (audit' = <<"approved", "executed">> /\ told' = "summary")
          \/ (audit' = <<"approved", "failed">> /\ told' = "raised")
      BY <1>7, <2>3, <3>1, Concluded, AgentRaises DEF Leave, Audited, GoodAnswer
    <3> QED
      BY <2>1, <3>1, <3>2 DEF AuditInv, Success
  <2> QED
    BY <2>2, <2>3
<1>8. CASE UNCHANGED vars
  BY <1>8 DEF vars, AuditInv, Success
<1> QED
  BY <1>1, <1>2, <1>3, <1>4, <1>5, <1>6, <1>7, <1>8, Zenon DEF Next

-----------------------------------------------------------------------------
(* The invariant holds, and the theorems. *)

\* A request begins with the invariant.
LEMMA InitInv == Init => IInv
<1> SUFFICES ASSUME Init PROVE IInv
  OBVIOUS
<1> USE DEF Init
<1>1. OptsInv
  BY DEF OptsInv
<1>2. RefineTypeOK
  <2>1. attempt \in Attempts /\ attempt = 1
    BY TaskRetriesAssumption DEF Attempts
  <2>2. files \in [Names -> [by : 0..attempt, stages : SUBSET Stages]]
    BY <2>1 DEF Nothing
  <2>3. pc \in Lines
    BY DEF Lines
  <2>4. /\ lineage \in Seq([type : {"START", "COMPLETE", "FAIL"}, attempt : 1..attempt,
                            outputs : SUBSET {"workbook", "archive"}])
        /\ audit \in Seq({"denied", "approved", "executed", "failed"})
    OBVIOUS
  <2>5. /\ frame \in SUBSET Stages /\ report \in {"none", "clean", "critical"}
        /\ delivered \in BOOLEAN
        /\ told \in {"nothing", "code0", "code1", "code2", "summary", "raised"}
    OBVIOUS
  <2> QED
    BY <2>1, <2>2, <2>3, <2>4, <2>5, Zenon DEF RefineTypeOK
<1>3. /\ told = "nothing" /\ pc \in {"evaluated", "starting"} /\ lineage = <<>>
      /\ pc \notin Working /\ ~Success
  BY BundledNames DEF Working, AfterPublishing, Success
<1>4. AnswerInv /\ WholeInv
  BY <1>3 DEF AnswerInv, WholeInv, Working
<1>5. LineageInv /\ CompleteInv
  BY <1>3 DEF LineageInv, CompleteInv
<1>6. AuditInv
  BY DEF AuditInv, Possible, Nothing
<1> QED
  BY <1>1, <1>2, <1>4, <1>5, <1>6 DEF IInv, TypeInv

\* The conjunction of the invariants above is one.
THEOREM Invariance == Spec => []IInv
<1>1. ASSUME IInv, [Next]_vars PROVE IInv'
  BY <1>1, TypeStep, AnswerStep, WholeStep, LineageStep, AuditStep, Zenon DEF IInv
<1> QED
  BY InitInv, <1>1, PTL DEF Spec

\* The types of a request's state, whatever its entry point.
THEOREM Types == Spec => []RefineTypeOK
<1>1. IInv => RefineTypeOK
  BY DEF IInv, TypeInv
<1> QED
  BY Invariance, <1>1, PTL

\* Success is told only of files of the last attempt, of one frame, validated or
\* reported as not, with their archive; redacted as asked where Presidio works,
\* and with no promise about redaction where it does not.
THEOREM SuccessIsWhole == Spec => []SuccessMeansWhole
<1>1. IInv => SuccessMeansWhole
  BY DEF IInv, WholeInv, FilesWhole, SuccessMeansWhole
<1> QED
  BY Invariance, <1>1, PTL

\* The lineage backend hears of the attempts in order, each ended once, with
\* the outputs that were written.
THEOREM LineageIsTrue == Spec => []LineageTellsTheOutcome
<1>1. IInv => LineageTellsTheOutcome
  BY DEF IInv, LineageInv, CompleteInv, LineageTellsTheOutcome
<1> QED
  BY Invariance, <1>1, PTL

\* An agent's request is approved before it runs, and concluded.
THEOREM AuditIsTrue == Spec => []AuditTellsTheStory
<1>1. IInv => AuditTellsTheStory
  <2> SUFFICES ASSUME IInv, opts.via = "agent" PROVE AuditTellsTheStory
    BY DEF AuditTellsTheStory
  <2>1. AuditInv
    BY DEF IInv
  <2>2. ASSUME lineage # <<>> \/ \E n \in Names : files[n].by > 0
        PROVE  opts.decision = "approved" /\ audit # <<>> /\ audit[1] = "approved"
    <3>1. pc # "evaluated" /\ opts.decision = "approved"
      BY <2>1, <2>2 DEF AuditInv
    <3>2. audit = <<"approved">> \/ \E s \in {"executed", "failed"} : audit = <<"approved", s>>
      BY <2>1, <3>1 DEF AuditInv
    <3> QED
      BY <3>1, <3>2
  <2>3. pc = "done" =>
           audit = CASE opts.decision = "denied" -> <<"denied">>
                     [] opts.decision = "malformed" -> <<"approved">>
                     [] OTHER -> <<"approved", IF Success THEN "executed" ELSE "failed">>
    BY <2>1 DEF AuditInv
  <2> QED
    BY <2>2, <2>3 DEF AuditTellsTheStory
<1> QED
  BY Invariance, <1>1, PTL

=============================================================================
