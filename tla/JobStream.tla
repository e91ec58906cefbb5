------------------------------ MODULE JobStream ------------------------------
(***************************************************************************)
(* From the job runner to the browser: the import route that starts a job  *)
(* and listens to it, the event streams of the UI server                   *)
(* (/api/jobs/:id/events and /api/runs/:id/logs) and the two pages that    *)
(* read them, the import panel (which reconnects) and the run's log view.  *)
(*                                                                         *)
(* A stream is a cursor into `emitted': the handler writes a snapshot and  *)
(* subscribes without an await between, so what follows the snapshot is    *)
(* what emitForJob publishes from then on.  The network delivers in order  *)
(* and may break the connection at any point, losing what was in flight.   *)
(***************************************************************************)
EXTENDS JobRunner

CONSTANTS MaxDrops    \* bound of the model: connections that break

ASSUME MaxDropsAssumption == MaxDrops \in Nat

\* MAX_LOG_ENTRIES is 500: a table entry keeps at least its newest output.
ASSUME KeepsSomeLog == MaxLog > 0

\* What the import route publishes and merges.
ASSUME RouteAssumption ==
    /\ {"upload-complete", "artifact-ready"} \subseteq Topics
    /\ "artifacts" \in MetaKeys

VARIABLES
    route,    \* the import route and its listener
    panel,    \* what DatasetImportPanel shows (importJob)
    conn,     \* the panel's EventSource
    view,     \* what RunDetails shows, and its EventSource
    drops     \* connections broken so far

streamVars == <<route, panel, conn, view, drops>>
allVars == <<runnerVars, streamVars>>

Active == {"queued", "running"}
RouteStates == {"idle", "writing", "listening", "enumerating", "off", "threw"}
ConnStates == {"none", "connecting", "open", "retrying", "closed"}
Stages == {"queued", "upload-complete", "refine-started", "completed", "failed"}

StreamTypeOK ==
    /\ route \in RouteStates
    /\ panel \in [status : Statuses, stage : Stages, logs : Seq(1..MaxChunks),
                  artifacts : BOOLEAN]
    /\ conn \in [state : ConnStates, snap : Statuses \cup {"sent"},
                 artifacts : BOOLEAN, next : 1..(Len(emitted) + 1)]
    /\ view \in [state : {"none", "open", "ended", "failed"},
                 lines : Seq(LogEntries), next : 1..(Len(emitted) + 1)]
    /\ drops \in 0..MaxDrops

NoConn == [state |-> "none", snap |-> "absent", artifacts |-> FALSE, next |-> 1]

StreamInit ==
    /\ Init
    /\ route = "idle"
    /\ panel = [status |-> "absent", stage |-> "queued", logs |-> <<>>, artifacts |-> FALSE]
    /\ conn = NoConn
    /\ view = [state |-> "none", lines |-> <<>>, next |-> 1]
    /\ drops = 0

-----------------------------------------------------------------------------
(* POST /api/import.  createCommandJob and mergeJobMetadata run without an *)
(* await between; the activity entry is written (await) before the stage   *)
(* is published, the listener attached and the job sent in the response.   *)

RouteStartsJob ==
    /\ route = "idle"
    /\ \/ /\ SpawnThrows({})
          /\ route' = "threw"
       \/ \E outcome \in {"alive", "unspawned"} :
              /\ job' = Entry("running", {})
              /\ child' = outcome
              /\ emitted' = <<[type |-> "queued"], [type |-> "started"],
                              [type |-> "metadata", meta |-> {}]>>
              /\ route' = "writing"
              /\ UNCHANGED <<exit, written, read>>
    /\ UNCHANGED <<panel, conn, view, drops>>

\* The response carries the job as it is now; connectToJob opens the stream.
RouteResponds ==
    /\ route = "writing"
    /\ PublishJobEvent("upload-complete")
    /\ route' = "listening"
    /\ panel' = [panel EXCEPT !.status = job.status,
                              !.stage = IF job.status \in Active THEN "queued"
                                        ELSE IF job.status = "failed" THEN "failed"
                                        ELSE "completed"]
    /\ conn' = [NoConn EXCEPT !.state = "connecting"]
    /\ UNCHANGED <<view, drops>>

\* The route's listener runs inside the emitting callback: 'error' detaches
\* it, and the first 'finished' it hears starts enumerateImportArtifacts.
Listener(r, types) ==
    IF r # "listening" THEN r
    ELSE IF "error" \in types THEN "off" ELSE "enumerating"

ChildCallback ==
    /\ \/ OnData /\ route' = route
       \/ OnError /\ route' = Listener(route, {"error", "finished"})
       \/ OnClose /\ route' = Listener(route, {"finished"})
    /\ UNCHANGED <<panel, conn, view, drops>>

Environment == ChildStep /\ UNCHANGED streamVars

\* enumerateImportArtifacts has looked at the disk: a job that succeeded has
\* written its workbook, one that failed may have.
ListenerPublishesArtifacts ==
    /\ route = "enumerating"
    /\ route' = "off"
    /\ \/ /\ job.status = "failed"
          /\ UNCHANGED <<job, emitted>>
       \/ /\ job' = [job EXCEPT !.meta = {"artifacts"}]
          /\ EmitBoth([type |-> "metadata", meta |-> {"artifacts"}],
                      [type |-> "published", topic |-> "artifact-ready"])
    /\ UNCHANGED <<child, exit, written, read, panel, conn, view, drops>>

-----------------------------------------------------------------------------
(* GET /api/jobs/:id/events *)

\* Not the code: subscribes from the first event of the job.
OpenStreamFromTheStart ==
    /\ conn.state = "connecting"
    /\ conn' = [state |-> "open", snap |-> job.status,
                artifacts |-> "artifacts" \in job.meta, next |-> 1]
    /\ UNCHANGED <<runnerVars, route, panel, view, drops>>

OpenStream ==
    /\ conn.state = "connecting"
    /\ conn' = [state |-> "open", snap |-> job.status,
                artifacts |-> "artifacts" \in job.meta, next |-> Len(emitted) + 1]
    /\ UNCHANGED <<runnerVars, route, panel, view, drops>>

\* deriveStage: nothing updates metadata.stage after the route set it.
DeriveStage(status) ==
    CASE status = "succeeded" -> "completed"
      [] status = "failed" -> "failed"
      [] OTHER -> "queued"

OnSnapshot ==
    /\ conn.state = "open"
    /\ conn.snap # "sent"
    /\ panel' = [panel EXCEPT !.status = conn.snap,
                              !.stage = DeriveStage(conn.snap),
                              !.artifacts = @ \/ conn.artifacts]
    /\ conn' = [conn EXCEPT !.snap = "sent"]
    /\ UNCHANGED <<runnerVars, route, view, drops>>

\* What onerror does: close, and try again only while the job looks alive.
AfterError(status) ==
    [NoConn EXCEPT !.state = IF status \in Active THEN "retrying" ELSE "closed"]

\* Not the code: every event of the stream is taken for the end of the job.
ShowLoosely(e) ==
    CASE e.type = "log" -> [panel EXCEPT !.logs = Append(@, e.chunk)]
      [] e.type = "finished" ->
             [panel EXCEPT !.status = "succeeded", !.stage = "completed"]
      [] OTHER -> panel

\* The listeners of the panel's EventSource, by event type.
Show(e) ==
    CASE e.type = "log" -> [panel EXCEPT !.logs = Append(@, e.chunk)]
      [] e.type = "published" /\ e.topic \in Stages -> [panel EXCEPT !.stage = e.topic]
      [] e.type = "published" /\ e.topic = "artifact-ready" ->
             [panel EXCEPT !.artifacts = TRUE]
      [] e.type = "finished" ->
             [panel EXCEPT !.status = e.status,
                           !.stage = IF e.status = "succeeded" THEN "completed" ELSE "failed"]
      [] OTHER -> panel

\* Not the code: a server event named 'error' closes the stream for good.
ReactClosing(e) ==
    CASE e.type \in {"error", "finished"} -> [NoConn EXCEPT !.state = "closed"]
      [] OTHER -> [conn EXCEPT !.next = @ + 1]

\* 'finished' closes the stream; a server event named 'error' also fires the
\* EventSource's own onerror.
React(e) ==
    CASE e.type = "finished" -> [NoConn EXCEPT !.state = "closed"]
      [] e.type = "error" -> AfterError(panel.status)
      [] OTHER -> [conn EXCEPT !.next = @ + 1]

OnStreamEvent ==
    /\ conn.state = "open"
    /\ conn.snap = "sent"
    /\ conn.next <= Len(emitted)
    /\ panel' = Show(emitted[conn.next])
    /\ conn' = React(emitted[conn.next])
    /\ UNCHANGED <<runnerVars, route, view, drops>>

ConnectionBreaks ==
    /\ conn.state \in {"connecting", "open"}
    /\ drops < MaxDrops
    /\ drops' = drops + 1
    /\ conn' = AfterError(panel.status)
    /\ UNCHANGED <<runnerVars, route, panel, view>>

\* The two-second timer of onerror.
Reconnect ==
    /\ conn.state = "retrying"
    /\ conn' = [NoConn EXCEPT !.state = IF panel.status \in Active THEN "connecting" ELSE "closed"]
    /\ UNCHANGED <<runnerVars, route, panel, view, drops>>

-----------------------------------------------------------------------------
(* GET /api/runs/:id/logs and the log view of RunDetails *)

\* Not the code: an await between the snapshot and the subscription.
OpenLogViewLate ==
    /\ view.state = "none" /\ job.status # "absent"
    /\ \E gap \in 0..1 :
           view' = [state |-> "open", lines |-> job.log, next |-> Len(emitted) + 1 + gap]
    /\ UNCHANGED <<runnerVars, route, panel, conn, drops>>

OpenLogView ==
    /\ view.state = "none"
    /\ job.status # "absent"
    /\ view' = [state |-> "open", lines |-> job.log, next |-> Len(emitted) + 1]
    /\ UNCHANGED <<runnerVars, route, panel, conn, drops>>

OnLogViewEvent ==
    /\ view.state = "open"
    /\ view.next <= Len(emitted)
    /\ LET e == emitted[view.next]
       IN  view' = [state |-> IF e.type = "finished" THEN "ended" ELSE "open",
                    lines |-> IF e.type = "log" THEN Append(view.lines, e.chunk) ELSE view.lines,
                    next |-> view.next + 1]
    /\ UNCHANGED <<runnerVars, route, panel, conn, drops>>

\* RunDetails shows an error and does not reconnect.
LogViewBreaks ==
    /\ view.state = "open"
    /\ drops < MaxDrops
    /\ drops' = drops + 1
    /\ view' = [view EXCEPT !.state = "failed"]
    /\ UNCHANGED <<runnerVars, route, panel, conn>>

-----------------------------------------------------------------------------
PanelStep == OpenStream \/ OnSnapshot \/ OnStreamEvent \/ Reconnect
ServerStep == ChildCallback \/ RouteResponds \/ ListenerPublishesArtifacts
ViewStep == OpenLogView \/ OnLogViewEvent

StreamNext ==
    \/ RouteStartsJob \/ ServerStep \/ Environment
    \/ PanelStep \/ ConnectionBreaks
    \/ ViewStep \/ LogViewBreaks

\* Node runs what is due, the command ends, the browser delivers what arrives
\* and its timer fires; a connection that breaks is not owed anything.
StreamFairness ==
    /\ WF_allVars(ServerStep)
    /\ WF_allVars(ChildExits /\ UNCHANGED streamVars)
    /\ WF_allVars(PanelStep)
    /\ WF_allVars(ViewStep)

StreamSpec == StreamInit /\ [][StreamNext]_allVars
FairStreamSpec == StreamSpec /\ StreamFairness

-----------------------------------------------------------------------------
(* Properties *)

\* Whatever connections break, the panel's log is in the order of the output
\* and shows no chunk twice: a stream never replays what an earlier one sent
\* (index.mjs:2131, snapshot and subscription in one step).
PanelLogsInOrder ==
    \A i, k \in 1..Len(panel.logs) : i < k => panel.logs[i] < panel.logs[k]

\* The end the panel shows is the end of the job, on every path it can learn
\* it from: the response, a snapshot, a 'finished' event; and the stage it
\* highlights agrees with the status.
ShownEndIsTheJobs ==
    /\ panel.status \in Terminal => panel.status = job.status
    /\ panel.stage = "completed" <=> panel.status = "succeeded"
    /\ panel.stage = "failed" <=> panel.status = "failed"

\* The log view has no gap and no repetition from its first line on, and one
\* that was told the end has every chunk (index.mjs:2174; the spawn error's
\* entry, number 0, stands alone).
LogViewIsComplete ==
    /\ \A i \in 1..(Len(view.lines) - 1) : view.lines[i + 1] = view.lines[i] + 1
    /\ (view.state = "ended" /\ exit # "unspawned") =>
           read = IF view.lines = <<>> THEN 0 ELSE view.lines[Len(view.lines)]

\* Once the job has ended, a panel that was given it shows the end, however
\* the connections broke: through 'finished', or through the snapshot of the
\* reconnection that a broken stream or an 'error' event leads to.
PanelLearnsTheEnd ==
    (panel.status # "absent" /\ job.status \in Terminal) ~> panel.status \in Terminal

=============================================================================
