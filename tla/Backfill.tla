------------------------------ MODULE Backfill ------------------------------
(***************************************************************************)
(* data-platform/hotpass/orchestration.py, backfill_pipeline_flow, and the *)
(* command that invokes it (cli/commands/backfill.py): archived inputs are *)
(* restored and the pipeline is replayed on them, run after run.           *)
(*                                                                         *)
(* Several invocations (flows) go on at once, each in a process of its     *)
(* own.  They share the restore root, the outputs below it and the slots   *)
(* of one Prefect concurrency key.  A replay holds slots; when anything    *)
(* fails around it, it is run again without them, at most twice.           *)
(***************************************************************************)
EXTENDS Integers, Sequences, FiniteSets

CONSTANTS
    Flows,          \* invocations of the backfill
    Runs,           \* restore directories: pairs of a date and a sanitised version
    Plan,           \* the runs of each flow, in order
    Archived,       \* the runs whose archive exists
    Members,        \* the files in an archive
    Leftover,       \* a file an earlier backfill left in a restore directory
    Prefect,        \* prefect_concurrency is not None
    Occupy,         \* concurrency_limit: the slots one replay occupies
    Limit,          \* the slots Prefect has for concurrency_key
    Retries,        \* of rehydrate_archive_task; 0 without Prefect's runtime
    ServiceFaults,  \* may taking or releasing slots fail?
    DiskFaults,     \* may restoring an archive fail?
    RunFaults,      \* may a replay raise?
    MaxKills        \* bound: processes killed

ASSUME BackfillAssumption ==
    /\ IsFiniteSet(Flows)
    /\ Archived \subseteq Runs
    /\ Leftover \notin Members
    /\ Plan \in [Flows -> Seq(Runs)]
    /\ \A f \in Flows : Plan[f] # <<>>     \* _command_handler refuses no runs
    /\ Occupy \in Int /\ Limit \in Nat /\ Retries \in Nat /\ MaxKills \in Nat
    /\ {Prefect, ServiceFaults, DiskFaults, RunFaults} \subseteq BOOLEAN

VARIABLES
    pc,         \* where each flow is
    pos,        \* the run it is at, an index of its plan
    tries,      \* retries of rehydrate_archive_task so far
    left,       \* members it still has to extract
    mode,       \* from where the replay is called: within the slots, or after
    seen,       \* the files the replay works on
    report,     \* the verdicts (summary.success) it has counted
    restored,   \* the files in the restore directory of each run
    output,     \* the refined workbook of each run: who wrote it, which verdict
    holders,    \* the flows whose slots are taken
    stuck,      \* replays whose slots were not given back
    kills,      \* processes killed so far
    shared      \* history, not in the code: the flows whose restore directory
                \* another flow has written to since they began to restore it

flowVars == <<pc, pos, tries, left, mode, seen, report>>
vars == <<flowVars, restored, output, holders, stuck, kills, shared>>

Live == {"clear", "extract", "acquire", "start", "running"}
Ended == {"returned", "failed", "killed"}
NoOutput == [by |-> "nobody", verdict |-> FALSE]

BackfillTypeOK ==
    /\ pc \in [Flows -> {"idle"} \cup Live \cup Ended]
    /\ pos \in [Flows -> Nat] /\ \A f \in Flows : pos[f] \in 1..Len(Plan[f])
    /\ tries \in [Flows -> 0..Retries]
    /\ left \in [Flows -> SUBSET Members]
    /\ mode \in [Flows -> {"slot", "inner", "outer"}]
    /\ seen \in [Flows -> SUBSET (Members \cup {Leftover})]
    /\ report \in [Flows -> Seq(BOOLEAN)]
    /\ restored \in [Runs -> SUBSET (Members \cup {Leftover})]
    /\ output \in [Runs -> [by : Flows, verdict : BOOLEAN] \cup {NoOutput}]
    /\ holders \subseteq Flows
    /\ stuck \in Nat
    /\ kills \in 0..MaxKills
    /\ shared \subseteq Flows

Init ==
    /\ pc = [f \in Flows |-> "idle"]
    /\ pos = [f \in Flows |-> 1]
    /\ tries = [f \in Flows |-> 0]
    /\ left = [f \in Flows |-> {}]
    /\ mode = [f \in Flows |-> "slot"]
    /\ seen = [f \in Flows |-> {}]
    /\ report = [f \in Flows |-> <<>>]
    /\ restored = [r \in Runs |-> {Leftover}]
    /\ output = [r \in Runs |-> NoOutput]
    /\ holders = {}
    /\ stuck = 0
    /\ kills = 0
    /\ shared = {}

RunOf(f) == Plan[f][pos[f]]
IsLive(f) == pc[f] \in Live
Goto(f, where) == pc' = [pc EXCEPT ![f] = where]

\* The other flows that have begun to restore the run f is at, or replay it.
Sharers(f) ==
    {g \in Flows \ {f} : /\ pc[g] \in {"extract", "acquire", "start", "running"}
                         /\ RunOf(g) = RunOf(f)}

-----------------------------------------------------------------------------
(* Restoring the archive: rehydrate_archive_task.                          *)

\* Somebody invokes the backfill, or the deployment's schedule does.
Invoke(f) ==
    /\ pc[f] = "idle"
    /\ Goto(f, "clear")
    /\ UNCHANGED <<pos, tries, left, mode, seen, report,
                   restored, output, holders, stuck, kills, shared>>

\* Not the code: extracts over what is there.
KeepRestored(f) ==
    /\ pc[f] = "clear"
    /\ RunOf(f) \in Archived
    /\ left' = [left EXCEPT ![f] = Members]
    /\ shared' = (shared \ {f}) \cup Sharers(f)
    /\ Goto(f, "extract")
    /\ UNCHANGED <<pos, tries, mode, seen, report,
                   restored, output, holders, stuck, kills>>

\* The archive exists: an old restore directory is removed, a new one made.
Clear(f) ==
    /\ pc[f] = "clear"
    /\ RunOf(f) \in Archived
    /\ restored' = [restored EXCEPT ![RunOf(f)] = {}]
    /\ left' = [left EXCEPT ![f] = Members]
    /\ shared' = (shared \ {f}) \cup Sharers(f)
    /\ Goto(f, "extract")
    /\ UNCHANGED <<pos, tries, mode, seen, report, output, holders, stuck, kills>>

\* extractall writes one member after the other.
Extract(f) ==
    /\ pc[f] = "extract"
    /\ \E file \in left[f] :
          /\ restored' = [restored EXCEPT ![RunOf(f)] = @ \cup {file}]
          /\ left' = [left EXCEPT ![f] = @ \ {file}]
    /\ shared' = shared \cup Sharers(f)
    /\ UNCHANGED <<pc, pos, tries, mode, seen, report, output, holders, stuck, kills>>

\* All members are there: on to _execute_with_concurrency, which calls the
\* replay at once when there is no Prefect or no slot to occupy.
Extracted(f) ==
    /\ pc[f] = "extract"
    /\ left[f] = {}
    /\ IF Prefect /\ Occupy > 0
       THEN Goto(f, "acquire") /\ mode' = [mode EXCEPT ![f] = "slot"]
       ELSE Goto(f, "start") /\ mode' = [mode EXCEPT ![f] = "outer"]
    /\ UNCHANGED <<pos, tries, left, seen, report,
                   restored, output, holders, stuck, kills, shared>>

\* rmtree has removed some of the files when it fails or the process dies.
PartlyCleared(f) ==
    \/ UNCHANGED <<restored, shared>>
    \/ /\ pc[f] = "clear" /\ RunOf(f) \in Archived
       /\ \E rest \in SUBSET restored[RunOf(f)] :
             restored' = [restored EXCEPT ![RunOf(f)] = rest]
       /\ shared' = shared \cup Sharers(f)

\* No archive, or a file operation fails: the task is retried from its
\* beginning, then the flow is given up.
RehydrateFails(f) ==
    /\ pc[f] \in {"clear", "extract"}
    /\ RunOf(f) \in Archived => DiskFaults
    /\ PartlyCleared(f)
    /\ IF tries[f] < Retries
       THEN tries' = [tries EXCEPT ![f] = @ + 1] /\ Goto(f, "clear")
       ELSE UNCHANGED tries /\ Goto(f, "failed")
    /\ left' = [left EXCEPT ![f] = {}]
    /\ UNCHANGED <<pos, mode, seen, report, output, holders, stuck, kills>>

-----------------------------------------------------------------------------
(* The slots: _run_with_prefect_concurrency and Prefect's side of them.    *)

\* __aenter__: the flow waits until Prefect has enough free slots.
Acquire(f) ==
    /\ pc[f] = "acquire"
    /\ (Cardinality(holders) + stuck + 1) * Occupy <= Limit
    /\ holders' = holders \cup {f}
    /\ Goto(f, "start")
    /\ UNCHANGED <<pos, tries, left, mode, seen, report,
                   restored, output, stuck, kills, shared>>

\* __aenter__ raises; it always does when the key never has enough slots.
AcquireFails(f) ==
    /\ pc[f] = "acquire"
    /\ ServiceFaults \/ Occupy > Limit
    /\ mode' = [mode EXCEPT ![f] = "inner"]
    /\ Goto(f, "start")
    /\ UNCHANGED <<pos, tries, left, seen, report,
                   restored, output, holders, stuck, kills, shared>>

\* Not the code: gives the slots back only when the replay went well.
ReleaseIfCalm(f, calm) ==
    \/ calm /\ holders' = holders \ {f} /\ UNCHANGED stuck
    \/ ~calm /\ UNCHANGED <<holders, stuck>>

\* __aexit__: gives the slots back (calm), or raises and Prefect keeps them.
Release(f, calm) ==
    \/ calm /\ holders' = holders \ {f} /\ UNCHANGED stuck
    \/ ~calm /\ ServiceFaults /\ holders' = holders \ {f} /\ stuck' = stuck + 1

\* Prefect takes back slots whose lease has run out.
LeaseExpires ==
    /\ stuck > 0
    /\ stuck' = stuck - 1
    /\ UNCHANGED <<flowVars, restored, output, holders, kills, shared>>

-----------------------------------------------------------------------------
(* The replay: _invoke, run_pipeline_once, _execute_pipeline.              *)

\* The runner loads the restored files.
Start(f) ==
    /\ pc[f] = "start"
    /\ seen' = [seen EXCEPT ![f] = restored[RunOf(f)]]
    /\ Goto(f, "running")
    /\ UNCHANGED <<pos, tries, left, mode, report,
                   restored, output, holders, stuck, kills, shared>>

Save(f, verdict) ==
    output' = [output EXCEPT ![RunOf(f)] = [by |-> f, verdict |-> verdict]]

\* Not the code: counts every replay that returns as a success.
CountAsSuccess(f, verdict) ==
    /\ report' = [report EXCEPT ![f] = Append(@, TRUE)]
    /\ tries' = [tries EXCEPT ![f] = 0]
    /\ IF pos[f] < Len(Plan[f])
       THEN pos' = [pos EXCEPT ![f] = @ + 1] /\ Goto(f, "clear")
       ELSE UNCHANGED pos /\ Goto(f, "returned")
    /\ UNCHANGED mode

\* The flow counts the summary and goes on to the next run, or returns.
Count(f, verdict) ==
    /\ report' = [report EXCEPT ![f] = Append(@, verdict)]
    /\ tries' = [tries EXCEPT ![f] = 0]
    /\ IF pos[f] < Len(Plan[f])
       THEN pos' = [pos EXCEPT ![f] = @ + 1] /\ Goto(f, "clear")
       ELSE UNCHANGED pos /\ Goto(f, "returned")
    /\ mode' = [mode EXCEPT ![f] = "slot"]

\* An exception around the replay: the two fallbacks call it again, without
\* slots; from the second one the exception leaves the flow.
FallBack(f) ==
    /\ IF mode[f] = "outer"
       THEN Goto(f, "failed") /\ UNCHANGED mode
       ELSE /\ Goto(f, "start")
            /\ mode' = [mode EXCEPT ![f] = IF @ = "slot" THEN "inner" ELSE "outer"]
    /\ UNCHANGED <<pos, tries, report>>

\* The replay returns a summary.  Giving the slots back may still fail, and
\* then the summary is dropped and the replay is run again.
Complete(f) ==
    /\ pc[f] = "running"
    /\ \E verdict \in BOOLEAN :
          /\ Save(f, verdict)
          /\ \/ mode[f] # "slot" /\ Count(f, verdict) /\ UNCHANGED <<holders, stuck>>
             \/ mode[f] = "slot" /\ Release(f, TRUE) /\ Count(f, verdict)
             \/ mode[f] = "slot" /\ Release(f, FALSE) /\ FallBack(f)
    /\ seen' = [seen EXCEPT ![f] = {}]
    /\ UNCHANGED <<left, restored, kills, shared>>

\* The replay raises, before or after the workbook was written.
Raise(f) ==
    /\ pc[f] = "running"
    /\ RunFaults
    /\ UNCHANGED output \/ \E verdict \in BOOLEAN : Save(f, verdict)
    /\ IF mode[f] = "slot"
       THEN \E calm \in BOOLEAN : Release(f, calm)
       ELSE UNCHANGED <<holders, stuck>>
    /\ FallBack(f)
    /\ seen' = [seen EXCEPT ![f] = {}]
    /\ UNCHANGED <<left, restored, kills, shared>>

\* The process of a flow is killed, its variables are gone; Prefect is left
\* with its slots.
Kill(f) ==
    /\ IsLive(f)
    /\ kills < MaxKills
    /\ kills' = kills + 1
    /\ Goto(f, "killed")
    /\ holders' = holders \ {f}
    /\ stuck' = IF f \in holders THEN stuck + 1 ELSE stuck
    /\ tries' = [tries EXCEPT ![f] = 0]
    /\ left' = [left EXCEPT ![f] = {}]
    /\ mode' = [mode EXCEPT ![f] = "slot"]
    /\ seen' = [seen EXCEPT ![f] = {}]
    /\ PartlyCleared(f)
    /\ UNCHANGED <<pos, report, output>>

-----------------------------------------------------------------------------
Work(f) ==
    \/ Clear(f) \/ Extract(f) \/ Extracted(f) \/ RehydrateFails(f)
    \/ Acquire(f) \/ AcquireFails(f)
    \/ Start(f) \/ Complete(f) \/ Raise(f)

Next ==
    \/ \E f \in Flows : Invoke(f) \/ Work(f) \/ Kill(f)
    \/ LeaseExpires

Spec == Init /\ [][Next]_vars

\* What a flow does by itself, when Prefect answers.
Advance(f) ==
    \/ Clear(f) \/ Extract(f) \/ Extracted(f) \/ RehydrateFails(f)
    \/ Acquire(f) \/ Start(f) \/ Complete(f) \/ Raise(f)

\* A process that is not killed goes on; a replay comes to an end; Prefect
\* grants free slots, refuses what it never has and lets leases run out.  A
\* fault of the service is never what a waiting flow may count on.
Fairness ==
    /\ \A f \in Flows : WF_vars(Advance(f))
    /\ \A f \in Flows : WF_vars(Occupy > Limit /\ AcquireFails(f))
    /\ WF_vars(LeaseExpires)

FairSpec == Spec /\ Fairness

-----------------------------------------------------------------------------
(* Properties. *)

\* A replay works on the archive of its run and on nothing else, whatever
\* failed, was retried or was killed while it was restored, and whatever an
\* earlier backfill left there; and on all of it, unless another flow wrote to
\* the same directory meanwhile, which nothing prevents (rehydrate_archive_task).
InputsWhole ==
    \A f \in Flows : pc[f] = "running" =>
        /\ seen[f] \subseteq Members
        /\ f \notin shared => seen[f] = Members

\* The verdict a flow counts for a run is that of the workbook on disk, if
\* the workbook is its own: a replay repeated by a fallback is reported by
\* its last writing (backfill_pipeline_flow, _run_with_prefect_concurrency).
ReportMatchesOutput ==
    \A f \in Flows : \A i \in 1..Len(report[f]) :
        LET run == Plan[f][i]
            last == \A j \in (i + 1)..Len(Plan[f]) : Plan[f][j] # run
        IN  last /\ output[run].by = f => output[run].verdict = report[f][i]

\* A flow that was invoked ends, also when it has to wait for the slots of
\* flows that failed or were killed.
EveryInvocationEnds ==
    \A f \in Flows : pc[f] = "clear" ~> pc[f] \in Ended

=============================================================================
