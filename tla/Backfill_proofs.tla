--------------------------- MODULE Backfill_proofs ---------------------------
(***************************************************************************)
(* Proofs about Backfill for any number of flows and runs, any plans, and  *)
(* every combination of faults.                                            *)
(*                                                                         *)
(* Reports need no more than how far a flow has come (AtPlan).  What a     *)
(* replay sees rests on what is in the restore directory at every stage,   *)
(* and on who has written to it since (RestoreInv).                        *)
(***************************************************************************)
EXTENDS Backfill, TLAPS

\* A flow has counted the runs before the one it is at.
AtPlan ==
    \A f \in Flows :
        Len(report[f]) = IF pc[f] = "returned" THEN Len(Plan[f]) ELSE pos[f] - 1

IInv == BackfillTypeOK /\ AtPlan /\ ReportMatchesOutput

\* A flow that has begun to restore the run it is at, or replays it.
Begun(f) == pc[f] \in {"extract", "acquire", "start", "running"}

\* The restore directory holds what the flow has extracted so far, and less
\* only if another flow has written there.
RestoreInv ==
    \A f \in Flows :
        /\ Begun(f) => restored[RunOf(f)] \subseteq Members
        /\ Begun(f) /\ f \notin shared => restored[RunOf(f)] = Members \ left[f]
        /\ pc[f] \in {"acquire", "start", "running"} => left[f] = {}

WholeInv == BackfillTypeOK /\ RestoreInv /\ InputsWhole

-----------------------------------------------------------------------------
(* Facts about plans *)

\* A flow's position names a run of its plan.
LEMMA RunOfType ==
    ASSUME BackfillTypeOK, NEW f \in Flows
    PROVE  /\ RunOf(f) \in Runs
           /\ Plan[f] \in Seq(Runs) /\ Len(Plan[f]) \in Nat
           /\ pos[f] \in Nat /\ pos[f] >= 1 /\ pos[f] <= Len(Plan[f])
<1>1. Plan[f] \in Seq(Runs) /\ pos[f] \in 1..Len(Plan[f])
  BY BackfillAssumption DEF BackfillTypeOK
<1>2. Len(Plan[f]) \in Nat /\ Plan[f][pos[f]] \in Runs
  BY <1>1
<1>3. QED
  BY <1>1, <1>2 DEF RunOf

\* The first state satisfies the invariant.
LEMMA InitInv == Init => IInv
<1> SUFFICES ASSUME Init PROVE IInv
  OBVIOUS
<1>1. \A f \in Flows : Plan[f] \in Seq(Runs) /\ Len(Plan[f]) >= 1
  BY BackfillAssumption
<1>2. BackfillTypeOK
  <2>1. \A f \in Flows : 1 \in 1..Len(Plan[f])
    BY <1>1
  <2>2. /\ pc \in [Flows -> {"idle"} \cup Live \cup Ended]
        /\ pos \in [Flows -> Nat] /\ \A f \in Flows : pos[f] \in 1..Len(Plan[f])
        /\ tries \in [Flows -> 0..Retries]
        /\ left \in [Flows -> SUBSET Members]
        /\ mode \in [Flows -> {"slot", "inner", "outer"}]
        /\ seen \in [Flows -> SUBSET (Members \cup {Leftover})]
    BY <2>1, BackfillAssumption DEF Init
  <2>3. /\ report \in [Flows -> Seq(BOOLEAN)]
        /\ restored \in [Runs -> SUBSET (Members \cup {Leftover})]
        /\ output \in [Runs -> [by : Flows, verdict : BOOLEAN] \cup {NoOutput}]
        /\ holders \subseteq Flows /\ stuck \in Nat /\ kills \in 0..MaxKills
        /\ shared \subseteq Flows
    BY BackfillAssumption DEF Init
  <2>4. QED
    BY <2>2, <2>3 DEF BackfillTypeOK
<1>3. AtPlan /\ ReportMatchesOutput
  BY DEF Init, AtPlan, ReportMatchesOutput
<1>4. QED
  BY <1>2, <1>3 DEF IInv

-----------------------------------------------------------------------------
(* Types *)

\* Saving a workbook keeps the type of the outputs.
LEMMA SaveType ==
    ASSUME BackfillTypeOK, NEW f \in Flows, NEW verdict \in BOOLEAN, Save(f, verdict)
    PROVE  output' \in [Runs -> [by : Flows, verdict : BOOLEAN] \cup {NoOutput}]
<1>1. [by |-> f, verdict |-> verdict] \in [by : Flows, verdict : BOOLEAN]
  OBVIOUS
<1>2. QED
  BY <1>1, RunOfType DEF BackfillTypeOK, Save

\* What Count, FallBack and Release do to the variables they set.
LEMMA CountType ==
    ASSUME BackfillTypeOK, NEW f \in Flows, NEW verdict \in BOOLEAN, Count(f, verdict)
    PROVE  /\ pc' \in [Flows -> {"idle"} \cup Live \cup Ended]
           /\ pos' \in [Flows -> Nat] /\ \A g \in Flows : pos'[g] \in 1..Len(Plan[g])
           /\ tries' \in [Flows -> 0..Retries]
           /\ mode' \in [Flows -> {"slot", "inner", "outer"}]
           /\ report' \in [Flows -> Seq(BOOLEAN)]
<1>1. report' \in [Flows -> Seq(BOOLEAN)]
  <2>1. Append(report[f], verdict) \in Seq(BOOLEAN)
    BY DEF BackfillTypeOK
  <2>2. QED
    BY <2>1 DEF BackfillTypeOK, Count
<1>2. /\ pc' \in [Flows -> {"idle"} \cup Live \cup Ended]
      /\ mode' \in [Flows -> {"slot", "inner", "outer"}]
  BY DEF BackfillTypeOK, Count, Goto, Live, Ended
<1>3. tries' \in [Flows -> 0..Retries]
  <2>1. 0 \in 0..Retries
    BY BackfillAssumption
  <2>2. QED
    BY <2>1 DEF BackfillTypeOK, Count
<1>4. pos' \in [Flows -> Nat] /\ \A g \in Flows : pos'[g] \in 1..Len(Plan[g])
  <2>1. CASE pos[f] < Len(Plan[f])
    <3>1. pos' = [pos EXCEPT ![f] = pos[f] + 1]
      BY <2>1 DEF Count
    <3>2. pos[f] + 1 \in 1..Len(Plan[f])
      BY <2>1, RunOfType
    <3>3. QED
      BY <3>1, <3>2 DEF BackfillTypeOK
  <2>2. CASE ~(pos[f] < Len(Plan[f]))
    BY <2>2 DEF BackfillTypeOK, Count
  <2>3. QED
    BY <2>1, <2>2
<1>5. QED
  BY <1>1, <1>2, <1>3, <1>4

\* Falling back moves the flow to another mode, or fails it.
LEMMA FallBackType ==
    ASSUME BackfillTypeOK, NEW f \in Flows, FallBack(f)
    PROVE  /\ pc' \in [Flows -> {"idle"} \cup Live \cup Ended]
           /\ pos' = pos /\ tries' = tries /\ report' = report
           /\ mode' \in [Flows -> {"slot", "inner", "outer"}]
BY DEF BackfillTypeOK, FallBack, Goto, Live, Ended

\* Giving slots back takes the flow out of the holders; slots lost are counted.
LEMMA ReleaseType ==
    ASSUME BackfillTypeOK, NEW f \in Flows, NEW calm \in BOOLEAN, Release(f, calm)
    PROVE  holders' = holders \ {f} /\ stuck' \in Nat
<1>1. CASE calm /\ holders' = holders \ {f} /\ UNCHANGED stuck
  BY <1>1 DEF BackfillTypeOK
<1>2. CASE holders' = holders \ {f} /\ stuck' = stuck + 1
  BY <1>2 DEF BackfillTypeOK
<1>3. QED
  BY <1>1, <1>2, Zenon DEF Release

\* The other flows at a run are flows.
LEMMA SharersType == \A f \in Flows : Sharers(f) \subseteq Flows
BY DEF Sharers

\* Removing some of the files keeps the types of the directories.
LEMMA PartlyClearedType ==
    ASSUME BackfillTypeOK, NEW f \in Flows, PartlyCleared(f)
    PROVE  /\ restored' \in [Runs -> SUBSET (Members \cup {Leftover})]
           /\ shared' \subseteq Flows
<1>1. CASE UNCHANGED <<restored, shared>>
  BY <1>1 DEF BackfillTypeOK
<1>2. CASE ~UNCHANGED <<restored, shared>>
  <2>1. PICK rest \in SUBSET restored[RunOf(f)] :
           restored' = [restored EXCEPT ![RunOf(f)] = rest]
    BY <1>2 DEF PartlyCleared
  <2>2. shared' = shared \cup Sharers(f)
    BY <1>2 DEF PartlyCleared
  <2>3. QED
    BY <2>1, <2>2, RunOfType, SharersType DEF BackfillTypeOK
<1>3. QED
  BY <1>1, <1>2

\* Every step keeps the types.
LEMMA TypeStep == BackfillTypeOK /\ [Next]_vars => BackfillTypeOK'
<1> SUFFICES ASSUME BackfillTypeOK, [Next]_vars PROVE BackfillTypeOK'
  OBVIOUS
<1>1. ASSUME NEW f \in Flows, Invoke(f) \/ Extracted(f) \/ AcquireFails(f)
      PROVE  BackfillTypeOK'
  BY <1>1 DEF BackfillTypeOK, Invoke, Extracted, AcquireFails, Goto, Live, Ended
<1>2. ASSUME NEW f \in Flows, Clear(f) PROVE BackfillTypeOK'
  BY <1>2, RunOfType, SharersType DEF BackfillTypeOK, Clear, Goto, Live, Ended
<1>3. ASSUME NEW f \in Flows, Extract(f) PROVE BackfillTypeOK'
  BY <1>3, RunOfType, SharersType DEF BackfillTypeOK, Extract, Goto, Live, Ended
<1>4. ASSUME NEW f \in Flows, RehydrateFails(f) PROVE BackfillTypeOK'
  <2>1. tries' \in [Flows -> 0..Retries]
    <3>1. tries[f] < Retries => tries[f] + 1 \in 0..Retries
      BY BackfillAssumption DEF BackfillTypeOK
    <3>2. QED
      BY <1>4, <3>1 DEF BackfillTypeOK, RehydrateFails
  <2>2. pc' \in [Flows -> {"idle"} \cup Live \cup Ended]
    BY <1>4 DEF BackfillTypeOK, RehydrateFails, Goto, Live, Ended
  <2>3. /\ restored' \in [Runs -> SUBSET (Members \cup {Leftover})]
        /\ shared' \subseteq Flows
    BY <1>4, PartlyClearedType DEF RehydrateFails
  <2>4. QED
    BY <1>4, <2>1, <2>2, <2>3 DEF BackfillTypeOK, RehydrateFails
<1>5. ASSUME NEW f \in Flows, Acquire(f) PROVE BackfillTypeOK'
  BY <1>5 DEF BackfillTypeOK, Acquire, Goto, Live, Ended
<1>6. ASSUME NEW f \in Flows, Start(f) PROVE BackfillTypeOK'
  BY <1>6, RunOfType DEF BackfillTypeOK, Start, Goto, Live, Ended
<1>7. ASSUME NEW f \in Flows, Complete(f) PROVE BackfillTypeOK'
  <2>1. PICK verdict \in BOOLEAN :
          /\ Save(f, verdict)
          /\ \/ Count(f, verdict) /\ UNCHANGED <<holders, stuck>>
             \/ Count(f, verdict) /\ Release(f, TRUE)
             \/ FallBack(f) /\ Release(f, FALSE)
    BY <1>7 DEF Complete
  <2>2. UNCHANGED <<left, restored, kills, shared>> /\ seen' = [seen EXCEPT ![f] = {}]
    BY <1>7 DEF Complete
  <2>3. output' \in [Runs -> [by : Flows, verdict : BOOLEAN] \cup {NoOutput}]
    BY <2>1, SaveType
  <2>4. holders' \subseteq Flows /\ stuck' \in Nat
    BY <2>1, ReleaseType DEF BackfillTypeOK
  <2>5. CASE Count(f, verdict)
    BY <2>2, <2>3, <2>4, <2>5, CountType DEF BackfillTypeOK
  <2>6. CASE FallBack(f)
    BY <2>2, <2>3, <2>4, <2>6, FallBackType DEF BackfillTypeOK
  <2>7. QED
    BY <2>1, <2>5, <2>6
<1>8. ASSUME NEW f \in Flows, Raise(f) PROVE BackfillTypeOK'
  <2>1. /\ FallBack(f)
        /\ UNCHANGED <<left, restored, kills, shared>> /\ seen' = [seen EXCEPT ![f] = {}]
    BY <1>8 DEF Raise
  <2>2. output' \in [Runs -> [by : Flows, verdict : BOOLEAN] \cup {NoOutput}]
    BY <1>8, SaveType DEF Raise, BackfillTypeOK
  <2>3. holders' \subseteq Flows /\ stuck' \in Nat
    BY <1>8, ReleaseType DEF Raise, BackfillTypeOK
  <2>4. QED
    BY <2>1, <2>2, <2>3, FallBackType DEF BackfillTypeOK
<1>9. ASSUME NEW f \in Flows, Kill(f) PROVE BackfillTypeOK'
  <2>1. /\ restored' \in [Runs -> SUBSET (Members \cup {Leftover})]
        /\ shared' \subseteq Flows
    BY <1>9, PartlyClearedType DEF Kill
  <2>2. QED
    BY <1>9, <2>1, BackfillAssumption
       DEF BackfillTypeOK, Kill, Goto, Live, Ended
<1>10. CASE LeaseExpires
  BY <1>10 DEF BackfillTypeOK, LeaseExpires, flowVars
<1>11. CASE UNCHANGED vars
  BY <1>11 DEF BackfillTypeOK, vars, flowVars
<1>12. QED
  BY <1>1, <1>2, <1>3, <1>4, <1>5, <1>6, <1>7, <1>8, <1>9, <1>10, <1>11
     DEF Next, Work

-----------------------------------------------------------------------------
(* How far a flow has come *)

\* Every step keeps one report entry for each run left behind.
LEMMA AtPlanStep == BackfillTypeOK /\ AtPlan /\ [Next]_vars => AtPlan'
<1> SUFFICES ASSUME BackfillTypeOK, AtPlan, [Next]_vars PROVE AtPlan'
  OBVIOUS
<1>1. ASSUME NEW f \in Flows, NEW where,
             pc[f] # "returned", where # "returned", Goto(f, where),
             UNCHANGED <<report, pos>>
      PROVE  AtPlan'
  BY <1>1 DEF BackfillTypeOK, AtPlan, Goto
<1>2. ASSUME NEW f \in Flows, NEW verdict \in BOOLEAN, pc[f] = "running",
             Count(f, verdict)
      PROVE  AtPlan'
  <2>1. /\ Len(report'[f]) = Len(report[f]) + 1
        /\ \A g \in Flows \ {f} : report'[g] = report[g]
    BY <1>2 DEF BackfillTypeOK, Count
  <2>2. Len(report[f]) = pos[f] - 1
    BY <1>2 DEF AtPlan
  <2>3. Len(report'[f]) = IF pc'[f] = "returned" THEN Len(Plan[f]) ELSE pos'[f] - 1
    <3>1. CASE pos[f] < Len(Plan[f])
      <4>1. pos'[f] = pos[f] + 1 /\ pc'[f] = "clear"
        BY <1>2, <3>1 DEF BackfillTypeOK, Count, Goto
      <4>2. QED
        BY <2>1, <2>2, <4>1, RunOfType
    <3>2. CASE ~(pos[f] < Len(Plan[f]))
      <4>1. pc'[f] = "returned"
        BY <1>2, <3>2 DEF BackfillTypeOK, Count, Goto
      <4>2. QED
        BY <2>1, <2>2, <3>2, <4>1, RunOfType
    <3>3. QED
      BY <3>1, <3>2
  <2>4. \A g \in Flows \ {f} : pc'[g] = pc[g] /\ pos'[g] = pos[g]
    BY <1>2 DEF BackfillTypeOK, Count, Goto
  <2>5. QED
    BY <2>1, <2>3, <2>4 DEF AtPlan
<1>3. ASSUME NEW f \in Flows, pc[f] = "running", FallBack(f) PROVE AtPlan'
  BY <1>1, <1>3 DEF FallBack
<1>4. ASSUME NEW f \in Flows, Complete(f) \/ Raise(f) PROVE AtPlan'
  BY <1>2, <1>3, <1>4 DEF Complete, Raise
<1>5. ASSUME NEW f \in Flows, Invoke(f) \/ Clear(f) \/ Extracted(f)
                               \/ RehydrateFails(f)
      PROVE  AtPlan'
  BY <1>1, <1>5 DEF Invoke, Clear, Extracted, RehydrateFails
<1>6. ASSUME NEW f \in Flows, Acquire(f) \/ AcquireFails(f) \/ Start(f) \/ Kill(f)
      PROVE  AtPlan'
  BY <1>1, <1>6 DEF Acquire, AcquireFails, Start, Kill, IsLive, Live
<1>7. ASSUME NEW f \in Flows, Extract(f) PROVE AtPlan'
  BY <1>7 DEF AtPlan, Extract
<1>8. CASE LeaseExpires \/ UNCHANGED vars
  BY <1>8 DEF AtPlan, LeaseExpires, vars, flowVars
<1>9. QED
  BY <1>4, <1>5, <1>6, <1>7, <1>8 DEF Next, Work

-----------------------------------------------------------------------------
(* Reports *)

\* What a flow saves for the run it is at concerns no run it has counted.
LEMMA SaveSpares ==
    ASSUME BackfillTypeOK, AtPlan, ReportMatchesOutput,
           NEW f \in Flows, NEW verdict \in BOOLEAN, pc[f] = "running",
           Save(f, verdict)
    PROVE  \A g \in Flows : \A i \in 1..Len(report[g]) :
               (\A j \in (i + 1)..Len(Plan[g]) : Plan[g][j] # Plan[g][i])
               /\ output'[Plan[g][i]].by = g
                   => output'[Plan[g][i]].verdict = report[g][i]
<1> TAKE g \in Flows
<1> TAKE i \in 1..Len(report[g])
<1> HAVE /\ \A j \in (i + 1)..Len(Plan[g]) : Plan[g][j] # Plan[g][i]
         /\ output'[Plan[g][i]].by = g
<1>1. Len(report[g]) \in Nat /\ i \in Nat
  BY DEF BackfillTypeOK
<1>2. Len(report[g]) <= Len(Plan[g])
  BY <1>1, RunOfType DEF AtPlan
<1>3. Plan[g][i] \in Runs
  BY <1>1, <1>2, RunOfType
<1>4. CASE Plan[g][i] # RunOf(f)
  <2>1. output'[Plan[g][i]] = output[Plan[g][i]]
    BY <1>3, <1>4 DEF BackfillTypeOK, Save
  <2>2. QED
    BY <2>1 DEF ReportMatchesOutput
<1>5. CASE Plan[g][i] = RunOf(f)
  <2>1. output'[Plan[g][i]].by = f
    BY <1>3, <1>5 DEF BackfillTypeOK, Save
  <2>2. g = f
    BY <2>1
  <2>3. pos[f] \in (i + 1)..Len(Plan[f])
    BY <1>1, <2>2, RunOfType DEF AtPlan
  <2>4. QED
    BY <1>5, <2>2, <2>3 DEF RunOf
<1>6. QED
  BY <1>4, <1>5

\* Every step keeps the report in agreement with what was written.
LEMMA ReportStep ==
    BackfillTypeOK /\ AtPlan /\ ReportMatchesOutput /\ [Next]_vars
        => ReportMatchesOutput'
<1> SUFFICES ASSUME BackfillTypeOK, AtPlan, ReportMatchesOutput, [Next]_vars
             PROVE  ReportMatchesOutput'
  OBVIOUS
<1>1. CASE UNCHANGED <<report, output>>
  BY <1>1 DEF ReportMatchesOutput
<1>2. ASSUME NEW f \in Flows, NEW verdict \in BOOLEAN, pc[f] = "running",
             Save(f, verdict), UNCHANGED report
      PROVE  ReportMatchesOutput'
  BY <1>2, SaveSpares DEF ReportMatchesOutput
<1>3. ASSUME NEW f \in Flows, NEW verdict \in BOOLEAN, pc[f] = "running",
             Save(f, verdict), Count(f, verdict)
      PROVE  ReportMatchesOutput'
  <2> SUFFICES ASSUME NEW g \in Flows, NEW i \in 1..Len(report'[g]),
                      \A j \in (i + 1)..Len(Plan[g]) : Plan[g][j] # Plan[g][i],
                      output'[Plan[g][i]].by = g
               PROVE  output'[Plan[g][i]].verdict = report'[g][i]
    BY DEF ReportMatchesOutput
  <2>1. /\ report'[f] = Append(report[f], verdict)
        /\ \A h \in Flows \ {f} : report'[h] = report[h]
    BY <1>3 DEF BackfillTypeOK, Count
  <2>2. report[g] \in Seq(BOOLEAN) /\ Len(report[g]) \in Nat
    BY DEF BackfillTypeOK
  <2>3. CASE i \in 1..Len(report[g])
    <3>1. report'[g][i] = report[g][i]
      <4>1. CASE g = f
        BY <2>1, <2>2, <2>3, <4>1
      <4>2. CASE g # f
        BY <2>1, <4>2
      <4>3. QED
        BY <4>1, <4>2
    <3>2. QED
      BY <1>3, <2>3, <3>1, SaveSpares
  <2>4. CASE i \notin 1..Len(report[g])
    <3>1. g = f /\ i = Len(report[f]) + 1 /\ report'[f][i] = verdict
      BY <2>1, <2>2, <2>4
    <3>2. i = pos[f]
      BY <1>3, <2>2, <3>1, RunOfType DEF AtPlan
    <3>3. output'[RunOf(f)].verdict = verdict
      BY <1>3, RunOfType DEF BackfillTypeOK, Save
    <3>4. QED
      BY <3>1, <3>2, <3>3 DEF RunOf
  <2>5. QED
    BY <2>3, <2>4
<1>4. ASSUME NEW f \in Flows, Complete(f) \/ Raise(f) PROVE ReportMatchesOutput'
  BY <1>1, <1>2, <1>3, <1>4 DEF Complete, Raise, FallBack
<1>5. ASSUME NEW f \in Flows,
             \/ Invoke(f) \/ Clear(f) \/ Extract(f) \/ Extracted(f) \/ RehydrateFails(f)
             \/ Acquire(f) \/ AcquireFails(f) \/ Start(f) \/ Kill(f)
      PROVE  UNCHANGED <<report, output>>
  BY <1>5 DEF Invoke, Clear, Extract, Extracted, RehydrateFails,
              Acquire, AcquireFails, Start, Kill
<1>6. CASE LeaseExpires \/ UNCHANGED vars
  BY <1>1, <1>6 DEF LeaseExpires, vars, flowVars
<1>7. QED
  BY <1>1, <1>4, <1>5, <1>6 DEF Next, Work

-----------------------------------------------------------------------------
(* Restored archives *)

\* A step of f leaves the runs and the restored files of the others alone.
LEMMA OthersRun ==
    ASSUME NEW f \in Flows, BackfillTypeOK, Work(f) \/ Invoke(f) \/ Kill(f)
    PROVE  \A g \in Flows \ {f} :
               /\ pc'[g] = pc[g] /\ pos'[g] = pos[g]
               /\ left'[g] = left[g] /\ seen'[g] = seen[g]
<1>1. CASE Invoke(f) \/ Kill(f)
  BY <1>1 DEF BackfillTypeOK, Invoke, Kill, Goto
<1>2. CASE Clear(f) \/ Extract(f) \/ Extracted(f) \/ RehydrateFails(f)
  BY <1>2 DEF BackfillTypeOK, Clear, Extract, Extracted, RehydrateFails, Goto
<1>3. CASE Acquire(f) \/ AcquireFails(f) \/ Start(f)
  BY <1>3 DEF BackfillTypeOK, Acquire, AcquireFails, Start, Goto
<1>4. CASE Complete(f) \/ Raise(f)
  BY <1>4 DEF BackfillTypeOK, Complete, Raise, Count, FallBack, Goto
<1>5. QED
  BY <1>1, <1>2, <1>3, <1>4 DEF Work

\* A step of f that changes the restore directory of another flow at work
\* marks that flow, and puts nothing there but members of the archive.
LEMMA OthersFiles ==
    ASSUME BackfillTypeOK, NEW f \in Flows, Work(f) \/ Invoke(f) \/ Kill(f),
           NEW g \in Flows, g # f, Begun(g), restored[RunOf(g)] \subseteq Members
    PROVE  /\ restored'[RunOf(g)] \subseteq Members
           /\ g \in shared => g \in shared'
           /\ g \notin shared' => restored'[RunOf(g)] = restored[RunOf(g)]
<1>1. RunOf(f) \in Runs /\ RunOf(g) \in Runs /\ left[f] \subseteq Members
  BY RunOfType DEF BackfillTypeOK
<1>2. RunOf(g) = RunOf(f) => g \in Sharers(f)
  BY DEF Sharers, Begun
<1>3. CASE Clear(f)
  BY <1>1, <1>2, <1>3 DEF BackfillTypeOK, Clear
<1>4. CASE Extract(f)
  BY <1>1, <1>2, <1>4 DEF BackfillTypeOK, Extract
<1>5. CASE PartlyCleared(f)
  <2>1. CASE UNCHANGED <<restored, shared>>
    BY <2>1
  <2>2. CASE ~UNCHANGED <<restored, shared>>
    <3>1. PICK rest \in SUBSET restored[RunOf(f)] :
             restored' = [restored EXCEPT ![RunOf(f)] = rest]
      BY <1>5, <2>2 DEF PartlyCleared
    <3>2. shared' = shared \cup Sharers(f)
      BY <1>5, <2>2 DEF PartlyCleared
    <3>3. QED
      BY <1>1, <1>2, <3>1, <3>2 DEF BackfillTypeOK
  <2>3. QED
    BY <2>1, <2>2
<1>6. CASE UNCHANGED <<restored, shared>>
  BY <1>6
<1>7. Clear(f) \/ Extract(f) \/ PartlyCleared(f) \/ UNCHANGED <<restored, shared>>
  BY DEF Work, Invoke, Kill, Extracted, RehydrateFails, Acquire, AcquireFails,
         Start, Complete, Raise
<1>8. QED
  BY <1>3, <1>4, <1>5, <1>6, <1>7

\* What f itself has restored, after its own step.
LEMMA RestoreOwn ==
    ASSUME BackfillTypeOK, RestoreInv, NEW f \in Flows,
           Work(f) \/ Invoke(f) \/ Kill(f)
    PROVE  /\ Begun(f)' => restored'[RunOf(f)'] \subseteq Members
           /\ Begun(f)' /\ f \notin shared'
                 => restored'[RunOf(f)'] = Members \ left'[f]
           /\ pc'[f] \in {"acquire", "start", "running"} => left'[f] = {}
<1>1. RunOf(f) \in Runs /\ left[f] \subseteq Members
  BY RunOfType DEF BackfillTypeOK
<1>2. ASSUME UNCHANGED pos PROVE RunOf(f)' = RunOf(f)
  BY <1>2 DEF RunOf
<1>3. CASE Clear(f)
  <2>1. /\ restored'[RunOf(f)] = {} /\ left'[f] = Members
        /\ pc'[f] = "extract" /\ UNCHANGED pos
    BY <1>1, <1>3 DEF BackfillTypeOK, Clear, Goto
  <2>2. QED
    BY <1>2, <2>1
<1>4. CASE Extract(f)
  <2>1. PICK file \in left[f] :
          /\ restored'[RunOf(f)] = restored[RunOf(f)] \cup {file}
          /\ left'[f] = left[f] \ {file}
    BY <1>1, <1>4 DEF BackfillTypeOK, Extract
  <2>2. /\ restored[RunOf(f)] \subseteq Members
        /\ f \notin shared => restored[RunOf(f)] = Members \ left[f]
    BY <1>4 DEF Extract, RestoreInv, Begun
  <2>3. f \notin shared' => f \notin shared
    BY <1>4 DEF Extract
  <2>4. /\ restored'[RunOf(f)] \subseteq Members
        /\ f \notin shared' => restored'[RunOf(f)] = Members \ left'[f]
    BY <1>1, <2>1, <2>2, <2>3
  <2>5. pc'[f] = "extract" /\ UNCHANGED pos
    BY <1>4 DEF Extract
  <2>6. QED
    BY <1>2, <2>4, <2>5
<1>5. CASE Extracted(f) \/ Acquire(f) \/ AcquireFails(f) \/ Start(f)
  <2>1. /\ Begun(f) /\ left[f] = {}
        /\ UNCHANGED <<pos, left, restored, shared>>
    BY <1>5 DEF Extracted, Acquire, AcquireFails, Start, RestoreInv, Begun
  <2>2. QED
    BY <1>2, <2>1 DEF RestoreInv
<1>6. CASE Complete(f) \/ Raise(f)
  <2>1. /\ Begun(f) /\ left[f] = {} /\ UNCHANGED <<left, restored, shared>>
    BY <1>6 DEF Complete, Raise, RestoreInv, Begun
  <2>2. \/ UNCHANGED pos /\ pc'[f] = "start"
        \/ pc'[f] \in {"clear", "returned", "failed"}
    <3>1. ASSUME FallBack(f)
          PROVE  (UNCHANGED pos /\ pc'[f] = "start") \/ pc'[f] = "failed"
      BY <3>1 DEF BackfillTypeOK, FallBack, Goto
    <3>2. ASSUME NEW verdict \in BOOLEAN, Count(f, verdict)
          PROVE  pc'[f] \in {"clear", "returned"}
      BY <3>2 DEF BackfillTypeOK, Count, Goto
    <3>3. FallBack(f) \/ \E verdict \in BOOLEAN : Count(f, verdict)
      BY <1>6, Zenon DEF Complete, Raise
    <3> QED
      BY <3>1, <3>2, <3>3
  <2>3. QED
    BY <1>2, <2>1, <2>2 DEF RestoreInv, Begun
<1>7. CASE Invoke(f) \/ RehydrateFails(f) \/ Kill(f)
  <2>1. pc'[f] \in {"clear", "failed", "killed"}
    BY <1>7 DEF BackfillTypeOK, Invoke, RehydrateFails, Kill, Goto
  <2>2. QED
    BY <2>1 DEF Begun
<1>8. QED
  BY <1>3, <1>4, <1>5, <1>6, <1>7 DEF Work

\* A flow's restore directory holds what it has extracted, as long as no other
\* flow writes there.
LEMMA RestoreStep == BackfillTypeOK /\ RestoreInv /\ [Next]_vars => RestoreInv'
<1> SUFFICES ASSUME BackfillTypeOK, RestoreInv, [Next]_vars
             PROVE  RestoreInv'
  OBVIOUS
<1>1. ASSUME NEW f \in Flows, Work(f) \/ Invoke(f) \/ Kill(f) PROVE RestoreInv'
  <2>1. ASSUME NEW g \in Flows, g # f
        PROVE  /\ Begun(g)' => restored'[RunOf(g)'] \subseteq Members
               /\ Begun(g)' /\ g \notin shared'
                     => restored'[RunOf(g)'] = Members \ left'[g]
               /\ pc'[g] \in {"acquire", "start", "running"} => left'[g] = {}
    <3>1. pc'[g] = pc[g] /\ pos'[g] = pos[g] /\ left'[g] = left[g]
      BY <1>1, <2>1, OthersRun
    <3>2. RunOf(g)' = RunOf(g)
      BY <3>1 DEF RunOf
    <3>3. CASE Begun(g)
      <4>1. /\ restored[RunOf(g)] \subseteq Members
            /\ g \notin shared => restored[RunOf(g)] = Members \ left[g]
        BY <3>3 DEF RestoreInv
      <4>2. /\ restored'[RunOf(g)] \subseteq Members
            /\ g \in shared => g \in shared'
            /\ g \notin shared' => restored'[RunOf(g)] = restored[RunOf(g)]
        BY <1>1, <2>1, <3>3, <4>1, OthersFiles
      <4>3. QED
        BY <3>1, <3>2, <4>1, <4>2 DEF RestoreInv
    <3>4. CASE ~Begun(g)
      BY <3>1, <3>4 DEF Begun
    <3>5. QED
      BY <3>3, <3>4
  <2>2. QED
    BY <1>1, <2>1, RestoreOwn DEF RestoreInv
<1>2. CASE LeaseExpires \/ UNCHANGED vars
  BY <1>2 DEF RestoreInv, Begun, RunOf, LeaseExpires, vars, flowVars
<1>3. QED
  BY <1>1, <1>2 DEF Next

\* Every step leaves the inputs of a running pipeline whole.
LEMMA InputsStep ==
    BackfillTypeOK /\ RestoreInv /\ InputsWhole /\ [Next]_vars => InputsWhole'
<1> SUFFICES ASSUME BackfillTypeOK, RestoreInv, InputsWhole, [Next]_vars
             PROVE  InputsWhole'
  OBVIOUS
<1>1. ASSUME NEW f \in Flows, Work(f) \/ Invoke(f) \/ Kill(f) PROVE InputsWhole'
  <2>1. pc'[f] = "running" => /\ seen'[f] \subseteq Members
                              /\ f \notin shared' => seen'[f] = Members
    <3>1. CASE Start(f)
      <4>1. /\ restored[RunOf(f)] \subseteq Members
            /\ f \notin shared => restored[RunOf(f)] = Members
        BY <3>1 DEF Start, RestoreInv, Begun
      <4>2. seen'[f] = restored[RunOf(f)] /\ shared' = shared
        BY <3>1 DEF BackfillTypeOK, Start
      <4>3. QED
        BY <4>1, <4>2
    <3>2. CASE Extract(f)
      BY <3>2 DEF Extract
    <3>3. CASE Complete(f) \/ Raise(f)
      <4>1. Count(f, TRUE) \/ Count(f, FALSE) \/ FallBack(f)
        BY <3>3 DEF Complete, Raise
      <4>2. pc'[f] \in {"clear", "returned", "failed", "start"}
        BY <4>1 DEF BackfillTypeOK, Count, FallBack, Goto
      <4>3. QED
        BY <4>2
    <3>4. CASE Clear(f) \/ Extracted(f) \/ RehydrateFails(f) \/ Acquire(f)
               \/ AcquireFails(f) \/ Invoke(f) \/ Kill(f)
      BY <3>4 DEF BackfillTypeOK, Clear, Extracted, RehydrateFails, Acquire,
                  AcquireFails, Invoke, Kill, Goto
    <3>5. QED
      BY <1>1, <3>1, <3>2, <3>3, <3>4 DEF Work
  <2>2. ASSUME NEW g \in Flows, g # f, pc'[g] = "running"
        PROVE  /\ seen'[g] \subseteq Members
               /\ g \notin shared' => seen'[g] = Members
    <3>1. pc[g] = "running" /\ seen'[g] = seen[g]
      BY <1>1, <2>2, OthersRun
    <3>2. g \in shared => g \in shared'
      BY <1>1, <2>2, <3>1, OthersFiles DEF Begun, RestoreInv
    <3>3. QED
      BY <3>1, <3>2 DEF InputsWhole
  <2>3. QED
    BY <2>1, <2>2 DEF InputsWhole
<1>2. CASE LeaseExpires \/ UNCHANGED vars
  BY <1>2 DEF InputsWhole, LeaseExpires, vars, flowVars
<1>3. QED
  BY <1>1, <1>2 DEF Next

-----------------------------------------------------------------------------
(* Theorems *)

\* The two invariants: lemmas for the theorems below.
THEOREM Invariance == Spec => []IInv
<1>1. IInv /\ [Next]_vars => IInv'
  BY TypeStep, AtPlanStep, ReportStep DEF IInv
<1>2. QED
  BY InitInv, <1>1, PTL DEF Spec

\* The invariant on restored inputs holds for every plan and every overlap.
THEOREM WholeInvariance == Spec => []WholeInv
<1>1. Init => WholeInv
  BY InitInv DEF IInv, WholeInv, Init, RestoreInv, Begun, InputsWhole
<1>2. WholeInv /\ [Next]_vars => WholeInv'
  BY TypeStep, RestoreStep, InputsStep DEF WholeInv
<1>3. QED
  BY <1>1, <1>2, PTL DEF Spec

\* Every variable keeps its type; in particular no flow leaves its plan and
\* no archive is restored more often than Retries allows.
THEOREM TypeCorrect == Spec => []BackfillTypeOK
<1>1. IInv => BackfillTypeOK
  BY DEF IInv
<1>2. QED
  BY Invariance, <1>1, PTL

\* For any plans, overlapping or not, and however often the fallbacks repeat a
\* replay, the verdict a flow reports is that of the workbook it left
\* (orchestration.py:687-748, 893-903).
THEOREM ReportsAreTrue == Spec => []ReportMatchesOutput
<1>1. IInv => ReportMatchesOutput
  BY DEF IInv
<1>2. QED
  BY Invariance, <1>1, PTL

\* For any flows and plans, in any overlap, no replay works on anything but
\* its archive, and it works on all of it unless another flow has written to the
\* same restore directory since (orchestration.py:670-681), after any number of
\* retries, kills and earlier backfills.
THEOREM ArchivesAreWhole == Spec => []InputsWhole
<1>1. WholeInv => InputsWhole
  BY DEF WholeInv
<1>2. QED
  BY WholeInvariance, <1>1, PTL
=============================================================================
