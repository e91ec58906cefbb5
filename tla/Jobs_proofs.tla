----------------------------- MODULE Jobs_proofs -----------------------------
(***************************************************************************)
(* Proofs about the jobs of the UI server, for every log bound, every      *)
(* amount of output, every failure of the disk and every number of broken  *)
(* connections: the runner (JobRunner), the dataset import it serves       *)
(* (ImportJob) and the streams from it to the browser (JobStream).         *)
(*                                                                         *)
(* None of the runner's properties is inductive alone.  The strengthening  *)
(* says how the status in the table follows the child process              *)
(* (ControlInv): above all, that a job with a verdict has a child whose    *)
(* pipes are empty, which is why no output can follow the announcement of  *)
(* the end.  Import and streams make the runner's calls several at a time; *)
(* HostedStepKeeps says that the runner's promises survive it, and each    *)
(* adds an invariant of its own.                                           *)
(***************************************************************************)
EXTENDS ImportJob, JobStream, SequenceTheorems, TLAPS

-----------------------------------------------------------------------------
(* The runner *)

\* How the table entry and the child process determine each other.
ControlInv ==
    /\ child = "none" <=> job.status \in {"absent", "queued"}
    /\ child \in {"unspawned", "alive", "exited"} => job.status = "running"
    /\ child \in {"none", "unspawned", "alive"} => exit = "none"
    /\ child = "exited" => exit \in {"zero", "nonzero"}
    /\ child = "errored" => exit = "unspawned" /\ job.status = "failed"
    /\ child = "closed" =>
           exit # "none" /\ job.status = Verdict(exit) /\ read = written
    /\ child \in {"none", "unspawned", "errored"} \/ exit = "unspawned"
           => written = 0

\* Before the verdict nothing has announced the end.
QuietBeforeEnd ==
    job.status \notin Terminal =>
        \A i \in 1..Len(emitted) : ~Finished(emitted[i])

IInv == TypeOK /\ ControlInv /\ LogIsRecentOutput /\ QuietBeforeEnd
        /\ NothingAfterTheEnd

-----------------------------------------------------------------------------
\* pushLog returns a well-typed entry and touches nothing but the log.
LEMMA PushLogType ==
    ASSUME TypeOK, NEW e \in LogEntries, NEW s \in Statuses
    PROVE  LET j == [job EXCEPT !.status = s]
           IN  PushLog(j, e) \in
                 [status : {s}, log : Seq(LogEntries), shifted : BOOLEAN,
                  exitCode : {job.exitCode}, meta : {job.meta}]
<1> DEFINE j == [job EXCEPT !.status = s]
           longer == Append(j.log, e)
<1>1. j.log \in Seq(LogEntries) /\ j.log = job.log
  BY DEF TypeOK
<1>2. longer \in Seq(LogEntries) /\ longer # <<>>
  BY <1>1
<1>3. Tail(longer) \in Seq(LogEntries)
  BY <1>2
<1>4. QED
  BY <1>2, <1>3 DEF TypeOK, PushLog

\* The lemma for a push that leaves the status alone.
LEMMA PushLogKeeps ==
    ASSUME TypeOK, NEW e \in LogEntries
    PROVE  PushLog(job, e) \in
             [status : {job.status}, log : Seq(LogEntries), shifted : BOOLEAN,
              exitCode : {job.exitCode}, meta : {job.meta}]
<1>1. [job EXCEPT !.status = job.status] = job /\ job.status \in Statuses
  BY DEF TypeOK
<1>2. QED
  BY <1>1, PushLogType

\* The entry createCommandJob builds.
LEMMA EntryType ==
    ASSUME NEW meta \in SUBSET MetaKeys, NEW s \in Statuses
    PROVE  Entry(s, meta) \in
             [status : Statuses, log : Seq(LogEntries), shifted : BOOLEAN,
              exitCode : ExitCodes, meta : SUBSET MetaKeys]
<1>1. <<>> \in Seq(LogEntries) /\ "none" \in ExitCodes
  BY DEF ExitCodes
<1>2. QED
  BY <1>1 DEF Entry

\* Every step of the runner keeps the types.
LEMMA TypeInductive == TypeOK /\ [Next]_runnerVars => TypeOK'
<1> SUFFICES ASSUME TypeOK, [Next]_runnerVars PROVE TypeOK'
  OBVIOUS
<1> USE MaxChunksAssumption
<1>1. ASSUME NEW meta \in SUBSET MetaKeys, SpawnThrows(meta) PROVE TypeOK'
  <2>1. emitted' \in Seq(Events)
    BY <1>1 DEF TypeOK, SpawnThrows, Emit, Events
  <2>2. QED
    BY <1>1, <2>1, EntryType DEF TypeOK, SpawnThrows, Statuses
<1>2. ASSUME NEW meta \in SUBSET MetaKeys,
             NEW outcome \in {"alive", "unspawned"}, Spawn(meta, outcome)
      PROVE TypeOK'
  <2>1. emitted' \in Seq(Events)
    BY <1>2 DEF TypeOK, Spawn, EmitBoth, Events
  <2>2. QED
    BY <1>2, <2>1, EntryType DEF TypeOK, Spawn, Statuses, ChildStates
<1>3. CASE ChildWrites
  BY <1>3 DEF TypeOK, ChildWrites
<1>4. CASE ChildExits
  BY <1>4 DEF TypeOK, ChildExits, ChildStates, ExitCodes
<1>5. CASE OnData
  <2>1. read + 1 \in 1..MaxChunks /\ read + 1 \in LogEntries
    BY <1>5 DEF OnData, TypeOK, LogEntries
  <2>2. emitted' \in Seq(Events)
    BY <1>5, <2>1 DEF OnData, Emit, TypeOK, Events
  <2>3. QED
    BY <1>5, <2>1, <2>2, PushLogKeeps DEF OnData, TypeOK
<1>6. CASE OnError
  <2>1. SpawnErrorEntry \in LogEntries /\ "failed" \in Statuses
    BY DEF SpawnErrorEntry, LogEntries, Statuses, Terminal
  <2>2. emitted' \in Seq(Events)
    BY <1>6 DEF OnError, EmitBoth, TypeOK, Events, Terminal
  <2>3. job' \in [status : Statuses, log : Seq(LogEntries), shifted : BOOLEAN,
                  exitCode : ExitCodes, meta : SUBSET MetaKeys]
    BY <1>6, <2>1, PushLogType DEF OnError, TypeOK
  <2>4. QED
    BY <1>6, <2>2, <2>3 DEF OnError, TypeOK, ChildStates, ExitCodes
<1>7. CASE OnClose
  <2>1. Verdict(exit) \in Terminal /\ Verdict(exit) \in Statuses
    BY DEF Verdict, Terminal, Statuses
  <2>2. emitted' \in Seq(Events)
    BY <1>7, <2>1 DEF OnClose, Emit, TypeOK, Events
  <2>3. QED
    BY <1>7, <2>1, <2>2 DEF OnClose, TypeOK, ChildStates
<1>8. ASSUME NEW patch \in SUBSET MetaKeys, MergeJobMetadata(patch)
      PROVE TypeOK'
  BY <1>8 DEF MergeJobMetadata, TypeOK, Emit, Events
<1>9. ASSUME NEW topic \in Topics, PublishJobEvent(topic) PROVE TypeOK'
  BY <1>9 DEF PublishJobEvent, TypeOK, Emit, Events
<1>10. CASE UNCHANGED runnerVars
  BY <1>10 DEF runnerVars, TypeOK
<1>11. QED
  BY <1>1, <1>2, <1>3, <1>4, <1>5, <1>6, <1>7, <1>8, <1>9, <1>10
     DEF Next, ChildStep, Callback, CallerStep, CreateCommandJob

\* The first state satisfies the invariant.
LEMMA InitIInv == Init => IInv
  BY MaxLogAssumption, MaxChunksAssumption
     DEF Init, Entry, IInv, TypeOK, ControlInv, LogIsRecentOutput,
         QuietBeforeEnd, NothingAfterTheEnd, Statuses, Terminal, ChildStates,
         ExitCodes, Events

\* Type correctness of the job table entry and its child, for every bound.
THEOREM TypeCorrect == Spec => []TypeOK
<1>1. Init => TypeOK
  BY InitIInv DEF IInv
<1>2. QED
  BY <1>1, TypeInductive, PTL DEF Spec

-----------------------------------------------------------------------------
\* Every step keeps the table entry and the child together.
LEMMA ControlInductive ==
    TypeOK /\ ControlInv /\ [Next]_runnerVars => ControlInv'
<1> SUFFICES ASSUME TypeOK, ControlInv, [Next]_runnerVars PROVE ControlInv'
  OBVIOUS
<1> USE DEF ControlInv
<1>1. ASSUME NEW meta \in SUBSET MetaKeys, SpawnThrows(meta) PROVE ControlInv'
  BY <1>1 DEF SpawnThrows, Entry
<1>2. ASSUME NEW meta \in SUBSET MetaKeys,
             NEW outcome \in {"alive", "unspawned"}, Spawn(meta, outcome)
      PROVE ControlInv'
  BY <1>2 DEF Spawn, Entry
<1>3. CASE ChildWrites
  BY <1>3 DEF ChildWrites
<1>4. CASE ChildExits
  BY <1>4 DEF ChildExits
<1>5. CASE OnData
  <2>1. read + 1 \in LogEntries
    BY <1>5, MaxChunksAssumption DEF OnData, TypeOK, LogEntries
  <2>2. job'.status = job.status
    BY <1>5, <2>1, PushLogKeeps DEF OnData
  <2>3. written # 0 /\ read # written
    BY <1>5 DEF OnData, TypeOK
  <2>4. QED
    BY <1>5, <2>2, <2>3 DEF OnData
<1>6. CASE OnError
  <2>1. job'.status = "failed"
    <3>1. SpawnErrorEntry \in LogEntries /\ "failed" \in Statuses
      BY MaxChunksAssumption DEF SpawnErrorEntry, LogEntries, Statuses, Terminal
    <3>2. QED
      BY <1>6, <3>1, PushLogType DEF OnError
  <2>2. QED
    BY <1>6, <2>1 DEF OnError
<1>7. CASE OnClose
  <2>1. job'.status = Verdict(exit) /\ exit # "none" /\ exit' = exit
    BY <1>7 DEF OnClose, Closable, TypeOK
  <2>2. read = written
    BY <1>7 DEF OnClose, Closable, TypeOK
  <2>3. Verdict(exit) \in Terminal
    BY DEF Verdict, Terminal
  <2>4. QED
    BY <1>7, <2>1, <2>2, <2>3 DEF OnClose, Closable, Terminal, Verdict
<1>8. ASSUME NEW patch \in SUBSET MetaKeys, MergeJobMetadata(patch)
      PROVE ControlInv'
  BY <1>8 DEF MergeJobMetadata, TypeOK
<1>9. ASSUME NEW topic \in Topics, PublishJobEvent(topic) PROVE ControlInv'
  BY <1>9 DEF PublishJobEvent
<1>10. CASE UNCHANGED runnerVars
  BY <1>10 DEF runnerVars
<1>11. QED
  BY <1>1, <1>2, <1>3, <1>4, <1>5, <1>6, <1>7, <1>8, <1>9, <1>10
     DEF Next, ChildStep, Callback, CallerStep, CreateCommandJob

\* A verdict is in the table only when the child has nothing left to say.
LEMMA VerdictMeansDrained ==
    ASSUME TypeOK, ControlInv, job.status \in Terminal
    PROVE  /\ child \in {"errored", "closed"}
           /\ read = written
           /\ job.status = Verdict(exit)
  BY DEF TypeOK, ControlInv, ChildStates, Terminal, Verdict

-----------------------------------------------------------------------------
\* What appending to a non-negative stretch of numbers and dropping its head
\* do, entry by entry.
LEMMA AppendTail ==
    ASSUME NEW s \in Seq(LogEntries), NEW e \in LogEntries
    PROVE  LET longer == Append(s, e)
           IN  /\ Len(longer) = Len(s) + 1
               /\ \A i \in 1..(Len(s) + 1) :
                     longer[i] = IF i = Len(s) + 1 THEN e ELSE s[i]
               /\ Len(Tail(longer)) = Len(s)
               /\ \A i \in 1..Len(s) :
                     Tail(longer)[i] = IF i = Len(s) THEN e ELSE s[i + 1]
<1> DEFINE longer == Append(s, e)
<1>1. longer \in Seq(LogEntries) /\ Len(longer) = Len(s) + 1 /\ Len(s) \in Nat
  OBVIOUS
<1>2. \A i \in 1..(Len(s) + 1) :
         longer[i] = IF i = Len(s) + 1 THEN e ELSE s[i]
  OBVIOUS
<1>3. longer # <<>>
  BY <1>1
<1>4. Len(Tail(longer)) = Len(longer) - 1
  BY <1>1, <1>3, HeadTailProperties
<1>5. \A i \in 1..Len(Tail(longer)) : Tail(longer)[i] = longer[i + 1]
  BY <1>1, <1>3, HeadTailProperties
<1>6. Len(Tail(longer)) = Len(s)
  BY <1>1, <1>4
<1>7. \A i \in 1..Len(s) : Tail(longer)[i] = IF i = Len(s) THEN e ELSE s[i + 1]
  BY <1>1, <1>2, <1>5, <1>6
<1>8. QED
  BY <1>1, <1>2, <1>6, <1>7

\* Pushing the next chunk onto a log of recent output keeps it recent.
LEMMA PushKeepsRecent ==
    ASSUME TypeOK, LogIsRecentOutput, exit # "unspawned", read < written
    PROVE  LET j == PushLog(job, read + 1)
           IN  /\ \A i \in 1..Len(j.log) : j.log[i] = read + 1 - Len(j.log) + i
               /\ Len(j.log) = (IF read + 1 < MaxLog THEN read + 1 ELSE MaxLog)
               /\ j.shifted <=> read + 1 > MaxLog
<1> DEFINE n == Len(job.log)
           longer == Append(job.log, read + 1)
           j == PushLog(job, read + 1)
           full == Len(longer) > MaxLog
<1>0. /\ j.log = IF full THEN Tail(longer) ELSE longer
      /\ j.shifted = (job.shifted \/ full)
  BY DEF PushLog
<1>1. /\ job.log \in Seq(LogEntries) /\ n \in Nat /\ read \in Nat
      /\ MaxLog \in Nat /\ read + 1 \in LogEntries
  BY MaxLogAssumption, MaxChunksAssumption DEF TypeOK, LogEntries
<1>2. /\ \A i \in 1..n : job.log[i] = read - n + i
      /\ n = IF read < MaxLog THEN read ELSE MaxLog
      /\ job.shifted <=> read > MaxLog
  BY DEF LogIsRecentOutput
<1>3. /\ Len(longer) = n + 1
      /\ \A i \in 1..(n + 1) : longer[i] = IF i = n + 1 THEN read + 1 ELSE job.log[i]
      /\ Len(Tail(longer)) = n
      /\ \A i \in 1..n : Tail(longer)[i] = IF i = n THEN read + 1 ELSE job.log[i + 1]
  BY <1>1, AppendTail
<1> DEFINE Recent(log, shifted) ==
             /\ \A i \in 1..Len(log) : log[i] = read + 1 - Len(log) + i
             /\ Len(log) = (IF read + 1 < MaxLog THEN read + 1 ELSE MaxLog)
             /\ shifted <=> read + 1 > MaxLog
<1>4. CASE full
  <2> DEFINE t == Tail(longer)
  <2>1. n = MaxLog /\ read >= MaxLog
    BY <1>1, <1>2, <1>3, <1>4
  <2>2. Len(t) = n
        /\ \A i \in 1..n : t[i] = IF i = n THEN read + 1 ELSE job.log[i + 1]
    BY <1>3
  <2> HIDE DEF t, n, j, longer, full
  <2>3. \A i \in 1..n : t[i] = read + 1 - n + i
    <3> SUFFICES ASSUME NEW i \in 1..n PROVE t[i] = read + 1 - n + i
      OBVIOUS
    <3>1. CASE i = n
      BY <1>1, <2>2, <3>1
    <3>2. CASE i # n
      <4>1. i + 1 \in 1..n
        BY <1>1, <3>2
      <4>2. job.log[i + 1] = read - n + (i + 1)
        BY <1>2, <4>1
      <4>3. QED
        BY <1>1, <2>2, <3>2, <4>2
    <3>3. QED
      BY <3>1, <3>2
  <2>4. Recent(t, TRUE)
    BY <1>1, <2>1, <2>2, <2>3
  <2>5. j.log = t /\ j.shifted = TRUE
    BY <1>0, <1>4 DEF t
  <2>6. QED
    BY <2>4, <2>5 DEF j
<1>5. CASE ~full
  <2>1. n = read /\ read < MaxLog
    BY <1>1, <1>2, <1>3, <1>5
  <2>2. Len(longer) = n + 1 /\ ~job.shifted
        /\ \A i \in 1..(n + 1) :
              longer[i] = IF i = n + 1 THEN read + 1 ELSE job.log[i]
    BY <1>1, <1>2, <1>3, <2>1
  <2> HIDE DEF n, j, longer, full
  <2>3. \A i \in 1..(n + 1) : longer[i] = read + 1 - (n + 1) + i
    BY <1>1, <1>2, <2>1, <2>2
  <2>4. Recent(longer, FALSE)
    BY <1>1, <2>1, <2>2, <2>3
  <2>5. j.log = longer /\ (j.shifted <=> FALSE)
    BY <1>0, <1>5, <2>2 DEF full
  <2>6. QED
    BY <2>4, <2>5 DEF j
<1>6. QED
  BY <1>4, <1>5

\* Every step keeps the log the most recent output.
LEMMA LogInductive ==
    /\ TypeOK /\ ControlInv /\ LogIsRecentOutput
    /\ [Next]_runnerVars
    => LogIsRecentOutput'
<1> SUFFICES ASSUME TypeOK, ControlInv, LogIsRecentOutput, [Next]_runnerVars
             PROVE  LogIsRecentOutput'
  OBVIOUS
<1>0. ASSUME exit # "unspawned", read < written
      PROVE  LET j == PushLog(job, read + 1)
             IN  /\ \A i \in 1..Len(j.log) : j.log[i] = read + 1 - Len(j.log) + i
                 /\ Len(j.log) = (IF read + 1 < MaxLog THEN read + 1 ELSE MaxLog)
                 /\ j.shifted <=> read + 1 > MaxLog
  BY <1>0, PushKeepsRecent
<1> USE DEF LogIsRecentOutput
<1>1. ASSUME NEW meta \in SUBSET MetaKeys, SpawnThrows(meta)
      PROVE LogIsRecentOutput'
  BY <1>1, MaxLogAssumption DEF SpawnThrows, Entry, TypeOK, ControlInv
<1>2. ASSUME NEW meta \in SUBSET MetaKeys,
             NEW outcome \in {"alive", "unspawned"}, Spawn(meta, outcome)
      PROVE LogIsRecentOutput'
  BY <1>2, MaxLogAssumption DEF Spawn, Entry, TypeOK, ControlInv
<1>3. CASE ChildWrites
  BY <1>3 DEF ChildWrites
<1>4. CASE ChildExits
  BY <1>4 DEF ChildExits, ControlInv
<1>5. CASE OnData
  <2>1. exit # "unspawned" /\ read < written
    BY <1>5 DEF OnData, ControlInv, TypeOK
  <2>2. job' = PushLog(job, read + 1) /\ read' = read + 1 /\ exit' = exit
    BY <1>5 DEF OnData
  <2>3. /\ \A i \in 1..Len(job'.log) :
              job'.log[i] = read + 1 - Len(job'.log) + i
        /\ Len(job'.log) = (IF read + 1 < MaxLog THEN read + 1 ELSE MaxLog)
        /\ job'.shifted <=> read + 1 > MaxLog
    BY <2>1, <2>2, <1>0, Zenon
  <2>4. read' = read + 1 /\ read \in Nat /\ read' \in Nat /\ MaxLog \in Nat
    BY <2>2, MaxLogAssumption DEF TypeOK
  <2> DEFINE n == Len(job'.log)
  <2>5. n \in Nat
    BY <2>3, <2>4
  <2> HIDE DEF n
  <2>6. \A i \in 1..n : job'.log[i] = read' - n + i
    <3>1. \A i \in 1..n : job'.log[i] = read + 1 - n + i
      BY <2>3, Zenon DEF n
    <3>2. ASSUME NEW i \in 1..n PROVE job'.log[i] = read' - n + i
      <4>1. read + 1 - n + i = read' - n + i
        BY <2>4, <2>5
      <4> QED
        BY <3>1, <4>1
    <3> QED
      BY <3>2
  <2>7. n = (IF read' < MaxLog THEN read' ELSE MaxLog)
    BY <2>3, <2>4, <2>5 DEF n
  <2>8. job'.shifted <=> read' > MaxLog
    BY <2>3, <2>4
  <2>9. QED
    BY <2>6, <2>7, <2>8, Zenon DEF n
<1>6. CASE OnError
  BY <1>6 DEF OnError
<1>7. CASE OnClose
  BY <1>7 DEF OnClose, TypeOK
<1>8. ASSUME NEW patch \in SUBSET MetaKeys, MergeJobMetadata(patch)
      PROVE LogIsRecentOutput'
  BY <1>8 DEF MergeJobMetadata, TypeOK
<1>9. ASSUME NEW topic \in Topics, PublishJobEvent(topic)
      PROVE LogIsRecentOutput'
  BY <1>9 DEF PublishJobEvent
<1>10. CASE UNCHANGED runnerVars
  BY <1>10 DEF runnerVars
<1>11. QED
  BY <1>1, <1>2, <1>3, <1>4, <1>5, <1>6, <1>7, <1>8, <1>9, <1>10
     DEF Next, ChildStep, Callback, CallerStep, CreateCommandJob

-----------------------------------------------------------------------------
\* One more event that is not an end leaves a log without ends without ends.
LEMMA QuietInductive ==
    /\ TypeOK /\ ControlInv /\ QuietBeforeEnd
    /\ [Next]_runnerVars
    => QuietBeforeEnd'
<1> SUFFICES ASSUME TypeOK, ControlInv, QuietBeforeEnd, [Next]_runnerVars,
                    job'.status \notin Terminal
             PROVE  \A i \in 1..Len(emitted') : ~Finished(emitted'[i])
  BY DEF QuietBeforeEnd, Finished
<1>a. emitted \in Seq(Events) /\ Len(emitted) \in Nat
  BY DEF TypeOK
<1>1. ASSUME NEW e, ~Finished(e), job.status \notin Terminal,
             emitted' = Append(emitted, e)
      PROVE  \A i \in 1..Len(emitted') : ~Finished(emitted'[i])
  BY <1>a, <1>1 DEF QuietBeforeEnd
<1>2. ASSUME NEW d, NEW e, ~Finished(d), ~Finished(e),
             job.status \notin Terminal,
             emitted' = Append(Append(emitted, d), e)
      PROVE  \A i \in 1..Len(emitted') : ~Finished(emitted'[i])
  BY <1>a, <1>2 DEF QuietBeforeEnd
<1>3. ASSUME emitted' = emitted, job.status \notin Terminal
      PROVE  \A i \in 1..Len(emitted') : ~Finished(emitted'[i])
  BY <1>3 DEF QuietBeforeEnd
<1>4. ASSUME NEW meta \in SUBSET MetaKeys, SpawnThrows(meta)
      PROVE  \A i \in 1..Len(emitted') : ~Finished(emitted'[i])
  BY <1>4, <1>1 DEF SpawnThrows, Emit, Finished, Terminal
<1>5. ASSUME NEW meta \in SUBSET MetaKeys,
             NEW outcome \in {"alive", "unspawned"}, Spawn(meta, outcome)
      PROVE  \A i \in 1..Len(emitted') : ~Finished(emitted'[i])
  <2> DEFINE d == [type |-> "queued"]
             e == [type |-> "started"]
  <2>1. ~Finished(d) /\ ~Finished(e)
    BY DEF Finished
  <2>2. job.status \notin Terminal /\ emitted' = Append(Append(emitted, d), e)
    BY <1>5 DEF Spawn, EmitBoth, Terminal
  <2> HIDE DEF d, e
  <2>3. QED
    BY <1>2, <2>1, <2>2
<1>6. CASE ChildStep
  BY <1>6, <1>3 DEF ChildStep, ChildWrites, ChildExits
<1>7. CASE OnData
  <2>1. read + 1 \in LogEntries
    BY <1>7, MaxChunksAssumption DEF OnData, TypeOK, LogEntries
  <2>2. job'.status = job.status
    BY <1>7, <2>1, PushLogKeeps DEF OnData
  <2>3. QED
    BY <1>7, <2>2, <1>1 DEF OnData, Emit, Finished
<1>8. CASE OnError
  <2>1. SpawnErrorEntry \in LogEntries /\ "failed" \in Statuses
    BY MaxChunksAssumption DEF SpawnErrorEntry, LogEntries, Statuses, Terminal
  <2>2. job'.status = "failed"
    BY <1>8, <2>1, PushLogType DEF OnError
  <2>3. QED
    BY <2>2 DEF Terminal
<1>9. CASE OnClose
  BY <1>9 DEF OnClose, TypeOK, Verdict, Terminal
<1>10. ASSUME NEW patch \in SUBSET MetaKeys, MergeJobMetadata(patch)
       PROVE  \A i \in 1..Len(emitted') : ~Finished(emitted'[i])
  <2>1. job'.status = job.status
    BY <1>10 DEF MergeJobMetadata, TypeOK
  <2>2. QED
    BY <1>10, <2>1, <1>1 DEF MergeJobMetadata, Emit, Finished
<1>11. ASSUME NEW topic \in Topics, PublishJobEvent(topic)
       PROVE  \A i \in 1..Len(emitted') : ~Finished(emitted'[i])
  BY <1>11, <1>1 DEF PublishJobEvent, Emit, Finished
<1>12. CASE UNCHANGED runnerVars
  BY <1>12, <1>3 DEF runnerVars
<1>13. QED
  BY <1>4, <1>5, <1>6, <1>7, <1>8, <1>9, <1>10, <1>11, <1>12
     DEF Next, Callback, CallerStep, CreateCommandJob

-----------------------------------------------------------------------------
\* A settled verdict survives every step: the only callback still due is the
\* 'close' after a failed spawn, and it settles on the same verdict.
LEMMA VerdictKept ==
    ASSUME TypeOK, ControlInv, [Next]_runnerVars, job.status \in Terminal
    PROVE  job'.status = job.status
<1>1. /\ child \in {"errored", "closed"} /\ read = written
      /\ job.status = Verdict(exit) /\ job.status \notin {"absent", "queued"}
  BY VerdictMeansDrained DEF Terminal
<1>2. ASSUME NEW meta \in SUBSET MetaKeys, CreateCommandJob(meta)
      PROVE job'.status = job.status
  BY <1>1, <1>2 DEF CreateCommandJob, Spawn, SpawnThrows
<1>3. CASE ChildStep
  BY <1>3 DEF ChildStep, ChildWrites, ChildExits
<1>4. CASE OnData
  BY <1>1, <1>4 DEF OnData, TypeOK
<1>5. CASE OnError
  BY <1>1, <1>5 DEF OnError
<1>6. CASE OnClose
  BY <1>1, <1>6 DEF OnClose, TypeOK
<1>7. ASSUME NEW patch \in SUBSET MetaKeys, MergeJobMetadata(patch)
      PROVE job'.status = job.status
  BY <1>7 DEF MergeJobMetadata, TypeOK
<1>8. ASSUME NEW topic \in Topics, PublishJobEvent(topic)
      PROVE job'.status = job.status
  BY <1>8 DEF PublishJobEvent
<1>9. CASE UNCHANGED runnerVars
  BY <1>9 DEF runnerVars
<1>10. QED
  BY <1>2, <1>3, <1>4, <1>5, <1>6, <1>7, <1>8, <1>9
     DEF Next, Callback, CallerStep

\* What may be appended without breaking NothingAfterTheEnd.
LEMMA AppendAfterEnd ==
    ASSUME TypeOK, NothingAfterTheEnd, QuietBeforeEnd,
           NEW e, emitted' = Append(emitted, e),
           Finished(e) => e.status = job'.status,
           job.status \in Terminal =>
               /\ job'.status = job.status
               /\ e.type \in {"finished", "metadata", "published"}
    PROVE  NothingAfterTheEnd'
<1> DEFINE n == Len(emitted)
<1>1. /\ emitted \in Seq(Events) /\ n \in Nat /\ Len(emitted') = n + 1
      /\ \A i \in 1..n : emitted'[i] = emitted[i]
      /\ emitted'[n + 1] = e
  BY DEF TypeOK
<1>2. SUFFICES ASSUME NEW i \in 1..(n + 1), Finished(emitted'[i])
               PROVE  /\ emitted'[i].status = job'.status
                      /\ \A k \in i..(n + 1) :
                            emitted'[k].type \in {"finished", "metadata", "published"}
  BY <1>1 DEF NothingAfterTheEnd, Finished
<1>3. CASE i = n + 1
  BY <1>1, <1>2, <1>3 DEF Finished
<1>4. CASE i # n + 1
  <2>1. i \in 1..n /\ Finished(emitted[i])
    BY <1>1, <1>2, <1>4
  <2>2. job.status \in Terminal
    BY <2>1 DEF QuietBeforeEnd
  <2>3. /\ emitted[i].status = job.status
        /\ \A k \in i..n : emitted[k].type \in {"finished", "metadata", "published"}
    BY <2>1 DEF NothingAfterTheEnd
  <2>4. ASSUME NEW k \in i..(n + 1)
        PROVE  emitted'[k].type \in {"finished", "metadata", "published"}
    <3>1. CASE k = n + 1
      BY <1>1, <2>2, <3>1
    <3>2. CASE k # n + 1
      BY <1>1, <2>1, <2>3, <3>2
    <3>3. QED
      BY <3>1, <3>2
  <2>5. QED
    BY <1>1, <2>1, <2>2, <2>3, <2>4
<1>5. QED
  BY <1>3, <1>4

\* Two events appended while nothing has announced the end, of which only
\* the second may announce it.
LEMMA AppendTwoBeforeEnd ==
    ASSUME TypeOK, QuietBeforeEnd, job.status \notin Terminal,
           NEW d, NEW e, emitted' = Append(Append(emitted, d), e),
           ~Finished(d), Finished(e) => e.status = job'.status
    PROVE  NothingAfterTheEnd'
<1> DEFINE n == Len(emitted)
<1>1. /\ emitted \in Seq(Events) /\ n \in Nat /\ Len(emitted') = n + 2
      /\ \A i \in 1..n : emitted'[i] = emitted[i]
      /\ emitted'[n + 1] = d /\ emitted'[n + 2] = e
  BY DEF TypeOK
<1>2. \A i \in 1..(n + 1) : ~Finished(emitted'[i])
  BY <1>1 DEF QuietBeforeEnd
<1>3. \A i \in 1..(n + 2) : Finished(emitted'[i]) => i = n + 2
  BY <1>1, <1>2
<1>4. \A i \in 1..(n + 2) : Finished(emitted'[i]) =>
         /\ emitted'[i].status = job'.status
         /\ \A k \in i..(n + 2) : emitted'[k].type = "finished"
  BY <1>1, <1>3 DEF Finished
<1>5. QED
  BY <1>1, <1>4 DEF NothingAfterTheEnd, Finished

\* Every step keeps the announced end the end.
LEMMA EndInductive ==
    /\ TypeOK /\ ControlInv /\ QuietBeforeEnd /\ NothingAfterTheEnd
    /\ [Next]_runnerVars
    => NothingAfterTheEnd'
<1> SUFFICES ASSUME TypeOK, ControlInv, QuietBeforeEnd, NothingAfterTheEnd,
                    [Next]_runnerVars
             PROVE  NothingAfterTheEnd'
  OBVIOUS
<1>0. job.status \in Terminal =>
         /\ job'.status = job.status /\ read = written
         /\ child \in {"errored", "closed"}
  BY VerdictKept, VerdictMeansDrained
<1>1. ASSUME NEW meta \in SUBSET MetaKeys, SpawnThrows(meta)
      PROVE NothingAfterTheEnd'
  BY <1>1, AppendAfterEnd DEF SpawnThrows, Emit, Finished, Terminal
<1>2. ASSUME NEW meta \in SUBSET MetaKeys,
             NEW outcome \in {"alive", "unspawned"}, Spawn(meta, outcome)
      PROVE NothingAfterTheEnd'
  <2> DEFINE d == [type |-> "queued"]
             e == [type |-> "started"]
  <2>1. ~Finished(d) /\ ~Finished(e)
    BY DEF Finished
  <2>2. job.status \notin Terminal /\ emitted' = Append(Append(emitted, d), e)
    BY <1>2 DEF Spawn, EmitBoth, Terminal
  <2> HIDE DEF d, e
  <2>3. QED
    BY <2>1, <2>2, AppendTwoBeforeEnd
<1>3. CASE OnData
  <2> DEFINE e == [type |-> "log", chunk |-> read + 1]
  <2>1. ~Finished(e) /\ emitted' = Append(emitted, e)
    BY <1>3 DEF Finished, OnData, Emit
  <2>2. job.status \notin Terminal
    BY <1>0, <1>3 DEF OnData, TypeOK
  <2> HIDE DEF e
  <2>3. QED
    BY <2>1, <2>2, AppendAfterEnd
<1>4. CASE OnError
  <2> DEFINE d == [type |-> "error"]
             e == [type |-> "finished", status |-> "failed"]
  <2>1. job'.status = "failed"
    <3>1. SpawnErrorEntry \in LogEntries /\ "failed" \in Statuses
      BY MaxChunksAssumption DEF SpawnErrorEntry, LogEntries, Statuses, Terminal
    <3>2. QED
      BY <1>4, <3>1, PushLogType DEF OnError
  <2>2. job.status \notin Terminal /\ emitted' = Append(Append(emitted, d), e)
    BY <1>0, <1>4 DEF OnError, EmitBoth
  <2>3. ~Finished(d) /\ e.status = job'.status
    BY <2>1 DEF Finished
  <2> HIDE DEF d, e
  <2>4. QED
    BY <2>2, <2>3, AppendTwoBeforeEnd
<1>5. CASE OnClose
  <2> DEFINE e == [type |-> "finished", status |-> Verdict(exit)]
  <2>1. job'.status = Verdict(exit)
    BY <1>5 DEF OnClose, TypeOK
  <2>2. /\ emitted' = Append(emitted, e) /\ e.type = "finished"
        /\ e.status = job'.status
    BY <1>5, <2>1 DEF OnClose, Emit
  <2> HIDE DEF e
  <2>3. QED
    BY <1>0, <2>2, AppendAfterEnd
<1>6. ASSUME NEW patch \in SUBSET MetaKeys, MergeJobMetadata(patch)
      PROVE NothingAfterTheEnd'
  <2> DEFINE e == [type |-> "metadata", meta |-> job.meta \cup patch]
  <2>1. emitted' = Append(emitted, e) /\ e.type = "metadata" /\ ~Finished(e)
    BY <1>6 DEF MergeJobMetadata, Emit, Finished
  <2> HIDE DEF e
  <2>2. QED
    BY <1>0, <2>1, AppendAfterEnd
<1>7. ASSUME NEW topic \in Topics, PublishJobEvent(topic)
      PROVE NothingAfterTheEnd'
  <2> DEFINE e == [type |-> "published", topic |-> topic]
  <2>1. emitted' = Append(emitted, e) /\ e.type = "published" /\ ~Finished(e)
    BY <1>7 DEF PublishJobEvent, Emit, Finished
  <2> HIDE DEF e
  <2>2. QED
    BY <1>0, <2>1, AppendAfterEnd
<1>8. CASE ChildStep \/ UNCHANGED runnerVars
  BY <1>8 DEF NothingAfterTheEnd, ChildStep, ChildWrites, ChildExits, runnerVars
<1>9. QED
  BY <1>1, <1>2, <1>3, <1>4, <1>5, <1>6, <1>7, <1>8
     DEF Next, Callback, CallerStep, CreateCommandJob

-----------------------------------------------------------------------------
\* The strengthened invariant holds of every job.
THEOREM Invariance == Spec => []IInv
<1>1. Init => IInv
  BY InitIInv
<1>2. IInv /\ [Next]_runnerVars => IInv'
  BY TypeInductive, ControlInductive, LogInductive, QuietInductive, EndInductive
     DEF IInv
<1>3. QED
  BY <1>1, <1>2, PTL DEF Spec

\* The retained log is the most recent output, for every MAX_LOG_ENTRIES.
THEOREM LogIsAlwaysRecent == Spec => []LogIsRecentOutput
  BY Invariance, PTL DEF IInv

\* No output and no other verdict ever follow the announced end of a job.
THEOREM EndIsTheEnd == Spec => []NothingAfterTheEnd
  BY Invariance, PTL DEF IInv

\* A verdict is never revised.
THEOREM VerdictNeverRevised == Spec => VerdictIsFinal
<1>1. IInv /\ [Next]_runnerVars
         => [job.status \in Terminal => job'.status = job.status]_runnerVars
  BY VerdictKept DEF IInv
<1>2. QED
  BY <1>1, Invariance, PTL DEF Spec, VerdictIsFinal

-----------------------------------------------------------------------------
\* A step of the runner is a step of the life cycle, or none.
LEMMA LifecycleStep ==
    ASSUME IInv, [Next]_runnerVars
    PROVE  [Lifecycle!Next]_Lifecycle!lifecycleVars
<1> USE DEF Lifecycle!lifecycleVars, Lifecycle!Next
<1>0. TypeOK /\ ControlInv
  BY DEF IInv
<1>1. ASSUME NEW meta \in SUBSET MetaKeys, SpawnThrows(meta)
      PROVE  Lifecycle!Register
  BY <1>1 DEF SpawnThrows, Entry, Lifecycle!Register, Phase, Terminal
<1>2. ASSUME NEW meta \in SUBSET MetaKeys,
             NEW outcome \in {"alive", "unspawned"}, Spawn(meta, outcome)
      PROVE  Lifecycle!Register
  BY <1>2 DEF Spawn, Entry, Lifecycle!Register, Phase, Terminal
<1>3. CASE OnData
  <2>1. job.status = "running"
    <3>1. job.status \notin Terminal
      BY <1>0, <1>3, VerdictMeansDrained DEF OnData, TypeOK
    <3>2. job.status \notin {"absent", "queued"}
      BY <1>0, <1>3 DEF OnData, TypeOK, ControlInv
    <3>3. QED
      BY <1>0, <3>1, <3>2 DEF TypeOK, Statuses
  <2>2. job'.status = job.status
    <3>1. read + 1 \in LogEntries
      BY <1>0, <1>3, MaxChunksAssumption DEF OnData, TypeOK, LogEntries
    <3>2. QED
      BY <1>0, <1>3, <3>1, PushLogKeeps DEF OnData
  <2>3. Lifecycle!Publish
    BY <1>3, <2>1, <2>2 DEF OnData, Lifecycle!Publish, Phase, Terminal
  <2>4. QED
    BY <2>3
<1>4. CASE OnError
  <2>1. job.status = "running" /\ read' = read
    BY <1>0, <1>4 DEF OnError, ControlInv
  <2>2. job'.status = "failed"
    <3>1. SpawnErrorEntry \in LogEntries /\ "failed" \in Statuses
      BY MaxChunksAssumption DEF SpawnErrorEntry, LogEntries, Statuses, Terminal
    <3>2. QED
      BY <1>0, <1>4, <3>1, PushLogType DEF OnError
  <2>3. Lifecycle!Conclude
    BY <2>1, <2>2 DEF Lifecycle!Conclude, Phase, Terminal
  <2>4. QED
    BY <2>3
<1>5. CASE OnClose
  <2>1. /\ job'.status = Verdict(exit) /\ read' = read
        /\ Verdict(exit) \in Terminal
    BY <1>0, <1>5 DEF OnClose, TypeOK, Verdict, Terminal
  <2>2. CASE child = "exited"
    <3>1. job.status = "running"
      BY <1>0, <2>2 DEF ControlInv
    <3>2. Lifecycle!Conclude
      BY <2>1, <3>1 DEF Lifecycle!Conclude, Phase, Terminal
    <3>3. QED
      BY <3>2
  <2>3. CASE child = "errored"
    <3>1. job.status = Verdict(exit)
      BY <1>0, <2>3 DEF ControlInv, Verdict
    <3>2. QED
      BY <2>1, <3>1 DEF Phase
  <2>4. QED
    BY <1>5, <2>2, <2>3 DEF OnClose, Closable
<1>6. ASSUME NEW patch \in SUBSET MetaKeys, MergeJobMetadata(patch)
      PROVE  UNCHANGED Lifecycle!lifecycleVars
  <2>1. job'.status = job.status /\ read' = read
    BY <1>0, <1>6 DEF MergeJobMetadata, TypeOK
  <2>2. QED
    BY <2>1 DEF Phase
<1>7. CASE \/ ChildStep \/ UNCHANGED runnerVars
           \/ \E topic \in Topics : PublishJobEvent(topic)
  BY <1>7 DEF ChildStep, ChildWrites, ChildExits, PublishJobEvent, runnerVars,
     Phase
<1>8. QED
  BY <1>1, <1>2, <1>3, <1>4, <1>5, <1>6, <1>7
     DEF Next, Callback, CallerStep, CreateCommandJob

\* The first state of the runner is the first state of the life cycle.
LEMMA LifecycleInit == Init => Lifecycle!Init
  BY DEF Init, Entry, Lifecycle!Init, Phase, Terminal

\* The runner implements the abstract life cycle of a job.
THEOREM RunnerImplementsLifecycle == Spec => ImplementsLifecycle
<1>1. IInv /\ [Next]_runnerVars => [Lifecycle!Next]_Lifecycle!lifecycleVars
  BY LifecycleStep
<1>2. QED
  BY LifecycleInit, <1>1, Invariance, PTL DEF Spec, ImplementsLifecycle, Lifecycle!Spec

-----------------------------------------------------------------------------
(* The runner inside the routes.  A route makes several of the runner's    *)
(* calls without an await between them, so that a step of a composed       *)
(* system may be none of the runner's own: it starts the job and merges    *)
(* its metadata at once, or merges metadata and publishes.  Neither breaks *)
(* what the runner promises.                                               *)

\* createCommandJob and mergeJobMetadata in one stretch.
Started ==
    /\ job.status = "absent"
    /\ \E meta \in SUBSET MetaKeys : job' = Entry("running", meta)
    /\ child' \in {"alive", "unspawned"}
    /\ UNCHANGED <<exit, written, read>>
    /\ \A i \in 1..Len(emitted') :
           \/ i \in 1..Len(emitted) /\ emitted'[i] = emitted[i]
           \/ emitted'[i].type # "finished"

\* mergeJobMetadata and publishJobEvent, any number of them.
Added ==
    /\ job'.status = job.status /\ job'.log = job.log /\ job'.shifted = job.shifted
    /\ UNCHANGED <<child, exit, written, read>>
    /\ Len(emitted) <= Len(emitted')
    /\ \A i \in 1..Len(emitted) : emitted'[i] = emitted[i]
    /\ \A i \in (Len(emitted) + 1)..Len(emitted') :
           emitted'[i].type \in {"metadata", "published"}

\* What a step of a composed system does to the job.
HostedStep == [Next]_runnerVars \/ Started \/ Added

\* A job started in one stretch satisfies the invariant.
LEMMA StartedKeepsRunnerInv ==
    ASSUME IInv, TypeOK', Started
    PROVE  IInv'
<1>1. job.status = "absent" /\ exit = "none" /\ read = 0 /\ written = 0
  BY DEF Started, IInv, ControlInv, TypeOK
<1>2. /\ job'.status = "running" /\ job'.log = <<>> /\ job'.shifted = FALSE
      /\ exit' = "none" /\ read' = 0 /\ written' = 0
  BY <1>1 DEF Started, Entry
<1>3. ControlInv'
  BY <1>2 DEF ControlInv, Started
<1>4. LogIsRecentOutput'
  BY <1>2, MaxLogAssumption DEF LogIsRecentOutput
<1>5. ASSUME NEW i \in 1..Len(emitted') PROVE ~Finished(emitted'[i])
  BY <1>1 DEF Started, Finished, IInv, QuietBeforeEnd, Terminal
<1>6. QuietBeforeEnd' /\ NothingAfterTheEnd'
  BY <1>5 DEF QuietBeforeEnd, NothingAfterTheEnd, Finished
<1>7. QED
  BY <1>3, <1>4, <1>6 DEF IInv

\* Metadata and events of callers, even after the end, keep the invariant.
LEMMA AddedKeepsRunnerInv ==
    ASSUME IInv, TypeOK', Added
    PROVE  IInv'
<1> DEFINE n == Len(emitted)
           m == Len(emitted')
<1>0. n \in Nat /\ m \in Nat /\ n <= m
  BY DEF Added, IInv, TypeOK
<1>1. ControlInv' /\ LogIsRecentOutput'
  BY DEF Added, IInv, ControlInv, LogIsRecentOutput
<1>2. \A i \in 1..m : Finished(emitted'[i]) => /\ i \in 1..n
                                              /\ emitted'[i] = emitted[i]
                                              /\ Finished(emitted[i])
  <2> SUFFICES ASSUME NEW i \in 1..m, Finished(emitted'[i])
               PROVE  i \in 1..n /\ emitted'[i] = emitted[i] /\ Finished(emitted[i])
    OBVIOUS
  <2>1. i \in 1..n \/ i \in (n + 1)..m
    BY <1>0
  <2>2. i \notin (n + 1)..m
    BY DEF Added, Finished
  <2>3. QED
    BY <2>1, <2>2 DEF Added, Finished
<1>3. QuietBeforeEnd'
  BY <1>2 DEF Added, IInv, QuietBeforeEnd, Finished
<1>4. NothingAfterTheEnd'
  <2> SUFFICES ASSUME NEW i \in 1..m, Finished(emitted'[i])
               PROVE  /\ emitted'[i].status = job'.status
                      /\ \A k \in i..m :
                            emitted'[k].type \in {"finished", "metadata", "published"}
    BY DEF NothingAfterTheEnd, Finished
  <2>1. i \in 1..n /\ emitted'[i] = emitted[i] /\ Finished(emitted[i])
    BY <1>2
  <2>2. /\ emitted[i].status = job.status
        /\ \A k \in i..n : emitted[k].type \in {"finished", "metadata", "published"}
    BY <2>1 DEF IInv, NothingAfterTheEnd
  <2>3. ASSUME NEW k \in i..m
        PROVE  emitted'[k].type \in {"finished", "metadata", "published"}
    <3>1. CASE k \in i..n
      <4>1. k \in 1..n
        BY <2>1, <3>1
      <4>2. QED
        BY <2>2, <3>1, <4>1 DEF Added
    <3>2. CASE k \in (n + 1)..m
      BY <3>2 DEF Added
    <3>3. QED
      BY <1>0, <2>1, <3>1, <3>2
  <2>4. QED
    BY <2>1, <2>2, <2>3 DEF Added
<1>5. QED
  BY <1>1, <1>3, <1>4 DEF IInv

\* Neither the runner's steps nor its callers' break the runner's invariant,
\* revise a verdict or leave the life cycle.
LEMMA HostedStepKeeps ==
    ASSUME IInv, TypeOK', HostedStep
    PROVE  /\ IInv'
           /\ job.status \in Terminal => job'.status = job.status
           /\ [Lifecycle!Next]_Lifecycle!lifecycleVars
<1>1. CASE [Next]_runnerVars
  BY <1>1, TypeInductive, ControlInductive, LogInductive, QuietInductive,
     EndInductive, VerdictKept, LifecycleStep DEF IInv
<1>2. CASE Started
  <2>1. job'.status = "running" /\ job.status = "absent" /\ read' = read
    BY <1>2 DEF Started, Entry
  <2>2. Lifecycle!Register
    BY <2>1 DEF Lifecycle!Register, Phase, Terminal
  <2>3. IInv'
    BY <1>2, StartedKeepsRunnerInv
  <2>4. QED
    BY <2>1, <2>2, <2>3 DEF Lifecycle!Next, Terminal
<1>3. CASE Added
  <2>1. job'.status = job.status /\ read' = read
    BY <1>3 DEF Added
  <2>2. UNCHANGED Lifecycle!lifecycleVars
    BY <2>1 DEF Lifecycle!lifecycleVars, Phase
  <2>3. IInv'
    BY <1>3, AddedKeepsRunnerInv
  <2>4. QED
    BY <2>1, <2>2, <2>3
<1>4. QED
  BY <1>1, <1>2, <1>3 DEF HostedStep

-----------------------------------------------------------------------------
(* The import: the temporary directory is reclaimed, and the workspace      *)
(* stays for those who were told of it.                                     *)

-----------------------------------------------------------------------------
(* Types.  The log file holds a sequence within the limit, and so does the *)
(* copy every append is about to write.                                    *)

Log == {s \in Seq(Actions) : Len(s) <= ActivityLimit}

ActivityInv ==
    \/ activity \in {Missing, Truncated, Garbled}
    \/ \E log \in Log : activity = Whole(log)

AppendPlaces == {"idle", "reading", "opening", "writing", "stored", "failed"}

AppendInv ==
    /\ append \in [Actions -> [at : AppendPlaces, copy : Seq(Actions)]]
    /\ \A a \in Actions : append[a].at \in {"opening", "writing"} => append[a].copy \in Log

HandlerType ==
    /\ req \in Handler
    /\ response \in {"none", "202", "4xx", "500"}
    /\ tmp \in BOOLEAN
    /\ root \in {"absent", "present", "removed"}
    /\ listening \in BOOLEAN
    /\ stage \in {"none", "upload-complete", "refine-started"}
    /\ finisher \in {"idle", "listing", "concluding", "done"}

ImportTypeInv == TypeOK /\ HandlerType /\ ActivityInv /\ AppendInv

-----------------------------------------------------------------------------
(* How the directories, the answer and the listener follow the handler.    *)

FlowInv ==
    /\ response # "none" <=> req = "done"
    /\ req \in {"start", "spawning", "queueing"} \/ response \in {"202", "4xx"} => ~tmp
    /\ req \in {"spawning", "queueing"} \/ response = "202" => root = "present"
    /\ listening \/ finisher # "idle" => response = "202"

\* The handler waits for its 'queued' append; once it is stored, nothing but the
\* announcement follows.
QueuedInv ==
    /\ append["queued"].at \in {"reading", "opening", "writing"} => req = "queueing"
    /\ append["queued"].at = "stored" => req = "queueing" \/ response = "202"

\* Artifacts are published by the announcement and by the listener's continuation
\* alone.
ArtifactInv == Published("artifact-ready") => response = "202"

ImportIInv == ImportTypeInv /\ FlowInv /\ QueuedInv /\ ArtifactInv

-----------------------------------------------------------------------------
(* Lemmas about the activity log. *)

\* Beginning appends leaves the copies of those under way alone.
LEMMA BegunType ==
    ASSUME AppendInv, NEW actions \in SUBSET Actions, append' = Begun(append, actions)
    PROVE  AppendInv'
<1>1. \A a \in Actions :
          /\ a \in actions => append'[a] = [at |-> "reading", copy |-> append[a].copy]
          /\ a \notin actions => append'[a] = append[a]
  BY DEF Begun, AppendInv
<1>2. append' \in [Actions -> [at : AppendPlaces, copy : Seq(Actions)]]
  <2>1. append' = [a \in Actions |-> append'[a]]
    BY DEF Begun
  <2>2. \A a \in Actions : append[a] \in [at : AppendPlaces, copy : Seq(Actions)]
    BY DEF AppendInv
  <2>3. ASSUME NEW a \in Actions PROVE append'[a] \in [at : AppendPlaces, copy : Seq(Actions)]
    <3>1. append[a].copy \in Seq(Actions) /\ "reading" \in AppendPlaces
      BY <2>2 DEF AppendPlaces
    <3>2. CASE a \in actions
      <4>1. append'[a] = [at |-> "reading", copy |-> append[a].copy]
        BY <1>1, <3>2, Zenon
      <4> QED
        BY <3>1, <4>1
    <3>3. CASE a \notin actions
      BY <1>1, <2>2, <3>3
    <3> QED
      BY <3>2, <3>3
  <2> QED
    BY <2>1, <2>3, Zenon
<1>3. ASSUME NEW a \in Actions, append'[a].at \in {"opening", "writing"}
      PROVE  append'[a].copy \in Log
  <2>1. a \in actions => append'[a] = [at |-> "reading", copy |-> append[a].copy]
    BY <1>1, Zenon
  <2>2. a \notin actions
    BY <1>3, <2>1
  <2>3. append'[a] = append[a]
    BY <1>1, <2>2, Zenon
  <2> QED
    BY <1>3, <2>3 DEF AppendInv
<1> QED
  BY <1>2, <1>3 DEF AppendInv

\* A step of one append.
LEMMA SteppedType ==
    ASSUME AppendInv, NEW a \in Actions, NEW place \in AppendPlaces, NEW log \in Seq(Actions),
           place \in {"opening", "writing"} => log \in Log,
           append' = [append EXCEPT ![a] = [at |-> place, copy |-> log]]
    PROVE  AppendInv'
<1>1. append' \in [Actions -> [at : AppendPlaces, copy : Seq(Actions)]]
  BY DEF AppendInv
<1>2. ASSUME NEW b \in Actions, append'[b].at \in {"opening", "writing"}
      PROVE  append'[b].copy \in Log
  <2>1. CASE b = a
    BY <1>2, <2>1 DEF AppendInv
  <2>2. CASE b # a
    BY <1>2, <2>2 DEF AppendInv
  <2> QED
    BY <2>1, <2>2
<1> QED
  BY <1>1, <1>2 DEF AppendInv

\* An append that moves on without changing its copy.
LEMMA MovedType ==
    ASSUME AppendInv, NEW a \in Actions, NEW place \in AppendPlaces,
           place \in {"opening", "writing"} => append[a].copy \in Log,
           append' = [append EXCEPT ![a].at = place]
    PROVE  AppendInv'
<1>1. append[a] \in [at : AppendPlaces, copy : Seq(Actions)]
  BY DEF AppendInv
<1>2. [append[a] EXCEPT !.at = place] = [at |-> place, copy |-> append[a].copy]
  BY <1>1
<1>3. append' = [append EXCEPT ![a] = [at |-> place, copy |-> append[a].copy]]
  BY <1>2, Zenon
<1>4. append[a].copy \in Seq(Actions)
  BY <1>1
<1> QED
  BY <1>3, <1>4, SteppedType

\* The limit holds for what is written, whatever was read.
LEMMA TrimmedType ==
    ASSUME NEW log \in Seq(Actions)
    PROVE  Trimmed(log) \in Log
<1> DEFINE n == IF Len(log) < ActivityLimit THEN Len(log) ELSE ActivityLimit
<1>1. n \in Nat /\ n <= Len(log) /\ n <= ActivityLimit
  BY ActivityLimitAssumption
<1>2. \A i \in 1..n : log[i] \in Actions
  BY <1>1
<1> HIDE DEF n
<1>3. SubSeq(log, 1, n) \in Seq(Actions) /\ Len(SubSeq(log, 1, n)) = (IF 1 <= n THEN n - 1 + 1 ELSE 0)
  BY <1>1, <1>2, SubSeqProperties
<1>4. Len(SubSeq(log, 1, n)) <= ActivityLimit
  BY <1>1, <1>3
<1> QED
  BY <1>3, <1>4 DEF n, Trimmed, Log

\* What an append makes of the log it read is a log within the limit.
LEMMA ReadType ==
    ASSUME ActivityInv, NEW a \in Actions
    PROVE  Trimmed(<<a>> \o Content(activity, <<>>)) \in Log
<1>1. Content(activity, <<>>) \in Seq(Actions)
  BY DEF ActivityInv, Content, Log, Missing, Truncated, Garbled, Whole
<1>2. <<a>> \in Seq(Actions)
  OBVIOUS
<1>3. <<a>> \o Content(activity, <<>>) \in Seq(Actions)
  BY <1>1, <1>2, ConcatProperties
<1> QED
  BY <1>3, TrimmedType

\* The step of one append that is under way, with the log file.
LEMMA AppendStepType ==
    ASSUME ActivityInv, AppendInv, NEW a \in Actions, AppendStep(a)
    PROVE  ActivityInv' /\ AppendInv'
<1>1. CASE ReadLog(a)
  <2>1. ActivityInv'
    BY <1>1 DEF ReadLog, ActivityInv
  <2>2. ASSUME append' = [append EXCEPT ![a] =
                  [at |-> "opening", copy |-> Trimmed(<<a>> \o Content(activity, <<>>))]]
        PROVE  AppendInv'
    <3> DEFINE log == Trimmed(<<a>> \o Content(activity, <<>>))
    <3>1. log \in Log /\ "opening" \in AppendPlaces
      BY ReadType DEF AppendPlaces
    <3>2. log \in Seq(Actions)
      BY <3>1 DEF Log
    <3>3. append' = [append EXCEPT ![a] = [at |-> "opening", copy |-> log]]
      BY <2>2
    <3> HIDE DEF log
    <3> QED
      BY <3>1, <3>2, <3>3, SteppedType
  <2>3. ASSUME append' = [append EXCEPT ![a].at = "failed"] PROVE AppendInv'
    BY <2>3, MovedType DEF AppendPlaces
  <2> QED
    BY <1>1, <2>1, <2>2, <2>3 DEF ReadLog
<1>2. CASE OpenLog(a)
  <2>1. ActivityInv'
    BY <1>2 DEF OpenLog, Opened, ActivityInv
  <2>2. append[a].copy \in Log
    BY <1>2 DEF OpenLog, Step, AppendInv
  <2> QED
    BY <1>2, <2>1, <2>2, MovedType DEF OpenLog, Step, AppendPlaces
<1>3. CASE WriteLog(a)
  <2>1. append[a].copy \in Log
    BY <1>3 DEF WriteLog, Step, AppendInv
  <2>2. ActivityInv'
    BY <1>3, <2>1 DEF WriteLog, Written, ActivityInv
  <2> QED
    BY <1>3, <2>2, MovedType DEF WriteLog, Step, AppendPlaces
<1>4. CASE WriteFails(a)
  <2>1. ActivityInv'
    BY <1>4 DEF WriteFails, ActivityInv
  <2> QED
    BY <1>4, <2>1, MovedType DEF WriteFails, Step, AppendPlaces
<1> QED
  BY <1>1, <1>2, <1>3, <1>4 DEF AppendStep

-----------------------------------------------------------------------------
(* Lemmas about the events. *)

\* The three events of a dispatch, one after the other.
LEMMA ThreeMore ==
    ASSUME NEW S, NEW s \in Seq(S), NEW a \in S, NEW b \in S, NEW c \in S
    PROVE  /\ s \o <<a, b, c>> \in Seq(S)
           /\ \A i \in 1..Len(s \o <<a, b, c>>) :
                  \/ i \in 1..Len(s) /\ (s \o <<a, b, c>>)[i] = s[i]
                  \/ (s \o <<a, b, c>>)[i] \in {a, b, c}
<1> DEFINE t == <<a, b, c>>
<1>1. t \in Seq(S) /\ Len(t) = 3 /\ \A i \in 1..3 : t[i] \in {a, b, c}
  OBVIOUS
<1> HIDE DEF t
<1>2. /\ s \o t \in Seq(S) /\ Len(s \o t) = Len(s) + Len(t)
      /\ \A i \in 1..Len(s) + Len(t) :
             (s \o t)[i] = IF i <= Len(s) THEN s[i] ELSE t[i - Len(s)]
  BY <1>1, ConcatProperties
<1>3. ASSUME NEW i \in 1..Len(s \o t)
      PROVE  \/ i \in 1..Len(s) /\ (s \o t)[i] = s[i]
             \/ (s \o t)[i] \in {a, b, c}
  <2>1. CASE i <= Len(s)
    BY <1>1, <1>2, <2>1
  <2>2. CASE ~(i <= Len(s))
    <3>1. i - Len(s) \in 1..3
      BY <1>1, <1>2, <2>2
    <3> QED
      BY <1>1, <1>2, <2>2, <3>1
  <2> QED
    BY <2>1, <2>2
<1> QED
  BY <1>2, <1>3 DEF t

\* Events that are not artifacts publish none.
LEMMA NoArtifact ==
    ASSUME \A i \in 1..Len(emitted') :
               \/ i \in 1..Len(emitted) /\ emitted'[i] = emitted[i]
               \/ emitted'[i].type # "published"
               \/ emitted'[i].topic # "artifact-ready"
    PROVE  Published("artifact-ready")' => Published("artifact-ready")
BY DEF Published

\* One more event.
LEMMA OneMore ==
    ASSUME NEW S, NEW s \in Seq(S), NEW e \in S
    PROVE  /\ Append(s, e) \in Seq(S)
           /\ \A i \in 1..Len(Append(s, e)) :
                  \/ i \in 1..Len(s) /\ Append(s, e)[i] = s[i]
                  \/ Append(s, e)[i] = e
OBVIOUS

-----------------------------------------------------------------------------
(* Types are kept. *)

\* What the listener does inside a callback.
LEMMA HeardType ==
    ASSUME HandlerType, AppendInv, NEW types, Heard(types)
    PROVE  /\ listening' \in BOOLEAN
           /\ stage' \in {"none", "upload-complete", "refine-started"}
           /\ finisher' \in {"idle", "listing", "concluding", "done"}
           /\ AppendInv'
<1>1. CASE UNCHANGED <<listening, stage, finisher, append>>
  BY <1>1 DEF HandlerType, AppendInv
<1>2. CASE listening
  <2> DEFINE begun == {a \in {"refine-started"} : "started" \in types}
                          \cup {a \in {"errored"} : "error" \in types}
  <2>1. begun \in SUBSET Actions /\ append' = Begun(append, begun)
    BY <1>2 DEF Heard, Actions
  <2>2. AppendInv'
    <3> HIDE DEF begun
    <3> QED
      BY <2>1, BegunType
  <2>3. /\ listening' = ("error" \notin types)
        /\ stage' \in {"refine-started", stage}
        /\ finisher' \in {"listing", finisher}
    BY <1>2 DEF Heard
  <2>4. listening' \in BOOLEAN
    BY <2>3
  <2> QED
    BY <2>2, <2>3, <2>4 DEF HandlerType
<1> QED
  BY <1>1, <1>2 DEF Heard, HandlerType

\* The variables the runner owns.
LEMMA RunnerTypes ==
    ASSUME TypeOK,
           \/ [Next]_runnerVars
           \/ /\ UNCHANGED <<child, exit, written, read>>
              /\ emitted' \in Seq(Events)
              /\ job' \in [status : Statuses, log : Seq(LogEntries), shifted : BOOLEAN,
                           exitCode : ExitCodes, meta : SUBSET MetaKeys]
    PROVE  TypeOK'
BY TypeInductive DEF TypeOK

\* A dispatch keeps the runner's types and publishes no artifact.
LEMMA Dispatched ==
    ASSUME TypeOK, NEW outcome \in {"alive", "unspawned"},
           NEW listed \in SUBSET {"artifacts"}, Dispatch(outcome, listed)
    PROVE  TypeOK' /\ (Published("artifact-ready")' => Published("artifact-ready"))
<1> DEFINE e1 == [type |-> "queued"]
           e2 == [type |-> "started"]
           e3 == [type |-> "metadata", meta |-> {"stage"} \cup listed]
<1>0. ({"stage"} \cup listed) \in SUBSET MetaKeys
  BY NamesAssumption
<1>1. e1 \in Events /\ e2 \in Events /\ e3 \in Events
  BY <1>0 DEF Events
<1>2. \A e \in {e1, e2, e3} : e.type # "published"
  OBVIOUS
<1>3. emitted' = emitted \o <<e1, e2, e3>> /\ emitted \in Seq(Events)
  BY DEF Dispatch, TypeOK
<1> HIDE DEF e1, e2, e3
<1>4. /\ emitted' \in Seq(Events)
      /\ \A i \in 1..Len(emitted') :
             (i \in 1..Len(emitted) /\ emitted'[i] = emitted[i]) \/ emitted'[i] \in {e1, e2, e3}
  BY <1>1, <1>3, ThreeMore
<1>5. Published("artifact-ready")' => Published("artifact-ready")
  BY <1>2, <1>4, NoArtifact
<1>6. job' \in [status : Statuses, log : Seq(LogEntries), shifted : BOOLEAN,
                exitCode : ExitCodes, meta : SUBSET MetaKeys]
  BY <1>0, EntryType DEF Dispatch, Statuses
<1>7. child' \in ChildStates /\ UNCHANGED <<exit, written, read>>
  BY DEF Dispatch, ChildStates
<1>8. TypeOK'
  BY <1>4, <1>6, <1>7 DEF TypeOK
<1> QED
  BY <1>5, <1>8

\* The listener's continuation keeps the runner's types.
LEMMA Listed ==
    ASSUME TypeOK, NEW found \in BOOLEAN, ListArtifacts(found)
    PROVE  TypeOK'
<1>1. CASE ~found
  BY <1>1 DEF ListArtifacts, TypeOK
<1>2. CASE found
  <2> DEFINE e1 == [type |-> "metadata", meta |-> job.meta \cup {"artifacts"}]
             e2 == [type |-> "published", topic |-> "artifact-ready"]
  <2>1. e1 \in Events /\ e2 \in Events
    BY NamesAssumption DEF Events, TypeOK
  <2>2. emitted' = Append(Append(emitted, e1), e2) /\ emitted \in Seq(Events)
    BY <1>2 DEF ListArtifacts, EmitBoth, TypeOK
  <2> HIDE DEF e1, e2
  <2>3. emitted' \in Seq(Events)
    BY <2>1, <2>2
  <2>4. job' \in [status : Statuses, log : Seq(LogEntries), shifted : BOOLEAN,
                  exitCode : ExitCodes, meta : SUBSET MetaKeys]
    BY <1>2, NamesAssumption DEF ListArtifacts, TypeOK
  <2> QED
    BY <2>3, <2>4, RunnerTypes DEF ListArtifacts
<1> QED
  BY <1>1, <1>2

\* Every step of an import keeps the types.
LEMMA ImportTypeStep ==
    ASSUME ImportTypeInv, [ImportNext]_vars
    PROVE  ImportTypeInv'
<1> USE DEF ImportTypeInv
<1> DEFINE Quiet == TypeOK' /\ ActivityInv' /\ AppendInv'
<1>u. ASSUME UNCHANGED runnerVars PROVE TypeOK'
  BY <1>u, RunnerTypes
<1>l. ASSUME UNCHANGED activity PROVE ActivityInv'
  BY <1>l DEF ActivityInv
<1>p. ASSUME UNCHANGED append PROVE AppendInv'
  BY <1>p DEF AppendInv
<1>1. CASE CreateTempDir \/ Reject \/ StoreFiles \/ QueuedFails \/ Apologise \/ Reception
  <2>1. UNCHANGED <<runnerVars, activity, append>>
    BY <1>1 DEF CreateTempDir, Reject, Accept, StoreFiles, QueuedFails, Apologise,
       Reception, ParserThrows, BreakOff, RejectUnheard, logVars
  <2>2. HandlerType'
    BY <1>1 DEF CreateTempDir, Reject, Accept, StoreFiles, QueuedFails, Apologise,
       Reception, ParserThrows, BreakOff, RejectUnheard, Answer, HandlerType, Handler
  <2> QED
    BY <2>1, <2>2, <1>u, <1>l, <1>p
<1>2. ASSUME NEW outcome \in {"alive", "unspawned"}, NEW listed \in SUBSET {"artifacts"},
             Dispatch(outcome, listed)
      PROVE  ImportTypeInv'
  <2>1. HandlerType'
    BY <1>2 DEF Dispatch, HandlerType, Handler
  <2>2. append' = Begun(append, {"queued"}) /\ {"queued"} \in SUBSET Actions /\ activity' = activity
    BY <1>2 DEF Dispatch, Actions
  <2>3. AppendInv'
    BY <2>2, BegunType
  <2> QED
    BY <1>2, <2>1, <2>2, <2>3, <1>l, Dispatched
<1>3. ASSUME NEW listed \in SUBSET {"artifacts"}, DispatchThrows(listed) PROVE ImportTypeInv'
  <2>1. [Next]_runnerVars
    BY <1>3, NamesAssumption DEF DispatchThrows, Next, CallerStep, CreateCommandJob
  <2>2. HandlerType' /\ UNCHANGED <<activity, append>>
    BY <1>3 DEF DispatchThrows, HandlerType, Handler, logVars
  <2> QED
    BY <2>1, <2>2, <1>l, <1>p, RunnerTypes
<1>4. CASE Announce
  <2>1. HandlerType' /\ UNCHANGED activity
    BY <1>4 DEF Announce, Answer, HandlerType, Handler
  <2>2. append' = Begun(append, {"upload-complete"}) /\ {"upload-complete"} \in SUBSET Actions
    BY <1>4 DEF Announce, Actions
  <2>3. AppendInv'
    BY <2>2, BegunType
  <2> DEFINE e1 == [type |-> "published", topic |-> "file-accepted"]
             e2 == [type |-> "published", topic |-> "artifact-ready"]
  <2>4. e1 \in Events /\ e2 \in Events
    BY NamesAssumption DEF Events
  <2>5. /\ emitted' = Append(emitted, e1) \/ emitted' = Append(Append(emitted, e1), e2)
        /\ UNCHANGED <<job, child, exit, written, read>> /\ emitted \in Seq(Events)
    BY <1>4 DEF Announce, Emit, EmitBoth, TypeOK
  <2> HIDE DEF e1, e2
  <2>6. emitted' \in Seq(Events)
    BY <2>4, <2>5
  <2>7. TypeOK'
    BY <2>5, <2>6 DEF TypeOK
  <2> QED
    BY <2>1, <2>3, <2>7, <1>l
<1>5. CASE CleanUp
  <2>1. HandlerType' /\ UNCHANGED <<runnerVars, activity>>
    BY <1>5 DEF CleanUp, HandlerType, Handler
  <2>2. append' = Begun(append, {"failed-to-start"}) /\ {"failed-to-start"} \in SUBSET Actions
    BY <1>5 DEF CleanUp, Actions
  <2>3. AppendInv'
    BY <2>2, BegunType
  <2> QED
    BY <2>1, <2>3, <1>u, <1>l
<1>6. ASSUME NEW found \in BOOLEAN, ListArtifacts(found) PROVE ImportTypeInv'
  <2>1. HandlerType' /\ UNCHANGED activity
    BY <1>6 DEF ListArtifacts, HandlerType
  <2>2. append' = Begun(append, {Outcome}) /\ {Outcome} \in SUBSET Actions
    BY <1>6 DEF ListArtifacts, Actions, Outcome, Conclusion
  <2>3. AppendInv'
    BY <2>2, BegunType
  <2> QED
    BY <1>6, <2>1, <2>3, <1>l, Listed
<1>7. CASE Detach
  <2>1. HandlerType' /\ UNCHANGED <<runnerVars, activity, append>>
    BY <1>7 DEF Detach, HandlerType, logVars
  <2> QED
    BY <2>1, <1>u, <1>l, <1>p
<1>8. CASE Elsewhere
  <2>1. HandlerType' /\ UNCHANGED <<runnerVars, activity>>
    BY <1>8 DEF Elsewhere, HandlerType, importVars
  <2>2. append' = Begun(append, {"elsewhere"}) /\ {"elsewhere"} \in SUBSET Actions
    BY <1>8 DEF Elsewhere, Actions
  <2>3. AppendInv'
    BY <2>2, BegunType
  <2> QED
    BY <2>1, <2>3, <1>u, <1>l
<1>9. ASSUME NEW a \in Actions, AppendStep(a) PROVE ImportTypeInv'
  <2>1. UNCHANGED runnerVars /\ UNCHANGED importVars
    BY <1>9 DEF AppendStep, ReadLog, OpenLog, WriteLog, WriteFails, Step
  <2>2. HandlerType'
    BY <2>1 DEF HandlerType, importVars
  <2> QED
    BY <1>9, <2>1, <2>2, <1>u, AppendStepType
<1>10. CASE JobWrites \/ JobExits
  <2>1. [Next]_runnerVars
    BY <1>10 DEF JobWrites, JobExits, Next, ChildStep
  <2>2. HandlerType' /\ UNCHANGED <<activity, append>>
    BY <1>10 DEF JobWrites, JobExits, HandlerType, importVars, logVars
  <2> QED
    BY <2>1, <2>2, <1>l, <1>p, RunnerTypes
<1>11. CASE JobCallback
  <2>1. [Next]_runnerVars
    BY <1>11 DEF JobCallback, JobData, JobError, JobClose, Next, Callback
  <2>2. PICK types : Heard(types)
    BY <1>11 DEF JobCallback, JobData, JobError, JobClose
  <2>3. UNCHANGED <<req, response, tmp, root, activity>>
    BY <1>11 DEF JobCallback, JobData, JobError, JobClose, Unheard
  <2>4. HandlerType' /\ AppendInv'
    BY <2>2, <2>3, HeardType DEF HandlerType
  <2> QED
    BY <2>1, <2>3, <2>4, <1>l, RunnerTypes
<1>12. CASE UNCHANGED vars
  <2>1. HandlerType' /\ UNCHANGED <<runnerVars, activity, append>>
    BY <1>12 DEF vars, importVars, logVars, HandlerType
  <2> QED
    BY <2>1, <1>u, <1>l, <1>p
<1> QED
  BY <1>1, <1>2, <1>3, <1>4, <1>5, <1>6, <1>7, <1>8, <1>9, <1>10, <1>11, <1>12
     DEF ImportNext, HandlerStep, FinisherStep

-----------------------------------------------------------------------------
(* Directories, answer and listener. *)

\* Inside a callback the listener changes nothing unless it is attached.
LEMMA FlowStep ==
    ASSUME ImportTypeInv, FlowInv, [ImportNext]_vars
    PROVE  FlowInv'
<1> USE DEF FlowInv
<1>h. HandlerType
  BY DEF ImportTypeInv
<1>1. CASE CreateTempDir \/ Reject \/ Reception
  BY <1>h, <1>1 DEF CreateTempDir, Reject, Reception, ParserThrows, Accept, BreakOff,
     RejectUnheard, Answer, HandlerType
<1>2. CASE StoreFiles
  BY <1>h, <1>2 DEF StoreFiles, HandlerType
<1>3. CASE \E listed \in SUBSET {"artifacts"} :
               \E outcome \in {"alive", "unspawned"} : Dispatch(outcome, listed)
  BY <1>3 DEF Dispatch
<1>4. CASE QueuedFails \/ \E listed \in SUBSET {"artifacts"} : DispatchThrows(listed)
  BY <1>4 DEF DispatchThrows, QueuedFails
<1>5. CASE Announce
  BY <1>5 DEF Announce, Answer
<1>6. CASE CleanUp
  <2>1. req = "cleaning" /\ req' = "apologising" /\ UNCHANGED <<response, listening, finisher>>
    BY <1>6 DEF CleanUp
  <2> QED
    BY <2>1
<1>13. CASE Apologise
  BY <1>h, <1>13 DEF Apologise, Answer, HandlerType
<1>7. ASSUME NEW found \in BOOLEAN, ListArtifacts(found) PROVE FlowInv'
  BY <1>7 DEF ListArtifacts
<1>8. CASE Detach
  BY <1>8 DEF Detach
<1>9. CASE Elsewhere \/ \E a \in Actions : AppendStep(a)
  <2>1. UNCHANGED importVars
    BY <1>9 DEF Elsewhere, AppendStep, ReadLog, OpenLog, WriteLog, WriteFails, Step
  <2> QED
    BY <2>1 DEF importVars
<1>10. CASE JobWrites \/ JobExits
  BY <1>10 DEF JobWrites, JobExits, importVars
<1>11. CASE JobCallback
  <2>1. UNCHANGED <<req, response, tmp, root>>
    BY <1>11 DEF JobCallback, JobData, JobError, JobClose, Unheard
  <2>2. listening \/ UNCHANGED <<listening, finisher>>
    BY <1>11 DEF JobCallback, JobData, JobError, JobClose, Heard
  <2> QED
    BY <2>1, <2>2
<1>12. CASE UNCHANGED vars
  BY <1>12 DEF vars, importVars
<1> QED
  BY <1>1, <1>2, <1>3, <1>4, <1>5, <1>6, <1>7, <1>8, <1>9, <1>10, <1>11, <1>12, <1>13
     DEF ImportNext, HandlerStep, FinisherStep

\* The runner's own callbacks publish nothing of the callers'.
LEMMA CallbackPublishes ==
    ASSUME TypeOK, Callback
    PROVE  Published("artifact-ready")' => Published("artifact-ready")
<1>0. emitted \in Seq(Events)
  BY DEF TypeOK
<1>1. CASE OnData
  <2> DEFINE e == [type |-> "log", chunk |-> read + 1]
  <2>1. e \in Events /\ e.type # "published"
    BY <1>1, MaxChunksAssumption DEF OnData, TypeOK, Events
  <2>2. emitted' = Append(emitted, e)
    BY <1>1 DEF OnData, Emit
  <2> HIDE DEF e
  <2> QED
    BY <1>0, <2>1, <2>2, OneMore, NoArtifact
<1>2. CASE OnError
  <2> DEFINE e1 == [type |-> "error"]
             e2 == [type |-> "finished", status |-> "failed"]
  <2>1. e1 \in Events /\ e2 \in Events /\ e1.type # "published" /\ e2.type # "published"
    BY DEF Events, Terminal
  <2>2. emitted' = Append(Append(emitted, e1), e2)
    BY <1>2 DEF OnError, EmitBoth
  <2> HIDE DEF e1, e2
  <2>3. /\ Append(emitted, e1) \in Seq(Events)
        /\ \A i \in 1..Len(Append(emitted, e1)) :
               \/ i \in 1..Len(emitted) /\ Append(emitted, e1)[i] = emitted[i]
               \/ Append(emitted, e1)[i] = e1
    BY <1>0, <2>1, OneMore
  <2>4. \A i \in 1..Len(emitted') :
            \/ i \in 1..Len(Append(emitted, e1)) /\ emitted'[i] = Append(emitted, e1)[i]
            \/ emitted'[i] = e2
    BY <2>1, <2>2, <2>3, OneMore
  <2> QED
    BY <2>1, <2>3, <2>4, NoArtifact
<1>3. CASE OnClose
  <2> DEFINE e == [type |-> "finished", status |-> Verdict(exit)]
  <2>1. e \in Events /\ e.type # "published"
    BY DEF Events, Terminal, Verdict
  <2>2. emitted' = Append(emitted, e)
    BY <1>3 DEF OnClose, Emit
  <2> HIDE DEF e
  <2> QED
    BY <1>0, <2>1, <2>2, OneMore, NoArtifact
<1> QED
  BY <1>1, <1>2, <1>3 DEF Callback

\* Beginning other appends leaves one alone.
LEMMA BegunElsewhere ==
    ASSUME AppendInv, NEW actions, NEW a \in Actions \ actions, append' = Begun(append, actions)
    PROVE  append'[a] = append[a]
BY DEF Begun

\* Every step keeps the handler waiting for its 'queued' append.
LEMMA QueuedStep ==
    ASSUME ImportTypeInv, FlowInv, QueuedInv, [ImportNext]_vars
    PROVE  QueuedInv'
<1> DEFINE q == append["queued"]
<1>0. AppendInv /\ "queued" \in Actions
  BY DEF ImportTypeInv, Actions
<1>1. ASSUME append'["queued"] = append["queued"],
             req = "queueing" => req' = "queueing",
             response = "202" => response' = "202"
      PROVE  QueuedInv'
  BY <1>1 DEF QueuedInv
<1>2. ASSUME UNCHANGED append, req # "queueing", response = "202" => response' = "202"
      PROVE  QueuedInv'
  BY <1>1, <1>2
<1>3. CASE CreateTempDir \/ Reject \/ Reception \/ StoreFiles \/ Apologise
           \/ \E listed \in SUBSET {"artifacts"} : DispatchThrows(listed)
  <2>1. UNCHANGED append /\ req # "queueing" /\ req # "done"
    BY <1>3 DEF CreateTempDir, Reject, Reception, ParserThrows, Accept, BreakOff, RejectUnheard,
       StoreFiles, Apologise, DispatchThrows, logVars
  <2>2. response # "202"
    BY <2>1 DEF FlowInv
  <2> QED
    BY <1>2, <2>1, <2>2
<1>4. ASSUME NEW outcome, NEW listed, Dispatch(outcome, listed) PROVE QueuedInv'
  BY <1>4 DEF Dispatch, QueuedInv
<1>5. CASE Announce
  <2>1. append'["queued"] = append["queued"]
    BY <1>0, <1>5, BegunElsewhere DEF Announce
  <2>2. append["queued"].at = "stored" /\ response' = "202"
    BY <1>5 DEF Announce, Answer
  <2> QED
    BY <2>1, <2>2 DEF QueuedInv
<1>6. CASE QueuedFails
  BY <1>6 DEF QueuedFails, logVars, QueuedInv
<1>7. CASE CleanUp
  <2>1. append'["queued"] = append["queued"]
    BY <1>0, <1>7, BegunElsewhere DEF CleanUp
  <2>2. req # "queueing" /\ response' = response
    BY <1>7 DEF CleanUp
  <2> QED
    BY <1>1, <2>1, <2>2
<1>8. ASSUME NEW found \in BOOLEAN, ListArtifacts(found) PROVE QueuedInv'
  <2>1. append' = Begun(append, {Outcome}) /\ UNCHANGED <<req, response>>
    BY <1>8 DEF ListArtifacts
  <2>2. "queued" \in Actions \ {Outcome}
    BY <1>0 DEF Outcome, Conclusion
  <2>3. append'["queued"] = append["queued"]
    BY <1>0, <2>1, <2>2, BegunElsewhere
  <2> QED
    BY <1>1, <2>1, <2>3
<1>9. CASE Elsewhere
  <2>1. append'["queued"] = append["queued"]
    BY <1>0, <1>9, BegunElsewhere DEF Elsewhere
  <2> QED
    BY <1>1, <1>9, <2>1 DEF Elsewhere, importVars
<1>10. ASSUME NEW a \in Actions, AppendStep(a) PROVE QueuedInv'
  <2>1. UNCHANGED <<req, response>>
    BY <1>10 DEF AppendStep, ReadLog, OpenLog, WriteLog, WriteFails, Step, importVars
  <2>2. CASE a = "queued"
    <3>1. append[a].at \in {"reading", "opening", "writing"}
      BY <1>10 DEF AppendStep, ReadLog, OpenLog, WriteLog, WriteFails, Step
    <3> QED
      BY <2>1, <2>2, <3>1 DEF QueuedInv
  <2>3. CASE a # "queued"
    <3>1. append'["queued"] = append["queued"]
      BY <1>0, <1>10, <2>3 DEF AppendStep, ReadLog, OpenLog, WriteLog, WriteFails, Step, AppendInv
    <3> QED
      BY <1>1, <2>1, <3>1
  <2> QED
    BY <2>2, <2>3
<1>11. CASE Detach \/ JobWrites \/ JobExits \/ UNCHANGED vars
  <2>1. UNCHANGED <<append, req, response>>
    BY <1>11 DEF Detach, JobWrites, JobExits, vars, importVars, logVars
  <2> QED
    BY <1>1, <2>1
<1>12. CASE JobCallback
  <2>1. UNCHANGED <<req, response>>
    BY <1>12 DEF JobCallback, JobData, JobError, JobClose, Unheard
  <2>2. PICK types : Heard(types)
    BY <1>12 DEF JobCallback, JobData, JobError, JobClose
  <2>3. append'["queued"] = append["queued"]
    <3>1. CASE UNCHANGED append
      BY <3>1
    <3>2. CASE ~UNCHANGED append
      <4> DEFINE begun == {a \in {"refine-started"} : "started" \in types}
                              \cup {a \in {"errored"} : "error" \in types}
      <4>1. append' = Begun(append, begun) /\ "queued" \in Actions \ begun
        BY <1>0, <2>2, <3>2 DEF Heard
      <4> HIDE DEF begun
      <4> QED
        BY <1>0, <4>1, BegunElsewhere
    <3> QED
      BY <3>1, <3>2
  <2> QED
    BY <1>1, <2>1, <2>3
<1> QED
  BY <1>3, <1>4, <1>5, <1>6, <1>7, <1>8, <1>9, <1>10, <1>11, <1>12
     DEF ImportNext, HandlerStep, FinisherStep

\* Every step leaves the publishing of artifacts to the announcement and to the
\* continuation.
LEMMA ArtifactStep ==
    ASSUME ImportTypeInv, FlowInv, ArtifactInv, [ImportNext]_vars
    PROVE  ArtifactInv'
<1>0. TypeOK /\ emitted \in Seq(Events)
  BY DEF ImportTypeInv, TypeOK
<1>1. ASSUME response = "202" => response' = "202",
             Published("artifact-ready")' => Published("artifact-ready")
      PROVE  ArtifactInv'
  BY <1>1 DEF ArtifactInv
<1>2. ASSUME UNCHANGED emitted, response = "202" => response' = "202" PROVE ArtifactInv'
  BY <1>2 DEF ArtifactInv, Published
<1>3. CASE CreateTempDir \/ Reject \/ Reception \/ StoreFiles \/ QueuedFails \/ CleanUp
           \/ Apologise
  <2>1. UNCHANGED emitted /\ req # "done"
    BY <1>3 DEF CreateTempDir, Reject, Reception, ParserThrows, Accept, BreakOff, RejectUnheard,
       StoreFiles, QueuedFails, CleanUp, Apologise, runnerVars
  <2> QED
    BY <1>2, <2>1 DEF FlowInv
<1>4. ASSUME NEW a \in Actions, AppendStep(a) PROVE ArtifactInv'
  BY <1>2, <1>4 DEF AppendStep, ReadLog, OpenLog, WriteLog, WriteFails, Step, runnerVars, importVars
<1>5. ASSUME NEW outcome \in {"alive", "unspawned"}, NEW listed \in SUBSET {"artifacts"},
             Dispatch(outcome, listed)
      PROVE  ArtifactInv'
  <2>1. response' = response
    BY <1>5 DEF Dispatch
  <2> QED
    BY <1>0, <1>1, <1>5, <2>1, Dispatched
<1>6. ASSUME NEW listed, DispatchThrows(listed) PROVE ArtifactInv'
  <2> DEFINE e == [type |-> "queued"]
  <2>1. e \in Events /\ e.type # "published"
    BY DEF Events
  <2>2. emitted' = Append(emitted, e) /\ response' = response
    BY <1>6 DEF DispatchThrows, SpawnThrows, Emit
  <2> HIDE DEF e
  <2>3. Published("artifact-ready")' => Published("artifact-ready")
    BY <1>0, <2>1, <2>2, OneMore, NoArtifact
  <2> QED
    BY <1>1, <2>2, <2>3
<1>7. CASE Announce
  BY <1>7 DEF Announce, Answer, ArtifactInv
<1>8. ASSUME NEW found \in BOOLEAN, ListArtifacts(found) PROVE ArtifactInv'
  BY <1>8 DEF ListArtifacts, ArtifactInv, FlowInv
<1>9. CASE JobCallback
  <2>1. Callback /\ response' = response
    BY <1>9 DEF JobCallback, JobData, JobError, JobClose, Callback, Unheard
  <2> QED
    BY <1>0, <1>1, <2>1, CallbackPublishes
<1>10. CASE Detach \/ Elsewhere \/ JobWrites \/ JobExits \/ UNCHANGED vars
  BY <1>2, <1>10 DEF Detach, Elsewhere, JobWrites, JobExits, ChildWrites, ChildExits,
     vars, runnerVars, importVars
<1> QED
  BY <1>3, <1>4, <1>5, <1>6, <1>7, <1>8, <1>9, <1>10
     DEF ImportNext, HandlerStep, FinisherStep

-----------------------------------------------------------------------------
(* The theorems. *)

\* The first state of an import satisfies its invariant.
LEMMA ImportInitInv == ImportInit => ImportIInv
<1> SUFFICES ASSUME ImportInit PROVE ImportIInv
  OBVIOUS
<1>1. TypeOK
  BY InitIInv DEF ImportInit, IInv
<1>2. HandlerType /\ FlowInv
  BY DEF ImportInit, HandlerType, Handler, FlowInv
<1>3. ActivityInv
  <2>1. <<>> \in Log
    BY ActivityLimitAssumption DEF Log
  <2> QED
    BY <2>1 DEF ImportInit, ActivityInv
<1>4. AppendInv
  BY DEF ImportInit, AppendInv, AppendPlaces
<1>5. ArtifactInv /\ QueuedInv
  BY DEF ImportInit, Init, ArtifactInv, Published, QueuedInv, Actions
<1> QED
  BY <1>1, <1>2, <1>3, <1>4, <1>5 DEF ImportIInv, ImportTypeInv

\* The conjunction of the invariants above is one.
THEOREM ImportInvariance == ImportSpec => []ImportIInv
<1>1. ASSUME ImportIInv, [ImportNext]_vars PROVE ImportIInv'
  BY <1>1, ImportTypeStep, FlowStep, QueuedStep, ArtifactStep DEF ImportIInv
<1> QED
  BY ImportInitInv, <1>1, PTL DEF ImportSpec

\* The types of an import's state, and the bound of the activity log it writes.
THEOREM ImportTypes == ImportSpec => []ImportTypeOK
<1>1. ImportIInv => ImportTypeOK
  <2> SUFFICES ASSUME ImportIInv PROVE ImportTypeOK
    OBVIOUS
  <2>1. HandlerType /\ TypeOK
    BY DEF ImportIInv, ImportTypeInv
  <2>2. /\ activity.kind \in {"missing", "truncated", "garbled", "whole"}
        /\ activity.kind = "whole" => /\ activity.value \in Seq(Actions)
                                      /\ Len(activity.value) <= ActivityLimit
    BY DEF ImportIInv, ImportTypeInv, ActivityInv, Missing, Truncated, Garbled, Whole, Log
  <2>3. append \in [Actions -> [at : AppendPlaces, copy : Seq(Actions)]]
    BY DEF ImportIInv, ImportTypeInv, AppendInv
  <2> QED
    BY <2>1, <2>2, <2>3, Zenon DEF ImportTypeOK, HandlerType, AppendPlaces
<1> QED
  BY ImportInvariance, <1>1, PTL

\* Whatever fails, a request that was accepted or rejected has left no temporary
\* directory: what a failing removal leaves is answered with 500.
THEOREM TempDirIsReclaimed == ImportSpec => []TempDirReclaimed
<1>1. ImportIInv => TempDirReclaimed
  BY DEF ImportIInv, FlowInv, TempDirReclaimed
<1> QED
  BY ImportInvariance, <1>1, PTL

\* A client told 202 keeps its workspace.
THEOREM WorkspaceIsKept == ImportSpec => []AcceptedWorkspaceKept
<1>1. ImportIInv => AcceptedWorkspaceKept
  BY DEF ImportIInv, FlowInv, AcceptedWorkspaceKept
<1> QED
  BY ImportInvariance, <1>1, PTL

\* Artifacts that were announced, and those an import whose 'queued' event was
\* stored lists, are in a workspace that stays; the attached profile included.
THEOREM ArtifactsAreBacked == ImportSpec => []ArtifactsBacked
<1>1. ImportIInv => ArtifactsBacked
  BY DEF ImportIInv, FlowInv, QueuedInv, ArtifactInv, ArtifactsBacked
<1> QED
  BY ImportInvariance, <1>1, PTL

-----------------------------------------------------------------------------
(* The runner inside the import. *)

\* There is no job before the handler dispatches one.
FreshInv ==
    req \in {"start", "receiving", "rejecting", "storing", "spawning"} => job.status = "absent"

\* Nothing but the dispatch makes a job.
LEMMA FreshStep ==
    ASSUME TypeOK, ControlInv, FreshInv, [ImportNext]_vars
    PROVE  FreshInv'
<1> USE DEF FreshInv
<1>1. CASE \/ CreateTempDir \/ Reject \/ Reception \/ StoreFiles
           \/ QueuedFails \/ CleanUp \/ Apologise
  BY <1>1 DEF CreateTempDir, Reject, Reception, ParserThrows, Accept, BreakOff,
     RejectUnheard, StoreFiles, QueuedFails, CleanUp, Apologise, Answer, runnerVars
<1>2. CASE \/ Announce
           \/ \E listed \in SUBSET {"artifacts"} :
                  \/ DispatchThrows(listed)
                  \/ \E outcome \in {"alive", "unspawned"} : Dispatch(outcome, listed)
  BY <1>2 DEF DispatchThrows, Announce, Dispatch, Answer
<1>3. CASE \E found \in BOOLEAN : ListArtifacts(found)
  BY <1>3 DEF ListArtifacts, TypeOK
<1>4. CASE Detach \/ Elsewhere \/ \E a \in Actions : AppendStep(a)
  BY <1>4 DEF Detach, Elsewhere, AppendStep, ReadLog, OpenLog, WriteLog, WriteFails,
     Step, importVars, runnerVars
<1>5. CASE JobWrites \/ JobExits
  BY <1>5 DEF JobWrites, JobExits, ChildWrites, ChildExits, importVars
<1>6. CASE JobCallback
  <2>1. child # "none"
    BY <1>6 DEF JobCallback, JobData, JobError, JobClose, OnData, OnError, OnClose,
       Closable, ControlInv, TypeOK
  <2>2. job.status # "absent" /\ req' = req
    BY <1>6, <2>1 DEF ControlInv, JobCallback, JobData, JobError, JobClose, Unheard
  <2>3. QED
    BY <2>2
<1>7. CASE UNCHANGED vars
  BY <1>7 DEF vars, runnerVars, importVars
<1>8. QED
  BY <1>1, <1>2, <1>3, <1>4, <1>5, <1>6, <1>7
     DEF ImportNext, HandlerStep, FinisherStep

\* The handler's dispatch starts the job.
LEMMA DispatchStarts ==
    ASSUME TypeOK, FreshInv, NEW outcome \in {"alive", "unspawned"},
           NEW listed \in SUBSET {"artifacts"}, Dispatch(outcome, listed)
    PROVE  Started
<1> DEFINE e1 == [type |-> "queued"]
           e2 == [type |-> "started"]
           e3 == [type |-> "metadata", meta |-> {"stage"} \cup listed]
<1>0. ({"stage"} \cup listed) \in SUBSET MetaKeys
  BY NamesAssumption
<1>1. e1 \in Events /\ e2 \in Events /\ e3 \in Events
  BY <1>0 DEF Events
<1>2. \A e \in {e1, e2, e3} : e.type # "finished"
  OBVIOUS
<1>3. emitted' = emitted \o <<e1, e2, e3>> /\ emitted \in Seq(Events)
  BY DEF Dispatch, TypeOK
<1> HIDE DEF e1, e2, e3
<1>4. \A i \in 1..Len(emitted') :
          \/ i \in 1..Len(emitted) /\ emitted'[i] = emitted[i]
          \/ emitted'[i].type # "finished"
  BY <1>1, <1>2, <1>3, ThreeMore
<1>5. job.status = "absent"
  BY DEF FreshInv, Dispatch
<1>6. \E meta \in SUBSET MetaKeys : job' = Entry("running", meta)
  BY <1>0 DEF Dispatch
<1>7. QED
  BY <1>4, <1>5, <1>6 DEF Started, Dispatch

\* The announcement adds an event, with a profile two.
LEMMA AnnouncementAdds ==
    ASSUME TypeOK, Announce
    PROVE  Added
<1> DEFINE e1 == [type |-> "published", topic |-> "file-accepted"]
           e2 == [type |-> "published", topic |-> "artifact-ready"]
           n == Len(emitted)
<1>0. /\ emitted' = Append(emitted, e1) \/ emitted' = Append(Append(emitted, e1), e2)
      /\ emitted \in Seq(Events) /\ n \in Nat
  BY DEF Announce, Emit, EmitBoth, TypeOK
<1>t. e1.type = "published" /\ e2.type = "published"
  OBVIOUS
<1> HIDE DEF e1, e2
<1>1. /\ Len(emitted') \in {n + 1, n + 2}
      /\ \A i \in 1..n : emitted'[i] = emitted[i]
      /\ emitted'[n + 1].type = "published"
      /\ Len(emitted') = n + 2 => emitted'[n + 2].type = "published"
  BY <1>0, <1>t
<1>2. \A i \in (n + 1)..Len(emitted') :
          i = n + 1 \/ (i = n + 2 /\ Len(emitted') = n + 2)
  BY <1>0, <1>1
<1>3. n <= Len(emitted')
  BY <1>0, <1>1
<1>4. QED
  BY <1>1, <1>2, <1>3 DEF Added, Announce

\* The continuation adds metadata and one event, or nothing.
LEMMA ArtifactsAdd ==
    ASSUME TypeOK, NEW found \in BOOLEAN, ListArtifacts(found)
    PROVE  Added \/ UNCHANGED runnerVars
<1>1. CASE ~found
  BY <1>1 DEF ListArtifacts, runnerVars
<1>2. CASE found
  <2> DEFINE n == Len(emitted)
             e1 == [type |-> "metadata", meta |-> job.meta \cup {"artifacts"}]
             e2 == [type |-> "published", topic |-> "artifact-ready"]
  <2>0. emitted' = Append(Append(emitted, e1), e2) /\ emitted \in Seq(Events)
    BY <1>2 DEF ListArtifacts, EmitBoth, TypeOK
  <2>t. e1.type = "metadata" /\ e2.type = "published"
    OBVIOUS
  <2> HIDE DEF e1, e2
  <2>1. /\ n \in Nat /\ Len(emitted') = n + 2
        /\ \A i \in 1..n : emitted'[i] = emitted[i]
        /\ emitted'[n + 1].type = "metadata" /\ emitted'[n + 2].type = "published"
    BY <2>0, <2>t
  <2>2. \A i \in (n + 1)..Len(emitted') : i = n + 1 \/ i = n + 2
    BY <2>1
  <2>3. /\ job'.status = job.status /\ job'.log = job.log
        /\ job'.shifted = job.shifted
    BY <1>2 DEF ListArtifacts, TypeOK
  <2>4. QED
    BY <2>1, <2>2, <2>3 DEF Added, ListArtifacts
<1>3. QED
  BY <1>1, <1>2

\* Every step of an import is one the runner's promises survive.
LEMMA ImportHosts ==
    ASSUME TypeOK, FreshInv, [ImportNext]_vars
    PROVE  HostedStep
<1> USE DEF HostedStep
<1>1. CASE \/ CreateTempDir \/ Reject \/ Reception \/ StoreFiles
           \/ QueuedFails \/ CleanUp \/ Apologise
           \/ Detach \/ Elsewhere \/ UNCHANGED vars
  BY <1>1 DEF CreateTempDir, Reject, Reception, ParserThrows, Accept, BreakOff,
     RejectUnheard, StoreFiles, QueuedFails, CleanUp, Apologise, Detach, Elsewhere, vars
<1>2. ASSUME NEW outcome \in {"alive", "unspawned"}, NEW listed \in SUBSET {"artifacts"},
             Dispatch(outcome, listed)
      PROVE  HostedStep
  BY <1>2, DispatchStarts
<1>3. ASSUME NEW listed \in SUBSET {"artifacts"}, DispatchThrows(listed) PROVE HostedStep
  BY <1>3, NamesAssumption DEF DispatchThrows, Next, CallerStep, CreateCommandJob
<1>4. CASE Announce
  BY <1>4, AnnouncementAdds
<1>5. CASE \E found \in BOOLEAN : ListArtifacts(found)
  BY <1>5, ArtifactsAdd
<1>6. CASE \E a \in Actions : AppendStep(a)
  BY <1>6 DEF AppendStep, ReadLog, OpenLog, WriteLog, WriteFails, Step
<1>7. CASE JobWrites \/ JobExits \/ JobCallback
  BY <1>7 DEF JobWrites, JobExits, JobCallback, JobData, JobError, JobClose,
     Next, ChildStep, Callback
<1>8. QED
  BY <1>1, <1>2, <1>3, <1>4, <1>5, <1>6, <1>7
     DEF ImportNext, HandlerStep, FinisherStep

\* The runner's invariant beside the import's.
HostInv == ImportIInv /\ IInv /\ FreshInv

\* Every step of an import keeps both invariants, the verdict and the life cycle.
LEMMA HostStep ==
    ASSUME HostInv, [ImportNext]_vars
    PROVE  /\ HostInv'
           /\ job.status \in Terminal => job'.status = job.status
           /\ [Lifecycle!Next]_Lifecycle!lifecycleVars
<1>1. ImportIInv'
  BY ImportTypeStep, FlowStep, QueuedStep, ArtifactStep DEF HostInv, ImportIInv
<1>2. TypeOK'
  BY <1>1 DEF ImportIInv, ImportTypeInv
<1>3. TypeOK /\ ControlInv
  BY DEF HostInv, IInv
<1>4. FreshInv'
  BY <1>3, FreshStep DEF HostInv
<1>5. HostedStep
  BY <1>3, ImportHosts DEF HostInv
<1>6. QED
  BY <1>1, <1>2, <1>4, <1>5, HostedStepKeeps DEF HostInv

\* The runner's invariant holds beside the import's.
THEOREM HostInvariance == ImportSpec => []HostInv
<1>1. ImportInit => HostInv
  <2>1. ImportInit => IInv
    BY InitIInv DEF ImportInit
  <2>2. ImportInit => FreshInv
    BY DEF ImportInit, Init, Entry, FreshInv
  <2>3. QED
    BY <2>1, <2>2, ImportInitInv DEF HostInv
<1>2. HostInv /\ [ImportNext]_vars => HostInv'
  BY HostStep
<1>3. QED
  BY <1>1, <1>2, PTL DEF ImportSpec

\* The runner keeps its promises to the import: with the handler, the listener
\* and the activity log in the same process, the log is still the most recent
\* output and nothing but news of its callers follows the end
\* (job-runner.js:27, index.mjs:2026).
THEOREM LogIsRecentInAnImport == ImportSpec => [](LogIsRecentOutput /\ NothingAfterTheEnd)
  BY HostInvariance, PTL DEF HostInv, IInv

\* A verdict is final although the listener's continuation updates the ended job
\* (job-runner.js:169, index.mjs:2026).
THEOREM VerdictFinalInAnImport == ImportSpec => VerdictIsFinal
<1>1. HostInv /\ [ImportNext]_vars
         => [job.status \in Terminal => job'.status = job.status]_runnerVars
  BY HostStep
<1>2. QED
  BY <1>1, HostInvariance, PTL DEF ImportSpec, VerdictIsFinal

\* An import, whatever its handler and its disk do, implements the abstract life
\* cycle of a job.
THEOREM ImportsImplementLifecycle == ImportSpec => ImplementsLifecycle
<1>1. HostInv /\ [ImportNext]_vars => [Lifecycle!Next]_Lifecycle!lifecycleVars
  BY HostStep
<1>2. ImportInit => Lifecycle!Init
  BY LifecycleInit DEF ImportInit
<1>3. QED
  BY <1>1, <1>2, HostInvariance, PTL DEF ImportSpec, ImplementsLifecycle, Lifecycle!Spec

-----------------------------------------------------------------------------
(* The streams.  The runner's invariant is kept by the two steps that are   *)
(* not steps of JobRunner: the route's call that starts the job and merges  *)
(* its metadata at once, and the listener that merges and publishes the     *)
(* artifacts.  On top of it, EventLog says what the events tell of the      *)
(* output, and each page's invariant relates its cursor to what it has      *)
(* shown: the panel has nothing the rest of its stream will repeat, the log *)
(* view has exactly what lies before its cursor.                            *)

IsLog(e) == e.type = "log"
IsPublished(e) == e.type = "published"
IsStage(e) == e.type = "published" /\ e.topic \in Stages

\* Each chunk consumed so far was published once, in order.
ChunksRead ==
    \A i \in 1..Len(emitted) : IsLog(emitted[i]) => emitted[i].chunk \in 1..read

ChunksInOrder ==
    \A i, k \in 1..Len(emitted) :
        i < k /\ IsLog(emitted[i]) /\ IsLog(emitted[k])
            => emitted[i].chunk < emitted[k].chunk

ChunksComplete ==
    \A c \in 1..read : \E k \in 1..Len(emitted) :
        IsLog(emitted[k]) /\ emitted[k].chunk = c

\* What the route's progress says of the job and of the panel.
RouteInv ==
    /\ route = "idle" => job.status = "absent" /\ emitted = <<>> /\ exit = "none"
    /\ route \in {"idle", "writing", "threw"} => conn.state = "none"
    /\ route \in {"idle", "writing"} =>
           \A i \in 1..Len(emitted) : ~IsPublished(emitted[i])

\* A command that could not be started left one log entry and no output.
SpawnErrorInv ==
    exit = "unspawned" =>
        Len(job.log) <= 1 /\ \A i \in 1..Len(job.log) : job.log[i] = SpawnErrorEntry

PanelInv == \A i \in 1..Len(panel.logs) : panel.logs[i] <= read

\* What an open stream of the panel has still to deliver: a snapshot that is
\* true if it is an end, no stage, and no chunk the panel has already.
ConnInv ==
    conn.state = "open" =>
        /\ conn.snap \in Terminal => conn.snap = job.status
        /\ \A k \in conn.next..Len(emitted) : ~IsStage(emitted[k])
        /\ \A k \in conn.next..Len(emitted), i \in 1..Len(panel.logs) :
              IsLog(emitted[k]) => panel.logs[i] < emitted[k].chunk

\* The number of the last chunk the log view shows.
Seen == IF view.lines = <<>> THEN 0 ELSE view.lines[Len(view.lines)]

LinesInv ==
    /\ \A i \in 1..(Len(view.lines) - 1) : view.lines[i + 1] = view.lines[i] + 1
    /\ view.state = "none" => view.lines = <<>>
    /\ Seen <= read

\* The cursor of an open log view splits the output at the last line shown.
CursorInv ==
    view.state = "open" =>
        \A k \in 1..Len(emitted) :
            IsLog(emitted[k]) => (k < view.next <=> emitted[k].chunk <= Seen)

EndedInv ==
    view.state = "ended" => job.status \in Terminal /\ Seen = read

EventLog == ChunksRead /\ ChunksInOrder /\ ChunksComplete

StreamIInv ==
    /\ IInv /\ StreamTypeOK
    /\ EventLog /\ RouteInv /\ SpawnErrorInv
    /\ PanelInv /\ ConnInv /\ PanelLogsInOrder /\ ShownEndIsTheJobs
    /\ LinesInv /\ CursorInv /\ EndedInv

-----------------------------------------------------------------------------
(* What one step does to the job. *)

\* The second disjunct of RouteStartsJob.
RouteSpawns ==
    /\ route = "idle"
    /\ \E outcome \in {"alive", "unspawned"} :
           /\ job' = Entry("running", {})
           /\ child' = outcome
           /\ emitted' = <<[type |-> "queued"], [type |-> "started"],
                           [type |-> "metadata", meta |-> {}]>>
           /\ route' = "writing"
    /\ UNCHANGED <<exit, written, read, panel, conn, view, drops>>

\* The second disjunct of ListenerPublishesArtifacts.
ArtifactsPublished ==
    /\ job' = [job EXCEPT !.meta = {"artifacts"}]
    /\ EmitBoth([type |-> "metadata", meta |-> {"artifacts"}],
                [type |-> "published", topic |-> "artifact-ready"])
    /\ route = "enumerating" /\ route' = "off"
    /\ UNCHANGED <<child, exit, written, read, panel, conn, view, drops>>

\* Every other step is a step of the runner.
LEMMA StepCases ==
    ASSUME RouteInv, [StreamNext]_allVars
    PROVE  [Next]_runnerVars \/ RouteSpawns \/ ArtifactsPublished
<1>1. CASE RouteStartsJob
  <2>1. CASE SpawnThrows({})
    BY <2>1 DEF Next, CallerStep, CreateCommandJob
  <2>2. QED
    BY <1>1, <2>1 DEF RouteStartsJob, RouteSpawns
<1>2. CASE ChildCallback
  BY <1>2 DEF ChildCallback, Next, Callback
<1>3. CASE RouteResponds
  <2>1. ~Published("upload-complete")
    BY <1>3 DEF RouteResponds, RouteInv, Published, IsPublished
  <2>2. QED
    BY <1>3, <2>1, RouteAssumption DEF RouteResponds, Next, CallerStep
<1>4. CASE ListenerPublishesArtifacts
  <2>1. CASE UNCHANGED <<job, emitted>>
    BY <1>4, <2>1 DEF ListenerPublishesArtifacts, runnerVars
  <2>2. QED
    BY <1>4, <2>1 DEF ListenerPublishesArtifacts, ArtifactsPublished
<1>5. CASE Environment
  BY <1>5 DEF Environment, Next
<1>6. CASE PanelStep \/ ConnectionBreaks
  BY <1>6 DEF PanelStep, OpenStream, OnSnapshot, OnStreamEvent, Reconnect,
     ConnectionBreaks, runnerVars
<1>7. CASE ViewStep \/ LogViewBreaks \/ UNCHANGED allVars
  BY <1>7 DEF ViewStep, OpenLogView, OnLogViewEvent, LogViewBreaks, allVars, runnerVars
<1>8. QED
  BY <1>1, <1>2, <1>3, <1>4, <1>5, <1>6, <1>7 DEF StreamNext, ServerStep

\* The route's call starts the job.
LEMMA RouteStarts ==
    ASSUME TypeOK, RouteInv, RouteSpawns
    PROVE  TypeOK' /\ Started
<1>1. emitted' \in Seq(Events)
  <2>1. /\ [type |-> "queued"] \in Events /\ [type |-> "started"] \in Events
        /\ [type |-> "metadata", meta |-> {}] \in Events
    BY DEF Events
  <2>2. QED
    BY <2>1 DEF RouteSpawns
<1>2. Entry("running", {}) \in
         [status : Statuses, log : Seq(LogEntries), shifted : BOOLEAN,
          exitCode : ExitCodes, meta : SUBSET MetaKeys]
  BY EntryType DEF Statuses
<1>3. TypeOK'
  BY <1>1, <1>2 DEF TypeOK, RouteSpawns, ChildStates
<1>4. \A i \in 1..Len(emitted') : emitted'[i].type # "finished"
  <2>1. Len(emitted') = 3 /\ \A i \in 1..3 : emitted'[i].type # "finished"
    BY DEF RouteSpawns
  <2>2. QED
    BY <2>1
<1>5. job.status = "absent" /\ {} \in SUBSET MetaKeys
  BY DEF RouteInv, RouteSpawns
<1>6. QED
  BY <1>3, <1>4, <1>5 DEF Started, RouteSpawns

\* The listener adds metadata and one event.
LEMMA ListenerAdds ==
    ASSUME TypeOK, ArtifactsPublished
    PROVE  TypeOK' /\ Added
<1>1. emitted' \in Seq(Events)
  BY RouteAssumption DEF ArtifactsPublished, EmitBoth, TypeOK, Events
<1>2. TypeOK'
  BY <1>1, RouteAssumption DEF TypeOK, ArtifactsPublished
<1>3. /\ job'.status = job.status /\ job'.log = job.log
      /\ job'.shifted = job.shifted
  BY DEF ArtifactsPublished, TypeOK
<1> DEFINE n == Len(emitted)
<1>4. /\ n \in Nat /\ Len(emitted') = n + 2
      /\ \A i \in 1..n : emitted'[i] = emitted[i]
      /\ emitted'[n + 1].type = "metadata" /\ emitted'[n + 2].type = "published"
  BY DEF ArtifactsPublished, EmitBoth, TypeOK
<1>5. \A i \in (n + 1)..Len(emitted') : emitted'[i].type \in {"metadata", "published"}
  <2>1. \A i \in (n + 1)..Len(emitted') : i = n + 1 \/ i = n + 2
    BY <1>4
  <2>2. QED
    BY <1>4, <2>1
<1>6. QED
  BY <1>2, <1>3, <1>4, <1>5 DEF Added, ArtifactsPublished

\* Every step of the composed system is one the runner's promises survive.
LEMMA StreamHosts ==
    ASSUME TypeOK, RouteInv, [StreamNext]_allVars
    PROVE  TypeOK' /\ HostedStep
  BY StepCases, TypeInductive, RouteStarts, ListenerAdds DEF HostedStep

\* The runner's invariant is an invariant of the composition, and a verdict is
\* never revised there either.
LEMMA RunnerKept ==
    ASSUME IInv, RouteInv, [StreamNext]_allVars
    PROVE  /\ IInv'
           /\ job.status \in Terminal => job'.status = job.status
           /\ [Lifecycle!Next]_Lifecycle!lifecycleVars
  BY StreamHosts, HostedStepKeeps DEF IInv

-----------------------------------------------------------------------------
(* What one step publishes. *)

\* Events are only ever added.
Kept ==
    /\ Len(emitted) <= Len(emitted')
    /\ \A i \in 1..Len(emitted) : emitted'[i] = emitted[i]

\* A step that consumes no output publishes none; one that consumes a chunk
\* publishes that chunk and nothing else.
Silent ==
    /\ read' = read
    /\ \A k \in (Len(emitted) + 1)..Len(emitted') : ~IsLog(emitted'[k])

Output ==
    /\ read < written /\ read' = read + 1
    /\ Len(emitted') = Len(emitted) + 1
    /\ emitted'[Len(emitted) + 1] = [type |-> "log", chunk |-> read + 1]

\* The route's stage is published before the panel knows the job.
NoStage ==
    conn.state # "none" =>
        \A k \in (Len(emitted) + 1)..Len(emitted') : ~IsStage(emitted'[k])

NoPublication ==
    route' \in {"idle", "writing"} =>
        \A k \in (Len(emitted) + 1)..Len(emitted') : ~IsPublished(emitted'[k])

Growth == Kept /\ (Silent \/ Output) /\ NoStage /\ NoPublication

\* One event more leaves those before it.
LEMMA AppendOne ==
    ASSUME emitted \in Seq(Events), NEW e, emitted' = Append(emitted, e)
    PROVE  /\ Len(emitted) \in Nat /\ Len(emitted') = Len(emitted) + 1
           /\ emitted'[Len(emitted) + 1] = e
           /\ Kept
  BY DEF Kept

\* Two events more leave those before them.
LEMMA AppendTwo ==
    ASSUME emitted \in Seq(Events), NEW d, NEW e,
           emitted' = Append(Append(emitted, d), e)
    PROVE  /\ Len(emitted) \in Nat /\ Len(emitted') = Len(emitted) + 2
           /\ emitted'[Len(emitted) + 1] = d /\ emitted'[Len(emitted) + 2] = e
           /\ Kept
  BY DEF Kept

\* One event, neither output nor a publication.
LEMMA OneQuietEvent ==
    ASSUME emitted \in Seq(Events), NEW e, emitted' = Append(emitted, e),
           read' = read, ~IsLog(e), ~IsPublished(e)
    PROVE  Growth
<1>1. /\ Len(emitted) \in Nat /\ Len(emitted') = Len(emitted) + 1
      /\ emitted'[Len(emitted) + 1] = e
      /\ Kept
  BY AppendOne
<1>2. \A k \in (Len(emitted) + 1)..Len(emitted') : emitted'[k] = e
  BY <1>1
<1>3. QED
  BY <1>1, <1>2 DEF Growth, Silent, NoStage, NoPublication, IsStage, IsLog,
     IsPublished

\* One publication, by a step that leaves the route past its writing.
LEMMA OnePublication ==
    ASSUME emitted \in Seq(Events), NEW e, emitted' = Append(emitted, e),
           read' = read, IsPublished(e), route' = "listening", conn.state = "none"
    PROVE  Growth
<1>1. /\ Len(emitted) \in Nat /\ Len(emitted') = Len(emitted) + 1
      /\ emitted'[Len(emitted) + 1] = e
      /\ Kept
  BY AppendOne
<1>2. \A k \in (Len(emitted) + 1)..Len(emitted') : emitted'[k] = e
  BY <1>1
<1>3. QED
  BY <1>1, <1>2 DEF Growth, Silent, NoStage, NoPublication, IsLog, IsPublished

\* A step that publishes and consumes nothing.
LEMMA NothingNew ==
    ASSUME emitted \in Seq(Events), emitted' = emitted, read' = read
    PROVE  Growth
<1>1. Len(emitted) \in Nat
  OBVIOUS
<1>2. QED
  BY <1>1 DEF Growth, Kept, Silent, NoStage, NoPublication

\* Every step only adds events, and logs only the chunk it consumes.
LEMMA EventsGrow ==
    ASSUME IInv, RouteInv, [StreamNext]_allVars
    PROVE  Growth
<1>0. emitted \in Seq(Events) /\ Len(emitted) \in Nat
  BY DEF IInv, TypeOK
<1>1. CASE RouteStartsJob
  <2>1. CASE SpawnThrows({})
    <3> DEFINE e == [type |-> "queued"]
    <3>1. ~IsLog(e) /\ ~IsPublished(e)
      BY DEF IsLog, IsPublished
    <3>2. emitted' = Append(emitted, e) /\ read' = read
      BY <2>1 DEF SpawnThrows, Emit
    <3> HIDE DEF e
    <3>3. QED
      BY <1>0, <3>1, <3>2, OneQuietEvent
  <2>2. CASE RouteSpawns
    <3>1. emitted = <<>> /\ Len(emitted) = 0 /\ read' = read
      BY <2>2 DEF RouteSpawns, RouteInv
    <3>2. /\ Len(emitted') = 3
          /\ \A k \in 1..3 : ~IsLog(emitted'[k]) /\ ~IsPublished(emitted'[k])
      BY <2>2 DEF RouteSpawns, IsLog, IsPublished
    <3>3. QED
      BY <3>1, <3>2 DEF Growth, Kept, Silent, NoStage, NoPublication, IsStage,
         IsPublished
  <2>3. QED
    BY <1>1, <2>1, <2>2 DEF RouteStartsJob, RouteSpawns
<1>2. CASE ChildCallback /\ OnData
  <2> DEFINE e == [type |-> "log", chunk |-> read + 1]
  <2>1. /\ ~IsPublished(e) /\ emitted' = Append(emitted, e)
        /\ read < written /\ read' = read + 1
    BY <1>2 DEF IsPublished, OnData, Emit
  <2> HIDE DEF e
  <2>2. /\ Len(emitted') = Len(emitted) + 1
        /\ emitted'[Len(emitted) + 1] = e
        /\ Kept
    BY <1>0, <2>1, AppendOne
  <2>3. \A k \in (Len(emitted) + 1)..Len(emitted') : emitted'[k] = e
    BY <1>0, <2>2
  <2>4. Output
    BY <2>1, <2>2 DEF Output, e
  <2>5. QED
    BY <2>1, <2>2, <2>3, <2>4 DEF Growth, NoStage, NoPublication, IsStage,
       IsPublished
<1>3. CASE ChildCallback /\ OnError
  <2> DEFINE d == [type |-> "error"]
             e == [type |-> "finished", status |-> "failed"]
  <2>1. ~IsLog(d) /\ ~IsPublished(d) /\ ~IsLog(e) /\ ~IsPublished(e)
    BY DEF IsLog, IsPublished
  <2>2. emitted' = Append(Append(emitted, d), e) /\ read' = read
    BY <1>3 DEF OnError, EmitBoth
  <2> HIDE DEF d, e
  <2>3. /\ Len(emitted') = Len(emitted) + 2
        /\ emitted'[Len(emitted) + 1] = d /\ emitted'[Len(emitted) + 2] = e
        /\ Kept
    BY <1>0, <2>2, AppendTwo
  <2>4. \A k \in (Len(emitted) + 1)..Len(emitted') : emitted'[k] \in {d, e}
    BY <1>0, <2>3
  <2>5. QED
    BY <2>1, <2>2, <2>3, <2>4 DEF Growth, Silent, NoStage, NoPublication,
       IsStage, IsPublished
<1>4. CASE ChildCallback /\ OnClose
  <2> DEFINE e == [type |-> "finished", status |-> Verdict(exit)]
  <2>1. ~IsLog(e) /\ ~IsPublished(e)
    BY DEF IsLog, IsPublished
  <2>2. emitted' = Append(emitted, e) /\ read' = read
    BY <1>4 DEF OnClose, Emit
  <2> HIDE DEF e
  <2>3. QED
    BY <1>0, <2>1, <2>2, OneQuietEvent
<1>5. CASE RouteResponds
  <2> DEFINE e == [type |-> "published", topic |-> "upload-complete"]
  <2>1. IsPublished(e)
    BY DEF IsPublished
  <2>2. /\ emitted' = Append(emitted, e) /\ read' = read
        /\ route' = "listening" /\ conn.state = "none"
    BY <1>5 DEF RouteResponds, PublishJobEvent, Emit, RouteInv
  <2> HIDE DEF e
  <2>3. QED
    BY <1>0, <2>1, <2>2, OnePublication
<1>6. CASE ArtifactsPublished
  <2> DEFINE d == [type |-> "metadata", meta |-> {"artifacts"}]
             e == [type |-> "published", topic |-> "artifact-ready"]
  <2>1. ~IsLog(d) /\ ~IsStage(d) /\ ~IsLog(e) /\ ~IsStage(e)
    BY DEF IsLog, IsStage, Stages
  <2>2. /\ emitted' = Append(Append(emitted, d), e) /\ read' = read
        /\ route' = "off"
    BY <1>6 DEF ArtifactsPublished, EmitBoth
  <2> HIDE DEF d, e
  <2>3. /\ Len(emitted') = Len(emitted) + 2
        /\ emitted'[Len(emitted) + 1] = d /\ emitted'[Len(emitted) + 2] = e
        /\ Kept
    BY <1>0, <2>2, AppendTwo
  <2>4. \A k \in (Len(emitted) + 1)..Len(emitted') : emitted'[k] \in {d, e}
    BY <1>0, <2>3
  <2>5. QED
    BY <2>1, <2>2, <2>3, <2>4 DEF Growth, Silent, NoStage, NoPublication
<1>7. CASE ListenerPublishesArtifacts /\ ~ArtifactsPublished
  BY <1>0, <1>7, NothingNew DEF ListenerPublishesArtifacts, ArtifactsPublished
<1>8. CASE Environment
  BY <1>0, <1>8, NothingNew DEF Environment, ChildStep, ChildWrites, ChildExits
<1>9. CASE PanelStep \/ ConnectionBreaks
  BY <1>0, <1>9, NothingNew DEF PanelStep, OpenStream, OnSnapshot, OnStreamEvent,
     Reconnect, ConnectionBreaks, runnerVars
<1>10. CASE ViewStep \/ LogViewBreaks \/ UNCHANGED allVars
  BY <1>0, <1>10, NothingNew DEF ViewStep, OpenLogView, OnLogViewEvent,
     LogViewBreaks, allVars, runnerVars
<1>11. QED
  BY <1>1, <1>2, <1>3, <1>4, <1>5, <1>6, <1>7, <1>8, <1>9, <1>10
     DEF StreamNext, ServerStep, ChildCallback

\* The events go on telling the whole output.
LEMMA EventLogKept ==
    ASSUME TypeOK, EventLog, Growth
    PROVE  EventLog'
<1> DEFINE n == Len(emitted)
<1>0. n \in Nat /\ read \in Nat
  BY DEF TypeOK
<1>1. n <= Len(emitted') /\ \A i \in 1..n : emitted'[i] = emitted[i]
  BY DEF Growth, Kept
<1>2. CASE Silent
  <2>1. /\ read' = read
        /\ \A k \in 1..Len(emitted') :
              IsLog(emitted'[k]) => k \in 1..n /\ emitted'[k] = emitted[k]
    BY <1>0, <1>1, <1>2 DEF Silent
  <2>2. ChunksRead'
    BY <2>1 DEF ChunksRead, EventLog, IsLog
  <2>3. ChunksInOrder'
    BY <2>1 DEF ChunksInOrder, EventLog, IsLog
  <2>4. ChunksComplete'
    <3> SUFFICES ASSUME NEW c \in 1..read
                 PROVE  \E k \in 1..Len(emitted') :
                           IsLog(emitted'[k]) /\ emitted'[k].chunk = c
      BY <2>1 DEF ChunksComplete, IsLog
    <3>1. PICK k \in 1..n : IsLog(emitted[k]) /\ emitted[k].chunk = c
      BY DEF EventLog, ChunksComplete
    <3>2. k \in 1..Len(emitted')
      BY <1>0, <1>1
    <3>3. QED
      BY <1>1, <3>1, <3>2
  <2>5. QED
    BY <2>2, <2>3, <2>4 DEF EventLog
<1>3. CASE Output
  <2>1. /\ read' = read + 1 /\ Len(emitted') = n + 1
        /\ IsLog(emitted'[n + 1]) /\ emitted'[n + 1].chunk = read + 1
    BY <1>3 DEF Output, IsLog
  <2>2. \A k \in 1..Len(emitted') :
           k = n + 1 \/ (k \in 1..n /\ emitted'[k] = emitted[k])
    BY <1>0, <1>1, <2>1
  <2> HIDE DEF n
  <2>3. \A i \in 1..n : IsLog(emitted[i]) => emitted[i].chunk \in 1..read
    BY DEF EventLog, ChunksRead, n
  <2>4. ChunksRead'
    <3> SUFFICES ASSUME NEW i \in 1..Len(emitted'), IsLog(emitted'[i])
                 PROVE  emitted'[i].chunk \in 1..read'
      BY DEF ChunksRead, IsLog
    <3>1. CASE i = n + 1
      BY <1>0, <2>1, <3>1
    <3>2. CASE i \in 1..n /\ emitted'[i] = emitted[i]
      BY <1>0, <2>1, <2>3, <3>2
    <3>3. QED
      BY <2>2, <3>1, <3>2
  <2>5. ChunksInOrder'
    <3> SUFFICES ASSUME NEW i \in 1..Len(emitted'), NEW k \in 1..Len(emitted'),
                        i < k, IsLog(emitted'[i]), IsLog(emitted'[k])
                 PROVE  emitted'[i].chunk < emitted'[k].chunk
      BY DEF ChunksInOrder, IsLog
    <3>1. i \in 1..n /\ emitted'[i] = emitted[i]
      BY <1>0, <2>1, <2>2
    <3>2. CASE k = n + 1
      BY <1>0, <2>1, <2>3, <3>1, <3>2
    <3>3. CASE k \in 1..n /\ emitted'[k] = emitted[k]
      BY <3>1, <3>3 DEF EventLog, ChunksInOrder, n
    <3>4. QED
      BY <2>2, <3>2, <3>3
  <2>6. ChunksComplete'
    <3> SUFFICES ASSUME NEW c \in 1..(read + 1)
                 PROVE  \E k \in 1..Len(emitted') :
                           IsLog(emitted'[k]) /\ emitted'[k].chunk = c
      BY <2>1 DEF ChunksComplete, IsLog
    <3>1. CASE c = read + 1
      <4>1. n + 1 \in 1..Len(emitted')
        BY <1>0, <2>1
      <4>2. QED
        BY <2>1, <3>1, <4>1
    <3>2. CASE c \in 1..read
      <4>1. PICK k \in 1..n : IsLog(emitted[k]) /\ emitted[k].chunk = c
        BY <3>2 DEF EventLog, ChunksComplete, n
      <4>2. k \in 1..Len(emitted')
        BY <1>0, <2>1
      <4>3. QED
        BY <1>1, <4>1, <4>2
    <3>3. QED
      BY <1>0, <3>1, <3>2
  <2>7. QED
    BY <2>4, <2>5, <2>6 DEF EventLog
<1>4. QED
  BY <1>2, <1>3 DEF Growth

-----------------------------------------------------------------------------
(* The route, and the entry a failed spawn leaves. *)

\* Until the route starts the job there is no child to do anything.
LEMMA IdleRoute ==
    ASSUME IInv, RouteInv, route = "idle"
    PROVE  child = "none" /\ written = 0 /\ read = 0
  BY DEF IInv, ControlInv, TypeOK, RouteInv

\* Every step keeps the route in step with the job.
LEMMA RouteKept ==
    ASSUME IInv, RouteInv, Growth, [StreamNext]_allVars
    PROVE  RouteInv'
<1>0. emitted \in Seq(Events) /\ Len(emitted) \in Nat
  BY DEF IInv, TypeOK
<1>1. route' \in {"idle", "writing"} => route \in {"idle", "writing"}
  BY DEF StreamNext, RouteStartsJob, ServerStep, ChildCallback, Listener,
     RouteResponds, ListenerPublishesArtifacts, Environment, streamVars, PanelStep,
     OpenStream, OnSnapshot, OnStreamEvent, Reconnect, ConnectionBreaks, ViewStep,
     OpenLogView, OnLogViewEvent, LogViewBreaks, allVars
<1>2. route' \in {"idle", "writing"} =>
         \A i \in 1..Len(emitted') : ~IsPublished(emitted'[i])
  <2> SUFFICES ASSUME route' \in {"idle", "writing"}, NEW i \in 1..Len(emitted')
               PROVE  ~IsPublished(emitted'[i])
    OBVIOUS
  <2>1. CASE i \in 1..Len(emitted)
    BY <1>1, <2>1 DEF RouteInv, Growth, Kept
  <2>2. CASE i \notin 1..Len(emitted)
    BY <1>0, <2>2 DEF Growth, NoPublication
  <2>3. QED
    BY <2>1, <2>2
<1>3. route' \in {"idle", "writing", "threw"} => conn'.state = "none"
  <2>1. CASE RouteStartsJob
    BY <2>1 DEF RouteStartsJob, RouteInv
  <2>2. CASE ServerStep
    BY <2>2 DEF ServerStep, ChildCallback, Listener, RouteResponds,
       ListenerPublishesArtifacts, RouteInv
  <2>3. CASE Environment
    BY <2>3 DEF Environment, streamVars, RouteInv
  <2>4. CASE PanelStep \/ ConnectionBreaks
    BY <2>4 DEF PanelStep, OpenStream, OnSnapshot, OnStreamEvent, Reconnect,
       ConnectionBreaks, RouteInv
  <2>5. CASE ViewStep \/ LogViewBreaks \/ UNCHANGED allVars
    BY <2>5 DEF ViewStep, OpenLogView, OnLogViewEvent, LogViewBreaks, allVars,
       streamVars, RouteInv
  <2>6. QED
    BY <2>1, <2>2, <2>3, <2>4, <2>5 DEF StreamNext
<1>4. route' = "idle" =>
         job'.status = "absent" /\ emitted' = <<>> /\ exit' = "none"
  <2> SUFFICES ASSUME route' = "idle"
               PROVE  job'.status = "absent" /\ emitted' = <<>> /\ exit' = "none"
    OBVIOUS
  <2>1. route = "idle"
    BY DEF StreamNext, RouteStartsJob, ServerStep, ChildCallback, Listener,
       RouteResponds, ListenerPublishesArtifacts, Environment, streamVars,
       PanelStep, OpenStream, OnSnapshot, OnStreamEvent, Reconnect,
       ConnectionBreaks, ViewStep, OpenLogView, OnLogViewEvent, LogViewBreaks, allVars
  <2>2. job.status = "absent" /\ emitted = <<>> /\ exit = "none"
    BY <2>1 DEF RouteInv
  <2>3. child = "none" /\ written = 0 /\ read = 0
    BY <2>1, IdleRoute
  <2>4. UNCHANGED <<job, emitted, exit>>
    <3>1. ~RouteStartsJob /\ ~RouteResponds /\ ~ListenerPublishesArtifacts
      BY <2>1 DEF RouteStartsJob, RouteResponds, ListenerPublishesArtifacts
    <3>2. ~ChildCallback /\ ~Environment
      BY <2>3 DEF ChildCallback, OnData, OnError, OnClose, Closable, Environment,
         ChildStep, ChildWrites, ChildExits
    <3>3. CASE PanelStep \/ ConnectionBreaks
      BY <3>3 DEF PanelStep, OpenStream, OnSnapshot, OnStreamEvent, Reconnect,
         ConnectionBreaks, runnerVars
    <3>4. CASE ViewStep \/ LogViewBreaks \/ UNCHANGED allVars
      BY <3>4 DEF ViewStep, OpenLogView, OnLogViewEvent, LogViewBreaks, allVars,
         runnerVars
    <3>5. QED
      BY <3>1, <3>2, <3>3, <3>4 DEF StreamNext, ServerStep
  <2>5. QED
    BY <2>2, <2>4
<1>5. QED
  BY <1>2, <1>3, <1>4 DEF RouteInv, IsPublished

\* What OnError leaves in the log.
LEMMA SpawnErrorEntryAlone ==
    ASSUME IInv, OnError
    PROVE  Len(job'.log) <= 1 /\ \A i \in 1..Len(job'.log) : job'.log[i] = SpawnErrorEntry
<1>1. read = 0 /\ exit # "unspawned" /\ job.log \in Seq(LogEntries)
  BY DEF IInv, OnError, ControlInv, TypeOK
<1>2. Len(job.log) = 0
  BY <1>1, MaxLogAssumption, KeepsSomeLog DEF IInv, LogIsRecentOutput
<1>3. job.log = <<>>
  BY <1>1, <1>2
<1> DEFINE j == [job EXCEPT !.status = "failed"]
           longer == Append(<<>>, SpawnErrorEntry)
<1>4. j.log = <<>>
  BY <1>3 DEF IInv, TypeOK
<1>5. longer = <<SpawnErrorEntry>> /\ Len(longer) = 1
  OBVIOUS
<1>6. ~(Len(longer) > MaxLog)
  BY <1>5, MaxLogAssumption, KeepsSomeLog
<1>7. PushLog(j, SpawnErrorEntry).log = longer
  BY <1>4, <1>6 DEF PushLog
<1>8. job'.log = longer
  BY <1>7 DEF OnError
<1>9. QED
  BY <1>5, <1>8

\* Every step keeps the spawn error's entry alone in the log.
LEMMA SpawnErrorKept ==
    ASSUME IInv, RouteInv, SpawnErrorInv, [StreamNext]_allVars
    PROVE  SpawnErrorInv'
<1> SUFFICES ASSUME exit' = "unspawned"
             PROVE  /\ Len(job'.log) <= 1
                    /\ \A i \in 1..Len(job'.log) : job'.log[i] = SpawnErrorEntry
  BY DEF SpawnErrorInv
<1>1. CASE OnError
  BY <1>1, SpawnErrorEntryAlone
<1>2. CASE RouteStartsJob
  BY <1>2 DEF RouteStartsJob, RouteInv, SpawnThrows
<1>3. CASE OnData
  <2>1. exit = "unspawned" /\ read < written
    BY <1>3 DEF OnData
  <2>2. QED
    BY <2>1 DEF IInv, ControlInv, TypeOK
<1>4. CASE OnClose
  <2>1. exit = "unspawned" /\ job'.log = job.log
    BY <1>4 DEF OnClose, IInv, TypeOK
  <2>2. QED
    BY <2>1 DEF SpawnErrorInv
<1>5. CASE ArtifactsPublished
  <2>1. exit = "unspawned" /\ job'.log = job.log
    BY <1>5 DEF ArtifactsPublished, IInv, TypeOK
  <2>2. QED
    BY <2>1 DEF SpawnErrorInv
<1>6. CASE ChildExits
  BY <1>6 DEF ChildExits
<1>7. CASE UNCHANGED <<job, exit>>
  BY <1>7 DEF SpawnErrorInv
<1>8. QED
  <2>1. CASE ServerStep
    BY <1>1, <1>3, <1>4, <1>5, <1>7, <2>1 DEF ServerStep, ChildCallback,
       RouteResponds, PublishJobEvent, ListenerPublishesArtifacts, ArtifactsPublished
  <2>2. CASE Environment
    BY <1>6, <1>7, <2>2 DEF Environment, ChildStep, ChildWrites
  <2>3. CASE PanelStep \/ ConnectionBreaks
    BY <1>7, <2>3 DEF PanelStep, OpenStream, OnSnapshot, OnStreamEvent, Reconnect,
       ConnectionBreaks, runnerVars
  <2>4. CASE ViewStep \/ LogViewBreaks \/ UNCHANGED allVars
    BY <1>7, <2>4 DEF ViewStep, OpenLogView, OnLogViewEvent, LogViewBreaks, allVars,
       runnerVars
  <2>5. QED
    BY <1>2, <2>1, <2>2, <2>3, <2>4 DEF StreamNext

-----------------------------------------------------------------------------
(* Types of the pages and their streams. *)

PanelType == [status : Statuses, stage : Stages, logs : Seq(1..MaxChunks),
              artifacts : BOOLEAN]

\* A growing record of events leaves every cursor within it.
LEMMA CursorsStay ==
    ASSUME TypeOK, TypeOK', StreamTypeOK, Growth, UNCHANGED <<conn, view>>
    PROVE  /\ conn' \in [state : ConnStates, snap : Statuses \cup {"sent"},
                         artifacts : BOOLEAN, next : 1..(Len(emitted') + 1)]
           /\ view' \in [state : {"none", "open", "ended", "failed"},
                         lines : Seq(LogEntries), next : 1..(Len(emitted') + 1)]
<1>1. /\ Len(emitted) \in Nat /\ Len(emitted') \in Nat
      /\ Len(emitted) <= Len(emitted')
  BY DEF TypeOK, Growth, Kept
<1>2. \A c \in 1..(Len(emitted) + 1) : c \in 1..(Len(emitted') + 1)
  BY <1>1
<1>3. QED
  BY <1>2 DEF StreamTypeOK

\* Where a closed or retried stream starts over.
LEMMA FreshConn ==
    ASSUME TypeOK, NEW s \in ConnStates
    PROVE  [NoConn EXCEPT !.state = s] \in
             [state : {s}, snap : {"absent"}, artifacts : {FALSE}, next : {1}]
  BY DEF NoConn

\* What a listener of the panel makes of an event.
LEMMA ShowType ==
    ASSUME TypeOK, StreamTypeOK, NEW e \in Events
    PROVE  Show(e) \in PanelType
<1>0. panel \in PanelType
  BY DEF StreamTypeOK, PanelType
<1>1. CASE e.type = "log"
  <2>1. e.chunk \in 1..MaxChunks
    BY <1>1 DEF Events
  <2>2. Append(panel.logs, e.chunk) \in Seq(1..MaxChunks)
    BY <1>0, <2>1 DEF PanelType
  <2>3. Show(e) = [panel EXCEPT !.logs = Append(@, e.chunk)]
    BY <1>1 DEF Show
  <2>4. QED
    BY <1>0, <2>2, <2>3 DEF PanelType
<1>2. CASE e.type = "published"
  BY <1>0, <1>2 DEF Show, PanelType
<1>3. CASE e.type = "finished"
  <2>1. e.status \in Statuses
    BY <1>3 DEF Events, Statuses
  <2>2. Show(e) = [status |-> e.status,
                   stage |-> IF e.status = "succeeded" THEN "completed" ELSE "failed",
                   logs |-> panel.logs, artifacts |-> panel.artifacts]
    BY <1>0, <1>3 DEF Show, PanelType
  <2>3. QED
    BY <1>0, <2>1, <2>2 DEF PanelType, Stages
<1>4. CASE e.type \notin {"log", "published", "finished"}
  BY <1>0, <1>4 DEF Show
<1>5. QED
  BY <1>1, <1>2, <1>3, <1>4

\* Every step keeps the panel's type.
LEMMA PanelTypeKept ==
    ASSUME IInv, StreamTypeOK, RouteInv, [StreamNext]_allVars
    PROVE  panel' \in PanelType
<1>0. panel \in PanelType /\ TypeOK
  BY DEF StreamTypeOK, PanelType, IInv
<1>1. CASE RouteResponds
  <2> DEFINE st == IF job.status \in Active THEN "queued"
                   ELSE IF job.status = "failed" THEN "failed" ELSE "completed"
  <2>1. st \in Stages /\ job.status \in Statuses
    BY <1>0 DEF Stages, TypeOK
  <2>2. panel' = [status |-> job.status, stage |-> st,
                  logs |-> panel.logs, artifacts |-> panel.artifacts]
    BY <1>0, <1>1 DEF RouteResponds, PanelType
  <2> HIDE DEF st
  <2>3. QED
    BY <1>0, <2>1, <2>2 DEF PanelType
<1>2. CASE OnSnapshot
  <2>1. conn.snap \in Statuses /\ DeriveStage(conn.snap) \in Stages
    BY <1>2 DEF OnSnapshot, StreamTypeOK, DeriveStage, Stages
  <2>2. panel' = [status |-> conn.snap, stage |-> DeriveStage(conn.snap),
                  logs |-> panel.logs,
                  artifacts |-> (panel.artifacts \/ conn.artifacts)]
    BY <1>0, <1>2 DEF OnSnapshot, PanelType
  <2>3. (panel.artifacts \/ conn.artifacts) \in BOOLEAN
    OBVIOUS
  <2>4. QED
    BY <1>0, <2>1, <2>2, <2>3 DEF PanelType
<1>3. CASE OnStreamEvent
  <2>1. emitted[conn.next] \in Events
    BY <1>0, <1>3 DEF OnStreamEvent, StreamTypeOK, TypeOK
  <2>2. QED
    BY <1>0, <1>3, <2>1, ShowType DEF OnStreamEvent
<1>4. CASE UNCHANGED panel
  BY <1>0, <1>4
<1>5. QED
  BY <1>1, <1>2, <1>3, <1>4 DEF StreamNext, RouteStartsJob, ServerStep,
     ChildCallback, ListenerPublishesArtifacts, Environment, streamVars, PanelStep,
     OpenStream, Reconnect, ConnectionBreaks, ViewStep, OpenLogView,
     OnLogViewEvent, LogViewBreaks, allVars

ConnType == [state : ConnStates, snap : Statuses \cup {"sent"},
             artifacts : BOOLEAN, next : 1..(Len(emitted) + 1)]

\* A stream that is not open rests at the start of the record.
LEMMA RestingConn ==
    ASSUME TypeOK, NEW s \in ConnStates
    PROVE  [NoConn EXCEPT !.state = s] \in ConnType
<1>1. 1 \in 1..(Len(emitted) + 1)
  BY DEF TypeOK
<1>2. QED
  BY <1>1, FreshConn DEF ConnType, Statuses

\* A step of the panel or a broken connection keeps the connection's type.
LEMMA ConnTypeStep ==
    ASSUME IInv, StreamTypeOK, RouteInv, PanelStep \/ ConnectionBreaks
    PROVE  conn' \in ConnType
<1>0. /\ TypeOK /\ conn \in ConnType /\ emitted \in Seq(Events)
      /\ Len(emitted) \in Nat
  BY DEF IInv, TypeOK, StreamTypeOK, ConnType
<1>a. \A status : AfterError(status) \in ConnType
  <2> TAKE status
  <2>1. (IF status \in Active THEN "retrying" ELSE "closed") \in ConnStates
    BY DEF ConnStates
  <2>2. QED
    BY <1>0, <2>1, RestingConn DEF AfterError
<1>1. CASE OpenStream
  <2>1. /\ Len(emitted) + 1 \in 1..(Len(emitted) + 1)
        /\ job.status \in Statuses /\ ("artifacts" \in job.meta) \in BOOLEAN
    BY <1>0 DEF TypeOK
  <2>2. QED
    BY <1>1, <2>1 DEF OpenStream, ConnType, ConnStates
<1>2. CASE OnSnapshot
  BY <1>0, <1>2 DEF OnSnapshot, ConnType
<1>3. CASE OnStreamEvent
  <2> DEFINE e == emitted[conn.next]
  <2>1. conn.next \in 1..Len(emitted) /\ conn.next + 1 \in 1..(Len(emitted) + 1)
    BY <1>0, <1>3 DEF OnStreamEvent, ConnType
  <2>2. [conn EXCEPT !.next = @ + 1] \in ConnType
    BY <1>0, <2>1 DEF ConnType
  <2>3. [NoConn EXCEPT !.state = "closed"] \in ConnType
    BY <1>0, RestingConn DEF ConnStates
  <2>4. conn' = React(e)
    BY <1>3 DEF OnStreamEvent
  <2> HIDE DEF e
  <2>5. QED
    BY <1>a, <2>2, <2>3, <2>4 DEF React
<1>4. CASE Reconnect
  <2>1. (IF panel.status \in Active THEN "connecting" ELSE "closed") \in ConnStates
    BY DEF ConnStates
  <2>2. QED
    BY <1>0, <1>4, <2>1, RestingConn DEF Reconnect
<1>5. CASE ConnectionBreaks
  BY <1>a, <1>5 DEF ConnectionBreaks
<1>6. QED
  BY <1>1, <1>2, <1>3, <1>4, <1>5 DEF PanelStep

ViewType == [state : {"none", "open", "ended", "failed"}, lines : Seq(LogEntries),
             next : 1..(Len(emitted) + 1)]

\* A step of the log view keeps its type.
LEMMA ViewTypeStep ==
    ASSUME IInv, StreamTypeOK, ViewStep \/ LogViewBreaks
    PROVE  view' \in ViewType
<1>0. /\ view \in ViewType /\ emitted \in Seq(Events) /\ Len(emitted) \in Nat
      /\ job.log \in Seq(LogEntries)
  BY DEF IInv, TypeOK, StreamTypeOK, ViewType
<1>1. CASE OpenLogView
  <2>1. Len(emitted) + 1 \in 1..(Len(emitted) + 1)
    BY <1>0
  <2>2. QED
    BY <1>0, <1>1, <2>1 DEF OpenLogView, ViewType
<1>2. CASE OnLogViewEvent
  <2> DEFINE e == emitted[view.next]
             st == IF e.type = "finished" THEN "ended" ELSE "open"
             ls == IF e.type = "log" THEN Append(view.lines, e.chunk) ELSE view.lines
  <2>1. view.next \in 1..Len(emitted) /\ view.next + 1 \in 1..(Len(emitted) + 1)
    BY <1>0, <1>2 DEF OnLogViewEvent, ViewType
  <2>2. e \in Events /\ view.lines \in Seq(LogEntries)
    BY <1>0, <2>1 DEF ViewType
  <2>3. e.type = "log" => e.chunk \in LogEntries
    BY <2>2, MaxChunksAssumption DEF Events, LogEntries
  <2>4. st \in {"none", "open", "ended", "failed"} /\ ls \in Seq(LogEntries)
    BY <2>2, <2>3
  <2>5. view' = [state |-> st, lines |-> ls, next |-> view.next + 1]
    BY <1>2 DEF OnLogViewEvent
  <2> HIDE DEF st, ls, e
  <2>6. QED
    BY <2>1, <2>4, <2>5 DEF ViewType
<1>3. CASE LogViewBreaks
  BY <1>0, <1>3 DEF LogViewBreaks, ViewType
<1>4. QED
  BY <1>1, <1>2, <1>3 DEF ViewStep

\* Every step keeps the types of route and pages.
LEMMA StreamTypeKept ==
    ASSUME IInv, IInv', StreamTypeOK, RouteInv, Growth, [StreamNext]_allVars
    PROVE  StreamTypeOK'
<1>0. TypeOK /\ TypeOK' /\ Len(emitted') \in Nat
  BY DEF IInv, TypeOK
<1> DEFINE CT == [state : ConnStates, snap : Statuses \cup {"sent"},
                  artifacts : BOOLEAN, next : 1..(Len(emitted') + 1)]
           VT == [state : {"none", "open", "ended", "failed"},
                  lines : Seq(LogEntries), next : 1..(Len(emitted') + 1)]
<1>1. panel' \in PanelType
  BY PanelTypeKept
<1>2. route' \in RouteStates
  BY DEF StreamTypeOK, RouteStates, StreamNext, RouteStartsJob, ServerStep,
     ChildCallback, Listener, RouteResponds, ListenerPublishesArtifacts,
     Environment, streamVars, PanelStep, OpenStream, OnSnapshot, OnStreamEvent,
     Reconnect, ConnectionBreaks, ViewStep, OpenLogView, OnLogViewEvent,
     LogViewBreaks, allVars
<1>3. drops' \in 0..MaxDrops
  BY MaxDropsAssumption DEF StreamTypeOK, StreamNext, RouteStartsJob, ServerStep,
     ChildCallback, RouteResponds, ListenerPublishesArtifacts, Environment,
     streamVars, PanelStep, OpenStream, OnSnapshot, OnStreamEvent, Reconnect,
     ConnectionBreaks, ViewStep, OpenLogView, OnLogViewEvent, LogViewBreaks, allVars
<1>4. conn' \in CT /\ view' \in VT
  <2>1. CASE UNCHANGED <<conn, view>>
    BY <1>0, <2>1, CursorsStay
  <2>2. CASE PanelStep \/ ConnectionBreaks
    <3>1. emitted' = emitted /\ view' = view
      BY <2>2 DEF PanelStep, OpenStream, OnSnapshot, OnStreamEvent, Reconnect,
         ConnectionBreaks, runnerVars
    <3>2. conn' \in ConnType
      BY <2>2, ConnTypeStep
    <3>3. QED
      BY <3>1, <3>2 DEF ConnType, StreamTypeOK
  <2>3. CASE ViewStep \/ LogViewBreaks
    <3>1. emitted' = emitted /\ conn' = conn
      BY <2>3 DEF ViewStep, OpenLogView, OnLogViewEvent, LogViewBreaks, runnerVars
    <3>2. view' \in ViewType
      BY <2>3, ViewTypeStep
    <3>3. QED
      BY <3>1, <3>2 DEF ViewType, StreamTypeOK
  <2>4. CASE RouteResponds
    <3>1. "connecting" \in ConnStates
      BY DEF ConnStates
    <3>2. conn' \in [state : {"connecting"}, snap : {"absent"},
                     artifacts : {FALSE}, next : {1}]
      BY <1>0, <2>4, <3>1, FreshConn DEF RouteResponds
    <3>3. conn' \in CT
      <4>1. 1 \in 1..(Len(emitted') + 1) /\ "absent" \in Statuses
        BY <1>0 DEF Statuses
      <4>2. QED
        BY <3>1, <3>2, <4>1
    <3>4. /\ view' = view /\ Len(emitted) \in Nat /\ Len(emitted) <= Len(emitted')
      BY <1>0, <2>4 DEF RouteResponds, Growth, Kept, TypeOK
    <3>5. \A c \in 1..(Len(emitted) + 1) : c \in 1..(Len(emitted') + 1)
      BY <1>0, <3>4
    <3>6. view' \in VT
      BY <3>4, <3>5 DEF StreamTypeOK
    <3>7. QED
      BY <3>3, <3>6
  <2>5. QED
    BY <2>1, <2>2, <2>3, <2>4 DEF StreamNext, RouteStartsJob, ServerStep,
       ChildCallback, ListenerPublishesArtifacts, Environment, streamVars, allVars
<1>5. QED
  BY <1>1, <1>2, <1>3, <1>4 DEF StreamTypeOK, PanelType

-----------------------------------------------------------------------------
(* The panel. *)

\* A log event's chunk has been read, and is no chunk of a later event.
LEMMA ChunkFacts ==
    ASSUME TypeOK, EventLog, NEW i \in 1..Len(emitted), IsLog(emitted[i])
    PROVE  /\ emitted[i].chunk \in 1..read
           /\ \A k \in (i + 1)..Len(emitted) :
                 IsLog(emitted[k]) => emitted[i].chunk < emitted[k].chunk
<1>1. Len(emitted) \in Nat /\ \A k \in (i + 1)..Len(emitted) :
         k \in 1..Len(emitted) /\ i < k
  BY DEF TypeOK
<1>2. QED
  BY <1>1 DEF EventLog, ChunksRead, ChunksInOrder

\* What a sequence holds is of its type.
LEMMA ElementOf ==
    ASSUME NEW S, NEW s \in Seq(S)
    PROVE  \A i \in 1..Len(s) : s[i] \in S
  OBVIOUS

\* What a growing record of events leaves true of a panel that sees nothing of
\* it yet.
LEMMA PanelWaits ==
    ASSUME TypeOK, StreamTypeOK, Growth, PanelInv, ConnInv,
           job.status \in Terminal => job'.status = job.status,
           UNCHANGED <<panel, conn>>
    PROVE  PanelInv' /\ ConnInv'
<1>0. /\ Len(emitted) \in Nat /\ read \in Nat /\ panel.logs \in Seq(1..MaxChunks)
      /\ conn.next \in 1..(Len(emitted) + 1) /\ read' \in Nat /\ read <= read'
  BY DEF TypeOK, StreamTypeOK, Growth, Silent, Output
<1>1. \A i \in 1..Len(panel.logs) : panel.logs[i] \in Int /\ panel.logs[i] <= read
  <2>1. \A i \in 1..Len(panel.logs) : panel.logs[i] \in 1..MaxChunks
    BY <1>0, ElementOf
  <2>2. QED
    BY <2>1, MaxChunksAssumption DEF PanelInv
<1>2. PanelInv'
  BY <1>0, <1>1 DEF PanelInv
<1>3. CASE conn.state = "open"
  <2>1. /\ conn.snap \in Terminal => conn.snap = job'.status
        /\ \A k \in conn.next..Len(emitted) : ~IsStage(emitted[k])
    BY <1>3 DEF ConnInv
  <2>2. \A k \in (Len(emitted) + 1)..Len(emitted') : ~IsStage(emitted'[k])
    BY <1>3 DEF Growth, NoStage
  <2>3. ASSUME NEW k \in conn.next..Len(emitted')
        PROVE  \/ k \in conn.next..Len(emitted) /\ emitted'[k] = emitted[k]
               \/ k \in (Len(emitted) + 1)..Len(emitted')
    BY <1>0 DEF Growth, Kept
  <2>4. \A k \in conn.next..Len(emitted') : ~IsStage(emitted'[k])
    BY <2>1, <2>2, <2>3
  <2>5. ASSUME NEW k \in conn.next..Len(emitted'), NEW i \in 1..Len(panel.logs),
               IsLog(emitted'[k])
        PROVE  panel.logs[i] < emitted'[k].chunk
    <3>1. CASE k \in conn.next..Len(emitted) /\ emitted'[k] = emitted[k]
      BY <1>3, <2>5, <3>1 DEF ConnInv
    <3>2. CASE k \in (Len(emitted) + 1)..Len(emitted')
      <4>1. ~Silent
        BY <2>5, <3>2 DEF Silent
      <4>2. Output
        BY <4>1 DEF Growth
      <4>3. k = Len(emitted) + 1 /\ emitted'[k].chunk = read + 1
        BY <1>0, <3>2, <4>2 DEF Output
      <4>4. QED
        BY <1>0, <1>1, <4>3
    <3>3. QED
      BY <2>3, <3>1, <3>2
  <2>6. QED
    BY <1>2, <1>3, <2>1, <2>4, <2>5 DEF ConnInv, IsStage, IsLog
<1>4. CASE conn.state # "open"
  BY <1>2, <1>4 DEF ConnInv
<1>5. QED
  BY <1>3, <1>4

\* The end a panel has been shown stays the job's.
LEMMA EndStaysShown ==
    ASSUME ShownEndIsTheJobs, UNCHANGED panel,
           job.status \in Terminal => job'.status = job.status
    PROVE  ShownEndIsTheJobs'
  BY DEF ShownEndIsTheJobs

PanelSafe == PanelInv /\ ConnInv /\ PanelLogsInOrder /\ ShownEndIsTheJobs

\* A stream that is not open says nothing of the events to come.
LEMMA PanelUnread ==
    ASSUME PanelSafe, UNCHANGED <<runnerVars, panel>>, conn'.state # "open"
    PROVE  PanelSafe'
  BY DEF PanelSafe, PanelInv, ConnInv, PanelLogsInOrder, ShownEndIsTheJobs,
     runnerVars

\* A connection put aside is not open.
LEMMA ClosingNotOpen ==
    ASSUME NEW s \in {"retrying", "closed", "connecting"}
    PROVE  [NoConn EXCEPT !.state = s].state # "open"
  BY DEF NoConn

\* After an error the connection is not open.
LEMMA ErrorNotOpen ==
    ASSUME NEW status
    PROVE  AfterError(status).state # "open"
  BY ClosingNotOpen DEF AfterError

\* The snapshot: its status is an end only if it is the job's.
LEMMA SnapshotSafe ==
    ASSUME IInv, StreamTypeOK, PanelSafe, OnSnapshot
    PROVE  PanelSafe'
<1>1. /\ panel'.status = conn.snap /\ panel'.stage = DeriveStage(conn.snap)
      /\ panel'.logs = panel.logs
      /\ UNCHANGED <<job, read, emitted>>
  BY DEF OnSnapshot, StreamTypeOK, runnerVars
<1>2. conn.state = "open" /\ conn'.snap = "sent" /\ conn'.next = conn.next
      /\ conn'.state = "open"
  BY DEF OnSnapshot, StreamTypeOK
<1>3. PanelInv' /\ PanelLogsInOrder'
  BY <1>1 DEF PanelSafe, PanelInv, PanelLogsInOrder
<1>4. ConnInv'
  BY <1>1, <1>2 DEF PanelSafe, ConnInv, Terminal, IsStage, IsLog
<1>5. conn.snap \in Terminal => conn.snap = job.status
  BY <1>2 DEF PanelSafe, ConnInv
<1>6. ShownEndIsTheJobs'
  BY <1>1, <1>5 DEF ShownEndIsTheJobs, DeriveStage, Terminal
<1>7. QED
  BY <1>3, <1>4, <1>6 DEF PanelSafe

\* The next log event appends a chunk the panel does not have.
LEMMA OutputShown ==
    ASSUME IInv, StreamTypeOK, EventLog, PanelSafe, OnStreamEvent,
           IsLog(emitted[conn.next])
    PROVE  PanelSafe'
<1> DEFINE n == conn.next
           c == emitted[n].chunk
           m == Len(panel.logs)
<1>0. /\ Len(emitted) \in Nat /\ n \in 1..Len(emitted) /\ read \in Nat
      /\ conn.state = "open" /\ conn.snap = "sent"
      /\ panel.logs \in Seq(1..MaxChunks) /\ m \in Nat
  BY DEF IInv, TypeOK, StreamTypeOK, OnStreamEvent
<1>1. /\ c \in 1..read
      /\ \A k \in (n + 1)..Len(emitted) :
            IsLog(emitted[k]) => c < emitted[k].chunk
  BY <1>0, ChunkFacts DEF IInv
<1>2. panel' = [panel EXCEPT !.logs = Append(@, c)]
  BY DEF OnStreamEvent, Show, IsLog
<1>3. /\ panel'.logs = Append(panel.logs, c)
      /\ panel'.status = panel.status /\ panel'.stage = panel.stage
  BY <1>2 DEF StreamTypeOK
<1>4. conn'.state = "open" /\ conn'.snap = "sent" /\ conn'.next = n + 1
  BY <1>0 DEF OnStreamEvent, React, IsLog, StreamTypeOK
<1>5. UNCHANGED <<job, read, emitted>>
  BY DEF OnStreamEvent, runnerVars
<1>6. \A i \in 1..m : panel.logs[i] \in Int /\ panel.logs[i] <= read
                      /\ panel.logs[i] < c
  <2>1. \A i \in 1..m : panel.logs[i] \in 1..MaxChunks
    BY <1>0, ElementOf
  <2>2. \A i \in 1..m : panel.logs[i] <= read
    BY DEF PanelSafe, PanelInv
  <2>3. n \in n..Len(emitted)
    BY <1>0
  <2>4. \A i \in 1..m : panel.logs[i] < c
    BY <1>0, <2>3 DEF PanelSafe, ConnInv
  <2>5. QED
    BY <2>1, <2>2, <2>4, MaxChunksAssumption
<1>a. \A i \in 1..m, k \in n..Len(emitted) :
         IsLog(emitted[k]) => panel.logs[i] < emitted[k].chunk
  BY <1>0 DEF PanelSafe, ConnInv
<1>b. \A k \in n..Len(emitted) : ~IsStage(emitted[k])
  BY <1>0 DEF PanelSafe, ConnInv
<1>c. \A i, k \in 1..m : i < k => panel.logs[i] < panel.logs[k]
  BY DEF PanelSafe, PanelLogsInOrder
<1> HIDE DEF c, m, n
<1>7. /\ Len(panel'.logs) = m + 1 /\ panel'.logs[m + 1] = c
      /\ \A i \in 1..m : panel'.logs[i] = panel.logs[i]
  BY <1>0, <1>3 DEF m
<1>8. \A i \in 1..(m + 1) : i = m + 1 \/ i \in 1..m
  BY <1>0
<1>9. PanelInv'
  <2>1. c <= read
    BY <1>0, <1>1
  <2>2. \A i \in 1..(m + 1) : panel'.logs[i] <= read
    BY <1>6, <1>7, <1>8, <2>1
  <2>3. QED
    BY <1>5, <1>7, <2>2 DEF PanelInv
<1>10. PanelLogsInOrder'
  <2> SUFFICES ASSUME NEW i \in 1..(m + 1), NEW k \in 1..(m + 1), i < k
               PROVE  panel'.logs[i] < panel'.logs[k]
    BY <1>7 DEF PanelLogsInOrder
  <2>1. i \in 1..m
    BY <1>0
  <2>2. QED
    BY <1>6, <1>7, <1>8, <1>c, <2>1
<1>11. ConnInv'
  <2>1. \A k \in (n + 1)..Len(emitted) : k \in n..Len(emitted)
    BY <1>0
  <2>2. \A k \in (n + 1)..Len(emitted) : ~IsStage(emitted[k])
    BY <1>b, <2>1
  <2>3. ASSUME NEW k \in (n + 1)..Len(emitted), NEW i \in 1..(m + 1),
               IsLog(emitted[k])
        PROVE  panel'.logs[i] < emitted[k].chunk
    BY <1>1, <1>7, <1>8, <1>a, <2>1, <2>3
  <2>4. "sent" \notin Terminal
    BY DEF Terminal
  <2>5. QED
    BY <1>4, <1>5, <1>7, <2>2, <2>3, <2>4 DEF ConnInv, IsStage, IsLog
<1>12. ShownEndIsTheJobs'
  BY <1>3, <1>5 DEF PanelSafe, ShownEndIsTheJobs
<1>13. QED
  BY <1>9, <1>10, <1>11, <1>12 DEF PanelSafe

\* Any other event leaves the panel's log alone, and shows an end only if it
\* is the end every 'finished' event carries.
LEMMA OtherEventShown ==
    ASSUME IInv, StreamTypeOK, PanelSafe, OnStreamEvent,
           ~IsLog(emitted[conn.next])
    PROVE  PanelSafe'
<1> DEFINE e == emitted[conn.next]
<1>0. /\ Len(emitted) \in Nat /\ conn.next \in 1..Len(emitted)
      /\ conn.state = "open" /\ conn.snap = "sent" /\ e \in Events
      /\ UNCHANGED <<job, read, emitted>>
      /\ panel \in PanelType
  BY DEF IInv, TypeOK, StreamTypeOK, OnStreamEvent, runnerVars, PanelType
<1>1. panel' = Show(e) /\ conn' = React(e) /\ ~IsLog(e)
  BY DEF OnStreamEvent
<1>2. ~IsStage(e)
  BY <1>0 DEF PanelSafe, ConnInv
<1>3. e.type = "finished" => e.status = job.status /\ e.status \in Terminal
  BY <1>0 DEF IInv, NothingAfterTheEnd, Finished, Events
<1> HIDE DEF e
<1>4. panel'.logs = panel.logs
  BY <1>0, <1>1 DEF Show, IsLog, PanelType
<1>5. ShownEndIsTheJobs'
  <2>1. CASE e.type = "finished"
    <3>1. /\ panel'.status = e.status
          /\ panel'.stage = IF e.status = "succeeded" THEN "completed" ELSE "failed"
      BY <1>0, <1>1, <2>1 DEF Show, PanelType
    <3>2. QED
      BY <1>0, <1>3, <2>1, <3>1 DEF ShownEndIsTheJobs, Terminal
  <2>2. CASE e.type # "finished"
    <3>1. panel'.status = panel.status /\ panel'.stage = panel.stage
      BY <1>0, <1>1, <1>2, <2>2 DEF Show, PanelType, IsLog, IsStage
    <3>2. QED
      BY <1>0, <3>1 DEF PanelSafe, ShownEndIsTheJobs
  <2>3. QED
    BY <2>1, <2>2
<1>6. PanelInv' /\ PanelLogsInOrder'
  BY <1>0, <1>4 DEF PanelSafe, PanelInv, PanelLogsInOrder
<1>7. ConnInv'
  <2>1. CASE e.type \in {"finished", "error"}
    <3>1. conn'.state # "open"
      BY <1>1, <2>1, ClosingNotOpen, ErrorNotOpen DEF React
    <3>2. QED
      BY <3>1 DEF ConnInv
  <2>2. CASE e.type \notin {"finished", "error"}
    <3>1. conn' = [conn EXCEPT !.next = @ + 1]
      BY <1>1, <2>2 DEF React
    <3>2. conn'.snap = "sent" /\ conn'.next = conn.next + 1
      BY <1>0, <3>1 DEF StreamTypeOK
    <3>3. \A k \in (conn.next + 1)..Len(emitted) : k \in conn.next..Len(emitted)
      BY <1>0
    <3>4. QED
      BY <1>0, <1>4, <3>2, <3>3 DEF PanelSafe, ConnInv, Terminal, IsStage, IsLog
  <2>3. QED
    BY <2>1, <2>2
<1>8. QED
  BY <1>5, <1>6, <1>7 DEF PanelSafe

\* Every step keeps the panel's invariant.
LEMMA PanelKept ==
    ASSUME IInv, StreamTypeOK, EventLog, RouteInv, PanelSafe, Growth,
           [StreamNext]_allVars,
           job.status \in Terminal => job'.status = job.status
    PROVE  PanelSafe'
<1>0. TypeOK
  BY DEF IInv
<1>1. CASE UNCHANGED <<panel, conn>>
  <2>1. PanelInv' /\ ConnInv'
    BY <1>0, <1>1, PanelWaits DEF PanelSafe
  <2>2. ShownEndIsTheJobs'
    BY <1>1, EndStaysShown DEF PanelSafe
  <2>3. PanelLogsInOrder'
    BY <1>1 DEF PanelSafe, PanelLogsInOrder
  <2>4. QED
    BY <2>1, <2>2, <2>3 DEF PanelSafe
<1>2. CASE RouteResponds
  <2> DEFINE st == IF job.status \in Active THEN "queued"
                   ELSE IF job.status = "failed" THEN "failed" ELSE "completed"
  <2>1. /\ panel'.status = job.status /\ panel'.stage = st
        /\ panel'.logs = panel.logs
        /\ UNCHANGED <<job, read>> /\ job.status # "absent"
    BY <1>2 DEF RouteResponds, PublishJobEvent, StreamTypeOK
  <2>2. conn'.state # "open"
    BY <1>2, ClosingNotOpen DEF RouteResponds
  <2>3. PanelInv' /\ PanelLogsInOrder' /\ ConnInv'
    BY <2>1, <2>2 DEF PanelSafe, PanelInv, PanelLogsInOrder, ConnInv
  <2>4. /\ st = "completed" <=> job.status = "succeeded"
        /\ st = "failed" <=> job.status = "failed"
    BY <1>0, <2>1 DEF TypeOK, Statuses, Terminal, Active
  <2>5. ShownEndIsTheJobs'
    BY <2>1, <2>4 DEF ShownEndIsTheJobs
  <2>6. QED
    BY <2>3, <2>5 DEF PanelSafe
<1>3. CASE OpenStream
  <2>1. /\ conn'.snap = job.status /\ conn'.next = Len(emitted) + 1
        /\ UNCHANGED <<job, read, emitted, panel>> /\ Len(emitted) \in Nat
    BY <1>0, <1>3 DEF OpenStream, runnerVars, TypeOK
  <2>2. \A k \in (Len(emitted) + 1)..Len(emitted) : FALSE
    BY <2>1
  <2>3. ConnInv'
    BY <2>1, <2>2 DEF ConnInv
  <2>4. QED
    BY <2>1, <2>3 DEF PanelSafe, PanelInv, PanelLogsInOrder, ShownEndIsTheJobs
<1>4. CASE OnSnapshot
  BY <1>4, SnapshotSafe
<1>5. CASE OnStreamEvent
  BY <1>5, OutputShown, OtherEventShown
<1>6. CASE Reconnect
  <2>1. conn'.state # "open"
    BY <1>6, ClosingNotOpen DEF Reconnect
  <2>2. QED
    BY <1>6, <2>1, PanelUnread DEF Reconnect
<1>7. CASE ConnectionBreaks
  <2>1. conn'.state # "open"
    BY <1>7, ErrorNotOpen DEF ConnectionBreaks
  <2>2. QED
    BY <1>7, <2>1, PanelUnread DEF ConnectionBreaks
<1>8. QED
  BY <1>1, <1>2, <1>3, <1>4, <1>5, <1>6, <1>7 DEF StreamNext, RouteStartsJob,
     ServerStep, ChildCallback, ListenerPublishesArtifacts, Environment,
     streamVars, PanelStep, ViewStep, OpenLogView, OnLogViewEvent, LogViewBreaks,
     allVars

-----------------------------------------------------------------------------
(* The log view. *)

ViewSafe == LinesInv /\ CursorInv /\ EndedInv

\* The last line of a non-empty view, and that it is a number.
LEMMA SeenType ==
    ASSUME StreamTypeOK
    PROVE  /\ Seen \in Nat
           /\ view.lines \in Seq(LogEntries) /\ Len(view.lines) \in Nat
           /\ view.lines # <<>> <=> Len(view.lines) # 0
<1>1. /\ view.lines \in Seq(LogEntries) /\ Len(view.lines) \in Nat
      /\ view.lines # <<>> <=> Len(view.lines) # 0
  BY DEF StreamTypeOK
<1>2. view.lines # <<>> => view.lines[Len(view.lines)] \in LogEntries
  BY <1>1
<1>3. Seen \in Nat
  BY <1>2, MaxChunksAssumption DEF Seen, LogEntries
<1>4. QED
  BY <1>1, <1>3

\* A verdict stops the reading.
LEMMA ReadingStops ==
    ASSUME IInv, Growth, job.status \in Terminal
    PROVE  read' = read
<1>1. read = written /\ read \in Nat
  BY VerdictMeansDrained DEF IInv, TypeOK
<1>2. QED
  BY <1>1 DEF Growth, Silent, Output

\* What a growing record leaves true of a view that has not read it yet.
LEMMA ViewWaits ==
    ASSUME IInv, StreamTypeOK, Growth, ViewSafe,
           job.status \in Terminal => job'.status = job.status,
           UNCHANGED view
    PROVE  ViewSafe'
<1>0. /\ Len(emitted) \in Nat /\ read \in Nat /\ read' \in Nat /\ read <= read'
      /\ view.next \in 1..(Len(emitted) + 1)
  BY DEF IInv, TypeOK, StreamTypeOK, Growth, Silent, Output
<1>1. Seen' = Seen /\ Seen \in Nat
  BY SeenType DEF Seen
<1>2. Seen <= read
  BY DEF ViewSafe, LinesInv
<1>3. LinesInv'
  <2>1. Seen' <= read'
    BY <1>0, <1>1, <1>2
  <2>2. QED
    BY <2>1 DEF ViewSafe, LinesInv
<1>4. CursorInv'
  <2> SUFFICES ASSUME view.state = "open", NEW k \in 1..Len(emitted'),
                      IsLog(emitted'[k])
               PROVE  k < view.next <=> emitted'[k].chunk <= Seen
    BY <1>1 DEF CursorInv, IsLog
  <2>1. CASE k \in 1..Len(emitted)
    <3>1. emitted'[k] = emitted[k]
      BY <2>1 DEF Growth, Kept
    <3>2. QED
      BY <2>1, <3>1 DEF ViewSafe, CursorInv
  <2>2. CASE k \notin 1..Len(emitted)
    <3>1. k \in (Len(emitted) + 1)..Len(emitted')
      BY <1>0, <2>2
    <3>2. Output
      BY <3>1 DEF Growth, Silent
    <3>3. k = Len(emitted) + 1 /\ emitted'[k].chunk = read + 1
      BY <1>0, <3>1, <3>2 DEF Output
    <3>4. QED
      BY <1>0, <1>1, <1>2, <3>3
  <2>3. QED
    BY <2>1, <2>2
<1>5. EndedInv'
  <2> SUFFICES ASSUME view.state = "ended"
               PROVE  job'.status \in Terminal /\ Seen' = read'
    BY DEF EndedInv
  <2>1. job.status \in Terminal /\ Seen = read
    BY DEF ViewSafe, EndedInv
  <2>2. QED
    BY <1>1, <2>1, ReadingStops
<1>6. QED
  BY <1>3, <1>4, <1>5 DEF ViewSafe

\* What the view starts from: the table's log ends at the last chunk read, or
\* is the spawn error alone, when there is no output.
LEMMA LogEnd ==
    ASSUME IInv, SpawnErrorInv
    PROVE  /\ (IF job.log = <<>> THEN 0 ELSE job.log[Len(job.log)]) = read
           /\ \A i \in 1..(Len(job.log) - 1) : job.log[i + 1] = job.log[i] + 1
<1> DEFINE n == Len(job.log)
<1>0. /\ job.log \in Seq(LogEntries) /\ n \in Nat /\ read \in Nat
      /\ job.log = <<>> <=> n = 0
  BY DEF IInv, TypeOK
<1>1. CASE exit = "unspawned"
  <2>1. read = 0
    BY <1>1 DEF IInv, ControlInv, TypeOK
  <2>2. n <= 1 /\ \A i \in 1..n : job.log[i] = 0
    BY <1>1 DEF SpawnErrorInv, SpawnErrorEntry
  <2> HIDE DEF n
  <2>3. n = 0 \/ (n = 1 /\ job.log[1] = 0)
    BY <1>0, <2>2
  <2>4. \A i \in 1..(n - 1) : FALSE
    BY <1>0, <2>2
  <2>5. (IF job.log = <<>> THEN 0 ELSE job.log[n]) = read
    BY <1>0, <2>1, <2>3
  <2>6. QED
    BY <2>4, <2>5 DEF n
<1>2. CASE exit # "unspawned"
  <2>1. /\ \A i \in 1..n : job.log[i] = read - n + i
        /\ n = (IF read < MaxLog THEN read ELSE MaxLog)
    BY <1>2 DEF IInv, LogIsRecentOutput
  <2> HIDE DEF n
  <2>2. n = 0 => read = 0
    BY <1>0, <2>1, MaxLogAssumption, KeepsSomeLog
  <2>3. n # 0 => job.log[n] = read
    BY <1>0, <2>1
  <2>4. \A i \in 1..(n - 1) : job.log[i + 1] = job.log[i] + 1
    <3> SUFFICES ASSUME NEW i \in 1..(n - 1)
                 PROVE  job.log[i + 1] = job.log[i] + 1
      OBVIOUS
    <3>1. i \in 1..n /\ i + 1 \in 1..n
      BY <1>0
    <3>2. job.log[i] = read - n + i /\ job.log[i + 1] = read - n + (i + 1)
      BY <2>1, <3>1
    <3>3. QED
      BY <1>0, <3>1, <3>2
  <2>5. QED
    BY <1>0, <2>2, <2>3, <2>4 DEF n
<1>3. QED
  BY <1>1, <1>2

\* The snapshot of a log view is what lies before its cursor.
LEMMA ViewOpens ==
    ASSUME IInv, StreamTypeOK, EventLog, SpawnErrorInv, ViewSafe, OpenLogView
    PROVE  ViewSafe'
<1>1. /\ view' = [state |-> "open", lines |-> job.log, next |-> Len(emitted) + 1]
      /\ UNCHANGED <<job, read, emitted>>
  BY DEF OpenLogView, runnerVars
<1>2. view'.state = "open" /\ view'.lines = job.log /\ view'.next = Len(emitted) + 1
  BY <1>1
<1>3. Seen' = read /\ read \in Nat
  BY <1>2, LogEnd DEF Seen, IInv, TypeOK
<1>4. LinesInv'
  <2>1. \A i \in 1..(Len(job.log) - 1) : job.log[i + 1] = job.log[i] + 1
    BY LogEnd
  <2>2. Seen' <= read'
    BY <1>1, <1>3
  <2>3. QED
    BY <1>2, <2>1, <2>2 DEF LinesInv
<1>5. CursorInv'
  <2> SUFFICES ASSUME NEW k \in 1..Len(emitted), IsLog(emitted[k])
               PROVE  k < Len(emitted) + 1 <=> emitted[k].chunk <= read
    BY <1>1, <1>2, <1>3 DEF CursorInv, IsLog
  <2>1. emitted[k].chunk \in 1..read
    BY DEF EventLog, ChunksRead
  <2>2. k < Len(emitted) + 1 /\ Len(emitted) \in Nat
    BY DEF IInv, TypeOK
  <2>3. QED
    BY <1>3, <2>1, <2>2
<1>6. EndedInv'
  BY <1>2 DEF EndedInv
<1>7. QED
  BY <1>4, <1>5, <1>6 DEF ViewSafe

\* The next chunk of an open view is the one after the last it shows.
LEMMA NextChunk ==
    ASSUME IInv, StreamTypeOK, EventLog, ViewSafe, view.state = "open",
           view.next <= Len(emitted), IsLog(emitted[view.next])
    PROVE  emitted[view.next].chunk = Seen + 1
<1> DEFINE n == view.next
           c == emitted[n].chunk
<1>0. /\ Len(emitted) \in Nat /\ n \in 1..Len(emitted) /\ read \in Nat
      /\ Seen \in Nat
  BY SeenType DEF IInv, TypeOK, StreamTypeOK
<1>1. c \in 1..read /\ \A k \in (n + 1)..Len(emitted) :
                           IsLog(emitted[k]) => c < emitted[k].chunk
  BY <1>0, ChunkFacts DEF IInv
<1>2. ~(c <= Seen)
  BY <1>0 DEF ViewSafe, CursorInv
<1>3. SUFFICES ASSUME c # Seen + 1 PROVE FALSE
  OBVIOUS
<1>4. c - 1 \in 1..read /\ ~(c - 1 <= Seen)
  BY <1>0, <1>1, <1>2, <1>3
<1>5. PICK k \in 1..Len(emitted) : IsLog(emitted[k]) /\ emitted[k].chunk = c - 1
  BY <1>4 DEF EventLog, ChunksComplete
<1>6. ~(k < n)
  BY <1>4, <1>5 DEF ViewSafe, CursorInv
<1>7. k # n
  BY <1>0, <1>1, <1>5
<1>8. k \in (n + 1)..Len(emitted)
  BY <1>0, <1>6, <1>7
<1>9. c < c - 1
  BY <1>1, <1>5, <1>8
<1>10. QED
  BY <1>0, <1>1, <1>9

\* A chunk the view reads is the next one after its last line.
LEMMA ViewShowsOutput ==
    ASSUME IInv, StreamTypeOK, EventLog, ViewSafe, OnLogViewEvent,
           IsLog(emitted[view.next])
    PROVE  ViewSafe'
<1> DEFINE n == view.next
           c == emitted[n].chunk
           m == Len(view.lines)
<1>0. /\ Len(emitted) \in Nat /\ n \in 1..Len(emitted) /\ read \in Nat
      /\ Seen \in Nat /\ view.lines \in Seq(LogEntries) /\ m \in Nat
      /\ view.lines # <<>> <=> m # 0
      /\ UNCHANGED <<job, read, emitted>>
  BY SeenType DEF IInv, TypeOK, StreamTypeOK, OnLogViewEvent, runnerVars
<1>1. c = Seen + 1
  BY NextChunk DEF OnLogViewEvent
<1>2. /\ c \in 1..read
      /\ \A k \in (n + 1)..Len(emitted) :
            IsLog(emitted[k]) => c < emitted[k].chunk
  BY <1>0, ChunkFacts DEF IInv
<1>3. /\ view'.state = "open" /\ view'.next = n + 1
      /\ view'.lines = Append(view.lines, c)
  BY DEF OnLogViewEvent, IsLog
<1>a. \A i \in 1..(m - 1) : view.lines[i + 1] = view.lines[i] + 1
  BY DEF ViewSafe, LinesInv
<1>b. m # 0 => view.lines[m] = Seen
  BY <1>0 DEF Seen
<1>c. \A k \in 1..Len(emitted) :
         IsLog(emitted[k]) => (k < n <=> emitted[k].chunk <= Seen)
  BY DEF ViewSafe, CursorInv, OnLogViewEvent
<1>d. \A k \in 1..Len(emitted) : IsLog(emitted[k]) => emitted[k].chunk \in 1..read
  BY DEF EventLog, ChunksRead
<1>e. IsLog(emitted[n])
  OBVIOUS
<1>f. \A k \in 1..Len(emitted) :
         k < n /\ IsLog(emitted[k]) => emitted[k].chunk < c
  BY <1>0, <1>1, <1>c, <1>d
<1>4. Len(view'.lines) = m + 1 /\ view'.lines[m + 1] = c
      /\ \A i \in 1..m : view'.lines[i] = view.lines[i]
  BY <1>0, <1>3
<1>5. Seen' = c
  <2>1. view'.lines # <<>>
    BY <1>0, <1>3
  <2>2. QED
    BY <1>4, <2>1 DEF Seen
<1> HIDE DEF c, m, n
<1>6. LinesInv'
  <2>1. ASSUME NEW i \in 1..((m + 1) - 1)
        PROVE  view'.lines[i + 1] = view'.lines[i] + 1
    <3>1. CASE i = m
      BY <1>0, <1>1, <1>4, <1>b, <3>1
    <3>2. CASE i # m
      <4>1. i \in 1..(m - 1) /\ i \in 1..m /\ i + 1 \in 1..m
        BY <1>0, <3>2
      <4>2. QED
        BY <1>4, <1>a, <4>1
    <3>3. QED
      BY <3>1, <3>2
  <2>2. Seen' <= read'
    BY <1>0, <1>2, <1>5
  <2>3. QED
    BY <1>3, <1>4, <2>1, <2>2 DEF LinesInv
<1>7. CursorInv'
  <2> SUFFICES ASSUME NEW k \in 1..Len(emitted), IsLog(emitted[k])
               PROVE  k < n + 1 <=> emitted[k].chunk <= c
    BY <1>0, <1>3, <1>5 DEF CursorInv, IsLog
  <2>0. emitted[k].chunk \in Int /\ c \in Int
    BY <1>2, <1>d, <1>0
  <2>1. CASE k < n
    BY <1>0, <1>f, <2>0, <2>1
  <2>2. CASE k = n
    BY <1>0, <2>0, <2>2 DEF c
  <2>3. CASE k > n
    <3>1. k \in (n + 1)..Len(emitted)
      BY <1>0, <2>3
    <3>2. QED
      BY <1>0, <1>2, <2>0, <2>3, <3>1
  <2>4. QED
    BY <1>0, <2>1, <2>2, <2>3
<1>8. EndedInv'
  BY <1>3 DEF EndedInv
<1>9. QED
  BY <1>6, <1>7, <1>8 DEF ViewSafe

\* Nothing follows the end: a view that is told it has seen everything read.
LEMMA EndSeesAll ==
    ASSUME IInv, StreamTypeOK, EventLog, ViewSafe, view.state = "open",
           view.next <= Len(emitted), Finished(emitted[view.next])
    PROVE  job.status \in Terminal /\ Seen = read
<1> DEFINE n == view.next
<1>0. /\ Len(emitted) \in Nat /\ n \in 1..Len(emitted) /\ read \in Nat
      /\ Seen \in Nat /\ Seen <= read
  BY SeenType DEF IInv, TypeOK, StreamTypeOK, ViewSafe, LinesInv
<1>1. job.status \in Terminal
  BY <1>0 DEF IInv, QuietBeforeEnd
<1>2. \A k \in n..Len(emitted) :
         emitted[k].type \in {"finished", "metadata", "published"}
  BY <1>0 DEF IInv, NothingAfterTheEnd
<1>3. SUFFICES ASSUME Seen # read PROVE FALSE
  BY <1>1
<1>4. read \in 1..read /\ ~(read <= Seen)
  BY <1>0, <1>3
<1>5. PICK k \in 1..Len(emitted) : IsLog(emitted[k]) /\ emitted[k].chunk = read
  BY <1>4 DEF EventLog, ChunksComplete
<1>6. ~(k < n)
  BY <1>4, <1>5 DEF ViewSafe, CursorInv
<1>7. k \in n..Len(emitted)
  BY <1>0, <1>6
<1>8. QED
  BY <1>2, <1>5, <1>7 DEF IsLog

\* Any other event leaves the lines as they are.
LEMMA ViewSkipsEvent ==
    ASSUME IInv, StreamTypeOK, EventLog, ViewSafe, OnLogViewEvent,
           ~IsLog(emitted[view.next])
    PROVE  ViewSafe'
<1> DEFINE n == view.next
<1>0. /\ Len(emitted) \in Nat /\ n \in 1..Len(emitted)
      /\ UNCHANGED <<job, read, emitted>>
      /\ view.state = "open"
  BY DEF IInv, TypeOK, StreamTypeOK, OnLogViewEvent, runnerVars
<1>1. /\ view'.next = n + 1 /\ view'.lines = view.lines
      /\ view'.state = IF Finished(emitted[n]) THEN "ended" ELSE "open"
  BY DEF OnLogViewEvent, IsLog, Finished
<1>2. Seen' = Seen
  BY <1>1 DEF Seen
<1>3. LinesInv'
  BY <1>0, <1>1, <1>2 DEF ViewSafe, LinesInv
<1>4. CursorInv'
  <2> SUFFICES ASSUME NEW k \in 1..Len(emitted), IsLog(emitted[k])
               PROVE  k < n + 1 <=> emitted[k].chunk <= Seen
    BY <1>0, <1>1, <1>2 DEF CursorInv, IsLog
  <2>1. k # n
    OBVIOUS
  <2>2. k < n <=> emitted[k].chunk <= Seen
    BY <1>0 DEF ViewSafe, CursorInv
  <2>3. QED
    BY <1>0, <2>1, <2>2
<1>5. EndedInv'
  <2>1. Finished(emitted[n]) => job.status \in Terminal /\ Seen = read
    BY <1>0, EndSeesAll
  <2>2. QED
    BY <1>0, <1>1, <1>2, <2>1 DEF EndedInv
<1>6. QED
  BY <1>3, <1>4, <1>5 DEF ViewSafe

\* Every step keeps the log view's invariant.
LEMMA ViewKept ==
    ASSUME IInv, StreamTypeOK, EventLog, SpawnErrorInv, ViewSafe, Growth,
           [StreamNext]_allVars,
           job.status \in Terminal => job'.status = job.status
    PROVE  ViewSafe'
<1>1. CASE UNCHANGED view
  BY <1>1, ViewWaits
<1>2. CASE OpenLogView
  BY <1>2, ViewOpens
<1>3. CASE OnLogViewEvent
  BY <1>3, ViewShowsOutput, ViewSkipsEvent
<1>4. CASE LogViewBreaks
  <2>1. /\ view'.state = "failed" /\ view'.lines = view.lines
        /\ UNCHANGED <<job, read, emitted>>
    BY <1>4 DEF LogViewBreaks, StreamTypeOK, runnerVars
  <2>2. Seen' = Seen
    BY <2>1 DEF Seen
  <2>3. QED
    BY <2>1, <2>2 DEF ViewSafe, LinesInv, CursorInv, EndedInv
<1>5. QED
  BY <1>1, <1>2, <1>3, <1>4 DEF StreamNext, RouteStartsJob, ServerStep,
     ChildCallback, RouteResponds, ListenerPublishesArtifacts, Environment,
     streamVars, PanelStep, OpenStream, OnSnapshot, OnStreamEvent, Reconnect,
     ConnectionBreaks, ViewStep, allVars

-----------------------------------------------------------------------------
\* The first state of the composition satisfies its invariant.
LEMMA StreamInitIInv == StreamInit => StreamIInv
<1> SUFFICES ASSUME StreamInit PROVE StreamIInv
  OBVIOUS
<1>1. IInv /\ emitted = <<>> /\ read = 0 /\ job.status = "absent" /\ exit = "none"
  BY InitIInv DEF StreamInit, Init, Entry
<1>2. StreamTypeOK
  BY <1>1, MaxDropsAssumption DEF StreamInit, StreamTypeOK, RouteStates, Statuses,
     Stages, NoConn, ConnStates
<1>3. EventLog
  BY <1>1 DEF EventLog, ChunksRead, ChunksInOrder, ChunksComplete
<1>4. RouteInv /\ SpawnErrorInv
  BY <1>1 DEF RouteInv, SpawnErrorInv, StreamInit, NoConn
<1>5. PanelInv /\ ConnInv /\ PanelLogsInOrder /\ ShownEndIsTheJobs
  BY DEF StreamInit, PanelInv, ConnInv, PanelLogsInOrder, ShownEndIsTheJobs,
     NoConn, Terminal
<1>6. LinesInv /\ CursorInv /\ EndedInv
  BY <1>1 DEF StreamInit, LinesInv, CursorInv, EndedInv, Seen
<1>7. QED
  BY <1>1, <1>2, <1>3, <1>4, <1>5, <1>6 DEF StreamIInv

\* Every step of the composition keeps its invariant.
LEMMA StreamInductive == StreamIInv /\ [StreamNext]_allVars => StreamIInv'
<1> SUFFICES ASSUME StreamIInv, [StreamNext]_allVars PROVE StreamIInv'
  OBVIOUS
<1>0. /\ IInv /\ TypeOK /\ StreamTypeOK /\ EventLog /\ RouteInv /\ SpawnErrorInv
      /\ PanelSafe /\ ViewSafe
  BY DEF StreamIInv, IInv, PanelSafe, ViewSafe
<1>1. IInv' /\ (job.status \in Terminal => job'.status = job.status)
  BY <1>0, RunnerKept
<1>2. Growth
  BY <1>0, EventsGrow
<1>3. StreamTypeOK'
  BY <1>0, <1>1, <1>2, StreamTypeKept
<1>4. EventLog'
  BY <1>0, <1>2, EventLogKept
<1>5. RouteInv' /\ SpawnErrorInv'
  BY <1>0, <1>2, RouteKept, SpawnErrorKept
<1>6. PanelSafe'
  BY <1>0, <1>1, <1>2, PanelKept
<1>7. ViewSafe'
  BY <1>0, <1>1, <1>2, ViewKept
<1>8. QED
  BY <1>1, <1>3, <1>4, <1>5, <1>6, <1>7 DEF StreamIInv, PanelSafe, ViewSafe

\* The conjunction of the invariants above is one.
THEOREM StreamInvariance == StreamSpec => []StreamIInv
  BY StreamInitIInv, StreamInductive, PTL DEF StreamSpec

\* Whatever connections break, the panel's log is in the order of the output
\* and shows no chunk twice (index.mjs:2131).
THEOREM PanelShowsLogsInOrder == StreamSpec => []PanelLogsInOrder
  BY StreamInvariance, PTL DEF StreamIInv

\* The end the panel shows is the end of the job, on every path it can learn it
\* from, and its stage agrees (DatasetImportPanel.tsx, index.mjs:2131).
THEOREM PanelShowsTheEnd == StreamSpec => []ShownEndIsTheJobs
  BY StreamInvariance, PTL DEF StreamIInv

\* The log view has no gap and no repetition, and one that was told the end has
\* every chunk (index.mjs:2174).
THEOREM LogViewHasEverything == StreamSpec => []LogViewIsComplete
<1>1. StreamIInv => LogViewIsComplete
  BY DEF StreamIInv, LinesInv, EndedInv, Seen, LogViewIsComplete
<1>2. QED
  BY <1>1, StreamInvariance, PTL

\* The runner keeps its promises to the streams: with the route and its listener
\* in the same process, the log is still the most recent output and nothing
\* but news of its callers follows the end (job-runner.js:27, index.mjs:2026).
THEOREM LogIsRecentBehindTheStreams ==
    StreamSpec => [](LogIsRecentOutput /\ NothingAfterTheEnd)
  BY StreamInvariance, PTL DEF StreamIInv, IInv

\* A verdict is final although the route's listener updates the ended job
\* (job-runner.js:169, index.mjs:2026).
THEOREM VerdictFinalBehindTheStreams == StreamSpec => VerdictIsFinal
<1>1. StreamIInv /\ [StreamNext]_allVars
         => [job.status \in Terminal => job'.status = job.status]_runnerVars
  BY RunnerKept DEF StreamIInv
<1>2. QED
  BY <1>1, StreamInvariance, PTL DEF StreamSpec, VerdictIsFinal

\* The system composed of runner, route, streams and pages still implements the
\* abstract life cycle of a job.
THEOREM StreamsImplementLifecycle == StreamSpec => ImplementsLifecycle
<1>1. StreamIInv /\ [StreamNext]_allVars
         => [Lifecycle!Next]_Lifecycle!lifecycleVars
  BY RunnerKept DEF StreamIInv
<1>2. StreamInit => Lifecycle!Init
  BY LifecycleInit DEF StreamInit
<1>3. QED
  BY <1>1, <1>2, StreamInvariance, PTL DEF StreamSpec, ImplementsLifecycle, Lifecycle!Spec

=============================================================================
