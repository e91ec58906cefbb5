-------------------------- MODULE HilStore_proofs --------------------------
(***************************************************************************)
(* Proofs about HilStore.  For any number of overlapping requests, crashes *)
(* and failing writes: the types, that a broken file stays broken, and     *)
(* that the audit log tells the truth.  From any moment of rest on, for    *)
(* requests that do not overlap: the store takes the steps of the ledger.  *)
(***************************************************************************)
EXTENDS HilStore, SequenceTheorems, FiniteSetTheorems, TLAPS

-----------------------------------------------------------------------------
(* Types: what each file may hold, and what a request is about to write.   *)

Values(f) ==
    IF f = "approvals" THEN Standings
    ELSE IF f = "audit" THEN {s \in Seq(Entries) : Len(s) <= AuditLimit}
    ELSE Seq(Requests)

Holds(f, state) ==
    state \in {Missing, Truncated, Garbled} \/ \E v \in Values(f) : state = Whole(v)

DiskInv ==
    /\ disk = [f \in Files |-> disk[f]]
    /\ \A f \in Files : Holds(f, disk[f])

CopyInv ==
    \A r \in Requests : at[r] \in {"opening", "writing"} => copy[r] \in Values(file[r])

RequestTypes ==
    /\ input \in [Requests -> Inputs]
    /\ at \in [Requests -> Places]
    /\ file \in [Requests -> Files]
    /\ previous \in [Requests -> Decisions \cup {NoDecision}]
    /\ copy = [r \in Requests |-> copy[r]]
    /\ answer \in [Requests -> Answers]
    /\ crashes \in 0..MaxCrashes

HilTypeInv == DiskInv /\ CopyInv /\ RequestTypes

\* Whatever a whole file holds, the newest entries of it with one in front are
\* within the limit.
LEMMA NewestType ==
    ASSUME NEW S, NEW e \in S, NEW log \in Seq(S), NEW limit \in Nat
    PROVE  /\ Newest(<<e>> \o log, limit) \in Seq(S)
           /\ Len(Newest(<<e>> \o log, limit)) <= limit
<1> DEFINE long == <<e>> \o log
           n == IF Len(long) < limit THEN Len(long) ELSE limit
<1>1. <<e>> \in Seq(S)
  OBVIOUS
<1>2. long \in Seq(S)
  BY <1>1, ConcatProperties
<1> HIDE DEF long
<1>3. n \in Nat /\ n <= Len(long) /\ n <= limit
  BY <1>2
<1>4. \A i \in 1..n : long[i] \in S
  BY <1>2, <1>3
<1> HIDE DEF n
<1>5. SubSeq(long, 1, n) \in Seq(S) /\ Len(SubSeq(long, 1, n)) = (IF 1 <= n THEN n - 1 + 1 ELSE 0)
  BY <1>3, <1>4, SubSeqProperties
<1>6. Len(SubSeq(long, 1, n)) <= limit
  BY <1>3, <1>5
<1> QED
  BY <1>5, <1>6 DEF long, n, Newest

\* What a readable file reads as.
LEMMA LoadedType ==
    ASSUME DiskInv, NEW f \in Files, Readable(disk[f])
    PROVE  Loaded(f) \in Values(f)
<1>1. Holds(f, disk[f])
  BY DEF DiskInv
<1>2. CASE disk[f] = Missing
  <2>1. Loaded(f) = Fallback(f)
    BY <1>2 DEF Loaded, Content, Missing
  <2>2. CASE f = "approvals"
    BY <2>1, <2>2 DEF Fallback, Values, Standings
  <2>3. CASE f = "audit"
    <3>1. <<>> \in Seq(Entries) /\ Len(<<>>) <= AuditLimit
      BY LimitsAssumption
    <3> QED
      BY <2>1, <2>3, <3>1 DEF Fallback, Values
  <2>4. CASE f = "activity"
    <3>1. <<>> \in Seq(Requests)
      OBVIOUS
    <3> QED
      BY <2>1, <2>4, <3>1 DEF Fallback, Values
  <2> QED
    BY <2>2, <2>3, <2>4 DEF Files
<1>3. ASSUME NEW v \in Values(f), disk[f] = Whole(v) PROVE Loaded(f) \in Values(f)
  BY <1>3 DEF Loaded, Content, Whole
<1> QED
  BY <1>1, <1>2, <1>3 DEF Holds, Readable, Truncated, Garbled

\* What a request makes of a file it could read is a value of that file.
LEMMA RevisedType ==
    ASSUME DiskInv, RequestTypes, NEW r \in Requests, Readable(disk[file[r]])
    PROVE  Revised(r, file[r]) \in Values(file[r])
<1>0. file[r] \in Files /\ input[r] \in Inputs /\ previous[r] \in Decisions \cup {NoDecision}
  BY DEF RequestTypes
<1>l. Loaded(file[r]) \in Values(file[r])
  BY <1>0, LoadedType
<1>1. CASE file[r] = "approvals"
  BY <1>0, <1>l, <1>1 DEF Revised, Values, Standings, Inputs
<1>2. CASE file[r] = "audit"
  <2>1. Entry(r) \in Entries
    BY <1>0 DEF Entry, Entries, Inputs
  <2>2. Loaded("audit") \in Seq(Entries)
    BY <1>l, <1>2 DEF Values
  <2>3. /\ Newest(<<Entry(r)>> \o Loaded("audit"), AuditLimit) \in Seq(Entries)
        /\ Len(Newest(<<Entry(r)>> \o Loaded("audit"), AuditLimit)) <= AuditLimit
    BY <2>1, <2>2, LimitsAssumption, NewestType
  <2>4. Revised(r, file[r]) = Newest(<<Entry(r)>> \o Loaded("audit"), AuditLimit)
    BY <1>2 DEF Revised
  <2> QED
    BY <1>2, <2>3, <2>4 DEF Values
<1>3. CASE file[r] = "activity"
  <2>1. Loaded("activity") \in Seq(Requests)
    BY <1>l, <1>3 DEF Values
  <2>2. Newest(<<r>> \o Loaded("activity"), ActivityLimit) \in Seq(Requests)
    BY <2>1, LimitsAssumption, NewestType
  <2>3. Revised(r, file[r]) = Newest(<<r>> \o Loaded("activity"), ActivityLimit)
    BY <1>3 DEF Revised
  <2> QED
    BY <1>3, <2>2, <2>3 DEF Values
<1> QED
  BY <1>0, <1>1, <1>2, <1>3 DEF Files

\* A file is replaced by a state it may have.
LEMMA ReplacedType ==
    ASSUME DiskInv, NEW f \in Files, NEW state, Holds(f, state),
           disk' = [disk EXCEPT ![f] = state]
    PROVE  DiskInv'
<1>1. disk' = [g \in Files |-> disk'[g]]
  BY DEF DiskInv
<1>2. ASSUME NEW g \in Files PROVE Holds(g, disk'[g])
  <2>1. CASE g = f
    <3>1. disk'[g] = state
      BY <2>1 DEF DiskInv
    <3> QED
      BY <2>1, <3>1
  <2>2. CASE g # f
    <3>1. disk'[g] = disk[g]
      BY <2>2 DEF DiskInv
    <3> QED
      BY <3>1 DEF DiskInv
  <2> QED
    BY <2>1, <2>2
<1>3. (\A g \in Files : Holds(g, disk[g]))'
  BY <1>2 DEF Holds, Values, Standings, Entries
<1> QED
  BY <1>1, <1>3 DEF DiskInv

\* A write, complete or interrupted, leaves something the file may hold.
LEMMA WrittenType ==
    ASSUME NEW f \in Files, NEW v \in Values(f), NEW state, NEW new \in Written(state, v)
    PROVE  Holds(f, new)
BY DEF Written, Holds

\* The parts of a request that leaves the handler.
LEMMA AbandonType ==
    ASSUME RequestTypes, CopyInv, NEW r \in Requests, Abandon(r),
           UNCHANGED <<input, file, crashes>>
    PROVE  RequestTypes' /\ CopyInv'
<1>1. /\ at' \in [Requests -> Places] /\ answer' \in [Requests -> Answers]
      /\ previous' \in [Requests -> Decisions \cup {NoDecision}]
      /\ copy' = [s \in Requests |-> copy'[s]]
  BY DEF Abandon, Forget, RequestTypes, Places, Answers
<1>2. ASSUME NEW s \in Requests, at'[s] \in {"opening", "writing"} PROVE copy'[s] \in Values(file'[s])
  <2>1. s # r /\ at'[s] = at[s]
    BY <1>2 DEF Abandon, RequestTypes
  <2>2. copy'[s] = copy[s]
    BY <2>1 DEF Abandon, Forget, RequestTypes
  <2> QED
    BY <1>2, <2>1, <2>2 DEF CopyInv
<1>3. CopyInv'
  BY <1>2 DEF CopyInv, Values, Standings, Entries
<1> QED
  BY <1>1, <1>3 DEF RequestTypes

\* Every step keeps the types and the limits of the files.
LEMMA HilTypeStep ==
    ASSUME HilTypeInv, [Next]_vars
    PROVE  HilTypeInv'
<1> USE DEF HilTypeInv
<1>d. ASSUME UNCHANGED disk PROVE DiskInv'
  BY <1>d DEF DiskInv, Holds, Values, Standings, Entries
<1>c. ASSUME NEW r \in Requests, UNCHANGED <<copy, file>>,
             \A s \in Requests \ {r} : at'[s] = at[s],
             at'[r] \in {"opening", "writing"} => at[r] \in {"opening", "writing"}
      PROVE  CopyInv'
  <2>1. ASSUME NEW s \in Requests, at'[s] \in {"opening", "writing"} PROVE copy[s] \in Values(file[s])
    BY <1>c, <2>1 DEF CopyInv
  <2> QED
    BY <1>c, <2>1 DEF CopyInv, Values, Standings, Entries
<1>1. ASSUME NEW r \in Requests, Submit(r) PROVE HilTypeInv'
  <2>1. RequestTypes' /\ UNCHANGED <<disk, copy, file>>
    BY <1>1 DEF Submit, RequestTypes, Places
  <2>2. at'[r] = "reading" /\ \A s \in Requests \ {r} : at'[s] = at[s]
    BY <1>1 DEF Submit, RequestTypes
  <2> QED
    BY <2>1, <2>2, <1>d, <1>c
<1>2. ASSUME NEW r \in Requests, Read(r) PROVE HilTypeInv'
  <2>1. DiskInv'
    BY <1>2, <1>d DEF Read
  <2>2. CASE Readable(disk[file[r]])
    <3>1. /\ at' = [at EXCEPT ![r] = "opening"]
          /\ copy' = [copy EXCEPT ![r] = Revised(r, file[r])]
          /\ UNCHANGED <<input, file, crashes, answer>>
      BY <1>2, <2>2 DEF Read
    <3>2. previous' \in [Requests -> Decisions \cup {NoDecision}]
      <4>1. CASE file[r] = "approvals"
        <5>1. Loaded("approvals") \in Standings /\ input[r].run \in Runs
          BY <2>2, <4>1, LoadedType DEF Values, Files, RequestTypes, Inputs
        <5>2. Loaded("approvals")[input[r].run] \in Decisions \cup {NoDecision}
          BY <5>1 DEF Standings
        <5> QED
          BY <1>2, <2>2, <4>1, <5>2 DEF Read, RequestTypes
      <4>2. CASE file[r] # "approvals"
        BY <1>2, <2>2, <4>2 DEF Read, RequestTypes
      <4> QED
        BY <4>1, <4>2
    <3>3. RequestTypes'
      BY <3>1, <3>2 DEF RequestTypes, Places
    <3>4. ASSUME NEW s \in Requests, at'[s] \in {"opening", "writing"} PROVE copy'[s] \in Values(file[s])
      <4>1. CASE s = r
        BY <2>2, <3>1, <4>1, RevisedType DEF RequestTypes
      <4>2. CASE s # r
        BY <3>1, <3>4, <4>2 DEF RequestTypes, CopyInv
      <4> QED
        BY <4>1, <4>2
    <3>5. CopyInv'
      BY <3>1, <3>4 DEF CopyInv, Values, Standings, Entries
    <3> QED
      BY <2>1, <3>3, <3>5
  <2>3. CASE ~Readable(disk[file[r]])
    BY <1>2, <2>1, <2>3, AbandonType DEF Read
  <2> QED
    BY <2>2, <2>3
<1>3. ASSUME NEW r \in Requests, Open(r) PROVE HilTypeInv'
  <2>1. file[r] \in Files /\ Holds(file[r], Opened)
    BY DEF RequestTypes, Holds, Opened
  <2>2. disk' = [disk EXCEPT ![file[r]] = Opened]
    BY <1>3 DEF Open
  <2>3. DiskInv'
    BY <2>1, <2>2, ReplacedType
  <2>4. RequestTypes' /\ UNCHANGED <<copy, file>>
    BY <1>3 DEF Open, RequestTypes, Places
  <2>5. at[r] = "opening" /\ \A s \in Requests \ {r} : at'[s] = at[s]
    BY <1>3 DEF Open, RequestTypes
  <2> QED
    BY <2>3, <2>4, <2>5, <1>c
<1>4. ASSUME NEW r \in Requests, Write(r) PROVE HilTypeInv'
  <2>1. file[r] \in Files /\ copy[r] \in Values(file[r])
    BY <1>4 DEF Write, RequestTypes, CopyInv
  <2>2. PICK new \in Written(disk[file[r]], copy[r]) : disk' = [disk EXCEPT ![file[r]] = new]
    BY <1>4 DEF Write
  <2>3. DiskInv'
    BY <2>1, <2>2, WrittenType, ReplacedType
  <2>4. CASE file[r] = "activity"
    <3>1. /\ at' = [at EXCEPT ![r] = "answered"] /\ answer' = [answer EXCEPT ![r] = "201"]
          /\ Forget(r) /\ UNCHANGED <<file, input, crashes>>
      BY <1>4, <2>4 DEF Write
    <3>2. RequestTypes'
      BY <3>1 DEF Forget, RequestTypes, Places, Answers
    <3>3. ASSUME NEW s \in Requests, at'[s] \in {"opening", "writing"}
          PROVE  copy'[s] \in Values(file[s])
      <4>1. s # r /\ at'[s] = at[s]
        BY <3>1, <3>3 DEF RequestTypes
      <4>2. copy'[s] = copy[s]
        BY <3>1, <4>1 DEF Forget, RequestTypes
      <4> QED
        BY <3>3, <4>1, <4>2 DEF CopyInv
    <3>4. CopyInv'
      BY <3>1, <3>3 DEF CopyInv, Values, Standings, Entries
    <3> QED
      BY <2>3, <3>2, <3>4
  <2>5. CASE file[r] # "activity"
    <3>1. /\ at' = [at EXCEPT ![r] = "reading"]
          /\ file' = [file EXCEPT ![r] = NextFile(file[r])]
          /\ UNCHANGED <<previous, copy, answer, input, crashes>>
      BY <1>4, <2>5 DEF Write
    <3>2. RequestTypes'
      BY <3>1 DEF RequestTypes, Places, NextFile, Files
    <3>3. ASSUME NEW s \in Requests, at'[s] \in {"opening", "writing"}
          PROVE  copy[s] \in Values(file'[s])
      <4>1. s # r /\ at'[s] = at[s] /\ file'[s] = file[s]
        BY <3>1, <3>3 DEF RequestTypes
      <4> QED
        BY <3>3, <4>1 DEF CopyInv
    <3>4. CopyInv'
      BY <3>1, <3>3 DEF CopyInv, Values, Standings, Entries
    <3> QED
      BY <2>3, <3>2, <3>4
  <2> QED
    BY <2>4, <2>5
<1>5. ASSUME NEW r \in Requests, WriteFails(r) PROVE HilTypeInv'
  BY <1>5, <1>d, AbandonType DEF WriteFails
<1>6. CASE Crash
  <2>1. RequestTypes' /\ UNCHANGED disk
    BY <1>6, LimitsAssumption DEF Crash, RequestTypes, Places
  <2>2. ASSUME NEW s \in Requests PROVE at'[s] \notin {"opening", "writing"}
    <3>1. at'[s] = IF s \in InFlight THEN "lost" ELSE at[s]
      BY <1>6 DEF Crash
    <3> QED
      BY <3>1 DEF InFlight
  <2>3. CopyInv'
    BY <2>2 DEF CopyInv
  <2> QED
    BY <2>1, <2>3, <1>d
<1>7. CASE UNCHANGED vars
  <2>1. RequestTypes' /\ UNCHANGED disk
    BY <1>7 DEF vars, RequestTypes
  <2>2. CopyInv'
    BY <1>7 DEF vars, CopyInv, Values, Standings, Entries
  <2> QED
    BY <2>1, <2>2, <1>d
<1> QED
  BY <1>1, <1>2, <1>3, <1>4, <1>5, <1>6, <1>7 DEF Next, Handle

\* The first state satisfies the types.
LEMMA HilInitInv == Init => HilTypeInv
<1> SUFFICES ASSUME Init PROVE HilTypeInv
  OBVIOUS
<1>1. DiskInv
  BY DEF Init, DiskInv, Holds
<1>2. CopyInv
  BY DEF Init, CopyInv
<1>3. RequestTypes
  BY LimitsAssumption DEF Init, RequestTypes, Places, Files, Answers
<1> QED
  BY <1>1, <1>2, <1>3 DEF HilTypeInv

\* The invariant of the types.
THEOREM HilInvariance == Spec => []HilTypeInv
<1>1. ASSUME HilTypeInv, [Next]_vars PROVE HilTypeInv'
  BY <1>1, HilTypeStep
<1> QED
  BY HilInitInv, <1>1, PTL DEF Spec

\* What the files hold when they are whole, within the limits, and the requests.
THEOREM HilTypes == Spec => []HilTypeOK
<1>1. HilTypeInv => HilTypeOK
  <2> SUFFICES ASSUME HilTypeInv PROVE HilTypeOK
    OBVIOUS
  <2>1. DOMAIN disk = Files
    BY DEF HilTypeInv, DiskInv
  <2>2. ASSUME NEW f \in Files
        PROVE  /\ disk[f].kind \in {"missing", "truncated", "garbled", "whole"}
               /\ disk[f].kind = "whole" => disk[f].value \in Values(f)
    <3>1. Holds(f, disk[f])
      BY DEF HilTypeInv, DiskInv
    <3>2. CASE disk[f] \in {Missing, Truncated, Garbled}
      BY <3>2 DEF Missing, Truncated, Garbled
    <3>3. ASSUME NEW v \in Values(f), disk[f] = Whole(v)
          PROVE  /\ disk[f].kind \in {"missing", "truncated", "garbled", "whole"}
                 /\ disk[f].value \in Values(f)
      BY <3>3 DEF Whole
    <3> QED
      BY <3>1, <3>2, <3>3 DEF Holds
  <2>3. /\ disk["approvals"].kind = "whole" => disk["approvals"].value \in Standings
        /\ disk["audit"].kind = "whole" =>
               /\ disk["audit"].value \in Seq(Entries)
               /\ Len(disk["audit"].value) <= AuditLimit
        /\ disk["activity"].kind = "whole" => disk["activity"].value \in Seq(Requests)
    <3>1. "approvals" \in Files /\ "audit" \in Files /\ "activity" \in Files
      BY DEF Files
    <3>2. /\ Values("approvals") = Standings
          /\ Values("audit") = {s \in Seq(Entries) : Len(s) <= AuditLimit}
          /\ Values("activity") = Seq(Requests)
      BY DEF Values
    <3> QED
      BY <2>2, <3>1, <3>2
  <2>4. RequestTypes
    BY DEF HilTypeInv
  <2> QED
    BY <2>1, <2>2, <2>3, <2>4 DEF HilTypeOK, RequestTypes
<1> QED
  BY HilInvariance, <1>1, PTL

-----------------------------------------------------------------------------
(* A broken file stays broken. *)

\* A step leaves a file that does not parse as it is.
LEMMA BrokenStep ==
    ASSUME HilTypeInv, [Next]_vars, NEW f \in Files, Broken(f)
    PROVE  Broken(f)'
<1>0. /\ at \in [Requests -> Places] /\ file \in [Requests -> Files]
      /\ disk = [g \in Files |-> disk[g]]
  BY DEF HilTypeInv, RequestTypes, DiskInv
<1>1. \A r \in Requests : file[r] = f => at[r] \notin {"opening", "writing"}
  BY DEF Broken, InFlight
<1>2. ASSUME disk'[f] = disk[f],
             \A r \in Requests : at'[r] \in {"opening", "writing"} /\ file'[r] = f =>
                 at[r] \in {"opening", "writing"} /\ file[r] = f
      PROVE  Broken(f)'
  BY <1>1, <1>2 DEF Broken, InFlight
<1>3. ASSUME NEW r \in Requests, Submit(r) PROVE Broken(f)'
  BY <1>0, <1>2, <1>3 DEF Submit
<1>4. ASSUME NEW r \in Requests, Read(r) PROVE Broken(f)'
  <2>1. CASE file[r] = f
    <3>1. ~Readable(disk[f])
      BY DEF Broken, Readable
    <3>2. /\ at' = [at EXCEPT ![r] = "answered"] /\ UNCHANGED <<disk, file>>
      BY <1>4, <2>1, <3>1 DEF Read, Abandon
    <3> QED
      BY <1>0, <1>2, <3>2
  <2>2. CASE file[r] # f
    BY <1>0, <1>2, <1>4, <2>2 DEF Read, Abandon
  <2> QED
    BY <2>1, <2>2
<1>5. ASSUME NEW r \in Requests, Open(r) PROVE Broken(f)'
  <2>1. file[r] # f /\ disk'[f] = disk[f]
    BY <1>0, <1>1, <1>5 DEF Open
  <2> QED
    BY <1>0, <1>2, <1>5, <2>1 DEF Open
<1>6. ASSUME NEW r \in Requests, Write(r) PROVE Broken(f)'
  <2>1. file[r] # f /\ disk'[f] = disk[f]
    BY <1>0, <1>1, <1>6 DEF Write
  <2>2. /\ at' \in {[at EXCEPT ![r] = "answered"], [at EXCEPT ![r] = "reading"]}
        /\ file' \in {file, [file EXCEPT ![r] = NextFile(file[r])]}
    BY <1>6 DEF Write
  <2>3. \A s \in Requests : at'[s] \in {"opening", "writing"} =>
            s # r /\ at'[s] = at[s] /\ file'[s] = file[s]
    BY <1>0, <2>2
  <2> QED
    BY <1>2, <2>1, <2>3
<1>7. ASSUME NEW r \in Requests, WriteFails(r) PROVE Broken(f)'
  BY <1>0, <1>2, <1>7 DEF WriteFails, Abandon
<1>8. CASE Crash
  <2>1. \A s \in Requests : at'[s] \notin {"opening", "writing"}
    BY <1>8 DEF Crash, InFlight
  <2> QED
    BY <1>2, <1>8, <2>1 DEF Crash
<1>9. CASE UNCHANGED vars
  BY <1>2, <1>9 DEF vars
<1> QED
  BY <1>3, <1>4, <1>5, <1>6, <1>7, <1>8, <1>9 DEF Next, Handle

\* Whoever overlaps, fails or crashes: no request repairs a broken file.
THEOREM NobodyRepairs == Spec => BrokenStaysBroken
<1>1. ASSUME HilTypeInv, [Next]_vars PROVE \A f \in Files : Broken(f) => Broken(f)'
  BY <1>1, BrokenStep
<1>2. HilTypeInv /\ [Next]_vars => [\A f \in Files : Broken(f) => Broken(f)']_vars
  BY <1>1
<1> QED
  BY HilInvariance, <1>2, PTL DEF Spec, BrokenStaysBroken

-----------------------------------------------------------------------------
(* What the audit log tells is true.  An entry is made from what its       *)
(* request read, so the invariant follows a decision from the approvals    *)
(* file through the requests' copies into the audit file.                  *)

\* The requests that have written their audit entry.
Done == {r \in Requests : file[r] = "activity"}

\* A decision that a file or a copy holds for a run is one of these requests'.
From(decision, run, givers, inputs) ==
    decision = NoDecision \/ \E q \in givers : inputs[q].run = run /\ inputs[q].decision = decision

\* An entry is of a request that stored its decision, and tells what it did.
Tells(e, stored, inputs) ==
    /\ e.by \in stored
    /\ e.run = inputs[e.by].run /\ e.new = inputs[e.by].decision
    /\ From(e.previous, e.run, stored \ {e.by}, inputs)

\* No two entries of a log are of one request, and all tell the truth.
Good(log, writers, stored, inputs) ==
    /\ \A i, k \in DOMAIN log : log[i].by = log[k].by => i = k
    /\ \A i \in DOMAIN log : log[i].by \in writers /\ Tells(log[i], stored, inputs)

ApprovalsTold ==
    disk["approvals"].kind = "whole" =>
        \A run \in Runs : From(disk["approvals"].value[run], run, Stored, input)

AuditTold ==
    disk["audit"].kind = "whole" => Good(disk["audit"].value, Done, Stored, input)

Drafting(r, f) == at[r] \in {"opening", "writing"} /\ file[r] = f

CopiesTold ==
    \A r \in Requests :
        /\ Drafting(r, "approvals") =>
               \A run \in Runs : From(copy[r][run], run, Stored \cup {r}, input)
        /\ Drafting(r, "audit") => Good(copy[r], Done \cup {r}, Stored, input)

PreviousTold ==
    \A r \in Requests : From(previous[r], input[r].run, Stored \ {r}, input)

ToldInv == ApprovalsTold /\ AuditTold /\ CopiesTold /\ PreviousTold

\* With more writers and more stored decisions a good log stays good.
LEMMA GoodGrows ==
    ASSUME NEW log, NEW W, NEW V, W \subseteq V, NEW S, NEW T, S \subseteq T, NEW inputs,
           Good(log, W, S, inputs)
    PROVE  Good(log, V, T, inputs)
<1>1. ASSUME NEW e, Tells(e, S, inputs) PROVE Tells(e, T, inputs)
  BY <1>1 DEF Tells, From
<1> QED
  BY <1>1 DEF Good

\* One more true entry, of a request that has none yet, leaves a log good.
LEMMA GoodNewest ==
    ASSUME NEW e \in Entries, NEW log \in Seq(Entries), NEW W, NEW S, NEW inputs,
           Good(log, W, S, inputs), e.by \notin W, Tells(e, S, inputs)
    PROVE  Good(Newest(<<e>> \o log, AuditLimit), W \cup {e.by}, S, inputs)
<1> DEFINE long == <<e>> \o log
           n == IF Len(long) < AuditLimit THEN Len(long) ELSE AuditLimit
           V == W \cup {e.by}
<1>1. <<e>> \in Seq(Entries) /\ Len(<<e>>) = 1 /\ <<e>>[1] = e
  OBVIOUS
<1>2. /\ long \in Seq(Entries) /\ Len(long) = 1 + Len(log)
      /\ \A i \in 1..1 + Len(log) : long[i] = IF i <= 1 THEN <<e>>[i] ELSE log[i - 1]
  BY <1>1, ConcatProperties, Zenon
<1> HIDE DEF long
<1>3. long[1] = e /\ \A i \in 1..1 + Len(log) : i # 1 => i - 1 \in DOMAIN log /\ long[i] = log[i - 1]
  BY <1>1, <1>2
<1>4. \A i \in 1..1 + Len(log) : long[i].by \in V /\ Tells(long[i], S, inputs)
  BY <1>3 DEF Good
<1>5. \A i, k \in 1..1 + Len(log) : long[i].by = long[k].by => i = k
  <2> SUFFICES ASSUME NEW i \in 1..1 + Len(log), NEW k \in 1..1 + Len(log),
                      long[i].by = long[k].by
               PROVE  i = k
    OBVIOUS
  <2>1. \A j \in 1..1 + Len(log) : j # 1 => long[j].by \in W
    BY <1>3 DEF Good
  <2>2. CASE i = 1 \/ k = 1
    BY <1>3, <2>1, <2>2
  <2>3. CASE i # 1 /\ k # 1
    <3>1. i - 1 \in DOMAIN log /\ k - 1 \in DOMAIN log /\ log[i - 1].by = log[k - 1].by
      BY <1>3, <2>3
    <3>2. i - 1 = k - 1
      BY <3>1 DEF Good
    <3> QED
      BY <3>2
  <2> QED
    BY <2>2, <2>3
<1>6. n \in Nat /\ n <= 1 + Len(log) /\ \A i \in 1..n : long[i] \in Entries
  BY <1>2, LimitsAssumption
<1>7. Newest(long, AuditLimit) = SubSeq(long, 1, n)
  BY DEF Newest
<1> HIDE DEF n
<1>8. /\ SubSeq(long, 1, n) \in Seq(Entries) /\ Len(SubSeq(long, 1, n)) = n
      /\ \A i \in 1..n : SubSeq(long, 1, n)[i] = long[i]
  BY <1>6, SubSeqProperties
<1>9. DOMAIN SubSeq(long, 1, n) = 1..n /\ \A i \in 1..n : i \in 1..1 + Len(log)
  BY <1>2, <1>6, <1>8
<1>10. Good(SubSeq(long, 1, n), V, S, inputs)
  <2>1. \A i, k \in 1..n : SubSeq(long, 1, n)[i].by = SubSeq(long, 1, n)[k].by => i = k
    BY <1>5, <1>8, <1>9
  <2>2. \A i \in 1..n : SubSeq(long, 1, n)[i].by \in V /\ Tells(SubSeq(long, 1, n)[i], S, inputs)
    BY <1>4, <1>8, <1>9
  <2> HIDE DEF V
  <2> QED
    BY <1>9, <2>1, <2>2 DEF Good
<1> QED
  BY <1>7, <1>10 DEF long

\* What was stored or told once stays so.
LEMMA StoredGrows ==
    ASSUME HilTypeInv, [Next]_vars
    PROVE  input' = input /\ Stored \subseteq Stored' /\ Done \subseteq Done'
<1>0. at \in [Requests -> Places] /\ file \in [Requests -> Files]
  BY DEF HilTypeInv, RequestTypes
<1>1. ASSUME NEW r \in Requests, Submit(r) \/ Handle(r)
      PROVE  input' = input /\ file' \in {file, [file EXCEPT ![r] = NextFile(file[r])]}
  BY <1>1 DEF Submit, Handle, Read, Open, Write, WriteFails
<1>2. CASE Crash \/ UNCHANGED vars
  BY <1>2 DEF Crash, vars, Stored, Done
<1>3. ASSUME NEW r \in Requests, Submit(r) \/ Handle(r) PROVE Stored \subseteq Stored' /\ Done \subseteq Done'
  BY <1>0, <1>1, <1>3 DEF Stored, Done, NextFile
<1> QED
  BY <1>1, <1>2, <1>3 DEF Next

\* What a request makes of the file it read tells the truth as well.
LEMMA RevisedTold ==
    ASSUME HilTypeInv, ToldInv, NEW r \in Requests, Readable(disk[file[r]])
    PROVE  /\ file[r] = "approvals" =>
                  \A run \in Runs : From(Revised(r, "approvals")[run], run, Stored \cup {r}, input)
           /\ file[r] = "audit" => Good(Revised(r, "audit"), Done \cup {r}, Stored, input)
<1>0. /\ DiskInv /\ RequestTypes /\ input[r] \in Inputs /\ file[r] \in Files
      /\ previous[r] \in Decisions \cup {NoDecision}
  BY DEF HilTypeInv, RequestTypes
<1>1. ASSUME file[r] = "approvals", NEW run \in Runs
      PROVE  From(Revised(r, "approvals")[run], run, Stored \cup {r}, input)
  <2>1. Loaded("approvals") \in Standings
    BY <1>0, <1>1, LoadedType DEF Values
  <2>2. From(Loaded("approvals")[run], run, Stored, input)
    BY <1>1 DEF ToldInv, ApprovalsTold, From, Loaded, Content, Fallback
  <2>3. Revised(r, "approvals") = [Loaded("approvals") EXCEPT ![input[r].run] = input[r].decision]
    BY DEF Revised
  <2>4. CASE run = input[r].run
    BY <2>1, <2>3, <2>4 DEF From, Standings
  <2>5. CASE run # input[r].run
    <3>1. Revised(r, "approvals")[run] = Loaded("approvals")[run]
      BY <2>1, <2>3, <2>5 DEF Standings
    <3> QED
      BY <2>2, <3>1 DEF From
  <2> QED
    BY <2>4, <2>5
<1>2. ASSUME file[r] = "audit" PROVE Good(Revised(r, "audit"), Done \cup {r}, Stored, input)
  <2>1. Loaded("audit") \in Seq(Entries)
    BY <1>0, <1>2, LoadedType DEF Values
  <2>2. Entry(r) \in Entries /\ Entry(r).by = r
    BY <1>0 DEF Entry, Entries, Inputs
  <2>3. Good(Loaded("audit"), Done, Stored, input)
    <3>1. CASE disk["audit"].kind = "whole"
      BY <3>1 DEF ToldInv, AuditTold, Loaded, Content
    <3>2. CASE disk["audit"].kind # "whole"
      <4>1. Loaded("audit") = <<>> /\ DOMAIN <<>> = {}
        BY <3>2 DEF Loaded, Content, Fallback
      <4> QED
        BY <4>1 DEF Good
    <3> QED
      BY <3>1, <3>2
  <2>4. r \notin Done /\ r \in Stored
    BY <1>2 DEF Done, Stored
  <2>5. Tells(Entry(r), Stored, input)
    <3>1. From(previous[r], input[r].run, Stored \ {r}, input)
      BY DEF ToldInv, PreviousTold
    <3> QED
      BY <2>4, <3>1 DEF Tells, Entry
  <2>6. Good(Newest(<<Entry(r)>> \o Loaded("audit"), AuditLimit), Done \cup {r}, Stored, input)
    BY <2>1, <2>2, <2>3, <2>4, <2>5, GoodNewest
  <2> QED
    BY <2>6 DEF Revised
<1> QED
  BY <1>1, <1>2

\* Every step keeps the log and what leads to it true.
LEMMA ToldStep ==
    ASSUME HilTypeInv, ToldInv, [Next]_vars
    PROVE  ToldInv'
<1>0. /\ at \in [Requests -> Places] /\ file \in [Requests -> Files]
      /\ disk = [g \in Files |-> disk[g]] /\ copy = [s \in Requests |-> copy[s]]
      /\ previous = [s \in Requests |-> previous[s]]
  BY DEF HilTypeInv, RequestTypes, DiskInv
<1>f. "approvals" \in Files /\ "audit" \in Files /\ "activity" \in Files
  BY DEF Files
<1>m. input' = input /\ Stored \subseteq Stored' /\ Done \subseteq Done'
  BY StoredGrows
<1>a. ASSUME disk'["approvals"].kind = "whole" => disk'["approvals"] = disk["approvals"]
      PROVE  ApprovalsTold'
  BY <1>a, <1>m DEF ToldInv, ApprovalsTold, From
<1>l. ASSUME disk'["audit"].kind = "whole" => disk'["audit"] = disk["audit"]
      PROVE  AuditTold'
  <2> SUFFICES ASSUME disk'["audit"].kind = "whole"
               PROVE  Good(disk'["audit"].value, Done', Stored', input')
    BY DEF AuditTold
  <2>1. Good(disk["audit"].value, Done, Stored, input) /\ disk'["audit"] = disk["audit"]
    BY <1>l DEF ToldInv, AuditTold
  <2> QED
    BY <1>m, <2>1, GoodGrows
<1>c. ASSUME \A s \in Requests : at'[s] \in {"opening", "writing"} =>
                 at[s] \in {"opening", "writing"} /\ copy'[s] = copy[s] /\ file'[s] = file[s]
      PROVE  CopiesTold'
  <2>1. ASSUME NEW s \in Requests, Drafting(s, "approvals")', NEW run \in Runs
        PROVE  From(copy'[s][run], run, Stored' \cup {s}, input')
    <3>1. From(copy[s][run], run, Stored \cup {s}, input) /\ copy'[s] = copy[s]
      BY <1>c, <2>1 DEF ToldInv, CopiesTold, Drafting
    <3> QED
      BY <1>m, <3>1 DEF From
  <2>2. ASSUME NEW s \in Requests, Drafting(s, "audit")'
        PROVE  Good(copy'[s], Done' \cup {s}, Stored', input')
    <3>1. Good(copy[s], Done \cup {s}, Stored, input) /\ copy'[s] = copy[s]
      BY <1>c, <2>2 DEF ToldInv, CopiesTold, Drafting
    <3>2. Done \cup {s} \subseteq Done' \cup {s}
      BY <1>m
    <3> QED
      BY <1>m, <3>1, <3>2, GoodGrows
  <2> QED
    BY <2>1, <2>2 DEF CopiesTold
<1>p. ASSUME \A s \in Requests : previous'[s] \in {previous[s], NoDecision}
      PROVE  PreviousTold'
  <2>1. ASSUME NEW s \in Requests PROVE From(previous'[s], input'[s].run, Stored' \ {s}, input')
    <3>1. From(previous[s], input[s].run, Stored \ {s}, input)
      BY DEF ToldInv, PreviousTold
    <3> QED
      BY <1>m, <1>p, <3>1 DEF From
  <2> QED
    BY <2>1 DEF PreviousTold
<1>1. ASSUME NEW r \in Requests, Submit(r) PROVE ToldInv'
  <2>1. UNCHANGED <<disk, copy, file, previous>>
    BY <1>1 DEF Submit
  <2>2. \A s \in Requests : at'[s] \in {"opening", "writing"} => at[s] \in {"opening", "writing"}
    BY <1>0, <1>1 DEF Submit
  <2> QED
    BY <1>a, <1>l, <1>c, <1>p, <2>1, <2>2 DEF ToldInv
<1>2. ASSUME NEW r \in Requests, Abandon(r), UNCHANGED <<disk, file>> PROVE ToldInv'
  <2>1. \A s \in Requests : at'[s] \in {"opening", "writing"} => at[s] \in {"opening", "writing"} /\ copy'[s] = copy[s]
    BY <1>0, <1>2 DEF Abandon, Forget
  <2>2. \A s \in Requests : previous'[s] \in {previous[s], NoDecision}
    BY <1>0, <1>2 DEF Abandon, Forget
  <2> QED
    BY <1>2, <1>a, <1>l, <1>c, <1>p, <2>1, <2>2 DEF ToldInv
<1>3. ASSUME NEW r \in Requests, Read(r), Readable(disk[file[r]]) PROVE ToldInv'
  <2>1. /\ at' = [at EXCEPT ![r] = "opening"]
        /\ copy' = [copy EXCEPT ![r] = Revised(r, file[r])]
        /\ UNCHANGED <<disk, file, input>>
    BY <1>3 DEF Read
  <2>2. Stored' = Stored /\ Done' = Done
    BY <2>1 DEF Stored, Done
  <2>3. CopiesTold'
    <3>1. ASSUME NEW s \in Requests, Drafting(s, "approvals")', NEW run \in Runs
          PROVE  From(copy'[s][run], run, Stored' \cup {s}, input')
      <4>1. CASE s = r
        <5>1. copy'[s] = Revised(r, "approvals") /\ file[r] = "approvals"
          BY <1>0, <2>1, <3>1, <4>1 DEF Drafting
        <5> QED
          BY <1>3, <2>1, <2>2, <4>1, <5>1, RevisedTold
      <4>2. CASE s # r
        BY <1>0, <2>1, <2>2, <3>1, <4>2 DEF ToldInv, CopiesTold, Drafting
      <4> QED
        BY <4>1, <4>2
    <3>2. ASSUME NEW s \in Requests, Drafting(s, "audit")'
          PROVE  Good(copy'[s], Done' \cup {s}, Stored', input')
      <4>1. CASE s = r
        <5>1. copy'[s] = Revised(r, "audit") /\ file[r] = "audit"
          BY <1>0, <2>1, <3>2, <4>1 DEF Drafting
        <5> QED
          BY <1>3, <2>1, <2>2, <4>1, <5>1, RevisedTold
      <4>2. CASE s # r
        BY <1>0, <2>1, <2>2, <3>2, <4>2 DEF ToldInv, CopiesTold, Drafting
      <4> QED
        BY <4>1, <4>2
    <3> QED
      BY <3>1, <3>2 DEF CopiesTold
  <2>4. PreviousTold'
    <3>1. CASE file[r] = "approvals"
      <4>1. previous' = [previous EXCEPT ![r] = Loaded("approvals")[input[r].run]]
        BY <1>3, <3>1 DEF Read
      <4>2. input[r].run \in Runs
        BY DEF HilTypeInv, RequestTypes, Inputs
      <4>3. From(Loaded("approvals")[input[r].run], input[r].run, Stored, input)
        BY <4>2 DEF ToldInv, ApprovalsTold, From, Loaded, Content, Fallback
      <4>4. Stored \ {r} = Stored
        BY <3>1 DEF Stored
      <4>5. ASSUME NEW s \in Requests PROVE From(previous'[s], input'[s].run, Stored' \ {s}, input')
        <5>1. CASE s = r
          BY <1>0, <2>1, <2>2, <4>1, <4>3, <4>4, <5>1
        <5>2. CASE s # r
          BY <1>0, <2>1, <2>2, <4>1, <5>2 DEF ToldInv, PreviousTold
        <5> QED
          BY <5>1, <5>2
      <4> QED
        BY <4>5 DEF PreviousTold
    <3>2. CASE file[r] # "approvals"
      BY <1>3, <1>p, <3>2 DEF Read
    <3> QED
      BY <3>1, <3>2
  <2> QED
    BY <1>a, <1>l, <2>1, <2>3, <2>4 DEF ToldInv
<1>4. ASSUME NEW r \in Requests, Open(r) PROVE ToldInv'
  <2>1. at[r] = "opening" /\ at' = [at EXCEPT ![r] = "writing"]
        /\ disk' = [disk EXCEPT ![file[r]] = Opened] /\ UNCHANGED <<copy, file, previous>>
    BY <1>4 DEF Open
  <2>2. \A f \in Files : disk'[f].kind = "whole" => disk'[f] = disk[f]
    BY <1>0, <2>1 DEF Opened, Truncated
  <2>3. \A s \in Requests : at'[s] \in {"opening", "writing"} => at[s] \in {"opening", "writing"}
    BY <1>0, <2>1
  <2> QED
    BY <1>a, <1>l, <1>c, <1>p, <1>f, <2>1, <2>2, <2>3 DEF ToldInv
<1>5. ASSUME NEW r \in Requests, Write(r) PROVE ToldInv'
  <2>1. PICK content \in Written(disk[file[r]], copy[r]) : disk' = [disk EXCEPT ![file[r]] = content]
    BY <1>5 DEF Write
  <2>2. at[r] = "writing" /\ file[r] \in Files
    BY <1>0, <1>5 DEF Write
  <2>3. content \in {Whole(copy[r]), Garbled}
    BY <2>1 DEF Written
  <2>4. \A f \in Files : f # file[r] => disk'[f] = disk[f]
    BY <1>0, <2>1
  <2>5. disk'[file[r]].kind = "whole" => disk'[file[r]].value = copy[r]
    BY <1>0, <2>1, <2>2, <2>3 DEF Whole, Garbled
  <2>6. CopiesTold'
    <3>1. \A s \in Requests : s # r => at'[s] = at[s] /\ file'[s] = file[s] /\ copy'[s] = copy[s]
      BY <1>0, <1>5 DEF Write, Forget
    <3>2. at'[r] \in {"answered", "reading"}
      BY <1>0, <1>5 DEF Write
    <3> QED
      BY <1>c, <3>1, <3>2
  <2>7. PreviousTold'
    BY <1>0, <1>5, <1>p DEF Write, Forget
  <2>8. ApprovalsTold'
    <3>1. CASE file[r] = "approvals"
      <4>1. file' = [file EXCEPT ![r] = "audit"]
        BY <1>5, <3>1 DEF Write, NextFile
      <4>2. r \in Stored'
        BY <1>0, <4>1 DEF Stored
      <4>3. \A run \in Runs : From(copy[r][run], run, Stored \cup {r}, input)
        BY <2>2, <3>1 DEF ToldInv, CopiesTold, Drafting
      <4>4. \A run \in Runs : From(copy[r][run], run, Stored', input')
        BY <1>m, <4>2, <4>3 DEF From
      <4> QED
        BY <2>5, <3>1, <4>4 DEF ApprovalsTold
    <3>2. CASE file[r] # "approvals"
      BY <1>a, <1>f, <2>4, <3>2
    <3> QED
      BY <3>1, <3>2
  <2>9. AuditTold'
    <3>1. CASE file[r] = "audit"
      <4>1. file' = [file EXCEPT ![r] = "activity"]
        BY <1>5, <3>1 DEF Write, NextFile
      <4>2. Done \cup {r} \subseteq Done'
        BY <1>0, <1>m, <4>1 DEF Done
      <4>3. Good(copy[r], Done \cup {r}, Stored, input)
        BY <2>2, <3>1 DEF ToldInv, CopiesTold, Drafting
      <4>4. Good(copy[r], Done', Stored', input')
        BY <1>m, <4>2, <4>3, GoodGrows
      <4> QED
        BY <2>5, <3>1, <4>4 DEF AuditTold
    <3>2. CASE file[r] # "audit"
      BY <1>l, <1>f, <2>4, <3>2
    <3> QED
      BY <3>1, <3>2
  <2> QED
    BY <2>6, <2>7, <2>8, <2>9 DEF ToldInv
<1>6. CASE Crash
  <2>1. \A s \in Requests : at'[s] \notin {"opening", "writing"} /\ previous'[s] = NoDecision
    BY <1>6 DEF Crash, InFlight
  <2> QED
    BY <1>a, <1>l, <1>c, <1>p, <1>6, <2>1 DEF ToldInv, Crash
<1>7. CASE UNCHANGED vars
  BY <1>a, <1>l, <1>c, <1>p, <1>7 DEF ToldInv, vars
<1> QED
  BY <1>1, <1>2, <1>3, <1>4, <1>5, <1>6, <1>7 DEF Next, Handle, Read, WriteFails

\* For any number of requests that overlap, fail half way or die: the audit log,
\* as long as it parses, tells of no decision twice, of none that was not stored,
\* and names as replaced only what another request decided or nothing.
THEOREM AuditTellsTheTruth == Spec => []AuditIsTruthful
<1>1. Init => HilTypeInv /\ ToldInv
  <2>1. Init => ToldInv
    BY DEF Init, ToldInv, ApprovalsTold, AuditTold, CopiesTold, Drafting, PreviousTold, From,
           Missing, Files
  <2> QED
    BY <2>1, HilInitInv
<1>2. (HilTypeInv /\ ToldInv) /\ [Next]_vars => (HilTypeInv /\ ToldInv)'
  BY HilTypeStep, ToldStep
<1>3. ToldInv => AuditIsTruthful
  BY DEF ToldInv, AuditTold, AuditIsTruthful, Good, Tells, Truthful, From
<1> QED
  BY <1>1, <1>2, <1>3, PTL DEF Spec

-----------------------------------------------------------------------------
(* While one request at a time is handled and nothing fails: at most one   *)
(* file is open, and what its request is about to write follows from what  *)
(* it read.                                                                *)

\* A step of handling one request at a time: no request comes in while another
\* one is open, no write fails, nobody kills the process.
Undisturbed ==
    \E r \in Requests : (InFlight = {} /\ Submit(r)) \/ Read(r) \/ Open(r) \/ Write(r)

\* No request is open, and whatever happened before left files that parse.
Resting == InFlight = {} /\ \A f \in Files : Readable(disk[f])

Alone == \A r, s \in InFlight : r = s

Fresh == \A r \in Requests : at[r] = "idle" => file[r] = "approvals"

DiskWhole ==
    /\ \A f \in Files :
           Readable(disk[f]) \/ \E r \in Requests : at[r] = "writing" /\ file[r] = f
    /\ \A r \in Requests : at[r] = "writing" => disk[file[r]] = Opened

Drafted ==
    \A r \in Requests : file[r] = "approvals" =>
        /\ at[r] = "opening" =>
               /\ copy[r] = [Loaded("approvals") EXCEPT ![input[r].run] = input[r].decision]
               /\ previous[r] = Loaded("approvals")[input[r].run]
        /\ at[r] = "writing" => copy[r][input[r].run] = input[r].decision

SequentialInv == HilTypeInv /\ Alone /\ Fresh /\ DiskWhole /\ Drafted

\* Every file that an undisturbed request reads can be read.
LEMMA UndisturbedSteps ==
    ASSUME HilTypeInv, Alone, DiskWhole, [Undisturbed]_vars
    PROVE  \/ \E r \in Requests :
                  \/ InFlight = {} /\ Submit(r)
                  \/ Read(r) /\ Readable(disk[file[r]])
                  \/ Open(r)
                  \/ Write(r)
           \/ UNCHANGED vars
<1>1. ASSUME NEW r \in Requests, Read(r) PROVE Readable(disk[file[r]])
  <2>1. at[r] = "reading" /\ file[r] \in Files
    BY <1>1 DEF Read, HilTypeInv, RequestTypes
  <2>2. \A s \in Requests : at[s] # "writing"
    BY <2>1 DEF Alone, InFlight
  <2> QED
    BY <2>1, <2>2 DEF DiskWhole
<1> QED
  BY <1>1 DEF Undisturbed

\* While one request is at work no other one is.
LEMMA OthersRest ==
    ASSUME Alone, NEW r \in Requests, at[r] \in {"reading", "opening", "writing"}
    PROVE  /\ \A s \in Requests \ {r} : at[s] \notin {"reading", "opening", "writing"}
           /\ InFlight = {r}
BY DEF Alone, InFlight

\* Requests that do not overlap leave the files whole and the copies fresh.
LEMMA SequentialStep ==
    ASSUME SequentialInv, [Undisturbed]_vars
    PROVE  SequentialInv'
<1> USE DEF SequentialInv
<1>t. HilTypeInv'
  <2>1. [Next]_vars
    BY DEF Undisturbed, Next, Handle
  <2> QED
    BY <2>1, HilTypeStep
<1>0. /\ at \in [Requests -> Places] /\ file \in [Requests -> Files]
      /\ disk = [g \in Files |-> disk[g]] /\ copy = [s \in Requests |-> copy[s]]
      /\ previous = [s \in Requests |-> previous[s]]
  BY DEF HilTypeInv, RequestTypes, DiskInv
<1>1. ASSUME NEW r \in Requests, InFlight = {}, Submit(r) PROVE SequentialInv'
  <2>1. /\ InFlight = {} /\ at[r] = "idle" /\ at' = [at EXCEPT ![r] = "reading"]
        /\ UNCHANGED <<disk, input, file, previous, copy>>
    BY <1>1 DEF Submit
  <2>2. \A s \in Requests : at'[s] \in {"opening", "writing"} => FALSE
    BY <1>0, <2>1 DEF InFlight
  <2>3. Alone'
    BY <1>0, <2>1 DEF Alone, InFlight
  <2>4. Fresh'
    BY <1>0, <2>1 DEF Fresh
  <2>5. DiskWhole'
    BY <2>1, <2>2 DEF DiskWhole, InFlight
  <2>6. Drafted'
    BY <2>1, <2>2 DEF Drafted
  <2> QED
    BY <1>t, <2>3, <2>4, <2>5, <2>6
<1>2. ASSUME NEW r \in Requests, Read(r), Readable(disk[file[r]]) PROVE SequentialInv'
  <2>1. /\ at[r] = "reading" /\ at' = [at EXCEPT ![r] = "opening"]
        /\ copy' = [copy EXCEPT ![r] = Revised(r, file[r])]
        /\ file[r] = "approvals" =>
               previous' = [previous EXCEPT ![r] = Loaded("approvals")[input[r].run]]
        /\ UNCHANGED <<disk, input, file>>
    BY <1>2 DEF Read
  <2>2. \A s \in Requests : s # r => at'[s] = at[s] /\ at[s] \notin {"reading", "opening", "writing"}
    BY <1>0, <2>1, OthersRest
  <2>3. at'[r] = "opening" /\ copy'[r] = Revised(r, file[r])
    BY <1>0, <2>1
  <2>4. Alone'
    BY <2>2 DEF Alone, InFlight
  <2>5. Fresh'
    BY <2>1, <2>2, <2>3 DEF Fresh
  <2>6. DiskWhole'
    BY <2>1, <2>2, <2>3 DEF DiskWhole
  <2>7. file[r] = "approvals" =>
            /\ copy'[r] = [Loaded("approvals") EXCEPT ![input[r].run] = input[r].decision]
            /\ previous'[r] = Loaded("approvals")[input[r].run]
    BY <1>0, <2>1, <2>3 DEF Revised
  <2>8. Drafted'
    BY <2>1, <2>2, <2>3, <2>7 DEF Drafted, Loaded, Fallback
  <2> QED
    BY <1>t, <2>4, <2>5, <2>6, <2>8
<1>3. ASSUME NEW r \in Requests, Open(r) PROVE SequentialInv'
  <2>1. /\ at[r] = "opening" /\ at' = [at EXCEPT ![r] = "writing"]
        /\ disk' = [disk EXCEPT ![file[r]] = Opened]
        /\ UNCHANGED <<input, file, previous, copy>>
    BY <1>3 DEF Open
  <2>2. \A s \in Requests : s # r => at'[s] = at[s] /\ at[s] \notin {"reading", "opening", "writing"}
    BY <1>0, <2>1, OthersRest
  <2>3. /\ at'[r] = "writing" /\ file[r] \in Files /\ disk'[file[r]] = Opened
        /\ \A f \in Files : f # file[r] => disk'[f] = disk[f]
    BY <1>0, <2>1
  <2>4. Alone'
    BY <2>2 DEF Alone, InFlight
  <2>5. Fresh'
    BY <2>1, <2>2, <2>3 DEF Fresh
  <2>6. DiskWhole'
    <3>1. \A f \in Files : f # file[r] => Readable(disk[f])
      BY <2>1, <2>2 DEF DiskWhole
    <3> QED
      BY <2>1, <2>2, <2>3, <3>1 DEF DiskWhole
  <2>7. file[r] = "approvals" => copy[r][input[r].run] = input[r].decision
    <3>1. ASSUME file[r] = "approvals" PROVE copy[r][input[r].run] = input[r].decision
      <4>1. copy[r] = [Loaded("approvals") EXCEPT ![input[r].run] = input[r].decision]
        BY <2>1, <3>1 DEF Drafted
      <4>2. copy[r] \in Standings /\ input[r].run \in Runs
        BY <2>1, <3>1 DEF HilTypeInv, CopyInv, RequestTypes, Inputs, Values
      <4>3. Loaded("approvals") \in Standings
        <5>1. Readable(disk["approvals"]) /\ "approvals" \in Files
          BY <2>1, <2>2, <3>1 DEF DiskWhole, Files
        <5> QED
          BY <5>1, LoadedType DEF HilTypeInv, Values
      <4> QED
        BY <4>1, <4>2, <4>3 DEF Standings
    <3> QED
      BY <3>1
  <2>8. Drafted'
    BY <2>1, <2>2, <2>3, <2>7 DEF Drafted
  <2> QED
    BY <1>t, <2>4, <2>5, <2>6, <2>8
<1>4. ASSUME NEW r \in Requests, Write(r) PROVE SequentialInv'
  <2>1. at[r] = "writing" /\ file[r] \in Files /\ input' = input
    BY <1>0, <1>4 DEF Write
  <2>2. disk' = [disk EXCEPT ![file[r]] = Whole(copy[r])]
    <3>1. Written(disk[file[r]], copy[r]) = {Whole(copy[r])}
      BY <2>1 DEF DiskWhole, Written, Opened, Truncated
    <3> QED
      BY <1>4, <3>1 DEF Write
  <2>3. /\ at' \in {[at EXCEPT ![r] = "answered"], [at EXCEPT ![r] = "reading"]}
        /\ file' \in {file, [file EXCEPT ![r] = NextFile(file[r])]}
    BY <1>4 DEF Write
  <2>4. /\ at'[r] \in {"answered", "reading"}
        /\ \A s \in Requests : s # r =>
               /\ at'[s] = at[s] /\ file'[s] = file[s]
               /\ at[s] \notin {"reading", "opening", "writing"}
    BY <1>0, <2>1, <2>3, OthersRest
  <2>5. /\ disk'[file[r]] = Whole(copy[r])
        /\ \A f \in Files : f # file[r] => disk'[f] = disk[f]
    BY <1>0, <2>1, <2>2
  <2>6. Alone' /\ Fresh' /\ Drafted'
    BY <2>4 DEF Alone, InFlight, Fresh, Drafted
  <2>7. DiskWhole'
    <3>1. \A f \in Files : f # file[r] => Readable(disk[f])
      BY <2>1, <2>4 DEF DiskWhole
    <3>2. Readable(disk'[file[r]])
      BY <2>5 DEF Readable, Whole
    <3> QED
      BY <2>4, <2>5, <3>1, <3>2 DEF DiskWhole
  <2> QED
    BY <1>t, <2>6, <2>7
<1>5. CASE UNCHANGED vars
  BY <1>t, <1>5 DEF vars, Alone, InFlight, Fresh, DiskWhole, Drafted, Loaded, Fallback
<1> QED
  BY <1>1, <1>2, <1>3, <1>4, <1>5, UndisturbedSteps

-----------------------------------------------------------------------------
(* The mapping *)

\* An audit entry as the ledger sees it, and a log of them.
Line(e) == [run |-> e.run, previous |-> e.previous, new |-> e.new]
Seen(log) == [i \in 1..Len(log) |-> Line(log[i])]

\* To cut a log and to look at it commute.
LEMMA SeenNewest ==
    ASSUME NEW e \in Entries, NEW log \in Seq(Entries)
    PROVE  Seen(Newest(<<e>> \o log, AuditLimit)) = Ledger!Newest(<<Line(e)>> \o Seen(log))
<1> DEFINE long == <<e>> \o log
           line == <<Line(e)>> \o Seen(log)
           n == IF Len(long) < AuditLimit THEN Len(long) ELSE AuditLimit
           Ls == {Line(x) : x \in Entries}
<1>1. /\ <<e>> \in Seq(Entries) /\ Len(<<e>>) = 1 /\ <<e>>[1] = e
      /\ <<Line(e)>> \in Seq(Ls) /\ Len(<<Line(e)>>) = 1 /\ <<Line(e)>>[1] = Line(e)
  OBVIOUS
<1>2. /\ Seen(log) \in Seq(Ls) /\ Len(Seen(log)) = Len(log)
      /\ \A i \in 1..Len(log) : Seen(log)[i] = Line(log[i])
  BY DEF Seen
<1>3. /\ long \in Seq(Entries) /\ Len(long) = 1 + Len(log)
      /\ \A i \in 1..1 + Len(log) : long[i] = IF i <= 1 THEN <<e>>[i] ELSE log[i - 1]
  BY <1>1, ConcatProperties, Zenon
<1> HIDE DEF Ls
<1>4. /\ line \in Seq(Ls) /\ Len(line) = 1 + Len(log)
      /\ \A i \in 1..1 + Len(log) : line[i] = IF i <= 1 THEN <<Line(e)>>[i] ELSE Seen(log)[i - 1]
  <2>1. Seen(log) \in Seq(Ls) /\ <<Line(e)>> \in Seq(Ls)
    BY <1>1, <1>2
  <2>2. /\ line \in Seq(Ls) /\ Len(line) = Len(<<Line(e)>>) + Len(Seen(log))
        /\ \A i \in 1..Len(<<Line(e)>>) + Len(Seen(log)) :
               line[i] = IF i <= Len(<<Line(e)>>) THEN <<Line(e)>>[i]
                         ELSE Seen(log)[i - Len(<<Line(e)>>)]
    BY <2>1, ConcatProperties, Zenon
  <2>3. Len(<<Line(e)>>) = 1 /\ Len(Seen(log)) = Len(log)
    BY <1>1, <1>2
  <2> QED
    BY <2>2, <2>3, Zenon
<1> HIDE DEF long, line
<1>5. \A i \in 1..1 + Len(log) : line[i] = Line(long[i])
  <2> SUFFICES ASSUME NEW i \in 1..1 + Len(log) PROVE line[i] = Line(long[i])
    OBVIOUS
  <2>1. CASE i = 1
    BY <1>1, <1>3, <1>4, <2>1
  <2>2. CASE i # 1
    <3>1. i - 1 \in 1..Len(log) /\ ~(i <= 1)
      BY <2>2
    <3> QED
      BY <1>2, <1>3, <1>4, <3>1
  <2> QED
    BY <2>1, <2>2
<1>6. n \in Nat /\ n <= 1 + Len(log) /\ \A i \in 1..n : long[i] \in Entries
  BY <1>3, LimitsAssumption
<1>7. Ledger!Newest(line) = SubSeq(line, 1, n) /\ Newest(long, AuditLimit) = SubSeq(long, 1, n)
  BY <1>3, <1>4 DEF Ledger!Newest, Newest
<1> HIDE DEF n
<1>8. /\ SubSeq(long, 1, n) \in Seq(Entries) /\ Len(SubSeq(long, 1, n)) = n
      /\ \A i \in 1..n : SubSeq(long, 1, n)[i] = long[i]
  BY <1>6, SubSeqProperties
<1>9. \A i \in 1..n : line[i] \in Ls /\ line[i] = Line(long[i])
  BY <1>3, <1>5, <1>6 DEF Ls
<1>10. /\ SubSeq(line, 1, n) \in Seq(Ls) /\ Len(SubSeq(line, 1, n)) = n
       /\ \A i \in 1..n : SubSeq(line, 1, n)[i] = line[i]
  BY <1>6, <1>9, SubSeqProperties
<1>11. /\ Seen(SubSeq(long, 1, n)) \in Seq(Ls) /\ Len(Seen(SubSeq(long, 1, n))) = n
       /\ \A i \in 1..n : Seen(SubSeq(long, 1, n))[i] = Line(long[i])
  BY <1>6, <1>8 DEF Seen, Ls
<1>12. Seen(SubSeq(long, 1, n)) = SubSeq(line, 1, n)
  BY <1>6, <1>9, <1>10, <1>11, SeqEqual
<1> QED
  BY <1>7, <1>12 DEF long, line

\* What the mapping shows, by where the request at work is.
LEMMA StandingReadable ==
    ASSUME Readable(disk["approvals"])
    PROVE  Standing = Loaded("approvals")
BY DEF Standing

\* While the approvals file cannot be read, its writer's copy says what stands.
LEMMA StandingOpen ==
    ASSUME NEW r \in Requests, InFlight = {r}, file[r] = "approvals", ~Readable(disk["approvals"])
    PROVE  Standing = [copy[r] EXCEPT ![input[r].run] = previous[r]]
<1>1. (CHOOSE s \in Working("approvals") : TRUE) = r
  BY DEF Working
<1> QED
  BY <1>1 DEF Standing

\* The audit trail is the file's while nobody is writing it.
LEMMA TrailWritten ==
    ASSUME \A r \in InFlight : file[r] # "audit"
    PROVE  Trail = Seen(Loaded("audit"))
<1>1. Working("audit") = {}
  BY DEF Working
<1> QED
  BY <1>1 DEF Trail, Seen, Line

\* The audit trail of a request under way is what it will have written.
LEMMA TrailPending ==
    ASSUME NEW r \in Requests, InFlight = {r}, file[r] = "audit"
    PROVE  Trail = Seen(IF at[r] = "reading" THEN Revised(r, "audit") ELSE copy[r])
<1>1. (CHOOSE s \in Working("audit") : TRUE) = r /\ Working("audit") # {}
  BY DEF Working
<1> QED
  BY <1>1 DEF Trail, Seen, Line

\* The same after a step.
LEMMA StandingReadableNext ==
    ASSUME Readable(disk'["approvals"])
    PROVE  Standing' = Content(disk'["approvals"], Fallback("approvals"))
BY DEF Standing, Loaded, Fallback

\* The same of the next state: nobody writes the audit file.
LEMMA TrailWrittenNext ==
    ASSUME \A r \in InFlight' : file'[r] # "audit"
    PROVE  Trail' = Seen(Content(disk'["audit"], <<>>))
<1>1. Working("audit")' = {}
  BY DEF Working
<1> QED
  BY <1>1 DEF Trail, Seen, Line, Loaded, Fallback

\* The same of the next state: a request is writing it.
LEMMA TrailPendingNext ==
    ASSUME NEW r \in Requests, InFlight' = {r}, file'[r] = "audit"
    PROVE  Trail' = Seen(IF at'[r] = "reading" THEN Revised(r, "audit")' ELSE copy'[r])
<1>1. (CHOOSE s \in Working("audit")' : TRUE) = r /\ Working("audit")' # {}
  BY DEF Working
<1> QED
  BY <1>1 DEF Trail, Seen, Line

\* The step that takes effect: the approvals are written, and the entry for
\* the audit log is in the request.
LEMMA DecideStep ==
    ASSUME SequentialInv, NEW r \in Requests, Write(r), file[r] = "approvals"
    PROVE  Ledger!Decide(input[r].run, input[r].decision)
<1> DEFINE run == input[r].run
           decision == input[r].decision
<1>0. /\ at \in [Requests -> Places] /\ file \in [Requests -> Files]
      /\ disk = [g \in Files |-> disk[g]] /\ input[r] \in Inputs
      /\ previous[r] \in Decisions \cup {NoDecision} /\ DiskInv /\ CopyInv
  BY DEF SequentialInv, HilTypeInv, RequestTypes, DiskInv
<1>1. at[r] = "writing" /\ InFlight = {r} /\ \A s \in Requests \ {r} : at[s] \notin {"reading", "opening", "writing"}
  BY OthersRest DEF Write, SequentialInv
<1>2. /\ disk["approvals"] = Opened /\ ~Readable(disk["approvals"]) /\ Readable(disk["audit"])
  BY <1>0, <1>1 DEF SequentialInv, DiskWhole, Readable, Opened, Truncated, Files
<1>3. copy[r] \in Standings /\ copy[r][run] = decision /\ run \in Runs
  BY <1>0, <1>1 DEF SequentialInv, Drafted, CopyInv, Values, Inputs
<1>4. /\ disk' = [disk EXCEPT !["approvals"] = Whole(copy[r])]
      /\ at' = [at EXCEPT ![r] = "reading"] /\ file' = [file EXCEPT ![r] = "audit"]
      /\ UNCHANGED <<input, previous>>
  <2>1. Written(disk["approvals"], copy[r]) = {Whole(copy[r])}
    BY <1>2 DEF Written, Opened, Truncated
  <2> QED
    BY <2>1 DEF Write, NextFile
<1>5. /\ disk'["approvals"] = Whole(copy[r]) /\ disk'["audit"] = disk["audit"]
      /\ at'[r] = "reading" /\ file'[r] = "audit"
  BY <1>0, <1>4 DEF Files
<1>6. InFlight' = {r}
  BY <1>0, <1>1, <1>4 DEF InFlight
<1>7. Standing = [copy[r] EXCEPT ![run] = previous[r]]
  BY <1>1, <1>2, StandingOpen
<1>8. Standing' = copy[r]
  BY <1>5, StandingReadableNext DEF Content, Readable, Whole
<1>9. Standing' = [Standing EXCEPT ![run] = decision] /\ Standing[run] = previous[r]
  BY <1>3, <1>7, <1>8 DEF Standings
<1>10. Trail = Seen(Loaded("audit"))
  BY <1>1, TrailWritten
<1>11. Trail' = Seen(Newest(<<Entry(r)>> \o Loaded("audit"), AuditLimit))
  <2>1. Revised(r, "audit")' = Newest(<<Entry(r)>> \o Loaded("audit"), AuditLimit)
    BY <1>4, <1>5 DEF Revised, Entry, Loaded, Fallback
  <2> QED
    BY <1>5, <1>6, <2>1, TrailPendingNext
<1>12. Loaded("audit") \in Seq(Entries) /\ Entry(r) \in Entries
  BY <1>0, <1>2, LoadedType DEF Values, Files, Entry, Entries, Inputs
<1>13. Line(Entry(r)) = [run |-> run, previous |-> previous[r], new |-> decision]
  BY DEF Line, Entry
<1>14. Trail' = Ledger!Newest(<<[run |-> run, previous |-> previous[r], new |-> decision]>> \o Trail)
  BY <1>10, <1>11, <1>12, <1>13, SeenNewest, Zenon
<1> QED
  BY <1>9, <1>14 DEF Ledger!Decide

\* Every step of one request at a time is a decision of the ledger, or nothing
\* that the ledger shows.
LEMMA LedgerStep ==
    ASSUME SequentialInv, [Undisturbed]_vars
    PROVE  [Ledger!Next]_(Ledger!ledgerVars)
<1>0. /\ at \in [Requests -> Places] /\ file \in [Requests -> Files]
      /\ disk = [g \in Files |-> disk[g]] /\ copy = [s \in Requests |-> copy[s]]
      /\ input \in [Requests -> Inputs] /\ DiskInv /\ CopyInv
  BY DEF SequentialInv, HilTypeInv, RequestTypes, DiskInv
<1>f. "approvals" \in Files /\ "audit" \in Files /\ "activity" \in Files
  BY DEF Files
<1> SUFFICES (Standing' = Standing /\ Trail' = Trail) \/ Ledger!Next
  BY DEF Ledger!ledgerVars
<1>1. ASSUME NEW r \in Requests, InFlight = {}, Submit(r)
      PROVE  Standing' = Standing /\ Trail' = Trail
  <2>1. /\ InFlight = {} /\ at' = [at EXCEPT ![r] = "reading"] /\ file[r] = "approvals"
        /\ UNCHANGED <<disk, file>>
    BY <1>1 DEF Submit, SequentialInv, Fresh
  <2>2. Readable(disk["approvals"]) /\ InFlight' = {r}
    BY <1>0, <1>f, <2>1 DEF SequentialInv, DiskWhole, InFlight
  <2>3. Standing = Loaded("approvals") /\ Standing' = Loaded("approvals")
    BY <2>1, <2>2, StandingReadable, StandingReadableNext DEF Loaded
  <2>4. Trail = Seen(Loaded("audit")) /\ Trail' = Seen(Loaded("audit"))
    BY <2>1, <2>2, TrailWritten, TrailWrittenNext DEF Loaded, Fallback
  <2> QED
    BY <2>3, <2>4
<1>2. ASSUME NEW r \in Requests, Read(r), Readable(disk[file[r]])
      PROVE  Standing' = Standing /\ Trail' = Trail
  <2>1. /\ at[r] = "reading" /\ at' = [at EXCEPT ![r] = "opening"]
        /\ copy' = [copy EXCEPT ![r] = Revised(r, file[r])] /\ UNCHANGED <<disk, file, input>>
    BY <1>2 DEF Read
  <2>2. InFlight = {r} /\ InFlight' = {r} /\ Readable(disk["approvals"])
    <3>1. InFlight = {r} /\ \A s \in Requests \ {r} : at[s] \notin {"reading", "opening", "writing"}
      BY <2>1, OthersRest DEF SequentialInv
    <3>2. InFlight' = {r}
      BY <1>0, <2>1, <3>1 DEF InFlight
    <3>3. \A s \in Requests : at[s] # "writing"
      BY <2>1, <3>1
    <3> QED
      BY <1>f, <3>1, <3>2, <3>3 DEF SequentialInv, DiskWhole
  <2>3. Standing = Loaded("approvals") /\ Standing' = Loaded("approvals")
    BY <2>1, <2>2, StandingReadable, StandingReadableNext DEF Loaded
  <2>4. CASE file[r] = "audit"
    <3>1. at'[r] = "opening" /\ copy'[r] = Revised(r, "audit")
      BY <1>0, <2>1, <2>4
    <3>2. Trail = Seen(Revised(r, "audit"))
      BY <2>1, <2>2, <2>4, TrailPending
    <3>3. Trail' = Seen(copy'[r])
      BY <2>1, <2>2, <2>4, <3>1, TrailPendingNext
    <3> QED
      BY <2>3, <3>1, <3>2, <3>3
  <2>5. CASE file[r] # "audit"
    <3>1. Trail = Seen(Loaded("audit")) /\ Trail' = Seen(Loaded("audit"))
      BY <2>1, <2>2, <2>5, TrailWritten, TrailWrittenNext DEF Loaded, Fallback
    <3> QED
      BY <2>3, <3>1
  <2> QED
    BY <2>4, <2>5
<1>3. ASSUME NEW r \in Requests, Open(r) PROVE Standing' = Standing /\ Trail' = Trail
  <2>1. /\ at[r] = "opening" /\ at' = [at EXCEPT ![r] = "writing"]
        /\ disk' = [disk EXCEPT ![file[r]] = Opened] /\ UNCHANGED <<copy, file, input, previous>>
    BY <1>3 DEF Open
  <2>2. /\ InFlight = {r} /\ InFlight' = {r}
        /\ Readable(disk["approvals"]) /\ Readable(disk["audit"])
    <3>1. InFlight = {r} /\ \A s \in Requests \ {r} : at[s] \notin {"reading", "opening", "writing"}
      BY <2>1, OthersRest DEF SequentialInv
    <3>2. InFlight' = {r}
      BY <1>0, <2>1, <3>1 DEF InFlight
    <3>3. \A s \in Requests : at[s] # "writing"
      BY <2>1, <3>1
    <3> QED
      BY <1>f, <3>1, <3>2, <3>3 DEF SequentialInv, DiskWhole
  <2>3. Standing = Loaded("approvals")
    BY <2>2, StandingReadable
  <2>4. CASE file[r] = "approvals"
    <3>1. disk'["approvals"] = Opened /\ disk'["audit"] = disk["audit"]
      BY <1>0, <1>f, <2>1, <2>4
    <3>2. ~Readable(disk'["approvals"])
      BY <3>1 DEF Readable, Opened, Truncated
    <3>3. Standing' = [copy'[r] EXCEPT ![input'[r].run] = previous'[r]]
      <4>1. (CHOOSE s \in Working("approvals")' : TRUE) = r
        BY <2>1, <2>2, <2>4 DEF Working
      <4> QED
        BY <3>2, <4>1 DEF Standing
    <3>4. /\ copy[r] = [Loaded("approvals") EXCEPT ![input[r].run] = input[r].decision]
          /\ previous[r] = Loaded("approvals")[input[r].run]
      BY <2>1, <2>4 DEF SequentialInv, Drafted
    <3>5. Loaded("approvals") \in Standings /\ input[r].run \in Runs
      BY <1>0, <1>f, <2>2, LoadedType DEF Values, Inputs
    <3>6. Standing' = Loaded("approvals")
      BY <2>1, <3>3, <3>4, <3>5 DEF Standings
    <3>7. Trail = Seen(Loaded("audit")) /\ Trail' = Seen(Loaded("audit"))
      BY <2>1, <2>2, <2>4, <3>1, TrailWritten, TrailWrittenNext DEF Loaded, Fallback
    <3> QED
      BY <2>3, <3>6, <3>7
  <2>5. CASE file[r] = "audit"
    <3>1. disk'["approvals"] = disk["approvals"] /\ at'[r] = "writing"
      BY <1>0, <1>f, <2>1, <2>5
    <3>2. Standing' = Loaded("approvals")
      BY <2>2, <3>1, StandingReadableNext DEF Loaded
    <3>3. Trail = Seen(copy[r])
      BY <2>1, <2>2, <2>5, TrailPending
    <3>4. Trail' = Seen(copy[r])
      BY <2>1, <2>2, <2>5, <3>1, TrailPendingNext
    <3> QED
      BY <2>3, <3>2, <3>3, <3>4
  <2>6. CASE file[r] = "activity"
    <3>1. disk'["approvals"] = disk["approvals"] /\ disk'["audit"] = disk["audit"]
      BY <1>0, <1>f, <2>1, <2>6
    <3>2. Standing' = Loaded("approvals")
      BY <2>2, <3>1, StandingReadableNext DEF Loaded
    <3>3. Trail = Seen(Loaded("audit")) /\ Trail' = Seen(Loaded("audit"))
      BY <2>1, <2>2, <2>6, <3>1, TrailWritten, TrailWrittenNext DEF Loaded, Fallback
    <3> QED
      BY <2>3, <3>2, <3>3
  <2> QED
    BY <1>0, <2>4, <2>5, <2>6 DEF Files
<1>4. ASSUME NEW r \in Requests, Write(r) PROVE (Standing' = Standing /\ Trail' = Trail) \/ Ledger!Next
  <2>0. CASE file[r] = "approvals"
    <3>1. input[r].run \in Runs /\ input[r].decision \in Decisions
      BY <1>0 DEF Inputs
    <3> QED
      BY <1>4, <2>0, <3>1, DecideStep DEF Ledger!Next
  <2>1. ASSUME file[r] # "approvals" PROVE Standing' = Standing /\ Trail' = Trail
    <3>1. /\ at[r] = "writing" /\ InFlight = {r}
          /\ \A s \in Requests \ {r} : at[s] \notin {"reading", "opening", "writing"}
      BY <1>4, OthersRest DEF Write, SequentialInv
    <3>2. Readable(disk["approvals"])
      BY <1>f, <2>1, <3>1 DEF SequentialInv, DiskWhole
    <3>3. disk' = [disk EXCEPT ![file[r]] = Whole(copy[r])]
      <4>1. Written(disk[file[r]], copy[r]) = {Whole(copy[r])}
        BY <3>1 DEF SequentialInv, DiskWhole, Written, Opened, Truncated
      <4> QED
        BY <1>4, <4>1 DEF Write
    <3>4. Standing = Loaded("approvals") /\ Standing' = Loaded("approvals")
      <4>1. disk'["approvals"] = disk["approvals"]
        BY <1>0, <1>f, <2>1, <3>3
      <4> QED
        BY <3>2, <4>1, StandingReadable, StandingReadableNext DEF Loaded
    <3>5. \A s \in InFlight' : file'[s] # "audit"
      <4>1. \A s \in Requests : s # r => at'[s] = at[s]
        BY <1>0, <1>4 DEF Write
      <4>2. \A s \in InFlight' : s = r
        BY <3>1, <4>1 DEF InFlight
      <4>3. file[r] = "audit" => file'[r] = "activity"
        BY <1>0, <1>4 DEF Write, NextFile
      <4>4. file[r] = "activity" => file'[r] = "activity"
        BY <1>4 DEF Write
      <4> QED
        BY <1>0, <2>1, <4>2, <4>3, <4>4 DEF Files
    <3>6. Trail' = Seen(Content(disk'["audit"], <<>>))
      BY <3>5, TrailWrittenNext
    <3>7. CASE file[r] = "audit"
      <4>1. Trail = Seen(copy[r])
        BY <3>1, <3>7, TrailPending
      <4>2. disk'["audit"] = Whole(copy[r])
        BY <1>0, <1>f, <3>3, <3>7
      <4> QED
        BY <3>4, <3>6, <4>1, <4>2 DEF Content, Whole
    <3>8. CASE file[r] = "activity"
      <4>1. Trail = Seen(Loaded("audit"))
        BY <3>1, <3>8, TrailWritten
      <4>2. disk'["audit"] = disk["audit"]
        BY <1>0, <1>f, <3>3, <3>8
      <4> QED
        BY <3>4, <3>6, <4>1, <4>2 DEF Loaded, Fallback
    <3> QED
      BY <1>0, <2>1, <3>7, <3>8 DEF Files
  <2> QED
    BY <2>0, <2>1
<1>5. ASSUME UNCHANGED vars PROVE Standing' = Standing /\ Trail' = Trail
  BY <1>5 DEF vars, Standing, Trail, Working, InFlight, Loaded, Fallback, Revised, Entry
<1> QED
  BY <1>1, <1>2, <1>3, <1>4, <1>5, UndisturbedSteps DEF SequentialInv

\* A request that nobody has sent yet starts with the approvals.
LEMMA FreshStep ==
    ASSUME HilTypeInv, Fresh, [Next]_vars
    PROVE  Fresh'
<1>0. at \in [Requests -> Places] /\ file \in [Requests -> Files]
  BY DEF HilTypeInv, RequestTypes
<1>1. ASSUME NEW s \in Requests, at'[s] = "idle" PROVE at[s] = "idle" /\ file'[s] = file[s]
  <2>1. ASSUME NEW r \in Requests, Submit(r) \/ Handle(r) PROVE at[s] = "idle" /\ file'[s] = file[s]
    BY <1>0, <1>1, <2>1 DEF Submit, Handle, Read, Open, Write, WriteFails, Abandon
  <2>2. CASE Crash
    BY <1>0, <1>1, <2>2 DEF Crash
  <2>3. CASE UNCHANGED vars
    BY <1>1, <2>3 DEF vars
  <2> QED
    BY <2>1, <2>2, <2>3 DEF Next
<1> QED
  BY <1>1 DEF Fresh

\* Whatever requests overlapped, failed or died before: from any moment on at
\* which none is open and the files parse, requests handled one after the other
\* leave the approvals and the audit trail as if each decision and its audit
\* entry were one atomic step (index.mjs:2387-2420).
THEOREM RestingIsLedger ==
    Spec => [](Resting /\ [][Undisturbed]_vars => [][Ledger!Next]_(Ledger!ledgerVars))
<1>1. Init => HilTypeInv /\ Fresh
  BY HilInitInv DEF Init, Fresh
<1>2. (HilTypeInv /\ Fresh) /\ [Next]_vars => (HilTypeInv /\ Fresh)'
  BY HilTypeStep, FreshStep
<1>3. HilTypeInv /\ Fresh /\ Resting => SequentialInv
  <2> SUFFICES ASSUME HilTypeInv, Fresh, Resting PROVE SequentialInv
    OBVIOUS
  <2>1. \A r \in Requests : at[r] \notin {"reading", "opening", "writing"}
    BY DEF Resting, InFlight
  <2>2. Alone /\ DiskWhole /\ Drafted
    BY <2>1 DEF Resting, Alone, DiskWhole, Drafted
  <2> QED
    BY <2>2 DEF SequentialInv
<1>4. SequentialInv /\ [Undisturbed]_vars => SequentialInv'
  BY SequentialStep
<1>5. SequentialInv /\ [Undisturbed]_vars => [Ledger!Next]_(Ledger!ledgerVars)
  BY LedgerStep
<1>6. SequentialInv /\ [][Undisturbed]_vars => [][Ledger!Next]_(Ledger!ledgerVars)
  BY <1>4, <1>5, PTL
<1> QED
  BY <1>1, <1>2, <1>3, <1>6, PTL DEF Spec

=============================================================================
