------------------------------ MODULE HilStore ------------------------------
(***************************************************************************)
(* apps/web-ui/server: POST /api/hil/approvals over the JSON files of      *)
(* storage.js.  A request reads, changes and writes back three files in    *)
(* turn: the approvals, the audit log and the activity log.  Every await   *)
(* lets another request run, nothing locks the files, and the process may  *)
(* be killed between any two steps.                                        *)
(***************************************************************************)
EXTENDS Integers, Sequences, FiniteSets, JsonFile

CONSTANTS
    Requests,        \* the POST requests that pass validation
    Runs,            \* runIds
    Decisions,       \* hilStatusSet
    NoDecision,      \* no approval stored for a run (null)
    AuditLimit,      \* HOTPASS_HIL_AUDIT_LIMIT
    ActivityLimit,   \* HOTPASS_ACTIVITY_LIMIT
    MaxInFlight,     \* bound: requests the clients have open at once
    MaxCrashes,      \* bound: kills of the server process
    DiskFaults       \* may a write fail?

ASSUME RequestsAssumption == IsFiniteSet(Requests)
ASSUME NoDecisionAssumption == NoDecision \notin Decisions
ASSUME LimitsAssumption ==
    /\ AuditLimit \in Nat
    /\ ActivityLimit \in Nat
    /\ MaxInFlight \in Nat
    /\ MaxCrashes \in Nat
    /\ DiskFaults \in BOOLEAN

Files == {"approvals", "audit", "activity"}
Places == {"idle", "reading", "opening", "writing", "answered", "lost"}
Answers == {"none", "201", "500"}

VARIABLES
    disk,       \* the three files
    input,      \* what each request decides: its run and its decision
    at,         \* what each request does next
    file,       \* the file each request works on
    previous,   \* the decision each request found in force
    copy,       \* the new content each open request is going to write
    answer,     \* the status code each request was answered with
    crashes

vars == <<disk, input, at, file, previous, copy, answer, crashes>>

Inputs == [run : Runs, decision : Decisions]

Standings == [Runs -> Decisions \cup {NoDecision}]

Entries == [by : Requests, run : Runs,
            previous : Decisions \cup {NoDecision}, new : Decisions]

HilTypeOK ==
    /\ DOMAIN disk = Files
    /\ \A f \in Files : disk[f].kind \in {"missing", "truncated", "garbled", "whole"}
    /\ disk["approvals"].kind = "whole" => disk["approvals"].value \in Standings
    /\ disk["audit"].kind = "whole" =>
           /\ disk["audit"].value \in Seq(Entries)
           /\ Len(disk["audit"].value) <= AuditLimit
    /\ disk["activity"].kind = "whole" => disk["activity"].value \in Seq(Requests)
    /\ input \in [Requests -> Inputs]
    /\ at \in [Requests -> Places]
    /\ file \in [Requests -> Files]
    /\ previous \in [Requests -> Decisions \cup {NoDecision}]
    /\ answer \in [Requests -> Answers]
    /\ crashes \in 0..MaxCrashes

Init ==
    /\ disk = [f \in Files |-> Missing]
    /\ input \in [Requests -> Inputs]
    /\ at = [r \in Requests |-> "idle"]
    /\ file = [r \in Requests |-> "approvals"]
    /\ previous = [r \in Requests |-> NoDecision]
    /\ copy = [r \in Requests |-> <<>>]
    /\ answer = [r \in Requests |-> "none"]
    /\ crashes = 0

InFlight == {r \in Requests : at[r] \in {"reading", "opening", "writing"}}

-----------------------------------------------------------------------------
(* What a request writes, computed from what it read. *)

Fallback(f) ==
    IF f = "approvals" THEN [run \in Runs |-> NoDecision] ELSE <<>>

Loaded(f) == Content(disk[f], Fallback(f))

Newest(log, limit) ==
    SubSeq(log, 1, IF Len(log) < limit THEN Len(log) ELSE limit)

\* Not the code: the previous status read after the new one was assigned.
EntryAfterAssignment(r) ==
    [by |-> r, run |-> input[r].run, previous |-> input[r].decision,
     new |-> input[r].decision]

\* createHilAuditEntry; `by' stands for its unique id.
Entry(r) ==
    [by |-> r, run |-> input[r].run, previous |-> previous[r],
     new |-> input[r].decision]

Revised(r, f) ==
    CASE f = "approvals" -> [Loaded(f) EXCEPT ![input[r].run] = input[r].decision]
      [] f = "audit"     -> Newest(<<Entry(r)>> \o Loaded(f), AuditLimit)
      [] f = "activity"  -> Newest(<<r>> \o Loaded(f), ActivityLimit)

-----------------------------------------------------------------------------
(* The handler, one action per awaited file operation. *)

Submit(r) ==
    /\ at[r] = "idle"
    /\ Cardinality(InFlight) < MaxInFlight
    /\ at' = [at EXCEPT ![r] = "reading"]
    /\ UNCHANGED <<disk, input, file, previous, copy, answer, crashes>>

\* A request's local variables end with it.
Forget(r) ==
    /\ copy' = [copy EXCEPT ![r] = <<>>]
    /\ previous' = [previous EXCEPT ![r] = NoDecision]

\* Not the code: without the catch clause nobody answers.
AbandonSilently(r) ==
    /\ at' = [at EXCEPT ![r] = "answered"]
    /\ Forget(r)
    /\ UNCHANGED answer

\* The catch clause, wherever the error came from.
Abandon(r) ==
    /\ at' = [at EXCEPT ![r] = "answered"]
    /\ answer' = [answer EXCEPT ![r] = "500"]
    /\ Forget(r)

Read(r) ==
    /\ at[r] = "reading"
    /\ LET f == file[r] IN
       IF Readable(disk[f])
       THEN /\ at' = [at EXCEPT ![r] = "opening"]
            /\ copy' = [copy EXCEPT ![r] = Revised(r, f)]
            /\ previous' = IF f = "approvals"
                           THEN [previous EXCEPT ![r] = Loaded(f)[input[r].run]]
                           ELSE previous
            /\ UNCHANGED answer
       ELSE Abandon(r)
    /\ UNCHANGED <<disk, input, file, crashes>>

Open(r) ==
    /\ at[r] = "opening"
    /\ at' = [at EXCEPT ![r] = "writing"]
    /\ disk' = [disk EXCEPT ![file[r]] = Opened]
    /\ UNCHANGED <<input, file, previous, copy, answer, crashes>>

NextFile(f) == IF f = "approvals" THEN "audit" ELSE "activity"

Write(r) ==
    /\ at[r] = "writing"
    /\ \E content \in Written(disk[file[r]], copy[r]) :
           disk' = [disk EXCEPT ![file[r]] = content]
    /\ IF file[r] = "activity"
       THEN /\ at' = [at EXCEPT ![r] = "answered"]
            /\ answer' = [answer EXCEPT ![r] = "201"]
            /\ Forget(r)
            /\ UNCHANGED file
       ELSE /\ at' = [at EXCEPT ![r] = "reading"]
            /\ file' = [file EXCEPT ![r] = NextFile(@)]
            /\ UNCHANGED <<previous, copy, answer>>
    /\ UNCHANGED <<input, crashes>>

WriteFails(r) ==
    /\ DiskFaults
    /\ at[r] \in {"opening", "writing"}
    /\ Abandon(r)
    /\ UNCHANGED <<disk, input, file, crashes>>

\* The process is killed and started again: the files stay as they are, the
\* open requests get no answer.
Crash ==
    /\ crashes < MaxCrashes
    /\ InFlight # {}
    /\ crashes' = crashes + 1
    /\ at' = [r \in Requests |-> IF r \in InFlight THEN "lost" ELSE at[r]]
    /\ copy' = [r \in Requests |-> <<>>]
    /\ previous' = [r \in Requests |-> NoDecision]
    /\ UNCHANGED <<disk, input, file, answer>>

Handle(r) == Read(r) \/ Open(r) \/ Write(r) \/ WriteFails(r)

Next == Crash \/ \E r \in Requests : Submit(r) \/ Handle(r)

\* Every file operation ends, one way or the other.
Fairness == \A r \in Requests : WF_vars(Handle(r))

Spec == Init /\ [][Next]_vars /\ Fairness

-----------------------------------------------------------------------------
(* Properties *)

\* A file is broken when its text does not parse and nobody who read it before is
\* still going to write it.
Broken(f) ==
    /\ disk[f].kind \in {"truncated", "garbled"}
    /\ \A r \in InFlight : file[r] = f => at[r] = "reading"

\* A broken file stays broken: a torn or half-written file is never repaired by
\* later requests, because each of them reads before it writes and gives up on
\* text that does not parse (readJson, storage.js:15-25).
BrokenStaysBroken == [][\A f \in Files : Broken(f) => Broken(f)']_vars

\* Every request is answered unless the process dies under it, whichever
\* operation fails and whatever state the other requests left the files in.
EveryPostAnswered ==
    \A r \in Requests :
        r \in InFlight ~> (at[r] = "answered" /\ answer[r] # "none") \/ at[r] = "lost"

\* The requests whose decision was written to the approvals.
Stored == {r \in Requests : file[r] # "approvals"}

\* An entry tells what its request decided, after it was stored, and what it
\* replaced: no decision, or one that another request stored.
Truthful(entry) ==
    /\ entry.by \in Stored
    /\ entry.run = input[entry.by].run /\ entry.new = input[entry.by].decision
    /\ \/ entry.previous = NoDecision
       \/ \E r \in Stored \ {entry.by} :
              entry.run = input[r].run /\ entry.previous = input[r].decision

\* However requests overlap, fail half way or die, the audit log, as long as it
\* can be read, tells of no decision twice, of none before it was stored, and
\* never takes a decision for its own predecessor (index.mjs:2387-2420).  It may
\* miss some: overlapping requests lose entries, and a write may fail.
AuditIsTruthful ==
    disk["audit"].kind = "whole" =>
        LET log == disk["audit"].value IN
        /\ \A i, k \in DOMAIN log : log[i].by = log[k].by => i = k
        /\ \A i \in DOMAIN log : Truthful(log[i])

-----------------------------------------------------------------------------
(* One request at a time, no failures: the store implements the ledger.  A *)
(* decision takes effect when the approvals are written; until the audit   *)
(* log is written too, its entry is in the request.                        *)

Working(f) == {r \in InFlight : file[r] = f}

Standing ==
    IF Readable(disk["approvals"]) THEN Loaded("approvals")
    ELSE LET r == CHOOSE r \in Working("approvals") : TRUE
         IN  [copy[r] EXCEPT ![input[r].run] = previous[r]]

Trail ==
    LET log == IF Working("audit") = {} THEN Loaded("audit")
               ELSE LET r == CHOOSE r \in Working("audit") : TRUE
                    IN  IF at[r] = "reading" THEN Revised(r, "audit") ELSE copy[r]
    IN  [i \in 1..Len(log) |-> [run |-> log[i].run, previous |-> log[i].previous,
                                new |-> log[i].new]]

Ledger == INSTANCE HilLedger WITH
    Limit <- AuditLimit, standing <- Standing, trail <- Trail

\* Requests that do not overlap leave the approvals and the audit trail as if
\* each decision and its audit entry were one atomic step.
ImplementsLedger == Ledger!Spec
=============================================================================
