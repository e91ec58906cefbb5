----------------------------- MODULE HilLedger -----------------------------
(***************************************************************************)
(* What an operator may expect of the human-in-the-loop store: a decision  *)
(* on a run replaces the one in force and leaves, in the same step, an     *)
(* audit entry that says what it replaced.  Newest entries come first and  *)
(* only the newest are kept.                                               *)
(***************************************************************************)
EXTENDS Integers, Sequences

CONSTANTS Runs, Decisions, NoDecision, Limit

VARIABLES
    standing,   \* the decision in force on each run
    trail       \* the audit trail, newest first

ledgerVars == <<standing, trail>>

Newest(log) == SubSeq(log, 1, IF Len(log) < Limit THEN Len(log) ELSE Limit)

Init ==
    /\ standing = [run \in Runs |-> NoDecision]
    /\ trail = <<>>

Decide(run, decision) ==
    /\ standing' = [standing EXCEPT ![run] = decision]
    /\ trail' = Newest(<<[run |-> run, previous |-> standing[run],
                          new |-> decision]>> \o trail)

Next == \E run \in Runs, decision \in Decisions : Decide(run, decision)

Spec == Init /\ [][Next]_ledgerVars
=============================================================================
