----------------------------- MODULE MCBackfill -----------------------------
(* Plans for the small instance of Backfill. *)
EXTENDS Backfill, TLC

CONSTANTS f1, f2, r1, r2, r3

\* Both flows replay r1, one as its first run and one as its second, so that
\* they may restore it at once or one after the other; there is no archive for r2.
PlanCrossing == f1 :> <<r1, r2>> @@ f2 :> <<r3, r1>>
=============================================================================
