---------------------------- MODULE JobLifecycle ----------------------------
(***************************************************************************)
(* What the job runner promises to the routes and streams built on it,     *)
(* stated without child processes, pipes or event queues: a job is         *)
(* registered, publishes output while it runs, ends exactly once with one  *)
(* verdict, and publishes no output after its end was announced.           *)
(***************************************************************************)
EXTENDS Naturals

VARIABLES
    phase,     \* "absent", "stuck" (registered, never spawned), "running", "ended"
    output,    \* number of output chunks published so far
    verdict    \* "none" until the end is announced

lifecycleVars == <<phase, output, verdict>>

Init ==
    /\ phase = "absent"
    /\ output = 0
    /\ verdict = "none"

Register ==
    /\ phase = "absent"
    /\ phase' \in {"stuck", "running"}
    /\ UNCHANGED <<output, verdict>>

Publish ==
    /\ phase = "running"
    /\ output' = output + 1
    /\ UNCHANGED <<phase, verdict>>

Conclude ==
    /\ phase = "running"
    /\ phase' = "ended"
    /\ verdict' \in {"succeeded", "failed"}
    /\ UNCHANGED output

Next == Register \/ Publish \/ Conclude

Spec == Init /\ [][Next]_lifecycleVars
=============================================================================
