---------------------------- MODULE Publication -----------------------------
(***************************************************************************)
(* What output.Create promises whoever uses the module directory, run after  *)
(* run: the module in it is one run's, whole, or no run's.  A run takes the   *)
(* module of an earlier run out of use before it publishes its own, with its *)
(* last step, and reports success then and only then.                        *)
(***************************************************************************)
EXTENDS Naturals

CONSTANTS
    MaxRuns  \* bound: how many times timonify runs on the directory

VARIABLES
    run,       \* number of the run
    status,    \* what it is doing, or has reported
    published  \* the run whose module is in the directory, or 0

publicationVars == <<run, status, published>>

Init == run = 0 /\ status = "idle" /\ published = 0

Begin ==
    /\ status = "idle"
    /\ run < MaxRuns
    /\ run' = run + 1
    /\ status' = "running"
    /\ UNCHANGED published

Unpublish ==
    /\ status = "running"
    /\ published' = 0
    /\ UNCHANGED <<run, status>>

Publish ==
    /\ status = "running"
    /\ published = 0
    /\ published' = run
    /\ status' = "ok"
    /\ UNCHANGED run

(* The run reports an error or dies, perhaps in the middle of a write.       *)
GiveUp ==
    /\ status = "running"
    /\ status' \in {"failed", "idle"}
    /\ published' \in {published, 0}
    /\ UNCHANGED run

Rest ==
    /\ status \in {"ok", "failed"}
    /\ status' = "idle"
    /\ UNCHANGED <<run, published>>

Next == Begin \/ Unpublish \/ Publish \/ GiveUp \/ Rest

Spec == Init /\ [][Next]_publicationVars
=============================================================================
