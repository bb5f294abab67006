----------------------------- MODULE JobProgress -----------------------------
(***************************************************************************)
(* What a Job promises to whoever watches it, without its stage table: the *)
(* stages whose result may be relied on, and an outcome.  Stages are       *)
(* finished one after the other; success is announced only when all are,   *)
(* "degraded" exactly when one of them was; and a Job is reopened with a   *)
(* prefix of the stages it had finished.                                   *)
(***************************************************************************)
EXTENDS Integers

CONSTANT StageCount

VARIABLES finished,   \* the stages that have a usable result
          degraded,   \* those of them that are degraded
          outcome     \* "Open" or how the Job ended

vars == <<finished, degraded, outcome>>

Init == finished = {} /\ degraded = {} /\ outcome = "Open"

\* The next stage gets its result.
Advance == /\ outcome = "Open"
           /\ \E k \in (1 .. StageCount) \ finished :
                 /\ 1 .. k - 1 \subseteq finished
                 /\ finished' = finished \union {k}
                 /\ degraded' \in {degraded, degraded \union {k}}
           /\ UNCHANGED outcome

Succeed == /\ outcome = "Open"
           /\ finished = 1 .. StageCount
           /\ outcome' = IF degraded = {} THEN "Done" ELSE "DoneDegraded"
           /\ UNCHANGED <<finished, degraded>>

GiveUp == /\ outcome = "Open"
          /\ outcome' \in {"Failed", "Cancelled"}
          /\ UNCHANGED <<finished, degraded>>

\* A retry, or the startup recovery of a Job whose artifact is gone.
Reopen == /\ outcome' = "Open"
          /\ \E k \in 1 .. StageCount :
                /\ finished' = {i \in finished : i < k}
                /\ degraded' = {i \in degraded : i < k}

Next == Advance \/ Succeed \/ GiveUp \/ Reopen

Spec == Init /\ [][Next]_vars

=============================================================================
