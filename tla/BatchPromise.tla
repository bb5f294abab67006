----------------------------- MODULE BatchPromise ----------------------------
(***************************************************************************)
(* What a Batch promises to whoever watches it, without owner, versions or *)
(* control commands: every member gets an outcome, only then the Batch     *)
(* gets a result, and the result does not hide a failure.  Both are taken  *)
(* back together, by the retry of one member.                              *)
(***************************************************************************)
CONSTANT Members

VARIABLES outcome,   \* outcome[k]: "Open" or how Job k ended
          result     \* "Open" or how the Batch ended

vars == <<outcome, result>>

Init == outcome = [k \in Members |-> "Open"] /\ result = "Open"

Settle(k) == /\ result = "Open" /\ outcome[k] = "Open"
             /\ \E s \in {"Done", "DoneDegraded", "Failed", "Cancelled"} :
                    outcome' = [outcome EXCEPT ![k] = s]
             /\ UNCHANGED result

Conclude == /\ result = "Open"
            /\ \A k \in Members : outcome[k] # "Open"
            /\ result' \in {"Done", "Failed", "Cancelled"}
            /\ result' = "Done" => \A k \in Members : outcome[k] # "Failed"
            /\ UNCHANGED outcome

Reopen(k) == /\ outcome[k] \in {"DoneDegraded", "Failed", "Cancelled"}
             /\ outcome' = [outcome EXCEPT ![k] = "Open"]
             /\ result' = "Open"

Next == Conclude \/ \E k \in Members : Settle(k) \/ Reopen(k)

Spec == Init /\ [][Next]_vars

=============================================================================
