------------------------- MODULE WorkUnitAggregate --------------------------
(***************************************************************************)
(* The WorkUnit aggregate of crates/domain/src/workflow/work_unit.rs, one  *)
(* chunk of audio to transcribe.  As in JobAggregate a method is a pair of *)
(* operators: CanX(u), and the unit X(u) it leaves behind.                 *)
(*                                                                         *)
(* A lease is the time it still has to run; 0 is an expired one.  The      *)
(* artifact of a unit is set by complete and cleared by whatever leaves    *)
(* Done, so the status says whether there is one.  Left out: the attempt   *)
(* counter, by which no statement that runs decides anything, and the      *)
(* methods nothing calls (fail_with_auto_retry,                            *)
(* requeue_after_oom_strategy_change).                                     *)
(***************************************************************************)
EXTENDS Integers

CONSTANT LeaseTime       \* 600 s in the code

ASSUME LeaseAssumption == LeaseTime \in Nat \ {0}

NoLease == -1

UnitTerminal == {"Done", "Failed", "Cancelled"}
UnitStatus == {"Pending", "Running"} \union UnitTerminal
WorkUnit == [status : UnitStatus, lease : NoLease .. LeaseTime]

Is(status) == [status |-> status, lease |-> NoLease]
NewUnit == Is("Pending")

\* lease_for and complete.
CanLease(u) == u.status = "Pending"
Lease(u) == [status |-> "Running", lease |-> LeaseTime]
CanComplete(u) == u.status = "Running" /\ u.lease # NoLease
Complete(u) == Is("Done")

CanFailUnit(u) == u.status = "Running"
FailUnit(u) == Is("Failed")
\* Slip: what ended may be cancelled.
CanCancelAny(u) == TRUE
CanCancelUnit(u) == u.status \notin UnitTerminal
CancelUnit(u) == Is("Cancelled")

CanRecoverExpired(u) == u.status = "Running" /\ u.lease = 0
RecoverExpired(u) == NewUnit

\* The file of the unit is gone, or a retry runs its stage again.
Invalidate(u) == NewUnit

\* Slip: a cancelled unit is over for good.
CanRetryFailed(u) == u.status = "Failed"
CanRetryUnit(u) == u.status \in {"Failed", "Cancelled"}
RetryUnit(u) == NewUnit

=============================================================================
