--------------------- MODULE RequestSchedulerRefinement ---------------------
(***************************************************************************)
(* RequestScheduler implements AdmissionContract: the scan of an unordered *)
(* array, the detached tasks and the counters amount to a queue in which   *)
(* everybody knows who is ahead.                                           *)
(***************************************************************************)
EXTENDS RequestScheduler

StatusOf(p) ==
    IF p = "idle" THEN "outside"
    ELSE IF p = "waiting" THEN "queued"
    ELSE IF p \in Holding THEN "holding"
    ELSE "gone"

Status == [r \in Requests |-> StatusOf(phase[r])]
Withdrawn == {r \in Requests : isCancelled[r]}
Ahead == [r \in Requests |->
            IF r \in waiters THEN {w \in waiters : Before(w, r)} ELSE {}]

Contract == INSTANCE AdmissionContract
    WITH status <- Status, class <- priority, ahead <- Ahead,
         withdrawn <- Withdrawn

\* Every behaviour of the scheduler is one the contract allows: a slot is never
\* idle beside a queue, goes to the right waiter in the same step, and nobody is
\* refused without a full queue, a spent budget or a cancelled caller.
ImplementsContract == Contract!Spec
=============================================================================
