-------------------------- MODULE RequestScheduler --------------------------
(***************************************************************************)
(* The actor RequestScheduler (Sources/MeiCore/Scheduling.swift): bounded, *)
(* prioritised admission in front of the inference slot(s).                *)
(*                                                                         *)
(* One element of Requests is one call of submit(priority:operation:),     *)
(* made by a task of its own.  The actor runs one job at a time, so every  *)
(* action below is one actor job (the code between two awaits), one step   *)
(* of a detached task (queue-wait timer, cancelWaiter task) or one step of *)
(* the environment (a client cancels, the operation ends).                 *)
(*                                                                         *)
(* Abstracted: wall-clock durations (queueWaitMilliseconds and the         *)
(* cancel-to-release samples) and the value an operation returns.          *)
(***************************************************************************)
EXTENDS Integers, FiniteSets

CONSTANTS
    Requests,              \* calls of submit
    MaxActiveGenerations,  \* limits.maxActiveGenerations, clamped to >= 1
    MaxQueueDepth,         \* limits.maxQueueDepth; 0 = no queue
    BoundedWait            \* limits.queueWaitTimeoutMilliseconds > 0

ASSUME RequestsAssumption == IsFiniteSet(Requests)
ASSUME SlotAssumption     == MaxActiveGenerations \in Nat \ {0}
ASSUME QueueAssumption    == MaxQueueDepth \in Nat
ASSUME WaitAssumption     == BoundedWait \in BOOLEAN

Priorities == {"interactive", "background"}

\* Operators named X_Y are deliberate bugs Y in the operator X that follows; no
\* specification uses them.  They show that the properties can fail.
Rank_OneClass(p) == 0

\* RequestPriority.rank: the lower rank is served first.
Rank(p) == IF p = "interactive" THEN 0 ELSE 1

\* How submit ended for a request.  "cancelledSilently" is the throw in acquire
\* of a task cancelled before it reached the queue, which no counter counts.
Refused == {"rejectedQueueFull", "rejectedTimeout", "cancelledQueued",
            "cancelledSilently"}
Released == {"completed", "failed", "cancelledActive"}
Settled == Refused \cup Released

\* The operation closure has ended and submit has not released the slot yet.
Ended == {"returned", "threw", "threwCancellation"}
Holding == {"granted", "running"} \cup Ended
Phases == {"idle", "waiting"} \cup Holding \cup Settled

CounterNames == {"admitted", "completed", "failed", "cancelledQueued",
                 "cancelledActive", "rejectedQueueFull", "rejectedTimeout",
                 "slotReleases", "peakActiveGenerations"}

VARIABLES
    phase,              \* where each call of submit is
    priority,           \* the priority it was submitted with
    waiterID,           \* the id acquire gave it
    waiters,            \* the actor's waiters array; array order is id order
    nextWaiterID,
    activeGenerations,
    counters,
    isCancelled,        \* Task.isCancelled of the calling task
    cancelTasks,        \* onCancel's Task { await cancelWaiter(id:) }, not run yet
    timer               \* waiter.timeoutTask: sleeping, past its guard, or gone

vars == <<phase, priority, waiterID, waiters, nextWaiterID, activeGenerations,
          counters, isCancelled, cancelTasks, timer>>

TimerStates == {"none", "sleeping", "firing"}

TypeOK ==
    /\ phase \in [Requests -> Phases]
    /\ priority \in [Requests -> Priorities]
    /\ waiterID \in [Requests -> Nat]
    /\ waiters \subseteq Requests
    /\ nextWaiterID \in Nat
    /\ activeGenerations \in Nat
    /\ counters \in [CounterNames -> Nat]
    /\ isCancelled \in [Requests -> BOOLEAN]
    /\ cancelTasks \subseteq Requests
    /\ timer \in [Requests -> TimerStates]

Init ==
    /\ phase = [r \in Requests |-> "idle"]
    /\ priority = [r \in Requests |-> "interactive"]
    /\ waiterID = [r \in Requests |-> 0]
    /\ waiters = {}
    /\ nextWaiterID = 0
    /\ activeGenerations = 0
    /\ counters = [c \in CounterNames |-> 0]
    /\ isCancelled = [r \in Requests |-> FALSE]
    /\ cancelTasks = {}
    /\ timer = [r \in Requests |-> "none"]

-----------------------------------------------------------------------------
(* Counters and slots                                                      *)

Bump(c, name) == [c EXCEPT ![name] = @ + 1]

\* counters.peakActiveGenerations after `active` generations are active.
RaisePeak(c, active) ==
    [c EXCEPT !["peakActiveGenerations"] = IF active > @ THEN active ELSE @]

\* The scan's order: the lowest (rank, id) pair is served first.
Before(a, b) ==
    \/ Rank(priority[a]) < Rank(priority[b])
    \/ /\ Rank(priority[a]) = Rank(priority[b])
       /\ waiterID[a] < waiterID[b]

GrantNextWaiter_Never(free) == {{}}

\* grantNextWaiter: the waiters its loop resumes when `free` slots are free.
GrantNextWaiter(free) ==
    {G \in SUBSET waiters :
        /\ Cardinality(G) <= free
        /\ G # waiters => Cardinality(G) = free
        /\ \A g \in G, w \in waiters \ G : Before(g, w)}

CancelTimers_All(S) ==
    [r \in Requests |-> IF timer[r] = "sleeping" THEN "none" ELSE timer[r]]

\* A cancelled timer returns from its sleep without expiring anybody; one that
\* is already past its isCancelled guard still runs expireWaiter.
CancelTimers(S) ==
    [r \in Requests |-> IF r \in S /\ timer[r] = "sleeping" THEN "none" ELSE timer[r]]

SlotsLeft_DoubleRelease == activeGenerations - 2

\* The active count after a release: asserted positive, clamped at zero.
SlotsLeft == IF activeGenerations > 0 THEN activeGenerations - 1 ELSE 0

\* release(grant:outcome:) followed by grantNextWaiter, as one actor job.
Release(r, end, outcomeCounter) ==
    LET left == SlotsLeft
        counted == Bump(Bump(counters, "slotReleases"), outcomeCounter)
    IN \E G \in GrantNextWaiter(MaxActiveGenerations - left) :
        /\ phase' = [q \in Requests |-> IF q = r THEN end
                                        ELSE IF q \in G THEN "granted"
                                        ELSE phase[q]]
        /\ waiters' = waiters \ G
        /\ timer' = CancelTimers(G)
        /\ activeGenerations' = left + Cardinality(G)
        /\ counters' = IF G = {} THEN counted
                       ELSE RaisePeak(counted, left + Cardinality(G))

-----------------------------------------------------------------------------
(* submit -> acquire, up to its continuation                               *)

SlotIsFree_OffByOne == activeGenerations <= MaxActiveGenerations

SlotIsFree == activeGenerations < MaxActiveGenerations

QueueHasRoom_OffByOne == Cardinality(waiters) <= MaxQueueDepth

QueueHasRoom == Cardinality(waiters) < MaxQueueDepth

Arrive(r, p) ==
    /\ phase[r] = "idle"
    /\ priority' = [priority EXCEPT ![r] = p]
    /\ waiterID' = [waiterID EXCEPT ![r] = nextWaiterID]
    /\ nextWaiterID' = nextWaiterID + 1

\* The task was cancelled before the continuation body ran: onCancel has spawned
\* its cancelWaiter task at once, and acquire throws without counting anything.
AcquireCancelled(r, p) ==
    /\ Arrive(r, p)
    /\ isCancelled[r]
    /\ cancelTasks' = cancelTasks \cup {r}
    /\ phase' = [phase EXCEPT ![r] = "cancelledSilently"]
    /\ UNCHANGED <<waiters, activeGenerations, counters, isCancelled, timer>>

\* A slot is free and nobody waits.
AcquireFast(r, p) ==
    /\ Arrive(r, p)
    /\ ~isCancelled[r]
    /\ SlotIsFree
    /\ waiters = {}
    /\ activeGenerations' = activeGenerations + 1
    /\ counters' = RaisePeak(counters, activeGenerations + 1)
    /\ phase' = [phase EXCEPT ![r] = "granted"]
    /\ UNCHANGED <<waiters, isCancelled, cancelTasks, timer>>

AcquireQueueFull(r, p) ==
    /\ Arrive(r, p)
    /\ ~isCancelled[r]
    /\ ~(SlotIsFree /\ waiters = {})
    /\ ~QueueHasRoom
    /\ counters' = Bump(counters, "rejectedQueueFull")
    /\ phase' = [phase EXCEPT ![r] = "rejectedQueueFull"]
    /\ UNCHANGED <<waiters, activeGenerations, isCancelled, cancelTasks, timer>>

AcquireEnqueue(r, p) ==
    /\ Arrive(r, p)
    /\ ~isCancelled[r]
    /\ ~(SlotIsFree /\ waiters = {})
    /\ QueueHasRoom
    /\ waiters' = waiters \cup {r}
    /\ timer' = [timer EXCEPT ![r] = IF BoundedWait THEN "sleeping" ELSE "none"]
    /\ phase' = [phase EXCEPT ![r] = "waiting"]
    /\ UNCHANGED <<activeGenerations, counters, isCancelled, cancelTasks>>

-----------------------------------------------------------------------------
(* Settling a waiter without a slot                                        *)

StillWaiting_NotChecked(r) == TRUE

\* The settle paths' guard: the waiter is still in the array.
StillWaiting(r) == r \in waiters

\* cancelWaiter(id:) runs on the actor: a no-op unless r still waits.
CancelWaiter(r) ==
    /\ r \in cancelTasks
    /\ cancelTasks' = cancelTasks \ {r}
    /\ IF StillWaiting(r)
         THEN /\ waiters' = waiters \ {r}
              /\ timer' = CancelTimers({r})
              /\ counters' = Bump(counters, "cancelledQueued")
              /\ phase' = [phase EXCEPT ![r] = "cancelledQueued"]
         ELSE UNCHANGED <<waiters, timer, counters, phase>>
    /\ UNCHANGED <<priority, waiterID, nextWaiterID, activeGenerations, isCancelled>>

\* The timer's sleep ends and its isCancelled guard passes; expireWaiter is
\* enqueued on the actor.
TimerElapses(r) ==
    /\ timer[r] = "sleeping"
    /\ timer' = [timer EXCEPT ![r] = "firing"]
    /\ UNCHANGED <<phase, priority, waiterID, waiters, nextWaiterID,
                   activeGenerations, counters, isCancelled, cancelTasks>>

\* expireWaiter(id:) runs on the actor: a no-op unless r still waits.
ExpireWaiter(r) ==
    /\ timer[r] = "firing"
    /\ timer' = [timer EXCEPT ![r] = "none"]
    /\ IF StillWaiting(r)
         THEN /\ waiters' = waiters \ {r}
              /\ counters' = Bump(counters, "rejectedTimeout")
              /\ phase' = [phase EXCEPT ![r] = "rejectedTimeout"]
         ELSE UNCHANGED <<waiters, counters, phase>>
    /\ UNCHANGED <<priority, waiterID, nextWaiterID, activeGenerations,
                   isCancelled, cancelTasks>>

-----------------------------------------------------------------------------
(* submit, from the grant to the release                                   *)

Start_NoCancelCheck(r) ==
    /\ phase[r] = "granted"
    /\ counters' = Bump(counters, "admitted")
    /\ phase' = [phase EXCEPT ![r] = "running"]
    /\ UNCHANGED <<priority, waiterID, waiters, nextWaiterID, activeGenerations,
                   isCancelled, cancelTasks, timer>>

\* submit resumes holding a slot: the operation starts ...
Start(r) ==
    /\ phase[r] = "granted"
    /\ ~isCancelled[r]
    /\ counters' = Bump(counters, "admitted")
    /\ phase' = [phase EXCEPT ![r] = "running"]
    /\ UNCHANGED <<priority, waiterID, waiters, nextWaiterID, activeGenerations,
                   isCancelled, cancelTasks, timer>>

CancelBeforeStart_CountedActive(r) ==
    /\ phase[r] = "granted"
    /\ isCancelled[r]
    /\ Release(r, "cancelledQueued", "cancelledActive")
    /\ UNCHANGED <<priority, waiterID, nextWaiterID, isCancelled, cancelTasks>>

\* ... unless the task was cancelled between the grant and this step.
CancelBeforeStart(r) ==
    /\ phase[r] = "granted"
    /\ isCancelled[r]
    /\ Release(r, "cancelledQueued", "cancelledQueued")
    /\ UNCHANGED <<priority, waiterID, nextWaiterID, isCancelled, cancelTasks>>

\* The operation closure ends, off the actor; any of its three ends may come
\* with or without a cancelled task.
OperationEnds(r) ==
    /\ phase[r] = "running"
    /\ \E e \in Ended : phase' = [phase EXCEPT ![r] = e]
    /\ UNCHANGED <<priority, waiterID, waiters, nextWaiterID, activeGenerations,
                   counters, isCancelled, cancelTasks, timer>>

\* releaseOutcome(error:): how submit classifies the end of the operation.
ReleaseOutcome(r) ==
    IF isCancelled[r] \/ phase[r] = "threwCancellation" THEN "cancelledActive"
    ELSE IF phase[r] = "returned" THEN "completed" ELSE "failed"

Finish(r) ==
    /\ phase[r] \in Ended
    /\ Release(r, ReleaseOutcome(r), ReleaseOutcome(r))
    /\ UNCHANGED <<priority, waiterID, nextWaiterID, isCancelled, cancelTasks>>

-----------------------------------------------------------------------------
(* The environment                                                         *)

\* The caller's task is cancelled.  Inside acquire the onCancel handler spawns
\* a cancelWaiter task, also when the grant is already on its way.
Cancel(r) ==
    /\ ~isCancelled[r]
    /\ phase[r] \notin Settled
    /\ isCancelled' = [isCancelled EXCEPT ![r] = TRUE]
    /\ cancelTasks' = IF phase[r] \in {"waiting", "granted"}
                      THEN cancelTasks \cup {r} ELSE cancelTasks
    /\ UNCHANGED <<phase, priority, waiterID, waiters, nextWaiterID,
                   activeGenerations, counters, timer>>

\* Every call has settled and no detached task is left: nothing more to do.
Quiescent ==
    /\ \A r \in Requests : phase[r] \in Settled /\ timer[r] = "none"
    /\ cancelTasks = {}
    /\ UNCHANGED vars

Submit(r) ==
    \E p \in Priorities :
        \/ AcquireCancelled(r, p)
        \/ AcquireFast(r, p)
        \/ AcquireQueueFull(r, p)
        \/ AcquireEnqueue(r, p)

ActorStep(r) ==
    \/ CancelWaiter(r)
    \/ ExpireWaiter(r)
    \/ Start(r)
    \/ CancelBeforeStart(r)
    \/ Finish(r)

Step(r) ==
    \/ Submit(r)
    \/ ActorStep(r)
    \/ TimerElapses(r)
    \/ OperationEnds(r)
    \/ Cancel(r)

Next == (\E r \in Requests : Step(r)) \/ Quiescent

Spec == Init /\ [][Next]_vars

\* The Swift runtime runs every enqueued actor job and every sleep ends.
ActorFairness ==
    \A r \in Requests : /\ WF_vars(CancelWaiter(r))
                        /\ WF_vars(ExpireWaiter(r))
                        /\ WF_vars(Start(r) \/ CancelBeforeStart(r))
                        /\ WF_vars(Finish(r))
                        /\ WF_vars(TimerElapses(r))

\* Only the actor is fair: a generation may run forever.
ActorFairSpec == Spec /\ ActorFairness

\* Generations also end, as max_tokens and cancellation make them.
FairSpec == ActorFairSpec /\ \A r \in Requests : WF_vars(OperationEnds(r))

-----------------------------------------------------------------------------
(* What the scheduler promises                                             *)

Holders == {r \in Requests : phase[r] \in Holding}

\* "At most maxActiveGenerations requests run at any instant", and the count the
\* actor and /v1/mei/status work from is exactly the number of requests that
\* hold a slot, through every grant, cancelled grant and release.
SlotAccounting ==
    /\ activeGenerations = Cardinality(Holders)
    /\ activeGenerations <= MaxActiveGenerations
    /\ counters["peakActiveGenerations"] <= MaxActiveGenerations
    /\ activeGenerations <= counters["peakActiveGenerations"]

\* No idle slot beside a waiting request: neither a waiter that leaves (cancel,
\* timeout) nor a release can strand the queue, although only release calls
\* grantNextWaiter.
WorkConserving == waiters # {} => activeGenerations = MaxActiveGenerations

\* "continuation is non-nil exactly while the request is waiting": a request is
\* in the array exactly while its acquire is suspended, so that grant, cancel
\* and timeout settle it once between them; and the queue keeps its bound.
QueueIsTheWaiting ==
    /\ waiters = {r \in Requests : phase[r] = "waiting"}
    /\ Cardinality(waiters) <= MaxQueueDepth

\* The counters of the status surface: every admitted generation is accounted
\* for once, and every call of submit is waiting, holds a slot, was counted under
\* one outcome, or is the one kind acquire drops without counting.
Ledger ==
    LET c == counters
        ended == c["completed"] + c["failed"] + c["cancelledActive"]
        silent == {r \in Requests : phase[r] = "cancelledSilently"}
        granted == {r \in Requests : phase[r] = "granted"}
    IN /\ c["admitted"] = ended + activeGenerations - Cardinality(granted)
       /\ ended <= c["slotReleases"]
       /\ c["slotReleases"] <= ended + c["cancelledQueued"]
       /\ nextWaiterID = Cardinality(waiters) + activeGenerations + ended
                           + c["cancelledQueued"] + c["rejectedQueueFull"]
                           + c["rejectedTimeout"] + Cardinality(silent)

\* Service order: whoever gets a slot, on arrival or from the queue, is before
\* every request that is still waiting afterwards (interactive before
\* background, FIFO within a class, no arrival overtakes the queue).
NoOvertaking ==
    [][\A r \in Requests :
          phase[r] \notin Holding /\ phase'[r] \in Holding
            => \A w \in waiters' : Before(r, w)']_vars

\* A call of submit ends once: nothing that is late (a timer past its guard, a
\* cancelWaiter task, a grant) moves a request that already settled, and a
\* refused request never gets to run.
SettledOnce ==
    [][\A r \in Requests : phase[r] \in Settled => phase'[r] = phase[r]]_vars

\* "Cancelling the caller's task while queued removes the request without
\* running it", also when the grant wins the race against cancelWaiter.
CancelledInQueueNeverRuns ==
    [][\A r \in Requests :
          isCancelled[r] /\ phase[r] \in {"waiting", "granted"}
            => phase'[r] \notin {"running"} \cup Ended]_vars

\* With a wait budget a queued request leaves the queue even if the running
\* generations never end; a cancelled one leaves it with or without a budget.
EveryWaitEnds ==
    \A r \in Requests : r \in waiters /\ (BoundedWait \/ isCancelled[r]) ~> r \notin waiters

\* Every call of submit returns or throws when the running generations end, and
\* its slot is free again.
EverySubmitSettles ==
    \A r \in Requests : phase[r] # "idle" ~> phase[r] \in Settled
=============================================================================
