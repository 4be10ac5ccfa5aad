----------------------- MODULE RequestScheduler_proofs ----------------------
(***************************************************************************)
(* Theorems about RequestScheduler for every finite set of requests, every *)
(* number of slots and every queue bound; the last of them that it         *)
(* implements AdmissionContract: each step of the scheduler is a step of   *)
(* the contract, or changes nothing the contract sees.                     *)
(***************************************************************************)
EXTENDS RequestSchedulerRefinement, FiniteSetTheorems, TLAPS

-----------------------------------------------------------------------------
(* Operators                                                               *)

\* Counting one more keeps the counters numbers.
LEMMA BumpType ==
    ASSUME NEW c \in [CounterNames -> Nat], NEW n \in CounterNames
    PROVE  Bump(c, n) \in [CounterNames -> Nat]
  BY DEF Bump

\* beginActiveGeneration keeps the counters numbers.
LEMMA RaisePeakType ==
    ASSUME NEW c \in [CounterNames -> Nat], NEW a \in Nat
    PROVE  RaisePeak(c, a) \in [CounterNames -> Nat]
  BY DEF RaisePeak, CounterNames

\* Cancelling timers leaves every timer in one of its states.
LEMMA CancelTimersType ==
    ASSUME timer \in [Requests -> TimerStates], NEW S
    PROVE  CancelTimers(S) \in [Requests -> TimerStates]
  BY DEF CancelTimers, TimerStates

\* The clamp of release keeps the active count from going below zero.
LEMMA SlotsLeftType ==
    ASSUME activeGenerations \in Nat
    PROVE  SlotsLeft \in Nat
  BY DEF SlotsLeft

\* What the grant loop hands out: a part of the queue, no larger than the free
\* slots, and all of the queue unless the slots run out.
LEMMA GrantSize ==
    ASSUME waiters \subseteq Requests, NEW free \in Int,
           NEW G \in GrantNextWaiter(free)
    PROVE  /\ G \subseteq waiters
           /\ IsFiniteSet(G)
           /\ IsFiniteSet(waiters)
           /\ Cardinality(G) \in Nat
           /\ Cardinality(G) <= free
           /\ G # waiters => Cardinality(G) = free
  <1>1. G \subseteq waiters /\ Cardinality(G) <= free
        /\ (G # waiters => Cardinality(G) = free)
    BY DEF GrantNextWaiter
  <1>2. IsFiniteSet(waiters) /\ IsFiniteSet(G)
    BY <1>1, RequestsAssumption, FS_Subset
  <1> QED
    BY <1>1, <1>2, FS_CardinalityType

-----------------------------------------------------------------------------
(* Typing                                                                  *)

\* A release, and the grants it makes, keep the type of what they write.
LEMMA ReleaseType ==
    ASSUME TypeOK, NEW r \in Requests, NEW end \in Phases,
           NEW out \in CounterNames, Release(r, end, out)
    PROVE  /\ phase' \in [Requests -> Phases]
           /\ waiters' \subseteq Requests
           /\ timer' \in [Requests -> TimerStates]
           /\ activeGenerations' \in Nat
           /\ counters' \in [CounterNames -> Nat]
  <1> DEFINE counted == Bump(Bump(counters, "slotReleases"), out)
  <1>1. PICK G \in GrantNextWaiter(MaxActiveGenerations - SlotsLeft) :
          /\ phase' = [q \in Requests |-> IF q = r THEN end
                                          ELSE IF q \in G THEN "granted"
                                          ELSE phase[q]]
          /\ waiters' = waiters \ G
          /\ timer' = CancelTimers(G)
          /\ activeGenerations' = SlotsLeft + Cardinality(G)
          /\ counters' = IF G = {} THEN counted
                         ELSE RaisePeak(counted, SlotsLeft + Cardinality(G))
    BY DEF Release
  <1>2. SlotsLeft \in Nat /\ MaxActiveGenerations - SlotsLeft \in Int
    BY SlotsLeftType, SlotAssumption DEF TypeOK
  <1>3. Cardinality(G) \in Nat
    BY <1>2, GrantSize DEF TypeOK
  <1>4. counted \in [CounterNames -> Nat]
    BY BumpType DEF TypeOK, CounterNames
  <1>5. counters' \in [CounterNames -> Nat]
    <2>1. SlotsLeft + Cardinality(G) \in Nat
      BY <1>2, <1>3
    <2> HIDE DEF counted
    <2> QED
      BY <1>1, <1>4, <2>1, RaisePeakType
  <1>6. phase' \in [Requests -> Phases]
    BY <1>1 DEF TypeOK, Phases, Holding
  <1>7. timer' \in [Requests -> TimerStates]
    BY <1>1, CancelTimersType DEF TypeOK
  <1> QED
    BY <1>1, <1>2, <1>3, <1>5, <1>6, <1>7 DEF TypeOK

\* The scheduler starts in a typed state.
LEMMA InitType == Init => TypeOK
  BY DEF Init, TypeOK, Phases, Priorities, TimerStates

\* Every action keeps the type of every variable.
LEMMA NextType == TypeOK /\ [Next]_vars => TypeOK'
  <1> SUFFICES ASSUME TypeOK, [Next]_vars PROVE TypeOK'
    OBVIOUS
  <1> USE DEF TypeOK
  <1>1. CASE UNCHANGED vars
    BY <1>1 DEF vars
  <1>2. ASSUME NEW r \in Requests, NEW p \in Priorities,
               AcquireCancelled(r, p) \/ AcquireFast(r, p)
                 \/ AcquireQueueFull(r, p) \/ AcquireEnqueue(r, p)
        PROVE  TypeOK'
    <2>1. /\ priority' \in [Requests -> Priorities]
          /\ waiterID' \in [Requests -> Nat]
          /\ nextWaiterID' \in Nat
          /\ phase' \in [Requests -> Phases]
      BY <1>2 DEF AcquireCancelled, AcquireFast, AcquireQueueFull, AcquireEnqueue,
                  Arrive, Phases, Holding, Settled, Refused
    <2>2. /\ waiters' \subseteq Requests
          /\ activeGenerations' \in Nat
          /\ isCancelled' \in [Requests -> BOOLEAN]
          /\ cancelTasks' \subseteq Requests
          /\ timer' \in [Requests -> TimerStates]
      BY <1>2 DEF AcquireCancelled, AcquireFast, AcquireQueueFull, AcquireEnqueue,
                  TimerStates
    <2>3. counters' \in [CounterNames -> Nat]
      <3>1. activeGenerations + 1 \in Nat /\ "rejectedQueueFull" \in CounterNames
        BY DEF CounterNames
      <3> QED
        BY <1>2, <3>1, BumpType, RaisePeakType
           DEF AcquireCancelled, AcquireFast, AcquireQueueFull, AcquireEnqueue
    <2> QED
      BY <2>1, <2>2, <2>3
  <1>3. ASSUME NEW r \in Requests, CancelWaiter(r) PROVE TypeOK'
    BY <1>3, BumpType, CancelTimersType
       DEF CancelWaiter, CounterNames, Phases, Settled, Refused
  <1>4. ASSUME NEW r \in Requests, ExpireWaiter(r) PROVE TypeOK'
    BY <1>4, BumpType
       DEF ExpireWaiter, CounterNames, Phases, Settled, Refused, TimerStates
  <1>5. ASSUME NEW r \in Requests, Start(r) PROVE TypeOK'
    BY <1>5, BumpType DEF Start, CounterNames, Phases, Holding
  <1>6. ASSUME NEW r \in Requests, CancelBeforeStart(r) PROVE TypeOK'
    BY <1>6, ReleaseType DEF CancelBeforeStart, CounterNames, Phases, Settled, Refused
  <1>7. ASSUME NEW r \in Requests, Finish(r) PROVE TypeOK'
    <2>1. ReleaseOutcome(r) \in Phases \cap CounterNames
      BY DEF ReleaseOutcome, CounterNames, Phases, Settled, Released
    <2> QED
      BY <1>7, <2>1, ReleaseType DEF Finish
  <1>8. ASSUME NEW r \in Requests, TimerElapses(r) PROVE TypeOK'
    BY <1>8 DEF TimerElapses, TimerStates
  <1>9. ASSUME NEW r \in Requests, OperationEnds(r) PROVE TypeOK'
    BY <1>9 DEF OperationEnds, Phases, Holding
  <1>10. ASSUME NEW r \in Requests, Cancel(r) PROVE TypeOK'
    BY <1>10 DEF Cancel
  <1> QED
    BY <1>1, <1>2, <1>3, <1>4, <1>5, <1>6, <1>7, <1>8, <1>9, <1>10
       DEF Next, Step, Submit, ActorStep, Quiescent

\* Every variable keeps its type through every step: in particular no release
\* drives the active count below zero.
THEOREM Typing == Spec => []TypeOK
  BY InitType, NextType, PTL DEF Spec

-----------------------------------------------------------------------------
(* The inductive invariant.  SlotAccounting is inductive only with the      *)
(* queue's shape (a request the loop grants held no slot before), and       *)
(* WorkConserving only with SlotAccounting (when somebody waits, a release  *)
(* frees exactly one slot).  IdsDistinct makes Before a total order on the  *)
(* queue.                                                                   *)

IdsDistinct ==
    \A a \in Requests : phase[a] # "idle" =>
        /\ waiterID[a] < nextWaiterID
        /\ \A b \in Requests \ {a} : phase[b] # "idle" => waiterID[a] # waiterID[b]

IInv ==
    /\ TypeOK
    /\ SlotAccounting
    /\ WorkConserving
    /\ QueueIsTheWaiting
    /\ IdsDistinct

\* Slot holders and waiters are finite sets, so that they can be counted.
LEMMA HoldersFinite ==
    /\ IsFiniteSet(Holders)
    /\ Cardinality(Holders) \in Nat
  BY RequestsAssumption, FS_Subset, FS_CardinalityType DEF Holders

\* release hands every slot it frees to the queue, in the same step: the one
\* place where the accounting, the queue and the order of service meet.
LEMMA ReleaseGrants ==
    ASSUME IInv, NEW r \in Holders, NEW end \in Settled, NEW out \in CounterNames,
           out # "peakActiveGenerations", Release(r, end, out)
    PROVE  \E G \in SUBSET waiters :
              /\ phase' = [q \in Requests |-> IF q = r THEN end
                                              ELSE IF q \in G THEN "granted"
                                              ELSE phase[q]]
              /\ waiters' = waiters \ G
              /\ IF waiters = {} THEN G = {} ELSE Cardinality(G) = 1
              /\ \A g \in G, w \in waiters \ G : Before(g, w)
              /\ activeGenerations' = activeGenerations - 1 + Cardinality(G)
              /\ IF G = {}
                   THEN counters'["peakActiveGenerations"]
                          = counters["peakActiveGenerations"]
                   ELSE counters'["peakActiveGenerations"] =
                          IF activeGenerations' > counters["peakActiveGenerations"]
                          THEN activeGenerations'
                          ELSE counters["peakActiveGenerations"]
  <1> DEFINE counted == Bump(Bump(counters, "slotReleases"), out)
  <1>1. PICK G \in GrantNextWaiter(MaxActiveGenerations - SlotsLeft) :
          /\ phase' = [q \in Requests |-> IF q = r THEN end
                                          ELSE IF q \in G THEN "granted"
                                          ELSE phase[q]]
          /\ waiters' = waiters \ G
          /\ activeGenerations' = SlotsLeft + Cardinality(G)
          /\ counters' = IF G = {} THEN counted
                         ELSE RaisePeak(counted, SlotsLeft + Cardinality(G))
    BY DEF Release
  <1>2. r \in Requests /\ waiters \subseteq Requests
    BY DEF IInv, TypeOK, Holders
  <1>3. Cardinality(Holders) # 0
    BY HoldersFinite, FS_EmptySet
  <1>4. /\ activeGenerations \in Nat \ {0}
        /\ MaxActiveGenerations \in Nat
        /\ activeGenerations <= MaxActiveGenerations
        /\ SlotsLeft = activeGenerations - 1
    BY <1>3, SlotAssumption DEF IInv, TypeOK, SlotAccounting, SlotsLeft
  <1>5. /\ G \subseteq waiters
        /\ IsFiniteSet(G) /\ IsFiniteSet(waiters)
        /\ Cardinality(G) \in Nat
        /\ G # waiters => Cardinality(G) = MaxActiveGenerations - SlotsLeft
        /\ Cardinality(G) <= MaxActiveGenerations - SlotsLeft
    BY <1>2, <1>4, GrantSize
  <1>6. IF waiters = {} THEN G = {} ELSE Cardinality(G) = 1
    <2>1. CASE waiters = {}
      BY <1>5, <2>1
    <2>2. CASE waiters # {}
      <3>1. MaxActiveGenerations - SlotsLeft = 1
        BY <1>4, <2>2 DEF IInv, WorkConserving
      <3>2. Cardinality(waiters) # 0
        BY <1>5, <2>2, FS_EmptySet
      <3> QED
        BY <1>5, <2>2, <3>1, <3>2
    <2> QED
      BY <2>1, <2>2
  <1>7. \A g \in G, w \in waiters \ G : Before(g, w)
    BY DEF GrantNextWaiter
  <1>8. counted \in [CounterNames -> Nat]
        /\ counted["peakActiveGenerations"] = counters["peakActiveGenerations"]
    BY BumpType DEF IInv, TypeOK, CounterNames, Bump
  <1>9. G # {} => counters'["peakActiveGenerations"] =
                    IF activeGenerations' > counters["peakActiveGenerations"]
                    THEN activeGenerations' ELSE counters["peakActiveGenerations"]
    <2> HIDE DEF counted
    <2> QED
      BY <1>1, <1>8 DEF RaisePeak, CounterNames
  <1> HIDE DEF counted
  <1> QED
    BY <1>1, <1>4, <1>5, <1>6, <1>7, <1>8, <1>9

\* Giving a slot back keeps the four parts of the invariant.
LEMMA ReleaseKeeps ==
    ASSUME IInv, TypeOK', NEW r \in Holders, NEW end \in Settled,
           NEW out \in CounterNames, out # "peakActiveGenerations",
           Release(r, end, out)
    PROVE  SlotAccounting' /\ WorkConserving' /\ QueueIsTheWaiting'
  <1>1. PICK G \in SUBSET waiters :
              /\ phase' = [q \in Requests |-> IF q = r THEN end
                                              ELSE IF q \in G THEN "granted"
                                              ELSE phase[q]]
              /\ waiters' = waiters \ G
              /\ IF waiters = {} THEN G = {} ELSE Cardinality(G) = 1
              /\ activeGenerations' = activeGenerations - 1 + Cardinality(G)
              /\ IF G = {}
                   THEN counters'["peakActiveGenerations"]
                          = counters["peakActiveGenerations"]
                   ELSE counters'["peakActiveGenerations"] =
                          IF activeGenerations' > counters["peakActiveGenerations"]
                          THEN activeGenerations'
                          ELSE counters["peakActiveGenerations"]
    BY ReleaseGrants
  <1>2. /\ waiters = {q \in Requests : phase[q] = "waiting"}
        /\ IsFiniteSet(waiters) /\ IsFiniteSet(G)
        /\ Cardinality(G) \in Nat /\ Cardinality(waiters) \in Nat
    BY RequestsAssumption, FS_Subset, FS_CardinalityType DEF IInv, QueueIsTheWaiting
  <1>3. r \in Requests /\ phase[r] \in Holding
    BY DEF Holders
  <1>4. Holders' = (Holders \ {r}) \cup G
    BY <1>1, <1>2, <1>3 DEF Holders, Holding, Settled, Refused, Released, Ended
  <1>5. Cardinality(Holders') = Cardinality(Holders) - 1 + Cardinality(G)
    <2>1. /\ IsFiniteSet(Holders \ {r})
          /\ Cardinality(Holders \ {r}) = Cardinality(Holders) - 1
      BY HoldersFinite, FS_RemoveElement
    <2>2. (Holders \ {r}) \cap G = {}
      BY <1>2 DEF Holders, Holding, Ended
    <2>3. Cardinality((Holders \ {r}) \cup G)
            = Cardinality(Holders \ {r}) + Cardinality(G)
              - Cardinality((Holders \ {r}) \cap G)
      BY <1>2, <2>1, FS_Union
    <2>4. Cardinality((Holders \ {r}) \cap G) = 0
      BY <2>2, FS_EmptySet
    <2> QED
      BY <1>2, <1>4, <2>1, <2>3, <2>4, HoldersFinite
  <1>6. QueueIsTheWaiting'
    <2>1. waiters' = {q \in Requests : phase'[q] = "waiting"}
      BY <1>1, <1>2, <1>3 DEF Holding, Ended, Settled, Refused, Released
    <2>2. Cardinality(waiters') <= Cardinality(waiters) /\ Cardinality(waiters') \in Nat
      BY <1>1, <1>2, FS_Subset, FS_CardinalityType
    <2>3. Cardinality(waiters) <= MaxQueueDepth
      BY DEF IInv, QueueIsTheWaiting
    <2> QED
      BY <1>2, <2>1, <2>2, <2>3, QueueAssumption DEF QueueIsTheWaiting
  <1>7. G = {} <=> Cardinality(G) = 0
    BY <1>2, FS_EmptySet
  <1>8. /\ activeGenerations \in Nat /\ MaxActiveGenerations \in Nat
        /\ activeGenerations = Cardinality(Holders)
        /\ activeGenerations <= MaxActiveGenerations
        /\ activeGenerations <= counters["peakActiveGenerations"]
        /\ counters["peakActiveGenerations"] \in Nat
        /\ counters["peakActiveGenerations"] <= MaxActiveGenerations
        /\ waiters # {} => activeGenerations = MaxActiveGenerations
    BY SlotAssumption DEF IInv, TypeOK, SlotAccounting, WorkConserving, CounterNames
  <1>9. SlotAccounting'
    BY <1>1, <1>2, <1>5, <1>7, <1>8 DEF SlotAccounting
  <1>10. WorkConserving'
    BY <1>1, <1>2, <1>7, <1>8 DEF WorkConserving
  <1> QED
    BY <1>6, <1>9, <1>10

\* The queue's bound survives any step that only takes requests out of it.
LEMMA QueueShrinks ==
    ASSUME QueueIsTheWaiting, waiters' \subseteq waiters
    PROVE  Cardinality(waiters') <= MaxQueueDepth
  <1>1. IsFiniteSet(waiters)
    BY RequestsAssumption, FS_Subset DEF QueueIsTheWaiting
  <1>2. /\ Cardinality(waiters') \in Nat /\ Cardinality(waiters) \in Nat
        /\ Cardinality(waiters') <= Cardinality(waiters)
    BY <1>1, FS_Subset, FS_CardinalityType
  <1> QED
    BY <1>2, QueueAssumption DEF QueueIsTheWaiting

\* The inductive invariant holds before the first submit.
LEMMA InitInv == Init => IInv
  <1> SUFFICES ASSUME Init PROVE IInv
    OBVIOUS
  <1>1. TypeOK
    BY InitType
  <1>2. Holders = {}
    BY DEF Init, Holders, Holding, Ended
  <1>3. SlotAccounting
    BY <1>2, FS_EmptySet, SlotAssumption DEF Init, SlotAccounting, CounterNames
  <1>4. QueueIsTheWaiting
    BY FS_EmptySet, QueueAssumption DEF Init, QueueIsTheWaiting
  <1> QED
    BY <1>1, <1>3, <1>4 DEF IInv, WorkConserving, IdsDistinct, Init

\* A step keeps the ids distinct: only an arrival takes one, and it takes a new one.
LEMMA IdsStayDistinct == IInv /\ [Next]_vars => IdsDistinct'
  <1> SUFFICES ASSUME IInv, [Next]_vars PROVE IdsDistinct'
    OBVIOUS
  <1> USE DEF IInv, TypeOK
  <1>1. CASE \E r \in Requests : Submit(r)
    <2>0. PICK r \in Requests : Submit(r)
      BY <1>1
    <2>1. PICK p \in Priorities : Arrive(r, p)
      BY <2>0 DEF Submit, AcquireCancelled, AcquireFast, AcquireQueueFull, AcquireEnqueue
    <2>2. \A q \in Requests \ {r} : phase'[q] = phase[q]
      BY <2>0 DEF Submit, AcquireCancelled, AcquireFast, AcquireQueueFull, AcquireEnqueue
    <2> QED
      BY <2>1, <2>2 DEF IdsDistinct, Arrive
  <1>2. ASSUME NEW r \in Requests, NEW end, NEW out, Release(r, end, out),
               phase[r] # "idle", UNCHANGED <<waiterID, nextWaiterID>>
        PROVE  IdsDistinct'
    <2>1. PICK G \in SUBSET waiters :
             phase' = [q \in Requests |-> IF q = r THEN end
                                          ELSE IF q \in G THEN "granted"
                                          ELSE phase[q]]
      BY <1>2 DEF Release, GrantNextWaiter
    <2>2. \A q \in Requests : phase[q] = "idle" => phase'[q] = "idle"
      BY <1>2, <2>1 DEF QueueIsTheWaiting
    <2> QED
      BY <1>2, <2>1, <2>2 DEF IdsDistinct, QueueIsTheWaiting
  <1>3. ASSUME NEW r \in Requests, ActorStep(r) PROVE IdsDistinct'
    BY <1>2, <1>3 DEF ActorStep, CancelWaiter, ExpireWaiter, Start, CancelBeforeStart,
                      Finish, IdsDistinct, StillWaiting, QueueIsTheWaiting, Ended
  <1>4. ASSUME NEW r \in Requests, TimerElapses(r) \/ OperationEnds(r) \/ Cancel(r)
        PROVE  IdsDistinct'
    BY <1>4 DEF TimerElapses, OperationEnds, Cancel, IdsDistinct
  <1>5. CASE UNCHANGED vars
    BY <1>5 DEF vars, IdsDistinct
  <1> QED
    BY <1>1, <1>3, <1>4, <1>5 DEF Next, Step, Quiescent

\* The inductive invariant survives every actor job, task step and cancellation.
LEMMA NextInv == IInv /\ [Next]_vars => IInv'
  <1> SUFFICES ASSUME IInv, [Next]_vars
               PROVE  SlotAccounting' /\ WorkConserving' /\ QueueIsTheWaiting'
    BY NextType, IdsStayDistinct DEF IInv
  <1>1. TypeOK /\ TypeOK'
    BY NextType DEF IInv
  <1>2. /\ waiters = {q \in Requests : phase[q] = "waiting"}
        /\ IsFiniteSet(waiters) /\ Cardinality(waiters) \in Nat
    BY RequestsAssumption, FS_Subset, FS_CardinalityType DEF IInv, QueueIsTheWaiting
  <1>3. /\ activeGenerations \in Nat /\ MaxActiveGenerations \in Nat
        /\ activeGenerations = Cardinality(Holders)
        /\ activeGenerations <= MaxActiveGenerations
        /\ activeGenerations <= counters["peakActiveGenerations"]
        /\ counters["peakActiveGenerations"] \in Nat
        /\ counters["peakActiveGenerations"] <= MaxActiveGenerations
        /\ counters \in [CounterNames -> Nat]
    BY SlotAssumption DEF IInv, TypeOK, SlotAccounting, CounterNames
  \* Steps that neither give nor take a slot and add nobody to the queue.
  <1>4. ASSUME Holders' = Holders, waiters' \subseteq waiters,
               waiters' = {q \in Requests : phase'[q] = "waiting"},
               activeGenerations' = activeGenerations,
               counters'["peakActiveGenerations"] = counters["peakActiveGenerations"]
        PROVE  SlotAccounting' /\ WorkConserving' /\ QueueIsTheWaiting'
    <2>1. SlotAccounting'
      BY <1>4 DEF IInv, SlotAccounting
    <2>2. WorkConserving'
      BY <1>4 DEF IInv, WorkConserving
    <2>3. QueueIsTheWaiting'
      BY <1>4, QueueShrinks DEF IInv, QueueIsTheWaiting
    <2> QED
      BY <2>1, <2>2, <2>3
  <1>5. ASSUME NEW r \in Requests, NEW p \in Priorities, AcquireCancelled(r, p)
        PROVE  SlotAccounting' /\ WorkConserving' /\ QueueIsTheWaiting'
    BY <1>1, <1>2, <1>4, <1>5 DEF AcquireCancelled, Arrive, Holders, Holding, Ended, TypeOK
  <1>6. ASSUME NEW r \in Requests, NEW p \in Priorities, AcquireFast(r, p)
        PROVE  SlotAccounting' /\ WorkConserving' /\ QueueIsTheWaiting'
    <2>1. Holders' = Holders \cup {r} /\ r \notin Holders
      BY <1>1, <1>6 DEF AcquireFast, Arrive, Holders, Holding, Ended, TypeOK
    <2>2. Cardinality(Holders') = activeGenerations + 1
      BY <1>3, <2>1, HoldersFinite, FS_AddElement
    <2>3. counters'["peakActiveGenerations"] =
            IF activeGenerations + 1 > counters["peakActiveGenerations"]
            THEN activeGenerations + 1 ELSE counters["peakActiveGenerations"]
      BY <1>3, <1>6 DEF AcquireFast, RaisePeak, CounterNames
    <2>4. SlotAccounting'
      BY <1>3, <1>6, <2>2, <2>3 DEF AcquireFast, SlotAccounting, SlotIsFree
    <2>5. WorkConserving' /\ QueueIsTheWaiting'
      BY <1>1, <1>2, <1>6 DEF AcquireFast, Arrive, WorkConserving, IInv, QueueIsTheWaiting, TypeOK
    <2> QED
      BY <2>4, <2>5
  <1>7. ASSUME NEW r \in Requests, NEW p \in Priorities, AcquireQueueFull(r, p)
        PROVE  SlotAccounting' /\ WorkConserving' /\ QueueIsTheWaiting'
    <2>1. counters'["peakActiveGenerations"] = counters["peakActiveGenerations"]
      BY <1>3, <1>7 DEF AcquireQueueFull, Bump, CounterNames
    <2> QED
      BY <1>1, <1>2, <1>4, <1>7, <2>1
         DEF AcquireQueueFull, Arrive, Holders, Holding, Ended, TypeOK
  <1>8. ASSUME NEW r \in Requests, NEW p \in Priorities, AcquireEnqueue(r, p)
        PROVE  SlotAccounting' /\ WorkConserving' /\ QueueIsTheWaiting'
    <2>1. Holders' = Holders
      BY <1>1, <1>8 DEF AcquireEnqueue, Arrive, Holders, Holding, Ended, TypeOK
    <2>2. SlotAccounting'
      BY <1>8, <2>1 DEF AcquireEnqueue, IInv, SlotAccounting
    <2>3. WorkConserving'
      BY <1>3, <1>8 DEF AcquireEnqueue, IInv, WorkConserving, SlotIsFree
    <2>4. Cardinality(waiters') = Cardinality(waiters) + 1
      BY <1>2, <1>8, FS_AddElement DEF AcquireEnqueue, Arrive
    <2>5. QueueIsTheWaiting'
      BY <1>1, <1>2, <1>8, <2>4, QueueAssumption
         DEF AcquireEnqueue, Arrive, QueueHasRoom, QueueIsTheWaiting, TypeOK
    <2> QED
      BY <2>2, <2>3, <2>5
  <1>9. ASSUME NEW r \in Requests, CancelWaiter(r)
        PROVE  SlotAccounting' /\ WorkConserving' /\ QueueIsTheWaiting'
    <2>1. counters'["peakActiveGenerations"] = counters["peakActiveGenerations"]
      BY <1>3, <1>9 DEF CancelWaiter, Bump, CounterNames
    <2> QED
      BY <1>1, <1>2, <1>4, <1>9, <2>1
         DEF CancelWaiter, StillWaiting, Holders, Holding, Ended, TypeOK
  <1>10. ASSUME NEW r \in Requests, ExpireWaiter(r)
         PROVE  SlotAccounting' /\ WorkConserving' /\ QueueIsTheWaiting'
    <2>1. counters'["peakActiveGenerations"] = counters["peakActiveGenerations"]
      BY <1>3, <1>10 DEF ExpireWaiter, Bump, CounterNames
    <2> QED
      BY <1>1, <1>2, <1>4, <1>10, <2>1
         DEF ExpireWaiter, StillWaiting, Holders, Holding, Ended, TypeOK
  <1>11. ASSUME NEW r \in Requests, Start(r)
         PROVE  SlotAccounting' /\ WorkConserving' /\ QueueIsTheWaiting'
    <2>1. counters'["peakActiveGenerations"] = counters["peakActiveGenerations"]
      BY <1>3, <1>11 DEF Start, Bump, CounterNames
    <2> QED
      BY <1>1, <1>2, <1>4, <1>11, <2>1 DEF Start, Holders, Holding, Ended, TypeOK
  <1>12. ASSUME NEW r \in Requests, CancelBeforeStart(r)
         PROVE  SlotAccounting' /\ WorkConserving' /\ QueueIsTheWaiting'
    <2>1. r \in Holders
      BY <1>12 DEF CancelBeforeStart, Holders, Holding
    <2> QED
      BY <1>1, <1>12, <2>1, ReleaseKeeps
         DEF CancelBeforeStart, CounterNames, Settled, Refused
  <1>13. ASSUME NEW r \in Requests, Finish(r)
         PROVE  SlotAccounting' /\ WorkConserving' /\ QueueIsTheWaiting'
    <2>1. r \in Holders
      BY <1>13 DEF Finish, Holders, Holding
    <2>2. /\ ReleaseOutcome(r) \in Settled /\ ReleaseOutcome(r) \in CounterNames
          /\ ReleaseOutcome(r) # "peakActiveGenerations"
      BY DEF ReleaseOutcome, Settled, Released, CounterNames
    <2> QED
      BY <1>1, <1>13, <2>1, <2>2, ReleaseKeeps DEF Finish
  <1>14. ASSUME NEW r \in Requests, TimerElapses(r) \/ Cancel(r)
         PROVE  SlotAccounting' /\ WorkConserving' /\ QueueIsTheWaiting'
    BY <1>2, <1>4, <1>14 DEF TimerElapses, Cancel, Holders
  <1>15. ASSUME NEW r \in Requests, OperationEnds(r)
         PROVE  SlotAccounting' /\ WorkConserving' /\ QueueIsTheWaiting'
    BY <1>1, <1>2, <1>4, <1>15 DEF OperationEnds, Holders, Holding, Ended, TypeOK
  <1>16. CASE UNCHANGED vars
    BY <1>2, <1>4, <1>16 DEF vars, Holders
  <1> QED
    BY <1>5, <1>6, <1>7, <1>8, <1>9, <1>10, <1>11, <1>12, <1>13, <1>14, <1>15, <1>16
       DEF Next, Step, Submit, ActorStep, Quiescent

\* Accounting, work conservation, the queue and its ids hold together, always: none
\* of the four is inductive without the others.
THEOREM Invariance == Spec => []IInv
  BY InitInv, NextInv, PTL DEF Spec

\* At most MaxActiveGenerations requests hold a slot, and the count the actor
\* works from is exact: no release is lost and none is done twice.
THEOREM SlotsAreAccounted == Spec => []SlotAccounting
  BY Invariance, PTL DEF IInv

\* No slot is idle while a request waits, whoever left the queue and how.
THEOREM NoIdleSlotBesideAQueue == Spec => []WorkConserving
  BY Invariance, PTL DEF IInv

\* The array holds exactly the suspended requests, and never more than its bound.
THEOREM QueueHoldsTheWaiting == Spec => []QueueIsTheWaiting
  BY Invariance, PTL DEF IInv

-----------------------------------------------------------------------------
(* The ledger of the status surface                                        *)

\* The calls whose grant is on its way, and those acquire dropped uncounted.
GrantedCalls == {r \in Requests : phase[r] = "granted"}
SilentCalls == {r \in Requests : phase[r] = "cancelledSilently"}

\* Generations that have ended, by their counters.
EndedCount(c) == c["completed"] + c["failed"] + c["cancelledActive"]

\* The counters Ledger relates.
LedgerCounters == CounterNames \ {"peakActiveGenerations"}

\* Calls of submit that a counter accounts for.
CountedCalls(c) ==
    EndedCount(c) + c["cancelledQueued"] + c["rejectedQueueFull"] + c["rejectedTimeout"]

\* Ledger over the sizes of the sets it counts.
Balanced(c, queued, active, granted, silent, calls) ==
    /\ c["admitted"] = EndedCount(c) + active - granted
    /\ EndedCount(c) <= c["slotReleases"]
    /\ c["slotReleases"] <= EndedCount(c) + c["cancelledQueued"]
    /\ calls = queued + active + CountedCalls(c) + silent

\* Ledger, over those sizes.
LedgerBalance == Balanced(counters, Cardinality(waiters), activeGenerations,
                          Cardinality(GrantedCalls), Cardinality(SilentCalls),
                          nextWaiterID)

\* The sets Ledger counts are finite.
LEMMA CountedSets ==
    ASSUME TypeOK
    PROVE  /\ IsFiniteSet(waiters) /\ Cardinality(waiters) \in Nat
           /\ IsFiniteSet(GrantedCalls) /\ Cardinality(GrantedCalls) \in Nat
           /\ IsFiniteSet(SilentCalls) /\ Cardinality(SilentCalls) \in Nat
  BY RequestsAssumption, FS_Subset, FS_CardinalityType DEF TypeOK, GrantedCalls, SilentCalls

\* Ledger is that balance.
LEMMA LedgerIsBalance == TypeOK /\ LedgerBalance => Ledger
  <1> SUFFICES ASSUME TypeOK, LedgerBalance PROVE Ledger
    OBVIOUS
  <1>1. \A n \in CounterNames : counters[n] \in Nat
    BY DEF TypeOK
  <1>2. activeGenerations \in Nat /\ nextWaiterID \in Nat
    BY DEF TypeOK
  <1> QED
    BY <1>1, <1>2, CountedSets
       DEF Ledger, LedgerBalance, Balanced, EndedCount, CountedCalls, GrantedCalls,
           SilentCalls, CounterNames

\* Counting one outcome changes one counter.
LEMMA BumpValue ==
    ASSUME NEW c \in [CounterNames -> Nat], NEW n \in CounterNames,
           NEW m \in CounterNames
    PROVE  Bump(c, n)[m] = IF m = n THEN c[m] + 1 ELSE c[m]
  BY DEF Bump

\* The peak is no part of the ledger.
LEMMA PeakValue ==
    ASSUME NEW c \in [CounterNames -> Nat], NEW a \in Nat,
           NEW m \in CounterNames \ {"peakActiveGenerations"}
    PROVE  RaisePeak(c, a)[m] = c[m]
  BY DEF RaisePeak

\* A release counts itself and its outcome, and nothing else.
LEMMA ReleaseCounts ==
    ASSUME TypeOK, NEW r \in Requests, NEW end, NEW out \in CounterNames,
           out # "slotReleases", Release(r, end, out),
           NEW m \in CounterNames \ {"peakActiveGenerations"}
    PROVE  counters'[m] = IF m \in {"slotReleases", out} THEN counters[m] + 1
                          ELSE counters[m]
  <1> DEFINE released == Bump(counters, "slotReleases")
             counted == Bump(released, out)
  <1>1. PICK G \in GrantNextWaiter(MaxActiveGenerations - SlotsLeft) :
           counters' = IF G = {} THEN counted
                       ELSE RaisePeak(counted, SlotsLeft + Cardinality(G))
    BY DEF Release
  <1>2. counters \in [CounterNames -> Nat] /\ "slotReleases" \in CounterNames
    BY DEF TypeOK, CounterNames
  <1>3. /\ released \in [CounterNames -> Nat]
        /\ released[m] = IF m = "slotReleases" THEN counters[m] + 1 ELSE counters[m]
    BY <1>2, BumpType, BumpValue
  <1>4. /\ counted \in [CounterNames -> Nat]
        /\ counted[m] = IF m = out THEN released[m] + 1 ELSE released[m]
    <2> HIDE DEF released
    <2> QED
      BY <1>3, BumpType, BumpValue
  <1>5. SlotsLeft + Cardinality(G) \in Nat
    <2>1. SlotsLeft \in Nat /\ MaxActiveGenerations - SlotsLeft \in Int
      BY SlotsLeftType, SlotAssumption DEF TypeOK
    <2>2. Cardinality(G) \in Nat
      BY <2>1, GrantSize DEF TypeOK
    <2> QED
      BY <2>1, <2>2
  <1>6. counters'[m] = counted[m]
    <2> HIDE DEF counted
    <2> QED
      BY <1>1, <1>4, <1>5, PeakValue
  <1> HIDE DEF counted, released
  <1> QED
    BY <1>3, <1>4, <1>6

\* What a release does to the sets Ledger counts: the slot leaves r, and goes
\* to the head of the queue when somebody waits.
LEMMA ReleaseMoves ==
    ASSUME IInv, TypeOK', NEW r \in Holders, NEW end \in Settled \ {"cancelledSilently"},
           NEW out \in CounterNames, out # "peakActiveGenerations",
           Release(r, end, out)
    PROVE  \E n \in Nat :
              /\ activeGenerations' = activeGenerations - 1 + n
              /\ Cardinality(waiters') = Cardinality(waiters) - n
              /\ Cardinality(GrantedCalls')
                   = Cardinality(GrantedCalls) + n - (IF phase[r] = "granted" THEN 1 ELSE 0)
              /\ Cardinality(SilentCalls') = Cardinality(SilentCalls)
  <1>1. PICK G \in SUBSET waiters :
              /\ phase' = [q \in Requests |-> IF q = r THEN end
                                              ELSE IF q \in G THEN "granted"
                                              ELSE phase[q]]
              /\ waiters' = waiters \ G
              /\ activeGenerations' = activeGenerations - 1 + Cardinality(G)
    BY ReleaseGrants
  <1>2. TypeOK /\ r \in Requests /\ phase[r] \in Holding
    BY DEF IInv, Holders
  <1>3. /\ waiters = {q \in Requests : phase[q] = "waiting"}
        /\ IsFiniteSet(waiters) /\ IsFiniteSet(G)
        /\ Cardinality(G) \in Nat /\ Cardinality(waiters) \in Nat
    BY <1>2, CountedSets, FS_Subset, FS_CardinalityType DEF IInv, QueueIsTheWaiting
  <1>4. Cardinality(waiters') = Cardinality(waiters) - Cardinality(G)
    <2>1. waiters \cap G = G
      OBVIOUS
    <2>2. Cardinality(waiters \ G) = Cardinality(waiters) - Cardinality(waiters \cap G)
      BY <1>3, FS_Difference
    <2> QED
      BY <1>1, <2>1, <2>2
  <1>5. SilentCalls' = SilentCalls
    <2>1. \A q \in Requests : phase'[q] = "cancelledSilently" <=> phase[q] = "cancelledSilently"
      BY <1>1, <1>2, <1>3 DEF Holding, Ended
    <2> QED
      BY <2>1 DEF SilentCalls
  <1>6. GrantedCalls' = (GrantedCalls \ {r}) \cup G
    <2>1. \A q \in Requests : phase'[q] = "granted"
                                <=> (phase[q] = "granted" /\ q # r) \/ q \in G
      BY <1>1, <1>2, <1>3 DEF Holding, Ended, Settled, Refused, Released
    <2> QED
      BY <1>3, <2>1 DEF GrantedCalls
  <1>7. /\ IsFiniteSet(GrantedCalls) /\ Cardinality(GrantedCalls) \in Nat
        /\ IsFiniteSet(GrantedCalls \ {r}) /\ Cardinality(GrantedCalls \ {r}) \in Nat
        /\ Cardinality(GrantedCalls \ {r})
             = Cardinality(GrantedCalls) - (IF phase[r] = "granted" THEN 1 ELSE 0)
    <2>1. IsFiniteSet(GrantedCalls) /\ Cardinality(GrantedCalls) \in Nat
      BY <1>2, CountedSets
    <2>2. IsFiniteSet(GrantedCalls \ {r}) /\ Cardinality(GrantedCalls \ {r}) \in Nat
      BY <2>1, FS_Subset, FS_CardinalityType
    <2>3. r \in GrantedCalls <=> phase[r] = "granted"
      BY <1>2 DEF GrantedCalls
    <2>4. Cardinality(GrantedCalls \ {r})
            = IF r \in GrantedCalls THEN Cardinality(GrantedCalls) - 1
              ELSE Cardinality(GrantedCalls)
      BY <2>1, FS_RemoveElement
    <2> QED
      BY <2>1, <2>2, <2>3, <2>4
  <1>8. Cardinality(GrantedCalls') = Cardinality(GrantedCalls \ {r}) + Cardinality(G)
    <2>1. (GrantedCalls \ {r}) \cap G = {}
      BY <1>3 DEF GrantedCalls
    <2>2. Cardinality((GrantedCalls \ {r}) \cap G) = 0
      BY <2>1, FS_EmptySet
    <2>3. Cardinality((GrantedCalls \ {r}) \cup G)
            = Cardinality(GrantedCalls \ {r}) + Cardinality(G)
              - Cardinality((GrantedCalls \ {r}) \cap G)
      BY <1>3, <1>7, FS_Union
    <2> QED
      BY <1>3, <1>6, <1>7, <2>2, <2>3
  <1>9. Cardinality(GrantedCalls')
          = Cardinality(GrantedCalls) + Cardinality(G)
            - (IF phase[r] = "granted" THEN 1 ELSE 0)
    BY <1>3, <1>7, <1>8
  <1>10. Cardinality(SilentCalls') = Cardinality(SilentCalls)
    BY <1>5
  <1>11. Cardinality(G) \in Nat
    BY <1>3
  <1> WITNESS Cardinality(G) \in Nat
  <1> QED
    BY <1>1, <1>4, <1>9, <1>10

\* Nobody has called submit: every count is zero.
LEMMA InitLedger == Init => LedgerBalance
  <1> SUFFICES ASSUME Init PROVE LedgerBalance
    OBVIOUS
  <1>1. GrantedCalls = {} /\ SilentCalls = {} /\ waiters = {}
    BY DEF Init, GrantedCalls, SilentCalls
  <1>2. Cardinality({}) = 0
    BY FS_EmptySet
  <1>3. Balanced(counters, 0, activeGenerations, 0, 0, nextWaiterID)
    BY DEF Init, Balanced, EndedCount, CountedCalls, CounterNames
  <1> QED
    BY <1>1, <1>2, <1>3 DEF LedgerBalance

\* Every step moves a call from one column of the ledger to another.
LEMMA NextLedger == IInv /\ LedgerBalance /\ [Next]_vars => LedgerBalance'
  <1> SUFFICES ASSUME IInv, LedgerBalance, [Next]_vars PROVE LedgerBalance'
    OBVIOUS
  <1>1. IInv' /\ TypeOK /\ TypeOK'
    BY NextInv, NextType DEF IInv
  <1>2. /\ waiters = {q \in Requests : phase[q] = "waiting"}
        /\ phase \in [Requests -> Phases]
        /\ counters \in [CounterNames -> Nat]
    BY <1>1 DEF IInv, QueueIsTheWaiting, TypeOK
  <1>3. /\ activeGenerations \in Nat /\ nextWaiterID \in Nat
        /\ Cardinality(waiters) \in Nat
        /\ Cardinality(GrantedCalls) \in Nat
        /\ Cardinality(SilentCalls) \in Nat
        /\ IsFiniteSet(waiters) /\ IsFiniteSet(GrantedCalls) /\ IsFiniteSet(SilentCalls)
    BY <1>1, CountedSets DEF TypeOK
  <1>4. /\ counters["admitted"] \in Nat /\ counters["completed"] \in Nat
        /\ counters["failed"] \in Nat /\ counters["cancelledActive"] \in Nat
        /\ counters["cancelledQueued"] \in Nat /\ counters["slotReleases"] \in Nat
        /\ counters["rejectedQueueFull"] \in Nat /\ counters["rejectedTimeout"] \in Nat
    BY <1>2 DEF CounterNames
  <1>old. /\ counters["admitted"]
               = counters["completed"] + counters["failed"] + counters["cancelledActive"]
                 + activeGenerations - Cardinality(GrantedCalls)
          /\ counters["completed"] + counters["failed"] + counters["cancelledActive"]
               <= counters["slotReleases"]
          /\ counters["slotReleases"]
               <= counters["completed"] + counters["failed"] + counters["cancelledActive"]
                  + counters["cancelledQueued"]
          /\ nextWaiterID
               = Cardinality(waiters) + activeGenerations
                 + (counters["completed"] + counters["failed"] + counters["cancelledActive"]
                    + counters["cancelledQueued"] + counters["rejectedQueueFull"]
                    + counters["rejectedTimeout"])
                 + Cardinality(SilentCalls)
    BY DEF LedgerBalance, Balanced, EndedCount, CountedCalls
  <1>new. ASSUME /\ counters'["admitted"]
                      = counters'["completed"] + counters'["failed"]
                        + counters'["cancelledActive"]
                        + activeGenerations' - Cardinality(GrantedCalls')
                 /\ counters'["completed"] + counters'["failed"]
                      + counters'["cancelledActive"] <= counters'["slotReleases"]
                 /\ counters'["slotReleases"]
                      <= counters'["completed"] + counters'["failed"]
                         + counters'["cancelledActive"] + counters'["cancelledQueued"]
                 /\ nextWaiterID'
                      = Cardinality(waiters') + activeGenerations'
                        + (counters'["completed"] + counters'["failed"]
                           + counters'["cancelledActive"] + counters'["cancelledQueued"]
                           + counters'["rejectedQueueFull"] + counters'["rejectedTimeout"])
                        + Cardinality(SilentCalls')
          PROVE  LedgerBalance'
    BY <1>new DEF LedgerBalance, Balanced, EndedCount, CountedCalls
  \* What is left to say of a step that bumps at most one counter is arithmetic.
  <1>5. ASSUME NEW name \in CounterNames \cup {"none"},
               \A m \in LedgerCounters :
                  counters'[m] = IF m = name THEN counters[m] + 1 ELSE counters[m],
               NEW w \in Int, NEW a \in Int, NEW g \in Int, NEW s \in Int, NEW n \in Int,
               Cardinality(waiters') = Cardinality(waiters) + w,
               activeGenerations' = activeGenerations + a,
               Cardinality(GrantedCalls') = Cardinality(GrantedCalls) + g,
               Cardinality(SilentCalls') = Cardinality(SilentCalls) + s,
               nextWaiterID' = nextWaiterID + n,
               \/ name = "none" /\ a = g /\ n = w + a + s
               \/ name = "admitted" /\ a = 0 /\ g = -1 /\ n = 0 /\ w = 0 /\ s = 0
               \/ /\ name \in {"rejectedQueueFull", "rejectedTimeout", "cancelledQueued"}
                  /\ a = g /\ n = w + a + s + 1
        PROVE  LedgerBalance'
    <2>1. /\ "admitted" \in LedgerCounters /\ "completed" \in LedgerCounters
          /\ "failed" \in LedgerCounters /\ "cancelledActive" \in LedgerCounters
          /\ "cancelledQueued" \in LedgerCounters /\ "slotReleases" \in LedgerCounters
          /\ "rejectedQueueFull" \in LedgerCounters /\ "rejectedTimeout" \in LedgerCounters
      BY DEF LedgerCounters, CounterNames
    <2>0. /\ w \in Int /\ a \in Int /\ g \in Int /\ s \in Int /\ n \in Int
          /\ Cardinality(waiters') = Cardinality(waiters) + w
          /\ activeGenerations' = activeGenerations + a
          /\ Cardinality(GrantedCalls') = Cardinality(GrantedCalls) + g
          /\ Cardinality(SilentCalls') = Cardinality(SilentCalls) + s
          /\ nextWaiterID' = nextWaiterID + n
      BY <1>5
    <2>2. CASE name = "none"
      <3>1. /\ counters'["admitted"] = counters["admitted"]
            /\ counters'["completed"] = counters["completed"]
            /\ counters'["failed"] = counters["failed"]
            /\ counters'["cancelledActive"] = counters["cancelledActive"]
            /\ counters'["cancelledQueued"] = counters["cancelledQueued"]
            /\ counters'["slotReleases"] = counters["slotReleases"]
            /\ counters'["rejectedQueueFull"] = counters["rejectedQueueFull"]
            /\ counters'["rejectedTimeout"] = counters["rejectedTimeout"]
        BY <1>5, <2>1, <2>2
      <3>2. (a = g /\ n = w + a + s)
        BY <1>5, <2>2
      <3>3. /\ counters'["completed"] + counters'["failed"]
                 + counters'["cancelledActive"] <= counters'["slotReleases"]
            /\ counters'["slotReleases"]
                 <= counters'["completed"] + counters'["failed"]
                    + counters'["cancelledActive"] + counters'["cancelledQueued"]
        BY <1>4, <1>old, <3>1
      <3>4. counters'["admitted"]
              = counters'["completed"] + counters'["failed"] + counters'["cancelledActive"]
                + activeGenerations' - Cardinality(GrantedCalls')
        BY <1>3, <1>4, <1>old, <2>0, <3>1, <3>2
      <3>5. nextWaiterID'
              = Cardinality(waiters') + activeGenerations'
                + (counters'["completed"] + counters'["failed"]
                   + counters'["cancelledActive"] + counters'["cancelledQueued"]
                   + counters'["rejectedQueueFull"] + counters'["rejectedTimeout"])
                + Cardinality(SilentCalls')
        BY <1>3, <1>4, <1>old, <2>0, <3>1, <3>2
      <3> QED
        BY <1>new, <3>3, <3>4, <3>5
    <2>3. CASE name = "admitted"
      <3>1. /\ counters'["admitted"] = counters["admitted"] + 1
            /\ counters'["completed"] = counters["completed"]
            /\ counters'["failed"] = counters["failed"]
            /\ counters'["cancelledActive"] = counters["cancelledActive"]
            /\ counters'["cancelledQueued"] = counters["cancelledQueued"]
            /\ counters'["slotReleases"] = counters["slotReleases"]
            /\ counters'["rejectedQueueFull"] = counters["rejectedQueueFull"]
            /\ counters'["rejectedTimeout"] = counters["rejectedTimeout"]
        BY <1>5, <2>1, <2>3
      <3>2. a = 0 /\ g = -1 /\ n = 0 /\ w = 0 /\ s = 0
        BY <1>5, <2>3
      <3>3. /\ counters'["completed"] + counters'["failed"]
                 + counters'["cancelledActive"] <= counters'["slotReleases"]
            /\ counters'["slotReleases"]
                 <= counters'["completed"] + counters'["failed"]
                    + counters'["cancelledActive"] + counters'["cancelledQueued"]
        BY <1>4, <1>old, <3>1
      <3>4. counters'["admitted"]
              = counters'["completed"] + counters'["failed"] + counters'["cancelledActive"]
                + activeGenerations' - Cardinality(GrantedCalls')
        BY <1>3, <1>4, <1>old, <2>0, <3>1, <3>2
      <3>5. nextWaiterID'
              = Cardinality(waiters') + activeGenerations'
                + (counters'["completed"] + counters'["failed"]
                   + counters'["cancelledActive"] + counters'["cancelledQueued"]
                   + counters'["rejectedQueueFull"] + counters'["rejectedTimeout"])
                + Cardinality(SilentCalls')
        BY <1>3, <1>4, <1>old, <2>0, <3>1, <3>2
      <3> QED
        BY <1>new, <3>3, <3>4, <3>5
    <2>4. CASE name = "rejectedQueueFull"
      <3>1. /\ counters'["admitted"] = counters["admitted"]
            /\ counters'["completed"] = counters["completed"]
            /\ counters'["failed"] = counters["failed"]
            /\ counters'["cancelledActive"] = counters["cancelledActive"]
            /\ counters'["cancelledQueued"] = counters["cancelledQueued"]
            /\ counters'["slotReleases"] = counters["slotReleases"]
            /\ counters'["rejectedQueueFull"] = counters["rejectedQueueFull"] + 1
            /\ counters'["rejectedTimeout"] = counters["rejectedTimeout"]
        BY <1>5, <2>1, <2>4
      <3>2. (a = g /\ n = w + a + s + 1)
        BY <1>5, <2>4
      <3>3. /\ counters'["completed"] + counters'["failed"]
                 + counters'["cancelledActive"] <= counters'["slotReleases"]
            /\ counters'["slotReleases"]
                 <= counters'["completed"] + counters'["failed"]
                    + counters'["cancelledActive"] + counters'["cancelledQueued"]
        BY <1>4, <1>old, <3>1
      <3>4. counters'["admitted"]
              = counters'["completed"] + counters'["failed"] + counters'["cancelledActive"]
                + activeGenerations' - Cardinality(GrantedCalls')
        BY <1>3, <1>4, <1>old, <2>0, <3>1, <3>2
      <3>5. nextWaiterID'
              = Cardinality(waiters') + activeGenerations'
                + (counters'["completed"] + counters'["failed"]
                   + counters'["cancelledActive"] + counters'["cancelledQueued"]
                   + counters'["rejectedQueueFull"] + counters'["rejectedTimeout"])
                + Cardinality(SilentCalls')
        <4>1. /\ Cardinality(waiters') \in Int /\ activeGenerations' \in Int
              /\ Cardinality(SilentCalls') \in Int
              /\ nextWaiterID'
                   = nextWaiterID + (Cardinality(waiters') - Cardinality(waiters))
                     + (activeGenerations' - activeGenerations)
                     + (Cardinality(SilentCalls') - Cardinality(SilentCalls)) + 1
          BY <1>3, <2>0, <3>2
        <4> QED
          BY <1>3, <1>4, <1>old, <3>1, <4>1
      <3> QED
        BY <1>new, <3>3, <3>4, <3>5
    <2>5. CASE name = "rejectedTimeout"
      <3>1. /\ counters'["admitted"] = counters["admitted"]
            /\ counters'["completed"] = counters["completed"]
            /\ counters'["failed"] = counters["failed"]
            /\ counters'["cancelledActive"] = counters["cancelledActive"]
            /\ counters'["cancelledQueued"] = counters["cancelledQueued"]
            /\ counters'["slotReleases"] = counters["slotReleases"]
            /\ counters'["rejectedQueueFull"] = counters["rejectedQueueFull"]
            /\ counters'["rejectedTimeout"] = counters["rejectedTimeout"] + 1
        BY <1>5, <2>1, <2>5
      <3>2. (a = g /\ n = w + a + s + 1)
        BY <1>5, <2>5
      <3>3. /\ counters'["completed"] + counters'["failed"]
                 + counters'["cancelledActive"] <= counters'["slotReleases"]
            /\ counters'["slotReleases"]
                 <= counters'["completed"] + counters'["failed"]
                    + counters'["cancelledActive"] + counters'["cancelledQueued"]
        BY <1>4, <1>old, <3>1
      <3>4. counters'["admitted"]
              = counters'["completed"] + counters'["failed"] + counters'["cancelledActive"]
                + activeGenerations' - Cardinality(GrantedCalls')
        BY <1>3, <1>4, <1>old, <2>0, <3>1, <3>2
      <3>5. nextWaiterID'
              = Cardinality(waiters') + activeGenerations'
                + (counters'["completed"] + counters'["failed"]
                   + counters'["cancelledActive"] + counters'["cancelledQueued"]
                   + counters'["rejectedQueueFull"] + counters'["rejectedTimeout"])
                + Cardinality(SilentCalls')
        <4>1. /\ Cardinality(waiters') \in Int /\ activeGenerations' \in Int
              /\ Cardinality(SilentCalls') \in Int
              /\ nextWaiterID'
                   = nextWaiterID + (Cardinality(waiters') - Cardinality(waiters))
                     + (activeGenerations' - activeGenerations)
                     + (Cardinality(SilentCalls') - Cardinality(SilentCalls)) + 1
          BY <1>3, <2>0, <3>2
        <4> QED
          BY <1>3, <1>4, <1>old, <3>1, <4>1
      <3> QED
        BY <1>new, <3>3, <3>4, <3>5
    <2>6. CASE name = "cancelledQueued"
      <3>1. /\ counters'["admitted"] = counters["admitted"]
            /\ counters'["completed"] = counters["completed"]
            /\ counters'["failed"] = counters["failed"]
            /\ counters'["cancelledActive"] = counters["cancelledActive"]
            /\ counters'["cancelledQueued"] = counters["cancelledQueued"] + 1
            /\ counters'["slotReleases"] = counters["slotReleases"]
            /\ counters'["rejectedQueueFull"] = counters["rejectedQueueFull"]
            /\ counters'["rejectedTimeout"] = counters["rejectedTimeout"]
        BY <1>5, <2>1, <2>6
      <3>2. (a = g /\ n = w + a + s + 1)
        BY <1>5, <2>6
      <3>3. /\ counters'["completed"] + counters'["failed"]
                 + counters'["cancelledActive"] <= counters'["slotReleases"]
            /\ counters'["slotReleases"]
                 <= counters'["completed"] + counters'["failed"]
                    + counters'["cancelledActive"] + counters'["cancelledQueued"]
        BY <1>4, <1>old, <3>1
      <3>4. counters'["admitted"]
              = counters'["completed"] + counters'["failed"] + counters'["cancelledActive"]
                + activeGenerations' - Cardinality(GrantedCalls')
        BY <1>3, <1>4, <1>old, <2>0, <3>1, <3>2
      <3>5. nextWaiterID'
              = Cardinality(waiters') + activeGenerations'
                + (counters'["completed"] + counters'["failed"]
                   + counters'["cancelledActive"] + counters'["cancelledQueued"]
                   + counters'["rejectedQueueFull"] + counters'["rejectedTimeout"])
                + Cardinality(SilentCalls')
        <4>1. /\ Cardinality(waiters') \in Int /\ activeGenerations' \in Int
              /\ Cardinality(SilentCalls') \in Int
              /\ nextWaiterID'
                   = nextWaiterID + (Cardinality(waiters') - Cardinality(waiters))
                     + (activeGenerations' - activeGenerations)
                     + (Cardinality(SilentCalls') - Cardinality(SilentCalls)) + 1
          BY <1>3, <2>0, <3>2
        <4> QED
          BY <1>3, <1>4, <1>old, <3>1, <4>1
      <3> QED
        BY <1>new, <3>3, <3>4, <3>5
    <2> QED
      BY <1>5, <2>2, <2>3, <2>4, <2>5, <2>6
  <1>6. ASSUME counters' = counters, Cardinality(waiters') = Cardinality(waiters),
               activeGenerations' = activeGenerations, nextWaiterID' = nextWaiterID,
               GrantedCalls' = GrantedCalls, SilentCalls' = SilentCalls
        PROVE  LedgerBalance'
    BY <1>6 DEF LedgerBalance
  <1>7. ASSUME NEW r \in Requests, NEW p \in Priorities, AcquireCancelled(r, p)
        PROVE  LedgerBalance'
    <2>1. SilentCalls' = SilentCalls \cup {r} /\ r \notin SilentCalls
          /\ GrantedCalls' = GrantedCalls
      BY <1>2, <1>7 DEF AcquireCancelled, Arrive, SilentCalls, GrantedCalls
    <2>2. Cardinality(SilentCalls') = Cardinality(SilentCalls) + 1
      BY <1>3, <2>1, FS_AddElement
    <2>3. /\ counters' = counters /\ waiters' = waiters
          /\ activeGenerations' = activeGenerations
          /\ nextWaiterID' = nextWaiterID + 1
      BY <1>7 DEF AcquireCancelled, Arrive
    <2> QED
      BY <1>3, <1>4, <1>old, <1>new, <2>1, <2>2, <2>3
  <1>8. ASSUME NEW r \in Requests, NEW p \in Priorities, AcquireFast(r, p)
        PROVE  LedgerBalance'
    <2>1. GrantedCalls' = GrantedCalls \cup {r} /\ r \notin GrantedCalls
          /\ SilentCalls' = SilentCalls
      BY <1>2, <1>8 DEF AcquireFast, Arrive, SilentCalls, GrantedCalls
    <2>2. Cardinality(GrantedCalls') = Cardinality(GrantedCalls) + 1
      BY <1>3, <2>1, FS_AddElement
    <2>3. /\ waiters' = waiters
          /\ activeGenerations' = activeGenerations + 1
          /\ nextWaiterID' = nextWaiterID + 1
      BY <1>8 DEF AcquireFast, Arrive
    <2>4. activeGenerations + 1 \in Nat
      BY <1>3
    <2>5. \A m \in LedgerCounters : counters'[m] = counters[m]
      BY <1>2, <1>8, <2>4, PeakValue DEF AcquireFast, LedgerCounters
    <2>6. /\ counters'["admitted"] = counters["admitted"]
          /\ counters'["completed"] = counters["completed"]
          /\ counters'["failed"] = counters["failed"]
          /\ counters'["cancelledActive"] = counters["cancelledActive"]
          /\ counters'["cancelledQueued"] = counters["cancelledQueued"]
          /\ counters'["slotReleases"] = counters["slotReleases"]
          /\ counters'["rejectedQueueFull"] = counters["rejectedQueueFull"]
          /\ counters'["rejectedTimeout"] = counters["rejectedTimeout"]
      BY <2>5 DEF LedgerCounters, CounterNames
    <2> QED
      BY <1>3, <1>4, <1>old, <1>new, <2>1, <2>2, <2>3, <2>6
  <1>9. ASSUME NEW r \in Requests, NEW p \in Priorities, AcquireQueueFull(r, p)
        PROVE  LedgerBalance'
    <2>1. GrantedCalls' = GrantedCalls /\ SilentCalls' = SilentCalls
      BY <1>2, <1>9 DEF AcquireQueueFull, Arrive, SilentCalls, GrantedCalls
    <2>2. /\ waiters' = waiters
          /\ activeGenerations' = activeGenerations
          /\ nextWaiterID' = nextWaiterID + 1
          /\ counters' = Bump(counters, "rejectedQueueFull")
      BY <1>9 DEF AcquireQueueFull, Arrive
    <2>3. \A m \in LedgerCounters :
             counters'[m] = IF m = "rejectedQueueFull" THEN counters[m] + 1
                            ELSE counters[m]
      BY <1>2, <2>2, BumpValue DEF LedgerCounters, CounterNames
    <2>4. "rejectedQueueFull" \in CounterNames
      BY DEF CounterNames
    <2> QED
      BY <1>3, <1>5, <2>1, <2>2, <2>3, <2>4
  <1>10. ASSUME NEW r \in Requests, NEW p \in Priorities, AcquireEnqueue(r, p)
         PROVE  LedgerBalance'
    <2>1. GrantedCalls' = GrantedCalls /\ SilentCalls' = SilentCalls
          /\ waiters' = waiters \cup {r} /\ r \notin waiters
      BY <1>2, <1>10 DEF AcquireEnqueue, Arrive, SilentCalls, GrantedCalls
    <2>2. Cardinality(waiters') = Cardinality(waiters) + 1
      BY <1>3, <2>1, FS_AddElement
    <2>3. /\ counters' = counters
          /\ activeGenerations' = activeGenerations
          /\ nextWaiterID' = nextWaiterID + 1
      BY <1>10 DEF AcquireEnqueue, Arrive
    <2> QED
      BY <1>3, <1>4, <1>old, <1>new, <2>1, <2>2, <2>3
  \* A waiter that leaves without a slot is counted under one outcome.
  <1>11. ASSUME NEW r \in waiters, NEW name \in {"cancelledQueued", "rejectedTimeout"},
                waiters' = waiters \ {r}, counters' = Bump(counters, name),
                phase' = [phase EXCEPT ![r] = name],
                UNCHANGED <<activeGenerations, nextWaiterID>>
         PROVE  LedgerBalance'
    <2>1. GrantedCalls' = GrantedCalls /\ SilentCalls' = SilentCalls
      BY <1>2, <1>11 DEF SilentCalls, GrantedCalls
    <2>2. Cardinality(waiters') = Cardinality(waiters) - 1
      BY <1>3, <1>11, FS_RemoveElement
    <2>3. name \in CounterNames
      BY DEF CounterNames
    <2>4. \A m \in LedgerCounters :
             counters'[m] = IF m = name THEN counters[m] + 1 ELSE counters[m]
      BY <1>2, <1>11, <2>3, BumpValue DEF LedgerCounters
    <2> QED
      BY <1>3, <1>5, <1>11, <2>1, <2>2, <2>3, <2>4
  <1>12. ASSUME NEW r \in Requests, CancelWaiter(r) PROVE LedgerBalance'
    <2>1. CASE r \in waiters
      BY <1>11, <1>12, <2>1 DEF CancelWaiter, StillWaiting
    <2>2. CASE r \notin waiters
      BY <1>6, <1>12, <2>2 DEF CancelWaiter, StillWaiting, GrantedCalls, SilentCalls
    <2> QED
      BY <2>1, <2>2
  <1>13. ASSUME NEW r \in Requests, ExpireWaiter(r) PROVE LedgerBalance'
    <2>1. CASE r \in waiters
      BY <1>11, <1>13, <2>1 DEF ExpireWaiter, StillWaiting
    <2>2. CASE r \notin waiters
      BY <1>6, <1>13, <2>2 DEF ExpireWaiter, StillWaiting, GrantedCalls, SilentCalls
    <2> QED
      BY <2>1, <2>2
  <1>14. ASSUME NEW r \in Requests, Start(r) PROVE LedgerBalance'
    <2>1. GrantedCalls' = GrantedCalls \ {r} /\ r \in GrantedCalls
          /\ SilentCalls' = SilentCalls
      BY <1>2, <1>14 DEF Start, SilentCalls, GrantedCalls
    <2>2. Cardinality(GrantedCalls') = Cardinality(GrantedCalls) - 1
      BY <1>3, <2>1, FS_RemoveElement
    <2>3. /\ waiters' = waiters
          /\ activeGenerations' = activeGenerations
          /\ nextWaiterID' = nextWaiterID
          /\ counters' = Bump(counters, "admitted")
      BY <1>14 DEF Start
    <2>4. "admitted" \in CounterNames
      BY DEF CounterNames
    <2>5. \A m \in LedgerCounters :
             counters'[m] = IF m = "admitted" THEN counters[m] + 1 ELSE counters[m]
      BY <1>2, <2>3, <2>4, BumpValue DEF LedgerCounters
    <2> QED
      BY <1>3, <1>5, <2>1, <2>2, <2>3, <2>4, <2>5
  <1>15. ASSUME NEW r \in Holders, NEW end \in Settled \ {"cancelledSilently"},
                NEW out \in CounterNames,
                out \in {"completed", "failed", "cancelledActive", "cancelledQueued"},
                out = "cancelledQueued" <=> phase[r] = "granted",
                Release(r, end, out), nextWaiterID' = nextWaiterID
         PROVE  LedgerBalance'
    <2>1. PICK n \in Nat :
              /\ activeGenerations' = activeGenerations - 1 + n
              /\ Cardinality(waiters') = Cardinality(waiters) - n
              /\ Cardinality(GrantedCalls')
                   = Cardinality(GrantedCalls) + n - (IF phase[r] = "granted" THEN 1 ELSE 0)
              /\ Cardinality(SilentCalls') = Cardinality(SilentCalls)
      BY <1>1, <1>15, ReleaseMoves
    <2>2. r \in Requests /\ out # "slotReleases"
      BY <1>15 DEF Holders
    <2>3. \A m \in LedgerCounters :
             counters'[m] = IF m \in {"slotReleases", out} THEN counters[m] + 1
                            ELSE counters[m]
      BY <1>1, <1>15, <2>2, ReleaseCounts DEF LedgerCounters
    <2>4. /\ "admitted" \in LedgerCounters /\ "completed" \in LedgerCounters
          /\ "failed" \in LedgerCounters /\ "cancelledActive" \in LedgerCounters
          /\ "cancelledQueued" \in LedgerCounters /\ "slotReleases" \in LedgerCounters
          /\ "rejectedQueueFull" \in LedgerCounters /\ "rejectedTimeout" \in LedgerCounters
      BY DEF LedgerCounters, CounterNames
    <2>9. /\ n \in Nat
          /\ activeGenerations' = activeGenerations - 1 + n
          /\ Cardinality(waiters') = Cardinality(waiters) - n
          /\ Cardinality(SilentCalls') = Cardinality(SilentCalls)
          /\ nextWaiterID' = nextWaiterID
      BY <1>15, <2>1
    <2>5. CASE out = "completed"
      <3>1. /\ counters'["admitted"] = counters["admitted"]
            /\ counters'["completed"] = counters["completed"] + 1
            /\ counters'["failed"] = counters["failed"]
            /\ counters'["cancelledActive"] = counters["cancelledActive"]
            /\ counters'["cancelledQueued"] = counters["cancelledQueued"]
            /\ counters'["slotReleases"] = counters["slotReleases"] + 1
            /\ counters'["rejectedQueueFull"] = counters["rejectedQueueFull"]
            /\ counters'["rejectedTimeout"] = counters["rejectedTimeout"]
        BY <2>3, <2>4, <2>5
      <3>2. Cardinality(GrantedCalls') = Cardinality(GrantedCalls) + n
        BY <1>3, <1>15, <2>1, <2>5
      <3>3. /\ counters'["completed"] + counters'["failed"]
                 + counters'["cancelledActive"] <= counters'["slotReleases"]
            /\ counters'["slotReleases"]
                 <= counters'["completed"] + counters'["failed"]
                    + counters'["cancelledActive"] + counters'["cancelledQueued"]
        BY <1>4, <1>old, <3>1
      <3>4. counters'["admitted"]
              = counters'["completed"] + counters'["failed"] + counters'["cancelledActive"]
                + activeGenerations' - Cardinality(GrantedCalls')
        BY <1>3, <1>4, <1>old, <2>9, <3>1, <3>2
      <3>5. nextWaiterID'
              = Cardinality(waiters') + activeGenerations'
                + (counters'["completed"] + counters'["failed"]
                   + counters'["cancelledActive"] + counters'["cancelledQueued"]
                   + counters'["rejectedQueueFull"] + counters'["rejectedTimeout"])
                + Cardinality(SilentCalls')
        BY <1>3, <1>4, <1>old, <2>9, <3>1, <3>2
      <3> QED
        BY <1>new, <3>3, <3>4, <3>5
    <2>6. CASE out = "failed"
      <3>1. /\ counters'["admitted"] = counters["admitted"]
            /\ counters'["completed"] = counters["completed"]
            /\ counters'["failed"] = counters["failed"] + 1
            /\ counters'["cancelledActive"] = counters["cancelledActive"]
            /\ counters'["cancelledQueued"] = counters["cancelledQueued"]
            /\ counters'["slotReleases"] = counters["slotReleases"] + 1
            /\ counters'["rejectedQueueFull"] = counters["rejectedQueueFull"]
            /\ counters'["rejectedTimeout"] = counters["rejectedTimeout"]
        BY <2>3, <2>4, <2>6
      <3>2. Cardinality(GrantedCalls') = Cardinality(GrantedCalls) + n
        BY <1>3, <1>15, <2>1, <2>6
      <3>3. /\ counters'["completed"] + counters'["failed"]
                 + counters'["cancelledActive"] <= counters'["slotReleases"]
            /\ counters'["slotReleases"]
                 <= counters'["completed"] + counters'["failed"]
                    + counters'["cancelledActive"] + counters'["cancelledQueued"]
        BY <1>4, <1>old, <3>1
      <3>4. counters'["admitted"]
              = counters'["completed"] + counters'["failed"] + counters'["cancelledActive"]
                + activeGenerations' - Cardinality(GrantedCalls')
        BY <1>3, <1>4, <1>old, <2>9, <3>1, <3>2
      <3>5. nextWaiterID'
              = Cardinality(waiters') + activeGenerations'
                + (counters'["completed"] + counters'["failed"]
                   + counters'["cancelledActive"] + counters'["cancelledQueued"]
                   + counters'["rejectedQueueFull"] + counters'["rejectedTimeout"])
                + Cardinality(SilentCalls')
        BY <1>3, <1>4, <1>old, <2>9, <3>1, <3>2
      <3> QED
        BY <1>new, <3>3, <3>4, <3>5
    <2>7. CASE out = "cancelledActive"
      <3>1. /\ counters'["admitted"] = counters["admitted"]
            /\ counters'["completed"] = counters["completed"]
            /\ counters'["failed"] = counters["failed"]
            /\ counters'["cancelledActive"] = counters["cancelledActive"] + 1
            /\ counters'["cancelledQueued"] = counters["cancelledQueued"]
            /\ counters'["slotReleases"] = counters["slotReleases"] + 1
            /\ counters'["rejectedQueueFull"] = counters["rejectedQueueFull"]
            /\ counters'["rejectedTimeout"] = counters["rejectedTimeout"]
        BY <2>3, <2>4, <2>7
      <3>2. Cardinality(GrantedCalls') = Cardinality(GrantedCalls) + n
        BY <1>3, <1>15, <2>1, <2>7
      <3>3. /\ counters'["completed"] + counters'["failed"]
                 + counters'["cancelledActive"] <= counters'["slotReleases"]
            /\ counters'["slotReleases"]
                 <= counters'["completed"] + counters'["failed"]
                    + counters'["cancelledActive"] + counters'["cancelledQueued"]
        BY <1>4, <1>old, <3>1
      <3>4. counters'["admitted"]
              = counters'["completed"] + counters'["failed"] + counters'["cancelledActive"]
                + activeGenerations' - Cardinality(GrantedCalls')
        BY <1>3, <1>4, <1>old, <2>9, <3>1, <3>2
      <3>5. nextWaiterID'
              = Cardinality(waiters') + activeGenerations'
                + (counters'["completed"] + counters'["failed"]
                   + counters'["cancelledActive"] + counters'["cancelledQueued"]
                   + counters'["rejectedQueueFull"] + counters'["rejectedTimeout"])
                + Cardinality(SilentCalls')
        BY <1>3, <1>4, <1>old, <2>9, <3>1, <3>2
      <3> QED
        BY <1>new, <3>3, <3>4, <3>5
    <2>8. CASE out = "cancelledQueued"
      <3>1. /\ counters'["admitted"] = counters["admitted"]
            /\ counters'["completed"] = counters["completed"]
            /\ counters'["failed"] = counters["failed"]
            /\ counters'["cancelledActive"] = counters["cancelledActive"]
            /\ counters'["cancelledQueued"] = counters["cancelledQueued"] + 1
            /\ counters'["slotReleases"] = counters["slotReleases"] + 1
            /\ counters'["rejectedQueueFull"] = counters["rejectedQueueFull"]
            /\ counters'["rejectedTimeout"] = counters["rejectedTimeout"]
        BY <2>3, <2>4, <2>8
      <3>2. Cardinality(GrantedCalls') = Cardinality(GrantedCalls) + n - 1
        BY <1>3, <1>15, <2>1, <2>8
      <3>3. /\ counters'["completed"] + counters'["failed"]
                 + counters'["cancelledActive"] <= counters'["slotReleases"]
            /\ counters'["slotReleases"]
                 <= counters'["completed"] + counters'["failed"]
                    + counters'["cancelledActive"] + counters'["cancelledQueued"]
        BY <1>4, <1>old, <3>1
      <3>4. counters'["admitted"]
              = counters'["completed"] + counters'["failed"] + counters'["cancelledActive"]
                + activeGenerations' - Cardinality(GrantedCalls')
        BY <1>3, <1>4, <1>old, <2>9, <3>1, <3>2
      <3>5. nextWaiterID'
              = Cardinality(waiters') + activeGenerations'
                + (counters'["completed"] + counters'["failed"]
                   + counters'["cancelledActive"] + counters'["cancelledQueued"]
                   + counters'["rejectedQueueFull"] + counters'["rejectedTimeout"])
                + Cardinality(SilentCalls')
        BY <1>3, <1>4, <1>old, <2>9, <3>1, <3>2
      <3> QED
        BY <1>new, <3>3, <3>4, <3>5
    <2> QED
      BY <1>15, <2>5, <2>6, <2>7, <2>8
  <1>16. ASSUME NEW r \in Requests, CancelBeforeStart(r) PROVE LedgerBalance'
    BY <1>15, <1>16
       DEF CancelBeforeStart, Holders, Holding, Settled, Refused, CounterNames
  <1>17. ASSUME NEW r \in Requests, Finish(r) PROVE LedgerBalance'
    <2>1. r \in Holders /\ phase[r] # "granted"
      BY <1>17 DEF Finish, Holders, Holding, Ended
    <2>2. ReleaseOutcome(r) \in {"completed", "failed", "cancelledActive"}
      BY DEF ReleaseOutcome
    <2> QED
      BY <1>15, <1>17, <2>1, <2>2 DEF Finish, Settled, Released, CounterNames
  <1>18. ASSUME NEW r \in Requests, TimerElapses(r) \/ Cancel(r) PROVE LedgerBalance'
    BY <1>6, <1>18 DEF TimerElapses, Cancel, GrantedCalls, SilentCalls
  <1>19. ASSUME NEW r \in Requests, OperationEnds(r) PROVE LedgerBalance'
    BY <1>2, <1>6, <1>19 DEF OperationEnds, Ended, GrantedCalls, SilentCalls
  <1>20. CASE UNCHANGED vars
    BY <1>6, <1>20 DEF vars, GrantedCalls, SilentCalls
  <1> QED
    BY <1>7, <1>8, <1>9, <1>10, <1>12, <1>13, <1>14, <1>16, <1>17, <1>18, <1>19, <1>20
       DEF Next, Step, Submit, ActorStep, Quiescent

\* The counters of the status surface balance: every admitted generation is
\* accounted for once, and every call of submit waits, holds a slot, was counted
\* under one outcome or is the one kind acquire drops uncounted.
THEOREM LedgerBalances == Spec => []Ledger
  <1>1. Spec => []LedgerBalance
    BY InitLedger, NextLedger, Invariance, PTL DEF Spec
  <1>2. IInv => TypeOK
    BY DEF IInv
  <1> QED
    BY <1>1, <1>2, LedgerIsBalance, Invariance, PTL

-----------------------------------------------------------------------------
(* Action properties                                                       *)

\* The two releasing steps, in one form.
LEMMA ReleasingStep ==
    ASSUME NEW r \in Requests, CancelBeforeStart(r) \/ Finish(r)
    PROVE  /\ r \in Holders
           /\ \E end \in Settled : \E out \in CounterNames \ {"peakActiveGenerations"} :
                 Release(r, end, out)
           /\ UNCHANGED <<priority, waiterID, nextWaiterID, isCancelled, cancelTasks>>
  <1>1. CASE CancelBeforeStart(r)
    BY <1>1 DEF CancelBeforeStart, Holders, Holding, Settled, Refused, CounterNames
  <1>2. CASE Finish(r)
    BY <1>2 DEF Finish, ReleaseOutcome, Holders, Holding, Settled, Released, CounterNames
  <1> QED
    BY <1>1, <1>2

\* Whoever gets a slot is served before everybody who still waits.
THEOREM ServiceOrder == Spec => NoOvertaking
  <1> DEFINE Fair(r) == phase[r] \notin Holding /\ phase'[r] \in Holding
                          => \A w \in waiters' : Before(r, w)'
  <1>1. IInv /\ [Next]_vars => [\A r \in Requests : Fair(r)]_vars
    <2> SUFFICES ASSUME IInv, Next, NEW r \in Requests PROVE Fair(r)
      OBVIOUS
    <2>1. SUFFICES ASSUME phase[r] \notin Holding, phase'[r] \in Holding
                   PROVE  \A w \in waiters' : Before(r, w)'
      OBVIOUS
    <2>2. phase \in [Requests -> Phases]
      BY DEF IInv, TypeOK
    <2>3. ASSUME NEW q \in Requests, Submit(q) PROVE waiters' = {}
      BY <2>1, <2>2, <2>3
         DEF Submit, AcquireCancelled, AcquireFast, AcquireQueueFull, AcquireEnqueue,
             Arrive, Holding, Ended
    <2>4. ASSUME NEW q \in Requests, CancelBeforeStart(q) \/ Finish(q)
          PROVE  \A w \in waiters' : Before(r, w)'
      <3>1. PICK end \in Settled, out \in CounterNames \ {"peakActiveGenerations"} :
               /\ q \in Holders
               /\ Release(q, end, out)
               /\ UNCHANGED <<priority, waiterID>>
        BY <2>4, ReleasingStep
      <3>2. PICK G \in SUBSET waiters :
              /\ phase' = [x \in Requests |-> IF x = q THEN end
                                              ELSE IF x \in G THEN "granted"
                                              ELSE phase[x]]
              /\ waiters' = waiters \ G
              /\ \A g \in G, w \in waiters \ G : Before(g, w)
        BY <3>1, ReleaseGrants
      <3>3. r \in G
        BY <2>1, <3>1, <3>2 DEF Holding, Ended, Settled, Refused, Released
      <3> QED
        BY <3>1, <3>2, <3>3 DEF Before
    <2>5. ~ \E q \in Requests : \/ CancelWaiter(q) \/ ExpireWaiter(q) \/ Start(q)
                                \/ TimerElapses(q) \/ OperationEnds(q) \/ Cancel(q)
      BY <2>1, <2>2 DEF CancelWaiter, ExpireWaiter, Start, TimerElapses, OperationEnds,
                        Cancel, Holding, Ended
    <2>6. ~Quiescent
      BY <2>1 DEF Quiescent, vars
    <2> QED
      BY <2>3, <2>4, <2>5, <2>6 DEF Next, Step, ActorStep
  <1> QED
    BY <1>1, Invariance, PTL DEF Spec, NoOvertaking

\* The two promises about one request at a time come from how one step may move
\* its phase.
LEMMA PhaseSteps ==
    ASSUME IInv, Next, NEW r \in Requests
    PROVE  \/ phase'[r] = phase[r]
           \/ phase[r] = "idle"
           \/ phase[r] = "waiting" /\ phase'[r] \in Refused \cup {"granted"}
           \/ phase[r] = "granted" /\ phase'[r] = "running" /\ ~isCancelled[r]
           \/ phase[r] = "granted" /\ phase'[r] \in Settled
           \/ phase[r] = "running" /\ phase'[r] \in Ended
           \/ phase[r] \in Ended /\ phase'[r] \in Settled
  <1>1. phase \in [Requests -> Phases] /\ waiters = {q \in Requests : phase[q] = "waiting"}
    BY DEF IInv, TypeOK, QueueIsTheWaiting
  <1>2. ASSUME NEW q \in Requests, CancelBeforeStart(q) \/ Finish(q),
               phase'[r] # phase[r]
        PROVE  \/ phase[r] \in {"granted"} \cup Ended /\ phase'[r] \in Settled
               \/ phase[r] = "waiting" /\ phase'[r] = "granted"
    <2>1. PICK end \in Settled, out \in CounterNames \ {"peakActiveGenerations"} :
             q \in Holders /\ Release(q, end, out)
      BY <1>2, ReleasingStep
    <2>2. PICK G \in SUBSET waiters :
            phase' = [x \in Requests |-> IF x = q THEN end
                                         ELSE IF x \in G THEN "granted"
                                         ELSE phase[x]]
      BY <2>1, ReleaseGrants
    <2>3. phase[q] \in {"granted"} \cup Ended
      BY <1>2 DEF CancelBeforeStart, Finish
    <2> QED
      BY <1>1, <1>2, <2>1, <2>2, <2>3
  <1>3. ASSUME NEW q \in Requests, CancelWaiter(q) \/ ExpireWaiter(q) \/ Start(q)
                 \/ TimerElapses(q) \/ OperationEnds(q) \/ Cancel(q) \/ Submit(q),
               phase'[r] # phase[r]
        PROVE  \/ phase[r] = "idle"
               \/ phase[r] = "waiting" /\ phase'[r] \in Refused
               \/ phase[r] = "granted" /\ phase'[r] = "running" /\ ~isCancelled[r]
               \/ phase[r] = "running" /\ phase'[r] \in Ended
    BY <1>1, <1>3 DEF CancelWaiter, ExpireWaiter, StillWaiting, Start, TimerElapses,
         OperationEnds, Cancel, Submit, Arrive, AcquireCancelled, AcquireFast,
         AcquireQueueFull, AcquireEnqueue, Refused
  <1> QED
    BY <1>2, <1>3 DEF Next, Step, ActorStep, Quiescent, vars

\* No late timer, cancelWaiter task or grant moves a request that has settled.
THEOREM SettlesOnce == Spec => SettledOnce
  <1>1. IInv /\ [Next]_vars
          => [\A r \in Requests : phase[r] \in Settled => phase'[r] = phase[r]]_vars
    BY PhaseSteps DEF Settled, Refused, Released, Ended
  <1> QED
    BY <1>1, Invariance, PTL DEF Spec, SettledOnce

\* Cancelled before its operation started, a request never runs it.
THEOREM CancelledNeverRuns == Spec => CancelledInQueueNeverRuns
  <1>1. IInv /\ [Next]_vars
          => [\A r \in Requests :
                isCancelled[r] /\ phase[r] \in {"waiting", "granted"}
                  => phase'[r] \notin {"running"} \cup Ended]_vars
    BY PhaseSteps DEF Settled, Refused, Released, Ended
  <1> QED
    BY <1>1, Invariance, PTL DEF Spec, CancelledInQueueNeverRuns

-----------------------------------------------------------------------------
(* The refinement: what the proof needs beyond IInv                        *)

\* Detached tasks exist for a reason: a cancelWaiter task only for a cancelled
\* call, a timer only when waits are bounded.
TasksHaveCauses ==
    \A r \in Requests : /\ r \in cancelTasks => isCancelled[r]
                        /\ timer[r] # "none" => BoundedWait

\* No step creates a detached task without its cause.
LEMMA TasksHaveCausesStep == IInv /\ TasksHaveCauses /\ [Next]_vars => TasksHaveCauses'
  <1> SUFFICES ASSUME IInv, TasksHaveCauses, [Next]_vars PROVE TasksHaveCauses'
    OBVIOUS
  <1> USE DEF IInv, TypeOK, TasksHaveCauses
  <1>1. ASSUME NEW r \in Requests, NEW p \in Priorities,
               AcquireCancelled(r, p) \/ AcquireFast(r, p)
                 \/ AcquireQueueFull(r, p) \/ AcquireEnqueue(r, p)
        PROVE  TasksHaveCauses'
    BY <1>1 DEF AcquireCancelled, AcquireFast, AcquireQueueFull, AcquireEnqueue
  <1>2. ASSUME NEW r \in Requests,
               CancelWaiter(r) \/ ExpireWaiter(r) \/ Start(r)
                 \/ TimerElapses(r) \/ OperationEnds(r)
        PROVE  TasksHaveCauses'
    BY <1>2 DEF CancelWaiter, ExpireWaiter, Start, TimerElapses, OperationEnds, CancelTimers
  <1>3. ASSUME NEW r \in Requests, Cancel(r) PROVE TasksHaveCauses'
    BY <1>3 DEF Cancel
  <1>4. ASSUME NEW r \in Requests, CancelBeforeStart(r) \/ Finish(r)
        PROVE  TasksHaveCauses'
    <2>1. PICK G \in SUBSET waiters : timer' = CancelTimers(G)
      BY <1>4 DEF CancelBeforeStart, Finish, Release, GrantNextWaiter
    <2> QED
      BY <1>4, <2>1 DEF CancelBeforeStart, Finish, CancelTimers
  <1>5. CASE UNCHANGED vars
    BY <1>5 DEF vars
  <1> QED
    BY <1>1, <1>2, <1>3, <1>4, <1>5 DEF Next, Step, Submit, ActorStep, Quiescent

\* Detached tasks have their causes in every reachable state.
LEMMA TasksHaveCausesAlways == Spec => []TasksHaveCauses
  <1>1. Init => TasksHaveCauses
    BY DEF Init, TasksHaveCauses
  <1> QED
    BY <1>1, TasksHaveCausesStep, Invariance, PTL DEF Spec

-----------------------------------------------------------------------------
(* The contract's view of a state                                          *)

\* The instance has its own copy of the library's Cardinality.
LEMMA SameCardinality == \A S : Contract!Cardinality(S) = Cardinality(S)
  BY DEF Cardinality, Contract!Cardinality

\* How the scheduler's phases look to the contract: its queue and its slots are the
\* actor's waiters and holders.
LEMMA ContractView ==
    ASSUME IInv
    PROVE  /\ Contract!Queue = waiters
           /\ Contract!Slots = Holders
           /\ \A r \in Requests : /\ Status[r] = "outside" <=> phase[r] = "idle"
                                  /\ Status[r] = "gone" <=> phase[r] \in Settled
  <1>1. phase \in [Requests -> Phases] /\ waiters = {r \in Requests : phase[r] = "waiting"}
    BY DEF IInv, TypeOK, QueueIsTheWaiting
  <1> QED
    BY <1>1 DEF Contract!Queue, Contract!Slots, Holders, Status, StatusOf, Phases,
                Holding, Ended, Settled, Refused, Released

\* Before is a strict order on the queue.
LEMMA BeforeIsStrict ==
    ASSUME IInv, NEW a \in Requests, NEW b \in Requests
    PROVE  ~(Before(a, b) /\ Before(b, a))
  BY DEF Before, Rank, IInv, TypeOK

\* A step that changes nothing the contract sees.
LEMMA SameView ==
    ASSUME UNCHANGED <<waiters, priority, waiterID, isCancelled>>,
           \A r \in Requests : StatusOf(phase'[r]) = StatusOf(phase[r])
    PROVE  UNCHANGED Contract!vars
  <1>1. Status' = Status
    BY DEF Status
  <1>2. Ahead' = Ahead /\ Withdrawn' = Withdrawn
    BY DEF Ahead, Withdrawn, Before
  <1> QED
    BY <1>1, <1>2 DEF Contract!vars

-----------------------------------------------------------------------------
(* Arrivals                                                                *)

\* An arrival changes the status and the class of nobody but the one who arrives.
LEMMA ArrivalStatus ==
    ASSUME IInv, NEW r \in Requests, NEW p \in Priorities, Arrive(r, p),
           NEW s, phase' = [phase EXCEPT ![r] = s], UNCHANGED isCancelled
    PROVE  Contract!Arrive(r, p, StatusOf(s))
  <1>1. Status[r] = "outside"
    BY DEF Arrive, Status, StatusOf
  <1>2. Status' = [Status EXCEPT ![r] = StatusOf(s)]
    BY DEF Status, IInv, TypeOK
  <1>3. Withdrawn' = Withdrawn
    BY DEF Withdrawn
  <1> QED
    BY <1>1, <1>2, <1>3 DEF Contract!Arrive, Arrive

\* An arrival that does not join the queue leaves the line as it is.
LEMMA ArrivalBeside ==
    ASSUME IInv, NEW r \in Requests, NEW p \in Priorities, Arrive(r, p),
           UNCHANGED waiters
    PROVE  Ahead' = Ahead
  <1>1. r \notin waiters
    BY DEF IInv, QueueIsTheWaiting, Arrive
  <1>2. \A a, b \in waiters : Before(a, b)' <=> Before(a, b)
    BY <1>1 DEF Arrive, Before, IInv, TypeOK
  <1> QED
    BY <1>2 DEF Ahead

\* The new id is the largest, so an enqueued request is behind its own class and,
\* if interactive, in front of the background class.
LEMMA EnqueueJoins ==
    ASSUME IInv, NEW r \in Requests, NEW p \in Priorities, AcquireEnqueue(r, p)
    PROVE  Contract!Join(r, p)
  <1>1. Contract!Arrive(r, p, "queued")
    BY ArrivalStatus DEF AcquireEnqueue, StatusOf
  <1>2. Contract!Cardinality(Contract!Slots) = MaxActiveGenerations
    BY ContractView, SameCardinality, SlotAssumption
       DEF AcquireEnqueue, SlotIsFree, IInv, SlotAccounting, WorkConserving, TypeOK
  <1>3. Contract!Cardinality(Contract!Queue) < MaxQueueDepth
    BY ContractView, SameCardinality DEF AcquireEnqueue, QueueHasRoom
  <1>4. /\ r \notin waiters /\ waiters' = waiters \cup {r}
        /\ waiters \subseteq Requests
        /\ \A w \in waiters : waiterID[w] < nextWaiterID /\ waiterID[w] \in Nat
        /\ waiterID' = [waiterID EXCEPT ![r] = nextWaiterID]
        /\ priority' = [priority EXCEPT ![r] = p]
    BY DEF AcquireEnqueue, Arrive, IInv, TypeOK, QueueIsTheWaiting, IdsDistinct
  <1>5. \A a, b \in waiters : Before(a, b)' <=> Before(a, b)
    BY <1>4 DEF Before, IInv, TypeOK
  <1>6. ASSUME NEW w \in waiters
        PROVE  /\ Before(w, r)' <=> priority[w] = "interactive" \/ p = "background"
               /\ Before(r, w)' <=> priority[w] = "background" /\ p = "interactive"
               /\ ~Before(r, r)'
    <2>1. /\ priority'[w] = priority[w] /\ priority'[r] = p
          /\ waiterID'[w] = waiterID[w] /\ waiterID'[r] = nextWaiterID
          /\ priority[w] \in Priorities /\ nextWaiterID \in Nat
      BY <1>4 DEF IInv, TypeOK
    <2> QED
      BY <1>4, <2>1 DEF Before, Rank, Priorities
  <1>7. ~Before(r, r)'
    BY <1>4 DEF Before, Rank, IInv, TypeOK
  <1>8. Ahead' = [q \in Requests |->
            IF q = r
              THEN {w \in waiters : priority[w] = "interactive" \/ p = "background"}
            ELSE IF q \in waiters /\ priority[q] = "background" /\ p = "interactive"
              THEN Ahead[q] \cup {r}
            ELSE Ahead[q]]
    <2>1. Ahead' = [q \in Requests |->
             IF q \in waiters \cup {r}
             THEN {w \in waiters \cup {r} : Before(w, q)'} ELSE {}]
      BY <1>4 DEF Ahead
    <2>2. {w \in waiters \cup {r} : Before(w, r)'}
            = {w \in waiters : priority[w] = "interactive" \/ p = "background"}
      BY <1>6, <1>7
    <2>3. ASSUME NEW q \in waiters
          PROVE  {w \in waiters \cup {r} : Before(w, q)'}
                   = IF priority[q] = "background" /\ p = "interactive"
                     THEN {w \in waiters : Before(w, q)} \cup {r}
                     ELSE {w \in waiters : Before(w, q)}
      BY <1>5, <1>6, <1>4
    <2> QED
      BY <1>4, <2>1, <2>2, <2>3 DEF Ahead
  <1> QED
    <2>1. waiters = Contract!Queue
      BY ContractView
    <2> QED
      BY <1>1, <1>2, <1>3, <1>8, <2>1, Zenon DEF Contract!Join

\* Each way out of acquire is an arrival of the contract: admitted, queued or turned
\* away for a reason the contract knows.
LEMMA ArrivalImplements ==
    ASSUME IInv, NEW r \in Requests, Submit(r)
    PROVE  Contract!Next
  <1>1. PICK p \in Priorities : \/ AcquireCancelled(r, p)
                                \/ AcquireFast(r, p)
                                \/ AcquireQueueFull(r, p)
                                \/ AcquireEnqueue(r, p)
    BY DEF Submit
  <1>2. CASE AcquireCancelled(r, p)
    <2>1. Contract!Arrive(r, p, "gone") /\ Ahead' = Ahead
      BY <1>2, ArrivalStatus, ArrivalBeside
         DEF AcquireCancelled, StatusOf, Holding, Ended
    <2>2. r \in Withdrawn
      BY <1>2 DEF AcquireCancelled, Withdrawn
    <2>3. Contract!TurnAway(r, p)
      BY <2>1, <2>2 DEF Contract!TurnAway
    <2> QED
      BY <2>3 DEF Contract!Next, Priorities
  <1>3. CASE AcquireFast(r, p)
    <2>1. Contract!Arrive(r, p, "holding") /\ Ahead' = Ahead
      BY <1>3, ArrivalStatus, ArrivalBeside DEF AcquireFast, StatusOf, Holding
    <2>2. Contract!Queue = {} /\ Contract!Cardinality(Contract!Slots) < MaxActiveGenerations
      BY <1>3, ContractView, SameCardinality
         DEF AcquireFast, SlotIsFree, IInv, SlotAccounting
    <2> QED
      BY <2>1, <2>2 DEF Contract!Admit, Contract!Next, Priorities
  <1>4. CASE AcquireQueueFull(r, p)
    <2>1. Contract!Arrive(r, p, "gone") /\ Ahead' = Ahead
      BY <1>4, ArrivalStatus, ArrivalBeside
         DEF AcquireQueueFull, StatusOf, Holding, Ended
    <2>2. Contract!Cardinality(Contract!Slots) = MaxActiveGenerations
      BY <1>4, ContractView, SameCardinality, SlotAssumption
         DEF AcquireQueueFull, SlotIsFree, IInv, SlotAccounting, WorkConserving, TypeOK
    <2>3. Cardinality(waiters) \in Nat
      BY RequestsAssumption, FS_Subset, FS_CardinalityType DEF IInv, TypeOK
    <2>4. Contract!Cardinality(Contract!Queue) = MaxQueueDepth
      BY <1>4, <2>3, ContractView, SameCardinality, QueueAssumption
         DEF AcquireQueueFull, QueueHasRoom, IInv, QueueIsTheWaiting
    <2>5. Contract!TurnAway(r, p)
      BY <2>1, <2>2, <2>4 DEF Contract!TurnAway
    <2> QED
      BY <2>5 DEF Contract!Next, Priorities
  <1>5. CASE AcquireEnqueue(r, p)
    BY <1>5, EnqueueJoins DEF Contract!Next, Priorities
  <1> QED
    BY <1>1, <1>2, <1>3, <1>4, <1>5

-----------------------------------------------------------------------------
(* Departures                                                              *)

\* A waiter taken out of the array leaves the contract's queue.
LEMMA SettleImplements ==
    ASSUME IInv, NEW r \in waiters, NEW s \in Settled,
           r \in Withdrawn \/ BoundedWait,
           waiters' = waiters \ {r}, phase' = [phase EXCEPT ![r] = s],
           UNCHANGED <<priority, waiterID, isCancelled>>
    PROVE  Contract!Leave(r)
  <1>1. r \in Requests /\ r \in Contract!Queue
    BY ContractView DEF IInv, TypeOK
  <1>2. Status' = [Status EXCEPT ![r] = "gone"]
    BY <1>1 DEF Status, StatusOf, IInv, TypeOK, Settled, Refused, Released, Holding, Ended
  <1>3. Ahead' = [q \in Requests |-> IF q = r THEN {} ELSE Ahead[q] \ {r}]
    BY <1>1 DEF Ahead, Before
  <1>4. Withdrawn' = Withdrawn
    BY DEF Withdrawn
  <1> QED
    BY <1>1, <1>2, <1>3, <1>4 DEF Contract!Leave

\* A released slot is vacated, or goes to the waiter that had nobody ahead.
LEMMA ReleaseImplements ==
    ASSUME IInv, NEW r \in Requests, CancelBeforeStart(r) \/ Finish(r)
    PROVE  Contract!Next
  <1>1. PICK end \in Settled, out \in CounterNames \ {"peakActiveGenerations"} :
          /\ r \in Holders
          /\ Release(r, end, out)
          /\ UNCHANGED <<priority, waiterID, isCancelled>>
    BY ReleasingStep
  <1>2. PICK G \in SUBSET waiters :
          /\ phase' = [q \in Requests |-> IF q = r THEN end
                                          ELSE IF q \in G THEN "granted"
                                          ELSE phase[q]]
          /\ waiters' = waiters \ G
          /\ IF waiters = {} THEN G = {} ELSE Cardinality(G) = 1
          /\ \A g \in G, w \in waiters \ G : Before(g, w)
    BY <1>1, ReleaseGrants
  <1>3. r \in Contract!Slots /\ Withdrawn' = Withdrawn
    BY <1>1, ContractView DEF Withdrawn
  <1>4. StatusOf(end) = "gone" /\ StatusOf("granted") = "holding"
    BY DEF StatusOf, Settled, Refused, Released, Holding, Ended
  <1>5. CASE waiters = {}
    <2>1. Status' = [Status EXCEPT ![r] = "gone"]
      BY <1>2, <1>4, <1>5 DEF Status
    <2>2. Ahead' = Ahead
      BY <1>1, <1>2, <1>5 DEF Ahead
    <2> QED
      BY <1>1, <1>3, <1>5, <2>1, <2>2, ContractView DEF Contract!Vacate, Contract!Next
  <1>6. CASE waiters # {}
    <2>1. PICK w \in waiters : G = {w}
      <3>1. IsFiniteSet(G)
        BY RequestsAssumption, FS_Subset DEF IInv, TypeOK
      <3> QED
        BY <1>2, <1>6, <3>1, FS_Singleton
    <2>2. w \in Requests /\ w # r /\ w \in Contract!Queue
      BY <1>1, ContractView
         DEF Holders, Holding, Ended, IInv, TypeOK, QueueIsTheWaiting
    <2>3. Ahead[w] = {}
      <3>1. ASSUME NEW v \in waiters PROVE ~Before(v, w)
        <4>1. v \in Requests
          BY DEF IInv, TypeOK
        <4>2. CASE v = w
          BY <4>2, <2>2, BeforeIsStrict
        <4>3. CASE v # w
          BY <1>2, <2>1, <2>2, <4>1, <4>3, BeforeIsStrict
        <4> QED
          BY <4>2, <4>3
      <3> QED
        BY <2>2, <3>1 DEF Ahead
    <2>4. Status' = [Status EXCEPT ![r] = "gone", ![w] = "holding"]
      BY <1>2, <1>4, <2>1, <2>2 DEF Status
    <2>5. Ahead' = [q \in Requests |-> Ahead[q] \ {w}]
      <3>1. Ahead' = [q \in Requests |->
                IF q \in waiters \ {w} THEN {v \in waiters \ {w} : Before(v, q)} ELSE {}]
        BY <1>1, <1>2, <2>1 DEF Ahead, Before
      <3> QED
        BY <2>2, <2>3, <3>1 DEF Ahead
    <2> QED
      BY <1>1, <1>3, <2>2, <2>3, <2>4, <2>5 DEF Contract!HandOver, Contract!Next
  <1> QED
    BY <1>5, <1>6

-----------------------------------------------------------------------------

\* Every step of the scheduler is a step of the contract or a stutter.
LEMMA StepImplements ==
    IInv /\ TasksHaveCauses /\ [Next]_vars => [Contract!Next]_(Contract!vars)
  <1> SUFFICES ASSUME IInv, TasksHaveCauses, [Next]_vars
               PROVE  Contract!Next \/ UNCHANGED Contract!vars
    OBVIOUS
  <1>1. ASSUME NEW r \in Requests, Submit(r) PROVE Contract!Next
    BY <1>1, ArrivalImplements
  <1>2. ASSUME NEW r \in Requests, CancelWaiter(r)
        PROVE  Contract!Next \/ UNCHANGED Contract!vars
    <2>1. CASE r \in waiters
      <3>1. r \in Withdrawn
        BY <1>2 DEF CancelWaiter, TasksHaveCauses, Withdrawn
      <3> QED
        BY <1>2, <2>1, <3>1, SettleImplements
           DEF CancelWaiter, StillWaiting, Settled, Refused, Contract!Next
    <2>2. CASE r \notin waiters
      BY <1>2, <2>2, SameView DEF CancelWaiter, StillWaiting
    <2> QED
      BY <2>1, <2>2
  <1>3. ASSUME NEW r \in Requests, ExpireWaiter(r)
        PROVE  Contract!Next \/ UNCHANGED Contract!vars
    <2>1. CASE r \in waiters
      <3>1. BoundedWait
        BY <1>3 DEF ExpireWaiter, TasksHaveCauses
      <3> QED
        BY <1>3, <2>1, <3>1, SettleImplements
           DEF ExpireWaiter, StillWaiting, Settled, Refused, Contract!Next
    <2>2. CASE r \notin waiters
      BY <1>3, <2>2, SameView DEF ExpireWaiter, StillWaiting
    <2> QED
      BY <2>1, <2>2
  <1>4. ASSUME NEW r \in Requests, Start(r) \/ OperationEnds(r) \/ TimerElapses(r)
        PROVE  UNCHANGED Contract!vars
    <2>1. \A q \in Requests : StatusOf(phase'[q]) = StatusOf(phase[q])
      BY <1>4 DEF Start, OperationEnds, TimerElapses, StatusOf, Holding, Ended,
                  IInv, TypeOK
    <2> QED
      BY <1>4, <2>1, SameView DEF Start, OperationEnds, TimerElapses
  <1>5. ASSUME NEW r \in Requests, CancelBeforeStart(r) \/ Finish(r)
        PROVE  Contract!Next
    BY <1>5, ReleaseImplements
  <1>6. ASSUME NEW r \in Requests, Cancel(r) PROVE Contract!Next
    <2>1. Status[r] # "gone" /\ r \notin Withdrawn
      BY <1>6, ContractView DEF Cancel, Withdrawn
    <2>2. Withdrawn' = Withdrawn \cup {r}
      BY <1>6 DEF Cancel, Withdrawn, IInv, TypeOK
    <2>3. Status' = Status /\ Ahead' = Ahead /\ priority' = priority
      BY <1>6 DEF Cancel, Status, Ahead, Before
    <2> QED
      BY <2>1, <2>2, <2>3 DEF Contract!Withdraw, Contract!Next
  <1>7. CASE UNCHANGED vars
    BY <1>7, SameView DEF vars
  <1> QED
    BY <1>1, <1>2, <1>3, <1>4, <1>5, <1>6, <1>7 DEF Next, Step, ActorStep, Quiescent

\* Whatever the timers, the detached tasks and the cancellations do, a client
\* sees a bounded queue in front of bounded slots, served in class order.
THEOREM SchedulerImplementsContract == Spec => ImplementsContract
  <1>1. Init => Contract!Init
    BY DEF Init, Contract!Init, Status, StatusOf, Ahead, Withdrawn
  <1> QED
    BY <1>1, StepImplements, Invariance, TasksHaveCausesAlways, PTL
       DEF Spec, ImplementsContract, Contract!Spec
=============================================================================
