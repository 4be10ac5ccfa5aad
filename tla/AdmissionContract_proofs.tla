---------------------- MODULE AdmissionContract_proofs ----------------------
(***************************************************************************)
(* What the contract of admission amounts to, for every finite set of      *)
(* requests and every number of slots: the queue is one line, and a slot   *)
(* is never idle while somebody waits.  RequestScheduler is proved to      *)
(* implement the contract, and the runs of the engine to use it.           *)
(***************************************************************************)
EXTENDS AdmissionContract, FiniteSetTheorems, TLAPS

Typed ==
    /\ status \in [Requests -> {"outside", "queued", "holding", "gone"}]
    /\ class \in [Requests -> {"interactive", "background"}]
    /\ ahead \in [Requests -> SUBSET Requests]
    /\ withdrawn \subseteq Requests

\* The part of it that concerns the slots.
SlotsOK ==
    /\ status \in [Requests -> {"outside", "queued", "holding", "gone"}]
    /\ withdrawn \subseteq Requests
    /\ Cardinality(Slots) <= MaxActiveGenerations

\* No slot is idle while somebody waits.
SlotsAreUsed == Queue # {} => Cardinality(Slots) = MaxActiveGenerations

\* Who waits stands in one line, the interactive class in front of the background class.
OneLine ==
    /\ \A q \in Queue : ahead[q] \subseteq Queue
    /\ \A q \in Requests \ Queue : ahead[q] = {}
    /\ \A q, w \in Queue : ~(q \in ahead[w] /\ w \in ahead[q])
    /\ \A q, w \in Queue : q # w => q \in ahead[w] \/ w \in ahead[q]
    /\ \A q, w, v \in Queue : v \in ahead[w] /\ w \in ahead[q] => v \in ahead[q]
    /\ \A q, w \in Queue :
          w \in ahead[q] /\ class[w] = "background" => class[q] = "background"

-----------------------------------------------------------------------------

\* Of the contract's steps only these change who holds a slot: one is given while it is
\* free, one comes back, and one is handed over.
LEMMA SlotsAfter ==
    ASSUME IsFiniteSet(Requests), MaxActiveGenerations \in Nat, SlotsOK,
           NEW r \in Requests
    PROVE  /\ Cardinality(Slots) \in Nat
           /\ \A c : Admit(r, c) => /\ Cardinality(Slots') = Cardinality(Slots) + 1
                                    /\ Cardinality(Slots) < MaxActiveGenerations
           /\ \A c : Join(r, c) \/ TurnAway(r, c) => Slots' = Slots
           /\ Leave(r) \/ Withdraw(r) => Slots' = Slots
           /\ Vacate(r) => Cardinality(Slots') = Cardinality(Slots) - 1
           /\ \A w \in Requests : HandOver(r, w) => Cardinality(Slots') = Cardinality(Slots)
  <1> USE DEF SlotsOK, Slots
  <1>1. IsFiniteSet(Slots) /\ Cardinality(Slots) \in Nat
    BY FS_Subset, FS_CardinalityType
  <1>2. ASSUME NEW c, Admit(r, c)
        PROVE  /\ Cardinality(Slots') = Cardinality(Slots) + 1
               /\ Cardinality(Slots) < MaxActiveGenerations
    <2>1. Slots' = Slots \cup {r} /\ r \notin Slots
      BY <1>2 DEF Admit, Arrive
    <2>2. Cardinality(Slots') = Cardinality(Slots) + 1
      BY <1>1, <2>1, FS_AddElement
    <2> QED
      BY <1>2, <2>2 DEF Admit
  <1>3. ASSUME NEW c, Join(r, c) \/ TurnAway(r, c) PROVE Slots' = Slots
    BY <1>3 DEF Join, TurnAway, Arrive
  <1>4. ASSUME Leave(r) \/ Withdraw(r) PROVE Slots' = Slots
    BY <1>4 DEF Leave, Withdraw, Queue
  <1>5. ASSUME Vacate(r) PROVE Cardinality(Slots') = Cardinality(Slots) - 1
    <2>1. Slots' = Slots \ {r} /\ r \in Slots
      BY <1>5 DEF Vacate
    <2> QED
      BY <1>1, <2>1, FS_RemoveElement
  <1>6. ASSUME NEW w \in Requests, HandOver(r, w)
        PROVE  Cardinality(Slots') = Cardinality(Slots)
    <2>1. r \in Slots /\ w \notin Slots /\ Slots' = (Slots \ {r}) \cup {w}
      BY <1>6 DEF HandOver, Queue
    <2>2. IsFiniteSet(Slots \ {r}) /\ Cardinality(Slots \ {r}) = Cardinality(Slots) - 1
      BY <1>1, <2>1, FS_RemoveElement
    <2>3. Cardinality((Slots \ {r}) \cup {w}) = Cardinality(Slots) - 1 + 1
      BY <2>1, <2>2, FS_AddElement
    <2>4. Cardinality(Slots') = Cardinality((Slots \ {r}) \cup {w})
      BY <2>1
    <2> HIDE DEF Slots
    <2> QED
      BY <1>1, <2>3, <2>4
  <1> QED
    BY <1>1, <1>2, <1>3, <1>4, <1>5, <1>6

\* A step of the contract keeps the slots within their number.
LEMMA StepKeepsSlots ==
    ASSUME IsFiniteSet(Requests), MaxActiveGenerations \in Nat, SlotsOK, Next
    PROVE  SlotsOK'
  <1> DEFINE n == Cardinality(Slots)
  <1>1. PICK r \in Requests :
            \/ \E c \in {"interactive", "background"} :
                  Admit(r, c) \/ Join(r, c) \/ TurnAway(r, c)
            \/ Leave(r) \/ Vacate(r) \/ Withdraw(r)
            \/ \E w \in Requests : HandOver(r, w)
    BY DEF Next
  <1>2. n \in Nat /\ n <= MaxActiveGenerations
    BY SlotsAfter DEF SlotsOK
  <1>3. \/ n' = n + 1 /\ n < MaxActiveGenerations
        \/ n' = n
        \/ n' = n - 1
    BY <1>1, SlotsAfter
  <1>4. /\ status' \in [Requests -> {"outside", "queued", "holding", "gone"}]
        /\ withdrawn' \subseteq Requests
    <2>1. CASE \E c \in {"interactive", "background"} :
                  Admit(r, c) \/ Join(r, c) \/ TurnAway(r, c)
      BY <2>1 DEF SlotsOK, Admit, Join, TurnAway, Arrive
    <2>2. CASE Leave(r) \/ Vacate(r) \/ Withdraw(r)
      BY <2>2 DEF SlotsOK, Leave, Vacate, Withdraw
    <2>3. CASE \E w \in Requests : HandOver(r, w)
      BY <2>3 DEF SlotsOK, HandOver
    <2> QED
      BY <1>1, <2>1, <2>2, <2>3
  <1> HIDE DEF n
  <1>5. n' <= MaxActiveGenerations
    BY <1>2, <1>3
  <1> QED
    BY <1>4, <1>5 DEF SlotsOK, n

\* What a step does to a request that is not the one that acts: a waiter may be handed a
\* slot, and that is all.
LEMMA StepOfOthers ==
    ASSUME SlotsOK, NEW r \in Requests, NEW q \in Requests, q # r,
           \/ \E c : Admit(r, c) \/ Join(r, c) \/ TurnAway(r, c)
           \/ Leave(r) \/ Vacate(r) \/ Withdraw(r)
           \/ \E w \in Requests : HandOver(r, w)
    PROVE  /\ status'[q] = status[q] \/ (status[q] = "queued" /\ status'[q] = "holding")
           /\ q \in withdrawn' <=> q \in withdrawn
  <1>1. CASE \E c : Admit(r, c) \/ Join(r, c) \/ TurnAway(r, c)
    BY <1>1 DEF SlotsOK, Admit, Join, TurnAway, Arrive
  <1>2. CASE Leave(r) \/ Vacate(r) \/ Withdraw(r)
    BY <1>2 DEF SlotsOK, Leave, Vacate, Withdraw
  <1>3. CASE \E w \in Requests : HandOver(r, w)
    BY <1>3 DEF SlotsOK, HandOver, Queue
  <1> QED
    BY <1>1, <1>2, <1>3

\* What it does to the one that acts.
LEMMA StepOfSelf ==
    ASSUME SlotsOK, NEW r \in Requests
    PROVE  /\ \A c : Admit(r, c) =>
                 status[r] = "outside" /\ status'[r] = "holding" /\ withdrawn' = withdrawn
           /\ \A c : Join(r, c) =>
                 status[r] = "outside" /\ status'[r] = "queued" /\ withdrawn' = withdrawn
           /\ \A c : TurnAway(r, c) =>
                 status[r] = "outside" /\ status'[r] = "gone" /\ withdrawn' = withdrawn
           /\ Leave(r) =>
                 status[r] = "queued" /\ status'[r] = "gone" /\ withdrawn' = withdrawn
           /\ Vacate(r) \/ (\E w \in Requests : HandOver(r, w)) =>
                 status[r] = "holding" /\ status'[r] = "gone" /\ withdrawn' = withdrawn
           /\ Withdraw(r) => status' = status /\ withdrawn' = withdrawn \cup {r}
  <1>1. \A w \in Requests : HandOver(r, w) =>
           status[r] = "holding" /\ status'[r] = "gone" /\ withdrawn' = withdrawn
    BY DEF SlotsOK, HandOver, Slots, Queue
  <1> QED
    BY <1>1 DEF SlotsOK, Admit, Join, TurnAway, Arrive, Leave, Vacate, Withdraw, Slots, Queue

-----------------------------------------------------------------------------

ContractInv == Typed /\ SlotsOK /\ SlotsAreUsed /\ OneLine

\* Nobody is in the queue and no slot is given at the start.
LEMMA InitContract ==
    ASSUME IsFiniteSet(Requests), MaxActiveGenerations \in Nat, Init
    PROVE  ContractInv
  <1>1. Slots = {} /\ Queue = {}
    BY DEF Init, Slots, Queue
  <1>2. Cardinality(Slots) = 0
    BY <1>1, FS_EmptySet
  <1>3. SlotsOK
    BY <1>2 DEF Init, SlotsOK
  <1> QED
    BY <1>1, <1>3 DEF Init, ContractInv, Typed, SlotsAreUsed, OneLine

\* A request joins behind its own class; the background class gets behind it.
LEMMA JoinKeepsLine ==
    ASSUME Typed, OneLine, NEW r \in Requests, NEW c \in {"interactive", "background"},
           Join(r, c)
    PROVE  OneLine'
  <1> USE DEF Typed
  <1>1. Queue' = Queue \cup {r} /\ r \notin Queue
    BY DEF Join, Arrive, Queue
  <1>2. /\ class'[r] = c
        /\ \A q \in Queue : q \in Requests /\ q # r /\ class'[q] = class[q]
                           /\ class[q] \in {"interactive", "background"}
    BY <1>1 DEF Join, Arrive, Queue
  <1> HIDE DEF Typed
  <1>3. /\ \A w : w \in ahead'[r] <=> w \in Queue /\ (class[w] = "interactive" \/ c = "background")
        /\ \A q \in Queue : \A w :
              w \in ahead'[q] <=>
                 (w \in ahead[q] \/ (w = r /\ class[q] = "background" /\ c = "interactive"))
        /\ \A q \in Requests \ Queue' : ahead'[q] = ahead[q]
    <2>1. \A q \in Requests : ahead'[q] =
            IF q = r
              THEN {w \in Queue : class[w] = "interactive" \/ c = "background"}
            ELSE IF q \in Queue /\ class[q] = "background" /\ c = "interactive"
              THEN ahead[q] \cup {r}
            ELSE ahead[q]
      BY DEF Join
    <2>2. \A q \in Queue : \A w :
              w \in ahead'[q] <=>
                 (w \in ahead[q] \/ (w = r /\ class[q] = "background" /\ c = "interactive"))
      <3>1. ASSUME NEW q \in Queue
            PROVE  ahead'[q] = IF class[q] = "background" /\ c = "interactive"
                               THEN ahead[q] \cup {r} ELSE ahead[q]
        <4>1. q \in Requests /\ q # r
          BY <1>2
        <4> QED
          BY <2>1, <4>1
      <3> QED
        BY <3>1
    <2>3. \A q \in Requests \ Queue' : ahead'[q] = ahead[q]
      BY <1>1, <2>1
    <2>4. \A w : w \in ahead'[r] <=> w \in Queue /\ (class[w] = "interactive" \/ c = "background")
      BY <2>1
    <2> QED
      BY <2>2, <2>3, <2>4
  <1>4. ASSUME NEW q \in Queue, NEW w \in Queue PROVE w \in ahead'[q] <=> w \in ahead[q]
    <2>1. w # r
      BY <1>2
    <2> QED
      BY <1>3, <2>1
  <1>5. /\ \A q \in Queue : ahead[q] \subseteq Queue
        /\ \A q \in Requests \ Queue : ahead[q] = {}
        /\ \A q, w \in Queue : ~(q \in ahead[w] /\ w \in ahead[q])
        /\ \A q, w \in Queue : q # w => q \in ahead[w] \/ w \in ahead[q]
        /\ \A q, w, v \in Queue : v \in ahead[w] /\ w \in ahead[q] => v \in ahead[q]
        /\ \A q, w \in Queue : w \in ahead[q] /\ class[w] = "background" => class[q] = "background"
    BY DEF OneLine
  <1>6. ASSUME NEW q \in Queue', NEW w, w \in ahead'[q] PROVE w \in Queue'
    BY <1>1, <1>3, <1>5, <1>6
  <1>7. \A q \in Requests \ Queue' : ahead'[q] = {}
    BY <1>1, <1>3, <1>5
  <1>8. ASSUME NEW q \in Queue', NEW w \in Queue', q \in ahead'[w], w \in ahead'[q]
        PROVE  FALSE
    <2>1. CASE q = r
      BY <1>1, <1>2, <1>3, <1>5, <1>8, <2>1
    <2>2. CASE w = r
      BY <1>1, <1>2, <1>3, <1>5, <1>8, <2>2
    <2> QED
      BY <1>1, <1>3, <1>5, <1>8, <2>1, <2>2
  <1>9. ASSUME NEW q \in Queue', NEW w \in Queue', q # w
        PROVE  q \in ahead'[w] \/ w \in ahead'[q]
    <2>1. CASE q = r
      BY <1>1, <1>2, <1>3, <1>9, <2>1
    <2>2. CASE w = r
      BY <1>1, <1>2, <1>3, <1>9, <2>2
    <2>3. CASE q \in Queue /\ w \in Queue
      BY <1>5, <1>9, <1>4, <2>3
    <2> QED
      BY <1>1, <2>1, <2>2, <2>3
  <1>10. ASSUME NEW q \in Queue', NEW w \in Queue', w \in ahead'[q],
               class'[w] = "background"
        PROVE  class'[q] = "background"
    <2>1. CASE q = r
      BY <1>1, <1>2, <1>3, <1>10, <2>1
    <2>2. CASE w = r /\ q # r
      BY <1>1, <1>2, <1>3, <1>5, <1>10, <2>2
    <2>3. CASE w # r /\ q # r
      BY <1>1, <1>2, <1>3, <1>5, <1>10, <2>3
    <2> QED
      BY <2>1, <2>2, <2>3
  <1>11. ASSUME NEW q \in Queue', NEW w \in Queue', NEW v \in Queue',
                v \in ahead'[w], w \in ahead'[q]
         PROVE  v \in ahead'[q]
    <2>1. CASE q = r
      <3>1. w \in Queue /\ w # r
        BY <1>1, <1>3, <1>11, <2>1
      <3>2. CASE v = r
        <4>1. r \notin ahead[w]
          BY <1>1, <1>5, <3>1
        <4> QED
          BY <1>3, <1>11, <2>1, <3>1, <3>2, <4>1
      <3>3. CASE v # r
        <4>1. v \in Queue /\ v \in ahead[w]
          BY <1>1, <1>3, <1>11, <3>1, <3>3
        <4>2. class[v] = "background" => class[w] = "background"
          BY <1>5, <3>1, <4>1
        <4> QED
          BY <1>2, <1>3, <1>11, <2>1, <3>1, <4>1, <4>2
      <3> QED
        BY <3>2, <3>3
    <2>2. CASE w = r /\ q # r
      <3>1. q \in Queue /\ v \in Queue /\ v # r
        BY <1>1, <1>3, <1>11, <2>2
      <3>2. /\ class[q] = "background" /\ c = "interactive"
            /\ class[v] = "interactive"
        BY <1>1, <1>3, <1>5, <1>11, <2>2, <3>1
      <3>3. q \notin ahead[v]
        BY <1>5, <3>1, <3>2
      <3>4. v \in ahead[q]
        BY <1>5, <3>1, <3>2, <3>3
      <3> QED
        BY <1>4, <3>1, <3>4
    <2>3. CASE v = r /\ w # r /\ q # r
      <3>1. q \in Queue /\ w \in Queue
        BY <1>1, <2>3
      <3>2. class[w] = "background" /\ c = "interactive" /\ w \in ahead[q]
        BY <1>1, <1>3, <1>5, <1>11, <2>3, <3>1
      <3>3. class[q] = "background"
        BY <1>5, <3>1, <3>2
      <3> QED
        BY <1>3, <2>3, <3>1, <3>2, <3>3
    <2>4. CASE q # r /\ w # r /\ v # r
      <3>1. q \in Queue /\ w \in Queue /\ v \in Queue
        BY <1>1, <2>4
      <3>2. v \in ahead[w] /\ w \in ahead[q]
        BY <1>11, <1>4, <3>1
      <3>3. v \in ahead[q]
        BY <1>5, <3>1, <3>2
      <3> QED
        BY <1>4, <3>1, <3>3
    <2> QED
      BY <2>1, <2>2, <2>3, <2>4
  <1> QED
    BY <1>6, <1>7, <1>8, <1>9, <1>10, <1>11 DEF OneLine

\* One who leaves the queue, with or without a slot, is ahead of nobody any more.
LEMMA LeavingKeepsLine ==
    ASSUME Typed, OneLine, NEW w \in Queue, Queue' = Queue \ {w}, class' = class,
           \A q \in Requests \ {w} : ahead'[q] = ahead[q] \ {w}, ahead'[w] = {}
    PROVE  OneLine'
  BY DEF Typed, OneLine, Queue

\* A queue that is left alone stays in line.
LEMMA SameLine ==
    ASSUME OneLine, Queue' = Queue, ahead' = ahead, \A q \in Queue : class'[q] = class[q]
    PROVE  OneLine'
  BY DEF OneLine

\* Every step of the contract keeps its invariant.
LEMMA StepKeepsContract ==
    ASSUME IsFiniteSet(Requests), MaxActiveGenerations \in Nat, ContractInv, [Next]_vars
    PROVE  ContractInv'
  <1>1. Typed /\ SlotsOK /\ SlotsAreUsed /\ OneLine
    BY DEF ContractInv
  <1>2. ASSUME NEW r \in Requests, NEW c \in {"interactive", "background"}, Admit(r, c)
        PROVE  ContractInv'
    <2>1. Queue' = Queue /\ Queue = {}
      BY <1>1, <1>2 DEF Typed, Admit, Arrive, Queue
    <2>2. OneLine'
      BY <1>1, <1>2, <2>1, SameLine DEF Admit
    <2>3. Typed'
      BY <1>1, <1>2 DEF Typed, Admit, Arrive
    <2> QED
      BY <1>1, <1>2, <2>1, <2>2, <2>3, StepKeepsSlots DEF ContractInv, SlotsAreUsed, Next
  <1>3. ASSUME NEW r \in Requests, NEW c \in {"interactive", "background"}, Join(r, c)
        PROVE  ContractInv'
    <2>1. OneLine'
      BY <1>1, <1>3, JoinKeepsLine
    <2>2. Typed'
      <3>1. ahead' \in [Requests -> SUBSET Requests]
        BY <1>1, <1>3 DEF Typed, Join, Queue
      <3> QED
        BY <1>1, <1>3, <3>1 DEF Typed, Join, Arrive
    <2>3. SlotsAreUsed'
      BY <1>1, <1>3, SlotsAfter DEF Join, SlotsAreUsed
    <2> QED
      BY <1>1, <1>3, <2>1, <2>2, <2>3, StepKeepsSlots DEF ContractInv, Next
  <1>4. ASSUME NEW r \in Requests, NEW c \in {"interactive", "background"}, TurnAway(r, c)
        PROVE  ContractInv'
    <2>1. Queue' = Queue
      BY <1>1, <1>4 DEF Typed, TurnAway, Arrive, Queue
    <2>2. OneLine'
      <3>1. \A q \in Queue : class'[q] = class[q]
        BY <1>1, <1>4 DEF Typed, TurnAway, Arrive, Queue
      <3> QED
        BY <1>1, <1>4, <2>1, <3>1, SameLine DEF TurnAway
    <2>3. Typed'
      BY <1>1, <1>4 DEF Typed, TurnAway, Arrive
    <2>4. SlotsAreUsed'
      BY <1>1, <1>4, <2>1, SlotsAfter DEF SlotsAreUsed
    <2> QED
      BY <1>1, <1>4, <2>2, <2>3, <2>4, StepKeepsSlots DEF ContractInv, Next
  <1>5. ASSUME NEW r \in Requests, Leave(r)
        PROVE  ContractInv'
    <2>1. Queue' = Queue \ {r} /\ r \in Queue
      BY <1>1, <1>5 DEF Typed, Leave, Queue
    <2>2. OneLine'
      BY <1>1, <1>5, <2>1, LeavingKeepsLine DEF Leave
    <2>3. Typed'
      BY <1>1, <1>5 DEF Typed, Leave
    <2>4. SlotsAreUsed'
      BY <1>1, <1>5, <2>1, SlotsAfter DEF SlotsAreUsed
    <2> QED
      BY <1>1, <1>5, <2>2, <2>3, <2>4, StepKeepsSlots DEF ContractInv, Next
  <1>6. ASSUME NEW r \in Requests, Vacate(r)
        PROVE  ContractInv'
    <2>1. Queue' = Queue /\ Queue = {}
      BY <1>1, <1>6 DEF Typed, Vacate, Queue, Slots
    <2>2. OneLine'
      BY <1>1, <1>6, <2>1, SameLine DEF Vacate
    <2>3. Typed'
      BY <1>1, <1>6 DEF Typed, Vacate
    <2> QED
      BY <1>1, <1>6, <2>1, <2>2, <2>3, StepKeepsSlots DEF ContractInv, SlotsAreUsed, Next
  <1>7. ASSUME NEW r \in Requests, NEW w \in Requests, HandOver(r, w)
        PROVE  ContractInv'
    <2>1. Queue' = Queue \ {w} /\ w \in Queue
      BY <1>1, <1>7 DEF Typed, HandOver, Queue, Slots
    <2>2. OneLine'
      <3>1. /\ \A q \in Requests \ {w} : ahead'[q] = ahead[q] \ {w}
            /\ ahead'[w] = {} /\ class' = class
        BY <1>7 DEF HandOver
      <3> QED
        BY <1>1, <2>1, <3>1, LeavingKeepsLine
    <2>3. Typed'
      BY <1>1, <1>7 DEF Typed, HandOver
    <2>4. SlotsAreUsed'
      BY <1>1, <1>7, <2>1, SlotsAfter DEF SlotsAreUsed
    <2> QED
      BY <1>1, <1>7, <2>2, <2>3, <2>4, StepKeepsSlots DEF ContractInv, Next
  <1>8. ASSUME NEW r \in Requests, Withdraw(r)
        PROVE  ContractInv'
    <2>1. Queue' = Queue /\ OneLine' /\ Slots' = Slots
      BY <1>1, <1>8, SameLine DEF Withdraw, Queue, Slots
    <2> QED
      BY <1>1, <1>8, <2>1 DEF ContractInv, Withdraw, Typed, SlotsOK, SlotsAreUsed
  <1>9. CASE UNCHANGED vars
    <2>1. Queue' = Queue /\ OneLine' /\ Slots' = Slots
      BY <1>1, <1>9, SameLine DEF vars, Queue, Slots
    <2> QED
      BY <1>1, <1>9, <2>1 DEF ContractInv, vars, Typed, SlotsOK, SlotsAreUsed
  <1> QED
    BY <1>2, <1>3, <1>4, <1>5, <1>6, <1>7, <1>8, <1>9 DEF Next

\* "At most maxActiveGenerations", no idle slot while a request waits, and one line,
\* class by class: the contract comment of RequestScheduler, as one invariant.
THEOREM ContractHolds ==
    ASSUME IsFiniteSet(Requests), MaxActiveGenerations \in Nat
    PROVE  Spec => [](SlotsOK /\ SlotsAreUsed /\ OneLine)
  <1>1. Init => ContractInv
    BY InitContract
  <1>2. ContractInv /\ [Next]_vars => ContractInv'
    BY StepKeepsContract
  <1>3. ContractInv => SlotsOK /\ SlotsAreUsed /\ OneLine
    BY DEF ContractInv
  <1> QED
    BY <1>1, <1>2, <1>3, PTL DEF Spec

=============================================================================
