-------------------------- MODULE AdmissionContract -------------------------
(***************************************************************************)
(* What the contract comment of RequestScheduler (Scheduling.swift) and    *)
(* docs/INFERENCE-SCHEDULING.md promise a client of the inference slots,   *)
(* without timers, detached tasks, ids or counters: a request is outside,  *)
(* in the queue, holding a slot or gone.  The queue is described by who is *)
(* ahead of whom, and a slot that becomes free goes, in the same step, to  *)
(* the one queued request that has nobody ahead of it.                     *)
(***************************************************************************)
EXTENDS Integers, FiniteSets

CONSTANTS Requests, MaxActiveGenerations, MaxQueueDepth, BoundedWait

VARIABLES
    status,     \* "outside", "queued", "holding" or "gone"
    class,      \* the priority a request came with
    ahead,      \* for a queued request, the queued requests served before it
    withdrawn   \* requests whose client gave up

vars == <<status, class, ahead, withdrawn>>

Queue == {r \in Requests : status[r] = "queued"}
Slots == {r \in Requests : status[r] = "holding"}

Init ==
    /\ status = [r \in Requests |-> "outside"]
    /\ class = [r \in Requests |-> "interactive"]
    /\ ahead = [r \in Requests |-> {}]
    /\ withdrawn = {}

Arrive(r, c, s) ==
    /\ status[r] = "outside"
    /\ status' = [status EXCEPT ![r] = s]
    /\ class' = [class EXCEPT ![r] = c]
    /\ UNCHANGED withdrawn

\* A free slot is given at once, and only while nobody waits for it.
Admit(r, c) ==
    /\ Arrive(r, c, "holding")
    /\ Queue = {}
    /\ Cardinality(Slots) < MaxActiveGenerations
    /\ UNCHANGED ahead

\* With every slot taken a request joins the bounded queue behind its own class,
\* and an interactive one in front of the background class.
Join(r, c) ==
    /\ Arrive(r, c, "queued")
    /\ Cardinality(Slots) = MaxActiveGenerations
    /\ Cardinality(Queue) < MaxQueueDepth
    /\ ahead' = [q \in Requests |->
            IF q = r
              THEN {w \in Queue : class[w] = "interactive" \/ c = "background"}
            ELSE IF q \in Queue /\ class[q] = "background" /\ c = "interactive"
              THEN ahead[q] \cup {r}
            ELSE ahead[q]]

\* Nobody is turned away but for a full queue or because the client gave up.
TurnAway(r, c) ==
    /\ Arrive(r, c, "gone")
    /\ \/ r \in withdrawn
       \/ /\ Cardinality(Slots) = MaxActiveGenerations
          /\ Cardinality(Queue) = MaxQueueDepth
    /\ UNCHANGED ahead

\* A queued request leaves without a slot: withdrawn, or its wait budget is spent.
Leave(r) ==
    /\ r \in Queue
    /\ r \in withdrawn \/ BoundedWait
    /\ status' = [status EXCEPT ![r] = "gone"]
    /\ ahead' = [q \in Requests |-> IF q = r THEN {} ELSE ahead[q] \ {r}]
    /\ UNCHANGED <<class, withdrawn>>

\* A slot comes back with an empty queue ...
Vacate(r) ==
    /\ r \in Slots
    /\ Queue = {}
    /\ status' = [status EXCEPT ![r] = "gone"]
    /\ UNCHANGED <<class, ahead, withdrawn>>

\* ... or is handed to the first in line, in one step.
HandOver(r, w) ==
    /\ r \in Slots
    /\ w \in Queue
    /\ ahead[w] = {}
    /\ status' = [status EXCEPT ![r] = "gone", ![w] = "holding"]
    /\ ahead' = [q \in Requests |-> ahead[q] \ {w}]
    /\ UNCHANGED <<class, withdrawn>>

Withdraw(r) ==
    /\ r \notin withdrawn
    /\ status[r] # "gone"
    /\ withdrawn' = withdrawn \cup {r}
    /\ UNCHANGED <<status, class, ahead>>

Next ==
    \E r \in Requests :
        \/ \E c \in {"interactive", "background"} :
               Admit(r, c) \/ Join(r, c) \/ TurnAway(r, c)
        \/ Leave(r)
        \/ Vacate(r)
        \/ \E w \in Requests : HandOver(r, w)
        \/ Withdraw(r)

Spec == Init /\ [][Next]_vars

=============================================================================
