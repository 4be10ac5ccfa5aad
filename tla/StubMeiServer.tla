---------------------------- MODULE StubMeiServer ---------------------------
(***************************************************************************)
(* StubMeiServer (scripts/integration/peix_like.py): the in-process server *)
(* the integration client checks itself against.  One element of Requests  *)
(* is one connection, served by a thread of its own; one lock guards the   *)
(* slots and the queue.  An action is one section under that lock, one     *)
(* write to the socket, or one step of a client.                           *)
(*                                                                         *)
(* Abstracted: what the frames say, the delays between them (a stream may  *)
(* send any positive number of checked frames), the health and model       *)
(* routes, and the millisecond samples of the counters.                    *)
(***************************************************************************)
EXTENDS Integers, Sequences, FiniteSets, SequencesExt

CONSTANTS
    Requests,       \* connections to POST /v1/chat/completions
    MaxActive,      \* max_active
    MaxQueueDepth   \* max_queue_depth

ASSUME StubAssumption ==
    /\ IsFiniteSet(Requests)
    /\ MaxActive \in {1, 2}
    /\ MaxQueueDepth \in Nat \ {0}

Valid == {"interactive", "background"}
Priorities == Valid \cup {"urgent"}

VARIABLES
    accepting,      \* the accept loop still runs
    phase,          \* where the thread of a connection is
    priority,       \* mei_priority of its body
    streams,        \* "stream" of its body
    gone,           \* connections whose client has closed its end
    waiters,        \* _waiters
    admitted,       \* waiters in the order of admitted_at; its length is "admitted"
    active, peak,   \* _active, _peak
    counters,
    records,        \* _records: one per slot release
    answer          \* what a client that still listens has been sent

vars == <<accepting, phase, priority, streams, gone, waiters, admitted, active,
          peak, counters, records, answer>>

Serving == {"prefill", "sending", "finishing"}
Phases == {"outside", "received", "queued", "timedOut", "closed"} \cup Serving
CounterNames == {"completed", "cancelledActive", "rejectedQueueFull",
                 "rejectedTimeout", "slotReleases"}

TypeOK ==
    /\ accepting \in BOOLEAN
    /\ phase \in [Requests -> Phases]
    /\ priority \in [Requests -> Priorities]
    /\ streams \in [Requests -> BOOLEAN]
    /\ gone \subseteq Requests
    /\ waiters \in Seq(Requests)
    /\ admitted \in Seq(Requests)
    /\ active \in Nat
    /\ peak \in Nat
    /\ counters \in [CounterNames -> Nat]
    /\ records \in Seq(Requests \X {"cancelled", "finished"})
    /\ answer \in [Requests -> {"none", "partial", "complete", "400", "429", "503"}]

Init ==
    /\ accepting = TRUE
    /\ phase = [r \in Requests |-> "outside"]
    /\ priority = [r \in Requests |-> "interactive"]
    /\ streams = [r \in Requests |-> TRUE]
    /\ gone = {}
    /\ waiters = <<>>
    /\ admitted = <<>>
    /\ active = 0
    /\ peak = 0
    /\ counters = [c \in CounterNames |-> 0]
    /\ records = <<>>
    /\ answer = [r \in Requests |-> "none"]

-----------------------------------------------------------------------------
(* The slots                                                               *)

\* The elements of q that are in S, in the order of q: SelectSeq, as a function that can
\* be reasoned about.
Kept(q, S) ==
    LET kept[i \in 0 .. Len(q)] ==
            IF i = 0 THEN <<>>
            ELSE IF q[i] \in S THEN Append(kept[i - 1], q[i]) ELSE kept[i - 1]
    IN kept[Len(q)]

Among(q, p) == Kept(q, {w \in Requests : priority[w] = p})

ServiceOrder_Fifo(q) == q

\* _pump_locked takes interactive waiters before background ones, each class in
\* the order of the list.
ServiceOrder(q) == Among(q, "interactive") \o Among(q, "background")

\* _pump_locked: fill the free slots from the queue q, `held` slots being taken.
Pump(q, held) ==
    LET ranked == ServiceOrder(q)
        room == IF held < MaxActive THEN MaxActive - held ELSE 0
        granted == SubSeq(ranked, 1, IF room < Len(ranked) THEN room ELSE Len(ranked))
        now == held + Len(granted)
    IN /\ waiters' = Kept(q, Requests \ ToSet(granted))
       /\ admitted' = admitted \o granted
       /\ active' = now
       /\ peak' = IF granted # <<>> /\ now > peak THEN now ELSE peak

Bump(names) == [c \in CounterNames |-> IF c \in names THEN counters[c] + 1 ELSE counters[c]]

Release_NoPump(r, finish) ==
    /\ active' = active - 1
    /\ counters' = Bump({"slotReleases",
                         IF finish = "cancelled" THEN "cancelledActive" ELSE "completed"})
    /\ records' = Append(records, <<r, finish>>)
    /\ phase' = [phase EXCEPT ![r] = "closed"]
    /\ UNCHANGED <<waiters, admitted, peak>>

\* _release, under the lock; the thread ends with it.
Release(r, finish) ==
    /\ Pump(waiters, IF active > 0 THEN active - 1 ELSE 0)
    /\ counters' = Bump({"slotReleases",
                         IF finish = "cancelled" THEN "cancelledActive" ELSE "completed"})
    /\ records' = Append(records, <<r, finish>>)
    /\ phase' = [phase EXCEPT ![r] = "closed"]

Goto(r, p) == phase' = [phase EXCEPT ![r] = p]

\* A write reaches the client unless it has hung up; then it is lost or fails.
Send(r, what) == answer' = [answer EXCEPT ![r] = IF r \in gone THEN @ ELSE what]

Request == <<accepting, priority, streams>>
Slots == <<waiters, admitted, active, peak, counters, records>>

-----------------------------------------------------------------------------
(* A connection, up to its slot                                            *)

\* The accept loop starts a thread, which reads the head and the body.
Connect(r, p, s) ==
    /\ accepting
    /\ phase[r] = "outside"
    /\ Goto(r, "received")
    /\ priority' = [priority EXCEPT ![r] = p]
    /\ streams' = [streams EXCEPT ![r] = s]
    /\ UNCHANGED <<accepting, gone, Slots, answer>>

RefuseInvalid(r) ==
    /\ phase[r] = "received"
    /\ priority[r] \notin Valid
    /\ Goto(r, "closed")
    /\ Send(r, "400")
    /\ UNCHANGED <<Request, gone, Slots>>

QueueFull_OffByOne == Len(waiters) > MaxQueueDepth

QueueFull == Len(waiters) >= MaxQueueDepth

\* Counted under the lock; the refusal is written after it and ends the thread.
RefuseFull(r) ==
    /\ phase[r] = "received"
    /\ priority[r] \in Valid
    /\ QueueFull
    /\ counters' = Bump({"rejectedQueueFull"})
    /\ Goto(r, "closed")
    /\ Send(r, "429")
    /\ UNCHANGED <<Request, gone, waiters, admitted, active, peak, records>>

\* Append and pump in one section: an arrival that finds a free slot gets it.
Enqueue(r) ==
    /\ phase[r] = "received"
    /\ priority[r] \in Valid
    /\ ~QueueFull
    /\ Pump(Append(waiters, r), active)
    /\ Goto(r, "queued")
    /\ UNCHANGED <<Request, gone, counters, records, answer>>

Wake(r) ==
    /\ phase[r] = "queued"
    /\ r \in ToSet(admitted)
    /\ Goto(r, "prefill")
    /\ UNCHANGED <<Request, gone, Slots, answer>>

\* event.wait(timeout=60.0) returns False ...
WaitElapses(r) ==
    /\ phase[r] = "queued"
    /\ r \notin ToSet(admitted)
    /\ Goto(r, "timedOut")
    /\ UNCHANGED <<Request, gone, Slots, answer>>

RejectTimeout_IfStillQueued(r) ==
    /\ phase[r] = "timedOut"
    /\ r \in ToSet(waiters)
    /\ waiters' = Kept(waiters, Requests \ {r})
    /\ counters' = Bump({"rejectedTimeout"})
    /\ Goto(r, "closed")
    /\ Send(r, "503")
    /\ UNCHANGED <<Request, gone, admitted, active, peak, records>>

\* ... and the lock is taken afterwards: a waiter that was admitted in between is
\* refused all the same, and its slot is never released.
RejectTimeout(r) ==
    /\ phase[r] = "timedOut"
    /\ waiters' = Kept(waiters, Requests \ {r})
    /\ counters' = Bump({"rejectedTimeout"})
    /\ Goto(r, "closed")
    /\ Send(r, "503")
    /\ UNCHANGED <<Request, gone, admitted, active, peak, records>>

-----------------------------------------------------------------------------
(* A connection that holds a slot                                          *)

\* The head and the first frame, after _peer_closed saw nothing; the frames and
\* padding frames that follow change nothing here.
SendFrame(r) ==
    /\ phase[r] = "prefill"
    /\ streams[r]
    /\ r \notin gone
    /\ Goto(r, "sending")
    /\ Send(r, "partial")
    /\ UNCHANGED <<Request, gone, Slots>>

\* Finish reason, usage, [DONE] and the last chunk are sent unchecked.
SendTrailer(r) ==
    /\ phase[r] = "sending"
    /\ Goto(r, "finishing")
    /\ Send(r, "complete")
    /\ UNCHANGED <<Request, gone, Slots>>

\* _serve_buffered.
SendBuffered(r) ==
    /\ phase[r] = "prefill"
    /\ ~streams[r]
    /\ Goto(r, "finishing")
    /\ Send(r, "complete")
    /\ UNCHANGED <<Request, gone, Slots>>

Finish(r) ==
    /\ phase[r] = "finishing"
    /\ Release(r, "finished")
    /\ UNCHANGED <<Request, gone, answer>>

\* _peer_closed, or a write that raises OSError, ends a generation whose client
\* has hung up.
NoticeHangup(r) ==
    /\ phase[r] \in {"prefill", "sending"}
    /\ r \in gone
    /\ Release(r, "cancelled")
    /\ UNCHANGED <<Request, gone, answer>>

-----------------------------------------------------------------------------
(* The environment                                                         *)

HangUp(r) ==
    /\ r \notin gone
    /\ phase[r] \notin {"outside", "closed"}
    /\ gone' = gone \cup {r}
    /\ UNCHANGED <<Request, phase, Slots, answer>>

Stop ==
    /\ accepting
    /\ accepting' = FALSE
    /\ UNCHANGED <<phase, priority, streams, gone, Slots, answer>>

Thread(r) ==
    \/ RefuseInvalid(r)
    \/ RefuseFull(r)
    \/ Enqueue(r)
    \/ Wake(r)
    \/ WaitElapses(r)
    \/ RejectTimeout(r)
    \/ SendFrame(r)
    \/ SendTrailer(r)
    \/ SendBuffered(r)
    \/ Finish(r)
    \/ NoticeHangup(r)

Next ==
    \/ \E r \in Requests :
           \/ \E p \in Priorities, s \in BOOLEAN : Connect(r, p, s)
           \/ Thread(r)
           \/ HangUp(r)
    \/ Stop

Spec == Init /\ [][Next]_vars

-----------------------------------------------------------------------------
(* What the stub promises                                                  *)

\* A slot is held from the admission to the release.
HeldBy == ToSet(admitted) \ {records[i][1] : i \in DOMAIN records}

StatusOf(r) ==
    IF r \in ToSet(waiters) THEN "queued"
    ELSE IF r \in HeldBy THEN "holding"
    ELSE IF phase[r] \in {"outside", "received"} \/ priority[r] \notin Valid THEN "outside"
    ELSE "gone"

\* The queued requests _pump_locked would take before r.
AheadOf(r) ==
    LET ranked == ServiceOrder(waiters)
    IN IF r \notin ToSet(waiters) THEN {}
       ELSE LET place == CHOOSE i \in DOMAIN ranked : ranked[i] = r
            IN {ranked[i] : i \in 1 .. place - 1}

Contract == INSTANCE AdmissionContract WITH
    Requests <- Requests,
    MaxActiveGenerations <- MaxActive,
    MaxQueueDepth <- MaxQueueDepth,
    BoundedWait <- TRUE,
    status <- [r \in Requests |-> StatusOf(r)],
    class <- [r \in Requests |-> IF StatusOf(r) = "outside" THEN "interactive"
                                 ELSE priority[r]],
    ahead <- [r \in Requests |-> AheadOf(r)],
    withdrawn <- {}

\* "Emulates the scheduling surface": the stub admits as the real scheduler does,
\* by the same contract (bounded slots, interactive first, FIFO, hand-over of a
\* released slot in one step), through timeouts, hang-ups and refusals.
StubImplementsContract == Contract!Spec
=============================================================================
