-------------------------- MODULE BufferedRun_proofs ------------------------
(***************************************************************************)
(* Theorems about BufferedRun for every finite set of requests, every set  *)
(* of connections and every way the requests may come by them, every       *)
(* number of slots and every queue bound.                                  *)
(***************************************************************************)
EXTENDS BufferedRun, FiniteSetTheorems, SequenceTheorems, TLAPS

-----------------------------------------------------------------------------
(* The inductive invariant                                                 *)

\* The part of admission that the invariants read.
AdmissionOK ==
    /\ status \in [Requests -> {"outside", "queued", "holding", "gone"}]
    /\ withdrawn \subseteq Requests
    /\ Cardinality({r \in Requests : status[r] = "holding"}) <= MaxActiveGenerations

Working == {"prepare", "prefill", "streaming", "draining", "concluding", "unwinding"}
Answering == {"head", "end", "close", "done"}

\* Where a task is tells its place in the queue and what vmlx may be doing: a run is
\* concluded, and its slot given back, after vmlx is done.
Placed(r) ==
    /\ pc[r] \in {"unsent", "respond", "submit"} => status[r] = "outside"
    /\ pc[r] = "submitted" => status[r] \in {"queued", "holding"}
    /\ pc[r] \in Working => status[r] = "holding"
    /\ pc[r] \in {"unsent", "respond", "submit", "submitted", "prepare"} => gpu[r] = "idle"
    /\ gpu[r] = "prefill" <=> pc[r] = "prefill"
    /\ gpu[r] \in {"decode", "drain"} => pc[r] \in {"streaming", "draining"}
    /\ pc[r] = "concluding" => gpu[r] = "done"
    /\ gpu[r] \in {"idle", "prefill", "decode"} => ~truncated[r] /\ ~rejected[r]

\* Only the end of its connection cancels a task; whatever looks like a cancellation
\* later comes from there, so nobody is left to read of it.
CancelledWithItsConnection(r) ==
    /\ isCancelled(r) => channel[carrier[r]] # "active"
    /\ truncated[r] => isCancelled(r)
    /\ error[r] = "cancellation" => isCancelled(r)
    /\ outcome[r] = "cancelledActive" => isCancelled(r)

\* A run is recorded once, at its end, and its error, accounting and status agree.
Recorded(r) ==
    /\ pc[r] \notin Answering \cup {"unwinding"} => log[r] = <<>> /\ error[r] = "none"
    /\ pc[r] \notin Answering => outcome[r] = "none" /\ reply[r] = "none"
    /\ pc[r] = "unwinding" /\ error[r] = "none" => log[r] = <<"finished">>
    /\ log[r] = <<"finished">> =>
          error[r] = "none" /\ gpu[r] = "done" /\ ~truncated[r] /\ ~rejected[r]
    /\ error[r] \in {"queueFull", "queueWaitTimeout"} => pc[r] \in Answering
    /\ pc[r] \in {"head", "end", "close"} => reply[r] # "none"
    /\ outcome[r] = "completed" => log[r] = <<"finished">>
    /\ reply[r] = "200" =>
          log[r] = <<"finished">> /\ outcome[r] \in {"completed", "cancelledActive"}
    /\ reply[r] \in {"429", "503"} => outcome[r] = "notRun" /\ log[r] = <<>>

RunInv(r) ==
    /\ Placed(r)
    /\ CancelledWithItsConnection(r)
    /\ Recorded(r)

\* What a connection has of a request was written by its task at the end of a run that
\* was not cancelled.
Sender(c, r) ==
    \A i \in DOMAIN wire[c] : wire[c][i].from = {r} =>
        /\ carrier[r] = c
        /\ pc[r] \in {"end", "close", "done"}
        /\ wire[c][i].part \in {reply[r], "end"}
        /\ error[r] # "cancellation"
        /\ reply[r] = "200" => outcome[r] = "completed"

\* The tasks of a connection are the ones of the requests it has delivered.
Delivered(c) ==
    /\ pendingTask[c] \subseteq {r \in Requests : carrier[r] = c}
    /\ \A r \in Requests : carrier[r] = c /\ pc[r] # "unsent"
          => \E i \in DOMAIN received[c] : received[c][i] = r

\* The response of a request that is alone on its connection, as far as it is written.
Sole(c, r) ==
    received[c] = <<r>> /\ Undisturbed(c) =>
        /\ carrier[r] = c
        /\ channel[c] = IF pc[r] = "done" THEN "closed" ELSE "active"
        /\ pc[r] = "end" => wire[c] = <<Part({r}, reply[r])>>
        /\ pc[r] \in {"close", "done"} => wire[c] = <<Part({r}, reply[r]), Part({r}, "end")>>
        /\ pc[r] \notin {"end", "close", "done"} => wire[c] = <<>>

ConnectionInv(c) ==
    /\ Delivered(c)
    /\ received[c] = <<>> /\ Undisturbed(c) => channel[c] = "active" /\ wire[c] = <<>>
    /\ \A r \in Requests : Sender(c, r) /\ Sole(c, r)

IInv ==
    /\ TypeOK
    /\ AdmissionOK
    /\ \A r \in Requests : RunInv(r)
    /\ \A c \in Connections : ConnectionInv(c)

-----------------------------------------------------------------------------
(* Admission                                                               *)

Contract == INSTANCE AdmissionContract_proofs

\* The contract as its theorems state it is the one the requests use.
LEMMA SameContract ==
    /\ Contract!IsFiniteSet(Requests)
    /\ AdmissionOK <=> Contract!SlotsOK
    /\ Admission!Next <=> Contract!Next
    /\ \A r, c : (Admission!Admit(r, c) <=> Contract!Admit(r, c))
    /\ \A r, c : (Admission!Join(r, c) <=> Contract!Join(r, c))
    /\ \A r, c : (Admission!TurnAway(r, c) <=> Contract!TurnAway(r, c))
    /\ \A r : (Admission!Leave(r) <=> Contract!Leave(r))
    /\ \A r : (Admission!Vacate(r) <=> Contract!Vacate(r))
    /\ \A r : (Admission!Withdraw(r) <=> Contract!Withdraw(r))
    /\ \A r, w : (Admission!HandOver(r, w) <=> Contract!HandOver(r, w))
  <1>1. Contract!IsFiniteSet(Requests)
    BY RequestsAssumption DEF IsFiniteSet, Contract!IsFiniteSet
  <1>2. \A S : Contract!Cardinality(S) = Cardinality(S)
    BY DEF Cardinality, Contract!Cardinality
  <1>3. \A S : Admission!Cardinality(S) = Cardinality(S)
    BY DEF Cardinality, Admission!Cardinality
  <1>4. Admission!Slots = Contract!Slots /\ Admission!Queue = Contract!Queue
    BY DEF Admission!Slots, Contract!Slots, Admission!Queue, Contract!Queue
  <1>5. AdmissionOK <=> Contract!SlotsOK
    BY <1>2 DEF AdmissionOK, Contract!SlotsOK, Contract!Slots
  <1>6. \A r, c : (Admission!Admit(r, c) <=> Contract!Admit(r, c))
    BY <1>2, <1>3, <1>4
       DEF Admission!Admit, Contract!Admit, Admission!Arrive, Contract!Arrive
  <1>7. \A r, c : (Admission!Join(r, c) <=> Contract!Join(r, c))
    BY <1>2, <1>3, <1>4
       DEF Admission!Join, Contract!Join, Admission!Arrive, Contract!Arrive
  <1>8. \A r, c : (Admission!TurnAway(r, c) <=> Contract!TurnAway(r, c))
    BY <1>2, <1>3, <1>4
       DEF Admission!TurnAway, Contract!TurnAway, Admission!Arrive, Contract!Arrive
  <1>9. \A r : (Admission!Leave(r) <=> Contract!Leave(r))
    BY <1>4 DEF Admission!Leave, Contract!Leave
  <1>10. \A r : (Admission!Vacate(r) <=> Contract!Vacate(r))
    BY <1>4 DEF Admission!Vacate, Contract!Vacate
  <1>11. \A r : (Admission!Withdraw(r) <=> Contract!Withdraw(r))
    BY DEF Admission!Withdraw, Contract!Withdraw
  <1>12. \A r, w : (Admission!HandOver(r, w) <=> Contract!HandOver(r, w))
    BY <1>4 DEF Admission!HandOver, Contract!HandOver
  <1>13. Admission!Next <=> Contract!Next
    BY <1>6, <1>7, <1>8, <1>9, <1>10, <1>11, <1>12 DEF Admission!Next, Contract!Next
  <1> QED
    BY <1>1, <1>5, <1>6, <1>7, <1>8, <1>9, <1>10, <1>11, <1>12, <1>13

\* A step of the contract keeps the slots within their number.
LEMMA ContractKeepsSlots ==
    ASSUME AdmissionOK, Admission!Next
    PROVE  AdmissionOK'
  <1>1. Contract!SlotsOK /\ Contract!Next
    BY SameContract
  <1>2. Contract!SlotsOK'
    BY <1>1, SameContract, SlotAssumption, Contract!StepKeepsSlots
  <1>3. \A S : Contract!Cardinality(S) = Cardinality(S)
    BY DEF Cardinality, Contract!Cardinality
  <1> QED
    BY <1>2, <1>3 DEF AdmissionOK, Contract!SlotsOK, Contract!Slots

\* The end of a connection withdraws at most the task it remembers.
LEMMA DeactivateIsAdmission ==
    ASSUME NEW c \in Connections, NEW how, pendingTask[c] \subseteq Requests, Deactivate(c, how)
    PROVE  Admission!Next \/ UNCHANGED admission
  BY DEF Deactivate, Admission!Next

\* Every step of a buffered run is, for admission, a step of the contract or none.
LEMMA StepIsAdmission == TypeOK /\ [Next]_vars => [Admission!Next]_admission
  <1> SUFFICES ASSUME TypeOK, [Next]_vars
               PROVE  Admission!Next \/ UNCHANGED admission
    OBVIOUS
  <1>1. ASSUME NEW r \in Requests, Submit(r) \/ SubmitRefused(r)
        PROVE  Admission!Next
    BY <1>1, PrioritiesAssumption DEF Submit, SubmitRefused, Admission!Next
  <1>2. ASSUME NEW r \in Requests, LeaveQueue(r) \/ CancelBeforeStart(r) \/ Release(r)
        PROVE  Admission!Next
    BY <1>2 DEF LeaveQueue, CancelBeforeStart, Release, GiveSlotBack, Admission!Next
  <1>3. \A c \in Connections : pendingTask[c] \subseteq Requests
    BY DEF TypeOK
  <1>4. ASSUME NEW c \in Connections, ClientLeaves(c) \/ ErrorCaught(c)
        PROVE  Admission!Next \/ UNCHANGED admission
    BY <1>3, <1>4, DeactivateIsAdmission DEF ClientLeaves, ErrorCaught
  <1>5. ASSUME NEW r \in Requests, Close(r)
        PROVE  Admission!Next \/ UNCHANGED admission
    <2>1. carrier[r] \in Connections
      BY CarriersAssumption DEF TypeOK
    <2> QED
      BY <1>3, <1>5, <2>1, DeactivateIsAdmission DEF Close, admission
  <1>6. ASSUME NEW r \in Requests,
               \/ Receive(r) \/ HandlerIsGone(r) \/ RespondPlainly(r) \/ Respond(r)
               \/ Start(r) \/ Prepare(r) \/ Prefill(r) \/ LoopEnds(r) \/ AwaitTask(r)
               \/ Conclude(r) \/ Write(r) \/ StopDecode(r, TRUE) \/ StopDecode(r, FALSE)
               \/ Drain(r)
        PROVE  UNCHANGED admission
    BY <1>6 DEF Receive, HandlerIsGone, RespondPlainly, Respond, Start, Prepare, Prefill,
                LoopEnds, AwaitTask, Conclude, Write, StopDecode, Drain
  <1>7. CASE UNCHANGED vars
    BY <1>7 DEF vars
  <1> QED
    BY <1>1, <1>2, <1>4, <1>5, <1>6, <1>7 DEF Next, Task, OnEngine, Quiescent

\* What admission does to a request that is not the one that acts: a waiter may be
\* handed a slot, and that is all.
LEMMA AdmissionOfOthers ==
    ASSUME AdmissionOK, NEW r \in Requests, NEW q \in Requests, q # r,
           \/ \E c : Admission!Admit(r, c) \/ Admission!Join(r, c) \/ Admission!TurnAway(r, c)
           \/ Admission!Leave(r) \/ GiveSlotBack(r) \/ Admission!Withdraw(r)
    PROVE  /\ status'[q] = status[q] \/ (status[q] = "queued" /\ status'[q] = "holding")
           /\ q \in withdrawn' <=> q \in withdrawn
  <1>1. /\ Contract!SlotsOK
        /\ \/ \E c : Contract!Admit(r, c) \/ Contract!Join(r, c) \/ Contract!TurnAway(r, c)
           \/ Contract!Leave(r) \/ Contract!Vacate(r) \/ Contract!Withdraw(r)
           \/ \E w \in Requests : Contract!HandOver(r, w)
    BY SameContract DEF GiveSlotBack
  <1> QED
    BY <1>1, Contract!StepOfOthers

\* What it does to the one that acts.
LEMMA AdmissionOfSelf ==
    ASSUME AdmissionOK, NEW r \in Requests
    PROVE  /\ \A c : Admission!Admit(r, c) =>
                 status[r] = "outside" /\ status'[r] = "holding" /\ withdrawn' = withdrawn
           /\ \A c : Admission!Join(r, c) =>
                 status[r] = "outside" /\ status'[r] = "queued" /\ withdrawn' = withdrawn
           /\ \A c : Admission!TurnAway(r, c) =>
                 status[r] = "outside" /\ status'[r] = "gone" /\ withdrawn' = withdrawn
           /\ Admission!Leave(r) =>
                 status[r] = "queued" /\ status'[r] = "gone" /\ withdrawn' = withdrawn
           /\ GiveSlotBack(r) =>
                 status[r] = "holding" /\ status'[r] = "gone" /\ withdrawn' = withdrawn
           /\ Admission!Withdraw(r) => status' = status /\ withdrawn' = withdrawn \cup {r}
  <1>1. Contract!SlotsOK
    BY SameContract
  <1> QED
    BY <1>1, SameContract, Contract!StepOfSelf DEF GiveSlotBack

-----------------------------------------------------------------------------
(* Typing                                                                  *)

\* The model starts in a typed state.
LEMMA InitType == Init => TypeOK
  <1> SUFFICES ASSUME Init PROVE TypeOK
    OBVIOUS
  <1>1. \A c \in Connections : Cardinality(pendingTask[c]) <= 1
    BY FS_EmptySet DEF Init
  <1>2. /\ received \in [Connections -> Seq(Requests)]
        /\ wire \in [Connections -> Seq(Parts)]
        /\ log \in [Requests -> LogLines]
    BY DEF Init, LogLines
  <1> QED
    BY <1>1, <1>2 DEF Init, TypeOK, PCs, Errors

\* The end of a connection forgets its task.
LEMMA DeactivateType ==
    ASSUME TypeOK, NEW c \in Connections, NEW how \in {"left", "closed"}, Deactivate(c, how)
    PROVE  /\ channel' \in [Connections -> {"active", "left", "closed"}]
           /\ pendingTask' \in [Connections -> SUBSET Requests]
           /\ \A d \in Connections : Cardinality(pendingTask'[d]) <= 1
  <1>1. channel' \in [Connections -> {"active", "left", "closed"}]
    BY DEF TypeOK, Deactivate
  <1>2. pendingTask' \in [Connections -> SUBSET Requests]
    BY DEF TypeOK, Deactivate
  <1>3. \A d \in Connections : Cardinality(pendingTask'[d]) <= 1
    BY FS_EmptySet DEF TypeOK, Deactivate
  <1> QED
    BY <1>1, <1>2, <1>3

\* What a connection is sent are parts.
LEMMA PartType ==
    ASSUME NEW r \in Requests
    PROVE  /\ \A s \in Statuses \cup {"end"} : Part({r}, s) \in Parts
           /\ Part({}, "500") \in Parts /\ Part({}, "end") \in Parts
  BY DEF Part, Parts, Statuses

\* Finish answers with the status of what was thrown, or 200.
LEMMA FinishType ==
    ASSUME TypeOK, NEW r \in Requests, NEW e \in Errors, NEW how, Finish(r, e, how),
           how \in {"completed", "failed", "cancelledActive", "notRun"}
    PROVE  TypeOK'
  <1>1. (IF e = "none" THEN "200" ELSE ErrorPlain(e)) \in Statuses
    BY DEF Errors, Statuses, ErrorPlain
  <1>2. reply' \in [Requests -> Statuses \cup {"none"}]
    BY <1>1 DEF TypeOK, Finish
  <1>3. pc' \in [Requests -> PCs] /\ error' \in [Requests -> Errors]
    BY DEF TypeOK, Finish, Throw, Goto, PCs
  <1> QED
    BY <1>2, <1>3 DEF TypeOK, Finish, connection, vmlx

\* Every action keeps the type of every variable.
LEMMA NextType == IInv /\ [Next]_vars => TypeOK'
  <1> SUFFICES ASSUME IInv, [Next]_vars PROVE TypeOK'
    OBVIOUS
  <1>0. TypeOK
    BY DEF IInv
  <1>r. \A r \in Requests : carrier[r] \in Connections
    BY <1>0, CarriersAssumption DEF TypeOK
  <1>p. pc \in [Requests -> PCs]
    BY <1>0 DEF TypeOK
  <1>1. ASSUME NEW r \in Requests, Receive(r)
        PROVE  TypeOK'
    <2>1. carrier[r] \in Connections
      BY <1>r
    <2>2. received' \in [Connections -> Seq(Requests)]
      BY <1>0, <1>1, <2>1, AppendProperties DEF TypeOK, Receive
    <2>3. pendingTask' \in [Connections -> SUBSET Requests]
      BY <1>0, <1>1, <2>1 DEF TypeOK, Receive, Remember
    <2>4. \A c \in Connections : Cardinality(pendingTask'[c]) <= 1
      <3>1. Cardinality({r}) = 1
        BY FS_Singleton
      <3>2. pendingTask' = [pendingTask EXCEPT ![carrier[r]] = {r}]
        BY <1>1 DEF Receive, Remember
      <3> QED
        BY <1>0, <3>1, <3>2 DEF TypeOK
    <2>5. pc' \in [Requests -> PCs]
      BY <1>p, <1>1 DEF Receive, Goto, PCs
    <2> QED
      BY <1>0, <1>1, <2>2, <2>3, <2>4, <2>5 DEF TypeOK, Receive, vmlx, books
  <1>2. ASSUME NEW r \in Requests, HandlerIsGone(r) \/ RespondPlainly(r) \/ Respond(r)
        PROVE  TypeOK'
    <2>1. pc' \in [Requests -> PCs]
      BY <1>p, <1>2 DEF HandlerIsGone, RespondPlainly, Respond, Goto, PCs
    <2>2. reply' \in [Requests -> Statuses \cup {"none"}]
      BY <1>0, <1>2 DEF TypeOK, HandlerIsGone, RespondPlainly, Respond, Statuses
    <2>3. route' \in [Requests -> {"none", "chat", "completion", "plain"}]
      BY <1>0, <1>2 DEF TypeOK, HandlerIsGone, RespondPlainly, Respond
    <2>4. UNCHANGED <<connection, error, vmlx, books>>
      BY <1>2 DEF HandlerIsGone, RespondPlainly, Respond
    <2> QED
      BY <1>0, <2>1, <2>2, <2>3, <2>4 DEF TypeOK, connection, vmlx, books
  <1>3. ASSUME NEW r \in Requests, Submit(r) \/ Start(r) \/ LoopEnds(r) \/ AwaitTask(r)
        PROVE  TypeOK'
    <2>1. pc' \in [Requests -> PCs]
      BY <1>p, <1>3 DEF Submit, Start, LoopEnds, AwaitTask, Goto, PCs
    <2>2. UNCHANGED <<connection, route, error, reply, vmlx, books>>
      BY <1>3 DEF Submit, Start, LoopEnds, AwaitTask
    <2> QED
      BY <1>0, <2>1, <2>2 DEF TypeOK, connection, vmlx, books
  <1>4. ASSUME NEW r \in Requests,
               SubmitRefused(r) \/ LeaveQueue(r) \/ CancelBeforeStart(r) \/ Release(r)
        PROVE  TypeOK'
    <2>1. PICK e \in Errors, how \in {"completed", "failed", "cancelledActive", "notRun"} :
             Finish(r, e, how)
      <3>1. error[r] \in Errors
        BY <1>0 DEF TypeOK
      <3> QED
        BY <1>4, <3>1 DEF SubmitRefused, LeaveQueue, CancelBeforeStart, Release, Errors
    <2> QED
      BY <1>0, <2>1, FinishType
  <1>5. ASSUME NEW r \in Requests, Prepare(r) \/ Prefill(r)
        PROVE  TypeOK'
    <2>1. /\ \E label \in {"unwinding", "prefill", "streaming"} :
                pc' = [pc EXCEPT ![r] = label]
          /\ \/ error' = error
             \/ \E e \in {"cancellation", "engine", "other"} : error' = [error EXCEPT ![r] = e]
          /\ \/ gpu' = gpu
             \/ \E g \in {"idle", "prefill", "decode"} : gpu' = [gpu EXCEPT ![r] = g]
      BY <1>5 DEF Prepare, Prefill, PrepareErrors, Throw, Goto
    <2>2. pc' \in [Requests -> PCs]
      BY <1>0, <2>1 DEF TypeOK, PCs
    <2>3. error' \in [Requests -> Errors]
      BY <1>0, <2>1 DEF TypeOK, Errors
    <2>4. gpu' \in [Requests -> {"idle", "prefill", "decode", "drain", "done"}]
      BY <1>0, <2>1 DEF TypeOK
    <2>5. UNCHANGED <<connection, route, reply, truncated, rejected, books>>
      BY <1>5 DEF Prepare, Prefill
    <2> QED
      BY <1>0, <2>2, <2>3, <2>4, <2>5 DEF TypeOK, connection, books
  <1>6. ASSUME NEW r \in Requests, Conclude(r)
        PROVE  TypeOK'
    <2>1. log[r] = <<>>
      BY <1>6 DEF IInv, RunInv, Recorded, Answering, Conclude
    <2>2. /\ Append(log[r], "cancelled") = <<"cancelled">>
          /\ Append(log[r], "finished") = <<"finished">>
      BY <2>1
    <2>3. log' \in [Requests -> LogLines]
      BY <1>0, <1>6, <2>2 DEF TypeOK, Conclude, LogLines
    <2>4. pc' \in [Requests -> PCs]
      BY <1>p, <1>6 DEF Conclude, Throw, Goto, PCs
    <2>5. error' \in [Requests -> Errors]
      BY <1>0, <1>6 DEF TypeOK, Conclude, Throw, Goto, Errors
    <2>6. UNCHANGED <<connection, route, reply, vmlx, outcome>>
      BY <1>6 DEF Conclude
    <2> QED
      BY <1>0, <2>3, <2>4, <2>5, <2>6 DEF TypeOK, connection, vmlx
  <1>7. ASSUME NEW r \in Requests, Write(r)
        PROVE  TypeOK'
    <2>1. pc[r] \in {"head", "end"}
      BY <1>7 DEF Write, NextPart
    <2>2. pc' \in [Requests -> PCs]
      BY <1>p, <1>7, <2>1 DEF Write, Goto, NextPart, PCs
    <2>3. reply[r] \in Statuses \/ pc[r] = "end"
      BY <1>0, <2>1 DEF TypeOK, IInv, RunInv, Recorded
    <2>4. PICK p \in Parts : wire' \in {wire, [wire EXCEPT ![carrier[r]] = Append(@, p)]}
      BY <1>7, <2>1, <2>3, PartType DEF Write
    <2>5. wire' \in [Connections -> Seq(Parts)]
      <3>1. wire \in [Connections -> Seq(Parts)] /\ carrier[r] \in Connections
        BY <1>0, <1>r DEF TypeOK
      <3>2. Append(wire[carrier[r]], p) \in Seq(Parts)
        BY <3>1, AppendProperties
      <3> QED
        BY <2>4, <3>1, <3>2
    <2> QED
      BY <1>0, <1>7, <2>2, <2>5 DEF TypeOK, Write, vmlx, books
  <1>8. ASSUME NEW r \in Requests, Close(r)
        PROVE  TypeOK'
    <2>1. /\ channel' \in [Connections -> {"active", "left", "closed"}]
          /\ pendingTask' \in [Connections -> SUBSET Requests]
          /\ \A c \in Connections : Cardinality(pendingTask'[c]) <= 1
      <3>1. CASE Deactivate(carrier[r], "closed")
        BY <1>0, <1>r, <3>1, DeactivateType
      <3>2. CASE UNCHANGED <<channel, pendingTask>>
        BY <1>0, <3>2 DEF TypeOK
      <3> QED
        BY <1>8, <3>1, <3>2 DEF Close
    <2>2. pc' \in [Requests -> PCs]
      BY <1>p, <1>8 DEF Close, Goto, PCs
    <2>3. UNCHANGED <<carrier, received, wire, route, error, reply, vmlx, books>>
      BY <1>8 DEF Close
    <2> QED
      BY <1>0, <2>1, <2>2, <2>3 DEF TypeOK, vmlx, books
  <1>9. ASSUME NEW c \in Connections, ClientLeaves(c) \/ ErrorCaught(c)
        PROVE  TypeOK'
    <2>1. /\ channel' \in [Connections -> {"active", "left", "closed"}]
          /\ pendingTask' \in [Connections -> SUBSET Requests]
          /\ \A d \in Connections : Cardinality(pendingTask'[d]) <= 1
      BY <1>0, <1>9, DeactivateType DEF ClientLeaves, ErrorCaught
    <2>2. wire' \in [Connections -> Seq(Parts)]
      <3>1. <<Part({}, "500"), Part({}, "end")>> \in Seq(Parts)
        <4>1. Part({}, "500") \in Parts /\ Part({}, "end") \in Parts
          BY DEF Part, Parts, Statuses
        <4> QED
          BY <4>1
      <3> DEFINE two == <<Part({}, "500"), Part({}, "end")>>
      <3>2. wire[c] \o two \in Seq(Parts)
        BY <1>0, <3>1, ConcatProperties DEF TypeOK
      <3>3. wire' \in {wire, [wire EXCEPT ![c] = @ \o two]}
        BY <1>9 DEF ClientLeaves, ErrorCaught
      <3> HIDE DEF two
      <3> QED
        BY <1>0, <3>2, <3>3 DEF TypeOK
    <2>3. UNCHANGED <<carrier, received, task, vmlx, books>>
      BY <1>9 DEF ClientLeaves, ErrorCaught
    <2> QED
      BY <1>0, <2>1, <2>2, <2>3 DEF TypeOK, task, vmlx, books
  <1>10. ASSUME NEW r \in Requests, NEW cut \in BOOLEAN, StopDecode(r, cut) \/ Drain(r)
         PROVE  TypeOK'
    <2>1. \A b \in BOOLEAN : /\ [truncated EXCEPT ![r] = b] \in [Requests -> BOOLEAN]
                             /\ [rejected EXCEPT ![r] = b] \in [Requests -> BOOLEAN]
      BY <1>0 DEF TypeOK
    <2>2. truncated' \in [Requests -> BOOLEAN]
      <3>1. truncated' = truncated \/ truncated' = [truncated EXCEPT ![r] = cut]
        BY <1>10 DEF StopDecode, Drain
      <3> QED
        BY <1>0, <2>1, <3>1 DEF TypeOK
    <2>3. rejected' \in [Requests -> BOOLEAN]
      <3>1. rejected' = rejected \/ \E b \in BOOLEAN : rejected' = [rejected EXCEPT ![r] = b]
        <4>1. {FALSE} \cup {route[r] = "chat"} \subseteq BOOLEAN
          OBVIOUS
        <4> QED
          BY <1>10, <4>1 DEF StopDecode, Drain
      <3> QED
        BY <1>0, <2>1, <3>1 DEF TypeOK
    <2>4. gpu' \in [Requests -> {"idle", "prefill", "decode", "drain", "done"}]
      <3>1. \E g \in {"drain", "done"} : gpu' = [gpu EXCEPT ![r] = g]
        BY <1>10 DEF StopDecode, Drain
      <3> QED
        BY <1>0, <3>1 DEF TypeOK
    <2>5. UNCHANGED <<connection, task, books>>
      BY <1>10 DEF StopDecode, Drain
    <2> QED
      BY <1>0, <2>2, <2>3, <2>4, <2>5 DEF TypeOK, connection, task, books
  <1>11. CASE UNCHANGED vars
    BY <1>0, <1>11 DEF TypeOK, vars, connection, task, vmlx, books
  <1> QED
    BY <1>1, <1>2, <1>3, <1>4, <1>5, <1>6, <1>7, <1>8, <1>9, <1>10, <1>11
       DEF Next, Task, OnEngine, Quiescent

-----------------------------------------------------------------------------
(* Runs                                                                    *)

\* A cancelled task stays so, a connection that ended too, and a task is cancelled when
\* its connection ends.
Ends(q) ==
    /\ isCancelled(q) => isCancelled(q)'
    /\ isCancelled(q)' => isCancelled(q) \/ channel'[carrier'[q]] # "active"
    /\ channel[carrier[q]] # "active" => channel'[carrier'[q]] # "active"

\* A step that ends no connection cancels nobody.
LEMMA NoEnd ==
    ASSUME NEW q, withdrawn' = withdrawn, channel' = channel, carrier' = carrier
    PROVE  Ends(q)
  BY DEF Ends, isCancelled

\* The end of a connection cancels one of its own tasks at most.
LEMMA DeactivateEnds ==
    ASSUME TypeOK, NEW c \in Connections, NEW how \in {"left", "closed"}, Delivered(c),
           Deactivate(c, how), carrier' = carrier, NEW q \in Requests
    PROVE  Ends(q)
  <1>1. carrier[q] \in Connections
    BY CarriersAssumption DEF TypeOK
  <1>2. /\ channel'[c] # "active"
        /\ \A d \in Connections : d # c => channel'[d] = channel[d]
    BY DEF TypeOK, Deactivate
  <1>3. \/ withdrawn' = withdrawn
        \/ \E p \in Requests : carrier[p] = c /\ withdrawn' = withdrawn \cup {p}
    BY DEF Deactivate, Delivered, Admission!Withdraw, admission
  <1> QED
    BY <1>1, <1>2, <1>3 DEF Ends, isCancelled

\* So it is in every step.
LEMMA StepEnds ==
    ASSUME TypeOK, AdmissionOK, \A c \in Connections : Delivered(c), [Next]_vars,
           NEW q \in Requests
    PROVE  Ends(q)
  <1>r. \A r \in Requests : carrier[r] \in Connections
    BY CarriersAssumption DEF TypeOK
  <1>1. ASSUME NEW r \in Requests,
               Submit(r) \/ SubmitRefused(r) \/ LeaveQueue(r) \/ CancelBeforeStart(r) \/ Release(r)
        PROVE  Ends(q)
    <2>1. withdrawn' = withdrawn
      BY <1>1, AdmissionOfSelf DEF Submit, SubmitRefused, LeaveQueue, CancelBeforeStart, Release
    <2>2. UNCHANGED connection
      BY <1>1 DEF Submit, SubmitRefused, LeaveQueue, CancelBeforeStart, Release, Finish
    <2> QED
      BY <2>1, <2>2, NoEnd DEF connection
  <1>2. ASSUME NEW r \in Requests,
               \/ Receive(r) \/ HandlerIsGone(r) \/ RespondPlainly(r) \/ Respond(r)
               \/ Start(r) \/ Prepare(r) \/ Prefill(r) \/ LoopEnds(r) \/ AwaitTask(r)
               \/ Conclude(r) \/ Write(r) \/ StopDecode(r, TRUE) \/ StopDecode(r, FALSE)
               \/ Drain(r)
        PROVE  Ends(q)
    <2>1. UNCHANGED <<admission, channel, carrier>>
      BY <1>2 DEF Receive, HandlerIsGone, RespondPlainly, Respond, Start, Prepare, Prefill,
                  LoopEnds, AwaitTask, Conclude, Write, StopDecode, Drain, connection
    <2> QED
      BY <2>1, NoEnd DEF admission
  <1>3. ASSUME NEW r \in Requests, Close(r)
        PROVE  Ends(q)
    <2>1. CASE Deactivate(carrier[r], "closed")
      BY <1>r, <1>3, <2>1, DeactivateEnds DEF Close
    <2>2. CASE UNCHANGED <<admission, channel>>
      BY <1>3, <2>2, NoEnd DEF Close, admission
    <2> QED
      BY <1>3, <2>1, <2>2 DEF Close
  <1>4. ASSUME NEW c \in Connections, ClientLeaves(c) \/ ErrorCaught(c)
        PROVE  Ends(q)
    BY <1>4, DeactivateEnds DEF ClientLeaves, ErrorCaught
  <1>5. CASE UNCHANGED vars
    BY <1>5, NoEnd DEF vars, admission, connection
  <1> QED
    BY <1>1, <1>2, <1>3, <1>4, <1>5 DEF Next, Task, OnEngine, Quiescent

\* Nothing of q's run changes; a waiter may be handed a slot.
Untouched(q) ==
    /\ status'[q] = status[q] \/ (status[q] = "queued" /\ status'[q] = "holding")
    /\ pc'[q] = pc[q] /\ error'[q] = error[q] /\ reply'[q] = reply[q]
    /\ gpu'[q] = gpu[q] /\ truncated'[q] = truncated[q] /\ rejected'[q] = rejected[q]
    /\ log'[q] = log[q] /\ outcome'[q] = outcome[q]

\* Then what the invariant says of the run stays true, also when its connection ends.
LEMMA Bystander ==
    ASSUME NEW q, RunInv(q), Untouched(q), Ends(q)
    PROVE  RunInv(q)'
  <1>1. Placed(q)'
    BY DEF RunInv, Untouched, Placed, Working
  <1>2. CancelledWithItsConnection(q)'
    BY DEF RunInv, Untouched, CancelledWithItsConnection, Ends
  <1>3. Recorded(q)'
    BY DEF RunInv, Untouched, Recorded, Answering
  <1> QED
    BY <1>1, <1>2, <1>3 DEF RunInv

\* What admission does to the runs that do not act.
LEMMA AdmissionLeavesOthers ==
    ASSUME TypeOK, AdmissionOK, NEW r \in Requests, NEW q \in Requests, q # r,
           Submit(r) \/ SubmitRefused(r) \/ LeaveQueue(r) \/ CancelBeforeStart(r) \/ Release(r)
    PROVE  Untouched(q)
  <1>1. status'[q] = status[q] \/ (status[q] = "queued" /\ status'[q] = "holding")
    BY AdmissionOfOthers DEF Submit, SubmitRefused, LeaveQueue, CancelBeforeStart, Release
  <1>2. CASE Submit(r)
    BY <1>1, <1>2 DEF TypeOK, Submit, Goto, Untouched, vmlx, books
  <1>3. ASSUME NEW e, NEW how, Finish(r, e, how)
        PROVE  Untouched(q)
    BY <1>1, <1>3 DEF TypeOK, Finish, Throw, Goto, Untouched, vmlx
  <1> QED
    BY <1>2, <1>3 DEF SubmitRefused, LeaveQueue, CancelBeforeStart, Release

\* Every action of one request leaves the runs of the others so.
LEMMA OthersUntouched ==
    ASSUME TypeOK, AdmissionOK, NEW r \in Requests, NEW q \in Requests, q # r,
           \/ Receive(r) \/ Task(r) \/ StopDecode(r, TRUE) \/ StopDecode(r, FALSE) \/ Drain(r)
    PROVE  Untouched(q)
  <1>1. ASSUME Receive(r) \/ HandlerIsGone(r) \/ RespondPlainly(r) \/ Respond(r)
        PROVE  Untouched(q)
    BY <1>1 DEF TypeOK, Receive, HandlerIsGone, RespondPlainly, Respond, Goto, Untouched,
                admission, vmlx, books
  <1>2. ASSUME Start(r) \/ Prepare(r) \/ Prefill(r) \/ LoopEnds(r) \/ AwaitTask(r)
        PROVE  Untouched(q)
    BY <1>2 DEF TypeOK, Start, Prepare, Prefill, LoopEnds, AwaitTask, Throw, Goto, Untouched,
                admission, vmlx, books
  <1>3. ASSUME Conclude(r)
        PROVE  Untouched(q)
    BY <1>3 DEF TypeOK, Conclude, Throw, Goto, Untouched, admission, vmlx
  <1>4. ASSUME Write(r)
        PROVE  Untouched(q)
    BY <1>4 DEF TypeOK, Write, Goto, Untouched, admission, vmlx, books
  <1>5. ASSUME Close(r)
        PROVE  Untouched(q)
    <2>1. status' = status
      BY <1>5 DEF Close, Deactivate, admission, Admission!Withdraw
    <2> QED
      BY <1>5, <2>1 DEF TypeOK, Close, Goto, Untouched, vmlx, books
  <1>6. ASSUME NEW cut, StopDecode(r, cut)
        PROVE  Untouched(q)
    BY <1>6 DEF TypeOK, StopDecode, Untouched, admission, task, books
  <1>7. ASSUME Drain(r)
        PROVE  Untouched(q)
    BY <1>7 DEF TypeOK, Drain, Untouched, admission, task, books
  <1> QED
    BY <1>1, <1>2, <1>3, <1>4, <1>5, <1>6, <1>7, AdmissionLeavesOthers DEF Task, OnEngine

\* The end of a connection touches no run.
LEMMA EndOfConnectionTouchesNoRun ==
    ASSUME NEW c, ClientLeaves(c) \/ ErrorCaught(c), NEW q
    PROVE  Untouched(q)
  BY DEF ClientLeaves, ErrorCaught, Deactivate, Admission!Withdraw, admission, task, vmlx,
         books, Untouched

KeepsRecord(r) ==
    /\ error'[r] = error[r] /\ reply'[r] = reply[r]
    /\ log'[r] = log[r] /\ outcome'[r] = outcome[r]

KeepsDecode(r) ==
    /\ gpu'[r] = gpu[r] /\ truncated'[r] = truncated[r] /\ rejected'[r] = rejected[r]

\* A step that changes no error and no accounting cancels no more than the connection did.
LEMMA CancellationKept ==
    ASSUME NEW r, RunInv(r), Ends(r), truncated'[r] = truncated[r],
           error'[r] = error[r], outcome'[r] = outcome[r]
    PROVE  CancelledWithItsConnection(r)'
  BY DEF RunInv, CancelledWithItsConnection, Ends

\* The task before its run.
LEMMA RespondKeeps ==
    ASSUME TypeOK, NEW r \in Requests, RunInv(r), Ends(r),
           Receive(r) \/ HandlerIsGone(r) \/ RespondPlainly(r) \/ Respond(r)
    PROVE  RunInv(r)'
  <1>1. /\ KeepsDecode(r) /\ status'[r] = status[r]
        /\ error'[r] = error[r] /\ log'[r] = log[r] /\ outcome'[r] = outcome[r]
    BY DEF Receive, HandlerIsGone, RespondPlainly, Respond, KeepsDecode, admission, vmlx, books
  <1>2. /\ pc[r] \in {"unsent", "respond"}
        /\ \/ pc[r] = "unsent" /\ pc'[r] = "respond" /\ reply'[r] = reply[r]
           \/ pc[r] = "respond" /\ pc'[r] = "done" /\ reply'[r] = reply[r]
           \/ pc[r] = "respond" /\ pc'[r] = "head" /\ reply'[r] = "plain"
           \/ pc[r] = "respond" /\ pc'[r] = "submit" /\ reply'[r] = reply[r]
    BY DEF TypeOK, Receive, HandlerIsGone, RespondPlainly, Respond, Goto
  <1>3. Placed(r)'
    BY <1>1, <1>2 DEF RunInv, Placed, Working, KeepsDecode
  <1>4. Recorded(r)'
    BY <1>1, <1>2 DEF RunInv, Recorded, Answering, KeepsDecode
  <1> QED
    BY <1>1, <1>3, <1>4, CancellationKept DEF RunInv, KeepsDecode

\* A run that is over has the status that goes with its error and its accounting.
LEMMA FinishKeeps ==
    ASSUME TypeOK, NEW r \in Requests, RunInv(r), Ends(r),
           NEW e \in Errors, NEW how, Finish(r, e, how),
           e = "cancellation" \/ how = "cancelledActive" => isCancelled(r),
           \/ /\ pc[r] = "unwinding" /\ e = error[r]
              /\ how \in IF e = "none" THEN {"completed", "cancelledActive"}
                                       ELSE {"failed", "cancelledActive"}
           \/ /\ pc[r] \in {"submit", "submitted"} /\ how = "notRun"
              /\ e \in {"cancellation", "queueFull", "queueWaitTimeout"}
    PROVE  RunInv(r)'
  <1>1. /\ KeepsDecode(r) /\ log'[r] = log[r]
        /\ pc'[r] = "head" /\ error'[r] = e /\ outcome'[r] = how
        /\ reply'[r] = IF e = "none" THEN "200" ELSE ErrorPlain(e)
    BY DEF TypeOK, Finish, Throw, Goto, KeepsDecode, vmlx
  <1>2. /\ reply'[r] = "200" <=> e = "none"
        /\ reply'[r] \in {"429", "503"} <=> e \in {"queueFull", "queueWaitTimeout"}
        /\ reply'[r] # "none"
    BY <1>1 DEF Errors, ErrorPlain
  <1>3. Placed(r)'
    BY <1>1 DEF RunInv, Placed, Working, KeepsDecode
  <1>4. CancelledWithItsConnection(r)'
    BY <1>1 DEF RunInv, CancelledWithItsConnection, Ends, KeepsDecode
  <1>5. Recorded(r)'
    <2>1. CASE pc[r] = "unwinding" /\ e = error[r]
      <3>1. error[r] \notin {"queueFull", "queueWaitTimeout"}
        BY <2>1 DEF RunInv, Recorded, Answering
      <3>2. e = "none" => log[r] = <<"finished">> /\ how \in {"completed", "cancelledActive"}
        BY <2>1 DEF RunInv, Recorded
      <3>3. how = "completed" => e = "none"
        BY <2>1
      <3> QED
        BY <1>1, <1>2, <2>1, <3>1, <3>2, <3>3 DEF RunInv, Recorded, Answering, KeepsDecode
    <2>2. CASE pc[r] \in {"submit", "submitted"} /\ how = "notRun" /\ e # "none"
      <3>1. log[r] = <<>>
        BY <2>2 DEF RunInv, Recorded, Answering
      <3> QED
        BY <1>1, <1>2, <2>2, <3>1 DEF RunInv, Recorded, Answering, KeepsDecode
    <2> QED
      BY <2>1, <2>2
  <1> QED
    BY <1>3, <1>4, <1>5 DEF RunInv

\* submit and release: admission, a refusal, a cancellation, and the end of a run.
LEMMA SubmitKeeps ==
    ASSUME TypeOK, AdmissionOK, NEW r \in Requests, RunInv(r), Ends(r),
           \/ Submit(r) \/ SubmitRefused(r) \/ LeaveQueue(r) \/ CancelBeforeStart(r)
           \/ Start(r) \/ Release(r)
    PROVE  RunInv(r)'
  <1>1. CASE Submit(r) \/ Start(r)
    <2>1. KeepsDecode(r) /\ KeepsRecord(r)
      BY <1>1 DEF Submit, Start, KeepsDecode, KeepsRecord, vmlx, books
    <2>2. \/ pc[r] = "submit" /\ pc'[r] = "submitted" /\ status'[r] \in {"queued", "holding"}
          \/ pc[r] = "submitted" /\ pc'[r] = "prepare" /\ status'[r] = "holding"
      <3>1. CASE Submit(r)
        BY <3>1, AdmissionOfSelf DEF TypeOK, Submit, Goto
      <3>2. CASE Start(r)
        BY <3>2 DEF TypeOK, Start, Goto, admission
      <3> QED
        BY <1>1, <3>1, <3>2
    <2>3. Placed(r)'
      BY <2>1, <2>2 DEF RunInv, Placed, Working, KeepsDecode
    <2>4. Recorded(r)'
      BY <2>1, <2>2 DEF RunInv, Recorded, Answering, KeepsDecode, KeepsRecord
    <2> QED
      BY <2>1, <2>3, <2>4, CancellationKept DEF RunInv, KeepsDecode, KeepsRecord
  <1>2. CASE SubmitRefused(r) \/ LeaveQueue(r) \/ CancelBeforeStart(r)
    <2>1. /\ pc[r] \in {"submit", "submitted"}
          /\ \E e \in {"cancellation", "queueFull", "queueWaitTimeout"} :
                Finish(r, e, "notRun") /\ (e = "cancellation" => isCancelled(r))
      BY <1>2 DEF SubmitRefused, LeaveQueue, CancelBeforeStart
    <2> QED
      BY <2>1, FinishKeeps DEF Errors
  <1>3. CASE Release(r)
    <2> DEFINE how == IF isCancelled(r) \/ error[r] = "cancellation" THEN "cancelledActive"
                      ELSE IF error[r] = "none" THEN "completed" ELSE "failed"
    <2>1. error[r] \in Errors /\ (error[r] = "cancellation" => isCancelled(r))
      BY DEF TypeOK, RunInv, CancelledWithItsConnection
    <2>2. pc[r] = "unwinding" /\ Finish(r, error[r], how)
      BY <1>3 DEF Release
    <2>3. how = "cancelledActive" => isCancelled(r)
      BY <2>1
    <2>4. how \in IF error[r] = "none" THEN {"completed", "cancelledActive"}
                                       ELSE {"failed", "cancelledActive"}
      OBVIOUS
    <2> HIDE DEF how
    <2> QED
      BY <2>1, <2>2, <2>3, <2>4, FinishKeeps
  <1> QED
    BY <1>1, <1>2, <1>3

\* The run on the engine.
LEMMA EngineKeeps ==
    ASSUME TypeOK, NEW r \in Requests, RunInv(r), Ends(r),
           Prepare(r) \/ Prefill(r) \/ LoopEnds(r) \/ AwaitTask(r) \/ Conclude(r)
    PROVE  RunInv(r)'
  <1>1. /\ status'[r] = status[r] /\ reply'[r] = reply[r] /\ outcome'[r] = outcome[r]
        /\ truncated'[r] = truncated[r] /\ rejected'[r] = rejected[r]
    BY DEF Prepare, Prefill, LoopEnds, AwaitTask, Conclude, admission, vmlx, books
  <1>2. CASE Prepare(r) \/ Prefill(r)
    <2>1. /\ log'[r] = log[r]
          /\ pc[r] \in {"prepare", "prefill"}
          /\ \/ /\ pc'[r] = "unwinding" /\ gpu'[r] \in {gpu[r], "idle"}
                /\ gpu[r] = "prefill" => gpu'[r] = "idle"
                /\ \/ isCancelled(r) /\ error'[r] = "cancellation"
                   \/ error'[r] \in {"engine", "other"}
             \/ pc'[r] = "prefill" /\ gpu'[r] = "prefill" /\ error'[r] = error[r]
             \/ /\ pc[r] = "prefill" /\ pc'[r] = "streaming" /\ gpu'[r] = "decode"
                /\ error'[r] = error[r]
      <3>1. CASE Prepare(r)
        BY <3>1 DEF TypeOK, Prepare, PrepareErrors, Throw, Goto, books, RunInv, Placed
      <3>2. CASE Prefill(r)
        BY <3>2 DEF TypeOK, Prefill, Throw, Goto, books
      <3> QED
        BY <1>2, <3>1, <3>2
    <2>2. Placed(r)'
      BY <1>1, <2>1 DEF RunInv, Placed, Working
    <2>3. CancelledWithItsConnection(r)'
      BY <1>1, <2>1 DEF RunInv, CancelledWithItsConnection, Ends
    <2>4. Recorded(r)'
      <3>1. /\ log[r] = <<>> /\ error[r] = "none" /\ outcome[r] = "none" /\ reply[r] = "none"
            /\ <<>> # <<"finished">>
        BY <2>1 DEF RunInv, Recorded, Answering
      <3> QED
        BY <1>1, <2>1, <3>1 DEF Recorded, Answering
    <2> QED
      BY <2>2, <2>3, <2>4 DEF RunInv
  <1>3. CASE LoopEnds(r) \/ AwaitTask(r)
    <2>1. /\ KeepsDecode(r) /\ KeepsRecord(r)
          /\ \/ pc[r] = "streaming" /\ pc'[r] = "draining"
             \/ pc[r] = "draining" /\ gpu[r] = "done" /\ pc'[r] = "concluding"
      BY <1>3 DEF TypeOK, LoopEnds, AwaitTask, Goto, KeepsDecode, KeepsRecord, vmlx, books
    <2>2. Placed(r)'
      BY <1>1, <2>1 DEF RunInv, Placed, Working, KeepsDecode
    <2>3. Recorded(r)'
      BY <2>1 DEF RunInv, Recorded, Answering, KeepsDecode, KeepsRecord
    <2> QED
      BY <2>1, <2>2, <2>3, CancellationKept DEF RunInv, KeepsDecode, KeepsRecord
  <1>4. CASE Conclude(r)
    <2>0. log[r] = <<>> /\ error[r] = "none" /\ pc[r] = "concluding"
      BY <1>4 DEF Conclude, RunInv, Recorded, Answering
    <2>1. /\ gpu'[r] = gpu[r] /\ pc'[r] = "unwinding"
          /\ \/ /\ isCancelled(r) /\ error'[r] = "cancellation" /\ log'[r] = <<"cancelled">>
             \/ /\ error'[r] = "engine" /\ log'[r] = log[r]
             \/ /\ ~isCancelled(r) /\ ~rejected[r]
                /\ error'[r] = error[r] /\ log'[r] = <<"finished">>
      <3>1. /\ Append(log[r], "cancelled") = <<"cancelled">>
            /\ Append(log[r], "finished") = <<"finished">>
        BY <2>0
      <3> QED
        BY <1>4, <3>1 DEF TypeOK, Conclude, Throw, Goto, vmlx
    <2>2. gpu[r] = "done" /\ (truncated[r] => isCancelled(r))
      BY <2>0 DEF RunInv, Placed, CancelledWithItsConnection
    <2>3. Placed(r)'
      BY <1>1, <2>0, <2>1 DEF RunInv, Placed, Working
    <2>4. CancelledWithItsConnection(r)'
      BY <1>1, <2>1 DEF RunInv, CancelledWithItsConnection, Ends
    <2>5. <<"cancelled">> # <<"finished">> /\ <<>> # <<"finished">>
      OBVIOUS
    <2>6. Recorded(r)'
      <3>1. outcome[r] = "none" /\ reply[r] = "none"
        BY <2>0 DEF RunInv, Recorded, Answering
      <3> QED
        BY <1>1, <2>0, <2>1, <2>2, <2>5, <3>1 DEF Recorded, Answering
    <2> QED
      BY <2>3, <2>4, <2>6 DEF RunInv
  <1> QED
    BY <1>2, <1>3, <1>4

\* The response, and vmlx's task.
LEMMA AnswerKeeps ==
    ASSUME TypeOK, NEW r \in Requests, RunInv(r), Ends(r), Write(r) \/ Close(r)
    PROVE  RunInv(r)'
  <1>1. /\ KeepsDecode(r) /\ KeepsRecord(r) /\ status'[r] = status[r]
        /\ pc[r] \in {"head", "end", "close"} /\ pc'[r] \in {"end", "close", "done"}
    BY DEF TypeOK, Write, NextPart, Close, Deactivate, Admission!Withdraw, Goto, KeepsDecode,
           KeepsRecord, admission, vmlx, books
  <1>2. Placed(r)'
    BY <1>1 DEF RunInv, Placed, Working, KeepsDecode
  <1>3. Recorded(r)'
    BY <1>1 DEF RunInv, Recorded, Answering, KeepsDecode, KeepsRecord
  <1> QED
    BY <1>1, <1>2, <1>3, CancellationKept DEF RunInv, KeepsDecode, KeepsRecord

\* A decode is cut only when it was cancelled, and nothing is recorded before its drain.
LEMMA DecodeKeeps ==
    ASSUME TypeOK, NEW r \in Requests, RunInv(r), Ends(r),
           NEW cut \in BOOLEAN, StopDecode(r, cut) \/ Drain(r)
    PROVE  RunInv(r)'
  <1>1. /\ KeepsRecord(r) /\ status'[r] = status[r] /\ pc'[r] = pc[r]
    BY DEF StopDecode, Drain, KeepsRecord, admission, task, books
  <1>2. /\ gpu[r] \in {"decode", "drain"}
        /\ gpu'[r] \in {"drain", "done"}
        /\ truncated'[r] => truncated[r] \/ isCancelled(r)
        /\ gpu[r] = "drain" => truncated'[r] = truncated[r] /\ rejected'[r] = rejected[r]
    BY DEF TypeOK, StopDecode, Drain
  <1>3. Placed(r)'
    BY <1>1, <1>2 DEF RunInv, Placed, Working
  <1>4. CancelledWithItsConnection(r)'
    BY <1>1, <1>2 DEF RunInv, CancelledWithItsConnection, Ends, KeepsRecord
  <1>5. pc[r] \in {"streaming", "draining"} /\ log[r] = <<>>
    BY <1>2 DEF RunInv, Placed, Recorded, Answering
  <1>6. Recorded(r)'
    BY <1>1, <1>5 DEF RunInv, Recorded, Answering, KeepsRecord
  <1> QED
    BY <1>3, <1>4, <1>6 DEF RunInv

\* Every step keeps what the invariant says of the runs.
LEMMA StepKeepsRuns ==
    ASSUME IInv, [Next]_vars, NEW q \in Requests
    PROVE  RunInv(q)'
  <1> USE DEF IInv
  <1>1. Ends(q)
    BY StepEnds DEF ConnectionInv
  <1>2. RunInv(q)
    OBVIOUS
  <1>3. ASSUME NEW r \in Requests,
               \/ Receive(r) \/ Task(r) \/ StopDecode(r, TRUE) \/ StopDecode(r, FALSE)
               \/ Drain(r)
        PROVE  RunInv(q)'
    <2>1. CASE q # r
      BY <1>1, <1>2, <1>3, <2>1, OthersUntouched, Bystander
    <2>2. CASE q = r
      BY <1>1, <1>2, <1>3, <2>2, RespondKeeps, SubmitKeeps, EngineKeeps, AnswerKeeps, DecodeKeeps
         DEF Task, OnEngine
    <2> QED
      BY <2>1, <2>2
  <1>4. ASSUME NEW c \in Connections, ClientLeaves(c) \/ ErrorCaught(c)
        PROVE  RunInv(q)'
    BY <1>1, <1>2, <1>4, EndOfConnectionTouchesNoRun, Bystander
  <1>5. CASE UNCHANGED vars
    <2>1. Untouched(q)
      BY <1>5 DEF vars, admission, task, vmlx, books, Untouched
    <2> QED
      BY <1>1, <1>2, <2>1, Bystander
  <1> QED
    BY <1>3, <1>4, <1>5 DEF Next, Quiescent

-----------------------------------------------------------------------------
(* Connections                                                             *)

\* A step that changes neither a connection nor a run that came by it.
Elsewhere(c) ==
    /\ carrier' = carrier
    /\ channel'[c] = channel[c] /\ received'[c] = received[c]
    /\ pendingTask'[c] = pendingTask[c] /\ wire'[c] = wire[c]
    /\ \A q \in Requests : carrier[q] = c =>
          pc'[q] = pc[q] /\ error'[q] = error[q] /\ reply'[q] = reply[q] /\ outcome'[q] = outcome[q]

\* What the invariant says of a connection depends on it and its own runs.
LEMMA ElsewhereKeeps ==
    ASSUME NEW c \in Connections, ConnectionInv(c), Elsewhere(c)
    PROVE  ConnectionInv(c)'
  <1>1. Delivered(c)'
    BY DEF ConnectionInv, Elsewhere, Delivered
  <1>2. Undisturbed(c)' <=> Undisturbed(c)
    BY DEF Elsewhere, Undisturbed
  <1>3. (received[c] = <<>> /\ Undisturbed(c) => channel[c] = "active" /\ wire[c] = <<>>)'
    BY <1>2 DEF ConnectionInv, Elsewhere
  <1>4. ASSUME NEW r \in Requests PROVE Sender(c, r)' /\ Sole(c, r)'
    <2>1. Sender(c, r) /\ Sole(c, r)
      BY DEF ConnectionInv
    <2>2. Sender(c, r)'
      <3>1. CASE carrier[r] = c
        BY <2>1, <3>1 DEF Elsewhere, Sender
      <3>2. CASE carrier[r] # c
        <4>1. \A i \in DOMAIN wire[c] : wire[c][i].from # {r}
          BY <2>1, <3>2 DEF Sender
        <4> QED
          BY <4>1 DEF Elsewhere, Sender
      <3> QED
        BY <3>1, <3>2
    <2>3. Sole(c, r)'
      BY <1>2, <2>1 DEF Elsewhere, Sole
    <2> QED
      BY <2>2, <2>3
  <1> QED
    BY <1>1, <1>3, <1>4 DEF ConnectionInv

\* A run that goes on without its connection: nothing of it was written, nor is now.
Quiet(r) ==
    /\ UNCHANGED <<carrier, channel, received, pendingTask, wire>>
    /\ pc[r] \notin {"unsent", "end", "close", "done"}
    /\ pc'[r] \notin {"end", "close"}
    /\ pc'[r] = "done" => channel[carrier[r]] # "active"
    /\ \A q \in Requests \ {r} :
          pc'[q] = pc[q] /\ error'[q] = error[q] /\ reply'[q] = reply[q] /\ outcome'[q] = outcome[q]

\* Then what the invariant says of every connection stays true.
LEMMA QuietKeeps ==
    ASSUME NEW r \in Requests, NEW c \in Connections, ConnectionInv(c), Quiet(r)
    PROVE  ConnectionInv(c)'
  <1>1. CASE carrier[r] # c
    <2>1. Elsewhere(c)
      BY <1>1 DEF Quiet, Elsewhere
    <2> QED
      BY <2>1, ElsewhereKeeps
  <1>2. CASE carrier[r] = c
    <2>1. Delivered(c)'
      BY DEF ConnectionInv, Quiet, Delivered
    <2>2. Undisturbed(c)' <=> Undisturbed(c)
      BY DEF Quiet, Undisturbed
    <2>3. (received[c] = <<>> /\ Undisturbed(c) => channel[c] = "active" /\ wire[c] = <<>>)'
      BY <2>2 DEF ConnectionInv, Quiet
    <2>4. ASSUME NEW q \in Requests, q # r PROVE Sender(c, q)' /\ Sole(c, q)'
      <3>1. Sender(c, q) /\ Sole(c, q)
        BY DEF ConnectionInv
      <3> QED
        BY <2>2, <2>4, <3>1 DEF Quiet, Sender, Sole
    <2>5. Sender(c, r)' /\ Sole(c, r)'
      <3>1. Sender(c, r) /\ Sole(c, r)
        BY DEF ConnectionInv
      <3>2. \A i \in DOMAIN wire[c] : wire[c][i].from # {r}
        BY <3>1 DEF Quiet, Sender
      <3>3. Sender(c, r)'
        BY <3>2 DEF Quiet, Sender
      <3>4. Sole(c, r)'
        BY <1>2, <2>2, <3>1 DEF Quiet, Sole
      <3> QED
        BY <3>3, <3>4
    <2> QED
      BY <2>1, <2>3, <2>4, <2>5 DEF ConnectionInv
  <1> QED
    BY <1>1, <1>2

\* Whoever is alone on a connection is the only one that ever came by it.
LEMMA Alone ==
    ASSUME NEW c \in Connections, Delivered(c), NEW q \in Requests, received[c] = <<q>>,
           NEW r \in Requests, carrier[r] = c, pc[r] # "unsent"
    PROVE  r = q
  <1>1. PICK i \in DOMAIN <<q>> : <<q>>[i] = r
    BY DEF Delivered
  <1>2. \A j \in DOMAIN <<q>> : <<q>>[j] = q
    OBVIOUS
  <1> QED
    BY <1>1, <1>2

\* A request arrives by its connection.
LEMMA ReceiveKeeps ==
    ASSUME TypeOK, NEW r \in Requests, Receive(r), NEW c \in Connections, ConnectionInv(c)
    PROVE  ConnectionInv(c)'
  <1>1. /\ UNCHANGED <<carrier, channel, wire, error, reply, outcome>>
        /\ pc[r] = "unsent" /\ pc'[r] = "respond"
        /\ \A q \in Requests \ {r} : pc'[q] = pc[q]
    BY DEF TypeOK, Receive, Goto, books
  <1>2. carrier[r] \in Connections /\ channel[carrier[r]] = "active"
    BY CarriersAssumption DEF TypeOK, Receive
  <1>3. /\ received'[carrier[r]] = Append(received[carrier[r]], r)
        /\ pendingTask'[carrier[r]] = {r}
        /\ \A d \in Connections : d # carrier[r] =>
              received'[d] = received[d] /\ pendingTask'[d] = pendingTask[d]
    BY <1>2 DEF TypeOK, Receive, Remember
  <1>4. CASE carrier[r] # c
    <2>1. Elsewhere(c)
      BY <1>1, <1>3, <1>4 DEF Elsewhere
    <2> QED
      BY <2>1, ElsewhereKeeps
  <1>5. CASE carrier[r] = c
    <2> DEFINE s == received[c]
    <2>0. /\ s \in Seq(Requests)
          /\ received'[c] = Append(s, r)
          /\ DOMAIN Append(s, r) = 1..(Len(s) + 1)
          /\ \A i \in DOMAIN s : i \in DOMAIN Append(s, r) /\ Append(s, r)[i] = s[i]
          /\ Append(s, r)[Len(s) + 1] = r
          /\ Append(s, r) # <<>>
          /\ \A q : Append(s, r) = <<q>> => s = <<>> /\ q = r
      <3>1. s \in Seq(Requests)
        BY <1>5 DEF TypeOK
      <3>2. received'[c] = Append(s, r)
        BY <1>3, <1>5
      <3> HIDE DEF s
      <3>3. /\ DOMAIN Append(s, r) = 1..(Len(s) + 1) /\ Len(s) \in Nat
            /\ Append(s, r) \in Seq(Requests) /\ Len(Append(s, r)) = Len(s) + 1
            /\ Append(s, r)[Len(s) + 1] = r
            /\ \A i \in 1..Len(s) : Append(s, r)[i] = s[i]
        BY <3>1, AppendProperties
      <3>4. \A i \in DOMAIN s : i \in DOMAIN Append(s, r) /\ Append(s, r)[i] = s[i]
        BY <3>1, <3>3
      <3>5. Append(s, r) # <<>>
        BY <3>3
      <3>6. ASSUME NEW q, Append(s, r) = <<q>> PROVE s = <<>> /\ q = r
        <4>1. Len(<<q>>) = 1 /\ <<q>>[1] = q
          OBVIOUS
        <4>2. Len(s) = 0
          BY <3>3, <3>6, <4>1
        <4>3. s = <<>>
          BY <3>1, <4>2, EmptySeq
        <4> QED
          BY <3>3, <3>6, <4>1, <4>2, <4>3
      <3> QED
        BY <3>1, <3>2, <3>3, <3>4, <3>5, <3>6
    <2> HIDE DEF s
    <2>1. Delivered(c)'
      <3>1. pendingTask'[c] \subseteq {q \in Requests : carrier'[q] = c}
        BY <1>1, <1>3, <1>5
      <3>2. ASSUME NEW q \in Requests, carrier'[q] = c, pc'[q] # "unsent"
            PROVE  \E i \in DOMAIN received'[c] : received'[c][i] = q
        <4>1. CASE q = r
          <5>1. Len(s) + 1 \in DOMAIN Append(s, r)
            BY <2>0
          <5> QED
            BY <2>0, <4>1, <5>1
        <4>2. CASE q # r
          <5>1. PICK i \in DOMAIN s : s[i] = q
            BY <1>1, <3>2, <4>2 DEF ConnectionInv, Delivered, s
          <5> QED
            BY <2>0, <5>1
        <4> QED
          BY <4>1, <4>2
      <3> QED
        BY <3>1, <3>2 DEF Delivered
    <2>2. Undisturbed(c)' <=> Undisturbed(c)
      BY <1>1 DEF Undisturbed
    <2>3. ASSUME NEW q \in Requests PROVE Sender(c, q)' /\ Sole(c, q)'
      <3>1. Sender(c, q)
        BY DEF ConnectionInv
      <3>2. Sender(c, q)'
        <4>1. CASE q = r
          <5>1. \A i \in DOMAIN wire[c] : wire[c][i].from # {r}
            BY <1>1, <3>1, <4>1 DEF Sender
          <5> QED
            BY <1>1, <4>1, <5>1 DEF Sender
        <4>2. CASE q # r
          BY <1>1, <3>1, <4>2 DEF Sender
        <4> QED
          BY <4>1, <4>2
      <3>3. Sole(c, q)'
        <4> SUFFICES ASSUME received'[c] = <<q>>, Undisturbed(c)
                     PROVE  /\ carrier[q] = c
                            /\ channel[c] = "active"
                            /\ pc'[q] = "respond"
                            /\ wire[c] = <<>>
          BY <1>1, <2>2 DEF Sole
        <4>1. s = <<>> /\ q = r
          BY <2>0
        <4> QED
          BY <1>1, <1>5, <4>1 DEF ConnectionInv, s
      <3> QED
        BY <3>2, <3>3
    <2> QED
      BY <2>0, <2>1, <2>3 DEF ConnectionInv
  <1> QED
    BY <1>4, <1>5

\* One part after another are two parts.
LEMMA TwoParts == ASSUME NEW a, NEW b PROVE Append(<<a>>, b) = <<a, b>>
  <1> DEFINE s == Append(<<a>>, b)
  <1>1. <<a>> \in Seq({a, b}) /\ <<a, b>> \in Seq({a, b}) /\ b \in {a, b}
    OBVIOUS
  <1>2. /\ s \in Seq({a, b})
        /\ Len(s) = Len(<<a>>) + 1
        /\ \A i \in 1..Len(<<a>>) : s[i] = <<a>>[i]
        /\ s[Len(<<a>>) + 1] = b
    BY <1>1, AppendProperties, Zenon
  <1>3. Len(s) = 2 /\ s[1] = a /\ s[2] = b
    BY <1>2
  <1> HIDE DEF s
  <1>4. Len(s) = Len(<<a, b>>) /\ \A i \in 1..Len(s) : s[i] = <<a, b>>[i]
    BY <1>3
  <1>5. s = <<a, b>>
    BY <1>1, <1>2, <1>4, SeqEqual
  <1> QED
    BY <1>5 DEF s

\* The task writes the next part of its response.
LEMMA WriteKeeps ==
    ASSUME TypeOK, NEW r \in Requests, RunInv(r), Write(r), NEW c \in Connections,
           ConnectionInv(c)
    PROVE  ConnectionInv(c)'
  <1>1. /\ UNCHANGED <<carrier, channel, received, pendingTask, error, reply, outcome>>
        /\ \/ pc[r] = "head" /\ pc'[r] = "end"
           \/ pc[r] = "end" /\ pc'[r] = "close"
        /\ \A q \in Requests \ {r} : pc'[q] = pc[q]
    BY DEF TypeOK, Write, NextPart, Goto, books
  <1>2. carrier[r] \in Connections
    BY CarriersAssumption DEF TypeOK
  <1> DEFINE p == Part({r}, IF pc[r] = "head" THEN reply[r] ELSE "end")
  <1>3. wire' = IF channel[carrier[r]] # "active" THEN wire
                ELSE [wire EXCEPT ![carrier[r]] = Append(@, p)]
    BY DEF Write
  <1>p. p.from = {r} /\ p.part = IF pc[r] = "head" THEN reply[r] ELSE "end"
    BY DEF Part
  <1>4. CASE carrier[r] # c
    <2>1. wire'[c] = wire[c]
      BY <1>2, <1>3, <1>4 DEF TypeOK
    <2>2. Elsewhere(c)
      BY <1>1, <1>4, <2>1 DEF Elsewhere
    <2> QED
      BY <2>2, ElsewhereKeeps
  <1>5. CASE carrier[r] = c
    <2>1. Delivered(c)' /\ Delivered(c)
      BY <1>1 DEF ConnectionInv, Delivered
    <2>2. received[c] # <<>>
      BY <1>1, <1>5 DEF ConnectionInv, Delivered
    <2>3. ASSUME NEW q \in Requests, received[c] = <<q>> PROVE q = r
      BY <1>1, <1>5, <2>1, <2>3, Alone
    <2>4. CASE channel[c] # "active"
      <3>1. wire' = wire
        BY <1>3, <1>5, <2>4
      <3>2. ASSUME NEW q \in Requests PROVE Sender(c, q)' /\ Sole(c, q)'
        <4>1. Sender(c, q) /\ Sole(c, q)
          BY DEF ConnectionInv
        <4>2. Sender(c, q)'
          BY <1>1, <3>1, <4>1 DEF Sender
        <4>3. Undisturbed(c)' <=> Undisturbed(c)
          BY <1>1, <3>1 DEF Undisturbed
        <4>4. Sole(c, q)'
          BY <1>1, <2>3, <2>4, <4>1, <4>3 DEF Sole
        <4> QED
          BY <4>2, <4>4
      <3> QED
        BY <1>1, <2>1, <2>2, <3>2 DEF ConnectionInv
    <2>5. CASE channel[c] = "active"
      <3> DEFINE s == wire[c]
      <3> HIDE DEF p
      <3>1. /\ s \in Seq(Parts)
            /\ wire'[c] = Append(s, p)
        BY <1>2, <1>3, <1>5, <2>5 DEF TypeOK
      <3>p. p \in Parts
        <4>1. reply[r] \in Statuses \/ pc[r] = "end"
          BY <1>1 DEF TypeOK, RunInv, Recorded
        <4> QED
          BY <1>1, <4>1, PartType DEF p
      <3> HIDE DEF s
      <3>2. /\ Append(s, p) \in Seq(Parts) /\ Len(s) \in Nat
            /\ DOMAIN s = 1..Len(s) /\ DOMAIN Append(s, p) = 1..(Len(s) + 1)
            /\ \A i \in DOMAIN s : Append(s, p)[i] = s[i]
            /\ Append(s, p)[Len(s) + 1] = p
        <4>1. s \in Seq(Parts)
          BY <3>1
        <4>2. DOMAIN s = 1..Len(s) /\ Len(s) \in Nat
          BY <4>1, LenProperties
        <4> QED
          BY <3>p, <4>1, <4>2, AppendProperties
      <3>3. \A i \in DOMAIN Append(s, p) :
               \/ i \in DOMAIN s /\ Append(s, p)[i] = s[i]
               \/ Append(s, p)[i] = p
        BY <3>2
      <3>4. ~isCancelled(r) /\ error[r] # "cancellation" /\ outcome[r] # "cancelledActive"
        BY <1>5, <2>5 DEF RunInv, CancelledWithItsConnection
      <3>5. reply[r] = "200" => outcome[r] = "completed"
        BY <3>4 DEF RunInv, Recorded
      <3>6. ASSUME NEW q \in Requests PROVE Sender(c, q)' /\ Sole(c, q)'
        <4>1. Sender(c, q) /\ Sole(c, q)
          BY DEF ConnectionInv
        <4>2. Sender(c, q)'
          <5> SUFFICES ASSUME NEW i \in DOMAIN Append(s, p), Append(s, p)[i].from = {q}
                       PROVE  /\ carrier[q] = c
                              /\ pc'[q] \in {"end", "close", "done"}
                              /\ Append(s, p)[i].part \in {reply[q], "end"}
                              /\ error[q] # "cancellation"
                              /\ reply[q] = "200" => outcome[q] = "completed"
            BY <1>1, <3>1 DEF Sender
          <5>1. CASE i \in DOMAIN s /\ Append(s, p)[i] = s[i]
            <6>1. i \in DOMAIN wire[c] /\ wire[c][i].from = {q} /\ Append(s, p)[i] = wire[c][i]
              BY <5>1 DEF s
            <6> QED
              BY <1>1, <4>1, <6>1 DEF Sender
          <5>2. CASE Append(s, p)[i] = p
            <6>1. q = r
              BY <1>p, <5>2
            <6> QED
              BY <1>1, <1>5, <1>p, <3>4, <3>5, <5>2, <6>1
          <5> QED
            BY <3>3, <5>1, <5>2
        <4>3. Undisturbed(c)' => Undisturbed(c)
          BY <1>1, <3>1, <3>2 DEF Undisturbed, s
        <4>4. Sole(c, q)'
          <5> SUFFICES ASSUME received[c] = <<q>>, Undisturbed(c)
                       PROVE  /\ channel[c] = "active"
                              /\ pc'[r] = "end" => wire'[c] = <<Part({r}, reply[r])>>
                              /\ pc'[r] = "close"
                                    => wire'[c] = <<Part({r}, reply[r]), Part({r}, "end")>>
            BY <1>1, <1>5, <2>3, <2>5, <4>3 DEF Sole
          <5>1. q = r
            BY <2>3
          <5>2. CASE pc[r] = "head"
            <6>1. s = <<>> /\ p = Part({r}, reply[r])
              BY <4>1, <5>1, <5>2 DEF Sole, s, p
            <6>2. Append(<<>>, p) = <<p>>
              OBVIOUS
            <6> QED
              BY <1>1, <2>5, <3>1, <5>2, <6>1, <6>2
          <5>3. CASE pc[r] = "end"
            <6>1. s = <<Part({r}, reply[r])>> /\ p = Part({r}, "end")
              BY <4>1, <5>1, <5>3 DEF Sole, s, p
            <6>2. \A a : Append(<<a>>, p) = <<a, p>>
              BY TwoParts
            <6> QED
              BY <1>1, <2>5, <3>1, <5>3, <6>1, <6>2
          <5> QED
            BY <1>1, <5>2, <5>3
        <4> QED
          BY <4>2, <4>4
      <3> QED
        BY <1>1, <2>1, <2>2, <3>6 DEF ConnectionInv
    <2> QED
      BY <2>4, <2>5
  <1> QED
    BY <1>4, <1>5

\* The task closes its connection, if nobody did.
LEMMA CloseKeeps ==
    ASSUME TypeOK, NEW r \in Requests, Close(r), NEW c \in Connections, ConnectionInv(c)
    PROVE  ConnectionInv(c)'
  <1>1. /\ UNCHANGED <<carrier, received, wire, error, reply, outcome>>
        /\ pc[r] = "close" /\ pc'[r] = "done"
        /\ \A q \in Requests \ {r} : pc'[q] = pc[q]
    BY DEF TypeOK, Close, Goto, books
  <1>2. carrier[r] \in Connections
    BY CarriersAssumption DEF TypeOK
  <1>3. /\ channel[carrier[r]] = "active" => channel'[carrier[r]] = "closed"
        /\ channel[carrier[r]] # "active" => channel'[carrier[r]] = channel[carrier[r]]
        /\ pendingTask'[carrier[r]] \in {pendingTask[carrier[r]], {}}
        /\ \A d \in Connections : d # carrier[r] =>
              channel'[d] = channel[d] /\ pendingTask'[d] = pendingTask[d]
    BY <1>2 DEF TypeOK, Close, Deactivate
  <1>4. CASE carrier[r] # c
    <2>1. Elsewhere(c)
      BY <1>1, <1>3, <1>4 DEF Elsewhere
    <2> QED
      BY <2>1, ElsewhereKeeps
  <1>5. CASE carrier[r] = c
    <2>1. Delivered(c)' /\ Delivered(c)
      BY <1>1, <1>3, <1>5 DEF ConnectionInv, Delivered
    <2>2. received[c] # <<>>
      BY <1>1, <1>5 DEF ConnectionInv, Delivered
    <2>3. ASSUME NEW q \in Requests, received[c] = <<q>> PROVE q = r
      BY <1>1, <1>5, <2>1, <2>3, Alone
    <2>4. ASSUME NEW q \in Requests PROVE Sender(c, q)' /\ Sole(c, q)'
      <3>1. Sender(c, q) /\ Sole(c, q)
        BY DEF ConnectionInv
      <3>2. Sender(c, q)'
        BY <1>1, <3>1 DEF Sender
      <3>3. Undisturbed(c)' => Undisturbed(c)
        BY <1>1, <1>3, <1>5 DEF Undisturbed
      <3>4. Sole(c, q)'
        BY <1>1, <1>3, <1>5, <2>3, <3>1, <3>3 DEF Sole
      <3> QED
        BY <3>2, <3>4
    <2> QED
      BY <1>1, <2>1, <2>2, <2>4 DEF ConnectionInv
  <1> QED
    BY <1>4, <1>5

\* A client leaves, or has sent what is no HTTP: nobody is promised anything there.
LEMMA EndKeeps ==
    ASSUME TypeOK, NEW e \in Connections, ClientLeaves(e) \/ ErrorCaught(e),
           NEW c \in Connections, ConnectionInv(c)
    PROVE  ConnectionInv(c)'
  <1>1. UNCHANGED <<carrier, received, pc, error, reply, outcome>>
    BY DEF ClientLeaves, ErrorCaught, task, books
  <1>2. /\ \A d \in Connections : d # e =>
              channel'[d] = channel[d] /\ pendingTask'[d] = pendingTask[d] /\ wire'[d] = wire[d]
        /\ pendingTask'[e] = {}
    BY DEF TypeOK, ClientLeaves, ErrorCaught, Deactivate
  <1> DEFINE two == <<Part({}, "500"), Part({}, "end")>>
  <1>3. \/ channel'[e] = "left" /\ wire'[e] = wire[e]
        \/ channel'[e] = "closed" /\ wire'[e] = wire[e] \o two
    BY DEF TypeOK, ClientLeaves, ErrorCaught, Deactivate
  <1>4. CASE e # c
    <2>1. Elsewhere(c)
      BY <1>1, <1>2, <1>4 DEF Elsewhere
    <2> QED
      BY <2>1, ElsewhereKeeps
  <1>5. CASE e = c
    <2> DEFINE s == wire[c]
    <2>1. /\ two \in Seq(Parts)
          /\ Len(two) = 2
          /\ two[1].from = {} /\ two[2].from = {}
      <3>1. Part({}, "500") \in Parts /\ Part({}, "end") \in Parts
        BY DEF Part, Parts, Statuses
      <3>2. Part({}, "500").from = {} /\ Part({}, "end").from = {}
        BY DEF Part
      <3> HIDE DEF Part
      <3> QED
        BY <3>1, <3>2
    <2>2. s \in Seq(Parts)
      BY DEF TypeOK
    <2> HIDE DEF two, s
    <2>3. /\ DOMAIN s = 1..Len(s) /\ Len(s) \in Nat
          /\ s \o two \in Seq(Parts)
          /\ Len(s \o two) = Len(s) + 2
          /\ DOMAIN (s \o two) = 1..(Len(s) + 2)
          /\ \A i \in 1..Len(s) : (s \o two)[i] = s[i]
          /\ (s \o two)[Len(s) + 1] = two[1]
          /\ (s \o two)[Len(s) + 2] = two[2]
      <3>1. DOMAIN s = 1..Len(s) /\ Len(s) \in Nat
        BY <2>2, LenProperties
      <3>2. /\ s \o two \in Seq(Parts)
            /\ Len(s \o two) = Len(s) + Len(two)
            /\ \A i \in 1..(Len(s) + Len(two)) :
                  (s \o two)[i] = IF i <= Len(s) THEN s[i] ELSE two[i - Len(s)]
        BY <2>1, <2>2, ConcatProperties
      <3>3. DOMAIN (s \o two) = 1..Len(s \o two)
        BY <3>2, LenProperties
      <3>4. \A i \in 1..Len(s) : (s \o two)[i] = s[i]
        BY <2>1, <3>1, <3>2
      <3>5. (s \o two)[Len(s) + 1] = two[1] /\ (s \o two)[Len(s) + 2] = two[2]
        BY <2>1, <3>1, <3>2
      <3> QED
        BY <2>1, <3>1, <3>2, <3>3, <3>4, <3>5
    <2>4. \A i \in DOMAIN (s \o two) :
             (i \in DOMAIN s /\ (s \o two)[i] = s[i]) \/ (s \o two)[i].from = {}
      BY <2>1, <2>3
    <2>5. ~Undisturbed(c)'
      <3>1. CASE channel'[c] = "left"
        BY <3>1 DEF Undisturbed
      <3>2. CASE wire'[c] = s \o two
        <4>1. Len(s) + 1 \in DOMAIN (s \o two) /\ (s \o two)[Len(s) + 1].from = {}
          BY <2>1, <2>3
        <4> QED
          BY <3>2, <4>1 DEF Undisturbed
      <3> QED
        BY <1>3, <1>5, <3>1, <3>2 DEF s
    <2>6. Delivered(c)'
      BY <1>1, <1>2, <1>5 DEF ConnectionInv, Delivered
    <2>7. ASSUME NEW q \in Requests PROVE Sender(c, q)' /\ Sole(c, q)'
      <3>1. Sender(c, q)
        BY DEF ConnectionInv
      <3>2. \A i \in DOMAIN wire'[c] : wire'[c][i].from = {q} =>
               i \in DOMAIN wire[c] /\ wire'[c][i] = wire[c][i]
        <4>1. {} # {q}
          OBVIOUS
        <4> QED
          BY <1>3, <1>5, <2>4, <4>1 DEF s
      <3>3. Sender(c, q)'
        BY <1>1, <3>1, <3>2 DEF Sender
      <3> QED
        BY <2>5, <3>3 DEF Sole
    <2> QED
      BY <2>5, <2>6, <2>7 DEF ConnectionInv
  <1> QED
    BY <1>4, <1>5

\* Every step keeps what the invariant says of the connections.
LEMMA StepKeepsConnections ==
    ASSUME IInv, [Next]_vars, NEW c \in Connections
    PROVE  ConnectionInv(c)'
  <1> USE DEF IInv
  <1>1. ConnectionInv(c)
    OBVIOUS
  <1>2. ASSUME NEW r \in Requests,
               HandlerIsGone(r) \/ RespondPlainly(r) \/ Respond(r) \/ Start(r) \/ OnEngine(r)
        PROVE  ConnectionInv(c)'
    <2>1. /\ UNCHANGED <<carrier, channel, received, pendingTask, wire>>
          /\ pc[r] \in {"respond", "submitted", "prepare", "prefill", "streaming", "draining",
                        "concluding"}
      BY <1>2 DEF HandlerIsGone, RespondPlainly, Respond, Start, OnEngine, Prepare, Prefill,
                  LoopEnds, AwaitTask, Conclude, connection
    <2>2. /\ pc'[r] \in {"done", "head", "submit", "prepare", "prefill", "streaming", "draining",
                         "concluding", "unwinding"}
          /\ pc'[r] = "done" => channel[carrier[r]] # "active"
      BY <1>2 DEF TypeOK, HandlerIsGone, RespondPlainly, Respond, Start, OnEngine, Prepare,
                  Prefill, LoopEnds, AwaitTask, Conclude, Throw, Goto
    <2>3. ASSUME NEW q \in Requests \ {r} PROVE Untouched(q)
      <3>1. Task(r)
        BY <1>2 DEF Task
      <3> QED
        BY <3>1, OthersUntouched
    <2>4. Quiet(r)
      BY <2>1, <2>2, <2>3 DEF Quiet, Untouched
    <2> QED
      BY <1>1, <2>4, QuietKeeps
  <1>3. ASSUME NEW r \in Requests,
               Submit(r) \/ SubmitRefused(r) \/ LeaveQueue(r) \/ CancelBeforeStart(r) \/ Release(r)
        PROVE  ConnectionInv(c)'
    <2>1. /\ UNCHANGED <<carrier, channel, received, pendingTask, wire>>
          /\ pc[r] \in {"submit", "submitted", "unwinding"}
          /\ pc'[r] \in {"submitted", "head"}
      <3>1. \A e, how : Finish(r, e, how) =>
               /\ UNCHANGED <<carrier, channel, received, pendingTask, wire>>
               /\ pc'[r] = "head"
        BY DEF TypeOK, Finish, Throw, Goto, connection
      <3>2. CASE Submit(r)
        BY <3>2 DEF TypeOK, Submit, Goto, connection
      <3>3. CASE SubmitRefused(r) \/ LeaveQueue(r) \/ CancelBeforeStart(r) \/ Release(r)
        BY <3>1, <3>3 DEF SubmitRefused, LeaveQueue, CancelBeforeStart, Release
      <3> QED
        BY <1>3, <3>2, <3>3
    <2>2. \A q \in Requests \ {r} : Untouched(q)
      BY <1>3, AdmissionLeavesOthers
    <2>3. Quiet(r)
      BY <2>1, <2>2 DEF Quiet, Untouched
    <2> QED
      BY <1>1, <2>3, QuietKeeps
  <1>4. ASSUME NEW r \in Requests, Receive(r) \/ Write(r) \/ Close(r)
        PROVE  ConnectionInv(c)'
    BY <1>1, <1>4, ReceiveKeeps, WriteKeeps, CloseKeeps
  <1>5. ASSUME NEW e \in Connections, ClientLeaves(e) \/ ErrorCaught(e)
        PROVE  ConnectionInv(c)'
    BY <1>1, <1>5, EndKeeps
  <1>6. ASSUME \/ UNCHANGED vars
               \/ \E r \in Requests : StopDecode(r, TRUE) \/ StopDecode(r, FALSE) \/ Drain(r)
        PROVE  ConnectionInv(c)'
    <2>1. UNCHANGED <<connection, task, books>>
      BY <1>6 DEF vars, StopDecode, Drain
    <2>2. Elsewhere(c)
      BY <2>1 DEF connection, task, books, Elsewhere
    <2> QED
      BY <1>1, <2>2, ElsewhereKeeps
  <1> QED
    BY <1>2, <1>3, <1>4, <1>5, <1>6 DEF Next, Task, OnEngine, Quiescent

-----------------------------------------------------------------------------
(* The invariant holds in every behaviour                                  *)

\* The first states are in the invariant: nobody has sent anything.
LEMMA InitInv == Init => IInv
  <1> SUFFICES ASSUME Init PROVE IInv
    OBVIOUS
  <1>1. TypeOK
    BY InitType
  <1>2. AdmissionOK
    <2>1. {r \in Requests : status[r] = "holding"} = {}
      BY DEF Init, Admission!Init
    <2> QED
      <3>1. Cardinality({r \in Requests : status[r] = "holding"}) <= MaxActiveGenerations
        BY <2>1, FS_EmptySet, SlotAssumption
      <3>2. status = [r \in Requests |-> "outside"] /\ withdrawn = {}
        BY DEF Init, Admission!Init
      <3> QED
        BY <3>1, <3>2 DEF AdmissionOK
  <1>3. ASSUME NEW r \in Requests PROVE RunInv(r)
    <2>1. <<>> # <<"finished">>
      OBVIOUS
    <2> QED
      BY <2>1 DEF Init, Admission!Init, RunInv, Placed, Working, CancelledWithItsConnection,
                  Recorded, Answering, isCancelled
  <1>4. ASSUME NEW c \in Connections PROVE ConnectionInv(c)
    <2>1. \A q : <<>> # <<q>>
      OBVIOUS
    <2>2. DOMAIN <<>> = {}
      OBVIOUS
    <2> QED
      BY <2>1, <2>2 DEF Init, ConnectionInv, Delivered, Sender, Sole
  <1> QED
    BY <1>1, <1>2, <1>3, <1>4 DEF IInv

\* And every step stays in it.
LEMMA NextInv == IInv /\ [Next]_vars => IInv'
  <1> SUFFICES ASSUME IInv, [Next]_vars PROVE IInv'
    OBVIOUS
  <1>1. TypeOK'
    BY NextType
  <1>2. AdmissionOK'
    <2>1. TypeOK /\ AdmissionOK
      BY DEF IInv
    <2>2. CASE Admission!Next
      BY <2>1, <2>2, ContractKeepsSlots
    <2>3. CASE UNCHANGED admission
      BY <2>1, <2>3 DEF AdmissionOK, admission
    <2> QED
      BY <2>1, <2>2, <2>3, StepIsAdmission
  <1>3. \A r \in Requests : RunInv(r)'
    BY StepKeepsRuns
  <1>4. \A c \in Connections : ConnectionInv(c)'
    BY StepKeepsConnections
  <1> QED
    BY <1>1, <1>2, <1>3, <1>4 DEF IInv

\* The inductive invariant of the buffered runs and their connections.
THEOREM Invariance == Spec => []IInv
  BY InitInv, NextInv, PTL DEF Spec

-----------------------------------------------------------------------------
(* What it means for the client and for the slot                           *)

\* Every variable has its type in every behaviour.
THEOREM TypeCorrect == Spec => []TypeOK
  <1>1. IInv => TypeOK
    BY DEF IInv
  <1> QED
    BY <1>1, Invariance, PTL

\* Prefill, decode and drain run under a slot, also for a client that went away, so the
\* generations of buffered runs never overlap beyond the number of slots.
THEOREM GenerationsDoNotOverlap == Spec => []GpuUnderSlot
  <1>1. IInv => GpuUnderSlot
    <2> SUFFICES ASSUME IInv PROVE GpuUnderSlot
      OBVIOUS
    <2> DEFINE Slots == {r \in Requests : status[r] = "holding"}
    <2>1. \A r \in OnGPU : r \in Requests /\ status[r] = "holding"
      BY DEF IInv, RunInv, Placed, Working, OnGPU
    <2>2. IsFiniteSet(Slots) /\ OnGPU \subseteq Slots
      BY <2>1, RequestsAssumption, FS_Subset
    <2>3. /\ Cardinality(OnGPU) <= Cardinality(Slots)
          /\ Cardinality(OnGPU) \in Nat /\ Cardinality(Slots) \in Nat
      BY <2>2, FS_Subset, FS_CardinalityType
    <2>4. Cardinality(Slots) <= MaxActiveGenerations
      BY DEF IInv, AdmissionOK
    <2> HIDE DEF Slots
    <2>5. Cardinality(OnGPU) <= MaxActiveGenerations
      BY <2>3, <2>4, SlotAssumption
    <2> QED
      BY <2>1, <2>5 DEF GpuUnderSlot
  <1> QED
    BY <1>1, Invariance, PTL

\* What a client reads is what happened: a 200 is a run that was completed and logged as
\* finished, a 429 or 503 one that never ran, and no answer comes of a cancellation.
THEOREM AnswersAreHonest == Spec => []AnswerIsHonest
  <1>1. IInv => AnswerIsHonest
    <2> SUFFICES ASSUME IInv, NEW r \in Requests
                 PROVE  /\ truncated[r] => log[r] # <<"finished">> /\ outcome[r] # "completed"
                        /\ Answers(r, {"200"})
                              => /\ outcome[r] = "completed" /\ log[r] = <<"finished">>
                                 /\ ~truncated[r] /\ ~rejected[r]
                        /\ Answers(r, {"429", "503"}) => outcome[r] = "notRun" /\ log[r] = <<>>
                        /\ Answers(r, Statuses) => error[r] # "cancellation"
      BY DEF AnswerIsHonest
    <2>1. RunInv(r)
      BY DEF IInv
    <2>2. ASSUME NEW statuses \in SUBSET Statuses, Answers(r, statuses)
          PROVE  /\ reply[r] \in statuses
                 /\ error[r] # "cancellation"
                 /\ reply[r] = "200" => outcome[r] = "completed"
      <3>1. PICK c \in Connections, s \in statuses :
               \E i \in 1..Len(wire[c]) : wire[c][i] = Part({r}, s)
        BY <2>2 DEF Answers, Contains
      <3>i. PICK i \in 1..Len(wire[c]) : wire[c][i] = Part({r}, s)
        BY <3>1
      <3>2. i \in DOMAIN wire[c]
        BY LenProperties DEF IInv, TypeOK
      <3>3. wire[c][i].from = {r} /\ wire[c][i].part = s /\ s # "end"
        BY <3>i DEF Part, Statuses
      <3> QED
        BY <3>2, <3>3 DEF IInv, ConnectionInv, Sender
    <2>3. {"200"} \subseteq Statuses /\ {"429", "503"} \subseteq Statuses
      BY DEF Statuses
    <2> QED
      BY <2>1, <2>2, <2>3 DEF RunInv, Recorded
  <1> QED
    BY <1>1, Invariance, PTL

\* A request that had its connection for itself, and whose client stayed, got its whole
\* response and nothing else, and then the connection was closed.
THEOREM AnswersAreWhole == Spec => []WholeAnswer
  <1>1. IInv => WholeAnswer
    <2> SUFFICES ASSUME IInv, NEW r \in Requests, received[carrier[r]] = <<r>>,
                        pc[r] = "done", Undisturbed(carrier[r])
                 PROVE  /\ channel[carrier[r]] = "closed"
                        /\ wire[carrier[r]] = <<Part({r}, reply[r]), Part({r}, "end")>>
      BY DEF WholeAnswer
    <2>1. carrier[r] \in Connections
      BY CarriersAssumption DEF IInv, TypeOK
    <2>2. Sole(carrier[r], r)
      BY <2>1 DEF IInv, ConnectionInv
    <2> QED
      BY <2>2 DEF Sole
  <1> QED
    BY <1>1, Invariance, PTL

\* Buffered runs use admission only through its contract, and so does the end of a
\* connection, which withdraws at most one of its own requests.
THEOREM UsesTheContract == Spec => Admission!Spec
  <1>1. Init => Admission!Init
    BY DEF Init
  <1> QED
    BY <1>1, TypeCorrect, StepIsAdmission, PTL
       DEF Spec, Admission!Spec, admission, Admission!vars

=============================================================================
