--------------------------- MODULE StreamRun_proofs -------------------------
(***************************************************************************)
(* Theorems about StreamRun for every finite set of requests, every number *)
(* of slots, every queue bound and any number of events of a generation.   *)
(***************************************************************************)
EXTENDS StreamRun, FiniteSetTheorems, SequenceTheorems, TLAPS

-----------------------------------------------------------------------------
(* The inductive invariant                                                 *)

\* The part of admission that the invariants read.
AdmissionOK ==
    /\ status \in [Requests -> {"outside", "queued", "holding", "gone"}]
    /\ withdrawn \subseteq Requests
    /\ Cardinality({r \in Requests : status[r] = "holding"}) <= MaxActiveGenerations

Working == {"prepare", "prefill", "streaming", "finishing", "draining", "settle",
            "fallback", "logging", "unwinding"}

\* Where the producer is tells its place in the queue and what vmlx may be doing: once
\* the decode loop has ended nothing of it changes but the drain.
Placed(r) ==
    /\ pc[r] = "submit" <=> status[r] = "outside"
    /\ pc[r] = "submitted" => status[r] \in {"queued", "holding"}
    /\ pc[r] \in Working => status[r] = "holding"
    /\ pc[r] \in {"closing", "done"} => status[r] = "gone"
    /\ pc[r] \in {"submit", "submitted", "prepare"} => gpu[r] = "idle"
    /\ gpu[r] = "prefill" <=> pc[r] = "prefill"
    /\ gpu[r] \in {"decode", "drain"} => pc[r] \in {"streaming", "finishing", "draining"}
    /\ pc[r] = "finishing" /\ info[r] # "handled" => gpu[r] \notin {"decode", "drain"}
    /\ gpu[r] \in {"idle", "prefill", "decode"}
          => info[r] = "none" /\ ~truncated[r] /\ ~rejected[r]

\* A producer is cancelled by nothing but a client that went away before its stream
\* had ended; whatever looks like a cancellation later comes from there.
CancelledByClient(r) ==
    /\ isCancelled(r) => stream[r].end = "cancelled"
    /\ stream[r].end = "cancelled" => ~connected[r]
    /\ truncated[r] => isCancelled(r)
    /\ terminalCancelled[r] => isCancelled(r)
    /\ error[r] = "cancellation" => isCancelled(r)
    /\ pc[r] = "fallback" /\ rejected[r] => isCancelled(r)

\* A stream is ended once: by the body with "finished", by the consumer, or at the very
\* end by what the producer throws.
EndedOnce(r) ==
    /\ stream[r].end \in {"open", "finished", "cancelled", "engine", "admission"}
    /\ stream[r].end = "open" =>
          /\ pc[r] # "done"
          /\ info[r] = "handled" => pc[r] = "finishing"
          /\ pc[r] \in {"logging", "unwinding", "closing"} => error[r] # "none"
    /\ error[r] # "none" => pc[r] \in {"unwinding", "closing", "done"}
    /\ pc[r] \notin {"unwinding", "closing", "done"} => log[r] = <<>>
    /\ pc[r] \notin {"closing", "done"} => outcome[r] = "none"

HasFinish(s) == \E i \in DOMAIN s : s[i] = "finish"

\* The client has its finish frame, or will read it.
Promised(r) == HasFinish(stream[r].buffer) \/ HasFinish(wire[r])

\* The run behind a finish frame was decided when the frame was: what is left of it
\* cannot fail, be cancelled or be recorded as anything else.
PromiseKept(r) ==
    /\ pc[r] = "finishing" /\ ~terminalCancelled[r] /\ stream[r].end = "open"
          => ~truncated[r] /\ ~rejected[r] /\ gpu[r] # "decode"
    /\ Promised(r) =>
          /\ stream[r].end = "finished"
          /\ ~truncated[r] /\ ~rejected[r] /\ gpu[r] # "decode"
          /\ ~terminalCancelled[r] /\ error[r] = "none"
          /\ pc[r] \in {"draining", "settle", "logging", "unwinding", "closing", "done"}
          /\ pc[r] \in {"draining", "settle"} => info[r] = "handled"
          /\ pc[r] \in {"unwinding", "closing", "done"} => log[r] = <<"finished">>
          /\ pc[r] \in {"closing", "done"} => outcome[r] = "completed"
    /\ stream[r].end = "finished" /\ connected[r] => Promised(r)

\* Nothing is buffered behind a finish event.
FinishIsLast(r) ==
    /\ \A i \in DOMAIN stream[r].buffer :
          stream[r].buffer[i] = "finish" => i = Len(stream[r].buffer)
    /\ HasFinish(wire[r]) => stream[r].buffer = <<>>

Heads == {"200", "errorStatus"}
Verdicts == {"finish", "stream_error", "errorStatus"}

\* The shape of a response: one head first, at most one verdict, last or before the end.
WireShape(r) ==
    /\ \A i \in DOMAIN wire[r] : wire[r][i] \in Heads <=> i = 1
    /\ \A i \in DOMAIN wire[r] : wire[r][i] = "end" => i = Len(wire[r])
    /\ \A i \in DOMAIN wire[r] : wire[r][i] \in Verdicts => Len(wire[r]) <= i + 1
    /\ \A i, j \in DOMAIN wire[r] :
          wire[r][i] \in Verdicts /\ wire[r][j] \in Verdicts => i = j
    /\ consumer[r] = "reading" => \A i \in DOMAIN wire[r] :
          /\ wire[r][i] \in {"200", "delta", "finish"}
          /\ wire[r][i] = "finish" => i = Len(wire[r])
    /\ consumer[r] = "closed" /\ connected[r]
          => \E i \in DOMAIN wire[r] : wire[r][i] \in Verdicts

RunInv(r) ==
    /\ Placed(r)
    /\ CancelledByClient(r)
    /\ EndedOnce(r)
    /\ PromiseKept(r)
    /\ FinishIsLast(r)
    /\ WireShape(r)

IInv ==
    /\ TypeOK
    /\ AdmissionOK
    /\ \A r \in Requests : RunInv(r)

-----------------------------------------------------------------------------
(* Admission                                                               *)

Contract == INSTANCE AdmissionContract_proofs

\* The contract as its theorems state it is the one the requests use.
LEMMA SameContract ==
    /\ Contract!IsFiniteSet(Requests)
    /\ AdmissionOK <=> Contract!SlotsOK
    /\ Admission!Next <=> Contract!Next
    /\ \A r, c : (Admission!Admit(r, c) <=> Contract!Admit(r, c))
    /\ \A r, c : (Admission!Join(r, c) <=> Contract!Join(r, c))
    /\ \A r, c : (Admission!TurnAway(r, c) <=> Contract!TurnAway(r, c))
    /\ \A r : (Admission!Leave(r) <=> Contract!Leave(r))
    /\ \A r : (Admission!Vacate(r) <=> Contract!Vacate(r))
    /\ \A r : (Admission!Withdraw(r) <=> Contract!Withdraw(r))
    /\ \A r, w : (Admission!HandOver(r, w) <=> Contract!HandOver(r, w))
  <1>1. Contract!IsFiniteSet(Requests)
    BY RequestsAssumption DEF IsFiniteSet, Contract!IsFiniteSet
  <1>2. \A S : Contract!Cardinality(S) = Cardinality(S)
    BY DEF Cardinality, Contract!Cardinality
  <1>3. \A S : Admission!Cardinality(S) = Cardinality(S)
    BY DEF Cardinality, Admission!Cardinality
  <1>4. Admission!Slots = Contract!Slots /\ Admission!Queue = Contract!Queue
    BY DEF Admission!Slots, Contract!Slots, Admission!Queue, Contract!Queue
  <1>5. AdmissionOK <=> Contract!SlotsOK
    BY <1>2 DEF AdmissionOK, Contract!SlotsOK, Contract!Slots
  <1>6. \A r, c : (Admission!Admit(r, c) <=> Contract!Admit(r, c))
    BY <1>2, <1>3, <1>4
       DEF Admission!Admit, Contract!Admit, Admission!Arrive, Contract!Arrive
  <1>7. \A r, c : (Admission!Join(r, c) <=> Contract!Join(r, c))
    BY <1>2, <1>3, <1>4
       DEF Admission!Join, Contract!Join, Admission!Arrive, Contract!Arrive
  <1>8. \A r, c : (Admission!TurnAway(r, c) <=> Contract!TurnAway(r, c))
    BY <1>2, <1>3, <1>4
       DEF Admission!TurnAway, Contract!TurnAway, Admission!Arrive, Contract!Arrive
  <1>9. \A r : (Admission!Leave(r) <=> Contract!Leave(r))
    BY <1>4 DEF Admission!Leave, Contract!Leave
  <1>10. \A r : (Admission!Vacate(r) <=> Contract!Vacate(r))
    BY <1>4 DEF Admission!Vacate, Contract!Vacate
  <1>11. \A r : (Admission!Withdraw(r) <=> Contract!Withdraw(r))
    BY DEF Admission!Withdraw, Contract!Withdraw
  <1>12. \A r, w : (Admission!HandOver(r, w) <=> Contract!HandOver(r, w))
    BY <1>4 DEF Admission!HandOver, Contract!HandOver
  <1>13. Admission!Next <=> Contract!Next
    BY <1>6, <1>7, <1>8, <1>9, <1>10, <1>11, <1>12 DEF Admission!Next, Contract!Next
  <1> QED
    BY <1>1, <1>5, <1>6, <1>7, <1>8, <1>9, <1>10, <1>11, <1>12, <1>13

\* A step of the contract keeps the slots within their number.
LEMMA ContractKeepsSlots ==
    ASSUME AdmissionOK, Admission!Next
    PROVE  AdmissionOK'
  <1>1. Contract!SlotsOK /\ Contract!Next
    BY SameContract
  <1>2. Contract!SlotsOK'
    BY <1>1, SameContract, SlotAssumption, Contract!StepKeepsSlots
  <1>3. \A S : Contract!Cardinality(S) = Cardinality(S)
    BY DEF Cardinality, Contract!Cardinality
  <1> QED
    BY <1>2, <1>3 DEF AdmissionOK, Contract!SlotsOK, Contract!Slots

\* Every step of a streaming run is, for admission, a step of the contract or none.
LEMMA StepIsAdmission == [Next]_vars => [Admission!Next]_admission
  <1> SUFFICES ASSUME [Next]_vars
               PROVE  Admission!Next \/ UNCHANGED admission
    OBVIOUS
  <1>1. ASSUME NEW r \in Requests, Submit(r) \/ SubmitRefused(r) \/ LeaveQueue(r)
        PROVE  Admission!Next
    BY <1>1 DEF Submit, SubmitRefused, LeaveQueue, Admission!Next
  <1>2. ASSUME NEW r \in Requests, CancelBeforeStart(r) \/ Release(r)
        PROVE  Admission!Next
    BY <1>2 DEF CancelBeforeStart, Release, GiveSlotBack, Admission!Next
  <1>3. ASSUME NEW r \in Requests, FinishStream(r) \/ StreamCancelled(r)
        PROVE  Admission!Next \/ UNCHANGED admission
    <2>1. ASSUME NEW how, OnTermination(r, how)
          PROVE  Admission!Next \/ UNCHANGED admission
      BY <2>1 DEF OnTermination, Admission!Next
    <2> QED
      BY <1>3, <2>1 DEF FinishStream, StreamCancelled
  <1>4. ASSUME NEW r \in Requests,
               \/ Start(r) \/ Prepare(r) \/ Prefill(r) \/ HandleItem(r) \/ HandleInfo(r)
               \/ LoopEnds(r) \/ AwaitTask(r) \/ Settle(r) \/ Fallback(r) \/ Log(r)
               \/ CloseStream(r) \/ StopDecode(r, TRUE) \/ StopDecode(r, FALSE)
               \/ Drain(r) \/ ReadEvent(r) \/ ReadEnd(r) \/ Disconnect(r)
        PROVE  UNCHANGED admission
    BY <1>4 DEF Start, Prepare, Prefill, HandleItem, HandleInfo, LoopEnds, AwaitTask,
                Settle, Fallback, Log, CloseStream, StopDecode, Drain, ReadEvent, ReadEnd,
                Disconnect
  <1>5. CASE UNCHANGED vars
    BY <1>5 DEF vars
  <1> QED
    BY <1>1, <1>2, <1>3, <1>4, <1>5
       DEF Next, Producer, OnEngine, Consumer, Quiescent

\* What admission does to a request that is not the one that acts: a waiter may be
\* handed a slot, and that is all.
LEMMA AdmissionOfOthers ==
    ASSUME AdmissionOK, NEW r \in Requests, NEW q \in Requests, q # r,
           \/ \E c : Admission!Admit(r, c) \/ Admission!Join(r, c) \/ Admission!TurnAway(r, c)
           \/ Admission!Leave(r) \/ GiveSlotBack(r) \/ Admission!Withdraw(r)
    PROVE  /\ status'[q] = status[q] \/ (status[q] = "queued" /\ status'[q] = "holding")
           /\ q \in withdrawn' <=> q \in withdrawn
  <1>1. /\ Contract!SlotsOK
        /\ \/ \E c : Contract!Admit(r, c) \/ Contract!Join(r, c) \/ Contract!TurnAway(r, c)
           \/ Contract!Leave(r) \/ Contract!Vacate(r) \/ Contract!Withdraw(r)
           \/ \E w \in Requests : Contract!HandOver(r, w)
    BY SameContract DEF GiveSlotBack
  <1> QED
    BY <1>1, Contract!StepOfOthers

\* What it does to the one that acts.
LEMMA AdmissionOfSelf ==
    ASSUME AdmissionOK, NEW r \in Requests
    PROVE  /\ \A c : Admission!Admit(r, c) =>
                 status[r] = "outside" /\ status'[r] = "holding" /\ withdrawn' = withdrawn
           /\ \A c : Admission!Join(r, c) =>
                 status[r] = "outside" /\ status'[r] = "queued" /\ withdrawn' = withdrawn
           /\ \A c : Admission!TurnAway(r, c) =>
                 status[r] = "outside" /\ status'[r] = "gone" /\ withdrawn' = withdrawn
           /\ Admission!Leave(r) =>
                 status[r] = "queued" /\ status'[r] = "gone" /\ withdrawn' = withdrawn
           /\ GiveSlotBack(r) =>
                 status[r] = "holding" /\ status'[r] = "gone" /\ withdrawn' = withdrawn
           /\ Admission!Withdraw(r) => status' = status /\ withdrawn' = withdrawn \cup {r}
  <1>1. Contract!SlotsOK
    BY SameContract
  <1> QED
    BY <1>1, SameContract, Contract!StepOfSelf DEF GiveSlotBack

-----------------------------------------------------------------------------
(* Typing                                                                  *)

\* The model starts in a typed state.
LEMMA InitType == Init => TypeOK
  BY ItemsAssumption DEF Init, TypeOK, PCs, Errors, Streams, LogLines

\* What is yielded is an event, and what ends a stream is an end.
LEMMA StreamType ==
    ASSUME NEW r \in Requests, NEW s \in [Requests -> Streams]
    PROVE  /\ \A event \in {"visible", "invisible", "finish"} :
                 stream = s => Yield(r, event) \in [Requests -> Streams]
           /\ \A how \in {"finished", "cancelled"} \cup Errors :
                 [s EXCEPT ![r] = EndStream(@, how)] \in [Requests -> Streams]
  <1>1. s[r] \in Streams /\ s[r].buffer \in Seq({"visible", "invisible", "finish"})
    BY DEF Streams
  <1>2. ASSUME NEW event \in {"visible", "invisible", "finish"}, stream = s
        PROVE  Yield(r, event) \in [Requests -> Streams]
    <2>1. Append(s[r].buffer, event) \in Seq({"visible", "invisible", "finish"})
      BY <1>1, AppendProperties
    <2>2. [s[r] EXCEPT !.buffer = Append(@, event)] \in Streams
      BY <1>1, <2>1 DEF Streams
    <2> QED
      BY <1>2, <2>2 DEF Yield
  <1>3. ASSUME NEW how \in {"finished", "cancelled"} \cup Errors
        PROVE  [s EXCEPT ![r] = EndStream(@, how)] \in [Requests -> Streams]
    <2>1. EndStream(s[r], how) \in Streams
      BY <1>1 DEF EndStream, Streams
    <2> QED
      BY <2>1
  <1> QED
    BY <1>2, <1>3

\* One part after another are two parts.
LEMMA TwoParts == ASSUME NEW a, NEW b PROVE <<a>> \o <<b>> = <<a, b>>
  <1> DEFINE s == <<a>> \o <<b>>
  <1>1. <<a>> \in Seq({a, b}) /\ <<b>> \in Seq({a, b}) /\ <<a, b>> \in Seq({a, b})
    OBVIOUS
  <1>2. /\ s \in Seq({a, b})
        /\ Len(s) = Len(<<a>>) + Len(<<b>>)
        /\ \A i \in 1..(Len(<<a>>) + Len(<<b>>)) :
              s[i] = IF i <= Len(<<a>>) THEN <<a>>[i] ELSE <<b>>[i - Len(<<a>>)]
    BY <1>1, ConcatProperties, Zenon
  <1>3. Len(s) = 2 /\ s[1] = a /\ s[2] = b
    BY <1>2
  <1> HIDE DEF s
  <1>4. Len(s) = Len(<<a, b>>) /\ \A i \in 1..Len(s) : s[i] = <<a, b>>[i]
    BY <1>3
  <1>5. s = <<a, b>>
    BY <1>1, <1>2, <1>4, SeqEqual
  <1> QED
    BY <1>5 DEF s

\* A part, with the head before it if it is the first.
Headed(r, part) == IF wire[r] = <<>> THEN <<"200", part>> ELSE <<part>>

\* streamSSE puts the head before a part exactly when nothing was sent yet.
LEMMA HeadFirst ==
    ASSUME NEW r, NEW part PROVE ResponseHead(r) \o <<part>> = Headed(r, part)
  <1>1. <<>> \o <<part>> = <<part>>
    OBVIOUS
  <1>2. CASE wire[r] = <<>>
    BY <1>2, TwoParts DEF ResponseHead, Headed
  <1>3. CASE wire[r] # <<>>
    BY <1>1, <1>3 DEF ResponseHead, Headed
  <1> QED
    BY <1>2, <1>3

\* A part with its head is made of frames.
LEMMA HeadedType ==
    ASSUME NEW r, NEW part \in Frames PROVE Headed(r, part) \in Seq(Frames)
  <1>1. "200" \in Frames
    BY DEF Frames
  <1>2. <<part>> \in Seq(Frames) /\ <<"200", part>> \in Seq(Frames)
    BY <1>1
  <1> QED
    BY <1>2 DEF Headed

\* What streamSSE writes for an event.
LEMMA ReadEventSends ==
    ASSUME TypeOK, NEW r \in Requests, ReadEvent(r)
    PROVE  \/ stream[r].buffer[1] = "visible" /\ Send(r, Headed(r, "delta"))
           \/ stream[r].buffer[1] = "finish" /\ Send(r, Headed(r, "finish"))
           \/ stream[r].buffer[1] = "invisible" /\ Send(r, <<>>)
  <1>1. stream[r].buffer[1] \in {"visible", "invisible", "finish"}
    <2>1. stream[r].buffer \in Seq({"visible", "invisible", "finish"})
      BY DEF TypeOK, Streams
    <2> QED
      BY <2>1 DEF ReadEvent
  <1>2. \A part : ResponseHead(r) \o <<part>> = Headed(r, part)
    BY HeadFirst
  <1>3. CASE stream[r].buffer[1] = "invisible"
    BY <1>3 DEF ReadEvent, SseFrame
  <1>4. CASE stream[r].buffer[1] = "visible"
    <2>1. SseFrame(stream[r].buffer[1]) = <<"delta">> /\ <<"delta">> # <<>>
      BY <1>4 DEF SseFrame
    <2> QED
      BY <1>2, <1>4, <2>1 DEF ReadEvent
  <1>5. CASE stream[r].buffer[1] = "finish"
    <2>1. SseFrame(stream[r].buffer[1]) = <<"finish">> /\ <<"finish">> # <<>>
      BY <1>5 DEF SseFrame
    <2> QED
      BY <1>2, <1>5, <2>1 DEF ReadEvent
  <1> QED
    BY <1>1, <1>3, <1>4, <1>5

\* What it writes when the stream has ended.
LEMMA ReadEndSends ==
    ASSUME NEW r \in Requests, ReadEnd(r)
    PROVE  \/ /\ stream[r].end \in {"finished", "cancelled"}
              /\ Send(r, Headed(r, "end"))
           \/ stream[r].end = "cancellation" /\ Send(r, <<>>)
           \/ /\ stream[r].end \notin {"finished", "cancelled", "cancellation"}
              /\ wire[r] = <<>>
              /\ Send(r, <<"errorStatus", "end">>)
           \/ /\ stream[r].end \notin {"finished", "cancelled", "cancellation"}
              /\ wire[r] # <<>>
              /\ Send(r, <<"stream_error", "end">>)
  <1>1. ResponseHead(r) \o <<"end">> = Headed(r, "end")
    BY HeadFirst
  <1> QED
    BY <1>1 DEF ReadEnd, FailureResponse

\* What a client is sent is made of frames.
LEMMA SendType ==
    ASSUME TypeOK, NEW r \in Requests, NEW parts \in Seq(Frames), Send(r, parts)
    PROVE  wire' \in [Requests -> Seq(Frames)]
  BY ConcatProperties DEF TypeOK, Send

\* Every action keeps the type of every variable.
LEMMA NextType == IInv /\ [Next]_vars => TypeOK'
  <1> SUFFICES ASSUME IInv, [Next]_vars PROVE TypeOK'
    OBVIOUS
  <1>0. TypeOK
    BY DEF IInv
  <1> USE <1>0 DEF TypeOK
  <1>1. ASSUME NEW r \in Requests, Submit(r) \/ Start(r) \/ LoopEnds(r) \/ AwaitTask(r)
        PROVE  TypeOK'
    BY <1>1 DEF Submit, Start, LoopEnds, AwaitTask, Goto, PCs, vmlx, client, books
  <1>2. ASSUME NEW r \in Requests,
               SubmitRefused(r) \/ LeaveQueue(r) \/ CancelBeforeStart(r)
        PROVE  TypeOK'
    <2>1. PICK e \in {"cancellation", "admission"} : Refuse(r, e)
      BY <1>2 DEF SubmitRefused, LeaveQueue, CancelBeforeStart
    <2>2. pc' \in [Requests -> PCs] /\ error' \in [Requests -> Errors]
      BY <2>1 DEF Refuse, Throw, Goto, PCs, Errors
    <2> QED
      BY <2>1, <2>2 DEF Refuse, vmlx, client
  <1>3. ASSUME NEW r \in Requests, Prepare(r) \/ Prefill(r)
        PROVE  TypeOK'
    <2>1. /\ \E label \in {"unwinding", "prefill", "streaming"} :
                pc' = [pc EXCEPT ![r] = label]
          /\ \/ error' = error
             \/ \E e \in {"cancellation", "engine"} : error' = [error EXCEPT ![r] = e]
          /\ \/ gpu' = gpu
             \/ \E g \in {"idle", "prefill", "decode"} : gpu' = [gpu EXCEPT ![r] = g]
      BY <1>3 DEF Prepare, Prefill, Throw, Goto
    <2>2. /\ pc' \in [Requests -> PCs] /\ error' \in [Requests -> Errors]
          /\ gpu' \in [Requests -> {"idle", "prefill", "decode", "drain", "done"}]
      <3>1. \A label \in {"unwinding", "prefill", "streaming"} :
               [pc EXCEPT ![r] = label] \in [Requests -> PCs]
        BY DEF PCs
      <3>2. \A e \in {"cancellation", "engine"} :
               [error EXCEPT ![r] = e] \in [Requests -> Errors]
        BY DEF Errors
      <3>3. \A g \in {"idle", "prefill", "decode"} :
               [gpu EXCEPT ![r] = g]
                  \in [Requests -> {"idle", "prefill", "decode", "drain", "done"}]
        OBVIOUS
      <3>4. pc' \in [Requests -> PCs]
        BY <2>1, <3>1
      <3>5. error' \in [Requests -> Errors]
        BY <2>1, <3>2
      <3>6. gpu' \in [Requests -> {"idle", "prefill", "decode", "drain", "done"}]
        BY <2>1, <3>3
      <3> QED
        BY <3>4, <3>5, <3>6
    <2>3. UNCHANGED <<terminalCancelled, info, truncated, rejected, items, stream, client,
                      books>>
      BY <1>3 DEF Prepare, Prefill
    <2> QED
      BY <2>2, <2>3 DEF client, books
  <1>4. ASSUME NEW r \in Requests, HandleItem(r)
        PROVE  TypeOK'
    <2>1. stream' \in [Requests -> Streams]
      BY <1>4, StreamType DEF HandleItem
    <2>2. items' \in [Requests -> 0..MaxItems]
      BY <1>4, ItemsAssumption DEF HandleItem
    <2> QED
      BY <1>4, <2>1, <2>2 DEF HandleItem, producer, client, books
  <1>5. ASSUME NEW r \in Requests, HandleInfo(r) \/ Settle(r) \/ Fallback(r)
        PROVE  TypeOK'
    <2>1. [terminalCancelled EXCEPT ![r] = isCancelled(r)] \in [Requests -> BOOLEAN]
      BY DEF isCancelled
    <2>2. terminalCancelled' \in [Requests -> BOOLEAN]
      BY <1>5, <2>1 DEF HandleInfo, Settle, Fallback
    <2>3. pc' \in [Requests -> PCs] /\ error' \in [Requests -> Errors]
      BY <1>5 DEF HandleInfo, Settle, Fallback, Throw, Goto, PCs, Errors
    <2>4. info' \in [Requests -> {"none", "pending", "handled", "dropped"}]
      <3>1. \/ info' = info
            \/ \E i \in {"handled", "dropped"} : info' = [info EXCEPT ![r] = i]
        BY <1>5 DEF HandleInfo, Settle, Fallback, vmlx
      <3> QED
        BY <3>1
    <2>5. UNCHANGED <<gpu, truncated, rejected, items, stream, client, books>>
      BY <1>5 DEF HandleInfo, Settle, Fallback, vmlx
    <2> QED
      BY <2>2, <2>3, <2>4, <2>5 DEF client, books
  <1>6. ASSUME NEW r \in Requests, FinishStream(r)
        PROVE  TypeOK'
    <2>1. stream' \in [Requests -> Streams]
      <3>1. Yield(r, "finish") \in [Requests -> Streams]
        BY StreamType
      <3>2. PICK s \in [Requests -> Streams] :
               stream' = [s EXCEPT ![r] = EndStream(@, "finished")]
        BY <1>6, <3>1 DEF FinishStream
      <3> QED
        BY <3>2, StreamType
    <2> QED
      BY <1>6, <2>1 DEF FinishStream, Goto, PCs, vmlx, client, books
  <1>7. ASSUME NEW r \in Requests, Log(r)
        PROVE  TypeOK'
    <2>1. log[r] = <<>>
      BY <1>7 DEF Log, IInv, RunInv, EndedOnce
    <2>2. log' \in [Requests -> LogLines]
      BY <1>7, <2>1 DEF Log, LogLines
    <2> QED
      BY <1>7, <2>2 DEF Log, Goto, PCs, vmlx, client
  <1>8. ASSUME NEW r \in Requests, Release(r)
        PROVE  TypeOK'
    BY <1>8 DEF Release, Goto, PCs, vmlx, client
  <1>9. ASSUME NEW r \in Requests, CloseStream(r) \/ StreamCancelled(r)
        PROVE  TypeOK'
    <2>1. stream' \in [Requests -> Streams]
      <3>1. PICK how \in {"finished", "cancelled"} \cup Errors :
               stream' = [stream EXCEPT ![r] = EndStream(@, how)]
        BY <1>9 DEF CloseStream, StreamCancelled
      <3> QED
        BY <3>1, StreamType
    <2> QED
      BY <1>9, <2>1 DEF CloseStream, StreamCancelled, Goto, PCs, producer, vmlx, client,
                        books
  <1>10. ASSUME NEW r \in Requests, NEW cut \in BOOLEAN,
                StopDecode(r, cut) \/ Drain(r) \/ Disconnect(r)
         PROVE  TypeOK'
    <2>1. \A b \in BOOLEAN : /\ [truncated EXCEPT ![r] = b] \in [Requests -> BOOLEAN]
                             /\ [rejected EXCEPT ![r] = b] \in [Requests -> BOOLEAN]
      OBVIOUS
    <2>2. truncated' \in [Requests -> BOOLEAN] /\ rejected' \in [Requests -> BOOLEAN]
      <3>1. StopDecode(r, cut) => /\ truncated' = [truncated EXCEPT ![r] = cut]
                                  /\ \E b \in BOOLEAN : rejected' = [rejected EXCEPT ![r] = b]
        BY DEF StopDecode
      <3>2. Drain(r) \/ Disconnect(r) => truncated' = truncated /\ rejected' = rejected
        BY DEF Drain, Disconnect, vmlx
      <3>3. CASE StopDecode(r, cut)
        <4>1. PICK b \in BOOLEAN : rejected' = [rejected EXCEPT ![r] = b]
          BY <3>1, <3>3
        <4> QED
          BY <2>1, <3>1, <3>3, <4>1
      <3>4. CASE Drain(r) \/ Disconnect(r)
        BY <3>2, <3>4
      <3> QED
        BY <1>10, <3>3, <3>4
    <2>3. \A i \in {"none", "pending"} :
             [info EXCEPT ![r] = i] \in [Requests -> {"none", "pending", "handled", "dropped"}]
      OBVIOUS
    <2>4. info' \in [Requests -> {"none", "pending", "handled", "dropped"}]
      BY <1>10, <2>3 DEF StopDecode, Drain, Disconnect, vmlx
    <2>5. /\ gpu' \in [Requests -> {"idle", "prefill", "decode", "drain", "done"}]
          /\ connected' \in [Requests -> BOOLEAN]
      BY <1>10 DEF StopDecode, Drain, Disconnect, vmlx, client
    <2>6. UNCHANGED <<producer, items, stream, consumer, wire, books>>
      BY <1>10 DEF StopDecode, Drain, Disconnect, vmlx, client
    <2> QED
      BY <2>2, <2>4, <2>5, <2>6 DEF producer, books
  <1>11. ASSUME NEW r \in Requests, ReadEvent(r)
         PROVE  TypeOK'
    <2>1. stream' \in [Requests -> Streams]
      <3>1. /\ stream[r] \in Streams
            /\ stream[r].buffer \in Seq({"visible", "invisible", "finish"})
            /\ stream[r].buffer # <<>>
        BY <1>11 DEF ReadEvent, Streams
      <3>2. Tail(stream[r].buffer) \in Seq({"visible", "invisible", "finish"})
        BY <3>1
      <3>3. [stream[r] EXCEPT !.buffer = Tail(@)] \in Streams
        BY <3>1, <3>2 DEF Streams
      <3> QED
        BY <1>11, <3>3 DEF ReadEvent
    <2>2. PICK parts \in Seq(Frames) : Send(r, parts)
      <3>1. <<>> \in Seq(Frames) /\ Headed(r, "delta") \in Seq(Frames)
            /\ Headed(r, "finish") \in Seq(Frames)
        <4>1. "delta" \in Frames /\ "finish" \in Frames
          BY DEF Frames
        <4> QED
          BY <4>1, HeadedType
      <3> QED
        BY <1>11, <3>1, ReadEventSends
    <2>3. wire' \in [Requests -> Seq(Frames)]
      BY <2>2, SendType
    <2> QED
      BY <1>11, <2>1, <2>3 DEF ReadEvent, producer, vmlx, books
  <1>12. ASSUME NEW r \in Requests, ReadEnd(r)
         PROVE  TypeOK'
    <2>1. PICK parts \in Seq(Frames) : Send(r, parts)
      <3>1. /\ <<>> \in Seq(Frames)
            /\ Headed(r, "end") \in Seq(Frames)
            /\ <<"errorStatus", "end">> \in Seq(Frames)
            /\ <<"stream_error", "end">> \in Seq(Frames)
        <4>1. "end" \in Frames /\ "errorStatus" \in Frames /\ "stream_error" \in Frames
          BY DEF Frames
        <4> QED
          BY <4>1, HeadedType
      <3> QED
        BY <1>12, <3>1, ReadEndSends
    <2>2. wire' \in [Requests -> Seq(Frames)]
      BY <2>1, SendType
    <2> QED
      BY <1>12, <2>2 DEF ReadEnd, producer, vmlx, books
  <1>13. CASE UNCHANGED vars
    BY <1>13 DEF vars, producer, vmlx, client, books
  <1> QED
    BY <1>1, <1>2, <1>3, <1>4, <1>5, <1>6, <1>7, <1>8, <1>9, <1>10, <1>11, <1>12, <1>13
       DEF Next, Producer, OnEngine, Consumer, Quiescent

-----------------------------------------------------------------------------
(* A step of one request leaves the others alone                           *)

\* Nothing of q's run changes; a waiter may be handed a slot.
Untouched(q) ==
    /\ status'[q] = status[q] \/ (status[q] = "queued" /\ status'[q] = "holding")
    /\ q \in withdrawn' <=> q \in withdrawn
    /\ pc'[q] = pc[q] /\ error'[q] = error[q]
    /\ terminalCancelled'[q] = terminalCancelled[q]
    /\ gpu'[q] = gpu[q] /\ info'[q] = info[q]
    /\ truncated'[q] = truncated[q] /\ rejected'[q] = rejected[q]
    /\ stream'[q] = stream[q] /\ consumer'[q] = consumer[q]
    /\ connected'[q] = connected[q] /\ wire'[q] = wire[q]
    /\ log'[q] = log[q] /\ outcome'[q] = outcome[q]

\* What the invariant says of a request depends on that request alone.
LEMMA Bystander ==
    ASSUME NEW q, RunInv(q), Untouched(q)
    PROVE  RunInv(q)'
  <1> USE DEF RunInv, Untouched
  <1>1. Placed(q)'
    BY DEF Placed, Working
  <1>2. CancelledByClient(q)'
    BY DEF CancelledByClient, isCancelled
  <1>3. EndedOnce(q)'
    BY DEF EndedOnce
  <1>4. Promised(q)' <=> Promised(q)
    BY DEF Promised, HasFinish
  <1>5. PromiseKept(q)'
    BY <1>4 DEF PromiseKept
  <1>6. FinishIsLast(q)'
    BY DEF FinishIsLast, HasFinish
  <1>7. WireShape(q)'
    BY DEF WireShape
  <1> QED
    BY <1>1, <1>2, <1>3, <1>5, <1>6, <1>7

\* Every action of one request leaves the others so.
LEMMA OthersUntouched ==
    ASSUME TypeOK, AdmissionOK, NEW r \in Requests, NEW q \in Requests, q # r,
           \/ Producer(r) \/ HandleItem(r) \/ StopDecode(r, TRUE) \/ StopDecode(r, FALSE)
           \/ Drain(r) \/ Consumer(r) \/ Disconnect(r)
    PROVE  Untouched(q)
  <1> USE DEF TypeOK, Untouched
  <1>1. ASSUME Submit(r) PROVE Untouched(q)
    BY <1>1, AdmissionOfOthers DEF Submit, Goto, vmlx, client, books
  <1>2. ASSUME SubmitRefused(r) \/ LeaveQueue(r) \/ CancelBeforeStart(r)
        PROVE  Untouched(q)
    BY <1>2, AdmissionOfOthers
       DEF SubmitRefused, LeaveQueue, CancelBeforeStart, Refuse, Throw, Goto, vmlx, client
  <1>3. ASSUME \/ Start(r) \/ Prepare(r) \/ Prefill(r) \/ LoopEnds(r) \/ AwaitTask(r)
               \/ Settle(r) \/ Fallback(r) \/ Log(r)
        PROVE  Untouched(q)
    BY <1>3 DEF Start, Prepare, Prefill, LoopEnds, AwaitTask, Settle, Fallback, Log, Throw,
                Goto, admission, vmlx, client, books
  <1>4. ASSUME HandleInfo(r) PROVE Untouched(q)
    BY <1>4 DEF HandleInfo, Goto, admission, vmlx, client, books
  <1>5. ASSUME Release(r) PROVE Untouched(q)
    BY <1>5, AdmissionOfOthers DEF Release, Goto, vmlx, client
  <1>6. \A event, how : /\ Yield(r, event)[q] = stream[q]
                        /\ [stream EXCEPT ![r] = EndStream(@, how)][q] = stream[q]
                        /\ [Yield(r, event) EXCEPT ![r] = EndStream(@, how)][q] = stream[q]
    BY DEF Yield
  <1>7. ASSUME FinishStream(r) PROVE Untouched(q)
    <2>1. stream'[q] = stream[q]
      BY <1>6, <1>7 DEF FinishStream
    <2>2. UNCHANGED admission
      BY <1>7 DEF FinishStream, OnTermination, TerminationCancels
    <2> QED
      BY <1>7, <2>1, <2>2 DEF FinishStream, Goto, admission, vmlx, client, books
  <1>8. ASSUME HandleItem(r) PROVE Untouched(q)
    BY <1>6, <1>8 DEF HandleItem, admission, producer, client, books
  <1>9. ASSUME CloseStream(r) PROVE Untouched(q)
    BY <1>6, <1>9 DEF CloseStream, Goto, admission, vmlx, client, books
  <1>10. ASSUME StreamCancelled(r) PROVE Untouched(q)
    <2>1. Admission!Withdraw(r) \/ UNCHANGED admission
      BY <1>10 DEF StreamCancelled, OnTermination
    <2>2. /\ status'[q] = status[q] \/ (status[q] = "queued" /\ status'[q] = "holding")
          /\ q \in withdrawn' <=> q \in withdrawn
      BY <2>1, AdmissionOfOthers DEF admission
    <2> QED
      BY <1>6, <1>10, <2>2 DEF StreamCancelled, producer, vmlx, client, books
  <1>11. ASSUME NEW cut \in BOOLEAN, StopDecode(r, cut) PROVE Untouched(q)
    BY <1>11 DEF StopDecode, admission, producer, client, books
  <1>12. ASSUME Drain(r) \/ Disconnect(r) PROVE Untouched(q)
    BY <1>12 DEF Drain, Disconnect, admission, producer, vmlx, client, books
  <1>13. ASSUME ReadEvent(r) \/ ReadEnd(r) PROVE Untouched(q)
    <2>1. \A parts : Send(r, parts) => wire'[q] = wire[q]
      BY DEF Send
    <2>2. wire'[q] = wire[q]
      BY <1>13, <2>1 DEF ReadEvent, ReadEnd
    <2> QED
      BY <1>13, <2>2 DEF ReadEvent, ReadEnd, admission, producer, vmlx, books
  <1> QED
    BY <1>1, <1>2, <1>3, <1>4, <1>5, <1>7, <1>8, <1>9, <1>10, <1>11, <1>12, <1>13
       DEF Producer, OnEngine, Consumer

-----------------------------------------------------------------------------
(* A step of a request keeps what the invariant says of it                 *)

KeepsAnswer(r) ==
    /\ stream'[r] = stream[r] /\ consumer'[r] = consumer[r]
    /\ connected'[r] = connected[r] /\ wire'[r] = wire[r]

KeepsDecode(r) ==
    /\ gpu'[r] = gpu[r] /\ info'[r] = info[r]
    /\ truncated'[r] = truncated[r] /\ rejected'[r] = rejected[r]

\* A step that leaves the stream and the response alone promises nothing new.
LEMMA AnswerKept ==
    ASSUME NEW r, RunInv(r), KeepsAnswer(r)
    PROVE  /\ Promised(r)' <=> Promised(r)
           /\ FinishIsLast(r)'
           /\ WireShape(r)'
  BY DEF RunInv, KeepsAnswer, Promised, HasFinish, FinishIsLast, WireShape

\* submit: admission, a refusal, a cancellation in the queue or before the start.
LEMMA SubmitKeeps ==
    ASSUME TypeOK, AdmissionOK, NEW r \in Requests, RunInv(r),
           Submit(r) \/ SubmitRefused(r) \/ LeaveQueue(r) \/ CancelBeforeStart(r) \/ Start(r)
    PROVE  RunInv(r)'
  <1>1. KeepsAnswer(r) /\ KeepsDecode(r)
    BY DEF Submit, SubmitRefused, LeaveQueue, CancelBeforeStart, Start, Refuse, vmlx, client,
           KeepsAnswer, KeepsDecode
  <1>2. /\ terminalCancelled'[r] = terminalCancelled[r]
        /\ log'[r] = log[r]
        /\ r \in withdrawn' <=> r \in withdrawn
    BY AdmissionOfSelf
       DEF Submit, SubmitRefused, LeaveQueue, CancelBeforeStart, Start, Refuse, books, admission
  <1>3. \/ /\ pc[r] = "submit" /\ pc'[r] = "submitted" /\ status'[r] \in {"holding", "queued"}
           /\ error'[r] = error[r] /\ outcome'[r] = outcome[r]
        \/ /\ pc[r] \in {"submit", "submitted"} /\ pc'[r] = "closing" /\ status'[r] = "gone"
           /\ outcome'[r] = "notRun"
           /\ \/ isCancelled(r) /\ error'[r] = "cancellation"
              \/ error'[r] = "admission"
        \/ /\ pc[r] = "submitted" /\ pc'[r] = "prepare"
           /\ status[r] = "holding" /\ status'[r] = status[r]
           /\ error'[r] = error[r] /\ outcome'[r] = outcome[r]
    <2>1. CASE Submit(r)
      BY <2>1, AdmissionOfSelf DEF Submit, Goto, books, TypeOK
    <2>2. CASE SubmitRefused(r)
      BY <2>2, AdmissionOfSelf DEF SubmitRefused, Refuse, Throw, Goto, TypeOK
    <2>3. CASE LeaveQueue(r) \/ CancelBeforeStart(r)
      BY <2>3, AdmissionOfSelf DEF LeaveQueue, CancelBeforeStart, Refuse, Throw, Goto, TypeOK
    <2>4. CASE Start(r)
      BY <2>4 DEF Start, Goto, books, admission, TypeOK
    <2> QED
      BY <2>1, <2>2, <2>3, <2>4
  <1>4. Placed(r)'
    BY <1>1, <1>3 DEF RunInv, Placed, Working, KeepsDecode
  <1>5. CancelledByClient(r)'
    BY <1>1, <1>2, <1>3 DEF RunInv, CancelledByClient, isCancelled, KeepsAnswer, KeepsDecode
  <1>6. EndedOnce(r)'
    BY <1>1, <1>2, <1>3 DEF RunInv, EndedOnce, KeepsAnswer, KeepsDecode
  <1>7. PromiseKept(r)'
    BY <1>1, <1>2, <1>3, AnswerKept DEF RunInv, PromiseKept, KeepsAnswer, KeepsDecode
  <1> QED
    BY <1>1, <1>4, <1>5, <1>6, <1>7, AnswerKept DEF RunInv

\* The producer on the engine before and after the decode loop, without its stream.
LEMMA EngineKeeps ==
    ASSUME TypeOK, AdmissionOK, NEW r \in Requests, RunInv(r),
           \/ Prepare(r) \/ Prefill(r) \/ HandleInfo(r) \/ LoopEnds(r)
           \/ AwaitTask(r) \/ Settle(r) \/ Fallback(r)
    PROVE  RunInv(r)'
  <1>1. /\ KeepsAnswer(r)
        /\ status'[r] = status[r]
        /\ r \in withdrawn' <=> r \in withdrawn
        /\ truncated'[r] = truncated[r] /\ rejected'[r] = rejected[r]
        /\ log'[r] = log[r] /\ outcome'[r] = outcome[r]
    BY DEF Prepare, Prefill, HandleInfo, LoopEnds, AwaitTask, Settle, Fallback, vmlx, client,
           books, admission, KeepsAnswer
  <1>2. CASE Prepare(r) \/ Prefill(r)
    <2>1. /\ pc[r] \in {"prepare", "prefill"}
          /\ info'[r] = info[r] /\ terminalCancelled'[r] = terminalCancelled[r]
          /\ \/ /\ pc'[r] = "unwinding" /\ gpu'[r] \in {gpu[r], "idle"}
                /\ gpu[r] = "prefill" => gpu'[r] = "idle"
                /\ \/ isCancelled(r) /\ error'[r] = "cancellation"
                   \/ error'[r] = "engine"
             \/ pc'[r] = "prefill" /\ gpu'[r] = "prefill" /\ error'[r] = error[r]
             \/ /\ pc[r] = "prefill" /\ pc'[r] = "streaming" /\ gpu'[r] = "decode"
                /\ error'[r] = error[r]
      BY <1>2 DEF Prepare, Prefill, Throw, Goto, TypeOK, RunInv, Placed
    <2>2. Placed(r)'
      BY <1>1, <2>1 DEF RunInv, Placed, Working
    <2>3. CancelledByClient(r)'
      BY <1>1, <2>1 DEF RunInv, CancelledByClient, isCancelled, KeepsAnswer
    <2>4. EndedOnce(r)'
      BY <1>1, <2>1 DEF RunInv, EndedOnce, KeepsAnswer
    <2>5. PromiseKept(r)'
      BY <1>1, <2>1, AnswerKept DEF RunInv, PromiseKept, KeepsAnswer
    <2> QED
      BY <1>1, <2>2, <2>3, <2>4, <2>5, AnswerKept DEF RunInv
  <1>3. CASE HandleInfo(r)
    <2>1. /\ pc[r] = "streaming" /\ info[r] = "pending"
          /\ gpu'[r] = gpu[r] /\ error'[r] = error[r]
          /\ \/ /\ rejected[r] /\ info'[r] = "dropped" /\ pc'[r] = "draining"
                /\ terminalCancelled'[r] = terminalCancelled[r]
             \/ /\ ~rejected[r] /\ info'[r] = "handled" /\ pc'[r] = "finishing"
                /\ terminalCancelled'[r] = isCancelled(r)
      BY <1>3 DEF HandleInfo, Goto, TypeOK
    <2>2. Placed(r)'
      BY <1>1, <2>1 DEF RunInv, Placed, Working
    <2>3. CancelledByClient(r)'
      BY <1>1, <2>1 DEF RunInv, CancelledByClient, isCancelled, KeepsAnswer
    <2>4. EndedOnce(r)'
      BY <1>1, <2>1 DEF RunInv, EndedOnce, KeepsAnswer
    <2>5. PromiseKept(r)'
      BY <1>1, <2>1, AnswerKept DEF RunInv, PromiseKept, CancelledByClient, Placed, KeepsAnswer
    <2> QED
      BY <1>1, <2>2, <2>3, <2>4, <2>5, AnswerKept DEF RunInv
  <1>4. CASE LoopEnds(r) \/ AwaitTask(r)
    <2>1. /\ gpu'[r] = gpu[r] /\ info'[r] = info[r] /\ error'[r] = error[r]
          /\ terminalCancelled'[r] = terminalCancelled[r]
          /\ \/ pc[r] = "streaming" /\ info[r] = "none" /\ pc'[r] = "draining"
             \/ pc[r] = "draining" /\ gpu[r] = "done" /\ pc'[r] = "settle"
      BY <1>4 DEF LoopEnds, AwaitTask, Goto, vmlx, TypeOK
    <2>2. Placed(r)'
      BY <1>1, <2>1 DEF RunInv, Placed, Working
    <2>3. CancelledByClient(r)'
      BY <1>1, <2>1 DEF RunInv, CancelledByClient, isCancelled, KeepsAnswer
    <2>4. EndedOnce(r)'
      BY <1>1, <2>1 DEF RunInv, EndedOnce, KeepsAnswer
    <2>5. PromiseKept(r)'
      BY <1>1, <2>1, AnswerKept DEF RunInv, PromiseKept, KeepsAnswer
    <2> QED
      BY <1>1, <2>2, <2>3, <2>4, <2>5, AnswerKept DEF RunInv
  <1>5. CASE Settle(r) \/ Fallback(r)
    <2>1. /\ gpu'[r] = gpu[r] /\ info'[r] = info[r]
          /\ \/ /\ pc[r] = "settle" /\ ~isCancelled(r) /\ rejected[r] /\ pc'[r] = "unwinding"
                /\ error'[r] = "engine" /\ terminalCancelled'[r] = terminalCancelled[r]
             \/ /\ pc[r] = "settle" /\ info[r] = "handled" /\ pc'[r] = "logging"
                /\ error'[r] = error[r] /\ terminalCancelled'[r] = terminalCancelled[r]
             \/ /\ pc[r] = "settle" /\ info[r] # "handled" /\ pc'[r] = "fallback"
                /\ (rejected[r] => isCancelled(r))
                /\ error'[r] = error[r] /\ terminalCancelled'[r] = terminalCancelled[r]
             \/ /\ pc[r] = "fallback" /\ pc'[r] = "finishing"
                /\ error'[r] = error[r] /\ terminalCancelled'[r] = isCancelled(r)
      <3>1. CASE Settle(r)
        BY <3>1 DEF Settle, Throw, Goto, vmlx, TypeOK
      <3>2. CASE Fallback(r)
        BY <3>2 DEF Fallback, Goto, vmlx, TypeOK
      <3> QED
        BY <1>5, <3>1, <3>2
    <2>2. Placed(r)'
      BY <1>1, <2>1 DEF RunInv, Placed, Working
    <2>3. CancelledByClient(r)'
      BY <1>1, <2>1 DEF RunInv, CancelledByClient, isCancelled, KeepsAnswer
    <2>4. EndedOnce(r)'
      BY <1>1, <2>1 DEF RunInv, EndedOnce, KeepsAnswer
    <2>5. PromiseKept(r)'
      BY <1>1, <2>1, AnswerKept DEF RunInv, PromiseKept, CancelledByClient, Placed, Working,
                                   KeepsAnswer
    <2> QED
      BY <1>1, <2>2, <2>3, <2>4, <2>5, AnswerKept DEF RunInv
  <1> QED
    BY <1>2, <1>3, <1>4, <1>5

\* The end of the producer: the log line, the accounting, the end of the stream.
LEMMA ClosingKeeps ==
    ASSUME TypeOK, AdmissionOK, NEW r \in Requests, RunInv(r),
           Log(r) \/ Release(r) \/ CloseStream(r)
    PROVE  RunInv(r)'
  <1>1. /\ KeepsDecode(r)
        /\ error'[r] = error[r] /\ terminalCancelled'[r] = terminalCancelled[r]
        /\ wire'[r] = wire[r] /\ consumer'[r] = consumer[r] /\ connected'[r] = connected[r]
        /\ r \in withdrawn' <=> r \in withdrawn
    BY AdmissionOfSelf DEF Log, Release, CloseStream, vmlx, client, admission, KeepsDecode
  <1>2. CASE Log(r)
    <2>1. log[r] = <<>>
      BY <1>2 DEF Log, RunInv, EndedOnce
    <2>2. \A e : Append(<<>>, e) = <<e>>
      OBVIOUS
    <2>3. /\ pc[r] = "logging" /\ pc'[r] = "unwinding" /\ status'[r] = status[r]
          /\ outcome'[r] = outcome[r] /\ stream'[r] = stream[r]
          /\ ~terminalCancelled[r] => log'[r] = <<"finished">>
      BY <1>2, <2>1, <2>2 DEF Log, Goto, TypeOK, admission
    <2>4. KeepsAnswer(r)
      BY <1>1, <2>3 DEF KeepsAnswer
    <2>5. Placed(r)'
      BY <1>1, <2>3 DEF RunInv, Placed, Working, KeepsDecode
    <2>6. CancelledByClient(r)'
      BY <1>1, <2>3 DEF RunInv, CancelledByClient, isCancelled, KeepsDecode
    <2>7. EndedOnce(r)'
      BY <1>1, <2>3 DEF RunInv, EndedOnce, KeepsDecode
    <2>8. PromiseKept(r)'
      BY <1>1, <2>3, <2>4, AnswerKept DEF RunInv, PromiseKept, KeepsDecode
    <2> QED
      BY <2>4, <2>5, <2>6, <2>7, <2>8, AnswerKept DEF RunInv
  <1>3. CASE Release(r)
    <2>1. /\ pc[r] = "unwinding" /\ pc'[r] = "closing" /\ status'[r] = "gone"
          /\ log'[r] = log[r] /\ stream'[r] = stream[r]
      BY <1>3, AdmissionOfSelf DEF Release, Goto, TypeOK
    <2>2. ~isCancelled(r) /\ error[r] = "none" => outcome'[r] = "completed"
      BY <1>3 DEF Release, TypeOK
    <2>3. KeepsAnswer(r)
      BY <1>1, <2>1 DEF KeepsAnswer
    <2>4. Placed(r)'
      BY <1>1, <2>1 DEF RunInv, Placed, Working, KeepsDecode
    <2>5. CancelledByClient(r)'
      BY <1>1, <2>1 DEF RunInv, CancelledByClient, isCancelled, KeepsDecode
    <2>6. EndedOnce(r)'
      BY <1>1, <2>1 DEF RunInv, EndedOnce, KeepsDecode
    <2>7. PromiseKept(r)'
      BY <1>1, <2>1, <2>2, <2>3, AnswerKept
         DEF RunInv, PromiseKept, CancelledByClient, KeepsDecode
    <2> QED
      BY <2>3, <2>4, <2>5, <2>6, <2>7, AnswerKept DEF RunInv
  <1>4. CASE CloseStream(r)
    <2>1. /\ pc[r] = "closing" /\ pc'[r] = "done" /\ status'[r] = status[r]
          /\ log'[r] = log[r] /\ outcome'[r] = outcome[r]
      BY <1>4 DEF CloseStream, Goto, TypeOK, admission, books
    <2>2. /\ stream'[r].buffer = stream[r].buffer
          /\ stream[r].end # "open" => stream'[r] = stream[r]
          /\ stream[r].end = "open" => stream'[r].end = error[r] /\ error[r] # "none"
      BY <1>4, <2>1 DEF CloseStream, EndStream, TypeOK, Streams, RunInv, EndedOnce
    <2>3. Promised(r)' <=> Promised(r)
      BY <1>1, <2>2 DEF Promised, HasFinish
    <2>4. FinishIsLast(r)'
      BY <1>1, <2>2 DEF RunInv, FinishIsLast, HasFinish
    <2>5. WireShape(r)'
      BY <1>1 DEF RunInv, WireShape
    <2>6. error[r] = "cancellation" => stream[r].end = "cancelled"
      BY DEF RunInv, CancelledByClient
    <2>7. Placed(r)'
      BY <1>1, <2>1 DEF RunInv, Placed, Working, KeepsDecode
    <2>8. CancelledByClient(r)'
      BY <1>1, <2>1, <2>2 DEF RunInv, CancelledByClient, isCancelled, KeepsDecode, TypeOK,
                              Errors
    <2>9. EndedOnce(r)'
      <3>1. error[r] \in Errors
        BY DEF TypeOK
      <3> QED
        BY <1>1, <2>1, <2>2, <2>6, <3>1 DEF RunInv, EndedOnce, KeepsDecode, Errors
    <2>10. PromiseKept(r)'
      <3>1. error[r] \in Errors
        BY DEF TypeOK
      <3> QED
        BY <1>1, <2>1, <2>2, <2>3, <3>1 DEF RunInv, PromiseKept, KeepsDecode, Errors
    <2> QED
      BY <2>4, <2>5, <2>7, <2>8, <2>9, <2>10 DEF RunInv
  <1> QED
    BY <1>2, <1>3, <1>4

\* vmlx: the decode loop ends, the drain ends.
LEMMA DecodeKeeps ==
    ASSUME TypeOK, AdmissionOK, NEW r \in Requests, RunInv(r), NEW cut \in BOOLEAN,
           StopDecode(r, cut) \/ Drain(r)
    PROVE  RunInv(r)'
  <1>1. /\ KeepsAnswer(r)
        /\ status'[r] = status[r] /\ pc'[r] = pc[r]
        /\ r \in withdrawn' <=> r \in withdrawn
        /\ error'[r] = error[r] /\ terminalCancelled'[r] = terminalCancelled[r]
        /\ log'[r] = log[r] /\ outcome'[r] = outcome[r]
    BY DEF StopDecode, Drain, producer, client, books, admission, KeepsAnswer
  <1>2. \/ /\ gpu[r] = "decode" /\ gpu'[r] = "drain" /\ info'[r] \in {"none", "pending"}
           /\ truncated'[r] => isCancelled(r)
        \/ /\ gpu[r] = "drain" /\ gpu'[r] = "done" /\ info'[r] = info[r]
           /\ truncated'[r] = truncated[r] /\ rejected'[r] = rejected[r]
    <2>1. CASE StopDecode(r, cut)
      <3>1. truncated'[r] = cut
        BY <2>1 DEF StopDecode, TypeOK
      <3>2. PICK i \in {"none", "pending"} : info' = [info EXCEPT ![r] = i]
        BY <2>1 DEF StopDecode
      <3>3. info'[r] \in {"none", "pending"}
        BY <3>2 DEF TypeOK
      <3>4. gpu[r] = "decode" /\ gpu'[r] = "drain" /\ (cut => isCancelled(r))
        BY <2>1 DEF StopDecode, TypeOK
      <3> QED
        BY <3>1, <3>3, <3>4
    <2>2. CASE Drain(r)
      BY <2>2 DEF Drain, TypeOK
    <2> QED
      BY <2>1, <2>2
  <1>3. Placed(r)'
    BY <1>1, <1>2 DEF RunInv, Placed, Working
  <1>4. CancelledByClient(r)'
    BY <1>1, <1>2 DEF RunInv, Placed, CancelledByClient, isCancelled, KeepsAnswer
  <1>5. EndedOnce(r)'
    BY <1>1, <1>2 DEF RunInv, EndedOnce, Placed, KeepsAnswer
  <1>6. PromiseKept(r)'
    BY <1>1, <1>2, AnswerKept DEF RunInv, PromiseKept, KeepsAnswer
  <1> QED
    BY <1>1, <1>3, <1>4, <1>5, <1>6, AnswerKept DEF RunInv

\* The client goes away; the consumer it leaves cancels an open stream.
LEMMA DisconnectKeeps ==
    ASSUME TypeOK, AdmissionOK, NEW r \in Requests, RunInv(r),
           Disconnect(r) \/ StreamCancelled(r)
    PROVE  RunInv(r)'
  <1>1. /\ KeepsDecode(r)
        /\ pc'[r] = pc[r] /\ error'[r] = error[r]
        /\ terminalCancelled'[r] = terminalCancelled[r]
        /\ log'[r] = log[r] /\ outcome'[r] = outcome[r]
        /\ wire'[r] = wire[r] /\ consumer'[r] = consumer[r]
    BY DEF Disconnect, StreamCancelled, producer, vmlx, client, books, KeepsDecode
  <1>2. /\ status'[r] = status[r]
        /\ ~connected'[r]
        /\ stream'[r].buffer = stream[r].buffer
        /\ \/ stream'[r] = stream[r] /\ (r \in withdrawn' <=> r \in withdrawn)
           \/ stream[r].end = "open" /\ stream'[r].end = "cancelled"
    <2>1. CASE Disconnect(r)
      BY <2>1 DEF Disconnect, admission, TypeOK
    <2>2. CASE StreamCancelled(r)
      <3>1. /\ stream[r].end = "open" /\ stream'[r].end = "cancelled"
            /\ stream'[r].buffer = stream[r].buffer /\ ~connected'[r]
        BY <2>2 DEF StreamCancelled, EndStream, client, TypeOK, Streams
      <3>2. status'[r] = status[r]
        BY <2>2, AdmissionOfSelf DEF StreamCancelled, OnTermination, admission
      <3> QED
        BY <3>1, <3>2
    <2> QED
      BY <2>1, <2>2
  <1>3. Promised(r)' <=> Promised(r)
    BY <1>1, <1>2 DEF Promised, HasFinish
  <1>4. FinishIsLast(r)'
    BY <1>1, <1>2 DEF RunInv, FinishIsLast, HasFinish
  <1>5. WireShape(r)'
    BY <1>1, <1>2 DEF RunInv, WireShape
  <1>6. Placed(r)'
    BY <1>1, <1>2 DEF RunInv, Placed, KeepsDecode
  <1>7. CancelledByClient(r)'
    BY <1>1, <1>2 DEF RunInv, CancelledByClient, isCancelled, KeepsDecode
  <1>8. EndedOnce(r)'
    BY <1>1, <1>2 DEF RunInv, EndedOnce, KeepsDecode
  <1>9. PromiseKept(r)'
    BY <1>1, <1>2, <1>3 DEF RunInv, PromiseKept, KeepsDecode
  <1> QED
    BY <1>4, <1>5, <1>6, <1>7, <1>8, <1>9 DEF RunInv

\* What yield does to the buffer, and what a consumer takes from it.
LEMMA BufferSteps ==
    ASSUME NEW b \in Seq({"visible", "invisible", "finish"})
    PROVE  /\ \A event \in {"visible", "invisible"} : HasFinish(Append(b, event)) <=> HasFinish(b)
           /\ HasFinish(Append(b, "finish"))
           /\ ~HasFinish(b) => \A i \in DOMAIN Append(b, "finish") :
                 Append(b, "finish")[i] = "finish" => i = Len(Append(b, "finish"))
           /\ b # <<>> => /\ HasFinish(b) <=> b[1] = "finish" \/ HasFinish(Tail(b))
                          /\ \A i \in DOMAIN Tail(b) : i + 1 \in DOMAIN b /\ Tail(b)[i] = b[i + 1]
                          /\ Len(Tail(b)) = Len(b) - 1
                          /\ Len(b) = 1 => Tail(b) = <<>>
  <1>1. ASSUME NEW event
        PROVE  /\ DOMAIN Append(b, event) = 1..(Len(b) + 1) /\ DOMAIN b = 1..Len(b)
               /\ Len(Append(b, event)) = Len(b) + 1
               /\ \A i \in 1..Len(b) : Append(b, event)[i] = b[i]
               /\ Append(b, event)[Len(b) + 1] = event
               /\ Len(b) \in Nat
    OBVIOUS
  <1>2. ASSUME NEW event \in {"visible", "invisible"}
        PROVE  HasFinish(Append(b, event)) <=> HasFinish(b)
    BY <1>1 DEF HasFinish
  <1>3. HasFinish(Append(b, "finish"))
    BY <1>1 DEF HasFinish
  <1>4. ASSUME ~HasFinish(b), NEW i \in DOMAIN Append(b, "finish"),
               Append(b, "finish")[i] = "finish"
        PROVE  i = Len(Append(b, "finish"))
    BY <1>1, <1>4 DEF HasFinish
  <1>5. ASSUME b # <<>>
        PROVE  /\ Tail(b) \in Seq({"visible", "invisible", "finish"})
               /\ Len(Tail(b)) = Len(b) - 1 /\ Len(b) \in Nat /\ Len(b) >= 1
               /\ DOMAIN b = 1..Len(b) /\ DOMAIN Tail(b) = 1..(Len(b) - 1)
               /\ \A i \in 1..(Len(b) - 1) : Tail(b)[i] = b[i + 1]
    BY <1>5
  <1>6. ASSUME b # <<>> PROVE HasFinish(b) <=> b[1] = "finish" \/ HasFinish(Tail(b))
    <2>1. ASSUME NEW i \in DOMAIN b, b[i] = "finish", i # 1 PROVE HasFinish(Tail(b))
      <3>1. i - 1 \in DOMAIN Tail(b) /\ Tail(b)[i - 1] = b[i]
        BY <1>5, <1>6, <2>1
      <3> QED
        BY <2>1, <3>1 DEF HasFinish
    <2>2. ASSUME HasFinish(Tail(b)) PROVE HasFinish(b)
      BY <1>5, <1>6, <2>2 DEF HasFinish
    <2>3. 1 \in DOMAIN b
      BY <1>5, <1>6
    <2> QED
      BY <2>1, <2>2, <2>3 DEF HasFinish
  <1>7. ASSUME b # <<>>, Len(b) = 1 PROVE Tail(b) = <<>>
    BY <1>5, <1>7
  <1> QED
    BY <1>2, <1>3, <1>4, <1>5, <1>6, <1>7

\* A chunk passes through the loop: before the verdict, so nothing is promised yet.
LEMMA ItemKeeps ==
    ASSUME TypeOK, AdmissionOK, NEW r \in Requests, RunInv(r), HandleItem(r)
    PROVE  RunInv(r)'
  <1>1. /\ KeepsDecode(r) /\ gpu[r] = "decode"
        /\ status'[r] = status[r] /\ (r \in withdrawn' <=> r \in withdrawn)
        /\ pc'[r] = pc[r] /\ error'[r] = error[r]
        /\ terminalCancelled'[r] = terminalCancelled[r]
        /\ log'[r] = log[r] /\ outcome'[r] = outcome[r]
        /\ wire'[r] = wire[r] /\ consumer'[r] = consumer[r] /\ connected'[r] = connected[r]
    BY DEF HandleItem, admission, producer, client, books, KeepsDecode
  <1>2. ~Promised(r)
    BY <1>1 DEF RunInv, PromiseKept
  <1>3. stream[r].buffer \in Seq({"visible", "invisible", "finish"})
    BY DEF TypeOK, Streams
  <1>4. /\ stream'[r].end = stream[r].end
        /\ \/ stream'[r].buffer = stream[r].buffer
           \/ \E event \in {"visible", "invisible"} :
                 stream'[r].buffer = Append(stream[r].buffer, event)
    BY DEF HandleItem, Yield, TypeOK, Streams
  <1>5. ~HasFinish(stream'[r].buffer) /\ ~HasFinish(wire'[r])
    <2>1. \A event \in {"visible", "invisible"} :
             HasFinish(Append(stream[r].buffer, event)) <=> HasFinish(stream[r].buffer)
      BY <1>3, BufferSteps
    <2>2. ~HasFinish(stream[r].buffer) /\ ~HasFinish(wire[r])
      BY <1>2 DEF Promised
    <2> QED
      BY <1>1, <1>4, <2>1, <2>2
  <1>6. ~Promised(r)' /\ FinishIsLast(r)'
    BY <1>5 DEF Promised, FinishIsLast, HasFinish
  <1>7. Placed(r)'
    BY <1>1 DEF RunInv, Placed, KeepsDecode
  <1>8. CancelledByClient(r)'
    BY <1>1, <1>4 DEF RunInv, CancelledByClient, isCancelled, KeepsDecode
  <1>9. EndedOnce(r)'
    BY <1>1, <1>4 DEF RunInv, EndedOnce, KeepsDecode
  <1>10. PromiseKept(r)'
    BY <1>1, <1>2, <1>4, <1>6 DEF RunInv, PromiseKept, KeepsDecode
  <1>11. WireShape(r)'
    BY <1>1 DEF RunInv, WireShape
  <1> QED
    BY <1>6, <1>7, <1>8, <1>9, <1>10, <1>11 DEF RunInv

\* The body ends its stream: if nobody ended it before, the run was not cancelled when
\* its verdict was taken, and the finish event is the last one.
LEMMA FinishKeeps ==
    ASSUME TypeOK, AdmissionOK, NEW r \in Requests, RunInv(r), FinishStream(r)
    PROVE  RunInv(r)'
  <1>1. /\ KeepsDecode(r) /\ pc[r] = "finishing"
        /\ pc'[r] = IF info[r] = "handled" THEN "draining" ELSE "logging"
        /\ error'[r] = error[r] /\ terminalCancelled'[r] = terminalCancelled[r]
        /\ log'[r] = log[r] /\ outcome'[r] = outcome[r]
        /\ wire'[r] = wire[r] /\ consumer'[r] = consumer[r] /\ connected'[r] = connected[r]
    BY DEF FinishStream, Goto, vmlx, client, books, KeepsDecode, TypeOK
  <1>2. status'[r] = status[r] /\ (r \in withdrawn' <=> r \in withdrawn)
    BY DEF FinishStream, OnTermination, TerminationCancels, admission
  <1>3. ~Promised(r)
    BY <1>1 DEF RunInv, PromiseKept
  <1>4. stream[r].buffer \in Seq({"visible", "invisible", "finish"})
    BY DEF TypeOK, Streams
  <1>5. stream[r].end = "open" => ~terminalCancelled[r]
    BY DEF RunInv, CancelledByClient
  <1>6. \/ /\ stream[r].end # "open" /\ stream'[r] = stream[r]
        \/ /\ stream[r].end = "open" /\ stream'[r].end = "finished"
           /\ stream'[r].buffer = Append(stream[r].buffer, "finish")
    <2>1. stream[r] \in Streams
      BY DEF TypeOK
    <2>2. CASE stream[r].end = "open"
      <3> DEFINE y == [stream EXCEPT ![r].buffer = Append(@, "finish")]
      <3>1. stream' = [y EXCEPT ![r] = EndStream(@, "finished")]
        BY <1>5, <2>2 DEF FinishStream, Yield
      <3>2. /\ y[r].end = "open" /\ y[r].buffer = Append(stream[r].buffer, "finish")
            /\ y[r] = [stream[r] EXCEPT !.buffer = Append(@, "finish")]
            /\ DOMAIN y = Requests
        BY <2>1, <2>2 DEF TypeOK, Streams
      <3>3. stream'[r] = [y[r] EXCEPT !.end = "finished"]
        BY <3>1, <3>2 DEF EndStream
      <3> QED
        BY <2>1, <2>2, <3>2, <3>3 DEF Streams
    <2>3. CASE stream[r].end # "open"
      <3>1. stream' = [stream EXCEPT ![r] = EndStream(@, "finished")]
        BY <2>3 DEF FinishStream, Yield
      <3> QED
        BY <2>3, <3>1 DEF EndStream, TypeOK
    <2> QED
      BY <2>2, <2>3
  <1>7. Placed(r)'
    BY <1>1, <1>2 DEF RunInv, Placed, Working, KeepsDecode
  <1>8. CancelledByClient(r)'
    BY <1>1, <1>2, <1>6 DEF RunInv, CancelledByClient, isCancelled, KeepsDecode
  <1>9. EndedOnce(r)'
    BY <1>1, <1>6 DEF RunInv, EndedOnce, KeepsDecode
  <1>10. WireShape(r)'
    BY <1>1 DEF RunInv, WireShape
  <1>11. CASE stream[r].end = "open"
    <2>1. ~HasFinish(stream[r].buffer) /\ ~HasFinish(wire'[r])
      BY <1>1, <1>3 DEF Promised
    <2>2. HasFinish(stream'[r].buffer) /\ FinishIsLast(r)'
      <3> DEFINE b == Append(stream[r].buffer, "finish")
      <3>1. HasFinish(b) /\ \A i \in DOMAIN b : b[i] = "finish" => i = Len(b)
        BY <1>4, <2>1, BufferSteps
      <3>2. stream'[r].buffer = b
        BY <1>6, <1>11
      <3> QED
        BY <2>1, <3>1, <3>2 DEF FinishIsLast
    <2>3. Promised(r)'
      BY <2>2 DEF Promised
    <2>4. PromiseKept(r)'
      BY <1>1, <1>5, <1>6, <1>11, <2>3 DEF RunInv, PromiseKept, EndedOnce, KeepsDecode
    <2> QED
      BY <1>7, <1>8, <1>9, <1>10, <2>2, <2>4 DEF RunInv
  <1>12. CASE stream[r].end # "open"
    <2>1. ~Promised(r)' /\ FinishIsLast(r)'
      BY <1>1, <1>3, <1>6, <1>12 DEF RunInv, Promised, HasFinish, FinishIsLast
    <2>2. PromiseKept(r)'
      BY <1>1, <1>3, <1>6, <1>12, <2>1 DEF RunInv, PromiseKept, KeepsDecode
    <2> QED
      BY <1>7, <1>8, <1>9, <1>10, <2>1, <2>2 DEF RunInv
  <1> QED
    BY <1>11, <1>12

\* What a connected client has after one more part, the head before it if it is the first.
PartAdded(r, part) ==
    \/ /\ wire[r] = <<>>
       /\ Len(wire'[r]) = 2 /\ DOMAIN wire'[r] = 1..2
       /\ wire'[r][1] = "200" /\ wire'[r][2] = part
    \/ /\ wire[r] # <<>>
       /\ Len(wire[r]) \in Nat /\ Len(wire[r]) >= 1 /\ DOMAIN wire[r] = 1..Len(wire[r])
       /\ Len(wire'[r]) = Len(wire[r]) + 1 /\ DOMAIN wire'[r] = 1..(Len(wire[r]) + 1)
       /\ \A i \in 1..Len(wire[r]) : wire'[r][i] = wire[r][i]
       /\ wire'[r][Len(wire[r]) + 1] = part

\* Parts reach a client that is there, and are lost otherwise.
LEMMA PartReaches ==
    ASSUME TypeOK, NEW r \in Requests
    PROVE  /\ \A part \in Frames : connected[r] /\ Send(r, Headed(r, part)) => PartAdded(r, part)
           /\ Send(r, <<>>) => wire'[r] = wire[r]
           /\ \A parts : ~connected[r] /\ Send(r, parts) => wire'[r] = wire[r]
  <1>1. wire[r] \in Seq(Frames) /\ "200" \in Frames
    BY DEF TypeOK, Frames
  <1>2. \A parts : connected[r] /\ Send(r, parts) => wire'[r] = wire[r] \o parts
    BY DEF Send, TypeOK
  <1>3. wire[r] \o <<>> = wire[r]
    BY <1>1
  <1>4. \A parts : ~connected[r] /\ Send(r, parts) => wire'[r] = wire[r]
    BY DEF Send
  <1>5. ASSUME NEW part \in Frames, connected[r], Send(r, Headed(r, part))
        PROVE  PartAdded(r, part)
    <2>1. CASE wire[r] = <<>>
      <3>1. wire'[r] = <<>> \o <<"200", part>>
        BY <1>2, <1>5, <2>1 DEF Headed
      <3>2. <<>> \o <<"200", part>> = <<"200", part>>
        OBVIOUS
      <3> QED
        BY <2>1, <3>1, <3>2 DEF PartAdded
    <2>2. CASE wire[r] # <<>>
      <3>1. wire'[r] = wire[r] \o <<part>>
        BY <1>2, <1>5, <2>2 DEF Headed
      <3>2. \A s \in Seq(Frames) : s # <<>> =>
               /\ Len(s) \in Nat /\ Len(s) >= 1 /\ DOMAIN s = 1..Len(s)
               /\ Len(s \o <<part>>) = Len(s) + 1 /\ DOMAIN (s \o <<part>>) = 1..(Len(s) + 1)
               /\ \A i \in 1..Len(s) : (s \o <<part>>)[i] = s[i]
               /\ (s \o <<part>>)[Len(s) + 1] = part
        OBVIOUS
      <3> QED
        BY <1>1, <2>2, <3>1, <3>2 DEF PartAdded
    <2> QED
      BY <2>1, <2>2
  <1> QED
    BY <1>2, <1>3, <1>4, <1>5

\* streamSSE writes an event: the finish event, when it comes, is the last part.
LEMMA ReadEventKeeps ==
    ASSUME TypeOK, AdmissionOK, NEW r \in Requests, RunInv(r), ReadEvent(r)
    PROVE  RunInv(r)'
  <1> DEFINE b == stream[r].buffer
  <1>1. /\ KeepsDecode(r)
        /\ status'[r] = status[r] /\ (r \in withdrawn' <=> r \in withdrawn)
        /\ pc'[r] = pc[r] /\ error'[r] = error[r]
        /\ terminalCancelled'[r] = terminalCancelled[r]
        /\ log'[r] = log[r] /\ outcome'[r] = outcome[r]
        /\ consumer'[r] = consumer[r] /\ connected'[r] = connected[r]
        /\ consumer[r] = "reading" /\ b # <<>>
    BY DEF ReadEvent, admission, producer, vmlx, books, KeepsDecode
  <1>2. b \in Seq({"visible", "invisible", "finish"})
    BY DEF TypeOK, Streams
  <1>3. stream'[r].end = stream[r].end /\ stream'[r].buffer = Tail(b)
    BY DEF ReadEvent, TypeOK, Streams
  <1>4. /\ HasFinish(b) <=> b[1] = "finish" \/ HasFinish(Tail(b))
        /\ \A i \in DOMAIN Tail(b) : i + 1 \in DOMAIN b /\ Tail(b)[i] = b[i + 1]
        /\ Len(Tail(b)) = Len(b) - 1
        /\ Len(b) = 1 => Tail(b) = <<>>
    BY <1>1, <1>2, BufferSteps
  <1>5. Len(b) \in Nat /\ DOMAIN b = 1..Len(b) /\ 1 \in DOMAIN b
    BY <1>1, <1>2
  <1>6. DOMAIN Tail(b) \subseteq Nat
    BY <1>1, <1>2
  <1>7. ~HasFinish(wire[r])
    BY <1>1 DEF RunInv, FinishIsLast
  <1>8. \A i \in DOMAIN wire[r] : wire[r][i] \in {"200", "delta"}
    BY <1>1, <1>7 DEF RunInv, WireShape, HasFinish
  <1>9. \/ /\ wire'[r] = wire[r]
           /\ connected[r] => b[1] # "finish"
        \/ connected[r] /\ b[1] = "visible" /\ PartAdded(r, "delta")
        \/ connected[r] /\ b[1] = "finish" /\ PartAdded(r, "finish")
    <2>1. "delta" \in Frames /\ "finish" \in Frames
      BY DEF Frames
    <2> QED
      BY <2>1, PartReaches, ReadEventSends
  <1>10. b[1] = "finish" => Tail(b) = <<>>
    BY <1>4, <1>5 DEF RunInv, FinishIsLast
  <1>11. HasFinish(wire'[r]) <=> connected[r] /\ b[1] = "finish"
    <2>1. CASE wire'[r] = wire[r] /\ (connected[r] => b[1] # "finish")
      BY <1>7, <2>1
    <2>2. ASSUME NEW part \in {"delta", "finish"}, PartAdded(r, part)
          PROVE  HasFinish(wire'[r]) <=> part = "finish"
      BY <1>8, <2>2 DEF PartAdded, HasFinish
    <2> QED
      BY <1>9, <2>1, <2>2
  <1>12. FinishIsLast(r)'
    <2>1. ASSUME NEW i \in DOMAIN Tail(b), Tail(b)[i] = "finish"
          PROVE  i = Len(Tail(b))
      <3>1. i + 1 = Len(b)
        BY <1>4, <2>1 DEF RunInv, FinishIsLast
      <3>2. i \in Nat /\ Len(b) \in Nat /\ Len(Tail(b)) = Len(b) - 1
        BY <1>4, <1>5, <1>6
      <3> HIDE DEF b
      <3> QED
        BY <3>1, <3>2
    <2> QED
      BY <1>3, <1>10, <1>11, <2>1 DEF FinishIsLast
  <1>13. /\ Promised(r)' => Promised(r)
         /\ Promised(r) /\ connected[r] => Promised(r)'
    BY <1>3, <1>4, <1>7, <1>11 DEF Promised
  <1>14. PromiseKept(r)'
    BY <1>1, <1>3, <1>13 DEF RunInv, PromiseKept, KeepsDecode
  <1>15. WireShape(r)'
    <2>1. CASE wire'[r] = wire[r]
      BY <1>1, <2>1 DEF RunInv, WireShape
    <2>2. ASSUME NEW part \in {"delta", "finish"}, PartAdded(r, part)
          PROVE  WireShape(r)'
      <3>1. PICK n \in Nat : /\ DOMAIN wire'[r] = 1..(n + 1) /\ Len(wire'[r]) = n + 1 /\ n >= 1
                             /\ \A i \in 1..n : wire'[r][i] \in {"200", "delta"}
                             /\ \A i \in 1..n : wire'[r][i] = "200" <=> i = 1
                             /\ wire'[r][n + 1] = part
        <4>1. CASE wire[r] = <<>>
          <5>1. /\ DOMAIN wire'[r] = 1..(1 + 1) /\ Len(wire'[r]) = 1 + 1
                /\ wire'[r][1] = "200" /\ wire'[r][1 + 1] = part
            BY <2>2, <4>1 DEF PartAdded
          <5> QED
            BY <5>1
        <4>2. CASE wire[r] # <<>>
          <5>1. \A i \in DOMAIN wire[r] : wire[r][i] = "200" <=> i = 1
            BY <1>8 DEF RunInv, WireShape, Heads
          <5> QED
            BY <1>8, <2>2, <4>2, <5>1 DEF PartAdded
        <4> QED
          BY <4>1, <4>2
      <3>2. ASSUME NEW i \in DOMAIN wire'[r]
            PROVE  /\ wire'[r][i] \in {"200", "delta", "finish"}
                   /\ wire'[r][i] = "200" <=> i = 1
                   /\ wire'[r][i] = "finish" => i = n + 1
        <4>1. CASE i \in 1..n
          BY <3>1, <4>1
        <4>2. CASE i = n + 1
          BY <3>1, <4>2
        <4> QED
          BY <3>1, <4>1, <4>2
      <3>3. Len(wire'[r]) = n + 1
        BY <3>1
      <3>4. n \in Nat /\ DOMAIN wire'[r] \subseteq Nat
        BY <3>1
      <3> QED
        BY <1>1, <3>2, <3>3, <3>4 DEF WireShape, Heads, Verdicts
    <2> QED
      BY <1>9, <2>1, <2>2
  <1>16. Placed(r)'
    BY <1>1 DEF RunInv, Placed, KeepsDecode
  <1>17. CancelledByClient(r)'
    BY <1>1, <1>3 DEF RunInv, CancelledByClient, isCancelled, KeepsDecode
  <1>18. EndedOnce(r)'
    BY <1>1, <1>3 DEF RunInv, EndedOnce, KeepsDecode
  <1> QED
    BY <1>12, <1>14, <1>15, <1>16, <1>17, <1>18 DEF RunInv

\* streamSSE ends a response: behind a finish frame, or with an error, or to nobody.
LEMMA ReadEndKeeps ==
    ASSUME TypeOK, AdmissionOK, NEW r \in Requests, RunInv(r), ReadEnd(r)
    PROVE  RunInv(r)'
  <1>1. /\ KeepsDecode(r)
        /\ status'[r] = status[r] /\ (r \in withdrawn' <=> r \in withdrawn)
        /\ pc'[r] = pc[r] /\ error'[r] = error[r]
        /\ terminalCancelled'[r] = terminalCancelled[r]
        /\ log'[r] = log[r] /\ outcome'[r] = outcome[r]
        /\ stream'[r] = stream[r] /\ connected'[r] = connected[r]
        /\ consumer[r] = "reading" /\ consumer'[r] = "closed"
        /\ stream[r].buffer = <<>> /\ stream[r].end # "open"
    BY DEF ReadEnd, admission, producer, vmlx, books, KeepsDecode, TypeOK
  <1>2. wire[r] \in Seq(Frames)
    BY DEF TypeOK
  <1>3. Promised(r) <=> HasFinish(wire[r])
    BY <1>1 DEF Promised, HasFinish
  <1>4. CASE ~connected[r]
    <2>1. wire'[r] = wire[r]
      BY <1>4, PartReaches, ReadEndSends
    <2>2. (Promised(r)' <=> Promised(r)) /\ FinishIsLast(r)'
      BY <1>1, <2>1 DEF RunInv, Promised, HasFinish, FinishIsLast
    <2>3. WireShape(r)'
      BY <1>1, <1>4, <2>1 DEF RunInv, WireShape
    <2>4. PromiseKept(r)'
      BY <1>1, <2>2 DEF RunInv, PromiseKept, KeepsDecode
    <2> QED
      BY <1>1, <2>2, <2>3, <2>4
         DEF RunInv, Placed, CancelledByClient, EndedOnce, isCancelled, KeepsDecode
  <1>5. CASE connected[r] /\ stream[r].end = "finished"
    <2>1. HasFinish(wire[r])
      BY <1>3, <1>5 DEF RunInv, PromiseKept
    <2>2. wire[r] # <<>> /\ PartAdded(r, "end")
      <3>1. "end" \in Frames
        BY DEF Frames
      <3> QED
        BY <1>5, <2>1, <3>1, PartReaches, ReadEndSends DEF HasFinish
    <2>3. HasFinish(wire'[r])
      BY <2>1, <2>2 DEF PartAdded, HasFinish
    <2>4. (Promised(r)' <=> Promised(r)) /\ FinishIsLast(r)'
      BY <1>1, <1>3, <2>1, <2>3 DEF Promised, FinishIsLast, HasFinish
    <2>5. WireShape(r)'
      <3> DEFINE n == Len(wire[r])
      <3>1. /\ n \in Nat /\ n >= 1 /\ DOMAIN wire[r] = 1..n
            /\ DOMAIN wire'[r] = 1..(n + 1) /\ Len(wire'[r]) = n + 1
            /\ \A i \in 1..n : wire'[r][i] = wire[r][i]
            /\ wire'[r][n + 1] = "end"
        BY <2>2 DEF PartAdded
      <3>2. ASSUME NEW i \in 1..n
            PROVE  /\ wire[r][i] \in {"200", "delta", "finish"}
                   /\ wire[r][i] = "finish" => i = n
                   /\ wire[r][i] = "200" <=> i = 1
        <4>1. i \in DOMAIN wire[r]
          BY <3>1
        <4>2. /\ wire[r][i] \in {"200", "delta", "finish"}
              /\ wire[r][i] = "finish" => i = n
          BY <1>1, <4>1 DEF RunInv, WireShape
        <4>3. wire[r][i] \in Heads <=> i = 1
          BY <4>1 DEF RunInv, WireShape
        <4> QED
          BY <4>2, <4>3 DEF Heads
      <3>3. n \in DOMAIN wire'[r] /\ wire'[r][n] = "finish"
        <4>1. PICK i \in 1..n : wire[r][i] = "finish"
          BY <2>1, <3>1 DEF HasFinish
        <4>2. i = n /\ wire'[r][i] = "finish" /\ n \in 1..(n + 1)
          BY <3>1, <3>2, <4>1
        <4> HIDE DEF n
        <4> QED
          BY <3>1, <4>2
      <3> HIDE DEF n
      <3>5. ASSUME NEW i \in DOMAIN wire'[r]
            PROVE  /\ wire'[r][i] \in {"200", "delta", "finish", "end"}
                   /\ wire'[r][i] = "200" <=> i = 1
                   /\ wire'[r][i] = "finish" => i = n
                   /\ wire'[r][i] = "end" => i = n + 1
        <4>1. CASE i \in 1..n
          <5>1. wire'[r][i] = wire[r][i] /\ n \in Nat
            BY <3>1, <4>1
          <5> QED
            BY <3>2, <4>1, <5>1
        <4>2. CASE i = n + 1
          BY <3>1, <4>2
        <4> QED
          BY <3>1, <4>1, <4>2
      <3>6. n \in Nat /\ DOMAIN wire'[r] \subseteq Nat /\ Len(wire'[r]) = n + 1
        BY <3>1
      <3> QED
        BY <1>1, <3>3, <3>5, <3>6 DEF WireShape, Heads, Verdicts
    <2>6. PromiseKept(r)'
      BY <1>1, <2>4 DEF RunInv, PromiseKept, KeepsDecode
    <2> QED
      BY <1>1, <2>4, <2>5, <2>6
         DEF RunInv, Placed, CancelledByClient, EndedOnce, isCancelled, KeepsDecode
  <1>6. CASE connected[r] /\ stream[r].end # "finished"
    <2>1. stream[r].end \in {"engine", "admission"}
      BY <1>1, <1>6 DEF RunInv, CancelledByClient, EndedOnce
    <2>2. ~HasFinish(wire[r])
      BY <1>3, <1>6 DEF RunInv, PromiseKept
    <2>3. \E e \in {"errorStatus", "stream_error"} :
             /\ e = "errorStatus" <=> wire[r] = <<>>
             /\ wire'[r] = wire[r] \o <<e, "end">>
      <3>1. \A parts : Send(r, parts) => wire'[r] = wire[r] \o parts
        BY <1>6 DEF Send, TypeOK
      <3> QED
        BY <2>1, <3>1, ReadEndSends
    <2>4. PICK e \in {"errorStatus", "stream_error"} :
             /\ e = "errorStatus" <=> wire[r] = <<>>
             /\ wire'[r] = wire[r] \o <<e, "end">>
      BY <2>3
    <2>5. \A s \in Seq(Frames) :
             /\ Len(s) \in Nat /\ DOMAIN s = 1..Len(s)
             /\ Len(s \o <<e, "end">>) = Len(s) + 2
             /\ DOMAIN (s \o <<e, "end">>) = 1..(Len(s) + 2)
             /\ \A i \in 1..Len(s) : (s \o <<e, "end">>)[i] = s[i]
             /\ (s \o <<e, "end">>)[Len(s) + 1] = e
             /\ (s \o <<e, "end">>)[Len(s) + 2] = "end"
             /\ s = <<>> <=> Len(s) = 0
      OBVIOUS
    <2>6. /\ Len(wire[r]) \in Nat /\ DOMAIN wire[r] = 1..Len(wire[r])
          /\ Len(wire'[r]) = Len(wire[r]) + 2
          /\ DOMAIN wire'[r] = 1..(Len(wire[r]) + 2)
          /\ \A i \in 1..Len(wire[r]) : wire'[r][i] = wire[r][i]
          /\ wire'[r][Len(wire[r]) + 1] = e
          /\ wire'[r][Len(wire[r]) + 2] = "end"
          /\ e = "errorStatus" <=> Len(wire[r]) = 0
      BY <1>2, <2>4, <2>5
    <2>7. ~HasFinish(wire'[r])
      BY <2>2, <2>6 DEF HasFinish
    <2>8. ~Promised(r)' /\ ~Promised(r) /\ FinishIsLast(r)'
      BY <1>1, <1>3, <2>2, <2>7 DEF Promised, FinishIsLast, HasFinish
    <2>9. WireShape(r)'
      <3>1. \A i \in DOMAIN wire[r] : wire[r][i] \in {"200", "delta"}
        BY <1>1, <2>2 DEF RunInv, WireShape, HasFinish
      <3>2. \A i \in DOMAIN wire[r] : wire[r][i] \in Heads <=> i = 1
        BY DEF RunInv, WireShape
      <3>3. /\ \A i \in DOMAIN wire'[r] :
                  wire'[r][i] \in Verdicts <=> i = Len(wire[r]) + 1
            /\ \A i \in DOMAIN wire'[r] : wire'[r][i] = "end" <=> i = Len(wire[r]) + 2
            /\ \A i \in DOMAIN wire'[r] : wire'[r][i] \in Heads <=> i = 1
        <4> DEFINE n == Len(wire[r])
        <4> HIDE DEF n
        <4>1. ASSUME NEW i \in 1..(n + 2)
              PROVE  /\ wire'[r][i] \in Verdicts <=> i = n + 1
                     /\ wire'[r][i] = "end" <=> i = n + 2
                     /\ wire'[r][i] \in Heads <=> i = 1
          <5>1. CASE i \in 1..n
            <6>1. i \in DOMAIN wire[r] /\ wire'[r][i] = wire[r][i]
              BY <2>6, <5>1 DEF n
            <6>2. i # n + 1 /\ i # n + 2
              BY <2>6, <5>1 DEF n
            <6> QED
              BY <3>1, <3>2, <6>1, <6>2 DEF Verdicts
          <5>2. CASE i = n + 1
            <6>1. wire'[r][i] = e /\ n \in Nat /\ (e = "errorStatus" <=> n = 0)
              BY <2>6, <5>2 DEF n
            <6> QED
              BY <5>2, <6>1 DEF Heads, Verdicts
          <5>3. CASE i = n + 2
            BY <2>6, <5>3 DEF n, Heads, Verdicts
          <5> QED
            BY <2>6, <5>1, <5>2, <5>3 DEF n
        <4> QED
          BY <2>6, <4>1 DEF n
      <3>4. Len(wire[r]) + 1 \in DOMAIN wire'[r]
        BY <2>6
      <3> QED
        BY <1>1, <2>6, <3>3, <3>4 DEF WireShape
    <2>10. PromiseKept(r)'
      BY <1>1, <1>6, <2>8 DEF RunInv, PromiseKept, KeepsDecode
    <2> QED
      BY <1>1, <2>8, <2>9, <2>10
         DEF RunInv, Placed, CancelledByClient, EndedOnce, isCancelled, KeepsDecode
  <1> QED
    BY <1>4, <1>5, <1>6

-----------------------------------------------------------------------------
(* The invariant                                                           *)

\* The invariant holds before the first request.
LEMMA InitInv == Init => IInv
  <1> SUFFICES ASSUME Init PROVE IInv
    OBVIOUS
  <1>1. TypeOK
    BY InitType
  <1>2. AdmissionOK
    <2>1. {r \in Requests : status[r] = "holding"} = {}
      BY DEF Init, Admission!Init
    <2>2. Cardinality({r \in Requests : status[r] = "holding"}) = 0
      BY <2>1, FS_EmptySet
    <2>3. /\ status \in [Requests -> {"outside", "queued", "holding", "gone"}]
          /\ withdrawn \subseteq Requests
      BY DEF Init, Admission!Init
    <2> QED
      BY <2>2, <2>3, SlotAssumption DEF AdmissionOK
  <1>3. ASSUME NEW r \in Requests PROVE RunInv(r)
    <2>1. /\ status[r] = "outside" /\ withdrawn = {}
          /\ pc[r] = "submit" /\ error[r] = "none" /\ terminalCancelled[r] = FALSE
          /\ gpu[r] = "idle" /\ info[r] = "none" /\ truncated[r] = FALSE
          /\ rejected[r] = FALSE /\ stream[r].buffer = <<>> /\ stream[r].end = "open"
          /\ consumer[r] = "reading" /\ connected[r] = TRUE /\ wire[r] = <<>>
          /\ log[r] = <<>> /\ outcome[r] = "none"
      BY DEF Init, Admission!Init
    <2>2. Placed(r)
      BY <2>1 DEF Placed, Working
    <2>3. CancelledByClient(r)
      BY <2>1 DEF CancelledByClient, isCancelled
    <2>4. EndedOnce(r)
      BY <2>1 DEF EndedOnce
    <2>5. ~HasFinish(stream[r].buffer) /\ ~HasFinish(wire[r])
      BY <2>1 DEF HasFinish
    <2>6. PromiseKept(r)
      BY <2>1, <2>5 DEF PromiseKept, Promised
    <2>7. FinishIsLast(r) /\ WireShape(r)
      BY <2>1, <2>5 DEF FinishIsLast, WireShape
    <2> QED
      BY <2>2, <2>3, <2>4, <2>6, <2>7 DEF RunInv
  <1> QED
    BY <1>1, <1>2, <1>3 DEF IInv

\* Every step keeps it: of the request that acts, action by action, and of the others.
LEMMA NextInv == IInv /\ [Next]_vars => IInv'
  <1> SUFFICES ASSUME IInv, [Next]_vars PROVE IInv'
    OBVIOUS
  <1>1. TypeOK /\ AdmissionOK /\ \A r \in Requests : RunInv(r)
    BY DEF IInv
  <1>2. TypeOK'
    BY NextType
  <1>3. AdmissionOK'
    <2>1. CASE Admission!Next
      BY <1>1, <2>1, ContractKeepsSlots
    <2>2. CASE UNCHANGED admission
      BY <1>1, <2>2 DEF admission, AdmissionOK
    <2> QED
      BY <2>1, <2>2, StepIsAdmission
  <1>4. ASSUME UNCHANGED vars, NEW q \in Requests PROVE RunInv(q)'
    <2>1. Untouched(q)
      BY <1>4 DEF vars, admission, producer, vmlx, client, books, Untouched
    <2> QED
      BY <1>1, <2>1, Bystander
  <1>5. ASSUME NEW r \in Requests, NEW q \in Requests,
               \/ Producer(r) \/ HandleItem(r) \/ StopDecode(r, TRUE)
               \/ StopDecode(r, FALSE) \/ Drain(r) \/ Consumer(r) \/ Disconnect(r)
        PROVE  RunInv(q)'
    <2>1. CASE q # r
      <3>1. Untouched(q)
        BY <1>1, <1>5, <2>1, OthersUntouched
      <3> QED
        BY <1>1, <3>1, Bystander
    <2>2. CASE q = r
      <3>1. CASE \/ Submit(r) \/ SubmitRefused(r) \/ LeaveQueue(r) \/ CancelBeforeStart(r)
                 \/ Start(r)
        BY <1>1, <2>2, <3>1, SubmitKeeps
      <3>2. CASE \/ Prepare(r) \/ Prefill(r) \/ HandleInfo(r) \/ LoopEnds(r)
                 \/ AwaitTask(r) \/ Settle(r) \/ Fallback(r)
        BY <1>1, <2>2, <3>2, EngineKeeps
      <3>3. CASE Log(r) \/ Release(r) \/ CloseStream(r)
        BY <1>1, <2>2, <3>3, ClosingKeeps
      <3>4. CASE StopDecode(r, TRUE) \/ StopDecode(r, FALSE) \/ Drain(r)
        BY <1>1, <2>2, <3>4, DecodeKeeps
      <3>5. CASE Disconnect(r) \/ StreamCancelled(r)
        BY <1>1, <2>2, <3>5, DisconnectKeeps
      <3>6. CASE HandleItem(r)
        BY <1>1, <2>2, <3>6, ItemKeeps
      <3>7. CASE FinishStream(r)
        BY <1>1, <2>2, <3>7, FinishKeeps
      <3>8. CASE ReadEvent(r)
        BY <1>1, <2>2, <3>8, ReadEventKeeps
      <3>9. CASE ReadEnd(r)
        BY <1>1, <2>2, <3>9, ReadEndKeeps
      <3> QED
        BY <1>5, <3>1, <3>2, <3>3, <3>4, <3>5, <3>6, <3>7, <3>8, <3>9
           DEF Producer, OnEngine, Consumer
    <2> QED
      BY <2>1, <2>2
  <1>6. \A q \in Requests : RunInv(q)'
    BY <1>4, <1>5 DEF Next, Quiescent
  <1> QED
    BY <1>2, <1>3, <1>6 DEF IInv

\* The inductive invariant of a streaming run.
THEOREM Invariance == Spec => []IInv
  BY InitInv, NextInv, PTL DEF Spec

-----------------------------------------------------------------------------
(* What it means for the client and for the slot                           *)

\* Every variable has its type in every behaviour.
THEOREM TypeCorrect == Spec => []TypeOK
  <1>1. IInv => TypeOK
    BY DEF IInv
  <1> QED
    BY <1>1, Invariance, PTL

\* Whatever ended the stream for the client, prefill, decode and the drain after them run
\* under a slot: a cancelled generation never overlaps the one that follows it.
THEOREM GenerationsDoNotOverlap == Spec => []GpuUnderSlot
  <1>1. IInv => GpuUnderSlot
    <2> SUFFICES ASSUME IInv PROVE GpuUnderSlot
      OBVIOUS
    <2> DEFINE Slots == {r \in Requests : status[r] = "holding"}
    <2>1. \A r \in OnGPU : r \in Requests /\ status[r] = "holding"
      BY DEF IInv, RunInv, Placed, Working, OnGPU
    <2>2. IsFiniteSet(Slots) /\ OnGPU \subseteq Slots
      BY <2>1, RequestsAssumption, FS_Subset
    <2>3. /\ Cardinality(OnGPU) <= Cardinality(Slots)
          /\ Cardinality(OnGPU) \in Nat /\ Cardinality(Slots) \in Nat
      BY <2>2, FS_Subset, FS_CardinalityType
    <2>4. Cardinality(Slots) <= MaxActiveGenerations
      BY DEF IInv, AdmissionOK
    <2> HIDE DEF Slots
    <2>5. Cardinality(OnGPU) <= MaxActiveGenerations
      BY <2>3, <2>4, SlotAssumption
    <2> QED
      BY <2>1, <2>5 DEF GpuUnderSlot
  <1> QED
    BY <1>1, Invariance, PTL

\* If no two parts of a response are of a kind there is at most one, and one if any.
LEMMA CountOne ==
    ASSUME NEW r, NEW parts,
           \A i, j \in DOMAIN wire[r] :
              wire[r][i] \in parts /\ wire[r][j] \in parts => i = j
    PROVE  /\ Count(r, parts) \in {0, 1}
           /\ (\E i \in DOMAIN wire[r] : wire[r][i] \in parts) => Count(r, parts) = 1
  <1> DEFINE S == {i \in DOMAIN wire[r] : wire[r][i] \in parts}
  <1>1. CASE S = {}
    BY <1>1, FS_EmptySet DEF Count
  <1>2. ASSUME NEW i \in S PROVE Count(r, parts) = 1
    <2>1. S = {i}
      OBVIOUS
    <2> QED
      BY <2>1, FS_Singleton DEF Count
  <1> QED
    BY <1>1, <1>2

\* A response has one head, first, at most one verdict, and nothing after its end.
THEOREM ResponsesAreWellFormed == Spec => []WireWellFormed
  <1>1. IInv => WireWellFormed
    <2> SUFFICES ASSUME IInv, NEW r \in Requests
                 PROVE  /\ wire[r] # <<>> => wire[r][1] \in {"200", "errorStatus"}
                        /\ Count(r, {"200", "errorStatus"}) <= 1
                        /\ Count(r, {"finish", "stream_error"}) <= 1
                        /\ \A i \in DOMAIN wire[r] :
                              /\ wire[r][i] = "end" => i = Len(wire[r])
                              /\ wire[r][i] \in {"errorStatus", "finish", "stream_error"}
                                    => Len(wire[r]) <= i + 1
      BY DEF WireWellFormed
    <2>1. WireShape(r) /\ wire[r] \in Seq(Frames)
      BY DEF IInv, RunInv, TypeOK
    <2>2. wire[r] # <<>> => 1 \in DOMAIN wire[r]
      BY <2>1
    <2>3. Count(r, Heads) \in {0, 1}
      BY <2>1, CountOne DEF WireShape
    <2>4. Count(r, {"finish", "stream_error"}) \in {0, 1}
      BY <2>1, CountOne DEF WireShape, Verdicts
    <2> QED
      BY <2>1, <2>2, <2>3, <2>4 DEF WireShape, Heads, Verdicts
  <1> QED
    BY <1>1, Invariance, PTL

\* A finish frame is sent for no answer that was cut short or that its constraint
\* rejected, and a client that stays is told how its answer ended, once.
THEOREM NoSuccessIsFalse == Spec => []NoFalseSuccess
  <1>1. IInv => NoFalseSuccess
    <2> SUFFICES ASSUME IInv, NEW r \in Requests
                 PROVE  /\ Sent(r, "finish") => ~truncated[r] /\ ~rejected[r]
                        /\ connected[r] /\ consumer[r] = "closed"
                              => Count(r, {"finish", "stream_error", "errorStatus"}) = 1
      BY DEF NoFalseSuccess
    <2>1. PromiseKept(r) /\ WireShape(r)
      BY DEF IInv, RunInv
    <2>2. Sent(r, "finish") => Promised(r)
      BY DEF Sent, Promised, HasFinish
    <2>3. connected[r] /\ consumer[r] = "closed" => Count(r, Verdicts) = 1
      BY <2>1, CountOne DEF WireShape
    <2> QED
      BY <2>1, <2>2, <2>3 DEF PromiseKept, Verdicts
  <1> QED
    BY <1>1, Invariance, PTL

\* A run whose client has its finish frame is accounted as completed and logged as
\* finished, whatever happens between the frame and the release of the slot.
THEOREM FinishesAreHonest == Spec => []FinishIsHonest
  <1>1. IInv => FinishIsHonest
    <2> SUFFICES ASSUME IInv, NEW r \in Requests, Sent(r, "finish"), outcome[r] # "none"
                 PROVE  outcome[r] = "completed" /\ log[r] = <<"finished">>
      BY DEF FinishIsHonest
    <2>1. PromiseKept(r) /\ EndedOnce(r) /\ Promised(r)
      BY DEF IInv, RunInv, Sent, Promised, HasFinish
    <2> QED
      BY <2>1 DEF PromiseKept, EndedOnce
  <1> QED
    BY <1>1, Invariance, PTL

\* Streaming runs use admission only through its contract: what they do to the queue and
\* the slots is a behaviour of it, so what the contract promises holds for them.
THEOREM UsesTheContract == Spec => Admission!Spec
  <1>1. Init => Admission!Init
    BY DEF Init
  <1> QED
    BY <1>1, StepIsAdmission, PTL DEF Spec, Admission!Spec, admission, Admission!vars

=============================================================================
