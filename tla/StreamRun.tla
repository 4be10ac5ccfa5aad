------------------------------ MODULE StreamRun -----------------------------
(***************************************************************************)
(* One streaming chat request, end to end: streamSSE (HTTPServer.swift),   *)
(* the AsyncThrowingStream of makeCancellableStream, the producer task     *)
(* running runStreamingLocked (Engine.swift) inside submit, and vmlx's     *)
(* generation task, for several requests that share the inference slots.   *)
(*                                                                         *)
(* Admission is AdmissionContract, which RequestScheduler is proved to     *)
(* implement; its withdrawn set is Task.isCancelled of the producer tasks. *)
(* vmlx is external: a task that decodes, may emit .info, drains and ends, *)
(* and that stops decoding early only when it was cancelled.               *)
(*                                                                         *)
(* Operators named X_Y are deliberate bugs Y in the operator X that        *)
(* follows; no specification uses them.                                    *)
(*                                                                         *)
(* Abstracted: the text of events and frames (an event is visible or not), *)
(* prompt rendering and anchors (one step that may throw), timings.        *)
(***************************************************************************)
EXTENDS Integers, Sequences, FiniteSets

CONSTANTS Requests, MaxActiveGenerations, MaxQueueDepth, BoundedWait,
    MaxItems     \* bound on the chunks and ticks of one generation

ASSUME RequestsAssumption == IsFiniteSet(Requests)
ASSUME SlotAssumption == MaxActiveGenerations \in Nat
ASSUME ItemsAssumption == MaxItems \in Nat

VARIABLES
    status, class, ahead, withdrawn,  \* admission, see AdmissionContract
    pc,                 \* where the producer task is
    error,              \* what the producer is throwing, or "none"
    terminalCancelled,  \* runStreamingLocked's local of that name
    gpu,                \* "idle", "prefill", "decode", "drain", "done"
    info,               \* vmlx's .info: "none", "pending", "handled", "dropped"
    truncated,          \* vmlx stopped decoding because it was cancelled
    rejected,           \* postGenerationError is non-nil for this run
    items,              \* events emitted so far
    stream,             \* the AsyncThrowingStream: its buffer and how it ended
    consumer,           \* streamSSE: "reading" or "closed"
    connected,          \* the channel is active; FALSE cancels the handler's task
    wire,               \* the response parts the client was sent
    log,                \* request-log lines of this run
    outcome             \* how submit accounted for the run

Admission == INSTANCE AdmissionContract
admission == <<status, class, ahead, withdrawn>>
producer == <<pc, error, terminalCancelled>>
vmlx == <<gpu, info, truncated, rejected, items>>
client == <<consumer, connected, wire>>
books == <<log, outcome>>
vars == <<admission, producer, vmlx, stream, client, books>>

isCancelled(r) == r \in withdrawn

Errors == {"none", "engine", "admission", "cancellation"}
PCs == {"submit", "submitted", "prefill", "prepare", "streaming", "finishing",
        "draining", "settle", "fallback", "logging", "unwinding", "closing", "done"}
Streams == [buffer : Seq({"visible", "invisible", "finish"}),
            end : {"open", "finished", "cancelled"} \cup Errors]
Frames == {"200", "errorStatus", "delta", "finish", "stream_error", "end"}
LogLines == {<<>>, <<"cancelled">>, <<"finished">>}

TypeOK ==
    /\ pc \in [Requests -> PCs]
    /\ error \in [Requests -> Errors]
    /\ terminalCancelled \in [Requests -> BOOLEAN]
    /\ gpu \in [Requests -> {"idle", "prefill", "decode", "drain", "done"}]
    /\ info \in [Requests -> {"none", "pending", "handled", "dropped"}]
    /\ truncated \in [Requests -> BOOLEAN]
    /\ rejected \in [Requests -> BOOLEAN]
    /\ items \in [Requests -> 0..MaxItems]
    /\ stream \in [Requests -> Streams]
    /\ consumer \in [Requests -> {"reading", "closed"}]
    /\ connected \in [Requests -> BOOLEAN]
    /\ wire \in [Requests -> Seq(Frames)]
    /\ log \in [Requests -> LogLines]
    /\ outcome \in [Requests -> {"none", "completed", "failed", "cancelledActive",
                                 "notRun"}]

Init ==
    /\ Admission!Init
    /\ pc = [r \in Requests |-> "submit"]
    /\ error = [r \in Requests |-> "none"]
    /\ terminalCancelled = [r \in Requests |-> FALSE]
    /\ gpu = [r \in Requests |-> "idle"]
    /\ info = [r \in Requests |-> "none"]
    /\ truncated = [r \in Requests |-> FALSE]
    /\ rejected = [r \in Requests |-> FALSE]
    /\ items = [r \in Requests |-> 0]
    /\ stream = [r \in Requests |-> [buffer |-> <<>>, end |-> "open"]]
    /\ consumer = [r \in Requests |-> "reading"]
    /\ connected = [r \in Requests |-> TRUE]
    /\ wire = [r \in Requests |-> <<>>]
    /\ log = [r \in Requests |-> <<>>]
    /\ outcome = [r \in Requests |-> "none"]

-----------------------------------------------------------------------------
(* The AsyncThrowingStream                                                 *)

\* continuation.yield and finish do nothing on a stream that has ended.
Yield(r, event) ==
    IF stream[r].end = "open"
    THEN [stream EXCEPT ![r].buffer = Append(@, event)] ELSE stream

\* A stream ends once; its buffered events are still delivered.
EndStream(s, how) == IF s.end = "open" THEN [s EXCEPT !.end = how] ELSE s

TerminationCancels_Never(how) == FALSE
TerminationCancels_Always(how) == TRUE

\* onTermination: which of the stream's ends cancel the producer task.
TerminationCancels(how) == how = "cancelled"

OnTermination(r, how) ==
    IF TerminationCancels(how) /\ status[r] # "gone"
    THEN Admission!Withdraw(r) ELSE UNCHANGED admission

-----------------------------------------------------------------------------
(* The producer task: submit and runStreamingLocked                        *)

Goto(r, label) == pc' = [pc EXCEPT ![r] = label]

Throw(r, e, label) ==
    /\ error' = [error EXCEPT ![r] = e]
    /\ Goto(r, label)

\* The slot goes back, and in the same actor job to the next in line.
GiveSlotBack(r) ==
    \/ Admission!Vacate(r)
    \/ \E w \in Requests : Admission!HandOver(r, w)

\* submit throws before the operation ran: refused, or cancelled in the queue.
Refuse(r, e) ==
    /\ Throw(r, e, "closing")
    /\ outcome' = [outcome EXCEPT ![r] = "notRun"]
    /\ UNCHANGED <<terminalCancelled, vmlx, stream, client, log>>

Submit(r) ==
    /\ pc[r] = "submit"
    /\ ~isCancelled(r)
    /\ \E c \in {"interactive", "background"} :
          Admission!Admit(r, c) \/ Admission!Join(r, c)
    /\ Goto(r, "submitted")
    /\ UNCHANGED <<error, terminalCancelled, vmlx, stream, client, books>>

SubmitRefused(r) ==
    /\ pc[r] = "submit"
    /\ \E c \in {"interactive", "background"} : Admission!TurnAway(r, c)
    /\ Refuse(r, IF isCancelled(r) THEN "cancellation" ELSE "admission")

LeaveQueue(r) ==
    /\ pc[r] = "submitted"
    /\ Admission!Leave(r)
    /\ \/ isCancelled(r) /\ Refuse(r, "cancellation")
       \/ BoundedWait /\ Refuse(r, "admission")

CancelBeforeStart(r) ==
    /\ pc[r] = "submitted"
    /\ status[r] = "holding"
    /\ isCancelled(r)
    /\ GiveSlotBack(r)
    /\ Refuse(r, "cancellation")

Start(r) ==
    /\ pc[r] = "submitted"
    /\ status[r] = "holding"
    /\ ~isCancelled(r)
    /\ Goto(r, "prepare")
    /\ UNCHANGED <<admission, error, terminalCancelled, vmlx, stream, client, books>>

\* checkCancellation, the structured plan, the prompt and its anchors: throws, or
\* reaches TokenIterator's synchronous prefill.
Prepare(r) ==
    /\ pc[r] = "prepare"
    /\ \/ isCancelled(r) /\ Throw(r, "cancellation", "unwinding") /\ UNCHANGED gpu
       \/ Throw(r, "engine", "unwinding") /\ UNCHANGED gpu
       \/ Goto(r, "prefill") /\ gpu' = [gpu EXCEPT ![r] = "prefill"] /\ UNCHANGED error
    /\ UNCHANGED <<admission, terminalCancelled, info, truncated, rejected, items,
                   stream, client, books>>

\* The prefill checks for cancellation between chunks; when it succeeds
\* generateTask is launched.
Prefill(r) ==
    /\ pc[r] = "prefill"
    /\ \/ /\ isCancelled(r) /\ Throw(r, "cancellation", "unwinding")
          /\ gpu' = [gpu EXCEPT ![r] = "idle"]
       \/ /\ Throw(r, "engine", "unwinding")
          /\ gpu' = [gpu EXCEPT ![r] = "idle"]
       \/ /\ Goto(r, "streaming") /\ UNCHANGED error
          /\ gpu' = [gpu EXCEPT ![r] = "decode"]
    /\ UNCHANGED <<admission, terminalCancelled, info, truncated, rejected, items,
                   stream, client, books>>

\* A chunk, tool call, reasoning delta or prefill tick passes through the loop.
HandleItem(r) ==
    /\ pc[r] = "streaming"
    /\ gpu[r] = "decode"
    /\ items[r] < MaxItems
    /\ items' = [items EXCEPT ![r] = @ + 1]
    /\ \E event \in {"visible", "invisible"} : stream' = Yield(r, event)
    /\ UNCHANGED <<admission, producer, gpu, info, truncated, rejected, client, books>>

HandleInfo_IgnoresRejection(r) ==
    /\ pc[r] = "streaming"
    /\ info[r] = "pending"
    /\ info' = [info EXCEPT ![r] = "handled"]
    /\ terminalCancelled' = [terminalCancelled EXCEPT ![r] = isCancelled(r)]
    /\ Goto(r, "finishing")
    /\ UNCHANGED <<admission, error, gpu, truncated, rejected, items, stream, client,
                   books>>

\* The .info case: a failed constraint leaves the loop; otherwise Task.isCancelled
\* decides, here, whether the client gets its finish event.
HandleInfo(r) ==
    /\ pc[r] = "streaming"
    /\ info[r] = "pending"
    /\ IF rejected[r]
         THEN /\ info' = [info EXCEPT ![r] = "dropped"]
              /\ Goto(r, "draining")
              /\ UNCHANGED terminalCancelled
         ELSE /\ info' = [info EXCEPT ![r] = "handled"]
              /\ terminalCancelled' = [terminalCancelled EXCEPT ![r] = isCancelled(r)]
              /\ Goto(r, "finishing")
    /\ UNCHANGED <<admission, error, gpu, truncated, rejected, items, stream, client,
                   books>>

\* yield(.finish) unless cancelled, then finish(): on another thread the consumer
\* may have cancelled since the check.
FinishStream(r) ==
    /\ pc[r] = "finishing"
    /\ stream' = LET yielded == IF terminalCancelled[r] THEN stream ELSE Yield(r, "finish")
                 IN [yielded EXCEPT ![r] = EndStream(@, "finished")]
    /\ IF stream[r].end = "open" THEN OnTermination(r, "finished") ELSE UNCHANGED admission
    /\ Goto(r, IF info[r] = "handled" THEN "draining" ELSE "logging")
    /\ UNCHANGED <<error, terminalCancelled, vmlx, client, books>>

\* The loop over vmlx's stream ends without .info: at the stream's end, or at once
\* when the producer task is cancelled (what vmlx yields later is dropped).
LoopEnds(r) ==
    /\ pc[r] = "streaming"
    /\ info[r] = "none"
    /\ gpu[r] = "done" \/ isCancelled(r)
    /\ Goto(r, "draining")
    /\ UNCHANGED <<admission, error, terminalCancelled, vmlx, stream, client, books>>

AwaitTask_SkipsDrain(r) ==
    /\ pc[r] = "draining"
    /\ Goto(r, "settle")
    /\ UNCHANGED <<admission, error, terminalCancelled, vmlx, stream, client, books>>

\* task.value returns: vmlx has drained the GPU and stored the cache.
AwaitTask(r) ==
    /\ pc[r] = "draining"
    /\ gpu[r] = "done"
    /\ Goto(r, "settle")
    /\ UNCHANGED <<admission, error, terminalCancelled, vmlx, stream, client, books>>

\* After the task: a rejected answer fails the stream unless the run was cancelled.
Settle(r) ==
    /\ pc[r] = "settle"
    /\ IF ~isCancelled(r) /\ rejected[r]
         THEN Throw(r, "engine", "unwinding")
         ELSE /\ Goto(r, IF info[r] = "handled" THEN "logging" ELSE "fallback")
              /\ UNCHANGED error
    /\ UNCHANGED <<admission, terminalCancelled, vmlx, stream, client, books>>

\* No .info was handled: the terminal frame is decided here.
Fallback(r) ==
    /\ pc[r] = "fallback"
    /\ terminalCancelled' = [terminalCancelled EXCEPT ![r] = isCancelled(r)]
    /\ Goto(r, "finishing")
    /\ UNCHANGED <<admission, error, vmlx, stream, client, books>>

\* RequestLog.record, for every run that does not throw.
Log(r) ==
    /\ pc[r] = "logging"
    /\ log' = [log EXCEPT ![r] =
                  Append(@, IF terminalCancelled[r] THEN "cancelled" ELSE "finished")]
    /\ Goto(r, "unwinding")
    /\ UNCHANGED <<admission, error, terminalCancelled, vmlx, stream, client, outcome>>

\* Back on the scheduler: release(grant:outcome:).
Release(r) ==
    /\ pc[r] = "unwinding"
    /\ GiveSlotBack(r)
    /\ outcome' = [outcome EXCEPT ![r] =
                     IF isCancelled(r) \/ error[r] = "cancellation" THEN "cancelledActive"
                     ELSE IF error[r] = "none" THEN "completed" ELSE "failed"]
    /\ Goto(r, "closing")
    /\ UNCHANGED <<error, terminalCancelled, vmlx, stream, client, log>>

\* makeCancellableStream: finish() or finish(throwing:) for a body that has not.
CloseStream(r) ==
    /\ pc[r] = "closing"
    /\ stream' = [stream EXCEPT ![r] =
                    EndStream(@, IF error[r] = "none" THEN "finished" ELSE error[r])]
    /\ Goto(r, "done")
    /\ UNCHANGED <<admission, error, terminalCancelled, vmlx, client, books>>

-----------------------------------------------------------------------------
(* vmlx's generation task (external)                                       *)

\* The decode loop ends: on its own, or between tokens because onCancel has
\* cancelled the task.  .info may be missing from a failed producer.
StopDecode(r, cut) ==
    /\ gpu[r] = "decode"
    /\ cut => isCancelled(r)
    /\ gpu' = [gpu EXCEPT ![r] = "drain"]
    /\ truncated' = [truncated EXCEPT ![r] = cut]
    /\ \E b \in BOOLEAN : rejected' = [rejected EXCEPT ![r] = b]
    /\ \E i \in {"none", "pending"} : info' = [info EXCEPT ![r] = i]
    /\ UNCHANGED <<admission, producer, items, stream, client, books>>

\* The post-answer GPU drain and cache store, then the end of the task.
Drain(r) ==
    /\ gpu[r] = "drain"
    /\ gpu' = [gpu EXCEPT ![r] = "done"]
    /\ UNCHANGED <<admission, producer, info, truncated, rejected, items, stream,
                   client, books>>

-----------------------------------------------------------------------------
(* The consumer: streamSSE in the HTTP handler's task                      *)

\* Parts written to a channel that is gone reach nobody.
Send(r, parts) ==
    wire' = IF connected[r] THEN [wire EXCEPT ![r] = @ \o parts] ELSE wire

\* The head goes out with the first frame that is not empty.
ResponseHead(r) == IF wire[r] = <<>> THEN <<"200">> ELSE <<>>

\* sseFrame: what an event puts on the wire.
SseFrame(event) ==
    CASE event = "visible" -> <<"delta">>
      [] event = "finish" -> <<"finish">>
      [] event = "invisible" -> <<>>

ReadEvent(r) ==
    /\ consumer[r] = "reading"
    /\ stream[r].buffer # <<>>
    /\ LET event == stream[r].buffer[1]
       IN Send(r, IF SseFrame(event) = <<>> THEN <<>> ELSE ResponseHead(r) \o SseFrame(event))
    /\ stream' = [stream EXCEPT ![r].buffer = Tail(@)]
    /\ UNCHANGED <<admission, producer, vmlx, consumer, connected, books>>

FailureResponse_AlwaysStatus(r, e) ==
    IF e = "cancellation" THEN <<>> ELSE <<"errorStatus", "end">>

\* failureResponse(for:streamStarted:): nothing for a cancelled request, an HTTP
\* status before the head, an in-band frame after it.
FailureResponse(r, e) ==
    IF e = "cancellation" THEN <<>>
    ELSE IF wire[r] = <<>> THEN <<"errorStatus", "end">>
    ELSE <<"stream_error", "end">>

ReadEnd(r) ==
    /\ consumer[r] = "reading"
    /\ stream[r].buffer = <<>>
    /\ stream[r].end # "open"
    /\ IF stream[r].end \in {"finished", "cancelled"}
         THEN Send(r, ResponseHead(r) \o <<"end">>)
         ELSE Send(r, FailureResponse(r, stream[r].end))
    /\ consumer' = [consumer EXCEPT ![r] = "closed"]
    /\ UNCHANGED <<admission, producer, vmlx, stream, connected, books>>

\* channelInactive: the client went away, the handler's task is cancelled.
Disconnect(r) ==
    /\ consumer[r] = "reading"
    /\ connected[r]
    /\ connected' = [connected EXCEPT ![r] = FALSE]
    /\ UNCHANGED <<admission, producer, vmlx, stream, consumer, wire, books>>

\* The cancelled consumer's next() terminates the stream with .cancelled.
StreamCancelled(r) ==
    /\ ~connected[r]
    /\ consumer[r] = "reading"
    /\ stream[r].end = "open"
    /\ stream' = [stream EXCEPT ![r] = EndStream(@, "cancelled")]
    /\ OnTermination(r, "cancelled")
    /\ UNCHANGED <<producer, vmlx, client, books>>

-----------------------------------------------------------------------------

\* Engine is an actor, and a prefill runs on it without suspending: meanwhile no
\* other request's code runs there.
EngineIsFree(r) == \A q \in Requests \ {r} : pc[q] # "prefill"

OnEngine(r) ==
    /\ EngineIsFree(r)
    /\ \/ Prepare(r) \/ Prefill(r)
       \/ HandleInfo(r) \/ FinishStream(r) \/ LoopEnds(r) \/ AwaitTask(r)
       \/ Settle(r) \/ Fallback(r) \/ Log(r)

Producer(r) ==
    \/ Submit(r) \/ SubmitRefused(r) \/ LeaveQueue(r)
    \/ CancelBeforeStart(r) \/ Start(r)
    \/ OnEngine(r)
    \/ Release(r) \/ CloseStream(r)

Consumer(r) == ReadEvent(r) \/ ReadEnd(r) \/ StreamCancelled(r)

\* Every producer is done and every response closed.
Quiescent ==
    /\ \A r \in Requests : pc[r] = "done" /\ consumer[r] = "closed"
    /\ UNCHANGED vars

Next ==
    \/ \E r \in Requests :
          \/ Producer(r)
          \/ EngineIsFree(r) /\ HandleItem(r)
          \/ StopDecode(r, TRUE)
          \/ StopDecode(r, FALSE)
          \/ Drain(r)
          \/ Consumer(r)
          \/ Disconnect(r)
    \/ Quiescent

Spec == Init /\ [][Next]_vars

\* Tasks and actor jobs run, a cancelled decode stops between two tokens, and the
\* drain ends.  A generation nobody cancels is not assumed to end.
FairSpec ==
    /\ Spec
    /\ \A r \in Requests :
          /\ WF_vars(Producer(r))
          /\ WF_vars(Consumer(r))
          /\ WF_vars(StopDecode(r, TRUE))
          /\ WF_vars(Drain(r))

-----------------------------------------------------------------------------
(* What a streaming request promises                                       *)

OnGPU == {r \in Requests : gpu[r] \in {"prefill", "decode", "drain"}}

\* "The slot is not released until that cleanup completes, so a cancelled
\* generation can never overlap the next one": whatever ended the stream for the
\* client, GPU work happens under a slot.
GpuUnderSlot ==
    /\ \A r \in OnGPU : status[r] = "holding"
    /\ Cardinality(OnGPU) <= MaxActiveGenerations

Sent(r, part) == \E i \in DOMAIN wire[r] : wire[r][i] = part
Count(r, parts) == Cardinality({i \in DOMAIN wire[r] : wire[r][i] \in parts})

\* A response is one head, frames, and one end: an error status is alone, and
\* "finish" and "stream_error" exclude each other and are followed by the end only.
WireWellFormed ==
    \A r \in Requests :
        /\ wire[r] # <<>> => wire[r][1] \in {"200", "errorStatus"}
        /\ Count(r, {"200", "errorStatus"}) <= 1
        /\ Count(r, {"finish", "stream_error"}) <= 1
        /\ \A i \in DOMAIN wire[r] :
              /\ wire[r][i] = "end" => i = Len(wire[r])
              /\ wire[r][i] \in {"errorStatus", "finish", "stream_error"}
                    => Len(wire[r]) <= i + 1

\* "The client never sees finish_reason: stop for a truncated answer", nor for an
\* answer its constraint rejected; and a client that stays gets an answer: a
\* response it received in full ends in a finish frame or in an error.
NoFalseSuccess ==
    \A r \in Requests :
        /\ Sent(r, "finish") => ~truncated[r] /\ ~rejected[r]
        /\ connected[r] /\ consumer[r] = "closed"
              => Count(r, {"finish", "stream_error", "errorStatus"}) = 1

\* "Only .cancelled termination cancels the producer": a run whose client got its
\* finish frame is counted completed and logged as finished, once, although the
\* producer ends its stream long before it ends itself.
FinishIsHonest ==
    \A r \in Requests :
        Sent(r, "finish") /\ outcome[r] # "none"
            => outcome[r] = "completed" /\ log[r] = <<"finished">>

\* A client that goes away costs the slot only until vmlx has stopped and drained,
\* even if the generation would never end by itself; the handler ends too.
DisconnectFreesSlot ==
    \A r \in Requests : ~connected[r] ~> pc[r] = "done" /\ consumer[r] = "closed"
=============================================================================
