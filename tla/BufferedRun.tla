----------------------------- MODULE BufferedRun ----------------------------
(***************************************************************************)
(* Requests that are answered in one piece, from the connection to the     *)
(* engine and back: MeiHTTPHandler and ResponseWriter (HTTPServer.swift),  *)
(* Router.chat and Router.completion, and the engine's chatRun and         *)
(* completionRun with generateLocked (Engine.swift).                       *)
(*                                                                         *)
(* A connection carries any number of requests, each in a task of its own; *)
(* the pipeline has no handler that puts their responses in order.  The    *)
(* response parts are written from the tasks, one at a time.               *)
(*                                                                         *)
(* Admission is AdmissionContract, whose withdrawn set is Task.isCancelled *)
(* of the request tasks.  vmlx is external, as in StreamRun.               *)
(*                                                                         *)
(* Operators named X_Y are deliberate bugs Y in the operator X that        *)
(* follows; no specification uses them.                                    *)
(*                                                                         *)
(* Abstracted: bodies, the text of answers, prompt rendering and anchors   *)
(* (one step that may throw), timings.                                     *)
(***************************************************************************)
EXTENDS Integers, Sequences, FiniteSets, SequencesExt

CONSTANTS Requests, Connections, MaxActiveGenerations, MaxQueueDepth, BoundedWait,
    Priorities,   \* the classes requests come with
    Carriers      \* which connection a request may come by: functions

ASSUME RequestsAssumption == IsFiniteSet(Requests)
ASSUME SlotAssumption == MaxActiveGenerations \in Nat
ASSUME PrioritiesAssumption == Priorities \subseteq {"interactive", "background"}
ASSUME CarriersAssumption == Carriers \subseteq [Requests -> Connections]

VARIABLES
    carrier,      \* the member of Carriers tried here
    status, class, ahead, withdrawn,  \* admission, see AdmissionContract
    channel,      \* of a connection: "active", "left" by its client, "closed" by us
    received,     \* the requests whose last part it has delivered, in order
    pendingTask,  \* the handler's field: no task, or one
    wire,         \* the parts the client was sent, each with the task it is from
    pc,           \* where a request's task is
    route,        \* "none", "chat", "completion" or "plain" (no generation)
    error,        \* what the task threw, or "none"
    reply,        \* the status of its response
    gpu,          \* "idle", "prefill", "decode", "drain", "done"
    truncated,    \* vmlx stopped decoding because it was cancelled
    rejected,     \* postGenerationError is non-nil for this run
    log,          \* request-log lines of this run
    outcome       \* how submit accounted for the run

Admission == INSTANCE AdmissionContract
admission == <<status, class, ahead, withdrawn>>
connection == <<carrier, channel, received, pendingTask, wire>>
task == <<pc, route, error, reply>>
vmlx == <<gpu, truncated, rejected>>
books == <<log, outcome>>
vars == <<admission, connection, task, vmlx, books>>

isCancelled(r) == r \in withdrawn

Errors == {"none", "queueFull", "queueWaitTimeout", "cancellation", "engine", "other"}
Statuses == {"200", "400", "429", "500", "503", "plain"}
PCs == {"unsent", "respond", "submit", "submitted", "prepare", "prefill", "streaming",
        "draining", "concluding", "unwinding", "head", "end", "close", "done"}
Parts == [from : SUBSET Requests, part : Statuses \cup {"end"}]
LogLines == {<<>>, <<"cancelled">>, <<"finished">>}

TypeOK ==
    /\ carrier \in Carriers
    /\ channel \in [Connections -> {"active", "left", "closed"}]
    /\ received \in [Connections -> Seq(Requests)]
    /\ pendingTask \in [Connections -> SUBSET Requests]
    /\ \A c \in Connections : Cardinality(pendingTask[c]) <= 1
    /\ wire \in [Connections -> Seq(Parts)]
    /\ pc \in [Requests -> PCs]
    /\ route \in [Requests -> {"none", "chat", "completion", "plain"}]
    /\ error \in [Requests -> Errors]
    /\ reply \in [Requests -> Statuses \cup {"none"}]
    /\ gpu \in [Requests -> {"idle", "prefill", "decode", "drain", "done"}]
    /\ truncated \in [Requests -> BOOLEAN]
    /\ rejected \in [Requests -> BOOLEAN]
    /\ log \in [Requests -> LogLines]
    /\ outcome \in [Requests -> {"none", "completed", "failed", "cancelledActive", "notRun"}]

Init ==
    /\ Admission!Init
    /\ carrier \in Carriers
    /\ channel = [c \in Connections |-> "active"]
    /\ received = [c \in Connections |-> <<>>]
    /\ pendingTask = [c \in Connections |-> {}]
    /\ wire = [c \in Connections |-> <<>>]
    /\ pc = [r \in Requests |-> "unsent"]
    /\ route = [r \in Requests |-> "none"]
    /\ error = [r \in Requests |-> "none"]
    /\ reply = [r \in Requests |-> "none"]
    /\ gpu = [r \in Requests |-> "idle"]
    /\ truncated = [r \in Requests |-> FALSE]
    /\ rejected = [r \in Requests |-> FALSE]
    /\ log = [r \in Requests |-> <<>>]
    /\ outcome = [r \in Requests |-> "none"]

Goto(r, label) == pc' = [pc EXCEPT ![r] = label]

Throw(r, e, label) ==
    /\ error' = [error EXCEPT ![r] = e]
    /\ Goto(r, label)

-----------------------------------------------------------------------------
(* The connection: MeiHTTPHandler, on the event loop                       *)

Remember_First(c, r) == IF pendingTask[c] = {} THEN {r} ELSE pendingTask[c]

\* The handler remembers one task: the newest.
Remember(c, r) == {r}

\* channelRead: with its last part a request gets a task.
Receive(r) ==
    /\ pc[r] = "unsent"
    /\ channel[carrier[r]] = "active"
    /\ received' = [received EXCEPT ![carrier[r]] = Append(@, r)]
    /\ pendingTask' = [pendingTask EXCEPT ![carrier[r]] = Remember(carrier[r], r)]
    /\ Goto(r, "respond")
    /\ UNCHANGED <<admission, carrier, channel, wire, route, error, reply, vmlx, books>>

\* channelInactive: the remembered task is cancelled, if it still can be told.
Deactivate(c, how) ==
    /\ channel' = [channel EXCEPT ![c] = how]
    /\ pendingTask' = [pendingTask EXCEPT ![c] = {}]
    /\ \/ \E r \in pendingTask[c] : Admission!Withdraw(r)
       \/ /\ \A r \in pendingTask[c] : status[r] = "gone" \/ isCancelled(r)
          /\ UNCHANGED admission

ClientLeaves(c) ==
    /\ channel[c] = "active"
    /\ Deactivate(c, "left")
    /\ UNCHANGED <<carrier, received, wire, task, vmlx, books>>

Part(from, part) == [from |-> from, part |-> part]

\* errorCaught: what is no HTTP is answered at once, whatever else is being answered.
ErrorCaught(c) ==
    /\ channel[c] = "active"
    /\ wire' = [wire EXCEPT ![c] = @ \o <<Part({}, "500"), Part({}, "end")>>]
    /\ Deactivate(c, "closed")
    /\ UNCHANGED <<carrier, received, task, vmlx, books>>

-----------------------------------------------------------------------------
(* The request's task: respond, route and submit                           *)

\* The task holds its handler weakly: one that starts after the connection was torn
\* down may find none, and answers nobody.
HandlerIsGone(r) ==
    /\ pc[r] = "respond"
    /\ channel[carrier[r]] # "active"
    /\ Goto(r, "done")
    /\ UNCHANGED <<admission, connection, route, error, reply, vmlx, books>>

\* Too large, no such route, not decoded, or a route that generates nothing: a status
\* of its own, with no run behind it.
RespondPlainly(r) ==
    /\ pc[r] = "respond"
    /\ reply' = [reply EXCEPT ![r] = "plain"]
    /\ route' = [route EXCEPT ![r] = "plain"]
    /\ Goto(r, "head")
    /\ UNCHANGED <<admission, connection, error, vmlx, books>>

Respond(r) ==
    /\ pc[r] = "respond"
    /\ \E kind \in {"chat", "completion"} : route' = [route EXCEPT ![r] = kind]
    /\ Goto(r, "submit")
    /\ UNCHANGED <<admission, connection, error, reply, vmlx, books>>

\* The slot goes back, and in the same actor job to the next in line.
GiveSlotBack(r) ==
    \/ Admission!Vacate(r)
    \/ \E w \in Requests : Admission!HandOver(r, w)

\* errorPlain: the status of a thrown error; one it does not know is the client's.
ErrorPlain(e) ==
    CASE e = "queueFull" -> "429"
      [] e = "queueWaitTimeout" -> "503"
      [] e = "engine" -> "500"
      [] e \in {"other", "cancellation"} -> "400"

\* The run is over, returned or thrown: the router makes a response of it.
Finish(r, e, how) ==
    /\ reply' = [reply EXCEPT ![r] = IF e = "none" THEN "200" ELSE ErrorPlain(e)]
    /\ outcome' = [outcome EXCEPT ![r] = how]
    /\ Throw(r, e, "head")
    /\ UNCHANGED <<connection, route, vmlx, log>>

Submit(r) ==
    /\ pc[r] = "submit"
    /\ ~isCancelled(r)
    /\ \E p \in Priorities : Admission!Admit(r, p) \/ Admission!Join(r, p)
    /\ Goto(r, "submitted")
    /\ UNCHANGED <<connection, route, error, reply, vmlx, books>>

SubmitRefused(r) ==
    /\ pc[r] = "submit"
    /\ \E p \in Priorities : Admission!TurnAway(r, p)
    /\ Finish(r, IF isCancelled(r) THEN "cancellation" ELSE "queueFull", "notRun")

LeaveQueue(r) ==
    /\ pc[r] = "submitted"
    /\ Admission!Leave(r)
    /\ \/ isCancelled(r) /\ Finish(r, "cancellation", "notRun")
       \/ BoundedWait /\ Finish(r, "queueWaitTimeout", "notRun")

CancelBeforeStart(r) ==
    /\ pc[r] = "submitted"
    /\ status[r] = "holding"
    /\ isCancelled(r)
    /\ GiveSlotBack(r)
    /\ Finish(r, "cancellation", "notRun")

Start(r) ==
    /\ pc[r] = "submitted"
    /\ status[r] = "holding"
    /\ ~isCancelled(r)
    /\ Goto(r, "prepare")
    /\ UNCHANGED <<admission, connection, route, error, reply, vmlx, books>>

-----------------------------------------------------------------------------
(* On the engine: chatRunLocked, generateLocked, completionRunLocked       *)

\* What stands before TokenIterator: a prompt that is empty or too long, and for a
\* chat the structured plan, its fragment table and the template.
PrepareErrors(r) == IF route[r] = "chat" THEN {"other", "engine"} ELSE {"other"}

Prepare(r) ==
    /\ pc[r] = "prepare"
    /\ \/ isCancelled(r) /\ Throw(r, "cancellation", "unwinding") /\ UNCHANGED gpu
       \/ \E e \in PrepareErrors(r) : Throw(r, e, "unwinding") /\ UNCHANGED gpu
       \/ Goto(r, "prefill") /\ gpu' = [gpu EXCEPT ![r] = "prefill"] /\ UNCHANGED error
    /\ UNCHANGED <<admission, connection, route, reply, truncated, rejected, books>>

Prefill(r) ==
    /\ pc[r] = "prefill"
    /\ \/ /\ isCancelled(r) /\ Throw(r, "cancellation", "unwinding")
          /\ gpu' = [gpu EXCEPT ![r] = "idle"]
       \/ /\ Throw(r, "other", "unwinding")
          /\ gpu' = [gpu EXCEPT ![r] = "idle"]
       \/ /\ Goto(r, "streaming") /\ UNCHANGED error
          /\ gpu' = [gpu EXCEPT ![r] = "decode"]
    /\ UNCHANGED <<admission, connection, route, reply, truncated, rejected, books>>

\* The loop over vmlx's stream ends with the stream, or at once when cancelled.
LoopEnds(r) ==
    /\ pc[r] = "streaming"
    /\ gpu[r] = "done" \/ isCancelled(r)
    /\ Goto(r, "draining")
    /\ UNCHANGED <<admission, connection, route, error, reply, vmlx, books>>

AwaitTask_SkipsDrain(r) ==
    /\ pc[r] = "draining"
    /\ Goto(r, "concluding")
    /\ UNCHANGED <<admission, connection, route, error, reply, vmlx, books>>

\* task.value returns: vmlx has drained the GPU and stored the cache.
AwaitTask(r) ==
    /\ pc[r] = "draining"
    /\ gpu[r] = "done"
    /\ Goto(r, "concluding")
    /\ UNCHANGED <<admission, connection, route, error, reply, vmlx, books>>

Conclude_AnswersTheCancelled(r) ==
    /\ pc[r] = "concluding"
    /\ IF rejected[r] THEN Throw(r, "engine", "unwinding") /\ UNCHANGED log
       ELSE /\ log' = [log EXCEPT ![r] = Append(@, "finished")]
            /\ Goto(r, "unwinding") /\ UNCHANGED error
    /\ UNCHANGED <<admission, connection, route, reply, vmlx, outcome>>

\* Task.isCancelled is read once.  A rejected answer is thrown before the run is
\* recorded; a cancelled run is recorded, then thrown.
Conclude(r) ==
    /\ pc[r] = "concluding"
    /\ \/ /\ isCancelled(r)
          /\ log' = [log EXCEPT ![r] = Append(@, "cancelled")]
          /\ Throw(r, "cancellation", "unwinding")
       \/ /\ ~isCancelled(r) /\ rejected[r]
          /\ Throw(r, "engine", "unwinding")
          /\ UNCHANGED log
       \/ /\ ~isCancelled(r) /\ ~rejected[r]
          /\ log' = [log EXCEPT ![r] = Append(@, "finished")]
          /\ Goto(r, "unwinding") /\ UNCHANGED error
    /\ UNCHANGED <<admission, connection, route, reply, vmlx, outcome>>

\* Back on the scheduler: release(grant:outcome:), and the router after it.
Release(r) ==
    /\ pc[r] = "unwinding"
    /\ GiveSlotBack(r)
    /\ Finish(r, error[r],
              IF isCancelled(r) \/ error[r] = "cancellation" THEN "cancelledActive"
              ELSE IF error[r] = "none" THEN "completed" ELSE "failed")

-----------------------------------------------------------------------------
(* ResponseWriter, from the task                                           *)

NextPart_NoEnd == [head |-> "close"]

NextPart == [head |-> "end", end |-> "close"]

\* jsonResponse: head and end (the body before it) are handed to the channel one by
\* one, and what is handed to a channel that is gone reaches nobody.
Write(r) ==
    /\ pc[r] \in DOMAIN NextPart
    /\ wire' = IF channel[carrier[r]] # "active" THEN wire
               ELSE [wire EXCEPT ![carrier[r]] =
                       Append(@, Part({r}, IF pc[r] = "head" THEN reply[r] ELSE "end"))]
    /\ Goto(r, NextPart[pc[r]])
    /\ UNCHANGED <<admission, carrier, channel, received, pendingTask, route, error, reply, vmlx, books>>

\* writer.close(): every response closes its connection.
Close(r) ==
    /\ pc[r] = "close"
    /\ IF channel[carrier[r]] = "active" THEN Deactivate(carrier[r], "closed")
       ELSE UNCHANGED <<admission, channel, pendingTask>>
    /\ Goto(r, "done")
    /\ UNCHANGED <<carrier, received, wire, route, error, reply, vmlx, books>>

-----------------------------------------------------------------------------
(* vmlx's generation task (external)                                       *)

\* The decode loop ends: on its own, or between tokens because onCancel has cancelled
\* the task.  Only a chat can be constrained.
StopDecode(r, cut) ==
    /\ gpu[r] = "decode"
    /\ cut => isCancelled(r)
    /\ gpu' = [gpu EXCEPT ![r] = "drain"]
    /\ truncated' = [truncated EXCEPT ![r] = cut]
    /\ \E b \in {FALSE} \cup {route[r] = "chat"} : rejected' = [rejected EXCEPT ![r] = b]
    /\ UNCHANGED <<admission, connection, task, books>>

Drain(r) ==
    /\ gpu[r] = "drain"
    /\ gpu' = [gpu EXCEPT ![r] = "done"]
    /\ UNCHANGED <<admission, connection, task, truncated, rejected, books>>

-----------------------------------------------------------------------------

\* Engine is an actor, and a prefill runs on it without suspending: meanwhile no
\* other request's code runs there.
EngineIsFree(r) == \A q \in Requests \ {r} : pc[q] # "prefill"

OnEngine(r) ==
    /\ EngineIsFree(r)
    /\ Prepare(r) \/ Prefill(r) \/ LoopEnds(r) \/ AwaitTask(r) \/ Conclude(r)

Task(r) ==
    \/ HandlerIsGone(r) \/ RespondPlainly(r) \/ Respond(r)
    \/ Submit(r) \/ SubmitRefused(r) \/ LeaveQueue(r)
    \/ CancelBeforeStart(r) \/ Start(r)
    \/ OnEngine(r)
    \/ Release(r) \/ Write(r) \/ Close(r)

\* Every task is done, and what was not sent has no connection left to go by.
Quiescent ==
    /\ \A r \in Requests :
          \/ pc[r] = "done"
          \/ pc[r] = "unsent" /\ channel[carrier[r]] # "active"
    /\ UNCHANGED vars

Next ==
    \/ \E r \in Requests :
          \/ Receive(r)
          \/ Task(r)
          \/ StopDecode(r, TRUE)
          \/ StopDecode(r, FALSE)
          \/ Drain(r)
    \/ \E c \in Connections : ClientLeaves(c) \/ ErrorCaught(c)
    \/ Quiescent

Spec == Init /\ [][Next]_vars

\* Tasks and actor jobs run, a cancelled decode stops between two tokens, and the
\* drain ends.  A generation nobody cancels is not assumed to end.
FairSpec ==
    /\ Spec
    /\ \A r \in Requests :
          /\ WF_vars(Task(r))
          /\ WF_vars(StopDecode(r, TRUE))
          /\ WF_vars(Drain(r))

-----------------------------------------------------------------------------
(* What a buffered request promises                                        *)

OnGPU == {r \in Requests : gpu[r] \in {"prefill", "decode", "drain"}}

\* "The execution slot is not released until that cleanup is done": a buffered run
\* works on the GPU only under its slot, also after its client went away.
GpuUnderSlot ==
    /\ \A r \in OnGPU : status[r] = "holding"
    /\ Cardinality(OnGPU) <= MaxActiveGenerations

Answers(r, statuses) ==
    \E c \in Connections, s \in statuses : Contains(wire[c], Part({r}, s))

\* "A cancelled run is never reported as a success", not to the log and the scheduler
\* either, and a rejected one neither; a 429 or 503 says that nothing ran; and the error
\* a cancellation is mapped to (a 400, by default) never reaches a client.
AnswerIsHonest ==
    \A r \in Requests :
        /\ truncated[r] => log[r] # <<"finished">> /\ outcome[r] # "completed"
        /\ Answers(r, {"200"})
              => /\ outcome[r] = "completed" /\ log[r] = <<"finished">>
                 /\ ~truncated[r] /\ ~rejected[r]
        /\ Answers(r, {"429", "503"}) => outcome[r] = "notRun" /\ log[r] = <<>>
        /\ Answers(r, Statuses) => error[r] # "cancellation"

\* A request that has its connection for itself and whose client stays gets one whole
\* response, and then the connection ends.
Undisturbed(c) == channel[c] # "left" /\ \A i \in DOMAIN wire[c] : wire[c][i].from # {}

WholeAnswer ==
    \A r \in Requests :
        LET c == carrier[r]
        IN received[c] = <<r>> /\ pc[r] = "done" /\ Undisturbed(c)
             => /\ channel[c] = "closed"
                /\ wire[c] = <<Part({r}, reply[r]), Part({r}, "end")>>

\* The connection is gone, and this was the last request that came by it.
Stranded(r) ==
    /\ channel[carrier[r]] # "active"
    /\ received[carrier[r]] # <<>>
    /\ Last(received[carrier[r]]) = r

\* "The HTTP handler's task is cancelled when the client disconnects": holds of the
\* newest request of a connection, which ends even if its generation would not.
DisconnectEndsTheNewest == \A r \in Requests : Stranded(r) ~> pc[r] = "done"
=============================================================================
