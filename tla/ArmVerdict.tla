----------------------------- MODULE ArmVerdict -----------------------------
(***************************************************************************)
(* integration/peix_like.py: the judgement of a cancel scenario.  The      *)
(* workload is validated, the tasks come back one by one, each is verified *)
(* against its envelope, and the gates of the arm decide.                  *)
(*                                                                         *)
(* Abstracted: an outcome is the set of tasks whose answer its text holds, *)
(* and how it ended; a task's nonce is in every answer to that task.  The  *)
(* session tokens, which are in no text the tasks ask for, the tool and    *)
(* structured expectations, the overlap, TTFT and memory gates and the     *)
(* measurements are left out.  So is what comes back to the long peer, a   *)
(* task without a nonce that is judged as a queued one is; the victim and  *)
(* the peer count in the depth that the queue must have had.               *)
(***************************************************************************)
EXTENDS Integers, FiniteSets

Arms == {"overlap", "serial"}
Victim == "victim"
BadRequest == "bad"
Nonces == {"alpha", "bravo"}
\* The two queued tasks; in the workload as it is written both are marked.
Queued == {"interactive", "background"}
ArmTasks == Queued \cup {Victim, BadRequest}
\* A record per envelope: nonce and expect_own_nonce.
Envelopes == [nonce : Nonces \cup {"none"}, expectsOwn : BOOLEAN]

\* How a request came back: with a healthy finish_reason, without one or with a
\* stream_error frame, or as an error of the client.
Ends == {"finished", "unfinished", "raised"}
NoResponse == [end |-> "pending", answers |-> {}, aborted |-> FALSE, done |-> FALSE,
            refusal |-> "none"]

VARIABLES
    arm,            \* "none" before the run
    envelope,       \* of each queued task
    outcome,        \* what came back to each task
    cancelled,      \* the orchestrator cancelled the victim
    evidence,       \* what the watcher saw of the scenario
    verdictOf       \* "none", "refused", "passed" or "failed"

verdictVars == <<arm, envelope, outcome, cancelled, evidence, verdictOf>>

NoEvidence == [peak |-> 0, depth |-> 0, release |-> "late"]

VerdictInit ==
    /\ arm = "none"
    /\ envelope = [t \in Queued |-> [nonce |-> "none", expectsOwn |-> FALSE]]
    /\ outcome = [t \in ArmTasks |-> NoResponse]
    /\ cancelled = FALSE
    /\ evidence = NoEvidence
    /\ verdictOf = "none"

ArmSlots == IF arm = "serial" THEN 1 ELSE 2

-----------------------------------------------------------------------------
(* The workload                                                            *)

\* validate_envelope: a task that expects its nonce has one.
EnvelopeHolds(e) == e.expectsOwn => e.nonce # "none"

\* validate_workload: no two tasks share a nonce.
WorkloadHolds(env) ==
    /\ \A t \in Queued : EnvelopeHolds(env[t])
    /\ \A t, u \in Queued : t # u /\ env[t].nonce # "none" => env[t].nonce # env[u].nonce

BeginJudgement ==
    /\ arm = "none"
    /\ arm' \in Arms
    /\ \E env \in [Queued -> Envelopes] :
         /\ env["background"].nonce = "bravo" /\ env["background"].expectsOwn
         /\ envelope' = env
         /\ verdictOf' = IF WorkloadHolds(env) THEN "none" ELSE "refused"
    /\ UNCHANGED <<outcome, cancelled, evidence>>

-----------------------------------------------------------------------------
(* What comes back                                                         *)

Pending(t) == arm # "none" /\ verdictOf = "none" /\ outcome[t].end = "pending"

\* A queued task's outcome: its own answer, another's, both or none.
Respond(t) ==
    /\ Pending(t)
    /\ \E end \in Ends, answers \in SUBSET Queued :
         /\ end = "raised" => answers = {}
         /\ outcome' = [outcome EXCEPT ![t] = [NoResponse EXCEPT !.end = end,
                                                                !.answers = answers]]
    /\ UNCHANGED <<arm, envelope, cancelled, evidence, verdictOf>>

\* The victim: cut off by the client, or it ends first, or it was never cancelled.
VictimEnds ==
    /\ Pending(Victim)
    /\ \E end \in Ends, aborted, done, cut \in BOOLEAN :
         /\ ~cut => ~aborted
         /\ end = "raised" => ~aborted /\ ~done
         /\ outcome' = [outcome EXCEPT ![Victim] =
                           [NoResponse EXCEPT !.end = end, !.aborted = aborted, !.done = done]]
         /\ cancelled' = cut
    /\ UNCHANGED <<arm, envelope, evidence, verdictOf>>

\* The invalid request: refused as expected, refused otherwise, or let in.
BadRequestEnds ==
    /\ Pending(BadRequest)
    /\ \E r \in {"expected", "other", "admitted", "raised"} :
         outcome' = [outcome EXCEPT ![BadRequest] =
                        [NoResponse EXCEPT !.end = IF r = "raised" THEN r ELSE "finished",
                                        !.refusal = r]]
    /\ UNCHANGED <<arm, envelope, cancelled, evidence, verdictOf>>

-----------------------------------------------------------------------------
(* The judgement                                                           *)

\* The text of t holds the nonce of u.
NonceIn(t, u) ==
    /\ envelope[u].nonce # "none"
    /\ \E v \in outcome[t].answers : envelope[v].nonce = envelope[u].nonce

Healthy(t) == outcome[t].end = "finished"

\* A cancelled task has no finish, no error and no [DONE].
CancelHolds == outcome[Victim].end = "unfinished" /\ ~outcome[Victim].done

MappingHolds_OwnOnly(t) ==
    \/ t = BadRequest /\ outcome[t].refusal = "expected"
    \/ t = Victim /\ IF cancelled THEN CancelHolds ELSE Healthy(t)
    \/ /\ t \in Queued /\ Healthy(t)
       /\ envelope[t].expectsOwn => NonceIn(t, t)

\* verify_task_result: the expected refusal, a clean cancel, and for the others a healthy
\* end, the own nonce where it is expected and the nonce of no other task.
MappingHolds(t) ==
    \/ t = BadRequest /\ outcome[t].refusal = "expected"
    \/ t = Victim /\ IF cancelled THEN CancelHolds ELSE Healthy(t)
    \/ /\ t \in Queued /\ Healthy(t)
       /\ envelope[t].expectsOwn => NonceIn(t, t)
       /\ \A u \in Queued \ {t} : ~NonceIn(t, u)

CleanlyCancelled == outcome[Victim].aborted /\ outcome[Victim].end # "finished"

\* all_tasks_complete
AllComplete ==
    /\ IF cancelled THEN CleanlyCancelled /\ outcome[Victim].end # "raised" ELSE Healthy(Victim)
    /\ MappingHolds(BadRequest)
    /\ \A t \in Queued : Healthy(t)

\* cancellation_peer_isolation
PeersIsolated(watched) ==
    /\ CleanlyCancelled
    /\ outcome[BadRequest].end # "raised" /\ MappingHolds(BadRequest)
    /\ \A t \in Queued : Healthy(t) /\ MappingHolds(t)
    /\ watched.release = "in_time"

\* Four of the tasks are admittable.  ACCEPTANCE_GATES: the serial arm is the baseline and accepts on three of them.
GatesPass(watched) ==
    /\ AllComplete
    /\ \A t \in ArmTasks : MappingHolds(t)
    /\ watched.peak = ArmSlots
    /\ arm = "overlap" =>
           /\ watched.depth >= Cardinality(Queued) + 2 - ArmSlots
           /\ PeersIsolated(watched)

Judge ==
    /\ arm # "none" /\ verdictOf = "none"
    /\ \A t \in ArmTasks : outcome[t].end # "pending"
    /\ \E watched \in [peak : 1..2, depth : 0..3, release : {"late", "in_time"}] :
         /\ evidence' = watched
         /\ verdictOf' = IF GatesPass(watched) THEN "passed" ELSE "failed"
    /\ UNCHANGED <<arm, envelope, outcome, cancelled>>

JudgeNext ==
    \/ BeginJudgement
    \/ \E t \in Queued : Respond(t)
    \/ VictimEnds
    \/ BadRequestEnds
    \/ Judge

JudgeSpec == VerdictInit /\ [][JudgeNext]_verdictVars

-----------------------------------------------------------------------------

Expecting == {t \in Queued : envelope[t].expectsOwn}

\* "this mode validates Mei-facing request behavior": an arm that passes had every marked
\* answer at its own task and at no other, whole, the invalid request refused, and no
\* cancelled victim that ended as a success; the overlap arm also had its victim cut
\* off, its slot back in time and the tasks behind it in the queue.
VerdictIsEarned ==
    verdictOf = "passed" =>
        /\ \A t \in Expecting : t \in outcome[t].answers
        /\ \A t, u \in Queued : envelope[u].nonce # "none" /\ u \in outcome[t].answers => u = t
        /\ \A t \in Queued : outcome[t].end = "finished"
        /\ outcome[BadRequest].refusal = "expected"
        /\ evidence.peak = ArmSlots
        /\ cancelled => outcome[Victim].aborted /\ outcome[Victim].end # "finished"
        /\ arm = "overlap" =>
               cancelled /\ evidence.release = "in_time" /\ evidence.depth >= 2

=============================================================================
