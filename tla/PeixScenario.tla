---------------------------- MODULE PeixScenario ----------------------------
(***************************************************************************)
(* One scenario of the peix-like workload against a server that schedules  *)
(* as StubMeiServer does: the tasks' own threads, the orchestrator that    *)
(* submits them in stages and asserts what /v1/mei/status shows, the       *)
(* watcher that samples the same counters from a thread of its own, and    *)
(* the evidence assembled from the samples (observations_from_samples,     *)
(* attribute_admissions).  The workload and the evidence are               *)
(* scripts/integration/peix_like.py, the threads                           *)
(* scripts/test_concurrent_generations_integration.py.                     *)
(*                                                                         *)
(* Abstracted: the client's own timeouts, which only end the run, and the  *)
(* clock: a sample is the slotReleases it read, its `at` is its place.     *)
(***************************************************************************)
EXTENDS StubMeiServer

ASSUME TasksAssumption == Requests = 1 .. 5

Envelope(p, s) == [priority |-> p, streams |-> s]

\* pair_envelopes, burst_envelopes, cancel_envelopes: task i is the i-th of them.
Workload ==
    [pair |-> <<Envelope("interactive", TRUE), Envelope("background", TRUE)>>,
     burst |-> <<Envelope("background", TRUE), Envelope("interactive", TRUE),
                 Envelope("interactive", TRUE), Envelope("background", FALSE)>>,
     cancel |-> <<Envelope("background", TRUE), Envelope("background", TRUE),
                  Envelope("interactive", TRUE), Envelope("background", TRUE),
                  Envelope("urgent", FALSE)>>]

Victim == 1

VARIABLES
    scenario,   \* the scenario that runs
    step,       \* where its orchestrator is
    sent,       \* the tasks in the order of sent_at
    base,       \* releases_before
    seen,       \* the orchestrator's snapshot, fetched and not yet given its `at`
    polled,     \* the watcher's, or NoSample
    samples     \* slotReleases of all samples, sorted by `at`, repetitions left out

clientVars == <<scenario, step, sent, base, seen, polled, samples>>
allVars == <<vars, clientVars>>

NoSample == -1

Tasks == Workload[scenario]
Admittable == {i \in DOMAIN Tasks : Tasks[i].priority \in Valid}

\* peix_scenarios: the tasks of the first stage, and whether there are two.
Staged == scenario # "pair"
FirstStage ==
    IF scenario = "pair" THEN {1, 2}
    ELSE IF scenario = "burst" THEN 1 .. MaxActive ELSE {1, 2}
ExpectedQueue == Cardinality(Admittable) - MaxActive

Releases == counters["slotReleases"]

\* handle.done: the task's thread has its result, or its session was aborted.
TaskDone(i) == answer[i] \in {"complete", "400", "429", "503"} \/ i \in gone

ScenarioInit ==
    /\ Init
    /\ scenario \in DOMAIN Workload
    /\ step = "stage1"
    /\ sent = <<>>
    /\ base = 0
    /\ seen = NoSample
    /\ polled = NoSample
    /\ samples = <<>>

-----------------------------------------------------------------------------
(* The orchestrator                                                        *)

At(s) == step = s
Proceed(s) == step' = s

Quiet == UNCHANGED vars

\* A failed check raises: the scenario leaves no evidence.
Abandon ==
    /\ step' = "failed"
    /\ samples' = <<>>
    /\ seen' = NoSample
    /\ polled' = NoSample
    /\ UNCHANGED <<scenario, sent, base>>

\* peix_start_task: sent_at is taken before the request is on the wire.
Submit(i) ==
    /\ \/ step = "stage1" /\ i \in FirstStage
       \/ step = "stage2" /\ i \in Admittable \ FirstStage
       \/ step = "refuse" /\ i \in DOMAIN Tasks \ Admittable
    /\ i \notin ToSet(sent)
    /\ sent' = Append(sent, i)
    /\ UNCHANGED <<scenario, step, base, seen, polled, samples>>
    /\ Quiet

PairSubmitted ==
    /\ At("stage1")
    /\ ~Staged
    /\ FirstStage \subseteq ToSet(sent)
    /\ Proceed("collect")
    /\ UNCHANGED <<scenario, sent, base, seen, polled, samples>>
    /\ Quiet

\* The first stage occupies every slot: one snapshot of the status surface.
SlotsOccupied ==
    /\ At("stage1")
    /\ Staged
    /\ active = MaxActive
    /\ IF scenario = "burst" THEN waiters = <<>>
       ELSE Len(waiters) >= Cardinality(FirstStage) - MaxActive
    /\ base' = Releases
    /\ Proceed("hold")
    /\ UNCHANGED <<scenario, sent, seen, polled, samples>>
    /\ Quiet

StillHeld ==
    IF scenario = "burst" THEN \A i \in FirstStage : ~TaskDone(i)
    ELSE \A i \in FirstStage : answer[i] # "complete"

\* cancel: wait_first_content of the victim, and of the peer under overlap.
FirstContent ==
    scenario = "cancel" =>
        /\ answer[Victim] # "none"
        /\ MaxActive > 1 => answer[2] # "none"

CheckHold ==
    /\ At("hold")
    /\ FirstContent
    /\ IF StillHeld
         THEN /\ Proceed(IF scenario = "cancel" THEN "count" ELSE "stage2")
              /\ UNCHANGED <<scenario, sent, base, seen, polled, samples>>
         ELSE Abandon
    /\ Quiet

\* cancel: queue_releases_before is fetched after the checks.
CountReleases ==
    /\ At("count")
    /\ base' = Releases
    /\ Proceed("stage2")
    /\ UNCHANGED <<scenario, sent, seen, polled, samples>>
    /\ Quiet

QueueFilled ==
    /\ Len(waiters) = ExpectedQueue
    /\ scenario = "burst" => active = MaxActive

\* Every remaining task queued, and no release since the first stage; a release
\* before that fails the run (released_early).
ObserveQueue ==
    /\ At("stage2")
    /\ QueueFilled \/ Releases > base
    /\ IF QueueFilled /\ Releases = base
         THEN /\ seen' = Releases
              /\ Proceed("stamp")
              /\ UNCHANGED <<scenario, sent, base, polled, samples>>
         ELSE Abandon
    /\ Quiet

\* A sample that repeats the one before it shows no release.
Sampled(s, v) == IF s # <<>> /\ Last(s) = v THEN s ELSE Append(s, v)

\* observed_at is taken when wait_scheduler has returned.
StampObserved ==
    /\ At("stamp")
    /\ samples' = Sampled(samples, seen)
    /\ seen' = NoSample
    /\ Proceed(IF scenario = "cancel" THEN "refuse" ELSE "collect")
    /\ UNCHANGED <<scenario, sent, base, polled>>
    /\ Quiet

\* The invalid request is answered and the scheduler shows no trace of it.
RefusalSeen ==
    /\ At("refuse")
    /\ \A i \in DOMAIN Tasks \ Admittable : TaskDone(i)
    /\ active = MaxActive /\ Len(waiters) = ExpectedQueue
    /\ Proceed("abort")
    /\ UNCHANGED <<scenario, sent, base, seen, polled, samples>>
    /\ Quiet

PrepareAbort ==
    /\ At("abort")
    /\ IF TaskDone(Victim) THEN Abandon
       ELSE /\ base' = Releases
            /\ Proceed("hangup")
            /\ UNCHANGED <<scenario, sent, seen, polled, samples>>
    /\ Quiet

AbortVictim ==
    /\ At("hangup")
    /\ gone' = gone \cup {Victim}
    /\ Proceed("measure")
    /\ UNCHANGED <<scenario, sent, base, seen, polled, samples>>
    /\ UNCHANGED <<Request, phase, Slots, answer>>

\* cancel_to_release_ms is the time to the first release that is seen.
MeasureRelease ==
    /\ At("measure")
    /\ Releases >= base + 1
    /\ Proceed("collect")
    /\ UNCHANGED <<scenario, sent, base, seen, polled, samples>>
    /\ Quiet

\* Every task's thread has ended (cancel: and the scheduler is idle); the watcher
\* is stopped and joined.
Collect ==
    /\ At("collect")
    /\ \A i \in DOMAIN Tasks : TaskDone(i)
    /\ scenario = "cancel" => (active = 0 /\ waiters = <<>>)
    /\ polled = NoSample
    /\ Proceed("done")
    /\ UNCHANGED <<scenario, sent, base, seen, polled, samples>>
    /\ Quiet

-----------------------------------------------------------------------------
(* The watcher and the server                                              *)

WatcherReads ==
    /\ step \notin {"done", "failed"}
    /\ polled = NoSample
    /\ Sampled(samples, Releases) # samples
    /\ polled' = Releases
    /\ UNCHANGED <<scenario, step, sent, base, seen, samples>>
    /\ Quiet

WatcherStamps ==
    /\ polled # NoSample
    /\ samples' = Sampled(samples, polled)
    /\ polled' = NoSample
    /\ UNCHANGED <<scenario, step, sent, base, seen>>
    /\ Quiet

\* Staggered submissions reach the server in the order they were sent; the pair
\* is fired together and may not.
Arrives(i) ==
    /\ i \in ToSet(sent)
    /\ Staged => \A k \in DOMAIN sent :
                     (sent[k] # i /\ phase[sent[k]] \in {"outside", "received"})
                        => \E n \in 1 .. k : sent[n] = i
    /\ Connect(i, Tasks[i].priority, Tasks[i].streams)

\* A failed run terminates its server (the finally of run_peix_like).
ServerUp == step # "failed"

ServerStep ==
    /\ ServerUp
    /\ \E i \in DOMAIN Tasks : Arrives(i) \/ Thread(i)
    /\ UNCHANGED clientVars

Orchestrate ==
    \/ \E i \in DOMAIN Tasks : Submit(i)
    \/ PairSubmitted
    \/ SlotsOccupied
    \/ CheckHold
    \/ CountReleases
    \/ ObserveQueue
    \/ StampObserved
    \/ RefusalSeen
    \/ PrepareAbort
    \/ AbortVictim
    \/ MeasureRelease
    \/ Collect

ScenarioNext == Orchestrate \/ WatcherReads \/ WatcherStamps \/ ServerStep

ScenarioSpec ==
    /\ ScenarioInit
    /\ [][ScenarioNext]_allVars
    /\ \A i \in Requests : WF_allVars(ServerUp /\ Thread(i) /\ UNCHANGED clientVars)

-----------------------------------------------------------------------------
(* The evidence                                                            *)

\* observations_from_samples: for every release time, the sample it comes from.
ReleaseTimes ==
    LET times[n \in 0 .. Len(samples)] ==
            IF n < 2 THEN <<>>
            ELSE times[n - 1] \o (IF samples[n] > samples[n - 1]
                                     THEN [k \in 1 .. samples[n] - samples[n - 1] |-> n]
                                     ELSE <<>>)
    IN times[Len(samples)]

\* attribute_admissions: who is taken to have been admitted at once, and whom the
\* k-th observed release is taken to have admitted.
Submissions == Kept(sent, Admittable)
Immediate == SubSeq(Submissions, 1, MaxActive)

Ranked_BySubmission == SubSeq(Submissions, MaxActive + 1, Len(Submissions))

Ranked ==
    LET waiting == SubSeq(Submissions, MaxActive + 1, Len(Submissions))
        class(p) == Kept(waiting, {i \in DOMAIN Tasks : Tasks[i].priority = p})
    IN class("interactive") \o class("background")

AllServed ==
    \A i \in Admittable : answer[i] = "complete" \/ (scenario = "cancel" /\ i = Victim)

\* "so the k-th observed release admits the k-th queued request": when a staged
\* scenario finishes and every task was served, the admissions it derives are
\* the server's, task by task, although no client ever sees the queue's order.
DerivedAdmissionsAreTrue ==
    At("done") /\ Staged /\ AllServed =>
        /\ ToSet(Immediate) = ToSet(SubSeq(admitted, 1, MaxActive))
        /\ \A k \in DOMAIN Ranked :
               k \in DOMAIN ReleaseTimes => admitted[MaxActive + k] = Ranked[k]

\* No connection stays open and no waiter stays behind: every task of a scenario
\* is answered, or noticed to have hung up, and leaves nothing in the queue, also
\* behind a slot that a timed-out waiter has lost.
EveryTaskEnds ==
    []<>(step = "failed" \/
         (waiters = <<>> /\ \A i \in Requests : phase[i] \in {"outside", "closed"}))

=============================================================================
