--------------------------- MODULE LogAttribution ---------------------------
(***************************************************************************)
(* integration/peix_like.py, attribute_request_log and resolve_queue_waits, *)
(* as peix_assemble_scenario calls them: the lines of the server's request *)
(* log carry no task ID, and a line is given to a task only when it is the *)
(* one unused line that matches.                                           *)
(*                                                                         *)
(* Abstracted: a line is named by the task whose run wrote it, which the   *)
(* code cannot see; what it compares (finish, priority and number of       *)
(* tokens) is a signature, some of which say "cancelled".  The waits are   *)
(* left out, only where each comes from is kept.                           *)
(***************************************************************************)
EXTENDS Integers, FiniteSets

CONSTANTS
    RecordCount,            \* tasks of the scenario, in fixture order
    Signatures,             \* finish, priority and completion tokens
    CancelledSignatures     \* those whose finish is "cancelled"

ASSUME RecordCountAssumption == RecordCount \in Nat
ASSUME SignatureAssumption == CancelledSignatures \subseteq Signatures

Tasks == 1..RecordCount
Unwritten == "unwritten"
ASSUME UnwrittenAssumption == Unwritten \notin Signatures

ServedSignatures == Signatures \ CancelledSignatures
Sources == {"none", "server-request-log", "slot-release-estimate", "unattributed"}

\* What the client knows of a task: it was answered, it is the task the scenario
\* cancels, its request failed, or it was to be refused.
Records == [class : {"served"}, signature : ServedSignatures]
             \cup {[class |-> k] : k \in {"cancelled", "failed", "rejected"}}

VARIABLES
    record,         \* what the client knows of each task
    line,           \* the signature of the line the task's run wrote in the log
    sliced,         \* the lines the scenario reads: tasks that had written by then
    attributing,    \* the record whose turn it is; 0 before the log is read
    taken,          \* the line given to a task; 0 for none
    waitSource,     \* queue_wait_ms_source
    attributed      \* the flag of the report

logVars == <<record, line, sliced, attributing, taken, waitSource, attributed>>

LogInit ==
    /\ record = [t \in Tasks |-> [class |-> "rejected"]]
    /\ line = [t \in Tasks |-> Unwritten]
    /\ sliced = {}
    /\ attributing = -1
    /\ taken = [t \in Tasks |-> 0]
    /\ waitSource = [t \in Tasks |-> "none"]
    /\ attributed = FALSE

Admitted == {t \in Tasks : record[t].class # "rejected"}

-----------------------------------------------------------------------------

\* The scenario ends for the client.  At most one task is cancelled: cancel_task_id.
CollectRecords ==
    /\ attributing = -1
    /\ \E recs \in [Tasks -> Records] :
         /\ \A t, u \in Tasks :
              recs[t].class = "cancelled" /\ recs[u].class = "cancelled" => t = u
         /\ record' = recs
    /\ attributing' = 0
    /\ UNCHANGED <<line, sliced, taken, waitSource, attributed>>

\* The server logs a run that is over.  What it says of an answered task is what the
\* client got; a run whose client hung up may have ended in any way before that.
LogLine(t) ==
    /\ attributing = 0
    /\ t \in Admitted
    /\ line[t] = Unwritten
    /\ \E s \in Signatures :
         /\ record[t].class = "served" => s = record[t].signature
         /\ line' = [line EXCEPT ![t] = s]
    /\ UNCHANGED <<record, sliced, attributing, taken, waitSource, attributed>>

\* wait_request_log_records: every line is there, or 15 seconds have passed.
SliceLog ==
    /\ attributing = 0
    /\ sliced' = {t \in Tasks : line[t] # Unwritten}
    /\ attributing' = 1
    /\ UNCHANGED <<record, line, taken, waitSource, attributed>>

Used == {taken[u] : u \in {v \in Tasks : taken[v] # 0}}

Matches(t, l) ==
    \/ record[t].class = "cancelled" /\ line[l] \in CancelledSignatures
    \/ record[t].class = "served" /\ line[l] = record[t].signature

Candidates(t) == {l \in sliced \ Used : Matches(t, l)}

Unambiguous_First(t, l) == l \in Candidates(t)

\* Exactly one unused line matches.
Unambiguous(t, l) == Candidates(t) = {l}

Attribute ==
    /\ attributing \in Tasks
    /\ \/ \E l \in Tasks :
            /\ Unambiguous(attributing, l)
            /\ taken' = [taken EXCEPT ![attributing] = l]
       \/ /\ \A l \in Tasks : ~Unambiguous(attributing, l)
          /\ UNCHANGED taken
    /\ attributing' = attributing + 1
    /\ UNCHANGED <<record, line, sliced, waitSource, attributed>>

\* The flag of the report, and resolve_queue_waits: the server's wait if there is one,
\* else the estimate from the slot releases, if there is one.
Resolve ==
    /\ attributing = RecordCount + 1
    /\ \E estimated \in SUBSET Admitted :
         waitSource' = [t \in Tasks |->
                          IF taken[t] # 0 THEN "server-request-log"
                          ELSE IF t \in estimated THEN "slot-release-estimate"
                          ELSE "unattributed"]
    /\ attributed' = (/\ \A t \in Admitted : taken[t] # 0
                      /\ sliced \subseteq Used)
    /\ attributing' = RecordCount + 2
    /\ UNCHANGED <<record, line, sliced, taken>>

LogNext ==
    \/ CollectRecords
    \/ \E t \in Tasks : LogLine(t)
    \/ SliceLog
    \/ Attribute
    \/ Resolve

LogSpec == LogInit /\ [][LogNext]_logVars

-----------------------------------------------------------------------------
(* Properties                                                              *)

LogTypeOK ==
    /\ record \in [Tasks -> Records]
    /\ line \in [Tasks -> Signatures \cup {Unwritten}]
    /\ sliced \subseteq Tasks
    /\ attributing \in -1..(RecordCount + 2)
    /\ taken \in [Tasks -> 0..RecordCount]
    /\ waitSource \in [Tasks -> Sources]
    /\ attributed \in BOOLEAN

\* The task's own line is in the slice and says what the client saw.
OwnMatches(t) == t \in sliced /\ Matches(t, t)

\* "a line is attributed to a task only when the match is unambiguous": with a whole
\* log, the wait presented as the engine's own measurement of a task is that of its run
\* and of no other, unless the run ended otherwise than the client saw.
OwnLine ==
    Admitted \subseteq sliced =>
        \A t \in Tasks : waitSource[t] = "server-request-log" /\ OwnMatches(t) => taken[t] = t

\* A report that says "attributed" gives every admitted task its own line, whatever
\* the log lacked and however the runs ended.
AttributedIsExact == attributed => \A t \in Admitted : taken[t] = t

-----------------------------------------------------------------------------
(* The inductive invariant                                                 *)

\* One victim, and lines only of admitted runs, which say of an answered task what
\* its client saw.
LinesAreHonest ==
    /\ \A t, u \in Tasks : record[t].class = "cancelled" /\ record[u].class = "cancelled" => t = u
    /\ \A t \in Tasks : line[t] # Unwritten =>
           /\ t \in Admitted
           /\ record[t].class = "served" => line[t] = record[t].signature
    /\ \A t \in sliced : line[t] # Unwritten
    /\ attributing < 1 => sliced = {}
    /\ attributing = -1 => \A t \in Tasks : line[t] = Unwritten

\* A line goes to one task, which it matches; in a whole log a line that its own task
\* matches goes to no other, and that task takes no other.
Claims ==
    /\ \A t \in Tasks : taken[t] # 0 =>
           t < attributing /\ taken[t] \in sliced /\ Matches(t, taken[t])
    /\ \A t, u \in Tasks : taken[t] # 0 /\ taken[t] = taken[u] => t = u
    /\ Admitted \subseteq sliced =>
           \A t \in Tasks : OwnMatches(t) =>
               taken[t] \in {0, t} /\ \A u \in Tasks : taken[u] = t => u = t

\* What Resolve reads is what the verdict still says.
Outcome ==
    /\ \A t \in Tasks : waitSource[t] = "server-request-log" =>
           taken[t] # 0 /\ attributing = RecordCount + 2
    /\ attributed =>
           /\ \A t \in Admitted : taken[t] # 0
           /\ sliced \subseteq Used
           /\ attributing = RecordCount + 2

LogInv == LogTypeOK /\ LinesAreHonest /\ Claims /\ Outcome

=============================================================================
