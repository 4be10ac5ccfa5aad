-------------------------- MODULE StructuredRun_proofs ------------------------
(***************************************************************************)
(* Theorems about StructuredRun for every response format, every           *)
(* vocabulary and every token budget.                                      *)
(***************************************************************************)
EXTENDS StructuredRun, TLAPS

-----------------------------------------------------------------------------
(* The inductive invariant                                                 *)

\* Until something is recorded, the grammar is one token ahead of the client's text.
OneTokenAhead ==
    failure = "none" =>
        /\ grammar # "failed"
        /\ text \notin {"failed", "finished"}
        /\ pending = "none" => grammar = "start"
        /\ pending # "none" /\ stopReason # "stop" =>
              /\ grammar = IF pending = "eos" THEN "finished" ELSE Consume(text, pending)
              /\ pending = "eos" => Status(text) = "complete"
        /\ stopReason = "stop" => grammar = "finished" /\ Status(text) = "complete"
        /\ Status(grammar) \in {"complete", "finished"} => rootValueCompleted

\* What is recorded first tells what went wrong: without a table that fits nothing is
\* sampled unrecorded, and with one only a grammar that can go nowhere is a failure.
Recorded ==
    /\ widthMatches => failure \in {"none", "noLegalContinuation"}
    /\ ~widthMatches /\ pending # "none" => failure # "none"

\* Nothing ends before a token was sampled, and nothing is sampled after the end.
Ended ==
    /\ pending = "none" =>
          /\ forwarded = 0 /\ stopReason = "running" /\ failure = "none"
          /\ text = "start" /\ ~rootValueCompleted
    /\ response # "none" => stopReason # "running"
    /\ response \in {"stop", "length"} =>
          response = stopReason /\ failure = "none" /\ rootValueCompleted
    /\ response = "error" => failure # "none" \/ ~rootValueCompleted

IInv ==
    /\ TypeOK
    /\ OneTokenAhead
    /\ Recorded
    /\ Ended

-----------------------------------------------------------------------------
(* The grammar                                                             *)

\* What a token may do to a root value.
LEMMA ConsumeFacts ==
    ASSUME NEW phase \in Phases, NEW token \in TokenKinds
    PROVE  /\ Consume(phase, token) \in Phases
           /\ Consume(phase, token) = "finished"
                 <=> token = "eos" /\ Status(phase) = "complete"
           /\ token = "eos" /\ Status(phase) # "complete" => Consume(phase, token) = "failed"
           /\ phase \in {"failed", "finished"} => Consume(phase, token) = "failed"
  BY DEF Phases, TokenKinds, Consume, Status

\* What the mask leaves, the grammar takes.
LEMMA AllowedIsConsumed ==
    ASSUME TypeOK, NEW token \in Allowed
    PROVE  ConsumeError(token) = "none"
  <1>1. token \in TokenKinds /\ IsAllowed(token)
    BY DEF Allowed
  <1>2. grammar \notin {"failed", "finished"}
    BY <1>1, ConsumeFacts DEF TypeOK, IsAllowed
  <1>3. token = "eos" => Status(grammar) = "complete"
    BY <1>1, ConsumeFacts DEF TypeOK, IsAllowed
  <1> QED
    BY <1>1, <1>2, <1>3 DEF IsAllowed, ConsumeError

\* One decode step before the end of the root value, from a clean record.
LEMMA SampleOfClean ==
    ASSUME TypeOK, Recorded, NEW token \in TokenKinds, Sample(token),
           failure = "none", grammar \notin {"failed", "finished"}
    PROVE  /\ widthMatches => failure' \in {"none", "noLegalContinuation"}
           /\ ~widthMatches => failure' # "none"
           /\ failure' = "none" =>
                 /\ MaskError = "none"
                 /\ grammar' = Consume(grammar, token)
                 /\ grammar' # "failed"
                 /\ Status(grammar') \in {"complete", "finished"} => rootValueCompleted'
  <1>1. ~IsPastTheEnd
    BY DEF IsPastTheEnd
  <1>2. /\ failure' = IF MaskError # "none" THEN MaskError ELSE ConsumeError(token)
        /\ grammar' = GrammarAfter(token)
        /\ rootValueCompleted' =
              (rootValueCompleted
                 \/ (ConsumeError(token) = "none"
                       /\ Status(grammar') \in {"complete", "finished"}))
    BY <1>1 DEF Sample, RecordFirst
  <1>3. CASE MaskError # "none"
    <2>1. MaskError = IF ~widthMatches THEN "vocabularyMismatch" ELSE "noLegalContinuation"
      BY <1>3 DEF MaskError
    <2> QED
      BY <1>2, <1>3, <2>1
  <1>4. CASE MaskError = "none"
    <2>1. token \in Allowed /\ widthMatches
      BY <1>1, <1>4 DEF Sample, Sampleable, MaskError
    <2>2. ConsumeError(token) = "none"
      BY <2>1, AllowedIsConsumed
    <2>3. ~IsStalledWhitespace(token) /\ Consume(grammar, token) # "failed"
      BY <2>1 DEF Allowed, IsAllowed
    <2> QED
      BY <1>2, <1>4, <2>1, <2>2, <2>3 DEF GrammarAfter
  <1> QED
    BY <1>3, <1>4

\* What failed first stays the failure of the run.
LEMMA SampleOfFailed ==
    ASSUME NEW token, Sample(token), failure # "none"
    PROVE  failure' = failure
  BY DEF Sample, RecordFirst, runRecord

\* What is sampled after EOS is not looked at.
LEMMA SampleAfterEnd ==
    ASSUME NEW token, Sample(token), grammar = "finished"
    PROVE  UNCHANGED <<processor, runRecord>>
  BY DEF Sample, IsPastTheEnd

\* A decode step keeps the types.
LEMMA SampleType ==
    ASSUME TypeOK, NEW token \in TokenKinds, Sample(token)
    PROVE  /\ pending' \in TokenKinds
           /\ grammar' \in Phases
           /\ previousWasSpace' \in BOOLEAN
           /\ failure' \in Failures
           /\ rootValueCompleted' \in BOOLEAN
  <1>1. CASE IsPastTheEnd
    BY <1>1 DEF TypeOK, Sample, processor, runRecord
  <1>2. CASE ~IsPastTheEnd
    <2>1. MaskError \in Failures /\ ConsumeError(token) \in Failures
      BY DEF MaskError, ConsumeError, Failures
    <2>2. failure' \in Failures
      BY <1>2, <2>1 DEF TypeOK, Sample, RecordFirst
    <2>3. GrammarAfter(token) \in Phases
      BY ConsumeFacts DEF TypeOK, GrammarAfter
    <2>4. grammar' \in Phases
      BY <1>2, <2>3 DEF Sample
    <2>5. rootValueCompleted' \in BOOLEAN
      BY <1>2 DEF TypeOK, Sample
    <2>6. previousWasSpace' \in BOOLEAN
      BY <1>2 DEF TypeOK, Sample
    <2> QED
      BY <2>2, <2>4, <2>5, <2>6 DEF Sample
  <1> QED
    BY <1>1, <1>2

-----------------------------------------------------------------------------
(* The invariant holds in every behaviour                                  *)

\* The first token is sampled at the start of the root value.
LEMMA PrimeKeeps == IInv /\ Prime => IInv'
  <1> SUFFICES ASSUME IInv, Prime PROVE IInv'
    OBVIOUS
  <1> USE DEF IInv
  <1>1. PICK token \in TokenKinds : Sample(token)
    BY DEF Prime
  <1>2. /\ pending = "none" /\ failure = "none" /\ grammar = "start" /\ text = "start"
        /\ stopReason = "running" /\ response = "none"
    BY DEF Prime, Ended, OneTokenAhead
  <1>3. /\ pending' = token /\ token # "none"
        /\ UNCHANGED <<mode, vocabulary, widthMatches, forwarded, text, stopReason, isCancelled,
                       response>>
    BY <1>1 DEF Prime, Sample, request, TokenKinds
  <1>4. TypeOK'
    BY <1>1, <1>3, SampleType DEF TypeOK
  <1>5. /\ widthMatches => failure' \in {"none", "noLegalContinuation"}
        /\ ~widthMatches => failure' # "none"
        /\ failure' = "none" =>
              /\ grammar' = Consume(grammar, token)
              /\ grammar' # "failed"
              /\ Status(grammar') \in {"complete", "finished"} => rootValueCompleted'
    BY <1>1, <1>2, SampleOfClean
  <1>6. token = "eos" => Consume(grammar, token) = "failed"
    BY <1>2, ConsumeFacts DEF Phases, Status
  <1>7. Consume(text, token)' = Consume(text, token)
    BY <1>3 DEF Consume
  <1>8. OneTokenAhead'
    BY <1>2, <1>3, <1>5, <1>6, <1>7 DEF OneTokenAhead
  <1>9. Recorded' /\ Ended'
    BY <1>2, <1>3, <1>5 DEF Recorded, Ended
  <1> QED
    BY <1>4, <1>8, <1>9

\* A token is sampled and the one before it forwarded.
LEMMA ForwardKeeps == IInv /\ Forward => IInv'
  <1> SUFFICES ASSUME IInv, Forward PROVE IInv'
    OBVIOUS
  <1> USE DEF IInv
  <1>1. PICK token \in TokenKinds : Sample(token)
    BY DEF Forward
  <1>2. /\ pending \in TokenKinds /\ stopReason = "running" /\ response = "none"
        /\ text' = IF pending = "eos" THEN text ELSE Consume(text, pending)
        /\ stopReason' = IF pending = "eos" THEN "stop" ELSE "running"
    BY DEF Forward, TypeOK, Ended
  <1>3. /\ pending' = token /\ token # "none"
        /\ forwarded' = forwarded + 1
        /\ UNCHANGED <<mode, vocabulary, widthMatches, isCancelled, response>>
    BY <1>1 DEF Forward, Sample, request, TokenKinds
  <1>4. TypeOK'
    <2>1. forwarded' \in 0..MaxTokens
      BY <1>3, MaxTokensAssumption DEF Forward, TypeOK
    <2>2. text' \in Phases
      BY <1>2, ConsumeFacts DEF TypeOK
    <2>3. stopReason' \in {"running", "stop", "length", "cancelled"}
      BY <1>2
    <2> QED
      BY <1>1, <1>3, <2>1, <2>2, <2>3, SampleType DEF TypeOK
  <1>5. Consume(text', token) = Consume(text, token)'
    BY <1>3 DEF Consume
  <1>6. CASE failure # "none"
    <2>1. failure' = failure
      BY <1>1, <1>6, SampleOfFailed
    <2>2. OneTokenAhead'
      BY <1>6, <2>1 DEF OneTokenAhead
    <2>3. Recorded' /\ Ended'
      BY <1>2, <1>3, <1>6, <2>1 DEF Recorded, Ended
    <2> QED
      BY <1>4, <2>2, <2>3
  <1>7. CASE failure = "none" /\ pending = "eos"
    <2>1. grammar = "finished" /\ Status(text) = "complete"
      BY <1>2, <1>7 DEF OneTokenAhead, TokenKinds
    <2>2. failure' = failure /\ grammar' = grammar /\ rootValueCompleted' = rootValueCompleted
      BY <1>1, <2>1, SampleAfterEnd DEF processor, runRecord
    <2>3. text' = text /\ stopReason' = "stop"
      BY <1>2, <1>7
    <2>4. OneTokenAhead'
      BY <1>3, <1>7, <2>1, <2>2, <2>3 DEF OneTokenAhead, Status
    <2>5. Recorded' /\ Ended'
      BY <1>2, <1>3, <1>7, <2>2, <2>3 DEF Recorded, Ended
    <2> QED
      BY <1>4, <2>4, <2>5
  <1>8. CASE failure = "none" /\ pending # "eos"
    <2>1. pending # "none" /\ grammar = Consume(text, pending) /\ grammar # "failed"
      BY <1>2, <1>8 DEF OneTokenAhead, TokenKinds
    <2>2. text \in Phases /\ grammar # "finished"
      BY <1>2, <1>8, <2>1, ConsumeFacts DEF TypeOK
    <2>3. text' = grammar /\ stopReason' = "running"
      BY <1>2, <1>8, <2>1
    <2>4. /\ widthMatches => failure' \in {"none", "noLegalContinuation"}
          /\ ~widthMatches => failure' # "none"
          /\ failure' = "none" =>
                /\ grammar' = Consume(grammar, token)
                /\ grammar' # "failed"
                /\ Status(grammar') \in {"complete", "finished"} => rootValueCompleted'
      BY <1>1, <1>8, <2>1, <2>2, SampleOfClean
    <2>5. failure' = "none" /\ token = "eos" => grammar' = "finished" /\ Status(grammar) = "complete"
      BY <2>4, ConsumeFacts DEF TypeOK
    <2>6. Status(text)' = Status(grammar)
      BY <2>3 DEF Status
    <2>7. OneTokenAhead'
      BY <1>3, <1>5, <2>1, <2>2, <2>3, <2>4, <2>5, <2>6 DEF OneTokenAhead
    <2>8. Recorded' /\ Ended'
      BY <1>2, <1>3, <2>4 DEF Recorded, Ended
    <2> QED
      BY <1>4, <2>7, <2>8
  <1> QED
    BY <1>6, <1>7, <1>8

\* The end of the decode, a cancellation and the verdict sample nothing.
LEMMA EndKeeps ==
    IInv /\ (BudgetSpent \/ StopCancelled \/ Cancel \/ Answer \/ UNCHANGED vars) => IInv'
  <1> SUFFICES ASSUME IInv, BudgetSpent \/ StopCancelled \/ Cancel \/ Answer \/ UNCHANGED vars
               PROVE  IInv'
    OBVIOUS
  <1> USE DEF IInv
  <1>1. UNCHANGED <<request, processor, runRecord, pending, forwarded, text>>
    BY DEF BudgetSpent, StopCancelled, Cancel, Answer, vars, iterator
  <1>2. /\ Consume(text, pending)' = Consume(text, pending)
        /\ Status(text)' = Status(text) /\ Status(grammar)' = Status(grammar)
    BY <1>1 DEF Consume, Status, request, processor
  <1>3. \/ stopReason' = stopReason
        \/ /\ stopReason = "running" /\ stopReason' \in {"length", "cancelled"}
           /\ response' = response /\ pending # "none"
    <2>1. BudgetSpent => pending # "none"
      BY MaxTokensAssumption DEF BudgetSpent, Ended
    <2> QED
      BY <2>1 DEF BudgetSpent, StopCancelled, Cancel, Answer, vars, iterator
  <1>4. TypeOK'
    <2>1. /\ isCancelled' \in BOOLEAN
          /\ stopReason' \in {"running", "stop", "length", "cancelled"}
          /\ response' \in {"none", "stop", "length", "error", "cancelled"}
      BY DEF TypeOK, BudgetSpent, StopCancelled, Cancel, Answer, vars, iterator
    <2> QED
      BY <1>1, <2>1 DEF TypeOK, request, processor, runRecord
  <1>5. OneTokenAhead'
    BY <1>1, <1>2, <1>3 DEF OneTokenAhead, processor, runRecord
  <1>6. Recorded'
    BY <1>1 DEF Recorded, request, runRecord
  <1>7. Ended'
    <2>1. CASE response' = response
      BY <1>1, <1>3, <2>1 DEF Ended, runRecord
    <2>2. CASE Answer
      BY <1>1, <2>2 DEF Ended, Answer, PostGenerationError, TypeOK, iterator, runRecord
    <2> QED
      BY <2>1, <2>2 DEF BudgetSpent, StopCancelled, Cancel, vars
  <1> QED
    BY <1>4, <1>5, <1>6, <1>7

\* The inductive invariant of a constrained generation.
THEOREM Invariance == Spec => []IInv
  <1>1. Init => IInv
    <2> SUFFICES ASSUME Init PROVE IInv
      OBVIOUS
    <2>1. TypeOK
      <3>1. 0 \in 0..MaxTokens
        BY MaxTokensAssumption
      <3> QED
        BY <3>1 DEF Init, TypeOK, Phases, Failures
    <2> QED
      BY <2>1 DEF Init, IInv, OneTokenAhead, Recorded, Ended, Status
  <1>2. IInv /\ [Next]_vars => IInv'
    BY PrimeKeeps, ForwardKeeps, EndKeeps DEF Next, Answered
  <1> QED
    BY <1>1, <1>2, PTL DEF Spec

-----------------------------------------------------------------------------
(* What a structured answer promises                                       *)

\* Every variable has its type in every behaviour.
THEOREM TypeCorrect == Spec => []TypeOK
  <1>1. IInv => TypeOK
    BY DEF IInv
  <1> QED
    BY <1>1, Invariance, PTL

\* A run answered with stop carries a complete root value, whatever was sampled ahead.
THEOREM StopsAreComplete == Spec => []StopMeansComplete
  <1>1. IInv => StopMeansComplete
    BY DEF IInv, Ended, OneTokenAhead, StopMeansComplete, TextIsComplete
  <1> QED
    BY <1>1, Invariance, PTL

\* A run that ended itself with a complete root value is failed only when the grammar had
\* nowhere to go or the table did not fit, never for what was sampled after it.
THEOREM FailuresAreReal == Spec => []NoSpuriousFailure
  <1>1. IInv => NoSpuriousFailure
    BY DEF IInv, Ended, OneTokenAhead, Recorded, Status, NoSpuriousFailure, TextIsComplete
  <1> QED
    BY <1>1, Invariance, PTL

\* As long as nothing is recorded the client's text is one the grammar took, and a run with
\* a recorded failure, or without a table that fits, is never answered.
THEOREM RunsFailClosed == Spec => []FailsClosed
  <1>1. IInv => FailsClosed
    BY DEF IInv, Ended, OneTokenAhead, Recorded, FailsClosed
  <1> QED
    BY <1>1, Invariance, PTL

=============================================================================
