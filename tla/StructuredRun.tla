---------------------------- MODULE StructuredRun ---------------------------
(***************************************************************************)
(* One constrained generation: the JSON grammar's processor and the run    *)
(* record (JSONGrammarProcessor, JSONGrammarLogitProcessor), driven by     *)
(* vmlx's TokenIterator, and the engine's verdict on the finished run      *)
(* (postGenerationError, completeRunForClient).                            *)
(*                                                                         *)
(* vmlx is external.  As the comments in process(logits:) say, next()      *)
(* samples a token ahead: it primes one decode step before it forwards the *)
(* token sampled before, so that the processor has always seen one token   *)
(* more than the client will get.                                          *)
(*                                                                         *)
(* Abstracted: a fragment is a kind of token, the byte grammar is what a   *)
(* kind does to the root value (nothing is said of what is inside one).    *)
(*                                                                         *)
(* Operators named X_Y are deliberate bugs Y in the operator X that        *)
(* follows; no specification uses them.                                    *)
(***************************************************************************)
EXTENDS Integers, FiniteSets

CONSTANTS
    Modes,         \* the response formats of requests
    Vocabularies,  \* the fragment tables a model may have: sets of token kinds
    MaxTokens      \* max_tokens of the request

TokenKinds ==
    {"open",    \* starts a string or a container: { [ " {"a":
     "inner",   \* goes on inside it
     "close",   \* ends the root container or string
     "whole",   \* a root value in one token: {} [] "" true
     "point",   \* a number goes on and cannot end here: - . e
     "digits",  \* a number goes on and can end here
     "space",   \* JSON whitespace only
     "eos"}

ASSUME ModesAssumption == Modes \subseteq {"json_object", "json_schema"}
ASSUME VocabulariesAssumption == Vocabularies \subseteq SUBSET TokenKinds
ASSUME MaxTokensAssumption == MaxTokens \in Nat \ {0}

VARIABLES
    mode,                 \* the response format of this request
    vocabulary,           \* what the model's tokens can spell
    widthMatches,         \* the logits are as wide as the fragment table
    grammar,              \* JSONGrammarState.phase, as far as the root goes
    previousWasSpace,     \* previousFragmentWasWhitespaceOnly
    failure,              \* runRecord.failure
    rootValueCompleted,   \* runRecord.rootValueCompleted
    pending,              \* the token vmlx has sampled and not forwarded
    forwarded,            \* tokenCount: how many it has forwarded
    text,                 \* the root as the client's text spells it
    stopReason,           \* vmlx's stop reason, or "running"
    isCancelled,
    response              \* what the request is answered with, or "none"

request == <<mode, vocabulary, widthMatches>>
processor == <<grammar, previousWasSpace>>
runRecord == <<failure, rootValueCompleted>>
iterator == <<pending, forwarded, text, stopReason>>
vars == <<request, processor, runRecord, iterator, isCancelled, response>>

Phases == {"start", "inside", "number", "openNumber", "complete", "finished", "failed"}
Failures == {"none", "illegalToken", "prematureEndOfSequence", "alreadyFinished",
             "noLegalContinuation", "vocabularyMismatch", "grammarFailed"}

TypeOK ==
    /\ mode \in Modes
    /\ vocabulary \in Vocabularies
    /\ widthMatches \in BOOLEAN
    /\ grammar \in Phases
    /\ previousWasSpace \in BOOLEAN
    /\ failure \in Failures
    /\ rootValueCompleted \in BOOLEAN
    /\ pending \in TokenKinds \cup {"none"}
    /\ forwarded \in 0..MaxTokens
    /\ text \in Phases
    /\ stopReason \in {"running", "stop", "length", "cancelled"}
    /\ isCancelled \in BOOLEAN
    /\ response \in {"none", "stop", "length", "error", "cancelled"}

-----------------------------------------------------------------------------
(* JSONGrammarState and JSONGrammarProcessor                               *)

\* status: a root number that may end here is already complete.
Status(phase) ==
    CASE phase \in {"failed", "finished"} -> phase
      [] phase \in {"complete", "number"} -> "complete"
      [] OTHER -> "inProgress"

\* consume(fragment:): what a token does to the root value in the byte grammar.
\* A strict schema has an object at its root, json_object any JSON value.
Consume(phase, token) ==
    CASE phase = "start" /\ token = "space" -> "start"
      [] phase = "start" /\ token = "open" -> "inside"
      [] phase = "start" /\ token = "whole" -> "complete"
      [] phase = "start" /\ token = "point" /\ mode = "json_object" -> "openNumber"
      [] phase = "start" /\ token = "digits" /\ mode = "json_object" -> "number"
      [] phase = "inside" /\ token \in {"space", "inner"} -> "inside"
      [] phase = "inside" /\ token = "close" -> "complete"
      [] phase \in {"number", "openNumber"} /\ token = "digits" -> "number"
      [] phase = "number" /\ token = "point" -> "openNumber"
      [] phase \in {"number", "complete"} /\ token = "space" -> "complete"
      [] phase \in {"number", "complete"} /\ token = "eos" -> "finished"
      [] OTHER -> "failed"

\* The anti-stall rule: one whitespace-only token at a time before completion.
IsStalledWhitespace(token) ==
    Status(grammar) = "inProgress" /\ previousWasSpace /\ token = "space"

IsAllowed(token) ==
    /\ token \in vocabulary
    /\ ~IsStalledWhitespace(token)
    /\ Consume(grammar, token) # "failed"

Allowed == {token \in TokenKinds : IsAllowed(token)}

\* maskedLogits: what it throws, or "none".
MaskError ==
    IF grammar = "failed" THEN "grammarFailed"
    ELSE IF grammar = "finished" THEN "alreadyFinished"
    ELSE IF ~widthMatches THEN "vocabularyMismatch"
    ELSE IF Allowed = {} THEN "noLegalContinuation"
    ELSE "none"

\* consume(tokenId:): what it throws, or "none".
ConsumeError(token) ==
    IF grammar = "failed" THEN "grammarFailed"
    ELSE IF grammar = "finished" THEN "alreadyFinished"
    ELSE IF token = "eos" /\ Status(grammar) = "inProgress" THEN "prematureEndOfSequence"
    ELSE IF IsStalledWhitespace(token) \/ Consume(grammar, token) = "failed"
      THEN "illegalToken"
    ELSE "none"

\* Of the errors above only a byte the grammar rejects fails the state itself.
GrammarAfter(token) ==
    IF ConsumeError(token) \in {"none", "illegalToken"} /\ ~IsStalledWhitespace(token)
    THEN Consume(grammar, token) ELSE grammar

-----------------------------------------------------------------------------
(* JSONGrammarLogitProcessor                                               *)

RecordFirst_Forgets(error) == failure

\* runRecord.record: the first failure stays.
RecordFirst(error) == IF failure = "none" THEN error ELSE failure

IsPastTheEnd_Never == FALSE

\* process and didSample let a token pass that is sampled after EOS.
IsPastTheEnd == grammar = "finished"

\* The tokens a sampler may draw: what the mask left, after EOS anything, and from
\* a row of -inf anything as well.
Sampleable == IF IsPastTheEnd \/ MaskError # "none" THEN vocabulary ELSE Allowed

\* Masking error, sampled token, consumption error: one decode step of vmlx.
Sample(token) ==
    /\ token \in Sampleable
    /\ pending' = token
    /\ IF IsPastTheEnd
         THEN UNCHANGED <<processor, runRecord>>
         ELSE LET error == ConsumeError(token)
                  first == IF MaskError # "none" THEN MaskError ELSE error
              IN /\ failure' = IF first = "none" THEN failure ELSE RecordFirst(first)
                 /\ grammar' = GrammarAfter(token)
                 /\ previousWasSpace' =
                       IF error # "none" \/ token = "eos" THEN previousWasSpace
                       ELSE token = "space"
                 /\ rootValueCompleted' =
                       (rootValueCompleted
                          \/ (error = "none" /\ Status(grammar') \in {"complete", "finished"}))

-----------------------------------------------------------------------------
(* vmlx's TokenIterator and generate loop (external)                       *)

Init ==
    /\ mode \in Modes
    /\ vocabulary \in Vocabularies
    /\ widthMatches \in BOOLEAN
    /\ grammar = "start"
    /\ previousWasSpace = FALSE
    /\ failure = "none"
    /\ rootValueCompleted = FALSE
    /\ pending = "none"
    /\ forwarded = 0
    /\ text = "start"
    /\ stopReason = "running"
    /\ isCancelled = FALSE
    /\ response = "none"

\* The end of the prefill samples the first token.
Prime ==
    /\ pending = "none"
    /\ \E token \in TokenKinds : Sample(token)
    /\ UNCHANGED <<request, forwarded, text, stopReason, isCancelled, response>>

\* next(): samples the next token, then forwards the pending one; the text does not
\* contain EOS.
Forward ==
    /\ pending # "none"
    /\ stopReason = "running"
    /\ forwarded < MaxTokens
    /\ \E token \in TokenKinds : Sample(token)
    /\ forwarded' = forwarded + 1
    /\ text' = IF pending = "eos" THEN text ELSE Consume(text, pending)
    /\ stopReason' = IF pending = "eos" THEN "stop" ELSE "running"
    /\ UNCHANGED <<request, isCancelled, response>>

\* next() returns nil at max_tokens.
BudgetSpent ==
    /\ stopReason = "running"
    /\ forwarded = MaxTokens
    /\ stopReason' = "length"
    /\ UNCHANGED <<request, processor, runRecord, pending, forwarded, text,
                   isCancelled, response>>

\* The decode loop sees its task cancelled between two tokens.
StopCancelled ==
    /\ pending # "none"
    /\ stopReason = "running"
    /\ isCancelled
    /\ stopReason' = "cancelled"
    /\ UNCHANGED <<request, processor, runRecord, pending, forwarded, text,
                   isCancelled, response>>

Cancel ==
    /\ ~isCancelled
    /\ response = "none"
    /\ isCancelled' = TRUE
    /\ UNCHANGED <<request, processor, runRecord, iterator, response>>

-----------------------------------------------------------------------------
(* The engine's verdict                                                    *)

PostGenerationError_NoFailureCheck == ~rootValueCompleted

\* postGenerationError: a recorded failure, or no complete root value.
PostGenerationError == failure # "none" \/ ~rootValueCompleted

\* generateLocked after task.value (runStreamingLocked decides the same way).
Answer ==
    /\ stopReason # "running"
    /\ response = "none"
    /\ response' = IF isCancelled THEN "cancelled"
                   ELSE IF PostGenerationError THEN "error"
                   ELSE stopReason
    /\ UNCHANGED <<request, processor, runRecord, iterator, isCancelled>>

Answered == response # "none" /\ UNCHANGED vars

Next ==
    \/ Prime
    \/ Forward
    \/ BudgetSpent
    \/ StopCancelled
    \/ Cancel
    \/ Answer
    \/ Answered

Spec == Init /\ [][Next]_vars

-----------------------------------------------------------------------------
(* What a structured answer promises                                       *)

TextIsComplete == Status(text) = "complete"

\* "A response that would say stop" carries a complete root value, although the
\* grammar has always seen a token the client has not: a prefix is never sold as an
\* answer that ended by itself.
StopMeansComplete == response = "stop" => TextIsComplete

\* "Post-EOS lookahead is benign after a valid completion": a run that ended itself
\* with a complete root under the grammar's mask is not failed for what vmlx samples
\* and throws away after it.
NoSpuriousFailure ==
    response = "error" /\ stopReason = "stop"
        => ~widthMatches \/ ~TextIsComplete \/ failure = "noLegalContinuation"

\* "NEVER unmasked logits": while the mask works, every token the client gets is one
\* the grammar takes, and no run whose mask failed once is answered.
FailsClosed ==
    /\ failure = "none" => text # "failed" /\ grammar # "failed"
    /\ response \in {"stop", "length"} => failure = "none" /\ widthMatches

\* postGenerationError's comment: "a truncated or aborted answer must never masquerade
\* as a successful structured response, regardless of whether the producer reports
\* stop, length, or cancellation".
AnswerIsComplete == response \in {"stop", "length"} => TextIsComplete
=============================================================================
