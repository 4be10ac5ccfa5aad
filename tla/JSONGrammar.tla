----------------------------- MODULE JSONGrammar ----------------------------
(***************************************************************************)
(* JSONGrammarState (JSONGrammar.swift): the byte automaton that decides   *)
(* what a constrained model may write, for json_object and for strict      *)
(* schemas.                                                                *)
(*                                                                         *)
(* A state is a phase and a stack of open containers; Step is the source's *)
(* step(_:), with its retry at the end of a number or a literal unfolded.  *)
(* Bytes and Unicode scalars are numbers, names are sequences of scalars.  *)
(*                                                                         *)
(* An optional is a set with at most one element.                          *)
(*                                                                         *)
(* Operators named X_Y are deliberate bugs Y in the operator X that        *)
(* follows; no specification uses them.                                    *)
(***************************************************************************)
EXTENDS Integers, Sequences, SequencesExt

CONSTANTS
    Inputs,               \* what is tried: a root value, the bytes fed, their number
    Schemas,              \* the compiled schemas, and those of the values in them
    MaximumNestingDepth   \* of json_object mode

ASSUME InputsAssumption ==
    \A i \in Inputs : i.root \in Schemas /\ i.bytes \subseteq 0..255 /\ i.length \in Nat
ASSUME DepthAssumption == MaximumNestingDepth \in Nat \ {0}

\* JSONGrammarNode: what a container holds is compiled too, and a maximum is a count.
ASSUME SchemasAssumption ==
    /\ [type |-> "any"] \in Schemas
    /\ \A s \in Schemas :
          /\ s.type = "object" => \A name \in DOMAIN s.properties : s.properties[name] \in Schemas
          /\ s.type = "array" =>
                s.items \in Schemas /\ s.maxItems \subseteq Nat /\ \A m, n \in s.maxItems : m = n

VARIABLES
    input,     \* the member of Inputs tried here
    grammar,   \* JSONGrammarState: phase and stack
    text       \* the bytes consumed since the last reset, the rejected one included

vars == <<input, grammar, text>>

-----------------------------------------------------------------------------
(* Bytes                                                                   *)

LBrace == 123
RBrace == 125
LBracket == 91
RBracket == 93
Colon == 58
Comma == 44
Quote == 34
Backslash == 92
Minus == 45
Plus == 43
Zero == 48
Dot == 46
LetterT == 116
LetterF == 102
LetterN == 110
LetterU == 117

Spaces == {32, 9, 10, 13}
Digits == 48..57
Exponents == {101, 69}
Terminators == Spaces \cup {Comma, RBrace, RBracket}

\* The literals by their first byte: true, false, null.
Literal(b) ==
    CASE b = LetterT -> <<116, 114, 117, 101>>
      [] b = LetterF -> <<102, 97, 108, 115, 101>>
      [] b = LetterN -> <<110, 117, 108, 108>>

\* What the byte after a backslash stands for.
Escapes == {<<34, 34>>, <<92, 92>>, <<47, 47>>, <<98, 8>>, <<102, 12>>, <<110, 10>>,
            <<114, 13>>, <<116, 9>>}

HexNibble(b) ==
    CASE b \in 48..57 -> {b - 48}
      [] b \in 65..70 -> {b - 55}
      [] b \in 97..102 -> {b - 87}
      [] OTHER -> {}

\* utf8Sequence(startingWith:): for a lead byte its payload, how many bytes follow,
\* the range of the next one, and the scalars it is taken to reach.
Utf8Lead(b) ==
    CASE b \in 194..223 -> [payload |-> b % 32, rest |-> 1, next |-> 128..191, reach |-> 128..2047]
      [] b = 224        -> [payload |-> 0, rest |-> 2, next |-> 160..191, reach |-> 2048..4095]
      [] b \in 225..236 -> [payload |-> b % 16, rest |-> 2, next |-> 128..191, reach |-> 4096..53247]
      [] b = 237        -> [payload |-> 13, rest |-> 2, next |-> 128..159, reach |-> 53248..57343]
      [] b \in 238..239 -> [payload |-> b % 16, rest |-> 2, next |-> 128..191, reach |-> 57344..65535]
      [] b = 240        -> [payload |-> 0, rest |-> 3, next |-> 144..191, reach |-> 65536..262143]
      [] b \in 241..243 -> [payload |-> b % 8, rest |-> 3, next |-> 128..191, reach |-> 262144..1048575]
      [] b = 244        -> [payload |-> 4, rest |-> 3, next |-> 128..143, reach |-> 1048576..1114111]

Utf8Leads == 194..244
Supplementary == 65536..1114111

-----------------------------------------------------------------------------
(* Compiled schemas, phases and frames                                     *)

AnyJSON == [type |-> "any"]

ValueStart(constraint) == [at |-> "valueStart", constraint |-> constraint, emptyClose |-> FALSE]
FirstItem(constraint) == [at |-> "valueStart", constraint |-> constraint, emptyClose |-> TRUE]
KeyStart(fresh) == [at |-> "keyStart", fresh |-> fresh]
ExpectColon(constraint) == [at |-> "expectColon", constraint |-> constraint]
AfterValue == [at |-> "afterValue"]
InString(role) == [at |-> "string", role |-> role]
InLiteral(b) == [at |-> "literal", expected |-> Literal(b), matched |-> 1]
Complete == [at |-> "complete"]
Finished == [at |-> "finished"]
Failed == [at |-> "failed"]

\* StringRole: free text, or a word that must become one of some candidates
\* (ScalarPrefixMatcher).
Plain == [type |-> "plain"]
FreeKey == [type |-> "freeKey"]
Key(names) == [type |-> "key", candidates |-> names, decoded |-> <<>>]
EnumValue(words) == [type |-> "enumValue", candidates |-> words, decoded |-> <<>>]

IsFree(role) == role.type \in {"plain", "freeKey"}

InitialGrammar(root) == [phase |-> ValueStart(root), stack |-> <<>>]

To(g, phase) == [g EXCEPT !.phase = phase]
Reject(g) == To(g, Failed)
Push(g, frame, phase) == [phase |-> phase, stack |-> Append(g.stack, frame)]
Top(g) == Last(g.stack)

IsTerminable(numberState) ==
    numberState \in {"zero", "integerDigits", "fractionDigits", "exponentDigits"}

Status(g) ==
    LET p == g.phase
    IN CASE p.at \in {"failed", "finished", "complete"} -> p.at
         [] p.at = "number" /\ g.stack = <<>> /\ IsTerminable(p.state) -> "complete"
         [] p.at = "literal" /\ g.stack = <<>> /\ p.matched = Len(p.expected) -> "complete"
         [] OTHER -> "inProgress"

\* valueCompletedPhase: an item of a schema array is counted.
ValueCompleted(g) ==
    IF g.stack = <<>> THEN To(g, Complete)
    ELSE IF Top(g).type = "schemaArray"
      THEN [phase |-> AfterValue, stack |-> [g.stack EXCEPT ![Len(g.stack)].count = @ + 1]]
      ELSE To(g, AfterValue)

-----------------------------------------------------------------------------
(* Containers                                                              *)

CanClose_Always(frame) == TRUE

\* closeContainer: required keys are there, and enough items.
CanClose(frame) ==
    CASE frame.type = "schemaObject" -> frame.object.required \subseteq frame.used
      [] frame.type = "schemaArray" -> frame.count >= frame.array.minItems
      [] OTHER -> TRUE

Closer(frame) == IF frame.type \in {"freeObject", "schemaObject"} THEN RBrace ELSE RBracket

CloseContainer(g, b) ==
    IF g.stack # <<>> /\ b = Closer(Top(g)) /\ CanClose(Top(g))
    THEN ValueCompleted([g EXCEPT !.stack = Front(@)])
    ELSE Reject(g)

CanAddMember(frame) ==
    CASE frame.type = "schemaObject" -> DOMAIN frame.object.properties \ frame.used # {}
      [] frame.type = "schemaArray" -> \A max \in frame.array.maxItems : frame.count < max
      [] OTHER -> TRUE

OpenNextMember(g) ==
    To(g, CASE Top(g).type \in {"freeObject", "schemaObject"} -> KeyStart(FALSE)
            [] Top(g).type = "freeArray" -> ValueStart(AnyJSON)
            [] Top(g).type = "schemaArray" -> ValueStart(Top(g).array.items))

StartStringKey_Reused(g) ==
    To(g, InString(IF Top(g).type = "freeObject" THEN FreeKey
                   ELSE Key(DOMAIN Top(g).object.properties)))

\* A key of a schema object must become one of its unused names.
StartStringKey(g) ==
    To(g, CASE Top(g).type = "freeObject" -> InString(FreeKey)
            [] Top(g).type = "schemaObject" ->
                 InString(Key(DOMAIN Top(g).object.properties \ Top(g).used))
            [] OTHER -> Failed)

StepKeyStart(g, b) ==
    CASE b \in Spaces -> g
      [] b = Quote -> StartStringKey(g)
      [] g.phase.fresh /\ b = RBrace -> CloseContainer(g, b)
      [] OTHER -> Reject(g)

StepExpectColon(g, b) ==
    CASE b \in Spaces -> g
      [] b = Colon -> To(g, ValueStart(g.phase.constraint))
      [] OTHER -> Reject(g)

StepAfterValue(g, b) ==
    CASE b \in Spaces -> g
      [] b = Comma /\ CanAddMember(Top(g)) -> OpenNextMember(g)
      [] b \in {RBrace, RBracket} -> CloseContainer(g, b)
      [] OTHER -> Reject(g)

StepComplete(g, b) == IF b \in Spaces THEN g ELSE Reject(g)

\* The retry: the byte that ends a number or a literal is taken by what comes next.
EndValue(g, b) ==
    LET h == ValueCompleted(g)
    IN IF h.phase = Complete THEN StepComplete(h, b) ELSE StepAfterValue(h, b)

-----------------------------------------------------------------------------
(* Numbers and literals                                                    *)

\* The tracker of a constrained number: its constraints and what has been read of it.
Numbers == INSTANCE NumberTracker

\* The byte is taken only if some accepted literal begins with what has been read.
Track(g, kind, tracker, state) ==
    IF \A t \in tracker : Numbers!HasCompletion(t.constraints, kind, t.prefix)
    THEN To(g, [at |-> "number", kind |-> kind, state |-> state, tracker |-> tracker])
    ELSE Reject(g)

Advance(g, kind, tracker, b, state) ==
    Track(g, kind, {[t EXCEPT !.prefix = Numbers!Consume(@, b)] : t \in tracker}, state)

StartNumber(g, b, kind, constraints) ==
    IF b \in Digits \cup {Minus}
    THEN Track(g, kind,
               {[constraints |-> c, prefix |-> Numbers!ConsumeStart(Numbers!NoPrefix, b)] :
                  c \in constraints},
               CASE b = Minus -> "sign" [] b = Zero -> "zero" [] OTHER -> "integerDigits")
    ELSE Reject(g)

\* A number ends where its syntax and its constraints allow it.
TerminateNumber(g, b) ==
    IF /\ b \in Terminators
       /\ \A t \in g.phase.tracker : Numbers!AcceptsExactly(t.constraints, t.prefix)
    THEN EndValue(g, b) ELSE Reject(g)

\* Where the syntax of a number goes with its next byte.
NextNumberStates(s, b, isNumber) ==
    CASE s = "sign" /\ b = Zero -> {"zero"}
      [] s = "sign" /\ b \in Digits \ {Zero} -> {"integerDigits"}
      [] s = "integerDigits" /\ b \in Digits -> {"integerDigits"}
      [] s \in {"zero", "integerDigits"} /\ isNumber /\ b = Dot -> {"fractionStart"}
      [] s \in {"zero", "integerDigits"} /\ isNumber /\ b \in Exponents -> {"exponentStart"}
      [] s \in {"fractionStart", "fractionDigits"} /\ b \in Digits -> {"fractionDigits"}
      [] s = "fractionDigits" /\ b \in Exponents -> {"exponentStart"}
      [] s = "exponentStart" /\ b \in {Plus, Minus} -> {"exponentSign"}
      [] s \in {"exponentStart", "exponentSign", "exponentDigits"} /\ b \in Digits ->
           {"exponentDigits"}
      [] OTHER -> {}

StepNumber(g, b) ==
    LET p == g.phase
        next == NextNumberStates(p.state, b, p.kind = "number")
    IN IF next # {} THEN Advance(g, p.kind, p.tracker, b, CHOOSE s \in next : TRUE)
       ELSE IF IsTerminable(p.state) THEN TerminateNumber(g, b)
       ELSE Reject(g)

StepLiteral(g, b) ==
    LET p == g.phase
    IN CASE p.matched < Len(p.expected) /\ b = p.expected[p.matched + 1] ->
              To(g, [p EXCEPT !.matched = @ + 1])
         [] p.matched = Len(p.expected) /\ b \in Terminators -> EndValue(g, b)
         [] OTHER -> Reject(g)

-----------------------------------------------------------------------------
(* Value starts                                                            *)

\* startJSONValue: the nesting cap holds for free containers only.
StartFree(g, b) ==
    CASE b = LBrace /\ Len(g.stack) < MaximumNestingDepth ->
           Push(g, [type |-> "freeObject"], KeyStart(TRUE))
      [] b = LBracket /\ Len(g.stack) < MaximumNestingDepth ->
           Push(g, [type |-> "freeArray"], FirstItem(AnyJSON))
      [] b = Quote -> To(g, InString(Plain))
      [] b \in {LetterT, LetterF, LetterN} -> To(g, InLiteral(b))
      [] OTHER -> StartNumber(g, b, "number", {})

\* startScalarValue.
StartScalar(g, b, scalar) ==
    IF scalar.acceptsNull /\ b = LetterN THEN To(g, InLiteral(b))
    ELSE CASE scalar.type = "string" /\ b = Quote /\ scalar.words = {} -> To(g, InString(Plain))
           [] scalar.type = "string" /\ b = Quote /\ scalar.words # {} /\ {} \notin scalar.words ->
                To(g, InString(EnumValue(UNION scalar.words)))
           [] scalar.type = "boolean" /\ b = LetterT /\ TRUE \in scalar.booleans -> To(g, InLiteral(b))
           [] scalar.type = "boolean" /\ b = LetterF /\ FALSE \in scalar.booleans -> To(g, InLiteral(b))
           [] scalar.type \in {"number", "integer"} ->
                StartNumber(g, b, scalar.type, scalar.constraints)
           [] OTHER -> Reject(g)

StartArray_NoEmptyCase(g, array) ==
    Push(g, [type |-> "schemaArray", array |-> array, count |-> 0], FirstItem(array.items))

\* An array of no items can only close.
StartArray(g, array) ==
    Push(g, [type |-> "schemaArray", array |-> array, count |-> 0],
         IF array.maxItems = {0} THEN AfterValue ELSE FirstItem(array.items))

\* startJSONValue and startSchemaValue.
StartValue(g, b, value) ==
    CASE value.type = "any" -> StartFree(g, b)
      [] value.type = "object" ->
           IF b = LBrace
           THEN Push(g, [type |-> "schemaObject", object |-> value, used |-> {}], KeyStart(TRUE))
           ELSE Reject(g)
      [] value.type = "array" -> IF b = LBracket THEN StartArray(g, value) ELSE Reject(g)
      [] OTHER -> StartScalar(g, b, value)

StepValueStart(g, b) ==
    CASE b \in Spaces -> g
      [] g.phase.emptyClose /\ b = RBracket -> CloseContainer(g, b)
      [] OTHER -> StartValue(g, b, g.phase.constraint)

-----------------------------------------------------------------------------
(* Strings                                                                 *)

\* roleAllowsScalarRange, canAppend: some candidate's next scalar is in the range.
\* As in the source, the candidate need not begin with what has been decoded.
CanAppend(role, scalars) ==
    \/ IsFree(role)
    \/ \E name \in role.candidates :
          /\ Len(name) > Len(role.decoded)
          /\ name[Len(role.decoded) + 1] \in scalars

\* roleByAppending: free text takes every scalar, a word only what keeps a candidate.
AppendScalar(g, role, scalar) ==
    IF IsFree(role) THEN To(g, InString(role))
    ELSE LET word == Append(role.decoded, scalar)
         IN IF \E name \in role.candidates : IsPrefix(word, name)
            THEN To(g, InString([role EXCEPT !.decoded = word]))
            ELSE Reject(g)

\* closeString: a key is marked used and its value is what comes after the colon.
CloseString(g, role) ==
    IF ~IsFree(role) /\ role.decoded \notin role.candidates THEN Reject(g)
    ELSE CASE role.type \in {"plain", "enumValue"} -> ValueCompleted(g)
           [] role.type = "freeKey" -> To(g, ExpectColon(AnyJSON))
           [] role.type = "key" ->
                [phase |-> ExpectColon(Top(g).object.properties[role.decoded]),
                 stack |-> [g.stack EXCEPT ![Len(g.stack)].used = @ \cup {role.decoded}]]

StepString(g, b) ==
    LET role == g.phase.role
    IN CASE b = Quote -> CloseString(g, role)
         [] b = Backslash -> To(g, [at |-> "stringEscape", role |-> role])
         [] b \in 32..127 \ {Quote, Backslash} -> AppendScalar(g, role, b)
         [] b \in Utf8Leads ->
              LET lead == Utf8Lead(b)
              IN IF CanAppend(role, lead.reach)
                 THEN To(g, [at |-> "utf8", role |-> role, scalar |-> lead.payload,
                             rest |-> lead.rest, next |-> lead.next])
                 ELSE Reject(g)
         [] OTHER -> Reject(g)

\* Inside a multi-byte UTF-8 sequence; only its last byte meets the candidates.
StepUtf8(g, b) ==
    LET p == g.phase
        value == p.scalar * 64 + (b % 64)
    IN IF b \notin p.next THEN Reject(g)
       ELSE IF p.rest > 1
         THEN To(g, [p EXCEPT !.scalar = value, !.rest = @ - 1, !.next = 128..191])
       ELSE AppendScalar(g, p.role, value)

StepEscape(g, b) ==
    CASE b = LetterU -> To(g, [at |-> "unicodeEscape", role |-> g.phase.role,
                               nibbles |-> 0, value |-> 0])
      [] \E e \in Escapes : e[1] = b ->
           AppendScalar(g, g.phase.role, (CHOOSE e \in Escapes : e[1] = b)[2])
      [] OTHER -> Reject(g)

\* escapeCompletionIsFeasible: the scalars that `missing` more nibbles can reach.
EscapeIsFeasible(role, partial, missing) ==
    LET low == partial * 16 ^ missing
        high == low + 16 ^ missing - 1
    IN \/ low <= 55295 /\ CanAppend(role, low .. Min({high, 55295}))
       \/ high >= 57344 /\ CanAppend(role, Max({low, 57344}) .. high)
       \/ low <= 56319 /\ high >= 55296 /\ CanAppend(role, Supplementary)

StepUnicodeEscape(g, b) ==
    LET p == g.phase
    IN IF HexNibble(b) = {} THEN Reject(g)
       ELSE LET value == p.value * 16 + CHOOSE n \in HexNibble(b) : TRUE
            IN IF p.nibbles < 3 THEN
                  IF EscapeIsFeasible(p.role, value, 3 - p.nibbles)
                  THEN To(g, [p EXCEPT !.nibbles = @ + 1, !.value = value])
                  ELSE Reject(g)
               ELSE CASE value \in 55296..56319 ->
                      IF CanAppend(p.role, Supplementary)
                      THEN To(g, [at |-> "lowSurrogate", role |-> p.role, high |-> value,
                                  offset |-> 0, value |-> 0])
                      ELSE Reject(g)
                 [] value \in 56320..57343 -> Reject(g)
                 [] OTHER -> AppendScalar(g, p.role, value)

Surrogates(high, low) == 65536 + (high - 55296) * 1024 + (low - 56320)

\* lowSurrogateCompletionIsFeasible.
LowSurrogateIsFeasible(role, high, partial, missing) ==
    LET lows == (partial * 16 ^ missing .. partial * 16 ^ missing + 16 ^ missing - 1)
                   \cap (56320 .. 57343)
    IN lows # {} /\ CanAppend(role, {Surrogates(high, low) : low \in lows})

\* A high surrogate must be followed by \u and a low one.
StepLowSurrogate(g, b) ==
    LET p == g.phase
        Go(value) == To(g, [p EXCEPT !.offset = @ + 1, !.value = value])
    IN IF p.offset < 2 THEN IF b = <<Backslash, LetterU>>[p.offset + 1] THEN Go(0) ELSE Reject(g)
       ELSE IF HexNibble(b) = {} THEN Reject(g)
       ELSE LET nibble == CHOOSE n \in HexNibble(b) : TRUE
                value == p.value * 16 + nibble
            IN IF (p.offset = 2 /\ nibble # 13) \/ (p.offset = 3 /\ nibble < 12) THEN Reject(g)
               ELSE IF p.offset = 5 THEN AppendScalar(g, p.role, Surrogates(p.high, value))
               ELSE IF LowSurrogateIsFeasible(p.role, p.high, value, 5 - p.offset)
                 THEN Go(value)
               ELSE Reject(g)

-----------------------------------------------------------------------------
(* The automaton                                                           *)

Step(g, b) ==
    CASE g.phase.at = "valueStart" -> StepValueStart(g, b)
      [] g.phase.at = "keyStart" -> StepKeyStart(g, b)
      [] g.phase.at = "expectColon" -> StepExpectColon(g, b)
      [] g.phase.at = "afterValue" -> StepAfterValue(g, b)
      [] g.phase.at = "string" -> StepString(g, b)
      [] g.phase.at = "utf8" -> StepUtf8(g, b)
      [] g.phase.at = "stringEscape" -> StepEscape(g, b)
      [] g.phase.at = "unicodeEscape" -> StepUnicodeEscape(g, b)
      [] g.phase.at = "lowSurrogate" -> StepLowSurrogate(g, b)
      [] g.phase.at = "number" -> StepNumber(g, b)
      [] g.phase.at = "literal" -> StepLiteral(g, b)
      [] g.phase.at = "complete" -> StepComplete(g, b)
      [] OTHER -> Reject(g)

Init ==
    /\ input \in Inputs
    /\ grammar = InitialGrammar(input.root)
    /\ text = <<>>

\* consume(byte:): a failed or finished state takes nothing.
ConsumeByte(b) ==
    /\ Status(grammar) \notin {"failed", "finished"}
    /\ Len(text) < input.length
    /\ grammar' = Step(grammar, b)
    /\ text' = Append(text, b)
    /\ UNCHANGED input

\* markEndOfSequence: only a complete root ends.
MarkEndOfSequence ==
    /\ Status(grammar) = "complete"
    /\ grammar' = To(grammar, Finished)
    /\ UNCHANGED <<input, text>>

\* reset: the prompt hook of the next request.
Reset ==
    /\ grammar' = InitialGrammar(input.root)
    /\ text' = <<>>
    /\ UNCHANGED input

Next ==
    \/ \E b \in input.bytes : ConsumeByte(b)
    \/ MarkEndOfSequence
    \/ Reset

Spec == Init /\ [][Next]_vars

-----------------------------------------------------------------------------
(* Shape                                                                   *)

FrameOK(frame) ==
    CASE frame.type = "schemaObject" -> frame.used \subseteq DOMAIN frame.object.properties
      [] frame.type = "schemaArray" -> \A max \in frame.array.maxItems : frame.count <= max
      [] OTHER -> frame.type \in {"freeObject", "freeArray"}

StringPhases == {"string", "utf8", "stringEscape", "unicodeEscape", "lowSurrogate"}

\* The phase fits the stack, so that the source's defensive branches are never taken:
\* a root is complete only without open containers, a key stands in an object, what
\* follows a value stands in a container; a free document keeps the nesting cap, a key
\* is one of its object's names that it does not have yet, and no array is over its
\* maxItems.
TypeOK ==
    /\ \A i \in DOMAIN grammar.stack : FrameOK(grammar.stack[i])
    /\ input.root = AnyJSON => Len(grammar.stack) <= MaximumNestingDepth
    /\ CASE grammar.phase.at \in {"complete", "finished"} -> grammar.stack = <<>>
         [] grammar.phase.at \in {"keyStart", "expectColon"} ->
              grammar.stack # <<>> /\ Closer(Top(grammar)) = RBrace
         [] grammar.phase.at = "afterValue" -> grammar.stack # <<>>
         [] grammar.phase.at \in StringPhases /\ grammar.phase.role.type = "key" ->
              /\ grammar.stack # <<>> /\ Top(grammar).type = "schemaObject"
              /\ grammar.phase.role.candidates
                   = DOMAIN Top(grammar).object.properties \ Top(grammar).used
         [] OTHER -> TRUE
=============================================================================
