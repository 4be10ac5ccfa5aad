-------------------------- MODULE JSONGrammar_proofs ------------------------
(***************************************************************************)
(* The shape of the byte automaton's state, for every set of compiled      *)
(* schemas, every sequence of bytes and every nesting cap: what the phase  *)
(* says agrees with the open containers, so the source's defensive         *)
(* branches are never taken.                                               *)
(*                                                                         *)
(* Every operator that makes a state is shown to keep Fits: first those    *)
(* that change the phase or complete a value, then one lemma for each kind *)
(* of phase.                                                               *)
(***************************************************************************)
EXTENDS JSONGrammar, TLAPS

-----------------------------------------------------------------------------
(* The inductive invariant                                                 *)

\* The containers that may be open: free ones, and those of the compiled schemas.
FreeFrames == [type : {"freeObject", "freeArray"}]
ObjectFrames(s) == [type : {"schemaObject"}, object : {s}, used : SUBSET DOMAIN s.properties]
ArrayFrames(s) == [type : {"schemaArray"}, array : {s}, count : Nat]

Frames ==
    FreeFrames \cup (UNION {ObjectFrames(s) : s \in {x \in Schemas : x.type = "object"}})
               \cup (UNION {ArrayFrames(s) : s \in {x \in Schemas : x.type = "array"}})

\* What a string may be where the containers are `stack`.
RoleFits(role, stack) ==
    \/ role = Plain
    \/ role = FreeKey /\ stack # <<>> /\ Last(stack).type = "freeObject"
    \/ /\ role = [type |-> role.type, candidates |-> role.candidates, decoded |-> role.decoded]
       /\ \/ role.type = "enumValue"
          \/ /\ role.type = "key" /\ stack # <<>> /\ Last(stack).type = "schemaObject"
             /\ role.candidates = DOMAIN Last(stack).object.properties \ Last(stack).used

PhaseFits(p, stack) ==
    /\ "at" \in DOMAIN p
    /\ p.at \in {"complete", "finished"} => stack = <<>>
    /\ p.at = "afterValue" => stack # <<>>
    /\ p.at \in {"keyStart", "expectColon"} => stack # <<>> /\ Closer(Last(stack)) = RBrace
    /\ p.at \in {"valueStart", "expectColon"} => p.constraint \in Schemas
    /\ p.at \in StringPhases => "role" \in DOMAIN p /\ RoleFits(p.role, stack)

\* A value is expected or has begun.
InValue(p) ==
    \/ p.at \in {"valueStart", "number", "literal"}
    \/ p.at \in StringPhases /\ p.role.type \in {"plain", "enumValue"}

\* The items of an array are within its maximum, with the one that has begun.
CountsFit(p, stack) ==
    \A i \in DOMAIN stack :
        stack[i].type = "schemaArray" =>
            \A max \in stack[i].array.maxItems :
                /\ stack[i].count <= max
                /\ i < Len(stack) \/ InValue(p) => stack[i].count < max

\* A free document consists of free containers and keeps the nesting cap.
Capped(p, stack) ==
    /\ Len(stack) <= MaximumNestingDepth
    /\ \A i \in DOMAIN stack : stack[i].type \in {"freeObject", "freeArray"}
    /\ p.at \in {"valueStart", "expectColon"} => p.constraint = AnyJSON

\* The automaton's state fits the root value it was made for.
Fits(g, root) ==
    /\ g = [phase |-> g.phase, stack |-> g.stack]
    /\ g.stack \in Seq(Frames)
    /\ PhaseFits(g.phase, g.stack)
    /\ CountsFit(g.phase, g.stack)
    /\ root = AnyJSON => Capped(g.phase, g.stack)

\* What the frames are.
LEMMA FrameFacts ==
    ASSUME NEW f \in Frames
    PROVE  /\ f.type \in {"freeObject", "freeArray", "schemaObject", "schemaArray"}
           /\ f.type = "schemaObject" =>
                 /\ f = [type |-> "schemaObject", object |-> f.object, used |-> f.used]
                 /\ f.object \in Schemas /\ f.object.type = "object"
                 /\ f.used \subseteq DOMAIN f.object.properties
           /\ f.type = "schemaArray" =>
                 /\ f = [type |-> "schemaArray", array |-> f.array, count |-> f.count]
                 /\ f.array \in Schemas /\ f.array.type = "array" /\ f.count \in Nat
  <1>1. CASE f \in FreeFrames
    BY <1>1 DEF FreeFrames
  <1>2. ASSUME NEW s \in Schemas, s.type = "object", f \in ObjectFrames(s) PROVE
            /\ f = [type |-> "schemaObject", object |-> s, used |-> f.used]
            /\ f.type = "schemaObject" /\ f.object = s
            /\ f.used \subseteq DOMAIN s.properties
    <2> DEFINE D == DOMAIN s.properties
    <2>1. ObjectFrames(s) = [type : {"schemaObject"}, object : {s}, used : SUBSET D]
      BY DEF ObjectFrames
    <2>2. f \in [type : {"schemaObject"}, object : {s}, used : SUBSET D]
      BY <1>2, <2>1
    <2> HIDE DEF D
    <2>3. /\ f = [type |-> "schemaObject", object |-> s, used |-> f.used]
          /\ f.type = "schemaObject" /\ f.object = s /\ f.used \subseteq D
      BY <2>2
    <2> QED
      BY <2>3 DEF D
  <1>3. ASSUME NEW s \in Schemas, s.type = "array", f \in ArrayFrames(s) PROVE
            /\ f = [type |-> "schemaArray", array |-> s, count |-> f.count]
            /\ f.type = "schemaArray" /\ f.array = s /\ f.count \in Nat
    BY <1>3 DEF ArrayFrames
  <1>4. \/ f \in FreeFrames
        \/ \E s \in Schemas : s.type = "object" /\ f \in ObjectFrames(s)
        \/ \E s \in Schemas : s.type = "array" /\ f \in ArrayFrames(s)
    BY DEF Frames
  <1> QED
    BY <1>1, <1>2, <1>3, <1>4

\* The frames an opening bracket pushes.
LEMMA NewFrames ==
    /\ [type |-> "freeObject"] \in Frames /\ [type |-> "freeArray"] \in Frames
    /\ \A s \in Schemas : s.type = "object" =>
          \A used \in SUBSET DOMAIN s.properties :
              [type |-> "schemaObject", object |-> s, used |-> used] \in Frames
    /\ \A s \in Schemas, n \in Nat : s.type = "array" =>
          [type |-> "schemaArray", array |-> s, count |-> n] \in Frames
  <1>1. [type |-> "freeObject"] \in FreeFrames /\ [type |-> "freeArray"] \in FreeFrames
    BY DEF FreeFrames
  <1>2. \A s : \A used \in SUBSET DOMAIN s.properties :
            [type |-> "schemaObject", object |-> s, used |-> used] \in ObjectFrames(s)
    <2> SUFFICES ASSUME NEW s, NEW used \in SUBSET DOMAIN s.properties
                 PROVE  [type |-> "schemaObject", object |-> s, used |-> used] \in ObjectFrames(s)
      OBVIOUS
    <2> DEFINE D == DOMAIN s.properties
    <2>1. ObjectFrames(s) = [type : {"schemaObject"}, object : {s}, used : SUBSET D]
      BY DEF ObjectFrames
    <2>2. used \in SUBSET D
      OBVIOUS
    <2> HIDE DEF D
    <2>3. [type |-> "schemaObject", object |-> s, used |-> used]
            \in [type : {"schemaObject"}, object : {s}, used : SUBSET D]
      BY <2>2
    <2> QED
      BY <2>1, <2>3
  <1>3. \A s : \A n \in Nat : [type |-> "schemaArray", array |-> s, count |-> n] \in ArrayFrames(s)
    BY DEF ArrayFrames
  <1> QED
    BY <1>1, <1>2, <1>3 DEF Frames

\* What the phases are.
LEMMA PhaseShapes ==
    /\ \A c : ValueStart(c).at = "valueStart" /\ ValueStart(c).constraint = c
    /\ \A c : FirstItem(c).at = "valueStart" /\ FirstItem(c).constraint = c
    /\ \A f : KeyStart(f).at = "keyStart"
    /\ \A c : ExpectColon(c).at = "expectColon" /\ ExpectColon(c).constraint = c
    /\ AfterValue.at = "afterValue"
    /\ \A r : InString(r).at = "string" /\ InString(r).role = r
    /\ \A b : InLiteral(b).at = "literal"
    /\ Complete.at = "complete" /\ Finished.at = "finished" /\ Failed.at = "failed"
  BY DEF ValueStart, FirstItem, KeyStart, ExpectColon, AfterValue, InString, InLiteral, Complete,
         Finished, Failed

\* Staying where one is with another phase.
LEMMA ToFits ==
    ASSUME NEW g, NEW root, NEW p, Fits(g, root), PhaseFits(p, g.stack),
           InValue(p) => InValue(g.phase),
           p.at \in {"valueStart", "expectColon"} /\ root = AnyJSON => p.constraint = AnyJSON
    PROVE  Fits(To(g, p), root)
  <1>1. To(g, p) = [phase |-> p, stack |-> g.stack]
    BY DEF To, Fits
  <1>2. CountsFit(p, g.stack)
    BY DEF Fits, CountsFit
  <1>3. root = AnyJSON => Capped(p, g.stack)
    BY DEF Fits, Capped
  <1> QED
    BY <1>1, <1>2, <1>3 DEF Fits

\* A refused byte leaves the containers alone.
LEMMA RejectFits ==
    ASSUME NEW g, NEW root, Fits(g, root)
    PROVE  Fits(Reject(g), root)
  <1>1. PhaseFits(Failed, g.stack) /\ ~InValue(Failed) /\ Failed.at = "failed"
    BY DEF PhaseFits, InValue, Failed, StringPhases
  <1> QED
    BY <1>1, ToFits DEF Reject

-----------------------------------------------------------------------------
(* Values and containers                                                   *)

\* Containers in which one more value may be completed.
StackFits(stack, root) ==
    /\ stack \in Seq(Frames)
    /\ \A i \in DOMAIN stack :
          stack[i].type = "schemaArray" => \A max \in stack[i].array.maxItems : stack[i].count < max
    /\ root = AnyJSON => /\ Len(stack) <= MaximumNestingDepth
                         /\ \A i \in DOMAIN stack : stack[i].type \in {"freeObject", "freeArray"}

\* The innermost container of a stack that is not empty.
LEMMA LastFrame ==
    ASSUME NEW stack \in Seq(Frames), stack # <<>>
    PROVE  /\ Len(stack) \in Nat /\ Len(stack) >= 1 /\ DOMAIN stack = 1 .. Len(stack)
           /\ Last(stack) = stack[Len(stack)] /\ Last(stack) \in Frames
  BY DEF Last

\* A stack without its innermost container.
LEMMA FrontStack ==
    ASSUME NEW stack \in Seq(Frames), stack # <<>>
    PROVE  /\ Front(stack) \in Seq(Frames) /\ Len(Front(stack)) = Len(stack) - 1
           /\ DOMAIN Front(stack) = 1 .. Len(stack) - 1
           /\ \A i \in 1 .. Len(stack) - 1 : Front(stack)[i] = stack[i]
  <1> DEFINE n == Len(stack) - 1
  <1>1. n \in Nat /\ Len(stack) = n + 1
    <2>1. Len(stack) \in Nat /\ Len(stack) # 0
      OBVIOUS
    <2> QED
      BY <2>1
  <1>2. Front(stack) = SubSeq(stack, 1, n)
    BY DEF Front
  <1>3. \A i \in 1 .. n : stack[i] \in Frames
    BY <1>1
  <1>4. /\ SubSeq(stack, 1, n) \in Seq(Frames) /\ Len(SubSeq(stack, 1, n)) = n
        /\ \A i \in 1 .. n : SubSeq(stack, 1, n)[i] = stack[i]
    <2> HIDE DEF n
    <2> QED
      BY <1>1, <1>3
  <1> QED
    BY <1>2, <1>4

\* A maximum is a count.
LEMMA MaximaAreCounts ==
    ASSUME NEW f \in Frames, f.type = "schemaArray"
    PROVE  /\ f.count \in Nat /\ f.array.maxItems \subseteq Nat
           /\ \A m, n \in f.array.maxItems : m = n
           /\ f.array.items \in Schemas
  BY FrameFacts, SchemasAssumption

\* While a value is read every array has room for it, so the containers may be any.
LEMMA StackInValue ==
    ASSUME NEW g, NEW root, Fits(g, root), InValue(g.phase)
    PROVE  StackFits(g.stack, root)
  BY DEF Fits, CountsFit, StackFits, Capped

\* A closed container was an item within the maximum of the one around it.
LEMMA StackInContainer ==
    ASSUME NEW g, NEW root, Fits(g, root), g.stack # <<>>
    PROVE  StackFits(Front(g.stack), root)
  <1>1. g.stack \in Seq(Frames) /\ Len(g.stack) \in Nat /\ DOMAIN g.stack = 1 .. Len(g.stack)
    BY LastFrame DEF Fits
  <1>2. /\ Front(g.stack) \in Seq(Frames) /\ Len(Front(g.stack)) = Len(g.stack) - 1
        /\ DOMAIN Front(g.stack) = 1 .. Len(g.stack) - 1
        /\ \A i \in 1 .. Len(g.stack) - 1 : Front(g.stack)[i] = g.stack[i]
    BY <1>1, FrontStack
  <1>3. \A i \in 1 .. Len(g.stack) - 1 : i \in DOMAIN g.stack /\ i < Len(g.stack)
    BY <1>1
  <1>4. ASSUME NEW i \in DOMAIN Front(g.stack), Front(g.stack)[i].type = "schemaArray",
               NEW max \in Front(g.stack)[i].array.maxItems
        PROVE  Front(g.stack)[i].count < max
    BY <1>2, <1>3, <1>4 DEF Fits, CountsFit
  <1>5. root = AnyJSON => /\ Len(Front(g.stack)) <= MaximumNestingDepth
                          /\ \A i \in DOMAIN Front(g.stack) :
                                Front(g.stack)[i].type \in {"freeObject", "freeArray"}
    BY <1>1, <1>2, <1>3, DepthAssumption DEF Fits, Capped
  <1> QED
    BY <1>2, <1>4, <1>5 DEF StackFits

\* An item more in the array on top.
LEMMA CountedStack ==
    ASSUME NEW stack \in Seq(Frames), stack # <<>>, Last(stack).type = "schemaArray",
           NEW counted, counted = [stack EXCEPT ![Len(stack)].count = @ + 1]
    PROVE  /\ counted \in Seq(Frames) /\ Len(counted) = Len(stack) /\ counted # <<>>
           /\ DOMAIN counted = DOMAIN stack
           /\ \A i \in DOMAIN stack : i < Len(stack) => counted[i] = stack[i]
           /\ counted[Len(stack)].type = "schemaArray"
           /\ counted[Len(stack)].array = Last(stack).array
           /\ counted[Len(stack)].count = Last(stack).count + 1
  <1> DEFINE n == Len(stack)
             f == stack[n]
             h == [f EXCEPT !.count = @ + 1]
  <1>1. n \in Nat /\ n >= 1 /\ DOMAIN stack = 1 .. n /\ Last(stack) = f /\ f \in Frames
    BY LastFrame
  <1>2. /\ f = [type |-> "schemaArray", array |-> f.array, count |-> f.count]
        /\ f.array \in Schemas /\ f.array.type = "array" /\ f.count \in Nat
    BY <1>1, FrameFacts
  <1>3. h = [type |-> "schemaArray", array |-> f.array, count |-> f.count + 1]
    BY <1>2
  <1>4. h \in Frames
    BY <1>2, <1>3, NewFrames
  <1>5. counted = [stack EXCEPT ![n] = h]
    OBVIOUS
  <1>6. /\ counted \in Seq(Frames) /\ Len(counted) = n /\ DOMAIN counted = 1 .. n
        /\ \A i \in 1 .. n : i < n => counted[i] = stack[i]
        /\ counted[n] = h
    <2> HIDE DEF h
    <2> QED
      BY <1>1, <1>4, <1>5
  <1> QED
    BY <1>1, <1>3, <1>6

\* valueCompletedPhase: the item that began is counted within its maximum.
LEMMA ValueCompletedFits ==
    ASSUME NEW g, NEW root, g = [phase |-> g.phase, stack |-> g.stack],
           StackFits(g.stack, root)
    PROVE  /\ Fits(ValueCompleted(g), root)
           /\ ValueCompleted(g).phase = IF g.stack = <<>> THEN Complete ELSE AfterValue
  <1> DEFINE S == g.stack
  <1>1. S \in Seq(Frames)
    BY DEF StackFits
  <1>2. ~InValue(Complete) /\ ~InValue(AfterValue)
    BY DEF InValue, Complete, AfterValue, StringPhases
  <1>3. CASE S = <<>>
    <2>1. ValueCompleted(g) = [phase |-> Complete, stack |-> S]
      BY <1>3 DEF ValueCompleted, To
    <2>2. PhaseFits(Complete, S)
      BY <1>3 DEF PhaseFits, Complete, StringPhases
    <2>3. CountsFit(Complete, S)
      BY <1>1, <1>3 DEF CountsFit
    <2>4. root = AnyJSON => Capped(Complete, S)
      BY DEF Capped, StackFits, Complete
    <2> QED
      BY <1>1, <1>3, <2>1, <2>2, <2>3, <2>4 DEF Fits
  <1>4. ASSUME S # <<>> PROVE PhaseFits(AfterValue, S)
    BY <1>4 DEF PhaseFits, AfterValue, StringPhases
  <1>5. CASE S # <<>> /\ Top(g).type # "schemaArray"
    <2>1. ValueCompleted(g) = [phase |-> AfterValue, stack |-> S]
      BY <1>5 DEF ValueCompleted, To
    <2>2. CountsFit(AfterValue, S)
      <3>1. \A i \in DOMAIN S : S[i].type = "schemaArray" =>
               /\ S[i].count \in Nat /\ S[i].array.maxItems \subseteq Nat
        BY <1>1, MaximaAreCounts
      <3> QED
        BY <3>1 DEF CountsFit, StackFits
    <2>3. root = AnyJSON => Capped(AfterValue, S)
      BY DEF Capped, StackFits, AfterValue
    <2> QED
      BY <1>1, <1>4, <1>5, <2>1, <2>2, <2>3 DEF Fits
  <1>6. CASE S # <<>> /\ Top(g).type = "schemaArray"
    <2> DEFINE counted == [S EXCEPT ![Len(S)].count = @ + 1]
    <2>1. ValueCompleted(g) = [phase |-> AfterValue, stack |-> counted]
      BY <1>6 DEF ValueCompleted
    <2>2. /\ counted \in Seq(Frames) /\ Len(counted) = Len(S) /\ counted # <<>>
          /\ DOMAIN counted = DOMAIN S
          /\ \A i \in DOMAIN S : i < Len(S) => counted[i] = S[i]
          /\ counted[Len(S)].type = "schemaArray"
          /\ counted[Len(S)].array = Last(S).array
          /\ counted[Len(S)].count = Last(S).count + 1
      <3> HIDE DEF counted
      <3> QED
        BY <1>1, <1>6, CountedStack DEF counted, Top
    <2> HIDE DEF counted
    <2>3. Len(S) \in Nat /\ Len(S) >= 1 /\ DOMAIN S = 1 .. Len(S) /\ Last(S) = S[Len(S)]
      BY <1>1, <1>6, LastFrame
    <2>4. \A i \in DOMAIN S : S[i].type = "schemaArray" =>
               /\ S[i].count \in Nat /\ S[i].array.maxItems \subseteq Nat
      BY <1>1, MaximaAreCounts
    <2>5. CountsFit(AfterValue, counted)
      <3> SUFFICES ASSUME NEW i \in DOMAIN counted, counted[i].type = "schemaArray",
                          NEW max \in counted[i].array.maxItems
                   PROVE  counted[i].count <= max /\ (i < Len(counted) => counted[i].count < max)
        BY <1>2 DEF CountsFit
      <3>1. CASE i = Len(S)
        <4>1. S[i].type = "schemaArray" /\ max \in S[i].array.maxItems /\ i \in DOMAIN S
          BY <1>6, <2>2, <2>3, <3>1 DEF Top
        <4>2. S[i].count < max /\ S[i].count \in Nat /\ max \in Nat
          BY <2>4, <4>1 DEF StackFits
        <4>3. counted[i].count = S[i].count + 1
          BY <2>2, <2>3, <3>1
        <4> QED
          BY <2>2, <2>3, <3>1, <4>2, <4>3
      <3>2. CASE i # Len(S)
        <4>1. i \in DOMAIN S /\ i < Len(S) /\ counted[i] = S[i]
          BY <2>2, <2>3, <3>2
        <4>2. S[i].count < max /\ S[i].count \in Nat /\ max \in Nat
          BY <2>4, <4>1 DEF StackFits
        <4> QED
          BY <4>1, <4>2
      <3> QED
        BY <3>1, <3>2
    <2>6. root # AnyJSON
      BY <1>6, <2>3 DEF StackFits, Top
    <2>7. PhaseFits(AfterValue, counted)
      BY <2>2 DEF PhaseFits, AfterValue, StringPhases
    <2> QED
      BY <1>6, <2>1, <2>2, <2>5, <2>6, <2>7 DEF Fits
  <1> QED
    BY <1>3, <1>5, <1>6

\* closeContainer: the container that closes is a value that is complete.
LEMMA CloseContainerFits ==
    ASSUME NEW g, NEW root, Fits(g, root), NEW b
    PROVE  Fits(CloseContainer(g, b), root)
  <1>1. CASE g.stack # <<>> /\ b = Closer(Top(g)) /\ CanClose(Top(g))
    <2> DEFINE h == [g EXCEPT !.stack = Front(@)]
    <2>1. h = [phase |-> g.phase, stack |-> Front(g.stack)]
      BY DEF Fits
    <2>2. StackFits(h.stack, root)
      BY <1>1, <2>1, StackInContainer
    <2>3. Fits(ValueCompleted(h), root)
      <3> HIDE DEF h
      <3>1. h = [phase |-> h.phase, stack |-> h.stack]
        BY <2>1
      <3> QED
        BY <2>2, <3>1, ValueCompletedFits
    <2> QED
      BY <1>1, <2>3 DEF CloseContainer
  <1>2. CASE ~(g.stack # <<>> /\ b = Closer(Top(g)) /\ CanClose(Top(g)))
    BY <1>2, RejectFits DEF CloseContainer
  <1> QED
    BY <1>1, <1>2

\* A container opens where a value may begin.
LEMMA PushFits ==
    ASSUME NEW g, NEW root, Fits(g, root), InValue(g.phase),
           NEW frame \in Frames, NEW p, PhaseFits(p, Append(g.stack, frame)),
           frame.type = "schemaArray" =>
               \A max \in frame.array.maxItems :
                   frame.count <= max /\ (InValue(p) => frame.count < max),
           root = AnyJSON => /\ Len(g.stack) < MaximumNestingDepth
                             /\ frame.type \in {"freeObject", "freeArray"}
                             /\ p.at \in {"valueStart", "expectColon"} => p.constraint = AnyJSON
    PROVE  Fits(Push(g, frame, p), root)
  <1> DEFINE S == g.stack
             pushed == Append(S, frame)
  <1>1. S \in Seq(Frames) /\ Len(S) \in Nat
    BY DEF Fits
  <1>2. /\ pushed \in Seq(Frames) /\ Len(pushed) = Len(S) + 1 /\ DOMAIN pushed = 1 .. Len(S) + 1
        /\ pushed[Len(S) + 1] = frame /\ \A i \in 1 .. Len(S) : pushed[i] = S[i]
        /\ DOMAIN S = 1 .. Len(S)
    BY <1>1
  <1> HIDE DEF pushed
  <1>3. Push(g, frame, p) = [phase |-> p, stack |-> pushed]
    BY DEF Push, pushed
  <1>4. StackFits(S, root)
    BY StackInValue
  <1>5. \A i \in 1 .. Len(S) : S[i].type = "schemaArray" =>
           /\ S[i].count \in Nat /\ S[i].array.maxItems \subseteq Nat
    BY <1>1, <1>2, MaximaAreCounts
  <1>6. CountsFit(p, pushed)
    <2> SUFFICES ASSUME NEW i \in DOMAIN pushed, pushed[i].type = "schemaArray",
                        NEW max \in pushed[i].array.maxItems
                 PROVE  /\ pushed[i].count <= max
                        /\ i < Len(pushed) \/ InValue(p) => pushed[i].count < max
      BY DEF CountsFit
    <2>1. CASE i = Len(S) + 1
      BY <1>2, <2>1
    <2>2. CASE i \in 1 .. Len(S)
      BY <1>2, <1>4, <1>5, <2>2 DEF StackFits
    <2> QED
      BY <1>1, <1>2, <2>1, <2>2
  <1>7. root = AnyJSON => Capped(p, pushed)
    <2> SUFFICES ASSUME root = AnyJSON PROVE Capped(p, pushed)
      OBVIOUS
    <2>1. Len(pushed) <= MaximumNestingDepth
      BY <1>1, <1>2, DepthAssumption
    <2>2. \A i \in DOMAIN pushed : pushed[i].type \in {"freeObject", "freeArray"}
      BY <1>1, <1>2, <1>4 DEF StackFits
    <2> QED
      BY <2>1, <2>2 DEF Capped
  <1>8. PhaseFits(p, pushed)
    BY DEF pushed
  <1> QED
    BY <1>2, <1>3, <1>6, <1>7, <1>8 DEF Fits

\* The containers on top of a pushed stack.
LEMMA PushedTop ==
    ASSUME NEW stack \in Seq(Frames), NEW frame \in Frames
    PROVE  Append(stack, frame) # <<>> /\ Last(Append(stack, frame)) = frame
  BY DEF Last

-----------------------------------------------------------------------------
(* Keys and commas                                                         *)

\* A key stands in an object.
LEMMA ObjectOnTop ==
    ASSUME NEW g, NEW root, Fits(g, root), g.stack # <<>>
    PROVE  /\ Top(g) = Last(g.stack) /\ Top(g) \in Frames
           /\ Closer(Top(g)) = RBrace => Top(g).type \in {"freeObject", "schemaObject"}
           /\ root = AnyJSON => Top(g).type \in {"freeObject", "freeArray"}
  <1>1. g.stack \in Seq(Frames)
    BY DEF Fits
  <1>2. /\ Top(g) = Last(g.stack) /\ Top(g) \in Frames /\ Top(g) = g.stack[Len(g.stack)]
        /\ Len(g.stack) \in DOMAIN g.stack
    BY <1>1, LastFrame DEF Top
  <1> QED
    BY <1>2 DEF Closer, RBrace, RBracket, Fits, Capped

\* A key of a schema object starts with the names that are not used.
LEMMA StartStringKeyFits ==
    ASSUME NEW g, NEW root, Fits(g, root), g.stack # <<>>
    PROVE  Fits(StartStringKey(g), root)
  <1>1. Top(g) = Last(g.stack) /\ Top(g) \in Frames
    BY ObjectOnTop
  <1>2. CASE Top(g).type = "freeObject"
    <2>1. PhaseFits(InString(FreeKey), g.stack)
      BY <1>1, <1>2 DEF PhaseFits, InString, RoleFits, StringPhases
    <2>2. ~InValue(InString(FreeKey)) /\ InString(FreeKey).at = "string"
      BY DEF InValue, InString, FreeKey, StringPhases
    <2> QED
      BY <1>2, <2>1, <2>2, ToFits DEF StartStringKey
  <1>3. CASE Top(g).type = "schemaObject"
    <2> DEFINE role == Key(DOMAIN Top(g).object.properties \ Top(g).used)
    <2>1. RoleFits(role, g.stack) /\ role.type = "key"
      BY <1>1, <1>3 DEF RoleFits, Key
    <2> HIDE DEF role
    <2>2. PhaseFits(InString(role), g.stack)
      BY <2>1 DEF PhaseFits, InString, StringPhases
    <2>3. ~InValue(InString(role)) /\ InString(role).at = "string"
      BY <2>1 DEF InValue, InString, StringPhases
    <2>4. StartStringKey(g) = To(g, InString(role))
      BY <1>3 DEF StartStringKey, role
    <2> QED
      BY <2>2, <2>3, <2>4, ToFits
  <1>4. CASE Top(g).type \notin {"freeObject", "schemaObject"}
    BY <1>4, RejectFits DEF StartStringKey, Reject
  <1> QED
    BY <1>2, <1>3, <1>4

\* A key or the end of an object that is empty.
LEMMA StepKeyStartFits ==
    ASSUME NEW g, NEW root, NEW b, Fits(g, root),
           g.phase.at = "keyStart"
    PROVE  Fits(StepKeyStart(g, b), root)
  <1>1. g.stack # <<>>
    BY DEF Fits, PhaseFits
  <1> QED
    BY <1>1, StartStringKeyFits, CloseContainerFits, RejectFits DEF StepKeyStart

\* After the colon the key's value may begin: an object counts nothing.
LEMMA StepExpectColonFits ==
    ASSUME NEW g, NEW root, NEW b, Fits(g, root), g.phase.at = "expectColon"
    PROVE  Fits(StepExpectColon(g, b), root)
  <1> DEFINE p == ValueStart(g.phase.constraint)
  <1>1. p.at = "valueStart" /\ p.constraint = g.phase.constraint /\ "at" \in DOMAIN p
    BY DEF ValueStart
  <1>2. g.phase.constraint \in Schemas /\ g.stack # <<>> /\ Closer(Last(g.stack)) = RBrace
    BY DEF Fits, PhaseFits
  <1>3. root = AnyJSON => g.phase.constraint = AnyJSON
    BY DEF Fits, Capped
  <1> HIDE DEF p
  <1>4. PhaseFits(p, g.stack)
    BY <1>1, <1>2 DEF PhaseFits, StringPhases
  <1>5. CountsFit(p, g.stack)
    <2>1. g.stack \in Seq(Frames) /\ Top(g).type \in {"freeObject", "schemaObject"}
      BY <1>2, ObjectOnTop DEF Fits, Top
    <2>2. \A i \in DOMAIN g.stack : i < Len(g.stack) \/ i = Len(g.stack)
      BY <2>1
    <2>3. g.stack[Len(g.stack)].type # "schemaArray"
      BY <2>1 DEF Top, Last
    <2> QED
      BY <2>2, <2>3 DEF Fits, CountsFit
  <1>6. Fits(To(g, p), root)
    <2>1. To(g, p) = [phase |-> p, stack |-> g.stack]
      BY DEF To, Fits
    <2>2. root = AnyJSON => Capped(p, g.stack)
      BY <1>1, <1>3 DEF Fits, Capped
    <2> QED
      BY <1>4, <1>5, <2>1, <2>2 DEF Fits
  <1> QED
    BY <1>6, RejectFits DEF StepExpectColon, p

\* After a comma an array below its maximum has room for one item more.
LEMMA OpenNextMemberFits ==
    ASSUME NEW g, NEW root, Fits(g, root), g.stack # <<>>, CanAddMember(Top(g))
    PROVE  Fits(OpenNextMember(g), root)
  <1>1. /\ g.stack \in Seq(Frames) /\ Top(g) \in Frames /\ Top(g) = Last(g.stack)
        /\ Top(g) = g.stack[Len(g.stack)] /\ Len(g.stack) \in Nat
        /\ DOMAIN g.stack = 1 .. Len(g.stack) /\ Len(g.stack) >= 1
        /\ root = AnyJSON => Top(g).type \in {"freeObject", "freeArray"}
    BY LastFrame, ObjectOnTop DEF Fits, Top
  <1>2. CASE Top(g).type \in {"freeObject", "schemaObject"}
    <2>1. PhaseFits(KeyStart(FALSE), g.stack)
      BY <1>1, <1>2 DEF PhaseFits, KeyStart, StringPhases, Closer
    <2>2. ~InValue(KeyStart(FALSE)) /\ KeyStart(FALSE).at = "keyStart"
      BY DEF InValue, KeyStart, StringPhases
    <2> QED
      BY <1>2, <2>1, <2>2, ToFits DEF OpenNextMember
  <1>3. ASSUME NEW c \in Schemas, root = AnyJSON => c = AnyJSON,
               Top(g).type \in {"freeArray", "schemaArray"}
        PROVE  Fits(To(g, ValueStart(c)), root)
    <2>1. ValueStart(c).at = "valueStart" /\ ValueStart(c).constraint = c /\ "at" \in DOMAIN ValueStart(c)
      BY DEF ValueStart
    <2>2. PhaseFits(ValueStart(c), g.stack)
      BY <2>1 DEF PhaseFits, StringPhases
    <2>3. CountsFit(ValueStart(c), g.stack)
      <3>1. \A i \in DOMAIN g.stack : i < Len(g.stack) \/ i = Len(g.stack)
        BY <1>1
      <3>2. ASSUME Top(g).type = "schemaArray", NEW max \in Top(g).array.maxItems
            PROVE  Top(g).count < max
        BY <3>2 DEF CanAddMember
      <3> QED
        BY <1>1, <3>1, <3>2 DEF Fits, CountsFit
    <2>4. To(g, ValueStart(c)) = [phase |-> ValueStart(c), stack |-> g.stack]
      BY DEF To, Fits
    <2>5. root = AnyJSON => Capped(ValueStart(c), g.stack)
      BY <1>3, <2>1 DEF Fits, Capped
    <2> QED
      BY <1>1, <2>2, <2>3, <2>4, <2>5 DEF Fits
  <1>4. CASE Top(g).type = "freeArray"
    BY <1>3, <1>4, SchemasAssumption DEF OpenNextMember, AnyJSON
  <1>5. CASE Top(g).type = "schemaArray"
    <2>1. Top(g).array.items \in Schemas /\ root # AnyJSON
      BY <1>1, <1>5, MaximaAreCounts
    <2> QED
      BY <1>3, <1>5, <2>1 DEF OpenNextMember
  <1> QED
    BY <1>1, <1>2, <1>4, <1>5, FrameFacts

\* A comma or the end of the container.
LEMMA StepAfterValueFits ==
    ASSUME NEW g, NEW root, NEW b, Fits(g, root),
           g.phase.at = "afterValue"
    PROVE  Fits(StepAfterValue(g, b), root)
  <1>1. g.stack # <<>>
    BY DEF Fits, PhaseFits
  <1> QED
    BY <1>1, OpenNextMemberFits, CloseContainerFits, RejectFits DEF StepAfterValue

\* The byte that ends a number or a literal, taken by what comes next.
LEMMA EndValueFits ==
    ASSUME NEW g, NEW root, NEW b, Fits(g, root),
           InValue(g.phase)
    PROVE  Fits(EndValue(g, b), root)
  <1> DEFINE h == ValueCompleted(g)
  <1>1. /\ Fits(h, root)
        /\ h.phase = IF g.stack = <<>> THEN Complete ELSE AfterValue
    <2>1. StackFits(g.stack, root) /\ g = [phase |-> g.phase, stack |-> g.stack]
      BY StackInValue DEF Fits
    <2> QED
      BY <2>1, ValueCompletedFits
  <1>2. EndValue(g, b) = IF h.phase = Complete THEN StepComplete(h, b) ELSE StepAfterValue(h, b)
    BY DEF EndValue
  <1> HIDE DEF h
  <1>3. CASE h.phase = Complete
    BY <1>1, <1>2, <1>3, RejectFits DEF StepComplete
  <1>4. CASE h.phase # Complete
    <2>1. h.phase.at = "afterValue"
      BY <1>1, <1>4 DEF AfterValue
    <2> QED
      BY <1>1, <1>2, <1>4, <2>1, StepAfterValueFits
  <1> QED
    BY <1>3, <1>4

-----------------------------------------------------------------------------
(* Numbers, literals, value starts                                         *)

\* A value that goes on, or that begins as something that keeps no containers.
LEMMA InsideFits ==
    ASSUME NEW g, NEW root, NEW p, Fits(g, root), InValue(g.phase), "at" \in DOMAIN p,
           p.at \in {"number", "literal"}
    PROVE  Fits(To(g, p), root)
  <1>1. PhaseFits(p, g.stack)
    BY DEF PhaseFits, StringPhases
  <1> QED
    BY <1>1, ToFits

\* The tracker of a number holds no containers.
LEMMA TrackFits ==
    ASSUME NEW g, NEW root, Fits(g, root), InValue(g.phase), NEW kind, NEW tracker, NEW state
    PROVE  Fits(Track(g, kind, tracker, state), root)
  <1> DEFINE p == [at |-> "number", kind |-> kind, state |-> state, tracker |-> tracker]
  <1>1. "at" \in DOMAIN p /\ p.at = "number"
    OBVIOUS
  <1>2. Track(g, kind, tracker, state) \in {To(g, p), Reject(g)}
    BY DEF Track
  <1> HIDE DEF p
  <1> QED
    BY <1>1, <1>2, InsideFits, RejectFits

\* A number may begin where a value may.
LEMMA StartNumberFits ==
    ASSUME NEW g, NEW root, Fits(g, root), InValue(g.phase), NEW b, NEW kind, NEW constraints
    PROVE  Fits(StartNumber(g, b, kind, constraints), root)
  BY TrackFits, RejectFits DEF StartNumber

\* A number goes on or ends as a value that is complete.
LEMMA StepNumberFits ==
    ASSUME NEW g, NEW root, NEW b, Fits(g, root),
           g.phase.at = "number"
    PROVE  Fits(StepNumber(g, b), root)
  <1>1. InValue(g.phase)
    BY DEF InValue
  <1>2. Fits(TerminateNumber(g, b), root)
    BY <1>1, EndValueFits, RejectFits DEF TerminateNumber
  <1>3. \A kind, tracker, state : Fits(Advance(g, kind, tracker, b, state), root)
    BY <1>1, TrackFits DEF Advance
  <1> QED
    BY <1>2, <1>3, RejectFits DEF StepNumber

\* So does a literal.
LEMMA StepLiteralFits ==
    ASSUME NEW g, NEW root, NEW b, Fits(g, root),
           g.phase.at = "literal"
    PROVE  Fits(StepLiteral(g, b), root)
  <1>1. InValue(g.phase)
    BY DEF InValue
  <1> DEFINE p == [g.phase EXCEPT !.matched = @ + 1]
  <1>2. "at" \in DOMAIN p /\ p.at = "literal"
    BY DEF Fits, PhaseFits
  <1> HIDE DEF p
  <1>3. Fits(To(g, p), root) /\ Fits(EndValue(g, b), root) /\ Fits(Reject(g), root)
    BY <1>1, <1>2, InsideFits, EndValueFits, RejectFits
  <1> QED
    BY <1>3 DEF StepLiteral, p

\* Strings that are values.
LEMMA BeginStringFits ==
    ASSUME NEW g, NEW root, Fits(g, root), InValue(g.phase), NEW role,
           RoleFits(role, g.stack), role.type \in {"plain", "enumValue"}
    PROVE  Fits(To(g, InString(role)), root)
  <1>1. PhaseFits(InString(role), g.stack) /\ InString(role).at = "string"
    BY DEF PhaseFits, InString, StringPhases
  <1> QED
    BY <1>1, ToFits

\* Literals.
LEMMA BeginLiteralFits ==
    ASSUME NEW g, NEW root, Fits(g, root), InValue(g.phase), NEW b
    PROVE  Fits(To(g, InLiteral(b)), root)
  <1>1. "at" \in DOMAIN InLiteral(b) /\ InLiteral(b).at = "literal"
    BY DEF InLiteral
  <1> QED
    BY <1>1, InsideFits

\* Free text may stand anywhere.
LEMMA PlainFits == \A stack : RoleFits(Plain, stack) /\ Plain.type = "plain"
  BY DEF RoleFits, Plain

\* startJSONValue: a free container opens only below the nesting cap.
LEMMA StartFreeFits ==
    ASSUME NEW g, NEW root, NEW b, Fits(g, root),
           InValue(g.phase)
    PROVE  Fits(StartFree(g, b), root)
  <1> DEFINE object == [type |-> "freeObject"]
             array == [type |-> "freeArray"]
  <1>1. object \in Frames /\ object.type = "freeObject" /\ array \in Frames /\ array.type = "freeArray"
    BY NewFrames
  <1>2. g.stack \in Seq(Frames)
    BY DEF Fits
  <1>3. PhaseFits(KeyStart(TRUE), Append(g.stack, object)) /\ KeyStart(TRUE).at = "keyStart"
    <2>1. Append(g.stack, object) # <<>> /\ Last(Append(g.stack, object)) = object
      BY <1>1, <1>2, PushedTop
    <2> QED
      BY <1>1, <2>1 DEF PhaseFits, KeyStart, StringPhases, Closer
  <1>4. /\ PhaseFits(FirstItem(AnyJSON), Append(g.stack, array))
        /\ FirstItem(AnyJSON).at = "valueStart" /\ FirstItem(AnyJSON).constraint = AnyJSON
    BY SchemasAssumption DEF PhaseFits, FirstItem, StringPhases, AnyJSON
  <1>5. ASSUME Len(g.stack) < MaximumNestingDepth
        PROVE  /\ Fits(Push(g, object, KeyStart(TRUE)), root)
               /\ Fits(Push(g, array, FirstItem(AnyJSON)), root)
    <2> HIDE DEF object, array
    <2> QED
      BY <1>1, <1>3, <1>4, <1>5, PushFits
  <1> HIDE DEF object, array
  <1>6. Fits(To(g, InString(Plain)), root) /\ Fits(To(g, InLiteral(b)), root)
    BY PlainFits, BeginStringFits, BeginLiteralFits
  <1> QED
    BY <1>5, <1>6, StartNumberFits DEF StartFree, object, array

\* startScalarValue opens no container.
LEMMA StartScalarFits ==
    ASSUME NEW g, NEW root, NEW b, Fits(g, root), InValue(g.phase), NEW scalar
    PROVE  Fits(StartScalar(g, b, scalar), root)
  <1> DEFINE role == EnumValue(UNION scalar.words)
  <1>1. RoleFits(role, g.stack) /\ role.type = "enumValue"
    BY DEF RoleFits, EnumValue
  <1> HIDE DEF role
  <1>2. /\ Fits(To(g, InString(role)), root) /\ Fits(To(g, InString(Plain)), root)
        /\ Fits(To(g, InLiteral(b)), root) /\ Fits(Reject(g), root)
        /\ \A kind, constraints : Fits(StartNumber(g, b, kind, constraints), root)
    BY <1>1, PlainFits, BeginStringFits, BeginLiteralFits, StartNumberFits, RejectFits
  <1> QED
    BY <1>2 DEF StartScalar, role

\* An array of at most no items starts where it can only close.
LEMMA StartArrayFits ==
    ASSUME NEW g, NEW root, Fits(g, root),
           InValue(g.phase), NEW array \in Schemas, array.type = "array", root # AnyJSON
    PROVE  Fits(StartArray(g, array), root)
  <1> DEFINE frame == [type |-> "schemaArray", array |-> array, count |-> 0]
             p == IF array.maxItems = {0} THEN AfterValue ELSE FirstItem(array.items)
  <1>1. frame \in Frames /\ frame.type = "schemaArray" /\ frame.array = array /\ frame.count = 0
    <2>1. \A n \in Nat : [type |-> "schemaArray", array |-> array, count |-> n] \in Frames
      BY NewFrames
    <2> QED
      BY <2>1
  <1>2. /\ array.items \in Schemas /\ array.maxItems \subseteq Nat
        /\ \A m, n \in array.maxItems : m = n
    BY SchemasAssumption
  <1>3. g.stack \in Seq(Frames)
    BY DEF Fits
  <1>4. Append(g.stack, frame) # <<>>
    BY <1>1, <1>3, PushedTop
  <1>5. PhaseFits(p, Append(g.stack, frame))
    BY <1>2, <1>4 DEF PhaseFits, AfterValue, FirstItem, StringPhases
  <1>6. \A max \in array.maxItems : 0 <= max /\ (InValue(p) => 0 < max)
    <2> SUFFICES ASSUME NEW max \in array.maxItems PROVE 0 <= max /\ (InValue(p) => 0 < max)
      OBVIOUS
    <2>1. CASE max = 0
      <3>1. array.maxItems = {0}
        BY <1>2, <2>1
      <3>2. ~InValue(p)
        BY <3>1 DEF InValue, AfterValue, StringPhases
      <3> QED
        BY <2>1, <3>2
    <2>2. CASE max # 0
      BY <1>2, <2>2
    <2> QED
      BY <2>1, <2>2
  <1>7. StartArray(g, array) = Push(g, frame, p)
    BY DEF StartArray
  <1> HIDE DEF frame, p
  <1> QED
    BY <1>1, <1>5, <1>6, <1>7, PushFits

\* A value begins with its first byte, or an empty array closes.
LEMMA StepValueStartFits ==
    ASSUME NEW g, NEW root, NEW b, Fits(g, root),
           g.phase.at = "valueStart"
    PROVE  Fits(StepValueStart(g, b), root)
  <1> DEFINE value == g.phase.constraint
  <1>1. InValue(g.phase) /\ g.stack \in Seq(Frames)
    BY DEF InValue, Fits
  <1>2. value \in Schemas /\ (root = AnyJSON => value = AnyJSON)
    BY DEF Fits, PhaseFits, Capped
  <1> HIDE DEF value
  <1>3. ASSUME value.type = "object"
        PROVE  Fits(Push(g, [type |-> "schemaObject", object |-> value, used |-> {}], KeyStart(TRUE)), root)
    <2> DEFINE frame == [type |-> "schemaObject", object |-> value, used |-> {}]
    <2>1. frame \in Frames /\ frame.type = "schemaObject"
      <3>1. \A used \in SUBSET DOMAIN value.properties :
                [type |-> "schemaObject", object |-> value, used |-> used] \in Frames
        BY <1>2, <1>3, NewFrames
      <3> QED
        BY <3>1
    <2>2. root # AnyJSON
      BY <1>2, <1>3 DEF AnyJSON
    <2> HIDE DEF frame
    <2>3. Append(g.stack, frame) # <<>> /\ Last(Append(g.stack, frame)) = frame
      BY <1>1, <2>1, PushedTop
    <2>4. PhaseFits(KeyStart(TRUE), Append(g.stack, frame))
      BY <2>1, <2>3 DEF PhaseFits, KeyStart, StringPhases, Closer
    <2>5. Fits(Push(g, frame, KeyStart(TRUE)), root)
      BY <1>1, <2>1, <2>2, <2>4, PushFits
    <2> QED
      BY <2>5 DEF frame
  <1>4. ASSUME value.type = "array" PROVE Fits(StartArray(g, value), root)
    <2>1. root # AnyJSON
      BY <1>2, <1>4 DEF AnyJSON
    <2> QED
      BY <1>1, <1>2, <1>4, <2>1, StartArrayFits
  <1>5. Fits(StartFree(g, b), root) /\ Fits(StartScalar(g, b, value), root) /\ Fits(Reject(g), root)
    BY <1>1, StartFreeFits, StartScalarFits, RejectFits
  <1>6. Fits(StartValue(g, b, value), root)
    BY <1>3, <1>4, <1>5 DEF StartValue
  <1> QED
    BY <1>6, CloseContainerFits DEF StepValueStart, value

-----------------------------------------------------------------------------
(* Strings                                                                 *)

\* A string goes on, whatever has been read of the next scalar.
LEMMA StringGoesOn ==
    ASSUME NEW g, NEW root, Fits(g, root), g.phase.at \in StringPhases, NEW p,
           {"at", "role"} \subseteq DOMAIN p, p.at \in StringPhases, p.role = g.phase.role
    PROVE  Fits(To(g, p), root)
  <1>1. PhaseFits(p, g.stack)
    BY DEF Fits, PhaseFits, StringPhases
  <1>2. InValue(p) => InValue(g.phase)
    BY DEF InValue, StringPhases
  <1> QED
    BY <1>1, <1>2, ToFits DEF StringPhases

\* A scalar that leaves a candidate keeps the role.
LEMMA AppendScalarFits ==
    ASSUME NEW g, NEW root, Fits(g, root), g.phase.at \in StringPhases, NEW scalar
    PROVE  Fits(AppendScalar(g, g.phase.role, scalar), root)
  <1> DEFINE role == g.phase.role
             word == Append(role.decoded, scalar)
             longer == [role EXCEPT !.decoded = word]
  <1>1. RoleFits(role, g.stack)
    BY DEF Fits, PhaseFits
  <1>2. CASE IsFree(role)
    <2>1. /\ {"at", "role"} \subseteq DOMAIN InString(role)
          /\ InString(role).at = "string" /\ InString(role).role = role
      BY DEF InString
    <2>2. Fits(To(g, InString(role)), root)
      BY <2>1, StringGoesOn DEF StringPhases
    <2> QED
      BY <1>2, <2>2 DEF AppendScalar
  <1>3. CASE ~IsFree(role)
    <2>1. /\ role = [type |-> role.type, candidates |-> role.candidates, decoded |-> role.decoded]
          /\ role.type \in {"enumValue", "key"}
      BY <1>1, <1>3 DEF RoleFits, IsFree, Plain, FreeKey
    <2>2. longer = [type |-> role.type, candidates |-> role.candidates, decoded |-> word]
      BY <2>1
    <2>3. /\ longer = [type |-> longer.type, candidates |-> longer.candidates,
                       decoded |-> longer.decoded]
          /\ longer.type = role.type /\ longer.candidates = role.candidates
      BY <2>2
    <2> HIDE DEF longer
    <2>4. RoleFits(longer, g.stack)
      BY <1>1, <1>3, <2>3 DEF RoleFits, IsFree, Plain, FreeKey
    <2>5. InString(longer).at = "string" /\ InString(longer).role = longer
      BY DEF InString
    <2>6. PhaseFits(InString(longer), g.stack)
      BY <2>4 DEF PhaseFits, InString, StringPhases
    <2>7. InValue(InString(longer)) => InValue(g.phase)
      BY <2>3, <2>5 DEF InValue
    <2>8. Fits(To(g, InString(longer)), root)
      BY <2>5, <2>6, <2>7, ToFits
    <2>9. AppendScalar(g, role, scalar) \in {To(g, InString(longer)), Reject(g)}
      BY <1>3 DEF AppendScalar, longer
    <2> QED
      BY <2>8, <2>9, RejectFits
  <1> QED
    BY <1>2, <1>3

\* An object's frame with one more name used.
LEMMA UsedFrame ==
    ASSUME NEW f, NEW name, f = [type |-> "schemaObject", object |-> f.object, used |-> f.used]
    PROVE  [f EXCEPT !.used = @ \cup {name}]
             = [type |-> "schemaObject", object |-> f.object, used |-> f.used \cup {name}]
  OBVIOUS

\* A stack with another innermost container.
LEMMA LastReplaced ==
    ASSUME NEW stack \in Seq(Frames), stack # <<>>, NEW x \in Frames,
           NEW new, new = [stack EXCEPT ![Len(stack)] = x]
    PROVE  /\ new \in Seq(Frames) /\ Len(new) = Len(stack) /\ DOMAIN new = 1 .. Len(stack)
           /\ \A i \in 1 .. Len(stack) : i < Len(stack) => new[i] = stack[i]
           /\ new[Len(stack)] = x
  OBVIOUS

\* A key that is complete goes to its object's used names.
MarkedUsed(stack, name) == [stack EXCEPT ![Len(stack)].used = @ \cup {name}]

LEMMA UsedStack ==
    ASSUME NEW stack \in Seq(Frames), stack # <<>>, Last(stack).type = "schemaObject",
           NEW name \in DOMAIN Last(stack).object.properties,
           NEW marked, marked = MarkedUsed(stack, name)
    PROVE  /\ marked \in Seq(Frames) /\ Len(marked) = Len(stack) /\ marked # <<>>
           /\ DOMAIN marked = DOMAIN stack
           /\ \A i \in DOMAIN stack : i < Len(stack) => marked[i] = stack[i]
           /\ marked[Len(stack)].type = "schemaObject"
           /\ Last(marked) = marked[Len(stack)]
  <1> DEFINE n == Len(stack)
             f == stack[n]
             h == [f EXCEPT !.used = @ \cup {name}]
             used == f.used \cup {name}
  <1>1. n \in Nat /\ n >= 1 /\ DOMAIN stack = 1 .. n /\ Last(stack) = f /\ f \in Frames
    BY LastFrame
  <1>2. /\ f = [type |-> "schemaObject", object |-> f.object, used |-> f.used]
        /\ f.object \in Schemas /\ f.object.type = "object"
        /\ f.used \subseteq DOMAIN f.object.properties
    BY <1>1, FrameFacts
  <1>3. h = [type |-> "schemaObject", object |-> f.object, used |-> used]
    BY <1>2, UsedFrame
  <1>4. used \in SUBSET DOMAIN f.object.properties
    BY <1>1, <1>2
  <1>5. h \in Frames /\ h.type = "schemaObject"
    <2> HIDE DEF h, used
    <2> QED
      BY <1>2, <1>3, <1>4, NewFrames
  <1>6. marked = [stack EXCEPT ![n] = h]
    BY DEF MarkedUsed
  <1>7. /\ marked \in Seq(Frames) /\ Len(marked) = n /\ DOMAIN marked = 1 .. n
        /\ \A i \in 1 .. n : i < n => marked[i] = stack[i]
        /\ marked[n] = h
    <2> HIDE DEF h
    <2> QED
      BY <1>5, <1>6, LastReplaced
  <1>8. marked # <<>>
    BY <1>1, <1>7
  <1> QED
    BY <1>1, <1>5, <1>7, <1>8, LastFrame

\* closeString: a value is complete, or a key is marked used and its value awaited.
LEMMA CloseStringFits ==
    ASSUME NEW g, NEW root, Fits(g, root), g.phase.at \in StringPhases
    PROVE  Fits(CloseString(g, g.phase.role), root)
  <1> DEFINE role == g.phase.role
             S == g.stack
  <1>1. RoleFits(role, S) /\ S \in Seq(Frames)
    BY DEF Fits, PhaseFits
  <1>2. CASE role.type \in {"plain", "enumValue"}
    <2>1. InValue(g.phase)
      BY <1>2 DEF InValue
    <2>2. Fits(ValueCompleted(g), root)
      <3>1. StackFits(g.stack, root) /\ g = [phase |-> g.phase, stack |-> g.stack]
        BY <2>1, StackInValue DEF Fits
      <3> QED
        BY <3>1, ValueCompletedFits
    <2>3. CloseString(g, role) \in {Reject(g), ValueCompleted(g)}
      BY <1>2 DEF CloseString
    <2> QED
      BY <2>2, <2>3, RejectFits
  <1>3. CASE role.type = "freeKey"
    <2>1. S # <<>> /\ Last(S).type = "freeObject"
      BY <1>1, <1>3 DEF RoleFits, Plain
    <2>2. /\ PhaseFits(ExpectColon(AnyJSON), S) /\ ~InValue(ExpectColon(AnyJSON))
          /\ ExpectColon(AnyJSON).constraint = AnyJSON
      BY <2>1, SchemasAssumption DEF PhaseFits, InValue, ExpectColon, StringPhases, Closer, AnyJSON
    <2>3. Fits(To(g, ExpectColon(AnyJSON)), root)
      BY <2>2, ToFits
    <2> QED
      BY <1>3, <2>3 DEF CloseString, IsFree
  <1>4. CASE role.type = "key"
    <2>1. /\ S # <<>> /\ Last(S).type = "schemaObject"
          /\ role.candidates = DOMAIN Last(S).object.properties \ Last(S).used
      BY <1>1, <1>4 DEF RoleFits, Plain, FreeKey
    <2>2. CASE role.decoded \notin role.candidates
      BY <1>4, <2>2, RejectFits DEF CloseString, IsFree
    <2>3. CASE role.decoded \in role.candidates
      <3> DEFINE name == role.decoded
                 c == Last(S).object.properties[name]
                 marked == MarkedUsed(S, name)
      <3>1. name \in DOMAIN Last(S).object.properties
        BY <2>1, <2>3
      <3>2. c \in Schemas
        <4>1. Last(S).object \in Schemas /\ Last(S).object.type = "object"
          BY <1>1, <2>1, LastFrame, FrameFacts
        <4> QED
          BY <3>1, <4>1, SchemasAssumption
      <3>3. /\ marked \in Seq(Frames) /\ Len(marked) = Len(S) /\ marked # <<>>
            /\ DOMAIN marked = DOMAIN S
            /\ \A i \in DOMAIN S : i < Len(S) => marked[i] = S[i]
            /\ marked[Len(S)].type = "schemaObject"
            /\ Last(marked) = marked[Len(S)]
        BY <1>1, <2>1, <3>1, UsedStack
      <3>4. CloseString(g, role) = [phase |-> ExpectColon(c), stack |-> marked]
        BY <1>4, <2>3 DEF CloseString, Top, IsFree, MarkedUsed
      <3> HIDE DEF c, marked
      <3>5. PhaseFits(ExpectColon(c), marked) /\ ~InValue(ExpectColon(c))
        BY <3>2, <3>3 DEF PhaseFits, InValue, ExpectColon, StringPhases, Closer
      <3>6. CountsFit(ExpectColon(c), marked)
        <4>1. Len(S) \in Nat /\ DOMAIN S = 1 .. Len(S)
          BY <1>1
        <4> SUFFICES ASSUME NEW i \in DOMAIN marked, marked[i].type = "schemaArray",
                            NEW max \in marked[i].array.maxItems
                     PROVE  marked[i].count <= max /\ (i < Len(marked) => marked[i].count < max)
          BY <3>5 DEF CountsFit
        <4>2. i \in DOMAIN S /\ i < Len(S) /\ marked[i] = S[i]
          BY <3>3, <4>1
        <4> QED
          BY <3>3, <4>2 DEF Fits, CountsFit
      <3>7. root # AnyJSON
        <4>1. Last(S) = S[Len(S)] /\ Len(S) \in DOMAIN S
          BY <1>1, <2>1, LastFrame
        <4> QED
          BY <2>1, <4>1 DEF Fits, Capped
      <3> QED
        BY <3>3, <3>4, <3>5, <3>6, <3>7 DEF Fits
    <2> QED
      BY <2>2, <2>3
  <1>5. role.type \in {"plain", "enumValue", "freeKey", "key"}
    BY <1>1 DEF RoleFits, Plain, FreeKey
  <1> QED
    BY <1>2, <1>3, <1>4, <1>5

\* The phases inside a string, one lemma each.
LEMMA StepStringFits ==
    ASSUME NEW g, NEW root, NEW b, Fits(g, root), g.phase.at = "string"
    PROVE  Fits(StepString(g, b), root)
  <1> DEFINE role == g.phase.role
             escape == [at |-> "stringEscape", role |-> role]
             utf8(lead) == [at |-> "utf8", role |-> role, scalar |-> lead.payload,
                            rest |-> lead.rest, next |-> lead.next]
  <1>1. g.phase.at \in StringPhases
    BY DEF StringPhases
  <1>2. Fits(To(g, escape), root)
    <2>1. {"at", "role"} \subseteq DOMAIN escape /\ escape.at \in StringPhases /\ escape.role = role
      BY DEF StringPhases
    <2> HIDE DEF escape
    <2> QED
      BY <1>1, <2>1, StringGoesOn
  <1>3. \A lead : Fits(To(g, utf8(lead)), root)
    <2> SUFFICES ASSUME NEW lead PROVE Fits(To(g, utf8(lead)), root)
      OBVIOUS
    <2>1. /\ {"at", "role"} \subseteq DOMAIN utf8(lead) /\ utf8(lead).at \in StringPhases
          /\ utf8(lead).role = role
      BY DEF StringPhases
    <2> HIDE DEF utf8
    <2> QED
      BY <1>1, <2>1, StringGoesOn
  <1>4. /\ Fits(CloseString(g, role), root) /\ Fits(Reject(g), root)
        /\ \A scalar : Fits(AppendScalar(g, role, scalar), root)
    BY <1>1, CloseStringFits, RejectFits, AppendScalarFits
  <1> QED
    BY <1>2, <1>3, <1>4 DEF StepString

LEMMA StepUtf8Fits ==
    ASSUME NEW g, NEW root, NEW b, Fits(g, root), g.phase.at = "utf8"
    PROVE  Fits(StepUtf8(g, b), root)
  <1> DEFINE value == g.phase.scalar * 64 + (b % 64)
             p == [g.phase EXCEPT !.scalar = value, !.rest = @ - 1, !.next = 128..191]
  <1>1. g.phase.at \in StringPhases /\ {"at", "role"} \subseteq DOMAIN g.phase
    BY DEF StringPhases, Fits, PhaseFits
  <1>2. {"at", "role"} \subseteq DOMAIN p /\ p.at = "utf8" /\ p.role = g.phase.role
    BY <1>1
  <1>3. Fits(AppendScalar(g, g.phase.role, value), root) /\ Fits(Reject(g), root)
    BY <1>1, AppendScalarFits, RejectFits
  <1>4. StepUtf8(g, b) \in {Reject(g), To(g, p), AppendScalar(g, g.phase.role, value)}
    BY DEF StepUtf8
  <1> HIDE DEF p, value
  <1>5. Fits(To(g, p), root)
    BY <1>1, <1>2, StringGoesOn DEF StringPhases
  <1> QED
    BY <1>3, <1>4, <1>5

LEMMA StepEscapeFits ==
    ASSUME NEW g, NEW root, NEW b, Fits(g, root), g.phase.at = "stringEscape"
    PROVE  Fits(StepEscape(g, b), root)
  <1> DEFINE p == [at |-> "unicodeEscape", role |-> g.phase.role, nibbles |-> 0, value |-> 0]
  <1>1. g.phase.at \in StringPhases
    BY DEF StringPhases
  <1>2. {"at", "role"} \subseteq DOMAIN p /\ p.at \in StringPhases /\ p.role = g.phase.role
    BY DEF StringPhases
  <1>3. /\ Fits(Reject(g), root)
        /\ \A scalar : Fits(AppendScalar(g, g.phase.role, scalar), root)
    BY <1>1, AppendScalarFits, RejectFits
  <1>4. StepEscape(g, b) \in {To(g, p), Reject(g),
                               AppendScalar(g, g.phase.role, (CHOOSE e \in Escapes : e[1] = b)[2])}
    BY DEF StepEscape
  <1> HIDE DEF p
  <1>5. Fits(To(g, p), root)
    BY <1>1, <1>2, StringGoesOn
  <1> QED
    BY <1>3, <1>4, <1>5

LEMMA StepUnicodeEscapeFits ==
    ASSUME NEW g, NEW root, NEW b, Fits(g, root), g.phase.at = "unicodeEscape"
    PROVE  Fits(StepUnicodeEscape(g, b), root)
  <1> DEFINE value == g.phase.value * 16 + CHOOSE n \in HexNibble(b) : TRUE
             p == [g.phase EXCEPT !.nibbles = @ + 1, !.value = value]
             low == [at |-> "lowSurrogate", role |-> g.phase.role, high |-> value,
                     offset |-> 0, value |-> 0]
  <1>1. g.phase.at \in StringPhases /\ {"at", "role"} \subseteq DOMAIN g.phase
    BY DEF StringPhases, Fits, PhaseFits
  <1>2. {"at", "role"} \subseteq DOMAIN p /\ p.at = "unicodeEscape" /\ p.role = g.phase.role
    BY <1>1
  <1>3. {"at", "role"} \subseteq DOMAIN low /\ low.at = "lowSurrogate" /\ low.role = g.phase.role
    OBVIOUS
  <1>4. Fits(AppendScalar(g, g.phase.role, value), root) /\ Fits(Reject(g), root)
    BY <1>1, AppendScalarFits, RejectFits
  <1>5. StepUnicodeEscape(g, b)
          \in {Reject(g), To(g, p), To(g, low), AppendScalar(g, g.phase.role, value)}
    BY DEF StepUnicodeEscape
  <1> HIDE DEF p, low, value
  <1>6. Fits(To(g, p), root) /\ Fits(To(g, low), root)
    BY <1>1, <1>2, <1>3, StringGoesOn DEF StringPhases
  <1> QED
    BY <1>4, <1>5, <1>6

LEMMA StepLowSurrogateFits ==
    ASSUME NEW g, NEW root, NEW b, Fits(g, root), g.phase.at = "lowSurrogate"
    PROVE  Fits(StepLowSurrogate(g, b), root)
  <1> DEFINE p(value) == [g.phase EXCEPT !.offset = @ + 1, !.value = value]
             read == g.phase.value * 16 + CHOOSE n \in HexNibble(b) : TRUE
             scalar == Surrogates(g.phase.high, read)
  <1>1. g.phase.at \in StringPhases /\ {"at", "role"} \subseteq DOMAIN g.phase
    BY DEF StringPhases, Fits, PhaseFits
  <1>2. \A value : /\ {"at", "role"} \subseteq DOMAIN p(value) /\ p(value).at = "lowSurrogate"
                   /\ p(value).role = g.phase.role
    BY <1>1
  <1>3. Fits(AppendScalar(g, g.phase.role, scalar), root) /\ Fits(Reject(g), root)
    BY <1>1, AppendScalarFits, RejectFits
  <1>4. StepLowSurrogate(g, b)
          \in {Reject(g), To(g, p(0)), To(g, p(read)), AppendScalar(g, g.phase.role, scalar)}
    BY DEF StepLowSurrogate
  <1> HIDE DEF p, read, scalar
  <1>5. \A value : Fits(To(g, p(value)), root)
    BY <1>1, <1>2, StringGoesOn DEF StringPhases
  <1> QED
    BY <1>3, <1>4, <1>5

-----------------------------------------------------------------------------
(* The automaton                                                           *)

\* Every byte leaves the automaton in a state that fits.
LEMMA StepFits ==
    ASSUME NEW g, NEW root, NEW b, Fits(g, root)
    PROVE  Fits(Step(g, b), root)
  <1>1. CASE g.phase.at = "valueStart"
    BY <1>1, StepValueStartFits DEF Step
  <1>2. CASE g.phase.at = "keyStart"
    BY <1>2, StepKeyStartFits DEF Step
  <1>3. CASE g.phase.at = "expectColon"
    BY <1>3, StepExpectColonFits DEF Step
  <1>4. CASE g.phase.at = "afterValue"
    BY <1>4, StepAfterValueFits DEF Step
  <1>5. CASE g.phase.at = "string"
    BY <1>5, StepStringFits DEF Step
  <1>6. CASE g.phase.at = "utf8"
    BY <1>6, StepUtf8Fits DEF Step
  <1>7. CASE g.phase.at = "stringEscape"
    BY <1>7, StepEscapeFits DEF Step
  <1>8. CASE g.phase.at = "unicodeEscape"
    BY <1>8, StepUnicodeEscapeFits DEF Step
  <1>9. CASE g.phase.at = "lowSurrogate"
    BY <1>9, StepLowSurrogateFits DEF Step
  <1>10. CASE g.phase.at = "number"
    BY <1>10, StepNumberFits DEF Step
  <1>11. CASE g.phase.at = "literal"
    BY <1>11, StepLiteralFits DEF Step
  <1>12. CASE g.phase.at \notin {"valueStart", "keyStart", "expectColon", "afterValue", "string",
                                 "utf8", "stringEscape", "unicodeEscape", "lowSurrogate",
                                 "number", "literal"}
    BY <1>12, RejectFits DEF Step, StepComplete
  <1> QED
    BY <1>1, <1>2, <1>3, <1>4, <1>5, <1>6, <1>7, <1>8, <1>9, <1>10, <1>11, <1>12

\* The input is one of those tried and the automaton's state fits its root value.
IInv == input \in Inputs /\ Fits(grammar, input.root)

\* A new automaton for a compiled schema.
LEMMA InitialFits ==
    ASSUME NEW root \in Schemas
    PROVE  Fits(InitialGrammar(root), root)
  <1>1. /\ InitialGrammar(root) = [phase |-> ValueStart(root), stack |-> <<>>]
        /\ ValueStart(root).at = "valueStart" /\ ValueStart(root).constraint = root
        /\ "at" \in DOMAIN ValueStart(root)
    BY DEF InitialGrammar, ValueStart
  <1>2. PhaseFits(ValueStart(root), <<>>)
    BY <1>1 DEF PhaseFits, StringPhases
  <1>3. CountsFit(ValueStart(root), <<>>)
    BY DEF CountsFit
  <1>4. root = AnyJSON => Capped(ValueStart(root), <<>>)
    BY <1>1, DepthAssumption DEF Capped
  <1> QED
    BY <1>1, <1>2, <1>3, <1>4 DEF Fits

\* Every step keeps the invariant.
LEMMA InvariantStep ==
    ASSUME IInv, [Next]_vars
    PROVE  IInv'
  <1>1. CASE UNCHANGED vars
    BY <1>1 DEF IInv, vars
  <1>2. ASSUME NEW b, ConsumeByte(b) PROVE IInv'
    BY <1>2, StepFits DEF IInv, ConsumeByte
  <1>3. CASE MarkEndOfSequence
    <2>1. input' = input /\ grammar' = To(grammar, Finished) /\ Status(grammar) = "complete"
      BY <1>3 DEF MarkEndOfSequence
    <2>2. grammar.stack = <<>>
      BY <2>1 DEF Status, IInv, Fits, PhaseFits
    <2>3. PhaseFits(Finished, grammar.stack) /\ ~InValue(Finished) /\ Finished.at = "finished"
      BY <2>2 DEF PhaseFits, InValue, Finished, StringPhases
    <2>4. Fits(To(grammar, Finished), input.root)
      BY <2>3, ToFits DEF IInv
    <2> QED
      BY <2>1, <2>4 DEF IInv
  <1>4. CASE Reset
    BY <1>4, InitialFits, InputsAssumption DEF Reset, IInv
  <1> QED
    BY <1>1, <1>2, <1>3, <1>4 DEF Next

\* The invariant says more than the shape.
LEMMA FitsIsTypeOK == IInv => TypeOK
  <1> SUFFICES ASSUME IInv PROVE TypeOK
    OBVIOUS
  <1> DEFINE S == grammar.stack
             p == grammar.phase
  <1>1. S \in Seq(Frames) /\ PhaseFits(p, S) /\ CountsFit(p, S)
    BY DEF IInv, Fits
  <1>2. ASSUME NEW i \in DOMAIN S PROVE FrameOK(S[i])
    <2>1. S[i] \in Frames
      BY <1>1
    <2> QED
      BY <1>1, <2>1, FrameFacts DEF FrameOK, CountsFit
  <1>3. input.root = AnyJSON => Len(S) <= MaximumNestingDepth
    BY DEF IInv, Fits, Capped
  <1>4. CASE p.at \in {"complete", "finished"}
    BY <1>1, <1>2, <1>3, <1>4 DEF TypeOK, PhaseFits, StringPhases
  <1>5. CASE p.at \in {"keyStart", "expectColon"}
    BY <1>1, <1>2, <1>3, <1>5 DEF TypeOK, PhaseFits, StringPhases, Top
  <1>6. CASE p.at = "afterValue"
    BY <1>1, <1>2, <1>3, <1>6 DEF TypeOK, PhaseFits, StringPhases
  <1>7. CASE p.at \in StringPhases /\ p.role.type = "key"
    <2>1. RoleFits(p.role, S)
      BY <1>1, <1>7 DEF PhaseFits
    <2>2. /\ S # <<>> /\ Last(S).type = "schemaObject"
          /\ p.role.candidates = DOMAIN Last(S).object.properties \ Last(S).used
      BY <1>7, <2>1 DEF RoleFits, Plain, FreeKey
    <2> QED
      BY <1>2, <1>3, <1>7, <2>2 DEF TypeOK, StringPhases, Top
  <1>8. CASE /\ p.at \notin {"complete", "finished", "keyStart", "expectColon", "afterValue"}
             /\ ~(p.at \in StringPhases /\ p.role.type = "key")
    BY <1>2, <1>3, <1>8 DEF TypeOK
  <1> QED
    BY <1>4, <1>5, <1>6, <1>7, <1>8

\* step(_:) keeps the whole state in shape, for every compiled schema and every byte: the
\* frames on the stack are those of the schemas, an array whose item has begun is strictly
\* below its maximum, and a string is what the innermost container allows there.
THEOREM Invariance == Spec => []IInv
  <1>1. Init => IInv
    BY InitialFits, InputsAssumption DEF Init, IInv
  <1> QED
    BY <1>1, InvariantStep, PTL DEF Spec

\* Why the defensive branches of step(_:) are never taken: a root is complete only without
\* open containers, a key stands in an object and is one of the names it does not have
\* yet, what follows a value stands in a container, a free document keeps the nesting cap,
\* and no array ever holds more than its maxItems.
THEOREM ShapeOfTheAutomaton == Spec => []TypeOK
  BY Invariance, FitsIsTypeOK, PTL

=============================================================================
