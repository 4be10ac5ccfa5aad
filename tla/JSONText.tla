------------------------------ MODULE JSONText ------------------------------
(***************************************************************************)
(* The reference for JSONGrammar: which byte sequences are the JSON texts  *)
(* of a response format, as RFC 8259 and JSON Schema define them, and      *)
(* which can still become one.  Schemas are read as they were sent.        *)
(*                                                                         *)
(* A parser takes a text s and a set I of positions where what it parses   *)
(* may begin, and returns the positions after it.  Position Open says that *)
(* s ended in the middle of something that can be completed.  With its     *)
(* bytes a text carries the positions after the constrained numbers in it. *)
(*                                                                         *)
(* A number that is constrained is one whose exact value is accepted, and  *)
(* what s ends in can be completed if one of finitely many literals that   *)
(* begin with it is accepted: up to MoreDigits digits and an exponent      *)
(* within -Reach..Reach are tried, and before it begins the numbers up to  *)
(* Small.                                                                  *)
(***************************************************************************)
EXTENDS Integers, Sequences, SequencesExt, Folds, JSONValue

MoreDigits == 2
Reach == 6
Small == 120

Open == 0

\* One byte out of B.
Byte(s, I, B) ==
    {i + 1 : i \in {j \in I \ {Open} : j <= Len(s.bytes) /\ s.bytes[j] \in B}}
        \cup (IF {Open, Len(s.bytes) + 1} \cap I # {} THEN {Open} ELSE {})

RECURSIVE Bytes(_, _, _)
Bytes(s, I, sets) ==
    IF sets = <<>> THEN I ELSE Bytes(s, Byte(s, I, Head(sets)), Tail(sets))

RECURSIVE Star(_, _, _)
Star(s, I, B) ==
    LET J == I \cup Byte(s, I, B) IN IF J = I THEN I ELSE Star(s, J, B)

Blanks(s, I) == Star(s, I, {9, 10, 13, 32})

-----------------------------------------------------------------------------
(* Strings                                                                 *)

Hex(nibbles) == {48 + n : n \in nibbles \cap (0..9)}
                  \cup {55 + n : n \in nibbles \cap (10..15)}
                  \cup {87 + n : n \in nibbles \cap (10..15)}
AnyHex == Hex(0..15)
Tails == 128..191

\* The spellings of one character of free text: itself, a short escape, \uXXXX of a
\* scalar or of a surrogate pair, and well-formed UTF-8.
Characters ==
    {<<32..127 \ {34, 92}>>,
     <<{92}, {34, 92, 47, 98, 102, 110, 114, 116}>>,
     <<{92}, {117}, Hex(0..15 \ {13}), AnyHex, AnyHex, AnyHex>>,
     <<{92}, {117}, Hex({13}), Hex(0..7), AnyHex, AnyHex>>,
     <<{92}, {117}, Hex({13}), Hex(8..11), AnyHex, AnyHex,
       {92}, {117}, Hex({13}), Hex(12..15), AnyHex, AnyHex>>,
     <<194..223, Tails>>,
     <<{224}, 160..191, Tails>>, <<{237}, 128..159, Tails>>,
     <<(225..239) \ {237}, Tails, Tails>>,
     <<{240}, 144..191, Tails, Tails>>, <<241..243, Tails, Tails, Tails>>,
     <<{244}, 128..143, Tails, Tails>>}

RECURSIVE Text(_, _)
Text(s, I) ==
    LET J == I \cup UNION {Bytes(s, I, c) : c \in Characters}
    IN IF J = I THEN I ELSE Text(s, J)

AnyString(s, I) == Byte(s, Text(s, Byte(s, I, {34})), {34})

Unit(u) ==
    <<{92}, {117}, Hex({u \div 4096}), Hex({(u \div 256) % 16}), Hex({(u \div 16) % 16}),
      Hex({u % 16})>>

Utf8(c) ==
    IF c < 128 THEN <<{c}>>
    ELSE IF c < 2048 THEN <<{192 + c \div 64}, {128 + (c % 64)}>>
    ELSE IF c < 65536
      THEN <<{224 + c \div 4096}, {128 + ((c \div 64) % 64)}, {128 + (c % 64)}>>
    ELSE <<{240 + c \div 262144}, {128 + ((c \div 4096) % 64)}, {128 + ((c \div 64) % 64)},
           {128 + (c % 64)}>>

Shorthand == [c \in {8, 9, 10, 12, 13, 34, 47, 92} |->
    CASE c = 8 -> 98 [] c = 9 -> 116 [] c = 10 -> 110 [] c = 12 -> 102 [] c = 13 -> 114
      [] OTHER -> c]

\* The spellings of the scalar c.
Spellings(c) ==
    (IF c < 32 \/ c \in {34, 92} THEN {} ELSE {Utf8(c)})
        \cup (IF c \in DOMAIN Shorthand THEN {<<{92}, {Shorthand[c]}>>} ELSE {})
        \cup (IF c < 65536 THEN {Unit(c)}
              ELSE {Unit(55296 + (c - 65536) \div 1024) \o Unit(56320 + ((c - 65536) % 1024))})

RECURSIVE Word(_, _, _)
Word(s, I, word) ==
    IF word = <<>> THEN I
    ELSE Word(s, UNION {Bytes(s, I, e) : e \in Spellings(Head(word))}, Tail(word))

OneOf(s, I, words) ==
    LET start == Byte(s, I, {34})
    IN Byte(s, UNION {Word(s, start, w) : w \in words}, {34})

-----------------------------------------------------------------------------
(* Numbers and literals                                                    *)

Exactly(s, I, bytes) == Bytes(s, I, [i \in DOMAIN bytes |-> {bytes[i]}])

Number(s, I, kind) ==
    LET digits == 48..57
        Plus1(J) == Star(s, Byte(s, J, digits), digits)
        signed == I \cup Byte(s, I, {45})
        whole == Byte(s, signed, {48}) \cup Star(s, Byte(s, signed, 49..57), digits)
        decimal == whole \cup Plus1(Byte(s, whole, {46}))
        e == Byte(s, decimal, {69, 101})
    IN IF kind = "integer" THEN whole ELSE decimal \cup Plus1(e \cup Byte(s, e, {43, 45}))

\* A literal, or the beginning of one, taken apart.
Digits(w) == SelectSeq(w, LAMBDA b : b \in 48..57)
Natural(w) == FoldLeft(LAMBDA n, b : n * 10 + b - 48, 0, Digits(w))
Mark(w, B) == Min({Len(w) + 1} \cup {i \in DOMAIN w : w[i] \in B})
Upto(w, B) == SubSeq(w, 1, Mark(w, B) - 1)
After(w, B) == SubSeq(w, Mark(w, B) + 1, Len(w))

E == {69, 101}
Decimals == INSTANCE DecimalLiteral

\* What the keywords of a schema ask of a number, each for itself.
Satisfies(keywords, d) ==
    \A k \in DOMAIN keywords :
        CASE k = "minimum" -> Decimals!LessEq(keywords[k].number, d)
          [] k = "maximum" -> Decimals!LessEq(d, keywords[k].number)
          [] k = "exclusiveMinimum" -> Decimals!Less(keywords[k].number, d)
          [] k = "exclusiveMaximum" -> Decimals!Less(d, keywords[k].number)
          [] k = "multipleOf" -> Decimals!IsMultiple(d, keywords[k].number)
          [] k = "enum" -> Contains(keywords[k].array, JSONNumber(d))
          [] OTHER -> TRUE

\* The natural numbers whose digits begin with those of n.
Longer(n) == UNION {n * 10 ^ k .. n * 10 ^ k + 10 ^ k - 1 : k \in 0..MoreDigits}

\* The significand of w and the exponents it may still get; where the exponent is not
\* begun, digits may be added as well.
Spelled(w) ==
    LET mantissa == Upto(w, E)
        exponent == After(w, E)
        signed(set) == IF 45 \in {exponent[i] : i \in DOMAIN exponent} THEN {-e : e \in set} ELSE set
    IN [significand |-> Natural(mantissa),
        negative |-> w[1] = 45,
        places |-> Len(Digits(After(mantissa, {46}))),
        exponent |-> IF exponent = <<>> THEN 0 ELSE CHOOSE e \in signed({Natural(exponent)}) : TRUE,
        exponents |-> IF exponent = <<>> THEN -Reach..Reach
                      ELSE signed(IF Digits(exponent) = <<>> THEN 0..Reach
                                  ELSE Longer(Natural(exponent)))]

Signed(negative, n) == IF negative THEN -n ELSE n

IsAccepted(c, w) ==
    LET p == Spelled(w)
    IN Satisfies(c, Decimals!Decimal(Signed(p.negative, p.significand),
                                            p.exponent - p.places))

CanBecomeAccepted(c, kind, w) ==
    LET p == Spelled(w)
        value(n, e) == Decimals!Decimal(Signed(p.negative, n), e)
    IN IF kind = "integer" THEN
          IF w[Len(w)] = 48 /\ p.significand = 0 THEN Satisfies(c, Decimals!Zero)
          ELSE \E n \in Longer(p.significand) : Satisfies(c, value(n, 0))
       ELSE IF Mark(w, E) > Len(w) THEN
          \E n \in Longer(p.significand), e \in p.exponents : Satisfies(c, value(n, e))
       ELSE \E e \in p.exponents : Satisfies(c, value(p.significand, e - p.places))

\* A value the reference looks at is accepted.
CanBeAccepted(c, kind) ==
    \E n \in 0..Small, e \in (IF kind = "integer" THEN {0} ELSE -2..0), negative \in BOOLEAN :
        Satisfies(c, Decimals!Decimal(Signed(negative, n), e))

\* The positions after a constrained number that begins at i.
Constrained(bytes, kind, c, i) ==
    LET ends == Number([bytes |-> bytes], {i}, kind)
        accepted == {j \in ends \ {Open} : IsAccepted(c, SubSeq(bytes, i, j - 1))}
        goesOn == IF i \in {Open, Len(bytes) + 1} THEN CanBeAccepted(c, kind)
                  ELSE /\ {Open, Len(bytes) + 1} \cap ends # {}
                       /\ CanBecomeAccepted(c, kind, SubSeq(bytes, i, Len(bytes)))
    IN accepted \cup (IF goesOn THEN {Open} ELSE {})

True(s, I) == Exactly(s, I, <<116, 114, 117, 101>>)
False(s, I) == Exactly(s, I, <<102, 97, 108, 115, 101>>)
Null(s, I) == Exactly(s, I, <<110, 117, 108, 108>>)

-----------------------------------------------------------------------------
(* Values: d is the nesting that is left to a free value                   *)

AnyJSON == [kind |-> "any"]

\* The types a schema allows, and whether its enum, if there is one, lists a value.
Types(v) ==
    UNION {IF t.kind = "array" THEN {u.string : u \in ToSet(t.array)} ELSE {t.string} :
             t \in At(v.object, "type")}
Lists(v, value) == \A enum \in At(v.object, "enum") : Contains(enum.array, value)

Words(v) == {w.string : w \in {u \in UNION {ToSet(enum.array) : enum \in At(v.object, "enum")} :
                                u.kind = "string"}}

Scalar(s, I, v, type) ==
    CASE type = "null" -> IF Lists(v, JSONNull) THEN Null(s, I) ELSE {}
      [] type = "string" ->
           IF At(v.object, "enum") = {} THEN AnyString(s, I) ELSE OneOf(s, I, Words(v))
      [] type = "boolean" ->
           (IF Lists(v, JSONBool(TRUE)) THEN True(s, I) ELSE {})
             \cup (IF Lists(v, JSONBool(FALSE)) THEN False(s, I) ELSE {})
      [] OTHER ->
           IF DOMAIN v.object = {"type"} THEN Number(s, I, type)
           ELSE UNION {s.numbers[<<type, v.object, i>>] : i \in I}

RECURSIVE Value(_, _, _, _)
RECURSIVE Items(_, _, _, _, _, _)
RECURSIVE FreeMembers(_, _, _, _)
RECURSIVE SchemaMembers(_, _, _, _)

Padded(s, I, v, d) == Blanks(s, Value(s, Blanks(s, I), v, d))

\* After k items of an array: its closing bracket, or one item more.
Items(s, I, item, range, d, k) ==
    IF I \subseteq {Open} THEN I
    ELSE (IF \A min \in range.min : k >= min THEN Byte(s, I, {93}) ELSE {})
         \cup (IF \A max \in range.max : k < max
               THEN Items(s, Padded(s, IF k = 0 THEN I ELSE Byte(s, I, {44}), item, d),
                          item, range, d, k + 1)
               ELSE {})

\* A member after its key.
AfterKey(s, I, v, d) == Padded(s, Byte(s, Blanks(s, I), {58}), v, d)

NextKey(s, I, first) == Blanks(s, IF first THEN I ELSE Byte(s, I, {44}))

FreeMembers(s, I, d, first) ==
    IF I \subseteq {Open} THEN I
    ELSE Byte(s, I, {125})
         \cup FreeMembers(s, AfterKey(s, AnyString(s, NextKey(s, I, first)), AnyJSON, d),
                          d, FALSE)

\* No name twice, all required names, no other name.
SchemaMembers(s, I, v, used) ==
    LET properties == v.object["properties"].object
        required == {n.string : n \in ToSet(v.object["required"].array)}
    IN IF I \subseteq {Open} THEN I
       ELSE (IF required \subseteq used THEN Byte(s, I, {125}) ELSE {})
            \cup UNION {SchemaMembers(s, AfterKey(s, OneOf(s, NextKey(s, I, used = {}), {name}),
                                                  properties[name], 0),
                                      v, used \cup {name}) :
                          name \in DOMAIN properties \ used}

Count(v, keyword) == {Decimals!Aligned(n.number, 0) : n \in At(v.object, keyword)}

FreeValue(s, I, d) ==
    AnyString(s, I) \cup Number(s, I, "number") \cup True(s, I) \cup False(s, I) \cup Null(s, I)
      \cup (IF d = 0 THEN {}
            ELSE Items(s, Blanks(s, Byte(s, I, {91})), AnyJSON, [min |-> {}, max |-> {}], d - 1, 0)
                 \cup FreeMembers(s, Blanks(s, Byte(s, I, {123})), d - 1, TRUE))

Value(s, I, v, d) ==
    IF I = {} THEN {}
    ELSE IF v = AnyJSON THEN FreeValue(s, I, d)
    ELSE CASE Types(v) = {"array"} ->
                Items(s, Blanks(s, Byte(s, I, {91})), v.object["items"],
                      [min |-> Count(v, "minItems"), max |-> Count(v, "maxItems")], d, 0)
           [] Types(v) = {"object"} -> SchemaMembers(s, Blanks(s, Byte(s, I, {123})), v, {})
           [] OTHER -> UNION {Scalar(s, I, v, type) : type \in Types(v)}

-----------------------------------------------------------------------------
(* Documents                                                               *)

\* The value a format asks for.
Root(format) ==
    IF format.object["type"].string = "json_object" THEN AnyJSON
    ELSE format.object["json_schema"].object["schema"]

\* The schemas of constrained numbers.
RECURSIVE Constraints(_)
Constraints(v) ==
    IF v = AnyJSON THEN {}
    ELSE CASE Types(v) = {"object"} ->
                UNION {Constraints(v.object["properties"].object[n]) :
                         n \in DOMAIN v.object["properties"].object}
           [] Types(v) = {"array"} -> Constraints(v.object["items"])
           [] DOMAIN v.object # {"type"} /\ Types(v) \cap {"number", "integer"} # {} -> {v.object}
           [] OTHER -> {}

TextOf(bytes, root) ==
    [bytes |-> bytes,
     numbers |-> [n \in {"number", "integer"} \X Constraints(root) \X (0..Len(bytes) + 1) |->
                    Constrained(bytes, n[1], n[2], n[3])]]

Ends(bytes, format, depth) ==
    Padded(TextOf(bytes, Root(format)), {1}, Root(format), depth)

\* With its ends: bytes are a document, or one or the beginning of one.
IsDocument(bytes, ends) == Len(bytes) + 1 \in ends
IsViable(bytes, ends) == {Open, Len(bytes) + 1} \cap ends # {}
=============================================================================
