--------------------------- MODULE MCJSONGrammar ----------------------------
(* Small instances of JSONGrammar for TLC. *)
EXTENDS JSONGrammarLanguage, JSONValue

Compiler == INSTANCE SchemaCompiler

\* A format, with the bytes it is tried on and how many of them.
Input(format, bytes, length) == [format |-> format, bytes |-> bytes, length |-> length]

\* The inputs whose format compiles, with what it compiles to.
Compiled(inputs) ==
    UNION {{i @@ [root |-> root] : root \in Compiler!Compile(i.format)} : i \in inputs}

Formats(type) == [type |-> JSONString(type)]
JSONObjectFormat == JSONObject(Formats("json_object"))
SchemaFormat(schema) ==
    JSONObject(Formats("json_schema") @@
        [json_schema |-> JSONObject([name |-> JSONString(<<110>>), strict |-> JSONBool(TRUE),
                                     schema |-> schema])])

-----------------------------------------------------------------------------
(* json_object: structure, numbers, literals, escapes, UTF-8               *)

FreeInputs ==
    {Input(JSONObjectFormat, {LBrace, RBrace, LBracket, RBracket, Colon, Comma, Quote, Zero, 32}, 6),
     Input(JSONObjectFormat, {Minus, Plus, Zero, 57, Dot, 101, 32}, 6),
     Input(JSONObjectFormat, {LetterT, LetterF, LetterN, LetterU, 97, 101, 108, 114, 115, 10}, 6),
     Input(JSONObjectFormat, {Quote, Backslash, LetterU, 56, 100}, 8),
     Input(JSONObjectFormat, {Quote, Backslash, LetterU, Zero, 68, 70, LetterN, 47, 120}, 6),
     Input(JSONObjectFormat, {Quote, 31, 127, 128, 159, 160, 191, 193, 195, 224, 230, 237}, 5),
     Input(JSONObjectFormat, {Quote, 127, 128, 143, 144, 191, 240, 243, 244, 245}, 6)}

-----------------------------------------------------------------------------
(* Strict schemas                                                          *)

Type(type) == [type |-> JSONString(type)]
OrNull(type) == [type |-> JSONArray(<<JSONString(type), JSONString("null")>>)]
OneOf(values) == [enum |-> JSONArray(values)]
Num(m, e) == JSONNumber(Compiler!Numbers!Decimal(m, e))

Object(names, values, required) ==
    JSONObject(Type("object") @@
        [properties |-> JSONObject([n \in ToSet(names) |->
                            values[CHOOSE i \in DOMAIN names : names[i] = n]]),
         required |-> JSONArray([i \in DOMAIN required |-> JSONString(required[i])]),
         additionalProperties |-> JSONBool(FALSE)])
Array(items, min, max) ==
    JSONObject(Type("array") @@ [items |-> items, minItems |-> Num(min, 0), maxItems |-> Num(max, 0)])
Integer == JSONObject(Type("integer"))

NameA == <<97>>
NameAB == <<97, 98>>
EAcute == <<233>>
Clef == <<119070>>

\* Two names of which one begins the other, exact numbers, arrays of 1 or 2 items.
TwoNames ==
    Object(<<NameA, NameAB>>,
           <<JSONObject(Type("integer") @@ OneOf(<<Num(0, 0)>>)), Array(Integer, 1, 2)>>, <<NameA>>)

\* An array that stays empty, an object that stays empty, a nullable enum.
Corners ==
    Object(<<NameA, NameAB, EAcute>>,
           <<Array(Integer, 0, 0), Object(<<>>, <<>>, <<>>),
             JSONObject(OrNull("string") @@ OneOf(<<JSONNull, JSONString(NameA)>>))>>, <<>>)

\* A word outside ASCII and one outside the basic plane.
Spelled ==
    Object(<<NameA>>,
           <<JSONObject(Type("string") @@ OneOf(<<JSONString(EAcute), JSONString(Clef)>>))>>, <<NameA>>)

\* Booleans that must be true: null would be of the type, but not of the enum.
OnlyTrue ==
    Object(<<NameA>>, <<JSONObject(OrNull("boolean") @@ OneOf(<<JSONBool(TRUE)>>))>>, <<NameA>>)

SchemaInputs ==
    {Input(SchemaFormat(OnlyTrue),
           {LBrace, RBrace, Colon, Quote, 97, LetterT, 114, LetterU, 101, LetterF, LetterN}, 11),
     Input(SchemaFormat(TwoNames),
           {LBrace, RBrace, LBracket, RBracket, Colon, Comma, Quote, Minus, Zero, 97, 98}, 20),
     Input(SchemaFormat(TwoNames), {LBrace, RBrace, Colon, Comma, Quote, Zero, 97, 32}, 11),
     Input(SchemaFormat(Corners),
           {LBrace, RBrace, LBracket, RBracket, Colon, Comma, Quote, 97, 98, Zero,
            195, 169, LetterN, LetterU, 108}, 18),
     Input(SchemaFormat(Spelled),
           {LBrace, RBrace, Colon, Quote, 97, 194, 195, 169, 240, 157, 132, 158, Backslash,
            LetterU, Zero, 48, 49, 51, 52, 56, 57, 68, 69, 100, 101}, 20)}

-----------------------------------------------------------------------------
(* Constrained numbers, as far as the schema compiler takes them           *)

AtLeast(m, e) == [minimum |-> Num(m, e)]
AtMost(m, e) == [maximum |-> Num(m, e)]
Above(m, e) == [exclusiveMinimum |-> Num(m, e)]
Below(m, e) == [exclusiveMaximum |-> Num(m, e)]
Multiple(m, e) == [multipleOf |-> Num(m, e)]

Integers ==
    {AtLeast(10, 0) @@ AtMost(99, 0) @@ Multiple(5, 0),
     AtLeast(-20, 0) @@ AtMost(20, 0) @@ Multiple(3, 0),
     AtLeast(1, 0) @@ AtMost(4, 0) @@ Multiple(15, -1),
     AtLeast(100, 0) @@ Multiple(7, 0),
     AtLeast(4, 0) @@ AtMost(5, 0) @@ Multiple(15, -1),
     AtLeast(11, -1) @@ AtMost(19, -1),
     Above(-101, 0) @@ Below(-9, 0),
     OneOf(<<Num(-5, 0), Num(10, 0), Num(104, 0)>>) @@ AtMost(100, 0)}

Reals ==
    {AtLeast(-15, -1) @@ AtMost(25, -1) @@ Multiple(5, -1),
     AtLeast(2, -1) @@ AtMost(6, -1),
     Above(45, -1) @@ AtMost(46, 0),
     AtLeast(-40, 0) @@ Below(-2, 0),
     Above(1, 0) @@ AtLeast(1, 0) @@ Multiple(15, -1),
     Above(0, 0) @@ Below(1, -1),
     AtLeast(46, -1) @@ AtMost(45, -1),
     OneOf(<<Num(5, -1), Num(15, -1), Num(100, 0)>>) @@ AtLeast(1, 0)}

Field(scalar) == SchemaFormat(Object(<<NameA>>, <<JSONObject(scalar)>>, <<NameA>>))

NumberAlphabet == {LBrace, RBrace, Colon, Quote, 97, Minus, Zero, 49, 53}

NumberInputs ==
    {Input(Field(Type("integer") @@ c), NumberAlphabet \cup {50}, 10) : c \in Integers}
      \cup {Input(Field(Type("number") @@ c), NumberAlphabet \cup {Dot, 101}, 10) : c \in Reals}
      \cup {Input(Field(OrNull("integer") @@ AtLeast(5, 0) @@ AtMost(3, 0)),
                  NumberAlphabet \cup {50, LetterN, LetterU, 108}, 10)}

-----------------------------------------------------------------------------
(* Formats that are refused                                                *)

\* Scalar fields: not satisfiable, not of the type, twice the same value, a keyword of
\* another type, a union of two scalars.
RefusedScalars ==
    {Type("integer") @@ AtLeast(5, 0) @@ AtMost(3, 0),
     Type("integer") @@ AtLeast(11, -1) @@ Below(2, 0),
     Type("number") @@ Above(1, 0) @@ AtMost(1, 0),
     Type("number") @@ AtLeast(1, 0) @@ AtMost(2, 0) @@ Multiple(3, 0),
     Type("number") @@ OneOf(<<Num(5, -1)>>) @@ AtLeast(1, 0),
     Type("number") @@ Multiple(0, 0),
     Type("integer") @@ OneOf(<<Num(15, -1)>>),
     Type("number") @@ OneOf(<<Num(10, -1), Num(1, 0)>>),
     Type("string") @@ OneOf(<<>>),
     Type("string") @@ OneOf(<<JSONString(NameA), JSONNull>>),
     Type("boolean") @@ OneOf(<<Num(0, 0)>>),
     Type("string") @@ AtLeast(1, 0),
     Type("boolean") @@ [format |-> JSONString(NameA)],
     Type("null"),
     OneOf(<<JSONNull>>),
     [type |-> JSONArray(<<JSONString("integer"), JSONString("string")>>)],
     [type |-> JSONArray(<<JSONString("null"), JSONString("null")>>)]}

RefusedSchemas ==
    {Object(<<NameA>>, <<Integer>>, <<NameAB>>),
     Object(<<NameA>>, <<Integer>>, <<NameA, NameA>>),
     Object(<<<<>>>>, <<Integer>>, <<>>),
     Object(<<NameA>>, <<Array(Integer, 2, 1)>>, <<>>),
     Object(<<NameA>>, <<Array(Integer, -1, 1)>>, <<>>),
     Object(<<NameA>>, <<Array(JSONNull, 0, 1)>>, <<>>),
     JSONObject([Object(<<>>, <<>>, <<>>).object EXCEPT !["additionalProperties"] = JSONBool(TRUE)]),
     Array(Integer, 0, 1)}

\* The compiler fails closed.
RefusedFormats ==
    {Field(scalar) : scalar \in RefusedScalars} \cup {SchemaFormat(schema) : schema \in RefusedSchemas}

ASSUME RefusalAssumption == \A format \in RefusedFormats : Compiler!Compile(format) = {}

-----------------------------------------------------------------------------

AllInputs == Compiled(FreeInputs \cup SchemaInputs \cup NumberInputs)

\* A schema and those of the values in it.
RECURSIVE WithItsParts(_)
WithItsParts(schema) ==
    {schema} \cup CASE schema.type = "object" ->
                        UNION {WithItsParts(schema.properties[n]) : n \in DOMAIN schema.properties}
                   [] schema.type = "array" -> WithItsParts(schema.items)
                   [] OTHER -> {}

AllSchemas == {AnyJSON} \cup UNION {WithItsParts(i.root) : i \in AllInputs}
=============================================================================
