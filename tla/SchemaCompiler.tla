--------------------------- MODULE SchemaCompiler ---------------------------
(***************************************************************************)
(* ResponseFormat.decode (ResponseFormat.swift) and JSONSchemaCompiler     *)
(* (JSONSchemaCompiler.swift): what becomes of the response_format of a    *)
(* request, before anything is generated.                                  *)
(*                                                                         *)
(* The result is the root value JSONGrammar runs on, or nothing: text, and *)
(* every format that is refused.  Which error refuses it is left out, and  *)
(* so are the canonical text and its hash: sets have no order, so formats  *)
(* that differ only in order compile to the same value here.               *)
(*                                                                         *)
(* An optional is a set with at most one element.                          *)
(*                                                                         *)
(* Operators named X_Y are deliberate bugs Y in the operator X that        *)
(* follows; no specification uses them.                                    *)
(***************************************************************************)
EXTENDS Integers, Sequences, SequencesExt, JSONValue

Numbers == INSTANCE NumberTracker

AnyJSON == [type |-> "any"]

The(optional) == CHOOSE v \in optional : TRUE

HasOnly(raw, keywords) == DOMAIN raw \subseteq keywords

NumericKeywords == {"minimum", "maximum", "exclusiveMinimum", "exclusiveMaximum", "multipleOf"}
ScalarTypes == {"string", "number", "integer", "boolean"}

-----------------------------------------------------------------------------
(* Scalars                                                                 *)

\* An enum member is of the declared type, or a null where null is allowed.
IsEnumMember(type, nullable, v) ==
    CASE v.kind = "string" -> type = "string"
      [] v.kind = "number" ->
           type = "number" \/ (type = "integer" /\ Numbers!IsInteger(v.number))
      [] v.kind = "bool" -> type = "boolean"
      [] v.kind = "null" -> nullable
      [] OTHER -> FALSE

\* Not empty, and every member once.
IsEnum(type, nullable, v) ==
    /\ v.kind = "array" /\ v.array # <<>>
    /\ \A i \in DOMAIN v.array :
          /\ IsEnumMember(type, nullable, v.array[i])
          /\ \A k \in 1..i - 1 : v.array[k] # v.array[i]

IsConstraint(keyword, v) ==
    /\ v.kind = "number"
    /\ keyword = "multipleOf" => v.number.m > 0

IsScalar(raw, type, nullable) ==
    /\ HasOnly(raw, {"type", "enum"} \cup IF type \in {"number", "integer"} THEN NumericKeywords ELSE {})
    /\ \A v \in At(raw, "enum") : IsEnum(type, nullable, v)
    /\ \A k \in DOMAIN raw \cap NumericKeywords : IsConstraint(k, raw[k])

\* The members of the enum, if one is declared.
Members(raw) == {ToSet(v.array) : v \in At(raw, "enum")}

AcceptsNull_IgnoresEnum(raw, nullable) == nullable

\* A declared enum that omits null excludes it.
AcceptsNull(raw, nullable) == nullable /\ \A members \in Members(raw) : JSONNull \in members

\* numericConstraintSet: none when nothing constrains the number.
ConstraintSet(raw) ==
    LET bound(k) == {v.number : v \in At(raw, k)}
        values(members) == {v.number : v \in {m \in members : m.kind = "number"}}
    IN IF HasOnly(raw, {"type"}) THEN {}
       ELSE {[minimum |-> bound("minimum"), maximum |-> bound("maximum"),
              exclusiveMinimum |-> bound("exclusiveMinimum"),
              exclusiveMaximum |-> bound("exclusiveMaximum"),
              multipleOf |-> bound("multipleOf"),
              allowed |-> {values(members) : members \in Members(raw)}]}

\* A number no literal satisfies is refused, unless null is a value too.
CompileNumber(raw, type, null) ==
    IF null \/ \A c \in ConstraintSet(raw) : Numbers!IsSatisfiable(c, type)
    THEN {[type |-> type, constraints |-> ConstraintSet(raw), acceptsNull |-> null]}
    ELSE {}

CompileScalar(raw, type, nullable) ==
    LET null == AcceptsNull(raw, nullable)
    IN IF ~IsScalar(raw, type, nullable) THEN {}
       ELSE CASE type = "string" ->
              {[type |-> type, acceptsNull |-> null,
                words |-> {{v.string : v \in members \ {JSONNull}} : members \in Members(raw)}]}
         [] type = "boolean" ->
              {[type |-> type, acceptsNull |-> null,
                booleans |-> {b \in BOOLEAN : \A members \in Members(raw) : JSONBool(b) \in members}]}
         [] OTHER -> CompileNumber(raw, type, null)

\* The only union: a scalar type and null, in either order.
NullableUnionScalarType(entries) ==
    {type \in ScalarTypes :
        entries \in {<<JSONString(type), JSONString("null")>>, <<JSONString("null"), JSONString(type)>>}}

-----------------------------------------------------------------------------
(* Containers and formats                                                  *)

Count(raw, keyword) ==
    {Numbers!Aligned(v.number, 0) :
        v \in {w \in Take(raw, keyword, "number") : Numbers!IsInteger(w.number) /\ w.number.m >= 0}}

\* minItems and maxItems are counts if they are there, and make a range.
HasItemRange(raw) ==
    /\ \A k \in {"minItems", "maxItems"} : At(raw, k) # {} => Count(raw, k) # {}
    /\ \A min \in Count(raw, "minItems"), max \in Count(raw, "maxItems") : min <= max

\* Names that are required are strings, once each, and defined.
IsRequired(names, properties) ==
    \A i \in DOMAIN names :
        /\ names[i].kind = "string" /\ names[i].string \in DOMAIN properties
        /\ \A k \in 1..i - 1 : names[k] # names[i]

IsObjectSchema(raw) ==
    /\ HasOnly(raw, {"type", "properties", "required", "additionalProperties"})
    /\ At(raw, "additionalProperties") = {JSONBool(FALSE)}
    /\ \E p \in Take(raw, "properties", "object"), r \in Take(raw, "required", "array") :
          <<>> \notin DOMAIN p.object /\ IsRequired(r.array, p.object)

RECURSIVE CompileValue(_)

CompileObject(raw) ==
    IF ~IsObjectSchema(raw) THEN {}
    ELSE LET properties == raw["properties"].object
             compiled == [n \in DOMAIN properties |-> CompileValue(properties[n])]
         IN IF \E n \in DOMAIN properties : compiled[n] = {} THEN {}
            ELSE {[type |-> "object",
                   properties |-> [n \in DOMAIN properties |-> The(compiled[n])],
                   required |-> {n.string : n \in ToSet(raw["required"].array)}]}

CompileArrayItems(raw) ==
    IF HasOnly(raw, {"type", "items", "minItems", "maxItems"}) /\ HasItemRange(raw)
    THEN {[type |-> "array", items |-> items, maxItems |-> Count(raw, "maxItems"),
           minItems |-> Max({0} \cup Count(raw, "minItems"))] :
            items \in UNION {CompileValue(v) : v \in At(raw, "items")}}
    ELSE {}

CompileValue(v) ==
    LET raw == v.object
        type == At(raw, "type")
    IN IF v.kind # "object" THEN {}
       ELSE CASE type = {JSONString("object")} -> CompileObject(raw)
         [] type = {JSONString("array")} -> CompileArrayItems(raw)
         [] OTHER ->
              UNION {CompileScalar(raw, t, FALSE) : t \in {s \in ScalarTypes : type = {JSONString(s)}}}
              \cup UNION {CompileScalar(raw, t, TRUE) :
                            t \in UNION {NullableUnionScalarType(u.array) : u \in Take(raw, "type", "array")}}

\* decodeJSONSchema, then compile: a named, strict schema with an object at its root.
CompileSchemaFormat(wrapper) ==
    IF /\ \E name \in Take(wrapper, "name", "string") : name.string # <<>>
       /\ At(wrapper, "strict") = {JSONBool(TRUE)}
    THEN UNION {CompileObject(s.object) :
                  s \in {t \in Take(wrapper, "schema", "object") :
                           At(t.object, "type") = {JSONString("object")}}}
    ELSE {}

Compile(format) ==
    IF format.kind # "object" THEN {}
    ELSE CASE At(format.object, "type") = {JSONString("json_object")} -> {AnyJSON}
      [] At(format.object, "type") = {JSONString("json_schema")} ->
           UNION {CompileSchemaFormat(w.object) : w \in Take(format.object, "json_schema", "object")}
      [] OTHER -> {}
=============================================================================
