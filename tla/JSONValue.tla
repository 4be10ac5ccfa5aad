------------------------------ MODULE JSONValue -----------------------------
(***************************************************************************)
(* MeiJSONValue (OpenAITypes.swift): a decoded JSON value.  The names of   *)
(* keywords and types are strings of TLA+; what is spelled out byte by     *)
(* byte elsewhere (property names, enum words) is a sequence of Unicode    *)
(* scalars.  A number is a DecimalLiteral.                                 *)
(***************************************************************************)

JSONString(string) == [kind |-> "string", string |-> string]
JSONNumber(number) == [kind |-> "number", number |-> number]
JSONBool(bool) == [kind |-> "bool", bool |-> bool]
JSONObject(object) == [kind |-> "object", object |-> object]
JSONArray(array) == [kind |-> "array", array |-> array]
JSONNull == [kind |-> "null"]

\* What an object has under a key, if anything; and if it is of the kind.
At(object, key) == {object[k] : k \in DOMAIN object \cap {key}}
Take(object, key, kind) == {v \in At(object, key) : v.kind = kind}
=============================================================================
