-------------------------- MODULE MCStructuredRun --------------------------
(* Small instances of StructuredRun for TLC. *)
EXTENDS StructuredRun

AnyFormat == {"json_object", "json_schema"}
SchemaOnly == {"json_schema"}

\* A table that spells everything, one that cannot end what it starts, and one whose
\* numbers cannot go on after a point.
Tables == {TokenKinds,
           {"open", "space", "eos"},
           {"point", "whole", "open", "close", "space", "eos"}}
FullTable == {TokenKinds}
=============================================================================
