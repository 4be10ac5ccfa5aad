------------------------ MODULE JSONGrammarLanguage -------------------------
(* What JSONGrammar promises, against the reference JSONText.  The recursive       *)
(* operators of the reference keep these properties to TLC.                        *)
EXTENDS JSONGrammar

Reference == INSTANCE JSONText

Ends == Reference!Ends(text, input.format, MaximumNestingDepth)
IsViable == Reference!IsViable(text, Ends)

\* "Every accepted root value is syntactically valid JSON", of the schema in strict
\* mode, "acceptance is reported only after the root value is complete" and at once
\* when it is; and an illegal byte is one after which no document can follow.
DecidesTheLanguage ==
    LET ends == Ends
    IN /\ Reference!IsDocument(text, ends) <=> Status(grammar) \in {"complete", "finished"}
       /\ Status(grammar) = "failed" => ~Reference!IsViable(text, ends)

\* The states in which the automaton has taken a byte on a necessary condition only:
\* an escape or a multi-byte sequence of a constrained word, a key where none is left.
IsCommitted(p) ==
    \/ p.at \in {"utf8", "stringEscape", "unicodeEscape", "lowSurrogate"}
    \/ p.at = "string" /\ ~IsFree(p.role) /\ p.role.candidates = {}

\* Outside those states what has been taken can always be completed: no mask of a
\* full vocabulary is empty between two characters, keys, values or containers.
CanBeCompleted ==
    Status(grammar) # "failed" /\ ~IsCommitted(grammar.phase) => IsViable
=============================================================================
