------------------------------ MODULE MCStack ------------------------------
(* The arguments of the stack operations.                                  *)
EXTENDS LuaStack

Build(throws, trace) == [checks |-> TRUE, throws |-> throws, trace |-> trace]

Both == {Build(FALSE, TRUE), Build(TRUE, FALSE)}

Values == {"number", "table", "function", "nil"}
AnyArg == Values \cup Foreign

\* Without exceptions a key of which nothing is pushed makes set write elsewhere.
SomeKeys == [throws \in BOOLEAN |-> {"number", "table"} \cup (IF throws THEN Foreign ELSE {})]

Checked == {"number", "table", "function"}

\* The hypotheses of the theorems about the stack.
ASSUME /\ \A b \in Builds : b.checks
       /\ Keys[FALSE] \cap Foreign = {} /\ \A throws \in BOOLEAN : "nil" \notin Keys[throws]
       /\ "mistyped" \notin Args
       /\ "other" \notin Tables /\ "light" \notin PullTypes
       /\ LuaFailures \subseteq {"run", "syntax"}
=============================================================================
