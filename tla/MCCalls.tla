------------------------------- MODULE MCCalls -------------------------------
(* The functions which are bound, chosen so that traits meet.              *)
EXTENDS Calls

Proxy(self, params, ret) ==
  [self |-> self, deduced |-> FALSE, params |-> params, ret |-> ret]

Deduced(self, params, ret) == [Proxy(self, params, ret) EXCEPT !.deduced = TRUE]

\* Functions which take nothing over before another parameter is read.
Plain1 == {
  Proxy("mutable", <<"state", "number_in">>, "pointer"),
  Proxy("const", <<"number_out", "in_const", "value_out">>, "const_pointer"),
  Proxy("none", <<"number_in_out", "state", "cpp_in">>, "number"),
  Proxy("none", <<"lua_out", "in">>, "light_return"),
  Proxy("none", <<>>, "lua_return"),
  Deduced("mutable", <<"in", "number_in">>, "maybe_null"),
  Deduced("none", <<"in_const">>, "value"),
  Deduced("const", <<"number_in">>, "void")}

\* A number is read after the object was taken over.
TakesFirst == {
  Proxy("none", <<>>, "lua_return"),
  Proxy("none", <<"cpp_in", "number_in">>, "void")}

\* References go in and out, of members and of a C function.
WithTables == {
  Proxy("mutable", <<"table_in", "cpp_in">>, "table"),
  Proxy("const", <<"table_in_out">>, "void"),
  Deduced("mutable", <<"number_in">>, "table"),
  Proxy("none", <<"table_in_out">>, "number"),
  Proxy("none", <<>>, "lua_return")}

Build(checks, throws, bound, plain) ==
  [checks |-> checks, throws |-> throws, bound |-> bound, plain |-> plain]

Both == {Build(TRUE, FALSE, Plain1, {"number", "nil", "light"}),
         Build(TRUE, TRUE, WithTables, {"number", "nil", "table"})}
\* The hypotheses of the theorems about calls hold of the functions in both.
ASSUME \A b \in Both : /\ b.checks
                       /\ \A s \in b.bound : /\ TakesLast(s) /\ TablesLast(s)
                                             /\ b.throws \/ Range(Outs(s)) \cap Tables = {}

Taking == {Build(TRUE, FALSE, TakesFirst, {"number", "nil"})}

ObjSymmetry == Permutations(Obj)
=============================================================================
