----------------------------- MODULE MCConstruct -----------------------------
(* The types of the constructors and functions of the unit tests, and every*)
(* way to declare a parameter of them, or to return one.                   *)
EXTENDS Declarations

Classes == {"Stub", "Derived"}
Derivation == {<<"Derived", "Stub">>}

Shared(constness) == [Type("Stub", <<>>) EXCEPT !.shared = constness]

AllBases ==
  {Type(b, <<>>) : b \in {"bool", "char", "int", "float", "enum", "scoped", "string", "Stub",
                          "Table", "Lua_table_ref", "Lua_func_ref", "void", "calling_lua_state"}}
  \cup {Shared("mutable"), Shared("const")}

In(t) == Param("in_p", t)
Integer == Type("int", <<>>)

\* The constructors of ParamConstructor and LuaStateConstructors which are near
\* to one another.
SomeOverloads ==
  {<<In(Integer)>>, <<In(Type("char", <<"const", "*">>))>>, <<In(Type("Stub", <<"const", "*">>))>>,
   <<In(calling_lua_state)>>, <<In(calling_lua_state), In(Integer)>>}

Instances == {Userdata(c, const, FALSE) : c \in Classes, const \in BOOLEAN}
               \cup {Userdata("Stub", const, TRUE) : const \in BOOLEAN}

SomeArgLists ==
  {<<>>} \cup {<<v>> : v \in PlainValues \cup Instances}
    \cup {<<Value("number"), Value("number")>>}

\* What ConstructorsAreTriedInOrder asks of the constructors.
ASSUME OverloadsTakeOneState
=============================================================================
