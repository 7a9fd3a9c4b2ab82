----------------------------- MODULE TypeTests -----------------------------
(***************************************************************************)
(* The unit tests of what the compiler makes of types and traits.          *)
(***************************************************************************)
EXTENDS Scripts

PointerForms == {"ptr", "constPtr", "ptrConst", "constPtrConst",
                 "refPtr", "refConstPtr", "refPtrConst", "refConstPtrConst"}

\* What has to compile, and what must not.
Compiling_(trait, base, methods) ==
  {<<Compiling(trait, Of(base, method), [ok |-> TRUE])>> : method \in methods}
Fails(trait, base, methods) ==
  {<<Compiling(trait, Of(base, method), [ok |-> FALSE])>> : method \in methods}

PullsAs(trait, base, methods, pull) ==
  {<<Compiling(trait, Of(base, method), [ok |-> TRUE, pull |-> Of(base, pull)])>> : method \in methods}

\* traits.cpp: the pull types and the owner of some traits
PullTypes ==
  PullsAs("lua_acquire_ptr", "Stub1", {"ptr", "constPtr", "refPtr", "refConstPtr"}, "ptr")
  \cup PullsAs("lua_acquire_ptr", "Stub1",
               {"ptrConst", "constPtrConst", "refPtrConst", "refConstPtrConst"}, "ptrConst")
  \cup PullsAs("lua_out_p", "Stub1", {"refPtr"}, "ptr")
  \cup PullsAs("lua_out_p", "Stub1", {"refPtrConst"}, "ptrConst")
  \cup PullsAs("out_p", "Stub1", {"refPtr"}, "value")
  \cup {<<Compiling("maybe_null_lua_return", Of("Stub1", "ptr"), [owner |-> "Lua"])>>,
        <<Calling(nothing, <<In(calling_lua_state)>>, <<>>, <<>>, [ok |-> TRUE, given |-> <<"state">>])>>,
        <<Asking("has_a_proxy_type", Of("StubNoneProxy", "value"), FALSE)>>,
        <<Asking("has_a_proxy_type", Of("Stub1", "value"), TRUE)>>}

\* traits.cpp: what is compiled with every trait
TraitsCompile ==
  Compiling_("lua_out_p", "Stub1", {"refPtr", "refPtrConst"})
  \cup Compiling_("in_out_p", "Stub1", {"ptr", "ref", "refConst", "refPtr"})
  \cup Compiling_("in_out_p", "int", {"ptr", "ref"})
  \cup Compiling_("cpp_in_p", "Stub1", PointerForms)
  \cup Compiling_("out_p", "Stub1", {"refPtr", "refPtrConst"})
  \cup Compiling_("out_p", "int", {"ptr", "ref", "refPtr"})
  \cup UNION {Compiling_(trait, "Stub1", PointerForms) :
                trait \in {"lua_return", "cpp_acquire_ptr", "lua_acquire_ptr"}}
  \cup UNION {Compiling_(trait, "Stub1", {"ptr", "constPtr", "ptrConst", "constPtrConst"}) :
                trait \in {"maybe_null", "maybe_null_lua_return"}}

\* tests_must_fail: a program for every type, which the compiler has to refuse.
MustFail ==
  LET references == {"ref", "refConst", "refPtr", "refPtrConst", "refConstPtr", "refConstPtrConst"}
  IN  Fails("cpp_acquire_ptr", "int", {"value", "ptr"}) \cup Fails("cpp_acquire_ptr", "Stub1", {"value", "ref"})
      \cup Fails("cpp_in_p", "int", {"value", "ptr", "ref"})
      \cup Fails("cpp_in_p", "Stub1", {"value", "ref", "refConst"})
      \cup UNION {Fails(trait, base, {"value"}) : trait \in {"in_out_p", "out_p"}, base \in {"int", "Stub1"}}
      \cup Fails("lua_acquire_ptr", "int", DOMAIN DeclaredAs)
      \cup Fails("lua_acquire_ptr", "Stub1", {"value", "ref"})
      \cup UNION {Fails(trait, "int", {"value"}) \cup Fails(trait, "Stub1", {"value"} \cup references) :
                    trait \in {"maybe_null", "maybe_null_lua_return"}}
      \cup Fails("lua_out_p", "int", {"value", "ptr", "ref"})
      \cup Fails("lua_out_p", "Stub1", {"ptr", "ref", "refConst", "refConstPtr"})
      \cup Fails("lua_return", "int", {"value", "ptr"})
      \cup Fails("lua_return", "Stub1", {"value", "constant", "ref", "refConst"})
      \cup Fails("shared_return", "int", {"value", "ptr"})
      \cup Fails("shared_return", "Stub1", {"value", "ref", "refConst"})

\* string_is_integral/is_string_class.cpp
IsIntegralStringClass ==
  {<<Asking("is_integral_string_class", Of(base, "value"), base = "string")>> :
     base \in {"int", "bool", "float", "void", "enum", "Stub1", "Lua_func_ref", "Table", "class", "string"}}
  \cup {<<Asking("is_integral_string_class", Of("class", "ptr"), FALSE)>>}

\* enum_tests.cpp and scoped_enum/scoped_enum_c++11.cpp
IsAnEnum ==
  {<<Asking("can_convert_to_int", Of(base, "value"), base \in {"int", "enum"})>> :
     base \in {"int", "class", "enum", "float"}}
  \cup {<<Asking("is_class_type", Of(base, "value"), base = "class")>> :
          base \in {"class", "int", "scoped_enum", "void"}}
  \cup {<<Asking("is_scoped_enum", Of(base, "value"), base = "scoped_enum")>> :
          base \in {"class", "enum", "int", "void", "scoped_enum"}}

TypeTestCases == PullTypes \cup TraitsCompile \cup MustFail \cup IsIntegralStringClass \cup IsAnEnum
=============================================================================
