---------------------------- MODULE ReturnTests ----------------------------
(***************************************************************************)
(* The unit tests of what a proxied function returns to Lua.               *)
(***************************************************************************)
EXTENDS Scripts

\* object:method() returns the instance, or value, which is back.
Returns(trait, type, want) ==
  Calling(Param(trait, type), <<>>, <<>>, <<"back">>, [ok |-> TRUE, grown |-> 1, top |-> want])

ReturnsNull(trait, type) ==
  Calling(Param(trait, type), <<>>, <<>>, <<"null">>,
          [ok |-> TRUE, grown |-> 1, top |-> [type |-> "nil"]])

\* userdata_function_returns.cpp and class_method_returns_class.cpp: an instance
\* which is returned without a trait stays the program's, and Lua's if it is
\* returned by value.
DefaultReturns ==
  LET Instance(class, method, into) ==
        <<Returns("function_return", Of(class, method),
                  [gc |-> FALSE, const |-> into = "ptrConst", id |-> "back"]),
          Pulled(Of(class, into), "back")>>
      classes == {"Stub1", "Return_double"}
  IN  {Instance(class, method, "ptr") : class \in classes, method \in {"ref", "ptr"}}
      \cup {Instance(class, method, "ptrConst") :
              class \in classes, method \in {"refConst", "ptrConst", "refPtrConst", "refConstPtrConst"}}
      \cup {<<Returns("function_return", Of(class, "value"), [gc |-> TRUE, of |-> "copy"])>> :
              class \in classes}

\* userdata_function_returns.cpp: what is returned with lua_return is Lua's.
LuaReturns ==
  {<<Returns("lua_return", Of("Stub1", "ptr"), [gc |-> TRUE, const |-> FALSE])>>}
  \cup {<<Returns("lua_return", Of("Stub1", method), [gc |-> TRUE, const |-> TRUE])>> :
          method \in {"ptrConst", "refPtrConst", "refConstPtrConst"}}

\* userdata_function_returns.cpp: no pointer, which is nil for Lua, or a pointer
\* to an instance whose owner does not change.
MaybeNullReturns ==
  UNION {{<<ReturnsNull("maybe_null", Of("Stub1", method))>>,
          <<Returns("maybe_null", Of("Stub1", method), [type |-> "userdata", gc |-> FALSE])>>} :
           method \in {"ptr", "constPtr"}}

\* userdata_function_returns.cpp: the instance, if there is one, is Lua's.
LuaMaybeNullReturns ==
  UNION {{<<ReturnsNull("maybe_null_lua_return", Of("Stub1", method))>>,
          <<Returns("maybe_null_lua_return", Of("Stub1", method), [type |-> "userdata", gc |-> TRUE])>>} :
           method \in {"ptr", "constPtr"}}

\* integral_function_returns.cpp and string_is_integral/string_as_integral.cpp
StringReturns ==
  {<<Returns("function_return", Of("char", method), [type |-> "string"]),
     Pulled(Of("string", "value"), "back")>> : method \in {"ptr", "ptrConst"}}
  \cup {<<Returns("function_return", Of("string", method), [type |-> "string"]),
          Pulled(Of("string", "value"), "back")>> : method \in {"value", "ref", "constant", "refConst"}}

\* false_integral_function_returns.cpp
FalseIntegralFunctionReturns ==
  {<<Returns("function_return", Of(base, method), [id |-> "back"])>> :
     base \in {"Lua_func_ref", "Lua_table_ref", "Table"}, method \in {"value", "ref", "refConst"}}

\* light_ud.cpp
LightReturns ==
  {<<Returns("light_return", Of(base, "ptr"), [type |-> "light"]),
     Pulled(Of("void", "ptr"), "back")>> : base \in {"void", "InvalidStub"}}

\* enum_tests.cpp and scoped_enum/scoped_enum_c++11.cpp, whose functions, and
\* those of a public member, take and return a number for Lua.
EnumParamsAndReturns ==
  UNION {{<<Taking("in_p", Of(base, "value"), Lua("number", "GREEN"), [ok |-> TRUE, given |-> <<"GREEN">>]),
            Returns("function_return", Of(base, "value"), [type |-> "number"]),
            Pulled(Of(base, "value"), "back")>>} : base \in {"enum", "scoped_enum"}}

ReturnTestCases == DefaultReturns \cup LuaReturns \cup MaybeNullReturns \cup LuaMaybeNullReturns
  \cup StringReturns \cup FalseIntegralFunctionReturns \cup LightReturns \cup EnumParamsAndReturns
=============================================================================
