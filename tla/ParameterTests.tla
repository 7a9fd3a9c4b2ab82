--------------------------- MODULE ParameterTests ---------------------------
(***************************************************************************)
(* The unit tests of parameters which are passed to proxied functions.     *)
(***************************************************************************)
EXTENDS Scripts

\* object[method](object, argument) of a function with a parameter which is Of
\* a base, and is called with what was pushed from a variable of some type.
Passing(base, method, from) ==
  Calling(nothing, <<In(Of(base, method))>>, <<Cpp(from, "input")>>, <<>>,
          [ok |-> TRUE, given |-> <<"input">>, grown |-> 0])

Refusing(base, method, from) ==
  Calling(nothing, <<In(Of(base, method))>>, <<Cpp(from, "input")>>, <<>>, [ok |-> FALSE])

\* userdata_function_params.cpp: whether the instance is passed through a pointer
\* to what is constant, every parameter takes it which does not let it change.
UserDataFunctionInParams ==
  LET instance == Of("HasIntMember", "ptr")
      constant == Of("HasIntMember", "ptrConst")
      changing == {"ref", "ptr", "refPtr"}
      keeping == {"value", "constant", "refConst", "ptrConst", "refPtrConst",
                  "constPtrConst", "refConstPtrConst"}
  IN  {<<Passing("HasIntMember", method, instance)>> : method \in changing \cup keeping}
        \cup {<<Passing("HasIntMember", method, constant)>> : method \in keeping}
        \cup {<<Refusing("HasIntMember", method, constant)>> : method \in changing}

\* integral_function_param_types.cpp
Integral_params ==
  {<<Passing("int", method, Of("int", "value"))>> :
     method \in {"value", "ref", "ptr", "constant", "refConst", "ptrConst", "constPtrConst"}}
  \cup {<<Passing("char", method, Of("char", "ptrConst"))>> :
          method \in {"ptrConst", "refPtrConst", "ptr"}}
  \cup {<<Refusing("char", method, Of("int", "value"))>> : method \in {"ptrConst", "ptr"}}
  \cup {<<Passing("float", "value", Of("float", "value"))>>}

\* false_integral_function_params.cpp: a function, a table by reference and the
\* Table class, which a function takes, changes, and returns in a parameter.
FalseIntegralFunctionParams ==
  LET bases == {"Lua_func_ref", "Lua_table_ref", "Table"}
      Assigning(trait, base, args) ==
        Calling(nothing, <<Param(trait, Of(base, "ref"))>>, args, <<"ref">>,
                [ok |-> TRUE, grown |-> 1, top |-> [id |-> "ref"]])
  IN  {<<Passing(base, method, Of(base, "value"))>> :
         base \in bases, method \in {"value", "ref", "refConst"}}
      \cup {<<Assigning("in_out_p", base, <<Cpp(Of(base, "value"), "another")>>)>> : base \in bases}
      \cup {<<Assigning("out_p", base, <<>>)>> : base \in bases}
      \cup {<<Calling(nothing, <<In(Of(base, "value"))>>, <<Nil>>, <<>>,
                      [ok |-> TRUE, given |-> <<"none">>])>> : base \in bases}

-----------------------------------------------------------------------------
(* Parameters which come back                                              *)

Input == Cpp(Of("int", "value"), "input")

\* object:method(input), which leaves another value in the parameter.
Changing(trait, type, args, want) ==
  Calling(nothing, <<Param(trait, type)>>, args, <<"assigned">>, [ok |-> TRUE, grown |-> 1] @@ want)

\* integral_function_out_params.cpp
IntegralFunctionOutParams ==
  LET forms == {Of("int", method) : method \in {"ref", "ptr", "refPtr"}}
      result == Pulled(Of("int", "value"), "assigned")
  IN  {<<Changing("in_out_p", form, <<Input>>, [given |-> <<"input">>, top |-> [type |-> "number"]]),
         result>> : form \in forms}
      \cup {<<Changing("out_p", form, <<>>, [given |-> <<"new">>]), result>> : form \in forms}

\* out_params.cpp and return_order.cpp: a return value is below the parameters
\* which come back, and of these the last is on top.
OutParams ==
  LET int == Of("int", "value")
      both == <<Param("in_out_p", Of("int", "ref")), Param("in_out_p", Of("int", "ref"))>>
      inputs == <<Cpp(int, "1"), Cpp(int, "2")>>
  IN  {<<Changing("in_out_p", Of("int", "ref"), <<Input>>, [given |-> <<"input">>])>>,
       <<Changing("in_out_p", Of("int", "ptr"), <<Input>>, [given |-> <<"input">>]),
         Pulled(int, "assigned")>>,
       <<Changing("out_p", Of("int", "ref"), <<>>, <<>>), Pulled(int, "assigned")>>,
       <<Changing("out_p", Of("int", "ptr"), <<>>, [top |-> [type |-> "number"]]),
         Pulled(int, "assigned")>>,
       <<Calling(nothing, both, inputs, <<"1", "2">>, [given |-> <<"1", "2">>, grown |-> 2]),
         Pulled(int, "2"), Pulled(int, "1")>>,
       <<Calling(Param("function_return", int), both, inputs, <<"Return", "Param1", "Param2">>,
                 [ok |-> TRUE]),
         Pulled(int, "Param2"), Pulled(int, "Param1"), Pulled(int, "Return")>>,
       <<Calling(Param("function_return", int), SubSeq(both, 1, 1), <<Cpp(int, "0")>>,
                 <<"returnValue", "paramValue">>, [ok |-> TRUE]),
         Pulled(int, "paramValue"), Pulled(int, "returnValue")>>,
       <<Taking("in_p", Of("int", "ptr"), Input, [given |-> <<"input">>, grown |-> 0])>>}

\* out_params.cpp and userdata_function_out_params.cpp: OOLua makes the object
\* which a function fills, and Lua owns it.
UserDataFunctionOutParams ==
  LET Made(class, method) ==
        Changing("out_p", Of(class, method), <<>>, [given |-> <<"new">>, top |-> [gc |-> TRUE]])
      HasIntMember(method) == <<Made("HasIntMember", method),
                                Pulling("cpp_acquire_ptr", Of("HasIntMember", "ptr"), [ok |-> TRUE])>>
  IN  {HasIntMember("ref"), HasIntMember("ptr"), HasIntMember("refPtr"),
       <<Made("Stub1", "ref")>>, <<Made("Stub1", "ptr")>>,
       <<Made("MockParamWithStringMember", "ref"),
         Pulling("none", Of("MockParamWithStringMember", "ptr"), [ok |-> TRUE])>>}

\* max_params.cpp: a function of one to eight integers
ParamsTest ==
  {<<Calling(nothing, [i \in 1 .. n |-> In(Of("int", "value"))],
             [i \in 1 .. n |-> Cpp(Of("int", "value"), ToString(i))], <<>>,
             [ok |-> TRUE, given |-> [i \in 1 .. n |-> ToString(i)]])>> : n \in 1 .. 8}

-----------------------------------------------------------------------------
(* The parameters which tests of other things have                         *)

\* const_functions.cpp, where self is as a parameter by reference, to what is
\* constant in a method which is.  A function which is added to the class in Lua
\* calls the method as a chunk does, and so does one in a derived class.
Constant_functions ==
  LET CallsOn(self, class, method, want) ==
        Taking("in_p", Of("Constant", self), Cpp(Of(class, method), "self"), want)
  IN  {<<CallsOn("refConst", "Constant", "ptrConst", [ok |-> TRUE, given |-> <<"self">>])>>,
       <<CallsOn("refConst", "Constant", "ptr", [ok |-> TRUE, given |-> <<"self">>])>>,
       <<CallsOn("ref", "Constant", "ptr", [ok |-> TRUE, given |-> <<"self">>])>>,
       <<CallsOn("ref", "Constant", "ptrConst", [ok |-> FALSE])>>,
       <<CallsOn("refConst", "DerivesToUseConstMethod", "ptrConst", [ok |-> TRUE])>>}

\* string_is_integral/string_as_integral.cpp: std::string as an integral type
StringParams ==
  LET string == Cpp(Of("string", "value"), "input")
      result == Pulled(Of("string", "value"), "assigned")
  IN  {<<Passing("string", method, Of("string", "value"))>> :
         method \in {"value", "ref", "constant", "refConst"}}
      \cup {<<Changing("out_p", Of("string", "ref"), <<>>, [given |-> <<"new">>]), result>>,
            <<Changing("in_out_p", Of("string", "ref"), <<string>>, [given |-> <<"input">>]), result>>,
            <<Refusing("string", "value", Of("int", "value"))>>}

\* light_ud.cpp: a parameter which is a pointer Lua only keeps
LightParams ==
  {<<Taking("light_p", Of(base, "ptr"), Cpp(Of("void", "ptr"), "input"),
            [ok |-> TRUE, given |-> <<"input">>])>> : base \in {"void", "InvalidStub"}}

\* error_check.cpp: arguments of other types than the parameters are.
RefusedParams ==
  LET Table == Lua("table", "{}")
      Refused(type, arg) == <<Taking("in_p", type, arg, [ok |-> FALSE])>>
  IN  {Refused(Of("HasIntMember", "ptr"), Lua("number", "1")),
       Refused(Of("int", "value"), Lua("boolean", "true")),
       Refused(Of("bool", "value"), Lua("number", "1")),
       Refused(Of("Table", "value"), Lua("number", "1")),
       Refused(Of("Lua_table_ref", "value"), Lua("number", "1")),
       Refused(Of("char", "ptr"), Lua("number", "1")),
       Refused(Of("float", "value"), Table),
       <<Taking("light_p", Of("void", "ptr"), Table, [ok |-> FALSE])>>}

ParameterTestCases == UserDataFunctionInParams \cup Integral_params
  \cup FalseIntegralFunctionParams \cup IntegralFunctionOutParams \cup OutParams
  \cup UserDataFunctionOutParams \cup ParamsTest \cup Constant_functions \cup StringParams
  \cup LightParams \cup RefusedParams
=============================================================================
