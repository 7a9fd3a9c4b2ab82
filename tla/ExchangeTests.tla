--------------------------- MODULE ExchangeTests ---------------------------
(***************************************************************************)
(* The unit tests of values and instances which C++ and Lua exchange, and  *)
(* of who owns the instances.                                              *)
(***************************************************************************)
EXTENDS Scripts

\* A variable is pushed, or a pointer to an instance.
Pushes(type, id, want) == Pushing("none", type, id, [ok |-> TRUE, grown |-> 1] @@ want)
PushesInstance(class, method, want) == Pushes(Of(class, method), "instance", want)

\* pull into a variable fails, with an error or an exception.
Fails_(type) == Pulling("none", type, [ok |-> FALSE])

\* push_pull.cpp: what is pushed is pulled, which ranges and encodings are not of.
PushPull ==
  {<<Pushes(Of(base, "value"), "input", <<>>), Pulled(Of(base, "value"), "input")>> :
     base \in {"bool", "char", "int", "float", "string", "enum"}}
  \cup {<<PushesInstance("Stub1", "ptr", <<>>), Pulled(Of("Stub1", "ptr"), "instance")>>,
        <<Pushes(Of("char", "constPtr"), "input", <<>>), Pulled(Of("string", "value"), "input")>>}

\* exchange_cpp2lua.cpp: the types of what is pushed
Exchange_cpp2lua ==
  {<<Pushes(Of(base, "value"), "input", [top |-> [type |-> "number", id |-> "input"]])>> :
     base \in {"int", "float"}}
  \cup {<<Pushes(Of("bool", "value"), "input", [top |-> [type |-> "boolean"]])>>,
        <<Pushes(Of("string", "value"), "input", [top |-> [type |-> "string"]])>>,
        <<PushesInstance("Stub1", "ptr", [top |-> [type |-> "userdata"]])>>,
        <<Pushes(Of("Lua_func_ref", "value"), "f", [top |-> [type |-> "function"]])>>,
        <<Pushes(Of("Lua_table_ref", "value"), "t", [top |-> [type |-> "table"]])>>}

\* exchange_lua2cpp.cpp: a value of the type is pulled, and nil makes a reference
\* invalid.
Exchange_lua2cpp ==
  LET Left(value, base, id) == <<Leaving(value, [ok |-> TRUE]), Pulled(Of(base, "value"), id)>>
  IN  {Left(Lua("number", "n"), base, "n") : base \in {"int", "char", "float"}}
      \cup {Left(Lua("table", "t"), base, "t") : base \in {"Table", "Lua_table_ref"}}
      \cup {Left(Nil, base, "none") : base \in {"Table", "Lua_table_ref", "Lua_func_ref"}}
      \cup {Left(Lua("function", "f"), "Lua_func_ref", "f")}
      \cup {<<Leaving(Cpp(Of("Stub1", "ptr"), "input1"), [ok |-> TRUE]),
              Leaving(Cpp(Of("Stub2", "ptr"), "input2"), [ok |-> TRUE]),
              Pulled(Of("Stub2", "ptr"), "input2"), Pulled(Of("Stub1", "ptr"), "input1")>>,
            <<Leaving(Lua("number", "54"), [ok |-> TRUE]), Leaving(Lua("number", "2"), [ok |-> TRUE]),
              Pulled(Of("int", "value"), "2"), Pulled(Of("int", "value"), "54")>>,
            <<Fails_(Of("Lua_func_ref", "value"))>>}

\* error_check.cpp: what is on top, or an empty stack, is not of the type.
PullFails ==
  LET stub == Cpp(Of("Stub1", "ptr"), "instance")
      Fails(value, type) == <<Leaving(value, [ok |-> TRUE]), Fails_(type)>>
  IN  {Fails(Lua("alien userdata", "u"), Of("Stub1", "ptrConst")),
       Fails(Lua("string", "s"), Of("enum", "value")),
       Fails(stub, Of("InvalidStub", "ptr")),
       Fails(Lua("number", "1"), Of("Stub1", "ptr")),
       Fails(stub, Of("int", "value")),
       Fails(Lua("number", "1"), Of("Lua_func_ref", "value")),
       Fails(Lua("number", "1"), Of("bool", "value")),
       Fails(Lua("boolean", "true"), Of("int", "value")),
       <<Leaving(Lua("number", "1"), [ok |-> TRUE]), Pulling("none", Of("float", "value"), [ok |-> TRUE])>>,
       <<Leaving(Lua("number", "1"), [ok |-> TRUE]),
         Pulling("cpp_acquire_ptr", Of("Stub1", "ptr"), [ok |-> FALSE])>>,
       <<Fails_(Of("Stub1", "ptr"))>>, <<Fails_(Of("bool", "value"))>>}

\* light_ud.cpp
Light_ud ==
  {<<Pushes(Of("void", "ptr"), "pointer", [top |-> [type |-> "light"]]),
     Pulled(Of("void", "ptr"), "pointer")>>,
   <<Fails_(Of("void", "ptr"))>>,
   <<PushesInstance("Stub1", "ptr", <<>>), Fails_(Of("void", "ptr"))>>}

\* hierarchy.cpp and class_exchange.cpp: an instance which is pushed constant and
\* not, or as its base and its derived class, is one userdata, which is constant
\* if it never was pushed as one which is not, and of the derived class.
ClassExchange ==
  LET Once(method) == <<PushesInstance("Abstract3", method, [top |-> [const |-> method = "ptrConst"]])>>
      Twice(first, second, both) ==
        <<PushesInstance("Abstract3", first, <<>>),
          PushesInstance("Abstract3", second, [top |-> [const |-> both], below |-> [const |-> both]])>>
      BaseAndDerived(first, second, const) ==
        <<PushesInstance("Base1", first, <<>>),
          PushesInstance("Derived", second, [below |-> [class |-> "Derived", const |-> const]])>>
  IN  {Once("ptr"), Once("ptrConst"),
       Twice("ptr", "ptrConst", FALSE), Twice("ptrConst", "ptr", FALSE),
       Twice("ptrConst", "ptrConst", TRUE), Twice("ptr", "ptr", FALSE),
       BaseAndDerived("ptrConst", "ptr", FALSE), BaseAndDerived("ptrConst", "ptrConst", TRUE),
       BaseAndDerived("ptr", "ptr", FALSE),
       <<PushesInstance("Derived", "ptrConst", <<>>),
         PushesInstance("Base1", "ptrConst", [below |-> [class |-> "Derived"]])>>}

\* set_ownership.cpp: set_owner, and lua_acquire_ptr
SetOwner ==
  LET Owner(owner) == Owning({}, owner, [ok |-> TRUE, top |-> [gc |-> owner = "Lua"]])
      NoDestructor(owner) == <<PushesInstance("PrivateDestructor", "ptr", <<>>),
                               Owning({"No_public_destructor"}, owner, [ok |-> FALSE])>>
      acquired == Pushing("lua_acquire_ptr", Of("Stub1", "ptr"), "instance",
                          [top |-> [gc |-> TRUE, id |-> "instance"]])
  IN  {<<PushesInstance("Stub1", "ptrConst", <<>>), Owner("Cpp")>>,
       <<PushesInstance("Stub1", "ptr", <<>>), Owner("Cpp")>>,
       <<PushesInstance("Stub1", "ptr", <<>>), Owner("Lua"), Owner("Cpp")>>,
       NoDestructor("Lua"), NoDestructor("Cpp"),
       <<acquired>>, <<PushesInstance("Stub1", "ptr", <<>>), acquired>>}

\* set_ownership.cpp: an instance comes to be Lua's in a parameter, or is taken
\* away from it by one.
OwnershipTraits ==
  {<<Calling(nothing, <<Param("lua_out_p", Of("Stub1", method))>>, <<>>, <<"stub">>,
             [ok |-> TRUE, top |-> [gc |-> TRUE, id |-> "stub"]])>> :
     method \in {"refPtr", "refPtrConst"}}
  \cup {<<Taking("cpp_in_p", Of("Stub1", method), push_acquire(Of("Stub1", "ptr")) @@ [id |-> "stub"],
                 [ok |-> TRUE, given |-> <<"stub">>, kept |-> <<FALSE>>])>> :
          method \in {"ptr", "constPtr", "refPtr", "refConstPtr",
                      "ptrConst", "constPtrConst", "refPtrConst", "refConstPtrConst"}}

ExchangeTestCases == PushPull \cup Exchange_cpp2lua \cup Exchange_lua2cpp \cup PullFails
  \cup Light_ud \cup ClassExchange \cup SetOwner \cup OwnershipTraits
=============================================================================
