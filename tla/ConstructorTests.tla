-------------------------- MODULE ConstructorTests --------------------------
(***************************************************************************)
(* The unit tests of constructors, and the blocks which their classes have.*)
(***************************************************************************)
EXTENDS Scripts

\* OOLUA_CTOR of parameters without traits
Ctor(types) == [i \in DOMAIN types |-> In(types[i])]

No_default == {"No_default_constructor"}

\* bind_classes/expose_class_constructors.h
ParamConstructor ==
  LET int == Of("int", "value")  bool == Of("bool", "value")
  IN  Class("ParamConstructor",
            <<Ctor(<<bool>>), Ctor(<<int>>), Ctor(<<Of("char", "ptrConst")>>), Ctor(<<int, bool>>),
              Ctor(<<Of("Stub1", "ptr")>>), Ctor(<<Of("Stub1", "ptr"), Of("Stub2", "ptr")>>),
              Ctor(<<Of("Stub2", "value")>>), Ctor(<<Of("Stub3", "ptr")>>),
              Ctor(<<Of("Stub3", "ptrConst")>>), Ctor(<<Of("Lua_func_ref", "value")>>),
              Ctor(<<Of("Table", "value")>>)>>, No_default)

TableRefConstructor ==
  Class("TableRefConstructor", <<Ctor(<<Of("Lua_table_ref", "value")>>)>>, No_default)

LuaStateConstructors ==
  Class("LuaStateConstructors",
        <<Ctor(<<calling_lua_state>>), Ctor(<<Of("int", "value"), calling_lua_state>>)>>, No_default)

ConstructorThrowsStdException ==
  Throwing("ConstructorThrowsStdException", <<Ctor(<<Of("int", "value")>>)>>, {})

Stub1 == Class("Stub1", <<>>, {})

-----------------------------------------------------------------------------

\* class.new(args) is done by a constructor which is given the arguments, or an
\* error is raised.
News(class, args, by) ==
  Constructing(class, args,
               [ok |-> TRUE, by |-> by,
                given |-> IF by = 0 THEN <<>>
                          ELSE [i \in DOMAIN class.block[by] |->
                                  IF class.block[by][i] = In(calling_lua_state) THEN "state"
                                  ELSE args[i].id]])
Raises(class, args) == Constructing(class, args, [ok |-> FALSE])

\* construct.cpp: the constructor whose parameters the arguments fit
ConstructsWith ==
  LET Stub(n, method) == Cpp(Of(n, method), n)
      acquired == Pulling("cpp_acquire_ptr", Of("ParamConstructor", "ptr"), [ok |-> TRUE])
      by == {<<<<Lua("number", "1")>>, 2>>, <<<<Lua("boolean", "true")>>, 1>>,
             <<<<Lua("string", "do not care")>>, 3>>,
             <<<<Lua("number", "1"), Lua("boolean", "true")>>, 4>>,
             <<<<Stub("Stub1", "ptr")>>, 5>>, <<<<Stub("Stub1", "ptr"), Stub("Stub2", "ptr")>>, 6>>,
             <<<<Stub("Stub2", "ptr")>>, 7>>, <<<<Stub("Stub3", "ptrConst")>>, 9>>,
             <<<<Lua("function", "f")>>, 10>>, <<<<Lua("table", "t")>>, 11>>}
  IN  {<<News(ParamConstructor, c[1], c[2]), acquired>> : c \in by}
      \cup {<<News(TableRefConstructor, <<Lua("table", "t")>>, 1)>>,
            <<News(Stub1, <<>>, 0), Pulling("cpp_acquire_ptr", Of("Stub1", "ptr"), [ok |-> TRUE])>>}

\* construct.cpp: nothing fits, there is no constructor, or it throws.
ConstructFails ==
  {<<Raises(ParamConstructor, args)>> :
     args \in {<<Lua("string", "dont care"), Lua("boolean", "true")>>,
               <<Cpp(Of("InvalidStub", "ptr"), "stub")>>,
               <<Cpp(Of("Stub1", "ptr"), "stub1"), Cpp(Of("InvalidStub", "ptr"), "stub2")>>,
               <<>>, <<Nil>>}}
  \cup {<<Raises(Class("WithOutConstructors", <<>>, {"No_public_constructors"}), <<>>)>>,
        <<Raises(TableRefConstructor, <<Nil>>)>>,
        <<Raises(Stub1, <<Lua("number", "1")>>)>>,
        <<Raises(Throwing("DefaultConstructorThrowsStdException", <<>>, {}), <<>>)>>,
        <<Raises(ConstructorThrowsStdException, <<>>)>>,
        <<Raises(ConstructorThrowsStdException, <<Lua("number", "1")>>)>>}

\* construct.cpp: the calling lua_State is given to a parameter, after another.
ConstructsWithState ==
  LET acquired == Pulling("cpp_acquire_ptr", Of("LuaStateConstructors", "ptr"), [ok |-> TRUE])
  IN  {<<News(LuaStateConstructors, <<>>, 1), acquired>>,
       <<News(LuaStateConstructors, <<Lua("number", "1")>>, 2), acquired>>}

\* light_ud.cpp
LightConstructors ==
  {<<News(Class("LightUserDataConstructor", <<<<Param("light_p", Of(base, "ptr"))>>>>, No_default),
          <<Cpp(Of("void", "ptr"), "pointer")>>, 1)>> : base \in {"void", "InvalidStub"}}

\* enum_tests.cpp and scoped_enum/scoped_enum_c++11.cpp: only a number is an enum.
EnumConstructors ==
  LET Enums(base) == Class("Enums", <<Ctor(<<Of(base, "value")>>)>>, {})
  IN  {<<News(Enums(base), <<Lua("number", "GREEN")>>, 1)>> : base \in {"enum", "scoped_enum"}}
      \cup {<<News(Enums(base), <<>>, 0)>> : base \in {"enum", "scoped_enum"}}
      \cup {<<Raises(Enums("enum"), <<Lua(type, "other")>>)>> :
              type \in {"string", "nil", "table", "boolean", "function", "thread"}}

\* string_is_integral/string_as_integral.cpp
StringConstructors ==
  LET StringConstructorMock == Class("StringConstructorMock", <<Ctor(<<Of("string", "value")>>)>>, No_default)
  IN  {<<News(StringConstructorMock, <<Lua("string", "ctor buffer")>>, 1),
         Pulling("none", Of("StringConstructorMock", "ptr"), [ok |-> TRUE])>>,
       <<Raises(StringConstructorMock, <<Lua("number", "1")>>)>>}

ConstructorTestCases == ConstructsWith \cup ConstructFails \cup ConstructsWithState
  \cup LightConstructors \cup EnumConstructors \cup StringConstructors
=============================================================================
