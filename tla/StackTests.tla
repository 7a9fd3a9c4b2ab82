----------------------------- MODULE StackTests -----------------------------
(***************************************************************************)
(* The unit tests of what C++ does with the stack of a lua_State: calls of *)
(* Lua functions, chunks, tables and globals.  They run in a build which   *)
(* throws and in one which stores errors, of which each has tests of its   *)
(* own for a failure.                                                      *)
(***************************************************************************)
EXTENDS Integers, Sequences, TLC

VARIABLES build, cells, error, last

luaVars == <<build, cells, error, last>>

\* A string is a value like a number.
Lua_state == INSTANCE LuaStack
  WITH stack <- cells,
       Builds <- {[checks |-> TRUE, throws |-> throws, trace |-> FALSE] : throws \in BOOLEAN},
       Args <- {"number", "table", "function", "nil", "foreign table", "foreign function"},
       Keys <- [throws \in BOOLEAN |-> {"number"}],
       PullTypes <- {"number", "table", "function"},
       Tables <- {"none", "table"}, LuaFailures <- {"run", "syntax"},
       MaxStack <- 4, MaxParams <- 1, MaxResults <- 1, MaxEntries <- 5

Using(op, of, want) == [do |-> "stack", op |-> op, of |-> of, want |-> want]

\* What the function does which is called
Gives(values) == [result |-> "ok", values |-> values]
Raises_ == [result |-> "run", values |-> <<>>]

\* What the test looks at afterwards
Succeeds(count) == [returns |-> "true", count |-> count]
ReturnsFalse(count) == [returns |-> "false", count |-> count]
Failing(count) == [fails |-> TRUE, count |-> count]

StackView(f) ==
  CASE f = "returns" -> last.out
    [] f = "count"   -> Len(cells)
    [] f = "cells"   -> cells
    [] f = "got"     -> last.got
    [] f = "error"   -> ~build.throws /\ error # "none"
    [] f = "fails"   -> IF build.throws THEN last.out = "throw"
                        ELSE last.out = "false" /\ error # "none"

\* of: what the operation is given
StackStep(op, of) ==
  \/ op = "push" /\ Lua_state!Push(of[1])
  \/ op = "pull" /\ Lua_state!Pull(of[1])
  \/ op = "call ref" /\ Lua_state!CallRef(of[1], of[2], of[3])
  \/ op = "call name" /\ Lua_state!CallName(of[1], of[2], of[3])
  \/ op = "call index" /\ Lua_state!CallIndex(of[1], of[2], of[3])
  \/ op = "load" /\ Lua_state!Load(of[1])
  \/ op = "run" /\ Lua_state!Run(of[1], of[2])
  \/ op = "reset" /\ Lua_state!ResetError
  \/ op = "new_table" /\ Lua_state!NewTable
  \/ op = "at" /\ Lua_state!At("number", of[1])
  \/ op = "safe_at" /\ Lua_state!SafeAt("table", of[1], "number", of[2])
  \/ op = "set" /\ Lua_state!Set("table", "number", of[1])
  \/ op = "remove" /\ Lua_state!RemoveKey("table", "number")
  \/ op = "set_value" /\ Lua_state!SetValue(of[1], "number", "number")
  \/ op = "traverse" /\ Lua_state!Traverse("table", of[1])
  \/ op = "for_each_key_value" /\ Lua_state!Pairs("table", of[1])
  \/ op = "ipairs" /\ Lua_state!IPairs("table", of[1], <<"number">>)
  \/ op = "valid" /\ Lua_state!Valid(of[1])
  \/ op = "set_global" /\ Lua_state!SetGlobal(of[1])
  \/ op = "get_global" /\ Lua_state!GetGlobal(of[1], of[2])

\* The function on top, as a reference
Loaded_function == <<Using("load", <<"ok">>, Succeeds(1)), Using("pull", <<"function">>, Succeeds(0))>>

-----------------------------------------------------------------------------
\* lua_caller.cpp: a callee or a parameter which is none, or an error; what was on
\* the stack stays there.
CallerFails ==
  LET CallsRef(callee, params, ends, count) ==
        Using("call ref", <<callee, params, ends>>, Failing(count))
  IN  {<<CallsRef("foreign function", params, Gives(<<>>), 0)>> : params \in {<<>>, <<"number">>}}
      \cup {<<CallsRef("function", <<"foreign function">>, Gives(<<>>), 0)>>,
            Append(Loaded_function, CallsRef("function", <<>>, Raises_, 0)),
            Loaded_function \o <<Using("push", <<"nil">>, Succeeds(1)),
                                 CallsRef("function", <<>>, Raises_, 1)>>,
            <<Using("call name", <<"nil", <<>>, Gives(<<>>)>>, Failing(0))>>,
            <<Using("push", <<"nil">>, Succeeds(1)),
              Using("call index", <<1, <<>>, Gives(<<>>)>>, Failing(1))>>}

\* lua_caller.cpp: a function of a child state, a global one and those at an index
CallerSucceeds ==
  LET index == Using("call index", <<1, <<>>, Gives(<<>>)>>, <<>>)
      load == Using("load", <<"ok">>, <<>>)
  IN  {Append(Loaded_function, Using("call ref", <<"function", <<>>, Gives(<<>>)>>, Succeeds(0))),
       <<Using("run", <<"ok", Gives(<<>>)>>, Succeeds(0)),
         Using("call name", <<"function", <<>>, Gives(<<>>)>>, Succeeds(0))>>,
       <<load, [index EXCEPT !.want = Succeeds(1)]>>,
       <<load, Using("push", <<"function">>, <<>>),
         [index EXCEPT !.want = [cells |-> <<"function", "function">>] @@ Succeeds(2)]>>}

\* error_check.cpp: the last error is one, and none after it was reset.
LastError ==
  LET unknown == Using("call name", <<"nil", <<>>, Gives(<<>>)>>, Failing(0))
  IN  {<<Using("valid", <<"none">>, [error |-> FALSE])>>,
       <<unknown, Using("reset", <<>>, [error |-> FALSE, count |-> 0])>>,
       <<Using("run", <<"ok", Gives(<<>>)>>, Succeeds(0)),
         Using("call name", <<"function", <<>>, Raises_>>, Failing(0)),
         Using("call name", <<"function", <<>>, Raises_>>, Failing(0))>>,
       <<Using("run", <<"syntax", Raises_>>, Failing(0))>>}

\* error_check.cpp: no function is on the stack, and there is no file.
FunctionOrFileMissing ==
  {<<Using("pull", <<"function">>, Failing(0))>>,
   <<Using("push", <<"number">>, <<>>), Using("pull", <<"function">>, Failing(1))>>,
   <<Using("load", <<"file">>, Failing(0))>>,
   <<Using("run", <<"file", Raises_>>, Failing(0))>>}

\* lua_globals.cpp
Globals ==
  LET set == Using("set_global", <<"number">>, Succeeds(0))
  IN  {<<Using("set_global", <<"function">>, Succeeds(0)),
         Using("call name", <<"function", <<>>, Gives(<<"number">>)>>, Succeeds(1))>>,
       <<set, Using("call name", <<"function", <<>>, Gives(<<"number">>)>>, Succeeds(1)),
         Using("pull", <<"number">>, [got |-> TRUE])>>,
       <<set, Using("get_global", <<"number", "number">>, [got |-> TRUE] @@ Succeeds(0))>>,
       <<set, Using("set_global", <<"nil">>, Succeeds(0)),
         Using("get_global", <<"number", "nil">>, [fails |-> TRUE])>>,
       <<Using("set_global", <<"foreign function">>, Failing(0))>>}

-----------------------------------------------------------------------------
\* table.cpp: a table which a function returned has a value under the key, or not.
TableAccess ==
  LET table == <<Using("call name", <<"function", <<>>, Gives(<<"table">>)>>, Succeeds(1)),
                 Using("pull", <<"table">>, Succeeds(0))>>
      found == [got |-> TRUE] @@ Succeeds(0)
      missing == Using("safe_at", <<"number", "nil">>, ReturnsFalse(0))
  IN  {table \o <<Using("at", <<"number">>, found)>>,
       table \o <<missing>>,
       table \o <<Using("safe_at", <<"number", "number">>, found)>>,
       table \o <<Using("remove", <<>>, <<>>), missing>>,
       <<Using("new_table", <<>>, Succeeds(0)),
         Using("safe_at", <<"foreign table", "nil">>, ReturnsFalse(0))>>}

\* table.cpp: new tables are valid, and are written by index and by Lua.
TableValues ==
  LET new == Using("new_table", <<>>, Succeeds(0))
      at == Using("at", <<"number">>, [got |-> TRUE])
  IN  {<<new, Using("valid", <<"table">>, Succeeds(0))>>,
       <<Using("valid", <<"none">>, ReturnsFalse(0))>>,
       <<new, Using("push", <<"table">>, Succeeds(1)), Using("set_value", <<-1>>, Succeeds(1)), at>>,
       <<new, Using("run", <<"ok", Gives(<<>>)>>, Succeeds(0)),
         Using("call name", <<"function", <<"table">>, Gives(<<>>)>>, Succeeds(0)), at>>}

\* table.cpp: something is on the stack when a table is traversed.
TableTraversal ==
  LET filled(n) == <<Using("push", <<"number">>, Succeeds(1)), Using("new_table", <<>>, Succeeds(1))>>
                     \o [i \in 1..n |-> Using("set", <<"number">>, Succeeds(1))]
  IN  {filled(1) \o <<Using(op, <<1>>, Succeeds(1))>> : op \in {"traverse", "for_each_key_value"}}
      \cup {filled(n) \o <<Using("ipairs", <<n>>, Succeeds(1))>> : n \in {1, 5}}

StackTestCases == CallerFails \cup CallerSucceeds \cup LastError \cup FunctionOrFileMissing
  \cup Globals \cup TableAccess \cup TableValues \cup TableTraversal
=============================================================================
