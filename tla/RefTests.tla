------------------------------ MODULE RefTests ------------------------------
(***************************************************************************)
(* The unit tests of references: two of them, in a Script, in a child      *)
(* state of it and in another Script.                                      *)
(***************************************************************************)
EXTENDS Integers, FiniteSets

VARIABLES states, registries, refs

refVars == <<states, registries, refs>>

Lua_refs == INSTANCE LuaRef
  WITH alive <- states, registry <- registries, inst <- refs,
       Universe <- {"m_lua", "other"}, State <- {"m_lua", "child", "other"},
       UniverseOf <- [m_lua |-> "m_lua", child |-> "m_lua", other |-> "other"],
       Mortal <- {}, Inst <- {"lhs", "rhs"}, Ref <- 1..3,
       Value <- {"f", "g"}, TypeOf <- [f |-> "function", g |-> "function"], ID <- "function",
       NULL <- "NULL", NOREF <- -2, REFNIL <- -1, FREE <- "free", NIL <- "nil"

Referring(op, of, want) == [do |-> "ref", op |-> op, of |-> of, want |-> want]

RefView(f) ==
  CASE f = "valid"  -> {x \in {"lhs", "rhs"} : Lua_refs!valid(x)}
    [] f = "state"  -> refs["lhs"].lua
    [] f = "states" -> {refs[x].lua : x \in {"lhs", "rhs"}}
    [] f = "ref"    -> refs["lhs"].ref
    [] f = "value"  -> Lua_refs!push("lhs", "m_lua")
    [] f = "equal"  -> Lua_refs!equal("lhs", "rhs")
    [] f = "used"   -> Cardinality({r \in 1..3 : registries["m_lua"][r] # "free"})
    [] f = "xmove"  -> {s \in {"m_lua", "child", "other"} : Lua_refs!can_xmove("m_lua", s)}

\* of: what the operation is given
RefStep(op, of) ==
  \/ op = "construct" /\ Lua_refs!Construct(of[1], of[2])
  \/ op = "set_ref" /\ Lua_refs!SetRef(of[1], of[2], of[3])
  \/ op = "pull" /\ Lua_refs!Pull(of[1], of[2], of[3])
  \/ op = "copy" /\ Lua_refs!CopyFrom(of[1], of[2])
  \/ op = "swap" /\ Lua_refs!Swap("lhs", "rhs")
  \/ op = "release" /\ Lua_refs!Destroy(of[1])
  \/ op = "set_table" /\ Lua_refs!SetTable(of[1], of[2])
  \* the state it is bound to already is left alone
  \/ op = "bind" /\ IF refs[of[1]].lua = of[2] THEN UNCHANGED refVars
                    ELSE Lua_refs!BindScript(of[1], of[2])

Filled(x) == Referring("pull", <<x, "m_lua", "f">>, [used |-> 1])
Referred(x, s, v) == Referring("set_ref", <<x, s, v>>, <<>>)

-----------------------------------------------------------------------------
\* lua_reference.cpp: what a constructor stores, and when it is valid
RefConstructors ==
  {<<Referring("construct", <<"lhs", "m_lua">>, [valid |-> {}, state |-> "m_lua", ref |-> -2])>>,
   <<Referring("copy", <<"lhs", "rhs">>, [valid |-> {}, state |-> "NULL", ref |-> -2])>>,
   <<Referring("set_ref", <<"lhs", "m_lua", "nil">>, [valid |-> {}])>>,
   <<Referring("set_ref", <<"lhs", "m_lua", "f">>, [valid |-> {"lhs"}])>>,
   <<Filled("rhs"), Referring("copy", <<"lhs", "rhs">>,
       [state |-> "m_lua", value |-> {"f"}, used |-> 2, equal |-> {TRUE}])>>}

\* lua_reference.cpp: release, swap and assignment
RefChanges ==
  {<<Filled("lhs"), Referring("release", <<"lhs">>, [used |-> 0])>>,
   <<Filled("rhs"), Referring("swap", <<>>, [state |-> "m_lua", value |-> {"f"}, valid |-> {"lhs"},
                                             states |-> {"m_lua", "NULL"}, used |-> 1])>>,
   <<Filled("lhs"), Referring("copy", <<"lhs", "lhs">>, [value |-> {"f"}])>>,
   <<Referred("lhs", "m_lua", "f"), Referring("copy", <<"lhs", "rhs">>, [used |-> 0])>>,
   <<Referred("rhs", "m_lua", "f"), Referring("copy", <<"lhs", "rhs">>, [value |-> {"f"}])>>}

\* lua_reference.cpp: equality
RefEquality ==
  LET After(s, v, equal) == <<Referred("lhs", "m_lua", "f"),
                              Referring("set_ref", <<"rhs", s, v>>, [equal |-> {equal}])>>
  IN  {<<Referring("copy", <<"lhs", "rhs">>, [equal |-> {TRUE}])>>,
       <<Referring("set_ref", <<"rhs", "m_lua", "f">>, [equal |-> {FALSE}])>>,
       <<Referring("set_ref", <<"lhs", "m_lua", "f">>, [equal |-> {FALSE}])>>,
       <<Referred("rhs", "m_lua", "f"), Referring("copy", <<"lhs", "rhs">>, [equal |-> {TRUE}])>>,
       After("m_lua", "g", FALSE), After("child", "g", FALSE),
       After("child", "f", TRUE), After("other", "g", FALSE)}

\* error_check.cpp: can_xmove
CanXmove == {<<Referring("construct", <<"lhs", "m_lua">>, [xmove |-> {"child"}])>>}

\* table.cpp: a Table is valid once it is bound to a state and a name of it.
TableIsValid ==
  LET bound == Referring("bind", <<"lhs", "m_lua">>, [valid |-> {}])
  IN  {<<bound, Referring("set_table", <<"lhs", v>>, [valid |-> IF v = "nil" THEN {} ELSE {"lhs"}])>> :
         v \in {"f", "nil"}}

\* table.cpp: copies of tables, and a Table which is bound again
TableReferences ==
  {<<Filled("lhs"), Referring("copy", <<"rhs", "lhs">>, [valid |-> {"lhs", "rhs"}])>>,
   <<Filled("lhs"), Referring("bind", <<"lhs", "other">>, [valid |-> {}])>>,
   <<Filled("lhs"), Referring("bind", <<"lhs", "m_lua">>, [valid |-> {"lhs"}])>>,
   <<Filled("lhs"), Referring("copy", <<"lhs", "lhs">>, [value |-> {"f"}, valid |-> {"lhs"}])>>}

RefTestCases == RefConstructors \cup RefChanges \cup RefEquality \cup CanXmove
  \cup TableIsValid \cup TableReferences
=============================================================================
