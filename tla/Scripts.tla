------------------------------ MODULE Scripts ------------------------------
(***************************************************************************)
(* What the unit tests do, one step after the other: a chunk calls a       *)
(* proxied function, a constructor or set_owner with arguments of the      *)
(* test, and the test pushes variables and pulls others.  Some steps only  *)
(* ask the compiler.                                                       *)
(*                                                                         *)
(* A Lua value of a test has an id: two are of the same instance, or equal *)
(* numbers or strings, when their ids are.  What a test asserts of a step  *)
(* is in want, a record of the things which it looks at:                   *)
(*   ok       the step raised no error, threw nothing, returned true       *)
(*   given    the ids of what C++ got, in order                            *)
(*   grown    how many values the stack has got                            *)
(*   by       the constructor which was called                             *)
(*   kept     which of the arguments are Lua's to delete afterwards        *)
(*   pull, owner, yes     what the compiler says                           *)
(*   top, below           some fields of the last two values on the stack  *)
(***************************************************************************)
EXTENDS Results

Param(trait, type) == [trait |-> trait, type |-> type]
In(type) == Param("in_p", type)

\* The functions of the classes in cpp_function_params.h and
\* cpp_function_returns.h are named after the type of the parameter or return.
DeclaredAs ==
  [value |-> <<>>, constant |-> <<"const">>, ref |-> <<"&">>, refConst |-> <<"const", "&">>,
   ptr |-> <<"*">>, ptrConst |-> <<"const", "*">>, constPtr |-> <<"*", "const">>,
   constPtrConst |-> <<"const", "*", "const">>, refPtr |-> <<"*", "&">>,
   refPtrConst |-> <<"const", "*", "&">>, refConstPtr |-> <<"*", "const", "&">>,
   refConstPtrConst |-> <<"const", "*", "const", "&">>]

Of(base, name) == Type(base, DeclaredAs[name])

nothing == Param("function_return", Type("void", <<>>))

\* A value of a script, and what push makes of a C++ variable.
Lua(type, id) == Value(type) @@ [gc |-> FALSE, id |-> id]
Cpp(type, id) == push(type) @@ [id |-> id]

Nil == Lua("nil", "none")

\* back: the ids of what the function returns and leaves in out parameters, which
\* is "null" for no pointer.
Calling(ret, params, args, back, want) ==
  [do |-> "call", ret |-> ret, params |-> params, args |-> args, back |-> back, want |-> want]

\* object:method(argument), where the parameter has a trait
Taking(trait, type, arg, want) == Calling(nothing, <<Param(trait, type)>>, <<arg>>, <<>>, want)

\* A class with a block of constructors, which may be tagged and may throw.
Class(name, block, tags) == [name |-> name, block |-> block, tags |-> tags, throws |-> FALSE]
Throwing(name, block, tags) == [Class(name, block, tags) EXCEPT !.throws = TRUE]

\* class.new(args)
Constructing(class, args, want) ==
  [do |-> "new", class |-> class, args |-> args, want |-> want]

\* trait is lua_acquire_ptr or none
Pushing(trait, type, id, want) ==
  [do |-> "push", trait |-> trait, type |-> type, id |-> id, want |-> want]

\* trait is cpp_acquire_ptr or none
Pulling(trait, type, want) == [do |-> "pull", trait |-> trait, type |-> type, want |-> want]

\* The variable gets the value, or instance, with the id.
Pulled(type, id) == Pulling("none", type, [ok |-> TRUE, given |-> <<id>>])

\* A chunk, or the test through the API of Lua, leaves the value on the stack.
Leaving(value, want) == [do |-> "leave", value |-> value, want |-> want]

\* object:set_owner(owner) of what is on top of the stack
Owning(tags, owner, want) == [do |-> "own", tags |-> tags, owner |-> owner, want |-> want]

Compiling(trait, type, want) == [do |-> "compile", trait |-> trait, type |-> type, want |-> want]

\* The member value of a template of the type traits
Asking(of, type, yes) == [do |-> "ask", of |-> of, type |-> type, want |-> [yes |-> yes]]

-----------------------------------------------------------------------------
(* OOLUA_MEMBER_BODY_N and OOLUA_C_FUNCTION: a call, without what has to   *)
(* do with self.                                                           *)

IsState(p) == p = In(calling_lua_state)

\* It is in the list of arguments.
Listed(p) == TraitOf(p.trait, p.type).in = 1 /\ ~IsState(p)

Listing(params, i) == Cardinality({j \in 1 .. i : Listed(params[j])})

\* Missing arguments are of no type.
ArgumentOf(params, args, i) ==
  LET at == Listing(params, i)
  IN  IF at \in DOMAIN args THEN args[at] ELSE Lua("none", "none")

Proxied_function(ret, params) ==
  /\ Returnable(ret.trait, ret.type)
  /\ \A i \in DOMAIN params :
       LET p == params[i]
       IN  /\ Compiles(p.trait, p.type)
           /\ Listed(p) => ReaderOf(p.trait, p.type) # "none"
           /\ ~IsState(p) => Cardinality(Conversions(p.trait, p.type)) = 1
           /\ p.trait \in OutTraits => Pushed(p.trait, p.type).type # "none"

Accepted(params, args) ==
  \A i \in DOMAIN params :
    Listed(params[i]) => Reads(params[i].trait, params[i].type, ArgumentOf(params, args, i))

\* What a parameter is given when nil has been read: a reference which is not
\* valid.  An out parameter is a new object or value.
Given(params, args) ==
  [i \in DOMAIN params |->
     CASE IsState(params[i]) -> "state"
       [] Listed(params[i]) -> ArgumentOf(params, args, i).id
       [] OTHER -> "new"]

\* The return value, and then the out parameters.
Outs(ret, params) ==
  (IF IsVoid(ret.type) /\ ret.trait = "function_return" THEN <<>> ELSE <<ret>>)
    \o SelectSeq(params, LAMBDA p : p.trait \in OutTraits)

\* A copy is a new object, of which the test does not know the address.
Known(made, id) ==
  made @@ [id |-> IF made.of \in {"value", "instance"} THEN id ELSE made.of]

Backs(ret, params, back) ==
  LET outs == Outs(ret, params)
  IN  [i \in DOMAIN outs |->
         IF back[i] = "null" THEN PushedNull(outs[i].trait) @@ [id |-> "none"]
         ELSE Known(Pushed(outs[i].trait, outs[i].type), back[i])]

-----------------------------------------------------------------------------
(* Userdata of the same instance are one, as PointerCache has it.          *)

SameUserdata(v, w) ==
  /\ v.type = "userdata" /\ w.type = "userdata" /\ v.id = w.id
  /\ v.class = w.class \/ <<v.class, w.class>> \in Derives \/ <<w.class, v.class>> \in Derives

\* What becomes of the userdata v when a pointer to its instance is pushed as w:
\* it is of the class which is derived, and constant if it only ever was that.
Merged(v, w) ==
  [v EXCEPT !.class = IF <<w.class, @>> \in Derives THEN w.class ELSE @,
            !.const = @ /\ w.const,
            !.gc = @ \/ w.gc]

\* The stack with a further value
Put(stack, w) ==
  LET known == {i \in DOMAIN stack : SameUserdata(stack[i], w)}
      top == IF known = {} THEN w ELSE Merged(stack[CHOOSE i \in known : TRUE], w)
  IN  Append([i \in DOMAIN stack |-> IF i \in known THEN Merged(stack[i], w) ELSE stack[i]], top)

SetGc(stack, v, gc) ==
  [i \in DOMAIN stack |->
     IF SameUserdata(stack[i], v) THEN [stack[i] EXCEPT !.gc = gc] ELSE stack[i]]

\* A parameter which takes the instance away from Lua
Takes(params, args, i) ==
  \E p \in DOMAIN params : params[p].trait = "cpp_in_p" /\ Listing(params, p) = i

Kept(params, args) == [i \in DOMAIN args |-> args[i].gc /\ ~Takes(params, args, i)]

-----------------------------------------------------------------------------
(* oolua_pull.h: pull from the top of the stack *)

\* An overload or a pull_ptr for the type
Pulls(t, v) ==
  CASE IsPointer(t) /\ t.base = "void" -> v.type = "light"
    [] IsPointer(t) -> CheckIndex(v, t.base, ~is_const(t))
    [] t.shared # "no" -> v.type = "userdata" /\ v.shared /\ CheckIndex(v, t.base, t.shared # "const")
    [] Named(t, {"bool"}) -> v.type = "boolean"
    \* double and float have overloads which look at the type itself
    [] Named(t, {"float"}) -> v.type = "number"
    [] is_integral_string_class(t) -> v.type \in {"string", "numeric string"}
    [] Named(t, {"Table", "Lua_table_ref"}) -> v.type \in {"table", "nil"}
    [] Named(t, {"Lua_func_ref"}) -> v.type \in {"function", "nil"}
    [] OTHER -> v.type \in {"number", "numeric string"}

\* The value stays on the stack when it is a light userdata, or nil which is
\* pulled into a reference.
Pops(t, v) == ~(v.type \in {"light", "nil"})
=============================================================================
