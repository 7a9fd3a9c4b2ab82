------------------------------ MODULE Results ------------------------------
(***************************************************************************)
(* What becomes of a C++ value on its way to Lua: what the public push     *)
(* makes of a variable of some type, and what a proxy makes of what its    *)
(* function returned, or left in a parameter.                              *)
(***************************************************************************)
EXTENDS Converters

CONSTANT
  SharedClasses   \* those whose new_pointer is a shared pointer

ASSUME ResultsAssumption == SharedClasses \subseteq Proxied

ReturnTraits == {"function_return", "lua_return", "maybe_null", "maybe_null_lua_return",
                 "maybe_null_shared_return", "shared_return", "light_return"}
OutTraits == {"in_out_p", "out_p", "lua_out_p"}

\* What is pushed, and what it is of: a value, the instance the C++ value
\* designates, a new copy of it, or the C++ variable it was in.
PushedAs(v, of, gc) == [type |-> v.type, class |-> v.class, const |-> v.const, shared |-> v.shared,
                        of |-> of, gc |-> gc]
Plainly(type) == PushedAs(Value(type), "value", FALSE)
Object(class, const, shared, of, gc) == PushedAs(Userdata(class, const, shared), of, gc)

\* What the library makes an object of a class for, and gives to Lua.
NewObject(class, of) == Object(class, FALSE, class \in SharedClasses, of, TRUE)

\* There is no overload: the proxy does not compile.
Unpushable == Plainly("none")

-----------------------------------------------------------------------------
(* oolua_push.h and oolua_push.cpp                                         *)

IsPointer(t) == is_ptr(t) \/ <<"*", "const">> \in Suffixes(t.decl)

Pointee(t) == Without(t, IF is_ptr(t) THEN 1 ELSE 2)

\* push of a value
push_basic_type_(raw) ==
  CASE Named(raw, {"bool"}) -> Plainly("boolean")
    [] raw.shared # "no" -> Object(raw.base, raw.shared = "const", TRUE, "instance", TRUE)
    [] is_integral_string_class(raw) -> Plainly("string")
    [] Named(raw, {"Table", "Lua_table_ref"}) -> Plainly("table")
    [] Named(raw, {"Lua_func_ref"}) -> Plainly("function")
    [] IsNumber(raw) /\ ~Named(raw, {"bool"}) -> Plainly("number")
    [] OTHER -> Unpushable

push_basic_type(t) == push_basic_type_(remove_all_const(t))

\* Mutant: every pointer is one to an instance scripts may change.
push_pointer_IgnoresConst(raw, t, of, owner) ==
  IF has_a_proxy_type(raw) THEN Object(raw.base, FALSE, FALSE, of, owner = "Lua") ELSE Unpushable

\* push_pointer_which_has_a_proxy_class<raw>, of a pointer to t no userdata was of
push_pointer(raw, t, of, owner) ==
  IF has_a_proxy_type(raw) THEN Object(raw.base, is_const(t), FALSE, of, owner = "Lua")
  ELSE Unpushable

\* A pointer to an integral type is followed, and one to char is a string.
push_ptr(t, integral, owner) ==
  IF t \in {Type("char", <<>>), Type("char", <<"const">>)} THEN Plainly("string")
  ELSE IF integral THEN push_basic_type(t)
  ELSE push_pointer(raw_type(t), t, "instance", owner)

\* OOLUA::push of a variable
push(t) ==
  IF t = Type("void", <<"*">>) THEN Plainly("light")
  ELSE IF IsPointer(t) THEN push_ptr(Pointee(t), is_integral_type(Pointee(t)), "No_change")
  ELSE push_basic_type(t)

\* push of a lua_acquire_ptr<t>: the instance is Lua's from now on.
push_acquire(t) == push_pointer(raw_type(t), Pointee(t), "instance", "Lua")

-----------------------------------------------------------------------------
(* proxy_stack_helper.h *)

\* A value is copied; anything else is taken for the instance itself.
proxy_maybe_by_ref(tr, t, owner) ==
  IF tr.by_value THEN NewObject(raw_type(t).base, "copy")
  ELSE push_pointer(raw_type(t), t, IF IsPointer(t) THEN "variable" ELSE "instance", owner)

\* Proxy_stack_helper<traits, owner>::push of a variable of type t: only the one
\* for No_change has an overload for a pointer which is itself constant.
Proxy_stack_helper(tr, t) ==
  IF tr.owner = "No_change"
  THEN CASE IsPointer(t) -> push_ptr(Pointee(t), is_integral(raw_type(Pointee(t))), "No_change")
         [] ~IsPointer(t) /\ tr.integral -> push_basic_type(t)
         [] OTHER -> proxy_maybe_by_ref(tr, t, "No_change")
  ELSE IF is_ptr(t) THEN push_pointer(raw_type(t), Pointee(t), "instance", "Lua")
  ELSE proxy_maybe_by_ref(tr, t, "Lua")

\* The variable: one of the type that is returned, or the one that was pulled.
Variable(trait, t) ==
  IF trait \in OutTraits THEN TraitOf(trait, t).pull ELSE remove_ref(t)

\* shared_return makes a shared pointer of the one which was returned.
Pushed(trait, t) ==
  CASE trait = "light_return" -> Plainly("light")
    [] trait \in {"shared_return", "maybe_null_shared_return"} ->
         IF is_ptr(t) THEN Object(raw_type(t).base, is_const(Pointee(t)), TRUE, "instance", TRUE)
         ELSE Unpushable
    [] trait = "maybe_null" -> Proxy_stack_helper(TraitOf("function_return", t), remove_ref(t))
    [] OTHER -> Proxy_stack_helper(TraitOf(trait, t), Variable(trait, t))

MaybeNullTraits == {"maybe_null", "maybe_null_lua_return", "maybe_null_shared_return"}

\* With no pointer there is only nil for Lua.
PushedNull(trait) == IF trait \in MaybeNullTraits THEN Plainly("nil") ELSE Unpushable

\* A function can be proxied when it returns the type or has it as a parameter.
Returnable(trait, t) ==
  /\ Compiles(trait, t)
  /\ ~IsVoid(t) => Pushed(trait, t).type # "none"
=============================================================================
