------------------------------- MODULE Types -------------------------------
(***************************************************************************)
(* The compile time part of the library: what the templates decide from    *)
(* the C++ type of a parameter or of a return value and from the trait     *)
(* the DSL wraps it in.                                                    *)
(*                                                                         *)
(* A type is a name and the declarators after it, from the inside to the   *)
(* outside: Stub const*& is <<"const", "*", "&">> on Stub.  A partial      *)
(* specialisation is the declarators its pattern has after T, and the one  *)
(* with the most of them that fits is the most specialised.                *)
(***************************************************************************)
EXTENDS Integers, Sequences, SequencesExt, FiniteSets, Functions, TLC

CONSTANTS
  Proxied,          \* the classes which have a Proxy_class
  Derives,          \* <<derived, base>>
  StringIsIntegral  \* OOLUA_STD_STRING_IS_INTEGRAL

\* shared says of shared<base> whether it is one to a constant object.
Type(base, decl) == [base |-> base, shared |-> "no", decl |-> decl]

Declarators == {"const", "*", "&"}

CppType == [base : STRING, shared : {"no", "mutable", "const"}, decl : Seq(Declarators)]

calling_lua_state == Type("calling_lua_state", <<>>)

Integral == {"bool", "char", "int", "float"}
LuaRefs == {"Lua_table_ref", "Lua_func_ref"}

\* Only classes are proxied, and not those the library has for Lua's own.
Unproxied == Integral \cup LuaRefs \cup {"enum", "scoped", "void", "Table", "calling_lua_state"}

ASSUME TypesAssumption == /\ Proxied \cap Unproxied = {}
                          /\ Derives \subseteq Proxied \X Proxied
                          /\ StringIsIntegral \in BOOLEAN

\* What C++ lets follow: one pointer, as the library handles no more.
CanDeclare(t, d) ==
  /\ <<"&">> \notin Suffixes(t.decl)
  /\ d = "*" => ~Contains(t.decl, "*")
  /\ d = "const" => t.decl = <<>> \/ <<"*">> \in Suffixes(t.decl)

Declare(t, d) == [t EXCEPT !.decl = Append(@, d)]

-----------------------------------------------------------------------------
(* lvd_type_traits.h *)

\* The pattern of a template which fits t, out of those it is specialised for.
Longest(fits) == CHOOSE s \in fits : \A other \in fits : Len(other) <= Len(s)

Specialised(patterns, t) == Longest(patterns \cap Suffixes(t.decl))

Without(t, n) == [t EXCEPT !.decl = SubSeq(@, 1, Len(@) - n)]

\* What a specialisation typedefs: its declarators exchanged for others.
Exchanged(rules, t, s) == [t EXCEPT !.decl = SubSeq(@, 1, Len(@) - Len(s)) \o rules[s]]

Rewritten(rules, t) == Exchanged(rules, t, Specialised(DOMAIN rules, t))

\* Mutant: there is no specialisation for T* const&.
is_const_NoRefToConstPtr(t) ==
  Specialised({<<>>, <<"const">>, <<"const", "&">>, <<"const", "*">>, <<"*", "const">>,
               <<"const", "*", "const">>, <<"const", "*", "const", "&">>, <<"const", "*", "&">>}, t)
    \in {<<"const">>, <<"const", "&">>, <<"const", "*">>, <<"const", "*", "const">>,
         <<"const", "*", "const", "&">>, <<"const", "*", "&">>}

is_const(t) ==
  LET yes == {<<"const">>, <<"const", "&">>, <<"const", "*">>, <<"const", "*", "const">>,
              <<"const", "*", "const", "&">>, <<"const", "*", "&">>,
              <<"const", "*", "const", "*", "&">>}
      no == {<<>>, <<"*", "const">>, <<"*", "const", "&">>, <<"*", "const", "*", "&">>}
  IN  Specialised(yes \cup no, t) \in yes

is_ref(t) == <<"&">> \in Suffixes(t.decl)
is_ptr(t) == <<"*">> \in Suffixes(t.decl)

\* is_ref, is_ptr and the templates for references and pointers to and of const
by_reference(t) == is_ref(t) \/ is_ptr(t) \/ <<"*", "const">> \in Suffixes(t.decl)

remove_all_const(t) ==
  LET patterns == {<<>>, <<"const">>, <<"const", "&">>,
                   <<"const", "*">>, <<"const", "*", "const">>, <<"*", "const">>}
  IN  Rewritten([s \in patterns |-> CASE s \in {<<>>, <<"const">>} -> <<>>
                                      [] s = <<"const", "&">> -> <<"&">>
                                      [] OTHER -> <<"*">>], t)

remove_ref(t) == IF is_ref(t) THEN Without(t, 1) ELSE t

\* do_while of remove_ptr, for as long as is_ptr says so
remove_all_ptrs(t) ==
  LET more == {n \in 0 .. Len(t.decl) : \A i \in 0 .. n - 1 : t.decl[Len(t.decl) - i] = "*"}
  IN  Without(t, CHOOSE n \in more : \A other \in more : other <= n)

raw_type(t) == remove_all_ptrs(remove_all_const(remove_ref(t)))

Named(raw, names) == raw.shared = "no" /\ raw.decl = <<>> /\ raw.base \in names

is_integral_type(raw) == Named(raw, Integral)

\* double and float have overloads of their own in the test for int.
can_convert_to_int(raw) == Named(raw, (Integral \ {"float"}) \cup {"enum"})

has_a_proxy_type(raw) == Named(raw, Proxied)

is_class_type(raw) ==
  \/ raw.shared # "no"
  \/ Named(raw, Proxied \cup LuaRefs \cup {"string", "Table", "class", "calling_lua_state"})

-----------------------------------------------------------------------------
(* The properties of a type, in oolua_traits.h *)

is_integral_string_class(raw) ==
  StringIsIntegral /\ Named(raw, {"string"}) /\ ~has_a_proxy_type(raw)

is_lua_ref(raw) == Named(raw, LuaRefs)

\* The shared pointer class has no proxy, yet what it points to has one.
is_shared_type(raw) == raw.shared # "no" /\ raw.decl = <<>> /\ raw.base \in Proxied

is_shared_const(raw) == is_shared_type(raw) /\ raw.shared = "const"

is_scoped_enum(raw) ==
  ~is_class_type(raw) /\ ~can_convert_to_int(raw) /\ ~is_integral_type(raw) /\ raw.base # "void"

\* What is read and pushed as a number, or as a boolean.
IsNumber(raw) == is_integral_type(raw) \/ can_convert_to_int(raw) \/ is_scoped_enum(raw)

\* Lua has a value of its own for them: they are passed as integral types are.
is_false_integral(raw) ==
  \/ is_integral_string_class(raw) \/ is_lua_ref(raw) \/ Named(raw, {"Table"})
  \/ is_shared_type(raw) \/ is_scoped_enum(raw)

is_by_value(t) == ~by_reference(remove_all_const(t))

is_integral(raw) ==
  is_integral_type(raw) \/ (~has_a_proxy_type(raw) /\ can_convert_to_int(raw))

\* What every trait of t has from t itself
Type_enum_defaults(t, raw) ==
  [raw |-> raw, is_by_value |-> is_by_value(t), is_constant |-> is_const(t),
   is_integral |-> is_integral(raw)]

\* The templates are ill-formed for a void: void& is no type.
IsVoid(t) == t.shared = "no" /\ t.base = "void"

Pull_type(raw, integral) == IF integral THEN raw ELSE Declare(raw, "*")

Pull_type_(e, integral) ==
  IF integral THEN e.raw
  ELSE IF e.is_constant \/ e.is_by_value THEN [e.raw EXCEPT !.decl = @ \o <<"const", "*">>]
  ELSE Declare(e.raw, "*")

ref_to_const_ptr(t) == <<"*", "const", "&">> \in Suffixes(t.decl)
ref_to_ptr_const(t) == <<"const", "*", "&">> \in Suffixes(t.decl)

JustRef(t) == t.decl = <<"&">>
JustConstRef(t) == t.decl = <<"const", "&">>
JustPtr(t) == t.decl = <<"*">>
RefToPtr(t) == t.decl \in {<<"*", "&">>, <<"*", "const", "&">>,
                           <<"const", "*", "&">>, <<"const", "*", "const", "&">>}

-----------------------------------------------------------------------------
(* The traits.  legal says that every array in the struct has a positive   *)
(* size: a trait which is not legal does not compile.                      *)

Traits == {"in_p", "in_out_p", "out_p", "cpp_in_p", "lua_out_p", "light_p",
           "function_return", "lua_return", "maybe_null", "maybe_null_lua_return",
           "maybe_null_shared_return", "shared_return", "light_return",
           "cpp_acquire_ptr", "lua_acquire_ptr"}

\* t is the type, and e its Type_enum_defaults
Trait(pull, in, out, owner, e, constant, integral, legal) ==
  [raw |-> e.raw, pull |-> pull, in |-> in, out |-> out, owner |-> owner,
   by_value |-> e.is_by_value, constant |-> constant, integral |-> integral, legal |-> legal]

\* in_p<char*>, in_p<char const*> and in_p<char const*&>
IsCString(t) ==
  \E decl \in {<<"*">>, <<"const", "*">>, <<"const", "*", "&">>} : t = Type("char", decl)

in_p(t, e) ==
  LET integral == e.is_integral \/ is_false_integral(e.raw)
  IN  IF t = calling_lua_state
      THEN [Trait(t, 1, 0, "No_change", e, FALSE, TRUE, TRUE) EXCEPT !.by_value = FALSE]
      ELSE IF IsCString(t)
      THEN [Trait(Type("char", <<"const", "*">>), 1, 0, "No_change", e, e.is_constant, TRUE, TRUE)
              EXCEPT !.raw = Type("char", <<"*">>)]
      ELSE Trait(Pull_type_(e, integral), 1, 0, "No_change", e,
                 e.is_constant \/ is_shared_const(e.raw), integral,
                 t # Type("char", <<"*", "&">>))

in_out_p(e) ==
  Trait(Pull_type(e.raw, is_integral_type(e.raw) \/ is_false_integral(e.raw)),
        1, 1, "No_change", e, e.is_constant, e.is_integral \/ is_false_integral(e.raw),
        ~e.is_by_value)

\* OOLua creates the object, and Lua owns it when it is one.
out_p(e) ==
  LET integral == e.is_integral \/ is_false_integral(e.raw)
  IN  [Trait(e.raw, 0, 1, IF integral THEN "No_change" ELSE "Lua",
             e, e.is_constant, integral, ~e.is_by_value) EXCEPT !.by_value = TRUE]

cpp_in_p(t, e) ==
  Trait(Pull_type(e.raw, is_integral_type(e.raw)), 1, 0, "Cpp", e, e.is_constant, e.is_integral,
        ~e.is_by_value /\ ~e.is_integral /\ ~JustRef(t) /\ ~JustConstRef(t))

lua_out_p(t, e) ==
  Trait(Pull_type_(e, is_integral_type(e.raw)), 0, 1, "Lua", e, e.is_constant, e.is_integral,
        /\ ~e.is_by_value /\ ~e.is_integral
        /\ ~((e.is_constant /\ ~ref_to_ptr_const(t)) \/ ref_to_const_ptr(t))
        /\ ~JustRef(t) /\ ~JustPtr(t))

lua_return(t, e) ==
  Trait(Pull_type_(e, is_integral_type(e.raw)), 0, 1, "Lua", e, e.is_constant, e.is_integral,
        ~e.is_by_value /\ ~e.is_integral /\ ~JustRef(t) /\ ~JustConstRef(t))

\* The default of a return value; nothing of it is checked.
function_return(t, e) ==
  Trait(Pull_type(e.raw, is_integral_type(e.raw) \/ is_false_integral(e.raw)),
        0, IF IsVoid(t) THEN 0 ELSE 1, "No_change", e, e.is_constant,
        e.is_integral \/ is_false_integral(e.raw), TRUE)

maybe_null(t, e) ==
  LET shared == t.decl = <<>> /\ is_shared_type(t)
  IN  Trait(Pull_type_(e, is_integral_type(e.raw) \/ shared), 0, 1, "No_change",
            e, e.is_constant \/ is_shared_const(e.raw), e.is_integral \/ shared,
            /\ ~e.is_integral
            /\ ~shared => ~e.is_by_value /\ ~JustRef(t) /\ ~JustConstRef(t)
            /\ ~RefToPtr(t))

shared_return(t, e) ==
  [Trait(Type("void", <<>>), 0, 1, "No_change", e, e.is_constant, TRUE,
         /\ ~e.is_integral /\ ~e.is_by_value /\ ~JustRef(t) /\ ~JustConstRef(t)
         /\ has_a_proxy_type(e.raw))
     EXCEPT !.by_value = FALSE]

cpp_acquire_ptr(t, e) ==
  Trait(Pull_type_(e, is_integral_type(e.raw)), 1, 0, "Cpp", e, e.is_constant, e.is_integral,
        ~e.is_integral /\ ~e.is_by_value /\ ~JustRef(t))

lua_acquire_ptr(t, e) == [cpp_acquire_ptr(t, e) EXCEPT !.in = 0, !.out = 1, !.owner = "Lua"]

\* light_p and light_return: a pointer of any type, as a void*.
light(t, in) ==
  [raw |-> Type("void", <<"*">>), pull |-> Type("void", <<"*">>), in |-> in, out |-> 1 - in,
   owner |-> "No_change", by_value |-> FALSE, constant |-> FALSE, integral |-> TRUE, legal |-> TRUE]

\* maybe_null of lua_return and of shared_return: theirs, and no reference.
MaybeNull(return_trait, t) == [return_trait EXCEPT !.legal = @ /\ ~RefToPtr(t)]

TraitFor(trait, t, e) ==
  CASE trait = "in_p" -> in_p(t, e)          [] trait = "in_out_p" -> in_out_p(e)
    [] trait = "out_p" -> out_p(e)           [] trait = "cpp_in_p" -> cpp_in_p(t, e)
    [] trait = "lua_out_p" -> lua_out_p(t, e)
    [] trait = "light_p" -> light(t, 1)
    [] trait = "function_return" -> function_return(t, e)
    [] trait = "lua_return" -> lua_return(t, e)
    [] trait = "maybe_null" -> maybe_null(t, e)
    [] trait = "maybe_null_lua_return" -> MaybeNull(lua_return(t, e), t)
    [] trait = "maybe_null_shared_return" -> MaybeNull(shared_return(t, e), t)
    [] trait = "shared_return" -> shared_return(t, e)
    [] trait = "light_return" -> light(t, 0)
    [] trait = "cpp_acquire_ptr" -> cpp_acquire_ptr(t, e)
    [] trait = "lua_acquire_ptr" -> lua_acquire_ptr(t, e)

TraitOf(trait, t) == TraitFor(trait, t, Type_enum_defaults(t, raw_type(t)))

\* A parameter or a return value of the DSL compiles.
Compiles(trait, t) ==
  /\ IsVoid(t) => \/ trait \in {"light_p", "light_return"}
                  \/ trait = "function_return" /\ t.decl = <<>>
  /\ TraitOf(trait, t).legal
=============================================================================
