----------------------------- MODULE Converters -----------------------------
(***************************************************************************)
(* What becomes of a Lua value on its way to a C++ parameter: it is read   *)
(* from the stack as the pull type of the trait, and converted to the      *)
(* type of the parameter.  A constructor tests beforehand whether the      *)
(* value is of the type.                                                   *)
(***************************************************************************)
EXTENDS Types

\* A value of Lua: a userdata has a class, and may be constant or shared.
Value(type) == [type |-> type, class |-> "none", const |-> FALSE, shared |-> FALSE]
Userdata(class, const, shared) ==
  [type |-> "userdata", class |-> class, const |-> const, shared |-> shared]

\* What is no userdata is neither of a class nor constant.
LuaValue == {v \in [type : STRING, class : STRING, const : BOOLEAN, shared : BOOLEAN] :
               v.type # "userdata" => v = Value(v.type)}

\* "numeric string" is a string which lua_isnumber takes for a number.
PlainValues == {Value(t) : t \in {"nil", "boolean", "number", "string", "numeric string",
                                  "table", "function", "thread", "light", "alien userdata"}}

-----------------------------------------------------------------------------
(* type_converters.h                                                       *)

\* Converter<pull, real>: the declarators both have after T, and how much is
\* between what was pulled and what is passed.
Converter ==
  LET c == "const"  p == "*"  r == "&"
      Case(pull, real, passes) == [pull |-> pull, real |-> real, passes |-> passes]
  IN  {Case(<<p>>, <<r>>, "object"),            Case(<<p>>, <<>>, "object"),
       Case(<<c, p>>, <<>>, "object"),          Case(<<>>, <<p>>, "address"),
       Case(<<p>>, <<p, r>>, "same"),           Case(<<p>>, <<c, r>>, "object"),
       Case(<<p>>, <<c, p, r>>, "same"),        Case(<<p>>, <<c, p>>, "same"),
       Case(<<>>, <<p, c, r>>, "address"),      Case(<<>>, <<c, p, r>>, "address"),
       Case(<<>>, <<c, p, c, r>>, "address"),   Case(<<p>>, <<p, c, r>>, "same"),
       Case(<<p>>, <<c, p, c, r>>, "same"),     Case(<<p>>, <<c, p, c>>, "same"),
       Case(<<p>>, <<p>>, "same"),              Case(<<>>, <<>>, "same"),
       Case(<<>>, <<r>>, "same"),               Case(<<>>, <<p, r>>, "address"),
       Case(<<>>, <<c, r>>, "same"),            Case(<<p>>, <<p, c>>, "same"),
       Case(<<c, p>>, <<c, p, r>>, "same"),     Case(<<>>, <<c>>, "same"),
       Case(<<>>, <<c, p>>, "address"),         Case(<<>>, <<c, p, c>>, "address")}

\* Those whose patterns fit: both leave the same T.  One whose T cannot be by
\* reference does not compile when it is.
ConvertersFor(pull, real) ==
  {k \in Converter :
     /\ k.pull \in Suffixes(pull.decl) /\ k.real \in Suffixes(real.decl)
     /\ Without(pull, Len(k.pull)) = Without(real, Len(k.real))}

\* Partial ordering: more is k with some of its T spelled out.
MoreSpecialised(more, k) ==
  \E n \in 0 .. Len(more.pull) :
    /\ SubSeq(more.pull, n + 1, Len(more.pull)) = k.pull
    /\ n <= Len(more.real)
    /\ SubSeq(more.real, n + 1, Len(more.real)) = k.real
    /\ SubSeq(more.pull, 1, n) = SubSeq(more.real, 1, n)

\* The one the compiler takes, if there is exactly one.
BestConverters(pull, real) ==
  LET fits == ConvertersFor(pull, real)
  IN  {k \in fits : \A other \in fits : MoreSpecialised(k, other)}

\* A C string to a char*, and a void* to anything, have converters of their own.
Conversions(trait, t) ==
  LET pull == TraitOf(trait, t).pull
  IN  IF IsVoid(pull) \/ (pull = Type("char", <<"const", "*">>) /\ t.decl = <<"*">>)
      THEN {"same"}
      ELSE {k.passes : k \in BestConverters(pull, t)}

-----------------------------------------------------------------------------
(* stack_get.h and stack_get.cpp: how a pull type is read                  *)

\* The overload of LUA_CALLED::get for the pull type: "none" does not compile,
\* or, for a pointer to an integral type, writes through a null pointer.
Reader(pull) ==
  IF pull.decl # <<>>
  THEN CASE pull = Type("void", <<"*">>)                     -> "light"
         [] pull = Type("char", <<"const", "*">>)            -> "cstring"
         [] Named([pull EXCEPT !.decl = <<>>], Proxied)      -> "class"
         [] OTHER                                            -> "none"
  ELSE CASE pull = calling_lua_state                         -> "state"
         [] pull.shared # "no"                               -> "shared"
         [] Named(pull, {"bool"})                            -> "bool"
         [] IsNumber(pull) /\ ~Named(pull, {"bool"})         -> "number"
         [] is_integral_string_class(pull)                   -> "string"
         [] is_lua_ref(pull) \/ Named(pull, {"Table"})       -> pull.base
         [] OTHER                                            -> "none"

ReaderOf(trait, t) == Reader(TraitOf(trait, t).pull)

IsA(v, class) == v.type = "userdata" /\ (v.class = class \/ <<v.class, class>> \in Derives)

\* check_index, or check_index_no_const when the parameter may change the object.
CheckIndex(v, class, mayChange) == IsA(v, class) /\ ~(mayChange /\ v.const)

\* The constness which counts is that of the pull type, or of a cpp_in_p its own.
MayChange(trait, t) ==
  IF trait = "cpp_in_p" THEN ~is_const(t)
  ELSE ~is_const(TraitOf(trait, t).pull)

\* With runtime checks, whether an overload of get raises no error for the value.
Accepts(reader, raw, mayChange, v) ==
  CASE reader = "state"   -> TRUE
    [] reader = "light"   -> v.type = "light"
    [] reader = "bool"    -> v.type = "boolean"
    [] reader = "number"  -> v.type \in {"number", "numeric string"}
    [] reader \in {"string", "cstring"} -> v.type \in {"string", "numeric string"}
    [] reader \in {"Table", "Lua_table_ref"} -> v.type \in {"table", "nil"}
    [] reader = "Lua_func_ref" -> v.type \in {"function", "nil"}
    [] reader = "class"   -> CheckIndex(v, raw.base, mayChange)
    [] reader = "shared"  -> v.shared /\ CheckIndex(v, raw.base, raw.shared # "const")
    [] reader = "none"    -> FALSE

\* Mutant: check_index for every pointer to a class.
Reads_ConstIgnored(trait, t, v) == Accepts(ReaderOf(trait, t), raw_type(t), FALSE, v)

Reads(trait, t, v) == Accepts(ReaderOf(trait, t), raw_type(t), MayChange(trait, t), v)

-----------------------------------------------------------------------------
(* proxy_constructor_param_tester.h *)

\* lua_type_is_cpp_type<raw, type>
TypeIsCppType(raw, type) ==
  CASE type = "number"   -> /\ raw # Type("void", <<"*">>)
                            /\ is_integral(raw_type(raw)) \/ is_scoped_enum(raw_type(raw))
                            /\ raw # Type("bool", <<>>)
    [] type = "string"   -> raw = Type("char", <<"*">>) \/ is_integral_string_class(raw)
    [] type = "boolean"  -> raw = Type("bool", <<>>)
    [] type = "function" -> raw = Type("Lua_func_ref", <<>>)
    [] type = "table"    -> Named(raw, {"Lua_table_ref", "Table"})
    [] type = "light"    -> raw = Type("void", <<"*">>)
    [] OTHER             -> FALSE

\* index_can_convert_to_type
index_can_convert(trait, t, v) ==
  LET tr == TraitOf(trait, t)
  IN  ~tr.integral /\ IsA(v, tr.raw.base) /\ (v.const => tr.constant)

lua_type(v) == IF v.type = "numeric string" THEN "string" ELSE v.type

\* Mutant: a constant instance may be given to any constructor.
Fits_AnyConst(trait, t, v) ==
  \/ t = calling_lua_state /\ trait = "in_p"
  \/ IF lua_type(v) \in {"userdata", "alien userdata"} THEN index_can_convert(trait, t, [v EXCEPT !.const = FALSE])
     ELSE TypeIsCppType(TraitOf(trait, t).raw, lua_type(v))

\* Param_helper::param_is_of_type
Fits(trait, t, v) ==
  \/ t = calling_lua_state /\ trait = "in_p"
  \/ IF lua_type(v) \in {"userdata", "alien userdata"} THEN index_can_convert(trait, t, v)
     ELSE TypeIsCppType(TraitOf(trait, t).raw, lua_type(v))
=============================================================================
