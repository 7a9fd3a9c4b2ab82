---------------------------- MODULE Declarations ----------------------------
(***************************************************************************)
(* What a declared type is decided on by templates which do not know of    *)
(* one another: what a function with the type returns, and what a getter   *)
(* and a setter of a public member of the type push and pull.              *)
(***************************************************************************)
EXTENDS Constructors, Members

-----------------------------------------------------------------------------
(* A function returns the type, or has an out parameter of it.             *)

Returns ==
  {[trait |-> trait, made |-> Pushed(trait, type)] :
     trait \in {tr \in ReturnTraits \cup OutTraits : Returnable(tr, type) /\ ~IsVoid(type)}}

\* Scripts may not change what a function returned as constant, and Lua is to
\* delete what it was given, what was copied for it, and nothing else, however
\* often the type goes through references and constant pointers
\* (functionReturn_returnsPtrToConstantInstance_constFlagIsTrue and
\* luaReturnTrait_callsMethodRefConstPtrConst_returnValueIsConst in
\* userdata_function_returns.cpp); but an in_out_p loses the constness.
ReturnedAsDeclared ==
  Declaring =>
    \A r \in {any \in Returns : any.made.type = "userdata"} :
      /\ \/ r.made.of = "copy" \/ r.made.const \/ r.trait = "in_out_p"
         \/ type.shared = "mutable"
         \/ type.shared = "no" /\ (type.decl = <<>> \/ Head(type.decl) # "const")
      /\ r.made.gc <=> \/ r.made.of = "copy" \/ r.made.shared
                       \/ r.trait \in {"lua_return", "maybe_null_lua_return", "lua_out_p"}

\* What a getter gives for a public member, or nil for an object it does not point
\* to, and what a setter reads are decided from the declared type by different
\* templates: a setter takes back what the getter of the member gave.  It is not
\* so for a char*, which is read as the first of its characters.
SettersTakeBack ==
  LET got == PushPublicMember(type)
  IN  /\ Declaring /\ ~is_ref(type) /\ Assignable(type)
      /\ got.type # "none" /\ MemberReader(type) # "none"
      /\ type # Type("char", <<"*">>)
      => GetPublicMember(type, got)

\* "The type returned from the function is a heap allocated instance whose
\* ownership will be controlled by Lua" (oolua_traits.h:163): it is that
\* instance which Lua gets to delete, and not the variable it was returned in.
ReturnsInstance == Declaring => \A r \in Returns : r.made.of # "variable"
=============================================================================
