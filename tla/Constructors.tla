---------------------------- MODULE Constructors ----------------------------
(***************************************************************************)
(* The constructors of a proxied class: a program declares the types of    *)
(* their parameters and exposes them in a block, and scripts call new.     *)
(* The only overloading there is: the first constructor in the order of    *)
(* the block which the arguments fit is called.                            *)
(***************************************************************************)
EXTENDS Results

CONSTANTS
  Bases,       \* types before any declarator
  Overloads,   \* constructors which are declared beside one of such a type
  ArgLists,    \* what scripts call new with
  MaxCtors

Param(trait, type) == [trait |-> trait, type |-> type]

ParamTraits == {"in_p", "in_out_p", "cpp_in_p", "light_p"}

Params == [trait : ParamTraits, type : CppType]

ASSUME ConstructorsAssumption ==
  /\ \A base \in Bases : base \in CppType /\ base.decl = <<>>
  /\ \A ctor \in Overloads : ctor \in Seq(Params)
  /\ \A args \in ArgLists : args \in Seq(LuaValue)
  /\ MaxCtors \in Nat \ {0}

VARIABLES
  type,    \* the type of a parameter which is being declared
  block,   \* the parameter lists of the OOLUA_CTOR entries
  tags,    \* those of the class which are about constructors
  call     \* the last call of new: what of, and which entry constructed

vars == <<type, block, tags, call>>

Idle == [args |-> <<>>, out |-> "none", by |-> 0]

\* What is said of a type does not depend on what it is used for.
Declaring == block = <<>> /\ call = Idle

IsState(p) == p = Param("in_p", calling_lua_state)

HasState(ctor) == \E i \in DOMAIN ctor : IsState(ctor[i])

\* The parameter can be declared in a constructor, read, and passed on.
Usable(p) ==
  /\ Compiles(p.trait, p.type)
  /\ ReaderOf(p.trait, p.type) # "none"
  /\ ~IsState(p) => Conversions(p.trait, p.type) # {}

-----------------------------------------------------------------------------
(* The factory function                                                    *)

\* OOLUA_CTOR: the entries which are tried for a number of arguments.
StackCountFits(ctor, n) == n = Len(ctor) - (IF HasState(ctor) THEN 1 ELSE 0)

\* OOLUA_CONSTRUCTOR_PARAM_IS_OF_TYPE: every parameter tests the argument at the
\* index the ones before it left; index 0 is a test which failed.
IsOfType(ctor, args) ==
  LET index[i \in 0 .. Len(ctor)] ==
        IF i = 0 THEN 1
        ELSE LET at == index[i - 1]
             IN  IF at = 0 \/ IsState(ctor[i]) THEN at
                 ELSE IF Fits(ctor[i].trait, ctor[i].type, args[at]) THEN at + 1 ELSE 0
  IN  index[Len(ctor)] # 0

\* The index at which a parameter of a constructor which is called reads.
ReadsAt(ctor, i) ==
  1 + Cardinality({j \in 1 .. i - 1 : ~IsState(ctor[j])})

\* valid_construct: the parameters are pulled, which may still raise an error.
Reading(ctor, args) ==
  \A i \in DOMAIN ctor : Reads(ctor[i].trait, ctor[i].type,
                               IF IsState(ctor[i]) THEN Value("nil")
                               ELSE args[ReadsAt(ctor, i)])

Tried(args) == {i \in DOMAIN block : StackCountFits(block[i], Len(args))}

\* Mutant: the last one which fits.
Matched_Last(args) ==
  LET fits == {i \in Tried(args) : IsOfType(block[i], args)}
  IN  {i \in fits : \A other \in fits : other <= i}

Matched(args) ==
  LET fits == {i \in Tried(args) : IsOfType(block[i], args)}
  IN  {i \in fits : \A other \in fits : i <= other}

-----------------------------------------------------------------------------
(* Actions *)

Init ==
  /\ type \in Bases
  /\ block = <<>>
  /\ tags \in {{}, {"No_default_constructor"}, {"No_public_constructors"}}
  /\ call = Idle

\* A further declarator is put after the type.
Declarator(d) ==
  /\ Declaring
  /\ CanDeclare(type, d)
  /\ type' = Declare(type, d)
  /\ UNCHANGED <<block, tags, call>>

Expose(ctor) ==
  /\ Len(block) < MaxCtors /\ call = Idle
  /\ "No_public_constructors" \notin tags
  /\ \A i \in DOMAIN ctor : Usable(ctor[i])
  /\ block' = Append(block, ctor)
  /\ UNCHANGED <<type, tags, call>>

\* The call raises an error, or an entry constructed: 0 is the default one.
Ends(args, out, by) ==
  /\ call' = [args |-> args, out |-> out, by |-> by]
  /\ UNCHANGED <<type, block, tags>>

\* There is no function of the name for a class without constructors.
NewIsNil(args) == "No_public_constructors" \in tags /\ Ends(args, "no new", 0)

\* An exception of the constructor is caught and raised as an error; what was
\* allocated for the object is not freed.
NewThrows(args) ==
  \E i \in Matched(args) : Reading(block[i], args) /\ Ends(args, "exception", i)

NewMatches(args) ==
  \E i \in Matched(args) : Ends(args, IF Reading(block[i], args) THEN "made" ELSE "argument", i)

\* Nothing of the block was for no arguments: the default constructor, if the
\* class has one, which may throw as the others do.
NewDefault(args) ==
  /\ Matched(args) = {} /\ args = <<>>
  /\ \E out \in IF "No_default_constructor" \in tags THEN {"unmatched"} ELSE {"made", "exception"} :
       Ends(args, out, 0)

NewUnmatched(args) ==
  /\ Matched(args) = {} /\ args # <<>>
  /\ Ends(args, "unmatched", 0)

New(args) ==
  \/ NewIsNil(args)
  \/ /\ "No_public_constructors" \notin tags
     /\ NewThrows(args) \/ NewMatches(args) \/ NewDefault(args) \/ NewUnmatched(args)

Next ==
  \/ \E d \in Declarators : Declarator(d)
  \/ \E trait \in ParamTraits : Expose(<<Param(trait, type)>>)
  \/ \E ctor \in Overloads : Expose(ctor)
  \/ call = Idle /\ \E args \in ArgLists : New(args)

Spec == Init /\ [][Next]_vars
-----------------------------------------------------------------------------
(* Properties *)

\* No constructor is given the calling lua_State twice: StackCountFits counts one.
OneState(ctor) == \A i, j \in DOMAIN ctor : IsState(ctor[i]) /\ IsState(ctor[j]) => i = j
OverloadsTakeOneState == \A ctor \in Overloads : OneState(ctor)

\* The arguments of the parameters, one after the other, are of their types.
Takes(ctor, args) ==
  LET listed == {i \in DOMAIN ctor : ~IsState(ctor[i])}
      argument(i) == args[Cardinality({j \in listed : j <= i})]
  IN  /\ Cardinality(listed) = Len(args)
      /\ \A i \in listed : Fits(ctor[i].trait, ctor[i].type, argument(i))

\* "The order in which it will attempt the matching is the same order in which
\* they were defined" (proxy_constructor.h:281): what constructs is the first
\* entry which takes the arguments, wherever the calling lua_State is among its
\* parameters, and without one only the default constructor does.
FirstFittingConstructs ==
  call.out \in {"made", "exception"} =>
    IF call.by = 0 THEN /\ call.args = <<>>
                        /\ \A i \in DOMAIN block : ~Takes(block[i], <<>>)
    ELSE /\ Takes(block[call.by], call.args)
         /\ \A i \in 1 .. call.by - 1 : ~Takes(block[i], call.args)

\* An instance a script may not change is never passed, by the constructor it
\* fits or to a function with the parameter, so that it could be changed: by a
\* reference or a pointer to what is not constant.
ConstantStaysConstant ==
  Declaring =>
  \A trait \in ParamTraits, v \in UNION {Range(args) : args \in ArgLists} :
    /\ v.const /\ Usable(Param(trait, type)) /\ Reads(trait, type, v)
    => \/ trait = "light_p"
       \/ type.decl = <<>>
       \/ Head(type.decl) = "const"
       \/ type.shared = "const"

\* A pointer which is itself constant, to what Lua has values of its own for: no
\* Converter is specialised for it.
Unconvertible(trait, t) ==
  /\ TraitOf(trait, t).pull.decl = <<>>
  /\ t.decl \in {<<"*", "const">>}

\* Whatever a parameter which compiles is declared as, there is one conversion
\* from what is pulled for it, and that takes as many addresses, or goes
\* through as many pointers, as the two types differ by.
Delivers ==
  LET pointers(t) == Cardinality({i \in DOMAIN t.decl : t.decl[i] = "*"})
      passed(how, n) == CASE how = "object" -> n - 1 [] how = "address" -> n + 1 [] OTHER -> n
      given == {trait \in ParamTraits \ {"light_p"} :
                  /\ Compiles(trait, type) /\ ReaderOf(trait, type) # "none"
                  /\ ~Unconvertible(trait, type)}
  IN  Declaring /\ type # calling_lua_state =>
        \A trait \in given :
          /\ Cardinality(Conversions(trait, type)) = 1
          /\ \A how \in Conversions(trait, type) :
               passed(how, pointers(TraitOf(trait, type).pull)) = pointers(type)

\* What the test of a constructor lets through can be read, so that no error
\* keeps later constructors from being tried: but for a number, which a C string
\* is taken to be because the pointer is stripped off char*, and a constant
\* instance, which an in_out_p of a constant type pulls as one which is not.
TestedIsReadable ==
  Declaring =>
    \A trait \in ParamTraits, v \in UNION {Range(args) : args \in ArgLists} :
      /\ Usable(Param(trait, type)) /\ Fits(trait, type, v)
      => \/ Reads(trait, type, v)
         \/ IsCString(type) /\ v.type = "number"
         \/ trait = "in_out_p" /\ v.const
=============================================================================
