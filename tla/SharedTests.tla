----------------------------- MODULE SharedTests -----------------------------
(***************************************************************************)
(* The unit tests of shared pointers; those which count them or collect    *)
(* userdata are about what Ownership models.                               *)
(***************************************************************************)
EXTENDS ConstructorTests, MemberTests

\* OOLUA_SHARED_TYPE<base>, and of base const
SharedTo(base) == [Type(base, <<>>) EXCEPT !.shared = "mutable"]
SharedToConst(base) == [SharedTo(base) EXCEPT !.shared = "const"]

\* The instance is pushed, which then is the one on top.
Sharing(type, want) ==
  Pushing("none", type, "instance",
          [ok |-> TRUE, grown |-> 1, top |-> [type |-> "userdata", shared |-> TRUE, id |-> "instance"] @@ want])

\* shared/shared_pointer.cpp: a further push of an instance changes what was
\* pushed before, which is the same userdata.
SharedPushes ==
  LET foo == SharedTo("SharedFoo")  constFoo == SharedToConst("SharedFoo")
      Then(type, below) ==
        Pushing("none", type, "instance", [ok |-> TRUE, top |-> below, below |-> below])
  IN  {<<Sharing(SharedTo("Stub1"), <<>>), Then(SharedTo("Stub1"), [shared |-> TRUE])>>,
       <<Sharing(SharedTo("Abstract1"), [class |-> "Abstract1"]),
         Then(SharedTo("Derived1Abstract1"), [class |-> "Derived1Abstract1"])>>,
       <<Sharing(constFoo, [const |-> TRUE]), Then(foo, [const |-> FALSE])>>}

\* A shared pointer is pulled, to the class or a base, and not without its const;
\* a plain one can be pulled of it.
SharedPulls ==
  LET FooPulls(pushed, pulled, ok) ==
        <<Sharing(pushed, <<>>), Pulling("none", pulled, [ok |-> ok])>>
  IN  {<<Sharing(SharedTo(c[1]), <<>>), Pulled(c[2], "instance")>> :
         c \in {<<"Stub1", SharedTo("Stub1")>>,
                <<"Derived1Abstract1", SharedTo("Abstract1")>>,
                <<"Derived1Abstract1", SharedToConst("Abstract1")>>,
                <<"SharedFoo", Of("SharedFoo", "ptr")>>,
                <<"SharedFoo", SharedToConst("SharedFoo")>>,
                <<"TwoAbstractBases", Of("Abstract2", "ptr")>>}}
      \cup {FooPulls(SharedToConst("SharedFoo"), SharedToConst("SharedFoo"), TRUE),
            FooPulls(SharedToConst("SharedFoo"), SharedTo("SharedFoo"), FALSE),
            FooPulls(SharedTo("SharedFoo"), SharedToConst("SharedConstructor"), FALSE),
            <<Leaving(Lua("number", "1"), [ok |-> TRUE]),
              Pulling("none", SharedTo("Stub1"), [ok |-> FALSE])>>}

\* An instance in a shared pointer is an object to call functions of, and a
\* parameter.
SharedParams ==
  LET instance == Cpp(SharedTo("SharedFoo"), "instance")
      given == [ok |-> TRUE, given |-> <<"instance">>]
  IN  {<<Taking("in_p", Of("SharedFoo", self), instance, given)>> : self \in {"ref", "refConst"}}
      \cup {<<Taking("in_p", SharedTo("SharedFoo"), instance, given)>>,
            <<Taking("in_p", Declare(SharedTo("SharedFoo"), "&"), instance, given)>>,
            <<Taking("in_p", SharedToConst("SharedFoo"), Cpp(SharedToConst("SharedFoo"), "instance"), given)>>,
            <<Taking("in_p", SharedTo("SharedFoo"), Lua("number", "1"), [ok |-> FALSE])>>,
            <<Getting("SharedFoo", SharedTo("SharedFoo"), "null", [type |-> "nil"])>>}

\* The traits of shared pointers
SharedTraits ==
  LET stub == SharedTo("Stub1")
      PullsStub(trait, type) == <<Compiling(trait, type, [ok |-> TRUE, pull |-> stub])>>
  IN  {PullsStub("in_p", stub), PullsStub("in_p", Declare(stub, "&")),
       PullsStub("function_return", stub), PullsStub("function_return", Declare(stub, "&")),
       <<Compiling("in_p", SharedToConst("SharedFoo"), [ok |-> TRUE, constant |-> TRUE])>>,
       <<Compiling("maybe_null", stub, [ok |-> TRUE, integral |-> TRUE, constant |-> FALSE])>>,
       <<Compiling("maybe_null", SharedToConst("Stub1"), [ok |-> TRUE, constant |-> TRUE])>>,
       <<Asking("is_shared_type", Of("Lua_func_ref", "value"), FALSE)>>}

\* A function returns a shared pointer, or a plain one which is made shared, or an
\* object of which the copy is shared or not.
SharedReturns ==
  LET Returns_(trait, type, back, want) ==
        Calling(Param(trait, type), <<>>, <<>>, <<back>>, [ok |-> TRUE, grown |-> 1, top |-> want])
      shares == [shared |-> TRUE]
      Changed(method) == Of("PointerChangesToShared", method)
  IN  {<<Returns_("function_return", type, "back", shares), Pulled(type, "back")>> :
         type \in {SharedTo("SharedFoo"), SharedToConst("SharedFoo")}}
      \cup {<<Returns_("maybe_null", SharedTo("SharedFoo"), "back", [type |-> "userdata"])>>,
            <<Returns_("maybe_null", SharedTo("SharedFoo"), "null", [type |-> "nil"])>>,
            <<Returns_("shared_return", Changed("ptr"), "back", shares @@ [const |-> FALSE])>>,
            <<Returns_("shared_return", Changed("ptrConst"), "back", shares @@ [const |-> TRUE])>>,
            <<Returns_("maybe_null_shared_return", Changed("ptr"), "null", [type |-> "nil"])>>,
            <<Returns_("maybe_null_shared_return", Changed("ptr"), "back", shares)>>}
      \cup {<<Returns_("function_return", Of(class, "value"), "back", [shared |-> class = "SharedValueReturn"])>> :
              class \in {"DefaultNoSharedValueReturn", "SharedValueReturn"}}

\* Constructing, where the userdata shares the object or not
Making(class, args, shared) == Constructing(class, args, [ok |-> TRUE, top |-> [shared |-> shared]])

SharedConstructors ==
  {<<Making(Class(name, <<>>, {}), <<>>, name = "SharedConstructor")>> : name \in {"Stub1", "SharedConstructor"}}

\* shared_by_default/shared_by_default.cpp, of a build in which new_pointer is a
\* shared pointer but for classes with the tag No_shared.  Classes which other
\* builds have, too, are called Default... here.
SharedByDefault ==
  LET params == <<Ctor(<<Of("bool", "value")>>)>>
      int == <<Ctor(<<Of("int", "value")>>)>>
      Ops(class) == <<Cpp(Of(class, "ptr"), "a"), Cpp(Of(class, "ptr"), "b")>>
  IN  {<<Making(Class("DefaultStub1", <<>>, {}), <<>>, TRUE)>>,
       <<Making(Class("DefaultParamConstructor", params, No_default), <<Lua("boolean", "true")>>, TRUE)>>,
       <<Making(Class("DefaultConstructorNoShared", <<>>, {}), <<>>, FALSE)>>,
       <<Making(Class("ParamConstructorNoShared", int, No_default), <<Lua("number", "1")>>, FALSE)>>}
      \cup {<<Operating(class, op, Ops(class), [shared |-> class = "DefaultClass_ops"])>> :
              class \in {"DefaultClass_ops", "NoSharedOps"}, op \in Operators \ Comparisons}
      \cup {<<Calling(Param("function_return", Of(class, "value")), <<>>, <<>>, <<"back">>,
                      [ok |-> TRUE, top |-> [shared |-> class = "DefaultShared"]])>> :
              class \in {"DefaultShared", "NoSharedValueReturn"}}

SharedTestCases == SharedPushes \cup SharedPulls \cup SharedParams \cup SharedTraits
  \cup SharedReturns \cup SharedConstructors \cup SharedByDefault
=============================================================================
