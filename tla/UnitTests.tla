----------------------------- MODULE UnitTests -----------------------------
(***************************************************************************)
(* The unit tests of the repository, run against the models: every step of *)
(* a test does to the stack of its lua_State what the models say, and what *)
(* the test asserts must hold after it.                                    *)
(***************************************************************************)
EXTENDS ParameterTests, ReturnTests, TypeTests, ExchangeTests, SharedTests, StackTests, RefTests

Tests == ParameterTestCases \cup ReturnTestCases \cup TypeTestCases
  \cup ConstructorTestCases \cup ExchangeTestCases \cup MemberTestCases \cup SharedTestCases
  \cup StackTestCases \cup RefTestCases

VARIABLES
  test,    \* the steps of the test
  pc,      \* the step which is next
  stack,   \* of the lua_State, its top the last
  result   \* what the last step did that a test can look at

vars == <<test, pc, stack, result, luaVars, refVars>>

Step == test[pc]

Top == IF stack = <<>> THEN Lua("none", "none") ELSE Last(stack)

Init ==
  /\ test \in Tests
  /\ pc = 1
  /\ stack = <<>>
  /\ result = [ok |-> TRUE]
  /\ Lua_state!Init
  /\ Lua_refs!Init

\* A step leaves a stack, and more that can be looked at.
Ends(ok, stack2, more) ==
  /\ pc' = pc + 1
  /\ stack' = stack2
  /\ result' = [ok |-> ok, grown |-> Len(stack2) - Len(stack)] @@ more
  /\ UNCHANGED <<test, luaVars, refVars>>

Call ==
  /\ Step.do = "call"
  /\ Proxied_function(Step.ret, Step.params)
  /\ IF Accepted(Step.params, Step.args)
     THEN Ends(TRUE, FoldLeft(Put, stack, Backs(Step.ret, Step.params, Step.back)),
               [given |-> Given(Step.params, Step.args), kept |-> Kept(Step.params, Step.args)])
     ELSE Ends(FALSE, stack, [given |-> <<>>])

\* The constructors are tried as Constructors has it.
Constructed == INSTANCE Constructors
  WITH Bases <- {}, Overloads <- {}, ArgLists <- {}, MaxCtors <- 1, type <- calling_lua_state,
       block <- Step.class.block, tags <- Step.class.tags, call <- result

New ==
  /\ Step.do = "new"
  /\ LET class == Step.class
         fits == Constructed!Matched(Step.args)
         by == IF fits = {} THEN 0 ELSE CHOOSE i \in fits : TRUE
         params == IF by = 0 THEN <<>> ELSE class.block[by]
         made == /\ "No_public_constructors" \notin class.tags /\ ~class.throws
                 /\ IF by = 0 THEN Step.args = <<>> /\ "No_default_constructor" \notin class.tags
                    ELSE Constructed!Reading(params, Step.args)
     IN  IF made
         THEN Ends(TRUE, Put(stack, NewObject(class.name, "instance") @@ [id |-> "made"]),
                   [by |-> by, given |-> Given(params, Step.args)])
         ELSE Ends(FALSE, stack, <<>>)

Push ==
  /\ Step.do = "push"
  /\ LET pushed == IF Step.trait = "none" THEN push(Step.type) ELSE push_acquire(Step.type)
     IN  Ends(TRUE, Put(stack, pushed @@ [id |-> Step.id]), <<>>)

Pull ==
  /\ Step.do = "pull"
  /\ IF Pulls(Step.type, Top)
     THEN LET given == SetGc(stack, Top, Top.gc /\ Step.trait # "cpp_acquire_ptr")
          IN  Ends(TRUE, IF Pops(Step.type, Top) THEN Front(given) ELSE given, [given |-> <<Top.id>>])
     ELSE Ends(FALSE, stack, <<>>)

Leave ==
  /\ Step.do = "leave"
  /\ Ends(TRUE, Append(stack, Step.value), <<>>)

\* set_owner of a class which has a public destructor
Own ==
  /\ Step.do = "own"
  /\ IF "No_public_destructor" \in Step.tags THEN Ends(FALSE, stack, <<>>)
     ELSE Ends(TRUE, SetGc(stack, Top, Step.owner = "Lua"), <<>>)

\* A getter is constant, so that self may be, and a setter is not.
Get ==
  /\ Step.do = "get"
  /\ CheckIndex(Step.self, Step.class, FALSE)
  /\ LET got == IF Step.back = "null" THEN PushNullMember(Step.type) ELSE PushPublicMember(Step.type)
     IN  /\ got.type # "none"
         /\ Ends(TRUE, Put(stack, got @@ [id |-> Step.back]), <<>>)

Set ==
  /\ Step.do = "set"
  /\ Assignable(Step.type) /\ MemberReader(Step.type) # "none"
  /\ CheckIndex(Step.self, Step.class, TRUE)
  /\ LET arg == Step.args[1]
         ok == GetPublicMember(Step.type, arg)
     IN  Ends(ok, stack, [given |-> IF ok THEN <<arg.id>> ELSE <<>>])

\* Lua finds the function in the metatable of the operands.
Operate ==
  /\ Step.do = "operate"
  /\ IF Operates(Step.class, Step.args)
     THEN Ends(TRUE, Put(stack, Known(Operated(Step.class, Step.op), "result")), <<>>)
     ELSE Ends(FALSE, stack, <<>>)

\* What the compiler says: the step does nothing.
Compile ==
  /\ Step.do = "compile"
  /\ Ends(Compiles(Step.trait, Step.type), stack,
          [f \in {"pull", "owner", "constant", "integral"} |-> TraitOf(Step.trait, Step.type)[f]])

Ask ==
  /\ Step.do = "ask"
  /\ Ends(TRUE, stack,
          [yes |-> CASE Step.of = "is_integral_string_class" -> is_integral_string_class(Step.type)
                     [] Step.of = "has_a_proxy_type" -> has_a_proxy_type(Step.type)
                     [] Step.of = "is_shared_type" -> is_shared_type(Step.type)
                     [] Step.of = "is_scoped_enum" -> is_scoped_enum(Step.type)
                     [] Step.of = "is_class_type" -> is_class_type(Step.type)
                     [] Step.of = "can_convert_to_int" -> can_convert_to_int(Step.type)])

UseStack ==
  /\ Step.do = "stack"
  /\ StackStep(Step.op, Step.of)
  /\ pc' = pc + 1
  /\ UNCHANGED <<test, stack, result, refVars>>

UseRef ==
  /\ Step.do = "ref"
  /\ RefStep(Step.op, Step.of)
  /\ pc' = pc + 1
  /\ UNCHANGED <<test, stack, result, luaVars>>

\* The test is over.
Done == pc > Len(test) /\ UNCHANGED vars

Next ==
  \/ Done
  \/ pc <= Len(test) /\ (Call \/ New \/ Push \/ Pull \/ Leave \/ Own
                        \/ Get \/ Set \/ Operate \/ Compile \/ Ask
                        \/ UseStack \/ UseRef)

Spec == Init /\ [][Next]_vars
-----------------------------------------------------------------------------
\* What a test asserts of a step holds of what the models say of it.
TestsPass ==
  pc > 1 =>
    LET step == test[pc - 1]
        want == step.want
    IN  \A f \in DOMAIN want :
          CASE step.do = "stack" -> StackView(f) = want[f]
            [] step.do = "ref"   -> RefView(f) = want[f]
            [] f = "top"   -> \A part \in DOMAIN want.top : Top[part] = want.top[part]
            [] f = "below" -> \A part \in DOMAIN want.below :
                                stack[Len(stack) - 1][part] = want.below[part]
            [] OTHER       -> result[f] = want[f]
=============================================================================
