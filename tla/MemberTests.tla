----------------------------- MODULE MemberTests -----------------------------
(***************************************************************************)
(* The unit tests of public members and of operators.                      *)
(***************************************************************************)
EXTENDS Scripts, Members

\* object:get_member() of a member which refers to back, or to nothing
Getting(class, type, back, want) ==
  [do |-> "get", class |-> class, self |-> Cpp(Of(class, "ptr"), "object"), type |-> type,
   back |-> back, want |-> [ok |-> TRUE, grown |-> 1, top |-> want]]

\* object:set_member(argument)
Setting(class, type, arg, want) ==
  [do |-> "set", class |-> class, self |-> Cpp(Of(class, "ptr"), "object"), type |-> type,
   args |-> <<arg>>, want |-> want]

\* left op right, of objects of the class
Operating(class, op, operands, want) ==
  [do |-> "operate", class |-> class, op |-> op, args |-> operands,
   want |-> [ok |-> TRUE, grown |-> 1, top |-> want]]

\* public_variables.cpp
PublicVariables ==
  LET Gets(type, back, want) == Getting("Public_variables", type, back, want)
      Sets(type, arg) == Setting("Public_variables", type, arg, [ok |-> TRUE, given |-> <<arg.id>>])
      int == Of("int", "value")
      stub == Of("Stub1", "ptr")
  IN  {<<Gets(Of("int", method), "set_value", [type |-> "number"]), Pulled(int, "set_value")>> :
         method \in {"value", "ptr"}}
      \cup {<<Sets(Of("int", method), Cpp(int, "set_value"))>> : method \in {"value", "ptr"}}
      \cup {<<Gets(stub, "dummy_instance", [gc |-> FALSE]), Pulled(stub, "dummy_instance")>>,
            <<Gets(stub, "null", [type |-> "nil"])>>,
            <<Sets(stub, Cpp(stub, "dummy_instance"))>>,
            <<Gets(Of("Stub1", "value"), "dummy_instance_none_ptr", [gc |-> FALSE]),
              Pulled(stub, "dummy_instance_none_ptr")>>,
            <<Sets(Of("Enums", "value"), NewObject("Enums", "instance") @@ [id |-> "Enums.GREEN"])>>}

\* operators.cpp: of instances of which one or both may be constant.  A further
\* operator may be applied to what one has calculated.
ClassOperators ==
  LET Ops(left, right) == <<Cpp(Of("Class_ops", left), "left"), Cpp(Of("Class_ops", right), "right")>>
      Compares(op, left, right) ==
        <<Operating("Class_ops", op, Ops(left, right), [type |-> "boolean"]),
          Pulling("none", Of("bool", "value"), [ok |-> TRUE])>>
      Calculates(op, left, right) ==
        <<Operating("Class_ops", op, Ops(left, right), [gc |-> TRUE, const |-> FALSE, of |-> "copy"]),
          Pulling("cpp_acquire_ptr", Of("Class_ops", "ptr"), [ok |-> TRUE])>>
      \* Lua has seen them before.
      Seen(ids) ==
        FlattenSeq([i \in DOMAIN ids |->
                      <<Pushing("none", Of("Class_ops", "ptr"), ids[i], [ok |-> TRUE]),
                        Pulled(Of("Class_ops", "ptr"), ids[i])>>])
      mixed == {<<"ptr", "ptr">>, <<"ptr", "ptrConst">>, <<"ptrConst", "ptr">>}
  IN  {Compares(op, consts[1], consts[2]) : op \in {"Equal_op", "Less_op"}, consts \in mixed}
      \cup {Compares("Equal_op", "ptrConst", "ptrConst"), Compares("Less_equal_op", "ptr", "ptr"),
            Calculates("Add_op", "ptr", "ptr")}
      \cup {Seen(ids) \o Compares(op, "ptr", "ptr") :
              ids \in {<<"left">>, <<"right">>, <<"left", "right">>}, op \in {"Equal_op", "Less_equal_op"}}
      \cup {Calculates(op, consts[1], consts[2]) : op \in {"Sub_op", "Mul_op", "Div_op"}, consts \in mixed}
      \cup {<<Operating("Class_ops", "Sub_op", Ops("ptr", "ptr"), [gc |-> TRUE]),
              Operating("Class_ops", "Sub_op",
                        <<NewObject("Class_ops", "copy") @@ [id |-> "l - m"], Cpp(Of("Class_ops", "ptr"), "r")>>,
                        [gc |-> TRUE])>>}

MemberTestCases == PublicVariables \cup ClassOperators
=============================================================================
