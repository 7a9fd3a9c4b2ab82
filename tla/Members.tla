------------------------------- MODULE Members -------------------------------
(***************************************************************************)
(* What a proxied class has beside its functions: getters and setters of   *)
(* the public members of its objects, and operators.                       *)
(***************************************************************************)
EXTENDS Results

\* An object which is part of the one the member is of.
IsPart(t) == t.shared = "no" /\ is_by_value(t) /\ has_a_proxy_type(raw_type(t))

-----------------------------------------------------------------------------
(* proxy_public_member.h.  The member is declared as t, which can be       *)
(* anything but a reference: there is no pointer to one.                   *)

\* Mutant: a part is pushed as one which scripts may not change.
PushPublicMember_Constant(t) ==
  IF IsPart(t) THEN push(Type(raw_type(t).base, <<"const", "*">>)) ELSE push(t)

\* A getter pushes a pointer to a part, and the variable of anything else.
PushPublicMember(t) == IF IsPart(t) THEN push(Declare(t, "*")) ELSE push(t)

\* Without an object there is nil for a pointer to one, plain or shared.
PushNullMember(t) ==
  IF t.shared # "no" \/ (IsPointer(t) /\ has_a_proxy_type(raw_type(t)))
  THEN Plainly("nil") ELSE Unpushable

\* The member can be assigned to.
Assignable(t) == t.decl = <<>> \/ is_ptr(t)

\* What a setter reads is assigned to the member, for a part from a pointer to
\* what is like it, and for a pointer to an integral type through the pointer.
MemberReader(t) ==
  CASE IsPart(t) -> Reader(Declare(t, "*"))
    [] IsPointer(t) /\ is_integral_type(Pointee(t)) -> Reader(Pointee(t))
    [] OTHER -> Reader(t)

GetPublicMember(t, v) ==
  Accepts(MemberReader(t), raw_type(t), ~is_const(t), v)

-----------------------------------------------------------------------------
(* proxy_operators.h *)

Comparisons == {"Equal_op", "Less_op", "Less_equal_op"}
Operators == Comparisons \cup {"Add_op", "Sub_op", "Mul_op", "Div_op"}

\* Both operands are read as pointers to what is constant.
Operates(class, operands) ==
  \A i \in DOMAIN operands : CheckIndex(operands[i], class, FALSE)

\* What compares gives a bool, and what calculates an object for Lua.
Operated(class, op) ==
  IF op \in Comparisons THEN push(Type("bool", <<>>)) ELSE NewObject(class, "copy")
=============================================================================
