----------------------------- MODULE References -----------------------------
(***************************************************************************)
(* What a Lua_ref promises C++ (oolua_ref.h): it is a variable which holds *)
(* a Lua value of one universe, or nothing.  Variables are independent: an *)
(* operation on one never changes what another holds.                      *)
(***************************************************************************)
CONSTANTS Universe, Inst, Value, NONE

VARIABLE val  \* the universe and the value each variable holds, or NONE

Content == Universe \X Value

Init == val = [x \in Inst |-> NONE]

Set(x, c) == val' = [val EXCEPT ![x] = c]
Copy(x, y) == val' = [val EXCEPT ![x] = val[y]]
Swap(x, y) == val' = [val EXCEPT ![x] = val[y], ![y] = val[x]]
Clear(x) == val' = [val EXCEPT ![x] = NONE]

Next == \E x \in Inst : \/ \E c \in Content : Set(x, c)
                        \/ \E y \in Inst : Copy(x, y) \/ Swap(x, y)
                        \/ Clear(x)

Spec == Init /\ [][Next]_val
=============================================================================
