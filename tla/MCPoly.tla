------------------------------- MODULE MCPoly -------------------------------
(***************************************************************************)
(* A polymorphic class derived from one which is not: the pointer to the   *)
(* virtual table comes first and the only base is at an offset.            *)
(***************************************************************************)
EXTENDS PointerCache, TLC

CONSTANTS derived, base, a0, a1

MCPtr == {derived, base}
MCClass == {"Derived", "Base"}
MCClassOf == derived :> "Derived" @@ base :> "Base"
MCAddrOf == derived :> a0 @@ base :> a1
MCAllBases == [c \in MCClass |-> IF c = "Derived" THEN {"Base"} ELSE {}]
MCRootBases == [c \in MCClass |-> IF c = "Derived" THEN <<"Base">> ELSE <<>>]
MCCast == [p \in MCPtr |-> [c \in MCAllBases[MCClassOf[p]] |-> base]]
=============================================================================
