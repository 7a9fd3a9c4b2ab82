---------------------------- MODULE MCOwnership ----------------------------
(***************************************************************************)
(* A box, kept by raw pointers, whose first member is an item, so that the *)
(* two share an address; and an object of class Leaf, kept in shared       *)
(* pointers to its class and to its bases Mid and Top.                     *)
(***************************************************************************)
EXTENDS Ownership, TLC

CONSTANTS box, item, leaf, mid, top, a0, a1, o0, o1

MCPtr == {box, item, leaf, mid, top}
MCClass == {"Box", "Item", "Leaf", "Mid", "Top"}
MCClassOf == box :> "Box" @@ item :> "Item" @@ leaf :> "Leaf" @@ mid :> "Mid" @@ top :> "Top"
MCAddrOf == [p \in MCPtr |-> IF p \in {box, item} THEN a0 ELSE a1]
MCAllBases == [c \in MCClass |-> CASE c = "Leaf" -> {"Mid", "Top"}
                                   [] c = "Mid"  -> {"Top"}
                                   [] OTHER      -> {}]
MCRootBases == [c \in MCClass |-> IF c \in {"Leaf", "Mid"} THEN <<"Top">> ELSE <<>>]
MCCast == [p \in MCPtr |-> [c \in MCAllBases[MCClassOf[p]] |-> IF c = "Top" THEN top ELSE mid]]
MCWhole == [p \in MCPtr |-> IF p \in {box, item} THEN o0 ELSE o1]
\* The layout is one for which the cache is exact and an object has one userdata.
ASSUME NoAliasedBase /\ NoAliasedClass /\ OneAddress /\ SingleInheritance /\ DeletableIsChain
=============================================================================
