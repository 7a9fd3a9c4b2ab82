------------------------------- MODULE MCPods -------------------------------
(***************************************************************************)
(* The classes of unit_tests/test_classes/pointer_cache_first_members.cpp: *)
(* PodBar : PodFoo, PodWithPodMember, where the second base is at an       *)
(* offset, and a Container whose first member is a PodBar.                 *)
(***************************************************************************)
EXTENDS PointerCache, TLC

CONSTANTS cont, bar, foo, wp, pod,   \* pointers, one of each class
          a0, a1                     \* &container and the offset base

MCPtr == {cont, bar, foo, wp, pod}
MCClass == {"Container", "Bar", "Foo", "WithPod", "Pod"}
MCClassOf == cont :> "Container" @@ bar :> "Bar" @@ foo :> "Foo"
               @@ wp :> "WithPod" @@ pod :> "Pod"
\* pod is the first member of the PodWithPodMember base.
MCAddrOf == cont :> a0 @@ bar :> a0 @@ foo :> a0 @@ wp :> a1 @@ pod :> a1
MCAllBases == [c \in MCClass |-> IF c = "Bar" THEN {"Foo", "WithPod"} ELSE {}]
MCRootBases == [c \in MCClass |-> IF c = "Bar" THEN <<"Foo", "WithPod">> ELSE <<>>]
MCCast == [p \in MCPtr |-> IF p = bar THEN [c \in {"Foo", "WithPod"} |-> IF c = "Foo" THEN foo ELSE wp]
                           ELSE [c \in {} |-> p]]
\* The layout is one for which the cache is exact.
ASSUME NoAliasedBase /\ NoAliasedClass /\ LeadingBase

UdSymmetry == Permutations(Ud)
=============================================================================
