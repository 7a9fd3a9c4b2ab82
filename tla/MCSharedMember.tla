--------------------------- MODULE MCSharedMember ---------------------------
(***************************************************************************)
(* The classes of shared_pointer.cpp:152, PodWithFirstMemberPod and Pod:   *)
(* the object is kept in a shared pointer, and its first member, which is  *)
(* at the same address, is pushed by a raw pointer.                        *)
(***************************************************************************)
EXTENDS Ownership, TLC

CONSTANTS pod, member, a0, o0

MCPtr == {pod, member}
MCClass == {"PodWithFirstMemberPod", "Pod"}
MCClassOf == pod :> "PodWithFirstMemberPod" @@ member :> "Pod"
MCAddrOf == [p \in MCPtr |-> a0]
MCAllBases == [c \in MCClass |-> {}]
MCRootBases == [c \in MCClass |-> <<>>]
MCCast == [p \in MCPtr |-> [c \in {} |-> p]]
MCWhole == [p \in MCPtr |-> o0]
=============================================================================
