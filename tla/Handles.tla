------------------------------- MODULE Handles -------------------------------
(***************************************************************************)
(* What the userdata cache promises a program, with no addresses, weak     *)
(* table or collision tables: Lua sees an object through one handle.       *)
(* Pushing a pointer to an object which has a handle yields that handle,   *)
(* which then "stores the most derived type known for the instance and the *)
(* weakest type" (proxy_storage.h:322).                                    *)
(***************************************************************************)
CONSTANTS Class, Ptr, ClassOf, AllBases, Cast, Ud, NULL

VARIABLES
  obj,       \* the pointer each handle stands for, NULL when it is not in use
  readonly,  \* handles Lua may only use through const functions
  owned,     \* handles whose object Lua deletes
  held       \* handles Lua reaches

vars == <<obj, readonly, owned, held>>

\* q points to p's object or to a base sub-object of it.
IsPartOf(q, p) == \/ q = p
                  \/ ClassOf[q] \in AllBases[ClassOf[p]] /\ q = Cast[p][ClassOf[q]]

InUse(u) == obj[u] # NULL
HandlesOf(p) == {u \in Ud : InUse(u) /\ (IsPartOf(obj[u], p) \/ IsPartOf(p, obj[u]))}

Owning(u, owner) == CASE owner = "Lua" -> owned \cup {u}
                      [] owner = "Cpp" -> owned \ {u}
                      [] OTHER         -> owned

Init == /\ obj = [u \in Ud |-> NULL]
        /\ readonly = {}
        /\ owned = {}
        /\ held = {}

\* An object which has no handle gets one.
New(p, isConst, owner) ==
  /\ HandlesOf(p) = {}
  /\ \E u \in Ud : /\ ~InUse(u)
                   /\ obj' = [obj EXCEPT ![u] = p]
                   /\ readonly' = IF isConst THEN readonly \cup {u} ELSE readonly
                   /\ owned' = Owning(u, owner)
                   /\ held' = held \cup {u}

\* An object which has a handle is seen through it.
Reuse(p, isConst, owner) ==
  \E u \in HandlesOf(p) :
    /\ obj' = [obj EXCEPT ![u] = IF IsPartOf(p, @) THEN @ ELSE p]
    /\ readonly' = IF isConst THEN readonly ELSE readonly \ {u}
    /\ owned' = Owning(u, owner)
    /\ held' = held \cup {u}

ChangeOwner(u, owner) ==
  /\ u \in held
  /\ owned' = Owning(u, owner)
  /\ UNCHANGED <<obj, readonly, held>>

Drop(u) ==
  /\ u \in held
  /\ held' = held \ {u}
  /\ UNCHANGED <<obj, readonly, owned>>

\* Handles nobody holds go away, and their objects may get new ones.
Forget(dead) ==
  /\ \A u \in dead : InUse(u) /\ u \notin held
  /\ obj' = [u \in Ud |-> IF u \in dead THEN NULL ELSE obj[u]]
  /\ readonly' = readonly \ dead
  /\ owned' = owned \ dead
  /\ UNCHANGED held

Next ==
  \/ \E p \in Ptr, isConst \in BOOLEAN, owner \in {"No_change", "Cpp", "Lua"} :
       New(p, isConst, owner) \/ Reuse(p, isConst, owner)
  \/ \E u \in Ud, owner \in {"Cpp", "Lua"} : ChangeOwner(u, owner)
  \/ \E u \in Ud : Drop(u)
  \/ \E dead \in SUBSET Ud : Forget(dead)

Spec == Init /\ [][Next]_vars
=============================================================================
