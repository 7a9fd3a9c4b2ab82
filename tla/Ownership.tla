----------------------------- MODULE Ownership -----------------------------
(***************************************************************************)
(* Who deletes the objects of the userdata cache, and when.                *)
(*                                                                         *)
(* A Lua_ud holds a raw pointer, which its GC_FLAG says Lua owns or not, or*)
(* a shared pointer in the same storage, which SHARED_FLAG says and which  *)
(* keeps the object alive (proxy_userdata.h).  The C++ program owns an     *)
(* object by being the one to delete it, or through shared pointers of its *)
(* own.  The finalizer of a userdata destroys what the userdata owns.      *)
(*                                                                         *)
(* The program is taken to keep the rules of the library: an object is     *)
(* handed to Lua by whoever owns it; all pointers to the object of a       *)
(* shared pointer are pushed as shared pointers; a shared pointer is only  *)
(* pulled from a userdata which holds one ("only defined when it is a      *)
(* shared pointer", oolua_config.h:262); and a raw pointer is pushed while *)
(* its object is owned by C++ or reached through its own userdata.         *)
(***************************************************************************)
EXTENDS PointerCache, Integers, FiniteSets

CONSTANTS
  Object,     \* objects with a life of their own
  Whole,      \* the object a pointer points into
  Shared,     \* the pointers the program keeps in shared pointers
  Deletable,  \* raw pointers through which an object may be deleted
  MaxUses     \* bound: shared pointers to one object in the C++ program

Managed == {Whole[p] : p \in Shared}

ASSUME OwnershipAssumption ==
  /\ Whole \in [Ptr -> Object]
  /\ Shared \subseteq Ptr
  /\ Deletable \subseteq Ptr \ Shared
  /\ \A p, q \in Ptr : Related(p, q) => /\ Whole[p] = Whole[q]
                                        /\ (p \in Shared) <=> (q \in Shared)
  /\ \A p \in Deletable : Whole[p] \notin Managed
  /\ MaxUses \in Nat \ {0}
  /\ IsFiniteSet(Ud)
  /\ "cpp" \notin Ud  \* the C++ program, as an owner

\* The classes through which an object may be deleted, its own and the bases with
\* a virtual destructor, form a chain.
DeletableIsChain ==
  \A p, q \in Deletable : Whole[p] = Whole[q] => Related(p, q)

VARIABLES
  alive,     \* the objects which have been constructed and not destroyed
  cppUses,   \* shared pointers in the C++ program; 1 when C++ is to delete a raw object
  useCount,  \* the use count in the control block of the shared pointers
  shared     \* the userdata with SHARED_FLAG

memory == <<alive, cppUses, useCount, shared>>
allVars == <<vars, memory>>

-----------------------------------------------------------------------------
(* The C++ program. *)

OwnershipInit ==
  /\ Init
  /\ alive = {}
  /\ cppUses = [o \in Object |-> 0]
  /\ useCount = [o \in Object |-> 0]
  /\ shared = {}

\* An object is created in C++ and, when it is managed, put in a shared pointer.
CppNew(o) ==
  /\ o \notin alive
  /\ alive' = alive \cup {o}
  /\ cppUses' = [cppUses EXCEPT ![o] = 1]
  /\ useCount' = [useCount EXCEPT ![o] = IF o \in Managed THEN 1 ELSE 0]
  /\ UNCHANGED <<vars, shared>>

CppDelete(o) ==
  /\ o \notin Managed
  /\ cppUses[o] = 1
  /\ alive' = alive \ {o}
  /\ cppUses' = [cppUses EXCEPT ![o] = 0]
  /\ UNCHANGED <<vars, useCount, shared>>

\* The number of shared pointers to o changes; at zero the object is deleted.
Count(o, change) ==
  /\ useCount' = [useCount EXCEPT ![o] = @ + change]
  /\ alive' = IF useCount[o] + change = 0 THEN alive \ {o} ELSE alive

CppCopy(o) ==
  /\ o \in Managed
  /\ cppUses[o] \in 1 .. MaxUses - 1
  /\ cppUses' = [cppUses EXCEPT ![o] = @ + 1]
  /\ Count(o, 1)
  /\ UNCHANGED <<vars, shared>>

CppRelease(o) ==
  /\ o \in Managed
  /\ cppUses[o] > 0
  /\ cppUses' = [cppUses EXCEPT ![o] = @ - 1]
  /\ Count(o, -1)
  /\ UNCHANGED <<vars, shared>>

-----------------------------------------------------------------------------
(* Raw pointers. *)

\* What the responsibility of C++ for o becomes when u is given to an owner.
Responsible(o, owner) == CASE owner = "Lua" -> [cppUses EXCEPT ![o] = 0]
                           [] owner = "Cpp" -> [cppUses EXCEPT ![o] = 1]
                           [] OTHER         -> cppUses

\* The program may push p: it owns the object, or got it from its userdata.
Reaches(p) == \/ cppUses[Whole[p]] > 0
              \/ \E u \in held : ptr[u] \in Deletable /\ Whole[ptr[u]] = Whole[p]

\* A push, with the owner a trait says (lua_return, lua_out_p, lua_acquire_ptr
\* in a call, No_change for the others) or the third argument of OOLUA::push.
PushRaw(p, isConst, owner) ==
  /\ p \notin Shared
  /\ Whole[p] \in alive
  /\ Reaches(p)
  /\ owner # "No_change" => p \in Deletable
  /\ owner = "Lua" => cppUses[Whole[p]] = 1
  /\ Push(p, isConst, owner)
  /\ cppUses' = Responsible(Whole[p], owner)
  /\ UNCHANGED <<alive, useCount, shared>>

\* new called from Lua, an operator or a return by value, without a shared tag.
ConstructRaw(p) ==
  /\ p \in Deletable
  /\ Whole[p] \notin alive
  /\ Construct(p)
  /\ alive' = alive \cup {Whole[p]}
  /\ UNCHANGED <<cppUses, useCount, shared>>

\* Mutant: an object which C++ acquires is still deleted by Lua.
AcquireRaw_KeepsFlag(u, c, isConst) ==
  /\ u \in held
  /\ ptr[u] \in Deletable /\ Whole[ptr[u]] \in alive
  /\ isConst \/ "const" \notin flags[u]
  /\ Extract(ptr[u], c) # NULL
  /\ cppUses' = Responsible(Whole[ptr[u]], "Cpp")
  /\ UNCHANGED <<vars, alive, useCount, shared>>

\* cpp_acquire_ptr, of a userdata whose object may be deleted through it.
AcquireRaw(u, c, isConst) ==
  /\ u \notin shared
  /\ CppAcquire(u, c, isConst)
  /\ ptr[u] \in Deletable
  /\ Whole[ptr[u]] \in alive
  /\ cppUses' = Responsible(Whole[ptr[u]], "Cpp")
  /\ UNCHANGED <<alive, useCount, shared>>

\* instance:set_owner(owner) for a raw pointer: C++ gives up the object, or is
\* given it.
SetOwnerRaw(u, owner) ==
  /\ u \notin shared
  /\ LuaSetOwner(u, owner)
  /\ ptr[u] \in Deletable
  /\ Whole[ptr[u]] \in alive
  /\ cppUses' = Responsible(Whole[ptr[u]], owner)
  /\ UNCHANGED <<alive, useCount, shared>>

-----------------------------------------------------------------------------
(* Shared pointers. *)

\* push_shared_pointer when find_ud returns nothing: add_ptr for a shared
\* pointer copies it into the userdata and sets GC_FLAG and SHARED_FLAG.
PushSharedNew(p, isConst) ==
  /\ p \in Shared
  /\ cppUses[Whole[p]] > 0
  /\ Candidates(p) = {}
  /\ \E u \in Ud : AddPtr(u, p, isConst, "Lua") /\ shared' = shared \cup {u}
  /\ Count(Whole[p], 1)
  /\ UNCHANGED cppUses

\* A userdata of the class, or of a derived one, already keeps the object.
PushSharedServed(p, isConst) ==
  /\ p \in Shared
  /\ cppUses[Whole[p]] > 0
  /\ PushServed(p, isConst, "No_change")
  /\ UNCHANGED memory

\* Mutant: the shared pointer to the base is overwritten, not released.
PushSharedUpgraded_NoRelease(p, isConst) ==
  /\ p \in Shared
  /\ cppUses[Whole[p]] > 0
  /\ PushUpgraded(p, isConst, "No_change")
  /\ Count(Whole[p], 1)
  /\ UNCHANGED <<cppUses, shared>>

\* reset_metatable: shared_ptr_release destroys the shared pointer to the base,
\* and fixup_pointer copies the pushed one into its place.
PushSharedUpgraded(p, isConst) ==
  /\ p \in Shared
  /\ cppUses[Whole[p]] > 0
  /\ PushUpgraded(p, isConst, "No_change")
  /\ Count(Whole[p], 1 - 1)
  /\ UNCHANGED <<cppUses, shared>>

\* A class with the Shared tag is created by new, an operator or a return by
\* value: the local shared pointer is gone when the call returns.
ConstructShared(p) ==
  /\ p \in Shared
  /\ Whole[p] \notin alive
  /\ \A a \in Keys(p) : weak[a].uds = {}
  /\ \E u \in Ud : AddPtr(u, p, FALSE, "Lua") /\ shared' = shared \cup {u}
  /\ alive' = alive \cup {Whole[p]}
  /\ useCount' = [useCount EXCEPT ![Whole[p]] = 1]
  /\ UNCHANGED cppUses

\* Mutant: the temporary of valid_base_ptr_or_null is not destroyed.
PullShared_TemporaryKept(u, c, isConst) ==
  /\ u \in held \cap shared
  /\ isConst \/ "const" \notin flags[u]
  /\ Extract(ptr[u], c) # NULL
  /\ cppUses[Whole[ptr[u]]] < MaxUses
  /\ cppUses' = [cppUses EXCEPT ![Whole[ptr[u]]] = @ + 1]
  /\ Count(Whole[ptr[u]], IF c = ClassOf[ptr[u]] THEN 1 ELSE 2)
  /\ UNCHANGED <<vars, shared>>

\* A shared pointer to c, the class of the userdata or a base, is pulled or
\* taken as a parameter.  For a base, do_shared_cast makes a temporary, which
\* is copied and destroyed.
PullShared(u, c, isConst) ==
  /\ u \in held \cap shared
  /\ isConst \/ "const" \notin flags[u]
  /\ Extract(ptr[u], c) # NULL
  /\ cppUses[Whole[ptr[u]]] < MaxUses
  /\ cppUses' = [cppUses EXCEPT ![Whole[ptr[u]]] = @ + 1]
  /\ Count(Whole[ptr[u]], 1)
  /\ UNCHANGED <<vars, shared>>

\* set_owner on a shared pointer changes GC_FLAG, which __gc then ignores.
SetOwnerShared(u, owner) ==
  /\ u \in shared
  /\ LuaSetOwner(u, owner)
  /\ UNCHANGED memory

-----------------------------------------------------------------------------
(* Finalizers. *)

\* __gc of a raw pointer: GC_FLAG says whether the object is destroyed.
FinalizeRaw(u) ==
  /\ u \notin shared
  /\ Finalize(u)
  /\ alive' = IF "gc" \in flags[u] THEN alive \ {Whole[ptr[u]]} ELSE alive
  /\ UNCHANGED <<cppUses, useCount, shared>>

\* Mutant: GC_FLAG is tested before SHARED_FLAG, and set_owner can clear it.
FinalizeShared_TestsOwner(u) ==
  /\ u \in shared
  /\ Finalize(u)
  /\ shared' = shared \ {u}
  /\ IF "gc" \in flags[u] THEN Count(Whole[ptr[u]], -1) ELSE UNCHANGED <<alive, useCount>>
  /\ UNCHANGED cppUses

\* The addresses cleanup_collision_tables looks up for a shared pointer.  It
\* takes the object itself for the shared pointer, so that the address comes
\* from the first word of the object, whatever that is.
StrayKeys(u) == {{}} \cup {Keys(q) : q \in {r \in Ptr : ClassOf[r] = ClassOf[ptr[u]]}}

\* __gc of a shared pointer: shared_delete destroys it, whatever GC_FLAG says.
FinalizeShared(u) ==
  /\ u \in shared
  /\ phase[u] = "doomed"
  /\ phase' = [phase EXCEPT ![u] = "free"]
  /\ ptr' = [ptr EXCEPT ![u] = NULL]
  /\ flags' = [flags EXCEPT ![u] = {}]
  /\ shared' = shared \ {u}
  /\ \E keys \in StrayKeys(u) :
       weak' = [a \in Addr |-> IF /\ "collision" \in flags[u]
                                  /\ a \in keys
                                  /\ weak[a].kind = "table"
                                  /\ weak[a].uds = {}
                               THEN NoEntry ELSE weak[a]]
  /\ Count(Whole[ptr[u]], -1)
  /\ UNCHANGED <<held, cppUses>>

OwnershipNext ==
  \/ \E o \in Object : CppNew(o) \/ CppDelete(o) \/ CppCopy(o) \/ CppRelease(o)
  \/ \E p \in Ptr, isConst \in BOOLEAN, owner \in Owner : PushRaw(p, isConst, owner)
  \/ \E p \in Ptr : ConstructRaw(p) \/ ConstructShared(p)
  \/ \E p \in Ptr, isConst \in BOOLEAN :
       PushSharedNew(p, isConst) \/ PushSharedServed(p, isConst) \/ PushSharedUpgraded(p, isConst)
  \/ \E u \in Ud, c \in Class, isConst \in BOOLEAN : AcquireRaw(u, c, isConst) \/ PullShared(u, c, isConst)
  \/ \E u \in Ud, owner \in Owner : SetOwnerRaw(u, owner) \/ SetOwnerShared(u, owner)
  \/ \E u \in Ud : Drop(u) /\ UNCHANGED memory
  \/ \E dead \in SUBSET Ud : Collect(dead) /\ UNCHANGED memory
  \/ \E u \in Ud : FinalizeRaw(u) \/ FinalizeShared(u)

OwnershipSpec == OwnershipInit /\ [][OwnershipNext]_allVars

\* Lua runs the finalizers of what it collects, and its cycles, which allocation
\* drives (or Script::gc), reach everything that stays unreachable.
Finalizes(u) == FinalizeRaw(u) \/ FinalizeShared(u)
Collects(u) == \E dead \in SUBSET Ud : u \in dead /\ Collect(dead) /\ UNCHANGED memory

FairOwnershipSpec ==
  /\ OwnershipSpec
  /\ \A u \in Ud : WF_allVars(Finalizes(u)) /\ WF_allVars(Collects(u))

-----------------------------------------------------------------------------
(* Properties *)

\* The userdata which own o: those which hold a shared pointer to it, and a raw
\* one with GC_FLAG; also while they wait for __gc.
OwningUd(o) == {u \in Ud : /\ phase[u] # "free"
                           /\ Whole[ptr[u]] = o
                           /\ u \in shared \/ "gc" \in flags[u]}

L == INSTANCE Lifetime WITH
       Holder <- Ud \cup {"cpp"},
       owners <- [o \in Object |-> OwningUd(o) \cup (IF cppUses[o] > 0 THEN {"cpp"} ELSE {})]

\* Whatever is pushed, pulled, handed over and collected, in any order, an
\* object is destroyed in the very step in which its last owner lets it go, and
\* an object without shared pointers is never owned by C++ and Lua at once.
ImplementsLifetime == L!Spec

\* The variables have their types, and only userdata in use hold shared pointers.
OwnershipTypeOK ==
  /\ TypeOK
  /\ alive \subseteq Object
  /\ cppUses \in [Object -> 0 .. MaxUses]
  /\ useCount \in [Object -> 0 .. MaxUses + Cardinality(Ud)]
  /\ shared \subseteq {u \in Ud : phase[u] # "free"}

\* The use count is the number of shared pointers there are, those in C++ and
\* those in userdata: none is forgotten when a userdata becomes one of a derived
\* class, when a base is pulled, or when set_owner was called on it.
UseCountExact ==
  \A o \in Managed : useCount[o] = cppUses[o] + Cardinality(OwningUd(o))

\* After every userdata is gone, the weak table has no entry: shared_pointer.cpp:986,
\* collisionIncludingSharedPtr_popInstancesThenCallGc_ThereIsNotEntryInTheWeakTableForThePointer.
NoEntryAfterGc ==
  (\A u \in Ud : phase[u] = "free") => \A a \in Addr : weak[a] = NoEntry

\* What C++ has given away and Lua has lost is destroyed in the end.
LostIsDestroyed ==
  \A o \in Object :
    o \in alive /\ cppUses[o] = 0 /\ (\A u \in held : Whole[ptr[u]] # o) ~> o \notin alive
=============================================================================
