--------------------------- MODULE OwnershipProofs ---------------------------
(***************************************************************************)
(* Theorems about the ownership of C++ objects, for every number of        *)
(* objects, userdata and shared pointers.  That the use counts are exact   *)
(* needs only that objects do not overlap; that Lua and C++ share objects  *)
(* as Lifetime says needs the layouts for which an object has one userdata.*)
(***************************************************************************)
EXTENDS Ownership, PointerCacheProofs, FiniteSetTheorems

-----------------------------------------------------------------------------
(* The cache within the larger system.  Every step of Ownership is a step  *)
(* of the cache; the __gc of a shared pointer is a finalizer which may     *)
(* clean up the wrong tables.                                              *)

LEMMA FinalizeSharedIsCleanup ==
  ASSUME NEW u \in Ud, FinalizeShared(u)
  PROVE  Cleanup(u)
<1>1. PICK keys \in StrayKeys(u) :
        weak' = [a \in Addr |-> IF /\ "collision" \in flags[u]
                                   /\ a \in keys
                                   /\ weak[a].kind = "table"
                                   /\ weak[a].uds = {}
                                THEN NoEntry ELSE weak[a]]
  BY DEF FinalizeShared
<1> DEFINE cleaned == {a \in Addr : /\ "collision" \in flags[u]
                                    /\ a \in keys
                                    /\ weak[a].kind = "table"
                                    /\ weak[a].uds = {}}
<1>2. /\ weak' = [a \in Addr |-> IF a \in cleaned THEN NoEntry ELSE weak[a]]
      /\ cleaned \in SUBSET {a \in Addr : weak[a].uds = {}}
  BY <1>1
<1> QED
  BY <1>2 DEF FinalizeShared, Cleanup

LEMMA OwnershipNextIsCacheNext ==
  ASSUME [OwnershipNext]_allVars
  PROVE  [CacheNext]_vars
<1>1. CASE UNCHANGED vars
  BY <1>1
<1>2. CASE UNCHANGED allVars
  BY <1>2 DEF allVars
<1>3. ASSUME NEW o \in Object, CppNew(o) \/ CppDelete(o) \/ CppCopy(o) \/ CppRelease(o)
      PROVE  UNCHANGED vars
  BY <1>3 DEF CppNew, CppDelete, CppCopy, CppRelease
<1>4. ASSUME NEW p \in Ptr, NEW isConst \in BOOLEAN, NEW owner \in Owner, PushRaw(p, isConst, owner)
      PROVE  Next
  BY <1>4 DEF PushRaw, Next
<1>5. ASSUME NEW p \in Ptr, ConstructRaw(p) \/ ConstructShared(p)
      PROVE  Next
  BY <1>5 DEF ConstructRaw, ConstructShared, Construct, Next
<1>6. ASSUME NEW p \in Ptr, NEW isConst \in BOOLEAN,
             PushSharedNew(p, isConst) \/ PushSharedServed(p, isConst) \/ PushSharedUpgraded(p, isConst)
      PROVE  Next
  <2>1. \E owner \in Owner : Push(p, isConst, owner)
    BY <1>6 DEF PushSharedNew, PushSharedServed, PushSharedUpgraded, Push, PushNew, Owner
  <2> QED
    BY <2>1 DEF Next
<1>7. ASSUME NEW u \in Ud, NEW c \in Class, NEW isConst \in BOOLEAN,
             AcquireRaw(u, c, isConst) \/ PullShared(u, c, isConst)
      PROVE  Next \/ UNCHANGED vars
  BY <1>7 DEF AcquireRaw, PullShared, Next
<1>8. ASSUME NEW u \in Ud, NEW owner \in Owner, SetOwnerRaw(u, owner) \/ SetOwnerShared(u, owner)
      PROVE  Next
  BY <1>8 DEF SetOwnerRaw, SetOwnerShared, Next
<1>9. ASSUME NEW u \in Ud, Drop(u)
      PROVE  Next
  BY <1>9 DEF Next
<1>10. ASSUME NEW dead \in SUBSET Ud, Collect(dead)
       PROVE  Next
  BY <1>10 DEF Next
<1>11. ASSUME NEW u \in Ud, FinalizeRaw(u) \/ FinalizeShared(u)
       PROVE  Cleanup(u)
  BY <1>11, FinalizeIsCleanup, FinalizeSharedIsCleanup DEF FinalizeRaw
<1> QED
  BY <1>1, <1>2, <1>3, <1>4, <1>5, <1>6, <1>7, <1>8, <1>9, <1>10, <1>11 DEF OwnershipNext, CacheNext

LEMMA OwnershipInitIsInit == OwnershipInit => Init
BY DEF OwnershipInit

\* With shared pointers too an object has one userdata.
THEOREM OwnedObjectsHaveOneUserdata ==
  ASSUME NoAliasedBase, NoAliasedClass, OneAddress, SingleInheritance
  PROVE  OwnershipSpec => []OneUserdata
<1>1. Exact
  BY DEF Exact
<1>2. OneInv /\ [OwnershipNext]_allVars => OneInv'
  BY <1>1, OneStep, OwnershipNextIsCacheNext
<1>3. OwnershipInit => OneInv
  BY OwnershipInitIsInit, OneInit
<1>4. OneInv => OneUserdata
  BY DEF OneInv
<1> QED
  BY <1>2, <1>3, <1>4, PTL DEF OwnershipSpec

\* With shared pointers too the cache implements Handles.
THEOREM OwnershipImplementsHandles ==
  ASSUME NoAliasedBase, NoAliasedClass, OneAddress
  PROVE  OwnershipSpec => ImplementsHandles
<1>1. Exact
  BY DEF Exact
<1>2. FindInv /\ [OwnershipNext]_allVars => FindInv' /\ [H!Next]_(H!vars)
  BY <1>1, FindStep, HandlesStep, OwnershipNextIsCacheNext
<1>3. OwnershipInit => FindInv /\ H!Init
  BY OneInit, OwnershipInitIsInit DEF OneInv, Init, H!Init, Live
<1> QED
  BY <1>2, <1>3, PTL DEF OwnershipSpec, ImplementsHandles, H!Spec

-----------------------------------------------------------------------------
(* Counting the shared pointers, in any layout where userdata stand for    *)
(* the objects they are found for, even if an object has several of them.  *)
(* The userdata which own a managed object are those with a shared pointer *)
(* to it, and each step adds one to them, or takes one away, or changes    *)
(* them among themselves.                                                  *)

Owns(u, o) == /\ phase[u] # "free"
              /\ Whole[ptr[u]] = o
              /\ u \in shared \/ "gc" \in flags[u]

MemoryType ==
  /\ alive \subseteq Object
  /\ cppUses \in [Object -> 0 .. MaxUses]
  /\ useCount \in [Object -> Nat]
  /\ shared \subseteq {u \in Ud : phase[u] # "free"}

\* The pointers which the program keeps in shared pointers are shared in Lua.
SharedMatches == \A u \in Ud : phase[u] # "free" => (u \in shared <=> ptr[u] \in Shared)

\* What a raw userdata with GC_FLAG will delete is in no shared pointer.
RawIsUnmanaged ==
  \A u \in Ud : phase[u] # "free" /\ u \notin shared /\ "gc" \in flags[u]
                => Whole[ptr[u]] \notin Managed

RawIsNotCounted == \A o \in Object \ Managed : useCount[o] = 0

\* An object in shared pointers lives as long as there is one.
CountedLive == \A o \in Managed : o \in alive <=> useCount[o] > 0

Userdata == SharedMatches /\ RawIsUnmanaged /\ shared \subseteq {u \in Ud : phase[u] # "free"}
Counted == MemoryType /\ Userdata /\ RawIsNotCounted /\ UseCountExact /\ CountedLive

CountInv == SoundInv /\ Counted

\* The layouts for which the cache finds the object itself.
FindsObject == NoAliasedBase /\ NoAliasedClass

LEMMA PtrTypes ==
  /\ \A p \in Ptr : Whole[p] \in Object
  /\ \A p \in Deletable : p \in Ptr /\ p \notin Shared /\ Whole[p] \notin Managed
  /\ \A p \in Shared : p \in Ptr /\ Whole[p] \in Managed
  /\ Managed \subseteq Object
BY OwnershipAssumption DEF Managed

LEMMA CountTypes ==
  ASSUME CountInv
  PROVE  /\ TypeInv
         /\ \A u \in Ud : phase[u] # "free" => ptr[u] \in Ptr /\ Whole[ptr[u]] \in Object
         /\ \A u \in Ud : phase[u] = "free" => u \notin shared
BY PtrTypes DEF CountInv, SoundInv, TypeInv, TypeOK, Counted, MemoryType

LEMMA OwningUdIsOwns == \A o : OwningUd(o) = {u \in Ud : Owns(u, o)}
BY DEF OwningUd, Owns

LEMMA OwningIsFinite ==
  ASSUME NEW o
  PROVE  /\ IsFiniteSet(OwningUd(o))
         /\ Cardinality(OwningUd(o)) \in Nat
         /\ Cardinality(OwningUd(o)) <= Cardinality(Ud)
         /\ Cardinality(OwningUd(o)) = 0 <=> OwningUd(o) = {}
<1>1. IsFiniteSet(Ud) /\ OwningUd(o) \in SUBSET Ud
  BY OwnershipAssumption DEF OwningUd
<1>2. IsFiniteSet(OwningUd(o)) /\ Cardinality(OwningUd(o)) <= Cardinality(Ud)
  BY <1>1, FS_Subset
<1> QED
  BY <1>2, FS_CardinalityType, FS_EmptySet

LEMMA CountsOf ==
  ASSUME CountInv, NEW o \in Managed
  PROVE  /\ o \in Object
         /\ useCount[o] = cppUses[o] + Cardinality(OwningUd(o))
         /\ useCount[o] \in Nat /\ cppUses[o] \in 0 .. MaxUses /\ cppUses[o] \in Nat
         /\ Cardinality(OwningUd(o)) \in Nat
         /\ Cardinality(OwningUd(o)) = 0 <=> OwningUd(o) = {}
         /\ o \in alive <=> useCount[o] > 0
<1>1. o \in Object
  BY PtrTypes
<1>2. useCount[o] = cppUses[o] + Cardinality(OwningUd(o)) /\ (o \in alive <=> useCount[o] > 0)
  BY DEF CountInv, Counted, UseCountExact, CountedLive
<1>3. useCount[o] \in Nat /\ cppUses[o] \in 0 .. MaxUses /\ MaxUses \in Nat
  BY <1>1, OwnershipAssumption DEF CountInv, Counted, MemoryType
<1> QED
  BY <1>1, <1>2, <1>3, OwningIsFinite

\* A raw userdata owns no managed object, and one with a shared pointer no other.
LEMMA SharedOwn ==
  ASSUME CountInv, NEW u \in Ud, NEW o \in Object, Owns(u, o)
  PROVE  u \in shared <=> o \in Managed
<1>1. phase[u] # "free" /\ Whole[ptr[u]] = o
  BY DEF Owns
<1>2. CASE u \in shared
  <2>1. ptr[u] \in Shared
    BY <1>1, <1>2 DEF CountInv, Counted, Userdata, SharedMatches
  <2> QED
    BY <1>1, <1>2, <2>1, PtrTypes
<1>3. CASE u \notin shared
  BY <1>1, <1>3 DEF Owns, CountInv, Counted, Userdata, RawIsUnmanaged
<1> QED
  BY <1>2, <1>3

\* A step which leaves the shared pointers as they are.
LEMMA CountsStay ==
  ASSUME CountInv, Userdata', alive' \subseteq Object, cppUses' \in [Object -> 0 .. MaxUses],
         useCount' = useCount,
         \A x \in Managed : /\ OwningUd(x)' = OwningUd(x) /\ cppUses'[x] = cppUses[x]
                            /\ x \in alive' <=> x \in alive
  PROVE  Counted'
<1>1. MemoryType'
  BY DEF CountInv, Counted, MemoryType, Userdata
<1>2. RawIsNotCounted' /\ CountedLive'
  BY DEF CountInv, Counted, RawIsNotCounted, CountedLive
<1>3. UseCountExact'
  BY DEF CountInv, Counted, UseCountExact
<1> QED
  BY <1>1, <1>2, <1>3 DEF Counted

\* A step which makes n of the shared pointers to one object, and leaves the others.
LEMMA CountsChange ==
  ASSUME CountInv, Userdata', NEW o \in Managed, NEW n \in Nat,
         useCount' = [useCount EXCEPT ![o] = n],
         n = cppUses'[o] + Cardinality(OwningUd(o)'),
         cppUses' \in [Object -> 0 .. MaxUses],
         \A x \in Managed \ {o} : OwningUd(x)' = OwningUd(x) /\ cppUses'[x] = cppUses[x],
         alive' \subseteq Object,
         \A x \in Managed \ {o} : x \in alive' <=> x \in alive,
         o \in alive' <=> n > 0
  PROVE  Counted'
<1>1. o \in Object /\ useCount \in [Object -> Nat]
  BY PtrTypes DEF CountInv, Counted, MemoryType
<1>2. MemoryType'
  BY <1>1 DEF MemoryType, Userdata
<1>3. RawIsNotCounted'
  BY <1>1 DEF CountInv, Counted, RawIsNotCounted
<1>4. \A x \in Managed : useCount'[x] = IF x = o THEN n ELSE useCount[x]
  BY <1>1, PtrTypes
<1>5. UseCountExact'
  <2> SUFFICES ASSUME NEW x \in Managed
               PROVE  useCount'[x] = cppUses'[x] + Cardinality(OwningUd(x)')
    BY DEF UseCountExact
  <2>1. CASE x = o
    <3>1. OwningUd(x)' = OwningUd(o)'
      BY <2>1 DEF OwningUd
    <3> QED
      BY <1>4, <2>1, <3>1
  <2>2. CASE x # o
    BY <1>4, <2>2 DEF CountInv, Counted, UseCountExact
  <2> QED
    BY <2>1, <2>2
<1>6. CountedLive'
  BY <1>4 DEF CountInv, Counted, CountedLive
<1> QED
  BY <1>2, <1>3, <1>5, <1>6 DEF Counted

\* One shared pointer more, or one less, to an object which has some.
LEMMA CountsBy ==
  ASSUME CountInv, Userdata', NEW o \in Managed, NEW change \in {1, -1}, Count(o, change),
         useCount[o] > 0,
         cppUses'[o] + Cardinality(OwningUd(o)') = cppUses[o] + Cardinality(OwningUd(o)) + change,
         cppUses' \in [Object -> 0 .. MaxUses],
         \A x \in Managed \ {o} : OwningUd(x)' = OwningUd(x) /\ cppUses'[x] = cppUses[x]
  PROVE  Counted'
<1> DEFINE n == useCount[o] + change
<1>1. useCount[o] = cppUses[o] + Cardinality(OwningUd(o)) /\ useCount[o] \in Nat /\ o \in alive
  BY CountsOf
<1>2. n \in Nat /\ n = cppUses[o] + Cardinality(OwningUd(o)) + change
  BY <1>1
<1>3. useCount' = [useCount EXCEPT ![o] = n] /\ alive' = IF n = 0 THEN alive \ {o} ELSE alive
  BY DEF Count
<1>4. alive' \subseteq Object /\ \A x \in Managed \ {o} : x \in alive' <=> x \in alive
  BY <1>3 DEF CountInv, Counted, MemoryType
<1>5. n = cppUses'[o] + Cardinality(OwningUd(o)')
  BY <1>2
<1>6. o \in alive' <=> n > 0
  BY <1>1, <1>2, <1>3
<1> HIDE DEF n
<1> QED
  BY <1>2, <1>3, <1>4, <1>5, <1>6, CountsChange

-----------------------------------------------------------------------------
(* What a push, cpp_acquire_ptr or set_owner does to the userdata u which  *)
(* stands, or comes to stand, for the object of p.                         *)

Settled(u, p, owner) ==
  /\ \A v \in Ud \ {u} : /\ phase'[v] = phase[v] /\ ptr'[v] = ptr[v]
                         /\ "gc" \in flags'[v] <=> "gc" \in flags[v]
  /\ phase'[u] = "live"
  /\ \/ phase[u] = "free" /\ ptr'[u] = p
     \/ phase[u] = "live" /\ ptr'[u] \in {p, ptr[u]} /\ Related(p, ptr[u])
  /\ "gc" \in flags'[u] <=> \/ owner = "Lua"
                            \/ owner = "No_change" /\ phase[u] = "live" /\ "gc" \in flags[u]

LEMMA GcOfOwner ==
  ASSUME NEW fl, NEW owner \in Owner
  PROVE  "gc" \in SetOwner(fl, owner) <=> owner = "Lua" \/ (owner = "No_change" /\ "gc" \in fl)
BY GcAfterSetOwner DEF Owner

LEMMA AddPtrSettles ==
  ASSUME TypeInv, NEW u \in Ud, NEW p \in Ptr, NEW isConst \in BOOLEAN, NEW owner \in Owner,
         AddPtr(u, p, isConst, owner)
  PROVE  Settled(u, p, owner) /\ phase[u] = "free"
<1> DEFINE fl == SetConst({}, isConst)
<1>1. "gc" \notin fl
  BY DEF SetConst
<1>2. /\ phase[u] = "free" /\ phase' = [phase EXCEPT ![u] = "live"]
      /\ ptr' = [ptr EXCEPT ![u] = p]
      /\ flags' = FlagsWith(u, SetOwner(fl, owner), Collided(u, Keys(p)))
      /\ phase \in [Ud -> {"free", "live", "doomed"}] /\ ptr \in [Ud -> Ptr \cup {NULL}]
  BY DEF AddPtr, TypeInv, TypeOK
<1> HIDE DEF fl
<1>3. \A v \in Ud : "gc" \in flags'[v] <=> "gc" \in (IF v = u THEN SetOwner(fl, owner) ELSE flags[v])
  BY <1>2 DEF FlagsWith
<1>4. "gc" \in SetOwner(fl, owner) <=> owner = "Lua"
  BY <1>1, GcOfOwner
<1> QED
  BY <1>2, <1>3, <1>4 DEF Settled

LEMMA ServeSettles ==
  ASSUME FindsObject, SoundInv, NEW p \in Ptr, NEW u \in Candidates(p),
         NEW isConst \in BOOLEAN, NEW owner \in Owner, Serve(u, p, isConst, owner)
  PROVE  Settled(u, p, owner) /\ u \in Ud /\ phase[u] = "live" /\ Related(p, ptr[u])
<1> DEFINE fl == IF isConst THEN flags[u] ELSE flags[u] \ {"const"}
<1>1. u \in Ud /\ phase[u] = "live" /\ Related(p, ptr[u])
  BY CandidateIsLive, CandidateIsRelated DEF SoundInv, FindsObject
<1>2. /\ phase' = phase /\ ptr' = ptr
      /\ \A v \in Ud : flags'[v] = IF v = u THEN SetOwner(fl, owner) ELSE flags[v]
  BY <1>1 DEF Serve, SoundInv, TypeInv, TypeOK
<1>3. "gc" \in fl <=> "gc" \in flags[u]
  OBVIOUS
<1> HIDE DEF fl
<1>4. "gc" \in SetOwner(fl, owner) <=> owner = "Lua" \/ (owner = "No_change" /\ "gc" \in fl)
  BY GcOfOwner
<1> QED
  BY <1>1, <1>2, <1>3, <1>4 DEF Settled

LEMMA ResetSettles ==
  ASSUME FindsObject, SoundInv, NEW p \in Ptr, NEW u \in Candidates(p),
         NEW isConst \in BOOLEAN, NEW owner \in Owner, ResetMetatable(u, p, isConst, owner)
  PROVE  Settled(u, p, owner) /\ u \in Ud /\ phase[u] = "live" /\ Related(p, ptr[u])
<1> DEFINE fl == SetConst(flags[u], isConst /\ "const" \in flags[u])
<1>1. u \in Ud /\ phase[u] = "live" /\ Related(p, ptr[u])
  BY CandidateIsLive, CandidateIsRelated DEF SoundInv, FindsObject
<1>2. /\ phase' = phase /\ ptr' = [ptr EXCEPT ![u] = p]
      /\ flags' = FlagsWith(u, SetOwner(fl, owner), Collided(u, BaseAddrs(p)))
      /\ ptr \in [Ud -> Ptr \cup {NULL}]
  BY DEF ResetMetatable, SoundInv, TypeInv, TypeOK
<1>3. "gc" \in fl <=> "gc" \in flags[u]
  BY DEF SetConst
<1> HIDE DEF fl
<1>4. \A v \in Ud : "gc" \in flags'[v] <=> "gc" \in (IF v = u THEN SetOwner(fl, owner) ELSE flags[v])
  BY <1>2 DEF FlagsWith
<1>5. "gc" \in SetOwner(fl, owner) <=> owner = "Lua" \/ (owner = "No_change" /\ "gc" \in fl)
  BY GcOfOwner
<1> QED
  BY <1>1, <1>2, <1>3, <1>4, <1>5 DEF Settled

\* A push settles one userdata, whichever of the three ways it goes.
LEMMA PushSettles ==
  ASSUME FindsObject, SoundInv, NEW p \in Ptr, NEW isConst \in BOOLEAN, NEW owner \in Owner,
         Push(p, isConst, owner)
  PROVE  \E u \in Ud : Settled(u, p, owner)
<1>1. CASE PushNew(p, isConst, owner)
  BY <1>1, AddPtrSettles DEF PushNew, SoundInv
<1>2. CASE PushServed(p, isConst, owner)
  BY <1>2, ServeSettles DEF PushServed
<1>3. CASE PushUpgraded(p, isConst, owner)
  BY <1>3, ResetSettles DEF PushUpgraded
<1> QED
  BY <1>1, <1>2, <1>3 DEF Push

\* set_owner and cpp_acquire_ptr settle a userdata for the pointer it stores.
LEMMA ChangeOwnerSettles ==
  ASSUME TypeInv, NEW u \in held, NEW owner \in Owner,
         flags' = [flags EXCEPT ![u] = SetOwner(@, owner)],
         UNCHANGED <<phase, ptr, weak, held>>
  PROVE  /\ Settled(u, ptr[u], owner)
         /\ u \in Ud /\ phase[u] = "live" /\ ptr[u] \in Ptr
<1>1. u \in Ud /\ phase[u] = "live" /\ ptr[u] \in Ptr /\ flags \in [Ud -> SUBSET Flag]
  BY DEF TypeInv, TypeOK
<1>2. Related(ptr[u], ptr[u])
  BY DEF Related
<1>3. "gc" \in SetOwner(flags[u], owner)
        <=> owner = "Lua" \/ (owner = "No_change" /\ "gc" \in flags[u])
  BY GcOfOwner
<1> QED
  BY <1>1, <1>2, <1>3 DEF Settled

\* Who owns what after a userdata was settled.
LEMMA SettledOwns ==
  ASSUME CountInv, NEW u \in Ud, NEW p \in Ptr, NEW owner \in Owner, Settled(u, p, owner),
         \A v \in Ud \ {u} : v \in shared' <=> v \in shared
  PROVE  /\ ptr'[u] \in Ptr /\ Whole[ptr'[u]] = Whole[p]
         /\ phase[u] = "live" => Whole[ptr[u]] = Whole[p]
         /\ \A o \in Object, v \in Ud \ {u} : Owns(v, o)' <=> Owns(v, o)
         /\ \A o \in Object : Owns(u, o) => o = Whole[p]
         /\ \A o \in Object : Owns(u, o)' <=>
              /\ o = Whole[p]
              /\ \/ u \in shared'
                 \/ owner = "Lua"
                 \/ owner = "No_change" /\ phase[u] = "live" /\ "gc" \in flags[u]
<1>1. phase[u] = "live" => ptr[u] \in Ptr
  BY CountTypes
<1>2. ptr'[u] \in Ptr
  BY <1>1 DEF Settled
<1>3. phase[u] = "live" => Whole[ptr[u]] = Whole[p]
  BY <1>1, OwnershipAssumption DEF Settled
<1>4. Whole[ptr'[u]] = Whole[p]
  BY <1>3 DEF Settled
<1>5. \A o \in Object, v \in Ud \ {u} : Owns(v, o)' <=> Owns(v, o)
  BY DEF Settled, Owns
<1>6. \A o \in Object : Owns(u, o) => o = Whole[p]
  BY <1>3 DEF Settled, Owns
<1> QED
  BY <1>2, <1>3, <1>4, <1>5, <1>6 DEF Settled, Owns

\* A userdata which is used again is shared when the pointer is.
LEMMA SettledMatches ==
  ASSUME CountInv, NEW u \in Ud, NEW p \in Ptr, NEW owner \in Owner, Settled(u, p, owner)
  PROVE  phase[u] = "live" => (u \in shared <=> p \in Shared)
<1> SUFFICES ASSUME phase[u] = "live"
             PROVE  u \in shared <=> p \in Shared
  OBVIOUS
<1>1. ptr[u] \in Ptr /\ Related(p, ptr[u])
  BY CountTypes DEF Settled
<1>2. p \in Shared <=> ptr[u] \in Shared
  BY <1>1, OwnershipAssumption
<1> QED
  BY <1>2 DEF CountInv, Counted, Userdata, SharedMatches

LEMMA SettledUserdata ==
  ASSUME CountInv, NEW u \in Ud, NEW p \in Ptr, NEW owner \in Owner, Settled(u, p, owner),
         \A v \in Ud \ {u} : v \in shared' <=> v \in shared, shared' \subseteq Ud,
         u \in shared' <=> p \in Shared,
         owner = "Lua" => p \in Shared \cup Deletable
  PROVE  Userdata'
<1>1. ptr'[u] \in Ptr /\ Whole[ptr'[u]] = Whole[p] /\ (phase[u] = "live" => Whole[ptr[u]] = Whole[p])
  BY SettledOwns
<1>2. SharedMatches'
  <2> SUFFICES ASSUME NEW v \in Ud, phase'[v] # "free"
               PROVE  v \in shared' <=> ptr'[v] \in Shared
    BY DEF SharedMatches
  <2>1. CASE v # u
    BY <2>1 DEF Settled, CountInv, Counted, Userdata, SharedMatches
  <2>2. CASE v = u
    <3>1. phase[u] = "live" => ptr[u] \in Ptr
      BY CountTypes
    <3>2. ptr'[u] \in Shared <=> p \in Shared
      BY <3>1, OwnershipAssumption DEF Settled
    <3> QED
      BY <2>2, <3>2
  <2> QED
    BY <2>1, <2>2
<1>3. RawIsUnmanaged'
  <2> SUFFICES ASSUME NEW v \in Ud, phase'[v] # "free", v \notin shared', "gc" \in flags'[v]
               PROVE  Whole[ptr'[v]] \notin Managed
    BY DEF RawIsUnmanaged, Managed
  <2>1. CASE v # u
    BY <2>1 DEF Settled, CountInv, Counted, Userdata, RawIsUnmanaged
  <2>2. CASE v = u /\ owner = "Lua"
    BY <1>1, <2>2, PtrTypes
  <2>3. CASE v = u /\ phase[u] = "live" /\ "gc" \in flags[u]
    <3>1. u \notin shared
      BY <2>3, SettledMatches
    <3>2. Whole[ptr[u]] \notin Managed
      BY <2>3, <3>1 DEF CountInv, Counted, Userdata, RawIsUnmanaged
    <3> QED
      BY <1>1, <2>3, <3>2
  <2> QED
    BY <2>1, <2>2, <2>3 DEF Settled
<1>4. shared' \subseteq {v \in Ud : phase'[v] # "free"}
  BY DEF Settled, CountInv, Counted, Userdata
<1> QED
  BY <1>2, <1>3, <1>4 DEF Userdata

\* A userdata without a new shared pointer owns the managed objects it owned.
LEMMA SettledKeepsManaged ==
  ASSUME CountInv, NEW u \in Ud, NEW p \in Ptr, NEW owner \in Owner, Settled(u, p, owner),
         shared' = shared, u \in shared <=> p \in Shared,
         phase[u] = "free" => p \notin Shared,
         owner = "Lua" => p \in Shared \cup Deletable,
         NEW x \in Managed
  PROVE  OwningUd(x)' = OwningUd(x)
<1>1. x \in Object
  BY PtrTypes
<1>2. \A v \in Ud \ {u} : Owns(v, x)' <=> Owns(v, x)
  BY <1>1, SettledOwns
<1>3. Owns(u, x)' => u \in shared
  <2> SUFFICES ASSUME Owns(u, x)', u \notin shared
               PROVE  FALSE
    OBVIOUS
  <2>1. x = Whole[p] /\ (owner = "Lua" \/ (phase[u] = "live" /\ "gc" \in flags[u]))
    BY <1>1, SettledOwns
  <2>2. CASE owner = "Lua"
    <3>1. p \in Deletable
      BY <2>2
    <3>2. Whole[p] \notin Managed
      BY <3>1, PtrTypes
    <3> QED
      BY <2>1, <3>2
  <2>3. CASE phase[u] = "live" /\ "gc" \in flags[u]
    <3>1. Owns(u, x)
      BY <2>1, <2>3, SettledOwns DEF Owns
    <3> QED
      BY <1>1, <3>1, SharedOwn
  <2> QED
    BY <2>1, <2>2, <2>3
<1>4. Owns(u, x) => u \in shared
  BY <1>1, SharedOwn
<1>5. u \in shared => (Owns(u, x)' <=> Owns(u, x))
  <2>1. u \in shared => phase[u] = "live"
    BY DEF Settled
  <2>2. phase[u] = "live" => Whole[ptr[u]] = Whole[p]
    BY SettledOwns
  <2>3. u \in shared => (Owns(u, x)' <=> x = Whole[p])
    BY <1>1, SettledOwns
  <2> QED
    BY <2>1, <2>2, <2>3 DEF Owns
<1>6. \A v \in Ud : Owns(v, x)' <=> Owns(v, x)
  BY <1>2, <1>3, <1>4, <1>5
<1>7. OwningUd(x) = {v \in Ud : Owns(v, x)} /\ OwningUd(x)' = {v \in Ud : Owns(v, x)'}
  BY OwningUdIsOwns DEF OwningUd, Owns
<1> QED
  BY <1>6, <1>7

-----------------------------------------------------------------------------
(* Each step keeps the counts right.  Raw pointers leave them alone: what  *)
(* they hand over is in no shared pointer.                                 *)

LEMMA RawCounts ==
  ASSUME CountInv, NEW u \in Ud, NEW p \in Ptr, NEW owner \in Owner, Settled(u, p, owner),
         p \notin Shared, owner # "No_change" => p \in Deletable,
         cppUses' = Responsible(Whole[p], owner),
         UNCHANGED <<alive, useCount, shared>>
  PROVE  Counted'
<1>1. u \notin shared
  BY CountTypes, SettledMatches DEF Settled
<1>2. owner = "Lua" => p \in Shared \cup Deletable
  OBVIOUS
<1>3. Userdata'
  BY <1>1, <1>2, SettledUserdata DEF CountInv, Counted, Userdata
<1>4. \A x \in Managed : OwningUd(x)' = OwningUd(x)
  BY <1>1, <1>2, SettledKeepsManaged
<1>5. cppUses' \in [Object -> 0 .. MaxUses]
  BY PtrTypes, OwnershipAssumption DEF CountInv, Counted, MemoryType, Responsible, Owner
<1>6. \A x \in Managed : cppUses'[x] = cppUses[x]
  <2>1. owner # "No_change" => Whole[p] \notin Managed
    BY PtrTypes
  <2> QED
    BY <2>1, PtrTypes DEF CountInv, Counted, MemoryType, Responsible, Owner
<1> QED
  BY <1>3, <1>4, <1>5, <1>6, CountsStay DEF CountInv, Counted, MemoryType

LEMMA PushRawCounts ==
  ASSUME FindsObject, CountInv, NEW p \in Ptr, NEW isConst \in BOOLEAN, NEW owner \in Owner,
         PushRaw(p, isConst, owner)
  PROVE  Counted'
<1>1. PICK u \in Ud : Settled(u, p, owner)
  BY PushSettles DEF PushRaw, CountInv
<1> QED
  BY <1>1, RawCounts DEF PushRaw

LEMMA HeldRawCounts ==
  ASSUME CountInv, NEW u \in held, NEW owner \in Owner,
         flags' = [flags EXCEPT ![u] = SetOwner(@, owner)],
         UNCHANGED <<phase, ptr, weak, held>>,
         ptr[u] \in Deletable,
         cppUses' = Responsible(Whole[ptr[u]], owner),
         UNCHANGED <<alive, useCount, shared>>
  PROVE  Counted'
<1>1. Settled(u, ptr[u], owner) /\ u \in Ud /\ ptr[u] \in Ptr
  BY CountTypes, ChangeOwnerSettles
<1>2. ptr[u] \notin Shared
  BY PtrTypes
<1> QED
  BY <1>1, <1>2, RawCounts

LEMMA ChangeOwnerRawCounts ==
  ASSUME CountInv, NEW u \in Ud
  PROVE  /\ \A c \in Class, isConst \in BOOLEAN : AcquireRaw(u, c, isConst) => Counted'
         /\ \A owner \in Owner : SetOwnerRaw(u, owner) => Counted'
<1>1. ASSUME NEW c \in Class, NEW isConst \in BOOLEAN, AcquireRaw(u, c, isConst)
      PROVE  Counted'
  <2> "Cpp" \in Owner
    BY DEF Owner
  <2> QED
    BY <1>1, HeldRawCounts DEF AcquireRaw, CppAcquire
<1>2. ASSUME NEW owner \in Owner, SetOwnerRaw(u, owner)
      PROVE  Counted'
  BY <1>2, HeldRawCounts DEF SetOwnerRaw, LuaSetOwner
<1> QED
  BY <1>1, <1>2

LEMMA ConstructRawCounts ==
  ASSUME CountInv, NEW p \in Ptr, ConstructRaw(p)
  PROVE  Counted'
<1>1. PICK u \in Ud : AddPtr(u, p, FALSE, "Lua")
  BY DEF ConstructRaw, Construct
<1>2. "Lua" \in Owner /\ p \in Deletable /\ p \notin Shared /\ Whole[p] \in Object \ Managed
  BY PtrTypes DEF Owner, ConstructRaw
<1>3. Settled(u, p, "Lua") /\ phase[u] = "free" /\ u \notin shared
  BY <1>1, <1>2, CountTypes, AddPtrSettles
<1>4. Userdata'
  BY <1>2, <1>3, SettledUserdata DEF ConstructRaw, CountInv, Counted, Userdata
<1>5. \A x \in Managed : OwningUd(x)' = OwningUd(x)
  BY <1>2, <1>3, SettledKeepsManaged DEF ConstructRaw
<1>6. alive' \subseteq Object /\ \A x \in Managed : x \in alive' <=> x \in alive
  BY <1>2 DEF ConstructRaw, CountInv, Counted, MemoryType
<1> QED
  BY <1>4, <1>5, <1>6, CountsStay DEF ConstructRaw, CountInv, Counted, MemoryType

\* A shared pointer is pushed for which there is a userdata, or changes its flag:
\* the userdata holds one pointer to the object before and after.
LEMMA SharedStays ==
  ASSUME CountInv, NEW u \in Ud, NEW p \in Shared, NEW owner \in Owner, Settled(u, p, owner),
         phase[u] = "live", shared' = shared
  PROVE  /\ Userdata'
         /\ \A x \in Managed : OwningUd(x)' = OwningUd(x)
<1>1. p \in Ptr
  BY PtrTypes
<1>2. u \in shared
  BY <1>1, SettledMatches
<1>3. Userdata'
  BY <1>1, <1>2, SettledUserdata DEF CountInv, Counted, Userdata
<1>4. \A x \in Managed : OwningUd(x)' = OwningUd(x)
  BY <1>1, <1>2, SettledKeepsManaged
<1> QED
  BY <1>3, <1>4

LEMMA SharedStaysCounted ==
  ASSUME CountInv, NEW u \in Ud, NEW p \in Shared, NEW owner \in Owner, Settled(u, p, owner),
         phase[u] = "live", UNCHANGED memory
  PROVE  Counted'
<1>1. shared' = shared /\ alive' = alive /\ cppUses' = cppUses /\ useCount' = useCount
  BY DEF memory
<1>2. Userdata' /\ \A x \in Managed : OwningUd(x)' = OwningUd(x)
  BY <1>1, SharedStays
<1> QED
  BY <1>1, <1>2, CountsStay DEF CountInv, Counted, MemoryType

LEMMA PushSharedServedCounts ==
  ASSUME FindsObject, CountInv, NEW p \in Ptr, NEW isConst \in BOOLEAN, PushSharedServed(p, isConst)
  PROVE  Counted'
<1>1. PICK u \in Candidates(p) : Serve(u, p, isConst, "No_change")
  BY DEF PushSharedServed, PushServed
<1>2. "No_change" \in Owner
  BY DEF Owner
<1>3. Settled(u, p, "No_change") /\ u \in Ud /\ phase[u] = "live"
  BY <1>1, <1>2, ServeSettles DEF CountInv
<1> QED
  BY <1>2, <1>3, SharedStaysCounted DEF PushSharedServed

\* The shared pointer to the base is released and one to the derived class is
\* taken: the count stays as it is, and above zero, since C++ has one.
LEMMA UpgradeKeepsMemory ==
  ASSUME CountInv, NEW p \in Shared, cppUses[Whole[p]] > 0, Count(Whole[p], 1 - 1)
  PROVE  useCount' = useCount /\ alive' = alive
<1> DEFINE o == Whole[p]
<1>1. o \in Managed /\ o \in Object
  BY PtrTypes
<1>2. useCount[o] \in Nat /\ useCount[o] > 0
  BY <1>1, CountsOf
<1>3. useCount[o] + (1 - 1) = useCount[o]
  BY <1>2
<1>4. useCount' = [useCount EXCEPT ![o] = useCount[o]]
  BY <1>3 DEF Count
<1> QED
  BY <1>1, <1>2, <1>3, <1>4 DEF Count, CountInv, Counted, MemoryType

LEMMA PushSharedUpgradedCounts ==
  ASSUME FindsObject, CountInv, NEW p \in Ptr, NEW isConst \in BOOLEAN, PushSharedUpgraded(p, isConst)
  PROVE  Counted'
<1>1. PICK u \in Candidates(p) : ResetMetatable(u, p, isConst, "No_change")
  BY DEF PushSharedUpgraded, PushUpgraded
<1>2. "No_change" \in Owner
  BY DEF Owner
<1>3. Settled(u, p, "No_change") /\ u \in Ud /\ phase[u] = "live"
  BY <1>1, <1>2, ResetSettles DEF CountInv
<1>4. UNCHANGED memory
  BY UpgradeKeepsMemory DEF PushSharedUpgraded, memory
<1> QED
  BY <1>2, <1>3, <1>4, SharedStaysCounted DEF PushSharedUpgraded

LEMMA SetOwnerSharedCounts ==
  ASSUME CountInv, NEW u \in Ud, NEW owner \in Owner, SetOwnerShared(u, owner)
  PROVE  Counted'
<1>1. Settled(u, ptr[u], owner) /\ phase[u] = "live"
  BY CountTypes, ChangeOwnerSettles DEF SetOwnerShared, LuaSetOwner
<1>2. ptr[u] \in Shared
  BY <1>1 DEF SetOwnerShared, CountInv, Counted, Userdata, SharedMatches
<1> QED
  BY <1>1, <1>2, SharedStaysCounted DEF SetOwnerShared

\* A new userdata holds one more shared pointer.
LEMMA NewShared ==
  ASSUME CountInv, NEW u \in Ud, NEW p \in Shared, Settled(u, p, "Lua"),
         phase[u] = "free", shared' = shared \cup {u}
  PROVE  /\ Userdata'
         /\ OwningUd(Whole[p])' = OwningUd(Whole[p]) \cup {u}
         /\ Cardinality(OwningUd(Whole[p])') = Cardinality(OwningUd(Whole[p])) + 1
         /\ \A x \in Object \ {Whole[p]} : OwningUd(x)' = OwningUd(x)
<1> DEFINE o == Whole[p]
<1>1. p \in Ptr /\ o \in Object /\ "Lua" \in Owner /\ u \notin shared
  BY PtrTypes, CountTypes DEF Owner
<1>2. Userdata'
  BY <1>1, SettledUserdata DEF CountInv, Counted, Userdata
<1>3. \A x : OwningUd(x) = {v \in Ud : Owns(v, x)} /\ OwningUd(x)' = {v \in Ud : Owns(v, x)'}
  BY OwningUdIsOwns DEF OwningUd, Owns
<1>4. /\ \A x \in Object, v \in Ud \ {u} : Owns(v, x)' <=> Owns(v, x)
      /\ \A x \in Object : Owns(u, x)' <=> x = o
      /\ \A x \in Object : ~Owns(u, x)
  BY <1>1, SettledOwns DEF Owns
<1>5. OwningUd(o)' = OwningUd(o) \cup {u} /\ u \notin OwningUd(o)
  <2>1. \A v \in Ud : Owns(v, o)' <=> Owns(v, o) \/ v = u
    BY <1>1, <1>4
  <2>2. ~Owns(u, o)
    BY <1>1, <1>4
  <2> QED
    BY <1>3, <2>1, <2>2
<1>6. \A x \in Object \ {o} : OwningUd(x)' = OwningUd(x)
  <2>1. \A x \in Object \ {o}, v \in Ud : Owns(v, x)' <=> Owns(v, x)
    BY <1>4
  <2> QED
    BY <1>3, <2>1
<1>7. Cardinality(OwningUd(o)') = Cardinality(OwningUd(o)) + 1
  BY <1>5, OwningIsFinite, FS_AddElement
<1> QED
  BY <1>2, <1>5, <1>6, <1>7

LEMMA PushSharedNewCounts ==
  ASSUME CountInv, NEW p \in Ptr, NEW isConst \in BOOLEAN, PushSharedNew(p, isConst)
  PROVE  Counted'
<1> DEFINE o == Whole[p]
<1>1. PICK u \in Ud : AddPtr(u, p, isConst, "Lua") /\ shared' = shared \cup {u}
  BY DEF PushSharedNew
<1>2. "Lua" \in Owner /\ p \in Shared /\ o \in Managed /\ cppUses[o] > 0 /\ cppUses' = cppUses
  BY PtrTypes DEF Owner, PushSharedNew
<1>3. Settled(u, p, "Lua") /\ phase[u] = "free"
  BY <1>1, <1>2, CountTypes, AddPtrSettles
<1>4. /\ Userdata'
      /\ Cardinality(OwningUd(o)') = Cardinality(OwningUd(o)) + 1
      /\ \A x \in Object \ {o} : OwningUd(x)' = OwningUd(x)
  BY <1>1, <1>2, <1>3, NewShared
<1>5. useCount[o] > 0 /\ cppUses[o] \in Nat /\ Cardinality(OwningUd(o)) \in Nat
  BY <1>2, CountsOf
<1>6. Count(o, 1) /\ cppUses' \in [Object -> 0 .. MaxUses]
  BY <1>2 DEF PushSharedNew, CountInv, Counted, MemoryType
<1>7. cppUses'[o] + Cardinality(OwningUd(o)') = cppUses[o] + Cardinality(OwningUd(o)) + 1
  BY <1>2, <1>4, <1>5
<1>8. \A x \in Managed \ {o} : OwningUd(x)' = OwningUd(x) /\ cppUses'[x] = cppUses[x]
  BY <1>2, <1>4, PtrTypes
<1> QED
  BY <1>2, <1>4, <1>5, <1>6, <1>7, <1>8, CountsBy

LEMMA ConstructSharedCounts ==
  ASSUME CountInv, NEW p \in Ptr, ConstructShared(p)
  PROVE  Counted'
<1> DEFINE o == Whole[p]
<1>1. PICK u \in Ud : AddPtr(u, p, FALSE, "Lua") /\ shared' = shared \cup {u}
  BY DEF ConstructShared
<1>2. "Lua" \in Owner /\ p \in Shared /\ o \in Managed /\ o \in Object /\ cppUses' = cppUses
  BY PtrTypes DEF Owner, ConstructShared
<1>3. Settled(u, p, "Lua") /\ phase[u] = "free"
  BY <1>1, <1>2, CountTypes, AddPtrSettles
<1>4. /\ Userdata'
      /\ Cardinality(OwningUd(o)') = Cardinality(OwningUd(o)) + 1
      /\ \A x \in Object \ {o} : OwningUd(x)' = OwningUd(x)
  BY <1>1, <1>2, <1>3, NewShared
<1>5. cppUses[o] = 0 /\ Cardinality(OwningUd(o)) = 0
  <2>1. o \notin alive
    BY DEF ConstructShared
  <2> QED
    BY <1>2, <2>1, CountsOf
<1>6. /\ useCount' = [useCount EXCEPT ![o] = 1]
      /\ alive' = alive \cup {o} /\ alive' \subseteq Object
      /\ cppUses' \in [Object -> 0 .. MaxUses]
  BY <1>2 DEF ConstructShared, CountInv, Counted, MemoryType
<1>7. 1 = cppUses'[o] + Cardinality(OwningUd(o)')
  BY <1>2, <1>4, <1>5
<1>8. \A x \in Managed \ {o} : /\ OwningUd(x)' = OwningUd(x) /\ cppUses'[x] = cppUses[x]
                               /\ x \in alive' <=> x \in alive
  BY <1>2, <1>4, <1>6, PtrTypes
<1>9. 1 \in Nat /\ (o \in alive' <=> 1 > 0)
  BY <1>6
<1> QED
  BY <1>2, <1>4, <1>6, <1>7, <1>8, <1>9, CountsChange

\* In C++: the userdata are as they were.
LEMMA CppKeepsUserdata ==
  ASSUME CountInv, UNCHANGED <<vars, shared>>
  PROVE  Userdata' /\ \A x : OwningUd(x)' = OwningUd(x)
<1>1. phase' = phase /\ ptr' = ptr /\ flags' = flags /\ shared' = shared
  BY DEF vars
<1> QED
  BY <1>1 DEF CountInv, Counted, Userdata, SharedMatches, RawIsUnmanaged, OwningUd

LEMMA CppNewCounts ==
  ASSUME CountInv, NEW o \in Object, CppNew(o)
  PROVE  Counted'
<1>1. /\ UNCHANGED <<vars, shared>> /\ o \notin alive /\ alive' = alive \cup {o}
      /\ cppUses' = [cppUses EXCEPT ![o] = 1]
      /\ useCount' = [useCount EXCEPT ![o] = IF o \in Managed THEN 1 ELSE 0]
  BY DEF CppNew
<1>2. Userdata' /\ \A x : OwningUd(x)' = OwningUd(x)
  BY <1>1, CppKeepsUserdata
<1>3. /\ alive' \subseteq Object /\ cppUses' \in [Object -> 0 .. MaxUses]
      /\ \A x \in Managed \ {o} : cppUses'[x] = cppUses[x] /\ (x \in alive' <=> x \in alive)
  BY <1>1, PtrTypes, OwnershipAssumption DEF CountInv, Counted, MemoryType
<1>4. CASE o \in Managed
  <2>1. Cardinality(OwningUd(o)) = 0
    BY <1>1, <1>4, CountsOf
  <2>2. OwningUd(o)' = OwningUd(o)
    BY <1>2 DEF OwningUd
  <2>3. 1 = cppUses'[o] + Cardinality(OwningUd(o)')
    BY <1>1, <2>1, <2>2 DEF CountInv, Counted, MemoryType
  <2>4. 1 \in Nat /\ (o \in alive' <=> 1 > 0) /\ useCount' = [useCount EXCEPT ![o] = 1]
    BY <1>1, <1>4
  <2> QED
    BY <1>2, <1>3, <1>4, <2>3, <2>4, CountsChange
<1>5. CASE o \notin Managed
  <2>1. useCount' = useCount
    BY <1>1, <1>5 DEF CountInv, Counted, MemoryType, RawIsNotCounted
  <2> QED
    BY <1>2, <1>3, <1>5, <2>1, CountsStay
<1> QED
  BY <1>4, <1>5

LEMMA CppDeleteCounts ==
  ASSUME CountInv, NEW o \in Object, CppDelete(o)
  PROVE  Counted'
<1>1. /\ UNCHANGED <<vars, shared>> /\ o \notin Managed
      /\ cppUses' = [cppUses EXCEPT ![o] = 0] /\ alive' = alive \ {o} /\ useCount' = useCount
  BY DEF CppDelete
<1>2. Userdata' /\ \A x : OwningUd(x)' = OwningUd(x)
  BY <1>1, CppKeepsUserdata
<1>3. alive' \subseteq Object /\ cppUses' \in [Object -> 0 .. MaxUses]
  BY <1>1, OwnershipAssumption DEF CountInv, Counted, MemoryType
<1>4. \A x \in Managed : cppUses'[x] = cppUses[x] /\ (x \in alive' <=> x \in alive)
  BY <1>1, PtrTypes DEF CountInv, Counted, MemoryType
<1> QED
  BY <1>1, <1>2, <1>3, <1>4, CountsStay

\* C++ copies, pulls or releases a shared pointer.
LEMMA CppCounts ==
  ASSUME CountInv, UNCHANGED <<vars, shared>>, NEW o \in Managed, NEW change \in {1, -1},
         cppUses' = [cppUses EXCEPT ![o] = cppUses[o] + change], Count(o, change),
         cppUses[o] + change \in 0 .. MaxUses, useCount[o] > 0
  PROVE  Counted'
<1>1. Userdata' /\ \A x : OwningUd(x)' = OwningUd(x)
  BY CppKeepsUserdata
<1>2. o \in Object /\ cppUses[o] \in Nat /\ Cardinality(OwningUd(o)) \in Nat
  BY CountsOf
<1>3. /\ cppUses' \in [Object -> 0 .. MaxUses] /\ cppUses'[o] = cppUses[o] + change
      /\ \A x \in Managed \ {o} : cppUses'[x] = cppUses[x]
  BY <1>2, PtrTypes DEF CountInv, Counted, MemoryType
<1>4. cppUses'[o] + Cardinality(OwningUd(o)') = cppUses[o] + Cardinality(OwningUd(o)) + change
  <2>1. OwningUd(o)' = OwningUd(o)
    BY <1>1 DEF OwningUd
  <2> QED
    BY <1>2, <1>3, <2>1
<1> QED
  BY <1>1, <1>3, <1>4, CountsBy

LEMMA CppCopyCounts ==
  ASSUME CountInv, NEW o \in Object, CppCopy(o)
  PROVE  Counted'
<1>1. /\ UNCHANGED <<vars, shared>> /\ o \in Managed /\ cppUses[o] \in 1 .. MaxUses - 1
      /\ cppUses' = [cppUses EXCEPT ![o] = cppUses[o] + 1] /\ Count(o, 1)
  BY DEF CppCopy
<1>2. cppUses[o] + 1 \in 0 .. MaxUses /\ useCount[o] > 0
  BY <1>1, CountsOf, OwnershipAssumption
<1> QED
  BY <1>1, <1>2, CppCounts

LEMMA CppReleaseCounts ==
  ASSUME CountInv, NEW o \in Object, CppRelease(o)
  PROVE  Counted'
<1>1. /\ UNCHANGED <<vars, shared>> /\ o \in Managed /\ cppUses[o] > 0
      /\ cppUses' = [cppUses EXCEPT ![o] = cppUses[o] - 1] /\ Count(o, -1)
  BY DEF CppRelease
<1>2. cppUses[o] \in 0 .. MaxUses /\ useCount[o] > 0 /\ MaxUses \in Nat
  BY <1>1, CountsOf, OwnershipAssumption
<1>3. cppUses[o] + -1 \in 0 .. MaxUses /\ cppUses[o] + -1 = cppUses[o] - 1
  BY <1>1, <1>2
<1> QED
  BY <1>1, <1>2, <1>3, CppCounts

LEMMA PullSharedCounts ==
  ASSUME CountInv, NEW u \in Ud, NEW c \in Class, NEW isConst \in BOOLEAN, PullShared(u, c, isConst)
  PROVE  Counted'
<1> DEFINE o == Whole[ptr[u]]
<1>1. phase[u] # "free" /\ u \in shared
  BY CountTypes DEF PullShared
<1>2. ptr[u] \in Shared /\ o \in Managed
  BY <1>1, PtrTypes DEF CountInv, Counted, Userdata, SharedMatches
<1>3. OwningUd(o) # {}
  BY <1>1 DEF OwningUd
<1>4. useCount[o] > 0 /\ cppUses[o] \in 0 .. MaxUses
  BY <1>2, <1>3, CountsOf
<1>5. cppUses[o] + 1 \in 0 .. MaxUses
  BY <1>4, OwnershipAssumption DEF PullShared
<1>6. /\ UNCHANGED <<vars, shared>>
      /\ cppUses' = [cppUses EXCEPT ![o] = cppUses[o] + 1] /\ Count(o, 1)
  BY DEF PullShared
<1> QED
  BY <1>2, <1>4, <1>5, <1>6, CppCounts

\* What is left of the userdata when one is finalized.
LEMMA CleanupKeeps ==
  ASSUME CountInv, NEW u \in Ud, Cleanup(u), shared' = shared \ {u}
  PROVE  /\ Userdata'
         /\ \A x : OwningUd(x)' = OwningUd(x) \ {u}
         /\ ptr[u] \in Ptr /\ Whole[ptr[u]] \in Object
         /\ \A x : u \in OwningUd(x) => x = Whole[ptr[u]]
<1>1. /\ phase[u] = "doomed" /\ phase'[u] = "free"
      /\ \A v \in Ud \ {u} : phase'[v] = phase[v] /\ ptr'[v] = ptr[v] /\ flags'[v] = flags[v]
  BY CountTypes DEF Cleanup, TypeInv, TypeOK
<1>2. Userdata'
  BY <1>1 DEF CountInv, Counted, Userdata, SharedMatches, RawIsUnmanaged
<1>3. \A x : OwningUd(x)' = OwningUd(x) \ {u}
  <2>1. \A x : \A v \in Ud : Owns(v, x)' <=> Owns(v, x) /\ v # u
    BY <1>1 DEF Owns
  <2>2. \A x : OwningUd(x) = {v \in Ud : Owns(v, x)} /\ OwningUd(x)' = {v \in Ud : Owns(v, x)'}
    BY OwningUdIsOwns DEF OwningUd, Owns
  <2> QED
    BY <2>1, <2>2
<1>4. ptr[u] \in Ptr /\ Whole[ptr[u]] \in Object
  BY <1>1, CountTypes
<1> QED
  BY <1>2, <1>3, <1>4 DEF OwningUd

LEMMA FinalizeRawCounts ==
  ASSUME CountInv, NEW u \in Ud, FinalizeRaw(u)
  PROVE  Counted'
<1> PICK o \in Object : o = Whole[ptr[u]]
  BY CountTypes DEF FinalizeRaw, Finalize
<1>1. /\ Cleanup(u) /\ u \notin shared /\ shared' = shared \ {u}
      /\ cppUses' = cppUses /\ useCount' = useCount
      /\ alive' = IF "gc" \in flags[u] THEN alive \ {o} ELSE alive
  BY FinalizeIsCleanup DEF FinalizeRaw
<1>2. Userdata' /\ \A x : OwningUd(x)' = OwningUd(x) \ {u}
  BY <1>1, CleanupKeeps
<1>3. \A x \in Managed : u \notin OwningUd(x)
  BY <1>1, SharedOwn, PtrTypes, OwningUdIsOwns
<1>4. \A x \in Managed : OwningUd(x)' = OwningUd(x)
  BY <1>2, <1>3
<1>5. "gc" \in flags[u] => o \notin Managed
  BY <1>1 DEF Cleanup, CountInv, Counted, Userdata, RawIsUnmanaged
<1>6. alive' \subseteq Object /\ \A x \in Managed : x \in alive' <=> x \in alive
  BY <1>1, <1>5 DEF CountInv, Counted, MemoryType
<1> QED
  BY <1>1, <1>2, <1>4, <1>6, CountsStay DEF CountInv, Counted, MemoryType

\* shared_delete gives one shared pointer back, whatever GC_FLAG says.
LEMMA FinalizeSharedCounts ==
  ASSUME CountInv, NEW u \in Ud, FinalizeShared(u)
  PROVE  Counted'
<1> PICK o \in Object : o = Whole[ptr[u]]
  BY CountTypes DEF FinalizeShared
<1>1. Cleanup(u) /\ u \in shared /\ shared' = shared \ {u} /\ cppUses' = cppUses /\ Count(o, -1)
  BY FinalizeSharedIsCleanup DEF FinalizeShared
<1>2. /\ Userdata'
      /\ \A x : OwningUd(x)' = OwningUd(x) \ {u}
      /\ \A x : u \in OwningUd(x) => x = o
  BY <1>1, CleanupKeeps
<1>3. u \in OwningUd(o) /\ o \in Managed
  <2>1. phase[u] # "free"
    BY <1>1 DEF Cleanup
  <2>2. ptr[u] \in Shared
    BY <1>1, <2>1 DEF CountInv, Counted, Userdata, SharedMatches
  <2> QED
    BY <1>1, <2>1, <2>2, PtrTypes DEF OwningUd
<1>4. OwningUd(o)' = OwningUd(o) \ {u}
  BY <1>2 DEF OwningUd
<1>5. Cardinality(OwningUd(o)') = Cardinality(OwningUd(o)) - 1
  <2>1. Cardinality(OwningUd(o) \ {u}) = Cardinality(OwningUd(o)) - 1
    BY <1>3, OwningIsFinite, FS_RemoveElement
  <2> QED
    BY <1>4, <2>1
<1>6. cppUses[o] \in Nat /\ Cardinality(OwningUd(o)) \in Nat \ {0} /\ useCount[o] > 0
  BY <1>3, CountsOf
<1>7. cppUses'[o] + Cardinality(OwningUd(o)') = cppUses[o] + Cardinality(OwningUd(o)) + -1
  BY <1>1, <1>5, <1>6
<1>8. \A x \in Managed \ {o} : OwningUd(x)' = OwningUd(x) /\ cppUses'[x] = cppUses[x]
  BY <1>1, <1>2
<1>9. cppUses' \in [Object -> 0 .. MaxUses]
  BY <1>1 DEF CountInv, Counted, MemoryType
<1> QED
  BY <1>1, <1>2, <1>3, <1>6, <1>7, <1>8, <1>9, CountsBy

\* Userdata are lost, collected or left alone: they own what they owned.
LEMMA OwningStays ==
  ASSUME CountInv, UNCHANGED memory, ptr' = ptr, flags' = flags,
         \A v \in Ud : phase'[v] = "free" <=> phase[v] = "free"
  PROVE  Counted'
<1>1. shared' = shared /\ alive' = alive /\ cppUses' = cppUses /\ useCount' = useCount
  BY DEF memory
<1>2. Userdata'
  BY <1>1 DEF CountInv, Counted, Userdata, SharedMatches, RawIsUnmanaged
<1>3. \A x : OwningUd(x)' = OwningUd(x)
  BY <1>1 DEF OwningUd
<1> QED
  BY <1>1, <1>2, <1>3, CountsStay DEF CountInv, Counted, MemoryType

LEMMA CountStep ==
  ASSUME FindsObject, CountInv, [OwnershipNext]_allVars
  PROVE  CountInv'
<1>1. SoundInv'
  BY SoundStep, OwnershipNextIsCacheNext DEF CountInv, FindsObject
<1>2. ASSUME UNCHANGED allVars
      PROVE  Counted'
  BY <1>2, OwningStays DEF allVars, vars, memory
<1>3. ASSUME NEW o \in Object, CppNew(o) \/ CppDelete(o) \/ CppCopy(o) \/ CppRelease(o)
      PROVE  Counted'
  BY <1>3, CppNewCounts, CppDeleteCounts, CppCopyCounts, CppReleaseCounts
<1>4. ASSUME NEW p \in Ptr, NEW isConst \in BOOLEAN, NEW owner \in Owner, PushRaw(p, isConst, owner)
      PROVE  Counted'
  BY <1>4, PushRawCounts
<1>5. ASSUME NEW p \in Ptr, ConstructRaw(p) \/ ConstructShared(p)
      PROVE  Counted'
  BY <1>5, ConstructRawCounts, ConstructSharedCounts
<1>6. ASSUME NEW p \in Ptr, NEW isConst \in BOOLEAN,
             PushSharedNew(p, isConst) \/ PushSharedServed(p, isConst) \/ PushSharedUpgraded(p, isConst)
      PROVE  Counted'
  BY <1>6, PushSharedNewCounts, PushSharedServedCounts, PushSharedUpgradedCounts
<1>7. ASSUME NEW u \in Ud, NEW c \in Class, NEW isConst \in BOOLEAN,
             AcquireRaw(u, c, isConst) \/ PullShared(u, c, isConst)
      PROVE  Counted'
  BY <1>7, ChangeOwnerRawCounts, PullSharedCounts
<1>8. ASSUME NEW u \in Ud, NEW owner \in Owner, SetOwnerRaw(u, owner) \/ SetOwnerShared(u, owner)
      PROVE  Counted'
  BY <1>8, ChangeOwnerRawCounts, SetOwnerSharedCounts
<1>9. ASSUME NEW u \in Ud, Drop(u), UNCHANGED memory
      PROVE  Counted'
  BY <1>9, OwningStays DEF Drop
<1>10. ASSUME NEW dead \in SUBSET Ud, Collect(dead), UNCHANGED memory
       PROVE  Counted'
  <2>1. /\ ptr' = ptr /\ flags' = flags
        /\ \A v \in Ud : phase'[v] = "free" <=> phase[v] = "free"
    BY <1>10 DEF Collect
  <2> QED
    BY <1>10, <2>1, OwningStays
<1>11. ASSUME NEW u \in Ud, FinalizeRaw(u) \/ FinalizeShared(u)
       PROVE  Counted'
  BY <1>11, FinalizeRawCounts, FinalizeSharedCounts
<1>12. Counted'
  BY <1>2, <1>3, <1>4, <1>5, <1>6, <1>7, <1>8, <1>9, <1>10, <1>11 DEF OwnershipNext
<1> QED
  BY <1>1, <1>12 DEF CountInv

LEMMA CountInit == OwnershipInit => CountInv
<1> SUFFICES ASSUME OwnershipInit
             PROVE  CountInv
  OBVIOUS
<1>1. /\ SoundInv
      /\ \A u \in Ud : phase[u] = "free"
      /\ alive = {} /\ cppUses = [o \in Object |-> 0] /\ useCount = [o \in Object |-> 0] /\ shared = {}
  BY OneInit DEF OwnershipInit, Init, OneInv, FindInv
<1>2. \A o : OwningUd(o) = {}
  BY <1>1 DEF OwningUd
<1>3. MemoryType /\ Userdata /\ RawIsNotCounted /\ CountedLive
  BY <1>1, PtrTypes, OwnershipAssumption
     DEF MemoryType, Userdata, SharedMatches, RawIsUnmanaged, RawIsNotCounted, CountedLive
<1>4. UseCountExact
  BY <1>1, <1>2, PtrTypes, FS_EmptySet DEF UseCountExact
<1> QED
  BY <1>1, <1>3, <1>4 DEF CountInv, Counted

LEMMA CountInvariant ==
  ASSUME NoAliasedBase, NoAliasedClass
  PROVE  OwnershipSpec => []CountInv
<1>1. FindsObject
  BY DEF FindsObject
<1>2. CountInv /\ [OwnershipNext]_allVars => CountInv'
  BY <1>1, CountStep
<1> QED
  BY <1>2, CountInit, PTL DEF OwnershipSpec

\* The use count in the control block is the number of shared pointers there are,
\* in C++ and in Lua: none is forgotten when a userdata is reset to a derived
\* class, when a base is pulled, or when set_owner was called on it.  That also
\* holds where an object has several userdata, one for each of two bases of it.
THEOREM UseCountIsExact ==
  ASSUME NoAliasedBase, NoAliasedClass
  PROVE  OwnershipSpec => []UseCountExact
<1>1. CountInv => UseCountExact
  BY DEF CountInv, Counted
<1> QED
  BY <1>1, CountInvariant, PTL

\* An object the program keeps in shared pointers is destroyed with the last of
\* them, in C++ or in Lua, and not before: no userdata which the scripts or the
\* collector hold, pending finalizers among them, has a pointer to what is gone.
THEOREM SharedObjectsLiveWhileShared ==
  ASSUME NoAliasedBase, NoAliasedClass
  PROVE  OwnershipSpec =>
           [](\A o \in Managed : o \in alive <=> cppUses[o] > 0 \/ OwningUd(o) # {})
<1> DEFINE Lives == \A o \in Managed : o \in alive <=> cppUses[o] > 0 \/ OwningUd(o) # {}
<1>1. CountInv => Lives
  BY CountsOf
<1> HIDE DEF Lives
<1>2. OwnershipSpec => []Lives
  BY <1>1, CountInvariant, PTL
<1> QED
  BY <1>2 DEF Lives

\* The variables keep their types: in particular no count falls below zero or
\* rises above the shared pointers that C++ and the userdata can hold.
THEOREM OwnershipTypeCorrect ==
  ASSUME NoAliasedBase, NoAliasedClass
  PROVE  OwnershipSpec => []OwnershipTypeOK
<1>1. ASSUME CountInv
      PROVE  OwnershipTypeOK
  <2>1. TypeOK /\ MemoryType
    BY <1>1, CountTypes DEF TypeInv, CountInv, Counted
  <2>2. Cardinality(Ud) \in Nat /\ MaxUses \in Nat
    BY OwnershipAssumption, FS_CardinalityType
  <2>3. ASSUME NEW o \in Object
        PROVE  useCount[o] \in 0 .. MaxUses + Cardinality(Ud)
    <3>1. CASE o \in Managed
      <4>1. useCount[o] = cppUses[o] + Cardinality(OwningUd(o)) /\ cppUses[o] \in 0 .. MaxUses
        BY <1>1, <3>1, CountsOf
      <4>2. Cardinality(OwningUd(o)) \in Nat /\ Cardinality(OwningUd(o)) <= Cardinality(Ud)
        BY OwningIsFinite
      <4> QED
        BY <2>2, <4>1, <4>2
    <3>2. CASE o \notin Managed
      BY <1>1, <2>2, <3>2 DEF CountInv, Counted, RawIsNotCounted
    <3> QED
      BY <3>1, <3>2
  <2>4. useCount \in [Object -> 0 .. MaxUses + Cardinality(Ud)]
    BY <2>1, <2>3 DEF MemoryType
  <2> QED
    BY <2>1, <2>4 DEF OwnershipTypeOK, MemoryType
<1> QED
  BY <1>1, CountInvariant, PTL

-----------------------------------------------------------------------------
(* Who owns an object, in the layouts where it has one userdata.  An       *)
(* object has an owner exactly while it lives because a userdata which     *)
(* owns a raw one was made for a pointer that may delete it, and because   *)
(* the finalizer of one that still owns its object is never overtaken by   *)
(* another userdata for it.                                                *)

Owners == [o \in Object |-> OwningUd(o) \cup (IF cppUses[o] > 0 THEN {"cpp"} ELSE {})]

\* GC_FLAG was given to a raw userdata through a pointer which may delete.
GcMayDelete ==
  \A u \in Ud : phase[u] # "free" /\ u \notin shared /\ "gc" \in flags[u]
                => \E q \in Deletable : Related(q, ptr[u])

AliveWhileOwned == \A o \in Object : o \in alive <=> Owners[o] # {}

RawHasOneOwner == \A o \in Object \ Managed : \A h, k \in Owners[o] : h = k

\* While a finalizer is pending which will delete an object, Lua has no other
\* userdata through which the object may change hands.
DoomedIsLast ==
  \A u, v \in Ud : /\ phase[u] = "doomed" /\ u \notin shared /\ "gc" \in flags[u]
                   /\ phase[v] = "live" /\ ptr[v] \in Deletable
                   => Whole[ptr[v]] # Whole[ptr[u]]

Owned == GcMayDelete /\ AliveWhileOwned /\ RawHasOneOwner /\ DoomedIsLast

OwnInv == OneInv /\ Counted /\ Owned

\* The layouts for which an object is deleted once.
OneChain == Exact /\ SingleInheritance /\ DeletableIsChain

LEMMA OwnTypes ==
  ASSUME OwnInv
  PROVE  /\ CountInv
         /\ TypeInv
         /\ \A u \in Ud : phase[u] # "free" => ptr[u] \in Ptr /\ Whole[ptr[u]] \in Object
         /\ \A u \in Ud : phase[u] = "free" => u \notin shared
BY CountTypes DEF OwnInv, OneInv, FindInv, CountInv

\* A managed object is owned by the userdata with shared pointers to it, and an
\* unmanaged one by those with GC_FLAG.
LEMMA OwnsCases ==
  ASSUME OwnInv, NEW u \in Ud, NEW o \in Object, Owns(u, o)
  PROVE  /\ ptr[u] \in Ptr
         /\ o \in Managed => u \in shared
         /\ o \notin Managed => /\ u \notin shared /\ "gc" \in flags[u]
                             /\ \E q \in Deletable : Whole[q] = o /\ Related(q, ptr[u])
<1>1. ptr[u] \in Ptr /\ phase[u] # "free" /\ Whole[ptr[u]] = o
  BY OwnTypes DEF Owns
<1>2. u \in shared <=> o \in Managed
  BY OwnTypes, SharedOwn
<1>3. ASSUME o \notin Managed
      PROVE  "gc" \in flags[u] /\ \E q \in Deletable : Whole[q] = o /\ Related(q, ptr[u])
  <2>1. u \notin shared /\ "gc" \in flags[u]
    BY <1>2, <1>3 DEF Owns
  <2>2. PICK q \in Deletable : Related(q, ptr[u])
    BY <1>1, <2>1 DEF OwnInv, Owned, GcMayDelete
  <2>3. Whole[q] = o
    BY <1>1, <2>2, PtrTypes, OwnershipAssumption
  <2> QED
    BY <2>1, <2>2, <2>3
<1> QED
  BY <1>1, <1>2, <1>3

\* Whatever owns an object which the program reaches through p, and may delete,
\* is C++ or the one live userdata that a push of p meets.
LEMMA OwnerIsMet ==
  ASSUME OneChain, OwnInv, NEW p \in Deletable, Reaches(p),
         NEW u \in Ud, Owns(u, Whole[p])
  PROVE  phase[u] = "live" /\ Related(p, ptr[u])
<1>1. p \in Ptr /\ Whole[p] \in Object \ Managed
  BY PtrTypes
<1>2. ptr[u] \in Ptr /\ u \notin shared /\ "gc" \in flags[u]
  BY <1>1, OwnsCases
<1>3. PICK q \in Deletable : Whole[q] = Whole[p] /\ Related(q, ptr[u])
  BY <1>1, OwnsCases
<1>4. q \in Ptr /\ Related(p, q)
  BY <1>3, PtrTypes DEF OneChain, DeletableIsChain
<1>5. Related(p, ptr[u])
  BY <1>1, <1>2, <1>3, <1>4 DEF OneChain, SingleInheritance
<1>6. phase[u] # "doomed"
  <2> SUFFICES ASSUME phase[u] = "doomed"
               PROVE  FALSE
    OBVIOUS
  <2>1. CASE cppUses[Whole[p]] > 0
    <3>1. "cpp" \in Owners[Whole[p]] /\ u \in Owners[Whole[p]]
      BY <1>1, <2>1, OwningUdIsOwns DEF Owners
    <3>2. "cpp" = u
      BY <1>1, <3>1 DEF OwnInv, Owned, RawHasOneOwner
    <3> QED
      BY <3>2, OwnershipAssumption
  <2>2. ASSUME NEW v \in held, ptr[v] \in Deletable, Whole[ptr[v]] = Whole[p]
        PROVE  FALSE
    <3>1. v \in Ud /\ phase[v] = "live"
      BY <2>2, OwnTypes DEF TypeInv, TypeOK
    <3> QED
      BY <1>2, <2>2, <3>1 DEF OwnInv, Owned, DoomedIsLast, Owns
  <2> QED
    BY <2>1, <2>2 DEF Reaches
<1>7. phase[u] \in {"free", "live", "doomed"}
  BY OwnTypes DEF TypeInv, TypeOK
<1> QED
  BY <1>5, <1>6, <1>7 DEF Owns

-----------------------------------------------------------------------------
(* The userdata which is settled for an object is the one it has.          *)

Touched(u, p, owner) ==
  /\ Settled(u, p, owner)
  /\ \A v \in Ud : phase[v] = "live" /\ Related(p, ptr[v]) => v = u

\* Two live userdata are not both met by a push.
LEMMA MetIsUnique ==
  ASSUME SingleInheritance, OneInv, NEW p \in Ptr,
         NEW u \in Ud, phase[u] = "live", Related(p, ptr[u]),
         NEW v \in Ud, phase[v] = "live", Related(p, ptr[v])
  PROVE  u = v
<1>1. ptr[u] \in Ptr /\ ptr[v] \in Ptr
  BY DEF OneInv, FindInv, SoundInv, TypeInv, TypeOK
<1>2. Related(ptr[u], ptr[v])
  BY <1>1, RelatedIsSymmetric DEF SingleInheritance
<1> QED
  BY <1>2 DEF OneInv, OneUserdata

LEMMA FoundTouches ==
  ASSUME OneChain, OwnInv, NEW p \in Ptr, NEW u \in Candidates(p), NEW isConst \in BOOLEAN,
         NEW owner \in Owner, Serve(u, p, isConst, owner) \/ ResetMetatable(u, p, isConst, owner)
  PROVE  Touched(u, p, owner) /\ u \in Ud /\ phase[u] = "live"
<1>1. FindsObject /\ OneInv /\ SoundInv /\ SingleInheritance
  BY DEF FindsObject, OneChain, Exact, OwnInv, OneInv, FindInv
<1>2. Settled(u, p, owner) /\ u \in Ud /\ phase[u] = "live" /\ Related(p, ptr[u])
  BY <1>1, ServeSettles, ResetSettles
<1>3. \A v \in Ud : phase[v] = "live" /\ Related(p, ptr[v]) => v = u
  BY <1>1, <1>2, MetIsUnique
<1> QED
  BY <1>2, <1>3 DEF Touched

LEMMA PushNewTouches ==
  ASSUME OneChain, OwnInv, NEW u \in Ud, NEW p \in Ptr,
         NEW isConst \in BOOLEAN, NEW owner \in Owner,
         Candidates(p) = {}, AddPtr(u, p, isConst, owner)
  PROVE  Touched(u, p, owner) /\ phase[u] = "free"
<1>1. \A v \in Ud : phase[v] = "live" => ~Related(p, ptr[v])
  BY CandidatesAreTheRelated DEF OneChain, OwnInv, OneInv
<1>2. Settled(u, p, owner) /\ phase[u] = "free"
  BY OwnTypes, AddPtrSettles
<1> QED
  BY <1>1, <1>2 DEF Touched

LEMMA ConstructTouches ==
  ASSUME OneChain, OwnInv, NEW u \in Ud, NEW p \in Ptr,
         \A a \in Keys(p) : weak[a].uds = {}, AddPtr(u, p, FALSE, "Lua")
  PROVE  Touched(u, p, "Lua") /\ phase[u] = "free"
<1>1. weak[AddrOf[p]].uds = {}
  BY KeysInAddr
<1>2. \A v \in Ud : phase[v] = "live" => ~Related(p, ptr[v])
  BY <1>1, RelatedIsCached DEF OneChain, Exact, OwnInv, OneInv
<1>3. "Lua" \in Owner
  BY DEF Owner
<1>4. Settled(u, p, "Lua") /\ phase[u] = "free"
  BY <1>3, OwnTypes, AddPtrSettles
<1> QED
  BY <1>2, <1>4 DEF Touched

\* set_owner and cpp_acquire_ptr touch a userdata for the pointer it stores.
LEMMA ChangeOwnerTouches ==
  ASSUME OneChain, OwnInv, NEW u \in held, NEW owner \in Owner,
         flags' = [flags EXCEPT ![u] = SetOwner(@, owner)],
         UNCHANGED <<phase, ptr, weak, held>>
  PROVE  /\ Touched(u, ptr[u], owner)
         /\ u \in Ud /\ phase[u] = "live" /\ ptr[u] \in Ptr
<1>1. Settled(u, ptr[u], owner) /\ u \in Ud /\ phase[u] = "live" /\ ptr[u] \in Ptr
  BY OwnTypes, ChangeOwnerSettles
<1>2. Related(ptr[u], ptr[u])
  BY DEF Related
<1>3. \A v \in Ud : phase[v] = "live" /\ Related(ptr[u], ptr[v]) => v = u
  BY <1>1, <1>2, MetIsUnique DEF OneChain, OwnInv
<1> QED
  BY <1>1, <1>3 DEF Touched

\* A userdata is touched for a pointer the program may push: it reaches the
\* object, or has just made it.
LEMMA TouchedKeeps ==
  ASSUME OneChain, OwnInv, NEW u \in Ud, NEW p \in Ptr, NEW owner \in Owner, Touched(u, p, owner),
         \A v \in Ud \ {u} : v \in shared' <=> v \in shared,
         u \in shared' <=> p \in Shared,
         owner # "No_change" => p \in Shared \cup Deletable,
         p \in Deletable => Reaches(p) \/ Whole[p] \notin alive
  PROVE  GcMayDelete' /\ DoomedIsLast'
<1>1. phase[u] = "live" => ptr[u] \in Ptr
  BY OwnTypes
<1>2. ptr'[u] \in Ptr /\ Whole[ptr'[u]] = Whole[p]
  BY OwnTypes, SettledOwns DEF Touched
<1>3. GcMayDelete'
  <2> SUFFICES ASSUME NEW v \in Ud, phase'[v] # "free", v \notin shared', "gc" \in flags'[v]
               PROVE  \E q \in Deletable : Related(q, ptr'[v])
    BY DEF GcMayDelete
  <2>1. CASE v # u
    BY <2>1 DEF Touched, Settled, OwnInv, Owned, GcMayDelete
  <2>2. CASE v = u /\ owner = "Lua"
    <3>1. p \in Deletable
      BY <2>2
    <3>2. Related(p, ptr'[u])
      BY DEF Touched, Settled, Related
    <3> QED
      BY <2>2, <3>1, <3>2
  <2>3. CASE v = u /\ owner = "No_change" /\ phase[u] = "live" /\ "gc" \in flags[u]
    <3>1. u \notin shared
      BY <2>3, OwnTypes, SettledMatches DEF Touched
    <3>2. PICK q \in Deletable : Related(q, ptr[u])
      BY <2>3, <3>1 DEF OwnInv, Owned, GcMayDelete
    <3>3. q \in Ptr
      BY PtrTypes
    <3>4. Related(ptr[u], p)
      BY <2>3, RelatedIsSymmetric DEF Touched, Settled
    <3>5. Related(q, p)
      BY <1>1, <2>3, <3>2, <3>3, <3>4 DEF OneChain, SingleInheritance
    <3> QED
      BY <2>3, <3>2, <3>5 DEF Touched, Settled
  <2> QED
    BY <2>1, <2>2, <2>3 DEF Touched, Settled
<1>4. DoomedIsLast'
  <2> SUFFICES ASSUME NEW v \in Ud, NEW w \in Ud,
                      phase'[v] = "doomed", v \notin shared', "gc" \in flags'[v],
                      phase'[w] = "live", ptr'[w] \in Deletable
               PROVE  Whole[ptr'[w]] # Whole[ptr'[v]]
    BY DEF DoomedIsLast
  <2>1. v # u /\ phase[v] = "doomed" /\ v \notin shared /\ "gc" \in flags[v] /\ ptr'[v] = ptr[v]
    BY DEF Touched, Settled
  <2>2. CASE phase[w] = "live" /\ ptr'[w] = ptr[w]
    BY <2>1, <2>2 DEF OwnInv, Owned, DoomedIsLast
  <2>3. CASE w = u /\ ptr'[u] = p
    <3> SUFFICES ASSUME Whole[ptr[v]] = Whole[p]
                 PROVE  FALSE
      BY <1>2, <2>1, <2>3
    <3>1. Owns(v, Whole[p]) /\ p \in Deletable /\ Whole[p] \in Object
      BY <2>1, <2>3, PtrTypes DEF Owns
    <3>2. Whole[p] \in alive
      BY <3>1, OwningUdIsOwns DEF OwnInv, Owned, AliveWhileOwned, Owners
    <3>3. phase[v] = "live"
      BY <3>1, <3>2, OwnerIsMet
    <3> QED
      BY <2>1, <3>3
  <2> QED
    BY <2>2, <2>3 DEF Touched, Settled
<1> QED
  BY <1>3, <1>4

-----------------------------------------------------------------------------
(* The owners, and the steps of Lifetime.                                  *)

\* The owners of an object, as the counts show them.
LEMMA OwnersOf ==
  ASSUME OwnInv, NEW o \in Object
  PROVE  /\ "cpp" \in Owners[o] <=> cppUses[o] > 0
         /\ \A u \in Ud : u \in Owners[o] <=> Owns(u, o)
         /\ Owners[o] \subseteq Ud \cup {"cpp"}
         /\ o \in Managed => (useCount[o] = 0 <=> Owners[o] = {})
         /\ cppUses[o] \in Nat /\ useCount[o] \in Nat
<1>1. Owners[o] = {u \in Ud : Owns(u, o)} \cup (IF cppUses[o] > 0 THEN {"cpp"} ELSE {})
  BY OwningUdIsOwns DEF Owners
<1>2. cppUses[o] \in Nat /\ useCount[o] \in Nat
  BY OwnershipAssumption DEF OwnInv, Counted, MemoryType
<1>3. "cpp" \notin Ud
  BY OwnershipAssumption
<1>4. o \in Managed => (useCount[o] = 0 <=> Owners[o] = {})
  <2> SUFFICES ASSUME o \in Managed
               PROVE  useCount[o] = 0 <=> Owners[o] = {}
    OBVIOUS
  <2>1. /\ useCount[o] = cppUses[o] + Cardinality(OwningUd(o))
        /\ Cardinality(OwningUd(o)) \in Nat /\ (Cardinality(OwningUd(o)) = 0 <=> OwningUd(o) = {})
    BY OwnTypes, CountsOf
  <2>2. useCount[o] = 0 <=> cppUses[o] = 0 /\ OwningUd(o) = {}
    BY <1>2, <2>1
  <2> QED
    BY <1>1, <1>2, <2>2, OwningUdIsOwns
<1> QED
  BY <1>1, <1>2, <1>3, <1>4

\* Lifetime itself keeps an object alive exactly while it has an owner, and a raw
\* one from having two.
LEMMA LifetimeKeeps ==
  ASSUME AliveWhileOwned, RawHasOneOwner, [L!Next]_<<alive, Owners>>
  PROVE  AliveWhileOwned' /\ RawHasOneOwner'
<1>1. CASE UNCHANGED <<alive, Owners>>
  BY <1>1 DEF AliveWhileOwned, RawHasOneOwner
<1> USE DEF AliveWhileOwned, RawHasOneOwner
<1>2. ASSUME NEW o \in Object, NEW h, L!Born(o, h)
      PROVE  AliveWhileOwned' /\ RawHasOneOwner'
  <2>1. alive' = alive \cup {o} /\ Owners' = [Owners EXCEPT ![o] = {h}] /\ o \notin alive
    BY <1>2 DEF L!Born, Owners
  <2>2. \A x \in Object : Owners'[x] = IF x = o THEN {h} ELSE Owners[x]
    BY <2>1 DEF Owners
  <2> QED
    BY <2>1, <2>2
<1>3. ASSUME NEW o \in Object, NEW h, L!Share(o, h)
      PROVE  AliveWhileOwned' /\ RawHasOneOwner'
  <2>1. alive' = alive /\ Owners' = [Owners EXCEPT ![o] = @ \cup {h}] /\ o \in alive \cap Managed
    BY <1>3 DEF L!Share, Owners
  <2>2. \A x \in Object : Owners'[x] = IF x = o THEN Owners[o] \cup {h} ELSE Owners[x]
    BY <2>1 DEF Owners
  <2> QED
    BY <2>1, <2>2
<1>4. ASSUME NEW o \in Object, NEW h, L!Handover(o, h)
      PROVE  AliveWhileOwned' /\ RawHasOneOwner'
  <2>1. alive' = alive /\ Owners' = [Owners EXCEPT ![o] = {h}] /\ o \in alive
    BY <1>4 DEF L!Handover, Owners
  <2>2. \A x \in Object : Owners'[x] = IF x = o THEN {h} ELSE Owners[x]
    BY <2>1 DEF Owners
  <2> QED
    BY <2>1, <2>2
<1>5. ASSUME NEW o \in Object, NEW h, L!Release(o, h)
      PROVE  AliveWhileOwned' /\ RawHasOneOwner'
  <2>1. /\ h \in Owners[o] /\ Owners' = [Owners EXCEPT ![o] = @ \ {h}]
        /\ alive' = IF Owners[o] = {h} THEN alive \ {o} ELSE alive
    BY <1>5 DEF L!Release, Owners
  <2>2. \A x \in Object : Owners'[x] = IF x = o THEN Owners[o] \ {h} ELSE Owners[x]
    BY <2>1 DEF Owners
  <2> QED
    BY <2>1, <2>2
<1> QED
  BY <1>1, <1>2, <1>3, <1>4, <1>5 DEF L!Next

LEMMA OwnersChange ==
  ASSUME NEW o \in Object, NEW S,
         \A x \in Object \ {o} : OwningUd(x)' = OwningUd(x) /\ cppUses'[x] = cppUses[x],
         OwningUd(o)' \cup (IF cppUses'[o] > 0 THEN {"cpp"} ELSE {}) = S
  PROVE  Owners' = [Owners EXCEPT ![o] = S]
<1>1. Owners'[o] = S
  BY DEF Owners
<1>2. \A x \in Object \ {o} : Owners'[x] = Owners[x]
  BY DEF Owners
<1>3. Owners = [x \in Object |-> Owners[x]] /\ Owners' = [x \in Object |-> Owners'[x]]
  BY DEF Owners
<1> QED
  BY <1>1, <1>2, <1>3

\* What is left to show of a step once Lifetime is known to take one.
LEMMA OwnedStep ==
  ASSUME OwnInv, [L!Next]_<<alive, Owners>>, GcMayDelete', DoomedIsLast'
  PROVE  Owned'
BY LifetimeKeeps DEF OwnInv, Owned

-----------------------------------------------------------------------------
(* Raw pointers. *)

LEMMA RawStep ==
  ASSUME OneChain, OwnInv, NEW u \in Ud, NEW p \in Ptr, NEW owner \in Owner, Touched(u, p, owner),
         p \notin Shared, Whole[p] \in alive, Reaches(p),
         owner # "No_change" => p \in Deletable,
         cppUses' = Responsible(Whole[p], owner),
         UNCHANGED <<alive, useCount, shared>>
  PROVE  Owned' /\ [L!Next]_<<alive, Owners>>
<1> DEFINE o == Whole[p]
<1>1. o \in Object /\ (owner # "No_change" => o \notin Managed)
  BY PtrTypes
<1>2. u \notin shared
  BY OwnTypes, SettledMatches DEF Touched, Settled
<1>3. GcMayDelete' /\ DoomedIsLast'
  BY <1>2, TouchedKeeps
<1>4. /\ \A x \in Object, v \in Ud \ {u} : Owns(v, x)' <=> Owns(v, x)
      /\ \A x \in Object : Owns(u, x) => x = o
      /\ \A x \in Object : Owns(u, x)' <=>
           /\ x = o
           /\ owner = "Lua" \/ (owner = "No_change" /\ phase[u] = "live" /\ "gc" \in flags[u])
      /\ phase[u] = "live" => Whole[ptr[u]] = o
  BY <1>2, OwnTypes, SettledOwns DEF Touched
<1>5. \A x : OwningUd(x) = {v \in Ud : Owns(v, x)} /\ OwningUd(x)' = {v \in Ud : Owns(v, x)'}
  BY OwningUdIsOwns DEF OwningUd, Owns
<1>6. \A x \in Object \ {o} : OwningUd(x)' = OwningUd(x) /\ cppUses'[x] = cppUses[x]
  <2>1. \A x \in Object \ {o}, v \in Ud : Owns(v, x)' <=> Owns(v, x)
    BY <1>4
  <2>2. \A x \in Object \ {o} : cppUses'[x] = cppUses[x]
    BY <1>1 DEF OwnInv, Counted, MemoryType, Responsible, Owner
  <2> QED
    BY <1>5, <2>1, <2>2
<1>7. owner # "No_change" => \A v \in Ud : Owns(v, o) => v = u
  BY OwnerIsMet DEF Touched
<1>8. [L!Next]_<<alive, Owners>>
  <2>1. CASE owner = "No_change"
    <3>1. Owns(u, o)' <=> Owns(u, o)
      BY <1>1, <1>2, <1>4, <2>1 DEF Owns, Touched, Settled
    <3>2. \A v \in Ud : Owns(v, o)' <=> Owns(v, o)
      BY <1>1, <1>4, <3>1
    <3>3. OwningUd(o)' = OwningUd(o) /\ cppUses' = cppUses
      BY <1>5, <2>1, <3>2 DEF Responsible
    <3>4. Owners' = Owners
      BY <1>6, <3>3 DEF Owners
    <3> QED
      BY <3>4
  <2>2. CASE owner = "Lua"
    <3>1. cppUses' = [cppUses EXCEPT ![o] = 0]
      BY <2>2 DEF Responsible
    <3>2. \A v \in Ud : Owns(v, o)' <=> v = u
      BY <1>1, <1>4, <1>7, <2>2
    <3>3. OwningUd(o)' = {u}
      BY <1>5, <3>2
    <3>4. cppUses'[o] = 0
      BY <1>1, <3>1 DEF OwnInv, Counted, MemoryType
    <3>5. Owners' = [Owners EXCEPT ![o] = {u}]
      BY <1>1, <1>6, <3>3, <3>4, OwnersChange
    <3>6. L!Handover(o, u)
      BY <1>1, <2>2, <3>5 DEF L!Handover, Owners
    <3> QED
      BY <1>1, <3>6 DEF L!Next
  <2>3. CASE owner = "Cpp"
    <3>1. cppUses' = [cppUses EXCEPT ![o] = 1]
      BY <2>3 DEF Responsible
    <3>2. \A v \in Ud : ~Owns(v, o)'
      BY <1>1, <1>4, <1>7, <2>3
    <3>3. OwningUd(o)' = {}
      BY <1>5, <3>2
    <3>4. cppUses'[o] = 1
      BY <1>1, <3>1 DEF OwnInv, Counted, MemoryType
    <3>5. Owners' = [Owners EXCEPT ![o] = {"cpp"}]
      <4>1. OwningUd(o)' \cup (IF cppUses'[o] > 0 THEN {"cpp"} ELSE {}) = {"cpp"}
        BY <3>3, <3>4
      <4> QED
        BY <1>1, <1>6, <4>1, OwnersChange
    <3>6. L!Handover(o, "cpp")
      BY <1>1, <2>3, <3>5 DEF L!Handover, Owners
    <3> QED
      BY <1>1, <3>6 DEF L!Next
  <2> QED
    BY <2>1, <2>2, <2>3 DEF Owner
<1> QED
  BY <1>3, <1>8, OwnedStep

LEMMA PushRawKeeps ==
  ASSUME OneChain, OwnInv, NEW p \in Ptr, NEW isConst \in BOOLEAN, NEW owner \in Owner,
         PushRaw(p, isConst, owner)
  PROVE  Owned' /\ [L!Next]_<<alive, Owners>>
<1>1. \E u \in Ud : Touched(u, p, owner)
  <2>1. CASE PushNew(p, isConst, owner)
    BY <2>1, PushNewTouches DEF PushNew
  <2>2. CASE PushServed(p, isConst, owner)
    BY <2>2, FoundTouches DEF PushServed
  <2>3. CASE PushUpgraded(p, isConst, owner)
    BY <2>3, FoundTouches DEF PushUpgraded
  <2> QED
    BY <2>1, <2>2, <2>3 DEF PushRaw, Push
<1> QED
  BY <1>1, RawStep DEF PushRaw

\* A userdata that Lua holds changes hands.
LEMMA HeldRawChanges ==
  ASSUME OneChain, OwnInv, NEW u \in held, NEW owner \in Owner,
         flags' = [flags EXCEPT ![u] = SetOwner(@, owner)],
         UNCHANGED <<phase, ptr, weak, held>>,
         u \notin shared, ptr[u] \in Deletable, Whole[ptr[u]] \in alive,
         cppUses' = Responsible(Whole[ptr[u]], owner),
         UNCHANGED <<alive, useCount, shared>>
  PROVE  Owned' /\ [L!Next]_<<alive, Owners>>
<1>1. Touched(u, ptr[u], owner) /\ u \in Ud /\ ptr[u] \in Ptr
  BY ChangeOwnerTouches
<1>2. Reaches(ptr[u]) /\ ptr[u] \notin Shared
  BY PtrTypes DEF Reaches
<1> QED
  BY <1>1, <1>2, RawStep

LEMMA AcquireRawKeeps ==
  ASSUME OneChain, OwnInv, NEW u \in Ud, NEW c \in Class, NEW isConst \in BOOLEAN,
         AcquireRaw(u, c, isConst)
  PROVE  Owned' /\ [L!Next]_<<alive, Owners>>
<1> "Cpp" \in Owner
  BY DEF Owner
<1> QED
  BY HeldRawChanges DEF AcquireRaw, CppAcquire

LEMMA SetOwnerRawKeeps ==
  ASSUME OneChain, OwnInv, NEW u \in Ud, NEW owner \in Owner, SetOwnerRaw(u, owner)
  PROVE  Owned' /\ [L!Next]_<<alive, Owners>>
BY HeldRawChanges DEF SetOwnerRaw, LuaSetOwner

\* An object which is not alive has no owner.
LEMMA DeadIsUnowned ==
  ASSUME OwnInv, NEW o \in Object, o \notin alive
  PROVE  /\ Owners[o] = {} /\ cppUses[o] = 0
         /\ \A v \in Ud : ~Owns(v, o)
<1>1. Owners[o] = {}
  BY DEF OwnInv, Owned, AliveWhileOwned
<1> QED
  BY <1>1, OwnersOf

\* Whatever is made in Lua, the userdata which is made for it is its one owner.
LEMMA BornInLua ==
  ASSUME OneChain, OwnInv, NEW u \in Ud, NEW p \in Ptr, Touched(u, p, "Lua"), phase[u] = "free",
         Whole[p] \notin alive, alive' = alive \cup {Whole[p]}, cppUses' = cppUses,
         \A v \in Ud \ {u} : v \in shared' <=> v \in shared
  PROVE  L!Next
<1> DEFINE o == Whole[p]
<1>1. o \in Object /\ "Lua" \in Owner
  BY PtrTypes DEF Owner
<1>2. /\ \A x \in Object, v \in Ud \ {u} : Owns(v, x)' <=> Owns(v, x)
      /\ \A x \in Object : Owns(u, x)' <=> x = o
      /\ \A x \in Object : Owns(u, x) => x = o
  BY <1>1, OwnTypes, SettledOwns DEF Touched
<1>3. cppUses[o] = 0 /\ \A v \in Ud : ~Owns(v, o)
  BY <1>1, DeadIsUnowned
<1>4. \A x : OwningUd(x) = {v \in Ud : Owns(v, x)} /\ OwningUd(x)' = {v \in Ud : Owns(v, x)'}
  BY OwningUdIsOwns DEF OwningUd, Owns
<1>5. OwningUd(o)' = {u}
  <2>1. \A v \in Ud : Owns(v, o)' <=> v = u
    BY <1>1, <1>2, <1>3
  <2> QED
    BY <1>4, <2>1
<1>6. \A x \in Object \ {o} : OwningUd(x)' = OwningUd(x)
  <2>1. \A x \in Object \ {o}, v \in Ud : Owns(v, x)' <=> Owns(v, x)
    BY <1>2
  <2> QED
    BY <1>4, <2>1
<1>7. Owners' = [Owners EXCEPT ![o] = {u}]
  <2>1. OwningUd(o)' \cup (IF cppUses'[o] > 0 THEN {"cpp"} ELSE {}) = {u}
    BY <1>3, <1>5
  <2> QED
    BY <1>1, <1>6, <2>1, OwnersChange
<1>8. L!Born(o, u)
  BY <1>7 DEF L!Born, Owners
<1> QED
  BY <1>1, <1>8 DEF L!Next

LEMMA ConstructRawKeeps ==
  ASSUME OneChain, OwnInv, NEW p \in Ptr, ConstructRaw(p)
  PROVE  Owned' /\ [L!Next]_<<alive, Owners>>
<1>1. PICK u \in Ud : AddPtr(u, p, FALSE, "Lua")
  BY DEF ConstructRaw, Construct
<1>2. Touched(u, p, "Lua") /\ phase[u] = "free"
  BY <1>1, ConstructTouches DEF ConstructRaw, Construct
<1>3. "Lua" \in Owner /\ p \in Deletable /\ p \notin Shared
  BY PtrTypes DEF Owner, ConstructRaw
<1>4. u \notin shared
  BY <1>2, OwnTypes
<1>5. L!Next
  BY <1>2, BornInLua DEF ConstructRaw
<1>6. GcMayDelete' /\ DoomedIsLast'
  BY <1>2, <1>3, <1>4, TouchedKeeps DEF ConstructRaw
<1> QED
  BY <1>5, <1>6, OwnedStep
-----------------------------------------------------------------------------
(* Shared pointers. *)

\* A shared pointer is pushed while C++ has one to the object: the userdata that
\* is found holds one too.
LEMMA SharedStutter ==
  ASSUME OneChain, OwnInv, NEW u \in Ud, NEW p \in Shared, NEW owner \in Owner, Touched(u, p, owner),
         phase[u] = "live", UNCHANGED memory
  PROVE  Owned' /\ [L!Next]_<<alive, Owners>>
<1>1. p \in Ptr /\ Whole[p] \in Object /\ p \notin Deletable
  BY PtrTypes
<1>2. u \in shared
  BY <1>1, OwnTypes, SettledMatches DEF Touched
<1>3. shared' = shared /\ alive' = alive /\ cppUses' = cppUses
  BY DEF memory
<1>4. GcMayDelete' /\ DoomedIsLast'
  BY <1>1, <1>2, <1>3, TouchedKeeps
<1>5. \A x \in Object : OwningUd(x)' = OwningUd(x)
  <2>1. \A x \in Object, v \in Ud \ {u} : Owns(v, x)' <=> Owns(v, x)
    BY <1>1, <1>3, OwnTypes, SettledOwns DEF Touched
  <2>2. \A x \in Object : Owns(u, x)' <=> Owns(u, x)
    BY <1>1, <1>2, <1>3, OwnTypes, SettledOwns DEF Owns, Touched
  <2>3. \A x : OwningUd(x) = {v \in Ud : Owns(v, x)} /\ OwningUd(x)' = {v \in Ud : Owns(v, x)'}
    BY OwningUdIsOwns DEF OwningUd, Owns
  <2> QED
    BY <2>1, <2>2, <2>3
<1>6. Owners' = Owners
  BY <1>3, <1>5 DEF Owners
<1> QED
  BY <1>3, <1>4, <1>6, OwnedStep

LEMMA PushSharedServedKeeps ==
  ASSUME OneChain, OwnInv, NEW p \in Ptr, NEW isConst \in BOOLEAN, PushSharedServed(p, isConst)
  PROVE  Owned' /\ [L!Next]_<<alive, Owners>>
<1>1. PICK u \in Candidates(p) : Serve(u, p, isConst, "No_change")
  BY DEF PushSharedServed, PushServed
<1>2. "No_change" \in Owner
  BY DEF Owner
<1>3. Touched(u, p, "No_change") /\ u \in Ud /\ phase[u] = "live"
  BY <1>1, <1>2, FoundTouches
<1> QED
  BY <1>2, <1>3, SharedStutter DEF PushSharedServed

LEMMA PushSharedUpgradedKeeps ==
  ASSUME OneChain, OwnInv, NEW p \in Ptr, NEW isConst \in BOOLEAN, PushSharedUpgraded(p, isConst)
  PROVE  Owned' /\ [L!Next]_<<alive, Owners>>
<1>1. PICK u \in Candidates(p) : ResetMetatable(u, p, isConst, "No_change")
  BY DEF PushSharedUpgraded, PushUpgraded
<1>2. "No_change" \in Owner
  BY DEF Owner
<1>3. Touched(u, p, "No_change") /\ u \in Ud /\ phase[u] = "live"
  BY <1>1, <1>2, FoundTouches
<1>4. UNCHANGED memory
  BY OwnTypes, UpgradeKeepsMemory DEF PushSharedUpgraded, memory
<1> QED
  BY <1>2, <1>3, <1>4, SharedStutter DEF PushSharedUpgraded

LEMMA SetOwnerSharedKeeps ==
  ASSUME OneChain, OwnInv, NEW u \in Ud, NEW owner \in Owner, SetOwnerShared(u, owner)
  PROVE  Owned' /\ [L!Next]_<<alive, Owners>>
<1>1. Touched(u, ptr[u], owner) /\ phase[u] = "live"
  BY ChangeOwnerTouches DEF SetOwnerShared, LuaSetOwner
<1>2. ptr[u] \in Shared
  BY <1>1 DEF SetOwnerShared, OwnInv, Counted, Userdata, SharedMatches
<1> QED
  BY <1>1, <1>2, SharedStutter DEF SetOwnerShared

LEMMA PushSharedNewKeeps ==
  ASSUME OneChain, OwnInv, NEW p \in Ptr, NEW isConst \in BOOLEAN, PushSharedNew(p, isConst)
  PROVE  Owned' /\ [L!Next]_<<alive, Owners>>
<1> DEFINE o == Whole[p]
<1>1. PICK u \in Ud : AddPtr(u, p, isConst, "Lua") /\ shared' = shared \cup {u}
  BY DEF PushSharedNew
<1>2. /\ "Lua" \in Owner /\ p \in Shared /\ p \notin Deletable /\ o \in Managed /\ o \in Object
      /\ cppUses[o] > 0 /\ cppUses' = cppUses
  BY PtrTypes DEF Owner, PushSharedNew
<1>3. Touched(u, p, "Lua") /\ phase[u] = "free"
  BY <1>1, <1>2, PushNewTouches DEF PushSharedNew
<1>4. GcMayDelete' /\ DoomedIsLast'
  BY <1>1, <1>2, <1>3, TouchedKeeps
<1>5. /\ OwningUd(o)' = OwningUd(o) \cup {u}
      /\ \A x \in Object \ {o} : OwningUd(x)' = OwningUd(x)
  BY <1>1, <1>2, <1>3, OwnTypes, NewShared DEF Touched
<1>6. alive' = alive /\ o \in alive
  <2>1. useCount[o] \in Nat /\ o \in alive
    BY <1>2, OwnTypes, CountsOf
  <2>2. useCount[o] + 1 # 0
    BY <2>1
  <2> QED
    BY <2>1, <2>2 DEF PushSharedNew, Count
<1>7. L!Next
  <2>1. OwningUd(o)' \cup (IF cppUses'[o] > 0 THEN {"cpp"} ELSE {}) = Owners[o] \cup {u}
    BY <1>2, <1>5 DEF Owners
  <2>2. Owners' = [Owners EXCEPT ![o] = Owners[o] \cup {u}]
    BY <1>2, <1>5, <2>1, OwnersChange
  <2>3. L!Share(o, u)
    BY <1>2, <1>6, <2>2 DEF L!Share, Owners
  <2> QED
    BY <1>2, <2>3 DEF L!Next
<1> QED
  BY <1>4, <1>7, OwnedStep

LEMMA ConstructSharedKeeps ==
  ASSUME OneChain, OwnInv, NEW p \in Ptr, ConstructShared(p)
  PROVE  Owned' /\ [L!Next]_<<alive, Owners>>
<1>1. PICK u \in Ud : AddPtr(u, p, FALSE, "Lua") /\ shared' = shared \cup {u}
  BY DEF ConstructShared
<1>2. "Lua" \in Owner /\ p \in Shared /\ p \notin Deletable
  BY PtrTypes DEF Owner, ConstructShared
<1>3. Touched(u, p, "Lua") /\ phase[u] = "free"
  BY <1>1, <1>2, ConstructTouches DEF ConstructShared
<1>4. GcMayDelete' /\ DoomedIsLast'
  BY <1>1, <1>2, <1>3, TouchedKeeps
<1>5. L!Next
  <2>1. \A v \in Ud \ {u} : v \in shared' <=> v \in shared
    BY <1>1
  <2> QED
    BY <1>2, <1>3, <2>1, BornInLua DEF ConstructShared
<1> QED
  BY <1>4, <1>5, OwnedStep
-----------------------------------------------------------------------------
(* The C++ program: the userdata are as they were.                         *)

LEMMA CppKeepsOwning ==
  ASSUME OwnInv, UNCHANGED <<vars, shared>>
  PROVE  /\ GcMayDelete' /\ DoomedIsLast'
         /\ \A x : OwningUd(x)' = OwningUd(x)
<1>1. phase' = phase /\ ptr' = ptr /\ flags' = flags /\ shared' = shared
  BY DEF vars
<1>2. GcMayDelete' /\ DoomedIsLast'
  BY <1>1 DEF OwnInv, Owned, GcMayDelete, DoomedIsLast
<1>3. \A x : OwningUd(x)' = OwningUd(x)
  BY <1>1 DEF OwningUd
<1> QED
  BY <1>2, <1>3

\* What C++ owns of o, and with it the owners of o, is set.
LEMMA CppOwners ==
  ASSUME OwnInv, UNCHANGED <<vars, shared>>, NEW o \in Object, NEW n \in Nat,
         cppUses' = [cppUses EXCEPT ![o] = n]
  PROVE  /\ n > 0 => Owners' = [Owners EXCEPT ![o] = Owners[o] \cup {"cpp"}]
         /\ n = 0 => Owners' = [Owners EXCEPT ![o] = Owners[o] \ {"cpp"}]
<1>1. \A x : OwningUd(x)' = OwningUd(x)
  BY CppKeepsOwning
<1>2. cppUses'[o] = n /\ \A x \in Object \ {o} : cppUses'[x] = cppUses[x]
  BY DEF OwnInv, Counted, MemoryType
<1>3. "cpp" \notin OwningUd(o)
  BY OwnershipAssumption DEF OwningUd
<1>4. ASSUME n > 0
      PROVE  Owners' = [Owners EXCEPT ![o] = Owners[o] \cup {"cpp"}]
  <2>1. OwningUd(o)' \cup (IF cppUses'[o] > 0 THEN {"cpp"} ELSE {}) = Owners[o] \cup {"cpp"}
    BY <1>1, <1>2, <1>4 DEF Owners
  <2> QED
    BY <1>1, <1>2, <2>1, OwnersChange
<1>5. ASSUME n = 0
      PROVE  Owners' = [Owners EXCEPT ![o] = Owners[o] \ {"cpp"}]
  <2>1. OwningUd(o)' \cup (IF cppUses'[o] > 0 THEN {"cpp"} ELSE {}) = Owners[o] \ {"cpp"}
    BY <1>1, <1>2, <1>3, <1>5 DEF Owners
  <2> QED
    BY <1>1, <1>2, <2>1, OwnersChange
<1> QED
  BY <1>4, <1>5

LEMMA CppNewKeeps ==
  ASSUME OwnInv, NEW o \in Object, CppNew(o)
  PROVE  Owned' /\ [L!Next]_<<alive, Owners>>
<1>1. /\ UNCHANGED <<vars, shared>> /\ o \notin alive /\ alive' = alive \cup {o}
      /\ cppUses' = [cppUses EXCEPT ![o] = 1]
  BY DEF CppNew
<1>2. Owners' = [Owners EXCEPT ![o] = {"cpp"}]
  <2>1. Owners[o] \cup {"cpp"} = {"cpp"}
    BY <1>1, DeadIsUnowned
  <2>2. Owners' = [Owners EXCEPT ![o] = Owners[o] \cup {"cpp"}]
    BY <1>1, 1 \in Nat, 1 > 0, CppOwners
  <2> QED
    BY <2>1, <2>2
<1>3. L!Born(o, "cpp")
  BY <1>1, <1>2 DEF L!Born, Owners
<1> QED
  BY <1>1, <1>3, CppKeepsOwning, OwnedStep DEF L!Next

\* A raw object which C++ owns has no other owner.
LEMMA CppDeleteKeeps ==
  ASSUME OwnInv, NEW o \in Object, CppDelete(o)
  PROVE  Owned' /\ [L!Next]_<<alive, Owners>>
<1>1. /\ UNCHANGED <<vars, shared>> /\ o \notin Managed /\ cppUses[o] = 1
      /\ cppUses' = [cppUses EXCEPT ![o] = 0] /\ alive' = alive \ {o}
  BY DEF CppDelete
<1>2. Owners[o] = {"cpp"}
  <2>1. "cpp" \in Owners[o]
    BY <1>1, OwnersOf
  <2> QED
    BY <1>1, <2>1 DEF OwnInv, Owned, RawHasOneOwner
<1>3. Owners' = [Owners EXCEPT ![o] = Owners[o] \ {"cpp"}]
  BY <1>1, CppOwners
<1>4. L!Release(o, "cpp")
  BY <1>1, <1>2, <1>3 DEF L!Release, Owners
<1> QED
  BY <1>1, <1>4, CppKeepsOwning, OwnedStep DEF L!Next

\* C++ gets a shared pointer to an object which has an owner.
LEMMA CppShares ==
  ASSUME OwnInv, UNCHANGED <<vars, shared>>, NEW o \in Managed, Owners[o] # {},
         cppUses' = [cppUses EXCEPT ![o] = @ + 1], Count(o, 1)
  PROVE  Owned' /\ [L!Next]_<<alive, Owners>>
<1>1. o \in Object /\ cppUses[o] \in Nat /\ useCount[o] \in Nat
  BY OwnTypes, CountsOf
<1>2. cppUses[o] + 1 \in Nat /\ cppUses[o] + 1 > 0 /\ useCount[o] + 1 # 0
  BY <1>1
<1>3. alive' = alive /\ o \in alive
  BY <1>1, <1>2 DEF Count, OwnInv, Owned, AliveWhileOwned
<1>4. Owners' = [Owners EXCEPT ![o] = Owners[o] \cup {"cpp"}]
  BY <1>1, <1>2, CppOwners
<1>5. L!Share(o, "cpp")
  BY <1>1, <1>3, <1>4 DEF L!Share, Owners
<1> QED
  BY <1>1, <1>5, CppKeepsOwning, OwnedStep DEF L!Next

LEMMA CppCopyKeeps ==
  ASSUME OwnInv, NEW o \in Object, CppCopy(o)
  PROVE  Owned' /\ [L!Next]_<<alive, Owners>>
<1>1. Owners[o] # {}
  BY OwnersOf, OwnershipAssumption DEF CppCopy
<1> QED
  BY <1>1, CppShares DEF CppCopy

LEMMA PullSharedKeeps ==
  ASSUME OwnInv, NEW u \in Ud, NEW c \in Class, NEW isConst \in BOOLEAN, PullShared(u, c, isConst)
  PROVE  Owned' /\ [L!Next]_<<alive, Owners>>
<1> DEFINE o == Whole[ptr[u]]
<1>1. phase[u] # "free" /\ u \in shared
  BY OwnTypes DEF PullShared
<1>2. ptr[u] \in Shared /\ o \in Managed /\ o \in Object
  BY <1>1, PtrTypes DEF OwnInv, Counted, Userdata, SharedMatches
<1>3. Owners[o] # {}
  BY <1>1, <1>2, OwnersOf DEF Owns
<1> QED
  BY <1>2, <1>3, CppShares DEF PullShared

LEMMA CppReleaseKeeps ==
  ASSUME OwnInv, NEW o \in Object, CppRelease(o)
  PROVE  Owned' /\ [L!Next]_<<alive, Owners>>
<1>1. /\ UNCHANGED <<vars, shared>> /\ o \in Managed /\ cppUses[o] > 0
      /\ cppUses' = [cppUses EXCEPT ![o] = cppUses[o] - 1] /\ Count(o, -1)
  BY DEF CppRelease
<1>2. /\ useCount[o] = cppUses[o] + Cardinality(OwningUd(o)) /\ cppUses[o] \in Nat
      /\ Cardinality(OwningUd(o)) \in Nat /\ (Cardinality(OwningUd(o)) = 0 <=> OwningUd(o) = {})
  BY <1>1, OwnTypes, CountsOf
<1>3. cppUses[o] - 1 \in Nat
  BY <1>1, <1>2
<1>4. "cpp" \in Owners[o]
  BY <1>1, OwnersOf
<1>5. CASE cppUses[o] - 1 > 0
  <2>1. Owners' = [Owners EXCEPT ![o] = Owners[o] \cup {"cpp"}]
    BY <1>1, <1>3, <1>5, CppOwners
  <2>2. Owners' = Owners
    BY <1>4, <2>1 DEF Owners
  <2>3. useCount[o] + -1 # 0
    BY <1>2, <1>5
  <2>4. alive' = alive
    BY <1>1, <2>3 DEF Count
  <2> QED
    BY <1>1, <2>2, <2>4, CppKeepsOwning, OwnedStep
<1>6. CASE cppUses[o] - 1 = 0
  <2>1. Owners' = [Owners EXCEPT ![o] = Owners[o] \ {"cpp"}]
    BY <1>1, <1>3, <1>6, CppOwners
  <2>2. useCount[o] + -1 = 0 <=> Owners[o] = {"cpp"}
    <3>1. useCount[o] + -1 = 0 <=> OwningUd(o) = {}
      BY <1>1, <1>2, <1>6
    <3>2. Owners[o] = OwningUd(o) \cup {"cpp"} /\ "cpp" \notin OwningUd(o)
      BY <1>1, OwnershipAssumption DEF Owners, OwningUd
    <3> QED
      BY <3>1, <3>2
  <2>3. L!Release(o, "cpp")
    BY <1>1, <1>4, <2>1, <2>2 DEF L!Release, Owners, Count
  <2> QED
    BY <1>1, <2>3, CppKeepsOwning, OwnedStep DEF L!Next
<1>7. cppUses[o] - 1 > 0 \/ cppUses[o] - 1 = 0
  BY <1>2, <1>3
<1> QED
  BY <1>5, <1>6, <1>7
-----------------------------------------------------------------------------
(* The collector and the finalizers. *)

\* The owners stay as they are when no userdata comes to own an object or ceases to.
LEMMA OwnersStay ==
  ASSUME UNCHANGED memory, \A u \in Ud, o \in Object : Owns(u, o)' <=> Owns(u, o)
  PROVE  [L!Next]_<<alive, Owners>>
<1>1. \A x : OwningUd(x) = {v \in Ud : Owns(v, x)} /\ OwningUd(x)' = {v \in Ud : Owns(v, x)'}
  BY OwningUdIsOwns DEF OwningUd, Owns
<1>2. \A o \in Object : OwningUd(o)' = OwningUd(o)
  BY <1>1
<1>3. Owners' = Owners
  BY <1>2 DEF Owners, memory
<1> QED
  BY <1>3 DEF memory

LEMMA DropKeeps ==
  ASSUME OwnInv, NEW u \in Ud, Drop(u), UNCHANGED memory
  PROVE  Owned' /\ [L!Next]_<<alive, Owners>>
<1>1. phase' = phase /\ ptr' = ptr /\ flags' = flags /\ shared' = shared
  BY DEF Drop, memory
<1>2. GcMayDelete' /\ DoomedIsLast'
  BY <1>1 DEF OwnInv, Owned, GcMayDelete, DoomedIsLast
<1>3. \A v \in Ud, o \in Object : Owns(v, o)' <=> Owns(v, o)
  BY <1>1 DEF Owns
<1> QED
  BY <1>2, <1>3, OwnersStay, OwnedStep

\* Of what the collector takes, a raw userdata which will delete its object was
\* the only live one through which the object could change hands.
LEMMA CollectKeeps ==
  ASSUME OneChain, OwnInv, NEW dead \in SUBSET Ud, Collect(dead), UNCHANGED memory
  PROVE  Owned' /\ [L!Next]_<<alive, Owners>>
<1>1. /\ ptr' = ptr /\ flags' = flags /\ shared' = shared
      /\ \A u \in Ud : phase'[u] = IF u \in dead THEN "doomed" ELSE phase[u]
      /\ \A u \in dead : phase[u] = "live"
  BY DEF Collect, memory
<1>2. \A u \in Ud : phase'[u] = "free" <=> phase[u] = "free"
  BY <1>1
<1>3. \A v \in Ud, o \in Object : Owns(v, o)' <=> Owns(v, o)
  BY <1>1, <1>2 DEF Owns
<1>4. GcMayDelete'
  BY <1>1, <1>2 DEF OwnInv, Owned, GcMayDelete
<1>5. DoomedIsLast'
  <2> SUFFICES ASSUME NEW u \in Ud, NEW v \in Ud,
                      phase'[u] = "doomed", u \notin shared, "gc" \in flags[u],
                      phase'[v] = "live", ptr[v] \in Deletable, Whole[ptr[v]] = Whole[ptr[u]]
               PROVE  FALSE
    BY <1>1 DEF DoomedIsLast
  <2>1. phase[v] = "live" /\ v # u /\ ptr[v] \in Ptr
    BY <1>1, OwnTypes
  <2>2. CASE u \notin dead
    BY <1>1, <2>1, <2>2 DEF OwnInv, Owned, DoomedIsLast
  <2>3. CASE u \in dead
    <3>1. phase[u] = "live" /\ ptr[u] \in Ptr
      BY <1>1, <2>3, OwnTypes
    <3>2. PICK q \in Deletable : Related(q, ptr[u])
      BY <3>1 DEF OwnInv, Owned, GcMayDelete
    <3>3. q \in Ptr /\ Whole[q] = Whole[ptr[v]]
      BY <3>1, <3>2, PtrTypes, OwnershipAssumption
    <3>4. Related(ptr[v], ptr[u])
      BY <2>1, <3>1, <3>2, <3>3 DEF OneChain, SingleInheritance, DeletableIsChain
    <3> QED
      BY <2>1, <3>1, <3>4 DEF OwnInv, OneInv, OneUserdata
  <2> QED
    BY <2>2, <2>3
<1> QED
  BY <1>3, <1>4, <1>5, OwnersStay, OwnedStep

LEMMA CleanupOwned ==
  ASSUME OwnInv, NEW u \in Ud, Cleanup(u), shared' = shared \ {u}
  PROVE  GcMayDelete' /\ DoomedIsLast'
<1>1. /\ phase[u] = "doomed" /\ phase'[u] = "free"
      /\ \A v \in Ud \ {u} : phase'[v] = phase[v] /\ ptr'[v] = ptr[v] /\ flags'[v] = flags[v]
  BY OwnTypes DEF Cleanup, TypeInv, TypeOK
<1> QED
  BY <1>1 DEF OwnInv, Owned, GcMayDelete, DoomedIsLast

\* The owner which a finalized userdata was is gone, and no other.
LEMMA CleanupReleases ==
  ASSUME OwnInv, NEW u \in Ud, Cleanup(u), shared' = shared \ {u}, cppUses' = cppUses,
         NEW o \in Object, o = Whole[ptr[u]]
  PROVE  Owners' = [Owners EXCEPT ![o] = Owners[o] \ {u}]
<1>1. /\ \A x : OwningUd(x)' = OwningUd(x) \ {u}
      /\ \A x : u \in OwningUd(x) => x = o
  BY OwnTypes, CleanupKeeps
<1>2. OwningUd(o)' \cup (IF cppUses'[o] > 0 THEN {"cpp"} ELSE {}) = Owners[o] \ {u}
  BY <1>1, OwnershipAssumption DEF Owners
<1>3. \A x \in Object \ {o} : OwningUd(x)' = OwningUd(x) /\ cppUses'[x] = cppUses[x]
  BY <1>1
<1> QED
  BY <1>1, <1>2, <1>3, OwnersChange

LEMMA FinalizeRawKeeps ==
  ASSUME OwnInv, NEW u \in Ud, FinalizeRaw(u)
  PROVE  Owned' /\ [L!Next]_<<alive, Owners>>
<1> PICK o \in Object : o = Whole[ptr[u]]
  BY OwnTypes DEF FinalizeRaw, Finalize
<1>1. /\ Cleanup(u) /\ u \notin shared /\ shared' = shared \ {u}
      /\ cppUses' = cppUses
      /\ alive' = IF "gc" \in flags[u] THEN alive \ {o} ELSE alive
  BY FinalizeIsCleanup DEF FinalizeRaw
<1>2. GcMayDelete' /\ DoomedIsLast'
  BY <1>1, CleanupOwned
<1>3. Owns(u, o) <=> "gc" \in flags[u]
  BY <1>1 DEF Cleanup, Owns
<1>4. Owners' = [Owners EXCEPT ![o] = Owners[o] \ {u}]
  BY <1>1, CleanupReleases
<1>5. CASE "gc" \in flags[u]
  <2>1. u \in Owners[o] /\ o \notin Managed
    BY <1>1, <1>3, <1>5, OwnersOf, OwnTypes, SharedOwn
  <2>2. Owners[o] = {u}
    BY <2>1 DEF OwnInv, Owned, RawHasOneOwner
  <2>3. L!Release(o, u)
    BY <1>1, <1>4, <1>5, <2>1, <2>2 DEF L!Release, Owners
  <2> QED
    BY <1>2, <2>3, OwnedStep DEF L!Next
<1>6. CASE "gc" \notin flags[u]
  <2>1. u \notin Owners[o]
    BY <1>3, <1>6, OwnersOf
  <2>2. Owners' = Owners
    <3>1. Owners[o] \ {u} = Owners[o]
      BY <2>1
    <3> QED
      BY <1>4, <3>1 DEF Owners
  <2>3. alive' = alive
    BY <1>1, <1>6
  <2> QED
    BY <1>2, <2>2, <2>3, OwnedStep
<1> QED
  BY <1>5, <1>6

LEMMA FinalizeSharedKeeps ==
  ASSUME OwnInv, NEW u \in Ud, FinalizeShared(u)
  PROVE  Owned' /\ [L!Next]_<<alive, Owners>>
<1> PICK o \in Object : o = Whole[ptr[u]]
  BY OwnTypes DEF FinalizeShared
<1>1. Cleanup(u) /\ u \in shared /\ shared' = shared \ {u} /\ cppUses' = cppUses /\ Count(o, -1)
  BY FinalizeSharedIsCleanup DEF FinalizeShared
<1>2. GcMayDelete' /\ DoomedIsLast'
  BY <1>1, CleanupOwned
<1>3. u \in OwningUd(o) /\ u \in Owners[o] /\ o \in Managed
  <2>1. Owns(u, o)
    BY <1>1 DEF Cleanup, Owns
  <2> QED
    BY <1>1, <2>1, OwningUdIsOwns, OwnersOf, OwnTypes, SharedOwn
<1>4. /\ useCount[o] = cppUses[o] + Cardinality(OwningUd(o))
      /\ cppUses[o] \in Nat /\ Cardinality(OwningUd(o)) \in Nat \ {0}
  BY <1>3, OwnTypes, CountsOf
<1>5. useCount[o] + -1 = 0 <=> Owners[o] = {u}
  <2>1. useCount[o] + -1 = 0 <=> cppUses[o] = 0 /\ Cardinality(OwningUd(o)) = 1
    BY <1>4
  <2>2. Cardinality(OwningUd(o)) = 1 <=> OwningUd(o) = {u}
    BY <1>3, OwningIsFinite, FS_Singleton
  <2>3. Owners[o] = OwningUd(o) \cup (IF cppUses[o] > 0 THEN {"cpp"} ELSE {}) /\ "cpp" \notin OwningUd(o)
    BY OwnershipAssumption DEF Owners, OwningUd
  <2> QED
    BY <1>3, <1>4, <2>1, <2>2, <2>3
<1>6. Owners' = [Owners EXCEPT ![o] = Owners[o] \ {u}]
  BY <1>1, CleanupReleases
<1>7. L!Release(o, u)
  BY <1>1, <1>3, <1>5, <1>6 DEF L!Release, Owners, Count
<1> QED
  BY <1>2, <1>7, OwnedStep DEF L!Next
-----------------------------------------------------------------------------
(* The invariant, and what it means. *)

LEMMA OwnInit == OwnershipInit => OwnInv /\ L!Init
<1> SUFFICES ASSUME OwnershipInit
             PROVE  OwnInv /\ L!Init
  OBVIOUS
<1>1. OneInv /\ Counted
  BY OneInit, CountInit DEF OwnershipInit, CountInv
<1>2. /\ \A u \in Ud : phase[u] = "free"
      /\ alive = {} /\ cppUses = [o \in Object |-> 0]
  BY DEF OwnershipInit, Init
<1>3. \A o : OwningUd(o) = {}
  BY <1>2 DEF OwningUd
<1>4. Owners = [o \in Object |-> {}]
  BY <1>2, <1>3 DEF Owners
<1>5. GcMayDelete /\ DoomedIsLast
  BY <1>2 DEF GcMayDelete, DoomedIsLast
<1>6. AliveWhileOwned /\ RawHasOneOwner
  BY <1>2, <1>4 DEF AliveWhileOwned, RawHasOneOwner
<1> QED
  BY <1>1, <1>2, <1>4, <1>5, <1>6 DEF OwnInv, Owned, L!Init, Owners

LEMMA OwnStep ==
  ASSUME OneChain, OwnInv, [OwnershipNext]_allVars
  PROVE  OwnInv' /\ [L!Next]_<<alive, Owners>>
<1>1. OneInv'
  BY OneStep, OwnershipNextIsCacheNext DEF OneChain, OwnInv
<1>2. Counted'
  BY OwnTypes, CountStep DEF OneChain, Exact, FindsObject, CountInv
<1>3. ASSUME UNCHANGED allVars
      PROVE  Owned' /\ [L!Next]_<<alive, Owners>>
  <2>1. UNCHANGED <<vars, shared>> /\ UNCHANGED memory /\ UNCHANGED <<phase, ptr, flags>>
    BY <1>3 DEF allVars, memory, vars
  <2>2. \A u \in Ud, o \in Object : Owns(u, o)' <=> Owns(u, o)
    BY <2>1 DEF Owns, memory
  <2> QED
    BY <2>1, <2>2, CppKeepsOwning, OwnersStay, OwnedStep
<1>4. ASSUME NEW o \in Object, CppNew(o) \/ CppDelete(o) \/ CppCopy(o) \/ CppRelease(o)
      PROVE  Owned' /\ [L!Next]_<<alive, Owners>>
  BY <1>4, CppNewKeeps, CppDeleteKeeps, CppCopyKeeps, CppReleaseKeeps
<1>5. ASSUME NEW p \in Ptr, NEW isConst \in BOOLEAN, NEW owner \in Owner, PushRaw(p, isConst, owner)
      PROVE  Owned' /\ [L!Next]_<<alive, Owners>>
  BY <1>5, PushRawKeeps
<1>6. ASSUME NEW p \in Ptr, ConstructRaw(p) \/ ConstructShared(p)
      PROVE  Owned' /\ [L!Next]_<<alive, Owners>>
  BY <1>6, ConstructRawKeeps, ConstructSharedKeeps
<1>7. ASSUME NEW p \in Ptr, NEW isConst \in BOOLEAN,
             PushSharedNew(p, isConst) \/ PushSharedServed(p, isConst) \/ PushSharedUpgraded(p, isConst)
      PROVE  Owned' /\ [L!Next]_<<alive, Owners>>
  BY <1>7, PushSharedNewKeeps, PushSharedServedKeeps, PushSharedUpgradedKeeps
<1>8. ASSUME NEW u \in Ud, NEW c \in Class, NEW isConst \in BOOLEAN,
             AcquireRaw(u, c, isConst) \/ PullShared(u, c, isConst)
      PROVE  Owned' /\ [L!Next]_<<alive, Owners>>
  BY <1>8, AcquireRawKeeps, PullSharedKeeps
<1>9. ASSUME NEW u \in Ud, NEW owner \in Owner, SetOwnerRaw(u, owner) \/ SetOwnerShared(u, owner)
      PROVE  Owned' /\ [L!Next]_<<alive, Owners>>
  BY <1>9, SetOwnerRawKeeps, SetOwnerSharedKeeps
<1>10. ASSUME NEW u \in Ud, Drop(u), UNCHANGED memory
       PROVE  Owned' /\ [L!Next]_<<alive, Owners>>
  BY <1>10, DropKeeps
<1>11. ASSUME NEW dead \in SUBSET Ud, Collect(dead), UNCHANGED memory
       PROVE  Owned' /\ [L!Next]_<<alive, Owners>>
  BY <1>11, CollectKeeps
<1>12. ASSUME NEW u \in Ud, FinalizeRaw(u) \/ FinalizeShared(u)
       PROVE  Owned' /\ [L!Next]_<<alive, Owners>>
  BY <1>12, FinalizeRawKeeps, FinalizeSharedKeeps
<1>13. Owned' /\ [L!Next]_<<alive, Owners>>
  BY <1>3, <1>4, <1>5, <1>6, <1>7, <1>8, <1>9, <1>10, <1>11, <1>12 DEF OwnershipNext
<1> QED
  BY <1>1, <1>2, <1>13 DEF OwnInv

\* Ownership implements Lifetime: an object lives exactly as long as it has an
\* owner, is destroyed in the step in which the last one lets it go, and is
\* never owned by C++ and Lua at once unless shared pointers manage it.
THEOREM OwnershipImplementsLifetime ==
  ASSUME NoAliasedBase, NoAliasedClass, OneAddress, SingleInheritance, DeletableIsChain
  PROVE  OwnershipSpec => ImplementsLifetime
<1>1. OneChain
  BY DEF OneChain, Exact
<1>2. OwnInv /\ [OwnershipNext]_allVars => OwnInv' /\ [L!Next]_<<alive, Owners>>
  BY <1>1, OwnStep
<1> QED
  BY <1>2, OwnInit, PTL DEF OwnershipSpec, ImplementsLifetime, L!Spec, Owners
=============================================================================
