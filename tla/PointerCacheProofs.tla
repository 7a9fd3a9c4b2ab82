------------------------- MODULE PointerCacheProofs -------------------------
(***************************************************************************)
(* Theorems about the userdata cache, for every set of classes, every      *)
(* layout of their sub-objects and every number of userdata.               *)
(***************************************************************************)
EXTENDS PointerCache, TLAPS

-----------------------------------------------------------------------------
(* The operators the actions are made of.                                  *)

LEMMA BaseFacts ==
  ASSUME NEW p \in Ptr, NEW c \in AllBases[ClassOf[p]]
  PROVE  /\ c \in Class
         /\ Cast[p][c] \in Ptr
         /\ ClassOf[Cast[p][c]] = c
         /\ AddrOf[Cast[p][c]] \in Addr
BY LayoutAssumption

LEMMA KeysInAddr ==
  ASSUME NEW p \in Ptr
  PROVE  Keys(p) \subseteq Addr /\ BaseAddrs(p) \subseteq Keys(p) /\ AddrOf[p] \in Keys(p)
BY LayoutAssumption, BaseFacts DEF Keys, BaseAddrs

\* A base sub-object is cached under addresses of the object it is part of.
LEMMA KeysOfBase ==
  ASSUME NEW p \in Ptr, NEW c \in AllBases[ClassOf[p]]
  PROVE  Keys(Cast[p][c]) \subseteq Keys(p)
<1> DEFINE q == Cast[p][c]
<1>1. q \in Ptr /\ ClassOf[q] = c /\ c \in Class
  BY BaseFacts
<1>2. AllBases[c] \subseteq AllBases[ClassOf[p]]
  BY LayoutAssumption, <1>1
<1>3. \A b \in AllBases[c] : Cast[q][b] = Cast[p][b]
  BY LayoutAssumption
<1>4. BaseAddrs(q) \subseteq BaseAddrs(p)
  BY <1>1, <1>2, <1>3 DEF BaseAddrs
<1>5. AddrOf[q] \in BaseAddrs(p)
  BY DEF BaseAddrs
<1> QED
  BY <1>4, <1>5 DEF Keys

LEMMA RegisterType ==
  ASSUME weak \in [Addr -> Entry], NEW u \in Ud, NEW addrs
  PROVE  Register(u, addrs) \in [Addr -> Entry]
<1> SUFFICES ASSUME NEW a \in Addr
             PROVE  AddTo(weak[a], u) \in Entry
  BY DEF Register
<1> weak[a] \in Entry
  OBVIOUS
<1> QED
  BY DEF AddTo, Entry

LEMMA FlagsWithType ==
  ASSUME flags \in [Ud -> SUBSET Flag], NEW u \in Ud, NEW fl \in SUBSET Flag, NEW collided
  PROVE  FlagsWith(u, fl, collided) \in [Ud -> SUBSET Flag]
BY DEF FlagsWith, Flag

LEMMA FlagOpsType ==
  ASSUME NEW fl \in SUBSET Flag, NEW isConst \in BOOLEAN, NEW owner \in Owner
  PROVE  SetConst(fl, isConst) \in SUBSET Flag /\ SetOwner(fl, owner) \in SUBSET Flag
BY DEF SetConst, SetOwner, Flag, Owner

\* What find_ud returns is cached under an address of the object, and either
\* serves the push or is of a base class.
LEMMA CandidateIsCached ==
  ASSUME NEW p \in Ptr, NEW u \in Candidates(p)
  PROVE  /\ \E a \in Keys(p) : u \in weak[a].uds
         /\ Serves(u, p) \/ Upgrades(u, p)
<1>1. CASE u \in weak[AddrOf[p]].uds /\ (Serves(u, p) \/ Upgrades(u, p))
  BY <1>1 DEF Keys
<1>2. CASE u \in RootCandidates(p)
  <2> DEFINE roots == RootBases[ClassOf[p]]
  <2>1. PICK i \in DOMAIN roots : u \in RootHits(p, roots[i])
    BY <1>2 DEF RootCandidates
  <2>2. roots[i] \in AllBases[ClassOf[p]]
    BY LayoutAssumption
  <2>3. /\ u \in weak[AddrOf[Cast[p][roots[i]]]].uds
        /\ Upgrades(u, p)
    BY <2>1 DEF RootHits
  <2> QED
    BY <2>2, <2>3 DEF Keys, BaseAddrs
<1> QED
  BY <1>1, <1>2 DEF Candidates
-----------------------------------------------------------------------------
(* Type correctness.  A found userdata becomes held, so that held userdata *)
(* are live rests on the weak table having only live userdata.             *)

WeakLive == \A a \in Addr : \A u \in weak[a].uds : u \in Ud /\ phase[u] = "live"

TypeInv == TypeOK /\ WeakLive

LEMMA CandidateIsLive ==
  ASSUME TypeInv, NEW p \in Ptr, NEW u \in Candidates(p)
  PROVE  u \in Ud /\ phase[u] = "live" /\ ptr[u] \in Ptr
<1>1. PICK a \in Keys(p) : u \in weak[a].uds
  BY CandidateIsCached
<1>2. a \in Addr
  BY KeysInAddr
<1> QED
  BY <1>1, <1>2 DEF TypeInv, TypeOK, WeakLive

\* What add_ptr leaves in an entry.
LEMMA AddPtrEntry ==
  ASSUME TypeInv, NEW u \in Ud, NEW p \in Ptr, NEW isConst, NEW owner,
         AddPtr(u, p, isConst, owner), NEW a \in Addr
  PROVE  weak'[a].uds = IF a \in Keys(p) THEN weak[a].uds \cup {u} ELSE weak[a].uds
<1>1. weak' = Register(u, Keys(p)) /\ weak[a] \in Entry
  BY DEF AddPtr, TypeInv, TypeOK
<1>2. AddTo(weak[a], u).uds = weak[a].uds \cup {u}
  BY <1>1 DEF AddTo, Entry
<1> QED
  BY <1>1, <1>2 DEF Register

\* What reset_metatable leaves in an entry.
LEMMA ResetEntry ==
  ASSUME TypeInv, NEW u \in Ud, NEW p \in Ptr, NEW isConst, NEW owner,
         ResetMetatable(u, p, isConst, owner), NEW a \in Addr
  PROVE  weak'[a].uds = IF a \in BaseAddrs(p) THEN weak[a].uds \cup {u} ELSE weak[a].uds
<1>1. weak' = Register(u, BaseAddrs(p)) /\ weak[a] \in Entry
  BY DEF ResetMetatable, TypeInv, TypeOK
<1>2. AddTo(weak[a], u).uds = weak[a].uds \cup {u}
  BY <1>1 DEF AddTo, Entry
<1> QED
  BY <1>1, <1>2 DEF Register

LEMMA AddPtrType ==
  ASSUME TypeInv, NEW u \in Ud, NEW p \in Ptr, NEW isConst \in BOOLEAN, NEW owner \in Owner,
         AddPtr(u, p, isConst, owner)
  PROVE  TypeInv'
<1> USE DEF TypeInv
<1> DEFINE fl == SetOwner(SetConst({}, isConst), owner)
<1>1. fl \in SUBSET Flag
  BY FlagOpsType, {} \in SUBSET Flag
<1>2. flags' \in [Ud -> SUBSET Flag]
  BY <1>1, FlagsWithType DEF AddPtr, TypeOK
<1>3. weak' \in [Addr -> Entry]
  BY RegisterType DEF AddPtr, TypeOK
<1>4. phase' \in [Ud -> {"free", "live", "doomed"}] /\ ptr' \in [Ud -> Ptr \cup {NULL}]
  BY DEF AddPtr, TypeOK
<1>5. \A v \in Ud : (ptr'[v] = NULL) <=> (phase'[v] = "free")
  BY LayoutAssumption DEF AddPtr, TypeOK
<1>6. held' \subseteq Ud /\ \A v \in held' : phase'[v] = "live"
  BY DEF AddPtr, TypeOK
<1>7. WeakLive'
  <2> SUFFICES ASSUME NEW a \in Addr, NEW v \in weak'[a].uds
               PROVE  v \in Ud /\ phase'[v] = "live"
    BY DEF WeakLive
  <2>1. v = u \/ v \in weak[a].uds
    BY AddPtrEntry
  <2> QED
    BY <2>1 DEF AddPtr, TypeOK, WeakLive
<1> QED
  BY <1>2, <1>3, <1>4, <1>5, <1>6, <1>7 DEF TypeOK

LEMMA ServeType ==
  ASSUME TypeInv, NEW u \in Ud, NEW p \in Ptr, NEW isConst \in BOOLEAN, NEW owner \in Owner,
         phase[u] = "live", Serve(u, p, isConst, owner)
  PROVE  TypeInv'
<1> DEFINE fl == IF isConst THEN flags[u] ELSE flags[u] \ {"const"}
<1>1. fl \in SUBSET Flag
  BY DEF TypeInv, TypeOK
<1>2. SetOwner(fl, owner) \in SUBSET Flag
  BY <1>1, FlagOpsType
<1>3. flags' \in [Ud -> SUBSET Flag]
  BY <1>2 DEF Serve, TypeInv, TypeOK
<1> QED
  BY <1>3 DEF Serve, TypeInv, TypeOK, WeakLive

LEMMA ResetMetatableType ==
  ASSUME TypeInv, NEW u \in Ud, NEW p \in Ptr, NEW isConst \in BOOLEAN, NEW owner \in Owner,
         phase[u] = "live", ResetMetatable(u, p, isConst, owner)
  PROVE  TypeInv'
<1>1. flags' \in [Ud -> SUBSET Flag]
  <2>1. flags[u] \in SUBSET Flag /\ (isConst /\ "const" \in flags[u]) \in BOOLEAN
    BY DEF TypeInv, TypeOK
  <2>2. SetOwner(SetConst(flags[u], isConst /\ "const" \in flags[u]), owner) \in SUBSET Flag
    BY <2>1, FlagOpsType
  <2> QED
    BY <2>2, FlagsWithType DEF ResetMetatable, TypeInv, TypeOK
<1>2. weak' \in [Addr -> Entry]
  BY RegisterType DEF ResetMetatable, TypeInv, TypeOK
<1>3. WeakLive'
  <2> SUFFICES ASSUME NEW a \in Addr, NEW v \in weak'[a].uds
               PROVE  v \in Ud /\ phase'[v] = "live"
    BY DEF WeakLive
  <2>1. v = u \/ v \in weak[a].uds
    BY ResetEntry, ZenonT(60)
  <2> QED
    BY <2>1 DEF ResetMetatable, TypeInv, WeakLive
<1>4. /\ ptr' \in [Ud -> Ptr \cup {NULL}]
      /\ phase' \in [Ud -> {"free", "live", "doomed"}]
      /\ held' \subseteq Ud
      /\ \A v \in Ud : (ptr'[v] = NULL) <=> (phase'[v] = "free")
      /\ \A v \in held' : phase'[v] = "live"
  BY LayoutAssumption DEF ResetMetatable, TypeInv, TypeOK
<1> QED
  BY <1>1, <1>2, <1>3, <1>4 DEF TypeInv, TypeOK

LEMMA ChangeOwnerType ==
  ASSUME TypeInv, NEW u \in Ud, NEW owner \in Owner,
         flags' = [flags EXCEPT ![u] = SetOwner(@, owner)],
         UNCHANGED <<phase, ptr, weak, held>>
  PROVE  TypeInv'
<1>1. SetOwner(flags[u], owner) \in SUBSET Flag
  BY FlagOpsType DEF TypeInv, TypeOK
<1> QED
  BY <1>1 DEF TypeInv, TypeOK, WeakLive

\* What an entry becomes when the collector clears dead userdata from it.
LEMMA CollectEntry ==
  ASSUME TypeInv, NEW dead \in SUBSET Ud, Collect(dead), NEW a \in Addr
  PROVE  /\ weak'[a] \in Entry
         /\ weak'[a].uds = weak[a].uds \ dead
         /\ weak'[a].kind = IF weak[a].kind = "userdata" /\ weak[a].uds \ dead = {}
                            THEN "nil" ELSE weak[a].kind
<1>1. weak[a] \in Entry
  BY DEF TypeInv, TypeOK
<1> QED
  BY <1>1 DEF Collect, Entry, NoEntry

LEMMA CollectType ==
  ASSUME TypeInv, NEW dead \in SUBSET Ud, Collect(dead)
  PROVE  TypeInv'
<1>1. weak' \in [Addr -> Entry]
  <2>1. \A a \in Addr : weak'[a] \in Entry
    BY CollectEntry
  <2> QED
    BY <2>1 DEF Collect
<1>2. WeakLive'
  BY CollectEntry DEF TypeInv, WeakLive, Collect
<1>3. /\ phase' \in [Ud -> {"free", "live", "doomed"}]
      /\ \A v \in Ud : (ptr'[v] = NULL) <=> (phase'[v] = "free")
      /\ \A v \in held' : phase'[v] = "live"
  BY DEF Collect, TypeInv, TypeOK
<1> QED
  BY <1>1, <1>2, <1>3 DEF Collect, TypeInv, TypeOK

\* A finalizer which cleans up some of the empty entries.  Those of Finalize are
\* the ones of its object; the __gc of a shared pointer may miss them.
Cleanup(u) ==
  /\ phase[u] = "doomed"
  /\ phase' = [phase EXCEPT ![u] = "free"]
  /\ ptr' = [ptr EXCEPT ![u] = NULL]
  /\ flags' = [flags EXCEPT ![u] = {}]
  /\ \E cleaned \in SUBSET {a \in Addr : weak[a].uds = {}} :
       weak' = [a \in Addr |-> IF a \in cleaned THEN NoEntry ELSE weak[a]]
  /\ UNCHANGED held

CacheNext == Next \/ \E u \in Ud : Cleanup(u)

LEMMA FinalizeIsCleanup ==
  ASSUME NEW u \in Ud, Finalize(u)
  PROVE  Cleanup(u)
<1> DEFINE cleaned == {a \in Addr : /\ "collision" \in flags[u]
                                   /\ a \in Keys(ptr[u])
                                   /\ weak[a].uds = {}}
<1>1. /\ weak' = [a \in Addr |-> IF a \in cleaned THEN NoEntry ELSE weak[a]]
      /\ cleaned \in SUBSET {a \in Addr : weak[a].uds = {}}
  BY DEF Finalize
<1> QED
  BY <1>1 DEF Finalize, Cleanup

\* A finalizer removes entries that are empty and touches no other.
LEMMA CleanupEntry ==
  ASSUME TypeInv, NEW u \in Ud, Cleanup(u), NEW a \in Addr
  PROVE  /\ weak'[a] \in Entry
         /\ weak'[a].uds = weak[a].uds
         /\ weak'[a] = weak[a] \/ (weak'[a] = NoEntry /\ weak[a].uds = {})
<1>1. weak[a] \in Entry /\ NoEntry \in Entry /\ NoEntry.uds = {}
  BY DEF TypeInv, TypeOK, Entry, NoEntry
<1>2. weak'[a] = weak[a] \/ (weak'[a] = NoEntry /\ weak[a].uds = {})
  BY DEF Cleanup
<1> QED
  BY <1>1, <1>2

LEMMA CleanupType ==
  ASSUME TypeInv, NEW u \in Ud, Cleanup(u)
  PROVE  TypeInv'
<1>1. weak' \in [Addr -> Entry]
  <2>1. \A a \in Addr : weak'[a] \in Entry
    BY CleanupEntry
  <2> QED
    BY <2>1 DEF Cleanup
<1>2. WeakLive'
  BY CleanupEntry DEF TypeInv, WeakLive, Cleanup, TypeOK
<1>3. /\ phase' \in [Ud -> {"free", "live", "doomed"}]
      /\ ptr' \in [Ud -> Ptr \cup {NULL}]
      /\ flags' \in [Ud -> SUBSET Flag]
      /\ \A v \in Ud : (ptr'[v] = NULL) <=> (phase'[v] = "free")
      /\ \A v \in held' : phase'[v] = "live"
  BY DEF Cleanup, TypeInv, TypeOK
<1> QED
  BY <1>1, <1>2, <1>3 DEF Cleanup, TypeInv, TypeOK

LEMMA TypeInit == Init => TypeInv
BY LayoutAssumption DEF Init, TypeInv, TypeOK, WeakLive, NoEntry, Entry

LEMMA TypeStep == TypeInv /\ [CacheNext]_vars => TypeInv'
<1> SUFFICES ASSUME TypeInv, [CacheNext]_vars
             PROVE  TypeInv'
  OBVIOUS
<1>1. ASSUME NEW p \in Ptr, NEW isConst \in BOOLEAN, NEW owner \in Owner,
             Push(p, isConst, owner)
      PROVE  TypeInv'
  <2>1. CASE PushNew(p, isConst, owner)
    BY <2>1, AddPtrType DEF PushNew
  <2>2. CASE PushServed(p, isConst, owner)
    BY <2>2, CandidateIsLive, ServeType DEF PushServed
  <2>3. CASE PushUpgraded(p, isConst, owner)
    BY <2>3, CandidateIsLive, ResetMetatableType DEF PushUpgraded
  <2> QED
    BY <1>1, <2>1, <2>2, <2>3 DEF Push
<1>2. ASSUME NEW p \in Ptr, Construct(p)
      PROVE  TypeInv'
  <2>1. PICK u \in Ud : AddPtr(u, p, FALSE, "Lua")
    BY <1>2 DEF Construct
  <2> QED
    BY <2>1, AddPtrType DEF Owner
<1>3. ASSUME NEW u \in Ud, NEW owner \in Owner, LuaSetOwner(u, owner)
      PROVE  TypeInv'
  BY <1>3, ChangeOwnerType DEF LuaSetOwner
<1>4. ASSUME NEW u \in Ud, NEW c \in Class, NEW isConst \in BOOLEAN, CppAcquire(u, c, isConst)
      PROVE  TypeInv'
  BY <1>4, ChangeOwnerType DEF CppAcquire, Owner
<1>5. ASSUME NEW u \in Ud, Drop(u)
      PROVE  TypeInv'
  BY <1>5 DEF Drop, TypeInv, TypeOK, WeakLive
<1>6. ASSUME NEW dead \in SUBSET Ud, Collect(dead)
      PROVE  TypeInv'
  BY <1>6, CollectType
<1>7. ASSUME NEW u \in Ud, Cleanup(u)
      PROVE  TypeInv'
  BY <1>7, CleanupType
<1>8. CASE UNCHANGED vars
  BY <1>8 DEF vars, TypeInv, TypeOK, WeakLive
<1> QED
  BY <1>1, <1>2, <1>3, <1>4, <1>5, <1>6, <1>7, <1>8, FinalizeIsCleanup DEF CacheNext, Next

LEMMA NextIsCacheNext == [Next]_vars => [CacheNext]_vars
BY DEF CacheNext

LEMMA TypeInvariant == Spec => []TypeInv
BY TypeInit, TypeStep, NextIsCacheNext, PTL DEF Spec

\* The variables keep their types, and a userdata which Lua reaches is live:
\* the collector never finalizes one that find_ud has just returned.
THEOREM TypeCorrect == Spec => []TypeOK
<1>1. TypeInv => TypeOK
  BY DEF TypeInv
<1> QED
  BY <1>1, TypeInvariant, PTL
-----------------------------------------------------------------------------
(* The cache is sound: what it stores under an address is a live userdata  *)
(* of an object which has that address.  A layout which puts an unrelated  *)
(* object of a base class at the address of a derived one is excluded.     *)

SoundInv == TypeInv /\ CacheSound

LEMMA CandidateSharesKey ==
  ASSUME SoundInv, NEW p \in Ptr, NEW u \in Candidates(p)
  PROVE  Keys(p) \cap Keys(ptr[u]) # {}
<1>1. PICK a \in Keys(p) : u \in weak[a].uds
  BY CandidateIsCached
<1>2. a \in Addr
  BY KeysInAddr
<1> QED
  BY <1>1, <1>2 DEF SoundInv, CacheSound

\* A userdata which reset_metatable changes stores a base of the new pointer.
LEMMA ResetIsSameObject ==
  ASSUME NoAliasedBase, SoundInv, NEW p \in Ptr, NEW u \in Candidates(p), ~Serves(u, p)
  PROVE  /\ ClassOf[ptr[u]] \in AllBases[ClassOf[p]]
         /\ ptr[u] = Cast[p][ClassOf[ptr[u]]]
         /\ Keys(ptr[u]) \subseteq Keys(p)
<1>1. ptr[u] \in Ptr
  BY CandidateIsLive DEF SoundInv
<1>2. ClassOf[ptr[u]] \in AllBases[ClassOf[p]]
  BY CandidateIsCached DEF Upgrades
<1>3. ptr[u] = Cast[p][ClassOf[ptr[u]]]
  BY <1>1, <1>2, CandidateSharesKey DEF NoAliasedBase
<1>4. Keys(Cast[p][ClassOf[ptr[u]]]) \subseteq Keys(p)
  BY <1>2, KeysOfBase
<1> QED
  BY <1>2, <1>3, <1>4

LEMMA SoundAddPtr ==
  ASSUME SoundInv, NEW u \in Ud, NEW p \in Ptr, NEW isConst, NEW owner,
         AddPtr(u, p, isConst, owner)
  PROVE  CacheSound'
<1> SUFFICES ASSUME NEW a \in Addr, NEW v \in weak'[a].uds
             PROVE  phase'[v] = "live" /\ a \in Keys(ptr'[v])
  BY DEF CacheSound
<1>1. CASE v \in weak[a].uds
  <2>1. v \in Ud /\ phase[v] = "live" /\ a \in Keys(ptr[v])
    BY <1>1 DEF SoundInv, TypeInv, WeakLive, CacheSound
  <2>2. v # u
    BY <2>1 DEF AddPtr
  <2> QED
    BY <2>1, <2>2 DEF AddPtr, SoundInv, TypeInv, TypeOK
<1>2. CASE v = u /\ a \in Keys(p)
  BY <1>2 DEF SoundInv, TypeInv, TypeOK, AddPtr
<1>3. v \in weak[a].uds \/ (v = u /\ a \in Keys(p))
  <2>1. weak'[a].uds = IF a \in Keys(p) THEN weak[a].uds \cup {u} ELSE weak[a].uds
    BY AddPtrEntry DEF SoundInv
  <2> QED
    BY <2>1
<1> QED
  BY <1>1, <1>2, <1>3

LEMMA SoundReset ==
  ASSUME NoAliasedBase, SoundInv, NEW p \in Ptr, NEW isConst, NEW owner,
         NEW u \in Ud, u \in Candidates(p), ResetMetatable(u, p, isConst, owner)
  PROVE  CacheSound'
<1> SUFFICES ASSUME NEW a \in Addr, NEW v \in weak'[a].uds
             PROVE  phase'[v] = "live" /\ a \in Keys(ptr'[v])
  BY DEF CacheSound
<1>1. phase[u] = "live" /\ phase' = phase /\ ptr' = [ptr EXCEPT ![u] = p] /\ ptr \in [Ud -> Ptr \cup {NULL}]
  BY CandidateIsLive DEF ResetMetatable, SoundInv, TypeInv, TypeOK
<1>2. CASE v = u
  <2>1. a \in BaseAddrs(p) \/ a \in Keys(ptr[u])
    BY <1>2, ResetEntry DEF SoundInv, CacheSound
  <2>2. Keys(ptr[u]) \subseteq Keys(p) /\ BaseAddrs(p) \subseteq Keys(p)
    BY ResetIsSameObject, KeysInAddr DEF ResetMetatable
  <2> QED
    BY <1>1, <1>2, <2>1, <2>2
<1>3. CASE v # u
  <2>1. v \in weak[a].uds
    BY <1>3, ResetEntry DEF SoundInv
  <2>2. v \in Ud
    BY <2>1 DEF SoundInv, TypeInv, WeakLive
  <2> QED
    BY <1>1, <1>3, <2>1, <2>2 DEF SoundInv, CacheSound
<1> QED
  BY <1>2, <1>3

LEMMA SoundStep ==
  ASSUME NoAliasedBase, SoundInv, [CacheNext]_vars
  PROVE  SoundInv'
<1>1. TypeInv'
  BY TypeStep DEF SoundInv
<1>2. CacheSound'
  <2>1. ASSUME NEW p \in Ptr, NEW isConst \in BOOLEAN, NEW owner \in Owner,
               Push(p, isConst, owner)
        PROVE  CacheSound'
    <3>1. CASE PushNew(p, isConst, owner)
      BY <3>1, SoundAddPtr DEF PushNew
    <3>2. CASE PushServed(p, isConst, owner)
      BY <3>2 DEF PushServed, Serve, SoundInv, CacheSound
    <3>3. CASE PushUpgraded(p, isConst, owner)
      BY <3>3, SoundReset, CandidateIsLive DEF PushUpgraded, SoundInv
    <3> QED
      BY <2>1, <3>1, <3>2, <3>3 DEF Push
  <2>2. ASSUME NEW p \in Ptr, Construct(p)
        PROVE  CacheSound'
    BY <2>2, SoundAddPtr DEF Construct
  <2>3. ASSUME NEW u \in Ud, NEW owner \in Owner, LuaSetOwner(u, owner)
        PROVE  CacheSound'
    BY <2>3 DEF LuaSetOwner, SoundInv, CacheSound
  <2>4. ASSUME NEW u \in Ud, NEW c \in Class, NEW isConst \in BOOLEAN, CppAcquire(u, c, isConst)
        PROVE  CacheSound'
    BY <2>4 DEF CppAcquire, SoundInv, CacheSound
  <2>5. ASSUME NEW u \in Ud, Drop(u)
        PROVE  CacheSound'
    BY <2>5 DEF Drop, SoundInv, CacheSound
  <2>6. ASSUME NEW dead \in SUBSET Ud, Collect(dead)
        PROVE  CacheSound'
    <3> SUFFICES ASSUME NEW a \in Addr, NEW v \in weak'[a].uds
                 PROVE  phase'[v] = "live" /\ a \in Keys(ptr'[v])
      BY DEF CacheSound
    <3>1. v \in weak[a].uds /\ v \notin dead
      BY <2>6, CollectEntry DEF SoundInv
    <3>2. v \in Ud
      BY <3>1 DEF SoundInv, TypeInv, WeakLive
    <3> QED
      BY <2>6, <3>1, <3>2 DEF Collect, SoundInv, CacheSound
  <2>7. ASSUME NEW u \in Ud, Cleanup(u)
        PROVE  CacheSound'
    <3> SUFFICES ASSUME NEW a \in Addr, NEW v \in weak'[a].uds
                 PROVE  phase'[v] = "live" /\ a \in Keys(ptr'[v])
      BY DEF CacheSound
    <3>1. v \in weak[a].uds
      BY <2>7, CleanupEntry DEF SoundInv
    <3>2. phase[v] = "live" /\ v \in Ud /\ a \in Keys(ptr[v])
      BY <3>1 DEF SoundInv, TypeInv, WeakLive, CacheSound
    <3>3. v # u
      BY <2>7, <3>2 DEF Cleanup
    <3> QED
      BY <2>7, <3>2, <3>3 DEF Cleanup, SoundInv, TypeInv, TypeOK
  <2>8. CASE UNCHANGED vars
    BY <2>8 DEF vars, SoundInv, CacheSound
  <2> QED
    BY <2>1, <2>2, <2>3, <2>4, <2>5, <2>6, <2>7, <2>8, FinalizeIsCleanup DEF CacheNext, Next
<1> QED
  BY <1>1, <1>2 DEF SoundInv

\* NoAliasedBase speaks of constants only, so it is a hypothesis of the program.
LEMMA SoundInvariant ==
  ASSUME NoAliasedBase
  PROVE  Spec => []SoundInv
<1>1. Init => SoundInv
  BY TypeInit DEF Init, SoundInv, CacheSound, NoEntry
<1>2. SoundInv /\ [Next]_vars => SoundInv'
  BY SoundStep, NextIsCacheNext
<1> QED
  BY <1>1, <1>2, PTL DEF Spec

\* Whatever is pushed, collected and finalized in whatever order, a userdata is
\* cached only while it is live and only under addresses of its own object.
THEOREM CacheIsSound ==
  ASSUME NoAliasedBase
  PROVE  Spec => []CacheSound
<1>1. SoundInv => CacheSound
  BY DEF SoundInv
<1> QED
  BY <1>1, SoundInvariant, PTL

LEMMA CandidateIsRelated ==
  ASSUME NoAliasedBase, NoAliasedClass, SoundInv, NEW p \in Ptr, NEW u \in Candidates(p)
  PROVE  Related(p, ptr[u])
<1>1. ptr[u] \in Ptr /\ Keys(p) \cap Keys(ptr[u]) # {}
  BY CandidateIsLive, CandidateSharesKey DEF SoundInv
<1>2. CASE ClassOf[ptr[u]] = ClassOf[p]
  BY <1>1, <1>2 DEF NoAliasedClass, Related
<1>3. CASE ClassOf[p] \in AllBases[ClassOf[ptr[u]]]
  BY <1>1, <1>3 DEF NoAliasedBase, Related
<1>4. CASE ClassOf[ptr[u]] \in AllBases[ClassOf[p]]
  BY <1>1, <1>4 DEF NoAliasedBase, Related
<1> QED
  BY <1>2, <1>3, <1>4, CandidateIsCached DEF Serves, Upgrades

\* A push never yields the userdata of another object: what find_ud returns and
\* the pushed pointer are casts of one another.
THEOREM PushFindsSameObject ==
  ASSUME NoAliasedBase, NoAliasedClass
  PROVE  Spec => []FoundIsSameObject
<1>1. SoundInv => FoundIsSameObject
  BY CandidateIsRelated DEF FoundIsSameObject
<1> QED
  BY <1>1, SoundInvariant, PTL
-----------------------------------------------------------------------------
(* Collision tables: their members carry the flag which makes __gc clean   *)
(* up, so a table the collector has emptied has a finalizer pending.       *)

TableInv == SoundInv /\ CollisionFlagged /\ NoLeakedTable

Collides(v) == "collision" \in flags[v]
InUse(v) == phase[v] # "free"

LEMMA FlagOpsKeepCollision ==
  ASSUME NEW fl, NEW isConst, NEW owner, "collision" \in fl
  PROVE  "collision" \in SetConst(fl, isConst) /\ "collision" \in SetOwner(fl, owner)
BY DEF SetConst, SetOwner

\* add_ptr_if_required flags every userdata it puts, or finds, in a table.
LEMMA RegisterKeepsFlagged ==
  ASSUME TypeInv, CollisionFlagged, NEW u \in Ud, NEW addrs \in SUBSET Addr,
         weak' = Register(u, addrs),
         \A v \in Ud : InUse(v) /\ Collides(v) => Collides(v)',
         \A v \in Collided(u, addrs) : Collides(v)'
  PROVE  CollisionFlagged'
<1> SUFFICES ASSUME NEW a \in Addr
             PROVE  /\ weak'[a].kind = "nil" => weak'[a].uds = {}
                    /\ weak'[a].kind = "userdata" => \E v \in Ud : weak'[a].uds = {v}
                    /\ weak'[a].kind = "table" => \A v \in weak'[a].uds : Collides(v)'
  BY DEF CollisionFlagged, Collides
<1>1. weak[a] \in Entry
  BY DEF TypeInv, TypeOK
<1>2. CASE weak'[a] = weak[a]
  <2>1. \A v \in weak[a].uds : v \in Ud /\ InUse(v)
    BY DEF TypeInv, WeakLive, InUse
  <2>2. weak[a].kind = "table" => \A v \in weak[a].uds : Collides(v)
    BY DEF CollisionFlagged, Collides
  <2> QED
    BY <1>2, <2>1, <2>2 DEF CollisionFlagged
<1>3. CASE a \in addrs /\ u \notin weak[a].uds
  <2>1. /\ weak'[a].kind = IF weak[a].kind = "nil" THEN "userdata" ELSE "table"
        /\ weak'[a].uds = weak[a].uds \cup {u}
    BY <1>3 DEF Register, AddTo
  <2>2. CASE weak[a].kind = "nil"
    <3>1. weak[a].uds = {}
      BY <2>2 DEF CollisionFlagged
    <3> QED
      BY <2>1, <2>2, <3>1
  <2>3. CASE weak[a].kind = "userdata"
    <3>1. u \in Collided(u, addrs) /\ weak[a].uds \subseteq Collided(u, addrs)
      BY <1>3, <2>3 DEF Collided
    <3> QED
      BY <2>1, <2>3, <3>1
  <2>4. CASE weak[a].kind = "table"
    <3>1. u \in Collided(u, addrs)
      BY <1>3, <2>4 DEF Collided
    <3>2. \A v \in weak[a].uds : v \in Ud /\ InUse(v) /\ Collides(v)
      BY <2>4 DEF CollisionFlagged, Collides, TypeInv, WeakLive, InUse
    <3> QED
      BY <2>1, <2>4, <3>1, <3>2
  <2> QED
    BY <1>1, <2>2, <2>3, <2>4 DEF Entry
<1> QED
  BY <1>2, <1>3 DEF Register, AddTo

\* FlagsWith takes COLLISION_FLAG from nobody and gives it to what collides.
LEMMA FlagsWithCollision ==
  ASSUME flags \in [Ud -> SUBSET Flag], NEW u \in Ud, NEW fl, NEW collided \in SUBSET Ud,
         InUse(u) /\ Collides(u) => "collision" \in fl,
         flags' = FlagsWith(u, fl, collided)
  PROVE  /\ \A v \in Ud : InUse(v) /\ Collides(v) => Collides(v)'
         /\ \A v \in collided : Collides(v)'
BY DEF FlagsWith, Collides

LEMMA CollidedInUd ==
  ASSUME TypeInv, NEW u \in Ud, NEW addrs \in SUBSET Addr
  PROVE  Collided(u, addrs) \in SUBSET Ud
BY DEF Collided, TypeInv, WeakLive

\* What add_ptr and reset_metatable do to the flags and the tables.
LEMMA AddPtrTables ==
  ASSUME TypeInv, CollisionFlagged, NEW u \in Ud, NEW p \in Ptr, NEW isConst, NEW owner,
         AddPtr(u, p, isConst, owner)
  PROVE  CollisionFlagged' /\ \A v \in Ud : InUse(v) /\ Collides(v) => Collides(v)'
<1>1. Keys(p) \in SUBSET Addr
  BY KeysInAddr
<1>2. Collided(u, Keys(p)) \in SUBSET Ud
  BY <1>1, CollidedInUd
<1>3. ~InUse(u)
  BY DEF InUse, AddPtr
<1>4. /\ \A v \in Ud : InUse(v) /\ Collides(v) => Collides(v)'
      /\ \A v \in Collided(u, Keys(p)) : Collides(v)'
  <2> DEFINE fl == SetOwner(SetConst({}, isConst), owner)
  <2>1. flags' = FlagsWith(u, fl, Collided(u, Keys(p))) /\ flags \in [Ud -> SUBSET Flag]
    BY DEF AddPtr, TypeInv, TypeOK
  <2> HIDE DEF fl
  <2> QED
    BY <1>2, <1>3, <2>1, FlagsWithCollision
<1> QED
  BY <1>1, <1>4, RegisterKeepsFlagged DEF AddPtr

LEMMA ResetTables ==
  ASSUME TypeInv, CollisionFlagged, NEW u \in Ud, NEW p \in Ptr, NEW isConst, NEW owner,
         ResetMetatable(u, p, isConst, owner)
  PROVE  CollisionFlagged' /\ \A v \in Ud : InUse(v) /\ Collides(v) => Collides(v)'
<1>1. BaseAddrs(p) \in SUBSET Addr
  BY KeysInAddr
<1>2. Collided(u, BaseAddrs(p)) \in SUBSET Ud
  BY <1>1, CollidedInUd
<1>3. /\ \A v \in Ud : InUse(v) /\ Collides(v) => Collides(v)'
      /\ \A v \in Collided(u, BaseAddrs(p)) : Collides(v)'
  <2> DEFINE fl == SetOwner(SetConst(flags[u], isConst /\ "const" \in flags[u]), owner)
  <2>1. flags' = FlagsWith(u, fl, Collided(u, BaseAddrs(p))) /\ flags \in [Ud -> SUBSET Flag]
    BY DEF ResetMetatable, TypeInv, TypeOK
  <2>2. InUse(u) /\ Collides(u) => "collision" \in fl
    BY FlagOpsKeepCollision DEF Collides
  <2> HIDE DEF fl
  <2> QED
    BY <1>2, <2>1, <2>2, FlagsWithCollision
<1> QED
  BY <1>1, <1>3, RegisterKeepsFlagged DEF ResetMetatable
\* A table which is empty after a registration was empty, and untouched, before.
LEMMA RegisterKeepsLeakFree ==
  ASSUME TypeInv, NoLeakedTable, NEW u \in Ud, NEW addrs \in SUBSET Addr,
         weak' = Register(u, addrs), phase[u] # "doomed",
         \A v \in Ud \ {u} : phase'[v] = phase[v] /\ ptr'[v] = ptr[v],
         \A v \in Ud : InUse(v) /\ Collides(v) => Collides(v)'
  PROVE  NoLeakedTable'
<1> SUFFICES ASSUME NEW a \in Addr, weak'[a].kind = "table", weak'[a].uds = {}
             PROVE  \E v \in Ud : phase'[v] = "doomed" /\ Collides(v)' /\ a \in Keys(ptr'[v])
  BY DEF NoLeakedTable, Collides
<1>1. weak'[a] = weak[a]
  BY DEF Register, AddTo
<1>2. PICK v \in Ud : phase[v] = "doomed" /\ Collides(v) /\ a \in Keys(ptr[v])
  BY <1>1 DEF NoLeakedTable, Collides
<1>3. v # u /\ InUse(v)
  BY <1>2 DEF InUse
<1> QED
  BY <1>2, <1>3

LEMMA CollectTables ==
  ASSUME TableInv, NEW dead \in SUBSET Ud, Collect(dead)
  PROVE  CollisionFlagged' /\ NoLeakedTable'
<1> USE DEF TableInv, SoundInv
<1>1. CollisionFlagged'
  <2> SUFFICES ASSUME NEW a \in Addr
               PROVE  /\ weak'[a].kind = "nil" => weak'[a].uds = {}
                      /\ weak'[a].kind = "userdata" => \E v \in Ud : weak'[a].uds = {v}
                      /\ weak'[a].kind = "table" => \A v \in weak'[a].uds : "collision" \in flags'[v]
    BY DEF CollisionFlagged
  <2>1. /\ weak'[a].uds = weak[a].uds \ dead
        /\ weak'[a].kind = IF weak[a].kind = "userdata" /\ weak[a].uds \ dead = {}
                           THEN "nil" ELSE weak[a].kind
        /\ flags' = flags
    BY CollectEntry DEF Collect
  <2>2. /\ weak[a].kind = "nil" => weak[a].uds = {}
        /\ weak[a].kind = "userdata" => \E v \in Ud : weak[a].uds = {v}
        /\ weak[a].kind = "table" => \A v \in weak[a].uds : "collision" \in flags[v]
    BY DEF CollisionFlagged
  <2> QED
    BY <2>1, <2>2
<1>2. NoLeakedTable'
  <2> SUFFICES ASSUME NEW a \in Addr, weak'[a].kind = "table", weak'[a].uds = {}
               PROVE  \E v \in Ud : phase'[v] = "doomed" /\ "collision" \in flags'[v] /\ a \in Keys(ptr'[v])
    BY DEF NoLeakedTable
  <2>1. weak[a].kind = "table" /\ weak[a].uds \subseteq dead
    BY CollectEntry
  <2>2. CASE weak[a].uds = {}
    <3>1. PICK v \in Ud : phase[v] = "doomed" /\ "collision" \in flags[v] /\ a \in Keys(ptr[v])
      BY <2>1, <2>2 DEF NoLeakedTable
    <3> QED
      BY <3>1 DEF Collect
  <2>3. CASE weak[a].uds # {}
    <3>1. PICK v \in weak[a].uds : TRUE
      BY <2>3
    <3>2. v \in dead /\ v \in Ud /\ "collision" \in flags[v] /\ a \in Keys(ptr[v])
      BY <2>1, <3>1 DEF CollisionFlagged, CacheSound
    <3> QED
      BY <3>2 DEF Collect
  <2> QED
    BY <2>2, <2>3
<1> QED
  BY <1>1, <1>2

LEMMA FinalizeTables ==
  ASSUME TableInv, NEW u \in Ud, Finalize(u)
  PROVE  CollisionFlagged' /\ NoLeakedTable'
<1> USE DEF TableInv, SoundInv
<1>1. CollisionFlagged'
  <2> SUFFICES ASSUME NEW a \in Addr
               PROVE  /\ weak'[a].kind = "nil" => weak'[a].uds = {}
                      /\ weak'[a].kind = "userdata" => \E v \in Ud : weak'[a].uds = {v}
                      /\ weak'[a].kind = "table" => \A v \in weak'[a].uds : "collision" \in flags'[v]
    BY DEF CollisionFlagged
  <2>1. CASE weak'[a] = NoEntry
    BY <2>1 DEF NoEntry
  <2>2. CASE weak'[a] = weak[a]
    <3>1. \A v \in weak[a].uds : v \in Ud /\ v # u
      BY DEF TypeInv, WeakLive, Finalize
    <3>2. \A v \in weak[a].uds : flags'[v] = flags[v]
      BY <3>1 DEF Finalize, TypeInv, TypeOK
    <3>3. /\ weak[a].kind = "nil" => weak[a].uds = {}
          /\ weak[a].kind = "userdata" => \E v \in Ud : weak[a].uds = {v}
          /\ weak[a].kind = "table" => \A v \in weak[a].uds : "collision" \in flags[v]
      BY DEF CollisionFlagged
    <3> QED
      BY <2>2, <3>2, <3>3
  <2> QED
    BY <2>1, <2>2, FinalizeIsCleanup, CleanupEntry
<1>2. NoLeakedTable'
  <2> SUFFICES ASSUME NEW a \in Addr, weak'[a].kind = "table", weak'[a].uds = {}
               PROVE  \E v \in Ud : phase'[v] = "doomed" /\ "collision" \in flags'[v] /\ a \in Keys(ptr'[v])
    BY DEF NoLeakedTable
  <2>1. weak'[a] = weak[a] /\ ~("collision" \in flags[u] /\ a \in Keys(ptr[u]))
    BY DEF Finalize, NoEntry
  <2>2. PICK v \in Ud : phase[v] = "doomed" /\ "collision" \in flags[v] /\ a \in Keys(ptr[v])
    BY <2>1 DEF NoLeakedTable
  <2>3. v # u
    BY <2>1, <2>2
  <2> QED
    BY <2>2, <2>3 DEF Finalize, TypeInv, TypeOK
<1> QED
  BY <1>1, <1>2
LEMMA TablesStep ==
  ASSUME NoAliasedBase, TableInv, [Next]_vars
  PROVE  TableInv'
<1>1. SoundInv'
  BY SoundStep, NextIsCacheNext DEF TableInv
<1>2. CollisionFlagged' /\ NoLeakedTable'
  <2> USE DEF TableInv, SoundInv
  <2>1. ASSUME NEW u \in Ud, NEW p \in Ptr, NEW isConst, NEW owner, AddPtr(u, p, isConst, owner)
        PROVE  CollisionFlagged' /\ NoLeakedTable'
    <3>1. CollisionFlagged' /\ \A v \in Ud : InUse(v) /\ Collides(v) => Collides(v)'
      BY <2>1, AddPtrTables
    <3>2. /\ weak' = Register(u, Keys(p)) /\ Keys(p) \in SUBSET Addr
          /\ phase[u] # "doomed"
          /\ \A v \in Ud \ {u} : phase'[v] = phase[v] /\ ptr'[v] = ptr[v]
      BY <2>1, KeysInAddr DEF AddPtr, TypeInv, TypeOK
    <3> QED
      BY <3>1, <3>2, RegisterKeepsLeakFree
  <2>2. ASSUME NEW u \in Ud, NEW p \in Ptr, NEW isConst, NEW owner,
               ResetMetatable(u, p, isConst, owner), phase[u] = "live"
        PROVE  CollisionFlagged' /\ NoLeakedTable'
    <3>1. CollisionFlagged' /\ \A v \in Ud : InUse(v) /\ Collides(v) => Collides(v)'
      BY <2>2, ResetTables
    <3>2. /\ weak' = Register(u, BaseAddrs(p)) /\ BaseAddrs(p) \in SUBSET Addr
          /\ phase[u] # "doomed"
          /\ \A v \in Ud \ {u} : phase'[v] = phase[v] /\ ptr'[v] = ptr[v]
      BY <2>2, KeysInAddr DEF ResetMetatable, TypeInv, TypeOK
    <3> QED
      BY <3>1, <3>2, RegisterKeepsLeakFree
  <2>3. ASSUME NEW u \in Ud, NEW fl, flags' = [flags EXCEPT ![u] = fl],
               Collides(u) => "collision" \in fl, UNCHANGED <<phase, ptr, weak>>
        PROVE  CollisionFlagged' /\ NoLeakedTable'
    <3>1. \A v \in Ud : Collides(v) => Collides(v)'
      BY <2>3 DEF Collides, TypeInv, TypeOK
    <3>2. \A a \in Addr : \A v \in weak[a].uds : v \in Ud
      BY DEF TypeInv, WeakLive
    <3> QED
      BY <2>3, <3>1, <3>2 DEF CollisionFlagged, NoLeakedTable, Collides
  <2>4. ASSUME NEW p \in Ptr, NEW isConst \in BOOLEAN, NEW owner \in Owner,
               Push(p, isConst, owner)
        PROVE  CollisionFlagged' /\ NoLeakedTable'
    <3>1. CASE PushNew(p, isConst, owner)
      BY <2>1, <3>1 DEF PushNew
    <3>2. CASE PushServed(p, isConst, owner)
      <4>1. PICK u \in Candidates(p) : Serve(u, p, isConst, owner)
        BY <3>2 DEF PushServed
      <4> DEFINE fl == SetOwner(IF isConst THEN flags[u] ELSE flags[u] \ {"const"}, owner)
      <4>2. u \in Ud /\ flags' = [flags EXCEPT ![u] = fl] /\ UNCHANGED <<phase, ptr, weak>>
        BY <4>1, CandidateIsLive DEF Serve
      <4>3. Collides(u) => "collision" \in fl
        BY FlagOpsKeepCollision DEF Collides
      <4> HIDE DEF fl
      <4> QED
        BY <2>3, <4>2, <4>3
    <3>3. CASE PushUpgraded(p, isConst, owner)
      BY <2>2, <3>3, CandidateIsLive DEF PushUpgraded
    <3> QED
      BY <2>4, <3>1, <3>2, <3>3 DEF Push
  <2>5. ASSUME NEW p \in Ptr, Construct(p)
        PROVE  CollisionFlagged' /\ NoLeakedTable'
    BY <2>1, <2>5 DEF Construct
  <2>6. ASSUME NEW u \in Ud, NEW owner \in Owner, LuaSetOwner(u, owner)
        PROVE  CollisionFlagged' /\ NoLeakedTable'
    <3>1. Collides(u) => "collision" \in SetOwner(flags[u], owner)
      BY FlagOpsKeepCollision DEF Collides
    <3> QED
      BY <2>3, <2>6, <3>1 DEF LuaSetOwner
  <2>7. ASSUME NEW u \in Ud, NEW c \in Class, NEW isConst \in BOOLEAN, CppAcquire(u, c, isConst)
        PROVE  CollisionFlagged' /\ NoLeakedTable'
    <3>1. Collides(u) => "collision" \in SetOwner(flags[u], "Cpp")
      BY FlagOpsKeepCollision DEF Collides
    <3> QED
      BY <2>3, <2>7, <3>1 DEF CppAcquire
  <2>8. ASSUME NEW u \in Ud, Drop(u)
        PROVE  CollisionFlagged' /\ NoLeakedTable'
    BY <2>8 DEF Drop, CollisionFlagged, NoLeakedTable
  <2>9. ASSUME NEW dead \in SUBSET Ud, Collect(dead)
        PROVE  CollisionFlagged' /\ NoLeakedTable'
    BY <2>9, CollectTables
  <2>10. ASSUME NEW u \in Ud, Finalize(u)
         PROVE  CollisionFlagged' /\ NoLeakedTable'
    BY <2>10, FinalizeTables
  <2>11. CASE UNCHANGED vars
    BY <2>11 DEF vars, CollisionFlagged, NoLeakedTable
  <2> QED
    BY <2>4, <2>5, <2>6, <2>7, <2>8, <2>9, <2>10, <2>11 DEF Next
<1> QED
  BY <1>1, <1>2 DEF TableInv

LEMMA TableInvariant ==
  ASSUME NoAliasedBase
  PROVE  Spec => []TableInv
<1>1. Init => TableInv
  <2>1. Init => SoundInv
    BY TypeInit DEF Init, SoundInv, CacheSound, NoEntry
  <2>2. Init => CollisionFlagged /\ NoLeakedTable
    BY DEF Init, CollisionFlagged, NoLeakedTable, NoEntry
  <2> QED
    BY <2>1, <2>2 DEF TableInv
<1>2. TableInv /\ [Next]_vars => TableInv'
  BY TablesStep
<1> QED
  BY <1>1, <1>2, PTL DEF Spec

\* Every userdata in a collision table has the flag its __gc looks at.
THEOREM TablesAreFlagged ==
  ASSUME NoAliasedBase
  PROVE  Spec => []CollisionFlagged
<1>1. TableInv => CollisionFlagged
  BY DEF TableInv
<1> QED
  BY <1>1, TableInvariant, PTL

\* No collision table outlives its userdata: while one is empty a finalizer is
\* pending which will remove it, however pushes interleave with the collector.
THEOREM NoTableIsLeaked ==
  ASSUME NoAliasedBase
  PROVE  Spec => []NoLeakedTable
<1>1. TableInv => NoLeakedTable
  BY DEF TableInv
<1> QED
  BY <1>1, TableInvariant, PTL
-----------------------------------------------------------------------------
(* A live userdata is found under every address of its object.  Since      *)
(* reset_metatable registers the addresses of the bases only, the derived  *)
(* class must have a base at its own address.                              *)

RegisteredInv == TypeInv /\ Registered

LEMMA RegisteredAddPtr ==
  ASSUME RegisteredInv, NEW u \in Ud, NEW p \in Ptr, NEW isConst, NEW owner,
         AddPtr(u, p, isConst, owner)
  PROVE  Registered'
<1> SUFFICES ASSUME NEW v \in Ud, phase'[v] = "live", NEW a \in Keys(ptr'[v])
             PROVE  v \in weak'[a].uds
  BY DEF Registered
<1>1. CASE v = u
  <2>1. a \in Keys(p) /\ a \in Addr
    BY <1>1, KeysInAddr DEF AddPtr, RegisteredInv, TypeInv, TypeOK
  <2> QED
    BY <1>1, <2>1, AddPtrEntry DEF RegisteredInv
<1>2. CASE v # u
  <2>1. phase[v] = "live" /\ ptr[v] \in Ptr /\ a \in Keys(ptr[v])
    BY <1>2 DEF AddPtr, RegisteredInv, TypeInv, TypeOK
  <2>2. a \in Addr /\ v \in weak[a].uds
    BY <2>1, KeysInAddr DEF RegisteredInv, Registered
  <2> QED
    BY <2>2, AddPtrEntry DEF RegisteredInv
<1> QED
  BY <1>1, <1>2

LEMMA RegisteredReset ==
  ASSUME LeadingBase, RegisteredInv, NEW p \in Ptr, NEW isConst, NEW owner,
         NEW u \in Ud, u \in Candidates(p), ResetMetatable(u, p, isConst, owner)
  PROVE  Registered'
<1> SUFFICES ASSUME NEW v \in Ud, phase'[v] = "live", NEW a \in Keys(ptr'[v])
             PROVE  v \in weak'[a].uds
  BY DEF Registered
<1>1. CASE v = u
  <2>1. Upgrades(u, p)
    BY CandidateIsCached DEF ResetMetatable
  <2>2. Keys(p) = BaseAddrs(p)
    BY <2>1 DEF Upgrades, LeadingBase, Keys
  <2>3. a \in BaseAddrs(p) /\ a \in Addr
    BY <1>1, <2>2, KeysInAddr DEF ResetMetatable, RegisteredInv, TypeInv, TypeOK
  <2> QED
    BY <1>1, <2>3, ResetEntry DEF RegisteredInv
<1>2. CASE v # u
  <2>1. phase[v] = "live" /\ ptr[v] \in Ptr /\ a \in Keys(ptr[v])
    BY <1>2 DEF ResetMetatable, RegisteredInv, TypeInv, TypeOK
  <2>2. a \in Addr /\ v \in weak[a].uds
    BY <2>1, KeysInAddr DEF RegisteredInv, Registered
  <2> QED
    BY <2>2, ResetEntry DEF RegisteredInv
<1> QED
  BY <1>1, <1>2

LEMMA RegisteredStep ==
  ASSUME LeadingBase, RegisteredInv, [CacheNext]_vars
  PROVE  RegisteredInv'
<1>1. TypeInv'
  BY TypeStep DEF RegisteredInv
<1>2. Registered'
  <2>1. ASSUME NEW p \in Ptr, NEW isConst \in BOOLEAN, NEW owner \in Owner,
               Push(p, isConst, owner)
        PROVE  Registered'
    <3>1. CASE PushNew(p, isConst, owner)
      BY <3>1, RegisteredAddPtr DEF PushNew
    <3>2. CASE PushServed(p, isConst, owner)
      BY <3>2 DEF PushServed, Serve, RegisteredInv, Registered
    <3>3. CASE PushUpgraded(p, isConst, owner)
      BY <3>3, RegisteredReset, CandidateIsLive DEF PushUpgraded, RegisteredInv
    <3> QED
      BY <2>1, <3>1, <3>2, <3>3 DEF Push
  <2>2. ASSUME NEW p \in Ptr, Construct(p)
        PROVE  Registered'
    BY <2>2, RegisteredAddPtr DEF Construct
  <2>3. ASSUME NEW u \in Ud, NEW owner \in Owner, LuaSetOwner(u, owner)
        PROVE  Registered'
    BY <2>3 DEF LuaSetOwner, RegisteredInv, Registered
  <2>4. ASSUME NEW u \in Ud, NEW c \in Class, NEW isConst \in BOOLEAN, CppAcquire(u, c, isConst)
        PROVE  Registered'
    BY <2>4 DEF CppAcquire, RegisteredInv, Registered
  <2>5. ASSUME NEW u \in Ud, Drop(u)
        PROVE  Registered'
    BY <2>5 DEF Drop, RegisteredInv, Registered
  <2>6. ASSUME NEW dead \in SUBSET Ud, Collect(dead)
        PROVE  Registered'
    <3> SUFFICES ASSUME NEW v \in Ud, phase'[v] = "live", NEW a \in Keys(ptr'[v])
                 PROVE  v \in weak'[a].uds
      BY DEF Registered
    <3>1. phase[v] = "live" /\ v \notin dead /\ ptr[v] \in Ptr /\ a \in Keys(ptr[v])
      BY <2>6 DEF Collect, RegisteredInv, TypeInv, TypeOK
    <3>2. a \in Addr /\ v \in weak[a].uds
      BY <3>1, KeysInAddr DEF RegisteredInv, Registered
    <3> QED
      BY <2>6, <3>1, <3>2, CollectEntry DEF RegisteredInv
  <2>7. ASSUME NEW u \in Ud, Cleanup(u)
        PROVE  Registered'
    <3> SUFFICES ASSUME NEW v \in Ud, phase'[v] = "live", NEW a \in Keys(ptr'[v])
                 PROVE  v \in weak'[a].uds
      BY DEF Registered
    <3>1. phase[v] = "live" /\ ptr[v] \in Ptr /\ a \in Keys(ptr[v])
      BY <2>7 DEF Cleanup, RegisteredInv, TypeInv, TypeOK
    <3>2. a \in Addr /\ v \in weak[a].uds
      BY <3>1, KeysInAddr DEF RegisteredInv, Registered
    <3> QED
      BY <2>7, <3>2, CleanupEntry DEF RegisteredInv
  <2>8. CASE UNCHANGED vars
    BY <2>8 DEF vars, RegisteredInv, Registered
  <2> QED
    BY <2>1, <2>2, <2>3, <2>4, <2>5, <2>6, <2>7, <2>8, FinalizeIsCleanup DEF CacheNext, Next
<1> QED
  BY <1>1, <1>2 DEF RegisteredInv

\* A push through any class of an object meets the userdata of the object, as
\* long as every class with bases has one at its own address.
THEOREM LiveUserdataAreRegistered ==
  ASSUME LeadingBase
  PROVE  Spec => []Registered
<1>1. Init => RegisteredInv
  BY TypeInit DEF Init, RegisteredInv, Registered
<1>2. RegisteredInv /\ [Next]_vars => RegisteredInv'
  BY RegisteredStep, NextIsCacheNext
<1>3. RegisteredInv => Registered
  BY DEF RegisteredInv
<1> QED
  BY <1>1, <1>2, <1>3, PTL DEF Spec

-----------------------------------------------------------------------------
(* What a program sees of the cache: a userdata stays valid for whoever    *)
(* holds it, an object has one, and the cache implements Handles.          *)

-----------------------------------------------------------------------------
(* A live userdata only changes in ways its holders need not know of.      *)

\* What Monotone says of one step and one userdata.
StaysValid(u) ==
  phase[u] = "live" /\ phase'[u] = "live" =>
    /\ ptr'[u] # ptr[u] => /\ ClassOf[ptr[u]] \in AllBases[ClassOf[ptr'[u]]]
                           /\ Cast[ptr'[u]][ClassOf[ptr[u]]] = ptr[u]
    /\ "const" \notin flags[u] => "const" \notin flags'[u]
    /\ "collision" \in flags[u] => "collision" \in flags'[u]

LEMMA SetOwnerKeepsOthers ==
  ASSUME NEW fl, NEW owner, NEW f \in {"const", "collision"}
  PROVE  f \in SetOwner(fl, owner) <=> f \in fl
BY DEF SetOwner

LEMMA AddPtrStaysValid ==
  ASSUME TypeInv, NEW u \in Ud, NEW p \in Ptr, NEW isConst, NEW owner,
         AddPtr(u, p, isConst, owner), NEW v \in Ud
  PROVE  StaysValid(v)
<1>1. CASE v = u
  BY <1>1 DEF AddPtr, StaysValid
<1>2. CASE v # u
  BY <1>2 DEF AddPtr, FlagsWith, StaysValid, TypeInv, TypeOK
<1> QED
  BY <1>1, <1>2

LEMMA ServeStaysValid ==
  ASSUME TypeInv, NEW u \in Ud, NEW p \in Ptr, NEW isConst, NEW owner,
         Serve(u, p, isConst, owner), NEW v \in Ud
  PROVE  StaysValid(v)
<1> DEFINE fl == IF isConst THEN flags[u] ELSE flags[u] \ {"const"}
<1>1. flags' = [flags EXCEPT ![u] = SetOwner(fl, owner)] /\ ptr' = ptr
  BY DEF Serve
<1>2. \A f \in {"const", "collision"} : f \in SetOwner(fl, owner) <=> f \in fl
  BY SetOwnerKeepsOthers
<1>3. /\ "const" \in fl => "const" \in flags[u]
      /\ "collision" \in flags[u] => "collision" \in fl
  OBVIOUS
<1> HIDE DEF fl
<1> QED
  BY <1>1, <1>2, <1>3 DEF StaysValid, TypeInv, TypeOK

LEMMA ResetStaysValid ==
  ASSUME NoAliasedBase, SoundInv, NEW p \in Ptr, NEW isConst, NEW owner,
         NEW u \in Ud, u \in Candidates(p), ResetMetatable(u, p, isConst, owner), NEW v \in Ud
  PROVE  StaysValid(v)
<1> DEFINE fl == SetOwner(SetConst(flags[u], isConst /\ "const" \in flags[u]), owner)
<1>1. /\ flags' = FlagsWith(u, fl, Collided(u, BaseAddrs(p)))
      /\ ptr' = [ptr EXCEPT ![u] = p]
      /\ ptr \in [Ud -> Ptr \cup {NULL}] /\ flags \in [Ud -> SUBSET Flag]
  BY DEF ResetMetatable, SoundInv, TypeInv, TypeOK
<1>2. /\ "const" \in fl => "const" \in flags[u]
      /\ "collision" \in flags[u] => "collision" \in fl
  BY SetOwnerKeepsOthers DEF SetConst
<1>3. /\ ClassOf[ptr[u]] \in AllBases[ClassOf[p]]
      /\ ptr[u] = Cast[p][ClassOf[ptr[u]]]
  BY ResetIsSameObject DEF ResetMetatable
<1> HIDE DEF fl
<1>4. CASE v = u
  BY <1>1, <1>2, <1>3, <1>4 DEF StaysValid, FlagsWith
<1>5. CASE v # u
  BY <1>1, <1>5 DEF StaysValid, FlagsWith
<1> QED
  BY <1>4, <1>5

LEMMA ChangeOwnerStaysValid ==
  ASSUME TypeInv, NEW u \in Ud, NEW owner, NEW v \in Ud,
         flags' = [flags EXCEPT ![u] = SetOwner(@, owner)], ptr' = ptr
  PROVE  StaysValid(v)
<1>1. \A f \in {"const", "collision"} : f \in SetOwner(flags[u], owner) <=> f \in flags[u]
  BY SetOwnerKeepsOthers
<1> QED
  BY <1>1 DEF StaysValid, TypeInv, TypeOK

LEMMA StaysValidStep ==
  ASSUME NoAliasedBase, SoundInv, [CacheNext]_vars, NEW v \in Ud
  PROVE  StaysValid(v)
<1> USE DEF SoundInv
<1>1. ASSUME NEW p \in Ptr, NEW isConst \in BOOLEAN, NEW owner \in Owner,
             Push(p, isConst, owner)
      PROVE  StaysValid(v)
  <2>1. CASE PushNew(p, isConst, owner)
    BY <2>1, AddPtrStaysValid DEF PushNew
  <2>2. CASE PushServed(p, isConst, owner)
    BY <2>2, CandidateIsLive, ServeStaysValid DEF PushServed
  <2>3. CASE PushUpgraded(p, isConst, owner)
    BY <2>3, CandidateIsLive, ResetStaysValid DEF PushUpgraded
  <2> QED
    BY <1>1, <2>1, <2>2, <2>3 DEF Push
<1>2. ASSUME NEW p \in Ptr, Construct(p)
      PROVE  StaysValid(v)
  BY <1>2, AddPtrStaysValid DEF Construct
<1>3. ASSUME NEW u \in Ud, NEW owner \in Owner, LuaSetOwner(u, owner)
      PROVE  StaysValid(v)
  BY <1>3, ChangeOwnerStaysValid DEF LuaSetOwner
<1>4. ASSUME NEW u \in Ud, NEW c \in Class, NEW isConst \in BOOLEAN, CppAcquire(u, c, isConst)
      PROVE  StaysValid(v)
  BY <1>4, ChangeOwnerStaysValid DEF CppAcquire
<1>5. ASSUME NEW u \in Ud, Drop(u)
      PROVE  StaysValid(v)
  BY <1>5 DEF Drop, StaysValid
<1>6. ASSUME NEW dead \in SUBSET Ud, Collect(dead)
      PROVE  StaysValid(v)
  BY <1>6 DEF Collect, StaysValid
<1>7. ASSUME NEW u \in Ud, Cleanup(u)
      PROVE  StaysValid(v)
  BY <1>7 DEF Cleanup, StaysValid, TypeInv, TypeOK
<1>8. CASE UNCHANGED vars
  BY <1>8 DEF vars, StaysValid
<1> QED
  BY <1>1, <1>2, <1>3, <1>4, <1>5, <1>6, <1>7, <1>8, FinalizeIsCleanup DEF CacheNext, Next

\* While a userdata lives it becomes one of a derived class of the same object
\* at most, never gains const and never forgets that it collided.
THEOREM HeldReferencesStayValid ==
  ASSUME NoAliasedBase
  PROVE  Spec => Monotone
<1>1. SoundInv /\ [Next]_vars =>
        [\A u \in Ud : phase[u] = "live" /\ phase'[u] = "live" =>
           /\ ptr'[u] # ptr[u] => /\ ClassOf[ptr[u]] \in AllBases[ClassOf[ptr'[u]]]
                                  /\ Cast[ptr'[u]][ClassOf[ptr[u]]] = ptr[u]
           /\ "const" \notin flags[u] => "const" \notin flags'[u]
           /\ "collision" \in flags[u] => "collision" \in flags'[u]]_vars
  BY StaysValidStep, NextIsCacheNext DEF StaysValid
<1> QED
  BY <1>1, SoundInvariant, PTL DEF Spec, Monotone
-----------------------------------------------------------------------------
(* An object has one userdata.  Registered makes every live userdata of an *)
(* object one that find_ud meets; that what it returns leads to no second  *)
(* one rests on the sub-objects of an object being a chain.                *)

FindInv == SoundInv /\ Registered

Exact == NoAliasedBase /\ NoAliasedClass /\ OneAddress

LEMMA OneAddressLeads ==
  ASSUME OneAddress
  PROVE  LeadingBase
<1> SUFFICES ASSUME NEW p \in Ptr, AllBases[ClassOf[p]] # {}
             PROVE  AddrOf[p] \in BaseAddrs(p)
  BY DEF LeadingBase
<1>1. PICK c \in AllBases[ClassOf[p]] : TRUE
  OBVIOUS
<1>2. AddrOf[Cast[p][c]] \in BaseAddrs(p)
  BY DEF BaseAddrs
<1> QED
  BY <1>2, KeysInAddr DEF OneAddress

LEMMA RelatedIsSymmetric ==
  ASSUME NEW p, NEW q, Related(p, q)
  PROVE  Related(q, p)
BY DEF Related

LEMMA RelatedShareAddress ==
  ASSUME OneAddress, NEW p \in Ptr, NEW q \in Ptr, Related(p, q)
  PROVE  AddrOf[p] = AddrOf[q]
<1>1. ASSUME NEW r \in Ptr, NEW c \in AllBases[ClassOf[r]]
      PROVE  AddrOf[Cast[r][c]] = AddrOf[r]
  <2>1. AddrOf[Cast[r][c]] \in Keys(r)
    BY <1>1 DEF Keys, BaseAddrs
  <2> QED
    BY <2>1 DEF OneAddress
<1> QED
  BY <1>1 DEF Related

\* A live userdata of the object is cached where a push of p looks.
LEMMA RelatedIsCached ==
  ASSUME OneAddress, FindInv, NEW p \in Ptr, NEW u \in Ud, phase[u] = "live",
         Related(p, ptr[u])
  PROVE  u \in weak[AddrOf[p]].uds
<1>1. ptr[u] \in Ptr
  BY DEF FindInv, SoundInv, TypeInv, TypeOK
<1>2. AddrOf[p] = AddrOf[ptr[u]]
  BY <1>1, RelatedShareAddress
<1>3. AddrOf[ptr[u]] \in Keys(ptr[u])
  BY <1>1, KeysInAddr
<1> QED
  BY <1>2, <1>3 DEF FindInv, Registered

\* What find_ud may return is exactly the live userdata of the object.
LEMMA CandidatesAreTheRelated ==
  ASSUME Exact, FindInv, NEW p \in Ptr
  PROVE  Candidates(p) = {u \in Ud : phase[u] = "live" /\ Related(p, ptr[u])}
<1>1. ASSUME NEW u \in Candidates(p)
      PROVE  u \in Ud /\ phase[u] = "live" /\ Related(p, ptr[u])
  BY CandidateIsLive, CandidateIsRelated DEF Exact, FindInv, SoundInv
<1>2. ASSUME NEW u \in Ud, phase[u] = "live", Related(p, ptr[u])
      PROVE  u \in Candidates(p)
  <2>1. u \in weak[AddrOf[p]].uds
    BY <1>2, RelatedIsCached DEF Exact
  <2>2. Serves(u, p) \/ Upgrades(u, p)
    BY <1>2 DEF Related, Serves, Upgrades
  <2> QED
    BY <2>1, <2>2 DEF Candidates
<1> QED
  BY <1>1, <1>2

LEMMA FindStep ==
  ASSUME Exact, FindInv, [CacheNext]_vars
  PROVE  FindInv'
<1>1. SoundInv'
  BY SoundStep DEF Exact, FindInv
<1>2. RegisteredInv'
  BY RegisteredStep, OneAddressLeads DEF Exact, FindInv, SoundInv, RegisteredInv
<1> QED
  BY <1>1, <1>2 DEF FindInv, RegisteredInv

\* A userdata which is made for an object that has none leaves it with one.
LEMMA OneAddPtr ==
  ASSUME TypeInv, OneUserdata, NEW u \in Ud, NEW p \in Ptr, NEW isConst, NEW owner,
         AddPtr(u, p, isConst, owner),
         \A v \in Ud : phase[v] = "live" => ~Related(p, ptr[v])
  PROVE  OneUserdata'
<1>1. \A v \in Ud : /\ v # u => phase'[v] = phase[v] /\ ptr'[v] = ptr[v]
                    /\ v = u => ptr'[v] = p
  BY DEF AddPtr, TypeInv, TypeOK
<1> SUFFICES ASSUME NEW v \in Ud, NEW w \in Ud, phase'[v] = "live", phase'[w] = "live", v # w
             PROVE  ~Related(ptr'[v], ptr'[w])
  BY DEF OneUserdata
<1>2. CASE v # u /\ w # u
  BY <1>1, <1>2 DEF OneUserdata
<1>3. CASE v = u
  BY <1>1, <1>3
<1>4. CASE w = u
  BY <1>1, <1>4, RelatedIsSymmetric
<1> QED
  BY <1>2, <1>3, <1>4

LEMMA OneReset ==
  ASSUME Exact, SingleInheritance, FindInv, OneUserdata,
         NEW p \in Ptr, NEW isConst, NEW owner,
         NEW u \in Ud, u \in Candidates(p), ResetMetatable(u, p, isConst, owner)
  PROVE  OneUserdata'
<1>1. \A v \in Ud : /\ phase'[v] = phase[v]
                    /\ ptr'[v] = IF v = u THEN p ELSE ptr[v]
  BY DEF ResetMetatable, FindInv, SoundInv, TypeInv, TypeOK
<1>2. phase[u] = "live" /\ Related(p, ptr[u])
  BY CandidatesAreTheRelated
<1>3. \A v \in Ud : phase[v] = "live" => ptr[v] \in Ptr
  BY DEF FindInv, SoundInv, TypeInv, TypeOK
<1>4. ASSUME NEW v \in Ud, phase[v] = "live", v # u
      PROVE  ~Related(ptr[v], p)
  <2>1. Related(ptr[v], p) => Related(ptr[v], ptr[u])
    BY <1>2, <1>3, <1>4 DEF SingleInheritance
  <2> QED
    BY <1>2, <1>4, <2>1 DEF OneUserdata
<1> SUFFICES ASSUME NEW v \in Ud, NEW w \in Ud, phase'[v] = "live", phase'[w] = "live", v # w
             PROVE  ~Related(ptr'[v], ptr'[w])
  BY DEF OneUserdata
<1>5. CASE v # u /\ w # u
  BY <1>1, <1>5 DEF OneUserdata
<1>6. CASE v = u
  BY <1>1, <1>4, <1>6, RelatedIsSymmetric
<1>7. CASE w = u
  BY <1>1, <1>4, <1>7
<1> QED
  BY <1>5, <1>6, <1>7

OneInv == FindInv /\ OneUserdata

LEMMA OneStep ==
  ASSUME Exact, SingleInheritance, OneInv, [CacheNext]_vars
  PROVE  OneInv'
<1> USE DEF OneInv
<1>1. FindInv'
  BY FindStep
<1>2. OneUserdata'
  <2> TypeInv
    BY DEF FindInv, SoundInv
  <2>1. ASSUME NEW p \in Ptr, NEW isConst \in BOOLEAN, NEW owner \in Owner,
               Push(p, isConst, owner)
        PROVE  OneUserdata'
    <3>1. CASE PushNew(p, isConst, owner)
      <4>1. \A v \in Ud : phase[v] = "live" => ~Related(p, ptr[v])
        BY <3>1, CandidatesAreTheRelated DEF PushNew
      <4> QED
        BY <3>1, <4>1, OneAddPtr DEF PushNew
    <3>2. CASE PushServed(p, isConst, owner)
      BY <3>2 DEF PushServed, Serve, OneUserdata
    <3>3. CASE PushUpgraded(p, isConst, owner)
      BY <3>3, OneReset, CandidateIsLive DEF PushUpgraded
    <3> QED
      BY <2>1, <3>1, <3>2, <3>3 DEF Push
  <2>2. ASSUME NEW p \in Ptr, Construct(p)
        PROVE  OneUserdata'
    <3>1. weak[AddrOf[p]].uds = {}
      BY <2>2, KeysInAddr DEF Construct
    <3>2. \A v \in Ud : phase[v] = "live" => ~Related(p, ptr[v])
      BY <3>1, RelatedIsCached DEF Exact
    <3> QED
      BY <2>2, <3>2, OneAddPtr DEF Construct
  <2>3. ASSUME NEW u \in Ud, NEW owner \in Owner, LuaSetOwner(u, owner)
        PROVE  OneUserdata'
    BY <2>3 DEF LuaSetOwner, OneUserdata
  <2>4. ASSUME NEW u \in Ud, NEW c \in Class, NEW isConst \in BOOLEAN, CppAcquire(u, c, isConst)
        PROVE  OneUserdata'
    BY <2>4 DEF CppAcquire, OneUserdata
  <2>5. ASSUME NEW u \in Ud, Drop(u)
        PROVE  OneUserdata'
    BY <2>5 DEF Drop, OneUserdata
  <2>6. ASSUME NEW dead \in SUBSET Ud, Collect(dead)
        PROVE  OneUserdata'
    <3>1. \A v \in Ud : phase'[v] = "live" => phase[v] = "live"
      BY <2>6 DEF Collect
    <3> QED
      BY <2>6, <3>1 DEF Collect, OneUserdata
  <2>7. ASSUME NEW u \in Ud, Cleanup(u)
        PROVE  OneUserdata'
    <3>1. \A v \in Ud : phase'[v] = "live" => phase[v] = "live" /\ ptr'[v] = ptr[v]
      BY <2>7 DEF Cleanup, TypeInv, TypeOK
    <3> QED
      BY <3>1 DEF OneUserdata
  <2>8. CASE UNCHANGED vars
    BY <2>8 DEF vars, OneUserdata
  <2> QED
    BY <2>1, <2>2, <2>3, <2>4, <2>5, <2>6, <2>7, <2>8, FinalizeIsCleanup DEF CacheNext, Next
<1> QED
  BY <1>1, <1>2

LEMMA OneInit == Init => OneInv
<1> SUFFICES ASSUME Init
             PROVE  OneInv
  OBVIOUS
<1>1. TypeInv
  BY TypeInit
<1> QED
  BY <1>1 DEF Init, OneInv, FindInv, SoundInv, CacheSound, Registered, OneUserdata, NoEntry

\* At most one live userdata stands for an object, whatever is pushed through
\* whichever of its classes, collected and finalized in whatever order.
THEOREM ObjectsHaveOneUserdata ==
  ASSUME NoAliasedBase, NoAliasedClass, OneAddress, SingleInheritance
  PROVE  Spec => []OneUserdata
<1>1. Exact
  BY DEF Exact
<1>2. OneInv /\ [Next]_vars => OneInv'
  BY <1>1, OneStep, NextIsCacheNext
<1>3. OneInv => OneUserdata
  BY DEF OneInv
<1> QED
  BY <1>2, <1>3, OneInit, PTL DEF Spec
-----------------------------------------------------------------------------
(* The cache implements Handles, action by action.  Whether sub-objects    *)
(* form a chain does not matter here: Handles reuses any handle of the     *)
(* object, as find_ud does.                                                *)

\* The variables of Handles, as PointerCache maps them.
Obj == [u \in Ud |-> IF u \in Live THEN ptr[u] ELSE NULL]
Readonly == {u \in Live : "const" \in flags[u]}
LuaOwned == {u \in Live : "gc" \in flags[u]}

LEMMA GcAfterSetOwner ==
  ASSUME NEW fl, NEW owner \in Owner
  PROVE  /\ owner = "Lua" => "gc" \in SetOwner(fl, owner)
         /\ owner = "Cpp" => "gc" \notin SetOwner(fl, owner)
         /\ owner = "No_change" => SetOwner(fl, owner) = fl
BY DEF SetOwner, Owner

\* A step which gives u to an owner and leaves the ownership of the others.
LEMMA OwnerChanges ==
  ASSUME NEW u \in Ud, NEW owner \in Owner, NEW fl,
         u \in Live', "gc" \in flags'[u] <=> "gc" \in SetOwner(fl, owner),
         "gc" \in fl <=> u \in LuaOwned,
         \A v \in Ud \ {u} : /\ v \in Live' <=> v \in Live
                             /\ "gc" \in flags'[v] <=> "gc" \in flags[v]
  PROVE  LuaOwned' = H!Owning(u, owner)
<1>1. \A v \in Ud \ {u} : v \in LuaOwned' <=> v \in LuaOwned
  BY DEF LuaOwned
<1>2. LuaOwned \subseteq Ud /\ LuaOwned' \subseteq Ud
  BY DEF LuaOwned, Live
<1>3. u \in LuaOwned' <=> "gc" \in SetOwner(fl, owner)
  BY DEF LuaOwned
<1>4. CASE owner = "Lua"
  <2>1. LuaOwned' = LuaOwned \cup {u}
    BY <1>1, <1>2, <1>3, <1>4, GcAfterSetOwner
  <2> QED
    BY <1>4, <2>1 DEF H!Owning, LuaOwned
<1>5. CASE owner = "Cpp"
  <2>1. LuaOwned' = LuaOwned \ {u}
    BY <1>1, <1>2, <1>3, <1>5, GcAfterSetOwner
  <2> QED
    BY <1>5, <2>1 DEF H!Owning, LuaOwned
<1>6. CASE owner = "No_change"
  <2>1. \A v \in Ud : v \in LuaOwned' <=> v \in LuaOwned
    BY <1>1, <1>3, <1>6, GcAfterSetOwner
  <2>2. LuaOwned' = LuaOwned
    BY <1>2, <2>1
  <2> QED
    BY <1>6, <2>2 DEF H!Owning, LuaOwned
<1> QED
  BY <1>4, <1>5, <1>6 DEF Owner

\* The handles of the object p points to are what find_ud may return for p.
LEMMA HandlesAreCandidates ==
  ASSUME Exact, FindInv, NEW p \in Ptr
  PROVE  H!HandlesOf(p) = Candidates(p)
<1>1. \A u \in Ud : Obj[u] = (IF phase[u] = "live" THEN ptr[u] ELSE NULL)
  BY DEF Obj, Live
<1>2. \A u \in Ud : phase[u] = "live" => ptr[u] \in Ptr
  BY DEF FindInv, SoundInv, TypeInv, TypeOK
<1>3. NULL \notin Ptr
  BY LayoutAssumption
<1>4. \A u \in Ud : H!InUse(u) <=> phase[u] = "live"
  BY <1>1, <1>2, <1>3 DEF H!InUse, Obj
<1>5. \A q : Related(p, q) <=> (H!IsPartOf(q, p) \/ H!IsPartOf(p, q))
  BY DEF Related, H!IsPartOf
<1>6. H!HandlesOf(p) = {u \in Ud : H!InUse(u) /\ (H!IsPartOf(Obj[u], p) \/ H!IsPartOf(p, Obj[u]))}
  BY DEF H!HandlesOf, Obj
<1> QED
  BY <1>1, <1>4, <1>5, <1>6, CandidatesAreTheRelated

LEMMA NewImplements ==
  ASSUME TypeInv, NEW u \in Ud, NEW p \in Ptr, NEW isConst \in BOOLEAN, NEW owner \in Owner,
         AddPtr(u, p, isConst, owner), H!HandlesOf(p) = {}
  PROVE  H!New(p, isConst, owner)
<1> DEFINE fl == SetConst({}, isConst)
<1>1. /\ phase[u] = "free" /\ phase' = [phase EXCEPT ![u] = "live"]
      /\ ptr' = [ptr EXCEPT ![u] = p]
      /\ flags' = FlagsWith(u, SetOwner(fl, owner), Collided(u, Keys(p)))
      /\ held' = held \cup {u}
      /\ phase \in [Ud -> {"free", "live", "doomed"}] /\ ptr \in [Ud -> Ptr \cup {NULL}]
  BY DEF AddPtr, TypeInv, TypeOK
<1>2. "const" \in fl <=> isConst
  BY DEF SetConst
<1>3. "gc" \notin fl
  BY DEF SetConst
<1>4. "const" \in SetOwner(fl, owner) <=> "const" \in fl
  BY SetOwnerKeepsOthers
<1> HIDE DEF fl
<1>5. \A v \in Ud : /\ v \in Live' <=> (v \in Live \/ v = u)
                    /\ v \in Live => v # u
  BY <1>1 DEF Live
<1>6. \A v \in Ud, f \in {"const", "gc"} :
        f \in flags'[v] <=> f \in (IF v = u THEN SetOwner(fl, owner) ELSE flags[v])
  BY <1>1 DEF FlagsWith
<1>7. Live \subseteq Ud /\ Live' \subseteq Ud
  BY DEF Live
<1>8. Obj' = [Obj EXCEPT ![u] = p]
  BY <1>1, <1>5 DEF Obj
<1>9. Readonly' = IF isConst THEN Readonly \cup {u} ELSE Readonly
  BY <1>2, <1>4, <1>5, <1>6, <1>7 DEF Readonly
<1>10. LuaOwned' = H!Owning(u, owner)
  BY <1>3, <1>5, <1>6, OwnerChanges DEF LuaOwned
<1>11. ~H!InUse(u)
  BY <1>5 DEF H!InUse, Live
<1> QED
  BY <1>1, <1>8, <1>9, <1>10, <1>11 DEF H!New, Obj, Readonly, LuaOwned

LEMMA ServeImplements ==
  ASSUME Exact, FindInv, NEW u \in Ud, NEW p \in Ptr, NEW isConst \in BOOLEAN, NEW owner \in Owner,
         u \in Candidates(p), Serve(u, p, isConst, owner)
  PROVE  H!Reuse(p, isConst, owner)
<1> DEFINE fl == IF isConst THEN flags[u] ELSE flags[u] \ {"const"}
<1>1. /\ phase' = phase /\ ptr' = ptr /\ held' = held \cup {u}
      /\ flags' = [flags EXCEPT ![u] = SetOwner(fl, owner)]
      /\ flags \in [Ud -> SUBSET Flag]
  BY DEF Serve, FindInv, SoundInv, TypeInv, TypeOK
<1>2. u \in Live /\ Related(p, ptr[u])
  BY CandidatesAreTheRelated DEF Live
<1>3. /\ "const" \in SetOwner(fl, owner) <=> ("const" \in flags[u] /\ isConst)
      /\ "gc" \in fl <=> "gc" \in flags[u]
  BY SetOwnerKeepsOthers
<1> HIDE DEF fl
<1>4. \A v \in Ud : flags'[v] = IF v = u THEN SetOwner(fl, owner) ELSE flags[v]
  BY <1>1
<1>5. Live' = Live /\ Live \subseteq Ud
  BY <1>1 DEF Live
<1>6. H!IsPartOf(p, ptr[u])
  BY <1>2, LayoutAssumption DEF Serve, Serves, Related, H!IsPartOf, FindInv, SoundInv, TypeInv, TypeOK
<1>7. Obj' = [Obj EXCEPT ![u] = IF H!IsPartOf(p, @) THEN @ ELSE p]
  BY <1>1, <1>2, <1>5, <1>6 DEF Obj
<1>8. Readonly' = IF isConst THEN Readonly ELSE Readonly \ {u}
  BY <1>3, <1>4, <1>5 DEF Readonly
<1>9. LuaOwned' = H!Owning(u, owner)
  BY <1>2, <1>3, <1>4, <1>5, OwnerChanges DEF LuaOwned
<1>10. u \in H!HandlesOf(p)
  BY HandlesAreCandidates
<1> QED
  BY <1>1, <1>7, <1>8, <1>9, <1>10 DEF H!Reuse, Obj, Readonly, LuaOwned

LEMMA ResetImplements ==
  ASSUME Exact, FindInv, NEW u \in Ud, NEW p \in Ptr, NEW isConst \in BOOLEAN, NEW owner \in Owner,
         u \in Candidates(p), ResetMetatable(u, p, isConst, owner)
  PROVE  H!Reuse(p, isConst, owner)
<1> DEFINE fl == SetConst(flags[u], isConst /\ "const" \in flags[u])
<1>1. /\ phase' = phase /\ ptr' = [ptr EXCEPT ![u] = p] /\ held' = held \cup {u}
      /\ flags' = FlagsWith(u, SetOwner(fl, owner), Collided(u, BaseAddrs(p)))
      /\ ptr \in [Ud -> Ptr \cup {NULL}] /\ ~Serves(u, p)
  BY DEF ResetMetatable, FindInv, SoundInv, TypeInv, TypeOK
<1>2. u \in Live
  BY CandidatesAreTheRelated DEF Live
<1>3. /\ "const" \in SetOwner(fl, owner) <=> ("const" \in flags[u] /\ isConst)
      /\ "gc" \in fl <=> "gc" \in flags[u]
  BY SetOwnerKeepsOthers DEF SetConst
<1> HIDE DEF fl
<1>4. \A v \in Ud, f \in {"const", "gc"} :
        f \in flags'[v] <=> f \in (IF v = u THEN SetOwner(fl, owner) ELSE flags[v])
  BY <1>1 DEF FlagsWith
<1>5. Live' = Live /\ Live \subseteq Ud
  BY <1>1 DEF Live
<1>6. ~H!IsPartOf(p, ptr[u])
  BY <1>1 DEF Serves, H!IsPartOf
<1>7. Obj' = [Obj EXCEPT ![u] = IF H!IsPartOf(p, @) THEN @ ELSE p]
  BY <1>1, <1>2, <1>5, <1>6 DEF Obj
<1>8. Readonly' = IF isConst THEN Readonly ELSE Readonly \ {u}
  BY <1>3, <1>4, <1>5 DEF Readonly
<1>9. LuaOwned' = H!Owning(u, owner)
  BY <1>2, <1>3, <1>4, <1>5, OwnerChanges DEF LuaOwned
<1>10. u \in H!HandlesOf(p)
  BY HandlesAreCandidates
<1> QED
  BY <1>1, <1>7, <1>8, <1>9, <1>10 DEF H!Reuse, Obj, Readonly, LuaOwned

\* set_owner and cpp_acquire_ptr give the handle to an owner; with No_change
\* nothing that Handles sees happens.
LEMMA ChangeOwnerImplements ==
  ASSUME TypeInv, NEW u \in Ud, NEW owner \in Owner, u \in held,
         flags' = [flags EXCEPT ![u] = SetOwner(@, owner)],
         UNCHANGED <<phase, ptr, weak, held>>
  PROVE  [H!Next]_(H!vars)
<1>1. \A v \in Ud : flags'[v] = IF v = u THEN SetOwner(flags[u], owner) ELSE flags[v]
  BY DEF TypeInv, TypeOK
<1>2. Live' = Live /\ Live \subseteq Ud /\ u \in Live
  BY DEF Live, TypeInv, TypeOK
<1>3. "const" \in SetOwner(flags[u], owner) <=> "const" \in flags[u]
  BY SetOwnerKeepsOthers
<1>4. Obj' = Obj /\ Readonly' = Readonly
  BY <1>1, <1>2, <1>3 DEF Obj, Readonly
<1>5. LuaOwned' = H!Owning(u, owner)
  BY <1>1, <1>2, OwnerChanges DEF LuaOwned
<1>6. CASE owner \in {"Cpp", "Lua"}
  <2>1. H!ChangeOwner(u, owner)
    BY <1>4, <1>5 DEF H!ChangeOwner, Obj, Readonly, LuaOwned
  <2> QED
    BY <1>6, <2>1 DEF H!Next
<1>7. CASE owner = "No_change"
  <2>1. SetOwner(flags[u], owner) = flags[u]
    BY <1>7, GcAfterSetOwner
  <2>2. LuaOwned' = LuaOwned
    BY <1>1, <1>2, <2>1 DEF LuaOwned
  <2> QED
    BY <1>4, <2>2 DEF H!vars, Obj, Readonly, LuaOwned
<1> QED
  BY <1>6, <1>7 DEF Owner

LEMMA CollectImplements ==
  ASSUME TypeInv, NEW dead \in SUBSET Ud, Collect(dead)
  PROVE  H!Forget(dead)
<1>1. /\ phase' = [u \in Ud |-> IF u \in dead THEN "doomed" ELSE phase[u]]
      /\ \A u \in dead : phase[u] = "live" /\ u \notin held
      /\ ptr' = ptr /\ flags' = flags /\ held' = held
  BY DEF Collect
<1>2. \A u \in Ud : phase[u] = "live" => ptr[u] # NULL
  BY DEF TypeInv, TypeOK
<1>3. Live' = Live \ dead /\ Live \subseteq Ud
  BY <1>1 DEF Live
<1>4. Obj' = [u \in Ud |-> IF u \in dead THEN NULL ELSE Obj[u]]
  BY <1>1, <1>3 DEF Obj
<1>5. Readonly' = Readonly \ dead /\ LuaOwned' = LuaOwned \ dead
  BY <1>1, <1>3 DEF Readonly, LuaOwned
<1>6. \A u \in dead : H!InUse(u) /\ u \notin held
  BY <1>1, <1>2 DEF H!InUse, Live
<1> QED
  BY <1>1, <1>4, <1>5, <1>6 DEF H!Forget, Obj, Readonly, LuaOwned

LEMMA HandlesStep ==
  ASSUME Exact, FindInv, [CacheNext]_vars
  PROVE  [H!Next]_(H!vars)
<1> TypeInv
  BY DEF FindInv, SoundInv
<1>1. ASSUME NEW p \in Ptr, NEW isConst \in BOOLEAN, NEW owner \in Owner,
             Push(p, isConst, owner)
      PROVE  H!New(p, isConst, owner) \/ H!Reuse(p, isConst, owner)
  <2>1. CASE PushNew(p, isConst, owner)
    BY <2>1, HandlesAreCandidates, NewImplements DEF PushNew
  <2>2. CASE PushServed(p, isConst, owner)
    BY <2>2, CandidateIsLive, ServeImplements DEF PushServed
  <2>3. CASE PushUpgraded(p, isConst, owner)
    BY <2>3, CandidateIsLive, ResetImplements DEF PushUpgraded
  <2> QED
    BY <1>1, <2>1, <2>2, <2>3 DEF Push
<1>2. ASSUME NEW p \in Ptr, Construct(p)
      PROVE  H!New(p, FALSE, "Lua")
  <2>1. weak[AddrOf[p]].uds = {}
    BY <1>2, KeysInAddr DEF Construct
  <2>2. H!HandlesOf(p) = {}
    BY <2>1, HandlesAreCandidates, CandidatesAreTheRelated, RelatedIsCached DEF Exact
  <2> QED
    BY <1>2, <2>2, NewImplements DEF Construct, Owner
<1>3. ASSUME NEW u \in Ud, NEW owner \in Owner, LuaSetOwner(u, owner)
      PROVE  [H!Next]_(H!vars)
  BY <1>3, ChangeOwnerImplements DEF LuaSetOwner
<1>4. ASSUME NEW u \in Ud, NEW c \in Class, NEW isConst \in BOOLEAN, CppAcquire(u, c, isConst)
      PROVE  [H!Next]_(H!vars)
  BY <1>4, ChangeOwnerImplements DEF CppAcquire, Owner
<1>5. ASSUME NEW u \in Ud, Drop(u)
      PROVE  H!Drop(u)
  BY <1>5 DEF Drop, H!Drop, Live
<1>6. ASSUME NEW dead \in SUBSET Ud, Collect(dead)
      PROVE  H!Forget(dead)
  BY <1>6, CollectImplements
<1>7. ASSUME NEW u \in Ud, Cleanup(u)
      PROVE  UNCHANGED H!vars
  <2>1. \A v \in Ud : /\ v \in Live' <=> v \in Live
                      /\ v \in Live => ptr'[v] = ptr[v] /\ flags'[v] = flags[v]
    BY <1>7 DEF Cleanup, Live, TypeInv, TypeOK
  <2>2. Live \subseteq Ud /\ Live' \subseteq Ud
    BY DEF Live
  <2>3. Obj' = Obj /\ Readonly' = Readonly /\ LuaOwned' = LuaOwned /\ held' = held
    BY <1>7, <2>1, <2>2 DEF Obj, Readonly, LuaOwned, Cleanup
  <2> QED
    BY <2>3 DEF H!vars, Obj, Readonly, LuaOwned
<1>8. CASE UNCHANGED vars
  BY <1>8 DEF vars, H!vars, Live
<1> QED
  BY <1>1, <1>2, <1>3, <1>4, <1>5, <1>6, <1>7, <1>8, FinalizeIsCleanup
     DEF CacheNext, Next, H!Next, Owner

\* A program sees each object through its handles only: addresses, collision
\* tables and pending finalizers never show.
THEOREM CacheImplementsHandles ==
  ASSUME NoAliasedBase, NoAliasedClass, OneAddress
  PROVE  Spec => ImplementsHandles
<1>1. Exact
  BY DEF Exact
<1>2. FindInv /\ [Next]_vars => FindInv' /\ [H!Next]_(H!vars)
  BY <1>1, FindStep, HandlesStep, NextIsCacheNext
<1>3. Init => FindInv /\ H!Init
  BY OneInit DEF OneInv, Init, H!Init, Live
<1> QED
  BY <1>2, <1>3, PTL DEF Spec, ImplementsHandles, H!Spec
=============================================================================
