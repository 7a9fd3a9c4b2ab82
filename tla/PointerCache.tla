---------------------------- MODULE PointerCache ----------------------------
(***************************************************************************)
(* The userdata cache of OOLua (proxy_storage.h, proxy_storage.cpp).       *)
(*                                                                         *)
(* Every C++ object that Lua knows is represented by a Lua_ud, a full      *)
(* userdata.  A weak table in the registry maps the address of the object, *)
(* and of each of its base sub-objects, to that userdata, so that pushing  *)
(* the object again, through a pointer to any class of its hierarchy,      *)
(* finds the userdata which already stands for it.  Two unrelated objects  *)
(* may have one address (a class and its first member): the entry is then  *)
(* a collision table, a set of userdata.                                   *)
(*                                                                         *)
(* A pointer of the model is a typed C++ pointer, a pair of a static class *)
(* and an address, and stands for the pair of void_class_ptr and           *)
(* type_check which a Lua_ud stores.  The constants describe the classes   *)
(* which a program binds and where the compiler puts their sub-objects.    *)
(***************************************************************************)
EXTENDS Naturals, Sequences

CONSTANTS
  Class,      \* the classes which have a Proxy_class
  Addr,       \* addresses, the keys of the weak table
  Ptr,        \* typed pointers
  ClassOf,    \* the static class of a pointer
  AddrOf,     \* the address a pointer holds
  AllBases,   \* Proxy_class<c>::AllBases, as a set
  RootBases,  \* FindRootBases<c>::Result, a sequence in typelist order
  Cast,       \* Cast[p][c] is static_cast<c*>(p), for c a base of p's class
  Ud,         \* the userdata blocks the Lua allocator can hand out
  NULL        \* no pointer

(***************************************************************************)
(* What C++ and the typelist algorithms guarantee of the constants: no     *)
(* class is a base of itself, the bases of a base are bases, and casting   *)
(* in two steps is casting in one.                                         *)
(***************************************************************************)
ASSUME LayoutAssumption ==
  /\ ClassOf \in [Ptr -> Class]
  /\ AddrOf \in [Ptr -> Addr]
  /\ AllBases \in [Class -> SUBSET Class]
  /\ \A c \in Class : c \notin AllBases[c]
  /\ \A c \in Class : \A b \in AllBases[c] : AllBases[b] \subseteq AllBases[c]
  /\ RootBases \in [Class -> Seq(Class)]
  /\ \A c \in Class : \A i \in DOMAIN RootBases[c] : RootBases[c][i] \in AllBases[c]
  /\ \A p \in Ptr : /\ Cast[p] \in [AllBases[ClassOf[p]] -> Ptr]
                    /\ \A c \in AllBases[ClassOf[p]] :
                         /\ ClassOf[Cast[p][c]] = c
                         /\ \A b \in AllBases[c] : Cast[Cast[p][c]][b] = Cast[p][b]
  /\ NULL \notin Ptr

VARIABLES
  phase,  \* "free", "live", or "doomed": cleared by the collector, __gc not yet run
  ptr,    \* the typed pointer each Lua_ud stores
  flags,  \* the flag bits that are set in Lua_ud::flags
  weak,   \* the weak table
  held    \* the userdata which Lua code, the stack or a registry reference reaches

vars == <<phase, ptr, flags, weak, held>>

Flag == {"const", "gc", "collision"}
Owner == {"No_change", "Cpp", "Lua"}

(***************************************************************************)
(* An entry of the weak table: absent, one userdata, or a collision table. *)
(* A collision table has weak values too, so it can become empty; it is    *)
(* kept alive by a second, strong, entry of the weak table which is added  *)
(* and removed together with the first.                                    *)
(***************************************************************************)
Entry == [kind : {"nil", "userdata", "table"}, uds : SUBSET Ud]
NoEntry == [kind |-> "nil", uds |-> {}]

-----------------------------------------------------------------------------
(* Pointers, their bases and the addresses they are cached under.          *)

\* The addresses of the base sub-objects of p, the keys Add_ptr visits.
BaseAddrs(p) == {AddrOf[Cast[p][c]] : c \in AllBases[ClassOf[p]]}

\* Every address a userdata for p is cached under by add_ptr_imp; also the
\* addresses gc_clean_table is called for when such a userdata dies.
Keys(p) == {AddrOf[p]} \cup BaseAddrs(p)

\* The pointer check_index<c> extracts from a userdata which stores p: p
\* itself, a base of it, or NULL for an unrelated class.
Extract(p, c) == IF c = ClassOf[p] THEN p
                 ELSE IF c \in AllBases[ClassOf[p]] THEN Cast[p][c] ELSE NULL

\* Mutant: any userdata at the address is taken for the object.
Serves_AnyType(u, p) == TRUE

\* The first test of is_correct_ud, which a userdata passes as it is: it is of
\* the pushed class or of one derived from it.
Serves(u, p) == \/ ClassOf[ptr[u]] = ClassOf[p]
                \/ ClassOf[p] \in AllBases[ClassOf[ptr[u]]]

\* is_derived_ptr: the pushed class derives from the class of the userdata.
Upgrades(u, p) == ClassOf[ptr[u]] \in AllBases[ClassOf[p]]

\* Two pointers one of which is a cast of the other: the same C++ object.
Related(p, q) == \/ p = q
                 \/ ClassOf[p] \in AllBases[ClassOf[q]] /\ p = Cast[q][ClassOf[p]]
                 \/ ClassOf[q] \in AllBases[ClassOf[p]] /\ q = Cast[p][ClassOf[q]]

-----------------------------------------------------------------------------
(* Searching: find_ud, is_correct_ud, check_roots and Has_a_root_entry.    *)

\* What the cache holds for the sub-object of class c of p which can become p.
\* A root at the same address as p is skipped: find_ud has looked there.
RootHits(p, c) ==
  IF AddrOf[Cast[p][c]] = AddrOf[p] THEN {}
  ELSE {u \in weak[AddrOf[Cast[p][c]]].uds : Upgrades(u, p)}

\* Roots are tried in typelist order and the first which has a hit decides.
RootCandidates(p) ==
  LET roots == RootBases[ClassOf[p]]
      hits  == {i \in DOMAIN roots : RootHits(p, roots[i]) # {}}
  IN  UNION {RootHits(p, roots[i]) : i \in {j \in hits : \A k \in hits : j <= k}}

\* Mutant: a userdata of a base class is not recognised.
Candidates_NoUpgrade(p) == {u \in weak[AddrOf[p]].uds : Serves(u, p)}

\* The userdata find_ud(p) may return.  lua_next walks a collision table in no
\* particular order, so any member which is correct for p may be the first.
\* The roots are not searched when the entry is a collision table.
Candidates(p) ==
  LET entry == weak[AddrOf[p]]
      here  == {u \in entry.uds : Serves(u, p) \/ Upgrades(u, p)}
  IN  IF entry.kind = "table" \/ here # {} THEN here ELSE RootCandidates(p)

-----------------------------------------------------------------------------
(* Storing: add_ptr_if_required, for one address and for a set of them.    *)

\* Mutant: the newcomer replaces the userdata it collides with.
AddTo_Overwrite(entry, u) ==
  IF entry.kind = "table" THEN [entry EXCEPT !.uds = @ \cup {u}]
  ELSE [kind |-> "userdata", uds |-> {u}]

AddTo(entry, u) ==
  IF u \in entry.uds THEN entry
  ELSE [kind |-> IF entry.kind = "nil" THEN "userdata" ELSE "table",
        uds  |-> entry.uds \cup {u}]

Register(u, addrs) ==
  [a \in Addr |-> IF a \in addrs THEN AddTo(weak[a], u) ELSE weak[a]]

\* Mutant: only the newcomer is flagged.
Collided_NewOnly(u, addrs) ==
  IF \E a \in addrs : weak[a].kind # "nil" /\ u \notin weak[a].uds THEN {u} ELSE {}

\* The userdata which get COLLISION_FLAG when u is added under addrs: u, and
\* the ones it meets.  Those in a table already have it.
Collided(u, addrs) ==
  LET met == {a \in addrs : weak[a].kind # "nil" /\ u \notin weak[a].uds}
  IN  (IF met = {} THEN {} ELSE {u})
        \cup UNION {weak[a].uds : a \in {b \in met : weak[b].kind = "userdata"}}

\* userdata_const_value and userdata_gc_value, on a set of flags.
SetConst(fl, isConst) == IF isConst THEN fl \cup {"const"} ELSE fl \ {"const"}
SetOwner(fl, owner) == CASE owner = "Lua" -> fl \cup {"gc"}
                         [] owner = "Cpp" -> fl \ {"gc"}
                         [] OTHER         -> fl

\* u gets the flags fl, and whatever collides gets COLLISION_FLAG as well.
FlagsWith(u, fl, collided) ==
  [v \in Ud |-> (IF v = u THEN fl ELSE flags[v])
                  \cup (IF v \in collided THEN {"collision"} ELSE {})]

-----------------------------------------------------------------------------
Init ==
  /\ phase = [u \in Ud |-> "free"]
  /\ ptr = [u \in Ud |-> NULL]
  /\ flags = [u \in Ud |-> {}]
  /\ weak = [a \in Addr |-> NoEntry]
  /\ held = {}

\* add_ptr: a new userdata, cached under its own address and those of its bases.
AddPtr(u, p, isConst, owner) ==
  /\ phase[u] = "free"
  /\ phase' = [phase EXCEPT ![u] = "live"]
  /\ ptr' = [ptr EXCEPT ![u] = p]
  /\ flags' = FlagsWith(u, SetOwner(SetConst({}, isConst), owner), Collided(u, Keys(p)))
  /\ weak' = Register(u, Keys(p))
  /\ held' = held \cup {u}

\* Mutant: constness follows the last push.
Serve_LastConst(u, p, isConst, owner) ==
  /\ Serves(u, p)
  /\ flags' = [flags EXCEPT ![u] = SetOwner(SetConst(@, isConst), owner)]
  /\ held' = held \cup {u}
  /\ UNCHANGED <<phase, ptr, weak>>

\* is_correct_ud for a userdata of the pushed class or of a derived one: it is
\* used as it is, except that a non-const push makes it non-const.
Serve(u, p, isConst, owner) ==
  /\ Serves(u, p)
  /\ flags' = [flags EXCEPT ![u] = SetOwner(IF isConst THEN @ ELSE @ \ {"const"}, owner)]
  /\ held' = held \cup {u}
  /\ UNCHANGED <<phase, ptr, weak>>

\* reset_metatable, for a userdata of a base class: it becomes a userdata for p.
\* Only the addresses of the bases of p are registered.
ResetMetatable(u, p, isConst, owner) ==
  /\ ~Serves(u, p)
  /\ ptr' = [ptr EXCEPT ![u] = p]
  /\ flags' = FlagsWith(u, SetOwner(SetConst(flags[u], isConst /\ "const" \in flags[u]), owner),
                        Collided(u, BaseAddrs(p)))
  /\ weak' = Register(u, BaseAddrs(p))
  /\ held' = held \cup {u}
  /\ UNCHANGED phase

\* push_pointer_which_has_a_proxy_class: what find_ud returns is used, and a
\* new userdata is made only when it returns nothing.
PushNew(p, isConst, owner) ==
  /\ Candidates(p) = {}
  /\ \E u \in Ud : AddPtr(u, p, isConst, owner)

PushServed(p, isConst, owner) ==
  \E u \in Candidates(p) : Serve(u, p, isConst, owner)

PushUpgraded(p, isConst, owner) ==
  \E u \in Candidates(p) : ResetMetatable(u, p, isConst, owner)

Push(p, isConst, owner) == \/ PushNew(p, isConst, owner)
                           \/ PushServed(p, isConst, owner)
                           \/ PushUpgraded(p, isConst, owner)

\* A constructor called from Lua, an operator, or a return by value: the object
\* is fresh, Lua owns it, and add_ptr is called without a search.  Fresh memory
\* is memory no userdata in the cache refers to.
Construct(p) ==
  /\ \A a \in Keys(p) : weak[a].uds = {}
  /\ \E u \in Ud : AddPtr(u, p, FALSE, "Lua")

\* instance:set_owner(owner), called from Lua; allowed on a const userdata.
LuaSetOwner(u, owner) ==
  /\ u \in held
  /\ flags' = [flags EXCEPT ![u] = SetOwner(@, owner)]
  /\ UNCHANGED <<phase, ptr, weak, held>>

\* A C++ function takes an argument as cpp_acquire_ptr<c>: the userdata must be
\* convertible to c, and not be const unless the parameter is.
CppAcquire(u, c, isConst) ==
  /\ u \in held
  /\ isConst \/ "const" \notin flags[u]
  /\ Extract(ptr[u], c) # NULL
  /\ flags' = [flags EXCEPT ![u] = SetOwner(@, "Cpp")]
  /\ UNCHANGED <<phase, ptr, weak, held>>

\* The last reference to u goes away.
Drop(u) ==
  /\ u \in held
  /\ held' = held \ {u}
  /\ UNCHANGED <<phase, ptr, flags, weak>>

\* Mutant: a cache whose mode is "k" keeps its values.
Collect_WeakKeys(dead) ==
  /\ dead # {}
  /\ \A u \in dead : phase[u] = "live" /\ u \notin held
  /\ phase' = [u \in Ud |-> IF u \in dead THEN "doomed" ELSE phase[u]]
  /\ UNCHANGED <<ptr, flags, weak, held>>

\* The atomic step of Lua's collector: unreachable userdata leave the weak
\* table and the collision tables and wait for their finalizers.  One that was
\* created or lost after the collector had marked it survives the cycle.
Collect(dead) ==
  /\ dead # {}
  /\ \A u \in dead : phase[u] = "live" /\ u \notin held
  /\ phase' = [u \in Ud |-> IF u \in dead THEN "doomed" ELSE phase[u]]
  /\ weak' = [a \in Addr |->
                LET left == weak[a].uds \ dead
                IN  IF weak[a].kind = "userdata" /\ left = {} THEN NoEntry
                    ELSE [kind |-> weak[a].kind, uds |-> left]]
  /\ UNCHANGED <<ptr, flags, held>>

\* Mutant: the bases at an offset are forgotten.
Finalize_OwnAddressOnly(u) ==
  /\ phase[u] = "doomed"
  /\ phase' = [phase EXCEPT ![u] = "free"]
  /\ ptr' = [ptr EXCEPT ![u] = NULL]
  /\ flags' = [flags EXCEPT ![u] = {}]
  /\ weak' = LET a == AddrOf[ptr[u]]
             IN  IF "collision" \in flags[u] /\ weak[a].uds = {}
                 THEN [weak EXCEPT ![a] = NoEntry] ELSE weak
  /\ UNCHANGED held

\* __gc, garbage_collect<T>::gc and gc_no_destructor: a userdata which was in a
\* collision removes the collision tables it leaves empty.
Finalize(u) ==
  /\ phase[u] = "doomed"
  /\ phase' = [phase EXCEPT ![u] = "free"]
  /\ ptr' = [ptr EXCEPT ![u] = NULL]
  /\ flags' = [flags EXCEPT ![u] = {}]
  /\ weak' = [a \in Addr |->
                IF /\ "collision" \in flags[u]
                   /\ a \in Keys(ptr[u])
                   /\ weak[a].uds = {}
                THEN NoEntry ELSE weak[a]]
  /\ UNCHANGED held

Next ==
  \/ \E p \in Ptr, isConst \in BOOLEAN, owner \in Owner : Push(p, isConst, owner)
  \/ \E p \in Ptr : Construct(p)
  \/ \E u \in Ud, owner \in Owner : LuaSetOwner(u, owner)
  \/ \E u \in Ud, c \in Class, isConst \in BOOLEAN : CppAcquire(u, c, isConst)
  \/ \E u \in Ud : Drop(u)
  \/ \E dead \in SUBSET Ud : Collect(dead)
  \/ \E u \in Ud : Finalize(u)

Spec == Init /\ [][Next]_vars

-----------------------------------------------------------------------------
(* The cache implements Handles where every base is at the address of the  *)
(* derived class; with bases at other offsets an object may have more than *)
(* one userdata.                                                           *)

Live == {u \in Ud : phase[u] = "live"}

H == INSTANCE Handles WITH
       obj      <- [u \in Ud |-> IF u \in Live THEN ptr[u] ELSE NULL],
       readonly <- {u \in Live : "const" \in flags[u]},
       owned    <- {u \in Live : "gc" \in flags[u]}

\* A program sees each object through one handle, whatever the order in which
\* pointers are pushed, dropped and collected and finalizers run.
ImplementsHandles == H!Spec

-----------------------------------------------------------------------------
(* What a program's class layouts must satisfy for the cache to be exact.  *)

\* No base sub-object shares an address with another object of its class: a
\* class whose first member has the class of a base at another offset breaks it.
NoAliasedBase ==
  \A p, q \in Ptr : /\ ClassOf[q] \in AllBases[ClassOf[p]]
                    /\ Keys(p) \cap Keys(q) # {}
                    => q = Cast[p][ClassOf[q]]

\* Two objects of one class do not overlap.
NoAliasedClass ==
  \A p, q \in Ptr : /\ ClassOf[q] = ClassOf[p]
                    /\ Keys(p) \cap Keys(q) # {}
                    => q = p

\* Every class with bases has one at its own address: a polymorphic class with
\* a base which is not polymorphic breaks it.
LeadingBase ==
  \A p \in Ptr : AllBases[ClassOf[p]] # {} => AddrOf[p] \in BaseAddrs(p)

\* Every base is at the address of the derived class.
OneAddress == \A p \in Ptr : Keys(p) = {AddrOf[p]}

\* The sub-objects of an object form a chain, each a base of the next.  Two
\* empty bases of one class may be at its address and are no chain.
SingleInheritance ==
  \A p, q, r \in Ptr : Related(p, q) /\ Related(q, r) => Related(p, r)

-----------------------------------------------------------------------------
(* Properties *)

\* The variables have their types, and userdata which Lua reaches are live.
TypeOK ==
  /\ phase \in [Ud -> {"free", "live", "doomed"}]
  /\ ptr \in [Ud -> Ptr \cup {NULL}]
  /\ flags \in [Ud -> SUBSET Flag]
  /\ weak \in [Addr -> Entry]
  /\ held \subseteq Ud
  /\ \A u \in Ud : (ptr[u] = NULL) <=> (phase[u] = "free")
  /\ \A u \in held : phase[u] = "live"

\* A userdata the cache returns is live, and is stored only under addresses of
\* the object it represents, also after reset_metatable has changed its type.
CacheSound ==
  \A a \in Addr : \A u \in weak[a].uds : phase[u] = "live" /\ a \in Keys(ptr[u])

\* A live userdata is cached under each address of its object, so a push
\* through any of its classes meets it (add_ptr_imp, reset_metatable).
Registered ==
  \A u \in Ud : phase[u] = "live" => \A a \in Keys(ptr[u]) : u \in weak[a].uds

\* An entry has the shape of its kind, and every userdata in a collision table
\* carries COLLISION_FLAG, without which its __gc would not clean the table up.
CollisionFlagged ==
  \A a \in Addr :
    /\ weak[a].kind = "nil" => weak[a].uds = {}
    /\ weak[a].kind = "userdata" => \E u \in Ud : weak[a].uds = {u}
    /\ weak[a].kind = "table" => \A u \in weak[a].uds : "collision" \in flags[u]

\* A collision table that the collector has emptied, which the strong entry
\* would keep for ever, is one that a pending finalizer will remove.
NoLeakedTable ==
  \A a \in Addr :
    weak[a].kind = "table" /\ weak[a].uds = {} =>
      \E u \in Ud : /\ phase[u] = "doomed"
                    /\ "collision" \in flags[u]
                    /\ a \in Keys(ptr[u])

\* What find_ud would return for p is the object p points to: the userdata's
\* pointer is a cast of p, or p of it, and never another object at its address.
\* findUd_pushPodPtrThenLookForPtrToFirstMember_findUdReturnsNull
\* (pointer_cache_first_members.cpp:147) says so of an object's first member.
FoundIsSameObject ==
  \A p \in Ptr : \A u \in Candidates(p) : Related(p, ptr[u])

\* At most one userdata stands for an object: of two live userdata neither
\* pointer is a cast of the other.
OneUserdata ==
  \A u, v \in Ud : phase[u] = "live" /\ phase[v] = "live" /\ u # v
                     => ~Related(ptr[u], ptr[v])

\* A pointer that is pushed again uses the userdata it was pushed as before
\* (pointer_cache_first_members.cpp:170, "bothPodsUseTheSameUserdata").
SamePointerSameUserdata ==
  \A u, v \in Ud : phase[u] = "live" /\ phase[v] = "live" /\ u # v => ptr[u] # ptr[v]

\* A live userdata only ever becomes one of a derived class of the same object,
\* never gains const and never forgets that it collided: references to it which
\* Lua already holds stay valid.
Monotone ==
  [][\A u \in Ud : phase[u] = "live" /\ phase'[u] = "live" =>
       /\ ptr'[u] # ptr[u] => /\ ClassOf[ptr[u]] \in AllBases[ClassOf[ptr'[u]]]
                              /\ Cast[ptr'[u]][ClassOf[ptr[u]]] = ptr[u]
       /\ "const" \notin flags[u] => "const" \notin flags'[u]
       /\ "collision" \in flags[u] => "collision" \in flags'[u]]_vars

\* The collector's work is finished: an empty collision table goes away or is
\* used again.
EmptyTableCleaned ==
  \A a \in Addr :
    weak[a].kind = "table" /\ weak[a].uds = {} ~> ~(weak[a].kind = "table" /\ weak[a].uds = {})
=============================================================================
