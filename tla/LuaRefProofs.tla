---------------------------- MODULE LuaRefProofs ----------------------------
(***************************************************************************)
(* Proofs about Lua_ref: every entry of a registry which a variable refers *)
(* to is in use and is that variable's alone, none is leaked but through a *)
(* lua_State that died, and the variables hold values independently.       *)
(***************************************************************************)
EXTENDS LuaRef, TLAPS

USE RefAssumption

\* The entries the variables refer to are in use and not shared.
Owned == TypeOK /\ RefAllocated /\ RefOwnedOnce

-----------------------------------------------------------------------------
(* Releasing frees one entry at most, and only one that x owns.            *)

LEMMA ReleasedType ==
  ASSUME TypeOK, NEW x \in Inst, NEW reg \in Released(x)
  PROVE  /\ reg \in [Universe -> [Ref -> Value \cup {FREE}]]
         /\ \A u \in Universe, r \in Ref : registry[u][r] = FREE => reg[u][r] = FREE
         /\ \A u \in Universe, r \in Ref :
              reg[u][r] # registry[u][r] => valid(x) /\ u = Home(x) /\ r = inst[x].ref
  BY DEF TypeOK, Released, valid, Home

\* The entries of the other variables are kept.
LEMMA ReleasedKeeps ==
  ASSUME Owned, NEW x \in Inst, NEW reg \in Released(x),
         NEW y \in Inst, y # x, valid(y)
  PROVE  reg[Home(y)][inst[y].ref] = Referred(y)
<1>1. Home(y) \in Universe /\ inst[y].ref \in Ref
  BY DEF Owned, TypeOK, valid, Home
<1> QED
  BY <1>1, ReleasedType DEF Owned, RefOwnedOnce, Referred

\* An entry in use which x does not own is kept, and with a usable lua_State
\* the entry of x is freed.
LEMMA ReleasedFrees ==
  ASSUME TypeOK, NEW x \in Inst, NEW reg \in Released(x), valid(x), Usable(inst[x].lua)
  PROVE  reg[Home(x)][inst[x].ref] = FREE
  BY DEF TypeOK, Released, valid, Home

-----------------------------------------------------------------------------
(* The two ways an operation changes a variable keep the invariant.        *)

LEMMA ReplaceOwned ==
  ASSUME Owned, NEW x \in Inst, NEW s \in State \cup {NULL},
         Replace(x, [lua |-> s, ref |-> NOREF]), alive' \subseteq State
  PROVE  Owned'
<1>1. inst' = [inst EXCEPT ![x] = [lua |-> s, ref |-> NOREF]] /\ registry' \in Released(x)
  BY DEF Replace
<1>2. TypeOK'
  BY <1>1, ReleasedType DEF Owned, TypeOK
<1>3. ~valid(x)'
  BY <1>1 DEF Owned, TypeOK, valid
<1>4. \A y \in Inst : y # x => inst'[y] = inst[y] /\ Home(y)' = Home(y) /\ valid(y)' = valid(y)
  BY <1>1 DEF Owned, TypeOK, valid, Home
<1>5. RefAllocated'
  <2> SUFFICES ASSUME NEW y \in Inst, valid(y)' PROVE Referred(y)' # FREE
    BY DEF RefAllocated
  <2>1. y # x /\ valid(y)
    BY <1>3, <1>4
  <2>2. Referred(y)' = Referred(y)
    BY <2>1, <1>1, <1>4, ReleasedKeeps DEF Referred
  <2> QED
    BY <2>1, <2>2 DEF Owned, RefAllocated
<1>6. RefOwnedOnce'
  BY <1>3, <1>4 DEF Owned, RefOwnedOnce
<1> QED
  BY <1>2, <1>5, <1>6 DEF Owned

LEMMA StoreOwned ==
  ASSUME Owned, NEW x \in Inst, NEW s \in State, NEW v \in Value \cup {NIL},
         Store(x, s, v), alive' \subseteq State
  PROVE  Owned'
<1>1. CASE v = NIL
  <2>1. inst' = [inst EXCEPT ![x] = [lua |-> s, ref |-> REFNIL]] /\ registry' \in Released(x)
    BY <1>1 DEF Store
  <2>2. TypeOK'
    BY <2>1, ReleasedType DEF Owned, TypeOK
  <2>3. ~valid(x)'
    BY <2>1 DEF Owned, TypeOK, valid
  <2>4. \A y \in Inst : y # x => inst'[y] = inst[y] /\ Home(y)' = Home(y) /\ valid(y)' = valid(y)
    BY <2>1 DEF Owned, TypeOK, valid, Home
  <2>5. RefAllocated'
    <3> SUFFICES ASSUME NEW y \in Inst, valid(y)' PROVE Referred(y)' # FREE
      BY DEF RefAllocated
    <3>1. y # x /\ valid(y)
      BY <2>3, <2>4
    <3>2. Referred(y)' = Referred(y)
      BY <3>1, <2>1, <2>4, ReleasedKeeps DEF Referred
    <3> QED
      BY <3>1, <3>2 DEF Owned, RefAllocated
  <2>6. RefOwnedOnce'
    BY <2>3, <2>4 DEF Owned, RefOwnedOnce
  <2> QED
    BY <2>2, <2>5, <2>6 DEF Owned
<1>2. CASE v # NIL
  <2>1. PICK r \in FreeRefs(UniverseOf[s]), reg \in Released(x) :
          /\ registry' = [reg EXCEPT ![UniverseOf[s]][r] = v]
          /\ inst' = [inst EXCEPT ![x] = [lua |-> s, ref |-> r]]
    BY <1>2 DEF Store
  <2>2. r \in Ref /\ registry[UniverseOf[s]][r] = FREE /\ v \in Value
    BY <1>2, <2>1 DEF FreeRefs
  <2>3. reg \in [Universe -> [Ref -> Value \cup {FREE}]]
    BY ReleasedType DEF Owned
  <2>4. TypeOK'
    BY <2>1, <2>2, <2>3 DEF Owned, TypeOK
  <2>5. valid(x)' /\ Home(x)' = UniverseOf[s] /\ inst'[x].ref = r /\ Referred(x)' = v
    BY <2>1, <2>2, <2>3 DEF Owned, TypeOK, valid, Home, Referred
  <2>6. \A y \in Inst : y # x => inst'[y] = inst[y] /\ Home(y)' = Home(y) /\ valid(y)' = valid(y)
    BY <2>1 DEF Owned, TypeOK, valid, Home
  <2>7. ASSUME NEW y \in Inst, y # x, valid(y)
        PROVE  /\ ~(Home(y) = UniverseOf[s] /\ inst[y].ref = r)
               /\ Referred(y)' = Referred(y)
    <3>1. Home(y) \in Universe /\ inst[y].ref \in Ref /\ Referred(y) # FREE
      BY <2>7 DEF Owned, TypeOK, valid, Home, RefAllocated
    <3>2. ~(Home(y) = UniverseOf[s] /\ inst[y].ref = r)
      BY <3>1, <2>2 DEF Referred
    <3>3. reg[Home(y)][inst[y].ref] = Referred(y)
      BY <2>7, ReleasedKeeps
    <3>4. registry'[Home(y)][inst[y].ref] = reg[Home(y)][inst[y].ref]
      BY <2>1, <2>2, <2>3, <3>1, <3>2
    <3> QED
      BY <2>6, <2>7, <3>2, <3>3, <3>4 DEF Referred
  <2>8. RefAllocated'
    BY <2>2, <2>5, <2>6, <2>7 DEF Owned, RefAllocated
  <2>9. RefOwnedOnce'
    BY <2>5, <2>6, <2>7 DEF Owned, RefOwnedOnce
  <2> QED
    BY <2>4, <2>8, <2>9 DEF Owned
<1> QED
  BY <1>1, <1>2

-----------------------------------------------------------------------------
(* Every step keeps the invariant.                                         *)

LEMMA SwapOwned ==
  ASSUME Owned, NEW x \in Inst, NEW y \in Inst, Swap(x, y)
  PROVE  Owned'
<1> DEFINE other(z) == IF z = x THEN y ELSE IF z = y THEN x ELSE z
<1>1. \A z \in Inst : /\ other(z) \in Inst
                      /\ inst'[z] = inst[other(z)]
                      /\ Home(z)' = Home(other(z))
                      /\ valid(z)' = valid(other(z))
                      /\ Referred(z)' = Referred(other(z))
  BY DEF Owned, TypeOK, Swap, Home, valid, Referred
<1>2. \A z, w \in Inst : z # w => other(z) # other(w)
  OBVIOUS
<1>3. TypeOK'
  BY DEF Owned, TypeOK, Swap
<1>4. RefAllocated'
  BY <1>1 DEF Owned, RefAllocated
<1>5. RefOwnedOnce'
  BY <1>1, <1>2 DEF Owned, RefOwnedOnce
<1> QED
  BY <1>3, <1>4, <1>5 DEF Owned

LEMMA CloseOwned ==
  ASSUME Owned, NEW u \in Universe, CloseUniverse(u)
  PROVE  Owned'
<1>1. \A x \in Inst : valid(x)' = valid(x) /\ Home(x)' = Home(x)
  BY DEF CloseUniverse, valid, Home
<1>2. \A x \in Inst : valid(x) => Referred(x)' = Referred(x)
  BY DEF Owned, TypeOK, CloseUniverse, valid, Home, Referred
<1>3. TypeOK'
  BY DEF Owned, TypeOK, CloseUniverse
<1> QED
  BY <1>1, <1>2, <1>3 DEF Owned, RefAllocated, RefOwnedOnce, CloseUniverse

\* An operation which only replaces or stores into one variable.
LEMMA UpdateOwned ==
  ASSUME Owned, NEW x \in Inst, alive' \subseteq State,
         \/ \E s \in State \cup {NULL} : Replace(x, [lua |-> s, ref |-> NOREF])
         \/ \E s \in State, v \in Value \cup {NIL} : Usable(s) /\ Store(x, s, v)
         \/ UNCHANGED <<registry, inst>>
  PROVE  Owned'
<1>1. CASE \E s \in State \cup {NULL} : Replace(x, [lua |-> s, ref |-> NOREF])
  BY <1>1, ReplaceOwned
<1>2. CASE \E s \in State, v \in Value \cup {NIL} : Usable(s) /\ Store(x, s, v)
  BY <1>2, StoreOwned
<1>3. CASE UNCHANGED <<registry, inst>>
  BY <1>3 DEF Owned, TypeOK, RefAllocated, RefOwnedOnce, valid, Home, Referred
<1> QED
  BY <1>1, <1>2, <1>3

\* Which of these the operations are.
LEMMA Updates ==
  ASSUME Owned, NEW x \in Inst,
         \/ \E s \in State : BindScript(x, s)
         \/ \E s \in State, v \in Value \cup {NIL} : SetRef(x, s, v) \/ Pull(x, s, v)
         \/ \E y \in Inst : CopyFrom(x, y)
         \/ \E v \in Value \cup {NIL} : SetTable(x, v)
         \/ Release(x) \/ Destroy(x)
  PROVE  /\ alive' = alive
         /\ \/ \E s \in State \cup {NULL} : Replace(x, [lua |-> s, ref |-> NOREF])
            \/ \E s \in State, v \in Value \cup {NIL} : Usable(s) /\ Store(x, s, v)
            \/ UNCHANGED <<registry, inst>>
<1>1. inst[x].lua \in State \cup {NULL}
  BY DEF Owned, TypeOK
<1>2. CASE \E s \in State : BindScript(x, s)
  BY <1>2 DEF BindScript
<1>3. CASE \E s \in State, v \in Value \cup {NIL} : SetRef(x, s, v) \/ Pull(x, s, v)
  BY <1>1, <1>3 DEF SetRef, Pull, Take
<1>4. ASSUME NEW y \in Inst, CopyFrom(x, y)
      PROVE  /\ alive' = alive
             /\ \/ \E s \in State \cup {NULL} : Replace(x, [lua |-> s, ref |-> NOREF])
                \/ \E s \in State, v \in Value \cup {NIL} : Usable(s) /\ Store(x, s, v)
  <2>1. CASE valid(y)
    <3>1. inst[y].lua \in State /\ Referred(y) \in Value
      BY <2>1 DEF Owned, TypeOK, RefAllocated, valid, Referred, Home
    <3> QED
      BY <1>4, <2>1, <3>1 DEF CopyFrom
  <2>2. CASE ~valid(y)
    BY <1>4, <2>2 DEF CopyFrom, Nothing
  <2> QED
    BY <2>1, <2>2
<1>5. CASE \E v \in Value \cup {NIL} : SetTable(x, v)
  BY <1>1, <1>5 DEF SetTable, Nothing
<1>6. CASE Release(x) \/ Destroy(x)
  BY <1>1, <1>6 DEF Release, Destroy, Nothing
<1> QED
  BY <1>2, <1>3, <1>4, <1>5, <1>6

LEMMA ConstructOwned ==
  ASSUME Owned, NEW x \in Inst, NEW s \in State, Construct(x, s)
  PROVE  Owned'
<1>1. \A y \in Inst : valid(y)' = valid(y) /\ (valid(y) => inst'[y] = inst[y])
  BY DEF Owned, TypeOK, Construct, Nothing, valid
<1>2. TypeOK'
  BY DEF Owned, TypeOK, Construct
<1> QED
  BY <1>1, <1>2 DEF Owned, RefAllocated, RefOwnedOnce, Construct, Referred, Home

LEMMA OwnedStep ==
  ASSUME Owned, [Next]_vars
  PROVE  Owned'
<1>1. ASSUME NEW x \in Inst, NEW s \in State, Construct(x, s) PROVE Owned'
  BY <1>1, ConstructOwned
<1>2. ASSUME NEW x \in Inst,
             \/ \E s \in State : BindScript(x, s)
             \/ \E s \in State, v \in Value \cup {NIL} : SetRef(x, s, v) \/ Pull(x, s, v)
             \/ \E y \in Inst : CopyFrom(x, y)
             \/ \E v \in Value \cup {NIL} : SetTable(x, v)
             \/ Release(x) \/ Destroy(x)
      PROVE  Owned'
  <2>1. alive' \subseteq State
    BY <1>2, Updates DEF Owned, TypeOK
  <2> QED
    BY <1>2, <2>1, Updates, UpdateOwned
<1>3. ASSUME NEW x \in Inst, NEW y \in Inst, Swap(x, y) PROVE Owned'
  BY <1>3, SwapOwned
<1>4. ASSUME NEW s \in State, CollectThread(s) PROVE Owned'
  BY <1>4 DEF CollectThread, Owned, TypeOK, RefAllocated, RefOwnedOnce, valid, Home, Referred
<1>5. ASSUME NEW u \in Universe, CloseUniverse(u) PROVE Owned'
  BY <1>5, CloseOwned
<1>6. CASE UNCHANGED vars
  BY <1>6 DEF vars, Owned, TypeOK, RefAllocated, RefOwnedOnce, valid, Home, Referred
<1> QED
  BY <1>1, <1>2, <1>3, <1>4, <1>5, <1>6 DEF Next

LEMMA OwnedInit == Init => Owned
  BY DEF Init, Owned, TypeOK, RefAllocated, RefOwnedOnce, Nothing, valid

\* A valid Lua_ref refers to an entry of its registry that is in use.
THEOREM ReferencesAreAllocated == Spec => []RefAllocated
<1>1. Owned => RefAllocated
  BY DEF Owned
<1> QED
  BY <1>1, OwnedInit, OwnedStep, PTL DEF Spec

\* No two variables own one entry, so no release frees another's value.
THEOREM ReferencesAreOwnedOnce == Spec => []RefOwnedOnce
<1>1. Owned => RefOwnedOnce
  BY DEF Owned
<1> QED
  BY <1>1, OwnedInit, OwnedStep, PTL DEF Spec

-----------------------------------------------------------------------------
(* An entry leaks only through a lua_State which was collected.            *)

\* The entries of a universe which is intact are those of its variables.
Accounted == Owned /\ NoLeak

\* An entry of an intact universe that is in use has a variable.
LEMMA HasOwner ==
  ASSUME Accounted, NEW u \in Universe, Intact(u), NEW r \in Ref, registry[u][r] # FREE
  PROVE  \E y \in Inst : valid(y) /\ Home(y) = u /\ inst[y].ref = r
  BY DEF Accounted, NoLeak, Owners

\* The lua_State of a variable of an intact universe can be used.
LEMMA IntactUsable ==
  ASSUME TypeOK, NEW x \in Inst, valid(x), Intact(Home(x))
  PROVE  Usable(inst[x].lua)
  BY DEF TypeOK, valid, Home, Intact

LEMMA ReplaceAccounted ==
  ASSUME Accounted, NEW x \in Inst, NEW s \in State \cup {NULL},
         Replace(x, [lua |-> s, ref |-> NOREF]), UNCHANGED alive
  PROVE  NoLeak'
<1>1. inst' = [inst EXCEPT ![x] = [lua |-> s, ref |-> NOREF]] /\ registry' \in Released(x)
  BY DEF Replace
<1>2. ~valid(x)'
  BY <1>1 DEF Accounted, Owned, TypeOK, valid
<1>3. \A y \in Inst : y # x => inst'[y] = inst[y] /\ Home(y)' = Home(y) /\ valid(y)' = valid(y)
  BY <1>1 DEF Accounted, Owned, TypeOK, valid, Home
<1>4. NoLeak'
  <2> SUFFICES ASSUME NEW u \in Universe, Intact(u), NEW r \in Ref, registry'[u][r] # FREE
               PROVE  \E y \in Inst : valid(y)' /\ Home(y)' = u /\ inst'[y].ref = r
    BY DEF NoLeak, Owners, Intact, Usable
  <2>1. registry[u][r] # FREE
    BY <1>1, ReleasedType DEF Accounted, Owned
  <2>2. PICK y \in Inst : valid(y) /\ Home(y) = u /\ inst[y].ref = r
    BY <2>1, HasOwner
  <2>3. y # x
    BY <1>1, <2>2, ReleasedFrees, IntactUsable DEF Accounted, Owned
  <2> QED
    BY <2>2, <2>3, <1>3
<1> QED
  BY <1>4

LEMMA StoreAccounted ==
  ASSUME Accounted, NEW x \in Inst, NEW s \in State, NEW v \in Value \cup {NIL},
         Usable(s), Store(x, s, v), UNCHANGED alive
  PROVE  NoLeak'
<1>1. PICK ref \in Ref \cup {REFNIL} : inst' = [inst EXCEPT ![x] = [lua |-> s, ref |-> ref]]
  BY DEF Store, FreeRefs
<1>2. PICK reg \in Released(x) :
        /\ ref = REFNIL => registry' = reg
        /\ ref # REFNIL => registry' = [reg EXCEPT ![UniverseOf[s]][ref] = v]
  BY <1>1 DEF Store, FreeRefs, Accounted, Owned, TypeOK
<1>3. reg \in [Universe -> [Ref -> Value \cup {FREE}]]
  BY ReleasedType DEF Accounted, Owned
<1>4. \A y \in Inst : y # x => inst'[y] = inst[y] /\ Home(y)' = Home(y) /\ valid(y)' = valid(y)
  BY <1>1 DEF Accounted, Owned, TypeOK, valid, Home
<1>5. inst'[x].lua = s /\ inst'[x].ref = ref /\ Home(x)' = UniverseOf[s]
      /\ (ref \in Ref => valid(x)')
  BY <1>1 DEF Accounted, Owned, TypeOK, valid, Home
<1>6. NoLeak'
  <2> SUFFICES ASSUME NEW u \in Universe, Intact(u), NEW r \in Ref, registry'[u][r] # FREE
               PROVE  \E y \in Inst : valid(y)' /\ Home(y)' = u /\ inst'[y].ref = r
    BY DEF NoLeak, Owners, Intact, Usable
  <2>1. CASE ref \in Ref /\ u = UniverseOf[s] /\ r = ref
    BY <2>1, <1>5
  <2>2. CASE ~(ref \in Ref /\ u = UniverseOf[s] /\ r = ref)
    <3>1. reg[u][r] # FREE
      BY <2>2, <1>2, <1>3
    <3>2. registry[u][r] # FREE
      BY <3>1, ReleasedType DEF Accounted, Owned
    <3>3. PICK y \in Inst : valid(y) /\ Home(y) = u /\ inst[y].ref = r
      BY <3>2, HasOwner
    <3>4. y # x
      BY <3>1, <3>3, ReleasedFrees, IntactUsable DEF Accounted, Owned
    <3> QED
      BY <3>3, <3>4, <1>4
  <2> QED
    BY <2>1, <2>2
<1> QED
  BY <1>6

LEMMA AccountedStep ==
  ASSUME Accounted, [Next]_vars
  PROVE  Accounted'
<1>1. ASSUME NEW x \in Inst, NEW s \in State, Construct(x, s) PROVE NoLeak'
  <2>1. \A y \in Inst : valid(y)' = valid(y) /\ (valid(y) => inst'[y] = inst[y])
    BY <1>1 DEF Accounted, Owned, TypeOK, Construct, Nothing, valid
  <2> QED
    BY <1>1, <2>1 DEF Accounted, NoLeak, Owners, Intact, Construct, Home, Usable
<1>2. ASSUME NEW x \in Inst,
             \/ \E s \in State : BindScript(x, s)
             \/ \E s \in State, v \in Value \cup {NIL} : SetRef(x, s, v) \/ Pull(x, s, v)
             \/ \E y \in Inst : CopyFrom(x, y)
             \/ \E v \in Value \cup {NIL} : SetTable(x, v)
             \/ Release(x) \/ Destroy(x)
      PROVE  NoLeak'
  <2>1. /\ alive' = alive
        /\ \/ \E s \in State \cup {NULL} : Replace(x, [lua |-> s, ref |-> NOREF])
           \/ \E s \in State, v \in Value \cup {NIL} : Usable(s) /\ Store(x, s, v)
           \/ UNCHANGED <<registry, inst>>
    BY <1>2, Updates DEF Accounted
  <2>2. CASE \E s \in State \cup {NULL} : Replace(x, [lua |-> s, ref |-> NOREF])
    BY <2>1, <2>2, ReplaceAccounted
  <2>3. CASE \E s \in State, v \in Value \cup {NIL} : Usable(s) /\ Store(x, s, v)
    BY <2>1, <2>3, StoreAccounted
  <2>4. CASE UNCHANGED <<registry, inst>>
    BY <2>1, <2>4 DEF Accounted, NoLeak, Owners, Intact, valid, Home, Usable
  <2> QED
    BY <2>1, <2>2, <2>3, <2>4
<1>3. ASSUME NEW x \in Inst, NEW y \in Inst, Swap(x, y) PROVE NoLeak'
  <2> DEFINE other(z) == IF z = x THEN y ELSE IF z = y THEN x ELSE z
  <2>1. \A z \in Inst : /\ other(z) \in Inst
                        /\ other(other(z)) = z
                        /\ inst'[z] = inst[other(z)]
                        /\ Home(z)' = Home(other(z))
                        /\ valid(z)' = valid(other(z))
    BY <1>3 DEF Accounted, Owned, TypeOK, Swap, Home, valid
  <2> HIDE DEF other
  <2>2. alive' = alive /\ registry' = registry
    BY <1>3 DEF Swap
  <2>3. NoLeak'
    <3> SUFFICES ASSUME NEW u \in Universe, Intact(u), NEW r \in Ref, registry'[u][r] # FREE
                 PROVE  \E z \in Inst : valid(z)' /\ Home(z)' = u /\ inst'[z].ref = r
      BY <2>2 DEF NoLeak, Owners, Intact, Usable
    <3>1. PICK z \in Inst : valid(z) /\ Home(z) = u /\ inst[z].ref = r
      BY <2>2, HasOwner
    <3>2. valid(other(z))' /\ Home(other(z))' = u /\ inst'[other(z)].ref = r
      BY <3>1, <2>1
    <3>3. other(z) \in Inst
      BY <2>1
    <3> QED
      BY <3>2, <3>3
  <2> QED
    BY <2>3
<1>4. ASSUME NEW s \in State, CollectThread(s) PROVE NoLeak'
  <2>1. \A x \in Inst : valid(x)' = valid(x) /\ Home(x)' = Home(x) /\ inst'[x] = inst[x]
    BY <1>4 DEF CollectThread, valid, Home
  <2> QED
    BY <1>4, <2>1 DEF Accounted, NoLeak, Owners, Intact, CollectThread, Usable
<1>5. ASSUME NEW u \in Universe, CloseUniverse(u) PROVE NoLeak'
  <2>1. \A x \in Inst : /\ valid(x)' = valid(x) /\ Home(x)' = Home(x) /\ inst'[x] = inst[x]
                        /\ valid(x) => Home(x) # u
    BY <1>5 DEF CloseUniverse, valid, Home
  <2>2. \A v \in Universe, r \in Ref :
          registry'[v][r] # FREE => v # u /\ registry[v][r] # FREE
    BY <1>5 DEF Accounted, Owned, TypeOK, CloseUniverse
  <2>3. NoLeak'
    BY <1>5, <2>1, <2>2 DEF Accounted, NoLeak, Owners, Intact, CloseUniverse, Usable
  <2> QED
    BY <2>3
<1>6. ASSUME UNCHANGED vars PROVE NoLeak'
  BY <1>6 DEF vars, Accounted, NoLeak, Owners, Intact, valid, Home, Usable
<1>7. NoLeak'
  BY <1>1, <1>2, <1>3, <1>4, <1>5, <1>6 DEF Next
<1>8. Owned'
  BY OwnedStep DEF Accounted
<1> QED
  BY <1>7, <1>8 DEF Accounted

\* Every entry of a registry has a variable which releases it when it goes out
\* of scope, as long as no lua_State of the universe was collected.
THEOREM ReferencesAreReleased == Spec => []NoLeak
<1>1. Init => Accounted
  BY OwnedInit DEF Init, Accounted, NoLeak, Nothing, valid
<1>2. Accounted /\ [Next]_vars => Accounted'
  BY AccountedStep
<1>3. Accounted => NoLeak
  BY DEF Accounted
<1> QED
  BY <1>1, <1>2, <1>3, PTL DEF Spec

-----------------------------------------------------------------------------
(* The variables implement independent variables which hold values.        *)

\* What a variable holds.
Held(x) == IF valid(x) THEN <<Home(x), Referred(x)>> ELSE NULL

\* A store into x changes what x holds and nothing else.
LEMMA StoreHeld ==
  ASSUME Owned, NEW x \in Inst, NEW s \in State, NEW v \in Value \cup {NIL}, Store(x, s, v)
  PROVE  /\ Held(x)' = IF v = NIL THEN NULL ELSE <<UniverseOf[s], v>>
         /\ \A y \in Inst : y # x => Held(y)' = Held(y)
<1>1. PICK ref \in Ref \cup {REFNIL} :
        /\ inst' = [inst EXCEPT ![x] = [lua |-> s, ref |-> ref]]
        /\ v = NIL <=> ref = REFNIL
        /\ ref # REFNIL => registry[UniverseOf[s]][ref] = FREE
  BY DEF Store, FreeRefs
<1>2. PICK reg \in Released(x) :
        /\ ref = REFNIL => registry' = reg
        /\ ref # REFNIL => registry' = [reg EXCEPT ![UniverseOf[s]][ref] = v]
  BY <1>1 DEF Store, FreeRefs, Owned, TypeOK
<1>3. reg \in [Universe -> [Ref -> Value \cup {FREE}]]
  BY ReleasedType DEF Owned
<1>4. \A y \in Inst : y # x => inst'[y] = inst[y] /\ Home(y)' = Home(y) /\ valid(y)' = valid(y)
  BY <1>1 DEF Owned, TypeOK, valid, Home
<1>5. inst'[x].lua = s /\ inst'[x].ref = ref /\ Home(x)' = UniverseOf[s]
      /\ (ref \in Ref <=> valid(x)')
  BY <1>1 DEF Owned, TypeOK, valid, Home
<1>6. ref \in Ref => Referred(x)' = v
  BY <1>2, <1>3, <1>5 DEF Referred
<1>7. ASSUME NEW y \in Inst, y # x, valid(y) PROVE Referred(y)' = Referred(y)
  <2>1. Home(y) \in Universe /\ inst[y].ref \in Ref /\ Referred(y) # FREE
    BY <1>7 DEF Owned, TypeOK, valid, Home, RefAllocated
  <2>2. ref # REFNIL => ~(Home(y) = UniverseOf[s] /\ inst[y].ref = ref)
    BY <2>1, <1>1 DEF Referred
  <2>3. reg[Home(y)][inst[y].ref] = Referred(y)
    BY <1>7, ReleasedKeeps
  <2>4. registry'[Home(y)][inst[y].ref] = reg[Home(y)][inst[y].ref]
    BY <1>1, <1>2, <1>3, <2>1, <2>2
  <2> QED
    BY <1>4, <1>7, <2>3, <2>4 DEF Referred
<1> QED
  BY <1>1, <1>4, <1>5, <1>6, <1>7 DEF Held

\* A release empties x and nothing else.
LEMMA ReplaceHeld ==
  ASSUME Owned, NEW x \in Inst, NEW s \in State \cup {NULL},
         Replace(x, [lua |-> s, ref |-> NOREF])
  PROVE  Held(x)' = NULL /\ \A y \in Inst : y # x => Held(y)' = Held(y)
<1>1. inst' = [inst EXCEPT ![x] = [lua |-> s, ref |-> NOREF]] /\ registry' \in Released(x)
  BY DEF Replace
<1>2. ~valid(x)'
  BY <1>1 DEF Owned, TypeOK, valid
<1>3. \A y \in Inst : y # x => inst'[y] = inst[y] /\ Home(y)' = Home(y) /\ valid(y)' = valid(y)
  BY <1>1 DEF Owned, TypeOK, valid, Home
<1>4. \A y \in Inst : y # x /\ valid(y) => Referred(y)' = Referred(y)
  BY <1>1, <1>3, ReleasedKeeps DEF Referred
<1> QED
  BY <1>2, <1>3, <1>4 DEF Held

\* The values of the abstract variables.
held == [x \in Inst |-> Held(x)]

LEMMA HeldStep ==
  ASSUME Owned, [Next]_vars
  PROVE  \/ \E x \in Inst, c \in Universe \X Value : held' = [held EXCEPT ![x] = c]
         \/ \E x, y \in Inst : held' = [held EXCEPT ![x] = held[y], ![y] = held[x]]
         \/ \E x \in Inst : held' = [held EXCEPT ![x] = NULL]
         \/ held' = held
<1>1. ASSUME NEW x \in Inst, NEW s \in State, Construct(x, s) PROVE held' = held
  <2>1. \A y \in Inst : valid(y)' = valid(y) /\ (valid(y) => inst'[y] = inst[y])
    BY <1>1 DEF Owned, TypeOK, Construct, Nothing, valid
  <2>2. \A y \in Inst : Held(y)' = Held(y)
    BY <1>1, <2>1 DEF Construct, Held, Home, Referred
  <2> QED
    BY <2>2 DEF held
<1>2. ASSUME NEW x \in Inst,
             \/ \E s \in State : BindScript(x, s)
             \/ \E s \in State, v \in Value \cup {NIL} : SetRef(x, s, v) \/ Pull(x, s, v)
             \/ \E y \in Inst : CopyFrom(x, y)
             \/ \E v \in Value \cup {NIL} : SetTable(x, v)
             \/ Release(x) \/ Destroy(x)
      PROVE  \/ \E c \in Universe \X Value : held' = [held EXCEPT ![x] = c]
             \/ held' = [held EXCEPT ![x] = NULL]
             \/ held' = held
  <2>1. \/ \E s \in State \cup {NULL} : Replace(x, [lua |-> s, ref |-> NOREF])
        \/ \E s \in State, v \in Value \cup {NIL} : Usable(s) /\ Store(x, s, v)
        \/ UNCHANGED <<registry, inst>>
    BY <1>2, Updates
  <2>2. ASSUME NEW s \in State \cup {NULL}, Replace(x, [lua |-> s, ref |-> NOREF])
        PROVE  held' = [held EXCEPT ![x] = NULL]
    BY <2>2, ReplaceHeld DEF held
  <2>3. ASSUME NEW s \in State, NEW v \in Value \cup {NIL}, Store(x, s, v)
        PROVE  \/ \E c \in Universe \X Value : held' = [held EXCEPT ![x] = c]
               \/ held' = [held EXCEPT ![x] = NULL]
    <3>1. held' = [held EXCEPT ![x] = IF v = NIL THEN NULL ELSE <<UniverseOf[s], v>>]
      BY <2>3, StoreHeld DEF held
    <3>2. v # NIL => <<UniverseOf[s], v>> \in Universe \X Value
      OBVIOUS
    <3> QED
      BY <3>1, <3>2
  <2>4. ASSUME UNCHANGED <<registry, inst>> PROVE held' = held
    BY <2>4 DEF held, Held, valid, Home, Referred
  <2> QED
    BY <2>1, <2>2, <2>3, <2>4
<1>3. ASSUME NEW x \in Inst, NEW y \in Inst, Swap(x, y)
      PROVE  held' = [held EXCEPT ![x] = held[y], ![y] = held[x]]
  <2>1. \A z \in Inst : Held(z)' = Held(IF z = x THEN y ELSE IF z = y THEN x ELSE z)
    BY <1>3 DEF Owned, TypeOK, Swap, Held, valid, Home, Referred
  <2> QED
    BY <2>1 DEF held
<1>4. ASSUME NEW s \in State, CollectThread(s) PROVE held' = held
  BY <1>4 DEF CollectThread, held, Held, valid, Home, Referred
<1>5. ASSUME NEW u \in Universe, CloseUniverse(u) PROVE held' = held
  <2>1. \A x \in Inst : Held(x)' = Held(x)
    BY <1>5 DEF Owned, TypeOK, CloseUniverse, Held, valid, Home, Referred
  <2> QED
    BY <2>1 DEF held
<1>6. ASSUME UNCHANGED vars PROVE held' = held
  BY <1>6 DEF vars, held, Held, valid, Home, Referred
<1> QED
  BY <1>1, <1>2, <1>3, <1>4, <1>5, <1>6 DEF Next

\* Every operation on a Lua_ref sets, swaps or empties the variables it names
\* and leaves what the others hold: copies are independent.
THEOREM LuaRefImplementsReferences == Spec => ImplementsReferences
<1>1. held = [x \in Inst |-> IF valid(x) THEN <<Home(x), Referred(x)>> ELSE NULL]
  BY DEF held, Held
<1>2. Init => R!Init
  BY DEF Init, R!Init, Nothing, valid
<1>3. Owned /\ [Next]_vars => [R!Next]_[x \in Inst |-> IF valid(x) THEN <<Home(x), Referred(x)>> ELSE NULL]
  BY <1>1, HeldStep DEF R!Next, R!Set, R!Swap, R!Clear, R!Content, held, Held
<1> QED
  BY <1>2, <1>3, OwnedInit, OwnedStep, PTL DEF Spec, ImplementsReferences, R!Spec
=============================================================================
