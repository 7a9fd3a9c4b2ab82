------------------------------- MODULE LuaRef -------------------------------
(***************************************************************************)
(* Lua_ref<ID> and the Table which is built on it (oolua_ref.h,            *)
(* oolua_table.cpp): C++ variables which own an entry of the registry of a *)
(* Lua universe.  The registry keeps the value alive; luaL_ref allocates   *)
(* an entry and luaL_unref frees it, and a freed entry is used again.      *)
(***************************************************************************)
CONSTANTS
  Universe,    \* the results of luaL_newstate, each with its registry
  State,       \* the lua_States: the main ones and the coroutines
  UniverseOf,  \* the universe of a lua_State
  Mortal,      \* coroutines which the program does not anchor
  Inst,        \* the C++ variables
  Ref,         \* the integers luaL_ref hands out
  Value,       \* Lua values other than nil
  TypeOf,      \* lua_type of a value
  ID,          \* the template parameter, the type of value referred to
  NULL, NOREF, REFNIL, FREE, NIL

ASSUME RefAssumption ==
  /\ UniverseOf \in [State -> Universe]
  /\ Mortal \subseteq State
  /\ NULL \notin State
  /\ NOREF \notin Ref /\ REFNIL \notin Ref /\ NOREF # REFNIL
  /\ FREE \notin Value /\ NIL \notin Value

VARIABLES
  alive,     \* the lua_States which have not been closed or collected
  registry,  \* the value each entry refers to, or FREE
  inst       \* m_lua and m_ref of each variable

vars == <<alive, registry, inst>>

\* A default constructed variable, and one that is not in scope.
Nothing == [lua |-> NULL, ref |-> NOREF]

Home(x) == UniverseOf[inst[x].lua]

valid(x) == inst[x].lua # NULL /\ inst[x].ref \notin {NOREF, REFNIL}

\* The value a valid variable refers to.
Referred(x) == registry[Home(x)][inst[x].ref]

FreeRefs(u) == {r \in Ref : registry[u][r] = FREE}

Usable(s) == s \in alive

-----------------------------------------------------------------------------
(* Release: valid entries are freed.  With a lua_State that was collected  *)
(* the behaviour of luaL_unref is undefined: it may have no effect.        *)

\* The registries which may result from a release of x.
Released(x) ==
  LET freed == [registry EXCEPT ![Home(x)][inst[x].ref] = FREE]
  IN  IF ~valid(x) THEN {registry}
      ELSE IF Usable(inst[x].lua) THEN {freed} ELSE {freed, registry}

\* Mutant: the entry that is replaced is not released.
Store_NoRelease(x, s, v) ==
  IF v = NIL THEN /\ UNCHANGED registry
                  /\ inst' = [inst EXCEPT ![x] = [lua |-> s, ref |-> REFNIL]]
  ELSE \E r \in FreeRefs(UniverseOf[s]) :
         /\ registry' = [registry EXCEPT ![UniverseOf[s]][r] = v]
         /\ inst' = [inst EXCEPT ![x] = [lua |-> s, ref |-> r]]

\* set_ref(s, luaL_ref(s)) with v on top of the stack of s: the new entry is
\* allocated first, then the old one is released.
Store(x, s, v) ==
  IF v = NIL THEN /\ registry' \in Released(x)
                  /\ inst' = [inst EXCEPT ![x] = [lua |-> s, ref |-> REFNIL]]
  ELSE \E r \in FreeRefs(UniverseOf[s]), reg \in Released(x) :
         /\ registry' = [reg EXCEPT ![UniverseOf[s]][r] = v]
         /\ inst' = [inst EXCEPT ![x] = [lua |-> s, ref |-> r]]

\* x becomes content, and what it owned is released.
Replace(x, content) ==
  /\ registry' \in Released(x)
  /\ inst' = [inst EXCEPT ![x] = content]

-----------------------------------------------------------------------------
Init ==
  /\ alive = State
  /\ registry = [u \in Universe |-> [r \in Ref |-> FREE]]
  /\ inst = [x \in Inst |-> Nothing]

\* Lua_ref(vm)
Construct(x, s) ==
  /\ Usable(s) /\ inst[x] = Nothing
  /\ inst' = [inst EXCEPT ![x] = [lua |-> s, ref |-> NOREF]]
  /\ UNCHANGED <<alive, registry>>

\* Lua_ref(vm, luaL_ref(vm)) and set_ref; the type of the value is not checked.
SetRef(x, s, v) ==
  /\ Usable(s)
  /\ Store(x, s, v)
  /\ UNCHANGED alive

\* Mutant: both variables own the entry.
CopyFrom_Share(x, y) ==
  /\ valid(y) => Usable(inst[y].lua)
  /\ Replace(x, IF valid(y) THEN inst[y] ELSE Nothing)
  /\ UNCHANGED alive

\* Lua_ref(rhs) and operator =, a copy which is swapped with the variable and
\* destroyed; also for y = x.  A copy of an invalid variable has no lua_State.
CopyFrom(x, y) ==
  /\ IF valid(y)
     THEN /\ Usable(inst[y].lua)
          /\ Store(x, inst[y].lua, Referred(y))
     ELSE Replace(x, Nothing)
  /\ UNCHANGED alive

Swap(x, y) ==
  /\ inst' = [inst EXCEPT ![x] = inst[y], ![y] = inst[x]]
  /\ UNCHANGED <<alive, registry>>

\* release: the lua_State is kept.
Release(x) ==
  /\ Replace(x, [lua |-> inst[x].lua, ref |-> NOREF])
  /\ UNCHANGED alive

\* ~Lua_ref
Destroy(x) ==
  /\ Replace(x, Nothing)
  /\ UNCHANGED alive

\* pull_if_valid and lua_get: a value of the type of the template is stored,
\* nil empties the variable, and anything else is an error which leaves it.
Take(x, s, v) ==
  IF v = NIL THEN Replace(x, [lua |-> inst[x].lua, ref |-> NOREF])
  ELSE IF TypeOf[v] = ID THEN Store(x, s, v)
  ELSE UNCHANGED <<registry, inst>>

Pull(x, s, v) ==
  /\ Usable(s)
  /\ Take(x, s, v)
  /\ UNCHANGED alive

\* Table::bind_script
BindScript(x, s) ==
  /\ Usable(s) /\ inst[x].lua # s
  /\ Replace(x, [lua |-> s, ref |-> NOREF])
  /\ UNCHANGED alive

\* Table::set_table(name) for a name which is a table, in the globals or in the
\* registry, and for an empty or an unknown name.
SetTable(x, v) ==
  /\ inst[x].lua # NULL => Usable(inst[x].lua)
  /\ IF v = NIL THEN Replace(x, Nothing)
     ELSE IF inst[x].lua = NULL THEN UNCHANGED <<registry, inst>>
     ELSE TypeOf[v] = ID /\ Store(x, inst[x].lua, v)
  /\ UNCHANGED alive

\* A coroutine which only a variable knows is garbage to Lua.
CollectThread(s) ==
  /\ s \in Mortal /\ Usable(s)
  /\ alive' = alive \ {s}
  /\ UNCHANGED <<registry, inst>>

\* Script::close_down; a universe "must outlive the reference"
\* (lua_reference.cpp:347).
CloseUniverse(u) ==
  /\ \A x \in Inst : inst[x].lua # NULL => Home(x) # u
  /\ alive' = {s \in alive : UniverseOf[s] # u}
  /\ registry' = [registry EXCEPT ![u] = [r \in Ref |-> FREE]]
  /\ UNCHANGED inst

Next ==
  \/ \E x \in Inst :
       \/ \E s \in State : Construct(x, s) \/ BindScript(x, s)
       \/ \E s \in State, v \in Value \cup {NIL} : SetRef(x, s, v) \/ Pull(x, s, v)
       \/ \E y \in Inst : CopyFrom(x, y) \/ Swap(x, y)
       \/ \E v \in Value \cup {NIL} : SetTable(x, v)
       \/ Release(x) \/ Destroy(x)
  \/ \E s \in State : CollectThread(s)
  \/ \E u \in Universe : CloseUniverse(u)

Spec == Init /\ [][Next]_vars
-----------------------------------------------------------------------------
(* Reading: push, lua_push and ==, which change neither variables nor      *)
(* registries.  The outcomes are sets: with a lua_State that was collected *)
(* freed memory is read, and nothing is known of the answer.               *)

\* can_xmove compares the registries of two different lua_States.
can_xmove(s, t) == s # t /\ UniverseOf[s] = UniverseOf[t]

\* The answers to "from == to || can_xmove(from, to)".
Reaches(from, to) ==
  IF from = to THEN {TRUE}
  ELSE IF Usable(from) /\ Usable(to) THEN {can_xmove(from, to)} ELSE BOOLEAN

\* What push may put on the stack of s; NULL when nothing is pushed.
push(x, s) ==
  IF ~valid(x) THEN {NIL}
  ELSE {IF reaches THEN registry[UniverseOf[s]][inst[x].ref] ELSE NULL :
          reaches \in Reaches(inst[x].lua, s)}

\* The same for functions which Lua calls, where NULL is a Lua error; another
\* lua_State of the universe is refused.
lua_push(x, s) == IF ~valid(x) THEN {NIL}
                  ELSE IF s = inst[x].lua THEN {Referred(x)} ELSE {NULL}

\* operator == reads both entries in the universe of x.
equal(x, y) ==
  IF ~valid(x) \/ ~valid(y) THEN {valid(x) = valid(y)}
  ELSE IF ~Usable(inst[x].lua) THEN BOOLEAN
  ELSE {reaches /\ Referred(x) = registry[Home(x)][inst[y].ref] :
          reaches \in Reaches(inst[x].lua, inst[y].lua)}

-----------------------------------------------------------------------------
(* Properties *)

\* The variables have their types.
TypeOK ==
  /\ alive \subseteq State
  /\ registry \in [Universe -> [Ref -> Value \cup {FREE}]]
  /\ inst \in [Inst -> [lua : State \cup {NULL}, ref : Ref \cup {NOREF, REFNIL}]]

\* A valid variable refers to an entry which is in use, so what luaL_ref hands
\* out next is never an entry that some variable still reads.
RefAllocated == \A x \in Inst : valid(x) => Referred(x) # FREE

\* Two variables never own one entry, whichever way they were copied, swapped
\* and assigned: the second release would free somebody else's value.
RefOwnedOnce ==
  \A x, y \in Inst : valid(x) /\ valid(y) /\ x # y /\ Home(x) = Home(y)
                       => inst[x].ref # inst[y].ref

Owners(u, r) == {x \in Inst : valid(x) /\ Home(x) = u /\ inst[x].ref = r}

\* No lua_State of the universe was collected.
Intact(u) == \A s \in State : UniverseOf[s] = u => Usable(s)

\* An entry which is in use has a variable which will release it, unless
\* a coroutine has died before a variable that was filled in it.
NoLeak ==
  \A u \in Universe : Intact(u) =>
    \A r \in Ref : registry[u][r] # FREE => Owners(u, r) # {}

\* The entries and lua_States implement variables which hold values: copies are
\* independent of their originals.
R == INSTANCE References WITH
       val  <- [x \in Inst |-> IF valid(x) THEN <<Home(x), Referred(x)>> ELSE NULL],
       NONE <- NULL

ImplementsReferences == R!Spec
=============================================================================
