# OOLua: verification project

OOLua binds C++ classes to Lua. This directory holds TLA+ specifications of it,
the TLC configurations which check them on small instances, and proofs of their
main properties which TLAPS checks for every instance. Paths are those of the
repository below `src/`: `include/`, `src/`, `unit_tests/`.

## 1. The system

A program describes its classes with macros (`OOLUA_PROXY`, `OOLUA_MEM_FUNC`,
`OOLUA_EXPORT_FUNCTIONS`) which generate a `Proxy_class<T>` for each of them.
`register_class<T>` makes a Lua table of methods for the class and its bases.
After that objects go to Lua and back: a C++ object is represented by a userdata,
which the *pointer cache* finds again when the object is pushed again, through a
pointer to any class of its hierarchy. Lua calls member functions and constructors
through C functions which the macros generated; *traits* of each parameter say who
owns it afterwards. In the other direction C++ calls Lua functions, runs chunks and
reads and writes tables through `Lua_function`, `Table` and `Lua_ref`, which use the
stack of a `lua_State` outside of any protected call.

There are no threads. What is concurrent is the collector of Lua, which clears weak
table entries and runs finalizers between, and during, all other steps; coroutines,
each a `lua_State` of its own with the registry of its universe; scripts, which may
do anything to the tables that the library leaves in their reach; and the order in
which a program pushes, copies, destroys and registers. Failure is an error code, a
C++ exception, or a `longjmp` across C++ frames, depending on the configuration.

| component | state | operations | hard behaviour | correct when |
|---|---|---|---|---|
| pointer cache (`proxy_storage`, `push_pointer_internal`, `proxy_base_checker`, `proxy_userdata`) | weak table from addresses to userdata or to collision tables; `Lua_ud`: pointer or shared pointer, type, flags | push (search, upgrade, add), own, acquire, collect, finalize | objects of different identity at one address; bases at offsets; weak entries cleared before finalizers run; shared pointers kept in the storage of raw ones | a push finds a userdata of the same object and no other; an object is destroyed by the last who owns it |
| references (`oolua_ref`) | `m_lua`, `m_ref`; the registry | construct, copy, assign, swap, release, set, push, pull | sequences of copies; coroutines and universes which end | each registry entry has one owner, and is released once |
| stack (`oolua_push`, `oolua_pull`, `oolua_error`, `oolua_check_result`) | the stack, the stored error | push, pull, report | one of several steps fails, in the build which throws and in the one which does not | the stack of the caller is as documented, failures are reported |
| calling Lua (`oolua_function`, `oolua_chunk`) | the stack | call by name, reference or index; load and run | failing parameters, errors and exceptions with a handler on the stack | as above |
| tables (`oolua_table`) | a reference, the stack | at, safe_at, try_at, set, remove, valid, bind, traversal, table_at, table_set_value | relative indices after a failed push; loops whose bodies use the stack | the table and only it is changed; the stack is balanced |
| proxied functions (`proxy_member_function`, `proxy_none_member_function`, `proxy_caller`, `stack_get`, traits, converters) | userdata flags, the stack of a call | read self and parameters, convert, call, push results and out parameters | an argument is refused when another has changed owner; results which push nothing; a type is read by one template and tested by another | parameters get their arguments, constant stays constant, each object has one owner |
| registration (`oolua_registration`, `proxy_class`) | method table, metatable, global of each class | register_class, statics, search through bases | any order of registrations and additions; scripts which overwrite globals | names resolve as the hierarchy says |
| constructors (`proxy_constructor`, its parameter tester) | the stack of a call | match argument types, construct | first match wins | the first constructor the arguments fit is called, with them |
| operators, public members (`proxy_public_member`, operator macros) | as proxied functions | get, set, operate | getter and setter decide by different templates | a setter takes what the getter gave |
| exceptions, last error (`oolua_exception`, `oolua_error`) | message buffer, registry | copy, assign, get, reset | truncation at the buffer limit | a terminated prefix of the message |
| Script, open (`oolua_script`, `oolua_open`) | the universe | open, bind, close | set up twice; closing with references alive | |
| compile time support (`lvd_type_traits`, `oolua_traits`, `type_converters`, `dsl_*`) | none | what a template decides of a type | overloads and specialisations which disagree | any two of them agree on a type |
| unit tests | the stack of a script | 558 cases of them are run against the models | | what they assert holds of the models |
| strings, stack dump, build scripts, profiling | none | | | |

Interactions: registration installs `garbage_collect`, which is the finalizer step of
the cache; proxied functions push results through the cache and change owner flags
of its userdata; `Table` and `Lua_function` hold references; every operation of C++
on the stack ends in push, pull and the error reporting.

`PROJECT.json` lists under `hazards` what in this code is hard to test, at its line,
with the properties that would notice.

## 2. Modules

| module | what it is | code |
|---|---|---|
| `Handles` | abstract: Lua sees each object through one handle | the promise of proxy_storage.h:322 |
| `PointerCache` | the cache, flags, collector and finalizers | proxy_storage.h/.cpp, push_pointer_internal.h, oolua_registration.h 156-262 |
| `PointerCacheProofs`, `OwnershipProofs` | proofs | |
| `Lifetime` | abstract: an object lives while it has an owner | what the ownership traits and shared pointers promise |
| `Ownership` | `PointerCache` composed with the memory of objects and with shared pointers | proxy_userdata.h, proxy_storage.h, oolua_registration.h, stack_get.h |
| `References` | abstract: a variable holds a Lua value or nothing | the promise of oolua_ref.h |
| `LuaRef` | `Lua_ref` and the reference in `Table` | oolua_ref.h, oolua_table.cpp |
| `LuaRefProofs` | proofs | |
| `LuaStack` | push, pull, `Lua_function`, chunks, `Table` and its traversals on one stack | oolua_push, oolua_pull, oolua_function, oolua_chunk, oolua_table |
| `Calls` | proxied functions, traits and ownership | proxy_member_function.h, oolua_traits.h, stack_get.h and others |
| `Types` | what templates decide from a C++ type and a trait | lvd_type_traits.h, oolua_traits.h and others |
| `Converters` | from a Lua value to a C++ parameter: reading, testing, converting | type_converters.h, stack_get.h, proxy_constructor_param_tester.h |
| `Results` | from a C++ value to Lua: push, returns, out parameters | oolua_push.h, proxy_stack_helper.h |
| `Constructors` | `new` and its overloads | proxy_constructor.h |
| `Members` | public members and operators | proxy_public_member.h, proxy_operators |
| `Declarations` | `Constructors`, returns and members of the type which is declared | the above, and proxy_caller.h |
| `DeclarationsProofs` | proofs | |
| `Registration` | method tables and the search through bases | oolua_registration.h, proxy_class.h |
| `RegistrationProofs` | proofs | |
| `LuaStackProofs`, `CallsProofs` | proofs | |
| `Induction` | induction and recursion over 0..n, for the proofs | |
| `Scripts` | what a step of a unit test is, and does | proxied functions and pulls, of any type |
| `ParameterTests`, `ReturnTests`, `TypeTests`, `ConstructorTests`, `ExchangeTests`, `MemberTests`, `SharedTests`, `StackTests`, `RefTests` | the unit tests, as data | unit_tests/ |
| `UnitTests` | runs them | |
| `MCPods`, `MCOwnership`, `MCSharedMember`, `MCPoly`, `MCRef`, `MCStack`, `MCCalls`, `MCConstruct`, `MCTests`, `MCRegistration` | instances for TLC | |

In each module definitions keep the names of the code. A definition whose comment
begins with *Mutant* is a plausible bug; it is never used by the specification.
`PROJECT.json` pairs each property with a mutant that violates it, and under `map`
each definition with the lines it stands for.

**PointerCache.** A typed pointer is a class and an address. `Cast`, `AllBases`,
`RootBases` and `AddrOf` are constants: the classes of a program and the layout the
compiler chose, restricted by `LayoutAssumption` to what C++ guarantees. `phase` is
the life of a userdata block: live, doomed (cleared by the collector, its `__gc` not
yet run), free. `weak` maps an address to nothing, a userdata, or a collision table.
`Push` is the whole of `push_pointer_which_has_a_proxy_class`: `Candidates` is
`find_ud` with the roots search, and then one of `AddPtr`, `Serve` (is_correct_ud)
and `ResetMetatable` (the upgrade of a userdata of a base). `Collect` is the atomic
phase of the collector, and `Finalize` is `__gc`. `Construct` requires addresses no
cached userdata has, which is what fresh memory is.

**Ownership.** Adds to it which objects exist, how often the C++ program owns each,
and the use count of those in shared pointers. Every action of `PointerCache` comes
in two: for raw pointers, where GC_FLAG says who deletes the object, and for shared
ones, where the userdata holds a pointer of its own (SHARED_FLAG) which an upgrade
replaces, a pull of a base copies, and `__gc` destroys. The program is taken to keep
the rules of the library, which the head of the module states: without them no code
could keep an object from being deleted twice. `cleanup_collision_tables` after a
shared pointer looks under addresses which are a nondeterministic choice
(`StrayKeys`), since the code reads them from the destroyed pointer's object.

**LuaRef.** `registry` is the array of `luaL_ref`, `inst` the pair `m_lua`, `m_ref`.
`Released` has the undefined outcome of `luaL_unref` through a dead coroutine as a
choice; so have `push` and `equal`, which are sets of outcomes, since both look at the
registry of a stored `lua_State` that may have been collected (oolua_ref.h:272, :331). `CloseUniverse`
requires what the tests say of a `Script`, that it outlives references to it
(lua_reference.cpp:347). `equal` is `operator ==`, which compares in
the universe of its left side. The two change nothing, so that they are no actions;
`UnitTests` compares them with what the tests observe.

**LuaStack.** A computation `c` has a stack, the stored error and how it goes: true,
false, throw, or lost (a panic, or undefined). Each operation composes primitives in
the order of the code, with its own relative or absolute indices, so that an early
return or an exception leaves exactly what the code leaves. Values are their types.
The index at which a table is written or read is counted from the top after the pushes
(`top(pair) - 2`, `absindex`), so that it is another slot when one of them pushed
nothing. `Keys` are what tables are given as keys and values, for each of the builds.
The bodies of traversals are given as what they leave on the stack: anything for an
array (`ipairs` restores the top), for pairs what the documentation of the loop asks
of a body. `SetGlobal` and `GetGlobal` are given the value of the name; a
`get_global` which fails leaves that value on the stack, as a failing pull does, and a
reference which is pulled from nil is left there though the call succeeds.

**Calls.** One action, `Call`, is a call from Lua of a function with a signature;
reading the arguments has three endings: refused, thrown by the function, returned.
`last` records what was read and returned. The bound function is external and does
what its traits promise; scripts are `Honest`: they give C++ only objects that Lua
owns, and none twice in a call. Such scripts are accepted without a check by the
code (stack_get.h:237), and `OwnedOnce` depends on it.

**Types, Converters, Results, Members.** A C++ type is a name and the declarators
after it; a partial specialisation or an overload is the declarators its pattern
has, and the most specialised which fits is chosen. What `Calls` has as nine kinds of
parameters is here every type under every trait. The C++ compiler is the external
part: which template it picks, and which conversions it allows. The readers and the
overloads of push are each chosen by conditions which exclude one another, as one
template is chosen of several: a `shared_ptr` to a char or to void, for instance, is no C
string and no light userdata.

**Constructors.** The state is a type which is being declared, a block of
constructors, the tags of the class, and the last call of `new`: so that the run walks
through all types, and all blocks of two constructors, with all arguments.
`Declarations` adds what else is decided of the type which is declared: what a function
returning it, or with an out parameter of it, gives Lua, and what a getter and a setter of
a member of it do.

**UnitTests.** The state is a test, the step which is next, the stack and what the
last step did. A step is a record which names the operation and has in `want` what
the test asserts afterwards; `Call`, `New`, `Push`, `Pull`, `Get`, `Set`, `Operate` and
others do to the stack what the models say. `UseStack` and `UseRef` are steps of
instances of `LuaStack` and `LuaRef`, so that tests of callers, errors, globals, tables
and references are behaviours of those specifications. A test whose assertion the models
contradict would be a violation of `TestsPass`: this is how the models of the
templates were compared with what the authors of the library observed of it.

**Registration.** `methods` is the method table of each class, `global` the class whose
method table is what the global of a name leads to (`NIL` for what cannot be indexed),
`registered` the metatables in the registry. `Search` is the metamethod `__index` of a
method table: it asks whatever the globals of the names of its bases lead to, which then
asks for its own bases in the same way. `ScriptAssigns` moves such a global to the table of
another class, to nothing, or back; so globals may be moved in a circle, and a search which
follows it ends with the C stack (`ERROR`). Scripts store values under names of `Added`, and
may take `new` away; other values under `new` are left out.

The build configuration is a variable `build` of `LuaStack` and `Calls` which never
changes: runtime checks, exceptions, and the stack trace handler. `include/oolua_config.h:101`
defines `OOLUA_RUNTIME_CHECKS_ENABLED` to 0, whatever the build asks for, against its
documentation; the runs take the documented configuration, in which checks are
enabled. Whether std::string is integral (`StringIsIntegral`), and which classes are made
in shared pointers (`SharedClasses`), are constants of `Types` and `Results`.

## 3. Runs

| run | instance | what it shows |
|---|---|---|
| `pods` | MCPods: the classes of pointer_cache_first_members.cpp, five pointers at two addresses, three userdata | soundness of the cache: `CacheSound`, `Registered`, `CollisionFlagged`, `NoLeakedTable`, `FoundIsSameObject`, and `Monotone` for steps |
| `ownership` | MCOwnership: a box kept by raw pointers with its first member at the same address, and an object in shared pointers to its class and to two bases; two userdata, `FairOwnershipSpec` | each object has one userdata (`OneUserdata`, the refinement of `Handles`), is destroyed by the last who owns it (`UseCountExact`, the refinement of `Lifetime`); liveness: `EmptyTableCleaned`, `LostIsDestroyed` |
| `shared_collision` | MCSharedMember: an object in a shared pointer and its first member | **violation**: their collision table stays in the weak table |
| `poly` | MCPoly: a base at an offset and none at the address of the class | **violation**: an upgraded userdata is not found under its own address |
| `ref` | MCRef: three variables, three states of two universes, four entries | `RefAllocated`, `RefOwnedOnce`, `NoLeak`, the refinement of `References` |
| `stack` | MCStack: all operations on stacks of up to two values, up to two parameters, tables of up to two entries; a build which stores errors with the trace handler, and one which throws, where keys and values of tables may be of another universe | nothing panics (`TypeOK`), the stack of the caller is kept (`CallerStackKept`), failures are reported (`FailureReported`) and lookups deliver (`SafeAtDelivers`) |
| `calls` | MCCalls: 13 signatures, two objects, every list of up to three arguments, two builds | arguments in order and typed, results in order, owners |
| `calls_partial` | a `cpp_in_p` parameter before another | **violation**: the refused call has taken the object over |
| `construct` | MCConstruct: 15 types with every declarator which may follow, every trait, blocks of two constructors, every kind of argument | the first fitting constructor is called (`FirstFittingConstructs`), what it and functions are passed is what was given (`Delivers`, `ConstantStaysConstant`, `TestedIsReadable`), what is returned is what was declared (`ReturnedAsDeclared`), and setters take what getters give |
| `return_const_ptr` | the same | **violation**: `lua_return` of a pointer which is itself constant gives Lua the address of a C++ variable to delete |
| `tests` | MCTests: 558 cases of the unit tests with the classes they use, each in a build which throws and in one which stores errors | `TestsPass` |
| `registration` | MCRegistration: four classes on three levels, one static name, two values, every assignment of tables to globals | registering never changes what is found (`RegisteringKeepsAnswers`), which is the nearest (`NearestWins`), no instance of an abstract class (`AbstractNotCreated`), and every function of a base (`FunctionsCopied`) |

*Why the bounds are enough.* Three userdata are the fewest with which a collision
table grows from a userdata to two and to three, and with which one is doomed while
another is pushed and a third shares the table. Two addresses are the object's own
and one offset; the roots are searched at the second. In `ownership`, two userdata
suffice to make and to empty a collision table, and to have a shared pointer in Lua
while another object comes and goes; `MaxUses = 2` gives the program a copy of a
shared pointer, and three classes give an upgrade of an upgrade. Three variables give
copies of copies, and two swapped while a third holds; one entry more than variables
makes `luaL_ref` choose, and reuse what was freed. Two stack slots leave the caller
something below what an operation takes, at index -2 of it; while it runs an operation
uses more (the bound is on what it leaves). Two parameters give one that fails after
one which did not; two entries make a traversal go round again after a body
(`MaxEntries`). Three arguments are self and two parameters, or one argument too many.
Two constructors are enough for one to hide another. Types end where the library
does: one pointer, and a reference to it (`CanDeclare`). Three levels with two bases
at the end have a base of a base, a second base, and a class derived from an
abstract one, the shapes the recursions of registration distinguish; four classes are
enough to move the global of a base to a class above, below or beside it. `MaxStack`,
`MaxParams`, `MaxResults`, `MaxEntries`, `MaxArgs`, `MaxCtors`, `MaxUses` and the sizes
of `Ud`, `Ref` and `Value` are all the bounds there are. Symmetry is used over
userdata, entries, variables, objects and values, never in a run with a liveness
property.

*Deadlock* is not checked: a program may stop, and with every userdata in use or
every stack full the bounds stop it. `tests` has it checked: no test gets stuck.

*Fairness* is assumed in `ownership` only. `WF` of the finalizer of each userdata:
Lua's collector calls `__gc` of each userdata it has cleared before its next cycle
(`GCTM`) and at `lua_close`. `WF` of the collection of each userdata which Lua does not
hold: cycles are driven by allocation, or `Script::gc`, and reach everything which
stays unreachable; a step of the program which pushes the object again disables it,
and then nothing is promised. Nothing is assumed of the program.

## 4. Proofs

All are `Spec => []Inv`, action properties or step simulation, for all values of the
constants within the named assumptions, which TLC also evaluates for each instance.

| module | theorems, and the properties they state |
|---|---|
| `PointerCacheProofs` | `TypeCorrect`, `CacheIsSound`, `PushFindsSameObject` (`FoundIsSameObject`), `TablesAreFlagged` (`CollisionFlagged`), `NoTableIsLeaked`, `LiveUserdataAreRegistered` (`Registered`), `HeldReferencesStayValid` (`Monotone`), `ObjectsHaveOneUserdata`, `CacheImplementsHandles` |
| `OwnershipProofs` | `OwnershipTypeCorrect`, `OwnedObjectsHaveOneUserdata`, `UseCountIsExact`, `SharedObjectsLiveWhileShared`, `OwnershipImplementsHandles`, `OwnershipImplementsLifetime` |
| `LuaRefProofs` | `ReferencesAreAllocated`, `ReferencesAreOwnedOnce`, `ReferencesAreReleased` ((`NoLeak`),  |
| `LuaStackProofs` | `NoOperationPanics` (`TypeOK`), `CallersStackIsKept`, `FailuresAreReported`, `LookupsDeliver` |
| `CallsProofs` | `ObjectsAreOwnedOnce`, `ObjectsAreOwned`, `ArgumentsAreInOrder`, `CallsReturnWhatIsProduced` |
| `RegistrationProofs` | `TypeCorrect`, `FunctionsAreCopied`, `RegisteringKeeps` (`RegisteringKeepsAnswers`), `AbstractIsNotCreated`, `NearestDefinitionWins` |
| `DeclarationsProofs` | `ConstructorsAreTriedInOrder` (`FirstFittingConstructs`), `ConstantInstancesStayConstant`, `WhatIsTestedCanBeRead`, `WhatIsPulledIsDelivered` (`Delivers`), `MembersAreTakenBack` (`SettersTakeBack`), `ResultsAreAsDeclared` |
| `Induction` | lemmas only |

What a theorem assumes of a program is a named predicate of the model, and stands in
the theorem as a hypothesis; the MC module of the run which checks the property
evaluates it for its instance.

**PointerCacheProofs.** `TypeCorrect` needs nothing more. `CacheIsSound`,
`TablesAreFlagged` and `NoTableIsLeaked` assume `NoAliasedBase`: no base sub-object
shares an address with another object of its class. Soundness is inductive only
together with the types and the flags: an upgrade keeps an entry sound because the
found userdata stood for a base of the pushed object, which the soundness of the entry
it was found in and `NoAliasedBase` give (lemma `CandidateIsCached` and those after
it). `PushFindsSameObject` also needs `NoAliasedClass` (two objects of one class do
not overlap), and `LiveUserdataAreRegistered` needs `LeadingBase` (a class with bases
has one at its own address). `poly` is the layout without `LeadingBase`.

`HeldReferencesStayValid` is an action property, by cases of a push:
what `find_ud` serves it keeps, what it upgrades becomes a derived view of the same
object. `ObjectsHaveOneUserdata` is inductive with the invariants above it, `Registered`
among them: were a second userdata made, the first would have been found. It needs
`OneAddress`, all sub-objects at the address of the object, and `SingleInheritance`, that
they form a chain. The second was found to be needed by the attempt to prove it without:
a class D with two empty bases B and C at its address satisfies `OneAddress`, and when
a B, a C and then the D of one object are pushed, the userdata of the B becomes one of D
while that of the C stays. TLC shows the behaviour in three pushes.
`CacheImplementsHandles` holds even then.

**OwnershipProofs.** The composition takes each step of the cache, so what is proved of
`PointerCache` holds of it. There are two inductive invariants.

`CountInv` is soundness of the cache together with `Counted`: that the userdata with a
shared pointer are those of objects the program keeps in shared pointers
(`SharedMatches`), that the control block counts what C++ and they have
(`UseCountExact`), and that an object lives while its count is not zero (`CountedLive`).
It needs `NoAliasedBase` and `NoAliasedClass` only, that objects do not overlap, and so
holds for multiple inheritance, where an object may have several userdata at a time.
Each step settles what one userdata stands for (a push, a pull of a base, a finalizer)
and the others stay, so that the set `OwningUd` of an object gains one, loses one, or is
the same, and its `Cardinality`, taken over a finite set, follows the count. From it
come `UseCountIsExact`, `OwnershipTypeCorrect` and `SharedObjectsLiveWhileShared`: an
object is destroyed with its last shared pointer, and no userdata, one with a pending
finalizer included, is left with a pointer to what is gone.

`OwnInv` adds to it that an object has one userdata (`OneInv`), and `Owned`: a userdata
which may delete a raw object is its only owner (`RawHasOneOwner`) and of a class through
which it may be deleted (`GcMayDelete`); an object lives exactly while it has an owner
(`AliveWhileOwned`); while a finalizer is pending which will delete an object, Lua has no
other userdata to hand it over through (`DoomedIsLast`). `Lifetime` is then simulated step
by step. The hypotheses are those of `ObjectsHaveOneUserdata`, and `DeletableIsChain`: the
classes through which an object may be deleted form a chain, without which Lua could be
made the owner of a raw pointer through two userdata.

**LuaRefProofs.** The invariant `Owned` is `TypeOK`, `RefAllocated` and
`RefOwnedOnce` together: that what is released was nobody else's needs the second,
that what is allocated is nobody's needs the first. One lemma for each way a variable
changes (`ReplaceOwned`, `StoreOwned`, `SwapOwned`, `CloseOwned`, `ConstructOwned`),
to which the operations reduce. `NoLeak` is inductive with it. `LuaRefImplementsReferences`
maps every step to one of `References` or to a stutter, by what each way does to `Held`.

**Induction.** The prover has no induction over a predicate. `RangeInduction` states it of
a set (what contains 0, and i with i - 1, contains `0..n`), and `RangeRecursion` that a
function may be defined from 0 upwards; both are proved from `WFMin` of the library. The
loops of the models are recursive functions on `0..n`, and these two give their loop
invariants, for any number of parameters, results, entries or bases.

**LuaStackProofs.** Every operation is a composition of primitives on a computation. One
lemma for each primitive says what it leaves of the stack below; one for each operation
(`...Fine`) that it ends `Fine`: not lost, the stack of its type, and what the
properties ask of it. `Pushing` is the invariant of the loop over parameters: those
pushed so far lie above what was there, or one has failed and was reported. `Rounds` is
that of a traversal: the table, and a key above it. The hypotheses are the boundaries
section 5 gives. `Sound` has the checks of the documented configuration on, no nil among
the keys of tables and, in the build which stores errors, none that pushes nothing; and
no reference of another type than its value, for which a call of the build which throws
returns false and leaves its handler, the function and the parameters where they are
(oolua_function.h:45). `Restorable` leaves out the failures of `lua_pcall` which the
library does not report (`Ordinary`), and asks moreover that a `Table` refers to a table
and that no `void*` is pulled. What a key or a value does that throws is proved:
`PushKey` and `PairType` say what is above the table when both are pushed, or was when the
exception passed.

**CallsProofs.** `ReadInv` is the invariant of reading the parameters: the arguments read
are those of the script in order, the rolling index is behind the last, and each object
taken over was taken once (`TakenOnce`). `PushInv` is that of pushing the results: they are
those produced, up to one which failed (`GivenOnce` of the objects Lua is to own).
`OwnedOnce` is inductive with the types for any signatures, for `Honest` scripts. `Owned` is
so for functions which take over their last argument only, `TakesLast`, and push tables
last, `TablesLast`: `calls_partial` is a function which does not. Arguments are typed when checks
are on; results are complete when moreover the build throws or no result is a table,
since without exceptions a table of another universe pushes nothing.

**RegistrationProofs.** `IInv` is `TypeOK` and `FunctionsCopied`. `MaxIsLast` proves
that the last writer of an entry exists, from `WFMin` of the library, and
`NativeOfExported` that an entry is one of a class which exports the name. That the
hierarchy has no cycle is a conjunct of `RegistrationAssumption`. A search follows
the globals, which scripts may have moved anywhere, so that no induction over the hierarchy
reaches it: `Search` counts how many tables are asked within one another, and what is
proved of it is by `RangeInduction` on that number. `SearchUnfolds` proves that the answers
for each number are a function, and that it satisfies the equation of the code.
`RegisteringKeeps`: a registered class finds only through globals of registered classes,
which registering does not touch, and neither does it touch their tables; that a second
registration makes nothing again is in it. `AbstractIsNotCreated` adds to `IInv` that no
entry `new` of an abstract class is a factory function (`NoFactories`); its hypothesis is
that scripts store no factory function elsewhere.

`TreeOfBases` has finitely many classes, each derived from its bases and theirs, from each
once; then a direct base has fewer bases than its class (`BaseHasFewerBases`), which is the
measure for `NearestDefinitionWins`: while the globals of its bases are their own, a class
with at most k bases finds its nearest entry with a count of k + 1 (`SearchFindsNearest`), and
what the bases find is put together by `NearestOfBases`, which needs that they have no base
in common. `new` is no name of a static, as in the code it is not searched for in the bases
of an abstract class.

**DeclarationsProofs.** `DeclaredInv` says that the type which is being declared is one of
twelve shapes of declarators (`Shapes`), whatever its base type and the classes of the
program: `Declarator` reaches no other. For each type trait (`remove_all_const`, `is_ref`,
...) a lemma states what it decides of each shape; which overload or specialisation is
taken is computed from that. The theorems then bring together templates which do not know
of one another: the trait, which chooses the type that is pulled, with the reader, which
checks constness (`ConstantInstancesStayConstant`); the tester, which sees the type with
its pointer stripped, with the reader (`WhatIsTestedCanBeRead`); the pulled type with the
partial ordering of the `Converter`s, of which it is proved that every one that fits does
the same and that a most specialised one exists (`WhatIsPulledIsDelivered`); getter with
setter; traits of a return with the helpers which make constant, copied and shared
instances (`ResultsAreAsDeclared`). What each excepts is named in the property: a
`light_p`, a number as a `char const*`, an `in_out_p`, which loses constness, a setter of a
`char*`; section 5 has them.
`ConstructorsAreTriedInOrder` is about blocks of any length of constructors of any
length: that arguments are read at a rolling index of which a `calling_lua_state` takes
none is proved by `RangeInduction` over the parameters, and that the first which fits is
taken over the block (`ConstructsInv`). Its hypothesis is `OverloadsTakeOneState`, since the
code counts one `calling_lua_state` per constructor. All rest on `TypesAssumption`: no
class has both a proxy and the name of a type Lua has values of its own for.

*Only model-checked:* `EmptyTableCleaned` and `LostIsDestroyed`, which are liveness under
fairness and out of the prover's reach. `TestsPass`: the tests are the finite data they
are, so that the run is complete, and a proof would be the same enumeration. The findings
are counterexamples.

## 5. Where code and documentation disagree

Four runs with expected violations show disagreements; `findings` in `PROJECT.json`
quotes the lines. Others were met while modelling. The models do what the code does;
where a property of a passing run would fail by one of them, its instance leaves the
case out: `stack` has no `"mem"` and `"gc"` among its failures, no `"mistyped"`
references, no `"light"` among the types pulled and, in the build which stores errors, no
reference of another universe as key or value of a table; `calls` returns such references
only in the build which throws, and reads no parameter after one which is taken over.
`NoAliasedBase` excludes that a member is of a class its object derives from, `NoLeak` is
stated for universes of which no state was collected, and a universe is closed when no
reference to it is left. The allocator, and the offset of the pointer it is given, are not
in `Ownership`.

*Pointer cache*

- proxy_storage.h:322 has the library store "the most derived type known": when two
  bases of an object were pushed before it, only one of the userdata is upgraded.
- A class whose first member is of one of its base classes: `is_correct_ud`
  (proxy_storage.h:189) compares types only, and a search for the member finds the
  whole. `NoAliasedBase` excludes this layout.
- A second `setup_user_lua_state` of one state replaces the weak table while userdata
  which are in the old one live (oolua_open.cpp:34): the objects get second userdata.
- Pulling a constant userdata from C++ as one which is not calls an error outside of
  any protected call.

*References and stack*

- A reference made in a coroutine which is then collected is released through the
  dead state (oolua_ref.h:307), though oolua_ref.h:69 has references kept valid by
  their universe: its entry is lost, or worse. `NoLeak` is stated for living states.
- oolua_ref.h:64 has a reference valid in its universe; `lua_push` (oolua_ref.h:343)
  goes by the `lua_State` and refuses the main state one made in a coroutine.
- oolua_table.h:138 has `safe_at` say whether it succeeded: in the build which stores
  errors it returns true for a value of another type (oolua_table.h:321).
- `LUA_ERRMEM` stores no error and leaves the message (oolua_check_result.cpp:39);
  `LUA_ERRGCMM` throws nothing in the build which throws.
- `push` and `==` of a reference ask the registry of the `lua_State` it was made in
  (oolua_ref.h:331, :272), and dereference it also when it was a coroutine which is gone.
- `Lua_ref::push` returns false, and reports nothing, for a value of another type. In
  the build which throws a call with such a parameter then returns false without
  `lua_settop` (oolua_function.h:45): the handler, the function and what was pushed stay.
- `Table::set`, `remove` and `table_set_value` with a key or a value which cannot be pushed
  write one slot below their table in the build which stores errors (oolua_table.h:240), or
  panic when that is no table, against oolua_table.h:169; an exception while pushing leaves
  the table, and a key, on the stack (oolua_table.h:235), against oolua_table.h:231.
- `pull` "pops" (oolua_stack_fwd.h:92); of a `void*`, and of nil into a reference, it
  does not (oolua_pull.cpp:103).
- `Table::traverse` pops the value itself (oolua_table.cpp:148), while its comment
  refers to the rule of `oolua_pairs` that the body pops it. `break` out of
  `oolua_pairs` leaves the key, since `oolua_pairs_end` pops one value; and no
  traversal grows the stack first.
- The comments of `table_set_value` and `table_at` say "pseudo" index; a negative
  index is moved by what was pushed above the table, so that a pseudo index such as
  `LUA_REGISTRYINDEX` becomes another. `table_at` leaves a value it could not pull.
- oolua_config.h:93 has runtime checks on by default: line 101 switches them off, and
  the tests which would notice (error_check.cpp:622) are not compiled then.
- `get_last_error` returns "" when the error value is no string (oolua_error.cpp:50),
  although oolua_config.h:68 has the last error retrievable.
- `copy_buffer` (oolua_exception.cpp:31) leaves the byte before the terminator
  uninitialised when a message is cut, or is exactly one shorter than the buffer; an
  `Exception` of an error value which is no string copies from a null pointer.

*Functions, constructors, members*

- A function which returns a reference of another universe pushes nothing, in the
  build which stores errors, while its number of results is a constant: Lua receives
  its own argument (proxy_caller.h:85).
- `luaL_error` jumps over destructors of parameters which hold references
  (stack_get.cpp:47), when Lua was compiled as C.
- An out parameter of a C function is pushed outside of any try block
  (proxy_none_member_function.h:62).
- `lua_Integer` is narrowed to the parameter's type without a check (stack_get.h:121).
- A number fits a constructor with a `char const*` parameter, since the tester strips
  the pointer (proxy_constructor_param_tester.h:74), against proxy_constructor.h:251;
  reading it then raises an error. `TestedIsReadable` has the case as an exception.
- A userdata with a shared pointer never fits a shared parameter of a constructor, and
  nil no reference; a constructor refuses a constant instance for a parameter by
  value which a function accepts.
- A constructor with two `calling_lua_state` parameters counts them as one, and would
  ignore an argument; one that throws, the default one too, leaves its memory allocated
  (proxy_constructor.h:190, :110).
- A generated getter is a constant function (dsl_va_args.h:277), yet pushes a pointer
  to a part of a constant object as one which may be changed (proxy_public_member.h:136).
  A setter of a member by value refuses a constant instance it would only copy. A
  getter of a `char*` gives a string, the setter wants a number.
- `in_out_p` of a constant type pulls, and pushes back, as one which is not;
  `in_out_p<enum&>` compiles and pulls a pointer; `int*const` has no `Converter` and
  `in_p<void*>` is ill-formed; `cpp_acquire_ptr` and `lua_acquire_ptr` lack the check
  that they are not given a reference to a constant; two levels of pointers are not
  supported.
- The test functionReturn_returnsRefToSharedObjectPullReturn (shared_pointer.cpp)
  calls `returnsSharedPtr`, and not the function its name is about.

*Registration*

- A function of a base replaces one of the same name which the derived class exports,
  since bases are registered after it (`Writers`), and one which a script has replaced
  in the base is not seen by the derived class, which has its copy.
- A search goes through the globals (oolua_registration.h:317): after `Base = Other` a class
  derived from Base finds the statics of Other; after `Base = nil` the search is
  an error, also for a name nobody has; and when globals lead in a circle, as after `Base =
  Derived`, it calls itself until the C stack of Lua is used up (oolua_registration.cpp:81).
- After `Class.new = nil` the search finds the factory function of a base, and
  `Class.new()` creates one of those; in the same way `set_owner` of a base is found
  for a class without a public destructor.

## 6. Not modelled

- The buffer of `Exception` and all text: messages are the kind of failure they are
  of. What the code does at the limit of the buffer is in section 5.
- A second set up of one `lua_State`, and opening a state beyond what the tables it
  makes are: `OOLUA::setup_user_lua_state` runs once, before anything else.
- Narrowing of numbers: a value is its type.
- Registration of enums and the fixed entries of metatables; they are written once
  and never read back by the library.
- What `luaL_error` does to the C++ objects of a frame, which depends on how Lua was
  compiled.
- The build without any error reporting (neither exceptions nor stored errors), and
  switches which only add assertions.
- Tests of functions written with `lua_CFunction`, of hierarchies and of statics are
  not run step by step by `UnitTests`; the properties of the models they are about
  quote them. Tests which push a reference that is not valid, and those
  which assert a function to return null, are left out as well.
- Generators of the headers, profiling, SWIG output and tools: not the library.

## 7. Plan

The modules of the plan are written, and every safety property and refinement which a
passing run checks is also proved, but for the unit tests, which are data. What is left is
in section 6, and of it, in the order of what it would add:

1. A second set up of one `lua_State`, as an action which replaces the weak table: `Registered`
   and `OneUserdata` would then hold only of what was pushed since.
2. Integers with a width, for the narrowing in `get` of stack_get.h.
3. The destructors which a `longjmp` skips, as an outcome of `Read` in `Calls` besides the
   refusal which is modelled, for references read as parameters.
