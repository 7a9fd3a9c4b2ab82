---------------------------- MODULE Registration ----------------------------
(***************************************************************************)
(* register_class and what a script finds under a name of a class or of an *)
(* instance.  A class has a table of methods, which is a global of the     *)
(* name of the class.  Functions of bases are copied into it when it is    *)
(* registered; what is added to bases later is searched for through the    *)
(* globals when the table has no entry of its own.  Scripts may assign to  *)
(* these globals.                                                          *)
(***************************************************************************)
EXTENDS Naturals, Sequences, SequencesExt, FiniteSets, FiniteSetsExt

CONSTANTS
  Class,
  Bases,       \* the direct bases of a class, in the order of OOLUA_PROXY
  Functions,   \* the names a class exports with OOLUA_EXPORT_FUNCTIONS
  ConstFunctions,
  Abstract,    \* the classes tagged Abstract or No_public_constructors
  Added,       \* the names under which statics are registered
  Value,       \* what scripts and the program store in class tables
  NIL, ERROR

\* Depth first, a base before its own bases (Register_base_methods).
BasesDepthFirst[c \in Class] ==
  FlattenSeq([i \in DOMAIN Bases[c] |-> <<Bases[c][i]>> \o BasesDepthFirst[Bases[c][i]]])

BasesOf(c) == Range(BasesDepthFirst[c])

Exported(c) == Functions[c] \cup ConstFunctions[c]

Name == Added \cup {"new"} \cup UNION {Exported(c) : c \in Class}

\* mem is called for an instance of self, with the function the class of exports.
Member(self, of, const) == [self |-> self, of |-> of, const |-> const]

\* The factory function of a class.
New(c) == [creates |-> c]

Factories == {New(c) : c \in Class}

Members == [self : Class, of : Class, const : BOOLEAN]

\* The proxy of a class derives from those of its bases, so the hierarchy has no
\* cycle, and is cast to each of them, so a class is no base twice.  The bases of a
\* base are bases.
ASSUME RegistrationAssumption ==
  /\ Bases \in [Class -> Seq(Class)]
  /\ BasesDepthFirst \in [Class -> Seq(Class)]
  /\ \A c \in Class : IsInjective(<<c>> \o BasesDepthFirst[c])
  /\ \A c \in Class : \A b \in BasesOf(c) : BasesOf(b) \subseteq BasesOf(c)
  /\ Abstract \subseteq Class
  /\ "new" \notin UNION {Exported(c) : c \in Class}
  /\ {NIL, ERROR} \cap (Value \cup Members \cup Factories) = {} /\ NIL # ERROR
  /\ NIL \notin Class

\* A class derives from its bases and from theirs, and from each once.
TreeOfBases ==
  /\ IsFiniteSet(Class)
  /\ \A c \in Class :
       BasesOf(c) = UNION {{Bases[c][i]} \cup BasesOf(Bases[c][i]) : i \in DOMAIN Bases[c]}
  /\ \A c \in Class : \A i, j \in DOMAIN Bases[c] :
       i # j => ({Bases[c][i]} \cup BasesOf(Bases[c][i]))
                  \cap ({Bases[c][j]} \cup BasesOf(Bases[c][j])) = {}

VARIABLES
  registered,  \* the classes with a metatable in the registry
  methods,     \* the entries of the method table of a class
  global       \* the class whose method table is the global of the name of a class

vars == <<registered, methods, global>>

-----------------------------------------------------------------------------
(* Registering                                                             *)

\* Mutant: only direct bases.
Writers_Direct(c) == <<c>> \o Bases[c]

\* The classes of which the functions are set in the table of c, one after the
\* other; those of a base replace functions of c which have the same name.
Writers(c) == <<c>> \o BasesDepthFirst[c]

\* The entries of a class which has just been registered.
Native(c) ==
  [n \in Name |->
     LET set == {i \in DOMAIN Writers(c) : n \in Exported(Writers(c)[i])}
     IN  IF set # {}
         THEN LET of == Writers(c)[Max(set)] IN Member(c, of, n \in ConstFunctions[of])
         ELSE IF n = "new" /\ c \notin Abstract THEN New(c) ELSE NIL]

\* Nothing is in the table of a class before it is registered.
Unregistered == [n \in Name |-> NIL]

Init ==
  /\ registered = {}
  /\ methods = [c \in Class |-> Unregistered]
  /\ global = [c \in Class |-> NIL]

\* Mutant: the entry of the registry is not looked at.
register_class_Again(c) ==
  LET new == {c} \cup BasesOf(c)
  IN  /\ registered' = registered \cup new
      /\ methods' = [d \in Class |-> IF d \in new THEN Native(d) ELSE methods[d]]
      /\ global' = [d \in Class |-> IF d \in new THEN d ELSE global[d]]

\* Mutant: bases get tables and no metatables.
register_class_Half(c) ==
  LET new == ({c} \cup BasesOf(c)) \ registered
  IN  /\ registered' = registered \cup {c}
      /\ methods' = [d \in Class |-> IF d \in new THEN Native(d) ELSE methods[d]]
      /\ global' = [d \in Class |-> IF d \in new THEN d ELSE global[d]]

\* The class and its bases; one which is registered is left as it is.
register_class(c) ==
  LET new == ({c} \cup BasesOf(c)) \ registered
  IN  /\ registered' = registered \cup new
      /\ methods' = [d \in Class |-> IF d \in new THEN Native(d) ELSE methods[d]]
      /\ global' = [d \in Class |-> IF d \in new THEN d ELSE global[d]]

\* Table(vm, class_name).set(n, v): the table is what the global of the name is.  When
\* that is no table it is the metatable, where nothing is looked for, or there is none.
register_class_static(c, n, v) ==
  /\ methods' = IF global[c] = NIL THEN methods ELSE [methods EXCEPT ![global[c]][n] = v]
  /\ UNCHANGED <<registered, global>>

\* Class.n = v, object.n = v and function Class:n(), also through the OOLua module.
ScriptSets(c, n, v) ==
  /\ c \in registered
  /\ methods' = [methods EXCEPT ![c][n] = v]
  /\ UNCHANGED <<registered, global>>

\* Class = nil, or another value which cannot be indexed, Class = Other, and Class =
\* OOLua.Class, which puts the table back.  A table of the script's own is like that
\* of a class which has no bases.
ScriptAssigns(c, t) ==
  /\ global' = [global EXCEPT ![c] = t]
  /\ UNCHANGED <<registered, methods>>

Next ==
  \E c \in Class :
    \/ register_class(c)
    \/ \E n \in Added, v \in Value : register_class_static(c, n, v)
    \/ \E n \in Added, v \in Value \cup {NIL} : ScriptSets(c, n, v)
    \/ ScriptSets(c, "new", NIL)
    \/ \E t \in registered \cup {NIL} : ScriptAssigns(c, t)

Spec == Init /\ [][Next]_vars

-----------------------------------------------------------------------------
(* What a script finds                                                     *)

\* The first of results which is none of those that are NIL.
FirstFound(results) ==
  LET found == {r \in {<<i, results[i]>> : i \in DOMAIN results} : r[2] # NIL}
  IN  IF found = {} THEN NIL
      ELSE (CHOOSE r \in found : \A q \in found : r[1] <= q[1])[2]

\* Mutant: new is searched for as any name.
Search_New(c, n) ==
  LET find[k \in 0..Cardinality(Class)] ==
        [d \in Class |->
           IF k = 0 THEN ERROR
           ELSE IF methods[d][n] # NIL THEN methods[d][n]
           ELSE FirstFound([i \in DOMAIN Bases[d] |->
                              IF global[Bases[d][i]] = NIL THEN ERROR
                              ELSE find[k - 1][global[Bases[d][i]]]])]
  IN  find[Cardinality(Class)][c]

\* Mutant: the bases are asked before the class.
Search_BasesFirst(c, n) ==
  LET find[k \in 0..Cardinality(Class)] ==
        [d \in Class |->
           IF k = 0 THEN ERROR
           ELSE FirstFound([i \in DOMAIN Bases[d] |->
                              IF global[Bases[d][i]] = NIL THEN ERROR
                              ELSE find[k - 1][global[Bases[d][i]]]]
                           \o <<methods[d][n]>>)]
  IN  find[Cardinality(Class)][c]

\* The entry of a table, or else search_in_base_classes: whatever table the global of
\* the name of each base is, is asked in the same way, and what cannot be indexed is
\* an error.  An abstract class does not search for new.  When more tables are asked
\* within one another than there are, one of them is asked within itself, which does
\* not end before the C stack of Lua does.
Search(c, n) ==
  LET find[k \in 0..Cardinality(Class)] ==
        [d \in Class |->
           IF k = 0 THEN ERROR
           ELSE IF methods[d][n] # NIL THEN methods[d][n]
           ELSE IF n = "new" /\ d \in Abstract THEN NIL
           ELSE FirstFound([i \in DOMAIN Bases[d] |->
                              IF global[Bases[d][i]] = NIL THEN ERROR
                              ELSE find[k - 1][global[Bases[d][i]]]])]
  IN  find[Cardinality(Class)][c]

-----------------------------------------------------------------------------
(* Properties *)

\* The variables have their types: only a registered class has entries, and its bases
\* are registered with it.
TypeOK ==
  /\ registered \subseteq Class /\ \A c \in registered : BasesOf(c) \subseteq registered
  /\ global \in [Class -> registered \cup {NIL}]
  /\ methods \in [Class -> [Name -> Members \cup Factories \cup Value \cup {NIL}]]
  /\ \A c \in Class \ registered : methods[c] = Unregistered

\* "safe to be called multiple times with a Lua universe" (oolua_registration.h:82):
\* registering a class, be it registered or not, changes nothing a registered class
\* finds, whatever a script or the program has put into the tables of the class and
\* its bases, and wherever the globals a search goes through have been moved to.
RegisteringKeepsAnswers ==
  [][~UNCHANGED vars /\ (\E c \in Class : register_class(c)) =>
       \A d \in registered, n \in Name : Search(d, n)' = Search(d, n)]_vars

\* "Calling a static function on a derived instance when the function was registered
\* with a base class" (change.log:167) finds it, however far up and whenever it was
\* added; a static of a class hides those of its bases, from the class and from all
\* which are derived from it
\* (staticFunction_addedToBaseOverriddenInDerived_callsDerivedVersion,
\* static_function.cpp:258), and nothing else is found.  So it is while the globals of
\* the bases are, or are again, what the library made them, whatever the globals of
\* other classes lead to.
NearestWins ==
  \A d \in registered, n \in Added :
    (\A b \in BasesOf(d) : global[b] = b) =>
      IF \E b \in {d} \cup BasesOf(d) : methods[b][n] # NIL
      THEN \E b \in {d} \cup BasesOf(d) :
             /\ methods[b][n] # NIL /\ Search(d, n) = methods[b][n]
             /\ \A x \in {d} \cup BasesOf(d) : b \in BasesOf(x) => methods[x][n] = NIL
      ELSE Search(d, n) = NIL

\* "the type will not be constructable from Lua" (proxy_tags.h:43), though it has
\* bases which are (change.log:24), wherever the globals of these lead.
AbstractNotCreated ==
  \A c \in registered \cap Abstract : Search(c, "new") \notin Factories

\* The functions of bases "are automatically made available for the derived class"
\* (oolua.dox:281), and in its own table, whatever became of globals: each is
\* dispatched on an instance of the class itself to a class which exports it.
FunctionsCopied ==
  \A d \in registered, b \in Class : b \in {d} \cup BasesOf(d) =>
    \A n \in Exported(b) \ Added :
      \E of \in {d} \cup BasesOf(d) :
        n \in Exported(of) /\ methods[d][n] = Member(d, of, n \in ConstFunctions[of])
=============================================================================
