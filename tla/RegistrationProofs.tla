------------------------- MODULE RegistrationProofs -------------------------
(***************************************************************************)
(* Registration for every class hierarchy: what is in the method tables.   *)
(***************************************************************************)
EXTENDS Registration, Induction, FiniteSetTheorems

\* Of a set of positions of a sequence one is the last.
LEMMA MaxIsLast ==
  ASSUME NEW n \in Nat, NEW S \in SUBSET (1..n), S # {}
  PROVE  Max(S) \in S /\ \A y \in S : y <= Max(S)
<1> DEFINE below == {n - y : y \in S}
<1>1. below \subseteq Nat /\ below # {}
  <2>1. \A y \in S : n - y \in Nat
    OBVIOUS
  <2> QED
    BY <2>1
<1>2. PICK x \in below : \A y \in below : ~(<<y, x>> \in OpToRel(<, Nat))
  BY <1>1, WFMin, NatLessThanWellFounded
<1>3. \A y \in below : x <= y
  <2>1. \A y, z \in Nat : y < z => <<y, z>> \in OpToRel(<, Nat)
    BY Zenon DEF OpToRel
  <2>2. \A y \in below : ~(y < x)
    <3> HIDE DEF below
    <3> QED
      BY <1>1, <1>2, <2>1, Zenon
  <2> QED
    BY <1>1, <2>2
<1>4. PICK z \in S : x = n - z
  BY DEF below
<1>5. \A y \in S : y <= z
  <2>1. \A y \in S : x <= n - y
    BY <1>3
  <2> QED
    BY <1>4, <2>1
<1> QED
  BY <1>5, Zenon DEF Max

-----------------------------------------------------------------------------
(* What Native gives a class which has just been registered.               *)

LEMMA BasesAreClasses ==
  ASSUME NEW c \in Class
  PROVE  BasesOf(c) \subseteq Class
  BY RegistrationAssumption DEF BasesOf, Range

\* A base of a base is a base.
LEMMA BasesAreTransitive ==
  ASSUME NEW d \in Class, NEW x \in BasesOf(d)
  PROVE  BasesOf(x) \subseteq BasesOf(d)
  BY RegistrationAssumption

\* The class comes first, and all its bases follow.
LEMMA WritersAreTheHierarchy ==
  ASSUME NEW c \in Class
  PROVE  /\ Writers(c) \in Seq(Class)
         /\ \A i \in DOMAIN Writers(c) : Writers(c)[i] \in {c} \cup BasesOf(c)
         /\ \A b \in {c} \cup BasesOf(c) : \E i \in DOMAIN Writers(c) : Writers(c)[i] = b
<1> DEFINE s == BasesDepthFirst[c]
<1>1. s \in Seq(Class) /\ BasesOf(c) = {s[i] : i \in DOMAIN s}
  BY RegistrationAssumption DEF BasesOf, Range
<1>2. Writers(c) = <<c>> \o s
  BY DEF Writers
<1> HIDE DEF s
<1>3. /\ Writers(c) \in Seq(Class) /\ Len(Writers(c)) = Len(s) + 1
      /\ Writers(c)[1] = c
      /\ \A i \in 1..Len(s) : Writers(c)[i + 1] = s[i]
  BY <1>1, <1>2
<1>4. ASSUME NEW i \in DOMAIN Writers(c) PROVE Writers(c)[i] \in {c} \cup BasesOf(c)
  <2>1. CASE i = 1
    BY <1>3, <2>1
  <2>2. CASE i # 1
    <3>1. i - 1 \in 1..Len(s) /\ i = (i - 1) + 1
      BY <1>1, <1>3, <2>2
    <3>2. Writers(c)[i] = s[i - 1] /\ i - 1 \in DOMAIN s
      BY <1>1, <1>3, <3>1
    <3> QED
      BY <1>1, <3>2
  <2> QED
    BY <2>1, <2>2
<1>5. ASSUME NEW b \in {c} \cup BasesOf(c)
      PROVE  \E i \in DOMAIN Writers(c) : Writers(c)[i] = b
  <2>1. CASE b = c
    BY <1>1, <1>3, <2>1
  <2>2. CASE b \in BasesOf(c)
    <3>1. PICK i \in DOMAIN s : b = s[i]
      BY <1>1, <2>2
    <3>2. i + 1 \in DOMAIN Writers(c) /\ Writers(c)[i + 1] = b
      BY <1>1, <1>3, <3>1
    <3> QED
      BY <3>2
  <2> QED
    BY <2>1, <2>2
<1> QED
  BY <1>3, <1>4, <1>5

\* A function which the class or a base exports has an entry, for one of those
\* which export it, on an instance of the class.
LEMMA NativeOfExported ==
  ASSUME NEW c \in Class, NEW n \in Name, NEW b \in {c} \cup BasesOf(c), n \in Exported(b)
  PROVE  \E of \in {c} \cup BasesOf(c) :
           n \in Exported(of) /\ Native(c)[n] = Member(c, of, n \in ConstFunctions[of])
<1> DEFINE set == {i \in DOMAIN Writers(c) : n \in Exported(Writers(c)[i])}
           of == Writers(c)[Max(set)]
<1>1. /\ Len(Writers(c)) \in Nat /\ DOMAIN Writers(c) = 1..Len(Writers(c))
  BY WritersAreTheHierarchy
<1>2. set # {}
  BY WritersAreTheHierarchy
<1>3. Max(set) \in set
  BY <1>1, <1>2, MaxIsLast
<1>4. of \in {c} \cup BasesOf(c) /\ n \in Exported(of)
  BY <1>3, WritersAreTheHierarchy
<1>5. Native(c)[n] = Member(c, of, n \in ConstFunctions[of])
  BY <1>2 DEF Native
<1> QED
  BY <1>4, <1>5

LEMMA NativeType ==
  ASSUME NEW c \in Class
  PROVE  Native(c) \in [Name -> Members \cup Factories \cup Value \cup {NIL}]
<1>1. ASSUME NEW n \in Name
      PROVE  Native(c)[n] \in Members \cup Factories \cup Value \cup {NIL}
  <2> DEFINE set == {i \in DOMAIN Writers(c) : n \in Exported(Writers(c)[i])}
             of == Writers(c)[Max(set)]
  <2>1. CASE set # {}
    <3>1. Len(Writers(c)) \in Nat /\ DOMAIN Writers(c) = 1..Len(Writers(c))
      BY WritersAreTheHierarchy
    <3>2. Max(set) \in set
      BY <2>1, <3>1, MaxIsLast
    <3>3. of \in Class
      BY <3>2, WritersAreTheHierarchy, BasesAreClasses
    <3>4. Member(c, of, n \in ConstFunctions[of]) \in Members
      BY <3>3 DEF Member, Members
    <3> QED
      BY <2>1, <3>4 DEF Native
  <2>2. CASE set = {}
    <3>1. New(c) \in Factories
      BY DEF Factories
    <3> QED
      BY <2>2, <3>1 DEF Native
  <2> QED
    BY <2>1, <2>2
<1>2. Native(c) = [n \in Name |-> Native(c)[n]]
  BY DEF Native
<1> QED
  BY <1>1, <1>2

-----------------------------------------------------------------------------
(* The invariant: the types, and the functions in the tables.              *)

IInv == TypeOK /\ FunctionsCopied

\* Setting one entry keeps the type of the tables, and all other entries.
LEMMA EntryType ==
  ASSUME TypeOK, NEW c \in Class, NEW n \in Name, NEW v \in Value \cup {NIL}
  PROVE  /\ [methods EXCEPT ![c][n] = v]
              \in [Class -> [Name -> Members \cup Factories \cup Value \cup {NIL}]]
         /\ \A d \in Class : d # c => [methods EXCEPT ![c][n] = v][d] = methods[d]
         /\ \A d \in Class, m \in Name :
              m # n => [methods EXCEPT ![c][n] = v][d][m] = methods[d][m]
  BY DEF TypeOK

LEMMA RegisterStep ==
  ASSUME IInv, NEW c \in Class, register_class(c)
  PROVE  IInv'
<1> DEFINE new == ({c} \cup BasesOf(c)) \ registered
<1>1. new \subseteq Class
  BY BasesAreClasses
<1>2. /\ registered' = registered \cup new
      /\ methods' = [d \in Class |-> IF d \in new THEN Native(d) ELSE methods[d]]
      /\ global' = [d \in Class |-> IF d \in new THEN d ELSE global[d]]
  BY DEF register_class
<1> HIDE DEF new
<1>3. TypeOK'
  <2>1. methods' \in [Class -> [Name -> Members \cup Factories \cup Value \cup {NIL}]]
    BY <1>2, NativeType DEF IInv, TypeOK
  <2>2. registered' \subseteq Class /\ global' \in [Class -> registered' \cup {NIL}]
    BY <1>1, <1>2 DEF IInv, TypeOK
  <2>3. \A d \in Class \ registered' : methods'[d] = Unregistered
    BY <1>2 DEF IInv, TypeOK
  <2>4. \A d \in registered' : BasesOf(d) \subseteq registered'
    <3>1. {c} \cup BasesOf(c) \subseteq registered'
      BY <1>2 DEF new
    <3>2. ASSUME NEW d \in {c} \cup BasesOf(c)
          PROVE  BasesOf(d) \subseteq registered'
      BY <3>1, BasesAreTransitive
    <3>3. ASSUME NEW d \in registered
          PROVE  BasesOf(d) \subseteq registered'
      BY <1>2 DEF IInv, TypeOK
    <3> QED
      BY <1>2, <3>2, <3>3 DEF new
  <2> QED
    BY <2>1, <2>2, <2>3, <2>4 DEF TypeOK
<1>4. FunctionsCopied'
  <2> SUFFICES ASSUME NEW d \in registered', NEW b \in Class, b \in {d} \cup BasesOf(d),
                      NEW n \in Exported(b) \ Added
               PROVE  \E of \in {d} \cup BasesOf(d) :
                        n \in Exported(of) /\ methods'[d][n] = Member(d, of, n \in ConstFunctions[of])
    BY DEF FunctionsCopied
  <2>1. d \in Class /\ n \in Name
    BY <1>3 DEF TypeOK, Name
  <2>2. CASE d \in new
    BY <1>2, <2>1, <2>2, NativeOfExported
  <2>3. CASE d \notin new
    <3>1. d \in registered /\ methods'[d] = methods[d]
      BY <1>2, <2>1, <2>3
    <3> QED
      BY <3>1 DEF IInv, FunctionsCopied
  <2> QED
    BY <2>2, <2>3
<1> QED
  BY <1>3, <1>4 DEF IInv

\* An entry under a name which is added, or under new, is no entry of a function.
LEMMA EntryStep ==
  ASSUME IInv, NEW c \in registered, NEW n \in Added \cup {"new"}, NEW v \in Value \cup {NIL},
         methods' = [methods EXCEPT ![c][n] = v], registered' = registered, global' = global
  PROVE  IInv'
<1>1. c \in Class /\ n \in Name
  BY DEF IInv, TypeOK, Name
<1>2. TypeOK'
  BY <1>1, EntryType DEF IInv, TypeOK
<1>3. ASSUME NEW d \in registered, NEW b \in Class, NEW m \in Exported(b) \ Added
      PROVE  methods'[d][m] = methods[d][m]
  <2>1. m \in Name /\ m # n
    BY RegistrationAssumption DEF Name
  <2> QED
    BY <1>1, <2>1, EntryType DEF IInv, TypeOK
<1>4. FunctionsCopied'
  BY <1>3 DEF IInv, FunctionsCopied
<1> QED
  BY <1>2, <1>4 DEF IInv

LEMMA InvariantStep ==
  ASSUME IInv, [Next]_vars
  PROVE  IInv'
<1>1. ASSUME NEW c \in Class, NEW n \in Added, NEW v \in Value, register_class_static(c, n, v)
      PROVE  IInv'
  <2>1. CASE global[c] # NIL
    <3>1. global[c] \in registered
      BY <2>1 DEF IInv, TypeOK
    <3> QED
      BY <1>1, <2>1, <3>1, EntryStep DEF register_class_static
  <2>2. CASE global[c] = NIL
    BY <1>1, <2>2 DEF register_class_static, IInv, TypeOK, FunctionsCopied
  <2> QED
    BY <2>1, <2>2
<1>2. ASSUME NEW c \in Class, NEW n \in Added \cup {"new"}, NEW v \in Value \cup {NIL},
             ScriptSets(c, n, v)
      PROVE  IInv'
  BY <1>2, EntryStep DEF ScriptSets
<1>3. ASSUME NEW c \in Class, NEW t \in registered \cup {NIL}, ScriptAssigns(c, t)
      PROVE  IInv'
  BY <1>3 DEF ScriptAssigns, IInv, TypeOK, FunctionsCopied
<1>4. CASE UNCHANGED vars
  BY <1>4 DEF vars, IInv, TypeOK, FunctionsCopied
<1> QED
  BY <1>1, <1>2, <1>3, <1>4, RegisterStep DEF Next

LEMMA Invariant == Spec => []IInv
<1>1. Init => IInv
  BY DEF Init, IInv, TypeOK, FunctionsCopied, Unregistered
<1>2. IInv /\ [Next]_vars => IInv'
  BY InvariantStep
<1> QED
  BY <1>1, <1>2, PTL DEF Spec

\* The tables of classes have their types, and those of unregistered classes are
\* empty.
THEOREM TypeCorrect == Spec => []TypeOK
<1>1. IInv => TypeOK
  BY DEF IInv
<1> QED
  BY <1>1, Invariant, PTL

\* In every hierarchy each function of a base is in the table of the class itself,
\* whatever is registered, added and assigned in whichever order.
THEOREM FunctionsAreCopied == Spec => []FunctionsCopied
<1>1. IInv => FunctionsCopied
  BY DEF IInv
<1> QED
  BY <1>1, Invariant, PTL

-----------------------------------------------------------------------------
(* The hierarchy: no class is a base of itself, and a direct base of a     *)
(* class has fewer bases than the class.                                   *)

LEMMA NoClassIsItsBase ==
  ASSUME NEW c \in Class
  PROVE  c \notin BasesOf(c)
<1> DEFINE s == BasesDepthFirst[c]
           w == <<c>> \o s
<1>1. s \in Seq(Class) /\ BasesOf(c) = {s[i] : i \in DOMAIN s}
  BY RegistrationAssumption DEF BasesOf, Range
<1>2. \A i, j \in DOMAIN w : w[i] = w[j] => i = j
  BY RegistrationAssumption DEF IsInjective
<1> HIDE DEF s
<1>3. SUFFICES ASSUME NEW i \in DOMAIN s, s[i] = c
               PROVE  FALSE
  BY <1>1
<1>4. i \in 1..Len(s) /\ 1 \in DOMAIN w /\ i + 1 \in DOMAIN w /\ w[1] = c /\ w[i + 1] = s[i] /\ i + 1 # 1
  BY <1>1
<1> QED
  BY <1>2, <1>3, <1>4

\* The direct bases of a class and theirs are its bases.
LEMMA BasesOfBases ==
  ASSUME TreeOfBases, NEW c \in Class, NEW i \in DOMAIN Bases[c]
  PROVE  /\ Bases[c][i] \in Class /\ Bases[c][i] \in BasesOf(c)
         /\ BasesOf(Bases[c][i]) \subseteq BasesOf(c)
<1>1. Bases[c][i] \in Class
  BY RegistrationAssumption
<1> QED
  BY <1>1 DEF TreeOfBases

LEMMA BaseHasFewerBases ==
  ASSUME TreeOfBases, NEW c \in Class, NEW i \in DOMAIN Bases[c]
  PROVE  Cardinality(BasesOf(Bases[c][i])) < Cardinality(BasesOf(c))
<1> DEFINE b == Bases[c][i]
<1>1. b \in Class /\ b \in BasesOf(c) /\ BasesOf(b) \subseteq BasesOf(c) /\ b \notin BasesOf(b)
  BY BasesOfBases, NoClassIsItsBase
<1>2. IsFiniteSet(BasesOf(c))
  BY BasesAreClasses, FS_Subset DEF TreeOfBases
<1> HIDE DEF b
<1>3. /\ Cardinality(BasesOf(b)) <= Cardinality(BasesOf(c))
      /\ Cardinality(BasesOf(c)) = Cardinality(BasesOf(b)) => BasesOf(c) = BasesOf(b)
      /\ IsFiniteSet(BasesOf(b))
  BY <1>1, <1>2, FS_Subset
<1>4. Cardinality(BasesOf(b)) \in Nat /\ Cardinality(BasesOf(c)) \in Nat
  BY <1>2, <1>3, FS_CardinalityType
<1>5. Cardinality(BasesOf(b)) < Cardinality(BasesOf(c))
  BY <1>1, <1>3, <1>4
<1> QED
  BY <1>5 DEF b

LEMMA NumberOfBases ==
  ASSUME TreeOfBases, NEW c \in Class
  PROVE  /\ Cardinality(Class) \in Nat /\ Cardinality(BasesOf(c)) \in Nat
         /\ Cardinality(BasesOf(c)) < Cardinality(Class)
<1>1. BasesOf(c) \subseteq Class /\ BasesOf(c) # Class
  BY BasesAreClasses, NoClassIsItsBase
<1>2. IsFiniteSet(Class)
  BY DEF TreeOfBases
<1>3. /\ IsFiniteSet(BasesOf(c)) /\ Cardinality(BasesOf(c)) <= Cardinality(Class)
      /\ Cardinality(BasesOf(c)) = Cardinality(Class) => BasesOf(c) = Class
  BY <1>1, <1>2, FS_Subset
<1>4. Cardinality(Class) \in Nat /\ Cardinality(BasesOf(c)) \in Nat
  BY <1>2, <1>3, FS_CardinalityType
<1> QED
  BY <1>1, <1>3, <1>4

-----------------------------------------------------------------------------
(* A search: f is what is found when tables may be nested to some depth,  *)
(* and Answer what is found when they may be to one more.                  *)

Asked(f, d) ==
  [i \in DOMAIN Bases[d] |->
     IF global[Bases[d][i]] = NIL THEN ERROR ELSE f[global[Bases[d][i]]]]

Answer(f, d, n) ==
  IF methods[d][n] # NIL THEN methods[d][n]
  ELSE IF n = "new" /\ d \in Abstract THEN NIL
  ELSE FirstFound(Asked(f, d))

Answers == Members \cup Factories \cup Value \cup {NIL, ERROR}

\* F[k] is what is found when k tables may be asked within one another.
Finds(F, n) ==
  /\ F \in [0..Cardinality(Class) -> [Class -> Answers]]
  /\ F[0] = [d \in Class |-> ERROR]
  /\ \A k \in 1..Cardinality(Class) : F[k] = [d \in Class |-> Answer(F[k - 1], d, n)]

\* Of a set of positions of a sequence one is the first.
LEMMA LeastOfRange ==
  ASSUME NEW n \in Nat, NEW S \in SUBSET (1..n), S # {}
  PROVE  \E m \in S : \A i \in S : m <= i
<1>1. S \subseteq Nat
  OBVIOUS
<1>2. PICK m \in S : \A i \in S : ~(<<i, m>> \in OpToRel(<, Nat))
  BY <1>1, WFMin, NatLessThanWellFounded
<1>3. \A y, z \in Nat : y < z => <<y, z>> \in OpToRel(<, Nat)
  BY Zenon DEF OpToRel
<1>4. \A i \in S : ~(i < m)
  BY <1>1, <1>2, <1>3, Zenon
<1> QED
  BY <1>1, <1>4

\* What is found first is one of the answers, and there is one when an answer is
\* not nil.
LEMMA FirstIsAnAnswer ==
  ASSUME NEW s, NEW k \in Nat, DOMAIN s = 1..k
  PROVE  /\ (\A i \in 1..k : s[i] = NIL) => FirstFound(s) = NIL
         /\ (\E i \in 1..k : s[i] # NIL) =>
              \E i \in 1..k : s[i] # NIL /\ FirstFound(s) = s[i]
<1> DEFINE found == {r \in {<<i, s[i]>> : i \in DOMAIN s} : r[2] # NIL}
           at == {i \in 1..k : s[i] # NIL}
<1>1. found = {<<i, s[i]>> : i \in at}
  OBVIOUS
<1>2. FirstFound(s) = IF found = {} THEN NIL
                      ELSE (CHOOSE r \in found : \A q \in found : r[1] <= q[1])[2]
  BY DEF FirstFound
<1> HIDE DEF found
<1>3. CASE at = {}
  BY <1>1, <1>2, <1>3
<1>4. CASE at # {}
  <2>1. PICK m \in at : \A i \in at : m <= i
    BY <1>4, LeastOfRange
  <2>2. \E r \in found : \A q \in found : r[1] <= q[1]
    <3>1. <<m, s[m]>> \in found /\ \A q \in found : \E i \in at : q = <<i, s[i]>>
      BY <1>1, <2>1
    <3>2. \A q \in found : <<m, s[m]>>[1] <= q[1]
      <4> SUFFICES ASSUME NEW q \in found
                   PROVE  m <= q[1]
        OBVIOUS
      <4>1. PICK i \in at : q = <<i, s[i]>>
        BY <3>1
      <4> QED
        BY <2>1, <4>1
    <3> QED
      BY <3>1, <3>2
  <2>3. PICK r \in found : FirstFound(s) = r[2]
    BY <1>2, <2>2
  <2> QED
    BY <1>1, <2>3
<1> QED
  BY <1>3, <1>4

LEMMA AskedType ==
  ASSUME NEW f, NEW d \in Class
  PROVE  \E k \in Nat : DOMAIN Bases[d] = 1..k /\ DOMAIN Asked(f, d) = 1..k
<1>1. Bases[d] \in Seq(Class)
  BY RegistrationAssumption
<1>2. Len(Bases[d]) \in Nat /\ DOMAIN Bases[d] = 1..Len(Bases[d])
  BY <1>1
<1> QED
  BY <1>2 DEF Asked

LEMMA AnswerType ==
  ASSUME TypeOK, NEW f \in [Class -> Answers], NEW d \in Class, NEW n \in Name
  PROVE  Answer(f, d, n) \in Answers
<1>1. methods[d][n] \in Answers
  BY DEF TypeOK, Answers
<1>2. FirstFound(Asked(f, d)) \in Answers
  <2>1. PICK k \in Nat : DOMAIN Bases[d] = 1..k /\ DOMAIN Asked(f, d) = 1..k
    BY AskedType
  <2>2. ASSUME NEW i \in 1..k
        PROVE  Asked(f, d)[i] \in Answers
    <3>1. Bases[d][i] \in Class
      BY <2>1, RegistrationAssumption
    <3>2. global[Bases[d][i]] \in Class \cup {NIL}
      BY <3>1 DEF TypeOK
    <3> QED
      BY <2>1, <3>2 DEF Asked, Answers
  <2> QED
    BY <2>1, <2>2, FirstIsAnAnswer DEF Answers
<1> QED
  BY <1>1, <1>2 DEF Answer, Answers

\* There are such answers, and they are what Search computes.
LEMMA SearchUnfolds ==
  ASSUME IsFiniteSet(Class)
  PROVE  TypeOK => \A n \in Name : \E F :
           Finds(F, n) /\ \A c \in Class : Search(c, n) = F[Cardinality(Class)][c]
<1> SUFFICES ASSUME TypeOK, NEW n \in Name
             PROVE  \E F : Finds(F, n) /\ \A c \in Class : Search(c, n) = F[Cardinality(Class)][c]
  OBVIOUS
<1> DEFINE N == Cardinality(Class)
           S == [Class -> Answers]
           start == [d \in Class |-> ERROR]
           next(f) == [d \in Class |-> Answer(f, d, n)]
           G == [x \in (1..N) \X S |-> next(x[2])]
<1>1. start \in S /\ \A f \in S : next(f) \in S
  BY AnswerType DEF Answers
<1>2. N \in Nat
  BY FS_CardinalityType
<1> HIDE DEF N, S, start, next
<1>3. G \in [(1..N) \X S -> S]
  BY <1>1
<1>4. PICK F \in [0..N -> S] : F[0] = start /\ \A k \in 1..N : F[k] = G[<<k, F[k - 1]>>]
  <2> HIDE DEF G
  <2>1. \E F : Unfolds(F, N, S, start, G)
    BY <1>1, <1>2, <1>3, RangeRecursion
  <2> QED
    BY <2>1 DEF Unfolds
<1>5. \A k \in 1..N : F[k] = next(F[k - 1])
  <2> SUFFICES ASSUME NEW k \in 1..N
               PROVE  F[k] = next(F[k - 1])
    OBVIOUS
  <2>1. k - 1 \in 0..N
    BY <1>2
  <2>2. F[k - 1] \in S
    BY <2>1
  <2> QED
    BY <1>4, <2>2
<1>6. Finds(F, n)
  BY <1>4, <1>5 DEF Finds, N, S, start, next
<1> DEFINE value(f, k, d) ==
             IF k = 0 THEN ERROR
             ELSE IF methods[d][n] # NIL THEN methods[d][n]
             ELSE IF n = "new" /\ d \in Abstract THEN NIL
             ELSE FirstFound([i \in DOMAIN Bases[d] |->
                                IF global[Bases[d][i]] = NIL THEN ERROR
                                ELSE f[k - 1][global[Bases[d][i]]]])
           find[k \in 0..N] == [d \in Class |-> value(find, k, d)]
<1>7. ASSUME NEW f, NEW k \in 1..N
      PROVE  [d \in Class |-> value(f, k, d)] = next(f[k - 1])
  <2>1. \A d \in Class : value(f, k, d) = Answer(f[k - 1], d, n)
    BY DEF Answer, Asked
  <2> HIDE DEF value
  <2> QED
    BY <2>1 DEF next
<1>8. ASSUME NEW f
      PROVE  [d \in Class |-> value(f, 0, d)] = start
  BY DEF start
<1>9. find = [k \in 0..N |-> [d \in Class |-> value(find, k, d)]]
  <2>1. \A k \in 0..N : F[k] = [d \in Class |-> value(F, k, d)]
    <3> SUFFICES ASSUME NEW k \in 0..N
                 PROVE  F[k] = [d \in Class |-> value(F, k, d)]
      OBVIOUS
    <3> HIDE DEF value
    <3>1. CASE k = 0
      BY <1>4, <1>8, <3>1
    <3>2. CASE k # 0
      <4>1. k \in 1..N
        BY <1>2, <3>2
      <4> QED
        BY <1>5, <1>7, <4>1
    <3> QED
      BY <3>1, <3>2
  <2>2. F = [k \in 0..N |-> [d \in Class |-> value(F, k, d)]]
    <3> HIDE DEF value
    <3> QED
      BY <1>4, <2>1
  <2> HIDE DEF value
  <2> QED
    BY <2>2 DEF find
<1>10. \A c \in Class : Search(c, n) = find[N][c]
  BY DEF Search, N
<1> HIDE DEF find, value
<1> DEFINE T == {k \in 0..N : find[k] = F[k]}
<1>11. 0..N \subseteq T
  <2>1. 0 \in T
    BY <1>2, <1>4, <1>8, <1>9
  <2>2. ASSUME NEW k \in 1..N, k - 1 \in T
        PROVE  k \in T
    <3>1. k \in 0..N
      BY <1>2
    <3>2. find[k] = next(find[k - 1])
      BY <1>7, <1>9, <3>1
    <3> QED
      BY <1>5, <2>2, <3>1, <3>2
  <2> HIDE DEF T
  <2> QED
    BY <1>2, <2>1, <2>2, RangeInduction
<1>12. find[N] = F[N]
  BY <1>2, <1>11
<1> QED
  BY <1>6, <1>10, <1>12 DEF N

LEMMA SearchUnfoldsNext ==
  ASSUME IsFiniteSet(Class)
  PROVE  (TypeOK => \A n \in Name : \E F :
            Finds(F, n) /\ \A c \in Class : Search(c, n) = F[Cardinality(Class)][c])'
  BY SearchUnfolds, PTL

-----------------------------------------------------------------------------
(* Registering changes no answers.                                         *)

\* The globals of the bases of a registered class, and the tables they lead to, are
\* of registered classes, and registering touches only others: at no depth does a
\* search ask anything which has changed.
LEMMA RegisteringStep ==
  ASSUME TreeOfBases, TypeOK, NEW c \in Class, register_class(c), NEW n \in Name,
         NEW F, NEW G, Finds(F, n), Finds(G, n)', NEW k \in 0..Cardinality(Class),
         NEW d \in registered
  PROVE  G[k][d] = F[k][d]
<1> DEFINE N == Cardinality(Class)
           T == {j \in 0..N : \A e \in registered : G[j][e] = F[j][e]}
<1>1. N \in Nat /\ registered \subseteq Class
  BY FS_CardinalityType DEF TreeOfBases, TypeOK
<1>2. \A e \in registered : methods'[e] = methods[e] /\ global'[e] = global[e]
  BY DEF register_class, TypeOK
<1>3. 0 \in T
  BY <1>1 DEF Finds
<1>4. ASSUME NEW j \in 1..N, j - 1 \in T
      PROVE  j \in T
  <2> SUFFICES ASSUME NEW e \in registered
               PROVE  G[j][e] = F[j][e]
    BY <1>1
  <2>1. F[j][e] = Answer(F[j - 1], e, n)
    BY <1>1, ZenonT(60) DEF Finds
  <2>2. G[j][e] =
          IF methods'[e][n] # NIL THEN methods'[e][n]
          ELSE IF n = "new" /\ e \in Abstract THEN NIL
          ELSE FirstFound([i \in DOMAIN Bases[e] |->
                 IF global'[Bases[e][i]] = NIL THEN ERROR ELSE G[j - 1][global'[Bases[e][i]]]])
    <3>1. G[j] = [x \in Class |->
            IF methods'[x][n] # NIL THEN methods'[x][n]
            ELSE IF n = "new" /\ x \in Abstract THEN NIL
            ELSE FirstFound([i \in DOMAIN Bases[x] |->
                   IF global'[Bases[x][i]] = NIL THEN ERROR ELSE G[j - 1][global'[Bases[x][i]]]])]
      BY DEF Finds, Answer, Asked
    <3> QED
      BY <1>1, <3>1
  <2>3. \A i \in DOMAIN Bases[e] :
          /\ global'[Bases[e][i]] = global[Bases[e][i]]
          /\ global[Bases[e][i]] # NIL => G[j - 1][global[Bases[e][i]]] = F[j - 1][global[Bases[e][i]]]
    <3> SUFFICES ASSUME NEW i \in DOMAIN Bases[e]
                 PROVE  /\ global'[Bases[e][i]] = global[Bases[e][i]]
                        /\ global[Bases[e][i]] # NIL =>
                             G[j - 1][global[Bases[e][i]]] = F[j - 1][global[Bases[e][i]]]
      OBVIOUS
    <3> DEFINE b == Bases[e][i]
    <3>1. b \in registered
      BY <1>1, BasesOfBases DEF TypeOK
    <3> HIDE DEF b
    <3>2. global'[b] = global[b] /\ global[b] \in registered \cup {NIL}
      BY <1>1, <1>2, <3>1 DEF TypeOK
    <3> QED
      BY <1>4, <3>2 DEF b
  <2>4. [i \in DOMAIN Bases[e] |->
           IF global'[Bases[e][i]] = NIL THEN ERROR ELSE G[j - 1][global'[Bases[e][i]]]]
        = Asked(F[j - 1], e)
    BY <2>3 DEF Asked
  <2>5. methods'[e][n] = methods[e][n]
    BY <1>2
  <2> QED
    BY <2>1, <2>2, <2>4, <2>5 DEF Answer, Asked
<1>5. 0..N \subseteq T
  <2> HIDE DEF T, N
  <2> QED
    BY <1>1, <1>3, <1>4, RangeInduction
<1> QED
  BY <1>5

\* In every hierarchy, registering a class, a second time or after one which is
\* derived from it as well, leaves what each registered class finds under any name as
\* it was, whatever has been added to tables and wherever globals lead.
THEOREM RegisteringKeeps ==
  ASSUME TreeOfBases
  PROVE  Spec => RegisteringKeepsAnswers
<1> DEFINE Kept == ~UNCHANGED vars /\ (\E c \in Class : register_class(c)) =>
                     \A d \in registered, n \in Name : Search(d, n)' = Search(d, n)
<1>1. ASSUME TypeOK, TypeOK', NEW c \in Class, register_class(c),
             NEW d \in registered, NEW n \in Name
      PROVE  Search(d, n)' = Search(d, n)
  <2>1. IsFiniteSet(Class) /\ d \in Class /\ Cardinality(Class) \in 0..Cardinality(Class)
    BY <1>1, FS_CardinalityType DEF TreeOfBases, TypeOK
  <2>2. PICK F : Finds(F, n) /\ \A x \in Class : Search(x, n) = F[Cardinality(Class)][x]
    BY <1>1, <2>1, SearchUnfolds
  <2>3. PICK G : Finds(G, n)' /\ \A x \in Class : Search(x, n)' = G[Cardinality(Class)][x]
    BY <1>1, <2>1, SearchUnfoldsNext
  <2>4. G[Cardinality(Class)][d] = F[Cardinality(Class)][d]
    BY <1>1, <2>1, <2>2, <2>3, RegisteringStep
  <2> QED
    BY <2>1, <2>2, <2>3, <2>4
<1>2. TypeOK /\ TypeOK' /\ [Next]_vars => [Kept]_vars
  BY <1>1
<1> QED
  BY <1>2, TypeCorrect, PTL DEF Spec, RegisteringKeepsAnswers

-----------------------------------------------------------------------------
(* Abstract classes cannot be created.                                     *)

NoFactories == \A c \in Abstract : methods[c]["new"] \notin Factories

LEMMA NativeOfAbstract ==
  ASSUME NEW c \in Abstract
  PROVE  Native(c)["new"] = NIL
<1> DEFINE set == {i \in DOMAIN Writers(c) : "new" \in Exported(Writers(c)[i])}
<1>1. c \in Class /\ "new" \in Name
  BY RegistrationAssumption DEF Name
<1>2. set = {}
  BY <1>1, WritersAreTheHierarchy, BasesAreClasses, RegistrationAssumption
<1> QED
  BY <1>1, <1>2 DEF Native

LEMMA NoFactoriesStep ==
  ASSUME Value \cap Factories = {}, IInv, NoFactories, [Next]_vars
  PROVE  NoFactories'
<1>1. /\ NIL \notin Factories
      /\ \A v \in Value \cup {NIL} : v \notin Factories
      /\ Abstract \subseteq Class /\ "new" \in Name
  BY RegistrationAssumption DEF Name
<1>2. ASSUME NEW c \in Class, register_class(c)
      PROVE  NoFactories'
  <2>1. \A d \in Abstract : methods'[d] = Native(d) \/ methods'[d] = methods[d]
    BY <1>1, <1>2 DEF register_class
  <2> QED
    BY <1>1, <2>1, NativeOfAbstract DEF NoFactories
<1>3. ASSUME NEW c \in Class, NEW n \in Name, NEW v \in Value \cup {NIL},
             methods' = [methods EXCEPT ![c][n] = v]
      PROVE  NoFactories'
  <2>1. \A d \in Abstract : methods'[d]["new"] = v \/ methods'[d]["new"] = methods[d]["new"]
    BY <1>1, <1>3 DEF IInv, TypeOK
  <2> QED
    BY <1>1, <2>1 DEF NoFactories
<1>4. ASSUME methods' = methods
      PROVE  NoFactories'
  BY <1>4 DEF NoFactories
<1>5. Added \subseteq Name
  BY DEF Name
<1>6. ASSUME NEW c \in Class, NEW n \in Added, NEW v \in Value, register_class_static(c, n, v)
      PROVE  NoFactories'
  <2>1. CASE global[c] = NIL
    BY <1>4, <1>6, <2>1 DEF register_class_static
  <2>2. CASE global[c] # NIL
    <3>1. global[c] \in Class /\ methods' = [methods EXCEPT ![global[c]][n] = v]
      BY <1>6, <2>2 DEF register_class_static, IInv, TypeOK
    <3> QED
      BY <1>3, <1>5, <3>1
  <2> QED
    BY <2>1, <2>2
<1>7. ASSUME NEW c \in Class, NEW n \in Added \cup {"new"}, NEW v \in Value \cup {NIL},
             ScriptSets(c, n, v)
      PROVE  NoFactories'
  BY <1>1, <1>3, <1>5, <1>7 DEF ScriptSets
<1>8. ASSUME NEW c \in Class, NEW t \in registered \cup {NIL}, ScriptAssigns(c, t)
      PROVE  NoFactories'
  BY <1>4, <1>8 DEF ScriptAssigns
<1>9. CASE UNCHANGED vars
  BY <1>4, <1>9 DEF vars
<1> QED
  BY <1>2, <1>6, <1>7, <1>8, <1>9 DEF Next

\* Whatever is registered, added and assigned, and whatever its bases are, nothing
\* creates an instance under the name new of an abstract class, as long as nobody
\* stores the factory of another class there.
THEOREM AbstractIsNotCreated ==
  ASSUME TreeOfBases, Value \cap Factories = {}
  PROVE  Spec => []AbstractNotCreated
<1>1. Init => NoFactories
  BY RegistrationAssumption DEF Init, NoFactories, Unregistered, Name
<1>2. IInv /\ NoFactories /\ [Next]_vars => NoFactories'
  BY NoFactoriesStep
<1>3. IInv /\ NoFactories => AbstractNotCreated
  <2> SUFFICES ASSUME IInv, NoFactories, NEW c \in registered \cap Abstract
               PROVE  Search(c, "new") \notin Factories
    BY DEF AbstractNotCreated
  <2>1. c \in Class /\ "new" \in Name /\ TypeOK /\ NIL \notin Factories
    BY RegistrationAssumption DEF IInv, Name
  <2>2. Cardinality(Class) \in 1..Cardinality(Class) /\ IsFiniteSet(Class)
    BY <2>1, NumberOfBases, SMTT(60) DEF TreeOfBases
  <2>3. PICK F : Finds(F, "new") /\ Search(c, "new") = F[Cardinality(Class)][c]
    BY <2>1, <2>2, SearchUnfolds
  <2>4. Search(c, "new") = Answer(F[Cardinality(Class) - 1], c, "new")
    BY <2>1, <2>2, <2>3 DEF Finds
  <2> QED
    BY <2>1, <2>4 DEF Answer, NoFactories
<1> QED
  BY <1>1, <1>2, <1>3, Invariant, PTL DEF Spec

-----------------------------------------------------------------------------
(* What is nearest is found.                                               *)

\* r is the nearest entry n of d and its bases, or nil when there is none.
Nearest(r, d, n) ==
  IF \E b \in {d} \cup BasesOf(d) : methods[b][n] # NIL
  THEN \E b \in {d} \cup BasesOf(d) :
         /\ methods[b][n] # NIL /\ r = methods[b][n]
         /\ \A x \in {d} \cup BasesOf(d) : b \in BasesOf(x) => methods[x][n] = NIL
  ELSE r = NIL

\* When the answers of the direct bases are the nearest entries, so is that of the
\* class: no base of one of them is a base of another.
LEMMA NearestOfBases ==
  ASSUME TreeOfBases, NEW n \in Name, n # "new", NEW f, NEW d \in Class,
         \A i \in DOMAIN Bases[d] :
           /\ global[Bases[d][i]] = Bases[d][i]
           /\ Nearest(f[Bases[d][i]], Bases[d][i], n)
  PROVE  Nearest(Answer(f, d, n), d, n)
<1> DEFINE Has(e) == \E b \in {e} \cup BasesOf(e) : methods[b][n] # NIL
           r == Answer(f, d, n)
<1>1. r = IF methods[d][n] # NIL THEN methods[d][n] ELSE FirstFound(Asked(f, d))
  BY DEF Answer
<1> HIDE DEF r
<1>2. CASE methods[d][n] # NIL
  <2>1. \A x \in {d} \cup BasesOf(d) : d \notin BasesOf(x)
    BY NoClassIsItsBase, BasesAreTransitive
  <2> QED
    BY <1>1, <1>2, <2>1 DEF Nearest, r
<1>3. CASE methods[d][n] = NIL
  <2> DEFINE sub(m) == {Bases[d][m]} \cup BasesOf(Bases[d][m])
  <2>1. PICK k \in Nat : DOMAIN Bases[d] = 1..k /\ DOMAIN Asked(f, d) = 1..k
    BY AskedType
  <2>2. \A i \in 1..k : Bases[d][i] \in Class /\ Asked(f, d)[i] = f[Bases[d][i]]
    <3> SUFFICES ASSUME NEW i \in 1..k
                 PROVE  Bases[d][i] \in Class /\ Asked(f, d)[i] = f[Bases[d][i]]
      OBVIOUS
    <3>1. i \in DOMAIN Bases[d] /\ global[Bases[d][i]] = Bases[d][i]
      BY <2>1
    <3>2. Bases[d][i] \in Class
      BY <3>1, BasesOfBases
    <3>3. Bases[d][i] # NIL
      BY <3>2, RegistrationAssumption
    <3> QED
      BY <3>1, <3>2, <3>3, Zenon DEF Asked
  <2>3. BasesOf(d) = UNION {sub(i) : i \in 1..k}
    BY <2>1 DEF TreeOfBases
  <2>4. \A i, j \in 1..k : i # j => sub(i) \cap sub(j) = {}
    BY <2>1 DEF TreeOfBases
  <2>5. \A i \in 1..k : Nearest(f[Bases[d][i]], Bases[d][i], n)
    BY <2>1
  <2>6. CASE ~Has(d)
    <3>1. \A i \in 1..k : Asked(f, d)[i] = NIL
      <4> SUFFICES ASSUME NEW i \in 1..k
                   PROVE  Asked(f, d)[i] = NIL
        OBVIOUS
      <4>1. ~Has(Bases[d][i])
        BY <2>3, <2>6
      <4> QED
        BY <2>2, <2>5, <4>1 DEF Nearest
    <3>2. r = NIL
      BY <1>1, <1>3, <2>1, <3>1, FirstIsAnAnswer
    <3> QED
      BY <2>6, <3>2 DEF Nearest, r
  <2>7. CASE Has(d)
    <3>1. PICK j \in 1..k : Has(Bases[d][j])
      BY <1>3, <2>3, <2>7
    <3>2. Asked(f, d)[j] # NIL
      BY <2>2, <2>5, <3>1 DEF Nearest
    <3>3. PICK i \in 1..k : Asked(f, d)[i] # NIL /\ FirstFound(Asked(f, d)) = Asked(f, d)[i]
      BY <2>1, <3>2, FirstIsAnAnswer
    <3>4. r = f[Bases[d][i]] /\ f[Bases[d][i]] # NIL
      BY <1>1, <1>3, <2>2, <3>3
    <3>5. PICK b \in sub(i) :
             /\ methods[b][n] # NIL /\ f[Bases[d][i]] = methods[b][n]
             /\ \A x \in sub(i) : b \in BasesOf(x) => methods[x][n] = NIL
      BY <2>5, <3>4 DEF Nearest
    <3>6. b \in BasesOf(d)
      BY <2>3
    <3>7. ASSUME NEW x \in {d} \cup BasesOf(d), b \in BasesOf(x)
          PROVE  methods[x][n] = NIL
      <4>1. CASE x = d
        BY <1>3, <4>1
      <4>2. CASE x # d
        <5>1. PICK m \in 1..k : x \in sub(m)
          BY <2>3, <3>7, <4>2
        <5>2. b \in sub(m)
          BY <2>2, <3>7, <5>1, BasesAreTransitive
        <5>3. m = i
          BY <2>4, <5>2
        <5> QED
          BY <3>5, <3>7, <5>1, <5>3
      <4> QED
        BY <4>1, <4>2
    <3> QED
      BY <2>7, <3>4, <3>5, <3>6, <3>7 DEF Nearest, r
  <2> QED
    BY <2>6, <2>7
<1> QED
  BY <1>2, <1>3

\* A class with less than k bases is answered when k tables may be nested.
LEMMA SearchFindsNearest ==
  ASSUME TreeOfBases, NEW n \in Name, n # "new", NEW F, Finds(F, n),
         NEW c \in Class, \A b \in BasesOf(c) : global[b] = b
  PROVE  Nearest(F[Cardinality(Class)][c], c, n)
<1> DEFINE N == Cardinality(Class)
           rank(d) == Cardinality(BasesOf(d))
           Placed(d) == \A b \in BasesOf(d) : global[b] = b
           K == {k \in 0..N : \A d \in Class :
                   rank(d) < k /\ Placed(d) => Nearest(F[k][d], d, n)}
<1>1. N \in Nat /\ \A d \in Class : rank(d) \in Nat /\ rank(d) < N
  BY NumberOfBases
<1>2. \A d \in Class : \A i \in DOMAIN Bases[d] :
        /\ Bases[d][i] \in Class /\ rank(Bases[d][i]) < rank(d)
        /\ Placed(d) => global[Bases[d][i]] = Bases[d][i] /\ Placed(Bases[d][i])
  BY BaseHasFewerBases, BasesOfBases
<1>3. \A k \in 1..N : \A d \in Class : F[k][d] = Answer(F[k - 1], d, n)
  BY ZenonT(60) DEF Finds
<1> HIDE DEF N, rank, Placed
<1>4. 0 \in K
  BY <1>1
<1>5. ASSUME NEW k \in 1..N, k - 1 \in K
      PROVE  k \in K
  <2> SUFFICES ASSUME NEW d \in Class, rank(d) < k, Placed(d)
               PROVE  Nearest(F[k][d], d, n)
    BY <1>1
  <2>1. ASSUME NEW i \in DOMAIN Bases[d]
        PROVE  /\ global[Bases[d][i]] = Bases[d][i]
               /\ Nearest(F[k - 1][Bases[d][i]], Bases[d][i], n)
    <3> DEFINE e == Bases[d][i]
    <3>1. e \in Class /\ rank(e) < rank(d) /\ global[e] = e /\ Placed(e)
      BY <1>2
    <3> HIDE DEF e
    <3>2. rank(e) < k - 1
      BY <1>1, <3>1
    <3> QED
      BY <1>5, <3>1, <3>2 DEF e
  <2>2. Nearest(Answer(F[k - 1], d, n), d, n)
    BY <2>1, NearestOfBases
  <2> QED
    BY <1>3, <2>2
<1>6. 0..N \subseteq K
  <2> HIDE DEF K
  <2> QED
    BY <1>1, <1>4, <1>5, RangeInduction
<1>7. N \in K /\ rank(c) < N /\ Placed(c)
  BY <1>1, <1>6 DEF Placed
<1> QED
  BY <1>7 DEF N

\* In every hierarchy of finitely many classes, the name of a static leads to the
\* nearest entry of the class and its bases, however far up it is and whenever it
\* was added, and to nothing when there is none, while the globals of the bases are
\* what the library made them and those of all other classes may be anything.
THEOREM NearestDefinitionWins ==
  ASSUME TreeOfBases, "new" \notin Added
  PROVE  Spec => []NearestWins
<1>1. TypeOK => NearestWins
  <2> SUFFICES ASSUME TypeOK, NEW d \in registered, NEW n \in Added,
                      \A b \in BasesOf(d) : global[b] = b
               PROVE  Nearest(Search(d, n), d, n)
    BY Zenon DEF NearestWins, Nearest
  <2>1. d \in Class /\ n \in Name /\ n # "new" /\ IsFiniteSet(Class)
    BY DEF TypeOK, Name, TreeOfBases
  <2>2. PICK F : Finds(F, n) /\ Search(d, n) = F[Cardinality(Class)][d]
    BY <2>1, SearchUnfolds
  <2>3. Nearest(F[Cardinality(Class)][d], d, n)
    BY <2>1, <2>2, SearchFindsNearest
  <2> QED
    BY <2>2, <2>3
<1> QED
  BY <1>1, TypeCorrect, PTL
=============================================================================
