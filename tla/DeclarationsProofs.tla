------------------------- MODULE DeclarationsProofs -------------------------
(***************************************************************************)
(* Theorems about declared types: whatever classes are proxied, whatever a *)
(* program declares and scripts pass, what the templates decide of a type  *)
(* one by one fits together, and the constructor which is called is the    *)
(* first one that takes the arguments.                                     *)
(***************************************************************************)
EXTENDS Declarations, Induction, FiniteSetTheorems, SequenceTheorems

-----------------------------------------------------------------------------
(* Short sequences.                                                        *)

\* A sequence whose elements are the first ones of another is its front.
LEMMA FrontIs ==
  ASSUME NEW S, NEW s \in Seq(S), NEW t \in Seq(S),
         Len(t) <= Len(s), \A i \in 1 .. Len(t) : t[i] = s[i]
  PROVE  SubSeq(s, 1, Len(t)) = t
<1> DEFINE n == Len(t)
<1>1. \A i \in 1 .. n : s[i] \in S
  OBVIOUS
<1>2. /\ SubSeq(s, 1, n) \in Seq(S)
      /\ Len(SubSeq(s, 1, n)) = n
      /\ \A i \in 1 .. n : SubSeq(s, 1, n)[i] = s[i]
  BY <1>1, SubSeqProperties, 1 \in Int, n \in Int
<1> QED
  BY <1>2, SeqEqual

LEMMA FrontsOf1 ==
  ASSUME NEW S, NEW a \in S
  PROVE  /\ SubSeq(<<a>>, 1, 0) = <<>>
         /\ SubSeq(<<a>>, 1, 1) = <<a>>
<1> DEFINE s == <<a>>
           Begins(t) == Len(t) <= 1 /\ \A i \in 1 .. Len(t) : t[i] = s[i]
<1>1. /\ <<>> \in Seq(S)
      /\ <<a>> \in Seq(S)
  OBVIOUS
<1>2. Begins(<<>>) /\ Begins(<<a>>)
  OBVIOUS
<1>3. /\ Len(<<>>) = 0
      /\ Len(<<a>>) = 1
  OBVIOUS
<1>4. \A t \in Seq(S) : Begins(t) => SubSeq(s, 1, Len(t)) = t
  BY <1>1, <1>3, FrontIs
<1> HIDE DEF s, Begins
<1> QED
  BY <1>1, <1>2, <1>3, <1>4 DEF s

LEMMA FrontsOf2 ==
  ASSUME NEW S, NEW a \in S, NEW b \in S
  PROVE  /\ SubSeq(<<a, b>>, 1, 0) = <<>>
         /\ SubSeq(<<a, b>>, 1, 1) = <<a>>
         /\ SubSeq(<<a, b>>, 1, 2) = <<a, b>>
<1> DEFINE s == <<a, b>>
           Begins(t) == Len(t) <= 2 /\ \A i \in 1 .. Len(t) : t[i] = s[i]
<1>1. /\ <<>> \in Seq(S)
      /\ <<a>> \in Seq(S)
      /\ <<a, b>> \in Seq(S)
  OBVIOUS
<1>2. Begins(<<>>) /\ Begins(<<a>>) /\ Begins(<<a, b>>)
  OBVIOUS
<1>3. /\ Len(<<>>) = 0
      /\ Len(<<a>>) = 1
      /\ Len(<<a, b>>) = 2
  OBVIOUS
<1>4. \A t \in Seq(S) : Begins(t) => SubSeq(s, 1, Len(t)) = t
  BY <1>1, <1>3, FrontIs
<1> HIDE DEF s, Begins
<1> QED
  BY <1>1, <1>2, <1>3, <1>4 DEF s

LEMMA FrontsOf3 ==
  ASSUME NEW S, NEW a \in S, NEW b \in S, NEW c \in S
  PROVE  /\ SubSeq(<<a, b, c>>, 1, 0) = <<>>
         /\ SubSeq(<<a, b, c>>, 1, 1) = <<a>>
         /\ SubSeq(<<a, b, c>>, 1, 2) = <<a, b>>
         /\ SubSeq(<<a, b, c>>, 1, 3) = <<a, b, c>>
<1> DEFINE s == <<a, b, c>>
           Begins(t) == Len(t) <= 3 /\ \A i \in 1 .. Len(t) : t[i] = s[i]
<1>1. /\ <<>> \in Seq(S)
      /\ <<a>> \in Seq(S)
      /\ <<a, b>> \in Seq(S)
      /\ <<a, b, c>> \in Seq(S)
  OBVIOUS
<1>2. Begins(<<>>) /\ Begins(<<a>>) /\ Begins(<<a, b>>) /\ Begins(<<a, b, c>>)
  OBVIOUS
<1>3. /\ Len(<<>>) = 0
      /\ Len(<<a>>) = 1
      /\ Len(<<a, b>>) = 2
      /\ Len(<<a, b, c>>) = 3
  OBVIOUS
<1>4. \A t \in Seq(S) : Begins(t) => SubSeq(s, 1, Len(t)) = t
  BY <1>1, <1>3, FrontIs
<1> HIDE DEF s, Begins
<1> QED
  BY <1>1, <1>2, <1>3, <1>4 DEF s

LEMMA FrontsOf4 ==
  ASSUME NEW S, NEW a \in S, NEW b \in S, NEW c \in S, NEW d \in S
  PROVE  /\ SubSeq(<<a, b, c, d>>, 1, 0) = <<>>
         /\ SubSeq(<<a, b, c, d>>, 1, 1) = <<a>>
         /\ SubSeq(<<a, b, c, d>>, 1, 2) = <<a, b>>
         /\ SubSeq(<<a, b, c, d>>, 1, 3) = <<a, b, c>>
         /\ SubSeq(<<a, b, c, d>>, 1, 4) = <<a, b, c, d>>
<1> DEFINE s == <<a, b, c, d>>
           Begins(t) == Len(t) <= 4 /\ \A i \in 1 .. Len(t) : t[i] = s[i]
<1>1. /\ <<>> \in Seq(S)
      /\ <<a>> \in Seq(S)
      /\ <<a, b>> \in Seq(S)
      /\ <<a, b, c>> \in Seq(S)
      /\ <<a, b, c, d>> \in Seq(S)
  OBVIOUS
<1>2. Begins(<<>>) /\ Begins(<<a>>) /\ Begins(<<a, b>>) /\ Begins(<<a, b, c>>) /\ Begins(<<a, b, c, d>>)
  OBVIOUS
<1>3. /\ Len(<<>>) = 0
      /\ Len(<<a>>) = 1
      /\ Len(<<a, b>>) = 2
      /\ Len(<<a, b, c>>) = 3
      /\ Len(<<a, b, c, d>>) = 4
  OBVIOUS
<1>4. \A t \in Seq(S) : Begins(t) => SubSeq(s, 1, Len(t)) = t
  BY <1>1, <1>3, FrontIs
<1> HIDE DEF s, Begins
<1> QED
  BY <1>1, <1>2, <1>3, <1>4 DEF s

LEMMA SuffixesOf0 == Suffixes(<<>>) = {<<>>}
BY DEF Suffixes

LEMMA SuffixesOf1 ==
  ASSUME NEW a
  PROVE  Suffixes(<<a>>) = {<<>>, <<a>>}
BY DEF Suffixes

LEMMA SuffixesOf2 ==
  ASSUME NEW a, NEW b
  PROVE  Suffixes(<<a, b>>) = {<<>>, <<b>>, <<a, b>>}
BY DEF Suffixes

LEMMA SuffixesOf3 ==
  ASSUME NEW a, NEW b, NEW c
  PROVE  Suffixes(<<a, b, c>>) = {<<>>, <<c>>, <<b, c>>, <<a, b, c>>}
BY DEF Suffixes

LEMMA SuffixesOf4 ==
  ASSUME NEW a, NEW b, NEW c, NEW d
  PROVE  Suffixes(<<a, b, c, d>>) = {<<>>, <<d>>, <<c, d>>, <<b, c, d>>, <<a, b, c, d>>}
BY DEF Suffixes

-----------------------------------------------------------------------------
(* The declarators of a type.                                              *)

\* Those C++ lets follow a name: Declared is an invariant of Constructors.
Shapes ==
  LET c == "const"  p == "*"  r == "&"
  IN  {<<>>, <<c>>, <<p>>, <<p, c>>, <<c, p>>, <<c, p, c>>,
       <<r>>, <<c, r>>, <<p, r>>, <<p, c, r>>, <<c, p, r>>, <<c, p, c, r>>}

LEMMA ShapeSuffixes ==
  /\ Suffixes(<<>>) = {<<>>}
  /\ Suffixes(<<"const">>) = {<<>>, <<"const">>}
  /\ Suffixes(<<"*">>) = {<<>>, <<"*">>}
  /\ Suffixes(<<"*", "const">>) = {<<>>, <<"const">>, <<"*", "const">>}
  /\ Suffixes(<<"const", "*">>) = {<<>>, <<"*">>, <<"const", "*">>}
  /\ Suffixes(<<"const", "*", "const">>) = {<<>>, <<"const">>, <<"*", "const">>, <<"const", "*", "const">>}
  /\ Suffixes(<<"&">>) = {<<>>, <<"&">>}
  /\ Suffixes(<<"const", "&">>) = {<<>>, <<"&">>, <<"const", "&">>}
  /\ Suffixes(<<"*", "&">>) = {<<>>, <<"&">>, <<"*", "&">>}
  /\ Suffixes(<<"*", "const", "&">>) = {<<>>, <<"&">>, <<"const", "&">>, <<"*", "const", "&">>}
  /\ Suffixes(<<"const", "*", "&">>) = {<<>>, <<"&">>, <<"*", "&">>, <<"const", "*", "&">>}
  /\ Suffixes(<<"const", "*", "const", "&">>) = {<<>>, <<"&">>, <<"const", "&">>, <<"*", "const", "&">>, <<"const", "*", "const", "&">>}
BY SuffixesOf0, SuffixesOf1, SuffixesOf2, SuffixesOf3, SuffixesOf4

LEMMA ShapeFronts ==
  /\ SubSeq(<<"const">>, 1, 0) = <<>>
  /\ SubSeq(<<"*">>, 1, 0) = <<>>
  /\ SubSeq(<<"*", "const">>, 1, 0) = <<>>
  /\ SubSeq(<<"*", "const">>, 1, 1) = <<"*">>
  /\ SubSeq(<<"const", "*">>, 1, 0) = <<>>
  /\ SubSeq(<<"const", "*">>, 1, 1) = <<"const">>
  /\ SubSeq(<<"const", "*", "const">>, 1, 0) = <<>>
  /\ SubSeq(<<"const", "*", "const">>, 1, 1) = <<"const">>
  /\ SubSeq(<<"const", "*", "const">>, 1, 2) = <<"const", "*">>
  /\ SubSeq(<<"&">>, 1, 0) = <<>>
  /\ SubSeq(<<"const", "&">>, 1, 0) = <<>>
  /\ SubSeq(<<"const", "&">>, 1, 1) = <<"const">>
  /\ SubSeq(<<"*", "&">>, 1, 0) = <<>>
  /\ SubSeq(<<"*", "&">>, 1, 1) = <<"*">>
  /\ SubSeq(<<"*", "const", "&">>, 1, 0) = <<>>
  /\ SubSeq(<<"*", "const", "&">>, 1, 1) = <<"*">>
  /\ SubSeq(<<"*", "const", "&">>, 1, 2) = <<"*", "const">>
  /\ SubSeq(<<"const", "*", "&">>, 1, 0) = <<>>
  /\ SubSeq(<<"const", "*", "&">>, 1, 1) = <<"const">>
  /\ SubSeq(<<"const", "*", "&">>, 1, 2) = <<"const", "*">>
  /\ SubSeq(<<"const", "*", "const", "&">>, 1, 0) = <<>>
  /\ SubSeq(<<"const", "*", "const", "&">>, 1, 1) = <<"const">>
  /\ SubSeq(<<"const", "*", "const", "&">>, 1, 2) = <<"const", "*">>
  /\ SubSeq(<<"const", "*", "const", "&">>, 1, 3) = <<"const", "*", "const">>
<1>1. "const" \in Declarators /\ "*" \in Declarators /\ "&" \in Declarators
  BY DEF Declarators
<1> QED
  BY <1>1, FrontsOf1, FrontsOf2, FrontsOf3, FrontsOf4

LEMMA ShapeLengths ==
  /\ <<>> \in Seq(Declarators) /\ Len(<<>>) = 0
  /\ <<"const">> \in Seq(Declarators) /\ Len(<<"const">>) = 1
  /\ <<"*">> \in Seq(Declarators) /\ Len(<<"*">>) = 1
  /\ <<"*", "const">> \in Seq(Declarators) /\ Len(<<"*", "const">>) = 2
  /\ <<"const", "*">> \in Seq(Declarators) /\ Len(<<"const", "*">>) = 2
  /\ <<"const", "*", "const">> \in Seq(Declarators) /\ Len(<<"const", "*", "const">>) = 3
  /\ <<"&">> \in Seq(Declarators) /\ Len(<<"&">>) = 1
  /\ <<"const", "&">> \in Seq(Declarators) /\ Len(<<"const", "&">>) = 2
  /\ <<"*", "&">> \in Seq(Declarators) /\ Len(<<"*", "&">>) = 2
  /\ <<"*", "const", "&">> \in Seq(Declarators) /\ Len(<<"*", "const", "&">>) = 3
  /\ <<"const", "*", "&">> \in Seq(Declarators) /\ Len(<<"const", "*", "&">>) = 3
  /\ <<"const", "*", "const", "&">> \in Seq(Declarators) /\ Len(<<"const", "*", "const", "&">>) = 4
BY DEF Declarators

LEMMA LongestIs ==
  ASSUME NEW fits, NEW s \in fits, Len(s) \in Nat,
         \A other \in fits : other = s \/ (Len(other) \in Nat /\ Len(other) < Len(s))
  PROVE  Longest(fits) = s
<1>1. \A other \in fits : Len(other) <= Len(s)
  OBVIOUS
<1>2. \A other \in fits : Len(s) <= Len(other) => other = s
  OBVIOUS
<1> QED
  BY <1>1, <1>2 DEF Longest

LEMMA SuffixesShorter ==
  ASSUME NEW S, NEW s \in Seq(S)
  PROVE  /\ s \in Suffixes(s)
         /\ \A other \in Suffixes(s) :
              other = s \/ (Len(other) \in Nat /\ Len(other) < Len(s))
<1>1. SubSeq(s, 1, Len(s)) = s
  BY SubSeqFull
<1>2. Len(s) = 0 => s = <<>>
  OBVIOUS
<1>3. s \in Suffixes(s)
  BY <1>1, <1>2 DEF Suffixes
<1>4. ASSUME NEW l \in 2 .. Len(s)
      PROVE  Len(SubSeq(s, l, Len(s))) = Len(s) - l + 1
  <2>1. \A i \in l .. Len(s) : s[i] \in S
    OBVIOUS
  <2> QED
    BY <2>1, SubSeqProperties, l \in Int, Len(s) \in Int
<1>5. ASSUME NEW other \in Suffixes(s), other # s
      PROVE  Len(other) \in Nat /\ Len(other) < Len(s)
  <2>1. CASE other = <<>>
    BY <1>2, <1>5, <2>1
  <2>2. ASSUME NEW l \in 1 .. Len(s), other = SubSeq(s, l, Len(s))
        PROVE  Len(other) \in Nat /\ Len(other) < Len(s)
    BY <1>1, <1>4, <1>5, <2>2
  <2> QED
    BY <2>1, <2>2 DEF Suffixes
<1> QED
  BY <1>3, <1>5

LEMMA LongestWhole ==
  ASSUME NEW P, NEW S, NEW s \in Seq(S), s \in P
  PROVE  Longest(P \cap Suffixes(s)) = s
<1>1. Len(s) \in Nat /\ s \in P \cap Suffixes(s)
  BY SuffixesShorter
<1>2. \A other \in P \cap Suffixes(s) : other = s \/ (Len(other) \in Nat /\ Len(other) < Len(s))
  BY SuffixesShorter
<1> QED
  BY <1>1, <1>2, LongestIs

\* The patterns of is_const
constants == {<<"const">>, <<"const", "&">>, <<"const", "*">>, <<"const", "*", "const">>,
              <<"const", "*", "const", "&">>, <<"const", "*", "&">>,
              <<"const", "*", "const", "*", "&">>}
others == {<<>>, <<"*", "const">>, <<"*", "const", "&">>, <<"*", "const", "*", "&">>}

LEMMA IsConst ==
  ASSUME NEW t, t.decl \in Shapes
  PROVE  is_const(t) <=> t.decl \in {<<"const">>, <<"const", "&">>, <<"const", "*">>,
                                     <<"const", "*", "const">>, <<"const", "*", "const", "&">>,
                                     <<"const", "*", "&">>}
<1>0. is_const(t) <=> Specialised(constants \cup others, t) \in constants
  BY DEF is_const, constants, others
<1>4. t.decl \in Seq(Declarators)
  BY ShapeLengths DEF Shapes
<1>5. t.decl \in constants <=> t.decl \in {<<"const">>, <<"const", "&">>, <<"const", "*">>,
                                     <<"const", "*", "const">>, <<"const", "*", "const", "&">>,
                                     <<"const", "*", "&">>}
  BY DEF constants, Shapes
<1>1. CASE t.decl \in constants \cup others
  <2>1. Specialised(constants \cup others, t) = t.decl
    BY <1>1, <1>4, LongestWhole DEF Specialised
  <2> QED
    BY <1>0, <1>5, <2>1
<1>2. CASE t.decl \in {<<"*">>, <<"&">>, <<"*", "&">>}
  <2>1. (constants \cup others) \cap Suffixes(t.decl) = {<<>>}
    BY <1>2, ShapeSuffixes DEF constants, others
  <2>2. Longest({<<>>}) = <<>>
    BY DEF Longest
  <2>4. t.decl \notin constants
    BY <1>2 DEF constants
  <2>3. <<>> \notin constants
    BY DEF constants
  <2> QED
    BY <1>0, <1>5, <2>1, <2>2, <2>3, <2>4 DEF Specialised
<1>3. t.decl \in constants \cup others \/ t.decl \in {<<"*">>, <<"&">>, <<"*", "&">>}
  BY DEF Shapes, constants, others
<1> QED
  BY <1>1, <1>2, <1>3

LEMMA ShapesAreSeqs == Shapes \subseteq Seq(Declarators)
BY ShapeLengths DEF Shapes

LEMMA Endings ==
  ASSUME NEW t, t.decl \in Shapes
  PROVE  /\ is_ref(t) <=> t.decl \in {<<"&">>, <<"const", "&">>, <<"*", "&">>, <<"*", "const", "&">>,
                                     <<"const", "*", "&">>, <<"const", "*", "const", "&">>}
         /\ is_ptr(t) <=> t.decl \in {<<"*">>, <<"const", "*">>}
         /\ <<"*", "const">> \in Suffixes(t.decl)
              <=> t.decl \in {<<"*", "const">>, <<"const", "*", "const">>}
<1>1. is_ref(t) <=> t.decl \in {<<"&">>, <<"const", "&">>, <<"*", "&">>, <<"*", "const", "&">>,
                                     <<"const", "*", "&">>, <<"const", "*", "const", "&">>}
  BY ShapeSuffixes, SMTT(60) DEF Shapes, is_ref
<1>2. is_ptr(t) <=> t.decl \in {<<"*">>, <<"const", "*">>}
  BY ShapeSuffixes DEF Shapes, is_ptr
<1>3. <<"*", "const">> \in Suffixes(t.decl)
              <=> t.decl \in {<<"*", "const">>, <<"const", "*", "const">>}
  BY ShapeSuffixes DEF Shapes
<1> QED
  BY <1>1, <1>2, <1>3

\* remove_all_const as a function of the declarators
const_patterns ==
  {<<>>, <<"const">>, <<"const", "&">>,
                   <<"const", "*">>, <<"const", "*", "const">>, <<"*", "const">>}
const_rules == [s \in const_patterns |-> CASE s \in {<<>>, <<"const">>} -> <<>>
                                      [] s = <<"const", "&">> -> <<"&">>
                                      [] OTHER -> <<"*">>]

LEMMA ConstRules ==
  /\ const_rules[<<>>] = <<>> /\ const_rules[<<"const">>] = <<>>
  /\ const_rules[<<"const", "&">>] = <<"&">>
  /\ \A s \in {<<"const", "*">>, <<"const", "*", "const">>, <<"*", "const">>} :
       const_rules[s] = <<"*">>
<1>1. /\ const_rules[<<>>] = <<>> /\ const_rules[<<"const">>] = <<>>
      /\ const_rules[<<"const", "&">>] = <<"&">>
  BY DEF const_rules, const_patterns
<1>2. ASSUME NEW s \in {<<"const", "*">>, <<"const", "*", "const">>, <<"*", "const">>}
      PROVE const_rules[s] = <<"*">>
  BY DEF const_rules, const_patterns
<1> QED
  BY <1>1, <1>2

LEMMA Concats ==
  /\ \A s \in Shapes : <<>> \o s = s /\ s \o <<>> = s /\ SubSeq(s, 1, Len(s)) = s /\ SubSeq(s, 1, 0) = <<>>
  /\ <<"*">> \o <<"&">> = <<"*", "&">>
  /\ <<"const", "*">> \o <<"&">> = <<"const", "*", "&">>
<1>1. ASSUME NEW s \in Shapes
      PROVE <<>> \o s = s /\ s \o <<>> = s /\ SubSeq(s, 1, Len(s)) = s /\ SubSeq(s, 1, 0) = <<>>
  <2>1. s \in Seq(Declarators)
    BY ShapesAreSeqs
  <2>2. <<>> \o s = s /\ s \o <<>> = s
    BY <2>1, ConcatEmptySeq
  <2>3. SubSeq(s, 1, Len(s)) = s
    BY <2>1, SubSeqFull
  <2>4. SubSeq(s, 1, 0) = <<>>
    BY SubSeqEmpty, 0 < 1, 1 \in Int, 0 \in Int
  <2> QED
    BY <2>2, <2>3, <2>4
<1>2. "const" \in Declarators /\ "*" \in Declarators /\ "&" \in Declarators
  BY DEF Declarators
<1>3. ASSUME NEW s \in Seq(Declarators), NEW v \in Seq(Declarators), Len(v) = Len(s) + 1,
             \A i \in 1 .. Len(s) : v[i] = s[i], v[Len(s) + 1] = "&"
      PROVE  s \o <<"&">> = v
  <2>1. s \o <<"&">> = Append(s, "&")
    BY <1>2, AppendIsConcat
  <2>2. /\ Append(s, "&") \in Seq(Declarators) /\ Len(Append(s, "&")) = Len(v)
        /\ \A i \in 1 .. Len(s) : Append(s, "&")[i] = v[i]
        /\ Append(s, "&")[Len(s) + 1] = v[Len(s) + 1]
    BY <1>2, <1>3, AppendProperties
  <2>3. \A i \in 1 .. Len(v) : Append(s, "&")[i] = v[i]
    BY <1>3, <2>2
  <2> QED
    BY <2>1, <2>2, <2>3, SeqEqual
<1>4. <<"*">> \o <<"&">> = <<"*", "&">>
  <2> DEFINE s == <<"*">>  v == <<"*", "&">>
  <2>1. /\ s \in Seq(Declarators) /\ v \in Seq(Declarators) /\ Len(s) = 1 /\ Len(v) = 2
        /\ s[1] = v[1] /\ v[2] = "&"
    BY ShapeLengths
  <2> HIDE DEF s, v
  <2>2. Len(v) = Len(s) + 1 /\ v[Len(s) + 1] = "&" /\ \A i \in 1 .. Len(s) : v[i] = s[i]
    BY <2>1
  <2>3. s \o <<"&">> = v
    BY <1>3, <2>1, <2>2
  <2> QED
    BY <2>3 DEF s, v
<1>5. <<"const", "*">> \o <<"&">> = <<"const", "*", "&">>
  <2> DEFINE s == <<"const", "*">>  v == <<"const", "*", "&">>
  <2>1. /\ s \in Seq(Declarators) /\ v \in Seq(Declarators) /\ Len(s) = 2 /\ Len(v) = 3
        /\ s[1] = v[1] /\ s[2] = v[2] /\ v[3] = "&"
    BY ShapeLengths
  <2> HIDE DEF s, v
  <2>2. Len(v) = Len(s) + 1 /\ v[Len(s) + 1] = "&" /\ \A i \in 1 .. Len(s) : v[i] = s[i]
    BY <2>1
  <2>3. s \o <<"&">> = v
    BY <1>3, <2>1, <2>2
  <2> QED
    BY <2>3 DEF s, v
<1> QED
  BY <1>1, <1>4, <1>5

LEMMA Respelt ==
  ASSUME NEW t \in CppType
  PROVE  /\ [t EXCEPT !.decl = t.decl] = t
         /\ \A d : /\ [t EXCEPT !.decl = d].decl = d
                  /\ [t EXCEPT !.decl = d].base = t.base
                  /\ [t EXCEPT !.decl = d].shared = t.shared
BY DEF CppType

LEMMA RemoveAllConst ==
  ASSUME NEW t \in CppType, t.decl \in Shapes
  PROVE  /\ t.decl \in {<<>>, <<"const">>} => remove_all_const(t) = [t EXCEPT !.decl = <<>>]
         /\ t.decl \in {<<"*">>, <<"*", "const">>, <<"const", "*">>, <<"const", "*", "const">>}
              => remove_all_const(t) = [t EXCEPT !.decl = <<"*">>]
         /\ is_ref(t) => remove_all_const(t).decl \in {<<"&">>, <<"*", "&">>, <<"const", "*", "&">>}
<1> DEFINE s == Specialised(const_patterns, t)
           front == SubSeq(t.decl, 1, Len(t.decl) - Len(s))
           R(d) == [t EXCEPT !.decl = d]
<1>1. remove_all_const(t) = R(front \o const_rules[s])
  BY DEF remove_all_const, Rewritten, Exchanged, const_rules, const_patterns
<1>0. R(t.decl) = t /\ \A d : R(d).decl = d
  BY Respelt
<1>2. CASE t.decl \in const_patterns
  <2>1. s = t.decl
    BY <1>2, LongestWhole, ShapesAreSeqs DEF Specialised
  <2>2. front = <<>>
    <3>1. Len(t.decl) \in Nat
      BY ShapesAreSeqs
    <3> QED
      BY <2>1, <3>1, Concats
  <2>3. const_rules[s] \in Shapes
    BY <2>1, <1>2, ConstRules DEF const_patterns, Shapes
  <2>4. remove_all_const(t) = R(const_rules[t.decl])
    BY <1>1, <2>1, <2>2, <2>3, Concats
  <2>5. /\ t.decl \in {<<>>, <<"const">>} => const_rules[t.decl] = <<>>
        /\ t.decl \in {<<"*", "const">>, <<"const", "*">>, <<"const", "*", "const">>} => const_rules[t.decl] = <<"*">>
        /\ t.decl = <<"const", "&">> => const_rules[t.decl] = <<"&">>
    BY ConstRules
  <2>6. t.decl # <<"*">>
    BY <1>2 DEF const_patterns
  <2>7. is_ref(t) => t.decl = <<"const", "&">>
    BY <1>2, Endings, SMTT(60) DEF const_patterns
  <2> HIDE DEF R
  <2>8. t.decl \in {<<>>, <<"const">>} => remove_all_const(t) = R(<<>>)
    BY <2>4, <2>5
  <2>9. t.decl \in {<<"*">>, <<"*", "const">>, <<"const", "*">>, <<"const", "*", "const">>}
          => remove_all_const(t) = R(<<"*">>)
    BY <2>4, <2>5, <2>6
  <2>10. is_ref(t) => remove_all_const(t).decl = <<"&">>
    BY <1>0, <2>4, <2>5, <2>7
  <2> QED
    BY <2>8, <2>9, <2>10 DEF R
<1>3. CASE t.decl \in {<<"*">>, <<"&">>, <<"*", "&">>, <<"const", "*", "&">>}
  <2>1. const_patterns \cap Suffixes(t.decl) = {<<>>}
    BY <1>3, ShapeSuffixes DEF const_patterns
  <2>2. s = <<>>
    BY <2>1 DEF Longest, Specialised
  <2>3. front = t.decl
    <3>1. Len(t.decl) \in Nat /\ Len(<<>>) = 0
      BY ShapesAreSeqs
    <3>2. Len(t.decl) - Len(s) = Len(t.decl)
      BY <2>2, <3>1
    <3> QED
      BY <3>2, Concats
  <2>4. remove_all_const(t) = t
    <3>1. front \o const_rules[s] = t.decl
      BY <2>2, <2>3, ConstRules, Concats
    <3> HIDE DEF front, s, R
    <3> QED
      BY <1>0, <1>1, <3>1
  <2>5. t.decl \notin {<<>>, <<"const">>, <<"*", "const">>, <<"const", "*">>, <<"const", "*", "const">>}
    BY <1>3
  <2>6. is_ref(t) => t.decl \in {<<"&">>, <<"*", "&">>, <<"const", "*", "&">>}
    BY <1>3, Endings
  <2> QED
    BY <1>0, <2>4, <2>5, <2>6
<1>4. CASE t.decl \in {<<"*", "const", "&">>, <<"const", "*", "const", "&">>}
  <2>1. const_patterns \cap Suffixes(t.decl) = {<<>>, <<"const", "&">>}
    BY <1>4, ShapeSuffixes DEF const_patterns
  <2>2. s = <<"const", "&">>
    <3> DEFINE k == <<"const", "&">>
    <3>1. Len(k) \in Nat /\ Len(<<>>) \in Nat /\ Len(<<>>) < Len(k)
      BY ShapeLengths
    <3> HIDE DEF k
    <3>2. Longest({<<>>, k}) = k
      BY <3>1, LongestIs
    <3> QED
      BY <2>1, <3>2 DEF Specialised, k
  <2>3. Len(t.decl) - Len(s) \in {1, 2} /\ front \in {<<"*">>, <<"const", "*">>}
    <3>1. CASE t.decl = <<"*", "const", "&">>
      BY <3>1, <2>2, ShapeFronts, ShapeLengths
    <3>2. CASE t.decl = <<"const", "*", "const", "&">>
      BY <3>2, <2>2, ShapeFronts, ShapeLengths
    <3> QED
      BY <1>4, <3>1, <3>2
  <2>4. front \o const_rules[s] \in {<<"*", "&">>, <<"const", "*", "&">>}
    BY <2>2, <2>3, ConstRules, Concats
  <2>5. t.decl \notin {<<>>, <<"const">>, <<"*">>, <<"*", "const">>, <<"const", "*">>, <<"const", "*", "const">>}
    <3>1. CASE t.decl = <<"*", "const", "&">>
      BY <3>1
    <3>2. CASE t.decl = <<"const", "*", "const", "&">>
      BY <3>2
    <3> QED
      BY <1>4, <3>1, <3>2
  <2> HIDE DEF front, s, R
  <2> QED
    BY <1>0, <1>1, <2>4, <2>5
<1> QED
  BY <1>2, <1>3, <1>4 DEF Shapes, const_patterns

LEMMA RemoveRef ==
  ASSUME NEW t \in CppType, t.decl \in Shapes
  PROVE  /\ ~is_ref(t) => remove_ref(t) = t
         /\ remove_ref(t) = [t EXCEPT !.decl = remove_ref(t).decl]
         /\ remove_ref(t).decl \in {<<>>, <<"const">>, <<"*">>, <<"*", "const">>,
                                    <<"const", "*">>, <<"const", "*", "const">>}
         /\ t.decl \in {<<>>, <<"&">>} => remove_ref(t).decl = <<>>
         /\ t.decl \in {<<"const">>, <<"const", "&">>} => remove_ref(t).decl = <<"const">>
         /\ t.decl \in {<<"*">>, <<"*", "&">>} => remove_ref(t).decl = <<"*">>
         /\ t.decl \in {<<"*", "const">>, <<"*", "const", "&">>}
              => remove_ref(t).decl = <<"*", "const">>
         /\ t.decl \in {<<"const", "*">>, <<"const", "*", "&">>}
              => remove_ref(t).decl = <<"const", "*">>
         /\ t.decl \in {<<"const", "*", "const">>, <<"const", "*", "const", "&">>}
              => remove_ref(t).decl = <<"const", "*", "const">>
<1> DEFINE R(d) == [t EXCEPT !.decl = d]
           front == SubSeq(t.decl, 1, Len(t.decl) - 1)
<1>1. R(t.decl) = t /\ \A d : R(d).decl = d
  BY Respelt
<1>2. CASE is_ref(t)
  <2>1. remove_ref(t) = R(front)
    BY <1>2 DEF remove_ref, Without
  <2>2. /\ t.decl = <<"&">> => front = <<>>
        /\ t.decl = <<"const", "&">> => front = <<"const">>
        /\ t.decl = <<"*", "&">> => front = <<"*">>
        /\ t.decl = <<"*", "const", "&">> => front = <<"*", "const">>
        /\ t.decl = <<"const", "*", "&">> => front = <<"const", "*">>
        /\ t.decl = <<"const", "*", "const", "&">> => front = <<"const", "*", "const">>
    <3> DEFINE before(n) == SubSeq(t.decl, 1, n)
    <3>1. t.decl = <<"&">> => before(0) = <<>> /\ Len(t.decl) - 1 = 0
      BY ShapeFronts, ShapeLengths
    <3>2. t.decl = <<"const", "&">> => before(1) = <<"const">> /\ Len(t.decl) - 1 = 1
      BY ShapeFronts, ShapeLengths
    <3>3. t.decl = <<"*", "&">> => before(1) = <<"*">> /\ Len(t.decl) - 1 = 1
      BY ShapeFronts, ShapeLengths
    <3>4. t.decl = <<"*", "const", "&">> => before(2) = <<"*", "const">> /\ Len(t.decl) - 1 = 2
      BY ShapeFronts, ShapeLengths
    <3>5. t.decl = <<"const", "*", "&">> => before(2) = <<"const", "*">> /\ Len(t.decl) - 1 = 2
      BY ShapeFronts, ShapeLengths
    <3>6. t.decl = <<"const", "*", "const", "&">>
            => before(3) = <<"const", "*", "const">> /\ Len(t.decl) - 1 = 3
      BY ShapeFronts, ShapeLengths
    <3>7. front = before(Len(t.decl) - 1)
      OBVIOUS
    <3> HIDE DEF before, front
    <3> QED
      BY <3>1, <3>2, <3>3, <3>4, <3>5, <3>6, <3>7
  <2>3. remove_ref(t) = R(remove_ref(t).decl) /\ remove_ref(t).decl = front
    BY <1>1, <2>1
  <2>4. t.decl \in {<<"&">>, <<"const", "&">>, <<"*", "&">>, <<"*", "const", "&">>,
                    <<"const", "*", "&">>, <<"const", "*", "const", "&">>}
    BY <1>2, Endings
  <2> HIDE DEF front
  <2>5. t.decl \notin {<<>>, <<"const">>, <<"*">>, <<"*", "const">>,
                       <<"const", "*">>, <<"const", "*", "const">>}
    BY <1>2, Endings, SMTT(60)
  <2>6. front \in {<<>>, <<"const">>, <<"*">>, <<"*", "const">>,
                       <<"const", "*">>, <<"const", "*", "const">>}
    BY <2>2, <2>4
  <2> HIDE DEF R
  <2> QED
    BY <1>2, <2>2, <2>3, <2>5, <2>6 DEF R
<1>3. CASE ~is_ref(t)
  <2>1. remove_ref(t) = t
    BY <1>3 DEF remove_ref
  <2>2. t.decl \in {<<>>, <<"const">>, <<"*">>, <<"*", "const">>,
                    <<"const", "*">>, <<"const", "*", "const">>}
    BY <1>3, Endings DEF Shapes
  <2>3. t.decl \notin {<<"&">>, <<"const", "&">>, <<"*", "&">>, <<"*", "const", "&">>,
                    <<"const", "*", "&">>, <<"const", "*", "const", "&">>}
    BY <1>3, Endings
  <2> QED
    BY <1>1, <1>3, <2>1, <2>2, <2>3
<1> QED
  BY <1>2, <1>3

LEMMA RemoveAllPtrs ==
  ASSUME NEW t \in CppType, t.decl \in {<<>>, <<"*">>}
  PROVE  remove_all_ptrs(t) = [t EXCEPT !.decl = <<>>]
<1> DEFINE more == {n \in 0 .. Len(t.decl) : \A i \in 0 .. n - 1 : t.decl[Len(t.decl) - i] = "*"}
<1>1. more = 0 .. Len(t.decl)
  OBVIOUS
<1>2. Len(t.decl) \in Nat
  BY ShapeLengths
<1> HIDE DEF more
<1>3. (CHOOSE n \in more : \A other \in more : other <= n) = Len(t.decl)
  BY <1>1, <1>2
<1>4. remove_all_ptrs(t) = [t EXCEPT !.decl = SubSeq(@, 1, Len(@) - Len(t.decl))]
  BY <1>3 DEF remove_all_ptrs, Without, more
<1>5. SubSeq(t.decl, 1, Len(t.decl) - Len(t.decl)) = <<>>
  BY <1>2, Concats, ShapeFronts, ShapeLengths
<1> QED
  BY <1>4, <1>5

\* Whatever a type is declared with, it is reduced to what is named.
LEMMA RawType ==
  ASSUME NEW t \in CppType, t.decl \in Shapes
  PROVE  raw_type(t) = [t EXCEPT !.decl = <<>>]
<1> DEFINE R(d) == [t EXCEPT !.decl = d]
           u == remove_ref(t)
           v == remove_all_const(u)
<1>1. u = R(u.decl) /\ u.decl \in {<<>>, <<"const">>, <<"*">>, <<"*", "const">>,
                                    <<"const", "*">>, <<"const", "*", "const">>}
  BY RemoveRef
<1>2. u.decl \in Shapes
  BY <1>1 DEF Shapes
<1>3. u \in CppType
  <2>1. u.decl \in Seq(Declarators)
    BY <1>2, ShapesAreSeqs
  <2> HIDE DEF u
  <2> QED
    BY <1>1, <2>1 DEF CppType
<1>4. \A d : [u EXCEPT !.decl = d] = R(d)
  BY <1>1 DEF CppType
<1>5. v = R(<<>>) \/ v = R(<<"*">>)
  <2> HIDE DEF u, R
  <2>1. v = [u EXCEPT !.decl = <<>>] \/ v = [u EXCEPT !.decl = <<"*">>]
    BY <1>1, <1>2, <1>3, RemoveAllConst
  <2> QED
    BY <1>4, <2>1
<1>6. v \in CppType /\ v.decl \in {<<>>, <<"*">>}
  <2>1. <<>> \in Seq(Declarators) /\ <<"*">> \in Seq(Declarators)
    BY ShapeLengths
  <2> HIDE DEF v
  <2> QED
    BY <1>5, <2>1 DEF CppType
<1>7. remove_all_ptrs(v) = [v EXCEPT !.decl = <<>>]
  <2> HIDE DEF v
  <2> QED
    BY <1>6, RemoveAllPtrs
<1>8. [v EXCEPT !.decl = <<>>] = R(<<>>)
  <2> HIDE DEF v
  <2> QED
    BY <1>5 DEF CppType
<1> QED
  BY <1>7, <1>8 DEF raw_type

LEMMA ByReference ==
  ASSUME NEW t \in CppType, t.decl \in Shapes
  PROVE  is_by_value(t) <=> t.decl \in {<<>>, <<"const">>}
<1> DEFINE v == remove_all_const(t)
<1>1. CASE t.decl \in {<<>>, <<"const">>}
  <2>1. v.decl = <<>>
    BY <1>1, RemoveAllConst, Respelt
  <2>2. ~by_reference(v)
    BY <2>1, Endings DEF by_reference, Shapes
  <2> QED
    BY <1>1, <2>2 DEF is_by_value
<1>2. CASE t.decl \in {<<"*">>, <<"*", "const">>, <<"const", "*">>, <<"const", "*", "const">>}
  <2>1. v.decl = <<"*">>
    BY <1>2, RemoveAllConst, Respelt
  <2>2. by_reference(v)
    BY <2>1, Endings DEF by_reference, Shapes
  <2>3. t.decl \notin {<<>>, <<"const">>}
    BY <1>2, SMTT(60)
  <2> QED
    BY <2>2, <2>3 DEF is_by_value
<1>3. CASE is_ref(t)
  <2>1. v.decl \in {<<"&">>, <<"*", "&">>, <<"const", "*", "&">>}
    BY <1>3, RemoveAllConst
  <2>2. by_reference(v)
    BY <2>1, Endings DEF by_reference, Shapes
  <2>3. t.decl \notin {<<>>, <<"const">>}
    BY <1>3, Endings
  <2> QED
    BY <2>2, <2>3 DEF is_by_value
<1> QED
  BY <1>1, <1>2, <1>3, Endings DEF Shapes

LEMMA AppendIs ==
  ASSUME NEW S, NEW s \in Seq(S), NEW e \in S, NEW v \in Seq(S), Len(v) = Len(s) + 1,
         \A i \in 1 .. Len(s) : v[i] = s[i], v[Len(s) + 1] = e
  PROVE  Append(s, e) = v
<1>1. /\ Append(s, e) \in Seq(S) /\ Len(Append(s, e)) = Len(v)
      /\ \A i \in 1 .. Len(s) : Append(s, e)[i] = v[i]
      /\ Append(s, e)[Len(s) + 1] = v[Len(s) + 1]
  BY AppendProperties
<1>2. \A i \in 1 .. Len(v) : Append(s, e)[i] = v[i]
  BY <1>1
<1> QED
  BY <1>1, <1>2, SeqEqual

LEMMA AppendTo ==
  ASSUME NEW S, NEW a \in S, NEW b \in S, NEW c \in S, NEW d \in S
  PROVE  /\ Append(<<>>, a) = <<a>>
         /\ Append(<<a>>, b) = <<a, b>>
         /\ Append(<<a, b>>, c) = <<a, b, c>>
         /\ Append(<<a, b, c>>, d) = <<a, b, c, d>>
<1>1. Append(<<>>, a) = <<a>>
  <2> DEFINE s == <<>>  t == <<a>>
  <2>1. s \in Seq(S) /\ t \in Seq(S) /\ Len(s) = 0 /\ Len(t) = 1
    OBVIOUS
  <2>2. Len(t) = Len(s) + 1 /\ t[Len(s) + 1] = a /\ \A i \in 1 .. Len(s) : t[i] = s[i]
    BY <2>1
  <2> HIDE DEF s, t
  <2>3. Append(s, a) = t
    BY <2>1, <2>2, AppendIs
  <2> QED
    BY <2>3 DEF s, t
<1>2. Append(<<a>>, b) = <<a, b>>
  <2> DEFINE s == <<a>>  t == <<a, b>>
  <2>1. s \in Seq(S) /\ t \in Seq(S) /\ Len(s) = 1 /\ Len(t) = 2
    OBVIOUS
  <2>2. Len(t) = Len(s) + 1 /\ t[Len(s) + 1] = b /\ \A i \in 1 .. Len(s) : t[i] = s[i]
    BY <2>1
  <2> HIDE DEF s, t
  <2>3. Append(s, b) = t
    BY <2>1, <2>2, AppendIs
  <2> QED
    BY <2>3 DEF s, t
<1>3. Append(<<a, b>>, c) = <<a, b, c>>
  <2> DEFINE s == <<a, b>>  t == <<a, b, c>>
  <2>1. s \in Seq(S) /\ t \in Seq(S) /\ Len(s) = 2 /\ Len(t) = 3
    OBVIOUS
  <2>2. Len(t) = Len(s) + 1 /\ t[Len(s) + 1] = c /\ \A i \in 1 .. Len(s) : t[i] = s[i]
    BY <2>1
  <2> HIDE DEF s, t
  <2>3. Append(s, c) = t
    BY <2>1, <2>2, AppendIs
  <2> QED
    BY <2>3 DEF s, t
<1>4. Append(<<a, b, c>>, d) = <<a, b, c, d>>
  <2> DEFINE s == <<a, b, c>>  t == <<a, b, c, d>>
  <2>1. s \in Seq(S) /\ t \in Seq(S) /\ Len(s) = 3 /\ Len(t) = 4
    OBVIOUS
  <2>2. Len(t) = Len(s) + 1 /\ t[Len(s) + 1] = d /\ \A i \in 1 .. Len(s) : t[i] = s[i]
    BY <2>1
  <2> HIDE DEF s, t
  <2>3. Append(s, d) = t
    BY <2>1, <2>2, AppendIs
  <2> QED
    BY <2>3 DEF s, t
<1> QED
  BY <1>1, <1>2, <1>3, <1>4

\* What CanDeclare lets follow
LEMMA ShapesClosed ==
  ASSUME NEW t, t.decl \in Shapes, NEW d \in Declarators, CanDeclare(t, d)
  PROVE  Append(t.decl, d) \in Shapes
<1>1. "const" \in Declarators /\ "*" \in Declarators /\ "&" \in Declarators
  BY DEF Declarators
<1>2. CASE d = "&"
  <2>1. /\ t.decl = <<>> => Append(t.decl, d) = <<"&">>
        /\ t.decl = <<"const">> => Append(t.decl, d) = <<"const", "&">>
        /\ t.decl = <<"*">> => Append(t.decl, d) = <<"*", "&">>
        /\ t.decl = <<"*", "const">> => Append(t.decl, d) = <<"*", "const", "&">>
        /\ t.decl = <<"const", "*">> => Append(t.decl, d) = <<"const", "*", "&">>
        /\ t.decl = <<"const", "*", "const">> => Append(t.decl, d) = <<"const", "*", "const", "&">>
    <3>1. t.decl = <<>> => Append(t.decl, d) = <<"&">>
      BY <1>1, <1>2, AppendTo
    <3>2. t.decl = <<"const">> => Append(t.decl, d) = <<"const", "&">>
      BY <1>1, <1>2, AppendTo
    <3>3. t.decl = <<"*">> => Append(t.decl, d) = <<"*", "&">>
      BY <1>1, <1>2, AppendTo
    <3>4. t.decl = <<"*", "const">> => Append(t.decl, d) = <<"*", "const", "&">>
      BY <1>1, <1>2, AppendTo, ZenonT(60)
    <3>5. t.decl = <<"const", "*">> => Append(t.decl, d) = <<"const", "*", "&">>
      BY <1>1, <1>2, AppendTo, ZenonT(60)
    <3>6. ASSUME t.decl = <<"const", "*", "const">>
          PROVE  Append(t.decl, d) = <<"const", "*", "const", "&">>
      <4> DEFINE s == <<"const", "*", "const">>  v == <<"const", "*", "const", "&">>
      <4>1. s \in Seq(Declarators) /\ v \in Seq(Declarators) /\ Len(s) = 3 /\ Len(v) = 4
        BY ShapeLengths
      <4>2. Len(v) = Len(s) + 1 /\ v[Len(s) + 1] = "&" /\ \A i \in 1 .. Len(s) : v[i] = s[i]
        BY <4>1
      <4> HIDE DEF s, v
      <4>3. Append(s, "&") = v
        BY <1>1, <4>1, <4>2, AppendIs
      <4> QED
        BY <1>2, <3>6, <4>3 DEF s, v
    <3> QED
      BY <3>1, <3>2, <3>3, <3>4, <3>5, <3>6
  <2>2. t.decl \in {<<>>, <<"const">>, <<"*">>, <<"*", "const">>, <<"const", "*">>, <<"const", "*", "const">>}
    BY Endings DEF CanDeclare, is_ref, Shapes
  <2> QED
    BY <2>1, <2>2 DEF Shapes
<1>3. CASE d = "*"
  <2>1. /\ t.decl = <<>> => Append(t.decl, d) = <<"*">>
        /\ t.decl = <<"const">> => Append(t.decl, d) = <<"const", "*">>
    BY <1>1, <1>3, AppendTo
  <2>2. \A i \in 1 .. Len(t.decl) : t.decl[i] # "*"
    BY <1>3 DEF CanDeclare, Contains
  <2>3. t.decl \in {<<>>, <<"const">>} \/ is_ref(t)
    BY <2>2, ShapeLengths, Endings DEF Shapes
  <2> QED
    BY <2>1, <2>3, Endings DEF Shapes, CanDeclare, is_ref
<1>4. CASE d = "const"
  <2>1. /\ t.decl = <<>> => Append(t.decl, d) = <<"const">>
        /\ t.decl = <<"*">> => Append(t.decl, d) = <<"*", "const">>
        /\ t.decl = <<"const", "*">> => Append(t.decl, d) = <<"const", "*", "const">>
    BY <1>1, <1>4, AppendTo, ZenonT(60)
  <2>2. t.decl \in {<<>>, <<"*">>, <<"const", "*">>}
    BY <1>4, Endings DEF CanDeclare, is_ptr
  <2> QED
    BY <2>1, <2>2 DEF Shapes
<1> QED
  BY <1>2, <1>3, <1>4 DEF Declarators

-----------------------------------------------------------------------------
(* The constructor which is called.                                        *)

\* The parameters up to i which an argument is for
Listed(ctor, i) == {j \in 1 .. i : ~IsState(ctor[j])}

LEMMA ListedCount ==
  ASSUME NEW ctor \in Seq(Params), NEW i \in 0 .. Len(ctor)
  PROVE  /\ IsFiniteSet(Listed(ctor, i))
         /\ Cardinality(Listed(ctor, i)) \in Nat
         /\ i = 0 => Cardinality(Listed(ctor, i)) = 0
         /\ i > 0 => Cardinality(Listed(ctor, i)) =
                       Cardinality(Listed(ctor, i - 1)) + (IF IsState(ctor[i]) THEN 0 ELSE 1)
<1>1. \A k \in 0 .. Len(ctor) : IsFiniteSet(Listed(ctor, k)) /\ Cardinality(Listed(ctor, k)) \in Nat
  <2> SUFFICES ASSUME NEW k \in 0 .. Len(ctor)
               PROVE  IsFiniteSet(Listed(ctor, k)) /\ Cardinality(Listed(ctor, k)) \in Nat
    OBVIOUS
  <2>1. IsFiniteSet(1 .. k) /\ Listed(ctor, k) \in SUBSET (1 .. k)
    BY FS_Interval, 1 \in Int, k \in Int DEF Listed
  <2>2. IsFiniteSet(Listed(ctor, k))
    BY <2>1, FS_Subset
  <2> QED
    BY <2>2, FS_CardinalityType
<1>2. ASSUME i = 0
      PROVE  Cardinality(Listed(ctor, i)) = 0
  <2>1. Listed(ctor, i) = {}
    BY <1>2 DEF Listed
  <2> QED
    BY <2>1, FS_EmptySet
<1>3. ASSUME i > 0
      PROVE  Cardinality(Listed(ctor, i)) =
               Cardinality(Listed(ctor, i - 1)) + (IF IsState(ctor[i]) THEN 0 ELSE 1)
  <2>1. /\ i - 1 \in 0 .. Len(ctor) /\ i \notin 1 .. i - 1
        /\ 1 .. i = (1 .. i - 1) \cup {i}
    BY <1>3
  <2>2. CASE IsState(ctor[i])
    <3>1. Listed(ctor, i) = Listed(ctor, i - 1)
      BY <2>1, <2>2 DEF Listed
    <3> QED
      BY <1>1, <2>1, <2>2, <3>1
  <2>3. CASE ~IsState(ctor[i])
    <3>1. Listed(ctor, i) = Listed(ctor, i - 1) \cup {i} /\ i \notin Listed(ctor, i - 1)
      BY <2>1, <2>3 DEF Listed
    <3> QED
      BY <1>1, <2>1, <2>3, <3>1, FS_AddElement
  <2> QED
    BY <2>2, <2>3
<1> QED
  BY <1>1, <1>2, <1>3

LEMMA CountFits ==
  ASSUME NEW ctor \in Seq(Params), OneState(ctor), NEW n \in Nat
  PROVE  StackCountFits(ctor, n) <=> Cardinality(Listed(ctor, Len(ctor))) = n
<1> DEFINE all == 1 .. Len(ctor)
<1>1. /\ IsFiniteSet(all) /\ Cardinality(all) = Len(ctor) /\ Len(ctor) \in Nat
      /\ DOMAIN ctor = all
  BY FS_Interval, 1 \in Int, Len(ctor) \in Int
<1>2. CASE HasState(ctor)
  <2>1. PICK i \in DOMAIN ctor : IsState(ctor[i])
    BY <1>2 DEF HasState
  <2>2. Listed(ctor, Len(ctor)) = all \ {i} /\ i \in all
    BY <1>1, <2>1 DEF Listed, OneState
  <2>3. Cardinality(Listed(ctor, Len(ctor))) = Len(ctor) - 1
    BY <1>1, <2>2, FS_RemoveElement, ZenonT(60)
  <2> QED
    BY <1>2, <2>3 DEF StackCountFits
<1>3. CASE ~HasState(ctor)
  <2>1. Listed(ctor, Len(ctor)) = all
    BY <1>1, <1>3 DEF Listed, HasState
  <2> QED
    BY <1>1, <1>3, <2>1 DEF StackCountFits
<1> QED
  BY <1>2, <1>3

\* The argument of parameter i is of its type.
Fitting(ctor, args, i) ==
  IsState(ctor[i]) \/ Fits(ctor[i].trait, ctor[i].type, args[Cardinality(Listed(ctor, i))])

\* The parameters find their arguments one after the other.
LEMMA TestedInOrder ==
  ASSUME NEW ctor \in Seq(Params), NEW args
  PROVE  IsOfType(ctor, args) <=> \A i \in 1 .. Len(ctor) : Fitting(ctor, args, i)
<1> DEFINE n == Len(ctor)
           count(i) == Cardinality(Listed(ctor, i))
           fits(i) == \A j \in 1 .. i : Fitting(ctor, args, j)
           next(i, at) == IF at = 0 \/ IsState(ctor[i]) THEN at
                          ELSE IF Fits(ctor[i].trait, ctor[i].type, args[at]) THEN at + 1 ELSE 0
           at(i) == IF fits(i) THEN 1 + count(i) ELSE 0
           f == [i \in 0 .. n |-> at(i)]
           index[i \in 0 .. n] == IF i = 0 THEN 1 ELSE next(i, index[i - 1])
<1>1. n \in Nat /\ n \in 0 .. n
  OBVIOUS
<1>2. \A i \in 0 .. n : count(i) \in Nat /\ at(i) \in Nat
  BY ListedCount
<1>3. at(0) = 1
  <2>1. fits(0) /\ count(0) = 0
    BY <1>1, ListedCount
  <2> QED
    BY <2>1
<1>4. ASSUME NEW i \in 1 .. n
      PROVE  at(i) = next(i, at(i - 1)) /\ i - 1 \in 0 .. n
  <2>1. i \in 0 .. n /\ i - 1 \in 0 .. n /\ i > 0
    OBVIOUS
  <2>2. count(i) = count(i - 1) + (IF IsState(ctor[i]) THEN 0 ELSE 1)
    BY <2>1, ListedCount
  <2>3. fits(i) <=> fits(i - 1) /\ Fitting(ctor, args, i)
    <3>1. 1 .. i = (1 .. i - 1) \cup {i}
      BY <2>1
    <3> QED
      BY <3>1
  <2>4. count(i) \in Nat /\ count(i - 1) \in Nat
    BY <1>2, <2>1
  <2> HIDE DEF fits, n
  <2>5. CASE ~fits(i - 1)
    BY <2>1, <2>3, <2>5
  <2>6. CASE fits(i - 1) /\ IsState(ctor[i])
    <3>1. fits(i) /\ count(i) = count(i - 1)
      BY <2>2, <2>3, <2>4, <2>6 DEF Fitting
    <3> HIDE DEF count
    <3> QED
      BY <2>1, <2>4, <2>6, <3>1
  <2>7. CASE fits(i - 1) /\ ~IsState(ctor[i])
    <3>1. count(i) = count(i - 1) + 1 /\ at(i - 1) = count(i) /\ at(i - 1) # 0
      BY <2>2, <2>4, <2>7
    <3>2. fits(i) <=> Fits(ctor[i].trait, ctor[i].type, args[at(i - 1)])
      BY <2>3, <2>7, <3>1 DEF Fitting
    <3>3. at(i) = IF fits(i) THEN at(i - 1) + 1 ELSE 0
      BY <2>4, <3>1
    <3> HIDE DEF at
    <3> QED
      BY <2>1, <2>7, <3>1, <3>2, <3>3
  <2> QED
    BY <2>5, <2>6, <2>7
<1> HIDE DEF at, next
<1>5. f = [i \in 0 .. n |-> IF i = 0 THEN 1 ELSE next(i, f[i - 1])]
  <2>1. \A i \in 0 .. n : f[i] = at(i) /\ (i = 0 \/ i \in 1 .. n)
    BY <1>1
  <2>2. \A i \in 0 .. n : at(i) = IF i = 0 THEN 1 ELSE next(i, f[i - 1])
    BY <1>3, <1>4, <2>1
  <2> QED
    BY <2>2
<1>6. index = [i \in 0 .. n |-> IF i = 0 THEN 1 ELSE next(i, index[i - 1])]
  <2> HIDE DEF n, f
  <2> QED
    BY <1>5 DEF index
<1> HIDE DEF index
<1> DEFINE S == {i \in 0 .. n : index[i] = at(i)}
<1>7. 0 \in S
  BY <1>1, <1>3, <1>6
<1>8. ASSUME NEW i \in 1 .. n, i - 1 \in S
      PROVE  i \in S
  <2>1. i \in 0 .. n /\ i # 0
    BY <1>1
  <2> QED
    BY <1>4, <1>6, <1>8, <2>1
<1>9. index[n] = at(n)
  <2>1. 0 .. n \subseteq S
    <3> HIDE DEF n, S
    <3> QED
      BY <1>1, <1>7, <1>8, RangeInduction
  <2> QED
    BY <1>1, <2>1
<1>10. at(n) # 0 <=> fits(n)
  <2>1. count(n) \in Nat
    BY <1>1, <1>2
  <2> QED
    BY <2>1 DEF at
<1>11. IsOfType(ctor, args) <=> index[n] # 0
  BY DEF IsOfType, index, next
<1> QED
  BY <1>9, <1>10, <1>11

LEMMA TriedTakes ==
  ASSUME NEW ctor \in Seq(Params), OneState(ctor), NEW args, Len(args) \in Nat
  PROVE  StackCountFits(ctor, Len(args)) /\ IsOfType(ctor, args) <=> Takes(ctor, args)
<1> DEFINE listed == {i \in DOMAIN ctor : ~IsState(ctor[i])}
           argument(i) == args[Cardinality({j \in listed : j <= i})]
<1>1. listed = Listed(ctor, Len(ctor)) /\ DOMAIN ctor = 1 .. Len(ctor)
  BY DEF Listed
<1>2. \A i \in 1 .. Len(ctor) : {j \in listed : j <= i} = Listed(ctor, i)
  BY <1>1 DEF Listed
<1>3. (\A i \in listed : Fits(ctor[i].trait, ctor[i].type, argument(i)))
        <=> \A i \in 1 .. Len(ctor) : Fitting(ctor, args, i)
  <2>1. \A i \in 1 .. Len(ctor) : i \in listed <=> ~IsState(ctor[i])
    BY <1>1
  <2>2. \A i \in listed : i \in 1 .. Len(ctor)
    BY <1>1
  <2> HIDE DEF listed
  <2> QED
    BY <1>2, <2>1, <2>2 DEF Fitting
<1>4. Takes(ctor, args)
        <=> /\ Cardinality(listed) = Len(args)
            /\ \A i \in listed : Fits(ctor[i].trait, ctor[i].type, argument(i))
  BY DEF Takes
<1> HIDE DEF listed, argument
<1> QED
  BY <1>1, <1>3, <1>4, CountFits, TestedInOrder

LEMMA LeastOf ==
  ASSUME NEW S \in SUBSET Nat, S # {}
  PROVE  \E i \in S : \A other \in S : i <= other
<1>1. PICK i \in S : \A other \in S : ~(<<other, i>> \in OpToRel(<, Nat))
  BY WFMin, NatLessThanWellFounded
<1>2. \A j, k \in Nat : j < k => <<j, k>> \in OpToRel(<, Nat)
  BY Zenon DEF OpToRel
<1>3. \A other \in S : ~(other < i)
  BY <1>1, <1>2
<1>4. \A j, k \in Nat : ~(j < k) => k <= j
  OBVIOUS
<1> QED
  BY <1>1, <1>3, <1>4

\* What is constructed by the first entry of the block whose test it passes.
LEMMA MatchedIsFirst ==
  ASSUME block \in Seq(Seq(Params)), \A i \in DOMAIN block : OneState(block[i]),
         NEW args, Len(args) \in Nat
  PROVE  /\ \A i \in Matched(args) : /\ i \in DOMAIN block
                                     /\ Takes(block[i], args)
                                     /\ \A k \in 1 .. i - 1 : ~Takes(block[k], args)
         /\ Matched(args) = {} => \A i \in DOMAIN block : ~Takes(block[i], args)
<1> DEFINE fits == {i \in Tried(args) : IsOfType(block[i], args)}
<1>1. fits = {i \in DOMAIN block : Takes(block[i], args)}
  <2> SUFFICES ASSUME NEW i \in DOMAIN block
               PROVE  StackCountFits(block[i], Len(args)) /\ IsOfType(block[i], args)
                        <=> Takes(block[i], args)
    BY DEF Tried
  <2>1. block[i] \in Seq(Params) /\ OneState(block[i])
    OBVIOUS
  <2> QED
    BY <2>1, TriedTakes
<1>2. Matched(args) = {i \in fits : \A other \in fits : i <= other}
  BY DEF Matched
<1>3. DOMAIN block = 1 .. Len(block) /\ Len(block) \in Nat
  OBVIOUS
<1> HIDE DEF fits
<1>4. ASSUME NEW i \in Matched(args)
      PROVE  /\ i \in DOMAIN block
             /\ Takes(block[i], args)
             /\ \A k \in 1 .. i - 1 : ~Takes(block[k], args)
  <2>1. i \in fits /\ \A other \in fits : i <= other
    BY <1>2
  <2>2. i \in 1 .. Len(block) /\ Takes(block[i], args)
    BY <1>1, <1>3, <2>1
  <2>3. ASSUME NEW k \in 1 .. i - 1
        PROVE  ~Takes(block[k], args)
    <3>1. k \in DOMAIN block /\ ~(i <= k)
      BY <1>3, <2>2
    <3> QED
      BY <1>1, <2>1, <3>1
  <2> QED
    BY <1>3, <2>2, <2>3
<1>5. ASSUME Matched(args) = {}
      PROVE  fits = {}
  <2>1. fits \in SUBSET Nat
    BY <1>1, <1>3
  <2> QED
    BY <1>2, <1>5, <2>1, LeastOf
<1> QED
  BY <1>1, <1>4, <1>5

ConstructsInv ==
  /\ type \in CppType /\ type.decl \in Shapes
  /\ block \in Seq(Seq(Params)) /\ \A i \in DOMAIN block : OneState(block[i])
  /\ \/ call = Idle
     \/ /\ call.args \in ArgLists
        /\ call.out \in {"made", "exception"} =>
             \/ call.by \in Matched(call.args)
             \/ call.by = 0 /\ call.args = <<>> /\ Matched(<<>>) = {}

LEMMA InitConstructs == Init => ConstructsInv
<1> SUFFICES ASSUME Init
             PROVE  ConstructsInv
  OBVIOUS
<1>1. type \in CppType /\ type.decl \in Shapes
  BY ConstructorsAssumption DEF Init, Shapes
<1>2. block \in Seq(Seq(Params)) /\ DOMAIN block = {}
  BY DEF Init
<1> QED
  BY <1>1, <1>2 DEF ConstructsInv, Init

LEMMA DeclaratorConstructs ==
  ASSUME ConstructsInv, NEW d \in Declarators, Declarator(d)
  PROVE  ConstructsInv'
<1>1. CanDeclare(type, d) /\ type' = [type EXCEPT !.decl = Append(type.decl, d)]
  BY DEF Declarator, Declare
<1>2. Append(type.decl, d) \in Shapes
  BY <1>1, ShapesClosed DEF ConstructsInv
<1>3. Append(type.decl, d) \in Seq(Declarators)
  BY <1>2, ShapesAreSeqs
<1> DEFINE decl == Append(type.decl, d)
<1> HIDE DEF decl
<1>4. type' = [type EXCEPT !.decl = decl] /\ decl \in Shapes /\ decl \in Seq(Declarators)
  BY <1>1, <1>2, <1>3 DEF decl
<1>5. type' \in CppType /\ type'.decl \in Shapes
  BY <1>4 DEF ConstructsInv, CppType
<1>6. block' = block /\ call' = call /\ call = Idle
  BY DEF Declarator, Declaring
<1> QED
  BY <1>5, <1>6 DEF ConstructsInv, Idle

LEMMA ExposeConstructs ==
  ASSUME ConstructsInv, NEW ctor \in Seq(Params), OneState(ctor), Expose(ctor)
  PROVE  ConstructsInv'
<1>1. block' = Append(block, ctor) /\ type' = type /\ call' = call /\ call = Idle
  BY DEF Expose
<1>2. block \in Seq(Seq(Params))
  BY DEF ConstructsInv
<1>3. /\ block' \in Seq(Seq(Params))
      /\ \A i \in DOMAIN block' : (i \in DOMAIN block /\ block'[i] = block[i]) \/ block'[i] = ctor
  BY <1>1, <1>2
<1>4. \A i \in DOMAIN block' : OneState(block'[i])
  BY <1>3 DEF ConstructsInv, OneState
<1> QED
  BY <1>1, <1>3, <1>4 DEF ConstructsInv, Idle

LEMMA NewConstructs ==
  ASSUME ConstructsInv, NEW args \in ArgLists, New(args)
  PROVE  ConstructsInv'
<1>1. ASSUME NEW out, NEW by, Ends(args, out, by),
             out \in {"made", "exception"} =>
               by \in Matched(args) \/ (by = 0 /\ args = <<>> /\ Matched(args) = {})
      PROVE  ConstructsInv'
  <2>1. /\ type' = type /\ block' = block
        /\ call' = [args |-> args, out |-> out, by |-> by]
    BY <1>1 DEF Ends
  <2>2. call'.args = args /\ call'.out = out /\ call'.by = by
    BY <2>1
  <2>3. Matched(args)' = Matched(args)
    BY <2>1 DEF Matched, Tried
  <2> QED
    BY <1>1, <2>1, <2>2, <2>3 DEF ConstructsInv
<1>2. CASE NewIsNil(args)
  BY <1>1, <1>2 DEF NewIsNil
<1>3. CASE NewThrows(args)
  BY <1>1, <1>3 DEF NewThrows
<1>4. CASE NewMatches(args)
  BY <1>1, <1>4 DEF NewMatches
<1>5. CASE NewDefault(args)
  <2>1. /\ Matched(args) = {} /\ args = <<>>
        /\ \E out : Ends(args, out, 0)
    BY <1>5 DEF NewDefault
  <2> QED
    BY <1>1, <2>1
<1>6. CASE NewUnmatched(args)
  BY <1>1, <1>6 DEF NewUnmatched
<1> QED
  BY <1>2, <1>3, <1>4, <1>5, <1>6 DEF New

LEMMA NextConstructs ==
  ASSUME OverloadsTakeOneState, ConstructsInv, [Next]_vars
  PROVE  ConstructsInv'
<1>1. ASSUME NEW d \in Declarators, Declarator(d)
      PROVE  ConstructsInv'
  BY <1>1, DeclaratorConstructs
<1>2. ASSUME NEW trait \in ParamTraits, Expose(<<Param(trait, type)>>)
      PROVE  ConstructsInv'
  <2>1. Param(trait, type) \in Params
    BY DEF Param, Params, ConstructsInv
  <2> DEFINE p == Param(trait, type)
  <2> HIDE DEF p
  <2>2. <<p>> \in Seq(Params) /\ DOMAIN <<p>> = 1 .. 1
    BY <2>1 DEF p
  <2>3. OneState(<<p>>)
    BY <2>2 DEF OneState
  <2> QED
    BY <1>2, <2>2, <2>3, ExposeConstructs DEF p
<1>3. ASSUME NEW ctor \in Overloads, Expose(ctor)
      PROVE  ConstructsInv'
  BY <1>3, ExposeConstructs, ConstructorsAssumption DEF OverloadsTakeOneState
<1>4. ASSUME NEW args \in ArgLists, New(args)
      PROVE  ConstructsInv'
  BY <1>4, NewConstructs
<1>5. CASE UNCHANGED vars
  <2>1. type' = type /\ block' = block /\ call' = call
    BY <1>5 DEF vars
  <2>2. \A args : Matched(args)' = Matched(args)
    BY <2>1 DEF Matched, Tried
  <2> QED
    BY <2>1, <2>2 DEF ConstructsInv, Idle
<1> QED
  BY <1>1, <1>2, <1>3, <1>4, <1>5 DEF Next

LEMMA Constructs ==
  ASSUME OverloadsTakeOneState
  PROVE  Spec => []ConstructsInv
<1>1. ConstructsInv /\ [Next]_vars => ConstructsInv'
  BY NextConstructs
<1> QED
  BY <1>1, InitConstructs, PTL DEF Spec

\* What constructs is the first entry of the block which takes the arguments,
\* and without one only the default constructor: the number of arguments an entry
\* is tried for and the test of its parameters, one at a time, come to the same
\* as that the arguments are those of the parameters.
THEOREM ConstructorsAreTriedInOrder ==
  ASSUME OverloadsTakeOneState
  PROVE  Spec => []FirstFittingConstructs
<1>1. ASSUME ConstructsInv
      PROVE  FirstFittingConstructs
  <2> SUFFICES ASSUME call.out \in {"made", "exception"}
               PROVE  IF call.by = 0 THEN /\ call.args = <<>>
                                          /\ \A i \in DOMAIN block : ~Takes(block[i], <<>>)
                      ELSE /\ Takes(block[call.by], call.args)
                           /\ \A i \in 1 .. call.by - 1 : ~Takes(block[i], call.args)
    BY DEF FirstFittingConstructs
  <2>1. call # Idle
    BY DEF Idle
  <2>2. /\ call.args \in ArgLists
        /\ \/ call.by \in Matched(call.args)
           \/ call.by = 0 /\ call.args = <<>> /\ Matched(<<>>) = {}
    BY <1>1, <2>1 DEF ConstructsInv
  <2>3. Len(call.args) \in Nat
    BY <2>2, ConstructorsAssumption
  <2>4. CASE call.by \in Matched(call.args)
    <3>1. /\ call.by \in DOMAIN block
          /\ Takes(block[call.by], call.args)
          /\ \A i \in 1 .. call.by - 1 : ~Takes(block[i], call.args)
      BY <1>1, <2>3, <2>4, MatchedIsFirst DEF ConstructsInv
    <3>2. call.by # 0
      BY <1>1, <3>1 DEF ConstructsInv
    <3> QED
      BY <3>1, <3>2
  <2>5. CASE call.by = 0 /\ call.args = <<>> /\ Matched(<<>>) = {}
    BY <1>1, <2>3, <2>5, MatchedIsFirst DEF ConstructsInv
  <2> QED
    BY <2>2, <2>4, <2>5
<1>2. Spec => []ConstructsInv
  BY Constructs
<1> QED
  BY <1>1, <1>2, PTL

-----------------------------------------------------------------------------
(* What is pulled for a parameter.                                         *)

AsPtr(t) == [t EXCEPT !.decl = <<"*">>]
AsConstPtr(t) == [t EXCEPT !.decl = <<"const", "*">>]

Declarable(t) == t \in CppType /\ t.decl \in Shapes

LEMMA RawFacts ==
  ASSUME NEW t, Declarable(t)
  PROVE  /\ raw_type(t) = [t EXCEPT !.decl = <<>>]
         /\ raw_type(t) \in CppType /\ Declarable(raw_type(t))
         /\ raw_type(t).decl = <<>> /\ raw_type(t).base = t.base /\ raw_type(t).shared = t.shared
         /\ AsPtr(raw_type(t)) = AsPtr(t) /\ AsConstPtr(raw_type(t)) = AsConstPtr(t)
<1>1. raw_type(t) = [t EXCEPT !.decl = <<>>]
  BY RawType DEF Declarable
<1>2. <<>> \in Seq(Declarators) /\ <<>> \in Shapes
  BY DEF Shapes
<1> QED
  BY <1>1, <1>2 DEF Declarable, CppType, AsPtr, AsConstPtr

LEMMA PointerTypes ==
  ASSUME NEW t \in CppType
  PROVE  /\ AsPtr(t) \in CppType /\ AsPtr(t).decl = <<"*">>
         /\ AsPtr(t).base = t.base /\ AsPtr(t).shared = t.shared
         /\ AsConstPtr(t) \in CppType /\ AsConstPtr(t).decl = <<"const", "*">>
         /\ AsConstPtr(t).base = t.base /\ AsConstPtr(t).shared = t.shared
<1>1. <<"*">> \in Seq(Declarators) /\ <<"const", "*">> \in Seq(Declarators)
  BY ShapeLengths
<1>2. AsPtr(t) \in CppType /\ AsConstPtr(t) \in CppType
  BY <1>1 DEF CppType, AsPtr, AsConstPtr
<1> QED
  BY <1>2 DEF AsPtr, AsConstPtr, CppType

LEMMA PullTypes ==
  ASSUME NEW raw \in CppType, raw.decl = <<>>
  PROVE  /\ Declare(raw, "*") = AsPtr(raw)
         /\ [raw EXCEPT !.decl = @ \o <<"const", "*">>] = AsConstPtr(raw)
<1>1. "*" \in Declarators /\ <<"const", "*">> \in Shapes
  BY DEF Declarators, Shapes
<1>2. Append(<<>>, "*") = <<"*">> /\ <<>> \o <<"const", "*">> = <<"const", "*">>
  BY <1>1, AppendTo, Concats
<1> QED
  BY <1>2 DEF Declare, AsPtr, AsConstPtr

LEMMA EnumDefaults ==
  ASSUME NEW t
  PROVE  LET e == Type_enum_defaults(t, raw_type(t))
         IN  /\ e.raw = raw_type(t)
             /\ e.is_by_value = is_by_value(t)
             /\ e.is_constant = is_const(t)
             /\ e.is_integral = is_integral(raw_type(t))
BY DEF Type_enum_defaults

Integrally(raw) == is_integral(raw) \/ is_false_integral(raw)

LEMMA TraitFields ==
  ASSUME NEW pull, NEW in, NEW out, NEW owner, NEW e, NEW constant, NEW integral, NEW legal
  PROVE  LET tr == Trait(pull, in, out, owner, e, constant, integral, legal)
         IN  /\ tr.raw = e.raw /\ tr.pull = pull /\ tr.owner = owner
             /\ tr.by_value = e.is_by_value /\ tr.constant = constant
             /\ tr.integral = integral /\ tr.legal = legal
BY DEF Trait

LEMMA InTrait ==
  ASSUME NEW t, Declarable(t), t # calling_lua_state, ~IsCString(t)
  PROVE  LET tr == TraitOf("in_p", t)  raw == raw_type(t)
         IN  /\ tr.raw = raw
             /\ tr.integral = Integrally(raw)
             /\ tr.constant = (is_const(t) \/ is_shared_const(raw))
             /\ Integrally(raw) => tr.pull = raw
             /\ ~Integrally(raw) =>
                  tr.pull = IF is_const(t) \/ is_by_value(t) THEN AsConstPtr(raw) ELSE AsPtr(raw)
<1> DEFINE raw == raw_type(t)
           e == Type_enum_defaults(t, raw)
<1>1. raw \in CppType /\ raw.decl = <<>>
  BY RawFacts
<1>2. /\ e.raw = raw /\ e.is_by_value = is_by_value(t)
      /\ e.is_constant = is_const(t) /\ e.is_integral = is_integral(raw)
  BY EnumDefaults
<1>3. TraitOf("in_p", t) = in_p(t, e)
  BY DEF TraitOf, TraitFor
<1>4. /\ Declare(raw, "*") = AsPtr(raw)
      /\ [raw EXCEPT !.decl = @ \o <<"const", "*">>] = AsConstPtr(raw)
  BY <1>1, PullTypes
<1> HIDE DEF e, raw
<1>5. in_p(t, e) = Trait(Pull_type_(e, Integrally(raw)), 1, 0, "No_change", e,
                 e.is_constant \/ is_shared_const(raw), Integrally(raw),
                 t # Type("char", <<"*", "&">>))
  BY <1>2 DEF in_p, Integrally
<1>6. Pull_type_(e, Integrally(raw)) =
        IF Integrally(raw) THEN raw
        ELSE IF is_const(t) \/ is_by_value(t) THEN AsConstPtr(raw) ELSE AsPtr(raw)
  BY <1>2, <1>4 DEF Pull_type_
<1> QED
  BY <1>2, <1>3, <1>5, <1>6, TraitFields DEF raw

LEMMA StringTrait ==
  ASSUME NEW t, IsCString(t)
  PROVE  /\ TraitOf("in_p", t).pull = Type("char", <<"const", "*">>)
         /\ TraitOf("in_p", t).raw = Type("char", <<"*">>)
         /\ TraitOf("in_p", t).integral
<1>1. t # calling_lua_state
  BY DEF IsCString, calling_lua_state, Type
<1> QED
  BY <1>1 DEF TraitOf, TraitFor, in_p, Trait

LEMMA StateTrait ==
  /\ TraitOf("in_p", calling_lua_state).pull = calling_lua_state
  /\ TraitOf("in_p", calling_lua_state).integral
BY DEF TraitOf, TraitFor, in_p, Trait

LEMMA LightTrait ==
  ASSUME NEW t
  PROVE  /\ TraitOf("light_p", t).pull = Type("void", <<"*">>)
         /\ TraitOf("light_p", t).raw = Type("void", <<"*">>)
         /\ TraitOf("light_p", t).integral
BY DEF TraitOf, TraitFor, light

LEMMA InOutTrait ==
  ASSUME NEW t, Declarable(t)
  PROVE  LET tr == TraitOf("in_out_p", t)  raw == raw_type(t)
         IN  /\ tr.raw = raw
             /\ tr.integral = Integrally(raw)
             /\ tr.constant = is_const(t)
             /\ tr.legal = ~is_by_value(t)
             /\ tr.pull = IF is_integral_type(raw) \/ is_false_integral(raw) THEN raw ELSE AsPtr(raw)
<1> DEFINE raw == raw_type(t)
           e == Type_enum_defaults(t, raw)
<1>1. raw \in CppType /\ raw.decl = <<>>
  BY RawFacts
<1>2. /\ e.raw = raw /\ e.is_by_value = is_by_value(t)
      /\ e.is_constant = is_const(t) /\ e.is_integral = is_integral(raw)
  BY EnumDefaults
<1>3. TraitOf("in_out_p", t) = in_out_p(e)
  BY DEF TraitOf, TraitFor
<1>4. Declare(raw, "*") = AsPtr(raw)
  BY <1>1, PullTypes
<1> HIDE DEF e, raw
<1> QED
  BY <1>2, <1>3, <1>4 DEF Trait, raw, in_out_p, Pull_type, Integrally

LEMMA CppInTrait ==
  ASSUME NEW t, Declarable(t)
  PROVE  LET tr == TraitOf("cpp_in_p", t)  raw == raw_type(t)
         IN  /\ tr.raw = raw
             /\ tr.integral = is_integral(raw)
             /\ tr.constant = is_const(t)
             /\ tr.legal = (/\ ~is_by_value(t) /\ ~is_integral(raw)
                            /\ ~JustRef(t) /\ ~JustConstRef(t))
             /\ tr.pull = IF is_integral_type(raw) THEN raw ELSE AsPtr(raw)
<1> DEFINE raw == raw_type(t)
           e == Type_enum_defaults(t, raw)
<1>1. raw \in CppType /\ raw.decl = <<>>
  BY RawFacts
<1>2. /\ e.raw = raw /\ e.is_by_value = is_by_value(t)
      /\ e.is_constant = is_const(t) /\ e.is_integral = is_integral(raw)
  BY EnumDefaults
<1>3. TraitOf("cpp_in_p", t) = cpp_in_p(t, e)
  BY DEF TraitOf, TraitFor
<1>4. Declare(raw, "*") = AsPtr(raw)
  BY <1>1, PullTypes
<1> HIDE DEF e, raw
<1>5. TraitOf("cpp_in_p", t) =
        Trait(Pull_type(e.raw, is_integral_type(e.raw)), 1, 0, "Cpp", e, e.is_constant, e.is_integral,
              ~e.is_by_value /\ ~e.is_integral /\ ~JustRef(t) /\ ~JustConstRef(t))
  BY <1>3 DEF cpp_in_p
<1>6. TraitOf("cpp_in_p", t).legal =
        (~e.is_by_value /\ ~e.is_integral /\ ~JustRef(t) /\ ~JustConstRef(t))
  BY <1>5, TraitFields
<1>7. Pull_type(e.raw, is_integral_type(e.raw)) =
        IF is_integral_type(raw) THEN raw ELSE AsPtr(raw)
  BY <1>2, <1>4 DEF Pull_type
<1>8. TraitOf("cpp_in_p", t).legal =
        (~is_by_value(t) /\ ~is_integral(raw) /\ ~JustRef(t) /\ ~JustConstRef(t))
  BY <1>2, <1>6
<1>9. LET tr == TraitOf("cpp_in_p", t)
      IN  /\ tr.raw = raw /\ tr.integral = is_integral(raw) /\ tr.constant = is_const(t)
          /\ tr.pull = IF is_integral_type(raw) THEN raw ELSE AsPtr(raw)
  BY <1>2, <1>5, <1>7, TraitFields
<1> QED
  BY <1>8, <1>9 DEF raw

LEMMA PointerReader ==
  ASSUME NEW raw \in CppType, raw.decl = <<>>, ~IsVoid(raw), NEW u,
         u = AsPtr(raw) \/ (u = AsConstPtr(raw) /\ ~is_integral_type(raw))
  PROVE  Reader(u) = IF has_a_proxy_type(raw) THEN "class" ELSE "none"
<1>1. /\ u.decl \in {<<"*">>, <<"const", "*">>} /\ u.base = raw.base /\ u.shared = raw.shared
      /\ [u EXCEPT !.decl = <<>>] = raw
  BY PointerTypes DEF CppType, AsPtr, AsConstPtr
<1>2. u # Type("void", <<"*">>)
  BY <1>1 DEF Type, IsVoid
<1>3. u # Type("char", <<"const", "*">>)
  <2>1. CASE u = AsPtr(raw)
    BY <2>1, PointerTypes DEF Type
  <2>2. CASE u = AsConstPtr(raw) /\ ~is_integral_type(raw)
    BY <1>1, <2>2 DEF Type, is_integral_type, Named, Integral
  <2> QED
    BY <2>1, <2>2
<1>4. u.decl # <<>>
  BY <1>1
<1> QED
  BY <1>1, <1>2, <1>3, <1>4 DEF Reader, has_a_proxy_type

LEMMA ValueReader ==
  ASSUME NEW raw \in CppType, raw.decl = <<>>
  PROVE  /\ Reader(raw) = "state" => raw = calling_lua_state
         /\ Reader(raw) # "class" /\ Reader(raw) # "light" /\ Reader(raw) # "cstring"
         /\ Reader(raw) = "shared" <=> raw.shared # "no"
         /\ Named(raw, {"bool"}) => Reader(raw) = "bool"
         /\ IsNumber(raw) /\ ~Named(raw, {"bool"}) => Reader(raw) = "number"
         /\ is_integral_string_class(raw) => Reader(raw) = "string"
         /\ is_lua_ref(raw) \/ Named(raw, {"Table"}) => Reader(raw) = raw.base
<1> DEFINE isState == raw = calling_lua_state
           isShared == raw.shared # "no"
           isBool == Named(raw, {"bool"})
           isNumber == IsNumber(raw) /\ ~Named(raw, {"bool"})
           isString == is_integral_string_class(raw)
           isOwn == is_lua_ref(raw) \/ Named(raw, {"Table"})
<1>1. Reader(raw) = CASE isState -> "state" [] isShared -> "shared" [] isBool -> "bool"
                      [] isNumber -> "number" [] isString -> "string" [] isOwn -> raw.base
                      [] OTHER -> "none"
  BY DEF Reader
<1>2. /\ isState => ~isShared /\ ~isBool /\ ~isNumber /\ ~isString /\ ~isOwn
      /\ isShared => ~isBool /\ ~isNumber /\ ~isString /\ ~isOwn
      /\ isBool => ~isNumber /\ ~isString /\ ~isOwn
      /\ isNumber => ~isString /\ ~isOwn
      /\ isString => ~isOwn
  BY DEF calling_lua_state, Type, Named, IsNumber, is_integral_type, can_convert_to_int,
         is_scoped_enum, is_class_type, is_integral_string_class, is_lua_ref, Integral, LuaRefs
<1>3. isOwn => raw.base \in {"Lua_table_ref", "Lua_func_ref", "Table"}
  BY DEF is_lua_ref, LuaRefs, Named
<1> HIDE DEF isState, isShared, isBool, isNumber, isString, isOwn
<1>4. /\ isShared => Reader(raw) = "shared"
      /\ isBool => Reader(raw) = "bool"
      /\ isNumber => Reader(raw) = "number"
      /\ isString => Reader(raw) = "string"
      /\ isOwn => Reader(raw) = raw.base
  BY <1>1, <1>2
<1>5. /\ Reader(raw) = "state" => isState
      /\ Reader(raw) # "class" /\ Reader(raw) # "light" /\ Reader(raw) # "cstring"
      /\ Reader(raw) = "shared" => isShared
  BY <1>1, <1>2, <1>3
<1> QED
  BY <1>4, <1>5 DEF isState, isShared, isBool, isNumber, isString, isOwn

Readers == {"state", "light", "cstring", "class", "none", "shared", "bool", "number", "string",
            "Table", "Lua_table_ref", "Lua_func_ref"}

LEMMA OwnReaders ==
  /\ Reader(Type("void", <<"*">>)) = "light"
  /\ Reader(Type("char", <<"const", "*">>)) = "cstring"
  /\ Reader(calling_lua_state) = "state"
<1>1. Reader(Type("void", <<"*">>)) = "light"
  <2>1. ~Named([Type("void", <<"*">>) EXCEPT !.decl = <<>>], Proxied)
    BY TypesAssumption DEF Named, Type, Unproxied
  <2> QED
    BY <2>1 DEF Reader, Type
<1>2. Reader(Type("char", <<"const", "*">>)) = "cstring"
  <2>1. ~Named([Type("char", <<"const", "*">>) EXCEPT !.decl = <<>>], Proxied)
    BY TypesAssumption DEF Named, Type, Unproxied, Integral
  <2> QED
    BY <2>1 DEF Reader, Type
<1>3. Reader(calling_lua_state) = "state"
  BY DEF Reader, calling_lua_state, Type, Named, IsNumber, is_integral_type, can_convert_to_int,
         is_scoped_enum, is_class_type, is_integral_string_class, is_lua_ref, Integral, LuaRefs
<1> QED
  BY <1>1, <1>2, <1>3

LEMMA ReaderRange ==
  ASSUME NEW raw \in CppType, raw.decl = <<>>
  PROVE  Reader(raw) \in Readers
<1>1. is_lua_ref(raw) \/ Named(raw, {"Table"}) => raw.base \in {"Lua_table_ref", "Lua_func_ref", "Table"}
  BY DEF is_lua_ref, LuaRefs, Named
<1> QED
  BY <1>1 DEF Reader, Readers

LEMMA NotIntegral ==
  /\ ~Integrally(calling_lua_state)
  /\ \A raw : has_a_proxy_type(raw) => ~Integrally(raw) /\ ~is_integral_type(raw)
BY TypesAssumption
   DEF Integrally, is_integral, is_false_integral, calling_lua_state, Type, Named, has_a_proxy_type,
       is_integral_type, can_convert_to_int, is_scoped_enum, is_class_type, is_shared_type,
       is_integral_string_class, is_lua_ref, Integral, LuaRefs, Unproxied

\* The traits which pull an object by a pointer to what was named
ObjectTraits == {"in_p", "in_out_p", "cpp_in_p"}

LEMMA PulledAs ==
  ASSUME NEW t, Declarable(t), NEW trait \in ObjectTraits,
         trait = "in_p" => t # calling_lua_state /\ ~IsCString(t)
  PROVE  LET pull == TraitOf(trait, t).pull  raw == raw_type(t)
         IN  /\ TraitOf(trait, t).raw = raw
             /\ \/ pull = raw /\ Integrally(raw)
                \/ pull = AsPtr(raw) /\ (trait = "in_p" => ~is_const(t) /\ ~is_by_value(t))
                \/ /\ pull = AsConstPtr(raw) /\ ~Integrally(raw) /\ trait = "in_p"
                   /\ is_const(t) \/ is_by_value(t)
<1>1. CASE trait = "in_p"
  BY <1>1, InTrait
<1>2. CASE trait = "in_out_p"
  BY <1>2, InOutTrait DEF Integrally, is_integral
<1>3. CASE trait = "cpp_in_p"
  BY <1>3, CppInTrait DEF Integrally, is_integral
<1> QED
  BY <1>1, <1>2, <1>3 DEF ObjectTraits

\* What is read for a parameter which is pulled as an object or as a value
LEMMA ReadAs ==
  ASSUME NEW t, Declarable(t), ~IsVoid(t), NEW trait \in ObjectTraits,
         trait = "in_p" => t # calling_lua_state /\ ~IsCString(t)
  PROVE  LET raw == raw_type(t)
         IN  \/ /\ Integrally(raw) /\ TraitOf(trait, t).pull = raw
                /\ ReaderOf(trait, t) = Reader(raw)
             \/ /\ TraitOf(trait, t).pull \in {AsPtr(raw), AsConstPtr(raw)}
                /\ ReaderOf(trait, t) = IF has_a_proxy_type(raw) THEN "class" ELSE "none"
<1> DEFINE raw == raw_type(t)
<1>1. raw \in CppType /\ raw.decl = <<>> /\ ~IsVoid(raw)
  BY RawFacts DEF IsVoid
<1>2. CASE TraitOf(trait, t).pull = raw /\ Integrally(raw)
  BY <1>2 DEF ReaderOf
<1>3. CASE TraitOf(trait, t).pull = AsPtr(raw)
  BY <1>1, <1>3, PointerReader DEF ReaderOf
<1>4. CASE TraitOf(trait, t).pull = AsConstPtr(raw) /\ ~Integrally(raw)
  BY <1>1, <1>4, PointerReader DEF ReaderOf, Integrally, is_integral
<1> QED
  BY <1>2, <1>3, <1>4, PulledAs

\* Whether a parameter may change the object it is given
LEMMA ChangesAs ==
  ASSUME NEW t, Declarable(t), ~IsVoid(t), NEW trait \in ObjectTraits,
         ReaderOf(trait, t) = "class"
  PROVE  /\ has_a_proxy_type(raw_type(t))
         /\ trait = "in_p" => t # calling_lua_state /\ ~IsCString(t)
         /\ trait = "in_p" => (MayChange(trait, t) <=> ~is_const(t) /\ ~is_by_value(t))
         /\ trait = "in_out_p" => MayChange(trait, t)
         /\ trait = "cpp_in_p" => (MayChange(trait, t) <=> ~is_const(t))
<1> DEFINE raw == raw_type(t)
           pull == TraitOf(trait, t).pull
<1>1. raw \in CppType /\ raw.decl = <<>>
  BY RawFacts
<1>2. ASSUME trait = "in_p"
      PROVE  t # calling_lua_state /\ ~IsCString(t)
  BY <1>2, StateTrait, StringTrait, OwnReaders DEF ReaderOf
<1>3. has_a_proxy_type(raw) /\ pull \in {AsPtr(raw), AsConstPtr(raw)}
  <2>1. Reader(raw) # "class"
    BY <1>1, ValueReader
  <2>2. \/ ReaderOf(trait, t) = Reader(raw)
        \/ /\ pull \in {AsPtr(raw), AsConstPtr(raw)}
           /\ ReaderOf(trait, t) = IF has_a_proxy_type(raw) THEN "class" ELSE "none"
    BY <1>2, ReadAs
  <2> QED
    BY <2>1, <2>2
<1>4. ~Integrally(raw) /\ ~is_integral_type(raw)
  BY <1>3, NotIntegral
<1>5. pull # raw
  <2>1. AsPtr(raw).decl = <<"*">> /\ AsConstPtr(raw).decl = <<"const", "*">>
    BY <1>1, PointerTypes
  <2>2. <<"*">> # <<>> /\ <<"const", "*">> # <<>>
    OBVIOUS
  <2> HIDE DEF raw, pull
  <2> QED
    BY <1>1, <1>3, <2>1, <2>2
<1>6. ~is_const(AsPtr(raw)) /\ is_const(AsConstPtr(raw))
  <2>1. AsPtr(raw).decl = <<"*">> /\ AsConstPtr(raw).decl = <<"const", "*">>
    BY <1>1, PointerTypes
  <2>2. AsPtr(raw).decl \in Shapes /\ AsConstPtr(raw).decl \in Shapes
    BY <2>1 DEF Shapes
  <2> QED
    BY <2>1, <2>2, IsConst
<1>7. CASE trait = "in_p"
  <2>1. pull = IF is_const(t) \/ is_by_value(t) THEN AsConstPtr(raw) ELSE AsPtr(raw)
    BY <1>2, <1>4, <1>7, InTrait
  <2> QED
    BY <1>2, <1>3, <1>6, <1>7, <2>1 DEF MayChange
<1>8. CASE trait = "in_out_p"
  <2>1. pull = AsPtr(raw)
    BY <1>5, <1>8, InOutTrait
  <2> QED
    BY <1>3, <1>6, <1>8, <2>1 DEF MayChange
<1>9. CASE trait = "cpp_in_p"
  BY <1>3, <1>9 DEF MayChange
<1> QED
  BY <1>7, <1>8, <1>9 DEF ObjectTraits

LEMMA ArgumentValues ==
  ASSUME NEW args \in ArgLists, NEW v \in Range(args)
  PROVE  v \in LuaValue /\ v.const \in BOOLEAN /\ (v.type # "userdata" => ~v.const /\ ~v.shared)
<1>1. args \in Seq(LuaValue)
  BY ConstructorsAssumption
<1>2. v \in LuaValue
  BY <1>1 DEF Range
<1> QED
  BY <1>2 DEF LuaValue, Value

LEMMA ReadsUserdata ==
  ASSUME NEW reader \in Readers, NEW raw, NEW mayChange \in BOOLEAN, NEW v, v.type = "userdata",
         Accepts(reader, raw, mayChange, v)
  PROVE  \/ reader = "state"
         \/ reader = "class" /\ ~(mayChange /\ v.const)
         \/ reader = "shared" /\ ~(raw.shared # "const" /\ v.const)
BY DEF Readers, Accepts, CheckIndex

\* Every way C++ lets a program declare the type keeps it in the shapes which the
\* templates are specialised for, whatever else a step does.
DeclaredInv == Declarable(type)

LEMMA Declared == Spec => []DeclaredInv
<1>1. Init => DeclaredInv
  BY ConstructorsAssumption DEF Init, DeclaredInv, Declarable, Shapes
<1>2. ASSUME DeclaredInv, [Next]_vars
      PROVE  DeclaredInv'
  <2>1. ASSUME NEW d \in Declarators, Declarator(d)
        PROVE  DeclaredInv'
    <3>1. CanDeclare(type, d) /\ type' = [type EXCEPT !.decl = Append(type.decl, d)]
      BY <2>1 DEF Declarator, Declare
    <3>2. Append(type.decl, d) \in Shapes
      BY <1>2, <3>1, ShapesClosed DEF DeclaredInv, Declarable
    <3>3. Append(type.decl, d) \in Seq(Declarators)
      BY <3>2, ShapesAreSeqs
    <3> DEFINE decl == Append(type.decl, d)
    <3> HIDE DEF decl
    <3>4. type' = [type EXCEPT !.decl = decl] /\ decl \in Shapes /\ decl \in Seq(Declarators)
      BY <3>1, <3>2, <3>3 DEF decl
    <3> QED
      BY <1>2, <3>4 DEF DeclaredInv, Declarable, CppType
  <2>2. ASSUME NEW ctor, Expose(ctor)
        PROVE  type' = type
    BY <2>2 DEF Expose
  <2>3. ASSUME NEW args, New(args)
        PROVE  type' = type
    BY <2>3 DEF New, NewIsNil, NewThrows, NewMatches, NewDefault, NewUnmatched, Ends
  <2>4. CASE UNCHANGED vars
    BY <1>2, <2>4 DEF vars, DeclaredInv, Declarable
  <2>5. CASE type' = type
    BY <1>2, <2>5 DEF DeclaredInv, Declarable
  <2> QED
    BY <1>2, <2>1, <2>2, <2>3, <2>4, <2>5 DEF Next
<1> QED
  BY <1>1, <1>2, PTL DEF Spec

\* How a parameter which compiles is read
LEMMA ParameterReader ==
  ASSUME NEW t, Declarable(t), NEW trait \in ObjectTraits, Compiles(trait, t),
         ReaderOf(trait, t) # "none"
  PROVE  \/ trait = "in_p" /\ t = calling_lua_state /\ ReaderOf(trait, t) = "state"
         \/ trait = "in_p" /\ IsCString(t) /\ ReaderOf(trait, t) = "cstring"
         \/ /\ trait = "in_p" => t # calling_lua_state /\ ~IsCString(t)
            /\ \/ /\ Integrally(raw_type(t)) /\ ReaderOf(trait, t) = Reader(raw_type(t))
                  /\ ReaderOf(trait, t) \in Readers \ {"state", "light", "cstring", "class", "none"}
               \/ has_a_proxy_type(raw_type(t)) /\ ReaderOf(trait, t) = "class"
<1>1. ~IsVoid(t)
  BY DEF Compiles, ObjectTraits
<1>2. CASE trait = "in_p" /\ t = calling_lua_state
  BY <1>2, StateTrait, OwnReaders DEF ReaderOf
<1>3. CASE trait = "in_p" /\ IsCString(t)
  BY <1>3, StringTrait, OwnReaders DEF ReaderOf
<1>4. CASE trait = "in_p" => t # calling_lua_state /\ ~IsCString(t)
  <2>1. raw_type(t) \in CppType /\ raw_type(t).decl = <<>>
    BY RawFacts
  <2>2. Reader(raw_type(t)) \in Readers
    BY <2>1, ReaderRange
  <2>3. /\ Reader(raw_type(t)) = "state" => raw_type(t) = calling_lua_state
        /\ Reader(raw_type(t)) # "class" /\ Reader(raw_type(t)) # "light"
        /\ Reader(raw_type(t)) # "cstring"
    BY <2>1, ValueReader
  <2>4. \/ /\ Integrally(raw_type(t)) /\ ReaderOf(trait, t) = Reader(raw_type(t))
        \/ ReaderOf(trait, t) = IF has_a_proxy_type(raw_type(t)) THEN "class" ELSE "none"
    BY <1>1, <1>4, ReadAs
  <2> QED
    BY <1>4, <2>2, <2>3, <2>4, NotIntegral
<1> QED
  BY <1>2, <1>3, <1>4

LEMMA MayChangeIsBoolean ==
  ASSUME NEW trait, NEW t
  PROVE  MayChange(trait, t) \in BOOLEAN
BY DEF MayChange

\* An instance which scripts may not change goes to nothing which may change it,
\* whatever the parameter is declared as: the traits decide on the pull type, the
\* readers on the check by its constness, and the two keep to the declaration.
THEOREM ConstantInstancesStayConstant == Spec => []ConstantStaysConstant
<1>1. ASSUME DeclaredInv
      PROVE  ConstantStaysConstant
  <2> SUFFICES ASSUME NEW trait \in ParamTraits \ {"light_p"}, NEW args \in ArgLists, NEW v \in Range(args),
                      v.const, Usable(Param(trait, type)), Reads(trait, type, v)
               PROVE  \/ type.decl = <<>>
                      \/ Head(type.decl) = "const"
                      \/ type.shared = "const"
    BY DEF ConstantStaysConstant
  <2>1. v.type = "userdata"
    BY ArgumentValues
  <2>2. Declarable(type)
    BY <1>1 DEF DeclaredInv
  <2>3. trait \in ObjectTraits
    BY DEF ParamTraits, ObjectTraits
  <2>4. Compiles(trait, type) /\ ReaderOf(trait, type) # "none"
    BY DEF Usable, Param
  <2> DEFINE reader == ReaderOf(trait, type)
             raw == raw_type(type)
             mayChange == MayChange(trait, type)
  <2>5. Accepts(reader, raw, mayChange, v) /\ mayChange \in BOOLEAN
    BY MayChangeIsBoolean DEF Reads
  <2>6. raw.shared = type.shared
    BY <2>2, RawFacts
  <2>7. \/ trait = "in_p" /\ type = calling_lua_state
        \/ reader = "cstring"
        \/ reader \in Readers \ {"state", "class"}
        \/ reader = "class"
    BY <2>2, <2>3, <2>4, ParameterReader
  <2>8. CASE type = calling_lua_state
    BY <2>8 DEF calling_lua_state, Type
  <2>9. CASE reader \in Readers \ {"state", "class"}
    <3>1. raw.shared = "const"
      <4> HIDE DEF reader, raw, mayChange
      <4> QED
        BY <2>1, <2>5, <2>9, ReadsUserdata
    <3> QED
      BY <2>6, <3>1
  <2>10. CASE reader = "class"
    <3>1. ~mayChange
      <4> HIDE DEF reader, raw, mayChange
      <4>1. "class" \in Readers
        BY DEF Readers
      <4> QED
        BY <2>1, <2>5, <2>10, <4>1, ReadsUserdata
    <3>2. is_const(type) \/ is_by_value(type)
      BY <2>2, <2>3, <2>4, <2>10, <3>1, ChangesAs DEF Compiles, ObjectTraits
    <3>3. type.decl \in {<<>>, <<"const">>, <<"const", "&">>, <<"const", "*">>,
                         <<"const", "*", "const">>, <<"const", "*", "const", "&">>,
                         <<"const", "*", "&">>}
      BY <2>2, <3>2, IsConst, ByReference DEF Declarable
    <3> QED
      BY <3>3
  <2> QED
    BY <2>7, <2>8, <2>9, <2>10 DEF Readers
<1> QED
  BY <1>1, Declared, PTL

\* What the test takes for the type of a value is what the value is read as.
LEMMA ValueIsReadAs ==
  ASSUME NEW raw \in CppType, raw.decl = <<>>, NEW v, NEW mayChange,
         lua_type(v) # "userdata", TypeIsCppType(raw, lua_type(v))
  PROVE  Integrally(raw) /\ Accepts(Reader(raw), raw, mayChange, v)
<1>1. raw_type(raw) = raw
  <2>1. Declarable(raw) /\ raw = [raw EXCEPT !.decl = <<>>]
    BY DEF Declarable, Shapes, CppType
  <2> QED
    BY <2>1, RawFacts
<1>2. raw # Type("void", <<"*">>) /\ raw # Type("char", <<"*">>)
  BY DEF Type
<1>3. CASE lua_type(v) = "number"
  <2>1. v.type = "number"
    BY <1>3 DEF lua_type
  <2>2. is_integral(raw) \/ is_scoped_enum(raw)
    BY <1>1, <1>3 DEF TypeIsCppType
  <2>3. raw # Type("bool", <<>>)
    BY <1>3 DEF TypeIsCppType
  <2>4. ~Named(raw, {"bool"})
    BY <2>3 DEF Named, CppType, Type
  <2>5. IsNumber(raw)
    BY <2>2 DEF IsNumber, is_integral
  <2>6. Reader(raw) = "number"
    BY <2>4, <2>5, ValueReader
  <2> QED
    BY <2>1, <2>2, <2>6 DEF Accepts, Integrally, is_false_integral
<1>4. CASE lua_type(v) = "string"
  <2>1. v.type \in {"string", "numeric string"}
    BY <1>4 DEF lua_type
  <2>2. is_integral_string_class(raw)
    BY <1>2, <1>4 DEF TypeIsCppType
  <2>3. Reader(raw) = "string"
    BY <2>2, ValueReader
  <2> QED
    BY <2>1, <2>2, <2>3 DEF Accepts, Integrally, is_false_integral
<1>5. CASE lua_type(v) = "boolean"
  <2>1. v.type = "boolean"
    BY <1>5 DEF lua_type
  <2>2. Named(raw, {"bool"})
    BY <1>5 DEF TypeIsCppType, Named, Type
  <2>3. Reader(raw) = "bool" /\ is_integral_type(raw)
    BY <2>2, ValueReader DEF is_integral_type, Named, Integral
  <2> QED
    BY <2>1, <2>3 DEF Accepts, Integrally, is_integral
<1>6. CASE lua_type(v) = "function"
  <2>1. v.type = "function"
    BY <1>6 DEF lua_type
  <2>2. raw = Type("Lua_func_ref", <<>>)
    BY <1>6 DEF TypeIsCppType
  <2>3. is_lua_ref(raw) /\ raw.base = "Lua_func_ref"
    BY <2>2 DEF is_lua_ref, Named, LuaRefs, Type
  <2>4. Reader(raw) = "Lua_func_ref"
    BY <2>3, ValueReader
  <2> QED
    BY <2>1, <2>3, <2>4 DEF Accepts, Integrally, is_false_integral
<1>7. CASE lua_type(v) = "table"
  <2>1. v.type = "table"
    BY <1>7 DEF lua_type
  <2>2. Named(raw, {"Lua_table_ref", "Table"})
    BY <1>7 DEF TypeIsCppType
  <2>3. /\ is_lua_ref(raw) \/ Named(raw, {"Table"})
        /\ raw.base \in {"Lua_table_ref", "Table"}
    BY <2>2 DEF is_lua_ref, Named, LuaRefs
  <2>4. Reader(raw) = raw.base
    BY <2>3, ValueReader
  <2> QED
    BY <2>1, <2>3, <2>4 DEF Accepts, Integrally, is_false_integral
<1>8. lua_type(v) \in {"number", "string", "boolean", "function", "table"}
  BY <1>2 DEF TypeIsCppType
<1> QED
  BY <1>3, <1>4, <1>5, <1>6, <1>7, <1>8

\* What the test takes for an instance is read as one.
LEMMA InstanceIsRead ==
  ASSUME NEW t, Declarable(t), NEW trait \in ObjectTraits, Compiles(trait, t),
         ReaderOf(trait, t) # "none", NEW v, index_can_convert(trait, t, v)
  PROVE  Reads(trait, t, v) \/ (trait = "in_out_p" /\ v.const)
<1> DEFINE raw == raw_type(t)
           tr == TraitOf(trait, t)
<1>1. ~tr.integral /\ IsA(v, tr.raw.base) /\ (v.const => tr.constant)
  BY DEF index_can_convert
<1>2. trait = "in_p" => t # calling_lua_state /\ ~IsCString(t)
  BY <1>1, StateTrait, StringTrait
<1>3. tr.raw = raw
  BY <1>2, PulledAs
<1>4. ~IsVoid(t)
  BY DEF Compiles, ObjectTraits
<1>5. raw \in CppType /\ raw.decl = <<>> /\ ~IsVoid(raw)
  BY <1>4, RawFacts DEF IsVoid
<1>6. ReaderOf(trait, t) = "class"
  <2>1. CASE trait = "cpp_in_p"
    <3>1. ~is_integral(raw)
      BY <1>1, <2>1, CppInTrait
    <3>2. tr.pull = AsPtr(raw)
      BY <2>1, <3>1, CppInTrait DEF is_integral
    <3> QED
      BY <1>5, <3>2, PointerReader DEF ReaderOf
  <2>2. CASE trait \in {"in_p", "in_out_p"}
    <3>1. ~Integrally(raw)
      BY <1>1, <1>2, <2>2, InTrait, InOutTrait
    <3> QED
      BY <1>2, <3>1, ParameterReader
  <2> QED
    BY <2>1, <2>2 DEF ObjectTraits
<1>7. v.const => trait = "in_out_p" \/ ~MayChange(trait, t)
  <2>1. CASE trait = "in_p"
    <3>1. ~Integrally(raw)
      BY <1>1, <1>2, <2>1, InTrait
    <3>2. ~is_shared_const(raw)
      BY <3>1 DEF Integrally, is_false_integral, is_shared_const
    <3>3. v.const => is_const(t)
      BY <1>1, <1>2, <2>1, <3>2, InTrait
    <3> QED
      BY <1>4, <1>6, <2>1, <3>3, ChangesAs
  <2>2. CASE trait = "cpp_in_p"
    <3>1. v.const => is_const(t)
      BY <1>1, <2>2, CppInTrait
    <3> QED
      BY <1>4, <1>6, <2>2, <3>1, ChangesAs
  <2> QED
    BY <2>1, <2>2 DEF ObjectTraits
<1> QED
  BY <1>1, <1>3, <1>6, <1>7 DEF Reads, Accepts, CheckIndex

\* What the test of a constructor lets through can be read: the test works on the
\* raw type and the reader on the pull type, and but for the two named exceptions
\* they agree for every declaration of a parameter.
THEOREM WhatIsTestedCanBeRead == Spec => []TestedIsReadable
<1>1. ASSUME DeclaredInv
      PROVE  TestedIsReadable
  <2> SUFFICES ASSUME NEW trait \in ParamTraits, NEW args \in ArgLists, NEW v \in Range(args),
                      Usable(Param(trait, type)), Fits(trait, type, v)
               PROVE  \/ Reads(trait, type, v)
                      \/ IsCString(type) /\ v.type = "number"
                      \/ trait = "in_out_p" /\ v.const
    BY DEF TestedIsReadable
  <2>1. Declarable(type)
    BY <1>1 DEF DeclaredInv
  <2>2. Compiles(trait, type) /\ ReaderOf(trait, type) # "none"
    BY DEF Usable, Param
  <2>3. trait = "light_p" \/ trait \in ObjectTraits
    BY DEF ParamTraits, ObjectTraits
  <2>4. CASE trait = "in_p" /\ type = calling_lua_state
    BY <2>4, StateTrait, OwnReaders DEF Reads, ReaderOf, Accepts
  <2>5. CASE ~(trait = "in_p" /\ type = calling_lua_state)
             /\ lua_type(v) \in {"userdata", "alien userdata"}
    <3>1. index_can_convert(trait, type, v)
      BY <2>5 DEF Fits
    <3>2. trait # "light_p"
      BY <3>1, LightTrait DEF index_can_convert
    <3> QED
      BY <2>1, <2>2, <2>3, <3>1, <3>2, InstanceIsRead
  <2>6. CASE ~(trait = "in_p" /\ type = calling_lua_state)
             /\ lua_type(v) \notin {"userdata", "alien userdata"}
    <3>1. TypeIsCppType(TraitOf(trait, type).raw, lua_type(v))
      BY <2>6 DEF Fits
    <3>2. CASE trait = "light_p"
      <4>1. lua_type(v) = "light"
        BY <3>1, <3>2, LightTrait DEF TypeIsCppType, Type, Named, is_integral_string_class
      <4>2. v.type = "light"
        BY <4>1 DEF lua_type
      <4> QED
        BY <3>2, <4>2, LightTrait, OwnReaders DEF Reads, ReaderOf, Accepts
    <3>3. CASE trait = "in_p" /\ IsCString(type)
      <4>1. lua_type(v) \in {"number", "string"}
        BY <3>1, <3>3, StringTrait DEF TypeIsCppType, Type, Named
      <4>2. v.type \in {"number", "string", "numeric string"}
        BY <4>1 DEF lua_type
      <4> QED
        BY <3>3, <4>2, StringTrait, OwnReaders DEF Reads, ReaderOf, Accepts
    <3>4. CASE trait \in ObjectTraits /\ ~(trait = "in_p" /\ IsCString(type))
      <4>1. TraitOf(trait, type).raw = raw_type(type)
        BY <2>1, <2>6, <3>4, PulledAs
      <4>2. raw_type(type) \in CppType /\ raw_type(type).decl = <<>>
        BY <2>1, RawFacts
      <4>3. /\ Integrally(raw_type(type))
            /\ Accepts(Reader(raw_type(type)), raw_type(type), MayChange(trait, type), v)
        BY <2>6, <3>1, <4>1, <4>2, ValueIsReadAs
      <4>4. ReaderOf(trait, type) = Reader(raw_type(type))
        BY <2>1, <2>2, <2>6, <3>4, <4>3, NotIntegral, ParameterReader
      <4> QED
        BY <4>3, <4>4 DEF Reads
    <3> QED
      BY <2>3, <3>2, <3>3, <3>4
  <2> QED
    BY <2>4, <2>5, <2>6
<1> QED
  BY <1>1, Declared, PTL

LEMMA ConcatParts ==
  ASSUME NEW S, NEW f \in Seq(S), NEW x \in Seq(S)
  PROVE  /\ f \o x \in Seq(S) /\ Len(f \o x) = Len(f) + Len(x)
         /\ \A i \in 1 .. Len(f) : (f \o x)[i] = f[i]
         /\ \A i \in 1 .. Len(x) : (f \o x)[Len(f) + i] = x[i]
         /\ SubSeq(f \o x, 1, Len(f)) = f
         /\ SubSeq(f \o x, Len(f) + 1, Len(f \o x)) = x
<1>1. /\ f \o x \in Seq(S) /\ Len(f \o x) = Len(f) + Len(x)
      /\ \A i \in 1 .. Len(f) : (f \o x)[i] = f[i]
      /\ \A i \in 1 .. Len(x) : (f \o x)[Len(f) + i] = x[i]
  OBVIOUS
<1> DEFINE s == f \o x
<1> HIDE DEF s
<1>2. /\ s \in Seq(S) /\ Len(s) = Len(f) + Len(x) /\ Len(f) \in Nat /\ Len(x) \in Nat
      /\ \A i \in 1 .. Len(f) : s[i] = f[i]
      /\ \A i \in 1 .. Len(x) : s[Len(f) + i] = x[i]
  BY <1>1 DEF s
<1>3. SubSeq(s, 1, Len(f)) = f
  BY <1>2, FrontIs
<1>4. SubSeq(s, Len(f) + 1, Len(s)) = x
  <2>1. /\ SubSeq(s, Len(f) + 1, Len(s)) \in Seq(S)
        /\ Len(SubSeq(s, Len(f) + 1, Len(s))) = Len(x)
        /\ \A i \in 1 .. Len(x) : SubSeq(s, Len(f) + 1, Len(s))[i] = s[Len(f) + i]
    BY <1>2
  <2> QED
    BY <1>2, <2>1, SeqEqual
<1> QED
  BY <1>1, <1>3, <1>4 DEF s

LEMMA ConcatIs ==
  ASSUME NEW S, NEW f \in Seq(S), NEW x \in Seq(S), NEW s \in Seq(S), Len(s) = Len(f) + Len(x),
         \A i \in 1 .. Len(f) : s[i] = f[i], \A i \in 1 .. Len(x) : s[Len(f) + i] = x[i]
  PROVE  f \o x = s
<1>1. /\ f \o x \in Seq(S) /\ Len(f \o x) = Len(f) + Len(x)
      /\ \A i \in 1 .. Len(f) : (f \o x)[i] = f[i]
      /\ \A i \in 1 .. Len(x) : (f \o x)[Len(f) + i] = x[i]
  BY ConcatParts
<1> DEFINE c == f \o x
<1> HIDE DEF c
<1>2. /\ c \in Seq(S) /\ Len(c) = Len(f) + Len(x) /\ Len(f) \in Nat /\ Len(x) \in Nat
      /\ \A i \in 1 .. Len(f) : c[i] = f[i]
      /\ \A i \in 1 .. Len(x) : c[Len(f) + i] = x[i]
  BY <1>1 DEF c
<1>3. ASSUME NEW i \in 1 .. Len(s)
      PROVE  c[i] = s[i]
  <2>1. CASE i <= Len(f)
    BY <1>2, <2>1
  <2>2. CASE i > Len(f)
    <3>1. i - Len(f) \in 1 .. Len(x) /\ Len(f) + (i - Len(f)) = i
      BY <1>2, <2>2
    <3> QED
      BY <1>2, <3>1
  <2> QED
    BY <1>2, <2>1, <2>2
<1>4. c = s
  BY <1>2, <1>3, SeqEqual
<1> QED
  BY <1>4 DEF c

\* A suffix is what is left of the sequence after what is before it.
LEMMA SuffixIs ==
  ASSUME NEW S, NEW s \in Seq(S), NEW x \in Seq(S)
  PROVE  /\ \A f \in Seq(S) : s = f \o x =>
              x \in Suffixes(s) /\ SubSeq(s, 1, Len(s) - Len(x)) = f
         /\ x \in Suffixes(s) =>
              /\ SubSeq(s, 1, Len(s) - Len(x)) \in Seq(S)
              /\ s = SubSeq(s, 1, Len(s) - Len(x)) \o x
<1>1. ASSUME NEW f \in Seq(S), s = f \o x
      PROVE  x \in Suffixes(s) /\ SubSeq(s, 1, Len(s) - Len(x)) = f
  <2>1. /\ Len(s) = Len(f) + Len(x) /\ SubSeq(s, 1, Len(f)) = f
        /\ SubSeq(s, Len(f) + 1, Len(s)) = x
    BY <1>1, ConcatParts
  <2>2. Len(f) \in Nat /\ Len(x) \in Nat
    OBVIOUS
  <2>3. Len(s) - Len(x) = Len(f)
    BY <2>1, <2>2
  <2>4. x = <<>> \/ Len(f) + 1 \in 1 .. Len(s)
    BY <2>1, <2>2, EmptySeq
  <2>5. x \in Suffixes(s)
    BY <2>1, <2>4 DEF Suffixes
  <2> QED
    BY <2>1, <2>3, <2>5
<1>2. ASSUME x \in Suffixes(s)
      PROVE  /\ SubSeq(s, 1, Len(s) - Len(x)) \in Seq(S)
             /\ s = SubSeq(s, 1, Len(s) - Len(x)) \o x
  <2>1. PICK n \in 0 .. Len(s) : /\ Len(x) = Len(s) - n
                                 /\ \A i \in 1 .. Len(x) : x[i] = s[n + i]
    <3>1. ASSUME x = <<>>
          PROVE  \E n \in 0 .. Len(s) : /\ Len(x) = Len(s) - n
                                        /\ \A i \in 1 .. Len(x) : x[i] = s[n + i]
      <4>1. Len(s) \in 0 .. Len(s) /\ Len(x) = Len(s) - Len(s)
        BY <3>1
      <4> QED
        BY <3>1, <4>1
    <3>2. ASSUME NEW l \in 1 .. Len(s), x = SubSeq(s, l, Len(s))
          PROVE  \E n \in 0 .. Len(s) : /\ Len(x) = Len(s) - n
                                        /\ \A i \in 1 .. Len(x) : x[i] = s[n + i]
      <4>1. /\ l - 1 \in 0 .. Len(s) /\ Len(x) = Len(s) - (l - 1)
            /\ \A i \in 1 .. Len(x) : x[i] = s[(l - 1) + i]
        BY <3>2
      <4> QED
        BY <4>1
    <3> QED
      BY <1>2, <3>1, <3>2 DEF Suffixes
  <2> DEFINE f == SubSeq(s, 1, Len(s) - Len(x))
  <2>2. f \in Seq(S) /\ Len(f) = n /\ \A i \in 1 .. n : f[i] = s[i]
    BY <2>1
  <2> HIDE DEF f
  <2>3. Len(s) = Len(f) + Len(x) /\ \A i \in 1 .. Len(x) : s[Len(f) + i] = x[i]
    BY <2>1, <2>2
  <2>4. \A i \in 1 .. Len(f) : s[i] = f[i]
    BY <2>2
  <2>5. f \o x = s
    BY <2>2, <2>3, <2>4, ConcatIs
  <2> QED
    BY <2>2, <2>5 DEF f
<1> QED
  BY <1>1, <1>2

\* What a Converter is for: a pointer goes through it to an object, an object to
\* a pointer, and anything else as it is.
Starred(decl) == \E i \in 1 .. Len(decl) : decl[i] = "*"

LEMMA StarOfConcat ==
  ASSUME NEW S, NEW f \in Seq(S), NEW x \in Seq(S)
  PROVE  Starred(f \o x) <=> Starred(f) \/ Starred(x)
<1>1. /\ Len(f \o x) = Len(f) + Len(x)
      /\ \A i \in 1 .. Len(f) : (f \o x)[i] = f[i]
      /\ \A i \in 1 .. Len(x) : (f \o x)[Len(f) + i] = x[i]
  BY ConcatParts
<1>2. Len(f) \in Nat /\ Len(x) \in Nat
  OBVIOUS
<1> DEFINE s == f \o x
<1> HIDE DEF s
<1>3. ASSUME Starred(f)
      PROVE  Starred(s)
  <2>1. PICK i \in 1 .. Len(f) : f[i] = "*"
    BY <1>3 DEF Starred
  <2>2. i \in 1 .. Len(s) /\ s[i] = "*"
    BY <1>1, <1>2, <2>1 DEF s
  <2> QED
    BY <2>2 DEF Starred
<1>4. ASSUME Starred(x)
      PROVE  Starred(s)
  <2>1. PICK i \in 1 .. Len(x) : x[i] = "*"
    BY <1>4 DEF Starred
  <2>2. Len(f) + i \in 1 .. Len(s) /\ s[Len(f) + i] = "*"
    BY <1>1, <1>2, <2>1 DEF s
  <2> QED
    BY <2>2 DEF Starred
<1>5. ASSUME Starred(s)
      PROVE  Starred(f) \/ Starred(x)
  <2>1. PICK i \in 1 .. Len(s) : s[i] = "*"
    BY <1>5 DEF Starred
  <2>2. CASE i <= Len(f)
    <3>1. i \in 1 .. Len(f) /\ f[i] = "*"
      BY <1>1, <1>2, <2>1, <2>2 DEF s
    <3> QED
      BY <3>1 DEF Starred
  <2>3. CASE i > Len(f)
    <3>1. i - Len(f) \in 1 .. Len(x) /\ Len(f) + (i - Len(f)) = i
      BY <1>1, <1>2, <2>1, <2>3 DEF s
    <3>2. x[i - Len(f)] = "*"
      BY <1>1, <2>1, <3>1 DEF s
    <3> QED
      BY <3>1, <3>2 DEF Starred
  <2> QED
    BY <1>1, <1>2, <2>1, <2>2, <2>3 DEF s
<1> QED
  BY <1>3, <1>4, <1>5 DEF s

\* No shape is a pointer to a pointer.
OneStar(decl) ==
  \A i, j \in 1 .. Len(decl) : decl[i] = "*" /\ decl[j] = "*" => i = j

LEMMA ShapeStars ==
  ASSUME NEW s \in Shapes
  PROVE  /\ OneStar(s)
         /\ Starred(s) <=> s \notin {<<>>, <<"const">>, <<"&">>, <<"const", "&">>}
<1>1. CASE s \in {<<>>, <<"const">>, <<"&">>, <<"const", "&">>}
  BY <1>1 DEF OneStar, Starred
<1>2. CASE s \in {<<"*">>, <<"*", "const">>, <<"*", "&">>, <<"*", "const", "&">>}
  <2>1. Len(s) >= 1 /\ s[1] = "*" /\ \A i \in 1 .. Len(s) : i # 1 => s[i] # "*"
    BY <1>2
  <2>2. s \notin {<<>>, <<"const">>, <<"&">>, <<"const", "&">>}
    BY <1>2
  <2> QED
    BY <2>1, <2>2, ShapesAreSeqs DEF OneStar, Starred
<1>3. CASE s \in {<<"const", "*">>, <<"const", "*", "const">>, <<"const", "*", "&">>,
                  <<"const", "*", "const", "&">>}
  <2>1. Len(s) >= 2 /\ s[2] = "*" /\ \A i \in 1 .. Len(s) : i # 2 => s[i] # "*"
    BY <1>3
  <2>2. s \notin {<<>>, <<"const">>, <<"&">>, <<"const", "&">>}
    BY <1>3
  <2> QED
    BY <2>1, <2>2, ShapesAreSeqs DEF OneStar, Starred
<1> QED
  BY <1>1, <1>2, <1>3 DEF Shapes

LEMMA StarIsOnOneSide ==
  ASSUME NEW S, NEW f \in Seq(S), NEW x \in Seq(S), OneStar(f \o x)
  PROVE  ~(Starred(f) /\ Starred(x))
<1>1. /\ Len(f \o x) = Len(f) + Len(x)
      /\ \A i \in 1 .. Len(f) : (f \o x)[i] = f[i]
      /\ \A i \in 1 .. Len(x) : (f \o x)[Len(f) + i] = x[i]
  BY ConcatParts
<1>2. Len(f) \in Nat /\ Len(x) \in Nat
  OBVIOUS
<1> DEFINE s == f \o x
<1> HIDE DEF s
<1> SUFFICES ASSUME NEW i \in 1 .. Len(f), f[i] = "*", NEW j \in 1 .. Len(x), x[j] = "*"
             PROVE  FALSE
  BY DEF Starred
<1>3. i \in 1 .. Len(s) /\ s[i] = "*" /\ Len(f) + j \in 1 .. Len(s) /\ s[Len(f) + j] = "*"
  BY <1>1, <1>2 DEF s
<1>4. i = Len(f) + j
  BY <1>3 DEF OneStar, s
<1> QED
  BY <1>2, <1>4

\* The number of pointers in a type, as Delivers counts them
LEMMA Pointers ==
  ASSUME NEW s \in Shapes
  PROVE  Cardinality({i \in DOMAIN s : s[i] = "*"}) = IF Starred(s) THEN 1 ELSE 0
<1>1. DOMAIN s = 1 .. Len(s)
  BY ShapesAreSeqs
<1>2. CASE Starred(s)
  <2>1. PICK i \in 1 .. Len(s) : s[i] = "*"
    BY <1>2 DEF Starred
  <2>2. {k \in DOMAIN s : s[k] = "*"} = {i}
    BY <1>1, <2>1, ShapeStars DEF OneStar
  <2>3. Cardinality({i}) = 1
    BY FS_Singleton
  <2> QED
    BY <1>2, <2>2, <2>3
<1>3. CASE ~Starred(s)
  <2>1. {k \in DOMAIN s : s[k] = "*"} = {}
    BY <1>1, <1>3 DEF Starred
  <2> QED
    BY <1>3, <2>1, FS_EmptySet
<1> QED
  BY <1>2, <1>3

\* A pointer goes through a Converter to an object, an object to a pointer, and
\* anything else as it is.
Passes(from, to) == IF from /\ ~to THEN "object" ELSE IF to /\ ~from THEN "address" ELSE "same"

PullShapes == {<<>>, <<"*">>, <<"const", "*">>}

LEMMA ConverterFields ==
  ASSUME NEW k \in Converter
  PROVE  /\ k.pull \in PullShapes /\ k.real \in Shapes
         /\ k.passes = Passes(Starred(k.pull), Starred(k.real))
<1>1. k.pull \in PullShapes /\ k.real \in Shapes
  BY DEF Converter, PullShapes, Shapes
<1>2. PullShapes \subseteq Shapes
  BY DEF PullShapes, Shapes
<1>3. \/ /\ k.passes = "object" /\ k.pull \in {<<"*">>, <<"const", "*">>}
         /\ k.real \in {<<>>, <<"&">>, <<"const", "&">>}
      \/ /\ k.passes = "address" /\ k.pull = <<>>
         /\ k.real \in {<<"*">>, <<"*", "const", "&">>, <<"const", "*", "&">>,
                        <<"const", "*", "const", "&">>, <<"*", "&">>, <<"const", "*">>,
                        <<"const", "*", "const">>}
      \/ /\ k.passes = "same" /\ k.pull = <<>>
         /\ k.real \in {<<>>, <<"&">>, <<"const", "&">>, <<"const">>}
      \/ /\ k.passes = "same" /\ k.pull \in {<<"*">>, <<"const", "*">>}
         /\ k.real \in {<<"*">>, <<"*", "const", "&">>, <<"const", "*", "&">>, <<"*", "const">>,
                        <<"const", "*", "const", "&">>, <<"*", "&">>, <<"const", "*">>,
                        <<"const", "*", "const">>}
  BY DEF Converter
<1>4. Starred(k.pull) <=> k.pull \notin {<<>>, <<"const">>, <<"&">>, <<"const", "&">>}
  BY <1>1, <1>2, ShapeStars
<1>5. Starred(k.real) <=> k.real \notin {<<>>, <<"const">>, <<"&">>, <<"const", "&">>}
  BY <1>1, ShapeStars
<1>6. /\ Starred(<<"*">>) /\ Starred(<<"const", "*">>) /\ ~Starred(<<>>)
  BY ShapeStars DEF Shapes
<1>7. ASSUME k.real \in {<<"*">>, <<"*", "const", "&">>, <<"const", "*", "&">>, <<"*", "const">>,
                        <<"const", "*", "const", "&">>, <<"*", "&">>, <<"const", "*">>,
                        <<"const", "*", "const">>}
      PROVE  Starred(k.real)
  BY <1>5, <1>7
<1>8. ASSUME k.real \in {<<>>, <<"&">>, <<"const", "&">>, <<"const">>}
      PROVE  ~Starred(k.real)
  BY <1>5, <1>8
<1>9. k.pull \in {<<"*">>, <<"const", "*">>} => Starred(k.pull)
  BY <1>6
<1>10. k.pull = <<>> => ~Starred(k.pull)
  BY <1>6
<1> QED
  BY <1>1, <1>3, <1>7, <1>8, <1>9, <1>10 DEF Passes

LEMMA SuffixOfConcat ==
  ASSUME NEW S, NEW f \in Seq(S), NEW x \in Seq(S)
  PROVE  x \in Suffixes(f \o x) /\ SubSeq(f \o x, 1, Len(f \o x) - Len(x)) = f
<1>1. f \o x \in Seq(S)
  BY ConcatParts
<1>2. ASSUME NEW s \in Seq(S), s = f \o x
      PROVE  x \in Suffixes(s) /\ SubSeq(s, 1, Len(s) - Len(x)) = f
  <2>1. \A g \in Seq(S) : s = g \o x =>
          x \in Suffixes(s) /\ SubSeq(s, 1, Len(s) - Len(x)) = g
    BY SuffixIs
  <2> QED
    BY <1>2, <2>1
<1> QED
  BY <1>1, <1>2

\* The pull type and the type of the parameter leave the same T to a Converter.
LEMMA ConverterFits ==
  ASSUME NEW t \in CppType, t.decl \in Shapes, NEW d \in PullShapes, NEW k \in Converter
  PROVE  k \in ConvertersFor([t EXCEPT !.decl = d], t)
           <=> \E f \in Seq(Declarators) : d = f \o k.pull /\ t.decl = f \o k.real
<1> DEFINE pull == [t EXCEPT !.decl = d]
<1>0. PICK s : s = t.decl
  OBVIOUS
<1>1. pull.decl = d /\ d \in Seq(Declarators) /\ s \in Seq(Declarators)
  BY <1>0, Respelt, ShapesAreSeqs DEF PullShapes, Shapes
<1>2. k.pull \in Seq(Declarators) /\ k.real \in Seq(Declarators)
  BY ConverterFields, ShapesAreSeqs DEF PullShapes, Shapes
<1>3. /\ Without(pull, Len(k.pull)) = [t EXCEPT !.decl = SubSeq(d, 1, Len(d) - Len(k.pull))]
      /\ Without(t, Len(k.real)) = [t EXCEPT !.decl = SubSeq(s, 1, Len(s) - Len(k.real))]
  BY <1>0, <1>1 DEF Without, CppType
<1> DEFINE dFront == SubSeq(d, 1, Len(d) - Len(k.pull))
           sFront == SubSeq(s, 1, Len(s) - Len(k.real))
<1>4. Without(pull, Len(k.pull)) = Without(t, Len(k.real)) <=> dFront = sFront
  <2> HIDE DEF dFront, sFront, pull
  <2>1. /\ Without(pull, Len(k.pull)) = [t EXCEPT !.decl = dFront]
        /\ Without(t, Len(k.real)) = [t EXCEPT !.decl = sFront]
    BY <1>3 DEF dFront, sFront
  <2> QED
    <3>1. [t EXCEPT !.decl = dFront].decl = dFront /\ [t EXCEPT !.decl = sFront].decl = sFront
      BY Respelt
    <3> QED
      BY <2>1, <3>1
<1>5. k \in ConvertersFor(pull, t) <=>
        k.pull \in Suffixes(d) /\ k.real \in Suffixes(s) /\ dFront = sFront
  <2> HIDE DEF dFront, sFront
  <2> QED
    BY <1>0, <1>1, <1>4 DEF ConvertersFor
<1>6. ASSUME NEW f \in Seq(Declarators), d = f \o k.pull, s = f \o k.real
      PROVE  k.pull \in Suffixes(d) /\ k.real \in Suffixes(s) /\ dFront = sFront
  <2>1. k.pull \in Suffixes(d) /\ dFront = f
    BY <1>2, <1>6, SuffixOfConcat
  <2>2. k.real \in Suffixes(s) /\ sFront = f
    BY <1>2, <1>6, SuffixOfConcat
  <2> QED
    BY <2>1, <2>2
<1>7. ASSUME k.pull \in Suffixes(d), k.real \in Suffixes(s), dFront = sFront
      PROVE  \E f \in Seq(Declarators) : d = f \o k.pull /\ s = f \o k.real
  <2>1. dFront \in Seq(Declarators) /\ d = dFront \o k.pull
    BY <1>1, <1>2, <1>7, SuffixIs, ZenonT(60)
  <2>2. PICK x \in Seq(Declarators) : x = k.real
    BY <1>2
  <2>3. s \in Seq(Declarators) /\ x \in Suffixes(s)
    BY <1>1, <1>7, <2>2
  <2>4. s = SubSeq(s, 1, Len(s) - Len(x)) \o x
    BY <2>3, SuffixIs
  <2>5. s = sFront \o k.real
    BY <2>2, <2>4
  <2> HIDE DEF dFront, sFront
  <2> QED
    BY <1>7, <2>1, <2>5
<1> QED
  BY <1>0, <1>5, <1>6, <1>7

\* Whichever Converter fits does what lies between the two types.
LEMMA FitPasses ==
  ASSUME NEW t \in CppType, t.decl \in Shapes, NEW d \in PullShapes,
         NEW k \in ConvertersFor([t EXCEPT !.decl = d], t)
  PROVE  k.passes = Passes(Starred(d), Starred(t.decl))
<1>1. k \in Converter
  BY DEF ConvertersFor
<1>2. PICK f \in Seq(Declarators) : d = f \o k.pull /\ t.decl = f \o k.real
  BY <1>1, ConverterFits
<1>3. k.pull \in Seq(Declarators) /\ k.real \in Seq(Declarators)
  BY <1>1, ConverterFields, ShapesAreSeqs DEF PullShapes, Shapes
<1>4. OneStar(d) /\ OneStar(t.decl)
  BY ShapeStars DEF PullShapes, Shapes
<1>5. /\ Starred(d) <=> Starred(f) \/ Starred(k.pull)
      /\ Starred(t.decl) <=> Starred(f) \/ Starred(k.real)
  BY <1>2, <1>3, StarOfConcat
<1>6. ~(Starred(f) /\ Starred(k.pull)) /\ ~(Starred(f) /\ Starred(k.real))
  BY <1>2, <1>3, <1>4, StarIsOnOneSide
<1>7. k.passes = Passes(Starred(k.pull), Starred(k.real))
  BY <1>1, ConverterFields
<1> QED
  BY <1>5, <1>6, <1>7 DEF Passes

\* The sequence is the front with the rest after it.
Joined(whole, front, rest) ==
  /\ Len(whole) = Len(front) + Len(rest)
  /\ \A i \in 1 .. Len(front) : whole[i] = front[i]
  /\ \A i \in 1 .. Len(rest) : whole[Len(front) + i] = rest[i]

\* It is y from the n + 1st element on, and before that what g is after f.
RestOf(S, x, n, y, f, g) ==
  /\ Len(x) = n + Len(y) /\ SubSeq(x, n + 1, Len(x)) = y
  /\ SubSeq(x, 1, n) \in Seq(S) /\ Len(SubSeq(x, 1, n)) = n
  /\ \A i \in 1 .. n : SubSeq(x, 1, n)[i] = g[Len(f) + i]

LEMMA RestEnds ==
  ASSUME NEW S, NEW whole \in Seq(S), NEW f \in Seq(S), NEW g \in Seq(S), NEW x \in Seq(S),
         NEW y \in Seq(S), Joined(whole, f, x), Joined(whole, g, y), NEW n \in Nat,
         Len(g) = Len(f) + n
  PROVE  RestOf(S, x, n, y, f, g)
<1>1. Len(f) \in Nat /\ Len(g) \in Nat /\ Len(x) \in Nat /\ Len(y) \in Nat
  OBVIOUS
<1>2. Len(x) = n + Len(y)
  BY <1>1 DEF Joined
<1>3. \A i \in 1 .. Len(y) : x[n + i] = y[i]
  <2> SUFFICES ASSUME NEW i \in 1 .. Len(y)
               PROVE  x[n + i] = y[i]
    OBVIOUS
  <2>1. whole[Len(g) + i] = y[i]
    BY DEF Joined
  <2>2. n + i \in 1 .. Len(x)
    BY <1>1, <1>2
  <2>3. whole[Len(f) + (n + i)] = x[n + i]
    BY <2>2 DEF Joined
  <2>4. Len(g) + i = Len(f) + (n + i)
    BY <1>1
  <2> QED
    BY <2>1, <2>3, <2>4
<1>4. SubSeq(x, n + 1, Len(x)) = y
  <2>1. /\ SubSeq(x, n + 1, Len(x)) \in Seq(S)
        /\ Len(SubSeq(x, n + 1, Len(x))) = Len(y)
        /\ \A i \in 1 .. Len(y) : SubSeq(x, n + 1, Len(x))[i] = x[n + i]
    BY <1>1, <1>2
  <2> QED
    BY <1>3, <2>1, SeqEqual
<1>5. /\ SubSeq(x, 1, n) \in Seq(S) /\ Len(SubSeq(x, 1, n)) = n
      /\ \A i \in 1 .. n : SubSeq(x, 1, n)[i] = x[i]
  BY <1>1, <1>2
<1>6. ASSUME NEW i \in 1 .. n
      PROVE  x[i] = g[Len(f) + i]
  <2>1. i \in 1 .. Len(x) /\ Len(f) + i \in 1 .. Len(g)
    BY <1>1, <1>2
  <2> QED
    BY <2>1 DEF Joined
<1> QED
  BY <1>2, <1>4, <1>5, <1>6 DEF RestOf

LEMMA LongestPull ==
  ASSUME NEW fits, NEW any \in fits, \A k \in fits : Len(k.pull) \in 0 .. 2
  PROVE  \E k \in fits : \A other \in fits : Len(other.pull) <= Len(k.pull)
<1> DEFINE sizes == {Len(k.pull) : k \in fits}
<1>1. sizes \subseteq 0 .. 2 /\ Len(any.pull) \in sizes
  OBVIOUS
<1>2. ASSUME NEW S, S \subseteq 0 .. 2, S # {}
      PROVE  \E m \in S : \A n \in S : n <= m
  <2>1. CASE 2 \in S
    BY <1>2, <2>1
  <2>2. CASE 2 \notin S /\ 1 \in S
    BY <1>2, <2>2
  <2>3. CASE 2 \notin S /\ 1 \notin S
    <3>1. \A n \in S : n = 0
      BY <1>2, <2>3
    <3>2. 0 \in S
      BY <1>2, <3>1
    <3> QED
      BY <3>1, <3>2
  <2> QED
    BY <1>2, <2>1, <2>2, <2>3
<1>3. PICK m \in sizes : \A n \in sizes : n <= m
  <2> HIDE DEF sizes
  <2> QED
    BY <1>1, <1>2
<1>4. PICK k \in fits : m = Len(k.pull)
  OBVIOUS
<1>5. \A other \in fits : Len(other.pull) \in sizes
  OBVIOUS
<1> HIDE DEF sizes
<1> QED
  BY <1>3, <1>4, <1>5, Zenon

\* One Converter which fits and leaves less to T than another has more of T
\* spelled out than that.
LEMMA LongerIsMoreSpecialised ==
  ASSUME NEW S, NEW p \in Seq(S), NEW s \in Seq(S), NEW f \in Seq(S), NEW g \in Seq(S), NEW k, NEW other,
         k.pull \in Seq(S), k.real \in Seq(S), other.pull \in Seq(S), other.real \in Seq(S),
         Joined(p, f, k.pull), Joined(s, f, k.real), Joined(p, g, other.pull), Joined(s, g, other.real),
         Len(other.pull) <= Len(k.pull)
  PROVE  MoreSpecialised(k, other)
<1>1. PICK kp \in Seq(S), kr \in Seq(S), op \in Seq(S), oReal \in Seq(S) :
        kp = k.pull /\ kr = k.real /\ op = other.pull /\ oReal = other.real
  OBVIOUS
<1>2. /\ Joined(p, f, kp) /\ Joined(s, f, kr) /\ Joined(p, g, op) /\ Joined(s, g, oReal)
      /\ Len(op) <= Len(kp)
  BY <1>1
<1>3. PICK n \in Nat : Len(g) = Len(f) + n
  <2>1. Len(g) - Len(f) \in Nat /\ Len(g) = Len(f) + (Len(g) - Len(f))
    BY <1>2 DEF Joined
  <2> QED
    BY <2>1
<1>4. RestOf(S, kp, n, op, f, g)
  <2>1. Joined(p, f, kp) /\ Joined(p, g, op)
    BY <1>2
  <2> QED
    BY <1>3, <2>1, RestEnds
<1>5. RestOf(S, kr, n, oReal, f, g)
  <2>1. Joined(s, f, kr) /\ Joined(s, g, oReal)
    BY <1>2
  <2> QED
    BY <1>3, <2>1, RestEnds
<1>6. SubSeq(kp, 1, n) = SubSeq(kr, 1, n)
  BY <1>4, <1>5, SeqEqual DEF RestOf
<1>7. n \in 0 .. Len(kp) /\ n <= Len(kr)
  BY <1>4, <1>5 DEF RestOf
<1> QED
  BY <1>1, <1>4, <1>5, <1>6, <1>7 DEF MoreSpecialised, RestOf

\* Where any Converter fits, the compiler takes one of them.
LEMMA BestExists ==
  ASSUME NEW t \in CppType, t.decl \in Shapes, NEW d \in PullShapes,
         NEW any \in ConvertersFor([t EXCEPT !.decl = d], t)
  PROVE  BestConverters([t EXCEPT !.decl = d], t) # {}
<1> DEFINE fits == ConvertersFor([t EXCEPT !.decl = d], t)
<1>1. \A k \in fits : /\ k \in Converter /\ k.pull \in Seq(Declarators) /\ k.real \in Seq(Declarators)
                      /\ Len(k.pull) \in 0 .. 2
  <2>1. \A k \in fits : k \in Converter
    <3> DEFINE pull == [t EXCEPT !.decl = d]
    <3> HIDE DEF pull
    <3>1. \A k \in ConvertersFor(pull, t) : k \in Converter
      BY DEF ConvertersFor
    <3> QED
      BY <3>1 DEF pull
  <2>2. ASSUME NEW p \in PullShapes
        PROVE  p \in Seq(Declarators) /\ Len(p) \in 0 .. 2
    <3>1. p = <<>> \/ p = <<"*">> \/ p = <<"const", "*">>
      BY DEF PullShapes
    <3> QED
      <4>1. CASE p = <<>>
        BY <4>1, ShapeLengths
      <4>2. CASE p = <<"*">>
        BY <4>2, ShapeLengths
      <4>3. CASE p = <<"const", "*">>
        BY <4>3, ShapeLengths
      <4> QED
        BY <3>1, <4>1, <4>2, <4>3
  <2>3. \A k \in Converter : k.pull \in PullShapes /\ k.real \in Shapes
    BY ConverterFields
  <2> SUFFICES ASSUME NEW k \in fits
               PROVE  /\ k \in Converter /\ k.pull \in Seq(Declarators)
                      /\ k.real \in Seq(Declarators) /\ Len(k.pull) \in 0 .. 2
    OBVIOUS
  <2> HIDE DEF fits
  <2>4. k \in Converter
    BY <2>1
  <2>5. k.pull \in PullShapes /\ k.real \in Shapes
    BY <2>3, <2>4
  <2> QED
    BY <2>2, <2>4, <2>5, ShapesAreSeqs
<1> HIDE DEF fits
<1>2. PICK k \in fits : \A other \in fits : Len(other.pull) <= Len(k.pull)
  <2>1. any \in fits
    BY DEF fits
  <2>2. \A k \in fits : Len(k.pull) \in 0 .. 2
    BY <1>1
  <2> QED
    BY <2>1, <2>2, LongestPull
<1>3. ASSUME NEW other \in fits
      PROVE  MoreSpecialised(k, other)
  <2>1. PICK f \in Seq(Declarators) : d = f \o k.pull /\ t.decl = f \o k.real
    BY <1>1, <1>2, ConverterFits DEF fits
  <2>2. PICK g \in Seq(Declarators) : d = g \o other.pull /\ t.decl = g \o other.real
    BY <1>1, <1>3, ConverterFits DEF fits
  <2>3. /\ Joined(d, f, k.pull) /\ Joined(t.decl, f, k.real)
        /\ Joined(d, g, other.pull) /\ Joined(t.decl, g, other.real)
    <3>1. \A front, rest \in Seq(Declarators) : Joined(front \o rest, front, rest)
      BY ConcatParts DEF Joined
    <3> QED
      BY <1>1, <1>2, <1>3, <2>1, <2>2, <3>1, Zenon
  <2>4. d \in Seq(Declarators) /\ t.decl \in Seq(Declarators)
    BY ShapesAreSeqs DEF PullShapes, Shapes
  <2> QED
    BY <1>1, <1>2, <1>3, <2>3, <2>4, LongerIsMoreSpecialised, Zenon
<1> QED
  BY <1>2, <1>3 DEF BestConverters, fits

Given(p, r) == \E k \in Converter : k.pull = p /\ k.real = r

LEMMA ConverterOf ==
  ASSUME NEW p, NEW r, NEW passes, [pull |-> p, real |-> r, passes |-> passes] \in Converter
  PROVE  Given(p, r)
BY DEF Given

LEMMA ConvertersGiven ==
  /\ \A r \in Shapes \ {<<"*", "const">>} : Given(<<>>, r)
  /\ \A r \in Shapes \ {<<"const">>} : Given(<<"*">>, r)
  /\ \A r \in {<<>>, <<"const", "*", "&">>} : Given(<<"const", "*">>, r)
<1>1. ASSUME NEW r \in {<<>>, <<"&">>, <<"const", "&">>, <<"const">>}
      PROVE  Given(<<>>, r)
  <2>1. [pull |-> <<>>, real |-> r, passes |-> "same"] \in Converter
    BY DEF Converter
  <2> QED
    BY <2>1, ConverterOf
<1>2. ASSUME NEW r \in {<<"*">>, <<"*", "const", "&">>, <<"const", "*", "&">>,
                        <<"const", "*", "const", "&">>, <<"*", "&">>, <<"const", "*">>,
                        <<"const", "*", "const">>}
      PROVE  Given(<<>>, r)
  <2>1. [pull |-> <<>>, real |-> r, passes |-> "address"] \in Converter
    BY DEF Converter
  <2> QED
    BY <2>1, ConverterOf
<1>3. ASSUME NEW r \in {<<>>, <<"&">>, <<"const", "&">>}
      PROVE  Given(<<"*">>, r)
  <2>1. [pull |-> <<"*">>, real |-> r, passes |-> "object"] \in Converter
    BY DEF Converter
  <2> QED
    BY <2>1, ConverterOf
<1>4. ASSUME NEW r \in {<<"*">>, <<"*", "const", "&">>, <<"const", "*", "&">>, <<"*", "const">>,
                        <<"const", "*", "const", "&">>, <<"*", "&">>, <<"const", "*">>,
                        <<"const", "*", "const">>}
      PROVE  Given(<<"*">>, r)
  <2>1. [pull |-> <<"*">>, real |-> r, passes |-> "same"] \in Converter
    BY DEF Converter
  <2> QED
    BY <2>1, ConverterOf
<1>5. Given(<<"const", "*">>, <<>>) /\ Given(<<"const", "*">>, <<"const", "*", "&">>)
  <2>1. /\ [pull |-> <<"const", "*">>, real |-> <<>>, passes |-> "object"] \in Converter
        /\ [pull |-> <<"const", "*">>, real |-> <<"const", "*", "&">>, passes |-> "same"] \in Converter
    BY DEF Converter
  <2> QED
    BY <2>1, ConverterOf
<1> QED
  BY <1>1, <1>2, <1>3, <1>4, <1>5 DEF Shapes

\* A reference, a pointer or a value to what is constant
ConstShapes == {<<"const">>, <<"const", "&">>, <<"const", "*">>, <<"const", "*", "const">>,
                <<"const", "*", "const", "&">>, <<"const", "*", "&">>}

\* There is a Converter for every type but a pointer which is itself constant, of
\* what Lua has values of its own for.
LEMMA SomeFits ==
  ASSUME NEW t \in CppType, t.decl \in Shapes, NEW d \in PullShapes,
         d = <<>> => t.decl # <<"*", "const">>,
         d = <<"*">> => t.decl # <<"const">>,
         d = <<"const", "*">> => t.decl \in ConstShapes \cup {<<>>}
  PROVE  ConvertersFor([t EXCEPT !.decl = d], t) # {}
<1>1. ASSUME Given(d, t.decl)
      PROVE  ConvertersFor([t EXCEPT !.decl = d], t) # {}
  <2>1. PICK k \in Converter : k.pull = d /\ k.real = t.decl
    BY <1>1 DEF Given
  <2>2. <<>> \in Seq(Declarators) /\ d = <<>> \o d /\ t.decl = <<>> \o t.decl
    BY Concats DEF PullShapes, Shapes
  <2>3. \E f \in Seq(Declarators) : d = f \o k.pull /\ t.decl = f \o k.real
    BY <2>1, <2>2
  <2> QED
    BY <2>3, ConverterFits
<1>2. ASSUME NEW r, Given(<<"*">>, r), d = <<"const", "*">>, t.decl = <<"const">> \o r
      PROVE  ConvertersFor([t EXCEPT !.decl = d], t) # {}
  <2>1. PICK k \in Converter : k.pull = <<"*">> /\ k.real = r
    BY <1>2 DEF Given
  <2>2. <<"const">> \in Seq(Declarators) /\ d = <<"const">> \o <<"*">>
    BY <1>2 DEF Declarators
  <2>3. \E f \in Seq(Declarators) : d = f \o k.pull /\ t.decl = f \o k.real
    BY <1>2, <2>1, <2>2
  <2> QED
    BY <2>3, ConverterFits
<1>3. CASE d = <<>>
  BY <1>1, <1>3, ConvertersGiven
<1>4. CASE d = <<"*">>
  BY <1>1, <1>4, ConvertersGiven
<1>5. CASE d = <<"const", "*">> /\ t.decl \in {<<>>, <<"const", "*", "&">>}
  BY <1>1, <1>5, ConvertersGiven
<1>6. CASE d = <<"const", "*">> /\ t.decl \in ConstShapes \ {<<"const", "*", "&">>}
  <2>1. /\ <<"const">> = <<"const">> \o <<>>
        /\ <<"const", "&">> = <<"const">> \o <<"&">>
        /\ <<"const", "*">> = <<"const">> \o <<"*">>
        /\ <<"const", "*", "const">> = <<"const">> \o <<"*", "const">>
        /\ <<"const", "*", "const", "&">> = <<"const">> \o <<"*", "const", "&">>
    OBVIOUS
  <2>2. \E r \in Shapes \ {<<"const">>} : t.decl = <<"const">> \o r
    BY <1>6, <2>1 DEF ConstShapes, Shapes
  <2> QED
    BY <1>2, <1>6, <2>2, ConvertersGiven
<1> QED
  BY <1>3, <1>4, <1>5, <1>6 DEF PullShapes

\* Where there is a Converter, what it does lies between the declarators alone.
LEMMA OneConversion ==
  ASSUME NEW t \in CppType, t.decl \in Shapes, NEW d \in PullShapes,
         ConvertersFor([t EXCEPT !.decl = d], t) # {}
  PROVE  {k.passes : k \in BestConverters([t EXCEPT !.decl = d], t)}
           = {Passes(Starred(d), Starred(t.decl))}
<1> DEFINE pull == [t EXCEPT !.decl = d]
           best == BestConverters(pull, t)
<1>1. best # {}
  <2>1. PICK any : any \in ConvertersFor([t EXCEPT !.decl = d], t)
    OBVIOUS
  <2> QED
    BY <2>1, BestExists
<1>2. \A k \in best : k \in ConvertersFor(pull, t)
  BY DEF BestConverters
<1>3. \A k \in best : k.passes = Passes(Starred(d), Starred(t.decl))
  BY <1>2, FitPasses
<1> HIDE DEF best
<1> QED
  BY <1>1, <1>3 DEF best

\* What a parameter is pulled as differs from its type in the declarators, and not
\* by more than a Converter goes through.
PulledBy(trait, t, d) ==
  /\ TraitOf(trait, t).pull = [t EXCEPT !.decl = d]
  /\ d = <<>> => t.decl # <<"*", "const">>
  /\ d = <<"*">> => t.decl # <<"const">>
  /\ d = <<"const", "*">> => \/ t.decl \in ConstShapes \cup {<<>>}
                             \/ t = Type("char", <<"*">>)

LEMMA PulledObject ==
  ASSUME NEW t, Declarable(t), NEW trait \in ObjectTraits, Compiles(trait, t),
         ~Unconvertible(trait, t), trait = "in_p" => t # calling_lua_state /\ ~IsCString(t)
  PROVE  \E d \in PullShapes : PulledBy(trait, t, d)
<1> DEFINE pull == TraitOf(trait, t).pull
           raw == raw_type(t)
<1>1. /\ raw = [t EXCEPT !.decl = <<>>] /\ raw.decl = <<>>
      /\ AsPtr(raw) = AsPtr(t) /\ AsConstPtr(raw) = AsConstPtr(t)
  BY RawFacts
<1>2. t \in CppType /\ t.decl \in Shapes
  BY DEF Declarable
<1>3. \/ pull = raw
      \/ pull = AsPtr(raw) /\ (trait = "in_p" => ~is_by_value(t))
      \/ pull = AsConstPtr(raw) /\ (is_const(t) \/ is_by_value(t))
  BY PulledAs
<1>4. CASE pull = raw
  <2>1. pull = [t EXCEPT !.decl = <<>>] /\ t.decl # <<"*", "const">>
    BY <1>1, <1>4 DEF Unconvertible
  <2> QED
    BY <2>1 DEF PulledBy, PullShapes
<1>5. CASE pull = AsPtr(raw) /\ (trait = "in_p" => ~is_by_value(t))
  <2>1. trait # "in_p" => TraitOf(trait, t).legal
    BY DEF Compiles
  <2>2. ~is_by_value(t)
    BY <1>5, <2>1, InOutTrait, CppInTrait DEF ObjectTraits
  <2>3. t.decl # <<"const">>
    BY <1>2, <2>2, ByReference
  <2>4. pull = [t EXCEPT !.decl = <<"*">>]
    BY <1>1, <1>5 DEF AsPtr
  <2> QED
    BY <2>3, <2>4 DEF PulledBy, PullShapes
<1>6. CASE pull = AsConstPtr(raw) /\ (is_const(t) \/ is_by_value(t))
  <2>1. is_const(t) => t.decl \in ConstShapes
    BY <1>2, IsConst DEF ConstShapes
  <2>2. is_by_value(t) => t.decl \in ConstShapes \cup {<<>>}
    BY <1>2, ByReference DEF ConstShapes
  <2>3. t.decl \in ConstShapes \cup {<<>>}
    BY <1>6, <2>1, <2>2
  <2>4. pull = [t EXCEPT !.decl = <<"const", "*">>]
    BY <1>1, <1>6 DEF AsConstPtr
  <2> QED
    BY <2>3, <2>4 DEF PulledBy, PullShapes
<1> HIDE DEF pull, raw
<1> QED
  BY <1>3, <1>4, <1>5, <1>6

LEMMA PulledString ==
  ASSUME NEW t, Declarable(t), IsCString(t)
  PROVE  PulledBy("in_p", t, <<"const", "*">>)
<1>1. t \in CppType
  BY DEF Declarable
<1>2. t.base = "char" /\ t.shared = "no"
  BY DEF IsCString, Type
<1>3. t = Type("char", <<"*">>) \/ t.decl \in ConstShapes
  BY DEF IsCString, Type, ConstShapes
<1>4. Type("char", <<"const", "*">>) = [t EXCEPT !.decl = <<"const", "*">>]
  BY <1>1, <1>2 DEF CppType, Type
<1> QED
  BY <1>3, <1>4, StringTrait DEF PulledBy

LEMMA ConvertedAs ==
  ASSUME NEW t, Declarable(t), ~IsVoid(t), NEW trait \in ObjectTraits, NEW d \in PullShapes,
         PulledBy(trait, t, d)
  PROVE  Conversions(trait, t) = {Passes(Starred(d), Starred(t.decl))}
<1> DEFINE pull == [t EXCEPT !.decl = d]
<1>1. t \in CppType /\ t.decl \in Shapes
  BY DEF Declarable
<1>2. TraitOf(trait, t).pull = pull
  BY DEF PulledBy
<1>3. pull.base = t.base /\ pull.shared = t.shared /\ pull.decl = d
  BY <1>1, Respelt
<1>4. ~IsVoid(pull)
  BY <1>3 DEF IsVoid
<1>5. CASE pull = Type("char", <<"const", "*">>) /\ t.decl = <<"*">>
  <2>1. Conversions(trait, t) = {"same"}
    BY <1>2, <1>5 DEF Conversions
  <2>2. d = <<"const", "*">>
    BY <1>3, <1>5 DEF Type
  <2>3. Starred(d) /\ Starred(t.decl)
    BY <1>5, <2>2, ShapeStars DEF Shapes
  <2> QED
    BY <2>1, <2>3 DEF Passes
<1>6. CASE ~(pull = Type("char", <<"const", "*">>) /\ t.decl = <<"*">>)
  <2>1. Conversions(trait, t) = {k.passes : k \in BestConverters(pull, t)}
    BY <1>2, <1>4, <1>6 DEF Conversions
  <2>2. t = Type("char", <<"*">>) /\ d = <<"const", "*">> => FALSE
    BY <1>1, <1>3, <1>6 DEF CppType, Type
  <2>3. ConvertersFor(pull, t) # {}
    BY <1>1, <2>2, SomeFits DEF PulledBy
  <2> QED
    BY <1>1, <2>1, <2>3, OneConversion
<1> QED
  BY <1>5, <1>6

\* The conversion takes as many addresses, or goes through as many pointers, as
\* the types differ by.
Bridges(how, from, to) ==
  (CASE how = "object" -> from - 1 [] how = "address" -> from + 1 [] OTHER -> from) = to

LEMMA PassesBridges ==
  ASSUME NEW from \in BOOLEAN, NEW to \in BOOLEAN
  PROVE  Bridges(Passes(from, to), IF from THEN 1 ELSE 0, IF to THEN 1 ELSE 0)
<1>1. Bridges("object", 1, 0)
  BY DEF Bridges
<1>2. Bridges("address", 0, 1)
  BY DEF Bridges
<1>3. Bridges("same", 1, 1) /\ Bridges("same", 0, 0)
  BY DEF Bridges
<1> QED
  BY <1>1, <1>2, <1>3 DEF Passes

\* Whatever a parameter which compiles is declared as, there is one conversion to
\* it, and that is the right one: the traits choose the pull type, and the partial
\* ordering of the Converters the one which is used, without knowing of another.
THEOREM WhatIsPulledIsDelivered == Spec => []Delivers
<1> DEFINE pointers(t) == Cardinality({i \in DOMAIN t.decl : t.decl[i] = "*"})
<1>1. ASSUME DeclaredInv, type # calling_lua_state, NEW trait \in ParamTraits \ {"light_p"},
             Compiles(trait, type), ReaderOf(trait, type) # "none", ~Unconvertible(trait, type)
      PROVE  /\ Cardinality(Conversions(trait, type)) = 1
             /\ \A how \in Conversions(trait, type) :
                  Bridges(how, pointers(TraitOf(trait, type).pull), pointers(type))
  <2>1. trait \in ObjectTraits /\ Declarable(type)
    BY <1>1 DEF ParamTraits, ObjectTraits, DeclaredInv
  <2>2. ~IsVoid(type)
    BY <1>1, <2>1 DEF Compiles, ObjectTraits
  <2>3. PICK d \in PullShapes : PulledBy(trait, type, d)
    <3>1. CASE trait = "in_p" /\ IsCString(type)
      BY <2>1, <3>1, PulledString DEF PullShapes
    <3>2. CASE ~(trait = "in_p" /\ IsCString(type))
      BY <1>1, <2>1, <3>2, PulledObject
    <3> QED
      BY <3>1, <3>2
  <2>4. type \in CppType /\ type.decl \in Shapes
    BY <2>1 DEF Declarable
  <2>5. TraitOf(trait, type).pull.decl = d
    BY <2>3, <2>4, Respelt DEF PulledBy
  <2>6. pointers(type) = IF Starred(type.decl) THEN 1 ELSE 0
    BY <2>4, Pointers
  <2>7. pointers(TraitOf(trait, type).pull) = IF Starred(d) THEN 1 ELSE 0
    <3>1. d \in Shapes
      BY <2>3 DEF PullShapes, Shapes
    <3> QED
      BY <2>5, <3>1, Pointers
  <2>8. Conversions(trait, type) = {Passes(Starred(d), Starred(type.decl))}
    BY <2>1, <2>2, <2>3, ConvertedAs
  <2>9. Starred(d) \in BOOLEAN /\ Starred(type.decl) \in BOOLEAN
    BY DEF Starred
  <2> HIDE DEF pointers
  <2>10. Cardinality(Conversions(trait, type)) = 1
    BY <2>8, FS_Singleton
  <2> QED
    BY <2>6, <2>7, <2>8, <2>9, <2>10, PassesBridges
<1>2. DeclaredInv => Delivers
  BY <1>1 DEF Delivers, Bridges
<1> QED
  BY <1>2, Declared, PTL

-----------------------------------------------------------------------------
(* What is pushed for a type.                                              *)

LEMMA PointeeIs ==
  ASSUME NEW t \in CppType, t.decl \in {<<"*">>, <<"*", "const">>, <<"const", "*">>, <<"const", "*", "const">>}
  PROVE  /\ IsPointer(t)
         /\ t.decl \in {<<"*">>, <<"*", "const">>} => Pointee(t) = [t EXCEPT !.decl = <<>>]
         /\ t.decl \in {<<"const", "*">>, <<"const", "*", "const">>}
              => Pointee(t) = [t EXCEPT !.decl = <<"const">>]
<1>1. t.decl \in Shapes
  BY DEF Shapes
<1>2. /\ IsPointer(t)
      /\ is_ptr(t) <=> t.decl \in {<<"*">>, <<"const", "*">>}
  BY <1>1, Endings DEF IsPointer
<1>3. Pointee(t) = [t EXCEPT !.decl = SubSeq(t.decl, 1, Len(t.decl) - (IF is_ptr(t) THEN 1 ELSE 2))]
  BY DEF Pointee, Without
<1>4. CASE t.decl = <<"*">>
  BY <1>2, <1>3, <1>4, ShapeFronts, ShapeLengths
<1>5. CASE t.decl = <<"*", "const">>
  BY <1>2, <1>3, <1>5, ShapeFronts, ShapeLengths
<1>6. CASE t.decl = <<"const", "*">>
  BY <1>2, <1>3, <1>6, ShapeFronts, ShapeLengths
<1>7. CASE t.decl = <<"const", "*", "const">>
  BY <1>2, <1>3, <1>7, ShapeFronts, ShapeLengths
<1> QED
  BY <1>2, <1>4, <1>5, <1>6, <1>7

\* The fields of what is pushed
LEMMA ObjectFields ==
  ASSUME NEW class, NEW const, NEW shared, NEW of, NEW gc, NEW made,
         made = Object(class, const, shared, of, gc)
  PROVE  /\ made.type = "userdata" /\ made.class = class /\ made.const = const
         /\ made.shared = shared /\ made.of = of /\ made.gc = gc
BY DEF PushedAs, Object, Userdata

LEMMA PlainFields ==
  ASSUME NEW plain, NEW made, made = Plainly(plain)
  PROVE  made.type = plain
BY DEF PushedAs, Plainly, Value

\* What Lua has a value of its own for, or a shared pointer, is pushed as that.
LEMMA ValuePush ==
  ASSUME NEW raw \in CppType, raw.decl = <<>>
  PROVE  LET made == push_basic_type_(raw)
         IN  /\ raw.shared # "no" => made = Object(raw.base, raw.shared = "const", TRUE, "instance", TRUE)
             /\ Named(raw, {"bool"}) => made = Plainly("boolean")
             /\ is_integral_string_class(raw) => made = Plainly("string")
             /\ Named(raw, {"Table", "Lua_table_ref"}) => made = Plainly("table")
             /\ Named(raw, {"Lua_func_ref"}) => made = Plainly("function")
             /\ IsNumber(raw) /\ ~Named(raw, {"bool"}) => made = Plainly("number")
             /\ \/ raw.shared # "no" \/ Named(raw, {"bool"}) \/ is_integral_string_class(raw)
                \/ Named(raw, {"Table", "Lua_table_ref"}) \/ Named(raw, {"Lua_func_ref"})
                \/ IsNumber(raw) /\ ~Named(raw, {"bool"})
                \/ made = Unpushable
<1> DEFINE isShared == raw.shared # "no"
           isBool == Named(raw, {"bool"})
           isNumber == IsNumber(raw) /\ ~Named(raw, {"bool"})
           isString == is_integral_string_class(raw)
           isTable == Named(raw, {"Table", "Lua_table_ref"})
           isFunction == Named(raw, {"Lua_func_ref"})
           made == push_basic_type_(raw)
           shared == Object(raw.base, raw.shared = "const", TRUE, "instance", TRUE)
<1>1. made = CASE isBool -> Plainly("boolean") [] isShared -> shared [] isString -> Plainly("string")
               [] isTable -> Plainly("table") [] isFunction -> Plainly("function")
               [] isNumber -> Plainly("number") [] OTHER -> Unpushable
  BY DEF push_basic_type_
<1>2. /\ isShared => ~isBool /\ ~isNumber /\ ~isString /\ ~isTable /\ ~isFunction
      /\ isBool => ~isNumber /\ ~isString /\ ~isTable /\ ~isFunction
      /\ isNumber => ~isString /\ ~isTable /\ ~isFunction
      /\ isString => ~isTable /\ ~isFunction
      /\ isTable => ~isFunction
  BY DEF Named, IsNumber, is_integral_type, can_convert_to_int,
         is_scoped_enum, is_class_type, is_integral_string_class, Integral, LuaRefs
<1> HIDE DEF isShared, isBool, isNumber, isString, isTable, isFunction, made, shared
<1>3. /\ isShared => made = shared
      /\ isBool => made = Plainly("boolean")
      /\ isString => made = Plainly("string")
      /\ isTable => made = Plainly("table")
      /\ isFunction => made = Plainly("function")
      /\ isNumber => made = Plainly("number")
      /\ isShared \/ isBool \/ isString \/ isTable \/ isFunction \/ isNumber \/ made = Unpushable
  BY <1>1, <1>2
<1> QED
  BY <1>3 DEF isShared, isBool, isNumber, isString, isTable, isFunction, made, shared

-----------------------------------------------------------------------------
(* Public members.                                                         *)

\* What the library pushes for a value which is not an object, it takes back.
LEMMA ValueTakenBack ==
  ASSUME NEW raw \in CppType, raw.decl = <<>>, push_basic_type_(raw).type # "none",
         NEW mayChange
  PROVE  Accepts(Reader(raw), raw, mayChange, push_basic_type_(raw))
<1> DEFINE made == push_basic_type_(raw)
<1>1. CASE raw.shared # "no"
  <2> DEFINE constant == raw.shared = "const"
  <2>1. made = Object(raw.base, constant, TRUE, "instance", TRUE)
    BY <1>1, ValuePush
  <2>2. Reader(raw) = "shared"
    BY <1>1, ValueReader
  <2> HIDE DEF made, constant
  <2>3. /\ made.type = "userdata" /\ made.class = raw.base /\ made.shared
        /\ made.const = constant
    <3>1. /\ made.type = "userdata" /\ made.class = raw.base /\ made.const = constant
          /\ made.shared = TRUE
      BY <2>1 DEF Object, PushedAs, Userdata
    <3> QED
      BY <3>1
  <2>4. CheckIndex(made, raw.base, raw.shared # "const")
    BY <2>3 DEF CheckIndex, IsA, constant
  <2> QED
    BY <2>2, <2>3, <2>4 DEF Accepts, made
<1>2. CASE Named(raw, {"bool"})
  <2>1. made = Plainly("boolean") /\ Reader(raw) = "bool"
    BY <1>2, ValuePush, ValueReader
  <2> HIDE DEF made
  <2>2. made.type = "boolean"
    BY <2>1, PlainFields
  <2> QED
    BY <2>1, <2>2 DEF Accepts, made
<1>3. CASE is_integral_string_class(raw)
  <2>1. made = Plainly("string") /\ Reader(raw) = "string"
    BY <1>3, ValuePush, ValueReader
  <2> HIDE DEF made
  <2>2. made.type = "string"
    BY <2>1, PlainFields
  <2> QED
    BY <2>1, <2>2 DEF Accepts, made
<1>4. CASE Named(raw, {"Table", "Lua_table_ref"})
  <2>1. is_lua_ref(raw) \/ Named(raw, {"Table"})
    BY <1>4 DEF is_lua_ref, LuaRefs, Named
  <2>2. Reader(raw) = raw.base /\ raw.base \in {"Table", "Lua_table_ref"}
    BY <1>4, <2>1, ValueReader DEF Named
  <2>3. made = Plainly("table")
    BY <1>4, ValuePush
  <2> HIDE DEF made
  <2>4. made.type = "table"
    BY <2>3, PlainFields
  <2> QED
    BY <2>2, <2>4 DEF Accepts, made
<1>5. CASE Named(raw, {"Lua_func_ref"})
  <2>1. is_lua_ref(raw)
    BY <1>5 DEF is_lua_ref, LuaRefs, Named
  <2>2. Reader(raw) = "Lua_func_ref"
    BY <1>5, <2>1, ValueReader DEF Named
  <2>3. made = Plainly("function")
    BY <1>5, ValuePush
  <2> HIDE DEF made
  <2>4. made.type = "function"
    BY <2>3, PlainFields
  <2> QED
    BY <2>2, <2>4 DEF Accepts, made
<1>6. CASE IsNumber(raw) /\ ~Named(raw, {"bool"})
  <2>1. made = Plainly("number") /\ Reader(raw) = "number"
    BY <1>6, ValuePush, ValueReader
  <2> HIDE DEF made
  <2>2. made.type = "number"
    BY <2>1, PlainFields
  <2> QED
    BY <2>1, <2>2 DEF Accepts, made
<1>7. made # Unpushable
  BY PlainFields DEF Unpushable
<1> QED
  BY <1>1, <1>2, <1>3, <1>4, <1>5, <1>6, <1>7, ValuePush

\* What is pushed as an instance of a class
LEMMA InstancePush ==
  ASSUME NEW raw, NEW t, NEW of, NEW owner, NEW made, made = push_pointer(raw, t, of, owner),
         made.type # "none"
  PROVE  /\ has_a_proxy_type(raw)
         /\ made.type = "userdata" /\ made.class = raw.base /\ ~made.shared /\ made.of = of
         /\ made.const <=> is_const(t)
         /\ made.gc <=> owner = "Lua"
<1>1. has_a_proxy_type(raw)
  BY PlainFields DEF push_pointer, Unpushable
<1> DEFINE constant == is_const(t)
           owned == owner = "Lua"
<1>2. made = Object(raw.base, constant, FALSE, of, owned)
  BY <1>1 DEF push_pointer
<1> HIDE DEF constant, owned
<1>3. /\ made.type = "userdata" /\ made.class = raw.base /\ made.of = of
      /\ made.shared = FALSE /\ made.const = constant /\ made.gc = owned
  BY <1>2 DEF Object, PushedAs, Userdata
<1>4. ~made.shared
  BY <1>3
<1>5. made.const <=> constant
  BY <1>3
<1>6. made.gc <=> owned
  BY <1>3
<1> QED
  BY <1>1, <1>3, <1>4, <1>5, <1>6 DEF constant, owned

LEMMA IntegralTypes ==
  ASSUME NEW raw, is_integral_type(raw)
  PROVE  /\ raw.decl = <<>> /\ raw.shared = "no" /\ IsNumber(raw)
         /\ raw.base # "void" /\ raw # calling_lua_state
BY DEF is_integral_type, Named, IsNumber, Integral, calling_lua_state, Type

LEMMA InstanceTakenBack ==
  ASSUME NEW raw \in CppType, raw.decl = <<>>, NEW t \in CppType, t = AsPtr(raw) \/ t = AsConstPtr(raw),
         NEW pointee, NEW made, made = push_pointer(raw, pointee, "instance", "No_change"),
         made.type # "none", NEW mayChange, ~(mayChange /\ is_const(pointee))
  PROVE  Accepts(Reader(t), raw, mayChange, made)
<1>1. /\ has_a_proxy_type(raw)
      /\ made.type = "userdata" /\ made.class = raw.base
      /\ made.const <=> is_const(pointee)
  BY InstancePush
<1>2. ~IsVoid(raw) /\ ~is_integral_type(raw)
  BY <1>1, TypesAssumption DEF IsVoid, has_a_proxy_type, Named, Unproxied, is_integral_type
<1>3. Reader(t) = "class"
  BY <1>1, <1>2, PointerReader
<1>4. CheckIndex(made, raw.base, mayChange)
  BY <1>1 DEF CheckIndex, IsA
<1> QED
  BY <1>3, <1>4 DEF Accepts

\* A part of the object
LEMMA PartTakenBack ==
  ASSUME NEW t \in CppType, t.decl = <<>>, IsPart(t)
  PROVE  GetPublicMember(t, PushPublicMember(t))
<1>1. /\ raw_type(t) = t /\ Declare(t, "*") = AsPtr(t) /\ AsPtr(t) \in CppType
      /\ AsPtr(t).decl = <<"*">> /\ AsPtr(t).base = t.base
  <2>1. Declarable(t) /\ t = [t EXCEPT !.decl = <<>>]
    BY DEF Declarable, Shapes, CppType
  <2> QED
    BY <2>1, RawFacts, PullTypes, PointerTypes
<1>2. has_a_proxy_type(t)
  BY <1>1 DEF IsPart
<1>3. ~is_const(t)
  BY IsConst DEF Shapes
<1>4. t.base # "void" /\ t.base # "char" /\ ~is_integral_type(t)
  BY <1>2, TypesAssumption DEF has_a_proxy_type, Named, Unproxied, Integral, is_integral_type
<1>5. IsPointer(AsPtr(t)) /\ Pointee(AsPtr(t)) = t
  <2>1. Pointee(AsPtr(t)) = [AsPtr(t) EXCEPT !.decl = <<>>] /\ IsPointer(AsPtr(t))
    BY <1>1, PointeeIs
  <2> QED
    BY <2>1 DEF AsPtr, CppType
<1>6. PushPublicMember(t) = push_pointer(t, t, "instance", "No_change")
  <2>1. PushPublicMember(t) = push(AsPtr(t))
    BY <1>1 DEF PushPublicMember
  <2>2. AsPtr(t) # Type("void", <<"*">>)
    BY <1>1, <1>4 DEF Type
  <2>3. push(AsPtr(t)) = push_ptr(t, is_integral_type(t), "No_change")
    BY <1>5, <2>2 DEF push
  <2>4. t \notin {Type("char", <<>>), Type("char", <<"const">>)}
    BY <1>4 DEF Type
  <2> QED
    BY <1>1, <1>4, <2>1, <2>3, <2>4 DEF push_ptr
<1>7. PushPublicMember(t).type # "none"
  <2>1. push_pointer(t, t, "instance", "No_change") = Object(t.base, is_const(t), FALSE, "instance", FALSE)
    BY <1>2 DEF push_pointer
  <2> QED
    BY <1>6, <2>1 DEF Object, PushedAs, Userdata
<1>8. Accepts(Reader(AsPtr(t)), t, ~is_const(t), PushPublicMember(t))
  BY <1>1, <1>3, <1>6, <1>7, InstanceTakenBack
<1>9. MemberReader(t) = Reader(AsPtr(t))
  <2>1. ~IsPointer(t)
    BY Endings DEF IsPointer, Shapes
  <2> QED
    BY <1>1, <2>1 DEF MemberReader
<1> QED
  BY <1>1, <1>8, <1>9 DEF GetPublicMember

\* A value Lua has of its own, or a shared pointer
LEMMA ValueMember ==
  ASSUME NEW t \in CppType, t.decl = <<>>, ~IsPart(t), PushPublicMember(t).type # "none"
  PROVE  GetPublicMember(t, PushPublicMember(t))
<1>1. raw_type(t) = t /\ remove_all_const(t) = t /\ ~IsPointer(t)
  <2>1. Declarable(t) /\ t = [t EXCEPT !.decl = <<>>] /\ t.decl \in Shapes
    BY DEF Declarable, Shapes, CppType
  <2> QED
    BY <2>1, RawFacts, RemoveAllConst, Endings DEF IsPointer
<1>2. t # Type("void", <<"*">>)
  BY DEF Type
<1>3. PushPublicMember(t) = push_basic_type_(t)
  BY <1>1, <1>2 DEF PushPublicMember, push, push_basic_type
<1>4. MemberReader(t) = Reader(t)
  BY <1>1 DEF MemberReader
<1> QED
  BY <1>1, <1>3, <1>4, ValueTakenBack DEF GetPublicMember

\* A pointer to a class, to a string or to a value, or any pointer as light userdata
LEMMA PointerMember ==
  ASSUME NEW t \in CppType, t.decl \in {<<"*">>, <<"const", "*">>}, t # Type("char", <<"*">>),
         PushPublicMember(t).type # "none"
  PROVE  GetPublicMember(t, PushPublicMember(t))
<1> DEFINE raw == [t EXCEPT !.decl = <<>>]
           pointee == Pointee(t)
           made == PushPublicMember(t)
<1>1. /\ Declarable(t) /\ t.decl \in Shapes
      /\ raw_type(t) = raw /\ raw \in CppType /\ raw.decl = <<>> /\ raw.base = t.base /\ raw.shared = t.shared
  BY RawFacts DEF Declarable, Shapes
<1>2. /\ IsPointer(t)
      /\ t.decl = <<"*">> => pointee = raw
      /\ t.decl = <<"const", "*">> => pointee = [t EXCEPT !.decl = <<"const">>]
  BY PointeeIs
<1>3. t = AsPtr(raw) \/ t = AsConstPtr(raw)
  BY <1>1 DEF AsPtr, AsConstPtr, CppType
<1>4. ~IsPart(t)
  BY <1>1, ByReference DEF IsPart
<1>5. made = push(t)
  BY <1>4 DEF PushPublicMember
<1>6. /\ pointee.base = t.base /\ pointee.shared = t.shared
      /\ pointee.decl = IF t.decl = <<"*">> THEN <<>> ELSE <<"const">>
      /\ raw_type(pointee) = raw /\ pointee \in CppType /\ pointee.decl \in Shapes
  <2>1. CASE t.decl = <<"*">>
    <3>1. Declarable(raw) /\ raw = [raw EXCEPT !.decl = <<>>]
      BY <1>1 DEF Declarable, Shapes, CppType
    <3> QED
      BY <1>1, <1>2, <2>1, <3>1, RawFacts DEF Shapes
  <2>2. CASE t.decl = <<"const", "*">>
    <3>1. /\ pointee = [t EXCEPT !.decl = <<"const">>] /\ pointee \in CppType
          /\ pointee.base = t.base /\ pointee.shared = t.shared /\ pointee.decl = <<"const">>
          /\ [pointee EXCEPT !.decl = <<>>] = raw
      BY <1>2, <2>2, ShapeLengths DEF CppType
    <3>2. Declarable(pointee) /\ pointee.decl \in Shapes
      BY <3>1 DEF Declarable, Shapes
    <3> QED
      BY <2>2, <3>1, <3>2, RawFacts
  <2> QED
    BY <2>1, <2>2
<1>7. is_const(t) <=> is_const(pointee)
  BY <1>1, <1>6, IsConst
<1> HIDE DEF pointee, made
<1>8. CASE t = Type("void", <<"*">>)
  <2>1. made.type = "light"
    BY <1>5, <1>8, PlainFields DEF push
  <2>2. ~is_integral_type(pointee)
    BY <1>6, <1>8, IntegralTypes DEF Type
  <2>3. MemberReader(t) = "light"
    BY <1>4, <1>8, <2>2, OwnReaders DEF MemberReader, pointee
  <2> QED
    BY <2>1, <2>3 DEF GetPublicMember, Accepts, made
<1>9. CASE t # Type("void", <<"*">>) /\ is_integral_type(pointee)
  <2>1. /\ pointee = raw /\ IsNumber(raw) /\ raw.shared = "no"
    BY <1>2, <1>6, <1>9, IntegralTypes
  <2>2. pointee \notin {Type("char", <<>>), Type("char", <<"const">>)}
    <3>1. pointee.decl = <<>>
      BY <1>1, <2>1
    <3>2. t.decl = <<"*">>
      BY <1>6, <3>1
    <3>3. t.base # "char" \/ t.shared # "no"
      BY <3>2 DEF Type, CppType
    <3>4. pointee.base # "char" \/ pointee.shared # "no"
      BY <1>6, <3>3
    <3> QED
      BY <3>4 DEF Type
  <2>3. made = push_basic_type(raw)
    BY <1>2, <1>5, <1>9, <2>1, <2>2 DEF push, push_ptr, pointee
  <2>4. remove_all_const(raw) = raw
    BY <1>1, RemoveAllConst DEF Shapes, CppType
  <2>5. made = push_basic_type_(raw)
    BY <2>3, <2>4 DEF push_basic_type
  <2>6. MemberReader(t) = Reader(raw)
    BY <1>2, <1>4, <1>9, <2>1 DEF MemberReader, pointee
  <2>7. Accepts(Reader(raw), raw, ~is_const(t), made)
    BY <1>1, <2>5, ValueTakenBack DEF made
  <2> QED
    BY <1>1, <2>6, <2>7 DEF GetPublicMember, made
<1>10. CASE t # Type("void", <<"*">>) /\ ~is_integral_type(pointee)
  <2>1. MemberReader(t) = Reader(t)
    BY <1>4, <1>10 DEF MemberReader, pointee
  <2>2. CASE pointee \in {Type("char", <<>>), Type("char", <<"const">>)}
    <3>1. made.type = "string"
      BY <1>2, <1>5, <1>10, <2>2, PlainFields DEF push, push_ptr, pointee
    <3>2. t = Type("char", <<"const", "*">>)
      BY <1>1, <1>6, <2>2 DEF Type, CppType
    <3>3. MemberReader(t) = "cstring"
      BY <2>1, <3>2, OwnReaders
    <3> QED
      BY <3>1, <3>3 DEF GetPublicMember, Accepts, made
  <2>3. CASE pointee \notin {Type("char", <<>>), Type("char", <<"const">>)}
    <3>1. made = push_pointer(raw, pointee, "instance", "No_change")
      BY <1>2, <1>5, <1>6, <1>10, <2>3 DEF push, push_ptr, pointee
    <3>2. Accepts(Reader(t), raw, ~is_const(t), made)
      BY <1>1, <1>3, <1>7, <3>1, InstanceTakenBack DEF made
    <3> QED
      BY <1>1, <2>1, <3>2 DEF GetPublicMember, made
  <2> QED
    BY <2>2, <2>3
<1> QED
  BY <1>8, <1>9, <1>10 DEF made

\* A setter takes back what the getter of the member gave, whatever the member is
\* declared as: what one pushes and the other reads are decided by templates which
\* do not know of one another.
THEOREM MembersAreTakenBack == Spec => []SettersTakeBack
<1>1. ASSUME DeclaredInv, ~is_ref(type), Assignable(type), PushPublicMember(type).type # "none",
             type # Type("char", <<"*">>)
      PROVE  GetPublicMember(type, PushPublicMember(type))
  <2>1. type \in CppType /\ type.decl \in Shapes
    BY <1>1 DEF DeclaredInv, Declarable
  <2>2. type.decl \in {<<>>, <<"*">>, <<"const", "*">>}
    BY <1>1, <2>1, Endings DEF Assignable
  <2>3. CASE type.decl = <<>>
    BY <1>1, <2>1, <2>3, PartTakenBack, ValueMember
  <2>4. CASE type.decl \in {<<"*">>, <<"const", "*">>}
    BY <1>1, <2>1, <2>4, PointerMember
  <2> QED
    BY <2>2, <2>3, <2>4
<1>2. DeclaredInv => SettersTakeBack
  BY <1>1 DEF SettersTakeBack
<1> QED
  BY <1>2, Declared, PTL

-----------------------------------------------------------------------------
(* What functions return.                                                  *)

\* The types without a reference
ValueShapes == {<<>>, <<"const">>, <<"*">>, <<"*", "const">>, <<"const", "*">>, <<"const", "*", "const">>}

\* What scripts get of an instance, of a shared pointer to one, or a copy of one
FirstConst(decl) == decl \in {<<"const">>, <<"const", "*">>, <<"const", "*", "const">>}

AsInstance(made, t, owner) ==
  /\ t.shared = "no" /\ ~made.shared /\ made.of # "copy"
  /\ made.const <=> FirstConst(t.decl)
  /\ made.gc <=> owner = "Lua"

AsShared(made, t) ==
  /\ t.shared # "no" /\ made.shared /\ made.gc /\ made.of # "copy"
  /\ made.const <=> t.shared = "const"

AsCopy(made) == made.of = "copy" /\ made.gc

\* What a value is pushed as is an object only for a shared pointer.
LEMMA SharedPush ==
  ASSUME NEW t \in CppType, t.decl \in {<<>>, <<"const">>}, NEW made, made = push_basic_type(t),
         made.type = "userdata"
  PROVE  AsShared(made, t)
<1> DEFINE raw == [t EXCEPT !.decl = <<>>]
<1>1. /\ raw \in CppType /\ raw.decl = <<>> /\ raw.shared = t.shared
  BY ShapeLengths DEF CppType
<1>2. made = push_basic_type_(raw)
  <2>1. remove_all_const(t) = raw
    BY RemoveAllConst DEF Shapes
  <2> QED
    BY <2>1 DEF push_basic_type
<1> HIDE DEF raw
<1>3. raw.shared # "no"
  <2>1. made \notin {Plainly("boolean"), Plainly("string"), Plainly("table"), Plainly("function"),
                     Plainly("number"), Unpushable}
    BY PlainFields DEF Unpushable
  <2> QED
    BY <1>1, <1>2, <2>1, ValuePush
<1> DEFINE constant == raw.shared = "const"
<1>4. made = Object(raw.base, constant, TRUE, "instance", TRUE)
  BY <1>1, <1>2, <1>3, ValuePush
<1> HIDE DEF constant
<1>5. /\ made.const = constant /\ made.shared = TRUE /\ made.gc = TRUE /\ made.of = "instance"
  BY <1>4 DEF Object, PushedAs, Userdata
<1>6. made.shared /\ made.gc /\ made.of # "copy"
  BY <1>5
<1>7. made.const <=> constant
  BY <1>5
<1> QED
  BY <1>1, <1>3, <1>6, <1>7 DEF AsShared, constant

LEMMA CopyPush ==
  ASSUME NEW class, NEW made, made = NewObject(class, "copy")
  PROVE  AsCopy(made)
<1>1. made.of = "copy" /\ made.gc = TRUE
  BY DEF NewObject, Object, PushedAs
<1> QED
  BY <1>1 DEF AsCopy

\* An instance, by a type of it
LEMMA InstanceOf ==
  ASSUME NEW t \in CppType, t.decl \in ValueShapes, NEW raw, raw.shared = t.shared,
         NEW u, u.decl \in Shapes, is_const(u) <=> FirstConst(t.decl),
         NEW of \in {"instance", "variable"}, NEW owner,
         NEW made, made = push_pointer(raw, u, of, owner), made.type = "userdata"
  PROVE  AsInstance(made, t, owner)
<1>1. /\ has_a_proxy_type(raw) /\ ~made.shared /\ made.of = of
      /\ made.const <=> is_const(u)
      /\ made.gc <=> owner = "Lua"
  BY InstancePush
<1>2. t.shared = "no"
  BY <1>1 DEF has_a_proxy_type, Named
<1> QED
  BY <1>1, <1>2 DEF AsInstance

LEMMA RawOf ==
  ASSUME NEW t \in CppType, t.decl \in ValueShapes
  PROVE  /\ raw_type(t) = [t EXCEPT !.decl = <<>>] /\ raw_type(t).shared = t.shared
         /\ raw_type(t).decl = <<>> /\ raw_type(t) \in CppType
         /\ is_const(t) <=> FirstConst(t.decl)
         /\ is_ptr(t) <=> t.decl \in {<<"*">>, <<"const", "*">>}
         /\ IsPointer(t) <=> t.decl \in {<<"*">>, <<"*", "const">>, <<"const", "*">>, <<"const", "*", "const">>}
<1>1. t.decl \in Shapes /\ Declarable(t)
  BY DEF ValueShapes, Shapes, Declarable
<1> QED
  BY <1>1, RawFacts, IsConst, Endings DEF IsPointer, FirstConst, ValueShapes

\* What is pointed to is as constant as the pointer says.
LEMMA PointeeOf ==
  ASSUME NEW t \in CppType, t.decl \in ValueShapes, IsPointer(t)
  PROVE  /\ Pointee(t) \in CppType /\ Pointee(t).decl \in {<<>>, <<"const">>}
         /\ Pointee(t).shared = t.shared /\ Pointee(t).base = t.base
         /\ raw_type(Pointee(t)) = raw_type(t)
         /\ is_const(Pointee(t)) <=> FirstConst(t.decl)
<1> DEFINE u == Pointee(t)
<1>1. t.decl \in {<<"*">>, <<"*", "const">>, <<"const", "*">>, <<"const", "*", "const">>}
  BY RawOf
<1>2. \/ u = [t EXCEPT !.decl = <<>>] /\ t.decl \in {<<"*">>, <<"*", "const">>}
      \/ u = [t EXCEPT !.decl = <<"const">>] /\ t.decl \in {<<"const", "*">>, <<"const", "*", "const">>}
  BY <1>1, PointeeIs
<1>3. u \in CppType /\ u.shared = t.shared /\ u.base = t.base
  BY <1>2, ShapeLengths DEF CppType
<1>4. \/ u.decl = <<>> /\ t.decl \in {<<"*">>, <<"*", "const">>}
      \/ u.decl = <<"const">> /\ t.decl \in {<<"const", "*">>, <<"const", "*", "const">>}
  BY <1>2 DEF CppType
<1>5. [u EXCEPT !.decl = <<>>] = [t EXCEPT !.decl = <<>>]
  BY <1>2, <1>3 DEF CppType
<1> HIDE DEF u
<1>6. u.decl \in ValueShapes
  BY <1>4 DEF ValueShapes
<1>7. raw_type(u) = raw_type(t)
  BY <1>3, <1>5, <1>6, RawOf
<1>8. is_const(u) <=> FirstConst(u.decl)
  BY <1>3, <1>6, RawOf
<1>9. FirstConst(u.decl) <=> FirstConst(t.decl)
  <2>1. CASE u.decl = <<>> /\ t.decl \in {<<"*">>, <<"*", "const">>}
    <3>1. ~FirstConst(<<>>) /\ ~FirstConst(<<"*">>) /\ ~FirstConst(<<"*", "const">>)
      BY DEF FirstConst
    <3> QED
      BY <2>1, <3>1
  <2>2. CASE u.decl = <<"const">> /\ t.decl \in {<<"const", "*">>, <<"const", "*", "const">>}
    <3>1. FirstConst(<<"const">>) /\ FirstConst(<<"const", "*">>) /\ FirstConst(<<"const", "*", "const">>)
      BY DEF FirstConst
    <3> QED
      BY <2>2, <3>1
  <2> QED
    BY <1>4, <2>1, <2>2
<1> QED
  BY <1>3, <1>4, <1>7, <1>8, <1>9 DEF u

\* A Proxy_stack_helper pushes an object as its type and its owner say.
LEMMA HelperPush ==
  ASSUME NEW t \in CppType, t.decl \in ValueShapes, NEW tr, tr.owner \in {"No_change", "Lua"},
         NEW made, made = Proxy_stack_helper(tr, t), made.type = "userdata"
  PROVE  AsCopy(made) \/ AsShared(made, t) \/ AsInstance(made, t, tr.owner)
<1> DEFINE raw == raw_type(t)
<1>1. /\ raw.shared = t.shared /\ t.decl \in Shapes
      /\ is_const(t) <=> FirstConst(t.decl)
  BY RawOf DEF ValueShapes, Shapes
<1>2. ASSUME made = proxy_maybe_by_ref(tr, t, tr.owner)
      PROVE  AsCopy(made) \/ AsInstance(made, t, tr.owner)
  <2>1. CASE tr.by_value
    BY <1>2, <2>1, CopyPush DEF proxy_maybe_by_ref
  <2>2. CASE ~tr.by_value
    <3>1. PICK of \in {"instance", "variable"} : made = push_pointer(raw, t, of, tr.owner)
      BY <1>2, <2>2 DEF proxy_maybe_by_ref
    <3> HIDE DEF raw
    <3> QED
      BY <1>1, <3>1, InstanceOf
  <2> QED
    BY <2>1, <2>2
<1>3. ASSUME IsPointer(t), made = push_pointer(raw, Pointee(t), "instance", tr.owner)
      PROVE  AsInstance(made, t, tr.owner)
  <2>1. /\ Pointee(t).decl \in Shapes
        /\ is_const(Pointee(t)) <=> FirstConst(t.decl)
    BY <1>3, PointeeOf DEF Shapes
  <2> HIDE DEF raw
  <2> QED
    BY <1>1, <1>3, <2>1, InstanceOf
<1>4. CASE tr.owner = "No_change" /\ IsPointer(t)
  <2>1. /\ made = push_ptr(Pointee(t), is_integral(raw_type(Pointee(t))), "No_change")
        /\ raw_type(Pointee(t)) = raw /\ Pointee(t).shared = t.shared
        /\ Pointee(t) \in CppType /\ Pointee(t).decl \in {<<>>, <<"const">>}
    BY <1>4, PointeeOf DEF Proxy_stack_helper
  <2>2. \/ made = Plainly("string")
        \/ made = push_basic_type(Pointee(t))
        \/ made = push_pointer(raw, Pointee(t), "instance", tr.owner)
    BY <1>4, <2>1 DEF push_ptr
  <2>3. made # Plainly("string")
    BY PlainFields
  <2>4. made = push_basic_type(Pointee(t)) => AsShared(made, Pointee(t))
    BY <2>1, SharedPush
  <2>5. AsShared(made, Pointee(t)) => AsShared(made, t)
    BY <2>1 DEF AsShared
  <2> QED
    BY <1>3, <1>4, <2>2, <2>3, <2>4, <2>5
<1>5. CASE tr.owner = "No_change" /\ ~IsPointer(t)
  <2>1. t.decl \in {<<>>, <<"const">>}
    BY <1>5, RawOf DEF ValueShapes
  <2>2. made = push_basic_type(t) \/ made = proxy_maybe_by_ref(tr, t, tr.owner)
    BY <1>5 DEF Proxy_stack_helper
  <2> QED
    BY <1>2, <2>1, <2>2, SharedPush
<1>6. CASE tr.owner = "Lua"
  <2>1. is_ptr(t) => IsPointer(t)
    BY DEF IsPointer
  <2>2. made = IF is_ptr(t) THEN push_pointer(raw, Pointee(t), "instance", tr.owner)
               ELSE proxy_maybe_by_ref(tr, t, tr.owner)
    BY <1>6 DEF Proxy_stack_helper
  <2> QED
    BY <1>2, <1>3, <2>1, <2>2
<1> QED
  BY <1>4, <1>5, <1>6

LEMMA FirstDeclarator ==
  ASSUME NEW s \in Shapes
  PROVE  s = <<>> \/ Head(s) # "const" <=> s \notin ConstShapes
<1>1. /\ Head(<<"const">>) = "const" /\ Head(<<"const", "&">>) = "const"
      /\ Head(<<"const", "*">>) = "const" /\ Head(<<"const", "*", "const">>) = "const"
      /\ Head(<<"const", "*", "const", "&">>) = "const" /\ Head(<<"const", "*", "&">>) = "const"
      /\ Head(<<"*">>) = "*" /\ Head(<<"*", "const">>) = "*" /\ Head(<<"*", "&">>) = "*"
      /\ Head(<<"*", "const", "&">>) = "*" /\ Head(<<"&">>) = "&"
  OBVIOUS
<1>2. CASE s \in ConstShapes
  <2>1. s # <<>> /\ Head(s) = "const"
    BY <1>1, <1>2 DEF ConstShapes
  <2> QED
    BY <1>2, <2>1
<1>3. CASE s \in {<<"*">>, <<"*", "const">>, <<"*", "&">>, <<"*", "const", "&">>, <<"&">>, <<>>}
  <2>1. s = <<>> \/ Head(s) # "const"
    BY <1>1, <1>3
  <2>2. s \notin ConstShapes
    BY <1>3 DEF ConstShapes
  <2> QED
    BY <2>1, <2>2
<1> QED
  BY <1>2, <1>3 DEF Shapes, ConstShapes

\* What ReturnedAsDeclared says of what is pushed by a trait
Declares(trait, t, made) ==
  /\ \/ made.of = "copy" \/ made.const \/ trait = "in_out_p"
     \/ t.shared = "mutable"
     \/ t.shared = "no" /\ (t.decl = <<>> \/ Head(t.decl) # "const")
  /\ made.gc <=> \/ made.of = "copy" \/ made.shared
                 \/ trait \in {"lua_return", "maybe_null_lua_return", "lua_out_p"}

LEMMA CopyDeclares ==
  ASSUME NEW trait, NEW t, NEW made, AsCopy(made)
  PROVE  Declares(trait, t, made)
BY DEF AsCopy, Declares

LEMMA SharedDeclares ==
  ASSUME NEW trait, NEW t \in CppType, NEW v, v.shared = t.shared, NEW made, AsShared(made, v)
  PROVE  Declares(trait, t, made)
<1>1. t.shared \in {"no", "mutable", "const"}
  BY DEF CppType
<1> QED
  BY <1>1 DEF AsShared, Declares

LEMMA InstanceDeclares ==
  ASSUME NEW trait, NEW t, Declarable(t), NEW v, v.shared = t.shared,
         \/ FirstConst(v.decl) <=> t.decl \in ConstShapes
         \/ trait = "in_out_p",
         NEW owner, owner = "Lua" <=> trait \in {"lua_return", "maybe_null_lua_return", "lua_out_p"},
         NEW made, AsInstance(made, v, owner)
  PROVE  Declares(trait, t, made)
<1>1. t.decl = <<>> \/ Head(t.decl) # "const" <=> t.decl \notin ConstShapes
  BY FirstDeclarator DEF Declarable
<1> QED
  BY <1>1 DEF AsInstance, Declares

\* The variable a function returned in
LEMMA ReturnVariable ==
  ASSUME NEW t, Declarable(t)
  PROVE  /\ remove_ref(t) \in CppType /\ remove_ref(t).decl \in ValueShapes
         /\ remove_ref(t).shared = t.shared
         /\ FirstConst(remove_ref(t).decl) <=> t.decl \in ConstShapes
<1> DEFINE v == remove_ref(t)
<1>1. t \in CppType /\ t.decl \in Shapes
  BY DEF Declarable
<1>2. v = [t EXCEPT !.decl = v.decl] /\ v.decl \in ValueShapes
  BY <1>1, RemoveRef DEF ValueShapes
<1>3. v.decl \in Seq(Declarators)
  BY <1>2, ShapeLengths DEF ValueShapes
<1>4. v \in CppType /\ v.shared = t.shared
  <2> HIDE DEF v
  <2> QED
    BY <1>1, <1>2, <1>3 DEF CppType
<1>5. CASE t.decl \in ConstShapes
  <2>1. v.decl \in {<<"const">>, <<"const", "*">>, <<"const", "*", "const">>}
    BY <1>1, <1>5, RemoveRef DEF ConstShapes
  <2> QED
    BY <1>2, <1>4, <1>5, <2>1 DEF FirstConst
<1>6. CASE t.decl \notin ConstShapes
  <2>1. v.decl \in {<<>>, <<"*">>, <<"*", "const">>}
    BY <1>1, <1>6, RemoveRef DEF ConstShapes, Shapes
  <2>2. ~FirstConst(<<>>) /\ ~FirstConst(<<"*">>) /\ ~FirstConst(<<"*", "const">>)
    BY DEF FirstConst
  <2>3. ~FirstConst(v.decl)
    BY <2>1, <2>2
  <2> QED
    BY <1>2, <1>4, <1>6, <2>3
<1> QED
  BY <1>5, <1>6, <1>2, <1>4

LEMMA ReturnOwners ==
  ASSUME NEW t
  PROVE  /\ TraitOf("function_return", t).owner = "No_change"
         /\ TraitOf("lua_return", t).owner = "Lua"
         /\ TraitOf("maybe_null_lua_return", t).owner = "Lua"
<1> DEFINE e == Type_enum_defaults(t, raw_type(t))
<1>1. /\ TraitOf("function_return", t) = function_return(t, e)
      /\ TraitOf("lua_return", t) = lua_return(t, e)
      /\ TraitOf("maybe_null_lua_return", t) = MaybeNull(lua_return(t, e), t)
  BY DEF TraitOf, TraitFor
<1> HIDE DEF e
<1>2. function_return(t, e).owner = "No_change"
  BY DEF function_return, Trait
<1>3. lua_return(t, e).owner = "Lua"
  BY DEF lua_return, Trait
<1>4. MaybeNull(lua_return(t, e), t).owner = "Lua"
  BY DEF lua_return, Trait, MaybeNull
<1> QED
  BY <1>1, <1>2, <1>3, <1>4

LEMMA ReturnDeclares ==
  ASSUME NEW t, Declarable(t), NEW trait, NEW tr,
         \/ trait \in {"function_return", "maybe_null"} /\ tr.owner = "No_change"
         \/ trait \in {"lua_return", "maybe_null_lua_return"} /\ tr.owner = "Lua",
         NEW made, made = Proxy_stack_helper(tr, remove_ref(t)), made.type = "userdata"
  PROVE  Declares(trait, t, made)
<1> DEFINE v == remove_ref(t)
<1>1. /\ v \in CppType /\ v.decl \in ValueShapes /\ v.shared = t.shared
      /\ FirstConst(v.decl) <=> t.decl \in ConstShapes
  BY ReturnVariable
<1>2. t \in CppType
  BY DEF Declarable
<1>3. tr.owner \in {"No_change", "Lua"}
      /\ (tr.owner = "Lua" <=> trait \in {"lua_return", "maybe_null_lua_return", "lua_out_p"})
  OBVIOUS
<1>4. AsCopy(made) \/ AsShared(made, v) \/ AsInstance(made, v, tr.owner)
  BY <1>1, <1>3, HelperPush
<1> HIDE DEF v
<1> QED
  BY <1>1, <1>2, <1>3, <1>4, CopyDeclares, SharedDeclares, InstanceDeclares

\* A shared pointer is made of a pointer to an instance of the class.
LEMMA SharedReturnDeclares ==
  ASSUME NEW t, Declarable(t), NEW trait \in {"shared_return", "maybe_null_shared_return"},
         Compiles(trait, t), NEW made, made = Pushed(trait, t), made.type = "userdata"
  PROVE  Declares(trait, t, made)
<1> DEFINE e == Type_enum_defaults(t, raw_type(t))
           raw == raw_type(t)
<1>1. t \in CppType /\ t.decl \in Shapes /\ raw.shared = t.shared
  BY RawFacts DEF Declarable
<1>2. t.shared = "no"
  <2>1. TraitOf(trait, t) = shared_return(t, e) \/ TraitOf(trait, t) = MaybeNull(shared_return(t, e), t)
    BY DEF TraitOf, TraitFor
  <2>2. e.raw = raw
    BY EnumDefaults
  <2>3. TraitOf(trait, t).legal
    BY DEF Compiles
  <2> HIDE DEF e, raw
  <2>4. shared_return(t, e).legal => has_a_proxy_type(e.raw)
    BY DEF shared_return, Trait
  <2>5. MaybeNull(shared_return(t, e), t).legal => has_a_proxy_type(e.raw)
    BY DEF shared_return, Trait, MaybeNull
  <2>6. has_a_proxy_type(raw)
    BY <2>1, <2>2, <2>3, <2>4, <2>5
  <2> QED
    BY <1>1, <2>6 DEF has_a_proxy_type, Named
<1>3. is_ptr(t)
  <2>1. ~is_ptr(t) => made = Unpushable
    BY DEF Pushed
  <2> QED
    BY <2>1, PlainFields DEF Unpushable
<1>4. t.decl \in {<<"*">>, <<"const", "*">>}
  BY <1>1, <1>3, Endings
<1>5. t.decl \in ValueShapes /\ IsPointer(t)
  BY <1>3, <1>4 DEF ValueShapes, IsPointer
<1>6. is_const(Pointee(t)) <=> FirstConst(t.decl)
  BY <1>1, <1>5, PointeeOf
<1> DEFINE constant == is_const(Pointee(t))
<1>7. made = Object(raw.base, constant, TRUE, "instance", TRUE)
  BY <1>3 DEF Pushed
<1> HIDE DEF constant, raw
<1>8. made.const = constant /\ made.shared = TRUE /\ made.gc = TRUE
  BY <1>7 DEF Object, PushedAs, Userdata
<1>9. /\ made.const <=> constant
      /\ made.gc /\ made.shared
  BY <1>8
<1>10. CASE t.decl = <<"*">>
  <2>1. Head(t.decl) # "const"
    BY <1>10
  <2> QED
    BY <1>2, <1>9, <2>1 DEF Declares
<1>11. CASE t.decl = <<"const", "*">>
  <2>1. made.const
    BY <1>6, <1>9, <1>11 DEF FirstConst, constant
  <2> QED
    BY <1>9, <2>1 DEF Declares
<1> QED
  BY <1>4, <1>10, <1>11

\* An in_out_p is given back as what was pulled.
LEMMA InOutDeclares ==
  ASSUME NEW t, Declarable(t), NEW made, made = Pushed("in_out_p", t), made.type = "userdata"
  PROVE  Declares("in_out_p", t, made)
<1> DEFINE tr == TraitOf("in_out_p", t)
           v == tr.pull
           raw == raw_type(t)
<1>1. /\ raw \in CppType /\ raw.decl = <<>> /\ raw.shared = t.shared /\ t \in CppType
      /\ AsPtr(raw) \in CppType /\ AsPtr(raw).decl = <<"*">> /\ AsPtr(raw).shared = raw.shared
  BY RawFacts, PointerTypes DEF Declarable
<1>2. v = raw \/ v = AsPtr(raw)
  BY InOutTrait
<1>3. v \in CppType /\ v.decl \in ValueShapes /\ v.shared = t.shared
  <2> HIDE DEF raw, v
  <2> QED
    BY <1>1, <1>2 DEF ValueShapes
<1>4. tr.owner = "No_change"
  BY DEF TraitOf, TraitFor, in_out_p, Trait
<1>5. made = Proxy_stack_helper(tr, v)
  BY DEF Pushed, Variable, OutTraits
<1> HIDE DEF tr, v
<1>6. AsCopy(made) \/ AsShared(made, v) \/ AsInstance(made, v, tr.owner)
  BY <1>3, <1>4, <1>5, HelperPush
<1> QED
  BY <1>1, <1>3, <1>4, <1>6, CopyDeclares, SharedDeclares, InstanceDeclares

\* What the library made for an out_p is copied, or is a shared pointer.
LEMMA OutDeclares ==
  ASSUME NEW t, Declarable(t), NEW made, made = Pushed("out_p", t), made.type = "userdata"
  PROVE  Declares("out_p", t, made)
<1> DEFINE tr == TraitOf("out_p", t)
           e == Type_enum_defaults(t, raw_type(t))
           raw == raw_type(t)
<1>1. /\ raw \in CppType /\ raw.decl = <<>> /\ raw.shared = t.shared /\ t \in CppType
  BY RawFacts DEF Declarable
<1>2. tr.pull = raw /\ tr.by_value /\ tr.owner \in {"No_change", "Lua"}
  <2>1. tr = out_p(e)
    BY DEF TraitOf, TraitFor
  <2>2. e.raw = raw
    BY EnumDefaults
  <2> HIDE DEF tr, e, raw
  <2>3. /\ tr.pull = e.raw /\ tr.by_value = TRUE
        /\ tr.owner = IF e.is_integral \/ is_false_integral(e.raw) THEN "No_change" ELSE "Lua"
    BY <2>1 DEF out_p, Trait
  <2> QED
    BY <2>2, <2>3
<1>3. made = Proxy_stack_helper(tr, raw)
  <2>1. made = Proxy_stack_helper(tr, tr.pull)
    BY DEF Pushed, Variable, OutTraits
  <2> QED
    BY <1>2, <2>1
<1>4. ~IsPointer(raw) /\ ~is_ptr(raw)
  BY <1>1, RawOf DEF ValueShapes
<1> HIDE DEF tr, raw, e
<1>5. \/ made = push_basic_type(raw)
      \/ \E owner : made = proxy_maybe_by_ref(tr, raw, owner)
  BY <1>3, <1>4 DEF Proxy_stack_helper
<1>6. CASE made = push_basic_type(raw)
  <2>1. AsShared(made, raw)
    BY <1>1, <1>6, SharedPush
  <2> QED
    BY <1>1, <2>1, SharedDeclares
<1>7. CASE \E owner : made = proxy_maybe_by_ref(tr, raw, owner)
  <2>1. AsCopy(made)
    BY <1>2, <1>7, CopyPush DEF proxy_maybe_by_ref
  <2> QED
    BY <2>1, CopyDeclares
<1> QED
  BY <1>5, <1>6, <1>7

\* A lua_out_p is given away as what it was pulled as.
LEMMA LuaOutDeclares ==
  ASSUME NEW t, Declarable(t), Compiles("lua_out_p", t),
         NEW made, made = Pushed("lua_out_p", t), made.type = "userdata"
  PROVE  Declares("lua_out_p", t, made)
<1> DEFINE tr == TraitOf("lua_out_p", t)
           e == Type_enum_defaults(t, raw_type(t))
           raw == raw_type(t)
           v == tr.pull
<1>1. /\ raw \in CppType /\ raw.decl = <<>> /\ raw.shared = t.shared /\ t \in CppType /\ t.decl \in Shapes
      /\ AsPtr(raw) \in CppType /\ AsPtr(raw).decl = <<"*">> /\ AsPtr(raw).shared = raw.shared
      /\ AsConstPtr(raw) \in CppType /\ AsConstPtr(raw).decl = <<"const", "*">>
      /\ AsConstPtr(raw).shared = raw.shared
  BY RawFacts, PointerTypes DEF Declarable
<1>2. /\ e.raw = raw /\ e.is_by_value = is_by_value(t) /\ e.is_constant = is_const(t)
      /\ e.is_integral = is_integral(raw)
  BY EnumDefaults
<1>3. tr = lua_out_p(t, e)
  BY DEF TraitOf, TraitFor
<1>4. tr.legal
  BY DEF Compiles
<1>5. Declare(raw, "*") = AsPtr(raw) /\ [raw EXCEPT !.decl = @ \o <<"const", "*">>] = AsConstPtr(raw)
  BY <1>1, PullTypes
<1>6. made = Proxy_stack_helper(tr, v)
  BY DEF Pushed, Variable, OutTraits
<1> HIDE DEF tr, e, raw, v
<1>7. tr.owner = "Lua" /\ tr.pull = Pull_type_(e, is_integral_type(e.raw)) /\ ~e.is_by_value /\ ~e.is_integral
  BY <1>3, <1>4 DEF lua_out_p, Trait
<1>8. ~is_integral_type(raw) /\ ~is_by_value(t)
  BY <1>2, <1>7 DEF is_integral
<1>9. v = IF is_const(t) THEN AsConstPtr(raw) ELSE AsPtr(raw)
  BY <1>2, <1>5, <1>7, <1>8 DEF Pull_type_, v
<1>10. v \in CppType /\ v.decl \in ValueShapes /\ v.shared = t.shared
  BY <1>1, <1>9 DEF ValueShapes
<1>11. FirstConst(v.decl) <=> t.decl \in ConstShapes
  <2>1. is_const(t) <=> t.decl \in ConstShapes
    BY <1>1, IsConst DEF ConstShapes
  <2>2. FirstConst(<<"const", "*">>) /\ ~FirstConst(<<"*">>)
    BY DEF FirstConst
  <2> QED
    BY <1>1, <1>9, <2>1, <2>2
<1>12. AsCopy(made) \/ AsShared(made, v) \/ AsInstance(made, v, tr.owner)
  BY <1>6, <1>7, <1>10, HelperPush
<1> QED
  BY <1>1, <1>7, <1>10, <1>11, <1>12, CopyDeclares, SharedDeclares, InstanceDeclares

\* Scripts may not change what a function returned as constant, and Lua deletes
\* what it was given and what was copied for it, whatever the function is declared
\* to return: the traits, the stack helpers and the overloads of push each decide
\* a part of it.
THEOREM ResultsAreAsDeclared == Spec => []ReturnedAsDeclared
<1>1. ASSUME DeclaredInv, NEW trait \in ReturnTraits \cup OutTraits, Returnable(trait, type),
             Pushed(trait, type).type = "userdata"
      PROVE  Declares(trait, type, Pushed(trait, type))
  <2> DEFINE made == Pushed(trait, type)
  <2>1. Declarable(type) /\ Compiles(trait, type)
    BY <1>1 DEF DeclaredInv, Returnable
  <2>2. CASE trait = "light_return"
    <3>1. made = Plainly("light")
      BY <2>2 DEF Pushed
    <3> QED
      BY <1>1, <3>1, PlainFields
  <2>3. CASE trait \in {"shared_return", "maybe_null_shared_return"}
    BY <1>1, <2>1, <2>3, SharedReturnDeclares
  <2>4. CASE trait = "maybe_null"
    <3>1. made = Proxy_stack_helper(TraitOf("function_return", type), remove_ref(type))
      BY <2>4 DEF Pushed
    <3> QED
      BY <1>1, <2>1, <2>4, <3>1, ReturnOwners, ReturnDeclares
  <2>5. CASE trait \in {"function_return", "lua_return", "maybe_null_lua_return"}
    <3>1. made = Proxy_stack_helper(TraitOf(trait, type), remove_ref(type))
      BY <2>5 DEF Pushed, Variable, OutTraits
    <3> QED
      BY <1>1, <2>1, <2>5, <3>1, ReturnOwners, ReturnDeclares
  <2>6. CASE trait = "in_out_p"
    BY <1>1, <2>1, <2>6, InOutDeclares
  <2>7. CASE trait = "out_p"
    BY <1>1, <2>1, <2>7, OutDeclares
  <2>8. CASE trait = "lua_out_p"
    BY <1>1, <2>1, <2>8, LuaOutDeclares
  <2> QED
    BY <2>2, <2>3, <2>4, <2>5, <2>6, <2>7, <2>8 DEF ReturnTraits, OutTraits
<1>2. DeclaredInv => ReturnedAsDeclared
  BY <1>1 DEF ReturnedAsDeclared, Returns, Declares
<1> QED
  BY <1>2, Declared, PTL
=============================================================================
