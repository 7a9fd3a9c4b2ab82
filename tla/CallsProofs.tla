----------------------------- MODULE CallsProofs -----------------------------
(***************************************************************************)
(* Calls, for every set of functions with signatures of any length and for *)
(* any number of objects and arguments: a function gets the arguments it   *)
(* declares, and every object has one owner after each call.               *)
(***************************************************************************)
EXTENDS Calls, Induction, FiniteSetTheorems

-----------------------------------------------------------------------------
(* Types.                                                                  *)

Userdata == [gc : BOOLEAN, const : BOOLEAN]

Read_ == Obj \cup Plain \cup {"none"} \cup In \cup Out

Computation ==
  [ud : [Obj -> Userdata \cup {NULL}], idx : Int, got : Seq(Read_), pushed : Seq(Obj \cup Plain),
   out : {"ok", "error", "lost", "threw"}]

StateType ==
  /\ build \in Builds
  /\ ud \in [Obj -> Userdata \cup {NULL}]
  /\ owners \in [Obj -> Nat]

\* A script has the userdata it passes.
ArgumentsOf(args) ==
  /\ \E n \in Nat : args \in [1..n -> Obj \cup Plain]
  /\ \A i \in DOMAIN args : args[i] \in Obj => ud[args[i]] # NULL

LEMMA SignatureTypes ==
  ASSUME StateType, NEW sig \in build.bound
  PROVE  /\ sig.self \in {"none", "mutable", "const"} /\ sig.ret \in Return
         /\ sig.params \in Seq(In \cup Out) /\ Len(sig.params) \in Nat
         /\ DOMAIN sig.params = 1..Len(sig.params)
         /\ \A i \in 1..Len(sig.params) : sig.params[i] \in In \cup Out
         /\ sig.deduced => \A i \in 1..Len(sig.params) : Consumes(sig.params[i])
<1>1. sig \in Signatures /\ (sig.deduced => Range(sig.params) \subseteq {"number_in", "table_in", "in", "in_const"})
  BY CallsAssumption DEF StateType
<1>2. /\ sig.self \in {"none", "mutable", "const"} /\ sig.ret \in Return
      /\ sig.params \in Seq(In \cup Out)
  BY <1>1 DEF Signatures
<1>3. /\ Len(sig.params) \in Nat /\ DOMAIN sig.params = 1..Len(sig.params)
      /\ \A i \in 1..Len(sig.params) : sig.params[i] \in In \cup Out
  BY <1>2
<1>4. ASSUME sig.deduced, NEW i \in 1..Len(sig.params)
      PROVE  Consumes(sig.params[i])
  <2>1. sig.params[i] \in {"number_in", "table_in", "in", "in_const"}
    BY <1>1, <1>3, <1>4 DEF Range
  <2> QED
    BY <2>1 DEF Consumes, In
<1> QED
  BY <1>2, <1>3, <1>4

LEMMA ArgumentType ==
  ASSUME NEW args, ArgumentsOf(args), NEW i \in Int
  PROVE  /\ Argument(args, i) \in Obj \cup Plain \cup {"none"}
         /\ Argument(args, i) \in Obj => ud[Argument(args, i)] # NULL
<1>1. "none" \notin Obj
  BY CallsAssumption
<1>2. CASE i \in DOMAIN args
  <2>1. args[i] \in Obj \cup Plain
    BY <1>2 DEF ArgumentsOf
  <2> QED
    BY <1>2, <2>1 DEF ArgumentsOf, Argument
<1>3. CASE i \notin DOMAIN args
  BY <1>1, <1>3 DEF Argument
<1> QED
  BY <1>2, <1>3

\* The position of a parameter is that of the one before it, or the next one.
LEMMA PositionStep ==
  ASSUME StateType, NEW sig \in build.bound
  PROVE  /\ Position(sig, 0) = Offset(sig) - 1
         /\ \A i \in 1..Len(sig.params) :
              Position(sig, i) = IF Consumes(sig.params[i]) THEN Position(sig, i - 1) + 1
                                 ELSE Position(sig, i - 1)
         /\ \A i \in 0..Len(sig.params) : Position(sig, i) \in Int
<1> DEFINE S(i) == {j \in 1..i : sig.params[j] \in In \ {"state"}}
<1>1. \A i \in Nat : IsFiniteSet(S(i)) /\ Cardinality(S(i)) \in Nat
  <2> SUFFICES ASSUME NEW i \in Nat
               PROVE  IsFiniteSet(S(i)) /\ Cardinality(S(i)) \in Nat
    OBVIOUS
  <2>1. IsFiniteSet(1..i) /\ S(i) \in SUBSET (1..i)
    BY FS_Interval
  <2>2. IsFiniteSet(S(i))
    BY <2>1, FS_Subset
  <2> QED
    BY <2>2, FS_CardinalityType
<1>2. \A i : Position(sig, i) = Offset(sig) - 1 + Cardinality(S(i))
  BY DEF Position
<1>3. Offset(sig) \in Int
  BY DEF Offset
<1>4. Cardinality(S(0)) = 0
  <2>1. S(0) = {}
    OBVIOUS
  <2> QED
    BY <2>1, FS_EmptySet
<1>5. ASSUME NEW i \in 1..Len(sig.params)
      PROVE  Position(sig, i) = IF Consumes(sig.params[i]) THEN Position(sig, i - 1) + 1
                                ELSE Position(sig, i - 1)
  <2>1. i - 1 \in Nat /\ i \in Nat
    BY SignatureTypes
  <2>2. CASE Consumes(sig.params[i])
    <3>1. S(i) = S(i - 1) \cup {i} /\ i \notin S(i - 1)
      BY <2>1, <2>2 DEF Consumes
    <3>2. Cardinality(S(i)) = Cardinality(S(i - 1)) + 1
      <4> HIDE DEF S
      <4> QED
        BY <1>1, <2>1, <3>1, FS_AddElement
    <3> HIDE DEF S
    <3> QED
      BY <1>1, <1>2, <1>3, <2>1, <2>2, <3>2
  <2>3. CASE ~Consumes(sig.params[i])
    <3>1. S(i) = S(i - 1)
      BY <2>1, <2>3 DEF Consumes
    <3> HIDE DEF S
    <3> QED
      BY <1>2, <2>3, <3>1
  <2> QED
    BY <2>2, <2>3
<1> HIDE DEF S
<1>6. Position(sig, 0) = Offset(sig) - 1
  BY <1>2, <1>3, <1>4
<1>7. \A i \in 0..Len(sig.params) : Position(sig, i) \in Int
  BY <1>1, <1>2, <1>3
<1> QED
  BY <1>5, <1>6, <1>7

-----------------------------------------------------------------------------
(* Reading the arguments.                                                  *)

\* What a deduced function reads is the argument of its parameter.
LEMMA DeducedPosition ==
  ASSUME StateType, NEW sig \in build.bound, sig.deduced
  PROVE  \A i \in 0..Len(sig.params) : Position(sig, i) = Offset(sig) - 1 + i
<1> DEFINE n == Len(sig.params)
           S == {i \in 0..n : Position(sig, i) = Offset(sig) - 1 + i}
<1>1. n \in Nat /\ Offset(sig) \in Int
  BY SignatureTypes DEF Offset
<1>2. 0 \in S
  BY <1>1, PositionStep
<1>3. ASSUME NEW i \in 1..n, i - 1 \in S
      PROVE  i \in S
  <2>1. Consumes(sig.params[i])
    BY SignatureTypes
  <2>2. Position(sig, i) = Position(sig, i - 1) + 1
    BY <2>1, PositionStep
  <2> QED
    BY <1>1, <1>3, <2>2
<1>4. 0..n \subseteq S
  <2> HIDE DEF n, S
  <2> QED
    BY <1>1, <1>2, <1>3, RangeInduction
<1> QED
  BY <1>4

\* The computations for the userdata there are.
Readable == {c \in Computation : \A o \in Obj : c.ud[o] = NULL <=> ud[o] = NULL}

\* How reading the arguments may end.
Failures == IF build.checks THEN {"error"} ELSE {"error", "lost"}

LEMMA FailuresType ==
  Failures \subseteq {"error", "lost"} /\ (build.checks => "lost" \notin Failures)
BY DEF Failures

USE FailuresType

LEMMA CheckedEffect ==
  ASSUME NEW c \in Computation, c.out = "ok", NEW v, NEW mutable
  PROVE  \/ Checked(c, v, mutable) = c /\ v \in Obj
         \/ \E out \in Failures : Checked(c, v, mutable) = [c EXCEPT !.out = out]
  BY DEF Checked, Error, Failures

\* A parameter changes nothing but the owner of an object which C++ takes over.
LEMMA GetEffect ==
  ASSUME StateType, NEW c \in Readable, c.out = "ok",
         NEW p \in In \ {"state"},
         NEW v \in Obj \cup Plain \cup {"none"}, v \in Obj => ud[v] # NULL
  PROVE  \/ \E out \in Failures : get(c, p, v) = [c EXCEPT !.out = out]
         \/ p # "cpp_in" /\ get(c, p, v) = c /\ (build.checks => Typed(p, v))
         \/ p = "cpp_in" /\ get(c, p, v) = [c EXCEPT !.ud[v].gc = FALSE] /\ v \in Obj
<1>1. c \in Computation
  BY DEF Readable
<1>2. CASE p \in {"number_in", "number_in_out"}
  <2>1. get(c, p, v) = IF build.checks /\ v # "number" THEN Error(c) ELSE c
    BY <1>2, Zenon DEF get
  <2>2. Typed(p, v) <=> v = "number"
    BY <1>2, Zenon DEF Typed
  <2> QED
    BY <1>2, <2>1, <2>2 DEF Error, Failures
<1>3. CASE p = "light_p"
  <2>1. get(c, p, v) = IF build.checks /\ v # "light" THEN Error(c) ELSE c
    BY <1>3 DEF get
  <2>2. Typed(p, v) <=> v = "light"
    BY <1>3 DEF Typed
  <2> QED
    BY <1>3, <2>1, <2>2 DEF Error, Failures
<1>4. CASE p \in {"table_in", "table_in_out"}
  <2>1. get(c, p, v) = IF v \in {"table", "nil"} THEN c ELSE Error(c)
    BY <1>4 DEF get
  <2>2. Typed(p, v) <=> v \in {"table", "nil"}
    BY <1>4 DEF Typed
  <2> QED
    BY <1>4, <2>1, <2>2 DEF Error, Failures
<1>5. CASE p \in {"in", "in_const"}
  <2>1. \E m \in BOOLEAN : get(c, p, v) = Checked(c, v, m)
    BY <1>5 DEF get
  <2>2. Typed(p, v) <=> v \in Obj
    BY <1>5 DEF Typed
  <2> QED
    BY <1>1, <1>5, <2>1, <2>2, CheckedEffect
<1>6. CASE p = "cpp_in"
  <2>1. get(c, p, v) = cpp_acquire(c, v)
    BY <1>6 DEF get
  <2>2. CASE Checked(c, v, TRUE) = c /\ v \in Obj
    BY <1>6, <2>1, <2>2 DEF cpp_acquire
  <2>3. CASE \E out \in Failures : Checked(c, v, TRUE) = [c EXCEPT !.out = out]
    <3>1. PICK out \in Failures : Checked(c, v, TRUE) = [c EXCEPT !.out = out]
      BY <2>3
    <3>2. [c EXCEPT !.out = out].out = out /\ out # "ok"
      BY <1>1 DEF Computation
    <3> QED
      BY <2>1, <3>1, <3>2 DEF cpp_acquire
  <2> QED
    BY <1>1, <2>2, <2>3, CheckedEffect
<1> QED
  BY <1>2, <1>3, <1>4, <1>5, <1>6 DEF In

\* The argument which is read for parameter i.
ArgumentRead(sig, args, c, i) == Argument(args, IF sig.deduced THEN i + Offset(sig) - 1 ELSE c.idx)

LEMMA ArgumentReadType ==
  ASSUME StateType, NEW sig \in build.bound, NEW args, ArgumentsOf(args),
         NEW c \in Readable, NEW i \in Int
  PROVE  /\ ArgumentRead(sig, args, c, i) \in Obj \cup Plain \cup {"none"}
         /\ ArgumentRead(sig, args, c, i) \in Obj => ud[ArgumentRead(sig, args, c, i)] # NULL
<1> DEFINE x == IF sig.deduced THEN i + Offset(sig) - 1 ELSE c.idx
<1>1. x \in Int
  BY DEF Readable, Computation, Offset
<1> HIDE DEF x
<1>2. ArgumentRead(sig, args, c, i) = Argument(args, x)
  BY DEF ArgumentRead, x
<1> QED
  BY <1>1, <1>2, ArgumentType

\* Reading an argument v into a parameter p fails, or leaves the userdata
\* alone, or lets C++ take it over.
Reads(c, p, v, d) ==
  \/ \E out \in Failures :
       d = [c EXCEPT !.out = out, !.got = Append(@, v), !.idx = @ + 1]
  \/ /\ p # "cpp_in" /\ (build.checks => Typed(p, v))
     /\ d = [c EXCEPT !.got = Append(@, v), !.idx = @ + 1]
  \/ /\ p = "cpp_in" /\ v \in Obj /\ ud[v] # NULL
     /\ d = [c EXCEPT !.ud[v].gc = FALSE, !.got = Append(@, v), !.idx = @ + 1]

\* A step leaves c alone, or reads a parameter which is no argument, or an
\* argument.
Effect(c, p, v, d) ==
  \/ c.out # "ok" /\ d = c
  \/ c.out = "ok" /\ ~Consumes(p) /\ d = [c EXCEPT !.got = Append(@, p)]
  \/ c.out = "ok" /\ Consumes(p) /\ Reads(c, p, v, d)

LEMMA ReadEffect ==
  ASSUME StateType, NEW sig \in build.bound, NEW args, ArgumentsOf(args),
         NEW c \in Readable, NEW i \in 1..Len(sig.params)
  PROVE  Effect(c, sig.params[i], ArgumentRead(sig, args, c, i), Read(sig, args, c, i))
<1> DEFINE p == sig.params[i]
           v == ArgumentRead(sig, args, c, i)
           d == Read(sig, args, c, i)
<1>1. v \in Obj \cup Plain \cup {"none"} /\ (v \in Obj => ud[v] # NULL)
  BY ArgumentReadType
<1>2. c \in Computation /\ p \in In \cup Out
  BY SignatureTypes DEF Readable
<1>3. d = IF c.out # "ok" THEN c
          ELSE IF ~Consumes(p) THEN [c EXCEPT !.got = Append(@, p)]
          ELSE [get(c, p, v) EXCEPT !.got = Append(@, v), !.idx = @ + 1]
  BY DEF Read, ArgumentRead
<1>4. CASE c.out # "ok" \/ ~Consumes(p)
  BY <1>3, <1>4 DEF Effect
<1>5. CASE c.out = "ok" /\ Consumes(p)
  <2>1. p \in In \ {"state"}
    BY <1>5 DEF Consumes
  <2>2. d = [get(c, p, v) EXCEPT !.got = Append(@, v), !.idx = @ + 1]
    BY <1>3, <1>5
  <2> HIDE DEF p, v, d
  <2>3. CASE \E out \in Failures : get(c, p, v) = [c EXCEPT !.out = out]
    <3>1. PICK out \in Failures : get(c, p, v) = [c EXCEPT !.out = out]
      BY <2>3
    <3>2. d = [c EXCEPT !.out = out, !.got = Append(@, v), !.idx = @ + 1]
      BY <1>2, <2>2, <3>1 DEF Computation
    <3> QED
      BY <1>5, <3>2 DEF p, v, d, Effect, Reads
  <2>4. CASE p # "cpp_in" /\ get(c, p, v) = c /\ (build.checks => Typed(p, v))
    BY <1>5, <2>2, <2>4 DEF p, v, d, Effect, Reads
  <2>5. CASE p = "cpp_in" /\ get(c, p, v) = [c EXCEPT !.ud[v].gc = FALSE] /\ v \in Obj
    <3>1. d = [c EXCEPT !.ud[v].gc = FALSE, !.got = Append(@, v), !.idx = @ + 1]
      BY <1>2, <2>2, <2>5 DEF Computation
    <3> QED
      BY <1>1, <1>5, <2>5, <3>1 DEF p, v, d, Effect, Reads
  <2> QED
    BY <1>1, <1>5, <2>1, <2>3, <2>4, <2>5, GetEffect
<1> QED
  BY <1>4, <1>5

\* C++ has taken o over with one of the first i parameters.
TakenBy(sig, c, i, o) == \E j \in 1..i : sig.params[j] = "cpp_in" /\ c.got[j] = o

\* The first i parameters have the arguments of their numbers, and Lua still
\* owns what it owned and did not give.
HasRead(sig, args, c, i) ==
  /\ c.idx = Position(sig, i) + 1 /\ Len(c.got) = i
  /\ \A j \in 1..i : Consumes(sig.params[j]) =>
       /\ c.got[j] = Argument(args, Position(sig, j))
       /\ build.checks => Typed(sig.params[j], c.got[j])
       /\ sig.params[j] = "cpp_in" => c.got[j] \in Obj
  /\ \A o \in Obj : ud[o] # NULL => (c.ud[o].gc <=> ud[o].gc /\ ~TakenBy(sig, c, i, o))

\* Lua owns no more than it did, and no less when nothing was taken over
\* before another parameter was read.
HasFailed(sig, c) ==
  \A o \in Obj : ud[o] # NULL => /\ c.ud[o].gc => ud[o].gc
                                 /\ TakesLast(sig) => (ud[o].gc => c.ud[o].gc)

ReadInv(sig, args, c, i) ==
  /\ c \in Readable /\ c.pushed = <<>> /\ c.out \in {"ok"} \cup Failures
  /\ c.out = "ok" => HasRead(sig, args, c, i)
  /\ c.out # "ok" => HasFailed(sig, c)

LEMMA ReadType ==
  ASSUME StateType, NEW sig \in build.bound, NEW args, ArgumentsOf(args),
         NEW c \in Readable, NEW i \in 1..Len(sig.params)
  PROVE  Read(sig, args, c, i) \in Readable
<1> DEFINE p == sig.params[i]
           v == ArgumentRead(sig, args, c, i)
           d == Read(sig, args, c, i)
<1>1. c \in Computation /\ p \in Read_ /\ v \in Read_
  BY SignatureTypes, ArgumentReadType DEF Readable, Read_
<1>2. /\ c.got \in Seq(Read_) /\ Append(c.got, p) \in Seq(Read_) /\ Append(c.got, v) \in Seq(Read_)
      /\ c.idx + 1 \in Int
  BY <1>1 DEF Computation
<1>3. CASE d = c
  BY <1>3
<1>4. CASE d = [c EXCEPT !.got = Append(@, p)]
  BY <1>1, <1>2, <1>4 DEF Readable, Computation
<1>5. CASE \E out \in Failures :
             d = [c EXCEPT !.out = out, !.got = Append(@, v), !.idx = @ + 1]
  BY <1>1, <1>2, <1>5 DEF Readable, Computation
<1>6. CASE d = [c EXCEPT !.got = Append(@, v), !.idx = @ + 1]
  BY <1>1, <1>2, <1>6 DEF Readable, Computation
<1>7. CASE /\ v \in Obj /\ ud[v] # NULL
           /\ d = [c EXCEPT !.ud[v].gc = FALSE, !.got = Append(@, v), !.idx = @ + 1]
  <2> HIDE DEF p, v, d
  <2>1. c.ud[v] \in Userdata
    BY <1>1, <1>7 DEF Readable, Computation
  <2>2. [c.ud[v] EXCEPT !.gc = FALSE] \in Userdata /\ NULL \notin Userdata
    <3>1. [c.ud[v] EXCEPT !.gc = FALSE] \in Userdata
      BY <2>1 DEF Userdata
    <3> QED
      BY <3>1, CallsAssumption DEF Userdata
  <2>3. [c.ud EXCEPT ![v].gc = FALSE] \in [Obj -> Userdata \cup {NULL}]
    BY <1>1, <2>2 DEF Computation
  <2>4. d = [c EXCEPT !.ud = [c.ud EXCEPT ![v].gc = FALSE], !.got = Append(@, v), !.idx = @ + 1]
    BY <1>1, <1>7 DEF Computation
  <2>5. d \in Computation /\ d.ud = [c.ud EXCEPT ![v].gc = FALSE]
    BY <1>1, <1>2, <2>3, <2>4 DEF Computation
  <2>6. ASSUME NEW o \in Obj
        PROVE  d.ud[o] = NULL <=> ud[o] = NULL
    <3>1. CASE o = v
      BY <1>1, <1>7, <2>2, <2>5, <3>1 DEF Computation
    <3>2. CASE o # v
      BY <1>1, <2>5, <3>2 DEF Computation, Readable
    <3> QED
      BY <3>1, <3>2
  <2>7. d \in Readable
    BY <2>5, <2>6 DEF Readable
  <2> QED
    BY <2>7 DEF d
<1>8. Effect(c, p, v, d)
  BY ReadEffect
<1>9. d \in Readable
  <2> HIDE DEF p, v, d
  <2> QED
    BY <1>3, <1>4, <1>5, <1>6, <1>7, <1>8 DEF d, Effect, Reads
<1> QED
  BY <1>9

LEMMA ReadStep ==
  ASSUME StateType, NEW sig \in build.bound, NEW args, ArgumentsOf(args),
         NEW i \in 1..Len(sig.params), NEW c, ReadInv(sig, args, c, i - 1)
  PROVE  ReadInv(sig, args, Read(sig, args, c, i), i)
<1> DEFINE p == sig.params[i]
           v == ArgumentRead(sig, args, c, i)
           d == Read(sig, args, c, i)
<1>1. c \in Readable /\ c.pushed = <<>> /\ c.out \in {"ok"} \cup Failures
  BY DEF ReadInv
<1>2. d \in Readable /\ Effect(c, p, v, d)
  BY <1>1, ReadType, ReadEffect
<1>3. c \in Computation /\ d \in Computation /\ c.got \in Seq(Read_)
  BY <1>1, <1>2 DEF Readable, Computation
<1>4. c.out = "ok" => HasRead(sig, args, c, i - 1)
  BY DEF ReadInv
<1>5. p \in Read_ /\ v \in Read_
  BY <1>1, SignatureTypes, ArgumentReadType DEF Read_
<1>6. c.out = "ok" /\ Consumes(p) => v = Argument(args, Position(sig, i))
  <2>1. Consumes(p) => Position(sig, i) = Position(sig, i - 1) + 1
    BY PositionStep
  <2>2. CASE sig.deduced
    <3>1. Position(sig, i) = Offset(sig) - 1 + i /\ Offset(sig) \in Int /\ i \in Int
      BY <2>2, DeducedPosition, SignatureTypes DEF Offset
    <3>2. i + Offset(sig) - 1 = Position(sig, i)
      BY <3>1
    <3> QED
      BY <2>2, <3>2 DEF ArgumentRead
  <2>3. CASE ~sig.deduced
    BY <1>4, <2>1, <2>3 DEF ArgumentRead, HasRead
  <2> QED
    BY <2>2, <2>3
<1>7. c.out = "ok" /\ ~Consumes(p) => Position(sig, i) = Position(sig, i - 1)
  BY PositionStep
<1>8. /\ i - 1 \in 0..Len(sig.params) /\ i - 1 + 1 = i /\ Position(sig, i - 1) \in Int
      /\ \A j \in 1..i : j = i \/ j \in 1..(i - 1)
      /\ 1..(i - 1) \subseteq 1..i /\ i \in 1..i
  BY PositionStep, SignatureTypes
<1> HIDE DEF p, v, d
<1>9. CASE c.out # "ok" /\ d = c
  BY <1>9 DEF ReadInv, d
\* What was read stays, and x is read after it.
<1>10. ASSUME c.out = "ok", NEW x \in Read_, d.got = Append(c.got, x)
       PROVE  Len(d.got) = i /\ d.got[i] = x /\ \A j \in 1..(i - 1) : d.got[j] = c.got[j]
  <2>1. Len(c.got) = i - 1
    BY <1>4, <1>10 DEF HasRead
  <2> QED
    BY <1>3, <1>8, <1>10, <2>1
<1>11. ASSUME c.out = "ok", NEW o \in Obj, NEW x \in Read_, d.got = Append(c.got, x)
       PROVE  TakenBy(sig, d, i, o) <=> TakenBy(sig, c, i - 1, o) \/ (p = "cpp_in" /\ x = o)
  <2>1. /\ d.got[i] = x /\ \A j \in 1..(i - 1) : d.got[j] = c.got[j]
    BY <1>10, <1>11
  <2> QED
    BY <1>8, <2>1 DEF TakenBy, p
<1>12. CASE c.out = "ok" /\ ~Consumes(p) /\ d = [c EXCEPT !.got = Append(@, p)]
  <2>1. d.got = Append(c.got, p) /\ d.out = "ok" /\ d.idx = c.idx /\ d.ud = c.ud /\ d.pushed = <<>>
    BY <1>1, <1>3, <1>12 DEF Computation
  <2>2. d.idx = Position(sig, i) + 1 /\ Len(d.got) = i
    BY <1>4, <1>5, <1>7, <1>10, <1>12, <2>1 DEF HasRead
  <2>3. ASSUME NEW j \in 1..i, Consumes(sig.params[j])
        PROVE  /\ d.got[j] = Argument(args, Position(sig, j))
               /\ build.checks => Typed(sig.params[j], d.got[j])
               /\ sig.params[j] = "cpp_in" => d.got[j] \in Obj
    <3>1. j \in 1..(i - 1) /\ d.got[j] = c.got[j]
      BY <1>5, <1>8, <1>10, <1>12, <2>1, <2>3 DEF p
    <3> QED
      BY <1>4, <1>12, <2>3, <3>1 DEF HasRead
  <2>4. ASSUME NEW o \in Obj, ud[o] # NULL
        PROVE  d.ud[o].gc <=> ud[o].gc /\ ~TakenBy(sig, d, i, o)
    <3>1. p # "cpp_in"
      BY <1>12 DEF Consumes, In
    <3>2. TakenBy(sig, d, i, o) <=> TakenBy(sig, c, i - 1, o)
      BY <1>5, <1>11, <1>12, <2>1, <3>1
    <3> QED
      BY <1>4, <1>12, <2>1, <2>4, <3>2 DEF HasRead
  <2>5. HasRead(sig, args, d, i)
    BY <2>2, <2>3, <2>4 DEF HasRead
  <2> QED
    BY <1>2, <2>1, <2>5 DEF ReadInv, d
<1>13. CASE c.out = "ok" /\ Consumes(p) /\ Reads(c, p, v, d)
  <2>1. CASE \E out \in Failures :
                d = [c EXCEPT !.out = out, !.got = Append(@, v), !.idx = @ + 1]
    <3>1. d.out \in Failures /\ d.ud = c.ud /\ d.pushed = <<>>
      BY <1>1, <1>3, <2>1 DEF Computation
    <3>2. ASSUME NEW o \in Obj, ud[o] # NULL
          PROVE  /\ d.ud[o].gc => ud[o].gc
                 /\ TakesLast(sig) => (ud[o].gc => d.ud[o].gc)
      <4>1. TakesLast(sig) => ~TakenBy(sig, c, i - 1, o)
        <5> SUFFICES ASSUME TakesLast(sig), NEW j \in 1..(i - 1), sig.params[j] = "cpp_in"
                     PROVE  FALSE
          BY DEF TakenBy
        <5>1. j \in DOMAIN sig.params /\ i \in DOMAIN sig.params /\ j < i
          BY SignatureTypes
        <5> QED
          BY <1>13, <5>1 DEF TakesLast, p
      <4> QED
        BY <1>4, <1>13, <3>1, <3>2, <4>1 DEF HasRead
    <3> QED
      BY <1>2, <3>1, <3>2 DEF ReadInv, HasFailed, d
  <2>2. ASSUME d.got = Append(c.got, v), d.idx = c.idx + 1, d.out = "ok", d.pushed = <<>>,
               build.checks => Typed(p, v), p = "cpp_in" => v \in Obj,
               \A o \in Obj : ud[o] # NULL =>
                 (d.ud[o].gc <=> c.ud[o].gc /\ ~(p = "cpp_in" /\ v = o))
        PROVE  ReadInv(sig, args, d, i)
    <3>1. d.idx = Position(sig, i) + 1 /\ Len(d.got) = i
      <4>1. Position(sig, i) = Position(sig, i - 1) + 1
        BY <1>13, PositionStep DEF p
      <4> QED
        BY <1>4, <1>5, <1>8, <1>10, <1>13, <2>2, <4>1 DEF HasRead
    <3>2. ASSUME NEW j \in 1..i, Consumes(sig.params[j])
          PROVE  /\ d.got[j] = Argument(args, Position(sig, j))
                 /\ build.checks => Typed(sig.params[j], d.got[j])
                 /\ sig.params[j] = "cpp_in" => d.got[j] \in Obj
      <4>1. CASE j = i
        <5>1. d.got[i] = v
          BY <1>5, <1>10, <1>13, <2>2
        <5> QED
          BY <1>6, <1>13, <2>2, <4>1, <5>1 DEF p
      <4>2. CASE j \in 1..(i - 1)
        <5>1. d.got[j] = c.got[j]
          BY <1>5, <1>10, <1>13, <2>2, <4>2
        <5> QED
          BY <1>4, <1>13, <3>2, <4>2, <5>1 DEF HasRead
      <4> QED
        BY <1>8, <4>1, <4>2
    <3>3. ASSUME NEW o \in Obj, ud[o] # NULL
          PROVE  d.ud[o].gc <=> ud[o].gc /\ ~TakenBy(sig, d, i, o)
      <4>1. TakenBy(sig, d, i, o) <=> TakenBy(sig, c, i - 1, o) \/ (p = "cpp_in" /\ v = o)
        BY <1>5, <1>11, <1>13, <2>2
      <4>2. c.ud[o].gc <=> ud[o].gc /\ ~TakenBy(sig, c, i - 1, o)
        BY <1>4, <1>13, <3>3 DEF HasRead
      <4> QED
        BY <2>2, <3>3, <4>1, <4>2
    <3>4. HasRead(sig, args, d, i)
      BY <3>1, <3>2, <3>3 DEF HasRead
    <3> QED
      BY <1>2, <2>2, <3>4 DEF ReadInv
  <2>3. CASE /\ p # "cpp_in" /\ (build.checks => Typed(p, v))
             /\ d = [c EXCEPT !.got = Append(@, v), !.idx = @ + 1]
    <3>1. d.got = Append(c.got, v) /\ d.idx = c.idx + 1 /\ d.out = "ok" /\ d.pushed = <<>> /\ d.ud = c.ud
      BY <1>1, <1>3, <1>13, <2>3 DEF Computation
    <3> QED
      BY <2>2, <2>3, <3>1 DEF d
  <2>4. CASE /\ p = "cpp_in" /\ v \in Obj /\ ud[v] # NULL
             /\ d = [c EXCEPT !.ud[v].gc = FALSE, !.got = Append(@, v), !.idx = @ + 1]
    <3>1. d = [c EXCEPT !.ud = [c.ud EXCEPT ![v].gc = FALSE], !.got = Append(@, v), !.idx = @ + 1]
      BY <1>3, <2>4 DEF Computation
    <3>2. /\ d.got = Append(c.got, v) /\ d.idx = c.idx + 1 /\ d.out = "ok" /\ d.pushed = <<>>
          /\ d.ud = [c.ud EXCEPT ![v].gc = FALSE]
      BY <1>1, <1>3, <1>13, <3>1 DEF Computation
    <3>3. Typed(p, v)
      BY <2>4 DEF Typed
    <3>4. ASSUME NEW o \in Obj, ud[o] # NULL
          PROVE  d.ud[o].gc <=> c.ud[o].gc /\ ~(p = "cpp_in" /\ v = o)
      <4>1. CASE o = v
        <5>1. c.ud[v] \in Userdata /\ d.ud[v] = [c.ud[v] EXCEPT !.gc = FALSE]
          BY <1>1, <1>3, <2>4, <3>2 DEF Readable, Computation
        <5>2. d.ud[v].gc = FALSE
          BY <5>1 DEF Userdata
        <5> QED
          BY <2>4, <4>1, <5>2
      <4>2. CASE o # v
        BY <1>3, <3>2, <4>2 DEF Computation
      <4> QED
        BY <4>1, <4>2
    <3> QED
      BY <2>2, <2>4, <3>2, <3>3, <3>4 DEF d
  <2> QED
    BY <1>13, <2>1, <2>3, <2>4 DEF Reads
<1> QED
  BY <1>2, <1>9, <1>12, <1>13 DEF Effect

\* Before any parameter is read.
LEMMA SelfRead ==
  ASSUME StateType, NEW sig \in build.bound, NEW args, ArgumentsOf(args)
  PROVE  LET c == [ud |-> ud, idx |-> Offset(sig), got |-> <<>>, pushed |-> <<>>, out |-> "ok"]
         IN  ReadInv(sig, args, Self(sig, args, c), 0)
<1> DEFINE c == [ud |-> ud, idx |-> Offset(sig), got |-> <<>>, pushed |-> <<>>, out |-> "ok"]
           d == Self(sig, args, c)
<1>1. /\ c \in Computation /\ c.ud = ud /\ c.idx = Offset(sig) /\ c.got = <<>> /\ c.pushed = <<>>
      /\ c.out = "ok"
  BY DEF Computation, StateType, Offset
<1> HIDE DEF c
<1>2. d = c \/ \E out \in Failures : d = [c EXCEPT !.out = out]
  BY <1>1, CheckedEffect DEF Self
<1> HIDE DEF d
<1>3. /\ d \in Readable /\ d.ud = ud /\ d.idx = Offset(sig) /\ d.got = <<>> /\ d.pushed = <<>>
      /\ d.out \in {"ok"} \cup Failures
  BY <1>1, <1>2 DEF Readable, Computation
<1>4. HasFailed(sig, d)
  BY <1>3 DEF HasFailed
<1>5. HasRead(sig, args, d, 0)
  <2>1. Position(sig, 0) + 1 = Offset(sig) /\ Len(<<>>) = 0 /\ 1..0 = {}
    BY PositionStep DEF Offset
  <2>2. \A o \in Obj : ~TakenBy(sig, d, 0, o)
    BY <2>1 DEF TakenBy
  <2> QED
    BY <1>3, <2>1, <2>2 DEF HasRead
<1> QED
  BY <1>3, <1>4, <1>5 DEF ReadInv, c, d

LEMMA Reading ==
  ASSUME StateType, NEW sig \in build.bound, NEW args, ArgumentsOf(args)
  PROVE  ReadInv(sig, args, Converted(sig, args), Len(sig.params))
<1> DEFINE n == Len(sig.params)
           c == [ud |-> ud, idx |-> Offset(sig), got |-> <<>>, pushed |-> <<>>, out |-> "ok"]
           start == Self(sig, args, c)
           G == [x \in (1..n) \X Readable |-> Read(sig, args, x[2], x[1])]
           step[i \in 0..n] == IF i = 0 THEN start ELSE Read(sig, args, step[i - 1], i)
<1>1. n \in Nat
  BY SignatureTypes
<1>2. Converted(sig, args) = step[n]
  BY DEF Converted
<1>3. ReadInv(sig, args, start, 0)
  BY SelfRead
<1>4. start \in Readable
  BY <1>3 DEF ReadInv
<1>5. G \in [(1..n) \X Readable -> Readable]
  <2>1. \A d \in Readable : \A i \in 1..n : Read(sig, args, d, i) \in Readable
    BY ReadType
  <2> QED
    BY <2>1
<1> HIDE DEF start
<1>6. PICK f \in [0..n -> Readable] : f[0] = start /\ \A i \in 1..n : f[i] = G[<<i, f[i - 1]>>]
  <2>1. \E f : Unfolds(f, n, Readable, start, G)
    <3> HIDE DEF n, G
    <3> QED
      BY <1>1, <1>4, <1>5, RangeRecursion
  <2> QED
    BY <2>1 DEF Unfolds
<1>7. \A i \in 1..n : f[i] = Read(sig, args, f[i - 1], i)
  <2> SUFFICES ASSUME NEW i \in 1..n
               PROVE  f[i] = Read(sig, args, f[i - 1], i)
    OBVIOUS
  <2>1. i - 1 \in 0..n
    BY <1>1
  <2>2. f[i - 1] \in Readable
    BY <2>1
  <2> QED
    BY <1>6, <2>2
<1>8. f = [i \in 0..n |-> IF i = 0 THEN start ELSE Read(sig, args, f[i - 1], i)]
  <2>1. \A i \in 0..n : i = 0 \/ i \in 1..n
    BY <1>1
  <2>2. \A i \in 0..n : f[i] = IF i = 0 THEN start ELSE Read(sig, args, f[i - 1], i)
    BY <1>1, <1>6, <1>7, <2>1
  <2> QED
    BY <2>2
<1>9. step = [i \in 0..n |-> IF i = 0 THEN start ELSE Read(sig, args, step[i - 1], i)]
  <2> HIDE DEF n
  <2> QED
    BY <1>8 DEF step
<1>10. step[0] = start /\ \A i \in 1..n : step[i] = Read(sig, args, step[i - 1], i)
  <2>1. 0 \in 0..n /\ \A i \in 1..n : i \in 0..n /\ i # 0
    BY <1>1
  <2> HIDE DEF n, step
  <2> QED
    BY <1>9, <2>1
<1> HIDE DEF step
<1> DEFINE S == {i \in 0..n : ReadInv(sig, args, step[i], i)}
<1>11. 0 \in S
  BY <1>1, <1>3, <1>10
<1>12. ASSUME NEW i \in 1..n, i - 1 \in S
       PROVE  i \in S
  <2>1. i \in 0..n
    BY <1>1
  <2>2. ReadInv(sig, args, Read(sig, args, step[i - 1], i), i)
    BY <1>12, ReadStep
  <2> QED
    BY <1>10, <2>1, <2>2
<1>13. 0..n \subseteq S
  <2> HIDE DEF n, S
  <2> QED
    BY <1>1, <1>11, <1>12, RangeInduction
<1>14. n \in 0..n
  BY <1>1
<1> QED
  BY <1>2, <1>13, <1>14

HIDE FailuresType

-----------------------------------------------------------------------------
(* Owners.  Owned and OwnedOnce of the userdata and owners which a call has *)
(* come to.                                                                *)

OwnerOf(u, own, o) == own[o] + (IF u[o] # NULL /\ u[o].gc THEN 1 ELSE 0)

Kept(u, own) == \A o \in Obj : u[o] # NULL => u[o].gc \/ own[o] > 0

KeptOnce(u, own) == \A o \in Obj : OwnerOf(u, own, o) <= 1

\* What C++ takes over was owned by Lua alone, and is now owned by C++ alone.
LEMMA TakenOnce ==
  ASSUME StateType, NEW sig \in build.bound, NEW args, ArgumentsOf(args), Honest(sig, args),
         NEW c, ReadInv(sig, args, c, Len(sig.params)), c.out = "ok", OwnedOnce
  PROVE  /\ Taken(sig, c) \in [Obj -> Nat]
         /\ KeptOnce(c.ud, Taken(sig, c))
         /\ Owned => Kept(c.ud, Taken(sig, c))
<1> DEFINE n == Len(sig.params)
           T(o) == {i \in DOMAIN sig.params : sig.params[i] = "cpp_in" /\ c.got[i] = o}
           own == Taken(sig, c)
<1>1. n \in Nat /\ DOMAIN sig.params = 1..n
  BY SignatureTypes
<1>2. c \in Computation /\ (\A o \in Obj : c.ud[o] = NULL <=> ud[o] = NULL) /\ HasRead(sig, args, c, n)
  BY DEF ReadInv, Readable
<1>3. \A o \in Obj : IsFiniteSet(T(o)) /\ Cardinality(T(o)) \in Nat
  <2> SUFFICES ASSUME NEW o \in Obj
               PROVE  IsFiniteSet(T(o)) /\ Cardinality(T(o)) \in Nat
    OBVIOUS
  <2>1. IsFiniteSet(1..n) /\ T(o) \in SUBSET (1..n)
    BY <1>1, FS_Interval
  <2>2. IsFiniteSet(T(o))
    BY <2>1, FS_Subset
  <2> QED
    BY <2>2, FS_CardinalityType
<1>4. \A o \in Obj : own[o] = owners[o] + Cardinality(T(o))
  BY DEF Taken
<1>5. own \in [Obj -> Nat]
  <2>1. own = [o \in Obj |-> owners[o] + Cardinality(T(o))]
    BY DEF Taken
  <2> HIDE DEF own, T
  <2> QED
    BY <1>3, <2>1 DEF StateType
<1>6. \A o \in Obj : TakenBy(sig, c, n, o) <=> T(o) # {}
  BY <1>1 DEF TakenBy
<1>7. ASSUME NEW o \in Obj, T(o) = {}
      PROVE  own[o] = owners[o] /\ (ud[o] # NULL => (c.ud[o].gc <=> ud[o].gc))
  <2>1. Cardinality(T(o)) = 0
    BY <1>7, FS_EmptySet
  <2>2. owners[o] \in Nat
    BY DEF StateType
  <2>3. ~TakenBy(sig, c, n, o)
    BY <1>6, <1>7
  <2> HIDE DEF own, T, n
  <2>4. own[o] = owners[o]
    BY <1>4, <2>1, <2>2
  <2>5. ud[o] # NULL => (c.ud[o].gc <=> ud[o].gc)
    BY <1>2, <2>3 DEF HasRead
  <2> QED
    BY <2>4, <2>5
<1>8. ASSUME NEW o \in Obj, T(o) # {}
      PROVE  own[o] = 1 /\ c.ud[o] # NULL /\ ~c.ud[o].gc
  <2>1. PICK i \in 1..n : sig.params[i] = "cpp_in" /\ c.got[i] = o
    BY <1>1, <1>8
  <2>2. \A j \in 1..n : sig.params[j] = "cpp_in" => c.got[j] = Argument(args, Position(sig, j))
    BY <1>2 DEF HasRead, Consumes, In
  <2>3. ud[o] # NULL
    <3>1. Position(sig, i) \in Int
      BY <1>1, PositionStep
    <3> QED
      BY <2>1, <2>2, <3>1, ArgumentType
  <2>4. ud[o].gc
    BY <1>1, <2>1, <2>2 DEF Honest
  <2>5. \A j \in T(o) : j = i
    BY <1>1, <2>1, <2>2 DEF Honest
  <2>6. T(o) = {i}
    BY <1>1, <2>1, <2>5
  <2>7. Cardinality(T(o)) = 1
    <3> HIDE DEF T
    <3> QED
      BY <2>6, FS_Singleton
  <2>8. owners[o] = 0
    BY <2>3, <2>4 DEF OwnedOnce, StateType
  <2> HIDE DEF own, T
  <2>9. own[o] = 1
    BY <1>4, <2>7, <2>8
  <2>10. c.ud[o] # NULL /\ c.ud[o] \in Userdata
    BY <1>2, <2>3 DEF Computation
  <2>11. ~c.ud[o].gc
    BY <1>2, <1>6, <1>8, <2>3 DEF HasRead
  <2> QED
    BY <2>9, <2>10, <2>11
<1> HIDE DEF own, T
<1>9. KeptOnce(c.ud, own)
  <2> SUFFICES ASSUME NEW o \in Obj
               PROVE  own[o] + (IF c.ud[o] # NULL /\ c.ud[o].gc THEN 1 ELSE 0) <= 1
    BY DEF KeptOnce, OwnerOf
  <2>1. CASE T(o) = {}
    BY <1>2, <1>7, <2>1 DEF OwnedOnce
  <2>2. CASE T(o) # {}
    BY <1>8, <2>2
  <2> QED
    BY <2>1, <2>2
<1>10. Owned => Kept(c.ud, own)
  <2> SUFFICES ASSUME Owned, NEW o \in Obj, c.ud[o] # NULL
               PROVE  c.ud[o].gc \/ own[o] > 0
    BY DEF Kept
  <2>1. CASE T(o) = {}
    BY <1>2, <1>7, <2>1 DEF Owned
  <2>2. CASE T(o) # {}
    BY <1>8, <2>2
  <2> QED
    BY <2>1, <2>2
<1> QED
  BY <1>5, <1>9, <1>10 DEF own

-----------------------------------------------------------------------------
(* Pushing the results.                                                    *)

Result == (Return \ {"void"}) \cup Out

LEMMA OutsType ==
  ASSUME StateType, NEW sig \in build.bound
  PROVE  Outs(sig) \in Seq(Result)
<1> DEFINE n == Len(sig.params)
           first == IF sig.ret = "void" THEN <<>> ELSE <<sig.ret>>
           next(s, i) == IF sig.params[i] \in Out THEN Append(s, sig.params[i]) ELSE s
           G == [x \in (1..n) \X Seq(Result) |-> next(x[2], x[1])]
           outs[i \in 0..n] == IF i = 0 THEN first ELSE next(outs[i - 1], i)
<1>1. n \in Nat /\ sig.ret \in Return
  BY SignatureTypes
<1>2. Outs(sig) = outs[n]
  BY DEF Outs
<1>3. first \in Seq(Result)
  <2>1. sig.ret # "void" => sig.ret \in Result
    BY <1>1 DEF Result
  <2> QED
    BY <2>1
<1>4. G \in [(1..n) \X Seq(Result) -> Seq(Result)]
  <2>1. \A s \in Seq(Result) : \A i \in 1..n : next(s, i) \in Seq(Result)
    BY DEF Result
  <2> QED
    BY <2>1
<1> HIDE DEF first, next
<1>5. PICK f \in [0..n -> Seq(Result)] :
           f[0] = first /\ \A i \in 1..n : f[i] = G[<<i, f[i - 1]>>]
  <2>1. \E f : Unfolds(f, n, Seq(Result), first, G)
    <3> HIDE DEF n, G
    <3> QED
      BY <1>1, <1>3, <1>4, RangeRecursion
  <2> QED
    BY <2>1 DEF Unfolds
<1>6. \A i \in 1..n : f[i] = next(f[i - 1], i)
  <2> SUFFICES ASSUME NEW i \in 1..n
               PROVE  f[i] = next(f[i - 1], i)
    OBVIOUS
  <2>1. i - 1 \in 0..n
    BY <1>1
  <2>2. f[i - 1] \in Seq(Result)
    BY <2>1
  <2> QED
    BY <1>5, <2>2
<1>7. f = [i \in 0..n |-> IF i = 0 THEN first ELSE next(f[i - 1], i)]
  <2>1. \A i \in 0..n : i = 0 \/ i \in 1..n
    BY <1>1
  <2>2. \A i \in 0..n : f[i] = IF i = 0 THEN first ELSE next(f[i - 1], i)
    BY <1>1, <1>5, <1>6, <2>1
  <2> QED
    BY <2>2
<1>8. outs = [i \in 0..n |-> IF i = 0 THEN first ELSE next(outs[i - 1], i)]
  <2> HIDE DEF n
  <2> QED
    BY <1>7 DEF outs
<1>9. outs[0] = first /\ \A i \in 1..n : outs[i] = next(outs[i - 1], i)
  <2>1. 0 \in 0..n /\ \A i \in 1..n : i \in 0..n /\ i # 0
    BY <1>1
  <2> HIDE DEF n, outs
  <2> QED
    BY <1>8, <2>1
<1> HIDE DEF outs
<1> DEFINE S == {i \in 0..n : outs[i] \in Seq(Result)}
<1>10. 0 \in S
  BY <1>1, <1>3, <1>9
<1>11. ASSUME NEW i \in 1..n, i - 1 \in S
       PROVE  i \in S
  <2>1. i \in 0..n
    BY <1>1
  <2>2. outs[i - 1] \in Seq(Result)
    BY <1>11
  <2>3. sig.params[i] \in Out => sig.params[i] \in Result
    BY DEF Result
  <2>4. next(outs[i - 1], i) \in Seq(Result)
    BY <2>2, <2>3 DEF next
  <2> QED
    BY <1>9, <2>1, <2>4
<1>12. 0..n \subseteq S
  <2> HIDE DEF n, S
  <2> QED
    BY <1>1, <1>10, <1>11, RangeInduction
<1>13. n \in 0..n
  BY <1>1
<1> QED
  BY <1>2, <1>12, <1>13

LEMMA UserdataType ==
  ASSUME NEW g \in BOOLEAN, NEW k \in BOOLEAN
  PROVE  [gc |-> g, const |-> k] \in Userdata /\ ([gc |-> g, const |-> k].gc <=> g)
  BY DEF Userdata

LEMMA PushedType ==
  ASSUME NEW t, NEW u \in Userdata \cup {NULL}
  PROVE  /\ pushed_ud(t, u) \in Userdata /\ pushed_ud(t, u) # NULL
         /\ pushed_ud(t, u).gc <=> (u # NULL /\ u.gc) \/ t \in Transfers
<1> DEFINE const == t = "const_pointer"
           gc == t \in Transfers
<1>0. gc \in BOOLEAN /\ const \in BOOLEAN
  <2>1. (t \in Transfers) \in BOOLEAN
    BY SMT
  <2>2. const \in BOOLEAN
    BY Zenon
  <2>3. gc \in BOOLEAN
    BY <2>1
  <2> QED
    BY <2>2, <2>3
<1>1. CASE u = NULL
  <2>1. pushed_ud(t, u) = [gc |-> gc, const |-> const]
    BY <1>1 DEF pushed_ud
  <2> HIDE DEF gc, const
  <2>2. pushed_ud(t, u) \in Userdata /\ (pushed_ud(t, u).gc <=> gc)
    BY <1>0, <2>1, UserdataType
  <2> QED
    BY <1>1, <2>2, CallsAssumption DEF gc, Userdata
<1>2. CASE u # NULL
  <2> DEFINE g == u.gc \/ gc
             k == u.const /\ const
  <2>1. pushed_ud(t, u) = [gc |-> g, const |-> k]
    BY <1>2 DEF pushed_ud
  <2>3. g \in BOOLEAN /\ k \in BOOLEAN
    BY Zenon
  <2> HIDE DEF gc, const, g, k
  <2>2. pushed_ud(t, u) \in Userdata /\ (pushed_ud(t, u).gc <=> g)
    BY <2>3, <2>1, UserdataType
  <2> QED
    BY <1>2, <2>2, CallsAssumption DEF g, gc, Userdata
<1> QED
  BY <1>1, <1>2

\* A reference which does not belong to the state is not pushed, and a table is
\* the only result which may be one.
Pushes(sig, b, t, x, d) ==
  \/ x = "foreign" /\ d = b /\ ~(build.checks /\ build.throws)
  \/ /\ x = "foreign"
     /\ \E out \in {"lost", "threw"} : /\ d = [b EXCEPT !.out = out]
                                       /\ out = "lost" => sig.self = "none"
  \/ /\ x \in Obj
     /\ d = [b EXCEPT !.pushed = Append(@, x), !.ud = [b.ud EXCEPT ![x] = pushed_ud(t, b.ud[x])]]
  \/ x \in Plain /\ d = [b EXCEPT !.pushed = Append(@, x)]

LEMMA PushEffect ==
  ASSUME NEW sig, NEW b \in Computation, NEW t, NEW x \in Obj \cup Plain \cup {"foreign"}, NEW i
  PROVE  Pushes(sig, b, t, x, push(sig, b, t, x, i))
<1> DEFINE d == push(sig, b, t, x, i)
<1>1. CASE x = "foreign"
  <2>1. d = IF ~(build.checks /\ build.throws) THEN b
            ELSE [b EXCEPT !.out = IF Escapes(sig, i) THEN "lost" ELSE "threw"]
    BY <1>1, CallsAssumption DEF push
  <2> HIDE DEF d
  <2>2. CASE ~(build.checks /\ build.throws)
    BY <1>1, <2>1, <2>2 DEF Pushes, d
  <2>3. CASE build.checks /\ build.throws
    <3>1. CASE Escapes(sig, i)
      <4>1. d = [b EXCEPT !.out = "lost"] /\ sig.self = "none"
        BY <2>1, <2>3, <3>1 DEF Escapes
      <4> QED
        BY <1>1, <4>1 DEF Pushes, d
    <3>2. CASE ~Escapes(sig, i)
      <4>1. d = [b EXCEPT !.out = "threw"]
        BY <2>1, <2>3, <3>2
      <4> QED
        BY <1>1, <4>1 DEF Pushes, d
    <3> QED
      BY <3>1, <3>2
  <2> QED
    BY <2>2, <2>3
<1>2. CASE x \in Obj
  <2>1. x # "foreign"
    BY <1>2, CallsAssumption
  <2>2. d = [b EXCEPT !.pushed = Append(@, x), !.ud[x] = pushed_ud(t, @)]
    BY <1>2, <2>1 DEF push
  <2> HIDE DEF d
  <2>3. d = [b EXCEPT !.pushed = Append(@, x), !.ud = [b.ud EXCEPT ![x] = pushed_ud(t, b.ud[x])]]
    BY <2>2 DEF Computation
  <2> QED
    BY <1>2, <2>3 DEF Pushes, d
<1>3. CASE x \in Plain
  <2>1. x # "foreign" /\ x \notin Obj
    BY <1>3, CallsAssumption DEF Plain
  <2>2. d = [b EXCEPT !.pushed = Append(@, x)]
    BY <2>1 DEF push
  <2> HIDE DEF d
  <2> QED
    BY <1>3, <2>2 DEF Pushes, d
<1> QED
  BY <1>1, <1>2, <1>3

\* The first m results have been pushed: the userdata there are, and their
\* owners.
HasPushed(c, ts, xs, b, m) ==
  \A o \in Obj :
    /\ b.ud[o] # NULL <=> c.ud[o] # NULL \/ \E j \in 1..m : xs[j] = o
    /\ b.ud[o] # NULL =>
         (b.ud[o].gc <=> \/ c.ud[o] # NULL /\ c.ud[o].gc
                         \/ \E j \in 1..m : ts[j] \in Transfers /\ xs[j] = o)

\* It ends before the first result which is not pushed, which is a table.
StopsAt(c, ts, xs, b, k, m) ==
  /\ HasPushed(c, ts, xs, b, m)
  /\ b.out = "ok" => m = k
  /\ b.out # "ok" => m + 1 \in 1..k /\ ts[m + 1] \in Tables

\* Every result can be pushed, or a failure is reported.
Faithful(ts) == build.checks /\ (build.throws \/ Range(ts) \cap Tables = {})

PushInv(sig, c, ts, xs, b, k) ==
  /\ b \in Computation /\ b.got = c.got /\ b.out \in {"ok", "lost", "threw"}
  /\ b.out = "lost" => sig.self = "none"
  /\ \E m \in 0..k : StopsAt(c, ts, xs, b, k, m)
  /\ b.out = "ok" /\ Faithful(ts) => Len(b.pushed) = k /\ \A j \in 1..k : b.pushed[j] = xs[j]

Produced(ts, xs) ==
  /\ ts \in Seq(Result) /\ xs \in [1..Len(ts) -> Obj \cup Plain \cup {"foreign"}]
  /\ \A j \in 1..Len(ts) : xs[j] = "foreign" => ts[j] \in Tables

LEMMA PushStep ==
  ASSUME NEW sig, NEW c, NEW ts, NEW xs, Produced(ts, xs), NEW k \in 1..Len(ts),
         NEW b, PushInv(sig, c, ts, xs, b, k - 1), b.out = "ok"
  PROVE  PushInv(sig, c, ts, xs, push(sig, b, ts[k], xs[k], k), k)
<1> DEFINE t == ts[k]
           x == xs[k]
           d == push(sig, b, t, x, k)
<1>1. /\ x \in Obj \cup Plain \cup {"foreign"} /\ (x = "foreign" => t \in Tables)
      /\ k \in Nat /\ k - 1 \in Nat /\ k - 1 + 1 = k /\ k \in 1..k
      /\ \A j \in 1..k : j = k \/ j \in 1..(k - 1)
      /\ 1..(k - 1) \subseteq 1..k
      /\ k \in 0..k /\ k - 1 \in 0..k
  BY DEF Produced
<1>2. b \in Computation /\ b.got = c.got
  BY DEF PushInv
<1>3. Pushes(sig, b, t, x, d)
  BY <1>1, <1>2, PushEffect
<1>4. HasPushed(c, ts, xs, b, k - 1)
  BY DEF PushInv, StopsAt
<1>5. Faithful(ts) => Len(b.pushed) = k - 1 /\ \A j \in 1..(k - 1) : b.pushed[j] = xs[j]
  BY DEF PushInv
<1>6. b.pushed \in Seq(Obj \cup Plain) /\ b.ud \in [Obj -> Userdata \cup {NULL}]
  BY <1>2 DEF Computation
<1>7. Faithful(ts) => build.checks /\ (build.throws \/ t \notin Tables)
  <2>1. t \in Range(ts)
    BY DEF Produced, Range
  <2> QED
    BY <2>1 DEF Faithful
<1> HIDE DEF d
<1> SUFFICES PushInv(sig, c, ts, xs, d, k)
  BY DEF d
\* What is no object changes no userdata.
<1>8. x \notin Obj => HasPushed(c, ts, xs, b, k)
  <2> SUFFICES ASSUME x \notin Obj, NEW o \in Obj
               PROVE  /\ (\E j \in 1..k : xs[j] = o) <=> \E j \in 1..(k - 1) : xs[j] = o
                      /\ (\E j \in 1..k : ts[j] \in Transfers /\ xs[j] = o)
                           <=> \E j \in 1..(k - 1) : ts[j] \in Transfers /\ xs[j] = o
    BY <1>4 DEF HasPushed
  <2> QED
    BY <1>1
<1>9. ASSUME d.pushed = Append(b.pushed, x)
      PROVE  Faithful(ts) => Len(d.pushed) = k /\ \A j \in 1..k : d.pushed[j] = xs[j]
  <2> SUFFICES ASSUME Faithful(ts)
               PROVE  Len(d.pushed) = k /\ \A j \in 1..k : d.pushed[j] = xs[j]
    OBVIOUS
  <2>1. Len(d.pushed) = k /\ d.pushed[k] = x /\ \A j \in 1..(k - 1) : d.pushed[j] = b.pushed[j]
    BY <1>1, <1>5, <1>6, <1>9
  <2> QED
    BY <1>1, <1>5, <2>1
<1>10. CASE x = "foreign" /\ d = b /\ ~(build.checks /\ build.throws)
  <2>1. ~Faithful(ts)
    BY <1>1, <1>7, <1>10
  <2>2. x \notin Obj
    BY <1>10, CallsAssumption
  <2>3. StopsAt(c, ts, xs, d, k, k)
    BY <1>8, <1>10, <2>2 DEF StopsAt
  <2> QED
    BY <1>1, <1>2, <1>10, <2>1, <2>3 DEF PushInv
<1>11. CASE /\ x = "foreign"
            /\ \E out \in {"lost", "threw"} : /\ d = [b EXCEPT !.out = out]
                                              /\ out = "lost" => sig.self = "none"
  <2>1. /\ d \in Computation /\ d.got = c.got /\ d.ud = b.ud /\ d.out \in {"lost", "threw"}
        /\ d.out = "lost" => sig.self = "none"
    BY <1>2, <1>11 DEF Computation
  <2>2. HasPushed(c, ts, xs, d, k - 1)
    BY <1>4, <2>1 DEF HasPushed
  <2>3. StopsAt(c, ts, xs, d, k, k - 1)
    BY <1>1, <1>11, <2>1, <2>2 DEF StopsAt
  <2> QED
    BY <1>1, <2>1, <2>3 DEF PushInv
<1>12. CASE /\ x \in Obj
            /\ d = [b EXCEPT !.pushed = Append(@, x), !.ud = [b.ud EXCEPT ![x] = pushed_ud(t, b.ud[x])]]
  <2>1. /\ pushed_ud(t, b.ud[x]) \in Userdata /\ pushed_ud(t, b.ud[x]) # NULL
        /\ pushed_ud(t, b.ud[x]).gc <=> (b.ud[x] # NULL /\ b.ud[x].gc) \/ t \in Transfers
    BY <1>6, <1>12, PushedType
  <2>2. Append(b.pushed, x) \in Seq(Obj \cup Plain)
    BY <1>6, <1>12
  <2>3. [b.ud EXCEPT ![x] = pushed_ud(t, b.ud[x])] \in [Obj -> Userdata \cup {NULL}]
    BY <1>6, <2>1
  <2>4. /\ d.ud = [b.ud EXCEPT ![x] = pushed_ud(t, b.ud[x])] /\ d.pushed = Append(b.pushed, x)
        /\ d.got = c.got /\ d.out = "ok" /\ d \in Computation
    BY <1>2, <1>12, <2>2, <2>3 DEF Computation
  <2>5. HasPushed(c, ts, xs, d, k)
    <3> SUFFICES ASSUME NEW o \in Obj
                 PROVE  /\ d.ud[o] # NULL <=> c.ud[o] # NULL \/ \E j \in 1..k : xs[j] = o
                        /\ d.ud[o] # NULL =>
                             (d.ud[o].gc <=> \/ c.ud[o] # NULL /\ c.ud[o].gc
                                             \/ \E j \in 1..k : ts[j] \in Transfers /\ xs[j] = o)
      BY DEF HasPushed
    <3>1. (\E j \in 1..k : xs[j] = o) <=> x = o \/ \E j \in 1..(k - 1) : xs[j] = o
      BY <1>1
    <3>2. (\E j \in 1..k : ts[j] \in Transfers /\ xs[j] = o)
             <=> \/ t \in Transfers /\ x = o
                 \/ \E j \in 1..(k - 1) : ts[j] \in Transfers /\ xs[j] = o
      BY <1>1
    <3>3. /\ b.ud[o] # NULL <=> c.ud[o] # NULL \/ \E j \in 1..(k - 1) : xs[j] = o
          /\ b.ud[o] # NULL =>
               (b.ud[o].gc <=> \/ c.ud[o] # NULL /\ c.ud[o].gc
                               \/ \E j \in 1..(k - 1) : ts[j] \in Transfers /\ xs[j] = o)
      BY <1>4 DEF HasPushed
    <3> HIDE DEF t, x
    <3>4. CASE o = x
      <4>1. d.ud[o] = pushed_ud(t, b.ud[x])
        BY <1>6, <2>4, <3>4
      <4> QED
        BY <2>1, <3>1, <3>2, <3>3, <3>4, <4>1
    <3>5. CASE o # x
      <4>1. d.ud[o] = b.ud[o]
        BY <1>6, <2>4, <3>5
      <4> QED
        BY <3>1, <3>2, <3>3, <3>5, <4>1
    <3> QED
      BY <3>4, <3>5
  <2>6. StopsAt(c, ts, xs, d, k, k)
    BY <2>4, <2>5 DEF StopsAt
  <2> QED
    BY <1>1, <1>9, <2>4, <2>6 DEF PushInv
<1>13. CASE x \in Plain /\ d = [b EXCEPT !.pushed = Append(@, x)]
  <2>1. /\ d.pushed = Append(b.pushed, x) /\ d.ud = b.ud /\ d.got = c.got /\ d.out = "ok"
        /\ d \in Computation
    <3>1. Append(b.pushed, x) \in Seq(Obj \cup Plain)
      BY <1>6, <1>13
    <3> QED
      BY <1>2, <1>13, <3>1 DEF Computation
  <2>2. x \notin Obj
    BY <1>13, CallsAssumption
  <2>3. HasPushed(c, ts, xs, d, k)
    BY <1>8, <2>1, <2>2 DEF HasPushed
  <2>4. StopsAt(c, ts, xs, d, k, k)
    BY <2>1, <2>3 DEF StopsAt
  <2> QED
    BY <1>1, <1>9, <2>1, <2>4 DEF PushInv
<1> QED
  BY <1>3, <1>10, <1>11, <1>12, <1>13 DEF Pushes

LEMMA PushType ==
  ASSUME NEW sig, NEW b \in Computation, NEW t, NEW x \in Obj \cup Plain \cup {"foreign"}, NEW i
  PROVE  push(sig, b, t, x, i) \in Computation
<1> DEFINE d == push(sig, b, t, x, i)
<1>1. Pushes(sig, b, t, x, d)
  BY PushEffect
<1>2. b.pushed \in Seq(Obj \cup Plain) /\ b.ud \in [Obj -> Userdata \cup {NULL}]
  BY DEF Computation
<1> HIDE DEF d
<1>3. CASE d = b
  BY <1>3 DEF d
<1>4. CASE \E out \in {"lost", "threw"} : d = [b EXCEPT !.out = out]
  BY <1>4 DEF d, Computation
<1>5. CASE /\ x \in Obj
           /\ d = [b EXCEPT !.pushed = Append(@, x), !.ud = [b.ud EXCEPT ![x] = pushed_ud(t, b.ud[x])]]
  <2>1. pushed_ud(t, b.ud[x]) \in Userdata
    BY <1>2, <1>5, PushedType
  <2>2. Append(b.pushed, x) \in Seq(Obj \cup Plain)
    BY <1>2, <1>5
  <2>3. [b.ud EXCEPT ![x] = pushed_ud(t, b.ud[x])] \in [Obj -> Userdata \cup {NULL}]
    BY <1>2, <2>1
  <2>4. d \in Computation
    BY <1>5, <2>2, <2>3 DEF Computation
  <2> QED
    BY <2>4 DEF d
<1>6. CASE x \in Plain /\ d = [b EXCEPT !.pushed = Append(@, x)]
  <2>1. Append(b.pushed, x) \in Seq(Obj \cup Plain)
    BY <1>2, <1>6
  <2>2. d \in Computation
    BY <1>6, <2>1 DEF Computation
  <2> QED
    BY <2>2 DEF d
<1> QED
  BY <1>1, <1>3, <1>4, <1>5, <1>6 DEF Pushes

LEMMA Pushing ==
  ASSUME NEW sig, NEW c \in Computation, c.out = "ok", c.pushed = <<>>,
         NEW ts, NEW xs, Produced(ts, xs)
  PROVE  PushInv(sig, c, ts, xs, Back(sig, c, ts, xs), Len(ts))
<1> DEFINE n == Len(ts)
           next(b, i) == IF b.out # "ok" THEN b ELSE push(sig, b, ts[i], xs[i], i)
           G == [x \in (1..n) \X Computation |-> next(x[2], x[1])]
           step[i \in 0..n] ==
             IF i = 0 THEN c ELSE IF step[i - 1].out # "ok" THEN step[i - 1]
                                  ELSE push(sig, step[i - 1], ts[i], xs[i], i)
<1>1. n \in Nat
  BY DEF Produced
<1>2. Back(sig, c, ts, xs) = step[n]
  BY DEF Back
<1>3. G \in [(1..n) \X Computation -> Computation]
  <2>1. \A b \in Computation : \A i \in 1..n : next(b, i) \in Computation
    <3> SUFFICES ASSUME NEW b \in Computation, NEW i \in 1..n
                 PROVE  next(b, i) \in Computation
      OBVIOUS
    <3>1. xs[i] \in Obj \cup Plain \cup {"foreign"}
      BY DEF Produced
    <3>2. push(sig, b, ts[i], xs[i], i) \in Computation
      BY <3>1, PushType
    <3> QED
      BY <3>2
  <2> HIDE DEF next
  <2> QED
    BY <2>1
<1>4. PICK f \in [0..n -> Computation] :
           f[0] = c /\ \A i \in 1..n : f[i] = G[<<i, f[i - 1]>>]
  <2>1. \E f : Unfolds(f, n, Computation, c, G)
    <3> HIDE DEF n, G
    <3> QED
      BY <1>1, <1>3, RangeRecursion
  <2> QED
    BY <2>1 DEF Unfolds
<1>5. \A i \in 1..n : f[i] = next(f[i - 1], i)
  <2> SUFFICES ASSUME NEW i \in 1..n
               PROVE  f[i] = next(f[i - 1], i)
    OBVIOUS
  <2>1. i - 1 \in 0..n
    BY <1>1
  <2>2. f[i - 1] \in Computation
    BY <2>1
  <2> HIDE DEF next
  <2> QED
    BY <1>4, <2>2
<1>6. f = [i \in 0..n |->
             IF i = 0 THEN c ELSE IF f[i - 1].out # "ok" THEN f[i - 1]
                                  ELSE push(sig, f[i - 1], ts[i], xs[i], i)]
  <2>1. \A i \in 0..n : i = 0 \/ i \in 1..n
    BY <1>1
  <2>2. \A i \in 0..n : f[i] = IF i = 0 THEN c ELSE IF f[i - 1].out # "ok" THEN f[i - 1]
                                                   ELSE push(sig, f[i - 1], ts[i], xs[i], i)
    BY <1>1, <1>4, <1>5, <2>1
  <2> QED
    BY <2>2
<1>7. step = [i \in 0..n |->
                IF i = 0 THEN c ELSE IF step[i - 1].out # "ok" THEN step[i - 1]
                                     ELSE push(sig, step[i - 1], ts[i], xs[i], i)]
  <2> HIDE DEF n
  <2> QED
    BY <1>6 DEF step
<1>8. step[0] = c /\ \A i \in 1..n : step[i] = next(step[i - 1], i)
  <2>1. 0 \in 0..n /\ \A i \in 1..n : i \in 0..n /\ i # 0
    BY <1>1
  <2> HIDE DEF n, step
  <2> QED
    BY <1>7, <2>1
<1> HIDE DEF step, next
<1> DEFINE S == {i \in 0..n : PushInv(sig, c, ts, xs, step[i], i)}
<1>9. 0 \in S
  <2>1. 1..0 = {} /\ 0 \in 0..0 /\ Len(<<>>) = 0
    OBVIOUS
  <2>2. HasPushed(c, ts, xs, c, 0)
    BY <2>1 DEF HasPushed
  <2>3. StopsAt(c, ts, xs, c, 0, 0)
    BY <2>2 DEF StopsAt
  <2>4. PushInv(sig, c, ts, xs, c, 0)
    BY <2>1, <2>3 DEF PushInv
  <2> QED
    BY <1>1, <1>8, <2>4
<1>10. ASSUME NEW i \in 1..n, i - 1 \in S
       PROVE  i \in S
  <2> DEFINE b == step[i - 1]
  <2>1. i \in 0..n /\ PushInv(sig, c, ts, xs, b, i - 1)
    BY <1>1, <1>10
  <2>2. step[i] = next(b, i)
    BY <1>8
  <2>3. CASE b.out = "ok"
    <3>1. PushInv(sig, c, ts, xs, push(sig, b, ts[i], xs[i], i), i)
      BY <2>1, <2>3, PushStep
    <3> QED
      BY <2>1, <2>2, <2>3, <3>1 DEF next
  <2>4. CASE b.out # "ok"
    <3>1. PICK m \in 0..(i - 1) : StopsAt(c, ts, xs, b, i - 1, m)
      BY <2>1 DEF PushInv
    <3>2. m \in 0..i /\ (m + 1 \in 1..(i - 1) => m + 1 \in 1..i)
      BY <1>1
    <3>3. StopsAt(c, ts, xs, b, i, m)
      BY <2>4, <3>1, <3>2 DEF StopsAt
    <3>4. PushInv(sig, c, ts, xs, b, i)
      BY <2>1, <2>4, <3>2, <3>3 DEF PushInv
    <3> QED
      BY <2>1, <2>2, <2>4, <3>4 DEF next
  <2> QED
    BY <2>3, <2>4
<1>11. 0..n \subseteq S
  <2> HIDE DEF n, S
  <2> QED
    BY <1>1, <1>9, <1>10, RangeInduction
<1>12. n \in 0..n
  BY <1>1
<1> QED
  BY <1>2, <1>11, <1>12

\* Only a table may be a reference which is foreign, and an object which is not
\* given to Lua has an owner already.
LEMMA PossibleResults ==
  ASSUME NEW t \in Result, NEW c, NEW own, NEW x \in Possible(t, c, own)
  PROVE  /\ x = "foreign" => t \in Tables
         /\ x \in Obj /\ t \notin Transfers => c.ud[x] # NULL \/ own[x] # 0
<1>1. CASE t \in {"number", "number_out", "number_in_out"}
  <2>1. Possible(t, c, own) = {"number"}
    BY <1>1, Zenon DEF Possible
  <2> QED
    BY <2>1, CallsAssumption DEF Plain
<1>2. CASE t = "light_return"
  <2>1. Possible(t, c, own) = {"light"}
    BY <1>2 DEF Possible
  <2> QED
    BY <2>1, CallsAssumption DEF Plain
<1>3. CASE t \in {"table", "table_in_out"}
  <2>1. Possible(t, c, own) = {"table", "nil", "foreign"}
    BY <1>3, Zenon DEF Possible
  <2> QED
    BY <1>3, <2>1, CallsAssumption DEF Plain, Tables
<1>4. CASE t \in {"pointer", "const_pointer"}
  <2>1. Possible(t, c, own) = Existing(c, own)
    BY <1>4, Zenon DEF Possible
  <2> QED
    BY <2>1, CallsAssumption DEF Existing, Fresh
<1>5. CASE t = "maybe_null"
  <2>1. Possible(t, c, own) = Existing(c, own) \cup {"nil"}
    BY <1>5 DEF Possible
  <2> QED
    BY <2>1, CallsAssumption DEF Existing, Fresh, Plain
<1>6. CASE t \in {"lua_return", "lua_out"}
  <2>1. Possible(t, c, own) = Givable(c, own)
    BY <1>6, Zenon DEF Possible
  <2> QED
    BY <1>6, <2>1, CallsAssumption DEF Givable, Fresh, Transfers
<1>7. CASE t \in {"value", "value_out"}
  <2>1. Possible(t, c, own) = Fresh(c, own)
    BY <1>7, Zenon DEF Possible
  <2> QED
    BY <1>7, <2>1, CallsAssumption DEF Fresh, Transfers
<1> QED
  BY <1>1, <1>2, <1>3, <1>4, <1>5, <1>6, <1>7 DEF Result, Return, Out

LEMMA ProductionsType ==
  ASSUME StateType, NEW sig \in build.bound, NEW c, NEW own,
         NEW xs \in Productions(Outs(sig), c, own)
  PROVE  /\ Produced(Outs(sig), xs)
         /\ \A j \in 1..Len(Outs(sig)) :
              /\ xs[j] \in Obj /\ Outs(sig)[j] \notin Transfers =>
                   c.ud[xs[j]] # NULL \/ own[xs[j]] # 0
<1> DEFINE ts == Outs(sig)
<1>1. ts \in Seq(Result)
  BY OutsType
<1> HIDE DEF ts
<1>2. DOMAIN ts = 1..Len(ts) /\ \A j \in 1..Len(ts) : ts[j] \in Result
  BY <1>1
<1>3. /\ xs \in [1..Len(ts) -> Obj \cup Plain \cup {"foreign"}]
      /\ \A j \in 1..Len(ts) : xs[j] \in Possible(ts[j], c, own)
  BY <1>2 DEF Productions, ts
<1>4. \A j \in 1..Len(ts) : /\ xs[j] = "foreign" => ts[j] \in Tables
                            /\ xs[j] \in Obj /\ ts[j] \notin Transfers =>
                                 c.ud[xs[j]] # NULL \/ own[xs[j]] # 0
  BY <1>2, <1>3, PossibleResults
<1>5. Produced(ts, xs)
  BY <1>1, <1>3, <1>4 DEF Produced
<1> QED
  BY <1>4, <1>5 DEF ts

\* What C++ gives away Lua owns, if it was pushed.
LEMMA GivenOnce ==
  ASSUME StateType, NEW sig \in build.bound, NEW c \in Computation,
         NEW own \in [Obj -> Nat], KeptOnce(c.ud, own),
         NEW xs \in Productions(Outs(sig), c, own),
         NEW b, PushInv(sig, c, Outs(sig), xs, b, Len(Outs(sig)))
  PROVE  /\ Given(Outs(sig), xs, own) \in [Obj -> Nat]
         /\ KeptOnce(b.ud, Given(Outs(sig), xs, own))
         /\ TablesLast(sig) /\ Kept(c.ud, own) => Kept(b.ud, Given(Outs(sig), xs, own))
<1> DEFINE ts == Outs(sig)
           n == Len(ts)
           gives(o) == \E j \in 1..n : ts[j] \in Transfers /\ xs[j] = o
           given == Given(ts, xs, own)
<1>1. ts \in Seq(Result) /\ DOMAIN ts = 1..n /\ n \in Nat
  BY OutsType
<1>2. given = [o \in Obj |-> IF gives(o) THEN 0 ELSE own[o]]
  BY <1>1 DEF Given
<1>3. PICK m \in 0..n : StopsAt(c, ts, xs, b, n, m)
  BY DEF PushInv
<1>4. /\ 1..m \subseteq 1..n
      /\ HasPushed(c, ts, xs, b, m)
      /\ \A j \in 1..n : j \in 1..m \/ m + 1 = j \/ m + 1 < j
      /\ b.ud \in [Obj -> Userdata \cup {NULL}]
  <2>1. b \in Computation
    BY DEF PushInv
  <2>2. b.ud \in [Obj -> Userdata \cup {NULL}]
    BY <2>1 DEF Computation
  <2>3. HasPushed(c, ts, xs, b, m)
    BY <1>3 DEF StopsAt
  <2> HIDE DEF n
  <2> QED
    BY <1>1, <2>2, <2>3
<1>5. ASSUME NEW j \in 1..n, xs[j] \in Obj, ts[j] \notin Transfers
      PROVE  c.ud[xs[j]] # NULL \/ own[xs[j]] # 0
  BY <1>5, ProductionsType
<1>6. ASSUME TablesLast(sig), NEW o \in Obj, gives(o)
      PROVE  \E j \in 1..m : ts[j] \in Transfers /\ xs[j] = o
  <2>1. PICK j \in 1..n : ts[j] \in Transfers /\ xs[j] = o
    BY <1>6
  <2>2. CASE b.out = "ok"
    BY <1>3, <2>1, <2>2 DEF StopsAt
  <2>3. CASE b.out # "ok"
    <3>1. m + 1 \in 1..n /\ ts[m + 1] \in Tables
      BY <1>3, <2>3 DEF StopsAt
    <3>2. ts[j] \notin Tables
      BY <2>1 DEF Transfers, Tables
    <3>3. ~(m + 1 < j)
      BY <1>1, <1>6, <2>1, <3>1 DEF TablesLast
    <3> QED
      BY <1>4, <2>1, <3>1, <3>2, <3>3
  <2> QED
    BY <2>2, <2>3
<1> HIDE DEF ts, n, given
<1>7. given \in [Obj -> Nat]
  BY <1>2
<1>8. \A o \in Obj : given[o] = IF gives(o) THEN 0 ELSE own[o]
  BY <1>2
<1>9. KeptOnce(b.ud, given)
  <2> SUFFICES ASSUME NEW o \in Obj
               PROVE  given[o] + (IF b.ud[o] # NULL /\ b.ud[o].gc THEN 1 ELSE 0) <= 1
    BY DEF KeptOnce, OwnerOf
  <2>1. CASE gives(o)
    BY <1>8, <2>1
  <2>2. CASE ~gives(o)
    <3>1. b.ud[o] # NULL /\ b.ud[o].gc => c.ud[o] # NULL /\ c.ud[o].gc
      BY <1>4, <2>2 DEF HasPushed
    <3>2. own[o] + (IF c.ud[o] # NULL /\ c.ud[o].gc THEN 1 ELSE 0) <= 1 /\ own[o] \in Nat
      BY DEF KeptOnce, OwnerOf
    <3> QED
      BY <1>8, <2>2, <3>1, <3>2
  <2> QED
    BY <2>1, <2>2
<1>10. ASSUME TablesLast(sig), Kept(c.ud, own), NEW o \in Obj, b.ud[o] # NULL
       PROVE  b.ud[o].gc \/ given[o] > 0
  <2>1. CASE gives(o)
    BY <1>4, <1>6, <1>10, <2>1 DEF HasPushed
  <2>2. CASE ~gives(o)
    <3>1. CASE c.ud[o] # NULL
      BY <1>4, <1>8, <1>10, <2>2, <3>1 DEF HasPushed, Kept
    <3>2. CASE c.ud[o] = NULL
      <4>1. PICK j \in 1..m : xs[j] = o
        BY <1>4, <1>10, <3>2 DEF HasPushed
      <4>2. own[o] # 0
        BY <1>4, <1>5, <2>2, <3>2, <4>1
      <4>3. own[o] \in Nat
        OBVIOUS
      <4> QED
        BY <1>8, <2>2, <4>2, <4>3
    <3> QED
      BY <3>1, <3>2
  <2> QED
    BY <2>1, <2>2
<1> QED
  BY <1>7, <1>9, <1>10 DEF Kept, given, ts

-----------------------------------------------------------------------------
(* A call.                                                                 *)

LEMMA OnTop ==
  ASSUME NEW S, NEW s \in Seq(S), NEW p \in Seq(S)
  PROVE  LET t == s \o p IN SubSeq(t, Len(t) - Len(p) + 1, Len(t)) = p
<1> DEFINE t == s \o p
           q == SubSeq(t, Len(t) - Len(p) + 1, Len(t))
<1>1. /\ t \in Seq(S) /\ Len(t) = Len(s) + Len(p) /\ Len(s) \in Nat /\ Len(p) \in Nat
      /\ \A i \in 1..Len(p) : t[Len(s) + i] = p[i]
  OBVIOUS
<1> HIDE DEF t
<1>2. /\ q \in Seq(S) /\ Len(q) = Len(p)
      /\ \A i \in 1..Len(p) : q[i] = t[Len(t) - Len(p) + i]
  <2>1. q = [i \in 1..Len(p) |-> t[Len(t) - Len(p) + i]]
    BY <1>1
  <2> QED
    BY <1>1, <2>1
<1> HIDE DEF q
<1>3. q = p
  BY <1>1, <1>2
<1> QED
  BY <1>3 DEF q, t

LEMMA ArgListsType ==
  ASSUME StateType, NEW sig \in build.bound, NEW args \in ArgLists(sig)
  PROVE  ArgumentsOf(args)
<1>1. PICK n \in Nat : args \in [1..n -> build.plain \cup {o \in Obj : ud[o] # NULL}]
  BY CallsAssumption DEF ArgLists
<1>2. build.plain \subseteq Plain
  BY CallsAssumption DEF StateType
<1>3. args \in [1..n -> Obj \cup Plain]
  BY <1>1, <1>2
<1>4. ASSUME NEW i \in DOMAIN args, args[i] \in Obj
      PROVE  ud[args[i]] # NULL
  BY <1>1, <1>2, <1>4, CallsAssumption
<1> QED
  BY <1>3, <1>4 DEF ArgumentsOf

\* Lua takes what was pushed, when all was pushed.
LEMMA ReturnedIsPushed ==
  ASSUME StateType, NEW sig \in build.bound, NEW args, ArgumentsOf(args),
         NEW b \in Computation, Len(b.pushed) = Len(Outs(sig))
  PROVE  Returned(sig, args, b) = b.pushed
<1> DEFINE n == Len(Outs(sig))
           S == Obj \cup Plain \cup {"function"}
           base == [i \in 1..n |-> "function"]
<1>1. n \in Nat
  BY OutsType
<1>2. b.pushed \in Seq(S)
  <2>1. b.pushed \in Seq(Obj \cup Plain)
    BY DEF Computation
  <2> QED
    BY <2>1
<1>3. base \in Seq(S)
  BY <1>1
<1>4. args \in Seq(S)
  <2>1. PICK k \in Nat : args \in [1..k -> Obj \cup Plain]
    BY DEF ArgumentsOf
  <2>2. args \in [1..k -> S]
    BY <2>1
  <2> HIDE DEF S
  <2> QED
    BY <2>2
<1>5. base \o args \in Seq(S)
  <2> HIDE DEF S, base
  <2> QED
    BY <1>3, <1>4
<1>6. Returned(sig, args, b) =
        LET t == (base \o args) \o b.pushed
        IN  SubSeq(t, Len(t) - Len(b.pushed) + 1, Len(t))
  BY DEF Returned, lua_return_count
<1> HIDE DEF S, base, n
<1> QED
  BY <1>2, <1>5, <1>6, OnTop

\* How a call ends.
LEMMA CallCases ==
  ASSUME StateType, NEW sig \in build.bound, NEW args \in ArgLists(sig), Call(sig, args)
  PROVE  /\ ArgumentsOf(args) /\ Honest(sig, args)
         /\ \E c : /\ ReadInv(sig, args, c, Len(sig.params))
                   /\ Refused(sig, args, c) \/ Throws(sig, args, c) \/ Returns(sig, args, c)
<1>1. ArgumentsOf(args)
  BY ArgListsType
<1>2. ReadInv(sig, args, Converted(sig, args), Len(sig.params))
  BY <1>1, Reading
<1> QED
  BY <1>1, <1>2 DEF Call

\* How a call ends whose function has returned.
LEMMA ReturnCases ==
  ASSUME StateType, NEW sig \in build.bound, NEW args, ArgumentsOf(args), Honest(sig, args),
         NEW c, ReadInv(sig, args, c, Len(sig.params)), Returns(sig, args, c), OwnedOnce
  PROVE  \E xs \in Productions(Outs(sig), c, Taken(sig, c)) : \E b :
           /\ PushInv(sig, c, Outs(sig), xs, b, Len(Outs(sig)))
           /\ Produced(Outs(sig), xs)
           /\ Ends(sig, args, b, Given(Outs(sig), xs, Taken(sig, c)), xs,
                   IF b.out = "ok" THEN Returned(sig, args, b) ELSE <<>>)
<1>1. PICK xs \in Productions(Outs(sig), c, Taken(sig, c)) :
        LET b == Back(sig, c, Outs(sig), xs)
        IN  Ends(sig, args, b, Given(Outs(sig), xs, Taken(sig, c)), xs,
                 IF b.out = "ok" THEN Returned(sig, args, b) ELSE <<>>)
  BY DEF Returns
<1>2. Produced(Outs(sig), xs)
  BY ProductionsType
<1>3. c \in Computation /\ c.out = "ok" /\ c.pushed = <<>>
  BY DEF ReadInv, Readable, Returns
<1>4. PushInv(sig, c, Outs(sig), xs, Back(sig, c, Outs(sig), xs), Len(Outs(sig)))
  BY <1>2, <1>3, Pushing
<1> QED
  BY <1>1, <1>2, <1>4

\* What the functions which are bound have to keep to, so that a call loses no
\* object.
Careful == \A b \in Builds : \A s \in b.bound : TakesLast(s) /\ TablesLast(s)

LEMMA CallKeepsOwners ==
  ASSUME StateType, OwnedOnce, NEW sig \in build.bound, NEW args \in ArgLists(sig), Call(sig, args)
  PROVE  StateType' /\ OwnedOnce' /\ (Careful /\ Owned => Owned')
<1>1. /\ ArgumentsOf(args) /\ Honest(sig, args)
      /\ \E c : /\ ReadInv(sig, args, c, Len(sig.params))
                /\ Refused(sig, args, c) \/ Throws(sig, args, c) \/ Returns(sig, args, c)
  BY CallCases
<1>2. PICK c : /\ ReadInv(sig, args, c, Len(sig.params))
               /\ Refused(sig, args, c) \/ Throws(sig, args, c) \/ Returns(sig, args, c)
  BY <1>1
<1>3. c \in Computation /\ \A o \in Obj : c.ud[o] = NULL <=> ud[o] = NULL
  BY <1>2 DEF ReadInv, Readable
<1>4. Careful => TakesLast(sig) /\ TablesLast(sig)
  BY DEF Careful, StateType
\* The owners after the call decide.
<1>5. ASSUME NEW u, NEW own, u \in [Obj -> Userdata \cup {NULL}], own \in [Obj -> Nat],
             ud' = u, owners' = own, build' = build, KeptOnce(u, own),
             Careful /\ Owned => Kept(u, own)
      PROVE  StateType' /\ OwnedOnce' /\ (Careful /\ Owned => Owned')
  <2>1. StateType'
    BY <1>5 DEF StateType
  <2>2. OwnedOnce'
    BY <1>5 DEF OwnedOnce, KeptOnce, OwnerOf
  <2>3. Kept(u, own) => Owned'
    BY <1>5 DEF Owned, Kept
  <2> QED
    BY <1>5, <2>1, <2>2, <2>3
<1>6. CASE Refused(sig, args, c)
  <2>1. /\ c.out # "ok" /\ ud' = c.ud /\ owners' = owners /\ build' = build
    BY <1>6 DEF Refused, Ends
  <2>2. HasFailed(sig, c)
    BY <1>2, <2>1 DEF ReadInv
  <2>3. KeptOnce(c.ud, owners)
    <3> SUFFICES ASSUME NEW o \in Obj
                 PROVE  owners[o] + (IF c.ud[o] # NULL /\ c.ud[o].gc THEN 1 ELSE 0) <= 1
      BY DEF KeptOnce, OwnerOf
    <3>1. c.ud[o] # NULL /\ c.ud[o].gc => ud[o] # NULL /\ ud[o].gc
      BY <1>3, <2>2 DEF HasFailed
    <3>2. owners[o] + (IF ud[o] # NULL /\ ud[o].gc THEN 1 ELSE 0) <= 1 /\ owners[o] \in Nat
      BY DEF OwnedOnce, StateType
    <3> QED
      BY <3>1, <3>2
  <2>4. Careful /\ Owned => Kept(c.ud, owners)
    BY <1>3, <1>4, <2>2 DEF HasFailed, Owned, Kept
  <2>5. c.ud \in [Obj -> Userdata \cup {NULL}] /\ owners \in [Obj -> Nat]
    BY <1>3 DEF Computation, StateType
  <2> QED
    BY <1>5, <2>1, <2>3, <2>4, <2>5
<1>7. CASE Throws(sig, args, c)
  <2>1. c.out = "ok" /\ ud' = [c EXCEPT !.out = "threw"].ud /\ owners' = Taken(sig, c) /\ build' = build
    BY <1>7 DEF Throws, Ends
  <2>2. ud' = c.ud /\ c.ud \in [Obj -> Userdata \cup {NULL}]
    BY <1>3, <2>1 DEF Computation
  <2>3. /\ Taken(sig, c) \in [Obj -> Nat] /\ KeptOnce(c.ud, Taken(sig, c))
        /\ Owned => Kept(c.ud, Taken(sig, c))
    BY <1>1, <1>2, <2>1, TakenOnce
  <2> QED
    BY <1>5, <2>1, <2>2, <2>3
<1>8. CASE Returns(sig, args, c)
  <2>0. PICK xs \in Productions(Outs(sig), c, Taken(sig, c)) : \E b :
           /\ PushInv(sig, c, Outs(sig), xs, b, Len(Outs(sig)))
           /\ Ends(sig, args, b, Given(Outs(sig), xs, Taken(sig, c)), xs,
                   IF b.out = "ok" THEN Returned(sig, args, b) ELSE <<>>)
    BY <1>1, <1>2, <1>8, ReturnCases
  <2>1. PICK b :
           /\ PushInv(sig, c, Outs(sig), xs, b, Len(Outs(sig)))
           /\ Ends(sig, args, b, Given(Outs(sig), xs, Taken(sig, c)), xs,
                   IF b.out = "ok" THEN Returned(sig, args, b) ELSE <<>>)
    BY <2>0
  <2> DEFINE own == Given(Outs(sig), xs, Taken(sig, c))
  <2>2. c.out = "ok"
    BY <1>8 DEF Returns
  <2>3. /\ Taken(sig, c) \in [Obj -> Nat] /\ KeptOnce(c.ud, Taken(sig, c))
        /\ Owned => Kept(c.ud, Taken(sig, c))
    BY <1>1, <1>2, <2>2, TakenOnce
  <2>4. /\ own \in [Obj -> Nat] /\ KeptOnce(b.ud, own)
        /\ TablesLast(sig) /\ Kept(c.ud, Taken(sig, c)) => Kept(b.ud, own)
    BY <1>3, <2>1, <2>3, GivenOnce
  <2>5. ud' = b.ud /\ owners' = own /\ build' = build
    BY <2>1 DEF Ends
  <2>6. b.ud \in [Obj -> Userdata \cup {NULL}]
    BY <2>1 DEF PushInv, Computation
  <2> HIDE DEF own
  <2> QED
    BY <1>4, <1>5, <2>3, <2>4, <2>5, <2>6
<1> QED
  BY <1>2, <1>6, <1>7, <1>8

\* What Lua passed is what the function got, and what it produced is what Lua
\* got.
LEMMA CallDelivers ==
  ASSUME StateType, OwnedOnce, NEW sig \in build.bound, NEW args \in ArgLists(sig), Call(sig, args)
  PROVE  /\ build.checks => ArgumentsInOrder'
         /\ Faithful(Outs(sig)) => ResultsAreProduced'
<1>1. /\ ArgumentsOf(args) /\ Honest(sig, args)
      /\ \E c : /\ ReadInv(sig, args, c, Len(sig.params))
                /\ Refused(sig, args, c) \/ Throws(sig, args, c) \/ Returns(sig, args, c)
  BY CallCases
<1>2. PICK c : /\ ReadInv(sig, args, c, Len(sig.params))
               /\ Refused(sig, args, c) \/ Throws(sig, args, c) \/ Returns(sig, args, c)
  BY <1>1
<1>3. c \in Computation /\ c.got \in Seq(Read_)
  BY <1>2 DEF ReadInv, Readable, Computation
\* A call which fails does so with an error.
<1>4. ASSUME last'.out = "error"
      PROVE  ArgumentsInOrder' /\ ResultsAreProduced'
  BY <1>4 DEF ArgumentsInOrder, ResultsAreProduced
<1>5. CASE Refused(sig, args, c)
  <2>1. c.out # "ok" /\ c.out # "threw" /\ last'.out = c.out
    BY <1>2, <1>5, FailuresType DEF Refused, Ends, ReadInv
  <2>2. ArgumentsInOrder'
    BY <2>1 DEF ArgumentsInOrder
  <2>3. build.checks => c.out = "error"
    BY <1>2, <2>1, FailuresType DEF ReadInv
  <2> QED
    BY <1>4, <2>1, <2>2, <2>3 DEF Faithful
<1>6. CASE Throws(sig, args, c)
  <2>1. [c EXCEPT !.out = "threw"].out = "threw"
    BY <1>3 DEF Computation
  <2>2. last'.out = "error"
    BY <1>6, <2>1 DEF Throws, Ends
  <2> QED
    BY <1>4, <2>2
<1>7. CASE Returns(sig, args, c)
  <2>0. PICK xs \in Productions(Outs(sig), c, Taken(sig, c)) : \E b :
           /\ PushInv(sig, c, Outs(sig), xs, b, Len(Outs(sig)))
           /\ Produced(Outs(sig), xs)
           /\ Ends(sig, args, b, Given(Outs(sig), xs, Taken(sig, c)), xs,
                   IF b.out = "ok" THEN Returned(sig, args, b) ELSE <<>>)
    BY <1>1, <1>2, <1>7, ReturnCases
  <2>1. PICK b :
           /\ PushInv(sig, c, Outs(sig), xs, b, Len(Outs(sig)))
           /\ Produced(Outs(sig), xs)
           /\ Ends(sig, args, b, Given(Outs(sig), xs, Taken(sig, c)), xs,
                   IF b.out = "ok" THEN Returned(sig, args, b) ELSE <<>>)
    BY <2>0
  <2>2. /\ last'.sig = sig /\ last'.args = args /\ last'.got = c.got /\ last'.produced = xs
        /\ last'.results = IF b.out = "ok" THEN Returned(sig, args, b) ELSE <<>>
        /\ last'.out = IF b.out = "threw" THEN "error" ELSE b.out
    BY <2>1 DEF Ends, PushInv
  <2>3. HasRead(sig, args, c, Len(sig.params)) /\ Len(c.got) = Len(sig.params)
    BY <1>2, <1>7 DEF ReadInv, Returns, HasRead
  <2>4. build.checks => ArgumentsInOrder'
    <3> SUFFICES ASSUME build.checks,
                        NEW i \in DOMAIN c.got, Consumes(sig.params[i])
                 PROVE  c.got[i] = Argument(args, Position(sig, i)) /\ Typed(sig.params[i], c.got[i])
      BY <2>2 DEF ArgumentsInOrder, Position, Offset
    <3>1. i \in 1..Len(sig.params)
      BY <1>3, <2>3
    <3> QED
      BY <2>3, <3>1 DEF HasRead
  <2>5. Faithful(Outs(sig)) => ResultsAreProduced'
    <3>1. b \in Computation /\ (b.out = "lost" => sig.self = "none")
      BY <2>1 DEF PushInv
    <3>2. ASSUME Faithful(Outs(sig)), b.out = "ok"
          PROVE  Returned(sig, args, b) = xs
      <4>1. /\ Len(b.pushed) = Len(Outs(sig)) /\ b.pushed \in Seq(Obj \cup Plain)
            /\ \A j \in 1..Len(Outs(sig)) : b.pushed[j] = xs[j]
        BY <2>1, <3>1, <3>2 DEF PushInv, Computation
      <4>2. xs \in [1..Len(Outs(sig)) -> Obj \cup Plain \cup {"foreign"}]
        BY <2>1 DEF Produced
      <4>3. b.pushed = xs
        BY <4>1, <4>2
      <4> QED
        BY <1>1, <3>1, <4>1, <4>3, ReturnedIsPushed
    <3> QED
      BY <2>2, <3>1, <3>2 DEF ResultsAreProduced
  <2> QED
    BY <2>4, <2>5
<1> QED
  BY <1>2, <1>5, <1>6, <1>7

-----------------------------------------------------------------------------
(* The specification.                                                      *)

LEMMA InitKeepsOwners == Init => StateType /\ OwnedOnce /\ Owned
<1> SUFFICES ASSUME Init
             PROVE  StateType /\ OwnedOnce /\ Owned
  OBVIOUS
<1>1. StateType
  BY DEF Init, StateType
<1>2. \A o \in Obj : ud[o] = NULL /\ owners[o] = 0
  BY DEF Init
<1> QED
  BY <1>1, <1>2 DEF OwnedOnce, Owned

\* The steps of C++ alone and of the collector.
LEMMA OtherKeepsOwners ==
  ASSUME StateType, OwnedOnce, NEW x \in Obj, CppNew(x) \/ CppDelete(x) \/ Collect(x)
  PROVE  StateType' /\ OwnedOnce' /\ (Owned => Owned') /\ last' = Idle
<1>1. /\ owners \in [Obj -> Nat] /\ ud \in [Obj -> Userdata \cup {NULL}] /\ build \in Builds
      /\ \A o \in Obj : owners[o] + (IF ud[o] # NULL /\ ud[o].gc THEN 1 ELSE 0) <= 1
  BY DEF StateType, OwnedOnce
<1>2. CASE CppNew(x) \/ CppDelete(x)
  <2>1. PICK n \in {0, 1} : owners' = [owners EXCEPT ![x] = n]
    BY <1>2 DEF CppNew, CppDelete
  <2>2. ud[x] = NULL /\ ud' = ud /\ build' = build /\ last' = Idle
    BY <1>2 DEF CppNew, CppDelete
  <2>3. StateType'
    BY <1>1, <2>1, <2>2 DEF StateType
  <2>4. \A o \in Obj : owners'[o] = IF o = x THEN n ELSE owners[o]
    BY <1>1, <2>1
  <2>5. OwnedOnce'
    BY <1>1, <2>2, <2>4 DEF OwnedOnce
  <2>6. Owned => Owned'
    BY <2>2, <2>4 DEF Owned
  <2> QED
    BY <2>2, <2>3, <2>5, <2>6
<1>3. CASE Collect(x)
  <2>1. ud' = [ud EXCEPT ![x] = NULL] /\ owners' = owners /\ build' = build /\ last' = Idle
    BY <1>3 DEF Collect
  <2>2. StateType'
    BY <1>1, <2>1 DEF StateType
  <2>3. \A o \in Obj : ud'[o] = IF o = x THEN NULL ELSE ud[o]
    BY <1>1, <2>1
  <2>4. OwnedOnce'
    BY <1>1, <2>1, <2>3 DEF OwnedOnce
  <2>5. Owned => Owned'
    BY <2>1, <2>3 DEF Owned
  <2> QED
    BY <2>1, <2>2, <2>4, <2>5
<1> QED
  BY <1>2, <1>3

LEMMA NextKeepsOwners ==
  StateType /\ OwnedOnce /\ [Next]_vars => StateType' /\ OwnedOnce' /\ (Careful /\ Owned => Owned')
<1> SUFFICES ASSUME StateType, OwnedOnce, [Next]_vars
             PROVE  StateType' /\ OwnedOnce' /\ (Careful /\ Owned => Owned')
  OBVIOUS
<1>1. ASSUME NEW sig \in build.bound, NEW args \in ArgLists(sig), Call(sig, args)
      PROVE  StateType' /\ OwnedOnce' /\ (Careful /\ Owned => Owned')
  BY <1>1, CallKeepsOwners
<1>2. ASSUME NEW x \in Obj, CppNew(x) \/ CppDelete(x) \/ Collect(x)
      PROVE  StateType' /\ OwnedOnce' /\ (Careful /\ Owned => Owned')
  BY <1>2, OtherKeepsOwners
<1>3. CASE UNCHANGED vars
  BY <1>3 DEF vars, StateType, OwnedOnce, Owned
<1> QED
  BY <1>1, <1>2, <1>3 DEF Next

\* No object has two owners after any call, of functions with whatever traits,
\* with or without checks.
THEOREM ObjectsAreOwnedOnce == Spec => []OwnedOnce
<1>1. Init => StateType /\ OwnedOnce
  BY InitKeepsOwners
<1>2. StateType /\ OwnedOnce /\ [Next]_vars => StateType' /\ OwnedOnce'
  BY NextKeepsOwners
<1> QED
  BY <1>1, <1>2, PTL DEF Spec

\* Every object which Lua knows has an owner after every call, of functions which
\* take nothing over before they read another parameter, and push a table after
\* what Lua is to own.
THEOREM ObjectsAreOwned ==
  ASSUME Careful
  PROVE  Spec => []Owned
<1>1. Init => StateType /\ OwnedOnce /\ Owned
  BY InitKeepsOwners
<1>2. StateType /\ OwnedOnce /\ Owned /\ [Next]_vars => StateType' /\ OwnedOnce' /\ Owned'
  BY NextKeepsOwners
<1> QED
  BY <1>1, <1>2, PTL DEF Spec

\* With checks a function gets the arguments of its parameters, of the types it
\* declares, whatever traits the parameters have and however many there are.
THEOREM ArgumentsAreInOrder ==
  ASSUME \A b \in Builds : b.checks
  PROVE  Spec => []ArgumentsInOrder
<1> DEFINE IInv == StateType /\ OwnedOnce /\ ArgumentsInOrder
<1>1. Init => IInv
  BY InitKeepsOwners DEF Init, Idle, ArgumentsInOrder
<1>2. IInv /\ [Next]_vars => IInv'
  <2> SUFFICES ASSUME IInv, [Next]_vars
               PROVE  ArgumentsInOrder'
    BY NextKeepsOwners
  <2>1. ASSUME NEW sig \in build.bound, NEW args \in ArgLists(sig), Call(sig, args)
        PROVE  ArgumentsInOrder'
    BY <2>1, CallDelivers DEF StateType
  <2>2. ASSUME NEW x \in Obj, CppNew(x) \/ CppDelete(x) \/ Collect(x)
        PROVE  ArgumentsInOrder'
    BY <2>2, OtherKeepsOwners DEF Idle, ArgumentsInOrder
  <2>3. CASE UNCHANGED vars
    BY <2>3 DEF vars, ArgumentsInOrder
  <2> QED
    BY <2>1, <2>2, <2>3 DEF Next
<1> QED
  BY <1>1, <1>2, PTL DEF Spec

\* Lua gets what the function has produced, in its order, and no exception
\* leaves a member function, when every build has checks and either reports a
\* reference which cannot be pushed with an exception or binds no function which
\* returns one.
THEOREM CallsReturnWhatIsProduced ==
  ASSUME \A b \in Builds : /\ b.checks
                           /\ b.throws \/ \A s \in b.bound : Range(Outs(s)) \cap Tables = {}
  PROVE  Spec => []ResultsAreProduced
<1> DEFINE IInv == StateType /\ OwnedOnce /\ ResultsAreProduced
<1>1. Init => IInv
  BY InitKeepsOwners DEF Init, Idle, ResultsAreProduced
<1>2. IInv /\ [Next]_vars => IInv'
  <2> SUFFICES ASSUME IInv, [Next]_vars
               PROVE  ResultsAreProduced'
    BY NextKeepsOwners
  <2>1. ASSUME NEW sig \in build.bound, NEW args \in ArgLists(sig), Call(sig, args)
        PROVE  ResultsAreProduced'
    <3>1. Faithful(Outs(sig))
      BY DEF Faithful, StateType
    <3> QED
      BY <2>1, <3>1, CallDelivers
  <2>2. ASSUME NEW x \in Obj, CppNew(x) \/ CppDelete(x) \/ Collect(x)
        PROVE  ResultsAreProduced'
    BY <2>2, OtherKeepsOwners DEF Idle, ResultsAreProduced
  <2>3. CASE UNCHANGED vars
    BY <2>3 DEF vars, ResultsAreProduced
  <2> QED
    BY <2>1, <2>2, <2>3 DEF Next
<1> QED
  BY <1>1, <1>2, PTL DEF Spec
=============================================================================
