--------------------------- MODULE LuaStackProofs ---------------------------
(***************************************************************************)
(* What C++ does with the stack of a lua_State, for stacks of any depth,   *)
(* any number of parameters and results and tables of any size: no         *)
(* operation panics, and each leaves the stack of its caller as it says.   *)
(***************************************************************************)
EXTENDS LuaStack, Induction

-----------------------------------------------------------------------------
(* The programs which the theorems are about.                              *)

\* OOLUA_RUNTIME_CHECKS_ENABLED is on, no reference is given whose type is not
\* that of its value, and no key of a table is nil, nor, without exceptions, a
\* reference of an unrelated universe, of which nothing is pushed.
Sound ==
  /\ \A b \in Builds : b.checks
  /\ "mistyped" \notin Args
  /\ \A throws \in BOOLEAN : "nil" \notin Keys[throws]
  /\ Keys[FALSE] \cap Foreign = {}

\* lua_pcall fails with what the library reports.
Ordinary == LuaFailures \subseteq {"run", "syntax"}

\* A Table holds a table, and no light userdata is pulled, which would stay.
Restorable == Ordinary /\ "other" \notin Tables /\ "light" \notin PullTypes

-----------------------------------------------------------------------------
(* Computations and the primitives.                                        *)

Slot == Plain \cup {"message"}

Errors == {"none", "unrelated", "type", "stack", "run"} \cup LuaFailures

Computation ==
  [out : {"true", "false", "throw", "lost"}, got : BOOLEAN, foreign : BOOLEAN,
   stack : Seq(Slot \cup {"handler"}), error : Errors]

\* The stack of c starts with base.
On(base, c) == Len(base) <= Len(c.stack) /\ \A i \in 1..Len(base) : c.stack[i] = base[i]

\* d differs from c in its stack.
OnlyStack(c, d) ==
  /\ d.out = c.out /\ d.got = c.got /\ d.foreign = c.foreign /\ d.error = c.error

LEMMA StateType ==
  ASSUME TypeOK
  PROVE  /\ stack \in Seq(Slot) /\ Len(stack) \in Nat /\ error \in Errors
         /\ \A i \in 1..Len(stack) : stack[i] \in Slot
         /\ Sound => build.checks
<1>1. Sound => \A b \in Builds : b.checks
  BY DEF Sound
<1> QED
  BY <1>1 DEF TypeOK, Slot, Errors

LEMMA BeginType ==
  ASSUME TypeOK
  PROVE  /\ Begin \in Computation /\ On(stack, Begin)
         /\ Begin.stack = stack /\ Begin.out = "true" /\ Begin.error = error
         /\ Begin.got = FALSE /\ Begin.foreign = FALSE
<1>1. stack \in Seq(Slot \cup {"handler"}) /\ error \in Errors /\ Len(stack) \in Nat
  BY StateType
<1> QED
  BY <1>1 DEF Begin, Computation, On

LEMMA PushedType ==
  ASSUME NEW c \in Computation, NEW v \in Slot \cup {"handler"}
  PROVE  /\ Pushed(c, v) \in Computation /\ OnlyStack(c, Pushed(c, v))
         /\ Pushed(c, v).stack = Append(c.stack, v)
         /\ Len(Pushed(c, v).stack) = Len(c.stack) + 1
         /\ Pushed(c, v).stack[Len(c.stack) + 1] = v
         /\ \A i \in 1..Len(c.stack) : Pushed(c, v).stack[i] = c.stack[i]
<1> DEFINE d == Pushed(c, v)
<1>1. c.stack \in Seq(Slot \cup {"handler"})
  BY DEF Computation
<1>2. Append(c.stack, v) \in Seq(Slot \cup {"handler"})
  BY <1>1
<1>3. d = [c EXCEPT !.stack = Append(c.stack, v)]
  BY DEF Pushed
<1> HIDE DEF d
<1>4. d \in Computation /\ OnlyStack(c, d) /\ d.stack = Append(c.stack, v)
  BY <1>2, <1>3 DEF Computation, OnlyStack
<1> QED
  BY <1>1, <1>4 DEF d

LEMMA PushedOn ==
  ASSUME NEW c \in Computation, NEW v \in Slot \cup {"handler"}, NEW S, NEW base \in Seq(S),
         On(base, c)
  PROVE  On(base, Pushed(c, v))
<1>1. Len(base) \in Nat /\ Len(c.stack) \in Nat /\ 1..Len(base) \subseteq 1..Len(c.stack)
  BY DEF On, Computation
<1> QED
  BY <1>1, PushedType DEF On

LEMMA SettopType ==
  ASSUME NEW c \in Computation, NEW n \in 0..Len(c.stack)
  PROVE  /\ settop(c, n) \in Computation /\ OnlyStack(c, settop(c, n))
         /\ Len(settop(c, n).stack) = n
         /\ \A i \in 1..n : settop(c, n).stack[i] = c.stack[i]
<1> DEFINE d == settop(c, n)
           s == [i \in 1..n |-> IF i <= Len(c.stack) THEN c.stack[i] ELSE "nil"]
<1>1. c.stack \in Seq(Slot \cup {"handler"}) /\ Len(c.stack) \in Nat
  BY DEF Computation
<1>2. n \in Nat /\ \A i \in 1..n : i \in 1..Len(c.stack) /\ s[i] = c.stack[i]
  BY <1>1
<1>3. s \in Seq(Slot \cup {"handler"}) /\ Len(s) = n
  BY <1>1, <1>2
<1>4. d = [c EXCEPT !.stack = s]
  BY DEF settop
<1> HIDE DEF d, s
<1>5. d \in Computation /\ OnlyStack(c, d) /\ d.stack = s
  BY <1>3, <1>4 DEF Computation, OnlyStack
<1> QED
  BY <1>2, <1>3, <1>5 DEF d

\* Everything above base is removed.
LEMMA SettopBase ==
  ASSUME NEW c \in Computation, NEW S, NEW base \in Seq(S), On(base, c)
  PROVE  settop(c, Len(base)).stack = base
<1> DEFINE s == settop(c, Len(base)).stack
<1>1. Len(base) \in 0..Len(c.stack)
  BY DEF On, Computation
<1>2. settop(c, Len(base)) \in Computation /\ Len(s) = Len(base) /\ \A i \in 1..Len(base) : s[i] = base[i]
  BY <1>1, SettopType DEF On
<1>3. s \in Seq(Slot \cup {"handler"})
  BY <1>2 DEF Computation
<1> HIDE DEF s
<1>4. s = base
  BY <1>2, <1>3
<1> QED
  BY <1>4 DEF s

LEMMA SettopOn ==
  ASSUME NEW c \in Computation, NEW S, NEW base \in Seq(S), On(base, c),
         NEW n \in Len(base)..Len(c.stack)
  PROVE  On(base, settop(c, n))
<1>1. n \in 0..Len(c.stack) /\ 1..Len(base) \subseteq 1..n
  BY DEF Computation
<1> QED
  BY <1>1, SettopType DEF On

LEMMA PopType ==
  ASSUME NEW c \in Computation, NEW n \in 0..Len(c.stack)
  PROVE  pop(c, n) = settop(c, Len(c.stack) - n) /\ Len(c.stack) - n \in 0..Len(c.stack)
BY DEF pop, top, Computation

LEMMA ReportType ==
  ASSUME NEW c \in Computation, NEW cause \in Errors
  PROVE  /\ Report(c, cause) \in Computation
         /\ Report(c, cause).stack = c.stack /\ Report(c, cause).foreign = c.foreign
         /\ Report(c, cause).out = IF build.throws THEN "throw" ELSE "false"
         /\ Report(c, cause).error = IF build.throws THEN c.error ELSE cause
BY DEF Report, Computation

-----------------------------------------------------------------------------
(* push and pull.                                                          *)

LEMMA PushCases ==
  ASSUME TypeOK, Sound, NEW c \in Computation, c.out = "true", NEW a \in Args
  PROVE  \/ a \in Plain /\ push(c, a) = Pushed(c, a)
         \/ a \in Foreign /\ push(c, a) = [Report(c, "unrelated") EXCEPT !.foreign = TRUE]
<1>1. a \in Plain \cup Foreign /\ build.checks
  BY StackAssumption, StateType DEF Sound
<1>2. push(c, a) = [pushed(c, a) EXCEPT !.foreign = @ \/ a \in Foreign]
  BY DEF push
<1>3. CASE a \in Plain
  <2>1. pushed(c, a) = Pushed(c, a) /\ a \notin Foreign
    BY <1>3 DEF pushed, Plain, Foreign
  <2>2. Pushed(c, a) \in Computation
    BY <1>3, PushedType DEF Slot
  <2>3. push(c, a) = [Pushed(c, a) EXCEPT !.foreign = @ \/ FALSE]
    BY <1>2, <2>1
  <2>4. push(c, a) = Pushed(c, a)
    BY <2>2, <2>3 DEF Computation
  <2> QED
    BY <1>3, <2>4
<1>4. CASE a \in Foreign
  <2>1. pushed(c, a) = Report(c, "unrelated")
    BY <1>1, <1>4 DEF pushed, Plain, Foreign
  <2> QED
    BY <1>2, <1>4, <2>1
<1> QED
  BY <1>1, <1>3, <1>4

\* A push of any argument keeps what is on the stack, and reports what it does
\* not push.
LEMMA PushType ==
  ASSUME TypeOK, Sound, NEW c \in Computation, c.out = "true", NEW a \in Args,
         NEW S, NEW base \in Seq(S), On(base, c)
  PROVE  /\ push(c, a) \in Computation /\ On(base, push(c, a))
         /\ push(c, a).stack \in {c.stack, Append(c.stack, a)}
         /\ push(c, a).out \in {"true", "false", "throw"}
         /\ push(c, a).out = "true" => a \in Plain /\ push(c, a) = Pushed(c, a)
         /\ push(c, a).out # "true" => a \notin Plain /\ push(c, a).stack = c.stack
         /\ push(c, a).out = "throw" => build.throws
         /\ push(c, a).out = "false" => ~build.throws /\ push(c, a).error = "unrelated"
         /\ push(c, a).foreign => c.foreign \/ push(c, a).out # "true"
<1> DEFINE p == push(c, a)
<1>1. c.error \in Errors /\ c.foreign \in BOOLEAN
  BY DEF Computation
<1>2. CASE a \in Plain /\ p = Pushed(c, a)
  BY <1>2, PushedType, PushedOn DEF OnlyStack, Slot
<1>3. CASE a \in Foreign /\ p = [Report(c, "unrelated") EXCEPT !.foreign = TRUE]
  <2> DEFINE q == Report(c, "unrelated")
  <2>1. /\ q \in Computation /\ q.stack = c.stack
        /\ q.out = IF build.throws THEN "throw" ELSE "false"
        /\ q.error = IF build.throws THEN c.error ELSE "unrelated"
    BY ReportType DEF Errors
  <2> HIDE DEF p, q
  <2>2. p = [q EXCEPT !.foreign = TRUE]
    BY <1>3 DEF q
  <2>3. p \in Computation /\ p.stack = q.stack /\ p.out = q.out /\ p.error = q.error
    BY <2>1, <2>2 DEF Computation
  <2>4. On(base, p)
    BY <2>1, <2>3 DEF On
  <2>5. a \notin Plain
    BY <1>3 DEF Foreign, Plain
  <2> QED
    BY <2>1, <2>3, <2>4, <2>5 DEF p
<1> QED
  BY <1>2, <1>3, PushCases

\* The keys which are given: one which is not pushed throws.
LEMMA KeyOf ==
  ASSUME TypeOK, Sound, NEW k \in Keys[build.throws] \cup {"nil"}
  PROVE  k \in Args \cup {"nil"} /\ (k \in Foreign => build.throws)
<1>1. build.throws \in BOOLEAN
  BY StackAssumption DEF TypeOK
<1>2. "nil" \notin Foreign
  BY DEF Foreign
<1> QED
  BY <1>1, <1>2, StackAssumption DEF Sound

\* A key is pushed, or it throws and nothing is.
LEMMA PushKey ==
  ASSUME TypeOK, Sound, NEW c \in Computation, c.out = "true",
         NEW k \in Args \cup {"nil"}, k \in Foreign => build.throws
  PROVE  \/ k \in Plain /\ push_(c, k) = Pushed(c, k)
         \/ /\ k \in Foreign /\ push_(c, k) = push(c, k)
            /\ push_(c, k) \in Computation /\ push_(c, k).out = "throw" /\ push_(c, k).stack = c.stack
<1>2. k \in Plain \/ (k \in Args /\ k \in Foreign /\ build.throws)
  BY StackAssumption DEF Sound, Plain
<1>3. push_(c, k) = IF push(c, k).out = "false" THEN [push(c, k) EXCEPT !.out = "true"] ELSE push(c, k)
  BY DEF push_
<1>4. CASE k \in Plain
  <2>1. push(c, k) = Pushed(c, k)
    <3>1. pushed(c, k) = Pushed(c, k) /\ k \notin Foreign
      BY <1>4 DEF pushed, Plain, Foreign
    <3>2. Pushed(c, k) \in Computation
      BY <1>4, PushedType DEF Slot
    <3>3. push(c, k) = [Pushed(c, k) EXCEPT !.foreign = @ \/ FALSE]
      BY <3>1 DEF push
    <3> QED
      BY <3>1, <3>2, <3>3 DEF Computation
  <2>2. Pushed(c, k).out = "true"
    BY <1>4, PushedType DEF OnlyStack, Slot
  <2> QED
    BY <1>3, <1>4, <2>1, <2>2
<1>5. CASE k \in Args /\ k \in Foreign /\ build.throws
  <2>1. push(c, k) = [Report(c, "unrelated") EXCEPT !.foreign = TRUE]
    BY <1>5, PushCases DEF Foreign, Plain
  <2>2. Report(c, "unrelated") \in Computation /\ Report(c, "unrelated").out = "throw"
        /\ Report(c, "unrelated").stack = c.stack
    BY <1>5, ReportType DEF Errors
  <2>3. push(c, k) \in Computation /\ push(c, k).out = "throw" /\ push(c, k).stack = c.stack
    BY <2>1, <2>2 DEF Computation
  <2>4. push_(c, k) = push(c, k)
    BY <1>3, <2>3
  <2> QED
    BY <1>5, <2>3, <2>4
<1> QED
  BY <1>2, <1>4, <1>5

Pulled == {"number", "light", "table", "function"}

\* What a pull does.
LEMMA PullCases ==
  ASSUME TypeOK, Sound, NEW c \in Computation, NEW t \in Pulled
  PROVE  \/ pull(c, t) = Report(c, "type") /\ (c.stack = <<>> \/ TopType(c) # t)
         \/ c.stack # <<>> /\ TopType(c) \in {"nil", "light"} /\ pull(c, t) = [c EXCEPT !.got = TRUE]
            /\ (TopType(c) = "light" => t = "light")
         \/ c.stack # <<>> /\ TopType(c) = t /\ t # "light" /\ t # "nil"
            /\ pull(c, t) = [pop(c, 1) EXCEPT !.got = TRUE]
<1>1. t \in {"number", "light", "table", "function"} /\ build.checks
  BY StateType DEF Pulled
<1>2. c.stack = <<>> => TopType(c) = "nil"
  BY DEF TopType
<1>3. CASE t \in {"table", "function"}
  BY <1>1, <1>3 DEF pull, pullRef
<1>4. CASE t \in {"number", "light"}
  <2>1. pull(c, t) = pullPlain(c, t)
    BY <1>4 DEF pull
  <2>2. CASE TopType(c) # t
    BY <1>1, <2>1, <2>2 DEF pullPlain
  <2>3. CASE TopType(c) = t
    <3>1. pull(c, t) = [(IF t = "light" THEN c ELSE pop(c, 1)) EXCEPT !.got = TRUE]
      BY <2>1, <2>3 DEF pullPlain
    <3> QED
      BY <1>2, <1>4, <2>3, <3>1
  <2> QED
    BY <2>2, <2>3
<1> QED
  BY <1>1, <1>3, <1>4

\* A pull leaves the stack below the top as it was, and reports a failure.
LEMMA PullType ==
  ASSUME TypeOK, Sound, NEW c \in Computation, c.out = "true", NEW t \in Pulled
  PROVE  LET d == pull(c, t)
         IN  /\ d \in Computation /\ d.foreign = c.foreign
             /\ \/ d.stack = c.stack
                \/ c.stack # <<>> /\ d.stack = settop(c, Len(c.stack) - 1).stack
             /\ d.out = "true" =>
                  /\ d.got
                  /\ IF TopType(c) \in {"nil", "light"} THEN d.stack = c.stack
                     ELSE c.stack # <<>> /\ d.stack = settop(c, Len(c.stack) - 1).stack
                  /\ TopType(c) = "light" => t = "light"
             /\ d.out # "true" =>
                  /\ d.stack = c.stack /\ (c.stack = <<>> \/ TopType(c) # t)
                  /\ d.out = IF build.throws THEN "throw" ELSE "false"
                  /\ ~build.throws => d.error = "type"
<1> DEFINE d == pull(c, t)
<1>1. CASE d = Report(c, "type") /\ (c.stack = <<>> \/ TopType(c) # t)
  <2>1. "type" \in Errors
    BY DEF Errors
  <2> HIDE DEF d
  <2> QED
    BY <1>1, <2>1, ReportType DEF d
<1>2. CASE c.stack # <<>> /\ TopType(c) \in {"nil", "light"} /\ d = [c EXCEPT !.got = TRUE]
           /\ (TopType(c) = "light" => t = "light")
  <2> HIDE DEF d
  <2>1. d \in Computation /\ d.stack = c.stack /\ d.out = "true" /\ d.got /\ d.foreign = c.foreign
    BY <1>2 DEF Computation
  <2> QED
    BY <1>2, <2>1 DEF d
<1>3. CASE c.stack # <<>> /\ TopType(c) = t /\ t # "light" /\ t # "nil"
           /\ d = [pop(c, 1) EXCEPT !.got = TRUE]
  <2> DEFINE q == settop(c, Len(c.stack) - 1)
  <2>1. 1 \in 0..Len(c.stack) /\ Len(c.stack) - 1 \in 0..Len(c.stack)
    BY <1>3 DEF Computation
  <2>2. q \in Computation /\ OnlyStack(c, q) /\ pop(c, 1) = q
    BY <2>1, PopType, SettopType
  <2> HIDE DEF d, q
  <2>3. d = [q EXCEPT !.got = TRUE]
    BY <1>3, <2>2 DEF d
  <2>4. d \in Computation /\ d.stack = q.stack /\ d.out = "true" /\ d.got /\ d.foreign = c.foreign
    BY <2>2, <2>3 DEF Computation, OnlyStack
  <2> QED
    BY <1>3, <2>4 DEF d, q
<1> QED
  BY <1>1, <1>2, <1>3, PullCases

-----------------------------------------------------------------------------
(* The table and the values at an absolute index.                          *)

\* The stack is that of the caller again.
LEMMA RestoreType ==
  ASSUME TypeOK, NEW c \in Computation, On(stack, c), c.out \in {"true", "false"}
  PROVE  /\ restore_stack(c) \in Computation /\ OnlyStack(c, restore_stack(c))
         /\ restore_stack(c).stack = stack
<1>1. stack \in Seq(Slot) /\ Len(stack) \in Nat /\ Len(c.stack) \in Nat /\ Len(stack) <= Len(c.stack)
      /\ c.stack \in Seq(Slot \cup {"handler"})
  BY StateType DEF On, Computation
<1>2. CASE Len(c.stack) = Len(stack)
  <2>1. restore_stack(c) = c
    BY <1>2 DEF restore_stack, top
  <2>2. c.stack = stack
    BY <1>1, <1>2 DEF On
  <2> QED
    BY <2>1, <2>2 DEF OnlyStack
<1>3. CASE Len(c.stack) # Len(stack)
  <2> DEFINE n == Len(c.stack) - Len(stack)
  <2>1. restore_stack(c) = pop(c, n)
    BY <1>3 DEF restore_stack, top
  <2>2. n \in 0..Len(c.stack) /\ Len(c.stack) - n = Len(stack)
    BY <1>1
  <2> HIDE DEF n
  <2>3. restore_stack(c) = settop(c, Len(stack)) /\ Len(stack) \in 0..Len(c.stack)
    BY <2>1, <2>2, PopType
  <2> QED
    BY <1>1, <2>3, SettopType, SettopBase
<1> QED
  BY <1>2, <1>3

LEMMA GetTable ==
  ASSUME TypeOK, NEW t \in {"none", "table", "other"}
  PROVE  LET c == get_table(Begin, t)
         IN  /\ c \in Computation /\ On(stack, c) /\ c.out \in {"true", "false"}
             /\ c.foreign = FALSE /\ c.stack \in Seq(Slot)
             /\ c.out = "true" => t = "table" /\ c = Pushed(Begin, "table")
             /\ c.out = "false" => t # "table" /\ (t # "other" => c.stack = stack)
<1> DEFINE c == get_table(Begin, t)
<1>2. Begin \in Computation /\ On(stack, Begin) /\ Begin.stack = stack /\ stack \in Seq(Slot)
      /\ Begin.out = "true" /\ Begin.foreign = FALSE
  BY BeginType, StateType
<1>3. CASE t = "none"
  <2>1. c = [Begin EXCEPT !.out = "false"]
    BY <1>3 DEF get_table
  <2> HIDE DEF c
  <2>2. c \in Computation /\ c.stack = stack /\ c.out = "false" /\ c.foreign = FALSE
    BY <1>2, <2>1 DEF Computation
  <2>3. On(stack, c)
    BY <1>2, <2>2 DEF On
  <2> QED
    BY <1>2, <1>3, <2>2, <2>3 DEF c
<1>4. CASE t = "table"
  <2>1. c = Pushed(Begin, "table")
    BY <1>4 DEF get_table
  <2>2. "table" \in Slot
    BY DEF Slot, Plain
  <2> HIDE DEF c
  <2>3. c \in Computation /\ On(stack, c) /\ OnlyStack(Begin, c) /\ c.stack = Append(stack, "table")
    BY <1>2, <2>1, <2>2, PushedType, PushedOn
  <2>4. c.stack \in Seq(Slot)
    BY <1>2, <2>2, <2>3
  <2> QED
    BY <1>2, <1>4, <2>1, <2>3, <2>4 DEF c, OnlyStack
<1>5. CASE t = "other"
  <2> DEFINE q == Pushed(Begin, "number")
  <2>1. c = [q EXCEPT !.out = "false"]
    BY <1>5 DEF get_table
  <2>2. "number" \in Slot
    BY DEF Slot, Plain
  <2>3. q \in Computation /\ On(stack, q) /\ OnlyStack(Begin, q) /\ q.stack = Append(stack, "number")
    BY <1>2, <2>2, PushedType, PushedOn
  <2> HIDE DEF c, q
  <2>4. c \in Computation /\ c.stack = q.stack /\ c.out = "false" /\ c.foreign = q.foreign
    BY <2>1, <2>3 DEF Computation
  <2>5. On(stack, c) /\ c.stack \in Seq(Slot)
    BY <1>2, <2>2, <2>3, <2>4 DEF On
  <2> QED
    BY <1>2, <1>5, <2>3, <2>4, <2>5 DEF c, OnlyStack
<1> QED
  BY <1>3, <1>4, <1>5

\* A table at an absolute index below the key is read.
LEMMA GettableType ==
  ASSUME NEW c \in Computation, c.out = "true", NEW at \in 1..(Len(c.stack) - 1),
         c.stack[at] = "table", NEW v \in Plain
  PROVE  LET d == lua_gettable(c, at, v)
         IN  /\ d \in Computation /\ OnlyStack(c, d) /\ d.out = "true"
             /\ Len(d.stack) = Len(c.stack) /\ d.stack[Len(c.stack)] = v
             /\ d.stack # <<>> /\ TopType(d) = v
             /\ \A i \in 1..(Len(c.stack) - 1) : d.stack[i] = c.stack[i]
<1> DEFINE d == lua_gettable(c, at, v)
           q == pop(c, 1)
<1>1. Len(c.stack) \in Nat /\ 1 \in 0..Len(c.stack) /\ Len(c.stack) - 1 \in 0..Len(c.stack)
  BY DEF Computation
<1>2. d = Pushed(q, v)
  BY <1>1 DEF lua_gettable, Lost
<1>3. q = settop(c, Len(c.stack) - 1)
  BY <1>1, PopType
<1>4. q \in Computation /\ OnlyStack(c, q) /\ Len(q.stack) = Len(c.stack) - 1
      /\ \A i \in 1..(Len(c.stack) - 1) : q.stack[i] = c.stack[i]
  BY <1>1, <1>3, SettopType
<1>5. v \in Slot \cup {"handler"}
  BY DEF Slot
<1> HIDE DEF d, q
<1>6. /\ d \in Computation /\ OnlyStack(q, d) /\ Len(d.stack) = Len(q.stack) + 1
      /\ d.stack[Len(q.stack) + 1] = v /\ d.stack = Append(q.stack, v)
      /\ \A i \in 1..Len(q.stack) : d.stack[i] = q.stack[i]
  BY <1>2, <1>4, <1>5, PushedType
<1>7. Len(d.stack) = Len(c.stack) /\ d.stack[Len(c.stack)] = v
      /\ \A i \in 1..(Len(c.stack) - 1) : d.stack[i] = c.stack[i]
  BY <1>1, <1>4, <1>6
<1>8. d.stack # <<>> /\ Last(d.stack) = v
  <2>1. Last(d.stack) = d.stack[Len(d.stack)]
    BY DEF Last
  <2>2. Len(d.stack) # 0
    BY <1>1, <1>7
  <2> QED
    BY <1>7, <2>1, <2>2
<1>9. TopType(d) = v
  BY <1>8 DEF TopType, Type, Plain
<1> QED
  BY <1>4, <1>6, <1>7, <1>8, <1>9 DEF OnlyStack, d

\* A table at an absolute index below the key and the value is written.
LEMMA SettableType ==
  ASSUME NEW c \in Computation, c.out = "true", NEW at \in 1..(Len(c.stack) - 2),
         c.stack[at] = "table", c.stack[Len(c.stack) - 1] # "nil"
  PROVE  LET d == lua_settable(c, at)
         IN  /\ d \in Computation /\ OnlyStack(c, d)
             /\ d.stack = settop(c, Len(c.stack) - 2).stack
<1> DEFINE d == lua_settable(c, at)
           q == settop(c, Len(c.stack) - 2)
<1>1. Len(c.stack) \in Nat /\ 2 \in 0..Len(c.stack) /\ Len(c.stack) - 2 \in 0..Len(c.stack)
  BY DEF Computation
<1>2. d = pop(c, 2)
  BY <1>1 DEF lua_settable, top
<1>3. q \in Computation /\ OnlyStack(c, q) /\ pop(c, 2) = q
  BY <1>1, PopType, SettopType
<1> QED
  BY <1>2, <1>3

-----------------------------------------------------------------------------
(* What an operation op which ends as c owes.                              *)

Sane(c) == c \in Computation /\ c.out # "lost" /\ c.stack \in Seq(Slot)

\* The properties of the model, of the computation which makes the step.
Kept(op, c) ==
  /\ op \in {"call", "exhausted", "load", "run"} =>
       IF c.out = "true" THEN IsPrefix(stack, c.stack) ELSE c.stack = stack
  /\ op \in {"at", "safe_at", "try_at", "valid", "new_table", "set_global",
             "ipairs", "pairs", "traverse"} => c.stack = stack
  /\ op \in {"set", "remove", "table_set_value"} =>
       IF c.out = "throw" THEN IsPrefix(stack, c.stack) ELSE c.stack = stack
  /\ op \in {"table_at", "get_global"} => IsPrefix(stack, c.stack)
  /\ op = "get_global" /\ c.out = "true" => c.stack \in {stack, Append(stack, "nil")}
  /\ op = "pull" =>
       IF c.out = "true" /\ TopType(Begin) \notin {"light", "nil"}
       THEN c.stack = Front(stack) ELSE c.stack = stack

Reported(op, c) ==
  /\ op \in {"push", "pull", "call", "load", "run", "set_global", "get_global"}
     /\ c.out \in {"false", "throw"} =>
       IF build.throws THEN c.out = "throw" ELSE c.error # "none"
  /\ c.foreign /\ op \in {"push", "call", "safe_at", "try_at", "set_global", "set", "remove",
                           "table_set_value", "table_at"} =>
       c.out \in {"false", "throw"}

Delivers(op, c) == build.throws /\ op \in {"safe_at", "try_at"} /\ c.out = "true" => c.got

Fine(op, c) ==
  /\ Sane(c) /\ Delivers(op, c)
  /\ (Restorable => Kept(op, c)) /\ (Ordinary => Reported(op, c))

LEMMA OnPrefix ==
  ASSUME NEW c \in Computation, NEW S, NEW base \in Seq(S), On(base, c)
  PROVE  IsPrefix(base, c.stack)
<1>1. c.stack \in Seq(Slot \cup {"handler"}) /\ Len(base) \in Nat /\ Len(c.stack) \in Nat
      /\ Len(base) <= Len(c.stack) /\ \A i \in 1..Len(base) : c.stack[i] = base[i]
  BY DEF Computation, On
<1>2. SubSeq(base, 1, Len(base)) = SubSeq(c.stack, 1, Len(base))
  BY <1>1
<1> QED
  BY <1>1, <1>2 DEF IsPrefix

LEMMA SettopSlot ==
  ASSUME NEW c \in Computation, c.stack \in Seq(Slot), NEW n \in 0..Len(c.stack)
  PROVE  settop(c, n).stack \in Seq(Slot)
<1> DEFINE s == settop(c, n).stack
<1>1. settop(c, n) \in Computation /\ Len(s) = n /\ \A i \in 1..n : s[i] = c.stack[i]
  BY SettopType
<1>2. s \in Seq(Slot \cup {"handler"}) /\ n \in Nat /\ Len(c.stack) \in Nat
  BY <1>1 DEF Computation
<1> HIDE DEF s
<1>3. \A i \in 1..Len(s) : s[i] \in Slot
  BY <1>1, <1>2
<1>4. s \in Seq(Slot)
  BY <1>2, <1>3
<1> QED
  BY <1>4 DEF s

\* A pull leaves what is below the top.
LEMMA PullOn ==
  ASSUME TypeOK, Sound, NEW c \in Computation, c.out = "true", NEW t \in Pulled,
         NEW S, NEW base \in Seq(S), On(base, c), Len(base) < Len(c.stack)
  PROVE  /\ On(base, pull(c, t))
         /\ c.stack \in Seq(Slot) => pull(c, t).stack \in Seq(Slot)
<1> DEFINE d == pull(c, t)
           n == Len(c.stack) - 1
<1>1. d.stack = c.stack \/ d.stack = settop(c, n).stack
  BY PullType
<1>2. n \in Len(base)..Len(c.stack) /\ n \in 0..Len(c.stack)
  BY DEF Computation
<1> HIDE DEF d, n
<1>3. On(base, settop(c, n)) /\ (c.stack \in Seq(Slot) => settop(c, n).stack \in Seq(Slot))
  BY <1>2, SettopOn, SettopSlot
<1>4. On(base, d) /\ (c.stack \in Seq(Slot) => d.stack \in Seq(Slot))
  BY <1>1, <1>3 DEF On
<1> QED
  BY <1>4 DEF d

-----------------------------------------------------------------------------
(* One operation after the other.                                          *)

LEMMA PushFine ==
  ASSUME TypeOK, Sound, NEW a \in Args
  PROVE  Fine("push", push(Begin, a))
<1> DEFINE c == push(Begin, a)
<1>1. Begin \in Computation /\ Begin.out = "true" /\ On(stack, Begin) /\ stack \in Seq(Slot)
      /\ Begin.stack = stack /\ Begin.foreign = FALSE
  BY BeginType, StateType
<1>2. /\ c \in Computation /\ c.stack \in {stack, Append(stack, a)}
      /\ c.out \in {"true", "false", "throw"}
      /\ c.out # "true" => c.stack = stack
      /\ c.out = "true" => a \in Plain /\ c = Pushed(Begin, a)
      /\ c.out = "throw" => build.throws
      /\ c.out = "false" => ~build.throws /\ c.error = "unrelated"
      /\ c.foreign => Begin.foreign \/ c.out # "true"
  BY <1>1, PushType
<1> HIDE DEF c
<1>3. c.stack \in Seq(Slot)
  <2>1. CASE c.out = "true"
    <3>1. c.stack = Append(stack, a) /\ a \in Slot
      BY <1>1, <1>2, <2>1, PushedType DEF Slot
    <3> QED
      BY <1>1, <3>1
  <2>2. CASE c.out # "true"
    BY <1>1, <1>2, <2>2 DEF Slot, Plain
  <2> QED
    BY <2>1, <2>2
<1>4. Fine("push", c)
  BY <1>1, <1>2, <1>3 DEF Fine, Sane, Kept, Reported, Delivers
<1> QED
  BY <1>4 DEF c

LEMMA PullFine ==
  ASSUME TypeOK, Sound, NEW t \in PullTypes
  PROVE  Fine("pull", pull(Begin, t))
<1> DEFINE c == pull(Begin, t)
           n == Len(stack) - 1
<1>1. Begin \in Computation /\ Begin.out = "true" /\ On(stack, Begin) /\ stack \in Seq(Slot)
      /\ Begin.stack = stack /\ Begin.foreign = FALSE /\ t \in Pulled
  BY BeginType, StateType, StackAssumption DEF Pulled
<1>2. /\ c \in Computation /\ c.foreign = FALSE
      /\ (c.stack = stack \/ (stack # <<>> /\ c.stack = settop(Begin, n).stack))
      /\ c.out = "true" =>
           IF TopType(Begin) \in {"nil", "light"} THEN c.stack = stack
           ELSE stack # <<>> /\ c.stack = settop(Begin, n).stack
      /\ c.out # "true" => /\ c.stack = stack
                           /\ c.out = IF build.throws THEN "throw" ELSE "false"
                           /\ ~build.throws => c.error = "type"
  BY <1>1, PullType
<1>3. stack # <<>> => settop(Begin, n).stack = Front(stack) /\ settop(Begin, n).stack \in Seq(Slot)
  <2> SUFFICES ASSUME stack # <<>> PROVE settop(Begin, n).stack = Front(stack) /\ settop(Begin, n).stack \in Seq(Slot)
    OBVIOUS
  <2> DEFINE s == settop(Begin, n).stack
  <2>1. n \in 0..Len(stack) /\ n \in Nat
    BY <1>1
  <2>2. s \in Seq(Slot) /\ Len(s) = n /\ \A i \in 1..n : s[i] = stack[i]
    BY <1>1, <2>1, SettopType, SettopSlot
  <2> HIDE DEF s
  <2>3. s = SubSeq(stack, 1, Len(stack) - 1)
    BY <1>1, <2>1, <2>2
  <2> QED
    BY <2>2, <2>3 DEF Front, s
<1> HIDE DEF c
<1>4. Fine("pull", c)
  BY <1>1, <1>2, <1>3 DEF Fine, Sane, Kept, Reported, Delivers, Computation
<1> QED
  BY <1>4 DEF c

\* The table is above the stack of the caller, and above it the key.
LEMMA KeyedType ==
  ASSUME TypeOK, NEW w \in Plain
  PROVE  LET table == Pushed(Begin, "table")
             c == Pushed(table, w)
         IN  /\ table \in Computation /\ table.out = "true" /\ table.foreign = FALSE
             /\ table.stack \in Seq(Slot) /\ On(stack, table)
             /\ Len(table.stack) = Len(stack) + 1 /\ table.stack[Len(stack) + 1] = "table"
             /\ c \in Computation /\ c.out = "true" /\ c.foreign = FALSE
             /\ c.stack \in Seq(Slot) /\ On(stack, c) /\ On(table.stack, c)
             /\ Len(c.stack) = Len(stack) + 2
             /\ c.stack[Len(stack) + 1] = "table" /\ c.stack[Len(stack) + 2] = w
<1> DEFINE table == Pushed(Begin, "table")
           c == Pushed(table, w)
<1>1. Begin \in Computation /\ Begin.out = "true" /\ On(stack, Begin) /\ stack \in Seq(Slot)
      /\ Begin.stack = stack /\ Begin.foreign = FALSE /\ Len(stack) \in Nat
  BY BeginType, StateType
<1>2. "table" \in Slot /\ w \in Slot
  BY DEF Slot, Plain
<1>3. /\ table \in Computation /\ OnlyStack(Begin, table) /\ table.stack = Append(stack, "table")
      /\ Len(table.stack) = Len(stack) + 1 /\ table.stack[Len(stack) + 1] = "table"
      /\ On(stack, table)
  BY <1>1, <1>2, PushedType, PushedOn, ZenonT(60)
<1> HIDE DEF table
<1>4. table.stack \in Seq(Slot) /\ On(table.stack, table)
  BY <1>1, <1>2, <1>3 DEF On
<1>5. /\ c \in Computation /\ OnlyStack(table, c) /\ c.stack = Append(table.stack, w)
      /\ Len(c.stack) = Len(table.stack) + 1 /\ c.stack[Len(table.stack) + 1] = w
      /\ \A i \in 1..Len(table.stack) : c.stack[i] = table.stack[i]
  BY <1>2, <1>3, PushedType, ZenonT(60)
<1>6. On(stack, c) /\ On(table.stack, c)
  BY <1>1, <1>2, <1>3, <1>4, PushedOn
<1> HIDE DEF c
<1>7. c.stack \in Seq(Slot)
  BY <1>2, <1>4, <1>5
<1>8. Len(c.stack) = Len(stack) + 2 /\ c.stack[Len(stack) + 1] = "table" /\ c.stack[Len(stack) + 2] = w
  BY <1>1, <1>3, <1>5
<1> QED
  BY <1>1, <1>3, <1>4, <1>5, <1>6, <1>7, <1>8 DEF OnlyStack, table, c

\* What is found under the key is in its place.
LEMMA FoundType ==
  ASSUME TypeOK, NEW w \in Plain, NEW v \in Plain
  PROVE  LET table == Pushed(Begin, "table")
             keyed == Pushed(table, w)
             c == lua_gettable(keyed, top(keyed) - 1, v)
         IN  /\ c \in Computation /\ c.out = "true" /\ c.foreign = FALSE
             /\ c.stack # <<>> /\ TopType(c) = v /\ c.stack \in Seq(Slot)
             /\ Len(c.stack) = Len(table.stack) + 1 /\ On(stack, c) /\ On(table.stack, c)
             /\ Len(stack) < Len(c.stack)
<1> DEFINE table == Pushed(Begin, "table")
           keyed == Pushed(table, w)
           at == Len(stack) + 1
           c == lua_gettable(keyed, at, v)
<1>1. stack \in Seq(Slot) /\ Len(stack) \in Nat /\ v \in Slot
  BY StateType DEF Slot
<1>2. /\ table.stack \in Seq(Slot) /\ Len(table.stack) = Len(stack) + 1 /\ On(stack, table)
      /\ keyed \in Computation /\ keyed.out = "true" /\ keyed.foreign = FALSE
      /\ keyed.stack \in Seq(Slot) /\ On(table.stack, keyed)
      /\ Len(keyed.stack) = Len(stack) + 2 /\ keyed.stack[at] = "table"
  BY KeyedType
<1>3. top(keyed) - 1 = at /\ at \in 1..(Len(keyed.stack) - 1)
  BY <1>1, <1>2 DEF top
<1> HIDE DEF table, keyed, at
<1>4. /\ c \in Computation /\ OnlyStack(keyed, c) /\ c.out = "true"
      /\ Len(c.stack) = Len(keyed.stack) /\ c.stack[Len(keyed.stack)] = v
      /\ c.stack # <<>> /\ TopType(c) = v
      /\ \A i \in 1..(Len(keyed.stack) - 1) : c.stack[i] = keyed.stack[i]
  BY <1>2, <1>3, GettableType
<1> HIDE DEF c
<1>5. On(table.stack, c) /\ Len(c.stack) = Len(table.stack) + 1
  BY <1>1, <1>2, <1>4 DEF On
<1>6. On(stack, c) /\ Len(stack) < Len(c.stack)
  BY <1>1, <1>2, <1>5 DEF On
<1>7. c.stack \in Seq(Slot \cup {"handler"}) /\ Len(keyed.stack) \in Nat
  BY <1>2, <1>4 DEF Computation
<1>8. \A i \in 1..Len(c.stack) : c.stack[i] \in Slot
  BY <1>1, <1>2, <1>4, <1>7
<1>9. c.stack \in Seq(Slot)
  BY <1>7, <1>8
<1> QED
  BY <1>2, <1>3, <1>4, <1>5, <1>6, <1>9 DEF OnlyStack, table, keyed, at, c

\* What is set in the table is taken from the stack, and then the table is.
LEMMA StoredType ==
  ASSUME TypeOK, NEW w \in Plain \ {"nil"}, NEW v \in Plain
  PROVE  LET pair == Pushed(Pushed(Pushed(Begin, "table"), w), v)
             c == restore_stack(lua_settable(pair, top(pair) - 2))
         IN  c \in Computation /\ c.out = "true" /\ c.foreign = FALSE /\ c.stack = stack
<1> DEFINE keyed == Pushed(Pushed(Begin, "table"), w)
           pair == Pushed(keyed, v)
           at == Len(stack) + 1
           stored == lua_settable(pair, at)
           c == restore_stack(stored)
<1>1. stack \in Seq(Slot) /\ Len(stack) \in Nat /\ v \in Slot \cup {"handler"}
  BY StateType DEF Slot
<1>2. /\ keyed \in Computation /\ keyed.out = "true" /\ keyed.foreign = FALSE
      /\ On(stack, keyed) /\ Len(keyed.stack) = Len(stack) + 2
      /\ keyed.stack[at] = "table" /\ keyed.stack[Len(stack) + 2] = w
  BY KeyedType
<1> HIDE DEF keyed
<1>3. /\ pair \in Computation /\ OnlyStack(keyed, pair) /\ On(stack, pair)
      /\ Len(pair.stack) = Len(keyed.stack) + 1
      /\ \A i \in 1..Len(keyed.stack) : pair.stack[i] = keyed.stack[i]
  BY <1>1, <1>2, PushedType, PushedOn
<1> HIDE DEF pair
<1>4. /\ top(pair) - 2 = at /\ at \in 1..(Len(pair.stack) - 2) /\ Len(pair.stack) - 1 = Len(stack) + 2
      /\ Len(pair.stack) - 2 = at /\ Len(pair.stack) - 2 \in Len(stack)..Len(pair.stack)
  BY <1>1, <1>2, <1>3 DEF top
<1>5. pair.stack[at] = "table" /\ pair.stack[Len(pair.stack) - 1] # "nil"
  BY <1>1, <1>2, <1>3, <1>4
<1>6. pair.out = "true" /\ pair.foreign = FALSE
  BY <1>2, <1>3 DEF OnlyStack
<1> HIDE DEF at
<1>7. /\ stored \in Computation /\ OnlyStack(pair, stored)
      /\ stored.stack = settop(pair, Len(pair.stack) - 2).stack
  BY <1>3, <1>4, <1>5, <1>6, SettableType
<1>8. On(stack, settop(pair, Len(pair.stack) - 2))
  BY <1>1, <1>3, <1>4, SettopOn
<1> HIDE DEF stored
<1>9. On(stack, stored) /\ stored.out = "true" /\ stored.foreign = FALSE
  BY <1>6, <1>7, <1>8 DEF On, OnlyStack
<1>10. c \in Computation /\ OnlyStack(stored, c) /\ c.stack = stack
  BY <1>7, <1>9, RestoreType
<1> QED
  BY <1>4, <1>9, <1>10 DEF OnlyStack, keyed, pair, at, stored, c

\* A push which throws leaves what was pushed before it.
LEMMA ThrownFine ==
  ASSUME TypeOK, NEW c \in Computation, c.out = "throw", On(stack, c), c.stack \in Seq(Slot),
         NEW op \in {"set", "remove", "table_set_value", "table_at"}
  PROVE  Fine(op, c)
<1>1. IsPrefix(stack, c.stack)
  BY StateType, OnPrefix
<1> QED
  BY <1>1 DEF Fine, Sane, Kept, Reported, Delivers

\* A key and a value are pushed one after the other, or one of them throws.
LEMMA PairType ==
  ASSUME TypeOK, Sound, NEW c \in Computation, c.out = "true", On(stack, c), c.stack \in Seq(Slot),
         NEW k \in Keys[build.throws], NEW v \in Keys[build.throws] \cup {"nil"}
  PROVE  LET pair == push_(push_(c, k), v)
         IN  \/ /\ k \in Plain \ {"nil"} /\ v \in Plain
                /\ pair = Pushed(Pushed(c, k), v)
             \/ /\ pair \in Computation /\ pair.out = "throw"
                /\ On(stack, pair) /\ pair.stack \in Seq(Slot)
<1> DEFINE keyed == push_(c, k)
           pair == push_(keyed, v)
<1>1. build.throws \in BOOLEAN /\ k # "nil" /\ stack \in Seq(Slot)
  BY StackAssumption, StateType DEF TypeOK, Sound
<1>4. k \in Args \cup {"nil"} /\ (k \in Foreign => build.throws)
      /\ v \in Args \cup {"nil"} /\ (v \in Foreign => build.throws)
  BY KeyOf
<1>2. CASE k \in Plain /\ keyed = Pushed(c, k)
  <2>1. /\ keyed \in Computation /\ OnlyStack(c, keyed) /\ On(stack, keyed)
        /\ keyed.stack = Append(c.stack, k)
    BY <1>1, <1>2, PushedType, PushedOn DEF Slot
  <2> HIDE DEF keyed
  <2>2. keyed.out = "true" /\ keyed.stack \in Seq(Slot)
    BY <1>2, <2>1 DEF OnlyStack, Slot
  <2>3. CASE v \in Plain /\ pair = Pushed(keyed, v)
    BY <1>1, <1>2, <2>3 DEF keyed
  <2>4. CASE pair \in Computation /\ pair.out = "throw" /\ pair.stack = keyed.stack
    <3>1. On(stack, pair) /\ pair.stack \in Seq(Slot)
      BY <2>1, <2>2, <2>4 DEF On
    <3> QED
      BY <2>4, <3>1 DEF keyed
  <2> QED
    BY <1>4, <2>1, <2>2, <2>3, <2>4, PushKey
<1>3. CASE keyed \in Computation /\ keyed.out = "throw" /\ keyed.stack = c.stack
  <2> HIDE DEF keyed
  <2>1. pair = keyed
    BY <1>3 DEF push_
  <2>2. On(stack, pair) /\ pair.stack \in Seq(Slot)
    BY <1>3, <2>1 DEF On
  <2> QED
    BY <1>3, <2>1, <2>2 DEF keyed
<1> QED
  BY <1>2, <1>3, <1>4, PushKey

\* A Table without a table is not written.
LEMMA NoTable ==
  ASSUME TypeOK, NEW t \in Tables, get_table(Begin, t).out = "false", NEW op \in {"set", "remove"}
  PROVE  Fine(op, get_table(Begin, t))
<1> DEFINE c == get_table(Begin, t)
<1>1. t \in {"none", "table", "other"} /\ (Restorable => t # "other")
  BY StackAssumption DEF Restorable
<1>2. c \in Computation /\ c.out = "false" /\ c.foreign = FALSE /\ c.stack \in Seq(Slot)
      /\ (t # "other" => c.stack = stack)
  BY <1>1, GetTable
<1> HIDE DEF c
<1>3. Fine(op, c)
  BY <1>1, <1>2 DEF Fine, Sane, Kept, Reported, Delivers
<1> QED
  BY <1>3 DEF c

LEMMA Writes ==
  ASSUME TypeOK, NEW w \in Plain \ {"nil"}, NEW v \in Plain, NEW op \in {"set", "remove"}
  PROVE  LET pair == Pushed(Pushed(Pushed(Begin, "table"), w), v)
         IN  Fine(op, restore_stack(lua_settable(pair, top(pair) - 2)))
<1> DEFINE pair == Pushed(Pushed(Pushed(Begin, "table"), w), v)
           c == restore_stack(lua_settable(pair, top(pair) - 2))
<1>1. c \in Computation /\ c.out = "true" /\ c.foreign = FALSE /\ c.stack = stack
  BY StoredType
<1>2. stack \in Seq(Slot)
  BY StateType
<1> HIDE DEF c, pair
<1>3. Fine(op, c)
  BY <1>1, <1>2 DEF Fine, Sane, Kept, Reported, Delivers
<1> QED
  BY <1>3 DEF c, pair

LEMMA SetFine ==
  ASSUME TypeOK, Sound, NEW t \in Tables, NEW k \in Keys[build.throws],
         NEW v \in Keys[build.throws] \cup {"nil"}
  PROVE  LET table == get_table(Begin, t)
             pair == push_(push_(table, k), v)
             stored == lua_settable(pair, top(pair) - 2)
         IN  Fine("set", IF table.out = "false" THEN table ELSE restore_stack(stored))
<1> DEFINE table == get_table(Begin, t)
           pair == push_(push_(table, k), v)
           c == restore_stack(lua_settable(pair, top(pair) - 2))
<1>1. table.out \in {"true", "false"} /\ (table.out = "true" => table = Pushed(Begin, "table"))
  BY GetTable, StackAssumption
<1>2. CASE table.out = "false"
  BY <1>2, NoTable
<1>3. CASE table.out = "true"
  <2>1. /\ table = Pushed(Begin, "table") /\ table \in Computation
        /\ On(stack, table) /\ table.stack \in Seq(Slot)
    BY <1>1, <1>3, KeyedType DEF Plain
  <2>2. CASE k \in Plain \ {"nil"} /\ v \in Plain /\ pair = Pushed(Pushed(table, k), v)
    BY <1>3, <2>1, <2>2, Writes
  <2>3. CASE pair \in Computation /\ pair.out = "throw" /\ On(stack, pair) /\ pair.stack \in Seq(Slot)
    <3> HIDE DEF pair
    <3>1. c = pair
      BY <2>3 DEF lua_settable, restore_stack
    <3>2. Fine("set", c)
      BY <2>3, <3>1, ThrownFine
    <3> QED
      BY <1>3, <3>2 DEF pair
  <2> HIDE DEF table
  <2> QED
    BY <1>3, <2>1, <2>2, <2>3, PairType DEF table
<1> QED
  BY <1>1, <1>2, <1>3

LEMMA RemoveFine ==
  ASSUME TypeOK, Sound, NEW t \in Tables, NEW k \in Keys[build.throws]
  PROVE  LET table == get_table(Begin, t)
             keyed == push_(table, k)
             pair == IF keyed.out = "true" THEN Pushed(keyed, "nil") ELSE keyed
             stored == lua_settable(pair, top(pair) - 2)
         IN  Fine("remove", IF table.out = "false" THEN table ELSE restore_stack(stored))
<1> DEFINE table == get_table(Begin, t)
           keyed == push_(table, k)
           pair == IF keyed.out = "true" THEN Pushed(keyed, "nil") ELSE keyed
           c == restore_stack(lua_settable(pair, top(pair) - 2))
<1>1. table.out \in {"true", "false"} /\ (table.out = "true" => table = Pushed(Begin, "table"))
  BY GetTable, StackAssumption
<1>2. CASE table.out = "false"
  BY <1>2, NoTable
<1>3. CASE table.out = "true"
  <2>1. /\ table = Pushed(Begin, "table") /\ table \in Computation
        /\ On(stack, table) /\ table.stack \in Seq(Slot)
    BY <1>1, <1>3, KeyedType DEF Plain
  <2>2. k # "nil" /\ "nil" \in Plain
    BY StackAssumption DEF TypeOK, Sound, Plain
  <2> HIDE DEF table
  <2>3. CASE k \in Plain /\ keyed = Pushed(table, k)
    <3>1. keyed.out = "true"
      BY <1>3, <2>1, <2>3, PushedType DEF OnlyStack, Slot
    <3>2. pair = Pushed(Pushed(table, k), "nil")
      BY <2>3, <3>1
    <3> HIDE DEF pair
    <3>3. Fine("remove", c)
      BY <2>1, <2>2, <2>3, <3>2, Writes
    <3> QED
      BY <1>3, <3>3 DEF table, pair
  <2>4. CASE keyed \in Computation /\ keyed.out = "throw" /\ keyed.stack = table.stack
    <3>1. pair = keyed /\ On(stack, keyed) /\ keyed.stack \in Seq(Slot)
      BY <2>1, <2>4 DEF On
    <3> HIDE DEF pair
    <3>2. c = pair
      BY <2>4, <3>1 DEF lua_settable, restore_stack
    <3>3. Fine("remove", c)
      BY <2>4, <3>1, <3>2, ThrownFine
    <3> QED
      BY <1>3, <3>3 DEF table, pair
  <2> QED
    BY <1>3, <2>1, <2>3, <2>4, KeyOf, PushKey DEF table
<1> QED
  BY <1>1, <1>2, <1>3

\* The stack is restored, and it goes on with another outcome.
LEMMA RestoredWith ==
  ASSUME TypeOK, NEW c \in Computation, On(stack, c), NEW o \in {"true", "false", "throw"}
  PROVE  LET d == [restore_stack([c EXCEPT !.out = "true"]) EXCEPT !.out = o]
         IN  /\ d \in Computation /\ d.stack = stack /\ d.out = o
             /\ d.got = c.got /\ d.foreign = c.foreign
<1> DEFINE b == [c EXCEPT !.out = "true"]
           r == restore_stack(b)
           d == [r EXCEPT !.out = o]
<1>1. b \in Computation /\ b.stack = c.stack /\ b.out = "true" /\ b.got = c.got /\ b.foreign = c.foreign
  BY DEF Computation
<1> HIDE DEF b
<1>2. On(stack, b)
  BY <1>1 DEF On
<1>3. r \in Computation /\ OnlyStack(b, r) /\ r.stack = stack
  BY <1>1, <1>2, RestoreType
<1> HIDE DEF r
<1>4. d \in Computation /\ d.stack = stack /\ d.out = o /\ d.got = r.got /\ d.foreign = r.foreign
  BY <1>3 DEF Computation
<1> QED
  BY <1>1, <1>3, <1>4 DEF OnlyStack, b, r

LEMMA RestoredFalse ==
  ASSUME TypeOK, NEW c \in Computation, On(stack, c), c.out \in {"true", "false"}
  PROVE  LET d == [restore_stack(c) EXCEPT !.out = "false"]
         IN  d \in Computation /\ d.stack = stack /\ d.out = "false"
<1> DEFINE r == restore_stack(c)
<1>1. r \in Computation /\ r.stack = stack
  BY RestoreType
<1> HIDE DEF r
<1>2. LET d == [r EXCEPT !.out = "false"] IN d \in Computation /\ d.stack = stack /\ d.out = "false"
  BY <1>1 DEF Computation
<1> QED
  BY <1>2 DEF r

LEMMA Looked ==
  ASSUME TypeOK, NEW c \in Computation, NEW op \in {"safe_at", "try_at"},
         Restorable => c.stack = stack, c.stack \in Seq(Slot), c.out \in {"true", "false", "throw"},
         c.foreign => c.out # "true", build.throws /\ c.out = "true" => c.got
  PROVE  Fine(op, c)
BY DEF Fine, Sane, Kept, Reported, Delivers

\* The lookup which throws.
LEMMA TryAtType ==
  ASSUME TypeOK, Sound, build.throws, NEW t \in Tables, NEW k \in Args \ {"nil"},
         NEW type \in PullTypes, NEW v \in Plain
  PROVE  LET c == try_at(get_table(Begin, t), k, type, v)
         IN  /\ c \in Computation /\ c.stack = stack /\ c.out \in {"true", "throw"}
             /\ (c.out = "true" => c.got) /\ (c.foreign => c.out = "throw")
<1> DEFINE table == get_table(Begin, t)
           keyed == push_(table, k)
           found == lua_gettable(keyed, top(keyed) - 1, v)
           pulled == pull(found, type)
           thrown(d) == [restore_stack([d EXCEPT !.out = "true"]) EXCEPT !.out = "throw"]
           c == try_at(table, k, type, v)
<1>1. t \in {"none", "table", "other"} /\ type \in Pulled /\ k \in Args \cup {"nil"} /\ stack \in Seq(Slot)
  BY StackAssumption, StateType DEF Pulled
<1>2. c = IF table.out = "false" THEN thrown(table)
          ELSE IF keyed.out = "throw" THEN thrown(keyed)
          ELSE IF found.out = "lost" THEN found
          ELSE IF TopType(found) = "nil" THEN thrown(found)
          ELSE IF pulled.out = "throw" THEN thrown(pulled)
          ELSE IF pulled.out = "lost" THEN pulled
          ELSE restore_stack([pulled EXCEPT !.out = "true"])
  BY DEF try_at
<1>3. /\ table \in Computation /\ On(stack, table) /\ table.out \in {"true", "false"}
      /\ (table.out = "true" => table = Pushed(Begin, "table"))
  BY <1>1, GetTable
<1>4. \A d \in Computation : On(stack, d) =>
        thrown(d) \in Computation /\ thrown(d).stack = stack /\ thrown(d).out = "throw"
  BY RestoredWith
<1> HIDE DEF thrown, c
<1>5. CASE table.out = "false"
  <2>1. c = thrown(table)
    BY <1>2, <1>5
  <2> QED
    BY <1>3, <1>4, <2>1 DEF c
<1>6. CASE table.out = "true" /\ k \in Foreign
  <2> HIDE DEF table
  <2>1. keyed = push(table, k) /\ k \notin Plain
    BY <1>1, <1>3, <1>6, PushKey DEF Foreign, Plain
  <2>2. push(table, k) \in Computation /\ On(stack, push(table, k)) /\ push(table, k).out # "true"
        /\ push(table, k).out \in {"true", "false", "throw"}
    BY <1>1, <1>3, <1>6, <2>1, PushType
  <2>3. push(table, k) = [Report(table, "unrelated") EXCEPT !.foreign = TRUE]
    BY <1>1, <1>3, <1>6, <2>1, PushCases DEF Foreign
  <2>4. push(table, k).out = "throw"
    BY <1>3, <2>3, ReportType DEF Errors, Computation
  <2> HIDE DEF keyed
  <2>5. c = thrown(keyed)
    BY <1>2, <1>6, <2>1, <2>4
  <2> QED
    BY <1>4, <2>1, <2>2, <2>5 DEF c, table
<1>7. CASE table.out = "true" /\ k \notin Foreign
  <2>1. table = Pushed(Begin, "table")
    BY <1>3, <1>7
  <2>2. k \in Plain /\ keyed = Pushed(Pushed(Begin, "table"), k)
    <3> HIDE DEF table
    <3> QED
      BY <1>1, <1>3, <1>7, <2>1, PushKey
  <2> HIDE DEF keyed
  <2>3. keyed.out = "true"
    BY <2>2, KeyedType
  <2>4. /\ found \in Computation /\ found.out = "true" /\ found.foreign = FALSE
        /\ found.stack # <<>> /\ TopType(found) = v /\ On(stack, found)
        /\ Len(stack) < Len(found.stack)
    BY <2>2, FoundType
  <2> HIDE DEF found, table
  <2>5. /\ pulled \in Computation /\ pulled.foreign = FALSE
        /\ pulled.out # "true" => pulled.out = "throw"
        /\ pulled.out = "true" => pulled.got
        /\ On(stack, pulled)
    BY <1>1, <2>4, PullType, PullOn
  <2> HIDE DEF pulled
  <2>6. CASE v = "nil"
    <3>1. c = thrown(found)
      BY <1>2, <1>7, <2>3, <2>4, <2>6
    <3> QED
      BY <1>4, <2>4, <3>1 DEF c, table
  <2>7. CASE v # "nil" /\ pulled.out # "true"
    <3>1. c = thrown(pulled)
      BY <1>2, <1>7, <2>3, <2>4, <2>5, <2>7
    <3> QED
      BY <1>4, <2>5, <3>1 DEF c, table
  <2>8. CASE v # "nil" /\ pulled.out = "true"
    <3>1. c = restore_stack([pulled EXCEPT !.out = "true"])
      BY <1>2, <1>7, <2>3, <2>4, <2>8
    <3>2. [pulled EXCEPT !.out = "true"] = pulled
      BY <2>5, <2>8 DEF Computation
    <3>3. c \in Computation /\ OnlyStack(pulled, c) /\ c.stack = stack
      BY <2>5, <2>8, <3>1, <3>2, RestoreType
    <3> QED
      BY <2>5, <2>8, <3>3 DEF OnlyStack, c, table
  <2> QED
    BY <2>6, <2>7, <2>8
<1> QED
  BY <1>3, <1>5, <1>6, <1>7

\* The lookup of the build which does not throw.
LEMMA SafeAtStoreType ==
  ASSUME TypeOK, Sound, ~build.throws, NEW t \in Tables, NEW k \in Args \ {"nil"},
         NEW type \in PullTypes, NEW v \in Plain
  PROVE  LET c == safe_at_Store(get_table(Begin, t), k, type, v)
         IN  /\ c \in Computation /\ c.stack \in Seq(Slot) /\ c.out \in {"true", "false"}
             /\ Restorable => c.stack = stack
             /\ c.foreign => c.out = "false"
<1> DEFINE table == get_table(Begin, t)
           keyed == push(table, k)
           found == lua_gettable(keyed, top(keyed) - 1, v)
           pulled == pull(found, type)
           c == safe_at_Store(table, k, type, v)
<1>1. t \in {"none", "table", "other"} /\ type \in Pulled /\ stack \in Seq(Slot)
      /\ (Restorable => t # "other")
  BY StackAssumption, StateType DEF Pulled, Restorable
<1>2. c = IF table.out = "false" THEN table
          ELSE IF keyed.out = "false" THEN [restore_stack(keyed) EXCEPT !.out = "false"]
          ELSE IF found.out = "lost" THEN found
          ELSE IF TopType(found) = "nil" THEN [restore_stack(found) EXCEPT !.out = "false"]
          ELSE IF pulled.out = "lost" THEN pulled
          ELSE restore_stack([pulled EXCEPT !.out = "true"])
  BY DEF safe_at_Store
<1>3. /\ table \in Computation /\ On(stack, table) /\ table.out \in {"true", "false"}
      /\ table.foreign = FALSE /\ table.stack \in Seq(Slot)
      /\ (table.out = "true" => table = Pushed(Begin, "table"))
      /\ (table.out = "false" /\ t # "other" => table.stack = stack)
  BY <1>1, GetTable
<1> HIDE DEF c
<1>4. CASE table.out = "false"
  <2>1. c = table
    BY <1>2, <1>4
  <2> HIDE DEF table
  <2> QED
    BY <1>1, <1>3, <1>4, <2>1 DEF c, table
<1>5. CASE table.out = "true"
  <2>1. table = Pushed(Begin, "table")
    BY <1>3, <1>5
  <2> HIDE DEF table
  <2>2. /\ keyed \in Computation /\ On(stack, keyed) /\ keyed.out \in {"true", "false"}
        /\ keyed.out = "true" => k \in Plain /\ keyed = Pushed(table, k)
    BY <1>1, <1>3, <1>5, PushType
  <2> HIDE DEF keyed
  <2>3. CASE keyed.out = "false"
    <3>1. c = [restore_stack(keyed) EXCEPT !.out = "false"]
      BY <1>2, <1>5, <2>3
    <3>2. c \in Computation /\ c.stack = stack /\ c.out = "false"
      BY <2>2, <2>3, <3>1, RestoredFalse
    <3> QED
      BY <1>1, <3>2 DEF c, table
  <2>4. CASE keyed.out = "true"
    <3>1. /\ found \in Computation /\ found.out = "true" /\ found.foreign = FALSE
          /\ found.stack # <<>> /\ TopType(found) = v /\ On(stack, found)
          /\ Len(stack) < Len(found.stack)
      BY <2>1, <2>2, <2>4, FoundType
    <3> HIDE DEF found
    <3>2. /\ pulled \in Computation /\ pulled.foreign = FALSE
          /\ pulled.out \in {"true", "false"}
          /\ On(stack, pulled)
      BY <1>1, <3>1, PullType, PullOn
    <3> HIDE DEF pulled
    <3>3. CASE v = "nil"
      <4>1. c = [restore_stack(found) EXCEPT !.out = "false"]
        BY <1>2, <1>5, <2>4, <3>1, <3>3
      <4>2. c \in Computation /\ c.stack = stack /\ c.out = "false"
        BY <3>1, <4>1, RestoredFalse
      <4> QED
        BY <1>1, <4>2 DEF c, table
    <3>4. CASE v # "nil"
      <4> DEFINE b == [pulled EXCEPT !.out = "true"]
      <4>1. c = restore_stack(b)
        BY <1>2, <1>5, <2>4, <3>1, <3>2, <3>4
      <4>2. b \in Computation /\ b.out = "true" /\ b.stack = pulled.stack /\ b.foreign = FALSE
        BY <3>2 DEF Computation
      <4> HIDE DEF b
      <4>3. On(stack, b)
        BY <3>2, <4>2 DEF On
      <4>4. c \in Computation /\ OnlyStack(b, c) /\ c.stack = stack
        BY <4>1, <4>2, <4>3, RestoreType
      <4> QED
        BY <1>1, <4>2, <4>4 DEF OnlyStack, c, table
    <3> QED
      BY <3>3, <3>4
  <2> QED
    BY <2>2, <2>3, <2>4
<1> QED
  BY <1>3, <1>4, <1>5

LEMMA TryAtFine ==
  ASSUME TypeOK, Sound, build.throws, NEW t \in Tables, NEW k \in Args \ {"nil"},
         NEW type \in PullTypes, NEW v \in Plain
  PROVE  Fine("try_at", try_at(get_table(Begin, t), k, type, v))
<1> DEFINE c == try_at(get_table(Begin, t), k, type, v)
<1>1. /\ c \in Computation /\ c.stack = stack /\ c.out \in {"true", "throw"}
      /\ (c.out = "true" => c.got) /\ (c.foreign => c.out = "throw")
  BY TryAtType
<1>2. stack \in Seq(Slot)
  BY StateType
<1> HIDE DEF c
<1>3. Fine("try_at", c)
  BY <1>1, <1>2, Looked
<1> QED
  BY <1>3 DEF c

LEMMA SafeAtFine ==
  ASSUME TypeOK, Sound, NEW t \in Tables, NEW k \in Args \ {"nil"},
         NEW type \in PullTypes, NEW v \in Plain
  PROVE  Fine("safe_at", safe_at(get_table(Begin, t), k, type, v))
<1> DEFINE table == get_table(Begin, t)
           c == safe_at(table, k, type, v)
<1>1. CASE ~build.throws
  <2> DEFINE s == safe_at_Store(table, k, type, v)
  <2>1. /\ s \in Computation /\ s.stack \in Seq(Slot) /\ s.out \in {"true", "false"}
        /\ Restorable => s.stack = stack
        /\ s.foreign => s.out = "false"
    BY <1>1, SafeAtStoreType
  <2>2. c = s
    BY <1>1 DEF safe_at
  <2> HIDE DEF s, c
  <2>3. Fine("safe_at", c)
    BY <1>1, <2>1, <2>2, Looked
  <2> QED
    BY <2>3 DEF c
<1>2. CASE build.throws
  <2> DEFINE tried == try_at(table, k, type, v)
  <2>1. /\ tried \in Computation /\ tried.stack = stack /\ tried.out \in {"true", "throw"}
        /\ (tried.out = "true" => tried.got) /\ (tried.foreign => tried.out = "throw")
    BY <1>2, TryAtType
  <2>2. c = IF tried.out = "throw" THEN [tried EXCEPT !.out = "false"] ELSE tried
    BY <1>2 DEF safe_at
  <2>3. stack \in Seq(Slot)
    BY StateType
  <2> HIDE DEF tried, c
  <2>4. /\ c \in Computation /\ c.stack = stack /\ c.out \in {"true", "false"}
        /\ (c.out = "true" => c.got) /\ (c.foreign => c.out = "false")
    BY <2>1, <2>2 DEF Computation
  <2>5. Fine("safe_at", c)
    BY <2>3, <2>4, Looked
  <2> QED
    BY <2>5 DEF c
<1> QED
  BY <1>1, <1>2

\* at, of a table which has a value of the type under the key
LEMMA AtFine ==
  ASSUME TypeOK, Sound, NEW k \in Keys[build.throws] \cap Plain, NEW type \in PullTypes
  PROVE  LET keyed == push(get_table(Begin, "table"), k)
             found == lua_gettable(keyed, top(keyed) - 1, type)
         IN  Fine("at", pop(pull(found, type), 1))
<1> DEFINE table == Pushed(Begin, "table")
           keyed == push(table, k)
           found == lua_gettable(keyed, top(keyed) - 1, type)
           pulled == pull(found, type)
           c == pop(pulled, 1)
<1>1. k \in Args /\ k \in Plain /\ type \in Pulled /\ type \in Plain /\ stack \in Seq(Slot)
      /\ Len(stack) \in Nat /\ type # "nil"
  <2>1. type \in Pulled /\ type \in Plain /\ type # "nil"
    BY StackAssumption DEF Pulled, Plain
  <2>2. k \in Args /\ k \in Plain
    BY StackAssumption, KeyOf DEF TypeOK
  <2> QED
    BY <2>1, <2>2, StateType
<1>2. get_table(Begin, "table") = table
  BY DEF get_table
<1>3. /\ table \in Computation /\ table.out = "true" /\ On(stack, table) /\ table.stack \in Seq(Slot)
      /\ Len(table.stack) = Len(stack) + 1
  BY <1>1, KeyedType
<1>4. keyed = Pushed(table, k)
  <2> HIDE DEF table
  <2> QED
    BY <1>1, <1>3, PushType
<1> HIDE DEF keyed
<1>5. /\ found \in Computation /\ found.out = "true" /\ found.foreign = FALSE
      /\ found.stack # <<>> /\ TopType(found) = type /\ found.stack \in Seq(Slot)
      /\ Len(found.stack) = Len(table.stack) + 1 /\ On(stack, found)
      /\ On(table.stack, found)
  BY <1>1, <1>4, FoundType
<1> HIDE DEF found, table
<1>6. /\ pulled \in Computation /\ pulled.foreign = FALSE /\ pulled.out = "true"
      /\ IF type = "light" THEN pulled.stack = found.stack
         ELSE pulled.stack = settop(found, Len(found.stack) - 1).stack
  <2>1. /\ pulled \in Computation /\ pulled.foreign = found.foreign
        /\ pulled.out = "true" =>
             IF TopType(found) \in {"nil", "light"} THEN pulled.stack = found.stack
             ELSE pulled.stack = settop(found, Len(found.stack) - 1).stack
        /\ pulled.out # "true" => found.stack = <<>> \/ TopType(found) # type
    BY <1>1, <1>5, PullType
  <2> HIDE DEF pulled
  <2> QED
    BY <1>1, <1>5, <2>1
<1>7. On(table.stack, pulled) /\ pulled.stack \in Seq(Slot)
  BY <1>1, <1>3, <1>5, PullOn
<1> HIDE DEF pulled
<1>8. On(stack, pulled) /\ Len(pulled.stack) \in Nat /\ Len(stack) < Len(pulled.stack)
  BY <1>1, <1>3, <1>6, <1>7 DEF On, Computation
<1> DEFINE n == Len(pulled.stack) - 1
<1>9. n \in 0..Len(pulled.stack) /\ 1 \in 0..Len(pulled.stack) /\ c = settop(pulled, n)
  BY <1>1, <1>6, <1>8, PopType
<1>10. c \in Computation /\ OnlyStack(pulled, c) /\ c.stack \in Seq(Slot)
  <2> HIDE DEF c, n
  <2> QED
    BY <1>6, <1>7, <1>9, SettopType, SettopSlot
<1>11. type # "light" => c.stack = stack
  <2> SUFFICES ASSUME type # "light" PROVE c.stack = stack
    OBVIOUS
  <2>1. Len(found.stack) - 1 \in 0..Len(found.stack) /\ Len(found.stack) - 1 = Len(stack) + 1
    BY <1>1, <1>3, <1>5
  <2>2. Len(pulled.stack) = Len(stack) + 1
    BY <1>5, <1>6, <2>1, SettopType
  <2>3. n = Len(stack)
    BY <1>1, <2>2
  <2> HIDE DEF c, n
  <2> QED
    BY <1>1, <1>6, <1>8, <1>9, <2>3, SettopBase
<1>12. Restorable => type # "light"
  BY DEF Restorable
<1> HIDE DEF c
<1>13. Fine("at", c)
  BY <1>6, <1>10, <1>11, <1>12 DEF Fine, Sane, Kept, Reported, Delivers, OnlyStack
<1> QED
  BY <1>2, <1>13 DEF c, pulled, found, keyed

LEMMA IndexType ==
  ASSUME TypeOK, NEW i \in -Len(stack)..Len(stack), i # 0
  PROVE  /\ absindex(Begin, i) \in 1..Len(stack) /\ Callee(i) = stack[absindex(Begin, i)]
         /\ Callee(i) \in Slot
<1>1. Len(stack) \in Nat /\ \A j \in 1..Len(stack) : stack[j] \in Slot
  BY StateType
<1>2. absindex(Begin, i) = IF i < 0 THEN Len(stack) + 1 + i ELSE i
  BY BeginType DEF absindex, top
<1>3. absindex(Begin, i) \in 1..Len(stack)
  BY <1>1, <1>2
<1> QED
  BY <1>1, <1>3 DEF Callee

\* A key is above the stack of the caller.
LEMMA KeyType ==
  ASSUME TypeOK, NEW w \in Plain
  PROVE  LET c == Pushed(Begin, w)
         IN  /\ c \in Computation /\ c.out = "true" /\ c.foreign = FALSE
             /\ c.stack = Append(stack, w) /\ c.stack \in Seq(Slot) /\ On(stack, c)
             /\ Len(c.stack) = Len(stack) + 1 /\ c.stack[Len(stack) + 1] = w
             /\ \A i \in 1..Len(stack) : c.stack[i] = stack[i]
<1> DEFINE c == Pushed(Begin, w)
<1>1. Begin \in Computation /\ Begin.out = "true" /\ On(stack, Begin) /\ stack \in Seq(Slot)
      /\ Begin.stack = stack /\ Begin.foreign = FALSE /\ Len(stack) \in Nat /\ w \in Slot
  BY BeginType, StateType DEF Slot
<1>2. /\ c \in Computation /\ OnlyStack(Begin, c) /\ c.stack = Append(stack, w)
      /\ Len(c.stack) = Len(stack) + 1 /\ c.stack[Len(stack) + 1] = w
      /\ \A i \in 1..Len(stack) : c.stack[i] = stack[i]
  BY <1>1, PushedType, ZenonT(60)
<1>4. On(stack, c)
  BY <1>1, PushedOn
<1> HIDE DEF c
<1>3. c.stack \in Seq(Slot)
  BY <1>1, <1>2
<1> QED
  BY <1>1, <1>2, <1>3, <1>4 DEF OnlyStack, c

\* The table is found at the relative index which has moved by n values.
LEMMA MovedIndex ==
  ASSUME TypeOK, NEW i \in -Len(stack)..Len(stack), i # 0, NEW n \in {1, 2},
         NEW c, Len(c.stack) = Len(stack) + n
  PROVE  absindex(c, IF i < 0 THEN i - n ELSE i) = absindex(Begin, i)
<1>1. Len(stack) \in Nat /\ Begin.stack = stack
  BY StateType, BeginType
<1> QED
  BY <1>1 DEF absindex, top

LEMMA SetValueFine ==
  ASSUME TypeOK, Sound, NEW i \in -Len(stack)..Len(stack), i # 0, NEW k \in Keys[build.throws],
         NEW v \in Keys[build.throws] \cup {"nil"}, Callee(i) = "table"
  PROVE  LET pair == push_(push_(Begin, k), v)
         IN  Fine("table_set_value", lua_settable(pair, absindex(pair, IF i < 0 THEN i - 2 ELSE i)))
<1> DEFINE at == absindex(Begin, i)
           pair == push_(push_(Begin, k), v)
           moved == absindex(pair, IF i < 0 THEN i - 2 ELSE i)
           c == lua_settable(pair, moved)
<1>1. at \in 1..Len(stack) /\ stack[at] = "table" /\ stack \in Seq(Slot) /\ Len(stack) \in Nat
  BY IndexType, StateType
<1> HIDE DEF at
<1>2. Begin \in Computation /\ Begin.out = "true" /\ On(stack, Begin) /\ Begin.stack \in Seq(Slot)
  BY BeginType, StateType
<1>3. CASE k \in Plain \ {"nil"} /\ v \in Plain /\ pair = Pushed(Pushed(Begin, k), v)
  <2> DEFINE keyed == Pushed(Begin, k)
  <2>1. /\ keyed \in Computation /\ keyed.out = "true" /\ keyed.foreign = FALSE
        /\ On(stack, keyed) /\ Len(keyed.stack) = Len(stack) + 1 /\ keyed.stack[Len(stack) + 1] = k
        /\ \A j \in 1..Len(stack) : keyed.stack[j] = stack[j]
    BY <1>3, KeyType
  <2>2. pair = Pushed(keyed, v) /\ v \in Slot \cup {"handler"}
    BY <1>3 DEF Slot
  <2> HIDE DEF keyed, pair
  <2>3. /\ pair \in Computation /\ OnlyStack(keyed, pair) /\ On(stack, pair)
        /\ Len(pair.stack) = Len(keyed.stack) + 1
        /\ \A j \in 1..Len(keyed.stack) : pair.stack[j] = keyed.stack[j]
    BY <1>1, <2>1, <2>2, PushedType, PushedOn
  <2>4. /\ at \in 1..(Len(pair.stack) - 2) /\ pair.stack[at] = "table"
        /\ pair.stack[Len(pair.stack) - 1] # "nil" /\ Len(pair.stack) - 2 = Len(stack)
    BY <1>1, <1>3, <2>1, <2>3, SMTT(60)
  <2>5. pair.out = "true" /\ pair.foreign = FALSE
    BY <2>1, <2>3 DEF OnlyStack
  <2>6. moved = at
    <3>1. Len(pair.stack) = Len(stack) + 2
      BY <1>1, <2>1, <2>3
    <3> QED
      BY <3>1, MovedIndex DEF at
  <2> HIDE DEF moved
  <2>7. c \in Computation /\ OnlyStack(pair, c) /\ c.stack = settop(pair, Len(pair.stack) - 2).stack
    BY <2>3, <2>4, <2>5, <2>6, SettableType
  <2>8. c.stack = stack
    BY <1>1, <2>3, <2>4, <2>7, SettopBase
  <2> HIDE DEF c
  <2>9. Fine("table_set_value", c)
    BY <1>1, <2>5, <2>7, <2>8 DEF Fine, Sane, Kept, Reported, Delivers, OnlyStack
  <2> QED
    BY <2>9 DEF c, moved, pair
<1>4. CASE pair \in Computation /\ pair.out = "throw" /\ On(stack, pair) /\ pair.stack \in Seq(Slot)
  <2> HIDE DEF pair, moved
  <2>1. c = pair
    BY <1>4 DEF lua_settable
  <2>2. Fine("table_set_value", c)
    BY <1>4, <2>1, ThrownFine
  <2> QED
    BY <2>2 DEF moved, pair
<1> QED
  BY <1>2, <1>3, <1>4, PairType

LEMMA TableAtFine ==
  ASSUME TypeOK, Sound, NEW i \in -Len(stack)..Len(stack), i # 0, NEW k \in Keys[build.throws],
         NEW type \in PullTypes, NEW v \in Plain, Callee(i) = "table"
  PROVE  LET keyed == push_(Begin, k)
             found == lua_gettable(keyed, absindex(keyed, IF i < 0 THEN i - 1 ELSE i), v)
         IN  Fine("table_at", IF found.out = "true" THEN pull(found, type) ELSE found)
<1> DEFINE at == absindex(Begin, i)
           keyed == push_(Begin, k)
           moved == absindex(keyed, IF i < 0 THEN i - 1 ELSE i)
           found == lua_gettable(keyed, moved, v)
           c == pull(found, type)
<1>1. at \in 1..Len(stack) /\ stack[at] = "table" /\ stack \in Seq(Slot) /\ Len(stack) \in Nat
      /\ type \in Pulled /\ v \in Slot
  BY IndexType, StateType, StackAssumption DEF Pulled, Slot
<1> HIDE DEF at
<1>2. Begin \in Computation /\ Begin.out = "true" /\ On(stack, Begin) /\ Begin.stack = stack
  BY BeginType
<1>3. CASE k \in Plain /\ keyed = Pushed(Begin, k)
  <2> HIDE DEF keyed
  <2>1. /\ keyed \in Computation /\ keyed.out = "true" /\ keyed.foreign = FALSE
        /\ Len(keyed.stack) = Len(stack) + 1 /\ keyed.stack[Len(stack) + 1] = k
        /\ \A j \in 1..Len(stack) : keyed.stack[j] = stack[j]
    BY <1>3, KeyType
  <2>2. moved = at
    BY <2>1, MovedIndex DEF at
  <2> HIDE DEF moved
  <2>3. found = lua_gettable(keyed, at, v) /\ at \in 1..(Len(keyed.stack) - 1) /\ keyed.stack[at] = "table"
    BY <1>1, <2>1, <2>2
  <2> HIDE DEF found
  <2>4. /\ found \in Computation /\ OnlyStack(keyed, found) /\ found.out = "true"
        /\ Len(found.stack) = Len(keyed.stack) /\ found.stack[Len(keyed.stack)] = v
        /\ \A j \in 1..(Len(keyed.stack) - 1) : found.stack[j] = keyed.stack[j]
    BY <2>1, <2>3, GettableType, SMTT(60)
  <2>5. On(stack, found) /\ Len(stack) < Len(found.stack) /\ found.foreign = FALSE
    BY <1>1, <2>1, <2>4 DEF On, OnlyStack
  <2>6. found.stack \in Seq(Slot)
    <3>1. found.stack \in Seq(Slot \cup {"handler"})
      BY <2>4 DEF Computation
    <3>2. \A j \in 1..Len(found.stack) : found.stack[j] \in Slot
      BY <1>1, <2>1, <2>4, SMTT(60)
    <3> QED
      BY <3>1, <3>2
  <2>7. c \in Computation /\ c.foreign = FALSE /\ c.out # "lost"
    BY <1>1, <2>4, <2>5, PullType
  <2>8. On(stack, c) /\ c.stack \in Seq(Slot)
    BY <1>1, <2>4, <2>5, <2>6, PullOn
  <2> HIDE DEF c
  <2>9. IsPrefix(stack, c.stack)
    BY <1>1, <2>7, <2>8, OnPrefix
  <2>10. Fine("table_at", c)
    BY <2>7, <2>8, <2>9 DEF Fine, Sane, Kept, Reported, Delivers
  <2> QED
    BY <2>4, <2>10 DEF c, found, moved, keyed
<1>4. CASE keyed \in Computation /\ keyed.out = "throw" /\ keyed.stack = Begin.stack
  <2>1. On(stack, keyed) /\ keyed.stack \in Seq(Slot)
    BY <1>1, <1>2, <1>4 DEF On
  <2> HIDE DEF keyed, moved
  <2>2. found = keyed
    BY <1>4 DEF lua_gettable
  <2> HIDE DEF found
  <2>3. Fine("table_at", found) /\ found.out # "true"
    BY <1>4, <2>1, <2>2, ThrownFine
  <2> QED
    BY <2>3 DEF found, moved, keyed
<1> QED
  BY <1>2, <1>3, <1>4, KeyOf, PushKey

LEMMA SetGlobalFine ==
  ASSUME TypeOK, Sound, NEW a \in Args
  PROVE  LET value == push(Begin, a)
         IN  Fine("set_global", IF value.out = "true" THEN pop(value, 1) ELSE value)
<1> DEFINE value == push(Begin, a)
           c == IF value.out = "true" THEN pop(value, 1) ELSE value
<1>1. Begin \in Computation /\ Begin.out = "true" /\ On(stack, Begin) /\ stack \in Seq(Slot)
      /\ Begin.stack = stack /\ Begin.foreign = FALSE /\ Len(stack) \in Nat
  BY BeginType, StateType
<1>2. /\ value \in Computation /\ On(stack, value)
      /\ value.out \in {"true", "false", "throw"}
      /\ value.out = "true" => a \in Plain /\ value = Pushed(Begin, a)
      /\ value.out # "true" => value.stack = stack
      /\ value.out = "throw" => build.throws
      /\ value.out = "false" => ~build.throws /\ value.error = "unrelated"
      /\ value.foreign => value.out # "true"
  BY <1>1, PushType
<1>3. CASE value.out = "true"
  <2>1. Len(value.stack) = Len(stack) + 1
    BY <1>2, <1>3, KeyType
  <2>2. 1 \in 0..Len(value.stack) /\ Len(value.stack) - 1 = Len(stack)
    BY <1>1, <2>1
  <2> HIDE DEF value
  <2>3. c = settop(value, Len(stack)) /\ Len(stack) \in 0..Len(value.stack)
    BY <1>2, <1>3, <2>2, PopType
  <2>4. c \in Computation /\ OnlyStack(value, c) /\ c.stack = stack
    BY <1>1, <1>2, <2>3, SettopType, SettopBase
  <2> HIDE DEF c
  <2>5. Fine("set_global", c)
    BY <1>1, <1>2, <1>3, <2>4 DEF Fine, Sane, Kept, Reported, Delivers, OnlyStack
  <2> QED
    BY <2>5 DEF c, value
<1>4. CASE value.out # "true"
  <2>1. c = value
    BY <1>4
  <2> HIDE DEF value, c
  <2>2. Fine("set_global", c)
    BY <1>1, <1>2, <1>4, <2>1 DEF Fine, Sane, Kept, Reported, Delivers
  <2> QED
    BY <2>2 DEF c, value
<1> QED
  BY <1>3, <1>4

LEMMA GetGlobalFine ==
  ASSUME TypeOK, Sound, NEW type \in PullTypes, NEW v \in Plain
  PROVE  Fine("get_global", pull(Pushed(Begin, v), type))
<1> DEFINE found == Pushed(Begin, v)
           c == pull(found, type)
<1>1. stack \in Seq(Slot) /\ Len(stack) \in Nat /\ type \in Pulled
  BY StateType, StackAssumption DEF Pulled
<1>2. /\ found \in Computation /\ found.out = "true" /\ found.foreign = FALSE
      /\ found.stack = Append(stack, v) /\ found.stack \in Seq(Slot) /\ On(stack, found)
      /\ Len(found.stack) = Len(stack) + 1 /\ found.stack[Len(stack) + 1] = v
  BY KeyType
<1> HIDE DEF found
<1>3. found.stack # <<>> /\ Len(stack) < Len(found.stack) /\ Len(found.stack) - 1 = Len(stack)
  BY <1>1, <1>2
<1>4. TopType(found) = v
  <2>1. Last(found.stack) = v
    BY <1>2 DEF Last
  <2> QED
    BY <1>3, <2>1 DEF TopType, Type, Plain
<1>5. settop(found, Len(found.stack) - 1).stack = stack
  BY <1>1, <1>2, <1>3, SettopBase
<1>6. /\ c \in Computation /\ c.foreign = FALSE
      /\ c.out = "true" => /\ IF v \in {"nil", "light"} THEN c.stack = found.stack ELSE c.stack = stack
                           /\ v = "light" => type = "light"
      /\ c.out # "true" => /\ c.out = IF build.throws THEN "throw" ELSE "false"
                           /\ ~build.throws => c.error = "type"
  BY <1>1, <1>2, <1>4, <1>5, PullType
<1>7. On(stack, c) /\ c.stack \in Seq(Slot)
  BY <1>1, <1>2, <1>3, PullOn
<1> HIDE DEF c
<1>8. IsPrefix(stack, c.stack) /\ c.out # "lost"
  BY <1>1, <1>6, <1>7, OnPrefix
<1>9. Restorable /\ c.out = "true" => c.stack \in {stack, Append(stack, "nil")}
  BY <1>2, <1>6 DEF Restorable
<1>10. Fine("get_global", c)
  BY <1>6, <1>7, <1>8, <1>9 DEF Fine, Sane, Kept, Reported, Delivers
<1> QED
  BY <1>10 DEF c, found

\* An operation which ends well, with the stack of its caller.
LEMMA EndsWell ==
  ASSUME TypeOK, NEW c \in Computation, c.out = "true", c.foreign = FALSE, c.stack = stack,
         NEW op \in {"valid", "new_table", "ipairs", "pairs", "traverse", "reset"}
  PROVE  Fine(op, c)
<1>1. stack \in Seq(Slot)
  BY StateType
<1> QED
  BY <1>1 DEF Fine, Sane, Kept, Reported, Delivers

LEMMA ValidFine ==
  ASSUME TypeOK, NEW t \in Tables
  PROVE  Fine("valid", restore_stack(get_table(Begin, t)))
<1> DEFINE table == get_table(Begin, t)
           c == restore_stack(table)
<1>1. t \in {"none", "table", "other"} /\ stack \in Seq(Slot)
  BY StackAssumption, StateType
<1>2. table \in Computation /\ On(stack, table) /\ table.out \in {"true", "false"}
      /\ table.foreign = FALSE
  BY <1>1, GetTable
<1>3. c \in Computation /\ OnlyStack(table, c) /\ c.stack = stack
  BY <1>2, RestoreType
<1> HIDE DEF c, table
<1>4. Fine("valid", c)
  BY <1>1, <1>2, <1>3 DEF Fine, Sane, Kept, Reported, Delivers, OnlyStack
<1> QED
  BY <1>4 DEF c, table

LEMMA NewTableFine ==
  ASSUME TypeOK, Sound
  PROVE  Fine("new_table", pullRef(Pushed(Begin, "table"), "table"))
<1> DEFINE made == Pushed(Begin, "table")
           c == pull(made, "table")
<1>1. stack \in Seq(Slot) /\ Len(stack) \in Nat /\ "table" \in Pulled /\ "table" \in Plain
  BY StateType DEF Pulled, Plain
<1>2. /\ made \in Computation /\ made.out = "true" /\ made.foreign = FALSE /\ On(stack, made)
      /\ Len(made.stack) = Len(stack) + 1 /\ made.stack[Len(stack) + 1] = "table"
  BY <1>1, KeyType
<1> HIDE DEF made
<1>3. made.stack # <<>> /\ Len(made.stack) - 1 = Len(stack)
  BY <1>1, <1>2
<1>4. TopType(made) = "table"
  <2>1. Last(made.stack) = "table"
    BY <1>2 DEF Last
  <2> QED
    BY <1>3, <2>1 DEF TopType, Type
<1>5. settop(made, Len(made.stack) - 1).stack = stack
  BY <1>1, <1>2, <1>3, SettopBase
<1>6. c \in Computation /\ c.foreign = FALSE /\ c.out = "true" /\ c.stack = stack
  BY <1>1, <1>2, <1>3, <1>4, <1>5, PullType
<1>7. c = pullRef(made, "table")
  BY DEF pull
<1> HIDE DEF c
<1>8. Fine("new_table", c)
  BY <1>6, EndsWell
<1> QED
  BY <1>7, <1>8 DEF made

LEMMA IPairsFine ==
  ASSUME TypeOK, NEW t, NEW n \in Nat, NEW left \in Seq(Slot)
  PROVE  Fine("ipairs", IF t = "table" THEN ipairs(get_table(Begin, t), n, left) ELSE Begin)
<1> DEFINE table == Pushed(Begin, "table")
           round == IF n = 0 THEN table ELSE [table EXCEPT !.stack = @ \o left]
           c == settop(round, top(table) - 1)
<1>1. stack \in Seq(Slot) /\ Len(stack) \in Nat /\ "table" \in Plain
  BY StateType DEF Plain
<1>2. /\ table \in Computation /\ table.out = "true" /\ table.foreign = FALSE /\ On(stack, table)
      /\ table.stack \in Seq(Slot) /\ Len(table.stack) = Len(stack) + 1
      /\ \A i \in 1..Len(stack) : table.stack[i] = stack[i]
  BY <1>1, KeyType
<1>3. CASE t = "table"
  <2>1. get_table(Begin, t) = table
    BY <1>3 DEF get_table
  <2>2. ipairs(table, n, left) = c
    BY DEF ipairs
  <2>3. top(table) - 1 = Len(stack)
    BY <1>1, <1>2 DEF top
  <2> HIDE DEF table
  <2>4. /\ table.stack \o left \in Seq(Slot \cup {"handler"})
        /\ Len(table.stack \o left) >= Len(table.stack)
        /\ \A i \in 1..Len(table.stack) : (table.stack \o left)[i] = table.stack[i]
    BY <1>2
  <2>5. /\ round \in Computation /\ OnlyStack(table, round)
        /\ round.stack = IF n = 0 THEN table.stack ELSE table.stack \o left
    BY <1>2, <2>4 DEF Computation, OnlyStack
  <2> HIDE DEF round
  <2>6. On(stack, round) /\ Len(stack) \in 0..Len(round.stack)
    BY <1>1, <1>2, <2>4, <2>5 DEF On
  <2>7. c \in Computation /\ OnlyStack(round, c) /\ c.stack = stack
    BY <1>1, <2>3, <2>5, <2>6, SettopType, SettopBase
  <2> HIDE DEF c
  <2>8. Fine("ipairs", c)
    BY <1>2, <2>5, <2>7, EndsWell DEF OnlyStack
  <2> QED
    BY <1>3, <2>1, <2>2, <2>8
<1>4. CASE t # "table"
  <2>1. Fine("ipairs", Begin)
    BY BeginType, EndsWell
  <2> QED
    BY <1>4, <2>1
<1> QED
  BY <1>3, <1>4

\* The computations between two rounds: the table, and above it a key.
Rounds(table) ==
  {d \in Computation : OnlyStack(table, d) /\ On(table.stack, d) /\ Len(d.stack) = Len(table.stack) + 1}

LEMMA NextType ==
  ASSUME NEW table \in Computation, NEW d \in Rounds(table)
  PROVE  LET c == lua_next(d, Len(table.stack))
         IN  /\ c \in Computation /\ OnlyStack(table, c) /\ On(table.stack, c)
             /\ Len(c.stack) = Len(table.stack)
<1> DEFINE n == Len(table.stack)
           c == lua_next(d, n)
<1>1. /\ d \in Computation /\ OnlyStack(table, d) /\ On(table.stack, d) /\ Len(d.stack) = n + 1
      /\ n \in Nat /\ table.stack \in Seq(Slot \cup {"handler"})
  BY DEF Rounds, Computation
<1>2. c = settop(d, n) /\ n \in 0..Len(d.stack) /\ n \in n..Len(d.stack)
  BY <1>1 DEF lua_next, top
<1>3. settop(d, n) \in Computation /\ OnlyStack(d, settop(d, n)) /\ Len(settop(d, n).stack) = n
  BY <1>1, <1>2, SettopType
<1>4. On(table.stack, settop(d, n))
  BY <1>1, <1>2, SettopOn
<1> QED
  BY <1>1, <1>2, <1>3, <1>4 DEF OnlyStack

\* The body, and what is popped after it, leave the next key.
LEMMA RoundType ==
  ASSUME NEW table \in Computation, NEW d \in Rounds(table), NEW left, NEW pops,
         \/ left = <<>> /\ pops = 0
         \/ left = <<"number">> /\ pops = 1
  PROVE  LET q == lua_next(d, Len(table.stack))
         IN  pop([q EXCEPT !.stack = @ \o <<"number">> \o left], pops) \in Rounds(table)
<1> DEFINE n == Len(table.stack)
           q == lua_next(d, n)
           p == [q EXCEPT !.stack = @ \o <<"number">> \o left]
           c == pop(p, pops)
<1>1. q \in Computation /\ OnlyStack(table, q) /\ On(table.stack, q) /\ Len(q.stack) = n
  BY NextType
<1>2. n \in Nat /\ pops \in {0, 1} /\ table.stack \in Seq(Slot \cup {"handler"})
  BY DEF Computation
<1> DEFINE s == q.stack \o <<"number">> \o left
<1>3. /\ s \in Seq(Slot \cup {"handler"}) /\ Len(s) = n + 1 + pops
      /\ \A i \in 1..n : s[i] = q.stack[i]
  <2>1. q.stack \in Seq(Slot \cup {"handler"}) /\ "number" \in Slot
    BY <1>1 DEF Computation, Slot, Plain
  <2>2. CASE left = <<>> /\ pops = 0
    <3>1. s = Append(q.stack, "number")
      BY <2>1, <2>2
    <3> QED
      BY <1>1, <1>2, <2>1, <2>2, <3>1
  <2>3. CASE left = <<"number">> /\ pops = 1
    <3>1. s = Append(Append(q.stack, "number"), "number")
      BY <2>1, <2>3
    <3> QED
      BY <1>1, <1>2, <2>1, <2>3, <3>1
  <2> QED
    BY <2>2, <2>3
<1>4. p = [q EXCEPT !.stack = s]
  OBVIOUS
<1> HIDE DEF s, p, q
<1>5. p \in Computation /\ p.stack = s /\ OnlyStack(q, p)
  BY <1>1, <1>3, <1>4 DEF Computation, OnlyStack
<1>6. On(table.stack, p)
  BY <1>1, <1>2, <1>3, <1>5 DEF On
<1>7. pops \in 0..Len(p.stack) /\ Len(p.stack) - pops = n + 1
      /\ n + 1 \in 0..Len(p.stack) /\ n + 1 \in n..Len(p.stack)
  BY <1>2, <1>3, <1>5
<1>8. c = settop(p, n + 1)
  BY <1>5, <1>7, PopType
<1> HIDE DEF c
<1>9. c \in Computation /\ OnlyStack(p, c) /\ Len(c.stack) = n + 1
  BY <1>5, <1>7, <1>8, SettopType
<1>10. On(table.stack, c)
  BY <1>2, <1>5, <1>6, <1>7, <1>8, SettopOn
<1>11. OnlyStack(table, c)
  BY <1>1, <1>5, <1>9 DEF OnlyStack
<1>12. c \in Rounds(table)
  BY <1>9, <1>10, <1>11 DEF Rounds
<1> QED
  BY <1>12 DEF c, p, q

\* A traversal of any number of rounds takes the table off the stack again.
LEMMA PairsType ==
  ASSUME TypeOK, NEW n \in Nat, NEW left, NEW pops,
         \/ left = <<>> /\ pops = 0
         \/ left = <<"number">> /\ pops = 1
  PROVE  LET c == pairs(Pushed(Begin, "table"), n, left, pops)
         IN  c \in Computation /\ c.out = "true" /\ c.foreign = FALSE /\ c.stack = stack
<1> DEFINE table == Pushed(Begin, "table")
           index == Len(table.stack)
           body(d) == [d EXCEPT !.stack = @ \o <<"number">> \o left]
           next(d) == pop(body(lua_next(d, index)), pops)
           first == Pushed(table, "nil")
           G == [x \in (1..n) \X Rounds(table) |-> next(x[2])]
           round[i \in 0 .. n] ==
             IF i = 0 THEN first ELSE pop(body(lua_next(round[i - 1], index)), pops)
           q == lua_next(round[n], index)
           c == pop(q, 1)
<1>1. stack \in Seq(Slot) /\ Len(stack) \in Nat /\ "table" \in Plain /\ "nil" \in Plain
      /\ "nil" \in Slot \cup {"handler"}
  BY StateType DEF Slot, Plain
<1>2. /\ table \in Computation /\ table.out = "true" /\ table.foreign = FALSE /\ On(stack, table)
      /\ index = Len(stack) + 1
      /\ \A i \in 1..Len(stack) : table.stack[i] = stack[i]
  BY <1>1, KeyType
<1>3. pairs(table, n, left, pops) = c
  BY DEF pairs, top
<1> HIDE DEF table
<1>4. first \in Rounds(table)
  <2>1. /\ first \in Computation /\ OnlyStack(table, first) /\ Len(first.stack) = Len(table.stack) + 1
        /\ \A i \in 1..Len(table.stack) : first.stack[i] = table.stack[i]
    BY <1>1, <1>2, PushedType
  <2> HIDE DEF first
  <2>2. On(table.stack, first)
    BY <1>1, <1>2, <2>1 DEF On
  <2> QED
    BY <2>1, <2>2 DEF Rounds
<1>5. \A d \in Rounds(table) : next(d) \in Rounds(table)
  BY <1>2, RoundType
<1> HIDE DEF first, next, index
<1>6. G \in [(1..n) \X Rounds(table) -> Rounds(table)]
  BY <1>5
<1>7. PICK f \in [0..n -> Rounds(table)] :
           f[0] = first /\ \A i \in 1..n : f[i] = G[<<i, f[i - 1]>>]
  <2>1. \E f : Unfolds(f, n, Rounds(table), first, G)
    <3> HIDE DEF G
    <3> QED
      BY <1>4, <1>6, RangeRecursion
  <2> QED
    BY <2>1 DEF Unfolds
<1>8. \A i \in 1..n : f[i] = next(f[i - 1])
  <2> SUFFICES ASSUME NEW i \in 1..n
               PROVE  f[i] = next(f[i - 1])
    OBVIOUS
  <2>1. f[i - 1] \in Rounds(table)
    OBVIOUS
  <2> QED
    BY <1>7, <2>1
<1>9. f = [i \in 0 .. n |-> IF i = 0 THEN first ELSE next(f[i - 1])]
  <2>1. \A i \in 0..n : i = 0 \/ i \in 1..n
    OBVIOUS
  <2>2. \A i \in 0..n : f[i] = IF i = 0 THEN first ELSE next(f[i - 1])
    BY <1>7, <1>8, <2>1
  <2> QED
    BY <1>7, <2>2
<1>10. round = [i \in 0 .. n |-> IF i = 0 THEN first ELSE next(round[i - 1])]
  <2>1. f = [i \in 0 .. n |-> IF i = 0 THEN first ELSE pop(body(lua_next(f[i - 1], index)), pops)]
    BY <1>9 DEF next
  <2>2. round = [i \in 0 .. n |-> IF i = 0 THEN first ELSE pop(body(lua_next(round[i - 1], index)), pops)]
    BY <2>1 DEF round
  <2> HIDE DEF round
  <2> QED
    BY <2>2 DEF next
<1> HIDE DEF round
<1>11. round[0] = first /\ \A i \in 1..n : round[i] = next(round[i - 1])
  BY <1>10
<1> DEFINE S == {i \in 0..n : round[i] \in Rounds(table)}
<1>12. 0 \in S /\ \A i \in 1..n : i - 1 \in S => i \in S
  BY <1>4, <1>5, <1>11
<1>13. n \in S
  <2>1. 0..n \subseteq S
    <3> HIDE DEF S
    <3> QED
      BY <1>12, RangeInduction
  <2> QED
    BY <2>1
<1>14. /\ q \in Computation /\ OnlyStack(table, q) /\ On(table.stack, q)
       /\ Len(q.stack) = Len(table.stack)
  BY <1>2, <1>13, NextType DEF index
<1> HIDE DEF q
<1>15. On(stack, q) /\ Len(q.stack) = Len(stack) + 1
  BY <1>1, <1>2, <1>14 DEF On, index
<1>16. 1 \in 0..Len(q.stack) /\ Len(q.stack) - 1 = Len(stack) /\ Len(stack) \in 0..Len(q.stack)
  BY <1>1, <1>15
<1>17. c = settop(q, Len(stack))
  BY <1>14, <1>16, PopType
<1> HIDE DEF c
<1>18. c \in Computation /\ OnlyStack(q, c) /\ c.stack = stack
  BY <1>1, <1>14, <1>15, <1>16, <1>17, SettopType, SettopBase
<1> QED
  BY <1>2, <1>3, <1>14, <1>18 DEF OnlyStack, table

LEMMA TraversalFine ==
  ASSUME TypeOK, NEW t, NEW n \in Nat, NEW left, NEW pops, NEW op \in {"pairs", "traverse"},
         \/ left = <<>> /\ pops = 0
         \/ left = <<"number">> /\ pops = 1
  PROVE  Fine(op, IF t = "table" THEN pairs(get_table(Begin, t), n, left, pops) ELSE Begin)
<1> DEFINE c == pairs(Pushed(Begin, "table"), n, left, pops)
<1>1. CASE t = "table"
  <2>1. get_table(Begin, t) = Pushed(Begin, "table")
    BY <1>1 DEF get_table
  <2>2. c \in Computation /\ c.out = "true" /\ c.foreign = FALSE /\ c.stack = stack
    BY PairsType
  <2> HIDE DEF c
  <2>3. Fine(op, c)
    BY <2>2, EndsWell
  <2> QED
    BY <1>1, <2>1, <2>3 DEF c
<1>2. CASE t # "table"
  <2>1. Fine(op, Begin)
    BY BeginType, EndsWell
  <2> QED
    BY <1>2, <2>1
<1> QED
  BY <1>1, <1>2

LEMMA ResetFine ==
  ASSUME TypeOK
  PROVE  Fine("reset", [Begin EXCEPT !.error = "none"])
<1> DEFINE c == [Begin EXCEPT !.error = "none"]
<1>1. Begin \in Computation /\ Begin.stack = stack /\ Begin.out = "true" /\ Begin.foreign = FALSE
  BY BeginType
<1>2. c \in Computation /\ c.stack = stack /\ c.out = "true" /\ c.foreign = FALSE
  BY <1>1 DEF Computation, Errors
<1> HIDE DEF c
<1>3. Fine("reset", c)
  BY <1>2, EndsWell
<1> QED
  BY <1>3 DEF c

LEMMA ExhaustedFine ==
  ASSUME TypeOK
  PROVE  /\ Fine("call", Report(Begin, "stack"))
         /\ ~build.throws => Fine("exhausted", [Begin EXCEPT !.out = "false"])
<1>1. Begin \in Computation /\ Begin.stack = stack /\ Begin.out = "true" /\ Begin.foreign = FALSE
      /\ stack \in Seq(Slot)
  BY BeginType, StateType
<1>2. Fine("call", Report(Begin, "stack"))
  <2> DEFINE c == Report(Begin, "stack")
  <2>1. /\ c \in Computation /\ c.stack = stack /\ c.foreign = FALSE
        /\ c.out = IF build.throws THEN "throw" ELSE "false"
        /\ c.error = IF build.throws THEN Begin.error ELSE "stack"
    BY <1>1, ReportType DEF Errors
  <2> HIDE DEF c
  <2>2. Fine("call", c)
    BY <1>1, <2>1 DEF Fine, Sane, Kept, Reported, Delivers
  <2> QED
    BY <2>2 DEF c
<1>3. Fine("exhausted", [Begin EXCEPT !.out = "false"])
  <2> DEFINE c == [Begin EXCEPT !.out = "false"]
  <2>1. c \in Computation /\ c.stack = stack /\ c.foreign = FALSE /\ c.out = "false"
    BY <1>1 DEF Computation
  <2> HIDE DEF c
  <2>2. Fine("exhausted", c)
    BY <1>1, <2>1 DEF Fine, Sane, Kept, Reported, Delivers
  <2> QED
    BY <2>2 DEF c
<1> QED
  BY <1>2, <1>3

-----------------------------------------------------------------------------
(* Parameters, calls and chunks.                                           *)

\* i parameters have been pushed above what c has, or one has been reported.
Pushing(c, d, i) ==
  /\ d \in Computation /\ On(c.stack, d) /\ d.out \in {"true", "false", "throw"}
  /\ d.out = "true" => Len(d.stack) = Len(c.stack) + i
  /\ d.out = "throw" => build.throws
  /\ d.out = "false" => ~build.throws /\ d.error = "unrelated"
  /\ d.foreign => c.foreign \/ d.out # "true"

LEMMA PushingStep ==
  ASSUME TypeOK, Sound, NEW c \in Computation, NEW i \in Nat \ {0}, NEW d, Pushing(c, d, i - 1),
         NEW a \in Args
  PROVE  Pushing(c, IF d.out = "true" THEN push(d, a) ELSE d, i)
<1>1. CASE d.out # "true"
  BY <1>1 DEF Pushing
<1>2. CASE d.out = "true"
  <2> DEFINE p == push(d, a)
  <2>1. d \in Computation /\ On(c.stack, d) /\ Len(d.stack) = Len(c.stack) + i - 1
        /\ (d.foreign => c.foreign)
    BY <1>2 DEF Pushing, Computation
  <2>2. c.stack \in Seq(Slot \cup {"handler"}) /\ Len(c.stack) \in Nat
    BY DEF Computation
  <2>3. /\ p \in Computation /\ On(c.stack, p)
        /\ p.out \in {"true", "false", "throw"}
        /\ p.out = "true" => a \in Plain /\ p = Pushed(d, a)
        /\ p.out = "throw" => build.throws
        /\ p.out = "false" => ~build.throws /\ p.error = "unrelated"
        /\ p.foreign => d.foreign \/ p.out # "true"
    BY <1>2, <2>1, <2>2, PushType
  <2>4. p.out = "true" => Len(p.stack) = Len(c.stack) + i
    <3> SUFFICES ASSUME p.out = "true" PROVE Len(p.stack) = Len(c.stack) + i
      OBVIOUS
    <3>1. Len(Pushed(d, a).stack) = Len(d.stack) + 1
      BY <2>1, <2>3, PushedType DEF Slot
    <3> QED
      BY <2>1, <2>2, <2>3, <3>1
  <2> HIDE DEF p
  <2>5. Pushing(c, p, i)
    BY <2>1, <2>3, <2>4 DEF Pushing
  <2> QED
    BY <1>2, <2>5 DEF p
<1> QED
  BY <1>1, <1>2

LEMMA PushAllType ==
  ASSUME TypeOK, Sound, NEW c \in Computation, c.out = "true", NEW n \in Nat, NEW ps \in [1..n -> Args]
  PROVE  Pushing(c, pushAll(c, ps), n) /\ Len(ps) = n
<1> DEFINE next(d, i) == IF d.out = "true" THEN push(d, ps[i]) ELSE d
           G == [x \in (1..n) \X Computation |-> next(x[2], x[1])]
           after[i \in 0..n] ==
             IF i = 0 THEN c
             ELSE IF after[i - 1].out = "true" THEN push(after[i - 1], ps[i]) ELSE after[i - 1]
<1>1. Len(ps) = n
  OBVIOUS
<1>2. pushAll(c, ps) = after[n]
  BY <1>1 DEF pushAll
<1>3. G \in [(1..n) \X Computation -> Computation]
  <2>1. \A d \in Computation : \A i \in 1..n : next(d, i) \in Computation
    <3> SUFFICES ASSUME NEW d \in Computation, NEW i \in 1..n, d.out = "true"
                 PROVE  push(d, ps[i]) \in Computation
      OBVIOUS
    <3>1. d.stack \in Seq(Slot \cup {"handler"}) /\ On(d.stack, d)
      BY DEF Computation, On
    <3> QED
      BY <3>1, PushType
  <2> HIDE DEF next
  <2> QED
    BY <2>1
<1>4. PICK f \in [0..n -> Computation] :
           f[0] = c /\ \A i \in 1..n : f[i] = G[<<i, f[i - 1]>>]
  <2>1. \E f : Unfolds(f, n, Computation, c, G)
    <3> HIDE DEF G
    <3> QED
      BY <1>3, RangeRecursion
  <2> QED
    BY <2>1 DEF Unfolds
<1>5. \A i \in 1..n : f[i] = next(f[i - 1], i)
  <2> SUFFICES ASSUME NEW i \in 1..n
               PROVE  f[i] = next(f[i - 1], i)
    OBVIOUS
  <2>1. f[i - 1] \in Computation
    OBVIOUS
  <2> HIDE DEF next
  <2> QED
    BY <1>4, <2>1
<1>6. f = [i \in 0..n |-> IF i = 0 THEN c
                          ELSE IF f[i - 1].out = "true" THEN push(f[i - 1], ps[i]) ELSE f[i - 1]]
  <2>1. \A i \in 0..n : i = 0 \/ i \in 1..n
    OBVIOUS
  <2>2. \A i \in 0..n :
          f[i] = IF i = 0 THEN c
                 ELSE IF f[i - 1].out = "true" THEN push(f[i - 1], ps[i]) ELSE f[i - 1]
    BY <1>4, <1>5, <2>1
  <2> QED
    BY <2>2
<1>7. after = [i \in 0..n |-> IF i = 0 THEN c
                              ELSE IF after[i - 1].out = "true" THEN push(after[i - 1], ps[i])
                                   ELSE after[i - 1]]
  BY <1>6 DEF after
<1>8. after[0] = c /\ \A i \in 1..n : after[i] = next(after[i - 1], i)
  <2>1. 0 \in 0..n /\ \A i \in 1..n : i \in 0..n /\ i # 0
    OBVIOUS
  <2> HIDE DEF after
  <2> QED
    BY <1>7, <2>1
<1> HIDE DEF after, next
<1> DEFINE S == {i \in 0..n : Pushing(c, after[i], i)}
<1>9. 0 \in S
  <2>1. Pushing(c, c, 0)
    BY DEF Pushing, On, Computation
  <2> QED
    BY <1>8, <2>1
<1>10. ASSUME NEW i \in 1..n, i - 1 \in S
       PROVE  i \in S
  <2>1. i \in 0..n /\ i \in Nat \ {0} /\ Pushing(c, after[i - 1], i - 1) /\ ps[i] \in Args
    BY <1>10
  <2>2. Pushing(c, next(after[i - 1], i), i)
    BY <2>1, PushingStep DEF next
  <2> QED
    BY <1>8, <2>1, <2>2
<1>11. 0..n \subseteq S
  <2> HIDE DEF S
  <2> QED
    BY <1>9, <1>10, RangeInduction
<1> QED
  BY <1>1, <1>2, <1>11

\* The results of a function which was called, or a message, are above base,
\* which is what was below the function.
Answer(base, c, d, result) ==
  /\ d \in Computation /\ OnlyStack(c, d) /\ On(base, d)
  /\ \A i \in (Len(base) + 1)..Len(d.stack) : d.stack[i] \in Slot
  /\ result \in {"ok", "run"} \cup LuaFailures
  /\ result # "ok" => Len(d.stack) = Len(base) + 1

LEMMA OutcomeType ==
  ASSUME NEW r \in Outcomes
  PROVE  /\ r.result \in {"ok"} \cup LuaFailures
         /\ r.result = "ok" => r.values \in Seq(Slot)
<1>1. CASE r \in [result : LuaFailures \ {"syntax"}, values : {<<>>}]
  <2>1. "ok" \notin LuaFailures
    BY StackAssumption
  <2> QED
    BY <1>1, <2>1
<1>2. CASE r \in [result : {"ok"}, values : UNION {[1..n -> {"number"}] : n \in 0..MaxResults}]
  <2>1. r.result = "ok" /\ r.values \in UNION {[1..n -> {"number"}] : n \in 0..MaxResults}
    BY <1>2
  <2>2. PICK n \in 0..MaxResults : r.values \in [1..n -> {"number"}]
    BY <2>1
  <2>3. n \in Nat /\ "number" \in Slot
    BY StackAssumption DEF Slot, Plain
  <2>4. r.values \in Seq(Slot)
    BY <2>2, <2>3
  <2> QED
    BY <2>1, <2>4
<1> QED
  BY <1>1, <1>2 DEF Outcomes

LEMMA PcallType ==
  ASSUME NEW c \in Computation, c.out = "true", NEW base \in Seq(Slot \cup {"handler"}), On(base, c),
         NEW n \in Nat, Len(c.stack) = Len(base) + 1 + n, NEW r \in Outcomes
  PROVE  LET d == pcall(c, n, r)
         IN  Answer(base, c, d.c, d.result)
<1> DEFINE at == top(c) - n
           below == SubSeq(c.stack, 1, at - 1)
           d == pcall(c, n, r)
<1>1. /\ c.stack \in Seq(Slot \cup {"handler"}) /\ Len(base) \in Nat /\ at = Len(base) + 1
      /\ \A i \in 1..Len(base) : c.stack[i] = base[i]
  BY DEF Computation, On, top
<1>2. below = base
  BY <1>1
<1> HIDE DEF at, below
<1>3. d = IF at < 1 THEN [c |-> Lost(c), result |-> "ok"]
          ELSE IF Type(c.stack[at]) # "function" \/ r.result # "ok"
          THEN [c |-> [c EXCEPT !.stack = Append(below, "message")],
                result |-> IF Type(c.stack[at]) # "function" THEN "run" ELSE r.result]
          ELSE [c |-> [c EXCEPT !.stack = below \o r.values], result |-> "ok"]
  BY DEF pcall, at, below
<1> HIDE DEF d
<1>4. CASE Type(c.stack[at]) # "function" \/ r.result # "ok"
  <2> DEFINE s == Append(base, "message")
  <2>1. d.c = [c EXCEPT !.stack = s]
        /\ d.result = IF Type(c.stack[at]) # "function" THEN "run" ELSE r.result
    BY <1>1, <1>2, <1>3, <1>4
  <2>2. d.result \in {"ok", "run"} \cup LuaFailures
    BY <2>1, OutcomeType
  <2>3. /\ s \in Seq(Slot \cup {"handler"}) /\ Len(s) = Len(base) + 1
        /\ s[Len(base) + 1] = "message" /\ "message" \in Slot
        /\ \A i \in 1..Len(base) : s[i] = base[i]
    BY <1>1 DEF Slot
  <2> HIDE DEF s
  <2>4. d.c \in Computation /\ OnlyStack(c, d.c) /\ d.c.stack = s
    BY <2>1, <2>3 DEF Computation, OnlyStack
  <2>5. On(base, d.c) /\ \A i \in (Len(base) + 1)..Len(s) : s[i] \in Slot
    BY <1>1, <2>3, <2>4 DEF On
  <2>6. Answer(base, c, d.c, d.result)
    BY <2>2, <2>3, <2>4, <2>5 DEF Answer
  <2> QED
    BY <2>6 DEF d
<1>5. CASE ~(Type(c.stack[at]) # "function" \/ r.result # "ok")
  <2> DEFINE s == base \o r.values
  <2>1. d.c = [c EXCEPT !.stack = s] /\ d.result = "ok"
    BY <1>1, <1>2, <1>3, <1>5
  <2>2. r.values \in Seq(Slot)
    BY <1>5, OutcomeType
  <2>3. /\ s \in Seq(Slot \cup {"handler"}) /\ Len(s) >= Len(base)
        /\ \A i \in 1..Len(base) : s[i] = base[i]
    BY <1>1, <2>2
  <2>4. \A i \in (Len(base) + 1)..Len(s) : s[i] \in Slot
    <3> SUFFICES ASSUME NEW i \in (Len(base) + 1)..Len(s) PROVE s[i] \in Slot
      OBVIOUS
    <3>1. i - Len(base) \in 1..Len(r.values) /\ s[i] = r.values[i - Len(base)]
      BY <1>1, <2>2
    <3> QED
      BY <2>2, <3>1
  <2> HIDE DEF s
  <2>5. d.c \in Computation /\ OnlyStack(c, d.c) /\ d.c.stack = s
    BY <2>1, <2>3 DEF Computation, OnlyStack
  <2>6. On(base, d.c)
    BY <1>1, <2>3, <2>5 DEF On
  <2>7. Answer(base, c, d.c, d.result)
    BY <2>1, <2>4, <2>5, <2>6 DEF Answer
  <2> QED
    BY <2>7 DEF d
<1> QED
  BY <1>4, <1>5

\* A call which has succeeded, or has failed and said so.
Checked(c) ==
  /\ c \in Computation /\ On(stack, c) /\ c.stack \in Seq(Slot)
  /\ c.out \in {"true", "false", "throw"} /\ c.foreign = FALSE
  /\ Ordinary /\ c.out # "true" =>
       c.stack = stack /\ IF build.throws THEN c.out = "throw" ELSE c.error # "none"

LEMMA CheckedFine ==
  ASSUME TypeOK, NEW c, Checked(c), NEW op \in {"call", "load", "run"}
  PROVE  Fine(op, c)
<1>1. stack \in Seq(Slot) /\ (Restorable => Ordinary)
  BY StateType DEF Restorable
<1>2. c \in Computation /\ On(stack, c)
  BY DEF Checked
<1>3. IsPrefix(stack, c.stack)
  BY <1>1, <1>2, OnPrefix
<1> QED
  BY <1>1, <1>3 DEF Checked, Fine, Sane, Kept, Reported, Delivers

LEMMA CheckType ==
  ASSUME TypeOK, NEW d \in Computation, On(stack, d), d.stack \in Seq(Slot), d.out = "true",
         d.foreign = FALSE, NEW result \in {"ok", "run"} \cup LuaFailures,
         result # "ok" => Len(d.stack) = Len(stack) + 1
  PROVE  Checked(check_result(d, result)) /\ (result = "ok" => check_result(d, result) = d)
<1> DEFINE c == check_result(d, result)
<1>1. stack \in Seq(Slot) /\ Len(stack) \in Nat
  BY StateType
<1>2. CASE result = "ok"
  BY <1>2 DEF check_result, Checked
<1>3. CASE result # "ok" /\ result = (IF build.throws THEN "gc" ELSE "mem")
  <2>1. c = [d EXCEPT !.out = "false"]
    BY <1>3 DEF check_result
  <2>2. ~Ordinary
    BY <1>3 DEF Ordinary
  <2> HIDE DEF c
  <2>3. c \in Computation /\ c.stack = d.stack /\ c.out = "false" /\ c.foreign = FALSE
    BY <2>1 DEF Computation
  <2>4. On(stack, c)
    BY <2>3 DEF On
  <2> QED
    BY <1>3, <2>2, <2>3, <2>4 DEF Checked, c
<1>4. CASE result # "ok" /\ result # (IF build.throws THEN "gc" ELSE "mem")
  <2> DEFINE p == settop(d, Len(stack))
  <2>1. 1 \in 0..Len(d.stack) /\ Len(d.stack) - 1 = Len(stack) /\ Len(stack) \in 0..Len(d.stack)
    BY <1>1, <1>4
  <2>2. p = pop(d, 1) /\ p \in Computation /\ OnlyStack(d, p) /\ p.stack = stack
    BY <1>1, <2>1, PopType, SettopType, SettopBase
  <2>3. c = Report(pop(d, 1), result)
    BY <1>4 DEF check_result
  <2>4. result \in Errors /\ result # "none"
    BY <1>4, StackAssumption DEF Errors
  <2> HIDE DEF p, c
  <2>5. /\ c \in Computation /\ c.stack = stack /\ c.foreign = FALSE
        /\ c.out = IF build.throws THEN "throw" ELSE "false"
        /\ ~build.throws => c.error # "none"
    BY <2>2, <2>3, <2>4, ReportType DEF OnlyStack
  <2>6. On(stack, c)
    BY <1>1, <2>5 DEF On
  <2> QED
    BY <1>1, <1>4, <2>5, <2>6 DEF Checked, c
<1> QED
  BY <1>2, <1>3, <1>4

\* What is below a function which is called.
Below == IF build.trace THEN Append(stack, "handler") ELSE stack

LEMMA BelowType ==
  ASSUME TypeOK
  PROVE  /\ WithHandler \in Computation /\ WithHandler.stack = Below /\ WithHandler.out = "true"
         /\ WithHandler.foreign = FALSE /\ Below \in Seq(Slot \cup {"handler"})
         /\ Len(stack) <= Len(Below) /\ \A i \in 1..Len(stack) : Below[i] = stack[i]
<1>1. Begin \in Computation /\ Begin.out = "true" /\ stack \in Seq(Slot) /\ Begin.stack = stack
      /\ Begin.foreign = FALSE /\ Len(stack) \in Nat /\ "handler" \in Slot \cup {"handler"}
  BY BeginType, StateType
<1>2. /\ Pushed(Begin, "handler") \in Computation /\ OnlyStack(Begin, Pushed(Begin, "handler"))
      /\ Pushed(Begin, "handler").stack = Append(stack, "handler")
  BY <1>1, PushedType
<1>3. CASE build.trace
  BY <1>1, <1>2, <1>3 DEF WithHandler, Below, OnlyStack
<1>4. CASE ~build.trace
  BY <1>1, <1>4 DEF WithHandler, Below
<1> QED
  BY <1>3, <1>4

\* The handler is removed from below what a call has left.
LEMMA RemoveType ==
  ASSUME TypeOK, NEW c \in Computation, build.trace, On(Below, c),
         \A i \in (Len(Below) + 1)..Len(c.stack) : c.stack[i] \in Slot
  PROVE  LET d == lua_remove(c, error_index)
         IN  /\ d \in Computation /\ OnlyStack(c, d) /\ On(stack, d) /\ d.stack \in Seq(Slot)
             /\ Len(d.stack) = Len(c.stack) - 1
<1> DEFINE n == Len(stack)
           m == Len(c.stack)
           s == RemoveAt(c.stack, n + 1)
           d == lua_remove(c, error_index)
<1>1. /\ stack \in Seq(Slot) /\ n \in Nat /\ m \in Nat /\ c.stack \in Seq(Slot \cup {"handler"})
      /\ Len(Below) = n + 1 /\ n + 1 <= m
      /\ \A i \in 1..n : c.stack[i] = stack[i] /\ stack[i] \in Slot
  BY StateType DEF Below, On, Computation
<1>2. d = [c EXCEPT !.stack = s]
  BY <1>1 DEF lua_remove, error_index, top
<1> DEFINE a == SubSeq(c.stack, 1, n)
           b == SubSeq(c.stack, n + 2, m)
<1>3. s = a \o b
  <2> DEFINE i == n + 1
             before == i - 1
             after == i + 1
  <2>1. before = n /\ after = n + 2
    BY <1>1
  <2>2. s = SubSeq(c.stack, 1, before) \o SubSeq(c.stack, after, m)
    BY Zenon DEF RemoveAt
  <2> HIDE DEF before, after, s
  <2> QED
    BY <2>1, <2>2
<1>4. a \in Seq(Slot) /\ Len(a) = n /\ \A i \in 1..n : a[i] = stack[i]
  <2>1. a \in Seq(Slot \cup {"handler"}) /\ Len(a) = n /\ \A i \in 1..n : a[i] = c.stack[i]
    BY <1>1
  <2> HIDE DEF a
  <2> QED
    BY <1>1, <2>1
<1>5. b \in Seq(Slot) /\ Len(b) = m - n - 1
  <2>1. b \in Seq(Slot \cup {"handler"}) /\ Len(b) = m - n - 1
        /\ \A i \in 1..(m - n - 1) : b[i] = c.stack[n + 1 + i]
    BY <1>1
  <2>2. \A i \in 1..(m - n - 1) : c.stack[n + 1 + i] \in Slot
    BY <1>1
  <2>3. m - n - 1 \in Nat
    BY <1>1
  <2> HIDE DEF b, n, m
  <2>4. \A i \in 1..Len(b) : b[i] \in Slot
    BY <2>1, <2>2
  <2> QED
    BY <2>1, <2>4
<1> HIDE DEF a, b
<1>6. s \in Seq(Slot) /\ Len(s) = m - 1 /\ \A i \in 1..n : s[i] = stack[i]
  <2> HIDE DEF s, m
  <2> QED
    BY <1>1, <1>3, <1>4, <1>5
<1> HIDE DEF s, d
<1>7. s \in Seq(Slot \cup {"handler"})
  BY <1>6
<1>8. d \in Computation /\ OnlyStack(c, d) /\ d.stack = s
  BY <1>2, <1>7 DEF Computation, OnlyStack
<1>9. On(stack, d)
  BY <1>1, <1>6, <1>8 DEF On
<1> QED
  BY <1>6, <1>8, <1>9 DEF d

LEMMA CallType ==
  ASSUME TypeOK, NEW c \in Computation, c.out = "true", c.foreign = FALSE, On(Below, c),
         NEW n \in Nat, Len(c.stack) = Len(Below) + 1 + n, NEW r \in Outcomes
  PROVE  Checked(call(c, n, error_index, r))
<1> DEFINE done == pcall(c, n, r)
           d == IF error_index # 0 THEN lua_remove(done.c, error_index) ELSE done.c
<1>1. stack \in Seq(Slot) /\ Len(stack) \in Nat /\ Below \in Seq(Slot \cup {"handler"})
  BY StateType, BelowType
<1>2. Answer(Below, c, done.c, done.result)
  BY <1>1, PcallType
<1> HIDE DEF done
<1>3. /\ done.c \in Computation /\ OnlyStack(c, done.c) /\ On(Below, done.c)
      /\ \A i \in (Len(Below) + 1)..Len(done.c.stack) : done.c.stack[i] \in Slot
      /\ done.result \in {"ok", "run"} \cup LuaFailures
      /\ done.result # "ok" => Len(done.c.stack) = Len(Below) + 1
  BY <1>2 DEF Answer
<1>4. call(c, n, error_index, r) = check_result(d, done.result)
  <2>1. done.c.out # "lost"
    BY <1>3 DEF OnlyStack
  <2> QED
    BY <2>1 DEF call, done
<1>5. /\ d \in Computation /\ OnlyStack(done.c, d) /\ On(stack, d) /\ d.stack \in Seq(Slot)
      /\ done.result # "ok" => Len(d.stack) = Len(stack) + 1
  <2>1. CASE build.trace
    <3>1. error_index # 0 /\ Len(Below) = Len(stack) + 1
      BY <1>1, <2>1 DEF error_index, Below
    <3>2. d = lua_remove(done.c, error_index)
      BY <3>1
    <3> HIDE DEF d
    <3>3. /\ d \in Computation /\ OnlyStack(done.c, d) /\ On(stack, d) /\ d.stack \in Seq(Slot)
          /\ Len(d.stack) = Len(done.c.stack) - 1
      BY <1>3, <2>1, <3>2, RemoveType
    <3> QED
      BY <1>1, <1>3, <3>1, <3>3
  <2>2. CASE ~build.trace
    <3>1. d = done.c /\ Below = stack
      BY <2>2 DEF error_index, Below
    <3> HIDE DEF d
    <3>2. d.stack \in Seq(Slot \cup {"handler"}) /\ Len(d.stack) \in Nat
      BY <1>3, <3>1 DEF Computation
    <3>3. \A i \in 1..Len(d.stack) : d.stack[i] \in Slot
      BY <1>1, <1>3, <3>1, <3>2 DEF On
    <3>4. d.stack \in Seq(Slot)
      BY <3>2, <3>3
    <3> QED
      BY <1>3, <3>1, <3>4 DEF OnlyStack
  <2> QED
    BY <2>1, <2>2
<1> HIDE DEF d
<1>6. d.out = "true" /\ d.foreign = FALSE
  BY <1>3, <1>5 DEF OnlyStack
<1> QED
  BY <1>3, <1>4, <1>5, <1>6, CheckType

\* An operation which has failed on the way gives the stack back.
LEMMA UnwoundFine ==
  ASSUME TypeOK, NEW c \in Computation, On(stack, c), c.out \in {"false", "throw"},
         c.out = "throw" => build.throws,
         c.out = "false" => ~build.throws /\ c.error = "unrelated"
  PROVE  Fine("call", Unwound(c, Len(stack)))
<1> DEFINE d == Unwound(c, Len(stack))
<1>1. stack \in Seq(Slot) /\ Len(stack) \in Nat
  BY StateType
<1>2. d = settop(c, Len(stack)) /\ Len(stack) \in 0..Len(c.stack)
  BY <1>1 DEF Unwound, On, Computation
<1>3. d \in Computation /\ OnlyStack(c, d) /\ d.stack = stack
  BY <1>1, <1>2, SettopType, SettopBase
<1> HIDE DEF d
<1>4. Fine("call", d)
  BY <1>1, <1>3 DEF OnlyStack, Fine, Sane, Kept, Reported, Delivers
<1> QED
  BY <1>4 DEF d

\* operator() for a callee which prep has pushed, or not.
LEMMA OperatorFine ==
  ASSUME TypeOK, Sound, NEW c, Pushing(WithHandler, c, 1), NEW ps \in Params, NEW r \in Outcomes
  PROVE  Fine("call", Operator(c, error_index, ps, r))
<1> DEFINE ready == IF c.out = "true" THEN pushAll(c, ps) ELSE c
           done == call(ready, Len(ps), error_index, r)
           d == Operator(c, error_index, ps, r)
<1>1. /\ WithHandler \in Computation /\ WithHandler.stack = Below /\ WithHandler.foreign = FALSE
      /\ stack \in Seq(Slot) /\ Len(stack) \in Nat /\ Below \in Seq(Slot \cup {"handler"})
      /\ Len(stack) <= Len(Below) /\ \A i \in 1..Len(stack) : Below[i] = stack[i]
  BY BelowType, StateType
<1>2. /\ c \in Computation /\ On(Below, c) /\ c.out \in {"true", "false", "throw"}
      /\ c.out = "true" => Len(c.stack) = Len(Below) + 1
      /\ c.out = "throw" => build.throws
      /\ c.out = "false" => ~build.throws /\ c.error = "unrelated"
      /\ c.foreign => c.out # "true"
  BY <1>1 DEF Pushing
<1>3. PICK n \in Nat : ps \in [1..n -> Args]
  BY StackAssumption DEF Params
<1>4. d = IF ready.out # "true" THEN Unwound(ready, Len(stack))
          ELSE IF done.out = "throw" THEN Unwound(done, Len(stack)) ELSE done
  BY DEF Operator
<1>5. /\ ready \in Computation /\ On(Below, ready) /\ ready.out \in {"true", "false", "throw"}
      /\ ready.out = "true" => Len(ready.stack) = Len(Below) + 1 + n
      /\ ready.out = "throw" => build.throws
      /\ ready.out = "false" => ~build.throws /\ ready.error = "unrelated"
      /\ ready.foreign => ready.out # "true"
      /\ ready.out = "true" => Len(ps) = n
  <2>1. CASE c.out # "true"
    BY <1>2, <2>1
  <2>2. CASE c.out = "true"
    <3>1. ready = pushAll(c, ps)
      BY <2>2
    <3>2. Pushing(c, ready, n) /\ Len(ps) = n
      BY <1>2, <1>3, <2>2, <3>1, PushAllType
    <3> HIDE DEF ready
    <3>3. /\ ready \in Computation /\ On(c.stack, ready) /\ ready.out \in {"true", "false", "throw"}
          /\ ready.out = "true" => Len(ready.stack) = Len(Below) + 1 + n
          /\ ready.out = "throw" => build.throws
          /\ ready.out = "false" => ~build.throws /\ ready.error = "unrelated"
          /\ ready.foreign => ready.out # "true"
      BY <1>2, <2>2, <3>2 DEF Pushing
    <3>4. On(Below, ready)
      BY <1>1, <1>2, <2>2, <3>3 DEF On
    <3> QED
      BY <3>2, <3>3, <3>4
  <2> QED
    BY <2>1, <2>2
<1> HIDE DEF ready
<1>6. On(stack, ready)
  BY <1>1, <1>5 DEF On, Computation
<1>7. CASE ready.out # "true"
  BY <1>4, <1>5, <1>6, <1>7, UnwoundFine
<1>8. CASE ready.out = "true"
  <2>1. ready.foreign = FALSE
    BY <1>5, <1>8 DEF Computation
  <2>2. Checked(done)
    BY <1>3, <1>5, <1>8, <2>1, CallType
  <2> HIDE DEF done
  <2>3. CASE done.out # "throw"
    BY <1>4, <1>8, <2>2, <2>3, CheckedFine
  <2>4. CASE done.out = "throw"
    <3> DEFINE e == Unwound(done, Len(stack))
    <3>1. done \in Computation /\ On(stack, done) /\ done.foreign = FALSE
      BY <2>2 DEF Checked
    <3>2. e = settop(done, Len(stack)) /\ Len(stack) \in 0..Len(done.stack)
      BY <1>1, <2>4, <3>1 DEF Unwound, On, Computation
    <3>3. e \in Computation /\ OnlyStack(done, e) /\ e.stack = stack
      BY <1>1, <3>1, <3>2, SettopType, SettopBase
    <3> HIDE DEF e
    <3>4. Checked(e)
      BY <1>1, <2>2, <2>4, <3>3 DEF Checked, OnlyStack, On
    <3>5. Fine("call", e)
      BY <3>4, CheckedFine
    <3> QED
      BY <1>4, <1>8, <2>4, <3>5 DEF e
  <2> QED
    BY <2>3, <2>4
<1> QED
  BY <1>7, <1>8

LEMMA PreparedType ==
  ASSUME TypeOK, NEW v \in Slot
  PROVE  Pushing(WithHandler, Pushed(WithHandler, v), 1)
<1> DEFINE c == Pushed(WithHandler, v)
<1>1. /\ WithHandler \in Computation /\ WithHandler.out = "true" /\ WithHandler.foreign = FALSE
      /\ WithHandler.stack \in Seq(Slot \cup {"handler"})
  BY BelowType DEF Computation
<1>2. /\ c \in Computation /\ OnlyStack(WithHandler, c)
      /\ Len(c.stack) = Len(WithHandler.stack) + 1
      /\ \A i \in 1..Len(WithHandler.stack) : c.stack[i] = WithHandler.stack[i]
  BY <1>1, PushedType
<1> HIDE DEF c
<1>3. On(WithHandler.stack, c)
  BY <1>1, <1>2 DEF On
<1>4. Pushing(WithHandler, c, 1)
  BY <1>1, <1>2, <1>3 DEF Pushing, OnlyStack
<1> QED
  BY <1>4 DEF c

LEMMA CallFine ==
  ASSUME TypeOK, Sound, NEW ps \in Params, NEW r \in Outcomes
  PROVE  /\ \A v \in Slot : Fine("call", Operator(Pushed(WithHandler, v), error_index, ps, r))
         /\ \A a \in Args : Fine("call", Operator(push(WithHandler, a), error_index, ps, r))
<1>1. \A v \in Slot : Fine("call", Operator(Pushed(WithHandler, v), error_index, ps, r))
  BY PreparedType, OperatorFine
<1>2. ASSUME NEW a \in Args
      PROVE  Fine("call", Operator(push(WithHandler, a), error_index, ps, r))
  <2>1. WithHandler \in Computation /\ WithHandler.out = "true"
    BY BelowType
  <2>2. Pushing(WithHandler, WithHandler, 0)
    BY <2>1 DEF Pushing, On, Computation
  <2>3. 1 \in Nat \ {0} /\ 1 - 1 = 0
    OBVIOUS
  <2>4. Pushing(WithHandler, push(WithHandler, a), 1)
    BY <2>1, <2>2, <2>3, PushingStep
  <2> QED
    BY <2>4, OperatorFine
<1> QED
  BY <1>1, <1>2

LEMMA LoadedType ==
  ASSUME TypeOK, NEW l \in {"ok"} \cup (LuaFailures \cap {"syntax", "mem"})
  PROVE  Checked(Loaded(l)) /\ (l = "ok" => Loaded(l) = Pushed(Begin, "function"))
<1>1. Begin \in Computation /\ Begin.out = "true" /\ On(stack, Begin) /\ stack \in Seq(Slot)
      /\ Begin.stack = stack /\ Begin.foreign = FALSE /\ Len(stack) \in Nat
      /\ "function" \in Slot \cup {"handler"} /\ "message" \in Slot \cup {"handler"}
  BY BeginType, StateType DEF Slot, Plain
<1>2. CASE l = "ok"
  <2> DEFINE c == Pushed(Begin, "function")
  <2>1. /\ c \in Computation /\ c.out = "true" /\ c.foreign = FALSE
        /\ c.stack \in Seq(Slot) /\ On(stack, c)
    BY KeyType DEF Plain
  <2> HIDE DEF c
  <2>2. Checked(c)
    BY <2>1 DEF Checked
  <2> QED
    BY <1>2, <2>2 DEF Loaded, c
<1>3. CASE l # "ok"
  <2> DEFINE c == Pushed(Begin, "message")
  <2>1. /\ c \in Computation /\ OnlyStack(Begin, c) /\ c.stack = Append(stack, "message")
        /\ Len(c.stack) = Len(stack) + 1
    BY <1>1, PushedType
  <2>2. On(stack, c)
    BY <1>1, PushedOn
  <2> HIDE DEF c
  <2>3. c.stack \in Seq(Slot) /\ c.out = "true" /\ c.foreign = FALSE
    BY <1>1, <2>1 DEF Slot, OnlyStack
  <2>4. l \in {"ok", "run"} \cup LuaFailures
    OBVIOUS
  <2>5. Checked(check_result(c, l))
    BY <2>1, <2>2, <2>3, <2>4, CheckType
  <2> QED
    BY <1>3, <2>5 DEF Loaded, c
<1> QED
  BY <1>2, <1>3

LEMMA LoadFine ==
  ASSUME TypeOK, NEW l \in {"ok"} \cup (LuaFailures \cap {"syntax", "mem"})
  PROVE  Fine("load", Loaded(l))
BY LoadedType, CheckedFine

LEMMA RunFine ==
  ASSUME TypeOK, NEW l \in {"ok"} \cup (LuaFailures \cap {"syntax", "mem"}), NEW r \in Outcomes
  PROVE  LET done == pcall(Loaded(l), 0, r)
         IN  Fine("run", IF l # "ok" THEN Loaded(l) ELSE check_result(done.c, done.result))
<1> DEFINE done == pcall(Loaded(l), 0, r)
<1>1. CASE l # "ok"
  BY <1>1, LoadedType, CheckedFine
<1>2. CASE l = "ok"
  <2> DEFINE c == Pushed(Begin, "function")
  <2>1. stack \in Seq(Slot) /\ Len(stack) \in Nat /\ stack \in Seq(Slot \cup {"handler"})
    BY StateType
  <2>2. /\ c \in Computation /\ c.out = "true" /\ c.foreign = FALSE
        /\ On(stack, c) /\ Len(c.stack) = Len(stack) + 1
    BY KeyType DEF Plain
  <2>3. done = pcall(c, 0, r)
    BY <1>2 DEF Loaded
  <2> HIDE DEF c, done
  <2>4. Answer(stack, c, done.c, done.result)
    <3>1. 0 \in Nat /\ Len(c.stack) = Len(stack) + 1 + 0
      BY <2>1, <2>2
    <3> QED
      BY <2>1, <2>2, <2>3, <3>1, PcallType
  <2>5. /\ done.c \in Computation /\ OnlyStack(c, done.c) /\ On(stack, done.c)
        /\ \A i \in (Len(stack) + 1)..Len(done.c.stack) : done.c.stack[i] \in Slot
        /\ done.result \in {"ok", "run"} \cup LuaFailures
        /\ done.result # "ok" => Len(done.c.stack) = Len(stack) + 1
    BY <2>4 DEF Answer
  <2>6. done.c.stack \in Seq(Slot)
    <3>1. done.c.stack \in Seq(Slot \cup {"handler"}) /\ Len(done.c.stack) \in Nat
      BY <2>5 DEF Computation
    <3>2. \A i \in 1..Len(done.c.stack) : done.c.stack[i] \in Slot
      BY <2>1, <2>5, <3>1 DEF On
    <3> QED
      BY <3>1, <3>2
  <2>7. Checked(check_result(done.c, done.result))
    BY <2>2, <2>5, <2>6, CheckType DEF OnlyStack
  <2>8. Fine("run", check_result(done.c, done.result))
    BY <2>7, CheckedFine
  <2> QED
    BY <1>2, <2>8 DEF done
<1> QED
  BY <1>1, <1>2

-----------------------------------------------------------------------------
(* The theorems.                                                           *)

LEMMA CallNextFine ==
  ASSUME TypeOK, Sound, NEW ps \in Params, NEW r \in Outcomes,
         \/ \E v \in {"function", "number", "nil"} : CallName(v, ps, r)
         \/ \E a \in Args \cap {"function", "foreign function", "mistyped", "nil"} :
              CallRef(a, ps, r)
         \/ \E i \in -Len(stack)..Len(stack) : i # 0 /\ CallIndex(i, ps, r)
  PROVE  \E op, c : Done(op, c) /\ Fine(op, c)
<1>1. ASSUME NEW v \in {"function", "number", "nil"}, CallName(v, ps, r)
      PROVE  \E op, c : Done(op, c) /\ Fine(op, c)
  <2>1. v \in Slot
    BY DEF Slot, Plain
  <2> QED
    BY <1>1, <2>1, CallFine DEF CallName
<1>2. ASSUME NEW a \in Args, CallRef(a, ps, r)
      PROVE  \E op, c : Done(op, c) /\ Fine(op, c)
  BY <1>2, CallFine DEF CallRef
<1>3. ASSUME NEW i \in -Len(stack)..Len(stack), i # 0, CallIndex(i, ps, r)
      PROVE  \E op, c : Done(op, c) /\ Fine(op, c)
  BY <1>3, IndexType, CallFine DEF CallIndex
<1> QED
  BY <1>1, <1>2, <1>3

LEMMA TableNextFine ==
  ASSUME TypeOK, Sound,
         \/ \E t \in Tables, k \in Args \ {"nil"}, v \in Plain, type \in PullTypes :
              SafeAt(t, k, type, v) \/ TryAt(t, k, type, v)
         \/ \E k \in Keys[build.throws] \cap Plain, type \in PullTypes : At(k, type)
         \/ \E t \in Tables, k \in Keys[build.throws] :
              RemoveKey(t, k) \/ \E v \in Keys[build.throws] \cup {"nil"} : Set(t, k, v)
         \/ \E i \in -Len(stack)..Len(stack), k \in Keys[build.throws] : i # 0 /\
              \/ \E v \in Keys[build.throws] \cup {"nil"} : SetValue(i, k, v)
              \/ \E type \in PullTypes, v \in Plain : TableAt(i, k, type, v)
         \/ \E t \in Tables : Valid(t)
         \/ NewTable
  PROVE  \E op, c : Done(op, c) /\ Fine(op, c)
<1>1. ASSUME NEW t \in Tables, NEW k \in Args \ {"nil"}, NEW v \in Plain, NEW type \in PullTypes,
             SafeAt(t, k, type, v)
      PROVE  \E op, c : Done(op, c) /\ Fine(op, c)
  BY <1>1, SafeAtFine DEF SafeAt
<1>2. ASSUME NEW t \in Tables, NEW k \in Args \ {"nil"}, NEW v \in Plain, NEW type \in PullTypes,
             TryAt(t, k, type, v)
      PROVE  \E op, c : Done(op, c) /\ Fine(op, c)
  BY <1>2, TryAtFine DEF TryAt
<1>3. ASSUME NEW k \in Keys[build.throws] \cap Plain, NEW type \in PullTypes, At(k, type)
      PROVE  \E op, c : Done(op, c) /\ Fine(op, c)
  BY <1>3, AtFine DEF At
<1>4. ASSUME NEW t \in Tables, NEW k \in Keys[build.throws], RemoveKey(t, k)
      PROVE  \E op, c : Done(op, c) /\ Fine(op, c)
  BY <1>4, RemoveFine DEF RemoveKey
<1>5. ASSUME NEW t \in Tables, NEW k \in Keys[build.throws], NEW v \in Keys[build.throws] \cup {"nil"}, Set(t, k, v)
      PROVE  \E op, c : Done(op, c) /\ Fine(op, c)
  BY <1>5, SetFine DEF Set
<1>6. ASSUME NEW i \in -Len(stack)..Len(stack), i # 0, NEW k \in Keys[build.throws],
             NEW v \in Keys[build.throws] \cup {"nil"}, SetValue(i, k, v)
      PROVE  \E op, c : Done(op, c) /\ Fine(op, c)
  BY <1>6, SetValueFine DEF SetValue
<1>7. ASSUME NEW i \in -Len(stack)..Len(stack), i # 0, NEW k \in Keys[build.throws],
             NEW type \in PullTypes, NEW v \in Plain, TableAt(i, k, type, v)
      PROVE  \E op, c : Done(op, c) /\ Fine(op, c)
  BY <1>7, TableAtFine DEF TableAt
<1>8. ASSUME NEW t \in Tables, Valid(t)
      PROVE  \E op, c : Done(op, c) /\ Fine(op, c)
  BY <1>8, ValidFine DEF Valid
<1>9. ASSUME NewTable
      PROVE  \E op, c : Done(op, c) /\ Fine(op, c)
  BY <1>9, NewTableFine DEF NewTable
<1> QED
  BY <1>1, <1>2, <1>3, <1>4, <1>5, <1>6, <1>7, <1>8, <1>9

LEMMA TraverseNextFine ==
  ASSUME TypeOK, NEW t \in Tables, NEW n \in 0..MaxEntries,
         \/ \E left \in {<<>>, <<"number">>, <<"number", "table">>} : IPairs(t, n, left)
         \/ Pairs(t, n)
         \/ Traverse(t, n)
  PROVE  \E op, c : Done(op, c) /\ Fine(op, c)
<1>1. n \in Nat
  BY StackAssumption
<1>2. ASSUME NEW left \in {<<>>, <<"number">>, <<"number", "table">>}, IPairs(t, n, left)
      PROVE  \E op, c : Done(op, c) /\ Fine(op, c)
  <2>1. "number" \in Slot /\ "table" \in Slot
    BY DEF Slot, Plain
  <2>2. <<>> \in Seq(Slot) /\ <<"number">> \in Seq(Slot) /\ <<"number", "table">> \in Seq(Slot)
    BY <2>1
  <2>3. left \in Seq(Slot)
    BY <2>2, Zenon
  <2> QED
    BY <1>1, <1>2, <2>3, IPairsFine DEF IPairs
<1>3. ASSUME Pairs(t, n)
      PROVE  \E op, c : Done(op, c) /\ Fine(op, c)
  BY <1>1, <1>3, TraversalFine DEF Pairs
<1>4. ASSUME Traverse(t, n)
      PROVE  \E op, c : Done(op, c) /\ Fine(op, c)
  BY <1>1, <1>4, TraversalFine DEF Traverse
<1> QED
  BY <1>2, <1>3, <1>4

\* Every step is an operation which owes nothing.
LEMMA NextFine ==
  ASSUME TypeOK, Sound, Next
  PROVE  \E op, c : Done(op, c) /\ Fine(op, c)
<1>1. ASSUME NEW a \in Args, Push(a)
      PROVE  \E op, c : Done(op, c) /\ Fine(op, c)
  BY <1>1, PushFine DEF Push
<1>2. ASSUME NEW a \in Args, SetGlobal(a)
      PROVE  \E op, c : Done(op, c) /\ Fine(op, c)
  BY <1>2, SetGlobalFine DEF SetGlobal
<1>3. ASSUME NEW t \in PullTypes, Pull(t)
      PROVE  \E op, c : Done(op, c) /\ Fine(op, c)
  BY <1>3, PullFine DEF Pull
<1>4. ASSUME NEW t \in PullTypes, NEW v \in Plain, GetGlobal(t, v)
      PROVE  \E op, c : Done(op, c) /\ Fine(op, c)
  BY <1>4, GetGlobalFine DEF GetGlobal
<1>5. ASSUME StackExhausted
      PROVE  \E op, c : Done(op, c) /\ Fine(op, c)
  BY <1>5, ExhaustedFine DEF StackExhausted
<1>6. ASSUME NEW l \in {"ok"} \cup (LuaFailures \cap {"syntax", "mem"}), Load(l)
      PROVE  \E op, c : Done(op, c) /\ Fine(op, c)
  BY <1>6, LoadFine DEF Load
<1>7. ASSUME NEW l \in {"ok"} \cup (LuaFailures \cap {"syntax", "mem"}), NEW r \in Outcomes, Run(l, r)
      PROVE  \E op, c : Done(op, c) /\ Fine(op, c)
  BY <1>7, RunFine DEF Run
<1>8. ASSUME ResetError
      PROVE  \E op, c : Done(op, c) /\ Fine(op, c)
  BY <1>8, ResetFine DEF ResetError
<1> QED
  BY <1>1, <1>2, <1>3, <1>4, <1>5, <1>6, <1>7, <1>8, CallNextFine, TableNextFine, TraverseNextFine
     DEF Next

LEMMA TypeStep ==
  ASSUME TypeOK, Sound, Next
  PROVE  TypeOK'
<1>1. PICK op, c : Done(op, c) /\ Fine(op, c)
  BY NextFine
<1>2. c \in Computation /\ c.out # "lost" /\ c.stack \in Seq(Slot)
  BY <1>1 DEF Fine, Sane
<1>3. stack' = c.stack /\ error' = c.error /\ last'.out = c.out /\ Len(c.stack) <= MaxStack
      /\ build' = build
  BY <1>1 DEF Done
<1> QED
  BY <1>2, <1>3 DEF TypeOK, Computation, Errors, Slot

\* No operation panics or leaves the stack undefined, nor anything on it but
\* values and messages, whatever is on it when an operation starts: with the
\* runtime checks, if every reference has the type of its value and every key of
\* a table is pushed or throws.
THEOREM NoOperationPanics ==
  ASSUME Sound
  PROVE  Spec => []TypeOK
<1>1. Init => TypeOK
  BY StackAssumption DEF Init, TypeOK
<1>2. TypeOK /\ [Next]_vars => TypeOK'
  <2>1. CASE Next
    BY <2>1, TypeStep
  <2>2. CASE UNCHANGED vars
    BY <2>2 DEF vars, TypeOK
  <2> QED
    BY <2>1, <2>2
<1> QED
  BY <1>1, <1>2, PTL DEF Spec

\* The stack is that of the caller again after an operation on a table or a
\* traversal, and after a call, a chunk or a pull which fails, but for what a
\* write into a table has pushed before a push of it throws; a call adds its
\* results to it, without the error handler, whatever number of parameters and
\* results there are and wherever the callee was.
THEOREM CallersStackIsKept ==
  ASSUME Sound, Restorable
  PROVE  Spec => CallerStackKept
<1> DEFINE A ==
      /\ last'.op \in {"call", "exhausted", "load", "run"} =>
           IF last'.out = "true"
           THEN IsPrefix(stack, stack') /\ stack' \in Seq(Plain \cup {"message"})
           ELSE stack' = stack
      /\ last'.op \in {"at", "safe_at", "try_at", "valid", "new_table", "set_global",
                      "ipairs", "pairs", "traverse"} => stack' = stack
      /\ last'.op \in {"set", "remove", "table_set_value"} =>
           IF last'.out = "throw" THEN IsPrefix(stack, stack') ELSE stack' = stack
      /\ last'.op \in {"table_at", "get_global"} => IsPrefix(stack, stack')
      /\ last'.op = "get_global" /\ last'.out = "true" => stack' \in {stack, Append(stack, "nil")}
      /\ last'.op = "pull" =>
           IF last'.out = "true" /\ TopType(Begin) \notin {"light", "nil"}
           THEN stack' = Front(stack) ELSE stack' = stack
<1>1. TypeOK /\ [Next]_vars => [A]_vars
  <2> SUFFICES ASSUME TypeOK, Next
               PROVE  A
    BY Zenon
  <2>1. PICK op, c : Done(op, c) /\ Fine(op, c)
    BY NextFine
  <2>2. Kept(op, c) /\ c.stack \in Seq(Plain \cup {"message"})
    BY <2>1 DEF Fine, Sane, Slot
  <2>3. stack' = c.stack /\ last'.op = op /\ last'.out = c.out
    BY <2>1 DEF Done
  <2> QED
    BY <2>2, <2>3 DEF Kept
<1> QED
  BY <1>1, NoOperationPanics, PTL DEF Spec, CallerStackKept

\* A failure is thrown, or stored, and a reference of an unrelated universe is
\* one, whichever of the parameters of a call it is, or a key or a value of a table.
THEOREM FailuresAreReported ==
  ASSUME Sound, Ordinary
  PROVE  Spec => FailureReported
<1> DEFINE A ==
      /\ last'.op \in {"push", "pull", "call", "load", "run", "set_global", "get_global"}
         /\ last'.out \in {"false", "throw"} =>
           IF build.throws THEN last'.out = "throw" ELSE error' # "none"
      /\ last'.foreign /\ last'.op \in {"push", "call", "safe_at", "try_at", "set_global", "set",
                                        "remove", "table_set_value", "table_at"} =>
           last'.out \in {"false", "throw"}
<1>1. TypeOK /\ [Next]_vars => [A]_vars
  <2> SUFFICES ASSUME TypeOK, Next
               PROVE  A
    BY Zenon
  <2>1. PICK op, c : Done(op, c) /\ Fine(op, c)
    BY NextFine
  <2>2. Reported(op, c)
    BY <2>1 DEF Fine
  <2>3. error' = c.error /\ last'.op = op /\ last'.out = c.out /\ last'.foreign = c.foreign
    BY <2>1 DEF Done
  <2> QED
    BY <2>2, <2>3 DEF Reported
<1> QED
  BY <1>1, NoOperationPanics, PTL DEF Spec, FailureReported

\* With exceptions, a lookup which returns true has pulled the value.
THEOREM LookupsDeliver ==
  ASSUME Sound
  PROVE  Spec => []SafeAtDelivers
<1>1. Init => SafeAtDelivers
  BY DEF Init, SafeAtDelivers
<1>2. TypeOK /\ SafeAtDelivers /\ [Next]_vars => SafeAtDelivers'
  <2> SUFFICES ASSUME TypeOK, SafeAtDelivers, [Next]_vars
               PROVE  SafeAtDelivers'
    OBVIOUS
  <2>1. CASE Next
    <3>1. PICK op, c : Done(op, c) /\ Fine(op, c)
      BY <2>1, NextFine
    <3>2. Delivers(op, c)
      BY <3>1 DEF Fine
    <3>3. last'.op = op /\ last'.out = c.out /\ last'.got = c.got /\ build' = build
      BY <3>1 DEF Done
    <3> QED
      BY <3>2, <3>3 DEF Delivers, SafeAtDelivers
  <2>2. CASE UNCHANGED vars
    BY <2>2 DEF vars, SafeAtDelivers
  <2> QED
    BY <2>1, <2>2
<1> QED
  BY <1>1, <1>2, NoOperationPanics, PTL DEF Spec
=============================================================================
