-------------------------------- MODULE Calls -------------------------------
(***************************************************************************)
(* Lua calls a member function, or a C function, of which the proxy was    *)
(* generated: the self instance and the parameters are read from the Lua   *)
(* arguments according to their traits, the function runs, and its return  *)
(* value and out parameters are pushed.  An error leaves the proxy with    *)
(* what was already read, and a longjmp runs no destructors.               *)
(***************************************************************************)
EXTENDS Integers, Sequences, SequencesExt, FiniteSets

CONSTANTS
  Obj,         \* the instances of a class which has a proxy
  Builds,      \* configurations of the library, with the functions which are
               \* bound and the plain values the scripts have
  MaxArgs, NULL

Plain == {"nil", "number", "light", "table"}

\* The traits of oolua_traits.h by the type they are applied to.  "state" is
\* calling_lua_state, "in" is in_p<T*>, "in_const" is in_p<T const*>.
In == {"number_in", "number_in_out", "light_p", "table_in", "table_in_out", "state",
       "in", "in_const", "cpp_in"}
Out == {"number_in_out", "number_out", "table_in_out", "value_out", "lua_out"}
Return == {"void", "number", "table", "light_return", "pointer", "const_pointer",
           "value", "lua_return", "maybe_null"}

\* self is the member_caller, const_member_caller or neither.  A function is
\* deduced when the DSL was given no signature: it has default traits.
Signatures ==
  [self : {"none", "mutable", "const"}, deduced : BOOLEAN,
   params : Seq(In \cup Out), ret : Return]

ASSUME CallsAssumption ==
  /\ \A b \in Builds : /\ {b.checks, b.throws} \subseteq BOOLEAN
                       /\ b.bound \subseteq Signatures /\ b.plain \subseteq Plain
  /\ \A b \in Builds : \A s \in b.bound : s.deduced => Range(s.params) \subseteq
                                         {"number_in", "table_in", "in", "in_const"}
  /\ MaxArgs \in Nat /\ NULL \notin Obj \cup [gc : BOOLEAN, const : BOOLEAN]
  /\ Obj \cap (Plain \cup {"none", "foreign"}) = {}

VARIABLES
  \* OOLUA_RUNTIME_CHECKS_ENABLED, OOLUA_USE_EXCEPTIONS (else
  \* OOLUA_STORE_LAST_ERROR), and the functions and values of the scripts
  build,
  ud,      \* the userdata of an object: whether Lua owns it, and is it constant
  owners,  \* how many parts of C++ are to delete an object
  last     \* the last call: what was read, produced and returned

vars == <<build, ud, owners, last>>

Idle == [sig |-> NULL, args |-> <<>>, got |-> <<>>, out |-> "none",
         produced |-> <<>>, results |-> <<>>]

\* The index of the first parameter.
Offset(sig) == IF sig.self = "none" THEN 1 ELSE 2

\* What goes back to Lua: the return value, and then the out parameters.
Outs(sig) ==
  LET outs[i \in 0..Len(sig.params)] ==
        IF i = 0 THEN IF sig.ret = "void" THEN <<>> ELSE <<sig.ret>>
        ELSE IF sig.params[i] \in Out THEN Append(outs[i - 1], sig.params[i]) ELSE outs[i - 1]
  IN  outs[Len(sig.params)]

lua_return_count(sig) == Len(Outs(sig))

-----------------------------------------------------------------------------
(* Reading the arguments.  A computation c has the userdata, the rolling   *)
(* index, what was read, what was pushed, and how it goes.                 *)

Argument(args, i) == IF i \in DOMAIN args THEN args[i] ELSE "none"

Error(c) == [c EXCEPT !.out = "error"]

\* check_index and check_index_no_const, and the test of their result.  Without
\* checks a NULL goes to the function.
Checked(c, v, mutable) ==
  IF v \in Obj THEN IF mutable /\ c.ud[v].const THEN Error(c) ELSE c
  ELSE IF build.checks THEN Error(c) ELSE [c EXCEPT !.out = "lost"]

\* Mutant: Lua keeps its part.
cpp_acquire_KeepOwner(c, v) == Checked(c, v, TRUE)

\* LUA_CALLED::get of a cpp_acquire_ptr
cpp_acquire(c, v) ==
  LET checked == Checked(c, v, TRUE)
  IN  IF checked.out = "ok" THEN [checked EXCEPT !.ud[v].gc = FALSE] ELSE checked

\* Without checks a number which is none is zero; Lua_ref always checks.
get(c, p, v) ==
  CASE p \in {"number_in", "number_in_out"} ->
         IF build.checks /\ v # "number" THEN Error(c) ELSE c
    [] p = "light_p" -> IF build.checks /\ v # "light" THEN Error(c) ELSE c
    [] p \in {"table_in", "table_in_out"} ->
         IF v \in {"table", "nil"} THEN c ELSE Error(c)
    [] p = "in"       -> Checked(c, v, TRUE)
    [] p = "in_const" -> Checked(c, v, FALSE)
    [] p = "cpp_in"   -> cpp_acquire(c, v)

\* calling_lua_state is a parameter but not an argument.
Consumes(p) == p \in In \ {"state"}

\* Mutant: the calling lua_State uses up an argument.
Read_State(sig, args, c, i) ==
  LET p == sig.params[i]
      v == Argument(args, IF sig.deduced THEN i + Offset(sig) - 1 ELSE c.idx)
  IN  IF c.out # "ok" THEN c
      ELSE IF ~Consumes(p) THEN [c EXCEPT !.got = Append(@, p), !.idx = @ + 1]
      ELSE [get(c, p, v) EXCEPT !.got = Append(@, v), !.idx = @ + 1]

\* A parameter is read at the rolling index, or at its own number.
Read(sig, args, c, i) ==
  LET p == sig.params[i]
      v == Argument(args, IF sig.deduced THEN i + Offset(sig) - 1 ELSE c.idx)
  IN  IF c.out # "ok" THEN c
      ELSE IF ~Consumes(p) THEN [c EXCEPT !.got = Append(@, p)]
      ELSE [get(c, p, v) EXCEPT !.got = Append(@, v), !.idx = @ + 1]

Self(sig, args, c) ==
  IF sig.self = "none" THEN c ELSE Checked(c, Argument(args, 1), sig.self = "mutable")

\* All that happens before the function itself is called.
Converted(sig, args) ==
  LET c == [ud |-> ud, idx |-> Offset(sig), got |-> <<>>, pushed |-> <<>>, out |-> "ok"]
      step[i \in 0..Len(sig.params)] ==
        IF i = 0 THEN Self(sig, args, c) ELSE Read(sig, args, step[i - 1], i)
  IN  step[Len(sig.params)]

-----------------------------------------------------------------------------
(* The function itself, which keeps to what its traits say.                *)

\* It owns what it was given with cpp_in_p.
Taken(sig, c) ==
  [o \in Obj |-> owners[o] + Cardinality({i \in DOMAIN sig.params :
                                            sig.params[i] = "cpp_in" /\ c.got[i] = o})]

Fresh(c, own) == {o \in Obj : c.ud[o] = NULL /\ own[o] = 0}

Existing(c, own) == Obj \ Fresh(c, own)

\* What it may give to Lua: what it alone owns, and what it has just created.
Givable(c, own) ==
  Fresh(c, own) \cup {o \in Obj : own[o] = 1 /\ (c.ud[o] = NULL \/ ~c.ud[o].gc)}

Transfers == {"lua_return", "lua_out", "value", "value_out"}

Possible(t, c, own) ==
  CASE t \in {"number", "number_out", "number_in_out"} -> {"number"}
    [] t = "light_return"                -> {"light"}
    [] t \in {"table", "table_in_out"}   -> {"table", "nil", "foreign"}
    [] t \in {"pointer", "const_pointer"} -> Existing(c, own)
    [] t = "maybe_null"                  -> Existing(c, own) \cup {"nil"}
    [] t \in {"lua_return", "lua_out"}   -> Givable(c, own)
    [] t \in {"value", "value_out"}      -> Fresh(c, own)

Productions(ts, c, own) ==
  {xs \in [DOMAIN ts -> Obj \cup Plain \cup {"foreign"}] :
     /\ \A i \in DOMAIN ts : xs[i] \in Possible(ts[i], c, own)
     /\ \A i, j \in DOMAIN ts : ts[i] \in Transfers /\ i # j => xs[i] # xs[j]}

\* Its own part in an object it gives away ends.
Given(ts, xs, own) ==
  [o \in Obj |-> IF \E i \in DOMAIN ts : ts[i] \in Transfers /\ xs[i] = o THEN 0 ELSE own[o]]

-----------------------------------------------------------------------------
(* Pushing what the function has produced                                  *)

\* Mutant: only a new userdata is given its owner.
pushed_ud_KeepOwner(t, u) ==
  LET const == t = "const_pointer"
  IN  IF u = NULL THEN [gc |-> t \in Transfers, const |-> const]
      ELSE [gc |-> u.gc, const |-> u.const /\ const]

\* push_pointer_which_has_a_proxy_class: the userdata the object then has.
pushed_ud(t, u) ==
  LET const == t = "const_pointer"
  IN  IF u = NULL THEN [gc |-> t \in Transfers, const |-> const]
      ELSE [gc |-> u.gc \/ t \in Transfers, const |-> u.const /\ const]

\* The exceptions of an out parameter are caught when self was dispatched on.
Escapes(sig, i) == sig.self = "none" /\ (sig.ret = "void" \/ i > 1)

\* Mutant: the reference that was not pushed is not reported.
push_Silent(sig, c, t, x, i) ==
  CASE x = "foreign" -> c
    [] x \in Obj -> [c EXCEPT !.pushed = Append(@, x), !.ud[x] = pushed_ud(t, @)]
    [] OTHER     -> [c EXCEPT !.pushed = Append(@, x)]

\* A reference of an unrelated universe pushes nothing, and may throw.
push(sig, c, t, x, i) ==
  CASE x = "foreign" ->
         IF ~(build.checks /\ build.throws) THEN c
         ELSE [c EXCEPT !.out = IF Escapes(sig, i) THEN "lost" ELSE "threw"]
    [] x \in Obj -> [c EXCEPT !.pushed = Append(@, x), !.ud[x] = pushed_ud(t, @)]
    [] OTHER     -> [c EXCEPT !.pushed = Append(@, x)]

\* The return value, and then the out parameters in their order.
Back(sig, c, ts, xs) ==
  LET step[i \in 0..Len(ts)] ==
        IF i = 0 THEN c
        ELSE IF step[i - 1].out # "ok" THEN step[i - 1]
        ELSE push(sig, step[i - 1], ts[i], xs[i], i)
  IN  step[Len(ts)]

\* Lua takes the values on top of the stack of the call, whatever they are.
Returned(sig, args, c) ==
  LET n == lua_return_count(sig)
      slots == [i \in 1..n |-> "function"] \o args \o c.pushed
  IN  SubSeq(slots, Len(slots) - n + 1, Len(slots))

-----------------------------------------------------------------------------
Init ==
  /\ build \in Builds
  /\ ud = [o \in Obj |-> NULL]
  /\ owners = [o \in Obj |-> 0]
  /\ last = Idle

Ends(sig, args, c, own, xs, results) ==
  /\ ud' = c.ud
  /\ owners' = own
  /\ UNCHANGED build
  /\ last' = [sig |-> sig, args |-> args, got |-> c.got,
              out |-> IF c.out = "threw" THEN "error" ELSE c.out,
              produced |-> xs, results |-> results]

\* c is what reading the arguments has come to.
Refused(sig, args, c) == c.out # "ok" /\ Ends(sig, args, c, owners, <<>>, <<>>)

Throws(sig, args, c) ==
  /\ build.throws /\ c.out = "ok"
  /\ Ends(sig, args, [c EXCEPT !.out = "threw"], Taken(sig, c), <<>>, <<>>)

Returns(sig, args, c) ==
  LET ts == Outs(sig)
      own == Taken(sig, c)
  IN  /\ c.out = "ok"
      /\ \E xs \in Productions(ts, c, own) :
           LET back == Back(sig, c, ts, xs)
           IN  Ends(sig, args, back, Given(ts, xs, own), xs,
                    IF back.out = "ok" THEN Returned(sig, args, back) ELSE <<>>)

\* The argument a parameter is meant to have.
Position(sig, i) ==
  Offset(sig) - 1 + Cardinality({j \in 1..i : sig.params[j] \in In \ {"state"}})

\* A script gives C++ only what Lua owns, and gives it once.
Honest(sig, args) ==
  LET given == {i \in DOMAIN sig.params : sig.params[i] = "cpp_in"}
      arg(i) == Argument(args, Position(sig, i))
  IN  /\ \A i \in given : arg(i) \in Obj => ud[arg(i)].gc
      /\ \A i, j \in given : i # j /\ arg(i) \in Obj => arg(i) # arg(j)

Call(sig, args) ==
  /\ Honest(sig, args)
  /\ LET c == Converted(sig, args)
     IN  Refused(sig, args, c) \/ Throws(sig, args, c) \/ Returns(sig, args, c)

\* C++ creates an object, and deletes one which Lua does not know.
CppNew(o) ==
  /\ ud[o] = NULL /\ owners[o] = 0
  /\ owners' = [owners EXCEPT ![o] = 1]
  /\ last' = Idle
  /\ UNCHANGED <<build, ud>>

CppDelete(o) ==
  /\ ud[o] = NULL /\ owners[o] > 0
  /\ owners' = [owners EXCEPT ![o] = 0]
  /\ last' = Idle
  /\ UNCHANGED <<build, ud>>

\* The finalizer of a userdata, which deletes the object if Lua owns it.
Collect(o) ==
  /\ ud[o] # NULL
  /\ ud' = [ud EXCEPT ![o] = NULL]
  /\ last' = Idle
  /\ UNCHANGED <<build, owners>>

\* A script gives any number of arguments, up to one too many.
ArgLists(sig) ==
  UNION {[1..n -> build.plain \cup {o \in Obj : ud[o] # NULL}] :
           n \in {m \in 0..MaxArgs : m <= Position(sig, Len(sig.params)) + 1}}

\* Nothing is known of a process in which a null pointer was used or an exception
\* has gone through Lua.
Next ==
  /\ last.out # "lost"
  /\ \/ \E sig \in build.bound : \E args \in ArgLists(sig) : Call(sig, args)
     \/ \E o \in Obj : CppNew(o) \/ CppDelete(o) \/ Collect(o)

Spec == Init /\ [][Next]_vars
-----------------------------------------------------------------------------
(* Which functions a program may bind so that no object is lost.           *)

\* Nothing is read once an argument was taken over: an error would leave the
\* object to nobody.
TakesLast(sig) ==
  \A i, j \in DOMAIN sig.params : i < j /\ sig.params[i] = "cpp_in" => ~Consumes(sig.params[j])

Tables == {"table", "table_in_out"}

\* What Lua is to own is pushed before any table, which may fail.
TablesLast(sig) ==
  \A i, j \in DOMAIN Outs(sig) : i < j /\ Outs(sig)[i] \in Tables => Outs(sig)[j] \notin Transfers

-----------------------------------------------------------------------------
(* Properties *)

\* The types a parameter may be given.
Typed(p, v) ==
  CASE p \in {"number_in", "number_in_out"} -> v = "number"
    [] p = "light_p"                        -> v = "light"
    [] p \in {"table_in", "table_in_out"}   -> v \in {"table", "nil"}
    [] p \in {"in", "in_const", "cpp_in"}   -> v \in Obj

\* A function does not run on arguments of other types than it declares
\* (luaFunctionCall_luaPassesBooleanToFunctionWantingInt_callReturnsFalse,
\* error_check.cpp:622), however it was reached, and whatever traits come before
\* it, a parameter which Lua supplies has the argument of its number: none is
\* skipped or used twice.
ArgumentsInOrder ==
  last.out = "ok" =>
    \A i \in {j \in DOMAIN last.got : Consumes(last.sig.params[j])} :
      /\ last.got[i] = Argument(last.args, Position(last.sig, i))
      /\ Typed(last.sig.params[i], last.got[i])

\* "slot beneath top of stack is function return" (return_order.cpp): Lua
\* gets the return value and then the out parameters, and nothing else that is
\* on the stack.  "It also prevents exceptions escaping from functions proxied by
\* the library" (oolua_config.h:53): none leaves a member function, whichever of
\* its results cannot be pushed.
ResultsAreProduced ==
  /\ last.out = "ok" => last.results = last.produced
  /\ last.out = "lost" => last.sig.self = "none"

\* Someone owns every object which Lua knows, after each call, whether it
\* succeeded or not; or it is never deleted.
Owned == \A o \in Obj : ud[o] # NULL => ud[o].gc \/ owners[o] > 0

\* No object has two owners, or it is deleted twice.
OwnedOnce == \A o \in Obj : owners[o] + (IF ud[o] # NULL /\ ud[o].gc THEN 1 ELSE 0) <= 1
=============================================================================
