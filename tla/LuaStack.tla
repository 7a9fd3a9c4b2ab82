------------------------------ MODULE LuaStack ------------------------------
(***************************************************************************)
(* C++ uses Lua: push, pull, Lua_function, chunks and Table on the stack   *)
(* of one lua_State, outside of any protected call.  An operation is a     *)
(* sequence of stack primitives with relative and absolute indices, which  *)
(* succeeds, returns false, throws, or is lost: Lua panics, or the         *)
(* behaviour is undefined.                                                 *)
(***************************************************************************)
EXTENDS Integers, Sequences, SequencesExt

CONSTANTS
  Builds,      \* the configurations of the library
  Args,        \* the C++ values which are pushed and passed
  Keys,        \* those Table::set and remove are given in a build which throws, or not
  PullTypes,   \* the types which are pulled and looked up
  Tables,      \* what the reference of a Table is
  LuaFailures, \* what lua_pcall and luaL_load* return besides success
  MaxStack, MaxParams, MaxResults,
  MaxEntries   \* of a table which is traversed

Plain == {"nil", "number", "table", "function", "light"}

\* A valid reference of an unrelated universe, by the type of the reference.
Foreign == {"foreign table", "foreign function"}

ASSUME StackAssumption ==
  /\ Builds \subseteq [checks : BOOLEAN, throws : BOOLEAN, trace : BOOLEAN]
  /\ Args \subseteq Plain \cup Foreign \cup {"mistyped"}
  /\ Keys \in [BOOLEAN -> SUBSET Args]
  /\ PullTypes \subseteq {"number", "light", "table", "function"}
  /\ Tables \subseteq {"none", "table", "other"}
  /\ LuaFailures \subseteq {"run", "syntax", "mem", "gc"}
  /\ {MaxStack, MaxParams, MaxResults, MaxEntries} \subseteq Nat

VARIABLES
  \* OOLUA_RUNTIME_CHECKS_ENABLED, OOLUA_USE_EXCEPTIONS (else
  \* OOLUA_STORE_LAST_ERROR) and OOLUA_DEBUG_STACKTRACE of the program
  build,
  stack,  \* the stack of the lua_State
  error,  \* the error stored in the registry
  last    \* the last operation and how it went

vars == <<build, stack, error, last>>

Type(v) == IF v = "handler" THEN "function" ELSE v

-----------------------------------------------------------------------------
(* The primitives change a computation c: its stack and stored error, how  *)
(* it goes, whether the value that was asked for was pulled, and whether a *)
(* reference of an unrelated universe was given.                           *)

Begin == [out |-> "true", got |-> FALSE, foreign |-> FALSE, stack |-> stack, error |-> error]

top(c) == Len(c.stack)

Lost(c) == [c EXCEPT !.out = "lost"]

\* Below the first slot is the nil which stands for the caller.
TopType(c) == IF c.stack = <<>> THEN "nil" ELSE Type(Last(c.stack))

Pushed(c, v) == [c EXCEPT !.stack = Append(@, v)]

settop(c, n) ==
  [c EXCEPT !.stack = [i \in 1..n |-> IF i <= Len(@) THEN @[i] ELSE "nil"]]

\* lua_pop(vm, n) is lua_settop(vm, -n - 1), which is an absolute index when n
\* is negative.
pop(c, n) == IF n < 0 THEN settop(c, -n - 1)
             ELSE IF n > top(c) THEN Lost(c) ELSE settop(c, top(c) - n)

lua_remove(c, i) == IF i > top(c) THEN Lost(c) ELSE [c EXCEPT !.stack = RemoveAt(@, i)]

\* An error is stored or thrown; what was pushed for it is popped again.
Report(c, cause) ==
  IF build.throws THEN [c EXCEPT !.out = "throw"]
  ELSE [c EXCEPT !.out = "false", !.error = cause]

-----------------------------------------------------------------------------
(* push and pull *)

\* The type of the value of an unrelated reference.
ForeignType(a) == IF a = "foreign table" THEN "table" ELSE "function"

\* Lua_ref::push compares the type of the top with that of the reference; an
\* unrelated reference pushes nothing.
pushed(c, a) ==
  IF a = "mistyped" THEN [Pushed(c, "number") EXCEPT !.out = "false"]
  ELSE IF a \in Plain THEN Pushed(c, a)
  ELSE IF build.checks THEN Report(c, "unrelated")
  ELSE [c EXCEPT !.out = IF ForeignType(a) = TopType(c) THEN "true" ELSE "false"]

push(c, a) == [pushed(c, a) EXCEPT !.foreign = @ \/ a \in Foreign]

\* Each is pushed when those before it were.
pushAll(c, ps) ==
  LET after[i \in 0..Len(ps)] ==
        IF i = 0 THEN c
        ELSE IF after[i - 1].out = "true" THEN push(after[i - 1], ps[i]) ELSE after[i - 1]
  IN  after[Len(ps)]

\* Lua_ref::pull: a nil empties the reference and stays.
pullRef(c, id) ==
  IF c.stack # <<>> /\ TopType(c) = "nil" THEN [c EXCEPT !.got = TRUE]
  ELSE IF c.stack # <<>> /\ TopType(c) = id THEN [pop(c, 1) EXCEPT !.got = TRUE]
  ELSE Report(c, "type")

\* Mutant: the type of the top is not checked.
pullPlain_NoCheck(c, t) ==
  [(IF t = "light" THEN c ELSE pop(c, 1)) EXCEPT !.got = TopType(c) = t]

\* A light userdata stays.
pullPlain(c, t) ==
  IF build.checks /\ TopType(c) # t THEN Report(c, "type")
  ELSE [(IF t = "light" THEN c ELSE pop(c, 1)) EXCEPT !.got = TopType(c) = t]

pull(c, t) == IF t \in {"table", "function"} THEN pullRef(c, t) ELSE pullPlain(c, t)

-----------------------------------------------------------------------------
(* Calls and chunks *)

\* Mutant: the failure is not stored.
check_result_Silent(c, r) ==
  IF r = "ok" THEN c ELSE [pop(c, 1) EXCEPT !.out = "false"]

\* protected_call_check_result and load_buffer_check_result
check_result(c, r) ==
  IF r = "ok" THEN c
  ELSE IF r = (IF build.throws THEN "gc" ELSE "mem") THEN [c EXCEPT !.out = "false"]
  ELSE Report(pop(c, 1), r)

\* lua_pcall: the function is below its n parameters, and it and they are
\* replaced by the results or by a message.  r is how the function ends.
pcall(c, n, r) ==
  LET at == top(c) - n
      below == SubSeq(c.stack, 1, at - 1)
  IN  IF at < 1 THEN [c |-> Lost(c), result |-> "ok"]
      ELSE IF Type(c.stack[at]) # "function" \/ r.result # "ok"
      THEN [c |-> [c EXCEPT !.stack = Append(below, "message")],
            result |-> IF Type(c.stack[at]) # "function" THEN "run" ELSE r.result]
      ELSE [c |-> [c EXCEPT !.stack = below \o r.values], result |-> "ok"]

\* Mutant: the error handler stays below the results.
call_KeepHandler(c, n, error_index, r) ==
  LET done == pcall(c, n, r)
  IN  check_result(done.c, done.result)

\* Lua_function::call
call(c, n, error_index, r) ==
  LET done == pcall(c, n, r)
  IN  IF done.c.out = "lost" THEN done.c
      ELSE check_result(IF error_index # 0 THEN lua_remove(done.c, error_index) ELSE done.c,
                        done.result)

\* OOLUA_CALLER_HANDLE_FAIL: what is left when a push of a call has failed or
\* thrown. A build which throws restores the stack of an exception only.
Unwound(c, init) ==
  IF c.out = "throw" \/ (c.out = "false" /\ ~build.throws) THEN settop(c, init) ELSE c

\* Lua_function::operator() for a callee which prep has pushed above the handler.
Operator(prepared, error_index, ps, r) ==
  LET ready == IF prepared.out = "true" THEN pushAll(prepared, ps) ELSE prepared
  IN  IF ready.out # "true" THEN Unwound(ready, Len(stack))
      ELSE LET done == call(ready, Len(ps), error_index, r)
           IN  IF done.out = "throw" THEN Unwound(done, Len(stack)) ELSE done

\* set_error_callback
WithHandler == IF build.trace THEN Pushed(Begin, "handler") ELSE Begin

error_index == IF build.trace THEN Len(stack) + 1 ELSE 0

\* A negative index counts from the top.
absindex(c, i) == IF i < 0 THEN top(c) + 1 + i ELSE i

\* The value at an index of the stack the caller has.
Callee(i) == stack[absindex(Begin, i)]

-----------------------------------------------------------------------------
(* Table *)

get_table(c, t) ==
  CASE t = "none"  -> [c EXCEPT !.out = "false"]
    [] t = "table" -> Pushed(c, "table")
    [] t = "other" -> [Pushed(c, "number") EXCEPT !.out = "false"]

\* A false of push is ignored; an exception is not.
push_(c, a) == IF c.out \in {"throw", "lost"} THEN c
               ELSE LET p == push(c, a)
                    IN  IF p.out = "false" THEN [p EXCEPT !.out = "true"] ELSE p

\* lua_settable and lua_gettable of the value at an absolute index: outside a
\* protected call, an operation on what is no table is a panic, as is the key nil.
lua_settable(c, at) ==
  IF c.out = "throw" THEN c
  ELSE IF at < 1 \/ top(c) < 2 \/ c.out = "lost" THEN Lost(c)
  ELSE IF c.stack[at] # "table" \/ c.stack[top(c) - 1] = "nil" THEN Lost(c)
  ELSE pop(c, 2)

lua_gettable(c, at, v) ==
  IF c.out = "throw" THEN c
  ELSE IF at < 1 \/ c.out = "lost" THEN Lost(c)
  ELSE IF c.stack[at] # "table" THEN Lost(c)
  ELSE Pushed(pop(c, 1), v)

\* Mutant: one value less is popped.
restore_stack_OffByOne(c) ==
  IF c.out \in {"throw", "lost"} \/ top(c) = Len(stack) THEN c
  ELSE pop(c, top(c) - Len(stack) - 1)

restore_stack(c) ==
  IF c.out \in {"throw", "lost"} \/ top(c) = Len(stack) THEN c
  ELSE pop(c, top(c) - Len(stack))

\* Without exceptions a failure returns false with the stack restored; a pull
\* that fails is not one.
safe_at_Store(table, k, t, v) ==
  LET keyed == push(table, k)
      found == lua_gettable(keyed, top(keyed) - 1, v)
      pulled == pull(found, t)
  IN  IF table.out = "false" THEN table
      ELSE IF keyed.out = "false" THEN [restore_stack(keyed) EXCEPT !.out = "false"]
      ELSE IF found.out = "lost" THEN found
      ELSE IF TopType(found) = "nil" THEN [restore_stack(found) EXCEPT !.out = "false"]
      ELSE IF pulled.out = "lost" THEN pulled
      ELSE restore_stack([pulled EXCEPT !.out = "true"])

\* try_at restores and rethrows, and so does what it calls.
try_at(table, k, t, v) ==
  LET keyed == push_(table, k)
      found == lua_gettable(keyed, top(keyed) - 1, v)
      pulled == pull(found, t)
      thrown(c) == [restore_stack([c EXCEPT !.out = "true"]) EXCEPT !.out = "throw"]
  IN  IF table.out = "false" THEN thrown(table)
      ELSE IF keyed.out = "throw" THEN thrown(keyed)
      ELSE IF found.out = "lost" THEN found
      ELSE IF TopType(found) = "nil" THEN thrown(found)
      ELSE IF pulled.out = "throw" THEN thrown(pulled)
      ELSE IF pulled.out = "lost" THEN pulled
      ELSE restore_stack([pulled EXCEPT !.out = "true"])

safe_at(table, k, t, v) ==
  IF ~build.throws THEN safe_at_Store(table, k, t, v)
  ELSE LET tried == try_at(table, k, t, v)
       IN  IF tried.out = "throw" THEN [tried EXCEPT !.out = "false"] ELSE tried

-----------------------------------------------------------------------------
(* Traversal of the table which was pushed.  The body of the loop finds the *)
(* value on top, for pairs above its key, and leaves others in its place.   *)

\* oolua_ipairs: of n values, whatever the body leaves, and if it stops early.
ipairs(table, n, left) ==
  LET round == IF n = 0 THEN table ELSE [table EXCEPT !.stack = @ \o left]
  IN  settop(round, top(table) - 1)

\* lua_next takes the key from the top, where nothing else may be.
lua_next(c, index) == IF top(c) # index + 1 THEN Lost(c) ELSE settop(c, index)

\* oolua_pairs, where pops values are popped after the body.
pairs(table, n, left, pops) ==
  LET index == top(table)
      body(c) == [c EXCEPT !.stack = @ \o <<"number">> \o left]
      round[i \in 0 .. n] ==
        IF i = 0 THEN Pushed(table, "nil") ELSE pop(body(lua_next(round[i - 1], index)), pops)
  IN  pop(lua_next(round[n], index), 1)

-----------------------------------------------------------------------------
\* The operation op ends as c.
Done(op, c) ==
  /\ last.out # "lost" /\ Len(c.stack) <= MaxStack
  /\ stack' = c.stack
  /\ error' = c.error
  /\ last' = [op |-> op, out |-> c.out, got |-> c.got, foreign |-> c.foreign]
  /\ UNCHANGED build

Init ==
  /\ build \in Builds
  /\ stack = <<>>
  /\ error = "none"
  /\ last = [op |-> "reset", out |-> "true", got |-> FALSE, foreign |-> FALSE]

Params == UNION {[1..n -> Args] : n \in 0..MaxParams}

\* A function fails or returns a number of results.
Outcomes ==
  [result : LuaFailures \ {"syntax"}, values : {<<>>}]
    \cup [result : {"ok"}, values : UNION {[1..n -> {"number"}] : n \in 0..MaxResults}]

Push(a) == Done("push", push(Begin, a))

Pull(t) == Done("pull", pull(Begin, t))

\* A global function, or a name which is none.
CallName(v, ps, r) == Done("call", Operator(Pushed(WithHandler, v), error_index, ps, r))

CallRef(a, ps, r) == Done("call", Operator(push(WithHandler, a), error_index, ps, r))

CallIndex(i, ps, r) ==
  Done("call", Operator(Pushed(WithHandler, Callee(i)), error_index, ps, r))

\* lua_checkstack fails, and there may be room to say so.
StackExhausted ==
  /\ build.checks
  /\ \/ Done("call", Report(Begin, "stack"))
     \/ ~build.throws /\ Done("exhausted", [Begin EXCEPT !.out = "false"])

Loaded(r) == IF r = "ok" THEN Pushed(Begin, "function")
             ELSE check_result(Pushed(Begin, "message"), r)

\* load_chunk and load_file
Load(r) == Done("load", Loaded(r))

\* run_chunk and run_file
Run(l, r) ==
  LET done == pcall(Loaded(l), 0, r)
  IN  Done("run", IF l # "ok" THEN Loaded(l) ELSE check_result(done.c, done.result))

SafeAt(t, k, type, v) == Done("safe_at", safe_at(get_table(Begin, t), k, type, v))

TryAt(t, k, type, v) ==
  build.throws /\ Done("try_at", try_at(get_table(Begin, t), k, type, v))

\* Table::at, for a table which has a value of the type under the key.
At(k, type) ==
  LET keyed == push(get_table(Begin, "table"), k)
      found == lua_gettable(keyed, top(keyed) - 1, type)
  IN  Done("at", pop(pull(found, type), 1))

Set(t, k, v) ==
  LET table == get_table(Begin, t)
      pair == push_(push_(table, k), v)
      stored == lua_settable(pair, top(pair) - 2)
  IN  Done("set", IF table.out = "false" THEN table ELSE restore_stack(stored))

RemoveKey(t, k) ==
  LET table == get_table(Begin, t)
      keyed == push_(table, k)
      pair == IF keyed.out = "true" THEN Pushed(keyed, "nil") ELSE keyed
      stored == lua_settable(pair, top(pair) - 2)
  IN  Done("remove", IF table.out = "false" THEN table ELSE restore_stack(stored))

\* table_set_value and table_at, of a table which is at an index of the stack: a
\* relative one is moved by what was pushed since.
SetValue(i, k, v) ==
  LET pair == push_(push_(Begin, k), v)
  IN  Callee(i) = "table" /\ Done("table_set_value",
        lua_settable(pair, absindex(pair, IF i < 0 THEN i - 2 ELSE i)))

TableAt(i, k, type, v) ==
  LET keyed == push_(Begin, k)
      found == lua_gettable(keyed, absindex(keyed, IF i < 0 THEN i - 1 ELSE i), v)
  IN  Callee(i) = "table" /\ Done("table_at", IF found.out = "true" THEN pull(found, type) ELSE found)

\* set_global, also of nil and of a lua_CFunction
SetGlobal(a) ==
  LET value == push(Begin, a)
  IN  Done("set_global", IF value.out = "true" THEN pop(value, 1) ELSE value)

\* get_global of a name under which v is
GetGlobal(type, v) == Done("get_global", pull(Pushed(Begin, v), type))

NewTable == Done("new_table", pullRef(Pushed(Begin, "table"), "table"))

\* A reference which is not valid is not traversed.
IPairs(t, n, left) ==
  Done("ipairs", IF t = "table" THEN ipairs(get_table(Begin, t), n, left) ELSE Begin)

\* oolua_pairs and for_each_key_value, whose body has to pop the value.
Pairs(t, n) ==
  Done("pairs", IF t = "table" THEN pairs(get_table(Begin, t), n, <<>>, 0) ELSE Begin)

\* Table::traverse pops it, so that the function must not.
Traverse(t, n) ==
  Done("traverse", IF t = "table" THEN pairs(get_table(Begin, t), n, <<"number">>, 1) ELSE Begin)

Valid(t) == Done("valid", restore_stack(get_table(Begin, t)))

ResetError == Done("reset", [Begin EXCEPT !.error = "none"])

Next ==
  \/ \E a \in Args : Push(a) \/ SetGlobal(a)
  \/ \E t \in PullTypes : Pull(t) \/ \E v \in Plain : GetGlobal(t, v)
  \/ \E ps \in Params, r \in Outcomes :
       \/ \E v \in {"function", "number", "nil"} : CallName(v, ps, r)
       \/ \E a \in Args \cap {"function", "foreign function", "mistyped", "nil"} :
            CallRef(a, ps, r)
       \/ \E i \in -Len(stack)..Len(stack) : i # 0 /\ CallIndex(i, ps, r)
  \/ StackExhausted
  \/ \E l \in {"ok"} \cup (LuaFailures \cap {"syntax", "mem"}) :
       Load(l) \/ \E r \in Outcomes : Run(l, r)
  \/ \E t \in Tables, k \in Args \ {"nil"}, v \in Plain, type \in PullTypes :
       SafeAt(t, k, type, v) \/ TryAt(t, k, type, v)
  \/ \E k \in Keys[build.throws] \cap Plain, type \in PullTypes : At(k, type)
  \/ \E t \in Tables, k \in Keys[build.throws] :
       RemoveKey(t, k) \/ \E v \in Keys[build.throws] \cup {"nil"} : Set(t, k, v)
  \/ \E i \in -Len(stack)..Len(stack), k \in Keys[build.throws] : i # 0 /\
       \/ \E v \in Keys[build.throws] \cup {"nil"} : SetValue(i, k, v)
       \/ \E type \in PullTypes, v \in Plain : TableAt(i, k, type, v)
  \/ \E t \in Tables : Valid(t)
  \/ NewTable
  \/ \E t \in Tables, n \in 0..MaxEntries :
       \/ \E left \in {<<>>, <<"number">>, <<"number", "table">>} : IPairs(t, n, left)
       \/ Pairs(t, n)
       \/ Traverse(t, n)
  \/ ResetError

Spec == Init /\ [][Next]_vars
-----------------------------------------------------------------------------
(* Properties *)

\* The variables have their types, and no operation panics or leaves the stack
\* undefined, whatever the stack was.
TypeOK ==
  /\ build \in Builds
  /\ stack \in Seq(Plain \cup {"message"}) /\ Len(stack) <= MaxStack
  /\ error \in {"none", "unrelated", "type", "stack", "run"} \cup LuaFailures
  /\ last.out \in {"true", "false", "throw"}

\* A call or a chunk adds its results to the stack of the caller, or, when it
\* fails at any point, leaves the stack as it was; the error handler is never
\* left behind, and a callee given by its index stays where it was.  A table
\* operation will "put the stack into the same state that it was before entering
\* here" (oolua_table.h:231), also when it fails, and so does a traversal, whatever
\* the body of the loop over an array leaves; but set, remove and table_set_value
\* let the exception of a push pass, which leaves more and never less than there
\* was.  A pull "Pulls the top element off the stack and pops it"
\* (oolua_stack_fwd.h:92), unless it is a light userdata, or nil and the reference
\* is emptied, which stay, also when it is that of a global; when it fails it
\* leaves it.
CallerStackKept ==
  [][/\ last'.op \in {"call", "exhausted", "load", "run"} =>
          IF last'.out = "true"
          THEN IsPrefix(stack, stack') /\ stack' \in Seq(Plain \cup {"message"})
          ELSE stack' = stack
     /\ last'.op \in {"at", "safe_at", "try_at", "valid", "new_table", "set_global",
                     "ipairs", "pairs", "traverse"} => stack' = stack
     /\ last'.op \in {"set", "remove", "table_set_value"} =>
          IF last'.out = "throw" THEN IsPrefix(stack, stack') ELSE stack' = stack
     /\ last'.op \in {"table_at", "get_global"} => IsPrefix(stack, stack')
     /\ last'.op = "get_global" /\ last'.out = "true" => stack' \in {stack, Append(stack, "nil")}
     /\ last'.op = "pull" =>
          IF last'.out = "true" /\ TopType(Begin) \notin {"light", "nil"}
          THEN stack' = Front(stack) ELSE stack' = stack]_vars

\* "failure will always be reported by the throwing of an exception"
\* (oolua_stack_fwd.h:56), and "The last error to have occurred is retrievable
\* via OOLUA::get_last_error" (oolua_config.h:68).  A reference of an unrelated
\* universe is a failure of push, of a call it is a parameter of
\* (luaCaller_passedInvalidParameter_returnsFalse, lua_caller.cpp:226), of a
\* lookup it is the key of
\* (safeAt_checkForInvalidKeyWhichIsATableFromADifferentLuaState_returnsFalse,
\* table.cpp:160), and of what is to be written into a table.
FailureReported ==
  [][/\ last'.op \in {"push", "pull", "call", "load", "run", "set_global", "get_global"}
        /\ last'.out \in {"false", "throw"} =>
          IF build.throws THEN last'.out = "throw" ELSE error' # "none"
     /\ last'.foreign /\ last'.op \in {"push", "call", "safe_at", "try_at", "set_global", "set",
                                       "remove", "table_set_value", "table_at"} =>
          last'.out \in {"false", "throw"}]_vars

\* safe_at "will always return a boolean indicating the success of the function
\* call" (oolua_table.h:138): with exceptions, true means that the value was
\* found and pulled.
SafeAtDelivers ==
  build.throws /\ last.op \in {"safe_at", "try_at"} /\ last.out = "true" => last.got
=============================================================================
