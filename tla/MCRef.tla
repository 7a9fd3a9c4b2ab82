-------------------------------- MODULE MCRef -------------------------------
(* Two universes, one of them with a coroutine.                            *)
EXTENDS LuaRef, TLC

CONSTANTS main, coroutine, other,  \* lua_States
          u1, u2,                  \* universes
          t, f                     \* a table and a function

MCState == {main, coroutine, other}
MCUniverseOf == main :> u1 @@ coroutine :> u1 @@ other :> u2
MCValue == {t, f}
MCTypeOf == t :> "table" @@ f :> "function"

RefSymmetry == Permutations(Ref) \cup Permutations(Inst)
=============================================================================
