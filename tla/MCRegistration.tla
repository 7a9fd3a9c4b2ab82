--------------------------- MODULE MCRegistration ---------------------------
(***************************************************************************)
(* Derived has two bases and is abstract though they are not; Leaf,        *)
(* derived from it, can be created.  Derived exports a virtual function of *)
(* its base again, as TwoAbstractBases of expose_hierarchy.h does.         *)
(***************************************************************************)
EXTENDS Registration, TLC

MCClass == {"Leaf", "Derived", "Middle", "Other"}
MCBases == "Leaf" :> <<"Derived">> @@ "Derived" :> <<"Middle", "Other">> @@
           [c \in MCClass |-> <<>>]
MCFunctions == "Middle" :> {"func1"} @@ [c \in MCClass |-> {}]
MCConstFunctions == [c \in {"Middle", "Derived"} |-> {"virtual"}]
                    @@ "Other" :> {"func3"} @@ [c \in MCClass |-> {}]
MCAbstract == {"Derived"}

\* The hypotheses of the theorems about what is found.
ASSUME TreeOfBases /\ "new" \notin Added /\ Value \cap Factories = {}

ValueSymmetry == Permutations(Value)
=============================================================================
