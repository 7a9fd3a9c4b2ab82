------------------------------ MODULE Lifetime ------------------------------
(***************************************************************************)
(* What the ownership traits, set_owner, shared pointers and __gc together *)
(* promise about C++ objects: an object has owners, it lives as long as it *)
(* has one, and the step in which the last lets go destroys it.  An object *)
(* which is not managed by shared pointers never has two.                  *)
(***************************************************************************)
CONSTANTS
  Object,   \* C++ objects
  Holder,   \* who may own one: the C++ program, or a userdata
  Managed   \* the objects which shared pointers manage

VARIABLES
  alive,    \* the objects which exist
  owners    \* who owns each object

Init == /\ alive = {}
        /\ owners = [o \in Object |-> {}]

Born(o, h) ==
  /\ o \notin alive
  /\ alive' = alive \cup {o}
  /\ owners' = [owners EXCEPT ![o] = {h}]

Share(o, h) ==
  /\ o \in alive \cap Managed
  /\ owners' = [owners EXCEPT ![o] = @ \cup {h}]
  /\ UNCHANGED alive

Handover(o, h) ==
  /\ o \in alive \ Managed
  /\ owners' = [owners EXCEPT ![o] = {h}]
  /\ UNCHANGED alive

Release(o, h) ==
  /\ h \in owners[o]
  /\ owners' = [owners EXCEPT ![o] = @ \ {h}]
  /\ alive' = IF owners[o] = {h} THEN alive \ {o} ELSE alive

Next == \E o \in Object, h \in Holder :
          Born(o, h) \/ Share(o, h) \/ Handover(o, h) \/ Release(o, h)

Spec == Init /\ [][Next]_<<alive, owners>>
=============================================================================
