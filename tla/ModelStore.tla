----------------------------- MODULE ModelStore -----------------------------
(***************************************************************************)
(* What the rest of the system may assume of the ML service's models,      *)
(* however handlers, trainings, saves and restarts interleave: a model is  *)
(* stored before it is served, a new one is newer than all before it, and  *)
(* the store is never empty again.  A model is the number of its training. *)
(***************************************************************************)
EXTENDS Naturals

VARIABLES served,        \* the model predictions are made with, 0 for none
          kept,          \* the model a restart would find, 0 for none
          stored         \* the models that have ever been kept

vars == <<served, kept, stored>>

Init == served = 0 /\ kept \in Nat /\ stored = {kept}

Store ==
  /\ kept' \in Nat /\ (\A m \in stored : m < kept')
  /\ stored' = stored \cup {kept'}
  /\ UNCHANGED served

StoreAgain == kept' \in stored \ {0} /\ UNCHANGED <<served, stored>>

Serve == served' \in stored \cup {0} /\ UNCHANGED <<kept, stored>>

Next == Store \/ StoreAgain \/ Serve

Spec == Init /\ [][Next]_vars
=============================================================================
