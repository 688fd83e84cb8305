------------------------ MODULE MCBatteryCoordinator ------------------------
EXTENDS BatteryCoordinator, TLC

MCWindows ==
  {[start |-> 3, end |-> 5, intent |-> "export"],
   [start |-> 2, end |-> 4, intent |-> "import"]}

\* Never forced by itself, always forced, and each action once.
MCSchedules ==
  {[s \in 0 .. LastSlot |-> "charge"],
   [s \in 0 .. LastSlot |-> IF s % 2 = 0 THEN "discharge" ELSE "charge"]}

Symmetry == Permutations(Tasks)
=============================================================================
