--------------------------- MODULE AtomicPlanner ---------------------------
(***************************************************************************)
(* What the rest of the system may assume of planning: however many        *)
(* planning runs overlap, and however long each of them waits for its      *)
(* inputs, a plan comes into force in one step and is made for the Axle    *)
(* windows known at that step.  It covers consecutive half-hours, two of   *)
(* them at least, and begins no later than the next half-hour.             *)
(***************************************************************************)
EXTENDS HalfHour

CONSTANTS Windows,          \* the windows Axle may report
          LastSlot          \* bound on the slots a plan may hold

VARIABLES now,              \* the clock
          windows,          \* the windows known: none, or one
          plan              \* planned slot -> action

vars == <<now, windows, plan>>

NoPlan == [s \in {} |-> "discharge"]

(***************************************************************************)
(* A slot some of whose time Axle has asked for must export.               *)
(***************************************************************************)
Owed(s) ==
  \E w \in windows :
    /\ w.intent = "export"
    /\ \/ w.start <= SlotStart(s) /\ SlotStart(s) < w.end
       \/ SlotStart(s) <= w.start /\ w.start < SlotEnd(s)

Init == now = 0 /\ windows = {} /\ plan = NoPlan

Replan ==
  /\ \E first \in 0 .. CeilSlot(now), last \in 0 .. LastSlot :
       /\ first < last
       /\ DOMAIN plan' = first .. last
  /\ \A s \in DOMAIN plan' :
       /\ plan'[s] \in {"charge", "export", "discharge"}
       /\ Owed(s) => plan'[s] = "export"
  /\ UNCHANGED <<now, windows>>

Drop == plan' = NoPlan /\ UNCHANGED <<now, windows>>

Poll ==
  /\ windows' \in {{}} \cup {{w} : w \in Windows}
  /\ UNCHANGED <<now, plan>>

Tick == now' = now + 1 /\ UNCHANGED <<windows, plan>>

Restart == windows' = {} /\ plan' = NoPlan /\ UNCHANGED now

Next == Replan \/ Drop \/ Poll \/ Tick \/ Restart

Spec == Init /\ [][Next]_vars
=============================================================================
