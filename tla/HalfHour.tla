------------------------------ MODULE HalfHour ------------------------------
(***************************************************************************)
(* The half-hour grid the planner works on.  Time is counted in ticks from *)
(* an origin on the grid; a half-hour is SlotLen ticks, and slot s covers  *)
(* the ticks from SlotStart(s) to SlotEnd(s).  A plan slot is named by its *)
(* number, which stands for the start_datetime of a Timeslot.              *)
(***************************************************************************)
EXTENDS Naturals

CONSTANT SlotLen            \* ticks in 30 minutes

ASSUME SlotLenAssumption == SlotLen \in Nat \ {0}

SlotStart(s) == s * SlotLen
SlotEnd(s)   == SlotStart(s) + SlotLen

(***************************************************************************)
(* ceil_dt: the first slot that starts at or after tick t.                 *)
(***************************************************************************)
CeilSlot(t) == (t + SlotLen - 1) \div SlotLen

(***************************************************************************)
(* The plan slots date_comapre accepts at tick t.  Both ends are included, *)
(* so on a boundary tick two slots match and the first of the list wins.   *)
(* The first form forgets the end of the slot.                             *)
(***************************************************************************)
MatchesNoEnd(s, t) == SlotStart(s) <= t
Matches(s, t) == SlotStart(s) <= t /\ t <= SlotEnd(s)

(***************************************************************************)
(* A control window [start, end) overlaps slot s when they share some time *)
(* (_axle_overlap_hours > 0).                                              *)
(***************************************************************************)
Overlaps(w, s) == w.start < SlotEnd(s) /\ SlotStart(s) < w.end
=============================================================================
