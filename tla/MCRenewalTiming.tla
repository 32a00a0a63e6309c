-------------------------- MODULE MCRenewalTiming --------------------------
(* RenewalTiming on a small instance, with half a day as the unit of time. *)
EXTENDS RenewalTiming

(* Three of the four steps of the schedule, far closer to each other. *)
ShrinkingSchedule ==
  {[official |-> 0, certbro |-> 0, max |-> 20],
   [official |-> 10, certbro |-> 8, max |-> 14],
   [official |-> 18, certbro |-> 16, max |-> 10]}
=============================================================================
