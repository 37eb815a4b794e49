---------------------------- MODULE SlidingWindow ----------------------------
(***************************************************************************)
(* What a rolling window promises: the number of additions in each of the  *)
(* last Size intervals, newest first, where intervals are counted from the *)
(* window's creation whatever is added when.                               *)
(***************************************************************************)
EXTENDS Naturals

CONSTANTS Size, Interval, MaxAdds

VARIABLES counts, phase

Init ==
    /\ counts = [i \in 1..Size |-> 0]
    /\ phase = 0

Add ==
    /\ counts[1] < MaxAdds
    /\ counts' = [counts EXCEPT ![1] = @ + 1]
    /\ UNCHANGED phase

Slid == [i \in 1..Size |-> IF i = 1 THEN 0 ELSE counts[i - 1]]

Tick ==
    /\ phase' = (phase + 1) % Interval
    /\ counts' = IF phase' = 0 THEN Slid ELSE counts

Spec == Init /\ [][Add \/ Tick]_<<counts, phase>>
=============================================================================
