---------------------------- MODULE MCSchedule ----------------------------
(* Instances of Schedule for TLC. *)
EXTENDS Schedule

On(days) == [days |-> days, enabled |-> TRUE]

\* Days of four minutes: slots are set at minutes 1 and 2, or at 0.
EveryDay == {{0, 1}}
SomeDays == {{0, 1}, {1}}
TwoSlots == {[k \in {1, 2} |-> On({0, 1})]}
MidnightSlot == {[k \in {0} |-> On({0, 1})]}

\* The clock is set back by a minute or forward by two, on the same date, or over
\* midnight as well.
AMinuteOrTwo == {j \in (0 .. MaxTime) \X (0 .. MaxTime) : j[2] - j[1] \in {-1, 2}}
WithinDay == {j \in AMinuteOrTwo : Day(j[1]) = Day(j[2])}
NoJump == {}
===========================================================================
