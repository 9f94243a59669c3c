----------------------------- MODULE MCServices -----------------------------
(***************************************************************************)
(* What the rest relies on, for TLC: the scale (Weighing), the shared pins *)
(* (Bus), the buttons (Buttons), the clock (Clock) and the battery         *)
(* (Battery), and dates (Calendar, over the walks of MCCalendar). A         *)
(* behaviour is one part's, named by focus; the variables of the others    *)
(* rest.                                                                   *)
(***************************************************************************)
EXTENDS Battery, Bus, Buttons, Clock, MCCalendar, Weighing, Sequences

CONSTANTS utc0, home

VARIABLE focus

\* Thresholds over the debounce, and one button slower than the other.
MCLong == [reset |-> 3, dispense |-> 2, combo |-> 2]
\* A scale without its bowl reads less.
MCAway == -3
\* The rules stored in turn, the default among them.
MCZones == {utc0, home}
\* The curve of six alkaline cells; a weak pack, one between two knots, none.
Knot(mv, pct) == [mv |-> mv, pct |-> pct]
MCCurve == <<Knot(6000, 100), Knot(5600, 75), Knot(5200, 50), Knot(4800, 25), Knot(4400, 10), Knot(4000, 0)>>
\* On mains the battery is read less often.
MCIntervals == [mains \in BOOLEAN |-> IF mains THEN 3 ELSE 2]

-----------------------------------------------------------------------------
Init ==
    /\ focus \in {"buttons", "weighing", "bus", "calendar", "clock", "battery"}
    /\ BtnInit /\ (focus # "buttons" => ~locked)
    /\ WeighInit /\ (focus # "weighing" => flash.zero = None)
    /\ BusInit
    /\ CalInit /\ (focus # "calendar" => walk = Epoch)
    /\ ClockInit /\ (focus # "clock" => zone.stored = utc0)
    /\ BatteryInit /\ (focus # "battery" => pack = 0 /\ source.valid /\ source.mains)

vars == <<focus, btnVars, weighVars, busVars, calVars, clockVars, batteryVars>>

ButtonsOnly(A) == focus = "buttons" /\ A /\ UNCHANGED <<focus, weighVars, busVars, calVars, clockVars, batteryVars>>
WeighingOnly(A) == focus = "weighing" /\ A /\ UNCHANGED <<focus, btnVars, busVars, calVars, clockVars, batteryVars>>
BusOnly(A) == focus = "bus" /\ A /\ UNCHANGED <<focus, btnVars, weighVars, calVars, clockVars, batteryVars>>
CalendarOnly(A) == focus = "calendar" /\ A /\ UNCHANGED <<focus, btnVars, weighVars, busVars, clockVars, batteryVars>>
ClockOnly(A) == focus = "clock" /\ A /\ UNCHANGED <<focus, btnVars, weighVars, busVars, calVars, batteryVars>>
BatteryOnly(A) == focus = "battery" /\ A /\ UNCHANGED <<focus, btnVars, weighVars, busVars, calVars, clockVars>>
Next ==
    \/ ButtonsOnly(BtnNext)
    \/ WeighingOnly(WeighNext)
    \/ BusOnly(BusNext)
    \/ CalendarOnly(CalNext)
    \/ ClockOnly(ClockNext)
    \/ BatteryOnly(BatteryNext)

Spec == Init /\ [][Next]_vars

\* A call that used the loan or the arguments of another task ends the
\* exploration (Bus).
NotBorrowed == ~borrowed
=============================================================================
