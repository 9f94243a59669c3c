---- MODULE Calendar ----
(***************************************************************************)
(* The calendar of epoch_calendar.c and the time zone rule of tz_rule.c,   *)
(* against a walk through the days, one after the other: the date, its     *)
(* weekday and whether summer time is on are what a reader of a calendar   *)
(* would count, the operators are what the code computes. Times are in     *)
(* minutes; a rule's text is abstracted to its fields. Years before 1970,  *)
(* which the clock never shows, are left out.                              *)
(***************************************************************************)
EXTENDS Integers, Sequences, FiniteSets, NoValue
CONSTANTS Walks       \* where a walk starts, ends, and the text of its rule
VARIABLES walk, date, dow, days, summer
calVars == <<walk, date, dow, days, summer>>

------------------------------------------------------------------------------
(* epoch_calendar.c. Weekday is Zeller's congruence, which counts from      *)
(* Saturday. *)
Years == 1970..2100
LeapYear(y) == (y % 4 = 0 /\ y % 100 # 0) \/ y % 400 = 0
YearDays(y) == IF LeapYear(y) THEN 366 ELSE 365
DaysInMonth(y, m) == CASE m = 2 -> IF LeapYear(y) THEN 29 ELSE 28
                       [] m \in {4, 6, 9, 11} -> 30
                       [] OTHER -> 31
Weekday(y, m, d) ==
    LET z == IF m < 3 THEN [m |-> m + 12, y |-> y - 1] ELSE [m |-> m, y |-> y]
        k == z.y % 100
        century == z.y \div 100
    IN  (d + (13 * (z.m + 1)) \div 5 + k + k \div 4 + century \div 4 + 5 * century) % 7
NthWeekday(y, m, week, wd) ==
    LET dim == DaysInMonth(y, m)
        d == 1 + ((wd - Weekday(y, m, 1) + 7) % 7) + (week - 1) * 7
    IN  IF week = 5 THEN CHOOSE e \in (dim - 6)..dim: Weekday(y, m, e) = wd ELSE IF d > dim THEN d - 7 ELSE d
YearStart == [y \in Years |-> 365 * (y - 1970) + Cardinality({x \in 1970..(y - 1): LeapYear(x)})]
MonthStart == [leap \in BOOLEAN |->
    LET y == IF leap THEN 2000 ELSE 2001
        before[m \in 1..13] == IF m = 1 THEN 0 ELSE before[m - 1] + DaysInMonth(y, m - 1)
    IN  before]
DayOf(y, m, d) == YearStart[y] + MonthStart[LeapYear(y)][m] + d - 1
FromCivil(y, m, d, h, min, offset) == DayOf(y, m, d) * 1440 + h * 60 + min - offset
YearOf(day) == CHOOSE y \in 1970..2099: YearStart[y] <= day /\ day < YearStart[y + 1]
MonthOf(y, rest) ==
    CHOOSE x \in 1..12: MonthStart[LeapYear(y)][x] <= rest /\ rest < MonthStart[LeapYear(y)][x + 1]
ToCivil(t) ==
    LET day == t \div 1440
        y == YearOf(day)
        rest == day - YearStart[y]
        m == MonthOf(y, rest)
    IN  [y |-> y, m |-> m, d |-> rest - MonthStart[LeapYear(y)][m] + 1,
         h |-> (t % 1440) \div 60, min |-> t % 60, wday |-> (day + 4) % 7]

------------------------------------------------------------------------------
(* tz_rule_parse_posix: a name and an offset, a second name and perhaps an  *)
(* offset, perhaps the two transitions. A text that fails late has filled   *)
(* in what came before; one without a second name has its transitions read  *)
(* and its offset dropped.                                                  *)
NoDay == [m |-> 0, w |-> 0, d |-> 0, h |-> 0]
Utc == [std |-> 0, dst |-> 0, start |-> NoDay, end |-> NoDay]
East(west) == IF west \in -840..720 THEN -west ELSE None
Refused(r) == [ok |-> FALSE, rule |-> r]
Accepted(r) == [ok |-> TRUE, rule |-> r]
Window(x, r) ==
    LET started == [r EXCEPT !.start = x.window[1]]
    IN  CASE Len(x.window) = 0 -> IF x.tail THEN Refused(r) ELSE Accepted(r)
          [] Len(x.window) = 1 -> Refused(started)
          [] OTHER -> LET ended == [started EXCEPT !.end = x.window[2]]
                      IN  IF x.tail THEN Refused(ended) ELSE Accepted(ended)
Offsets(x) ==
    LET std == East(x.std)
        dst == IF x.dst = None THEN std + 60 ELSE East(x.dst)
    IN  IF std = None THEN Refused(Utc)
        ELSE IF ~x.second THEN Accepted([Utc EXCEPT !.std = std, !.dst = std])
        ELSE IF dst \in -720..840 THEN Accepted([Utc EXCEPT !.std = std, !.dst = dst])
        ELSE Refused([Utc EXCEPT !.std = std, !.dst = IF x.dst = None THEN std + 60 ELSE 0])
Parse(x) ==
    CASE ~x.name \/ x.std = None -> Refused(Utc)
      [] x.name /\ x.std # None /\ ~x.second /\ x.window # <<>> -> Window(x, Utc)
      [] OTHER -> IF Offsets(x).ok THEN Window(x, Offsets(x).rule) ELSE Offsets(x)
(* tz_rule_cache_refresh *)
Rule(x) == Parse(x).rule

(* Both transitions are told in standard time (tz_transition_utc).          *)
DstEnabled(r) == r.dst # r.std
Turn(r, y, at) == FromCivil(y, at.m, NthWeekday(y, at.m, at.w, at.d), at.h, 0, r.std)
InWindowNorth(r, t, from, to) == t >= from /\ t < to
InWindow(r, t, from, to) ==
    IF \/ r.start.m < r.end.m
       \/ r.start.m = r.end.m /\ (r.start.w < r.end.w \/ (r.start.w = r.end.w /\ r.start.d <= r.end.d))
    THEN t >= from /\ t < to ELSE t >= from \/ t < to
(* The year whose turns count: that of the time in UTC, within 1970..2099.   *)
(* Without transitions both are day 0 of month 0, and the window is empty.  *)
TurnYear(t) ==
    LET day == t \div 1440
    IN  IF day < 0 THEN 1970 ELSE IF day >= YearStart[2100] THEN 2099 ELSE YearOf(day)
InSummer(r, t) ==
    /\ DstEnabled(r) /\ r.start # NoDay
    /\ LET y == TurnYear(t) IN InWindow(r, t, Turn(r, y, r.start), Turn(r, y, r.end))
Offset(r, t) == IF InSummer(r, t) THEN r.dst ELSE r.std

------------------------------------------------------------------------------
(* The walk. A date's weekday is counted from Sunday; the n-th weekday of a *)
(* month is the n-th that the walk meets, the fifth the last.               *)
Has31 == {1, 3, 5, 7, 8, 10, 12}
LastDay(y, m) == IF m = 2 THEN (IF y % 4 = 0 THEN 29 ELSE 28) ELSE IF m \in Has31 THEN 31 ELSE 30
Meets(at, wd) == /\ date.m = at.m /\ wd = at.d
                 /\ IF at.w = 5 THEN date.d + 7 > LastDay(date.y, date.m) ELSE (date.d - 1) \div 7 + 1 = at.w
DayAfter(wd) == (wd + 1) % 7  \* Weekday numbers a day as the calendar does the one after it
Turns(r, wd) == IF ~DstEnabled(r) THEN {} ELSE {at \in {r.start, r.end}: Meets(at, wd)}
Turning(x) == Parse(x).ok /\ DstEnabled(Rule(x)) /\ Rule(x).start # NoDay
(* A walk starts on a first of January, with its number, its weekday and    *)
(* the season that its rule gives it. A rule that turns does so in two      *)
(* months, and not within the week of New Year: the code takes the turns of *)
(* the year in UTC, and orders those of one month by their weekdays.        *)
Days == [m: 1..12, w: 1..5, d: 0..6, h: 0..23]
Texts == [name: BOOLEAN, std: Int \cup {None}, second: BOOLEAN, dst: Int \cup {None}, window: Seq(Days), tail: BOOLEAN]
NewYears(at) == (at.m = 1 /\ at.w = 1) \/ (at.m = 12 /\ at.w = 5)
SeasonsApart(r) == r.start.m # r.end.m /\ ~NewYears(r.start) /\ ~NewYears(r.end)
ASSUME WalksAreReal ==
    \A w \in Walks:
        /\ w.text \in Texts /\ w.from.y \in 1970..2099 /\ w.to \in w.from.y..2099
        /\ w.from.days = 365 * (w.from.y - 1970) + (w.from.y - 1969) \div 4 /\ w.from.dow = (w.from.days + 4) % 7
        /\ Turning(w.text) => SeasonsApart(Rule(w.text))
        /\ w.from.summer = (Turning(w.text) /\ Rule(w.text).start.m > Rule(w.text).end.m)
CalInit ==
    /\ walk \in Walks
    /\ date = [y |-> walk.from.y, m |-> 1, d |-> 1] /\ dow = walk.from.dow /\ days = walk.from.days
    /\ summer = walk.from.summer
NextDay ==
    /\ Parse(walk.text).ok /\ (date.y < walk.to \/ date.m < 12 \/ date.d < 31)
    /\ date' = CASE date.d < LastDay(date.y, date.m) -> [date EXCEPT !.d = @ + 1]
                 [] date.d = LastDay(date.y, date.m) /\ date.m < 12 -> [date EXCEPT !.m = @ + 1, !.d = 1]
                 [] OTHER -> [y |-> date.y + 1, m |-> 1, d |-> 1]
    /\ dow' = (dow + 1) % 7 /\ days' = days + 1
    /\ summer' = (IF Turns(Rule(walk.text), DayAfter(dow)) # {} THEN ~summer ELSE summer)
    /\ UNCHANGED walk
CalNext == NextDay
CalSpec == CalInit /\ [][CalNext]_calVars

------------------------------------------------------------------------------
(* Date and day number are each other's inverse, at the ends of each day,   *)
(* and the weekday that the schedule uses is the real one.                  *)
Counts ==
    /\ DayOf(date.y, date.m, date.d) = days
    /\ \A q \in {0, 1439}: ToCivil(days * 1440 + q) =
           [y |-> date.y, m |-> date.m, d |-> date.d, h |-> q \div 60, min |-> q % 60, wday |-> dow]
(* A text is accepted if it is complete and in range, and the rule is what  *)
(* it says; the exception is one with transitions but no second name, which *)
(* is accepted as UTC.                                                      *)
InRange(west) == west \in -840..720
Whole(x) == /\ x.name /\ x.std # None /\ InRange(x.std) /\ ~x.tail /\ Len(x.window) # 1
            /\ x.second => InRange(IF x.dst = None THEN x.std - 60 ELSE x.dst)
Says(x) == [std |-> -x.std, dst |-> IF ~x.second THEN -x.std ELSE IF x.dst = None THEN 60 - x.std ELSE -x.dst,
            start |-> IF x.window = <<>> THEN NoDay ELSE x.window[1], end |-> IF x.window = <<>> THEN NoDay ELSE x.window[2]]
Reads(x) == (x.second \/ x.window = <<>>) => /\ Parse(x).ok = Whole(x)
                                             /\ Whole(x) => Rule(x) = Says(x)
(* The offset changes at the rule's hour on two days of the year and at no  *)
(* other time, on either hemisphere. They are not the days that the rule    *)
(* names, where 0 is Sunday (spec/30-processes/scheduler-engine.md:181):    *)
(* for the n-th Sunday of a month, it is its n-th Saturday.                 *)
TurnsOnEves ==
    LET r == Rule(walk.text)
        today == Turns(r, DayAfter(dow))
        utc(q) == days * 1440 + q - r.std
    IN  /\ InSummer(r, utc(0)) = (IF \E at \in today: at.h = 0 THEN ~summer ELSE summer)
        /\ InSummer(r, utc(1439)) = (IF today # {} THEN ~summer ELSE summer)
        /\ \A at \in today: /\ at.h > 0 => InSummer(r, utc(at.h * 60 - 1)) = summer
                            /\ InSummer(r, utc(at.h * 60)) = ~summer
CalendarTrue == Counts /\ Reads(walk.text) /\ (Parse(walk.text).ok => TurnsOnEves)
====
