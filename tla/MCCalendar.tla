---------------------------- MODULE MCCalendar ----------------------------
(* Walks through the calendar, one day a step, for TLC. *)
EXTENDS Calendar

Plain(west) == [name |-> TRUE, std |-> west, second |-> FALSE, dst |-> None, window |-> <<>>, tail |-> FALSE]
At(m, w, d, h) == [m |-> m, w |-> w, d |-> d, h |-> h]
From(y, n, wd, s) == [y |-> y, days |-> n, dow |-> wd, summer |-> s]
NewYear24(s) == From(2024, 19723, 1, s)

\* New York, Bucharest and Sydney.
Eastern == [Plain(300) EXCEPT !.second = TRUE, !.window = <<At(3, 2, 0, 2), At(11, 1, 0, 2)>>]
Eastward == [Plain(-120) EXCEPT !.second = TRUE, !.window = <<At(3, 5, 0, 3), At(10, 5, 0, 4)>>]
Southern == [Plain(-600) EXCEPT !.second = TRUE, !.window = <<At(10, 1, 0, 2), At(4, 1, 0, 3)>>]
\* Texts that lack a part, or whose offsets are out of range.
Odd == {[name |-> n, std |-> w, second |-> s, dst |-> d, window |-> x, tail |-> t] :
            n \in BOOLEAN, w \in {None, 780, 720, -820, 0}, s \in BOOLEAN, d \in {None, 660, -870}, t \in BOOLEAN,
            x \in {<<>>, <<At(3, 2, 0, 2)>>, <<At(3, 2, 0, 2), At(11, 1, 0, 2)>>}}
HasSummer(text) == text.second /\ Len(text.window) = 2 /\ Parse(text).ok

\* From the epoch to 2005 and from 2095 to 2099 in UTC, five years with each
\* real rule, and a year with each odd text.
Epoch == [from |-> From(1970, 0, 4, FALSE), to |-> 2005, text |-> Plain(0)]
MCWalks ==
    {Epoch, [Epoch EXCEPT !.from = From(2095, 45656, 6, FALSE), !.to = 2099]}
    \cup {[from |-> NewYear24(FALSE), to |-> 2028, text |-> x] : x \in {Eastern, Eastward}}
    \cup {[from |-> NewYear24(TRUE), to |-> 2028, text |-> Southern]}
    \cup {[from |-> NewYear24(FALSE), to |-> 2024, text |-> x] : x \in {o \in Odd : ~HasSummer(o)}}
===========================================================================
