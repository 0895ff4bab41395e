--------------------------- MODULE MCReminderSchedule ---------------------------
(* A small calendar for the model checking of ReminderSchedule: weeks of three *)
(* days, months of two to four, and every rule of a legal shape over them.      *)
EXTENDS ReminderSchedule

FewMonths == <<3, 2, 4, 2>>

AllRules ==
    {r \in [kind : {"once", "daily", "weekly", "monthly"}, interval : 1..3,
            weekdays : SUBSET (0..WeekLength - 1), monthday : {3, 4, None},
            count : {2, None}, until : {29, None}] : LegalShape(r)}

\* Wall times on the first, the second and the last day of a month and a week,
\* at the two clock times a change of the offset can hit, and one in the second
\* month: every other month from it on has two days, so a rule that asks for the
\* third finds none.
SomeAnchors == {1, 3, 6, 10, 13}

\* No change; the clocks go forward, and back, around a date of most rules.
SomeZones == {[before |-> 0, at |-> 17, after |-> 0],
              [before |-> 0, at |-> 17, after |-> 1],
              [before |-> 1, at |-> 25, after |-> 0],
              [before |-> 0, at |-> 13, after |-> -2]}

\* Off, within a day, and over midnight.
SomeQuiet == {None, [start |-> 1, end |-> 3], [start |-> 2, end |-> 1]}
=============================================================================
