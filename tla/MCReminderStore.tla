--------------------------- MODULE MCReminderStore ---------------------------
(* Plans and bounds for the model checking of ReminderStore. *)
EXTENDS ReminderStore

NoQuiet == [from |-> 0, to |-> 0, resolves |-> TRUE]

\* Recurring, twice, with a quiet window that delays the second occurrence.
Twice == [occ |-> <<1, 3>>, last |-> "ends", grace |-> 2,
          quiet |-> [from |-> 3, to |-> 4, resolves |-> TRUE]]
\* One occurrence, then one the zone cannot resolve.
ThenGap == [occ |-> <<1, Unresolvable>>, last |-> "ends", grace |-> 3, quiet |-> NoQuiet]
\* One shot whose quiet window ends at a time the zone cannot resolve.
QuietGap == [occ |-> <<2>>, last |-> "ends", grace |-> 1,
             quiet |-> [from |-> 2, to |-> 3, resolves |-> FALSE]]
\* A rule without any occurrence.
Never == [occ |-> << >>, last |-> "ends", grace |-> 1, quiet |-> NoQuiet]

\* A monthly rule none of whose later months has the day.
NoSuchDay == [occ |-> <<1>>, last |-> "raises", grace |-> 1, quiet |-> NoQuiet]
\* Two one shots of one minute, one of which is overdue earlier.
Patient == [occ |-> <<1>>, last |-> "ends", grace |-> 2, quiet |-> NoQuiet]
Hasty   == [occ |-> <<1>>, last |-> "ends", grace |-> 1, quiet |-> NoQuiet]

SinglePlans == {Twice, ThenGap, QuietGap, Never}
PairedPlans == {Patient, Hasty, NoSuchDay}
AllPlans    == SinglePlans \cup PairedPlans

\* Two tasks at a time: of the paired plans, without snoozes and resets.
FewPairs ==
    Cardinality(DOMAIN task) = 2 =>
        /\ \A i \in DOMAIN task : job[i].plan \in PairedPlans
        /\ \A k \in DOMAIN run : run[k].action = None
        /\ profile.epoch = 1
=============================================================================
