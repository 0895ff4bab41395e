-------------------------- MODULE MCReminderDelivery --------------------------
(* Plans and bounds for the model checking of ReminderDelivery. *)
EXTENDS ReminderDelivery

NoQuiet == [from |-> 0, to |-> 0, resolves |-> TRUE]

\* One shot, retried within its grace period.
Once == [occ |-> <<1>>, last |-> "ends", grace |-> 2, quiet |-> NoQuiet]
\* One shot that quiet hours put off to the last moment of its grace period.
Night == [Once EXCEPT !.grace = 1, !.quiet.from = 1, !.quiet.to = 2]
\* One shot, at the instant a snooze pressed at time 0 comes back.
Late == [Once EXCEPT !.occ = <<3>>]
\* A monthly rule none of whose later months has the day.
NoSuchDay == [Once EXCEPT !.last = "raises"]

OneOfEach  == {Once, Night, Late, NoSuchDay}
MixedPlans == {Once, NoSuchDay}
=============================================================================
