-------------------------- MODULE MCReminderActions --------------------------
(* Plans and bounds for the model checking of ReminderActions. *)
EXTENDS ReminderActions

Once == [occ |-> <<1>>, last |-> "ends", grace |-> 2,
         quiet |-> [from |-> 0, to |-> 0, resolves |-> TRUE]]

OncePlan == {Once}
TwoTokens == 1..2
=============================================================================
