--------------------------- MODULE OwnerLifecycle ---------------------------
(***************************************************************************)
(* The owner's lifecycle fence: the columns lifecycle_epoch and            *)
(* lifecycle_state of user_profile, and ResetCoordinator.reset, which is   *)
(* the only code that writes them.                                         *)
(*                                                                         *)
(* reset() is two transactions with the quiesce hooks and the purge hooks  *)
(* between them.  Each transaction, and each round of hooks, is one action *)
(* here; what a hook does to another component's tables is conjoined to    *)
(* the action by the module that owns those tables.  The step the          *)
(* coordinator will run next exists only in the memory of the process that *)
(* called reset(): it is the variable reset, and it is lost when a hook    *)
(* raises or the process dies.                                             *)
(***************************************************************************)
EXTENDS Naturals

CONSTANT MaxEpoch    \* bound: the epoch is raised at most to this value

ASSUME MaxEpochAssumption == MaxEpoch \in Nat \ {0}

VARIABLES
    profile,   \* the row of user_profile: its epoch and its state
    reset      \* the step of reset() to run next, "idle" outside reset()

ProfileStates == {"active", "reset_in_progress"}
ResetSteps    == {"idle", "quiesce", "purge", "commit"}

LifecycleTypeOK ==
    /\ profile \in [epoch : Nat \ {0}, state : ProfileStates]
    /\ reset \in ResetSteps

LifecycleInit ==
    /\ profile = [epoch |-> 1, state |-> "active"]
    /\ reset = "idle"

OwnerActive == profile.state = "active"

\* What a store requires of a row before it acts on it.
CurrentEpoch(e) == OwnerActive /\ e = profile.epoch

-----------------------------------------------------------------------------

\* Fault: the profile is closed under the epoch it had.
BeginReset_SameEpoch ==
    /\ reset = "idle"
    /\ OwnerActive
    /\ profile' = [profile EXCEPT !.state = "reset_in_progress"]
    /\ reset' = "quiesce"

\* First transaction: refused unless the profile is active, it raises the
\* epoch and closes the profile to every epoch-checked write.
BeginReset ==
    /\ reset = "idle"
    /\ OwnerActive
    /\ profile.epoch < MaxEpoch
    /\ profile' = [epoch |-> profile.epoch + 1, state |-> "reset_in_progress"]
    /\ reset' = "quiesce"

\* The quiesce hooks have run; they are given the epoch that is over.
Quiesce ==
    /\ reset = "quiesce"
    /\ reset' = "purge"
    /\ UNCHANGED profile

\* The purge hooks have run; they are given the new epoch.
PurgeHooks ==
    /\ reset = "purge"
    /\ reset' = "commit"
    /\ UNCHANGED profile

\* Fault: the profile is not reopened.
CommitReset_StaysClosed ==
    /\ reset = "commit"
    /\ reset' = "idle"
    /\ UNCHANGED profile

\* Second transaction: the remaining owner data goes and the profile reopens.
CommitReset ==
    /\ reset = "commit"
    /\ profile' = [profile EXCEPT !.state = "active"]
    /\ reset' = "idle"

\* A hook or a transaction after the first raised, or the process died: the
\* exception leaves reset() and nothing resumes it.
AbandonReset ==
    /\ reset # "idle"
    /\ reset' = "idle"
    /\ UNCHANGED profile
=============================================================================
