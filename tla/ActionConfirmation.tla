------------------------- MODULE ActionConfirmation -------------------------
(***************************************************************************)
(* SQLiteActionConfirmationStore: the one-time receipts behind the inline  *)
(* buttons.  create and resolve are one transaction each.  A token is 128  *)
(* random bits: here the tokens are numbered in the order they are issued, *)
(* and a number is never used twice.                                       *)
(*                                                                         *)
(* The callers are the most general ones: any token ever issued may be     *)
(* presented at any time, with either decision, any number of times.       *)
(***************************************************************************)
EXTENDS Naturals

CONSTANTS
    Actions,     \* what a receipt may ask for: action_type and payload
    TTL,         \* DEFAULT_CONFIRMATION_TTL_SECONDS
    MaxTokens,   \* bound: tokens issued
    MaxTime,     \* bound: the clock stops here
    None         \* SQL NULL

ASSUME ConfirmationAssumption ==
    TTL \in Nat \ {0} /\ MaxTokens \in Nat /\ MaxTime \in Nat

VARIABLES
    now,      \* the clock both methods read once
    conf,     \* the table action_confirmation: conf[t] is the row of token t
    minted,   \* how many tokens were issued
    acted     \* <<token, decision>> of every resolution a caller was given

confVars == <<now, conf, minted, acted>>

Decisions == {"confirmed", "cancelled"}
Tokens    == 1..MaxTokens

ASSUME DecisionAssumption == None \notin Decisions

Receipt == [action : Actions, expires : Nat, outcome : Decisions \cup {None}]

ConfTypeOK ==
    /\ now \in Nat
    /\ minted \in 0..MaxTokens
    /\ DOMAIN conf \subseteq 1..minted
    /\ conf \in [DOMAIN conf -> Receipt]
    /\ acted \subseteq (1..minted) \X Decisions

ConfInit ==
    /\ now = 0
    /\ conf = [t \in {} |-> None]
    /\ minted = 0
    /\ acted = {}

-----------------------------------------------------------------------------

Live == {t \in DOMAIN conf : conf[t].expires > now}

\* create: deletes the owner's expired receipts, then inserts the new one.
Create(a) ==
    /\ minted < MaxTokens
    /\ minted' = minted + 1
    /\ conf' = [t \in Live \cup {minted + 1} |->
          IF t \in Live THEN conf[t]
          ELSE [action |-> a, expires |-> now + TTL, outcome |-> None]]
    /\ UNCHANGED <<now, acted>>

\* The receipt is undecided and in time.
IsFirst(t) ==
    /\ t \in DOMAIN conf
    /\ conf[t].outcome = None
    /\ conf[t].expires > now

\* Fault: any decision is answered once there is one.
IsReplay_AnyDecision(t, d) == t \in DOMAIN conf /\ conf[t].outcome # None

\* The same decision is there already; its age does not matter.
IsReplay(t, d) == t \in DOMAIN conf /\ conf[t].outcome = d

\* resolve: the first decision is stored, the same one again is answered as a
\* replay, anything else gets None and changes nothing.
Resolve(t, d) ==
    /\ \/ IsFirst(t) /\ conf' = [conf EXCEPT ![t].outcome = d]
       \/ IsReplay(t, d) /\ UNCHANGED conf
    /\ acted' = acted \cup {<<t, d>>}
    /\ UNCHANGED <<now, minted>>

ConfTick ==
    /\ now < MaxTime
    /\ now' = now + 1
    /\ UNCHANGED <<conf, minted, acted>>

ConfNext ==
    \/ \E a \in Actions : Create(a)
    \/ \E t \in 1..minted, d \in Decisions : Resolve(t, d)
    \/ ConfTick

ConfSpec == ConfInit /\ [][ConfNext]_confVars

-----------------------------------------------------------------------------
(* Properties *)

\* Whatever buttons are pressed, in any order and however late, the callers are
\* told one decision per token: what was cancelled is never acted on as
\* confirmed, even when the receipt expired or was deleted in between.
OneDecision ==
    \A x, y \in acted : x[1] = y[1] => x = y

\* A stored decision stays until the receipt is deleted.
DecisionIsFinal ==
    [][\A t \in DOMAIN conf \cap DOMAIN conf' :
          conf[t].outcome # None => conf'[t].outcome = conf[t].outcome]_confVars

\* Why there is one decision: a receipt that still exists shows the decision
\* its callers were told.
ConfInvariant ==
    /\ ConfTypeOK
    /\ OneDecision
    /\ \A x \in acted : x[1] \in DOMAIN conf => conf[x[1]].outcome = x[2]
=============================================================================
