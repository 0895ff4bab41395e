------------------------------ MODULE RunLedger ------------------------------
(***************************************************************************)
(* What the reminder store promises of its logical runs, without leases,   *)
(* attempts, cursors or clocks: a run enters the ledger once, is open or   *)
(* already missed when it enters, and settles at most once; the owner's    *)
(* closing of a task cancels what is open of it and lets no run of it in   *)
(* again; only a reset removes runs, and it removes all of them.           *)
(***************************************************************************)
CONSTANT Tasks   \* the ids a task may have

VARIABLES
    ledger,    \* ledger[k], k = <<task, instant>>: "open" or its outcome
    closed     \* the tasks the owner cancelled or completed

Open == {k \in DOMAIN ledger : ledger[k] = "open"}

LedgerInit ==
    /\ DOMAIN ledger = {}
    /\ closed = {}

\* New runs enter; those already there keep their place.
Enter ==
    /\ DOMAIN ledger \subseteq DOMAIN ledger'
    /\ \A k \in DOMAIN ledger : ledger'[k] = ledger[k]
    /\ \A k \in DOMAIN ledger' \ DOMAIN ledger :
          k[1] \notin closed /\ ledger'[k] \in {"open", "missed"}
    /\ UNCHANGED closed

\* Open runs settle with an outcome that is not the owner's doing.
Settle ==
    /\ DOMAIN ledger' = DOMAIN ledger
    /\ \A k \in DOMAIN ledger :
          \/ ledger'[k] = ledger[k]
          \/ k \in Open /\ ledger'[k] \in {"delivered", "failed", "missed"}
    /\ UNCHANGED closed

\* The owner closes task i.
Close(i) ==
    /\ i \notin closed
    /\ closed' = closed \cup {i}
    /\ DOMAIN ledger' = DOMAIN ledger
    /\ \A k \in DOMAIN ledger :
          ledger'[k] = IF k \in Open /\ k[1] = i THEN "cancelled" ELSE ledger[k]

\* A reset.
Erase ==
    /\ DOMAIN ledger' = {}
    /\ closed' = {}

LedgerNext ==
    \/ Enter
    \/ Settle
    \/ \E i \in Tasks : Close(i)
    \/ Erase

LedgerSpec == LedgerInit /\ [][LedgerNext]_<<ledger, closed>>
=============================================================================
