---------------------------- MODULE SessionLedger ----------------------------
(***************************************************************************)
(* What the session and memory stores promise together, without lanes,     *)
(* attempts or turns: an exchange enters the ledger of an open session, is *)
(* owed until it is settled, and never owed again; a session closes at     *)
(* most once, and only when none of its exchanges is owed; only the        *)
(* deletion of its turn takes an exchange out of an open session, and only *)
(* a reset takes everything.                                               *)
(***************************************************************************)
VARIABLES
    open,      \* open[s]: whether session s is still open
    owed       \* owed[x] = [session, due]: the exchanges noted so far

ExchangesOf(s) == {x \in DOMAIN owed : owed[x].session = s}

LedgerInit ==
    /\ DOMAIN open = {}
    /\ DOMAIN owed = {}

\* A session opens.
Opened ==
    /\ \E s \in DOMAIN open' \ DOMAIN open :
          /\ DOMAIN open' = DOMAIN open \cup {s}
          /\ open'[s] = TRUE
    /\ \A s \in DOMAIN open : open'[s] = open[s]
    /\ UNCHANGED owed

\* An exchange of an open session is noted.
Noted ==
    /\ \E x \in DOMAIN owed' \ DOMAIN owed :
          /\ DOMAIN owed' = DOMAIN owed \cup {x}
          /\ owed'[x].session \in DOMAIN open
          /\ open[owed'[x].session]
          /\ owed'[x].due
    /\ \A x \in DOMAIN owed : owed'[x] = owed[x]
    /\ UNCHANGED open

\* An exchange that is owed is settled.
Settled ==
    /\ DOMAIN owed' = DOMAIN owed
    /\ \A x \in DOMAIN owed :
          \/ owed'[x] = owed[x]
          \/ owed[x].due /\ owed'[x] = [session |-> owed[x].session, due |-> FALSE]
    /\ UNCHANGED open

\* The turns of an exchange are deleted while its session is open.
Dropped ==
    /\ DOMAIN owed' \subseteq DOMAIN owed
    /\ \A x \in DOMAIN owed' : owed'[x] = owed[x]
    /\ \A x \in DOMAIN owed \ DOMAIN owed' :
          owed[x].session \in DOMAIN open /\ open[owed[x].session]
    /\ UNCHANGED open

\* A session closes.
Closed ==
    /\ \E s \in DOMAIN open :
          /\ open[s]
          /\ \A x \in ExchangesOf(s) : ~owed[x].due
          /\ open' = [open EXCEPT ![s] = FALSE]
    /\ UNCHANGED owed

Erased ==
    /\ DOMAIN open' = {}
    /\ DOMAIN owed' = {}

LedgerNext == Opened \/ Noted \/ Settled \/ Dropped \/ Closed \/ Erased

LedgerSpec == LedgerInit /\ [][LedgerNext]_<<open, owed>>
=============================================================================
