----------------------------- MODULE OAuthRefresh -----------------------------
(***************************************************************************)
(* The OAuth credential at rest and everybody who touches it: the threads  *)
(* of the bot that ask OAuthRefreshCoordinator for an access token before  *)
(* every request to xAI, other processes that do the same, and the device  *)
(* login.  All of them go through an exclusive lock over one credential:   *)
(* a file and flock on Linux, the Credential Manager and a named mutex on  *)
(* Windows.  The authorization server rotates refresh tokens: a token that *)
(* was exchanged is dead, so an answer that is not saved locks the bot out.*)
(*                                                                         *)
(* A call is cut where another thread or process can step in: before and   *)
(* after the lock, around the HTTP request, between the temporary file and *)
(* its rename, and between the two halves of __exit__.                     *)
(***************************************************************************)
EXTENDS Naturals, FiniteSets

CONSTANTS
    Readers,       \* threads that call get_access_token
    Logins,        \* runs of `lenkobot login`
    Home,          \* Home[c]: the process of a caller, owner of one lock object
    Backends,      \* which of "file" and "vault" the processes may run on
    TTL,           \* lifetime of an access token
    Skew,          \* refresh_skew
    LockTimeout,   \* timeout_seconds of the lock
    CodeTTL,       \* lifetime of a device code
    MaxTime,       \* bound: the clock stops here
    MaxGrants,     \* bound: refresh tokens the server gives out
    MaxFaults,     \* bound: crashes and failed reads or writes
    None

Callers   == Readers \cup Logins
Processes == {Home[c] : c \in Callers}

ASSUME CallerAssumption ==
    /\ Readers \cap Logins = {}
    /\ DOMAIN Home = Callers
    /\ None \notin Callers /\ None \notin Nat
ASSUME BackendAssumption == Backends \subseteq {"file", "vault"}
ASSUME TimeAssumption ==
    /\ {Skew, LockTimeout, MaxTime, MaxGrants, MaxFaults} \subseteq Nat
    /\ {TTL, CodeTTL} \subseteq Nat \ {0}

VARIABLES
    now,         \* the clock of the host
    backend,     \* open_oauth_credentials chose it by platform
    stored,      \* the credential as the next load() returns it
    owner,       \* the caller the operating system has given the lock to
    descriptor,  \* per lock object: the caller whose descriptor it holds
    call,        \* per caller: where it stands, the state it holds in memory,
                 \* what is left of its timeout, the descriptor it closes
    requests,    \* refresh requests the server has not handled yet
    valid,       \* refresh tokens the server will exchange
    grants,      \* refresh tokens given out so far; they are numbered
    spoiled,     \* tokens of refreshes whose answer was never saved
    faults

oauthVars == <<now, backend, stored, owner, descriptor, call, requests, valid,
               grants, spoiled, faults>>
serverVars == <<requests, valid, grants>>

\* An OAuthTokenState: its refresh token, when its access token expires, and
\* the refresh token it was obtained for, None after a device login.
Credential == [refresh : Nat, expires : Nat, parent : Nat \cup {None}]

Steps == {"idle", "refused", "authorizing", "granted", "polling", "inside", "asked",
          "answered", "written", "leaving", "unlocking"}

Call == [step : Steps, cred : Credential \cup {None}, wait : Nat,
         fd : Callers \cup {None}]

Request == [by : Callers \cup {None}, token : Nat]

OAuthTypeOK ==
    /\ now \in Nat /\ grants \in Nat /\ faults \in Nat
    /\ backend \in {"file", "vault"}
    /\ stored \in Credential \cup {None}
    /\ owner \in Callers \cup {None}
    /\ descriptor \in [Processes -> Callers \cup {None}]
    /\ call \in [Callers -> Call]
    /\ requests \subseteq Request
    /\ valid \subseteq Nat /\ spoiled \subseteq Nat

Quiet == [step |-> "idle", cred |-> None, wait |-> 0, fd |-> None]

\* Before the first login, or with the credential of an earlier one.
OAuthInit ==
    /\ now = 0
    /\ backend \in Backends
    /\ \/ stored = None /\ valid = {} /\ grants = 0
       \/ /\ stored = [refresh |-> 1, expires |-> TTL, parent |-> None]
          /\ valid = {1} /\ grants = 1
    /\ owner = None
    /\ descriptor = [p \in Processes |-> None]
    /\ call = [c \in Callers |-> Quiet]
    /\ requests = {}
    /\ spoiled = {}
    /\ faults = 0

-----------------------------------------------------------------------------
(* Helpers *)

At(c, step)    == call[c].step = step
Object(c)      == descriptor[Home[c]]
Goes(c, step)  == call' = [call EXCEPT ![c].step = step]
Leaving(c)     == call' = [call EXCEPT ![c] = [Quiet EXCEPT !.step = "leaving"]]
Ends(c)        == call' = [call EXCEPT ![c] = Quiet]
Fault          == faults < MaxFaults /\ faults' = faults + 1

\* Steps of a caller the operating system has given the lock to.
HoldingSteps   == {"inside", "asked", "answered", "written", "leaving",
                   "unlocking"}
\* The part of them between the exchange of a token and its rename.
ExchangingSteps == {"asked", "answered", "written"}
Holding(c)     == call[c].step \in HoldingSteps
Exchanging(c)  == c \in Readers /\ call[c].step \in ExchangingSteps

\* The refresh token an exchange was started with.
Presented(c) == IF At(c, "asked") THEN call[c].cred.refresh
                ELSE call[c].cred.parent

\* Requests a caller no longer waits for: the server may still handle them.
Orphaned(C) ==
    {q \in requests : q.by \notin C}
        \cup {[q EXCEPT !.by = None] : q \in {r \in requests : r.by \in C}}

-----------------------------------------------------------------------------
(* The lock *)

\* __enter__ of either lock: a lock object that is taken refuses, whoever
\* took it; the same object serves every thread of its process.
AsksForLock(c) ==
    call[c].step \in IF c \in Readers THEN {"idle", "refused"} ELSE {"granted"}

EntersBusy(c) ==
    /\ AsksForLock(c)
    /\ Object(c) # None
    /\ call' = [call EXCEPT ![c] = [Quiet EXCEPT !.step = "refused"]]
    /\ UNCHANGED <<now, backend, stored, owner, descriptor, serverVars, spoiled,
                   faults>>

Enters(c) ==
    /\ AsksForLock(c)
    /\ Object(c) = None
    /\ call' = [call EXCEPT ![c].step = "polling",
                            ![c].wait = LockTimeout]
    /\ UNCHANGED <<now, backend, stored, owner, descriptor, serverVars, spoiled,
                   faults>>

\* Fault: flock is asked for in shared mode.
Acquires_Shared(c) ==
    /\ At(c, "polling")
    /\ owner' = c
    /\ descriptor' = [descriptor EXCEPT ![Home[c]] = c]
    /\ call' = [call EXCEPT ![c].step = IF c \in Readers THEN "inside"
                                        ELSE "answered",
                            ![c].wait = 0]
    /\ UNCHANGED <<now, backend, stored, serverVars, spoiled, faults>>

\* lock_exclusive succeeds, or the wait returns ACQUIRED or ABANDONED.  The
\* login goes straight to its save.
Acquires(c) ==
    /\ At(c, "polling")
    /\ owner = None
    /\ owner' = c
    /\ descriptor' = [descriptor EXCEPT ![Home[c]] = c]
    /\ call' = [call EXCEPT ![c].step = IF c \in Readers THEN "inside"
                                        ELSE "answered",
                            ![c].wait = 0]
    /\ UNCHANGED <<now, backend, stored, serverVars, spoiled, faults>>

\* Fault: no deadline.
TimesOut_Never(c) == FALSE /\ UNCHANGED oauthVars

\* Fault: after the deadline the call goes on without the lock.
TimesOut_GoesOn(c) ==
    /\ At(c, "polling")
    /\ owner # None
    /\ call[c].wait = 0
    /\ Goes(c, IF c \in Readers THEN "inside" ELSE "answered")
    /\ UNCHANGED <<now, backend, stored, owner, descriptor, serverVars, spoiled,
                   faults>>

\* A try at or after the deadline that does not get the lock is the last.
TimesOut(c) ==
    /\ At(c, "polling")
    /\ owner # None
    /\ call[c].wait = 0
    /\ Ends(c)
    /\ UNCHANGED <<now, backend, stored, owner, descriptor, serverVars, spoiled,
                   faults>>

\* __exit__ takes the descriptor out of the object ...
Leaves(c) ==
    /\ At(c, "leaving")
    /\ descriptor' = [descriptor EXCEPT ![Home[c]] = None]
    /\ IF Object(c) = None
       THEN Ends(c)
       ELSE call' = [call EXCEPT ![c].step = "unlocking", ![c].fd = Object(c)]
    /\ UNCHANGED <<now, backend, stored, owner, serverVars, spoiled, faults>>

\* ... and then unlocks and closes it.
Unlocks(c) ==
    /\ At(c, "unlocking")
    /\ owner' = IF owner = call[c].fd THEN None ELSE owner
    /\ Ends(c)
    /\ UNCHANGED <<now, backend, stored, descriptor, serverVars, spoiled, faults>>

-----------------------------------------------------------------------------
(* get_access_token, under the lock *)

\* load() raises or finds nothing.
LoadsNothing(c) ==
    /\ At(c, "inside")
    /\ \/ stored = None /\ UNCHANGED faults
       \/ Fault
    /\ Leaving(c)
    /\ UNCHANGED <<now, backend, stored, owner, descriptor, serverVars, spoiled>>

StillFresh == stored.expires > now + Skew

\* The access token is good for longer than the skew: no refresh.
LoadsFresh(c) ==
    /\ At(c, "inside")
    /\ stored # None
    /\ StillFresh
    /\ Leaving(c)
    /\ UNCHANGED <<now, backend, stored, owner, descriptor, serverVars, spoiled,
                   faults>>

\* The refresh token is sent to the token endpoint.
Asks(c) ==
    /\ At(c, "inside")
    /\ stored # None
    /\ ~StillFresh
    /\ call' = [call EXCEPT ![c].step = "asked", ![c].cred = stored]
    /\ requests' = requests \cup {[by |-> c, token |-> stored.refresh]}
    /\ UNCHANGED <<now, backend, stored, owner, descriptor, valid, grants,
                   spoiled, faults>>

\* The answer as refresh() makes a state of it: without a refresh token in the
\* answer the one that was presented stays.
Renewed(token, parent) ==
    [refresh |-> token, expires |-> now + TTL, parent |-> parent]

\* Whoever waits for the answer gets it.
Reaches(q, cred) ==
    call' = IF q.by = None THEN call
            ELSE [call EXCEPT ![q.by].step = "answered", ![q.by].cred = cred]

\* The server exchanges the token for a new one ...
ServerRotates(q) ==
    /\ q.token \in valid
    /\ grants < MaxGrants
    /\ grants' = grants + 1
    /\ valid' = (valid \ {q.token}) \cup {grants + 1}
    /\ Reaches(q, Renewed(grants + 1, q.token))
    /\ requests' = requests \ {q}
    /\ UNCHANGED <<now, backend, stored, owner, descriptor, spoiled, faults>>

\* ... or renews the access token alone ...
ServerKeeps(q) ==
    /\ q.token \in valid
    /\ Reaches(q, Renewed(q.token, q.token))
    /\ requests' = requests \ {q}
    /\ UNCHANGED <<now, backend, stored, owner, descriptor, valid, grants,
                   spoiled, faults>>

\* ... or answers with an error, as it does to every token it exchanged before.
ServerRefuses(q) ==
    /\ call' = IF q.by = None THEN call
               ELSE [call EXCEPT ![q.by] = [Quiet EXCEPT !.step = "leaving"]]
    /\ requests' = requests \ {q}
    /\ UNCHANGED <<now, backend, stored, owner, descriptor, valid, grants,
                   spoiled, faults>>

\* The HTTP client times out or loses the connection; the request may arrive.
GivesUp(c) ==
    /\ At(c, "asked")
    /\ requests' = Orphaned({c})
    /\ spoiled' = spoiled \cup {Presented(c)}
    /\ Leaving(c)
    /\ UNCHANGED <<now, backend, stored, owner, descriptor, valid, grants, faults>>

\* save() on Linux: the temporary file is written and synced ...
WritesTemporary(c) ==
    /\ At(c, "answered")
    /\ backend = "file"
    /\ Goes(c, "written")
    /\ UNCHANGED <<now, backend, stored, owner, descriptor, serverVars, spoiled,
                   faults>>

\* Fault: the new state is kept in memory only.
Saves_InMemory(c) ==
    /\ At(c, IF backend = "file" THEN "written" ELSE "answered")
    /\ Leaving(c)
    /\ UNCHANGED <<now, backend, stored, owner, descriptor, serverVars, spoiled,
                   faults>>

\* ... and renamed over the credential; on Windows CredWrite replaces it.
Saves(c) ==
    /\ At(c, IF backend = "file" THEN "written" ELSE "answered")
    /\ stored' = call[c].cred
    /\ Leaving(c)
    /\ UNCHANGED <<now, backend, owner, descriptor, serverVars, spoiled, faults>>

\* The write or the rename fails: the temporary file goes, and with it the
\* only copy of what the server gave.
SaveFails(c) ==
    /\ call[c].step \in {"answered", "written"}
    /\ Fault
    /\ spoiled' = IF c \in Readers THEN spoiled \cup {Presented(c)} ELSE spoiled
    /\ Leaving(c)
    /\ UNCHANGED <<now, backend, stored, owner, descriptor, serverVars>>

-----------------------------------------------------------------------------
(* The device login *)

\* start_device_authorization returns a code.
LoginStarts(c) ==
    /\ At(c, "idle")
    /\ call' = [call EXCEPT ![c] = [Quiet EXCEPT !.step = "authorizing",
                                                 !.wait = CodeTTL]]
    /\ UNCHANGED <<now, backend, stored, owner, descriptor, serverVars, spoiled,
                   faults>>

\* A poll that the server answers with a token of a new family.  pending and
\* slow_down are polls that change nothing.
LoginGranted(c) ==
    /\ At(c, "authorizing")
    /\ call[c].wait > 0
    /\ grants < MaxGrants
    /\ grants' = grants + 1
    /\ valid' = valid \cup {grants + 1}
    /\ call' = [call EXCEPT ![c].step = "granted",
                            ![c].cred = Renewed(grants + 1, None)]
    /\ UNCHANGED <<now, backend, stored, owner, descriptor, requests, spoiled,
                   faults>>

\* The code expired, or the server or the network ended the login.
LoginFails(c) ==
    /\ At(c, "authorizing")
    /\ Ends(c)
    /\ UNCHANGED <<now, backend, stored, owner, descriptor, serverVars, spoiled,
                   faults>>

-----------------------------------------------------------------------------
(* Processes and time *)

\* A process dies: its calls are gone, what they held of the lock falls back
\* to the operating system, and what they asked for may still arrive.
Crash(p) ==
    LET gone == {c \in Callers : Home[c] = p} IN
    /\ Fault
    /\ call' = [c \in Callers |-> IF c \in gone THEN Quiet ELSE call[c]]
    /\ descriptor' = [descriptor EXCEPT ![p] = None]
    /\ owner' = IF owner \in gone THEN None ELSE owner
    /\ requests' = Orphaned(gone)
    /\ spoiled' = spoiled \cup {Presented(c) : c \in {d \in gone : Exchanging(d)}}
    /\ UNCHANGED <<now, backend, stored, valid, grants>>

\* Time passes.  Beyond the end of the model's clock only the waits run down.
Ticks ==
    /\ now < MaxTime \/ \E c \in Callers : call[c].wait > 0
    /\ now' = IF now < MaxTime THEN now + 1 ELSE now
    /\ call' = [c \in Callers |->
                  IF call[c].wait = 0 THEN call[c]
                  ELSE [call[c] EXCEPT !.wait = call[c].wait - 1]]
    /\ UNCHANGED <<backend, stored, owner, descriptor, serverVars, spoiled, faults>>

-----------------------------------------------------------------------------

\* What a call does of its own, once it was made.
Proceeds(c) ==
    \/ Acquires(c) \/ TimesOut(c)
    \/ LoadsNothing(c) \/ LoadsFresh(c) \/ Asks(c)
    \/ GivesUp(c)
    \/ WritesTemporary(c) \/ Saves(c) \/ SaveFails(c)
    \/ Leaves(c) \/ Unlocks(c)

ServerHandles ==
    \E q \in requests : ServerRotates(q) \/ ServerKeeps(q) \/ ServerRefuses(q)

OAuthNext ==
    \/ \E c \in Callers : EntersBusy(c) \/ Enters(c) \/ Proceeds(c)
    \/ \E c \in Logins : LoginStarts(c) \/ LoginGranted(c) \/ LoginFails(c)
    \/ ServerHandles
    \/ \E p \in Processes : Crash(p)
    \/ Ticks

OAuthSpec == OAuthInit /\ [][OAuthNext]_oauthVars

\* Threads run, the poll of the lock goes on, the HTTP client has a timeout,
\* and time passes.  The server owes nothing.
OAuthFairness ==
    /\ WF_oauthVars(Ticks)
    /\ \A c \in Callers : WF_oauthVars(Proceeds(c))

LiveOAuthSpec == OAuthSpec /\ OAuthFairness

-----------------------------------------------------------------------------
(* Properties *)

\* read, refresh and persist happen under an exclusive lock: at most one
\* caller of all processes is between the lock and its release, and until
\* __exit__ starts the lock object of its process holds its own descriptor.
SoleHolder ==
    \A c \in Callers : Holding(c) =>
        /\ owner = c
        /\ ~At(c, "unlocking") => Object(c) = c
        /\ At(c, "unlocking") => call[c].fd = c

\* Every save of a refresh replaces the very state it refreshed: no refresh
\* overwrites a newer one, or a login made while it was on its way.
RenewalsChain ==
    [][stored' # stored =>
        \/ stored'.parent = None
        \/ stored # None /\ stored'.parent = stored.refresh]_oauthVars

\* The stored refresh token is one the server will take, unless it is being
\* exchanged this moment or an earlier exchange of it was cut short.
StoredTokenLives ==
    stored # None =>
        \/ stored.refresh \in valid
        \/ stored.refresh \in spoiled
        \/ \E c \in Readers : Exchanging(c) /\ Presented(c) = stored.refresh

\* Readers wait for each other at most until the timeout of the lock: every
\* call ends, through crashes of the holder and requests without an answer.
CallsEnd ==
    \A c \in Callers :
        call[c].step \in {"polling"} \cup HoldingSteps ~> call[c].step \in {"idle", "refused"}
=============================================================================
