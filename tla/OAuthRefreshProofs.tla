---------------------------- MODULE OAuthRefreshProofs ----------------------------
(* Proofs about the stored credential, for any number of threads, processes  *)
(* and logins, any timeouts, and any number of grants and faults.            *)
EXTENDS OAuthRefresh, TLAPS

-----------------------------------------------------------------------------
(* The inductive invariant *)

\* The caller carries a state the server has just given out.
HasNew(c) ==
    \/ c \in Readers /\ call[c].step \in {"answered", "written"}
    \/ c \in Logins /\ call[c].step \in {"granted", "polling", "answered", "written"}

\* A caller walks the steps of its own kind.
Roles ==
    /\ \A c \in Readers : call[c].step \notin {"authorizing", "granted"}
    /\ \A c \in Logins : call[c].step \notin {"inside", "asked"}

\* A reader exchanges the state that is stored.
CredsKnown ==
    /\ \A c \in Callers : HasNew(c) \/ At(c, "asked") => call[c].cred \in Credential
    /\ \A c \in Logins : HasNew(c) => call[c].cred.parent = None
    /\ \A c \in Callers : Exchanging(c) => stored # None /\ Presented(c) = stored.refresh

\* A request is awaited by the reader that sent it, or its token is spoiled.
Awaited ==
    \A q \in requests :
        \/ q.by = None /\ q.token \in spoiled
        \/ q.by \in Readers /\ At(q.by, "asked") /\ q.token = call[q.by].cred.refresh

\* What a login was granted is nobody else's.
TokensApart ==
    /\ stored # None => stored.refresh <= grants
    /\ \A c \in Callers : HasNew(c) => call[c].cred.refresh <= grants
    /\ \A c \in Logins : HasNew(c) =>
          /\ stored # None => stored.refresh # call[c].cred.refresh
          /\ \A d \in Callers : HasNew(d) /\ d # c => call[d].cred.refresh # call[c].cred.refresh

\* A token in the hands of a caller is good, or a request for it went astray.
TokensLive ==
    \A c \in Callers : HasNew(c) \/ At(c, "asked") => call[c].cred.refresh \in valid \cup spoiled

OAuthInv ==
    /\ OAuthTypeOK
    /\ SoleHolder
    /\ Roles
    /\ CredsKnown
    /\ Awaited
    /\ TokensApart
    /\ TokensLive
    /\ StoredTokenLives

-----------------------------------------------------------------------------
(* Types *)

LEMMA ProcessOfCaller == \A c \in Callers : Home[c] \in Processes
BY DEF Processes

\* Sub-lemma of the types: what a caller may become.
LEMMA QuietIsCall ==
    /\ Quiet \in Call
    /\ \A step \in Steps : [Quiet EXCEPT !.step = step] \in Call
BY DEF Quiet, Call, Steps

\* A caller that gets a new state goes on with it.
LEMMA WithState ==
    ASSUME NEW k \in Call, NEW step \in Steps, NEW cred \in Credential
    PROVE  [k EXCEPT !.step = step, !.cred = cred] \in Call
BY DEF Call

LEMMA OAuthTypes ==
    ASSUME OAuthTypeOK, CredsKnown, Awaited, [OAuthNext]_oauthVars
    PROVE  OAuthTypeOK'
<1> USE CallerAssumption, TimeAssumption, ProcessOfCaller, QuietIsCall
<1>1. CASE UNCHANGED oauthVars
  BY <1>1 DEF OAuthTypeOK, oauthVars, serverVars
<1>2. ASSUME NEW c \in Callers, EntersBusy(c) \/ Enters(c) \/ Acquires(c) \/ TimesOut(c)
      PROVE  OAuthTypeOK'
  BY <1>2 DEF EntersBusy, Enters, Acquires, TimesOut, Ends, OAuthTypeOK, Call, Steps, serverVars
<1>3. ASSUME NEW c \in Callers, LoadsNothing(c) \/ LoadsFresh(c) \/ Asks(c)
      PROVE  OAuthTypeOK'
  BY <1>3 DEF LoadsNothing, LoadsFresh, Asks, Leaving, Fault, OAuthTypeOK, Call, Steps, Credential, Request, serverVars
<1>4. ASSUME NEW c \in Callers, GivesUp(c)
      PROVE  OAuthTypeOK'
  BY <1>4 DEF GivesUp, Leaving, Presented, At, Orphaned, CredsKnown, OAuthTypeOK, Call, Steps, Credential, Request, serverVars
<1>5. ASSUME NEW c \in Callers, WritesTemporary(c) \/ Saves(c) \/ SaveFails(c)
      PROVE  OAuthTypeOK'
  BY SMTT(20), <1>5 DEF WritesTemporary, Saves, SaveFails, Goes, Leaving, Presented, At, Fault, CredsKnown, HasNew, Exchanging, ExchangingSteps, OAuthTypeOK, Call, Steps, Credential, serverVars
<1>6. ASSUME NEW c \in Callers, Leaves(c) \/ Unlocks(c)
      PROVE  OAuthTypeOK'
  BY <1>6 DEF Leaves, Unlocks, Ends, Object, OAuthTypeOK, Call, Steps, serverVars
<1>7. ASSUME NEW c \in Logins, LoginStarts(c) \/ LoginGranted(c) \/ LoginFails(c)
      PROVE  OAuthTypeOK'
  <2>1. c \in Callers
    BY DEF Callers
  <2>2. CASE LoginStarts(c)
    BY <2>1, <2>2 DEF LoginStarts, Quiet, OAuthTypeOK, Call, Steps, serverVars
  <2>3. CASE LoginGranted(c)
    <3>1. Renewed(grants + 1, None) \in Credential
      BY DEF Renewed, Credential, OAuthTypeOK
    <3>2. call' \in [Callers -> Call]
      <4> DEFINE cred == Renewed(grants + 1, None)
      <4>1. call' = [call EXCEPT ![c] = [call[c] EXCEPT !.step = "granted", !.cred = cred]]
        BY <2>1, <2>3 DEF LoginGranted, OAuthTypeOK
      <4>2. [call[c] EXCEPT !.step = "granted", !.cred = cred] \in Call
        <5>1. call[c] \in Call /\ "granted" \in Steps
          BY <2>1 DEF OAuthTypeOK, Steps
        <5> QED BY <3>1, <5>1, WithState
      <4> QED BY <2>1, <4>1, <4>2 DEF OAuthTypeOK
    <3>3. grants' \in Nat /\ valid' \subseteq Nat
      BY <2>3 DEF LoginGranted, OAuthTypeOK
    <3> QED BY <2>3, <3>2, <3>3 DEF LoginGranted, OAuthTypeOK
  <2>4. CASE LoginFails(c)
    BY <2>1, <2>4 DEF LoginFails, Ends, OAuthTypeOK, serverVars
  <2> QED BY <1>7, <2>2, <2>3, <2>4
<1>8. ASSUME NEW q \in requests, ServerRotates(q) \/ ServerKeeps(q) \/ ServerRefuses(q)
      PROVE  OAuthTypeOK'
  <2>1. q \in Request /\ q.by \in Callers \cup {None} /\ q.token \in Nat
    BY DEF OAuthTypeOK, Request
  <2>2. requests' = requests \ {q} /\ grants' \in Nat /\ valid' \subseteq Nat
    BY <1>8, <2>1 DEF ServerRotates, ServerKeeps, ServerRefuses, OAuthTypeOK
  <2>3. PICK cred \in Credential :
           \/ call' = call
           \/ q.by # None /\ call' = [call EXCEPT ![q.by].step = "answered", ![q.by].cred = cred]
           \/ q.by # None /\ call' = [call EXCEPT ![q.by] = [Quiet EXCEPT !.step = "leaving"]]
    <3>1. \A t \in Nat : Renewed(t, q.token) \in Credential
      BY <2>1 DEF Renewed, Credential, OAuthTypeOK
    <3>2. grants \in Nat
      BY DEF OAuthTypeOK
    <3> QED
      BY <1>8, <2>1, <3>1, <3>2 DEF ServerRotates, ServerKeeps, ServerRefuses, Reaches
  <2>4. call' \in [Callers -> Call]
    <3>1. CASE call' = call
      BY <3>1 DEF OAuthTypeOK
    <3>2. CASE q.by # None /\ call' = [call EXCEPT ![q.by].step = "answered", ![q.by].cred = cred]
      BY <2>1, <3>2 DEF OAuthTypeOK, Call, Steps
    <3>3. CASE q.by # None /\ call' = [call EXCEPT ![q.by] = [Quiet EXCEPT !.step = "leaving"]]
      BY <2>1, <3>3 DEF OAuthTypeOK, Steps
    <3> QED BY <2>3, <3>1, <3>2, <3>3
  <2> QED
    BY <1>8, <2>2, <2>4 DEF ServerRotates, ServerKeeps, ServerRefuses, OAuthTypeOK
<1>9. ASSUME NEW p \in Processes, Crash(p)
      PROVE  OAuthTypeOK'
  BY SMTT(20), <1>9 DEF Crash, Presented, Exchanging, ExchangingSteps, At, Orphaned, CredsKnown, HasNew, Fault, OAuthTypeOK, Call, Steps, Credential, Request, serverVars
<1>10. CASE Ticks
  BY <1>10 DEF Ticks, OAuthTypeOK, Call, Steps, serverVars
<1> QED
  BY <1>1, <1>2, <1>3, <1>4, <1>5, <1>6, <1>7, <1>8, <1>9, <1>10
     DEF OAuthNext, Proceeds, ServerHandles

-----------------------------------------------------------------------------
(* The lock *)

\* Where the callers stand after the server has handled a request: the one that
\* waited for it goes on, nobody else moves.
LEMMA ServerMoves ==
    ASSUME OAuthTypeOK, Awaited, NEW q \in requests,
           ServerRotates(q) \/ ServerKeeps(q) \/ ServerRefuses(q)
    PROVE  /\ \A c \in Callers : c # q.by => call'[c] = call[c]
           /\ q.by # None => /\ q.by \in Readers
                            /\ At(q.by, "asked")
                            /\ call'[q.by].step \in {"answered", "leaving"}
<1> USE CallerAssumption
<1>1. q.by # None => q.by \in Readers /\ At(q.by, "asked")
  BY DEF Awaited
<1>2. q.by # None => q.by \in Callers
  BY <1>1 DEF Callers
<1> QED
  BY <1>1, <1>2
     DEF ServerRotates, ServerKeeps, ServerRefuses, Reaches, Quiet, OAuthTypeOK, Call

LEMMA LockStep ==
    ASSUME OAuthTypeOK, SoleHolder, Awaited, [OAuthNext]_oauthVars
    PROVE  SoleHolder'
<1> USE CallerAssumption, ProcessOfCaller
        DEF SoleHolder, Holding, HoldingSteps, At, Object
<1>1. CASE UNCHANGED oauthVars
  BY <1>1 DEF oauthVars
<1>2. ASSUME NEW c \in Callers, EntersBusy(c) \/ Enters(c) \/ TimesOut(c)
      PROVE  SoleHolder'
  BY <1>2 DEF EntersBusy, Enters, AsksForLock, TimesOut, Ends, Quiet, OAuthTypeOK, Call
<1>3. ASSUME NEW c \in Callers, Acquires(c) PROVE SoleHolder'
  BY <1>3 DEF Acquires, OAuthTypeOK, Call
<1>4. ASSUME NEW c \in Callers,
             \/ LoadsNothing(c) \/ LoadsFresh(c) \/ Asks(c) \/ GivesUp(c)
             \/ WritesTemporary(c) \/ Saves(c) \/ SaveFails(c)
      PROVE  SoleHolder'
  BY <1>4 DEF LoadsNothing, LoadsFresh, Asks, GivesUp, WritesTemporary, Saves,
              SaveFails, Goes, Leaving, Quiet, OAuthTypeOK, Call
<1>5. ASSUME NEW c \in Callers, Leaves(c) PROVE SoleHolder'
  BY <1>5 DEF Leaves, Ends, Quiet, OAuthTypeOK, Call
<1>6. ASSUME NEW c \in Callers, Unlocks(c) PROVE SoleHolder'
  BY <1>6 DEF Unlocks, Ends, Quiet, OAuthTypeOK, Call
<1>7. ASSUME NEW c \in Logins, LoginStarts(c) \/ LoginGranted(c) \/ LoginFails(c)
      PROVE  SoleHolder'
  <2>1. c \in Callers
    BY DEF Callers
  <2>2. owner' = owner /\ descriptor' = descriptor
    BY <1>7 DEF LoginStarts, LoginGranted, LoginFails, serverVars
  <2>3. /\ call'[c].step \in {"idle", "authorizing", "granted"}
        /\ \A d \in Callers : d # c => call'[d] = call[d]
    <3>1. CASE LoginStarts(c)
      BY <2>1, <3>1 DEF LoginStarts, Quiet, OAuthTypeOK
    <3>2. CASE LoginGranted(c)
      BY <2>1, <3>2 DEF LoginGranted, OAuthTypeOK, Call
    <3>3. CASE LoginFails(c)
      BY <2>1, <3>3 DEF LoginFails, Ends, Quiet, OAuthTypeOK
    <3> QED BY <1>7, <3>1, <3>2, <3>3
  <2> QED BY <2>1, <2>2, <2>3
<1>8. ASSUME NEW q \in requests, ServerRotates(q) \/ ServerKeeps(q) \/ ServerRefuses(q)
      PROVE  SoleHolder'
  <2>1. owner' = owner /\ descriptor' = descriptor
    BY <1>8 DEF ServerRotates, ServerKeeps, ServerRefuses
  <2>2. \A c \in Callers : c # q.by => call'[c] = call[c]
    BY <1>8, ServerMoves
  <2>3. q.by # None => /\ q.by \in Callers /\ call[q.by].step = "asked"
                       /\ call'[q.by].step \in {"answered", "leaving"}
    BY <1>8, ServerMoves DEF Callers
  <2> QED BY <2>1, <2>2, <2>3
<1>9. ASSUME NEW p \in Processes, Crash(p) PROVE SoleHolder'
  BY <1>9 DEF Crash, Quiet, OAuthTypeOK, Call
<1>10. CASE Ticks
  BY <1>10 DEF Ticks, OAuthTypeOK, Call
<1> QED
  BY <1>1, <1>2, <1>3, <1>4, <1>5, <1>6, <1>7, <1>8, <1>9, <1>10
     DEF OAuthNext, Proceeds, ServerHandles

-----------------------------------------------------------------------------
(* The tokens *)

TokenInv == CredsKnown /\ Awaited /\ TokensApart /\ TokensLive /\ StoredTokenLives

\* A caller never takes a step of the other kind.
LEMMA RolesStep ==
    ASSUME OAuthTypeOK, Roles, Awaited, [OAuthNext]_oauthVars
    PROVE  Roles'
<1> USE CallerAssumption DEF Roles, At
<1>1. CASE UNCHANGED oauthVars
  BY <1>1 DEF oauthVars
<1>2. ASSUME NEW c \in Callers, EntersBusy(c) \/ Enters(c) \/ Acquires(c) \/ TimesOut(c)
      PROVE  Roles'
  BY <1>2 DEF EntersBusy, Enters, Acquires, TimesOut, Ends, Quiet, Callers, OAuthTypeOK, Call
<1>3. ASSUME NEW c \in Callers, LoadsNothing(c) \/ LoadsFresh(c) \/ Asks(c) \/ GivesUp(c)
      PROVE  Roles'
  BY <1>3 DEF LoadsNothing, LoadsFresh, Asks, GivesUp, Leaving, Quiet, Callers, OAuthTypeOK, Call
<1>4. ASSUME NEW c \in Callers, WritesTemporary(c) \/ Saves(c) \/ SaveFails(c)
      PROVE  Roles'
  BY <1>4 DEF WritesTemporary, Saves, SaveFails, Goes, Leaving, Quiet, Callers, OAuthTypeOK, Call
<1>5. ASSUME NEW c \in Callers, Leaves(c) \/ Unlocks(c)
      PROVE  Roles'
  BY <1>5 DEF Leaves, Unlocks, Ends, Quiet, Callers, OAuthTypeOK, Call
<1>6. ASSUME NEW c \in Logins, LoginStarts(c) \/ LoginGranted(c) \/ LoginFails(c)
      PROVE  Roles'
  <2>1. c \in Callers /\ c \notin Readers
    BY DEF Callers
  <2>2. /\ call'[c].step \in {"idle", "authorizing", "granted"}
        /\ \A d \in Callers : d # c => call'[d] = call[d]
    <3>1. CASE LoginStarts(c)
      BY <2>1, <3>1 DEF LoginStarts, Quiet, OAuthTypeOK
    <3>2. CASE LoginGranted(c)
      BY <2>1, <3>2 DEF LoginGranted, OAuthTypeOK, Call
    <3>3. CASE LoginFails(c)
      BY <2>1, <3>3 DEF LoginFails, Ends, Quiet, OAuthTypeOK
    <3> QED BY <1>6, <3>1, <3>2, <3>3
  <2> QED BY <2>1, <2>2 DEF Callers
<1>7. ASSUME NEW q \in requests, ServerRotates(q) \/ ServerKeeps(q) \/ ServerRefuses(q)
      PROVE  Roles'
  BY <1>7, ServerMoves DEF Callers
<1>8. ASSUME NEW p \in Processes, Crash(p) PROVE Roles'
  BY <1>8 DEF Crash, Quiet, Callers, OAuthTypeOK
<1>9. CASE Ticks
  BY <1>9 DEF Ticks, Callers, OAuthTypeOK, Call
<1> QED
  BY <1>1, <1>2, <1>3, <1>4, <1>5, <1>6, <1>7, <1>8, <1>9
     DEF OAuthNext, Proceeds, ServerHandles

\* Most steps leave the stored credential and the tokens alone; what callers
\* carry they keep or drop, and a token dropped in an exchange is spoiled.
LEMMA TokensKept ==
    ASSUME OAuthTypeOK, Roles, Roles', TokenInv,
           stored' = stored, valid' = valid, grants' = grants, spoiled \subseteq spoiled',
           \A d \in Callers : HasNew(d)' => HasNew(d) /\ call'[d].cred = call[d].cred,
           \A d \in Callers : At(d, "asked")' => At(d, "asked") /\ call'[d].cred = call[d].cred,
           \A d \in Callers : Exchanging(d) =>
               \/ Exchanging(d)' /\ Presented(d)' = Presented(d)
               \/ Presented(d) \in valid \cup spoiled',
           \A q \in requests' :
               \/ q \in requests /\ q.by = None
               \/ q \in requests /\ At(q.by, "asked")'
               \/ q.by = None /\ q.token \in spoiled'
    PROVE  TokenInv'
<1> USE CallerAssumption
<1>1. \A d \in Callers : Exchanging(d)' =>
          Exchanging(d) /\ Presented(d)' = Presented(d)
  BY DEF Exchanging, ExchangingSteps, HasNew, Presented, At, Roles
<1>2. CredsKnown'
  BY <1>1 DEF TokenInv, CredsKnown, Callers
<1>3. Awaited'
  BY DEF TokenInv, Awaited, Callers
<1>4. TokensApart'
  BY DEF TokenInv, TokensApart, Callers
<1>5. TokensLive'
  BY DEF TokenInv, TokensLive
<1>6. StoredTokenLives'
  BY DEF TokenInv, StoredTokenLives, Callers
<1> QED BY <1>2, <1>3, <1>4, <1>5, <1>6 DEF TokenInv

\* A step of one caller that keeps or drops what it carries.
LEMMA CallerMoves ==
    ASSUME OAuthTypeOK, Roles, Roles', TokenInv, NEW c \in Callers,
           stored' = stored, valid' = valid, grants' = grants, spoiled \subseteq spoiled',
           \A d \in Callers : d # c => call'[d] = call[d],
           HasNew(c)' => HasNew(c) /\ call'[c].cred = call[c].cred,
           ~At(c, "asked")',
           Exchanging(c) =>
               \/ HasNew(c)' /\ HasNew(c)
               \/ Presented(c) \in spoiled',
           \/ requests' = requests /\ ~At(c, "asked")
           \/ requests' = Orphaned({c}) /\ Exchanging(c)
    PROVE  TokenInv'
<1> USE CallerAssumption
<1>1. \A d \in Callers : HasNew(d)' => HasNew(d) /\ call'[d].cred = call[d].cred
  BY DEF HasNew
<1>2. \A d \in Callers : At(d, "asked")' => At(d, "asked") /\ call'[d].cred = call[d].cred
  BY DEF At
<1>3. \A d \in Callers : Exchanging(d) =>
          \/ Exchanging(d)' /\ Presented(d)' = Presented(d)
          \/ Presented(d) \in valid \cup spoiled'
  <2>1. CASE Exchanging(c) /\ HasNew(c)' /\ HasNew(c)
    <3>1. Exchanging(c)' /\ Presented(c)' = Presented(c)
      BY <2>1 DEF Exchanging, ExchangingSteps, HasNew, Presented, At, Callers
    <3> QED BY <3>1 DEF Exchanging, Presented, At
  <2>2. CASE ~(Exchanging(c) /\ HasNew(c)' /\ HasNew(c))
    BY <2>2 DEF Exchanging, Presented, At
  <2> QED BY <2>1, <2>2
<1>4. \A q \in requests' :
          \/ q \in requests /\ q.by = None
          \/ q \in requests /\ At(q.by, "asked")'
          \/ q.by = None /\ q.token \in spoiled'
  <2>1. CASE requests' = requests /\ ~At(c, "asked")
    BY <2>1 DEF TokenInv, Awaited, At, Callers
  <2>2. CASE requests' = Orphaned({c}) /\ Exchanging(c)
    <3>1. ASSUME NEW q \in requests, q.by = c
          PROVE  [q EXCEPT !.by = None].by = None /\ [q EXCEPT !.by = None].token \in spoiled'
      <4>1. q \in Request /\ At(c, "asked") /\ q.token = call[c].cred.refresh
        BY <3>1 DEF TokenInv, Awaited, OAuthTypeOK
      <4>2. q.token \in spoiled'
        BY <4>1 DEF Presented, HasNew, At, Exchanging
      <4> QED BY <4>1, <4>2 DEF Request
    <3>2. ASSUME NEW q \in requests, q.by # c
          PROVE  q.by = None \/ At(q.by, "asked")'
      BY <3>2 DEF TokenInv, Awaited, At, Callers
    <3> QED BY <2>2, <3>1, <3>2 DEF Orphaned
  <2> QED BY <2>1, <2>2
<1> QED BY <1>1, <1>2, <1>3, <1>4, TokensKept

\* At most one caller holds the lock, hence at most one exchange is on its way.
LEMMA OneHolds ==
    ASSUME SoleHolder
    PROVE  \A c, d \in Callers :
              Holding(c) /\ (Holding(d) \/ Exchanging(d)) => c = d
BY DEF SoleHolder, Holding, HoldingSteps, Exchanging, ExchangingSteps

\* The token a reader sends is the stored one, and no other exchange is on its way.
LEMMA AsksKeeps ==
    ASSUME OAuthTypeOK, SoleHolder, Roles, Roles', TokenInv, NEW c \in Callers, Asks(c)
    PROVE  TokenInv'
<1> USE CallerAssumption
<1> DEFINE r == [by |-> c, token |-> stored.refresh]
<1>1. /\ c \in Readers /\ stored # None /\ stored \in Credential
      /\ call' = [call EXCEPT ![c].step = "asked", ![c].cred = stored]
      /\ requests' = requests \cup {r}
      /\ stored' = stored /\ valid' = valid /\ grants' = grants /\ spoiled' = spoiled
  BY DEF Asks, At, Roles, Callers, OAuthTypeOK
<1>2. \A d \in Callers : ~Exchanging(d)
  BY OneHolds DEF Asks, At, Holding, HoldingSteps, Exchanging, ExchangingSteps
<1>3. stored.refresh \in valid \cup spoiled
  BY <1>1, <1>2 DEF TokenInv, StoredTokenLives, Callers
<1>4. /\ call'[c].step = "asked" /\ call'[c].cred = stored
      /\ \A d \in Callers : d # c => call'[d] = call[d]
  BY <1>1 DEF OAuthTypeOK, Call
<1>5. \A d \in Callers : HasNew(d)' => HasNew(d) /\ d # c /\ call'[d] = call[d]
  BY <1>1, <1>4 DEF HasNew, Callers
<1>6. \A d \in Callers : At(d, "asked")' => d = c
  BY <1>2, <1>4 DEF At, Exchanging, ExchangingSteps, Roles, Callers
<1>7. \A d \in Callers : Exchanging(d)' => d = c
  BY <1>2, <1>4 DEF Exchanging
<1>8. CredsKnown'
  <2>1. Presented(c)' = stored.refresh
    BY <1>4 DEF Presented, At
  <2> QED BY <1>1, <1>4, <1>5, <1>6, <1>7, <2>1 DEF TokenInv, CredsKnown, Callers
<1>9. Awaited'
  <2>1. \A q \in requests : q.by = None /\ q.token \in spoiled
    BY <1>2 DEF TokenInv, Awaited, At, Exchanging, ExchangingSteps, Callers
  <2>2. r.by = c /\ r.token = stored.refresh
    OBVIOUS
  <2> HIDE DEF r
  <2> QED BY <1>1, <1>4, <2>1, <2>2 DEF Awaited, At
<1>10. TokensApart'
  BY <1>1, <1>5 DEF TokenInv, TokensApart, Callers
<1>11. TokensLive'
  BY <1>1, <1>3, <1>4, <1>5, <1>6 DEF TokenInv, TokensLive
<1>12. StoredTokenLives'
  BY <1>1, <1>3 DEF StoredTokenLives
<1> QED BY <1>8, <1>9, <1>10, <1>11, <1>12 DEF TokenInv

\* The rename makes the carried state the stored one; nobody else exchanges.
LEMMA SavesKeeps ==
    ASSUME OAuthTypeOK, SoleHolder, Roles, Roles', TokenInv, NEW c \in Callers, Saves(c)
    PROVE  TokenInv'
<1> USE CallerAssumption
<1>1. /\ HasNew(c) /\ call[c].step \in {"answered", "written"}
      /\ stored' = call[c].cred
      /\ valid' = valid /\ grants' = grants /\ spoiled' = spoiled /\ requests' = requests
  BY DEF Saves, At, HasNew, Callers, serverVars
<1>2. call'[c].step = "leaving" /\ \A d \in Callers : d # c => call'[d] = call[d]
  BY DEF Saves, Leaving, Quiet, OAuthTypeOK
<1>3. \A d \in Callers : d # c => ~Exchanging(d)
  BY <1>1, OneHolds DEF Holding, HoldingSteps
<1>4. \A d \in Callers : ~Exchanging(d)' /\ ~At(d, "asked")'
  BY <1>2, <1>3 DEF Exchanging, ExchangingSteps, At, Roles, Callers
<1>5. \A d \in Callers : HasNew(d)' => HasNew(d) /\ d # c /\ call'[d] = call[d] /\ d \in Logins
  BY <1>2, <1>3 DEF HasNew, Exchanging, ExchangingSteps
<1>6. CredsKnown'
  BY <1>4, <1>5 DEF TokenInv, CredsKnown, Callers
<1>7. Awaited'
  <2>1. \A q \in requests : q.by = None /\ q.token \in spoiled
    BY <1>1, <1>3 DEF TokenInv, Awaited, At, Exchanging, ExchangingSteps, Callers
  <2> QED BY <1>1, <2>1 DEF Awaited
<1>8. TokensApart'
  BY <1>1, <1>5 DEF TokenInv, TokensApart, Callers
<1>9. TokensLive'
  BY <1>1, <1>4, <1>5 DEF TokenInv, TokensLive
<1>10. StoredTokenLives'
  BY <1>1 DEF TokenInv, TokensLive, StoredTokenLives
<1> QED BY <1>6, <1>7, <1>8, <1>9, <1>10 DEF TokenInv

\* A login gets a token of its own.
LEMMA LoginKeeps ==
    ASSUME OAuthTypeOK, Roles, Roles', TokenInv, NEW c \in Logins, LoginGranted(c)
    PROVE  TokenInv'
<1> USE CallerAssumption
<1> DEFINE cred == Renewed(grants + 1, None)
<1>1. /\ c \in Callers /\ c \notin Readers /\ At(c, "authorizing") /\ grants \in Nat
      /\ cred \in Credential /\ cred.refresh = grants + 1 /\ cred.parent = None
      /\ grants' = grants + 1 /\ valid' = valid \cup {grants + 1}
      /\ stored' = stored /\ spoiled' = spoiled /\ requests' = requests
  <2>1. c \in Callers /\ c \notin Readers /\ grants \in Nat /\ now \in Nat
    BY DEF Callers, OAuthTypeOK
  <2>2. cred \in Credential /\ cred.refresh = grants + 1 /\ cred.parent = None
    BY <2>1, TimeAssumption DEF Renewed, Credential
  <2> QED BY <2>1, <2>2 DEF LoginGranted
<1>2. /\ call'[c].step = "granted" /\ call'[c].cred = cred
      /\ \A d \in Callers : d # c => call'[d] = call[d]
  BY <1>1 DEF LoginGranted, OAuthTypeOK, Call
<1> HIDE DEF cred
<1>3. \A d \in Callers : d # c => (HasNew(d)' <=> HasNew(d)) /\ (Exchanging(d)' <=> Exchanging(d))
                                /\ (At(d, "asked")' <=> At(d, "asked")) /\ Presented(d)' = Presented(d)
  BY <1>2 DEF HasNew, Exchanging, At, Presented
<1>4. ~At(c, "asked")' /\ ~Exchanging(c)' /\ ~Exchanging(c) /\ ~At(c, "asked") /\ HasNew(c)'
  BY <1>1, <1>2 DEF At, Exchanging, HasNew
<1>5. CredsKnown'
  BY <1>1, <1>2, <1>3, <1>4 DEF TokenInv, CredsKnown, Callers
<1>6. Awaited'
  BY <1>1, <1>2, <1>3, <1>4 DEF TokenInv, Awaited, Callers
<1>7. TokensApart'
  <2>1. \A d \in Callers : HasNew(d) => call[d].cred.refresh \in Nat
    BY DEF TokenInv, CredsKnown, Credential
  <2>2. stored # None => stored.refresh \in Nat
    BY DEF OAuthTypeOK, Credential
  <2> QED BY <1>1, <1>2, <1>3, <1>4, <2>1, <2>2 DEF TokenInv, TokensApart, Callers
<1>8. TokensLive'
  BY <1>1, <1>2, <1>3, <1>4 DEF TokenInv, TokensLive, Callers
<1>9. StoredTokenLives'
  BY <1>1, <1>3, <1>4 DEF TokenInv, StoredTokenLives, Callers
<1> QED BY <1>5, <1>6, <1>7, <1>8, <1>9 DEF TokenInv

\* What an answered reader carries: it still exchanges the stored state.
LEMMA AnswerReaches ==
    ASSUME OAuthTypeOK, SoleHolder, Roles, TokenInv, NEW q \in requests, q.by # None,
           NEW cred \in Credential, cred.parent = q.token, Reaches(q, cred)
    PROVE  /\ q.by \in Readers /\ q.by \in Callers
           /\ stored # None /\ q.token = stored.refresh
           /\ call'[q.by].step = "answered" /\ call'[q.by].cred = cred
           /\ \A d \in Callers : d # q.by => call'[d] = call[d] /\ ~Exchanging(d)
<1> USE CallerAssumption
<1>1. q.by \in Readers /\ q.by \in Callers /\ At(q.by, "asked") /\ q.token = call[q.by].cred.refresh
  BY DEF TokenInv, Awaited, Callers
<1>2. Exchanging(q.by) /\ Presented(q.by) = q.token /\ Holding(q.by)
  BY <1>1 DEF Exchanging, ExchangingSteps, Presented, Holding, HoldingSteps, At
<1>3. stored # None /\ q.token = stored.refresh
  BY <1>1, <1>2 DEF TokenInv, CredsKnown
<1>4. \A d \in Callers : d # q.by => ~Exchanging(d)
  BY <1>1, <1>2, OneHolds
<1>5. /\ call'[q.by].step = "answered" /\ call'[q.by].cred = cred
      /\ \A d \in Callers : d # q.by => call'[d] = call[d]
  BY <1>1 DEF Reaches, OAuthTypeOK, Call
<1> QED BY <1>1, <1>3, <1>4, <1>5

\* Handling a request that nobody waits for changes no caller.
LEMMA AnswerIsLost ==
    ASSUME NEW q \in requests, q.by = None, NEW cred, Reaches(q, cred)
    PROVE  call' = call
BY DEF Reaches

\* The exchange of a token: it is spoiled already, or it is the stored one and
\* its reader carries the successor.
LEMMA RotatesKeeps ==
    ASSUME OAuthTypeOK, SoleHolder, Roles, Roles', TokenInv, NEW q \in requests, ServerRotates(q)
    PROVE  TokenInv'
<1> USE CallerAssumption
<1> DEFINE cred == Renewed(grants + 1, q.token)
<1>1. /\ grants \in Nat /\ q.token \in Nat
      /\ cred \in Credential /\ cred.refresh = grants + 1 /\ cred.parent = q.token
  <2>1. grants \in Nat /\ now \in Nat /\ TTL \in Nat /\ q.token \in Nat
    BY TimeAssumption DEF OAuthTypeOK, Request
  <2> QED BY <2>1 DEF Renewed, Credential
<1>2. /\ grants' = grants + 1 /\ valid' = (valid \ {q.token}) \cup {grants + 1}
      /\ Reaches(q, cred)
      /\ stored' = stored /\ spoiled' = spoiled /\ requests' = requests \ {q}
  BY DEF ServerRotates
<1> HIDE DEF cred
<1>3. CASE q.by = None
  <2>1. q.token \in spoiled
    BY <1>3 DEF TokenInv, Awaited, Callers
  <2>2. call' = call
    BY <1>2, <1>3, AnswerIsLost
  <2>3. valid \cup spoiled \subseteq valid' \cup spoiled'
    BY <1>2, <2>1
  <2>4. /\ \A d \in Callers : (HasNew(d)' <=> HasNew(d)) /\ (Exchanging(d)' <=> Exchanging(d))
                              /\ (At(d, "asked")' <=> At(d, "asked")) /\ Presented(d)' = Presented(d)
    BY <2>2 DEF HasNew, Exchanging, At, Presented
  <2>5. CredsKnown'
    BY <1>2, <2>2, <2>4 DEF TokenInv, CredsKnown, Callers
  <2>6. Awaited'
    BY <1>2, <2>2, <2>4 DEF TokenInv, Awaited, Callers
  <2>7. TokensApart'
    <3>1. \A d \in Callers : HasNew(d) => call[d].cred.refresh \in Nat
      BY DEF TokenInv, CredsKnown, Credential
    <3>2. stored # None => stored.refresh \in Nat
      BY DEF OAuthTypeOK, Credential
    <3> QED BY <1>1, <1>2, <2>2, <2>4, <3>1, <3>2 DEF TokenInv, TokensApart, Callers
  <2>8. TokensLive'
    BY <2>2, <2>3, <2>4 DEF TokenInv, TokensLive
  <2>9. StoredTokenLives'
    BY <1>2, <2>1, <2>4 DEF TokenInv, StoredTokenLives, Callers
  <2> QED BY <2>5, <2>6, <2>7, <2>8, <2>9 DEF TokenInv
<1>4. CASE q.by # None
  <2> DEFINE c == q.by
  <2>1. /\ c \in Readers /\ c \in Callers /\ c \notin Logins
        /\ stored # None /\ q.token = stored.refresh
        /\ call'[c].step = "answered" /\ call'[c].cred = cred
        /\ \A d \in Callers : d # c => call'[d] = call[d] /\ ~Exchanging(d)
    BY <1>1, <1>2, <1>4, AnswerReaches
  <2> HIDE DEF c
  <2>2. \A d \in Callers : HasNew(d)' => d = c \/ (d \in Logins /\ HasNew(d) /\ call'[d] = call[d])
    <3>1. ASSUME NEW d \in Callers, d # c, HasNew(d)' PROVE d \in Logins /\ HasNew(d)
      <4>1. call'[d] = call[d] /\ ~Exchanging(d)
        BY <2>1, <3>1
      <4> QED BY <3>1, <4>1 DEF HasNew, Exchanging, ExchangingSteps
    <3> QED BY <2>1, <3>1
  <2>3. \A d \in Callers : ~At(d, "asked")' /\ (Exchanging(d)' => d = c)
    <3>1. ASSUME NEW d \in Callers, d # c PROVE ~At(d, "asked")' /\ ~Exchanging(d)'
      BY <2>1, <3>1 DEF At, Exchanging, ExchangingSteps, Roles, Callers
    <3>2. ~At(c, "asked")'
      BY <2>1 DEF At
    <3> QED BY <3>1, <3>2
  <2>4. Presented(c)' = stored.refresh /\ Exchanging(c)'
    BY <1>1, <2>1 DEF Presented, At, Exchanging, ExchangingSteps
  <2>5. \A d \in Callers : HasNew(d) => call[d].cred.refresh \in Nat /\ call[d].cred.refresh <= grants
    BY DEF TokenInv, CredsKnown, Credential, TokensApart
  <2>6. stored.refresh \in Nat /\ stored.refresh <= grants
    BY <2>1 DEF TokenInv, TokensApart, OAuthTypeOK, Credential
  <2>7. CredsKnown'
    BY <1>1, <1>2, <2>1, <2>2, <2>3, <2>4 DEF TokenInv, CredsKnown, Callers
  <2>8. Awaited'
    <3>1. \A r \in requests : r.by # None => r = q
      <4>1. SUFFICES ASSUME NEW r \in requests, r.by # None PROVE r = q
        OBVIOUS
      <4>2. r.by \in Readers /\ At(r.by, "asked") /\ r.token = call[r.by].cred.refresh
        BY <4>1 DEF TokenInv, Awaited
      <4>3. r.by = c
        BY <2>1, <4>2 DEF At, Exchanging, ExchangingSteps, Callers
      <4>4. r.token = q.token /\ r.by = q.by
        BY <1>4, <4>2, <4>3 DEF TokenInv, Awaited, c
      <4>5. r \in Request /\ q \in Request
        BY DEF OAuthTypeOK
      <4> QED BY <4>4, <4>5 DEF Request
    <3>2. \A r \in requests' : r \in requests /\ r.by = None
      BY <1>2, <3>1
    <3>3. \A r \in requests : r.by = None => r.token \in spoiled
      BY DEF TokenInv, Awaited, Callers
    <3> QED BY <1>2, <3>2, <3>3 DEF Awaited
  <2>9. TokensApart'
    BY <1>1, <1>2, <2>1, <2>2, <2>5, <2>6 DEF TokenInv, TokensApart, Callers
  <2>10. TokensLive'
    BY <1>1, <1>2, <2>1, <2>2, <2>3 DEF TokenInv, TokensLive, TokensApart
  <2>11. StoredTokenLives'
    BY <1>2, <2>1, <2>4 DEF StoredTokenLives
  <2> QED BY <2>7, <2>8, <2>9, <2>10, <2>11 DEF TokenInv
<1> QED BY <1>3, <1>4

\* An answer without a new refresh token: the presented one goes on living.
LEMMA KeepsKeeps ==
    ASSUME OAuthTypeOK, SoleHolder, Roles, Roles', TokenInv, NEW q \in requests, ServerKeeps(q)
    PROVE  TokenInv'
<1> USE CallerAssumption
<1> DEFINE cred == Renewed(q.token, q.token)
<1>1. cred \in Credential /\ cred.refresh = q.token /\ cred.parent = q.token
  <2>1. now \in Nat /\ TTL \in Nat /\ q.token \in Nat
    BY TimeAssumption DEF OAuthTypeOK, Request
  <2> QED BY <2>1 DEF Renewed, Credential
<1>2. /\ grants' = grants /\ valid' = valid /\ q.token \in valid
      /\ Reaches(q, cred)
      /\ stored' = stored /\ spoiled' = spoiled /\ requests' = requests \ {q}
  BY DEF ServerKeeps
<1> HIDE DEF cred
<1>3. CASE q.by = None
  <2>1. call' = call
    BY <1>2, <1>3, AnswerIsLost
  <2>2. \A d \in Callers : (HasNew(d)' <=> HasNew(d)) /\ (Exchanging(d)' <=> Exchanging(d))
                           /\ (At(d, "asked")' <=> At(d, "asked")) /\ Presented(d)' = Presented(d)
    BY <2>1 DEF HasNew, Exchanging, At, Presented
  <2>3. \A r \in requests' : r \in requests /\ (r.by = None \/ At(r.by, "asked")')
    BY <1>2, <2>1 DEF TokenInv, Awaited, At
  <2> QED BY <1>2, <2>1, <2>2, <2>3, TokensKept
<1>4. CASE q.by # None
  <2> DEFINE c == q.by
  <2>1. /\ c \in Readers /\ c \in Callers /\ c \notin Logins
        /\ stored # None /\ q.token = stored.refresh
        /\ call'[c].step = "answered" /\ call'[c].cred = cred
        /\ \A d \in Callers : d # c => call'[d] = call[d] /\ ~Exchanging(d)
    BY <1>1, <1>2, <1>4, AnswerReaches
  <2> HIDE DEF c
  <2>2. \A d \in Callers : HasNew(d)' => d = c \/ (d \in Logins /\ HasNew(d) /\ call'[d] = call[d])
    <3>1. ASSUME NEW d \in Callers, d # c, HasNew(d)' PROVE d \in Logins /\ HasNew(d)
      <4>1. call'[d] = call[d] /\ ~Exchanging(d)
        BY <2>1, <3>1
      <4> QED BY <3>1, <4>1 DEF HasNew, Exchanging, ExchangingSteps
    <3> QED BY <2>1, <3>1
  <2>3. \A d \in Callers : ~At(d, "asked")' /\ (Exchanging(d)' => d = c)
    <3>1. ASSUME NEW d \in Callers, d # c PROVE ~At(d, "asked")' /\ ~Exchanging(d)'
      BY <2>1, <3>1 DEF At, Exchanging, ExchangingSteps, Roles, Callers
    <3>2. ~At(c, "asked")'
      BY <2>1 DEF At
    <3> QED BY <3>1, <3>2
  <2>4. Presented(c)' = stored.refresh
    BY <1>1, <2>1 DEF Presented, At
  <2>5. CredsKnown'
    BY <1>1, <1>2, <2>1, <2>2, <2>3, <2>4 DEF TokenInv, CredsKnown, Callers
  <2>6. Awaited'
    <3>1. \A r \in requests : r.by # None => r = q
      <4>1. SUFFICES ASSUME NEW r \in requests, r.by # None PROVE r = q
        OBVIOUS
      <4>2. r.by \in Readers /\ At(r.by, "asked") /\ r.token = call[r.by].cred.refresh
        BY <4>1 DEF TokenInv, Awaited
      <4>3. r.by = c
        BY <2>1, <4>2 DEF At, Exchanging, ExchangingSteps, Callers
      <4>4. r.token = q.token /\ r.by = q.by
        BY <1>4, <4>2, <4>3 DEF TokenInv, Awaited, c
      <4>5. r \in Request /\ q \in Request
        BY DEF OAuthTypeOK
      <4> QED BY <4>4, <4>5 DEF Request
    <3>2. \A r \in requests' : r \in requests /\ r.by = None
      BY <1>2, <3>1
    <3>3. \A r \in requests : r.by = None => r.token \in spoiled
      BY DEF TokenInv, Awaited, Callers
    <3> QED BY <1>2, <3>2, <3>3 DEF Awaited
  <2>7. TokensApart'
    BY <1>1, <1>2, <2>1, <2>2 DEF TokenInv, TokensApart, Callers
  <2>8. TokensLive'
    BY <1>1, <1>2, <2>1, <2>2, <2>3 DEF TokenInv, TokensLive
  <2>9. StoredTokenLives'
    BY <1>2, <2>1 DEF StoredTokenLives
  <2> QED BY <2>5, <2>6, <2>7, <2>8, <2>9 DEF TokenInv
<1> QED BY <1>3, <1>4

\* An error answer: the token is good still, or it was spoiled before.
LEMMA RefusesKeeps ==
    ASSUME OAuthTypeOK, SoleHolder, Roles, Roles', TokenInv, NEW q \in requests, ServerRefuses(q)
    PROVE  TokenInv'
<1> USE CallerAssumption
<1>1. /\ stored' = stored /\ valid' = valid /\ grants' = grants /\ spoiled' = spoiled
      /\ requests' = requests \ {q}
  BY DEF ServerRefuses
<1>2. CASE q.by = None
  <2>1. call' = call
    BY <1>2 DEF ServerRefuses
  <2>2. \A d \in Callers : (HasNew(d)' <=> HasNew(d)) /\ (Exchanging(d)' <=> Exchanging(d))
                           /\ (At(d, "asked")' <=> At(d, "asked")) /\ Presented(d)' = Presented(d)
    BY <2>1 DEF HasNew, Exchanging, At, Presented
  <2>3. \A r \in requests' : r \in requests /\ (r.by = None \/ At(r.by, "asked")')
    BY <1>1, <2>1 DEF TokenInv, Awaited, At
  <2> QED BY <1>1, <2>1, <2>2, <2>3, TokensKept
<1>3. CASE q.by # None
  <2> DEFINE c == q.by
  <2>1. c \in Readers /\ c \in Callers /\ At(c, "asked") /\ q.token = call[c].cred.refresh
    BY <1>3 DEF TokenInv, Awaited, Callers
  <2>2. call'[c].step = "leaving" /\ \A d \in Callers : d # c => call'[d] = call[d]
    BY <1>3, <2>1 DEF ServerRefuses, Quiet, OAuthTypeOK
  <2>3. \A r \in requests : r.by = c => r = q
    <3>1. SUFFICES ASSUME NEW r \in requests, r.by = c PROVE r = q
      OBVIOUS
    <3>2. r.token = q.token /\ r.by = q.by
      BY <1>3, <2>1, <3>1 DEF TokenInv, Awaited
    <3> QED BY <3>2 DEF Request, OAuthTypeOK
  <2> HIDE DEF c
  <2>4. \A d \in Callers : HasNew(d)' => HasNew(d) /\ call'[d].cred = call[d].cred
    BY <2>1, <2>2 DEF HasNew, Callers
  <2>5. \A d \in Callers : At(d, "asked")' => At(d, "asked") /\ call'[d].cred = call[d].cred
    BY <2>1, <2>2 DEF At
  <2>6. \A d \in Callers : Exchanging(d) =>
            \/ Exchanging(d)' /\ Presented(d)' = Presented(d)
            \/ Presented(d) \in valid \cup spoiled'
    <3>1. Presented(c) \in valid \cup spoiled
      BY <2>1 DEF TokenInv, TokensLive, Presented
    <3>2. ASSUME NEW d \in Callers, d # c, Exchanging(d)
          PROVE  Exchanging(d)' /\ Presented(d)' = Presented(d)
      BY <2>2, <3>2 DEF Exchanging, Presented, At
    <3> QED BY <1>1, <3>1, <3>2
  <2>7. \A r \in requests' : r \in requests /\ (r.by = None \/ At(r.by, "asked")')
    <3>1. ASSUME NEW r \in requests' PROVE r.by = None \/ At(r.by, "asked")'
      <4>1. r \in requests /\ r.by # c
        BY <1>1, <2>3
      <4>2. r.by = None \/ (r.by \in Callers /\ At(r.by, "asked"))
        BY <4>1 DEF TokenInv, Awaited, Callers
      <4> QED BY <2>2, <4>1, <4>2 DEF At
    <3> QED BY <1>1, <3>1
  <2> QED BY <1>1, <2>4, <2>5, <2>6, <2>7, TokensKept
<1> QED BY <1>2, <1>3

LEMMA TokenStep ==
    ASSUME OAuthTypeOK, SoleHolder, Roles, Roles', TokenInv, [OAuthNext]_oauthVars
    PROVE  TokenInv'
<1> USE CallerAssumption
<1>1. CASE UNCHANGED oauthVars
  <2>1. \A d \in Callers : (HasNew(d)' <=> HasNew(d)) /\ (Exchanging(d)' <=> Exchanging(d))
                           /\ (At(d, "asked")' <=> At(d, "asked")) /\ Presented(d)' = Presented(d)
    BY <1>1 DEF oauthVars, HasNew, Exchanging, At, Presented
  <2>2. \A r \in requests' : r \in requests /\ (r.by = None \/ At(r.by, "asked")')
    BY <1>1 DEF TokenInv, Awaited, At, oauthVars, serverVars
  <2> QED BY <1>1, <2>1, <2>2, TokensKept DEF oauthVars, serverVars
<1>2. ASSUME NEW c \in Callers, EntersBusy(c) \/ Enters(c) PROVE TokenInv'
  <2>1. /\ stored' = stored /\ valid' = valid /\ grants' = grants /\ spoiled' = spoiled
        /\ requests' = requests
    BY <1>2 DEF EntersBusy, Enters, serverVars
  <2>2. /\ \A d \in Callers : d # c => call'[d] = call[d]
        /\ call'[c].step \in {"refused", "polling"}
        /\ call'[c].step = "polling" => call'[c].cred = call[c].cred
    BY <1>2 DEF EntersBusy, Enters, Quiet, OAuthTypeOK, Call
  <2>3. HasNew(c)' => HasNew(c) /\ call'[c].cred = call[c].cred
    BY <1>2, <2>2 DEF EntersBusy, Enters, AsksForLock, HasNew, Callers
  <2>4. ~At(c, "asked")' /\ ~At(c, "asked") /\ ~Exchanging(c)
    BY <1>2, <2>2 DEF EntersBusy, Enters, AsksForLock, At, Exchanging, ExchangingSteps
  <2> QED BY <2>1, <2>2, <2>3, <2>4, CallerMoves
<1>3. ASSUME NEW c \in Callers, Acquires(c) \/ TimesOut(c) PROVE TokenInv'
  <2>1. /\ stored' = stored /\ valid' = valid /\ grants' = grants /\ spoiled' = spoiled
        /\ requests' = requests
    BY <1>3 DEF Acquires, TimesOut, serverVars
  <2>2. /\ \A d \in Callers : d # c => call'[d] = call[d]
        /\ call'[c].step \in {"idle", "inside", "answered"}
        /\ call'[c].step = "answered" => c \in Logins /\ call'[c].cred = call[c].cred
    BY <1>3 DEF Acquires, TimesOut, Ends, Quiet, OAuthTypeOK, Call, Callers
  <2>3. HasNew(c)' => HasNew(c) /\ call'[c].cred = call[c].cred
    BY <1>3, <2>2 DEF Acquires, TimesOut, At, HasNew, Callers
  <2>4. ~At(c, "asked")' /\ ~At(c, "asked") /\ ~Exchanging(c)
    BY <1>3, <2>2 DEF Acquires, TimesOut, At, Exchanging, ExchangingSteps
  <2> QED BY <2>1, <2>2, <2>3, <2>4, CallerMoves
<1>4. ASSUME NEW c \in Callers, LoadsNothing(c) \/ LoadsFresh(c) PROVE TokenInv'
  <2>1. /\ stored' = stored /\ valid' = valid /\ grants' = grants /\ spoiled' = spoiled
        /\ requests' = requests
    BY <1>4 DEF LoadsNothing, LoadsFresh, serverVars
  <2>2. call'[c].step = "leaving" /\ \A d \in Callers : d # c => call'[d] = call[d]
    BY <1>4 DEF LoadsNothing, LoadsFresh, Leaving, Quiet, OAuthTypeOK
  <2>3. ~HasNew(c)' /\ ~At(c, "asked")' /\ ~At(c, "asked") /\ ~Exchanging(c)
    BY <1>4, <2>2 DEF LoadsNothing, LoadsFresh, HasNew, At, Exchanging, ExchangingSteps
  <2> QED BY <2>1, <2>2, <2>3, CallerMoves
<1>5. ASSUME NEW c \in Callers, GivesUp(c) PROVE TokenInv'
  <2>1. /\ stored' = stored /\ valid' = valid /\ grants' = grants
        /\ spoiled' = spoiled \cup {Presented(c)} /\ requests' = Orphaned({c})
    BY <1>5 DEF GivesUp
  <2>2. call'[c].step = "leaving" /\ \A d \in Callers : d # c => call'[d] = call[d]
    BY <1>5 DEF GivesUp, Leaving, Quiet, OAuthTypeOK
  <2>3. ~HasNew(c)' /\ ~At(c, "asked")' /\ Exchanging(c)
    BY <1>5, <2>2 DEF GivesUp, HasNew, At, Exchanging, ExchangingSteps, Roles, Callers
  <2> QED BY <2>1, <2>2, <2>3, CallerMoves
<1>6. ASSUME NEW c \in Callers, WritesTemporary(c) PROVE TokenInv'
  <2>1. /\ stored' = stored /\ valid' = valid /\ grants' = grants /\ spoiled' = spoiled
        /\ requests' = requests
    BY <1>6 DEF WritesTemporary, serverVars
  <2>2. /\ call[c].step = "answered" /\ call'[c].step = "written"
        /\ call'[c].cred = call[c].cred
        /\ \A d \in Callers : d # c => call'[d] = call[d]
    BY <1>6 DEF WritesTemporary, At, Goes, OAuthTypeOK, Call
  <2>3. HasNew(c)' /\ HasNew(c) /\ ~At(c, "asked")' /\ ~At(c, "asked")
    BY <2>2 DEF HasNew, At, Callers
  <2> QED BY <2>1, <2>2, <2>3, CallerMoves
<1>7. ASSUME NEW c \in Callers, SaveFails(c) PROVE TokenInv'
  <2>1. /\ stored' = stored /\ valid' = valid /\ grants' = grants
        /\ requests' = requests
        /\ spoiled' = IF c \in Readers THEN spoiled \cup {Presented(c)} ELSE spoiled
    BY <1>7 DEF SaveFails, serverVars
  <2>2. call'[c].step = "leaving" /\ \A d \in Callers : d # c => call'[d] = call[d]
    BY <1>7 DEF SaveFails, Leaving, Quiet, OAuthTypeOK
  <2>3. ~HasNew(c)' /\ ~At(c, "asked")' /\ ~At(c, "asked")
    BY <1>7, <2>2 DEF SaveFails, HasNew, At
  <2>4. Exchanging(c) => Presented(c) \in spoiled'
    BY <2>1 DEF Exchanging
  <2> QED BY <2>1, <2>2, <2>3, <2>4, CallerMoves
<1>8. ASSUME NEW c \in Callers, Leaves(c) \/ Unlocks(c) PROVE TokenInv'
  <2>1. /\ stored' = stored /\ valid' = valid /\ grants' = grants /\ spoiled' = spoiled
        /\ requests' = requests
    BY <1>8 DEF Leaves, Unlocks, serverVars
  <2>2. /\ call'[c].step \in {"idle", "unlocking"}
        /\ \A d \in Callers : d # c => call'[d] = call[d]
    BY <1>8 DEF Leaves, Unlocks, Ends, Quiet, OAuthTypeOK, Call
  <2>3. ~HasNew(c)' /\ ~At(c, "asked")' /\ ~At(c, "asked") /\ ~Exchanging(c)
    BY <1>8, <2>2 DEF Leaves, Unlocks, HasNew, At, Exchanging, ExchangingSteps
  <2> QED BY <2>1, <2>2, <2>3, CallerMoves
<1>9. ASSUME NEW c \in Logins, LoginStarts(c) \/ LoginFails(c) PROVE TokenInv'
  <2>1. /\ stored' = stored /\ valid' = valid /\ grants' = grants /\ spoiled' = spoiled
        /\ requests' = requests /\ c \in Callers
    BY <1>9 DEF LoginStarts, LoginFails, serverVars, Callers
  <2>2. /\ call'[c].step \in {"idle", "authorizing"}
        /\ \A d \in Callers : d # c => call'[d] = call[d]
    <3>1. CASE LoginStarts(c)
      BY <2>1, <3>1 DEF LoginStarts, Quiet, OAuthTypeOK
    <3>2. CASE LoginFails(c)
      BY <2>1, <3>2 DEF LoginFails, Ends, Quiet, OAuthTypeOK
    <3> QED BY <1>9, <3>1, <3>2
  <2>3. ~HasNew(c)' /\ ~At(c, "asked")' /\ ~At(c, "asked") /\ ~Exchanging(c)
    BY <1>9, <2>2 DEF LoginStarts, LoginFails, HasNew, At, Exchanging, ExchangingSteps
  <2> QED BY <2>1, <2>2, <2>3, CallerMoves
<1>10. ASSUME NEW p \in Processes, Crash(p) PROVE TokenInv'
  <2> DEFINE gone == {c \in Callers : Home[c] = p}
  <2>1. /\ stored' = stored /\ valid' = valid /\ grants' = grants
        /\ requests' = Orphaned(gone)
        /\ spoiled' = spoiled \cup {Presented(c) : c \in {d \in gone : Exchanging(d)}}
        /\ call' = [c \in Callers |-> IF c \in gone THEN Quiet ELSE call[c]]
    BY <1>10 DEF Crash
  <2>2. \A d \in gone : call'[d].step = "idle" /\ d \in Callers
    BY <2>1 DEF Quiet
  <2>3. \A d \in Callers : d \notin gone => call'[d] = call[d]
    BY <2>1
  <2>4. \A d \in gone : Exchanging(d) => Presented(d) \in spoiled'
    BY <2>1
  <2> HIDE DEF gone
  <2>5. \A d \in Callers : HasNew(d)' => HasNew(d) /\ call'[d].cred = call[d].cred
    BY <2>2, <2>3 DEF HasNew
  <2>6. \A d \in Callers : At(d, "asked")' => At(d, "asked") /\ call'[d].cred = call[d].cred
    BY <2>2, <2>3 DEF At
  <2>7. \A d \in Callers : Exchanging(d) =>
            \/ Exchanging(d)' /\ Presented(d)' = Presented(d)
            \/ Presented(d) \in valid \cup spoiled'
    BY <2>3, <2>4 DEF Exchanging, Presented, At
  <2>8. \A q \in requests' :
            \/ q \in requests /\ q.by = None
            \/ q \in requests /\ At(q.by, "asked")'
            \/ q.by = None /\ q.token \in spoiled'
    <3>1. ASSUME NEW q \in requests, q.by \in gone
          PROVE  [q EXCEPT !.by = None].by = None /\ [q EXCEPT !.by = None].token \in spoiled'
      <4>1. /\ q \in Request /\ q.by \in Readers /\ At(q.by, "asked")
            /\ q.token = call[q.by].cred.refresh
        BY <2>2, <3>1 DEF TokenInv, Awaited, OAuthTypeOK
      <4>2. Exchanging(q.by) /\ Presented(q.by) = q.token
        BY <4>1 DEF Exchanging, ExchangingSteps, Presented, At
      <4> QED BY <2>4, <3>1, <4>1, <4>2 DEF Request
    <3>2. ASSUME NEW q \in requests, q.by \notin gone
          PROVE  q.by = None \/ At(q.by, "asked")'
      BY <2>3, <3>2 DEF TokenInv, Awaited, At, Callers
    <3> QED BY <2>1, <3>1, <3>2 DEF Orphaned
  <2> QED BY <2>1, <2>5, <2>6, <2>7, <2>8, TokensKept
<1>11. CASE Ticks
  <2>1. /\ stored' = stored /\ valid' = valid /\ grants' = grants /\ spoiled' = spoiled
        /\ requests' = requests
    BY <1>11 DEF Ticks, serverVars
  <2>2. \A d \in Callers : call'[d].step = call[d].step /\ call'[d].cred = call[d].cred
    BY <1>11 DEF Ticks, OAuthTypeOK, Call
  <2>3. \A d \in Callers : (HasNew(d)' <=> HasNew(d)) /\ (Exchanging(d)' <=> Exchanging(d))
                           /\ (At(d, "asked")' <=> At(d, "asked")) /\ Presented(d)' = Presented(d)
    BY <2>2 DEF HasNew, Exchanging, At, Presented
  <2>4. \A r \in requests' : r \in requests /\ (r.by = None \/ At(r.by, "asked")')
    BY <2>1, <2>2 DEF TokenInv, Awaited, At, Callers
  <2> QED BY <2>1, <2>2, <2>3, <2>4, TokensKept
<1> QED
  BY <1>1, <1>2, <1>3, <1>4, <1>5, <1>6, <1>7, <1>8, <1>9, <1>10, <1>11,
     AsksKeeps, SavesKeeps, LoginKeeps, RotatesKeeps, KeepsKeeps, RefusesKeeps
     DEF OAuthNext, Proceeds, ServerHandles

-----------------------------------------------------------------------------
(* Theorems *)

LEMMA OAuthInitially == OAuthInit => OAuthInv
<1> SUFFICES ASSUME OAuthInit PROVE OAuthInv
  OBVIOUS
<1> USE CallerAssumption DEF OAuthInit
<1>1. \A c \in Callers : call[c] = Quiet /\ call[c].step = "idle"
  BY DEF Quiet
<1>2. OAuthTypeOK
  BY QuietIsCall, BackendAssumption, TimeAssumption DEF OAuthTypeOK, Credential, Quiet
<1>3. \A c \in Callers : ~Holding(c) /\ ~HasNew(c) /\ ~Exchanging(c) /\ ~At(c, "asked")
  BY <1>1 DEF Holding, HoldingSteps, HasNew, Exchanging, ExchangingSteps, At
<1>4. SoleHolder /\ Roles
  BY <1>1, <1>3 DEF SoleHolder, Roles, Callers
<1>5. CredsKnown /\ Awaited /\ TokensLive
  BY <1>3 DEF CredsKnown, Awaited, TokensLive, Callers
<1>6. TokensApart /\ StoredTokenLives
  BY <1>3 DEF TokensApart, StoredTokenLives, Callers
<1> QED BY <1>2, <1>4, <1>5, <1>6 DEF OAuthInv

LEMMA OAuthStep ==
    ASSUME OAuthInv, [OAuthNext]_oauthVars
    PROVE  OAuthInv'
<1>1. OAuthTypeOK /\ SoleHolder /\ Roles /\ TokenInv /\ CredsKnown /\ Awaited
  BY DEF OAuthInv, TokenInv
<1>2. OAuthTypeOK'
  BY <1>1, OAuthTypes
<1>3. SoleHolder'
  BY <1>1, LockStep
<1>4. Roles'
  BY <1>1, RolesStep
<1>5. TokenInv'
  BY <1>1, <1>4, TokenStep
<1> QED BY <1>2, <1>3, <1>4, <1>5 DEF OAuthInv, TokenInv

\* The invariant holds in every reachable state of every instance.
THEOREM OAuthIsSafe == OAuthSpec => []OAuthInv
BY OAuthInitially, OAuthStep, PTL DEF OAuthSpec

\* At most one thread of all processes is between the lock and its release.
THEOREM OneHolderEver == OAuthSpec => []SoleHolder
BY OAuthIsSafe, PTL DEF OAuthInv

\* The stored token is good, being exchanged, or the victim of an exchange that
\* was cut short; no interleaving of readers and logins loses it otherwise.
THEOREM StoredTokenIsGood == OAuthSpec => []StoredTokenLives
BY OAuthIsSafe, PTL DEF OAuthInv

\* A refresh only ever replaces the state it refreshed.
THEOREM RenewalsFollow == OAuthSpec => RenewalsChain
<1>1. ASSUME OAuthInv, [OAuthNext]_oauthVars
      PROVE  [stored' # stored =>
                \/ stored'.parent = None
                \/ stored # None /\ stored'.parent = stored.refresh]_oauthVars
  <2>1. SUFFICES ASSUME stored' # stored, OAuthNext
                 PROVE  \/ stored'.parent = None
                        \/ stored # None /\ stored'.parent = stored.refresh
    BY <1>1 DEF oauthVars
  <2>2. PICK c \in Callers : Saves(c)
    BY <2>1 DEF OAuthNext, Proceeds, ServerHandles, EntersBusy, Enters, Acquires, TimesOut,
        LoadsNothing, LoadsFresh, Asks, GivesUp, WritesTemporary, SaveFails, Leaves, Unlocks,
        LoginStarts, LoginGranted, LoginFails, ServerRotates, ServerKeeps, ServerRefuses,
        Crash, Ticks
  <2>3. stored' = call[c].cred /\ call[c].step \in {"answered", "written"}
    BY <2>2 DEF Saves, At
  <2>4. CASE c \in Logins
    BY <1>1, <2>3, <2>4 DEF OAuthInv, CredsKnown, HasNew
  <2>5. CASE c \in Readers
    BY <1>1, <2>3, <2>5
       DEF OAuthInv, CredsKnown, Exchanging, ExchangingSteps, Presented, At, Callers
  <2> QED BY <2>4, <2>5 DEF Callers
<1> QED BY <1>1, OAuthIsSafe, PTL DEF OAuthSpec, RenewalsChain
=============================================================================
