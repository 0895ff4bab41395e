------------------------- MODULE SessionStoreProofs -------------------------
(***************************************************************************)
(* The session tables for any number of lanes, sessions, turns, runs,      *)
(* attempts and epochs: the inductive invariant, what follows from it for  *)
(* a closed session and for what is learned, and the refinement of the     *)
(* ledger of exchanges.                                                    *)
(***************************************************************************)
EXTENDS SessionStore, TLAPS

\* Adding a row to a table, replacing one, and removing some keep its type.
LEMMA RowAdded ==
    ASSUME NEW ids, NEW row, NEW f, Table(f, ids, row),
           NEW x \in ids, NEW r \in row
    PROVE  Table(With(f, x, r), ids, row)
BY DEF Table, With

LEMMA RowsRemoved ==
    ASSUME NEW ids, NEW row, NEW f, Table(f, ids, row), NEW gone
    PROVE  Table(Without(f, gone), ids, row)
BY DEF Table, Without

LEMMA RowReplaced ==
    ASSUME NEW ids, NEW row, NEW f, Table(f, ids, row),
           NEW x \in DOMAIN f, NEW r \in row
    PROVE  Table([f EXCEPT ![x] = r], ids, row)
BY DEF Table

LEMMA EmptyTable ==
    ASSUME NEW ids, NEW row
    PROVE  Table(Nothing, ids, row)
BY DEF Table, Nothing

\* The transitions of a run replace its status and its attempt.
LEMMA MoveKeepsTypes ==
    ASSUME SessionsTypeOK, NEW r \in DOMAIN runs, NEW status \in RunStatuses,
           NEW attempt \in Nat, Move(r, status, attempt)
    PROVE  /\ SessionsTypeOK'
           /\ DOMAIN runs' = DOMAIN runs
           /\ \A q \in DOMAIN runs :
                 /\ runs'[q].session = runs[q].session
                 /\ runs'[q].turn = runs[q].turn
                 /\ runs'[q].epoch = runs[q].epoch
           /\ runs'[r].status = status
           /\ \A q \in DOMAIN runs \ {r} : runs'[q] = runs[q]
  <1>1. runs[r] \in RunRow /\ runs \in [DOMAIN runs -> RunRow]
    BY DEF SessionsTypeOK, Table
  <1> DEFINE new == [runs[r] EXCEPT !.status = status, !.attempt = attempt]
  <1>2. new \in RunRow
    BY <1>1 DEF RunRow
  <1>3. runs' = [runs EXCEPT ![r] = new]
    BY <1>1 DEF Move, RunRow
  <1>4. /\ new.session = runs[r].session /\ new.turn = runs[r].turn
        /\ new.epoch = runs[r].epoch /\ new.status = status
    BY <1>1 DEF RunRow
  <1> HIDE DEF new
  <1>5. Table(runs', RunIds, RunRow)
    BY <1>2, <1>3, RowReplaced DEF SessionsTypeOK
  <1>6. /\ DOMAIN runs' = DOMAIN runs
        /\ runs'[r] = new
        /\ \A q \in DOMAIN runs \ {r} : runs'[q] = runs[q]
    BY <1>1, <1>3
  <1>7. SessionsTypeOK'
    BY <1>4, <1>5, <1>6 DEF Move, SessionsTypeOK, LifecycleTypeOK
  <1> QED
    BY <1>4, <1>6, <1>7

LEMMA ActivateKeepsTypes ==
    ASSUME SessionsTypeOK, NEW r \in DOMAIN runs, NEW from, Activate(r, from),
           from.session \in SessionIds, from.turn \in TurnIds, from.read \in Epochs
    PROVE  SessionsTypeOK'
  <1> DEFINE k == <<from.session, from.turn>>
             n == IF k \in DOMAIN memory THEN memory[k].batches + 1 ELSE 1
  <1>1. runs \in [DOMAIN runs -> RunRow] /\ memory \in [DOMAIN memory -> MemoryRow]
    BY DEF SessionsTypeOK, Table
  <1>2. Table(runs', RunIds, RunRow)
    BY <1>1 DEF SessionsTypeOK, Table, Activate, RunRow, RunStatuses
  <1>3. k \in Provenance
    BY DEF Provenance, SessionIds, TurnIds
  <1>4. n \in Nat
    BY <1>1 DEF MemoryRow
  <1>5. [read |-> from.read, batches |-> n] \in MemoryRow
    BY <1>4 DEF MemoryRow
  <1>6. memory' = With(memory, k, [read |-> from.read, batches |-> n])
    BY DEF Activate, Learned
  <1>7. Table(memory', Provenance, MemoryRow)
    BY <1>3, <1>5, <1>6, RowAdded DEF SessionsTypeOK
  <1>8. DOMAIN runs' = DOMAIN runs /\ \A q \in DOMAIN runs : runs'[q].session = runs[q].session
    BY <1>1 DEF Activate, RunRow
  <1> QED
    BY <1>2, <1>7, <1>8 DEF Activate, SessionsTypeOK, LifecycleTypeOK

-----------------------------------------------------------------------------
(* Types *)

LEMMA TranscriptKeepsTypes ==
    SessionsTypeOK /\ TranscriptStep => SessionsTypeOK'
  <1> SUFFICES ASSUME SessionsTypeOK, TranscriptStep PROVE SessionsTypeOK'
    OBVIOUS
  <1>1. CASE \E l \in LaneIds : OpenLane(l)
    BY <1>1 DEF OpenLane, SessionsTypeOK, LifecycleTypeOK
  <1>2. CASE \E l \in LaneIds, s \in SessionIds : OpenSession(l, s)
    <2>1. PICK l \in LaneIds, s \in SessionIds : OpenSession(l, s)
      BY <1>2
    <2>2. [lane |-> l, status |-> "active"] \in SessionRow
      BY DEF SessionRow
    <2>3. Table(session', SessionIds, SessionRow)
      BY <2>1, <2>2, RowAdded DEF OpenSession, SessionsTypeOK
    <2>4. DOMAIN session \subseteq DOMAIN session'
      BY <2>1 DEF OpenSession, With
    <2> QED
      BY <2>1, <2>3, <2>4 DEF OpenSession, SessionsTypeOK, LifecycleTypeOK
  <1>3. CASE \E s \in SessionIds, role \in Roles, t \in TurnIds : AppendTurn(s, role, t)
    <2>1. PICK s \in SessionIds, role \in Roles, t \in TurnIds : AppendTurn(s, role, t)
      BY <1>3
    <2>2. PICK q \in TurnIds :
              turn' = With(turn, t, [session |-> s, seq |-> q, role |-> role])
      BY <2>1 DEF AppendTurn
    <2>3. [session |-> s, seq |-> q, role |-> role] \in TurnRow
      BY DEF TurnRow
    <2>4. Table(turn', TurnIds, TurnRow)
      BY <2>2, <2>3, RowAdded DEF SessionsTypeOK
    <2>5. \A t1 \in DOMAIN turn' : turn'[t1].session \in DOMAIN session
      BY <2>1, <2>2 DEF With, SessionsTypeOK, AppendTurn, Active
    <2> QED
      BY <2>1, <2>4, <2>5 DEF AppendTurn, SessionsTypeOK, LifecycleTypeOK
  <1> QED
    BY <1>1, <1>2, <1>3 DEF TranscriptStep

\* Every transition of a run is a Move of a run that is there.
LEMMA TransitionsMove ==
    ASSUME SessionsTypeOK, NEW r \in RunIds,
           \/ Claim(r) \/ Retry(r) \/ Recover(r) \/ Fail(r)
           \/ Settle(r, "completed") \/ Settle(r, "discarded")
    PROVE  /\ r \in DOMAIN runs
           /\ CurrentEpoch(runs[r].epoch)
           /\ runs[r].status \in Blocking
           /\ \E status \in RunStatuses, attempt \in Nat : Move(r, status, attempt)
  <1>1. r \in DOMAIN runs /\ CurrentEpoch(runs[r].epoch) /\ runs[r].status \in Blocking
    BY DEF Claim, Retry, Recover, Fail, Settle, Fresh, Blocking
  <1>2. runs[r].attempt \in Nat
    BY <1>1 DEF SessionsTypeOK, Table, RunRow
  <1> QED
    BY <1>1, <1>2 DEF Claim, Retry, Recover, Fail, Settle, RunStatuses

LEMMA RunStepKeepsTypes ==
    SessionsTypeOK /\ RunStep => SessionsTypeOK'
  <1> SUFFICES ASSUME SessionsTypeOK, RunStep PROVE SessionsTypeOK'
    OBVIOUS
  <1>1. CASE \E s \in SessionIds, t \in TurnIds, r \in RunIds : CreateRun(s, t, r)
    <2>1. PICK s \in SessionIds, t \in TurnIds, r \in RunIds : CreateRun(s, t, r)
      BY <1>1
    <2> DEFINE row == [session |-> s, turn |-> t, epoch |-> profile.epoch,
                       status |-> "pending", attempt |-> 0]
    <2>2. row \in RunRow
      BY DEF RunRow, RunStatuses, SessionsTypeOK
    <2>3. runs' = With(runs, r, row)
      BY <2>1 DEF CreateRun
    <2>4. Table(runs', RunIds, RunRow)
      BY <2>2, <2>3, RowAdded DEF SessionsTypeOK
    <2>5. \A q \in DOMAIN runs' : runs'[q].session \in DOMAIN session
      BY <2>1, <2>3 DEF With, CreateRun, MayEnsureRun, Active, SessionsTypeOK
    <2> QED
      BY <2>1, <2>4, <2>5 DEF CreateRun, SessionsTypeOK, LifecycleTypeOK
  <1>2. CASE \E r \in RunIds :
                \/ Claim(r) \/ Retry(r) \/ Recover(r) \/ Fail(r)
                \/ Settle(r, "completed") \/ Settle(r, "discarded")
    BY <1>2, TransitionsMove, MoveKeepsTypes
  <1>3. ASSUME NEW r \in RunIds, NEW s \in SessionIds, NEW t \in TurnIds, NEW e \in Epochs,
               Activate(r, [session |-> s, turn |-> t, read |-> e])
        PROVE  SessionsTypeOK'
    <2>1. r \in DOMAIN runs
      BY <1>3 DEF Activate, Fresh
    <2> QED
      BY <1>3, <2>1, ActivateKeepsTypes
  <1> QED
    BY <1>1, <1>2, <1>3 DEF RunStep

LEMMA ClosingKeepsTypes ==
    SessionsTypeOK /\ ClosingStep => SessionsTypeOK'
  <1> SUFFICES ASSUME SessionsTypeOK, ClosingStep PROVE SessionsTypeOK'
    OBVIOUS
  <1>1. CASE \E s \in SessionIds, seen \in SUBSET TurnIds, e \in Epochs : Close(s, seen, e)
    <2>1. PICK s \in SessionIds, seen \in SUBSET TurnIds, e \in Epochs : Close(s, seen, e)
      BY <1>1
    <2>2. s \in DOMAIN session
      BY <2>1 DEF Close, Unchanged, Active
    <2>3. [turns |-> seen, read |-> e] \in SummaryRow
      BY DEF SummaryRow
    <2>4. Table(summary', SessionIds, SummaryRow)
      BY <2>1, <2>3, RowAdded DEF Close, SessionsTypeOK
    <2>5. Table(turn', TurnIds, TurnRow)
      BY <2>1, RowsRemoved DEF Close, SessionsTypeOK
    <2>6. Table(session', SessionIds, SessionRow)
      BY <2>1 DEF Close, SessionsTypeOK, Table, SessionRow
    <2>7. /\ \A t \in DOMAIN turn' : turn'[t].session \in DOMAIN session'
          /\ DOMAIN summary' \subseteq DOMAIN session'
          /\ DOMAIN session' = DOMAIN session
      BY <2>1, <2>2 DEF Close, SessionsTypeOK, With, Without
    <2> QED
      BY <2>1, <2>4, <2>5, <2>6, <2>7 DEF Close, SessionsTypeOK, LifecycleTypeOK
  <1>2. CASE \E t \in TurnIds : DeleteTurn(t)
    <2>1. PICK t \in TurnIds : DeleteTurn(t)
      BY <1>2
    <2>2. /\ Table(turn', TurnIds, TurnRow)
          /\ Table(runs', RunIds, RunRow)
          /\ Table(memory', Provenance, MemoryRow)
      BY <2>1, RowsRemoved DEF DeleteTurn, SessionsTypeOK
    <2>3. /\ \A t1 \in DOMAIN turn' : turn'[t1].session \in DOMAIN session
          /\ \A r \in DOMAIN runs' : runs'[r].session \in DOMAIN session
      BY <2>1 DEF DeleteTurn, Without, SessionsTypeOK
    <2> QED
      BY <2>1, <2>2, <2>3 DEF DeleteTurn, SessionsTypeOK, LifecycleTypeOK
  <1> QED
    BY <1>1, <1>2 DEF ClosingStep

LEMMA LifecycleKeepsTypes ==
    ASSUME SessionsTypeOK,
           BeginReset \/ Quiesce \/ PurgeHooks \/ AbandonReset \/ CommitReset
    PROVE  LifecycleTypeOK' /\ profile'.epoch \in Epochs
  <1>1. profile.epoch \in Nat \ {0} /\ profile.epoch \in 1..MaxEpoch
    BY DEF SessionsTypeOK, LifecycleTypeOK, Epochs
  <1> QED
    BY <1>1, MaxEpochAssumption
       DEF BeginReset, Quiesce, PurgeHooks, AbandonReset, CommitReset, SessionsTypeOK,
           LifecycleTypeOK, Epochs, ProfileStates, ResetSteps

LEMMA ResetKeepsTypes ==
    SessionsTypeOK /\ SessionResetStep => SessionsTypeOK'
  <1> SUFFICES ASSUME SessionsTypeOK, SessionResetStep PROVE SessionsTypeOK'
    OBVIOUS
  <1>1. LifecycleTypeOK' /\ profile'.epoch \in Epochs
    BY LifecycleKeepsTypes DEF SessionResetStep
  <1>2. CASE UNCHANGED tables
    BY <1>1, <1>2 DEF tables, SessionsTypeOK
  <1>3. CASE SessionPurge
    <2>1. /\ DOMAIN session' = {} /\ DOMAIN turn' = {}
          /\ DOMAIN runs' = {} /\ DOMAIN summary' = {}
      BY <1>3 DEF SessionPurge, Nothing
    <2> QED
      BY <1>1, <1>3, <2>1, EmptyTable DEF SessionPurge, SessionsTypeOK
  <1> QED
    BY <1>2, <1>3 DEF SessionResetStep

LEMMA TypeStep == SessionsTypeOK /\ [SessionNext]_sessionVars => SessionsTypeOK'
  <1>1. SessionsTypeOK /\ UNCHANGED sessionVars => SessionsTypeOK'
    BY DEF sessionVars, tables, SessionsTypeOK, LifecycleTypeOK
  <1> QED
    BY <1>1, TranscriptKeepsTypes, RunStepKeepsTypes, ClosingKeepsTypes, ResetKeepsTypes
       DEF SessionNext

LEMMA InitType == SessionInit => SessionsTypeOK
  <1> SUFFICES ASSUME SessionInit PROVE SessionsTypeOK
    OBVIOUS
  <1>1. DOMAIN session = {} /\ DOMAIN turn = {} /\ DOMAIN runs = {} /\ DOMAIN summary = {}
    BY DEF SessionInit, Nothing
  <1>2. LifecycleTypeOK /\ profile.epoch \in Epochs
    BY MaxEpochAssumption
       DEF SessionInit, LifecycleInit, LifecycleTypeOK, ProfileStates, ResetSteps, Epochs
  <1> QED
    BY <1>1, <1>2, EmptyTable DEF SessionInit, SessionsTypeOK

\* The tables keep their types and their foreign keys.
THEOREM SessionTypesCorrect == SessionSpec => []SessionsTypeOK
  <1>1. SessionInit => SessionsTypeOK
    BY InitType
  <1>2. SessionsTypeOK /\ [SessionNext]_sessionVars => SessionsTypeOK'
    BY TypeStep
  <1> QED
    BY <1>1, <1>2, PTL DEF SessionSpec

-----------------------------------------------------------------------------
(* The inductive invariant *)

\* The transcript only adds sessions, which are active.
LEMMA TranscriptAddsSessions ==
    ASSUME SessionsTypeOK, TranscriptStep
    PROVE  /\ \A s \in DOMAIN session : s \in DOMAIN session' /\ session'[s] = session[s]
           /\ \A s \in DOMAIN session' \ DOMAIN session : session'[s].status = "active"
  <1>1. CASE UNCHANGED session
    BY <1>1
  <1>2. CASE \E l \in LaneIds, s \in SessionIds : OpenSession(l, s)
    <2>1. PICK l \in LaneIds, u \in SessionIds : OpenSession(l, u)
      BY <1>2
    <2>2. u \notin DOMAIN session
      <3>1. DOMAIN session \subseteq Nat
        BY SessionAssumption DEF SessionsTypeOK, Table, SessionIds
      <3> QED
        BY <2>1, <3>1 DEF OpenSession, IsNext
    <2>3. session' = With(session, u, [lane |-> l, status |-> "active"])
      BY <2>1 DEF OpenSession
    <2> QED
      BY <2>2, <2>3 DEF With
  <1> QED
    BY <1>1, <1>2 DEF TranscriptStep, OpenLane, AppendTurn

LEMMA TranscriptKeepsInvariant ==
    ASSUME SessionInvariant, TranscriptStep
    PROVE  SessionInvariant'
  <1>1. SessionsTypeOK'
    BY TranscriptKeepsTypes DEF SessionInvariant
  <1>2. UNCHANGED <<profile, reset, runs, summary, memory>>
    BY DEF TranscriptStep, OpenLane, OpenSession, AppendTurn
  <1>3. /\ \A s \in DOMAIN session : s \in DOMAIN session' /\ session'[s] = session[s]
        /\ \A s \in DOMAIN session' \ DOMAIN session : session'[s].status = "active"
    BY TranscriptAddsSessions DEF SessionInvariant
  <1>4. ASSUME NEW s \in DOMAIN session, session[s].status = "closed", TurnsOf(s) = {}
        PROVE  TurnsOf(s)' = {}
    <2>1. CASE UNCHANGED turn
      BY <1>4, <2>1 DEF TurnsOf
    <2>2. CASE \E u \in SessionIds, role \in Roles, t \in TurnIds : AppendTurn(u, role, t)
      <3>1. PICK u \in SessionIds, role \in Roles, t \in TurnIds : AppendTurn(u, role, t)
        BY <2>2
      <3>2. u # s
        BY <1>4, <3>1 DEF AppendTurn, Active
      <3> QED
        BY <1>4, <3>1, <3>2 DEF AppendTurn, With, TurnsOf
    <2> QED
      BY <2>1, <2>2 DEF TranscriptStep, OpenLane, OpenSession
  <1>5. ClosedIsComplete'
    BY <1>2, <1>3, <1>4 DEF SessionInvariant, ClosedIsComplete, GateOpen, RunsOf
  <1>6. ActiveHasNoSummary'
    BY <1>2, <1>3 DEF SessionInvariant, SessionsTypeOK, ActiveHasNoSummary, Active
  <1>7. RowsOfThisLife' /\ OneRunPerExchange' /\ LearnedOnce'
    BY <1>2 DEF SessionInvariant, RowsOfThisLife, OwnerActive, OneRunPerExchange, LearnedOnce
  <1> QED
    BY <1>1, <1>5, <1>6, <1>7 DEF SessionInvariant

LEMMA CreateKeepsInvariant ==
    ASSUME SessionInvariant, SessionsTypeOK', NEW s, NEW t, NEW r, CreateRun(s, t, r)
    PROVE  SessionInvariant'
  <1>1. /\ Active(s) /\ OwnerActive
        /\ \A q \in DOMAIN runs : ~(runs[q].session = s /\ runs[q].turn = t)
    BY DEF CreateRun, MayEnsureRun, RunOf, SessionInvariant, RowsOfThisLife
  <1>2. r \notin DOMAIN runs
    <2>1. DOMAIN runs \subseteq Nat
      BY SessionAssumption DEF SessionInvariant, SessionsTypeOK, Table, RunIds
    <2> QED
      BY <2>1 DEF CreateRun, IsNext
  <1>3. /\ DOMAIN runs' = DOMAIN runs \cup {r}
        /\ \A q \in DOMAIN runs : runs'[q] = runs[q]
        /\ runs'[r] = [session |-> s, turn |-> t, epoch |-> profile.epoch,
                       status |-> "pending", attempt |-> 0]
        /\ UNCHANGED <<profile, reset, lanes, session, turn, summary, memory>>
    BY <1>2 DEF CreateRun, With
  <1>4. ClosedIsComplete'
    BY <1>1, <1>3 DEF SessionInvariant, ClosedIsComplete, GateOpen, RunsOf, TurnsOf, Active
  <1>5. RowsOfThisLife' /\ ActiveHasNoSummary'
    BY <1>3 DEF SessionInvariant, RowsOfThisLife, ActiveHasNoSummary, OwnerActive, Active
  <1>6. OneRunPerExchange'
    BY <1>1, <1>3 DEF SessionInvariant, OneRunPerExchange
  <1>7. LearnedOnce'
    BY <1>2, <1>3 DEF SessionInvariant, LearnedOnce
  <1> QED
    BY <1>4, <1>5, <1>6, <1>7 DEF SessionInvariant

LEMMA MoveKeepsInvariant ==
    ASSUME SessionInvariant, NEW r \in DOMAIN runs, runs[r].status \in Blocking,
           NEW status \in RunStatuses, NEW attempt \in Nat, Move(r, status, attempt)
    PROVE  SessionInvariant'
  <1>1. /\ SessionsTypeOK'
        /\ DOMAIN runs' = DOMAIN runs
        /\ \A q \in DOMAIN runs : /\ runs'[q].session = runs[q].session
                                  /\ runs'[q].turn = runs[q].turn
                                  /\ runs'[q].epoch = runs[q].epoch
        /\ \A q \in DOMAIN runs \ {r} : runs'[q] = runs[q]
    BY MoveKeepsTypes DEF SessionInvariant
  <1>2. UNCHANGED <<profile, reset, lanes, session, turn, summary, memory>>
    BY DEF Move
  <1>3. ClosedIsComplete'
    BY <1>1, <1>2 DEF SessionInvariant, ClosedIsComplete, GateOpen, RunsOf, TurnsOf
  <1>4. RowsOfThisLife' /\ ActiveHasNoSummary' /\ OneRunPerExchange'
    BY <1>1, <1>2 DEF SessionInvariant, RowsOfThisLife, ActiveHasNoSummary,
                      OneRunPerExchange, OwnerActive, Active
  <1>5. LearnedOnce'
    BY <1>1, <1>2 DEF SessionInvariant, LearnedOnce, Blocking
  <1> QED
    BY <1>1, <1>3, <1>4, <1>5 DEF SessionInvariant

LEMMA ActivateKeepsInvariant ==
    ASSUME SessionInvariant, SessionsTypeOK', NEW r, NEW from, Activate(r, from)
    PROVE  SessionInvariant'
  <1> DEFINE k == <<from.session, from.turn>>
  <1>1. /\ r \in DOMAIN runs /\ runs[r].status = "processing"
        /\ runs[r].session = from.session /\ runs[r].turn = from.turn
        /\ UNCHANGED <<profile, reset, lanes, session, turn, summary>>
    BY DEF Activate, Fresh
  <1>2. /\ runs \in [DOMAIN runs -> RunRow]
        /\ runs' = [runs EXCEPT ![r].status = "completed"]
    BY DEF SessionInvariant, SessionsTypeOK, Table, Activate
  <1>3. /\ DOMAIN runs' = DOMAIN runs
        /\ \A q \in DOMAIN runs : /\ runs'[q].session = runs[q].session
                                  /\ runs'[q].turn = runs[q].turn
                                  /\ runs'[q].epoch = runs[q].epoch
        /\ runs'[r].status = "completed"
        /\ \A q \in DOMAIN runs \ {r} : runs'[q] = runs[q]
    BY <1>1, <1>2 DEF RunRow
  <1>4. k \notin DOMAIN memory
    BY <1>1 DEF SessionInvariant, LearnedOnce, OneRunPerExchange
  <1>5. /\ DOMAIN memory' = DOMAIN memory \cup {k}
        /\ memory'[k].batches = 1
        /\ \A x \in DOMAIN memory : memory'[x] = memory[x]
    BY <1>4 DEF Activate, Learned, With
  <1>6. LearnedOnce'
    BY <1>1, <1>3, <1>5 DEF SessionInvariant, LearnedOnce
  <1>7. ClosedIsComplete'
    BY <1>1, <1>3 DEF SessionInvariant, ClosedIsComplete, GateOpen, RunsOf, TurnsOf, Blocking
  <1>8. RowsOfThisLife' /\ ActiveHasNoSummary' /\ OneRunPerExchange'
    BY <1>1, <1>3 DEF SessionInvariant, RowsOfThisLife, ActiveHasNoSummary,
                      OneRunPerExchange, OwnerActive, Active
  <1> QED
    BY <1>6, <1>7, <1>8 DEF SessionInvariant

LEMMA CloseKeepsInvariant ==
    ASSUME SessionInvariant, SessionsTypeOK', NEW s, NEW seen, NEW read, Close(s, seen, read)
    PROVE  SessionInvariant'
  <1>1. /\ Active(s) /\ CurrentEpoch(read) /\ GateOpen(s) /\ s \notin DOMAIN summary
        /\ turn' = Without(turn, TurnsOf(s))
        /\ session' = [session EXCEPT ![s].status = "closed"]
        /\ UNCHANGED <<profile, reset, lanes, runs, memory>>
    BY DEF Close, Unchanged
  <1>2. /\ DOMAIN summary' = DOMAIN summary \cup {s}
        /\ summary'[s].read = read
        /\ \A x \in DOMAIN summary : summary'[x] = summary[x]
    BY <1>1 DEF Close, With
  <1>3. /\ DOMAIN session' = DOMAIN session
        /\ session'[s].status = "closed"
        /\ \A x \in DOMAIN session \ {s} : session'[x] = session[x]
    BY <1>1 DEF Active, SessionInvariant, SessionsTypeOK, Table, SessionRow
  <1>4. /\ TurnsOf(s)' = {}
        /\ \A x : TurnsOf(x)' \subseteq TurnsOf(x)
    BY <1>1 DEF Without, TurnsOf
  <1>5. ClosedIsComplete'
    BY <1>1, <1>2, <1>3, <1>4 DEF SessionInvariant, ClosedIsComplete, GateOpen, RunsOf
  <1>6. RowsOfThisLife'
    BY <1>1, <1>2 DEF SessionInvariant, RowsOfThisLife, CurrentEpoch, OwnerActive
  <1>7. ActiveHasNoSummary'
    BY <1>2, <1>3 DEF SessionInvariant, ActiveHasNoSummary, Active
  <1>8. OneRunPerExchange' /\ LearnedOnce'
    BY <1>1 DEF SessionInvariant, OneRunPerExchange, LearnedOnce
  <1> QED
    BY <1>5, <1>6, <1>7, <1>8 DEF SessionInvariant

LEMMA DeleteKeepsInvariant ==
    ASSUME SessionInvariant, SessionsTypeOK', NEW t, DeleteTurn(t)
    PROVE  SessionInvariant'
  <1>1. /\ DOMAIN runs' \subseteq DOMAIN runs
        /\ \A r \in DOMAIN runs' : runs'[r] = runs[r]
        /\ \A r \in DOMAIN runs \ DOMAIN runs' : runs[r].turn = t
    BY DEF DeleteTurn, Without, RunsOf
  <1>2. /\ DOMAIN memory' \subseteq DOMAIN memory
        /\ \A k \in DOMAIN memory' : memory'[k] = memory[k] /\ k[2] # t
        /\ UNCHANGED <<profile, reset, lanes, session, summary>>
    BY DEF DeleteTurn, Without
  <1>3. \A s : TurnsOf(s)' \subseteq TurnsOf(s)
    BY DEF DeleteTurn, Without, TurnsOf
  <1>4. ClosedIsComplete'
    BY <1>1, <1>2, <1>3 DEF SessionInvariant, ClosedIsComplete, GateOpen, RunsOf
  <1>5. LearnedOnce'
    BY <1>1, <1>2 DEF SessionInvariant, LearnedOnce
  <1>6. RowsOfThisLife' /\ ActiveHasNoSummary' /\ OneRunPerExchange'
    BY <1>1, <1>2 DEF SessionInvariant, RowsOfThisLife, ActiveHasNoSummary,
                      OneRunPerExchange, OwnerActive, Active
  <1> QED
    BY <1>4, <1>5, <1>6 DEF SessionInvariant

LEMMA ResetKeepsInvariant ==
    ASSUME SessionInvariant, SessionResetStep
    PROVE  SessionInvariant'
  <1>1. SessionsTypeOK'
    BY ResetKeepsTypes DEF SessionInvariant
  <1>2. CASE (BeginReset \/ Quiesce \/ PurgeHooks \/ AbandonReset) /\ UNCHANGED tables
    <2>1. OwnerActive' => OwnerActive /\ profile' = profile
      BY <1>2 DEF BeginReset, Quiesce, PurgeHooks, AbandonReset, OwnerActive
    <2>2. RowsOfThisLife'
      BY <1>2, <2>1 DEF SessionInvariant, RowsOfThisLife, tables
    <2>3. /\ ClosedIsComplete' /\ ActiveHasNoSummary'
          /\ OneRunPerExchange' /\ LearnedOnce'
      BY <1>2 DEF SessionInvariant, ClosedIsComplete, ActiveHasNoSummary, OneRunPerExchange,
                  LearnedOnce, GateOpen, RunsOf, TurnsOf, Active, tables
    <2> QED
      BY <1>1, <2>2, <2>3 DEF SessionInvariant
  <1>3. CASE SessionPurge
    <2>1. /\ DOMAIN session' = {} /\ DOMAIN runs' = {}
          /\ DOMAIN summary' = {} /\ DOMAIN memory' = {}
      BY <1>3 DEF SessionPurge, Nothing
    <2> QED
      BY <1>1, <2>1 DEF SessionInvariant, ClosedIsComplete, RowsOfThisLife,
                        ActiveHasNoSummary, OneRunPerExchange, LearnedOnce
  <1> QED
    BY <1>2, <1>3 DEF SessionResetStep

LEMMA InvariantStep == SessionInvariant /\ [SessionNext]_sessionVars => SessionInvariant'
  <1> SUFFICES ASSUME SessionInvariant, [SessionNext]_sessionVars PROVE SessionInvariant'
    OBVIOUS
  <1>1. SessionsTypeOK'
    BY TypeStep DEF SessionInvariant
  <1>2. CASE RunStep
    <2>1. ASSUME NEW r \in RunIds,
                 \/ Claim(r) \/ Retry(r) \/ Recover(r) \/ Fail(r)
                 \/ Settle(r, "completed") \/ Settle(r, "discarded")
          PROVE  SessionInvariant'
      BY <2>1, TransitionsMove, MoveKeepsInvariant DEF SessionInvariant
    <2> QED
      BY <1>1, <1>2, <2>1, CreateKeepsInvariant, ActivateKeepsInvariant DEF RunStep
  <1>3. CASE UNCHANGED sessionVars
    BY <1>1, <1>3 DEF sessionVars, tables, SessionInvariant, ClosedIsComplete, RowsOfThisLife,
                      ActiveHasNoSummary, OneRunPerExchange, LearnedOnce, GateOpen,
                      RunsOf, TurnsOf, Active, OwnerActive
  <1> QED
    BY <1>1, <1>2, <1>3, TranscriptKeepsInvariant, CloseKeepsInvariant,
       DeleteKeepsInvariant, ResetKeepsInvariant DEF SessionNext, ClosingStep

\* The inductive invariant of the session tables.
THEOREM SessionsAreSafe == SessionSpec => []SessionInvariant
  <1>1. SessionInit => SessionInvariant
    <2> SUFFICES ASSUME SessionInit PROVE SessionInvariant
      OBVIOUS
    <2>1. DOMAIN session = {} /\ DOMAIN runs = {} /\ DOMAIN summary = {} /\ DOMAIN memory = {}
      BY DEF SessionInit, Nothing
    <2> QED
      BY <2>1, InitType DEF SessionInvariant, ClosedIsComplete, RowsOfThisLife,
                            ActiveHasNoSummary, OneRunPerExchange, LearnedOnce
  <1>2. SessionInvariant /\ [SessionNext]_sessionVars => SessionInvariant'
    BY InvariantStep
  <1> QED
    BY <1>1, <1>2, PTL DEF SessionSpec

\* A closed session has its summary, no turns and no run that could still move.
THEOREM ClosedSessionsAreComplete == SessionSpec => []ClosedIsComplete
  <1>1. SessionInvariant => ClosedIsComplete
    BY DEF SessionInvariant
  <1> QED
    BY <1>1, SessionsAreSafe, PTL

\* An exchange is learned from at most once.
THEOREM ExchangesLearnedOnce == SessionSpec => []LearnedOnce
  <1>1. SessionInvariant => LearnedOnce
    BY DEF SessionInvariant
  <1> QED
    BY <1>1, SessionsAreSafe, PTL

\* No turn goes with the close of its session unless it was summarised.
THEOREM ClosingLosesNoTurn == SessionSpec => NothingUnsummarised
  <1> DEFINE Kept == \A s \in DOMAIN session :
          Active(s) /\ s \in DOMAIN session' /\ session'[s].status = "closed" =>
              TurnsOf(s) \subseteq summary'[s].turns
  <1>1. SessionInvariant /\ [SessionNext]_sessionVars => [Kept]_sessionVars
    <2> SUFFICES ASSUME SessionInvariant, SessionNext PROVE Kept
      OBVIOUS
    <2>1. CASE \E s \in SessionIds, seen \in SUBSET TurnIds, e \in Epochs : Close(s, seen, e)
      <3>1. PICK s \in SessionIds, seen \in SUBSET TurnIds, e \in Epochs : Close(s, seen, e)
        BY <2>1
      <3>2. /\ TurnsOf(s) = seen /\ summary'[s].turns = seen
            /\ session' = [session EXCEPT ![s].status = "closed"]
        BY <3>1 DEF Close, Unchanged, With
      <3>3. \A x \in DOMAIN session \ {s} : session'[x] = session[x]
        BY <3>2
      <3> QED
        BY <3>2, <3>3 DEF Active
    <2>2. CASE SessionPurge
      BY <2>2 DEF SessionPurge, Nothing
    <2>3. CASE \A s \in DOMAIN session : session'[s] = session[s]
      BY <2>3 DEF Active
    <2>4. \/ \A s \in DOMAIN session : session'[s] = session[s]
          \/ SessionPurge
          \/ \E s \in SessionIds, seen \in SUBSET TurnIds, e \in Epochs : Close(s, seen, e)
      <3>1. SessionResetStep => SessionPurge \/ UNCHANGED session
        BY DEF SessionResetStep, tables
      <3>2. RunStep => UNCHANGED session
        BY ZenonT(30) DEF RunStep, CreateRun, Claim, Retry, Recover, Fail, Settle, Activate, Move
      <3>3. TranscriptStep => \A s \in DOMAIN session : session'[s] = session[s]
        BY TranscriptAddsSessions DEF SessionInvariant
      <3> QED
        BY <3>1, <3>2, <3>3 DEF SessionNext, ClosingStep, DeleteTurn
    <2> QED
      BY <2>1, <2>2, <2>3, <2>4
  <1> QED
    BY <1>1, SessionsAreSafe, PTL DEF SessionSpec, NothingUnsummarised

-----------------------------------------------------------------------------
(* The tables implement the ledger of exchanges *)

\* What a transition of run r does to the ledger: r stays owed or is settled.
LEMMA MoveSettles ==
    ASSUME NEW r \in DOMAIN runs, runs[r].status \in Blocking, UNCHANGED session,
           DOMAIN runs' = DOMAIN runs, runs'[r].session = runs[r].session,
           \A q \in DOMAIN runs \ {r} : runs'[q] = runs[q]
    PROVE  Ledger!Settled
  <1>1. OpenView' = OpenView
    BY DEF OpenView
  <1>2. DOMAIN OwedView = DOMAIN runs /\ DOMAIN OwedView' = DOMAIN runs
    BY DEF OwedView
  <1>3. \A q \in DOMAIN runs \ {r} : OwedView'[q] = OwedView[q]
    BY DEF OwedView
  <1>4. OwedView[r] = [session |-> runs[r].session, due |-> runs[r].status \in Blocking]
    BY DEF OwedView
  <1>5. OwedView'[r] = [session |-> runs[r].session, due |-> runs'[r].status \in Blocking]
    BY DEF OwedView
  <1>6. CASE runs'[r].status \in Blocking
    <2>1. (runs'[r].status \in Blocking) = (runs[r].status \in Blocking)
      BY <1>6
    <2> QED
      BY <1>1, <1>2, <1>3, <1>4, <1>5, <2>1 DEF Ledger!Settled
  <1>7. CASE runs'[r].status \notin Blocking
    <2>1. (runs'[r].status \in Blocking) = FALSE
      BY <1>7
    <2>2. OwedView[r].due /\ OwedView[r].session = runs[r].session
      <3>1. (runs[r].status \in Blocking) = TRUE
        OBVIOUS
      <3>2. OwedView[r] = [session |-> runs[r].session, due |-> TRUE]
        BY <1>4, <3>1
      <3> QED
        BY <3>2
    <2> QED
      BY <1>1, <1>2, <1>3, <1>5, <2>1, <2>2 DEF Ledger!Settled
  <1> QED
    BY <1>6, <1>7

LEMMA TranscriptLedger ==
    ASSUME SessionInvariant, TranscriptStep
    PROVE  Ledger!Opened \/ UNCHANGED <<OpenView, OwedView>>
  <1>1. OwedView' = OwedView
    BY DEF TranscriptStep, OpenLane, OpenSession, AppendTurn, OwedView
  <1>2. CASE UNCHANGED session
    BY <1>1, <1>2 DEF OpenView
  <1>3. CASE \E l \in LaneIds, s \in SessionIds : OpenSession(l, s)
    <2>1. PICK l \in LaneIds, u \in SessionIds : OpenSession(l, u)
      BY <1>3
    <2>2. u \notin DOMAIN session
      <3>1. DOMAIN session \subseteq Nat
        BY SessionAssumption DEF SessionInvariant, SessionsTypeOK, Table, SessionIds
      <3> QED
        BY <2>1, <3>1 DEF OpenSession, IsNext
    <2>3. /\ DOMAIN session' = DOMAIN session \cup {u}
          /\ session'[u].status = "active"
          /\ \A s \in DOMAIN session : session'[s] = session[s]
      BY <2>1, <2>2 DEF OpenSession, With
    <2>4. /\ DOMAIN OpenView = DOMAIN session /\ DOMAIN OpenView' = DOMAIN session'
          /\ OpenView'[u] = TRUE
          /\ \A s \in DOMAIN session : OpenView'[s] = OpenView[s]
      BY <2>3 DEF OpenView
    <2> QED
      BY <1>1, <2>2, <2>3, <2>4 DEF Ledger!Opened
  <1> QED
    BY <1>2, <1>3 DEF TranscriptStep, OpenLane, AppendTurn

LEMMA RunLedger ==
    ASSUME SessionInvariant, RunStep
    PROVE  Ledger!Noted \/ Ledger!Settled
  <1>1. CASE \E s \in SessionIds, t \in TurnIds, r \in RunIds : CreateRun(s, t, r)
    <2>1. PICK s \in SessionIds, t \in TurnIds, r \in RunIds : CreateRun(s, t, r)
      BY <1>1
    <2>2. r \notin DOMAIN runs
      <3>1. DOMAIN runs \subseteq Nat
        BY SessionAssumption DEF SessionInvariant, SessionsTypeOK, Table, RunIds
      <3> QED
        BY <2>1, <3>1 DEF CreateRun, IsNext
    <2>3. /\ DOMAIN runs' = DOMAIN runs \cup {r}
          /\ runs'[r].session = s /\ runs'[r].status = "pending"
          /\ \A q \in DOMAIN runs : runs'[q] = runs[q]
          /\ Active(s) /\ UNCHANGED session
      BY <2>1, <2>2 DEF CreateRun, With, MayEnsureRun
    <2>4. /\ DOMAIN OwedView = DOMAIN runs /\ DOMAIN OwedView' = DOMAIN runs'
          /\ OwedView'[r].session = s /\ OwedView'[r].due
          /\ \A q \in DOMAIN runs : OwedView'[q] = OwedView[q]
      BY <2>3 DEF OwedView, Blocking
    <2>5. OpenView' = OpenView /\ s \in DOMAIN OpenView /\ OpenView[s]
      BY <2>3 DEF OpenView, Active
    <2> QED
      BY <2>2, <2>3, <2>4, <2>5 DEF Ledger!Noted
  <1>2. ASSUME NEW r \in RunIds,
               \/ Claim(r) \/ Retry(r) \/ Recover(r) \/ Fail(r)
               \/ Settle(r, "completed") \/ Settle(r, "discarded")
        PROVE  Ledger!Settled
    <2>1. PICK status \in RunStatuses, attempt \in Nat : Move(r, status, attempt)
      BY <1>2, TransitionsMove DEF SessionInvariant
    <2>2. r \in DOMAIN runs /\ runs[r].status \in Blocking
      BY <1>2, TransitionsMove DEF SessionInvariant
    <2>3. UNCHANGED session
      BY <2>1 DEF Move
    <2> QED
      BY <2>1, <2>2, <2>3, MoveKeepsTypes, MoveSettles DEF SessionInvariant
  <1>3. ASSUME NEW r \in RunIds, NEW from, Activate(r, from)
        PROVE  Ledger!Settled
    <2>1. /\ r \in DOMAIN runs /\ runs[r].status \in Blocking /\ UNCHANGED session
          /\ runs' = [runs EXCEPT ![r].status = "completed"]
      BY <1>3 DEF Activate, Fresh, Blocking
    <2>2. runs \in [DOMAIN runs -> RunRow]
      BY DEF SessionInvariant, SessionsTypeOK, Table
    <2>3. /\ DOMAIN runs' = DOMAIN runs /\ runs'[r].session = runs[r].session
          /\ \A q \in DOMAIN runs \ {r} : runs'[q] = runs[q]
      BY <2>1, <2>2 DEF RunRow
    <2> QED
      BY <2>1, <2>3, MoveSettles
  <1> QED
    BY <1>1, <1>2, <1>3 DEF RunStep

LEMMA ClosingLedger ==
    ASSUME SessionInvariant, ClosingStep
    PROVE  Ledger!Closed \/ Ledger!Dropped
  <1>1. CASE \E s \in SessionIds, seen \in SUBSET TurnIds, e \in Epochs : Close(s, seen, e)
    <2>1. PICK s \in SessionIds, seen \in SUBSET TurnIds, e \in Epochs : Close(s, seen, e)
      BY <1>1
    <2>2. /\ Active(s) /\ GateOpen(s) /\ UNCHANGED runs
          /\ session' = [session EXCEPT ![s].status = "closed"]
      BY <2>1 DEF Close, Unchanged
    <2>3. session \in [DOMAIN session -> SessionRow]
      BY DEF SessionInvariant, SessionsTypeOK, Table
    <2>4. /\ DOMAIN session' = DOMAIN session
          /\ session'[s].status = "closed"
          /\ \A x \in DOMAIN session \ {s} : session'[x] = session[x]
      BY <2>2, <2>3 DEF Active, SessionRow
    <2>5. s \in DOMAIN OpenView /\ OpenView[s]
      BY <2>2 DEF Active, OpenView
    <2>6. OpenView' = [OpenView EXCEPT ![s] = FALSE]
      BY <2>4 DEF OpenView
    <2>7. /\ OwedView' = OwedView
          /\ \A x \in Ledger!ExchangesOf(s) : ~OwedView[x].due
      BY <2>2 DEF OwedView, Ledger!ExchangesOf, GateOpen, RunsOf
    <2> QED
      BY <2>5, <2>6, <2>7 DEF Ledger!Closed
  <1>2. CASE \E t \in TurnIds : DeleteTurn(t)
    <2>1. PICK t \in TurnIds : DeleteTurn(t)
      BY <1>2
    <2>2. /\ Active(turn[t].session) /\ UNCHANGED session
          /\ DOMAIN runs' \subseteq DOMAIN runs
          /\ \A q \in DOMAIN runs' : runs'[q] = runs[q]
          /\ \A q \in DOMAIN runs \ DOMAIN runs' : runs[q].session = turn[t].session
      BY <2>1 DEF DeleteTurn, Without, RunsOf
    <2>3. /\ DOMAIN OwedView = DOMAIN runs /\ DOMAIN OwedView' = DOMAIN runs'
          /\ \A q \in DOMAIN runs' : OwedView'[q] = OwedView[q]
          /\ \A q \in DOMAIN runs : OwedView[q].session = runs[q].session
      BY <2>2 DEF OwedView
    <2>4. OpenView' = OpenView /\ OpenView[turn[t].session]
          /\ turn[t].session \in DOMAIN OpenView
      BY <2>2 DEF OpenView, Active
    <2> QED
      BY <2>2, <2>3, <2>4 DEF Ledger!Dropped
  <1> QED
    BY <1>1, <1>2 DEF ClosingStep

\* The tables, with their attempts, retries and recoveries, implement the
\* ledger: a session closes once, owing nothing, and nothing is owed again.
THEOREM SessionsImplementLedger == SessionSpec => ImplementsSessions
  <1>1. SessionInit => Ledger!LedgerInit
    BY DEF SessionInit, Nothing, Ledger!LedgerInit, OpenView, OwedView
  <1>2. SessionInvariant /\ [SessionNext]_sessionVars
          => [Ledger!LedgerNext]_<<OpenView, OwedView>>
    <2> SUFFICES ASSUME SessionInvariant, [SessionNext]_sessionVars
                 PROVE  [Ledger!LedgerNext]_<<OpenView, OwedView>>
      OBVIOUS
    <2>1. SessionPurge => Ledger!Erased
      BY DEF SessionPurge, Nothing, Ledger!Erased, OpenView, OwedView
    <2>2. UNCHANGED tables => UNCHANGED <<OpenView, OwedView>>
      BY DEF tables, OpenView, OwedView
    <2> QED
      BY <2>1, <2>2, TranscriptLedger, RunLedger, ClosingLedger
         DEF SessionNext, SessionResetStep, sessionVars, Ledger!LedgerNext
  <1> QED
    BY <1>1, <1>2, SessionsAreSafe, PTL DEF SessionSpec, ImplementsSessions, Ledger!LedgerSpec
=============================================================================
