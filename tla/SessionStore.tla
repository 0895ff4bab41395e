---------------------------- MODULE SessionStore ----------------------------
(***************************************************************************)
(* The conversation's rows: SQLiteSessionStore and SQLiteSessionFinalizer  *)
(* (sessions, turns, summaries), the extraction runs and the automatic     *)
(* memories of SQLiteMemoryStore, SQLiteSessionDataDeletionService, and    *)
(* what a reset purges of them.  Each action is one transaction.           *)
(*                                                                         *)
(* The callers are the most general ones: any operation, with arguments    *)
(* read at any earlier time.  The rows are those of one owner.  A row id   *)
(* is the highest one of its table plus one, so ids that were deleted are  *)
(* used again: those of turns when a session closes, all after a reset.    *)
(***************************************************************************)
EXTENDS OwnerLifecycle

CONSTANTS
    MaxLanes,      \* bound: ids of persona lanes
    MaxSessions,   \* bound: ids of sessions
    MaxTurns,      \* bound: ids and sequence numbers of turns
    MaxRuns,       \* bound: ids of extraction runs
    MaxClaims      \* bound: claims of one run

ASSUME SessionAssumption ==
    /\ MaxLanes \in Nat /\ MaxSessions \in Nat
    /\ MaxTurns \in Nat /\ MaxRuns \in Nat /\ MaxClaims \in Nat

VARIABLES
    lanes,     \* the ids of persona_session
    session,   \* session[s]: its lane and its status
    turn,      \* turn[t]: session, sequence and role of a transcript_turn
    runs,      \* runs[r]: a memory_extraction_run
    summary,   \* summary[s]: the turns summarised, and the epoch they were read in
    memory     \* memory[<<s, t>>]: the automatic memories of that provenance: how
               \* many batches, and the epoch the last one's exchange was read in

tables == <<lanes, session, turn, runs, summary, memory>>
sessionVars == <<profile, reset, tables>>

Roles       == {"user", "assistant"}
RunStatuses == {"pending", "processing", "failed", "completed", "discarded"}
Blocking    == {"pending", "processing", "failed"}
Provenance  == (1..MaxSessions) \X (1..MaxTurns)

LaneIds    == 1..MaxLanes
SessionIds == 1..MaxSessions
TurnIds    == 1..MaxTurns
RunIds     == 1..MaxRuns
Epochs     == 1..MaxEpoch

SessionRow == [lane : LaneIds, status : {"active", "closed"}]
TurnRow    == [session : SessionIds, seq : TurnIds, role : Roles]
RunRow     == [session : SessionIds, turn : TurnIds, epoch : Epochs,
               status : RunStatuses, attempt : Nat]
SummaryRow == [turns : SUBSET TurnIds, read : Epochs]
MemoryRow  == [read : Epochs, batches : Nat]

Table(f, ids, row) == DOMAIN f \subseteq ids /\ f \in [DOMAIN f -> row]

SessionsTypeOK ==
    /\ LifecycleTypeOK
    /\ profile.epoch \in Epochs
    /\ lanes \subseteq LaneIds
    /\ Table(session, SessionIds, SessionRow)
    /\ Table(turn, TurnIds, TurnRow)
    /\ Table(runs, RunIds, RunRow)
    /\ Table(summary, SessionIds, SummaryRow)
    /\ Table(memory, Provenance, MemoryRow)
    \* the foreign keys, which the writers uphold
    /\ \A t \in DOMAIN turn : turn[t].session \in DOMAIN session
    /\ \A r \in DOMAIN runs : runs[r].session \in DOMAIN session
    /\ DOMAIN summary \subseteq DOMAIN session

Nothing == [x \in {} |-> 0]

SessionInit ==
    /\ LifecycleInit
    /\ lanes = {}
    /\ session = Nothing /\ turn = Nothing /\ runs = Nothing
    /\ summary = Nothing /\ memory = Nothing

-----------------------------------------------------------------------------
(* Rows *)

\* The id SQLite gives the next row of a table, or the next sequence number.
IsNext(used, i) == (\A j \in used : j < i) /\ (i = 1 \/ i - 1 \in used)

With(f, x, row) == [y \in DOMAIN f \cup {x} |-> IF y = x THEN row ELSE f[y]]
Without(f, gone) == [y \in DOMAIN f \ gone |-> f[y]]

Active(s)   == s \in DOMAIN session /\ session[s].status = "active"
TurnsOf(s)  == {t \in DOMAIN turn : turn[t].session = s}
RunsOf(s)   == {r \in DOMAIN runs : runs[r].session = s}
SeqsOf(s)   == {turn[t].seq : t \in TurnsOf(s)}

-----------------------------------------------------------------------------
(* Lanes, sessions and turns *)

\* route_message gives a persona version its lane the first time it is used.
OpenLane(l) ==
    /\ IsNext(lanes, l)
    /\ lanes' = lanes \cup {l}
    /\ UNCHANGED <<profile, reset, session, turn, runs, summary, memory>>

ActiveOf(l) == {s \in DOMAIN session : session[s] = [lane |-> l, status |-> "active"]}

\* ensure_active_session, when the lane has no active session.  The state of
\* the profile is not looked at.
OpenSession(l, s) ==
    /\ l \in lanes
    /\ ActiveOf(l) = {}
    /\ IsNext(DOMAIN session, s)
    /\ session' = With(session, s, [lane |-> l, status |-> "active"])
    /\ UNCHANGED <<profile, reset, lanes, turn, runs, summary, memory>>

\* Fault: the session is not looked at.
AppendTurn_AnySession(s, role, t) ==
    /\ s \in DOMAIN session
    /\ IsNext(DOMAIN turn, t)
    /\ \E q \in TurnIds :
        /\ IsNext(SeqsOf(s), q)
        /\ turn' = With(turn, t, [session |-> s, seq |-> q, role |-> role])
    /\ UNCHANGED <<profile, reset, lanes, session, runs, summary, memory>>

\* _append_turn: only to an active session, at the end.
AppendTurn(s, role, t) ==
    /\ Active(s)
    /\ IsNext(DOMAIN turn, t)
    /\ \E q \in TurnIds :
        /\ IsNext(SeqsOf(s), q)
        /\ turn' = With(turn, t, [session |-> s, seq |-> q, role |-> role])
    /\ UNCHANGED <<profile, reset, lanes, session, runs, summary, memory>>

-----------------------------------------------------------------------------
(* Extraction runs and what they learn *)

RunOf(s, t, e) ==
    {r \in DOMAIN runs : /\ runs[r].session = s /\ runs[r].turn = t
                         /\ runs[r].epoch = e}

MayEnsureRun(s, t) ==
    /\ Active(s)
    /\ OwnerActive
    /\ t \in TurnsOf(s)

\* ensure_extraction_run, when the turn has no run of this epoch yet.
CreateRun(s, t, r) ==
    /\ MayEnsureRun(s, t)
    /\ RunOf(s, t, profile.epoch) = {}
    /\ IsNext(DOMAIN runs, r)
    /\ runs' = With(runs, r, [session |-> s, turn |-> t, epoch |-> profile.epoch,
                              status |-> "pending", attempt |-> 0])
    /\ UNCHANGED <<profile, reset, lanes, session, turn, summary, memory>>

\* _transition_extraction_run refuses a run of another epoch or status.
Fresh(r, status) ==
    /\ r \in DOMAIN runs
    /\ CurrentEpoch(runs[r].epoch)
    /\ runs[r].status = status

Move(r, status, attempt) ==
    /\ runs' = [runs EXCEPT ![r].status = status, ![r].attempt = attempt]
    /\ UNCHANGED <<profile, reset, lanes, session, turn, summary, memory>>

\* claim_extraction_run counts the attempt.
Claim(r) ==
    /\ Fresh(r, "pending")
    /\ runs[r].attempt < MaxClaims
    /\ Move(r, "processing", runs[r].attempt + 1)

\* The transaction of retry_extraction_run: the status is looked at once more, the
\* attempt that was compared with the budget before is not.
Retry(r) ==
    /\ Fresh(r, "failed")
    /\ Move(r, "pending", runs[r].attempt)

\* recover_extraction_run: a claim nobody is thought to hold.
Recover(r) ==
    /\ Fresh(r, "processing")
    /\ Move(r, "pending", runs[r].attempt)

Fail(r) ==
    /\ Fresh(r, "processing")
    /\ Move(r, "failed", runs[r].attempt)

\* discard_extraction_run, and activate_extraction without candidates, which
\* completes the run and stores nothing.
Settle(r, status) ==
    /\ Fresh(r, "processing")
    /\ Move(r, status, runs[r].attempt)

Learned(k, read) ==
    With(memory, k, [read |-> read,
                     batches |-> IF k \in DOMAIN memory THEN memory[k].batches + 1
                                 ELSE 1])

\* Fault: a run that was settled meanwhile is activated once more.
Activate_Again(r, from) ==
    /\ r \in DOMAIN runs
    /\ CurrentEpoch(runs[r].epoch)
    /\ from.session = runs[r].session /\ from.turn = runs[r].turn
    /\ runs' = [runs EXCEPT ![r].status = "completed"]
    /\ memory' = Learned(<<from.session, from.turn>>, from.read)
    /\ UNCHANGED <<profile, reset, lanes, session, turn, summary>>

\* activate_extraction with at least one candidate: memories and completion in
\* one transaction.  The provenance has to be the row's; the epoch that is
\* compared is the row's as well, not the one in which the caller read the
\* exchange (from.read).
Activate(r, from) ==
    /\ Fresh(r, "processing")
    /\ from.session = runs[r].session /\ from.turn = runs[r].turn
    /\ runs' = [runs EXCEPT ![r].status = "completed"]
    /\ memory' = Learned(<<from.session, from.turn>>, from.read)
    /\ UNCHANGED <<profile, reset, lanes, session, turn, summary>>

-----------------------------------------------------------------------------
(* Closing, deleting, resetting *)

\* Fault: an exhausted run no longer blocks.
GateOpen_NotFailed(s) ==
    \A r \in RunsOf(s) : runs[r].status \notin {"pending", "processing"}

GateOpen(s) == \A r \in RunsOf(s) : runs[r].status \notin Blocking

\* Fault: turns that arrived during the summary are not noticed.
Unchanged_NoRecount(s, seen, read) ==
    /\ Active(s)
    /\ CurrentEpoch(read)
    /\ seen \subseteq TurnsOf(s)

\* The session is still what the summary was made from: active, in the epoch
\* read, with exactly the turns seen.
Unchanged(s, seen, read) ==
    /\ Active(s)
    /\ CurrentEpoch(read)
    /\ TurnsOf(s) = seen

\* The transaction of finalize, seen being the turns it summarised and read
\* the epoch it read them in.  The turns go, the summary stays.
Close(s, seen, read) ==
    /\ s \notin DOMAIN summary
    /\ Unchanged(s, seen, read)
    /\ GateOpen(s)
    /\ summary' = With(summary, s, [turns |-> seen, read |-> read])
    /\ turn' = Without(turn, TurnsOf(s))
    /\ session' = [session EXCEPT ![s].status = "closed"]
    /\ UNCHANGED <<profile, reset, lanes, runs, memory>>

\* The answer directly after a user turn.
AnswerTo(t) ==
    {a \in TurnsOf(turn[t].session) :
        /\ turn[t].role = "user"
        /\ turn[a].role = "assistant"
        /\ turn[a].seq = turn[t].seq + 1}

\* delete_turn: with its answer, its run, and every memory whose provenance
\* names that turn id, the session of the memory not being compared.  An
\* active session has no summary to invalidate.
DeleteTurn(t) ==
    /\ t \in DOMAIN turn
    /\ Active(turn[t].session)
    /\ turn' = Without(turn, {t} \cup AnswerTo(t))
    /\ runs' = Without(runs, {r \in RunsOf(turn[t].session) : runs[r].turn = t})
    /\ memory' = Without(memory, {k \in DOMAIN memory : k[2] = t})
    /\ UNCHANGED <<profile, reset, lanes, session, summary>>

\* _purge_canonical_data: deleting the sessions cascades to turns, runs and
\* summaries, and the lanes that had sessions go as well.
SessionPurge ==
    /\ session' = Nothing /\ turn' = Nothing /\ runs' = Nothing
    /\ summary' = Nothing /\ memory' = Nothing
    /\ lanes' = lanes \ {session[s].lane : s \in DOMAIN session}

\* reset() as these tables see it: the quiesce and purge hooks leave them alone.
SessionResetStep ==
    \/ (BeginReset \/ Quiesce \/ PurgeHooks \/ AbandonReset) /\ UNCHANGED tables
    \/ CommitReset /\ SessionPurge

-----------------------------------------------------------------------------

TranscriptStep ==
    \/ \E l \in LaneIds : OpenLane(l)
    \/ \E l \in LaneIds, s \in SessionIds : OpenSession(l, s)
    \/ \E s \in SessionIds, role \in Roles, t \in TurnIds : AppendTurn(s, role, t)

RunStep ==
    \/ \E s \in SessionIds, t \in TurnIds, r \in RunIds : CreateRun(s, t, r)
    \/ \E r \in RunIds :
        \/ Claim(r) \/ Retry(r) \/ Recover(r) \/ Fail(r)
        \/ Settle(r, "completed") \/ Settle(r, "discarded")
        \/ \E s \in SessionIds, t \in TurnIds, e \in Epochs :
               Activate(r, [session |-> s, turn |-> t, read |-> e])

ClosingStep ==
    \/ \E s \in SessionIds, seen \in SUBSET TurnIds, e \in Epochs : Close(s, seen, e)
    \/ \E t \in TurnIds : DeleteTurn(t)

SessionNext == TranscriptStep \/ RunStep \/ ClosingStep \/ SessionResetStep

SessionSpec == SessionInit /\ [][SessionNext]_sessionVars

-----------------------------------------------------------------------------
(* Properties *)

\* A closed session is complete: it has its summary, its turns are gone, and
\* no run of it is left that could still fail, be retried or learn something,
\* however late a worker comes back to it.
ClosedIsComplete ==
    \A s \in DOMAIN session :
        session[s].status = "closed" =>
            /\ s \in DOMAIN summary
            /\ TurnsOf(s) = {}
            /\ GateOpen(s)

\* While the profile is open, no run and no summary comes from an earlier
\* life, although its ids, sessions and turns have the same numbers again.
RowsOfThisLife ==
    OwnerActive =>
        /\ \A r \in DOMAIN runs : runs[r].epoch = profile.epoch
        /\ \A s \in DOMAIN summary : summary[s].read = profile.epoch

\* An exchange is learned from at most once, and only by the run that is now
\* completed: two workers that hold the same run cannot both store memories.
LearnedOnce ==
    \A k \in DOMAIN memory :
        /\ memory[k].batches = 1
        /\ \E r \in DOMAIN runs : /\ runs[r].session = k[1] /\ runs[r].turn = k[2]
                                  /\ runs[r].status = "completed"

\* No turn disappears with the close of its session unless the summary was made
\* from it: a message that arrives while the provider writes the summary is
\* never lost.
NothingUnsummarised ==
    [][\A s \in DOMAIN session :
          Active(s) /\ s \in DOMAIN session' /\ session'[s].status = "closed" =>
              TurnsOf(s) \subseteq summary'[s].turns]_sessionVars

\* The tables with their attempts and turns implement the ledger of exchanges.
OpenView == [s \in DOMAIN session |-> session[s].status = "active"]
OwedView == [r \in DOMAIN runs |-> [session |-> runs[r].session,
                                    due |-> runs[r].status \in Blocking]]
Ledger == INSTANCE SessionLedger WITH open <- OpenView, owed <- OwedView
ImplementsSessions == Ledger!LedgerSpec

\* Why they hold together: the inductive invariant.
ActiveHasNoSummary == \A s \in DOMAIN summary : ~Active(s)
OneRunPerExchange ==
    \A r1, r2 \in DOMAIN runs :
        /\ runs[r1].session = runs[r2].session
        /\ runs[r1].turn = runs[r2].turn
        => r1 = r2
SessionInvariant ==
    /\ SessionsTypeOK
    /\ ClosedIsComplete
    /\ RowsOfThisLife
    /\ ActiveHasNoSummary
    /\ OneRunPerExchange
    /\ LearnedOnce
=============================================================================
