------------------------- MODULE SessionMemoryProofs -------------------------
(***************************************************************************)
(* For any number of handlers, closers, messages, failures and crashes:    *)
(* the program uses the session tables within the contract of              *)
(* SessionStore, so that what SessionStoreProofs proves of the tables      *)
(* holds in the program, the coordinator's lock keeps its workers apart,   *)
(* no claim outlives the work and the start-up, a run uses up its budget   *)
(* only for a cause, and a budget that is used up stays so without a close.*)
(***************************************************************************)
EXTENDS SessionMemory, SessionStoreProofs

\* A row that keeps the type invariant.
GoodRow(row) ==
    /\ row \in ActorRow
    /\ row.step \in {"read", "call"} => row.job \in Exchange

\* Nobody but the finalizer works off a list without the lock.
LockHeld ==
    /\ \A p \in Actors \ Closers : at[p].step \in JobSteps => p \in lock
    /\ \A p, q \in lock : p = q

MemoryInv == MemoryTypeOK /\ LockHeld

\* One actor moves; it begins with a list under the lock or as a closer, and
\* gives the lock back only when its list is over.
Moves(p, row) ==
    /\ Becomes(p, row)
    /\ GoodRow(row)
    /\ \/ /\ UNCHANGED lock
          /\ row.step \in JobSteps => at[p].step \in JobSteps \/ p \in Closers
       \/ lock' = lock \ {p} /\ row.step \notin JobSteps
       \/ lock = {} /\ lock' = {p}

-----------------------------------------------------------------------------
(* Rows *)

LEMMA SnapshotType ==
    ASSUME SessionsTypeOK, NEW R, R \subseteq DOMAIN runs
    PROVE  SnapshotOf(R) \in Todo
  <1>1. \A r \in R : runs[r].status \in RunStatuses
    BY DEF SessionsTypeOK, Table, RunRow
  <1>2. SnapshotOf(R) \in [R -> Snapshot]
    BY <1>1 DEF SnapshotOf, Snapshot
  <1>3. R \in SUBSET RunIds
    BY DEF SessionsTypeOK, Table
  <1> QED
    BY <1>2, <1>3 DEF Todo

LEMMA RestType ==
    ASSUME NEW f \in Todo, NEW S
    PROVE  Without(f, S) \in Todo
  <1>1. PICK R \in SUBSET RunIds : f \in [R -> Snapshot]
    BY DEF Todo
  <1>2. Without(f, S) \in [R \ S -> Snapshot]
    BY <1>1 DEF Without
  <1> QED
    BY <1>2 DEF Todo

LEMMA NothingType == Nothing \in Todo
  <1>1. Nothing \in [{} -> Snapshot]
    BY DEF Nothing
  <1> QED
    BY <1>1 DEF Todo

LEMMA QuietIsGood == GoodRow(Quiet)
  BY NothingType DEF GoodRow, Quiet, ActorRow, Steps, Purposes

LEMMA ListsAreGood ==
    ASSUME SessionsTypeOK, NEW l \in LaneIds \cup {0}, NEW purpose \in Purposes,
           NEW R, R \subseteq DOMAIN runs
    PROVE  GoodRow(Lists(l, purpose, R))
  <1>1. SnapshotOf(R) \in Todo
    BY SnapshotType
  <1> QED
    BY <1>1, QuietIsGood DEF GoodRow, Lists, Quiet, ActorRow, Steps, JobSteps

LEMMA ReturnedIsGood ==
    ASSUME MemoryTypeOK, NEW p \in Actors
    PROVE  GoodRow(Returned(p)) /\ Returned(p).step \notin JobSteps
  <1>1. at[p] \in ActorRow
    BY DEF MemoryTypeOK
  <1>2. ASSUME NEW step \in {"begin", "boot", "gate"}
        PROVE  GoodRow(Cleared(p, step)) /\ Cleared(p, step).step \notin JobSteps
    <2>1. step \in Steps \ JobSteps /\ step \notin {"read", "call"}
      BY <1>2 DEF Steps, JobSteps, HandlerSteps, CloserSteps
    <2>2. Cleared(p, step) \in ActorRow
      BY <1>1, <2>1, NothingType DEF Cleared, ActorRow, Purposes
    <2>3. Cleared(p, step).step = step
      BY <1>1 DEF Cleared, ActorRow
    <2> QED
      BY <2>1, <2>2, <2>3 DEF GoodRow
  <1>3. GoodRow(Quiet) /\ Quiet.step \notin JobSteps
    BY QuietIsGood DEF Quiet, JobSteps
  <1> QED
    BY <1>2, <1>3 DEF Returned

LEMMA RowOf ==
    ASSUME MemoryTypeOK, NEW p \in Actors
    PROVE  /\ at[p] \in ActorRow
           /\ at[p].step \in {"read", "call"} => at[p].job \in Exchange
  BY DEF MemoryTypeOK

-----------------------------------------------------------------------------
(* Every step of an actor moves it *)

LEMMA RaisesMoves ==
    ASSUME MemoryTypeOK, NEW p \in Actors, Raises(p)
    PROVE  \E row : Moves(p, row)
  <1>1. GoodRow(Quiet) /\ Quiet.step \notin JobSteps
    BY QuietIsGood DEF Quiet, JobSteps
  <1> QED
    BY <1>1, ReturnedIsGood DEF Raises, Moves

LEMMA EndsMoves ==
    ASSUME NEW p \in Actors, Ends(p), UNCHANGED lock
    PROVE  \E row : Moves(p, row)
  <1>1. GoodRow(Quiet) /\ Quiet.step \notin JobSteps
    BY QuietIsGood DEF Quiet, JobSteps
  <1> QED
    BY <1>1 DEF Ends, Moves

\* An actor that only goes on to another step.
LEMMA GoMoves ==
    ASSUME MemoryTypeOK, NEW p \in Actors, NEW step \in Steps \ {"read", "call"},
           Go(p, step), UNCHANGED lock,
           step \in JobSteps => at[p].step \in JobSteps
    PROVE  \E row : Moves(p, row)
  <1> DEFINE row == [at[p] EXCEPT !.step = step]
  <1>1. row \in ActorRow /\ row.step = step
    BY RowOf DEF ActorRow
  <1>2. GoodRow(row)
    BY <1>1 DEF GoodRow
  <1> QED
    BY <1>1, <1>2 DEF Go, Moves

LEMMA ListMoves ==
    ASSUME MemoryTypeOK, NEW p \in Actors, ListStep(p)
    PROVE  \E row : Moves(p, row)
  <1>1. at[p] \in ActorRow
    BY RowOf
  <1>2. ASSUME NEW r \in RunIds, SkipRun(p, r) PROVE \E row : Moves(p, row)
    <2> DEFINE row == [at[p] EXCEPT !.todo = Rest(p, r)]
    <2>1. Rest(p, r) \in Todo
      BY <1>1, RestType DEF Rest, ActorRow
    <2>2. row \in ActorRow /\ row.step = at[p].step
      BY <1>1, <2>1 DEF ActorRow
    <2>3. at[p].step = "next"
      BY <1>2 DEF SkipRun, NextRun
    <2>4. Moves(p, row)
      BY <1>2, <2>2, <2>3 DEF SkipRun, Moves, GoodRow
    <2> QED
      BY <2>4
  <1>3. ASSUME NEW r \in RunIds, TakeRun(p, r) PROVE \E row : Moves(p, row)
    <2>0. PICK step \in {"claim", "check"} : Takes(p, r, step)
      BY <1>3 DEF TakeRun
    <2> DEFINE row == [at[p] EXCEPT !.step = step, !.run = r, !.todo = Rest(p, r)]
    <2>1. Rest(p, r) \in Todo
      BY <1>1, RestType DEF Rest, ActorRow
    <2>a. step \in Steps /\ step \notin {"read", "call"}
      BY DEF Steps, JobSteps
    <2>2. row \in ActorRow /\ row.step = step
      BY <1>1, <2>1, <2>a DEF ActorRow
    <2>3. at[p].step \in JobSteps
      BY <1>3 DEF TakeRun, NextRun, JobSteps
    <2>4. Moves(p, row)
      BY <2>0, <2>2, <2>3 DEF Takes, Moves, GoodRow
    <2> QED
      BY <2>4
  <1>4. ASSUME NEW r \in RunIds, RunRefused(p, r) PROVE \E row : Moves(p, row)
    BY <1>4, RaisesMoves DEF RunRefused
  <1>5. CASE ListDone(p)
    BY <1>5, ReturnedIsGood DEF ListDone, Moves
  <1> QED
    BY <1>2, <1>3, <1>4, <1>5 DEF ListStep

\* The exchange of a run that can be claimed.
LEMMA ExchangeType ==
    ASSUME SessionsTypeOK, NEW r \in DOMAIN runs
    PROVE  ExchangeOf(r) \in Exchange
  BY DEF SessionsTypeOK, Table, RunRow, ExchangeOf, Exchange

LEMMA ErrsMoves ==
    ASSUME MemoryTypeOK, NEW p \in Actors, Errs(p), UNCHANGED lock,
           at[p].step \in JobSteps
    PROVE  \E row : Moves(p, row)
  <1> DEFINE row == [at[p] EXCEPT !.step = "fail", !.job = Nothing]
  <1>1. row \in ActorRow /\ row.step = "fail"
    BY RowOf DEF ActorRow, Steps, JobSteps
  <1>2. Moves(p, row)
    BY <1>1 DEF Errs, Moves, GoodRow
  <1> QED
    BY <1>2

LEMMA JobMoves ==
    ASSUME MemoryTypeOK, NEW p \in Actors, JobStep(p) \/ JobFaults(p) \/ FailureIsLost(p)
    PROVE  \E row : Moves(p, row)
  <1>1. /\ at[p] \in ActorRow
        /\ at[p].step \in {"read", "call"} => at[p].job \in Exchange
    BY RowOf
  <1>2. CASE JobClaims(p)
    <2> DEFINE row == [at[p] EXCEPT !.step = "read", !.job = ExchangeOf(at[p].run)]
    <2>1. at[p].run \in DOMAIN runs
      BY <1>2 DEF JobClaims, Claim, Fresh
    <2>2. ExchangeOf(at[p].run) \in Exchange
      BY <2>1, ExchangeType DEF MemoryTypeOK
    <2>3. row \in ActorRow /\ row.step = "read" /\ row.job \in Exchange
      BY <1>1, <2>2 DEF ActorRow, Steps, JobSteps
    <2>4. Moves(p, row)
      BY <1>2, <2>3 DEF JobClaims, Moves, GoodRow, JobSteps
    <2> QED
      BY <2>4
  <1>3. CASE JobReads(p)
    <2>1. CASE HasExchange(at[p].job.session, at[p].job.turn)
      <3> DEFINE row == [at[p] EXCEPT !.step = "call", !.job.read = profile.epoch]
      <3>1. at[p].job \in Exchange
        BY <1>1, <1>3 DEF JobReads
      <3>2. profile.epoch \in Epochs
        BY DEF MemoryTypeOK, SessionsTypeOK
      <3>3. [at[p].job EXCEPT !.read = profile.epoch] \in Exchange
        BY <3>1, <3>2 DEF Exchange
      <3>4. row = [at[p] EXCEPT !.step = "call",
                                !.job = [at[p].job EXCEPT !.read = profile.epoch]]
        BY <1>1 DEF ActorRow
      <3>5. row \in ActorRow /\ row.step = "call" /\ row.job \in Exchange
        BY <1>1, <3>3, <3>4 DEF ActorRow, Steps, JobSteps
      <3>6. Moves(p, row)
        BY <1>3, <2>1, <3>5 DEF JobReads, Moves, GoodRow, JobSteps
      <3> QED
        BY <3>6
    <2>2. CASE ~HasExchange(at[p].job.session, at[p].job.turn)
      BY <1>3, <2>2, ErrsMoves DEF JobReads, JobSteps
    <2> QED
      BY <2>1, <2>2
  <1>4. CASE JobLearns(p)
    <2> DEFINE row == [at[p] EXCEPT !.step = "next", !.run = 0, !.job = Nothing]
    <2>1. row \in ActorRow /\ row.step = "next"
      BY <1>1 DEF ActorRow, Steps, JobSteps
    <2>2. Moves(p, row)
      BY <1>4, <2>1 DEF JobLearns, Moves, GoodRow, JobSteps
    <2> QED
      BY <2>2
  <1>5. CASE JobOvertaken(p) \/ JobFaults(p)
    BY <1>5, ErrsMoves DEF JobOvertaken, JobFaults, JobSteps
  <1>6. CASE JobNotClaimed(p) \/ JobFails(p) \/ FailureIsLost(p)
    BY <1>6, GoMoves DEF JobNotClaimed, JobFails, FailureIsLost, JobSteps, Steps
  <1>7. CASE JobChecks(p) \/ JobRetries(p)
    BY <1>7, GoMoves DEF JobChecks, JobRetries, JobSteps, Steps
  <1>8. CASE JobGivesUp(p)
    BY <1>8, RaisesMoves DEF JobGivesUp
  <1> QED
    BY <1>2, <1>3, <1>4, <1>5, <1>6, <1>7, <1>8 DEF JobStep

LEMMA HandlerMoves ==
    ASSUME MemoryTypeOK, NEW h \in Handlers, HandlerStep(h) \/ HandlerBreaks(h)
    PROVE  \E row : Moves(h, row)
  <1>1. h \in Actors /\ at[h] \in ActorRow /\ SessionsTypeOK
    BY DEF Actors, MemoryTypeOK
  <1>2. at[h].lane \in LaneIds \cup {0} /\ "drain" \in Purposes /\ "after" \in Purposes
    BY <1>1 DEF ActorRow, Purposes
  <1>3. CASE Drains(h)
    <2>1. GoodRow(Lists(at[h].lane, "drain", RunsOfLane(at[h].lane)))
      BY <1>1, <1>2, ListsAreGood DEF RunsOfLane
    <2> QED
      BY <1>3, <2>1 DEF Drains, Works, Moves
  <1>4. CASE HandsOver(h)
    <2>1. GoodRow(Lists(at[h].lane, "after", {at[h].run}))
      BY <1>1, <1>2, <1>4, ListsAreGood DEF HandsOver, OfLane
    <2> QED
      BY <1>4, <2>1 DEF HandsOver, Works, Moves
  <1>5. CASE Begins(h)
    <2>1. PICK s \in SessionIds :
            Becomes(h, [at[h] EXCEPT !.step = "say", !.session = s])
      BY <1>5 DEF Begins
    <2> DEFINE row == [at[h] EXCEPT !.step = "say", !.session = s]
    <2>2. row \in ActorRow /\ row.step = "say"
      BY <1>1 DEF ActorRow, Steps, HandlerSteps
    <2>3. Moves(h, row)
      BY <1>5, <2>1, <2>2 DEF Begins, Moves, GoodRow, JobSteps
    <2> QED
      BY <2>3
  <1>6. CASE Says(h)
    <2>1. PICK t \in TurnIds : Becomes(h, [at[h] EXCEPT !.step = "ask", !.turn = t])
      BY <1>6 DEF Says
    <2> DEFINE row == [at[h] EXCEPT !.step = "ask", !.turn = t]
    <2>2. row \in ActorRow /\ row.step = "ask"
      BY <1>1 DEF ActorRow, Steps, HandlerSteps
    <2>3. Moves(h, row)
      BY <1>6, <2>1, <2>2 DEF Says, Moves, GoodRow, JobSteps
    <2> QED
      BY <2>3
  <1>7. CASE Notes(h)
    <2>1. PICK r \in RunIds : Becomes(h, [at[h] EXCEPT !.step = "deliver", !.run = r])
      BY <1>7 DEF Notes
    <2> DEFINE row == [at[h] EXCEPT !.step = "deliver", !.run = r]
    <2>2. row \in ActorRow /\ row.step = "deliver"
      BY <1>1 DEF ActorRow, Steps, HandlerSteps
    <2>3. Moves(h, row)
      BY <1>7, <2>1, <2>2 DEF Notes, Moves, GoodRow, JobSteps
    <2> QED
      BY <2>3
  <1>8. CASE Answers(h)
    BY <1>1, <1>8, GoMoves DEF Answers, Steps, HandlerSteps, JobSteps
  <1>9. CASE TurnRefused(h) \/ NoteRefused(h) \/ HandoverRefused(h) \/ HandlerBreaks(h)
    BY <1>1, <1>9, EndsMoves DEF TurnRefused, NoteRefused, HandoverRefused, HandlerBreaks
  <1> QED
    BY <1>3, <1>4, <1>5, <1>6, <1>7, <1>8, <1>9 DEF HandlerStep

LEMMA ArrivalMoves ==
    ASSUME MemoryTypeOK, NEW h \in Handlers, NEW l \in LaneIds, Arrives(h, l)
    PROVE  \E row : Moves(h, row)
  <1> DEFINE row == [Quiet EXCEPT !.step = "drain", !.lane = l]
  <1>1. row \in ActorRow /\ row.step = "drain"
    BY QuietIsGood DEF GoodRow, Quiet, ActorRow, Steps, HandlerSteps
  <1>2. Moves(h, row)
    BY <1>1 DEF Arrives, Moves, GoodRow, JobSteps
  <1> QED
    BY <1>2

LEMMA CloserMoves ==
    ASSUME MemoryTypeOK, NEW c \in Closers, CloserStep(c) \/ Confirmed(c) \/ CloseBreaks(c)
    PROVE  \E row : Moves(c, row)
  <1>1. c \in Actors /\ at[c] \in ActorRow /\ SessionsTypeOK
    BY DEF Actors, MemoryTypeOK
  <1>2. CASE ReadsSession(c)
    <2> DEFINE row == [at[c] EXCEPT !.step = "turns", !.read = profile.epoch]
    <2>1. row \in ActorRow /\ row.step = "turns"
      BY <1>1 DEF SessionsTypeOK, ActorRow, Steps, CloserSteps
    <2>2. Moves(c, row)
      BY <1>2, <2>1 DEF ReadsSession, Moves, GoodRow
    <2> QED
      BY <2>2
  <1>3. CASE ReadsTurns(c)
    <2> DEFINE row == [at[c] EXCEPT !.step = "list", !.seen = TurnsOf(at[c].session)]
    <2>1. TurnsOf(at[c].session) \subseteq TurnIds
      BY <1>1 DEF SessionsTypeOK, Table, TurnsOf
    <2>2. row \in ActorRow /\ row.step = "list"
      BY <1>1, <2>1 DEF ActorRow, Steps, CloserSteps
    <2>3. Moves(c, row)
      BY <1>3, <2>2 DEF ReadsTurns, Moves, GoodRow
    <2> QED
      BY <2>3
  <1>4. CASE ListsRuns(c)
    <2> DEFINE row == [at[c] EXCEPT !.step = "next", !.for = "close",
                                    !.todo = SnapshotOf(RunsOf(at[c].session))]
    <2>1. SnapshotOf(RunsOf(at[c].session)) \in Todo
      BY <1>1, SnapshotType DEF RunsOf
    <2>2. row \in ActorRow /\ row.step = "next"
      BY <1>1, <2>1 DEF ActorRow, Steps, JobSteps, Purposes
    <2>3. Moves(c, row)
      BY <1>4, <2>2 DEF ListsRuns, Moves, GoodRow
    <2> QED
      BY <2>3
  <1>5. CASE PassesGate(c)
    BY <1>1, <1>5, GoMoves DEF PassesGate, Steps, CloserSteps, JobSteps
  <1>6. CASE Commits(c) \/ CloseEnds(c) \/ CloseBreaks(c)
    BY <1>1, <1>6, EndsMoves DEF Commits, CloseEnds, CloseBreaks
  <1>7. CASE Confirmed(c)
    <2>1. PICK s \in DOMAIN session :
            Becomes(c, [Quiet EXCEPT !.step = "open", !.session = s])
      BY <1>7 DEF Confirmed
    <2> DEFINE row == [Quiet EXCEPT !.step = "open", !.session = s]
    <2>2. s \in SessionIds
      BY <1>1 DEF SessionsTypeOK, Table
    <2>3. row \in ActorRow /\ row.step = "open"
      BY <2>2, QuietIsGood DEF GoodRow, Quiet, ActorRow, Steps, CloserSteps
    <2>4. Moves(c, row)
      BY <1>7, <2>1, <2>3 DEF Confirmed, Moves, GoodRow
    <2> QED
      BY <2>4
  <1> QED
    BY <1>2, <1>3, <1>4, <1>5, <1>6, <1>7 DEF CloserStep

LEMMA BootMoves ==
    ASSUME MemoryTypeOK, BootStep
    PROVE  \E row : Moves(Boot, row)
  <1>1. Boot \in Actors /\ SessionsTypeOK
    BY DEF Actors, MemoryTypeOK
  <1>2. CASE BootDrains
    <2>1. PICK l \in LanesWithRuns :
            /\ lock = {} /\ lock' = {Boot}
            /\ Becomes(Boot, Lists(l, "boot", RunsOfLane(l)))
      BY <1>2 DEF BootDrains
    <2>2. l \in LaneIds
      BY <1>1 DEF LanesWithRuns, SessionsTypeOK, Table, SessionRow
    <2>3. GoodRow(Lists(l, "boot", RunsOfLane(l)))
      BY <1>1, <2>2, ListsAreGood DEF RunsOfLane, Purposes
    <2> QED
      BY <2>1, <2>3 DEF Moves
  <1>3. CASE BootEnds
    BY <1>1, <1>3, EndsMoves DEF BootEnds
  <1> QED
    BY <1>2, <1>3 DEF BootStep

-----------------------------------------------------------------------------
(* Every step keeps to the contract of the session tables *)

\* The program deletes no turn and resets nothing.
Transaction ==
    \/ TranscriptStep
    \/ RunStep
    \/ \E s \in SessionIds, seen \in SUBSET TurnIds, e \in Epochs : Close(s, seen, e)
    \/ UNCHANGED sessionVars

LEMMA ListKeepsContract ==
    ASSUME NEW p \in Actors, ListStep(p)
    PROVE  Transaction
  <1>1. CASE \E r \in RunIds : TakeRun(p, r)
    <2>1. PICK r \in RunIds : TakeRun(p, r)
      BY <1>1
    <2>2. Recover(r) \/ UNCHANGED sessionVars
      BY <2>1 DEF TakeRun
    <2> QED
      BY <2>2 DEF Transaction, RunStep
  <1> QED
    BY <1>1 DEF Transaction, ListStep, SkipRun, RunRefused, ListDone

LEMMA JobKeepsContract ==
    ASSUME MemoryTypeOK, NEW p \in Actors,
           JobStep(p) \/ JobFaults(p) \/ FailureIsLost(p)
    PROVE  Transaction
  <1> DEFINE r == at[p].run
  <1>1. r \in DOMAIN runs => r \in RunIds
    BY DEF MemoryTypeOK, SessionsTypeOK, Table
  <1>2. CASE JobClaims(p) \/ JobFails(p) \/ JobRetries(p)
    <2>1. \/ Claim(r) \/ Fail(r) \/ Retry(r)
          \/ UNCHANGED sessionVars
      BY <1>2 DEF JobClaims, JobFails, JobRetries
    <2>2. Claim(r) \/ Fail(r) \/ Retry(r) => r \in RunIds
      BY <1>1 DEF Claim, Fail, Retry, Fresh
    <2> QED
      BY <2>1, <2>2 DEF Transaction, RunStep
  <1>3. CASE JobLearns(p)
    <2>1. Activate(r, at[p].job) \/ Settle(r, "completed")
      BY <1>3 DEF JobLearns
    <2>2. r \in RunIds
      BY <1>1, <2>1 DEF Activate, Settle, Fresh
    <2>3. at[p].job \in Exchange
      BY <1>3, RowOf DEF JobLearns
    <2>4. PICK s \in SessionIds, t \in TurnIds, e \in Epochs :
            at[p].job = [session |-> s, turn |-> t, read |-> e]
      BY <2>3 DEF Exchange
    <2> QED
      BY <2>1, <2>2, <2>4 DEF Transaction, RunStep
  <1> QED
    BY <1>2, <1>3 DEF Transaction, JobStep, JobNotClaimed, JobReads, JobOvertaken, JobFaults,
                      JobChecks, JobGivesUp, FailureIsLost

LEMMA HandlerKeepsContract ==
    ASSUME MemoryTypeOK, NEW h \in Handlers, HandlerStep(h) \/ HandlerBreaks(h)
    PROVE  Transaction
  <1> DEFINE s == at[h].session
  <1>1. SessionsTypeOK
    BY DEF MemoryTypeOK
  <1>2. Active(s) => s \in SessionIds
    BY <1>1 DEF Active, SessionsTypeOK, Table
  <1>3. CASE Begins(h)
    <2>1. PICK n \in SessionIds :
            OpenSession(at[h].lane, n) \/ UNCHANGED sessionVars
      BY <1>3 DEF Begins
    <2>2. OpenSession(at[h].lane, n) => at[h].lane \in LaneIds
      BY <1>1 DEF OpenSession, SessionsTypeOK
    <2> QED
      BY <2>1, <2>2 DEF Transaction, TranscriptStep
  <1>4. CASE Says(h) \/ Answers(h)
    <2>1. PICK t \in TurnIds : AppendTurn(s, "user", t) \/ AppendTurn(s, "assistant", t)
      BY <1>4 DEF Says, Answers
    <2>2. s \in SessionIds
      BY <1>2, <2>1 DEF AppendTurn
    <2> QED
      BY <2>1, <2>2 DEF Transaction, TranscriptStep, Roles
  <1>5. CASE Notes(h)
    <2>1. PICK r \in RunIds : CreateRun(s, at[h].turn, r) \/ UNCHANGED sessionVars
      BY <1>5 DEF Notes
    <2>2. CreateRun(s, at[h].turn, r) => s \in SessionIds /\ at[h].turn \in TurnIds
      BY <1>1, <1>2 DEF CreateRun, MayEnsureRun, TurnsOf, SessionsTypeOK, Table
    <2> QED
      BY <2>1, <2>2 DEF Transaction, RunStep
  <1> QED
    BY <1>3, <1>4, <1>5 DEF Transaction, HandlerStep, Drains, TurnRefused, NoteRefused, HandsOver,
                            HandoverRefused, HandlerBreaks

LEMMA CloserKeepsContract ==
    ASSUME MemoryTypeOK, NEW c \in Closers,
           CloserStep(c) \/ Confirmed(c) \/ CloseBreaks(c)
    PROVE  Transaction
  <1>1. CASE Commits(c)
    <2>1. Close(at[c].session, at[c].seen, at[c].read)
      BY <1>1 DEF Commits
    <2>2. at[c].session \in SessionIds /\ at[c].read \in Epochs
      BY <2>1 DEF Close, Unchanged, Active, CurrentEpoch, MemoryTypeOK,
                  SessionsTypeOK, Table
    <2>3. at[c].seen \in SUBSET TurnIds
      BY RowOf DEF Actors, ActorRow
    <2> QED
      BY <2>1, <2>2, <2>3 DEF Transaction
  <1> QED
    BY <1>1 DEF Transaction, CloserStep, ReadsSession, ReadsTurns, ListsRuns, PassesGate, CloseEnds,
                Confirmed, CloseBreaks

LEMMA ArrivalKeepsContract ==
    ASSUME NEW h, NEW l \in LaneIds, Arrives(h, l)
    PROVE  Transaction
  BY DEF Arrives, Transaction, TranscriptStep

LEMMA StepIsTransaction ==
    ASSUME MemoryTypeOK, [MemoryNext]_memoryVars
    PROVE  Transaction
  <1>1. CASE \E p \in Actors : ActorStep(p)
    BY <1>1, ListKeepsContract, JobKeepsContract, HandlerKeepsContract,
       CloserKeepsContract DEF Transaction, ActorStep, BootStep, BootDrains, BootEnds
  <1>2. CASE OwnerStep
    BY <1>2, ArrivalKeepsContract, CloserKeepsContract DEF OwnerStep
  <1>3. CASE Trouble
    BY <1>3, JobKeepsContract, HandlerKeepsContract, CloserKeepsContract
       DEF Transaction, Trouble, Crashes
  <1> QED
    BY <1>1, <1>2, <1>3 DEF Transaction, MemoryNext, memoryVars

\* Every step is a transaction of SessionStore or leaves the tables alone.
LEMMA StepKeepsContract ==
    ASSUME MemoryTypeOK, [MemoryNext]_memoryVars
    PROVE  [SessionNext]_sessionVars
  BY StepIsTransaction DEF Transaction, SessionNext, ClosingStep

-----------------------------------------------------------------------------
(* The invariant *)

LEMMA MoveKeepsMemory ==
    ASSUME MemoryInv, SessionsTypeOK', NEW p \in Actors, NEW row, Moves(p, row)
    PROVE  MemoryInv'
  <1>1. /\ at \in [Actors -> ActorRow] /\ lock \subseteq Actors
        /\ at' = [at EXCEPT ![p] = row] /\ row \in ActorRow
    BY DEF MemoryInv, MemoryTypeOK, Moves, Becomes, GoodRow
  <1>2. at'[p] = row /\ \A q \in Actors \ {p} : at'[q] = at[q]
    BY <1>1
  <1>3. at' \in [Actors -> ActorRow]
    BY <1>1
  <1>4. lock' \subseteq Actors
    BY <1>1 DEF Moves
  <1>5. MemoryTypeOK'
    BY <1>2, <1>3, <1>4 DEF MemoryInv, MemoryTypeOK, Moves, GoodRow
  <1>6. ASSUME NEW q \in Actors \ Closers, at'[q].step \in JobSteps
        PROVE  q \in lock'
    BY <1>2, <1>6 DEF MemoryInv, LockHeld, Moves
  <1>7. \A x, y \in lock' : x = y
    BY DEF MemoryInv, LockHeld, Moves
  <1> QED
    BY <1>5, <1>6, <1>7 DEF MemoryInv, LockHeld

LEMMA CrashKeepsMemory ==
    ASSUME MemoryInv, SessionsTypeOK', Crashes
    PROVE  MemoryInv'
  <1> DEFINE Restarted == [Quiet EXCEPT !.step = "boot"]
  <1>1. Quiet \in ActorRow /\ Quiet.step = "idle"
    BY QuietIsGood DEF GoodRow, Quiet
  <1>2. Restarted \in ActorRow /\ Restarted.step = "boot"
    BY <1>1 DEF ActorRow, Steps
  <1>3. /\ at' \in [Actors -> ActorRow] /\ lock' = {}
        /\ \A p \in Actors : at'[p].step \in {"idle", "boot"}
    BY <1>1, <1>2 DEF Crashes
  <1> QED
    BY <1>3 DEF MemoryInv, MemoryTypeOK, LockHeld, JobSteps

LEMMA MemoryStep == MemoryInv /\ [MemoryNext]_memoryVars => MemoryInv'
  <1> SUFFICES ASSUME MemoryInv, [MemoryNext]_memoryVars PROVE MemoryInv'
    OBVIOUS
  <1>1. MemoryTypeOK /\ SessionsTypeOK
    BY DEF MemoryInv, MemoryTypeOK
  <1>2. SessionsTypeOK'
    BY <1>1, StepKeepsContract, TypeStep
  <1>3. CASE UNCHANGED memoryVars
    BY <1>2, <1>3 DEF memoryVars, MemoryInv, MemoryTypeOK, LockHeld
  <1>4. CASE Crashes
    BY <1>2, <1>4, CrashKeepsMemory
  <1>5. CASE MemoryNext /\ ~Crashes
    <2>1. \E p \in Actors : \E row : Moves(p, row)
      <3>1. Handlers \subseteq Actors /\ Closers \subseteq Actors /\ Boot \in Actors
        BY DEF Actors
      <3>2. CASE \E p \in Actors : ActorStep(p)
        BY <1>1, <3>1, <3>2, ListMoves, JobMoves, HandlerMoves, CloserMoves, BootMoves
           DEF ActorStep
      <3>3. CASE OwnerStep
        BY <1>1, <3>1, <3>3, ArrivalMoves, CloserMoves DEF OwnerStep
      <3>4. CASE Trouble
        BY <1>1, <1>5, <3>1, <3>4, JobMoves, HandlerMoves, CloserMoves DEF Trouble
      <3> QED
        BY <1>5, <3>2, <3>3, <3>4 DEF MemoryNext
    <2> QED
      BY <1>2, <2>1, MoveKeepsMemory
  <1> QED
    BY <1>3, <1>4, <1>5

LEMMA MemoryStart == MemoryInit => MemoryInv
  <1> SUFFICES ASSUME MemoryInit PROVE MemoryInv
    OBVIOUS
  <1>1. SessionsTypeOK
    BY InitType DEF MemoryInit
  <1>2. Quiet \in ActorRow /\ Quiet.step = "idle"
    BY QuietIsGood DEF GoodRow, Quiet
  <1> QED
    BY <1>1, <1>2 DEF MemoryInit, MemoryInv, MemoryTypeOK, LockHeld, JobSteps

\* The inductive invariant: types, and who works without the lock.
THEOREM MemoryIsSafe == MemorySpec => []MemoryInv
  BY MemoryStart, MemoryStep, PTL DEF MemorySpec

\* Sessions, turns, runs and what the actors remember of them stay well formed.
THEOREM MemoryTypesCorrect == MemorySpec => []MemoryTypeOK
  <1>1. MemoryInv => MemoryTypeOK
    BY DEF MemoryInv
  <1> QED
    BY <1>1, MemoryIsSafe, PTL

\* Handlers, closes, the start-up and crashes use the session tables only as
\* SessionStore allows, with whatever their reads had become when they wrote.
THEOREM MemoryKeepsContract == MemorySpec => KeepsSessionContract
  <1>1. MemoryInit => SessionInit
    BY DEF MemoryInit
  <1>2. MemoryInv /\ [MemoryNext]_memoryVars => [SessionNext]_sessionVars
    BY StepKeepsContract DEF MemoryInv
  <1> QED
    BY <1>1, <1>2, MemoryIsSafe, PTL DEF MemorySpec, SessionSpec, KeepsSessionContract

\* So an exchange is learned from at most once, whoever works on its run.
THEOREM MemoryLearnsOnce == MemorySpec => []LearnedOnce
  BY MemoryKeepsContract, ExchangesLearnedOnce, PTL DEF KeepsSessionContract

\* Down to the ledger of exchanges: in the program a session closes once, owing
\* nothing, and an exchange that was settled or dropped is never owed again.
THEOREM ProgramImplementsLedger == MemorySpec => ImplementsSessions
  BY MemoryKeepsContract, SessionsImplementLedger, PTL DEF KeepsSessionContract

\* The coordinator's lock keeps handlers and start-up from working on the same
\* run at the same time.
THEOREM OneWorker == MemorySpec => []SoleWorker
  <1>1. MemoryInv => SoleWorker
    BY DEF MemoryInv, LockHeld, SoleWorker, Working, JobSteps
  <1> QED
    BY <1>1, MemoryIsSafe, PTL

-----------------------------------------------------------------------------
(* What a step does to the runs *)

\* A step of actor p, its breaks included.
Acts(p) ==
    \/ ActorStep(p) \/ JobFaults(p) \/ FailureIsLost(p)
    \/ p \in Handlers /\ (HandlerBreaks(p) \/ \E l \in LaneIds : Arrives(p, l))
    \/ p \in Closers /\ (Confirmed(p) \/ CloseBreaks(p))

LEMMA SomebodyActs ==
    ASSUME [MemoryNext]_memoryVars
    PROVE  (\E p \in Actors : Acts(p)) \/ Crashes \/ UNCHANGED memoryVars
  <1>1. Handlers \subseteq Actors /\ Closers \subseteq Actors
    BY DEF Actors
  <1> QED
    BY <1>1 DEF MemoryNext, OwnerStep, Trouble, Acts

\* Only the actor itself moves.
LEMMA OthersStay ==
    ASSUME MemoryTypeOK, NEW p \in Actors, Acts(p), NEW q \in Actors \ {p}
    PROVE  at'[q] = at[q]
  <1>1. \E row : Moves(p, row)
    BY ListMoves, JobMoves, HandlerMoves, CloserMoves, BootMoves, ArrivalMoves
       DEF Acts, ActorStep
  <1> QED
    BY <1>1 DEF Moves, Becomes, MemoryTypeOK

\* What holds besides: the tables are in order, and the profile is never closed.
Background ==
    /\ MemoryInv
    /\ SessionInvariant
    /\ OwnerActive
    /\ faults \in Nat /\ closes \in Nat

LEMMA AllCurrent ==
    ASSUME Background, NEW r, NEW status
    PROVE  Fresh(r, status) <=> r \in DOMAIN runs /\ runs[r].status = status
  BY DEF Background, SessionInvariant, RowsOfThisLife, Fresh, CurrentEpoch

\* Sessions keep their lane and runs their exchange.
Grows ==
    /\ UNCHANGED profile
    /\ \A s \in DOMAIN session : s \in DOMAIN session' /\ session'[s].lane = session[s].lane
    /\ \A r \in DOMAIN runs :
          /\ r \in DOMAIN runs'
          /\ runs'[r].session = runs[r].session /\ runs'[r].turn = runs[r].turn
    /\ \A r \in DOMAIN runs' \ DOMAIN runs : runs'[r].status = "pending"

LEMMA CreatedRun ==
    ASSUME SessionsTypeOK, NEW s, NEW t, NEW r, CreateRun(s, t, r)
    PROVE  /\ r \notin DOMAIN runs /\ DOMAIN runs' = DOMAIN runs \cup {r}
           /\ runs'[r].session = s /\ runs'[r].turn = t /\ runs'[r].status = "pending"
           /\ \A q \in DOMAIN runs : runs'[q] = runs[q]
  <1>1. r \notin DOMAIN runs
    <2>1. r \in DOMAIN runs => r < r /\ r \in Nat
      BY SessionAssumption DEF CreateRun, IsNext, SessionsTypeOK, Table, RunIds
    <2> QED
      BY <2>1
  <1> QED
    BY <1>1 DEF CreateRun, With

LEMMA TransactionGrows ==
    ASSUME SessionsTypeOK, Transaction
    PROVE  Grows
  <1>0. /\ session \in [DOMAIN session -> SessionRow] /\ runs \in [DOMAIN runs -> RunRow]
        /\ \A r \in DOMAIN runs : runs[r] \in RunRow
    BY DEF SessionsTypeOK, Table
  <1>1. CASE TranscriptStep
    <2>1. UNCHANGED <<profile, runs>>
      BY <1>1 DEF TranscriptStep, OpenLane, OpenSession, AppendTurn
    <2> QED
      BY <1>1, <2>1, TranscriptAddsSessions DEF Grows
  <1>2. CASE RunStep
    <2>1. UNCHANGED <<profile, session>>
      BY ZenonT(30), <1>2 DEF RunStep, CreateRun, Claim, Retry, Recover, Fail, Settle, Activate, Move
    <2>2. ASSUME NEW s, NEW t, NEW r, CreateRun(s, t, r)
          PROVE  Grows
      <3>1. /\ DOMAIN runs' = DOMAIN runs \cup {r} /\ runs'[r].status = "pending"
            /\ \A q \in DOMAIN runs : runs'[q] = runs[q]
        BY <2>2, CreatedRun
      <3> QED
        BY <2>1, <3>1 DEF Grows
    <2>3. ASSUME NEW r \in DOMAIN runs, DOMAIN runs' = DOMAIN runs,
                 runs'[r].session = runs[r].session, runs'[r].turn = runs[r].turn,
                 \A q \in DOMAIN runs \ {r} : runs'[q] = runs[q]
          PROVE  Grows
      <3>1. \A q \in DOMAIN runs :
              runs'[q].session = runs[q].session /\ runs'[q].turn = runs[q].turn
        BY <2>3
      <3> QED
        BY <2>1, <2>3, <3>1 DEF Grows
    <2>4. ASSUME NEW r, NEW from, Activate(r, from)
          PROVE  Grows
      <3>1. r \in DOMAIN runs /\ runs[r] \in RunRow
        BY <1>0, <2>4 DEF Activate, Fresh
      <3>2. /\ DOMAIN runs' = DOMAIN runs
            /\ runs'[r].session = runs[r].session /\ runs'[r].turn = runs[r].turn
            /\ \A q \in DOMAIN runs \ {r} : runs'[q] = runs[q]
        BY <2>4, <3>1 DEF Activate, RunRow
      <3> QED
        BY <2>3, <3>1, <3>2
    <2>5. ASSUME NEW r \in RunIds,
                 \/ Claim(r) \/ Retry(r) \/ Recover(r) \/ Fail(r)
                 \/ Settle(r, "completed") \/ Settle(r, "discarded")
          PROVE  Grows
      <3>1. r \in DOMAIN runs
        BY <2>5 DEF Claim, Retry, Recover, Fail, Settle, Fresh
      <3>2. \E status, attempt : Move(r, status, attempt)
        BY <2>5 DEF Claim, Retry, Recover, Fail, Settle
      <3>3. /\ DOMAIN runs' = DOMAIN runs
            /\ runs'[r].session = runs[r].session /\ runs'[r].turn = runs[r].turn
            /\ \A q \in DOMAIN runs \ {r} : runs'[q] = runs[q]
        BY <1>0, <3>1, <3>2 DEF Move, RunRow
      <3> QED
        BY <2>3, <3>1, <3>3
    <2> QED
      BY <1>2, <2>2, <2>4, <2>5 DEF RunStep
  <1>3. ASSUME NEW s, NEW seen, NEW e, Close(s, seen, e) PROVE Grows
    BY <1>0, <1>3 DEF Close, Unchanged, Active, Grows, SessionRow
  <1>4. CASE UNCHANGED sessionVars
    BY <1>4 DEF sessionVars, tables, Grows
  <1> QED
    BY <1>1, <1>2, <1>3, <1>4 DEF Transaction

LEMMA CountersStep ==
    ASSUME [MemoryNext]_memoryVars
    PROVE  /\ faults' = faults \/ faults' = faults + 1
           /\ closes' = closes \/ closes' = closes + 1
  <1>1. ASSUME NEW p, Acts(p)
        PROVE  /\ faults' = faults \/ faults' = faults + 1
               /\ closes' = closes \/ closes' = closes + 1
    BY <1>1 DEF Acts, ActorStep, ListStep, SkipRun, TakeRun, Takes, RunRefused, ListDone,
                JobStep, JobClaims, JobNotClaimed, JobReads, JobLearns, JobOvertaken,
                JobFails, JobChecks, JobRetries, JobGivesUp, JobFaults, FailureIsLost, Fault,
                HandlerStep, Drains, Begins, Says, Answers, TurnRefused, Notes,
                NoteRefused, HandsOver, HandoverRefused, HandlerBreaks, Arrives,
                CloserStep, ReadsSession, ReadsTurns, ListsRuns, PassesGate, Commits,
                CloseEnds, CloseBreaks, Confirmed, BootStep, BootDrains, BootEnds, counters
  <1> QED
    BY <1>1, SomebodyActs DEF Crashes, memoryVars, counters

LEMMA BackgroundStep ==
    ASSUME Background, [MemoryNext]_memoryVars
    PROVE  OwnerActive' /\ faults' \in Nat /\ closes' \in Nat
  <1>1. profile' = profile
    BY StepIsTransaction, TransactionGrows DEF Background, MemoryInv, MemoryTypeOK, Grows
  <1> QED
    BY <1>1, CountersStep DEF Background, OwnerActive

\* A list leads on to a job or back to where it began.
LEMMA ListLeads ==
    ASSUME MemoryTypeOK, NEW p \in Actors, ListStep(p)
    PROVE  at'[p].step \in {"next", "claim", "check", "idle", "begin", "boot", "gate"}
  <1>1. at[p] \in ActorRow /\ at \in [Actors -> ActorRow]
    BY DEF MemoryTypeOK
  <1>2. \A row : Becomes(p, row) => at'[p] = row
    BY <1>1 DEF Becomes
  <1>3. Quiet.step = "idle" /\ \A step : Cleared(p, step).step = step
    BY <1>1 DEF Quiet, Cleared, ActorRow
  <1>4. Returned(p).step \in {"idle", "begin", "boot", "gate"}
    BY <1>3 DEF Returned
  <1>5. CASE \E r \in RunIds : SkipRun(p, r)
    BY <1>1, <1>2, <1>5 DEF SkipRun, NextRun, ActorRow
  <1>6. CASE \E r \in RunIds : TakeRun(p, r)
    <2>1. PICK r \in RunIds, step \in {"claim", "check"} : Takes(p, r, step)
      BY <1>6 DEF TakeRun
    <2> QED
      BY <1>1, <1>2, <2>1 DEF Takes, ActorRow
  <1>7. CASE \E r \in RunIds : RunRefused(p, r)
    BY <1>2, <1>3, <1>4, <1>7 DEF RunRefused, Raises
  <1>8. CASE ListDone(p)
    BY <1>2, <1>4, <1>8 DEF ListDone
  <1> QED
    BY <1>5, <1>6, <1>7, <1>8 DEF ListStep

LEMMA GiveUpLeads ==
    ASSUME MemoryTypeOK, NEW p \in Actors, JobGivesUp(p)
    PROVE  at'[p].step \in {"idle", "begin", "boot", "gate"}
  <1>1. at[p] \in ActorRow /\ at \in [Actors -> ActorRow]
    BY DEF MemoryTypeOK
  <1>2. Quiet.step = "idle" /\ \A step : Cleared(p, step).step = step
    BY <1>1 DEF Quiet, Cleared, ActorRow
  <1>3. Returned(p).step \in {"idle", "begin", "boot", "gate"}
    BY <1>2 DEF Returned
  <1> QED
    BY <1>1, <1>2, <1>3 DEF JobGivesUp, Raises, Becomes

\* An actor is about to put a run back only after it saw that it may.
LEMMA RetryFollowsCheck ==
    ASSUME MemoryTypeOK, NEW p \in Actors, Acts(p), at'[p].step = "retry"
    PROVE  Retriable(at[p].run) /\ at'[p].run = at[p].run /\ runs' = runs
  <1>1. at[p] \in ActorRow /\ at \in [Actors -> ActorRow]
    BY DEF MemoryTypeOK
  <1>2. \A row : Becomes(p, row) => at'[p] = row
    BY <1>1 DEF Becomes
  <1>3. \A step : Go(p, step) => at'[p].step = step /\ at'[p].run = at[p].run
    BY <1>1, <1>2 DEF Go, ActorRow
  <1>4. Quiet.step = "idle" /\ \A l, purpose, R : Lists(l, purpose, R).step = "next"
    BY DEF Quiet, Lists
  <1>5. CASE JobChecks(p)
    BY <1>3, <1>5 DEF JobChecks, sessionVars, tables
  <1>6. CASE ListStep(p) \/ JobGivesUp(p)
    BY <1>6, ListLeads, GiveUpLeads
  <1>7. CASE Ends(p)
    BY <1>2, <1>4, <1>7 DEF Ends
  <1>8. CASE Errs(p)
    BY <1>1, <1>2, <1>8 DEF Errs, ActorRow
  <1>9. CASE JobStep(p) \/ JobFaults(p) \/ FailureIsLost(p)
    <2>1. CASE JobClaims(p) \/ JobLearns(p)
      BY <1>1, <1>2, <2>1 DEF JobClaims, JobLearns, ActorRow
    <2>2. CASE JobReads(p) /\ HasExchange(at[p].job.session, at[p].job.turn)
      BY <1>1, <1>2, <2>2 DEF JobReads, ActorRow
    <2>3. CASE Go(p, "again") \/ Go(p, "claim")
      BY <1>3, <2>3
    <2> QED
      BY <1>5, <1>6, <1>8, <1>9, <2>1, <2>2, <2>3
         DEF JobStep, JobNotClaimed, JobReads, JobOvertaken, JobFails, JobRetries,
             JobFaults, FailureIsLost
  <1>10. CASE HandlerStep(p) \/ HandlerBreaks(p) \/ \E l \in LaneIds : Arrives(p, l)
    <2>1. CASE Drains(p) \/ HandsOver(p)
      BY <1>2, <1>4, <2>1 DEF Drains, HandsOver, Works
    <2>2. CASE Begins(p) \/ Says(p) \/ Notes(p)
      BY <1>1, <1>2, <2>2 DEF Begins, Says, Notes, ActorRow
    <2>3. CASE Answers(p)
      BY <1>3, <2>3 DEF Answers
    <2>4. CASE \E l \in LaneIds : Arrives(p, l)
      BY <1>2, <2>4 DEF Arrives, Quiet
    <2> QED
      BY <1>7, <1>10, <2>1, <2>2, <2>3, <2>4
         DEF HandlerStep, TurnRefused, NoteRefused, HandoverRefused, HandlerBreaks
  <1>11. CASE CloserStep(p) \/ Confirmed(p) \/ CloseBreaks(p)
    <2>1. CASE ReadsSession(p) \/ ReadsTurns(p) \/ ListsRuns(p)
      BY <1>1, <1>2, <2>1 DEF ReadsSession, ReadsTurns, ListsRuns, ActorRow
    <2>2. CASE PassesGate(p)
      BY <1>3, <2>2 DEF PassesGate
    <2>3. CASE Confirmed(p)
      BY <1>2, <2>3 DEF Confirmed, Quiet
    <2> QED
      BY <1>7, <1>11, <2>1, <2>2, <2>3 DEF CloserStep, Commits, CloseEnds, CloseBreaks
  <1>12. CASE p = Boot /\ BootStep
    <2>1. Ends(p) \/ \E l : Becomes(p, Lists(l, "boot", RunsOfLane(l)))
      BY <1>12 DEF BootStep, BootDrains, BootEnds
    <2> QED
      BY <1>2, <1>4, <1>7, <2>1
  <1> QED
    BY <1>6, <1>9, <1>10, <1>11, <1>12 DEF Acts, ActorStep

Retrying(p, r) == at[p].step = "retry" /\ at[p].run = r

\* A run whose budget is used up is moved only by an actor that read it before.
LEMMA UsedUpStays ==
    ASSUME Background, NEW p \in Actors, Acts(p),
           NEW r \in DOMAIN runs, Exhausted(r), ~Retrying(p, r)
    PROVE  runs'[r] = runs[r]
  <1>0. runs[r].status = "failed" /\ SessionsTypeOK
    BY DEF Exhausted, Background, MemoryInv, MemoryTypeOK
  <1>1. CASE runs' = runs
    BY <1>1
  <1>2. ASSUME NEW q, NEW status, NEW attempt, Move(q, status, attempt), q # r
        PROVE  runs'[r] = runs[r]
    BY <1>2 DEF Move
  <1>3. CASE ListStep(p)
    <2>1. CASE \E q \in RunIds : Recover(q)
      BY <1>0, <1>2, <2>1 DEF Recover, Fresh
    <2> QED
      BY <1>1, <1>3, <2>1
         DEF ListStep, SkipRun, TakeRun, RunRefused, ListDone, sessionVars, tables
  <1>4. CASE JobStep(p) \/ JobFaults(p) \/ FailureIsLost(p)
    <2>1. CASE \/ Claim(at[p].run) \/ Settle(at[p].run, "completed") \/ Fail(at[p].run)
               \/ JobRetries(p)
      BY <1>0, <1>2, <2>1 DEF Claim, Settle, Fail, JobRetries, Retry, Fresh, Retrying
    <2>2. CASE Activate(at[p].run, at[p].job)
      BY <1>0, <2>2 DEF Activate, Fresh
    <2> QED
      BY <1>1, <1>4, <2>1, <2>2
         DEF JobStep, JobClaims, JobNotClaimed, JobReads, JobLearns, JobOvertaken, JobFails,
             JobChecks, JobGivesUp, JobFaults, FailureIsLost, sessionVars, tables
  <1>5. CASE HandlerStep(p) \/ HandlerBreaks(p) \/ \E l \in LaneIds : Arrives(p, l)
    <2>1. CASE \E q : CreateRun(at[p].session, at[p].turn, q)
      <3>1. PICK s, t, q : CreateRun(s, t, q)
        BY <2>1
      <3> QED
        BY <1>0, <3>1, CreatedRun
    <2> QED
      BY <1>1, <1>5, <2>1
         DEF HandlerStep, Drains, Begins, Says, Answers, TurnRefused, Notes, NoteRefused,
             HandsOver, HandoverRefused, HandlerBreaks, Arrives, OpenLane, OpenSession,
             AppendTurn, sessionVars, tables
  <1>6. CASE CloserStep(p) \/ Confirmed(p) \/ CloseBreaks(p)
    BY <1>1, <1>6
       DEF CloserStep, ReadsSession, ReadsTurns, ListsRuns, PassesGate, Commits, Close,
           CloseEnds, Confirmed, CloseBreaks, sessionVars, tables
  <1>7. CASE BootStep
    BY <1>1, <1>7 DEF BootStep, BootDrains, BootEnds, sessionVars, tables
  <1> QED
    BY <1>3, <1>4, <1>5, <1>6, <1>7 DEF Acts, ActorStep

-----------------------------------------------------------------------------
(* A claimed run has somebody at work on it *)

\* Whoever works on a claimed run goes on, or the run is no longer claimed.
LEMMA WorkGoesOn ==
    ASSUME Background, NEW p \in Actors, Acts(p), faults' = 0,
           NEW r \in DOMAIN runs, Working(p, r), runs'[r].status = "processing",
           runs[r].status = "processing"
    PROVE  Working(p, r)'
  <1>1. /\ at \in [Actors -> ActorRow] /\ at[p] \in ActorRow /\ at[p].run = r
        /\ at[p].step \in {"read", "call", "fail"}
        /\ runs \in [DOMAIN runs -> RunRow] /\ faults \in Nat
    BY DEF Background, MemoryInv, MemoryTypeOK, SessionsTypeOK, Table, Working
  <1>2. CASE JobReads(p) \/ JobOvertaken(p)
    <2>1. PICK row : Becomes(p, row) /\ row.step \in {"fail", "call"} /\ row.run = r
      <3>1. CASE Errs(p)
        <4>1. LET row == [at[p] EXCEPT !.step = "fail", !.job = Nothing] IN
                row.step = "fail" /\ row.run = r
          BY <1>1 DEF ActorRow
        <4> QED
          BY <3>1, <4>1 DEF Errs
      <3>2. CASE Becomes(p, [at[p] EXCEPT !.step = "call", !.job.read = profile.epoch])
        <4>1. LET row == [at[p] EXCEPT !.step = "call", !.job.read = profile.epoch] IN
                row.step = "call" /\ row.run = r
          BY <1>1 DEF ActorRow
        <4> QED
          BY <3>2, <4>1
      <3> QED
        BY <1>2, <3>1, <3>2 DEF JobReads, JobOvertaken
    <2>2. at'[p].step \in {"fail", "call"} /\ at'[p].run = r
      BY <1>1, <2>1 DEF Becomes
    <2> QED
      BY <2>2 DEF Working
  <1>3. CASE JobLearns(p)
    <2>1. Activate(r, at[p].job) \/ Settle(r, "completed")
      BY <1>1, <1>3 DEF JobLearns
    <2>2. runs'[r].status = "completed"
      BY <1>1, <2>1 DEF Activate, Settle, Move, RunRow
    <2> QED
      BY <2>2
  <1>4. CASE JobFails(p)
    <2>1. Fail(r)
      BY <1>1, <1>4, AllCurrent DEF JobFails
    <2>2. runs'[r].status = "failed"
      BY <1>1, <2>1 DEF Fail, Move, RunRow
    <2> QED
      BY <2>2
  <1>5. CASE JobFaults(p) \/ FailureIsLost(p)
    BY <1>1, <1>5 DEF JobFaults, FailureIsLost, Fault
  <1> QED
    BY <1>1, <1>2, <1>3, <1>4, <1>5
       DEF Acts, ActorStep, ListStep, SkipRun, TakeRun, RunRefused, ListDone, NextRun,
           JobStep, JobClaims, JobNotClaimed, JobChecks, JobRetries, JobGivesUp, HandlerStep,
           Drains, Begins, Says, Answers, TurnRefused, Notes, NoteRefused, HandsOver,
           HandoverRefused, HandlerBreaks, Arrives, Idle, CloserStep, ReadsSession,
           ReadsTurns, ListsRuns, PassesGate, Commits, CloseEnds, CloseBreaks, Confirmed,
           BootStep, BootDrains, BootEnds

\* A run becomes claimed only by its claim.
LEMMA ClaimIsWork ==
    ASSUME Background, NEW p \in Actors, Acts(p), NEW r \in DOMAIN runs',
           runs'[r].status = "processing",
           r \in DOMAIN runs => runs[r].status # "processing"
    PROVE  Working(p, r)'
  <1>1. /\ at \in [Actors -> ActorRow] /\ at[p] \in ActorRow
        /\ runs \in [DOMAIN runs -> RunRow]
    BY DEF Background, MemoryInv, MemoryTypeOK, SessionsTypeOK, Table
  <1>2. r \in DOMAIN runs
    <2>2. Transaction
      BY ListKeepsContract, JobKeepsContract, HandlerKeepsContract, CloserKeepsContract,
         ArrivalKeepsContract
         DEF Background, MemoryInv, Acts, ActorStep, BootStep, BootDrains, BootEnds,
             Transaction
    <2> QED
      BY <2>2, TransactionGrows DEF Background, MemoryInv, MemoryTypeOK, Grows
  <1>3. CASE JobClaims(p)
    <2>1. Claim(at[p].run) /\ Becomes(p, [at[p] EXCEPT !.step = "read",
                                                       !.job = ExchangeOf(at[p].run)])
      BY <1>3 DEF JobClaims
    <2>2. r = at[p].run
      BY <1>1, <1>2, <2>1 DEF Claim, Move, RunRow
    <2> QED
      BY <1>1, <2>1, <2>2 DEF Becomes, Working, ActorRow
  <1>4. ASSUME NEW q, NEW status, NEW attempt, Move(q, status, attempt),
               status # "processing"
        PROVE  FALSE
    BY <1>1, <1>2, <1>4 DEF Move, RunRow
  <1>5. CASE \E q, from : Activate(q, from)
    BY <1>1, <1>2, <1>5 DEF Activate, RunRow
  <1>6. CASE \E s, t, q : CreateRun(s, t, q)
    <2>1. PICK s, t, q : CreateRun(s, t, q)
      BY <1>6
    <2>2. runs'[r] = runs[r] \/ runs'[r].status = "pending"
      BY <1>2, <2>1 DEF CreateRun, With
    <2> QED
      BY <1>2, <2>2
  <1>7. runs' # runs
    BY <1>2
  <1>8. CASE ListStep(p)
    BY <1>4, <1>7, <1>8 DEF ListStep, SkipRun, TakeRun, RunRefused, ListDone, Retry,
                            Recover, sessionVars, tables
  <1>9. CASE JobStep(p) \/ JobFaults(p) \/ FailureIsLost(p)
    BY <1>3, <1>4, <1>5, <1>7, <1>9
       DEF JobStep, JobNotClaimed, JobReads, JobLearns, JobOvertaken, JobFails,
           JobChecks, JobRetries, JobGivesUp, JobFaults, FailureIsLost, Settle, Fail, Retry,
           sessionVars, tables
  <1>10. CASE p \in Handlers /\ (HandlerStep(p) \/ HandlerBreaks(p) \/ \E l \in LaneIds : Arrives(p, l))
    BY <1>6, <1>7, <1>10
       DEF HandlerStep, Drains, Begins, Says, Answers, TurnRefused, Notes, NoteRefused,
           HandsOver, HandoverRefused, HandlerBreaks, Arrives, OpenLane, OpenSession,
           AppendTurn, sessionVars, tables
  <1>11. CASE p \in Closers /\ (CloserStep(p) \/ Confirmed(p) \/ CloseBreaks(p))
    BY <1>7, <1>11
       DEF CloserStep, ReadsSession, ReadsTurns, ListsRuns, PassesGate, Commits, Close,
           CloseEnds, Confirmed, CloseBreaks, sessionVars, tables
  <1>12. CASE BootStep
    BY <1>7, <1>12 DEF BootStep, BootDrains, BootEnds, sessionVars, tables
  <1> QED
    BY <1>8, <1>9, <1>10, <1>11, <1>12 DEF Acts, ActorStep

-----------------------------------------------------------------------------
(* The start-up finds every claim a crash cut off *)

\* A run has used up its budget, and nobody is about to put it back all the same.
Spent == \E r \in DOMAIN runs : Exhausted(r) /\ \A p \in Actors : ~Retrying(p, r)
Undamaged == faults = 0 /\ ~Spent

\* Until start-up is over nobody else is at work.
BootAlone ==
    /\ at[Boot].step \in {"idle", "boot"} \cup JobSteps
    /\ ~Idle(Boot) => \A p \in Actors \ {Boot} : Idle(p)
    /\ at[Boot].step \in JobSteps => at[Boot].for = "boot"
    /\ at[Boot].step = "boot" => DOMAIN at[Boot].todo = {}

\* So what it listed is what the table holds.
Expected(step) ==
    CASE step = "claim" -> "pending"
      [] step \in {"again", "check", "retry"} -> "failed"
      [] OTHER          -> "processing"

BootView ==
    at[Boot].step \in JobSteps /\ Undamaged =>
        /\ \A r \in DOMAIN at[Boot].todo :
              /\ r \in DOMAIN runs
              /\ at[Boot].todo[r].status = runs[r].status
              /\ at[Boot].todo[r].spent = (runs[r].attempt >= MaxAttempts)
        /\ at[Boot].step # "next" =>
              /\ at[Boot].run \in DOMAIN runs \ DOMAIN at[Boot].todo
              /\ runs[at[Boot].run].status = Expected(at[Boot].step)

\* Start-up still has run r before it.
Ahead(r) ==
    /\ ~Idle(Boot)
    /\ \/ session[runs[r].session].lane > at[Boot].lane
       \/ r \in DOMAIN at[Boot].todo

\* A claimed run is worked on, or start-up will come to it.
Claimed ==
    Undamaged => \A r \in DOMAIN runs : runs[r].status = "processing" =>
        Ahead(r) \/ \E p \in Actors : Working(p, r)

LEMMA StaysUndamaged ==
    ASSUME Background, Grows, Undamaged', faults' = faults \/ faults' = faults + 1,
           NEW p \in Actors, Acts(p)
    PROVE  Undamaged /\ faults' = faults
  <1>1. ASSUME NEW r \in DOMAIN runs, Exhausted(r), \A q \in Actors : ~Retrying(q, r)
        PROVE  FALSE
    <2>1. r \in DOMAIN runs' /\ runs'[r] = runs[r]
      BY <1>1, UsedUpStays DEF Grows
    <2>2. Exhausted(r)'
      BY <1>1, <2>1 DEF Exhausted
    <2>3. ASSUME NEW q \in Actors, Retrying(q, r)' PROVE FALSE
      <3>1. q # p => at'[q] = at[q]
        BY OthersStay DEF Background, MemoryInv
      <3>2. q = p
        BY <1>1, <2>3, <3>1 DEF Retrying
      <3>3. Retriable(r)
        BY <2>3, <3>2, RetryFollowsCheck DEF Retrying, Background, MemoryInv
      <3>4. runs[r].attempt \in Nat /\ MaxAttempts \in Nat
        BY ActorAssumption
           DEF Background, MemoryInv, MemoryTypeOK, SessionsTypeOK, Table, RunRow
      <3> QED
        BY <1>1, <3>3, <3>4 DEF Retriable, Exhausted
    <2> QED
      BY <2>1, <2>2, <2>3 DEF Undamaged, Spent
  <1> QED
    BY <1>1 DEF Background, Undamaged, Spent

\* Polling starts when start-up is over.
LEMMA BootIsFirst ==
    ASSUME BootAlone, NEW p \in Actors \ {Boot}, Acts(p)
    PROVE  Idle(Boot)
  <1>1. CASE Idle(p)
    BY <1>1 DEF Idle, Acts, ActorStep, ListStep, SkipRun, TakeRun, RunRefused, ListDone,
           NextRun, JobStep, JobClaims, JobNotClaimed, JobReads, JobLearns, JobOvertaken,
           JobFails, JobChecks, JobRetries, JobGivesUp, JobFaults, FailureIsLost, HandlerStep,
           Drains, Begins, Says, Answers, TurnRefused, Notes, NoteRefused, HandsOver,
           HandoverRefused, HandlerBreaks, Arrives, CloserStep, ReadsSession,
           ReadsTurns, ListsRuns, PassesGate, Commits, CloseEnds, CloseBreaks, Confirmed
  <1> QED
    BY <1>1 DEF BootAlone

LEMMA BootActs ==
    ASSUME Acts(Boot)
    PROVE  /\ \/ ListStep(Boot) \/ JobStep(Boot) \/ JobFaults(Boot) \/ FailureIsLost(Boot)
              \/ BootStep
           /\ ~Idle(Boot)
  <1>1. \/ ListStep(Boot) \/ JobStep(Boot) \/ JobFaults(Boot) \/ FailureIsLost(Boot)
        \/ BootStep
    BY ActorAssumption DEF Acts, ActorStep
  <1> QED
    BY <1>1 DEF Idle, ListStep, SkipRun, TakeRun, RunRefused, ListDone,
           NextRun, JobStep, JobClaims, JobNotClaimed, JobReads, JobLearns, JobOvertaken,
           JobFails, JobChecks, JobRetries, JobGivesUp, JobFaults, FailureIsLost, BootStep,
           BootDrains, BootEnds

\* A job that goes on keeps its list.
LEMMA JobGoesOn ==
    ASSUME MemoryTypeOK, NEW p \in Actors, ~JobGivesUp(p),
           JobStep(p) \/ JobFaults(p) \/ FailureIsLost(p)
    PROVE  /\ at'[p].step \in JobSteps
           /\ at'[p].for = at[p].for /\ at'[p].lane = at[p].lane
           /\ at'[p].todo = at[p].todo
           /\ at'[p].step # "next" => at'[p].run = at[p].run
  <1>1. at[p] \in ActorRow /\ at \in [Actors -> ActorRow]
    BY DEF MemoryTypeOK
  <1>2. \A row : Becomes(p, row) => at'[p] = row
    BY <1>1 DEF Becomes
  <1>3. CASE JobClaims(p)
    BY <1>1, <1>2, <1>3 DEF JobClaims, JobSteps, ActorRow
  <1>4. CASE JobReads(p) /\ HasExchange(at[p].job.session, at[p].job.turn)
    BY <1>1, <1>2, <1>4 DEF JobReads, JobSteps, ActorRow
  <1>5. CASE Errs(p)
    BY <1>1, <1>2, <1>5 DEF Errs, JobSteps, ActorRow
  <1>6. CASE JobLearns(p)
    BY <1>1, <1>2, <1>6 DEF JobLearns, JobSteps, ActorRow
  <1>7. CASE \E step \in {"again", "check", "retry", "claim"} : Go(p, step)
    BY <1>1, <1>2, <1>7 DEF Go, JobSteps, ActorRow
  <1> QED
    BY <1>3, <1>4, <1>5, <1>6, <1>7
       DEF JobStep, JobNotClaimed, JobReads, JobOvertaken, JobFails, JobChecks, JobRetries,
           JobFaults, FailureIsLost

LEMMA BootAloneStep ==
    ASSUME Background, BootAlone, NEW p \in Actors, Acts(p)
    PROVE  BootAlone'
  <1>0. Boot \in Actors /\ MemoryTypeOK /\ at[Boot] \in ActorRow /\ at \in [Actors -> ActorRow]
    BY DEF Actors, Background, MemoryInv, MemoryTypeOK
  <1>1. CASE p # Boot
    <2>1. at'[Boot] = at[Boot] /\ Idle(Boot)
      BY <1>0, <1>1, OthersStay, BootIsFirst
    <2> QED
      BY <2>1 DEF BootAlone, Idle, JobSteps
  <1>2. CASE p = Boot
    <2>1. \A q \in Actors \ {Boot} : Idle(q) /\ at'[q] = at[q]
      BY <1>0, <1>2, BootActs, OthersStay DEF BootAlone
    <2>2. Quiet.step = "idle" /\ Cleared(Boot, "boot").step = "boot"
          /\ DOMAIN Cleared(Boot, "boot").todo = {}
      BY <1>0 DEF Quiet, Cleared, ActorRow, Nothing
    <2>3. /\ at'[Boot].step \in {"idle", "boot"} \cup JobSteps
          /\ at'[Boot].step \in JobSteps => at'[Boot].for = "boot"
          /\ at'[Boot].step = "boot" => DOMAIN at'[Boot].todo = {}
      <3>0. ASSUME at[Boot].step \in JobSteps, Becomes(Boot, Returned(Boot))
            PROVE  at'[Boot].step = "boot" /\ DOMAIN at'[Boot].todo = {}
        BY <1>0, <2>2, <3>0 DEF Becomes, Returned, BootAlone
      <3>r. ASSUME at[Boot].step \in JobSteps, Raises(Boot)
            PROVE  at'[Boot].step = "boot" /\ DOMAIN at'[Boot].todo = {}
        BY <3>0, <3>r DEF Raises, BootAlone
      <3>s. ASSUME at[Boot].step \in JobSteps, NEW row, Becomes(Boot, row),
                   row.step \in JobSteps, row.for = at[Boot].for
            PROVE  at'[Boot].step \in JobSteps /\ at'[Boot].for = "boot"
        BY <1>0, <3>s DEF Becomes, BootAlone
      <3>t. "boot" \notin JobSteps
        BY DEF JobSteps
      <3>1. CASE ListStep(Boot)
        <4>1. at[Boot].step \in JobSteps
          BY <3>1 DEF ListStep, SkipRun, TakeRun, RunRefused, ListDone, NextRun, JobSteps
        <4>2. ASSUME NEW r, SkipRun(Boot, r)
              PROVE  at'[Boot].step \in JobSteps /\ at'[Boot].for = "boot"
          <5>1. PICK row : row = [at[Boot] EXCEPT !.todo = Rest(Boot, r)]
            OBVIOUS
          <5>2. row.step = at[Boot].step /\ row.for = at[Boot].for
            BY <1>0, <5>1 DEF ActorRow
          <5> QED
            BY <3>s, <4>1, <4>2, <5>1, <5>2 DEF SkipRun
        <4>3. ASSUME NEW r, TakeRun(Boot, r)
              PROVE  at'[Boot].step \in JobSteps /\ at'[Boot].for = "boot"
          <5>0. PICK step \in {"claim", "check"} : Takes(Boot, r, step)
            BY <4>3 DEF TakeRun
          <5>1. PICK row : row = [at[Boot] EXCEPT !.step = step, !.run = r,
                                                  !.todo = Rest(Boot, r)]
            OBVIOUS
          <5>2. row.step \in JobSteps /\ row.for = at[Boot].for
            BY <1>0, <5>1 DEF ActorRow, JobSteps
          <5> QED
            BY <3>s, <4>1, <5>0, <5>1, <5>2 DEF Takes
        <4> QED
          BY <3>0, <3>r, <3>t, <3>1, <4>1, <4>2, <4>3 DEF ListStep, RunRefused, ListDone
      <3>2. CASE JobStep(Boot) \/ JobFaults(Boot) \/ FailureIsLost(Boot)
        <4>1. at[Boot].step \in JobSteps
          BY <3>2 DEF JobStep, JobClaims, JobNotClaimed, JobReads, JobLearns, JobOvertaken,
               JobFails, JobChecks, JobRetries, JobGivesUp, JobFaults, FailureIsLost, JobSteps
        <4>2. CASE JobGivesUp(Boot)
          BY <3>r, <3>t, <4>1, <4>2 DEF JobGivesUp
        <4>3. CASE ~JobGivesUp(Boot)
          BY <1>0, <3>2, <3>t, <4>1, <4>3, JobGoesOn DEF BootAlone
        <4> QED
          BY <4>2, <4>3
      <3>3. CASE BootStep
        BY ZenonT(30), <1>0, <2>2, <3>3
           DEF BootStep, BootDrains, BootEnds, Ends, Becomes, Lists, Quiet, JobSteps
      <3> QED
        BY <1>2, <3>1, <3>2, <3>3, BootActs
    <2> QED
      BY <2>1, <2>3 DEF BootAlone, Idle
  <1> QED
    BY <1>1, <1>2

LEMMA BootLists ==
    ASSUME Background, BootAlone, BootView, Undamaged, Grows, ListStep(Boot)
    PROVE  /\ BootView'
           /\ \A r \in DOMAIN runs :
                 Ahead(r) /\ runs[r].status = "processing" /\ runs'[r].status = "processing"
                 => Ahead(r)'
  <1>0. /\ at[Boot] \in ActorRow /\ at \in [Actors -> ActorRow] /\ Boot \in Actors
        /\ runs \in [DOMAIN runs -> RunRow] /\ MaxAttempts \in Nat
        /\ \A r \in DOMAIN runs : runs[r].session \in DOMAIN session /\ runs[r].attempt \in Nat
    BY ActorAssumption
       DEF Actors, Background, MemoryInv, MemoryTypeOK, SessionsTypeOK, Table, RunRow
  <1>1. /\ at[Boot].step = "next" /\ at[Boot].for = "boot"
        /\ \A r \in DOMAIN at[Boot].todo :
              /\ r \in DOMAIN runs
              /\ at[Boot].todo[r].status = runs[r].status
              /\ at[Boot].todo[r].spent = (runs[r].attempt >= MaxAttempts)
    BY DEF ListStep, SkipRun, TakeRun, RunRefused, ListDone, NextRun, BootAlone, BootView,
           JobSteps
  <1>2. \A s \in DOMAIN session : s \in DOMAIN session' /\ session'[s].lane = session[s].lane
    BY DEF Grows
  <1>k. \A r \in DOMAIN runs : session'[runs'[r].session].lane = session[runs[r].session].lane
    BY <1>0, <1>2 DEF Grows
  <1>3. ASSUME NEW n \in RunIds, SkipRun(Boot, n)
        PROVE  /\ BootView'
               /\ \A r \in DOMAIN runs : Ahead(r) /\ runs[r].status = "processing" => Ahead(r)'
    <2>1. /\ at'[Boot] = [at[Boot] EXCEPT !.todo = Rest(Boot, n)]
          /\ runs' = runs /\ n \in DOMAIN at[Boot].todo
      BY <1>0, <1>3 DEF SkipRun, Becomes, NextRun, sessionVars, tables
    <2>2. /\ at'[Boot].step = "next" /\ at'[Boot].lane = at[Boot].lane
          /\ at'[Boot].todo = Rest(Boot, n)
      BY <1>0, <1>1, <2>1 DEF ActorRow
    <2>3. /\ DOMAIN Rest(Boot, n) = DOMAIN at[Boot].todo \ {n}
          /\ \A r \in DOMAIN at[Boot].todo \ {n} : Rest(Boot, n)[r] = at[Boot].todo[r]
      BY DEF Rest, Without
    <2>4. runs[n].status # "processing"
      BY <1>1, <1>3, <2>1 DEF SkipRun, Skippable, Row
    <2>5. BootView'
      BY <1>1, <2>1, <2>2, <2>3 DEF BootView
    <2> QED
      BY <1>1, <1>k, <2>1, <2>2, <2>3, <2>4, <2>5 DEF Ahead, Idle
  <1>4. ASSUME NEW n \in RunIds, TakeRun(Boot, n)
        PROVE  /\ BootView'
               /\ \A r \in DOMAIN runs : Ahead(r) /\ runs'[r].status = "processing" => Ahead(r)'
    <2>0. PICK step \in {"claim", "check"} :
            /\ Takes(Boot, n, step)
            /\ \/ /\ Row(Boot, n).status = "pending" /\ step = "claim"
                  /\ UNCHANGED sessionVars
               \/ /\ Row(Boot, n).status = "failed" /\ step = "check"
                  /\ UNCHANGED sessionVars
               \/ Row(Boot, n).status = "processing" /\ step = "claim" /\ Recover(n)
      BY <1>4 DEF TakeRun
    <2>1. /\ at'[Boot] = [at[Boot] EXCEPT !.step = step, !.run = n, !.todo = Rest(Boot, n)]
          /\ n \in DOMAIN at[Boot].todo /\ n \in DOMAIN runs
      BY <1>0, <1>1, <1>4, <2>0 DEF TakeRun, Takes, Becomes, NextRun
    <2>2. /\ at'[Boot].step = step /\ at'[Boot].lane = at[Boot].lane
          /\ at'[Boot].todo = Rest(Boot, n) /\ at'[Boot].run = n
      BY <1>0, <2>1 DEF ActorRow
    <2>3. /\ DOMAIN Rest(Boot, n) = DOMAIN at[Boot].todo \ {n}
          /\ \A r \in DOMAIN at[Boot].todo \ {n} : Rest(Boot, n)[r] = at[Boot].todo[r]
      BY DEF Rest, Without
    <2>4. /\ DOMAIN runs' = DOMAIN runs /\ runs'[n].status = Expected(step)
          /\ \A r \in DOMAIN runs \ {n} : runs'[r] = runs[r]
      <3>1. CASE UNCHANGED sessionVars /\ runs[n].status = Expected(step)
        BY <3>1 DEF sessionVars, tables
      <3>2. CASE Recover(n) /\ step = "claim"
        BY <1>0, <2>1, <3>2 DEF Recover, Move, RunRow, Expected
      <3>3. Row(Boot, n).status = runs[n].status
        BY <1>1, <2>1 DEF Row
      <3> QED
        BY <2>0, <3>1, <3>2, <3>3 DEF Expected
    <2>5. BootView'
      BY <1>1, <2>1, <2>2, <2>3, <2>4 DEF BootView
    <2>6. runs'[n].status # "processing"
      BY <2>4 DEF Expected
    <2> QED
      BY <1>1, <1>k, <2>2, <2>3, <2>4, <2>5, <2>6 DEF Ahead, Idle
  <1>5. ASSUME NEW n \in RunIds, RunRefused(Boot, n) PROVE FALSE
    <2>1. n \in DOMAIN runs /\ at[Boot].todo[n].status = runs[n].status
      BY <1>1, <1>5 DEF RunRefused, NextRun
    <2>2. MayRecover(Boot)
      BY <1>1 DEF MayRecover, Coordinator
    <2> QED
      BY <1>5, <2>1, <2>2, AllCurrent DEF RunRefused, Row
  <1>6. ASSUME ListDone(Boot)
        PROVE  /\ BootView'
               /\ \A r \in DOMAIN runs : Ahead(r) => Ahead(r)'
    <2>1. at'[Boot] = Cleared(Boot, "boot") /\ DOMAIN at[Boot].todo = {}
      BY <1>0, <1>1, <1>6 DEF ListDone, Becomes, Returned
    <2>2. at'[Boot].step = "boot" /\ at'[Boot].lane = at[Boot].lane
      BY <1>0, <2>1 DEF Cleared, ActorRow
    <2> QED
      BY <1>k, <2>1, <2>2 DEF Ahead, Idle, BootView, JobSteps
  <1> QED
    BY <1>3, <1>4, <1>5, <1>6 DEF ListStep

LEMMA BootWorks ==
    ASSUME Background, BootAlone, BootView, Undamaged', Undamaged, faults' = faults, Grows,
           JobStep(Boot) \/ JobFaults(Boot) \/ FailureIsLost(Boot)
    PROVE  BootView' /\ \A r \in DOMAIN runs : Ahead(r) => Ahead(r)'
  <1> DEFINE n == at[Boot].run
  <1>0. /\ at[Boot] \in ActorRow /\ at \in [Actors -> ActorRow] /\ Boot \in Actors
        /\ MemoryTypeOK /\ faults \in Nat /\ MaxAttempts \in Nat
        /\ runs \in [DOMAIN runs -> RunRow]
        /\ \A r \in DOMAIN runs : runs[r].session \in DOMAIN session /\ runs[r].attempt \in Nat
    BY ActorAssumption
       DEF Actors, Background, MemoryInv, MemoryTypeOK, SessionsTypeOK, Table, RunRow
  <1>k. \A r \in DOMAIN runs : session'[runs'[r].session].lane = session[runs[r].session].lane
    BY <1>0 DEF Grows
  <1>1. /\ at[Boot].step \in JobSteps \ {"next"}
        /\ \A r \in DOMAIN at[Boot].todo :
              /\ r \in DOMAIN runs
              /\ at[Boot].todo[r].status = runs[r].status
              /\ at[Boot].todo[r].spent = (runs[r].attempt >= MaxAttempts)
        /\ n \in DOMAIN runs /\ n \notin DOMAIN at[Boot].todo
        /\ runs[n].status = Expected(at[Boot].step)
    BY DEF BootView, JobStep, JobClaims, JobNotClaimed, JobReads, JobLearns, JobOvertaken,
           JobFails, JobChecks, JobRetries, JobGivesUp, JobFaults, FailureIsLost, JobSteps
  <1>2. ~JobFaults(Boot) /\ ~FailureIsLost(Boot)
    BY <1>0 DEF JobFaults, FailureIsLost, Fault
  <1>3. ~JobNotClaimed(Boot)
    BY <1>1, AllCurrent DEF JobNotClaimed, Expected
  <1>4. ~JobGivesUp(Boot)
    <2> SUFFICES ASSUME JobGivesUp(Boot) PROVE FALSE
      OBVIOUS
    <2>1. at[Boot].step \in {"again", "check"} /\ ~Retriable(n)
      BY <1>1, AllCurrent DEF JobGivesUp, Expected
    <2>2. Exhausted(n)
      BY <1>0, <1>1, <2>1 DEF Retriable, Expected, Exhausted
    <2>3. \A q \in Actors : ~Retrying(q, n)
      BY <1>1, <2>1 DEF BootAlone, Idle, Retrying, JobSteps
    <2> QED
      BY <1>1, <2>2, <2>3 DEF Undamaged, Spent
  <1>5. /\ at'[Boot].step \in JobSteps /\ at'[Boot].lane = at[Boot].lane
        /\ at'[Boot].todo = at[Boot].todo
        /\ at'[Boot].step # "next" => at'[Boot].run = n
    BY <1>0, <1>4, JobGoesOn
  <1>6. /\ DOMAIN runs' = DOMAIN runs
        /\ \A r \in DOMAIN runs \ {n} : runs'[r] = runs[r]
        /\ at'[Boot].step # "next" => runs'[n].status = Expected(at'[Boot].step)
    <2>1. \A row : Becomes(Boot, row) => at'[Boot] = row
      BY <1>0 DEF Becomes
    <2>2. CASE JobClaims(Boot)
      <3>1. at'[Boot].step = "read"
        BY <1>0, <2>1, <2>2 DEF JobClaims, ActorRow
      <3> QED
        BY <1>0, <1>1, <2>2, <3>1 DEF JobClaims, Claim, Move, Expected, RunRow
    <2>3. CASE JobReads(Boot) \/ JobOvertaken(Boot)
      <3>1. at'[Boot].step \in {"call", "fail"} /\ at[Boot].step \in {"read", "call"}
        BY <1>0, <2>1, <2>3 DEF JobReads, JobOvertaken, Errs, ActorRow
      <3> QED
        BY <1>1, <2>3, <3>1 DEF JobReads, JobOvertaken, Expected, sessionVars, tables
    <2>4. CASE JobLearns(Boot)
      <3>1. at'[Boot].step = "next"
        BY <1>0, <2>1, <2>4 DEF JobLearns, ActorRow
      <3> QED
        BY <1>0, <1>1, <2>4, <3>1 DEF JobLearns, Activate, Settle, Move
    <2>5. CASE JobFails(Boot)
      <3>1. at'[Boot].step = "again"
        BY <1>0, <2>1, <2>5 DEF JobFails, Go, ActorRow
      <3>2. Fail(n)
        BY <1>1, <2>5, AllCurrent DEF JobFails, Expected
      <3> QED
        BY <1>0, <1>1, <3>1, <3>2 DEF Fail, Move, Expected, RunRow
    <2>6. CASE JobRetries(Boot)
      <3>1. at'[Boot].step = "claim"
        BY <1>0, <2>1, <2>6 DEF JobRetries, Go, ActorRow
      <3> QED
        BY <1>0, <1>1, <2>6, <3>1 DEF JobRetries, Retry, Move, Expected, RunRow
    <2>7. CASE JobChecks(Boot)
      <3>1. at'[Boot].step \in {"check", "retry"} /\ at[Boot].step \in {"again", "check"}
        BY <1>0, <2>1, <2>7 DEF JobChecks, Go, ActorRow
      <3> QED
        BY <1>1, <2>7, <3>1 DEF JobChecks, Expected, sessionVars, tables
    <2> QED
      BY <1>2, <1>3, <1>4, <2>2, <2>3, <2>4, <2>5, <2>6, <2>7 DEF JobStep
  <1>7. BootView'
    BY <1>1, <1>5, <1>6 DEF BootView
  <1>8. "idle" \notin JobSteps
    BY DEF JobSteps
  <1> QED
    BY <1>k, <1>5, <1>7, <1>8 DEF Ahead, Idle

LEMMA BootSteps ==
    ASSUME Background, BootAlone, BootView, Undamaged, Grows, BootStep
    PROVE  BootView' /\ \A r \in DOMAIN runs : Ahead(r) => Ahead(r)'
  <1>0. /\ at \in [Actors -> ActorRow] /\ Boot \in Actors /\ MemoryTypeOK
        /\ \A s \in DOMAIN session : session[s].lane \in Nat
        /\ \A r \in DOMAIN runs : runs[r].session \in DOMAIN session
    BY DEF Actors, Background, MemoryInv, MemoryTypeOK, SessionsTypeOK, Table, SessionRow,
           LaneIds
  <1>1. at[Boot].step = "boot" /\ DOMAIN at[Boot].todo = {} /\ UNCHANGED <<session, runs>>
    BY DEF BootStep, BootDrains, BootEnds, BootAlone, sessionVars, tables
  <1>2. CASE BootDrains
    <2>1. PICK l \in LanesWithRuns :
            /\ \A m \in LanesWithRuns : m > at[Boot].lane => l <= m
            /\ Becomes(Boot, Lists(l, "boot", RunsOfLane(l)))
      BY <1>2 DEF BootDrains
    <2>2. at'[Boot] = Lists(l, "boot", RunsOfLane(l))
      BY <1>0, <2>1 DEF Becomes
    <2>3. /\ at'[Boot].step = "next" /\ at'[Boot].lane = l
          /\ at'[Boot].todo = SnapshotOf(RunsOfLane(l))
      BY <2>2 DEF Lists, Quiet
    <2>4. /\ DOMAIN at'[Boot].todo = RunsOfLane(l)
          /\ \A r \in RunsOfLane(l) :
                at'[Boot].todo[r] = [status |-> runs[r].status,
                                     spent |-> runs[r].attempt >= MaxAttempts]
      BY <2>3 DEF SnapshotOf
    <2>a. \A r \in DOMAIN at'[Boot].todo :
             /\ r \in DOMAIN runs'
             /\ at'[Boot].todo[r].status = runs'[r].status
             /\ at'[Boot].todo[r].spent = (runs'[r].attempt >= MaxAttempts)
      <3> SUFFICES ASSUME NEW r \in RunsOfLane(l)
                   PROVE  /\ r \in DOMAIN runs'
                          /\ at'[Boot].todo[r].status = runs'[r].status
                          /\ at'[Boot].todo[r].spent = (runs'[r].attempt >= MaxAttempts)
        BY <2>4
      <3>1. r \in DOMAIN runs' /\ runs' = runs
        BY <1>1 DEF RunsOfLane
      <3>2. at'[Boot].todo[r] = [status |-> runs[r].status,
                                 spent |-> runs[r].attempt >= MaxAttempts]
        BY <2>4
      <3> QED
        BY <3>1, <3>2
    <2>5. BootView'
      BY <2>3, <2>a DEF BootView
    <2>6. ASSUME NEW r \in DOMAIN runs, Ahead(r) PROVE Ahead(r)'
      <3>1. session[runs[r].session].lane > at[Boot].lane
        BY <1>1, <2>6 DEF Ahead
      <3>2. session[runs[r].session].lane \in LanesWithRuns
        BY DEF LanesWithRuns
      <3>3. l <= session[runs[r].session].lane
        BY <2>1, <3>1, <3>2
      <3>4. l \in Nat /\ session[runs[r].session].lane \in Nat
        BY <1>0 DEF LanesWithRuns
      <3>5. session[runs[r].session].lane = l => r \in RunsOfLane(l)
        BY DEF RunsOfLane
      <3> QED
        BY <1>1, <2>3, <2>4, <3>3, <3>4, <3>5 DEF Ahead, Idle
    <2> QED
      BY <2>5, <2>6
  <1>3. CASE BootEnds
    <2>1. at'[Boot].step = "idle"
      BY <1>0, <1>3 DEF BootEnds, Ends, Becomes, Quiet
    <2>2. ASSUME NEW r \in DOMAIN runs PROVE ~Ahead(r)
      <3>1. session[runs[r].session].lane \in LanesWithRuns
        BY DEF LanesWithRuns
      <3>2. session[runs[r].session].lane <= at[Boot].lane
        BY <1>3, <3>1 DEF BootEnds
      <3>3. session[runs[r].session].lane \in Nat /\ at[Boot].lane \in Nat
        BY <1>0 DEF MemoryTypeOK, ActorRow, LaneIds
      <3> QED
        BY <1>1, <3>2, <3>3 DEF Ahead
    <2> QED
      BY <2>1, <2>2 DEF BootView, JobSteps
  <1> QED
    BY <1>2, <1>3 DEF BootStep

LEMMA ClaimedActs ==
    ASSUME Background, BootAlone, BootView, Claimed, NEW p \in Actors, Acts(p),
           [MemoryNext]_memoryVars
    PROVE  BootView' /\ Claimed'
  <1>0. MemoryTypeOK /\ Boot \in Actors
    BY DEF Background, MemoryInv, Actors
  <1>1. Grows
    BY <1>0, StepIsTransaction, TransactionGrows DEF MemoryTypeOK
  <1>2. faults' = faults \/ faults' = faults + 1
    BY CountersStep
  <1>3. CASE ~Undamaged'
    BY <1>3 DEF BootView, Claimed
  <1>4. CASE Undamaged' /\ p # Boot
    <2>1. at'[Boot] = at[Boot] /\ Idle(Boot) /\ Idle(Boot)'
      BY <1>0, <1>4, OthersStay, BootIsFirst DEF Idle
    <2>2. Undamaged /\ faults' = 0
      BY <1>1, <1>2, <1>4, StaysUndamaged DEF Undamaged
    <2>3. BootView'
      BY <2>1 DEF BootView, Idle, JobSteps
    <2>4. ASSUME NEW r \in DOMAIN runs', runs'[r].status = "processing"
          PROVE  \E q \in Actors : Working(q, r)'
      <3>1. CASE r \in DOMAIN runs /\ runs[r].status = "processing"
        <4>1. PICK q \in Actors : Working(q, r)
          BY <2>1, <2>2, <3>1 DEF Claimed, Ahead
        <4>2. CASE q = p
          BY <2>2, <2>4, <3>1, <4>1, <4>2, WorkGoesOn
        <4>3. CASE q # p
          BY <1>0, <4>1, <4>3, OthersStay DEF Working
        <4> QED
          BY <4>2, <4>3
      <3>2. CASE ~(r \in DOMAIN runs /\ runs[r].status = "processing")
        BY <2>4, <3>2, ClaimIsWork
      <3> QED
        BY <3>1, <3>2
    <2> QED
      BY <2>3, <2>4 DEF Claimed
  <1>5. CASE Undamaged' /\ p = Boot
    <2>1. Undamaged /\ faults' = faults /\ faults' = 0
      BY <1>1, <1>2, <1>5, StaysUndamaged DEF Undamaged
    <2>2. /\ BootView'
          /\ \A r \in DOMAIN runs :
                Ahead(r) /\ runs[r].status = "processing" /\ runs'[r].status = "processing"
                => Ahead(r)'
      BY <1>1, <1>5, <2>1, BootActs, BootLists, BootWorks, BootSteps
    <2>3. ASSUME NEW r \in DOMAIN runs', runs'[r].status = "processing"
          PROVE  Ahead(r)' \/ \E q \in Actors : Working(q, r)'
      <3>1. CASE r \in DOMAIN runs /\ runs[r].status = "processing"
        <4>1. CASE Ahead(r)
          BY <2>2, <2>3, <3>1, <4>1
        <4>2. CASE \E q \in Actors : Working(q, r)
          <5>1. PICK q \in Actors : Working(q, r)
            BY <4>2
          <5>2. CASE q = p
            BY <2>1, <2>3, <3>1, <5>1, <5>2, WorkGoesOn
          <5>3. CASE q # p
            BY <1>0, <5>1, <5>3, OthersStay DEF Working
          <5> QED
            BY <5>2, <5>3
        <4> QED
          BY <2>1, <3>1, <4>1, <4>2 DEF Claimed
      <3>2. CASE ~(r \in DOMAIN runs /\ runs[r].status = "processing")
        BY <2>3, <3>2, ClaimIsWork
      <3> QED
        BY <3>1, <3>2
    <2> QED
      BY <2>2, <2>3 DEF Claimed
  <1> QED
    BY <1>3, <1>4, <1>5

\* A crash leaves every claim to the start-up.
LEMMA ClaimedCrash ==
    ASSUME Background, Crashes
    PROVE  BootAlone' /\ BootView' /\ Claimed'
  <1>1. /\ at' = [p \in Actors |-> IF p = Boot THEN [Quiet EXCEPT !.step = "boot"] ELSE Quiet]
        /\ UNCHANGED <<session, runs>> /\ Boot \in Actors
    BY DEF Crashes, sessionVars, tables, Actors
  <1>2. /\ at'[Boot].step = "boot" /\ DOMAIN at'[Boot].todo = {} /\ at'[Boot].lane = 0
        /\ \A p \in Actors \ {Boot} : at'[p].step = "idle"
    BY <1>1 DEF Quiet, Nothing
  <1>3. \A r \in DOMAIN runs : session[runs[r].session].lane > 0
    BY SessionAssumption
       DEF Background, MemoryInv, MemoryTypeOK, SessionsTypeOK, Table, RunRow, SessionRow,
           LaneIds
  <1> QED
    BY <1>1, <1>2, <1>3 DEF BootAlone, BootView, Claimed, Ahead, Idle, JobSteps

LEMMA ClaimedStep ==
    ASSUME Background, BootAlone, BootView, Claimed, [MemoryNext]_memoryVars
    PROVE  BootAlone' /\ BootView' /\ Claimed'
  <1>1. CASE UNCHANGED memoryVars
    BY <1>1 DEF memoryVars, sessionVars, tables, counters, BootAlone, BootView, Claimed,
                Ahead, Idle, Undamaged, Spent, Exhausted, Retrying, Working
  <1> QED
    BY <1>1, SomebodyActs, ClaimedCrash, ClaimedActs, BootAloneStep

LEMMA ClaimedInit == MemoryInit => BootAlone /\ BootView /\ Claimed
  <1> SUFFICES ASSUME MemoryInit PROVE BootAlone /\ BootView /\ Claimed
    OBVIOUS
  <1>1. DOMAIN runs = {} /\ \A p \in Actors : at[p].step = "idle"
    BY DEF MemoryInit, SessionInit, Nothing, Quiet
  <1>2. Boot \in Actors
    BY DEF Actors
  <1> QED
    BY <1>1, <1>2 DEF BootAlone, BootView, Claimed, Idle, JobSteps

LEMMA BackgroundHolds == MemorySpec => []Background
  <1> DEFINE Open == OwnerActive /\ faults \in Nat /\ closes \in Nat
  <1>1. MemoryInit => Open
    BY DEF MemoryInit, SessionInit, LifecycleInit, OwnerActive
  <1>2. MemoryInv /\ SessionInvariant /\ Open /\ [MemoryNext]_memoryVars => Open'
    BY BackgroundStep DEF Background
  <1>3. MemoryInv /\ SessionInvariant /\ Open => Background
    BY DEF Background
  <1>4. MemorySpec => []SessionInvariant
    BY MemoryKeepsContract, SessionsAreSafe, PTL DEF KeepsSessionContract
  <1> HIDE DEF Open
  <1> QED
    BY <1>1, <1>2, <1>3, <1>4, MemoryIsSafe, PTL DEF MemorySpec

\* When nobody is at work and nothing failed, no run is left claimed: crashes at any
\* moment and workers that overtake each other leave none behind.
THEOREM QuietReleases == MemorySpec => []QuietMeansReleased
  <1> DEFINE Inv == BootAlone /\ BootView /\ Claimed
  <1>1. Background /\ Inv /\ [MemoryNext]_memoryVars => Inv'
    BY ClaimedStep
  <1>2. Inv => QuietMeansReleased
    <2>1. (\A r \in DOMAIN runs : runs[r].status # "failed") => ~Spent
      BY DEF Spent, Exhausted
    <2>2. (\A p \in Actors : Idle(p)) => Idle(Boot) /\ \A p \in Actors : \A r : ~Working(p, r)
      BY DEF Idle, Working, Actors
    <2> QED
      BY <2>1, <2>2 DEF QuietMeansReleased, Claimed, Undamaged, Ahead
  <1>3. MemoryInit => Inv
    BY ClaimedInit
  <1> HIDE DEF Inv
  <1> QED
    BY <1>1, <1>2, <1>3, BackgroundHolds, PTL DEF MemorySpec

-----------------------------------------------------------------------------
(* Why a run fails when nothing disturbs it *)

Undisturbed == faults = 0 /\ closes = 0

\* Turn t is one of session s and another follows it.
Followed(s, t) ==
    /\ t \in TurnsOf(s)
    /\ \E a \in TurnsOf(s) : turn[a].seq > turn[t].seq

\* A handler has its turn followed by the answer before it notes the run.
Noted ==
    /\ \A h \in Handlers :
          /\ at[h].step = "ask" => at[h].turn \in TurnsOf(at[h].session)
          /\ at[h].step = "note" => Followed(at[h].session, at[h].turn)
    /\ \A r \in DOMAIN runs : Followed(runs[r].session, runs[r].turn)

\* Actor p works on a claimed run, on the exchange of its row, and gives up only one
\* that has none.
InForce(p) ==
    /\ at[p].run \in DOMAIN runs /\ runs[at[p].run].status = "processing"
    /\ at[p].step \in {"read", "call"} =>
          /\ at[p].job.session = runs[at[p].run].session
          /\ at[p].job.turn = runs[at[p].run].turn
    /\ at[p].step = "fail" => ~HasExchange(runs[at[p].run].session, runs[at[p].run].turn)

InOrder ==
    Undisturbed =>
        /\ \A c \in Closers : Idle(c)
        /\ Noted
        /\ \A p \in Actors : at[p].step \in {"read", "call", "fail"} => InForce(p)
        /\ \A r \in DOMAIN runs : runs[r].status = "failed" =>
              ~HasExchange(runs[r].session, runs[r].turn)

\* What a step does to the turns while no session closes.
TurnsGrow ==
    /\ DOMAIN turn \subseteq DOMAIN turn'
    /\ \A t \in DOMAIN turn : turn'[t] = turn[t]
    /\ \A n \in DOMAIN turn' \ DOMAIN turn : \A t \in DOMAIN turn :
          turn[t].session = turn'[n].session => turn'[n].seq > turn[t].seq

LEMMA AppendGrows ==
    ASSUME SessionsTypeOK, NEW s, NEW role, NEW t \in TurnIds, AppendTurn(s, role, t)
    PROVE  TurnsGrow /\ t \in DOMAIN turn' \ DOMAIN turn /\ turn'[t].session = s
  <1>1. t \notin DOMAIN turn
    <2>1. t \in DOMAIN turn => t < t /\ t \in Nat
      BY SessionAssumption DEF AppendTurn, IsNext, TurnIds
    <2> QED
      BY <2>1
  <1>2. PICK q \in TurnIds :
          /\ IsNext(SeqsOf(s), q)
          /\ turn' = With(turn, t, [session |-> s, seq |-> q, role |-> role])
    BY DEF AppendTurn
  <1>3. /\ DOMAIN turn' = DOMAIN turn \cup {t}
        /\ turn'[t].session = s /\ turn'[t].seq = q
        /\ \A n \in DOMAIN turn : turn'[n] = turn[n]
    BY <1>1, <1>2 DEF With
  <1>4. \A n \in DOMAIN turn : turn[n].session = s => q > turn[n].seq
    <2>1. \A n \in DOMAIN turn : turn[n].session = s => turn[n].seq \in SeqsOf(s)
      BY DEF SeqsOf, TurnsOf
    <2>2. \A n \in DOMAIN turn : turn[n].seq \in Nat
      BY DEF SessionsTypeOK, Table, TurnRow, TurnIds
    <2> QED
      BY <1>2, <2>1, <2>2 DEF IsNext, TurnIds
  <1> QED
    BY <1>1, <1>3, <1>4 DEF TurnsGrow

LEMMA FollowedStays ==
    ASSUME TurnsGrow, NEW s, NEW t, Followed(s, t)
    PROVE  Followed(s, t)'
  BY DEF TurnsGrow, Followed, TurnsOf

\* The turn that follows is settled once there is one.
LEMMA ExchangeIsOld ==
    ASSUME SessionsTypeOK, SessionsTypeOK', TurnsGrow, NEW s, NEW t, Followed(s, t),
           HasExchange(s, t)'
    PROVE  HasExchange(s, t)
  <1>1. /\ t \in DOMAIN turn /\ turn[t].session = s /\ turn'[t] = turn[t]
        /\ \A n \in DOMAIN turn : turn[n].seq \in Nat
    BY DEF Followed, TurnsOf, TurnsGrow, SessionsTypeOK, Table, TurnRow, TurnIds
  <1>2. PICK b \in DOMAIN turn : turn[b].session = s /\ turn[b].seq > turn[t].seq
    BY DEF Followed, TurnsOf
  <1>3. PICK a \in DOMAIN turn' :
          /\ turn'[a].session = s /\ turn'[a].role = "assistant"
          /\ turn'[a].seq > turn[t].seq
          /\ \A n \in DOMAIN turn' :
                turn'[n].session = s /\ turn'[n].seq > turn[t].seq
                => turn'[a].seq <= turn'[n].seq
    BY <1>1 DEF HasExchange, TurnAfter, TurnsOf
  <1>4. turn'[a].seq <= turn[b].seq
    BY <1>2, <1>3 DEF TurnsGrow
  <1>5. a \in DOMAIN turn
    <2>1. CASE a \in DOMAIN turn' \ DOMAIN turn
      <3>1. turn'[a].seq > turn[b].seq
        BY <1>2, <1>3, <2>1 DEF TurnsGrow
      <3>2. turn'[a].seq \in Nat /\ turn[b].seq \in Nat
        BY <1>1, <1>2, <1>3 DEF SessionsTypeOK, Table, TurnRow, TurnIds
      <3> QED
        BY <1>4, <3>1, <3>2
    <2> QED
      BY <2>1
  <1>6. a \in TurnAfter(t) /\ turn[a].role = "assistant"
    BY <1>1, <1>3, <1>5 DEF TurnsGrow, TurnAfter, TurnsOf
  <1>7. turn[t].role = "user"
    BY <1>1 DEF HasExchange
  <1> QED
    BY <1>1, <1>6, <1>7 DEF HasExchange, TurnsOf

LEMMA OnlyAppends ==
    ASSUME Background, NEW p \in Actors \ Closers, Acts(p)
    PROVE  TurnsGrow
  <1>1. CASE turn' = turn
    BY <1>1 DEF TurnsGrow
  <1>2. CASE Says(p) \/ Answers(p)
    <2>1. PICK t \in TurnIds, role \in Roles : AppendTurn(at[p].session, role, t)
      BY <1>2 DEF Says, Answers, Roles
    <2> QED
      BY <2>1, AppendGrows DEF Background, MemoryInv, MemoryTypeOK
  <1>3. CASE ListStep(p)
    BY <1>1, <1>3 DEF ListStep, SkipRun, TakeRun, RunRefused, ListDone, Retry, Recover,
                      Move, sessionVars, tables
  <1>4. CASE JobStep(p) \/ JobFaults(p) \/ FailureIsLost(p)
    BY <1>1, <1>4
       DEF JobStep, JobClaims, JobNotClaimed, JobReads, JobLearns, JobOvertaken, JobFails,
           JobChecks, JobRetries, JobGivesUp, JobFaults, FailureIsLost, Claim, Activate, Settle, Fail,
           Retry, Move, sessionVars, tables
  <1>5. CASE HandlerStep(p) \/ HandlerBreaks(p) \/ \E l \in LaneIds : Arrives(p, l)
    BY <1>1, <1>2, <1>5
       DEF HandlerStep, Drains, Begins, TurnRefused, Notes, NoteRefused, HandsOver,
           HandoverRefused, HandlerBreaks, Arrives, OpenLane, OpenSession, CreateRun,
           sessionVars, tables
  <1>6. CASE BootStep
    BY <1>1, <1>6 DEF BootStep, BootDrains, BootEnds, sessionVars, tables
  <1> QED
    BY <1>3, <1>4, <1>5, <1>6 DEF Acts, ActorStep

\* An actor that works off no list leaves the runs that exist alone.
LEMMA Uninvolved ==
    ASSUME Background, NEW p \in Actors \ Closers, Acts(p), at[p].step \notin JobSteps
    PROVE  \A r \in DOMAIN runs : runs'[r] = runs[r]
  <1>1. CASE runs' = runs
    BY <1>1
  <1>2. CASE \E r : CreateRun(at[p].session, at[p].turn, r)
    <2>1. PICK s, t, r : CreateRun(s, t, r)
      BY <1>2
    <2> QED
      BY <2>1, CreatedRun DEF Background, MemoryInv, MemoryTypeOK
  <1>3. CASE HandlerStep(p) \/ HandlerBreaks(p) \/ \E l \in LaneIds : Arrives(p, l)
    BY <1>1, <1>2, <1>3
       DEF HandlerStep, Drains, Begins, Says, Answers, TurnRefused, Notes, NoteRefused,
           HandsOver, HandoverRefused, HandlerBreaks, Arrives, OpenLane, OpenSession,
           AppendTurn, sessionVars, tables
  <1>4. CASE BootStep
    BY <1>1, <1>4 DEF BootStep, BootDrains, BootEnds, sessionVars, tables
  <1>5. ~ListStep(p) /\ ~JobStep(p) /\ ~JobFaults(p) /\ ~FailureIsLost(p)
    BY DEF ListStep, SkipRun, TakeRun, RunRefused, ListDone, NextRun, JobStep, JobClaims,
           JobNotClaimed, JobReads, JobLearns, JobOvertaken, JobFails, JobChecks, JobRetries,
           JobGivesUp, JobFaults, FailureIsLost, JobSteps
  <1> QED
    BY <1>3, <1>4, <1>5 DEF Acts, ActorStep

LEMMA NotedStep ==
    ASSUME Background, Noted, TurnsGrow, Grows, NEW p \in Actors \ Closers, Acts(p)
    PROVE  Noted'
  <1>0. MemoryTypeOK /\ SessionsTypeOK /\ at[p] \in ActorRow /\ at \in [Actors -> ActorRow]
    BY DEF Background, MemoryInv, MemoryTypeOK
  <1>r. \A row : Becomes(p, row) => at'[p] = row
    BY <1>0 DEF Becomes
  <1>1. ASSUME NEW h \in Handlers
        PROVE  /\ at'[h].step = "ask" => (at[h].turn \in TurnsOf(at[h].session))'
               /\ at'[h].step = "note" => Followed(at[h].session, at[h].turn)'
    <2>1. CASE h # p
      <3>1. at'[h] = at[h]
        BY <1>0, <2>1, OthersStay DEF Actors
      <3>2. CASE at[h].step = "ask"
        <4>1. PICK s, t : s = at[h].session /\ t = at[h].turn
          OBVIOUS
        <4>2. t \in TurnsOf(s)
          BY <1>1, <3>2, <4>1 DEF Noted
        <4>3. (t \in TurnsOf(s))'
          BY <4>2 DEF TurnsGrow, TurnsOf
        <4> QED
          BY <3>1, <3>2, <4>1, <4>3
      <3>3. CASE at[h].step = "note"
        <4>1. PICK s, t : s = at[h].session /\ t = at[h].turn
          OBVIOUS
        <4>2. Followed(s, t)'
          BY <1>1, <3>3, <4>1, FollowedStays DEF Noted
        <4> QED
          BY <3>1, <3>3, <4>1, <4>2
      <3> QED
        BY <3>1, <3>2, <3>3
    <2>2. CASE h = p /\ Says(p)
      <3>1. PICK t \in TurnIds :
              /\ AppendTurn(at[p].session, "user", t)
              /\ Becomes(p, [at[p] EXCEPT !.step = "ask", !.turn = t])
        BY <2>2 DEF Says
      <3>2. t \in DOMAIN turn' /\ turn'[t].session = at[p].session
        BY <1>0, <3>1, AppendGrows
      <3>3. at'[p].step = "ask" /\ at'[p].turn = t /\ at'[p].session = at[p].session
        BY <1>0, <1>r, <3>1 DEF ActorRow
      <3> QED
        BY <2>2, <3>2, <3>3 DEF TurnsOf
    <2>3. CASE h = p /\ Answers(p)
      <3>1. PICK a \in TurnIds : AppendTurn(at[p].session, "assistant", a)
        BY <2>3 DEF Answers
      <3>2. a \in DOMAIN turn' \ DOMAIN turn /\ turn'[a].session = at[p].session
        BY <1>0, <3>1, AppendGrows
      <3>3. at[p].turn \in TurnsOf(at[p].session)
        BY <1>1, <2>3 DEF Answers, Noted
      <3>4. /\ at'[p].step = "note" /\ at'[p].turn = at[p].turn
            /\ at'[p].session = at[p].session
        BY <1>0, <1>r, <2>3 DEF Answers, Go, ActorRow
      <3>5. /\ at[p].turn \in DOMAIN turn /\ turn[at[p].turn].session = at[p].session
            /\ turn'[at[p].turn] = turn[at[p].turn]
        BY <3>3 DEF TurnsOf, TurnsGrow
      <3>6. turn'[a].seq > turn'[at[p].turn].seq
        BY <3>2, <3>5 DEF TurnsGrow
      <3> QED
        BY <2>3, <3>2, <3>4, <3>5, <3>6 DEF Followed, TurnsOf, TurnsGrow
    <2>4. CASE h = p /\ ~Says(p) /\ ~Answers(p)
      <3>1. CASE ListStep(p)
        BY <1>0, <2>4, <3>1, ListLeads
      <3>2. CASE JobStep(p) \/ JobFaults(p) \/ FailureIsLost(p)
        <4>1. at'[p].step \in JobSteps \cup {"idle", "begin", "boot", "gate"}
          BY <1>0, <3>2, JobGoesOn, GiveUpLeads
        <4> QED
          BY <2>4, <4>1 DEF JobSteps
      <3>3. CASE HandlerStep(p) \/ HandlerBreaks(p) \/ \E l \in LaneIds : Arrives(p, l)
        <4>1. CASE Ends(p)
          BY <1>r, <2>4, <4>1 DEF Ends, Quiet
        <4>2. CASE Drains(p) \/ HandsOver(p)
          BY <1>r, <2>4, <4>2 DEF Drains, HandsOver, Works, Lists, Quiet
        <4>3. CASE Begins(p)
          BY <1>0, <1>r, <2>4, <4>3 DEF Begins, ActorRow
        <4>4. CASE Notes(p)
          BY <1>0, <1>r, <2>4, <4>4 DEF Notes, ActorRow
        <4>5. CASE \E l \in LaneIds : Arrives(p, l)
          BY <1>r, <2>4, <4>5 DEF Arrives, Quiet
        <4> QED
          BY <2>4, <3>3, <4>1, <4>2, <4>3, <4>4, <4>5
             DEF HandlerStep, TurnRefused, NoteRefused, HandoverRefused, HandlerBreaks
      <3>4. p # Boot
        BY <1>1, <2>4, ActorAssumption
      <3> QED
        BY <3>1, <3>2, <3>3, <3>4 DEF Acts, ActorStep
    <2> QED
      BY <2>1, <2>2, <2>3, <2>4
  <1>2. ASSUME NEW r \in DOMAIN runs'
        PROVE  Followed(runs[r].session, runs[r].turn)'
    <2>1. CASE r \in DOMAIN runs
      <3>1. PICK s, t : s = runs[r].session /\ t = runs[r].turn
        OBVIOUS
      <3>2. Followed(s, t)'
        BY <2>1, <3>1, FollowedStays DEF Noted
      <3>3. runs'[r].session = s /\ runs'[r].turn = t
        BY <2>1, <3>1 DEF Grows
      <3> QED
        BY <3>2, <3>3
    <2>2. CASE r \notin DOMAIN runs
      <3>1. p \in Handlers /\ Notes(p) /\ CreateRun(at[p].session, at[p].turn, r)
        <4>1. CASE ListStep(p)
          BY <1>2, <2>2, <4>1
             DEF ListStep, SkipRun, TakeRun, RunRefused, ListDone, Retry, Recover, Move,
                 sessionVars, tables
        <4>2. CASE JobStep(p) \/ JobFaults(p) \/ FailureIsLost(p)
          BY <1>2, <2>2, <4>2
             DEF JobStep, JobClaims, JobNotClaimed, JobReads, JobLearns, JobOvertaken,
                 JobFails, JobChecks, JobRetries, JobGivesUp, JobFaults, FailureIsLost, Claim,
                 Activate, Settle, Fail, Retry, Move, sessionVars, tables
        <4>n. ASSUME NEW n, CreateRun(at[p].session, at[p].turn, n) PROVE n = r
          <5>1. PICK s, t : CreateRun(s, t, n)
            BY <4>n
          <5>2. DOMAIN runs' = DOMAIN runs \cup {n}
            BY <1>0, <5>1, CreatedRun
          <5> QED
            BY <1>2, <2>2, <5>2
        <4>3. CASE p \in Handlers /\ (HandlerStep(p) \/ HandlerBreaks(p) \/ \E l \in LaneIds : Arrives(p, l))
          <5>1. runs' # runs
            BY <1>2, <2>2
          <5>2. Notes(p)
            BY <4>3, <5>1
               DEF HandlerStep, Drains, Begins, Says, Answers, TurnRefused, NoteRefused,
                   HandsOver, HandoverRefused, HandlerBreaks, Arrives, OpenLane,
                   OpenSession, AppendTurn, sessionVars, tables
          <5>3. PICK n : CreateRun(at[p].session, at[p].turn, n)
            BY <5>1, <5>2 DEF Notes, sessionVars, tables
          <5> QED
            BY <4>3, <4>n, <5>2, <5>3
        <4>4. CASE BootStep
          BY <1>2, <2>2, <4>4 DEF BootStep, BootDrains, BootEnds, sessionVars, tables
        <4> QED
          BY <4>1, <4>2, <4>3, <4>4 DEF Acts, ActorStep
      <3>2. PICK s, t : s = at[p].session /\ t = at[p].turn
        OBVIOUS
      <3>3. Followed(s, t)'
        BY <3>1, <3>2, FollowedStays DEF Notes, Noted
      <3>4. runs'[r].session = s /\ runs'[r].turn = t
        <4>1. CreateRun(s, t, r)
          BY <3>1, <3>2
        <4>2. runs'[r] = [session |-> s, turn |-> t, epoch |-> profile.epoch,
                          status |-> "pending", attempt |-> 0]
          BY <2>2, <4>1 DEF CreateRun, With
        <4> QED
          BY <4>2
      <3> QED
        BY <3>3, <3>4
    <2> QED
      BY <2>1, <2>2
  <1> QED
    BY <1>1, <1>2 DEF Noted

\* A closer that is idle begins only with a confirmation.
LEMMA IdleClosers ==
    ASSUME Background, \A c \in Closers : Idle(c), NEW p \in Actors, Acts(p),
           closes' = closes
    PROVE  p \notin Closers
  <1>1. Idle(p) => ~ActorStep(p) /\ ~JobFaults(p) /\ ~FailureIsLost(p) /\ ~CloseBreaks(p)
    BY DEF Idle, ActorStep, ListStep, SkipRun, TakeRun, RunRefused, ListDone, NextRun,
           JobStep, JobClaims, JobNotClaimed, JobReads, JobLearns, JobOvertaken, JobFails,
           JobChecks, JobRetries, JobGivesUp, JobFaults, FailureIsLost, HandlerStep,
           Drains, Begins, Says, Answers, TurnRefused, Notes, NoteRefused, HandsOver,
           HandoverRefused, CloserStep, ReadsSession, ReadsTurns, ListsRuns, PassesGate,
           Commits, CloseEnds, CloseBreaks, BootStep, BootDrains, BootEnds
  <1>2. ~Confirmed(p)
    <2>1. closes \in Nat
      BY DEF Background
    <2>2. Confirmed(p) => closes' = closes + 1
      BY DEF Confirmed
    <2> QED
      BY <2>1, <2>2
  <1>3. p \in Closers => p \notin Handlers
    BY ActorAssumption
  <1> QED
    BY <1>1, <1>2, <1>3 DEF Acts

\* The closers keep out, and counters at zero were zero before.
LEMMA StaysUndisturbed ==
    ASSUME Background, InOrder, Undisturbed', NEW p \in Actors, Acts(p)
    PROVE  Undisturbed /\ p \notin Closers /\ faults' = faults
  <1>1. [MemoryNext]_memoryVars
    BY DEF Acts, MemoryNext, OwnerStep, Trouble
  <1>2. Undisturbed /\ faults' = faults /\ closes' = closes
    BY <1>1, CountersStep DEF Background, Undisturbed
  <1> QED
    BY <1>2, IdleClosers DEF InOrder

\* Only the failing job of an actor in force makes a failed run.
LEMMA FailsInForce ==
    ASSUME Background, NEW p \in Actors \ Closers, Acts(p),
           NEW r \in DOMAIN runs, runs'[r].status = "failed", runs[r].status # "failed"
    PROVE  at[p].step = "fail" /\ r = at[p].run
  <1>0. runs \in [DOMAIN runs -> RunRow]
    BY DEF Background, MemoryInv, MemoryTypeOK, SessionsTypeOK, Table
  <1>1. runs' # runs
    OBVIOUS
  <1>2. at[p].step \in JobSteps
    BY Uninvolved
  <1>3. ASSUME NEW q, NEW status, NEW attempt, Move(q, status, attempt)
        PROVE  status = "failed" /\ r = q
    BY <1>0, <1>3 DEF Move, RunRow
  <1>4. ~(\E q, from : Activate(q, from))
    BY <1>0 DEF Activate, RunRow
  <1>5. CASE ListStep(p)
    <2>1. \E q : Recover(q)
      BY <1>1, <1>5 DEF ListStep, SkipRun, TakeRun, RunRefused, ListDone, sessionVars, tables
    <2>2. PICK q : Move(q, "pending", runs[q].attempt)
      BY <2>1 DEF Recover
    <2> QED
      BY <1>3, <2>2
  <1>6. CASE JobStep(p) \/ JobFaults(p) \/ FailureIsLost(p)
    <2>1. \/ Claim(at[p].run) \/ Settle(at[p].run, "completed") \/ Retry(at[p].run)
          \/ JobFails(p) /\ Fail(at[p].run)
      BY <1>1, <1>4, <1>6
         DEF JobStep, JobClaims, JobNotClaimed, JobReads, JobLearns, JobOvertaken, JobFails,
             JobChecks, JobRetries, JobGivesUp, JobFaults, FailureIsLost, sessionVars, tables
    <2> QED
      BY <1>3, <2>1 DEF Claim, Settle, Retry, Fail, JobFails
  <1>7. CASE p \in Handlers
    BY <1>2, <1>5, <1>6, <1>7, ActorAssumption
       DEF Acts, ActorStep, HandlerStep, Drains, Begins, Says, Answers, TurnRefused, Notes,
           NoteRefused, HandsOver, HandoverRefused, HandlerBreaks, Arrives, Idle, JobSteps
  <1>8. CASE p \notin Handlers
    BY <1>2, <1>5, <1>6, <1>8
       DEF Acts, ActorStep, BootStep, BootDrains, BootEnds, JobSteps
  <1> QED
    BY <1>7, <1>8

\* The actor that moved.
LEMMA WorkerInForce ==
    ASSUME Background, InOrder, Undisturbed, faults' = faults, Grows,
           NEW p \in Actors \ Closers, Acts(p),
           at'[p].step \in {"read", "call", "fail"}
    PROVE  InForce(p)'
  <1> DEFINE n == at[p].run
  <1>0. /\ MemoryTypeOK /\ at[p] \in ActorRow /\ at \in [Actors -> ActorRow]
        /\ runs \in [DOMAIN runs -> RunRow] /\ faults \in Nat
        /\ at[p].step \in {"read", "call"} => at[p].job \in Exchange
    BY DEF Background, MemoryInv, MemoryTypeOK, SessionsTypeOK, Table
  <1>r. \A row : Becomes(p, row) => at'[p] = row
    BY <1>0 DEF Becomes
  <1>1. CASE JobClaims(p)
    <2>1. Claim(n) /\ at'[p] = [at[p] EXCEPT !.step = "read", !.job = ExchangeOf(n)]
      BY <1>r, <1>1 DEF JobClaims
    <2>2. /\ at'[p].run = n /\ at'[p].step = "read" /\ at'[p].job = ExchangeOf(n)
      BY <1>0, <2>1 DEF ActorRow
    <2>3. /\ n \in DOMAIN runs' /\ runs'[n].status = "processing"
          /\ runs'[n].session = runs[n].session /\ runs'[n].turn = runs[n].turn
      BY <1>0, <2>1 DEF Claim, Fresh, Move, RunRow
    <2> QED
      BY <2>2, <2>3 DEF InForce, ExchangeOf
  <1>2. CASE JobReads(p)
    <2>0. InForce(p) /\ UNCHANGED <<runs, turn>> /\ at[p].step = "read"
      BY <1>2 DEF InOrder, JobReads, sessionVars, tables
    <2>1. CASE HasExchange(at[p].job.session, at[p].job.turn)
      <3>1. at'[p] = [at[p] EXCEPT !.step = "call", !.job.read = profile.epoch]
        BY <1>r, <1>2, <2>1 DEF JobReads
      <3>2. /\ at'[p].run = n /\ at'[p].step = "call"
            /\ at'[p].job.session = at[p].job.session /\ at'[p].job.turn = at[p].job.turn
        BY <1>0, <2>0, <3>1 DEF ActorRow, Exchange
      <3> QED
        BY <2>0, <3>2 DEF InForce
    <2>2. CASE ~HasExchange(at[p].job.session, at[p].job.turn)
      <3>1. at'[p] = [at[p] EXCEPT !.step = "fail", !.job = Nothing]
        BY <1>r, <1>2, <2>2 DEF JobReads, Errs
      <3>2. at'[p].run = n /\ at'[p].step = "fail"
        BY <1>0, <3>1 DEF ActorRow
      <3>3. PICK s, t : s = runs[n].session /\ t = runs[n].turn
        OBVIOUS
      <3>4. ~HasExchange(s, t)
        BY <2>0, <2>2, <3>3 DEF InForce
      <3>5. ~HasExchange(s, t)'
        BY <2>0, <3>4 DEF HasExchange, TurnsOf, TurnAfter
      <3>6. runs'[n].session = s /\ runs'[n].turn = t
        BY <2>0, <3>3
      <3> QED
        BY <2>0, <3>2, <3>5, <3>6 DEF InForce
    <2> QED
      BY <2>1, <2>2
  <1>3. ~JobOvertaken(p)
    BY AllCurrent DEF JobOvertaken, InOrder, InForce
  <1>4. ~JobFaults(p) /\ ~FailureIsLost(p)
    BY <1>0 DEF JobFaults, FailureIsLost, Fault
  <1>5. CASE ListStep(p)
    BY <1>0, <1>5, ListLeads
  <1>6. CASE JobLearns(p)
    BY <1>0, <1>r, <1>6 DEF JobLearns, ActorRow
  <1>7. CASE JobNotClaimed(p) \/ JobFails(p) \/ JobChecks(p) \/ JobRetries(p)
    BY <1>0, <1>r, <1>7 DEF JobNotClaimed, JobFails, JobChecks, JobRetries, Go, ActorRow
  <1>8. CASE JobGivesUp(p)
    BY <1>0, <1>8, GiveUpLeads
  <1>9. CASE HandlerStep(p) \/ HandlerBreaks(p) \/ \E l \in LaneIds : Arrives(p, l)
    <2>1. CASE Ends(p)
      BY <1>r, <2>1 DEF Ends, Quiet
    <2>2. CASE Drains(p) \/ HandsOver(p)
      BY ZenonT(30), <1>r, <2>2 DEF Drains, HandsOver, Works, Lists, Quiet
    <2>3. CASE Begins(p) \/ Says(p)
      BY <1>0, <1>r, <2>3 DEF Begins, Says, ActorRow
    <2>4. CASE Notes(p) \/ Answers(p)
      BY <1>0, <1>r, <2>4 DEF Notes, Answers, Go, ActorRow
    <2>5. CASE \E l \in LaneIds : Arrives(p, l)
      BY <1>r, <2>5 DEF Arrives, Quiet
    <2> QED
      BY <1>9, <2>1, <2>2, <2>3, <2>4, <2>5
         DEF HandlerStep, TurnRefused, NoteRefused, HandoverRefused, HandlerBreaks
  <1>10. CASE p = Boot /\ BootStep
    <2>1. Ends(p) \/ \E l : Becomes(p, Lists(l, "boot", RunsOfLane(l)))
      BY <1>10 DEF BootStep, BootDrains, BootEnds
    <2>2. \A l : Lists(l, "boot", RunsOfLane(l)).step = "next"
      BY DEF Lists, Quiet
    <2>3. Quiet.step = "idle"
      BY DEF Quiet
    <2>4. at'[p].step \in {"idle", "next"}
      BY <1>r, <2>1, <2>2, <2>3 DEF Ends
    <2> QED
      BY <2>4
  <1>11. CASE JobStep(p)
    BY <1>1, <1>2, <1>3, <1>6, <1>7, <1>8, <1>11 DEF JobStep
  <1> QED
    BY <1>4, <1>5, <1>9, <1>10, <1>11 DEF Acts, ActorStep

LEMMA InOrderActs ==
    ASSUME Background, SessionsTypeOK', InOrder, NEW p \in Actors, Acts(p)
    PROVE  InOrder'
  <1> SUFFICES ASSUME Undisturbed'
               PROVE  InOrder'
    BY DEF InOrder
  <1>0. MemoryTypeOK /\ SessionsTypeOK /\ runs \in [DOMAIN runs -> RunRow]
    BY DEF Background, MemoryInv, MemoryTypeOK, SessionsTypeOK, Table
  <1>1. Undisturbed /\ p \in Actors \ Closers /\ faults' = faults
    BY StaysUndisturbed
  <1>2. Noted /\ (\A c \in Closers : Idle(c))
        /\ (\A q \in Actors : at[q].step \in {"read", "call", "fail"} => InForce(q))
        /\ \A r \in DOMAIN runs : runs[r].status = "failed" =>
              ~HasExchange(runs[r].session, runs[r].turn)
    BY <1>1 DEF InOrder
  <1>3. [MemoryNext]_memoryVars
    BY DEF Acts, MemoryNext, OwnerStep, Trouble
  <1>4. Grows
    BY <1>0, <1>3, StepIsTransaction, TransactionGrows
  <1>5. TurnsGrow
    BY <1>1, OnlyAppends
  <1>6. Noted'
    BY <1>1, <1>2, <1>4, <1>5, NotedStep
  <1>7. \A c \in Closers : Idle(c)'
    BY <1>0, <1>1, <1>2, OthersStay DEF Idle, Actors
  <1>8. ASSUME NEW r \in DOMAIN runs, ~HasExchange(runs[r].session, runs[r].turn)
        PROVE  ~HasExchange(runs[r].session, runs[r].turn)'
    <2>1. PICK s, t : s = runs[r].session /\ t = runs[r].turn
      OBVIOUS
    <2>2. Followed(s, t) /\ ~HasExchange(s, t)
      BY <1>2, <1>8, <2>1 DEF Noted
    <2>3. ~HasExchange(s, t)'
      BY <1>0, <1>5, <2>2, ExchangeIsOld
    <2>4. runs'[r].session = s /\ runs'[r].turn = t
      BY <1>4, <2>1 DEF Grows
    <2> QED
      BY <2>3, <2>4
  <1>9. ASSUME NEW q \in Actors, at'[q].step \in {"read", "call", "fail"}
        PROVE  InForce(q)'
    <2>1. CASE q = p
      BY <1>1, <1>4, <1>9, <2>1, WorkerInForce
    <2>2. CASE q # p
      <3>1. at'[q] = at[q]
        BY <1>0, <2>2, OthersStay
      <3>2. at[q].step \in {"read", "call", "fail"} /\ InForce(q)
        BY <1>2, <1>9, <3>1
      <3>3. q \in lock
        BY <1>2, <3>2 DEF Background, MemoryInv, LockHeld, Idle, JobSteps
      <3>4. at[p].step \notin JobSteps
        BY <1>1, <2>2, <3>3 DEF Background, MemoryInv, LockHeld
      <3>5. PICK n \in DOMAIN runs : n = at[q].run
        BY <3>2 DEF InForce
      <3>6. n \in DOMAIN runs' /\ runs'[n] = runs[n] /\ at'[q].run = n
        BY <1>1, <1>4, <3>1, <3>4, <3>5, Uninvolved DEF Grows
      <3>7. at'[q].step = "fail" => ~HasExchange(runs[n].session, runs[n].turn)'
        BY <1>8, <3>1, <3>2, <3>5 DEF InForce
      <3> QED
        BY <3>1, <3>2, <3>5, <3>6, <3>7 DEF InForce
    <2> QED
      BY <2>1, <2>2
  <1>10. ASSUME NEW r \in DOMAIN runs', runs'[r].status = "failed"
         PROVE  ~HasExchange(runs[r].session, runs[r].turn)'
    <2>1. r \in DOMAIN runs
      BY <1>4, <1>10 DEF Grows
    <2>2. CASE runs[r].status = "failed"
      BY <1>2, <1>8, <2>1, <2>2
    <2>3. CASE runs[r].status # "failed"
      <3>1. at[p].step = "fail" /\ r = at[p].run
        BY <1>1, <1>10, <2>1, <2>3, FailsInForce
      <3>2. ~HasExchange(runs[r].session, runs[r].turn)
        BY <1>2, <3>1 DEF InForce
      <3> QED
        BY <1>8, <2>1, <3>2
    <2> QED
      BY <2>2, <2>3
  <1> QED
    BY <1>6, <1>7, <1>9, <1>10 DEF InOrder

LEMMA InOrderCrash ==
    ASSUME InOrder, Crashes
    PROVE  InOrder'
  <1>1. /\ \A p \in Actors : at'[p].step \in {"idle", "boot"}
        /\ \A p \in Actors \ {Boot} : at'[p].step = "idle"
    BY DEF Crashes, Quiet
  <1>2. UNCHANGED <<turn, runs, faults, closes>>
    BY DEF Crashes, sessionVars, tables
  <1>3. Boot \notin Closers /\ Closers \subseteq Actors /\ Handlers \subseteq Actors
    BY ActorAssumption DEF Actors
  <1> QED
    BY <1>1, <1>2, <1>3 DEF InOrder, Undisturbed, Idle, Noted, Followed, TurnsOf,
                            HasExchange, TurnAfter

LEMMA InOrderStep ==
    ASSUME Background, SessionsTypeOK', InOrder, [MemoryNext]_memoryVars
    PROVE  InOrder'
  <1>1. CASE UNCHANGED memoryVars
    BY SMTT(20), <1>1 DEF memoryVars, sessionVars, tables, counters, InOrder, Undisturbed, Idle,
                Noted, Followed, TurnsOf, HasExchange, TurnAfter, InForce
  <1> QED
    BY <1>1, SomebodyActs, InOrderActs, InOrderCrash

LEMMA InOrderInit == MemoryInit => InOrder
  <1> SUFFICES ASSUME MemoryInit PROVE InOrder
    OBVIOUS
  <1>1. DOMAIN runs = {} /\ \A p \in Actors : at[p].step = "idle"
    BY DEF MemoryInit, SessionInit, Nothing, Quiet
  <1>2. Closers \subseteq Actors /\ Handlers \subseteq Actors
    BY DEF Actors
  <1> QED
    BY <1>1, <1>2 DEF InOrder, Idle, Noted

\* Without a failure and a close only a run whose user turn is not followed by its
\* answer uses up its budget, whatever crashes and whoever recovers its claim.
THEOREM ExhaustionHasCause == MemorySpec => []ExhaustedHasCause
  <1>1. Background /\ Background' /\ InOrder /\ [MemoryNext]_memoryVars => InOrder'
    BY InOrderStep DEF Background, MemoryInv, MemoryTypeOK
  <1>2. InOrder => ExhaustedHasCause
    BY DEF InOrder, Undisturbed, ExhaustedHasCause, Exhausted
  <1> QED
    BY <1>1, <1>2, InOrderInit, BackgroundHolds, PTL DEF MemorySpec

-----------------------------------------------------------------------------
(* A used-up budget stays used up *)

\* Without a close an actor about to put a run back still sees what it saw.
ChecksHold ==
    closes = 0 =>
        /\ \A c \in Closers : Idle(c)
        /\ \A p \in Actors : at[p].step = "retry" => Retriable(at[p].run)

LEMMA ChecksHoldActs ==
    ASSUME Background, ChecksHold, NEW p \in Actors, Acts(p)
    PROVE  ChecksHold'
  <1> SUFFICES ASSUME closes' = 0 PROVE ChecksHold'
    BY DEF ChecksHold
  <1>0. MemoryTypeOK
    BY DEF Background, MemoryInv
  <1>1. [MemoryNext]_memoryVars
    BY DEF Acts, MemoryNext, OwnerStep, Trouble
  <1>2. closes = 0 /\ closes' = closes
    BY <1>1, CountersStep DEF Background
  <1>3. p \notin Closers
    BY <1>2, IdleClosers DEF ChecksHold
  <1>4. \A c \in Closers : Idle(c)'
    BY <1>0, <1>2, <1>3, OthersStay DEF ChecksHold, Idle, Actors
  <1>5. Grows
    BY <1>0, <1>1, StepIsTransaction, TransactionGrows DEF MemoryTypeOK
  <1>6. ASSUME NEW q \in Actors, at'[q].step = "retry"
        PROVE  Retriable(at[q].run)'
    <2>1. CASE q = p
      BY <1>0, <1>6, <2>1, RetryFollowsCheck DEF Retriable
    <2>2. CASE q # p
      <3>1. at'[q] = at[q] /\ Retriable(at[q].run)
        BY <1>0, <1>2, <1>6, <2>2, OthersStay DEF ChecksHold
      <3>2. q \in lock
        BY <1>2, <1>6, <3>1 DEF ChecksHold, Background, MemoryInv, LockHeld, Idle, JobSteps
      <3>3. at[p].step \notin JobSteps
        BY <1>3, <2>2, <3>2 DEF Background, MemoryInv, LockHeld
      <3>4. \A r \in DOMAIN runs : r \in DOMAIN runs' /\ runs'[r] = runs[r]
        BY <1>3, <1>5, <3>3, Uninvolved DEF Grows
      <3> QED
        BY <3>1, <3>4 DEF Retriable
    <2> QED
      BY <2>1, <2>2
  <1> QED
    BY <1>4, <1>6 DEF ChecksHold

LEMMA ChecksHoldStep ==
    ASSUME Background, ChecksHold, [MemoryNext]_memoryVars
    PROVE  ChecksHold'
  <1>1. CASE UNCHANGED memoryVars
    BY <1>1 DEF memoryVars, sessionVars, tables, counters, ChecksHold, Idle, Retriable
  <1>2. CASE Crashes
    <2>1. /\ \A p \in Actors : at'[p].step \in {"idle", "boot"}
          /\ \A p \in Actors \ {Boot} : at'[p].step = "idle"
      BY <1>2 DEF Crashes, Quiet
    <2>2. Boot \notin Closers /\ Closers \subseteq Actors
      BY ActorAssumption DEF Actors
    <2> QED
      BY <2>1, <2>2 DEF ChecksHold, Idle
  <1> QED
    BY <1>1, <1>2, SomebodyActs, ChecksHoldActs

LEMMA BudgetStep ==
    ASSUME Background, ChecksHold, [MemoryNext]_memoryVars, closes = 0,
           NEW r \in DOMAIN runs, Exhausted(r)
    PROVE  r \in DOMAIN runs' /\ Exhausted(r)'
  <1>1. CASE UNCHANGED runs
    BY <1>1 DEF Exhausted
  <1>2. ASSUME NEW p \in Actors, Acts(p)
        PROVE  r \in DOMAIN runs' /\ runs'[r] = runs[r]
    <2>1. Grows
      BY StepIsTransaction, TransactionGrows DEF Background, MemoryInv, MemoryTypeOK
    <2>2. runs[r].attempt \in Nat /\ MaxAttempts \in Nat
      BY ActorAssumption
         DEF Background, MemoryInv, MemoryTypeOK, SessionsTypeOK, Table, RunRow
    <2>3. ~Retrying(p, r)
      BY <2>2 DEF ChecksHold, Retrying, Retriable, Exhausted
    <2> QED
      BY <1>2, <2>1, <2>3, UsedUpStays DEF Grows
  <1> QED
    BY <1>1, <1>2, SomebodyActs DEF Crashes, memoryVars, sessionVars, tables, Exhausted

\* Without a close nobody takes up a run again whose budget is used up, although the
\* transaction that would does not look at the budget.
THEOREM BudgetIsFinal == MemorySpec => ExhaustedStays
  <1>1. MemoryInit => ChecksHold
    <2> SUFFICES ASSUME MemoryInit PROVE ChecksHold
      OBVIOUS
    <2>1. \A p \in Actors : at[p].step = "idle"
      BY DEF MemoryInit, Quiet
    <2> QED
      BY <2>1 DEF ChecksHold, Idle, Actors
  <1>2. Background /\ ChecksHold /\ [MemoryNext]_memoryVars => ChecksHold'
    BY ChecksHoldStep
  <1>3. Background /\ ChecksHold /\ [MemoryNext]_memoryVars
        => [closes = 0 =>
              \A r \in DOMAIN runs : Exhausted(r) =>
                  r \in DOMAIN runs' /\ Exhausted(r)']_memoryVars
    BY BudgetStep
  <1> QED
    BY <1>1, <1>2, <1>3, BackgroundHolds, PTL DEF MemorySpec, ExhaustedStays
=============================================================================
