---------------------------- MODULE SessionMemory ----------------------------
(***************************************************************************)
(* Who works on the session tables: the message handlers                   *)
(* (TelegramApplicationService.handle), the confirmed /new                 *)
(* (_execute_confirmed_close and finalize), the recovery at start-up       *)
(* (recover_for_user), and the extraction job they all run                 *)
(* (MemoryExtractionService.process_with_retry).                           *)
(*                                                                         *)
(* Every database access is one step, and so is every wait for a provider  *)
(* or for Telegram together with the access that follows it.  Jobs run in  *)
(* worker threads: the coordinator's hold its lock, the finalizer's do     *)
(* not.  The handlers of several updates run concurrently on the event     *)
(* loop and interleave where they await.  No command calls reset(), so it  *)
(* is no part of this module.                                              *)
(***************************************************************************)
EXTENDS SessionStore

CONSTANTS
    MaxAttempts,   \* the budget of an extraction run
    Handlers,      \* bound: updates handled at the same time
    Closers,       \* bound: /new confirmations handled at the same time
    Boot,          \* recover_for_user
    MaxMessages,   \* bound: messages the owner sends
    MaxCloses,     \* bound: /new commands the owner confirms
    MaxFaults,     \* bound: failures of a provider, of a delivery or of a write
    MaxCrashes     \* bound: crashes of the process

ASSUME ActorAssumption ==
    /\ MaxAttempts \in Nat \ {0}
    /\ Boot \notin Handlers \cup Closers
    /\ Handlers \cap Closers = {}
    /\ MaxMessages \in Nat /\ MaxCloses \in Nat
    /\ MaxFaults \in Nat /\ MaxCrashes \in Nat

VARIABLES
    at,        \* at[p]: where actor p is and what it remembers
    lock,      \* the actors that hold the coordinator's lock: at most one
    sent,      \* messages sent so far
    closes,    \* confirmations of /new so far
    faults,    \* failures so far
    crashes    \* crashes so far

Actors == Handlers \cup Closers \cup {Boot}
counters == <<sent, closes, faults, crashes>>
memoryVars == <<sessionVars, at, lock, counters>>

JobSteps     == {"next", "claim", "read", "call", "fail", "again", "check", "retry"}
HandlerSteps == {"drain", "begin", "say", "ask", "note", "deliver"}
CloserSteps  == {"open", "turns", "list", "gate", "commit"}
Steps == {"idle", "boot"} \cup JobSteps \cup HandlerSteps \cup CloserSteps

\* What a list of runs is worked off for, and so what follows it.
Purposes == {"none", "drain", "after", "close", "boot"}

Snapshot == [status : RunStatuses, spent : BOOLEAN]
Exchange == [session : SessionIds, turn : TurnIds, read : Epochs]
Todo     == UNION {[R -> Snapshot] : R \in SUBSET RunIds}

ActorRow == [step : Steps, for : Purposes, lane : LaneIds \cup {0},
             session : SessionIds \cup {0}, turn : TurnIds \cup {0},
             run : RunIds \cup {0}, todo : Todo, job : {Nothing} \cup Exchange,
             seen : SUBSET TurnIds, read : Epochs \cup {0}]

MemoryTypeOK ==
    /\ SessionsTypeOK
    /\ at \in [Actors -> ActorRow]
    /\ \A p \in Actors : at[p].step \in {"read", "call"} => at[p].job \in Exchange
    /\ lock \subseteq Actors

Quiet == [step |-> "idle", for |-> "none", lane |-> 0, session |-> 0, turn |-> 0,
          run |-> 0, todo |-> Nothing, job |-> Nothing, seen |-> {}, read |-> 0]

MemoryInit ==
    /\ SessionInit
    /\ at = [p \in Actors |-> Quiet]
    /\ lock = {}
    /\ sent = 0 /\ closes = 0 /\ faults = 0 /\ crashes = 0

Idle(p)  == at[p].step = "idle"
Becomes(p, row) == at' = [at EXCEPT ![p] = row]
Go(p, step) == Becomes(p, [at[p] EXCEPT !.step = step])
Ends(p) == Becomes(p, Quiet)

-----------------------------------------------------------------------------
(* The lock and the lists of runs *)

SnapshotOf(R) ==
    [r \in R |-> [status |-> runs[r].status, spent |-> runs[r].attempt >= MaxAttempts]]
RunsOfLane(l) == {r \in DOMAIN runs : session[runs[r].session].lane = l}

\* Where an actor is that has listed the runs R for a purpose.
Lists(l, purpose, R) ==
    [Quiet EXCEPT !.step = "next", !.for = purpose, !.lane = l, !.todo = SnapshotOf(R)]

\* Fault: the lock is not waited for.
Works_NoLock(p, purpose, R) ==
    /\ lock' = lock \cup {p}
    /\ Becomes(p, Lists(at[p].lane, purpose, R))

\* A coordinator method takes the lock and lists the runs R.
Works(p, purpose, R) ==
    /\ lock = {}
    /\ lock' = {p}
    /\ Becomes(p, Lists(at[p].lane, purpose, R))

Cleared(p, step) == [at[p] EXCEPT !.step = step, !.for = "none", !.run = 0,
                                  !.todo = Nothing, !.job = Nothing]

\* Where an actor goes on after its list.
Returned(p) ==
    CASE at[p].for = "drain" -> Cleared(p, "begin")
      [] at[p].for = "boot"  -> Cleared(p, "boot")
      [] at[p].for = "close" -> Cleared(p, "gate")
      [] OTHER               -> Quiet

\* Fault: an exception leaves the lock taken.
Raises_Locked(p) ==
    /\ UNCHANGED lock
    /\ Becomes(p, IF at[p].for = "close" THEN Quiet ELSE Returned(p))

\* An exception leaves the list where it is and the lock is given back.  Handler
\* and start-up swallow it and go on; the finalizer passes it on and the close
\* fails.
Raises(p) ==
    /\ lock' = lock \ {p}
    /\ Becomes(p, IF at[p].for = "close" THEN Quiet ELSE Returned(p))

Coordinator(p) == at[p].for \in {"drain", "after", "boot"}

\* The lists are worked off in the order of the run ids.
NextRun(p, r) ==
    /\ at[p].step = "next"
    /\ r \in DOMAIN at[p].todo
    /\ \A q \in DOMAIN at[p].todo : r <= q

Row(p, r) == at[p].todo[r]
Rest(p, r) == Without(at[p].todo, {r})

\* Nothing to do: the run is settled, or a drain finds its budget used up.
Skippable(p, r) ==
    \/ Row(p, r).status \in {"completed", "discarded"}
    \/ /\ at[p].for \in {"drain", "boot"}
       /\ Row(p, r).status = "failed"
       /\ Row(p, r).spent

SkipRun(p, r) ==
    /\ NextRun(p, r)
    /\ Skippable(p, r)
    /\ Becomes(p, [at[p] EXCEPT !.todo = Rest(p, r)])
    /\ UNCHANGED <<sessionVars, lock, counters>>

Takes(p, r, step) ==
    /\ Becomes(p, [at[p] EXCEPT !.step = step, !.run = r, !.todo = Rest(p, r)])
    /\ UNCHANGED <<lock, counters>>

\* Fault: a claim is left to whoever holds it.
MayRecover_Never(p) == FALSE

\* The coordinator takes a claim it finds for orphaned, because its lock keeps
\* other coordinator calls out; the finalizer does not.
MayRecover(p) == Coordinator(p)

\* The run as the list showed it: pending, failed and to be retried, or
\* processing and to be recovered.  What process_after_delivery reads again after
\* a recovery decides nothing: whatever it finds, the claim finds it as well.
TakeRun(p, r) ==
    /\ NextRun(p, r)
    /\ ~Skippable(p, r)
    /\ \/ Row(p, r).status = "pending" /\ Takes(p, r, "claim") /\ UNCHANGED sessionVars
       \/ Row(p, r).status = "failed" /\ Takes(p, r, "check") /\ UNCHANGED sessionVars
       \/ /\ Row(p, r).status = "processing" /\ MayRecover(p)
          /\ Recover(r) /\ Takes(p, r, "claim")

\* A claim that was settled before it is recovered, or that the finalizer meets.
RunRefused(p, r) ==
    /\ NextRun(p, r)
    /\ Row(p, r).status = "processing"
    /\ ~(MayRecover(p) /\ Fresh(r, "processing"))
    /\ Raises(p)
    /\ UNCHANGED <<sessionVars, counters>>

ListDone(p) ==
    /\ at[p].step = "next"
    /\ DOMAIN at[p].todo = {}
    /\ lock' = lock \ {p}
    /\ Becomes(p, Returned(p))
    /\ UNCHANGED <<sessionVars, counters>>

ListStep(p) ==
    \/ \E r \in RunIds : SkipRun(p, r) \/ TakeRun(p, r) \/ RunRefused(p, r)
    \/ ListDone(p)

-----------------------------------------------------------------------------
(* The job: process, inside process_with_retry *)

\* The job's handler of exceptions.
Errs(p) == Becomes(p, [at[p] EXCEPT !.step = "fail", !.job = Nothing])

ExchangeOf(r) ==
    [session |-> runs[r].session, turn |-> runs[r].turn, read |-> profile.epoch]

JobClaims(p) ==
    /\ at[p].step = "claim"
    /\ Claim(at[p].run)
    /\ Becomes(p, [at[p] EXCEPT !.step = "read", !.job = ExchangeOf(at[p].run)])
    /\ UNCHANGED <<lock, counters>>

JobNotClaimed(p) ==
    /\ at[p].step = "claim"
    /\ ~Fresh(at[p].run, "pending")
    /\ Go(p, "again")
    /\ UNCHANGED <<sessionVars, lock, counters>>

\* The turn that follows directly.
TurnAfter(t) ==
    {a \in TurnsOf(turn[t].session) :
        /\ turn[a].seq > turn[t].seq
        /\ \A b \in TurnsOf(turn[t].session) :
              turn[b].seq > turn[t].seq => turn[a].seq <= turn[b].seq}

\* extraction_exchange: a user turn whose next turn is an answer.
HasExchange(s, t) ==
    /\ t \in TurnsOf(s)
    /\ turn[t].role = "user"
    /\ \E a \in TurnAfter(t) : turn[a].role = "assistant"

\* The exchange goes to the provider; without one the job raises.
JobReads(p) ==
    /\ at[p].step = "read"
    /\ IF HasExchange(at[p].job.session, at[p].job.turn)
       THEN Becomes(p, [at[p] EXCEPT !.step = "call", !.job.read = profile.epoch])
       ELSE Errs(p)
    /\ UNCHANGED <<sessionVars, lock, counters>>

\* The provider's candidates are stored, or there are none.
JobLearns(p) ==
    /\ at[p].step = "call"
    /\ Activate(at[p].run, at[p].job) \/ Settle(at[p].run, "completed")
    /\ Becomes(p, [at[p] EXCEPT !.step = "next", !.run = 0, !.job = Nothing])
    /\ UNCHANGED <<lock, counters>>

\* activate_extraction refuses: the run is not processing, is of another epoch,
\* or is another exchange's by now.
JobOvertaken(p) ==
    /\ at[p].step = "call"
    /\ ~(/\ Fresh(at[p].run, "processing")
         /\ runs[at[p].run].session = at[p].job.session
         /\ runs[at[p].run].turn = at[p].job.turn)
    /\ Errs(p)
    /\ UNCHANGED <<sessionVars, lock, counters>>

Fault == faults < MaxFaults /\ faults' = faults + 1

\* The provider or the validation of its answer raises, or the write does.
JobFaults(p) ==
    /\ at[p].step = "call"
    /\ Fault
    /\ Errs(p)
    /\ UNCHANGED <<sessionVars, lock, sent, closes, crashes>>

\* fail_extraction_run; its refusal is ignored.
JobFails(p) ==
    /\ at[p].step = "fail"
    /\ \/ Fail(at[p].run)
       \/ ~Fresh(at[p].run, "processing") /\ UNCHANGED sessionVars
    /\ Go(p, "again")
    /\ UNCHANGED <<lock, counters>>

\* The write of the failure fails: the run stays claimed.
FailureIsLost(p) ==
    /\ at[p].step = "fail"
    /\ Fault
    /\ Go(p, "again")
    /\ UNCHANGED <<sessionVars, lock, sent, closes, crashes>>

\* Fault: the budget allows one attempt too many.
Retriable_OneMore(r) ==
    /\ r \in DOMAIN runs
    /\ runs[r].status = "failed"
    /\ runs[r].attempt <= MaxAttempts

Retriable(r) ==
    /\ r \in DOMAIN runs
    /\ runs[r].status = "failed"
    /\ runs[r].attempt < MaxAttempts

\* The budget is compared with a row that was read before: by process_with_retry
\* ("again") and once more by retry_extraction_run ("check").
JobChecks(p) ==
    /\ Retriable(at[p].run)
    /\ \/ at[p].step = "again" /\ Go(p, "check")
       \/ at[p].step = "check" /\ Go(p, "retry")
    /\ UNCHANGED <<sessionVars, lock, counters>>

JobRetries(p) ==
    /\ at[p].step = "retry"
    /\ Retry(at[p].run)
    /\ Go(p, "claim")
    /\ UNCHANGED <<lock, counters>>

JobGivesUp(p) ==
    /\ \/ at[p].step \in {"again", "check"} /\ ~Retriable(at[p].run)
       \/ at[p].step = "retry" /\ ~Fresh(at[p].run, "failed")
    /\ Raises(p)
    /\ UNCHANGED <<sessionVars, counters>>

JobStep(p) ==
    \/ JobClaims(p) \/ JobNotClaimed(p)
    \/ JobReads(p) \/ JobLearns(p) \/ JobOvertaken(p)
    \/ JobFails(p) \/ JobChecks(p) \/ JobRetries(p) \/ JobGivesUp(p)

-----------------------------------------------------------------------------
(* A message *)

\* The event loop runs one handler at a time between its awaits: in "say" and
\* "note" a handler has not awaited yet.
LoopFree(h) == \A g \in Handlers \ {h} : at[g].step \notin {"say", "note"}

\* route_message finds or creates the lane; polling starts after recovery.
Arrives(h, l) ==
    /\ Idle(h) /\ Idle(Boot) /\ LoopFree(h)
    /\ sent < MaxMessages
    /\ sent' = sent + 1
    /\ OpenLane(l) \/ (l \in lanes /\ UNCHANGED sessionVars)
    /\ Becomes(h, [Quiet EXCEPT !.step = "drain", !.lane = l])
    /\ UNCHANGED <<lock, closes, faults, crashes>>

Drains(h) ==
    /\ at[h].step = "drain"
    /\ Works(h, "drain", RunsOfLane(at[h].lane))
    /\ UNCHANGED <<sessionVars, counters>>

\* ensure_active_session
Begins(h) ==
    /\ at[h].step = "begin" /\ LoopFree(h)
    /\ \E s \in SessionIds :
        /\ \/ OpenSession(at[h].lane, s)
           \/ s \in ActiveOf(at[h].lane) /\ UNCHANGED sessionVars
        /\ Becomes(h, [at[h] EXCEPT !.step = "say", !.session = s])
    /\ UNCHANGED <<lock, counters>>

Says(h) ==
    /\ at[h].step = "say"
    /\ \E t \in TurnIds :
        /\ AppendTurn(at[h].session, "user", t)
        /\ Becomes(h, [at[h] EXCEPT !.step = "ask", !.turn = t])
    /\ UNCHANGED <<lock, counters>>

\* The provider answers and the answer is appended.
Answers(h) ==
    /\ at[h].step = "ask" /\ LoopFree(h)
    /\ \E t \in TurnIds : AppendTurn(at[h].session, "assistant", t)
    /\ Go(h, "note")
    /\ UNCHANGED <<lock, counters>>

\* The session closed meanwhile.
TurnRefused(h) ==
    /\ at[h].step \in {"say", "ask"} /\ LoopFree(h)
    /\ ~Active(at[h].session)
    /\ Ends(h)
    /\ UNCHANGED <<sessionVars, lock, counters>>

\* A status message, the provider or the final delivery raises.
HandlerBreaks(h) ==
    /\ at[h].step \in {"ask", "deliver"} /\ LoopFree(h)
    /\ Fault
    /\ Ends(h)
    /\ UNCHANGED <<sessionVars, lock, sent, closes, crashes>>

\* ensure_extraction_run creates the run or finds it.
Notes(h) ==
    /\ at[h].step = "note"
    /\ \E r \in RunIds :
        /\ \/ CreateRun(at[h].session, at[h].turn, r)
           \/ /\ MayEnsureRun(at[h].session, at[h].turn)
              /\ r \in RunOf(at[h].session, at[h].turn, profile.epoch)
              /\ UNCHANGED sessionVars
        /\ Becomes(h, [at[h] EXCEPT !.step = "deliver", !.run = r])
    /\ UNCHANGED <<lock, counters>>

NoteRefused(h) ==
    /\ at[h].step = "note"
    /\ ~MayEnsureRun(at[h].session, at[h].turn)
    /\ Ends(h)
    /\ UNCHANGED <<sessionVars, lock, counters>>

\* Whether process_after_delivery takes the run to be of the lane it is given:
\* the id it compares with the lane's is that of the session.
OfLane(h) ==
    /\ at[h].run \in DOMAIN runs
    /\ runs[at[h].run].session = at[h].lane

\* The answer is delivered and its run handed to the coordinator.
HandsOver(h) ==
    /\ at[h].step = "deliver"
    /\ OfLane(h)
    /\ Works(h, "after", {at[h].run})
    /\ UNCHANGED <<sessionVars, counters>>

HandoverRefused(h) ==
    /\ at[h].step = "deliver"
    /\ lock = {}
    /\ ~OfLane(h)
    /\ Ends(h)
    /\ UNCHANGED <<sessionVars, lock, counters>>

HandlerStep(h) ==
    \/ Drains(h) \/ Begins(h) \/ Says(h) \/ Answers(h) \/ TurnRefused(h)
    \/ Notes(h) \/ NoteRefused(h) \/ HandsOver(h) \/ HandoverRefused(h)

-----------------------------------------------------------------------------
(* /new *)

\* The confirmed session is still the lane's active one.
Confirmed(c) ==
    /\ Idle(c) /\ Idle(Boot)
    /\ \A g \in Handlers : at[g].step \notin {"say", "note"}
    /\ closes < MaxCloses
    /\ closes' = closes + 1
    /\ \E s \in DOMAIN session :
        /\ Active(s)
        /\ Becomes(c, [Quiet EXCEPT !.step = "open", !.session = s])
    /\ UNCHANGED <<sessionVars, lock, sent, faults, crashes>>

Loadable(s) == Active(s) /\ OwnerActive

\* finalize reads the session with the owner's epoch, then the turns, then the
\* runs, which it works off without the lock.
ReadsSession(c) ==
    /\ at[c].step = "open"
    /\ at[c].session \notin DOMAIN summary
    /\ Loadable(at[c].session)
    /\ Becomes(c, [at[c] EXCEPT !.step = "turns", !.read = profile.epoch])
    /\ UNCHANGED <<sessionVars, lock, counters>>

ReadsTurns(c) ==
    /\ at[c].step = "turns"
    /\ Becomes(c, [at[c] EXCEPT !.step = "list", !.seen = TurnsOf(at[c].session)])
    /\ UNCHANGED <<sessionVars, lock, counters>>

ListsRuns(c) ==
    /\ at[c].step = "list"
    /\ Becomes(c, [at[c] EXCEPT !.step = "next", !.for = "close",
                                !.todo = SnapshotOf(RunsOf(at[c].session))])
    /\ UNCHANGED <<sessionVars, lock, counters>>

PassesGate(c) ==
    /\ at[c].step = "gate"
    /\ GateOpen(at[c].session)
    /\ Go(c, "commit")
    /\ UNCHANGED <<sessionVars, lock, counters>>

\* The summary is there, and the session is closed with it.
Commits(c) ==
    /\ at[c].step = "commit"
    /\ Close(at[c].session, at[c].seen, at[c].read)
    /\ Ends(c)
    /\ UNCHANGED <<lock, counters>>

\* There is a summary already, the gate is shut, or what was read changed.
CloseEnds(c) ==
    /\ \/ /\ at[c].step = "open"
          /\ at[c].session \in DOMAIN summary \/ ~Loadable(at[c].session)
       \/ at[c].step = "gate" /\ ~GateOpen(at[c].session)
       \/ /\ at[c].step = "commit"
          /\ \/ at[c].session \in DOMAIN summary
             \/ ~Unchanged(at[c].session, at[c].seen, at[c].read)
             \/ ~GateOpen(at[c].session)
    /\ Ends(c)
    /\ UNCHANGED <<sessionVars, lock, counters>>

\* The summary's provider raises.
CloseBreaks(c) ==
    /\ at[c].step = "commit"
    /\ Ends(c)
    /\ UNCHANGED <<sessionVars, lock, counters>>

CloserStep(c) ==
    \/ ReadsSession(c) \/ ReadsTurns(c) \/ ListsRuns(c)
    \/ PassesGate(c) \/ Commits(c) \/ CloseEnds(c)

-----------------------------------------------------------------------------
(* Start-up and crashes *)

LanesWithRuns == {session[runs[r].session].lane : r \in DOMAIN runs}

\* recover_for_user drains the lanes in order before the bot polls.
BootDrains ==
    /\ at[Boot].step = "boot"
    /\ \E l \in LanesWithRuns :
        /\ l > at[Boot].lane
        /\ \A m \in LanesWithRuns : m > at[Boot].lane => l <= m
        /\ lock = {}
        /\ lock' = {Boot}
        /\ Becomes(Boot, Lists(l, "boot", RunsOfLane(l)))
    /\ UNCHANGED <<sessionVars, counters>>

BootEnds ==
    /\ at[Boot].step = "boot"
    /\ \A l \in LanesWithRuns : l <= at[Boot].lane
    /\ Ends(Boot)
    /\ UNCHANGED <<sessionVars, lock, counters>>

BootStep == BootDrains \/ BootEnds

\* Fault: the claims a crash cuts off get a new budget.
Crashes_NewBudget ==
    /\ crashes < MaxCrashes
    /\ crashes' = crashes + 1
    /\ at' = [p \in Actors |-> IF p = Boot THEN [Quiet EXCEPT !.step = "boot"] ELSE Quiet]
    /\ lock' = {}
    /\ runs' = [r \in DOMAIN runs |->
                  IF runs[r].status = "processing"
                  THEN [runs[r] EXCEPT !.status = "pending", !.attempt = 0]
                  ELSE runs[r]]
    /\ UNCHANGED <<profile, reset, lanes, session, turn, summary, memory>>
    /\ UNCHANGED <<sent, closes, faults>>

\* The process dies at any point and starts again.
Crashes ==
    /\ crashes < MaxCrashes
    /\ crashes' = crashes + 1
    /\ at' = [p \in Actors |-> IF p = Boot THEN [Quiet EXCEPT !.step = "boot"] ELSE Quiet]
    /\ lock' = {}
    /\ UNCHANGED <<sessionVars, sent, closes, faults>>

ActorStep(p) ==
    \/ ListStep(p) \/ JobStep(p)
    \/ p \in Handlers /\ HandlerStep(p)
    \/ p \in Closers /\ CloserStep(p)
    \/ p = Boot /\ BootStep

OwnerStep ==
    \/ \E h \in Handlers, l \in LaneIds : Arrives(h, l)
    \/ \E c \in Closers : Confirmed(c)

Trouble ==
    \/ \E p \in Actors : JobFaults(p) \/ FailureIsLost(p)
    \/ \E h \in Handlers : HandlerBreaks(h)
    \/ \E c \in Closers : CloseBreaks(c)
    \/ Crashes

MemoryNext == (\E p \in Actors : ActorStep(p)) \/ OwnerStep \/ Trouble

MemorySpec == MemoryInit /\ [][MemoryNext]_memoryVars

\* Threads and handlers go on; a provider's request ends, if only by its timeout.
LiveMemorySpec == MemorySpec /\ \A p \in Actors : WF_memoryVars(ActorStep(p))

-----------------------------------------------------------------------------
(* Properties *)

\* Handlers, closes, start-up and crashes use the tables only as the transactions
\* of SessionStore allow: what is proved there holds here.
KeepsSessionContract == SessionSpec

Working(p, r) == at[p].step \in {"read", "call", "fail"} /\ at[p].run = r

\* One run is worked on by two actors only if the finalizer is one of them.
SoleWorker ==
    \A p, q \in Actors \ Closers, r \in RunIds :
        Working(p, r) /\ Working(q, r) => p = q

\* When nobody is at work, no run is left claimed: claims cut off by a crash
\* were recovered.  A write that failed, or a run of the lane that cannot be
\* worked off any more, may keep one until the next message.
QuietMeansReleased ==
    /\ \A p \in Actors : Idle(p)
    /\ faults = 0
    /\ \A r \in DOMAIN runs : runs[r].status # "failed"
    => \A r \in DOMAIN runs : runs[r].status # "processing"

Exhausted(r) == runs[r].status = "failed" /\ runs[r].attempt >= MaxAttempts

\* The budget of a run is used up by failures of the extraction.  Without any,
\* only a run whose user turn is not followed by its answer uses it up, and one
\* that the finalizer worked on together with the coordinator.
ExhaustedHasCause ==
    faults = 0 /\ closes = 0 =>
        \A r \in DOMAIN runs : Exhausted(r) => ~HasExchange(runs[r].session, runs[r].turn)

\* A run whose budget is used up stays so: nobody takes it up again with a budget
\* read before.  The finalizer, which works without the lock, may: hence no close.
ExhaustedStays ==
    [][closes = 0 =>
          \A r \in DOMAIN runs : Exhausted(r) =>
              r \in DOMAIN runs' /\ Exhausted(r)']_memoryVars

\* As long as no extraction fails, no budget is used up.
OnlyFailuresExhaust == faults = 0 => \A r \in DOMAIN runs : ~Exhausted(r)

\* Once the owner sends nothing more, everybody ends: nobody waits for the lock
\* for ever, and no job retries for ever.
ComesToRest == <>[](\A p \in Actors : Idle(p))

\* An answer that was delivered is learned from after its delivery: when nobody
\* is at work and nothing went wrong, no run is left for a later message.
WorkedAfterDelivery ==
    faults = 0 /\ crashes = 0 /\ (\A p \in Actors : Idle(p)) =>
        \A r \in DOMAIN runs : runs[r].status # "pending"
=============================================================================
