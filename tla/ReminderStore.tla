---------------------------- MODULE ReminderStore ----------------------------
(***************************************************************************)
(* SQLiteReminderStore: the tables task, reminder_job, reminder_run and    *)
(* delivery_outbox of one owner.  Every public method that writes is one   *)
(* BEGIN IMMEDIATE transaction, so every method is one action.  A branch   *)
(* that raises rolls back, and one that returns the existing row writes    *)
(* nothing: both are the absence of a step.                                *)
(*                                                                         *)
(* A task has exactly one job, created with it, so both have the task's    *)
(* id.  A run is named by its unique key (job_id, scheduled_for), and its  *)
(* outbox row, inserted with it, has the same name.                        *)
(*                                                                         *)
(* The callers here are the most general ones: any lease ever handed out   *)
(* may be marked sent or released, any number of times and at any moment.  *)
(* ReminderDelivery narrows them to the worker loop of the program.        *)
(***************************************************************************)
EXTENDS OwnerLifecycle, Sequences, FiniteSets

CONSTANTS
    Plans,           \* what a parsed draft may ask for, see PlanType
    ActionTokens,    \* confirmation tokens of snooze buttons
    MaxTime,         \* bound: the clock stops here
    MaxTasks,        \* bound: ids of tasks are 1..MaxTasks
    LeaseSeconds,    \* DEFAULT_LEASE_SECONDS
    RetryDelay,      \* retry_delay_seconds of the worker
    SnoozeDelay,     \* _SNOOZE_SECONDS
    MaxAttempts,     \* MAX_DELIVERY_ATTEMPTS
    PollLimit,       \* the limit of materialize_due
    Unresolvable,    \* stands for LocalTimeResolutionError
    None             \* SQL NULL

\* A reminder as the draft stores it.  occ are the UTC instants its recurrence
\* rule gives, in order; an instant the time zone does not define, or defines
\* twice, is Unresolvable.  After the last of them the rule ends, or the search
\* for another raises.  The quiet window is [from, to), empty when quiet hours
\* are off or the reminder is urgent; its end resolves or does not.
PlanType == [occ   : Seq(Nat \cup {Unresolvable}),
             last  : {"ends", "raises"},
             grace : Nat \ {0},
             quiet : [from : Nat, to : Nat, resolves : BOOLEAN]]

ASSUME PlanAssumption ==
    /\ Plans \subseteq PlanType
    /\ \A p \in Plans : p.last = "raises" => p.occ # << >>
    /\ \A p \in Plans : \A m, n \in DOMAIN p.occ :
          m < n /\ p.occ[m] # Unresolvable /\ p.occ[n] # Unresolvable
             => p.occ[m] < p.occ[n]
ASSUME BoundAssumption ==
    MaxTime \in Nat /\ MaxTasks \in Nat
ASSUME PolicyAssumption ==
    /\ LeaseSeconds \in Nat \ {0}
    /\ RetryDelay \in Nat \ {0}
    /\ SnoozeDelay \in Nat \ {0}
    /\ MaxAttempts \in Nat \ {0}
    /\ PollLimit \in Nat \ {0}
ASSUME NullAssumption ==
    None \notin Nat /\ Unresolvable \notin Nat /\ None \notin ActionTokens

VARIABLES
    now,      \* the clock every method reads once
    task,     \* task[i]: status and lifecycle epoch
    job,      \* job[i]: status, cursor, emitted_count and plan of task i
    run,      \* run[k], k = <<task id, scheduled_for>>: status, action_token
    outbox,   \* outbox[k]: the one delivery_outbox row of run k
    issued,   \* every DeliveryLease lease_delivery has returned
    audit     \* leases recorded in reminder_delivery_audit

storeVars == <<now, profile, reset, task, job, run, outbox, issued, audit>>
rows == <<task, job, run, outbox>>

TaskIds == 1..MaxTasks
Keys    == TaskIds \X Nat

TaskStatuses   == {"awaiting_confirmation", "active", "needs_review",
                   "completed", "cancelled"}
JobStatuses    == {"draft", "awaiting_confirmation", "active", "needs_review",
                   "completed", "cancelled"}
RunStatuses    == {"due", "missed", "claimed", "delivered", "failed",
                   "cancelled"}
OutboxStatuses == {"pending", "leased", "sent", "failed", "cancelled"}

\* A lease is named by its secret token: the token is fresh, and within an
\* epoch a row is leased once per value of attempt.
Lease == [key : Keys, epoch : Nat, attempt : Nat]

TaskRow   == [status : TaskStatuses, epoch : Nat]
JobRow    == [status : JobStatuses, next : Nat \cup {None}, emitted : Nat,
              plan : Plans]
RunRow    == [status : RunStatuses, action : ActionTokens \cup {None}]
OutboxRow == [status : OutboxStatuses, epoch : Nat, avail : Nat,
              attempt : Nat, token : Lease \cup {None},
              until : Nat \cup {None}]

TasksTypeOK ==
    /\ DOMAIN task \subseteq TaskIds
    /\ task \in [DOMAIN task -> TaskRow]
    /\ job \in [DOMAIN task -> JobRow]
    /\ \A i \in DOMAIN task : job[i].status = "active" => job[i].next \in Nat

RunsTypeOK ==
    /\ DOMAIN run \subseteq (DOMAIN task) \X Nat
    /\ run \in [DOMAIN run -> RunRow]
    /\ outbox \in [DOMAIN run -> OutboxRow]

TypeOK ==
    /\ LifecycleTypeOK
    /\ now \in Nat
    /\ TasksTypeOK
    /\ RunsTypeOK
    /\ issued \subseteq Lease
    /\ audit \subseteq issued

Empty == [x \in {} |-> None]

Init ==
    /\ LifecycleInit
    /\ now = 0
    /\ task = Empty
    /\ job = Empty
    /\ run = Empty
    /\ outbox = Empty
    /\ issued = {}
    /\ audit = {}

-----------------------------------------------------------------------------
(* Rows *)

\* The table f after the rows of g are inserted or replaced.
Upsert(f, g) ==
    [x \in DOMAIN f \cup DOMAIN g |-> IF x \in DOMAIN g THEN g[x] ELSE f[x]]

\* The rows S of the run table moved to status s.
RunsMoved(S, s) ==
    [k \in DOMAIN run |->
        IF k \in S THEN [run[k] EXCEPT !.status = s] ELSE run[k]]

\* The rows S of the outbox cancelled: their lease is dropped too.
OutboxCancelled(S) ==
    [k \in DOMAIN outbox |->
        IF k \in S
        THEN [outbox[k] EXCEPT !.status = "cancelled", !.token = None,
                               !.until = None]
        ELSE outbox[k]]

\* SQLite gives a new row of an INTEGER PRIMARY KEY table the largest id in
\* use plus one: after a purge the ids start again at 1.
NextTaskId(i) ==
    /\ i \in TaskIds
    /\ \A j \in DOMAIN task : j < i
    /\ i = 1 \/ i - 1 \in DOMAIN task

-----------------------------------------------------------------------------
(* The schedule of a plan *)

\* next_occurrence, then resolve_local_time: the n-th instant of the plan,
\* Unresolvable when the zone refuses it, None when the rule is exhausted.
Instant(p, n) == IF n \in DOMAIN p.occ THEN p.occ[n] ELSE None

\* quiet_hours_available_at: the first moment at or after t outside the quiet
\* window, or Unresolvable.
InQuiet(p, t) == p.quiet.from <= t /\ t < p.quiet.to
Available(p, t) ==
    IF ~InQuiet(p, t) THEN t
    ELSE IF p.quiet.resolves THEN p.quiet.to ELSE Unresolvable

\* The job once its cursor stands at the n-th instant, n - 1 being emitted.
JobAt(j, n) ==
    LET at == Instant(j.plan, n) IN
    [j EXCEPT !.emitted = n - 1,
              !.next = IF at = Unresolvable THEN None ELSE at,
              !.status = IF at = None THEN "completed"
                         ELSE IF at = Unresolvable THEN "needs_review"
                         ELSE "active"]

\* A job and its task go to needs_review together.
TaskAfter(t, j) ==
    IF j.status = "needs_review" THEN [t EXCEPT !.status = "needs_review"]
    ELSE t

Grace(k)    == job[k[1]].plan.grace
Deadline(k) == k[2] + Grace(k)
Overdue(k)  == now > Deadline(k)

\* Whether a new run for instant s, to be delivered from a on, is missed from
\* the start: its window closes before the delivery may begin.
MissedAtOnce(p, s, a) ==
    a = Unresolvable \/ now > s + p.grace \/ a > s + p.grace

NewOutboxRow(missed, epoch, avail) ==
    [status |-> IF missed THEN "cancelled" ELSE "pending", epoch |-> epoch,
     avail |-> avail, attempt |-> 0, token |-> None, until |-> None]

NewRunRow(missed, action) ==
    [status |-> IF missed THEN "missed" ELSE "due", action |-> action]

-----------------------------------------------------------------------------
(* Operations of the owner *)

\* create_draft: refused while the profile is closed.
CreateDraft(p) ==
    /\ OwnerActive
    /\ \E i \in TaskIds :
        /\ NextTaskId(i)
        /\ task' = Upsert(task, [x \in {i} |->
              [status |-> "awaiting_confirmation", epoch |-> profile.epoch]])
        /\ job' = Upsert(job, [x \in {i} |->
              [status |-> "draft", next |-> None, emitted |-> 0, plan |-> p]])
    /\ UNCHANGED <<now, profile, reset, run, outbox, issued, audit>>

\* mark_awaiting_confirmation: the epoch is checked after the update, and a
\* stale one rolls it back.
MarkAwaiting(i) ==
    /\ job[i].status = "draft"
    /\ CurrentEpoch(task[i].epoch)
    /\ job' = [job EXCEPT ![i].status = "awaiting_confirmation"]
    /\ UNCHANGED <<now, profile, reset, task, run, outbox, issued, audit>>

\* Fault: the status of the job is not looked at.
Activate_AnyStatus(i) ==
    /\ CurrentEpoch(task[i].epoch)
    /\ Instant(job[i].plan, 1) # None
    /\ job' = [job EXCEPT ![i] = JobAt(job[i], 1)]
    /\ task' = [task EXCEPT ![i] =
                   TaskAfter([task[i] EXCEPT !.status = "active"], job'[i])]
    /\ UNCHANGED <<now, profile, reset, run, outbox, issued, audit>>

\* activate: sets the cursor to the first occurrence; a rule without one is an
\* error and leaves the draft as it was.
Activate(i) ==
    /\ CurrentEpoch(task[i].epoch)
    /\ job[i].status = "awaiting_confirmation"
    /\ Instant(job[i].plan, 1) # None
    /\ job' = [job EXCEPT ![i] = JobAt(job[i], 1)]
    /\ task' = [task EXCEPT ![i] =
                   TaskAfter([task[i] EXCEPT !.status = "active"], job'[i])]
    /\ UNCHANGED <<now, profile, reset, run, outbox, issued, audit>>

\* The rows of a task that closes: its job, the runs and the outbox rows given.
CloseRows(i, target, open, live) ==
    /\ task' = [task EXCEPT ![i].status = target]
    /\ job' = IF job[i].status \in {"cancelled", "completed"} THEN job
              ELSE [job EXCEPT ![i].status = target, ![i].next = None]
    /\ run' = RunsMoved(open, "cancelled")
    /\ outbox' = OutboxCancelled(live)
    /\ UNCHANGED <<now, profile, reset, issued, audit>>

RunsOf(i, statuses) == {k \in DOMAIN run : k[1] = i /\ run[k].status \in statuses}
OutboxOf(i, statuses) ==
    {k \in DOMAIN outbox : k[1] = i /\ outbox[k].status \in statuses}

\* Fault: a run that is being delivered is not cancelled with its task.
Finish_LeavesClaimed(i, target) ==
    /\ CurrentEpoch(task[i].epoch)
    /\ task[i].status \notin {"cancelled", "completed"}
    /\ CloseRows(i, target, RunsOf(i, {"due"}), OutboxOf(i, {"pending", "leased"}))

\* _finish_task, target being "cancelled" or "completed": the task, its job,
\* its open runs and their outbox rows are closed together.
Finish(i, target) ==
    /\ CurrentEpoch(task[i].epoch)
    /\ task[i].status \notin {"cancelled", "completed"}
    /\ CloseRows(i, target, RunsOf(i, {"due", "claimed"}),
                 OutboxOf(i, {"pending", "leased"}))

\* The run a snooze inserts: the plain INSERT fails on an existing key, and the
\* cursor of the job does not move.
InsertSnooze(i, tok) ==
    LET s == now + SnoozeDelay
        a == Available(job[i].plan, s)
        missed == a > s + job[i].plan.grace
    IN
    /\ a # Unresolvable
    /\ <<i, s>> \notin DOMAIN run
    /\ run' = Upsert(run, [k \in {<<i, s>>} |-> NewRunRow(missed, tok)])
    /\ outbox' = Upsert(outbox, [k \in {<<i, s>>} |->
                    NewOutboxRow(missed, task[i].epoch, a)])
    /\ UNCHANGED <<now, profile, reset, task, job, issued, audit>>

\* Fault: a replayed button is not recognised.
Snooze_Replayed(i, tok) ==
    /\ CurrentEpoch(task[i].epoch)
    /\ task[i].status = "active"
    /\ InsertSnooze(i, tok)

\* Fault: the status of the task is not looked at.
Snooze_AnyTask(i, tok) ==
    /\ \A k \in DOMAIN run : run[k].action # tok
    /\ CurrentEpoch(task[i].epoch)
    /\ InsertSnooze(i, tok)

\* snooze_task: a token that already made a run makes no second one.
Snooze(i, tok) ==
    /\ \A k \in DOMAIN run : run[k].action # tok
    /\ CurrentEpoch(task[i].epoch)
    /\ task[i].status = "active"
    /\ InsertSnooze(i, tok)

-----------------------------------------------------------------------------
(* Operations of the scheduler and of the delivery worker *)

DueJobs == {i \in DOMAIN job :
               /\ job[i].status = "active"
               /\ job[i].next <= now
               /\ task[i].status = "active"
               /\ CurrentEpoch(task[i].epoch)}

NextKey(i) == <<i, job[i].next>>

\* ORDER BY next_scheduled_for, id LIMIT: the jobs one call looks at.
Precedes(i, j) ==
    job[i].next < job[j].next \/ (job[i].next = job[j].next /\ i < j)
DueBatch ==
    {i \in DueJobs : Cardinality({j \in DueJobs : Precedes(j, i)}) < PollLimit}

\* Fault: a job noticed after its grace period is dropped without a run.
FreshJobs_InTime == {i \in DueBatch : /\ NextKey(i) \notin DOMAIN run
                                     /\ ~Overdue(NextKey(i))}

\* The due jobs whose INSERT OR IGNORE inserts.  The others are skipped with
\* their cursor where it was: a snooze already owns that instant.
FreshJobs == {i \in DueBatch : NextKey(i) \notin DOMAIN run}

NextAvailable(i) == Available(job[i].plan, job[i].next)

\* Fault: the cursor skips an occurrence.
JobAfterRun_Skips(i) == JobAt(job[i], job[i].emitted + 3)

\* The job after its run was emitted: the cursor advances, unless the end of
\* the quiet window could not be resolved.
JobAfterRun(i) ==
    IF NextAvailable(i) = Unresolvable
    THEN [job[i] EXCEPT !.status = "needs_review", !.next = None,
                        !.emitted = job[i].emitted + 1]
    ELSE JobAt(job[i], job[i].emitted + 2)

\* _advance_job_cursor lets the ValueError of next_occurrence through.
AdvanceRaises(i) ==
    /\ NextAvailable(i) # Unresolvable
    /\ job[i].plan.last = "raises"
    /\ job[i].emitted + 1 >= Len(job[i].plan.occ)

\* materialize_due: one run and one outbox row per due job, and the cursor of
\* every one of these jobs advanced, in one transaction: one job that raises
\* takes the others' runs back with it.
MaterializeDue ==
    LET new == {NextKey(i) : i \in FreshJobs}
        avail(k) == NextAvailable(k[1])
        missed(k) == MissedAtOnce(job[k[1]].plan, k[2], avail(k))
    IN
    /\ FreshJobs # {}
    /\ \A i \in FreshJobs : ~AdvanceRaises(i)
    /\ run' = Upsert(run, [k \in new |-> NewRunRow(missed(k), None)])
    /\ outbox' = Upsert(outbox, [k \in new |->
          NewOutboxRow(missed(k), task[k[1]].epoch,
                       IF avail(k) = Unresolvable THEN k[2] ELSE avail(k))])
    /\ job' = Upsert(job, [i \in FreshJobs |-> JobAfterRun(i)])
    /\ task' = Upsert(task, [i \in FreshJobs |->
                                TaskAfter(task[i], JobAfterRun(i))])
    /\ UNCHANGED <<now, profile, reset, issued, audit>>

\* Fault: one attempt too many.
Eligible_OneMore == {k \in DOMAIN outbox :
                        /\ outbox[k].attempt <= MaxAttempts
                        /\ outbox[k].avail <= now
                        /\ \/ outbox[k].status = "pending"
                           \/ outbox[k].status = "leased" /\ outbox[k].until <= now
                        /\ CurrentEpoch(outbox[k].epoch)}

\* Fault: an expired lease is not taken up again.
Eligible_PendingOnly == {k \in DOMAIN outbox :
                            /\ outbox[k].attempt < MaxAttempts
                            /\ outbox[k].avail <= now
                            /\ outbox[k].status = "pending"
                            /\ CurrentEpoch(outbox[k].epoch)}

\* The rows lease_delivery may claim.
Eligible == {k \in DOMAIN outbox :
                /\ outbox[k].attempt < MaxAttempts
                /\ outbox[k].avail <= now
                /\ \/ outbox[k].status = "pending"
                   \/ outbox[k].status = "leased" /\ outbox[k].until <= now
                /\ CurrentEpoch(outbox[k].epoch)}

\* Fault: only a run that was claimed before lapses.
LapsedRuns_Claimed(S) == {k \in S : run[k].status = "claimed"}

\* The runs that become "missed" when the loop of lease_delivery drops the
\* overdue outbox rows S.
LapsedRuns(S) == {k \in S : run[k].status \in {"due", "claimed"}}

\* The lease the row gives next.
NextLease(k) == [key |-> k, epoch |-> outbox[k].epoch,
                 attempt |-> outbox[k].attempt + 1]

\* lease_delivery, when it returns a lease for row k.  The loop visits the
\* eligible rows oldest first and drops the overdue ones it passes.  Rows with
\* one available_at are visited by id; that order is left open here.
LeaseDelivery(k) ==
    LET l == NextLease(k)
        before == {o \in Eligible : outbox[o].avail < outbox[k].avail}
        ties == {o \in Eligible : outbox[o].avail = outbox[k].avail /\ Overdue(o)}
    IN
    /\ k \in Eligible
    /\ ~Overdue(k)
    /\ \A o \in before : Overdue(o)
    /\ \E some \in SUBSET ties :
        LET passed == before \cup some IN
        /\ outbox' = [OutboxCancelled(passed) EXCEPT ![k] =
              [outbox[k] EXCEPT !.status = "leased", !.attempt = l.attempt,
                                !.token = l, !.until = now + LeaseSeconds]]
        /\ run' = [RunsMoved(LapsedRuns(passed), "missed") EXCEPT ![k].status =
              IF @ \in {"due", "claimed"} THEN "claimed" ELSE @]
    /\ issued' = issued \cup {l}
    /\ UNCHANGED <<now, profile, reset, task, job, audit>>

\* lease_delivery, when every row it visits is overdue: it returns None.
LapseAll ==
    /\ Eligible # {}
    /\ \A k \in Eligible : Overdue(k)
    /\ outbox' = OutboxCancelled(Eligible)
    /\ run' = RunsMoved(LapsedRuns(Eligible), "missed")
    /\ UNCHANGED <<now, profile, reset, task, job, issued, audit>>

HoldsLease(l) == l.key \in DOMAIN outbox /\ outbox[l.key].token = l

\* Fault: the status of the row is not looked at.
DeliveryIsCurrent_AnyStatus(l) == HoldsLease(l) /\ CurrentEpoch(l.epoch)

\* delivery_is_current: read before the send, it does not look at lease_until.
DeliveryIsCurrent(l) ==
    /\ HoldsLease(l)
    /\ outbox[l.key].status = "leased"
    /\ CurrentEpoch(l.epoch)

AlreadySent(l) ==
    /\ HoldsLease(l)
    /\ outbox[l.key].status = "sent"
    /\ CurrentEpoch(l.epoch)

\* Fault: a send whose lease was lost leaves no trace.
MarkSent_NoAudit(l) ==
    \/ /\ DeliveryIsCurrent(l)
       /\ outbox' = [outbox EXCEPT ![l.key].status = "sent", ![l.key].until = None]
       /\ run' = [run EXCEPT ![l.key].status = "delivered"]
       /\ UNCHANGED <<now, profile, reset, task, job, issued, audit>>
    \/ ~DeliveryIsCurrent(l) /\ UNCHANGED storeVars

\* mark_delivery_sent.  A row this lease already moved to "sent" stays as it
\* is; a lease that lost its row, or its epoch, is written to the audit.
MarkSent(l) ==
    \/ /\ DeliveryIsCurrent(l)
       /\ outbox' = [outbox EXCEPT ![l.key].status = "sent", ![l.key].until = None]
       /\ run' = [run EXCEPT ![l.key].status = "delivered"]
       /\ UNCHANGED <<now, profile, reset, task, job, issued, audit>>
    \/ /\ ~DeliveryIsCurrent(l)
       /\ audit' = IF AlreadySent(l) THEN audit ELSE audit \cup {l}
       /\ UNCHANGED <<now, profile, reset, task, job, run, outbox, issued>>

\* release_delivery.  The last attempt fails the run, an earlier one makes it
\* due again later.
ReleaseHeld(l) ==
    LET last == outbox[l.key].attempt >= MaxAttempts IN
    /\ DeliveryIsCurrent(l)
    /\ outbox' = [outbox EXCEPT
          ![l.key].status = IF last THEN "failed" ELSE "pending",
          ![l.key].avail = IF last THEN @ ELSE now + RetryDelay,
          ![l.key].token = None,
          ![l.key].until = None]
    /\ run' = [run EXCEPT ![l.key].status = IF last THEN "failed" ELSE "due"]
    /\ UNCHANGED <<now, profile, reset, task, job, issued, audit>>

\* A lease that is no longer the row's, or of a closed epoch, changes nothing.
Release(l) ==
    \/ ReleaseHeld(l)
    \/ ~DeliveryIsCurrent(l) /\ UNCHANGED storeVars

-----------------------------------------------------------------------------
(* Reset, seen from this store, and the clock *)

StoreBeginReset ==
    BeginReset /\ UNCHANGED <<now, rows, issued, audit>>
StoreQuiesce ==
    Quiesce /\ UNCHANGED <<now, rows, issued, audit>>

\* purge_owner, the store's purge hook: deleting the tasks cascades to jobs,
\* runs and outbox rows.  The audit has no foreign key and stays.
StorePurge ==
    /\ PurgeHooks
    /\ profile.state = "reset_in_progress"
    /\ task' = Empty
    /\ job' = Empty
    /\ run' = Empty
    /\ outbox' = Empty
    /\ UNCHANGED <<now, issued, audit>>

StoreCommitReset ==
    CommitReset /\ UNCHANGED <<now, rows, issued, audit>>
StoreAbandonReset ==
    AbandonReset /\ UNCHANGED <<now, rows, issued, audit>>

Tick ==
    /\ now < MaxTime
    /\ now' = now + 1
    /\ UNCHANGED <<profile, reset, rows, issued, audit>>

OwnerOperation ==
    \/ \E p \in Plans : CreateDraft(p)
    \/ \E i \in DOMAIN task :
        \/ MarkAwaiting(i)
        \/ Activate(i)
        \/ \E target \in {"cancelled", "completed"} : Finish(i, target)
        \/ \E tok \in ActionTokens : Snooze(i, tok)

ResetStep ==
    \/ StoreBeginReset
    \/ StoreQuiesce
    \/ StorePurge
    \/ StoreCommitReset
    \/ StoreAbandonReset

DeliveryOperation ==
    \/ MaterializeDue
    \/ LapseAll
    \/ \E k \in DOMAIN outbox : LeaseDelivery(k)
    \/ \E l \in issued : MarkSent(l) \/ Release(l)

Next == OwnerOperation \/ DeliveryOperation \/ ResetStep \/ Tick

Spec == Init /\ [][Next]_storeVars

-----------------------------------------------------------------------------
(* Properties *)

OpenRun(k)    == run[k].status \in {"due", "claimed"}
SettledRun(k) == ~OpenRun(k)

\* The ledger a reader of the tables sees.
LedgerView  == [k \in DOMAIN run |->
                  IF OpenRun(k) THEN "open" ELSE run[k].status]
ClosedTasks == {i \in DOMAIN task : task[i].status \in {"cancelled", "completed"}}

Ledger == INSTANCE RunLedger WITH
    Tasks <- TaskIds, ledger <- LedgerView, closed <- ClosedTasks

\* The four tables, with their leases, retries and cursors, behave as a ledger
\* in which a run settles once and a closed task stays silent.
ImplementsLedger == Ledger!LedgerSpec

StatusesAgree(r, o) ==
    /\ r = "due"       <=> o = "pending"
    /\ r = "claimed"   <=> o = "leased"
    /\ r = "delivered" <=> o = "sent"
    /\ r = "failed"    <=> o = "failed"

\* A run and its outbox row tell one story: no transaction of the scheduler,
\* the worker or the owner moves one of the two tables without the other.
RunOutboxAgree ==
    \A k \in DOMAIN run : StatusesAgree(run[k].status, outbox[k].status)

TaskMatchesJob(t, j) ==
    /\ t = "awaiting_confirmation" => j \in {"draft", "awaiting_confirmation"}
    /\ t = "active"       => j \in {"active", "completed"}
    /\ t = "needs_review" => j = "needs_review"
    /\ t = "completed"    => j = "completed"
    /\ t = "cancelled"    => j \in {"cancelled", "completed"}

\* A task and its job tell one story.  An active task may have a completed job:
\* its recurrence is exhausted and only a snooze can make another run.
TaskJobAgree ==
    \A i \in DOMAIN task : TaskMatchesJob(task[i].status, job[i].status)

\* Once the owner cancelled or completed a task nothing of it is left to
\* deliver, whatever a scheduler or a lease holder was in the middle of.
FinishedTaskIsQuiet ==
    \A k \in DOMAIN run :
        task[k[1]].status \in {"cancelled", "completed"} => SettledRun(k)

\* The scheduler emits each occurrence of a rule once and skips none: the runs
\* of a job that no snooze made are exactly its first emitted_count instants,
\* and an active cursor stands at the next one.
CursorExact ==
    \A i \in DOMAIN job :
        /\ {k[2] : k \in {r \in DOMAIN run : r[1] = i /\ run[r].action = None}}
              = {Instant(job[i].plan, n) : n \in 1..job[i].emitted}
        /\ job[i].status = "active" =>
              job[i].next = Instant(job[i].plan, job[i].emitted + 1)

\* Pressing one snooze button any number of times makes at most one run.
SnoozeOnce ==
    \A k, m \in DOMAIN run :
        run[k].action = run[m].action /\ run[k].action # None => k = m

\* Deliveries of a row are counted: a row is leased at most MaxAttempts times,
\* and the lease it holds is the last one issued for it.
LeasesCounted ==
    /\ \A l \in issued : l.attempt <= MaxAttempts
    /\ \A k \in DOMAIN outbox :
        /\ outbox[k].status = "leased" =>
              outbox[k].token = [key |-> k, epoch |-> outbox[k].epoch,
                                 attempt |-> outbox[k].attempt]
        /\ \A l \in issued : l.key = k /\ l.epoch = outbox[k].epoch
              => l.attempt <= outbox[k].attempt

\* While the profile is open every row belongs to the current epoch: no reset
\* leaves, and no create_draft racing it adds, a row of another life.
NoRowOfAnotherEpoch ==
    OwnerActive =>
        /\ \A i \in DOMAIN task : task[i].epoch = profile.epoch
        /\ \A k \in DOMAIN outbox : outbox[k].epoch = profile.epoch

\* Why no row of another epoch survives: reset() works on a closed profile and
\* reopens it over empty tables.
ResetFence ==
    /\ reset # "idle" => ~OwnerActive
    /\ reset = "commit" => DOMAIN task = {}
    /\ \A k \in DOMAIN outbox : outbox[k].epoch = task[k[1]].epoch

\* Why attempts can be counted per epoch although a purge lets ids, and so the
\* names of rows, be used again.
LeaseFence ==
    /\ \A k \in DOMAIN outbox : outbox[k].attempt <= MaxAttempts
    /\ \A l \in issued :
        /\ l.epoch <= profile.epoch
        /\ l.epoch = profile.epoch => OwnerActive /\ l.key \in DOMAIN outbox

\* A run that was delivered, failed, missed or cancelled keeps that outcome
\* until a reset deletes it: no late lease, retry or snooze reopens it.
OutcomeIsFinal ==
    [][\A k \in DOMAIN run \cap DOMAIN run' :
          SettledRun(k) => run'[k].status = run[k].status]_storeVars

\* The inductive invariant: every step of the store keeps it, and with it every
\* property above but CursorExact.
StoreInvariant ==
    /\ TypeOK
    /\ RunOutboxAgree
    /\ TaskJobAgree
    /\ FinishedTaskIsQuiet
    /\ SnoozeOnce
    /\ NoRowOfAnotherEpoch
    /\ ResetFence
    /\ LeaseFence
    /\ LeasesCounted
=============================================================================
