--------------------------- MODULE ReminderDelivery ---------------------------
(***************************************************************************)
(* The reminder loop of the running process over the store: the scheduler, *)
(* the delivery worker, the Telegram API behind it, the owner's commands,  *)
(* and resets, with the process dying and starting again at any moment.    *)
(*                                                                         *)
(* ReminderDeliveryWorker.run_once is cut where something else can happen: *)
(* at each transaction and at the await of port.send.  The loop is         *)
(* sequential, so the scheduler runs only between two deliveries.          *)
(***************************************************************************)
EXTENDS ReminderStore

CONSTANT MaxAbandons   \* bound: crashes, lost writes and interrupted resets

ASSUME AbandonAssumption == MaxAbandons \in Nat

VARIABLES
    worker,     \* where run_once stands, and the lease it holds
    quiesced,   \* _quiesced_epochs: in memory, lost when the process dies
    inflight,   \* sends on their way to Telegram, or lost there
    accepted,   \* sends the Telegram API accepted
    abandons    \* how often an operation was cut short so far

workerVars   == <<worker, quiesced, inflight, accepted, abandons>>
deliveryVars == <<now, profile, reset, task, job, run, outbox, issued, audit,
                  worker, quiesced, inflight, accepted, abandons>>

WorkerSteps == {"idle", "polled", "claimed", "sending", "sent", "failed"}

\* Asleep between two iterations, and in an iteration between two deliveries.
Idle   == [step |-> "idle", lease |-> None]
Polled == [step |-> "polled", lease |-> None]

DeliveryTypeOK ==
    /\ TypeOK
    /\ worker \in [step : WorkerSteps, lease : Lease \cup {None}]
    /\ worker.step \notin {"idle", "polled"} => worker.lease \in issued
    /\ quiesced \subseteq Nat
    /\ inflight \subseteq issued
    /\ accepted \subseteq issued
    /\ abandons \in 0..MaxAbandons

DeliveryInit ==
    /\ Init
    /\ worker = Idle
    /\ quiesced = {}
    /\ inflight = {}
    /\ accepted = {}
    /\ abandons = 0

At(step) == worker.step = step
MoveTo(step) == worker' = [worker EXCEPT !.step = step]

-----------------------------------------------------------------------------
(* The loop *)

\* An iteration of run_reminder_loop starts with ReminderScheduler.run_once.  If
\* that raises, the iteration ends there: nothing is delivered in it.
SchedulerRun ==
    /\ At("idle")
    /\ MaterializeDue
    /\ worker' = Polled
    /\ UNCHANGED <<quiesced, inflight, accepted, abandons>>

\* It finds nothing to insert; an iteration without any work is left out.
SchedulerRests ==
    /\ At("idle")
    /\ FreshJobs = {}
    /\ Eligible # {}
    /\ worker' = Polled
    /\ UNCHANGED <<storeVars, quiesced, inflight, accepted, abandons>>

\* run_once obtains a lease ...
WorkerClaims ==
    /\ At("polled")
    /\ \E k \in DOMAIN outbox :
        /\ LeaseDelivery(k)
        /\ worker' = [step |-> "claimed", lease |-> NextLease(k)]
    /\ UNCHANGED <<quiesced, inflight, accepted, abandons>>

\* ... or none, after dropping what is overdue, and the loop goes to sleep.  The
\* limit of 100 deliveries in an iteration is not reached here.
WorkerLapses ==
    /\ At("polled")
    /\ \/ LapseAll
       \/ Eligible = {} /\ UNCHANGED storeVars
    /\ worker' = Idle
    /\ UNCHANGED <<quiesced, inflight, accepted, abandons>>

\* Fault: the lease is not looked at again before the send.
MaySend_NotQuiesced == worker.lease.epoch \notin quiesced

MaySend == worker.lease.epoch \notin quiesced /\ DeliveryIsCurrent(worker.lease)

\* The lease is left to expire when its epoch is quiesced or it is not current.
WorkerSkips ==
    /\ At("claimed")
    /\ ~MaySend
    /\ worker' = Polled
    /\ UNCHANGED <<storeVars, quiesced, inflight, accepted, abandons>>

\* The request leaves for Telegram in the same segment as the check.
WorkerSends ==
    /\ At("claimed")
    /\ MaySend
    /\ MoveTo("sending")
    /\ inflight' = inflight \cup {worker.lease}
    /\ UNCHANGED <<storeVars, quiesced, accepted, abandons>>

\* The API accepts a request.  Nothing ties the moment to the worker: it may have
\* given up on the request, or have died.  A request that is lost is one that
\* stays in flight for good: no fairness is asked of this step.
TelegramAccepts(l) ==
    /\ inflight' = inflight \ {l}
    /\ accepted' = accepted \cup {l}
    /\ UNCHANGED <<storeVars, worker, quiesced, abandons>>

\* port.send returns the handle of the message.
SendReturns ==
    /\ At("sending")
    /\ worker.lease \in accepted
    /\ MoveTo("sent")
    /\ UNCHANGED <<storeVars, quiesced, inflight, accepted, abandons>>

\* port.send raises, or returns no handle: the message may have been accepted.
SendRaises ==
    /\ At("sending")
    /\ MoveTo("failed")
    /\ UNCHANGED <<storeVars, quiesced, inflight, accepted, abandons>>

\* Fault: a send that raised is marked like one that returned.
WorkerMarks_AlsoFailed ==
    /\ worker.step \in {"sent", "failed"}
    /\ MarkSent(worker.lease)
    /\ worker' = Polled
    /\ UNCHANGED <<quiesced, inflight, accepted, abandons>>

\* mark_delivery_sent after a send that returned.
WorkerMarks ==
    /\ At("sent")
    /\ MarkSent(worker.lease)
    /\ worker' = Polled
    /\ UNCHANGED <<quiesced, inflight, accepted, abandons>>

\* release_delivery after a send that raised; a lost lease changes nothing.
WorkerReleases ==
    /\ At("failed")
    /\ Release(worker.lease)
    /\ worker' = Polled
    /\ UNCHANGED <<quiesced, inflight, accepted, abandons>>

-----------------------------------------------------------------------------
(* What cuts an operation short *)

Abandon == abandons < MaxAbandons /\ abandons' = abandons + 1

\* The store raises in delivery_is_current or mark_delivery_sent, which ends the
\* iteration, or in release_delivery, which run_once swallows.
StorageFails ==
    /\ Abandon
    /\ worker.step \in {"claimed", "sent", "failed"}
    /\ worker' = IF At("failed") THEN Polled ELSE Idle
    /\ UNCHANGED <<storeVars, quiesced, inflight, accepted>>

\* Fault: start-up puts every leased row back, its run with it.
Restart_Requeues ==
    /\ Abandon
    /\ outbox' = [k \in DOMAIN outbox |->
          IF outbox[k].status = "leased"
          THEN [outbox[k] EXCEPT !.status = "pending", !.token = None, !.until = None]
          ELSE outbox[k]]
    /\ run' = RunsMoved({k \in DOMAIN run : run[k].status = "claimed"}, "due")
    /\ worker' = Idle
    /\ quiesced' = {}
    /\ reset' = "idle"
    /\ UNCHANGED <<now, profile, task, job, issued, audit, inflight, accepted>>

\* The process dies, or is cancelled, and starts again: the loop, the quiesced
\* epochs and a running reset() are gone, the tables are not.
Restart ==
    /\ Abandon
    /\ worker' = Idle
    /\ quiesced' = {}
    /\ reset' = "idle"
    /\ UNCHANGED <<now, profile, rows, issued, audit, inflight, accepted>>

-----------------------------------------------------------------------------
(* The owner and the reset *)

OwnerActs == OwnerOperation /\ UNCHANGED workerVars

ResetBegins  == StoreBeginReset /\ UNCHANGED workerVars
ResetPurges  == StorePurge /\ UNCHANGED workerVars
ResetCommits == StoreCommitReset /\ UNCHANGED workerVars

\* The worker's quiesce hook: it is given the previous epoch.
ResetQuiesces ==
    /\ StoreQuiesce
    /\ quiesced' = quiesced \cup {profile.epoch - 1}
    /\ UNCHANGED <<worker, inflight, accepted, abandons>>

\* A hook or the second transaction raises.
ResetRaises ==
    /\ Abandon
    /\ StoreAbandonReset
    /\ UNCHANGED <<worker, quiesced, inflight, accepted>>

TimePasses == Tick /\ UNCHANGED workerVars

WorkerStep ==
    \/ WorkerClaims
    \/ WorkerLapses
    \/ WorkerSkips
    \/ WorkerSends
    \/ SendReturns
    \/ SendRaises
    \/ WorkerMarks
    \/ WorkerReleases

ResetProceeds == ResetQuiesces \/ ResetPurges \/ ResetCommits

DeliveryNext ==
    \/ SchedulerRun \/ SchedulerRests
    \/ WorkerStep
    \/ \E l \in inflight : TelegramAccepts(l)
    \/ StorageFails
    \/ Restart
    \/ OwnerActs
    \/ ResetBegins
    \/ ResetProceeds
    \/ ResetRaises
    \/ TimePasses

DeliverySpec == DeliveryInit /\ [][DeliveryNext]_deliveryVars

\* The clock runs, the loop runs whenever it has something to do, and the
\* statements of a reset() in progress follow one another.  port.send ends:
\* the HTTP client has a timeout.  Nothing is asked of the owner or of the
\* network, and no crash is ever required.
Fairness ==
    /\ WF_deliveryVars(TimePasses)
    /\ WF_deliveryVars(SchedulerRun \/ SchedulerRests)
    /\ WF_deliveryVars(WorkerStep)
    /\ WF_deliveryVars(ResetProceeds)

LiveDeliverySpec == DeliverySpec /\ Fairness

-----------------------------------------------------------------------------
(* Properties *)

\* The loop, the owner, resets and crashes use the store only as its contract
\* allows, so what ReminderStoreProofs proves of the store holds here.
StoreContract == Spec

StartsSend == At("claimed") /\ worker'.step = "sending"

\* A send never leaves for a run that is settled, of a task the owner finished
\* or of an epoch that a reset has closed, whatever happened after the lease.
SendsOnlyOpenRuns ==
    [][StartsSend =>
        LET k == worker.lease.key IN
        /\ k \in DOMAIN run
        /\ run[k].status = "claimed"
        /\ task[k[1]].status \notin {"cancelled", "completed"}
        /\ worker.lease.epoch = profile.epoch
        /\ OwnerActive]_deliveryVars

\* A reminder reaches the chat at most MaxAttempts times, counting messages
\* that were accepted while the process believed the send had failed.
BoundedMessages ==
    \A l \in accepted :
        Cardinality({m \in accepted : m.key = l.key /\ m.epoch = l.epoch})
            <= MaxAttempts

\* The table never claims a delivery that did not happen: a run that is
\* delivered has an accepted message, the one of the lease its row keeps.
DeliveredWasAccepted ==
    \A k \in DOMAIN run :
        run[k].status = "delivered" => outbox[k].token \in accepted

\* A message whose handle came back is never lost: it is in the table as
\* delivered or in the audit, unless the process was cut short in between.
AcceptedIsRecorded ==
    [][WorkerMarks =>
        \/ worker.lease \in audit'
        \/ /\ worker.lease.key \in DOMAIN run'
           /\ run'[worker.lease.key].status = "delivered"
           /\ outbox'[worker.lease.key].token = worker.lease]_deliveryVars

\* Rows whose next moment lies after the end of the model's clock.
BeyondHorizon(k) ==
    \/ outbox[k].avail > MaxTime
    \/ outbox[k].until # None /\ outbox[k].until > MaxTime

\* The one way a run stays open: its last lease was cut short, and a row whose
\* attempts are used up is neither leased again nor failed.
Stranded(k) ==
    /\ outbox[k].status = "leased"
    /\ outbox[k].attempt = MaxAttempts
    /\ outbox[k].until <= now

\* A reset was cut short between its transactions: the profile is closed and
\* nothing works at it.
LeftClosed == ~OwnerActive /\ reset = "idle"

\* The instant the job stands at is the key of a run that a snooze made: INSERT
\* OR IGNORE inserts nothing, and the cursor stays where it is.
OwnedBySnooze(i) == NextKey(i) \in DOMAIN run /\ run[NextKey(i)].action # None

\* The batch of materialize_due holds a rule that raises: every iteration of the
\* loop ends there, and nothing is materialised or delivered.
BatchRaises == \E j \in FreshJobs : AdvanceRaises(j)

\* The batch moves no cursor: it raises, or a snooze was there first for all of it.
HeldUp == BatchRaises \/ \A j \in DueBatch : OwnedBySnooze(j)

\* Crashes and lost writes cost attempts, never a run: an expired lease is
\* taken up again, and only losing the last one, a reset that was cut short or a
\* rule that raises in every iteration strands the run.
RunSettlesOrStrands ==
    \A k \in TaskIds \X (0..MaxTime) :
        (k \in DOMAIN run /\ OpenRun(k))
            ~> (k \in DOMAIN run =>
                    \/ SettledRun(k)
                    \/ BeyondHorizon(k)
                    \/ Stranded(k)
                    \/ LeftClosed
                    \/ BatchRaises)

\* The scheduler serves every due job: its cursor leaves the instant that is
\* due, or the job is no longer one the scheduler looks at.  The two ways a
\* batch is held up are the only ones in which it does not.
DueJobsAdvance ==
    \A i \in TaskIds, t \in 0..MaxTime :
        LET waits == i \in DueJobs /\ job[i].next = t
        IN  waits ~> (~waits \/ HeldUp)

\* The same without exception, for the reminders whose own rule has no error.
SoundJobsAdvance ==
    \A i \in TaskIds, t \in 0..MaxTime :
        LET waits == i \in DueJobs /\ job[i].next = t /\ job[i].plan.last = "ends"
        IN  waits ~> ~waits

\* Unless it was cut short between its transactions, a reset that began ends
\* with the profile open again.
ResetCompletesOrRaised ==
    ~OwnerActive ~> (OwnerActive \/ (LeftClosed /\ abandons > 0))
=============================================================================
