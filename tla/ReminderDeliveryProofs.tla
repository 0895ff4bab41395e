------------------------ MODULE ReminderDeliveryProofs ------------------------
(* What is proved of the delivery loop: it keeps the store's contract, sends *)
(* only what is wanted, and the table and the chat agree on what was sent.    *)
EXTENDS ReminderDelivery, ReminderStoreProofs, FiniteSetTheorems

\* The lease in the worker's hand, and every send, was issued by the store.
WorkerOK ==
    /\ worker = [step |-> worker.step, lease |-> worker.lease]
    /\ worker.step \in WorkerSteps
    /\ worker.step \notin {"idle", "polled"} => worker.lease \in issued
    /\ worker.step = "sent" => worker.lease \in accepted
    /\ inflight \subseteq issued
    /\ accepted \subseteq issued
    /\ \A l \in issued : l.attempt >= 1

LEMMA WorkerInit == DeliveryInit => WorkerOK
BY DEF DeliveryInit, Init, WorkerOK, WorkerSteps, Idle

LEMMA WorkerKept ==
    ASSUME WorkerOK, issued' = issued, inflight' \subseteq issued,
           accepted \subseteq accepted', accepted' \subseteq issued,
           \/ worker' = worker
           \/ worker' \in {Idle, Polled}
           \/ /\ worker' = [worker EXCEPT !.step = "sending"]
              /\ worker.step = "claimed"
           \/ /\ worker' = [worker EXCEPT !.step = "failed"]
              /\ worker.step = "sending"
           \/ /\ worker' = [worker EXCEPT !.step = "sent"]
              /\ worker.step = "sending" /\ worker.lease \in accepted
    PROVE  WorkerOK'
BY DEF WorkerOK, WorkerSteps, Idle, Polled

\* The steps that a delivery takes on the store leave its leases alone, except
\* the one that asks for a lease.
LEMMA LeasesStand ==
    ASSUME \/ OwnerOperation
           \/ ResetStep
           \/ Tick
           \/ MaterializeDue
           \/ LapseAll
           \/ \E l \in issued : MarkSent(l) \/ Release(l)
    PROVE  issued' = issued
<1>1. CASE OwnerOperation
  BY <1>1 DEF OwnerOperation, CreateDraft, MarkAwaiting, Activate, Finish,
              CloseRows, Snooze, InsertSnooze
<1>2. CASE ResetStep \/ Tick
  BY <1>2 DEF ResetStep, StoreBeginReset, StoreQuiesce, StorePurge,
              StoreCommitReset, StoreAbandonReset, Tick
<1>3. CASE MaterializeDue \/ LapseAll
  BY <1>3 DEF MaterializeDue, LapseAll
<1>4. ASSUME NEW l \in issued, MarkSent(l) \/ Release(l) PROVE issued' = issued
  BY <1>4 DEF MarkSent, Release, ReleaseHeld, storeVars
<1> QED BY <1>1, <1>2, <1>3, <1>4

LEMMA WorkerStepKept ==
    ASSUME TypeOK, WorkerOK, [DeliveryNext]_deliveryVars
    PROVE  WorkerOK'
<1> USE WorkerKept
<1>1. CASE UNCHANGED deliveryVars
  BY <1>1 DEF deliveryVars, WorkerOK
<1>2. CASE SchedulerRun \/ SchedulerRests
  BY <1>2, LeasesStand DEF SchedulerRun, SchedulerRests, storeVars, WorkerOK
<1>3. CASE WorkerClaims
  <2>1. PICK k \in DOMAIN outbox :
          /\ LeaseDelivery(k)
          /\ worker' = [step |-> "claimed", lease |-> NextLease(k)]
    BY <1>3 DEF WorkerClaims
  <2>2. issued' = issued \cup {NextLease(k)} /\ UNCHANGED <<inflight, accepted>>
    BY <1>3, <2>1 DEF WorkerClaims, LeaseDelivery
  <2>3. NextLease(k).attempt >= 1
    BY DEF NextLease, TypeOK, RunsTypeOK, OutboxRow
  <2> QED BY <2>1, <2>2, <2>3 DEF WorkerOK, WorkerSteps
<1>4. CASE WorkerLapses
  BY <1>4, LeasesStand DEF WorkerLapses, storeVars, WorkerOK
<1>5. CASE WorkerSkips
  BY <1>5 DEF WorkerSkips, storeVars, WorkerOK
<1>6. CASE WorkerSends
  BY <1>6 DEF WorkerSends, storeVars, WorkerOK, At, MoveTo
<1>7. CASE SendReturns
  BY <1>7 DEF SendReturns, storeVars, WorkerOK, At, MoveTo
<1>8. CASE SendRaises
  BY <1>8 DEF SendRaises, storeVars, WorkerOK, At, MoveTo
<1>9. CASE WorkerMarks
  <2>1. worker.lease \in issued
    BY <1>9 DEF WorkerMarks, WorkerOK, At
  <2> QED BY <1>9, <2>1, LeasesStand DEF WorkerMarks, WorkerOK
<1>10. CASE WorkerReleases
  <2>1. worker.lease \in issued
    BY <1>10 DEF WorkerReleases, WorkerOK, At
  <2> QED BY <1>10, <2>1, LeasesStand DEF WorkerReleases, WorkerOK
<1>11. ASSUME NEW l \in inflight, TelegramAccepts(l)
       PROVE  WorkerOK'
  BY <1>11 DEF TelegramAccepts, storeVars, WorkerOK
<1>12. CASE StorageFails \/ Restart
  BY <1>12 DEF StorageFails, Restart, storeVars, WorkerOK
<1>13. CASE OwnerActs
  BY <1>13, LeasesStand DEF OwnerActs, workerVars, WorkerOK
<1>14. CASE ResetBegins \/ ResetProceeds \/ ResetRaises
  BY <1>14, LeasesStand
     DEF ResetBegins, ResetProceeds, ResetRaises, ResetQuiesces, ResetPurges,
         ResetCommits, ResetStep, workerVars, WorkerOK
<1>15. CASE TimePasses
  BY <1>15, LeasesStand DEF TimePasses, workerVars, WorkerOK
<1> QED
  BY <1>1, <1>2, <1>3, <1>4, <1>5, <1>6, <1>7, <1>8, <1>9, <1>10, <1>11, <1>12,
     <1>13, <1>14, <1>15 DEF DeliveryNext, WorkerStep

\* Every step of the loop is a step of the store, or none.
LEMMA StepKeepsContract ==
    ASSUME WorkerOK, [DeliveryNext]_deliveryVars
    PROVE  [Next]_storeVars
<1> USE DEF Next
<1>1. CASE UNCHANGED storeVars
  BY <1>1
<1>2. CASE UNCHANGED deliveryVars
  BY <1>2 DEF deliveryVars, storeVars
<1>3. CASE SchedulerRun \/ WorkerLapses \/ WorkerClaims
  BY <1>1, <1>3 DEF SchedulerRun, WorkerLapses, WorkerClaims, DeliveryOperation
<1>4. CASE WorkerMarks \/ WorkerReleases
  <2>1. worker.lease \in issued
    BY <1>4 DEF WorkerMarks, WorkerReleases, WorkerOK, At
  <2> QED BY <1>4, <2>1 DEF WorkerMarks, WorkerReleases, DeliveryOperation
<1>5. CASE \/ SchedulerRests \/ WorkerSkips \/ WorkerSends \/ SendReturns
           \/ SendRaises \/ StorageFails
  BY <1>1, <1>5 DEF SchedulerRests, WorkerSkips, WorkerSends, SendReturns, SendRaises, StorageFails
<1>6. ASSUME NEW l \in inflight, TelegramAccepts(l)
      PROVE  UNCHANGED storeVars
  BY <1>6 DEF TelegramAccepts
<1>7. CASE Restart
  <2>1. CASE reset = "idle"
    BY <1>7, <2>1 DEF Restart, storeVars, rows
  <2>2. CASE reset # "idle"
    BY <1>7, <2>2 DEF Restart, ResetStep, StoreAbandonReset, AbandonReset, rows
  <2> QED BY <2>1, <2>2
<1>8. CASE OwnerActs
  BY <1>8 DEF OwnerActs
<1>9. CASE ResetBegins \/ ResetProceeds \/ ResetRaises
  BY <1>9 DEF ResetBegins, ResetProceeds, ResetRaises, ResetQuiesces, ResetPurges,
              ResetCommits, ResetStep
<1>10. CASE TimePasses
  BY <1>10 DEF TimePasses
<1> QED
  BY <1>1, <1>2, <1>3, <1>4, <1>5, <1>6, <1>7, <1>8, <1>9, <1>10
     DEF DeliveryNext, WorkerStep

\* With the store's invariant at hand every step keeps both.
LEMMA BothKept ==
    ASSUME StoreInvariant, WorkerOK, [DeliveryNext]_deliveryVars
    PROVE  StoreInvariant' /\ WorkerOK' /\ [Next]_storeVars
<1>1. [Next]_storeVars
  BY StepKeepsContract
<1>2. StoreInvariant'
  BY <1>1, InvariantStep
<1>3. TypeOK
  BY DEF StoreInvariant
<1> QED BY <1>1, <1>2, <1>3, WorkerStepKept

LEMMA BothHold == DeliverySpec => [](StoreInvariant /\ WorkerOK)
<1>1. DeliveryInit => StoreInvariant /\ WorkerOK
  BY WorkerInit, InvariantInit DEF DeliveryInit
<1> QED BY <1>1, BothKept, PTL DEF DeliverySpec

\* The loop, the owner, resets and crashes use the store only as its contract
\* allows: what is proved of the store holds in the running process.
THEOREM LoopKeepsStore == DeliverySpec => StoreContract
<1>1. DeliveryInit => Init
  BY DEF DeliveryInit
<1> QED BY <1>1, BothHold, BothKept, PTL DEF DeliverySpec, StoreContract, Spec

\* Down to the abstract ledger: whatever the loop meets, a run opens and settles
\* once, with an outcome that is final.
THEOREM LoopImplementsLedger == DeliverySpec => ImplementsLedger
BY LoopKeepsStore, StoreImplementsLedger, PTL DEF StoreContract

\* No send leaves for a settled run, a finished task or a closed epoch.
THEOREM SendsAreWanted == DeliverySpec => SendsOnlyOpenRuns
<1>1. ASSUME StoreInvariant, WorkerOK, [DeliveryNext]_deliveryVars, StartsSend
      PROVE  LET k == worker.lease.key IN
             /\ k \in DOMAIN run
             /\ run[k].status = "claimed"
             /\ task[k[1]].status \notin {"cancelled", "completed"}
             /\ worker.lease.epoch = profile.epoch
             /\ OwnerActive
  <2>1. worker.step = "claimed" /\ worker'.step = "sending"
    BY <1>1 DEF StartsSend, At
  <2>2. WorkerSends
    <3>1. CASE UNCHANGED worker
      BY <2>1, <3>1
    <3>2. CASE worker' \in {Idle, Polled}
      BY <2>1, <3>2 DEF Idle, Polled
    <3>3. CASE WorkerClaims
      BY <2>1, <3>3 DEF WorkerClaims, At
    <3>4. CASE SendReturns \/ SendRaises
      BY <2>1, <3>4 DEF SendReturns, SendRaises, At
    <3> QED
      BY <1>1, <3>1, <3>2, <3>3, <3>4
         DEF deliveryVars, DeliveryNext, SchedulerRun, SchedulerRests,
             WorkerStep, WorkerLapses,
             WorkerSkips, WorkerMarks, WorkerReleases, TelegramAccepts,
             StorageFails, Restart, OwnerActs, ResetBegins,
             ResetProceeds, ResetQuiesces, ResetPurges, ResetCommits,
             ResetRaises, TimePasses, workerVars
  <2>3. DeliveryIsCurrent(worker.lease)
    BY <2>2 DEF WorkerSends, MaySend
  <2>4. /\ worker.lease.key \in DOMAIN run
        /\ outbox[worker.lease.key].status = "leased"
        /\ worker.lease.epoch = profile.epoch /\ OwnerActive
    BY <1>1, <2>3 DEF DeliveryIsCurrent, HoldsLease, CurrentEpoch, StoreInvariant,
                      TypeOK, RunsTypeOK
  <2>5. run[worker.lease.key].status = "claimed"
    BY <1>1, <2>4 DEF StoreInvariant, RunOutboxAgree, StatusesAgree
  <2>6. task[worker.lease.key[1]].status \notin {"cancelled", "completed"}
    BY <1>1, <2>4, <2>5
       DEF StoreInvariant, FinishedTaskIsQuiet, SettledRun, OpenRun
  <2> QED BY <2>4, <2>5, <2>6
<1>2. ASSUME StoreInvariant, WorkerOK, [DeliveryNext]_deliveryVars
      PROVE  [StartsSend =>
                LET k == worker.lease.key IN
                /\ k \in DOMAIN run
                /\ run[k].status = "claimed"
                /\ task[k[1]].status \notin {"cancelled", "completed"}
                /\ worker.lease.epoch = profile.epoch
                /\ OwnerActive]_deliveryVars
  BY <1>1, <1>2
<1> QED BY <1>2, BothHold, PTL DEF DeliverySpec, SendsOnlyOpenRuns

\* At most MaxAttempts messages of a reminder reach the chat: each accepted
\* message has a lease of its own, and leases of a row are numbered.
THEOREM MessagesAreBounded == DeliverySpec => []BoundedMessages
<1>1. ASSUME StoreInvariant, WorkerOK, NEW l \in accepted
      PROVE  Cardinality({m \in accepted : m.key = l.key /\ m.epoch = l.epoch})
                <= MaxAttempts
  <2>. DEFINE mine == {m \in accepted : m.key = l.key /\ m.epoch = l.epoch}
              nth(a) == [key |-> l.key, epoch |-> l.epoch, attempt |-> a]
              f == [m \in mine |-> m.attempt]
  <2>1. MaxAttempts \in Nat
    BY PolicyAssumption
  <2>2. \A m \in accepted : m \in Lease /\ m.attempt \in 1..MaxAttempts
    BY <1>1, <2>1 DEF WorkerOK, StoreInvariant, LeasesCounted, TypeOK, Lease
  <2>3. f \in Injection(mine, 1..MaxAttempts)
    BY <2>2 DEF Injection, IsInjective, Lease
  <2>4. IsFiniteSet(1..MaxAttempts) /\ Cardinality(1..MaxAttempts) = MaxAttempts
    BY <2>1, FS_Interval
  <2>5. IsFiniteSet(mine) /\ Cardinality(mine) <= Cardinality(1..MaxAttempts)
    BY <2>3, <2>4, FS_Injection
  <2> QED BY <2>4, <2>5
<1>2. StoreInvariant /\ WorkerOK => BoundedMessages
  BY <1>1 DEF BoundedMessages
<1> QED BY <1>2, BothHold, PTL

-----------------------------------------------------------------------------
(* What the table says of the chat *)

\* A row that is "sent" after the step was so before, with the same lease.
SentRowsStand ==
    \A k \in DOMAIN outbox' : outbox'[k].status = "sent" =>
        /\ k \in DOMAIN outbox
        /\ outbox[k].status = "sent"
        /\ outbox'[k].token = outbox[k].token

LEMMA SentFacts ==
    ASSUME TypeOK, DOMAIN outbox' = DOMAIN outbox,
           \A k \in DOMAIN outbox :
              outbox'[k] = outbox[k] \/ outbox'[k].status # "sent"
    PROVE  SentRowsStand
BY DEF SentRowsStand

LEMMA OpenedNotSent ==
    ASSUME TypeOK, NEW action, NEW K, Opens(K, action)
    PROVE  SentRowsStand
<1>1. DOMAIN outbox' = DOMAIN outbox \cup K /\ DOMAIN outbox = DOMAIN run
  BY Opens(K, action) DEF Opens, TypeOK, RunsTypeOK
<1>2. \A k \in DOMAIN run : outbox'[k] = outbox[k]
  BY Opens(K, action) DEF Opens
<1>3. \A k \in K : outbox'[k].status # "sent"
  BY Opens(K, action) DEF Opens, StatusesAgree
<1> QED BY <1>1, <1>2, <1>3 DEF SentRowsStand

\* Only mark_delivery_sent makes a row "sent", and nothing moves one that is.
LEMMA SentStands ==
    ASSUME TypeOK,
           \/ OwnerOperation \/ MaterializeDue \/ LapseAll
           \/ \E k \in DOMAIN outbox : LeaseDelivery(k)
           \/ \E l \in issued : Release(l)
           \/ ResetStep \/ Tick \/ UNCHANGED storeVars
    PROVE  SentRowsStand
<1>a. DOMAIN outbox = DOMAIN run
  BY DEF TypeOK, RunsTypeOK
<1>b. UNCHANGED outbox => SentRowsStand
  BY DEF SentRowsStand
<1>c. ASSUME NEW S, outbox' = OutboxCancelled(S) PROVE SentRowsStand
  <2>1. DOMAIN outbox' = DOMAIN outbox
    BY <1>c DEF OutboxCancelled
  <2> QED BY <1>a, <1>c, <2>1, OutboxCancelledFacts, SentFacts
<1>1. ASSUME NEW i \in DOMAIN task, NEW target \in {"cancelled", "completed"},
             Finish(i, target)
      PROVE  SentRowsStand
  BY <1>1, <1>c DEF Finish, CloseRows
<1>2. ASSUME NEW i \in DOMAIN task, NEW tok \in ActionTokens, Snooze(i, tok)
      PROVE  SentRowsStand
  BY <1>2, SnoozeOpens, OpenedNotSent
<1>3. CASE OwnerOperation
  BY <1>b, <1>1, <1>2, <1>3 DEF OwnerOperation, CreateDraft, MarkAwaiting, Activate
<1>4. CASE MaterializeDue
  BY <1>4, MaterializeOpens, OpenedNotSent
<1>5. CASE LapseAll
  BY <1>5, <1>c DEF LapseAll
<1>6. ASSUME NEW k \in DOMAIN outbox, LeaseDelivery(k) PROVE SentRowsStand
  <2>1. /\ DOMAIN outbox' = DOMAIN outbox /\ outbox'[k].status = "leased"
        /\ \A o \in DOMAIN outbox \ {k} :
              outbox'[o] = outbox[o] \/ outbox'[o].status = "cancelled"
    <3>1. PICK passed \in SUBSET Eligible : \A o \in DOMAIN run \ {k} :
            outbox'[o] = OutboxCancelled(passed)[o]
      BY <1>6, LeaseFacts
    <3>2. outbox' \in [DOMAIN run -> OutboxRow] /\ outbox'[k].status = "leased"
      BY <1>6, LeaseFacts
    <3>3. \A o \in DOMAIN run :
            \/ OutboxCancelled(passed)[o] = outbox[o]
            \/ OutboxCancelled(passed)[o].status = "cancelled"
      BY OutboxCancelledFacts
    <3> QED BY <1>a, <3>1, <3>2, <3>3
  <2> QED BY <2>1, SentFacts
<1>7. ASSUME NEW l \in issued, Release(l) PROVE SentRowsStand
  <2>1. CASE ReleaseHeld(l)
    <3>1. PICK s \in {"failed", "pending"}, a \in {outbox[l.key].avail, now + RetryDelay} :
            outbox' = [outbox EXCEPT ![l.key].status = s, ![l.key].avail = a,
                                     ![l.key].token = None, ![l.key].until = None]
      BY <2>1 DEF ReleaseHeld
    <3>2. \A k \in DOMAIN outbox : outbox[k] \in OutboxRow
      BY DEF TypeOK, RunsTypeOK
    <3>3. /\ DOMAIN outbox' = DOMAIN outbox
          /\ \A k \in DOMAIN outbox :
                outbox'[k] = outbox[k] \/ outbox'[k].status # "sent"
      BY <3>1, <3>2 DEF OutboxRow
    <3> QED BY <3>3, SentFacts
  <2>2. CASE UNCHANGED storeVars
    BY <1>b, <2>2 DEF storeVars, rows
  <2> QED BY <1>7, <2>1, <2>2 DEF Release
<1>8. CASE StorePurge
  BY <1>8 DEF StorePurge, Empty, SentRowsStand
<1>9. CASE ResetStep \/ Tick \/ UNCHANGED storeVars
  BY <1>b, <1>8, <1>9 DEF ResetStep, StoreBeginReset, StoreQuiesce, StoreCommitReset,
                          StoreAbandonReset, Tick, rows, storeVars
<1> QED BY <1>3, <1>4, <1>5, <1>6, <1>7, <1>9

\* mark_delivery_sent records the message whatever became of its row.
LEMMA MarkRecords ==
    ASSUME StoreInvariant, NEW l \in issued, MarkSent(l)
    PROVE  /\ \/ l \in audit'
              \/ /\ l.key \in DOMAIN run'
                 /\ run'[l.key].status = "delivered"
                 /\ outbox'[l.key].token = l
           /\ \A k \in DOMAIN outbox' : outbox'[k].status = "sent" =>
                 \/ outbox'[k].token = l
                 \/ /\ k \in DOMAIN outbox
                    /\ outbox[k].status = "sent" /\ outbox'[k].token = outbox[k].token
<1>a. /\ DOMAIN outbox = DOMAIN run
      /\ \A k \in DOMAIN run : run[k] \in RunRow /\ outbox[k] \in OutboxRow
  BY DEF StoreInvariant, TypeOK, RunsTypeOK
<1>1. CASE DeliveryIsCurrent(l)
  <2>1. /\ outbox' = [outbox EXCEPT ![l.key].status = "sent", ![l.key].until = None]
        /\ run' = [run EXCEPT ![l.key].status = "delivered"]
        /\ l.key \in DOMAIN outbox /\ outbox[l.key].token = l
    BY <1>1, MarkSent(l) DEF MarkSent, DeliveryIsCurrent, HoldsLease
  <2>2. run'[l.key].status = "delivered" /\ l.key \in DOMAIN run'
    BY <1>a, <2>1 DEF RunRow
  <2>3. /\ DOMAIN outbox' = DOMAIN outbox
        /\ outbox'[l.key].token = l
        /\ \A k \in DOMAIN outbox : k # l.key => outbox'[k] = outbox[k]
    BY <1>a, <2>1 DEF OutboxRow
  <2> QED BY <2>2, <2>3
<1>2. CASE ~DeliveryIsCurrent(l)
  <2>1. UNCHANGED <<run, outbox>> /\ audit' = IF AlreadySent(l) THEN audit ELSE audit \cup {l}
    BY <1>2, MarkSent(l) DEF MarkSent
  <2>2. CASE AlreadySent(l)
    <3>1. l.key \in DOMAIN outbox /\ outbox[l.key].token = l /\ outbox[l.key].status = "sent"
      BY <2>2 DEF AlreadySent, HoldsLease
    <3>2. run[l.key].status = "delivered"
      BY <1>a, <3>1 DEF StoreInvariant, RunOutboxAgree, StatusesAgree
    <3> QED BY <1>a, <2>1, <3>1, <3>2
  <2>3. CASE ~AlreadySent(l)
    BY <2>1, <2>3
  <2> QED BY <2>2, <2>3
<1> QED BY <1>1, <1>2

SentWasAccepted ==
    \A k \in DOMAIN outbox : outbox[k].status = "sent" => outbox[k].token \in accepted

LEMMA SentStep ==
    ASSUME StoreInvariant, WorkerOK, SentWasAccepted, [DeliveryNext]_deliveryVars
    PROVE  SentWasAccepted'
<1>a. ASSUME SentRowsStand, accepted \subseteq accepted' PROVE SentWasAccepted'
  BY <1>a DEF SentRowsStand, SentWasAccepted
<1>b. TypeOK
  BY DEF StoreInvariant
<1>1. CASE WorkerMarks
  <2>1. worker.lease \in issued /\ worker.lease \in accepted /\ accepted' = accepted
        /\ MarkSent(worker.lease)
    BY <1>1 DEF WorkerMarks, WorkerOK, At
  <2> QED BY <2>1, MarkRecords DEF SentWasAccepted
<1>2. CASE WorkerReleases
  <2>1. worker.lease \in issued /\ accepted' = accepted /\ Release(worker.lease)
    BY <1>2 DEF WorkerReleases, WorkerOK, At
  <2> QED BY <1>a, <1>b, <2>1, SentStands
<1>3. CASE SchedulerRun \/ WorkerLapses \/ WorkerClaims
  BY <1>a, <1>b, <1>3, SentStands DEF SchedulerRun, WorkerLapses, WorkerClaims
<1>4. CASE OwnerActs \/ TimePasses
  BY <1>a, <1>b, <1>4, SentStands DEF OwnerActs, TimePasses, workerVars
<1>5. CASE ResetBegins \/ ResetProceeds \/ ResetRaises
  BY <1>a, <1>b, <1>5, SentStands
     DEF ResetBegins, ResetProceeds, ResetRaises, ResetQuiesces, ResetPurges,
         ResetCommits, ResetStep, workerVars
<1>6. CASE UNCHANGED outbox /\ accepted \subseteq accepted'
  BY <1>6 DEF SentWasAccepted
<1>7. CASE \/ UNCHANGED deliveryVars
           \/ SchedulerRests \/ WorkerSkips \/ WorkerSends \/ SendReturns
           \/ SendRaises \/ StorageFails \/ Restart
           \/ \E l \in inflight : TelegramAccepts(l)
  BY <1>6, <1>7 DEF deliveryVars, SchedulerRests, WorkerSkips, WorkerSends, SendReturns,
                    SendRaises, StorageFails, Restart, TelegramAccepts,
                    storeVars, rows
<1> QED
  BY <1>1, <1>2, <1>3, <1>4, <1>5, <1>7 DEF DeliveryNext, WorkerStep

\* A run the table calls delivered has an accepted message, that of its lease.
THEOREM DeliveredIsTrue == DeliverySpec => []DeliveredWasAccepted
<1>1. DeliveryInit => SentWasAccepted
  BY DEF DeliveryInit, Init, Empty, SentWasAccepted
<1>2. StoreInvariant /\ SentWasAccepted => DeliveredWasAccepted
  BY DEF StoreInvariant, TypeOK, RunsTypeOK, RunOutboxAgree, StatusesAgree,
         SentWasAccepted, DeliveredWasAccepted
<1> QED BY <1>1, <1>2, SentStep, BothHold, PTL DEF DeliverySpec

\* A message whose handle came back is in the table or in the audit.
THEOREM AcceptedLeavesATrace == DeliverySpec => AcceptedIsRecorded
<1>1. ASSUME StoreInvariant, WorkerOK, WorkerMarks
      PROVE  \/ worker.lease \in audit'
             \/ /\ worker.lease.key \in DOMAIN run'
                /\ run'[worker.lease.key].status = "delivered"
                /\ outbox'[worker.lease.key].token = worker.lease
  <2>1. worker.lease \in issued /\ MarkSent(worker.lease)
    BY <1>1 DEF WorkerMarks, WorkerOK, At
  <2> QED BY <1>1, <2>1, MarkRecords
<1>2. ASSUME StoreInvariant, WorkerOK, [DeliveryNext]_deliveryVars
      PROVE  [WorkerMarks =>
                \/ worker.lease \in audit'
                \/ /\ worker.lease.key \in DOMAIN run'
                   /\ run'[worker.lease.key].status = "delivered"
                   /\ outbox'[worker.lease.key].token = worker.lease]_deliveryVars
  BY <1>1, <1>2
<1> QED BY <1>2, BothHold, PTL DEF DeliverySpec, AcceptedIsRecorded

-----------------------------------------------------------------------------
(* Types *)

\* What WorkerOK does not say of the loop: without a delivery the worker's hand
\* is empty.
LoopTypes ==
    /\ worker.step \in {"idle", "polled"} => worker.lease = None
    /\ quiesced \subseteq Nat
    /\ abandons \in 0..MaxAbandons

LEMMA LoopTypesStep ==
    ASSUME StoreInvariant, WorkerOK, LoopTypes, [DeliveryNext]_deliveryVars
    PROVE  LoopTypes'
<1>1. CASE UNCHANGED deliveryVars
  BY <1>1 DEF deliveryVars, LoopTypes
<1>2. CASE \/ SchedulerRun \/ SchedulerRests \/ WorkerLapses \/ WorkerSkips
           \/ WorkerMarks \/ WorkerReleases
  <2>1. worker' \in {Idle, Polled} /\ UNCHANGED <<quiesced, abandons>>
    BY <1>2 DEF SchedulerRun, SchedulerRests, WorkerLapses, WorkerSkips, WorkerMarks,
                WorkerReleases
  <2> QED BY <2>1 DEF Idle, Polled, LoopTypes
<1>3. CASE WorkerClaims
  <2>1. worker'.step = "claimed" /\ UNCHANGED <<quiesced, abandons>>
    BY <1>3 DEF WorkerClaims
  <2> QED BY <2>1 DEF LoopTypes
<1>4. CASE WorkerSends \/ SendReturns \/ SendRaises
  <2>1. worker'.step \in {"sending", "sent", "failed"} /\ UNCHANGED <<quiesced, abandons>>
    BY <1>4 DEF WorkerSends, SendReturns, SendRaises, MoveTo, WorkerOK
  <2> QED BY <2>1 DEF LoopTypes
<1>5. ASSUME NEW l \in inflight, TelegramAccepts(l) PROVE LoopTypes'
  BY <1>5 DEF TelegramAccepts, LoopTypes
<1>6. CASE StorageFails \/ Restart \/ ResetRaises
  <2>1. abandons' \in 0..MaxAbandons
    BY <1>6, AbandonAssumption DEF StorageFails, Restart, ResetRaises, Abandon, LoopTypes
  <2>2. /\ worker' \in {worker, Idle, Polled} /\ quiesced' \in {quiesced, {}}
    BY <1>6 DEF StorageFails, Restart, ResetRaises
  <2> QED BY <2>1, <2>2 DEF LoopTypes, Idle, Polled
<1>7. CASE OwnerActs \/ ResetBegins \/ ResetPurges \/ ResetCommits \/ TimePasses
  BY <1>7 DEF OwnerActs, ResetBegins, ResetPurges, ResetCommits, TimePasses, workerVars, LoopTypes
<1>8. CASE ResetQuiesces
  <2>1. profile.epoch - 1 \in Nat
    BY DEF StoreInvariant, TypeOK, LifecycleTypeOK
  <2> QED BY <1>8, <2>1 DEF ResetQuiesces, LoopTypes
<1> QED BY <1>1, <1>2, <1>3, <1>4, <1>5, <1>6, <1>7, <1>8
        DEF DeliveryNext, WorkerStep, ResetProceeds

\* The loop's own state is of its type, and every lease in it was issued by the store.
THEOREM DeliveryTypes == DeliverySpec => []DeliveryTypeOK
<1>1. DeliveryInit => LoopTypes
  BY AbandonAssumption DEF DeliveryInit, Idle, LoopTypes
<1>2. StoreInvariant /\ WorkerOK /\ LoopTypes /\ [DeliveryNext]_deliveryVars => LoopTypes'
  BY LoopTypesStep
<1>3. StoreInvariant /\ WorkerOK /\ LoopTypes => DeliveryTypeOK
  <2> SUFFICES ASSUME StoreInvariant, WorkerOK, LoopTypes PROVE DeliveryTypeOK
    OBVIOUS
  <2>1. TypeOK /\ issued \subseteq Lease
    BY DEF StoreInvariant, TypeOK
  <2>2. worker.lease \in Lease \cup {None}
    BY <2>1 DEF WorkerOK, LoopTypes
  <2>3. worker \in [step : WorkerSteps, lease : Lease \cup {None}]
    BY <2>2 DEF WorkerOK
  <2> QED BY <2>1, <2>3 DEF WorkerOK, LoopTypes, DeliveryTypeOK
<1> QED BY <1>1, <1>2, <1>3, BothHold, PTL DEF DeliverySpec
=============================================================================
