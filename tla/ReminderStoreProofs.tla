------------------------- MODULE ReminderStoreProofs -------------------------
(***************************************************************************)
(* Safety of ReminderStore for every value of its constants: its state is  *)
(* of its type, the run and outbox tables agree, the store implements      *)
(* RunLedger, StoreInvariant is inductive, and the theorems that follow.   *)
(***************************************************************************)
EXTENDS ReminderStore, TLAPS

-----------------------------------------------------------------------------
(* The helpers *)

\* What an insertion or replacement of rows does to a table.
LEMMA UpsertDomain ==
    ASSUME NEW f, NEW g
    PROVE  DOMAIN Upsert(f, g) = DOMAIN f \cup DOMAIN g
    BY DEF Upsert

LEMMA UpsertNew ==
    ASSUME NEW f, NEW g, NEW x \in DOMAIN g
    PROVE  Upsert(f, g)[x] = g[x]
    BY DEF Upsert

LEMMA UpsertOld ==
    ASSUME NEW f, NEW g, NEW x \in DOMAIN f \ DOMAIN g
    PROVE  Upsert(f, g)[x] = f[x]
    BY DEF Upsert

LEMMA UpsertType ==
    ASSUME NEW S, NEW D, NEW E, NEW f \in [D -> S], NEW g \in [E -> S]
    PROVE  Upsert(f, g) \in [D \cup E -> S]
    BY DEF Upsert

\* An instant of a plan is a time, a refusal of the zone, or the end.
LEMMA InstantType ==
    ASSUME NEW p \in Plans, NEW n
    PROVE  Instant(p, n) \in Nat \cup {Unresolvable, None}
    BY PlanAssumption DEF Instant, PlanType

LEMMA AvailableType ==
    ASSUME NEW p \in Plans, NEW t \in Nat
    PROVE  Available(p, t) \in Nat \cup {Unresolvable}
    BY PlanAssumption DEF Available, PlanType

\* The job row that JobAt computes, and that an active one has a cursor.
LEMMA JobAtType ==
    ASSUME NEW j \in JobRow, NEW n \in Nat, n > 0
    PROVE  /\ JobAt(j, n) \in JobRow
           /\ JobAt(j, n).status = "active" => JobAt(j, n).next \in Nat
           /\ JobAt(j, n).status \in {"active", "needs_review", "completed"}
<1>1. j.plan \in Plans
    BY DEF JobRow
<1>2. Instant(j.plan, n) \in Nat \cup {Unresolvable, None}
    BY <1>1, InstantType
<1>. DEFINE at == Instant(j.plan, n)
            st == IF at = None THEN "completed"
                  ELSE IF at = Unresolvable THEN "needs_review" ELSE "active"
            nx == IF at = Unresolvable THEN None ELSE at
<1>3. JobAt(j, n) = [j EXCEPT !.emitted = n - 1, !.next = nx, !.status = st]
    BY DEF JobAt
<1>4. n - 1 \in Nat
    OBVIOUS
<1>5. nx \in Nat \cup {None} /\ st \in JobStatuses /\ (st = "active" => nx \in Nat)
    BY <1>2, NullAssumption DEF JobStatuses
<1>. HIDE DEF nx, st
<1>. QED
  BY <1>3, <1>4, <1>5 DEF JobRow, st

\* Moving rows of the run table touches nothing but the status of these rows.
LEMMA RunsMovedFacts ==
    ASSUME TypeOK, NEW S, NEW s \in RunStatuses
    PROVE  /\ RunsMoved(S, s) \in [DOMAIN run -> RunRow]
           /\ \A k \in DOMAIN run :
                 /\ RunsMoved(S, s)[k].action = run[k].action
                 /\ k \in S => RunsMoved(S, s)[k].status = s
                 /\ k \notin S => RunsMoved(S, s)[k] = run[k]
<1>1. \A k \in DOMAIN run :
        /\ run[k] \in RunRow
        /\ [run[k] EXCEPT !.status = s] \in RunRow
        /\ [run[k] EXCEPT !.status = s].status = s
        /\ [run[k] EXCEPT !.status = s].action = run[k].action
    BY DEF TypeOK, RunsTypeOK, RunRow
<1>. QED
  BY <1>1 DEF RunsMoved

\* Cancelling rows of the outbox also drops their lease, and keeps the rest.
LEMMA OutboxCancelledFacts ==
    ASSUME TypeOK, NEW S
    PROVE  /\ OutboxCancelled(S) \in [DOMAIN run -> OutboxRow]
           /\ \A k \in DOMAIN run :
                 /\ OutboxCancelled(S)[k].epoch = outbox[k].epoch
                 /\ OutboxCancelled(S)[k].attempt = outbox[k].attempt
                 /\ k \in S => OutboxCancelled(S)[k].status = "cancelled"
                 /\ k \notin S => OutboxCancelled(S)[k] = outbox[k]
<1>. DEFINE gone(k) == [outbox[k] EXCEPT !.status = "cancelled", !.token = None,
                                         !.until = None]
<1>1. \A k \in DOMAIN run :
        /\ outbox[k] \in OutboxRow
        /\ gone(k) \in OutboxRow
        /\ gone(k).status = "cancelled"
        /\ gone(k).epoch = outbox[k].epoch
        /\ gone(k).attempt = outbox[k].attempt
    BY DEF TypeOK, RunsTypeOK, OutboxRow, OutboxStatuses
<1>2. DOMAIN outbox = DOMAIN run
    BY DEF TypeOK, RunsTypeOK
<1>3. OutboxCancelled(S) = [k \in DOMAIN run |->
                              IF k \in S THEN gone(k) ELSE outbox[k]]
    BY <1>2 DEF OutboxCancelled
<1>. HIDE DEF gone
<1>. QED
  BY <1>1, <1>3

\* The rows of a new run.
LEMMA NewRowTypes ==
    ASSUME NEW missed \in BOOLEAN, NEW action \in ActionTokens \cup {None},
           NEW e \in Nat, NEW a \in Nat
    PROVE  /\ NewRunRow(missed, action) \in RunRow
           /\ NewOutboxRow(missed, e, a) \in OutboxRow
    BY DEF NewRunRow, NewOutboxRow, RunRow, OutboxRow, RunStatuses,
           OutboxStatuses

\* A task's row after its job moved.
LEMMA TaskAfterType ==
    ASSUME NEW t \in TaskRow, NEW j
    PROVE  TaskAfter(t, j) \in TaskRow
    BY DEF TaskAfter, TaskRow, TaskStatuses

\* What a returned lease did to the two tables: row k holds it, some overdue
\* rows of the others are dropped and their open runs missed.
LEMMA LeaseFacts ==
    ASSUME TypeOK, NEW k \in DOMAIN outbox, LeaseDelivery(k)
    PROVE  /\ k \in DOMAIN run /\ k \in Eligible /\ NextLease(k) \in Lease
           /\ run' \in [DOMAIN run -> RunRow]
           /\ outbox' \in [DOMAIN run -> OutboxRow]
           /\ outbox'[k].status = "leased" /\ outbox'[k].token = NextLease(k)
           /\ outbox'[k].attempt = outbox[k].attempt + 1
           /\ outbox'[k].epoch = outbox[k].epoch
           /\ run'[k].action = run[k].action
           /\ run'[k].status = IF run[k].status \in {"due", "claimed"}
                                THEN "claimed" ELSE run[k].status
           /\ \E passed \in SUBSET Eligible : \A m \in DOMAIN run \ {k} :
                 /\ outbox'[m] = OutboxCancelled(passed)[m]
                 /\ run'[m] = RunsMoved(LapsedRuns(passed), "missed")[m]
<1>. DEFINE before == {o \in Eligible : outbox[o].avail < outbox[k].avail}
            ties == {o \in Eligible : outbox[o].avail = outbox[k].avail /\ Overdue(o)}
            row == [outbox[k] EXCEPT !.status = "leased",
                      !.attempt = outbox[k].attempt + 1, !.token = NextLease(k),
                      !.until = now + LeaseSeconds]
<1>1. PICK some \in SUBSET ties :
        /\ outbox' = [OutboxCancelled(before \cup some) EXCEPT ![k] =
               [outbox[k] EXCEPT !.status = "leased",
                      !.attempt = NextLease(k).attempt, !.token = NextLease(k),
                      !.until = now + LeaseSeconds]]
        /\ run' = [RunsMoved(LapsedRuns(before \cup some), "missed") EXCEPT
              ![k].status = IF @ \in {"due", "claimed"} THEN "claimed" ELSE @]
    BY DEF LeaseDelivery
<1>. DEFINE passed == before \cup some
            A == OutboxCancelled(passed)
            B == RunsMoved(LapsedRuns(passed), "missed")
<1>2. /\ k \in DOMAIN run /\ k \in Eligible /\ k \notin passed
      /\ passed \in SUBSET Eligible
    BY DEF LeaseDelivery, TypeOK, RunsTypeOK
<1>3. /\ outbox[k] \in OutboxRow /\ outbox[k].attempt + 1 \in Nat
      /\ outbox[k].epoch \in Nat /\ k \in Keys
    BY <1>2 DEF TypeOK, RunsTypeOK, TasksTypeOK, OutboxRow, Keys
<1>4. NextLease(k) \in Lease /\ NextLease(k).attempt = outbox[k].attempt + 1
    BY <1>3 DEF NextLease, Lease
<1>5. now + LeaseSeconds \in Nat
    BY PolicyAssumption DEF TypeOK
<1>6. /\ row \in OutboxRow
      /\ row.status = "leased" /\ row.token = NextLease(k)
      /\ row.attempt = outbox[k].attempt + 1 /\ row.epoch = outbox[k].epoch
  <2>1. \A m, u \in Nat, l \in Lease :
          [outbox[k] EXCEPT !.status = "leased", !.attempt = m, !.token = l,
                            !.until = u] \in OutboxRow
      BY <1>3 DEF OutboxRow, OutboxStatuses
  <2>2. row \in OutboxRow
      BY <1>3, <1>4, <1>5, <2>1
  <2>. QED
    BY <1>3, <2>2 DEF OutboxRow
<1>7. A \in [DOMAIN run -> OutboxRow] /\ B \in [DOMAIN run -> RunRow]
    BY OutboxCancelledFacts, RunsMovedFacts DEF RunStatuses
<1>8. B[k] = run[k]
    BY <1>2, RunsMovedFacts DEF RunStatuses, LapsedRuns
<1>9. outbox' = [A EXCEPT ![k] = row]
    BY <1>1, <1>4
<1>10. run' = [B EXCEPT ![k].status =
                 IF @ \in {"due", "claimed"} THEN "claimed" ELSE @]
    BY <1>1
<1>. HIDE DEF passed, A, B, row
<1>11. outbox' \in [DOMAIN run -> OutboxRow] /\ outbox'[k] = row
       /\ \A m \in DOMAIN run \ {k} : outbox'[m] = A[m]
    BY <1>2, <1>6, <1>7, <1>9
<1>12. run' \in [DOMAIN run -> RunRow] /\ \A m \in DOMAIN run \ {k} : run'[m] = B[m]
    BY <1>2, <1>7, <1>10 DEF RunRow, RunStatuses
<1>13. run'[k].action = run[k].action
       /\ run'[k].status = IF run[k].status \in {"due", "claimed"}
                            THEN "claimed" ELSE run[k].status
    BY <1>2, <1>7, <1>8, <1>10 DEF RunRow
<1>. QED
  BY <1>2, <1>4, <1>6, <1>11, <1>12, <1>13 DEF A, B

-----------------------------------------------------------------------------
(* The actions that insert runs *)

\* The rows r and o were inserted under the new keys K: each pair belongs to an
\* active task, bears its epoch, and is open or missed from the start.
Inserts(K, r, o, action) ==
    /\ K \in SUBSET ((DOMAIN task) \X Nat)
    /\ K \cap DOMAIN run = {}
    /\ r \in [K -> RunRow]
    /\ o \in [K -> OutboxRow]
    /\ run' = Upsert(run, r)
    /\ outbox' = Upsert(outbox, o)
    /\ \A k \in K :
          /\ task[k[1]].status = "active"
          /\ CurrentEpoch(task[k[1]].epoch)
          /\ \E missed \in BOOLEAN, a \in Nat :
                /\ r[k] = NewRunRow(missed, action)
                /\ o[k] = NewOutboxRow(missed, task[k[1]].epoch, a)

LEMMA SnoozeInserts ==
    ASSUME TypeOK, NEW i \in DOMAIN task, NEW tok \in ActionTokens, Snooze(i, tok)
    PROVE  \E K, r, o : Inserts(K, r, o, tok)
<1>. DEFINE s == now + SnoozeDelay
            a == Available(job[i].plan, s)
            missed == a > s + job[i].plan.grace
            K == {<<i, s>>}
            r == [k \in K |-> NewRunRow(missed, tok)]
            o == [k \in K |-> NewOutboxRow(missed, task[i].epoch, a)]
<1>1. s \in Nat /\ job[i].plan \in Plans /\ task[i].epoch \in Nat
    BY PolicyAssumption DEF TypeOK, TasksTypeOK, JobRow, TaskRow
<1>2. a \in Nat
    BY <1>1, AvailableType, Snooze(i, tok) DEF Snooze, InsertSnooze
<1>3. missed \in BOOLEAN
    OBVIOUS
<1>4. /\ run' = Upsert(run, r) /\ outbox' = Upsert(outbox, o)
      /\ task[i].status = "active" /\ CurrentEpoch(task[i].epoch)
      /\ <<i, s>> \notin DOMAIN run
    BY Snooze(i, tok) DEF Snooze, InsertSnooze
<1>. HIDE DEF missed, a, s
<1>5. r \in [K -> RunRow] /\ o \in [K -> OutboxRow]
    BY <1>1, <1>2, <1>3, NewRowTypes
<1>6. K \in SUBSET ((DOMAIN task) \X Nat) /\ K \cap DOMAIN run = {}
    BY <1>1, <1>4
<1>7. ASSUME NEW k \in K
      PROVE  /\ task[k[1]].status = "active"
             /\ CurrentEpoch(task[k[1]].epoch)
             /\ r[k] = NewRunRow(missed, tok)
             /\ o[k] = NewOutboxRow(missed, task[k[1]].epoch, a)
    BY <1>4
<1>. HIDE DEF K, r, o
<1>. QED
  BY <1>2, <1>3, <1>4, <1>5, <1>6, <1>7 DEF Inserts

\* What the scheduler reads of a due job and of the run it makes for it.
LEMMA FreshJobFacts ==
    ASSUME TypeOK, NEW i \in FreshJobs
    PROVE  /\ i \in DOMAIN task /\ i \in TaskIds
           /\ task[i] \in TaskRow /\ task[i].epoch \in Nat
           /\ job[i] \in JobRow /\ job[i].next \in Nat
           /\ NextKey(i) = <<i, job[i].next>> /\ NextKey(i) \notin DOMAIN run
           /\ NextAvailable(i) \in Nat \cup {Unresolvable}
           /\ task[i].status = "active" /\ job[i].status = "active"
           /\ CurrentEpoch(task[i].epoch)
<1>1. i \in DOMAIN task /\ i \in TaskIds /\ task[i] \in TaskRow
      /\ job[i] \in JobRow /\ job[i].next \in Nat
    BY DEF FreshJobs, DueBatch, DueJobs, TypeOK, TasksTypeOK
<1>2. NextAvailable(i) \in Nat \cup {Unresolvable}
    BY <1>1, AvailableType DEF NextAvailable, JobRow
<1>. QED
  BY <1>1, <1>2 DEF FreshJobs, DueBatch, DueJobs, NextKey, TaskRow

LEMMA MaterializeInserts ==
    ASSUME TypeOK, MaterializeDue
    PROVE  \E K, r, o : Inserts(K, r, o, None)
<1>. DEFINE K == {NextKey(i) : i \in FreshJobs}
            avail(k) == NextAvailable(k[1])
            missed(k) == MissedAtOnce(job[k[1]].plan, k[2], avail(k))
            from(k) == IF avail(k) = Unresolvable THEN k[2] ELSE avail(k)
            r == [k \in K |-> NewRunRow(missed(k), None)]
            o == [k \in K |-> NewOutboxRow(missed(k), task[k[1]].epoch, from(k))]
<1>1. ASSUME NEW k \in K
      PROVE  /\ k \in (DOMAIN task) \X Nat /\ k \notin DOMAIN run
             /\ task[k[1]].status = "active" /\ CurrentEpoch(task[k[1]].epoch)
             /\ missed(k) \in BOOLEAN /\ from(k) \in Nat
             /\ task[k[1]].epoch \in Nat
  <2>1. PICK i \in FreshJobs : k = NextKey(i)
      OBVIOUS
  <2>2. k = <<i, job[i].next>> /\ k[1] = i /\ k[2] \in Nat
      BY <2>1, FreshJobFacts
  <2>. QED
    BY <2>1, <2>2, FreshJobFacts DEF MissedAtOnce
<1>2. run' = Upsert(run, r) /\ outbox' = Upsert(outbox, o)
    BY MaterializeDue DEF MaterializeDue
<1>. HIDE DEF K, missed, from
<1>3. r \in [K -> RunRow] /\ o \in [K -> OutboxRow]
    BY <1>1, NewRowTypes
<1>4. \A k \in K : r[k] = NewRunRow(missed(k), None)
                   /\ o[k] = NewOutboxRow(missed(k), task[k[1]].epoch, from(k))
    OBVIOUS
<1>5. K \in SUBSET ((DOMAIN task) \X Nat) /\ K \cap DOMAIN run = {}
    BY <1>1
<1>. HIDE DEF r, o
<1>. QED
  BY <1>1, <1>2, <1>3, <1>4, <1>5 DEF Inserts

-----------------------------------------------------------------------------
(* Type correctness *)

LEMMA TypeInit == Init => TypeOK
<1>. SUFFICES ASSUME Init PROVE TypeOK
    OBVIOUS
<1>1. LifecycleTypeOK
    BY DEF Init, LifecycleInit, LifecycleTypeOK, ProfileStates, ResetSteps
<1>2. DOMAIN Empty = {} /\ \A S : Empty \in [{} -> S]
    BY DEF Empty
<1>. QED
  BY <1>1, <1>2 DEF Init, TypeOK, TasksTypeOK, RunsTypeOK

\* A step that keeps the profile, the clock and the leases, and the types of
\* the four tables, keeps the type.
LEMMA TablesStep ==
    ASSUME TypeOK, UNCHANGED <<profile, reset, now>>, TasksTypeOK', RunsTypeOK',
           issued' \subseteq Lease, audit' \subseteq issued'
    PROVE  TypeOK'
    BY DEF TypeOK, LifecycleTypeOK

\* New tasks, or new values of tasks, with their jobs.
LEMMA TasksUpsert ==
    ASSUME TypeOK,
           NEW I \in SUBSET TaskIds,
           NEW t \in [I -> TaskRow], NEW j \in [I -> JobRow],
           \A i \in I : j[i].status = "active" => j[i].next \in Nat,
           task' = Upsert(task, t), job' = Upsert(job, j)
    PROVE  TasksTypeOK' /\ DOMAIN task' = DOMAIN task \cup I
<1>1. task \in [DOMAIN task -> TaskRow] /\ job \in [DOMAIN task -> JobRow]
      /\ DOMAIN job = DOMAIN task
    BY DEF TypeOK, TasksTypeOK
<1>2. task' \in [DOMAIN task \cup I -> TaskRow]
    BY <1>1, UpsertType
<1>3. job' \in [DOMAIN task \cup I -> JobRow]
    BY <1>1, UpsertType
<1>4. ASSUME NEW x \in DOMAIN task \cup I, job'[x].status = "active"
      PROVE  job'[x].next \in Nat
  <2>1. DOMAIN j = I
      OBVIOUS
  <2>2. CASE x \in I
    <3>1. Upsert(job, j)[x] = j[x]
        BY <2>1, <2>2, UpsertNew
    <3>. QED
      BY <1>4, <2>2, <3>1
  <2>3. CASE x \notin I
    <3>1. Upsert(job, j)[x] = job[x]
        BY <1>1, <2>1, <2>3, UpsertOld
    <3>. QED
      BY <1>4, <2>3, <3>1 DEF TypeOK, TasksTypeOK
  <2>. QED
    BY <2>2, <2>3
<1>. QED
  BY <1>2, <1>3, <1>4 DEF TypeOK, TasksTypeOK

\* New runs, with their outbox rows, of tasks that stay.
LEMMA RunsUpsert ==
    ASSUME TypeOK,
           NEW K \in SUBSET ((DOMAIN task) \X Nat),
           NEW r \in [K -> RunRow], NEW o \in [K -> OutboxRow],
           DOMAIN task' = DOMAIN task,
           run' = Upsert(run, r), outbox' = Upsert(outbox, o)
    PROVE  RunsTypeOK' /\ DOMAIN run' = DOMAIN run \cup K
<1>1. run \in [DOMAIN run -> RunRow] /\ outbox \in [DOMAIN run -> OutboxRow]
    BY DEF TypeOK, RunsTypeOK
<1>2. run' \in [DOMAIN run \cup K -> RunRow]
    BY <1>1, UpsertType
<1>3. outbox' \in [DOMAIN run \cup K -> OutboxRow]
    BY <1>1, UpsertType
<1>. QED
  BY <1>2, <1>3 DEF TypeOK, RunsTypeOK

\* Every step keeps the type: one step of the proof per action.
LEMMA TypeStep == TypeOK /\ [Next]_storeVars => TypeOK'
<1>. SUFFICES ASSUME TypeOK, [Next]_storeVars PROVE TypeOK'
    OBVIOUS
<1>1. ASSUME NEW p \in Plans, CreateDraft(p) PROVE TypeOK'
  <2>1. PICK i \in TaskIds :
          /\ task' = Upsert(task, [x \in {i} |->
               [status |-> "awaiting_confirmation", epoch |-> profile.epoch]])
          /\ job' = Upsert(job, [x \in {i} |->
               [status |-> "draft", next |-> None, emitted |-> 0, plan |-> p]])
      BY <1>1 DEF CreateDraft
  <2>. DEFINE t == [x \in {i} |->
                 [status |-> "awaiting_confirmation", epoch |-> profile.epoch]]
              j == [x \in {i} |->
                 [status |-> "draft", next |-> None, emitted |-> 0, plan |-> p]]
  <2>2. t \in [{i} -> TaskRow]
      BY DEF TaskRow, TaskStatuses, TypeOK, LifecycleTypeOK
  <2>3. j \in [{i} -> JobRow] /\ \A x \in {i} : j[x].status # "active"
      BY DEF JobRow, JobStatuses
  <2>4. task' = Upsert(task, t) /\ job' = Upsert(job, j)
      BY <2>1
  <2>. HIDE DEF t, j
  <2>5. TasksTypeOK' /\ DOMAIN task' = DOMAIN task \cup {i}
      BY <2>2, <2>3, <2>4, TasksUpsert
  <2>6. RunsTypeOK'
      BY <1>1, <2>5 DEF CreateDraft, TypeOK, RunsTypeOK
  <2>. QED
    BY <1>1, <2>5, <2>6, TablesStep DEF CreateDraft, TypeOK, Lease
<1>2. ASSUME NEW i \in DOMAIN task, MarkAwaiting(i) PROVE TypeOK'
  <2>1. TasksTypeOK'
      BY <1>2 DEF MarkAwaiting, TypeOK, TasksTypeOK, JobRow, JobStatuses
  <2>2. RunsTypeOK'
      BY <1>2 DEF MarkAwaiting, TypeOK, RunsTypeOK
  <2>. QED
    BY <1>2, <2>1, <2>2, TablesStep DEF MarkAwaiting, TypeOK
<1>3. ASSUME NEW i \in DOMAIN task, Activate(i) PROVE TypeOK'
  <2>1. JobAt(job[i], 1) \in JobRow
        /\ (JobAt(job[i], 1).status = "active" => JobAt(job[i], 1).next \in Nat)
      BY JobAtType DEF TypeOK, TasksTypeOK
  <2>2. job' \in [DOMAIN task -> JobRow]
        /\ \A x \in DOMAIN task : job'[x].status = "active" => job'[x].next \in Nat
      BY <1>3, <2>1 DEF Activate, TypeOK, TasksTypeOK
  <2>3. [task[i] EXCEPT !.status = "active"] \in TaskRow
      BY DEF TypeOK, TasksTypeOK, TaskRow, TaskStatuses
  <2>4. task' \in [DOMAIN task -> TaskRow]
      BY <1>3, <2>3, TaskAfterType DEF Activate, TypeOK, TasksTypeOK
  <2>5. TasksTypeOK'
      BY <2>2, <2>4 DEF TypeOK, TasksTypeOK
  <2>6. RunsTypeOK'
      BY <1>3, <2>4 DEF Activate, TypeOK, RunsTypeOK
  <2>. QED
    BY <1>3, <2>5, <2>6, TablesStep DEF Activate, TypeOK
<1>4. ASSUME NEW i \in DOMAIN task, NEW target \in {"cancelled", "completed"},
             Finish(i, target)
      PROVE TypeOK'
  <2>1. task' \in [DOMAIN task -> TaskRow]
      BY <1>4 DEF Finish, CloseRows, RunsOf, OutboxOf, TypeOK, TasksTypeOK, TaskRow, TaskStatuses
  <2>2. job' \in [DOMAIN task -> JobRow]
        /\ \A x \in DOMAIN task : job'[x].status = "active" => job'[x].next \in Nat
    <3>1. CASE job' = job
        BY <3>1 DEF TypeOK, TasksTypeOK
    <3>2. CASE job' = [job EXCEPT ![i].status = target, ![i].next = None]
        BY <3>2 DEF TypeOK, TasksTypeOK, JobRow, JobStatuses
    <3>. QED
      BY <1>4, <3>1, <3>2 DEF Finish, CloseRows, RunsOf, OutboxOf
  <2>3. run' \in [DOMAIN run -> RunRow]
      BY <1>4, RunsMovedFacts DEF Finish, CloseRows, RunsOf, OutboxOf, RunStatuses
  <2>4. outbox' \in [DOMAIN run -> OutboxRow]
      BY <1>4, OutboxCancelledFacts DEF Finish, CloseRows, RunsOf, OutboxOf
  <2>5. TasksTypeOK' /\ RunsTypeOK'
      BY <2>1, <2>2, <2>3, <2>4 DEF TypeOK, TasksTypeOK, RunsTypeOK
  <2>. QED
    BY <1>4, <2>5, TablesStep DEF Finish, CloseRows, RunsOf, OutboxOf, TypeOK
<1>5. ASSUME NEW i \in DOMAIN task, NEW tok \in ActionTokens, Snooze(i, tok)
      PROVE TypeOK'
  <2>1. PICK K, r, o : Inserts(K, r, o, tok)
      BY <1>5, SnoozeInserts
  <2>2. RunsTypeOK'
      BY <1>5, <2>1, RunsUpsert DEF Snooze, InsertSnooze, Inserts
  <2>3. TasksTypeOK'
      BY <1>5 DEF Snooze, InsertSnooze, TypeOK, TasksTypeOK
  <2>. QED
    BY <1>5, <2>2, <2>3, TablesStep DEF Snooze, InsertSnooze, TypeOK
<1>6. MaterializeDue => TypeOK'
  <2>. SUFFICES ASSUME MaterializeDue PROVE TypeOK'
      OBVIOUS
  <2>. DEFINE t == [i \in FreshJobs |-> TaskAfter(task[i], JobAfterRun(i))]
              j == [i \in FreshJobs |-> JobAfterRun(i)]
  <2>1. ASSUME NEW i \in FreshJobs
        PROVE  /\ JobAfterRun(i) \in JobRow
               /\ JobAfterRun(i).status = "active" => JobAfterRun(i).next \in Nat
    <3>1. job[i] \in JobRow /\ job[i].emitted + 2 \in Nat /\ job[i].emitted + 2 > 0
        BY FreshJobFacts DEF JobRow
    <3>2. CASE NextAvailable(i) = Unresolvable
      <4>1. \A m \in Nat :
              LET n == [job[i] EXCEPT !.status = "needs_review", !.next = None,
                                      !.emitted = m]
              IN  n \in JobRow /\ n.status = "needs_review"
          BY <3>1 DEF JobRow, JobStatuses
      <4>2. job[i].emitted + 1 \in Nat
          BY <3>1 DEF JobRow
      <4>. QED
        BY <3>2, <4>1, <4>2 DEF JobAfterRun
    <3>3. CASE NextAvailable(i) # Unresolvable
        BY <3>1, <3>3, JobAtType DEF JobAfterRun
    <3>. QED
      BY <3>2, <3>3
  <2>2. t \in [FreshJobs -> TaskRow]
      BY FreshJobFacts, TaskAfterType
  <2>3. j \in [FreshJobs -> JobRow]
        /\ \A i \in FreshJobs : j[i].status = "active" => j[i].next \in Nat
      BY <2>1
  <2>4. task' = Upsert(task, t) /\ job' = Upsert(job, j)
      BY DEF MaterializeDue
  <2>5. FreshJobs \in SUBSET TaskIds /\ FreshJobs \subseteq DOMAIN task
      BY FreshJobFacts
  <2>. HIDE DEF t, j
  <2>6. TasksTypeOK' /\ DOMAIN task' = DOMAIN task
      BY <2>2, <2>3, <2>4, <2>5, TasksUpsert
  <2>7. PICK K, r, o : Inserts(K, r, o, None)
      BY MaterializeInserts
  <2>8. RunsTypeOK'
      BY <2>6, <2>7, RunsUpsert DEF Inserts
  <2>. QED
    BY <2>6, <2>8, TablesStep DEF MaterializeDue, TypeOK
<1>7. LapseAll => TypeOK'
  <2>. SUFFICES ASSUME LapseAll PROVE TypeOK'
      OBVIOUS
  <2>1. run' \in [DOMAIN run -> RunRow] /\ outbox' \in [DOMAIN run -> OutboxRow]
      BY RunsMovedFacts, OutboxCancelledFacts DEF LapseAll, RunStatuses
  <2>2. RunsTypeOK' /\ TasksTypeOK'
      BY <2>1 DEF LapseAll, TypeOK, RunsTypeOK, TasksTypeOK
  <2>. QED
    BY <2>2, TablesStep DEF LapseAll, TypeOK
<1>8. ASSUME NEW k \in DOMAIN outbox, LeaseDelivery(k) PROVE TypeOK'
  <2>1. run' \in [DOMAIN run -> RunRow] /\ outbox' \in [DOMAIN run -> OutboxRow]
        /\ NextLease(k) \in Lease
      BY <1>8, LeaseFacts
  <2>2. issued' = issued \cup {NextLease(k)}
        /\ UNCHANGED <<now, profile, reset, task, job, audit>>
      BY <1>8 DEF LeaseDelivery
  <2>3. RunsTypeOK' /\ TasksTypeOK'
      BY <2>1, <2>2 DEF TypeOK, RunsTypeOK, TasksTypeOK
  <2>. QED
    BY <2>1, <2>2, <2>3, TablesStep DEF TypeOK
<1>9. ASSUME NEW l \in issued, MarkSent(l) PROVE TypeOK'
  <2>1. CASE DeliveryIsCurrent(l)
    <3>1. l.key \in DOMAIN run
        BY <2>1 DEF DeliveryIsCurrent, HoldsLease, TypeOK, RunsTypeOK
    <3>2. run' = [run EXCEPT ![l.key].status = "delivered"]
          /\ outbox' = [outbox EXCEPT ![l.key] =
                           [outbox[l.key] EXCEPT !.status = "sent", !.until = None]]
        BY <1>9, <2>1, <3>1 DEF MarkSent, TypeOK, RunsTypeOK
    <3>3. \A o \in OutboxRow :
            [o EXCEPT !.status = "sent", !.until = None] \in OutboxRow
        BY DEF OutboxRow, OutboxStatuses
    <3>4. outbox' \in [DOMAIN run -> OutboxRow]
        BY <3>1, <3>2, <3>3 DEF TypeOK, RunsTypeOK
    <3>5. run' \in [DOMAIN run -> RunRow]
        BY <3>1, <3>2 DEF TypeOK, RunsTypeOK, RunRow, RunStatuses
    <3>6. RunsTypeOK' /\ TasksTypeOK'
        BY <1>9, <2>1, <3>4, <3>5 DEF MarkSent, TypeOK, RunsTypeOK, TasksTypeOK
    <3>. QED
      BY <1>9, <2>1, <3>6, TablesStep DEF MarkSent, TypeOK
  <2>2. CASE ~DeliveryIsCurrent(l)
    <3>1. audit' \subseteq issued
        BY <1>9, <2>2 DEF MarkSent, TypeOK
    <3>2. RunsTypeOK' /\ TasksTypeOK'
        BY <1>9, <2>2 DEF MarkSent, TypeOK, RunsTypeOK, TasksTypeOK
    <3>. QED
      BY <1>9, <2>2, <3>1, <3>2, TablesStep DEF MarkSent, TypeOK
  <2>. QED
    BY <2>1, <2>2
<1>10. ASSUME NEW l \in issued, ReleaseHeld(l) PROVE TypeOK'
  <2>. DEFINE k == l.key
              last == outbox[k].attempt >= MaxAttempts
  <2>1. k \in DOMAIN run /\ now + RetryDelay \in Nat
      BY <1>10, PolicyAssumption
         DEF ReleaseHeld, DeliveryIsCurrent, HoldsLease, TypeOK, RunsTypeOK
  <2>2. \A o \in OutboxRow, st \in OutboxStatuses, a \in Nat :
          [o EXCEPT !.status = st, !.avail = a, !.token = None, !.until = None]
             \in OutboxRow
      BY DEF OutboxRow
  <2>3. outbox[k] \in OutboxRow /\ outbox[k].avail \in Nat
      BY <2>1 DEF TypeOK, RunsTypeOK, OutboxRow
  <2>4. outbox' \in [DOMAIN run -> OutboxRow]
    <3>1. outbox' = [outbox EXCEPT ![k] =
                       [outbox[k] EXCEPT
                          !.status = IF last THEN "failed" ELSE "pending",
                          !.avail = IF last THEN outbox[k].avail ELSE now + RetryDelay,
                          !.token = None, !.until = None]]
        BY <1>10, <2>1 DEF ReleaseHeld, TypeOK, RunsTypeOK
    <3>. QED
      BY <2>1, <2>2, <2>3, <3>1 DEF TypeOK, RunsTypeOK, OutboxStatuses
  <2>5. run' \in [DOMAIN run -> RunRow]
      BY <1>10, <2>1 DEF ReleaseHeld, TypeOK, RunsTypeOK, RunRow, RunStatuses
  <2>6. RunsTypeOK' /\ TasksTypeOK'
      BY <1>10, <2>4, <2>5 DEF ReleaseHeld, TypeOK, RunsTypeOK, TasksTypeOK
  <2>. QED
    BY <1>10, <2>6, TablesStep DEF ReleaseHeld, TypeOK
<1>11. UNCHANGED storeVars => TypeOK'
    BY DEF storeVars, TypeOK, LifecycleTypeOK, TasksTypeOK, RunsTypeOK
<1>12. ResetStep /\ ~StorePurge => TypeOK'
  <2>. SUFFICES ASSUME ResetStep, ~StorePurge PROVE TypeOK'
      OBVIOUS
  <2>1. UNCHANGED <<now, task, job, run, outbox, issued, audit>>
      BY DEF ResetStep, StoreBeginReset, StoreQuiesce, StoreCommitReset,
             StoreAbandonReset, rows
  <2>2. LifecycleTypeOK'
      BY DEF ResetStep, StoreBeginReset, StoreQuiesce, StoreCommitReset,
             StoreAbandonReset, BeginReset, Quiesce, CommitReset, AbandonReset,
             TypeOK, LifecycleTypeOK, ProfileStates, ResetSteps
  <2>. QED
    BY <2>1, <2>2 DEF TypeOK, TasksTypeOK, RunsTypeOK
<1>13. StorePurge => TypeOK'
  <2>. SUFFICES ASSUME StorePurge PROVE TypeOK'
      OBVIOUS
  <2>1. DOMAIN Empty = {} /\ \A S : Empty \in [{} -> S]
      BY DEF Empty
  <2>2. TasksTypeOK' /\ RunsTypeOK'
      BY <2>1 DEF StorePurge, TasksTypeOK, RunsTypeOK
  <2>3. LifecycleTypeOK'
      BY DEF StorePurge, PurgeHooks, TypeOK, LifecycleTypeOK, ResetSteps
  <2>. QED
    BY <2>2, <2>3 DEF StorePurge, TypeOK
<1>14. Tick => TypeOK'
    BY DEF Tick, rows, TypeOK, LifecycleTypeOK, TasksTypeOK, RunsTypeOK
<1>. QED
  BY <1>1, <1>2, <1>3, <1>4, <1>5, <1>6, <1>7, <1>8, <1>9, <1>10, <1>11, <1>12,
     <1>13, <1>14
     DEF Next, OwnerOperation, DeliveryOperation, Release

\* The tables always hold rows of their schema, ids and keys included.
THEOREM TypeCorrect == Spec => []TypeOK
    BY TypeInit, TypeStep, PTL DEF Spec

-----------------------------------------------------------------------------
(* The run and outbox tables agree *)

\* The two rows of a new run agree, whether it is missed from the start or not.
LEMMA NewRowsAgree ==
    ASSUME NEW missed \in BOOLEAN, NEW action, NEW e, NEW a
    PROVE  /\ StatusesAgree(NewRunRow(missed, action).status,
                            NewOutboxRow(missed, e, a).status)
           /\ NewRunRow(missed, action).status \in {"due", "missed"}
           /\ NewRunRow(missed, action).action = action
           /\ NewOutboxRow(missed, e, a).epoch = e
           /\ NewOutboxRow(missed, e, a).attempt = 0
           /\ NewOutboxRow(missed, e, a).status # "leased"
    BY DEF StatusesAgree, NewRunRow, NewOutboxRow

\* What inserting runs does, row by row: new runs of active tasks of the current
\* epoch, open or missed from the start, and not a change to any other run.
Opens(K, action) ==
    /\ K \in SUBSET ((DOMAIN task) \X Nat)
    /\ K \cap DOMAIN run = {}
    /\ DOMAIN run' = DOMAIN run \cup K
    /\ DOMAIN outbox' = DOMAIN outbox \cup K
    /\ \A k \in K :
          /\ task[k[1]].status = "active"
          /\ CurrentEpoch(task[k[1]].epoch)
          /\ StatusesAgree(run'[k].status, outbox'[k].status)
          /\ run'[k].status \in {"due", "missed"}
          /\ run'[k].action = action
          /\ outbox'[k].epoch = task[k[1]].epoch
          /\ outbox'[k].attempt = 0
          /\ outbox'[k].status # "leased"
    /\ \A k \in DOMAIN run : run'[k] = run[k] /\ outbox'[k] = outbox[k]

LEMMA InsertsOpens ==
    ASSUME TypeOK, NEW action, NEW K, NEW r, NEW o, Inserts(K, r, o, action)
    PROVE  Opens(K, action)
<1>. USE Inserts(K, r, o, action) DEF Inserts
<1>1. DOMAIN r = K /\ DOMAIN o = K /\ DOMAIN outbox = DOMAIN run
      /\ DOMAIN run' = DOMAIN run \cup K
    BY ZenonT(30), UpsertDomain DEF TypeOK, RunsTypeOK
<1>2. ASSUME NEW k \in K
      PROVE  /\ StatusesAgree(run'[k].status, outbox'[k].status)
             /\ run'[k].status \in {"due", "missed"}
             /\ run'[k].action = action
             /\ outbox'[k].epoch = task[k[1]].epoch
             /\ outbox'[k].attempt = 0
             /\ outbox'[k].status # "leased"
  <2>1. k \in DOMAIN r /\ k \in DOMAIN o
      BY <1>1
  <2>2. Upsert(run, r)[k] = r[k] /\ Upsert(outbox, o)[k] = o[k]
      BY <2>1, UpsertNew
  <2>3. PICK missed \in BOOLEAN, a \in Nat :
          /\ r[k] = NewRunRow(missed, action)
          /\ o[k] = NewOutboxRow(missed, task[k[1]].epoch, a)
      OBVIOUS
  <2>4. run'[k] = NewRunRow(missed, action)
        /\ outbox'[k] = NewOutboxRow(missed, task[k[1]].epoch, a)
      BY <2>2, <2>3
  <2>. QED
    BY <2>4, NewRowsAgree
<1>3. ASSUME NEW k \in DOMAIN run PROVE run'[k] = run[k] /\ outbox'[k] = outbox[k]
  <2>1. k \in DOMAIN run \ DOMAIN r /\ k \in DOMAIN outbox \ DOMAIN o
      BY <1>1
  <2>2. Upsert(run, r)[k] = run[k] /\ Upsert(outbox, o)[k] = outbox[k]
      BY <2>1, UpsertOld
  <2>. QED
    BY <2>2
<1>4. DOMAIN outbox' = DOMAIN outbox \cup K
    BY ZenonT(30), <1>1, UpsertDomain
<1>. QED
  BY <1>1, <1>2, <1>3, <1>4 DEF Opens

LEMMA SnoozeOpens ==
    ASSUME TypeOK, NEW i \in DOMAIN task, NEW tok \in ActionTokens, Snooze(i, tok)
    PROVE  \E K : Opens(K, tok)
    BY SnoozeInserts, InsertsOpens

LEMMA MaterializeOpens ==
    ASSUME TypeOK, MaterializeDue
    PROVE  \E K : Opens(K, None)
    BY MaterializeInserts, InsertsOpens

LEMMA OpenedAgree ==
    ASSUME RunOutboxAgree, NEW action, NEW K, Opens(K, action)
    PROVE  RunOutboxAgree'
    BY Opens(K, action) DEF Opens, RunOutboxAgree

\* Every step keeps the agreement: one step of the proof per action that
\* writes one of the two tables.
LEMMA AgreeStep == TypeOK /\ RunOutboxAgree /\ [Next]_storeVars => RunOutboxAgree'
<1>. SUFFICES ASSUME TypeOK, RunOutboxAgree, [Next]_storeVars PROVE RunOutboxAgree'
    OBVIOUS
<1>1. ASSUME NEW i \in DOMAIN task, NEW target \in {"cancelled", "completed"},
             Finish(i, target)
      PROVE RunOutboxAgree'
  <2>. DEFINE open == {k \in DOMAIN run :
                         k[1] = i /\ run[k].status \in {"due", "claimed"}}
              live == {k \in DOMAIN outbox :
                         k[1] = i /\ outbox[k].status \in {"pending", "leased"}}
  <2>1. run' = RunsMoved(open, "cancelled") /\ outbox' = OutboxCancelled(live)
      BY <1>1 DEF Finish, CloseRows, RunsOf, OutboxOf
  <2>2. \A k \in DOMAIN run : k \in open <=> k \in live
      BY DEF RunOutboxAgree, StatusesAgree, TypeOK, RunsTypeOK
  <2>. HIDE DEF open, live
  <2>. QED
    BY <2>1, <2>2, RunsMovedFacts, OutboxCancelledFacts
       DEF RunOutboxAgree, StatusesAgree, RunStatuses
<1>2. ASSUME NEW i \in DOMAIN task, NEW tok \in ActionTokens, Snooze(i, tok)
      PROVE RunOutboxAgree'
    BY <1>2, SnoozeOpens, OpenedAgree
<1>3. MaterializeDue => RunOutboxAgree'
  <2>. SUFFICES ASSUME MaterializeDue PROVE RunOutboxAgree'
      OBVIOUS
  <2>. QED
    BY MaterializeOpens, OpenedAgree
<1>4. ASSUME NEW S \in SUBSET Eligible, NEW k \in DOMAIN run
      PROVE  StatusesAgree(RunsMoved(LapsedRuns(S), "missed")[k].status,
                           OutboxCancelled(S)[k].status)
  <2>1. StatusesAgree(run[k].status, outbox[k].status)
      BY DEF RunOutboxAgree
  <2>2. k \in S <=> k \in LapsedRuns(S)
      BY <2>1 DEF LapsedRuns, Eligible, StatusesAgree, TypeOK, RunsTypeOK
  <2>. QED
    BY <2>1, <2>2, RunsMovedFacts, OutboxCancelledFacts DEF StatusesAgree, RunStatuses
<1>5. LapseAll => RunOutboxAgree'
  <2>. SUFFICES ASSUME LapseAll PROVE RunOutboxAgree'
      OBVIOUS
  <2>1. DOMAIN run' = DOMAIN run
      BY RunsMovedFacts DEF LapseAll, RunStatuses
  <2>. QED
    BY <1>4, <2>1 DEF LapseAll, RunOutboxAgree
<1>6. ASSUME NEW k \in DOMAIN outbox, LeaseDelivery(k) PROVE RunOutboxAgree'
  <2>1. StatusesAgree(run[k].status, outbox[k].status) /\ k \in DOMAIN run
      BY <1>6, LeaseFacts DEF RunOutboxAgree
  <2>2. run'[k].status = "claimed" /\ outbox'[k].status = "leased"
      BY <1>6, <2>1, LeaseFacts DEF StatusesAgree, Eligible
  <2>3. PICK S \in SUBSET Eligible : \A m \in DOMAIN run \ {k} :
          /\ outbox'[m] = OutboxCancelled(S)[m]
          /\ run'[m] = RunsMoved(LapsedRuns(S), "missed")[m]
      BY <1>6, LeaseFacts
  <2>4. \A m \in DOMAIN run : StatusesAgree(run'[m].status, outbox'[m].status)
    <3>1. ASSUME NEW m \in DOMAIN run, m # k
          PROVE  StatusesAgree(run'[m].status, outbox'[m].status)
        BY <1>4, <2>3, <3>1
    <3>2. StatusesAgree("claimed", "leased")
        BY DEF StatusesAgree
    <3>. QED
      BY <2>2, <3>1, <3>2
  <2>5. DOMAIN run' = DOMAIN run
      BY <1>6, LeaseFacts
  <2>. QED
    BY <2>4, <2>5 DEF RunOutboxAgree
<1>7. ASSUME NEW l \in issued, MarkSent(l) PROVE RunOutboxAgree'
    BY <1>7 DEF MarkSent, DeliveryIsCurrent, HoldsLease, RunOutboxAgree,
                StatusesAgree, TypeOK, RunsTypeOK, RunRow, OutboxRow
<1>8. ASSUME NEW l \in issued, ReleaseHeld(l) PROVE RunOutboxAgree'
    BY <1>8 DEF ReleaseHeld, DeliveryIsCurrent, HoldsLease, RunOutboxAgree,
                StatusesAgree, TypeOK, RunsTypeOK, RunRow, OutboxRow
<1>9. StorePurge => RunOutboxAgree'
    BY DEF StorePurge, RunOutboxAgree, Empty
<1>10. UNCHANGED <<run, outbox>> => RunOutboxAgree'
    BY DEF RunOutboxAgree
<1>. QED
  BY <1>1, <1>2, <1>3, <1>5, <1>6, <1>7, <1>8, <1>9, <1>10
     DEF Next, OwnerOperation, DeliveryOperation, ResetStep, Release, storeVars, rows,
         CreateDraft, MarkAwaiting, Activate, StoreBeginReset, StoreQuiesce,
         StoreCommitReset, StoreAbandonReset, Tick, MarkSent

-----------------------------------------------------------------------------
(* The task and job tables agree *)

\* The status JobAt gives a job when its rule has an n-th instant.
LEMMA JobAtStatus ==
    ASSUME NEW j \in JobRow, NEW n
    PROVE  /\ JobAt(j, n).status \in {"active", "needs_review", "completed"}
           /\ Instant(j.plan, n) # None
                => JobAt(j, n).status \in {"active", "needs_review"}
<1>. DEFINE st == IF Instant(j.plan, n) = None THEN "completed"
                  ELSE IF Instant(j.plan, n) = Unresolvable THEN "needs_review"
                  ELSE "active"
<1>1. \A e, x, y : [j EXCEPT !.emitted = e, !.next = x, !.status = y].status = y
    BY DEF JobRow
<1>2. JobAt(j, n).status = st
    BY <1>1 DEF JobAt
<1>. QED
  BY <1>2

LEMMA TaskAfterStatus ==
    ASSUME NEW t \in TaskRow, NEW j
    PROVE  /\ TaskAfter(t, j).status =
                IF j.status = "needs_review" THEN "needs_review" ELSE t.status
           /\ TaskAfter(t, j).epoch = t.epoch
    BY DEF TaskAfter, TaskRow

LEMMA AfterRunStatus ==
    ASSUME TypeOK, NEW i \in FreshJobs
    PROVE  JobAfterRun(i).status \in {"active", "needs_review", "completed"}
<1>1. job[i] \in JobRow
    BY FreshJobFacts
<1>2. \A e : [job[i] EXCEPT !.status = "needs_review", !.next = None,
                            !.emitted = e].status = "needs_review"
    BY <1>1 DEF JobRow
<1>. QED
  BY <1>1, <1>2, JobAtStatus DEF JobAfterRun

\* What materialize_due does to tasks and jobs, row by row.
LEMMA MaterializeFacts ==
    ASSUME TypeOK, MaterializeDue
    PROVE  /\ DOMAIN task' = DOMAIN task
           /\ \A i \in FreshJobs :
                 /\ job'[i] = JobAfterRun(i)
                 /\ task'[i] = TaskAfter(task[i], JobAfterRun(i))
           /\ \A i \in DOMAIN task \ FreshJobs :
                 job'[i] = job[i] /\ task'[i] = task[i]
<1>. DEFINE t == [i \in FreshJobs |-> TaskAfter(task[i], JobAfterRun(i))]
            j == [i \in FreshJobs |-> JobAfterRun(i)]
<1>1. task' = Upsert(task, t) /\ job' = Upsert(job, j)
    BY MaterializeDue DEF MaterializeDue
<1>2. FreshJobs \subseteq DOMAIN task /\ DOMAIN job = DOMAIN task
    BY FreshJobFacts DEF TypeOK, TasksTypeOK
<1>3. DOMAIN t = FreshJobs /\ DOMAIN j = FreshJobs
    OBVIOUS
<1>4. \A i \in FreshJobs : t[i] = TaskAfter(task[i], JobAfterRun(i))
                           /\ j[i] = JobAfterRun(i)
    OBVIOUS
<1>. HIDE DEF t, j
<1>5. DOMAIN task' = DOMAIN task
    BY <1>1, <1>2, <1>3, UpsertDomain
<1>6. ASSUME NEW i \in FreshJobs
      PROVE job'[i] = JobAfterRun(i) /\ task'[i] = TaskAfter(task[i], JobAfterRun(i))
  <2>1. Upsert(task, t)[i] = t[i] /\ Upsert(job, j)[i] = j[i]
      BY <1>3, UpsertNew
  <2>. QED
    BY <1>1, <1>4, <2>1
<1>7. ASSUME NEW i \in DOMAIN task \ FreshJobs
      PROVE job'[i] = job[i] /\ task'[i] = task[i]
  <2>1. Upsert(task, t)[i] = task[i] /\ Upsert(job, j)[i] = job[i]
      BY <1>2, <1>3, UpsertOld
  <2>. QED
    BY <1>1, <2>1
<1>. QED
  BY <1>5, <1>6, <1>7

\* What create_draft does, row by row.
LEMMA CreateFacts ==
    ASSUME TypeOK, NEW p \in Plans, CreateDraft(p)
    PROVE  \E i \in TaskIds \ DOMAIN task :
              /\ DOMAIN task' = DOMAIN task \cup {i}
              /\ task'[i] = [status |-> "awaiting_confirmation",
                             epoch |-> profile.epoch]
              /\ job'[i] = [status |-> "draft", next |-> None, emitted |-> 0,
                            plan |-> p]
              /\ \A x \in DOMAIN task : task'[x] = task[x] /\ job'[x] = job[x]
<1>1. PICK i \in TaskIds :
        /\ NextTaskId(i)
        /\ task' = Upsert(task, [x \in {i} |->
             [status |-> "awaiting_confirmation", epoch |-> profile.epoch]])
        /\ job' = Upsert(job, [x \in {i} |->
             [status |-> "draft", next |-> None, emitted |-> 0, plan |-> p]])
    BY CreateDraft(p) DEF CreateDraft
<1>2. i \notin DOMAIN task
    BY <1>1 DEF NextTaskId, TaskIds
<1>. DEFINE t == [x \in {i} |->
               [status |-> "awaiting_confirmation", epoch |-> profile.epoch]]
            j == [x \in {i} |->
               [status |-> "draft", next |-> None, emitted |-> 0, plan |-> p]]
<1>3. task' = Upsert(task, t) /\ job' = Upsert(job, j)
    BY <1>1
<1>4. /\ DOMAIN t = {i} /\ DOMAIN j = {i} /\ DOMAIN job = DOMAIN task
      /\ t[i] = [status |-> "awaiting_confirmation", epoch |-> profile.epoch]
      /\ j[i] = [status |-> "draft", next |-> None, emitted |-> 0, plan |-> p]
    BY DEF TypeOK, TasksTypeOK
<1>. HIDE DEF t, j
<1>5. Upsert(task, t)[i] = t[i] /\ Upsert(job, j)[i] = j[i]
    BY <1>4, UpsertNew
<1>6. \A x \in DOMAIN task : Upsert(task, t)[x] = task[x] /\ Upsert(job, j)[x] = job[x]
    BY <1>2, <1>4, UpsertOld
<1>7. DOMAIN Upsert(task, t) = DOMAIN task \cup {i}
  <2>1. DOMAIN t = {i}
      BY <1>4
  <2>. QED
    BY ONLY <2>1, UpsertDomain
<1>. QED
  BY <1>2, <1>3, <1>4, <1>5, <1>6, <1>7

LEMMA TaskJobStep == TypeOK /\ TaskJobAgree /\ [Next]_storeVars => TaskJobAgree'
<1>. SUFFICES ASSUME TypeOK, TaskJobAgree, [Next]_storeVars PROVE TaskJobAgree'
    OBVIOUS
<1>1. ASSUME NEW p \in Plans, CreateDraft(p) PROVE TaskJobAgree'
  <2>1. PICK i \in TaskIds \ DOMAIN task :
          /\ DOMAIN task' = DOMAIN task \cup {i}
          /\ task'[i] = [status |-> "awaiting_confirmation", epoch |-> profile.epoch]
          /\ job'[i] = [status |-> "draft", next |-> None, emitted |-> 0, plan |-> p]
          /\ \A x \in DOMAIN task : task'[x] = task[x] /\ job'[x] = job[x]
      BY <1>1, CreateFacts
  <2>2. TaskMatchesJob(task'[i].status, job'[i].status)
      BY <2>1 DEF TaskMatchesJob
  <2>. QED
    BY <2>1, <2>2 DEF TaskJobAgree
<1>2. ASSUME NEW i \in DOMAIN task, MarkAwaiting(i) PROVE TaskJobAgree'
    BY <1>2 DEF MarkAwaiting, TaskJobAgree, TaskMatchesJob, TypeOK, TasksTypeOK,
                TaskRow, TaskStatuses, JobRow
<1>3. ASSUME NEW i \in DOMAIN task, Activate(i) PROVE TaskJobAgree'
  <2>. DEFINE t == [task[i] EXCEPT !.status = "active"]
  <2>1. job[i] \in JobRow /\ t \in TaskRow /\ t.status = "active"
      BY DEF TypeOK, TasksTypeOK, TaskRow, TaskStatuses
  <2>2. JobAt(job[i], 1).status \in {"active", "needs_review"}
      BY <1>3, <2>1, JobAtStatus DEF Activate
  <2>3. /\ job'[i] = JobAt(job[i], 1)
        /\ task'[i] = TaskAfter(t, JobAt(job[i], 1))
        /\ \A x \in DOMAIN task \ {i} : job'[x] = job[x] /\ task'[x] = task[x]
        /\ DOMAIN task' = DOMAIN task
      BY <1>3 DEF Activate, TypeOK, TasksTypeOK
  <2>. HIDE DEF t
  <2>4. task'[i].status = IF JobAt(job[i], 1).status = "needs_review"
                          THEN "needs_review" ELSE "active"
      BY <2>1, <2>3, TaskAfterStatus
  <2>5. TaskMatchesJob(task'[i].status, job'[i].status)
    <3>1. CASE JobAt(job[i], 1).status = "active"
        BY <2>3, <2>4, <3>1 DEF TaskMatchesJob
    <3>2. CASE JobAt(job[i], 1).status = "needs_review"
        BY <2>3, <2>4, <3>2 DEF TaskMatchesJob
    <3>. QED
      BY <2>2, <3>1, <3>2
  <2>6. ASSUME NEW x \in DOMAIN task, x # i
        PROVE  TaskMatchesJob(task'[x].status, job'[x].status)
      BY <2>3, <2>6 DEF TaskJobAgree
  <2>. QED
    BY <2>3, <2>5, <2>6 DEF TaskJobAgree
<1>4. ASSUME NEW i \in DOMAIN task, NEW target \in {"cancelled", "completed"},
             Finish(i, target)
      PROVE TaskJobAgree'
  <2>1. task[i].status \in TaskStatuses /\ task[i].status \notin {"cancelled", "completed"}
        /\ TaskMatchesJob(task[i].status, job[i].status)
      BY <1>4 DEF Finish, CloseRows, RunsOf, OutboxOf, TaskJobAgree, TypeOK, TasksTypeOK, TaskRow
  <2>2. task'[i].status = target /\ DOMAIN task' = DOMAIN task
        /\ \A x \in DOMAIN task \ {i} : task'[x] = task[x]
      BY <1>4 DEF Finish, CloseRows, RunsOf, OutboxOf, TypeOK, TasksTypeOK, TaskRow
  <2>3. job'[i].status =
             IF job[i].status \in {"cancelled", "completed"} THEN job[i].status
             ELSE target
      BY <1>4 DEF Finish, CloseRows, RunsOf, OutboxOf, TypeOK, TasksTypeOK, JobRow
  <2>4. \A x \in DOMAIN task \ {i} : job'[x] = job[x]
      BY <1>4 DEF Finish, CloseRows, RunsOf, OutboxOf, TypeOK, TasksTypeOK, JobRow
  <2>5. job[i].status # "cancelled"
      BY <2>1 DEF TaskMatchesJob, TaskStatuses
  <2>. QED
    BY <2>1, <2>2, <2>3, <2>4, <2>5 DEF TaskJobAgree, TaskMatchesJob
<1>5. MaterializeDue => TaskJobAgree'
  <2>. SUFFICES ASSUME MaterializeDue PROVE TaskJobAgree'
      OBVIOUS
  <2>1. ASSUME NEW i \in FreshJobs
        PROVE  TaskMatchesJob(task'[i].status, job'[i].status)
      BY FreshJobFacts, AfterRunStatus, MaterializeFacts, TaskAfterStatus
         DEF TaskMatchesJob
  <2>. QED
    BY <2>1, MaterializeFacts DEF TaskJobAgree
<1>6. StorePurge => TaskJobAgree'
    BY DEF StorePurge, TaskJobAgree, Empty
<1>7. UNCHANGED <<task, job>> => TaskJobAgree'
    BY DEF TaskJobAgree
<1>. QED
  BY <1>1, <1>2, <1>3, <1>4, <1>5, <1>6, <1>7
     DEF Next, OwnerOperation, DeliveryOperation, ResetStep, Release, ReleaseHeld,
         MarkSent, LapseAll, LeaseDelivery, Snooze, InsertSnooze, storeVars, rows,
         StoreBeginReset, StoreQuiesce, StoreCommitReset, StoreAbandonReset, Tick

-----------------------------------------------------------------------------
(* The store implements the ledger *)

\* A step that opens new runs of open tasks and keeps the others.
LEMMA EntersLedger ==
    ASSUME TypeOK, NEW action, NEW K, Opens(K, action), UNCHANGED ClosedTasks
    PROVE  Ledger!Enter
<1>1. /\ DOMAIN run' = DOMAIN run \cup K
      /\ \A k \in DOMAIN run : run'[k] = run[k]
      /\ \A k \in K : run'[k].status \in {"due", "missed"}
      /\ \A k \in K : task[k[1]].status = "active"
    BY Opens(K, action) DEF Opens
<1>2. DOMAIN LedgerView = DOMAIN run /\ DOMAIN LedgerView' = DOMAIN run'
    BY DEF LedgerView
<1>3. \A k \in DOMAIN run : LedgerView'[k] = LedgerView[k]
    BY <1>1, <1>2 DEF LedgerView, OpenRun
<1>4. \A k \in K : LedgerView'[k] \in {"open", "missed"}
    BY <1>1, <1>2 DEF LedgerView, OpenRun
<1>5. \A k \in K : k[1] \notin ClosedTasks
    BY <1>1 DEF ClosedTasks
<1>. QED
  BY <1>1, <1>2, <1>3, <1>4, <1>5 DEF Ledger!Enter

\* A step that moves open runs to an outcome, or on between due and claimed.
LEMMA SettlesLedger ==
    ASSUME UNCHANGED ClosedTasks, DOMAIN run' = DOMAIN run,
           \A k \in DOMAIN run :
              \/ run'[k].status = run[k].status
              \/ /\ OpenRun(k)
                 /\ run'[k].status \in {"due", "claimed", "delivered", "failed",
                                         "missed"}
    PROVE  Ledger!Settle
<1>1. DOMAIN LedgerView = DOMAIN run /\ DOMAIN LedgerView' = DOMAIN run
    BY DEF LedgerView
<1>2. ASSUME NEW k \in DOMAIN run
      PROVE  \/ LedgerView'[k] = LedgerView[k]
             \/ /\ LedgerView[k] = "open"
                /\ LedgerView'[k] \in {"delivered", "failed", "missed"}
  <2>1. /\ LedgerView[k] = IF OpenRun(k) THEN "open" ELSE run[k].status
        /\ LedgerView'[k] = IF OpenRun(k)' THEN "open" ELSE run'[k].status
      BY <1>1 DEF LedgerView
  <2>. QED
    BY <2>1 DEF OpenRun
<1>. QED
  BY <1>1, <1>2 DEF Ledger!Settle, Ledger!Open

\* The steps of the worker that move runs.
LEMMA DeliverySettles ==
    ASSUME TypeOK, RunOutboxAgree,
           \/ LapseAll
           \/ \E k \in DOMAIN outbox : LeaseDelivery(k)
           \/ \E l \in issued : MarkSent(l) \/ ReleaseHeld(l)
    PROVE  Ledger!Settle
<1>1. ASSUME NEW S \in SUBSET Eligible, NEW k \in DOMAIN run
      PROVE  \/ RunsMoved(LapsedRuns(S), "missed")[k].status = run[k].status
             \/ /\ OpenRun(k)
                /\ RunsMoved(LapsedRuns(S), "missed")[k].status = "missed"
    BY RunsMovedFacts DEF LapsedRuns, OpenRun, RunStatuses
<1>2. UNCHANGED task => UNCHANGED ClosedTasks
    BY DEF ClosedTasks
<1>3. CASE LapseAll
  <2>1. DOMAIN run' = DOMAIN run /\ UNCHANGED task
        /\ run' = RunsMoved(LapsedRuns(Eligible), "missed")
      BY <1>3, RunsMovedFacts DEF LapseAll, RunStatuses
  <2>. QED
    BY <1>1, <1>2, <2>1, SettlesLedger
<1>4. ASSUME NEW k \in DOMAIN outbox, LeaseDelivery(k) PROVE Ledger!Settle
  <2>1. DOMAIN run' = DOMAIN run /\ UNCHANGED task /\ k \in DOMAIN run
      BY <1>4, LeaseFacts DEF LeaseDelivery
  <2>2. PICK S \in SUBSET Eligible : \A m \in DOMAIN run \ {k} :
          run'[m] = RunsMoved(LapsedRuns(S), "missed")[m]
      BY <1>4, LeaseFacts
  <2>3. \/ run'[k].status = run[k].status
        \/ OpenRun(k) /\ run'[k].status = "claimed"
      BY <1>4, LeaseFacts DEF OpenRun
  <2>4. ASSUME NEW m \in DOMAIN run, m # k
        PROVE  \/ run'[m].status = run[m].status
               \/ OpenRun(m) /\ run'[m].status = "missed"
      BY <1>1, <2>2, <2>4
  <2>. QED
    BY <1>2, <2>1, <2>3, <2>4, SettlesLedger
<1>5. ASSUME NEW l \in issued, DeliveryIsCurrent(l)
      PROVE  l.key \in DOMAIN run /\ OpenRun(l.key)
    BY <1>5 DEF DeliveryIsCurrent, HoldsLease, RunOutboxAgree, StatusesAgree,
                OpenRun, TypeOK, RunsTypeOK
<1>6. ASSUME NEW l \in issued, MarkSent(l) PROVE Ledger!Settle
  <2>1. CASE DeliveryIsCurrent(l)
    <3>1. run' = [run EXCEPT ![l.key].status = "delivered"] /\ UNCHANGED task
        BY <1>6, <2>1 DEF MarkSent
    <3>2. /\ DOMAIN run' = DOMAIN run /\ run'[l.key].status = "delivered"
          /\ \A k \in DOMAIN run \ {l.key} : run'[k] = run[k]
        BY <1>5, <2>1, <3>1 DEF TypeOK, RunsTypeOK, RunRow
    <3>. QED
      BY <1>2, <1>5, <2>1, <3>1, <3>2, SettlesLedger
  <2>2. CASE ~DeliveryIsCurrent(l)
      BY <1>2, <1>6, <2>2, SettlesLedger DEF MarkSent
  <2>. QED
    BY <2>1, <2>2
<1>7. ASSUME NEW l \in issued, ReleaseHeld(l) PROVE Ledger!Settle
  <2>1. DeliveryIsCurrent(l) /\ UNCHANGED task
      BY <1>7 DEF ReleaseHeld
  <2>2. PICK s \in {"failed", "due"} : run' = [run EXCEPT ![l.key].status = s]
      BY <1>7 DEF ReleaseHeld
  <2>3. /\ DOMAIN run' = DOMAIN run /\ run'[l.key].status \in {"failed", "due"}
        /\ \A k \in DOMAIN run \ {l.key} : run'[k] = run[k]
      BY <1>5, <2>1, <2>2 DEF TypeOK, RunsTypeOK, RunRow
  <2>. QED
    BY <1>2, <1>5, <2>1, <2>3, SettlesLedger
<1>. QED
  BY <1>3, <1>4, <1>6, <1>7

\* The owner's closing of a task, and its runs with it.
LEMMA FinishCloses ==
    ASSUME TypeOK, RunOutboxAgree, NEW i \in DOMAIN task,
           NEW target \in {"cancelled", "completed"}, Finish(i, target)
    PROVE  Ledger!Close(i)
<1>. DEFINE open == {k \in DOMAIN run :
                       k[1] = i /\ run[k].status \in {"due", "claimed"}}
<1>1. run' = RunsMoved(open, "cancelled")
    BY Finish(i, target) DEF Finish, CloseRows, RunsOf, OutboxOf
<1>2. /\ DOMAIN run' = DOMAIN run
      /\ \A k \in DOMAIN run : k \in open => run'[k].status = "cancelled"
      /\ \A k \in DOMAIN run : k \notin open => run'[k] = run[k]
    BY <1>1, RunsMovedFacts DEF RunStatuses
<1>3. /\ DOMAIN task' = DOMAIN task /\ task'[i].status = target
      /\ \A x \in DOMAIN task \ {i} : task'[x] = task[x]
      /\ task[i].status \notin {"cancelled", "completed"}
    BY Finish(i, target) DEF Finish, CloseRows, RunsOf, OutboxOf, TypeOK, TasksTypeOK, TaskRow
<1>4. i \notin ClosedTasks /\ ClosedTasks' = ClosedTasks \cup {i}
    BY <1>3 DEF ClosedTasks
<1>5. DOMAIN LedgerView = DOMAIN run /\ DOMAIN LedgerView' = DOMAIN run
    BY <1>2 DEF LedgerView
<1>6. ASSUME NEW k \in DOMAIN run
      PROVE  LedgerView'[k] = IF k \in Ledger!Open /\ k[1] = i THEN "cancelled"
                              ELSE LedgerView[k]
  <2>1. /\ LedgerView[k] = IF OpenRun(k) THEN "open" ELSE run[k].status
        /\ LedgerView'[k] = IF OpenRun(k)' THEN "open" ELSE run'[k].status
      BY <1>2, <1>5 DEF LedgerView
  <2>2. run[k].status # "open"
      BY DEF TypeOK, RunsTypeOK, RunRow, RunStatuses
  <2>3. k \in Ledger!Open <=> OpenRun(k)
      BY <1>5, <2>1, <2>2 DEF Ledger!Open
  <2>. QED
    BY <1>2, <2>1, <2>3 DEF OpenRun
<1>. QED
  BY <1>4, <1>5, <1>6 DEF Ledger!Close

\* Every step of the store is a step of the ledger, or changes nothing in it.
LEMMA LedgerStep ==
    TypeOK /\ RunOutboxAgree /\ TaskJobAgree /\ [Next]_storeVars
       => [Ledger!LedgerNext]_<<LedgerView, ClosedTasks>>
<1>. SUFFICES ASSUME TypeOK, RunOutboxAgree, TaskJobAgree, [Next]_storeVars
              PROVE  [Ledger!LedgerNext]_<<LedgerView, ClosedTasks>>
    OBVIOUS
<1>1. UNCHANGED <<task, run>> => UNCHANGED <<LedgerView, ClosedTasks>>
    BY DEF LedgerView, ClosedTasks, OpenRun
<1>2. UNCHANGED run => UNCHANGED LedgerView
    BY DEF LedgerView, OpenRun
<1>3. ASSUME NEW p \in Plans, CreateDraft(p)
      PROVE  UNCHANGED <<LedgerView, ClosedTasks>>
  <2>1. PICK i \in TaskIds \ DOMAIN task :
          /\ DOMAIN task' = DOMAIN task \cup {i}
          /\ task'[i] = [status |-> "awaiting_confirmation", epoch |-> profile.epoch]
          /\ \A x \in DOMAIN task : task'[x] = task[x] /\ job'[x] = job[x]
      BY <1>3, CreateFacts
  <2>2. UNCHANGED ClosedTasks
      BY <2>1 DEF ClosedTasks
  <2>. QED
    BY <1>2, <1>3, <2>2 DEF CreateDraft
<1>4. ASSUME NEW i \in DOMAIN task, Activate(i)
      PROVE  UNCHANGED <<LedgerView, ClosedTasks>>
  <2>. DEFINE t == [task[i] EXCEPT !.status = "active"]
  <2>1. t \in TaskRow /\ t.status = "active"
      BY DEF TypeOK, TasksTypeOK, TaskRow, TaskStatuses
  <2>2. /\ DOMAIN task' = DOMAIN task
        /\ task'[i] = TaskAfter(t, job'[i])
        /\ \A x \in DOMAIN task \ {i} : task'[x] = task[x]
      BY <1>4 DEF Activate, TypeOK, TasksTypeOK
  <2>. HIDE DEF t
  <2>3. task'[i].status \in {"active", "needs_review"}
      BY <2>1, <2>2, TaskAfterStatus
  <2>4. task[i].status = "awaiting_confirmation"
      BY <1>4 DEF Activate, TaskJobAgree, TaskMatchesJob, TypeOK, TasksTypeOK,
                  TaskRow, TaskStatuses
  <2>5. UNCHANGED ClosedTasks
      BY <2>2, <2>3, <2>4 DEF ClosedTasks
  <2>. QED
    BY <1>2, <1>4, <2>5 DEF Activate
<1>5. MaterializeDue => Ledger!Enter
  <2>. SUFFICES ASSUME MaterializeDue PROVE Ledger!Enter
      OBVIOUS
  <2>1. \A i \in FreshJobs : task'[i].status \in {"active", "needs_review"}
                            /\ task[i].status = "active"
      BY FreshJobFacts, MaterializeFacts, TaskAfterStatus
  <2>2. UNCHANGED ClosedTasks
      BY <2>1, MaterializeFacts, FreshJobFacts DEF ClosedTasks
  <2>. QED
    BY <2>2, MaterializeOpens, EntersLedger
<1>6. ASSUME NEW i \in DOMAIN task, NEW tok \in ActionTokens, Snooze(i, tok)
      PROVE  Ledger!Enter
  <2>1. UNCHANGED ClosedTasks
      BY <1>6 DEF Snooze, InsertSnooze, ClosedTasks
  <2>. QED
    BY <1>6, <2>1, SnoozeOpens, EntersLedger
<1>7. ASSUME NEW i \in DOMAIN task, NEW target \in {"cancelled", "completed"},
             Finish(i, target)
      PROVE  i \in TaskIds /\ Ledger!Close(i)
    BY <1>7, FinishCloses DEF TypeOK, TasksTypeOK
<1>8. StorePurge => Ledger!Erase
    BY DEF StorePurge, Ledger!Erase, LedgerView, ClosedTasks, Empty
<1>9. \/ LapseAll
      \/ \E k \in DOMAIN outbox : LeaseDelivery(k)
      \/ \E l \in issued : MarkSent(l) \/ ReleaseHeld(l)
      => Ledger!Settle
    BY DeliverySettles
<1>. QED
  BY <1>1, <1>3, <1>4, <1>5, <1>6, <1>7, <1>8, <1>9
     DEF Next, OwnerOperation, DeliveryOperation, ResetStep, Release, MarkAwaiting,
         storeVars, rows, StoreBeginReset, StoreQuiesce, StoreCommitReset,
         StoreAbandonReset, Tick, Ledger!LedgerNext

-----------------------------------------------------------------------------
(* What follows from the ledger *)

\* The ledger's view of FinishedTaskIsQuiet.
Silent == \A k \in DOMAIN LedgerView :
             k[1] \in ClosedTasks => LedgerView[k] # "open"

LEMMA SilentIsQuiet == TypeOK => (Silent <=> FinishedTaskIsQuiet)
<1>. SUFFICES ASSUME TypeOK PROVE Silent <=> FinishedTaskIsQuiet
    OBVIOUS
<1>1. DOMAIN LedgerView = DOMAIN run
    BY DEF LedgerView
<1>2. ASSUME NEW k \in DOMAIN run
      PROVE  /\ LedgerView[k] = "open" <=> OpenRun(k)
             /\ k[1] \in ClosedTasks <=> task[k[1]].status \in {"cancelled", "completed"}
  <2>1. LedgerView[k] = IF OpenRun(k) THEN "open" ELSE run[k].status
      BY DEF LedgerView
  <2>2. run[k].status # "open" /\ k[1] \in DOMAIN task
      BY DEF TypeOK, RunsTypeOK, RunRow, RunStatuses
  <2>. QED
    BY <2>1, <2>2 DEF ClosedTasks
<1>. QED
  BY <1>1, <1>2 DEF Silent, FinishedTaskIsQuiet, SettledRun

\* In the ledger a closed task stays silent.
LEMMA SilentStep ==
    Silent /\ [Ledger!LedgerNext]_<<LedgerView, ClosedTasks>> => Silent'
<1>. SUFFICES ASSUME Silent, [Ledger!LedgerNext]_<<LedgerView, ClosedTasks>>
              PROVE  Silent'
    OBVIOUS
<1>1. CASE Ledger!Enter
    BY <1>1 DEF Ledger!Enter, Silent
<1>2. CASE Ledger!Settle
    BY <1>2 DEF Ledger!Settle, Ledger!Open, Silent
<1>3. ASSUME NEW i \in TaskIds, Ledger!Close(i) PROVE Silent'
    BY <1>3 DEF Ledger!Close, Ledger!Open, Silent
<1>4. CASE Ledger!Erase
    BY <1>4 DEF Ledger!Erase, Silent
<1>5. CASE UNCHANGED <<LedgerView, ClosedTasks>>
    BY <1>5 DEF Silent
<1>. QED
  BY <1>1, <1>2, <1>3, <1>4, <1>5 DEF Ledger!LedgerNext

-----------------------------------------------------------------------------
(* Epochs *)

LEMMA FenceStep ==
    TypeOK /\ ResetFence /\ NoRowOfAnotherEpoch /\ [Next]_storeVars
       => ResetFence' /\ NoRowOfAnotherEpoch'
<1>. SUFFICES ASSUME TypeOK, ResetFence, NoRowOfAnotherEpoch, [Next]_storeVars
              PROVE  ResetFence' /\ NoRowOfAnotherEpoch'
    OBVIOUS
<1>a. /\ DOMAIN outbox = DOMAIN run
      /\ \A k \in DOMAIN run : k[1] \in DOMAIN task
    BY DEF TypeOK, RunsTypeOK
<1>b. ASSUME UNCHANGED <<profile, reset>>,
             DOMAIN task' = DOMAIN task,
             \A i \in DOMAIN task : task'[i].epoch = task[i].epoch,
             DOMAIN outbox' = DOMAIN outbox,
             \A k \in DOMAIN outbox : outbox'[k].epoch = outbox[k].epoch
      PROVE  ResetFence' /\ NoRowOfAnotherEpoch'
    BY <1>a, <1>b DEF ResetFence, NoRowOfAnotherEpoch, OwnerActive
<1>c. ASSUME UNCHANGED <<profile, reset>>,
             DOMAIN task' = DOMAIN task,
             \A i \in DOMAIN task : task'[i].epoch = task[i].epoch,
             NEW action, NEW K, Opens(K, action)
      PROVE  ResetFence' /\ NoRowOfAnotherEpoch'
  <2>1. /\ \A k \in K : k[1] \in DOMAIN task /\ CurrentEpoch(task[k[1]].epoch)
        /\ \A k \in K : outbox'[k].epoch = task[k[1]].epoch
        /\ DOMAIN outbox' = DOMAIN outbox \cup K
        /\ \A k \in DOMAIN run : outbox'[k] = outbox[k]
      BY <1>c DEF Opens
  <2>. QED
    BY <1>a, <1>c, <2>1 DEF ResetFence, NoRowOfAnotherEpoch, OwnerActive, CurrentEpoch
<1>1. ASSUME NEW p \in Plans, CreateDraft(p) PROVE ResetFence' /\ NoRowOfAnotherEpoch'
  <2>1. PICK i \in TaskIds \ DOMAIN task :
          /\ DOMAIN task' = DOMAIN task \cup {i}
          /\ task'[i] = [status |-> "awaiting_confirmation", epoch |-> profile.epoch]
          /\ \A x \in DOMAIN task : task'[x] = task[x] /\ job'[x] = job[x]
      BY <1>1, CreateFacts
  <2>2. OwnerActive /\ UNCHANGED <<profile, reset, run, outbox>>
      BY <1>1 DEF CreateDraft
  <2>3. task'[i].epoch = profile.epoch
      BY <2>1
  <2>4. \A x \in DOMAIN task' : task'[x].epoch = profile.epoch
      BY <2>1, <2>2, <2>3 DEF NoRowOfAnotherEpoch
  <2>5. \A k \in DOMAIN outbox : task'[k[1]].epoch = outbox[k].epoch
      BY <1>a, <2>1 DEF ResetFence
  <2>. QED
    BY <2>2, <2>4, <2>5 DEF ResetFence, NoRowOfAnotherEpoch, OwnerActive
<1>2. ASSUME NEW i \in DOMAIN task, Activate(i)
      PROVE  ResetFence' /\ NoRowOfAnotherEpoch'
  <2>. DEFINE t == [task[i] EXCEPT !.status = "active"]
  <2>1. t \in TaskRow /\ t.epoch = task[i].epoch
      BY DEF TypeOK, TasksTypeOK, TaskRow, TaskStatuses
  <2>2. /\ DOMAIN task' = DOMAIN task
        /\ task'[i] = TaskAfter(t, job'[i])
        /\ \A x \in DOMAIN task \ {i} : task'[x] = task[x]
        /\ UNCHANGED <<profile, reset, outbox>>
      BY <1>2 DEF Activate, TypeOK, TasksTypeOK
  <2>. HIDE DEF t
  <2>3. task'[i].epoch = task[i].epoch
      BY <2>1, <2>2, TaskAfterStatus
  <2>. QED
    BY <1>b, <2>2, <2>3
<1>3. ASSUME NEW i \in DOMAIN task, NEW target \in {"cancelled", "completed"},
             Finish(i, target)
      PROVE  ResetFence' /\ NoRowOfAnotherEpoch'
  <2>1. /\ DOMAIN task' = DOMAIN task /\ UNCHANGED <<profile, reset>>
        /\ \A x \in DOMAIN task : task'[x].epoch = task[x].epoch
      BY <1>3 DEF Finish, CloseRows, RunsOf, OutboxOf, TypeOK, TasksTypeOK, TaskRow
  <2>2. /\ DOMAIN outbox' = DOMAIN outbox
        /\ \A k \in DOMAIN outbox : outbox'[k].epoch = outbox[k].epoch
      BY <1>3, <1>a, OutboxCancelledFacts DEF Finish, CloseRows, RunsOf, OutboxOf
  <2>. QED
    BY <1>b, <2>1, <2>2
<1>4. ASSUME NEW i \in DOMAIN task, NEW tok \in ActionTokens, Snooze(i, tok)
      PROVE  ResetFence' /\ NoRowOfAnotherEpoch'
  <2>1. UNCHANGED <<profile, reset, task>>
      BY <1>4 DEF Snooze, InsertSnooze
  <2>. QED
    BY <1>c, <1>4, <2>1, SnoozeOpens
<1>5. MaterializeDue => ResetFence' /\ NoRowOfAnotherEpoch'
  <2>. SUFFICES ASSUME MaterializeDue PROVE ResetFence' /\ NoRowOfAnotherEpoch'
      OBVIOUS
  <2>1. UNCHANGED <<profile, reset>>
      BY DEF MaterializeDue
  <2>2. \A i \in FreshJobs : task'[i].epoch = task[i].epoch
      BY FreshJobFacts, MaterializeFacts, TaskAfterStatus
  <2>3. /\ DOMAIN task' = DOMAIN task
        /\ \A i \in DOMAIN task : task'[i].epoch = task[i].epoch
      BY <2>2, MaterializeFacts
  <2>. QED
    BY <1>c, <2>1, <2>3, MaterializeOpens
<1>6. LapseAll => ResetFence' /\ NoRowOfAnotherEpoch'
  <2>. SUFFICES ASSUME LapseAll PROVE ResetFence' /\ NoRowOfAnotherEpoch'
      OBVIOUS
  <2>1. /\ DOMAIN outbox' = DOMAIN outbox /\ UNCHANGED <<profile, reset, task>>
        /\ \A k \in DOMAIN outbox : outbox'[k].epoch = outbox[k].epoch
      BY <1>a, OutboxCancelledFacts DEF LapseAll
  <2>. QED
    BY <1>b, <2>1
<1>7. ASSUME NEW k \in DOMAIN outbox, LeaseDelivery(k)
      PROVE  ResetFence' /\ NoRowOfAnotherEpoch'
  <2>1. PICK S \in SUBSET Eligible : \A m \in DOMAIN run \ {k} :
          outbox'[m] = OutboxCancelled(S)[m]
      BY <1>7, LeaseFacts
  <2>2. \A m \in DOMAIN run : outbox'[m].epoch = outbox[m].epoch
      BY <1>7, <2>1, LeaseFacts, OutboxCancelledFacts
  <2>3. DOMAIN outbox' = DOMAIN outbox /\ UNCHANGED <<profile, reset, task>>
      BY <1>a, <1>7, LeaseFacts DEF LeaseDelivery
  <2>. QED
    BY <1>a, <1>b, <2>2, <2>3
<1>8. ASSUME NEW l \in issued, MarkSent(l) \/ ReleaseHeld(l)
      PROVE  ResetFence' /\ NoRowOfAnotherEpoch'
  <2>1. UNCHANGED <<profile, reset, task>>
      BY <1>8 DEF MarkSent, ReleaseHeld
  <2>2. CASE MarkSent(l)
    <3>1. /\ DOMAIN outbox' = DOMAIN outbox
          /\ \A k \in DOMAIN outbox : outbox'[k].epoch = outbox[k].epoch
        BY <2>2 DEF MarkSent, TypeOK, RunsTypeOK, OutboxRow
    <3>. QED
      BY <1>b, <2>1, <3>1
  <2>3. CASE ReleaseHeld(l)
    <3>1. /\ DOMAIN outbox' = DOMAIN outbox
          /\ \A k \in DOMAIN outbox : outbox'[k].epoch = outbox[k].epoch
        BY <2>3 DEF ReleaseHeld, TypeOK, RunsTypeOK, OutboxRow
    <3>. QED
      BY <1>b, <2>1, <3>1
  <2>. QED
    BY <1>8, <2>2, <2>3
<1>9. StoreBeginReset => ResetFence' /\ NoRowOfAnotherEpoch'
    BY DEF StoreBeginReset, BeginReset, rows, ResetFence, NoRowOfAnotherEpoch,
           OwnerActive
<1>10. StoreQuiesce \/ StoreAbandonReset => ResetFence' /\ NoRowOfAnotherEpoch'
    BY DEF StoreQuiesce, Quiesce, StoreAbandonReset, AbandonReset, rows, ResetFence,
           NoRowOfAnotherEpoch, OwnerActive
<1>11. StorePurge => ResetFence' /\ NoRowOfAnotherEpoch'
    BY DEF StorePurge, PurgeHooks, Empty, ResetFence, NoRowOfAnotherEpoch,
           OwnerActive
<1>12. StoreCommitReset => ResetFence' /\ NoRowOfAnotherEpoch'
    BY <1>a DEF StoreCommitReset, CommitReset, rows, ResetFence,
                NoRowOfAnotherEpoch, OwnerActive
<1>13. UNCHANGED <<profile, reset, task, outbox>> => ResetFence' /\ NoRowOfAnotherEpoch'
    BY DEF ResetFence, NoRowOfAnotherEpoch, OwnerActive
<1>. QED
  BY <1>1, <1>2, <1>3, <1>4, <1>5, <1>6, <1>7, <1>8, <1>9, <1>10, <1>11, <1>12, <1>13
     DEF Next, OwnerOperation, DeliveryOperation, ResetStep, Release, MarkAwaiting,
         storeVars, rows, Tick

-----------------------------------------------------------------------------
(* Leases *)

LeasesOK == LeaseFence /\ LeasesCounted

\* A step that issues no lease and gives no row one.
LEMMA NoLeaseStep ==
    ASSUME LeasesOK, UNCHANGED <<issued, profile>>,
           DOMAIN outbox' = DOMAIN outbox,
           \A k \in DOMAIN outbox :
              /\ outbox'[k].attempt = outbox[k].attempt
              /\ outbox'[k].epoch = outbox[k].epoch
              /\ outbox'[k].status = "leased" =>
                    outbox[k].status = "leased" /\ outbox'[k].token = outbox[k].token
    PROVE  LeasesOK'
<1>1. LeaseFence'
    BY DEF LeasesOK, LeaseFence, OwnerActive
<1>2. LeasesCounted'
    BY DEF LeasesOK, LeasesCounted
<1>. QED
  BY <1>1, <1>2 DEF LeasesOK

\* New rows: no lease of this epoch was ever issued under their names.
LEMMA OpensLeases ==
    ASSUME TypeOK, LeasesOK, UNCHANGED <<issued, profile>>,
           NEW action, NEW K, Opens(K, action)
    PROVE  LeasesOK'
<1>1. /\ DOMAIN outbox = DOMAIN run /\ K \cap DOMAIN outbox = {}
      /\ DOMAIN outbox' = DOMAIN outbox \cup K
      /\ \A k \in DOMAIN outbox : outbox'[k] = outbox[k]
    BY Opens(K, action) DEF Opens, TypeOK, RunsTypeOK
<1>2. /\ \A k \in K : outbox'[k].epoch = task[k[1]].epoch
      /\ \A k \in K : task[k[1]].epoch = profile.epoch
      /\ \A k \in K : outbox'[k].attempt = 0 /\ outbox'[k].status # "leased"
    BY Opens(K, action) DEF Opens, CurrentEpoch
<1>3. LeaseFence'
    BY <1>1, <1>2, PolicyAssumption DEF LeasesOK, LeaseFence, OwnerActive
<1>4. ASSUME NEW k \in K, NEW l \in issued
      PROVE  ~(l.key = k /\ l.epoch = outbox'[k].epoch)
    BY <1>1, <1>2 DEF LeasesOK, LeaseFence
<1>5. LeasesCounted'
    BY <1>1, <1>2, <1>4 DEF LeasesOK, LeasesCounted
<1>. QED
  BY <1>3, <1>5 DEF LeasesOK

\* The new lease is the one with the highest attempt of its row.
LEMMA LeaseCounts ==
    ASSUME TypeOK, LeasesOK, NEW k \in DOMAIN outbox, LeaseDelivery(k)
    PROVE  LeasesOK'
<1>. DEFINE n == NextLease(k)
<1>1. /\ k \in Eligible /\ n \in Lease
      /\ outbox'[k].status = "leased" /\ outbox'[k].token = n
      /\ outbox'[k].attempt = outbox[k].attempt + 1
      /\ outbox'[k].epoch = outbox[k].epoch
      /\ DOMAIN outbox = DOMAIN run /\ DOMAIN outbox' = DOMAIN run
    BY LeaseFacts, LeaseDelivery(k) DEF TypeOK, RunsTypeOK
<1>2. issued' = issued \cup {n} /\ UNCHANGED profile
    BY LeaseDelivery(k) DEF LeaseDelivery
<1>3. /\ n.key = k /\ n.epoch = outbox[k].epoch /\ n.attempt = outbox[k].attempt + 1
      /\ n = [key |-> k, epoch |-> outbox[k].epoch, attempt |-> outbox[k].attempt + 1]
    BY DEF NextLease
<1>4. /\ outbox[k].attempt < MaxAttempts /\ outbox[k].epoch = profile.epoch
      /\ OwnerActive
    BY <1>1 DEF Eligible, CurrentEpoch
<1>5. outbox[k].attempt \in Nat /\ MaxAttempts \in Nat /\ profile.epoch \in Nat
    BY <1>1, PolicyAssumption DEF TypeOK, RunsTypeOK, OutboxRow, LifecycleTypeOK
<1>6. \A m \in DOMAIN outbox \ {k} :
        /\ outbox'[m].attempt = outbox[m].attempt
        /\ outbox'[m].epoch = outbox[m].epoch
        /\ outbox'[m].status = "leased" =>
              outbox[m].status = "leased" /\ outbox'[m].token = outbox[m].token
  <2>1. PICK S \in SUBSET Eligible : \A m \in DOMAIN run \ {k} :
          outbox'[m] = OutboxCancelled(S)[m]
      BY LeaseFacts, LeaseDelivery(k)
  <2>2. ASSUME NEW m \in DOMAIN outbox \ {k}
        PROVE  /\ outbox'[m].attempt = outbox[m].attempt
               /\ outbox'[m].epoch = outbox[m].epoch
               /\ outbox'[m].status = "leased" =>
                     outbox[m].status = "leased" /\ outbox'[m].token = outbox[m].token
    <3>1. m \in DOMAIN run /\ outbox'[m] = OutboxCancelled(S)[m]
        BY <1>1, <2>1
    <3>. QED
      BY <3>1, OutboxCancelledFacts
  <2>. QED
    BY <2>2
<1>. HIDE DEF n
<1>7. LeaseFence'
  <2>1. \A m \in DOMAIN outbox' : outbox'[m].attempt <= MaxAttempts
      BY <1>1, <1>4, <1>5, <1>6 DEF LeasesOK, LeaseFence
  <2>2. \A l \in issued' :
          /\ l.epoch <= profile'.epoch
          /\ l.epoch = profile'.epoch => OwnerActive' /\ l.key \in DOMAIN outbox'
      BY <1>1, <1>2, <1>3, <1>4, <1>5 DEF LeasesOK, LeaseFence, OwnerActive
  <2>. QED
    BY <2>1, <2>2 DEF LeaseFence
<1>8. LeasesCounted'
  <2>1. \A l \in issued' : l.attempt <= MaxAttempts
      BY <1>2, <1>3, <1>4, <1>5 DEF LeasesOK, LeasesCounted
  <2>2. ASSUME NEW m \in DOMAIN outbox, outbox'[m].status = "leased"
        PROVE  outbox'[m].token = [key |-> m, epoch |-> outbox'[m].epoch,
                                   attempt |-> outbox'[m].attempt]
    <3>1. CASE m = k
        BY <1>1, <1>3, <3>1
    <3>2. CASE m # k
        BY <1>6, <2>2, <3>2 DEF LeasesOK, LeasesCounted
    <3>. QED
      BY <3>1, <3>2
  <2>3. ASSUME NEW m \in DOMAIN outbox, NEW l \in issued', l.key = m,
               l.epoch = outbox'[m].epoch
        PROVE  l.attempt <= outbox'[m].attempt
    <3>1. CASE l = n
        BY <1>1, <1>3, <1>5, <2>3, <3>1
    <3>2. CASE l \in issued /\ m = k
      <4>1. l.attempt <= outbox[k].attempt /\ l.attempt \in Nat
          BY <1>1, <2>3, <3>2 DEF LeasesOK, LeasesCounted, TypeOK, Lease
      <4>. QED
        BY <1>1, <1>5, <3>2, <4>1
    <3>3. CASE l \in issued /\ m # k
        BY <1>6, <2>3, <3>3 DEF LeasesOK, LeasesCounted
    <3>. QED
      BY <1>2, <3>1, <3>2, <3>3
  <2>. QED
    BY <1>1, <2>1, <2>2, <2>3 DEF LeasesCounted
<1>. QED
  BY <1>7, <1>8 DEF LeasesOK

LEMMA LeaseStep ==
    TypeOK /\ ResetFence /\ LeasesOK /\ [Next]_storeVars => LeasesOK'
<1>. SUFFICES ASSUME TypeOK, ResetFence, LeasesOK, [Next]_storeVars PROVE LeasesOK'
    OBVIOUS
<1>a. DOMAIN outbox = DOMAIN run
    BY DEF TypeOK, RunsTypeOK
<1>b. UNCHANGED <<issued, profile, outbox>> => LeasesOK'
    BY NoLeaseStep
<1>1. ASSUME NEW i \in DOMAIN task, NEW target \in {"cancelled", "completed"},
             Finish(i, target)
      PROVE  LeasesOK'
  <2>1. PICK S : outbox' = OutboxCancelled(S) /\ UNCHANGED <<issued, profile>>
      BY <1>1 DEF Finish, CloseRows, RunsOf, OutboxOf
  <2>. QED
    BY <1>a, <2>1, OutboxCancelledFacts, NoLeaseStep
<1>2. ASSUME NEW i \in DOMAIN task, NEW tok \in ActionTokens, Snooze(i, tok)
      PROVE  LeasesOK'
  <2>1. UNCHANGED <<issued, profile>>
      BY <1>2 DEF Snooze, InsertSnooze
  <2>. QED
    BY <1>2, <2>1, SnoozeOpens, OpensLeases
<1>3. MaterializeDue => LeasesOK'
  <2>. SUFFICES ASSUME MaterializeDue PROVE LeasesOK'
      OBVIOUS
  <2>1. UNCHANGED <<issued, profile>>
      BY DEF MaterializeDue
  <2>. QED
    BY <2>1, MaterializeOpens, OpensLeases
<1>4. LapseAll => LeasesOK'
  <2>. SUFFICES ASSUME LapseAll PROVE LeasesOK'
      OBVIOUS
  <2>1. outbox' = OutboxCancelled(Eligible) /\ UNCHANGED <<issued, profile>>
      BY DEF LapseAll
  <2>. QED
    BY <1>a, <2>1, OutboxCancelledFacts, NoLeaseStep
<1>5. ASSUME NEW k \in DOMAIN outbox, LeaseDelivery(k) PROVE LeasesOK'
    BY <1>5, LeaseCounts
<1>6. ASSUME NEW l \in issued, MarkSent(l) PROVE LeasesOK'
  <2>1. CASE DeliveryIsCurrent(l)
    <3>1. /\ UNCHANGED <<issued, profile>> /\ l.key \in DOMAIN outbox
          /\ outbox' = [outbox EXCEPT ![l.key].status = "sent", ![l.key].until = None]
        BY <1>6, <2>1 DEF MarkSent, DeliveryIsCurrent, HoldsLease
    <3>2. \A k \in DOMAIN outbox : outbox[k] \in OutboxRow
        BY DEF TypeOK, RunsTypeOK
    <3>3. /\ DOMAIN outbox' = DOMAIN outbox
          /\ \A k \in DOMAIN outbox :
               /\ outbox'[k].attempt = outbox[k].attempt
               /\ outbox'[k].epoch = outbox[k].epoch
               /\ outbox'[k].status = "leased" =>
                    outbox[k].status = "leased" /\ outbox'[k].token = outbox[k].token
        BY <3>1, <3>2 DEF OutboxRow
    <3>. QED
      BY <3>1, <3>3, NoLeaseStep
  <2>2. CASE ~DeliveryIsCurrent(l)
      BY <1>6, <1>b, <2>2 DEF MarkSent
  <2>. QED
    BY <2>1, <2>2
<1>7. ASSUME NEW l \in issued, ReleaseHeld(l) PROVE LeasesOK'
  <2>1. UNCHANGED <<issued, profile>> /\ l.key \in DOMAIN outbox
      BY <1>7 DEF ReleaseHeld, DeliveryIsCurrent, HoldsLease
  <2>2. PICK s \in {"failed", "pending"}, a \in {outbox[l.key].avail, now + RetryDelay} :
          outbox' = [outbox EXCEPT ![l.key].status = s, ![l.key].avail = a,
                                   ![l.key].token = None, ![l.key].until = None]
      BY <1>7 DEF ReleaseHeld
  <2>3. \A k \in DOMAIN outbox : outbox[k] \in OutboxRow
      BY DEF TypeOK, RunsTypeOK
  <2>4. /\ DOMAIN outbox' = DOMAIN outbox
        /\ \A k \in DOMAIN outbox :
             /\ outbox'[k].attempt = outbox[k].attempt
             /\ outbox'[k].epoch = outbox[k].epoch
             /\ outbox'[k].status = "leased" =>
                  outbox[k].status = "leased" /\ outbox'[k].token = outbox[k].token
      BY <2>1, <2>2, <2>3 DEF OutboxRow
  <2>. QED
    BY <2>1, <2>4, NoLeaseStep
<1>8. StoreBeginReset => LeasesOK'
  <2>. SUFFICES ASSUME StoreBeginReset PROVE LeasesOK'
      OBVIOUS
  <2>1. profile.epoch \in Nat /\ profile'.epoch = profile.epoch + 1
        /\ UNCHANGED <<outbox, issued>>
      BY DEF StoreBeginReset, BeginReset, rows, TypeOK, LifecycleTypeOK
  <2>2. \A l \in issued : l.epoch \in Nat /\ l.epoch <= profile.epoch
      BY DEF LeasesOK, LeaseFence, TypeOK, Lease
  <2>3. LeaseFence'
      BY <2>1, <2>2 DEF LeasesOK, LeaseFence
  <2>4. LeasesCounted'
      BY <2>1 DEF LeasesOK, LeasesCounted
  <2>. QED
    BY <2>3, <2>4 DEF LeasesOK
<1>9. StorePurge => LeasesOK'
    BY DEF StorePurge, PurgeHooks, Empty, ResetFence, LeasesOK, LeaseFence,
           LeasesCounted, OwnerActive
<1>10. StoreCommitReset => LeasesOK'
  <2>. SUFFICES ASSUME StoreCommitReset PROVE LeasesOK'
      OBVIOUS
  <2>1. profile'.epoch = profile.epoch /\ ~OwnerActive /\ UNCHANGED <<outbox, issued>>
      BY DEF StoreCommitReset, CommitReset, rows, ResetFence, TypeOK, LifecycleTypeOK
  <2>. QED
    BY <2>1 DEF LeasesOK, LeaseFence, LeasesCounted
<1>. QED
  BY <1>b, <1>1, <1>2, <1>3, <1>4, <1>5, <1>6, <1>7, <1>8, <1>9, <1>10
     DEF Next, OwnerOperation, DeliveryOperation, ResetStep, Release, CreateDraft,
         MarkAwaiting, Activate, StoreQuiesce, Quiesce, StoreAbandonReset,
         AbandonReset, storeVars, rows, Tick

-----------------------------------------------------------------------------
(* Snoozes *)

\* A step that gives every old run its old action and every new one none, or
\* one that no run had.
LEMMA SnoozeStep == TypeOK /\ SnoozeOnce /\ [Next]_storeVars => SnoozeOnce'
<1>. SUFFICES ASSUME TypeOK, SnoozeOnce, [Next]_storeVars PROVE SnoozeOnce'
    OBVIOUS
<1>a. ASSUME DOMAIN run' = DOMAIN run,
             \A k \in DOMAIN run : run'[k].action = run[k].action
      PROVE  SnoozeOnce'
    BY <1>a DEF SnoozeOnce
<1>b. ASSUME NEW S, NEW s \in RunStatuses, run' = RunsMoved(S, s) PROVE SnoozeOnce'
    BY <1>a, <1>b, RunsMovedFacts
<1>1. ASSUME NEW i \in DOMAIN task, NEW target \in {"cancelled", "completed"},
             Finish(i, target)
      PROVE  SnoozeOnce'
    BY <1>b, <1>1 DEF Finish, CloseRows, RunsOf, OutboxOf, RunStatuses
<1>2. ASSUME NEW i \in DOMAIN task, NEW tok \in ActionTokens, Snooze(i, tok)
      PROVE  SnoozeOnce'
  <2>1. \A k \in DOMAIN run : run[k].action # tok
      BY <1>2 DEF Snooze, InsertSnooze
  <2>2. run' = Upsert(run, [k \in {<<i, now + SnoozeDelay>>} |->
                  NewRunRow(Available(job[i].plan, now + SnoozeDelay)
                              > now + SnoozeDelay + job[i].plan.grace, tok)])
      BY <1>2 DEF Snooze, InsertSnooze
  <2>3. DOMAIN run' = DOMAIN run \cup {<<i, now + SnoozeDelay>>}
      BY <2>2, UpsertDomain
  <2>4. PICK K : Opens(K, tok)
      BY <1>2, SnoozeOpens
  <2>5. /\ DOMAIN run' = DOMAIN run \cup K
        /\ \A k \in DOMAIN run : run'[k] = run[k]
        /\ \A k \in K : run'[k].action = tok
        /\ K \cap DOMAIN run = {}
      BY <2>4 DEF Opens
  <2>6. \A k, m \in K : k = m
      BY <2>3, <2>5
  <2>. QED
    BY <2>1, <2>5, <2>6 DEF SnoozeOnce
<1>3. MaterializeDue => SnoozeOnce'
  <2>. SUFFICES ASSUME MaterializeDue PROVE SnoozeOnce'
      OBVIOUS
  <2>1. PICK K : Opens(K, None)
      BY MaterializeOpens
  <2>2. /\ DOMAIN run' = DOMAIN run \cup K
        /\ \A k \in DOMAIN run : run'[k] = run[k]
        /\ \A k \in K : run'[k].action = None
      BY <2>1 DEF Opens
  <2>. QED
    BY <2>2 DEF SnoozeOnce
<1>4. LapseAll => SnoozeOnce'
    BY <1>b DEF LapseAll, RunStatuses
<1>5. ASSUME NEW k \in DOMAIN outbox, LeaseDelivery(k) PROVE SnoozeOnce'
  <2>1. PICK S \in SUBSET Eligible : \A m \in DOMAIN run \ {k} :
          run'[m] = RunsMoved(LapsedRuns(S), "missed")[m]
      BY <1>5, LeaseFacts
  <2>2. \A m \in DOMAIN run : run'[m].action = run[m].action
      BY <1>5, <2>1, LeaseFacts, RunsMovedFacts DEF RunStatuses
  <2>3. DOMAIN run' = DOMAIN run
      BY <1>5, LeaseFacts
  <2>. QED
    BY <1>a, <2>2, <2>3
<1>6. ASSUME NEW l \in issued, MarkSent(l) PROVE SnoozeOnce'
    BY <1>a, <1>6 DEF MarkSent, TypeOK, RunsTypeOK, RunRow
<1>7. ASSUME NEW l \in issued, ReleaseHeld(l) PROVE SnoozeOnce'
    BY <1>a, <1>7 DEF ReleaseHeld, TypeOK, RunsTypeOK, RunRow
<1>8. StorePurge => SnoozeOnce'
    BY DEF StorePurge, Empty, SnoozeOnce
<1>9. UNCHANGED run => SnoozeOnce'
    BY DEF SnoozeOnce
<1>. QED
  BY <1>1, <1>2, <1>3, <1>4, <1>5, <1>6, <1>7, <1>8, <1>9
     DEF Next, OwnerOperation, DeliveryOperation, ResetStep, Release, CreateDraft,
         MarkAwaiting, Activate, StoreBeginReset, StoreQuiesce, StoreCommitReset,
         StoreAbandonReset, storeVars, rows, Tick

-----------------------------------------------------------------------------
(* The cursor *)

\* The instants at which runs of job i stand that no snooze made.
Scheduled(i) == {k[2] : k \in {r \in DOMAIN run : r[1] = i /\ run[r].action = None}}
FirstInstants(p, n) == {Instant(p, m) : m \in 1..n}

\* The rows of one job agree, and nothing of a draft was emitted.
CursorRight(i) ==
    /\ Scheduled(i) = FirstInstants(job[i].plan, job[i].emitted)
    /\ job[i].status = "active" => job[i].next = Instant(job[i].plan, job[i].emitted + 1)
    /\ job[i].status \in {"draft", "awaiting_confirmation"} => job[i].emitted = 0

CursorInv == \A i \in DOMAIN job : CursorRight(i)

LEMMA CursorInvExact == CursorInv => CursorExact
  BY DEF CursorInv, CursorRight, CursorExact, Scheduled, FirstInstants

\* The fields JobAt gives a job.
LEMMA JobAtFields ==
    ASSUME NEW j \in JobRow, NEW n \in Nat, n > 0
    PROVE  /\ JobAt(j, n).plan = j.plan /\ JobAt(j, n).emitted = n - 1
           /\ JobAt(j, n).status = "active" => JobAt(j, n).next = Instant(j.plan, n)
<1>1. \A e, x, y :
        LET k == [j EXCEPT !.emitted = e, !.next = x, !.status = y] IN
        k.plan = j.plan /\ k.emitted = e /\ k.next = x /\ k.status = y
    BY DEF JobRow
<1>. QED
  BY <1>1 DEF JobAt

\* A row stays right while the runs keep their actions and the job its plan and
\* its count.
LEMMA CursorStays ==
    ASSUME NEW i, CursorRight(i),
           DOMAIN run' = DOMAIN run, \A k \in DOMAIN run : run'[k].action = run[k].action,
           job'[i].plan = job[i].plan, job'[i].emitted = job[i].emitted,
           job'[i].status = "active" =>
              job'[i].next = Instant(job'[i].plan, job'[i].emitted + 1),
           job'[i].status \in {"draft", "awaiting_confirmation"} => job[i].emitted = 0
    PROVE  CursorRight(i)'
<1>1. Scheduled(i)' = Scheduled(i)
    BY DEF Scheduled
<1>2. FirstInstants(job[i].plan, job[i].emitted)'
        = FirstInstants(job[i].plan, job[i].emitted)
    BY DEF FirstInstants, Instant
<1>. QED
  BY <1>1, <1>2 DEF CursorRight, Instant

\* So is every row in a step that leaves the jobs alone.
LEMMA CursorUntouched ==
    ASSUME CursorInv, UNCHANGED job,
           DOMAIN run' = DOMAIN run, \A k \in DOMAIN run : run'[k].action = run[k].action
    PROVE  CursorInv'
  BY CursorStays DEF CursorInv, CursorRight

\* The scheduler emits the instant the cursor of a due job stands at, and moves it on.
LEMMA CursorMoves == TypeOK /\ CursorInv /\ MaterializeDue => CursorInv'
<1>. SUFFICES ASSUME TypeOK, CursorInv, MaterializeDue PROVE CursorInv'
    OBVIOUS
<1>1. DOMAIN job' = DOMAIN job /\ DOMAIN task = DOMAIN job
  <2>1. DOMAIN job' = DOMAIN job \cup FreshJobs
      BY UpsertDomain DEF MaterializeDue
  <2>. QED
    BY <2>1, FreshJobFacts DEF TypeOK, TasksTypeOK
<1>. DEFINE new == {NextKey(i) : i \in FreshJobs}
<1>2. /\ DOMAIN run' = DOMAIN run \cup new
      /\ \A k \in DOMAIN run : run'[k] = run[k]
      /\ \A k \in new : run'[k].action = None
  <2>1. PICK K : Opens(K, None)
      BY MaterializeOpens
  <2>2. /\ DOMAIN run' = DOMAIN run \cup K
        /\ \A k \in DOMAIN run : run'[k] = run[k]
        /\ \A k \in K : run'[k].action = None
      BY <2>1 DEF Opens
  <2>3. DOMAIN run' = DOMAIN run \cup new
      BY UpsertDomain DEF MaterializeDue
  <2>4. new \cap DOMAIN run = {}
      BY FreshJobFacts
  <2>. QED
    BY <2>2, <2>3, <2>4
<1>3. \A i \in FreshJobs : NextKey(i) = <<i, job[i].next>>
    BY DEF NextKey
<1>4. ASSUME NEW i \in FreshJobs PROVE CursorRight(i)'
  <2>1. /\ job[i] \in JobRow /\ job[i].status = "active" /\ i \in DOMAIN job
        /\ job[i].emitted \in Nat
      BY <1>1, FreshJobFacts DEF JobRow
  <2>2. Scheduled(i)' = Scheduled(i) \cup {job[i].next}
    <3>. DEFINE at(R) == {k[2] : k \in R}
                old == {k \in DOMAIN run : k[1] = i /\ run[k].action = None}
                key == <<i, job[i].next>>
    <3>1. key \in new /\ \A k \in new : k[1] = i => k = key
        BY <1>3
    <3>2. {k \in DOMAIN run' : k[1] = i /\ run'[k].action = None} = old \cup {key}
        BY <1>2, <3>1, key[1] = i
    <3>3. Scheduled(i)' = at(old \cup {key}) /\ Scheduled(i) = at(old)
        BY <3>2 DEF Scheduled
    <3>4. key[2] = job[i].next
        OBVIOUS
    <3>. HIDE DEF old, key
    <3>5. at(old \cup {key}) = at(old) \cup {key[2]}
        OBVIOUS
    <3>. QED
      BY <3>3, <3>4, <3>5
  <2>3. /\ job[i].next = Instant(job[i].plan, job[i].emitted + 1)
        /\ Scheduled(i) = FirstInstants(job[i].plan, job[i].emitted)
      BY <2>1 DEF CursorInv, CursorRight
  <2>4. FirstInstants(job[i].plan, job[i].emitted + 1)
          = FirstInstants(job[i].plan, job[i].emitted)
              \cup {Instant(job[i].plan, job[i].emitted + 1)}
    <3>1. 1..(job[i].emitted + 1) = 1..job[i].emitted \cup {job[i].emitted + 1}
        BY <2>1
    <3>. QED
      BY <3>1 DEF FirstInstants
  <2>5. job'[i] = JobAfterRun(i)
      BY MaterializeFacts
  <2>6. /\ JobAfterRun(i).plan = job[i].plan
        /\ JobAfterRun(i).emitted = job[i].emitted + 1
        /\ JobAfterRun(i).status = "active" =>
              JobAfterRun(i).next = Instant(job[i].plan, job[i].emitted + 2)
    <3>1. CASE NextAvailable(i) = Unresolvable
      <4>1. \A e : LET j == [job[i] EXCEPT !.status = "needs_review", !.next = None,
                                           !.emitted = e] IN
              j.plan = job[i].plan /\ j.emitted = e /\ j.status = "needs_review"
          BY <2>1 DEF JobRow
      <4>. QED
        BY <3>1, <4>1 DEF JobAfterRun
    <3>2. CASE NextAvailable(i) # Unresolvable
      <4>1. JobAfterRun(i) = JobAt(job[i], job[i].emitted + 2)
          BY <3>2 DEF JobAfterRun
      <4>. QED
        BY <2>1, <4>1, JobAtFields
    <3>. QED
      BY <3>1, <3>2
  <2>7. JobAfterRun(i).status \notin {"draft", "awaiting_confirmation"}
      BY AfterRunStatus
  <2>8. /\ Scheduled(i)' = FirstInstants(job[i].plan, job[i].emitted + 1)
        /\ (job[i].emitted + 1) + 1 = job[i].emitted + 2
      BY <2>1, <2>2, <2>3, <2>4
  <2>. QED
    BY <2>5, <2>6, <2>7, <2>8 DEF CursorRight, FirstInstants, Instant
<1>5. ASSUME NEW i \in DOMAIN job \ FreshJobs PROVE CursorRight(i)'
  <2>1. job'[i] = job[i]
      BY <1>1, MaterializeFacts
  <2>2. Scheduled(i)' = Scheduled(i)
    <3>1. \A k \in new : k[1] # i
        BY <1>3
    <3>. QED
      BY <1>2, <3>1 DEF Scheduled
  <2>. QED
    BY <2>1, <2>2 DEF CursorInv, CursorRight, FirstInstants, Instant
<1>. QED
  BY <1>1, <1>4, <1>5 DEF CursorInv

LEMMA CursorStep == TypeOK /\ CursorInv /\ [Next]_storeVars => CursorInv'
<1>. SUFFICES ASSUME TypeOK, CursorInv, [Next]_storeVars PROVE CursorInv'
    OBVIOUS
<1>0. DOMAIN job = DOMAIN task /\ \A i \in DOMAIN job : job[i] \in JobRow
    BY DEF TypeOK, TasksTypeOK
<1>1. ASSUME NEW p \in Plans, CreateDraft(p) PROVE CursorInv'
  <2>1. PICK i \in TaskIds \ DOMAIN task :
          /\ job'[i] = [status |-> "draft", next |-> None, emitted |-> 0, plan |-> p]
          /\ \A x \in DOMAIN task : job'[x] = job[x]
          /\ DOMAIN job' = DOMAIN job \cup {i}
    <3>1. PICK i \in TaskIds :
            /\ NextTaskId(i)
            /\ job' = Upsert(job, [x \in {i} |->
                 [status |-> "draft", next |-> None, emitted |-> 0, plan |-> p]])
        BY <1>1 DEF CreateDraft
    <3>. DEFINE row == [status |-> "draft", next |-> None, emitted |-> 0, plan |-> p]
                j == [x \in {i} |-> row]
    <3>2. i \notin DOMAIN task
        BY <3>1 DEF NextTaskId, TaskIds
    <3>3. job' = Upsert(job, j) /\ DOMAIN j = {i} /\ j[i] = row
        BY <3>1
    <3>. HIDE DEF j
    <3>4. /\ DOMAIN Upsert(job, j) = DOMAIN job \cup {i}
          /\ Upsert(job, j)[i] = row
          /\ \A x \in DOMAIN job : Upsert(job, j)[x] = job[x]
      <4>1. i \notin DOMAIN job
          BY <1>0, <3>2
      <4>2. DOMAIN Upsert(job, j) = DOMAIN job \cup {i}
          BY <3>3, UpsertDomain
      <4>3. Upsert(job, j)[i] = row
          BY <3>3, UpsertNew
      <4>4. \A x \in DOMAIN job : Upsert(job, j)[x] = job[x]
          BY <3>3, <4>1, UpsertOld
      <4>. QED
        BY <4>2, <4>3, <4>4
    <3>. QED
      BY <1>0, <3>2, <3>3, <3>4
  <2>2. UNCHANGED run
      BY <1>1 DEF CreateDraft
  <2>3. CursorRight(i)'
    <3>1. \A k \in DOMAIN run : k[1] # i
        BY <2>1 DEF TypeOK, RunsTypeOK
    <3>2. Scheduled(i)' = {}
        BY <2>2, <3>1 DEF Scheduled
    <3>3. FirstInstants(p, 0) = {}
        BY DEF FirstInstants
    <3>. QED
      BY <2>1, <3>2, <3>3 DEF CursorRight, FirstInstants, Instant
  <2>4. \A x \in DOMAIN job : CursorRight(x)'
      BY <1>0, <2>1, <2>2 DEF CursorInv, CursorRight, Scheduled, FirstInstants, Instant
  <2>. QED
    BY <2>1, <2>3, <2>4 DEF CursorInv
<1>2. ASSUME NEW i \in DOMAIN task, MarkAwaiting(i) PROVE CursorInv'
  <2>1. /\ DOMAIN job' = DOMAIN job /\ UNCHANGED run
        /\ job[i].status = "draft"
        /\ job'[i] = [job[i] EXCEPT !.status = "awaiting_confirmation"]
        /\ \A x \in DOMAIN job \ {i} : job'[x] = job[x]
      BY <1>0, <1>2 DEF MarkAwaiting
  <2>2. /\ job'[i].plan = job[i].plan /\ job'[i].emitted = job[i].emitted
        /\ job'[i].status = "awaiting_confirmation"
      BY <1>0, <2>1 DEF JobRow
  <2>3. CursorRight(i)'
      BY <1>0, <2>1, <2>2, CursorStays DEF CursorInv, CursorRight
  <2>4. ASSUME NEW x \in DOMAIN job \ {i} PROVE CursorRight(x)'
      BY <2>1, <2>4, CursorStays DEF CursorInv, CursorRight
  <2>. QED
    BY <2>1, <2>3, <2>4 DEF CursorInv
<1>3. ASSUME NEW i \in DOMAIN task, Activate(i) PROVE CursorInv'
  <2>1. /\ DOMAIN job' = DOMAIN job /\ UNCHANGED run
        /\ job[i].status = "awaiting_confirmation"
        /\ job'[i] = JobAt(job[i], 1)
        /\ \A x \in DOMAIN job \ {i} : job'[x] = job[x]
      BY <1>0, <1>3 DEF Activate
  <2>2. job[i].emitted = 0
      BY <1>0, <2>1 DEF CursorInv, CursorRight
  <2>3. /\ job'[i].plan = job[i].plan /\ job'[i].emitted = 0
        /\ job'[i].status = "active" => job'[i].next = Instant(job[i].plan, 1)
      BY <1>0, <2>1, JobAtFields
  <2>4. CursorRight(i)'
    <3>1. CursorRight(i) /\ 0 + 1 = 1
        BY <1>0 DEF CursorInv
    <3>. QED
      BY <2>1, <2>2, <2>3, <3>1 DEF CursorRight, Scheduled, FirstInstants, Instant
  <2>5. \A x \in DOMAIN job \ {i} : CursorRight(x)'
      BY <2>1 DEF CursorInv, CursorRight, Scheduled, FirstInstants, Instant
  <2>. QED
    BY <2>1, <2>4, <2>5 DEF CursorInv
<1>4. ASSUME NEW i \in DOMAIN task, NEW target \in {"cancelled", "completed"},
             Finish(i, target)
      PROVE  CursorInv'
  <2>1. /\ \/ job' = job
           \/ job' = [job EXCEPT ![i].status = target, ![i].next = None]
        /\ \E S : run' = RunsMoved(S, "cancelled")
      BY <1>4 DEF Finish, CloseRows
  <2>2. DOMAIN run' = DOMAIN run /\ \A k \in DOMAIN run : run'[k].action = run[k].action
      BY <2>1, RunsMovedFacts DEF RunStatuses
  <2>3. CASE job' = job
      BY <2>2, <2>3, CursorUntouched
  <2>4. CASE job' = [job EXCEPT ![i].status = target, ![i].next = None]
    <3>1. /\ DOMAIN job' = DOMAIN job
          /\ job'[i].plan = job[i].plan /\ job'[i].emitted = job[i].emitted
          /\ job'[i].status = target
          /\ \A x \in DOMAIN job \ {i} : job'[x] = job[x]
        BY <1>0, <2>4 DEF JobRow
    <3>2. CursorRight(i)'
        BY <1>0, <2>2, <3>1, CursorStays DEF CursorInv, CursorRight
    <3>3. ASSUME NEW x \in DOMAIN job \ {i} PROVE CursorRight(x)'
        BY <2>2, <3>1, <3>3, CursorStays DEF CursorInv, CursorRight
    <3>. QED
      BY <3>1, <3>2, <3>3 DEF CursorInv
  <2>. QED
    BY <2>1, <2>3, <2>4
<1>5. ASSUME NEW i \in DOMAIN task, NEW tok \in ActionTokens, Snooze(i, tok)
      PROVE  CursorInv'
  <2>1. PICK K : Opens(K, tok)
      BY <1>5, SnoozeOpens
  <2>2. /\ DOMAIN run' = DOMAIN run \cup K
        /\ \A k \in DOMAIN run : run'[k] = run[k]
        /\ \A k \in K : run'[k].action # None
      BY <2>1, NullAssumption DEF Opens
  <2>3. UNCHANGED job
      BY <1>5 DEF Snooze, InsertSnooze
  <2>4. ASSUME NEW x PROVE Scheduled(x)' = Scheduled(x)
      BY <2>2 DEF Scheduled
  <2>. QED
    BY <2>3, <2>4 DEF CursorInv, CursorRight, FirstInstants, Instant
<1>6. LapseAll => CursorInv'
    BY CursorUntouched, RunsMovedFacts DEF LapseAll, RunStatuses
<1>7. ASSUME NEW k \in DOMAIN outbox, LeaseDelivery(k) PROVE CursorInv'
  <2>1. PICK S \in SUBSET Eligible : \A m \in DOMAIN run \ {k} :
          run'[m] = RunsMoved(LapsedRuns(S), "missed")[m]
      BY <1>7, LeaseFacts
  <2>2. \A m \in DOMAIN run : run'[m].action = run[m].action
      BY <1>7, <2>1, LeaseFacts, RunsMovedFacts DEF RunStatuses
  <2>3. DOMAIN run' = DOMAIN run
      BY <1>7, LeaseFacts
  <2>4. UNCHANGED job
      BY <1>7 DEF LeaseDelivery
  <2>. QED
    BY <2>2, <2>3, <2>4, CursorUntouched
<1>8. ASSUME NEW l \in issued, MarkSent(l) \/ ReleaseHeld(l) PROVE CursorInv'
  <2>1. UNCHANGED job
      BY <1>8 DEF MarkSent, ReleaseHeld
  <2>2. DOMAIN run' = DOMAIN run /\ \A k \in DOMAIN run : run'[k].action = run[k].action
      BY <1>8 DEF MarkSent, ReleaseHeld, TypeOK, RunsTypeOK, RunRow
  <2>. QED
    BY <2>1, <2>2, CursorUntouched
<1>9. StorePurge => CursorInv'
    BY DEF StorePurge, Empty, CursorInv
<1>10. UNCHANGED <<run, job>> => CursorInv'
    BY CursorUntouched
<1>. QED
  BY <1>1, <1>2, <1>3, <1>4, <1>5, CursorMoves, <1>6, <1>7, <1>8, <1>9, <1>10
     DEF Next, OwnerOperation, DeliveryOperation, ResetStep, Release,
         StoreBeginReset, StoreQuiesce, StoreCommitReset,
         StoreAbandonReset, storeVars, rows, Tick

-----------------------------------------------------------------------------
(* Theorems *)

LEMMA InvariantInit == Init => StoreInvariant
<1>. SUFFICES ASSUME Init PROVE StoreInvariant
    OBVIOUS
<1>1. TypeOK
    BY TypeInit
<1>2. /\ DOMAIN task = {} /\ DOMAIN run = {} /\ DOMAIN outbox = {} /\ issued = {}
      /\ reset = "idle"
    BY DEF Init, Empty, LifecycleInit
<1>. QED
  BY <1>1, <1>2 DEF StoreInvariant, RunOutboxAgree, TaskJobAgree, FinishedTaskIsQuiet,
     SnoozeOnce, NoRowOfAnotherEpoch, ResetFence, LeaseFence, LeasesCounted

LEMMA InvariantStep == StoreInvariant /\ [Next]_storeVars => StoreInvariant'
<1>. SUFFICES ASSUME StoreInvariant, [Next]_storeVars PROVE StoreInvariant'
    OBVIOUS
<1>. USE DEF StoreInvariant
<1>1. TypeOK'
    BY TypeStep
<1>2. RunOutboxAgree'
    BY AgreeStep
<1>3. TaskJobAgree'
    BY TaskJobStep
<1>4. FinishedTaskIsQuiet'
  <2>1. Silent /\ [Ledger!LedgerNext]_<<LedgerView, ClosedTasks>>
      BY SilentIsQuiet, LedgerStep
  <2>2. Silent'
      BY <2>1, SilentStep
  <2>3. (TypeOK => (Silent <=> FinishedTaskIsQuiet))'
      BY SilentIsQuiet, PTL
  <2>. QED
    BY <1>1, <2>2, <2>3
<1>5. SnoozeOnce'
    BY SnoozeStep
<1>6. ResetFence' /\ NoRowOfAnotherEpoch'
    BY FenceStep
<1>7. LeaseFence' /\ LeasesCounted'
    BY LeaseStep DEF LeasesOK
<1>. QED
  BY <1>1, <1>2, <1>3, <1>4, <1>5, <1>6, <1>7

\* The tables never contradict one another: between runs and outbox rows, tasks
\* and jobs, leases and attempts, epochs and resets, whatever the order in
\* which the scheduler, lease holders, the owner and a reset take their steps.
THEOREM StoreIsSafe == Spec => []StoreInvariant
    BY InvariantInit, InvariantStep, PTL DEF Spec

\* A run and its outbox row tell one story.
THEOREM TablesAgree == Spec => []RunOutboxAgree
<1>1. StoreInvariant => RunOutboxAgree
    BY DEF StoreInvariant
<1>. QED
  BY <1>1, StoreIsSafe, PTL

\* Nothing of a finished task is left to deliver.
THEOREM FinishedIsQuiet == Spec => []FinishedTaskIsQuiet
<1>1. StoreInvariant => FinishedTaskIsQuiet
    BY DEF StoreInvariant
<1>. QED
  BY <1>1, StoreIsSafe, PTL

\* A row is leased at most MaxAttempts times, over any number of resets.
THEOREM LeasesAreCounted == Spec => []LeasesCounted
<1>1. StoreInvariant => LeasesCounted
    BY DEF StoreInvariant
<1>. QED
  BY <1>1, StoreIsSafe, PTL

\* No row survives a reset, and none enters during it.
THEOREM ResetLeavesNoRow == Spec => []NoRowOfAnotherEpoch
<1>1. StoreInvariant => NoRowOfAnotherEpoch
    BY DEF StoreInvariant
<1>. QED
  BY <1>1, StoreIsSafe, PTL

\* The store is an implementation of RunLedger.
THEOREM StoreImplementsLedger == Spec => ImplementsLedger
<1>1. Init => Ledger!LedgerInit
    BY DEF Init, Empty, Ledger!LedgerInit, LedgerView, ClosedTasks
<1>2. StoreInvariant /\ [Next]_storeVars
        => [Ledger!LedgerNext]_<<LedgerView, ClosedTasks>>
    BY LedgerStep DEF StoreInvariant
<1>. QED
  BY <1>1, <1>2, StoreIsSafe, PTL DEF Spec, ImplementsLedger, Ledger!LedgerSpec

\* The outcome of a run is final.
THEOREM OutcomesAreFinal == Spec => OutcomeIsFinal
<1>1. ASSUME StoreInvariant, [Next]_storeVars,
             NEW k \in DOMAIN run \cap DOMAIN run', SettledRun(k)
      PROVE  run'[k].status = run[k].status
  <2>1. [Ledger!LedgerNext]_<<LedgerView, ClosedTasks>>
      BY <1>1, LedgerStep DEF StoreInvariant
  <2>2. /\ DOMAIN LedgerView = DOMAIN run /\ DOMAIN LedgerView' = DOMAIN run'
        /\ LedgerView[k] = run[k].status /\ run[k].status # "open"
        /\ LedgerView'[k] = IF OpenRun(k)' THEN "open" ELSE run'[k].status
      BY <1>1 DEF LedgerView, SettledRun, StoreInvariant, TypeOK, RunsTypeOK, RunRow,
                  RunStatuses
  <2>3. LedgerView'[k] = LedgerView[k]
      BY <2>1, <2>2 DEF Ledger!LedgerNext, Ledger!Enter, Ledger!Settle, Ledger!Close,
                        Ledger!Erase, Ledger!Open
  <2>. QED
    BY <2>2, <2>3
<1>2. StoreInvariant /\ [Next]_storeVars =>
        [\A k \in DOMAIN run \cap DOMAIN run' :
            SettledRun(k) => run'[k].status = run[k].status]_storeVars
    BY <1>1
<1>. QED
  BY <1>2, StoreIsSafe, PTL DEF Spec, OutcomeIsFinal

\* Each occurrence of a rule is emitted once and none is skipped, however polls,
\* snoozes on the same instants, cancellations and resets are interleaved.
THEOREM CursorIsExact == Spec => []CursorExact
<1>1. Init => CursorInv
    BY DEF Init, Empty, CursorInv
<1>2. StoreInvariant /\ CursorInv /\ [Next]_storeVars => CursorInv'
    BY CursorStep DEF StoreInvariant
<1>. QED
  BY <1>1, <1>2, CursorInvExact, StoreIsSafe, PTL DEF Spec
==============================================================================
