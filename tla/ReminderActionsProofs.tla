------------------------ MODULE ReminderActionsProofs ------------------------
(* The handlers keep the contracts of the two stores they work on, so what is *)
(* proved of a store under its most general callers holds behind them.       *)
EXTENDS ReminderActions, ReminderStoreProofs

LoopShape ==
    /\ loop = [step |-> loop.step, task |-> loop.task, epoch |-> loop.epoch,
               token |-> loop.token, decision |-> loop.decision]
    /\ loop.step \in {"idle", "mark", "token", "act"}

\* The tokens in the chat and in the loop were issued, and a request segment
\* has a task.
ButtonsOK ==
    /\ minted \in 0..MaxTokens
    /\ chat \subseteq (1..minted) \X Receipts!Decisions
    /\ LoopShape
    /\ loop.step = "act" => loop.token \in 1..minted
    /\ loop.step \in {"mark", "token"} => loop.task \in TaskIds

LEMMA QuietLoop == ASSUME loop' = Quiet PROVE LoopShape' /\ loop'.step = "idle"
BY DEF Quiet, LoopShape

LEMMA OfferKeepsButtons ==
    ASSUME ButtonsOK, NEW a, NEW e, NEW ds \in SUBSET Receipts!Decisions, Offer(a, e, ds),
           loop' \in {loop, Quiet}, loop.step # "act"
    PROVE  ButtonsOK'
<1>1. /\ minted \in Nat /\ MaxTokens \in Nat /\ minted < MaxTokens
      /\ minted' = minted + 1
  BY ActionAssumption DEF ButtonsOK, Offer, Receipts!Create
<1>2. minted' \in 0..MaxTokens /\ 1..minted \subseteq 1..minted' /\ minted + 1 \in 1..minted'
  BY <1>1
<1>3. chat' \subseteq (1..minted') \X Receipts!Decisions
  BY <1>2 DEF ButtonsOK, Offer
<1> QED BY <1>2, <1>3, QuietLoop DEF ButtonsOK, LoopShape

LEMMA ButtonsStep ==
    ASSUME ButtonsOK, [ActionsNext]_actionVars
    PROVE  ButtonsOK'
<1>1. CASE minted' = minted /\ chat' = chat /\ loop' \in {loop, Quiet}
  BY <1>1, QuietLoop DEF ButtonsOK, LoopShape
<1>2. CASE UNCHANGED actionVars
  BY <1>1, <1>2 DEF actionVars
<1>3. CASE RequestStep
  <2>1. CASE RequestArrives
    BY <1>1, <2>1 DEF RequestArrives, tokenVars
  <2>2. ASSUME NEW e \in parsing, RequestFails(e) PROVE ButtonsOK'
    BY <1>1, <2>2 DEF RequestFails, tokenVars
  <2>3. ASSUME NEW e \in parsing, NEW p \in Plans, DraftCreated(e, p)
        PROVE  ButtonsOK'
    <3>1. PICK i \in TaskIds :
            loop' = [Quiet EXCEPT !.step = "mark", !.task = i, !.epoch = profile.epoch]
      BY <2>3 DEF DraftCreated
    <3>2. LoopShape' /\ loop'.step = "mark" /\ loop'.task = i
      BY <3>1 DEF Quiet, LoopShape
    <3> QED BY <2>3, <3>2 DEF DraftCreated, ButtonsOK, tokenVars
  <2>4. CASE DraftMarked
    <3>1. loop' = [loop EXCEPT !.step = "token"] /\ loop.step = "mark"
      BY <2>4 DEF DraftMarked
    <3>2. LoopShape' /\ loop'.step = "token" /\ loop'.task = loop.task
      BY <3>1 DEF ButtonsOK, LoopShape
    <3> QED BY <2>4, <3>1, <3>2 DEF DraftMarked, ButtonsOK, tokenVars
  <2>5. CASE PromptOffered
    BY <2>5, OfferKeepsButtons DEF PromptOffered
  <2>6. CASE RequestBreaks
    BY <1>1, <2>6 DEF RequestBreaks, tokenVars
  <2> QED BY <1>3, <2>1, <2>2, <2>3, <2>4, <2>5, <2>6 DEF RequestStep
<1>4. CASE ButtonStep
  <2>1. ASSUME NEW i \in DOMAIN task, NEW type \in ActionTypes, ButtonOffered(i, type)
        PROVE  ButtonsOK'
    <3>1. {"confirmed"} \in SUBSET Receipts!Decisions
      BY DEF Receipts!Decisions
    <3> QED BY <2>1, <3>1, OfferKeepsButtons DEF ButtonOffered, Idle
  <2>2. ASSUME NEW b \in chat, Pressed(b) PROVE ButtonsOK'
    <3>1. /\ minted' = minted /\ chat' = chat
          /\ LoopShape' /\ loop'.step = "act" /\ loop'.token = b[1]
          /\ b[1] \in 1..minted
      BY <2>2 DEF Pressed, ButtonsOK, LoopShape, Receipts!Resolve
    <3> QED BY <3>1 DEF ButtonsOK
  <2>3. CASE ActionTaken
    BY <1>1, <2>3 DEF ActionTaken, tokenVars
  <2>4. CASE ActionRefused
    BY <1>1, <2>4 DEF ActionRefused, tokenVars
  <2> QED BY <1>4, <2>1, <2>2, <2>3, <2>4 DEF ButtonStep
<1>5. CASE Delivers \/ Resets \/ Restarts \/ TimePasses
  BY <1>1, <1>5 DEF Delivers, Resets, Restarts, TimePasses, tokenVars
<1> QED BY <1>2, <1>3, <1>4, <1>5 DEF ActionsNext

LEMMA ButtonsInit == ActionsInit => ButtonsOK
BY ActionAssumption
   DEF ActionsInit, Receipts!ConfInit, ButtonsOK, LoopShape, Quiet

\* Every step of the handlers is a step of the reminder store, or none.
LEMMA StepKeepsStore ==
    ASSUME ButtonsOK, [ActionsNext]_actionVars
    PROVE  [Next]_storeVars
<1>1. CASE UNCHANGED storeVars
  BY <1>1
<1>2. CASE UNCHANGED actionVars
  BY <1>2 DEF actionVars, storeVars
<1>3. CASE RequestStep
  <2>1. ASSUME NEW e \in parsing, NEW p \in Plans, DraftCreated(e, p) PROVE Next
    BY <2>1 DEF DraftCreated, Next, OwnerOperation
  <2>2. CASE DraftMarked
    BY <2>2 DEF DraftMarked, Next, OwnerOperation
  <2> QED BY <1>1, <1>3, <2>1, <2>2
       DEF RequestStep, RequestArrives, RequestFails, PromptOffered, RequestBreaks
<1>4. CASE ButtonStep
  <2>1. CASE ActionTaken
    <3>1. loop.token \in ActionTokens
      BY <2>1, ActionAssumption DEF ActionTaken, ButtonsOK
    <3>2. loop.task \in DOMAIN task /\ Effect(loop.task, conf[loop.token].action.type)
      BY <2>1 DEF ActionTaken
    <3>3. CASE Activate(loop.task)
      BY <3>2, <3>3 DEF Next, OwnerOperation
    <3>4. CASE Finish(loop.task, "cancelled") \/ Finish(loop.task, "completed")
      BY <3>2, <3>4 DEF Next, OwnerOperation
    <3>5. CASE Snooze(loop.task, loop.token)
      BY <3>1, <3>2, <3>5 DEF Next, OwnerOperation
    <3> QED BY <3>2, <3>3, <3>4, <3>5 DEF Effect
  <2> QED BY <1>1, <1>4, <2>1 DEF ButtonStep, ButtonOffered, Pressed, ActionRefused
<1>5. CASE Delivers
  BY <1>5 DEF Delivers, Next
<1>6. CASE Resets
  BY <1>6 DEF Resets, Next
<1>7. CASE Restarts
  <2>1. CASE reset = "idle"
    BY <1>7, <2>1 DEF Restarts, storeVars, rows
  <2>2. CASE reset # "idle"
    BY <1>7, <2>2 DEF Restarts, Next, ResetStep, StoreAbandonReset, AbandonReset, rows
  <2> QED BY <2>1, <2>2
<1>8. CASE TimePasses
  BY <1>8 DEF TimePasses, Next
<1> QED BY <1>2, <1>3, <1>4, <1>5, <1>6, <1>7, <1>8 DEF ActionsNext

\* The handlers, replays, crashes and resets included, use the reminder store
\* only as its contract allows.
THEOREM HandlersKeepStore == ActionsSpec => KeepsStoreContract
<1>1. ActionsInit => Init
  BY DEF ActionsInit
<1> QED BY <1>1, ButtonsInit, ButtonsStep, StepKeepsStore, PTL
     DEF ActionsSpec, KeepsStoreContract, Spec

\* Down to the abstract ledger: no button, pressed again, late or after a crash,
\* reopens a run that settled or opens one of a closed task.
THEOREM HandlersImplementLedger == ActionsSpec => ImplementsLedger
BY HandlersKeepStore, StoreImplementsLedger, PTL DEF KeepsStoreContract

\* So the inductive invariant of the store holds behind the handlers.
THEOREM StoreSafeBehindHandlers == ActionsSpec => []StoreInvariant
BY HandlersKeepStore, StoreIsSafe, PTL DEF KeepsStoreContract

\* Pressing one snooze button any number of times makes at most one run.
THEOREM SnoozedOnce == ActionsSpec => []SnoozeOnce
BY StoreSafeBehindHandlers, PTL DEF StoreInvariant

-----------------------------------------------------------------------------

\* Only Tick moves the clock.
LEMMA ClockStands ==
    ASSUME OwnerOperation \/ DeliveryOperation \/ ResetStep
    PROVE  now' = now
<1>1. CASE OwnerOperation
  BY <1>1 DEF OwnerOperation, CreateDraft, MarkAwaiting, Activate, Finish,
              CloseRows, Snooze, InsertSnooze
<1>2. CASE DeliveryOperation
  BY <1>2 DEF DeliveryOperation, MaterializeDue, LapseAll, LeaseDelivery,
              MarkSent, Release, ReleaseHeld, storeVars
<1>3. CASE ResetStep
  BY <1>3 DEF ResetStep, StoreBeginReset, StoreQuiesce, StorePurge,
              StoreCommitReset, StoreAbandonReset
<1> QED BY <1>1, <1>2, <1>3

\* Every step of the handlers is a step of the receipts, or none.
LEMMA StepKeepsReceipts ==
    ASSUME ButtonsOK, TypeOK, [ActionsNext]_actionVars
    PROVE  [Receipts!ConfNext]_(Receipts!confVars)
<1>1. CASE UNCHANGED <<now, tokenVars>>
  BY <1>1 DEF tokenVars, Receipts!confVars
<1>2. CASE UNCHANGED actionVars
  BY <1>1, <1>2 DEF actionVars, tokenVars
<1>3. ASSUME NEW a, NEW e, NEW ds, Offer(a, e, ds), a \in Action
      PROVE  Receipts!ConfNext
  BY <1>3 DEF Offer, Receipts!ConfNext
<1>4. CASE RequestStep
  <2>1. CASE PromptOffered
    <3>1. [type |-> "activate_reminder", task |-> loop.task] \in Action
      BY <2>1 DEF PromptOffered, ButtonsOK, Action, ActionTypes
    <3> QED BY <2>1, <3>1, <1>3 DEF PromptOffered
  <2>2. ASSUME NEW e \in parsing, NEW p \in Plans, DraftCreated(e, p)
        PROVE  UNCHANGED <<now, tokenVars>>
    BY <2>2 DEF DraftCreated, CreateDraft
  <2>3. CASE RequestArrives \/ (\E e \in parsing : RequestFails(e)) \/ RequestBreaks
    BY <1>1, <2>3 DEF RequestArrives, RequestFails, RequestBreaks, storeVars
  <2>4. CASE DraftMarked
    BY <1>1, <2>4 DEF DraftMarked, MarkAwaiting
  <2> QED BY <1>1, <1>4, <2>1, <2>2, <2>3, <2>4 DEF RequestStep
<1>5. CASE ButtonStep
  <2>1. ASSUME NEW i \in DOMAIN task, NEW type \in ActionTypes, ButtonOffered(i, type)
        PROVE  Receipts!ConfNext
    <3>1. [type |-> type, task |-> i] \in Action
      BY <2>1 DEF TypeOK, TasksTypeOK, Action
    <3> QED BY <2>1, <3>1, <1>3 DEF ButtonOffered
  <2>2. ASSUME NEW b \in chat, Pressed(b) PROVE Receipts!ConfNext
    <3>1. b[1] \in 1..minted /\ b[2] \in Receipts!Decisions
      BY DEF ButtonsOK
    <3> QED BY <2>2, <3>1 DEF Pressed, Receipts!ConfNext
  <2>3. CASE ActionTaken
    BY <1>1, <2>3
       DEF ActionTaken, Effect, Activate, Finish, CloseRows, Snooze, InsertSnooze
  <2>4. CASE ActionRefused
    BY <1>1, <2>4 DEF ActionRefused, storeVars
  <2> QED BY <1>5, <2>1, <2>2, <2>3, <2>4 DEF ButtonStep
<1>6. CASE Delivers \/ Resets
  BY <1>1, <1>6, ClockStands DEF Delivers, Resets
<1>7. CASE Restarts
  BY <1>1, <1>7 DEF Restarts
<1>8. CASE TimePasses
  BY <1>8 DEF TimePasses, Tick, Receipts!ConfNext, Receipts!ConfTick, tokenVars
<1> QED BY <1>2, <1>4, <1>5, <1>6, <1>7, <1>8 DEF ActionsNext

\* The handlers use the receipts only as their contract allows, so what is
\* proved of the receipts holds of the buttons in the chat.
THEOREM HandlersKeepReceipts == ActionsSpec => KeepsReceiptContract
<1>1. ActionsInit => Receipts!ConfInit
  BY DEF ActionsInit
<1>2. StoreInvariant => TypeOK
  BY DEF StoreInvariant
<1> QED BY <1>1, <1>2, ButtonsInit, ButtonsStep, StepKeepsReceipts,
           StoreSafeBehindHandlers, PTL
     DEF ActionsSpec, KeepsReceiptContract, Receipts!ConfSpec

-----------------------------------------------------------------------------
(* What a step of the store does to a task that a button acted on *)

Begun(t) == t.status \in {"active", "completed", "needs_review"}

\* A task never leaves a final status and never becomes a draft again.
Later(t, u) ==
    /\ u.epoch = t.epoch
    /\ t.status \in {"cancelled", "completed"} => u.status = t.status
    /\ t.status # "awaiting_confirmation" => u.status # "awaiting_confirmation"

Purged ==
    DOMAIN task' = {} /\ DOMAIN run' = {} /\ profile' = profile /\ ~OwnerActive

TasksMove ==
    /\ DOMAIN task \subseteq DOMAIN task'
    /\ \A i \in DOMAIN task : Later(task[i], task'[i])
    /\ \A i \in DOMAIN task' \ DOMAIN task :
          /\ OwnerActive /\ profile' = profile
          /\ task'[i] = [status |-> "awaiting_confirmation", epoch |-> profile.epoch]

RunsMove ==
    /\ DOMAIN run \subseteq DOMAIN run'
    /\ \A k \in DOMAIN run : run'[k].action = run[k].action
    /\ \A k \in DOMAIN run' \ DOMAIN run :
          k[1] \in DOMAIN task /\ task[k[1]].status = "active"

LEMMA ActivateTask ==
    ASSUME StoreInvariant, NEW i \in DOMAIN task, Activate(i)
    PROVE  /\ DOMAIN task' = DOMAIN task
           /\ \A x \in DOMAIN task \ {i} : task'[x] = task[x]
           /\ task[i].status = "awaiting_confirmation"
           /\ task'[i].status \in {"active", "needs_review"}
           /\ task'[i].epoch = task[i].epoch
           /\ task[i].epoch = profile.epoch /\ profile' = profile /\ run' = run
<1>. DEFINE t == [task[i] EXCEPT !.status = "active"]
<1>1. /\ job[i] \in JobRow /\ task[i] \in TaskRow
      /\ t \in TaskRow /\ t.status = "active" /\ t.epoch = task[i].epoch
  BY DEF StoreInvariant, TypeOK, TasksTypeOK, TaskRow, TaskStatuses
<1>2. /\ task'[i] = TaskAfter(t, job'[i])
      /\ DOMAIN task' = DOMAIN task
      /\ \A x \in DOMAIN task \ {i} : task'[x] = task[x]
  BY Activate(i) DEF Activate, StoreInvariant, TypeOK, TasksTypeOK
<1>3. task[i].status = "awaiting_confirmation"
  BY <1>1, Activate(i) DEF Activate, StoreInvariant, TaskJobAgree, TaskMatchesJob,
                           TaskRow, TaskStatuses
<1> HIDE DEF t
<1>4. task'[i].status \in {"active", "needs_review"} /\ task'[i].epoch = task[i].epoch
  BY <1>1, <1>2, TaskAfterStatus
<1> QED BY <1>2, <1>3, <1>4, Activate(i) DEF Activate, CurrentEpoch

LEMMA FinishTask ==
    ASSUME StoreInvariant, NEW i \in DOMAIN task,
           NEW target \in {"cancelled", "completed"}, Finish(i, target)
    PROVE  /\ DOMAIN task' = DOMAIN task
           /\ \A x \in DOMAIN task \ {i} : task'[x] = task[x]
           /\ task[i].status \notin {"cancelled", "completed"}
           /\ task'[i].status = target /\ task'[i].epoch = task[i].epoch
           /\ task[i].epoch = profile.epoch /\ profile' = profile
           /\ DOMAIN run' = DOMAIN run
           /\ \A k \in DOMAIN run : run'[k].action = run[k].action
<1>1. /\ task' = [task EXCEPT ![i].status = target] /\ task[i] \in TaskRow
      /\ TypeOK
  BY Finish(i, target) DEF Finish, CloseRows, StoreInvariant, TypeOK, TasksTypeOK
<1>2. run' = RunsMoved(RunsOf(i, {"due", "claimed"}), "cancelled")
  BY Finish(i, target) DEF Finish, CloseRows
<1>3. /\ DOMAIN run' = DOMAIN run
      /\ \A k \in DOMAIN run : run'[k].action = run[k].action
  BY <1>1, <1>2, RunsMovedFacts DEF RunStatuses
<1>4. /\ task[i].epoch = profile.epoch /\ profile' = profile
      /\ task[i].status \notin {"cancelled", "completed"}
  BY Finish(i, target) DEF Finish, CloseRows, CurrentEpoch
<1>5. /\ DOMAIN task' = DOMAIN task
      /\ \A x \in DOMAIN task \ {i} : task'[x] = task[x]
      /\ task'[i].status = target /\ task'[i].epoch = task[i].epoch
  BY <1>1 DEF TaskRow
<1> QED BY <1>3, <1>4, <1>5

LEMMA MaterializeTask ==
    ASSUME StoreInvariant, MaterializeDue
    PROVE  /\ DOMAIN task' = DOMAIN task
           /\ \A i \in DOMAIN task :
                 \/ task'[i] = task[i]
                 \/ /\ task[i].status = "active" /\ task'[i].epoch = task[i].epoch
                    /\ task'[i].status \in {"active", "needs_review"}
<1>1. TypeOK
  BY DEF StoreInvariant
<1>2. ASSUME NEW i \in FreshJobs
      PROVE  /\ task[i].status = "active" /\ task'[i].epoch = task[i].epoch
             /\ task'[i].status \in {"active", "needs_review"}
  BY <1>1, <1>2, FreshJobFacts, MaterializeFacts, TaskAfterStatus
<1> QED BY <1>1, <1>2, MaterializeFacts

\* The rest of the store moves no task; what it does to runs is known.
LEMMA OtherTasks ==
    ASSUME \/ LapseAll
           \/ \E k \in DOMAIN outbox : LeaseDelivery(k)
           \/ \E l \in issued : MarkSent(l) \/ Release(l)
           \/ \E i \in DOMAIN task : MarkAwaiting(i)
           \/ \E i \in DOMAIN task, tok \in ActionTokens : Snooze(i, tok)
           \/ ResetStep /\ ~StorePurge
           \/ Tick
    PROVE  task' = task
BY DEF LapseAll, LeaseDelivery, MarkSent, Release, ReleaseHeld, MarkAwaiting, Snooze,
       InsertSnooze, ResetStep, StoreBeginReset, StoreQuiesce, StoreCommitReset,
       StoreAbandonReset, Tick, storeVars, rows

LEMMA TaskSteps ==
    ASSUME StoreInvariant, [Next]_storeVars
    PROVE  TasksMove \/ Purged
<1>a. task' = task => TasksMove
  BY DEF TasksMove, Later
<1>1. ASSUME NEW p \in Plans, CreateDraft(p) PROVE TasksMove
  <2>1. OwnerActive /\ profile' = profile
    BY <1>1 DEF CreateDraft
  <2>2. PICK i \in TaskIds \ DOMAIN task :
          /\ DOMAIN task' = DOMAIN task \cup {i}
          /\ task'[i] = [status |-> "awaiting_confirmation", epoch |-> profile.epoch]
          /\ \A x \in DOMAIN task : task'[x] = task[x]
    BY <1>1, CreateFacts DEF StoreInvariant
  <2> QED BY <2>1, <2>2 DEF TasksMove, Later
<1>2. ASSUME NEW i \in DOMAIN task, Activate(i) PROVE TasksMove
  BY <1>2, ActivateTask DEF TasksMove, Later
<1>3. ASSUME NEW i \in DOMAIN task, NEW target \in {"cancelled", "completed"},
             Finish(i, target)
      PROVE  TasksMove
  BY <1>3, FinishTask DEF TasksMove, Later
<1>4. CASE MaterializeDue
  BY <1>4, MaterializeTask DEF TasksMove, Later
<1>5. CASE StorePurge
  <2>1. DOMAIN task' = {} /\ DOMAIN run' = {}
    BY <1>5 DEF StorePurge, Empty
  <2> QED BY <1>5, <2>1 DEF StorePurge, PurgeHooks, Purged, OwnerActive
<1>6. CASE UNCHANGED storeVars
  BY <1>a, <1>6 DEF storeVars
<1> QED BY <1>a, <1>1, <1>2, <1>3, <1>4, <1>5, <1>6, OtherTasks
     DEF Next, OwnerOperation, DeliveryOperation, ResetStep

LEMMA RunSteps ==
    ASSUME StoreInvariant, [Next]_storeVars
    PROVE  RunsMove \/ Purged
<1>t. TypeOK
  BY DEF StoreInvariant
<1>a. run' = run => RunsMove
  BY DEF RunsMove
<1>b. ASSUME NEW S, NEW s \in RunStatuses, run' = RunsMoved(S, s) PROVE RunsMove
  <2>1. DOMAIN run' = DOMAIN run
    BY <1>t, <1>b, RunsMovedFacts
  <2>2. \A k \in DOMAIN run : run'[k].action = run[k].action
    BY <1>t, <1>b, RunsMovedFacts
  <2> QED BY <2>1, <2>2 DEF RunsMove
<1>c. ASSUME NEW K, NEW tok, Opens(K, tok) PROVE RunsMove
  <2>1. /\ DOMAIN run' = DOMAIN run \cup K
        /\ \A k \in K : task[k[1]].status = "active" /\ k[1] \in DOMAIN task
        /\ \A k \in DOMAIN run : run'[k] = run[k]
    BY <1>c DEF Opens
  <2> QED BY <2>1 DEF RunsMove
<1>1. ASSUME NEW i \in DOMAIN task, NEW target \in {"cancelled", "completed"},
             Finish(i, target)
      PROVE  RunsMove
  BY <1>1, FinishTask DEF RunsMove
<1>2. ASSUME NEW i \in DOMAIN task, NEW tok \in ActionTokens, Snooze(i, tok)
      PROVE  RunsMove
  BY <1>t, <1>2, <1>c, SnoozeOpens
<1>3. CASE MaterializeDue
  BY <1>t, <1>3, <1>c, MaterializeOpens
<1>4. CASE LapseAll
  BY <1>b, <1>4 DEF LapseAll, RunStatuses
<1>5. ASSUME NEW k \in DOMAIN outbox, LeaseDelivery(k) PROVE RunsMove
  <2>1. PICK S \in SUBSET Eligible : \A m \in DOMAIN run \ {k} :
          run'[m] = RunsMoved(LapsedRuns(S), "missed")[m]
    BY <1>t, <1>5, LeaseFacts
  <2>2. \A m \in DOMAIN run : run'[m].action = run[m].action
    BY <1>t, <1>5, <2>1, LeaseFacts, RunsMovedFacts DEF RunStatuses
  <2>3. DOMAIN run' = DOMAIN run
    BY <1>t, <1>5, LeaseFacts
  <2> QED BY <2>2, <2>3 DEF RunsMove
<1>6. ASSUME NEW l \in issued, MarkSent(l) \/ ReleaseHeld(l) PROVE RunsMove
  <2>1. DOMAIN run' = DOMAIN run /\ \A k \in DOMAIN run : run'[k].action = run[k].action
    BY <1>t, <1>6 DEF MarkSent, ReleaseHeld, TypeOK, RunsTypeOK, RunRow
  <2> QED BY <2>1 DEF RunsMove
<1>7. CASE StorePurge
  <2>1. DOMAIN task' = {} /\ DOMAIN run' = {}
    BY <1>7 DEF StorePurge, Empty
  <2> QED BY <1>7, <2>1 DEF StorePurge, PurgeHooks, Purged, OwnerActive
<1> QED BY <1>a, <1>1, <1>2, <1>3, <1>4, <1>5, <1>6, <1>7
     DEF Next, OwnerOperation, DeliveryOperation, ResetStep, Release, CreateDraft,
         MarkAwaiting, Activate, StoreBeginReset, StoreQuiesce, StoreCommitReset,
         StoreAbandonReset, storeVars, rows, Tick

\* Only activation and completion bring a task out of its draft alive.
LEMMA NoneBegins ==
    ASSUME StoreInvariant,
           \/ DeliveryOperation \/ ResetStep \/ Tick \/ UNCHANGED storeVars
           \/ \E p \in Plans : CreateDraft(p)
           \/ \E i \in DOMAIN task :
                 \/ MarkAwaiting(i) \/ Finish(i, "cancelled")
                 \/ \E tok \in ActionTokens : Snooze(i, tok)
    PROVE  \A i \in DOMAIN task' : Begun(task'[i]) => i \in DOMAIN task /\ Begun(task[i])
<1>a. task' = task =>
        \A i \in DOMAIN task' : Begun(task'[i]) => i \in DOMAIN task /\ Begun(task[i])
  OBVIOUS
<1>1. ASSUME NEW p \in Plans, CreateDraft(p), NEW x \in DOMAIN task', Begun(task'[x])
      PROVE  x \in DOMAIN task /\ Begun(task[x])
  <2>1. PICK i \in TaskIds \ DOMAIN task :
          /\ DOMAIN task' = DOMAIN task \cup {i}
          /\ task'[i] = [status |-> "awaiting_confirmation", epoch |-> profile.epoch]
          /\ \A y \in DOMAIN task : task'[y] = task[y]
    BY <1>1, CreateFacts DEF StoreInvariant
  <2> QED BY <1>1, <2>1 DEF Begun
<1>2. ASSUME NEW i \in DOMAIN task, Finish(i, "cancelled"), NEW x \in DOMAIN task',
             Begun(task'[x])
      PROVE  x \in DOMAIN task /\ Begun(task[x])
  BY <1>2, FinishTask DEF Begun
<1>3. ASSUME MaterializeDue, NEW x \in DOMAIN task', Begun(task'[x])
      PROVE  x \in DOMAIN task /\ Begun(task[x])
  BY <1>3, MaterializeTask DEF Begun
<1>4. CASE StorePurge
  BY <1>4 DEF StorePurge, Empty
<1>5. CASE UNCHANGED storeVars
  BY <1>a, <1>5 DEF storeVars
<1> QED BY <1>a, <1>1, <1>2, <1>3, <1>4, <1>5, OtherTasks DEF DeliveryOperation

-----------------------------------------------------------------------------
(* What the tokens and the effects say of the tasks *)

HistoryOK ==
    /\ born \in Seq(Nat) /\ Len(born) = minted
    /\ DOMAIN conf \subseteq 1..minted
    /\ \A t \in DOMAIN conf : conf[t] \in Receipts!Receipt
    /\ loop.step \in {"mark", "token"} => loop.epoch \in Nat
    /\ loop.step = "act" =>
          /\ loop.token \in DOMAIN conf
          /\ loop.task = conf[loop.token].action.task
          /\ loop.decision \in Receipts!Decisions
    /\ \A d \in done :
          /\ d.token \in 1..minted
          /\ d.epoch \in Nat /\ d.epoch <= profile.epoch
          /\ d.epoch = profile.epoch => OwnerActive /\ d.action.task \in DOMAIN task
          /\ \/ d.decision = "confirmed"
             \/ d.decision = "cancelled" /\ d.action.type = "activate_reminder"

\* Task i of epoch e was confirmed, or a button of another life acted on it.
Vouched(i, e) ==
    \/ \E d \in done :
          /\ d.action = [type |-> "activate_reminder", task |-> i]
          /\ d.decision = "confirmed"
          /\ d.epoch = e
    \/ \E d \in done :
          d.action.task = i /\ d.epoch = e /\ born[d.token] # d.epoch

\* A button that completes a task was offered for one that was confirmed.
AllVouched ==
    /\ \A i \in DOMAIN task : Begun(task[i]) => Vouched(i, task[i].epoch)
    /\ \A k \in DOMAIN run : Vouched(k[1], task[k[1]].epoch)
    /\ \A t \in DOMAIN conf : conf[t].action.type = "complete_reminder" =>
          Vouched(conf[t].action.task, born[t])

HistoryInv == StoreInvariant /\ ButtonsOK /\ HistoryOK

\* What a step of the history may do: tokens keep their birth, effects stay.
HistoryGrows ==
    /\ minted <= minted' /\ minted' \in Nat
    /\ \A t \in 1..minted : born'[t] = born[t]
    /\ done \subseteq done'

LEMMA VouchedStays ==
    ASSUME HistoryOK, HistoryGrows, NEW i, NEW e, Vouched(i, e)
    PROVE  Vouched(i, e)'
BY DEF HistoryOK, HistoryGrows, Vouched

LEMMA ProfileSteps ==
    ASSUME StoreInvariant, [Next]_storeVars
    PROVE  /\ profile.epoch \in Nat /\ profile'.epoch \in Nat
           /\ \/ profile' = profile
              \/ profile'.epoch = profile.epoch + 1
              \/ profile'.epoch = profile.epoch /\ ~OwnerActive
<1>1. profile.epoch \in Nat
  BY DEF StoreInvariant, TypeOK, LifecycleTypeOK
<1>2. CASE StoreBeginReset
  BY <1>1, <1>2 DEF StoreBeginReset, BeginReset
<1>3. CASE StoreCommitReset
  <2>1. reset # "idle" /\ profile' = [profile EXCEPT !.state = "active"]
    BY <1>3 DEF StoreCommitReset, CommitReset
  <2>2. profile'.epoch = profile.epoch
    BY <2>1 DEF StoreInvariant, TypeOK, LifecycleTypeOK
  <2> QED BY <1>1, <2>1, <2>2 DEF StoreInvariant, ResetFence
<1>4. CASE StoreQuiesce \/ StorePurge \/ StoreAbandonReset \/ Tick
  BY <1>1, <1>4 DEF StoreQuiesce, Quiesce, StorePurge, PurgeHooks, StoreAbandonReset,
                    AbandonReset, Tick
<1>5. CASE OwnerOperation
  BY <1>1, <1>5 DEF OwnerOperation, CreateDraft, MarkAwaiting, Activate, Finish,
                    CloseRows, Snooze, InsertSnooze
<1>6. CASE DeliveryOperation \/ UNCHANGED storeVars
  BY <1>1, <1>6 DEF DeliveryOperation, MaterializeDue, LapseAll, LeaseDelivery,
                    MarkSent, Release, ReleaseHeld, storeVars
<1> QED BY <1>2, <1>3, <1>4, <1>5, <1>6 DEF Next, ResetStep

\* An effect of this life names a task that is there, through every step.
LEMMA EffectsFenced ==
    ASSUME HistoryInv, [Next]_storeVars, NEW d \in done
    PROVE  /\ d.epoch <= profile'.epoch
           /\ d.epoch = profile'.epoch => OwnerActive' /\ d.action.task \in DOMAIN task'
<1>1. /\ StoreInvariant /\ d.epoch \in Nat /\ d.epoch <= profile.epoch
      /\ d.epoch = profile.epoch => OwnerActive /\ d.action.task \in DOMAIN task
  BY DEF HistoryInv, HistoryOK
<1>2. /\ profile.epoch \in Nat /\ profile'.epoch \in Nat
      /\ \/ profile' = profile
         \/ profile'.epoch = profile.epoch + 1
         \/ profile'.epoch = profile.epoch /\ ~OwnerActive
  BY <1>1, ProfileSteps
<1>3. d.epoch = profile'.epoch => d.epoch = profile.epoch /\ profile' = profile
  BY <1>1, <1>2
<1>4. ASSUME d.epoch = profile'.epoch PROVE d.action.task \in DOMAIN task'
  BY <1>1, <1>3, <1>4, TaskSteps DEF TasksMove, Purged
<1> QED BY <1>1, <1>2, <1>3, <1>4 DEF OwnerActive

\* The step leaves the tokens and the effects alone.
LEMMA HistoryKept ==
    ASSUME HistoryInv, [Next]_storeVars, UNCHANGED <<minted, born, done>>,
           conf' = conf, loop'.step = "idle" \/ loop' = loop
    PROVE  HistoryOK' /\ HistoryGrows
<1>1. HistoryOK /\ minted \in Nat
  BY DEF HistoryInv, HistoryOK
<1>2. HistoryGrows
  BY <1>1 DEF HistoryGrows
<1>3. \A d \in done' :
          /\ d.epoch <= profile'.epoch
          /\ d.epoch = profile'.epoch => OwnerActive' /\ d.action.task \in DOMAIN task'
  BY EffectsFenced
<1> QED BY <1>1, <1>2, <1>3 DEF HistoryOK

LEMMA OfferFacts ==
    ASSUME HistoryInv, NEW a, NEW e \in Nat, NEW ds, Offer(a, e, ds)
    PROVE  /\ minted \in Nat /\ minted' = minted + 1
           /\ born' \in Seq(Nat) /\ Len(born') = minted'
           /\ \A t \in 1..minted : born'[t] = born[t]
           /\ born'[minted'] = e
           /\ minted' \notin DOMAIN conf
           /\ DOMAIN conf' \subseteq DOMAIN conf \cup {minted'}
           /\ \A t \in DOMAIN conf' :
                 conf'[t] = IF t = minted' THEN [action |-> a, expires |-> now + TTL,
                                                 outcome |-> None]
                            ELSE conf[t]
<1>1. /\ born \in Seq(Nat) /\ Len(born) = minted /\ DOMAIN conf \subseteq 1..minted
      /\ minted \in Nat
  BY DEF HistoryInv, HistoryOK
<1>2. minted' = minted + 1 /\ born' = Append(born, e) /\ minted' \notin DOMAIN conf
  BY <1>1 DEF Offer, Receipts!Create
<1>3. /\ conf' = [t \in Receipts!Live \cup {minted'} |->
            IF t \in Receipts!Live THEN conf[t]
            ELSE [action |-> a, expires |-> now + TTL, outcome |-> None]]
      /\ Receipts!Live \subseteq DOMAIN conf
  BY <1>2 DEF Offer, Receipts!Create, Receipts!Live
<1>4. \A t \in DOMAIN conf' :
         conf'[t] = IF t = minted' THEN [action |-> a, expires |-> now + TTL,
                                         outcome |-> None]
                    ELSE conf[t]
  BY <1>2, <1>3
<1> QED BY <1>1, <1>2, <1>3, <1>4

LEMMA HistoryOffered ==
    ASSUME HistoryInv, NEW a \in Action, NEW e \in Nat, NEW ds, Offer(a, e, ds),
           UNCHANGED storeVars, done' = done, loop'.step = "idle"
    PROVE  HistoryOK' /\ HistoryGrows
<1>1. HistoryOK
  BY DEF HistoryInv
<1>o. /\ minted \in Nat /\ minted' = minted + 1
      /\ \A t \in 1..minted : born'[t] = born[t]
      /\ DOMAIN conf' \subseteq DOMAIN conf \cup {minted'}
  BY OfferFacts
<1>2. HistoryGrows
  BY <1>o DEF HistoryGrows
<1>3. UNCHANGED <<profile, task>>
  BY DEF storeVars
<1>4. DOMAIN conf' \subseteq 1..minted' /\ 1..minted \subseteq 1..minted'
  BY <1>1, <1>o DEF HistoryOK
<1>6. \A t \in DOMAIN conf' : conf'[t] \in Receipts!Receipt
  <2>1. [action |-> a, expires |-> now + TTL, outcome |-> None] \in Receipts!Receipt
    BY ActionAssumption DEF Receipts!Receipt, HistoryInv, StoreInvariant, TypeOK
  <2> QED BY <1>1, <2>1, OfferFacts DEF HistoryOK
<1>5. \A d \in done' : d.token \in 1..minted'
  BY <1>1, <1>4 DEF HistoryOK
<1> QED BY <1>1, <1>2, <1>3, <1>4, <1>5, <1>6, OfferFacts DEF HistoryOK, OwnerActive

LEMMA HistoryStep ==
    ASSUME HistoryInv, [ActionsNext]_actionVars
    PROVE  HistoryOK' /\ HistoryGrows
<1>h. StoreInvariant /\ ButtonsOK /\ HistoryOK /\ [Next]_storeVars
  BY StepKeepsStore DEF HistoryInv
<1>q. loop' = Quiet => loop'.step = "idle"
  BY DEF Quiet
<1>1. CASE UNCHANGED actionVars
  BY <1>h, <1>1, HistoryKept DEF actionVars
<1>2. CASE RequestStep
  <2>1. CASE RequestArrives \/ \E e \in parsing : RequestFails(e)
    BY <1>h, <2>1, HistoryKept DEF RequestArrives, RequestFails, tokenVars
  <2>2. ASSUME NEW e \in parsing, NEW p \in Plans, DraftCreated(e, p)
        PROVE  HistoryOK' /\ HistoryGrows
    <3>1. PICK i \in TaskIds :
            loop' = [Quiet EXCEPT !.step = "mark", !.task = i, !.epoch = profile.epoch]
      BY <2>2 DEF DraftCreated
    <3>2. loop'.step = "mark" /\ loop'.epoch = profile.epoch /\ profile.epoch \in Nat
      BY <1>h, <3>1, ProfileSteps DEF Quiet
    <3>3. UNCHANGED <<conf, minted, born, done>>
      BY <2>2 DEF DraftCreated, tokenVars
    <3>4. \A d \in done' :
              /\ d.epoch <= profile'.epoch
              /\ d.epoch = profile'.epoch => OwnerActive' /\ d.action.task \in DOMAIN task'
      BY <1>h, <3>3, EffectsFenced
    <3>5. HistoryOK'
      BY <1>h, <3>2, <3>3, <3>4 DEF HistoryOK
    <3> QED BY <1>h, <3>3, <3>5 DEF HistoryGrows, HistoryOK
  <2>3. CASE DraftMarked
    <3>1. loop.step = "mark" /\ loop' = [loop EXCEPT !.step = "token"]
      BY <2>3 DEF DraftMarked
    <3>2. loop'.step = "token" /\ loop'.epoch = loop.epoch /\ loop.epoch \in Nat
      BY <1>h, <3>1 DEF ButtonsOK, LoopShape, HistoryOK
    <3>3. UNCHANGED <<conf, minted, born, done>>
      BY <2>3 DEF DraftMarked, tokenVars
    <3>4. \A d \in done' :
              /\ d.epoch <= profile'.epoch
              /\ d.epoch = profile'.epoch => OwnerActive' /\ d.action.task \in DOMAIN task'
      BY <1>h, <3>3, EffectsFenced
    <3>5. HistoryOK'
      BY <1>h, <3>2, <3>3, <3>4 DEF HistoryOK
    <3> QED BY <1>h, <3>3, <3>5 DEF HistoryGrows, HistoryOK
  <2>4. CASE PromptOffered
    <3>1. loop.epoch \in Nat
      BY <1>h, <2>4 DEF PromptOffered, HistoryOK
    <3>2. [type |-> "activate_reminder", task |-> loop.task] \in Action
      BY <1>h, <2>4 DEF PromptOffered, ButtonsOK, Action, ActionTypes
    <3> QED BY <1>q, <2>4, <3>1, <3>2, HistoryOffered DEF PromptOffered
  <2>5. CASE RequestBreaks
    BY <1>h, <1>q, <2>5, HistoryKept DEF RequestBreaks, tokenVars
  <2> QED BY <1>2, <2>1, <2>2, <2>3, <2>4, <2>5 DEF RequestStep
<1>3. CASE ButtonStep
  <2>1. ASSUME NEW i \in DOMAIN task, NEW type \in ActionTypes, ButtonOffered(i, type)
        PROVE  HistoryOK' /\ HistoryGrows
    <3>1. task[i].epoch \in Nat
      BY <1>h DEF StoreInvariant, TypeOK, TasksTypeOK, TaskRow
    <3>2. [type |-> type, task |-> i] \in Action
      BY <1>h, <2>1 DEF StoreInvariant, TypeOK, TasksTypeOK, Action
    <3> QED BY <2>1, <3>1, <3>2, HistoryOffered DEF ButtonOffered, Idle
  <2>2. ASSUME NEW b \in chat, Pressed(b) PROVE HistoryOK' /\ HistoryGrows
    <3>1. b[2] \in Receipts!Decisions
      BY <1>h DEF ButtonsOK
    <3>2. /\ b[1] \in DOMAIN conf
          /\ conf' = conf \/ conf' = [conf EXCEPT ![b[1]].outcome = b[2]]
      BY <2>2 DEF Pressed, Receipts!Resolve, Receipts!IsFirst, Receipts!IsReplay
    <3>3. /\ DOMAIN conf' = DOMAIN conf
          /\ conf'[b[1]].action = conf[b[1]].action
          /\ \A t \in DOMAIN conf : conf'[t] \in Receipts!Receipt
      BY <1>h, <3>1, <3>2 DEF HistoryOK, Receipts!Receipt
    <3>4. UNCHANGED <<minted, born, done, profile, task>>
      BY <2>2 DEF Pressed, Receipts!Resolve, storeVars
    <3>5. /\ loop'.step = "act" /\ loop'.token = b[1] /\ loop'.decision = b[2]
          /\ loop'.task = conf[b[1]].action.task
      BY <2>2 DEF Pressed
    <3>6. HistoryOK'
      BY <1>h, <3>1, <3>2, <3>3, <3>4, <3>5 DEF HistoryOK, OwnerActive
    <3> QED BY <1>h, <3>4, <3>6 DEF HistoryGrows, HistoryOK
  <2>3. CASE ActionTaken
    <3>1. /\ loop.step = "act" /\ loop.task \in DOMAIN task /\ loop'.step = "idle"
          /\ Effect(loop.task, conf[loop.token].action.type)
          /\ UNCHANGED <<conf, minted, born>>
      BY <1>q, <2>3 DEF ActionTaken, tokenVars
    <3>2. PICK d : /\ d = [token |-> loop.token, epoch |-> profile.epoch,
                           action |-> [type |-> conf[loop.token].action.type,
                                       task |-> loop.task],
                           decision |-> loop.decision]
                   /\ done' = done \cup {d}
      BY <2>3 DEF ActionTaken, Carry
    <3>3. OwnerActive /\ profile' = profile
      BY <3>1 DEF Effect, Activate, Finish, CloseRows, Snooze, InsertSnooze, CurrentEpoch
    <3>4. \/ d.decision = "confirmed"
          \/ d.decision = "cancelled" /\ d.action.type = "activate_reminder"
      BY <1>h, <3>1, <3>2 DEF Effect, HistoryOK, Receipts!Decisions
    <3>5. profile.epoch \in Nat /\ DOMAIN task \subseteq DOMAIN task'
      BY <1>h, <3>3, ProfileSteps, TaskSteps DEF TasksMove, Purged
    <3>6. \A x \in done :
              /\ x.epoch <= profile'.epoch
              /\ x.epoch = profile'.epoch => OwnerActive' /\ x.action.task \in DOMAIN task'
      BY <1>h, EffectsFenced
    <3>7. d.token \in 1..minted
      BY <1>h, <3>1, <3>2 DEF HistoryOK
    <3>8. HistoryOK'
      BY <1>h, <3>1, <3>2, <3>3, <3>4, <3>5, <3>6, <3>7 DEF HistoryOK, OwnerActive
    <3> QED BY <1>h, <3>1, <3>2, <3>8 DEF HistoryGrows, HistoryOK
  <2>4. CASE ActionRefused
    BY <1>h, <1>q, <2>4, HistoryKept DEF ActionRefused, tokenVars
  <2> QED BY <1>3, <2>1, <2>2, <2>3, <2>4 DEF ButtonStep
<1>4. CASE Delivers \/ Resets \/ TimePasses
  BY <1>h, <1>4, HistoryKept DEF Delivers, Resets, TimePasses, tokenVars
<1>5. CASE Restarts
  BY <1>h, <1>q, <1>5, HistoryKept DEF Restarts, tokenVars
<1> QED BY <1>1, <1>2, <1>3, <1>4, <1>5 DEF ActionsNext

-----------------------------------------------------------------------------
(* A task that runs was confirmed *)

\* What holds of a task's epoch before the step holds of its epoch after it.
LEMMA VouchedWithTask ==
    ASSUME HistoryOK, HistoryGrows, NEW i, Vouched(i, task[i].epoch),
           task'[i].epoch = task[i].epoch
    PROVE  Vouched(i, task[i].epoch)'
<1>1. PICK e : e = task[i].epoch
  OBVIOUS
<1>2. Vouched(i, e)
  BY <1>1
<1>3. Vouched(i, e)'
  BY <1>2, VouchedStays
<1>4. task'[i].epoch = e
  BY <1>1
<1> QED BY <1>3, <1>4 DEF Vouched

LEMMA TablesVouched ==
    ASSUME HistoryInv, AllVouched, [Next]_storeVars, HistoryGrows,
           \A i \in DOMAIN task' : Begun(task'[i]) =>
              i \in DOMAIN task /\ (Begun(task[i]) \/ Vouched(i, task[i].epoch)')
    PROVE  /\ (\A i \in DOMAIN task : Begun(task[i]) => Vouched(i, task[i].epoch))'
           /\ (\A k \in DOMAIN run : Vouched(k[1], task[k[1]].epoch))'
<1>h. StoreInvariant /\ HistoryOK
  BY DEF HistoryInv
<1>1. CASE Purged
  BY <1>1 DEF Purged
<1>2. CASE TasksMove /\ RunsMove
  <2>1. \A i \in DOMAIN task : i \in DOMAIN task' /\ task'[i].epoch = task[i].epoch
    BY <1>2 DEF TasksMove, Later
  <2>2. ASSUME NEW i \in DOMAIN task', Begun(task'[i]) PROVE Vouched(i, task[i].epoch)'
    <3>1. i \in DOMAIN task /\ task'[i].epoch = task[i].epoch
      BY <2>1, <2>2
    <3>2. CASE Begun(task[i])
      <4>1. Vouched(i, task[i].epoch)
        BY <3>1, <3>2 DEF AllVouched
      <4> QED BY <1>h, <3>1, <4>1, VouchedWithTask
    <3> QED BY <2>2, <3>2
  <2>3. ASSUME NEW k \in DOMAIN run' PROVE Vouched(k[1], task[k[1]].epoch)'
    <3>1. k[1] \in DOMAIN task /\ Vouched(k[1], task[k[1]].epoch)
      <4>1. CASE k \in DOMAIN run
        BY <1>h, <4>1 DEF AllVouched, StoreInvariant, TypeOK, RunsTypeOK
      <4>2. CASE k \notin DOMAIN run
        <5>1. k[1] \in DOMAIN task /\ Begun(task[k[1]])
          BY <1>2, <2>3, <4>2 DEF RunsMove, Begun
        <5> QED BY <5>1 DEF AllVouched
      <4> QED BY <4>1, <4>2
    <3> QED BY <1>h, <2>1, <3>1, VouchedWithTask
  <2> QED BY <2>2, <2>3
<1> QED BY <1>h, <1>1, <1>2, TaskSteps, RunSteps

LEMMA ReceiptsVouched ==
    ASSUME HistoryInv, AllVouched, HistoryGrows,
           \A t \in DOMAIN conf' : conf'[t].action.type = "complete_reminder" =>
              \/ t \in DOMAIN conf /\ conf'[t].action = conf[t].action
              \/ Vouched(conf[t].action.task, born[t])'
    PROVE  (\A t \in DOMAIN conf : conf[t].action.type = "complete_reminder" =>
               Vouched(conf[t].action.task, born[t]))'
<1> SUFFICES ASSUME NEW t \in DOMAIN conf', conf'[t].action.type = "complete_reminder",
                    t \in DOMAIN conf, conf'[t].action = conf[t].action
             PROVE  Vouched(conf[t].action.task, born[t])'
  OBVIOUS
<1>1. PICK i, e : i = conf[t].action.task /\ e = born[t]
  OBVIOUS
<1>2. HistoryOK /\ Vouched(i, e)
  BY <1>1 DEF HistoryInv, AllVouched
<1>3. Vouched(i, e)'
  BY <1>2, VouchedStays
<1>4. conf'[t].action.task = i /\ born'[t] = e
  BY <1>1, <1>2 DEF HistoryOK, HistoryGrows
<1> QED BY <1>3, <1>4 DEF Vouched

\* A step that offers no button and begins no task.
LEMMA VouchedQuietly ==
    ASSUME HistoryInv, AllVouched, [Next]_storeVars, HistoryGrows, conf' = conf,
           \A i \in DOMAIN task' : Begun(task'[i]) => i \in DOMAIN task /\ Begun(task[i])
    PROVE  AllVouched'
<1>1. \A t \in DOMAIN conf' : t \in DOMAIN conf /\ conf'[t].action = conf[t].action
  OBVIOUS
<1> QED BY <1>1, TablesVouched, ReceiptsVouched DEF AllVouched

\* A button that completes a task is offered only for a task that was vouched for.
LEMMA VouchedOffer ==
    ASSUME HistoryInv, AllVouched, HistoryGrows, UNCHANGED storeVars,
           NEW i, NEW type, NEW e \in Nat, NEW ds,
           Offer([type |-> type, task |-> i], e, ds),
           type = "complete_reminder" => Vouched(i, e)
    PROVE  AllVouched'
<1>1. ASSUME NEW t \in DOMAIN conf', conf'[t].action.type = "complete_reminder"
      PROVE  \/ t \in DOMAIN conf /\ conf'[t].action = conf[t].action
             \/ Vouched(conf[t].action.task, born[t])'
  <2>1. CASE t = minted'
    <3>a. PICK a : a = [type |-> type, task |-> i]
      OBVIOUS
    <3>b. Offer(a, e, ds)
      BY <3>a
    <3>c. /\ born'[minted'] = e
          /\ conf'[t] = IF t = minted' THEN [action |-> a, expires |-> now + TTL,
                                            outcome |-> None]
                        ELSE conf[t]
      BY <1>1, <3>b, OfferFacts
    <3>1. conf'[t].action = [type |-> type, task |-> i] /\ born'[t] = e
      BY <2>1, <3>a, <3>c
    <3>2. Vouched(i, e)'
      BY <1>1, <3>1, VouchedStays DEF HistoryInv
    <3> QED BY <3>1, <3>2 DEF Vouched
  <2>2. CASE t # minted'
    BY <2>2, OfferFacts
  <2> QED BY <2>1, <2>2
<1>2. \A x \in DOMAIN task' : Begun(task'[x]) => x \in DOMAIN task /\ Begun(task[x])
  BY DEF storeVars
<1> QED BY <1>1, <1>2, TablesVouched, ReceiptsVouched DEF AllVouched

LEMMA VouchedTaken ==
    ASSUME HistoryInv, AllVouched, [Next]_storeVars, HistoryGrows, ActionTaken
    PROVE  AllVouched'
<1>h. StoreInvariant /\ HistoryOK
  BY DEF HistoryInv
<1>1. PICK i, type : i = loop.task /\ type = conf[loop.token].action.type
  OBVIOUS
<1>2. i \in DOMAIN task /\ Effect(i, type) /\ conf' = conf /\ born' = born
  BY <1>1 DEF ActionTaken, tokenVars
<1>3. PICK d : /\ d = [token |-> loop.token, epoch |-> profile.epoch,
                       action |-> [type |-> type, task |-> i], decision |-> loop.decision]
               /\ d \in done'
  BY <1>1 DEF ActionTaken, Carry
<1>4. CASE type = "activate_reminder" /\ loop.decision = "confirmed" /\ Activate(i)
  <2>1. /\ DOMAIN task' = DOMAIN task /\ task'[i].epoch = profile.epoch
        /\ \A x \in DOMAIN task \ {i} : task'[x] = task[x]
    BY <1>h, <1>2, <1>4, ActivateTask
  <2>2. Vouched(i, task[i].epoch)'
    BY <1>3, <1>4, <2>1 DEF Vouched
  <2>3. \A x \in DOMAIN task' : Begun(task'[x]) =>
           x \in DOMAIN task /\ (Begun(task[x]) \/ Vouched(x, task[x].epoch)')
    BY <2>1, <2>2
  <2> QED BY <1>2, <2>3, TablesVouched, ReceiptsVouched DEF AllVouched
<1>5. CASE type = "complete_reminder" /\ Finish(i, "completed")
  <2>1. /\ DOMAIN task' = DOMAIN task /\ task'[i].epoch = profile.epoch
        /\ \A x \in DOMAIN task \ {i} : task'[x] = task[x]
    BY <1>h, <1>2, <1>5, FinishTask
  <2>2. Vouched(i, task[i].epoch)'
    <3>1. CASE born[loop.token] # profile.epoch
      <4>1. /\ d \in done' /\ d.action.task = i /\ d.epoch = profile.epoch
            /\ born'[d.token] # d.epoch
        BY <1>2, <1>3, <3>1
      <4> QED BY <2>1, <4>1 DEF Vouched
    <3>2. CASE born[loop.token] = profile.epoch
      <4>1. PICK e : e = profile.epoch
        OBVIOUS
      <4>2. /\ loop.token \in DOMAIN conf /\ i = conf[loop.token].action.task
            /\ conf[loop.token].action.type = "complete_reminder"
        BY <1>h, <1>1, <1>5 DEF HistoryOK, ActionTaken
      <4>3. Vouched(i, e)
        BY <3>2, <4>1, <4>2 DEF AllVouched
      <4>4. Vouched(i, e)'
        BY <1>h, <4>3, VouchedStays
      <4> QED BY <2>1, <4>1, <4>4 DEF Vouched
    <3> QED BY <3>1, <3>2
  <2>3. \A x \in DOMAIN task' : Begun(task'[x]) =>
           x \in DOMAIN task /\ (Begun(task[x]) \/ Vouched(x, task[x].epoch)')
    BY <2>1, <2>2
  <2> QED BY <1>2, <2>3, TablesVouched, ReceiptsVouched DEF AllVouched
<1>6. CASE Finish(i, "cancelled") \/ Snooze(i, loop.token)
  <2>1. loop.token \in ActionTokens
    BY ActionAssumption DEF HistoryInv, ButtonsOK, ActionTaken
  <2> QED BY <1>h, <1>2, <1>6, <2>1, NoneBegins, VouchedQuietly
<1> QED BY <1>2, <1>4, <1>5, <1>6 DEF Effect

LEMMA VouchStep ==
    ASSUME HistoryInv, AllVouched, [ActionsNext]_actionVars
    PROVE  AllVouched'
<1>h. /\ StoreInvariant /\ ButtonsOK /\ HistoryOK
      /\ [Next]_storeVars /\ HistoryGrows
  BY StepKeepsStore, HistoryStep DEF HistoryInv
<1>a. ASSUME UNCHANGED <<task, conf>> PROVE AllVouched'
  BY <1>h, <1>a, VouchedQuietly
<1>1. CASE UNCHANGED actionVars
  BY <1>a, <1>1 DEF actionVars
<1>2. CASE RequestStep
  <2>1. CASE RequestArrives \/ (\E e \in parsing : RequestFails(e)) \/ RequestBreaks
    BY <1>a, <2>1 DEF RequestArrives, RequestFails, RequestBreaks, storeVars, tokenVars
  <2>2. ASSUME NEW e \in parsing, NEW p \in Plans, DraftCreated(e, p) PROVE AllVouched'
    BY <1>h, <2>2, NoneBegins, VouchedQuietly DEF DraftCreated, tokenVars
  <2>3. CASE DraftMarked
    BY <1>h, <2>3, NoneBegins, VouchedQuietly DEF DraftMarked, tokenVars
  <2>4. CASE PromptOffered
    <3>1. loop.epoch \in Nat
      BY <1>h, <2>4 DEF PromptOffered, HistoryOK
    <3> QED BY <1>h, <2>4, <3>1, VouchedOffer DEF PromptOffered
  <2> QED BY <1>2, <2>1, <2>2, <2>3, <2>4 DEF RequestStep
<1>3. CASE ButtonStep
  <2>1. ASSUME NEW i \in DOMAIN task, NEW type \in ActionTypes, ButtonOffered(i, type)
        PROVE  AllVouched'
    <3>1. task[i].epoch \in Nat /\ DOMAIN outbox = DOMAIN run
      BY <1>h DEF StoreInvariant, TypeOK, TasksTypeOK, RunsTypeOK, TaskRow
    <3>2. type = "complete_reminder" => Vouched(i, task[i].epoch)
      BY <2>1, <3>1 DEF ButtonOffered, Listed, Delivered, AllVouched, Begun
    <3>3. PICK e : e = task[i].epoch
      OBVIOUS
    <3>4. Offer([type |-> type, task |-> i], e, {"confirmed"}) /\ UNCHANGED storeVars
      BY <2>1, <3>3 DEF ButtonOffered
    <3>5. e \in Nat /\ (type = "complete_reminder" => Vouched(i, e))
      BY <3>1, <3>2, <3>3
    <3> QED BY <1>h, <3>4, <3>5, VouchedOffer
  <2>2. ASSUME NEW b \in chat, Pressed(b) PROVE AllVouched'
    <3>1. /\ conf' = conf \/ conf' = [conf EXCEPT ![b[1]].outcome = b[2]]
          /\ UNCHANGED storeVars
      BY <2>2 DEF Pressed, Receipts!Resolve
    <3>2. \A t \in DOMAIN conf' : t \in DOMAIN conf /\ conf'[t].action = conf[t].action
      BY SMTT(20), <1>h, <3>1 DEF HistoryOK, Receipts!Receipt
    <3>3. \A i \in DOMAIN task' : Begun(task'[i]) => i \in DOMAIN task /\ Begun(task[i])
      BY <3>1 DEF storeVars
    <3> QED BY <1>h, <3>2, <3>3, TablesVouched, ReceiptsVouched DEF AllVouched
  <2>3. CASE ActionTaken
    BY <1>h, <2>3, VouchedTaken
  <2>4. CASE ActionRefused
    BY <1>a, <2>4 DEF ActionRefused, storeVars, tokenVars
  <2> QED BY <1>3, <2>1, <2>2, <2>3, <2>4 DEF ButtonStep
<1>4. CASE Delivers \/ Resets \/ TimePasses
  BY <1>h, <1>4, NoneBegins, VouchedQuietly DEF Delivers, Resets, TimePasses, tokenVars
<1>5. CASE Restarts
  BY <1>a, <1>5 DEF Restarts, rows, tokenVars
<1> QED BY <1>1, <1>2, <1>3, <1>4, <1>5 DEF ActionsNext

-----------------------------------------------------------------------------
(* What a button did stays done *)

\* The branches of EffectsLast, for an effect on task i.
Lasts(d, i) ==
    /\ d.decision = "cancelled" => task[i].status = "cancelled"
    /\ d.action.type = "cancel_reminder" => task[i].status = "cancelled"
    /\ d.action.type = "complete_reminder" => task[i].status = "completed"
    /\ d.action.type = "snooze_reminder" =>
          \E k \in DOMAIN run : k[1] = i /\ run[k].action = d.token
    /\ task[i].status # "awaiting_confirmation" \/ d.action.type = "snooze_reminder"

AllLast ==
    \A d \in done : d.action.task \in DOMAIN task /\ d.epoch = task[d.action.task].epoch
        => Lasts(d, d.action.task)

LEMMA LastsImply == ASSUME AllLast PROVE EffectsLast
<1> SUFFICES ASSUME NEW d \in done, NEW i, i = d.action.task, Lasts(d, i)
             PROVE  CASE d.decision = "cancelled"            -> task[i].status = "cancelled"
                      [] d.action.type = "cancel_reminder"   -> task[i].status = "cancelled"
                      [] d.action.type = "complete_reminder" -> task[i].status = "completed"
                      [] d.action.type = "snooze_reminder"   ->
                             \E k \in DOMAIN run : k[1] = i /\ run[k].action = d.token
                      [] OTHER -> task[i].status # "awaiting_confirmation"
  BY DEF AllLast, EffectsLast
<1> QED BY DEF Lasts

LEMMA OldEffectsLast ==
    ASSUME HistoryInv, AllLast, [Next]_storeVars, NEW d \in done, NEW i,
           i = d.action.task, i \in DOMAIN task', d.epoch = task'[i].epoch
    PROVE  Lasts(d, i)'
<1>h. StoreInvariant /\ HistoryOK
  BY DEF HistoryInv
<1>1. TasksMove /\ RunsMove
  BY <1>h, TaskSteps, RunSteps DEF Purged
<1>2. i \in DOMAIN task
  <2>1. CASE i \notin DOMAIN task
    <3>1. task'[i].epoch = profile.epoch
      BY <1>1, <2>1 DEF TasksMove
    <3> QED BY <1>h, <3>1 DEF HistoryOK
  <2> QED BY <2>1
<1>3. Later(task[i], task'[i])
  BY <1>1, <1>2 DEF TasksMove
<1>4. Lasts(d, i)
  BY <1>2, <1>3 DEF Later, AllLast
<1>5. \A k \in DOMAIN run : k \in DOMAIN run' /\ run'[k].action = run[k].action
  BY <1>1 DEF RunsMove
<1> QED BY <1>3, <1>4, <1>5 DEF Lasts, Later

LEMMA NewEffectLasts ==
    ASSUME HistoryInv, NEW i, NEW type, i \in DOMAIN task, Effect(i, type),
           NEW d, d = [token |-> loop.token, epoch |-> profile.epoch,
                       action |-> [type |-> type, task |-> i], decision |-> loop.decision]
    PROVE  Lasts(d, i)'
<1>h. StoreInvariant
  BY DEF HistoryInv
<1>1. CASE type = "activate_reminder" /\ loop.decision = "confirmed" /\ Activate(i)
  BY <1>h, <1>1, ActivateTask DEF Lasts
<1>2. CASE type = "activate_reminder" /\ Finish(i, "cancelled")
  BY <1>h, <1>2, FinishTask DEF Lasts
<1>3. CASE type = "cancel_reminder" /\ Finish(i, "cancelled")
  BY <1>h, <1>3, FinishTask DEF Lasts
<1>4. CASE type = "complete_reminder" /\ loop.decision = "confirmed" /\ Finish(i, "completed")
  BY <1>h, <1>4, FinishTask DEF Lasts
<1>5. CASE type = "snooze_reminder" /\ loop.decision = "confirmed" /\ Snooze(i, loop.token)
  <2>1. PICK k, missed :
          /\ k = <<i, now + SnoozeDelay>>
          /\ run' = Upsert(run, [x \in {k} |-> NewRunRow(missed, loop.token)])
    BY <1>5 DEF Snooze, InsertSnooze
  <2> DEFINE r == [x \in {k} |-> NewRunRow(missed, loop.token)]
  <2>3. k \in DOMAIN r /\ r[k] = NewRunRow(missed, loop.token)
    OBVIOUS
  <2>4. NewRunRow(missed, loop.token).action = loop.token
    BY DEF NewRunRow
  <2>5. run' = Upsert(run, r)
    BY <2>1
  <2> HIDE DEF r
  <2>6. DOMAIN run' = DOMAIN run \cup DOMAIN r /\ run'[k] = r[k]
    BY <2>3, <2>5, UpsertDomain, UpsertNew
  <2>2. k \in DOMAIN run' /\ run'[k].action = loop.token /\ k[1] = i
    BY <2>1, <2>3, <2>4, <2>6
  <2> QED BY <1>5, <2>2 DEF Lasts
<1> QED BY <1>1, <1>2, <1>3, <1>4, <1>5 DEF Effect

\* Only taking an action adds an effect, and every step leaves the old ones in force.
LEMMA LastStep ==
    ASSUME HistoryInv, AllLast, [ActionsNext]_actionVars
    PROVE  AllLast'
<1>h. [Next]_storeVars
  BY StepKeepsStore DEF HistoryInv
<1>a. ASSUME done' = done PROVE AllLast'
  BY <1>h, <1>a, OldEffectsLast DEF AllLast
<1>1. CASE ActionTaken
  <2>1. PICK i, type : i = loop.task /\ type = conf[loop.token].action.type
    OBVIOUS
  <2>2. PICK d : /\ d = [token |-> loop.token, epoch |-> profile.epoch,
                         action |-> [type |-> type, task |-> i],
                         decision |-> loop.decision]
                 /\ done' = done \cup {d}
    BY <1>1, <2>1 DEF ActionTaken, Carry
  <2>3. d.action.task = i /\ i \in DOMAIN task /\ Effect(i, type)
    BY <1>1, <2>1, <2>2 DEF ActionTaken
  <2>4. Lasts(d, i)'
    BY <2>2, <2>3, NewEffectLasts
  <2> QED BY <1>h, <2>2, <2>3, <2>4, OldEffectsLast DEF AllLast
<1>2. CASE UNCHANGED actionVars
  BY <1>a, <1>2 DEF actionVars
<1>3. CASE RequestStep
  BY <1>a, <1>3 DEF RequestStep, RequestArrives, RequestFails, DraftCreated,
                    DraftMarked, PromptOffered, RequestBreaks
<1>4. CASE ButtonStep /\ ~ActionTaken
  BY <1>a, <1>4 DEF ButtonStep, ButtonOffered, Pressed, ActionRefused
<1>5. CASE Delivers \/ Resets \/ TimePasses \/ Restarts
  BY <1>a, <1>5 DEF Delivers, Resets, TimePasses, Restarts
<1> QED BY <1>1, <1>2, <1>3, <1>4, <1>5 DEF ActionsNext

\* Nothing was offered, pressed or carried out yet.
LEMMA HistoryInit == ActionsInit => HistoryInv /\ AllVouched /\ AllLast
<1> SUFFICES ASSUME ActionsInit PROVE HistoryInv /\ AllVouched /\ AllLast
  OBVIOUS
<1>1. StoreInvariant /\ ButtonsOK
  BY InvariantInit, ButtonsInit DEF ActionsInit
<1>2. /\ DOMAIN task = {} /\ DOMAIN run = {} /\ DOMAIN conf = {} /\ done = {}
      /\ minted = 0 /\ born = << >> /\ loop.step = "idle"
  BY DEF ActionsInit, Init, Empty, Receipts!ConfInit, Quiet
<1>3. born \in Seq(Nat) /\ Len(born) = minted
  BY <1>2
<1> QED BY <1>1, <1>2, <1>3 DEF HistoryInv, HistoryOK, AllVouched, AllLast

\* At every moment the tokens and the effects are in order, every task that runs was
\* vouched for, and every effect of this life stands.
LEMMA HistoryHolds == ActionsSpec => [](HistoryInv /\ AllVouched /\ AllLast)
<1> DEFINE Inv == HistoryInv /\ AllVouched /\ AllLast
<1>1. Inv /\ [ActionsNext]_actionVars => Inv'
  <2> SUFFICES ASSUME HistoryInv, AllVouched, AllLast, [ActionsNext]_actionVars
               PROVE  Inv'
    OBVIOUS
  <2>1. StoreInvariant /\ ButtonsOK /\ [Next]_storeVars
    BY StepKeepsStore DEF HistoryInv
  <2>2. StoreInvariant'
    BY <2>1, InvariantStep
  <2>3. ButtonsOK'
    BY <2>1, ButtonsStep
  <2> QED BY <2>2, <2>3, HistoryStep, VouchStep, LastStep DEF HistoryInv
<1> HIDE DEF Inv
<1>2. ActionsInit => Inv
  BY HistoryInit DEF Inv
<1>3. Inv => HistoryInv /\ AllVouched /\ AllLast
  BY DEF Inv
<1> QED BY <1>1, <1>2, <1>3, PTL DEF ActionsSpec

\* A task the scheduler may see was confirmed by the owner, unless a button of an
\* earlier life acted on it: the offers and runs carry the confirmation along.
THEOREM OnlyConfirmedRun == ActionsSpec => []RunsOnlyIfConfirmed
<1>1. AllVouched => RunsOnlyIfConfirmed
  BY DEF AllVouched, RunsOnlyIfConfirmed, Begun, Vouched, Disturbed
<1> QED BY <1>1, HistoryHolds, PTL

\* What a button did stays done, whatever presses, replays, polls and resets follow.
THEOREM EffectsStand == ActionsSpec => []EffectsLast
BY LastsImply, HistoryHolds, PTL

-----------------------------------------------------------------------------
(* One decision behind every button *)

\* The receipts of the handlers are those of ActionConfirmation: a new one is
\* undecided, and a decision only fills in what was undecided.
LEMMA ReceiptsStep ==
    ASSUME Receipts!ConfInvariant, [Receipts!ConfNext]_(Receipts!confVars)
    PROVE  Receipts!ConfInvariant'
<1> USE ActionAssumption, BoundAssumption
<1>1. CASE UNCHANGED Receipts!confVars
  BY <1>1 DEF Receipts!ConfInvariant, Receipts!ConfTypeOK, Receipts!OneDecision,
              Receipts!confVars, Receipts!Receipt
<1>2. ASSUME NEW a \in Action, Receipts!Create(a) PROVE Receipts!ConfInvariant'
  <2>1. /\ minted \in Nat /\ minted' = minted + 1 /\ minted' \in 0..MaxTokens
        /\ now' = now /\ acted' = acted
    BY <1>2 DEF Receipts!Create, Receipts!ConfInvariant, Receipts!ConfTypeOK
  <2>2. DOMAIN conf' = Receipts!Live \cup {minted'}
    BY <1>2, <2>1 DEF Receipts!Create
  <2>3. \A t \in DOMAIN conf' :
           \/ t \in DOMAIN conf /\ conf'[t] = conf[t]
           \/ t = minted' /\ conf'[t] \in Receipts!Receipt
    <3>1. [action |-> a, expires |-> now + TTL, outcome |-> None] \in Receipts!Receipt
      BY DEF Receipts!Receipt, Receipts!ConfInvariant, Receipts!ConfTypeOK
    <3> QED BY <1>2, <2>1, <2>2, <3>1 DEF Receipts!Create, Receipts!Live
  <2>4. DOMAIN conf \subseteq 1..minted /\ \A t \in DOMAIN conf : conf[t] \in Receipts!Receipt
    BY DEF Receipts!ConfInvariant, Receipts!ConfTypeOK
  <2>5. Receipts!ConfTypeOK'
    <3>1. DOMAIN conf' \subseteq 1..minted'
      BY <2>1, <2>2, <2>4 DEF Receipts!Live
    <3>2. conf' \in [DOMAIN conf' -> Receipts!Receipt]
      BY <1>2, <2>3, <2>4 DEF Receipts!Create
    <3>3. acted' \subseteq (1..minted') \X Receipts!Decisions
      BY <2>1 DEF Receipts!ConfInvariant, Receipts!ConfTypeOK
    <3> QED BY <2>1, <3>1, <3>2, <3>3 DEF Receipts!ConfInvariant, Receipts!ConfTypeOK
  <2>6. \A x \in acted' : x[1] \in DOMAIN conf' => conf'[x[1]].outcome = x[2]
    <3> SUFFICES ASSUME NEW x \in acted, x[1] \in DOMAIN conf'
                 PROVE  conf'[x[1]].outcome = x[2]
      BY <2>1
    <3>1. x[1] \in 1..minted
      BY DEF Receipts!ConfInvariant, Receipts!ConfTypeOK
    <3>2. x[1] # minted'
      BY <2>1, <3>1
    <3> QED BY <2>3, <3>2 DEF Receipts!ConfInvariant
  <2>7. Receipts!OneDecision'
    BY <2>1 DEF Receipts!ConfInvariant, Receipts!OneDecision
  <2> QED BY <2>5, <2>6, <2>7 DEF Receipts!ConfInvariant
<1>3. ASSUME NEW t \in 1..minted, NEW d \in Receipts!Decisions, Receipts!Resolve(t, d)
      PROVE  Receipts!ConfInvariant'
  <2>1. /\ now' = now /\ minted' = minted /\ acted' = acted \cup {<<t, d>>}
        /\ t \in DOMAIN conf
    BY <1>3 DEF Receipts!Resolve, Receipts!IsFirst, Receipts!IsReplay
  <2>2. \/ conf[t].outcome = None /\ conf' = [conf EXCEPT ![t].outcome = d]
        \/ conf[t].outcome = d /\ conf' = conf
    BY <1>3 DEF Receipts!Resolve, Receipts!IsFirst, Receipts!IsReplay
  <2>3. /\ DOMAIN conf' = DOMAIN conf
        /\ conf'[t].outcome = d
        /\ \A u \in DOMAIN conf : u # t => conf'[u] = conf[u]
        /\ \A u \in DOMAIN conf : conf'[u] \in Receipts!Receipt
    <3>1. conf \in [DOMAIN conf -> Receipts!Receipt]
      BY DEF Receipts!ConfInvariant, Receipts!ConfTypeOK
    <3>2. CASE conf[t].outcome = d /\ conf' = conf
      BY <3>1, <3>2
    <3>3. CASE conf' = [conf EXCEPT ![t].outcome = d]
      <4>1. /\ DOMAIN conf' = DOMAIN conf
            /\ conf'[t] = [conf[t] EXCEPT !.outcome = d]
            /\ \A u \in DOMAIN conf : u # t => conf'[u] = conf[u]
        BY <2>1, <3>1, <3>3
      <4>2. conf'[t].outcome = d /\ conf'[t] \in Receipts!Receipt
        BY <2>1, <3>1, <4>1 DEF Receipts!Receipt
      <4> QED BY <3>1, <4>1, <4>2
    <3> QED BY <2>2, <3>2, <3>3
  <2>4. conf' \in [DOMAIN conf' -> Receipts!Receipt]
    <3>1. CASE conf' = conf
      BY <3>1 DEF Receipts!ConfInvariant, Receipts!ConfTypeOK
    <3>2. CASE conf' = [conf EXCEPT ![t].outcome = d]
      BY <2>3, <3>2
    <3> QED BY <2>2, <3>1, <3>2
  <2>5. Receipts!ConfTypeOK'
    BY <2>1, <2>3, <2>4 DEF Receipts!ConfInvariant, Receipts!ConfTypeOK
  <2>6. \A x \in acted' : x[1] \in DOMAIN conf' => conf'[x[1]].outcome = x[2]
    <3> SUFFICES ASSUME NEW x \in acted, x[1] \in DOMAIN conf
                 PROVE  conf'[x[1]].outcome = x[2]
      BY <2>1, <2>3
    <3>1. CASE x[1] # t
      BY <2>3, <3>1 DEF Receipts!ConfInvariant
    <3>2. CASE x[1] = t
      <4>1. conf[t].outcome = x[2] /\ x[2] \in Receipts!Decisions
        BY <3>2 DEF Receipts!ConfInvariant, Receipts!ConfTypeOK
      <4> QED BY <2>2, <3>2, <4>1
    <3> QED BY <3>1, <3>2
  <2>7. \A x \in acted' : x \in (1..minted) \X Receipts!Decisions
    BY <2>5, <2>1 DEF Receipts!ConfTypeOK
  <2>8. Receipts!OneDecision'
    <3> SUFFICES ASSUME NEW x \in acted', NEW y \in acted', x[1] = y[1]
                 PROVE  x = y
      BY DEF Receipts!OneDecision
    <3>1. CASE x \in acted /\ y \in acted
      BY <3>1 DEF Receipts!ConfInvariant, Receipts!OneDecision
    <3>2. CASE x[1] = t
      <4>1. x[2] = d /\ y[2] = d
        BY <2>1, <2>3, <2>6, <3>2
      <4>2. x = <<x[1], x[2]>> /\ y = <<y[1], y[2]>>
        BY <2>7
      <4> QED BY <3>2, <4>1, <4>2
    <3> QED BY <2>1, <3>1, <3>2
  <2> QED BY <2>5, <2>6, <2>8 DEF Receipts!ConfInvariant
<1>4. CASE Receipts!ConfTick
  BY <1>4 DEF Receipts!ConfTick, Receipts!ConfInvariant, Receipts!ConfTypeOK,
              Receipts!OneDecision, Receipts!Receipt
<1> QED BY <1>1, <1>2, <1>3, <1>4 DEF Receipts!ConfNext

\* Whatever buttons are pressed, replayed or expire, no token is told two decisions.
THEOREM ButtonsDecideOnce == ActionsSpec => []Receipts!ConfInvariant
<1>1. Receipts!ConfInit => Receipts!ConfInvariant
  BY ActionAssumption
     DEF Receipts!ConfInit, Receipts!ConfInvariant, Receipts!ConfTypeOK,
         Receipts!OneDecision, Receipts!Receipt
<1>2. ActionsSpec => Receipts!ConfInit /\ [][Receipts!ConfNext]_(Receipts!confVars)
  BY HandlersKeepReceipts DEF KeepsReceiptContract, Receipts!ConfSpec
<1> QED BY <1>1, <1>2, ReceiptsStep, PTL

\* However often a button is pressed, and however late, all its effects carry
\* out one action with one decision.
OneThingPerButton ==
    \A d, e \in done : d.token = e.token => d.decision = e.decision /\ d.action = e.action

\* An effect, and the one about to be carried out, has the decision that was
\* told, and the action of its receipt while that exists.
EffectsTold ==
    /\ loop.step = "act" => <<loop.token, loop.decision>> \in acted
    /\ \A d \in done :
          /\ <<d.token, d.decision>> \in acted
          /\ d.token \in DOMAIN conf => conf[d.token].action = d.action

\* Without an effect and without a press both hold on.
LEMMA ToldStands ==
    ASSUME HistoryOK, EffectsTold, OneThingPerButton,
           done' = done, acted' = acted, loop' = loop \/ loop'.step # "act",
           \A t \in DOMAIN conf' : t \in 1..minted => t \in DOMAIN conf /\ conf'[t] = conf[t]
    PROVE  EffectsTold' /\ OneThingPerButton'
BY DEF HistoryOK, EffectsTold, OneThingPerButton

LEMMA ToldStep ==
    ASSUME HistoryInv, Receipts!ConfInvariant, EffectsTold, OneThingPerButton,
           [ActionsNext]_actionVars
    PROVE  EffectsTold' /\ OneThingPerButton'
<1>h. HistoryOK /\ ButtonsOK
  BY DEF HistoryInv
<1>q. loop' = Quiet => loop'.step = "idle"
  BY DEF Quiet
<1>1. CASE done' = done /\ acted' = acted /\ conf' = conf /\ (loop' = loop \/ loop'.step # "act")
  BY <1>h, <1>1, ToldStands
<1>2. CASE UNCHANGED actionVars
  BY <1>1, <1>2 DEF actionVars
<1>3. ASSUME NEW a, NEW e, NEW ds, Offer(a, e, ds), done' = done, loop' \in {loop, Quiet}
      PROVE  EffectsTold' /\ OneThingPerButton'
  <2>1. minted \in Nat /\ acted' = acted
    BY <1>h, <1>3, ActionAssumption DEF ButtonsOK, Offer, Receipts!Create
  <2>2. \A t \in DOMAIN conf' : t \in 1..minted => t \in DOMAIN conf /\ conf'[t] = conf[t]
    BY <1>3, <2>1 DEF Offer, Receipts!Create, Receipts!Live
  <2> QED BY <1>h, <1>q, <1>3, <2>1, <2>2, ToldStands
<1>4. CASE RequestStep
  <2>1. CASE PromptOffered
    BY <1>3, <2>1 DEF PromptOffered
  <2>2. ASSUME NEW e \in parsing, NEW p \in Plans, DraftCreated(e, p)
        PROVE  EffectsTold' /\ OneThingPerButton'
    <3>1. loop'.step = "mark"
      BY <2>2 DEF DraftCreated, Quiet
    <3> QED BY <1>1, <2>2, <3>1 DEF DraftCreated, tokenVars
  <2>3. CASE DraftMarked
    <3>1. loop'.step = "token"
      BY <1>h, <2>3 DEF DraftMarked, ButtonsOK, LoopShape
    <3> QED BY <1>1, <2>3, <3>1 DEF DraftMarked, tokenVars
  <2>4. CASE RequestArrives \/ (\E e \in parsing : RequestFails(e)) \/ RequestBreaks
    BY <1>1, <1>q, <2>4 DEF RequestArrives, RequestFails, RequestBreaks, tokenVars
  <2> QED BY <1>4, <2>1, <2>2, <2>3, <2>4 DEF RequestStep
<1>5. CASE ButtonStep
  <2>1. ASSUME NEW i \in DOMAIN task, NEW type \in ActionTypes, ButtonOffered(i, type)
        PROVE  EffectsTold' /\ OneThingPerButton'
    BY <1>3, <2>1 DEF ButtonOffered
  <2>2. ASSUME NEW b \in chat, Pressed(b) PROVE EffectsTold' /\ OneThingPerButton'
    <3>1. /\ acted' = acted \cup {<<b[1], b[2]>>} /\ done' = done
          /\ loop'.token = b[1] /\ loop'.decision = b[2]
      BY <2>2 DEF Pressed, Receipts!Resolve
    <3>2. \A t \in DOMAIN conf' : t \in DOMAIN conf /\ conf'[t].action = conf[t].action
      <4>1. CASE conf' = conf
        BY <4>1
      <4>2. CASE conf' = [conf EXCEPT ![b[1]].outcome = b[2]]
        BY <1>h, <4>2 DEF HistoryOK, Receipts!Receipt
      <4> QED BY <2>2, <4>1, <4>2 DEF Pressed, Receipts!Resolve
    <3> QED BY <3>1, <3>2 DEF EffectsTold, OneThingPerButton
  <2>3. CASE ActionTaken
    <3>1. /\ loop.step = "act" /\ loop'.step = "idle" /\ UNCHANGED <<conf, acted>>
      BY <1>q, <2>3 DEF ActionTaken, tokenVars
    <3>2. PICK d : /\ d = [token |-> loop.token, epoch |-> profile.epoch,
                           action |-> [type |-> conf[loop.token].action.type,
                                       task |-> loop.task],
                           decision |-> loop.decision]
                   /\ done' = done \cup {d}
      BY <2>3 DEF ActionTaken, Carry
    <3>3. /\ loop.token \in DOMAIN conf /\ conf[loop.token].action \in Action
          /\ loop.task = conf[loop.token].action.task
      BY <1>h, <3>1 DEF HistoryOK, Receipts!Receipt
    <3>4. d.action = conf[d.token].action /\ d.token = loop.token /\ d.decision = loop.decision
      BY <3>2, <3>3 DEF Action
    <3>5. <<d.token, d.decision>> \in acted /\ d.token \in DOMAIN conf
      BY <3>1, <3>3, <3>4 DEF EffectsTold
    <3>6. EffectsTold'
      BY <3>1, <3>2, <3>4, <3>5 DEF EffectsTold
    <3>7. ASSUME NEW e \in done, e.token = d.token
          PROVE  e.decision = d.decision /\ e.action = d.action
      <4>1. <<e.token, e.decision>> \in acted /\ conf[e.token].action = e.action
        BY <3>5, <3>7 DEF EffectsTold
      <4>2. <<e.token, e.decision>> = <<d.token, d.decision>>
        <5>1. /\ <<e.token, e.decision>>[1] = e.token /\ <<d.token, d.decision>>[1] = d.token
          OBVIOUS
        <5> QED BY <3>5, <3>7, <4>1, <5>1 DEF Receipts!ConfInvariant, Receipts!OneDecision
      <4> QED BY <3>4, <3>7, <4>1, <4>2
    <3>8. OneThingPerButton'
      BY <3>2, <3>7 DEF OneThingPerButton
    <3> QED BY <3>6, <3>8
  <2>4. CASE ActionRefused
    BY <1>1, <1>q, <2>4 DEF ActionRefused, tokenVars
  <2> QED BY <1>5, <2>1, <2>2, <2>3, <2>4 DEF ButtonStep
<1>6. CASE Delivers \/ Resets \/ Restarts \/ TimePasses
  BY <1>1, <1>q, <1>6 DEF Delivers, Resets, Restarts, TimePasses, tokenVars
<1> QED BY <1>2, <1>4, <1>5, <1>6 DEF ActionsNext

LEMMA ToldHolds == ActionsSpec => [](HistoryInv /\ EffectsTold /\ OneThingPerButton)
<1>1. ActionsInit => EffectsTold /\ OneThingPerButton
  BY DEF ActionsInit, Quiet, EffectsTold, OneThingPerButton
<1> QED BY <1>1, ToldStep, HistoryHolds, ButtonsDecideOnce, PTL DEF ActionsSpec

\* Confirm and cancel of one prompt never both take effect, and no replay does
\* something else than the first press, whatever crashes and resets come between.
THEOREM ButtonsDoOneThing == ActionsSpec => []OneThingPerButton
BY ToldHolds, PTL

-----------------------------------------------------------------------------
(* Types *)

\* What the invariants before do not say of the handlers' own state.
HandlerTypes ==
    /\ parsing \subseteq Nat
    /\ loop.task \in TaskIds \cup {None} /\ loop.epoch \in Nat \cup {None}
    /\ loop.token \in Receipts!Tokens \cup {None}
    /\ loop.decision \in Receipts!Decisions \cup {None}
    /\ done \subseteq [token : Receipts!Tokens, action : Action, epoch : Nat,
                       decision : Receipts!Decisions]

LEMMA HandlerTypesStep ==
    ASSUME HistoryInv, HandlerTypes, [ActionsNext]_actionVars
    PROVE  HandlerTypes'
<1>h. HistoryOK /\ ButtonsOK /\ profile.epoch \in Nat
  BY DEF HistoryInv, StoreInvariant, TypeOK, LifecycleTypeOK
<1>q. loop' = Quiet => /\ loop'.task = None /\ loop'.epoch = None
                       /\ loop'.token = None /\ loop'.decision = None
  BY DEF Quiet
<1>1. CASE parsing' \subseteq parsing \cup {profile.epoch} /\ done' = done /\ loop' \in {loop, Quiet}
  BY <1>h, <1>q, <1>1 DEF HandlerTypes
<1>2. CASE UNCHANGED actionVars
  BY <1>1, <1>2 DEF actionVars
<1>3. CASE RequestStep
  <2>1. CASE \/ RequestArrives \/ (\E e \in parsing : RequestFails(e)) \/ RequestBreaks
             \/ PromptOffered
    BY <1>1, <2>1 DEF RequestArrives, RequestFails, RequestBreaks, PromptOffered
  <2>2. ASSUME NEW e \in parsing, NEW p \in Plans, DraftCreated(e, p) PROVE HandlerTypes'
    <3>1. PICK i \in TaskIds :
            loop' = [Quiet EXCEPT !.step = "mark", !.task = i, !.epoch = profile.epoch]
      BY <2>2 DEF DraftCreated
    <3>2. /\ loop'.task = i /\ loop'.epoch = profile.epoch /\ loop'.token = None
          /\ loop'.decision = None
      BY <3>1 DEF Quiet
    <3> QED BY <1>h, <2>2, <3>2 DEF DraftCreated, HandlerTypes
  <2>3. CASE DraftMarked
    <3>1. /\ loop'.task = loop.task /\ loop'.epoch = loop.epoch
          /\ loop'.token = loop.token /\ loop'.decision = loop.decision
      BY <1>h, <2>3 DEF DraftMarked, ButtonsOK, LoopShape
    <3> QED BY <2>3, <3>1 DEF DraftMarked, HandlerTypes
  <2> QED BY <1>3, <2>1, <2>2, <2>3 DEF RequestStep
<1>4. CASE ButtonStep
  <2>1. CASE ActionRefused \/ \E i \in DOMAIN task, type \in ActionTypes : ButtonOffered(i, type)
    BY <1>1, <2>1 DEF ActionRefused, ButtonOffered
  <2>2. ASSUME NEW b \in chat, Pressed(b) PROVE HandlerTypes'
    <3>1. /\ loop'.task = conf[b[1]].action.task /\ loop'.epoch = None
          /\ loop'.token = b[1] /\ loop'.decision = b[2] /\ UNCHANGED <<parsing, done>>
      BY <2>2 DEF Pressed
    <3>2. b[1] \in DOMAIN conf /\ b[1] \in 1..minted /\ b[2] \in Receipts!Decisions
      BY <1>h, <2>2
         DEF Pressed, Receipts!Resolve, Receipts!IsFirst, Receipts!IsReplay, ButtonsOK
    <3>3. conf[b[1]].action.task \in TaskIds
      BY <1>h, <3>2 DEF HistoryOK, Receipts!Receipt, Action
    <3>4. b[1] \in Receipts!Tokens
      BY <1>h, <3>2, ActionAssumption DEF ButtonsOK, Receipts!Tokens
    <3> QED BY <3>1, <3>2, <3>3, <3>4 DEF HandlerTypes
  <2>3. CASE ActionTaken
    <3>1. /\ loop.step = "act" /\ loop' = Quiet /\ UNCHANGED parsing
      BY <2>3 DEF ActionTaken
    <3>2. /\ conf[loop.token].action \in Action /\ loop.token \in 1..minted
          /\ loop.task = conf[loop.token].action.task /\ loop.decision \in Receipts!Decisions
      BY <1>h, <3>1 DEF HistoryOK, Receipts!Receipt, ButtonsOK
    <3>3. loop.token \in Receipts!Tokens
      BY <1>h, <3>2, ActionAssumption DEF ButtonsOK, Receipts!Tokens
    <3>4. [type |-> conf[loop.token].action.type, task |-> loop.task] \in Action
      BY <3>2 DEF Action
    <3>5. done' \subseteq [token : Receipts!Tokens, action : Action, epoch : Nat,
                           decision : Receipts!Decisions]
      BY <1>h, <2>3, <3>2, <3>3, <3>4 DEF ActionTaken, Carry, HandlerTypes
    <3> QED BY <1>q, <3>1, <3>5 DEF HandlerTypes
  <2> QED BY <1>4, <2>1, <2>2, <2>3 DEF ButtonStep
<1>5. CASE Delivers \/ Resets \/ Restarts \/ TimePasses
  BY <1>1, <1>5 DEF Delivers, Resets, Restarts, TimePasses
<1> QED BY <1>2, <1>3, <1>4, <1>5 DEF ActionsNext

\* The handlers' state is of its type: what a segment remembers across its
\* transactions, the buttons in the chat and the effects they had.
THEOREM ActionsTypes == ActionsSpec => []ActionsTypeOK
<1>1. ActionsInit => HandlerTypes
  BY DEF ActionsInit, Quiet, HandlerTypes
<1>2. ASSUME HistoryInv, Receipts!ConfInvariant, HandlerTypes PROVE ActionsTypeOK
  <2>1. TypeOK /\ Receipts!ConfTypeOK
    BY <1>2 DEF HistoryInv, StoreInvariant, Receipts!ConfInvariant
  <2>2. ButtonsOK /\ born \in Seq(Nat) /\ Len(born) = minted
    BY <1>2 DEF HistoryInv, HistoryOK
  <2>3. born \in [1..minted -> Nat]
    BY <2>2
  <2>4. loop \in [step : {"idle", "mark", "token", "act"},
                  task : TaskIds \cup {None}, epoch : Nat \cup {None},
                  token : Receipts!Tokens \cup {None},
                  decision : Receipts!Decisions \cup {None}]
    BY <1>2, <2>2 DEF ButtonsOK, LoopShape, HandlerTypes
  <2>5. chat \subseteq Receipts!Tokens \X Receipts!Decisions
    <3>1. 1..minted \subseteq Receipts!Tokens
      BY <2>2, ActionAssumption DEF ButtonsOK, Receipts!Tokens
    <3> QED BY <2>2, <3>1 DEF ButtonsOK
  <2> QED BY <1>2, <2>1, <2>3, <2>4, <2>5 DEF ActionsTypeOK, HandlerTypes
<1>3. HistoryInv /\ HandlerTypes /\ [ActionsNext]_actionVars => HandlerTypes'
  BY HandlerTypesStep
<1> QED BY <1>1, <1>2, <1>3, HistoryHolds, ButtonsDecideOnce, PTL DEF ActionsSpec
=============================================================================
