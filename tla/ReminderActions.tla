--------------------------- MODULE ReminderActions ---------------------------
(***************************************************************************)
(* The reminder handlers of TelegramApplicationService over the reminder   *)
(* store and the receipts: /remind, /tasks, the buttons of a delivered     *)
(* reminder, and the callbacks of all of them.                             *)
(*                                                                         *)
(* Handlers run on one event loop and yield only where they await: the     *)
(* parser, and the messages they send.  Between two awaits a handler makes *)
(* several transactions, one after the other; the variable loop is what    *)
(* such a segment still has to do.  No other handler runs meanwhile, but   *)
(* the process may die there, a transaction may raise, and a reset called  *)
(* from another thread may step in.                                        *)
(***************************************************************************)
EXTENDS ReminderStore

CONSTANTS TTL, MaxTokens

VARIABLES
    conf, minted, acted,   \* the receipts, see ActionConfirmation
    loop,      \* the segment in progress
    parsing,   \* requests waiting for the parser, by the epoch they began in
    chat,      \* the buttons that reached the chat: token and decision
    born,      \* born[t]: the epoch of the task that token t was issued for
    done       \* actions carried out: token, and the epoch of the store

tokenVars == <<conf, minted, acted>>
actionVars == <<now, profile, reset, task, job, run, outbox, issued, audit,
                conf, minted, acted, loop, parsing, chat, born, done>>

ActionTypes == {"activate_reminder", "cancel_reminder", "complete_reminder",
                "snooze_reminder"}
Action == [type : ActionTypes, task : TaskIds]

Receipts == INSTANCE ActionConfirmation WITH Actions <- Action

ASSUME ActionAssumption ==
    /\ TTL \in Nat \ {0}
    /\ MaxTokens \in Nat
    /\ ActionTokens = 1..MaxTokens
    /\ None \notin Receipts!Decisions

Quiet == [step |-> "idle", task |-> None, epoch |-> None, token |-> None,
          decision |-> None]

ActionsTypeOK ==
    /\ TypeOK
    /\ Receipts!ConfTypeOK
    /\ loop \in [step : {"idle", "mark", "token", "act"},
                 task : TaskIds \cup {None},
                 epoch : Nat \cup {None},
                 token : Receipts!Tokens \cup {None},
                 decision : Receipts!Decisions \cup {None}]
    /\ parsing \subseteq Nat
    /\ chat \subseteq Receipts!Tokens \X Receipts!Decisions
    /\ born \in [1..minted -> Nat]
    /\ done \subseteq [token : Receipts!Tokens, action : Action, epoch : Nat,
                       decision : Receipts!Decisions]

ActionsInit ==
    /\ Init
    /\ Receipts!ConfInit
    /\ loop = Quiet
    /\ parsing = {}
    /\ chat = {}
    /\ born = << >>
    /\ done = {}

Idle == loop.step = "idle"

\* A new receipt for action a on a task of epoch e; the message with its buttons reaches the chat
\* or is lost.
Offer(a, e, decisions) ==
    /\ Receipts!Create(a)
    /\ born' = Append(born, e)
    /\ \/ chat' = chat \cup ({minted + 1} \X decisions)
       \/ UNCHANGED chat

-----------------------------------------------------------------------------
(* _handle_reminder_request *)

\* The request reaches the awaited parser.  One request per epoch is kept
\* there: more would only differ in their plans, which are chosen later.
RequestArrives ==
    /\ Idle
    /\ profile.epoch \notin parsing
    /\ parsing' = parsing \cup {profile.epoch}
    /\ UNCHANGED <<storeVars, tokenVars, loop, chat, born, done>>

\* The parser raises or refuses, or create_draft does.
RequestFails(e) ==
    /\ Idle
    /\ parsing' = parsing \ {e}
    /\ UNCHANGED <<storeVars, tokenVars, loop, chat, born, done>>

\* The parser answers: the segment starts with create_draft, which takes the
\* epoch of the profile as it is now.
DraftCreated(e, p) ==
    /\ Idle
    /\ CreateDraft(p)
    /\ parsing' = parsing \ {e}
    /\ \E i \in TaskIds :
        /\ NextTaskId(i)
        /\ loop' = [Quiet EXCEPT !.step = "mark", !.task = i, !.epoch = profile.epoch]
    /\ UNCHANGED <<tokenVars, chat, born, done>>

DraftMarked ==
    /\ loop.step = "mark"
    /\ loop.task \in DOMAIN task
    /\ MarkAwaiting(loop.task)
    /\ loop' = [loop EXCEPT !.step = "token"]
    /\ UNCHANGED <<tokenVars, parsing, chat, born, done>>

\* The prompt offers both decisions on one receipt.
PromptOffered ==
    /\ loop.step = "token"
    /\ Offer([type |-> "activate_reminder", task |-> loop.task], loop.epoch,
             Receipts!Decisions)
    /\ loop' = Quiet
    /\ UNCHANGED <<storeVars, acted, parsing, done>>

\* Fault: the handler removes the draft's rows itself.
RequestBreaks_DropsDraft ==
    /\ loop.step \in {"mark", "token"}
    /\ loop' = Quiet
    /\ task' = [i \in DOMAIN task \ {loop.task} |-> task[i]]
    /\ job' = [i \in DOMAIN job \ {loop.task} |-> job[i]]
    /\ UNCHANGED <<now, profile, reset, run, outbox, issued, audit, tokenVars,
                   parsing, chat, born, done>>

\* A transaction of the segment raises; what the earlier ones wrote stays.
RequestBreaks ==
    /\ loop.step \in {"mark", "token"}
    /\ loop' = Quiet
    /\ UNCHANGED <<storeVars, tokenVars, parsing, chat, born, done>>

-----------------------------------------------------------------------------
(* The buttons of /tasks and of a delivered reminder *)

\* _reminder_task_buttons.
Listed(i, type) ==
    \/ task[i].status = "active" /\ type # "activate_reminder"
    \/ /\ task[i].status \in {"awaiting_confirmation", "needs_review"}
       /\ type = "cancel_reminder"

\* _action_buttons of the delivery worker: whatever the task's status.
Delivered(i, type) ==
    /\ type # "activate_reminder"
    /\ \E k \in DOMAIN outbox : k[1] = i /\ outbox[k].status = "leased"

ButtonOffered(i, type) ==
    /\ Idle
    /\ Listed(i, type) \/ Delivered(i, type)
    /\ Offer([type |-> type, task |-> i], task[i].epoch, {"confirmed"})
    /\ UNCHANGED <<storeVars, acted, loop, parsing, done>>

-----------------------------------------------------------------------------
(* _handle_confirmation_callback *)

\* A button is pressed: the receipt is resolved, and if it is the first press
\* or a replay of the same decision, the action is the rest of the segment.
Pressed(b) ==
    /\ Idle
    /\ Receipts!Resolve(b[1], b[2])
    /\ loop' = [step |-> "act", task |-> conf[b[1]].action.task,
                epoch |-> None, token |-> b[1], decision |-> b[2]]
    /\ UNCHANGED <<storeVars, parsing, chat, born, done>>

Carry(i, type) ==
    done' = done \cup {[token |-> loop.token, epoch |-> profile.epoch,
                        action |-> [type |-> type, task |-> i],
                        decision |-> loop.decision]}

\* Fault: the cancel button of the prompt is taken for its confirm button.
Effect_EitherDecision(i, type) ==
    \/ type = "activate_reminder" /\ Activate(i)
    \/ type = "cancel_reminder" /\ Finish(i, "cancelled")
    \/ type = "complete_reminder" /\ Finish(i, "completed")
    \/ type = "snooze_reminder" /\ Snooze(i, loop.token)

\* _execute_reminder_action, and the cancel of a prompt.
Effect(i, type) ==
    LET confirmed == loop.decision = "confirmed" IN
    \/ type = "activate_reminder" /\ confirmed /\ Activate(i)
    \/ type = "activate_reminder" /\ ~confirmed /\ Finish(i, "cancelled")
    \/ type = "cancel_reminder" /\ confirmed /\ Finish(i, "cancelled")
    \/ type = "complete_reminder" /\ confirmed /\ Finish(i, "completed")
    \/ type = "snooze_reminder" /\ confirmed /\ Snooze(i, loop.token)

\* Fault: the receipt is deleted once its action was taken.
ActionTaken_DropsReceipt ==
    /\ loop.step = "act"
    /\ loop.task \in DOMAIN task
    /\ Effect(loop.task, conf[loop.token].action.type)
    /\ Carry(loop.task, conf[loop.token].action.type)
    /\ loop' = Quiet
    /\ conf' = [t \in DOMAIN conf \ {loop.token} |-> conf[t]]
    /\ UNCHANGED <<minted, acted, parsing, chat, born>>

\* The receipt named the action when it was resolved; the row cannot go in the
\* middle of the segment, because only create deletes receipts.
ActionTaken ==
    /\ loop.step = "act"
    /\ loop.task \in DOMAIN task
    /\ Effect(loop.task, conf[loop.token].action.type)
    /\ Carry(loop.task, conf[loop.token].action.type)
    /\ loop' = Quiet
    /\ UNCHANGED <<tokenVars, parsing, chat, born>>

\* The store refuses the action, finds it done already, or fails.
ActionRefused ==
    /\ loop.step = "act"
    /\ loop' = Quiet
    /\ UNCHANGED <<storeVars, tokenVars, parsing, chat, born, done>>

-----------------------------------------------------------------------------
(* Everything else *)

\* The reminder loop has its segments on the same event loop.
Delivers ==
    /\ Idle
    /\ DeliveryOperation
    /\ UNCHANGED <<tokenVars, loop, parsing, chat, born, done>>

Resets ==
    /\ ResetStep
    /\ UNCHANGED <<tokenVars, loop, parsing, chat, born, done>>

\* The process dies and starts again: handlers in progress are gone.
Restarts ==
    /\ loop' = Quiet
    /\ parsing' = {}
    /\ reset' = "idle"
    /\ UNCHANGED <<now, profile, rows, issued, audit, tokenVars, chat, born, done>>

\* A segment is shorter than a tick.
TimePasses ==
    /\ Idle
    /\ Tick
    /\ UNCHANGED <<tokenVars, loop, parsing, chat, born, done>>

RequestStep ==
    \/ RequestArrives
    \/ \E e \in parsing : RequestFails(e) \/ \E p \in Plans : DraftCreated(e, p)
    \/ DraftMarked
    \/ PromptOffered
    \/ RequestBreaks

ButtonStep ==
    \/ \E i \in DOMAIN task, type \in ActionTypes : ButtonOffered(i, type)
    \/ \E b \in chat : Pressed(b)
    \/ ActionTaken
    \/ ActionRefused

ActionsNext ==
    \/ RequestStep
    \/ ButtonStep
    \/ Delivers
    \/ Resets
    \/ Restarts
    \/ TimePasses

ActionsSpec == ActionsInit /\ [][ActionsNext]_actionVars

-----------------------------------------------------------------------------
(* Properties *)

\* The handlers use both stores as their contracts allow.
KeepsStoreContract    == Spec
KeepsReceiptContract  == Receipts!ConfSpec

\* A button of an earlier life acted on task i of this one.
Disturbed(i) ==
    \E d \in done :
        d.action.task = i /\ d.epoch = task[i].epoch /\ born[d.token] # d.epoch

\* The scheduler sees a task only after the owner confirmed that very task:
\* whatever has left the draft states without being cancelled was confirmed.
RunsOnlyIfConfirmed ==
    \A i \in DOMAIN task :
        task[i].status \in {"active", "completed", "needs_review"} /\ ~Disturbed(i) =>
            \E d \in done :
                /\ d.action = [type |-> "activate_reminder", task |-> i]
                /\ d.decision = "confirmed"
                /\ d.epoch = task[i].epoch

\* What a button did stays done: no replay, other button or scheduler step of
\* the same life takes it back.
EffectsLast ==
    \A d \in done :
        LET i == d.action.task IN
        /\ i \in DOMAIN task
        /\ d.epoch = task[i].epoch
        => CASE d.decision = "cancelled"            -> task[i].status = "cancelled"
             [] d.action.type = "cancel_reminder"   -> task[i].status = "cancelled"
             [] d.action.type = "complete_reminder" -> task[i].status = "completed"
             [] d.action.type = "snooze_reminder"   ->
                    \E k \in DOMAIN run : k[1] = i /\ run[k].action = d.token
             [] OTHER -> task[i].status # "awaiting_confirmation"
=============================================================================
