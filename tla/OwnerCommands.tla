----------------------------- MODULE OwnerCommands -----------------------------
(***************************************************************************)
(* The owner's commands that destroy something: /forget and /new with the  *)
(* receipts of ActionConfirmation between the question and the deed, and   *)
(* /remember and the conversation beside them.                             *)
(*                                                                         *)
(* Handlers run on one event loop and yield where they await.  From the    *)
(* decision of a receipt to the deed there is no await, but these are two  *)
(* transactions, and the process may die or the second one fail between    *)
(* them; the variable loop is what the segment still has to do.  A         *)
(* conversation is closed in a thread, while other handlers run.           *)
(***************************************************************************)
EXTENDS ActionConfirmation

CONSTANTS
    MaxRecords,    \* bound: memories ever created
    MaxSessions,   \* bound: sessions of one life
    MaxEpoch,      \* bound: resets
    MaxFaults      \* bound: crashes and failed operations

\* A receipt holds action_type and, of its payload, the id.
CommandActions == [type : {"forget_memory", "close_session"},
                   id : 1..(MaxRecords + MaxSessions)]

ASSUME CommandAssumption ==
    /\ Actions = CommandActions
    /\ {MaxRecords, MaxSessions, MaxEpoch, MaxFaults} \subseteq Nat
    /\ None \notin Nat

VARIABLES
    epoch,     \* lives of the owner so far
    memory,    \* memory[id]: the record there; records are numbered for ever
    made,      \* records created so far
    sessions,  \* rows of the table session, ids 1..sessions
    active,    \* the active session of the lane, or None
    shown,     \* shown[t]: the record or session the prompt of token t names
    chat,      \* prompts that reached the chat
    loop,      \* the token whose deed is next in the running segment, or None
    closing,   \* tokens whose session is being finalized in a thread
    answers,   \* <<token, answer>> of every deed that ended
    cut,       \* tokens whose handler ended without an answer
    faults

dataVars == <<epoch, memory, made, sessions, active>>
commandVars == <<confVars, dataVars, shown, chat, loop, closing, answers, cut, faults>>

Answers == {"deleted", "already_deleted", "closed", "already_closed", "failed"}

CommandTypeOK ==
    /\ ConfTypeOK
    /\ epoch \in Nat /\ made \in Nat /\ sessions \in 0..MaxSessions /\ faults \in Nat
    /\ DOMAIN memory \subseteq 1..MaxRecords
    /\ memory \in [DOMAIN memory -> 1..made]
    /\ active \in (1..sessions) \cup {None}
    /\ shown \in [1..minted -> Nat]
    /\ chat \subseteq 1..minted /\ closing \subseteq 1..minted /\ cut \subseteq 1..minted
    /\ loop \in (1..minted) \cup {None}
    /\ answers \subseteq (1..minted) \X Answers

CommandInit ==
    /\ ConfInit
    /\ epoch = 1
    /\ memory = [i \in {} |-> 0] /\ made = 0
    /\ sessions = 0 /\ active = None
    /\ shown = [t \in {} |-> 0]
    /\ chat = {}
    /\ loop = None
    /\ closing = {}
    /\ answers = {}
    /\ cut = {}
    /\ faults = 0

LoopIdle == loop = None
Faulty   == faults < MaxFaults /\ faults' = faults + 1
Records  == {memory[i] : i \in DOMAIN memory}

\* INTEGER PRIMARY KEY: the largest id in use plus one.
IsNextId(i) ==
    /\ \A j \in DOMAIN memory : j < i
    /\ i = 1 \/ i - 1 \in DOMAIN memory

-----------------------------------------------------------------------------
(* /remember, and the conversation *)

\* Also what an extraction learns takes its id from the same table.
Remember(i) ==
    /\ LoopIdle
    /\ made < MaxRecords
    /\ IsNextId(i)
    /\ made' = made + 1
    /\ memory' = [j \in DOMAIN memory \cup {i} |-> IF j = i THEN made + 1 ELSE memory[j]]
    /\ UNCHANGED <<confVars, epoch, sessions, active, shown, chat, loop, closing,
                   answers, cut, faults>>

\* A message opens a session when its lane has none.
Talk ==
    /\ LoopIdle
    /\ active = None
    /\ sessions < MaxSessions
    /\ sessions' = sessions + 1
    /\ active' = sessions + 1
    /\ UNCHANGED <<confVars, epoch, memory, made, shown, chat, loop, closing,
                   answers, cut, faults>>

-----------------------------------------------------------------------------
(* The question *)

\* A receipt and its prompt, which names what; the prompt may not arrive.
Prompt(type, id, what) ==
    /\ LoopIdle
    /\ Create([type |-> type, id |-> id])
    /\ shown' = [t \in 1..minted' |-> IF t = minted' THEN what ELSE shown[t]]
    /\ \/ chat' = chat \cup {minted'}
       \/ UNCHANGED chat
    /\ UNCHANGED <<dataVars, loop, closing, answers, cut, faults>>

\* /forget with an id, or the button of a record in a list: the prompt shows the
\* record that has the id now.
AskForget(id) ==
    /\ id \in DOMAIN memory
    /\ Prompt("forget_memory", id, memory[id])

\* /new, while the lane has an active session.
AskClose ==
    /\ active # None
    /\ Prompt("close_session", active, active)

-----------------------------------------------------------------------------
(* The answer of the owner *)

\* Fault: a replay is carried out again, as the reminder actions are.
Acts_OnReplay(t, d) == d = "confirmed" /\ (IsFirst(t) \/ IsReplay(t, d))

\* Only the first confirmation of these two types is carried out.
Acts(t, d) == d = "confirmed" /\ IsFirst(t)

\* _handle_confirmation_callback: the receipt is decided, or it is a replay.
Press(t, d) ==
    /\ LoopIdle
    /\ t \in chat
    /\ Resolve(t, d)
    /\ loop' = IF Acts(t, d) THEN t ELSE None
    /\ UNCHANGED <<dataVars, shown, chat, closing, answers, cut, faults>>

Pending(type) == loop # None /\ loop \in DOMAIN conf /\ conf[loop].action.type = type
Target == conf[loop].action.id

Answer(t, a) == answers' = answers \cup {<<t, a>>}

\* _execute_confirmed_forget: DELETE by id.
Forget ==
    /\ Pending("forget_memory")
    /\ memory' = [i \in DOMAIN memory \ {Target} |-> memory[i]]
    /\ Answer(loop, IF Target \in DOMAIN memory THEN "deleted" ELSE "already_deleted")
    /\ loop' = None
    /\ UNCHANGED <<confVars, epoch, made, sessions, active, shown, chat, closing, cut,
                   faults>>

\* The store raises.  The handler of /new takes that for a session that is gone.
DeedFails ==
    /\ Faulty
    /\ \/ Pending("forget_memory") /\ Answer(loop, "failed")
       \/ Pending("close_session") /\ Answer(loop, "already_closed")
    /\ loop' = None
    /\ UNCHANGED <<confVars, dataVars, shown, chat, closing, cut>>

\* _execute_confirmed_close looks whether the session is still the active one,
\* says that it closes it, and hands it to a thread.
BeginClose ==
    /\ Pending("close_session")
    /\ active = Target
    /\ closing' = closing \cup {loop}
    /\ loop' = None
    /\ UNCHANGED <<confVars, dataVars, shown, chat, answers, cut, faults>>

\* Fault: the early return says nothing.
FindClosed_Silent ==
    /\ Pending("close_session")
    /\ active # Target
    /\ loop' = None
    /\ UNCHANGED <<confVars, dataVars, shown, chat, closing, answers, cut, faults>>

FindClosed ==
    /\ Pending("close_session")
    /\ active # Target
    /\ Answer(loop, "already_closed")
    /\ loop' = None
    /\ UNCHANGED <<confVars, dataVars, shown, chat, closing, cut, faults>>

EndClose(t, a) ==
    /\ Answer(t, a)
    /\ closing' = closing \ {t}
    /\ UNCHANGED <<confVars, epoch, memory, made, sessions, shown, chat, loop, cut>>

\* Fault: the thread closes the session that is active when it gets there.
Close_Current(t) ==
    /\ t \in closing /\ active # None
    /\ active' = None
    /\ EndClose(t, "closed")
    /\ UNCHANGED faults

\* finalize commits: the session of the payload is closed.
Close(t) ==
    /\ t \in closing
    /\ shown[t] = active
    /\ active' = None
    /\ EndClose(t, "closed")
    /\ UNCHANGED faults

\* finalize finds the summary another prompt's thread has written.
FindSummary(t) ==
    /\ t \in closing
    /\ shown[t] \in (1..sessions) \ {active}
    /\ EndClose(t, "closed")
    /\ UNCHANGED <<active, faults>>

\* finalize raises: a reset took the session, or a fault.
CloseFails(t) ==
    /\ t \in closing
    /\ \/ shown[t] > sessions /\ UNCHANGED faults
       \/ Faulty
    /\ EndClose(t, "failed")
    /\ UNCHANGED active

\* The notice "closing..." cannot be sent, and the exception ends the handler.
NoticeFails(t) ==
    /\ t \in closing
    /\ Faulty
    /\ closing' = closing \ {t}
    /\ cut' = cut \cup {t}
    /\ UNCHANGED <<confVars, dataVars, shown, chat, loop, answers>>

-----------------------------------------------------------------------------
(* The world around *)

\* The process dies and starts again.
CommandCrash ==
    /\ Faulty
    /\ cut' = cut \cup closing \cup (IF loop = None THEN {} ELSE {loop})
    /\ loop' = None
    /\ closing' = {}
    /\ UNCHANGED <<confVars, dataVars, shown, chat, answers>>

\* ResetCoordinator.reset, seen from here: records and sessions go, and with
\* them the ids start again; receipts stay.
Reset ==
    /\ epoch < MaxEpoch
    /\ epoch' = epoch + 1
    /\ memory' = [i \in {} |-> 0]
    /\ sessions' = 0
    /\ active' = None
    /\ UNCHANGED <<confVars, made, shown, chat, loop, closing, answers, cut, faults>>

CommandTick ==
    /\ ConfTick
    /\ UNCHANGED <<dataVars, shown, chat, loop, closing, answers, cut, faults>>

Deed == Forget \/ BeginClose \/ FindClosed \/ DeedFails

CommandNext ==
    \/ \E i \in 1..MaxRecords : Remember(i)
    \/ Talk
    \/ \E id \in DOMAIN memory : AskForget(id)
    \/ AskClose
    \/ \E t \in 1..minted, d \in Decisions : Press(t, d)
    \/ Deed
    \/ \E t \in closing : Close(t) \/ FindSummary(t) \/ CloseFails(t) \/ NoticeFails(t)
    \/ CommandCrash \/ Reset \/ CommandTick

CommandSpec == CommandInit /\ [][CommandNext]_commandVars

\* A segment runs to its next await, and the thread of a finalizer ends: its
\* provider has a timeout.
CommandFairness ==
    /\ WF_commandVars(Deed)
    /\ \A t \in Tokens : WF_commandVars(Close(t) \/ FindSummary(t) \/ CloseFails(t))

LiveCommandSpec == CommandSpec /\ CommandFairness

-----------------------------------------------------------------------------
(* Properties *)

\* A receipt is good for one deed, however often and by whatever handlers its
\* buttons are pressed, and only after the owner confirmed it in the chat.
OneDeedPerReceipt ==
    /\ \A x, y \in answers : x[1] = y[1] => x = y
    /\ \A x \in answers : <<x[1], "confirmed">> \in acted /\ x[1] \in chat
    /\ \A x \in answers : x[1] \notin closing \cup cut \cup {loop}

\* When the bot answers that a record was deleted, or that it already was, the
\* record its prompt showed is gone, and it never comes back.
ForgottenIsGone ==
    \A x \in answers : x[2] \in {"deleted", "already_deleted"} => shown[x[1]] \notin Records

\* A session ends with the confirmation of a prompt that named it, or in a reset:
\* an old prompt does not close the conversation that followed.  A session is
\* known by its id, which a reset gives out again.
ClosesWhatWasAsked ==
    [][active # None /\ active' # active =>
        \/ epoch' # epoch
        \/ \E t \in closing : shown[t] = active /\ <<t, "confirmed">> \in acted]_commandVars

\* What the owner confirmed is answered, unless a crash or a notice that cannot be
\* sent ends the handler: the decision is then spent and cannot be repeated.
ConfirmedIsAnswered ==
    \A t \in Tokens :
        <<t, "confirmed">> \in acted ~> (t \in cut \/ \E a \in Answers : <<t, a>> \in answers)

\* The prompt names the record that a confirmation deletes.
ForgetsWhatWasShown ==
    [][Forget => \/ Target \notin DOMAIN memory
                 \/ memory[Target] = shown[loop]]_commandVars
=============================================================================
