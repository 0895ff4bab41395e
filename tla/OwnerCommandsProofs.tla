-------------------------- MODULE OwnerCommandsProofs --------------------------
(* Proofs about the receipts and the commands they guard, for any number of   *)
(* tokens, records, sessions, resets and faults.                              *)
EXTENDS OwnerCommands, TLAPS

-----------------------------------------------------------------------------
(* The receipts, whoever uses them *)

\* Both methods keep the invariant: create only adds an undecided receipt under
\* a fresh token, resolve only fills in what was undecided.
LEMMA ConfStep ==
    ASSUME ConfInvariant, [ConfNext]_confVars
    PROVE  ConfInvariant'
<1> USE ConfirmationAssumption, DecisionAssumption
<1>1. CASE UNCHANGED confVars
  BY <1>1 DEF ConfInvariant, ConfTypeOK, OneDecision, confVars, Receipt
<1>2. ASSUME NEW a \in Actions, Create(a) PROVE ConfInvariant'
  <2>1. /\ minted \in Nat /\ minted' = minted + 1 /\ minted' \in 0..MaxTokens
        /\ now' = now /\ acted' = acted
    BY <1>2 DEF Create, ConfInvariant, ConfTypeOK
  <2>2. DOMAIN conf' = Live \cup {minted'}
    BY <1>2, <2>1 DEF Create
  <2>3. \A t \in DOMAIN conf' :
           \/ t \in DOMAIN conf /\ conf'[t] = conf[t]
           \/ t = minted' /\ conf'[t] \in Receipt
    <3>1. [action |-> a, expires |-> now + TTL, outcome |-> None] \in Receipt
      BY DEF Receipt, ConfInvariant, ConfTypeOK
    <3> QED BY <1>2, <2>1, <2>2, <3>1 DEF Create, Live
  <2>4. DOMAIN conf \subseteq 1..minted /\ \A t \in DOMAIN conf : conf[t] \in Receipt
    BY DEF ConfInvariant, ConfTypeOK
  <2>5. ConfTypeOK'
    <3>1. DOMAIN conf' \subseteq 1..minted'
      BY <2>1, <2>2, <2>4 DEF Live
    <3>2. conf' \in [DOMAIN conf' -> Receipt]
      BY <1>2, <2>3, <2>4 DEF Create
    <3>3. acted' \subseteq (1..minted') \X Decisions
      BY <2>1 DEF ConfInvariant, ConfTypeOK
    <3> QED BY <2>1, <3>1, <3>2, <3>3 DEF ConfInvariant, ConfTypeOK
  <2>6. \A x \in acted' : x[1] \in DOMAIN conf' => conf'[x[1]].outcome = x[2]
    <3> SUFFICES ASSUME NEW x \in acted, x[1] \in DOMAIN conf'
                 PROVE  conf'[x[1]].outcome = x[2]
      BY <2>1
    <3>1. x[1] \in 1..minted
      BY DEF ConfInvariant, ConfTypeOK
    <3>2. x[1] # minted'
      BY <2>1, <3>1
    <3> QED BY <2>3, <3>2 DEF ConfInvariant
  <2>7. OneDecision'
    BY <2>1 DEF ConfInvariant, OneDecision
  <2> QED BY <2>5, <2>6, <2>7 DEF ConfInvariant
<1>3. ASSUME NEW t \in 1..minted, NEW d \in Decisions, Resolve(t, d)
      PROVE  ConfInvariant'
  <2>1. /\ now' = now /\ minted' = minted /\ acted' = acted \cup {<<t, d>>}
        /\ t \in DOMAIN conf
    BY <1>3 DEF Resolve, IsFirst, IsReplay
  <2>2. \/ conf[t].outcome = None /\ conf' = [conf EXCEPT ![t].outcome = d]
        \/ conf[t].outcome = d /\ conf' = conf
    BY <1>3 DEF Resolve, IsFirst, IsReplay
  <2>3. /\ DOMAIN conf' = DOMAIN conf
        /\ conf'[t].outcome = d
        /\ \A u \in DOMAIN conf : u # t => conf'[u] = conf[u]
        /\ \A u \in DOMAIN conf : conf'[u] \in Receipt
    BY <2>1, <2>2 DEF ConfInvariant, ConfTypeOK, Receipt
  <2>4. conf' \in [DOMAIN conf' -> Receipt]
    <3>1. CASE conf' = conf
      BY <3>1 DEF ConfInvariant, ConfTypeOK
    <3>2. CASE conf' = [conf EXCEPT ![t].outcome = d]
      BY <2>3, <3>2
    <3> QED BY <2>2, <3>1, <3>2
  <2>5. ConfTypeOK'
    BY <2>1, <2>3, <2>4 DEF ConfInvariant, ConfTypeOK
  <2>6. \A x \in acted' : x[1] \in DOMAIN conf' => conf'[x[1]].outcome = x[2]
    <3> SUFFICES ASSUME NEW x \in acted, x[1] \in DOMAIN conf
                 PROVE  conf'[x[1]].outcome = x[2]
      BY <2>1, <2>3
    <3>1. CASE x[1] # t
      BY <2>3, <3>1 DEF ConfInvariant
    <3>2. CASE x[1] = t
      <4>1. conf[t].outcome = x[2] /\ x[2] \in Decisions
        BY <3>2 DEF ConfInvariant, ConfTypeOK
      <4> QED BY <2>2, <3>2, <4>1
    <3> QED BY <3>1, <3>2
  <2>7. \A x \in acted' : x \in (1..minted) \X Decisions
    BY <2>5, <2>1 DEF ConfTypeOK
  <2>8. OneDecision'
    <3> SUFFICES ASSUME NEW x \in acted', NEW y \in acted', x[1] = y[1]
                 PROVE  x = y
      BY DEF OneDecision
    <3>1. CASE x \in acted /\ y \in acted
      BY <3>1 DEF ConfInvariant, OneDecision
    <3>2. CASE x[1] = t
      <4>1. x[2] = d /\ y[2] = d
        BY <2>1, <2>3, <2>6, <3>2
      <4>2. x = <<x[1], x[2]>> /\ y = <<y[1], y[2]>>
        BY <2>7
      <4> QED BY <3>2, <4>1, <4>2
    <3> QED BY <2>1, <3>1, <3>2
  <2> QED BY <2>5, <2>6, <2>8 DEF ConfInvariant
<1>4. CASE ConfTick
  BY <1>4 DEF ConfTick, ConfInvariant, ConfTypeOK, OneDecision, Receipt
<1> QED BY <1>1, <1>2, <1>3, <1>4 DEF ConfNext

\* The invariant holds in every state, for every TTL and number of tokens.
THEOREM ReceiptsAreSafe == ConfSpec => []ConfInvariant
<1>1. ConfInit => ConfInvariant
  BY ConfirmationAssumption
     DEF ConfInit, ConfInvariant, ConfTypeOK, OneDecision, Receipt
<1> QED BY <1>1, ConfStep, PTL DEF ConfSpec

\* A stored decision stays as long as its receipt.
THEOREM ReceiptsAreFinal == ConfSpec => DecisionIsFinal
<1>1. ASSUME ConfInvariant, [ConfNext]_confVars, NEW t \in DOMAIN conf \cap DOMAIN conf',
             conf[t].outcome # None
      PROVE  conf'[t].outcome = conf[t].outcome
  <2>1. CASE UNCHANGED confVars
    BY <2>1 DEF confVars
  <2>2. ASSUME NEW a \in Actions, Create(a) PROVE conf'[t].outcome = conf[t].outcome
    <3>1. t \in 1..minted /\ minted \in Nat
      BY <1>1 DEF ConfInvariant, ConfTypeOK
    <3>2. t # minted + 1
      BY <3>1
    <3> QED BY <1>1, <2>2, <3>2 DEF Create, Live
  <2>3. ASSUME NEW u \in 1..minted, NEW d \in Decisions, Resolve(u, d)
        PROVE  conf'[t].outcome = conf[t].outcome
    BY <1>1, <2>3 DEF Resolve, IsFirst, IsReplay
  <2>4. CASE ConfTick
    BY <2>4 DEF ConfTick
  <2> QED BY <1>1, <2>1, <2>2, <2>3, <2>4 DEF ConfNext
<1>2. ASSUME ConfInvariant, [ConfNext]_confVars
      PROVE  [\A t \in DOMAIN conf \cap DOMAIN conf' :
                conf[t].outcome # None => conf'[t].outcome = conf[t].outcome]_confVars
  BY <1>1, <1>2
<1> QED BY <1>2, ReceiptsAreSafe, PTL DEF ConfSpec, DecisionIsFinal

-----------------------------------------------------------------------------
(* The inductive invariant of the commands *)

\* A receipt whose deed was entrusted to a handler.
Told(t) == <<t, "confirmed">> \in acted /\ t \in chat

\* A receipt is in one hand: the segment's, a thread's, lost, or answered.
InOneHand ==
    /\ loop # None => loop \in DOMAIN conf /\ Told(loop) /\ loop \notin closing \cup cut
    /\ \A t \in closing : Told(t) /\ t \notin cut
    /\ \A t \in cut : Told(t)

\* A record is under one id, and a receipt that would still find the record its
\* prompt showed has that id.
RecordsApart ==
    /\ \A i, j \in DOMAIN memory : memory[i] = memory[j] => i = j
    /\ \A t \in DOMAIN conf : conf[t].action.type = "forget_memory" =>
          /\ shown[t] <= made
          /\ \A i \in DOMAIN memory : memory[i] = shown[t] => i = conf[t].action.id
    /\ \A x \in answers : x[2] \in {"deleted", "already_deleted"} => shown[x[1]] <= made

CommandInv ==
    /\ ConfInvariant
    /\ CommandTypeOK
    /\ InOneHand
    /\ RecordsApart
    /\ OneDeedPerReceipt
    /\ ForgottenIsGone

\* The commands use the receipts as any caller may.
LEMMA ReceiptStep ==
    ASSUME CommandTypeOK, [CommandNext]_commandVars
    PROVE  [ConfNext]_confVars
<1> USE CommandAssumption
<1>1. CASE UNCHANGED commandVars
  BY <1>1 DEF commandVars
<1>2. ASSUME NEW i, Remember(i) PROVE UNCHANGED confVars
  BY <1>2 DEF Remember
<1>3. ASSUME NEW id \in DOMAIN memory, AskForget(id) PROVE ConfNext
  <2>1. id \in 1..(MaxRecords + MaxSessions)
    BY DEF CommandTypeOK
  <2>2. [type |-> "forget_memory", id |-> id] \in Actions
    BY <2>1 DEF CommandActions
  <2> QED BY <1>3, <2>2 DEF AskForget, Prompt, ConfNext
<1>4. CASE AskClose
  <2>1. active \in 1..(MaxRecords + MaxSessions)
    BY <1>4 DEF AskClose, CommandTypeOK
  <2>2. [type |-> "close_session", id |-> active] \in Actions
    BY <2>1 DEF CommandActions
  <2> QED BY <1>4, <2>2 DEF AskClose, Prompt, ConfNext
<1>5. ASSUME NEW t \in 1..minted, NEW d \in Decisions, Press(t, d) PROVE ConfNext
  BY <1>5 DEF Press, ConfNext
<1>6. CASE Talk \/ Deed \/ CommandCrash \/ Reset
  BY <1>6 DEF Talk, Deed, Forget, BeginClose, FindClosed, DeedFails, CommandCrash, Reset
<1>7. ASSUME NEW t \in closing, Close(t) \/ FindSummary(t) \/ CloseFails(t) \/ NoticeFails(t)
      PROVE  UNCHANGED confVars
  BY <1>7 DEF Close, FindSummary, CloseFails, NoticeFails, EndClose
<1>8. CASE CommandTick
  BY <1>8 DEF CommandTick, ConfNext
<1> QED BY <1>1, <1>2, <1>3, <1>4, <1>5, <1>6, <1>7, <1>8 DEF CommandNext

\* What the receipts of a state say of the next one.
LEMMA ReceiptsGrow ==
    ASSUME ConfInvariant, [ConfNext]_confVars
    PROVE  minted' >= minted /\ acted \subseteq acted'
<1>1. minted \in Nat
  BY DEF ConfInvariant, ConfTypeOK
<1> QED BY <1>1 DEF ConfNext, Create, Resolve, ConfTick, confVars

\* Nobody was told anything of an undecided receipt.
LEMMA FirstIsFresh ==
    ASSUME ConfInvariant, NEW t, IsFirst(t)
    PROVE  \A d : <<t, d>> \notin acted
<1> SUFFICES ASSUME NEW d, <<t, d>> \in acted PROVE FALSE
  OBVIOUS
<1>1. conf[t].outcome = d /\ d \in Decisions
  BY DEF ConfInvariant, ConfTypeOK, IsFirst
<1> QED BY <1>1, DecisionAssumption DEF IsFirst

LEMMA CommandTypes ==
    ASSUME CommandInv, ConfInvariant', [CommandNext]_commandVars
    PROVE  CommandTypeOK'
<1> USE CommandAssumption DEF CommandTypeOK
<1>1. ConfTypeOK' /\ minted \in Nat /\ minted' \in Nat
  BY DEF ConfInvariant, ConfTypeOK, CommandInv
<1>2. CASE UNCHANGED commandVars
  BY <1>1, <1>2 DEF commandVars, dataVars, confVars, CommandInv
<1>3. ASSUME NEW i \in 1..MaxRecords, Remember(i) PROVE CommandTypeOK'
  <2>1. /\ made' = made + 1 /\ made \in Nat
        /\ memory' = [j \in DOMAIN memory \cup {i} |-> IF j = i THEN made + 1 ELSE memory[j]]
    BY <1>3 DEF Remember, CommandInv
  <2>2. \A j \in DOMAIN memory : memory[j] \in 1..made'
    BY <2>1 DEF CommandInv
  <2>3. memory' \in [DOMAIN memory' -> 1..made'] /\ DOMAIN memory' \subseteq 1..MaxRecords
    <3>1. \A j \in DOMAIN memory \cup {i} :
             (IF j = i THEN made + 1 ELSE memory[j]) \in 1..made'
      BY <2>1, <2>2
    <3>2. DOMAIN memory' = DOMAIN memory \cup {i}
      BY <2>1
    <3> QED BY <2>1, <3>1, <3>2 DEF CommandInv
  <2>4. UNCHANGED <<minted, epoch, sessions, active, shown, chat, loop, closing, answers, cut, faults>>
    BY <1>3 DEF Remember, confVars
  <2>5. made' \in Nat
    BY <2>1
  <2> HIDE DEF CommandTypeOK
  <2> QED BY <1>1, <2>3, <2>4, <2>5 DEF CommandTypeOK, CommandInv
<1>4. CASE Talk
  <2>1. sessions' \in 0..MaxSessions /\ active' \in 1..sessions'
    BY <1>4 DEF Talk, CommandInv
  <2> QED BY <1>1, <1>4, <2>1 DEF Talk, confVars, CommandInv
<1>5. ASSUME NEW type, NEW id, NEW what \in Nat, Prompt(type, id, what) PROVE CommandTypeOK'
  <2>1. minted' = minted + 1
    BY <1>5 DEF Prompt, Create
  <2>2. shown' \in [1..minted' -> Nat]
    BY <1>1, <1>5, <2>1 DEF Prompt, CommandInv
  <2>3. 1..minted \subseteq 1..minted' /\ minted' \in 1..minted'
    BY <1>1, <2>1
  <2> QED BY <1>1, <1>5, <2>2, <2>3 DEF Prompt, dataVars, CommandInv
<1>6. ASSUME NEW id \in DOMAIN memory, AskForget(id) PROVE CommandTypeOK'
  <2>1. memory[id] \in Nat
    BY DEF CommandInv
  <2> QED BY <1>5, <1>6, <2>1 DEF AskForget
<1>7. CASE AskClose
  <2>1. active \in Nat
    BY <1>7 DEF AskClose, CommandInv
  <2> QED BY <1>5, <1>7, <2>1 DEF AskClose
<1>8. ASSUME NEW t \in 1..minted, NEW d \in Decisions, Press(t, d) PROVE CommandTypeOK'
  BY <1>1, <1>8 DEF Press, Resolve, dataVars, CommandInv
<1>9. CASE Deed
  <2>1. \A a \in Answers : loop # None => answers \cup {<<loop, a>>} \subseteq (1..minted) \X Answers
    BY DEF CommandInv
  <2>2. CASE Forget
    BY <1>1, <2>1, <2>2 DEF Forget, Answer, Answers, Pending, confVars, CommandInv
  <2>3. CASE DeedFails
    BY SMTT(20), <1>1, <2>1, <2>3 DEF DeedFails, Faulty, Answer, Answers, Pending, confVars, dataVars, CommandInv
  <2>4. CASE BeginClose
    BY <1>1, <2>4 DEF BeginClose, Pending, confVars, dataVars, CommandInv
  <2>5. CASE FindClosed
    BY <1>1, <2>1, <2>5 DEF FindClosed, Answer, Answers, Pending, confVars, dataVars, CommandInv
  <2> QED BY <1>9, <2>2, <2>3, <2>4, <2>5 DEF Deed
<1>10. ASSUME NEW t \in closing, Close(t) \/ FindSummary(t) \/ CloseFails(t) \/ NoticeFails(t)
       PROVE  CommandTypeOK'
  <2>1. t \in 1..minted /\ \A a \in Answers : answers \cup {<<t, a>>} \subseteq (1..minted) \X Answers
    BY DEF CommandInv
  <2>2. CASE NoticeFails(t)
    <3>1. closing' \subseteq 1..minted /\ cut' \subseteq 1..minted
      BY <2>1, <2>2 DEF NoticeFails, CommandInv
    <3>2. faults' \in Nat
      BY <2>2 DEF NoticeFails, Faulty, CommandInv
    <3> QED BY <1>1, <2>2, <3>1, <3>2 DEF NoticeFails, confVars, dataVars, CommandInv
  <2>3. CASE Close(t) \/ FindSummary(t) \/ CloseFails(t)
    <3>1. PICK a \in Answers : EndClose(t, a)
      BY <2>3 DEF Close, FindSummary, CloseFails, Answers
    <3>2. faults' \in Nat /\ active' \in {active, None}
      BY <2>3 DEF Close, FindSummary, CloseFails, Faulty, CommandInv
    <3>3. closing' \subseteq 1..minted /\ answers' \subseteq (1..minted) \X Answers
      BY <2>1, <3>1 DEF EndClose, Answer, CommandInv
    <3>4. /\ UNCHANGED <<epoch, memory, made, sessions, shown, chat, loop, cut>>
          /\ minted' = minted
      BY <3>1 DEF EndClose, confVars
    <3> QED BY <1>1, <3>2, <3>3, <3>4 DEF CommandInv
  <2> QED BY <1>10, <2>2, <2>3
<1>11. CASE CommandCrash
  BY <1>1, <1>11 DEF CommandCrash, Faulty, confVars, dataVars, CommandInv
<1>12. CASE Reset
  BY <1>1, <1>12 DEF Reset, confVars, CommandInv
<1>13. CASE CommandTick
  BY <1>1, <1>13 DEF CommandTick, ConfTick, dataVars, CommandInv
<1> QED
  BY <1>2, <1>3, <1>4, <1>6, <1>7, <1>8, <1>9, <1>10, <1>11, <1>12, <1>13 DEF CommandNext

LEMMA NoneIsNoToken == \A n \in Nat : None \notin 1..n
BY CommandAssumption

\* A receipt stays in one hand, and what is answered is in none.
LEMMA HandStep ==
    ASSUME CommandInv, [ConfNext]_confVars, [CommandNext]_commandVars
    PROVE  InOneHand' /\ OneDeedPerReceipt'
<1> USE DEF CommandInv
<1>0. /\ minted \in Nat /\ None \notin 1..minted
      /\ closing \subseteq 1..minted /\ cut \subseteq 1..minted
      /\ answers \subseteq (1..minted) \X Answers
  BY NoneIsNoToken DEF CommandTypeOK, ConfInvariant, ConfTypeOK
<1>1. acted \subseteq acted' /\ chat \subseteq chat'
  <2>1. acted \subseteq acted'
    BY ReceiptsGrow
  <2>2. chat \subseteq chat'
    BY DEF CommandNext, commandVars, Remember, Talk, AskForget, AskClose, Prompt, Press, Deed, Forget,
           BeginClose, FindClosed, DeedFails, Close, FindSummary, CloseFails, NoticeFails, EndClose,
           CommandCrash, Reset, CommandTick
  <2> QED BY <2>1, <2>2
<1>2. \A t : Told(t) => Told(t)'
  BY <1>1 DEF Told
<1>3. CASE /\ UNCHANGED <<loop, closing, cut, answers>>
           /\ loop # None => loop \in DOMAIN conf'
  <2>1. InOneHand'
    BY <1>2, <1>3 DEF InOneHand
  <2>2. OneDeedPerReceipt'
    BY <1>1, <1>3 DEF OneDeedPerReceipt
  <2> QED BY <2>1, <2>2
<1>4. CASE UNCHANGED commandVars
  BY <1>3, <1>4 DEF commandVars, confVars, InOneHand
<1>5. CASE Talk \/ AskClose \/ Reset \/ CommandTick \/ (\E i : Remember(i)) \/ (\E id : AskForget(id))
  <2>1. UNCHANGED <<loop, closing, cut, answers>>
    BY <1>5 DEF Talk, AskClose, Reset, CommandTick, Remember, AskForget, Prompt
  <2>2. loop # None => loop \in DOMAIN conf'
    BY <1>5 DEF Talk, AskClose, Reset, CommandTick, ConfTick, Remember, AskForget, Prompt, LoopIdle,
                confVars, InOneHand
  <2> QED BY <1>3, <2>1, <2>2
<1>6. ASSUME NEW t \in 1..minted, NEW d \in Decisions, Press(t, d)
      PROVE  InOneHand' /\ OneDeedPerReceipt'
  <2>1. /\ loop = None /\ UNCHANGED <<closing, cut, answers>>
        /\ t \in chat /\ chat' = chat /\ acted' = acted \cup {<<t, d>>}
        /\ loop' = IF Acts(t, d) THEN t ELSE None
    BY <1>6 DEF Press, LoopIdle, Resolve
  <2>2. CASE ~Acts(t, d)
    BY <1>1, <1>2, <1>3, <2>1, <2>2
  <2>3. CASE Acts(t, d)
    <3>1. /\ d = "confirmed" /\ t \in DOMAIN conf'
          /\ \A e : <<t, e>> \notin acted
      BY <1>6, <2>3, FirstIsFresh DEF Acts, IsFirst, IsReplay, Press, Resolve
    <3>2. t \notin closing /\ t \notin cut /\ \A x \in answers : x[1] # t
      BY <3>1 DEF InOneHand, OneDeedPerReceipt, Told
    <3>3. Told(t)'
      BY <2>1, <3>1 DEF Told
    <3>4. loop' = t
      BY <2>1, <2>3
    <3>5. InOneHand'
      BY <1>2, <2>1, <3>1, <3>2, <3>3, <3>4 DEF InOneHand
    <3>6. OneDeedPerReceipt'
      BY <1>1, <2>1, <3>2, <3>4 DEF OneDeedPerReceipt
    <3> QED BY <3>5, <3>6
  <2> QED BY <2>2, <2>3
<1>7. ASSUME NEW t, NEW a,
             (t = loop /\ loop # None) \/ t \in closing,
             Answer(t, a),
             closing' = closing \ {t},
             loop' = (IF t = loop THEN None ELSE loop),
             cut' = cut, conf' = conf
      PROVE  InOneHand' /\ OneDeedPerReceipt'
  <2>1. Told(t) /\ t \notin cut /\ (t = loop => t \notin closing) /\ t # None
    <3>1. CASE t = loop /\ loop # None
      BY <3>1 DEF InOneHand
    <3>2. CASE t \in closing
      BY <1>0, <3>2 DEF InOneHand
    <3> QED BY <1>7, <3>1, <3>2
  <2>2. \A x \in answers : x[1] # t
    BY <1>7 DEF OneDeedPerReceipt
  <2>3. answers' = answers \cup {<<t, a>>} /\ <<t, a>>[1] = t
    BY <1>7 DEF Answer
  <2>4. InOneHand'
    BY <1>2, <1>7, <2>1 DEF InOneHand
  <2>5. OneDeedPerReceipt'
    <3>1. \A x \in answers : x[1] # None /\ x[1] # t
      BY <1>0, <2>2
    <3>2. \A x \in answers : x[1] \notin closing' \cup cut' \cup {loop'}
      BY <1>7, <3>1 DEF OneDeedPerReceipt
    <3>3. t \notin closing' \cup cut' \cup {loop'}
      BY <1>7, <2>1
    <3>4. <<t, "confirmed">> \in acted' /\ t \in chat'
      BY <1>2, <2>1 DEF Told
    <3> QED BY <1>1, <2>2, <2>3, <3>2, <3>3, <3>4 DEF OneDeedPerReceipt
  <2> QED BY <2>4, <2>5
<1>8. CASE Forget \/ DeedFails \/ FindClosed
  <2>1. PICK a : Answer(loop, a)
    BY <1>8 DEF Forget, DeedFails, FindClosed
  <2>2. /\ loop # None /\ loop' = None /\ UNCHANGED <<closing, cut, conf>>
    BY <1>8 DEF Forget, DeedFails, FindClosed, Pending, confVars
  <2>3. closing' = closing \ {loop}
    BY <2>2 DEF InOneHand
  <2> QED BY <1>7, <2>1, <2>2, <2>3
<1>9. CASE BeginClose
  <2>1. /\ loop # None /\ loop' = None /\ closing' = closing \cup {loop}
        /\ UNCHANGED <<cut, answers, conf>>
    BY <1>9 DEF BeginClose, Pending, confVars
  <2>2. InOneHand'
    BY <1>2, <2>1 DEF InOneHand
  <2>3. OneDeedPerReceipt'
    BY <1>1, <2>1, <1>0 DEF OneDeedPerReceipt, InOneHand, CommandTypeOK
  <2> QED BY <2>2, <2>3
<1>10. ASSUME NEW t \in closing, Close(t) \/ FindSummary(t) \/ CloseFails(t)
       PROVE  InOneHand' /\ OneDeedPerReceipt'
  <2>1. PICK a : Answer(t, a)
    BY <1>10 DEF Close, FindSummary, CloseFails, EndClose
  <2>2. /\ closing' = closing \ {t} /\ UNCHANGED <<loop, cut, conf>>
    BY <1>10 DEF Close, FindSummary, CloseFails, EndClose, confVars
  <2>3. t # loop
    BY <1>0 DEF InOneHand, CommandTypeOK
  <2> QED BY <1>7, <2>1, <2>2, <2>3
<1>11. ASSUME NEW t \in closing, NoticeFails(t)
       PROVE  InOneHand' /\ OneDeedPerReceipt'
  <2>1. /\ closing' = closing \ {t} /\ cut' = cut \cup {t}
        /\ UNCHANGED <<loop, answers, conf>>
    BY <1>11 DEF NoticeFails, confVars
  <2>2. t # loop
    BY <1>0 DEF InOneHand, CommandTypeOK
  <2>3. InOneHand'
    BY <1>2, <2>1, <2>2 DEF InOneHand
  <2>4. OneDeedPerReceipt'
    BY <1>1, <2>1 DEF OneDeedPerReceipt
  <2> QED BY <2>3, <2>4
<1>12. CASE CommandCrash
  <2>1. /\ cut' = cut \cup closing \cup (IF loop = None THEN {} ELSE {loop})
        /\ loop' = None /\ closing' = {} /\ answers' = answers
    BY <1>12 DEF CommandCrash
  <2>2. InOneHand'
    BY <1>2, <2>1 DEF InOneHand
  <2>3. OneDeedPerReceipt'
    BY <1>1, <2>1, <1>0 DEF OneDeedPerReceipt, CommandTypeOK
  <2> QED BY <2>2, <2>3
<1> QED
  BY <1>4, <1>5, <1>6, <1>8, <1>9, <1>10, <1>11, <1>12 DEF CommandNext, Deed

\* A record that is gone does not come back, and a receipt that would find the
\* record it showed finds it under its own id.
LEMMA RecordStep ==
    ASSUME CommandInv, CommandTypeOK', [ConfNext]_confVars, [CommandNext]_commandVars
    PROVE  RecordsApart' /\ ForgottenIsGone'
<1> USE DEF CommandInv
<1>0. /\ minted \in Nat /\ made \in Nat /\ DOMAIN conf \subseteq 1..minted
      /\ \A i \in DOMAIN memory : memory[i] \in Nat /\ memory[i] <= made
      /\ \A t \in 1..minted : shown[t] \in Nat
      /\ answers \subseteq (1..minted) \X Answers
  BY DEF CommandTypeOK, ConfInvariant, ConfTypeOK
<1>1. CASE /\ UNCHANGED <<made, answers, shown>>
           /\ memory' = memory \/ memory' = [i \in {} |-> 0]
           /\ DOMAIN conf' \subseteq DOMAIN conf
           /\ \A t \in DOMAIN conf' : conf'[t].action = conf[t].action
  <2>1. DOMAIN memory' \subseteq DOMAIN memory /\ \A i \in DOMAIN memory' : memory'[i] = memory[i]
    BY <1>1
  <2>2. Records' \subseteq Records
    BY <2>1 DEF Records
  <2>3. RecordsApart'
    BY <1>1, <2>1 DEF RecordsApart
  <2>4. ForgottenIsGone'
    BY <1>1, <2>2 DEF ForgottenIsGone
  <2> QED BY <2>3, <2>4
<1>2. CASE UNCHANGED commandVars
  BY <1>1, <1>2 DEF commandVars, dataVars, confVars
<1>3. CASE Talk \/ BeginClose \/ CommandCrash \/ Reset \/ CommandTick
  BY <1>1, <1>3 DEF Talk, BeginClose, CommandCrash, Reset, CommandTick, ConfTick, confVars, dataVars
<1>4. ASSUME NEW t \in 1..minted, NEW d \in Decisions, Press(t, d)
      PROVE  RecordsApart' /\ ForgottenIsGone'
  <2>1. /\ DOMAIN conf' = DOMAIN conf
        /\ \A u \in DOMAIN conf : conf'[u].action = conf[u].action
    <3>1. conf \in [DOMAIN conf -> Receipt]
      BY DEF ConfInvariant, ConfTypeOK
    <3> QED BY <1>4, <3>1 DEF Press, Resolve, IsFirst, Receipt
  <2> QED BY <1>1, <1>4, <2>1 DEF Press, dataVars
<1>5. ASSUME NEW i \in 1..MaxRecords, Remember(i)
      PROVE  RecordsApart' /\ ForgottenIsGone'
  <2>1. /\ made' = made + 1 /\ i \notin DOMAIN memory
        /\ memory' = [j \in DOMAIN memory \cup {i} |-> IF j = i THEN made + 1 ELSE memory[j]]
        /\ UNCHANGED <<conf, shown, answers>>
    <3>1. \A j \in DOMAIN memory : j < i
      BY <1>5 DEF Remember, IsNextId
    <3> QED BY <1>5, <3>1 DEF Remember, confVars
  <2>2. /\ DOMAIN memory' = DOMAIN memory \cup {i} /\ memory'[i] = made + 1
        /\ \A j \in DOMAIN memory : memory'[j] = memory[j]
    BY <2>1
  <2>3. \A t \in DOMAIN conf : conf[t].action.type = "forget_memory" => shown[t] # made + 1
    BY <1>0 DEF RecordsApart
  <2>4. Records' = Records \cup {made + 1}
    BY <2>2 DEF Records
  <2>5. \A x \in answers : x[2] \in {"deleted", "already_deleted"} => shown[x[1]] # made + 1
    <3>1. \A x \in answers : shown[x[1]] \in Nat
      BY <1>0
    <3> QED BY <1>0, <3>1 DEF RecordsApart
  <2>6. RecordsApart'
    <3>1. \A j, k \in DOMAIN memory' : memory'[j] = memory'[k] => j = k
      <4>1. \A j \in DOMAIN memory : memory'[j] # made + 1
        BY <1>0, <2>2
      <4> QED BY <2>2, <4>1 DEF RecordsApart
    <3>2. \A t \in DOMAIN conf' : conf'[t].action.type = "forget_memory" =>
             /\ shown'[t] <= made'
             /\ \A j \in DOMAIN memory' : memory'[j] = shown'[t] => j = conf'[t].action.id
      BY <1>0, <2>1, <2>2, <2>3 DEF RecordsApart
    <3>3. \A x \in answers' : x[2] \in {"deleted", "already_deleted"} => shown'[x[1]] <= made'
      <4>1. \A x \in answers : shown[x[1]] \in Nat
        BY <1>0
      <4> QED BY <1>0, <2>1, <4>1 DEF RecordsApart
    <3> QED BY <3>1, <3>2, <3>3 DEF RecordsApart
  <2>7. ForgottenIsGone'
    BY <2>1, <2>4, <2>5 DEF ForgottenIsGone
  <2> QED BY <2>6, <2>7
<1>6. ASSUME NEW type, NEW id, NEW what, Prompt(type, id, what),
             type = "forget_memory" => id \in DOMAIN memory /\ what = memory[id]
      PROVE  RecordsApart' /\ ForgottenIsGone'
  <2> DEFINE new == minted + 1
  <2>1. /\ minted' = new /\ new \notin 1..minted
        /\ UNCHANGED <<made, memory, answers>>
        /\ shown' = [t \in 1..minted' |-> IF t = minted' THEN what ELSE shown[t]]
    BY <1>0, <1>6 DEF Prompt, Create, dataVars
  <2>2. /\ new \in 1..minted' /\ shown'[new] = what
        /\ \A t \in 1..minted : shown'[t] = shown[t]
    BY <1>0, <2>1
  <2>3. \A t \in DOMAIN conf' :
           \/ t \in DOMAIN conf /\ conf'[t] = conf[t]
           \/ t = new /\ conf'[t].action = [type |-> type, id |-> id]
    BY <1>6 DEF Prompt, Create, Live
  <2> HIDE DEF new
  <2>4. RecordsApart'
    <3>1. \A j, k \in DOMAIN memory' : memory'[j] = memory'[k] => j = k
      BY <2>1 DEF RecordsApart
    <3>2. ASSUME NEW t \in DOMAIN conf', conf'[t].action.type = "forget_memory"
          PROVE  /\ shown'[t] <= made'
                 /\ \A j \in DOMAIN memory' : memory'[j] = shown'[t] => j = conf'[t].action.id
      <4>1. CASE t \in DOMAIN conf /\ conf'[t] = conf[t]
        <5>1. shown'[t] = shown[t]
          BY <1>0, <2>2, <4>1
        <5> QED BY <2>1, <3>2, <4>1, <5>1 DEF RecordsApart
      <4>2. CASE t = new /\ conf'[t].action = [type |-> type, id |-> id]
        <5>1. id \in DOMAIN memory /\ shown'[t] = memory[id] /\ conf'[t].action.id = id
          BY <1>6, <2>2, <3>2, <4>2
        <5> QED BY ZenonT(30), <1>0, <2>1, <5>1 DEF RecordsApart
      <4> QED BY <2>3, <4>1, <4>2
    <3>3. \A x \in answers' : x[2] \in {"deleted", "already_deleted"} => shown'[x[1]] <= made'
      <4>1. \A x \in answers : shown'[x[1]] = shown[x[1]]
        BY <1>0, <2>2
      <4> QED BY <2>1, <4>1 DEF RecordsApart
    <3> QED BY <3>1, <3>2, <3>3 DEF RecordsApart
  <2>5. ForgottenIsGone'
    <3>1. \A x \in answers : shown'[x[1]] = shown[x[1]]
      BY <1>0, <2>2
    <3>2. Records' = Records
      BY <2>1 DEF Records
    <3> QED BY <2>1, <3>1, <3>2 DEF ForgottenIsGone
  <2> QED BY <2>4, <2>5
<1>7. ASSUME NEW id \in DOMAIN memory, AskForget(id)
      PROVE  RecordsApart' /\ ForgottenIsGone'
  BY <1>6, <1>7 DEF AskForget
<1>8. CASE AskClose
  BY <1>6, <1>8 DEF AskClose
<1>9. ASSUME NEW t, NEW a, Answer(t, a), a \notin {"deleted", "already_deleted"},
             UNCHANGED <<made, memory, shown, conf>>
      PROVE  RecordsApart' /\ ForgottenIsGone'
  <2>1. \A x \in answers' : x \in answers \/ x[2] \notin {"deleted", "already_deleted"}
    BY <1>9 DEF Answer
  <2>2. RecordsApart'
    BY <1>9, <2>1 DEF RecordsApart
  <2>3. ForgottenIsGone'
    BY <1>9, <2>1 DEF ForgottenIsGone, Records
  <2> QED BY <2>2, <2>3
<1>10. CASE Forget
  <2> DEFINE t == loop
  <2>1. /\ t \in DOMAIN conf /\ conf[t].action.type = "forget_memory"
        /\ memory' = [i \in DOMAIN memory \ {conf[t].action.id} |-> memory[i]]
        /\ UNCHANGED <<made, shown, conf>>
    BY <1>10 DEF Forget, Pending, Target, confVars
  <2>2. PICK a : answers' = answers \cup {<<t, a>>}
    BY <1>10 DEF Forget, Answer
  <2> HIDE DEF t
  <2>3. DOMAIN memory' \subseteq DOMAIN memory /\ \A i \in DOMAIN memory' : memory'[i] = memory[i]
    BY <2>1
  <2>4. shown[t] <= made /\ shown[t] \notin Records'
    <3>1. \A i \in DOMAIN memory : memory[i] = shown[t] => i = conf[t].action.id
      BY <2>1 DEF RecordsApart
    <3>2. conf[t].action.id \notin DOMAIN memory'
      BY <2>1
    <3> QED BY <2>1, <2>3, <3>1, <3>2 DEF RecordsApart, Records
  <2>5. RecordsApart'
    BY <2>1, <2>2, <2>3, <2>4 DEF RecordsApart
  <2>6. ForgottenIsGone'
    <3>1. Records' \subseteq Records
      BY <2>3 DEF Records
    <3> QED BY <2>1, <2>2, <2>4, <3>1 DEF ForgottenIsGone
  <2> QED BY <2>5, <2>6
<1>11. CASE DeedFails
  <2>1. PICK a : Answer(loop, a) /\ a \notin {"deleted", "already_deleted"}
    BY <1>11 DEF DeedFails
  <2> QED BY <1>9, <1>11, <2>1 DEF DeedFails, confVars, dataVars
<1>12. CASE FindClosed
  BY <1>9, <1>12 DEF FindClosed, confVars, dataVars
<1>13. ASSUME NEW t \in closing, Close(t) \/ FindSummary(t) \/ CloseFails(t)
       PROVE  RecordsApart' /\ ForgottenIsGone'
  <2>1. PICK a \in {"closed", "failed"} : EndClose(t, a)
    BY <1>13 DEF Close, FindSummary, CloseFails
  <2> QED BY <1>9, <2>1 DEF EndClose, confVars
<1>14. ASSUME NEW t \in closing, NoticeFails(t)
       PROVE  RecordsApart' /\ ForgottenIsGone'
  BY <1>1, <1>14 DEF NoticeFails, confVars, dataVars
<1> QED
  BY <1>2, <1>3, <1>4, <1>5, <1>7, <1>8, <1>10, <1>11, <1>12, <1>13, <1>14 DEF CommandNext, Deed

-----------------------------------------------------------------------------
(* Theorems *)

LEMMA CommandInitially == CommandInit => CommandInv
<1> SUFFICES ASSUME CommandInit PROVE CommandInv
  OBVIOUS
<1> USE ConfirmationAssumption, CommandAssumption DEF CommandInit, ConfInit
<1>1. ConfInvariant
  BY DEF ConfInvariant, ConfTypeOK, OneDecision, Receipt
<1>2. CommandTypeOK
  BY DEF CommandTypeOK, ConfTypeOK, Receipt
<1>3. InOneHand /\ RecordsApart
  BY DEF InOneHand, RecordsApart
<1>4. OneDeedPerReceipt /\ ForgottenIsGone
  BY DEF OneDeedPerReceipt, ForgottenIsGone
<1> QED BY <1>1, <1>2, <1>3, <1>4 DEF CommandInv

LEMMA CommandStep ==
    ASSUME CommandInv, [CommandNext]_commandVars
    PROVE  CommandInv' /\ [ConfNext]_confVars
<1>1. [ConfNext]_confVars
  BY ReceiptStep DEF CommandInv
<1>2. ConfInvariant'
  BY <1>1, ConfStep DEF CommandInv
<1>3. CommandTypeOK'
  BY <1>2, CommandTypes
<1> QED BY <1>1, <1>2, <1>3, HandStep, RecordStep DEF CommandInv

\* The invariant holds in every reachable state of every instance.
THEOREM CommandsAreSafe == CommandSpec => []CommandInv
BY CommandInitially, CommandStep, PTL DEF CommandSpec

\* The commands are one user of the receipts: whatever is proved of the receipts
\* with the most general callers holds here.
THEOREM CommandsUseReceipts == CommandSpec => ConfSpec
<1>1. CommandInit => ConfInit
  BY DEF CommandInit
<1> QED BY <1>1, CommandsAreSafe, CommandStep, PTL DEF CommandSpec, ConfSpec

\* The handlers are told one decision per token, however late a button is pressed.
THEOREM ToldOneDecision == CommandSpec => []OneDecision
BY CommandsUseReceipts, ReceiptsAreSafe, PTL DEF ConfInvariant

\* A stored decision stays as long as its receipt.
THEOREM StoredDecisionStays == CommandSpec => DecisionIsFinal
BY CommandsUseReceipts, ReceiptsAreFinal, PTL

\* One receipt, one deed, after the owner's confirmation of a prompt that arrived.
THEOREM DeedsAreSingle == CommandSpec => []OneDeedPerReceipt
BY CommandsAreSafe, PTL DEF CommandInv

\* After an answer that says so, the record the prompt showed is gone for ever.
THEOREM ForgottenForEver == CommandSpec => []ForgottenIsGone
BY CommandsAreSafe, PTL DEF CommandInv

\* A session ends by a confirmed prompt that named it, or by a reset.
THEOREM ClosedAsAsked == CommandSpec => ClosesWhatWasAsked
<1>1. ASSUME CommandInv, [CommandNext]_commandVars
      PROVE  [active # None /\ active' # active =>
                \/ epoch' # epoch
                \/ \E t \in closing : shown[t] = active /\ <<t, "confirmed">> \in acted]_commandVars
  <2>1. SUFFICES ASSUME active # None, active' # active, CommandNext
                 PROVE  \/ epoch' # epoch
                        \/ \E t \in closing : shown[t] = active /\ <<t, "confirmed">> \in acted
    BY <1>1 DEF commandVars, dataVars
  <2>2. CASE Reset
    <3>1. epoch \in Nat
      BY <1>1 DEF CommandInv, CommandTypeOK
    <3> QED BY <2>2, <3>1 DEF Reset
  <2>3. CASE \E t \in closing : Close(t)
    BY <1>1, <2>3 DEF Close, CommandInv, InOneHand, Told
  <2> QED
    BY <2>1, <2>2, <2>3
       DEF CommandNext, Remember, Talk, AskForget, AskClose, Prompt, Press, Deed, Forget,
           BeginClose, FindClosed, DeedFails, FindSummary, CloseFails, NoticeFails,
           CommandCrash, CommandTick, dataVars
<1> QED BY <1>1, CommandsAreSafe, PTL DEF CommandSpec, ClosesWhatWasAsked
=============================================================================
