------------------------- MODULE MessageEngineProofs -------------------------
(***************************************************************************)
(* Proofs about MessageEngine, for any messages, senders and commands.     *)
(*                                                                         *)
(* Type correctness comes first; the exclusion of queued handlers, the     *)
(* authentication of every administrator and the confirmation of every     *)
(* destructive command each rest on an inductive invariant of their own,   *)
(* proved on top of the types.                                             *)
(***************************************************************************)
EXTENDS MessageEngine, TLAPS

-----------------------------------------------------------------------------
(* Types *)

\* The rules an executed action leaves behind are reply behaviours again.
LEMMA RulesType ==
  ASSUME behavior \in [Senders -> Behaviors], NEW r, NEW synced
  PROVE  Rules(r, synced) \in [Senders -> Behaviors]
<1>1. CASE r.action = "never_reply_to" /\ r.target \in Senders
  BY <1>1 DEF Rules, Behaviors
<1>2. CASE r.action = "always_reply_to" /\ r.target \in Senders
  BY <1>2 DEF Rules, Behaviors
<1>3. CASE r.action = "sync_contacts"
  BY <1>3 DEF Rules, Behaviors
<1>4. CASE /\ ~(r.action = "never_reply_to" /\ r.target \in Senders)
           /\ ~(r.action = "always_reply_to" /\ r.target \in Senders)
           /\ r.action # "sync_contacts"
  BY <1>4 DEF Rules
<1> QED BY <1>1, <1>2, <1>3, <1>4

\* One message's handler moves: the three variables Goto and Finish write.
ControlOK ==
  /\ pc \in [Ids -> Phases]
  /\ holder \subseteq Ids
  /\ outcome \in [Ids -> Outcomes]

\* Goto keeps them in their types.
LEMMA GotoType ==
  ASSUME ControlOK, NEW m \in Ids, NEW phase \in Phases, Goto(m, phase)
  PROVE  ControlOK'
BY DEF ControlOK, Goto

\* So does Finish.
LEMMA FinishType ==
  ASSUME ControlOK, NEW m \in Ids, NEW told \in Outcomes, Finish(m, told)
  PROVE  ControlOK'
BY DEF ControlOK, Finish, Phases

\* So does an action, which may also change the reply rules.
LEMMA RunActionType ==
  ASSUME ControlOK, behavior \in [Senders -> Behaviors],
         NEW m \in Ids, NEW r, RunAction(m, r)
  PROVE  ControlOK' /\ behavior' \in [Senders -> Behaviors]
<1>1. CASE Finish(m, "blocked") /\ UNCHANGED behavior
  BY <1>1, FinishType DEF Outcomes
<1>2. CASE Goto(m, "chatting") /\ UNCHANGED behavior
  BY <1>2, GotoType DEF Phases
<1>3. CASE Finish(m, "executed") /\ UNCHANGED behavior
  BY <1>3, FinishType DEF Outcomes
<1>4. CASE /\ \E synced \in SUBSET Senders : behavior' = Rules(r, synced)
           /\ Finish(m, "executed")
  BY <1>4, FinishType, RulesType DEF Outcomes
<1> QED BY <1>1, <1>2, <1>3, <1>4 DEF RunAction

\* A session that just started, and none at all, are values of session.
LEMMA SessionValues == 0 \in -1..Timeout /\ NoSession \in -1..Timeout
<1>1. Timeout \in Nat BY EngineAssumption
<1> QED BY <1>1 DEF NoSession

\* The state of a fresh process.
LEMMA InitType == Init => TypeOK
<1> SUFFICES ASSUME Init PROVE TypeOK
  OBVIOUS
<1>1. session \in [Senders -> -1..Timeout]
  BY SessionValues DEF Init
<1>2. behavior \in [Senders -> Behaviors]
  BY DEF Init, Behaviors
<1> QED BY <1>1, <1>2 DEF Init, TypeOK, Phases, Outcomes

\* Every step of the model keeps every variable in its type.
LEMMA StepType == TypeOK /\ [Next]_vars => TypeOK'
<1> SUFFICES ASSUME TypeOK, [Next]_vars PROVE TypeOK'
  OBVIOUS
<1> USE EngineAssumption
<1>0. ControlOK BY DEF TypeOK, ControlOK
<1>c. ASSUME ControlOK',
             UNCHANGED <<msg, channels, behavior, paused, armed, released>>,
             trusted' \subseteq Ids, loggedIn' \subseteq Senders,
             session' \in [Senders -> -1..Timeout],
             pending' \in [Senders -> Commands \cup {NoCommand}]
      PROVE  TypeOK'
  BY <1>c DEF TypeOK, ControlOK
<1>m. ASSUME NEW m \in Ids
      PROVE  /\ msg[m] \in MessageType
             /\ msg[m].sender \in Senders /\ msg[m].cmd \in Commands
  BY <1>m DEF TypeOK, MessageType
<1>1. ASSUME NEW m \in Ids, ReceivePaused(m) PROVE TypeOK'
  BY <1>0, <1>1, <1>c, FinishType DEF ReceivePaused, TypeOK, Outcomes
<1>2. ASSUME NEW m \in Ids, ReceiveLogin(m) PROVE TypeOK'
  <2>1. ControlOK'
    BY <1>0, <1>2, FinishType, GotoType DEF ReceiveLogin, Outcomes, Phases
  <2>2. session' \in [Senders -> -1..Timeout]
    BY <1>2, SessionValues DEF ReceiveLogin, TypeOK
  <2> QED BY <1>2, <1>c, <1>m, <2>1, <2>2 DEF ReceiveLogin, TypeOK
<1>3. ASSUME NEW m \in Ids, ReceiveBadLogin(m) PROVE TypeOK'
  BY <1>0, <1>3, <1>c, FinishType DEF ReceiveBadLogin, TypeOK, Outcomes
<1>4. ASSUME NEW m \in Ids, ReceiveOther(m) PROVE TypeOK'
  <2>1. ControlOK'
    BY <1>0, <1>4, GotoType DEF ReceiveOther, Phases
  <2>2. session' \in [Senders -> -1..Timeout]
    BY <1>4, SessionValues DEF ReceiveOther, TouchSession, TypeOK
  <2>3. trusted' \subseteq Ids
    BY <1>4 DEF ReceiveOther, TypeOK
  <2> QED BY <1>4, <1>c, <2>1, <2>2, <2>3 DEF ReceiveOther, TypeOK
<1>5. ASSUME NEW m \in Ids, Acquire(m) PROVE TypeOK'
  BY <1>5 DEF Acquire, TypeOK, Phases
<1>6. ASSUME NEW m \in Ids, CheckConfirm(m) PROVE TypeOK'
  <2>1. ControlOK'
    BY <1>0, <1>6, FinishType, GotoType DEF CheckConfirm, Outcomes, Phases
  <2> QED BY <1>6, <1>c, <2>1 DEF CheckConfirm, TypeOK
<1>7. ASSUME NEW m \in Ids, ConsumePending(m) PROVE TypeOK'
  <2>1. ControlOK'
    BY <1>0, <1>7, GotoType DEF ConsumePending, Phases
  <2>2. released' \in [Senders -> [Commands -> Nat]]
    BY <1>7, <1>m DEF ConsumePending, TypeOK
  <2>3. pending' \in [Senders -> Commands \cup {NoCommand}]
    BY <1>7, <1>m DEF ConsumePending, TypeOK
  <2> QED BY <1>7, <2>1, <2>2, <2>3 DEF ConsumePending, TypeOK, ControlOK
<1>8. ASSUME NEW m \in Ids, ArmDestructive(m) PROVE TypeOK'
  <2>1. ControlOK'
    BY <1>0, <1>8, FinishType DEF ArmDestructive, Outcomes
  <2>2. armed' \in [Senders -> [Commands -> Nat]]
    BY <1>8, <1>m DEF ArmDestructive, TypeOK
  <2>3. pending' \in [Senders -> Commands \cup {NoCommand}]
    BY <1>8, <1>m DEF ArmDestructive, TypeOK
  <2> QED BY <1>8, <2>1, <2>2, <2>3 DEF ArmDestructive, TypeOK, ControlOK
<1>9. ASSUME NEW m \in Ids, ToggleChannels(m) PROVE TypeOK'
  <2>1. ControlOK'
    BY <1>0, <1>9, FinishType DEF ToggleChannels, Outcomes
  <2>2. Reading[msg[m].cmd] \in ReadingType /\ Reading[msg[m].cmd].kind = "toggle"
    BY <1>9, <1>m DEF ToggleChannels, Dispatching
  <2>3. Reading[msg[m].cmd].on \in BOOLEAN
    BY <2>2 DEF ReadingType
  <2>4. channels' \in [Channels -> BOOLEAN]
    BY <1>9, <2>3 DEF ToggleChannels, TypeOK
  <2> QED BY <1>9, <2>1, <2>4 DEF ToggleChannels, TypeOK, ControlOK
<1>10. ASSUME NEW m \in Ids, ShowChannels(m) PROVE TypeOK'
  BY <1>0, <1>10, <1>c, FinishType DEF ShowChannels, TypeOK, Outcomes
<1>11. ASSUME NEW m \in Ids, QuickAction(m) PROVE TypeOK'
  <2>1. ControlOK' /\ behavior' \in [Senders -> Behaviors]
    BY <1>0, <1>11, RunActionType DEF QuickAction, TypeOK
  <2> QED BY <1>11, <2>1 DEF QuickAction, TypeOK, ControlOK
<1>12. ASSUME NEW m \in Ids, AskModel(m) PROVE TypeOK'
  <2>1. ControlOK'
    BY <1>0, <1>12, GotoType DEF AskModel, Phases
  <2> QED BY <1>12, <1>c, <2>1 DEF AskModel, TypeOK
<1>13. ASSUME NEW m \in Ids, Interpreted(m) PROVE TypeOK'
  <2>1. ControlOK' /\ behavior' \in [Senders -> Behaviors]
    BY <1>0, <1>13, RunActionType DEF Interpreted, TypeOK
  <2> QED BY <1>13, <2>1 DEF Interpreted, TypeOK, ControlOK
<1>14. ASSUME NEW m \in Ids, ChatReplied(m) PROVE TypeOK'
  BY <1>0, <1>14, <1>c, FinishType DEF ChatReplied, TypeOK, Outcomes
<1>15. ASSUME NEW m \in Ids, LookUpContact(m) PROVE TypeOK'
  <2>1. behavior' \in [Senders -> Behaviors]
    BY <1>15, <1>m DEF LookUpContact, TypeOK, Behaviors
  <2>2. ControlOK'
    <3>1. \/ Finish(m, "skipped") \/ Goto(m, "drafting")
          \/ Finish(m, "new_message")
      BY <1>15 DEF LookUpContact
    <3> QED BY <1>0, <3>1, FinishType, GotoType DEF Outcomes, Phases
  <2> QED BY <1>15, <2>1, <2>2 DEF LookUpContact, TypeOK, ControlOK
<1>16. ASSUME NEW m \in Ids, SendDraft(m) PROVE TypeOK'
  <2>1. ControlOK'
    BY <1>0, <1>16, FinishType DEF SendDraft, Outcomes
  <2> QED BY <1>16, <1>c, <2>1 DEF SendDraft, TypeOK
<1>17. ASSUME NEW m \in Ids, HandlerError(m) PROVE TypeOK'
  BY <1>0, <1>17, <1>c, FinishType DEF HandlerError, TypeOK, Outcomes
<1>18. CASE Tick
  BY <1>18 DEF Tick, TypeOK
<1>19. CASE SetPaused
  BY <1>19 DEF SetPaused, TypeOK
<1>20. CASE UNCHANGED vars
  BY <1>20 DEF vars, TypeOK
<1> QED
  BY <1>1, <1>2, <1>3, <1>4, <1>5, <1>6, <1>7, <1>8, <1>9, <1>10, <1>11,
     <1>12, <1>13, <1>14, <1>15, <1>16, <1>17, <1>18, <1>19, <1>20
     DEF Next, Receive, Handle, AdminStep, PublicStep

\* The state of the engine, of the sessions, of the pending confirmations and
\* of the contact rules keeps its types in every behaviour of onMessageReceived
\* and the handlers.
THEOREM TypeCorrect == Spec => []TypeOK
<1>1. Init => TypeOK BY InitType
<1>2. TypeOK /\ [Next]_vars => TypeOK' BY StepType
<1> QED BY <1>1, <1>2, PTL DEF Spec

-----------------------------------------------------------------------------
(* How a handler moves *)

\* The steps of the administrator's handler.
AdminPhases == {"admin", "consume", "confirmed", "interpret", "chatting"}

\* What the steps inside a handler have in common: they are steps of a running
\* handler, which stays running and keeps the mutex, or returns and gives it
\* back; a public handler never becomes an administrator's.
HandlerMove(m) ==
  /\ m \in Running
  /\ \E ph \in Phases \ {"new", "queued"} : pc' = [pc EXCEPT ![m] = ph]
  /\ pc'[m] = "done" => holder' = holder \ {m}
  /\ pc'[m] # "done" => holder' = holder /\ outcome' = outcome
  /\ \E told \in Outcomes \ {"none"} :
       outcome' \in {outcome, [outcome EXCEPT ![m] = told]}
  /\ pc'[m] \in AdminPhases => pc[m] \in AdminPhases
  /\ UNCHANGED <<msg, trusted, session, paused, loggedIn>>

\* Goto is such a move.
LEMMA GotoMoves ==
  ASSUME TypeOK, NEW m \in Running, NEW ph \in Phases \ {"new", "queued", "done"},
         ph \in AdminPhases => pc[m] \in AdminPhases,
         Goto(m, ph), UNCHANGED <<msg, trusted, session, paused, loggedIn>>
  PROVE  HandlerMove(m)
<1>1. m \in Ids BY DEF Running
<1>2. pc' = [pc EXCEPT ![m] = ph] /\ pc'[m] = ph
  BY <1>1 DEF Goto, TypeOK
<1>3. "ignored" \in Outcomes \ {"none"} BY DEF Outcomes
<1>4. outcome' \in {outcome, [outcome EXCEPT ![m] = "ignored"]}
  BY DEF Goto
<1> QED BY <1>2, <1>3, <1>4 DEF HandlerMove, Goto

\* Finish is one that returns.
LEMMA FinishMoves ==
  ASSUME TypeOK, NEW m \in Running, NEW told \in Outcomes \ {"none"},
         Finish(m, told), UNCHANGED <<msg, trusted, session, paused, loggedIn>>
  PROVE  HandlerMove(m)
<1>1. m \in Ids BY DEF Running
<1>2. pc' = [pc EXCEPT ![m] = "done"] /\ pc'[m] = "done"
  BY <1>1 DEF Finish, TypeOK
<1>3. "done" \in Phases \ {"new", "queued"} /\ "done" \notin AdminPhases
  BY DEF Phases, AdminPhases
<1>4. outcome' \in {outcome, [outcome EXCEPT ![m] = told]}
  BY DEF Finish
<1> QED BY <1>2, <1>3, <1>4 DEF HandlerMove, Finish

\* Every step of a handler is such a move.
LEMMA StepMoves ==
  ASSUME TypeOK, NEW m \in Ids, AdminStep(m) \/ PublicStep(m) \/ HandlerError(m)
  PROVE  HandlerMove(m)
<1>1. m \in Running
  BY DEF AdminStep, PublicStep, HandlerError, CheckConfirm, ConsumePending,
         ArmDestructive, ToggleChannels, ShowChannels, QuickAction, AskModel,
         Interpreted, ChatReplied, LookUpContact, SendDraft, Dispatching, Running
<1>a. ASSUME NEW r, pc[m] \in AdminPhases, RunAction(m, r),
             UNCHANGED <<msg, trusted, session, paused, loggedIn>>
      PROVE  HandlerMove(m)
  BY <1>1, <1>a, GotoMoves, FinishMoves DEF RunAction, Phases, Outcomes, AdminPhases
<1>2. CASE CheckConfirm(m)
  BY <1>1, <1>2, GotoMoves, FinishMoves
     DEF CheckConfirm, Phases, Outcomes, AdminPhases
<1>3. CASE ConsumePending(m)
  BY <1>1, <1>3, GotoMoves DEF ConsumePending, Phases, AdminPhases
<1>4. CASE ArmDestructive(m)
  BY <1>1, <1>4, FinishMoves DEF ArmDestructive, Outcomes
<1>5. CASE ToggleChannels(m)
  BY <1>1, <1>5, FinishMoves DEF ToggleChannels, Outcomes
<1>6. CASE ShowChannels(m)
  BY <1>1, <1>6, FinishMoves DEF ShowChannels, Outcomes
<1>7. CASE QuickAction(m)
  BY <1>7, <1>a DEF QuickAction, Dispatching, AdminPhases
<1>8. CASE AskModel(m)
  BY <1>1, <1>8, GotoMoves DEF AskModel, Dispatching, Phases, AdminPhases
<1>9. CASE Interpreted(m)
  BY <1>9, <1>a DEF Interpreted, AdminPhases
<1>10. CASE ChatReplied(m)
  BY <1>1, <1>10, FinishMoves DEF ChatReplied, Outcomes
<1>11. CASE LookUpContact(m)
  <2>1. \/ Finish(m, "skipped") \/ Goto(m, "drafting") \/ Finish(m, "new_message")
    BY <1>11 DEF LookUpContact
  <2> QED BY <1>1, <1>11, <2>1, GotoMoves, FinishMoves
          DEF LookUpContact, Phases, Outcomes, AdminPhases
<1>12. CASE SendDraft(m)
  BY <1>1, <1>12, FinishMoves DEF SendDraft, Outcomes
<1>13. CASE HandlerError(m)
  BY <1>1, <1>13, FinishMoves DEF HandlerError, Outcomes
<1> QED
  BY <1>2, <1>3, <1>4, <1>5, <1>6, <1>7, <1>8, <1>9, <1>10, <1>11, <1>12, <1>13
     DEF AdminStep, PublicStep

-----------------------------------------------------------------------------
(* The mutex *)

\* Inductive: a handler that did not come in as a login owns the mutex while
\* it runs.
MutexInv == \A m \in Running : msg[m].login # "good" => holder = {m}

\* Only a handler that finds the mutex free takes it, and only its holder gives it
\* back.
LEMMA MutexStep == TypeOK /\ MutexInv /\ [Next]_vars => MutexInv'
<1> SUFFICES ASSUME TypeOK, MutexInv, [Next]_vars PROVE MutexInv'
  OBVIOUS
<1>1. ASSUME NEW m \in Ids, Receive(m) PROVE MutexInv'
  <2>1. /\ pc[m] = "new" /\ UNCHANGED msg
        /\ \/ pc' = [pc EXCEPT ![m] = "done"] /\ holder' = holder \ {m}
           \/ pc' = [pc EXCEPT ![m] = "queued"] /\ holder' = holder
           \/ /\ pc' = [pc EXCEPT ![m] = "admin"] /\ holder' = holder
              /\ msg[m].login = "good"
    BY <1>1 DEF Receive, ReceivePaused, ReceiveLogin, ReceiveBadLogin,
                ReceiveOther, Arrives, Finish, Goto
  <2> QED BY <2>1 DEF MutexInv, Running, TypeOK
<1>2. ASSUME NEW m \in Ids, Acquire(m) PROVE MutexInv'
  BY <1>2 DEF Acquire, MutexInv, Running, TypeOK
<1>3. ASSUME NEW m \in Ids, HandlerMove(m) PROVE MutexInv'
  BY <1>3 DEF HandlerMove, MutexInv, Running, TypeOK
<1>4. CASE Tick \/ SetPaused \/ UNCHANGED vars
  BY <1>4 DEF Tick, SetPaused, vars, MutexInv, Running
<1> QED BY <1>1, <1>2, <1>3, <1>4, StepMoves DEF Next, Handle

\* Two handlers that run at the same time are not both ones messageMutex
\* serialises: one of them is a login's command, launched without it.
THEOREM QueuedExclusion == Spec => []QueuedHandlersExclude
<1>1. Init => MutexInv BY DEF Init, MutexInv, Running
<1>2. TypeOK /\ MutexInv /\ [Next]_vars => MutexInv' BY MutexStep
<1>3. MutexInv => QueuedHandlersExclude
  BY DEF MutexInv, QueuedHandlersExclude
<1> QED BY <1>1, <1>2, <1>3, TypeCorrect, PTL DEF Spec

-----------------------------------------------------------------------------
(* Authentication *)

\* Whom the code has identified: the owner, or somebody who logged in.
Authenticated == AdminSenders \cup loggedIn

\* Inductive: a session belongs to somebody whose credentials verified, every
\* message judged to be the admin's has an authenticated sender, only such
\* messages are in the admin handler, and only it arms a command.
AuthInv ==
  /\ \A s \in Senders : session[s] # NoSession => s \in loggedIn
  /\ \A m \in trusted : msg[m].sender \in Authenticated
  /\ \A m \in Ids : pc[m] \in AdminPhases => m \in trusted
  /\ \A s \in Senders : pending[s] # NoCommand => s \in Authenticated

\* Only the administrator's handler writes the pending command, and only of its
\* own sender.
LEMMA PendingStep ==
  ASSUME TypeOK, NEW m \in Ids, AdminStep(m) \/ PublicStep(m) \/ HandlerError(m)
  PROVE  \/ pending' = pending
         \/ /\ pc[m] \in AdminPhases
            /\ \E c \in Commands \cup {NoCommand} :
                 pending' = [pending EXCEPT ![msg[m].sender] = c]
<1>1. msg[m].cmd \in Commands BY EngineAssumption DEF TypeOK, MessageType
<1> QED
  BY <1>1 DEF AdminStep, PublicStep, HandlerError, CheckConfirm, ConsumePending,
         ArmDestructive, ToggleChannels, ShowChannels, QuickAction, AskModel,
         Interpreted, ChatReplied, LookUpContact, SendDraft, AdminPhases

\* Who becomes trusted is the owner or has a session, and a session needs a
\* verified login.
LEMMA AuthStep == TypeOK /\ AuthInv /\ [Next]_vars => AuthInv'
<1> SUFFICES ASSUME TypeOK, AuthInv, [Next]_vars PROVE AuthInv'
  OBVIOUS
<1>0. \A m \in Ids : msg[m].sender \in Senders
  BY EngineAssumption DEF TypeOK, MessageType
<1>1. ASSUME NEW m \in Ids, ReceivePaused(m) \/ ReceiveBadLogin(m) PROVE AuthInv'
  BY <1>1 DEF ReceivePaused, ReceiveBadLogin, Finish, AuthInv, Authenticated,
              AdminPhases, TypeOK
<1>2. ASSUME NEW m \in Ids, ReceiveLogin(m) PROVE AuthInv'
  <2>1. \E ph \in {"admin", "done"} : pc' = [pc EXCEPT ![m] = ph]
    BY <1>2 DEF ReceiveLogin, Finish, Goto
  <2>2. \A n \in Ids : pc'[n] \in AdminPhases => n \in trusted'
    BY <1>2, <2>1 DEF ReceiveLogin, AuthInv, AdminPhases, TypeOK
  <2>3. \A s \in Senders : session'[s] # NoSession => s \in loggedIn'
    BY <1>2, <1>0 DEF ReceiveLogin, AuthInv, TypeOK
  <2> QED BY <1>2, <2>2, <2>3 DEF ReceiveLogin, AuthInv, Authenticated
<1>3. ASSUME NEW m \in Ids, ReceiveOther(m) PROVE AuthInv'
  <2>1. pc' = [pc EXCEPT ![m] = "queued"]
    BY <1>3 DEF ReceiveOther, Goto
  <2>2. \A n \in Ids : pc'[n] \in AdminPhases => n \in trusted'
    BY <1>3, <2>1 DEF ReceiveOther, AuthInv, AdminPhases, TypeOK
  <2>3. \A s \in Senders : session'[s] # NoSession => session[s] # NoSession
    BY <1>3, <1>0 DEF ReceiveOther, TouchSession, HasActiveSession, TypeOK
  <2>4. \A n \in trusted' : msg[n].sender \in Authenticated
    BY <1>3, <1>0 DEF ReceiveOther, AuthInv, Authenticated, HasActiveSession
  <2> QED BY <1>3, <2>2, <2>3, <2>4 DEF ReceiveOther, AuthInv, Authenticated
<1>4. ASSUME NEW m \in Ids, Acquire(m) PROVE AuthInv'
  BY <1>4 DEF Acquire, AuthInv, Authenticated, AdminPhases, TypeOK
<1>5. ASSUME NEW m \in Ids, AdminStep(m) \/ PublicStep(m) \/ HandlerError(m)
      PROVE  AuthInv'
  <2>1. HandlerMove(m) BY <1>5, StepMoves
  <2>2. \A n \in Ids : pc'[n] \in AdminPhases => n \in trusted'
    BY <2>1 DEF HandlerMove, AuthInv, TypeOK
  <2>3. \A s \in Senders : pending'[s] # NoCommand => s \in Authenticated
    <3>1. CASE pending' = pending
      BY <3>1 DEF AuthInv
    <3>2. CASE /\ pc[m] \in AdminPhases
               /\ \E c \in Commands \cup {NoCommand} :
                    pending' = [pending EXCEPT ![msg[m].sender] = c]
      <4>1. msg[m].sender \in Authenticated
        BY <3>2 DEF AuthInv
      <4>2. \A s \in Senders : s # msg[m].sender => pending'[s] = pending[s]
        BY <3>2 DEF TypeOK
      <4> QED BY <4>1, <4>2 DEF AuthInv
    <3> QED BY <1>5, <3>1, <3>2, PendingStep
  <2> QED BY <2>1, <2>2, <2>3 DEF HandlerMove, AuthInv, Authenticated
<1>6. CASE Tick
  <2>1. \A s \in Senders : session'[s] # NoSession => session[s] # NoSession
    BY <1>6 DEF Tick, NoSession
  <2> QED BY <1>6, <2>1 DEF Tick, AuthInv, Authenticated
<1>7. CASE SetPaused \/ UNCHANGED vars
  BY <1>7 DEF SetPaused, vars, AuthInv, Authenticated
<1> QED BY <1>1, <1>2, <1>3, <1>4, <1>5, <1>6, <1>7 DEF Next, Receive, Handle

\* Whatever is handled as an administrator's message, and every command that
\* waits for its confirmation, is the admin number's or that of a sender whose
\* credentials authenticate() accepted.
THEOREM AdminAuthentication == Spec => []AdminIsAuthenticated
<1>1. Init => AuthInv
  BY DEF Init, AuthInv, AdminPhases
<1>2. TypeOK /\ AuthInv /\ [Next]_vars => AuthInv' BY AuthStep
<1>3. TypeOK /\ AuthInv => AdminIsAuthenticated
  BY DEF AuthInv, Authenticated, AdminIsAuthenticated, PastGuard, AdminPhases
<1> QED BY <1>1, <1>2, <1>3, TypeCorrect, PTL DEF Spec

-----------------------------------------------------------------------------
(* Confirmation *)

\* The command of message m was confirmed by a message for it, and armed before.
Confirmed(m) ==
  msg[m].form = "confirm" /\ armed[msg[m].sender][msg[m].cmd] > 0

\* A destructive command is acted on for message m.
ActsOnDestructive(m) == PastGuard(m) /\ msg[m].cmd \in Destructive

\* Inductive: what is pending was armed; whoever is between the two halves of
\* consumePendingDestructive saw an armed command; a handler that has not
\* returned has told nothing, and a public handler's message is not trusted.
ConfirmInv ==
  /\ \A s \in Senders : pending[s] # NoCommand => armed[s][pending[s]] > 0
  /\ \A m \in Ids : pc[m] = "consume" => Confirmed(m)
  /\ \A m \in Ids : pc[m] # "done" => outcome[m] = "none"
  /\ \A m \in Ids : pc[m] \in {"public", "drafting"} => m \notin trusted
  /\ \A m \in Ids : ActsOnDestructive(m) => Confirmed(m)

\* armed only grows.
LEMMA ArmedGrows ==
  ASSUME TypeOK, [Next]_vars
  PROVE  \A s \in Senders, c \in Commands : armed[s][c] > 0 => armed'[s][c] > 0
<1>1. CASE armed' = armed
  BY <1>1
<1>2. ASSUME NEW m \in Ids, ArmDestructive(m)
      PROVE  \A s \in Senders, c \in Commands : armed[s][c] > 0 => armed'[s][c] > 0
  <2>1. msg[m].sender \in Senders /\ msg[m].cmd \in Commands
    BY EngineAssumption DEF TypeOK, MessageType
  <2>2. armed' = [armed EXCEPT ![msg[m].sender][msg[m].cmd] = @ + 1]
    BY <1>2 DEF ArmDestructive
  <2> QED BY <2>1, <2>2 DEF TypeOK
<1> QED
  BY <1>1, <1>2 DEF Next, Receive, Handle, AdminStep, PublicStep, HandlerError,
       CheckConfirm, ConsumePending, ToggleChannels, ShowChannels, QuickAction,
       AskModel, Interpreted, ChatReplied, LookUpContact, SendDraft,
       ReceivePaused, ReceiveLogin, ReceiveBadLogin, ReceiveOther, Acquire, Tick,
       SetPaused, vars

\* Message m moved on and every other message stayed where it was.
OnlyMoves(m) ==
  /\ msg' = msg
  /\ \A n \in Ids \ {m} : pc'[n] = pc[n] /\ outcome'[n] = outcome[n]
                            /\ (n \in trusted' <=> n \in trusted)

\* What is left to show of a step that moves one message only.
LEMMA ConfirmFrame ==
  ASSUME TypeOK, ConfirmInv, [Next]_vars, NEW m \in Ids, OnlyMoves(m),
         \A s \in Senders : pending'[s] # NoCommand => armed'[s][pending'[s]] > 0,
         pc'[m] = "consume" => Confirmed(m)',
         pc'[m] # "done" => outcome'[m] = "none",
         pc'[m] \in {"public", "drafting"} => m \notin trusted',
         ActsOnDestructive(m)' => Confirmed(m)'
  PROVE  ConfirmInv'
<1>1. \A n \in Ids : msg[n].sender \in Senders /\ msg[n].cmd \in Commands
  BY EngineAssumption DEF TypeOK, MessageType
<1>2. ASSUME NEW n \in Ids, Confirmed(n) PROVE Confirmed(n)'
  BY <1>1, <1>2, ArmedGrows DEF Confirmed, OnlyMoves
<1>3. ASSUME NEW n \in Ids \ {m}, ActsOnDestructive(n)' PROVE ActsOnDestructive(n)
  BY <1>3 DEF ActsOnDestructive, PastGuard, OnlyMoves
<1> QED BY <1>2, <1>3 DEF ConfirmInv, OnlyMoves

\* A destructive command passes the guard in one place, where a pending one of
\* the same sender has been found.
LEMMA ConfirmStep == TypeOK /\ ConfirmInv /\ [Next]_vars => ConfirmInv'
<1> SUFFICES ASSUME TypeOK, ConfirmInv, [Next]_vars PROVE ConfirmInv'
  OBVIOUS
<1>0. \A m \in Ids : msg[m].sender \in Senders /\ msg[m].cmd \in Commands
  BY EngineAssumption DEF TypeOK, MessageType
<1>g. ASSUME armed' = armed, pending' = pending
      PROVE  \A s \in Senders : pending'[s] # NoCommand => armed'[s][pending'[s]] > 0
  BY <1>g DEF ConfirmInv
<1>1. ASSUME NEW m \in Ids, Receive(m) PROVE ConfirmInv'
  <2>1. /\ pc[m] = "new" /\ armed' = armed /\ pending' = pending /\ msg' = msg
        /\ trusted' \subseteq trusted \cup {m} /\ trusted \subseteq trusted'
        /\ \/ \E ph \in {"queued", "admin"} :
                pc' = [pc EXCEPT ![m] = ph] /\ outcome' = outcome
           \/ /\ pc' = [pc EXCEPT ![m] = "done"]
              /\ \E told \in {"ignored", "ack", "auth_failed"} :
                   outcome' = [outcome EXCEPT ![m] = told]
    BY <1>1 DEF Receive, ReceivePaused, ReceiveLogin, ReceiveBadLogin,
                ReceiveOther, Arrives, Finish, Goto
  <2>2. OnlyMoves(m) BY <2>1 DEF OnlyMoves, TypeOK
  <2>3. outcome[m] = "none" BY <2>1 DEF ConfirmInv
  <2>4. ~ActsOnDestructive(m)'
    BY <2>1, <2>3 DEF ActsOnDestructive, PastGuard, TypeOK
  <2>5. pc'[m] \in {"queued", "admin", "done"}
        /\ (pc'[m] # "done" => outcome'[m] = "none")
    BY <2>1, <2>3 DEF TypeOK
  <2> QED BY <1>g, <2>1, <2>2, <2>4, <2>5, ConfirmFrame
<1>2. ASSUME NEW m \in Ids, Acquire(m) PROVE ConfirmInv'
  <2>1. OnlyMoves(m) BY <1>2 DEF Acquire, OnlyMoves, TypeOK
  <2>2. outcome'[m] = "none" BY <1>2 DEF Acquire, ConfirmInv
  <2>3. pc'[m] = IF m \in trusted THEN "admin" ELSE "public"
    BY <1>2 DEF Acquire, TypeOK
  <2>4. ~ActsOnDestructive(m)'
    BY <2>2, <2>3 DEF ActsOnDestructive, PastGuard
  <2> QED BY <1>2, <1>g, <2>1, <2>2, <2>3, <2>4, ConfirmFrame DEF Acquire
<1>3. ASSUME NEW m \in Ids, AdminStep(m) \/ PublicStep(m) \/ HandlerError(m)
      PROVE  ConfirmInv'
  <2>1. HandlerMove(m) BY <1>3, StepMoves
  <2>2. OnlyMoves(m) BY <2>1 DEF HandlerMove, OnlyMoves, TypeOK
  <2>3. pc'[m] # "done" => outcome'[m] = "none"
    BY <2>1 DEF HandlerMove, ConfirmInv, Running
  <2>4. CASE CheckConfirm(m)
    <3>1. pc'[m] = "consume" => Confirmed(m)'
      BY <1>0, <2>4, EngineAssumption
         DEF CheckConfirm, Finish, Goto, ConfirmInv, Confirmed, TypeOK
    <3>2. pc'[m] \in {"consume", "done"} /\ outcome'[m] \in {"none", "no_match"}
      BY <2>4 DEF CheckConfirm, Finish, Goto, ConfirmInv, TypeOK
    <3>3. ~ActsOnDestructive(m)' BY <3>2 DEF ActsOnDestructive, PastGuard
    <3> QED BY <1>g, <2>2, <2>3, <2>4, <3>1, <3>2, <3>3, ConfirmFrame
            DEF CheckConfirm
  <2>5. CASE ConsumePending(m)
    <3>1. pc'[m] = "confirmed" BY <2>5 DEF ConsumePending, Goto, TypeOK
    <3>2. Confirmed(m)'
      BY <2>5 DEF ConsumePending, ConfirmInv, Confirmed
    <3>3. \A s \in Senders : pending'[s] # NoCommand => armed'[s][pending'[s]] > 0
      BY <1>0, <2>5 DEF ConsumePending, ConfirmInv, TypeOK
    <3> QED BY <2>2, <2>3, <3>1, <3>2, <3>3, ConfirmFrame
  <2>6. CASE ArmDestructive(m)
    <3>1. pc'[m] = "done" /\ outcome'[m] = "warned"
      BY <2>6 DEF ArmDestructive, Finish, TypeOK
    <3>2. ~ActsOnDestructive(m)' BY <3>1 DEF ActsOnDestructive, PastGuard
    <3>3. armed'[msg[m].sender][msg[m].cmd] > 0
      BY <1>0, <2>6 DEF ArmDestructive, TypeOK
    <3>4. \A s \in Senders : pending'[s] # NoCommand => armed'[s][pending'[s]] > 0
      <4> SUFFICES ASSUME NEW s \in Senders, pending'[s] # NoCommand
                   PROVE  armed'[s][pending'[s]] > 0
        OBVIOUS
      <4>1. CASE s = msg[m].sender
        BY <1>0, <2>6, <3>3, <4>1 DEF ArmDestructive, TypeOK
      <4>2. CASE s # msg[m].sender
        BY <1>0, <2>6, <4>2 DEF ArmDestructive, ConfirmInv, TypeOK
      <4> QED BY <4>1, <4>2
    <3> QED BY <2>2, <2>3, <3>1, <3>2, <3>4, ConfirmFrame
  <2>7. CASE \/ ToggleChannels(m) \/ ShowChannels(m) \/ QuickAction(m)
             \/ AskModel(m) \/ Interpreted(m) \/ ChatReplied(m)
    <3>1. \/ \E kind : Dispatching(m, kind)
          \/ pc[m] \in {"interpret", "chatting"}
      BY <2>7 DEF ToggleChannels, ShowChannels, QuickAction, AskModel,
                  Interpreted, ChatReplied
    <3>2. msg[m].cmd \in Destructive => Confirmed(m)
      BY <3>1 DEF Dispatching, ConfirmInv, ActsOnDestructive, PastGuard
    <3>3. armed' = armed /\ pending' = pending
      BY <2>7 DEF ToggleChannels, ShowChannels, QuickAction, AskModel,
                  Interpreted, ChatReplied
    <3>4. ActsOnDestructive(m)' => Confirmed(m)'
      BY <2>2, <3>2, <3>3 DEF ActsOnDestructive, Confirmed, OnlyMoves
    <3>5. pc'[m] \in {"interpret", "chatting", "done"}
      BY <2>7 DEF ToggleChannels, ShowChannels, QuickAction, AskModel,
                  Interpreted, ChatReplied, RunAction, Goto, Finish, TypeOK
    <3> QED BY <1>g, <2>2, <2>3, <3>3, <3>4, <3>5, ConfirmFrame
  <2>8. CASE PublicStep(m)
    <3>1. m \notin trusted'
      BY <2>1, <2>8 DEF PublicStep, LookUpContact, SendDraft, ConfirmInv,
                        HandlerMove
    <3>2. pc'[m] \in {"drafting", "done"}
      BY <2>8 DEF PublicStep, LookUpContact, SendDraft, Goto, Finish, TypeOK
    <3>3. ~ActsOnDestructive(m)'
      BY <3>1, <3>2 DEF ActsOnDestructive, PastGuard
    <3>4. armed' = armed /\ pending' = pending
      BY <2>8 DEF PublicStep, LookUpContact, SendDraft
    <3> QED BY <1>g, <2>2, <2>3, <3>1, <3>2, <3>3, <3>4, ConfirmFrame
  <2>9. CASE HandlerError(m)
    <3>1. pc'[m] = "done" /\ armed' = armed /\ pending' = pending
      BY <2>9 DEF HandlerError, Finish, TypeOK
    <3>2. m \in trusted /\ msg[m].cmd \in Destructive => Confirmed(m)
      BY <2>9 DEF HandlerError, Dispatching, ConfirmInv, ActsOnDestructive,
                  PastGuard
    <3>3. ActsOnDestructive(m)' => Confirmed(m)'
      BY <2>2, <2>1, <3>1, <3>2
         DEF ActsOnDestructive, PastGuard, Confirmed, OnlyMoves, HandlerMove
    <3> QED BY <1>g, <2>2, <2>3, <3>1, <3>3, ConfirmFrame
  <2> QED BY <1>3, <2>4, <2>5, <2>6, <2>7, <2>8, <2>9 DEF AdminStep
<1>4. CASE Tick \/ SetPaused \/ UNCHANGED vars
  BY <1>4 DEF Tick, SetPaused, vars, ConfirmInv, Confirmed, ActsOnDestructive,
              PastGuard
<1> QED BY <1>1, <1>2, <1>3, <1>4 DEF Next, Handle

\* Whenever handleAdminCommand acts on a destructive command, the message is a
\* "confirm:" for it and the same sender had armed it before.
THEOREM DestructiveConfirmed == Spec => []DestructiveNeedsConfirmation
<1>1. Init => ConfirmInv
  BY DEF Init, ConfirmInv, ActsOnDestructive, PastGuard
<1>2. TypeOK /\ ConfirmInv /\ [Next]_vars => ConfirmInv' BY ConfirmStep
<1>3. ConfirmInv => DestructiveNeedsConfirmation
  BY DEF ConfirmInv, ActsOnDestructive, Confirmed, DestructiveNeedsConfirmation
<1> QED BY <1>1, <1>2, <1>3, TypeCorrect, PTL DEF Spec

-----------------------------------------------------------------------------
(* The policy *)

\* The validator returns one of the typed actions for every command.
LEMMA ValidateResult ==
  ASSUME NEW r \in CommandResults
  PROVE  Validate(r) \in Schemas
BY DEF CommandResults, ActionNames, StatusNames, LookupNames, EmailNames,
       BehaviorNames, Validate, Schema, Unknown, Schemas, SchemaTypes

\* The decision matrix of evaluate(), for every action, trust and confidence.
LEMMA EvaluateAllows ==
  ASSUME NEW a \in Schemas, NEW trust \in {"ADMIN", "PUBLIC"}, NEW c \in Int
  PROVE  Evaluate(a, trust, c) = "ALLOW" <=>
           /\ a.type # "Unknown"
           /\ \/ trust = "ADMIN"
              \/ Score(a) = "LOW"
              \/ Score(a) = "MEDIUM" /\ c >= Threshold
BY DEF Evaluate, Schemas

\* More trust or more confidence never turns an ALLOW into a BLOCK.
LEMMA MonotoneAtAnyConfidence ==
  ASSUME NEW r \in CommandResults, NEW trust \in {"ADMIN", "PUBLIC"}, NEW c \in Int,
         Verdict(r, trust, c) = "ALLOW",
         NEW c2 \in Int, c2 >= c, NEW t \in {trust, "ADMIN"}
  PROVE  Verdict(r, t, c2) = "ALLOW"
<1>. DEFINE a == Validate(r)
<1>1. a \in Schemas BY ValidateResult
<1>2. /\ a.type # "Unknown"
      /\ \/ trust = "ADMIN"
         \/ Score(a) = "LOW"
         \/ Score(a) = "MEDIUM" /\ c >= Threshold
  BY <1>1, EvaluateAllows DEF Verdict
<1>3. /\ a.type # "Unknown"
      /\ \/ t = "ADMIN"
         \/ Score(a) = "LOW"
         \/ Score(a) = "MEDIUM" /\ c2 >= Threshold
  BY <1>2 DEF Threshold
<1>4. Evaluate(a, t, c2) = "ALLOW" BY <1>1, <1>3, EvaluateAllows
<1>. QED BY <1>4 DEF Verdict

\* The levels the model tells apart are numbers.
LEMMA ConfidencesAreInts == Confidences \subseteq Int
BY DEF Confidences, Threshold

\* The decision matrix is monotone in trust and in confidence.
THEOREM MonotonePolicy == Spec => []PolicyIsMonotone
<1>1. VerdictIsMonotone
  BY MonotoneAtAnyConfidence, ConfidencesAreInts DEF VerdictIsMonotone
<1>2. PolicyIsMonotone BY <1>1 DEF PolicyIsMonotone
<1>. QED BY <1>2, PTL
=============================================================================
