-------------------------- MODULE ConfirmGateProofs --------------------------
(***************************************************************************)
(* MessageEngine implements ConfirmGate as long as nobody sends a command  *)
(* along with a login.  The hypothesis is needed: such a command runs      *)
(* outside messageMutex, and the run engine_double_confirm shows what      *)
(* follows.  Under it handlers are serialised, a confirmation lets one     *)
(* command through, and never_reply_to is honoured.                        *)
(***************************************************************************)
EXTENDS MessageEngineProofs, FiniteSetTheorems

\* The hypothesis: a login that verifies brings no command with it.
NoLoginCommands == \A x \in Messages : x.login = "good" => x.form = "blank"

\* Inductive: no message that is queued or being handled came in as a login.
NoLoginRuns ==
  \A m \in Ids : pc[m] \notin {"new", "done"} => msg[m].login # "good"

\* A login without a command is answered and never reaches a handler.
LEMMA NoLoginStep ==
  ASSUME NoLoginCommands
  PROVE  TypeOK /\ NoLoginRuns /\ [Next]_vars => NoLoginRuns'
<1> SUFFICES ASSUME TypeOK, NoLoginRuns, [Next]_vars PROVE NoLoginRuns'
  OBVIOUS
<1>1. ASSUME NEW m \in Ids, Receive(m) PROVE NoLoginRuns'
  <2>1. msg[m].login = "good" => msg[m].form = "blank"
    BY DEF NoLoginCommands, TypeOK
  <2>2. /\ msg' = msg
        /\ \/ pc' = [pc EXCEPT ![m] = "done"]
           \/ pc' = [pc EXCEPT ![m] = "queued"] /\ msg[m].login # "good"
    BY <1>1, <2>1 DEF Receive, ReceivePaused, ReceiveLogin, ReceiveBadLogin,
                      ReceiveOther, Finish, Goto
  <2> QED BY <2>2 DEF NoLoginRuns, TypeOK
<1>2. ASSUME NEW m \in Ids, Acquire(m) PROVE NoLoginRuns'
  BY <1>2 DEF Acquire, NoLoginRuns, TypeOK
<1>3. ASSUME NEW m \in Ids, HandlerMove(m) PROVE NoLoginRuns'
  BY <1>3 DEF HandlerMove, NoLoginRuns, Running, TypeOK
<1>4. CASE Tick \/ SetPaused \/ UNCHANGED vars
  BY <1>4 DEF Tick, SetPaused, vars, NoLoginRuns
<1> QED BY <1>1, <1>2, <1>3, <1>4, StepMoves DEF Next, Handle

\* Who runs without a login holds the mutex, and the mutex has one holder.
LEMMA AtMostOneRuns ==
  ASSUME MutexInv, NoLoginRuns
  PROVE  \A m, n \in Running : m = n
<1>1. \A m \in Running : holder = {m}
  BY DEF MutexInv, NoLoginRuns, Running
<1> QED BY <1>1

\* Without login commands messageMutex does what its comment says: at most one
\* handler runs at a time.
THEOREM HandlersSerialised ==
  ASSUME NoLoginCommands
  PROVE  Spec => []OneHandlerAtATime
<1>1. Init => MutexInv /\ NoLoginRuns
  BY DEF Init, MutexInv, NoLoginRuns, Running
<1>2. TypeOK /\ MutexInv /\ NoLoginRuns /\ [Next]_vars => MutexInv' /\ NoLoginRuns'
  BY MutexStep, NoLoginStep
<1>3. MutexInv /\ NoLoginRuns => OneHandlerAtATime
  <2> SUFFICES ASSUME MutexInv, NoLoginRuns PROVE Cardinality(Running) <= 1
    BY DEF OneHandlerAtATime
  <2>1. CASE Running = {}
    BY <2>1, FS_EmptySet
  <2>2. ASSUME NEW m \in Running PROVE Cardinality(Running) <= 1
    <3>1. Running = {m} BY AtMostOneRuns
    <3> QED BY <3>1, FS_Singleton
  <2> QED BY <2>1, <2>2
<1> QED BY <1>1, <1>2, <1>3, TypeCorrect, PTL DEF Spec

-----------------------------------------------------------------------------
(* The slot *)

\* The command that is pending, as a number.
Taken(s, c) == IF pending[s] = c THEN 1 ELSE 0

\* Inductive: whoever has read the pending command still finds it there, and
\* the armings cover what was let through and what is still pending.
SlotInv ==
  /\ \A m \in Ids : pc[m] = "consume" => pending[msg[m].sender] = msg[m].cmd
  /\ \A s \in Senders, c \in Commands : released[s][c] + Taken(s, c) <= armed[s][c]

\* A handler's step arms a command, lets one through, or leaves the gate alone.
LEMMA GateSteps ==
  ASSUME [Next]_vars
  PROVE  \/ \E m \in Ids : ArmDestructive(m) \/ ConsumePending(m)
         \/ UNCHANGED <<pending, armed, released>>
BY DEF Next, Receive, Handle, AdminStep, PublicStep, HandlerError, CheckConfirm,
       ToggleChannels, ShowChannels, QuickAction, AskModel, Interpreted,
       ChatReplied, LookUpContact, SendDraft, ReceivePaused, ReceiveLogin,
       ReceiveBadLogin, ReceiveOther, Acquire, Tick, SetPaused, vars

\* Only the handler's own first half brings it between the two.
LEMMA IntoConsume ==
  ASSUME TypeOK, [Next]_vars, NEW m \in Ids, pc'[m] = "consume"
  PROVE  /\ msg' = msg
         /\ \/ pc[m] = "consume"
            \/ CheckConfirm(m) /\ pending[msg[m].sender] = msg[m].cmd
<1>0. msg' = msg
  BY DEF Next, Receive, Handle, AdminStep, PublicStep, HandlerError,
     CheckConfirm,
         ConsumePending, ArmDestructive, ToggleChannels, ShowChannels, QuickAction,
         AskModel, Interpreted, ChatReplied, LookUpContact, SendDraft,
         ReceivePaused, ReceiveLogin, ReceiveBadLogin, ReceiveOther, Acquire, Tick,
         SetPaused, vars
<1>2. ASSUME NEW n \in Ids, Receive(n) PROVE pc[m] = "consume"
  <2>1. \E ph \in {"done", "queued", "admin"} : pc' = [pc EXCEPT ![n] = ph]
    BY <1>2 DEF Receive, ReceivePaused, ReceiveLogin, ReceiveBadLogin,
                ReceiveOther, Finish, Goto
  <2> QED BY <2>1 DEF TypeOK
<1>3. ASSUME NEW n \in Ids, Acquire(n) PROVE pc[m] = "consume"
  BY <1>3 DEF Acquire, TypeOK
<1>4. ASSUME NEW n \in Ids, HandlerMove(n), n # m PROVE pc[m] = "consume"
  BY <1>4 DEF HandlerMove, TypeOK
<1>5. ASSUME AdminStep(m) \/ PublicStep(m) \/ HandlerError(m), ~CheckConfirm(m)
      PROVE  FALSE
  <2>1. pc'[m] \in {"confirmed", "interpret", "chatting", "drafting", "done"}
    BY <1>5 DEF AdminStep, PublicStep, HandlerError, ConsumePending,
         ArmDestructive, ToggleChannels, ShowChannels, QuickAction, AskModel,
         Interpreted, ChatReplied, LookUpContact, SendDraft, RunAction, Goto,
         Finish, TypeOK
  <2> QED BY <2>1
<1>6. CASE CheckConfirm(m)
  BY <1>6 DEF CheckConfirm, Finish, TypeOK
<1>7. CASE Tick \/ SetPaused \/ UNCHANGED vars
  BY <1>7 DEF Tick, SetPaused, vars
<1> QED BY <1>0, <1>2, <1>3, <1>4, <1>5, <1>6, <1>7, StepMoves DEF Next, Handle

\* No other handler empties or refills the slot between look-up and removal.
LEMMA SlotStep ==
  ASSUME TypeOK, MutexInv, NoLoginRuns, SlotInv, [Next]_vars
  PROVE  SlotInv'
<1> USE EngineAssumption
<1>0. \A m \in Ids : msg[m].sender \in Senders /\ msg[m].cmd \in Commands
  BY DEF TypeOK, MessageType
<1>1. CASE UNCHANGED <<pending, armed, released>>
  <2>1. \A m \in Ids : pc'[m] = "consume" => pending'[msg'[m].sender] = msg'[m].cmd
    BY <1>1, IntoConsume DEF SlotInv
  <2> QED BY <1>1, <2>1 DEF SlotInv, Taken
<1>2. ASSUME NEW n \in Ids, pc[n] \in {"admin", "consume"}, pc'[n] # "consume"
      PROVE  \A m \in Ids : pc'[m] # "consume"
  <2> SUFFICES ASSUME NEW m \in Ids, pc'[m] = "consume", m # n PROVE FALSE
    BY <1>2
  <2>1. m \in Running
    BY IntoConsume DEF Running, CheckConfirm
  <2>2. n \in Running
    BY <1>2 DEF Running
  <2> QED BY <2>1, <2>2, AtMostOneRuns
<1>3. ASSUME NEW n \in Ids, ArmDestructive(n) PROVE SlotInv'
  <2>1. pc[n] = "admin" /\ pc'[n] = "done"
    BY <1>3 DEF ArmDestructive, Finish, TypeOK
  <2>2. \A m \in Ids : pc'[m] # "consume" BY <1>2, <2>1
  <2>3. ASSUME NEW s \in Senders, NEW c \in Commands
        PROVE  (released[s][c] + Taken(s, c) <= armed[s][c])'
    <3>1. /\ released[s][c] \in Nat /\ armed[s][c] \in Nat
          /\ released[s][c] + Taken(s, c) <= armed[s][c]
      BY DEF TypeOK, SlotInv
    <3>2. released' = released /\ Taken(s, c) \in {0, 1} /\ Taken(s, c)' \in {0, 1}
      BY <1>3 DEF ArmDestructive, Taken
    <3>3. CASE s = msg[n].sender /\ c = msg[n].cmd
      <4>1. armed'[s][c] = armed[s][c] + 1
        BY <1>0, <1>3, <3>3 DEF ArmDestructive, TypeOK
      <4> QED BY <3>1, <3>2, <4>1
    <3>4. CASE ~(s = msg[n].sender /\ c = msg[n].cmd)
      <4>1. armed'[s][c] = armed[s][c]
        BY <1>0, <1>3, <3>4 DEF ArmDestructive, TypeOK
      <4>2. pending'[s] = c => pending[s] = c
        BY <1>0, <1>3, <3>4 DEF ArmDestructive, TypeOK
      <4> QED BY <3>1, <3>2, <4>1, <4>2 DEF Taken
    <3> QED BY <3>3, <3>4
  <2> QED BY <2>2, <2>3 DEF SlotInv
<1>4. ASSUME NEW n \in Ids, ConsumePending(n) PROVE SlotInv'
  <2>1. pc[n] = "consume" /\ pc'[n] = "confirmed"
    BY <1>4 DEF ConsumePending, Goto, TypeOK
  <2>2. \A m \in Ids : pc'[m] # "consume" BY <1>2, <2>1
  <2>3. pending[msg[n].sender] = msg[n].cmd BY <2>1 DEF SlotInv
  <2>4. ASSUME NEW s \in Senders, NEW c \in Commands
        PROVE  (released[s][c] + Taken(s, c) <= armed[s][c])'
    <3>1. /\ released[s][c] \in Nat /\ armed[s][c] \in Nat /\ armed' = armed
          /\ released[s][c] + Taken(s, c) <= armed[s][c]
      BY <1>4 DEF TypeOK, SlotInv, ConsumePending
    <3>2. Taken(s, c) \in {0, 1} /\ Taken(s, c)' \in {0, 1}
      BY DEF Taken
    <3>3. CASE s = msg[n].sender
      <4>1. pending'[s] = NoCommand
        BY <1>0, <1>4, <3>3 DEF ConsumePending, TypeOK
      <4>2. Taken(s, c)' = 0 BY <4>1 DEF Taken
      <4>3. released'[s][c] = released[s][c] + Taken(s, c)
        BY <1>0, <1>4, <2>3, <3>1, <3>3 DEF ConsumePending, Taken, TypeOK
      <4> QED BY <3>1, <3>2, <4>2, <4>3
    <3>4. CASE s # msg[n].sender
      <4>1. released'[s] = released[s] /\ pending'[s] = pending[s]
        BY <1>0, <1>4, <3>4 DEF ConsumePending, TypeOK
      <4> QED BY <3>1, <4>1 DEF Taken
    <3> QED BY <3>3, <3>4
  <2> QED BY <2>2, <2>4 DEF SlotInv
<1> QED BY <1>1, <1>3, <1>4, GateSteps

\* The three invariants together, each of which the next one needs.
GateInv == MutexInv /\ NoLoginRuns /\ SlotInv

\* They hold in every state when no login brings a command.
LEMMA GateInvariant ==
  ASSUME NoLoginCommands
  PROVE  Spec => [](TypeOK /\ GateInv)
<1>1. Init => GateInv
  BY EngineAssumption
     DEF Init, GateInv, MutexInv, NoLoginRuns, SlotInv, Taken, Running
<1>2. TypeOK /\ GateInv /\ [Next]_vars => GateInv'
  BY MutexStep, NoLoginStep, SlotStep DEF GateInv
<1> QED BY <1>1, <1>2, TypeCorrect, PTL DEF Spec

\* Without login commands every "confirm:" that lets a command through uses up
\* one warning: nothing is executed twice for one arming.
THEOREM ConfirmedOnce ==
  ASSUME NoLoginCommands
  PROVE  Spec => []ReleasedOncePerArming
<1>1. TypeOK /\ GateInv => ReleasedOncePerArming
  <2> SUFFICES ASSUME TypeOK, GateInv, NEW s \in Senders, NEW c \in Commands
               PROVE  released[s][c] <= armed[s][c]
    BY DEF ReleasedOncePerArming
  <2>1. released[s][c] \in Nat /\ armed[s][c] \in Nat BY DEF TypeOK
  <2>2. Taken(s, c) \in {0, 1} BY DEF Taken
  <2>3. released[s][c] + Taken(s, c) <= armed[s][c] BY DEF GateInv, SlotInv
  <2> QED BY <2>1, <2>2, <2>3
<1> QED BY <1>1, GateInvariant, PTL

\* Without login commands the confirmation of destructive commands, with its
\* mutex, its queue and its two-step consume, is the abstract gate.
THEOREM EngineImplementsGate ==
  ASSUME NoLoginCommands
  PROVE  Spec => GateSpec
<1> USE EngineAssumption
<1>1. Init => Gate!Init
  BY DEF Init, Gate!Init
<1>2. TypeOK /\ GateInv /\ [Next]_vars => [Gate!Next]_(Gate!gateVars)
  <2> SUFFICES ASSUME TypeOK, GateInv, [Next]_vars
               PROVE  Gate!Next \/ UNCHANGED <<pending, armed, released>>
    BY DEF Gate!gateVars
  <2>0. \A m \in Ids : msg[m].sender \in Senders /\ msg[m].cmd \in Commands
    BY DEF TypeOK, MessageType
  <2>1. ASSUME NEW m \in Ids, ArmDestructive(m) PROVE Gate!Next
    <3>1. Gate!Arm(msg[m].sender, msg[m].cmd)
      BY <2>1 DEF ArmDestructive, Gate!Arm
    <3> QED BY <2>0, <3>1 DEF Gate!Next
  <2>2. ASSUME NEW m \in Ids, ConsumePending(m) PROVE Gate!Next
    <3>1. pending[msg[m].sender] = msg[m].cmd
      BY <2>2 DEF GateInv, SlotInv, ConsumePending
    <3>2. Gate!Release(msg[m].sender, msg[m].cmd)
      BY <2>2, <3>1 DEF ConsumePending, Gate!Release
    <3> QED BY <2>0, <3>2 DEF Gate!Next
  <2> QED BY <2>1, <2>2, GateSteps
<1> QED BY <1>1, <1>2, GateInvariant, PTL DEF Spec, GateSpec, Gate!Spec

-----------------------------------------------------------------------------
(* never_reply_to *)

\* Inductive: a reply is being drafted only for somebody the rules allow to be
\* answered.
DraftInv == \A m \in Ids : pc[m] = "drafting" => behavior[msg[m].sender] # "NEVER"

\* The rules change under the mutex, where no other handler has a draft.
LEMMA DraftStep ==
  ASSUME TypeOK, MutexInv, NoLoginRuns, DraftInv, [Next]_vars
  PROVE  DraftInv'
<1>1. ASSUME NEW n \in Ids, Receive(n) PROVE DraftInv'
  <2>1. /\ UNCHANGED <<msg, behavior>>
        /\ \E ph \in {"done", "queued", "admin"} : pc' = [pc EXCEPT ![n] = ph]
    BY <1>1
       DEF Receive, ReceivePaused, ReceiveLogin, ReceiveBadLogin,
           ReceiveOther, Finish, Goto
  <2> QED BY <2>1 DEF DraftInv, TypeOK
<1>2. ASSUME NEW n \in Ids, Acquire(n) PROVE DraftInv'
  BY <1>2 DEF Acquire, DraftInv, TypeOK
<1>3. ASSUME NEW n \in Ids, HandlerMove(n), pc'[n] # "drafting" PROVE DraftInv'
  <2>1. ASSUME NEW m \in Ids PROVE pc'[m] # "drafting"
    <3>1. CASE m = n
      BY <1>3, <3>1
    <3>2. CASE m # n
      <4>1. pc'[m] = pc[m] /\ n \in Running
        BY <1>3, <3>2 DEF HandlerMove, TypeOK
      <4>2. pc[m] = "drafting" => m \in Running
        BY DEF Running
      <4> QED BY <3>2, <4>1, <4>2, AtMostOneRuns
    <3> QED BY <3>1, <3>2
  <2> QED BY <2>1 DEF DraftInv
<1>4. ASSUME NEW n \in Ids, LookUpContact(n), pc'[n] = "drafting" PROVE DraftInv'
  <2>1. HandlerMove(n)
    BY <1>4, StepMoves DEF PublicStep
  <2>2. ASSUME NEW m \in Ids, pc'[m] = "drafting" PROVE m = n
    <3>1. CASE m # n
      <4>1. m \in Running /\ n \in Running
        BY <2>1, <2>2, <3>1 DEF HandlerMove, TypeOK, Running
      <4> QED BY <3>1, <4>1, AtMostOneRuns
    <3> QED BY <3>1
  <2>3. behavior'[msg[n].sender] # "NEVER" /\ msg' = msg
    <3>1. "done" # "drafting" /\ \A told : Finish(n, told) => pc'[n] = "done"
      BY DEF Finish, TypeOK
    <3> QED BY <1>4, <3>1 DEF LookUpContact
  <2> QED BY <2>2, <2>3 DEF DraftInv
<1>5. ASSUME NEW n \in Ids, AdminStep(n) \/ SendDraft(n) \/ HandlerError(n)
      PROVE  HandlerMove(n) /\ pc'[n] # "drafting"
  <2>1. HandlerMove(n)
    BY <1>5, StepMoves DEF PublicStep
  <2>2. \E ph \in Phases \ {"drafting"} : pc' = [pc EXCEPT ![n] = ph]
    BY <1>5
       DEF AdminStep, CheckConfirm, ConsumePending, ArmDestructive,
           ToggleChannels,
       ShowChannels, QuickAction, AskModel, Interpreted, ChatReplied, RunAction, SendDraft,
       HandlerError, Goto, Finish, Phases
  <2> QED BY <2>1, <2>2 DEF TypeOK
<1>6. CASE Tick \/ SetPaused \/ UNCHANGED vars
  BY <1>6 DEF Tick, SetPaused, vars, DraftInv
<1>7. ASSUME NEW n \in Ids, LookUpContact(n) PROVE HandlerMove(n)
  BY <1>7, StepMoves DEF PublicStep
<1> QED BY <1>1, <1>2, <1>3, <1>4, <1>5, <1>6, <1>7 DEF Next, Handle, PublicStep

\* An automatic reply goes out at the end of a draft and nowhere else.
LEMMA RepliesAreDrafts ==
  ASSUME TypeOK, [Next]_vars, NEW m \in Ids,
         outcome'[m] = "auto_replied", outcome[m] = "none"
  PROVE  pc[m] = "drafting"
<1>1. ASSUME NEW n \in Ids, NEW told \in Outcomes \ {"auto_replied"},
             Finish(n, told) \/ outcome' = outcome
      PROVE  outcome'[m] # "auto_replied"
  BY <1>1 DEF Finish, TypeOK
<1>2. ASSUME NEW n \in Ids, Receive(n) PROVE FALSE
  BY <1>1, <1>2
     DEF Receive, ReceivePaused, ReceiveLogin, ReceiveBadLogin, ReceiveOther,
         Goto,
     Outcomes
<1>3. ASSUME NEW n \in Ids, AdminStep(n) PROVE FALSE
  BY <1>1, <1>3
     DEF AdminStep, CheckConfirm, ConsumePending, ArmDestructive,
         ToggleChannels,
     ShowChannels, QuickAction, AskModel, Interpreted, ChatReplied, RunAction, Goto, Outcomes
<1>4. ASSUME NEW n \in Ids, LookUpContact(n) PROVE FALSE
  <2>1. Finish(n, "skipped") \/ Goto(n, "drafting") \/ Finish(n, "new_message")
    BY <1>4 DEF LookUpContact
  <2> QED BY <1>1, <2>1 DEF Goto, Outcomes
<1>5. ASSUME NEW n \in Ids, SendDraft(n) PROVE pc[m] = "drafting"
  <2>1. n = m
    BY <1>5 DEF SendDraft, Finish, TypeOK
  <2> QED BY <1>5, <2>1 DEF SendDraft
<1>6. ASSUME NEW n \in Ids, HandlerError(n) \/ Acquire(n) PROVE FALSE
  BY <1>1, <1>6 DEF HandlerError, Acquire, Outcomes
<1>7. CASE Tick \/ SetPaused \/ UNCHANGED vars
  BY <1>7 DEF Tick, SetPaused, vars
<1> QED BY <1>2, <1>3, <1>4, <1>5, <1>6, <1>7 DEF Next, Handle, PublicStep

\* "Will never reply to ...": without login commands no automatic reply goes out to
\* a contact after that, not even one that was being drafted when the owner's
\* command arrived: the command waits for messageMutex until the draft is sent.
THEOREM NeverHonoured ==
  ASSUME NoLoginCommands
  PROVE  Spec => NeverIsHonoured
<1>1. Init => MutexInv /\ NoLoginRuns /\ DraftInv
  BY DEF Init, MutexInv, NoLoginRuns, Running, DraftInv
<1>2. TypeOK /\ MutexInv /\ NoLoginRuns /\ DraftInv /\ [Next]_vars
        => MutexInv' /\ NoLoginRuns' /\ DraftInv'
  BY MutexStep, NoLoginStep, DraftStep
<1>3. TypeOK /\ DraftInv /\ [Next]_vars =>
        [\A m \in Ids : outcome'[m] = "auto_replied" /\ outcome[m] = "none" =>
           behavior[msg[m].sender] # "NEVER"]_vars
  BY RepliesAreDrafts DEF DraftInv
<1> QED BY <1>1, <1>2, <1>3, TypeCorrect, PTL DEF Spec, NeverIsHonoured
=============================================================================
