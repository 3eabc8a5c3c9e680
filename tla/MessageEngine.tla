---------------------------- MODULE MessageEngine ----------------------------
(***************************************************************************)
(* The agent's message pipeline: MessageEngine, the sessions and pending   *)
(* confirmations of AdminAuthManager, the channel switches of              *)
(* ChannelManager and the reply behaviour ContactEngine keeps per contact. *)
(*                                                                         *)
(* One process per message.  onMessageReceived decides, on the caller's    *)
(* thread, whether the message is ignored, is a login, or is queued; a     *)
(* queued message runs its handler under messageMutex, a login that        *)
(* carries a command runs handleAdminCommand without it.  A step ends      *)
(* where the code reads or writes state that another handler may touch,    *)
(* or waits for the model.                                                 *)
(*                                                                         *)
(* What the handlers tell the owner (notify) is outcome[m].                *)
(***************************************************************************)
EXTENDS ActionPolicy, FiniteSets

CONSTANTS
  Ids,             \* the messages that may arrive, one handler each
  Senders,         \* channel keys: phone numbers and e-mail addresses
  AdminSenders,    \* the senders whose last ten digits are adminNumber's
  Channels,        \* ChannelManager.Channel
  Commands,        \* command texts
  NoCommand,
  Destructive,     \* those isDestructiveCommand accepts
  Reading,         \* how each command text reads, see ReadingType
  Messages,        \* the messages the environment may send
  LlmResults,      \* what interpretCommand may return
  Timeout          \* SESSION_TIMEOUT_MS, in ticks

\* How handleAdminCommand reads a text: a channel switch, the channel status,
\* an action the keyword parser knows, a text for the model to interpret, or
\* conversation.
ReadingType ==
  [kind : {"toggle"}, channels : SUBSET Channels, on : BOOLEAN]
    \cup [kind : {"channels", "interpret", "chat"}]
    \cup [kind : {"quick"}, result : CommandResults]

\* login: the body has no credentials, ones that verify, or ones that do not.
MessageType ==
  [sender : Senders, channel : Channels,
   login  : {"none", "good", "bad"},
   form   : {"plain", "confirm", "blank"},
   cmd    : Commands]

ASSUME EngineAssumption ==
  /\ AdminSenders \subseteq Senders
  /\ NoCommand \notin Commands
  /\ Destructive \subseteq Commands
  /\ Reading \in [Commands -> ReadingType]
  /\ Messages \subseteq MessageType
  /\ \A x \in Messages : x.form = "blank" => x.login # "none"
  /\ LlmResults \subseteq CommandResults
  /\ Senders \subseteq Targets
  /\ Timeout \in Nat \ {0}

VARIABLES
  msg,        \* the content of each message
  pc,         \* where each message's handler is
  trusted,    \* the messages onMessageReceived judged to be the admin's
  holder,     \* messageMutex: the message whose handler owns it, or none
  session,    \* activeSessions: ticks since the last use, or NoSession
  pending,    \* pendingDestructiveCommands
  channels,   \* channelState, persisted on every change
  behavior,   \* replyBehavior of each sender's contact, or "absent"
  paused,     \* AigentikSettings.isPaused
  outcome,    \* what the owner was told about each message
  armed,      \* history: how often each sender armed each command
  released,   \* history: how often each confirmed command was let through
  loggedIn    \* history: the senders whose credentials were verified

vars == <<msg, pc, trusted, holder, session, pending, channels, behavior,
          paused, outcome, armed, released, loggedIn>>

NoSession == -1

Phases == {"new", "queued", "admin", "consume", "confirmed",
           "interpret", "chatting", "public", "drafting", "done"}

Behaviors == {"absent", "AUTO", "NEVER", "ALWAYS", "REVIEW"}

Outcomes == {"none", "ignored", "ack", "auth_failed", "no_match", "warned",
             "toggled", "channel_status", "chat", "blocked", "executed",
             "skipped", "auto_replied", "suppressed", "new_message", "error"}

TypeOK ==
  /\ msg \in [Ids -> Messages]
  /\ pc \in [Ids -> Phases]
  /\ trusted \subseteq Ids
  /\ holder \subseteq Ids
  /\ session \in [Senders -> -1..Timeout]
  /\ pending \in [Senders -> Commands \cup {NoCommand}]
  /\ channels \in [Channels -> BOOLEAN]
  /\ behavior \in [Senders -> Behaviors]
  /\ paused \in BOOLEAN
  /\ outcome \in [Ids -> Outcomes]
  /\ armed \in [Senders -> [Commands -> Nat]]
  /\ released \in [Senders -> [Commands -> Nat]]
  /\ loggedIn \subseteq Senders

Init ==
  /\ msg \in [Ids -> Messages]
  /\ pc = [m \in Ids |-> "new"]
  /\ trusted = {}
  /\ holder = {}
  /\ session = [s \in Senders |-> NoSession]
  /\ pending = [s \in Senders |-> NoCommand]
  /\ channels = [c \in Channels |-> TRUE]
  /\ behavior \in [Senders -> {"absent", "REVIEW"}]
  /\ paused = FALSE
  /\ outcome = [m \in Ids |-> "none"]
  /\ armed = [s \in Senders |-> [c \in Commands |-> 0]]
  /\ released = [s \in Senders |-> [c \in Commands |-> 0]]
  /\ loggedIn = {}

-----------------------------------------------------------------------------
(* Moving a handler along. *)

Goto(m, phase) ==
  /\ pc' = [pc EXCEPT ![m] = phase]
  /\ UNCHANGED <<holder, outcome>>

\* The handler returns: withLock releases the mutex if this handler took it.
Finish(m, told) ==
  /\ pc' = [pc EXCEPT ![m] = "done"]
  /\ outcome' = [outcome EXCEPT ![m] = told]
  /\ holder' = holder \ {m}

-----------------------------------------------------------------------------
(* onMessageReceived, on the listener's or the e-mail monitor's thread. *)

\* hasActiveSession: an accepted message restarts the timer, an expired
\* session is removed.  Nothing here touches the pending command.
HasActiveSession(s) == session[s] # NoSession /\ session[s] < Timeout

TouchSession(s) ==
  session' = [session EXCEPT ![s] = IF HasActiveSession(s) THEN 0 ELSE NoSession]

\* The listener and the e-mail monitor drop a message of a switched-off
\* channel before the engine sees it.
Arrives(m) == pc[m] = "new" /\ channels[msg[m].channel]

ReceivePaused(m) ==
  /\ Arrives(m) /\ paused
  /\ Finish(m, "ignored")
  /\ UNCHANGED <<msg, trusted, session, pending, channels, behavior, paused,
                 armed, released, loggedIn>>

\* Credentials that verify: the session starts, and the command, if there is
\* one, is launched at once, outside messageMutex.
ReceiveLogin(m) ==
  /\ Arrives(m) /\ ~paused
  /\ msg[m].login = "good"
  /\ session' = [session EXCEPT ![msg[m].sender] = 0]
  /\ loggedIn' = loggedIn \cup {msg[m].sender}
  /\ trusted' = trusted \cup {m}
  /\ IF msg[m].form = "blank" THEN Finish(m, "ack") ELSE Goto(m, "admin")
  /\ UNCHANGED <<msg, pending, channels, behavior, paused, armed, released>>

\* Mutant: the session is created before the password is verified.
ReceiveBadLoginOpensSession(m) ==
  /\ Arrives(m) /\ ~paused
  /\ msg[m].login = "bad"
  /\ session' = [session EXCEPT ![msg[m].sender] = 0]
  /\ Finish(m, "auth_failed")
  /\ UNCHANGED <<msg, trusted, pending, channels, behavior, paused, armed,
                 released, loggedIn>>

ReceiveBadLogin(m) ==
  /\ Arrives(m) /\ ~paused
  /\ msg[m].login = "bad"
  /\ Finish(m, "auth_failed")
  /\ UNCHANGED <<msg, trusted, session, pending, channels, behavior, paused,
                 armed, released, loggedIn>>

\* No credentials: trust is decided now, before the wait for the mutex.
ReceiveOther(m) ==
  LET s == msg[m].sender IN
  /\ Arrives(m) /\ ~paused
  /\ msg[m].login = "none"
  /\ trusted' = IF HasActiveSession(s) \/ s \in AdminSenders
                THEN trusted \cup {m} ELSE trusted
  /\ TouchSession(s)
  /\ Goto(m, "queued")
  /\ UNCHANGED <<msg, pending, channels, behavior, paused, armed, released,
                 loggedIn>>

\* Mutant: the handler is launched without messageMutex.
AcquireWithoutMutex(m) ==
  /\ pc[m] = "queued"
  /\ holder' = holder \cup {m}
  /\ pc' = [pc EXCEPT ![m] = IF m \in trusted THEN "admin" ELSE "public"]
  /\ UNCHANGED <<msg, trusted, session, pending, channels, behavior, paused,
                 outcome, armed, released, loggedIn>>

\* messageMutex.withLock
Acquire(m) ==
  /\ pc[m] = "queued" /\ holder = {}
  /\ holder' = {m}
  /\ pc' = [pc EXCEPT ![m] = IF m \in trusted THEN "admin" ELSE "public"]
  /\ UNCHANGED <<msg, trusted, session, pending, channels, behavior, paused,
                 outcome, armed, released, loggedIn>>

-----------------------------------------------------------------------------
(* handleAdminCommand *)

\* Mutant: "confirm:" is accepted without comparing it with what is pending.
CheckConfirmBlindly(m) ==
  /\ pc[m] = "admin" /\ msg[m].form = "confirm"
  /\ Goto(m, "consume")
  /\ UNCHANGED <<msg, trusted, session, pending, channels, behavior, paused,
                 armed, released, loggedIn>>

\* "confirm: c", first half of consumePendingDestructive: read and compare.
CheckConfirm(m) ==
  /\ pc[m] = "admin" /\ msg[m].form = "confirm"
  /\ IF pending[msg[m].sender] = msg[m].cmd
     THEN Goto(m, "consume")
     ELSE Finish(m, "no_match")
  /\ UNCHANGED <<msg, trusted, session, pending, channels, behavior, paused,
                 armed, released, loggedIn>>

\* Mutant: the entry is read but not removed.
ConsumeWithoutClearing(m) ==
  /\ pc[m] = "consume"
  /\ released' = [released EXCEPT ![msg[m].sender][msg[m].cmd] = @ + 1]
  /\ Goto(m, "confirmed")
  /\ UNCHANGED <<msg, trusted, session, pending, channels, behavior, paused,
                 armed, loggedIn>>

\* Second half: remove whatever the sender's entry now is, and go on with the
\* command that was read.
ConsumePending(m) ==
  LET s == msg[m].sender
      c == msg[m].cmd IN
  /\ pc[m] = "consume"
  /\ pending' = [pending EXCEPT ![s] = NoCommand]
  /\ released' = [released EXCEPT ![s][c] = @ + 1]
  /\ Goto(m, "confirmed")
  /\ UNCHANGED <<msg, trusted, session, channels, behavior, paused, armed,
                 loggedIn>>

\* The destructive guard: remember the command and ask for confirmation.
ArmDestructive(m) ==
  LET s == msg[m].sender
      c == msg[m].cmd IN
  /\ pc[m] = "admin" /\ msg[m].form = "plain"
  /\ c \in Destructive
  /\ pending' = [pending EXCEPT ![s] = c]
  /\ armed' = [armed EXCEPT ![s][c] = @ + 1]
  /\ Finish(m, "warned")
  /\ UNCHANGED <<msg, trusted, session, channels, behavior, paused, released,
                 loggedIn>>

\* Mutant: the destructive guard does not return.
DispatchingUnguarded(m, kind) ==
  /\ \/ pc[m] = "confirmed"
     \/ pc[m] = "admin" /\ msg[m].form = "plain"
  /\ Reading[msg[m].cmd].kind = kind

\* The handler is past the guard and about to act on the text.
Dispatching(m, kind) ==
  /\ \/ pc[m] = "confirmed"
     \/ pc[m] = "admin" /\ msg[m].form = "plain" /\ msg[m].cmd \notin Destructive
  /\ Reading[msg[m].cmd].kind = kind

ToggleChannels(m) ==
  LET r == Reading[msg[m].cmd] IN
  /\ Dispatching(m, "toggle")
  /\ channels' = [c \in Channels |-> IF c \in r.channels THEN r.on ELSE channels[c]]
  /\ Finish(m, "toggled")
  /\ UNCHANGED <<msg, trusted, session, pending, behavior, paused, armed,
                 released, loggedIn>>

ShowChannels(m) ==
  /\ Dispatching(m, "channels")
  /\ Finish(m, "channel_status")
  /\ UNCHANGED <<msg, trusted, session, pending, channels, behavior, paused,
                 armed, released, loggedIn>>

\* The contact rules after result r was executed.  setInstructions does
\* nothing for an unknown contact; syncing adds contacts, which reply AUTO.
Rules(r, synced) ==
  CASE r.action = "never_reply_to" /\ r.target \in Senders ->
         [behavior EXCEPT ![r.target] = IF @ = "absent" THEN @ ELSE "NEVER"]
    [] r.action = "always_reply_to" /\ r.target \in Senders ->
         [behavior EXCEPT ![r.target] = IF @ = "absent" THEN @ ELSE "ALWAYS"]
    [] r.action = "sync_contacts" ->
         [s \in Senders |-> IF s \in synced /\ behavior[s] = "absent"
                            THEN "AUTO" ELSE behavior[s]]
    [] OTHER -> behavior

\* The policy gate and the dispatch of an action.  The names the validator
\* knows but the dispatch does not, check_status and contact_lookup, end as
\* conversation, or with a hint if the text speaks of e-mail or of sending.
RunAction(m, r) ==
  \/ /\ EvaluateAdmin(r) # "ALLOW"
     /\ Finish(m, "blocked")
     /\ UNCHANGED behavior
  \/ /\ EvaluateAdmin(r) = "ALLOW"
     /\ r.action \in {"check_status", "contact_lookup"}
     /\ Goto(m, "chatting") \/ Finish(m, "executed")
     /\ UNCHANGED behavior
  \/ /\ EvaluateAdmin(r) = "ALLOW"
     /\ r.action \notin {"check_status", "contact_lookup"}
     /\ \E synced \in SUBSET Senders : behavior' = Rules(r, synced)
     /\ Finish(m, "executed")

\* The keyword parser has the answer: no model call.
QuickAction(m) ==
  /\ Dispatching(m, "quick")
  /\ RunAction(m, Reading[msg[m].cmd].result)
  /\ UNCHANGED <<msg, trusted, session, pending, channels, paused, armed,
                 released, loggedIn>>

AskModel(m) ==
  /\ \/ Dispatching(m, "interpret") /\ Goto(m, "interpret")
     \/ Dispatching(m, "chat") /\ Goto(m, "chatting")
  /\ UNCHANGED <<msg, trusted, session, pending, channels, behavior, paused,
                 armed, released, loggedIn>>

Interpreted(m) ==
  /\ pc[m] = "interpret"
  /\ \E r \in LlmResults : RunAction(m, r)
  /\ UNCHANGED <<msg, trusted, session, pending, channels, paused, armed,
                 released, loggedIn>>

ChatReplied(m) ==
  /\ pc[m] = "chatting"
  /\ Finish(m, "chat")
  /\ UNCHANGED <<msg, trusted, session, pending, channels, behavior, paused,
                 armed, released, loggedIn>>

-----------------------------------------------------------------------------
(* handlePublicMessage *)

\* findOrCreateByPhone, then the branch on the contact's reply behaviour.
LookUpContact(m) ==
  LET s == msg[m].sender IN
  /\ pc[m] = "public"
  /\ behavior' = [behavior EXCEPT ![s] = IF @ = "absent" THEN "AUTO" ELSE @]
  /\ CASE behavior'[s] = "NEVER"            -> Finish(m, "skipped")
       [] behavior'[s] \in {"AUTO", "ALWAYS"} -> Goto(m, "drafting")
       [] OTHER                             -> Finish(m, "new_message")
  /\ UNCHANGED <<msg, trusted, session, pending, channels, paused, armed,
                 released, loggedIn>>

\* The draft is ready; the policy engine sees whether it is the fallback text.
\* An allowed draft goes to the reply router, an other one only to the owner.
SendDraft(m) ==
  /\ pc[m] = "drafting"
  /\ \E fallback \in BOOLEAN :
       Finish(m, IF EvaluatePublicReply(fallback) = "ALLOW"
                 THEN "auto_replied" ELSE "suppressed")
  /\ UNCHANGED <<msg, trusted, session, pending, channels, behavior, paused,
                 armed, released, loggedIn>>

-----------------------------------------------------------------------------
(* The part of a handler that touches the database, the network or the model *)
(* is in a try that catches Throwable and tells the owner.                 *)
HandlerError(m) ==
  /\ \/ pc[m] \in {"interpret", "chatting", "public", "drafting"}
     \/ Dispatching(m, "quick")
  /\ Finish(m, "error")
  /\ UNCHANGED <<msg, trusted, session, pending, channels, behavior, paused,
                 armed, released, loggedIn>>

\* The clock: a session that is not used ages.
Tick ==
  /\ \E s \in Senders : session[s] \in 0..(Timeout - 1)
  /\ session' = [s \in Senders |->
                   IF session[s] \in 0..(Timeout - 1) THEN session[s] + 1
                                                      ELSE session[s]]
  /\ UNCHANGED <<msg, pc, trusted, holder, pending, channels, behavior, paused,
                 outcome, armed, released, loggedIn>>

\* The pause switch of the settings screen.
SetPaused ==
  /\ paused' = ~paused
  /\ UNCHANGED <<msg, pc, trusted, holder, session, pending, channels, behavior,
                 outcome, armed, released, loggedIn>>

Receive(m) ==
  ReceivePaused(m) \/ ReceiveLogin(m) \/ ReceiveBadLogin(m) \/ ReceiveOther(m)

AdminStep(m) ==
  \/ CheckConfirm(m) \/ ConsumePending(m) \/ ArmDestructive(m)
  \/ ToggleChannels(m) \/ ShowChannels(m) \/ QuickAction(m)
  \/ AskModel(m) \/ Interpreted(m) \/ ChatReplied(m)

PublicStep(m) == LookUpContact(m) \/ SendDraft(m)

Handle(m) == Acquire(m) \/ AdminStep(m) \/ PublicStep(m) \/ HandlerError(m)

Next == (\E m \in Ids : Receive(m) \/ Handle(m)) \/ Tick \/ SetPaused

Spec == Init /\ [][Next]_vars

-----------------------------------------------------------------------------
(* Properties *)

Running == {m \in Ids : pc[m] \notin {"new", "queued", "done"}}

\* The comment on messageMutex, "Serialises ALL message handlers - only one
\* runs at a time": at most one handler is between its start and its return.
OneHandlerAtATime == Cardinality(Running) <= 1

\* What messageMutex does give: two handlers that run together are not both
\* queued ones, so at least one of them came in as a login with a command.
QueuedHandlersExclude ==
  \A m, n \in Running : m # n => "good" \in {msg[m].login, msg[n].login}

\* Header of AdminAuthManager, "Destructive actions always require
\* confirmation": a handler that got past the guard with a destructive command,
\* and whatever it told the owner then, belongs to a "confirm:" message for a
\* command which the same sender had armed before.
PastGuard(m) ==
  \/ pc[m] \in {"confirmed", "interpret", "chatting"}
  \/ m \in trusted /\ outcome[m] \in {"toggled", "channel_status", "chat",
                                      "blocked", "executed", "error"}

DestructiveNeedsConfirmation ==
  \A m \in Ids :
    PastGuard(m) /\ msg[m].cmd \in Destructive =>
      /\ msg[m].form = "confirm"
      /\ armed[msg[m].sender][msg[m].cmd] > 0

\* consumePendingDestructive "matches and clears" the pending command: every
\* command let through used up an arming of its own.
ReleasedOncePerArming ==
  \A s \in Senders, c \in Commands : released[s][c] <= armed[s][c]

\* Admin handling, and a command waiting for its confirmation, are only ever
\* there for the admin's number or for a sender whose credentials verified.
AdminIsAuthenticated ==
  /\ \A m \in Ids : m \in trusted \/ PastGuard(m) =>
                      msg[m].sender \in AdminSenders \cup loggedIn
  /\ \A s \in Senders : pending[s] # NoCommand => s \in AdminSenders \cup loggedIn

\* never_reply_to answers "Will never reply to ...": from then on no automatic
\* reply goes out to that contact, not even one being drafted meanwhile.
NeverIsHonoured ==
  [][\A m \in Ids : outcome'[m] = "auto_replied" /\ outcome[m] = "none" =>
       behavior[msg[m].sender] # "NEVER"]_vars

\* The handlers that wait for an answer the policy is then asked about.
Asking == {m \in Ids : pc[m] \in {"interpret", "drafting"}}

\* The decision matrix is monotone over what the model may return: more trust
\* or more confidence never turns an ALLOW into a BLOCK.
PolicyIsMonotone == Asking # {} => VerdictIsMonotone

\* The confirmation protocol as a user sees it: one slot per sender, filled by
\* a warning and emptied by the command it lets through.
Gate == INSTANCE ConfirmGate WITH slot <- pending

GateSpec == Gate!Spec
=============================================================================
