----------------------------- MODULE ReplyRouter -----------------------------
(***************************************************************************)
(* Text messages come in and go out through notifications.                 *)
(* AigentikNotificationListener (one thread) registers each notification   *)
(* with NotificationReplyRouter and gives new messages to the engine;      *)
(* MessageDeduplicator tells new messages from repeated ones and from the  *)
(* app's own replies, which the messaging app shows in the same            *)
(* notification; a handler of the engine answers through sendReply.        *)
(*                                                                         *)
(* A conversation is the key of its notification.  The router's maps are   *)
(* ConcurrentHashMaps, so each of their operations is a step.  Entries of  *)
(* the deduplicator count down the ticks they are still good for; the ones *)
(* it removes when its maps grow are the expired ones, which have no       *)
(* effect.  activeNotifications is written and never read.  A notification *)
(* that is passed over for its package, its channel or a missing text      *)
(* changes nothing.                                                        *)
(***************************************************************************)
EXTENDS Naturals, FiniteSets

CONSTANTS
  Keys,          \* conversations
  Number,        \* the last ten digits of the sender resolveSender finds for each
  NoDigits,      \* its value for a name that is no contact's
  NoKey,
  Texts,         \* what people write
  Kind,          \* how the engine takes each text: "queued" under its mutex,
                 \* "login" beside it, "ack" answered on the listener's thread
  Replies,       \* what the agent writes
  NoText,
  Handlers,      \* messages the engine has in hand at a time (bound)
  Cap,           \* entries kept
  Ttl,           \* INCOMING_TTL_MS and SENT_TTL_MS, in ticks
  MaxPosts,      \* messages people send (bound)
  MaxTicks       \* ticks of the clock (bound)

AllTexts == Texts \cup Replies
Digits   == {Number[k] : k \in Keys} \cup {NoDigits}
Ids      == Digits \X AllTexts

ASSUME RouterAssumption ==
  /\ NoKey \notin Keys /\ NoText \notin AllTexts
  /\ IsFiniteSet(Handlers)
  /\ Kind \in [AllTexts -> {"queued", "login", "ack"}]
  /\ \A t \in Replies : Kind[t] = "queued"
  /\ Cap \in Nat \ {0} /\ Ttl \in Nat \ {0}
  /\ MaxPosts \in Nat /\ MaxTicks \in Nat

VARIABLES
  idToKey,     \* messageIdToSbnKey
  entries,     \* the keys of sbnKeyToEntry
  context,     \* appContext is set
  seen,        \* MessageDeduplicator.seen: ticks each entry is good for
  sent,        \* MessageDeduplicator.sentTexts, likewise
  listener,    \* what the listener's thread is doing
  jobs,        \* the handlers
  echoes,      \* replies on their way back in an updated notification
  current,     \* the notifications that are shown
  replies,     \* history: how often each message was answered
  reached,     \* history: conversations of a message and of the reply to it
  gone,        \* history: messages whose notification was dismissed, evicted or
               \* used for a reply since it was last registered
  posts, ticks

vars == <<idToKey, entries, context, seen, sent, listener, jobs, echoes,
          current, replies, reached, gone, posts, ticks>>

dedup   == <<seen, sent>>
router  == <<idToKey, entries>>
history == <<current, replies, reached, gone>>

JobSteps == {"free", "waiting", "lookup", "send", "mark", "drop", "drop_id"}

NoEvent == [at |-> "idle", key |-> NoKey, text |-> NoText, old |-> NoKey]
NoJob   == [at |-> "free", id |-> <<NoDigits, NoText>>, from |-> NoKey,
            key |-> NoKey, reply |-> NoText]

Messages == [at : {"check", "id", "entry", "evict", "evict_ids", "new", "ack"},
             key : Keys, text : AllTexts, old : Keys \cup {NoKey}]
Removals == [at : {"forget", "forget_ids"}, key : Keys, text : {NoText}, old : {NoKey}]
Jobs     == [at : JobSteps \ {"free"}, id : Ids, from : Keys,
             key : Keys \cup {NoKey}, reply : Replies \cup {NoText}]

TypeOK ==
  /\ idToKey \in [Ids -> Keys \cup {NoKey}]
  /\ entries \subseteq Keys
  /\ context \in BOOLEAN
  /\ seen \in [Ids -> 0..Ttl] /\ sent \in [AllTexts -> 0..Ttl]
  /\ listener \in {NoEvent} \cup Messages \cup Removals
  /\ jobs \in [Handlers -> {NoJob} \cup Jobs]
  /\ \A h \in Handlers : /\ jobs[h].at \notin {"free", "waiting"} => jobs[h].key \in Keys
                         /\ jobs[h].at = "mark" => jobs[h].reply \in Replies
  /\ echoes \subseteq Keys \X Replies
  /\ current \subseteq Keys
  /\ replies \in [Ids -> Nat]
  /\ reached \subseteq Keys \X Keys
  /\ gone \subseteq Ids
  /\ posts \in 0..MaxPosts /\ ticks \in 0..MaxTicks

Init ==
  /\ idToKey = [i \in Ids |-> NoKey] /\ entries = {}
  /\ context = FALSE
  /\ seen = [i \in Ids |-> 0] /\ sent = [t \in AllTexts |-> 0]
  /\ listener = NoEvent
  /\ jobs = [h \in Handlers |-> NoJob]
  /\ echoes = {}
  /\ current = {} /\ replies = [i \in Ids |-> 0] /\ reached = {} /\ gone = {}
  /\ posts = 0 /\ ticks = 0

-----------------------------------------------------------------------------
(* Fingerprints and time *)

\* Mutant: the sender is left out of the fingerprint.
FingerprintOfText(k, t) == <<NoDigits, t>>

\* fingerprint
Fingerprint(k, t) == <<Number[k], t>>

Tick ==
  /\ ticks < MaxTicks
  /\ ticks' = ticks + 1
  /\ seen' = [i \in Ids |-> IF seen[i] = 0 THEN 0 ELSE seen[i] - 1]
  /\ sent' = [t \in AllTexts |-> IF sent[t] = 0 THEN 0 ELSE sent[t] - 1]
  /\ UNCHANGED <<router, context, listener, jobs, echoes, history, posts>>

-----------------------------------------------------------------------------
(* The listener: connecting, a notification that is posted *)

Idle == listener.at = "idle"

OnListenerConnected ==
  /\ Idle /\ ~context
  /\ context' = TRUE
  /\ UNCHANGED <<router, dedup, listener, jobs, echoes, history, posts,
                 ticks>>

OnListenerDisconnected ==
  /\ Idle /\ context
  /\ context' = FALSE
  /\ UNCHANGED <<router, dedup, listener, jobs, echoes, history, posts,
                 ticks>>

Begin(k, t) ==
  /\ Idle /\ context
  /\ listener' = [NoEvent EXCEPT !.at = "check", !.key = k, !.text = t]
  /\ current' = current \cup {k}
  /\ UNCHANGED <<router, context, dedup, jobs, replies, reached, gone, ticks>>

\* Somebody writes, or the notification is posted again as it was.
Post(k, t) ==
  /\ posts < MaxPosts /\ posts' = posts + 1
  /\ Begin(k, t)
  /\ UNCHANGED echoes

\* The messaging app shows the agent's reply as the latest message.
PostEcho(k, t) ==
  /\ <<k, t>> \in echoes /\ echoes' = echoes \ {<<k, t>>}
  /\ Begin(k, t)
  /\ UNCHANGED posts

\* wasSentRecently
CheckSent ==
  /\ listener.at = "check"
  /\ listener' = IF sent[listener.text] > 0 THEN NoEvent
                 ELSE [listener EXCEPT !.at = "id"]
  /\ UNCHANGED <<router, context, dedup, jobs, echoes, history, posts, ticks>>

Id == Fingerprint(listener.key, listener.text)

\* register, first put
PutId ==
  /\ listener.at = "id"
  /\ idToKey' = [idToKey EXCEPT ![Id] = listener.key]
  /\ gone' = gone \ {Id}
  /\ listener' = [listener EXCEPT !.at = "entry"]
  /\ UNCHANGED <<entries, context, dedup, jobs, echoes, current, replies, reached, posts, ticks>>

\* register, second put; when there are too many, the first key the map
\* iterates over, which may be any, is to go.
PutEntry ==
  /\ listener.at = "entry"
  /\ entries' = entries \cup {listener.key}
  /\ IF Cardinality(entries') > Cap
     THEN \E k \in entries' : listener' = [listener EXCEPT !.at = "evict", !.old = k]
     ELSE listener' = [listener EXCEPT !.at = "new"]
  /\ UNCHANGED <<idToKey, context, dedup, jobs, echoes, history, posts, ticks>>

IdsOf(k) == {i \in Ids : idToKey[i] = k}

Evict ==
  /\ listener.at = "evict"
  /\ entries' = entries \ {listener.old}
  /\ gone' = gone \cup IdsOf(listener.old)
  /\ listener' = [listener EXCEPT !.at = "evict_ids"]
  /\ UNCHANGED <<idToKey, context, dedup, jobs, echoes, current, replies, reached, posts, ticks>>

\* entries.removeIf { it.value == k }
WithoutKey(k) == [i \in Ids |-> IF i \in IdsOf(k) THEN NoKey ELSE idToKey[i]]

\* Mutant: the ids of the new notification are removed, not of the old one.
EvictIdsOfNew ==
  /\ listener.at = "evict_ids"
  /\ idToKey' = WithoutKey(listener.key)
  /\ listener' = [listener EXCEPT !.at = "new"]
  /\ UNCHANGED <<entries, context, dedup, jobs, echoes, history, posts, ticks>>

EvictIds ==
  /\ listener.at = "evict_ids"
  /\ idToKey' = WithoutKey(listener.old)
  /\ listener' = [listener EXCEPT !.at = "new"]
  /\ UNCHANGED <<entries, context, dedup, jobs, echoes, history, posts, ticks>>

Unseen == seen[Id] = 0

Duplicate ==
  /\ listener.at = "new" /\ ~Unseen
  /\ listener' = NoEvent
  /\ UNCHANGED <<router, context, dedup, jobs, echoes, history, posts, ticks>>

\* Mutant: isNew does not remember the message.
HandOverForgets(h) ==
  /\ listener.at = "new" /\ Unseen /\ jobs[h] = NoJob
  /\ jobs' = [jobs EXCEPT ![h] = [NoJob EXCEPT
                !.at = "waiting", !.id = Id, !.from = listener.key]]
  /\ listener' = IF Kind[listener.text] = "ack"
                 THEN [listener EXCEPT !.at = "ack"] ELSE NoEvent
  /\ UNCHANGED <<router, context, dedup, echoes, history, posts, ticks>>

\* isNew, and onMessageReceived
HandOver(h) ==
  /\ listener.at = "new" /\ Unseen /\ jobs[h] = NoJob
  /\ seen' = [seen EXCEPT ![Id] = Ttl]
  /\ jobs' = [jobs EXCEPT ![h] = [NoJob EXCEPT
                !.at = "waiting", !.id = Id, !.from = listener.key]]
  /\ listener' = IF Kind[listener.text] = "ack"
                 THEN [listener EXCEPT !.at = "ack"] ELSE NoEvent
  /\ UNCHANGED <<router, context, sent, echoes, history, posts, ticks>>

-----------------------------------------------------------------------------
(* The listener: a notification that is removed *)

Removed(k) ==
  /\ Idle /\ context /\ k \in current
  /\ current' = current \ {k}
  /\ listener' = [NoEvent EXCEPT !.at = "forget", !.key = k]
  /\ UNCHANGED <<router, context, dedup, jobs, echoes, replies, reached, gone, posts, ticks>>

Forget ==
  /\ listener.at = "forget"
  /\ entries' = entries \ {listener.key}
  /\ gone' = gone \cup IdsOf(listener.key)
  /\ listener' = [listener EXCEPT !.at = "forget_ids"]
  /\ UNCHANGED <<idToKey, context, dedup, jobs, echoes, current, replies, reached, posts, ticks>>

ForgetIds ==
  /\ listener.at = "forget_ids"
  /\ idToKey' = WithoutKey(listener.key)
  /\ listener' = NoEvent
  /\ UNCHANGED <<entries, context, dedup, jobs, echoes, history, posts, ticks>>

-----------------------------------------------------------------------------
(* sendReply *)

KindOf(h) == Kind[jobs[h].id[2]]

\* The handler returns; one on the listener's thread gives it back.
Done(h) ==
  /\ jobs' = [jobs EXCEPT ![h] = NoJob]
  /\ listener' = IF KindOf(h) = "ack" THEN NoEvent ELSE listener

Goto(h, at) ==
  /\ jobs' = [jobs EXCEPT ![h].at = at]
  /\ UNCHANGED listener

\* The engine has nothing to answer, or is paused.
NoReply(h) ==
  /\ jobs[h].at = "waiting"
  /\ Done(h)
  /\ UNCHANGED <<router, context, dedup, echoes, history, posts, ticks>>

\* messageIdToSbnKey[messageId]: the handlers under messageMutex take turns.
LookUpKey(h) ==
  /\ jobs[h].at = "waiting"
  /\ KindOf(h) = "queued" =>
       \A g \in Handlers : jobs[g].at \notin {"free", "waiting"} => KindOf(g) # "queued"
  /\ IF idToKey[jobs[h].id] = NoKey
     THEN Done(h)
     ELSE /\ jobs' = [jobs EXCEPT ![h].at = "lookup", ![h].key = idToKey[jobs[h].id]]
          /\ UNCHANGED listener
  /\ UNCHANGED <<router, context, dedup, echoes, history, posts, ticks>>

\* sbnKeyToEntry[sbnKey], and the notification's reply action, which may be
\* missing.
LookUpEntry(h) ==
  /\ jobs[h].at = "lookup"
  /\ \/ jobs[h].key \in entries /\ Goto(h, "send")
     \/ Done(h)
  /\ UNCHANGED <<router, context, dedup, echoes, history, posts, ticks>>

\* PendingIntent.send: it needs the context, and may throw.  The messaging app
\* may update the notification.
Send(h, t) ==
  /\ jobs[h].at = "send" /\ context
  /\ jobs' = [jobs EXCEPT ![h].at = "mark", ![h].reply = t]
  /\ echoes' \in {echoes, echoes \cup {<<jobs[h].key, t>>}}
  /\ replies' = [replies EXCEPT ![jobs[h].id] = @ + 1]
  /\ reached' = reached \cup {<<jobs[h].from, jobs[h].key>>}
  /\ UNCHANGED <<router, context, dedup, listener, current, gone, posts,
                 ticks>>

SendFails(h) ==
  /\ jobs[h].at = "send"
  /\ Done(h)
  /\ UNCHANGED <<router, context, dedup, echoes, history, posts, ticks>>

\* sentTexts is a plain map: of two puts at the same time one may get lost.
MarkSent(h) ==
  LET t == jobs[h].reply IN
  /\ jobs[h].at = "mark"
  /\ \/ sent' = [sent EXCEPT ![t] = Ttl]
     \/ (\E g \in Handlers \ {h} : jobs[g].at = "mark") /\ UNCHANGED sent
  /\ Goto(h, "drop")
  /\ UNCHANGED <<router, context, seen, echoes, current, replies, reached, gone,
                 posts, ticks>>

\* sbnKeyToEntry.remove(sbnKey): whichever notification the entry is of by now.
DropEntry(h) ==
  /\ jobs[h].at = "drop"
  /\ entries' = entries \ {jobs[h].key}
  /\ gone' = gone \cup IdsOf(jobs[h].key)
  /\ Goto(h, "drop_id")
  /\ UNCHANGED <<idToKey, context, dedup, echoes, current, replies, reached,
                 posts, ticks>>

DropId(h) ==
  /\ jobs[h].at = "drop_id"
  /\ idToKey' = [idToKey EXCEPT ![jobs[h].id] = NoKey]
  /\ gone' = gone \cup {jobs[h].id}
  /\ Done(h)
  /\ UNCHANGED <<entries, context, dedup, echoes, current, replies, reached,
                 posts, ticks>>

-----------------------------------------------------------------------------
ListenerStep ==
  \/ CheckSent \/ PutId \/ PutEntry \/ Evict \/ EvictIds \/ Duplicate
  \/ (\E h \in Handlers : HandOver(h)) \/ Forget \/ ForgetIds

HandlerStep(h) ==
  \/ NoReply(h) \/ LookUpKey(h) \/ LookUpEntry(h)
  \/ (\E t \in Replies : Send(h, t)) \/ SendFails(h)
  \/ MarkSent(h) \/ DropEntry(h) \/ DropId(h)

Next ==
  \/ OnListenerConnected \/ OnListenerDisconnected \/ Tick
  \/ \E k \in Keys : Removed(k)
  \/ \E k \in Keys, t \in Texts : Post(k, t)
  \/ \E k \in Keys, t \in Replies : PostEcho(k, t)
  \/ ListenerStep
  \/ \E h \in Handlers : HandlerStep(h)

Spec == Init /\ [][Next]_vars

-----------------------------------------------------------------------------
(* Properties *)

\* However notifications of several conversations are posted again, removed and
\* evicted: the answer to a message goes to a conversation with the number of
\* the one it came from.  (All conversations that show a name which is nobody's
\* in the contacts have the same number, NoDigits: the same text in two of them
\* has one fingerprint, and the answer goes to the one that was posted last.)
ReplyKeepsNumber == \A r \in reached : Number[r[1]] = Number[r[2]]

\* A message is answered once in five minutes, whatever repeats it.  The agent's
\* own reply is such a message when the updated notification that shows it comes
\* before markSent, or when that put is lost: to answer itself in circles it
\* would have to write something new each time.
NoDuplicateReply == \A i \in Ids : replies[i] <= 1 + ticks \div Ttl

\* A message in hand can be answered until its notification is dismissed or
\* evicted, or an other reply used it up; except while the listener registers it
\* anew, the id first.
AnswerableUntilGone ==
  \A h \in Handlers :
    jobs[h].at = "waiting" /\ jobs[h].id \notin gone =>
      \/ idToKey[jobs[h].id] \in entries
      \/ listener.at = "entry" /\ idToKey[jobs[h].id] = listener.key
=============================================================================
