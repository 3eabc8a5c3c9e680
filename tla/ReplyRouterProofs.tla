-------------------------- MODULE ReplyRouterProofs --------------------------
(***************************************************************************)
(* Proofs about ReplyRouter.  The listener's record and the handlers'      *)
(* records change in a few ways only; the first lemmas say which, and the  *)
(* proofs of the invariants use those and not the records themselves.      *)
(***************************************************************************)
EXTENDS ReplyRouter, FiniteSetTheorems, TLAPS

\* A handler that is answering a message, before or after the reply is sent.
Active(h) == jobs[h].at # "free"

\* What the record of a handler may hold.
LEMMA JobFields ==
  ASSUME TypeOK, NEW h \in Handlers, Active(h)
  PROVE  /\ jobs[h] \in Jobs
         /\ jobs[h].at \in JobSteps \ {"free"} /\ jobs[h].id \in Ids
         /\ jobs[h].from \in Keys /\ jobs[h].key \in Keys \cup {NoKey}
         /\ jobs[h].reply \in Replies \cup {NoText}
BY DEF TypeOK, NoJob, Jobs, Active

\* A handler is free exactly when its record is the empty one.
LEMMA FreeIsNoJob ==
  ASSUME TypeOK, NEW h \in Handlers
  PROVE  jobs[h] = NoJob <=> ~Active(h)
BY DEF TypeOK, NoJob, Jobs, Active

\* Done frees its handler and nobody else's; only the handler of a login without
\* a command gives the listener's thread back.
LEMMA DoneEffect ==
  ASSUME TypeOK, NEW h \in Handlers, Done(h)
  PROVE  /\ jobs' \in [Handlers -> {NoJob} \cup Jobs]
         /\ \A g \in Handlers \ {h} : jobs'[g] = jobs[g]
         /\ jobs'[h] = NoJob /\ jobs'[h].at = "free"
         /\ listener' = NoEvent \/ listener' = listener
         /\ listener' # listener => KindOf(h) = "ack"
         /\ KindOf(h) = "ack" => listener' = NoEvent
BY DEF TypeOK, Done, NoJob

\* Goto moves its handler on.
LEMMA GotoEffect ==
  ASSUME TypeOK, NEW h \in Handlers, Active(h),
         NEW at \in JobSteps \ {"free"}, Goto(h, at)
  PROVE  /\ jobs' \in [Handlers -> {NoJob} \cup Jobs]
         /\ \A g \in Handlers \ {h} : jobs'[g] = jobs[g]
         /\ jobs'[h].at = at /\ jobs'[h].id = jobs[h].id
         /\ jobs'[h].from = jobs[h].from /\ jobs'[h].key = jobs[h].key
         /\ jobs'[h].reply = jobs[h].reply
         /\ listener' = listener
<1>1. /\ jobs[h] \in Jobs /\ jobs \in [Handlers -> {NoJob} \cup Jobs]
      /\ jobs' = [jobs EXCEPT ![h] = [jobs[h] EXCEPT !.at = at]]
      /\ listener' = listener
  BY JobFields DEF Goto, TypeOK
<1>2. [jobs[h] EXCEPT !.at = at] \in Jobs
  BY <1>1 DEF Jobs
<1>. QED BY <1>1, <1>2 DEF Jobs

\* A successful look-up of the key remembers it.
LEMMA LookUpEffect ==
  ASSUME TypeOK, NEW h \in Handlers, LookUpKey(h), idToKey[jobs[h].id] # NoKey
  PROVE  /\ jobs' \in [Handlers -> {NoJob} \cup Jobs]
         /\ \A g \in Handlers \ {h} : jobs'[g] = jobs[g]
         /\ jobs'[h].at = "lookup" /\ jobs'[h].id = jobs[h].id
         /\ jobs'[h].from = jobs[h].from /\ jobs'[h].key = idToKey[jobs[h].id]
         /\ jobs'[h].key \in Keys
         /\ jobs[h].at = "waiting" /\ listener' = listener
<1>1. jobs[h].at = "waiting" /\ Active(h)
  BY DEF LookUpKey, Active
<1>2. /\ jobs[h] \in Jobs /\ jobs \in [Handlers -> {NoJob} \cup Jobs]
      /\ jobs[h].id \in Ids
  BY <1>1, JobFields DEF TypeOK
<1>3. idToKey[jobs[h].id] \in Keys
  BY <1>2 DEF TypeOK
<1>4. /\ jobs' = [jobs EXCEPT ![h] =
                    [jobs[h] EXCEPT !.at = "lookup", !.key = idToKey[jobs[h].id]]]
      /\ listener' = listener
  BY <1>2 DEF LookUpKey, TypeOK
<1>5. [jobs[h] EXCEPT !.at = "lookup", !.key = idToKey[jobs[h].id]] \in Jobs
  BY <1>2, <1>3 DEF Jobs, JobSteps
<1>. QED BY <1>1, <1>2, <1>3, <1>4, <1>5 DEF Jobs

\* Sending a reply remembers its text.
LEMMA SendEffect ==
  ASSUME TypeOK, NEW h \in Handlers, NEW t \in Replies, Send(h, t)
  PROVE  /\ jobs' \in [Handlers -> {NoJob} \cup Jobs]
         /\ \A g \in Handlers \ {h} : jobs'[g] = jobs[g]
         /\ jobs'[h].at = "mark" /\ jobs'[h].id = jobs[h].id
         /\ jobs'[h].from = jobs[h].from /\ jobs'[h].key = jobs[h].key
         /\ jobs'[h].reply = t
         /\ jobs[h].at = "send" /\ listener' = listener
<1>1. jobs[h].at = "send" /\ Active(h) /\ listener' = listener
  BY DEF Send, Active
<1>2. jobs[h] \in Jobs /\ jobs \in [Handlers -> {NoJob} \cup Jobs]
  BY <1>1, JobFields DEF TypeOK
<1>3. jobs' = [jobs EXCEPT ![h] = [jobs[h] EXCEPT !.at = "mark", !.reply = t]]
  BY <1>2 DEF Send
<1>4. [jobs[h] EXCEPT !.at = "mark", !.reply = t] \in Jobs
  BY <1>2 DEF Jobs, JobSteps
<1>. QED BY <1>1, <1>2, <1>3, <1>4 DEF Jobs

\* What the listener holds while it handles a message.
LEMMA ListenerFields ==
  ASSUME TypeOK
  PROVE  /\ listener.at \in {"check", "id", "entry", "evict", "evict_ids", "new", "ack"} =>
              /\ listener \in Messages /\ listener.key \in Keys
              /\ listener.text \in AllTexts /\ listener.old \in Keys \cup {NoKey}
              /\ Id \in Ids
         /\ listener.at \in {"forget", "forget_ids"} =>
              listener \in Removals /\ listener.key \in Keys
BY DEF TypeOK, NoEvent, Messages, Removals, Id, Fingerprint, Ids, Digits

\* Handing a message over takes a free handler.
LEMMA HandOverEffect ==
  ASSUME TypeOK, NEW h \in Handlers, HandOver(h)
  PROVE  /\ jobs' \in [Handlers -> {NoJob} \cup Jobs]
         /\ \A g \in Handlers \ {h} : jobs'[g] = jobs[g]
         /\ jobs'[h].at = "waiting" /\ jobs'[h].id = Id
         /\ jobs'[h].from = listener.key
         /\ ~Active(h) /\ listener.at = "new"
         /\ Id \in Ids /\ listener.text \in AllTexts /\ listener.key \in Keys
         /\ Kind[listener.text] = "ack" =>
              listener' = [listener EXCEPT !.at = "ack"] /\ listener'.at = "ack"
         /\ Kind[listener.text] # "ack" => listener' = NoEvent
<1>1. /\ listener.at = "new" /\ ~Active(h) /\ jobs[h] = NoJob
      /\ listener' = IF Kind[listener.text] = "ack"
                     THEN [listener EXCEPT !.at = "ack"] ELSE NoEvent
      /\ jobs' = [jobs EXCEPT ![h] = [NoJob EXCEPT
                    !.at = "waiting", !.id = Id, !.from = listener.key]]
      /\ jobs \in [Handlers -> {NoJob} \cup Jobs]
  BY DEF HandOver, NoJob, Active, TypeOK
<1>2. /\ listener \in Messages /\ listener.key \in Keys
      /\ listener.text \in AllTexts /\ Id \in Ids
  BY <1>1, ListenerFields
<1>. DEFINE job == [NoJob EXCEPT !.at = "waiting", !.id = Id, !.from = listener.key]
<1>3. /\ job.at = "waiting" /\ job.id = Id /\ job.from = listener.key
      /\ job.key = NoKey /\ job.reply = NoText
  BY DEF NoJob
<1>4. job \in Jobs
  BY <1>2 DEF Jobs, JobSteps, NoJob
<1>5. [listener EXCEPT !.at = "ack"].at = "ack"
  BY <1>2 DEF Messages
<1>. HIDE DEF job
<1>6. jobs' = [jobs EXCEPT ![h] = job]
  BY <1>1 DEF job
<1>. QED BY <1>1, <1>2, <1>3, <1>4, <1>5, <1>6

\* The steps of the listener with a message.
Handling == {"check", "id", "entry", "evict", "evict_ids", "new", "ack"}

\* The listener moves on with the message it has.
LEMMA MoveListener ==
  ASSUME TypeOK, listener.at \in Handling, NEW at \in Handling,
         listener' = [listener EXCEPT !.at = at]
  PROVE  /\ listener' \in Messages /\ listener'.at = at
         /\ listener'.key = listener.key /\ listener'.text = listener.text
         /\ listener'.old = listener.old /\ Id' = Id
BY ListenerFields DEF Messages, Handling, Id, Fingerprint

\* The same, with the key that is to go.
LEMMA MoveToEvict ==
  ASSUME TypeOK, listener.at \in Handling, NEW k \in Keys,
         listener' = [listener EXCEPT !.at = "evict", !.old = k]
  PROVE  /\ listener' \in Messages /\ listener'.at = "evict"
         /\ listener'.key = listener.key /\ listener'.text = listener.text
         /\ listener'.old = k /\ Id' = Id
BY ListenerFields DEF Messages, Handling, Id, Fingerprint

\* A notification that begins to be handled.
LEMMA NewEvent ==
  ASSUME NEW k \in Keys, NEW t \in AllTexts
  PROVE  /\ [NoEvent EXCEPT !.at = "check", !.key = k, !.text = t] \in Messages
         /\ [NoEvent EXCEPT !.at = "check", !.key = k, !.text = t].at = "check"
         /\ [NoEvent EXCEPT !.at = "forget", !.key = k] \in Removals
         /\ [NoEvent EXCEPT !.at = "forget", !.key = k].at = "forget"
         /\ NoEvent.at = "idle"
BY DEF NoEvent, Messages, Removals

\* Where each step of the listener with a message leads.
LEMMA ListenerEffect ==
  ASSUME TypeOK
  PROVE  /\ CheckSent => listener' = NoEvent \/ (listener' \in Messages /\ listener'.at = "id")
         /\ PutId => /\ listener' \in Messages /\ listener'.at = "entry"
                     /\ listener'.key = listener.key /\ Id' = Id
         /\ PutEntry => /\ listener' \in Messages /\ listener'.at \in {"evict", "new"}
                        /\ listener'.key = listener.key /\ Id' = Id
         /\ Evict => /\ listener' \in Messages /\ listener'.at = "evict_ids"
                     /\ listener'.old = listener.old /\ Id' = Id
         /\ EvictIds => listener' \in Messages /\ listener'.at = "new" /\ Id' = Id
         /\ Forget => /\ listener' \in Removals /\ listener'.at = "forget_ids"
                      /\ listener'.key = listener.key
<1>1. ASSUME CheckSent
      PROVE  listener' = NoEvent \/ (listener' \in Messages /\ listener'.at = "id")
  <2>1. listener' = NoEvent \/ listener' = [listener EXCEPT !.at = "id"]
    BY <1>1 DEF CheckSent
  <2>2. listener.at \in Handling /\ "id" \in Handling
    BY <1>1 DEF CheckSent, Handling
  <2>3. CASE listener' = [listener EXCEPT !.at = "id"]
    <3>1. listener' \in Messages /\ listener'.at = "id"
      BY <2>2, <2>3, MoveListener
    <3>. QED BY <3>1
  <2>4. CASE listener' = NoEvent
    BY <2>4
  <2>. QED BY <2>1, <2>3, <2>4
<1>2. ASSUME PutId
      PROVE  /\ listener' \in Messages /\ listener'.at = "entry"
             /\ listener'.key = listener.key /\ Id' = Id
  <2>1. /\ listener.at \in Handling /\ "entry" \in Handling
        /\ listener' = [listener EXCEPT !.at = "entry"]
    BY <1>2 DEF PutId, Handling
  <2>. QED BY <2>1, MoveListener
<1>3. ASSUME PutEntry
      PROVE  /\ listener' \in Messages /\ listener'.at \in {"evict", "new"}
             /\ listener'.key = listener.key /\ Id' = Id
  <2>1. /\ listener.at \in Handling /\ "new" \in Handling
        /\ listener.at = "entry" /\ entries' = entries \cup {listener.key}
    BY <1>3 DEF PutEntry, Handling
  <2>2. entries' \subseteq Keys
    BY <2>1, ListenerFields DEF TypeOK
  <2>3. CASE listener' = [listener EXCEPT !.at = "new"]
    BY <2>1, <2>3, MoveListener
  <2>4. CASE \E k \in entries' : listener' = [listener EXCEPT !.at = "evict", !.old = k]
    <3>1. PICK k \in Keys : listener' = [listener EXCEPT !.at = "evict", !.old = k]
      BY <2>2, <2>4
    <3>. QED BY <2>1, <3>1, MoveToEvict
  <2>. QED BY <1>3, <2>3, <2>4 DEF PutEntry
<1>4. ASSUME Evict
      PROVE  /\ listener' \in Messages /\ listener'.at = "evict_ids"
             /\ listener'.old = listener.old /\ Id' = Id
  <2>1. /\ listener.at \in Handling /\ "evict_ids" \in Handling
        /\ listener' = [listener EXCEPT !.at = "evict_ids"]
    BY <1>4 DEF Evict, Handling
  <2>. QED BY <2>1, MoveListener
<1>5. ASSUME EvictIds PROVE listener' \in Messages /\ listener'.at = "new" /\ Id' = Id
  <2>1. /\ listener.at \in Handling /\ "new" \in Handling
        /\ listener' = [listener EXCEPT !.at = "new"]
    BY <1>5 DEF EvictIds, Handling
  <2>. QED BY <2>1, MoveListener
<1>6. ASSUME Forget
      PROVE  /\ listener' \in Removals /\ listener'.at = "forget_ids"
             /\ listener'.key = listener.key
  BY <1>6, ListenerFields DEF Forget, Removals
<1>. QED BY <1>1, <1>2, <1>3, <1>4, <1>5, <1>6

-----------------------------------------------------------------------------
(* Type correctness *)

\* The state of a fresh process.
LEMMA InitTyped == Init => TypeOK
<1>. SUFFICES ASSUME Init PROVE TypeOK
  OBVIOUS
<1>1. /\ jobs \in [Handlers -> {NoJob} \cup Jobs]
      /\ \A h \in Handlers : jobs[h].at = "free"
  BY DEF Init, NoJob
<1>2. seen \in [Ids -> 0..Ttl] /\ sent \in [AllTexts -> 0..Ttl]
  BY RouterAssumption DEF Init
<1>3. idToKey \in [Ids -> Keys \cup {NoKey}] /\ replies \in [Ids -> Nat]
  BY DEF Init
<1>4. posts \in 0..MaxPosts /\ ticks \in 0..MaxTicks
  BY RouterAssumption DEF Init
<1>. QED BY <1>1, <1>2, <1>3, <1>4 DEF Init, TypeOK

\* What the steps of one handler leave to show.
LEMMA HandlerTypes ==
  ASSUME TypeOK, NEW h \in Handlers, HandlerStep(h)
  PROVE  TypeOK'
<1>1. CASE Done(h) /\ UNCHANGED <<router, context, dedup, echoes, history, posts, ticks>>
  BY <1>1, DoneEffect DEF TypeOK, router, dedup, history
<1>2. CASE NoReply(h)
  BY <1>1, <1>2 DEF NoReply
<1>3. CASE LookUpKey(h)
  <2>1. CASE idToKey[jobs[h].id] = NoKey
    BY <1>1, <1>3, <2>1 DEF LookUpKey
  <2>2. CASE idToKey[jobs[h].id] # NoKey
    BY <1>3, <2>2, LookUpEffect DEF LookUpKey, TypeOK, router, dedup, history
  <2>. QED BY <2>1, <2>2
<1>4. CASE LookUpEntry(h)
  <2>1. CASE Done(h)
    BY <1>1, <1>4, <2>1 DEF LookUpEntry
  <2>2. CASE Goto(h, "send")
    <3>1. Active(h) /\ jobs[h].at = "lookup"
      BY <1>4 DEF LookUpEntry, Active
    <3>2. "send" \in JobSteps \ {"free"}
      BY DEF JobSteps
    <3>. QED BY <1>4, <2>2, <3>1, <3>2, GotoEffect
             DEF LookUpEntry, TypeOK, router, dedup, history
  <2>. QED BY <1>4, <2>1, <2>2 DEF LookUpEntry
<1>5. ASSUME NEW t \in Replies, Send(h, t) PROVE TypeOK'
  <2>1. /\ Active(h) /\ jobs[h].id \in Ids /\ jobs[h].from \in Keys /\ jobs[h].key \in Keys
    BY <1>5, JobFields DEF Send, Active, TypeOK
  <2>2. replies' \in [Ids -> Nat]
    BY <1>5, <2>1 DEF Send, TypeOK
  <2>3. echoes' \subseteq Keys \X Replies /\ reached' \subseteq Keys \X Keys
    BY <1>5, <2>1 DEF Send, TypeOK
  <2>4. /\ jobs' \in [Handlers -> {NoJob} \cup Jobs]
        /\ \A g \in Handlers : /\ jobs'[g].at \notin {"free", "waiting"} => jobs'[g].key \in Keys
                               /\ jobs'[g].at = "mark" => jobs'[g].reply \in Replies
    BY <1>5, <2>1, SendEffect DEF TypeOK
  <2>. QED BY <1>5, <2>2, <2>3, <2>4 DEF Send, TypeOK, router, dedup
<1>6. CASE SendFails(h)
  BY <1>1, <1>6 DEF SendFails
<1>7. CASE MarkSent(h)
  <2>1. /\ Active(h) /\ jobs[h].at = "mark" /\ jobs[h].reply \in Replies /\ Goto(h, "drop")
    BY <1>7 DEF MarkSent, Active, TypeOK
  <2>2. "drop" \in JobSteps \ {"free"}
    BY DEF JobSteps
  <2>3. sent' \in [AllTexts -> 0..Ttl]
    BY <1>7, <2>1, RouterAssumption DEF MarkSent, TypeOK, AllTexts
  <2>. QED BY <1>7, <2>1, <2>2, <2>3, GotoEffect DEF MarkSent, TypeOK, router
<1>8. CASE DropEntry(h)
  <2>1. /\ Active(h) /\ jobs[h].at = "drop" /\ Goto(h, "drop_id")
    BY <1>8 DEF DropEntry, Active
  <2>2. "drop_id" \in JobSteps \ {"free"}
    BY DEF JobSteps
  <2>3. entries' \subseteq Keys /\ gone' \subseteq Ids
    BY <1>8 DEF DropEntry, TypeOK, IdsOf
  <2>. QED BY <1>8, <2>1, <2>2, <2>3, GotoEffect DEF DropEntry, TypeOK, dedup
<1>9. CASE DropId(h)
  <2>1. jobs[h].id \in Ids /\ Done(h)
    BY <1>9, JobFields DEF DropId, Active
  <2>2. idToKey' \in [Ids -> Keys \cup {NoKey}] /\ gone' \subseteq Ids
    BY <1>9, <2>1 DEF DropId, TypeOK
  <2>. QED BY <1>9, <2>1, <2>2, DoneEffect DEF DropId, TypeOK, dedup
<1>. QED BY <1>2, <1>3, <1>4, <1>5, <1>6, <1>7, <1>8, <1>9 DEF HandlerStep

\* Every step keeps every variable in its type.
LEMMA TypeStep == TypeOK /\ [Next]_vars => TypeOK'
<1>. SUFFICES ASSUME TypeOK, [Next]_vars PROVE TypeOK'
  OBVIOUS
<1>. USE DEF Idle
<1>1. CASE OnListenerConnected
  BY <1>1 DEF OnListenerConnected, TypeOK, router, dedup, history
<1>2. CASE OnListenerDisconnected
  BY <1>2 DEF OnListenerDisconnected, TypeOK, router, dedup, history
<1>3. CASE Tick
  <2>1. /\ seen' \in [Ids -> 0..Ttl] /\ sent' \in [AllTexts -> 0..Ttl]
        /\ ticks' \in 0..MaxTicks
    BY <1>3, RouterAssumption DEF Tick, TypeOK
  <2>. QED BY <1>3, <2>1 DEF Tick, TypeOK, router, history
<1>4. ASSUME NEW k \in Keys, Removed(k) PROVE TypeOK'
  <2>1. listener' \in Removals
    BY <1>4, NewEvent, RouterAssumption DEF Removed, NoEvent, Removals
  <2>. QED BY <1>4, <2>1 DEF Removed, TypeOK, router, dedup
<1>5. ASSUME NEW k \in Keys, NEW t \in Texts, Post(k, t) PROVE TypeOK'
  <2>1. listener' \in Messages /\ posts' \in 0..MaxPosts
    <3>1. listener' \in Messages
      BY <1>5, NewEvent DEF Post, Begin, AllTexts
    <3>2. posts' \in 0..MaxPosts
      BY <1>5, RouterAssumption DEF Post, TypeOK
    <3>. QED BY <3>1, <3>2
  <2>. QED BY <1>5, <2>1 DEF Post, Begin, TypeOK, router, dedup
<1>6. ASSUME NEW k \in Keys, NEW t \in Replies, PostEcho(k, t) PROVE TypeOK'
  <2>1. listener' \in Messages
    BY <1>6, NewEvent DEF PostEcho, Begin, AllTexts
  <2>. QED BY <1>6, <2>1 DEF PostEcho, Begin, TypeOK, router, dedup
<1>7. CASE CheckSent
  <2>1. listener' \in {NoEvent} \cup Messages
    BY <1>7, ListenerEffect
  <2>. QED BY <1>7, <2>1 DEF CheckSent, TypeOK, router, dedup, history
<1>8. CASE PutId
  <2>1. listener' \in Messages
    BY <1>8, ListenerEffect
  <2>2. idToKey' \in [Ids -> Keys \cup {NoKey}] /\ gone' \subseteq Ids
    BY <1>8, ListenerFields DEF PutId, TypeOK
  <2>. QED BY <1>8, <2>1, <2>2 DEF PutId, TypeOK, dedup
<1>9. CASE PutEntry
  <2>1. entries' \subseteq Keys
    BY <1>9, ListenerFields DEF PutEntry, TypeOK
  <2>2. listener' \in Messages
    BY <1>9, ListenerEffect
  <2>. QED BY <1>9, <2>1, <2>2 DEF PutEntry, TypeOK, dedup, history
<1>10. CASE Evict
  <2>1. listener' \in Messages
    BY <1>10, ListenerEffect
  <2>. QED BY <1>10, <2>1 DEF Evict, TypeOK, IdsOf, dedup
<1>11. CASE EvictIds
  <2>1. listener' \in Messages
    BY <1>11, ListenerEffect
  <2>2. idToKey' \in [Ids -> Keys \cup {NoKey}]
    BY <1>11 DEF EvictIds, WithoutKey, TypeOK
  <2>. QED BY <1>11, <2>1, <2>2 DEF EvictIds, TypeOK, dedup, history
<1>12. CASE Duplicate
  BY <1>12 DEF Duplicate, TypeOK, router, dedup, history
<1>13. ASSUME NEW h \in Handlers, HandOver(h) PROVE TypeOK'
  <2>1. listener' \in {NoEvent} \cup Messages
    <3>1. CASE Kind[listener.text] = "ack"
      <4>1. listener.at \in Handling /\ "ack" \in Handling
        BY <1>13, HandOverEffect DEF Handling
      <4>2. listener' = [listener EXCEPT !.at = "ack"]
        BY <1>13, <3>1, HandOverEffect
      <4>. QED BY <4>1, <4>2, MoveListener
    <3>. QED BY <1>13, <3>1, HandOverEffect
  <2>2. seen' \in [Ids -> 0..Ttl]
    <3>1. Id \in Ids
      BY <1>13, HandOverEffect
    <3>2. Ttl \in 0..Ttl
      BY RouterAssumption
    <3>. QED BY <1>13, <3>1, <3>2 DEF HandOver, TypeOK
  <2>. QED BY <1>13, <2>1, <2>2, HandOverEffect DEF HandOver, TypeOK, router,
  history
<1>14. CASE Forget
  <2>1. listener' \in Removals
    BY <1>14, ListenerEffect
  <2>. QED BY <1>14, <2>1 DEF Forget, TypeOK, IdsOf, dedup
<1>15. CASE ForgetIds
  <2>2. idToKey' \in [Ids -> Keys \cup {NoKey}]
    BY <1>15 DEF ForgetIds, WithoutKey, TypeOK
  <2>. QED BY <1>15, <2>2 DEF ForgetIds, TypeOK, dedup, history
<1>16. ASSUME NEW h \in Handlers, HandlerStep(h) PROVE TypeOK'
  BY <1>16, HandlerTypes
<1>17. CASE UNCHANGED vars
  BY <1>17 DEF vars, TypeOK
<1>. QED
  BY <1>1, <1>2, <1>3, <1>4, <1>5, <1>6, <1>7, <1>8, <1>9, <1>10, <1>11, <1>12,
     <1>13, <1>14, <1>15, <1>16, <1>17 DEF Next, ListenerStep

\* The router's maps, the deduplicator's and the records of the listener and of
\* the handlers keep their types, whoever runs between two steps of whom.
THEOREM TypeCorrect == Spec => []TypeOK
BY InitTyped, TypeStep, PTL DEF Spec

-----------------------------------------------------------------------------
(* Whom a reply reaches *)

\* A fingerprint leads to a notification of its own number only, and a handler
\* keeps to that number from the look-up of the key to the reply.
RouteInv ==
  /\ \A i \in Ids : idToKey[i] # NoKey => Number[idToKey[i]] = i[1]
  /\ \A h \in Handlers : Active(h) => jobs[h].id[1] = Number[jobs[h].from]
  /\ \A h \in Handlers :
       jobs[h].at \notin {"free", "waiting"} => Number[jobs[h].key] = jobs[h].id[1]
  /\ \A r \in reached : Number[r[1]] = Number[r[2]]

\* At first nothing is registered.
LEMMA RouteInvInit == Init => RouteInv
BY DEF Init, RouteInv, NoJob, Active

\* The steps of a handler keep to the number.
LEMMA RouteInvHandler ==
  ASSUME TypeOK, RouteInv, NEW h \in Handlers, HandlerStep(h)
  PROVE  RouteInv'
<1>. USE DEF Active
<1>1. CASE Done(h) /\ UNCHANGED <<idToKey, reached>>
  BY <1>1, DoneEffect DEF RouteInv
<1>2. CASE NoReply(h)
  BY <1>1, <1>2 DEF NoReply, router, history
<1>3. CASE LookUpKey(h)
  <2>1. CASE idToKey[jobs[h].id] = NoKey
    BY <1>1, <1>3, <2>1 DEF LookUpKey, router, history
  <2>2. CASE idToKey[jobs[h].id] # NoKey
    <3>1. /\ jobs[h].id \in Ids /\ jobs[h].at = "waiting"
          /\ UNCHANGED <<idToKey, reached>>
      BY <1>3, JobFields DEF LookUpKey, router, history
    <3>2. Number[idToKey[jobs[h].id]] = jobs[h].id[1]
      BY <2>2, <3>1 DEF RouteInv
    <3>. QED BY <1>3, <2>2, <3>1, <3>2, LookUpEffect DEF RouteInv
  <2>. QED BY <2>1, <2>2
<1>4. ASSUME NEW at \in JobSteps \ {"free"}, Goto(h, at),
             jobs[h].at \notin {"free", "waiting"},
             UNCHANGED <<idToKey, reached>>
      PROVE  RouteInv'
  BY <1>4, GotoEffect DEF RouteInv
<1>5. CASE LookUpEntry(h)
  <2>1. CASE Done(h)
    BY <1>1, <1>5, <2>1 DEF LookUpEntry, router, history
  <2>2. CASE Goto(h, "send")
    BY <1>4, <1>5, <2>2 DEF LookUpEntry, router, history, JobSteps
  <2>. QED BY <1>5, <2>1, <2>2 DEF LookUpEntry
<1>6. ASSUME NEW t \in Replies, Send(h, t) PROVE RouteInv'
  <2>1. /\ jobs[h].at = "send" /\ idToKey' = idToKey
        /\ reached' = reached \cup {<<jobs[h].from, jobs[h].key>>}
    BY <1>6 DEF Send, router
  <2>2. Number[jobs[h].from] = Number[jobs[h].key]
    BY <2>1 DEF RouteInv
  <2>3. \A r \in reached' : Number[r[1]] = Number[r[2]]
    BY <2>1, <2>2 DEF RouteInv
  <2>. QED BY <1>6, <2>1, <2>3, SendEffect DEF RouteInv
<1>7. CASE SendFails(h)
  BY <1>1, <1>7 DEF SendFails, router, history
<1>8. CASE MarkSent(h)
  BY <1>4, <1>8 DEF MarkSent, router, JobSteps
<1>9. CASE DropEntry(h)
  BY <1>4, <1>9 DEF DropEntry, JobSteps
<1>10. CASE DropId(h)
  <2>1. /\ Done(h) /\ jobs[h].id \in Ids /\ UNCHANGED reached
        /\ idToKey' = [idToKey EXCEPT ![jobs[h].id] = NoKey]
    BY <1>10, JobFields DEF DropId
  <2>2. \A i \in Ids : idToKey'[i] # NoKey => idToKey'[i] = idToKey[i]
    BY <2>1 DEF TypeOK
  <2>. QED BY <2>1, <2>2, DoneEffect DEF RouteInv
<1>. QED BY <1>2, <1>3, <1>5, <1>6, <1>7, <1>8, <1>9, <1>10 DEF HandlerStep

\* Every step keeps to the number.
LEMMA RouteInvStep == TypeOK /\ RouteInv /\ [Next]_vars => RouteInv'
<1>. SUFFICES ASSUME TypeOK, RouteInv, [Next]_vars PROVE RouteInv'
  OBVIOUS
<1>1. CASE UNCHANGED <<idToKey, jobs, reached>>
  BY <1>1 DEF RouteInv, Active
<1>2. CASE PutId
  <2>1. /\ Id \in Ids /\ Id[1] = Number[listener.key] /\ UNCHANGED <<jobs, reached>>
        /\ idToKey' = [idToKey EXCEPT ![Id] = listener.key]
    BY <1>2, ListenerFields DEF PutId, Id, Fingerprint
  <2>2. \A i \in Ids : idToKey'[i] # NoKey => Number[idToKey'[i]] = i[1]
    BY <2>1 DEF RouteInv, TypeOK
  <2>. QED BY <2>1, <2>2 DEF RouteInv, Active
<1>3. ASSUME NEW k, idToKey' = WithoutKey(k), UNCHANGED <<jobs, reached>>
      PROVE  RouteInv'
  <2>1. \A i \in Ids : idToKey'[i] # NoKey => idToKey'[i] = idToKey[i]
    BY <1>3 DEF WithoutKey
  <2>. QED BY <1>3, <2>1 DEF RouteInv, Active
<1>4. CASE EvictIds \/ ForgetIds
  BY <1>3, <1>4 DEF EvictIds, ForgetIds, history
<1>5. ASSUME NEW h \in Handlers, HandOver(h) PROVE RouteInv'
  <2>1. UNCHANGED <<idToKey, reached>>
    BY <1>5 DEF HandOver, router, history
  <2>2. Id[1] = Number[listener.key]
    BY DEF Id, Fingerprint
  <2>. QED BY <1>5, <2>1, <2>2, HandOverEffect DEF RouteInv, Active
<1>6. ASSUME NEW h \in Handlers, HandlerStep(h) PROVE RouteInv'
  BY <1>6, RouteInvHandler
<1>7. CASE OnListenerConnected \/ OnListenerDisconnected \/ Tick
  BY <1>1, <1>7
     DEF OnListenerConnected, OnListenerDisconnected, Tick, router, history
<1>8. ASSUME NEW k \in Keys, Removed(k) PROVE RouteInv'
  BY <1>1, <1>8 DEF Removed, router
<1>9. ASSUME NEW k \in Keys, NEW t \in AllTexts, Post(k, t) \/ PostEcho(k, t)
      PROVE  RouteInv'
  BY <1>1, <1>9 DEF Post, PostEcho, Begin, router
<1>10. CASE CheckSent \/ PutEntry \/ Evict \/ Duplicate \/ Forget
  BY <1>1, <1>10
     DEF CheckSent, PutEntry, Evict, Duplicate, Forget, router, history
<1>11. CASE UNCHANGED vars
  BY <1>1, <1>11 DEF vars
<1>. QED
  BY <1>2, <1>4, <1>5, <1>6, <1>7, <1>8, <1>9, <1>10, <1>11
     DEF Next, ListenerStep, AllTexts

\* sendReply answers a conversation of the same number as the one the message
\* came from, whatever the listener has registered, removed or evicted since: the
\* message id that a reply is looked up with holds the number of its sender.
\* Nothing is assumed about titles; those without digits share one number.
THEOREM RepliesKeepNumber == Spec => []ReplyKeepsNumber
<1>1. TypeOK /\ RouteInv /\ [Next]_vars => RouteInv'
  BY RouteInvStep
<1>2. RouteInv => ReplyKeepsNumber
  BY DEF RouteInv, ReplyKeepsNumber
<1>. QED BY <1>1, <1>2, RouteInvInit, TypeCorrect, PTL DEF Spec

-----------------------------------------------------------------------------
(* Messages in hand stay answerable *)

\* The handler of a login without a command runs on the listener's thread, so
\* that the listener waits for it, and there is one at most.
AckInv ==
  /\ \A h \in Handlers : Active(h) /\ KindOf(h) = "ack" => listener.at = "ack"
  /\ \A g, h \in Handlers :
       Active(g) /\ KindOf(g) = "ack" /\ Active(h) /\ KindOf(h) = "ack" => g = h

\* A handler that is not done leaves the others to themselves.
LEMMA AckFrame ==
  ASSUME TypeOK, AckInv, NEW h \in Handlers, Active(h),
         \A g \in Handlers \ {h} : jobs'[g] = jobs[g],
         jobs'[h].id = jobs[h].id, listener' = listener
  PROVE  AckInv'
BY DEF AckInv, Active, KindOf

\* The listener hands over one message at a time and waits until its handler has
\* taken it.
LEMMA AckInvStep == TypeOK /\ AckInv /\ [Next]_vars => AckInv'
<1>. SUFFICES ASSUME TypeOK, AckInv, [Next]_vars PROVE AckInv'
  OBVIOUS
<1>1. CASE UNCHANGED <<listener, jobs>>
  BY <1>1 DEF AckInv, Active, KindOf
\* The listener moves only when it waits for nobody.
<1>2. CASE listener.at # "ack" /\ UNCHANGED jobs
  BY <1>2 DEF AckInv, Active, KindOf
<1>3. CASE OnListenerConnected \/ OnListenerDisconnected \/ Tick
  BY <1>1, <1>3 DEF OnListenerConnected, OnListenerDisconnected, Tick
<1>4. ASSUME NEW k \in Keys, Removed(k) PROVE AckInv'
  BY <1>2, <1>4 DEF Removed, Idle
<1>5. ASSUME NEW k \in Keys, NEW t \in AllTexts, Post(k, t) \/ PostEcho(k, t)
      PROVE  AckInv'
  BY <1>2, <1>5 DEF Post, PostEcho, Begin, Idle
<1>6. CASE CheckSent \/ PutId \/ PutEntry \/ Evict \/ EvictIds \/ Duplicate
           \/ Forget \/ ForgetIds
  BY <1>2, <1>6
     DEF CheckSent, PutId, PutEntry, Evict, EvictIds, Duplicate, Forget,
         ForgetIds
<1>7. ASSUME NEW h \in Handlers, HandOver(h) PROVE AckInv'
  <2>1. \A g \in Handlers : Active(g) => KindOf(g) # "ack"
    BY <1>7, HandOverEffect DEF AckInv
  <2>2. \A g \in Handlers \ {h} : Active(g)' => KindOf(g)' # "ack"
    BY <1>7, <2>1, HandOverEffect DEF Active, KindOf
  <2>3. KindOf(h)' = Kind[listener.text]
    BY <1>7, HandOverEffect DEF KindOf, Id, Fingerprint
  <2>4. KindOf(h)' = "ack" => listener'.at = "ack"
    BY <1>7, <2>3, HandOverEffect
  <2>. QED BY <2>2, <2>4 DEF AckInv
<1>8. ASSUME NEW h \in Handlers, HandlerStep(h) PROVE AckInv'
  <2>1. CASE Done(h) /\ Active(h)
    <3>1. \A g \in Handlers : Active(g)' => /\ g # h /\ Active(g)
                                            /\ KindOf(g)' = KindOf(g)
      BY <2>1, DoneEffect DEF Active, KindOf
    <3>2. CASE KindOf(h) = "ack"
      BY <2>1, <3>1, <3>2 DEF AckInv
    <3>3. CASE KindOf(h) # "ack"
      BY <2>1, <3>1, <3>3, DoneEffect DEF AckInv
    <3>. QED BY <3>2, <3>3
  <2>2. Active(h)
    BY <1>8 DEF HandlerStep, NoReply, LookUpKey, LookUpEntry, Send, SendFails,
                MarkSent, DropEntry, DropId, Active
  <2>3. ASSUME NEW at \in JobSteps \ {"free"}, Goto(h, at) PROVE AckInv'
    BY <2>2, <2>3, GotoEffect, AckFrame
  <2>4. CASE NoReply(h) \/ SendFails(h) \/ DropId(h)
    BY <2>1, <2>2, <2>4 DEF NoReply, SendFails, DropId
  <2>5. CASE LookUpKey(h)
    <3>1. CASE idToKey[jobs[h].id] = NoKey
      BY <2>1, <2>2, <2>5, <3>1 DEF LookUpKey
    <3>2. CASE idToKey[jobs[h].id] # NoKey
      BY <2>2, <2>5, <3>2, LookUpEffect, AckFrame
    <3>. QED BY <3>1, <3>2
  <2>6. CASE LookUpEntry(h)
    BY <2>1, <2>2, <2>3, <2>6 DEF LookUpEntry, JobSteps
  <2>7. ASSUME NEW t \in Replies, Send(h, t) PROVE AckInv'
    BY <2>2, <2>7, SendEffect, AckFrame
  <2>8. CASE MarkSent(h) \/ DropEntry(h)
    BY <2>3, <2>8 DEF MarkSent, DropEntry, JobSteps
  <2>. QED BY <1>8, <2>4, <2>5, <2>6, <2>7, <2>8 DEF HandlerStep
<1>9. CASE UNCHANGED vars
  BY <1>1, <1>9 DEF vars
<1>. QED
  BY <1>3, <1>4, <1>5, <1>6, <1>7, <1>8, <1>9 DEF Next, ListenerStep, AllTexts

\* It holds in every state.
LEMMA AckInvHolds == Spec => []AckInv
<1>1. Init => AckInv
  BY DEF Init, AckInv, Active, NoJob
<1>. QED BY <1>1, AckInvStep, TypeCorrect, PTL DEF Spec

\* A message whose notification is still there.
Kept(i) == i \in gone \/ idToKey[i] \in entries

\* From the first put of register to the hand-over the message is kept, also
\* while the listener evicts an other one; and the ids of a key are removed only
\* after its entry.
KeptInv ==
  /\ listener.at = "entry" => Id \in gone \/ idToKey[Id] = listener.key
  /\ listener.at \in {"evict", "evict_ids", "new"} => Kept(Id)
  /\ listener.at = "evict_ids" => listener.old \notin entries
  /\ listener.at = "forget_ids" => listener.key \notin entries

\* The same of the messages that handlers have, and of the listener's.
AnswerInv == KeptInv /\ AnswerableUntilGone

\* A handler that is done with its message, or goes on with it, changes nothing
\* for the others.
LEMMA AnswerFrame ==
  ASSUME TypeOK, AckInv, AnswerInv, NEW h \in Handlers, Active(h),
         \A g \in Handlers \ {h} : jobs'[g] = jobs[g],
         jobs'[h].at # "waiting",
         \/ listener' = listener
         \/ listener' = NoEvent /\ KindOf(h) = "ack",
         gone \subseteq gone',
         \A i \in Ids : i \notin gone' => /\ idToKey'[i] = idToKey[i]
                                          /\ idToKey[i] \in entries => idToKey[i] \in entries',
         entries' \subseteq entries
  PROVE  AnswerInv'
<1>1. \A g \in Handlers : jobs'[g].at = "waiting" =>
        /\ g # h /\ jobs'[g] = jobs[g] /\ Active(g) /\ jobs[g].id \in Ids
  BY JobFields DEF Active
<1>2. CASE listener' = listener
  <2>1. Id' = Id
    BY <1>2 DEF Id, Fingerprint
  <2>2. KeptInv'
    BY <1>2, <2>1, ListenerFields DEF AnswerInv, KeptInv, Kept
  <2>3. AnswerableUntilGone'
    BY <1>1, <1>2 DEF AnswerInv, AnswerableUntilGone
  <2>. QED BY <2>2, <2>3 DEF AnswerInv
<1>3. CASE listener' = NoEvent /\ KindOf(h) = "ack"
  <2>1. listener.at = "ack" /\ listener'.at = "idle"
    BY <1>3 DEF AckInv, NoEvent
  <2>2. KeptInv'
    BY <2>1 DEF KeptInv
  <2>3. AnswerableUntilGone'
    BY <1>1, <2>1 DEF AnswerInv, AnswerableUntilGone
  <2>. QED BY <2>2, <2>3 DEF AnswerInv
<1>. QED BY <1>2, <1>3

\* The steps of a handler drop a message only after its answer.
LEMMA AnswerHandler ==
  ASSUME TypeOK, AckInv, AnswerInv, NEW h \in Handlers, HandlerStep(h)
  PROVE  AnswerInv'
<1>1. Active(h)
  BY DEF HandlerStep, NoReply, LookUpKey, LookUpEntry, Send, SendFails,
         MarkSent, DropEntry, DropId, Active
<1>2. CASE Done(h) /\ UNCHANGED <<idToKey, entries, gone>>
  BY <1>1, <1>2, DoneEffect, AnswerFrame
<1>3. ASSUME NEW at \in JobSteps \ {"free"}, Goto(h, at), at # "waiting",
             UNCHANGED <<idToKey, entries, gone>>
      PROVE  AnswerInv'
  BY <1>1, <1>3, GotoEffect, AnswerFrame
<1>4. CASE NoReply(h) \/ SendFails(h)
  BY <1>2, <1>4 DEF NoReply, SendFails, router, history
<1>5. CASE LookUpKey(h)
  <2>1. CASE idToKey[jobs[h].id] = NoKey
    BY <1>2, <1>5, <2>1 DEF LookUpKey, router, history
  <2>2. CASE idToKey[jobs[h].id] # NoKey
    <3>1. UNCHANGED <<idToKey, entries, gone>>
      BY <1>5 DEF LookUpKey, router, history
    <3>. QED BY <1>1, <1>5, <2>2, <3>1, LookUpEffect, AnswerFrame
  <2>. QED BY <2>1, <2>2
<1>6. CASE LookUpEntry(h)
  BY <1>2, <1>3, <1>6 DEF LookUpEntry, router, history, JobSteps
<1>7. ASSUME NEW t \in Replies, Send(h, t) PROVE AnswerInv'
  <2>1. UNCHANGED <<idToKey, entries, gone>>
    BY <1>7 DEF Send, router
  <2>. QED BY <1>1, <1>7, <2>1, SendEffect, AnswerFrame
<1>8. CASE MarkSent(h)
  BY <1>3, <1>8 DEF MarkSent, router, JobSteps
<1>9. CASE DropEntry(h)
  <2>1. /\ Goto(h, "drop_id") /\ "drop_id" \in JobSteps \ {"free"}
        /\ idToKey' = idToKey /\ entries' = entries \ {jobs[h].key}
        /\ gone' = gone \cup {i \in Ids : idToKey[i] = jobs[h].key}
    BY <1>9 DEF DropEntry, JobSteps, IdsOf
  <2>. QED BY <1>1, <2>1, GotoEffect, AnswerFrame
<1>10. CASE DropId(h)
  <2>1. /\ Done(h) /\ entries' = entries /\ gone' = gone \cup {jobs[h].id}
        /\ idToKey' = [idToKey EXCEPT ![jobs[h].id] = NoKey]
    BY <1>10 DEF DropId
  <2>2. \A i \in Ids : i \notin gone' => idToKey'[i] = idToKey[i]
    BY <2>1 DEF TypeOK
  <2>. QED BY <1>1, <2>1, <2>2, DoneEffect, AnswerFrame
<1>. QED BY <1>4, <1>5, <1>6, <1>7, <1>8, <1>9, <1>10 DEF HandlerStep

\* Every step keeps the message and its notification together.
LEMMA AnswerInvStep == TypeOK /\ AckInv /\ AnswerInv /\ [Next]_vars => AnswerInv'
<1>. SUFFICES ASSUME TypeOK, AckInv, AnswerInv, [Next]_vars PROVE AnswerInv'
  OBVIOUS
<1>0. \A h \in Handlers : jobs[h].at = "waiting" => jobs[h].id \in Ids
  BY JobFields DEF Active
<1>1. CASE UNCHANGED <<idToKey, entries, gone, jobs, listener>>
  BY <1>1 DEF AnswerInv, KeptInv, Kept, AnswerableUntilGone, Id, Fingerprint
\* The listener moves where it has promised nothing.
<1>2. CASE /\ UNCHANGED <<idToKey, entries, gone, jobs>>
           /\ listener.at # "entry"
           /\ listener'.at \in {"idle", "check", "id", "forget"}
  <2>1. KeptInv'
    BY <1>2 DEF KeptInv
  <2>2. AnswerableUntilGone'
    BY <1>2 DEF AnswerInv, AnswerableUntilGone
  <2>. QED BY <2>1, <2>2 DEF AnswerInv
<1>3. CASE OnListenerConnected \/ OnListenerDisconnected \/ Tick
  BY <1>1, <1>3
     DEF OnListenerConnected, OnListenerDisconnected, Tick, router, history
<1>4. ASSUME NEW k \in Keys, Removed(k) PROVE AnswerInv'
  <2>1. listener'.at = "forget" /\ listener.at = "idle"
    BY <1>4 DEF Removed, NoEvent, Idle
  <2>. QED BY <1>2, <1>4, <2>1 DEF Removed, router
<1>5. ASSUME NEW k \in Keys, NEW t \in AllTexts, Post(k, t) \/ PostEcho(k, t)
      PROVE  AnswerInv'
  <2>1. listener'.at = "check" /\ listener.at = "idle"
    BY <1>5 DEF Post, PostEcho, Begin, NoEvent, Idle
  <2>. QED BY <1>2, <1>5, <2>1 DEF Post, PostEcho, Begin, router
<1>6. CASE CheckSent
  <2>1. listener'.at \in {"idle", "id"} /\ listener.at = "check"
    BY <1>6, ListenerEffect DEF CheckSent, NoEvent
  <2>. QED BY <1>2, <1>6, <2>1 DEF CheckSent, router, history
<1>7. CASE Duplicate
  <2>1. listener'.at = "idle" /\ listener.at = "new"
    BY <1>7 DEF Duplicate, NoEvent
  <2>. QED BY <1>2, <1>7, <2>1 DEF Duplicate, router, history
<1>8. CASE PutId
  <2>1. /\ listener.at = "id" /\ listener'.at = "entry" /\ listener'.key = listener.key
        /\ Id' = Id /\ Id \in Ids /\ UNCHANGED <<entries, jobs>>
        /\ idToKey' = [idToKey EXCEPT ![Id] = listener.key] /\ gone' = gone \ {Id}
    BY <1>8, ListenerEffect, ListenerFields DEF PutId
  <2>2. /\ idToKey'[Id] = listener.key
        /\ \A i \in Ids : i # Id => idToKey'[i] = idToKey[i]
    BY <2>1 DEF TypeOK
  <2>3. KeptInv'
    BY <2>1, <2>2 DEF KeptInv
  <2>4. AnswerableUntilGone'
    BY <1>0, <2>1, <2>2 DEF AnswerInv, AnswerableUntilGone
  <2>. QED BY <2>3, <2>4 DEF AnswerInv
<1>9. CASE PutEntry
  <2>1. /\ listener.at = "entry" /\ listener'.at \in {"evict", "new"}
        /\ Id' = Id /\ UNCHANGED <<idToKey, gone, jobs>>
        /\ entries' = entries \cup {listener.key}
    BY <1>9, ListenerEffect DEF PutEntry, history
  <2>3. KeptInv'
    BY <2>1 DEF AnswerInv, KeptInv, Kept
  <2>4. AnswerableUntilGone'
    BY <2>1 DEF AnswerInv, AnswerableUntilGone
  <2>. QED BY <2>3, <2>4 DEF AnswerInv
<1>10. CASE Evict
  <2>1. /\ listener.at = "evict" /\ listener'.at = "evict_ids"
        /\ listener'.old = listener.old
        /\ Id' = Id /\ Id \in Ids /\ UNCHANGED <<idToKey, jobs>>
        /\ entries' = entries \ {listener.old}
        /\ gone' = gone \cup {i \in Ids : idToKey[i] = listener.old}
    BY <1>10, ListenerEffect, ListenerFields DEF Evict, IdsOf
  <2>3. KeptInv'
    BY <2>1 DEF AnswerInv, KeptInv, Kept
  <2>4. AnswerableUntilGone'
    BY <1>0, <2>1 DEF AnswerInv, AnswerableUntilGone
  <2>. QED BY <2>3, <2>4 DEF AnswerInv
<1>11. CASE EvictIds
  <2>1. /\ listener.at = "evict_ids" /\ listener'.at = "new"
        /\ Id' = Id /\ Id \in Ids /\ UNCHANGED <<entries, gone, jobs>>
        /\ listener.old \notin entries
        /\ \A i \in Ids : idToKey[i] # listener.old => idToKey'[i] = idToKey[i]
    BY <1>11, ListenerEffect, ListenerFields
       DEF EvictIds, WithoutKey, IdsOf, history, AnswerInv, KeptInv
  <2>3. KeptInv'
    BY <2>1 DEF AnswerInv, KeptInv, Kept
  <2>4. AnswerableUntilGone'
    BY <1>0, <2>1 DEF AnswerInv, AnswerableUntilGone
  <2>. QED BY <2>3, <2>4 DEF AnswerInv
<1>12. CASE Forget
  <2>1. /\ listener.at = "forget" /\ listener'.at = "forget_ids"
        /\ listener'.key = listener.key /\ UNCHANGED <<idToKey, jobs>>
        /\ entries' = entries \ {listener.key}
        /\ gone' = gone \cup {i \in Ids : idToKey[i] = listener.key}
    BY <1>12, ListenerEffect DEF Forget, IdsOf
  <2>3. KeptInv'
    BY <2>1 DEF KeptInv
  <2>4. AnswerableUntilGone'
    BY <1>0, <2>1 DEF AnswerInv, AnswerableUntilGone
  <2>. QED BY <2>3, <2>4 DEF AnswerInv
<1>13. CASE ForgetIds
  <2>1. /\ listener.at = "forget_ids" /\ listener'.at = "idle"
        /\ UNCHANGED <<entries, gone, jobs>>
        /\ listener.key \notin entries
        /\ \A i \in Ids : idToKey[i] # listener.key => idToKey'[i] = idToKey[i]
    BY <1>13
       DEF ForgetIds, NoEvent, WithoutKey, IdsOf, history, AnswerInv, KeptInv
  <2>3. KeptInv'
    BY <2>1 DEF KeptInv
  <2>4. AnswerableUntilGone'
    BY <1>0, <2>1 DEF AnswerInv, AnswerableUntilGone
  <2>. QED BY <2>3, <2>4 DEF AnswerInv
<1>14. ASSUME NEW h \in Handlers, HandOver(h) PROVE AnswerInv'
  <2>1. /\ UNCHANGED <<idToKey, entries, gone>> /\ listener.at = "new"
        /\ listener'.at \in {"idle", "ack"}
    BY <1>14, HandOverEffect DEF HandOver, router, history, NoEvent
  <2>2. Kept(Id)
    BY <2>1 DEF AnswerInv, KeptInv
  <2>3. KeptInv'
    BY <2>1 DEF KeptInv
  <2>4. AnswerableUntilGone'
    BY <1>14, <2>1, <2>2, HandOverEffect
       DEF AnswerInv, AnswerableUntilGone, Kept
  <2>. QED BY <2>3, <2>4 DEF AnswerInv
<1>15. ASSUME NEW h \in Handlers, HandlerStep(h) PROVE AnswerInv'
  BY <1>15, AnswerHandler
<1>16. CASE UNCHANGED vars
  BY <1>1, <1>16 DEF vars
<1>. QED
  BY <1>3, <1>4, <1>5, <1>6, <1>7, <1>8, <1>9, <1>10, <1>11, <1>12, <1>13,
     <1>14,
     <1>15, <1>16 DEF Next, ListenerStep, AllTexts

\* Neither the two puts of register nor the two removals of an eviction, of a
\* dismissal or of an other reply, in whatever order they fall, cost a message in
\* hand its notification while that notification is still there.
THEOREM Answerable == Spec => []AnswerableUntilGone
<1>1. Init => AnswerInv
  BY DEF Init, AnswerInv, KeptInv, AnswerableUntilGone, NoEvent, NoJob
<1>2. AnswerInv => AnswerableUntilGone
  BY DEF AnswerInv
<1>. QED BY <1>1, <1>2, AnswerInvStep, AckInvHolds, TypeCorrect, PTL DEF Spec

-----------------------------------------------------------------------------
(* No message is answered twice in five minutes *)

\* The handlers that may still send the reply to message i.
Pending(i) ==
  {h \in Handlers : jobs[h].at \in {"waiting", "lookup", "send"} /\ jobs[h].id = i}

\* Each reply to a message, sent or to come, took an isNew of its own, and an
\* entry of seen outlives Ttl ticks: n replies need n * Ttl ticks, of which the
\* last entry has seen[i] to go.
CountInv ==
  \A i \in Ids : Ttl * (replies[i] + Cardinality(Pending(i))) <= ticks + seen[i]

\* Pending sets are finite.
LEMMA PendingFinite ==
  ASSUME NEW i
  PROVE  IsFiniteSet(Pending(i)) /\ Cardinality(Pending(i)) \in Nat
<1>1. Pending(i) \subseteq Handlers
  BY DEF Pending
<1>2. IsFiniteSet(Pending(i))
  BY <1>1, RouterAssumption, FS_Subset
<1>. QED BY <1>2, FS_CardinalityType

\* A subset of a finite set has no more elements.
LEMMA FewerPending ==
  ASSUME NEW i, Pending(i)' \subseteq Pending(i)
  PROVE  /\ Cardinality(Pending(i)') \in Nat
         /\ Cardinality(Pending(i)') <= Cardinality(Pending(i))
BY PendingFinite, FS_Subset, FS_CardinalityType

\* Less to count, and more time for it.
LEMMA MoreTime ==
  ASSUME NEW t \in Nat, NEW r \in Nat, NEW m \in Nat, NEW n \in Nat, m <= n,
         NEW a \in Nat, NEW b \in Nat, a <= b, t * (r + n) <= a
  PROVE  t * (r + m) <= b
<1>1. t * (r + n) = t * (r + m) + t * (n - m)
  OBVIOUS
<1>2. t * (n - m) >= 0 /\ t * (n - m) \in Int
  OBVIOUS
<1>. QED BY <1>1, <1>2

\* The bound of the property from the inequality of the invariant.
LEMMA DivBound ==
  ASSUME NEW a \in Nat, NEW b \in Nat, NEW c \in Nat \ {0}, c * a <= b + c
  PROVE  a <= 1 + b \div c
<1>. DEFINE q == b \div c
<1>1. q \in Nat /\ b < c * (q + 1)
  OBVIOUS
<1>2. ASSUME a >= q + 2 PROVE FALSE
  <2>1. c * a = c * (q + 2) + c * (a - (q + 2))
    BY <1>1
  <2>2. c * (a - (q + 2)) >= 0
    BY <1>1, <1>2
  <2>3. c * (q + 2) = c * (q + 1) + c
    BY <1>1
  <2>. QED BY <1>1, <2>1, <2>2, <2>3
<1>. QED BY <1>1, <1>2

\* What the count of one message is made of.
LEMMA CountTypes ==
  ASSUME TypeOK, NEW i \in Ids
  PROVE  /\ Ttl \in Nat \ {0} /\ replies[i] \in Nat /\ Cardinality(Pending(i)) \in Nat
         /\ ticks \in Nat /\ seen[i] \in Nat /\ seen[i] <= Ttl
BY PendingFinite, RouterAssumption DEF TypeOK

\* A step that sends nothing and hands nothing over.
LEMMA CountFrame ==
  ASSUME TypeOK, TypeOK', CountInv, NEW i \in Ids,
         Pending(i)' \subseteq Pending(i), replies'[i] = replies[i],
         ticks + seen[i] <= ticks' + seen'[i]
  PROVE  Ttl * (replies'[i] + Cardinality(Pending(i)')) <= ticks' + seen'[i]
<1>1. /\ Ttl \in Nat \ {0} /\ replies[i] \in Nat /\ Cardinality(Pending(i)) \in Nat
      /\ ticks + seen[i] \in Nat
  BY CountTypes
<1>2. ticks' + seen'[i] \in Nat
  BY DEF TypeOK
<1>3. /\ Cardinality(Pending(i)') \in Nat
      /\ Cardinality(Pending(i)') <= Cardinality(Pending(i))
  BY FewerPending
<1>4. Ttl * (replies[i] + Cardinality(Pending(i))) <= ticks + seen[i]
  BY DEF CountInv
<1>. QED BY <1>1, <1>2, <1>3, <1>4, MoreTime

\* Whatever a handler does but sending.
LEMMA CountHandler ==
  ASSUME TypeOK, NEW h \in Handlers, NEW i \in Ids,
         \A g \in Handlers \ {h} : jobs'[g] = jobs[g],
         \/ jobs'[h].at \notin {"waiting", "lookup", "send"}
         \/ /\ jobs[h].at \in {"waiting", "lookup", "send"}
            /\ jobs'[h].id = jobs[h].id
  PROVE  Pending(i)' \subseteq Pending(i)
BY DEF Pending

\* A reply more needs a message accepted more, and that needs the time to live of
\* the last one to be over.
LEMMA CountInvStep == TypeOK /\ TypeOK' /\ CountInv /\ [Next]_vars => CountInv'
<1>. SUFFICES ASSUME TypeOK, TypeOK', CountInv, [Next]_vars,
                     NEW i \in Ids
              PROVE  Ttl * (replies'[i] + Cardinality(Pending(i)')) <= ticks' + seen'[i]
  BY DEF CountInv
<1>. DEFINE Bounded == Ttl * (replies'[i] + Cardinality(Pending(i)')) <= ticks' + seen'[i]
<1>0. /\ Ttl \in Nat \ {0} /\ replies[i] \in Nat /\ Cardinality(Pending(i)) \in Nat
      /\ ticks \in Nat /\ seen[i] \in Nat /\ ticks + seen[i] <= ticks + seen[i]
  BY CountTypes
<1>1. CASE UNCHANGED <<jobs, replies, ticks, seen>>
  <2>1. Pending(i)' = Pending(i)
    BY <1>1 DEF Pending
  <2>. QED BY <1>0, <1>1, <2>1, CountFrame
<1>2. CASE OnListenerConnected \/ OnListenerDisconnected
  BY <1>1, <1>2 DEF OnListenerConnected, OnListenerDisconnected, dedup, history
<1>3. CASE Tick
  <2>1. /\ replies'[i] = replies[i] /\ jobs' = jobs /\ ticks' = ticks + 1
        /\ seen'[i] = IF seen[i] = 0 THEN 0 ELSE seen[i] - 1
    BY <1>3 DEF Tick, history
  <2>2. Pending(i)' = Pending(i)
    BY <2>1 DEF Pending
  <2>3. ticks + seen[i] <= ticks' + seen'[i]
    BY <1>0, <2>1
  <2>. QED BY <2>1, <2>2, <2>3, CountFrame
<1>4. ASSUME NEW k \in Keys, Removed(k) PROVE Bounded
  BY <1>1, <1>4 DEF Removed, dedup
<1>5. ASSUME NEW k \in Keys, NEW t \in AllTexts, Post(k, t) \/ PostEcho(k, t)
      PROVE  Bounded
  BY <1>1, <1>5 DEF Post, PostEcho, Begin, dedup
<1>6. CASE CheckSent \/ PutId \/ PutEntry \/ Evict \/ EvictIds \/ Duplicate
           \/ Forget \/ ForgetIds
  BY <1>1, <1>6
     DEF CheckSent, PutId, PutEntry, Evict, EvictIds, Duplicate, Forget,
         ForgetIds,
         dedup, history
<1>7. ASSUME NEW h \in Handlers, HandOver(h) PROVE Bounded
  <2>1. /\ UNCHANGED <<replies, ticks>> /\ seen[Id] = 0 /\ Id \in Ids
        /\ seen' = [seen EXCEPT ![Id] = Ttl]
    BY <1>7, HandOverEffect DEF HandOver, history, Unseen
  <2>2. CASE i = Id
    <3>1. Pending(i)' = Pending(i) \cup {h} /\ h \notin Pending(i)
      BY <1>7, <2>2, HandOverEffect DEF Pending, Active
    <3>2. Cardinality(Pending(i)') = Cardinality(Pending(i)) + 1
      BY <3>1, PendingFinite, FS_AddElement
    <3>3. seen[i] = 0 /\ seen'[i] = Ttl
      BY <2>1, <2>2 DEF TypeOK
    <3>4. Ttl * (replies[i] + Cardinality(Pending(i))) <= ticks
      BY <1>0, <3>3 DEF CountInv
    <3>5. Ttl * (replies[i] + (Cardinality(Pending(i)) + 1))
            = Ttl * (replies[i] + Cardinality(Pending(i))) + Ttl
      BY <1>0
    <3>. QED BY <1>0, <2>1, <3>2, <3>3, <3>4, <3>5
  <2>3. CASE i # Id
    <3>1. Pending(i)' \subseteq Pending(i)
      BY <1>7, <2>3, HandOverEffect DEF Pending
    <3>2. seen'[i] = seen[i]
      BY <2>1, <2>3 DEF TypeOK
    <3>. QED BY <1>0, <2>1, <3>1, <3>2, CountFrame
  <2>. QED BY <2>2, <2>3
<1>8. ASSUME NEW h \in Handlers, HandlerStep(h) PROVE Bounded
  <2>1. CASE UNCHANGED <<replies, ticks, seen>> /\ Pending(i)' \subseteq Pending(i)
    BY <1>0, <2>1, CountFrame
  <2>2. CASE NoReply(h) \/ SendFails(h) \/ DropId(h)
    <3>1. Done(h) /\ UNCHANGED <<replies, ticks, seen>>
      BY <2>2 DEF NoReply, SendFails, DropId, dedup, history
    <3>. QED BY <2>1, <3>1, DoneEffect, CountHandler
  <2>3. CASE LookUpKey(h)
    <3>1. UNCHANGED <<replies, ticks, seen>>
      BY <2>3 DEF LookUpKey, dedup, history
    <3>2. CASE idToKey[jobs[h].id] = NoKey
      BY <2>1, <2>3, <3>1, <3>2, DoneEffect, CountHandler DEF LookUpKey
    <3>3. CASE idToKey[jobs[h].id] # NoKey
      BY <2>1, <2>3, <3>1, <3>3, LookUpEffect, CountHandler
    <3>. QED BY <3>2, <3>3
  <2>4. CASE LookUpEntry(h)
    <3>1. jobs[h].at = "lookup" /\ Active(h) /\ UNCHANGED <<replies, ticks, seen>>
      BY <2>4 DEF LookUpEntry, dedup, history, Active
    <3>2. CASE Goto(h, "send")
      <4>1. "send" \in JobSteps \ {"free"}
        BY DEF JobSteps
      <4>. QED BY <2>1, <3>1, <3>2, <4>1, GotoEffect, CountHandler
    <3>3. CASE Done(h)
      BY <2>1, <3>1, <3>3, DoneEffect, CountHandler
    <3>. QED BY <2>4, <3>2, <3>3 DEF LookUpEntry
  <2>5. ASSUME NEW t \in Replies, Send(h, t) PROVE Bounded
    <3>1. /\ jobs[h].at = "send" /\ jobs[h].id \in Ids /\ UNCHANGED <<ticks, seen>>
          /\ replies' = [replies EXCEPT ![jobs[h].id] = @ + 1]
      BY <2>5, JobFields DEF Send, dedup, Active
    <3>2. CASE i = jobs[h].id
      <4>1. Pending(i)' = Pending(i) \ {h} /\ h \in Pending(i)
        BY <2>5, <3>1, <3>2, SendEffect DEF Pending
      <4>2. Cardinality(Pending(i)') = Cardinality(Pending(i)) - 1
        BY <4>1, PendingFinite, FS_RemoveElement
      <4>3. replies'[i] = replies[i] + 1
        BY <3>1, <3>2 DEF TypeOK
      <4>4. replies'[i] + Cardinality(Pending(i)') = replies[i] + Cardinality(Pending(i))
        BY <1>0, <4>2, <4>3
      <4>. QED BY <3>1, <4>4 DEF CountInv
    <3>3. CASE i # jobs[h].id
      <4>1. Pending(i)' \subseteq Pending(i) /\ replies'[i] = replies[i]
        BY <2>5, <3>1, <3>3, SendEffect DEF Pending, TypeOK
      <4>. QED BY <1>0, <3>1, <4>1, CountFrame
    <3>. QED BY <3>2, <3>3
  <2>6. CASE MarkSent(h) \/ DropEntry(h)
    <3>1. /\ Active(h) /\ UNCHANGED <<replies, ticks, seen>>
          /\ Goto(h, "drop") \/ Goto(h, "drop_id")
      BY <2>6 DEF MarkSent, DropEntry, dedup, Active
    <3>2. "drop" \in JobSteps \ {"free"} /\ "drop_id" \in JobSteps \ {"free"}
      BY DEF JobSteps
    <3>3. /\ \A g \in Handlers \ {h} : jobs'[g] = jobs[g]
          /\ jobs'[h].at \in {"drop", "drop_id"}
      BY <3>1, <3>2, GotoEffect
    <3>. QED BY <2>1, <3>1, <3>3, CountHandler
  <2>. QED BY <1>8, <2>2, <2>3, <2>4, <2>5, <2>6 DEF HandlerStep
<1>9. CASE UNCHANGED vars
  BY <1>1, <1>9 DEF vars
<1>. QED
  BY <1>2, <1>3, <1>4, <1>5, <1>6, <1>7, <1>8, <1>9
     DEF Next, ListenerStep, AllTexts

\* At first nothing is counted.
LEMMA CountInvInit == Init => CountInv
<1>. SUFFICES ASSUME Init, NEW i \in Ids
              PROVE  Ttl * (replies[i] + Cardinality(Pending(i))) <= ticks + seen[i]
  BY DEF CountInv
<1>1. Pending(i) = {}
  BY DEF Init, Pending, NoJob
<1>2. Cardinality(Pending(i)) = 0
  BY <1>1, FS_EmptySet
<1>3. replies[i] = 0 /\ ticks = 0 /\ seen[i] = 0
  BY DEF Init
<1>. QED BY <1>2, <1>3, RouterAssumption

\* However often a notification is posted again, and whatever other handlers,
\* evictions and dismissals fall between: each reply to a message takes a full
\* INCOMING_TTL_MS of its own.
THEOREM NoDuplicates == Spec => []NoDuplicateReply
<1>1. TypeOK /\ CountInv => NoDuplicateReply
  <2>. SUFFICES ASSUME TypeOK, CountInv, NEW i \in Ids
                PROVE  replies[i] <= 1 + ticks \div Ttl
    BY DEF NoDuplicateReply
  <2>1. /\ Ttl \in Nat \ {0} /\ replies[i] \in Nat /\ Cardinality(Pending(i)) \in Nat
        /\ ticks \in Nat /\ seen[i] \in Nat /\ seen[i] <= Ttl
    BY CountTypes
  <2>2. Ttl * (replies[i] + Cardinality(Pending(i))) <= ticks + seen[i]
    BY DEF CountInv
  <2>3. Ttl * (replies[i] + 0) <= ticks + Ttl
    BY <2>1, <2>2, MoreTime
  <2>4. Ttl * replies[i] <= ticks + Ttl
    BY <2>1, <2>3
  <2>. QED BY <2>1, <2>4, DivBound
<1>. QED BY <1>1, CountInvInit, CountInvStep, TypeCorrect, PTL DEF Spec
=============================================================================
