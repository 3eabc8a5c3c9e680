-------------------------- MODULE EmailMonitorProofs --------------------------
(***************************************************************************)
(* Theorems about EmailMonitor, for any mail, any number of fetches, any   *)
(* page, list and context size and any number of crashes.                  *)
(***************************************************************************)
EXTENDS EmailMonitor, FiniteSetTheorems, TLAPS

-----------------------------------------------------------------------------
(* Sequences of mails *)

\* The mails that have arrived stay among those that will have.
LEMMA SeqGrows ==
  ASSUME NEW a \in Int, NEW b \in Int, a <= b, NEW s \in Seq(1..a)
  PROVE  s \in Seq(1..b)
OBVIOUS

\* The head of a fetch's list, and what is left of it.
LEMMA HeadAndTail ==
  ASSUME NEW S, NEW s \in Seq(S), s # <<>>
  PROVE  /\ Len(s) \in Nat \ {0} /\ Head(s) = s[1] /\ Head(s) \in S
         /\ Tail(s) \in Seq(S) /\ Len(Tail(s)) = Len(s) - 1
         /\ \A k \in 1..Len(Tail(s)) : Tail(s)[k] = s[k + 1]
OBVIOUS

\* The mails a list holds are its head and those of its tail.
LEMMA RangeOfTail ==
  ASSUME NEW S, NEW s \in Seq(S), s # <<>>
  PROVE  Range(s) = {Head(s)} \cup Range(Tail(s))
<1>1. /\ Len(s) \in Nat \ {0} /\ Head(s) = s[1] /\ Tail(s) \in Seq(S)
      /\ Len(Tail(s)) = Len(s) - 1
      /\ \A k \in 1..Len(Tail(s)) : Tail(s)[k] = s[k + 1]
  BY HeadAndTail
<1>2. DOMAIN s = 1..Len(s) /\ DOMAIN Tail(s) = 1..Len(Tail(s))
  BY <1>1
<1>3. ASSUME NEW x \in Range(s) PROVE x \in {Head(s)} \cup Range(Tail(s))
  <2>1. PICK k \in 1..Len(s) : x = s[k] BY <1>2 DEF Range
  <2>2. CASE k = 1 BY <1>1, <2>1, <2>2
  <2>3. CASE k # 1
    <3>1. k - 1 \in 1..Len(Tail(s)) /\ Tail(s)[k - 1] = s[k]
      BY <1>1, <2>1, <2>3
    <3>. QED BY <1>2, <2>1, <3>1 DEF Range
  <2>. QED BY <2>2, <2>3
<1>4. Head(s) \in Range(s)
  BY <1>1, <1>2 DEF Range
<1>5. ASSUME NEW x \in Range(Tail(s)) PROVE x \in Range(s)
  <2>1. PICK k \in 1..Len(Tail(s)) : x = Tail(s)[k] BY <1>2 DEF Range
  <2>2. k + 1 \in 1..Len(s) /\ x = s[k + 1] BY <1>1, <2>1
  <2>. QED BY <1>2, <2>2 DEF Range
<1>. QED BY <1>3, <1>4, <1>5

\* A listing of some of the mails that have arrived is a list of them.
LEMMA ListingType ==
  ASSUME NEW n \in Int, NEW S, S \subseteq 1..n, NEW s \in Listings(S)
  PROVE  s \in Seq(1..n) /\ Range(s) = S
<1>1. IsFiniteSet(1..n)
  BY FS_Interval
<1>2. Cardinality(S) \in Nat
  BY <1>1, FS_Subset, FS_CardinalityType
<1>3. s \in [1..Cardinality(S) -> S] /\ Range(s) = S
  BY DEF Listings
<1>4. s \in [1..Cardinality(S) -> 1..n]
  BY <1>3
<1>5. s \in Seq(1..n)
  BY <1>2, <1>4
<1>. QED BY <1>3, <1>5

-----------------------------------------------------------------------------
(* Types *)

\* TypeOK in parts: Gmail, the cursor, the coroutines, the router and the
\* switches, and the history variables.
MailboxOK ==
  /\ arrived \in 0..MaxMail /\ unread \subseteq 1..arrived
  /\ purged \in 0..arrived /\ triggers \in 0..arrived

\* The history id that is stored, the cached one, and the one monitoring began with.
CursorOK ==
  stored \in NoId..arrived /\ cached \in NoId..arrived /\ base \in NoId..arrived

\* The coroutines that fetch; one that marks a message has a message to mark.
FetchOK ==
  /\ isProcessing \in BOOLEAN
  /\ pc \in [Threads -> Phases]
  /\ todo \in [Threads -> Seq(1..arrived)] /\ next \in [Threads -> NoId..arrived]
  /\ \A f \in Threads : pc[f] = "mark" => todo[f] # <<>>

\* The switches, the reply contexts and the messages that wait for an answer.
RouterOK ==
  /\ enabled \in [Switches -> BOOLEAN]
  /\ gvoiceContextMap \in [Keys -> 0..arrived]
  /\ emailContextMap \in [Senders -> 0..arrived]
  /\ waiting \subseteq Mails
  /\ count \in [Mails -> Nat]
  /\ replies \subseteq Mails \X (Mails \cup {NoMail}) /\ listed \subseteq Mails

\* What the model remembers for the properties.
HistoryOK == missed \subseteq Mails /\ crashes \in 0..MaxCrashes

\* The parts are the whole, now and after a step.
LEMMA TypeParts ==
  /\ TypeOK <=> MailboxOK /\ CursorOK /\ FetchOK /\ RouterOK /\ HistoryOK
  /\ TypeOK' <=> MailboxOK' /\ CursorOK' /\ FetchOK' /\ RouterOK' /\ HistoryOK'
BY DEF TypeOK, MailboxOK, CursorOK, FetchOK, RouterOK, HistoryOK

\* The historyIds a phone may start with are none and the mailbox's first.
LEMMA InitType == Init => TypeOK
<1>. SUFFICES ASSUME Init PROVE TypeOK
  OBVIOUS
<1>. USE EmailAssumption DEF Init, NoId, Mails, NoMail
<1>1. MailboxOK BY DEF MailboxOK
<1>2. CursorOK
  <2>1. arrived = 0 /\ stored \in {-1, 0} /\ base = stored /\ cached = -1
    OBVIOUS
  <2>. QED BY <2>1 DEF CursorOK
<1>3. FetchOK
  <2>1. <<>> \in Seq(1..arrived) /\ NoId \in NoId..arrived
    OBVIOUS
  <2>. QED BY <2>1 DEF FetchOK, Threads, Phases
<1>4. RouterOK BY DEF RouterOK
<1>5. HistoryOK BY DEF HistoryOK
<1>. QED BY <1>1, <1>2, <1>3, <1>4, <1>5, TypeParts

\* A put leaves at its own key the new mail or none, and at every other key what
\* was there or none, whichever entry a full map drops.
LEMMA PutResult ==
  ASSUME NEW S, NEW T, NoMail \in T, NEW map \in [S -> T],
         NEW key \in S, NEW i \in T, NEW after \in Put(map, key, i)
  PROVE  /\ after \in [S -> T]
         /\ after[key] \in {i, NoMail}
         /\ \A k \in S : k # key => after[k] \in {map[k], NoMail}
<1>. DEFINE new == [map EXCEPT ![key] = i]
<1>1. after = new \/ \E k \in S : after = [new EXCEPT ![k] = NoMail]
  BY DEF Put
<1>. QED BY <1>1

\* Every mail's sender and digits have their places in the two maps.
LEMMA HasPlace ==
  ASSUME NEW i \in Mails
  PROVE  Mail[i].from \in Senders /\ Digits[Mail[i].from] \in Keys
BY DEF Senders, Keys

\* storeEmailContext and storeGVoiceContext keep a mail that has arrived, or
\* none, at every key, whichever of them a full map drops.
LEMMA ProcessType ==
  ASSUME MailboxOK, RouterOK, NEW f, NEW i \in Mails, i \in 0..arrived, Process(f, i)
  PROVE  /\ gvoiceContextMap' \in [Keys -> 0..arrived]
         /\ emailContextMap' \in [Senders -> 0..arrived]
         /\ waiting' \subseteq Mails
         /\ count' \in [Mails -> Nat]
         /\ replies' = replies /\ listed' \subseteq Mails
<1>. USE DEF RouterOK
<1>0. NoMail \in 0..arrived
  BY DEF MailboxOK, NoMail
<1>1. CASE UNCHANGED router
  BY <1>1 DEF router, context, context
<1>2. CASE /\ Remember(i)
           /\ waiting' = waiting \cup {i}
           /\ count' = [count EXCEPT ![i] = @ + 1]
           /\ listed' = IF next[f] = NoId THEN listed \cup {i} ELSE listed
           /\ UNCHANGED replies
  <2>1. CASE /\ gvoiceContextMap' \in Put(gvoiceContextMap, Digits[Mail[i].from], i)
             /\ UNCHANGED emailContextMap
    <3>1. gvoiceContextMap' \in [Keys -> 0..arrived]
      BY <1>0, <2>1, HasPlace, PutResult
    <3>. QED BY <1>2, <2>1, <3>1
  <2>2. CASE /\ emailContextMap' \in Put(emailContextMap, Mail[i].from, i)
             /\ UNCHANGED gvoiceContextMap
    <3>1. emailContextMap' \in [Senders -> 0..arrived]
      BY <1>0, <2>2, HasPlace, PutResult
    <3>. QED BY <1>2, <2>2, <3>1
  <2>. QED BY <1>2, <2>1, <2>2 DEF Remember
<1>. QED BY <1>1, <1>2 DEF Process

\* Every step keeps every variable in its type.
LEMMA StepType == TypeOK /\ [Next]_vars => TypeOK'
<1>. SUFFICES ASSUME TypeOK, [Next]_vars PROVE TypeOK'
  OBVIOUS
<1>. USE EmailAssumption DEF NoId, Mails, NoMail, Threads, Phases
<1>0. MailboxOK /\ CursorOK /\ FetchOK /\ RouterOK /\ HistoryOK BY TypeParts
<1>1. CASE Arrive
  <2>1. MailboxOK'
    <3>1. /\ arrived \in Nat /\ arrived' = arrived + 1 /\ arrived < MaxMail
          /\ unread' = unread \cup {arrived + 1} /\ unread \subseteq 1..arrived
      BY <1>0, <1>1 DEF MailboxOK, Arrive
    <3>2. arrived' \in 0..MaxMail /\ unread' \subseteq 1..arrived'
      BY <3>1
    <3>3. purged' \in 0..arrived' /\ triggers' \in 0..arrived'
      BY <1>0, <1>1, <3>1 DEF MailboxOK, Arrive
    <3>. QED BY <3>2, <3>3 DEF MailboxOK
  <2>2. CursorOK'
    BY <1>0, <1>1 DEF CursorOK, MailboxOK, FetchOK, Arrive, router, context
  <2>3. FetchOK'
    <3>1. arrived' \in Int /\ arrived \in Int /\ arrived <= arrived'
      BY <1>0, <1>1 DEF MailboxOK, Arrive
    <3>2. todo' \in [Threads -> Seq(1..arrived')]
      BY <1>0, <1>1, <3>1, SeqGrows DEF FetchOK, Arrive
    <3>. QED BY <1>0, <1>1, <3>1, <3>2 DEF FetchOK, Arrive
  <2>4. RouterOK'
    BY <1>0, <1>1 DEF RouterOK, MailboxOK, Arrive, router, context
  <2>5. HistoryOK'
    BY <1>0, <1>1 DEF HistoryOK, MailboxOK, Arrive, router, context
  <2>. QED BY <2>1, <2>2, <2>3, <2>4, <2>5, TypeParts
<1>2. CASE ReadElsewhere
  <2>1. MailboxOK'
    BY <1>0, <1>2 DEF MailboxOK, ReadElsewhere, router, context
  <2>2. CursorOK'
    BY <1>0, <1>2 DEF CursorOK, ReadElsewhere, router, context
  <2>3. FetchOK'
    BY <1>0, <1>2 DEF FetchOK, ReadElsewhere, router, context
  <2>4. RouterOK'
    BY <1>0, <1>2 DEF RouterOK, ReadElsewhere, router, context
  <2>5. HistoryOK'
    BY <1>0, <1>2 DEF HistoryOK, ReadElsewhere, router, context
  <2>. QED BY <2>1, <2>2, <2>3, <2>4, <2>5, TypeParts
<1>3. CASE Purge
  <2>1. MailboxOK'
    BY <1>0, <1>3 DEF MailboxOK, Purge, router, context
  <2>2. CursorOK'
    BY <1>0, <1>3 DEF CursorOK, Purge, router, context
  <2>3. FetchOK'
    BY <1>0, <1>3 DEF FetchOK, Purge, router, context
  <2>4. RouterOK'
    BY <1>0, <1>3 DEF RouterOK, Purge, router, context
  <2>5. HistoryOK'
    BY <1>0, <1>3 DEF HistoryOK, Purge, router, context
  <2>. QED BY <2>1, <2>2, <2>3, <2>4, <2>5, TypeParts
<1>4. CASE DropTrigger
  <2>1. MailboxOK'
    BY <1>0, <1>4
       DEF MailboxOK, FetchOK, DropTrigger, StillToAsk, router, context
  <2>2. CursorOK'
    BY <1>0, <1>4
       DEF CursorOK, MailboxOK, FetchOK, DropTrigger, StillToAsk, router,
           context
  <2>3. FetchOK'
    BY <1>0, <1>4
       DEF FetchOK, MailboxOK, CursorOK, DropTrigger, StillToAsk, router,
           context
  <2>4. RouterOK'
    BY <1>0, <1>4
       DEF RouterOK, MailboxOK, DropTrigger, StillToAsk, router, context
  <2>5. HistoryOK'
    BY <1>0, <1>4
       DEF HistoryOK, MailboxOK, DropTrigger, StillToAsk, router, context
  <2>. QED BY <2>1, <2>2, <2>3, <2>4, <2>5, TypeParts
<1>5. CASE Crash
  <2>1. MailboxOK'
    BY <1>0, <1>5 DEF MailboxOK, FetchOK, Crash, mailbox
  <2>2. CursorOK'
    BY <1>0, <1>5 DEF CursorOK, MailboxOK, FetchOK, Crash, mailbox
  <2>3. FetchOK'
    <3>1. todo' \in [Threads -> Seq(1..arrived)] /\ next' \in [Threads -> NoId..arrived]
      BY <1>0, <1>5 DEF MailboxOK, Crash
    <3>. QED BY <1>0, <1>5, <3>1 DEF FetchOK, Crash, mailbox
  <2>4. RouterOK'
    BY <1>0, <1>5 DEF RouterOK, MailboxOK, Crash, mailbox
  <2>5. HistoryOK'
    BY <1>0, <1>5 DEF HistoryOK, MailboxOK, Crash, mailbox
  <2>. QED BY <2>1, <2>2, <2>3, <2>4, <2>5, TypeParts
<1>6. ASSUME NEW f \in Fetchers, Trigger(f) PROVE TypeOK'
  <2>1. MailboxOK'
    BY <1>0, <1>6 DEF MailboxOK, Trigger, Move, router, context
  <2>2. CursorOK'
    BY <1>0, <1>6 DEF CursorOK, Trigger, Move, router, context
  <2>3. FetchOK'
    BY <1>0, <1>6 DEF FetchOK, Trigger, Move, router, context
  <2>4. RouterOK'
    BY <1>0, <1>6 DEF RouterOK, Trigger, Move, router, context
  <2>5. HistoryOK'
    BY <1>0, <1>6 DEF HistoryOK, Trigger, Move, router, context
  <2>. QED BY <2>1, <2>2, <2>3, <2>4, <2>5, TypeParts
<1>7. ASSUME NEW f \in Fetchers, Load(f) PROVE TypeOK'
  <2>1. MailboxOK'
    BY <1>0, <1>7 DEF MailboxOK, FetchOK, Load, Move, mailbox, router, context
  <2>2. CursorOK'
    BY <1>0, <1>7
       DEF CursorOK, MailboxOK, FetchOK, Load, Move, mailbox, router, context
  <2>3. FetchOK'
    BY <1>0, <1>7
       DEF FetchOK, MailboxOK, CursorOK, Load, Move, mailbox, router, context
  <2>4. RouterOK'
    BY <1>0, <1>7 DEF RouterOK, MailboxOK, Load, Move, mailbox, router, context
  <2>5. HistoryOK'
    BY <1>0, <1>7 DEF HistoryOK, MailboxOK, Load, Move, mailbox, router, context
  <2>. QED BY <2>1, <2>2, <2>3, <2>4, <2>5, TypeParts
<1>8. ASSUME NEW f \in Fetchers, FetchHistory(f) PROVE TypeOK'
  <2>1. MailboxOK'
    BY <1>0, <1>8
       DEF MailboxOK, FetchOK, FetchHistory, Move, mailbox, router, context
  <2>2. CursorOK'
    BY <1>0, <1>8
       DEF CursorOK, MailboxOK, FetchOK, FetchHistory, Move, mailbox, router,
           context
  <2>3. FetchOK'
    <3>1. PICK mails \in OldestFirst(Page(next[f]) \cap unread) :
            todo' = [todo EXCEPT ![f] = mails]
      BY <1>8 DEF FetchHistory
    <3>2. arrived \in Int /\ unread \subseteq 1..arrived
      BY <1>0 DEF MailboxOK
    <3>3. Page(next[f]) \cap unread \subseteq 1..arrived
      BY <3>2, Zenon
    <3>4. mails \in Seq(1..arrived)
      BY <3>1, <3>2, <3>3, ListingType DEF OldestFirst
    <3>. QED
      BY <1>0, <1>8, <3>1, <3>4
         DEF FetchOK, MailboxOK, FetchHistory, Move, mailbox
  <2>4. RouterOK'
    BY <1>0, <1>8
       DEF RouterOK, MailboxOK, FetchHistory, Move, mailbox, router, context
  <2>5. HistoryOK'
    <3>1. (next[f] + 1)..arrived \ Page(next[f]) \subseteq Mails
      BY <1>0, <1>8 DEF FetchOK, MailboxOK, FetchHistory, Move
    <3>. QED BY <1>0, <1>8, <3>1 DEF HistoryOK, FetchHistory
  <2>. QED BY <2>1, <2>2, <2>3, <2>4, <2>5, TypeParts
<1>9. ASSUME NEW f \in Fetchers, FetchFails(f) PROVE TypeOK'
  <2>1. MailboxOK'
    BY <1>0, <1>9
       DEF MailboxOK, FetchOK, FetchFails, Move, mailbox, router, context
  <2>2. CursorOK'
    BY <1>0, <1>9
       DEF CursorOK, MailboxOK, FetchOK, FetchFails, Move, mailbox, router,
           context
  <2>3. FetchOK'
    BY <1>0, <1>9
       DEF FetchOK, MailboxOK, CursorOK, FetchFails, Move, mailbox, router,
           context
  <2>4. RouterOK'
    BY <1>0, <1>9
       DEF RouterOK, MailboxOK, FetchFails, Move, mailbox, router, context
  <2>5. HistoryOK'
    BY <1>0, <1>9
       DEF HistoryOK, MailboxOK, FetchFails, Move, mailbox, router, context
  <2>. QED BY <2>1, <2>2, <2>3, <2>4, <2>5, TypeParts
<1>10. ASSUME NEW f \in Fetchers, ListUnread(f) PROVE TypeOK'
  <2>1. MailboxOK'
    BY <1>0, <1>10
       DEF MailboxOK, FetchOK, ListUnread, Move, mailbox, router, context
  <2>2. CursorOK'
    BY <1>0, <1>10
       DEF CursorOK, MailboxOK, FetchOK, ListUnread, Move, mailbox, router,
           context
  <2>3. FetchOK'
    <3>1. PICK mails \in NewestFirst(Newest) : todo' = [todo EXCEPT ![f] = mails]
      BY <1>10 DEF ListUnread
    <3>2. arrived \in Int /\ unread \subseteq 1..arrived
      BY <1>0 DEF MailboxOK
    <3>3. Newest \subseteq 1..arrived
      BY <3>2, Zenon DEF Newest
    <3>4. mails \in Seq(1..arrived)
      BY <3>1, <3>2, <3>3, ListingType DEF NewestFirst
    <3>. QED
      BY <1>0, <1>10, <3>1, <3>4
         DEF FetchOK, MailboxOK, ListUnread, Move, mailbox
  <2>4. RouterOK'
    BY <1>0, <1>10
       DEF RouterOK, MailboxOK, ListUnread, Move, mailbox, router, context
  <2>5. HistoryOK'
    <3>1. unread \subseteq Mails
      BY <1>0 DEF MailboxOK
    <3>. QED BY <1>0, <1>10, <3>1 DEF HistoryOK, ListUnread
  <2>. QED BY <2>1, <2>2, <2>3, <2>4, <2>5, TypeParts
<1>11. ASSUME NEW f \in Fetchers, Item(f) PROVE TypeOK'
  <2>1. MailboxOK'
    BY <1>0, <1>11
       DEF MailboxOK, Item, Process, Remember, mailbox, router, context
  <2>2. CursorOK'
    BY <1>0, <1>11
       DEF CursorOK, Item, Process, Remember, mailbox, router, context
  <2>3. FetchOK'
    <3>1. Tail(todo[f]) \in Seq(1..arrived)
      BY <1>0, <1>11, HeadAndTail DEF FetchOK, Item
    <3>2. UNCHANGED <<arrived, isProcessing, next>> /\ pc[f] = "items" /\ todo[f] # <<>>
      BY <1>11 DEF Item, mailbox
    <3>3. CASE todo' = [todo EXCEPT ![f] = Tail(todo[f])] /\ pc' = pc
      BY <1>0, <3>1, <3>2, <3>3 DEF FetchOK
    <3>4. CASE todo' = todo /\ pc' = [pc EXCEPT ![f] = "mark"]
      BY <1>0, <3>2, <3>4 DEF FetchOK
    <3>. QED BY <1>11, <3>3, <3>4 DEF Item
  <2>4. RouterOK'
    <3>1. Head(todo[f]) \in Mails /\ Head(todo[f]) \in 0..arrived
      BY <1>0, <1>11, HeadAndTail DEF FetchOK, MailboxOK, Item
    <3>2. CASE UNCHANGED router
      BY <1>0, <1>11, <3>2 DEF RouterOK, Item, router, context, mailbox
    <3>3. CASE Process(f, Head(todo[f]))
      BY <1>0, <1>11, <3>1, <3>3, ProcessType DEF RouterOK, Item, mailbox
    <3>. QED BY <1>11, <3>2, <3>3 DEF Item
  <2>5. HistoryOK'
    <3>1. Head(todo[f]) \in Mails
      BY <1>0, <1>11, HeadAndTail DEF FetchOK, MailboxOK, Item
    <3>. QED BY <1>0, <1>11, <3>1 DEF HistoryOK, Item
  <2>. QED BY <2>1, <2>2, <2>3, <2>4, <2>5, TypeParts
<1>12. ASSUME NEW f \in Fetchers, MarkAsRead(f) PROVE TypeOK'
  <2>1. MailboxOK'
    BY <1>0, <1>12 DEF MailboxOK, FetchOK, MarkAsRead, Move, router, context
  <2>2. CursorOK'
    BY <1>0, <1>12
       DEF CursorOK, MailboxOK, FetchOK, MarkAsRead, Move, router, context
  <2>3. FetchOK'
    <3>1. Tail(todo[f]) \in Seq(1..arrived)
      BY <1>0, <1>12, HeadAndTail DEF FetchOK, MarkAsRead, Move
    <3>. QED BY <1>0, <1>12, <3>1 DEF FetchOK, MarkAsRead, Move
  <2>4. RouterOK'
    BY <1>0, <1>12 DEF RouterOK, MailboxOK, MarkAsRead, Move, router, context
  <2>5. HistoryOK'
    BY <1>0, <1>12 DEF HistoryOK, MailboxOK, MarkAsRead, Move, router, context
  <2>. QED BY <2>1, <2>2, <2>3, <2>4, <2>5, TypeParts
<1>13. ASSUME NEW f \in Fetchers, ItemsDone(f) PROVE TypeOK'
  <2>1. MailboxOK'
    BY <1>0, <1>13 DEF MailboxOK, ItemsDone, Move, mailbox, router, context
  <2>2. CursorOK'
    BY <1>0, <1>13 DEF CursorOK, ItemsDone, Move, mailbox, router, context
  <2>3. FetchOK'
    BY <1>0, <1>13 DEF FetchOK, ItemsDone, Move, mailbox, router, context
  <2>4. RouterOK'
    BY <1>0, <1>13 DEF RouterOK, ItemsDone, Move, mailbox, router, context
  <2>5. HistoryOK'
    BY <1>0, <1>13 DEF HistoryOK, ItemsDone, Move, mailbox, router, context
  <2>. QED BY <2>1, <2>2, <2>3, <2>4, <2>5, TypeParts
<1>14. ASSUME NEW f \in Fetchers, SaveHistory(f) PROVE TypeOK'
  <2>1. MailboxOK'
    BY <1>0, <1>14
       DEF MailboxOK, FetchOK, SaveHistory, Move, mailbox, router, context, Save
  <2>2. CursorOK'
    BY <1>0, <1>14
       DEF CursorOK, MailboxOK, FetchOK, SaveHistory, Move, mailbox, router,
           context,
           Save
  <2>3. FetchOK'
    BY <1>0, <1>14
       DEF FetchOK, MailboxOK, CursorOK, SaveHistory, Move, mailbox, router,
           context,
           Save
  <2>4. RouterOK'
    BY <1>0, <1>14
       DEF RouterOK, MailboxOK, SaveHistory, Move, mailbox, router, context,
           Save
  <2>5. HistoryOK'
    BY <1>0, <1>14
       DEF HistoryOK, MailboxOK, SaveHistory, Move, mailbox, router, context,
           Save
  <2>. QED BY <2>1, <2>2, <2>3, <2>4, <2>5, TypeParts
<1>15. ASSUME NEW f \in Fetchers, Finish(f) PROVE TypeOK'
  <2>1. MailboxOK'
    BY <1>0, <1>15 DEF MailboxOK, Finish, Move, mailbox, router, context
  <2>2. CursorOK'
    BY <1>0, <1>15 DEF CursorOK, Finish, Move, mailbox, router, context
  <2>3. FetchOK'
    BY <1>0, <1>15 DEF FetchOK, Finish, Move, mailbox, router, context
  <2>4. RouterOK'
    BY <1>0, <1>15 DEF RouterOK, Finish, Move, mailbox, router, context
  <2>5. HistoryOK'
    BY <1>0, <1>15 DEF HistoryOK, Finish, Move, mailbox, router, context
  <2>. QED BY <2>1, <2>2, <2>3, <2>4, <2>5, TypeParts
<1>16. ASSUME NEW f \in Threads, Prime(f) PROVE TypeOK'
  <2>1. MailboxOK'
    BY <1>0, <1>16
       DEF MailboxOK, FetchOK, Prime, Move, mailbox, router, context, AfterPrime
  <2>2. CursorOK'
    BY <1>0, <1>16
       DEF CursorOK, MailboxOK, FetchOK, Prime, Move, mailbox, router, context,
           AfterPrime
  <2>3. FetchOK'
    BY <1>0, <1>16
       DEF FetchOK, MailboxOK, CursorOK, Prime, Move, mailbox, router, context,
           AfterPrime
  <2>4. RouterOK'
    BY <1>0, <1>16
       DEF RouterOK, MailboxOK, Prime, Move, mailbox, router, context,
           AfterPrime
  <2>5. HistoryOK'
    BY <1>0, <1>16
       DEF HistoryOK, MailboxOK, Prime, Move, mailbox, router, context,
           AfterPrime
  <2>. QED BY <2>1, <2>2, <2>3, <2>4, <2>5, TypeParts
<1>17. ASSUME NEW f \in Threads, AskProfile(f) PROVE TypeOK'
  <2>1. MailboxOK'
    BY <1>0, <1>17
       DEF MailboxOK, FetchOK, AskProfile, Move, mailbox, router, context,
           AfterPrime
  <2>2. CursorOK'
    BY <1>0, <1>17
       DEF CursorOK, MailboxOK, FetchOK, AskProfile, Move, mailbox, router,
           context,
           AfterPrime
  <2>3. FetchOK'
    <3>0. arrived \in NoId..arrived /\ next \in [Threads -> NoId..arrived]
      BY <1>0 DEF FetchOK, MailboxOK, NoId
    <3>1. next' \in [Threads -> NoId..arrived]
      BY <1>17, <3>0 DEF AskProfile
    <3>2. \E p \in {"set", "idle", "finish"} : pc' = [pc EXCEPT ![f] = p]
      BY <1>17 DEF AskProfile, Move, AfterPrime
    <3>. QED BY <1>0, <1>17, <3>1, <3>2 DEF FetchOK, AskProfile, mailbox
  <2>4. RouterOK'
    BY <1>0, <1>17
       DEF RouterOK, MailboxOK, AskProfile, Move, mailbox, router, context,
           AfterPrime
  <2>5. HistoryOK'
    BY <1>0, <1>17
       DEF HistoryOK, MailboxOK, AskProfile, Move, mailbox, router, context,
           AfterPrime
  <2>. QED BY <2>1, <2>2, <2>3, <2>4, <2>5, TypeParts
<1>18. ASSUME NEW f \in Threads, SetPrimed(f) PROVE TypeOK'
  <2>1. MailboxOK'
    BY <1>0, <1>18
       DEF MailboxOK, FetchOK, SetPrimed, Move, mailbox, router, context, Save,
           AfterPrime
  <2>2. CursorOK'
    BY <1>0, <1>18
       DEF CursorOK, MailboxOK, FetchOK, SetPrimed, Move, mailbox, router,
           context,
           Save, AfterPrime
  <2>3. FetchOK'
    BY <1>0, <1>18
       DEF FetchOK, MailboxOK, CursorOK, SetPrimed, Move, mailbox, router,
           context,
           Save, AfterPrime
  <2>4. RouterOK'
    BY <1>0, <1>18
       DEF RouterOK, MailboxOK, SetPrimed, Move, mailbox, router, context, Save,
           AfterPrime
  <2>5. HistoryOK'
    BY <1>0, <1>18
       DEF HistoryOK, MailboxOK, SetPrimed, Move, mailbox, router, context,
           Save,
           AfterPrime
  <2>. QED BY <2>1, <2>2, <2>3, <2>4, <2>5, TypeParts
<1>19. ASSUME NEW f \in Fetchers, ThrowError(f) PROVE TypeOK'
  <2>1. MailboxOK'
    BY <1>0, <1>19
       DEF MailboxOK, FetchOK, ThrowError, Move, mailbox, router, context
  <2>2. CursorOK'
    BY <1>0, <1>19
       DEF CursorOK, MailboxOK, FetchOK, ThrowError, Move, mailbox, router,
           context
  <2>3. FetchOK'
    BY <1>0, <1>19
       DEF FetchOK, MailboxOK, CursorOK, ThrowError, Move, mailbox, router,
           context
  <2>4. RouterOK'
    BY <1>0, <1>19
       DEF RouterOK, MailboxOK, ThrowError, Move, mailbox, router, context
  <2>5. HistoryOK'
    BY <1>0, <1>19
       DEF HistoryOK, MailboxOK, ThrowError, Move, mailbox, router, context
  <2>. QED BY <2>1, <2>2, <2>3, <2>4, <2>5, TypeParts
<1>20. ASSUME NEW f \in Fetchers, Unwind(f) PROVE TypeOK'
  <2>1. MailboxOK'
    BY <1>0, <1>20 DEF MailboxOK, Unwind, Move, mailbox, router, context
  <2>2. CursorOK'
    BY <1>0, <1>20 DEF CursorOK, Unwind, Move, mailbox, router, context
  <2>3. FetchOK'
    BY <1>0, <1>20 DEF FetchOK, Unwind, Move, mailbox, router, context
  <2>4. RouterOK'
    BY <1>0, <1>20 DEF RouterOK, Unwind, Move, mailbox, router, context
  <2>5. HistoryOK'
    BY <1>0, <1>20 DEF HistoryOK, Unwind, Move, mailbox, router, context
  <2>. QED BY <2>1, <2>2, <2>3, <2>4, <2>5, TypeParts
<1>21. ASSUME NEW f \in Fetchers, HandleError(f) PROVE TypeOK'
  <2>1. MailboxOK'
    BY <1>0, <1>21 DEF MailboxOK, HandleError, Move, mailbox, router, context
  <2>2. CursorOK'
    BY <1>0, <1>21 DEF CursorOK, HandleError, Move, mailbox, router, context
  <2>3. FetchOK'
    BY <1>0, <1>21 DEF FetchOK, HandleError, Move, mailbox, router, context
  <2>4. RouterOK'
    BY <1>0, <1>21 DEF RouterOK, HandleError, Move, mailbox, router, context
  <2>5. HistoryOK'
    BY <1>0, <1>21 DEF HistoryOK, HandleError, Move, mailbox, router, context
  <2>. QED BY <2>1, <2>2, <2>3, <2>4, <2>5, TypeParts
<1>22. ASSUME NEW i \in Mails, RouteReply(i) PROVE TypeOK'
  <2>1. MailboxOK'
    BY <1>0, <1>22 DEF MailboxOK, RouteReply, mailbox
  <2>2. CursorOK'
    BY <1>0, <1>22 DEF CursorOK, RouteReply, mailbox
  <2>3. FetchOK'
    BY <1>0, <1>22 DEF FetchOK, RouteReply, mailbox
  <2>4. RouterOK'
    <3>1. ReplyTo(Mail[i].from) \in Mails \cup {NoMail}
      BY <1>0, HasPlace DEF RouterOK, MailboxOK, ReplyTo
    <3>2. replies' \subseteq Mails \X (Mails \cup {NoMail})
      BY <1>0, <1>22, <3>1 DEF RouterOK, RouteReply
    <3>3. waiting' \subseteq Mails
      BY <1>0, <1>22 DEF RouterOK, RouteReply
    <3>4. UNCHANGED <<enabled, gvoiceContextMap, emailContextMap, arrived, count,
                      listed>>
      BY <1>22 DEF RouteReply, mailbox, context
    <3>. QED BY <1>0, <3>2, <3>3, <3>4 DEF RouterOK
  <2>5. HistoryOK'
    BY <1>0, <1>22 DEF HistoryOK, RouteReply, mailbox
  <2>. QED BY <2>1, <2>2, <2>3, <2>4, <2>5, TypeParts
<1>23. ASSUME NEW c \in Switches, Toggle(c) PROVE TypeOK'
  <2>1. MailboxOK'
    BY <1>0, <1>23 DEF MailboxOK, Toggle, mailbox, router, context
  <2>2. CursorOK'
    BY <1>0, <1>23 DEF CursorOK, Toggle, mailbox, router, context
  <2>3. FetchOK'
    BY <1>0, <1>23 DEF FetchOK, Toggle, mailbox, router, context
  <2>4. RouterOK'
    BY <1>0, <1>23 DEF RouterOK, Toggle, mailbox, router, context
  <2>5. HistoryOK'
    BY <1>0, <1>23 DEF HistoryOK, Toggle, mailbox, router, context
  <2>. QED BY <2>1, <2>2, <2>3, <2>4, <2>5, TypeParts
<1>24. CASE UNCHANGED vars
  BY <1>24 DEF TypeOK, vars, mailbox, router, context
<1>. QED
  BY <1>1, <1>2, <1>3, <1>4, <1>5, <1>6, <1>7, <1>8, <1>9, <1>10, <1>11,
     <1>12, <1>13, <1>14, <1>15, <1>16, <1>17, <1>18, <1>19, <1>20, <1>21,
     <1>22, <1>23, <1>24
     DEF Next, FetchStep, PrimeStep, ErrorStep, Threads

\* EmailMonitor's, GmailHistoryClient's and EmailRouter's variables keep their
\* types: no cursor, list or reply context runs ahead of the mail that arrived,
\* and a mail that is marked read is the head of its fetch's list.
THEOREM TypeCorrect == Spec => []TypeOK
BY InitType, StepType, PTL DEF Spec

-----------------------------------------------------------------------------
(* isProcessing *)

\* The flag is set while a fetch is alive, one at most: nothing but the fetch
\* that won compareAndSet clears it, unless an Error does so twice.
FetchInv ==
  /\ \A f \in Fetchers : pc[f] \notin {"unwind", "handler"}
  /\ \A f \in Fetchers : pc[f] # "idle" => isProcessing
  /\ \A f, g \in Fetchers : pc[f] # "idle" /\ pc[g] # "idle" => f = g
  /\ isProcessing => \E f \in Fetchers : pc[f] # "idle"

\* A fetch starts by compareAndSet and ends with the finally block.
LEMMA FetchInvStep ==
  ASSUME "error" \notin Faults
  PROVE  TypeOK /\ FetchInv /\ [Next]_vars => FetchInv'
<1>. SUFFICES ASSUME TypeOK, FetchInv, [Next]_vars PROVE FetchInv'
  OBVIOUS
<1>. USE EmailAssumption DEF FetchInv, Threads
<1>0. pc \in [Threads -> Phases] BY DEF TypeOK
<1>1. CASE Arrive
  BY <1>1, <1>0 DEF Arrive
<1>2. CASE ReadElsewhere
  BY <1>2, <1>0 DEF ReadElsewhere
<1>3. CASE Purge
  BY <1>3, <1>0 DEF Purge
<1>4. CASE DropTrigger
  BY <1>4, <1>0 DEF DropTrigger
<1>5. CASE Crash
  BY <1>5, <1>0 DEF Crash
<1>6. ASSUME NEW f \in Fetchers, Trigger(f) PROVE FetchInv'
  BY <1>6, <1>0 DEF Trigger, Move
<1>7. ASSUME NEW f \in Fetchers, Load(f) PROVE FetchInv'
  BY <1>7, <1>0 DEF Load, Move
<1>8. ASSUME NEW f \in Fetchers, FetchHistory(f) PROVE FetchInv'
  BY <1>8, <1>0 DEF FetchHistory, Move
<1>9. ASSUME NEW f \in Fetchers, FetchFails(f) PROVE FetchInv'
  BY <1>9, <1>0 DEF FetchFails, Move
<1>10. ASSUME NEW f \in Fetchers, ListUnread(f) PROVE FetchInv'
  BY <1>10, <1>0 DEF ListUnread, Move
<1>11. ASSUME NEW f \in Fetchers, Item(f) PROVE FetchInv'
  BY <1>11, <1>0 DEF Item
<1>12. ASSUME NEW f \in Fetchers, MarkAsRead(f) PROVE FetchInv'
  BY <1>12, <1>0 DEF MarkAsRead, Move
<1>13. ASSUME NEW f \in Fetchers, ItemsDone(f) PROVE FetchInv'
  BY <1>13, <1>0 DEF ItemsDone, Move
<1>14. ASSUME NEW f \in Fetchers, SaveHistory(f) PROVE FetchInv'
  BY <1>14, <1>0 DEF SaveHistory, Move
<1>15. ASSUME NEW f \in Fetchers, Finish(f) PROVE FetchInv'
  BY <1>15, <1>0 DEF Finish, Move
<1>16. ASSUME NEW f \in Threads, Prime(f) PROVE FetchInv'
  BY <1>16, <1>0 DEF Prime, Move, AfterPrime
<1>17. ASSUME NEW f \in Threads, AskProfile(f) PROVE FetchInv'
  BY <1>17, <1>0 DEF AskProfile, Move, AfterPrime
<1>18. ASSUME NEW f \in Threads, SetPrimed(f) PROVE FetchInv'
  BY <1>18, <1>0 DEF SetPrimed, Move, AfterPrime
<1>19. ASSUME NEW f \in Fetchers, ThrowError(f) PROVE FetchInv'
  BY <1>19, <1>0 DEF ThrowError, Move
<1>20. ASSUME NEW f \in Fetchers, Unwind(f) PROVE FetchInv'
  BY <1>20, <1>0 DEF Unwind, Move
<1>21. ASSUME NEW f \in Fetchers, HandleError(f) PROVE FetchInv'
  BY <1>21, <1>0 DEF HandleError, Move
<1>22. ASSUME NEW i \in Mails, RouteReply(i) PROVE FetchInv'
  BY <1>22, <1>0 DEF RouteReply
<1>23. ASSUME NEW c \in Switches, Toggle(c) PROVE FetchInv'
  BY <1>23, <1>0 DEF Toggle
<1>24. CASE UNCHANGED vars
  BY <1>24 DEF vars
<1>. QED
  BY <1>1, <1>2, <1>3, <1>4, <1>5, <1>6, <1>7, <1>8, <1>9, <1>10, <1>11,
     <1>12, <1>13, <1>14, <1>15, <1>16, <1>17, <1>18, <1>19, <1>20, <1>21,
     <1>22, <1>23, <1>24
     DEF Next, FetchStep, PrimeStep, ErrorStep, Threads

\* No coroutine is a fetch at first.
LEMMA FetchInvInit == Init => FetchInv
BY EmailAssumption DEF Init, FetchInv, Threads

\* While no call throws an Error, isProcessing is set exactly while one fetch is
\* alive: compareAndSet excludes a second one, and every way a fetch can end
\* gives the flag back.
THEOREM FetchesExclude ==
  ASSUME "error" \notin Faults
  PROVE  Spec => []OneFetchAtATime
<1>1. FetchInv => OneFetchAtATime
  <2>. SUFFICES ASSUME FetchInv PROVE OneFetchAtATime
    OBVIOUS
  <2>1. CASE isProcessing
    <3>1. \E f : Fetching = {f}
      BY <2>1 DEF FetchInv, Fetching
    <3>. QED BY <2>1, <3>1, FS_Singleton DEF OneFetchAtATime
  <2>2. CASE ~isProcessing
    <3>1. Fetching = {}
      BY <2>2 DEF FetchInv, Fetching
    <3>. QED BY <2>2, <3>1, FS_EmptySet DEF OneFetchAtATime
  <2>. QED BY <2>1, <2>2
<1>. QED BY <1>1, FetchInvInit, FetchInvStep, TypeCorrect, PTL DEF Spec

-----------------------------------------------------------------------------
(* The cursor *)

\* Who may hold which historyId.  The monitoring has a base when a cursor is
\* stored; the cache never holds another cursor than the stored one; only the
\* service's coroutine primes, and only while no cursor is stored; a fetch that
\* will save a cursor began from one.
CursorInv ==
  /\ base = NoId <=> stored = NoId
  /\ cached \in {NoId, stored}
  /\ pc[Service] \in {"prime", "profile", "set", "idle"}
  /\ pc[Service] \in {"profile", "set"} => stored = NoId
  /\ pc[Service] = "set" => next[Service] # NoId
  /\ \A f \in Fetchers :
       /\ pc[f] \notin {"profile", "set"}
       /\ pc[f] = "prime" => stored # NoId
       /\ pc[f] \in {"history", "save"} => next[f] # NoId
       /\ pc[f] \in {"history", "items", "mark", "save"} /\ next[f] # NoId =>
            stored # NoId

\* The facts about types that the invariants of the cursor rest on.
LEMMA CursorTypes ==
  ASSUME TypeOK
  PROVE  /\ arrived \in Nat /\ NoId \in Int /\ arrived # NoId
         /\ stored \in Int /\ base \in Int /\ base >= NoId
         /\ stored <= arrived /\ base <= arrived
         /\ pc \in [Threads -> Phases] /\ next \in [Threads -> Int]
         /\ \A f \in Threads : next[f] <= arrived /\ next[f] >= NoId
         /\ todo \in [Threads -> Seq(1..arrived)]
         /\ unread \subseteq 1..arrived
BY EmailAssumption DEF TypeOK, NoId

\* Every step respects who may hold which historyId.
LEMMA CursorInvStep == TypeOK /\ CursorInv /\ [Next]_vars => CursorInv'
<1>. SUFFICES ASSUME TypeOK, CursorInv, [Next]_vars PROVE CursorInv'
  OBVIOUS
<1>. USE EmailAssumption DEF CursorInv, Threads
<1>0. /\ pc \in [Threads -> Phases] /\ next \in [Threads -> Int]
      /\ arrived # NoId
  BY CursorTypes
<1>1. CASE Arrive
  BY <1>1, <1>0 DEF Arrive
<1>2. CASE ReadElsewhere
  BY <1>2, <1>0 DEF ReadElsewhere
<1>3. CASE Purge
  BY <1>3, <1>0 DEF Purge
<1>4. CASE DropTrigger
  BY <1>4, <1>0 DEF DropTrigger
<1>5. CASE Crash
  BY <1>5, <1>0 DEF Crash
<1>6. ASSUME NEW f \in Fetchers, Trigger(f) PROVE CursorInv'
  BY <1>6, <1>0 DEF Trigger, Move
<1>7. ASSUME NEW f \in Fetchers, Load(f) PROVE CursorInv'
  BY <1>7, <1>0 DEF Load, Move
<1>8. ASSUME NEW f \in Fetchers, FetchHistory(f) PROVE CursorInv'
  BY <1>8, <1>0 DEF FetchHistory, Move
<1>9. ASSUME NEW f \in Fetchers, FetchFails(f) PROVE CursorInv'
  BY <1>9, <1>0 DEF FetchFails, Move
<1>10. ASSUME NEW f \in Fetchers, ListUnread(f) PROVE CursorInv'
  BY <1>10, <1>0 DEF ListUnread, Move
<1>11. ASSUME NEW f \in Fetchers, Item(f) PROVE CursorInv'
  BY <1>11, <1>0 DEF Item
<1>12. ASSUME NEW f \in Fetchers, MarkAsRead(f) PROVE CursorInv'
  BY <1>12, <1>0 DEF MarkAsRead, Move
<1>13. ASSUME NEW f \in Fetchers, ItemsDone(f) PROVE CursorInv'
  BY <1>13, <1>0 DEF ItemsDone, Move
<1>14. ASSUME NEW f \in Fetchers, SaveHistory(f) PROVE CursorInv'
  BY <1>14, <1>0 DEF SaveHistory, Move, Save
<1>15. ASSUME NEW f \in Fetchers, Finish(f) PROVE CursorInv'
  BY <1>15, <1>0 DEF Finish, Move
<1>16. ASSUME NEW f \in Threads, Prime(f) PROVE CursorInv'
  BY <1>16, <1>0 DEF Prime, Move, AfterPrime
<1>17. ASSUME NEW f \in Threads, AskProfile(f) PROVE CursorInv'
  BY <1>17, <1>0 DEF AskProfile, Move, AfterPrime
<1>18. ASSUME NEW f \in Threads, SetPrimed(f) PROVE CursorInv'
  BY <1>18, <1>0 DEF SetPrimed, Move, Save, AfterPrime
<1>19. ASSUME NEW f \in Fetchers, ThrowError(f) PROVE CursorInv'
  BY <1>19, <1>0 DEF ThrowError, Move
<1>20. ASSUME NEW f \in Fetchers, Unwind(f) PROVE CursorInv'
  BY <1>20, <1>0 DEF Unwind, Move
<1>21. ASSUME NEW f \in Fetchers, HandleError(f) PROVE CursorInv'
  BY <1>21, <1>0 DEF HandleError, Move
<1>22. ASSUME NEW i \in Mails, RouteReply(i) PROVE CursorInv'
  BY <1>22, <1>0 DEF RouteReply
<1>23. ASSUME NEW c \in Switches, Toggle(c) PROVE CursorInv'
  BY <1>23, <1>0 DEF Toggle
<1>24. CASE UNCHANGED vars
  BY <1>24 DEF vars
<1>. QED
  BY <1>1, <1>2, <1>3, <1>4, <1>5, <1>6, <1>7, <1>8, <1>9, <1>10, <1>11,
     <1>12, <1>13, <1>14, <1>15, <1>16, <1>17, <1>18, <1>19, <1>20, <1>21,
     <1>22, <1>23, <1>24
     DEF Next, FetchStep, PrimeStep, ErrorStep, Threads

\* No cursor is in hand at first.
LEMMA CursorInvInit == Init => CursorInv
BY EmailAssumption DEF Init, CursorInv, Threads

\* A mail the cursor may pass: nobody waits for it any more.
Covered(i) ==
  i \notin unread \/ Mail[i].from = Owner \/ count[i] > 0 \/ i \in missed

\* What is covered stays covered, and only mail that arrives becomes unread.
LEMMA StaysCovered ==
  ASSUME TypeOK, [Next]_vars, NEW i \in Int, i <= arrived, Covered(i)
  PROVE  Covered(i)'
<1>1. i \notin unread \/ i \in Mails
  BY EmailAssumption DEF TypeOK, Mails
<1>2. i \in Mails => count[i] \in Nat
  BY DEF TypeOK
<1>3. \/ unread' \subseteq unread
      \/ unread' \subseteq unread \cup {arrived + 1}
  BY DEF Next, vars, mailbox, router, context, Arrive, ReadElsewhere, Purge,
     DropTrigger,
         Crash, Trigger, FetchStep, PrimeStep, ErrorStep, Load, FetchHistory,
         FetchFails, ListUnread, Item, MarkAsRead, ItemsDone, SaveHistory, Finish,
         Prime, AskProfile, SetPrimed, ThrowError, Unwind, HandleError,
         RouteReply, Toggle
<1>4. missed \subseteq missed'
  BY DEF Next, vars, Arrive, ReadElsewhere, Purge, DropTrigger,
         Crash, Trigger, FetchStep, PrimeStep, ErrorStep, Load, FetchHistory,
         FetchFails, ListUnread, Item, MarkAsRead, ItemsDone, SaveHistory, Finish,
         Prime, AskProfile, SetPrimed, ThrowError, Unwind, HandleError,
         RouteReply, Toggle
<1>5. count' = count \/ \E j : count' = [count EXCEPT ![j] = @ + 1]
  BY DEF Next, vars, router, context, Arrive, ReadElsewhere, Purge, DropTrigger,
         Crash, Trigger, FetchStep, PrimeStep, ErrorStep, Load, FetchHistory,
         FetchFails, ListUnread, Item, Process, MarkAsRead, ItemsDone,
         SaveHistory, Finish, Prime, AskProfile, SetPrimed, ThrowError, Unwind,
         HandleError, RouteReply, Toggle
<1>6. count \in [Mails -> Nat]
  BY DEF TypeOK
<1>7. i \in Mails /\ count[i] > 0 => count'[i] > 0
  BY <1>5, <1>6
<1>8. i # arrived + 1
  BY DEF TypeOK
<1>. QED BY <1>1, <1>3, <1>4, <1>7, <1>8 DEF Covered

\* Everything up to the stored cursor is covered, and so is everything up to
\* the cursor a fetch began from, or will save once its list is worked off.
CoverInv ==
  /\ base # NoId => \A i \in (base + 1)..stored : Covered(i)
  /\ \A f \in Fetchers : pc[f] \in {"history", "save"} =>
       \A i \in (base + 1)..next[f] : Covered(i)
  /\ \A f \in Fetchers : pc[f] \in {"items", "mark"} /\ next[f] # NoId =>
       \A i \in (base + 1)..next[f] : Covered(i) \/ i \in Range(todo[f])

\* The list of a fetch is what the page holds of unread mail, and each mail
\* leaves it covered.
LEMMA CoverInvStep ==
  ASSUME "network" \notin Faults
  PROVE  TypeOK /\ CursorInv /\ CoverInv /\ [Next]_vars => CoverInv'
<1>. SUFFICES ASSUME TypeOK, CursorInv, CoverInv, [Next]_vars PROVE CoverInv'
  OBVIOUS
<1>. USE DEF CoverInv, Threads
<1>0. /\ arrived \in Nat /\ NoId \in Int /\ stored \in Int /\ base \in Int
      /\ stored <= arrived /\ base <= arrived
      /\ pc \in [Threads -> Phases] /\ next \in [Threads -> Int]
      /\ \A f \in Threads : next[f] <= arrived /\ next[f] >= NoId
      /\ todo \in [Threads -> Seq(1..arrived)]
  BY CursorTypes
<1>c. \A i \in Int : i <= arrived /\ Covered(i) => Covered(i)'
  BY StaysCovered
<1>1. CASE Arrive
  BY <1>1, <1>0, <1>c DEF Arrive
<1>2. CASE ReadElsewhere
  BY <1>2, <1>0, <1>c DEF ReadElsewhere
<1>3. CASE Purge
  BY <1>3, <1>0, <1>c DEF Purge
<1>4. CASE DropTrigger
  BY <1>4, <1>0, <1>c DEF DropTrigger
<1>5. CASE Crash
  BY <1>5, <1>0, <1>c DEF Crash
<1>6. ASSUME NEW f \in Fetchers, Trigger(f) PROVE CoverInv'
  BY <1>6, <1>0, <1>c DEF Trigger, Move
<1>7. ASSUME NEW f \in Fetchers, Load(f) PROVE CoverInv'
  BY <1>7, <1>0, <1>c DEF Load, Move, CursorInv
<1>8. ASSUME NEW f \in Fetchers, FetchHistory(f) PROVE CoverInv'
  <2>1. PICK mails \in OldestFirst(Page(next[f]) \cap unread) :
          todo' = [todo EXCEPT ![f] = mails]
    BY <1>8 DEF FetchHistory
  <2>2. Range(todo'[f]) = Page(next[f]) \cap unread
    BY <1>0, <2>1 DEF OldestFirst, Listings
  <2>3. ASSUME NEW i \in (base + 1)..arrived
        PROVE  Covered(i)' \/ i \in Range(todo'[f])
    <3>1. CASE i <= next[f]
      BY <1>0, <1>c, <1>8, <3>1 DEF FetchHistory, Move
    <3>2. CASE i > next[f] /\ i \notin Page(next[f])
      BY <1>0, <1>8, <3>2 DEF FetchHistory, Covered
    <3>3. CASE i \in Page(next[f])
      BY <2>2, <1>8, <3>3 DEF FetchHistory, Covered, mailbox
    <3>. QED BY <1>0, <3>1, <3>2, <3>3
  <2>. QED
    BY <1>0, <1>c, <1>8, <2>3 DEF FetchHistory, Move
<1>9. ASSUME NEW f \in Fetchers, FetchFails(f) PROVE CoverInv'
  BY <1>9, <1>0, <1>c DEF FetchFails, Move
<1>10. ASSUME NEW f \in Fetchers, ListUnread(f) PROVE CoverInv'
  BY <1>10, <1>0, <1>c DEF ListUnread, Move
<1>11. ASSUME NEW f \in Fetchers, Item(f) PROVE CoverInv'
  <2>. DEFINE head == Head(todo[f])
  <2>0. /\ pc[f] = "items" /\ todo[f] # <<>>
        /\ UNCHANGED <<next, base, stored>>
    BY <1>11 DEF Item
  <2>1. CASE /\ todo' = [todo EXCEPT ![f] = Tail(todo[f])]
             /\ missed' = missed \cup {head}
             /\ pc' = pc
    <3>1. Range(todo[f]) = {head} \cup Range(Tail(todo[f]))
      BY <1>0, <2>0, RangeOfTail
    <3>2. \A i : i = head => Covered(i)'
      BY <2>1 DEF Covered
    <3>3. \A g \in Fetchers : \A i \in Range(todo[g]) :
            Covered(i)' \/ i \in Range(todo'[g])
      BY <1>0, <2>1, <3>1, <3>2
    <3>. QED BY <1>0, <1>c, <2>0, <2>1, <3>3
  <2>2. CASE pc' = [pc EXCEPT ![f] = "mark"] /\ todo' = todo
    BY <1>0, <1>c, <2>0, <2>2
  <2>. QED
    <3>1. \/ /\ todo' = [todo EXCEPT ![f] = Tail(todo[f])]
             /\ missed' = missed \cup {head}
             /\ pc' = pc
          \/ pc' = [pc EXCEPT ![f] = "mark"] /\ todo' = todo
      BY <1>11 DEF Item
    <3>. QED BY <2>1, <2>2, <3>1
<1>12. ASSUME NEW f \in Fetchers, MarkAsRead(f) PROVE CoverInv'
  <2>. DEFINE head == Head(todo[f])
  <2>1. /\ pc[f] = "mark" /\ pc' = [pc EXCEPT ![f] = "items"]
        /\ UNCHANGED <<next, base, stored>>
    BY <1>12 DEF MarkAsRead, Move
  <2>2. todo' = [todo EXCEPT ![f] = Tail(todo[f])]
    BY <1>12 DEF MarkAsRead
  <2>3. unread' = unread \ {head}
    BY <1>12 DEF MarkAsRead
  <2>4. todo[f] # <<>>
    BY <2>1 DEF TypeOK
  <2>5. Range(todo[f]) = {head} \cup Range(Tail(todo[f]))
    BY <1>0, <2>4, RangeOfTail
  <2>6. \A i : i = head => Covered(i)'
    BY <2>3 DEF Covered
  <2>7. \A g \in Fetchers : \A i \in Range(todo[g]) :
          Covered(i)' \/ i \in Range(todo'[g])
    BY <1>0, <2>2, <2>5, <2>6
  <2>. QED BY <1>0, <1>c, <2>1, <2>7
<1>13. ASSUME NEW f \in Fetchers, ItemsDone(f) PROVE CoverInv'
  <2>1. Range(todo[f]) = {}
    BY <1>13 DEF ItemsDone, Range
  <2>. QED BY <1>0, <1>c, <1>13, <2>1 DEF ItemsDone, Move
<1>14. ASSUME NEW f \in Fetchers, SaveHistory(f) PROVE CoverInv'
  BY <1>14, <1>0, <1>c DEF SaveHistory, Move, Save, CursorInv
<1>15. ASSUME NEW f \in Fetchers, Finish(f) PROVE CoverInv'
  BY <1>15, <1>0, <1>c DEF Finish, Move
<1>16. ASSUME NEW f \in Threads, Prime(f) PROVE CoverInv'
  BY <1>16, <1>0, <1>c DEF Prime, Move, AfterPrime
<1>17. ASSUME NEW f \in Threads, AskProfile(f) PROVE CoverInv'
  BY <1>17, <1>0, <1>c DEF AskProfile, Move, AfterPrime, CursorInv
<1>18. ASSUME NEW f \in Threads, SetPrimed(f) PROVE CoverInv'
  <2>1. f = Service /\ stored = NoId /\ next[f] # NoId
    BY <1>18 DEF SetPrimed, Move, CursorInv, Threads
  <2>2. stored' = next[f] /\ base' = next[f]
    BY <1>18, <2>1 DEF SetPrimed, Save, CursorInv
  <2>3. \A g \in Fetchers : pc'[g] = pc[g] /\ next'[g] = next[g] /\ todo'[g] = todo[g]
    BY <1>0, <1>18, <2>1, EmailAssumption DEF SetPrimed, Move
  <2>. QED BY <1>0, <2>1, <2>2, <2>3 DEF CursorInv
<1>19. ASSUME NEW f \in Fetchers, ThrowError(f) PROVE CoverInv'
  BY <1>19, <1>0, <1>c DEF ThrowError, Move
<1>20. ASSUME NEW f \in Fetchers, Unwind(f) PROVE CoverInv'
  BY <1>20, <1>0, <1>c DEF Unwind, Move
<1>21. ASSUME NEW f \in Fetchers, HandleError(f) PROVE CoverInv'
  BY <1>21, <1>0, <1>c DEF HandleError, Move
<1>22. ASSUME NEW i \in Mails, RouteReply(i) PROVE CoverInv'
  BY <1>22, <1>0, <1>c DEF RouteReply
<1>23. ASSUME NEW c \in Switches, Toggle(c) PROVE CoverInv'
  BY <1>23, <1>0, <1>c DEF Toggle
<1>24. CASE UNCHANGED vars
  BY <1>0, <1>c, <1>24 DEF vars
<1>. QED
  BY <1>1, <1>2, <1>3, <1>4, <1>5, <1>6, <1>7, <1>8, <1>9, <1>10, <1>11,
     <1>12, <1>13, <1>14, <1>15, <1>16, <1>17, <1>18, <1>19, <1>20, <1>21,
     <1>22, <1>23, <1>24
     DEF Next, FetchStep, PrimeStep, ErrorStep, Threads

\* A mailbox without mail has nothing to cover.
LEMMA CoverInvInit == Init => CoverInv
<1>. SUFFICES ASSUME Init PROVE CoverInv
  OBVIOUS
<1>1. base = stored /\ (stored = NoId \/ stored = 0)
  BY EmailAssumption DEF Init
<1>2. \A f \in Fetchers : pc[f] = "idle"
  BY EmailAssumption DEF Init, Threads
<1>. QED BY <1>1, <1>2 DEF CoverInv

\* "historyId is advanced after each successful History API fetch", and, while
\* Gmail answers, not past a mail of somebody else that nobody looked at, in
\* whatever order fetches, crashes, Errors and the service's priming come.
THEOREM CursorCovers ==
  ASSUME "network" \notin Faults
  PROVE  Spec => []CursorCoversMail
<1>1. CoverInv => CursorCoversMail
  BY DEF CoverInv, Covered, CursorCoversMail
<1>. QED
  BY <1>1, CursorInvInit, CursorInvStep, CoverInvInit, CoverInvStep,
     TypeCorrect, PTL DEF Spec

-----------------------------------------------------------------------------
(* Notifications *)

\* Some fetch has the mail on its list.
InHand(i) ==
  \E f \in Fetchers : pc[f] \in {"items", "mark"} /\ i \in Range(todo[f])

\* Every mail since monitoring began is covered, on a list, or will be asked
\* for: by a fetch that has yet to ask, or for a notification on its way.
AskInv ==
  \A i \in (base + 1)..arrived :
    Covered(i) \/ InHand(i) \/ triggers > 0 \/ StillToAsk

\* Asking puts on the list, or gives up, whatever nothing covers yet; dropping a
\* notification gives up only what no fetch will ask for.
LEMMA AskInvStep ==
  ASSUME "network" \notin Faults
  PROVE  TypeOK /\ CursorInv /\ CoverInv /\ AskInv /\ [Next]_vars => AskInv'
<1>. SUFFICES ASSUME TypeOK, CursorInv, CoverInv, AskInv, [Next]_vars PROVE AskInv'
  OBVIOUS
<1>. USE DEF AskInv, Threads
<1>0. /\ arrived \in Nat /\ NoId \in Int /\ base \in Int /\ base <= arrived
      /\ pc \in [Threads -> Phases] /\ next \in [Threads -> Int]
      /\ \A f \in Threads : next[f] <= arrived /\ next[f] >= NoId
      /\ todo \in [Threads -> Seq(1..arrived)]
      /\ triggers \in Nat
  BY CursorTypes DEF TypeOK
<1>c. \A i \in Int : i <= arrived /\ Covered(i) => Covered(i)'
  BY StaysCovered
<1>1. CASE Arrive
  BY <1>0, <1>1 DEF Arrive
<1>2. CASE ReadElsewhere
  BY <1>0, <1>c, <1>2 DEF ReadElsewhere, mailbox, InHand, StillToAsk
<1>3. CASE Purge
  BY <1>0, <1>c, <1>3 DEF Purge, mailbox, InHand, StillToAsk
<1>4. CASE DropTrigger
  <2>1. CASE StillToAsk
    BY <1>4, <2>1 DEF DropTrigger, StillToAsk
  <2>2. CASE ~StillToAsk
    BY <1>4, <2>2 DEF DropTrigger, Covered
  <2>. QED BY <2>1, <2>2
<1>5. CASE Crash
  BY <1>5 DEF Crash, Covered, mailbox
<1>6. ASSUME NEW f \in Fetchers, Trigger(f) PROVE AskInv'
  BY <1>0, <1>6 DEF Trigger, Move, StillToAsk
<1>7. ASSUME NEW f \in Fetchers, Load(f) PROVE AskInv'
  BY <1>0, <1>7 DEF Load, Move, StillToAsk
<1>8. ASSUME NEW f \in Fetchers, FetchHistory(f) PROVE AskInv'
  <2>1. PICK mails \in OldestFirst(Page(next[f]) \cap unread) :
          todo' = [todo EXCEPT ![f] = mails]
    BY <1>8 DEF FetchHistory
  <2>2. Range(todo'[f]) = Page(next[f]) \cap unread
    BY <1>0, <2>1 DEF OldestFirst, Listings
  <2>3. pc'[f] = "items"
    BY <1>0, <1>8 DEF FetchHistory, Move
  <2>4. ASSUME NEW i \in (base + 1)..arrived PROVE Covered(i)' \/ InHand(i)'
    <3>1. CASE i <= next[f]
      BY <1>0, <1>c, <1>8, <3>1 DEF FetchHistory, Move, CoverInv
    <3>2. CASE i > next[f] /\ i \notin Page(next[f])
      BY <1>0, <1>8, <3>2 DEF FetchHistory, Covered
    <3>3. CASE i \in Page(next[f]) /\ i \notin unread
      BY <1>8, <3>3 DEF FetchHistory, Covered, mailbox
    <3>4. CASE i \in Page(next[f]) /\ i \in unread
      BY <2>2, <2>3, <3>4 DEF InHand
    <3>. QED BY <1>0, <3>1, <3>2, <3>3, <3>4
  <2>. QED BY <1>8, <2>4 DEF FetchHistory, mailbox
<1>9. ASSUME NEW f \in Fetchers, FetchFails(f) PROVE AskInv'
  BY <1>9 DEF FetchFails, Covered, mailbox
<1>10. ASSUME NEW f \in Fetchers, ListUnread(f) PROVE AskInv'
  <2>1. PICK mails \in NewestFirst(Newest) : todo' = [todo EXCEPT ![f] = mails]
    BY <1>10 DEF ListUnread
  <2>2. Range(todo'[f]) = Newest
    BY <1>0, <2>1 DEF NewestFirst, Listings
  <2>3. pc'[f] = "items"
    BY <1>0, <1>10 DEF ListUnread, Move
  <2>4. ASSUME NEW i PROVE Covered(i)' \/ InHand(i)'
    <3>1. CASE i \in Newest
      BY <2>2, <2>3, <3>1 DEF InHand
    <3>2. CASE i \in unread \ Newest
      BY <1>10, <3>2 DEF ListUnread, Covered
    <3>3. CASE i \notin unread
      BY <1>10, <3>3 DEF ListUnread, Covered, mailbox
    <3>. QED BY <3>1, <3>2, <3>3
  <2>. QED BY <2>4
<1>11. ASSUME NEW f \in Fetchers, Item(f) PROVE AskInv'
  <2>. DEFINE head == Head(todo[f])
  <2>0. /\ pc[f] = "items" /\ todo[f] # <<>>
        /\ UNCHANGED <<base, arrived, triggers>>
    BY <1>11 DEF Item, mailbox
  <2>1. ASSUME todo' = [todo EXCEPT ![f] = Tail(todo[f])],
               missed' = missed \cup {head},
               pc' = pc
        PROVE  AskInv'
    <3>1. Range(todo[f]) = {head} \cup Range(Tail(todo[f]))
      BY <1>0, <2>0, RangeOfTail
    <3>2. \A i : i = head => Covered(i)'
      BY <2>1 DEF Covered
    <3>3. \A i : InHand(i) => Covered(i)' \/ InHand(i)'
      BY <1>0, <2>1, <3>1, <3>2 DEF InHand
    <3>. QED BY <1>0, <1>c, <2>0, <2>1, <3>3 DEF StillToAsk
  <2>2. ASSUME pc' = [pc EXCEPT ![f] = "mark"], todo' = todo PROVE AskInv'
    <3>1. \A i : InHand(i) => InHand(i)'
      BY <1>0, <2>2 DEF InHand
    <3>2. StillToAsk => StillToAsk'
      BY <1>0, <2>0, <2>2 DEF StillToAsk
    <3>. QED BY <1>0, <1>c, <2>0, <3>1, <3>2
  <2>. QED
    <3>1. \/ /\ todo' = [todo EXCEPT ![f] = Tail(todo[f])]
             /\ missed' = missed \cup {head}
             /\ pc' = pc
          \/ pc' = [pc EXCEPT ![f] = "mark"] /\ todo' = todo
      BY <1>11 DEF Item
    <3>. QED BY <2>1, <2>2, <3>1
<1>12. ASSUME NEW f \in Fetchers, MarkAsRead(f) PROVE AskInv'
  <2>. DEFINE head == Head(todo[f])
  <2>1. /\ pc[f] = "mark" /\ pc' = [pc EXCEPT ![f] = "items"]
        /\ UNCHANGED <<base, arrived, triggers>>
    BY <1>12 DEF MarkAsRead, Move
  <2>2. todo' = [todo EXCEPT ![f] = Tail(todo[f])]
    BY <1>12 DEF MarkAsRead
  <2>3. unread' = unread \ {head}
    BY <1>12 DEF MarkAsRead
  <2>4. todo[f] # <<>>
    BY <2>1 DEF TypeOK
  <2>5. Range(todo[f]) = {head} \cup Range(Tail(todo[f]))
    BY <1>0, <2>4, RangeOfTail
  <2>6. \A i : i = head => Covered(i)'
    BY <2>3 DEF Covered
  <2>7. \A i : InHand(i) => Covered(i)' \/ InHand(i)'
    BY <1>0, <2>1, <2>2, <2>5, <2>6 DEF InHand
  <2>8. StillToAsk => StillToAsk'
    BY <1>0, <2>1 DEF StillToAsk
  <2>. QED BY <1>0, <1>c, <2>1, <2>7, <2>8
<1>13. ASSUME NEW f \in Fetchers, ItemsDone(f) PROVE AskInv'
  <2>1. Range(todo[f]) = {} /\ pc[f] = "items"
    BY <1>13 DEF ItemsDone, Range, Move
  <2>2. \A i : InHand(i) => InHand(i)'
    BY <1>0, <1>13, <2>1 DEF InHand, ItemsDone, Move
  <2>3. StillToAsk => StillToAsk'
    BY <1>0, <1>13, <2>1 DEF StillToAsk, ItemsDone, Move
  <2>. QED BY <1>0, <1>c, <1>13, <2>2, <2>3 DEF ItemsDone, mailbox
<1>14. ASSUME NEW f \in Fetchers, SaveHistory(f) PROVE AskInv'
  <2>1. \A i : InHand(i) => InHand(i)'
    BY <1>0, <1>14 DEF InHand, SaveHistory, Move
  <2>2. StillToAsk => StillToAsk'
    BY <1>0, <1>14 DEF StillToAsk, SaveHistory, Move
  <2>. QED BY <1>0, <1>c, <1>14, <2>1, <2>2 DEF SaveHistory, mailbox
<1>15. ASSUME NEW f \in Fetchers, Finish(f) PROVE AskInv'
  <2>1. \A i : InHand(i) => InHand(i)'
    BY <1>0, <1>15 DEF InHand, Finish, Move
  <2>2. StillToAsk => StillToAsk'
    BY <1>0, <1>15 DEF StillToAsk, Finish, Move
  <2>. QED BY <1>0, <1>c, <1>15, <2>1, <2>2 DEF Finish, mailbox
<1>16. ASSUME NEW f \in Threads, Prime(f) PROVE AskInv'
  <2>1. \A i : InHand(i) => InHand(i)'
    BY <1>0, <1>16 DEF InHand, Prime, Move, AfterPrime
  <2>2. StillToAsk => StillToAsk'
    BY <1>0, <1>16 DEF StillToAsk, Prime, Move, AfterPrime
  <2>. QED BY <1>0, <1>c, <1>16, <2>1, <2>2 DEF Prime, mailbox
<1>17. ASSUME NEW f \in Threads, AskProfile(f) PROVE AskInv'
  <2>1. \A i : InHand(i) => InHand(i)'
    BY <1>0, <1>17 DEF InHand, AskProfile, Move, AfterPrime
  <2>2. StillToAsk => StillToAsk'
    BY <1>0, <1>17 DEF StillToAsk, AskProfile, Move, AfterPrime
  <2>. QED BY <1>0, <1>c, <1>17, <2>1, <2>2 DEF AskProfile, mailbox
<1>18. ASSUME NEW f \in Threads, SetPrimed(f) PROVE AskInv'
  <2>1. f = Service /\ base' = next[f] /\ base = NoId
    BY <1>18 DEF SetPrimed, Move, CursorInv, Threads
  <2>2. \A g \in Fetchers : pc'[g] = pc[g] /\ todo'[g] = todo[g]
    BY <1>0, <1>18, <2>1, EmailAssumption DEF SetPrimed, Move
  <2>3. /\ \A i : InHand(i) => InHand(i)'
        /\ StillToAsk => StillToAsk'
    BY <2>2 DEF InHand, StillToAsk
  <2>. QED BY <1>0, <1>c, <1>18, <2>1, <2>3 DEF SetPrimed, mailbox
<1>19. ASSUME NEW f \in Fetchers, ThrowError(f) PROVE AskInv'
  BY <1>19 DEF ThrowError, Covered, mailbox
<1>20. ASSUME NEW f \in Fetchers, Unwind(f) PROVE AskInv'
  <2>1. \A i : InHand(i) => InHand(i)'
    BY <1>0, <1>20 DEF InHand, Unwind, Move
  <2>2. StillToAsk => StillToAsk'
    BY <1>0, <1>20 DEF StillToAsk, Unwind, Move
  <2>. QED BY <1>0, <1>c, <1>20, <2>1, <2>2 DEF Unwind, mailbox
<1>21. ASSUME NEW f \in Fetchers, HandleError(f) PROVE AskInv'
  <2>1. \A i : InHand(i) => InHand(i)'
    BY <1>0, <1>21 DEF InHand, HandleError, Move
  <2>2. StillToAsk => StillToAsk'
    BY <1>0, <1>21 DEF StillToAsk, HandleError, Move
  <2>. QED BY <1>0, <1>c, <1>21, <2>1, <2>2 DEF HandleError, mailbox
<1>22. ASSUME NEW i \in Mails, RouteReply(i) PROVE AskInv'
  BY <1>0, <1>c, <1>22 DEF RouteReply, mailbox, InHand, StillToAsk
<1>23. ASSUME NEW c \in Switches, Toggle(c) PROVE AskInv'
  BY <1>0, <1>c, <1>23 DEF Toggle, mailbox, InHand, StillToAsk
<1>24. CASE UNCHANGED vars
  BY <1>0, <1>c, <1>24 DEF vars, mailbox, InHand, StillToAsk
<1>. QED
  BY <1>1, <1>2, <1>3, <1>4, <1>5, <1>6, <1>7, <1>8, <1>9, <1>10, <1>11,
     <1>12, <1>13, <1>14, <1>15, <1>16, <1>17, <1>18, <1>19, <1>20, <1>21,
     <1>22, <1>23, <1>24
     DEF Next, FetchStep, PrimeStep, ErrorStep, Threads

\* When no notification is on its way and no fetch is running, no mail of
\* somebody else since monitoring began lies unread, but for the known ways to
\* miss one: a full page, a failed or killed fetch, or a notification dropped
\* by a fetch that had already asked.  It holds while Gmail answers, whatever
\* fetches overlap.
THEOREM NoMailForgotten ==
  ASSUME "network" \notin Faults
  PROVE  Spec => []NothingForgotten
<1>1. Init => AskInv
  BY DEF Init, AskInv, Covered
<1>2. TypeOK /\ AskInv => NothingForgotten
  <2>. SUFFICES ASSUME TypeOK, AskInv, triggers = 0, Fetching = {},
                       NEW i \in (base + 1)..arrived
                PROVE  Covered(i)
    BY DEF NothingForgotten, Covered
  <2>1. ~StillToAsk /\ ~InHand(i)
    BY DEF Fetching, StillToAsk, InHand
  <2>. QED BY <2>1 DEF AskInv
<1>. QED
  BY <1>1, <1>2, CursorInvInit, CursorInvStep, CoverInvInit, CoverInvStep,
     AskInvStep, TypeCorrect, PTL DEF Spec

-----------------------------------------------------------------------------
(* One hand-over per life of the process *)

\* Unread mail was not handed over in this life of the process, but for the one
\* that is just being marked; neither was what is still on a list, on which no
\* mail is twice.
OnceInv ==
  /\ \A i \in Mails : count[i] <= 1 + crashes
  /\ \A i \in Mails : i > arrived => count[i] = 0
  /\ \A i \in unread :
       \/ count[i] <= crashes
       \/ \E f \in Fetchers : pc[f] = "mark" /\ i = todo[f][1]
  /\ \A f \in Fetchers : pc[f] \in {"items", "mark"} =>
       /\ \A j, k \in DOMAIN todo[f] : todo[f][j] = todo[f][k] => j = k
       /\ \A k \in DOMAIN todo[f] :
            count[todo[f][k]] <= crashes \/ (k = 1 /\ pc[f] = "mark")

\* A list that was just made is of unread mail, which nobody is marking.
LEMMA NewList ==
  ASSUME TypeOK, FetchInv, OnceInv, NEW f \in Fetchers, pc[f] \in {"history", "list"},
         NEW mails, NEW S, S \subseteq unread, mails \in Listings(S),
         \A j, k \in DOMAIN mails : mails[j] = mails[k] => j = k,
         pc' = [pc EXCEPT ![f] = "items"], todo' = [todo EXCEPT ![f] = mails],
         UNCHANGED <<count, crashes, arrived, unread>>
  PROVE  OnceInv'
<1>1. pc \in [Threads -> Phases] /\ todo \in [Threads -> Seq(1..arrived)]
  BY DEF TypeOK
<1>2. \A g \in Fetchers : g # f => pc[g] = "idle"
  BY DEF FetchInv
<1>3. \A i \in unread : count[i] <= crashes
  BY <1>2 DEF OnceInv
<1>4. \A k \in DOMAIN mails : mails[k] \in S
  BY DEF Listings
<1>5. \A g \in Fetchers : g # f => pc'[g] = "idle"
  BY <1>1, <1>2 DEF Threads
<1>6. pc'[f] = "items" /\ todo'[f] = mails
  BY <1>1 DEF Threads
<1>. QED BY <1>3, <1>4, <1>5, <1>6 DEF OnceInv

\* The head of a list is handed over, and the rest of the list is other mail.
LEMMA OnceInvStep ==
  ASSUME "error" \notin Faults, "network" \notin Faults
  PROVE  TypeOK /\ FetchInv /\ OnceInv /\ [Next]_vars => OnceInv'
<1>. SUFFICES ASSUME TypeOK, FetchInv, OnceInv, [Next]_vars PROVE OnceInv'
  OBVIOUS
<1>. USE DEF Threads
<1>0. /\ arrived \in Nat /\ arrived <= MaxMail /\ MaxMail \in Nat
      /\ crashes \in Nat /\ count \in [Mails -> Nat]
      /\ unread \subseteq 1..arrived
      /\ pc \in [Threads -> Phases]
      /\ todo \in [Threads -> Seq(1..arrived)]
  BY EmailAssumption DEF TypeOK
<1>1. CASE Arrive
  <2>1. count[arrived + 1] = 0
    BY <1>0, <1>1 DEF OnceInv, Arrive, Mails
  <2>2. /\ arrived' = arrived + 1 /\ unread' = unread \cup {arrived + 1}
        /\ UNCHANGED <<pc, todo, count, crashes>>
    BY <1>1 DEF Arrive, router, context
  <2>3. \A i \in Mails : i > arrived' => count'[i] = 0
    BY <1>0, <2>2 DEF OnceInv, Mails
  <2>4. \A i \in unread' :
          \/ count'[i] <= crashes'
          \/ \E f \in Fetchers : pc'[f] = "mark" /\ i = todo'[f][1]
    BY <1>0, <2>1, <2>2 DEF OnceInv
  <2>. QED BY <2>2, <2>3, <2>4 DEF OnceInv
<1>2. CASE ReadElsewhere
  BY <1>0, <1>2 DEF ReadElsewhere, mailbox, router, context, OnceInv
<1>3. CASE Purge
  BY <1>0, <1>3 DEF Purge, mailbox, router, context, OnceInv
<1>4. CASE DropTrigger
  BY <1>0, <1>4 DEF DropTrigger, mailbox, router, context, OnceInv
<1>5. CASE Crash
  <2>1. crashes' = crashes + 1 /\ UNCHANGED <<arrived, unread, count>>
    BY <1>5 DEF Crash, mailbox
  <2>2. \A f \in Fetchers : pc'[f] = "idle"
    BY <1>5, EmailAssumption DEF Crash
  <2>3. unread \subseteq Mails
    BY <1>0, EmailAssumption DEF Mails
  <2>. QED BY <1>0, <2>1, <2>2, <2>3 DEF OnceInv
<1>6. ASSUME NEW f \in Fetchers, Trigger(f) PROVE OnceInv'
  <2>1. /\ pc[f] # "mark"
        /\ UNCHANGED <<todo, count, crashes, arrived, unread>>
    BY <1>6 DEF Trigger, Move, mailbox, router, context
  <2>2. \A g \in Fetchers : pc'[g] \in {"items", "mark"} => pc'[g] = pc[g]
    BY <1>0, <1>6 DEF Trigger, Move
  <2>3. \A g \in Fetchers : pc[g] = "mark" => pc'[g] = "mark"
    BY <1>0, <1>6 DEF Trigger, Move
  <2>. QED BY <2>1, <2>2, <2>3 DEF OnceInv
<1>7. ASSUME NEW f \in Fetchers, Load(f) PROVE OnceInv'
  <2>1. /\ pc[f] # "mark"
        /\ UNCHANGED <<todo, count, crashes, arrived, unread>>
    BY <1>7 DEF Load, Move, mailbox, router, context
  <2>2. \A g \in Fetchers : pc'[g] \in {"items", "mark"} => pc'[g] = pc[g]
    BY <1>0, <1>7 DEF Load, Move
  <2>3. \A g \in Fetchers : pc[g] = "mark" => pc'[g] = "mark"
    BY <1>0, <1>7 DEF Load, Move
  <2>. QED BY <2>1, <2>2, <2>3 DEF OnceInv
<1>8. ASSUME NEW f \in Fetchers, FetchHistory(f) PROVE OnceInv'
  <2>1. PICK mails \in OldestFirst(Page(next[f]) \cap unread) :
          todo' = [todo EXCEPT ![f] = mails]
    BY <1>8 DEF FetchHistory
  <2>2. arrived \in Int /\ unread \subseteq 1..arrived
    BY <1>0
  <2>3. Page(next[f]) \cap unread \subseteq 1..arrived
    BY <2>2, Zenon
  <2>4. mails \in Listings(Page(next[f]) \cap unread) /\ mails \in Seq(1..arrived)
    BY <2>1, <2>2, <2>3, ListingType DEF OldestFirst
  <2>5. \A j, k \in DOMAIN mails : mails[j] = mails[k] => j = k
    <3>1. \A j, k \in DOMAIN mails : j < k => mails[j] < mails[k]
      BY DEF OldestFirst
    <3>2. DOMAIN mails \subseteq Int /\ \A k \in DOMAIN mails : mails[k] \in Int
      BY <2>2, <2>4
    <3>. QED BY <3>1, <3>2
  <2>6. Page(next[f]) \cap unread \subseteq unread
    OBVIOUS
  <2>. QED BY <1>8, <2>1, <2>4, <2>5, <2>6, NewList DEF FetchHistory, Move,
  mailbox, router, context
<1>9. ASSUME NEW f \in Fetchers, FetchFails(f) PROVE OnceInv'
  <2>1. /\ pc[f] # "mark"
        /\ UNCHANGED <<todo, count, crashes, arrived, unread>>
    BY <1>9 DEF FetchFails, Move, mailbox, router, context
  <2>2. \A g \in Fetchers : pc'[g] \in {"items", "mark"} => pc'[g] = pc[g]
    BY <1>0, <1>9 DEF FetchFails, Move
  <2>3. \A g \in Fetchers : pc[g] = "mark" => pc'[g] = "mark"
    BY <1>0, <1>9 DEF FetchFails, Move
  <2>. QED BY <2>1, <2>2, <2>3 DEF OnceInv
<1>10. ASSUME NEW f \in Fetchers, ListUnread(f) PROVE OnceInv'
  <2>1. PICK mails \in NewestFirst(Newest) : todo' = [todo EXCEPT ![f] = mails]
    BY <1>10 DEF ListUnread
  <2>2. arrived \in Int /\ unread \subseteq 1..arrived
    BY <1>0
  <2>3. Newest \subseteq unread /\ Newest \subseteq 1..arrived
    BY <2>2, Zenon DEF Newest
  <2>4. mails \in Listings(Newest) /\ mails \in Seq(1..arrived)
    BY <2>1, <2>2, <2>3, ListingType DEF NewestFirst
  <2>5. \A j, k \in DOMAIN mails : mails[j] = mails[k] => j = k
    <3>1. \A j, k \in DOMAIN mails : j < k => mails[j] > mails[k]
      BY DEF NewestFirst
    <3>2. DOMAIN mails \subseteq Int /\ \A k \in DOMAIN mails : mails[k] \in Int
      BY <2>2, <2>4
    <3>. QED BY <3>1, <3>2
  <2>. QED BY <1>10, <2>1, <2>3, <2>4, <2>5, NewList DEF ListUnread, Move,
  mailbox, router, context
<1>11. ASSUME NEW f \in Fetchers, Item(f) PROVE OnceInv'
  <2>0. /\ pc[f] = "items" /\ todo[f] # <<>> /\ todo[f] \in Seq(1..arrived)
        /\ UNCHANGED <<arrived, unread, crashes>>
    BY <1>0, <1>11 DEF Item, mailbox
  <2>t. /\ Len(todo[f]) \in Nat \ {0} /\ Head(todo[f]) = todo[f][1]
        /\ Tail(todo[f]) \in Seq(1..arrived)
        /\ Len(Tail(todo[f])) = Len(todo[f]) - 1
        /\ \A k \in 1..Len(Tail(todo[f])) : Tail(todo[f])[k] = todo[f][k + 1]
        /\ DOMAIN todo[f] = 1..Len(todo[f])
        /\ DOMAIN Tail(todo[f]) = 1..Len(Tail(todo[f]))
        /\ \A k \in DOMAIN todo[f] : todo[f][k] \in 1..arrived
    BY <1>0, <2>0, HeadAndTail
  <2>1. \A g \in Fetchers : g # f => pc[g] = "idle"
    BY <2>0 DEF FetchInv
  <2>2. ASSUME todo' = [todo EXCEPT ![f] = Tail(todo[f])], pc' = pc, count' = count
        PROVE  OnceInv'
    <3>1. /\ todo'[f] = Tail(todo[f])
          /\ \A g \in Fetchers : g # f => todo'[g] = todo[g]
      BY <1>0, <2>2
    <3>2. \A j, k \in DOMAIN todo'[f] : todo'[f][j] = todo'[f][k] => j = k
      BY <2>0, <2>t, <3>1 DEF OnceInv
    <3>3. \A k \in DOMAIN todo'[f] : count[todo'[f][k]] <= crashes
      BY <2>0, <2>t, <3>1 DEF OnceInv
    <3>. QED BY <2>0, <2>1, <2>2, <3>1, <3>2, <3>3 DEF OnceInv
  <2>3. ASSUME pc' = [pc EXCEPT ![f] = "mark"], todo' = todo,
               \/ count' = count
               \/ count' = [count EXCEPT ![Head(todo[f])] = count[Head(todo[f])] + 1]
        PROVE  OnceInv'
    <3>1. /\ pc'[f] = "mark" /\ \A g \in Fetchers : g # f => pc'[g] = "idle"
      BY <1>0, <2>1, <2>3
    <3>2. /\ todo[f][1] \in Mails /\ todo[f][1] <= arrived
          /\ count[todo[f][1]] <= crashes
      <4>1. 1 \in DOMAIN todo[f] BY <2>t
      <4>2. todo[f][1] \in 1..arrived BY <2>t, <4>1
      <4>3. count[todo[f][1]] <= crashes BY <2>0, <4>1 DEF OnceInv
      <4>. QED BY <1>0, <4>2, <4>3 DEF Mails
    <3>3. \A i \in Mails : i # todo[f][1] => count'[i] = count[i]
      BY <1>0, <2>3, <2>t, <3>2
    <3>4. count'[todo[f][1]] <= 1 + crashes
      <4>1. count[todo[f][1]] \in Nat BY <1>0, <3>2
      <4>2. count'[todo[f][1]] \in {count[todo[f][1]], count[todo[f][1]] + 1}
        BY <1>0, <2>3, <2>t, <3>2
      <4>. QED BY <1>0, <3>2, <4>1, <4>2
    <3>5. \A k \in DOMAIN todo[f] : k # 1 =>
            todo[f][k] \in Mails /\ todo[f][k] # todo[f][1]
      <4>1. \A k \in DOMAIN todo[f] : todo[f][k] \in Mails
        BY <1>0, <2>t DEF Mails
      <4>2. 1 \in DOMAIN todo[f] BY <2>t
      <4>. QED BY <2>0, <4>1, <4>2 DEF OnceInv
    <3>6. \A k \in DOMAIN todo[f] : k # 1 => count'[todo[f][k]] <= crashes
      BY <2>0, <3>3, <3>5 DEF OnceInv
    <3>7. unread \subseteq Mails
      BY <1>0, EmailAssumption DEF Mails
    <3>8. \A i \in unread : count'[i] <= crashes \/ i = todo[f][1]
      BY <2>0, <2>1, <3>3, <3>7 DEF OnceInv
    <3>9. \A i \in Mails : count'[i] <= 1 + crashes /\ (i > arrived => count'[i] = 0)
      <4>. TAKE i \in Mails
      <4>1. count[i] <= 1 + crashes /\ (i > arrived => count[i] = 0)
        BY <2>0 DEF OnceInv
      <4>2. CASE i = todo[f][1]
        <5>1. i \in Int /\ arrived \in Int /\ ~(i > arrived)
          BY <1>0, <3>2, <4>2 DEF Mails
        <5>. QED BY <3>4, <4>2, <5>1
      <4>3. CASE i # todo[f][1]
        BY <3>3, <4>1, <4>3
      <4>. QED BY <4>2, <4>3
    <3>. QED BY <2>0, <2>3, <3>1, <3>6, <3>8, <3>9 DEF OnceInv
  <2>. QED
    <3>1. \/ /\ todo' = [todo EXCEPT ![f] = Tail(todo[f])]
             /\ pc' = pc /\ count' = count
          \/ /\ pc' = [pc EXCEPT ![f] = "mark"] /\ todo' = todo
             /\ \/ count' = count
                \/ count' = [count EXCEPT ![Head(todo[f])] = count[Head(todo[f])] + 1]
      BY <1>11 DEF Item, Process, router, context
    <3>. QED BY <2>2, <2>3, <3>1
<1>12. ASSUME NEW f \in Fetchers, MarkAsRead(f) PROVE OnceInv'
  <2>0. /\ pc[f] = "mark" /\ todo[f] # <<>> /\ todo[f] \in Seq(1..arrived)
        /\ pc' = [pc EXCEPT ![f] = "items"]
        /\ UNCHANGED <<arrived, count, crashes>>
    BY <1>0, <1>12 DEF MarkAsRead, Move, TypeOK, router, context
  <2>t. /\ Len(todo[f]) \in Nat \ {0} /\ Head(todo[f]) = todo[f][1]
        /\ Tail(todo[f]) \in Seq(1..arrived)
        /\ Len(Tail(todo[f])) = Len(todo[f]) - 1
        /\ \A k \in 1..Len(Tail(todo[f])) : Tail(todo[f])[k] = todo[f][k + 1]
        /\ DOMAIN todo[f] = 1..Len(todo[f])
        /\ DOMAIN Tail(todo[f]) = 1..Len(Tail(todo[f]))
        /\ \A k \in DOMAIN todo[f] : todo[f][k] \in 1..arrived
    BY <1>0, <2>0, HeadAndTail
  <2>1. \A g \in Fetchers : g # f => pc[g] = "idle"
    BY <2>0 DEF FetchInv
  <2>2. todo' = [todo EXCEPT ![f] = Tail(todo[f])]
    BY <1>12 DEF MarkAsRead
  <2>3. unread' = unread \ {Head(todo[f])}
    BY <1>12 DEF MarkAsRead
  <2>4. todo'[f] = Tail(todo[f]) /\ pc'[f] = "items"
        /\ \A g \in Fetchers : g # f => pc'[g] = "idle"
    BY <1>0, <2>0, <2>1, <2>2
  <2>5. \A j, k \in DOMAIN todo'[f] : todo'[f][j] = todo'[f][k] => j = k
    BY <2>0, <2>t, <2>4 DEF OnceInv
  <2>6. \A k \in DOMAIN todo'[f] : count[todo'[f][k]] <= crashes
    <3>1. \A k \in DOMAIN todo'[f] :
            /\ k + 1 \in DOMAIN todo[f] /\ k + 1 # 1
            /\ todo'[f][k] = todo[f][k + 1]
      BY <2>t, <2>4
    <3>. QED BY <2>0, <3>1 DEF OnceInv
  <2>7. \A i \in unread' : count[i] <= crashes
    BY <2>1, <2>3, <2>t DEF OnceInv
  <2>. QED BY <2>0, <2>4, <2>5, <2>6, <2>7 DEF OnceInv
<1>13. ASSUME NEW f \in Fetchers, ItemsDone(f) PROVE OnceInv'
  <2>1. /\ pc[f] # "mark"
        /\ UNCHANGED <<todo, count, crashes, arrived, unread>>
    BY <1>13 DEF ItemsDone, Move, mailbox, router, context
  <2>2. \A g \in Fetchers : pc'[g] \in {"items", "mark"} => pc'[g] = pc[g]
    BY <1>0, <1>13 DEF ItemsDone, Move
  <2>3. \A g \in Fetchers : pc[g] = "mark" => pc'[g] = "mark"
    BY <1>0, <1>13 DEF ItemsDone, Move
  <2>. QED BY <2>1, <2>2, <2>3 DEF OnceInv
<1>14. ASSUME NEW f \in Fetchers, SaveHistory(f) PROVE OnceInv'
  <2>1. /\ pc[f] # "mark"
        /\ UNCHANGED <<todo, count, crashes, arrived, unread>>
    BY <1>14 DEF SaveHistory, Move, mailbox, router, context
  <2>2. \A g \in Fetchers : pc'[g] \in {"items", "mark"} => pc'[g] = pc[g]
    BY <1>0, <1>14 DEF SaveHistory, Move
  <2>3. \A g \in Fetchers : pc[g] = "mark" => pc'[g] = "mark"
    BY <1>0, <1>14 DEF SaveHistory, Move
  <2>. QED BY <2>1, <2>2, <2>3 DEF OnceInv
<1>15. ASSUME NEW f \in Fetchers, Finish(f) PROVE OnceInv'
  <2>1. /\ pc[f] # "mark"
        /\ UNCHANGED <<todo, count, crashes, arrived, unread>>
    BY <1>15 DEF Finish, Move, mailbox, router, context
  <2>2. \A g \in Fetchers : pc'[g] \in {"items", "mark"} => pc'[g] = pc[g]
    BY <1>0, <1>15 DEF Finish, Move
  <2>3. \A g \in Fetchers : pc[g] = "mark" => pc'[g] = "mark"
    BY <1>0, <1>15 DEF Finish, Move
  <2>. QED BY <2>1, <2>2, <2>3 DEF OnceInv
<1>16. ASSUME NEW f \in Threads, Prime(f) PROVE OnceInv'
  <2>1. /\ pc[f] # "mark"
        /\ UNCHANGED <<todo, count, crashes, arrived, unread>>
    BY <1>16 DEF Prime, Move, AfterPrime, mailbox, router, context
  <2>2. \A g \in Fetchers : pc'[g] \in {"items", "mark"} => pc'[g] = pc[g]
    BY <1>0, <1>16 DEF Prime, Move, AfterPrime
  <2>3. \A g \in Fetchers : pc[g] = "mark" => pc'[g] = "mark"
    BY <1>0, <1>16 DEF Prime, Move, AfterPrime
  <2>. QED BY <2>1, <2>2, <2>3 DEF OnceInv
<1>17. ASSUME NEW f \in Threads, AskProfile(f) PROVE OnceInv'
  <2>1. /\ pc[f] # "mark"
        /\ UNCHANGED <<todo, count, crashes, arrived, unread>>
    BY <1>17 DEF AskProfile, Move, AfterPrime, mailbox, router, context
  <2>2. \A g \in Fetchers : pc'[g] \in {"items", "mark"} => pc'[g] = pc[g]
    BY <1>0, <1>17 DEF AskProfile, Move, AfterPrime
  <2>3. \A g \in Fetchers : pc[g] = "mark" => pc'[g] = "mark"
    BY <1>0, <1>17 DEF AskProfile, Move, AfterPrime
  <2>. QED BY <2>1, <2>2, <2>3 DEF OnceInv
<1>18. ASSUME NEW f \in Threads, SetPrimed(f) PROVE OnceInv'
  <2>1. /\ pc[f] # "mark"
        /\ UNCHANGED <<todo, count, crashes, arrived, unread>>
    BY <1>18 DEF SetPrimed, Move, AfterPrime, mailbox, router, context
  <2>2. \A g \in Fetchers : pc'[g] \in {"items", "mark"} => pc'[g] = pc[g]
    BY <1>0, <1>18 DEF SetPrimed, Move, AfterPrime
  <2>3. \A g \in Fetchers : pc[g] = "mark" => pc'[g] = "mark"
    BY <1>0, <1>18 DEF SetPrimed, Move, AfterPrime
  <2>. QED BY <2>1, <2>2, <2>3 DEF OnceInv
<1>19. ASSUME NEW f \in Fetchers, ThrowError(f) PROVE OnceInv'
  BY <1>19 DEF ThrowError
<1>20. ASSUME NEW f \in Fetchers, Unwind(f) PROVE OnceInv'
  BY <1>20 DEF Unwind, Move, FetchInv
<1>21. ASSUME NEW f \in Fetchers, HandleError(f) PROVE OnceInv'
  BY <1>21 DEF HandleError, Move, FetchInv
<1>22. ASSUME NEW i \in Mails, RouteReply(i) PROVE OnceInv'
  BY <1>0, <1>22 DEF RouteReply, mailbox, router, context, OnceInv
<1>23. ASSUME NEW c \in Switches, Toggle(c) PROVE OnceInv'
  BY <1>0, <1>23 DEF Toggle, mailbox, router, context, OnceInv
<1>24. CASE UNCHANGED vars
  BY <1>24 DEF vars, mailbox, router, context, OnceInv
<1>. QED
  BY <1>1, <1>2, <1>3, <1>4, <1>5, <1>6, <1>7, <1>8, <1>9, <1>10, <1>11,
     <1>12, <1>13, <1>14, <1>15, <1>16, <1>17, <1>18, <1>19, <1>20, <1>21,
     <1>22, <1>23, <1>24
     DEF Next, FetchStep, PrimeStep, ErrorStep, Threads

\* No mail is handed to the engine twice in one life of the process: a second
\* automatic reply takes a crash between processEmail and markAsRead, while
\* Gmail answers and no call throws an Error.
THEOREM HandledOnce ==
  ASSUME "error" \notin Faults, "network" \notin Faults
  PROVE  Spec => []HandledOncePerLife
<1>1. Init => OnceInv
  BY EmailAssumption DEF Init, OnceInv, Mails, Threads
<1>2. OnceInv => HandledOncePerLife
  BY DEF OnceInv, HandledOncePerLife
<1>. QED
  BY <1>1, <1>2, FetchInvInit, FetchInvStep, OnceInvStep, TypeCorrect, PTL
     DEF Spec

-----------------------------------------------------------------------------
(* Replies *)

\* A second fetch is never alive: because no Error clears the flag under
\* another fetch, or because there is only one coroutine to fetch.
SoleFetch ==
  \A f, g \in Fetchers : pc[f] # "idle" /\ pc[g] # "idle" => f = g

\* Either reason holds along every behaviour.
LEMMA SoleFetchAlways ==
  ASSUME "error" \notin Faults \/ \A f, g \in Fetchers : f = g
  PROVE  Spec => []SoleFetch
<1>1. CASE "error" \notin Faults
  <2>1. FetchInv => SoleFetch BY DEF FetchInv, SoleFetch
  <2>. QED BY <1>1, <2>1, FetchInvInit, FetchInvStep, TypeCorrect, PTL DEF Spec
<1>2. CASE \A f, g \in Fetchers : f = g
  <2>1. SoleFetch BY <1>2 DEF SoleFetch
  <2>. QED BY <2>1, PTL
<1>. QED BY <1>1, <1>2

\* The phases in which a fetch has mails that the stored cursor does not cover.
Busy == {"items", "mark", "save"}

\* The mails that wait for the engine and came by way of the history.
Handed == waiting \ listed

\* What a map holds for mail j of that kind: nothing, j, a newer mail, or one
\* of the set of mails from the unread list.
NotOlder(m, j, set) == m = NoMail \/ m >= j \/ m \in set

\* Each map holds mails of its own channel, at their own keys, and none that is
\* older than a mail of that key that waits.
ContextInv ==
  /\ \A k \in Keys : gvoiceContextMap[k] # NoMail =>
       /\ gvoiceContextMap[k] \in Mails
       /\ Mail[gvoiceContextMap[k]].channel = "GVOICE"
       /\ Digits[Mail[gvoiceContextMap[k]].from] = k
  /\ \A s \in Senders : emailContextMap[s] # NoMail =>
       /\ emailContextMap[s] \in Mails
       /\ Mail[emailContextMap[s]].channel = "EMAIL"
       /\ Mail[emailContextMap[s]].from = s
  /\ \A j \in Handed :
       /\ Mail[j].channel = "GVOICE" =>
            NotOlder(gvoiceContextMap[Digits[Mail[j].from]], j, listed)
       /\ Mail[j].channel = "EMAIL" =>
            NotOlder(emailContextMap[Mail[j].from], j, listed)

\* Along the history path, mails are handed over in the order of their arrival:
\* whatever waits for the engine is older than what is on a list, up to the
\* mail being marked, and older than the cursor when no list is.
OrderInv ==
  /\ \A f \in Fetchers :
       /\ pc[f] = "list" => Handed = {}
       /\ pc[f] = "history" => next[f] = stored
       /\ pc[f] \in Busy => \A j \in Handed : j <= next[f]
  /\ \A f \in Fetchers : pc[f] \in {"items", "mark"} /\ next[f] # NoId =>
       /\ \A j, k \in DOMAIN todo[f] : j < k => todo[f][j] < todo[f][k]
       /\ \A k \in DOMAIN todo[f] : todo[f][k] <= next[f]
       /\ \A j \in Handed, k \in DOMAIN todo[f] :
            j < todo[f][k] \/ (pc[f] = "mark" /\ k = 1 /\ j = todo[f][k])
  /\ (\A f \in Fetchers : pc[f] \notin Busy) => \A j \in Handed : j <= stored
  /\ ContextInv
  /\ RepliesNeverGoBack

\* Steps that leave the router alone, or take from what waits.
LEMMA ContextFrame ==
  ASSUME ContextInv, UNCHANGED <<gvoiceContextMap, emailContextMap, listed>>,
         waiting' \subseteq waiting
  PROVE  ContextInv' /\ Handed' \subseteq Handed
BY DEF ContextInv, Handed, NotOlder

\* Replies stay what they were, and more mails may count as listed.
LEMMA RepliesFrame ==
  ASSUME RepliesNeverGoBack, UNCHANGED replies, listed \subseteq listed'
  PROVE  RepliesNeverGoBack'
BY DEF RepliesNeverGoBack, InBothMaps

\* A step of a fetch outside of its list, that leaves the cursor and the router
\* alone.
LEMMA OrderFrame ==
  ASSUME OrderInv,
         UNCHANGED <<stored, router, todo>>,
         \A g \in Fetchers : /\ pc'[g] \in Busy <=> pc[g] \in Busy
                             /\ pc'[g] \in Busy => /\ pc'[g] = pc[g]
                                                   /\ next'[g] = next[g]
                             /\ pc'[g] = "list" => pc[g] = "list" \/ Handed = {}
                             /\ pc'[g] = "history" => next'[g] = stored
  PROVE  OrderInv'
<1>1. \A g \in Fetchers : pc'[g] \in {"items", "mark"} =>
        pc[g] = pc'[g] /\ next'[g] = next[g]
  BY DEF Busy
<1>2. /\ UNCHANGED <<waiting, gvoiceContextMap, emailContextMap, replies, listed>>
      /\ Handed' = Handed
  BY DEF router, context, Handed
<1>3. ContextInv' /\ RepliesNeverGoBack'
  BY <1>2, ContextFrame, RepliesFrame DEF OrderInv
<1>. QED BY <1>1, <1>2, <1>3 DEF OrderInv

\* The same for a step that changes no coroutine and no cursor.
LEMMA StillFrame ==
  ASSUME OrderInv, UNCHANGED <<stored, router, todo, pc, next>>
  PROVE  OrderInv'
<1>1. /\ UNCHANGED <<waiting, gvoiceContextMap, emailContextMap, replies, listed>>
      /\ Handed' = Handed
  BY DEF router, context, Handed
<1>2. ContextInv' /\ RepliesNeverGoBack'
  BY <1>1, ContextFrame, RepliesFrame DEF OrderInv
<1>. QED BY <1>1, <1>2 DEF OrderInv

\* A mail taken from a list becomes its sender's context, or nobody's.
LEMMA RememberStep ==
  ASSUME TypeOK, ContextInv, NEW i \in 1..arrived, Remember(i),
         waiting' = waiting \cup {i}, listed \subseteq listed',
         i \in listed' \/ \A j \in Handed : j < i
  PROVE  ContextInv'
<1>0. /\ i \in Mails /\ i \in 0..arrived /\ NoMail \in 0..arrived /\ i \in Int
      /\ waiting \subseteq Mails
      /\ gvoiceContextMap \in [Keys -> 0..arrived]
      /\ emailContextMap \in [Senders -> 0..arrived]
      /\ \A j \in Mails : j \in Int
  BY EmailAssumption DEF TypeOK, Mails, NoMail
<1>1. /\ Handed' \subseteq Handed \cup {i}
      /\ \A j \in Handed' : j = i \/ j \in Handed
      /\ \A j \in Handed' : NotOlder(i, j, listed')
      /\ \A m, j : NotOlder(m, j, listed) => NotOlder(m, j, listed')
      /\ \A j \in Handed' : j \in Mails
  BY <1>0 DEF Handed, NotOlder
<1>2. \A j : NotOlder(NoMail, j, listed')
  BY DEF NotOlder
<1>3. CASE /\ Mail[i].channel = "GVOICE"
           /\ gvoiceContextMap' \in Put(gvoiceContextMap, Digits[Mail[i].from], i)
           /\ UNCHANGED emailContextMap
  <2>. DEFINE key == Digits[Mail[i].from]
  <2>1. /\ key \in Keys /\ gvoiceContextMap'[key] \in {i, NoMail}
        /\ \A k \in Keys : k # key =>
             gvoiceContextMap'[k] \in {gvoiceContextMap[k], NoMail}
    <3>1. key \in Keys BY <1>0, HasPlace
    <3>2. \A after \in Put(gvoiceContextMap, key, i) :
            /\ after[key] \in {i, NoMail}
            /\ \A k \in Keys : k # key => after[k] \in {gvoiceContextMap[k], NoMail}
      <4>. HIDE DEF key
      <4>1. /\ NoMail \in 0..arrived /\ gvoiceContextMap \in [Keys -> 0..arrived]
            /\ key \in Keys /\ i \in 0..arrived
        BY <1>0, <3>1
      <4>. QED BY ONLY <4>1, PutResult
    <3>. QED BY <1>3, <3>1, <3>2
  <2>2. \A j \in Handed' : Mail[j].channel = "GVOICE" =>
          NotOlder(gvoiceContextMap'[Digits[Mail[j].from]], j, listed')
    <3>. SUFFICES ASSUME NEW j \in Handed', Mail[j].channel = "GVOICE"
                  PROVE  NotOlder(gvoiceContextMap'[Digits[Mail[j].from]], j, listed')
      OBVIOUS
    <3>0. Digits[Mail[j].from] \in Keys
      BY <1>1, HasPlace
    <3>1. CASE Digits[Mail[j].from] = key
      BY <1>1, <1>2, <2>1, <3>1
    <3>2. CASE Digits[Mail[j].from] # key
      <4>1. j \in Handed BY <1>1, <3>2
      <4>2. NotOlder(gvoiceContextMap[Digits[Mail[j].from]], j, listed)
        BY <4>1 DEF ContextInv
      <4>3. gvoiceContextMap'[Digits[Mail[j].from]]
              \in {gvoiceContextMap[Digits[Mail[j].from]], NoMail}
        BY <2>1, <3>0, <3>2
      <4>. QED BY <1>1, <1>2, <4>2, <4>3
    <3>. QED BY <3>1, <3>2
  <2>3. \A j \in Handed' : Mail[j].channel = "EMAIL" =>
          NotOlder(emailContextMap'[Mail[j].from], j, listed')
    BY <1>1, <1>3 DEF ContextInv
  <2>4. \A k \in Keys : gvoiceContextMap'[k] # NoMail =>
          /\ gvoiceContextMap'[k] \in Mails
          /\ Mail[gvoiceContextMap'[k]].channel = "GVOICE"
          /\ Digits[Mail[gvoiceContextMap'[k]].from] = k
    <3>. SUFFICES ASSUME NEW k \in Keys, gvoiceContextMap'[k] # NoMail
                  PROVE  /\ gvoiceContextMap'[k] \in Mails
                         /\ Mail[gvoiceContextMap'[k]].channel = "GVOICE"
                         /\ Digits[Mail[gvoiceContextMap'[k]].from] = k
      OBVIOUS
    <3>1. CASE k = key
      BY <1>0, <1>3, <2>1, <3>1
    <3>2. CASE k # key
      <4>1. gvoiceContextMap'[k] = gvoiceContextMap[k]
        BY <2>1, <3>2
      <4>. QED BY <4>1 DEF ContextInv
    <3>. QED BY <3>1, <3>2
  <2>. QED BY <1>3, <2>2, <2>3, <2>4 DEF ContextInv
<1>4. CASE /\ Mail[i].channel = "EMAIL"
           /\ emailContextMap' \in Put(emailContextMap, Mail[i].from, i)
           /\ UNCHANGED gvoiceContextMap
  <2>. DEFINE key == Mail[i].from
  <2>1. /\ key \in Senders /\ emailContextMap'[key] \in {i, NoMail}
        /\ \A k \in Senders : k # key =>
             emailContextMap'[k] \in {emailContextMap[k], NoMail}
    <3>1. key \in Senders BY <1>0, HasPlace
    <3>2. emailContextMap \in [Senders -> 0..arrived] BY DEF TypeOK
    <3>3. \A after \in Put(emailContextMap, key, i) :
            /\ after[key] \in {i, NoMail}
            /\ \A k \in Senders : k # key => after[k] \in {emailContextMap[k], NoMail}
      <4>. HIDE DEF key
      <4>1. /\ NoMail \in 0..arrived /\ emailContextMap \in [Senders -> 0..arrived]
            /\ key \in Senders /\ i \in 0..arrived
        BY <1>0, <3>1, <3>2
      <4>. QED BY ONLY <4>1, PutResult
    <3>. QED BY <1>4, <3>1, <3>3
  <2>2. \A j \in Handed' : Mail[j].channel = "EMAIL" =>
          NotOlder(emailContextMap'[Mail[j].from], j, listed')
    <3>. SUFFICES ASSUME NEW j \in Handed', Mail[j].channel = "EMAIL"
                  PROVE  NotOlder(emailContextMap'[Mail[j].from], j, listed')
      OBVIOUS
    <3>0. Mail[j].from \in Senders
      BY <1>1, HasPlace
    <3>1. CASE Mail[j].from = key
      BY <1>1, <1>2, <2>1, <3>1
    <3>2. CASE Mail[j].from # key
      <4>1. j \in Handed BY <1>1, <3>2
      <4>2. NotOlder(emailContextMap[Mail[j].from], j, listed)
        BY <4>1 DEF ContextInv
      <4>3. emailContextMap'[Mail[j].from] \in {emailContextMap[Mail[j].from], NoMail}
        BY <2>1, <3>0, <3>2
      <4>. QED BY <1>1, <1>2, <4>2, <4>3
    <3>. QED BY <3>1, <3>2
  <2>3. \A j \in Handed' : Mail[j].channel = "GVOICE" =>
          NotOlder(gvoiceContextMap'[Digits[Mail[j].from]], j, listed')
    BY <1>1, <1>4 DEF ContextInv
  <2>4. \A k \in Senders : emailContextMap'[k] # NoMail =>
          /\ emailContextMap'[k] \in Mails
          /\ Mail[emailContextMap'[k]].channel = "EMAIL"
          /\ Mail[emailContextMap'[k]].from = k
    <3>. SUFFICES ASSUME NEW k \in Senders, emailContextMap'[k] # NoMail
                  PROVE  /\ emailContextMap'[k] \in Mails
                         /\ Mail[emailContextMap'[k]].channel = "EMAIL"
                         /\ Mail[emailContextMap'[k]].from = k
      OBVIOUS
    <3>1. CASE k = key
      BY <1>0, <1>4, <2>1, <3>1
    <3>2. CASE k # key
      <4>1. emailContextMap'[k] = emailContextMap[k]
        BY <2>1, <3>2
      <4>. QED BY <4>1 DEF ContextInv
    <3>. QED BY <3>1, <3>2
  <2>. QED BY <1>4, <2>2, <2>3, <2>4 DEF ContextInv
<1>. QED BY <1>3, <1>4 DEF Remember

\* A reply to a mail of the history path whose sender only one map can know.
LEMMA ReplyStep ==
  ASSUME TypeOK, ContextInv, NEW i \in Handed, ~InBothMaps(Mail[i].from)
  PROVE  NotOlder(ReplyTo(Mail[i].from), i, listed)
<1>0. i \in Mails /\ Mail[i].channel \in {"EMAIL", "GVOICE"}
  BY EmailAssumption DEF TypeOK, Handed
<1>. DEFINE from == Mail[i].from
            voice == gvoiceContextMap[Digits[from]]
            email == emailContextMap[from]
<1>1. from \in Senders /\ Digits[from] \in Keys
  BY <1>0, HasPlace
<1>2. CASE Digits[from] # NoDigits /\ voice # NoMail
  <2>1. voice \in Mails /\ Mail[voice].channel = "GVOICE"
        /\ Digits[Mail[voice].from] = Digits[from]
    BY <1>1, <1>2 DEF ContextInv
  <2>2. Mail[i].channel = "GVOICE"
    BY <1>0, <1>2, <2>1 DEF InBothMaps
  <2>. QED BY <1>2, <2>2 DEF ContextInv, ReplyTo
<1>3. CASE ~(Digits[from] # NoDigits /\ voice # NoMail)
  <2>1. ReplyTo(from) = email
    BY <1>3 DEF ReplyTo
  <2>2. CASE Mail[i].channel = "EMAIL"
    BY <2>1, <2>2 DEF ContextInv
  <2>3. CASE Mail[i].channel = "GVOICE"
    <3>1. email # NoMail => email \in Mails /\ Mail[email].channel = "EMAIL"
                            /\ Mail[email].from = from
      BY <1>1 DEF ContextInv
    <3>2. email = NoMail
      BY <1>0, <2>3, <3>1 DEF InBothMaps
    <3>. QED BY <2>1, <3>2 DEF NotOlder
  <2>. QED BY <1>0, <2>2, <2>3
<1>. QED BY <1>2, <1>3

\* The history path works through its page oldest first, and saves the cursor
\* before the next fetch can begin.
LEMMA OrderInvStep ==
  TypeOK /\ CursorInv /\ SoleFetch /\ OrderInv /\ [Next]_vars => OrderInv'
<1>. SUFFICES ASSUME TypeOK, CursorInv, SoleFetch, OrderInv, [Next]_vars PROVE OrderInv'
  OBVIOUS
<1>. USE DEF Threads
<1>0. /\ arrived \in Nat /\ arrived <= MaxMail /\ MaxMail \in Nat
      /\ NoId \in Int /\ arrived # NoId /\ stored \in Int
      /\ pc \in [Threads -> Phases] /\ next \in [Threads -> Int]
      /\ todo \in [Threads -> Seq(1..arrived)]
      /\ waiting \subseteq Mails /\ waiting \subseteq Int
      /\ Handed \subseteq waiting /\ Handed \subseteq Int
  <2>1. /\ arrived \in Nat /\ arrived <= MaxMail /\ MaxMail \in Nat
        /\ NoId \in Int /\ arrived # NoId /\ stored \in Int
        /\ next \in [Threads -> Int]
    BY CursorTypes, EmailAssumption DEF TypeOK
  <2>2. /\ pc \in [Threads -> Phases]
        /\ todo \in [Threads -> Seq(1..arrived)]
        /\ waiting \subseteq Mails
    BY DEF TypeOK
  <2>3. waiting \subseteq Int
    BY <2>1, <2>2 DEF Mails
  <2>. QED BY <2>1, <2>2, <2>3 DEF Handed
<1>n. \A f \in Threads : next[f] <= arrived
  BY CursorTypes
<1>m. (\A j \in Handed : j <= NoId) => Handed = {}
  BY <1>0 DEF Handed, Mails, NoId
<1>1. CASE Arrive
  BY <1>1, StillFrame DEF Arrive
<1>2. CASE ReadElsewhere
  BY <1>2, StillFrame DEF ReadElsewhere
<1>3. CASE Purge
  BY <1>3, StillFrame DEF Purge
<1>4. CASE DropTrigger
  BY <1>4, StillFrame DEF DropTrigger
<1>5. CASE Crash
  <2>1. /\ UNCHANGED <<stored, replies, listed>> /\ waiting' = {} /\ Handed' = {}
        /\ \A f \in Fetchers : pc'[f] = "idle"
        /\ \A k \in Keys : gvoiceContextMap'[k] = NoMail
        /\ \A s \in Senders : emailContextMap'[s] = NoMail
    BY <1>5, EmailAssumption DEF Crash, Handed
  <2>2. ContextInv' /\ RepliesNeverGoBack'
    BY <2>1, RepliesFrame DEF ContextInv, OrderInv
  <2>. QED BY <2>1, <2>2 DEF OrderInv, Busy
<1>6. ASSUME NEW f \in Fetchers, Trigger(f) PROVE OrderInv'
  <2>1. UNCHANGED <<stored, router, todo>>
    BY <1>6 DEF Trigger
  <2>2. \A g \in Fetchers : /\ pc'[g] \in Busy <=> pc[g] \in Busy
                            /\ pc'[g] \in Busy => /\ pc'[g] = pc[g]
                                                  /\ next'[g] = next[g]
                            /\ pc'[g] = "list" => pc[g] = "list" \/ Handed = {}
                            /\ pc'[g] = "history" => next'[g] = stored
    BY <1>0, <1>6, EmailAssumption DEF Trigger, Move, Busy, OrderInv
  <2>. QED BY <2>1, <2>2, OrderFrame
<1>7. ASSUME NEW f \in Fetchers, Load(f) PROVE OrderInv'
  <2>0. stored = NoId => Handed = {}
    <3>1. \A g \in Fetchers : g # f => pc[g] = "idle"
      BY <1>7 DEF Load, Move, SoleFetch
    <3>2. \A j \in Handed : j <= stored
      BY <1>7, <3>1 DEF Load, Move, OrderInv, Busy
    <3>. QED BY <1>m, <3>2
  <2>1. UNCHANGED <<stored, router, todo>>
    BY <1>7 DEF Load
  <2>2. \A g \in Fetchers : /\ pc'[g] \in Busy <=> pc[g] \in Busy
                            /\ pc'[g] \in Busy => /\ pc'[g] = pc[g]
                                                  /\ next'[g] = next[g]
                            /\ pc'[g] = "list" => pc[g] = "list" \/ Handed = {}
                            /\ pc'[g] = "history" => next'[g] = stored
    BY <1>0, <1>7, <2>0, EmailAssumption DEF Load, Move, Busy, OrderInv
  <2>. QED BY <2>1, <2>2, OrderFrame
<1>8. ASSUME NEW f \in Fetchers, FetchHistory(f) PROVE OrderInv'
  <2>1. PICK mails \in OldestFirst(Page(next[f]) \cap unread) :
          todo' = [todo EXCEPT ![f] = mails]
    BY <1>8 DEF FetchHistory
  <2>2. /\ pc[f] = "history" /\ pc' = [pc EXCEPT ![f] = "items"]
        /\ next' = [next EXCEPT ![f] = arrived]
        /\ UNCHANGED <<stored, waiting, gvoiceContextMap, emailContextMap, replies,
                      listed>>
    BY <1>8 DEF FetchHistory, Move, router, context
  <2>3. \A g \in Fetchers : g # f => pc[g] = "idle" /\ pc'[g] = "idle"
    BY <1>0, <2>2 DEF SoleFetch
  <2>4. \A j \in Handed : j <= next[f]
    BY <2>2, <2>3 DEF OrderInv, Busy
  <2>5. /\ \A k \in DOMAIN mails : mails[k] \in Page(next[f])
        /\ \A j, k \in DOMAIN mails : j < k => mails[j] < mails[k]
    BY DEF OldestFirst, Listings
  <2>6. \A k \in DOMAIN mails : next[f] < mails[k] /\ mails[k] <= arrived
                                /\ mails[k] \in Int
    BY <1>0, <2>5 DEF Page
  <2>7. pc'[f] = "items" /\ next'[f] = arrived /\ todo'[f] = mails
    BY <1>0, <2>1, <2>2
  <2>8. \A j \in Handed, k \in DOMAIN mails : j < mails[k]
    BY <1>0, <2>4, <2>6
  <2>9. \A j \in Handed : j <= arrived
    BY <1>0, <1>n, <2>4
  <2>10. ContextInv' /\ RepliesNeverGoBack' /\ Handed' = Handed
    BY <2>2, ContextFrame, RepliesFrame DEF OrderInv, Handed
  <2>. QED
    BY <1>0, <2>2, <2>3, <2>5, <2>6, <2>7, <2>8, <2>9, <2>10 DEF OrderInv, Busy
<1>9. ASSUME NEW f \in Fetchers, FetchFails(f) PROVE OrderInv'
  <2>1. UNCHANGED <<stored, router, todo>>
    BY <1>9 DEF FetchFails
  <2>2. \A g \in Fetchers : /\ pc'[g] \in Busy <=> pc[g] \in Busy
                            /\ pc'[g] \in Busy => /\ pc'[g] = pc[g]
                                                  /\ next'[g] = next[g]
                            /\ pc'[g] = "list" => pc[g] = "list" \/ Handed = {}
                            /\ pc'[g] = "history" => next'[g] = stored
    BY <1>0, <1>9, EmailAssumption DEF FetchFails, Move, Busy, OrderInv
  <2>. QED BY <2>1, <2>2, OrderFrame
<1>10. ASSUME NEW f \in Fetchers, ListUnread(f) PROVE OrderInv'
  <2>1. /\ pc[f] = "list" /\ pc' = [pc EXCEPT ![f] = "items"]
        /\ next' = [next EXCEPT ![f] = NoId]
        /\ UNCHANGED <<stored, waiting, gvoiceContextMap, emailContextMap, replies,
                      listed>>
    BY <1>10 DEF ListUnread, Move, router, context
  <2>2. ContextInv' /\ RepliesNeverGoBack' /\ Handed' = {}
    BY <2>1, ContextFrame, RepliesFrame DEF OrderInv, Handed
  <2>3. \A g \in Fetchers : g # f => pc'[g] = "idle"
    BY <1>0, <2>1 DEF SoleFetch
  <2>4. pc'[f] = "items" /\ next'[f] = NoId
    BY <1>0, <2>1
  <2>. QED BY <2>2, <2>3, <2>4 DEF OrderInv
<1>11. ASSUME NEW f \in Fetchers, Item(f) PROVE OrderInv'
  <2>0. /\ pc[f] = "items" /\ todo[f] # <<>> /\ todo[f] \in Seq(1..arrived)
        /\ UNCHANGED <<stored, next>>
    BY <1>0, <1>11 DEF Item
  <2>t. /\ Len(todo[f]) \in Nat \ {0} /\ Head(todo[f]) = todo[f][1]
        /\ Tail(todo[f]) \in Seq(1..arrived)
        /\ Len(Tail(todo[f])) = Len(todo[f]) - 1
        /\ \A k \in 1..Len(Tail(todo[f])) : Tail(todo[f])[k] = todo[f][k + 1]
        /\ DOMAIN todo[f] = 1..Len(todo[f])
        /\ DOMAIN Tail(todo[f]) = 1..Len(Tail(todo[f]))
        /\ \A k \in DOMAIN todo[f] : todo[f][k] \in 1..arrived
    BY <1>0, <2>0, HeadAndTail
  <2>1. \A g \in Fetchers : g # f => pc[g] = "idle"
    BY <2>0 DEF SoleFetch
  <2>f. UNCHANGED router =>
          /\ UNCHANGED <<waiting, listed>> /\ Handed' = Handed
          /\ ContextInv' /\ RepliesNeverGoBack'
    BY ContextFrame, RepliesFrame DEF router, context, OrderInv, Handed
  <2>2. ASSUME todo' = [todo EXCEPT ![f] = Tail(todo[f])], pc' = pc,
               UNCHANGED router
        PROVE  OrderInv'
    <3>1. todo'[f] = Tail(todo[f])
      BY <1>0, <2>2
    <3>2. \A k \in DOMAIN todo'[f] :
            /\ k + 1 \in DOMAIN todo[f] /\ k + 1 # 1 /\ k \in Int
            /\ todo'[f][k] = todo[f][k + 1]
      BY <2>t, <3>1
    <3>3. next[f] # NoId =>
            /\ \A j, k \in DOMAIN todo'[f] : j < k => todo'[f][j] < todo'[f][k]
            /\ \A j \in Handed, k \in DOMAIN todo'[f] : j < todo'[f][k]
            /\ \A k \in DOMAIN todo'[f] : todo'[f][k] <= next[f]
      BY <2>0, <3>2 DEF OrderInv
    <3>. QED BY <2>0, <2>1, <2>f, <2>2, <3>3 DEF OrderInv, Busy
  <2>3. ASSUME pc' = [pc EXCEPT ![f] = "mark"], todo' = todo, UNCHANGED router
        PROVE  OrderInv'
    <3>1. pc'[f] = "mark" /\ \A g \in Fetchers : g # f => pc'[g] = "idle"
      BY <1>0, <2>1, <2>3
    <3>. QED BY <2>0, <2>1, <2>f, <2>3, <3>1 DEF OrderInv, Busy
  <2>4. ASSUME pc' = [pc EXCEPT ![f] = "mark"], todo' = todo,
               waiting' = waiting \cup {Head(todo[f])}, Remember(Head(todo[f])),
               listed' = IF next[f] = NoId THEN listed \cup {Head(todo[f])} ELSE listed,
               replies' = replies
        PROVE  OrderInv'
    <3>. DEFINE head == todo[f][1]
    <3>1. pc'[f] = "mark" /\ \A g \in Fetchers : g # f => pc'[g] = "idle"
      BY <1>0, <2>1, <2>4
    <3>2. /\ 1 \in DOMAIN todo[f] /\ head \in 1..arrived /\ head \in Mails
          /\ waiting' = waiting \cup {head} /\ Remember(head)
          /\ listed' = IF next[f] = NoId THEN listed \cup {head} ELSE listed
      BY <1>0, <2>t, <2>4 DEF Mails
    <3>3. next[f] # NoId => \A j \in Handed : j < head
      BY <2>0, <3>2 DEF OrderInv
    <3>4. next[f] # NoId => head <= next[f]
      BY <2>0, <3>2 DEF OrderInv
    <3>5. next[f] # NoId => \A k \in DOMAIN todo[f] : k # 1 => head < todo[f][k]
      <4>1. \A k \in DOMAIN todo[f] : k # 1 => 1 < k
        BY <2>t
      <4>. QED BY <2>0, <3>2, <4>1 DEF OrderInv
    <3>6. ContextInv'
      BY <3>2, <3>3, RememberStep DEF OrderInv
    <3>7. RepliesNeverGoBack'
      BY <2>4, <3>2, RepliesFrame DEF OrderInv
    <3>8. /\ Handed' \subseteq Handed \cup {head}
          /\ next[f] = NoId => Handed' \subseteq Handed
      BY <3>2 DEF Handed
    <3>9. \A j \in Handed' : j <= next[f]
      BY <2>0, <3>2, <3>4, <3>8 DEF OrderInv, Busy
    <3>10. next[f] # NoId => \A j \in Handed', k \in DOMAIN todo[f] :
             j < todo[f][k] \/ (k = 1 /\ j = todo[f][k])
      <4>. SUFFICES ASSUME next[f] # NoId, NEW j \in Handed', NEW k \in DOMAIN todo[f]
                    PROVE  j < todo[f][k] \/ (k = 1 /\ j = todo[f][k])
        OBVIOUS
      <4>1. CASE j = head
        BY <3>5, <4>1
      <4>2. CASE j \in Handed
        BY <2>0, <4>2 DEF OrderInv
      <4>. QED BY <3>8, <4>1, <4>2
    <3>11. next[f] # NoId =>
             /\ \A j, k \in DOMAIN todo[f] : j < k => todo[f][j] < todo[f][k]
             /\ \A k \in DOMAIN todo[f] : todo[f][k] <= next[f]
      BY <2>0 DEF OrderInv
    <3>. QED
      BY <2>0, <2>4, <3>1, <3>6, <3>7, <3>9, <3>10, <3>11 DEF OrderInv, Busy
  <2>. QED
    <3>1. \/ /\ todo' = [todo EXCEPT ![f] = Tail(todo[f])] /\ pc' = pc
             /\ UNCHANGED router
          \/ /\ pc' = [pc EXCEPT ![f] = "mark"] /\ todo' = todo
             /\ UNCHANGED router
          \/ /\ pc' = [pc EXCEPT ![f] = "mark"] /\ todo' = todo
             /\ waiting' = waiting \cup {Head(todo[f])}
             /\ Remember(Head(todo[f])) /\ replies' = replies
             /\ listed' = IF next[f] = NoId THEN listed \cup {Head(todo[f])}
                          ELSE listed
      BY <1>11 DEF Item, Process
    <3>. QED BY <2>2, <2>3, <2>4, <3>1
<1>12. ASSUME NEW f \in Fetchers, MarkAsRead(f) PROVE OrderInv'
  <2>0. /\ pc[f] = "mark" /\ todo[f] # <<>> /\ todo[f] \in Seq(1..arrived)
        /\ pc' = [pc EXCEPT ![f] = "items"]
        /\ UNCHANGED <<stored, router, next>>
    BY <1>0, <1>12 DEF MarkAsRead, Move, TypeOK
  <2>t. /\ Len(todo[f]) \in Nat \ {0} /\ Head(todo[f]) = todo[f][1]
        /\ Tail(todo[f]) \in Seq(1..arrived)
        /\ Len(Tail(todo[f])) = Len(todo[f]) - 1
        /\ \A k \in 1..Len(Tail(todo[f])) : Tail(todo[f])[k] = todo[f][k + 1]
        /\ DOMAIN todo[f] = 1..Len(todo[f])
        /\ DOMAIN Tail(todo[f]) = 1..Len(Tail(todo[f]))
        /\ \A k \in DOMAIN todo[f] : todo[f][k] \in 1..arrived
    BY <1>0, <2>0, HeadAndTail
  <2>1. todo' = [todo EXCEPT ![f] = Tail(todo[f])]
    BY <1>12 DEF MarkAsRead
  <2>f. Handed' = Handed /\ ContextInv' /\ RepliesNeverGoBack'
    BY <2>0, ContextFrame, RepliesFrame DEF router, context, OrderInv, Handed
  <2>2. /\ todo'[f] = Tail(todo[f]) /\ pc'[f] = "items"
        /\ \A g \in Fetchers : g # f => pc'[g] = "idle"
    BY <1>0, <2>0, <2>1 DEF SoleFetch
  <2>3. \A k \in DOMAIN todo'[f] :
          /\ k + 1 \in DOMAIN todo[f] /\ k + 1 # 1 /\ k \in Int
          /\ todo'[f][k] = todo[f][k + 1]
    BY <2>t, <2>2
  <2>4. next[f] # NoId =>
          /\ \A j, k \in DOMAIN todo'[f] : j < k => todo'[f][j] < todo'[f][k]
          /\ \A j \in Handed, k \in DOMAIN todo'[f] : j < todo'[f][k]
          /\ \A k \in DOMAIN todo'[f] : todo'[f][k] <= next[f]
    BY <2>0, <2>3 DEF OrderInv
  <2>. QED BY <2>0, <2>2, <2>4, <2>f DEF OrderInv, Busy
<1>13. ASSUME NEW f \in Fetchers, ItemsDone(f) PROVE OrderInv'
  <2>1. /\ pc[f] = "items" /\ UNCHANGED <<stored, router, todo, next>>
        /\ pc' = [pc EXCEPT ![f] = IF next[f] = NoId THEN "finish" ELSE "save"]
    BY <1>13 DEF ItemsDone, Move
  <2>2. \A g \in Fetchers : g # f => pc'[g] = "idle"
    BY <1>0, <2>1 DEF SoleFetch
  <2>3. pc'[f] = IF next[f] = NoId THEN "finish" ELSE "save"
    BY <1>0, <2>1
  <2>4. Handed' = Handed /\ ContextInv' /\ RepliesNeverGoBack'
    BY <2>1, ContextFrame, RepliesFrame DEF router, context, OrderInv, Handed
  <2>5. /\ \A j \in Handed : j <= next[f]
        /\ next[f] = NoId => Handed = {}
    BY <1>m, <2>1 DEF OrderInv, Busy
  <2>. QED BY <2>1, <2>2, <2>3, <2>4, <2>5 DEF OrderInv, Busy
<1>14. ASSUME NEW f \in Fetchers, SaveHistory(f) PROVE OrderInv'
  <2>1. /\ pc[f] = "save" /\ pc' = [pc EXCEPT ![f] = "finish"]
        /\ UNCHANGED <<router, todo, next>>
    BY <1>14 DEF SaveHistory, Move
  <2>2. next[f] # NoId /\ stored' = next[f]
    BY <1>14, <2>1 DEF SaveHistory, Save, CursorInv
  <2>3. \A g \in Fetchers : g # f => pc'[g] = "idle"
    BY <1>0, <2>1 DEF SoleFetch
  <2>4. pc'[f] = "finish"
    BY <1>0, <2>1
  <2>5. \A j \in Handed : j <= next[f]
    BY <2>1 DEF OrderInv, Busy
  <2>6. Handed' = Handed /\ ContextInv' /\ RepliesNeverGoBack'
    BY <2>1, ContextFrame, RepliesFrame DEF router, context, OrderInv, Handed
  <2>. QED BY <2>2, <2>3, <2>4, <2>5, <2>6 DEF OrderInv, Busy
<1>15. ASSUME NEW f \in Fetchers, Finish(f) PROVE OrderInv'
  <2>1. UNCHANGED <<stored, router, todo>>
    BY <1>15 DEF Finish
  <2>2. \A g \in Fetchers : /\ pc'[g] \in Busy <=> pc[g] \in Busy
                            /\ pc'[g] \in Busy => /\ pc'[g] = pc[g]
                                                  /\ next'[g] = next[g]
                            /\ pc'[g] = "list" => pc[g] = "list" \/ Handed = {}
                            /\ pc'[g] = "history" => next'[g] = stored
    BY <1>0, <1>15, EmailAssumption DEF Finish, Move, Busy, OrderInv
  <2>. QED BY <2>1, <2>2, OrderFrame
<1>16. ASSUME NEW f \in Threads, Prime(f) PROVE OrderInv'
  <2>1. UNCHANGED <<stored, router, todo>>
    BY <1>16 DEF Prime
  <2>2. \A g \in Fetchers : /\ pc'[g] \in Busy <=> pc[g] \in Busy
                            /\ pc'[g] \in Busy => /\ pc'[g] = pc[g]
                                                  /\ next'[g] = next[g]
                            /\ pc'[g] = "list" => pc[g] = "list" \/ Handed = {}
                            /\ pc'[g] = "history" => next'[g] = stored
    BY <1>0, <1>16, EmailAssumption DEF Prime, Move, Busy, OrderInv, AfterPrime, CursorInv
  <2>. QED BY <2>1, <2>2, OrderFrame
<1>17. ASSUME NEW f \in Threads, AskProfile(f) PROVE OrderInv'
  <2>1. UNCHANGED <<stored, router, todo>>
    BY <1>17 DEF AskProfile
  <2>2. \A g \in Fetchers : /\ pc'[g] \in Busy <=> pc[g] \in Busy
                            /\ pc'[g] \in Busy => /\ pc'[g] = pc[g]
                                                  /\ next'[g] = next[g]
                            /\ pc'[g] = "list" => pc[g] = "list" \/ Handed = {}
                            /\ pc'[g] = "history" => next'[g] = stored
    BY <1>0, <1>17, EmailAssumption DEF AskProfile, Move, Busy, OrderInv, AfterPrime, CursorInv
  <2>. QED BY <2>1, <2>2, OrderFrame
<1>18. ASSUME NEW f \in Threads, SetPrimed(f) PROVE OrderInv'
  <2>1. /\ pc[f] = "set" /\ f = Service /\ stored = NoId
        /\ pc' = [pc EXCEPT ![f] = AfterPrime(f)]
        /\ UNCHANGED <<router, todo, next>>
    BY <1>18 DEF SetPrimed, Move, CursorInv
  <2>2. \A g \in Fetchers : pc'[g] = pc[g] /\ pc[g] # "history"
    BY <1>0, <2>1, EmailAssumption DEF CursorInv
  <2>3. Handed' = Handed /\ ContextInv' /\ RepliesNeverGoBack'
    BY <2>1, ContextFrame, RepliesFrame DEF router, context, OrderInv, Handed
  <2>4. (\A g \in Fetchers : pc[g] \notin Busy) => Handed = {}
    BY <1>m, <2>1 DEF OrderInv
  <2>. QED BY <2>1, <2>2, <2>3, <2>4 DEF OrderInv
<1>19. ASSUME NEW f \in Fetchers, ThrowError(f) PROVE OrderInv'
  <2>1. UNCHANGED <<stored, router, todo>>
    BY <1>19 DEF ThrowError
  <2>2. \A g \in Fetchers : /\ pc'[g] \in Busy <=> pc[g] \in Busy
                            /\ pc'[g] \in Busy => /\ pc'[g] = pc[g]
                                                  /\ next'[g] = next[g]
                            /\ pc'[g] = "list" => pc[g] = "list" \/ Handed = {}
                            /\ pc'[g] = "history" => next'[g] = stored
    BY <1>0, <1>19, EmailAssumption DEF ThrowError, Move, Busy, OrderInv
  <2>. QED BY <2>1, <2>2, OrderFrame
<1>20. ASSUME NEW f \in Fetchers, Unwind(f) PROVE OrderInv'
  <2>1. UNCHANGED <<stored, router, todo>>
    BY <1>20 DEF Unwind
  <2>2. \A g \in Fetchers : /\ pc'[g] \in Busy <=> pc[g] \in Busy
                            /\ pc'[g] \in Busy => /\ pc'[g] = pc[g]
                                                  /\ next'[g] = next[g]
                            /\ pc'[g] = "list" => pc[g] = "list" \/ Handed = {}
                            /\ pc'[g] = "history" => next'[g] = stored
    BY <1>0, <1>20, EmailAssumption DEF Unwind, Move, Busy, OrderInv
  <2>. QED BY <2>1, <2>2, OrderFrame
<1>21. ASSUME NEW f \in Fetchers, HandleError(f) PROVE OrderInv'
  <2>1. UNCHANGED <<stored, router, todo>>
    BY <1>21 DEF HandleError
  <2>2. \A g \in Fetchers : /\ pc'[g] \in Busy <=> pc[g] \in Busy
                            /\ pc'[g] \in Busy => /\ pc'[g] = pc[g]
                                                  /\ next'[g] = next[g]
                            /\ pc'[g] = "list" => pc[g] = "list" \/ Handed = {}
                            /\ pc'[g] = "history" => next'[g] = stored
    BY <1>0, <1>21, EmailAssumption DEF HandleError, Move, Busy, OrderInv
  <2>. QED BY <2>1, <2>2, OrderFrame
<1>22. ASSUME NEW i \in Mails, RouteReply(i) PROVE OrderInv'
  <2>1. /\ i \in waiting /\ waiting' \subseteq waiting
        /\ replies' = replies \cup {<<i, ReplyTo(Mail[i].from)>>}
        /\ UNCHANGED <<stored, gvoiceContextMap, emailContextMap, listed, todo, next,
                      pc>>
    BY <1>22 DEF RouteReply, context
  <2>2. \/ ReplyTo(Mail[i].from) = NoMail \/ ReplyTo(Mail[i].from) >= i
        \/ InBothMaps(Mail[i].from)
        \/ {i, ReplyTo(Mail[i].from)} \cap listed # {}
    <3>1. CASE i \in listed
      BY <3>1
    <3>2. CASE i \notin listed
      BY <2>1, <3>2, ReplyStep DEF OrderInv, Handed, NotOlder
    <3>. QED BY <3>1, <3>2
  <2>3. RepliesNeverGoBack'
    BY <2>1, <2>2 DEF OrderInv, RepliesNeverGoBack, InBothMaps
  <2>4. ContextInv' /\ Handed' \subseteq Handed
    BY <2>1, ContextFrame DEF OrderInv
  <2>. QED BY <2>1, <2>3, <2>4 DEF OrderInv
<1>23. ASSUME NEW c \in Switches, Toggle(c) PROVE OrderInv'
  BY <1>23, StillFrame DEF Toggle
<1>24. CASE UNCHANGED vars
  BY <1>24, StillFrame DEF vars
<1>. QED
  BY <1>1, <1>2, <1>3, <1>4, <1>5, <1>6, <1>7, <1>8, <1>9, <1>10, <1>11,
     <1>12, <1>13, <1>14, <1>15, <1>16, <1>17, <1>18, <1>19, <1>20, <1>21,
     <1>22, <1>23, <1>24
     DEF Next, FetchStep, PrimeStep, ErrorStep, Threads

\* Header of EmailRouter, "routeReply() always uses the most recent context": a
\* reply never goes to a mail older than the one it answers, also when contexts
\* are dropped, calls fail and the process dies, but for a sender both maps may
\* know and for mails of the unread list.
THEOREM RepliesGoForward ==
  ASSUME "error" \notin Faults \/ \A f, g \in Fetchers : f = g
  PROVE  Spec => []RepliesNeverGoBack
<1>1. Init => OrderInv
  <2>. SUFFICES ASSUME Init PROVE OrderInv
    OBVIOUS
  <2>1. Handed = {} /\ ContextInv /\ RepliesNeverGoBack
    BY DEF Init, Handed, ContextInv, RepliesNeverGoBack
  <2>2. \A f \in Fetchers : pc[f] = "idle"
    BY EmailAssumption DEF Init, Threads
  <2>. QED BY <2>1, <2>2 DEF OrderInv, Busy
<1>2. OrderInv => RepliesNeverGoBack
  BY DEF OrderInv
<1>. QED
  BY <1>1, <1>2, SoleFetchAlways, CursorInvInit, CursorInvStep, OrderInvStep,
     TypeCorrect, PTL DEF Spec
=============================================================================
