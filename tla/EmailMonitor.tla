---------------------------- MODULE EmailMonitor ----------------------------
(***************************************************************************)
(* E-mail comes in through EmailMonitor: a notification of the Gmail app   *)
(* triggers a fetch, which asks GmailHistoryClient for what arrived since  *)
(* the stored historyId, or lists unread mail when there is none, hands    *)
(* each mail to the engine and marks it read.  EmailRouter remembers the   *)
(* mail to reply to in two maps, one keyed by the digits of the sender, the*)
(* other by the address.                                                   *)
(*                                                                         *)
(* Mails are numbered in the order of their arrival, and a historyId is    *)
(* the number of the last mail it covers.  Only the stored historyId and   *)
(* the mailbox survive the death of the process.  The account is signed in *)
(* throughout; the coroutine the service starts at its own start to prime  *)
(* the historyId is the thread Service.                                    *)
(***************************************************************************)
EXTENDS Integers, Sequences, FiniteSets, Functions

CONSTANTS
  MaxMail,       \* mails that arrive (bound)
  Mail,          \* sender and channel of each of them
  Digits,        \* the last ten digits in each sender's number or address
  NoDigits,      \* what Digits is when there are none
  Owner,         \* the account's own address
  Fetchers,      \* coroutines onGmailNotification may have launched (bound)
  Service,       \* the coroutine that primes the historyId
  PageSize,      \* maxResults of the history call
  ListSize,      \* maxResults of the unread list
  ContextCap,    \* senders each map keeps a context for
  StartIds,      \* the historyIds that may be stored at first
  Faults,        \* "network": Gmail calls may fail; "purge": Gmail may forget
                 \* old history; "crash": the process may be killed;
                 \* "error": a call may throw an Error, as when memory is out
  MaxCrashes     \* how often it is killed (bound)

NoId   == -1
Mails  == 1..MaxMail
NoMail == 0

ASSUME EmailAssumption ==
  /\ MaxMail \in Nat /\ PageSize \in Nat \ {0} /\ ListSize \in Nat \ {0}
  /\ ContextCap \in Nat \ {0} /\ MaxCrashes \in Nat
  /\ \A i \in Mails : Mail[i].channel \in {"EMAIL", "GVOICE"}
  /\ \A i \in Mails : Mail[i].from \in DOMAIN Digits
  /\ Service \notin Fetchers
  /\ StartIds \subseteq {NoId, 0}
  /\ Faults \subseteq {"network", "purge", "crash", "error"}

VARIABLES
  arrived,       \* Gmail: the mails 1..arrived are in the inbox
  unread,        \* Gmail: those with the UNREAD label
  purged,        \* Gmail: history up to here is gone
  triggers,      \* notifications of the Gmail app not yet delivered
  stored,        \* the historyId in SharedPreferences
  cached,        \* cachedHistoryId
  isProcessing,
  pc,            \* where each coroutine is
  todo,          \* the mails each fetch still has to process
  next,          \* the historyId each coroutine will save
  enabled,       \* ChannelManager
  gvoiceContextMap,  \* EmailRouter: the Voice mail to reply to, per digits
  emailContextMap,   \* the mail to reply to, per address
  waiting,       \* mails the engine has not answered yet
  count,         \* history: how often each mail was given to the engine
  replies,       \* history: mails answered, with the mail replied to
  listed,        \* history: mails given to the engine from the unread list
  base,          \* history: the historyId monitoring began with
  missed,        \* history: mails a fetch gave up, left out or came too early for
  crashes        \* history: how often the process was killed

mailbox == <<arrived, unread, purged, triggers>>
context == <<gvoiceContextMap, emailContextMap>>
router  == <<context, waiting, count, replies, listed>>
vars    == <<mailbox, stored, cached, isProcessing, pc, todo, next, enabled,
             router, base, missed, crashes>>

Threads == Fetchers \cup {Service}
Senders == {Mail[i].from : i \in Mails}
Switches == {Mail[i].channel : i \in Mails}
Keys     == {Digits[s] : s \in Senders}

Phases == {"idle", "load", "history", "list", "items", "mark", "save", "prime",
           "profile", "set", "finish", "unwind", "handler"}

TypeOK ==
  /\ arrived \in 0..MaxMail /\ unread \subseteq 1..arrived /\ purged \in 0..arrived
  /\ triggers \in 0..arrived
  /\ stored \in NoId..arrived /\ cached \in NoId..arrived
  /\ isProcessing \in BOOLEAN
  /\ pc \in [Threads -> Phases]
  /\ todo \in [Threads -> Seq(1..arrived)] /\ next \in [Threads -> NoId..arrived]
  /\ \A f \in Threads : pc[f] = "mark" => todo[f] # <<>>
  /\ enabled \in [Switches -> BOOLEAN]
  /\ gvoiceContextMap \in [Keys -> 0..arrived]
  /\ emailContextMap \in [Senders -> 0..arrived]
  /\ waiting \subseteq Mails
  /\ count \in [Mails -> Nat]
  /\ replies \subseteq Mails \X (Mails \cup {NoMail}) /\ listed \subseteq Mails
  /\ base \in NoId..arrived /\ missed \subseteq Mails /\ crashes \in 0..MaxCrashes

Init ==
  /\ arrived = 0 /\ unread = {} /\ purged = 0 /\ triggers = 0
  /\ stored \in StartIds /\ cached = NoId /\ base = stored
  /\ isProcessing = FALSE
  /\ pc = [f \in Threads |-> IF f = Service THEN "prime" ELSE "idle"]
  /\ todo = [f \in Threads |-> <<>>]
  /\ next = [f \in Threads |-> NoId]
  /\ enabled = [c \in Switches |-> TRUE]
  /\ gvoiceContextMap = [k \in Keys |-> NoMail]
  /\ emailContextMap = [s \in Senders |-> NoMail]
  /\ waiting = {} /\ replies = {} /\ listed = {} /\ missed = {}
  /\ count = [i \in Mails |-> 0]
  /\ crashes = 0

Move(f, from, to) == pc[f] = from /\ pc' = [pc EXCEPT ![f] = to]

-----------------------------------------------------------------------------
(* Gmail and its app *)

Arrive ==
  /\ arrived < MaxMail
  /\ arrived' = arrived + 1
  /\ unread' = unread \cup {arrived + 1}
  /\ triggers' = triggers + 1
  /\ UNCHANGED <<purged, stored, cached, isProcessing, pc, todo, next, enabled,
                 router, base, missed, crashes>>

\* Somebody reads a mail in another client.
ReadElsewhere ==
  /\ \E i \in unread : unread' = unread \ {i}
  /\ UNCHANGED <<arrived, purged, triggers, stored, cached, isProcessing, pc,
                 todo, next, enabled, router, base, missed, crashes>>

Purge ==
  /\ "purge" \in Faults /\ purged < arrived
  /\ purged' = arrived
  /\ UNCHANGED <<arrived, unread, triggers, stored, cached, isProcessing, pc,
                 todo, next, enabled, router, base, missed, crashes>>

-----------------------------------------------------------------------------
(* onGmailNotification *)

\* Mutant: compareAndSet is replaced by a plain set.
TriggerUnchecked(f) ==
  /\ triggers > 0
  /\ triggers' = triggers - 1
  /\ isProcessing' = TRUE
  /\ Move(f, "idle", "load")
  /\ UNCHANGED <<arrived, unread, purged, stored, cached, todo, next, enabled,
                 router, base, missed, crashes>>

\* compareAndSet won: launch a fetch.
Trigger(f) ==
  /\ triggers > 0 /\ ~isProcessing
  /\ triggers' = triggers - 1
  /\ isProcessing' = TRUE
  /\ Move(f, "idle", "load")
  /\ UNCHANGED <<arrived, unread, purged, stored, cached, todo, next, enabled,
                 router, base, missed, crashes>>

\* A fetch is alive that has not asked Gmail yet.
StillToAsk == \E f \in Fetchers : pc[f] \in {"load", "history", "list"}

\* compareAndSet lost: the notification is dropped.
DropTrigger ==
  /\ triggers > 0 /\ isProcessing
  /\ triggers' = triggers - 1
  /\ missed' = IF StillToAsk THEN missed ELSE missed \cup unread
  /\ UNCHANGED <<arrived, unread, purged, stored, cached, isProcessing, pc,
                 todo, next, enabled, router, base, crashes>>

\* Mutant: nothing is fetched when the cursor is the one already known.
LoadSkipsKnown(f) ==
  /\ Move(f, "load", CASE stored = NoId -> "list"
                       [] stored # NoId /\ stored = cached -> "finish"
                       [] OTHER -> "history")
  /\ cached' = stored
  /\ next' = [next EXCEPT ![f] = stored]
  /\ UNCHANGED <<mailbox, stored, isProcessing, todo, enabled, router, base,
                 missed, crashes>>

Load(f) ==
  /\ Move(f, "load", IF stored # NoId THEN "history" ELSE "list")
  /\ cached' = stored
  /\ next' = [next EXCEPT ![f] = stored]
  /\ UNCHANGED <<mailbox, stored, isProcessing, todo, enabled, router, base,
                 missed, crashes>>

\* Mutant: a fetch ends without the finally block.
FinishKeepsFlag(f) ==
  /\ Move(f, "finish", "idle")
  /\ UNCHANGED <<mailbox, stored, cached, isProcessing, todo, next, enabled,
                 router, base, missed, crashes>>

\* finally { isProcessing.set(false) }
Finish(f) ==
  /\ Move(f, "finish", "idle")
  /\ isProcessing' = FALSE
  /\ UNCHANGED <<mailbox, stored, cached, todo, next, enabled, router, base,
                 missed, crashes>>

\* An Error out of a Gmail call: the client catches Exception only.  (In the
\* service's coroutine, whose scope has no handler, it kills the process: that
\* is Crash.)
ThrowError(f) ==
  /\ "error" \in Faults
  /\ \E call \in {"history", "list"} : Move(f, call, "unwind")
  /\ missed' = missed \cup unread
  /\ UNCHANGED <<mailbox, stored, cached, isProcessing, todo, next, enabled,
                 router, base, crashes>>

\* The finally block on the way out.
Unwind(f) ==
  /\ Move(f, "unwind", "handler")
  /\ isProcessing' = FALSE
  /\ UNCHANGED <<mailbox, stored, cached, todo, next, enabled, router, base,
                 missed, crashes>>

\* Then the scope's CoroutineExceptionHandler, which clears the flag again.
HandleError(f) ==
  /\ Move(f, "handler", "idle")
  /\ isProcessing' = FALSE
  /\ UNCHANGED <<mailbox, stored, cached, todo, next, enabled, router, base,
                 missed, crashes>>

-----------------------------------------------------------------------------
(* processFromHistory and processUnread *)

\* The sequences that hold every mail of S once; in the order of their arrival,
\* and in the reverse of it, there is one.
Listings(S)    == {s \in [1..Cardinality(S) -> S] : Range(s) = S}
OldestFirst(S) == {s \in Listings(S) : \A j, k \in DOMAIN s : j < k => s[j] < s[k]}
NewestFirst(S) == {s \in Listings(S) : \A j, k \in DOMAIN s : j < k => s[j] > s[k]}

\* The first page of what Gmail has added since the cursor.
Page(start) == {i \in (start + 1)..arrived : i <= start + PageSize}

\* The newest ListSize unread mails, or all of them.
Newest == {i \in unread : Cardinality({j \in unread : j > i}) < ListSize}

\* Mutant: the cursor is advanced before the mails are processed.
FetchHistorySavesFirst(f) ==
  /\ next[f] >= purged
  /\ Move(f, "history", "items")
  /\ \E mails \in OldestFirst(Page(next[f]) \cap unread) :
       todo' = [todo EXCEPT ![f] = mails]
  /\ next' = [next EXCEPT ![f] = arrived]
  /\ stored' = arrived /\ cached' = arrived
  /\ missed' = missed \cup ((next[f] + 1)..arrived \ Page(next[f]))
  /\ UNCHANGED <<mailbox, isProcessing, enabled, router, base, crashes>>

\* One page of the unread mail added since the cursor, and the newest
\* historyId whatever the page left out.
FetchHistory(f) ==
  /\ next[f] >= purged
  /\ Move(f, "history", "items")
  /\ \E mails \in OldestFirst(Page(next[f]) \cap unread) :
       todo' = [todo EXCEPT ![f] = mails]
  /\ next' = [next EXCEPT ![f] = arrived]
  /\ missed' = missed \cup ((next[f] + 1)..arrived \ Page(next[f]))
  /\ UNCHANGED <<mailbox, stored, cached, isProcessing, enabled, router, base,
                 crashes>>

\* 404, another HTTP error, no token or no network: an empty list, no id.
FetchFails(f) ==
  /\ next[f] < purged \/ "network" \in Faults
  /\ Move(f, "history", "prime")
  /\ missed' = missed \cup unread
  /\ UNCHANGED <<mailbox, stored, cached, isProcessing, todo, next, enabled,
                 router, base, crashes>>

\* The newest unread mails, newest first.  No historyId is involved.
ListUnread(f) ==
  /\ Move(f, "list", "items")
  /\ \E mails \in NewestFirst(Newest) : todo' = [todo EXCEPT ![f] = mails]
  /\ next' = [next EXCEPT ![f] = NoId]
  /\ missed' = missed \cup (unread \ Newest)
  /\ UNCHANGED <<mailbox, stored, cached, isProcessing, enabled, router, base,
                 crashes>>

\* What a put of i at key makes of a map: over the key's older mail; a map
\* that is too full then loses the first key it iterates over.
Put(map, key, i) ==
  LET new  == [map EXCEPT ![key] = i]
      kept == {k \in DOMAIN map : new[k] # NoMail} IN
  IF Cardinality(kept) <= ContextCap THEN {new}
                                     ELSE {[new EXCEPT ![k] = NoMail] : k \in kept}

\* Mutant: a number keeps the context of its first text.
RememberFirst(i) ==
  /\ gvoiceContextMap' = [gvoiceContextMap EXCEPT
                            ![Digits[Mail[i].from]] = IF @ = NoMail THEN i ELSE @]
  /\ UNCHANGED emailContextMap

\* storeGVoiceContext and storeEmailContext.  A Voice mail without a number (a
\* group text may come from an address without digits) is stored at NoDigits.
Remember(i) ==
  \/ /\ Mail[i].channel = "GVOICE"
     /\ gvoiceContextMap' \in Put(gvoiceContextMap, Digits[Mail[i].from], i)
     /\ UNCHANGED emailContextMap
  \/ /\ Mail[i].channel = "EMAIL"
     /\ emailContextMap' \in Put(emailContextMap, Mail[i].from, i)
     /\ UNCHANGED gvoiceContextMap

\* processEmail: a mail of a switched-off channel, and a Voice mail that does
\* not parse, is passed over; any other goes to the engine.
Process(f, i) ==
  \/ /\ enabled[Mail[i].channel]
     /\ Remember(i)
     /\ waiting' = waiting \cup {i}
     /\ count' = [count EXCEPT ![i] = @ + 1]
     /\ listed' = IF next[f] = NoId THEN listed \cup {i} ELSE listed
     /\ UNCHANGED replies
  \/ /\ ~enabled[Mail[i].channel] \/ Mail[i].channel = "GVOICE"
     /\ UNCHANGED router

\* The next mail of a fetch.  The history path looks at the label again, and
\* both paths pass over the account's own mail.
Item(f) ==
  /\ pc[f] = "items" /\ todo[f] # <<>>
  /\ LET i == Head(todo[f]) IN
     \/ /\ \/ next[f] # NoId /\ i \notin unread
           \/ Mail[i].from = Owner
           \/ "network" \in Faults
        /\ todo' = [todo EXCEPT ![f] = Tail(@)]
        /\ missed' = missed \cup {i}
        /\ UNCHANGED <<pc, router>>
     \/ /\ next[f] # NoId => i \in unread
        /\ Mail[i].from # Owner
        /\ Process(f, i)
        /\ pc' = [pc EXCEPT ![f] = "mark"]
        /\ UNCHANGED <<todo, missed>>
  /\ UNCHANGED <<mailbox, stored, cached, isProcessing, next, enabled, base,
                 crashes>>

\* Mutant: the mail is not marked read.
MarkNothing(f) ==
  /\ Move(f, "mark", "items")
  /\ todo' = [todo EXCEPT ![f] = Tail(@)]
  /\ UNCHANGED <<mailbox, stored, cached, isProcessing, next, enabled, router,
                 base, missed, crashes>>

\* markAsRead, whatever processEmail did with the mail.
MarkAsRead(f) ==
  /\ Move(f, "mark", "items")
  /\ \/ unread' = unread \ {Head(todo[f])}
     \/ "network" \in Faults /\ UNCHANGED unread
  /\ todo' = [todo EXCEPT ![f] = Tail(@)]
  /\ UNCHANGED <<arrived, purged, triggers, stored, cached, isProcessing, next,
                 enabled, router, base, missed, crashes>>

ItemsDone(f) ==
  /\ todo[f] = <<>>
  /\ Move(f, "items", IF next[f] = NoId THEN "finish" ELSE "save")
  /\ UNCHANGED <<mailbox, stored, cached, isProcessing, todo, next, enabled,
                 router, base, missed, crashes>>

\* saveHistoryId
Save(id) ==
  IF id = cached THEN UNCHANGED <<stored, cached>>
                 ELSE stored' = id /\ cached' = id

SaveHistory(f) ==
  /\ Move(f, "save", "finish")
  /\ Save(next[f])
  /\ UNCHANGED <<mailbox, isProcessing, todo, next, enabled, router, base,
                 missed, crashes>>

-----------------------------------------------------------------------------
(* primeHistoryId, called by the service and after a failed history call *)

AfterPrime(f) == IF f = Service THEN "idle" ELSE "finish"

Prime(f) ==
  /\ Move(f, "prime", IF stored # NoId THEN AfterPrime(f) ELSE "profile")
  /\ cached' = stored
  /\ UNCHANGED <<mailbox, stored, isProcessing, todo, next, enabled, router,
                 base, missed, crashes>>

\* The profile call: the newest historyId, or no token, an error, no network.
AskProfile(f) ==
  /\ \/ /\ Move(f, "profile", "set")
        /\ next' = [next EXCEPT ![f] = arrived]
     \/ /\ Move(f, "profile", AfterPrime(f))
        /\ UNCHANGED next
  /\ UNCHANGED <<mailbox, stored, cached, isProcessing, todo, enabled, router,
                 base, missed, crashes>>

SetPrimed(f) ==
  /\ Move(f, "set", AfterPrime(f))
  /\ Save(next[f])
  /\ base' = next[f]
  /\ UNCHANGED <<mailbox, isProcessing, todo, next, enabled, router, missed,
                 crashes>>

-----------------------------------------------------------------------------
(* The engine, the switches and the process *)

\* The mail a reply to s goes to by now: the digits are looked up first, if
\* there are any, then the address.  NoMail when neither map has it.
ReplyTo(s) ==
  IF Digits[s] # NoDigits /\ gvoiceContextMap[Digits[s]] # NoMail
  THEN gvoiceContextMap[Digits[s]]
  ELSE emailContextMap[s]

\* routeReply for mail i
RouteReply(i) ==
  /\ i \in waiting
  /\ waiting' = waiting \ {i}
  /\ replies' = replies \cup {<<i, ReplyTo(Mail[i].from)>>}
  /\ UNCHANGED <<mailbox, stored, cached, isProcessing, pc, todo, next,
                 enabled, context, count, listed, base, missed, crashes>>

Toggle(c) ==
  /\ enabled' = [enabled EXCEPT ![c] = ~@]
  /\ UNCHANGED <<mailbox, stored, cached, isProcessing, pc, todo, next, router,
                 base, missed, crashes>>

\* The process is killed and the service starts again.
Crash ==
  /\ "crash" \in Faults /\ crashes < MaxCrashes
  /\ crashes' = crashes + 1
  /\ cached' = NoId /\ isProcessing' = FALSE
  /\ pc' = [f \in Threads |-> IF f = Service THEN "prime" ELSE "idle"]
  /\ todo' = [f \in Threads |-> <<>>]
  /\ next' = [f \in Threads |-> NoId]
  /\ gvoiceContextMap' = [k \in Keys |-> NoMail]
  /\ emailContextMap' = [s \in Senders |-> NoMail]
  /\ waiting' = {}
  /\ missed' = missed \cup unread
  /\ UNCHANGED <<mailbox, stored, enabled, count, replies, listed, base>>

FetchStep(f) ==
  \/ Load(f) \/ FetchHistory(f) \/ FetchFails(f) \/ ListUnread(f) \/ Item(f)
  \/ MarkAsRead(f) \/ ItemsDone(f) \/ SaveHistory(f) \/ Finish(f)

PrimeStep(f) == Prime(f) \/ AskProfile(f) \/ SetPrimed(f)

ErrorStep(f) == ThrowError(f) \/ Unwind(f) \/ HandleError(f)

Next ==
  \/ Arrive \/ ReadElsewhere \/ Purge \/ DropTrigger \/ Crash
  \/ \E f \in Fetchers : Trigger(f) \/ FetchStep(f) \/ PrimeStep(f) \/ ErrorStep(f)
  \/ PrimeStep(Service)
  \/ \E i \in Mails : RouteReply(i)
  \/ \E c \in Switches : Toggle(c)

Spec == Init /\ [][Next]_vars

\* The IO dispatcher runs the fetch, and every call has a timeout.
FairSpec ==
  Spec /\ \A f \in Threads : WF_vars(FetchStep(f) \/ PrimeStep(f) \/ ErrorStep(f))

-----------------------------------------------------------------------------
(* Properties *)

Fetching == {f \in Fetchers : pc[f] \notin {"idle", "handler"}}

\* "isProcessing flag prevents overlapping fetches", and is given back by
\* whatever ends a fetch: it is set exactly while one fetch is alive.
OneFetchAtATime ==
  Cardinality(Fetching) = IF isProcessing THEN 1 ELSE 0

\* No mail is given to the engine twice in one life of the process: a second
\* auto-reply takes a crash between processEmail and markAsRead.
HandledOncePerLife == \A i \in Mails : count[i] <= 1 + crashes

\* "historyId is advanced after each successful History API fetch", and not
\* past a mail that was not looked at: every mail of somebody else that the
\* stored cursor covers was given to the engine, is no longer unread, or was
\* left out by the one page that is asked for.
CursorCoversMail ==
  base # NoId =>
    \A i \in (base + 1)..stored :
      Mail[i].from = Owner \/ count[i] > 0 \/ i \notin unread \/ i \in missed

\* When no notification is on its way and no fetch is running, no mail of
\* somebody else since monitoring began is left lying unread, but for the
\* known ways to miss one: a fetch failed or was killed, its page was full, or
\* the notification was dropped by a fetch that had already asked.  One
\* dropped by a fetch that had yet to ask costs nothing.
NothingForgotten ==
  base # NoId /\ triggers = 0 /\ Fetching = {} =>
    \A i \in (base + 1)..arrived :
      Mail[i].from = Owner \/ count[i] > 0 \/ i \notin unread \/ i \in missed

\* Both maps may answer for sender s: there is e-mail from it, and Voice mail
\* with the digits of its address or, without digits, from the same address.
InBothMaps(s) ==
  \E i, j \in Mails :
    /\ Mail[i].channel = "EMAIL" /\ Mail[i].from = s
    /\ Mail[j].channel = "GVOICE"
    /\ \/ Mail[j].from = s
       \/ Digits[s] # NoDigits /\ Digits[Mail[j].from] = Digits[s]

\* Header of EmailRouter, "routeReply() always uses the most recent context":
\* a reply never goes to a mail older than the one it answers, however many
\* contexts a full map drops in between, but in two cases in which it does:
\* both maps know the sender, or one of the two mails came from the unread
\* list, which is worked through newest first.
RepliesNeverGoBack ==
  \A r \in replies :
    \/ r[2] = NoMail \/ r[2] >= r[1]
    \/ InBothMaps(Mail[r[1]].from)
    \/ {r[1], r[2]} \cap listed # {}

\* A fetch comes to its end, so the next notification is not dropped for ever.
FetchEnds == isProcessing ~> ~isProcessing
=============================================================================
