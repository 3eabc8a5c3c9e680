# Aigentik: TLA+ models, TLC runs and TLAPS proofs

Aigentik is an Android agent that answers SMS/RCS messages, e-mail and Google
Voice texts for its owner with a language model on the device.  Messages come in
as notifications; the owner administers the agent by message too.  What makes it
hard is not the model but the plumbing: coroutines on a thread pool, two locks,
timers, a cursor into Gmail's history, confirmations and sessions, and a process
that Android may kill at any time.  This directory models that plumbing.

Sources below are relative to `src/app/src/main/java/com/aigentik/app/`.

## Inventory

| Part | State | Operations | Talks to |
|---|---|---|---|
| Message engine (`core/MessageEngine.kt`) | `messageMutex`, one coroutine per message | `onMessageReceived`, `handleAdminCommand`, `handlePublicMessage` | everything below |
| Remote administration (`auth/AdminAuthManager.kt`) | `activeSessions`, `pendingDestructiveCommands` | `authenticate`, `hasActiveSession`, `setPendingDestructive`, `consumePendingDestructive` | engine |
| Channel switches (`core/ChannelManager.kt`) | enabled flag per channel, persisted | enable, disable, parse a switch command | engine, listener, e-mail monitor |
| Action policy (`agent/`) | none | `validate`, `score`, `evaluate` | engine, before any action |
| Contacts (`core/ContactEngine.kt`) | contact list mirrored in Room | find, create, instructions, sync | engine, listener |
| LLM facade (`ai/AgentLLMFacade.kt`, `SmolLM.kt`) | load state, shared deferred, idle timer, native handle | `ensureLoaded`, generate, interpret, unload | engine, service |
| E-mail monitor (`email/EmailMonitor.kt`, `GmailHistoryClient.kt`, `EmailRouter.kt`) | `isProcessing`, historyId, reply contexts | on notification: fetch, process, mark read, advance; route a reply | Gmail, engine |
| Notification listener, reply router, de-duplicator (`sms/`, `core/MessageDeduplicator.kt`) | reply entries, seen and sent texts | post, remove, reply | engine |
| Service, watchdog (`core/AigentikService.kt`, `system/`) | wake lock, watchdog flag | start, stop, prime, load | all |
| Google sign-in, Gmail client | OAuth token | calls with timeouts | e-mail |
| Native inference (`smollm/src/main/cpp/LLMInference.cpp`, `smollm.cpp`) | messages, batch, KV cache, half-received characters, the reply so far | load, add a message, complete, stop, benchmark, free | llama.cpp |
| Chat model manager (`llm/SmolLMManager.kt`, `ChatScreenViewModel.kt`, `ChatActivity.kt`) | jobs of load and response, loaded and inference flags, native handle, screen state | load, respond, stop, unload, benchmark, switch and clear chats, hide and show | native inference |
| Chat UI, Room tables, SMS/calendar/e-mail tools, routing, benchmarks, vector store | | | not modelled, see the end |

Correctness, part by part: handlers do not interleave where the code relies on
it, a destructive command runs only for an authenticated sender who confirmed
it, and one confirmation lets it run once; whoever asks for the model gets an
answer, the native context is used by one thread at a time and is freed when
idle; every new mail is handed to the engine once, the cursor never passes one
that was not looked at, and a reply answers the newest mail of its sender; a reply
goes to the conversation it answers, once; a rule set for a contact is found
again, in this process and after a kill; generated text arrives whole, in order
and once, and the native object is never called after it was freed by a job that
is still wanted.  Some of this the code keeps only with exceptions, which the
properties name.  `hazards` in `PROJECT.json` lists where it could go wrong, at its
line.

## Modules

* `ActionPolicy`: the gate as pure operators, `Validate`, `Score`, `Evaluate`
  for the three functions of the same names.  A command keeps its action name,
  target and whether it has content; a confidence is a percentage.
  `PolicyIsMonotone` is about the whole chain; the engine, which extends the module,
  carries it into `engine_login`.  The tables would allow a PUBLIC sender
  `set_contact_instructions` from 0.75 on, but the engine evaluates commands of
  administrators only, so nothing is claimed of PUBLIC commands.
* `MessageEngine` (`MCMessageEngine`): one process per message.  `Receive...`
  are the branches of `onMessageReceived` on the caller's thread; `Acquire` is
  `messageMutex.withLock`; the other actions are the stretches of the two
  handlers between points where another handler may come in.  The two map
  operations of `consumePendingDestructive` are two steps (`CheckConfirm`,
  `ConsumePending`).  A login with a command goes straight to the handler,
  without the mutex, as in the code.  A command text is an element of `Commands`
  and `Reading` says how the parsers read it; a message says whether its
  credentials verify; the model's answer is any of `LlmResults`; what the owner
  is told is `outcome`.  `armed`, `released` and `loggedIn` are history.
* `ConfirmGate`: the abstract specification of the confirmation protocol, one
  slot per sender, filled by a warning and emptied by the command it lets
  through.  `MessageEngine!GateSpec` is the refinement, with the pending commands
  as the slots.
* `LLMFacade` (`MCLLMFacade`): callers, load coroutines and idle timers as
  processes.  `loadMutex` sections are one step (they do not suspend), a
  `lock.withLock` section is an acquiring and a releasing step, and each
  assignment to `state`, `idleUnloadJob` and the deferred outside a lock is a
  step of its own.  A native call on a handle of 0 kills the process (`died`):
  Kotlin's `assert` is off on Android and `smollm.cpp` follows the pointer unchecked.
* `EmailMonitor` (`MCEmailMonitor`): notifications, the fetch, priming, the
  reply contexts, and the mailbox, which is external.  Mails are numbered by
  arrival and a historyId is the number of the last mail it covers.  `Remember`
  writes `gvoiceContextMap`, by the last ten digits, or `emailContextMap`, by the
  address; `RouteReply` looks in the first, unless there are no digits, and then in
  the second, as `EmailRouter` does.  Each Gmail
  call is a step; only the mailbox, the stored historyId and the channel switches
  survive `Crash`.  `count`, `replies`, `base`, `crashes` and `listed` (what came from
  the unread list) are history.
  `missed` records every way the code is known to lose a mail: past the page,
  passed by a failed or killed fetch, or announced by a notification that a
  fetch dropped after it had asked Gmail (`StillToAsk`).
* `AgentPipeline` (`MCAgentPipeline`): `MessageEngine` and `LLMFacade` together.
  A message is a caller of the facade while its handler is in one of the phases
  that use the model: `CallModel` enters `ensureLoaded`, the handler goes on when
  the call has returned, and keeps messageMutex meanwhile.  When a call has killed
  the process nothing happens any more.  All liveness of the two is stated here, on
  the composition, so no part assumes the other returns.
* `ReplyRouter` (`MCReplyRouter`): the listener thread, which handles one
  notification after the other, and the handlers that reply from other threads. Each
  operation on a concurrent map, and each read or write of the de-duplicator's plain
  maps, is a step; of two puts into the plain map of sent texts at the same time one
  may be lost.  A fingerprint is the digits of the sender and the text;
  conversations shown under a name that is no contact's share `NoDigits`.  The
  messaging app is external: it may update a notification with the reply that was
  sent at any time after it (`PostEcho`), before `markSent` too.  `replies`,
  `reached` and `gone` are history.
* `ContactEngine` (`MCContactEngine`): the service's start (migration, load, sync)
  and handlers that look up, create and set rules.  A contact is an object of one
  load of the list, so a handler can hold one the list no longer has; a row is
  the snapshot `toEntity` takes and `insert` writes in another step.  A look-up is by
  number (`Found`) or by a name, alias or relationship, which a contact created for a
  number alone does not have; setting a rule looks up twice (`FindForRule`,
  `FindAgain`), and the two may find different twins.  Contacts are numbered as they
  are created, and `key` is the id the code gives them, the time in milliseconds,
  which two may share, so that the later insert replaces the other's row.
  `renameTo` may return false and leave the legacy file (`Rename`).  `Crash` keeps the
  table and that file.  `set`, `durable`, `stale` and `leftover` are history: the rule
  last set in the contact a number finds, what reached the table, the contacts whose
  row was not what the object held (crossed, failed or too early writes, a load or a
  migration behind them), and whether a load found the legacy file still there.  Of
  the rules only the reply rule is kept; the free text of `set_contact_instructions`
  is not.
* `LLMInference` (`MCLLMInference`): one native object, from load to free.  The
  template is one token per message, a token is a sequence of bytes, not always of
  whole characters, and sampling may give any.  `NCtx` is the context llama.cpp
  makes of the size asked for, `NBatch` the batch limit; `Abort` is its assertion.
  A negative result of `llama_decode` throws; 1 and 2, no slot in the KV cache or
  broken off, pass for success (`Slip`): the loop samples as if there were logits,
  which aborts or goes on.  `generated` and `delivered` are history.
* `ChatManager` (`MCChatManager`): load, response and benchmark jobs on
  `jniDispatcher`, events of the user on the main thread.  A job holds the
  dispatcher inside a native call and between calls that do not suspend; a load
  gives it back while the file is loaded on an IO thread and while messages come
  from the database.  Cancellation is a flag the job sees at its next suspension
  point, never inside a native call.  When a response is complete the main thread
  makes two native calls of its own, for its speed and length (`Getters`), outside
  the dispatcher; no event comes between.  Clearing a chat stops the response,
  waits for the database and then unloads, which may be refused (`Delete`,
  `Cleared`, `ChatDeleted`).  A database call that throws ends a load or a response
  with an error.  An object is a handle; a call on a freed one may return or end the
  process (`Die`).  One screen is modelled.
* `MessageEngineProofs`, `ConfirmGateProofs` (which extends it), `LLMFacadeProofs`,
  `ChatManagerProofs`, `EmailMonitorProofs`, `ReplyRouterProofs`,
  `LLMInferenceProofs`, `ContactEngineProofs`: the proofs, one module for each of
  the above that has theorems.

Definitions named as a mutant in their comment are deliberately wrong variants
of the definition after them; each property is shown to fail on one.

## Runs

| Run | Instance | Shows |
|---|---|---|
| `engine_queued` | 4 messages, the admin's number and a stranger | `OneHandlerAtATime`, `ReleasedOncePerArming`, `NeverIsHonoured`, `GateSpec` when no login carries a command |
| `engine_login` | 3 messages, a remote administrator, timeout 2, pause | `QueuedHandlersExclude`, `DestructiveNeedsConfirmation`, `AdminIsAuthenticated`; for all commands, trusts and confidences around the threshold `PolicyIsMonotone` |
| `pipeline_live` | 2 messages (a login with a command, a stranger), 1 load, 1 timer, loads that succeed or throw | `EveryMessageHandled`, `IdleModelUnloads` |
| `facade_safety` | 2 callers, 2 loads, 2 timers, every way a load ends | `TypeOK`, `OneLoadAtATime`, `NativeCallsExclude` |
| `email_safety` | 3 mails of 2 Voice contacts, pages of 2, reply maps of 1, 2 fetchers, 1 kill, either start | `OneFetchAtATime`, `HandledOncePerLife`, `CursorCoversMail`, `NothingForgotten`, `RepliesNeverGoBack` |
| `email_live` | an e-mail and one of the account itself; failing, purged, throwing calls | `FetchEnds` |
| `inference` | 2 completions, a context of 5 (rounded to 6) or 6, tokens that are the halves of a character in any order, failing decodes and templates, a missing slot, a cancellation, a benchmark of 6 tokens | `DeliveredInOrder`, `HistoryHoldsDelivered`, `DeliveredIsText`, `CompletionEnds` |
| `router` | 3 conversations, two of them without a number, 2 texts, 2 handlers, room for 1 entry, 1 expiry | `ReplyKeepsNumber`, `NoDuplicateReply`, `AnswerableUntilGone` |
| `contacts` | 2 people, one in the legacy file, one in the address book, a name that fits both, 2 handlers and the service, 2 requests, 3 contacts, failing database, migration and rename, kills | `RuleIsFound`, `RoomMatchesList`, `RulesAreDurable` |
| `chat` | 2 loads, 2 responses, a benchmark, 2 handles at a time, 3 events | `LoadedIsOpen`, `ReadyIsLoaded`, `LiveJobUsesOpen`, `OneCallPerObject`, `InferenceFlagClears`, `SpinnerEnds` |

Bounds.  Four messages are an arming, a confirmation, a stranger's message and a
command that changes the rule for him; three are a login, an arming and a
confirmation, or two logins racing after an arming.  Two callers, loads and timers
are a caller, one it races with, and an old and a new load or timer. One timer is
enough in `pipeline_live` for the model to be loaded, used, closed and loaded no
more; two timers at a time are in `facade_safety`.  Three mails are an old and a new
one of a sender with another's between, and with `PageSize` and `ListSize` 2 and
`ContextCap` 1 the page, the list and the map overflow.  In `inference` a context of
6 is filled by two short completions with history, 5 is a size llama.cpp rounds, and
the benchmark exceeds the smaller one's batch.  In `router` room for one entry makes
every notification of another conversation evict, and the two without a number share
their fingerprints; in `contacts` three contacts are the legacy person, one of the
address book and a twin that a handler and the sync create together, with one load
in each life of the process, which is killed and started again; in `chat` two loads
and two responses are an old and a new one, and three events are, for one, send,
switch and hide. `MaxCrashes`, `MaxMail`, `Timeout`, `MaxTurns`, `MaxMessages`,
`MaxPosts`, `MaxTicks`, `MaxIds`, `MaxRequests`, `MaxLoads`, `MaxSlips`, `MaxEvents`
and the sets of processes are the named bounds.  Symmetry is used for safety only,
over messages, callers, handlers and conversations without a number, which nothing
tells apart.  `facade_safety` allows deadlock: after a load has died with an `Error`
everyone may wait for ever.  `pipeline_live`, `inference` and `chat` allow it
because they end: all messages are handled, the object is freed, the user leaves or
a native call ends the process.  The engine runs and the e-mail runs never stop
because the pause and channel switches can always be flipped.

Fairness.  Weak fairness of every launched coroutine: the IO dispatcher runs
them, generation is bounded by the context size, the HTTP clients have timeouts
and a delay ends.  Who wakes up for a native lock is left to the scheduler, so
`AgentPipeline` assumes strong fairness of the three acquisitions (`UseModel`,
`WarmUp`, `CloseNative`): a thread that finds the lock free again and again gets
it.  In `inference` the loop goes on while it is neither cancelled nor at an end;
nothing says that the model ends its reply, the context does that.  In `chat`
every job that can run does, and a native call returns, or ends the process if
its object was freed.  No fairness is assumed of the outside: messages, mail,
switches, crashes, new calls, the user.

### Where the code and its comments disagree

Two runs state what a comment says and TLC refutes it:

* `engine_double_confirm`: two logins that carry the same confirmation run
  outside the mutex, both read the pending command before either removes it, and
  one arming releases the command twice.
* `facade_closed_handle`: a caller sees `READY`, waits for the lock while the
  idle timer closes the model, and calls into the closed handle; the state is not
  looked at again under the lock.  The process dies there, so `EveryMessageHandled`
  holds only "or `died`".

More of the kind is in the models without a run of its own; these are why the
passing runs restrict the message forms, call kinds, starts or faults the way the
table says, and why some properties name exceptions.

* Engine: messageMutex does not cover logins with a command; another command, or
  the end of the session, does not cancel a pending one (nothing but
  `ConsumePending` empties `pending`).  `RiskScorer`'s comment asks for approval of
  HIGH actions where `Evaluate` allows the administrator everything.
* Facade: an `Error` in a load leaves its waiters waiting, one of them with
  messageMutex (`LoadDies`, left out of `pipeline_live`); an interpretation that
  throws, or a bare load, starts no idle timer (`ModelDone`; `noTimer` in
  `IdleModelUnloads`); concurrent `scheduleIdleUnload` calls and `ForgetJob` leave
  timers nobody can cancel.
* E-mail: only one page of 20 is asked for and `nextPageToken` is ignored, but the
  cursor moves to the newest id (`GmailHistoryClient.kt:156`), though
  `EmailMonitor.kt:23` says no cap is needed; `primeHistoryId` does nothing while an
  id is stored (`GmailHistoryClient.kt:85`), so an expired one is never replaced,
  though `EmailMonitor.kt:128` resets by re-priming; mail of a disabled channel is
  marked read (`Process`, `MarkAsRead`); the exception handler clears `isProcessing`
  a second time (`HandleError`); a mail whose download fails is passed by the cursor
  (`Item`). "routeReply() always uses the most recent context" (`EmailRouter.kt`)
  fails in two cases, both exceptions of `RepliesNeverGoBack`: on the fallback path
  the newest mail is handed over first, so an older one becomes the context
  (`ListUnread`); and the two maps are looked up one after the other, so an address
  that contains a Voice contact's digits gets that contact's mail, however old, and
  Voice mail without digits is stored where nothing finds it and the reply goes to
  an older e-mail of that address.
* Router: conversations whose titles hold no digits share the fingerprint of equal
  texts, so the second is dropped and the first's answer goes to whichever
  notification was registered last (`ReplyKeepsNumber` claims the number only); a
  reply that the messaging app shows before `markSent`, or whose put was lost, is
  answered as a message (nothing is claimed of it but `NoDuplicateReply`); after a reply
  the conversation's other waiting messages cannot be answered (`gone`).
* Contacts: a handler that runs before `init` writes nothing (`dao` is null), a
  contact it inserts between `getAll` and the new list is not found until the next
  start, and a handler and the sync can create the same person twice, the one
  without a name, the other with.  A rule set by name then goes to the named twin,
  while a message, looked up by number, may find the other one without it
  (`ContactEngine.kt:57-69`); `RuleIsFound` is about the rules that reach the contact
  a number finds.  The id is the time in milliseconds, so two contacts made in one
  share a row (`ContactEngine.kt:89,157`; exempt as `Shared`).  When `renameTo` returns
  false, which nobody looks at (`ContactEngine.kt:243`), or a kill and a failing
  migration leave the file behind a load, the next start migrates again and
  overwrites the row of the legacy contact and a rule saved meanwhile (`Migrate`;
  exempt as `stale`).
* Native inference: `storeChats = false` forgets nothing, `_messages` is always the
  prompt (`SmolLM.kt:148` says otherwise, and `AgentLLMFacade.kt:186` relies on it);
  what a failed or cancelled completion left in `_response` and
  `_cacheResponseTokens` comes out of the next one; for a context size that
  llama.cpp rounds up, a prompt between the two sizes passes completionLoop's
  check and fails an assertion (`Abort`); so does the benchmark's prompt of 512
  tokens in a smaller context (`BenchModel`).  `LLMInference.cpp:164` looks for
  results below 0 only, so what `llama_decode` could not place passes for decoded
  (`Slip`); while that goes on the loop need not end, which is why `CompletionEnds` is
  under `MaxSlips`.
* Chat: `unloadModel` "only if the inference is not in progress"
  (`ChatScreenViewModel.kt:273`) looks at a flag the queued job has not raised yet,
  and a cancelled job may still be in a native call on the object that is freed;
  that job, cancelled before it began, leaves `isGeneratingResponse` set; a load that
  was overtaken stores its handle over the newer one; `UpdateChatModel` and
  `SwitchChat` load without closing, so the old object is leaked; the benchmark is
  never cancelled and may run on a handle of 0, because Kotlin's `assert` is off on
  Android.  "Single-threaded dispatcher for all JNI calls" (`SmolLMManager.kt:36`) is
  not so: the main thread calls `getResponseGenerationSpeed` and
  `getContextLengthUsed` (lines 194 and 196), and a load or the benchmark can be inside
  a call on the same object meanwhile; `OneCallPerObject` names that exception and
  shows that no completion can.  Clearing a chat does not always unload: its unload
  comes after the database's answer and is refused if a response began meanwhile;
  the keyboard's action sends while a response is being generated (`Send`).
  The manifest lets a second `ChatActivity` (an `ACTION_SEND` share) be stacked on
  the first over the same manager (`ChatActivity.kt:163-176`, `513-520`): one screen's
  `onStop` may then unload the other's model or cancel its load, and `ReadyIsLoaded`
  and `SpinnerEnds` hold of one screen only.

## Proofs

Every safety invariant and every action property of the passing runs, and the
refinement of `ConfirmGate`, is also a theorem, for every value of the constants
that the modules' named assumptions allow: any number of messages, callers,
coroutines, handlers, mails, contacts and jobs, any page and list size, any time to
live, any context size, any bound.  The assumptions say only that a constant has
its type, that special values (`NoMail`, `NoKey`, `Given`...) are not ordinary
ones, that thread kinds are disjoint, and that the handlers of the router are
finitely many.

A theorem with a hypothesis of its own names it in `ASSUME`.  Each is needed: TLC
refutes the conclusion on an instance without it, and the list of disagreements
above says what happens.

| Hypothesis | Theorems | In the code |
|---|---|---|
| `NoLoginCommands`: a login that verifies carries no command | `HandlersSerialised`, `ConfirmedOnce`, `EngineImplementsGate`, `NeverHonoured` | does not hold of every message: such a command runs outside messageMutex |
| `"error" \notin Faults` (no `Error`, which `catch (e: Exception)` lets through) | `FetchesExclude`, `HandledOnce`; `RepliesGoForward` unless there is one fetcher | the handler clears `isProcessing` a second time, perhaps under the next fetch; replies go back then if a Gmail call fails too |
| `"network" \notin Faults` (Gmail answers) | `CursorCovers`, `NoMailForgotten`, `HandledOnce` | a mail whose download fails is passed by the cursor; one whose mark fails is handled again |

The other theorems have none: those about contacts, router, native inference,
facade and chat hold under every fault their modules have, with the exceptions that
are part of the properties.

The properties are seldom inductive; what was added to each, and why:

`MessageEngineProofs`.  `StepMoves` says once what any handler step may do to its
own and to other messages (`HandlerMove`); the other inductions use it instead of
the actions.
* `TypeCorrect`; lemmas give the type of what `Goto`, `Finish`, `Rules` and
  `RunAction` produce.
* `QueuedExclusion` does not say who holds the mutex; `MutexInv` does: a running
  handler that did not come in as a login is the holder.
* `AdminAuthentication`: `AuthInv` adds that live sessions belong to senders
  who logged in, which `ReceiveOther` relies on.
* `DestructiveConfirmed`: `ConfirmInv` follows a confirmation through its
  phases: what is pending was armed, and a handler past the comparison carries
  an armed command.
* `MonotonePolicy`: about `Validate`, `Score` and `Evaluate`; its lemma
  `MonotoneAtAnyConfidence` is for every integer confidence, not only for the levels
  of the runs.

`ConfirmGateProofs`, under `NoLoginCommands`.
* `HandlersSerialised`: what the comment on messageMutex says.
* `ConfirmedOnce`: `SlotInv` counts: armings exceed releases by at least one
  while the slot is full, and a handler between comparison and removal still finds
  its command in the slot, because it is alone.
* `EngineImplementsGate`: every step arms, releases or leaves the gate alone.
* `NeverHonoured`, an action property: `DraftInv`, a reply is drafted only for
  somebody the rules allow to be answered; the rules change in a handler, and no
  other one is between its look-up and its reply.

`LLMFacadeProofs`.
* `TypeCorrect`, `NativeExclusion`: `LockInv`, whoever is inside a native call owns
  the lock.
* `SingleLoad`: `LoadInv` (a load that has not cleared loadDeferred is the one it
  refers to) bounds the loads; that none overwrites an open context takes `NativeInv`:
  a load finds the context closed, an open one without READY has a load about to
  say READY, and when a load opened it again behind a timer that is closing, that
  load has yet to pass the timer's lock, so its READY comes last.

`ChatManagerProofs`.
* `CallsExclude`: `JniInv`, one job at a time holds `jniDispatcher`; for the calls of
  the main thread, which does not, `GetterInv`: from the time a response waits for
  the main thread no other response is completing, because it would have to be the
  one the manager refers to (`JobInv`).
* `LoadedOpen`, `LiveJobsSafe`: `JobInv` (modelInitJob and responseGenerationJob
  refer to every job that will go on, so that unload() cancels them all) and
  `HandleInv` (what such a job or isInstanceLoaded relies on is open, between calls
  too, and while close() runs nothing relies on it).
* `ReadyLoaded`: from the same, with what the screen and the manager do in one step.

`EmailMonitorProofs`.
* `FetchesExclude`: `FetchInv`, `isProcessing` is set exactly while there is a
  fetch, and there is one at most.
* `CursorCovers`: `CursorInv` and `CoverInv`, the same cover for the cursor a fetch
  is going to save, whose mails are still on its list.
* `NoMailForgotten`: `AskInv`, a mail that nobody has looked at is announced by a
  notification that is to come, or will be seen by a fetch that has yet to ask.
* `HandledOnce`: `OnceInv`, a mail on a fetch's list is unread and was not counted
  in this life, and is on it once.
* `RepliesGoForward`: `OrderInv`, along the history path mails are handed over in the
  order of arrival: a fetch's list ascends, and what waits for the engine is older
  than what is on it; and `ContextInv`, each map holds mails of its own channel at
  their own keys, none older than one of that key that waits, unless it came from
  the unread list.  `SoleFetch` keeps two lists from crossing.

`ReplyRouterProofs`.
* `RepliesKeepNumber`: `RouteInv`, an id is mapped to a conversation of its number.
* `Answerable`: `AckInv` (the listener waits for the handler it handed a message to)
  and `KeptInv` (from the first put of register to the hand-over the message is
  kept, and the ids of a key are removed only after its entry).
* `NoDuplicates`: `CountInv`, `Ttl * (replies + handlers that have the message)` is
  at most the time that has passed plus what the fingerprint has left; a bound on
  replies alone is not inductive because a handler replies long after the message
  was accepted.

`LLMInferenceProofs`.
* `TypeCorrect` bounds the KV cache by `n_ctx`.
* `InOrder` is inductive with the types; `HistoryHolds` needs `StopInv`, that
  `_response` is a message by the time stopCompletion runs.
* `DeliveredText`: `TextInv`, what was delivered is a whole number of characters.
  `ValidIsWhole` is the algorithm: a sequence of bytes that the cursor of
  `_isValidUtf8` accepts is a concatenation of whole characters; with
  `WholeIsWellFormed` and `WholeConcat` this gives the property.

`ContactEngineProofs`.
* `TypeCorrect`: with `WorkInv` (a thread at work has an object of this load or an
  earlier one and its own snapshot) and `KeyInv` (ids are unique in list and table).
* `SetRuleFound`: `RuleInv`, the first contact with a person's number holds the rule
  that was set there, and stays the first, because twins are appended and naming one
  does not move it.
* `DurableRules`: `MigrateInv`, as long as no load found the legacy file there, no rule
  of its contact is saved before the file is gone, so the first migration overwrites
  none.
* `RoomMatches`: `MatchInv`, whose exceptions are spelled per contact.

Induction over data.  The library's induction theorems cannot be instantiated with
an operator here, so what `FlattenSeq` and the cursor of `_isValidUtf8` compute for
every sequence is shown by the least counterexample (`LeastNat`, from the
well-foundedness of the naturals, which takes a set instead of an operator): a set of
numbers with no least element is empty.  The functions are written with recursive
functions or folds, never RECURSIVE operators, so that this is possible.

Only model-checked: liveness under fairness (`EveryMessageHandled`,
`IdleModelUnloads`, `FetchEnds`, `CompletionEnds`, `InferenceFlagClears`,
`SpinnerEnds`), which this prover does not do; and the two violations.

## Plan

Done: engine, policy, facade, e-mail, router, contacts, native inference, chat
manager, the composition of engine and facade, and proofs of all their safety
properties.  Left:

1. The composition `AgentPipeline`: that its steps are steps of engine and facade,
   so that the theorems about both carry over to it.
2. A tighter statement where a hypothesis excludes more than the counterexample
   needs (the `network` fault of `CursorCovers` and `HandledOnce` in particular: only
   a failed download or mark breaks them).
3. Shorter proofs: the frames of `EmailMonitorProofs` and `ContactEngineProofs` repeat
   what one lemma about local steps could say.

## Not modelled

Password hashing and storage, OAuth, HTTP and MIME parsing, prompts and generated
text (data the properties do not look at); the Compose screens and Room tables; the
SMS, calendar and e-mail tools of the chat (stateless queries); model routing and
benchmarks (thresholds and measurements); the vector store (floating point, unused
by the app); `agent/AgentMessageEngine.kt` (an unused stub); generated grammars.
The watchdog and the wake lock are calls into Android on which no state of the app
depends.  `llama.cpp` is vendored, 99% of the lines under `src/`, and is modelled
only by the two limits and the failures of `llama_decode` that `LLMInference` meets.
The account is signed in throughout, what `SharedPreferences.apply()` was given
survives a kill, the clock is a tick, and `Message.Channel.CHAT`, which no caller
produces, is left out.
