---------------------------- MODULE ChatManager ----------------------------
(***************************************************************************)
(* SmolLMManager under the chat screen: ChatScreenViewModel and ChatActivity*)
(* call it on the main thread; its load, response and benchmark jobs run on*)
(* jniDispatcher, which runs one of them at a time, but a job gives the    *)
(* dispatcher back wherever it suspends: SmolLM.load reads the model on an *)
(* IO thread, and the database and the main thread are waited for.         *)
(*                                                                         *)
(* Cancellation is cooperative.  A cancelled job goes on until it is       *)
(* dispatched, emits a piece, or enters or leaves a suspending call; a     *)
(* native call is never interrupted.  nativePtr is read anew for each one. *)
(*                                                                         *)
(* One screen is modelled.  The manager is a singleton, and the manifest   *)
(* lets a second ChatActivity, opened for a shared text, be stacked on the *)
(* first: its view model would call the same manager.                      *)
(***************************************************************************)
EXTENDS Naturals, FiniteSets

CONSTANTS
  Loads,      \* load jobs alive at a time (bound)
  Gens,       \* response jobs alive at a time (bound)
  Benches,    \* benchmark jobs alive at a time: the button allows one
  Handles,    \* native objects there is memory for
  None,       \* a nativePtr of 0
  MaxEvents   \* what the user does (bound)

ASSUME ChatAssumption ==
  /\ Loads \cap Gens = {} /\ Loads \cap Benches = {} /\ Gens \cap Benches = {}
  /\ Loads # {} /\ None \notin Handles
  /\ MaxEvents \in Nat

Jobs == Loads \cup Gens \cup Benches

VARIABLES
  screen,       \* uiState.modelLoadingState
  generating,   \* uiState.isGeneratingResponse
  visible,      \* the activity is started
  unloaded,     \* ChatActivity.modelUnloaded
  closing,      \* the main thread is in SmolLM.close()
  loaded,       \* isInstanceLoaded
  inferenceOn,  \* isInferenceOn
  initJob,      \* modelInitJob: the job it refers to, or none
  responseJob,  \* responseGenerationJob, likewise
  ptr,          \* SmolLM.nativePtr
  open,         \* the native objects not deleted
  pc,           \* where each job is
  cancelled,    \* the jobs that were cancelled
  uses,         \* the object each job's native call is given
  resend,       \* the load jobs that send a query once they are done
  dead,         \* the process was killed by a native call
  events        \* what the user did so far

chatVars == <<screen, generating, visible, unloaded, closing>>
mgrVars  == <<loaded, inferenceOn, initJob, responseJob>>
jobVars  == <<pc, cancelled, uses, resend>>
vars     == <<chatVars, mgrVars, ptr, open, jobVars, dead, events>>

LoadPhases == {"free", "deleting", "lookup", "queued", "io", "loaded", "prompt",
               "history", "filling", "main", "failed"}
GenPhases  == {"free", "queued", "start", "starting", "looping", "stopping",
               "saving", "main", "speed", "length", "back", "error"}
BenchPhases == {"free", "queued", "bench"}

\* The phases of a job that is inside a native call: those of a completion, the
\* other ones made on jniDispatcher, and the two getters, which are called on
\* the main thread.
Completing == {"starting", "looping", "stopping"}
OnJni      == Completing \cup {"prompt", "filling", "bench"}
Getters    == {"speed", "length"}
Native     == OnJni \cup Getters

\* A coroutine of the view model that has not come to load() yet.
Unborn == {"free", "deleting", "lookup"}

\* The close of a handle and the reset of nativePtr apart, nativePtr is the
\* address of an object that exists, or 0.
TypeOK ==
  /\ screen \in {"NOT_LOADED", "IN_PROGRESS", "SUCCESS", "FAILURE"}
  /\ generating \in BOOLEAN /\ visible \in BOOLEAN /\ unloaded \in BOOLEAN
  /\ closing \in BOOLEAN /\ loaded \in BOOLEAN /\ inferenceOn \in BOOLEAN
  /\ initJob \subseteq Loads /\ responseJob \subseteq Gens
  /\ open \subseteq Handles
  /\ ptr \in Handles \cup {None} /\ (~closing => ptr \in open \cup {None})
  /\ pc \in [Jobs -> LoadPhases \cup GenPhases \cup BenchPhases]
  /\ \A j \in Loads : pc[j] \in LoadPhases
  /\ \A g \in Gens : pc[g] \in GenPhases
  /\ \A b \in Benches : pc[b] \in BenchPhases
  /\ cancelled \subseteq Jobs /\ resend \subseteq Loads
  /\ uses \in [Jobs -> Handles \cup {None}]
  /\ dead \in BOOLEAN /\ events \in 0..MaxEvents

\* The view model loads the default chat's model as soon as it exists.
Init ==
  /\ screen = "NOT_LOADED" /\ generating = FALSE
  /\ visible = TRUE /\ unloaded = FALSE /\ closing = FALSE
  /\ loaded = FALSE /\ inferenceOn = FALSE
  /\ initJob = {} /\ responseJob = {}
  /\ ptr = None /\ open = {}
  /\ LET first == CHOOSE j \in Loads : TRUE
     IN pc = [x \in Jobs |-> IF x = first THEN "lookup" ELSE "free"]
  /\ cancelled = {} /\ resend = {}
  /\ uses = [x \in Jobs |-> None]
  /\ dead = FALSE /\ events = 0

-----------------------------------------------------------------------------
(* Jobs *)

\* jniDispatcher runs one job at a time; the phases in which a job holds it.
JniFree == \A x \in Jobs : pc[x] \notin OnJni \cup {"start"}

\* The main thread is in no native call.
MainFree == ~closing /\ \A g \in Gens : pc[g] \notin Getters

Move(x, from, to) == pc[x] = from /\ pc' = [pc EXCEPT ![x] = to]

\* A step of a job that may be its last.
Goes(x, from, to) ==
  /\ Move(x, from, to)
  /\ cancelled' = IF to = "free" THEN cancelled \ {x} ELSE cancelled

\* A name for a new job, the same one whenever the same ones are taken.
Fresh(js) == CHOOSE x \in js : pc[x] = "free"
Room(js)  == \E x \in js : pc[x] = "free"

\* Job.cancel() of whatever jobs the references name.  A job that has ended is
\* left alone, and a load that is looked up is not the manager's job yet.
Cancel(js) == cancelled' = cancelled \cup {x \in js : pc[x] \notin Unborn}

\* A native call: nativePtr as it is now.
Call(x) == uses' = [uses EXCEPT ![x] = ptr]
NoCall(x) == uses' = [uses EXCEPT ![x] = None]

\* A native call on address 0 does not return; one on a deleted object may.
Returns(x) == pc[x] \in Native /\ uses[x] # None

-----------------------------------------------------------------------------
(* What the user does, on the main thread *)

Event == MainFree /\ events < MaxEvents /\ events' = events + 1

\* A coroutine of the view model that will load the model, at its first step.
Coroutine(first, send) ==
  /\ Room(Loads)
  /\ pc' = [pc EXCEPT ![Fresh(Loads)] = first]
  /\ resend' = IF send THEN resend \cup {Fresh(Loads)} ELSE resend \ {Fresh(Loads)}

\* loadModel(): it first looks the model up.
LoadModel(send) == Coroutine("lookup", send)

\* stopResponseGeneration() and stopGeneration()
StopGeneration ==
  /\ Cancel(responseJob)
  /\ inferenceOn' = FALSE
  /\ generating' = FALSE

Stop ==
  /\ Event /\ visible /\ generating
  /\ StopGeneration
  /\ UNCHANGED <<screen, visible, unloaded, closing, loaded, initJob,
                 responseJob, ptr, open, pc, uses, resend, dead>>

\* Switching to a chat, also to a new or a task's one.  Like the next two it may
\* come when the screen is hidden again: the database was waited for before.
SwitchChat ==
  /\ Event
  /\ StopGeneration
  /\ LoadModel(FALSE)
  /\ UNCHANGED <<screen, visible, unloaded, closing, loaded, initJob,
                 responseJob, ptr, open, uses, dead>>

\* UpdateChatModel: the new model is loaded over the old one.
UpdateChatModel ==
  /\ Event
  /\ LoadModel(FALSE)
  /\ UNCHANGED <<chatVars, mgrVars, ptr, open, cancelled, uses, dead>>

\* Mutant: unload() leaves the response running.
UnloadLetsResponseRun ==
  /\ Cancel(initJob)
  /\ loaded' = FALSE
  /\ open' = open \ {ptr}
  /\ closing' = TRUE

\* unload() up to the native close.
Unload ==
  /\ Cancel(initJob \cup responseJob)
  /\ loaded' = FALSE
  /\ open' = open \ {ptr}
  /\ closing' = TRUE

\* unloadModel(): refused while the manager reports an inference.
UnloadModel ==
  \/ ~inferenceOn /\ Unload
  \/ inferenceOn /\ UNCHANGED <<cancelled, loaded, open, closing>>

\* Mutant: unloadModel() leaves the screen as it is.
ClosedKeepsScreen ==
  /\ closing
  /\ ptr' = None
  /\ closing' = FALSE
  /\ UNCHANGED <<screen, generating, visible, unloaded, mgrVars, open, jobVars,
                 dead, events>>

\* The rest of close() and of unloadModel().
Closed ==
  /\ closing
  /\ ptr' = None
  /\ closing' = FALSE
  /\ screen' = "NOT_LOADED"
  /\ UNCHANGED <<generating, visible, unloaded, mgrVars, open, jobVars, dead,
                 events>>

\* New settings reload the model, an edited message reloads and then sends it;
\* a load that follows waits for the main thread.
Reload(send) ==
  /\ Event
  /\ UnloadModel
  /\ LoadModel(send)
  /\ UNCHANGED <<screen, generating, visible, unloaded, inferenceOn, initJob,
                 responseJob, ptr, uses, dead>>

\* Deleting a chat or its messages stops the generation, then waits for the
\* database; an answer may be asked for meanwhile.
Delete ==
  /\ Event /\ visible
  /\ StopGeneration
  /\ Coroutine("deleting", FALSE)
  /\ UNCHANGED <<screen, visible, unloaded, closing, loaded, initJob,
                 responseJob, ptr, open, uses, dead>>

\* onStop() and onStart() of the activity.
Hide ==
  /\ Event /\ visible
  /\ visible' = FALSE
  /\ UnloadModel
  /\ unloaded' = ~inferenceOn
  /\ UNCHANGED <<screen, generating, inferenceOn, initJob, responseJob, ptr,
                 pc, uses, resend, dead>>

Show ==
  /\ Event /\ ~visible
  /\ visible' = TRUE
  /\ \/ unloaded /\ LoadModel(FALSE)
     \/ ~unloaded /\ UNCHANGED <<pc, resend>>
  /\ UNCHANGED <<screen, generating, unloaded, closing, mgrVars, ptr, open,
                 cancelled, uses, dead>>

\* getResponse() of the manager, which has a model, from the phases pcs.
GetResponse(pcs) ==
  /\ Room(Gens)
  /\ pc' = [pcs EXCEPT ![Fresh(Gens)] = "queued"]
  /\ Cancel(responseJob)
  /\ responseJob' = {Fresh(Gens)}

SendUserQuery(pcs) == generating' = TRUE /\ GetResponse(pcs)

\* The input field is there when the model is loaded; the keyboard sends from it
\* even when an answer is on its way.  ("Model not loaded", getResponse's answer
\* otherwise, is then out of reach: ReadyIsLoaded.)
Send ==
  /\ Event /\ visible /\ screen = "SUCCESS"
  /\ loaded
  /\ SendUserQuery(pc)
  /\ UNCHANGED <<screen, visible, unloaded, closing, loaded, inferenceOn,
                 initJob, ptr, open, uses, resend, dead>>

StartBenchmark(b) ==
  /\ Event /\ visible
  /\ Move(b, "free", "queued")
  /\ UNCHANGED <<chatVars, mgrVars, ptr, open, cancelled, uses, resend, dead>>

-----------------------------------------------------------------------------
(* A load job *)

\* The messages are gone: the model is unloaded, if it may be, and loaded again.
Cleared(j) ==
  /\ MainFree
  /\ Move(j, "deleting", "lookup")
  /\ UnloadModel
  /\ UNCHANGED <<screen, generating, visible, unloaded, inferenceOn, initJob,
                 responseJob, ptr, uses, resend, dead, events>>

\* The chat is gone: the screen switches to the default one.
ChatDeleted(j) ==
  /\ MainFree
  /\ Move(j, "deleting", "lookup")
  /\ StopGeneration
  /\ UNCHANGED <<screen, visible, unloaded, closing, loaded, initJob,
                 responseJob, ptr, open, uses, resend, dead, events>>

\* The model was looked up: load() replaces the load that is running.
Load(j) ==
  /\ MainFree
  /\ Move(j, "lookup", "queued")
  /\ screen' = "IN_PROGRESS"
  /\ cancelled' = (cancelled \cup {x \in initJob : pc[x] \notin Unborn}) \ {j}
  /\ initJob' = {j}
  /\ UNCHANGED <<generating, visible, unloaded, closing, loaded, inferenceOn,
                 responseJob, ptr, open, uses, resend, dead, events>>

\* A chat without a model: the list of models is shown instead.
NoModel(j) ==
  /\ MainFree
  /\ Move(j, "lookup", "free")
  /\ UNCHANGED <<chatVars, mgrVars, ptr, open, cancelled, uses, resend, dead,
                 events>>

\* A step of a load job that only moves on, or ends where it finds itself
\* cancelled.
LoadMoves(j, from, to) ==
  /\ Goes(j, from, IF j \in cancelled THEN "free" ELSE to)
  /\ UNCHANGED <<chatVars, mgrVars, ptr, open, resend, dead, events>>

\* It is back on jniDispatcher and makes a native call.
Resumes(j, from, to) ==
  LoadMoves(j, from, to) /\ IF j \in cancelled THEN UNCHANGED uses ELSE Call(j)

\* Where a new object may be: not where a call still works on a deleted one.
FreeMemory == Handles \ (open \cup {uses[x] : x \in Jobs})

\* SmolLM.load on its IO thread: nothing there asks whether the job is cancelled
\* or whether nativePtr holds an object already.
NativeLoad(j) ==
  /\ \/ /\ Move(j, "io", "loaded")
        /\ FreeMemory # {}
        /\ LET h == CHOOSE x \in FreeMemory : TRUE
           IN ptr' = h /\ open' = open \cup {h}
     \/ /\ Move(j, "io", "failed")
        /\ UNCHANGED <<ptr, open>>
  /\ UNCHANGED <<chatVars, mgrVars, cancelled, uses, resend, dead, events>>

\* Mutant: the messages are added on the thread that read them.
LoadStepAnywhere(j) ==
  \/ JniFree /\ LoadMoves(j, "queued", "io") /\ NoCall(j)
  \/ JniFree /\ Resumes(j, "loaded", "prompt")
  \/ Returns(j) /\ LoadMoves(j, "prompt", "history") /\ NoCall(j)
  \/ Resumes(j, "history", "filling")
  \/ /\ Returns(j)
     /\ LoadMoves(j, "filling", "main") /\ NoCall(j)

\* The job on jniDispatcher: it is dispatched, leaves for the IO thread, comes
\* back, adds the system prompt, waits for the messages of the chat, which may
\* fail to be read, adds them, and waits for the main thread.
LoadStep(j) ==
  \/ JniFree /\ LoadMoves(j, "queued", "io") /\ NoCall(j)
  \/ JniFree /\ Resumes(j, "loaded", "prompt")
  \/ Returns(j) /\ LoadMoves(j, "prompt", "history") /\ NoCall(j)
  \/ JniFree /\ Resumes(j, "history", "filling")
  \/ JniFree /\ LoadMoves(j, "history", "failed") /\ NoCall(j)
  \/ /\ Returns(j)
     /\ \/ LoadMoves(j, "filling", "main") /\ NoCall(j)
        \/ /\ pc[j] = "filling" /\ Call(j)
           /\ UNCHANGED <<chatVars, mgrVars, ptr, open, pc, cancelled, resend,
                          dead, events>>

\* Mutant: the block runs for a cancelled job too.
LoadSucceedsCancelled(j) ==
  /\ MainFree
  /\ Goes(j, "main", "free")
  /\ loaded' = TRUE
  /\ screen' = "SUCCESS"
  /\ UNCHANGED <<generating, visible, unloaded, closing, inferenceOn, initJob,
                 responseJob, ptr, open, uses, resend, dead, events>>

\* The block on the main thread, onSuccess and its onComplete.
LoadSucceeds(j) ==
  /\ MainFree /\ pc[j] = "main"
  /\ \/ /\ j \in cancelled
        /\ Goes(j, "main", "free")
        /\ UNCHANGED <<chatVars, mgrVars>>
     \/ /\ j \notin cancelled
        /\ loaded' = TRUE
        /\ screen' = "SUCCESS"
        /\ \/ j \notin resend /\ Move(j, "main", "free")
              /\ UNCHANGED <<generating, cancelled, responseJob>>
           \/ /\ j \in resend
              /\ SendUserQuery([pc EXCEPT ![j] = "free"])
        /\ UNCHANGED <<visible, unloaded, closing, inferenceOn, initJob>>
  /\ UNCHANGED <<ptr, open, uses, resend, dead, events>>

\* Mutant: the error is not shown.
LoadFailsSilently(j) ==
  /\ MainFree
  /\ Goes(j, "failed", "free")
  /\ UNCHANGED <<chatVars, mgrVars, ptr, open, uses, resend, dead, events>>

\* onError; a cancelled job does not get to the main thread.
LoadFails(j) ==
  /\ MainFree
  /\ Goes(j, "failed", "free")
  /\ screen' = IF j \in cancelled THEN screen ELSE "FAILURE"
  /\ UNCHANGED <<generating, visible, unloaded, closing, mgrVars, ptr, open,
                 uses, resend, dead, events>>

-----------------------------------------------------------------------------
(* A response job *)

\* A step that leaves everything but the job and isInferenceOn alone.
GenMoves(g, from, to) ==
  /\ Goes(g, from, to)
  /\ UNCHANGED <<chatVars, loaded, initJob, responseJob, ptr, open, resend,
                 dead, events>>

Begin(g) ==
  \/ /\ JniFree /\ UNCHANGED <<inferenceOn, uses>>
     /\ GenMoves(g, "queued", IF g \in cancelled THEN "free" ELSE "start")
  \/ /\ GenMoves(g, "start", "starting")
     /\ inferenceOn' = TRUE /\ Call(g)

\* getResponseAsFlow: every piece is emitted, which ends a cancelled job.  Only
\* the last one is not, and a cancelled job then goes on to stopCompletion.
Collect(g) ==
  /\ Returns(g)
  /\ \/ GenMoves(g, "starting", "looping") /\ Call(g) /\ UNCHANGED inferenceOn
     \/ /\ g \notin cancelled
        /\ GenMoves(g, "looping", "looping") /\ Call(g) /\ UNCHANGED inferenceOn
     \/ GenMoves(g, "looping", "stopping") /\ Call(g) /\ UNCHANGED inferenceOn

\* Mutant: the handler of a cancelled job leaves the flag.
CatchKeepsFlag(g) ==
  \/ /\ g \in cancelled
     /\ \/ Returns(g) /\ GenMoves(g, "looping", "free")
        \/ Returns(g) /\ GenMoves(g, "stopping", "free")
        \/ JniFree /\ GenMoves(g, "saving", "free")
        \/ JniFree /\ GenMoves(g, "back", "free")
     /\ NoCall(g) /\ UNCHANGED inferenceOn
  \/ /\ Returns(g) /\ pc[g] \in {"starting", "looping"}
     /\ GenMoves(g, pc[g], IF g \in cancelled THEN "free" ELSE "error")
     /\ inferenceOn' = FALSE /\ NoCall(g)

\* The handlers of the job: cancellation, seen at an emit or on either side of
\* a suspending call, and the exceptions of the native calls and the database.
\* What they would do on the main thread a cancelled job does not get to.
Catch(g) ==
  /\ \/ /\ g \in cancelled
        /\ \/ Returns(g) /\ GenMoves(g, "looping", "free")
           \/ Returns(g) /\ GenMoves(g, "stopping", "free")
           \/ JniFree /\ GenMoves(g, "saving", "free")
           \/ JniFree /\ GenMoves(g, "back", "free")
     \/ /\ Returns(g) /\ pc[g] \in {"starting", "looping"}
        /\ GenMoves(g, pc[g], IF g \in cancelled THEN "free" ELSE "error")
     \/ JniFree /\ g \notin cancelled /\ GenMoves(g, "saving", "error")
  /\ inferenceOn' = FALSE /\ NoCall(g)

\* The reply goes to the database, and the job waits for the main thread.
Save(g) ==
  /\ g \notin cancelled
  /\ \/ Returns(g) /\ GenMoves(g, "stopping", "saving")
     \/ JniFree /\ GenMoves(g, "saving", "main")
  /\ NoCall(g) /\ UNCHANGED inferenceOn

\* On the main thread: isInferenceOn falls, then the two getters, then onSuccess;
\* or onError.  A job cancelled before it gets there goes back.
Answer(g) ==
  /\ \/ /\ MainFree /\ g \notin cancelled
        /\ Goes(g, "main", "speed") /\ Call(g)
        /\ inferenceOn' = FALSE /\ UNCHANGED generating
     \/ /\ Returns(g)
        /\ Goes(g, "speed", "length") /\ Call(g)
        /\ UNCHANGED <<inferenceOn, generating>>
     \/ /\ Returns(g)
        /\ Goes(g, "length", "back") /\ NoCall(g)
        /\ generating' = FALSE /\ UNCHANGED inferenceOn
     \/ /\ MainFree /\ g \in cancelled
        /\ Goes(g, "main", "back")
        /\ UNCHANGED <<inferenceOn, generating, uses>>
     \/ /\ MainFree
        /\ Goes(g, "error", "free")
        /\ generating' = (g \in cancelled /\ generating)
        /\ UNCHANGED <<inferenceOn, uses>>
  /\ UNCHANGED <<screen, visible, unloaded, closing, loaded, initJob,
                 responseJob, ptr, open, resend, dead, events>>

\* Back on jniDispatcher, where a job cancelled by now ends in Catch.
Ends(g) ==
  /\ JniFree /\ g \notin cancelled
  /\ GenMoves(g, "back", "free")
  /\ UNCHANGED <<inferenceOn, uses>>

-----------------------------------------------------------------------------
(* The benchmark, which nothing cancels, and a native call that goes wrong *)

Benchmark(b) ==
  /\ \/ JniFree /\ Move(b, "queued", "bench") /\ Call(b)
     \/ Returns(b) /\ Move(b, "bench", "free") /\ NoCall(b)
  /\ UNCHANGED <<chatVars, mgrVars, ptr, open, cancelled, resend, dead,
                 events>>

Die ==
  /\ \E x \in Jobs : pc[x] \in Native /\ uses[x] \notin open
  /\ dead' = TRUE
  /\ UNCHANGED <<chatVars, mgrVars, ptr, open, jobVars, events>>

-----------------------------------------------------------------------------

UserStep ==
  \/ Stop \/ Hide \/ Show \/ Send
  \/ SwitchChat \/ UpdateChatModel \/ Delete
  \/ \E send \in BOOLEAN : Reload(send)
  \/ \E b \in Benches : StartBenchmark(b)

LoadJob(j) ==
  \/ Cleared(j) \/ ChatDeleted(j) \/ Load(j) \/ NoModel(j) \/ LoadStep(j)
  \/ NativeLoad(j) \/ LoadSucceeds(j) \/ LoadFails(j)

\* The job as the code runs it once a native call comes to its end.
GenJob(g) ==
  Begin(g) \/ Collect(g) \/ Catch(g) \/ Save(g) \/ Answer(g) \/ Ends(g)

Next ==
  /\ ~dead
  /\ \/ UserStep \/ Closed \/ Die
     \/ \E j \in Loads : LoadJob(j)
     \/ \E g \in Gens : GenJob(g)
     \/ \E b \in Benches : Benchmark(b)

Spec == Init /\ [][Next]_vars

\* Threads run, native calls return, and a reply comes to its end.
FairSpec ==
  /\ Spec
  /\ WF_vars(~dead /\ Closed) /\ WF_vars(~dead /\ Die)
  /\ \A j \in Loads : WF_vars(~dead /\ LoadJob(j))
  /\ \A g \in Gens : WF_vars(~dead /\ GenJob(g))
  /\ \A b \in Benches : WF_vars(~dead /\ Benchmark(b))

-----------------------------------------------------------------------------
(* Properties *)

\* getResponse() trusts isInstanceLoaded: while it is set, nativePtr is an
\* object that exists, whatever loads were overtaken, cancelled or failed.
LoadedIsOpen == loaded => ptr \in open

\* The input field is shown when the manager would take the query.
ReadyIsLoaded == screen = "SUCCESS" /\ ~closing => loaded

\* A job that was not cancelled is never given a deleted object or none: an
\* unload cancels every job that could be using nativePtr.
LiveJobUsesOpen ==
  \A x \in Loads \cup Gens :
    pc[x] \in Native /\ x \notin cancelled => uses[x] \in open

\* The native object has no lock of its own: no two calls on the same one are
\* made at once, though loads leave and re-enter jniDispatcher at any time.  The
\* getters are called outside the dispatcher, but never during a completion,
\* which writes what they read: only a load that replaced the object, or the
\* benchmark, can be at work on it then.
OneCallPerObject ==
  \A x, y \in Jobs :
    x # y /\ pc[x] \in Native /\ pc[y] \in Native /\ uses[x] = uses[y] =>
      \/ pc[x] \in Getters /\ pc[y] \in {"prompt", "filling", "bench"}
      \/ pc[y] \in Getters /\ pc[x] \in {"prompt", "filling", "bench"}

\* The flag that keeps the model in memory goes down again, so a model in the
\* background is not kept for good.
InferenceFlagClears == inferenceOn ~> (~inferenceOn \/ dead)

\* A load that is shown comes to an end.
SpinnerEnds == (screen = "IN_PROGRESS") ~> (screen # "IN_PROGRESS" \/ dead)
=============================================================================
