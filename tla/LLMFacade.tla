------------------------------ MODULE LLMFacade ------------------------------
(***************************************************************************)
(* AgentLLMFacade: on-demand loading of the one native model, its use under*)
(* a JNI lock, and its unloading by an idle timer.                         *)
(*                                                                         *)
(* Callers are the coroutines that ask for a reply, a command's meaning or *)
(* an eager load.  A loader is the coroutine ensureLoaded() launches,      *)
(* together with the CompletableDeferred its callers await.  A timer is a  *)
(* coroutine scheduleIdleUnload() launches.  Each step of theirs touches   *)
(* shared state once; loadMutex guards only code that cannot suspend, so   *)
(* its critical sections are single steps.                                 *)
(***************************************************************************)
EXTENDS Naturals, FiniteSets

CONSTANTS
  Callers,        \* concurrent users of the facade
  Loaders,        \* load coroutines alive at a time (bound)
  Timers,         \* idle timers alive at a time (bound)
  Kinds,          \* what callers ask for: "load", "reply", "interpret"
  LoadOutcomes    \* how SmolLM.load may end: "ok", "exception", "error"

ASSUME FacadeAssumption ==
  /\ Kinds \subseteq {"load", "reply", "interpret"} /\ Kinds # {}
  /\ LoadOutcomes \subseteq {"ok", "exception", "error"}
  /\ Callers \cap Loaders = {} /\ Callers \cap Timers = {} /\ Loaders \cap Timers = {}

VARIABLES
  state,      \* AgentLLMFacade.state
  native,     \* SmolLM.nativePtr: "open" when it is not 0
  leaked,     \* a native context was overwritten without being closed
  path,       \* cachedModelPath is not blank
  lock,       \* the owner of the JNI lock, or none
  deferred,   \* loadDeferred: the loader to join, or none
  idleJob,    \* idleUnloadJob: the timer it refers to, or none
  pc,         \* where each caller, loader and timer is
  kind,       \* what each caller asked for
  awaits,     \* the loader each caller is waiting for, or none
  result,     \* what each loader will complete its deferred with
  died        \* the process was killed inside a native call

vars == <<state, native, leaked, path, lock, deferred, idleJob, pc, kind,
          awaits, result, died>>

Threads == Callers \cup Loaders \cup Timers

CallerPhases == {"idle", "cancelled", "join", "await", "ready", "using",
                 "cancel_old", "relaunch"}
LoaderPhases == {"free", "start", "loading", "loaded", "warming", "warm_up",
                 "warmed", "clear", "complete", "dead"}
TimerPhases  == {"free", "delay", "fired", "locking", "closed", "forget"}

TypeOK ==
  /\ state \in {"NOT_LOADED", "LOADING", "WARMING", "READY", "ERROR"}
  /\ native \in {"open", "closed"}
  /\ leaked \in BOOLEAN
  /\ path \in BOOLEAN
  /\ lock \subseteq Threads
  /\ deferred \subseteq Loaders
  /\ idleJob \subseteq Timers
  /\ pc \in [Threads -> CallerPhases \cup LoaderPhases \cup TimerPhases]
  /\ \A c \in Callers : pc[c] \in CallerPhases
  /\ \A l \in Loaders : pc[l] \in LoaderPhases
  /\ \A t \in Timers : pc[t] \in TimerPhases
  /\ kind \in [Callers -> {"load", "reply", "interpret"}]
  /\ awaits \in [Callers -> SUBSET Loaders]
  /\ result \in [Loaders -> BOOLEAN]
  /\ died \in BOOLEAN

Init ==
  /\ state = "NOT_LOADED"
  /\ native = "closed"
  /\ leaked = FALSE
  /\ path = FALSE
  /\ lock = {}
  /\ deferred = {}
  /\ idleJob = {}
  /\ pc = [x \in Threads |-> IF x \in Callers THEN "idle" ELSE "free"]
  /\ kind = [c \in Callers |-> CHOOSE k \in Kinds : TRUE]
  /\ awaits = [c \in Callers |-> {}]
  /\ result = [l \in Loaders |-> FALSE]
  /\ died = FALSE

\* A name for a new coroutine, the same one whenever the same ones are taken.
Fresh(xs) == CHOOSE x \in xs : pc[x] = "free"
Room(xs)  == \E x \in xs : pc[x] = "free"

Move(x, from, to) == pc[x] = from /\ pc' = [pc EXCEPT ![x] = to]

\* Job.cancel() stops a timer that is still in its delay; past it nothing in
\* unloadModel() can be cancelled.
Cancelled(old) ==
  [x \in Threads |-> IF x \in old /\ pc[x] = "delay" THEN "free" ELSE pc[x]]

\* verifyHandle() is an assert, which Android leaves off, and the native code
\* takes nativePtr as it comes: a call while it is 0 kills the process.
CallNative == died' = (native = "closed")

-----------------------------------------------------------------------------
(* The service has resolved the model's path. *)
StoreModelPath ==
  /\ ~path
  /\ path' = TRUE
  /\ UNCHANGED <<state, native, leaked, lock, deferred, idleJob, pc, kind,
                 awaits, result, died>>

-----------------------------------------------------------------------------
(* ensureLoaded *)

\* idleUnloadJob?.cancel()
Enter(c) ==
  /\ pc[c] = "idle"
  /\ pc' = [Cancelled(idleJob) EXCEPT ![c] = "cancelled"]
  /\ \E k \in Kinds : kind' = [kind EXCEPT ![c] = k]
  /\ UNCHANGED <<state, native, leaked, path, lock, deferred, idleJob, awaits,
                 result, died>>

\* What a caller does once ensureLoaded() returned true.
AfterLoad(c) == IF kind[c] = "load" THEN "idle" ELSE "ready"

\* idleUnloadJob = null, and the first look at state.
FirstCheck(c) ==
  /\ Move(c, "cancelled", IF state = "READY" THEN AfterLoad(c) ELSE "join")
  /\ idleJob' = {}
  /\ UNCHANGED <<state, native, leaked, path, lock, deferred, kind, awaits,
                 result, died>>

\* Mutant: a caller never joins a load that is in progress.
JoinNeverShares(c) ==
  /\ state # "READY" /\ path
  /\ pc[c] = "join" /\ Room(Loaders)
  /\ pc' = [pc EXCEPT ![c] = "await", ![Fresh(Loaders)] = "start"]
  /\ deferred' = {Fresh(Loaders)}
  /\ awaits' = [awaits EXCEPT ![c] = {Fresh(Loaders)}]
  /\ UNCHANGED <<state, native, leaked, path, lock, idleJob, kind, result,
                 died>>

\* The section under loadMutex: look again, join a load, give up without a
\* path, or launch a load.
Join(c) ==
  \/ /\ state = "READY"
     /\ Move(c, "join", AfterLoad(c))
     /\ UNCHANGED <<state, native, leaked, path, lock, deferred, idleJob, kind,
                    awaits, result, died>>
  \/ /\ state # "READY" /\ deferred # {}
     /\ Move(c, "join", "await")
     /\ awaits' = [awaits EXCEPT ![c] = deferred]
     /\ UNCHANGED <<state, native, leaked, path, lock, deferred, idleJob, kind,
                    result, died>>
  \/ /\ state # "READY" /\ deferred = {} /\ ~path
     /\ Move(c, "join", "idle")
     /\ UNCHANGED <<state, native, leaked, path, lock, deferred, idleJob, kind,
                    awaits, result, died>>
  \/ /\ state # "READY" /\ deferred = {} /\ path
     /\ pc[c] = "join" /\ Room(Loaders)
     /\ pc' = [pc EXCEPT ![c] = "await", ![Fresh(Loaders)] = "start"]
     /\ deferred' = {Fresh(Loaders)}
     /\ awaits' = [awaits EXCEPT ![c] = {Fresh(Loaders)}]
     /\ UNCHANGED <<state, native, leaked, path, lock, idleJob, kind, result,
                    died>>

-----------------------------------------------------------------------------
(* doLoad, and what the launched coroutine does after it *)

StartLoad(l) ==
  /\ IF state \in {"LOADING", "WARMING"}
     THEN /\ Move(l, "start", "clear")
          /\ result' = [result EXCEPT ![l] = FALSE]
          /\ UNCHANGED state
     ELSE /\ Move(l, "start", "loading")
          /\ state' = "LOADING"
          /\ UNCHANGED result
  /\ UNCHANGED <<native, leaked, path, lock, deferred, idleJob, kind, awaits,
                 died>>

\* SmolLM.load runs without the lock and assigns nativePtr at its end.
LoadNative(l) ==
  /\ "ok" \in LoadOutcomes
  /\ Move(l, "loading", "loaded")
  /\ native' = "open"
  /\ leaked' = (leaked \/ native = "open")
  /\ UNCHANGED <<state, path, lock, deferred, idleJob, kind, awaits, result,
                 died>>

\* Mutant: the exception leaves doLoad.
LoadThrowsUncaught(l) ==
  /\ "exception" \in LoadOutcomes
  /\ Move(l, "loading", "dead")
  /\ state' = "ERROR"
  /\ UNCHANGED <<native, leaked, path, lock, deferred, idleJob, kind, awaits,
                 result, died>>

LoadThrows(l) ==
  /\ "exception" \in LoadOutcomes
  /\ Move(l, "loading", "clear")
  /\ state' = "ERROR"
  /\ result' = [result EXCEPT ![l] = FALSE]
  /\ UNCHANGED <<native, leaked, path, lock, deferred, idleJob, kind, awaits,
                 died>>

\* An Error passes catch (e: Exception): the coroutine ends there.
LoadDies(l) ==
  /\ "error" \in LoadOutcomes
  /\ Move(l, "loading", "dead")
  /\ UNCHANGED <<state, native, leaked, path, lock, deferred, idleJob, kind,
                 awaits, result, died>>

SetWarming(l) ==
  /\ Move(l, "loaded", "warming")
  /\ state' = "WARMING"
  /\ UNCHANGED <<native, leaked, path, lock, deferred, idleJob, kind, awaits,
                 result, died>>

WarmUp(l) ==
  /\ lock = {}
  /\ Move(l, "warming", "warm_up")
  /\ lock' = {l}
  /\ CallNative
  /\ UNCHANGED <<state, native, leaked, path, deferred, idleJob, kind, awaits,
                 result>>

\* Whatever the warm-up threw was swallowed.
WarmedUp(l) ==
  /\ Move(l, "warm_up", "warmed")
  /\ lock' = {}
  /\ UNCHANGED <<state, native, leaked, path, deferred, idleJob, kind, awaits,
                 result, died>>

SetReady(l) ==
  /\ Move(l, "warmed", "clear")
  /\ state' = "READY"
  /\ result' = [result EXCEPT ![l] = TRUE]
  /\ UNCHANGED <<native, leaked, path, lock, deferred, idleJob, kind, awaits,
                 died>>

ClearDeferred(l) ==
  /\ Move(l, "clear", "complete")
  /\ deferred' = {}
  /\ UNCHANGED <<state, native, leaked, path, lock, idleJob, kind, awaits,
                 result, died>>

\* Mutant: the waiters are ended together with the load coroutine.
CompleteEndsWaiters(l) ==
  /\ pc[l] = "complete"
  /\ pc' = [x \in Threads |->
              IF x = l \/ (x \in Callers /\ awaits[x] = {l}) THEN "free" ELSE pc[x]]
  /\ awaits' = [c \in Callers |-> IF awaits[c] = {l} THEN {} ELSE awaits[c]]
  /\ UNCHANGED <<state, native, leaked, path, lock, deferred, idleJob, kind,
                 result, died>>

\* d.complete(result): everyone who awaits this deferred goes on.
Complete(l) ==
  /\ pc[l] = "complete"
  /\ pc' = [x \in Threads |->
              CASE x = l -> "free"
                [] x \in Callers /\ pc[x] = "await" /\ awaits[x] = {l} ->
                     IF result[l] THEN AfterLoad(x) ELSE "idle"
                [] OTHER -> pc[x]]
  /\ awaits' = [c \in Callers |-> IF awaits[c] = {l} THEN {} ELSE awaits[c]]
  /\ UNCHANGED <<state, native, leaked, path, lock, deferred, idleJob, kind,
                 result, died>>

-----------------------------------------------------------------------------
(* generateSmsReply, generateChatReply and interpretCommand, once loaded *)

\* Mutant: the model is used without the lock.
UseModelUnlocked(c) ==
  /\ Move(c, "ready", "using")
  /\ CallNative
  /\ UNCHANGED <<state, native, leaked, path, lock, deferred, idleJob, kind,
                 awaits, result>>

\* lock.withLock: addSystemPrompt and getResponse on nativePtr.
UseModel(c) ==
  /\ lock = {}
  /\ Move(c, "ready", "using")
  /\ lock' = {c}
  /\ CallNative
  /\ UNCHANGED <<state, native, leaked, path, deferred, idleJob, kind, awaits,
                 result>>

\* The generation returns or throws.  Only interpretCommand leaves without
\* scheduling the timer when it throws.
ModelDone(c) ==
  /\ \/ Move(c, "using", "cancel_old")
     \/ kind[c] = "interpret" /\ Move(c, "using", "idle")
  /\ lock' = {}
  /\ UNCHANGED <<state, native, leaked, path, deferred, idleJob, kind, awaits,
                 result, died>>

\* scheduleIdleUnload: cancel the old timer, then launch and store a new one.
CancelOld(c) ==
  /\ pc[c] = "cancel_old"
  /\ pc' = [Cancelled(idleJob) EXCEPT ![c] = "relaunch"]
  /\ UNCHANGED <<state, native, leaked, path, lock, deferred, idleJob, kind,
                 awaits, result, died>>

\* Mutant: a timer that is remembered is not replaced.
RelaunchOnlyIfNone(c) ==
  /\ pc[c] = "relaunch" /\ Room(Timers)
  /\ \/ /\ idleJob = {}
        /\ pc' = [pc EXCEPT ![c] = "idle", ![Fresh(Timers)] = "delay"]
        /\ idleJob' = {Fresh(Timers)}
     \/ /\ idleJob # {}
        /\ pc' = [pc EXCEPT ![c] = "idle"]
        /\ UNCHANGED idleJob
  /\ UNCHANGED <<state, native, leaked, path, lock, deferred, kind, awaits,
                 result, died>>

Relaunch(c) ==
  /\ pc[c] = "relaunch" /\ Room(Timers)
  /\ pc' = [pc EXCEPT ![c] = "idle", ![Fresh(Timers)] = "delay"]
  /\ idleJob' = {Fresh(Timers)}
  /\ UNCHANGED <<state, native, leaked, path, lock, deferred, kind, awaits,
                 result, died>>

-----------------------------------------------------------------------------
(* The idle timer, and unloadModel *)

Fire(t) ==
  /\ Move(t, "delay", "fired")
  /\ UNCHANGED <<state, native, leaked, path, lock, deferred, idleJob, kind,
                 awaits, result, died>>

CheckLoaded(t) ==
  /\ Move(t, "fired", IF state = "NOT_LOADED" THEN "free" ELSE "locking")
  /\ UNCHANGED <<state, native, leaked, path, lock, deferred, idleJob, kind,
                 awaits, result, died>>

CloseNative(t) ==
  /\ lock = {}
  /\ Move(t, "locking", "closed")
  /\ lock' = {t}
  /\ native' = "closed"
  /\ UNCHANGED <<state, leaked, path, deferred, idleJob, kind, awaits, result,
                 died>>

SetNotLoaded(t) ==
  /\ Move(t, "closed", "forget")
  /\ state' = "NOT_LOADED"
  /\ lock' = {}
  /\ UNCHANGED <<native, leaked, path, deferred, idleJob, kind, awaits, result,
                 died>>

\* idleUnloadJob = null, whichever timer it refers to by now.
ForgetJob(t) ==
  /\ Move(t, "forget", "free")
  /\ idleJob' = {}
  /\ UNCHANGED <<state, native, leaked, path, lock, deferred, kind, awaits,
                 result, died>>

-----------------------------------------------------------------------------
CallerStep(c) ==
  FirstCheck(c) \/ Join(c) \/ UseModel(c) \/ ModelDone(c) \/ CancelOld(c)
    \/ Relaunch(c)

LoaderStep(l) ==
  StartLoad(l) \/ LoadNative(l) \/ LoadThrows(l) \/ LoadDies(l)
    \/ SetWarming(l) \/ WarmUp(l) \/ WarmedUp(l) \/ SetReady(l)
    \/ ClearDeferred(l) \/ Complete(l)

TimerStep(t) ==
  Fire(t) \/ CheckLoaded(t) \/ CloseNative(t) \/ SetNotLoaded(t) \/ ForgetJob(t)

Next ==
  /\ ~died
  /\ \/ StoreModelPath
     \/ \E c \in Callers : Enter(c) \/ CallerStep(c)
     \/ \E l \in Loaders : LoaderStep(l)
     \/ \E t \in Timers : TimerStep(t)

Spec == Init /\ [][Next]_vars

-----------------------------------------------------------------------------
(* Properties *)

Loading == {l \in Loaders : pc[l] \in {"loading", "loaded", "warming",
                                       "warm_up", "warmed"}}

\* Header of AgentLLMFacade, "only one native load runs at a time", and no
\* load overwrites a native context that is still open.
OneLoadAtATime == Cardinality(Loading) <= 1 /\ ~leaked

\* "SmolLM native context is NOT thread-safe": generating, warming up and
\* closing never overlap.
NativeCallsExclude ==
  Cardinality({x \in Threads : pc[x] \in {"using", "warm_up", "closed"}}) <= 1

\* The comment in unloadModel, generation callers "see NOT_LOADED before they
\* call smolLM.getResponse() on a closed native handle": whoever is inside a
\* native call has an open handle.
NoUseAfterClose ==
  \A x \in Threads : pc[x] \in {"using", "warm_up"} => native = "open"
=============================================================================
