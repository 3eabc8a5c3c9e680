--------------------------- MODULE LLMFacadeProofs ---------------------------
(***************************************************************************)
(* Theorems about AgentLLMFacade, for any number of callers, loads and     *)
(* timers: its types, the exclusion of native calls by the JNI lock, and   *)
(* that one load runs at a time and leaks no native context.               *)
(***************************************************************************)
EXTENDS LLMFacade, FiniteSetTheorems, TLAPS

\* A new coroutine is one of those that are not running.
LEMMA FreshIsFree ==
  ASSUME NEW xs, Room(xs)
  PROVE  Fresh(xs) \in xs /\ pc[Fresh(xs)] = "free"
BY DEF Room, Fresh

-----------------------------------------------------------------------------
(* Types *)

\* The initial state is well typed; a caller's kind is one of those it can ask
\* for because there is at least one.
LEMMA InitType == Init => TypeOK
<1>1. (CHOOSE k \in Kinds : TRUE) \in {"load", "reply", "interpret"}
  BY FacadeAssumption
<1>. QED
  BY <1>1, FacadeAssumption
     DEF Init, TypeOK, Threads, CallerPhases, LoaderPhases, TimerPhases


\* Every step keeps every variable in its type.
LEMMA StepType == TypeOK /\ [Next]_vars => TypeOK'
<1>. SUFFICES ASSUME TypeOK, [Next]_vars PROVE TypeOK'
  OBVIOUS
<1>. USE FacadeAssumption
     DEF TypeOK, Threads, CallerPhases, LoaderPhases, TimerPhases
<1>1. CASE StoreModelPath
  BY <1>1 DEF StoreModelPath
<1>2. ASSUME NEW c \in Callers, Enter(c) PROVE TypeOK'
  BY <1>2 DEF Enter, Cancelled
<1>3. ASSUME NEW c \in Callers, FirstCheck(c) PROVE TypeOK'
  BY <1>3 DEF FirstCheck, AfterLoad, Move
<1>4. ASSUME NEW c \in Callers, Join(c) PROVE TypeOK'
  BY <1>4, FreshIsFree DEF Join, AfterLoad, Move
<1>5. ASSUME NEW c \in Callers, UseModel(c) PROVE TypeOK'
  BY <1>5 DEF UseModel, CallNative, Move
<1>6. ASSUME NEW c \in Callers, ModelDone(c) PROVE TypeOK'
  BY <1>6 DEF ModelDone, Move
<1>7. ASSUME NEW c \in Callers, CancelOld(c) PROVE TypeOK'
  BY <1>7 DEF CancelOld, Cancelled
<1>8. ASSUME NEW c \in Callers, Relaunch(c) PROVE TypeOK'
  BY <1>8, FreshIsFree DEF Relaunch
<1>9. ASSUME NEW l \in Loaders, StartLoad(l) PROVE TypeOK'
  <2>1. CASE state \in {"LOADING", "WARMING"}
    <3>1. /\ pc' = [pc EXCEPT ![l] = "clear"]
          /\ result' = [result EXCEPT ![l] = FALSE]
          /\ UNCHANGED <<state, native, leaked, path, lock, deferred,
                         idleJob, kind, awaits, died>>
      BY <1>9, <2>1 DEF StartLoad, Move
    <3>. QED BY <3>1
  <2>2. CASE state \notin {"LOADING", "WARMING"}
    BY <1>9, <2>2 DEF StartLoad, Move
  <2>. QED BY <2>1, <2>2
<1>10. ASSUME NEW l \in Loaders, LoadNative(l) PROVE TypeOK'
  BY <1>10 DEF LoadNative, Move
<1>11. ASSUME NEW l \in Loaders, LoadThrows(l) PROVE TypeOK'
  BY <1>11 DEF LoadThrows, Move
<1>12. ASSUME NEW l \in Loaders, LoadDies(l) PROVE TypeOK'
  BY <1>12 DEF LoadDies, Move
<1>13. ASSUME NEW l \in Loaders, SetWarming(l) PROVE TypeOK'
  BY <1>13 DEF SetWarming, Move
<1>14. ASSUME NEW l \in Loaders, WarmUp(l) PROVE TypeOK'
  BY <1>14 DEF WarmUp, CallNative, Move
<1>15. ASSUME NEW l \in Loaders, WarmedUp(l) PROVE TypeOK'
  BY <1>15 DEF WarmedUp, Move
<1>16. ASSUME NEW l \in Loaders, SetReady(l) PROVE TypeOK'
  BY <1>16 DEF SetReady, Move
<1>17. ASSUME NEW l \in Loaders, ClearDeferred(l) PROVE TypeOK'
  BY <1>17 DEF ClearDeferred, Move
<1>18. ASSUME NEW l \in Loaders, Complete(l) PROVE TypeOK'
  BY <1>18 DEF Complete, AfterLoad
<1>19. ASSUME NEW t \in Timers, Fire(t) PROVE TypeOK'
  BY <1>19 DEF Fire, Move
<1>20. ASSUME NEW t \in Timers, CheckLoaded(t) PROVE TypeOK'
  BY <1>20 DEF CheckLoaded, Move
<1>21. ASSUME NEW t \in Timers, CloseNative(t) PROVE TypeOK'
  BY <1>21 DEF CloseNative, Move
<1>22. ASSUME NEW t \in Timers, SetNotLoaded(t) PROVE TypeOK'
  BY <1>22 DEF SetNotLoaded, Move
<1>23. ASSUME NEW t \in Timers, ForgetJob(t) PROVE TypeOK'
  BY <1>23 DEF ForgetJob, Move
<1>24. CASE UNCHANGED vars
  BY <1>24 DEF vars
<1>. QED
  BY <1>1, <1>2, <1>3, <1>4, <1>5, <1>6, <1>7, <1>8, <1>9, <1>10, <1>11,
     <1>12, <1>13, <1>14, <1>15, <1>16, <1>17, <1>18, <1>19, <1>20, <1>21,
     <1>22, <1>23, <1>24
     DEF Next, CallerStep, LoaderStep, TimerStep

\* AgentLLMFacade's variables keep their types: each coroutine is always at a
\* place of its own code, the lock, the deferred and the timer it refers to are
\* its own.
THEOREM TypeCorrect == Spec => []TypeOK
BY InitType, StepType, PTL DEF Spec

\* How the two bounds on a number of coroutines are concluded.
LEMMA AtMostOne ==
  ASSUME NEW S, S = {} \/ \E x : S = {x}
  PROVE  Cardinality(S) <= 1
<1>1. CASE S = {}
  BY <1>1, FS_EmptySet
<1>2. ASSUME NEW x, S = {x} PROVE Cardinality(S) <= 1
  BY <1>2, FS_Singleton
<1>. QED BY <1>1, <1>2

-----------------------------------------------------------------------------
(* The JNI lock *)

\* The steps at which a thread is inside SmolLM.
Native == {"using", "warm_up", "closed"}

\* Whoever is inside a native call owns the lock.
LockInv == \A x \in Threads : pc[x] \in Native => lock = {x}

\* A step that gives a coroutine no native call and takes the lock from nobody
\* inside one keeps the owners right.
LEMMA LockInvStep == TypeOK /\ LockInv /\ [Next]_vars => LockInv'
<1>. SUFFICES ASSUME TypeOK, LockInv, [Next]_vars PROVE LockInv'
  OBVIOUS
<1>. USE FacadeAssumption DEF TypeOK, LockInv, Native, Threads
<1>1. CASE StoreModelPath
  BY <1>1 DEF StoreModelPath
<1>2. ASSUME NEW c \in Callers, Enter(c) PROVE LockInv'
  BY <1>2 DEF Enter, Cancelled
<1>3. ASSUME NEW c \in Callers, FirstCheck(c) PROVE LockInv'
  BY <1>3 DEF FirstCheck, AfterLoad, Move
<1>4. ASSUME NEW c \in Callers, Join(c) PROVE LockInv'
  BY <1>4, FreshIsFree DEF Join, AfterLoad, Move
<1>5. ASSUME NEW c \in Callers, UseModel(c) PROVE LockInv'
  BY <1>5 DEF UseModel, Move
<1>6. ASSUME NEW c \in Callers, ModelDone(c) PROVE LockInv'
  BY <1>6 DEF ModelDone, Move
<1>7. ASSUME NEW c \in Callers, CancelOld(c) PROVE LockInv'
  BY <1>7 DEF CancelOld, Cancelled
<1>8. ASSUME NEW c \in Callers, Relaunch(c) PROVE LockInv'
  BY <1>8, FreshIsFree DEF Relaunch
<1>9. ASSUME NEW l \in Loaders, StartLoad(l) PROVE LockInv'
  BY <1>9 DEF StartLoad, Move
<1>10. ASSUME NEW l \in Loaders, LoadNative(l) PROVE LockInv'
  BY <1>10 DEF LoadNative, Move
<1>11. ASSUME NEW l \in Loaders, LoadThrows(l) PROVE LockInv'
  BY <1>11 DEF LoadThrows, Move
<1>12. ASSUME NEW l \in Loaders, LoadDies(l) PROVE LockInv'
  BY <1>12 DEF LoadDies, Move
<1>13. ASSUME NEW l \in Loaders, SetWarming(l) PROVE LockInv'
  BY <1>13 DEF SetWarming, Move
<1>14. ASSUME NEW l \in Loaders, WarmUp(l) PROVE LockInv'
  BY <1>14 DEF WarmUp, Move
<1>15. ASSUME NEW l \in Loaders, WarmedUp(l) PROVE LockInv'
  BY <1>15 DEF WarmedUp, Move
<1>16. ASSUME NEW l \in Loaders, SetReady(l) PROVE LockInv'
  BY <1>16 DEF SetReady, Move
<1>17. ASSUME NEW l \in Loaders, ClearDeferred(l) PROVE LockInv'
  BY <1>17 DEF ClearDeferred, Move
<1>18. ASSUME NEW l \in Loaders, Complete(l) PROVE LockInv'
  BY <1>18 DEF Complete, AfterLoad
<1>19. ASSUME NEW t \in Timers, Fire(t) PROVE LockInv'
  BY <1>19 DEF Fire, Move
<1>20. ASSUME NEW t \in Timers, CheckLoaded(t) PROVE LockInv'
  BY <1>20 DEF CheckLoaded, Move
<1>21. ASSUME NEW t \in Timers, CloseNative(t) PROVE LockInv'
  BY <1>21 DEF CloseNative, Move
<1>22. ASSUME NEW t \in Timers, SetNotLoaded(t) PROVE LockInv'
  BY <1>22 DEF SetNotLoaded, Move
<1>23. ASSUME NEW t \in Timers, ForgetJob(t) PROVE LockInv'
  BY <1>23 DEF ForgetJob, Move
<1>24. CASE UNCHANGED vars
  BY <1>24 DEF vars
<1>. QED
  BY <1>1, <1>2, <1>3, <1>4, <1>5, <1>6, <1>7, <1>8, <1>9, <1>10, <1>11,
     <1>12, <1>13, <1>14, <1>15, <1>16, <1>17, <1>18, <1>19, <1>20, <1>21,
     <1>22, <1>23, <1>24
     DEF Next, CallerStep, LoaderStep, TimerStep

\* "SmolLM native context is NOT thread-safe": at most one coroutine is
\* generating, warming up or closing, however many use the facade.
THEOREM NativeExclusion == Spec => []NativeCallsExclude
<1>1. Init => LockInv
  BY DEF Init, LockInv, Native
<1>2. LockInv => NativeCallsExclude
  <2>. SUFFICES ASSUME LockInv PROVE NativeCallsExclude
    OBVIOUS
  <2>. DEFINE Inside == {x \in Threads : pc[x] \in Native}
  <2>1. Inside \subseteq lock /\ (Inside = {} \/ \E x : lock = {x})
    BY DEF LockInv
  <2>2. Inside = {} \/ \E x : Inside = {x}
    BY <2>1
  <2>3. Cardinality(Inside) <= 1
    BY <2>2, AtMostOne
  <2>. QED BY <2>3 DEF NativeCallsExclude, Native
<1>. QED BY <1>1, <1>2, LockInvStep, TypeCorrect, PTL DEF Spec

-----------------------------------------------------------------------------
(* Loading *)

\* A load that has not cleared loadDeferred is the one it refers to.
LoadInv == \A l \in Loaders : pc[l] \notin {"free", "complete"} => deferred = {l}

\* The phases in which a load has opened the native context and not yet said so.
Opened == {"loaded", "warming", "warm_up", "warmed"}

\* A load finds the native context closed; while it is open and state is not
\* READY, some load is about to say READY; and when it was opened again behind
\* a timer that is closing it, that load has not passed the timer's lock yet,
\* so its READY comes after the timer's NOT_LOADED.
NativeInv ==
  /\ \A l \in Loaders : pc[l] \in {"start", "loading"} => native = "closed"
  /\ native = "open" /\ state # "READY" => \E l \in Loaders : pc[l] \in Opened
  /\ \A t \in Timers : pc[t] = "closed" /\ native = "open" =>
       \E l \in Loaders : pc[l] \in {"loaded", "warming"}
  /\ ~leaked

\* Only Join makes a loader leave "free", and it does so when no deferred is
\* there; only the loader itself clears the deferred.
LEMMA LoadInvStep == TypeOK /\ LoadInv /\ [Next]_vars => LoadInv'
<1>. SUFFICES ASSUME TypeOK, LoadInv, [Next]_vars PROVE LoadInv'
  OBVIOUS
<1>. USE FacadeAssumption DEF TypeOK, LoadInv, Threads
<1>1. CASE StoreModelPath
  BY <1>1 DEF StoreModelPath
<1>2. ASSUME NEW c \in Callers, Enter(c) PROVE LoadInv'
  BY <1>2 DEF Enter, Cancelled
<1>3. ASSUME NEW c \in Callers, FirstCheck(c) PROVE LoadInv'
  BY <1>3 DEF FirstCheck, AfterLoad, Move
<1>4. ASSUME NEW c \in Callers, Join(c) PROVE LoadInv'
  BY <1>4, FreshIsFree DEF Join, AfterLoad, Move
<1>5. ASSUME NEW c \in Callers, UseModel(c) PROVE LoadInv'
  BY <1>5 DEF UseModel, Move
<1>6. ASSUME NEW c \in Callers, ModelDone(c) PROVE LoadInv'
  BY <1>6 DEF ModelDone, Move
<1>7. ASSUME NEW c \in Callers, CancelOld(c) PROVE LoadInv'
  BY <1>7 DEF CancelOld, Cancelled
<1>8. ASSUME NEW c \in Callers, Relaunch(c) PROVE LoadInv'
  BY <1>8, FreshIsFree DEF Relaunch
<1>9. ASSUME NEW l \in Loaders, StartLoad(l) PROVE LoadInv'
  BY <1>9 DEF StartLoad, Move
<1>10. ASSUME NEW l \in Loaders, LoadNative(l) PROVE LoadInv'
  BY <1>10 DEF LoadNative, Move
<1>11. ASSUME NEW l \in Loaders, LoadThrows(l) PROVE LoadInv'
  BY <1>11 DEF LoadThrows, Move
<1>12. ASSUME NEW l \in Loaders, LoadDies(l) PROVE LoadInv'
  BY <1>12 DEF LoadDies, Move
<1>13. ASSUME NEW l \in Loaders, SetWarming(l) PROVE LoadInv'
  BY <1>13 DEF SetWarming, Move
<1>14. ASSUME NEW l \in Loaders, WarmUp(l) PROVE LoadInv'
  BY <1>14 DEF WarmUp, Move
<1>15. ASSUME NEW l \in Loaders, WarmedUp(l) PROVE LoadInv'
  BY <1>15 DEF WarmedUp, Move
<1>16. ASSUME NEW l \in Loaders, SetReady(l) PROVE LoadInv'
  BY <1>16 DEF SetReady, Move
<1>17. ASSUME NEW l \in Loaders, ClearDeferred(l) PROVE LoadInv'
  BY <1>17 DEF ClearDeferred, Move
<1>18. ASSUME NEW l \in Loaders, Complete(l) PROVE LoadInv'
  BY <1>18 DEF Complete, AfterLoad
<1>19. ASSUME NEW t \in Timers, Fire(t) PROVE LoadInv'
  BY <1>19 DEF Fire, Move
<1>20. ASSUME NEW t \in Timers, CheckLoaded(t) PROVE LoadInv'
  BY <1>20 DEF CheckLoaded, Move
<1>21. ASSUME NEW t \in Timers, CloseNative(t) PROVE LoadInv'
  BY <1>21 DEF CloseNative, Move
<1>22. ASSUME NEW t \in Timers, SetNotLoaded(t) PROVE LoadInv'
  BY <1>22 DEF SetNotLoaded, Move
<1>23. ASSUME NEW t \in Timers, ForgetJob(t) PROVE LoadInv'
  BY <1>23 DEF ForgetJob, Move
<1>24. CASE UNCHANGED vars
  BY <1>24 DEF vars
<1>. QED
  BY <1>1, <1>2, <1>3, <1>4, <1>5, <1>6, <1>7, <1>8, <1>9, <1>10, <1>11,
     <1>12, <1>13, <1>14, <1>15, <1>16, <1>17, <1>18, <1>19, <1>20, <1>21,
     <1>22, <1>23, <1>24
     DEF Next, CallerStep, LoaderStep, TimerStep

\* The steps that could break it are LoadNative, which opens the context,
\* SetNotLoaded, which takes READY back, and WarmUp, which waits for the lock.
LEMMA NativeInvStep ==
  TypeOK /\ LockInv /\ LoadInv /\ NativeInv /\ [Next]_vars => NativeInv'
<1>. SUFFICES ASSUME TypeOK, LockInv, LoadInv, NativeInv, [Next]_vars
              PROVE  NativeInv'
  OBVIOUS
<1>. USE FacadeAssumption
     DEF TypeOK, LockInv, LoadInv, NativeInv, Native, Opened, Threads
<1>1. CASE StoreModelPath
  BY <1>1 DEF StoreModelPath
<1>2. ASSUME NEW c \in Callers, Enter(c) PROVE NativeInv'
  BY <1>2 DEF Enter, Cancelled
<1>3. ASSUME NEW c \in Callers, FirstCheck(c) PROVE NativeInv'
  BY <1>3 DEF FirstCheck, AfterLoad, Move
<1>4. ASSUME NEW c \in Callers, Join(c) PROVE NativeInv'
  BY <1>4, FreshIsFree DEF Join, AfterLoad, Move
<1>5. ASSUME NEW c \in Callers, UseModel(c) PROVE NativeInv'
  BY <1>5 DEF UseModel, Move
<1>6. ASSUME NEW c \in Callers, ModelDone(c) PROVE NativeInv'
  BY <1>6 DEF ModelDone, Move
<1>7. ASSUME NEW c \in Callers, CancelOld(c) PROVE NativeInv'
  BY <1>7 DEF CancelOld, Cancelled
<1>8. ASSUME NEW c \in Callers, Relaunch(c) PROVE NativeInv'
  BY <1>8, FreshIsFree DEF Relaunch
<1>9. ASSUME NEW l \in Loaders, StartLoad(l) PROVE NativeInv'
  BY <1>9 DEF StartLoad, Move
<1>10. ASSUME NEW l \in Loaders, LoadNative(l) PROVE NativeInv'
  BY <1>10 DEF LoadNative, Move
<1>11. ASSUME NEW l \in Loaders, LoadThrows(l) PROVE NativeInv'
  BY <1>11 DEF LoadThrows, Move
<1>12. ASSUME NEW l \in Loaders, LoadDies(l) PROVE NativeInv'
  BY <1>12 DEF LoadDies, Move
<1>13. ASSUME NEW l \in Loaders, SetWarming(l) PROVE NativeInv'
  BY <1>13 DEF SetWarming, Move
<1>14. ASSUME NEW l \in Loaders, WarmUp(l) PROVE NativeInv'
  BY <1>14 DEF WarmUp, Move
<1>15. ASSUME NEW l \in Loaders, WarmedUp(l) PROVE NativeInv'
  BY <1>15 DEF WarmedUp, Move
<1>16. ASSUME NEW l \in Loaders, SetReady(l) PROVE NativeInv'
  BY <1>16 DEF SetReady, Move
<1>17. ASSUME NEW l \in Loaders, ClearDeferred(l) PROVE NativeInv'
  BY <1>17 DEF ClearDeferred, Move
<1>18. ASSUME NEW l \in Loaders, Complete(l) PROVE NativeInv'
  BY <1>18 DEF Complete, AfterLoad
<1>19. ASSUME NEW t \in Timers, Fire(t) PROVE NativeInv'
  BY <1>19 DEF Fire, Move
<1>20. ASSUME NEW t \in Timers, CheckLoaded(t) PROVE NativeInv'
  BY <1>20 DEF CheckLoaded, Move
<1>21. ASSUME NEW t \in Timers, CloseNative(t) PROVE NativeInv'
  BY <1>21 DEF CloseNative, Move
<1>22. ASSUME NEW t \in Timers, SetNotLoaded(t) PROVE NativeInv'
  BY <1>22 DEF SetNotLoaded, Move
<1>23. ASSUME NEW t \in Timers, ForgetJob(t) PROVE NativeInv'
  BY <1>23 DEF ForgetJob, Move
<1>24. CASE UNCHANGED vars
  BY <1>24 DEF vars
<1>. QED
  BY <1>1, <1>2, <1>3, <1>4, <1>5, <1>6, <1>7, <1>8, <1>9, <1>10, <1>11,
     <1>12, <1>13, <1>14, <1>15, <1>16, <1>17, <1>18, <1>19, <1>20, <1>21,
     <1>22, <1>23, <1>24
     DEF Next, CallerStep, LoaderStep, TimerStep

\* The header's "only one native load runs at a time", and no load overwrites
\* a native context that is still open: loadMutex and loadDeferred admit one
\* load, and the idle timer, which closes under the lock alone, never leaves
\* the context open with a state that lets the next load start.
THEOREM SingleLoad == Spec => []OneLoadAtATime
<1>1. Init => LockInv /\ LoadInv /\ NativeInv
  BY FacadeAssumption DEF Init, LockInv, LoadInv, NativeInv, Native, Threads
<1>2. LoadInv /\ NativeInv => OneLoadAtATime
  <2>. SUFFICES ASSUME LoadInv PROVE Cardinality(Loading) <= 1
    BY DEF NativeInv, OneLoadAtATime
  <2>1. \A x, y \in Loading : x = y
    BY DEF LoadInv, Loading
  <2>2. Loading = {} \/ \E x : Loading = {x}
    BY <2>1
  <2>. QED BY <2>2, AtMostOne
<1>. QED
  BY <1>1, <1>2, LockInvStep, LoadInvStep, NativeInvStep, TypeCorrect, PTL
     DEF Spec
=============================================================================
