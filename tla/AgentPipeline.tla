---------------------------- MODULE AgentPipeline ----------------------------
(***************************************************************************)
(* MessageEngine and LLMFacade together: a handler that needs the model    *)
(* calls the facade and stays where it is, messageMutex in hand if it has  *)
(* it, until the facade returns.  Every handler is a caller of the facade; *)
(* the loads and the idle timer go on between messages.                    *)
(***************************************************************************)
EXTENDS MessageEngine

CONSTANTS Loaders, Timers, LoadOutcomes     \* as in LLMFacade

VARIABLES state, native, leaked, path, lock, deferred, idleJob, fpc, kind,
          awaits, result, died,             \* LLMFacade's, its pc as fpc
          called,    \* the handlers that are inside a call of the facade
          noTimer    \* history: the last use of the model started no timer

facadeVars == <<state, native, leaked, path, lock, deferred, idleJob, fpc, kind,
                awaits, result, died>>
engineVars == <<msg, pc, trusted, holder, session, pending, channels, behavior,
                paused, outcome, armed, released, loggedIn>>
allVars    == <<engineVars, facadeVars, called, noTimer>>

F == INSTANCE LLMFacade WITH Callers <- Ids, pc <- fpc,
                             Kinds <- {"reply", "interpret"}

ModelPhases == {"interpret", "chatting", "drafting"}

PipelineInit ==
  /\ Init /\ F!Init
  /\ called = {} /\ noTimer = FALSE

-----------------------------------------------------------------------------
\* interpretCommand, generateChatReply or generateSmsReply is entered.
CallModel(m) ==
  /\ ~died
  /\ pc[m] \in ModelPhases /\ m \notin called
  /\ F!Enter(m)
  /\ kind'[m] = IF pc[m] = "interpret" THEN "interpret" ELSE "reply"
  /\ called' = called \cup {m}
  /\ UNCHANGED <<engineVars, noTimer>>

\* The handler goes on; in a phase of the model, once the call is over.
HandlerStep(m) ==
  /\ ~died
  /\ Handle(m)
  /\ pc[m] \in ModelPhases => m \in called /\ fpc[m] = "idle"
  /\ called' = called \ {m}
  /\ UNCHANGED <<facadeVars, noTimer>>

\* A caller inside the facade.
FacadeStep(m) ==
  /\ ~died
  /\ F!CallerStep(m)
  /\ noTimer' = CASE fpc[m] = "relaunch" -> FALSE
                  [] fpc[m] = "using" /\ fpc'[m] = "idle" -> TRUE
                  [] OTHER -> noTimer
  /\ UNCHANGED <<engineVars, called>>

Background ==
  /\ ~died
  /\ F!StoreModelPath \/ (\E l \in Loaders : F!LoaderStep(l))
       \/ (\E t \in Timers : F!TimerStep(t))
  /\ UNCHANGED <<engineVars, called, noTimer>>

\* A message comes in.  The clock and the pause switch decide only how, and stay
\* with MessageEngine.
Arrival(m) ==
  /\ ~died
  /\ Receive(m)
  /\ UNCHANGED <<facadeVars, called, noTimer>>

PipelineNext ==
  \/ \E m \in Ids : Arrival(m) \/ CallModel(m) \/ HandlerStep(m) \/ FacadeStep(m)
  \/ Background

PipelineSpec == PipelineInit /\ [][PipelineNext]_allVars

\* The IO dispatcher runs every coroutine that can run; a delay ends, a native
\* call returns (generation is bounded by the context size), and a thread that
\* waits for the JNI lock gets it in the end.
PipelineFairSpec ==
  /\ PipelineSpec
  /\ \A m \in Ids :
       WF_allVars(CallModel(m) \/ HandlerStep(m) \/ FacadeStep(m))
         /\ SF_allVars(F!UseModel(m) /\ FacadeStep(m))
  /\ \A l \in Loaders : WF_allVars(F!LoaderStep(l) /\ Background)
                          /\ SF_allVars(F!WarmUp(l) /\ Background)
  /\ \A t \in Timers : WF_allVars(F!TimerStep(t) /\ Background)
                         /\ SF_allVars(F!CloseNative(t) /\ Background)

-----------------------------------------------------------------------------
(* Properties *)

\* Whatever reaches the engine is answered for: its handler returns, and with
\* it the mutex, though it waits for the model in between, whatever loads fail
\* and whoever joins whose load.  (AgentLLMFacade: "all waiters unblock when it
\* finishes".)  It is left unanswered in one case only: somebody called the
\* model after the idle timer closed it (see NoUseAfterClose), and the process
\* is gone.
EveryMessageHandled ==
  \A m \in Ids : pc[m] # "new" ~> pc[m] = "done" \/ died

\* "If no new message arrives in that window the model is unloaded (RAM
\* freed)": when the handlers are done for good, the model ends up closed,
\* unless the last use was an interpretCommand that threw, which starts no timer.
IdleModelUnloads ==
  <>[](\A m \in Ids : fpc[m] = "idle") => <>[](native = "closed" \/ noTimer)
=============================================================================
