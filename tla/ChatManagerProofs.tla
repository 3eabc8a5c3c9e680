-------------------------- MODULE ChatManagerProofs --------------------------
(***************************************************************************)
(* Theorems about SmolLMManager under the chat screen, for any number of   *)
(* load, response and benchmark jobs, of native objects and of user events.*)
(***************************************************************************)
EXTENDS ChatManager, TLAPS

\* A new job gets a name that no running one has.
LEMMA FreshIsFree ==
  ASSUME NEW js, Room(js)
  PROVE  Fresh(js) \in js /\ pc[Fresh(js)] = "free"
BY DEF Room, Fresh

-----------------------------------------------------------------------------
(* Types *)

\* TypeOK in three parts: the flags, the places of the jobs, and the rest.
FlagsOK ==
  /\ generating \in BOOLEAN /\ visible \in BOOLEAN /\ unloaded \in BOOLEAN
  /\ closing \in BOOLEAN /\ loaded \in BOOLEAN /\ inferenceOn \in BOOLEAN
  /\ dead \in BOOLEAN

\* Every coroutine is at a step of its own kind.
PcOK ==
  /\ pc \in [Jobs -> LoadPhases \cup GenPhases \cup BenchPhases]
  /\ \A j \in Loads : pc[j] \in LoadPhases
  /\ \A g \in Gens : pc[g] \in GenPhases
  /\ \A b \in Benches : pc[b] \in BenchPhases

\* The screen, the coroutines in hand, the native objects and the counter.
DataOK ==
  /\ screen \in {"NOT_LOADED", "IN_PROGRESS", "SUCCESS", "FAILURE"}
  /\ initJob \subseteq Loads /\ responseJob \subseteq Gens
  /\ open \subseteq Handles
  /\ ptr \in Handles \cup {None} /\ (~closing => ptr \in open \cup {None})
  /\ cancelled \subseteq Jobs /\ resend \subseteq Loads
  /\ uses \in [Jobs -> Handles \cup {None}]
  /\ events \in 0..MaxEvents

\* The parts are the whole, now and after a step.
LEMMA TypeParts == /\ TypeOK <=> FlagsOK /\ PcOK /\ DataOK
                   /\ TypeOK' <=> FlagsOK' /\ PcOK' /\ DataOK'
BY DEF TypeOK, FlagsOK, PcOK, DataOK

\* The chat screen starts with one load and no native object.
LEMMA InitType == Init => TypeOK
<1>1. (CHOOSE j \in Loads : TRUE) \in Loads
  BY ChatAssumption
<1>. SUFFICES ASSUME Init PROVE FlagsOK /\ PcOK /\ DataOK
  BY TypeParts
<1>2. FlagsOK BY DEF Init, FlagsOK
<1>3. PcOK
  BY <1>1, ChatAssumption
     DEF Init, PcOK, Jobs, LoadPhases, GenPhases, BenchPhases
<1>4. DataOK BY ChatAssumption DEF Init, DataOK, Jobs
<1>. QED BY <1>2, <1>3, <1>4

\* Every step keeps every variable in its type.
LEMMA StepType == TypeOK /\ [Next]_vars => TypeOK'
<1>. SUFFICES ASSUME TypeOK, [Next]_vars PROVE TypeOK'
  OBVIOUS
<1>. USE ChatAssumption
     DEF TypeOK, Jobs, LoadPhases, GenPhases, BenchPhases, MainFree, Getters,
         Unborn
<1>1. CASE Stop
  <2>1. FlagsOK'
    BY <1>1 DEF FlagsOK, Stop, Event, StopGeneration, Cancel
  <2>2. PcOK'
    BY <1>1 DEF PcOK, Stop, Event, StopGeneration, Cancel
  <2>3. DataOK'
    BY <1>1 DEF DataOK, Stop, Event, StopGeneration, Cancel
  <2>. QED BY <2>1, <2>2, <2>3, TypeParts
<1>2. CASE Hide
  <2>1. FlagsOK'
    BY <1>2 DEF FlagsOK, Hide, Event, UnloadModel, Unload, Cancel
  <2>2. PcOK'
    BY <1>2 DEF PcOK, Hide, Event, UnloadModel, Unload, Cancel
  <2>3. DataOK'
    BY <1>2 DEF DataOK, Hide, Event, UnloadModel, Unload, Cancel
  <2>. QED BY <2>1, <2>2, <2>3, TypeParts
<1>3. CASE Show
  BY <1>3, FreshIsFree
     DEF Show, Event, LoadModel, Coroutine, chatVars, mgrVars, jobVars
<1>4. CASE Send
  BY <1>4, FreshIsFree
     DEF Send, Event, SendUserQuery, GetResponse, Cancel
<1>5. CASE SwitchChat
  <2>1. FlagsOK'
    BY <1>5, FreshIsFree
       DEF FlagsOK, SwitchChat, Event, StopGeneration, Cancel, LoadModel,
           Coroutine
  <2>2. PcOK'
    BY <1>5, FreshIsFree
       DEF PcOK, SwitchChat, Event, StopGeneration, Cancel, LoadModel, Coroutine
  <2>3. DataOK'
    BY <1>5, FreshIsFree
       DEF DataOK, SwitchChat, Event, StopGeneration, Cancel, LoadModel,
           Coroutine
  <2>. QED BY <2>1, <2>2, <2>3, TypeParts
<1>6. CASE UpdateChatModel
  BY <1>6, FreshIsFree
     DEF UpdateChatModel, Event, LoadModel, Coroutine, chatVars, mgrVars,
         jobVars
<1>7. CASE Delete
  <2>1. FlagsOK'
    BY <1>7, FreshIsFree
       DEF FlagsOK, Delete, Event, StopGeneration, Cancel, Coroutine
  <2>2. PcOK'
    BY <1>7, FreshIsFree
       DEF PcOK, Delete, Event, StopGeneration, Cancel, Coroutine
  <2>3. DataOK'
    BY <1>7, FreshIsFree
       DEF DataOK, Delete, Event, StopGeneration, Cancel, Coroutine
  <2>. QED BY <2>1, <2>2, <2>3, TypeParts
<1>8. ASSUME NEW send \in BOOLEAN, Reload(send) PROVE TypeOK'
  <2>1. FlagsOK'
    BY <1>8, FreshIsFree
       DEF FlagsOK, Reload, Event, UnloadModel, Unload, Cancel, LoadModel,
           Coroutine
  <2>2. PcOK'
    BY <1>8, FreshIsFree
       DEF PcOK, Reload, Event, UnloadModel, Unload, Cancel, LoadModel,
           Coroutine
  <2>3. DataOK'
    BY <1>8, FreshIsFree
       DEF DataOK, Reload, Event, UnloadModel, Unload, Cancel, LoadModel,
           Coroutine
  <2>. QED BY <2>1, <2>2, <2>3, TypeParts
<1>9. ASSUME NEW b \in Benches, StartBenchmark(b) PROVE TypeOK'
  BY <1>9
     DEF StartBenchmark, Event, Move, chatVars, mgrVars, jobVars
<1>10. CASE Closed
  BY <1>10
     DEF Closed, chatVars, mgrVars, jobVars
<1>11. CASE Die
  BY <1>11
     DEF Die, chatVars, mgrVars, jobVars
<1>12. ASSUME NEW j \in Loads, Load(j) PROVE TypeOK'
  BY <1>12
     DEF Load, Move
<1>13. ASSUME NEW j \in Loads, NoModel(j) PROVE TypeOK'
  BY <1>13
     DEF NoModel, Move, chatVars, mgrVars, jobVars
<1>14. ASSUME NEW j \in Loads, LoadStep(j) PROVE TypeOK'
  BY <1>14
     DEF LoadStep, LoadMoves, Resumes, Goes, Move, Call, NoCall, chatVars,
         mgrVars, jobVars
<1>15. ASSUME NEW j \in Loads, NativeLoad(j) PROVE TypeOK'
  BY <1>15
     DEF NativeLoad, FreeMemory, Move, chatVars, mgrVars, jobVars
<1>16. ASSUME NEW j \in Loads, LoadSucceeds(j) PROVE TypeOK'
  <2>1. FlagsOK'
    BY <1>16, FreshIsFree
       DEF FlagsOK, LoadSucceeds, Goes, Move, SendUserQuery, GetResponse,
           Cancel, chatVars,
           mgrVars, jobVars
  <2>2. PcOK'
    BY <1>16, FreshIsFree
       DEF PcOK, LoadSucceeds, Goes, Move, SendUserQuery, GetResponse, Cancel,
           chatVars,
           mgrVars, jobVars
  <2>3. DataOK'
    BY <1>16, FreshIsFree
       DEF DataOK, LoadSucceeds, Goes, Move, SendUserQuery, GetResponse,
           Cancel, chatVars,
           mgrVars, jobVars
  <2>. QED BY <2>1, <2>2, <2>3, TypeParts
<1>17. ASSUME NEW j \in Loads, LoadFails(j) PROVE TypeOK'
  BY <1>17
     DEF LoadFails, Goes, Move, chatVars, mgrVars, jobVars
<1>18. ASSUME NEW g \in Gens, Begin(g) PROVE TypeOK'
  <2>1. FlagsOK'
    BY <1>18
       DEF FlagsOK, Begin, GenMoves, Goes, Move, Call, chatVars, mgrVars,
           jobVars
  <2>2. PcOK'
    BY <1>18
       DEF PcOK, Begin, GenMoves, Goes, Move, Call, chatVars, mgrVars, jobVars
  <2>3. DataOK'
    BY <1>18
       DEF DataOK, Begin, GenMoves, Goes, Move, Call, chatVars, mgrVars, jobVars
  <2>. QED BY <2>1, <2>2, <2>3, TypeParts
<1>19. ASSUME NEW g \in Gens, Collect(g) PROVE TypeOK'
  BY <1>19
     DEF Collect, GenMoves, Goes, Move, Call, chatVars, mgrVars, jobVars
<1>20. ASSUME NEW g \in Gens, Catch(g) PROVE TypeOK'
  <2>1. FlagsOK'
    BY <1>20
       DEF FlagsOK, Catch, GenMoves, Goes, Move, NoCall, chatVars, mgrVars,
           jobVars
  <2>2. PcOK'
    BY <1>20
       DEF PcOK, Catch, GenMoves, Goes, Move, NoCall, chatVars, mgrVars, jobVars
  <2>3. DataOK'
    BY <1>20
       DEF DataOK, Catch, GenMoves, Goes, Move, NoCall, chatVars, mgrVars,
           jobVars
  <2>. QED BY <2>1, <2>2, <2>3, TypeParts
<1>21. ASSUME NEW g \in Gens, Save(g) PROVE TypeOK'
  BY <1>21
     DEF Save, GenMoves, Goes, Move, NoCall, chatVars, mgrVars, jobVars
<1>22. ASSUME NEW g \in Gens, Answer(g) PROVE TypeOK'
  <2>1. FlagsOK'
    BY <1>22 DEF FlagsOK, Answer, Goes, Move, Call, NoCall
  <2>2. PcOK'
    BY <1>22 DEF PcOK, Answer, Goes, Move, Call, NoCall
  <2>3. DataOK'
    BY <1>22 DEF DataOK, Answer, Goes, Move, Call, NoCall
  <2>. QED BY <2>1, <2>2, <2>3, TypeParts
<1>23. ASSUME NEW b \in Benches, Benchmark(b) PROVE TypeOK'
  BY <1>23
     DEF Benchmark, Move, Call, NoCall, chatVars, mgrVars, jobVars
<1>24. ASSUME NEW j \in Loads, Cleared(j) PROVE TypeOK'
  <2>1. FlagsOK'
    BY <1>24
       DEF FlagsOK, Cleared, UnloadModel, Unload, Cancel, Move
  <2>2. PcOK'
    BY <1>24
       DEF PcOK, Cleared, UnloadModel, Unload, Cancel, Move
  <2>3. DataOK'
    BY <1>24
       DEF DataOK, Cleared, UnloadModel, Unload, Cancel, Move
  <2>. QED BY <2>1, <2>2, <2>3, TypeParts
<1>25. ASSUME NEW j \in Loads, ChatDeleted(j) PROVE TypeOK'
  <2>1. FlagsOK'
    BY <1>25
       DEF FlagsOK, ChatDeleted, StopGeneration, Cancel, Move
  <2>2. PcOK'
    BY <1>25
       DEF PcOK, ChatDeleted, StopGeneration, Cancel, Move
  <2>3. DataOK'
    BY <1>25
       DEF DataOK, ChatDeleted, StopGeneration, Cancel, Move
  <2>. QED BY <2>1, <2>2, <2>3, TypeParts
<1>26. ASSUME NEW g \in Gens, Ends(g) PROVE TypeOK'
  BY <1>26
     DEF Ends, GenMoves, Goes, Move, chatVars, mgrVars, jobVars
<1>27. CASE UNCHANGED vars
  BY <1>27 DEF vars, chatVars, mgrVars, jobVars
<1>. QED
  BY <1>1, <1>2, <1>3, <1>4, <1>5, <1>6, <1>7, <1>8, <1>9, <1>10, <1>11, <1>12,
     <1>13, <1>14, <1>15, <1>16, <1>17, <1>18, <1>19, <1>20, <1>21, <1>22,
     <1>23, <1>24, <1>25, <1>26, <1>27
     DEF Next, UserStep, LoadJob, GenJob

\* SmolLMManager's and the screen's variables keep their types; above all
\* nativePtr is 0 or the address of an object that exists, whenever the main
\* thread is not in the middle of close().
THEOREM TypeCorrect == Spec => []TypeOK
BY InitType, StepType, PTL DEF Spec

-----------------------------------------------------------------------------
(* jniDispatcher *)

\* The phases in which a job holds jniDispatcher.
Holding == OnJni \cup {"start"}

\* Inductive: jniDispatcher has one thread, so at most one job holds it.
JniInv == \A x, y \in Jobs : pc[x] \in Holding /\ pc[y] \in Holding => x = y

\* A job enters a native call only when no job holds the dispatcher, or from a
\* phase in which it holds it itself.
LEMMA JniInvStep == TypeOK /\ JniInv /\ [Next]_vars => JniInv'
<1>. SUFFICES ASSUME TypeOK, JniInv, [Next]_vars PROVE JniInv'
  OBVIOUS
<1>. USE ChatAssumption
     DEF TypeOK, JniInv, Jobs, Holding, OnJni, Completing, Getters, JniFree
<1>1. CASE Stop
  BY <1>1
     DEF Stop, Event, StopGeneration, Cancel
<1>2. CASE Hide
  BY <1>2
     DEF Hide, Event, UnloadModel, Unload, Cancel
<1>3. CASE Show
  BY <1>3, FreshIsFree
     DEF Show, Event, LoadModel, Coroutine, chatVars, mgrVars, jobVars
<1>4. CASE Send
  BY <1>4, FreshIsFree
     DEF Send, Event, SendUserQuery, GetResponse, Cancel
<1>5. CASE SwitchChat
  BY <1>5, FreshIsFree
     DEF SwitchChat, Event, StopGeneration, Cancel, LoadModel, Coroutine
<1>6. CASE UpdateChatModel
  BY <1>6, FreshIsFree
     DEF UpdateChatModel, Event, LoadModel, Coroutine, chatVars, mgrVars,
         jobVars
<1>7. CASE Delete
  BY <1>7, FreshIsFree
     DEF Delete, Event, StopGeneration, Cancel, Coroutine
<1>8. ASSUME NEW send \in BOOLEAN, Reload(send) PROVE JniInv'
  BY <1>8, FreshIsFree
     DEF Reload, Event, UnloadModel, Unload, Cancel, LoadModel, Coroutine
<1>9. ASSUME NEW b \in Benches, StartBenchmark(b) PROVE JniInv'
  BY <1>9
     DEF StartBenchmark, Event, Move, chatVars, mgrVars, jobVars
<1>10. CASE Closed
  BY <1>10
     DEF Closed, chatVars, mgrVars, jobVars
<1>11. CASE Die
  BY <1>11
     DEF Die, chatVars, mgrVars, jobVars
<1>12. ASSUME NEW j \in Loads, Load(j) PROVE JniInv'
  BY <1>12
     DEF Load, Move
<1>13. ASSUME NEW j \in Loads, NoModel(j) PROVE JniInv'
  BY <1>13
     DEF NoModel, Move, chatVars, mgrVars, jobVars
<1>14. ASSUME NEW j \in Loads, LoadStep(j) PROVE JniInv'
  BY <1>14
     DEF LoadStep, LoadMoves, Resumes, Goes, Move, Call, NoCall, chatVars,
         mgrVars, jobVars
<1>15. ASSUME NEW j \in Loads, NativeLoad(j) PROVE JniInv'
  BY <1>15
     DEF NativeLoad, FreeMemory, Move, chatVars, mgrVars, jobVars
<1>16. ASSUME NEW j \in Loads, LoadSucceeds(j) PROVE JniInv'
  BY <1>16, FreshIsFree
     DEF LoadSucceeds, Goes, Move, SendUserQuery, GetResponse, Cancel,
         chatVars, mgrVars,
         jobVars
<1>17. ASSUME NEW j \in Loads, LoadFails(j) PROVE JniInv'
  BY <1>17
     DEF LoadFails, Goes, Move, chatVars, mgrVars, jobVars
<1>18. ASSUME NEW g \in Gens, Begin(g) PROVE JniInv'
  BY <1>18
     DEF Begin, GenMoves, Goes, Move, Call, chatVars, mgrVars, jobVars
<1>19. ASSUME NEW g \in Gens, Collect(g) PROVE JniInv'
  BY <1>19
     DEF Collect, GenMoves, Goes, Move, Call, chatVars, mgrVars, jobVars
<1>20. ASSUME NEW g \in Gens, Catch(g) PROVE JniInv'
  BY <1>20
     DEF Catch, GenMoves, Goes, Move, NoCall, chatVars, mgrVars, jobVars
<1>21. ASSUME NEW g \in Gens, Save(g) PROVE JniInv'
  BY <1>21
     DEF Save, GenMoves, Goes, Move, NoCall, chatVars, mgrVars, jobVars
<1>22. ASSUME NEW g \in Gens, Answer(g) PROVE JniInv'
  BY <1>22
     DEF Answer, Goes, Move, Call, NoCall
<1>23. ASSUME NEW b \in Benches, Benchmark(b) PROVE JniInv'
  BY <1>23
     DEF Benchmark, Move, Call, NoCall, chatVars, mgrVars, jobVars
<1>24. ASSUME NEW j \in Loads, Cleared(j) PROVE JniInv'
  BY <1>24
     DEF Cleared, UnloadModel, Unload, Cancel, Move
<1>25. ASSUME NEW j \in Loads, ChatDeleted(j) PROVE JniInv'
  BY <1>25
     DEF ChatDeleted, StopGeneration, Cancel, Move
<1>26. ASSUME NEW g \in Gens, Ends(g) PROVE JniInv'
  BY <1>26
     DEF Ends, GenMoves, Goes, Move, chatVars, mgrVars, jobVars
<1>27. CASE UNCHANGED vars
  BY <1>27 DEF vars, chatVars, mgrVars, jobVars
<1>. QED
  BY <1>1, <1>2, <1>3, <1>4, <1>5, <1>6, <1>7, <1>8, <1>9, <1>10, <1>11, <1>12,
     <1>13, <1>14, <1>15, <1>16, <1>17, <1>18, <1>19, <1>20, <1>21, <1>22,
     <1>23, <1>24, <1>25, <1>26, <1>27
     DEF Next, UserStep, LoadJob, GenJob

-----------------------------------------------------------------------------
(* The jobs the manager refers to *)

\* The jobs that will go on, past the lookup of a model.
Active(x) == x \notin cancelled /\ pc[x] \notin Unborn

\* modelInitJob and responseGenerationJob refer to every job that will go on,
\* so that cancelling what they refer to cancels them all.
JobInv ==
  /\ \A j \in Loads : Active(j) => initJob = {j}
  /\ \A g \in Gens : Active(g) => responseJob = {g}

\* A job begins when its reference is set, and what the reference named before
\* is cancelled in the same step.
LEMMA JobInvStep == TypeOK /\ JobInv /\ [Next]_vars => JobInv'
<1>. SUFFICES ASSUME TypeOK, JobInv, [Next]_vars PROVE JobInv'
  OBVIOUS
<1>. USE ChatAssumption DEF TypeOK, JobInv, Active, Jobs, Unborn
<1>1. CASE Stop
  BY <1>1
     DEF Stop, Event, StopGeneration, Cancel
<1>2. CASE Hide
  BY <1>2
     DEF Hide, Event, UnloadModel, Unload, Cancel
<1>3. CASE Show
  BY <1>3, FreshIsFree
     DEF Show, Event, LoadModel, Coroutine, chatVars, mgrVars, jobVars
<1>4. CASE Send
  BY <1>4, FreshIsFree
     DEF Send, Event, SendUserQuery, GetResponse, Cancel
<1>5. CASE SwitchChat
  BY <1>5, FreshIsFree
     DEF SwitchChat, Event, StopGeneration, Cancel, LoadModel, Coroutine
<1>6. CASE UpdateChatModel
  BY <1>6, FreshIsFree
     DEF UpdateChatModel, Event, LoadModel, Coroutine, chatVars, mgrVars,
         jobVars
<1>7. CASE Delete
  BY <1>7, FreshIsFree
     DEF Delete, Event, StopGeneration, Cancel, Coroutine
<1>8. ASSUME NEW send \in BOOLEAN, Reload(send) PROVE JobInv'
  BY <1>8, FreshIsFree
     DEF Reload, Event, UnloadModel, Unload, Cancel, LoadModel, Coroutine
<1>9. ASSUME NEW b \in Benches, StartBenchmark(b) PROVE JobInv'
  BY <1>9
     DEF StartBenchmark, Event, Move, chatVars, mgrVars, jobVars
<1>10. CASE Closed
  BY <1>10
     DEF Closed, chatVars, mgrVars, jobVars
<1>11. CASE Die
  BY <1>11
     DEF Die, chatVars, mgrVars, jobVars
<1>12. ASSUME NEW j \in Loads, Load(j) PROVE JobInv'
  BY <1>12
     DEF Load, Move
<1>13. ASSUME NEW j \in Loads, NoModel(j) PROVE JobInv'
  BY <1>13
     DEF NoModel, Move, chatVars, mgrVars, jobVars
<1>14. ASSUME NEW j \in Loads, LoadStep(j) PROVE JobInv'
  BY <1>14
     DEF LoadStep, LoadMoves, Resumes, Goes, Move, Call, NoCall, chatVars,
         mgrVars, jobVars
<1>15. ASSUME NEW j \in Loads, NativeLoad(j) PROVE JobInv'
  BY <1>15
     DEF NativeLoad, FreeMemory, Move, chatVars, mgrVars, jobVars
<1>16. ASSUME NEW j \in Loads, LoadSucceeds(j) PROVE JobInv'
  BY <1>16, FreshIsFree
     DEF LoadSucceeds, Goes, Move, SendUserQuery, GetResponse, Cancel,
         chatVars, mgrVars,
         jobVars
<1>17. ASSUME NEW j \in Loads, LoadFails(j) PROVE JobInv'
  BY <1>17
     DEF LoadFails, Goes, Move, chatVars, mgrVars, jobVars
<1>18. ASSUME NEW g \in Gens, Begin(g) PROVE JobInv'
  BY <1>18
     DEF Begin, GenMoves, Goes, Move, Call, chatVars, mgrVars, jobVars
<1>19. ASSUME NEW g \in Gens, Collect(g) PROVE JobInv'
  BY <1>19
     DEF Collect, GenMoves, Goes, Move, Call, chatVars, mgrVars, jobVars
<1>20. ASSUME NEW g \in Gens, Catch(g) PROVE JobInv'
  BY <1>20
     DEF Catch, GenMoves, Goes, Move, NoCall, chatVars, mgrVars, jobVars
<1>21. ASSUME NEW g \in Gens, Save(g) PROVE JobInv'
  BY <1>21
     DEF Save, GenMoves, Goes, Move, NoCall, chatVars, mgrVars, jobVars
<1>22. ASSUME NEW g \in Gens, Answer(g) PROVE JobInv'
  BY <1>22
     DEF Answer, Goes, Move, Call, NoCall
<1>23. ASSUME NEW b \in Benches, Benchmark(b) PROVE JobInv'
  BY <1>23
     DEF Benchmark, Move, Call, NoCall, chatVars, mgrVars, jobVars
<1>24. ASSUME NEW j \in Loads, Cleared(j) PROVE JobInv'
  BY <1>24
     DEF Cleared, UnloadModel, Unload, Cancel, Move
<1>25. ASSUME NEW j \in Loads, ChatDeleted(j) PROVE JobInv'
  BY <1>25
     DEF ChatDeleted, StopGeneration, Cancel, Move
<1>26. ASSUME NEW g \in Gens, Ends(g) PROVE JobInv'
  BY <1>26
     DEF Ends, GenMoves, Goes, Move, chatVars, mgrVars, jobVars
<1>27. CASE UNCHANGED vars
  BY <1>27 DEF vars, chatVars, mgrVars, jobVars
<1>. QED
  BY <1>1, <1>2, <1>3, <1>4, <1>5, <1>6, <1>7, <1>8, <1>9, <1>10, <1>11, <1>12,
     <1>13, <1>14, <1>15, <1>16, <1>17, <1>18, <1>19, <1>20, <1>21, <1>22,
     <1>23, <1>24, <1>25, <1>26, <1>27
     DEF Next, UserStep, LoadJob, GenJob

-----------------------------------------------------------------------------
(* The getters *)

\* Inductive: the main thread is in the getters of one response job only, which
\* is not cancelled, and no other response job is completing from the time this
\* one waits for the main thread.
GetterInv ==
  /\ \A g \in Gens : pc[g] \in Getters => g \notin cancelled
  /\ \A g, h \in Gens :
       /\ g # h /\ g \notin cancelled
       /\ pc[g] \in Getters \cup {"main"}
       => pc[h] \notin Completing \cup {"start"}

\* Another response job would have to be the one the manager refers to, and
\* nothing is cancelled while the main thread is in the getters.
LEMMA GetterInvStep ==
  TypeOK /\ JobInv /\ GetterInv /\ [Next]_vars => GetterInv'
<1>. SUFFICES ASSUME TypeOK, JobInv, GetterInv, [Next]_vars PROVE GetterInv'
  OBVIOUS
<1>. USE ChatAssumption
     DEF TypeOK, JobInv, GetterInv, Active, Jobs, Unborn, Getters, Completing,
         OnJni, JniFree, MainFree
<1>1. CASE Stop
  BY <1>1
     DEF Stop, Event, StopGeneration, Cancel
<1>2. CASE Hide
  BY <1>2
     DEF Hide, Event, UnloadModel, Unload, Cancel
<1>3. CASE Show
  BY <1>3, FreshIsFree
     DEF Show, Event, LoadModel, Coroutine, chatVars, mgrVars, jobVars
<1>4. CASE Send
  BY <1>4, FreshIsFree
     DEF Send, Event, SendUserQuery, GetResponse, Cancel
<1>5. CASE SwitchChat
  BY <1>5, FreshIsFree
     DEF SwitchChat, Event, StopGeneration, Cancel, LoadModel, Coroutine
<1>6. CASE UpdateChatModel
  BY <1>6, FreshIsFree
     DEF UpdateChatModel, Event, LoadModel, Coroutine, chatVars, mgrVars,
         jobVars
<1>7. CASE Delete
  BY <1>7, FreshIsFree
     DEF Delete, Event, StopGeneration, Cancel, Coroutine
<1>8. ASSUME NEW send \in BOOLEAN, Reload(send) PROVE GetterInv'
  BY <1>8, FreshIsFree
     DEF Reload, Event, UnloadModel, Unload, Cancel, LoadModel, Coroutine
<1>9. ASSUME NEW b \in Benches, StartBenchmark(b) PROVE GetterInv'
  BY <1>9
     DEF StartBenchmark, Event, Move, chatVars, mgrVars, jobVars
<1>10. CASE Closed
  BY <1>10
     DEF Closed, chatVars, mgrVars, jobVars
<1>11. CASE Die
  BY <1>11
     DEF Die, chatVars, mgrVars, jobVars
<1>12. ASSUME NEW j \in Loads, Load(j) PROVE GetterInv'
  BY <1>12
     DEF Load, Move
<1>13. ASSUME NEW j \in Loads, NoModel(j) PROVE GetterInv'
  BY <1>13
     DEF NoModel, Move, chatVars, mgrVars, jobVars
<1>14. ASSUME NEW j \in Loads, LoadStep(j) PROVE GetterInv'
  BY <1>14
     DEF LoadStep, LoadMoves, Resumes, Goes, Move, Call, NoCall, chatVars,
         mgrVars, jobVars
<1>15. ASSUME NEW j \in Loads, NativeLoad(j) PROVE GetterInv'
  BY <1>15
     DEF NativeLoad, FreeMemory, Move, chatVars, mgrVars, jobVars
<1>16. ASSUME NEW j \in Loads, LoadSucceeds(j) PROVE GetterInv'
  BY <1>16, FreshIsFree
     DEF LoadSucceeds, Goes, Move, SendUserQuery, GetResponse, Cancel,
         chatVars, mgrVars,
         jobVars
<1>17. ASSUME NEW j \in Loads, LoadFails(j) PROVE GetterInv'
  BY <1>17
     DEF LoadFails, Goes, Move, chatVars, mgrVars, jobVars
<1>18. ASSUME NEW g \in Gens, Begin(g) PROVE GetterInv'
  BY <1>18
     DEF Begin, GenMoves, Goes, Move, Call, chatVars, mgrVars, jobVars
<1>19. ASSUME NEW g \in Gens, Collect(g) PROVE GetterInv'
  BY <1>19
     DEF Collect, GenMoves, Goes, Move, Call, chatVars, mgrVars, jobVars
<1>20. ASSUME NEW g \in Gens, Catch(g) PROVE GetterInv'
  BY <1>20
     DEF Catch, GenMoves, Goes, Move, NoCall, chatVars, mgrVars, jobVars
<1>21. ASSUME NEW g \in Gens, Save(g) PROVE GetterInv'
  BY <1>21
     DEF Save, GenMoves, Goes, Move, NoCall, chatVars, mgrVars, jobVars
<1>22. ASSUME NEW g \in Gens, Answer(g) PROVE GetterInv'
  BY <1>22
     DEF Answer, Goes, Move, Call, NoCall
<1>23. ASSUME NEW b \in Benches, Benchmark(b) PROVE GetterInv'
  BY <1>23
     DEF Benchmark, Move, Call, NoCall, chatVars, mgrVars, jobVars
<1>24. ASSUME NEW j \in Loads, Cleared(j) PROVE GetterInv'
  BY <1>24
     DEF Cleared, UnloadModel, Unload, Cancel, Move
<1>25. ASSUME NEW j \in Loads, ChatDeleted(j) PROVE GetterInv'
  BY <1>25
     DEF ChatDeleted, StopGeneration, Cancel, Move
<1>26. ASSUME NEW g \in Gens, Ends(g) PROVE GetterInv'
  BY <1>26
     DEF Ends, GenMoves, Goes, Move, chatVars, mgrVars, jobVars
<1>27. CASE UNCHANGED vars
  BY <1>27 DEF vars, chatVars, mgrVars, jobVars
<1>. QED
  BY <1>1, <1>2, <1>3, <1>4, <1>5, <1>6, <1>7, <1>8, <1>9, <1>10, <1>11, <1>12,
     <1>13, <1>14, <1>15, <1>16, <1>17, <1>18, <1>19, <1>20, <1>21, <1>22,
     <1>23, <1>24, <1>25, <1>26, <1>27
     DEF Next, UserStep, LoadJob, GenJob

\* No two native calls on the same object are made at once, although a load
\* leaves the dispatcher for its IO thread, the database and the main thread,
\* and comes back to it, and the getters are called outside it: these meet no
\* completion.
THEOREM CallsExclude == Spec => []OneCallPerObject
<1>1. (CHOOSE j \in Loads : TRUE) \in Loads
  BY ChatAssumption
<1>2. Init => JniInv /\ JobInv /\ GetterInv
  BY <1>1, ChatAssumption
     DEF Init, JniInv, JobInv, GetterInv, Active, Unborn, Holding, OnJni,
         Completing, Getters, Jobs
<1>3. TypeOK /\ JniInv /\ JobInv /\ GetterInv => OneCallPerObject
  BY ChatAssumption
     DEF TypeOK, JniInv, JobInv, GetterInv, OneCallPerObject, Active, Unborn,
         Holding, Native, OnJni, Completing, Getters, Jobs, LoadPhases,
         BenchPhases
<1>. QED
  BY <1>2, <1>3, JniInvStep, JobInvStep, GetterInvStep, TypeCorrect, PTL
     DEF Spec

-----------------------------------------------------------------------------
(* nativePtr *)

\* While the main thread is in close() nothing that will go on needs the
\* object; otherwise whatever was told of an object finds it open: the manager
\* by isInstanceLoaded, a load past its IO thread, a response job.
HandleInv ==
  /\ loaded => ptr \in open
  /\ closing => ~loaded /\ \A x \in Loads \cup Gens : ~Active(x)
  /\ \A j \in Loads : Active(j) /\ pc[j] \notin {"queued", "io", "failed"} =>
                        ptr \in open
  /\ \A g \in Gens : Active(g) => ptr \in open
  /\ LiveJobUsesOpen

\* Only Unload deletes an object, and it cancels by JobInv every job that will
\* go on; only Closed and a load's IO thread change nativePtr.
LEMMA HandleInvStep == TypeOK /\ JobInv /\ HandleInv /\ [Next]_vars => HandleInv'
<1>. SUFFICES ASSUME TypeOK, JobInv, HandleInv, [Next]_vars PROVE HandleInv'
  OBVIOUS
<1>. USE ChatAssumption
     DEF TypeOK, JobInv, HandleInv, LiveJobUsesOpen, Active, Unborn, Jobs,
         Native, OnJni, Completing, Getters, MainFree
<1>1. CASE Stop
  BY <1>1
     DEF Stop, Event, StopGeneration, Cancel
<1>2. CASE Hide
  BY <1>2
     DEF Hide, Event, UnloadModel, Unload, Cancel
<1>3. CASE Show
  BY <1>3, FreshIsFree
     DEF Show, Event, LoadModel, Coroutine, chatVars, mgrVars, jobVars
<1>4. CASE Send
  BY <1>4, FreshIsFree
     DEF Send, Event, SendUserQuery, GetResponse, Cancel
<1>5. CASE SwitchChat
  BY <1>5, FreshIsFree
     DEF SwitchChat, Event, StopGeneration, Cancel, LoadModel, Coroutine
<1>6. CASE UpdateChatModel
  BY <1>6, FreshIsFree
     DEF UpdateChatModel, Event, LoadModel, Coroutine, chatVars, mgrVars,
         jobVars
<1>7. CASE Delete
  BY <1>7, FreshIsFree
     DEF Delete, Event, StopGeneration, Cancel, Coroutine
<1>8. ASSUME NEW send \in BOOLEAN, Reload(send) PROVE HandleInv'
  BY <1>8, FreshIsFree
     DEF Reload, Event, UnloadModel, Unload, Cancel, LoadModel, Coroutine
<1>9. ASSUME NEW b \in Benches, StartBenchmark(b) PROVE HandleInv'
  BY <1>9
     DEF StartBenchmark, Event, Move, chatVars, mgrVars, jobVars
<1>10. CASE Closed
  BY <1>10
     DEF Closed, chatVars, mgrVars, jobVars
<1>11. CASE Die
  BY <1>11
     DEF Die, chatVars, mgrVars, jobVars
<1>12. ASSUME NEW j \in Loads, Load(j) PROVE HandleInv'
  BY <1>12
     DEF Load, Move
<1>13. ASSUME NEW j \in Loads, NoModel(j) PROVE HandleInv'
  BY <1>13
     DEF NoModel, Move, chatVars, mgrVars, jobVars
<1>14. ASSUME NEW j \in Loads, LoadStep(j) PROVE HandleInv'
  BY <1>14
     DEF LoadStep, LoadMoves, Resumes, Goes, Move, Call, NoCall, chatVars,
         mgrVars, jobVars
<1>15. ASSUME NEW j \in Loads, NativeLoad(j) PROVE HandleInv'
  BY <1>15
     DEF NativeLoad, FreeMemory, Move, chatVars, mgrVars, jobVars
<1>16. ASSUME NEW j \in Loads, LoadSucceeds(j) PROVE HandleInv'
  BY <1>16, FreshIsFree
     DEF LoadSucceeds, Goes, Move, SendUserQuery, GetResponse, Cancel,
         chatVars, mgrVars,
         jobVars
<1>17. ASSUME NEW j \in Loads, LoadFails(j) PROVE HandleInv'
  BY <1>17
     DEF LoadFails, Goes, Move, chatVars, mgrVars, jobVars
<1>18. ASSUME NEW g \in Gens, Begin(g) PROVE HandleInv'
  BY <1>18
     DEF Begin, GenMoves, Goes, Move, Call, chatVars, mgrVars, jobVars
<1>19. ASSUME NEW g \in Gens, Collect(g) PROVE HandleInv'
  BY <1>19
     DEF Collect, GenMoves, Goes, Move, Call, chatVars, mgrVars, jobVars
<1>20. ASSUME NEW g \in Gens, Catch(g) PROVE HandleInv'
  BY <1>20
     DEF Catch, GenMoves, Goes, Move, NoCall, chatVars, mgrVars, jobVars
<1>21. ASSUME NEW g \in Gens, Save(g) PROVE HandleInv'
  BY <1>21
     DEF Save, GenMoves, Goes, Move, NoCall, chatVars, mgrVars, jobVars
<1>22. ASSUME NEW g \in Gens, Answer(g) PROVE HandleInv'
  BY <1>22
     DEF Answer, Goes, Move, Call, NoCall
<1>23. ASSUME NEW b \in Benches, Benchmark(b) PROVE HandleInv'
  BY <1>23
     DEF Benchmark, Move, Call, NoCall, chatVars, mgrVars, jobVars
<1>24. ASSUME NEW j \in Loads, Cleared(j) PROVE HandleInv'
  BY <1>24
     DEF Cleared, UnloadModel, Unload, Cancel, Move
<1>25. ASSUME NEW j \in Loads, ChatDeleted(j) PROVE HandleInv'
  BY <1>25
     DEF ChatDeleted, StopGeneration, Cancel, Move
<1>26. ASSUME NEW g \in Gens, Ends(g) PROVE HandleInv'
  BY <1>26
     DEF Ends, GenMoves, Goes, Move, chatVars, mgrVars, jobVars
<1>27. CASE UNCHANGED vars
  BY <1>27 DEF vars, chatVars, mgrVars, jobVars
<1>. QED
  BY <1>1, <1>2, <1>3, <1>4, <1>5, <1>6, <1>7, <1>8, <1>9, <1>10, <1>11, <1>12,
     <1>13, <1>14, <1>15, <1>16, <1>17, <1>18, <1>19, <1>20, <1>21, <1>22,
     <1>23, <1>24, <1>25, <1>26, <1>27
     DEF Next, UserStep, LoadJob, GenJob

\* The initial state refers to no job and no object.
LEMMA InitHandles == Init => JobInv /\ HandleInv
BY ChatAssumption
   DEF Init, JobInv, HandleInv, LiveJobUsesOpen, Active, Unborn, Jobs,
       Native, OnJni, Completing, Getters

\* The invariants together, along every behaviour.
LEMMA HandlesKept == Spec => [](TypeOK /\ JobInv /\ HandleInv)
BY InitHandles, JobInvStep, HandleInvStep, TypeCorrect, PTL DEF Spec

\* getResponse() trusts isInstanceLoaded: while it is set, nativePtr is an
\* object that exists, whatever loads were overtaken, cancelled or failed.
THEOREM LoadedOpen == Spec => []LoadedIsOpen
<1>1. HandleInv => LoadedIsOpen BY DEF HandleInv, LoadedIsOpen
<1>. QED BY <1>1, HandlesKept, PTL

\* A load or response job that was not cancelled is never given a deleted object
\* or none: unload() cancels every job that could be using nativePtr.
THEOREM LiveJobsSafe == Spec => []LiveJobUsesOpen
<1>1. HandleInv => LiveJobUsesOpen BY DEF HandleInv
<1>. QED BY <1>1, HandlesKept, PTL

\* The screen that takes queries and the manager that answers them agree, step
\* by step: what clears isInstanceLoaded is followed by unloadModel's reset of
\* the screen before the main thread does anything else.
LEMMA ReadyStep == TypeOK /\ ReadyIsLoaded /\ [Next]_vars => ReadyIsLoaded'
<1>. SUFFICES ASSUME TypeOK, ReadyIsLoaded, [Next]_vars PROVE ReadyIsLoaded'
  OBVIOUS
<1>. USE DEF TypeOK, ReadyIsLoaded, MainFree
<1>1. CASE Stop
  BY <1>1
     DEF Stop, Event, StopGeneration, Cancel
<1>2. CASE Hide
  <2>1. /\ screen' = screen
        /\ \/ loaded' = FALSE /\ closing' = TRUE
           \/ UNCHANGED <<loaded, closing>>
    BY <1>2 DEF Hide, UnloadModel, Unload
  <2>. QED BY <2>1
<1>3. CASE Show
  BY <1>3, FreshIsFree
     DEF Show, Event, LoadModel, Coroutine, chatVars, mgrVars, jobVars
<1>4. CASE Send
  BY <1>4, FreshIsFree
     DEF Send, Event, SendUserQuery, GetResponse, Cancel
<1>5. CASE SwitchChat
  BY <1>5, FreshIsFree
     DEF SwitchChat, Event, StopGeneration, Cancel, LoadModel, Coroutine
<1>6. CASE UpdateChatModel
  BY <1>6, FreshIsFree
     DEF UpdateChatModel, Event, LoadModel, Coroutine, chatVars, mgrVars,
         jobVars
<1>7. CASE Delete
  BY <1>7, FreshIsFree
     DEF Delete, Event, StopGeneration, Cancel, Coroutine
<1>8. ASSUME NEW send \in BOOLEAN, Reload(send) PROVE ReadyIsLoaded'
  <2>1. /\ screen' = screen
        /\ \/ loaded' = FALSE /\ closing' = TRUE
           \/ UNCHANGED <<loaded, closing>>
    BY <1>8 DEF Reload, UnloadModel, Unload
  <2>. QED BY <2>1
<1>9. ASSUME NEW b \in Benches, StartBenchmark(b) PROVE ReadyIsLoaded'
  BY <1>9
     DEF StartBenchmark, Event, Move, chatVars, mgrVars, jobVars
<1>10. CASE Closed
  BY <1>10
     DEF Closed, chatVars, mgrVars, jobVars
<1>11. CASE Die
  BY <1>11
     DEF Die, chatVars, mgrVars, jobVars
<1>12. ASSUME NEW j \in Loads, Load(j) PROVE ReadyIsLoaded'
  BY <1>12
     DEF Load, Move
<1>13. ASSUME NEW j \in Loads, NoModel(j) PROVE ReadyIsLoaded'
  BY <1>13
     DEF NoModel, Move, chatVars, mgrVars, jobVars
<1>14. ASSUME NEW j \in Loads, LoadStep(j) PROVE ReadyIsLoaded'
  BY <1>14
     DEF LoadStep, LoadMoves, Resumes, Goes, Move, Call, NoCall, chatVars,
         mgrVars, jobVars
<1>15. ASSUME NEW j \in Loads, NativeLoad(j) PROVE ReadyIsLoaded'
  BY <1>15
     DEF NativeLoad, FreeMemory, Move, chatVars, mgrVars, jobVars
<1>16. ASSUME NEW j \in Loads, LoadSucceeds(j) PROVE ReadyIsLoaded'
  BY <1>16, FreshIsFree
     DEF LoadSucceeds, Goes, Move, SendUserQuery, GetResponse, Cancel,
         chatVars, mgrVars,
         jobVars
<1>17. ASSUME NEW j \in Loads, LoadFails(j) PROVE ReadyIsLoaded'
  BY <1>17
     DEF LoadFails, Goes, Move, chatVars, mgrVars, jobVars
<1>18. ASSUME NEW g \in Gens, Begin(g) PROVE ReadyIsLoaded'
  BY <1>18
     DEF Begin, GenMoves, Goes, Move, Call, chatVars, mgrVars, jobVars
<1>19. ASSUME NEW g \in Gens, Collect(g) PROVE ReadyIsLoaded'
  BY <1>19
     DEF Collect, GenMoves, Goes, Move, Call, chatVars, mgrVars, jobVars
<1>20. ASSUME NEW g \in Gens, Catch(g) PROVE ReadyIsLoaded'
  BY <1>20
     DEF Catch, GenMoves, Goes, Move, NoCall, chatVars, mgrVars, jobVars
<1>21. ASSUME NEW g \in Gens, Save(g) PROVE ReadyIsLoaded'
  BY <1>21
     DEF Save, GenMoves, Goes, Move, NoCall, chatVars, mgrVars, jobVars
<1>22. ASSUME NEW g \in Gens, Answer(g) PROVE ReadyIsLoaded'
  BY <1>22
     DEF Answer, Goes, Move, Call, NoCall
<1>23. ASSUME NEW b \in Benches, Benchmark(b) PROVE ReadyIsLoaded'
  BY <1>23
     DEF Benchmark, Move, Call, NoCall, chatVars, mgrVars, jobVars
<1>24. ASSUME NEW j \in Loads, Cleared(j) PROVE ReadyIsLoaded'
  <2>1. /\ screen' = screen
        /\ \/ loaded' = FALSE /\ closing' = TRUE
           \/ UNCHANGED <<loaded, closing>>
    BY <1>24 DEF Cleared, UnloadModel, Unload
  <2>. QED BY <2>1
<1>25. ASSUME NEW j \in Loads, ChatDeleted(j) PROVE ReadyIsLoaded'
  BY <1>25
     DEF ChatDeleted, StopGeneration, Cancel, Move
<1>26. ASSUME NEW g \in Gens, Ends(g) PROVE ReadyIsLoaded'
  BY <1>26
     DEF Ends, GenMoves, Goes, Move, chatVars, mgrVars, jobVars
<1>27. CASE UNCHANGED vars
  BY <1>27 DEF vars, chatVars, mgrVars, jobVars
<1>. QED
  BY <1>1, <1>2, <1>3, <1>4, <1>5, <1>6, <1>7, <1>8, <1>9, <1>10, <1>11, <1>12,
     <1>13, <1>14, <1>15, <1>16, <1>17, <1>18, <1>19, <1>20, <1>21, <1>22,
     <1>23, <1>24, <1>25, <1>26, <1>27
     DEF Next, UserStep, LoadJob, GenJob

\* The input field is shown only when the manager would take the query.
THEOREM ReadyLoaded == Spec => []ReadyIsLoaded
<1>1. Init => ReadyIsLoaded BY DEF Init, ReadyIsLoaded
<1>. QED BY <1>1, ReadyStep, TypeCorrect, PTL DEF Spec
=============================================================================
