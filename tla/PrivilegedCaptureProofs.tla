------------------------ MODULE PrivilegedCaptureProofs ------------------------
(***************************************************************************)
(* Proofs about PrivilegedCapture for every set of sizes, every number of  *)
(* passes and workers and every set of events.  What starts that overlap   *)
(* break is excluded by their record in races, as in the properties.       *)
(***************************************************************************)
EXTENDS PrivilegedCapture, TLAPS

Starting == {"start", "dispatch", "restart", "launch"}

\* A pass has a size, and a worker the service knows has not been interrupted.
HandleInv ==
  /\ ~At("reinit", "idle") => arg["reinit"] \in Sizes
  /\ worker # NoWorker => ~interrupted[worker]
  /\ pc["main"] \in {"stop", "stopCall", "unbind"} <=> life = "stopping"

InTurn == races \intersect Overlaps = {}

\* The main thread leaves the capture alone during a pass.  So whoever launches
\* a worker has stopped the one there was, and only the service's own worker
\* has not been told to end.
TurnInv ==
  InTurn =>
    /\ ~At("reinit", "idle") => At("main", "idle") /\ delayed = NoSize /\ life = "up"
    /\ \A c \in Callers : At(c, "launch") => worker = NoWorker
    /\ \A w \in Workers : ~Gone(w) /\ ~interrupted[w] => w = worker

Undisturbed == races \intersect (Overlaps \union {"earlyDestroy"}) = {}

\* Every start carries the size of the loop, from where it is asked for to the
\* worker; a pass has taken back the pending one, and stopped the capture,
\* before it replaces the loop, and so has onDestroy.
Fits ==
  /\ life # "up" => delayed = NoSize
  /\ delayed # NoSize => delayed = loop
  /\ pc["main"] \in Starting => arg["main"] = loop /\ loop # NoSize
  /\ pc["reinit"] \in Starting \union {"engine"} => arg["reinit"] = loop
  /\ pending \in {NoSize, loop}
  /\ pc["reinit"] \in {"pauseCall", "teardown", "init", "engine", "start"} => pending = NoSize
  /\ pc["main"] \in {"stopCall", "unbind"} \/ life = "destroyed" => pending = NoSize
  /\ \A c \in Callers : Calling(c) => service = "live"
  /\ running => service = "live" /\ loop # NoSize /\ size[worker] = loop
  /\ pc["reinit"] \in Starting \union {"teardown", "init", "engine"} => ~running
  /\ pc["main"] = "unbind" => ~running
  /\ life = "destroyed" => loop = NoSize

FitInv == Undisturbed => Fits

CaptureInv == TypeOK /\ HandleInv /\ TurnInv /\ FitInv

USE DEF engineVars, serviceVars, workerVars, At, Callers

-----------------------------------------------------------------------------
(* Types.                                                                  *)

LEMMA CaptureTypeInit == Init => TypeOK
<1> SUFFICES ASSUME Init PROVE TypeOK
  OBVIOUS
<1>1. CallTypes
  BY BoundsAssumption DEF Init, CallTypes
<1>2. EngineTypes
  BY DEF Init, EngineTypes
<1>3. ServiceTypes
  BY DEF Init, ServiceTypes
<1>4. QED
  BY <1>1, <1>2, <1>3 DEF TypeOK

LEMMA CallTypeStep == ASSUME TypeOK, [Next]_vars PROVE CallTypes'
<1> USE DEF Goto, GotoWith, Record, EnvEvents
<1>1. ASSUME NEW c \in Callers, StartCapture(c) PROVE CallTypes'
  <2>1. CASE StartWrite(c) \/ Dispatch(c)
    BY <1>1, <2>1 DEF StartWrite, Dispatch, TypeOK, CallTypes
  <2>2. CASE Restart(c) \/ Launch(c)
    <3>1. /\ pc' = [pc EXCEPT ![c] = IF Restart(c) THEN "launch" ELSE "idle"]
          /\ arg' = [arg EXCEPT ![c] = IF Restart(c) THEN arg[c] ELSE NoSize]
          /\ UNCHANGED <<source, life, delayed, loop, passes, races>>
      BY <2>2 DEF Restart, Launch
    <3>2. QED
      BY <3>1 DEF TypeOK, CallTypes
  <2>3. QED
    BY <1>1, <2>1, <2>2 DEF StartCapture
<1>2. CASE DelayedStart \/ PostedBind \/ Connected \/ Disconnected
  BY <1>2 DEF DelayedStart, PostedBind, Connected, Disconnected, TypeOK, CallTypes
<1>3. CASE ServePending
  BY <1>3 DEF ServePending, PendingStart, TypeOK, CallTypes, EngineTypes
<1>4. CASE StopPending \/ StopCall \/ Unbind \/ Destroy
  BY <1>4 DEF StopPending, StopCall, Unbind, Destroy, TypeOK, CallTypes
<1>5. CASE \E s \in Sizes : BeginPass(s)
  BY <1>5, BoundsAssumption DEF BeginPass, TypeOK, CallTypes
<1>6. CASE PausePending \/ PauseCall \/ TearDown \/ ReadEngine
  BY <1>6 DEF PausePending, PauseCall, TearDown, ReadEngine, TypeOK, CallTypes
<1>7. CASE InitLoop
  BY <1>7 DEF InitLoop, TypeOK, CallTypes
<1>8. CASE Exit \/ Dies
  <2>1. /\ pc' = [c \in Callers |-> IF Calling(c) THEN "idle" ELSE pc[c]]
        /\ arg' = [c \in Callers |-> IF Calling(c) THEN NoSize ELSE arg[c]]
        /\ UNCHANGED <<source, life, delayed, loop, passes>>
        /\ races' \subseteq races \union {"failed"}
    BY <1>8 DEF Exit, Dies, EndProcess
  <2>2. QED
    BY <2>1 DEF Calling, TypeOK, CallTypes
<1>9. CASE \E w \in Workers : Worker(w)
  BY <1>9 DEF Worker, WorkerInit, Deliver, WorkerTest, Sleep, TypeOK, CallTypes
<1>10. CASE UNCHANGED vars
  BY <1>10 DEF vars, TypeOK, CallTypes
<1>11. QED
  BY <1>1, <1>2, <1>3, <1>4, <1>5, <1>6, <1>7, <1>8, <1>9, <1>10 DEF Next, Main, Reinit

LEMMA EngineTypeStep == ASSUME TypeOK, [Next]_vars PROVE EngineTypes'
<1>1. ASSUME NEW c \in Callers, StartCapture(c) PROVE EngineTypes'
  BY <1>1 DEF StartCapture, StartWrite, Dispatch, Restart, Launch, TypeOK, CallTypes, EngineTypes
<1>2. CASE PostedBind \/ Connected \/ Disconnected \/ Unbind
  BY <1>2 DEF PostedBind, Connected, Disconnected, Unbind, TypeOK, EngineTypes
<1>3. CASE StopPending \/ PausePending
  BY <1>3 DEF StopPending, PausePending, ClearPending, TypeOK, EngineTypes
<1>4. CASE Exit \/ Dies
  BY <1>4 DEF Exit, Dies, EndProcess, TypeOK, EngineTypes
<1>5. CASE UNCHANGED engineVars
  BY <1>5 DEF TypeOK, EngineTypes
<1>6. QED
  BY <1>1, <1>2, <1>3, <1>4, <1>5
     DEF Next, Main, Reinit, vars, DelayedStart, ServePending, StopCall, Destroy, BeginPass,
         PauseCall, TearDown, InitLoop, ReadEngine, Worker

\* What a step of a worker does to the workers.
LEMMA WorkerMoves ==
  ASSUME NEW w \in Workers, TypeOK, Worker(w)
  PROVE  \E there \in {"test", "deliver", "sleep", "gone"} :
           /\ Move(w, there)
           /\ there = "gone" => ~running' \/ interrupted[w]
           /\ running' => running
           /\ UNCHANGED <<process, worker>>
<1>1. CASE WorkerInit(w)
  <2>1. UNCHANGED <<process, worker>>
    BY <1>1 DEF WorkerInit
  <2>2. CASE Move(w, "test") /\ UNCHANGED running
    BY <2>1, <2>2
  <2>3. CASE Move(w, "gone") /\ running' = FALSE
    BY <2>1, <2>3
  <2>4. QED
    BY <1>1, <2>2, <2>3 DEF WorkerInit, ClearFlag
<1>2. CASE Deliver(w)
  <2>1. Move(w, "sleep") /\ UNCHANGED <<process, worker>>
    BY <1>2 DEF Deliver
  <2>2. running' = FALSE \/ UNCHANGED running
    BY <1>2 DEF Deliver, ClearFlag
  <2>3. QED
    BY <2>1, <2>2
<1>3. CASE WorkerTest(w)
  BY <1>3 DEF WorkerTest
<1>4. CASE Sleep(w)
  <2>1. CASE Move(w, "gone") /\ interrupted[w]
    BY <1>4, <2>1 DEF Sleep
  <2>2. CASE Move(w, "test")
    BY <1>4, <2>2 DEF Sleep
  <2>3. QED
    BY <1>4, <2>1, <2>2 DEF Sleep
<1>5. QED
  BY <1>1, <1>2, <1>3, <1>4 DEF Worker

LEMMA ServiceTypeStep ==
  ASSUME TypeOK, HandleInv, [Next]_vars
  PROVE  ServiceTypes'
<1>1. CASE StopCapture
  BY <1>1 DEF StopCapture, InterruptWorker, TypeOK, ServiceTypes
<1>2. ASSUME NEW c \in Callers, Launch(c) PROVE ServiceTypes'
  <2> DEFINE w == CHOOSE w \in Workers : Gone(w)
  <2>1. w \in Workers /\ w # NoWorker
    BY <1>2, BoundsAssumption DEF Launch, Workers, NoWorker
  <2> HIDE DEF w
  <2>2. /\ running' = TRUE /\ worker' = w /\ UNCHANGED process
        /\ state' = [state EXCEPT ![w] = "init"]
        /\ interrupted' = [interrupted EXCEPT ![w] = FALSE]
        /\ size' = [size EXCEPT ![w] = arg[c]]
    BY <1>2 DEF Launch, w
  <2>3. QED
    BY <2>1, <2>2 DEF TypeOK, CallTypes, ServiceTypes, Gone
<1>3. CASE EndProcess
  BY <1>3 DEF EndProcess, ServiceTypes
<1>4. ASSUME NEW w \in Workers, Worker(w) PROVE ServiceTypes'
  <2>1. PICK there \in {"test", "deliver", "sleep", "gone"} :
           /\ Move(w, there)
           /\ there = "gone" => ~running' \/ interrupted[w]
           /\ running' => running
           /\ UNCHANGED <<process, worker>>
    BY <1>4, WorkerMoves
  <2>2. running' \in BOOLEAN
    BY <1>4 DEF Worker, WorkerInit, Deliver, WorkerTest, Sleep, ClearFlag, TypeOK, ServiceTypes
  <2>3. /\ state' \in [Workers -> {"init", "test", "deliver", "sleep", "gone"}]
        /\ interrupted' \in [Workers -> BOOLEAN]
        /\ size' \in [Workers -> Sizes \union {NoSize}]
    BY <2>1 DEF Move, TypeOK, ServiceTypes
  <2>4. running' => worker' # NoWorker /\ ~Gone(worker)'
    BY <2>1 DEF Move, Gone, HandleInv, TypeOK, ServiceTypes
  <2>5. QED
    BY <2>1, <2>2, <2>3, <2>4 DEF TypeOK, ServiceTypes
<1>5. CASE Connected \/ Unbind
  BY <1>5 DEF Connected, Unbind, TypeOK, ServiceTypes, Gone
<1>6. CASE UNCHANGED <<serviceVars, workerVars>>
  BY <1>6 DEF TypeOK, ServiceTypes, Gone
<1>7. QED
  BY <1>1, <1>2, <1>3, <1>4, <1>5, <1>6
     DEF Next, Main, Reinit, vars, StartCapture, StartWrite, Dispatch, Restart, DelayedStart,
         PostedBind, ServePending, Disconnected, StopPending, StopCall, Destroy, BeginPass,
         PausePending, PauseCall, TearDown, InitLoop, ReadEngine, Exit, Dies

LEMMA CaptureTypeStep == ASSUME TypeOK, HandleInv, [Next]_vars PROVE TypeOK'
  BY CallTypeStep, EngineTypeStep, ServiceTypeStep DEF TypeOK

-----------------------------------------------------------------------------
(* The parts of the invariant.                                             *)

\* What has happened stays recorded.
LEMMA RacesStay == ASSUME [Next]_vars PROVE races \subseteq races'
<1> USE DEF Record
<1>1. CASE Main
  <2>1. CASE StartCapture("main")
    BY <2>1 DEF StartCapture, StartWrite, Dispatch, Restart, Launch
  <2>2. CASE DelayedStart \/ PostedBind \/ Connected \/ ServePending \/ Disconnected
             \/ StopPending \/ StopCall \/ Unbind
    BY <2>2 DEF DelayedStart, PostedBind, Connected, ServePending, Disconnected,
                StopPending, StopCall, Unbind
  <2>3. QED
    BY <1>1, <2>1, <2>2 DEF Main
<1>2. CASE Reinit
  BY <1>2 DEF Reinit, StartCapture, StartWrite, Dispatch, Restart, Launch, PausePending,
              PauseCall, TearDown, InitLoop, ReadEngine
<1>3. CASE Destroy \/ (\E s \in Sizes : BeginPass(s)) \/ Exit \/ Dies
  BY <1>3 DEF Destroy, BeginPass, Exit, Dies
<1>4. CASE (\E w \in Workers : Worker(w)) \/ UNCHANGED vars
  BY <1>4 DEF Worker, WorkerInit, Deliver, WorkerTest, Sleep, vars
<1>5. QED
  BY <1>1, <1>2, <1>3, <1>4 DEF Next

LEMMA HandleStep == ASSUME TypeOK, HandleInv, [Next]_vars PROVE HandleInv'
<1> USE DEF Goto, GotoWith
<1>1. ASSUME NEW c \in Callers, StartWrite(c) \/ Dispatch(c) PROVE HandleInv'
  BY <1>1 DEF StartWrite, Dispatch, TypeOK, CallTypes, HandleInv
<1>2. ASSUME NEW c \in Callers, Restart(c) PROVE HandleInv'
  BY <1>2 DEF Restart, StopCapture, TypeOK, CallTypes, HandleInv
<1>3. ASSUME NEW c \in Callers, Launch(c) PROVE HandleInv'
  <2>1. /\ pc' = [pc EXCEPT ![c] = "idle"] /\ arg' = [arg EXCEPT ![c] = NoSize]
        /\ pc[c] = "launch" /\ UNCHANGED life
        /\ worker' \in Workers /\ interrupted' = [interrupted EXCEPT ![worker'] = FALSE]
    BY <1>3 DEF Launch
  <2>2. QED
    BY <2>1 DEF TypeOK, CallTypes, ServiceTypes, HandleInv
<1>4. CASE DelayedStart \/ PostedBind \/ Connected \/ ServePending \/ Disconnected
  BY <1>4 DEF DelayedStart, PostedBind, Connected, ServePending, Disconnected,
              TypeOK, CallTypes, HandleInv
<1>5. CASE StopPending \/ StopCall \/ Unbind \/ Destroy
  BY <1>5 DEF StopPending, StopCall, StopCapture, Unbind, Destroy, TypeOK, CallTypes, HandleInv
<1>6. CASE \E s \in Sizes : BeginPass(s)
  BY <1>6 DEF BeginPass, TypeOK, CallTypes, HandleInv
<1>7. CASE PausePending \/ PauseCall \/ TearDown
  BY <1>7 DEF PausePending, PauseCall, StopCapture, TearDown, TypeOK, CallTypes, HandleInv
<1>8. CASE InitLoop \/ ReadEngine
  BY <1>8 DEF InitLoop, ReadEngine, TypeOK, CallTypes, HandleInv
<1>9. CASE Exit \/ Dies
  <2>1. /\ pc' = [c \in Callers |-> IF Calling(c) THEN "idle" ELSE pc[c]]
        /\ arg' = [c \in Callers |-> IF Calling(c) THEN NoSize ELSE arg[c]]
        /\ worker' = NoWorker /\ UNCHANGED life
    BY <1>9 DEF Exit, Dies, EndProcess
  <2>2. QED
    BY <2>1 DEF Calling, HandleInv
<1>10. ASSUME NEW w \in Workers, Worker(w) PROVE HandleInv'
  <2>1. UNCHANGED <<pc, arg, life, worker>>
    BY <1>10 DEF Worker, WorkerInit, Deliver, WorkerTest, Sleep
  <2>2. \A v \in Workers : interrupted'[v] => interrupted[v]
    BY <1>10, WorkerMoves DEF Move, TypeOK, ServiceTypes
  <2>3. QED
    BY <2>1, <2>2 DEF TypeOK, ServiceTypes, HandleInv
<1>11. CASE UNCHANGED vars
  BY <1>11 DEF vars, HandleInv
<1>12. QED
  BY <1>1, <1>2, <1>3, <1>4, <1>5, <1>6, <1>7, <1>8, <1>9, <1>10, <1>11
     DEF Next, Main, Reinit, StartCapture

LEMMA TurnStays ==
  ASSUME [Next]_vars
  PROVE  /\ InTurn' => InTurn
         /\ Undisturbed' => Undisturbed /\ InTurn'
  BY RacesStay DEF InTurn, Undisturbed, Overlaps

LEMMA TurnStep ==
  ASSUME TypeOK, HandleInv, TurnInv, [Next]_vars, InTurn'
  PROVE  TurnInv'
<1> USE DEF Goto, GotoWith
<1>0. /\ ~At("reinit", "idle") => At("main", "idle") /\ delayed = NoSize /\ life = "up"
      /\ \A c \in Callers : At(c, "launch") => worker = NoWorker
      /\ \A w \in Workers : ~Gone(w) /\ ~interrupted[w] => w = worker
  BY TurnStays DEF TurnInv
<1>1. ASSUME NEW c \in Callers, StartWrite(c) \/ Dispatch(c) PROVE TurnInv'
  <2>1. /\ \A d \in Callers : pc'[d] = IF d = c THEN pc'[c] ELSE pc[d]
        /\ pc[c] # "idle" /\ pc'[c] # "launch"
        /\ UNCHANGED <<delayed, life, worker, state, interrupted>>
    BY <1>1 DEF StartWrite, Dispatch, TypeOK, CallTypes
  <2>2. QED
    BY <1>0, <2>1 DEF TurnInv, Gone
<1>2. ASSUME NEW c \in Callers, Restart(c) PROVE TurnInv'
  <2>1. /\ pc' = [pc EXCEPT ![c] = "launch"] /\ pc[c] = "restart"
        /\ UNCHANGED <<delayed, life, state>> /\ worker' = NoWorker
        /\ interrupted' = [w \in Workers |-> interrupted[w] \/ w = worker]
    BY <1>2 DEF Restart, StopCapture, InterruptWorker
  <2>2. QED
    BY <1>0, <2>1 DEF TypeOK, CallTypes, TurnInv, Gone
<1>3. ASSUME NEW c \in Callers, Launch(c) PROVE TurnInv'
  <2>1. /\ pc' = [pc EXCEPT ![c] = "idle"] /\ pc[c] = "launch"
        /\ UNCHANGED <<delayed, life>> /\ worker' \in Workers
        /\ state' = [state EXCEPT ![worker'] = "init"]
        /\ interrupted' = [interrupted EXCEPT ![worker'] = FALSE]
    BY <1>3 DEF Launch
  <2>2. \A d \in Callers : pc[d] = "launch" => d = c
    BY <1>0, <2>1
  <2>3. \A w \in Workers : ~Gone(w) => interrupted[w]
    BY <1>0, <2>1, BoundsAssumption DEF Workers, NoWorker
  <2>4. ~At("reinit", "idle")' => At("main", "idle")' /\ delayed' = NoSize /\ life' = "up"
    BY <1>0, <2>1 DEF TypeOK, CallTypes
  <2>5. \A d \in Callers : ~At(d, "launch")'
    BY <2>1, <2>2 DEF TypeOK, CallTypes
  <2>6. \A w \in Workers : ~Gone(w)' /\ ~interrupted'[w] => w = worker'
    BY <2>1, <2>3 DEF TypeOK, ServiceTypes, Gone
  <2>7. QED
    BY <2>4, <2>5, <2>6 DEF TurnInv
<1>4. CASE DelayedStart \/ PostedBind \/ ServePending \/ Disconnected \/ StopPending
  BY <1>0, <1>4 DEF DelayedStart, PostedBind, ServePending, Disconnected, StopPending,
                    TypeOK, CallTypes, TurnInv, Gone
<1>5. CASE Connected \/ Destroy
  BY <1>0, <1>5 DEF Connected, Destroy, Record, InTurn, Overlaps, TypeOK, CallTypes,
                    TurnInv, Gone
<1>6. CASE StopCall \/ PauseCall
  <2>1. CASE StopCapture
    <3>1. worker' = NoWorker /\ UNCHANGED state
          /\ interrupted' = [w \in Workers |-> interrupted[w] \/ w = worker]
      BY <2>1 DEF StopCapture, InterruptWorker
    <3>2. \A w \in Workers : ~Gone(w)' /\ ~interrupted'[w] => w = worker'
      BY <1>0, <3>1 DEF Gone
    <3>3. QED
      BY <1>0, <1>6, <3>1, <3>2 DEF StopCall, PauseCall, TypeOK, CallTypes, TurnInv
  <2>2. CASE UNCHANGED <<serviceVars, workerVars>>
    BY <1>0, <1>6, <2>2 DEF StopCall, PauseCall, TypeOK, CallTypes, TurnInv, Gone
  <2>3. QED
    BY <1>6, <2>1, <2>2 DEF StopCall, PauseCall
<1>7. CASE Unbind
  BY <1>0, <1>7 DEF Unbind, TypeOK, CallTypes, TurnInv, Gone
<1>8. CASE \E s \in Sizes : BeginPass(s)
  BY <1>0, <1>8 DEF BeginPass, Record, InTurn, Overlaps, TypeOK, CallTypes, TurnInv, Gone
<1>9. CASE PausePending \/ TearDown \/ InitLoop \/ ReadEngine
  BY <1>0, <1>9 DEF PausePending, TearDown, InitLoop, ReadEngine, TypeOK, CallTypes,
                    TurnInv, Gone
<1>10. CASE Exit \/ Dies
  <2>1. /\ pc' = [c \in Callers |-> IF Calling(c) THEN "idle" ELSE pc[c]]
        /\ state' = [w \in Workers |-> "gone"] /\ UNCHANGED <<delayed, life>>
    BY <1>10 DEF Exit, Dies, EndProcess
  <2>2. QED
    BY <1>0, <2>1 DEF Calling, TurnInv, Gone
<1>11. ASSUME NEW w \in Workers, Worker(w) PROVE TurnInv'
  <2>1. UNCHANGED <<pc, delayed, life, worker>>
    BY <1>11 DEF Worker, WorkerInit, Deliver, WorkerTest, Sleep
  <2>2. \A v \in Workers : ~Gone(v)' /\ ~interrupted'[v] => ~Gone(v) /\ ~interrupted[v]
    <3>1. state[w] # "gone"
      BY <1>11 DEF Worker, WorkerInit, Deliver, WorkerTest, Sleep
    <3>2. PICK there : Move(w, there)
      BY <1>11, WorkerMoves
    <3>3. QED
      BY <3>1, <3>2 DEF Move, Gone, TypeOK, ServiceTypes
  <2>3. QED
    BY <1>0, <2>1, <2>2 DEF TurnInv
<1>12. CASE UNCHANGED vars
  BY <1>0, <1>12 DEF vars, TurnInv, Gone
<1>13. QED
  BY <1>1, <1>2, <1>3, <1>4, <1>5, <1>6, <1>7, <1>8, <1>9, <1>10, <1>11, <1>12
     DEF Next, Main, Reinit, StartCapture

LEMMA FitStep ==
  ASSUME TypeOK, HandleInv, TurnInv, FitInv, [Next]_vars, Undisturbed'
  PROVE  FitInv'
<1> USE SizesAssumption DEF Goto, GotoWith, Starting, NoSize
<1>0. /\ ~At("reinit", "idle") => At("main", "idle") /\ delayed = NoSize /\ life = "up"
      /\ Fits
  BY TurnStays DEF TurnInv, FitInv
<1> SUFFICES Fits'
  BY DEF FitInv
<1>1. CASE StartCapture("main") \/ StartCapture("reinit")
  <2> SUFFICES ASSUME NEW c \in Callers, StartCapture(c) PROVE Fits'
    BY <1>1
  <2>0. c = "main" => At("reinit", "idle")
    BY <1>0 DEF StartCapture, StartWrite, Dispatch, Restart, Launch
  <2>1. CASE StartWrite(c)
    BY <1>0, <2>0, <2>1 DEF StartWrite, Calling, TypeOK, CallTypes, Fits
  <2>2. CASE Dispatch(c)
    BY <1>0, <2>0, <2>2 DEF Dispatch, Calling, TypeOK, CallTypes, Fits
  <2>3. CASE Restart(c)
    BY <1>0, <2>0, <2>3 DEF Restart, StopCapture, Calling, TypeOK, CallTypes, Fits
  <2>4. CASE Launch(c)
    <3>1. /\ pc' = [pc EXCEPT ![c] = "idle"] /\ arg' = [arg EXCEPT ![c] = NoSize]
          /\ pc[c] = "launch" /\ running' = TRUE /\ worker' \in Workers
          /\ size' = [size EXCEPT ![worker'] = arg[c]]
          /\ UNCHANGED <<life, delayed, loop, pending, service>>
      BY <2>4 DEF Launch
    <3>2. arg[c] = loop /\ loop # NoSize /\ service = "live"
      BY <1>0, <3>1 DEF Fits, Calling, HandleInv
    <3>3. size'[worker'] = loop
      BY <3>1, <3>2 DEF TypeOK, ServiceTypes
    <3>4. QED
      BY <1>0, <2>0, <3>1, <3>2, <3>3 DEF Calling, TypeOK, CallTypes, Fits
  <2>5. QED
    BY <2>1, <2>2, <2>3, <2>4 DEF StartCapture
<1>2. CASE DelayedStart \/ PostedBind \/ ServePending \/ Disconnected
  BY <1>0, <1>2 DEF DelayedStart, PostedBind, ServePending, PendingStart, Disconnected,
                    Calling, TypeOK, CallTypes, Fits
<1>3. CASE Connected
  BY <1>0, <1>3 DEF Connected, Calling, TypeOK, CallTypes, Fits
<1>4. CASE Destroy
  BY <1>0, <1>4 DEF Destroy, Undisturbed, Calling, TypeOK, CallTypes, Fits
<1>5. CASE StopPending \/ StopCall
  BY <1>0, <1>5 DEF StopPending, ClearPending, StopCall, StopCapture, Calling,
                    TypeOK, CallTypes, HandleInv, Fits
<1>6. CASE Unbind
  BY <1>0, <1>6 DEF Unbind, Calling, TypeOK, CallTypes, HandleInv, Fits
<1>7. CASE \E s \in Sizes : BeginPass(s)
  BY <1>0, <1>7 DEF BeginPass, Calling, TypeOK, CallTypes, Fits
<1>8. CASE PausePending \/ PauseCall
  BY <1>0, <1>8 DEF PausePending, ClearPending, PauseCall, StopCapture, Calling,
                    TypeOK, CallTypes, Fits
<1>9. CASE TearDown \/ InitLoop \/ ReadEngine
  BY <1>0, <1>9 DEF TearDown, InitLoop, ReadEngine, Calling, TypeOK, CallTypes, HandleInv, Fits
<1>10. CASE Exit \/ Dies
  <2>1. /\ pc' = [c \in Callers |-> IF Calling(c) THEN "idle" ELSE pc[c]]
        /\ arg' = [c \in Callers |-> IF Calling(c) THEN NoSize ELSE arg[c]]
        /\ running' = FALSE /\ UNCHANGED <<life, delayed, loop, pending>>
    BY <1>10 DEF Exit, Dies, EndProcess
  <2>2. QED
    BY <1>0, <2>1 DEF Calling, Fits
<1>11. ASSUME NEW w \in Workers, Worker(w) PROVE Fits'
  <2>1. UNCHANGED <<pc, arg, life, delayed, loop, pending, service, worker>>
    BY <1>11 DEF Worker, WorkerInit, Deliver, WorkerTest, Sleep
  <2>2. running' => running /\ size'[worker] = size[worker]
    <3>1. PICK there : /\ Move(w, there)
                       /\ there = "gone" => ~running' \/ interrupted[w]
                       /\ running' => running
      BY <1>11, WorkerMoves
    <3>2. QED
      BY <3>1 DEF Move, TypeOK, ServiceTypes, HandleInv
  <2>3. QED
    BY <1>0, <2>1, <2>2 DEF Calling, Fits
<1>12. CASE UNCHANGED vars
  BY <1>0, <1>12 DEF vars, Calling, Fits
<1>13. QED
  BY <1>1, <1>2, <1>3, <1>4, <1>5, <1>6, <1>7, <1>8, <1>9, <1>10, <1>11, <1>12
     DEF Next, Main, Reinit

-----------------------------------------------------------------------------
(* The theorems.                                                           *)

LEMMA CaptureInvariant == Spec => []CaptureInv
<1>1. Init => CaptureInv
  <2> SUFFICES ASSUME Init PROVE CaptureInv
    OBVIOUS
  <2>1. HandleInv /\ TurnInv
    BY DEF Init, HandleInv, TurnInv, Gone
  <2>2. FitInv
    BY SizesAssumption DEF Init, FitInv, Fits, Starting, Calling, NoSize
  <2>3. QED
    BY <2>1, <2>2, CaptureTypeInit DEF CaptureInv
<1>2. CaptureInv /\ [Next]_vars => CaptureInv'
  <2> SUFFICES ASSUME CaptureInv, [Next]_vars PROVE CaptureInv'
    OBVIOUS
  <2>1. TypeOK' /\ HandleInv'
    BY CaptureTypeStep, HandleStep DEF CaptureInv
  <2>2. TurnInv'
    BY TurnStep DEF CaptureInv, TurnInv
  <2>3. FitInv'
    BY FitStep DEF CaptureInv, FitInv
  <2>4. QED
    BY <2>1, <2>2, <2>3 DEF CaptureInv
<1>3. QED
  BY <1>1, <1>2, PTL DEF Spec

\* The engine, the proxy of its service and the workers keep their types, and
\* the flag is only set for a worker that is alive, whatever overlaps.
THEOREM CaptureTypes == Spec => []TypeOK
<1>1. CaptureInv => TypeOK
  BY DEF CaptureInv
<1>2. QED
  BY <1>1, CaptureInvariant, PTL

\* At most one worker goes on capturing, over pauses, rebinds, a process that
\* dies and workers that notice late, unless two starts met.
THEOREM OneWorkerFeeds == Spec => []OneFeeder
<1>1. CaptureInv => OneFeeder
  BY DEF CaptureInv, TurnInv, InTurn, OneFeeder
<1>2. QED
  BY <1>1, CaptureInvariant, PTL

\* Between passes the capture has the size of the loop it feeds, and no start
\* of another size is left over, unless starts overlapped a pass or came after
\* onDestroy.
THEOREM CaptureHasLoopSize == Spec => []CaptureFitsLoop
<1>1. CaptureInv => CaptureFitsLoop
  BY DEF CaptureInv, FitInv, Fits, Undisturbed, CaptureFitsLoop, TypeOK, ServiceTypes
<1>2. QED
  BY <1>1, CaptureInvariant, PTL

=============================================================================
