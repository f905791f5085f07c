--------------------------- MODULE PrivilegedCapture ---------------------------
(***************************************************************************)
(* Capture through Shizuku or root: ShizukuCaptureEngine, RootCaptureEngine *)
(* and the service each of them binds in a process with more rights        *)
(* (ShizukuCaptureUserService, RootCaptureService).                        *)
(*                                                                         *)
(* The engine is driven by two threads of the application: the main thread *)
(* (the start posted 500 ms after the session's, the callbacks of the      *)
(* connection, onDestroy) and the reinit thread, whose pass pauses the     *)
(* capture, replaces the native loop and starts the capture again.  Their  *)
(* calls run in the service on one binder thread each, without a lock.     *)
(* The service replaces its worker thread at each start; all workers share *)
(* one flag, running.                                                      *)
(*                                                                         *)
(* metricsOnly is left out: nothing calls startMetricsOnly.                *)
(***************************************************************************)
EXTENDS Naturals, FiniteSets

CONSTANTS
  Sizes,       \* sizes of the overlay, thus of the loop and of the capture
  MaxPasses,   \* bound: passes of the reinit thread
  MaxWorkers,  \* bound: workers alive at a time
  Env          \* environment events a run enables, a subset of EnvEvents

\* The last five are recorded in races when they happen.
EnvEvents == {"initFails", "notReady", "workerFails", "serviceDies",
              "earlyReinit", "slowConnect", "slowReinit", "earlyDestroy",
              "slowCapture"}

ASSUME SizesAssumption  == Sizes \subseteq Nat \ {0} /\ Sizes # {}
ASSUME BoundsAssumption == MaxPasses \in Nat /\ MaxWorkers \in Nat \ {0}
ASSUME EnvAssumption    == Env \subseteq EnvEvents

Sources == {"shizuku", "root"}
Callers == {"main", "reinit"}
Workers == 1..MaxWorkers
NoSize == 0
NoWorker == 0

VARIABLES
  source,     \* the engine of the session
  life,       \* "up", "stopping" or "destroyed"
  delayed,    \* size of the start posted with the session's, until it runs
  loop,       \* size of the native loop, NoSize while there is none
  pc,         \* per thread: where it is
  arg,        \* per thread: the size of its startCapture or its pass
  passes,     \* passes so far
  pending,    \* pendingStart
  service,    \* the engine's proxy: "null", "live" or "dead"
  binding,    \* a bind was asked for and onServiceConnected has not come yet
  postedBind, \* a bind waits in the main looper
  process,    \* the service's process: "none", "alive" or "doomed"
  running,    \* the service's flag
  worker,     \* the service's worker field
  state,      \* per worker: where it is in runCaptureLoop
  interrupted, size,
  races       \* history: what went wrong so far

engineVars  == <<pending, service, binding, postedBind>>
serviceVars == <<process, running, worker>>
workerVars  == <<state, interrupted, size>>
vars == <<source, life, delayed, loop, pc, arg, passes, engineVars, serviceVars,
          workerVars, races>>

\* The session's initContext has succeeded for the first size.
Init ==
  /\ source \in Sources /\ life = "up"
  /\ loop \in Sizes /\ delayed = loop
  /\ pc = [c \in Callers |-> "idle"] /\ arg = [c \in Callers |-> NoSize]
  /\ passes = 0
  /\ pending = NoSize /\ service = "null" /\ binding = FALSE /\ postedBind = FALSE
  /\ process = "none" /\ running = FALSE /\ worker = NoWorker
  /\ state = [w \in Workers |-> "gone"]
  /\ interrupted = [w \in Workers |-> FALSE]
  /\ size = [w \in Workers |-> NoSize]
  /\ races = {}

At(c, here) == pc[c] = here
GotoWith(c, there, a) == pc' = [pc EXCEPT ![c] = there] /\ arg' = [arg EXCEPT ![c] = a]
Goto(c, there) == GotoWith(c, there, IF there = "idle" THEN NoSize ELSE arg[c])
Record(event, happens) == races' = IF happens THEN races \union {event} ELSE races

-----------------------------------------------------------------------------
(* The service's calls.                                                    *)

\* stopCapture.  Mutant: the worker is not interrupted.
NoInterrupt == interrupted
InterruptWorker == [w \in Workers |-> interrupted[w] \/ w = worker]

StopCapture ==
  /\ running' = FALSE /\ worker' = NoWorker
  /\ interrupted' = InterruptWorker
  /\ UNCHANGED <<process, state, size>>

\* A thread that is not alive yet or any more.
Gone(w) == state[w] = "gone"

-----------------------------------------------------------------------------
(* Engine: startCapture on either thread.                                  *)

StartWrite(c) ==
  /\ At(c, "start")
  /\ pending' = arg[c]
  /\ Goto(c, "dispatch")
  /\ UNCHANGED <<source, life, delayed, loop, passes, service, binding,
                 postedBind, serviceVars, workerVars, races>>

\* Without a service that answers, bind: libsu only binds on the main thread.
Dispatch(c) ==
  /\ At(c, "dispatch")
  /\ \/ /\ service = "live"
        /\ Goto(c, "restart")
        /\ UNCHANGED <<binding, postedBind, races>>
     \/ /\ service # "live"
        /\ \/ "notReady" \in Env /\ UNCHANGED <<binding, postedBind>>
              /\ Record("failed", TRUE)
           \/ /\ IF source = "root" /\ c = "reinit"
                 THEN postedBind' = TRUE /\ UNCHANGED binding
                 ELSE binding' = TRUE /\ UNCHANGED postedBind
              /\ UNCHANGED races
        /\ Goto(c, "idle")
  /\ UNCHANGED <<source, life, delayed, loop, passes, pending, service,
                 serviceVars, workerVars>>

\* The service's startCapture begins with stopCapture.
Restart(c) ==
  /\ At(c, "restart")
  /\ StopCapture
  /\ Goto(c, "launch")
  /\ UNCHANGED <<source, life, delayed, loop, passes, engineVars, races>>

Launch(c) ==
  LET w == CHOOSE w \in Workers : Gone(w) IN
  /\ At(c, "launch") /\ \E u \in Workers : Gone(u)
  /\ running' = TRUE /\ worker' = w
  /\ state' = [state EXCEPT ![w] = "init"]
  /\ interrupted' = [interrupted EXCEPT ![w] = FALSE]
  /\ size' = [size EXCEPT ![w] = arg[c]]
  /\ Goto(c, "idle")
  /\ UNCHANGED <<source, life, delayed, loop, passes, engineVars, process,
                 races>>

StartCapture(c) == StartWrite(c) \/ Dispatch(c) \/ Restart(c) \/ Launch(c)

-----------------------------------------------------------------------------
(* Main thread.                                                            *)

\* The session's first start.  Nothing removes it from the queue.
DelayedStart ==
  /\ At("main", "idle") /\ delayed # NoSize
  /\ delayed' = NoSize
  /\ GotoWith("main", "start", delayed)
  /\ UNCHANGED <<source, life, loop, passes, engineVars, serviceVars, workerVars,
                 races>>

PostedBind ==
  /\ At("main", "idle") /\ postedBind
  /\ postedBind' = FALSE /\ binding' = TRUE
  /\ UNCHANGED <<source, life, delayed, loop, pc, arg, passes, pending, service,
                 serviceVars, workerVars, races>>

\* onServiceConnected: the process is up.  A process that unbind has condemned
\* is not bound again.
Connected ==
  /\ At("main", "idle") /\ binding /\ process # "doomed"
  /\ At("reinit", "idle") \/ "slowConnect" \in Env
  /\ binding' = FALSE
  /\ process' = "alive" /\ service' = "live"
  /\ Goto("main", "connected")
  /\ Record("slowConnect", ~At("reinit", "idle"))
  /\ UNCHANGED <<source, life, delayed, loop, passes, pending, postedBind,
                 running, worker, workerVars>>

\* The start that waits for the connection.  Mutant: it is forgotten.
Forget == NoSize
PendingStart == pending

ServePending ==
  /\ At("main", "connected")
  /\ GotoWith("main", IF PendingStart = NoSize THEN "idle" ELSE "start", PendingStart)
  /\ UNCHANGED <<source, life, delayed, loop, passes, engineVars, serviceVars,
                 workerVars, races>>

Disconnected ==
  /\ At("main", "idle") /\ service = "dead"
  /\ service' = "null"
  /\ UNCHANGED <<source, life, delayed, loop, pc, arg, passes, pending, binding,
                 postedBind, serviceVars, workerVars, races>>

\* onDestroy waits for a pass, but not for long.
Destroy ==
  /\ At("main", "idle") /\ life = "up"
  /\ At("reinit", "idle") \/ "slowReinit" \in Env
  /\ delayed = NoSize \/ "earlyDestroy" \in Env
  /\ life' = "stopping"
  /\ Goto("main", "stop")
  /\ races' = races \union (IF At("reinit", "idle") THEN {} ELSE {"slowReinit"})
                    \union (IF delayed = NoSize THEN {} ELSE {"earlyDestroy"})
  /\ UNCHANGED <<source, delayed, loop, passes, engineVars, serviceVars,
                 workerVars>>

\* stop and pauseCapture forget the pending start first.
\* Mutant: they do not.
KeepPending == pending
ClearPending == NoSize

StopPending ==
  /\ At("main", "stop")
  /\ pending' = ClearPending
  /\ Goto("main", "stopCall")
  /\ UNCHANGED <<source, life, delayed, loop, passes, service, binding,
                 postedBind, serviceVars, workerVars, races>>

StopCall ==
  /\ At("main", "stopCall")
  /\ IF service = "live" THEN StopCapture ELSE UNCHANGED <<serviceVars, workerVars>>
  /\ Goto("main", "unbind")
  /\ UNCHANGED <<source, life, delayed, loop, passes, engineVars, races>>

\* unbind, and the service drops the engine and the native loop.
Unbind ==
  /\ At("main", "unbind")
  /\ service' = "null" /\ binding' = FALSE
  /\ process' = IF process = "alive" THEN "doomed" ELSE process
  /\ life' = "destroyed" /\ loop' = NoSize
  /\ Goto("main", "idle")
  /\ UNCHANGED <<source, delayed, passes, pending, postedBind, running,
                 worker, workerVars, races>>

Main == DelayedStart \/ PostedBind \/ Connected \/ ServePending \/ Disconnected
        \/ StopPending \/ StopCall \/ Unbind \/ StartCapture("main")

-----------------------------------------------------------------------------
(* Reinit thread: what a pass does to the capture.                         *)

\* The main thread requests a pass, for a parameter or for another size.
BeginPass(s) ==
  /\ At("main", "idle") /\ At("reinit", "idle") /\ life = "up"
  /\ passes < MaxPasses /\ (delayed = NoSize \/ "earlyReinit" \in Env)
  /\ passes' = passes + 1
  /\ GotoWith("reinit", IF loop = NoSize THEN "init" ELSE "pause", s)
  /\ Record("earlyReinit", delayed # NoSize)
  /\ UNCHANGED <<source, life, delayed, loop, engineVars, serviceVars, workerVars>>

PausePending ==
  /\ At("reinit", "pause")
  /\ pending' = ClearPending
  /\ Goto("reinit", "pauseCall")
  /\ UNCHANGED <<source, life, delayed, loop, passes, service, binding,
                 postedBind, serviceVars, workerVars, races>>

PauseCall ==
  /\ At("reinit", "pauseCall")
  /\ IF service = "live" THEN StopCapture ELSE UNCHANGED <<serviceVars, workerVars>>
  /\ Goto("reinit", "teardown")
  /\ UNCHANGED <<source, life, delayed, loop, passes, engineVars, races>>

TearDown ==
  /\ At("reinit", "teardown")
  /\ loop' = NoSize
  /\ Goto("reinit", "init")
  /\ UNCHANGED <<source, life, delayed, passes, engineVars, serviceVars,
                 workerVars, races>>

\* Only a pass whose initContext succeeds starts the capture again.
InitLoop ==
  /\ At("reinit", "init")
  /\ \/ loop' = arg["reinit"] /\ Goto("reinit", "engine")
     \/ "initFails" \in Env /\ UNCHANGED loop /\ Goto("reinit", "idle")
  /\ UNCHANGED <<source, life, delayed, passes, engineVars, serviceVars,
                 workerVars, races>>

\* The service's field is null once it is destroyed.
ReadEngine ==
  /\ At("reinit", "engine")
  /\ Goto("reinit", IF life = "destroyed" THEN "idle" ELSE "start")
  /\ UNCHANGED <<source, life, delayed, loop, passes, engineVars, serviceVars,
                 workerVars, races>>

Reinit == PausePending \/ PauseCall \/ TearDown \/ InitLoop \/ ReadEngine
          \/ StartCapture("reinit")

-----------------------------------------------------------------------------
(* The service's process and its workers.                                  *)

\* All its threads end; a call in progress throws in its caller, which goes on.
Calling(c) == pc[c] \in {"restart", "launch"}

EndProcess ==
  /\ process' = "none" /\ running' = FALSE /\ worker' = NoWorker
  /\ state' = [w \in Workers |-> "gone"]
  /\ interrupted' = [w \in Workers |-> FALSE]
  /\ size' = [w \in Workers |-> NoSize]
  /\ pc' = [c \in Callers |-> IF Calling(c) THEN "idle" ELSE pc[c]]
  /\ arg' = [c \in Callers |-> IF Calling(c) THEN NoSize ELSE arg[c]]
  /\ UNCHANGED <<source, life, delayed, loop, passes, pending, binding,
                 postedBind>>

\* destroy, which unbind asks for.
Exit == process = "doomed" /\ EndProcess /\ UNCHANGED <<service, races>>

Dies ==
  /\ "serviceDies" \in Env /\ process = "alive"
  /\ EndProcess
  /\ service' = IF service = "live" THEN "dead" ELSE service
  /\ Record("failed", TRUE)

Move(w, there) ==
  /\ state' = [state EXCEPT ![w] = there]
  /\ interrupted' = [interrupted EXCEPT ![w] = @ /\ there # "gone"]
  /\ size' = [size EXCEPT ![w] = IF there = "gone" THEN NoSize ELSE @]

\* PrivilegedScreenCapture cannot be built or, with Shizuku, the smoke test
\* yields nothing or its frame cannot be delivered.  The flag the worker clears
\* is everybody's.  Mutant: it is left set.
KeepFlag == UNCHANGED running
ClearFlag == running' = FALSE

WorkerInit(w) ==
  /\ state[w] = "init"
  /\ \/ Move(w, "test") /\ UNCHANGED <<running, races>>
     \/ /\ "workerFails" \in Env
        /\ ClearFlag /\ Record("failed", TRUE)
        /\ Move(w, "gone")
  /\ UNCHANGED <<process, worker>>

\* onFrame; when it throws, running is cleared.
Deliver(w) ==
  /\ state[w] = "deliver"
  /\ \/ UNCHANGED <<running, races>>
     \/ "workerFails" \in Env /\ ClearFlag /\ Record("failed", TRUE)
  /\ Move(w, "sleep")
  /\ UNCHANGED <<process, worker>>

\* The loop's condition and the capture, which may yield nothing.
WorkerTest(w) ==
  /\ state[w] = "test"
  /\ \/ ~running /\ Move(w, "gone")
     \/ running /\ (Move(w, "deliver") \/ Move(w, "sleep"))
  /\ UNCHANGED <<serviceVars, races>>

\* Only a sleep notices the interrupt, and a capture that took longer than the
\* period does not sleep.
Sleep(w) ==
  /\ state[w] = "sleep"
  /\ \/ Move(w, IF interrupted[w] THEN "gone" ELSE "test") /\ UNCHANGED races
     \/ /\ "slowCapture" \in Env /\ interrupted[w]
        /\ Move(w, "test") /\ Record("slowCapture", TRUE)
  /\ UNCHANGED serviceVars

Worker(w) ==
  /\ WorkerInit(w) \/ Deliver(w) \/ WorkerTest(w) \/ Sleep(w)
  /\ UNCHANGED <<source, life, delayed, loop, pc, arg, passes, engineVars>>

Next ==
  \/ Main \/ Destroy \/ Reinit \/ \E s \in Sizes : BeginPass(s)
  \/ Exit \/ Dies \/ \E w \in Workers : Worker(w)

Spec == Init /\ [][Next]_vars

\* The two threads, the workers and a condemned process run.  Nobody has to
\* destroy the session or to begin a pass.
FairSpec ==
  /\ Spec
  /\ WF_vars(Main) /\ WF_vars(Reinit) /\ WF_vars(Exit)
  /\ \A w \in Workers : WF_vars(Worker(w))

-----------------------------------------------------------------------------
(* Correctness.                                                            *)

CallTypes ==
  /\ source \in Sources /\ life \in {"up", "stopping", "destroyed"}
  /\ delayed \in Sizes \union {NoSize} /\ loop \in Sizes \union {NoSize}
  /\ pc["main"] \in {"idle", "connected", "start", "dispatch", "restart", "launch",
                     "stop", "stopCall", "unbind"}
  /\ pc["reinit"] \in {"idle", "pause", "pauseCall", "teardown", "init", "engine",
                       "start", "dispatch", "restart", "launch"}
  /\ DOMAIN pc = Callers /\ arg \in [Callers -> Sizes \union {NoSize}]
  /\ passes \in 0..MaxPasses
  /\ races \subseteq EnvEvents \union {"failed"}
EngineTypes ==
  /\ pending \in Sizes \union {NoSize} /\ service \in {"null", "live", "dead"}
  /\ binding \in BOOLEAN /\ postedBind \in BOOLEAN
\* With the types: the flag is set for a worker that is there.
ServiceTypes ==
  /\ process \in {"none", "alive", "doomed"} /\ running \in BOOLEAN
  /\ worker \in Workers \union {NoWorker}
  /\ running => worker # NoWorker /\ ~Gone(worker)
  /\ state \in [Workers -> {"init", "test", "deliver", "sleep", "gone"}]
  /\ interrupted \in [Workers -> BOOLEAN] /\ size \in [Workers -> Sizes \union {NoSize}]
TypeOK == CallTypes /\ EngineTypes /\ ServiceTypes

\* What lets two starts meet, or a start carry a size that is no longer the
\* loop's: a pass before the delayed start, a connection during a pass, a
\* destruction during a pass.
Overlaps == {"earlyReinit", "slowConnect", "slowReinit"}

\* At most one worker goes on capturing; the others have been told to end.
\* Two starts that meet leave a worker nobody knows: README, section 6.
OneFeeder ==
  races \intersect Overlaps = {} =>
    \A u, w \in Workers :
      ~Gone(u) /\ ~interrupted[u] /\ ~Gone(w) /\ ~interrupted[w] => u = w

\* Between passes the capture has the size of the loop it feeds and no start of
\* another size is left over; without a loop, and after onDestroy, there is no
\* capture and no start that would begin one.  The exceptions are starts that
\* overlap a pass or come after onDestroy: README, section 6.
CaptureFitsLoop ==
  /\ races \intersect (Overlaps \union {"earlyDestroy"}) = {}
  /\ life # "stopping" /\ delayed = NoSize /\ \A c \in Callers : At(c, "idle")
  => /\ pending \in {NoSize, loop}
     /\ running => worker # NoWorker /\ size[worker] = loop

\* A start that nobody takes back is served, over binds, rebinds and the
\* callbacks of the connection, unless the service or a worker fails.
StartServed ==
  \A s \in Sizes :
    (pending = s) ~>
      \/ pending # s \/ races \intersect (Overlaps \union {"failed"}) # {}
      \/ /\ worker # NoWorker /\ size[worker] = s
         /\ state[worker] \in {"deliver", "sleep"}
=============================================================================
