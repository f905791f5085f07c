------------------------------- MODULE Benchmark -------------------------------
(***************************************************************************)
(* The benchmark: BenchmarkController's worker thread walks through a list *)
(* of runs; for each it rewrites the user's preferences, asks the service  *)
(* for a reinitialisation through the main looper, waits for a fixed time  *)
(* and samples the counters of whatever loop is there then.  At the end it *)
(* writes the preferences back and posts the end of the session.           *)
(*                                                                         *)
(* The controller is one object for the process: its state and its cancel  *)
(* flag outlive the session, and so does its worker.  What is not the       *)
(* benchmark's is reduced to what it sees: a session, its reinit thread    *)
(* with its coalescing (whole in ForegroundSession), and the user, who may *)
(* edit, cancel or stop at any time.  The nine settings of the fixed       *)
(* preset are one field of the preferences.                                *)
(***************************************************************************)
EXTENDS Naturals, FiniteSets, Sequences

CONSTANTS
  Multipliers,   \* MULTIPLIERS
  Precisions,    \* the precision modes the device can run, FALSE for FP32
  UserSettings,  \* what the user may choose
  MaxSessions,   \* bound: sessions in the life of the process
  MaxWorkers     \* bound: workers alive at a time

ASSUME ListsAssumption ==
  /\ Multipliers \in Seq(Nat) /\ Len(Multipliers) > 0
  /\ Precisions \in Seq(BOOLEAN) /\ Len(Precisions) > 0
ASSUME BoundsAssumption == {MaxSessions, MaxWorkers} \subseteq Nat \ {0}
ASSUME UserAssumption == UserSettings \subseteq [mult : Nat, fp16 : BOOLEAN, rest : {"user"}]

Workers == 1..MaxWorkers
NoSession == 0
NoSettings == [mult |-> 0, fp16 |-> FALSE, rest |-> "none"]

\* A run's place in the two loops, precision outside.
Runs == Len(Precisions) * Len(Multipliers)
Precision(r)  == ((r - 1) \div Len(Multipliers)) + 1
Multiplier(r) == ((r - 1) % Len(Multipliers)) + 1
Preset(r) == [mult |-> Multipliers[Multiplier(r)],
              fp16 |-> Precisions[Precision(r)], rest |-> "preset"]
\* What break out of the inner loop comes to.
AfterBreak(r) == (Precision(r) * Len(Multipliers)) + 1

VARIABLES
  prefs, chosen,  \* the stored preferences, and the user's own (history)
  state,          \* the controller's: "idle", "running", "completed", "failed"
  cancelRequested,
  pc, saved, run, \* per worker: where it is, its snapshot, its run
  hooks,          \* per worker: the session it was started by
  measured,       \* per worker: runs measured in full on a loop of their own
  unbuilt,        \* per worker: runs whose last pass of the reinit failed
  steady,         \* per worker: the loop is the run's since the baseline
  reported,       \* the runs the last report holds,
  excused,        \* and those whose loop could not be built (history)
  session, stopping, last, \* the session, onDestroy asked for, sessions so far
  posted,         \* what waits in the main looper for the session
  loop,           \* settings of the native loop, none when none generates
  reinit, requested, read, \* the reinit thread, reinitRequested, what it read
  spoiled         \* history: what a race has spoiled, "report" or "prefs"

control == <<state, cancelRequested>>
sampled == <<measured, unbuilt>>
workers == <<pc, saved, run, hooks, sampled, steady>>
report  == <<reported, excused>>
service == <<session, stopping, last>>
passes  == <<reinit, requested, read>>
vars == <<prefs, chosen, control, workers, report, service, posted, loop,
          passes, spoiled>>

Init ==
  /\ prefs \in UserSettings /\ chosen = prefs
  /\ state = "idle" /\ cancelRequested = FALSE
  /\ pc = [w \in Workers |-> "gone"] /\ hooks = [w \in Workers |-> NoSession]
  /\ saved = [w \in Workers |-> NoSettings] /\ run = [w \in Workers |-> 1]
  /\ measured = [w \in Workers |-> {}] /\ unbuilt = [w \in Workers |-> {}]
  /\ steady = [w \in Workers |-> FALSE]
  /\ reported = {} /\ excused = {}
  /\ session = NoSession /\ stopping = FALSE /\ last = 0
  /\ posted = {} /\ loop = NoSettings
  /\ reinit = "idle" /\ requested = FALSE /\ read = NoSettings
  /\ spoiled = {}

At(w, here) == pc[w] = here
Goto(w, there) == pc' = [pc EXCEPT ![w] = there]
Spoils(what, race) == spoiled' = IF race THEN spoiled \union what ELSE spoiled
Both == {"report", "prefs"}

\* Between its snapshot and the end of its finally block.
Holding(w) == ~ (pc[w] \in {"gone", "reset", "snapshot", "crash"})

-----------------------------------------------------------------------------
(* The worker.                                                             *)

Reset(w) ==
  /\ At(w, "reset")
  /\ cancelRequested' = FALSE
  /\ Goto(w, "snapshot")
  /\ UNCHANGED <<prefs, chosen, state, saved, run, hooks, sampled, steady,
                 report, service, posted, loop, passes, spoiled>>

Snapshot(w) ==
  /\ At(w, "snapshot")
  /\ saved' = [saved EXCEPT ![w] = prefs]
  /\ Goto(w, "preset")
  /\ UNCHANGED <<prefs, chosen, control, run, hooks, sampled, steady,
                 report, service, posted, loop, passes, spoiled>>

ApplyPreset(w) ==
  /\ At(w, "preset")
  /\ prefs' = [prefs EXCEPT !.rest = "preset"]
  /\ Goto(w, "next")
  /\ UNCHANGED <<chosen, control, saved, run, hooks, sampled, steady, report,
                 service, posted, loop, passes, spoiled>>

\* The tests at the head of either loop; the run's own two settings.
BeginRun(w) ==
  /\ At(w, "next")
  /\ \/ run[w] > Runs /\ Goto(w, "report") /\ UNCHANGED prefs
     \/ run[w] <= Runs /\ cancelRequested /\ Goto(w, "fail") /\ UNCHANGED prefs
     \/ /\ run[w] <= Runs /\ ~ cancelRequested
        /\ prefs' = [prefs EXCEPT !.mult = Preset(run[w]).mult,
                                  !.fp16 = Preset(run[w]).fp16]
        /\ Goto(w, "request")
  /\ UNCHANGED <<chosen, control, saved, run, hooks, sampled, steady, report,
                 service, posted, loop, passes, spoiled>>

\* What is posted to a session that is gone has no effect.
Post(kind, w) == posted' = IF hooks[w] = session THEN posted \union {kind} ELSE posted

\* requestReinit posts; only now does the controller say that it runs.
RequestReinit(w) == Post("reinit", w)

Request(w) ==
  /\ At(w, "request")
  /\ RequestReinit(w)
  /\ state' = "running"
  /\ Goto(w, "warmup")
  /\ UNCHANGED <<prefs, chosen, cancelRequested, saved, run, hooks, sampled,
                 steady, report, service, loop, passes, spoiled>>

\* Two seconds later, or at once when cancelled.  The reinitialisation may
\* not be over.
Warm(w) ==
  /\ At(w, "warmup")
  /\ \/ /\ cancelRequested
        /\ run' = [run EXCEPT ![w] = AfterBreak(run[w])]
        /\ Goto(w, "next")
        /\ UNCHANGED <<state, spoiled>>
     \/ /\ ~ cancelRequested
        /\ state' = "running"
        /\ Spoils({"report"}, "reinit" \in posted \/ reinit # "idle")
        /\ Goto(w, "baseline")
        /\ UNCHANGED run
  /\ UNCHANGED <<prefs, chosen, cancelRequested, saved, hooks, sampled, steady,
                 report, service, posted, loop, passes>>

\* collect reads the counters once and then samples differences to them.
Baseline(w) ==
  /\ At(w, "baseline")
  /\ steady' = [steady EXCEPT ![w] = loop = Preset(run[w])]
  /\ Goto(w, "sampling")
  /\ UNCHANGED <<prefs, chosen, control, saved, run, hooks, sampled, report,
                 service, posted, loop, passes, spoiled>>

\* collect returns after a minute, or earlier when cancelled, and its result
\* is added.
Collected(w) ==
  /\ At(w, "sampling")
  /\ measured' = [measured EXCEPT ![w] =
       IF steady[w] /\ ~ cancelRequested THEN @ \union {run[w]} ELSE @]
  /\ run' = [run EXCEPT ![w] = @ + 1]
  /\ steady' = [steady EXCEPT ![w] = FALSE]
  /\ Goto(w, "next")
  /\ UNCHANGED <<prefs, chosen, control, saved, hooks, unbuilt, report, service,
                 posted, loop, passes, spoiled>>

\* Mutant: a cancelled benchmark completes with what it has.
NeverCancelled(w) == FALSE
CancelledAtEnd(w) == cancelRequested

\* The test after the loops, then the report is written.
Report(w) ==
  /\ At(w, "report")
  /\ \/ CancelledAtEnd(w) /\ Goto(w, "fail") /\ UNCHANGED <<state, report, posted>>
     \/ /\ ~ CancelledAtEnd(w)
        /\ state' = "completed"
        /\ reported' = measured[w] /\ excused' = unbuilt[w]
        /\ Post("stop", w)
        /\ Goto(w, "restore")
  /\ UNCHANGED <<prefs, chosen, cancelRequested, saved, run, hooks, sampled,
                 steady, service, loop, passes, spoiled>>

\* onFailed.  Mutant: the service does not hear of it.
QuietFail(w) == UNCHANGED posted
PostFailed(w) == Post("stop", w)

\* The state and the callback come first, the preferences after them.
Fail(w) ==
  /\ At(w, "fail")
  /\ state' = "failed"
  /\ PostFailed(w)
  /\ Goto(w, "restore")
  /\ UNCHANGED <<prefs, chosen, cancelRequested, saved, run, hooks, sampled,
                 steady, report, service, loop, passes, spoiled>>

\* Mutant: the worker keeps its session's hooks.
LeaveHooked(w) ==
  /\ pc' = [pc EXCEPT ![w] = "gone"]
  /\ UNCHANGED <<hooks, saved, run, sampled>>

Leave(w) ==
  /\ pc' = [pc EXCEPT ![w] = "gone"]
  /\ hooks' = [hooks EXCEPT ![w] = NoSession]
  /\ saved' = [saved EXCEPT ![w] = NoSettings]
  /\ run' = [run EXCEPT ![w] = 1]
  /\ measured' = [measured EXCEPT ![w] = {}]
  /\ unbuilt' = [unbuilt EXCEPT ![w] = {}]

\* The finally block.  Mutant: the precision is not written back.
RestoreButPrecision(w) == [saved[w] EXCEPT !.fp16 = prefs.fp16]
RestoreSaved(w) == saved[w]

Restore(w) ==
  /\ At(w, "restore")
  /\ prefs' = RestoreSaved(w)
  /\ Leave(w)
  /\ UNCHANGED <<chosen, control, steady, report, service, posted, loop, passes,
                 spoiled>>

\* A native call or the report's file throws: the finally block runs first,
\* then the handler in start.
Throw(w) ==
  /\ pc[w] \in {"sampling", "report"}
  /\ prefs' = RestoreSaved(w)
  /\ steady' = [steady EXCEPT ![w] = FALSE]
  /\ Goto(w, "crash")
  /\ UNCHANGED <<chosen, control, saved, run, hooks, sampled, report, service,
                 posted, loop, passes, spoiled>>

Crash(w) ==
  /\ At(w, "crash")
  /\ state' = "failed"
  /\ PostFailed(w)
  /\ Leave(w)
  /\ UNCHANGED <<prefs, chosen, cancelRequested, steady, report, service, loop,
                 passes, spoiled>>

Worker(w) ==
  \/ Reset(w) \/ Snapshot(w) \/ ApplyPreset(w) \/ BeginRun(w) \/ Request(w)
  \/ Warm(w) \/ Baseline(w) \/ Collected(w) \/ Report(w) \/ Fail(w)
  \/ Restore(w) \/ Throw(w) \/ Crash(w)

-----------------------------------------------------------------------------
(* The service's main thread.                                              *)

\* start: the state says nothing of a worker that has not published yet or
\* has published its end.
StartWorker(s) ==
  \/ /\ state = "running"
     /\ UNCHANGED <<pc, hooks, spoiled>>
  \/ /\ state # "running"
     /\ \E w \in Workers : At(w, "gone")
     /\ LET w == CHOOSE w \in Workers : At(w, "gone") IN
          /\ Goto(w, "reset")
          /\ hooks' = [hooks EXCEPT ![w] = s]
     /\ Spoils(Both, \E w \in Workers : ~ At(w, "gone"))

\* The session's first initContext has succeeded.
BeginSession ==
  /\ session = NoSession /\ last < MaxSessions
  /\ last' = last + 1 /\ session' = last' /\ stopping' = FALSE
  /\ loop' = prefs
  /\ StartWorker(last')
  /\ UNCHANGED <<prefs, chosen, control, saved, run, sampled, steady, report,
                 posted, passes>>

\* Coalescing: a request during a pass makes that pass run again, unless it
\* comes after the pass's last look.
Lost == reinit = "end"
AskForPass ==
  \/ reinit = "idle" /\ reinit' = "read" /\ requested' = FALSE
  \/ reinit # "idle" /\ requested' = TRUE /\ UNCHANGED reinit

HandleReinit ==
  /\ "reinit" \in posted
  /\ posted' = posted \ {"reinit"}
  /\ AskForPass /\ Spoils({"report"}, Lost)
  /\ UNCHANGED <<prefs, chosen, control, workers, report, service, loop, read>>

\* onCompleted and onFailed end the session.
HandleStop ==
  /\ "stop" \in posted
  /\ posted' = posted \ {"stop"}
  /\ stopping' = TRUE
  /\ UNCHANGED <<prefs, chosen, control, workers, report, session, last, loop,
                 passes, spoiled>>

\* What a worker samples while the loop goes.
NoneSteady == [w \in Workers |-> FALSE]

\* onDestroy waits for the reinit thread and destroys the loop.  It does not
\* tell the controller.
Destroy ==
  /\ session # NoSession /\ stopping /\ reinit = "idle"
  /\ session' = NoSession /\ stopping' = FALSE /\ posted' = {}
  /\ loop' = NoSettings /\ steady' = NoneSteady
  /\ Spoils({"report"},
            \E w \in Workers : ~ pc[w] \in {"gone", "fail", "restore", "crash"})
  /\ UNCHANGED <<prefs, chosen, control, pc, saved, run, hooks, sampled,
                 report, last, passes>>

-----------------------------------------------------------------------------
(* The reinit thread.                                                      *)

PassRead ==
  /\ reinit = "read"
  /\ requested' = FALSE /\ read' = prefs /\ reinit' = "init"
  /\ UNCHANGED <<prefs, chosen, control, workers, report, service, posted, loop,
                 spoiled>>

\* The run a worker has asked for and is waiting for.
Awaited(w) == IF At(w, "warmup") THEN {run[w]} ELSE {}

\* The old loop goes, and the new one comes; or initContext fails (no loop) or
\* comes up without framegen (none that generates).  Of neither is the
\* controller told.
PassInit ==
  /\ reinit = "init"
  /\ \/ /\ loop' = read
        /\ unbuilt' = [w \in Workers |-> unbuilt[w] \ Awaited(w)]
     \/ /\ loop' = NoSettings
        /\ unbuilt' = [w \in Workers |-> unbuilt[w] \union Awaited(w)]
  /\ read' = NoSettings /\ steady' = NoneSteady
  /\ reinit' = "test"
  /\ UNCHANGED <<prefs, chosen, control, pc, saved, run, hooks, measured, report,
                 service, posted, requested, spoiled>>

PassTest ==
  /\ reinit = "test"
  /\ reinit' = IF requested THEN "read" ELSE "end"
  /\ UNCHANGED <<prefs, chosen, control, workers, report, service, posted, loop,
                 requested, read, spoiled>>

PassEnd ==
  /\ reinit = "end"
  /\ reinit' = "idle" /\ requested' = FALSE
  /\ UNCHANGED <<prefs, chosen, control, workers, report, service, posted, loop,
                 read, spoiled>>

Reinit == PassRead \/ PassInit \/ PassTest \/ PassEnd

-----------------------------------------------------------------------------
(* The user.                                                               *)

\* The benchmark screen shows its button while the state it polled is not
\* "running"; pressing it clears what an earlier benchmark left.
Acknowledge ==
  /\ state \in {"completed", "failed"}
  /\ state' = "idle" /\ reported' = {} /\ excused' = {}
  /\ UNCHANGED <<prefs, chosen, cancelRequested, workers, service, posted, loop,
                 passes, spoiled>>

\* Cancel stops the session as well.
Cancel ==
  /\ state = "running"
  /\ cancelRequested' = TRUE
  /\ stopping' = (session # NoSession)
  /\ UNCHANGED <<prefs, chosen, state, workers, report, session, last, posted,
                 loop, passes, spoiled>>

\* Stopped from the notification or by the system.
StopSession ==
  /\ session # NoSession
  /\ stopping' = TRUE
  /\ UNCHANGED <<prefs, chosen, control, workers, report, session, last, posted,
                 loop, passes, spoiled>>

\* In the application's screens, and in the drawer while there is a session,
\* which then asks for a pass.  isRunning gates neither.  Bound: upwards only.
Edit ==
  \E s \in UserSettings :
    /\ s.mult > chosen.mult
    /\ chosen' = [chosen EXCEPT !.mult = s.mult]
    /\ prefs' = [prefs EXCEPT !.mult = s.mult]
    /\ \/ session # NoSession /\ AskForPass
       \/ session = NoSession /\ UNCHANGED <<reinit, requested>>
    /\ Spoils(Both, \E w \in Workers : Holding(w))
    /\ UNCHANGED <<control, workers, report, service, posted, loop, read>>

-----------------------------------------------------------------------------
Main == BeginSession \/ HandleReinit \/ HandleStop \/ Destroy
User == Acknowledge \/ Cancel \/ StopSession \/ Edit
Next == (\E w \in Workers : Worker(w)) \/ Main \/ Reinit \/ User

\* Threads run; the looper delivers what was posted, and onDestroy.
Fairness ==
  /\ \A w \in Workers : WF_vars(Worker(w))
  /\ WF_vars(HandleReinit) /\ WF_vars(HandleStop) /\ WF_vars(Destroy)
  /\ WF_vars(Reinit)

Spec == Init /\ [][Next]_vars /\ Fairness

-----------------------------------------------------------------------------
Stored == [mult : Nat, fp16 : BOOLEAN, rest : {"user", "preset"}]
InRun == {"request", "warmup", "baseline", "sampling"}
Saving == InRun \union {"preset", "next", "report", "fail", "restore"}

PrefTypes ==
  /\ prefs \in Stored /\ chosen \in Stored
  /\ {read, loop} \subseteq Stored \union {NoSettings}
  /\ saved \in [Workers -> Stored \union {NoSettings}]
  /\ \A w \in Workers : pc[w] \in Saving => saved[w] \in Stored
WorkerTypes ==
  /\ pc \in [Workers -> {"gone", "reset", "snapshot"} \union Saving \union {"crash"}]
  /\ run \in [Workers -> 1..(Runs + 1)]
  /\ hooks \in [Workers -> 0..MaxSessions]
  /\ \A w \in Workers : hooks[w] = NoSession <=> At(w, "gone")
  /\ measured \in [Workers -> SUBSET (1..Runs)]
  /\ unbuilt \in [Workers -> SUBSET (1..Runs)]
  /\ reported \subseteq 1..Runs /\ excused \subseteq 1..Runs
  /\ \A w \in Workers : pc[w] \in InRun => run[w] \in 1..Runs
  /\ steady \in [Workers -> BOOLEAN]
  /\ \A w \in Workers : steady[w] => At(w, "sampling")
ServiceTypes ==
  /\ state \in {"idle", "running", "completed", "failed"}
  /\ cancelRequested \in BOOLEAN /\ stopping \in BOOLEAN /\ requested \in BOOLEAN
  /\ session \in 0..last /\ last \in 0..MaxSessions
  /\ posted \subseteq {"reinit", "stop"}
  /\ reinit \in {"idle", "read", "init", "test", "end"}

\* Type correctness; a worker that is not there belongs to no session, and
\* one that has a snapshot to write back has a whole one.
TypeOK == PrefTypes /\ WorkerTypes /\ ServiceTypes

\* A completed benchmark has measured every run for its whole time, on one
\* loop with that run's multiplier and precision and the preset, but for the runs
\* whose own reinitialisation failed: such a failure costs no other run.
\* Excepted: a warm-up shorter than the reinitialisation, a request lost at the
\* end of a pass, an edit, a session stopped under the worker, two workers.
ReportIsWhole ==
  state = "completed" /\ "report" \notin spoiled
    => \A r \in 1..Runs : r \in reported \/ r \in excused

\* A completed benchmark has measured every run.  Does not hold: a run without a
\* loop, or without framegen, is sampled and reported all the same.  README,
\* section 6.
ReportIsMeasured ==
  state = "completed" /\ "report" \notin spoiled => reported = 1..Runs

\* Once no worker is between its snapshot and the end of its finally block,
\* the preferences are what the user last chose: after a completion, a cancel,
\* an exception or a session stopped half-way.  Excepted: an edit under the
\* benchmark, which the worker overwrites, and a worker that started before
\* the last one had written back.
PrefsRestored ==
  (\A w \in Workers : ~ Holding(w)) /\ "prefs" \notin spoiled
    => prefs = chosen

\* A session whose benchmark has started ends: with the report, with a cancel
\* or with an exception.
SessionEnds ==
  \A s \in 1..MaxSessions :
    (session = s /\ \E w \in Workers : hooks[w] = s) ~> (session # s)
=============================================================================
