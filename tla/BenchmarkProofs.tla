---------------------------- MODULE BenchmarkProofs ----------------------------
(***************************************************************************)
(* Proofs about Benchmark for all lists of multipliers and precisions, all *)
(* settings of the user and every number of sessions and workers.  What    *)
(* races break is excluded by their record in spoiled, as in the           *)
(* properties.                                                             *)
(***************************************************************************)
EXTENDS Benchmark, TLAPS

\* Two workers at a time are recorded.
AloneInv ==
  ~ (Both \subseteq spoiled) =>
    \A u, w \in Workers : ~ At(u, "gone") /\ ~ At(w, "gone") => u = w

\* The snapshot is what the user chose, while the preferences are not.
PrefsInv ==
  "prefs" \notin spoiled =>
    /\ (\A w \in Workers : ~ Holding(w)) => prefs = chosen
    /\ \A w \in Workers : Holding(w) => saved[w] = chosen

Ended == {"gone", "fail", "restore", "crash"}

\* A loop with the settings p is there or on its way.
LoopComing(p) ==
  \/ "reinit" \in posted \/ reinit = "read"
  \/ reinit = "init" /\ (read = p \/ requested)
  \/ reinit = "test" /\ (loop = p \/ requested)
  \/ reinit \in {"idle", "end"} /\ loop = p

\* The loop of the worker's run failed to come, and no other is on its way.
LoopFailed(w) == run[w] \in unbuilt[w] /\ reinit \in {"test", "end", "idle"}

\* The run r was measured, or could not be.
Accounted(w, r) == r \in measured[w] \/ r \in unbuilt[w]

\* The worker's session is there, the preferences are its run's, their loop is
\* on its way and then steady, unless its pass has failed, and each run before
\* this one is accounted for.
Whole(w) ==
  /\ pc[w] \notin Ended => hooks[w] = session
  /\ pc[w] \in {"gone", "reset", "snapshot", "preset"} => run[w] = 1
  /\ pc[w] \in InRun \union {"next", "report"} /\ ~ cancelRequested
       => \A r \in 1..(run[w] - 1) : Accounted(w, r)
  /\ At(w, "next") => prefs.rest = "preset"
  /\ pc[w] \in InRun => prefs = Preset(run[w])
  /\ At(w, "warmup") => LoopComing(Preset(run[w])) \/ LoopFailed(w)
  /\ pc[w] \in {"baseline", "sampling"} =>
       /\ reinit = "idle" /\ "reinit" \notin posted
       /\ loop = Preset(run[w]) \/ run[w] \in unbuilt[w]
  /\ At(w, "sampling") => steady[w] \/ run[w] \in unbuilt[w]
  /\ At(w, "report") => run[w] = Runs + 1

ReportWhole == state = "completed" => \A r \in 1..Runs : r \in reported \/ r \in excused

WholeInv ==
  "report" \notin spoiled => ReportWhole /\ \A w \in Workers : Whole(w)

BenchmarkInv == TypeOK /\ AloneInv /\ PrefsInv /\ WholeInv

USE DEF control, workers, sampled, report, service, passes, At, Goto

-----------------------------------------------------------------------------
(* The two loops over precisions and multipliers.                          *)

LEMMA ProductBound ==
  ASSUME NEW k \in Nat, NEW n \in Nat, NEW q \in Nat, k <= n
  PROVE  k * q \in Nat /\ n * q \in Nat /\ k * q <= n * q
<1>1. (n - k) * q \in Nat
  OBVIOUS
<1>2. n * q = (k * q) + ((n - k) * q)
  OBVIOUS
<1>3. QED
  BY <1>1, <1>2

LEMMA RunsPositive ==
  /\ Len(Precisions) \in Nat \ {0} /\ Len(Multipliers) \in Nat \ {0}
  /\ Runs \in Nat \ {0}
<1>1. Len(Precisions) \in Nat \ {0} /\ Len(Multipliers) \in Nat \ {0}
  BY ListsAssumption
<1>2. QED
  BY <1>1 DEF Runs

LEMMA BoundsPositive == MaxSessions \in Nat \ {0} /\ MaxWorkers \in Nat \ {0}
  BY BoundsAssumption

\* A run has a place in either list, and leaving the inner loop early ends the
\* run's precision, not more than the list.
LEMMA RunPlaces ==
  ASSUME NEW r \in 1..Runs
  PROVE  /\ Precision(r) \in 1..Len(Precisions)
         /\ Multiplier(r) \in 1..Len(Multipliers)
         /\ AfterBreak(r) \in 1..(Runs + 1)
<1> DEFINE q == (r - 1) \div Len(Multipliers)
           n == Len(Multipliers)
<1>1. n \in Nat \ {0} /\ Len(Precisions) \in Nat \ {0} /\ r - 1 \in Nat /\ r <= Runs
  BY RunsPositive
<1>2. q \in Nat /\ q * n <= r - 1 /\ (r - 1) % n \in 0..(n - 1)
  BY <1>1
<1> HIDE DEF q, n
<1>3. q < Len(Precisions)
  <2> SUFFICES ASSUME Len(Precisions) <= q PROVE FALSE
    BY <1>1, <1>2
  <2>1. Len(Precisions) * n <= q * n
    BY <1>1, <1>2, ProductBound
  <2>2. QED
    BY <1>1, <1>2, <2>1 DEF Runs, n
<1>4. Precision(r) \in 1..Len(Precisions)
  BY <1>1, <1>2, <1>3 DEF Precision, q, n
<1>5. Multiplier(r) \in 1..Len(Multipliers)
  BY <1>1, <1>2 DEF Multiplier, n
<1>6. AfterBreak(r) \in 1..(Runs + 1)
  <2>1. Precision(r) * n \in Nat /\ Precision(r) * n <= Len(Precisions) * n
    BY <1>1, <1>4, ProductBound
  <2>2. QED
    BY <1>1, <2>1 DEF AfterBreak, Runs, n
<1>7. QED
  BY <1>4, <1>5, <1>6

LEMMA PresetStored ==
  ASSUME NEW r \in 1..Runs
  PROVE  Preset(r) \in Stored /\ Preset(r).rest = "preset"
<1>1. Multipliers[Multiplier(r)] \in Nat /\ Precisions[Precision(r)] \in BOOLEAN
  BY RunPlaces, ListsAssumption
<1>2. QED
  BY <1>1 DEF Preset, Stored

\* Preferences are three fields.
LEMMA StoredFields ==
  ASSUME NEW p \in Stored
  PROVE  /\ p.mult \in Nat /\ p.fp16 \in BOOLEAN /\ p.rest \in {"user", "preset"}
         /\ p = [mult |-> p.mult, fp16 |-> p.fp16, rest |-> p.rest]
  BY DEF Stored

-----------------------------------------------------------------------------
(* Types.                                                                  *)

LEMMA BenchmarkTypeInit == Init => TypeOK
<1> SUFFICES ASSUME Init PROVE TypeOK
  OBVIOUS
<1>1. PrefTypes
  BY UserAssumption DEF Init, PrefTypes, Stored, Saving, InRun
<1>2. WorkerTypes
  BY RunsPositive, BoundsAssumption DEF Init, WorkerTypes, NoSession, InRun
<1>3. ServiceTypes
  <2>1. session \in 0..last /\ last \in 0..MaxSessions
    BY BoundsPositive DEF Init, NoSession
  <2>2. cancelRequested \in BOOLEAN /\ stopping \in BOOLEAN /\ requested \in BOOLEAN
    BY DEF Init
  <2>3. QED
    BY <2>1, <2>2 DEF Init, ServiceTypes
<1>4. QED
  BY <1>1, <1>2, <1>3 DEF TypeOK

LEMMA PrefTypeStep == ASSUME TypeOK, [Next]_vars PROVE PrefTypes'
<1> USE DEF TypeOK, PrefTypes, WorkerTypes, Saving, InRun
<1>1. ASSUME NEW w \in Workers, Worker(w) PROVE PrefTypes'
  <2>1. CASE Reset(w) \/ Request(w) \/ Warm(w) \/ Baseline(w) \/ Collected(w) \/ Report(w)
             \/ Fail(w)
    BY <2>1 DEF Reset, Request, Warm, Baseline, Collected, Report, Fail
  <2>2. CASE Snapshot(w)
    BY <2>2 DEF Snapshot
  <2>3. CASE ApplyPreset(w)
    <3>1. prefs' \in Stored
      BY <2>3 DEF ApplyPreset, Stored
    <3>2. QED
      BY <2>3, <3>1 DEF ApplyPreset
  <2>4. CASE BeginRun(w)
    <3>1. prefs' \in Stored
      <4>1. CASE UNCHANGED prefs
        BY <4>1
      <4>2. CASE prefs' = [prefs EXCEPT !.mult = Preset(run[w]).mult,
                                       !.fp16 = Preset(run[w]).fp16]
                 /\ run[w] <= Runs
        <5>1. run[w] \in 1..Runs
          BY <4>2, RunsPositive
        <5>2. Preset(run[w]).mult \in Nat /\ Preset(run[w]).fp16 \in BOOLEAN
          BY <5>1, PresetStored, StoredFields
        <5>3. QED
          BY <4>2, <5>2 DEF Stored
      <4>3. QED
        BY <2>4, <4>1, <4>2 DEF BeginRun
    <3>2. QED
      BY <2>4, <3>1 DEF BeginRun
  <2>5. CASE Restore(w) \/ Throw(w)
    <3>1. saved[w] \in Stored
      BY <2>5 DEF Restore, Throw
    <3>2. QED
      BY <2>5, <3>1 DEF Restore, Throw, RestoreSaved, Leave
  <2>6. CASE Crash(w)
    BY <2>6 DEF Crash, Leave
  <2>7. QED
    BY <1>1, <2>1, <2>2, <2>3, <2>4, <2>5, <2>6 DEF Worker
<1>2. CASE BeginSession
  <2>1. \A w \in Workers : pc'[w] \in Saving => pc[w] \in Saving
    BY <1>2 DEF BeginSession, StartWorker
  <2>2. UNCHANGED <<prefs, chosen, read, saved>> /\ loop' = prefs
    BY <1>2 DEF BeginSession
  <2>3. QED
    BY <2>1, <2>2
<1>3. CASE HandleReinit \/ HandleStop \/ Destroy
  BY <1>3 DEF HandleReinit, HandleStop, Destroy
<1>4. CASE Reinit
  BY <1>4 DEF Reinit, PassRead, PassInit, PassTest, PassEnd
<1>5. CASE Acknowledge \/ Cancel \/ StopSession \/ UNCHANGED vars
  BY <1>5 DEF Acknowledge, Cancel, StopSession, vars
<1>6. CASE Edit
  <2>1. PICK s \in UserSettings : /\ chosen' = [chosen EXCEPT !.mult = s.mult]
                                  /\ prefs' = [prefs EXCEPT !.mult = s.mult]
    BY <1>6 DEF Edit
  <2>2. chosen' \in Stored /\ prefs' \in Stored
    BY <2>1, UserAssumption DEF Stored
  <2>3. QED
    BY <1>6, <2>2 DEF Edit
<1>7. QED
  BY <1>1, <1>2, <1>3, <1>4, <1>5, <1>6 DEF Next, Main, User

LEMMA WorkerTypeStep == ASSUME TypeOK, [Next]_vars PROVE WorkerTypes'
<1> USE RunsPositive DEF TypeOK, WorkerTypes, Saving, InRun
<1>1. ASSUME NEW w \in Workers, Worker(w) PROVE WorkerTypes'
  <2>1. CASE Reset(w) \/ Snapshot(w) \/ ApplyPreset(w) \/ Request(w)
    BY <2>1 DEF Reset, Snapshot, ApplyPreset, Request
  <2>2. CASE BeginRun(w)
    <3>1. /\ pc' = [pc EXCEPT ![w] = pc'[w]] /\ pc'[w] \in {"report", "fail", "request"}
          /\ pc[w] = "next" /\ (pc'[w] = "request" => run[w] \in 1..Runs)
      BY <2>2 DEF BeginRun
    <3>2. QED
      BY <2>2, <3>1 DEF BeginRun
  <2>8. CASE Baseline(w)
    BY <2>8 DEF Baseline
  <2>3. CASE Warm(w)
    <3>1. AfterBreak(run[w]) \in 1..(Runs + 1)
      BY <2>3, RunPlaces DEF Warm
    <3>2. QED
      BY <2>3, <3>1 DEF Warm
  <2>4. CASE Collected(w)
    BY <2>4 DEF Collected
  <2>5. CASE Report(w) \/ Fail(w) \/ Throw(w)
    BY <2>5 DEF Report, Fail, Throw
  <2>6. CASE Restore(w) \/ Crash(w)
    <3>1. /\ pc' = [pc EXCEPT ![w] = "gone"] /\ hooks' = [hooks EXCEPT ![w] = NoSession]
          /\ run' = [run EXCEPT ![w] = 1] /\ measured' = [measured EXCEPT ![w] = {}]
          /\ unbuilt' = [unbuilt EXCEPT ![w] = {}]
          /\ UNCHANGED <<steady, report>> /\ pc[w] \in {"restore", "crash"}
      BY <2>6 DEF Restore, Crash, Leave
    <3>2. /\ hooks' \in [Workers -> 0..MaxSessions]
          /\ run' \in [Workers -> 1..(Runs + 1)]
          /\ measured' \in [Workers -> SUBSET (1..Runs)]
          /\ unbuilt' \in [Workers -> SUBSET (1..Runs)]
      BY <3>1, BoundsPositive DEF NoSession
    <3>3. QED
      BY <3>1, <3>2
  <2>7. QED
    BY <1>1, <2>1, <2>2, <2>3, <2>4, <2>5, <2>6, <2>8 DEF Worker
<1>2. CASE BeginSession
  <2>1. CASE UNCHANGED <<pc, hooks>>
    BY <1>2, <2>1 DEF BeginSession
  <2>2. CASE ~ UNCHANGED <<pc, hooks>>
    <3>1. PICK w \in Workers : /\ At(w, "gone") /\ pc' = [pc EXCEPT ![w] = "reset"]
                               /\ hooks' = [hooks EXCEPT ![w] = last + 1]
      BY <1>2, <2>2 DEF BeginSession, StartWorker
    <3>2. last + 1 \in 1..MaxSessions
      BY <1>2, BoundsAssumption DEF BeginSession, ServiceTypes
    <3>3. QED
      BY <1>2, <3>1, <3>2 DEF BeginSession, NoSession
  <2>3. QED
    BY <2>1, <2>2
<1>3. CASE HandleReinit \/ HandleStop \/ UNCHANGED vars
  BY <1>3 DEF HandleReinit, HandleStop, vars
<1>4. CASE Destroy
  BY <1>4 DEF Destroy, NoneSteady
<1>8. CASE PassInit
  <2>1. \A w \in Workers : Awaited(w) \subseteq 1..Runs
    BY DEF Awaited
  <2>2. unbuilt' \in [Workers -> SUBSET (1..Runs)]
    BY <1>8, <2>1 DEF PassInit
  <2>3. QED
    BY <1>8, <2>2 DEF PassInit, NoneSteady
<1>5. CASE PassRead \/ PassTest \/ PassEnd
  BY <1>5 DEF PassRead, PassTest, PassEnd
<1>6. CASE User
  BY <1>6 DEF User, Acknowledge, Cancel, StopSession, Edit
<1>7. QED
  BY <1>1, <1>2, <1>3, <1>4, <1>5, <1>6, <1>8 DEF Next, Main, Reinit

LEMMA ServiceTypeStep == ASSUME TypeOK, [Next]_vars PROVE ServiceTypes'
<1> USE BoundsPositive DEF TypeOK, ServiceTypes, NoSession, Post
<1>1. ASSUME NEW w \in Workers, Worker(w) PROVE ServiceTypes'
  BY <1>1 DEF Worker, Reset, Snapshot, ApplyPreset, BeginRun, Request, RequestReinit, Warm,
              Baseline, Collected, Report, Fail, PostFailed, Restore, Throw, Crash
<1>2. CASE BeginSession
  <2>1. session' \in 0..last' /\ last' \in 0..MaxSessions
    BY <1>2 DEF BeginSession
  <2>2. /\ UNCHANGED <<state, cancelRequested, requested, posted, reinit>>
        /\ stopping' \in BOOLEAN
    BY <1>2 DEF BeginSession
  <2>3. QED
    BY <2>1, <2>2
<1>3. CASE HandleReinit \/ HandleStop
  BY <1>3 DEF HandleReinit, AskForPass, HandleStop
<1>8. CASE Destroy
  <2>1. session' \in 0..last' /\ last' \in 0..MaxSessions
    BY <1>8 DEF Destroy
  <2>2. /\ UNCHANGED <<state, cancelRequested, requested, reinit>>
        /\ stopping' \in BOOLEAN /\ posted' = {}
    BY <1>8 DEF Destroy
  <2>3. QED
    BY <2>1, <2>2
<1>4. CASE Reinit
  BY <1>4 DEF Reinit, PassRead, PassInit, PassTest, PassEnd
<1>5. CASE Acknowledge \/ Cancel \/ StopSession \/ UNCHANGED vars
  BY <1>5 DEF Acknowledge, Cancel, StopSession, vars
<1>6. CASE Edit
  BY <1>6 DEF Edit, AskForPass
<1>7. QED
  BY <1>1, <1>2, <1>3, <1>4, <1>5, <1>6, <1>8 DEF Next, Main, User

LEMMA BenchmarkTypeStep == ASSUME TypeOK, [Next]_vars PROVE TypeOK'
  BY PrefTypeStep, WorkerTypeStep, ServiceTypeStep DEF TypeOK

\* In every reachable state the preferences are settings and each worker has a
\* place, a run of the lists and the snapshot it will write back.
THEOREM BenchmarkTypes == Spec => []TypeOK
  BY BenchmarkTypeInit, BenchmarkTypeStep, PTL DEF Spec

-----------------------------------------------------------------------------
(* One worker at a time, and the preferences.                              *)

LEMMA SpoiledGrows == ASSUME [Next]_vars PROVE spoiled \subseteq spoiled'
<1>1. ASSUME NEW w \in Workers, Worker(w) PROVE spoiled \subseteq spoiled'
  BY <1>1 DEF Worker, Reset, Snapshot, ApplyPreset, BeginRun, Request, Warm, Baseline,
              Collected, Report, Fail, Restore, Throw, Crash, Spoils
<1>2. CASE BeginSession \/ Destroy \/ Edit \/ HandleReinit
  BY <1>2 DEF BeginSession, StartWorker, Destroy, Edit, HandleReinit, Spoils
<1>3. CASE HandleStop \/ Reinit \/ Acknowledge \/ Cancel \/ StopSession \/ UNCHANGED vars
  BY <1>3 DEF HandleStop, Reinit, PassRead, PassInit, PassTest, PassEnd, Acknowledge,
              Cancel, StopSession, vars
<1>4. QED
  BY <1>1, <1>2, <1>3 DEF Next, Main, User

\* A step of one worker leaves the others where they are.
LEMMA OthersStay ==
  ASSUME TypeOK, NEW w \in Workers, Worker(w)
  PROVE  /\ \A x \in Workers : x # w =>
              /\ pc'[x] = pc[x] /\ run'[x] = run[x] /\ saved'[x] = saved[x]
              /\ hooks'[x] = hooks[x] /\ measured'[x] = measured[x]
              /\ unbuilt'[x] = unbuilt[x] /\ steady'[x] = steady[x]
         /\ ~ At(w, "gone")
<1> USE DEF TypeOK, WorkerTypes, PrefTypes
<1>1. CASE Reset(w) \/ Snapshot(w) \/ ApplyPreset(w) \/ BeginRun(w) \/ Request(w)
  BY <1>1 DEF Reset, Snapshot, ApplyPreset, BeginRun, Request
<1>2. CASE Warm(w) \/ Baseline(w) \/ Collected(w)
  BY <1>2 DEF Warm, Baseline, Collected
<1>3. CASE Report(w) \/ Fail(w) \/ Restore(w) \/ Throw(w) \/ Crash(w)
  BY <1>3 DEF Report, Fail, Restore, Throw, Crash, Leave
<1>4. QED
  BY <1>1, <1>2, <1>3 DEF Worker

\* The steps of the service and of the user but for the start.
LEMMA WorkersStay ==
  ASSUME HandleReinit \/ HandleStop \/ Destroy \/ Reinit \/ User \/ UNCHANGED vars
  PROVE  UNCHANGED <<pc, saved, run, hooks, measured>>
<1>1. CASE HandleReinit \/ HandleStop \/ Destroy
  BY <1>1 DEF HandleReinit, HandleStop, Destroy
<1>2. CASE Reinit
  BY <1>2 DEF Reinit, PassRead, PassInit, PassTest, PassEnd
<1>3. CASE User \/ UNCHANGED vars
  BY <1>3 DEF User, Acknowledge, Cancel, StopSession, Edit, vars
<1>4. QED
  BY <1>1, <1>2, <1>3

\* A session starts: the controller takes the start for a second one, or a
\* worker begins, the only one unless that is recorded.
LEMMA StartedWorker ==
  ASSUME TypeOK, BeginSession
  PROVE  /\ UNCHANGED <<saved, run, sampled, steady>>
         /\ \/ UNCHANGED <<pc, hooks, spoiled>>
            \/ \E w \in Workers :
                 /\ At(w, "gone") /\ pc' = [pc EXCEPT ![w] = "reset"]
                 /\ hooks' = [hooks EXCEPT ![w] = session']
                 /\ (\E x \in Workers : ~ At(x, "gone")) => Both \subseteq spoiled'
  BY DEF BeginSession, StartWorker, Spoils

LEMMA AloneStep == ASSUME TypeOK, AloneInv, [Next]_vars PROVE AloneInv'
<1> SUFFICES ASSUME ~ (Both \subseteq spoiled'), NEW u \in Workers, NEW w \in Workers,
                    pc'[u] # "gone", pc'[w] # "gone"
             PROVE  u = w
  BY DEF AloneInv
<1>1. \A x, y \in Workers : ~ At(x, "gone") /\ ~ At(y, "gone") => x = y
  BY SpoiledGrows DEF AloneInv
<1>2. CASE BeginSession
  <2>1. CASE UNCHANGED pc
    BY <1>1, <2>1
  <2>2. CASE ~ UNCHANGED pc
    <3>1. PICK x \in Workers : /\ pc' = [pc EXCEPT ![x] = "reset"]
                               /\ \A y \in Workers : At(y, "gone")
      BY <1>2, <2>2, StartedWorker
    <3>2. QED
      BY <3>1 DEF TypeOK, WorkerTypes
  <2>3. QED
    BY <2>1, <2>2
<1>3. CASE \E x \in Workers : Worker(x)
  BY <1>1, <1>3, OthersStay
<1>4. CASE HandleReinit \/ HandleStop \/ Destroy \/ Reinit \/ User \/ UNCHANGED vars
  BY <1>1, <1>4, WorkersStay
<1>5. QED
  BY <1>2, <1>3, <1>4 DEF Next, Main

LEMMA PrefsStep == ASSUME TypeOK, AloneInv, PrefsInv, [Next]_vars PROVE PrefsInv'
<1> SUFFICES ASSUME "prefs" \notin spoiled'
             PROVE  /\ (\A w \in Workers : ~ Holding(w)') => prefs' = chosen'
                    /\ \A w \in Workers : Holding(w)' => saved'[w] = chosen'
  BY DEF PrefsInv
<1>1. /\ \A x, y \in Workers : ~ At(x, "gone") /\ ~ At(y, "gone") => x = y
      /\ (\A w \in Workers : ~ Holding(w)) => prefs = chosen
      /\ \A w \in Workers : Holding(w) => saved[w] = chosen
  BY SpoiledGrows DEF AloneInv, PrefsInv, Both
<1> USE DEF Holding
<1>2. ASSUME NEW w \in Workers, Worker(w)
      PROVE  /\ (\A x \in Workers : ~ Holding(x)') => prefs' = chosen'
             /\ \A x \in Workers : Holding(x)' => saved'[x] = chosen'
  <2>1. \A x \in Workers : x # w => ~ Holding(x) /\ ~ Holding(x)'
    BY <1>1, <1>2, OthersStay
  <2> SUFFICES /\ ~ Holding(w)' => prefs' = chosen
               /\ Holding(w)' => saved'[w] = chosen
               /\ UNCHANGED chosen
    BY <2>1
  <2>2. ~ Holding(w) => prefs = chosen
    BY <1>1, <2>1
  <2> USE DEF TypeOK, WorkerTypes, PrefTypes
  <2>3. CASE Reset(w) \/ Snapshot(w)
    BY <2>2, <2>3 DEF Reset, Snapshot
  <2>4. CASE ApplyPreset(w) \/ BeginRun(w) \/ Request(w) \/ Warm(w) \/ Baseline(w)
             \/ Collected(w) \/ Report(w) \/ Fail(w)
    <3>1. Holding(w) /\ Holding(w)' /\ UNCHANGED <<saved, chosen>>
      BY <2>4 DEF ApplyPreset, BeginRun, Request, Warm, Baseline, Collected, Report, Fail
    <3>2. QED
      BY <1>1, <3>1
  <2>5. CASE Restore(w) \/ Throw(w)
    BY <1>1, <2>5 DEF Restore, Throw, RestoreSaved, Leave
  <2>6. CASE Crash(w)
    BY <2>2, <2>6 DEF Crash, Leave
  <2>7. QED
    BY <1>2, <2>3, <2>4, <2>5, <2>6 DEF Worker
<1>3. CASE BeginSession
  <2>1. UNCHANGED <<prefs, chosen, saved>>
    BY <1>3 DEF BeginSession
  <2>2. \A x \in Workers : Holding(x)' <=> Holding(x)
    BY <1>3, StartedWorker DEF TypeOK, WorkerTypes
  <2>3. QED
    BY <1>1, <2>1, <2>2
<1>4. CASE HandleReinit \/ HandleStop \/ Destroy \/ Reinit \/ Acknowledge \/ Cancel
           \/ StopSession \/ UNCHANGED vars
  <2>1. UNCHANGED <<pc, saved>>
    BY <1>4, WorkersStay DEF User
  <2>2. UNCHANGED <<prefs, chosen>>
    BY <1>4 DEF HandleReinit, HandleStop, Destroy, Reinit, PassRead, PassInit, PassTest,
                PassEnd, Acknowledge, Cancel, StopSession, vars
  <2>3. QED
    BY <1>1, <2>1, <2>2
<1>5. CASE Edit
  <2>1. UNCHANGED <<pc, saved>>
    BY <1>5, WorkersStay DEF User
  <2>2. \A x \in Workers : ~ Holding(x)
    BY <1>5 DEF Edit, Spoils, Both
  <2>3. prefs = chosen
    BY <1>1, <2>2
  <2>4. prefs' = chosen'
    BY <1>5, <2>3 DEF Edit
  <2>5. QED
    BY <2>1, <2>2, <2>4
<1>6. QED
  BY <1>2, <1>3, <1>4, <1>5 DEF Next, Main, User

-----------------------------------------------------------------------------
(* The report.                                                             *)

\* A worker that is gone has nothing to show.
LEMMA GoneIsWhole ==
  ASSUME NEW w \in Workers, At(w, "gone"), Whole(w), UNCHANGED <<pc, run>>
  PROVE  Whole(w)'
  BY DEF Whole, Ended, InRun

\* The preferences of a run, written field by field over the preset.
LEMMA PresetWritten ==
  ASSUME NEW r \in 1..Runs, NEW p \in Stored, p.rest = "preset"
  PROVE  [p EXCEPT !.mult = Preset(r).mult, !.fp16 = Preset(r).fp16] = Preset(r)
<1> DEFINE m == Preset(r).mult
           f == Preset(r).fp16
<1>1. [p EXCEPT !.mult = m, !.fp16 = f] = [mult |-> m, fp16 |-> f, rest |-> "preset"]
  <2>1. m \in Nat /\ f \in BOOLEAN
    BY PresetStored, StoredFields
  <2> HIDE DEF m, f
  <2>2. [p EXCEPT !.mult = m, !.fp16 = f] \in Stored
    BY <2>1 DEF Stored
  <2>3. /\ [p EXCEPT !.mult = m, !.fp16 = f].mult = m
        /\ [p EXCEPT !.mult = m, !.fp16 = f].fp16 = f
        /\ [p EXCEPT !.mult = m, !.fp16 = f].rest = "preset"
    BY DEF Stored
  <2>4. QED
    BY <2>2, <2>3, StoredFields
<1>2. Preset(r) = [mult |-> m, fp16 |-> f, rest |-> "preset"]
  BY DEF Preset
<1>3. QED
  BY <1>1, <1>2

\* The worker that steps, while no race has spoiled the report.
LEMMA WorkerStaysWhole ==
  ASSUME TypeOK, NEW w \in Workers, Worker(w), Whole(w), "report" \notin spoiled',
         ReportWhole
  PROVE  Whole(w)' /\ ReportWhole'
<1> USE RunsPositive DEF TypeOK, WorkerTypes, Whole, Accounted, ReportWhole, Ended, InRun
<1>1. CASE Reset(w) \/ Snapshot(w)
  BY <1>1 DEF Reset, Snapshot
<1>2. CASE ApplyPreset(w)
  <2>1. prefs'.rest = "preset"
    BY <1>2 DEF ApplyPreset, PrefTypes, Stored
  <2>2. QED
    BY <1>2, <2>1 DEF ApplyPreset
<1>3. CASE BeginRun(w)
  <2>1. CASE pc'[w] = "report"
    BY <1>3, <2>1 DEF BeginRun
  <2>2. CASE pc'[w] = "fail"
    BY <1>3, <2>2 DEF BeginRun
  <2>3. CASE pc'[w] = "request"
    <3>1. run[w] \in 1..Runs
      BY <1>3, <2>3 DEF BeginRun
    <3>2. prefs' = Preset(run[w])
      BY <1>3, <2>3, <3>1, PresetWritten DEF BeginRun, PrefTypes
    <3>3. QED
      BY <1>3, <2>3, <3>2 DEF BeginRun
  <2>4. QED
    BY <1>3, <2>1, <2>2, <2>3 DEF BeginRun
<1>4. CASE Request(w)
  <2>1. LoopComing(Preset(run[w]))'
    BY <1>4 DEF Request, RequestReinit, Post, LoopComing
  <2>2. QED
    BY <1>4, <2>1 DEF Request
<1>5. CASE Warm(w)
  <2>1. CASE cancelRequested
    <3>1. prefs.rest = "preset"
      BY <1>5, PresetStored DEF Warm
    <3>2. QED
      BY <1>5, <2>1, <3>1 DEF Warm
  <2>2. CASE ~ cancelRequested
    <3>1. "reinit" \notin posted /\ reinit = "idle"
      BY <1>5, <2>2 DEF Warm, Spoils
    <3>2. loop = Preset(run[w]) \/ run[w] \in unbuilt[w]
      BY <1>5, <3>1 DEF Warm, LoopComing, LoopFailed
    <3>3. QED
      BY <1>5, <2>2, <3>1, <3>2 DEF Warm
  <2>3. QED
    BY <2>1, <2>2
<1>6. CASE Baseline(w)
  BY <1>6 DEF Baseline
<1>7. CASE Collected(w)
  <2>1. prefs.rest = "preset" /\ run[w] \in 1..Runs
    BY <1>7, PresetStored DEF Collected
  <2>2. ~ cancelRequested => \A x \in 1..run[w] : Accounted(w, x)'
    BY <1>7, <2>1 DEF Collected
  <2>3. QED
    BY <1>7, <2>1, <2>2 DEF Collected
<1>8. CASE Report(w)
  BY <1>8 DEF Report, CancelledAtEnd
<1>9. CASE Fail(w) \/ Throw(w)
  BY <1>9 DEF Fail, Throw
<1>10. CASE Restore(w) \/ Crash(w)
  BY <1>10 DEF Restore, Crash, Leave
<1>11. QED
  BY <1>1, <1>2, <1>3, <1>4, <1>5, <1>6, <1>7, <1>8, <1>9, <1>10 DEF Worker

LEMMA WholeStep ==
  ASSUME TypeOK, AloneInv, WholeInv, [Next]_vars
  PROVE  WholeInv'
<1> SUFFICES ASSUME "report" \notin spoiled'
             PROVE  ReportWhole' /\ \A w \in Workers : Whole(w)'
  BY DEF WholeInv
<1>1. /\ ReportWhole
      /\ \A w \in Workers : Whole(w)
      /\ \A x, y \in Workers : ~ At(x, "gone") /\ ~ At(y, "gone") => x = y
  BY SpoiledGrows DEF AloneInv, WholeInv, Both
<1>2. ASSUME NEW w \in Workers, Worker(w)
      PROVE  ReportWhole' /\ \A x \in Workers : Whole(x)'
  <2>1. ASSUME NEW x \in Workers, x # w PROVE Whole(x)'
    BY <1>1, <1>2, <2>1, OthersStay DEF Whole, Accounted, LoopFailed, Ended, InRun
  <2>2. QED
    BY <1>1, <1>2, <2>1, WorkerStaysWhole
<1> USE DEF TypeOK, WorkerTypes, Whole, Accounted, ReportWhole, Ended, InRun
<1>3. CASE BeginSession
  <2>1. UNCHANGED <<prefs, cancelRequested, state, report, run, sampled>>
    BY <1>3 DEF BeginSession
  <2>2. \A x \in Workers : pc[x] \in Ended
    BY <1>1, <1>3 DEF BeginSession
  <2>3. ASSUME NEW x \in Workers PROVE Whole(x)'
    BY <1>1, <1>3, <2>1, <2>2, StartedWorker
  <2>4. QED
    BY <1>1, <2>1, <2>3
<1>4. CASE HandleReinit
  <2>1. UNCHANGED <<pc, run, hooks, sampled, prefs, cancelRequested, state, report,
                    steady, session, loop, read>>
    BY <1>4 DEF HandleReinit
  <2>2. \A x \in Workers : ~ pc[x] \in {"baseline", "sampling"}
    BY <1>1, <1>4 DEF HandleReinit
  <2>3. reinit # "end"
    BY <1>4 DEF HandleReinit, Spoils, Lost
  <2>4. \A p : LoopComing(p)'
    BY <1>4, <2>3 DEF HandleReinit, AskForPass, LoopComing, ServiceTypes
  <2>5. QED
    BY <1>1, <2>1, <2>2, <2>4
<1>5. CASE HandleStop
  <2>1. UNCHANGED <<pc, run, hooks, sampled, prefs, cancelRequested, state, report,
                    steady, session, loop, read, reinit, requested>>
        /\ ("reinit" \in posted' <=> "reinit" \in posted)
    BY <1>5 DEF HandleStop
  <2>2. QED
    BY <1>1, <2>1 DEF LoopComing, LoopFailed
<1>6. CASE Destroy
  <2>1. UNCHANGED <<pc, run, sampled, state, report>>
    BY <1>6 DEF Destroy
  <2>2. \A x \in Workers : pc[x] \in Ended
    BY <1>6 DEF Destroy, Spoils
  <2>3. QED
    BY <1>1, <2>1, <2>2
<1>7. CASE Reinit
  <2>1. /\ UNCHANGED <<pc, run, hooks, measured, prefs, cancelRequested, state, report,
                       session, posted>>
        /\ reinit # "idle"
    BY <1>7 DEF Reinit, PassRead, PassInit, PassTest, PassEnd
  <2>2. \A x \in Workers : ~ pc[x] \in {"baseline", "sampling"}
    BY <1>1, <2>1
  <2>3. ASSUME NEW x \in Workers, At(x, "warmup")
        PROVE  (LoopComing(Preset(run[x])) \/ LoopFailed(x))'
    <3>1. prefs = Preset(run[x]) /\ (LoopComing(Preset(run[x])) \/ LoopFailed(x))
      BY <1>1, <2>3
    <3>2. CASE PassRead \/ PassTest \/ PassEnd
      BY <2>1, <3>1, <3>2 DEF PassRead, PassTest, PassEnd, LoopComing, LoopFailed
    <3>3. CASE PassInit
      <4>1. LoopComing(Preset(run[x]))
        BY <3>1, <3>3 DEF PassInit, LoopFailed
      <4>2. CASE loop' = read
        BY <2>1, <3>3, <4>1, <4>2 DEF PassInit, LoopComing
      <4>3. CASE unbuilt' = [w \in Workers |-> unbuilt[w] \union Awaited(w)]
        BY <2>1, <2>3, <3>3, <4>3 DEF PassInit, Awaited, LoopFailed
      <4>4. QED
        BY <3>3, <4>2, <4>3 DEF PassInit
    <3>4. QED
      BY <1>7, <3>2, <3>3 DEF Reinit
  <2>4. ASSUME NEW x \in Workers, NEW r \in 1..(run[x] - 1), Accounted(x, r)
        PROVE  Accounted(x, r)'
    <3>1. r # run[x]
      OBVIOUS
    <3>2. CASE PassInit
      BY <2>4, <3>1, <3>2 DEF PassInit, Awaited
    <3>3. CASE PassRead \/ PassTest \/ PassEnd
      BY <2>4, <3>3 DEF PassRead, PassTest, PassEnd
    <3>4. QED
      BY <1>7, <3>2, <3>3 DEF Reinit
  <2>5. ASSUME NEW x \in Workers PROVE Whole(x)'
    BY <1>1, <2>1, <2>2, <2>3, <2>4
  <2>6. QED
    BY <1>1, <2>1, <2>5
<1>8. CASE Acknowledge \/ StopSession \/ UNCHANGED vars
  <2>1. UNCHANGED <<pc, run, hooks, sampled, prefs, cancelRequested, steady, session,
                    loop, read, reinit, requested, posted>>
    BY <1>8 DEF Acknowledge, StopSession, vars
  <2>2. ReportWhole'
    BY <1>1, <1>8 DEF Acknowledge, StopSession, vars
  <2>3. QED
    BY <1>1, <2>1, <2>2 DEF LoopComing, LoopFailed
<1>9. CASE Cancel
  <2>1. UNCHANGED <<pc, run, hooks, sampled, prefs, steady, session, state, report,
                    loop, read, reinit, requested, posted>> /\ cancelRequested' = TRUE
    BY <1>9 DEF Cancel
  <2>2. QED
    BY <1>1, <2>1 DEF LoopComing, LoopFailed
<1>10. CASE Edit
  <2>1. UNCHANGED <<pc, run, hooks, sampled, session, state, report, cancelRequested>>
    BY <1>10 DEF Edit
  <2>2. \A x \in Workers : pc[x] \in {"gone", "reset", "snapshot", "crash"}
    BY <1>10 DEF Edit, Spoils, Both, Holding
  <2>3. QED
    BY <1>1, <2>1, <2>2
<1>11. QED
  BY <1>2, <1>3, <1>4, <1>5, <1>6, <1>7, <1>8, <1>9, <1>10 DEF Next, Main, User

-----------------------------------------------------------------------------
LEMMA BenchmarkInit == Init => BenchmarkInv
<1> SUFFICES ASSUME Init PROVE AloneInv /\ PrefsInv /\ WholeInv
  BY BenchmarkTypeInit DEF BenchmarkInv
<1>1. AloneInv /\ PrefsInv
  BY DEF Init, AloneInv, PrefsInv, Holding
<1>2. WholeInv
  BY DEF Init, WholeInv, Whole, ReportWhole, Ended, InRun
<1>3. QED
  BY <1>1, <1>2

LEMMA BenchmarkAlways == Spec => []BenchmarkInv
<1>1. BenchmarkInv /\ [Next]_vars => BenchmarkInv'
  BY BenchmarkTypeStep, AloneStep, PrefsStep, WholeStep DEF BenchmarkInv
<1>2. QED
  BY <1>1, BenchmarkInit, PTL DEF Spec

\* However a benchmark ends, by its report, a cancel, an exception or the end
\* of its session, the user's preferences are back when its worker is through
\* its finally block, unless the user edited them meanwhile or a second worker
\* took its snapshot of the preset.
THEOREM BenchmarkRestoresPrefs == Spec => []PrefsRestored
<1>1. BenchmarkInv => PrefsRestored
  BY DEF BenchmarkInv, PrefsInv, PrefsRestored
<1>2. QED
  BY <1>1, BenchmarkAlways, PTL

\* A benchmark that says it completed holds every pair of a precision and a
\* multiplier measured on a loop with its own settings, except the pairs whose
\* own reinitialisation failed or came up without framegen, of which the
\* controller is not told; for lists of any length, and but for the races that
\* spoiled records.
THEOREM CompletedReportIsWhole == Spec => []ReportIsWhole
<1>1. BenchmarkInv => ReportIsWhole
  BY DEF BenchmarkInv, WholeInv, ReportWhole, ReportIsWhole
<1>2. QED
  BY <1>1, BenchmarkAlways, PTL

=============================================================================
