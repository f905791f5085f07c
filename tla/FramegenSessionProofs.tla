------------------------ MODULE FramegenSessionProofs ------------------------
(***************************************************************************)
(* Proofs about FramegenSession for every ring size, every number of       *)
(* passes, frames, sessions and settings and every set of failures.        *)
(***************************************************************************)
EXTENDS FramegenSession, TLAPS

Submissions == [idx : Nat, pass : 0..Passes]

\* A capture has filled the input images before anything reads them.
SlotInv ==
  /\ captured > 0 => \A i \in 0..1 : slots[i] # NoFrame
  /\ pc = "copying" => captured < MaxFrames
  /\ pc \notin {"idle", "copying"} => captured > 0
  /\ presentsDone > 0 => captured > 0

\* The context is one present ahead of the render loop while that waits.
CountInv == frameIdx = IF pc = "waitIdle" THEN presentsDone + 1 ELSE presentsDone

\* What is queued is of one present, with the extractions of its attempts first,
\* then passes of the last attempt, in order.  The fences of those are pending,
\* so the ring entry cannot be used again while one of them is queued.
QueueInv ==
  /\ \A i \in DOMAIN queue : queue[i].idx = presentsDone
  /\ \A i, j \in DOMAIN queue :
       i < j /\ queue[i].pass > 0 => queue[i].pass < queue[j].pass
  /\ \A i \in DOMAIN queue :
       queue[i].pass > 0 => fences[presentsDone % RingSize][queue[i].pass] = "pending"
  /\ pc = "features" => \A i \in DOMAIN queue : queue[i].pass = 0
  /\ pc \in {"fence", "submit"} => \A i \in DOMAIN queue : queue[i].pass < pass
  /\ queue # <<>> \/ pc \in {"features", "fence", "submit", "waitIdle"}
       => shouldWait[presentsDone % RingSize]

\* The features of the present under way, once extracted, and of the two before.
FlowInv ==
  /\ pc \in {"fence", "submit", "waitIdle"} /\ (\A i \in DOMAIN queue : queue[i].pass > 0)
       => features[FeatureImage(presentsDone)] = slots[CurrentSlot(presentsDone)]
  /\ presentsDone >= 1
       => features[PrevFeature(presentsDone)] = slots[PrevSlot(presentsDone)]
  /\ presentsDone >= 2 => features[OldestFeature(presentsDone)] # NoFrame

ContextInv == TypeOK /\ SlotInv /\ CountInv /\ QueueInv /\ FlowInv

\* A device that is complete belongs to the session under way and was built for
\* its settings; so does the one context there may be.
LibraryInv ==
  /\ control = "pools" => device[model] = "partial" /\ config[model] = wanted
  /\ control = "device" => device[model] = "none" /\ instance[model]
  /\ \A m \in Library!Models :
       /\ device[m] = "ready" => m = model /\ config[m] = wanted /\ initOk
                                 /\ control \in {"context", "running", "finalize"}
       /\ contexts[m] = IF ctx /\ m = model THEN {session} ELSE {}
  /\ ctx => control = "running" /\ device[model] = "ready"
  /\ control # "idle" => session \in 1..MaxSessions

\* Nothing is queued for a context that is gone.
QueueHasContext == queue # <<>> => ctx

SessionInv == ContextInv /\ Library!TypeOK /\ LibraryInv /\ QueueHasContext

USE DEF callerVars, ringVars, gpuVars

-----------------------------------------------------------------------------
(* The operators.                                                          *)

\* The two input images take turns.
LEMMA SlotShift ==
  ASSUME NEW n \in Nat
  PROVE  /\ {CurrentSlot(n), PrevSlot(n)} \subseteq 0..1
         /\ n % 2 = CurrentSlot(n) /\ PrevSlot(n) # CurrentSlot(n)
         /\ PrevSlot(n + 1) = CurrentSlot(n)
  BY DEF CurrentSlot, PrevSlot

\* The three feature images take turns.
LEMMA FeatureShift ==
  ASSUME NEW n \in Nat
  PROVE  /\ {FeatureImage(n), PrevFeature(n), OldestFeature(n)} \subseteq 0..2
         /\ FeatureImage(n) # PrevFeature(n) /\ FeatureImage(n) # OldestFeature(n)
         /\ PrevFeature(n + 1) = FeatureImage(n)
         /\ OldestFeature(n + 1) = PrevFeature(n)
  BY DEF FeatureImage, PrevFeature, OldestFeature

LEMMA RingEntry == ASSUME NEW n \in Nat PROVE n % RingSize \in Ring
  BY RingAssumption DEF Ring

\* What a queue looks like with a submission more, and without its head.
LEMMA QueueAppend ==
  ASSUME NEW q \in Seq(Submissions), NEW s \in Submissions
  PROVE  /\ Append(q, s) \in Seq(Submissions) /\ Append(q, s) # <<>>
         /\ DOMAIN Append(q, s) = DOMAIN q \union {Len(q) + 1}
         /\ \A i \in DOMAIN q : Append(q, s)[i] = q[i] /\ i < Len(q) + 1
         /\ Append(q, s)[Len(q) + 1] = s
  OBVIOUS

LEMMA QueueTail ==
  ASSUME NEW q \in Seq(Submissions), q # <<>>
  PROVE  /\ Tail(q) \in Seq(Submissions)
         /\ Head(q) = q[1] /\ 1 \in DOMAIN q /\ q[1] \in Submissions
         /\ DOMAIN q \subseteq Nat \ {0}
         /\ \A i \in DOMAIN Tail(q) : i + 1 \in DOMAIN q /\ Tail(q)[i] = q[i + 1]
         /\ \A i \in DOMAIN q \ {1} : i - 1 \in DOMAIN Tail(q)
  OBVIOUS

LEMMA QueueEntry ==
  ASSUME TypeOK, NEW i \in DOMAIN queue
  PROVE  queue[i].idx \in Nat /\ queue[i].pass \in 0..Passes /\ queue # <<>>
<1>1. queue \in Seq(Submissions)
  BY DEF TypeOK, Submissions
<1>2. queue[i] \in Submissions /\ queue # <<>>
  BY <1>1
<1>3. QED
  BY <1>2 DEF Submissions

-----------------------------------------------------------------------------
(* The context.                                                            *)

LEMMA ContextTypeInit == Init => TypeOK
  BY PassesAssumption, FramesAssumption
     DEF Init, TypeOK, NoSlots, NoFences, NoFeatures, NoFrame

LEMMA ContextTypeStep == ASSUME TypeOK, SlotInv, [Next]_vars PROVE TypeOK'
<1>1. CASE CopyBegin \/ WaitIdle \/ Throw \/ UNCHANGED vars
  BY <1>1, PassesAssumption DEF CopyBegin, WaitIdle, Throw, vars, TypeOK
<1>2. CASE CopyEnd
  <2>1. captured + 1 \in 0..MaxFrames
    BY <1>2, FramesAssumption DEF CopyEnd, TypeOK, SlotInv
  <2>2. slots' \in [0..1 -> 0..MaxFrames]
    BY <1>2, <2>1 DEF CopyEnd, TypeOK
  <2>3. QED
    BY <1>2, <2>1, <2>2 DEF CopyEnd, TypeOK
<1>3. CASE WaitFences
  BY <1>3 DEF WaitFences, TypeOK
<1>4. CASE SubmitFeatures
  <2>1. [idx |-> frameIdx, pass |-> 0] \in Submissions
    BY PassesAssumption DEF TypeOK, Submissions
  <2>2. queue' \in Seq(Submissions)
    BY <1>4, <2>1, QueueAppend DEF SubmitFeatures, TypeOK, Submissions
  <2>3. QED
    BY <1>4, <2>2, PassesAssumption DEF SubmitFeatures, TypeOK, Submissions
<1>5. CASE MakeFence
  <2>1. Entry \in Ring
    BY RingEntry DEF Entry, TypeOK
  <2>2. QED
    BY <1>5, <2>1 DEF MakeFence, TypeOK
<1>6. CASE SubmitPass
  <2>1. [idx |-> frameIdx, pass |-> pass] \in Submissions
    BY PassesAssumption DEF TypeOK, Submissions
  <2>2. queue' \in Seq(Submissions)
    BY <1>6, <2>1, QueueAppend DEF SubmitPass, TypeOK, Submissions
  <2>3. Entry \in Ring
    BY RingEntry DEF Entry, TypeOK
  <2>4. fences' \in [Ring -> [1..Passes -> {"none", "made", "pending", "signaled"}]]
    BY <1>6, <2>3 DEF SubmitPass, TypeOK
  <2>5. pass' \in 1..Passes /\ frameIdx' \in Nat /\ pc' \in {"fence", "waitIdle"}
    BY <1>6, PassesAssumption DEF SubmitPass, LastPass, TypeOK
  <2>6. QED
    BY <1>6, <2>2, <2>4, <2>5 DEF SubmitPass, TypeOK, Submissions
<1>7. CASE Execute
  <2>1. Head(queue) \in Submissions /\ queue' \in Seq(Submissions)
    BY <1>7, QueueTail DEF Execute, TypeOK, Submissions
  <2>2. fences' \in [Ring -> [1..Passes -> {"none", "made", "pending", "signaled"}]]
    <3>1. Head(queue).idx % RingSize \in Ring
      BY <2>1, RingEntry DEF Submissions
    <3>2. Head(queue).pass \in 0..Passes /\ (Head(queue).pass > 0 => Head(queue).pass \in 1..Passes)
      BY <2>1, PassesAssumption DEF Submissions
    <3>3. CASE Head(queue).pass = 0
      BY <1>7, <3>3 DEF Execute, TypeOK
    <3>4. CASE Head(queue).pass > 0
      <4>1. fences' = [fences EXCEPT ![Head(queue).idx % RingSize][Head(queue).pass] =
                         IF @ = "pending" THEN "signaled" ELSE @]
        BY <1>7, <3>4 DEF Execute
      <4>2. QED
        BY <3>1, <3>2, <3>4, <4>1 DEF TypeOK
    <3>5. QED
      BY <3>2, <3>3, <3>4, PassesAssumption
  <2>3. features' \in [0..2 -> 0..MaxFrames]
    BY <1>7, <2>1, FeatureShift, SlotShift DEF Execute, TypeOK, Submissions
  <2>4. QED
    BY <1>7, <2>1, <2>2, <2>3 DEF Execute, TypeOK, Submissions
<1>8. QED
  BY <1>1, <1>2, <1>3, <1>4, <1>5, <1>6, <1>7 DEF Next, Present

LEMMA SlotStep == ASSUME TypeOK, SlotInv, [Next]_vars PROVE SlotInv'
<1>1. CASE CopyEnd
  BY <1>1 DEF CopyEnd, Targets, NoFrame, TypeOK, SlotInv
<1>2. CASE WaitIdle
  BY <1>2 DEF WaitIdle, TypeOK, SlotInv
<1>3. CASE CopyBegin \/ Present \/ Execute \/ UNCHANGED vars
  BY <1>3 DEF CopyBegin, Present, WaitFences, SubmitFeatures, MakeFence, SubmitPass, Throw,
              Execute, vars, TypeOK, SlotInv
<1>4. QED
  BY <1>1, <1>2, <1>3 DEF Next

LEMMA CountStep == ASSUME TypeOK, CountInv, [Next]_vars PROVE CountInv'
<1>1. CASE CopyBegin \/ CopyEnd \/ WaitIdle \/ Present
  BY <1>1 DEF CopyBegin, CopyEnd, WaitIdle, Present, WaitFences, SubmitFeatures, MakeFence,
              SubmitPass, Throw, TypeOK, CountInv
<1>2. CASE Execute \/ UNCHANGED vars
  BY <1>2 DEF Execute, vars, CountInv
<1>3. QED
  BY <1>1, <1>2 DEF Next

LEMMA QueueStep ==
  ASSUME TypeOK, CountInv, QueueInv, [Next]_vars
  PROVE  QueueInv'
<1>0. presentsDone % RingSize \in Ring /\ presentsDone \in Nat
  BY RingEntry DEF TypeOK
<1>1. CASE CopyBegin \/ CopyEnd \/ Throw \/ UNCHANGED vars
  BY <1>1 DEF CopyBegin, CopyEnd, Throw, vars, QueueInv
<1>2. CASE WaitIdle
  BY <1>2 DEF WaitIdle, DeviceIdle, QueueInv
<1>3. CASE WaitFences
  <2>1. Entry = presentsDone % RingSize
    BY <1>3 DEF WaitFences, Entry, CountInv
  <2>2. shouldWait'[presentsDone % RingSize] = TRUE
    BY <1>3, <1>0, <2>1 DEF WaitFences, TypeOK
  <2>3. CASE EntryFree /\ pc' = "features"
    <3>1. ASSUME NEW i \in DOMAIN queue PROVE queue[i].pass = 0
      <4>1. queue[i].pass \in 0..Passes /\ queue # <<>>
        BY QueueEntry
      <4>2. FencesSignaled
        BY <2>1, <2>3, <4>1 DEF EntryFree, QueueInv
      <4>3. QED
        BY <2>1, <4>1, <4>2, PassesAssumption DEF FencesSignaled, QueueInv
    <3>2. QED
      BY <1>3, <2>2, <2>3, <3>1 DEF WaitFences, QueueInv
  <2>4. CASE pc' = "crashed"
    BY <1>3, <2>2, <2>4 DEF WaitFences, QueueInv
  <2>5. QED
    BY <1>3, <2>3, <2>4 DEF WaitFences
<1>4. CASE SubmitFeatures
  <2> DEFINE s == [idx |-> frameIdx, pass |-> 0]
  <2>1. s \in Submissions /\ queue \in Seq(Submissions) /\ queue' = Append(queue, s)
    BY <1>4, PassesAssumption DEF SubmitFeatures, TypeOK, Submissions
  <2>2. \A i \in DOMAIN queue' : queue'[i].pass = 0 /\ queue'[i].idx = presentsDone
    BY <1>4, <2>1, QueueAppend DEF SubmitFeatures, CountInv, QueueInv
  <2>3. QED
    BY <1>4, <2>2 DEF SubmitFeatures, QueueInv
<1>5. CASE MakeFence
  <2>1. Entry = presentsDone % RingSize /\ pass \in 1..Passes
    BY <1>5 DEF MakeFence, Entry, CountInv, TypeOK
  <2>2. ASSUME NEW i \in DOMAIN queue, queue[i].pass > 0
        PROVE  fences'[presentsDone % RingSize][queue[i].pass] = "pending"
    <3>1. queue[i].pass \in 1..Passes /\ queue[i].pass # pass
      BY <1>5, <2>1, <2>2, QueueEntry, PassesAssumption DEF MakeFence, QueueInv
    <3>2. QED
      BY <1>0, <1>5, <2>1, <2>2, <3>1 DEF MakeFence, TypeOK, QueueInv
  <2>3. QED
    BY <1>5, <2>2 DEF MakeFence, QueueInv
<1>6. CASE SubmitPass
  <2> DEFINE s == [idx |-> frameIdx, pass |-> pass]
  <2>1. /\ s \in Submissions /\ queue \in Seq(Submissions) /\ queue' = Append(queue, s)
        /\ frameIdx = presentsDone /\ pass \in 1..Passes /\ UNCHANGED presentsDone
        /\ shouldWait'[presentsDone % RingSize]
    BY <1>6, PassesAssumption DEF SubmitPass, TypeOK, Submissions, CountInv, QueueInv
  <2>2. /\ DOMAIN queue' = DOMAIN queue \union {Len(queue) + 1}
        /\ \A i \in DOMAIN queue : queue'[i] = queue[i] /\ i < Len(queue) + 1
        /\ queue'[Len(queue) + 1] = s
    BY <2>1, QueueAppend
  <2>3. \A i \in DOMAIN queue : queue[i].pass \in 0..Passes /\ queue[i].pass < pass
    BY <1>6, QueueEntry DEF SubmitPass, QueueInv
  <2>4. \A i \in DOMAIN queue' : queue'[i].idx = presentsDone
    BY <2>1, <2>2 DEF QueueInv
  <2>5. ASSUME NEW i \in DOMAIN queue', NEW j \in DOMAIN queue',
               i < j, queue'[i].pass > 0
        PROVE  queue'[i].pass < queue'[j].pass
    <3>1. i \in DOMAIN queue
      BY <2>1, <2>2, <2>5
    <3>2. QED
      BY <2>2, <2>3, <2>5, <3>1 DEF QueueInv
  <2>6. ASSUME NEW i \in DOMAIN queue', queue'[i].pass > 0
        PROVE  fences'[presentsDone % RingSize][queue'[i].pass] = "pending"
    <3>1. fences' = [fences EXCEPT ![presentsDone % RingSize][pass] = "pending"]
      BY <1>6, <2>1 DEF SubmitPass, Entry
    <3>2. queue'[i].pass \in 1..Passes
      BY <2>1, <2>2, <2>3, <2>6
    <3>3. fences[presentsDone % RingSize] \in
            [1..Passes -> {"none", "made", "pending", "signaled"}]
      BY <1>0 DEF TypeOK
    <3>4. CASE i = Len(queue) + 1
      <4>1. queue'[i].pass = pass
        BY <2>1, <2>2, <3>4
      <4>2. fences \in [Ring -> [1..Passes -> {"none", "made", "pending", "signaled"}]]
        BY DEF TypeOK
      <4>3. QED
        BY <1>0, <2>1, <3>1, <4>1, <4>2
    <3>5. CASE i \in DOMAIN queue
      BY <1>0, <2>2, <2>6, <3>1, <3>2, <3>3, <3>5 DEF TypeOK, QueueInv
    <3>6. QED
      BY <2>2, <3>4, <3>5
  <2>7. pc' = "fence" => \A i \in DOMAIN queue' : queue'[i].pass < pass'
    BY <1>6, <2>1, <2>2, <2>3 DEF SubmitPass
  <2>8. pc' \in {"fence", "waitIdle"}
    BY <1>6 DEF SubmitPass
  <2>9. QED
    BY <2>1, <2>4, <2>5, <2>6, <2>7, <2>8 DEF QueueInv
<1>7. CASE Execute
  <2>1. /\ queue \in Seq(Submissions) /\ queue # <<>> /\ queue' = Tail(queue)
        /\ Head(queue) = queue[1] /\ 1 \in DOMAIN queue /\ queue[1] \in Submissions
        /\ UNCHANGED <<presentsDone, shouldWait, pc, pass>>
    BY <1>7, QueueTail DEF Execute, TypeOK, Submissions
  <2>2. \A i \in DOMAIN queue' :
          i + 1 \in DOMAIN queue /\ queue'[i] = queue[i + 1] /\ i \in Nat \ {0}
    BY <2>1, QueueTail
  <2>3. ASSUME NEW i \in DOMAIN queue', NEW j \in DOMAIN queue',
               i < j, queue'[i].pass > 0
        PROVE  queue'[i].pass < queue'[j].pass
    BY <2>2, <2>3 DEF QueueInv
  <2>4. ASSUME NEW i \in DOMAIN queue', queue'[i].pass > 0
        PROVE  fences'[presentsDone % RingSize][queue'[i].pass] = "pending"
    <3>1. /\ queue'[i].pass = queue[i + 1].pass /\ queue[i + 1].pass \in 1..Passes
          /\ fences[presentsDone % RingSize][queue[i + 1].pass] = "pending"
      BY <2>2, <2>4, QueueEntry, PassesAssumption DEF QueueInv
    <3>2. CASE queue[1].pass = 0
      BY <1>7, <2>1, <3>1, <3>2 DEF Execute
    <3>3. CASE queue[1].pass > 0
      <4>1. queue[1].pass < queue[i + 1].pass /\ queue[1].idx = presentsDone
        BY <2>1, <2>2, <3>3 DEF QueueInv
      <4>2. fences[presentsDone % RingSize] \in
              [1..Passes -> {"none", "made", "pending", "signaled"}]
        BY <1>0 DEF TypeOK
      <4>3. fences' = [fences EXCEPT ![presentsDone % RingSize][queue[1].pass] =
                         IF @ = "pending" THEN "signaled" ELSE @]
        BY <1>7, <2>1, <3>3, <4>1 DEF Execute
      <4>4. QED
        <5>1. fences'[presentsDone % RingSize] = [fences[presentsDone % RingSize]
                EXCEPT ![queue[1].pass] = IF @ = "pending" THEN "signaled" ELSE @]
          BY <1>0, <4>3 DEF TypeOK
        <5>2. queue[1].pass # queue[i + 1].pass
          BY <2>1, <3>1, <4>1 DEF Submissions
        <5>3. QED
          BY <3>1, <4>2, <5>1, <5>2
    <3>4. QED
      BY <2>1, <3>2, <3>3 DEF Submissions
  <2>5. QED
    BY <2>1, <2>2, <2>3, <2>4 DEF QueueInv
<1>8. QED
  BY <1>1, <1>2, <1>3, <1>4, <1>5, <1>6, <1>7 DEF Next, Present

LEMMA FlowStep ==
  ASSUME TypeOK, SlotInv, CountInv, QueueInv, FlowInv, [Next]_vars
  PROVE  FlowInv'
<1>0. presentsDone \in Nat /\ Passes \in Nat
  BY PassesAssumption DEF TypeOK
<1>1. CASE CopyEnd
  <2>1. /\ presentsDone >= 1 => slots'[PrevSlot(presentsDone)] = slots[PrevSlot(presentsDone)]
        /\ pc' \in {"present", "idle"} /\ UNCHANGED <<presentsDone, features>>
    <3>1. presentsDone >= 1 => Targets = {presentsDone % 2}
      BY <1>0 DEF Targets, TypeOK, SlotInv
    <3>2. QED
      BY <1>0, <1>1, <3>1, SlotShift DEF CopyEnd
  <2>2. QED
    BY <2>1 DEF FlowInv
<1>2. CASE WaitIdle
  <2>1. queue = <<>> /\ pc = "waitIdle" /\ presentsDone' = presentsDone + 1
        /\ pc' = "idle" /\ UNCHANGED <<slots, features>>
    BY <1>2 DEF WaitIdle, DeviceIdle
  <2>2. features[FeatureImage(presentsDone)] = slots[CurrentSlot(presentsDone)]
    BY <2>1 DEF FlowInv
  <2>3. features'[PrevFeature(presentsDone')] = slots'[PrevSlot(presentsDone')]
    BY <1>0, <2>1, <2>2, SlotShift, FeatureShift
  <2>4. presentsDone >= 1 => features'[OldestFeature(presentsDone')] # NoFrame
    BY <1>0, <2>1, SlotShift, FeatureShift DEF FlowInv, SlotInv
  <2>5. QED
    BY <1>0, <2>1, <2>3, <2>4 DEF FlowInv
<1>3. CASE SubmitFeatures
  <2> DEFINE s == [idx |-> frameIdx, pass |-> 0]
  <2>1. s \in Submissions /\ queue \in Seq(Submissions) /\ queue' = Append(queue, s)
    BY <1>3, PassesAssumption DEF SubmitFeatures, TypeOK, Submissions
  <2>2. Len(queue) + 1 \in DOMAIN queue' /\ queue'[Len(queue) + 1].pass = 0
    BY <2>1, QueueAppend
  <2>3. QED
    BY <1>3, <2>2 DEF SubmitFeatures, FlowInv
<1>4. CASE SubmitPass
  <2> DEFINE s == [idx |-> frameIdx, pass |-> pass]
  <2>1. s \in Submissions /\ queue \in Seq(Submissions) /\ queue' = Append(queue, s)
    BY <1>4, PassesAssumption DEF SubmitPass, TypeOK, Submissions
  <2>2. \A i \in DOMAIN queue : i \in DOMAIN queue' /\ queue'[i] = queue[i]
    BY <2>1, QueueAppend
  <2>3. QED
    BY <1>4, <2>2 DEF SubmitPass, FlowInv
<1>5. CASE Execute
  <2>1. /\ queue \in Seq(Submissions) /\ queue # <<>> /\ queue' = Tail(queue)
        /\ Head(queue) = queue[1] /\ 1 \in DOMAIN queue
        /\ queue[1].pass \in 0..Passes /\ queue[1].idx = presentsDone
        /\ UNCHANGED <<presentsDone, pc, slots>>
    BY <1>5, QueueTail, QueueEntry DEF Execute, TypeOK, Submissions, QueueInv
  <2>2. CASE queue[1].pass = 0
    <3>1. features' = [features EXCEPT ![FeatureImage(presentsDone)]
                                         = slots[CurrentSlot(presentsDone)]]
      BY <1>5, <2>1, <2>2 DEF Execute
    <3>2. features \in [0..2 -> 0..MaxFrames]
      BY DEF TypeOK
    <3>3. /\ features'[FeatureImage(presentsDone)] = slots'[CurrentSlot(presentsDone)]
          /\ features'[PrevFeature(presentsDone)] = features[PrevFeature(presentsDone)]
          /\ features'[OldestFeature(presentsDone)] = features[OldestFeature(presentsDone)]
      BY <1>0, <2>1, <3>1, <3>2, FeatureShift
    <3>4. QED
      BY <2>1, <3>3 DEF FlowInv
  <2>3. CASE queue[1].pass > 0
    <3>1. UNCHANGED features
      BY <1>5, <2>1, <2>3 DEF Execute
    <3>2. ASSUME NEW i \in DOMAIN queue PROVE queue[i].pass > 0
      <4>1. i \in Nat \ {0} /\ queue[i].pass \in 0..Passes
        BY <2>1, QueueTail, QueueEntry
      <4>2. i # 1 => queue[1].pass < queue[i].pass
        BY <2>1, <2>3, <4>1 DEF QueueInv
      <4>3. QED
        BY <1>0, <2>1, <2>3, <4>1, <4>2
    <3>3. QED
      BY <2>1, <3>1, <3>2 DEF FlowInv
  <2>4. QED
    BY <1>0, <2>1, <2>2, <2>3
<1>6. CASE CopyBegin \/ WaitFences \/ MakeFence \/ Throw \/ UNCHANGED vars
  BY <1>6 DEF CopyBegin, WaitFences, MakeFence, Throw, vars, FlowInv
<1>7. QED
  BY <1>1, <1>2, <1>3, <1>4, <1>5, <1>6 DEF Next, Present

\* A new context is where every context starts.
LEMMA ContextInit == Init => ContextInv
<1> SUFFICES ASSUME Init PROVE ContextInv
  OBVIOUS
<1>1. SlotInv /\ CountInv
  BY FramesAssumption DEF Init, SlotInv, CountInv
<1>2. QueueInv
  BY DEF Init, QueueInv
<1>3. FlowInv
  BY DEF Init, FlowInv
<1>4. QED
  BY <1>1, <1>2, <1>3, ContextTypeInit DEF ContextInv

LEMMA ContextStep == ASSUME ContextInv, [Next]_vars PROVE ContextInv'
  BY ContextTypeStep, SlotStep, CountStep, QueueStep, FlowStep DEF ContextInv

-----------------------------------------------------------------------------
(* The library.                                                            *)

LEMMA LibraryTypeStep ==
  ASSUME Library!TypeOK, LibraryInv, [Library!Next]_(Library!vars)
  PROVE  Library!TypeOK'
<1> USE DEF Library!libVars, Library!loopVars, Library!Models
<1>1. CASE \E m \in Library!Models, c \in Configs : Library!StartSession(m, c)
  <2>1. session' \in 0..MaxSessions /\ model' \in Library!Models /\ wanted' \in Configs
        /\ control' = "instance"
    BY <1>1, SessionsAssumption DEF Library!StartSession, Library!TypeOK
  <2>2. UNCHANGED <<instance, device, config, contexts, initOk, ctx>> /\ failed' = FALSE
    BY <1>1 DEF Library!StartSession
  <2>3. QED
    BY <2>1, <2>2 DEF Library!TypeOK
<1>2. CASE Library!ReturnsEarly \/ Library!InitThrows \/ UNCHANGED Library!vars
  BY <1>2 DEF Library!ReturnsEarly, Library!InitThrows, Library!vars, Library!TypeOK
<1>3. CASE Library!MakeInstance
  BY <1>3 DEF Library!MakeInstance, Library!TypeOK
<1>4. CASE Library!MakeDevice
  <2>1. /\ device' = [device EXCEPT ![model] = "partial"] /\ instance[model]
        /\ config' = [config EXCEPT ![model] = wanted]
        /\ contexts' = [contexts EXCEPT ![model] = {}]
        /\ control' = "pools"
        /\ UNCHANGED <<instance, session, model, wanted, initOk, ctx, failed>>
    BY <1>4 DEF Library!MakeDevice, LibraryInv
  <2>2. QED
    BY <2>1 DEF Library!TypeOK
<1>5. CASE Library!MakePools
  <2>1. /\ device' = [device EXCEPT ![model] = "ready"] /\ device[model] # "none"
        /\ control' = "context" /\ initOk' = TRUE
        /\ UNCHANGED <<instance, config, contexts, session, model, wanted, ctx, failed>>
    BY <1>5 DEF Library!MakePools, LibraryInv
  <2>2. QED
    BY <2>1 DEF Library!TypeOK
<1>6. CASE Library!CreateContext
  <2>1. /\ contexts' \in {contexts, [contexts EXCEPT ![model] = @ \union {session}]}
        /\ ctx' \in BOOLEAN /\ failed' \in BOOLEAN /\ control' = "running"
        /\ session \in 1..MaxSessions
        /\ UNCHANGED <<instance, device, config, session, model, wanted, initOk>>
    BY <1>6 DEF Library!CreateContext, Library!TypeOK, LibraryInv
  <2>2. contexts' \in [Library!Models -> SUBSET (1..MaxSessions)]
    BY <2>1 DEF Library!TypeOK
  <2>3. QED
    BY <2>1, <2>2 DEF Library!TypeOK
<1>7. CASE Library!DeleteContext
  BY <1>7 DEF Library!DeleteContext, Library!TypeOK
<1>8. CASE Library!Finalize
  <2>1. /\ initOk' = FALSE /\ control' = "idle"
        /\ UNCHANGED <<session, model, wanted, ctx, failed>>
    BY <1>8 DEF Library!Finalize
  <2>2. CASE UNCHANGED Library!libVars
    BY <2>1, <2>2 DEF Library!TypeOK
  <2>3. CASE /\ contexts' = [contexts EXCEPT ![model] = {}]
             /\ device' = [device EXCEPT ![model] = "none"]
             /\ instance' = [instance EXCEPT ![model] = FALSE]
             /\ config' = [config EXCEPT ![model] = NoConfig]
    BY <2>1, <2>3 DEF Library!TypeOK
  <2>4. QED
    BY <1>8, <2>2, <2>3 DEF Library!Finalize, Library!DropDevice, Library!DropInstance
<1>9. QED
  BY <1>1, <1>2, <1>3, <1>4, <1>5, <1>6, <1>7, <1>8 DEF Library!Next

LEMMA LibraryStep ==
  ASSUME Library!TypeOK, LibraryInv, [Library!Next]_(Library!vars)
  PROVE  LibraryInv'
<1> USE DEF Library!libVars, Library!loopVars, Library!Models
<1>1. CASE \E m \in Library!Models, c \in Configs : Library!StartSession(m, c)
  BY <1>1, SessionsAssumption DEF Library!StartSession, Library!TypeOK, LibraryInv
<1>2. CASE Library!ReturnsEarly \/ Library!InitThrows \/ UNCHANGED Library!vars
  BY <1>2 DEF Library!ReturnsEarly, Library!InitThrows, Library!vars, LibraryInv
<1>3. CASE Library!MakeInstance
  BY <1>3 DEF Library!MakeInstance, Library!Initialised, Library!TypeOK, LibraryInv
<1>4. CASE Library!MakeDevice
  BY <1>4 DEF Library!MakeDevice, Library!TypeOK, LibraryInv
<1>5. CASE Library!MakePools
  BY <1>5 DEF Library!MakePools, Library!TypeOK, LibraryInv
<1>6. CASE Library!CreateContext
  BY <1>6 DEF Library!CreateContext, Library!TypeOK, LibraryInv
<1>7. CASE Library!DeleteContext
  BY <1>7 DEF Library!DeleteContext, Library!TypeOK, LibraryInv
<1>8. CASE Library!Finalize
  BY <1>8 DEF Library!Finalize, Library!Complete, Library!DropDevice, Library!DropInstance,
              Library!TypeOK, LibraryInv
<1>9. QED
  BY <1>1, <1>2, <1>3, <1>4, <1>5, <1>6, <1>7, <1>8 DEF Library!Next

-----------------------------------------------------------------------------
(* The sessions.                                                           *)

\* A step of the session is a step of the context or a new context, and a step
\* of the library, or either is left alone.
LEMMA SessionParts ==
  ASSUME [SessionNext]_sessionVars
  PROVE  /\ [Next]_vars \/ Init'
         /\ [Library!Next]_(Library!vars)
<1> USE DEF libraryVars, Library!libVars, Library!loopVars, Library!vars
<1>1. CASE Initialise
  <2>1. UNCHANGED vars \/ FreshContext
    BY <1>1 DEF Initialise
  <2>2. FreshContext => Init'
    BY DEF FreshContext, Init
  <2>3. QED
    BY <1>1, <2>1, <2>2 DEF Initialise, Library!Next
<1>2. CASE Work \/ Gpu
  BY <1>2 DEF Work, Gpu, Next
<1>3. CASE Shutdown
  BY <1>3 DEF Shutdown, Library!Next
<1>4. CASE UNCHANGED sessionVars
  BY <1>4 DEF sessionVars
<1>5. QED
  BY <1>1, <1>2, <1>3, <1>4 DEF SessionNext

LEMMA QueueContextStep ==
  ASSUME TypeOK, LibraryInv, QueueHasContext, [SessionNext]_sessionVars
  PROVE  QueueHasContext'
<1> USE DEF libraryVars
<1>1. CASE Initialise
  <2>1. CASE Library!CreateContext /\ FreshContext
    BY <2>1 DEF FreshContext, QueueHasContext
  <2>2. CASE UNCHANGED vars /\ ctx' \in {FALSE, ctx} /\ control # "running"
    BY <2>2 DEF vars, LibraryInv, QueueHasContext
  <2>3. QED
    BY <1>1, <2>1, <2>2
       DEF Initialise, Library!StartSession, Library!ReturnsEarly, Library!MakeInstance,
           Library!MakeDevice, Library!MakePools, Library!InitThrows
<1>2. CASE Work
  BY <1>2 DEF Work, QueueHasContext
<1>3. CASE Shutdown
  <2>1. CASE (ctx => DeleteWaits) /\ UNCHANGED vars
    BY <2>1 DEF DeleteWaits, DeviceIdle, vars, QueueHasContext
  <2>2. CASE Library!Finalize /\ UNCHANGED vars
    BY <2>2 DEF Library!Finalize, vars, QueueHasContext
  <2>3. QED
    BY <1>3, <2>1, <2>2 DEF Shutdown
<1>4. CASE Gpu
  <2>1. queue # <<>> /\ UNCHANGED ctx
    BY <1>4 DEF Gpu, Execute
  <2>2. QED
    BY <2>1 DEF QueueHasContext
<1>5. CASE UNCHANGED sessionVars
  BY <1>5 DEF sessionVars, vars, QueueHasContext
<1>6. QED
  BY <1>1, <1>2, <1>3, <1>4, <1>5 DEF SessionNext

\* The inductive invariant of the whole, for the theorems below.
LEMMA SessionInvariant == SessionSpec => []SessionInv
<1>1. SessionInit => SessionInv
  <2> SUFFICES ASSUME SessionInit PROVE SessionInv
    OBVIOUS
  <2>1. ContextInv
    BY ContextInit DEF SessionInit
  <2>2. Library!Init
    BY DEF SessionInit
  <2>3. Library!TypeOK
    <3>1. /\ instance \in [Library!Models -> BOOLEAN]
          /\ device \in [Library!Models -> {"none", "partial", "ready"}]
          /\ \A m \in Library!Models : device[m] # "none" => instance[m]
          /\ config \in [Library!Models -> Configs \union {NoConfig}]
          /\ contexts \in [Library!Models -> SUBSET (1..MaxSessions)]
      BY <2>2 DEF Library!Init
    <3>2. session \in 0..MaxSessions /\ model \in Library!Models
      BY <2>2, SessionsAssumption DEF Library!Init, Library!Models
    <3>3. QED
      BY <2>2, <3>1, <3>2 DEF Library!Init, Library!TypeOK
  <2>4. LibraryInv
    BY <2>2 DEF Library!Init, Library!Models, LibraryInv
  <2>5. QueueHasContext
    BY DEF SessionInit, Init, QueueHasContext
  <2>6. QED
    BY <2>1, <2>3, <2>4, <2>5 DEF SessionInv
<1>2. Init' => ContextInv'
  BY ContextInit, PTL
<1>3. SessionInv /\ [SessionNext]_sessionVars => SessionInv'
  <2> SUFFICES ASSUME SessionInv, [SessionNext]_sessionVars PROVE SessionInv'
    OBVIOUS
  <2>1. ContextInv'
    BY <1>2, SessionParts, ContextStep DEF SessionInv
  <2>2. (Library!TypeOK /\ LibraryInv)'
    BY SessionParts, LibraryTypeStep, LibraryStep DEF SessionInv
  <2>3. QueueHasContext'
    BY QueueContextStep DEF SessionInv, ContextInv
  <2>4. QED
    BY <2>1, <2>2, <2>3 DEF SessionInv
<1>4. QED
  BY <1>1, <1>3, PTL DEF SessionSpec

-----------------------------------------------------------------------------
(* The theorems.                                                           *)

\* The context, its GPU queue and both copies of the library keep their types;
\* a device has its instance.
THEOREM FramegenTypes == SessionSpec => []SessionTypeOK
<1>1. SessionInv => SessionTypeOK
  BY DEF SessionInv, ContextInv, SessionTypeOK
<1>2. QED
  BY <1>1, SessionInvariant, PTL

\* A session interpolates with the flow scale and generation count it was
\* started with, in whichever copy of the library, after any history of failed
\* initialisations.
THEOREM SessionsKeepSettings == SessionSpec => []OwnSettings
<1>1. SessionInv => OwnSettings
  BY DEF SessionInv, LibraryInv, OwnSettings, Library!OwnSettings, Library!TypeOK
<1>2. QED
  BY <1>1, SessionInvariant, PTL

\* Submitted work is always that of the one context which exists, on a complete
\* device: over presents that threw, shutdowns and new sessions.
THEOREM WorkIsOfLiveContext == SessionSpec => []WorkHasContext
<1>1. SessionInv => WorkHasContext
  BY DEF SessionInv, LibraryInv, QueueHasContext, WorkHasContext, Library!TypeOK
<1>2. QED
  BY <1>1, SessionInvariant, PTL

\* A copy touches no input that a present which returned still reads.
THEOREM CountedPresentsReadStableInputs == SessionSpec => []CountedInputsStable
<1>1. SessionInv => CountedInputsStable
  BY DEF SessionInv, ContextInv, CountInv, QueueInv, CountedInputsStable
<1>2. QED
  BY <1>1, SessionInvariant, PTL

\* The flow is computed between the features of the inputs it is applied to,
\* after any number of presents that threw and captures that were bypassed.
THEOREM FlowIsOfItsInputs == SessionSpec => []FlowMatchesInputs
<1>1. SessionInv => FlowMatchesInputs
  <2> SUFFICES ASSUME SessionInv, NEW i \in DOMAIN queue,
                      i = 1, queue[i].pass > 0, pc = "waitIdle"
               PROVE  LET n == queue[i].idx IN
                      /\ features[FeatureImage(n)] = slots[CurrentSlot(n)]
                      /\ n >= 1 => features[PrevFeature(n)] = slots[PrevSlot(n)]
                      /\ n >= 2 => features[OldestFeature(n)] # NoFrame
    BY DEF FlowMatchesInputs
  <2>1. TypeOK /\ QueueInv /\ FlowInv /\ queue[i].idx = presentsDone
    BY DEF SessionInv, ContextInv, QueueInv
  <2>2. ASSUME NEW j \in DOMAIN queue PROVE queue[j].pass > 0
    <3>1. queue \in Seq(Submissions) /\ queue[j].pass \in 0..Passes
      BY <2>1, QueueEntry DEF TypeOK, Submissions
    <3>2. j # 1 => i < j
      BY <3>1
    <3>3. QED
      BY <2>1, <3>1, <3>2, QueueEntry, PassesAssumption DEF QueueInv
  <2>3. QED
    BY <2>1, <2>2 DEF FlowInv
<1>2. QED
  BY <1>1, SessionInvariant, PTL

=============================================================================
