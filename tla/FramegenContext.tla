--------------------------- MODULE FramegenContext ---------------------------
(***************************************************************************)
(* A framegen context (v3.1_src/context.cpp and its shaders) as the render *)
(* loop drives it.                                                         *)
(*                                                                         *)
(* A present waits for the fences its ring entry used last, submits the    *)
(* feature extraction of the current input slot, then one pass per         *)
(* generated frame, each with a fence made for it, and counts the frame.   *)
(* Any of these calls may throw, which leaves the ring entry as it stands. *)
(* The features of three consecutive presents are kept in a ring of three  *)
(* images: the passes compute the flow between the last two and mask with  *)
(* all three.  The render loop waits for the device after a present that   *)
(* returned, and not after one that threw.                                 *)
(***************************************************************************)
EXTENDS Naturals, Sequences

CONSTANTS
  RingSize,   \* entries of Context::data (8)
  Passes,     \* generationCount
  MaxFrames,  \* bound: captured frames in a behaviour
  Env         \* environment events a run enables, a subset of EnvEvents

EnvEvents == {"throw", "bypass"}

ASSUME RingAssumption   == RingSize \in Nat \ {0}
ASSUME PassesAssumption == Passes \in Nat \ {0}
ASSUME FramesAssumption == MaxFrames \in Nat
ASSUME EnvAssumption    == Env \subseteq EnvEvents

Frames == 1..MaxFrames
NoFrame == 0

VARIABLES
  captured,      \* frames copied so far: the newest frame's number
  slots,         \* the frame each input image holds
  presentsDone,  \* the render loop's count
  frameIdx,      \* the context's count
  pc,            \* where the worker is
  pass,          \* the pass being submitted
  shouldWait,    \* per ring entry
  fences,        \* per ring entry and pass: none, made, pending or signaled
  queue,         \* submissions the GPU has not executed
  features       \* per feature image: the frame it was computed from

callerVars == <<captured, slots, presentsDone>>
ringVars   == <<shouldWait, fences>>
gpuVars    == <<queue, features>>
vars == <<callerVars, frameIdx, pc, pass, ringVars, gpuVars>>

Ring == 0..(RingSize - 1)
Entry == frameIdx % RingSize

\* The feature image of present n; gamma and delta read that of the present
\* before, beta that of the one before it too.
\* Mutant: the features alternate between two images.
TwoFeatures(n) == n % 2
FeatureImage(n)  == n % 3
PrevFeature(n)   == (n + 2) % 3
OldestFeature(n) == (n + 1) % 3

\* inImg_0 is the current input when the count is even.
CurrentSlot(n) == n % 2
PrevSlot(n)    == (n + 1) % 2

NoSlots    == [i \in 0..1 |-> NoFrame]
NoFences   == [r \in Ring |-> [p \in 1..Passes |-> "none"]]
NoFeatures == [i \in 0..2 |-> NoFrame]

Init ==
  /\ captured = 0 /\ slots = NoSlots /\ presentsDone = 0
  /\ frameIdx = 0 /\ pc = "idle" /\ pass = 1
  /\ shouldWait = [r \in Ring |-> FALSE] /\ fences = NoFences
  /\ queue = <<>> /\ features = NoFeatures

-----------------------------------------------------------------------------
(* The render loop's side.                                                 *)

\* The slots a capture is copied into: both for the first.
Targets == IF captured = 0 THEN 0..1 ELSE {presentsDone % 2}

CopyBegin ==
  /\ pc = "idle" /\ captured < MaxFrames
  /\ pc' = "copying"
  /\ UNCHANGED <<callerVars, frameIdx, pass, ringVars, gpuVars>>

CopyEnd ==
  /\ pc = "copying"
  /\ captured' = captured + 1
  /\ slots' = [i \in 0..1 |-> IF i \in Targets THEN captured' ELSE slots[i]]
  /\ \/ pc' = "present"
     \/ "bypass" \in Env /\ pc' = "idle"
  /\ UNCHANGED <<presentsDone, frameIdx, pass, ringVars, gpuVars>>

\* waitIdle after a present that returned.  Mutant: it is not called.
NoWait == TRUE
DeviceIdle == queue = <<>>

WaitIdle ==
  /\ pc = "waitIdle" /\ DeviceIdle
  /\ presentsDone' = presentsDone + 1
  /\ pc' = "idle"
  /\ UNCHANGED <<captured, slots, frameIdx, pass, ringVars, gpuVars>>

-----------------------------------------------------------------------------
(* Context::present.                                                       *)

FencesSignaled == \A p \in 1..Passes : fences[Entry][p] = "signaled"

\* A fence that was never made has no handle: waiting for it dereferences null.
NullFence ==
  \E p \in 1..Passes :
    /\ fences[Entry][p] = "none"
    /\ \A q \in 1..(p - 1) : fences[Entry][q] = "signaled"

\* Mutant: the wait is not conditional on shouldWait.
AlwaysWaits == FencesSignaled
EntryFree == shouldWait[Entry] => FencesSignaled

WaitFences ==
  /\ pc = "present"
  /\ \/ EntryFree /\ pc' = "features"
     \/ shouldWait[Entry] /\ NullFence /\ pc' = "crashed"
  /\ shouldWait' = [shouldWait EXCEPT ![Entry] = TRUE]
  /\ UNCHANGED <<callerVars, frameIdx, pass, fences, gpuVars>>

SubmitFeatures ==
  /\ pc = "features"
  /\ queue' = Append(queue, [idx |-> frameIdx, pass |-> 0])
  /\ pc' = "fence" /\ pass' = 1
  /\ UNCHANGED <<callerVars, frameIdx, ringVars, features>>

MakeFence ==
  /\ pc = "fence"
  /\ fences' = [fences EXCEPT ![Entry][pass] = "made"]
  /\ pc' = "submit"
  /\ UNCHANGED <<callerVars, frameIdx, pass, shouldWait, gpuVars>>

\* Mutant: one pass too many.
OnePassMore == pass > Passes
LastPass == pass = Passes

\* The last pass ends the present.
SubmitPass ==
  /\ pc = "submit"
  /\ queue' = Append(queue, [idx |-> frameIdx, pass |-> pass])
  /\ fences' = [fences EXCEPT ![Entry][pass] = "pending"]
  /\ \/ /\ ~LastPass
        /\ pass' = pass + 1 /\ pc' = "fence"
        /\ UNCHANGED frameIdx
     \/ /\ LastPass
        /\ pass' = 1 /\ pc' = "waitIdle"
        /\ frameIdx' = frameIdx + 1
  /\ UNCHANGED <<callerVars, shouldWait, features>>

\* Any call of present may throw, which leaves the count; the loop goes on to
\* the next capture.
Throw ==
  /\ "throw" \in Env /\ pc \in {"features", "fence", "submit"}
  /\ pc' = "idle" /\ pass' = 1
  /\ UNCHANGED <<callerVars, frameIdx, ringVars, gpuVars>>

-----------------------------------------------------------------------------
(* External: framegen's GPU queue.                                         *)

Execute ==
  LET s == Head(queue) IN
  /\ queue # <<>>
  /\ queue' = Tail(queue)
  /\ \/ /\ s.pass = 0
        /\ features' = [features EXCEPT ![FeatureImage(s.idx)] = slots[CurrentSlot(s.idx)]]
        /\ UNCHANGED fences
     \/ /\ s.pass > 0
        /\ fences' = [fences EXCEPT ![s.idx % RingSize][s.pass] =
                        IF @ = "pending" THEN "signaled" ELSE @]
        /\ UNCHANGED features
  /\ UNCHANGED <<callerVars, frameIdx, pc, pass, shouldWait>>

Present == WaitFences \/ SubmitFeatures \/ MakeFence \/ SubmitPass \/ Throw

Next == CopyBegin \/ CopyEnd \/ Present \/ WaitIdle \/ Execute

Spec == Init /\ [][Next]_vars

\* The worker runs and the GPU executes what was submitted.
FairSpec == Spec /\ WF_vars(CopyEnd \/ Present \/ WaitIdle) /\ WF_vars(Execute)

-----------------------------------------------------------------------------
(* Correctness.                                                            *)

TypeOK ==
  /\ captured \in 0..MaxFrames /\ presentsDone \in Nat /\ frameIdx \in Nat
  /\ slots \in [0..1 -> 0..MaxFrames]
  /\ pc \in {"idle", "copying", "present", "features", "fence", "submit",
             "waitIdle", "crashed"}
  /\ pass \in 1..Passes
  /\ shouldWait \in [Ring -> BOOLEAN]
  /\ fences \in [Ring -> [1..Passes -> {"none", "made", "pending", "signaled"}]]
  /\ queue \in Seq([idx : Nat, pass : 0..Passes])
  /\ features \in [0..2 -> 0..MaxFrames]

\* The input images a submission reads: the extraction the current one, a pass
\* both.
Reads(s) == IF s.pass = 0 THEN {CurrentSlot(s.idx)} ELSE 0..1

\* waitIdle keeps the next copy away from inputs framegen still reads: the two
\* devices share the buffers and nothing else orders them.  Does not hold when
\* a present throws: README, section 6.
InputsStable ==
  pc = "copying" => \A i \in DOMAIN queue : Reads(queue[i]) \cap Targets = {}

\* What holds with throws as well: a copy touches no input that a present which
\* returned still reads; only a present that threw, which is not counted and
\* not waited for, can be in the way.
CountedInputsStable ==
  pc = "copying" =>
    \A i \in DOMAIN queue :
      Reads(queue[i]) \cap Targets # {} => queue[i].idx = frameIdx

\* What a pass interpolates is what the features say: the current feature image
\* is of the current input, the previous ones are of the presents before, and
\* the previous input is that of the last present; a present that threw or a
\* bypassed capture in between changes nothing.
FlowMatchesInputs ==
  \A i \in DOMAIN queue :
    LET n == queue[i].idx IN
    (i = 1 /\ queue[i].pass > 0 /\ pc = "waitIdle") =>
      /\ features[FeatureImage(n)] = slots[CurrentSlot(n)]
      /\ n >= 1 => features[PrevFeature(n)] = slots[PrevSlot(n)]
      /\ n >= 2 => features[OldestFeature(n)] # NoFrame

\* presentContext returns or throws.  Does not hold: README, section 6.
PresentReturns == pc = "present" ~> pc \in {"waitIdle", "idle"}

\* What holds with throws as well: a present returns or throws when every fence
\* of the ring entry it uses was submitted, whoever used the entry last.
EntrySubmitted ==
  shouldWait[Entry] =>
    \A p \in 1..Passes : fences[Entry][p] \in {"pending", "signaled"}

SubmittedPresentReturns ==
  pc = "present" /\ EntrySubmitted ~> pc \in {"waitIdle", "idle"}

\* A pass reads only features that were computed.  Does not hold: README,
\* section 6.
FlowInitialised ==
  (queue # <<>> /\ Head(queue).pass > 0) =>
    features[PrevFeature(Head(queue).idx)] # NoFrame
=============================================================================
