----------------------------- MODULE RenderLoop -----------------------------
(***************************************************************************)
(* The native frame-generation loop of lsfg_render_loop.cpp.               *)
(*                                                                         *)
(* Three kinds of threads share the State object g:                        *)
(*   - the control thread, which calls initRenderLoop and                  *)
(*     shutdownRenderLoop;                                                 *)
(*   - the capture threads, which call pushFrame;                          *)
(*   - the worker, which imports a captured AHardwareBuffer, copies it     *)
(*     into one of the two framegen input slots, runs framegen and blits.  *)
(* A region of code that holds g.mu from end to end is one step;           *)
(* initRenderLoop holds g.mu while shaders compile and is two steps.       *)
(*                                                                         *)
(* A captured frame is named by its capture number; what is abstracted of  *)
(* it is its pixel content, a member of Contents.  How a blit reaches the  *)
(* window is the subject of OutputSurface; here a blit shows its frame     *)
(* when a window is attached.                                              *)
(***************************************************************************)
EXTENDS Naturals, Sequences

CONSTANTS
  Pushers,      \* capture threads that may call pushFrame
  Contents,     \* distinct pixel contents of a capture
  MaxCaptures,  \* bound: captures in a behaviour
  MaxInits,     \* bound: initRenderLoop calls in a behaviour
  Depths,       \* queue depths the pacing settings may choose (clamped 2..6)
  Env           \* environment events a run enables, a subset of EnvEvents

EnvEvents == {"hashFail", "importFail", "copyFail", "presentThrow",
              "deviceLost", "bypass", "suppress", "allocFail", "noFramegen",
              "sessionFail", "detach"}

ASSUME BoundsAssumption == MaxCaptures \in Nat /\ MaxInits \in Nat
ASSUME DepthsAssumption == Depths # {} /\ Depths \subseteq 2..6
ASSUME EnvAssumption    == Env \subseteq EnvEvents

Frames == 1..MaxCaptures
NoFrame == 0
NoHash == "no-hash"
ASSUME HashAssumption == NoHash \notin Contents

VARIABLES
  mu,             \* "free", or "ctl" while initRenderLoop holds g.mu
  ctl,            \* where the control thread is
  inits,          \* initRenderLoop calls so far
  initialized, stopRequested,
  autoDisabled,   \* framegenAutoDisabled
  bypass,
  lastHash,       \* lastCaptureHash, NoHash when not valid
  hashFrame,      \* history: the capture that set lastHash
  captures,       \* captures so far: the newest frame's number
  push,           \* per pusher: the frame it acquired and has not yet queued
  pending,        \* g.pending
  queueDepth,
  refs,           \* AHardwareBuffer references the loop holds, per frame
  worker,         \* where the worker thread is
  frame,          \* the frame the worker popped
  slot,           \* inSlot: the frame whose pixels each input slot holds
  framesCopied, presentsDone,
  ctx,            \* framegenCtxId >= 0
  frameIdx,       \* framegen's Context::frameIdx
  pair,           \* history: the frames framegen last interpolated between
  window,         \* outWindow != nullptr
  shown           \* history: the newest real capture on the overlay

ctlVars    == <<mu, ctl, inits, initialized, stopRequested>>
hashVars   == <<lastHash, hashFrame>>
queueVars  == <<pending, refs>>
workVars   == <<worker, frame>>
slotVars   == <<slot, framesCopied, presentsDone>>
genVars    == <<ctx, frameIdx, pair, autoDisabled>>
userVars   == <<bypass, queueDepth, window>>
vars == <<ctlVars, hashVars, captures, push, queueVars, workVars, slotVars,
          genVars, userVars, shown>>

Holding == {"import", "copy"}    \* worker points that own the popped reference

Acquire(f) == refs' = [refs EXCEPT ![f] = @ + 1]

\* Mutant: a failure path that releases what was released already.
ReleaseTwice(f) == refs' = [refs EXCEPT ![f] = @ - 2]
Release(f) == refs' = [refs EXCEPT ![f] = @ - 1]

\* The frames of a sequence lose one reference each (a release loop).
\* Mutant: the queue is cleared without the loop.
ReleaseNone(s) == UNCHANGED refs
ReleaseAll(s) ==
  refs' = [f \in Frames |->
             IF \E i \in DOMAIN s : s[i] = f THEN refs[f] - 1 ELSE refs[f]]

Init ==
  /\ mu = "free" /\ ctl = "idle" /\ inits = 0
  /\ initialized = FALSE /\ stopRequested = FALSE
  /\ autoDisabled = FALSE /\ bypass = FALSE
  /\ lastHash = NoHash /\ hashFrame = NoFrame
  /\ captures = 0
  /\ push = [p \in Pushers |-> NoFrame]
  /\ pending = <<>>
  /\ queueDepth \in Depths
  /\ refs = [f \in Frames |-> 0]
  /\ worker = "none" /\ frame = NoFrame
  /\ slot = [i \in 0..1 |-> NoFrame]
  /\ framesCopied = 0 /\ presentsDone = 0
  /\ ctx = FALSE /\ frameIdx = 0 /\ pair = <<NoFrame, NoFrame>>
  /\ window = FALSE /\ shown = NoFrame

-----------------------------------------------------------------------------
(* Control thread: initRenderLoop.                                         *)

\* Lock g.mu, reset the counters, the duplicate filter and the auto-disable
\* latch.  The bypass toggle survives.  An initialised loop returns at once.
InitBegin ==
  /\ ctl = "idle" /\ mu = "free" /\ ~initialized
  /\ inits < MaxInits
  /\ inits' = inits + 1
  /\ mu' = "ctl" /\ ctl' = "building"
  /\ lastHash' = NoHash /\ hashFrame' = NoFrame
  /\ framesCopied' = 0 /\ presentsDone' = 0
  /\ autoDisabled' = FALSE
  /\ UNCHANGED <<initialized, stopRequested, captures, push, queueVars,
                 workVars, slot, ctx, frameIdx, pair, userVars, shown>>

\* Session, buffers and shaders are up; framegen may be unavailable, in which
\* case the loop still starts (kRenderLoopFramegenDisabled).
InitDone ==
  /\ ctl = "building"
  /\ ctx' \in IF "noFramegen" \in Env THEN BOOLEAN ELSE {TRUE}
  /\ frameIdx' = 0 /\ pair' = <<NoFrame, NoFrame>>
  /\ slot' = [i \in 0..1 |-> NoFrame]
  /\ initialized' = TRUE /\ stopRequested' = FALSE
  /\ worker' = "start"
  /\ mu' = "free" /\ ctl' = "idle"
  /\ UNCHANGED <<inits, autoDisabled, hashVars, captures, push, queueVars,
                 frame, framesCopied, presentsDone, userVars, shown>>

\* create_session failed: kRenderLoopSessionFailed.
InitSessionFailed ==
  /\ ctl = "building" /\ "sessionFail" \in Env
  /\ mu' = "free" /\ ctl' = "idle"
  /\ UNCHANGED <<inits, initialized, stopRequested, hashVars, captures, push,
                 queueVars, workVars, slotVars, genVars, userVars, shown>>

\* createAhbImage failed: shutdownRenderLoop is called with g.mu held, and its
\* first statement locks g.mu again.
InitAllocFailed ==
  /\ ctl = "building" /\ "allocFail" \in Env
  /\ ctl' = "relock"
  /\ UNCHANGED <<mu, inits, initialized, stopRequested, hashVars, captures,
                 push, queueVars, workVars, slotVars, genVars, userVars, shown>>

-----------------------------------------------------------------------------
(* Control thread: shutdownRenderLoop.                                     *)

\* Mutant: the stop is only requested of a worker that has nothing queued.
RequestStopIfDrained == stopRequested' = (pending = <<>>)
RequestStop == stopRequested' = TRUE

ShutdownBegin ==
  /\ ctl = "idle" /\ mu = "free" /\ inits > 0
  /\ RequestStop
  /\ ctl' = "join"
  /\ UNCHANGED <<mu, inits, initialized, hashVars, captures, push, queueVars,
                 workVars, slotVars, genVars, userVars, shown>>

\* worker.join() returns (at once when no worker was started).
ShutdownJoined ==
  /\ ctl = "join" /\ worker \in {"none", "exited"}
  /\ worker' = "none" /\ ctl' = "teardown"
  /\ UNCHANGED <<mu, inits, initialized, stopRequested, hashVars, captures,
                 push, queueVars, frame, slotVars, genVars, userVars, shown>>

\* The second critical section: release what is queued, delete the context,
\* destroy the images and the session.  The window is kept.
ShutdownTeardown ==
  /\ ctl = "teardown" /\ mu = "free"
  /\ ReleaseAll(pending) /\ pending' = <<>>
  /\ ctx' = FALSE
  /\ slot' = [i \in 0..1 |-> NoFrame]
  /\ initialized' = FALSE
  /\ lastHash' = NoHash /\ hashFrame' = NoFrame
  /\ ctl' = "idle"
  /\ UNCHANGED <<mu, inits, stopRequested, captures, push, workVars,
                 framesCopied, presentsDone, frameIdx, pair, autoDisabled,
                 userVars, shown>>

-----------------------------------------------------------------------------
(* Capture threads: pushFrame.                                             *)

\* A capture whose hash equals the last recorded one is discarded here, before
\* any reference is taken and whatever became of the frame that recorded it.
PushDuplicate(p, c) ==
  /\ push[p] = NoFrame /\ captures < MaxCaptures
  /\ lastHash = c
  /\ captures' = captures + 1
  /\ UNCHANGED <<ctlVars, hashVars, push, queueVars, workVars, slotVars,
                 genVars, userVars, shown>>

\* Another content: record it, acquire the buffer and go on to lock g.mu.  A
\* hash of 0 (the buffer could not be read) skips the filter.
PushAcquire(p, c) ==
  LET f == captures + 1 IN
  /\ push[p] = NoFrame /\ captures < MaxCaptures
  /\ captures' = f
  /\ \/ lastHash # c /\ lastHash' = c /\ hashFrame' = f
     \/ "hashFail" \in Env /\ UNCHANGED hashVars
  /\ Acquire(f)
  /\ push' = [push EXCEPT ![p] = f]
  /\ UNCHANGED <<ctlVars, pending, workVars, slotVars, genVars, userVars,
                 shown>>

\* Mutant: the early return on ~initialized is dropped.
AlwaysAccepts == TRUE
Accepts == initialized

QueueFull == Len(pending) >= queueDepth

\* Under g.mu: refuse when not initialised; otherwise queue, dropping the
\* oldest frame when the queue is at its depth.
PushEnqueue(p) ==
  LET f == push[p] IN
  /\ f # NoFrame /\ mu = "free"
  /\ push' = [push EXCEPT ![p] = NoFrame]
  /\ \/ ~Accepts /\ Release(f) /\ UNCHANGED pending
     \/ /\ Accepts /\ ~QueueFull
        /\ pending' = Append(pending, f)
        /\ UNCHANGED refs
     \/ /\ Accepts /\ QueueFull
        /\ Release(Head(pending))
        /\ pending' = Append(Tail(pending), f)
  /\ UNCHANGED <<ctlVars, hashVars, captures, workVars, slotVars, genVars,
                 userVars, shown>>

-----------------------------------------------------------------------------
(* Worker thread.                                                          *)

\* Drop what was queued before the worker ran.
DrainStale ==
  /\ worker = "start" /\ mu = "free"
  /\ ReleaseAll(pending) /\ pending' = <<>>
  /\ worker' = "wait"
  /\ UNCHANGED <<ctlVars, hashVars, captures, push, frame, slotVars, genVars,
                 userVars, shown>>

\* Mutant: the newest frame is taken instead of the oldest.
TakeNewest ==
  /\ frame' = pending[Len(pending)]
  /\ pending' = SubSeq(pending, 1, Len(pending) - 1)
Take == frame' = Head(pending) /\ pending' = Tail(pending)

Pop ==
  /\ worker = "wait" /\ mu = "free" /\ pending # <<>>
  /\ Take
  /\ worker' = "import"
  /\ UNCHANGED <<ctlVars, hashVars, captures, push, refs, slotVars, genVars,
                 userVars, shown>>

\* The worker leaves only when a stop was asked for and nothing is queued.
Exit ==
  /\ worker = "wait" /\ mu = "free" /\ pending = <<>> /\ stopRequested
  /\ worker' = "exited"
  /\ UNCHANGED <<ctlVars, hashVars, captures, push, queueVars, frame,
                 slotVars, genVars, userVars, shown>>

ImportFrame ==
  /\ worker = "import"
  /\ \/ worker' = "copy" /\ UNCHANGED <<refs, frame>>
     \/ /\ "importFail" \in Env
        /\ Release(frame) /\ worker' = "wait" /\ frame' = NoFrame
  /\ UNCHANGED <<ctlVars, hashVars, captures, push, pending, slotVars,
                 genVars, userVars, shown>>

\* The slot framegen will treat as the current frame at its next present.
\* Mutant: index the slots by copies, which run ahead when a present throws.
SlotByCopies == framesCopied % 2
NewSlot  == presentsDone % 2
PrevSlot == 1 - NewSlot

\* The first copied frame seeds both slots, a later one its own slot.
WriteSlots ==
  slot' = IF framesCopied = 0 THEN [i \in 0..1 |-> frame]
                              ELSE [slot EXCEPT ![NewSlot] = frame]

CopyFrame ==
  /\ worker = "copy"
  /\ WriteSlots
  /\ framesCopied' = framesCopied + 1
  /\ Release(frame)
  /\ worker' = "decide"
  /\ UNCHANGED <<ctlVars, hashVars, captures, push, pending, frame,
                 presentsDone, genVars, userVars, shown>>

\* A failed copy gives the frame up; seeding may have written slot 0 already.
CopyFailed ==
  /\ worker = "copy" /\ "copyFail" \in Env
  /\ \/ UNCHANGED slot
     \/ framesCopied = 0 /\ slot' = [slot EXCEPT ![0] = frame]
  /\ Release(frame)
  /\ worker' = "wait" /\ frame' = NoFrame
  /\ UNCHANGED <<ctlVars, hashVars, captures, push, pending, framesCopied,
                 presentsDone, genVars, userVars, shown>>

\* runFramegen is sampled once per frame.
Decide ==
  /\ worker = "decide"
  /\ worker' = IF ctx /\ ~bypass /\ ~autoDisabled THEN "present" ELSE "passthrough"
  /\ UNCHANGED <<ctlVars, hashVars, captures, push, queueVars, frame,
                 slotVars, genVars, userVars, shown>>

\* presentContext and waitIdle: framegen reads the slot of its own frameIdx as
\* the current frame, and counts the frame only when nothing threw.
Present ==
  /\ worker = "present"
  /\ pair' = <<slot[1 - (frameIdx % 2)], slot[frameIdx % 2]>>
  /\ frameIdx' = frameIdx + 1
  /\ \/ worker' = "generated"
     \/ "suppress" \in Env /\ framesCopied > 1 /\ worker' = "real"
  /\ UNCHANGED <<ctlVars, hashVars, captures, push, queueVars, frame,
                 slotVars, ctx, autoDisabled, userVars, shown>>

\* presentContext threw: nothing of this frame is blitted.  A lost device
\* switches framegen off until the next initRenderLoop.
PresentThrew ==
  /\ worker = "present"
  /\ \/ "presentThrow" \in Env /\ UNCHANGED autoDisabled
     \/ "deviceLost" \in Env /\ autoDisabled' = TRUE
  /\ worker' = "wait" /\ frame' = NoFrame
  /\ UNCHANGED <<ctlVars, hashVars, captures, push, queueVars, slotVars, ctx,
                 frameIdx, pair, userVars, shown>>

\* The generated outputs go to the window before the real frame.
BlitGenerated ==
  /\ worker = "generated"
  /\ worker' = "real"
  /\ UNCHANGED <<ctlVars, hashVars, captures, push, queueVars, frame,
                 slotVars, genVars, userVars, shown>>

\* blitOutputToWindow of the real frame does nothing without a window.
\* Mutant: the other slot is blitted.
ShowPrevious == shown' = IF window THEN slot[PrevSlot] ELSE shown
ShowReal == shown' = IF window THEN slot[NewSlot] ELSE shown

BlitReal ==
  /\ worker = "real"
  /\ ShowReal
  /\ presentsDone' = presentsDone + 1
  /\ worker' = "wait" /\ frame' = NoFrame
  /\ UNCHANGED <<ctlVars, hashVars, captures, push, queueVars, slot,
                 framesCopied, genVars, userVars>>

\* Bypass, auto-disabled or no context: blit the capture, leave presentsDone.
BlitPassthrough ==
  /\ worker = "passthrough"
  /\ ShowReal
  /\ worker' = "wait" /\ frame' = NoFrame
  /\ UNCHANGED <<ctlVars, hashVars, captures, push, queueVars, slotVars,
                 genVars, userVars>>

-----------------------------------------------------------------------------
(* Settings, from any thread.                                              *)

SetBypass ==
  /\ "bypass" \in Env
  /\ bypass' = ~bypass
  /\ UNCHANGED <<ctlVars, hashVars, captures, push, queueVars, workVars,
                 slotVars, genVars, queueDepth, window, shown>>

SetQueueDepth(d) ==
  /\ queueDepth # d /\ queueDepth' = d
  /\ UNCHANGED <<ctlVars, hashVars, captures, push, queueVars, workVars,
                 slotVars, genVars, bypass, window, shown>>

\* setOutputSurface with a window, or with null.
SetOutputSurface ==
  /\ mu = "free"
  /\ window' \in IF "detach" \in Env THEN BOOLEAN ELSE {TRUE}
  /\ window' # window
  /\ UNCHANGED <<ctlVars, hashVars, captures, push, queueVars, workVars,
                 slotVars, genVars, bypass, queueDepth, shown>>

Control == InitBegin \/ InitDone \/ InitSessionFailed \/ InitAllocFailed
           \/ ShutdownBegin \/ ShutdownJoined \/ ShutdownTeardown

Worker == DrainStale \/ Pop \/ Exit \/ ImportFrame \/ CopyFrame \/ CopyFailed
          \/ Decide \/ Present \/ PresentThrew \/ BlitGenerated \/ BlitReal
          \/ BlitPassthrough

Push(p) == PushEnqueue(p) \/ \E c \in Contents : PushDuplicate(p, c) \/ PushAcquire(p, c)

Settings == SetBypass \/ SetOutputSurface \/ \E d \in Depths : SetQueueDepth(d)

Next == Control \/ Worker \/ Settings \/ \E p \in Pushers : Push(p)

Spec == Init /\ [][Next]_vars

\* The threads run: the worker, a started init or shutdown, a pusher waiting
\* for g.mu.  Nobody has to call init or shutdown or to capture a frame.
Fairness ==
  /\ WF_vars(Worker)
  /\ WF_vars(InitDone \/ InitSessionFailed \/ InitAllocFailed)
  /\ WF_vars(ShutdownJoined \/ ShutdownTeardown)
  /\ \A p \in Pushers : WF_vars(PushEnqueue(p))

FairSpec == Spec /\ Fairness

-----------------------------------------------------------------------------
(* Correctness.                                                            *)

CtlPoints    == {"idle", "building", "relock", "join", "teardown"}
WorkerPoints == {"none", "start", "wait", "import", "copy", "decide", "present",
                 "generated", "real", "passthrough", "exited"}

TypeOK ==
  /\ mu \in {"free", "ctl"} /\ ctl \in CtlPoints /\ inits \in Nat
  /\ initialized \in BOOLEAN /\ stopRequested \in BOOLEAN
  /\ autoDisabled \in BOOLEAN /\ bypass \in BOOLEAN
  /\ lastHash \in Contents \union {NoHash}
  /\ hashFrame \in 0..MaxCaptures
  /\ captures \in 0..MaxCaptures
  /\ push \in [Pushers -> 0..MaxCaptures]
  /\ pending \in Seq(Frames)
  /\ queueDepth \in Depths
  /\ refs \in [Frames -> Nat]
  /\ worker \in WorkerPoints /\ frame \in 0..MaxCaptures
  /\ slot \in [0..1 -> 0..MaxCaptures]
  /\ framesCopied \in Nat /\ presentsDone \in Nat /\ frameIdx \in Nat
  /\ ctx \in BOOLEAN
  /\ pair \in (0..MaxCaptures) \X (0..MaxCaptures)
  /\ window \in BOOLEAN /\ shown \in 0..MaxCaptures

Queued(f) == \E i \in DOMAIN pending : pending[i] = f
Popped(f) == worker \in Holding /\ frame = f
Pushed(f) == \E p \in Pushers : push[p] = f

\* Every AHardwareBuffer reference pushFrame acquires is accounted for: the
\* loop holds exactly one for a frame that a pusher, the queue or the worker
\* has, and none for any other, whichever of the failure paths was taken.
RefsBalanced ==
  \A f \in Frames :
    refs[f] = IF Queued(f) \/ Popped(f) \/ Pushed(f) THEN 1 ELSE 0

\* The loop implements the custody of buffers: whatever interleaving of capture,
\* worker, failures and shutdown, each captured buffer is acquired at most once
\* and released exactly once after that.
CustodyOf(f) == CASE f > captures -> "unseen"
                  [] f <= captures /\ refs[f] = 0 -> "done"
                  [] f <= captures /\ refs[f] = 1 -> "held"
                  [] OTHER -> "miscounted"
Custody == INSTANCE BufferCustody WITH
             Buffers <- Frames, custody <- [f \in Frames |-> CustodyOf(f)]
CustodySpec == Custody!Spec

\* After shutdownRenderLoop has returned and until the next initRenderLoop
\* nothing of the session is left: no queued frame, worker or context, though
\* pushFrame may have run at any point of the shutdown.
NothingOutlivesShutdown ==
  (ctl = "idle" /\ ~initialized) =>
    pending = <<>> /\ worker = "none" /\ ~ctx

\* presentsDone mirrors framegen's frameIdx: at every present the slot framegen
\* takes for the current frame holds the frame the worker just copied, so the
\* optical flow is never computed backwards.
CurrentSlotIsNewest ==
  worker = "present" => slot[frameIdx % 2] = frame

\* The real captures the overlay shows are in capture order.
OverlayInOrder == [][shown' > shown]_shown

\* The queue never exceeds the deepest setting, though the depth may change
\* while frames are queued.
QueueBounded == \E d \in Depths : Len(pending) <= d

\* Once shutdownRenderLoop waits for the worker it returns, provided captures
\* stop: the worker drains what is queued and leaves.
ShutdownCompletes == ctl = "join" ~> ctl = "idle"

\* initRenderLoop returns, with kOk or with an error code.
InitReturns == ctl = "building" ~> ctl = "idle"

\* A frame that was handed to framegen is blitted, or a newer one is, also when
\* the device is lost under it (passthrough), as long as a window is attached.
\* Does not hold: README, section 6.
PresentedReachesScreen ==
  \A f \in Frames :
    worker = "present" /\ frame = f ~> shown >= f \/ ~window

\* Short of that: once framegen has interpolated a frame, that frame or a newer
\* one is blitted, as long as a window is attached.
InterpolatedReachesScreen ==
  \A f \in Frames :
    worker = "generated" /\ frame = f ~> shown >= f \/ ~window

\* A capture is only discarded as a duplicate of a frame that is on its way to
\* the overlay or was blitted already.  Does not hold: README, section 6.
DuplicateFilterSound ==
  (hashFrame # NoFrame /\ initialized /\ window) =>
    \/ shown >= hashFrame
    \/ Queued(hashFrame) \/ Pushed(hashFrame)
    \/ frame = hashFrame

\* The first interpolation has the same image on both inputs.  Does not hold:
\* README, section 6.
FirstPairIsSeed ==
  (worker = "generated" /\ frameIdx = 1) => pair[1] = pair[2]
-----------------------------------------------------------------------------
(* The inductive strengthening of RefsBalanced, NothingOutlivesShutdown and *)
(* CurrentSlotIsNewest, proved in RenderLoopProofs.                         *)

\* A reference has one holder.
HoldersDisjoint ==
  /\ \A i, j \in DOMAIN pending : pending[i] = pending[j] => i = j
  /\ \A f \in Frames : Queued(f) => ~Popped(f) /\ ~Pushed(f)
  /\ \A f \in Frames : Popped(f) => ~Pushed(f)
  /\ \A p, q \in Pushers : push[p] # NoFrame /\ push[p] = push[q] => p = q

\* What is held was captured, so a new capture is held by nobody.
HeldWasCaptured ==
  /\ \A f \in Frames : Queued(f) \/ Popped(f) \/ Pushed(f) => f <= captures
  /\ worker \in Holding => frame \in Frames

\* Outside a session there is no queue, no worker and no context.
IdleOutsideSession ==
  /\ ~initialized => pending = <<>> /\ worker = "none" /\ ~ctx
  /\ ctl = "teardown" => worker = "none"
  /\ ctl \in {"building", "relock"} <=> mu = "ctl"
  /\ mu = "ctl" => ~initialized
  /\ ctl = "building" => presentsDone = 0

\* framegen is one frame ahead between a present and the end of its blits.
FrameIdxInStep ==
  /\ ctx => frameIdx = IF worker \in {"generated", "real"} THEN presentsDone + 1
                       ELSE presentsDone
  /\ worker \in {"present", "generated", "real"} => ctx
  /\ worker \in {"decide", "present"} => slot[NewSlot] = frame

\* From the copy to the blit the slot in turn holds the frame in work.
Busy == Holding \union {"decide", "present", "generated", "real", "passthrough"}
SlotHoldsFrame == worker \in Busy \ Holding => slot[NewSlot] = frame

\* Frames go through the loop in a line: what is on the overlay, the frame in
\* work, the queue from its head, and what a capture thread brings.
Waiting(f) == Queued(f) \/ Pushed(f)
InLine ==
  /\ \A i, j \in DOMAIN pending : i < j => pending[i] < pending[j]
  /\ \A f, g \in Frames : Queued(f) /\ Pushed(g) => f < g
  /\ shown <= captures
  /\ \A f \in Frames : Waiting(f) => shown < f
  /\ worker \in Busy =>
       /\ frame \in Frames /\ shown < frame /\ frame <= captures
       /\ \A f \in Frames : Waiting(f) => frame < f

CustodyInv == TypeOK /\ HoldersDisjoint /\ HeldWasCaptured /\ RefsBalanced
SessionInv == IdleOutsideSession /\ FrameIdxInStep
=============================================================================
