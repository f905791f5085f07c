# Specifications of the LSFG Android frame-generation application

TLA+ specifications, model checks and proofs for the Android application in
`src/lsfg-app` and the framegen library it drives (`src/lsfg-vk-android/framegen`).
The application captures the screen, interpolates the captured frames on the
GPU and draws the result into an overlay on top of the captured application.

Paths below are relative to `src/lsfg-app/app/src/main/` unless they start with
`framegen/`, which is short for `src/lsfg-vk-android/framegen/`, or `layer/`, for
`src/lsfg-vk-android/src/`.

Contents: 1 the system, 2 the plan, 3 modules and code, 4 runs, 5 proofs,
6 where the code departs from what it says, 7 what is not modelled.

## 1. The system

### Components, state, operations

| Component | State it keeps | Operations that change it |
| --- | --- | --- |
| Render loop (`cpp/lsfg_render_loop.cpp`) | global `State g`: mutex `mu`, queue `pending`, two input images and the counters `framesCopied`, `presentsDone`, duplicate filter `lastCaptureHash`, `framegenCtxId`, `framegenAutoDisabled`, `bypass`, pacing settings | `initRenderLoop`, `shutdownRenderLoop`, `pushFrame`, the worker thread, `setBypass`, `setPacingParams`, `setOutputSurface` |
| Output window (same file) | `outWindow`, swapchain, `windowCpuProducerLocked`, `disabledForSession`, cached geometry, luma gate | `setOutputSurface`, `createSwapchain`, `destroySwapchain`, `blitOutputToWindow`, `blitOutputToSwapchain` |
| Vulkan session (`cpp/android_vk_session.cpp`) | device, queue, ring of 8 command buffers with fences | `acquireCommandRing`, creation and destruction |
| framegen context (`framegen/v3.1_src/context.cpp`, `shaders/`) | `frameIdx`, ring of 8 render data with fences, three generations of feature images | `present` |
| framegen library (`framegen/v3.1_src/lsfg.cpp`, `v3.1p_src`) | instance, device, pools, contexts, one set per copy | `initialize`, `createContextFromAHB`, `presentContext`, `deleteContext`, `finalize`, `waitIdle` |
| Foreground service (`session/LsfgForegroundService.kt`) | `lastSurface`, sizes, `lsfgContextActive`, `reinitInFlight`, `reinitRequested`, pending size | surface callbacks, parameter changes, the reinit thread, `onDestroy` |
| MediaProjection capture (`session/CaptureEngine.kt`) | VirtualDisplay and what it draws into, ImageReader, `lsfgNativeInputEnabled` | `setLsfgMode`, `setSurface`, `pauseLsfgInput`, `stop`, the image callback |
| Shizuku and root capture (`session/Shizuku*`, `Root*`) | engine: `pendingStart`, proxy of the service; service, in a process of its own: `running`, `worker` | `startCapture`, `pauseCapture`, `stop`, `onServiceConnected`, the capture worker |
| Pacing and statistics (render loop) | moving averages, vsync period, ring of post times | worker, setters, HUD getters |
| Post-processing (`cpu_`, `gpu_`, `nnapi_postprocess.cpp`) | scratch buffers, compiled NNAPI model | one filter call per blit |
| Shader loader | cache of extracted shaders on disk | extraction |
| Benchmark (`benchmark/`) | `state`, `cancelRequested`, the worker's snapshot of the preferences | `start`, `cancel`, `acknowledge`, the worker |
| Automatic overlay, launcher dot | foreground application, enabled set, dot | accessibility events, toggles |
| Crash reporter | signal handlers, report files | install, signal, next launch |
| Preferences, screens, drawer, HUD | key-value store, views | user input |
| Linux layer (`layer/`) | active configuration and its timestamp, the swapchains' contexts and present modes | the swapchain hooks, `updateConfig`, the context's constructor and `present` |
| Desktop settings, diagnostic application, third-party code | - | not part of the application |

### How they interact

The service's main thread attaches the overlay's Surface to the loop
(`setOutputSurface`), starts it (`initContext` -> `initRenderLoop`) and points
the VirtualDisplay at an ImageReader.  The reader's callback hands each
AHardwareBuffer to `pushFrame`, which takes a reference and queues it.  The
worker imports it, copies it into one of two input images shared with framegen,
calls `presentContext` and `waitIdle`, and blits the generated images and the
capture to the window.  framegen has its own Vulkan device: only the shared
buffers and the host's waits connect the two.  A change of parameters or of the
overlay's size destroys the loop and creates it again on a thread of its own
while surface callbacks, captures and further changes go on.

### What is hard

* Four kinds of threads (main, reinit, capture, worker) share state under one
  mutex that several paths do not take: the CPU blit reads `outWindow` without
  it, the service's fields have no lock at all.
* Nearly every step may fail (import, copy, present, device lost, allocation,
  window refused), and each failure path has to give its buffer, image,
  semaphore or fence back.
* Counters in different components must stay in step: `presentsDone` of the
  loop, `frameIdx` of framegen, images mod 2, features mod 3, ring entries
  mod 8, semaphores mod N+1.
* Lifecycle events arrive in any order: a surface is lost during a
  reinitialisation, captures come during a shutdown, settings change twice.
* GPU work is asynchronous: what was submitted last may still read what the
  next step writes.

### What makes each component correct

* Render loop: every captured buffer is given back exactly once; frames are
  interpolated and shown in capture order; a shutdown ends and leaves nothing.
* Window: one producer per window; a swapchain only on the attached window; an
  overlay that stays attached comes up whatever failed before, once its window
  takes frames and blits are no longer dropped.
* Blit: no command buffer, fence, semaphore or image is reused while in use.
* framegen: features and inputs belong together over throws and bypass; a
  present returns; a copy does not disturb a read.
* Library: a session runs with its own settings and leaves nothing usable.
* Service: no request is lost, the loop never starts twice, captures only feed a
  live loop, `onDestroy` leaves nothing.
* Privileged capture: one worker feeds the loop, at the loop's size; a start is
  served whenever the service arrives.
* Benchmark: the report holds every run whose loop came up, the user's
  preferences come back, the session ends.
* Layer: a file that was changed governs; a present generates with the settings
  it was built for; no context is deleted twice.

## 2. The plan

Done, in this order: RenderLoop with BufferCustody and their proofs,
OutputSurface, SwapchainBlit, FramegenContext, FramegenLibrary and their
composition FramegenSession, ForegroundSession, PrivilegedCapture, Benchmark,
LayerHooks; then the proofs of the loop's order, of the output window and of the
ring and the sources of the blits, and at last those of every invariant the runs
check: the blits' semaphores, FramegenSession, ForegroundSession,
PrivilegedCapture, Benchmark and LayerHooks.

What could come next:

1. Theorems: `NoTerminate` for several windows as long as only one of them
   rereads the file; refinements of the abstract specifications of 3.
2. `LoopOnSurface`: RenderLoop composed with OutputSurface (one mutex, one
   worker, the duplicate filter above the luma gate).
3. A session contract for ForegroundSession ("the native state follows the last
   request, or a reinit is pending") as an abstract specification it implements.
4. Pacing against a vsync period, with time as a bounded clock.

## 3. Modules and code

Every definition that stands for code names its lines under `map` in
`PROJECT.json`.  Common conventions: a region that holds `g.mu` from end to end
is one step; a GPU or window call that may fail has a failing disjunct that an
element of the constant `Env` enables; captured frames are numbers in capture
order.

### RenderLoop, BufferCustody, RenderLoopProofs

The loop of `lsfg_render_loop.cpp`.  `Control` is the thread calling
`initRenderLoop` (`InitBegin` to `InitDone`, `InitSessionFailed`,
`InitAllocFailed`) and `shutdownRenderLoop` (stop request, join, teardown);
`Push(p)` is `pushFrame` on a capture thread, in two steps because the reference
is taken before `g.mu`; `Worker` is the worker thread, one action per region of
its loop from `DrainStale` and `Pop` to `BlitReal` or `BlitPassthrough`.
`refs` counts the references of each frame, `slot` the frame in each input
image, `frameIdx` is framegen's own counter, and `pair`, `shown`, `hashFrame`
are history.  Post-processing, times and pixels are left out.  BufferCustody is
the contract with the capture side; `Custody` maps the loop's references to it.

### OutputSurface, OutputSurfaceProofs

How a frame gets to the window.  `AttachSurface`, `DetachSurface` are
`setOutputSurface`; `BlitToSwapchain` is the WSI branch of `blitOutputToWindow`
(under `g.mu`, one step, with creation and rebuild in it); `TakeCpuPath`,
`SetGeometry`, `LumaGate`, `LockWindow`, `PostWindow` are the CPU branch, which
reads `g.outWindow` at each step.  A blit through a live swapchain may also be
dropped (`PostOrDrop`): the acquire times out or fails, the index is out of
bounds, the ring, the submission or the present fails.  The code then neither
rebuilds the swapchain nor falls back to the CPU; the blits dropped between
acquire and present keep their images, and once all are kept the swapchain is
`starved` and every acquire times out.  `producer` and `geometry` are the window
system's side: a BufferQueue is bound to the CPU from the first lock on.

### SwapchainBlit, SwapchainBlitProofs

The GPU side of a frame's blits: images, acquire semaphores and their cursor,
the ring of command buffers with armed flags and fences, the queue, the
presentation engine.  `GpuExecute`, `EngineRelease` and `Show` are external.
The worker's wait at the end of `copyAhbImage` (`QueueIdle`) is what bounds the
blits in flight.  A bypassed frame does not advance the input slots, so its one
blit may still be queued when the next copy begins.

### FramegenContext

`Context::present` as the loop drives it: `WaitFences`, `SubmitFeatures`, and
`MakeFence`, `SubmitPass` per generated frame, with `Throw` at each of them.
`features` records from which frame each of the three feature images was
computed, `fences` the state of each fence of a ring entry.  `Execute` is the
GPU.

### FramegenLibrary, FramegenSession, FramegenSessionProofs

FramegenLibrary is `lsfg.cpp` over successive sessions: what `initialize`,
`createContextFromAHB`, `deleteContext` and `finalize` leave in the globals of
each of the two copies when one of them throws.  FramegenSession composes it
with FramegenContext: a context is created with fresh frames, works while the
session runs, and `DeleteContext` meets the GPU in whatever state a present that
threw left it.

### ForegroundSession, ForegroundSessionProofs

The service around the loop, one step per access to a shared field or per call
of the loop or of CaptureEngine.  `MainHandler` is the handler the main thread
is in (`onSurfaceReady`, `onSurfaceLost`, a parameter change with
`reinitLsfgContext`, `onDestroy`), `ReinitThread` the steps of the reinit
thread's passes, `ImageAvailable` and `PushFrame` the capture callback.  The
loop is reduced to initialised or not, its size, the preferences it was built
from and the window it is attached to.  Reads are sequentially consistent,
though some fields are not `@Volatile`: races found here need no weaker memory.

### PrivilegedCapture, PrivilegedCaptureProofs

Capture through Shizuku or root.  `StartWrite`, `Dispatch`, `Restart`, `Launch`
are one `startCapture`, from the engine's field to the service's worker, on the
main or the reinit thread; `Connected` is `onServiceConnected`; `Reinit` is the
reinit thread's pass (pause, teardown, init, start); `Destroy` and the steps
after it are `onDestroy`.  `Worker(w)` is `runCaptureLoop` of one worker.  A
thread whose flag was cleared and set again goes on: `running` is one flag for
all workers.  `races` is history: which of the code's unguarded overlaps have
happened, so that properties can name what they except.

### Benchmark, BenchmarkProofs

`Worker(w)` is `runWorker` with its `finally` block; `BeginSession`,
`HandleReinit`, `HandleStop`, `Destroy` are what the main looper does for it,
`Reinit` the reinit thread reduced to what it reads and builds, and the user may
cancel, stop the session, acknowledge and edit.  The nine fixed settings of the
preset are one field.  A run counts as measured when the loop was built from the
run's own settings from the baseline to the last sample.  A pass of the reinit
thread may fail, or come up without framegen; the controller is told of neither,
and the run that asked for that pass is `excused`.

### LayerHooks, LayerHooksProofs

The layer's `vkCreateSwapchainKHR`, `vkQueuePresentKHR` and
`vkDestroySwapchainKHR`, with the constructor of the context (`Check`, `Parse`,
`Stamp`, `Build`) cut where the file may change.  A driver may refuse the new
swapchain after the old one was retired (`Refused`).  The application may present
again whatever a present returned.  `library` is what each copy of
framegen was initialised with, `contexts` the identifiers it knows.

The MC modules hold the model values and the sets of events of the runs.

## 4. Runs

| Run | What it checks |
| --- | --- |
| `loop_safety` | Two capture threads, three captures of two contents, two sessions, all events: `TypeOK`, `RefsBalanced`, `NothingOutlivesShutdown`, and that the loop implements BufferCustody. 506 k states. |
| `loop_order` | One capture thread, four captures, two sessions, queue depths 2 and 3, bypass switched on and off, every failure except a failed allocation, a failed hash and a detached window: order (`CurrentSlotIsNewest`, `OverlayInOrder`) and progress (`ShutdownCompletes`, `InterpolatedReachesScreen`). 304 k states. |
| `loop_alloc` | Expected violation of `InitReturns`: `initRenderLoop` does not return when an allocation fails (section 6). |
| `surface_paths` | Two windows, one size, two dark contents and a bright one, every event: `TypeOK`, `SwapchainOnWindow`, and `OverlayComesUp` under fairness. 141 k states. |
| `blit_pipeline` | Three images, three generated frames, a ring of four, one skipped blit, every event: `TypeOK`, `RingSlotRetired`, `SourceStable`, `AcquireSemFree`, `OverlayAdvances`, no deadlock. 3.2 M states. |
| `framegen_session` | Library and context composed: two copies, two settings, three sessions, a ring of two, two passes, six frames, throws, bypass and any library call failing: `SessionTypeOK`, `OwnSettings`, `WorkHasContext`, `FlowMatchesInputs`, `CountedInputsStable`, `SubmittedPresentReturns`. 340 k states. |
| `session_safety` | Two surfaces of one size, two parameter changes, captures, loss, destruction, failing initialisations: `TypeOK`, `PassCoversRequests`, `FeedsLiveLoop`, `NothingAfterDestroy`, `ReinitCompletes`. 46 k states. |
| `session_rotate` | One surface rotating between two orientations without bound, one parameter change, sessions without framegen, destruction during a slow reinit: `RenderSizeIsLoopSize`. 920 k states. |
| `session_change` | Expected violation of `LastChangeApplied`: a change of parameters is never applied (section 6). |
| `capture_safety` | Both sources, two sizes, two passes of the reinit thread, up to three workers alive, every event but a pass that overtakes the delayed start or outlasts the wait: `TypeOK`, `OneFeeder`, `CaptureFitsLoop`, `StartServed`. 298 k states. |
| `benchmark` | Two benchmark sessions of one process, two runs each, user edits, cancels, stops and failing reinitialisations at any time: `TypeOK`, `ReportIsWhole`, `PrefsRestored`, `SessionEnds`. 453 k states. |
| `layer` | One window, five configurations over both libraries and three present modes, four rewrites, deletions or breakages of the file or resizes, swapchains the driver refuses: `TypeOK`, `GeneratesOwnSettings`, `NoTerminate`, `FileApplied`, no deadlock. 156 k states. |

### Why the bounds are enough

* Four captures reach a full queue of two and of three, a drop, a failed present
  and a later success that would show the wrong parity.  Two sessions reach
  anything carried from one to the next.  Two capture threads are as many as
  can be between reference and queue while a third party changes the session.
* The command ring has 8 slots and up to 7 + 1 blits per frame; the run keeps
  the boundary `Outputs + 1 = RingSize` with a ring of four.  Three images are
  what the loop asks of most drivers; the semaphores are N + 1 in both.  With a
  ring as long as a frame's blits and more blits than images, a missing wait
  shows at once.
* framegen's ring of 8 becomes 2, so six frames wrap it three times and the
  features twice.  A second library session meets what the first left; three
  allow a copy to be used, the other, and the first again.
* Two surfaces and two parameter changes give one request in the pass, one
  pending, and a surface lost and replaced; the rotation run leaves the number
  of rotations open.
* Two passes of the reinit thread meet the delayed start, a connection and each
  other's leftovers; three workers are one more than can be alive when the
  interrupt is noticed, which is what `OneFeeder` is about.
* Two benchmark sessions reach what the controller, one object for the process,
  carries from the first to the second.  Two precisions at one multiplier give
  a boundary of the outer loop, where a `break` of the inner one lands; the
  theorems hold for lists of any length.  One worker at a time: what two do to
  each other is section 6.
* Four changes of the file or the surface allow a rewrite during a rereading,
  and another during the one that follows.  One window: the layer's own comment
  wants one context per swapchain, and what two do to each other is section 6.

`CHECK_DEADLOCK FALSE` stands where the system may stop: captures, sessions or
frames are bounded, or the service is destroyed.  `blit_pipeline` and `layer`
check deadlock.

### Fairness, and why the code justifies it

* RenderLoop: weak fairness of the worker, of a started initialisation or
  shutdown, and of a capture thread waiting for `g.mu`.  They are threads that
  are runnable and a mutex held for bounded times.  Nobody has to start a
  session, end it or capture.
* OutputSurface: the worker, and captures that keep arriving (the display
  composes).  `OverlayComesUp` assumes in addition that the window stays, that it
  takes what is locked, and that from some time on blits through a live swapchain
  are not dropped.  The last is needed: `FailuresCostFrames` of section 6.
* SwapchainBlit: the worker, the GPU and the presentation engine.
  `OverlayAdvances` assumes that presents stop throwing and the swapchain stays
  up to date.
* FramegenSession: the worker goes on with a capture it began, and the GPU with
  what was submitted; captures, sessions and shutdowns need not happen.
* ForegroundSession: the handler the main thread is in and a started reinit
  thread.  No event has to happen; `ReinitCompletes` is checked with finitely
  many requests, because each further request entitles the thread to a pass.
* PrivilegedCapture: both threads of the application, the workers, and the exit
  of a condemned process.
* Benchmark: its worker, the reinit thread, what is posted to the main looper,
  and onDestroy once asked for.  The user need not do anything.
* LayerHooks: the application goes on presenting whatever it was told, recreates
  a swapchain when told it is out of date (a failed initialization does not say
  so), and destroys the retired one, as Vulkan's rules ask of it.  Nobody has to
  touch the file.

## 5. Proofs

Every invariant and every other safety property of the passing runs is also a
theorem, for all values of the constants; the assumptions on them are the
modules' own, which TLC evaluates in the runs.  Three theorems name one more
condition, which is the exception of section 6 they need: `OneCaptureThread`,
`ReinitsInTime` and `OneWindow`.

RenderLoopProofs proves for every set of capture threads, contents, captures,
sessions, queue depths and events:

* `TypeCorrect`: `Spec => []TypeOK`;
* `BuffersAccountedFor`: `Spec => []RefsBalanced`;
* `ShutdownIsComplete`: `Spec => []NothingOutlivesShutdown`;
* `SlotParity`: `Spec => []CurrentSlotIsNewest`;
* `LoopRefinesCustody`: `Spec => CustodySpec`;

all from `LoopCorrect`, that `LoopInv` is an inductive invariant.  Why it is
stronger than what it proves:

* `RefsBalanced` says that a frame has one reference exactly when somebody holds
  it.  A release keeps it only if nobody else holds the same frame
  (`HoldersDisjoint`), and a new capture only if its number is held by nobody
  yet (`HeldWasCaptured`).  These three with `TypeOK` are `CustodyInv`.  The
  lemmas `ReleasePopped`, `ReleaseQueue`, `PopCustody`, `EnqueueCustody` and
  `CaptureCustody` are the ways a step moves references; `TailElems` and
  `AppendElems` say what they do to the queue's elements.
* `NothingOutlivesShutdown` holds between calls; during them it needs to know
  which steps can run outside a session (`IdleOutsideSession`): `pushFrame`
  tests `initialized` under the lock that the teardown takes.
* `CurrentSlotIsNewest` needs framegen's counter and the loop's to be equal at
  every copy and one apart between a present and the end of its blits, over
  throws, bypass and new sessions (`FrameIdxInStep`).

Its second part is about order:

* `CaptureOrder`: with one capture thread, `Spec => OverlayInOrder`.  The frames
  in the loop stand in one line (`InLine`): the frame on the overlay is not newer
  than those waiting (`Waiting`), the queue is in capture order, and the frame
  between reference and queue is newer than all of it.  What reaches the overlay
  is not the frame in work but the content of the slot in turn, which holds that
  frame from the copy to the blit (`SlotHoldsFrame`).  The assumption
  `OneCaptureThread` is needed: `pushFrame` numbers nothing, and two threads may
  queue their frames in the other order.
* `QueueStaysBounded`: `Spec => []QueueBounded`, the queue never exceeds the
  greatest depth it may be set to.  (It may exceed the depth in force, which can
  be lowered under a longer queue.)

OutputSurfaceProofs proves `SwapchainStaysOnWindow`, `Spec => [](TypeOK /\
SwapchainOnWindow)`, for every set of windows, sizes and contents, and
`SurfaceTypes` from it.

SwapchainBlitProofs proves for every number of images and outputs and every
ring that holds one frame's blits:

* `BlitTypes`: `Spec => []TypeOK`;
* `RingReuse`: `Spec => []RingSlotRetired`, from `RingInv`: queued blits are in
  different slots, each armed with its fence unsignaled, and a slot that is not
  armed has no signaled fence.  The property alone is not inductive, because the
  slot a later blit takes is only known to be free through its flag and fence.
* `SourcesAreStable`: `Spec => []SourceStable`, from `SourceInv`: the queue is
  empty while framegen writes, and during a frame's blits it reads no other input
  slot than the frame's.  The theorem leaves out, as the property does, the copy
  after a bypassed frame, where a queued blit does read the input the copy
  overwrites (section 6); `BypassInv` says that it is then the only work queued.
* `OneSemaphoreMore`: `Spec => []AcquireSemFree`.  Two invariants say why one
  semaphore more than images suffices.  `ImageInv`: each blit under way has an
  image of its own, and while no blit lost one these are all that are taken, so
  at most `NumImages` are under way.  `SemInv`: their semaphores are those the
  last acquires used, in order back from the cursor, and no other is in use.
  The cursor comes back to a semaphore only after `NumImages + 1` acquires.

FramegenSessionProofs proves for every size of framegen's ring, every number of
passes, frames, sessions and settings, and every set of failures:

* `FramegenTypes`: `SessionSpec => []SessionTypeOK`;
* `SessionsKeepSettings` and `WorkIsOfLiveContext`, of `OwnSettings` and
  `WorkHasContext`, from `LibraryInv`: a complete device belongs to the session
  under way and has its settings, and there is at most its one context, between
  its creation and its deletion.  What a failed call leaves in the globals is a
  device without its pools or an instance, never a complete one.
* `CountedPresentsReadStableInputs` and `FlowIsOfItsInputs`, of
  `CountedInputsStable` and `FlowMatchesInputs`.  What is queued when a copy
  begins must be of a present that threw, which is to say of the counter's
  present value (`QueueInv`, with `CountInv`: the context's counter and the
  loop's differ by one only while the loop waits).  `FlowInv` says which feature
  image belongs to which frame from the extraction on.  Three images and two
  slots taking turns need the lemmas `FeatureShift` and `SlotShift`.

ForegroundSessionProofs proves for every set of overlay sizes, any number of
surfaces and parameter changes, and every set of events:

* `SessionTypes`, `RequestsAreCovered` (`PassCoversRequests`) and
  `RenderSizeFollowsLoop` (`RenderSizeIsLoopSize`), from `ThreadInv`, `ActiveInv`
  and `SizeInv`.  The last property compares the service's field with the loop's
  size outside a pass; during one it needs to know, at each step, which of the
  two is ahead, and what the result of `initContext` said.
* `CapturesFeedLoop` and `DestroyLeavesNothing`, of `FeedsLiveLoop` and
  `NothingAfterDestroy`, under `ReinitsInTime`: `onDestroy` waits 1.5 s for a
  reinit, and a slower one is the departure of section 6.  The assumption is
  that of the run, `"slowReinit" \notin Env`.

PrivilegedCaptureProofs proves for both sources, every set of sizes, every number
of passes and workers and every set of events, the overlaps included:

* `CaptureTypes`: `Spec => []TypeOK`;
* `OneWorkerFeeds`: `Spec => []OneFeeder`.  While no overlap has been recorded,
  the two threads take turns with the capture, and whoever launches a worker has
  stopped the one before (`TurnInv`).
* `CaptureHasLoopSize`: `Spec => []CaptureFitsLoop`, from `FitInv`: every start,
  wherever it is between the request and the worker, carries the loop's size, and
  a pass has taken the pending one back before it replaces the loop.

BenchmarkProofs proves for all lists of multipliers and precisions, all settings
of the user and every number of sessions and workers:

* `BenchmarkTypes`: `Spec => []TypeOK`.  That a `break` out of the inner loop
  lands inside the lists is arithmetic of `\div` and `%` (`RunPlaces`).
* `BenchmarkRestoresPrefs`: `Spec => []PrefsRestored`.  A snapshot is the user's
  choice only if it was not taken while another worker held the preset: there is
  one worker at a time (`AloneInv`), and no worker holds a snapshot while the
  preferences are the user's (`PrefsInv`).
* `CompletedReportIsWhole`: `Spec => []ReportIsWhole`.  `Whole(w)` follows a
  worker through a run: its preferences are written, the loop with them is on its
  way (`LoopComing`: posted, being read, being built, or requested again), is
  there and stays, or that pass failed (`LoopFailed`), and each run before this
  one was measured or excused (`Accounted`).  Runs whose own reinitialisation
  failed are an exception of the theorem, as of the property.

LayerHooksProofs proves for any windows `HookTypes`, that there always is an
identifier for a new context, and `LibrariesFollowConf`: an initialised library
holds the active configuration.  For an application with one window (`OneWindow`;
with more the layer departs from them, section 6) it proves
`PresentsFindTheirContext` and `DeletersFindTheirContext`, of
`GeneratesOwnSettings` and `NoTerminate`: the configuration changes only while the
window has no context (`ContextInv`), since its old one is deleted first
(`RetiredInv`).

The events are arbitrary where no assumption is named, failed allocations and
the races included: safety does not depend on the events of the runs.  What a
property excepts by a history variable (`races`, `spoiled`, `timedOut`, `skips`)
is excepted in its theorem as well, and only there.

Model-checked only: all liveness (`ShutdownCompletes`, `InterpolatedReachesScreen`,
`OverlayComesUp`, `OverlayAdvances`, `SubmittedPresentReturns`, `ReinitCompletes`,
`StartServed`, `SessionEnds`, `FileApplied`), because the prover has no reasoning
about fairness or ENABLED beyond propositional steps; and the absence of
deadlock.  No module declares a RECURSIVE operator, so each can be proved about.

## 6. Where the code departs from what it says

Two of these are runs of the project; the others are stated in their module with
the words "does not hold" and are found by TLC in seconds with the constants
given (the events are those of the component's MC module), or are the exception
that a checked property names.

| Property | Module and events | What happens |
| --- | --- | --- |
| `InitReturns` (run `loop_alloc`) | RenderLoop, `OnlyAllocFail` | `initRenderLoop` calls `shutdownRenderLoop` when `createAhbImage` fails, while it holds the mutex that one locks first (2228, 2355, 2530). |
| `LastChangeApplied` (run `session_change`) | ForegroundSession, no events | A request set between the thread's last look at `reinitRequested` and its clearing of `reinitInFlight` is served by nobody (646-650, 781-783). |
| `PresentedReachesScreen` | RenderLoop, `OnlyDeviceLost` | The frame whose present loses the device is dropped, though the comment at 1948-1952 says it falls through to passthrough. `InterpolatedReachesScreen` is what holds. |
| `DuplicateFilterSound` | RenderLoop, `OnlyImportFail` | The hash is recorded before the frame is accepted; after a failure further captures of that content are discarded as its duplicates. |
| `FirstPairIsSeed` | RenderLoop, `OnlyBypass` | Bypass at the start of a session leaves an old seed in the other slot for the first interpolation. |
| `LockedHasGeometry` | OutputSurface, `OnlyReplace` | The cached geometry survives the change of window. |
| `PostsLockedWindow` | OutputSurface, `OnlyReplace` | The window is replaced between the worker's lock and its post. |
| `GateOpens` | OutputSurface, `OnlyCpuPost` | A static dark scene never reaches the counter that forces the luma gate open. |
| `FailuresCostFrames` | OutputSurface, `OnlyBlitFail` | Blits given up between acquire and present keep their images; once none is left every acquire times out, and nothing rebuilds the swapchain or falls back to the CPU (816-826, 829, 950-953), though the comment at 1542-1543 puts a missed frame at 16 ms. |
| `CopyTargetFree` | SwapchainBlit, `OnlyBypass` | A bypassed frame does not advance the slots: the next copy writes the input that frame's blit may still read.  `SourceStable` excepts it. |
| `OverlayAdvances` | SwapchainBlit, `Skips`, `MaxSkips = 2` | A blit given up after the acquire keeps its image; then none is left. |
| `AcquireSemFree` | SwapchainBlit, `OnlyTimeout` | The cursor advances on timeouts and comes back to a semaphore in use. |
| `InputsStable` | MCFramegenSession, `OnlyThrow` | No wait follows a present that threw; the next copy meets its reads. `CountedInputsStable` is what holds. |
| `PresentReturns` | MCFramegenSession, `OnlyThrow` | The present after a throw waits for a fence nobody submitted, or follows a null handle. `SubmittedPresentReturns` is what holds. |
| `FlowInitialised` | MCFramegenSession, no events | The first present reads a feature image nobody has written. |
| `Library!HealthySessionGenerates` | MCFramegenSession, `LibraryEnv <- OnlyDevice` | After one failed device creation the instance stays, and no later session gets framegen. |
| `LostSurfaceDetached` | ForegroundSession, `{"lost"}` | The reinit thread attaches a surface that was lost after it read it. |
| `MirrorOnlyWithoutFramegen` | ForegroundSession, `{"lost"}` | A surface that arrives during a reinit leaves the capture mirrored with framegen active. |
| `NoPushDuringTeardown` | ForegroundSession, `{"frames"}` | Pausing does not wait for a callback that has passed its check. RenderLoop shows that the loop survives it. |
| `NothingAfterDestroy` | ForegroundSession, `{"destroy", "slowReinit"}` | A reinit slower than the 1.5 s wait brings the context up again after `onDestroy`. |
| `FailedInitMirrors` | ForegroundSession, `{"initFails"}` | When the first `initContext` fails the capture stays on a reader nobody reads. |
| `OneFeeder`, `CaptureFitsLoop` with an empty exception | PrivilegedCapture, `AllEvents` | See below. |
| `PrefsRestored`, `SessionEnds` | Benchmark, two workers or an empty exception | See below. |
| `ReportIsMeasured` | Benchmark, the run's constants | A reinit fails (`LsfgForegroundService.kt:776-780`) or comes up without framegen (758-775); the controller is not told, samples nothing of that run's settings and completes.  `ReportIsWhole` is what holds. |
| `NoTerminate`, `GeneratesOwnSettings` | LayerHooks, two windows | The second window's constructor rereads the file and finalizes both libraries under the first window's context (`layer/context.cpp:56-57`). |
| `ResizeIsOutdated` | LayerHooks, one window | A present that generates turns an out-of-date surface into `VK_ERROR_INITIALIZATION_FAILED` (`layer/context.cpp:262-265`, `layer/hooks.cpp:291-295`). |

What the exceptions of the other properties stand for:

* OutputSurface: attaching the same Surface again, as each reinit does, clears
  the taint of the CPU path (2425), so a swapchain is tried on a window the CPU
  has produced into.  The driver refuses it and the overlay recovers
  (`OverlayComesUp`).
* PrivilegedCapture, the names in `races`: `earlyDestroy`, the start posted
  500 ms after the session's begins an orphan capture after `onDestroy`;
  `earlyReinit`, it carries the old size; `slowConnect`, a connection that
  comes during a pass makes two starts meet and leaves a worker nobody knows;
  `slowReinit`, as in ForegroundSession; `slowCapture`, a capture that swallows
  the interrupt leaves two workers.  Besides, an old worker's failure clears the
  flag of the new one, and after the service's death nothing starts the capture
  again before the next pass.
* Benchmark, the races in `spoiled`: an edit under a benchmark is overwritten and
  lost, though the comment at `BenchmarkController.kt:97-100` says that
  `isRunning` gates the drawer, which nothing does; a reinit slower than the
  2 s warm-up, or one whose request is lost, makes a run sample another loop; a
  session stopped under the worker leaves an orphan that goes on without
  reinitialisations, completes with runs it did not measure, and makes the next
  benchmark session's start be ignored, so that that session has no worker to
  end it; two workers, when a start comes after the end was published and before
  the preferences were written back, take the preset for the user's own.
* LayerHooks: an edit between the parse (`layer/config/config.cpp:63`) and the
  reading of the time (78) is taken for read (`raced`); after a context failed
  to be built presents go through plainly and no longer look at the file; a
  changed present mode takes two recreations, because the hook chooses the mode
  before the constructor rereads the file.

## 7. What is not modelled, and why

Time (pacing, vsync, the statistics) and pixels (filters, shaders, hashing) are
left out of every module: the order of steps and the identity of frames are
what the properties are about.  Data races on plain fields are modelled as
interleavings of single accesses.  Unsynchronised use of one VkQueue by two
threads has no defined outcome and is not modelled.  The
components without a module, each with its reason, are in `PROJECT.json` under
`components`: they are I/O, stateless queries, image filters, views, code of one
thread with little state of its own, vendored code, or programs other than the
application.  Most of the repository's lines are vendored (a translator of
shaders, parsers, a Vulkan loader).  A process killed between two steps is
modelled where something survives it: the service's process of
PrivilegedCapture.  A kill during a benchmark leaves the preset in the stored
preferences; that follows from the code without a model.
