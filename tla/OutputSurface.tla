--------------------------- MODULE OutputSurface ---------------------------
(***************************************************************************)
(* How a frame reaches the overlay window (lsfg_render_loop.cpp).          *)
(*                                                                         *)
(* The worker blits through a Vulkan swapchain when it can (WSI), and      *)
(* otherwise through ANativeWindow_lock on the CPU.  A window accepts one  *)
(* kind of producer: once the CPU locked it, Vulkan is refused, and while  *)
(* a swapchain lives on it the CPU is refused.  The code tracks that in    *)
(* windowCpuProducerLocked and swap.disabledForSession.                    *)
(*                                                                         *)
(* Meanwhile the main thread attaches and detaches windows, and the loop   *)
(* is shut down and initialised again around the same window.  The WSI     *)
(* branch of a blit holds g.mu and is one step; the CPU branch does not,   *)
(* and reads g.outWindow anew in each of its steps.                        *)
(***************************************************************************)
EXTENDS Naturals

CONSTANTS
  Windows,    \* the Surfaces the overlay creates, each attached for a while
  NoWindow,
  Sizes,      \* sizes the render loop may be initialised with
  Contents,   \* contents of a capture
  Dark,       \* those whose average luma stays below kLumaGateOpenThreshold
  GateLimit,  \* kLumaGateForceOpenAfter
  Env         \* environment events a run enables, a subset of EnvEvents

EnvEvents == {"createFail", "outOfDate", "blitFail", "npu", "cpuPost", "npuFail",
              "detach", "replace", "reattach", "lockFail"}

NoSize == 0
NoContent == "nothing"

ASSUME WindowsAssumption  == NoWindow \notin Windows
ASSUME SizesAssumption    == Sizes \subseteq Nat \ {NoSize} /\ Sizes # {}
ASSUME ContentsAssumption == Dark \subseteq Contents /\ NoContent \notin Contents
ASSUME GateAssumption     == GateLimit \in Nat
ASSUME EnvAssumption      == Env \subseteq EnvEvents

VARIABLES
  window,       \* g.outWindow
  retired,      \* windows that were detached or replaced: they never return
  producer,     \* external: what each window's BufferQueue is bound to
  geometry,     \* external: the buffer size each window was given by the CPU path
  tainted,      \* windowCpuProducerLocked
  swap,         \* the swapchain: none, live, outOfDate, or starved: the blits
                \* given up after their acquire have kept all its images
  disabled,     \* swap.disabledForSession
  initialized, npu, cpuPost,
  size,         \* the size of the loop's images
  winGeom,      \* winGeomW/H: the size last passed to setBuffersGeometry
  gateOpen, darkCount,
  tick,         \* alternates at every capture
  content,      \* the content whose hash pushFrame recorded last
  blit,         \* where the worker is in blitOutputToWindow
  locked,       \* the window ANativeWindow_lock was called on, until the post
  shown         \* history: the windows a frame was posted to

surfaceVars == <<window, retired>>
queueVars   == <<producer, geometry>>
swapVars    == <<tainted, swap, disabled>>
configVars  == <<initialized, npu, cpuPost, size>>
gateVars    == <<gateOpen, darkCount>>
captureVars == <<tick, content>>
workVars    == <<blit, locked>>
vars == <<surfaceVars, queueVars, swapVars, configVars, winGeom, gateVars,
          captureVars, workVars, shown>>

Init ==
  /\ window = NoWindow /\ retired = {}
  /\ producer = [w \in Windows |-> "none"]
  /\ geometry = [w \in Windows |-> NoSize]
  /\ tainted = FALSE /\ swap = "none" /\ disabled = FALSE
  /\ initialized = FALSE /\ npu = FALSE /\ cpuPost = FALSE
  /\ size \in Sizes /\ winGeom = NoSize
  /\ gateOpen = FALSE /\ darkCount = 0
  /\ tick = FALSE /\ content = NoContent
  /\ blit = "idle" /\ locked = NoWindow
  /\ shown = {}

-----------------------------------------------------------------------------
(* The swapchain.                                                          *)

\* Post-processing on the CPU or the NPU needs the pixels of the window.
CpuPostActive == npu \/ cpuPost

\* The producers once destroySwapchain has destroyed the swapchain's surface.
\* Mutant: the surface is left behind.
KeepSurface == producer
DestroySwapchain == [w \in Windows |-> IF producer[w] = "vulkan" THEN "none" ELSE producer[w]]

\* createSwapchain on window w with the taint flag as given, after the old
\* swapchain is gone (queues): refused at the gate, refused by the driver
\* because the CPU owns the window, failed for another reason, or built; what
\* becomes of the swapchain in the same step is a member of built.
CreateSwapchain(w, flag, queues, built) ==
  \/ /\ w = NoWindow \/ flag
     /\ swap' = "none" /\ tainted' = flag /\ producer' = queues
  \/ /\ w # NoWindow /\ ~flag /\ queues[w] = "cpu"
     /\ swap' = "none" /\ tainted' = TRUE /\ producer' = queues
  \/ /\ w # NoWindow /\ ~flag /\ queues[w] # "cpu"
     /\ "createFail" \in Env
     /\ swap' = "none" /\ tainted' = flag /\ producer' = queues
  \/ /\ w # NoWindow /\ ~flag /\ queues[w] # "cpu"
     /\ swap' \in built /\ tainted' = flag
     /\ producer' = [queues EXCEPT ![w] = "vulkan"]

-----------------------------------------------------------------------------
(* Main thread: setOutputSurface.                                          *)

\* A new Surface, or the one already attached: reinitLsfgContext passes the
\* cached Surface again.  The taint is reset either way.
AttachSurface(w) ==
  /\ w \notin retired
  /\ \/ window = NoWindow
     \/ w # window /\ "replace" \in Env
     \/ w = window /\ "reattach" \in Env
  /\ window' = w
  /\ retired' = retired \union ({window} \ {w, NoWindow})
  /\ disabled' = FALSE
  /\ IF initialized /\ ~CpuPostActive
     THEN CreateSwapchain(w, FALSE, DestroySwapchain, {"live"})
     ELSE /\ swap' = "none" /\ tainted' = FALSE
          /\ producer' = DestroySwapchain
  /\ UNCHANGED <<geometry, configVars, winGeom, gateVars, captureVars, workVars,
                 shown>>

\* setOutputSurface(nullptr): the taint is left as it is.
DetachSurface ==
  /\ "detach" \in Env /\ window # NoWindow
  /\ window' = NoWindow /\ retired' = retired \union {window}
  /\ swap' = "none" /\ disabled' = FALSE /\ producer' = DestroySwapchain
  /\ UNCHANGED <<geometry, tainted, configVars, winGeom, gateVars, captureVars,
                 workVars, shown>>

-----------------------------------------------------------------------------
(* Control thread: the parts of init and shutdown that concern the window. *)

InitLoop(s, n, c) ==
  /\ ~initialized
  /\ n => "npu" \in Env
  /\ c => "cpuPost" \in Env
  /\ initialized' = TRUE /\ size' = s /\ npu' = n /\ cpuPost' = c
  /\ gateOpen' = FALSE /\ darkCount' = 0
  /\ content' = NoContent
  /\ UNCHANGED <<surfaceVars, queueVars, swapVars, winGeom, tick, workVars,
                 shown>>

\* The worker has been joined.  The window stays attached, with its taint.
ShutdownLoop ==
  /\ initialized /\ blit = "idle"
  /\ initialized' = FALSE
  /\ swap' = "none" /\ disabled' = FALSE /\ producer' = DestroySwapchain
  /\ UNCHANGED <<surfaceVars, geometry, tainted, npu, cpuPost, size, winGeom,
                 gateVars, captureVars, workVars, shown>>

-----------------------------------------------------------------------------
(* Capture and worker threads.                                             *)

\* A capture is delivered.  One that repeats the last content ends in
\* pushFrame; another reaches blitOutputToWindow, which does nothing without a
\* window.
Capture(c) ==
  /\ initialized /\ blit = "idle"
  /\ tick' = ~tick
  /\ content' = c
  /\ blit' = IF c = content \/ window = NoWindow THEN "idle" ELSE "path"
  /\ UNCHANGED <<surfaceVars, queueVars, swapVars, configVars, winGeom, gateVars,
                 locked, shown>>

\* The WSI branch is not taken.
TakeCpuPath ==
  /\ blit = "path" /\ (CpuPostActive \/ disabled)
  /\ blit' = "geometry"
  /\ UNCHANGED <<surfaceVars, queueVars, swapVars, configVars, winGeom, gateVars,
                 captureVars, locked, shown>>

\* The swapchain after a blit that found it live, or that built it, or that
\* found it starved.  vkAcquireNextImageKHR and vkQueuePresentKHR may find it out
\* of date; a blit given up between the two (no image of that index, no command
\* buffer, a refused submission) keeps its image, and the last one starves it:
\* from then on the acquire times out.
BlitBuilt == IF "outOfDate" \in Env THEN {"live", "outOfDate"} ELSE {"live"}
BlitLive == BlitBuilt \union IF "blitFail" \in Env THEN {"starved"} ELSE {}
BlitStarved == BlitLive \ {"live"}

\* The frame is posted, also by a present that finds the surface outdated, or it
\* is dropped: by an acquire that finds it outdated, and by any other failure of
\* the acquire, the ring, the submission or the present.  Those leave the
\* swapchain as it is: no rebuild, no CPU blit, no disabling.
PostOrDrop ==
  \/ /\ swap # "starved" /\ swap' \in {"live", "outOfDate"}
     /\ shown' = shown \union {window}
  \/ /\ swap' = "live" => "blitFail" \in Env
     /\ UNCHANGED shown

\* The WSI branch, under g.mu.  Without a swapchain one is built first; a failure
\* disables WSI and this frame goes on to the CPU path.  A swapchain out of date
\* is rebuilt first; a failure drops the frame, and the next one starts without.
BlitToSwapchain ==
  /\ blit = "path" /\ ~CpuPostActive /\ ~disabled
  /\ \/ /\ \/ swap = "live" /\ swap' \in BlitLive
           \/ swap = "starved" /\ swap' \in BlitStarved
        /\ UNCHANGED <<tainted, producer>>
     \/ /\ swap \in {"none", "outOfDate"}
        /\ CreateSwapchain(window, tainted, DestroySwapchain, BlitBuilt)
  /\ disabled' = (swap = "none" /\ swap' = "none")
  /\ blit' = IF disabled' THEN "geometry" ELSE "idle"
  /\ PostOrDrop
  /\ UNCHANGED <<surfaceVars, geometry, configVars, winGeom, gateVars,
                 captureVars, locked>>

\* ANativeWindow_setBuffersGeometry, unless this size was passed before.
\* Mutant: it is passed for the first frame only.
FirstFrame == winGeom = NoSize
GeometryChanged == winGeom # size

SetGeometry ==
  /\ blit = "geometry"
  /\ \/ /\ GeometryChanged
        /\ winGeom' = size
        /\ geometry' = [w \in Windows |-> IF w = window THEN size ELSE geometry[w]]
     \/ ~GeometryChanged /\ UNCHANGED <<geometry, winGeom>>
  /\ blit' = "gate"
  /\ UNCHANGED <<surfaceVars, producer, swapVars, configVars, gateVars,
                 captureVars, locked, shown>>

\* The luma gate: a bright frame or GateLimit dark ones open it for the
\* session, a dark frame before that is not shown.
\* Mutant: the force-open never comes.
NeverForced == FALSE
ForceOpen == darkCount >= GateLimit

LumaGate ==
  /\ blit = "gate"
  /\ \/ /\ gateOpen \/ content \notin Dark \/ ForceOpen
        /\ gateOpen' = TRUE /\ blit' = "lock"
        /\ UNCHANGED darkCount
     \/ /\ ~gateOpen /\ content \in Dark /\ ~ForceOpen
        /\ darkCount' = darkCount + 1 /\ blit' = "idle"
        /\ UNCHANGED gateOpen
  /\ UNCHANGED <<surfaceVars, queueVars, swapVars, configVars, winGeom,
                 captureVars, locked, shown>>

\* ANativeWindow_lock binds the window to the CPU; the taint is pinned.
PinTaint == tainted' = TRUE

Lockable(w) == w \in Windows /\ producer[w] # "vulkan"

LockWindow ==
  /\ blit = "lock"
  /\ \/ /\ Lockable(window)
        /\ producer' = [producer EXCEPT ![window] = "cpu"]
        /\ PinTaint
        /\ locked' = window /\ blit' = "post"
     \/ /\ ~Lockable(window) \/ "lockFail" \in Env
        /\ blit' = "idle"
        /\ UNCHANGED <<producer, tainted, locked>>
  /\ UNCHANGED <<surfaceVars, geometry, swap, disabled, configVars, winGeom,
                 gateVars, captureVars, shown>>

\* Filters, unlockAndPost, recordOverlayPost.  A failing NPU is switched off.
PostWindow ==
  /\ blit = "post"
  /\ \/ UNCHANGED npu
     \/ npu /\ "npuFail" \in Env /\ npu' = FALSE
  /\ blit' = "idle" /\ locked' = NoWindow
  /\ shown' = shown \union ({window} \ {NoWindow})
  /\ UNCHANGED <<surfaceVars, queueVars, swapVars, initialized, cpuPost, size,
                 winGeom, gateVars, captureVars>>

MainThread == DetachSurface \/ \E w \in Windows : AttachSurface(w)
Control == ShutdownLoop \/ \E s \in Sizes, n, c \in BOOLEAN : InitLoop(s, n, c)
Worker == TakeCpuPath \/ BlitToSwapchain \/ SetGeometry
          \/ LumaGate \/ LockWindow \/ PostWindow

Next == MainThread \/ Control \/ Worker \/ \E c \in Contents : Capture(c)

Spec == Init /\ [][Next]_vars

\* The worker runs; captures keep coming, at the display rate, whatever they
\* show.
FairSpec == Spec /\ WF_vars(Worker) /\ WF_vars(\E c \in Contents : Capture(c))

-----------------------------------------------------------------------------
(* Correctness.                                                            *)

TypeOK ==
  /\ window \in Windows \union {NoWindow} /\ retired \subseteq Windows
  /\ producer \in [Windows -> {"none", "cpu", "vulkan"}]
  /\ geometry \in [Windows -> Sizes \union {NoSize}]
  /\ tainted \in BOOLEAN /\ swap \in {"none", "live", "outOfDate", "starved"}
  /\ disabled \in BOOLEAN
  /\ initialized \in BOOLEAN /\ npu \in BOOLEAN /\ cpuPost \in BOOLEAN
  /\ size \in Sizes /\ winGeom \in Sizes \union {NoSize}
  /\ gateOpen \in BOOLEAN /\ darkCount \in 0..GateLimit
  /\ tick \in BOOLEAN /\ content \in Contents \union {NoContent}
  /\ blit \in {"idle", "path", "geometry", "gate", "lock", "post"}
  /\ locked \in Windows \union {NoWindow}
  /\ shown \subseteq Windows

\* A live swapchain is on the attached window, and no other window is bound to
\* Vulkan: whichever of attach, detach, shutdown or rebuild came last, the
\* previous surface was destroyed.
SwapchainOnWindow ==
  /\ swap # "none" => window # NoWindow /\ producer[window] = "vulkan"
  /\ \A w \in Windows : producer[w] = "vulkan" => w = window /\ swap # "none"

\* A frame is posted to the window that was locked for it, and the window is
\* still attached.  Does not hold: README, section 6.
PostsLockedWindow == blit = "post" => locked = window

\* A window locked by the CPU path has the buffer size of the frames.
LockedHasGeometry ==
  (blit = "post" /\ locked = window) => geometry[window] = size

\* While captures arrive and the CPU path is in use, the gate opens: very dark
\* content does not keep the overlay transparent for ever.  Does not hold:
\* README, section 6.
GateOpens ==
  <>[](initialized /\ window # NoWindow /\ CpuPostActive) => <>gateOpen

\* ANativeWindow_lock fails for no reason of the loop's making.
LockRefused == blit = "lock" /\ blit' = "idle" /\ Lockable(window)

\* A blit drops its frame and leaves the swapchain as it is.
FrameDropped == blit = "path" /\ swap' \in {"live", "starved"} /\ window \notin shown'

\* Whatever failed before (swapchains, blits, the NPU, locks, sessions on the
\* other path, windows that came and went), an overlay that stays attached shows
\* a frame once frames keep reaching it, the window takes them and blits through
\* a live swapchain are not dropped.
OverlayComesUp ==
  \A w \in Windows :
    (/\ <>[](initialized /\ window = w) /\ []<>(blit = "path")
     /\ <>[][~MainThread /\ ~LockRefused /\ ~FrameDropped /\ swap' # "outOfDate"]_vars)
      => <>(w \in shown)

\* The same when only the failures themselves have stopped: a blit that fails
\* costs its frame ("16 ms at worst", lsfg_render_loop.cpp:1542-1543).  Does not
\* hold: nothing rebuilds a starved swapchain.  README, section 6.
FailuresCostFrames ==
  \A w \in Windows :
    (/\ <>[](initialized /\ window = w) /\ []<>(blit = "path")
     /\ <>[][/\ ~MainThread /\ ~LockRefused /\ swap' # "outOfDate"
             /\ swap # "starved" => ~FrameDropped]_vars)
      => <>(w \in shown)
=============================================================================
