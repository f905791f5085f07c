-------------------------- MODULE ForegroundSession --------------------------
(***************************************************************************)
(* The session LsfgForegroundService keeps around the native render loop.  *)
(*                                                                         *)
(* Two threads: the main thread runs the overlay's surface callbacks, the  *)
(* drawer's parameter changes and onDestroy, one handler at a time; the    *)
(* reinit thread destroys and re-creates the native context.  They share   *)
(* fields, only some of them @Volatile, and no lock: a step is one access  *)
(* to a shared field, which the other thread sees at once, or one call of  *)
(* the native loop or of CaptureEngine (whose methods are synchronized).   *)
(* The capture callback is a third thread.                                 *)
(*                                                                         *)
(* The native loop is what RenderLoop models; here it is initialised or    *)
(* not, with the size and the preferences it was initialised with.  The    *)
(* capture source is MediaProjection (CaptureEngine).                      *)
(***************************************************************************)
EXTENDS Naturals

CONSTANTS
  Sizes,        \* sizes <<width, height>> the overlay may have
  MaxSurfaces,  \* bound: overlay surfaces in a behaviour
  MaxEdits,     \* bound: parameter changes in a behaviour
  Env           \* environment events a run enables, a subset of EnvEvents

EnvEvents == {"initFails", "noFramegen", "slowReinit", "destroy", "lost",
              "frames"}

ASSUME SizesAssumption  == Sizes \subseteq (Nat \ {0}) \X (Nat \ {0})
ASSUME BoundsAssumption == MaxSurfaces \in Nat /\ MaxEdits \in Nat
ASSUME EnvAssumption    == Env \subseteq EnvEvents

NoSize == <<0, 0>>
NoSurface == 0

VARIABLES
  main,         \* where the main thread is in its handler
  life,         \* "up", "stopping" (shuttingDown is set) or "destroyed"
  surfaces,     \* surfaces the overlay has created so far
  lastSurface, lastSize,    \* lastSurface, lastSurfaceW/H
  started,      \* initialCaptureStarted
  active,       \* lsfgContextActive
  rendered,     \* activeRenderW/H, NoSize in mirror mode
  inFlight,     \* reinitInFlight
  requested,    \* reinitRequested
  pendingW, pendingH,       \* pendingReinitW, pendingReinitH
  edits,        \* version of the persisted preferences
  reinit,       \* where the reinit thread is
  origin,       \* the size its closure captured
  target,       \* targetW, targetH of the pass
  passPrefs,    \* the preferences' version the pass loaded
  rc,           \* what the pass's initContext returned
  surface,      \* the surface the pass read to re-attach
  mu,           \* "reinit" while initContext holds the loop's mutex
  loop,         \* the native loop is initialised
  loopSize, loopPrefs,
  window,       \* the surface the native loop is attached to
  vd,           \* what the VirtualDisplay draws into
  input,        \* lsfgNativeInputEnabled
  callback      \* where the capture callback is

mainVars    == <<main, life>>
surfaceVars == <<surfaces, lastSurface, lastSize>>
stateVars   == <<started, active, rendered>>
flagVars    == <<inFlight, requested, pendingW, pendingH>>
passVars    == <<origin, target, passPrefs, rc, surface>>
nativeVars  == <<mu, loop, loopSize, loopPrefs, window>>
captureVars == <<vd, input>>
vars == <<mainVars, surfaceVars, stateVars, flagVars, edits, reinit, passVars,
          nativeVars, captureVars, callback>>

Init ==
  /\ main = "idle" /\ life = "up"
  /\ surfaces = 0 /\ lastSurface = NoSurface /\ lastSize = NoSize
  /\ started = FALSE /\ active = FALSE /\ rendered = NoSize
  /\ inFlight = FALSE /\ requested = FALSE /\ pendingW = 0 /\ pendingH = 0
  /\ edits = 0
  /\ reinit = "none"
  /\ origin = NoSize /\ target = NoSize /\ passPrefs = 0 /\ rc = "ok"
  /\ surface = NoSurface
  /\ mu = "free" /\ loop = FALSE /\ loopSize = NoSize /\ loopPrefs = 0
  /\ window = NoSurface
  /\ vd = "none" /\ input = TRUE
  /\ callback = "idle"

-----------------------------------------------------------------------------
(* CaptureEngine.                                                          *)

\* setLsfgMode: the display draws into a fresh ImageReader, input disabled.  A
\* released display is created again.
SetLsfgMode == vd' = "reader" /\ input' = FALSE

\* setSurface: the display draws into the overlay itself.
SetSurface == vd' = "mirror" /\ input' = FALSE

Detached == IF vd = "none" THEN "none" ELSE "detached"

\* pauseLsfgInput.  Mutant: the reader is kept.
KeepInput == UNCHANGED captureVars
PauseInput == vd' = Detached /\ input' = FALSE

\* stop.
StopCapture == vd' = "none" /\ input' = FALSE

-----------------------------------------------------------------------------
(* Native loop: initContext and its result.                                *)

Outcomes == {"ok"} \union (IF "noFramegen" \in Env THEN {"disabled"} ELSE {})
                   \union (IF "initFails" \in Env THEN {"failed"} ELSE {})

\* A loop that is initialised already refuses (kRenderLoopAlreadyInit).
InitContext(size, prefs, result) ==
  /\ result \in IF loop THEN {"failed"} ELSE Outcomes
  /\ IF result = "failed" THEN UNCHANGED <<loop, loopSize, loopPrefs>>
     ELSE loop' = TRUE /\ loopSize' = size /\ loopPrefs' = prefs

-----------------------------------------------------------------------------
(* Main thread: onSurfaceReady.                                            *)

\* A new surface, or another size of the current one.  Identical events are
\* coalesced.
SurfaceReady(z) ==
  /\ main = "idle" /\ life = "up"
  /\ \/ /\ lastSurface = NoSurface /\ surfaces < MaxSurfaces
        /\ surfaces' = surfaces + 1 /\ lastSurface' = surfaces + 1
     \/ /\ lastSurface # NoSurface /\ z # lastSize
        /\ UNCHANGED <<surfaces, lastSurface>>
  /\ lastSize' = z
  /\ main' = "attach"
  /\ UNCHANGED <<life, stateVars, flagVars, edits, reinit, passVars,
                 nativeVars, captureVars, callback>>

\* setOutputSurface takes the loop's mutex.
AttachSurface ==
  /\ main = "attach" /\ mu = "free"
  /\ window' = lastSurface
  /\ main' = "branch"
  /\ UNCHANGED <<life, surfaceVars, stateVars, flagVars, edits, reinit,
                 passVars, mu, loop, loopSize, loopPrefs, captureVars,
                 callback>>

\* The first surface: capture into the ImageReader, then initContext.  Without
\* framegen the capture is retargeted to mirror; after a failure it is not.
StartSession ==
  /\ main = "branch" /\ ~started
  /\ started' = TRUE
  /\ \E result \in Outcomes :
       /\ InitContext(lastSize, edits, result)
       /\ active' = (result # "failed")
       /\ rendered' = IF result = "ok" THEN lastSize ELSE NoSize
       /\ vd' = IF result = "disabled" THEN "mirror" ELSE "reader"
       /\ input' = (result = "ok")
  /\ main' = "idle"
  /\ UNCHANGED <<life, surfaceVars, flagVars, edits, reinit, passVars, mu,
                 window, callback>>

Mirroring == ~active \/ rendered = NoSize

\* A later surface: mirror onto it, ask for a reinit at its size, or nothing.
BranchOnState ==
  /\ main = "branch" /\ started
  /\ main' = IF Mirroring THEN "mirror"
             ELSE IF lastSize # rendered THEN "request" ELSE "idle"
  /\ UNCHANGED <<life, surfaceVars, stateVars, flagVars, edits, reinit,
                 passVars, nativeVars, captureVars, callback>>

MirrorSurface ==
  /\ main = "mirror"
  /\ SetSurface
  /\ main' = "idle"
  /\ UNCHANGED <<life, surfaceVars, stateVars, flagVars, edits, reinit,
                 passVars, nativeVars, callback>>

-----------------------------------------------------------------------------
(* Main thread: parameter changes and reinitLsfgContext.                   *)

\* The drawer persists a parameter, then asks for a reinit at the size last
\* seen; there is none to ask for before the first surface.
EditParams ==
  /\ main = "idle" /\ life = "up" /\ edits < MaxEdits
  /\ edits' = edits + 1
  /\ main' = IF lastSize = NoSize THEN "idle" ELSE "request"
  /\ UNCHANGED <<life, surfaceVars, stateVars, flagVars, reinit, passVars,
                 nativeVars, captureVars, callback>>

\* No reinit in flight: start the thread.
RequestStart ==
  /\ main = "request" /\ ~inFlight
  /\ inFlight' = TRUE /\ requested' = FALSE
  /\ pendingW' = lastSize[1] /\ pendingH' = lastSize[2] /\ origin' = lastSize
  /\ reinit' = "clearFlag"
  /\ main' = "idle"
  /\ UNCHANGED <<life, surfaceVars, stateVars, edits, target, passPrefs, rc,
                 surface, nativeVars, captureVars, callback>>

\* One is in flight: leave the size, then the request, for it to find.
RequestQueueW ==
  /\ main = "request" /\ inFlight
  /\ pendingW' = lastSize[1]
  /\ main' = "queueH"
  /\ UNCHANGED <<life, surfaceVars, stateVars, inFlight, requested, pendingH,
                 edits, reinit, passVars, nativeVars, captureVars, callback>>

RequestQueueH ==
  /\ main = "queueH"
  /\ pendingH' = lastSize[2]
  /\ main' = "queueFlag"
  /\ UNCHANGED <<life, surfaceVars, stateVars, inFlight, requested, pendingW,
                 edits, reinit, passVars, nativeVars, captureVars, callback>>

RequestQueueFlag ==
  /\ main = "queueFlag"
  /\ requested' = TRUE
  /\ main' = "idle"
  /\ UNCHANGED <<life, surfaceVars, stateVars, inFlight, pendingW, pendingH,
                 edits, reinit, passVars, nativeVars, captureVars, callback>>

-----------------------------------------------------------------------------
(* Main thread: onSurfaceLost and onDestroy.                               *)

\* The overlay destroys its surface, also after the service hid it.
SurfaceLost ==
  /\ "lost" \in Env
  /\ main = "idle" /\ lastSurface # NoSurface
  /\ lastSurface' = NoSurface
  /\ main' = "detach"
  /\ UNCHANGED <<life, surfaces, lastSize, stateVars, flagVars, edits, reinit,
                 passVars, nativeVars, captureVars, callback>>

DetachSurface ==
  /\ main = "detach" /\ mu = "free"
  /\ window' = NoSurface
  /\ main' = "clearCapture"
  /\ UNCHANGED <<life, surfaceVars, stateVars, flagVars, edits, reinit,
                 passVars, mu, loop, loopSize, loopPrefs, captureVars,
                 callback>>

ClearCapture ==
  /\ main = "clearCapture"
  /\ vd' = IF active THEN vd ELSE Detached
  /\ main' = "idle"
  /\ UNCHANGED <<life, surfaceVars, stateVars, flagVars, edits, reinit,
                 passVars, nativeVars, input, callback>>

\* onDestroy: no further reinit.
BeginDestroy ==
  /\ "destroy" \in Env
  /\ main = "idle" /\ life = "up"
  /\ life' = "stopping" /\ main' = "await"
  /\ UNCHANGED <<surfaceVars, stateVars, flagVars, edits, reinit, passVars,
                 nativeVars, captureVars, callback>>

\* Wait for the reinit in flight, at most 1.5 s.  Mutant: no wait.
GoAhead == TRUE
ReinitAwaited == ~inFlight \/ "slowReinit" \in Env

AwaitReinit ==
  /\ main = "await" /\ ReinitAwaited
  /\ main' = "stopCapture"
  /\ UNCHANGED <<life, surfaceVars, stateVars, flagVars, edits, reinit,
                 passVars, nativeVars, captureVars, callback>>

StopSessionCapture ==
  /\ main = "stopCapture"
  /\ StopCapture
  /\ main' = "destroyLoop"
  /\ UNCHANGED <<life, surfaceVars, stateVars, flagVars, edits, reinit,
                 passVars, nativeVars, callback>>

\* An active context is detached from its surface and destroyed.
DestroySession ==
  /\ main = "destroyLoop" /\ mu = "free"
  /\ IF active THEN loop' = FALSE /\ window' = NoSurface
               ELSE UNCHANGED <<loop, window>>
  /\ active' = FALSE
  /\ life' = "destroyed" /\ main' = "idle"
  /\ UNCHANGED <<surfaceVars, started, rendered, flagVars, edits, reinit,
                 passVars, mu, loopSize, loopPrefs, captureVars, callback>>

-----------------------------------------------------------------------------
(* The reinit thread.                                                      *)

\* Mutant: the request stays set.
KeepRequest == UNCHANGED requested
ClearRequest == requested' = FALSE

PassClearFlag ==
  /\ reinit = "clearFlag"
  /\ ClearRequest
  /\ reinit' = "readW"
  /\ UNCHANGED <<mainVars, surfaceVars, stateVars, inFlight, pendingW, pendingH,
                 edits, passVars, nativeVars, captureVars, callback>>

\* takeIf { it > 0 } ?: the size the thread was started with.
TargetW == IF pendingW > 0 THEN pendingW ELSE origin[1]

\* Mutant: the pending width is taken for the height.
TargetHFromW == IF pendingW > 0 THEN pendingW ELSE origin[2]
TargetH == IF pendingH > 0 THEN pendingH ELSE origin[2]

PassReadW ==
  /\ reinit = "readW"
  /\ target' = <<TargetW, target[2]>>
  /\ reinit' = "readH"
  /\ UNCHANGED <<mainVars, surfaceVars, stateVars, flagVars, edits, origin,
                 passPrefs, rc, surface, nativeVars, captureVars, callback>>

PassReadH ==
  /\ reinit = "readH"
  /\ target' = <<target[1], TargetH>>
  /\ reinit' = "clearW"
  /\ UNCHANGED <<mainVars, surfaceVars, stateVars, flagVars, edits, origin,
                 passPrefs, rc, surface, nativeVars, captureVars, callback>>

PassClearW ==
  /\ reinit = "clearW"
  /\ pendingW' = 0
  /\ reinit' = "clearH"
  /\ UNCHANGED <<mainVars, surfaceVars, stateVars, inFlight, requested,
                 pendingH, edits, passVars, nativeVars, captureVars,
                 callback>>

PassClearH ==
  /\ reinit = "clearH"
  /\ pendingH' = 0
  /\ reinit' = "load"
  /\ UNCHANGED <<mainVars, surfaceVars, stateVars, inFlight, requested,
                 pendingW, edits, passVars, nativeVars, captureVars, callback>>

\* Every pass reads the preferences again.  Mutant: only the first does.
LoadOnce == passPrefs' = IF passPrefs = 0 THEN edits ELSE passPrefs
LoadPrefs == passPrefs' = edits

PassLoad ==
  /\ reinit = "load"
  /\ LoadPrefs
  /\ reinit' = IF active THEN "pause" ELSE "init"
  /\ UNCHANGED <<mainVars, surfaceVars, stateVars, flagVars, edits, origin,
                 target, rc, surface, nativeVars, captureVars, callback>>

PassPause ==
  /\ reinit = "pause"
  /\ PauseInput
  /\ reinit' = "stop"
  /\ UNCHANGED <<mainVars, surfaceVars, stateVars, flagVars, edits, passVars,
                 nativeVars, callback>>

\* destroyContext: stop the worker, then tear the context down.
PassStopLoop ==
  /\ reinit = "stop" /\ mu = "free"
  /\ reinit' = "teardown"
  /\ UNCHANGED <<mainVars, surfaceVars, stateVars, flagVars, edits, passVars,
                 nativeVars, captureVars, callback>>

PassTearDown ==
  /\ reinit = "teardown" /\ mu = "free"
  /\ loop' = FALSE
  /\ reinit' = "deactivate"
  /\ UNCHANGED <<mainVars, surfaceVars, stateVars, flagVars, edits, passVars,
                 mu, loopSize, loopPrefs, window, captureVars, callback>>

PassDeactivate ==
  /\ reinit = "deactivate"
  /\ active' = FALSE
  /\ reinit' = "init"
  /\ UNCHANGED <<mainVars, surfaceVars, started, rendered, flagVars, edits,
                 passVars, nativeVars, captureVars, callback>>

\* initContext holds the loop's mutex while shaders compile.
PassInitBegin ==
  /\ reinit = "init" /\ mu = "free"
  /\ mu' = "reinit"
  /\ reinit' = "compile"
  /\ UNCHANGED <<mainVars, surfaceVars, stateVars, flagVars, edits, passVars,
                 loop, loopSize, loopPrefs, window, captureVars, callback>>

PassInitEnd ==
  /\ reinit = "compile"
  /\ InitContext(target, passPrefs, rc')
  /\ mu' = "free"
  /\ reinit' = IF rc' = "failed" THEN "settle" ELSE "activate"
  /\ UNCHANGED <<mainVars, surfaceVars, stateVars, flagVars, edits, origin,
                 target, passPrefs, surface, window, captureVars, callback>>

PassActivate ==
  /\ reinit = "activate"
  /\ active' = TRUE
  /\ reinit' = "readSurface"
  /\ UNCHANGED <<mainVars, surfaceVars, started, rendered, flagVars, edits,
                 passVars, nativeVars, captureVars, callback>>

PassReadSurface ==
  /\ reinit = "readSurface"
  /\ surface' = lastSurface
  /\ reinit' = IF lastSurface = NoSurface THEN "settle" ELSE "attach"
  /\ UNCHANGED <<mainVars, surfaceVars, stateVars, flagVars, edits, origin,
                 target, passPrefs, rc, nativeVars, captureVars, callback>>

PassAttach ==
  /\ reinit = "attach" /\ mu = "free"
  /\ window' = surface
  /\ reinit' = "settle"
  /\ UNCHANGED <<mainVars, surfaceVars, stateVars, flagVars, edits, passVars,
                 mu, loop, loopSize, loopPrefs, captureVars, callback>>

\* Mutant: the size of the surface is taken for the size of the loop.
SettleOnSurface == rendered' = IF rc = "ok" THEN lastSize ELSE NoSize
SettleSize == rendered' = IF rc = "ok" THEN target ELSE NoSize

PassSettle ==
  /\ reinit = "settle"
  /\ SettleSize
  /\ reinit' = IF rc = "failed" THEN "check" ELSE "capture"
  /\ UNCHANGED <<mainVars, surfaceVars, started, active, flagVars, edits,
                 passVars, nativeVars, captureVars, callback>>

\* Capture again: into the reader, or, without framegen, mirrored onto the
\* surface the pass read unless it was lost since (setSurface ignores it then).
PassCapture ==
  /\ reinit = "capture"
  /\ IF rc = "ok" THEN SetLsfgMode
     ELSE IF surface # NoSurface /\ surface = lastSurface THEN SetSurface
     ELSE UNCHANGED captureVars
  /\ reinit' = IF rc = "ok" THEN "enable" ELSE "check"
  /\ UNCHANGED <<mainVars, surfaceVars, stateVars, flagVars, edits, passVars,
                 nativeVars, callback>>

PassEnable ==
  /\ reinit = "enable"
  /\ input' = TRUE
  /\ reinit' = "check"
  /\ UNCHANGED <<mainVars, surfaceVars, stateVars, flagVars, edits, passVars,
                 nativeVars, vd, callback>>

\* Another pass if one was requested.
NextPass == reinit' = IF requested THEN "clearFlag" ELSE "finish"

PassCheck ==
  /\ reinit = "check"
  /\ NextPass
  /\ UNCHANGED <<mainVars, surfaceVars, stateVars, flagVars, edits, passVars,
                 nativeVars, captureVars, callback>>

\* The thread ends, and its locals with it.
Finish ==
  /\ reinit = "finish"
  /\ inFlight' = FALSE
  /\ reinit' = "none"
  /\ origin' = NoSize /\ target' = NoSize /\ passPrefs' = 0 /\ rc' = "ok"
  /\ surface' = NoSurface
  /\ UNCHANGED <<mainVars, surfaceVars, stateVars, requested, pendingW,
                 pendingH, edits, nativeVars, captureVars, callback>>

-----------------------------------------------------------------------------
(* The capture callback checks the flag, then calls pushFrame.             *)

Feeding == vd = "reader" /\ input

ImageAvailable ==
  /\ "frames" \in Env
  /\ callback = "idle" /\ Feeding
  /\ callback' = "push"
  /\ UNCHANGED <<mainVars, surfaceVars, stateVars, flagVars, edits, reinit,
                 passVars, nativeVars, captureVars>>

PushFrame ==
  /\ callback = "push"
  /\ callback' = "idle"
  /\ UNCHANGED <<mainVars, surfaceVars, stateVars, flagVars, edits, reinit,
                 passVars, nativeVars, captureVars>>

\* What the main thread does next in the handler it is in.
MainHandler ==
  AttachSurface \/ StartSession \/ BranchOnState \/ MirrorSurface
  \/ RequestStart \/ RequestQueueW \/ RequestQueueH \/ RequestQueueFlag
  \/ DetachSurface \/ ClearCapture
  \/ AwaitReinit \/ StopSessionCapture \/ DestroySession

MainEvent == SurfaceLost \/ EditParams \/ BeginDestroy
             \/ \E z \in Sizes : SurfaceReady(z)

ReinitThread ==
  PassClearFlag \/ PassReadW \/ PassReadH \/ PassClearW \/ PassClearH
  \/ PassLoad \/ PassPause \/ PassStopLoop \/ PassTearDown \/ PassDeactivate
  \/ PassInitBegin \/ PassInitEnd \/ PassActivate \/ PassReadSurface
  \/ PassAttach \/ PassSettle \/ PassCapture \/ PassEnable \/ PassCheck \/ Finish

Next == MainHandler \/ MainEvent \/ ReinitThread \/ ImageAvailable \/ PushFrame

Spec == Init /\ [][Next]_vars

\* Both threads run once they have something to do; no event has to happen.
Fairness == WF_vars(MainHandler) /\ WF_vars(ReinitThread)

FairSpec == Spec /\ Fairness

-----------------------------------------------------------------------------
(* Correctness.                                                            *)

MainPoints == {"idle", "attach", "branch", "mirror", "request", "queueH",
               "queueFlag", "detach", "clearCapture", "await", "stopCapture",
               "destroyLoop"}
BeforeLoad == {"clearFlag", "readW", "readH", "clearW", "clearH", "load"}
AfterLoad  == {"pause", "stop", "teardown", "deactivate", "init", "compile",
               "activate", "readSurface", "attach", "settle", "capture",
               "enable", "check", "finish"}
\* Sizes the service may use: the width and the height are each one that an
\* overlay surface had, not necessarily the same one.
Widths  == {z[1] : z \in Sizes} \union {0}
Heights == {z[2] : z \in Sizes} \union {0}
Extents == Widths \X Heights

PointTypes ==
  /\ main \in MainPoints /\ life \in {"up", "stopping", "destroyed"}
  /\ started \in BOOLEAN /\ active \in BOOLEAN
  /\ inFlight \in BOOLEAN /\ requested \in BOOLEAN
  /\ reinit \in BeforeLoad \union AfterLoad \union {"none"}
  /\ rc \in {"ok", "disabled", "failed"}
  /\ mu \in {"free", "reinit"} /\ loop \in BOOLEAN
  /\ vd \in {"none", "detached", "reader", "mirror"} /\ input \in BOOLEAN
  /\ callback \in {"idle", "push"}
SizeTypes ==
  /\ lastSize \in Sizes \union {NoSize} /\ rendered \in Extents
  /\ pendingW \in Widths /\ pendingH \in Heights
  /\ origin \in Extents /\ target \in Extents /\ loopSize \in Extents
CountTypes ==
  /\ surfaces \in 0..MaxSurfaces /\ edits \in 0..MaxEdits
  /\ {lastSurface, surface, window} \subseteq 0..surfaces
  /\ {passPrefs, loopPrefs} \subseteq 0..edits
TypeOK == PointTypes /\ SizeTypes /\ CountTypes

\* Nothing is under way and the service is not being destroyed.
Settled == main = "idle" /\ life = "up" /\ reinit = "none"

Requesting == main \in {"request", "queueH", "queueFlag"}

\* A request the reinit thread no longer sees as pending is covered by the pass
\* it is in: the pass loaded preferences at least as new as that request.
PassCoversRequests ==
  (reinit \in AfterLoad /\ ~requested /\ ~Requesting) => passPrefs = edits

\* Captures are only fed to a loop that exists.
FeedsLiveLoop == Feeding => loop

\* Outside a reinit the service's idea of the render size is the loop's.
RenderSizeIsLoopSize ==
  (Settled /\ active /\ rendered # NoSize) => loop /\ loopSize = rendered

\* Once onDestroy has returned and no reinit runs, neither the native context
\* nor the VirtualDisplay is left behind.
NothingAfterDestroy ==
  (life = "destroyed" /\ reinit = "none") => ~loop /\ vd = "none"

\* A reinit ends, however often it is asked to run again.
ReinitCompletes == inFlight ~> ~inFlight

\* The final native state matches the most recent parameter change.
\* Does not hold: README, section 6.
LastChangeApplied == (Settled /\ loop) => loopPrefs = edits

\* The native loop is detached from a surface before the overlay releases it.
\* Does not hold: README, section 6.
LostSurfaceDetached == main = "idle" => window \in {NoSurface, lastSurface}

\* The capture is mirrored onto the overlay only while framegen is not active.
\* Does not hold: README, section 6.
MirrorOnlyWithoutFramegen ==
  (Settled /\ active /\ rendered # NoSize) => vd # "mirror"

\* No capture is pushed while the native context is torn down.
\* Does not hold: README, section 6.
NoPushDuringTeardown == reinit \in {"stop", "teardown"} => callback # "push"

\* When initContext fails the capture is mirrored onto the overlay.
\* Does not hold: README, section 6.
FailedInitMirrors ==
  (Settled /\ started /\ ~active /\ lastSurface # NoSurface) => vd = "mirror"
=============================================================================
