----------------------- MODULE ForegroundSessionProofs -----------------------
(***************************************************************************)
(* Proofs about ForegroundSession for every set of overlay sizes, every    *)
(* number of surfaces and parameter changes and every set of events.       *)
(***************************************************************************)
EXTENDS ForegroundSession, TLAPS

\* The reinit thread runs for a session that has started, and for a size.
\* A handler that uses the size follows a surface.
ThreadInv ==
  /\ inFlight <=> reinit # "none"
  /\ main \in {"attach", "branch", "mirror"} \/ Requesting => lastSize # NoSize
  /\ main \in {"mirror"} \/ Requesting => started
  /\ reinit # "none" => started
  /\ started => lastSize # NoSize
  /\ main \notin {"attach", "branch"} /\ lastSize # NoSize => started
  /\ ~started => ~active /\ ~loop /\ vd = "none"
  /\ life = "up" => main \notin {"await", "stopCapture", "destroyLoop"}
  /\ life = "stopping" => main \in {"await", "stopCapture", "destroyLoop"}
  /\ life = "destroyed" => main \in {"idle", "detach", "clearCapture"}

\* Until the session is destroyed, lsfgContextActive is true of the loop except
\* between the two calls of a pass and the assignments that follow them.
ActiveInv ==
  life # "destroyed" =>
    /\ reinit \in {"init", "compile"} => ~active /\ ~loop
    /\ reinit = "deactivate" => ~loop
    /\ reinit = "activate" => loop
    /\ reinit \notin {"deactivate", "init", "compile", "activate"} => (active <=> loop)

\* What a pass knows of the loop it has built, and of the one it left behind.
SizeInv ==
  life # "destroyed" =>
    /\ reinit \in {"activate", "readSurface", "attach"} => rc # "failed"
    /\ reinit \in {"activate", "readSurface", "attach", "settle"} /\ rc # "failed"
         => loop /\ loopSize = target
    /\ reinit = "settle" /\ rc = "failed" => ~active
    /\ reinit \in {"capture", "enable"} => rc # "failed" /\ active
    /\ reinit = "enable" => rc = "ok"
    /\ reinit \in {"capture", "enable", "check", "finish", "none"}
         => (active /\ rendered # NoSize => loopSize = rendered)

\* When onDestroy waits for the reinit thread to end, none runs while it stops
\* the capture and destroys the loop, nor later.
AwaitedInv ==
  /\ main \in {"stopCapture", "destroyLoop"} \/ life = "destroyed" => reinit = "none"
  /\ main = "destroyLoop" \/ life = "destroyed" => vd = "none" /\ ~input
  /\ life = "destroyed" => ~loop

\* The capture's input is off from the pause of a pass until the loop is back.
InputInv ==
  /\ started /\ input => active
  /\ reinit \in {"stop", "teardown", "deactivate", "init", "compile", "activate",
                 "readSurface", "attach", "settle", "capture"} => ~input

SessionInv == TypeOK /\ ThreadInv /\ ActiveInv /\ SizeInv /\ PassCoversRequests
CaptureInv == AwaitedInv /\ InputInv

USE DEF mainVars, surfaceVars, stateVars, flagVars, passVars, nativeVars, captureVars

-----------------------------------------------------------------------------
(* Types.                                                                  *)

\* The size of a surface is one the service may use, and so are its parts.
LEMMA SizeParts ==
  ASSUME NEW z \in Sizes \union {NoSize}
  PROVE  z \in Extents /\ z[1] \in Widths /\ z[2] \in Heights
<1>1. CASE z \in Sizes
  <2>1. z[1] \in Widths /\ z[2] \in Heights /\ z = <<z[1], z[2]>>
    BY <1>1, SizesAssumption DEF Widths, Heights
  <2>2. QED
    BY <2>1 DEF Extents
<1>2. CASE z = NoSize
  BY <1>2 DEF NoSize, Extents, Widths, Heights
<1>3. QED
  BY <1>1, <1>2

LEMMA SizesArePositive == NoSize \notin Sizes /\ Widths \subseteq Nat /\ Heights \subseteq Nat
  BY SizesAssumption DEF NoSize, Widths, Heights

LEMMA NoSizeExtent == NoSize \in Extents /\ 0 \in Widths /\ 0 \in Heights
  BY DEF NoSize, Extents, Widths, Heights

LEMMA SessionTypeInit == Init => TypeOK
<1> SUFFICES ASSUME Init PROVE TypeOK
  OBVIOUS
<1>1. PointTypes
  BY DEF Init, PointTypes, MainPoints
<1>2. SizeTypes
  BY NoSizeExtent DEF Init, SizeTypes
<1>3. CountTypes
  BY BoundsAssumption DEF Init, CountTypes, NoSurface
<1>4. QED
  BY <1>1, <1>2, <1>3 DEF TypeOK

LEMMA PointStep == ASSUME PointTypes, [Next]_vars PROVE PointTypes'
<1> USE DEF MainPoints
<1>1. CASE MainHandler
  <2>1. CASE AttachSurface \/ StartSession \/ BranchOnState \/ MirrorSurface
    BY <2>1 DEF AttachSurface, StartSession, InitContext, BranchOnState, MirrorSurface,
                SetSurface, PointTypes
  <2>2. CASE RequestStart \/ RequestQueueW \/ RequestQueueH \/ RequestQueueFlag
    BY <2>2 DEF RequestStart, RequestQueueW, RequestQueueH, RequestQueueFlag, PointTypes,
                BeforeLoad
  <2>3. CASE DetachSurface \/ ClearCapture
    BY <2>3 DEF DetachSurface, ClearCapture, Detached, PointTypes
  <2>4. CASE AwaitReinit \/ StopSessionCapture \/ DestroySession
    BY <2>4 DEF AwaitReinit, StopSessionCapture, StopCapture, DestroySession, PointTypes
  <2>5. QED
    BY <1>1, <2>1, <2>2, <2>3, <2>4 DEF MainHandler
<1>2. CASE MainEvent
  BY <1>2 DEF MainEvent, SurfaceLost, EditParams, BeginDestroy, SurfaceReady, PointTypes
<1>3. CASE ReinitThread
  <2>1. CASE PassClearFlag \/ PassReadW \/ PassReadH \/ PassClearW \/ PassClearH
    BY <2>1 DEF PassClearFlag, ClearRequest, PassReadW, PassReadH, PassClearW, PassClearH,
                PointTypes, BeforeLoad
  <2>2. CASE PassLoad \/ PassPause \/ PassStopLoop \/ PassTearDown \/ PassDeactivate
    BY <2>2 DEF PassLoad, PassPause, PauseInput, Detached, PassStopLoop, PassTearDown,
                PassDeactivate, PointTypes, AfterLoad
  <2>3. CASE PassInitBegin \/ PassInitEnd \/ PassActivate
    BY <2>3 DEF PassInitBegin, PassInitEnd, InitContext, Outcomes, PassActivate,
                PointTypes, AfterLoad
  <2>4. CASE PassReadSurface \/ PassAttach \/ PassSettle
    BY <2>4 DEF PassReadSurface, PassAttach, PassSettle, PointTypes, AfterLoad
  <2>5. CASE PassCapture \/ PassEnable
    BY <2>5 DEF PassCapture, SetLsfgMode, SetSurface, PassEnable, PointTypes, AfterLoad
  <2>6. CASE PassCheck \/ Finish
    BY <2>6 DEF PassCheck, NextPass, Finish, PointTypes, BeforeLoad, AfterLoad
  <2>7. QED
    BY <1>3, <2>1, <2>2, <2>3, <2>4, <2>5, <2>6 DEF ReinitThread
<1>4. CASE ImageAvailable \/ PushFrame \/ UNCHANGED vars
  BY <1>4 DEF ImageAvailable, PushFrame, vars, PointTypes
<1>5. QED
  BY <1>1, <1>2, <1>3, <1>4 DEF Next

LEMMA SizeStep == ASSUME SizeTypes, [Next]_vars PROVE SizeTypes'
<1>1. CASE \E z \in Sizes : SurfaceReady(z)
  BY <1>1 DEF SurfaceReady, SizeTypes
<1>2. CASE StartSession
  <2>1. rendered' \in Extents /\ loopSize' \in Extents
    BY <1>2, SizeParts, NoSizeExtent DEF StartSession, InitContext, SizeTypes
  <2>2. QED
    BY <1>2, <2>1 DEF StartSession, SizeTypes
<1>3. CASE RequestStart \/ RequestQueueW \/ RequestQueueH
  BY <1>3, SizeParts DEF RequestStart, RequestQueueW, RequestQueueH, SizeTypes
<1>4. CASE PassReadW \/ PassReadH
  <2>1. target \in Extents /\ origin \in Extents /\ TargetW \in Widths /\ TargetH \in Heights
    BY DEF SizeTypes, Extents, TargetW, TargetH
  <2>2. target' \in Extents
    BY <1>4, <2>1 DEF PassReadW, PassReadH, Extents
  <2>3. QED
    BY <1>4, <2>2 DEF PassReadW, PassReadH, SizeTypes
<1>5. CASE PassClearW \/ PassClearH
  BY <1>5, NoSizeExtent DEF PassClearW, PassClearH, SizeTypes
<1>6. CASE PassInitEnd \/ PassSettle \/ Finish
  BY <1>6, NoSizeExtent DEF PassInitEnd, InitContext, PassSettle, SettleSize, Finish, SizeTypes
<1>7. CASE UNCHANGED <<lastSize, rendered, pendingW, pendingH, origin, target, loopSize>>
  BY <1>7 DEF SizeTypes
<1>8. QED
  BY <1>1, <1>2, <1>3, <1>4, <1>5, <1>6, <1>7
     DEF Next, MainHandler, MainEvent, ReinitThread, vars, AttachSurface, BranchOnState,
         MirrorSurface, RequestQueueFlag, DetachSurface, ClearCapture, AwaitReinit,
         StopSessionCapture, DestroySession, SurfaceLost, EditParams, BeginDestroy,
         PassClearFlag, PassLoad, PassPause, PassStopLoop, PassTearDown, PassDeactivate,
         PassInitBegin, PassActivate, PassReadSurface, PassAttach, PassCapture, PassEnable,
         PassCheck, ImageAvailable, PushFrame

LEMMA CountStep == ASSUME CountTypes, [Next]_vars PROVE CountTypes'
<1> USE BoundsAssumption DEF NoSurface
<1>1. CASE \E z \in Sizes : SurfaceReady(z)
  BY <1>1 DEF SurfaceReady, CountTypes
<1>2. CASE EditParams
  BY <1>2 DEF EditParams, CountTypes
<1>3. CASE AttachSurface \/ SurfaceLost \/ DetachSurface \/ DestroySession
  BY <1>3 DEF AttachSurface, SurfaceLost, DetachSurface, DestroySession, CountTypes
<1>4. CASE StartSession \/ PassInitEnd
  BY <1>4 DEF StartSession, PassInitEnd, InitContext, CountTypes
<1>5. CASE PassLoad \/ PassReadSurface \/ PassAttach \/ Finish
  BY <1>5 DEF PassLoad, LoadPrefs, PassReadSurface, PassAttach, Finish, CountTypes
<1>6. CASE UNCHANGED <<surfaces, edits, lastSurface, surface, window, passPrefs, loopPrefs>>
  BY <1>6 DEF CountTypes
<1>7. QED
  BY <1>1, <1>2, <1>3, <1>4, <1>5, <1>6
     DEF Next, MainHandler, MainEvent, ReinitThread, vars, BranchOnState, MirrorSurface,
         RequestStart, RequestQueueW, RequestQueueH, RequestQueueFlag, ClearCapture,
         AwaitReinit, StopSessionCapture, BeginDestroy, PassClearFlag, PassReadW, PassReadH,
         PassClearW, PassClearH, PassPause, PassStopLoop, PassTearDown, PassDeactivate,
         PassInitBegin, PassActivate, PassSettle, PassCapture, PassEnable, PassCheck,
         ImageAvailable, PushFrame

LEMMA SessionTypeStep == ASSUME TypeOK, [Next]_vars PROVE TypeOK'
  BY PointStep, SizeStep, CountStep DEF TypeOK

-----------------------------------------------------------------------------
(* The threads and the loop, whatever happens.                             *)

LEMMA ThreadStep == ASSUME TypeOK, ThreadInv, [Next]_vars PROVE ThreadInv'
<1> USE DEF Requesting
<1>1. CASE MainHandler
  <2>1. CASE AttachSurface \/ StartSession \/ BranchOnState \/ MirrorSurface
    BY <2>1 DEF AttachSurface, StartSession, BranchOnState, MirrorSurface, SetSurface, ThreadInv
  <2>2. CASE RequestStart \/ RequestQueueW \/ RequestQueueH \/ RequestQueueFlag
    BY <2>2 DEF RequestStart, RequestQueueW, RequestQueueH, RequestQueueFlag, ThreadInv
  <2>3. CASE DetachSurface \/ ClearCapture
    BY <2>3 DEF DetachSurface, ClearCapture, Detached, ThreadInv
  <2>4. CASE AwaitReinit \/ StopSessionCapture \/ DestroySession
    BY <2>4 DEF AwaitReinit, StopSessionCapture, StopCapture, DestroySession, ThreadInv
  <2>5. QED
    BY <1>1, <2>1, <2>2, <2>3, <2>4 DEF MainHandler
<1>2. CASE \E z \in Sizes : SurfaceReady(z)
  BY <1>2, SizesArePositive DEF SurfaceReady, ThreadInv
<1>3. CASE SurfaceLost \/ EditParams \/ BeginDestroy
  BY <1>3 DEF SurfaceLost, EditParams, BeginDestroy, TypeOK, PointTypes, ThreadInv
<1>4. CASE ReinitThread
  <2>1. CASE PassClearFlag \/ PassReadW \/ PassReadH \/ PassClearW \/ PassClearH
    BY <2>1 DEF PassClearFlag, PassReadW, PassReadH, PassClearW, PassClearH, ThreadInv
  <2>2. CASE PassLoad \/ PassPause \/ PassStopLoop \/ PassTearDown \/ PassDeactivate
    BY <2>2 DEF PassLoad, PassPause, PassStopLoop, PassTearDown, PassDeactivate, ThreadInv
  <2>3. CASE PassInitBegin \/ PassInitEnd \/ PassActivate \/ PassReadSurface \/ PassAttach
    BY <2>3 DEF PassInitBegin, PassInitEnd, PassActivate, PassReadSurface, PassAttach, ThreadInv
  <2>4. CASE PassSettle \/ PassCapture \/ PassEnable \/ PassCheck \/ Finish
    BY <2>4 DEF PassSettle, PassCapture, PassEnable, PassCheck, NextPass, Finish, ThreadInv
  <2>5. QED
    BY <1>4, <2>1, <2>2, <2>3, <2>4 DEF ReinitThread
<1>5. CASE ImageAvailable \/ PushFrame \/ UNCHANGED vars
  BY <1>5 DEF ImageAvailable, PushFrame, vars, ThreadInv
<1>6. QED
  BY <1>1, <1>2, <1>3, <1>4, <1>5 DEF Next, MainEvent

LEMMA ActiveStep == ASSUME TypeOK, ThreadInv, ActiveInv, [Next]_vars PROVE ActiveInv'
<1>1. CASE StartSession
  <2>1. reinit = "none" /\ ~loop /\ life # "destroyed"
    BY <1>1 DEF StartSession, ThreadInv
  <2>2. active' <=> loop'
    BY <1>1, <2>1 DEF StartSession, InitContext, Outcomes
  <2>3. QED
    BY <1>1, <2>1, <2>2 DEF StartSession, ActiveInv
<1>2. CASE RequestStart \/ DestroySession
  BY <1>2 DEF RequestStart, DestroySession, ThreadInv, ActiveInv
<1>3. CASE BeginDestroy
  BY <1>3 DEF BeginDestroy, ActiveInv
<1>4. CASE PassLoad
  BY <1>4 DEF PassLoad, TypeOK, PointTypes, ActiveInv
<1>5. CASE PassTearDown \/ PassDeactivate \/ PassActivate
  BY <1>5 DEF PassTearDown, PassDeactivate, PassActivate, ActiveInv
<1>6. CASE PassInitEnd
  BY <1>6 DEF PassInitEnd, InitContext, TypeOK, PointTypes, ActiveInv
<1>7. CASE PassClearFlag \/ PassReadW \/ PassReadH \/ PassClearW \/ PassClearH
           \/ PassPause \/ PassStopLoop \/ PassInitBegin
  BY <1>7 DEF PassClearFlag, PassReadW, PassReadH, PassClearW, PassClearH, PassPause,
              PassStopLoop, PassInitBegin, ActiveInv
<1>8. CASE PassReadSurface \/ PassAttach \/ PassSettle \/ PassCapture \/ PassEnable
           \/ PassCheck \/ Finish
  BY <1>8 DEF PassReadSurface, PassAttach, PassSettle, PassCapture, PassEnable, PassCheck,
              NextPass, Finish, ActiveInv
<1>9. CASE UNCHANGED <<life, reinit, active, loop>>
  BY <1>9 DEF ActiveInv
<1>10. QED
  BY <1>1, <1>2, <1>3, <1>4, <1>5, <1>6, <1>7, <1>8, <1>9
     DEF Next, MainHandler, MainEvent, ReinitThread, vars, AttachSurface, BranchOnState,
         MirrorSurface, RequestQueueW, RequestQueueH, RequestQueueFlag, DetachSurface,
         ClearCapture, AwaitReinit, StopSessionCapture, SurfaceReady, SurfaceLost,
         EditParams, ImageAvailable, PushFrame

LEMMA SizeInvStep ==
  ASSUME TypeOK, ThreadInv, ActiveInv, SizeInv, [Next]_vars
  PROVE  SizeInv'
<1>1. CASE StartSession
  <2>1. reinit = "none" /\ ~loop /\ life # "destroyed"
    BY <1>1 DEF StartSession, ThreadInv
  <2>2. active' /\ rendered' # NoSize => loopSize' = rendered'
    BY <1>1, <2>1 DEF StartSession, InitContext, Outcomes
  <2>3. QED
    BY <1>1, <2>1, <2>2 DEF StartSession, SizeInv
<1>2. CASE RequestStart \/ DestroySession \/ BeginDestroy
  BY <1>2 DEF RequestStart, DestroySession, BeginDestroy, ThreadInv, SizeInv
<1>3. CASE PassLoad \/ PassTearDown \/ PassDeactivate \/ PassActivate
  BY <1>3 DEF PassLoad, PassTearDown, PassDeactivate, PassActivate, SizeInv, ActiveInv
<1>4. CASE PassInitEnd
  BY <1>4 DEF PassInitEnd, InitContext, ActiveInv, SizeInv
<1>5. CASE PassClearFlag \/ PassReadW \/ PassReadH \/ PassClearW \/ PassClearH
           \/ PassPause \/ PassStopLoop \/ PassInitBegin
  BY <1>5 DEF PassClearFlag, PassReadW, PassReadH, PassClearW, PassClearH, PassPause,
              PassStopLoop, PassInitBegin, SizeInv
<1>6. CASE PassReadSurface \/ PassAttach
  BY <1>6 DEF PassReadSurface, PassAttach, SizeInv
<1>7. CASE PassSettle
  BY <1>7 DEF PassSettle, SettleSize, ActiveInv, SizeInv
<1>8. CASE PassCapture \/ PassEnable \/ PassCheck \/ Finish
  BY <1>8 DEF PassCapture, PassEnable, PassCheck, NextPass, Finish, SizeInv
<1>9. CASE UNCHANGED <<life, reinit, active, rendered, rc, target, loop, loopSize>>
  BY <1>9 DEF SizeInv
<1>10. QED
  BY <1>1, <1>2, <1>3, <1>4, <1>5, <1>6, <1>7, <1>8, <1>9
     DEF Next, MainHandler, MainEvent, ReinitThread, vars, AttachSurface, BranchOnState,
         MirrorSurface, RequestQueueW, RequestQueueH, RequestQueueFlag, DetachSurface,
         ClearCapture, AwaitReinit, StopSessionCapture, SurfaceReady, SurfaceLost,
         EditParams, ImageAvailable, PushFrame

LEMMA PassStep ==
  ASSUME TypeOK, ThreadInv, PassCoversRequests, [Next]_vars
  PROVE  PassCoversRequests'
<1> USE DEF Requesting, AfterLoad
<1>1. CASE EditParams
  BY <1>1 DEF EditParams, ThreadInv, PassCoversRequests
<1>2. CASE RequestStart \/ RequestQueueW \/ RequestQueueH \/ RequestQueueFlag
  BY <1>2 DEF RequestStart, RequestQueueW, RequestQueueH, RequestQueueFlag, PassCoversRequests
<1>3. CASE \E z \in Sizes : SurfaceReady(z)
  BY <1>3 DEF SurfaceReady, PassCoversRequests
<1>4. CASE AttachSurface \/ StartSession \/ BranchOnState \/ MirrorSurface
  BY <1>4 DEF AttachSurface, StartSession, BranchOnState, MirrorSurface, PassCoversRequests
<1>5. CASE SurfaceLost \/ DetachSurface \/ ClearCapture
  BY <1>5 DEF SurfaceLost, DetachSurface, ClearCapture, PassCoversRequests
<1>6. CASE BeginDestroy \/ AwaitReinit \/ StopSessionCapture \/ DestroySession
  BY <1>6 DEF BeginDestroy, AwaitReinit, StopSessionCapture, DestroySession, PassCoversRequests
<1>7. CASE PassClearFlag \/ PassReadW \/ PassReadH \/ PassClearW \/ PassClearH \/ PassLoad
  BY <1>7 DEF PassClearFlag, PassReadW, PassReadH, PassClearW, PassClearH, PassLoad,
              LoadPrefs, PassCoversRequests
<1>8. CASE PassPause \/ PassStopLoop \/ PassTearDown \/ PassDeactivate \/ PassInitBegin
  BY <1>8 DEF PassPause, PassStopLoop, PassTearDown, PassDeactivate, PassInitBegin,
              PassCoversRequests
<1>9. CASE PassInitEnd \/ PassActivate \/ PassReadSurface \/ PassAttach
  BY <1>9 DEF PassInitEnd, PassActivate, PassReadSurface, PassAttach, PassCoversRequests
<1>10. CASE PassSettle \/ PassCapture \/ PassEnable \/ PassCheck \/ Finish
  BY <1>10 DEF PassSettle, PassCapture, PassEnable, PassCheck, NextPass, Finish,
               PassCoversRequests
<1>11. CASE ImageAvailable \/ PushFrame \/ UNCHANGED vars
  BY <1>11 DEF ImageAvailable, PushFrame, vars, PassCoversRequests
<1>12. QED
  BY <1>1, <1>2, <1>3, <1>4, <1>5, <1>6, <1>7, <1>8, <1>9, <1>10, <1>11
     DEF Next, MainHandler, MainEvent, ReinitThread

-----------------------------------------------------------------------------
(* The capture, when onDestroy waits until the reinit is over.             *)

\* onDestroy waits 1.5 s for the reinit in flight; here that is enough.
ReinitsInTime == "slowReinit" \notin Env

LEMMA AwaitedStep ==
  ASSUME ReinitsInTime, TypeOK, ThreadInv, ActiveInv, AwaitedInv, [Next]_vars
  PROVE  AwaitedInv'
<1>1. CASE AwaitReinit
  BY <1>1 DEF AwaitReinit, ReinitAwaited, ReinitsInTime, ThreadInv, AwaitedInv
<1>2. CASE StopSessionCapture \/ DestroySession
  BY <1>2 DEF StopSessionCapture, StopCapture, DestroySession, ThreadInv, ActiveInv, AwaitedInv
<1>3. CASE BeginDestroy \/ SurfaceLost \/ EditParams
  BY <1>3 DEF BeginDestroy, SurfaceLost, EditParams, AwaitedInv
<1>4. CASE \E z \in Sizes : SurfaceReady(z)
  BY <1>4 DEF SurfaceReady, AwaitedInv
<1>5. CASE AttachSurface \/ StartSession \/ BranchOnState \/ MirrorSurface
  BY <1>5 DEF AttachSurface, StartSession, BranchOnState, MirrorSurface, ThreadInv, AwaitedInv
<1>6. CASE RequestStart \/ RequestQueueW \/ RequestQueueH \/ RequestQueueFlag
  BY <1>6 DEF RequestStart, RequestQueueW, RequestQueueH, RequestQueueFlag, Requesting,
              ThreadInv, AwaitedInv
<1>7. CASE DetachSurface \/ ClearCapture
  BY <1>7 DEF DetachSurface, ClearCapture, Detached, AwaitedInv
<1>8. CASE ReinitThread
  <2>1. reinit # "none"
    BY <1>8 DEF ReinitThread, PassClearFlag, PassReadW, PassReadH, PassClearW, PassClearH,
                PassLoad, PassPause, PassStopLoop, PassTearDown, PassDeactivate,
                PassInitBegin, PassInitEnd, PassActivate, PassReadSurface, PassAttach,
                PassSettle, PassCapture, PassEnable, PassCheck, Finish
  <2>2. UNCHANGED <<main, life>>
    BY <1>8 DEF ReinitThread, PassClearFlag, PassReadW, PassReadH, PassClearW, PassClearH,
                PassLoad, PassPause, PassStopLoop, PassTearDown, PassDeactivate,
                PassInitBegin, PassInitEnd, PassActivate, PassReadSurface, PassAttach,
                PassSettle, PassCapture, PassEnable, PassCheck, Finish
  <2>3. QED
    BY <2>1, <2>2 DEF AwaitedInv
<1>9. CASE ImageAvailable \/ PushFrame \/ UNCHANGED vars
  BY <1>9 DEF ImageAvailable, PushFrame, vars, AwaitedInv
<1>10. QED
  BY <1>1, <1>2, <1>3, <1>4, <1>5, <1>6, <1>7, <1>8, <1>9 DEF Next, MainHandler, MainEvent

LEMMA InputStep ==
  ASSUME TypeOK, ThreadInv, ActiveInv, SizeInv, AwaitedInv, InputInv, [Next]_vars
  PROVE  InputInv'
<1>1. CASE StartSession
  BY <1>1 DEF StartSession, ThreadInv, InputInv
<1>2. CASE MirrorSurface \/ StopSessionCapture \/ RequestStart
  BY <1>2 DEF MirrorSurface, SetSurface, StopSessionCapture, StopCapture, RequestStart, InputInv
<1>3. CASE DestroySession
  <2>1. ~input /\ reinit = "none"
    BY <1>3 DEF DestroySession, AwaitedInv
  <2>2. QED
    BY <1>3, <2>1 DEF DestroySession, InputInv
<1>4. CASE PassLoad \/ PassDeactivate \/ PassActivate
  BY <1>4 DEF PassLoad, PassDeactivate, PassActivate, ThreadInv, InputInv
<1>5. CASE PassPause \/ PassCapture
  BY <1>5 DEF PassPause, PauseInput, PassCapture, SetLsfgMode, SetSurface, InputInv
<1>6. CASE PassEnable
  BY <1>6 DEF PassEnable, AwaitedInv, SizeInv, InputInv
<1>7. CASE PassClearFlag \/ PassReadW \/ PassReadH \/ PassClearW \/ PassClearH
           \/ PassStopLoop \/ PassTearDown
  BY <1>7 DEF PassClearFlag, PassReadW, PassReadH, PassClearW, PassClearH, PassStopLoop,
              PassTearDown, InputInv
<1>8. CASE PassInitBegin \/ PassInitEnd \/ PassReadSurface \/ PassAttach \/ PassSettle
           \/ PassCheck \/ Finish
  BY <1>8 DEF PassInitBegin, PassInitEnd, PassReadSurface, PassAttach, PassSettle,
              PassCheck, NextPass, Finish, InputInv
<1>9. CASE UNCHANGED <<started, active, reinit, input>>
  BY <1>9 DEF InputInv
<1>10. QED
  BY <1>1, <1>2, <1>3, <1>4, <1>5, <1>6, <1>7, <1>8, <1>9
     DEF Next, MainHandler, MainEvent, ReinitThread, vars, AttachSurface, BranchOnState,
         RequestQueueW, RequestQueueH, RequestQueueFlag, DetachSurface, ClearCapture,
         AwaitReinit, BeginDestroy, SurfaceReady, SurfaceLost, EditParams,
         ImageAvailable, PushFrame

-----------------------------------------------------------------------------
(* The theorems.                                                           *)

LEMMA SessionInvariant == Spec => []SessionInv
<1>1. Init => SessionInv
  <2> SUFFICES ASSUME Init PROVE SessionInv
    OBVIOUS
  <2>1. ThreadInv /\ ActiveInv /\ SizeInv /\ PassCoversRequests
    BY DEF Init, ThreadInv, ActiveInv, SizeInv, PassCoversRequests, Requesting, AfterLoad
  <2>2. QED
    BY <2>1, SessionTypeInit DEF SessionInv
<1>2. SessionInv /\ [Next]_vars => SessionInv'
  BY SessionTypeStep, ThreadStep, ActiveStep, SizeInvStep, PassStep DEF SessionInv
<1>3. QED
  BY <1>1, <1>2, PTL DEF Spec

LEMMA CaptureInvariant == ASSUME ReinitsInTime PROVE Spec => []CaptureInv
<1>1. Init => CaptureInv
  BY DEF Init, CaptureInv, AwaitedInv, InputInv
<1>2. SessionInv /\ CaptureInv /\ [Next]_vars => CaptureInv'
  BY ReinitsInTime, AwaitedStep, InputStep DEF SessionInv, CaptureInv
<1>3. QED
  BY <1>1, <1>2, SessionInvariant, PTL DEF Spec

\* The fields of the service, of the reinit thread and of the loop keep their
\* types; sizes are combined from widths and heights the overlay had.
THEOREM SessionTypes == Spec => []TypeOK
<1>1. SessionInv => TypeOK
  BY DEF SessionInv
<1>2. QED
  BY <1>1, SessionInvariant, PTL

\* A parameter change that is no longer pending is covered by the pass under
\* way, however the requests of the main thread and the accesses of the reinit
\* thread interleave, and whether or not onDestroy waits.
THEOREM RequestsAreCovered == Spec => []PassCoversRequests
<1>1. SessionInv => PassCoversRequests
  BY DEF SessionInv
<1>2. QED
  BY <1>1, SessionInvariant, PTL

\* Outside a reinit the render size the service compares surfaces with is the
\* size of the loop, over rotations, failures, sessions without framegen and a
\* destruction that did not wait.
THEOREM RenderSizeFollowsLoop == Spec => []RenderSizeIsLoopSize
<1>1. SessionInv => RenderSizeIsLoopSize
  BY DEF SessionInv, ActiveInv, SizeInv, RenderSizeIsLoopSize, Settled
<1>2. QED
  BY <1>1, SessionInvariant, PTL

\* Captures are fed to a loop that exists, if no reinit outlasts the wait of
\* onDestroy.
THEOREM CapturesFeedLoop == ASSUME ReinitsInTime PROVE Spec => []FeedsLiveLoop
<1>1. SessionInv /\ CaptureInv => FeedsLiveLoop
  BY DEF SessionInv, CaptureInv, ThreadInv, ActiveInv, AwaitedInv, InputInv,
         FeedsLiveLoop, Feeding
<1>2. QED
  BY <1>1, SessionInvariant, CaptureInvariant, ReinitsInTime, PTL

\* After onDestroy neither the native context nor the VirtualDisplay is left,
\* if no reinit outlasts its wait.
THEOREM DestroyLeavesNothing == ASSUME ReinitsInTime PROVE Spec => []NothingAfterDestroy
<1>1. CaptureInv => NothingAfterDestroy
  BY DEF CaptureInv, AwaitedInv, NothingAfterDestroy
<1>2. QED
  BY <1>1, CaptureInvariant, ReinitsInTime, PTL

=============================================================================
