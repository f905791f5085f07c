------------------------ MODULE OutputSurfaceProofs ------------------------
(***************************************************************************)
(* Proofs about OutputSurface for every set of windows, sizes, contents    *)
(* and events, and every limit of the luma gate.                           *)
(***************************************************************************)
EXTENDS OutputSurface, TLAPS

USE WindowsAssumption, SizesAssumption, ContentsAssumption, GateAssumption
    DEF NoSize, NoContent

SwapVars == <<window, producer, swap>>

-----------------------------------------------------------------------------
(* The swapchain's surface.                                                *)

\* Destroying the swapchain leaves no window bound to Vulkan.
LEMMA Destroyed ==
  ASSUME TypeOK
  PROVE  /\ DestroySwapchain \in [Windows -> {"none", "cpu", "vulkan"}]
         /\ \A w \in Windows : DestroySwapchain[w] # "vulkan"
  BY DEF TypeOK, DestroySwapchain

\* What creation leaves is a swapchain on the window it was given, or nothing.
LEMMA Created ==
  ASSUME TypeOK, NEW w \in Windows \union {NoWindow}, NEW flag \in BOOLEAN,
         NEW built \in SUBSET {"live", "outOfDate"},
         CreateSwapchain(w, flag, DestroySwapchain, built)
  PROVE  /\ swap' \in {"none", "live", "outOfDate", "starved"} /\ tainted' \in BOOLEAN
         /\ producer' \in [Windows -> {"none", "cpu", "vulkan"}]
         /\ swap' # "none" => w \in Windows /\ producer'[w] = "vulkan"
         /\ \A v \in Windows : producer'[v] = "vulkan" => v = w /\ swap' # "none"
<1> DEFINE queues == DestroySwapchain
<1>1. /\ queues \in [Windows -> {"none", "cpu", "vulkan"}]
      /\ \A v \in Windows : queues[v] # "vulkan"
  BY Destroyed
<1> HIDE DEF queues
<1>2. CASE swap' = "none" /\ tainted' \in {flag, TRUE} /\ producer' = queues
  BY <1>1, <1>2
<1>3. CASE /\ w # NoWindow /\ swap' \in built /\ tainted' = flag
           /\ producer' = [queues EXCEPT ![w] = "vulkan"]
  <2>1. w \in Windows /\ swap' \in {"live", "outOfDate"}
    BY <1>3
  <2>2. \A v \in Windows : producer'[v] = IF v = w THEN "vulkan" ELSE queues[v]
    BY <1>1, <1>3
  <2>3. producer' \in [Windows -> {"none", "cpu", "vulkan"}]
    BY <1>1, <1>3
  <2>4. QED
    BY <1>1, <1>3, <2>1, <2>2, <2>3
<1>4. QED
  BY <1>2, <1>3 DEF CreateSwapchain, queues

-----------------------------------------------------------------------------
(* Types.                                                                  *)

LEMMA SurfaceInit == Init => TypeOK /\ SwapchainOnWindow
<1> SUFFICES ASSUME Init PROVE TypeOK /\ SwapchainOnWindow
  OBVIOUS
<1>1. /\ producer \in [Windows -> {"none", "cpu", "vulkan"}]
      /\ geometry \in [Windows -> Sizes \union {NoSize}]
      /\ \A w \in Windows : producer[w] = "none"
  BY DEF Init
<1>2. TypeOK
  <2>1. /\ tainted \in BOOLEAN /\ disabled \in BOOLEAN /\ initialized \in BOOLEAN
        /\ npu \in BOOLEAN /\ cpuPost \in BOOLEAN /\ gateOpen \in BOOLEAN /\ tick \in BOOLEAN
    BY Zenon DEF Init
  <2>2. /\ window = NoWindow /\ retired = {} /\ shown = {} /\ locked = NoWindow
        /\ size \in Sizes /\ winGeom = NoSize /\ content = NoContent
        /\ darkCount = 0 /\ 0 \in 0..GateLimit /\ blit = "idle" /\ swap = "none"
    BY DEF Init
  <2>3. QED
    BY <1>1, <2>1, <2>2 DEF TypeOK
<1>3. QED
  BY <1>1, <1>2 DEF Init, SwapchainOnWindow

LEMMA SurfaceStep ==
  ASSUME TypeOK, SwapchainOnWindow, [Next]_vars
  PROVE  TypeOK' /\ SwapchainOnWindow'
<1> USE DEF surfaceVars, queueVars, swapVars, configVars, gateVars, captureVars,
            workVars
<1>1. ASSUME NEW w \in Windows, AttachSurface(w) PROVE TypeOK' /\ SwapchainOnWindow'
  <2>1. /\ swap' \in {"none", "live", "outOfDate", "starved"} /\ tainted' \in BOOLEAN
        /\ producer' \in [Windows -> {"none", "cpu", "vulkan"}]
        /\ swap' # "none" => producer'[w] = "vulkan"
        /\ \A v \in Windows : producer'[v] = "vulkan" => v = w /\ swap' # "none"
    <3>1. CASE CreateSwapchain(w, FALSE, DestroySwapchain, {"live"})
      BY <3>1, Created
    <3>2. CASE swap' = "none" /\ tainted' = FALSE /\ producer' = DestroySwapchain
      BY <3>2, Destroyed
    <3>3. QED
      BY <1>1, <3>1, <3>2 DEF AttachSurface
  <2>2. TypeOK'
    BY <1>1, <2>1 DEF AttachSurface, TypeOK
  <2>3. QED
    BY <1>1, <2>1, <2>2 DEF AttachSurface, SwapchainOnWindow
<1>2. CASE DetachSurface \/ ShutdownLoop
  <2>1. swap' = "none" /\ producer' = DestroySwapchain /\ window' \in {window, NoWindow}
    BY <1>2 DEF DetachSurface, ShutdownLoop
  <2>2. TypeOK'
    BY <1>2, Destroyed DEF DetachSurface, ShutdownLoop, TypeOK
  <2>3. QED
    BY <2>1, <2>2, Destroyed DEF SwapchainOnWindow
<1>3. CASE BlitToSwapchain
  <2>1. /\ BlitBuilt \in SUBSET {"live", "outOfDate"}
        /\ BlitLive \subseteq {"live", "outOfDate", "starved"}
        /\ BlitStarved \subseteq {"outOfDate", "starved"}
    BY DEF BlitBuilt, BlitLive, BlitStarved
  <2>5. shown' \subseteq Windows
    <3>1. CASE swap' \in {"live", "outOfDate"} /\ shown' = shown \union {window}
      <4>1. window \in Windows
        BY <1>3, <3>1 DEF BlitToSwapchain, CreateSwapchain, SwapchainOnWindow, TypeOK
      <4>2. QED
        BY <3>1, <4>1 DEF TypeOK
    <3>2. CASE UNCHANGED shown
      BY <3>2 DEF TypeOK
    <3>3. QED
      BY <1>3, <3>1, <3>2 DEF BlitToSwapchain, PostOrDrop
  <2>2. CASE /\ swap \in {"live", "starved"} /\ swap' \in {"live", "outOfDate", "starved"}
             /\ UNCHANGED <<tainted, producer>>
    BY <1>3, <2>5, <2>2 DEF BlitToSwapchain, TypeOK, SwapchainOnWindow
  <2>3. CASE CreateSwapchain(window, tainted, DestroySwapchain, BlitBuilt)
    <3>1. window \in Windows \union {NoWindow} /\ tainted \in BOOLEAN
      BY DEF TypeOK
    <3>2. /\ swap' \in {"none", "live", "outOfDate", "starved"} /\ tainted' \in BOOLEAN
          /\ producer' \in [Windows -> {"none", "cpu", "vulkan"}]
          /\ swap' # "none" => window \in Windows /\ producer'[window] = "vulkan"
          /\ \A v \in Windows : producer'[v] = "vulkan" => v = window /\ swap' # "none"
      BY <2>1, <2>3, <3>1, Created
    <3>3. TypeOK'
      BY <1>3, <2>5, <3>2 DEF BlitToSwapchain, TypeOK
    <3>4. QED
      BY <1>3, <3>2, <3>3 DEF BlitToSwapchain, SwapchainOnWindow
  <2>4. QED
    BY <1>3, <2>1, <2>2, <2>3 DEF BlitToSwapchain
<1>4. CASE LockWindow
  <2>1. TypeOK'
    BY <1>4 DEF LockWindow, TypeOK, Lockable, PinTaint
  <2>2. \A w \in Windows : producer'[w] = "vulkan" <=> producer[w] = "vulkan"
    BY <1>4 DEF LockWindow, TypeOK, Lockable
  <2>3. UNCHANGED <<window, swap>>
    BY <1>4 DEF LockWindow
  <2>4. QED
    BY <2>1, <2>2, <2>3 DEF SwapchainOnWindow, TypeOK
<1>5. CASE UNCHANGED SwapVars
  <2>1. SwapchainOnWindow'
    BY <1>5 DEF SwapVars, SwapchainOnWindow
  <2>2. ASSUME NEW s \in Sizes, NEW n \in BOOLEAN, NEW c \in BOOLEAN, InitLoop(s, n, c)
        PROVE TypeOK'
    <3>1. initialized' \in BOOLEAN /\ npu' \in BOOLEAN /\ cpuPost' \in BOOLEAN /\ gateOpen' \in BOOLEAN
      BY <2>2, Zenon DEF InitLoop
    <3>2. size' \in Sizes /\ darkCount' \in 0..GateLimit /\ content' = NoContent
      BY <2>2 DEF InitLoop
    <3>3. UNCHANGED <<surfaceVars, queueVars, swapVars, winGeom, tick, workVars, shown>>
      BY <2>2 DEF InitLoop
    <3>4. QED
      BY <3>1, <3>2, <3>3 DEF TypeOK
  <2>3. ASSUME NEW c \in Contents, Capture(c) PROVE TypeOK'
    BY <2>3 DEF Capture, TypeOK
  <2>4. CASE TakeCpuPath \/ PostWindow
    <3>1. /\ blit' \in {"geometry", "idle"} /\ locked' \in Windows \union {NoWindow}
          /\ shown' \subseteq Windows
      BY <2>4 DEF TakeCpuPath, PostWindow, TypeOK
    <3>2. npu' \in BOOLEAN
      BY <2>4, Zenon DEF TakeCpuPath, PostWindow, TypeOK
    <3>3. UNCHANGED <<surfaceVars, queueVars, swapVars, initialized, cpuPost, size,
                      winGeom, gateVars, captureVars>>
      BY <2>4 DEF TakeCpuPath, PostWindow
    <3>4. QED
      BY <2>1, <3>1, <3>2, <3>3 DEF TypeOK
  <2>5. CASE SetGeometry
    BY <2>1, <2>5 DEF SetGeometry, TypeOK
  <2>6. CASE LumaGate
    <3>1. darkCount \in Nat /\ darkCount <= GateLimit
      BY DEF TypeOK
    <3>2. darkCount' \in 0..GateLimit
      BY <2>6, <3>1 DEF LumaGate, ForceOpen
    <3>3. gateOpen' \in BOOLEAN /\ blit' \in {"lock", "idle"}
      BY <2>6 DEF LumaGate, TypeOK
    <3>4. QED
      BY <2>1, <2>6, <3>2, <3>3 DEF LumaGate, TypeOK
  <2>7. CASE UNCHANGED vars
    BY <2>1, <2>7 DEF vars, TypeOK
  <2>8. QED
    BY <1>1, <1>2, <1>3, <1>4, <2>1, <2>2, <2>3, <2>4, <2>5, <2>6, <2>7
       DEF Next, MainThread, Control, Worker
<1>6. QED
  BY <1>1, <1>2, <1>3, <1>4, <1>5
     DEF Next, MainThread, Control, Worker, InitLoop, Capture, TakeCpuPath,
         SetGeometry, LumaGate, PostWindow, SwapVars, vars

-----------------------------------------------------------------------------
(* The theorem.                                                            *)

\* A swapchain lives on the attached window and on no other, whichever of
\* attach, detach, replace, rebuild, failure and shutdown came last.
THEOREM SwapchainStaysOnWindow == Spec => [](TypeOK /\ SwapchainOnWindow)
<1>1. Init => TypeOK /\ SwapchainOnWindow
  BY SurfaceInit
<1>2. (TypeOK /\ SwapchainOnWindow) /\ [Next]_vars => (TypeOK /\ SwapchainOnWindow)'
  BY SurfaceStep
<1>3. QED
  BY <1>1, <1>2, PTL DEF Spec

\* The variables keep their types.
THEOREM SurfaceTypes == Spec => []TypeOK
  BY SwapchainStaysOnWindow, PTL
=============================================================================
