---------------------------- MODULE SwapchainBlit ----------------------------
(***************************************************************************)
(* The GPU side of a blit: swapchain images, acquire semaphores, the       *)
(* command ring of android_vk_session.cpp and the images the blits read.   *)
(*                                                                         *)
(* For a captured frame the worker copies the capture into an input slot   *)
(* and waits for the queue, lets framegen write the outputs and waits for  *)
(* it, then blits the outputs and the slot, each through a swapchain image *)
(* and a ring slot, without waiting for the blits.  The GPU executes what  *)
(* was submitted in order; the presentation engine shows the images in     *)
(* order and hands one back when the next replaces it.                     *)
(*                                                                         *)
(* A blit holds g.mu; here its calls are steps, because the GPU and the    *)
(* presentation engine run in between.                                     *)
(***************************************************************************)
EXTENDS Naturals, Sequences

CONSTANTS
  NumImages,  \* swapchain images
  Outputs,    \* generationCount: multiplier - 1, 1..7 by the preferences
  RingSize,   \* kCommandRingSize
  MaxSkips,   \* bound: blits that fail after their image was acquired
  Env         \* environment events a run enables, a subset of EnvEvents

EnvEvents == {"acquireTimeout", "acquireOutOfDate", "outOfDate", "ringFail",
              "submitFail", "presentThrow", "bypass", "suppress", "newSurface"}

ASSUME ImagesAssumption  == NumImages \in Nat \ {0, 1}
ASSUME OutputsAssumption == Outputs \in Nat \ {0}
ASSUME RingAssumption    == RingSize \in Nat /\ Outputs + 1 <= RingSize
ASSUME SkipsAssumption   == MaxSkips \in Nat
ASSUME EnvAssumption     == Env \subseteq EnvEvents

Images == 1..NumImages
NoImage == 0

\* Acquire semaphores.  Mutant: one per image.
OneSemPerImage == NumImages
NumSems == NumImages + 1
AcquireSems == 0..(NumSems - 1)

VARIABLES
  worker,       \* where the worker is
  slotIdx,      \* presentsDone % 2: the input slot of this frame
  bypass,
  next,         \* which blit of this frame: 1..Outputs, then the slot
  cursor, sem,  \* acquireCursor; per semaphore: clear, pending, signaled
  outOfDate,
  cur,          \* the image, semaphore and ring slot of the blit being made
  ringNext, armed,
  fence,        \* per ring slot: whether its fence is signaled
  queue,        \* submitted blits the GPU has not executed
  taken,        \* images acquired and not yet executed, lost ones included
  ready,        \* executed presents not yet shown
  onScreen,
  skips,        \* blits that failed after their image was acquired
  timedOut      \* history: an acquire has timed out

frameVars  == <<slotIdx, bypass>>
semVars    == <<cursor, sem>>
ringVars   == <<ringNext, armed, fence>>
screenVars == <<ready, onScreen>>
vars == <<worker, frameVars, next, semVars, outOfDate, cur, ringVars, queue,
          taken, screenVars, skips, timedOut>>

Ring == 0..(RingSize - 1)
NoBlit == [image |-> NoImage, sem |-> 0, ring |-> 0]

Ready == {ready[i] : i \in DOMAIN ready}
Free == Images \ (taken \union Ready \union {onScreen})

\* What the current blit reads.
Input(s)  == <<"in", s>>
Output(k) == <<"out", k>>
Source == IF next <= Outputs THEN Output(next) ELSE Input(slotIdx)
InFlight(src) == \E i \in DOMAIN queue : queue[i].src = src

Init ==
  /\ worker = "idle" /\ slotIdx = 0 /\ bypass = FALSE /\ next = 1
  /\ cursor = 0 /\ sem = [s \in AcquireSems |-> "clear"]
  /\ outOfDate = FALSE /\ cur = NoBlit
  /\ ringNext = 0
  /\ armed = [r \in Ring |-> FALSE] /\ fence = [r \in Ring |-> FALSE]
  /\ queue = <<>> /\ taken = {} /\ ready = <<>> /\ onScreen = NoImage
  /\ skips = 0 /\ timedOut = FALSE

-----------------------------------------------------------------------------
(* Worker: the frame.                                                      *)

\* copyAhbImage submits the copy into the slot; the user may have toggled the
\* bypass before this frame.
CopyBegin ==
  /\ worker = "idle"
  /\ worker' = "copying"
  /\ bypass' \in IF "bypass" \in Env THEN BOOLEAN ELSE {FALSE}
  /\ UNCHANGED <<slotIdx, next, semVars, outOfDate, cur, ringVars, queue, taken,
                 screenVars, skips, timedOut>>

\* vkQueueWaitIdle at the end of copyAhbImage.  Mutant: it is not called.
NoWait == TRUE
QueueIdle == queue = <<>>

CopyEnd ==
  /\ worker = "copying" /\ QueueIdle
  /\ IF bypass THEN worker' = "acquire" /\ next' = Outputs + 1
               ELSE worker' = "generating" /\ UNCHANGED next
  /\ UNCHANGED <<frameVars, semVars, outOfDate, cur, ringVars, queue, taken,
                 screenVars, skips, timedOut>>

\* presentContext and waitIdle: framegen has written the outputs.  Suppressed
\* outputs are not blitted; a throw abandons the frame.
Generate ==
  /\ worker = "generating"
  /\ \/ worker' = "acquire" /\ next' = 1
     \/ "suppress" \in Env /\ worker' = "acquire" /\ next' = Outputs + 1
     \/ "presentThrow" \in Env /\ worker' = "idle" /\ UNCHANGED next
  /\ UNCHANGED <<frameVars, semVars, outOfDate, cur, ringVars, queue, taken,
                 screenVars, skips, timedOut>>

\* The blit is over, with or without a present: go on to the next one, or end
\* the frame, which advances the slots unless it was bypassed.
NextBlit ==
  IF next <= Outputs
  THEN worker' = "acquire" /\ next' = next + 1 /\ UNCHANGED frameVars
  ELSE /\ worker' = "idle" /\ next' = 1
       /\ slotIdx' = IF bypass THEN slotIdx ELSE 1 - slotIdx
       /\ UNCHANGED bypass

-----------------------------------------------------------------------------
(* Worker: blitOutputToSwapchain.                                          *)

\* Mutant: the cursor does not wrap.
NextWithoutWrap == cursor + 1
NextSem == (cursor + 1) % NumSems

\* vkAcquireNextImageKHR: an image, whose semaphore the engine signals later.
AcquireImage ==
  /\ worker = "acquire" /\ ~outOfDate
  /\ cursor' = NextSem
  /\ \E i \in Free :
       /\ cur' = [cur EXCEPT !.image = i, !.sem = cursor]
       /\ taken' = taken \union {i}
  /\ sem' = [sem EXCEPT ![cursor] = "pending"]
  /\ worker' = "record"
  /\ UNCHANGED <<frameVars, next, outOfDate, ringVars, queue, screenVars, skips, timedOut>>

\* No image within 500 ms, or a swapchain out of date: the blit is skipped,
\* but its semaphore counts as used.
AcquireFailed ==
  /\ worker = "acquire" /\ ~outOfDate
  /\ \/ "acquireTimeout" \in Env /\ Free = {} /\ timedOut' = TRUE
        /\ UNCHANGED outOfDate
     \/ "acquireOutOfDate" \in Env /\ outOfDate' = TRUE /\ UNCHANGED timedOut
  /\ cursor' = NextSem
  /\ NextBlit
  /\ UNCHANGED <<sem, cur, ringVars, queue, taken, screenVars, skips>>

\* destroySwapchain, which waits for the device, and createSwapchain.  The
\* ring is left as it is.
Rebuild ==
  /\ queue = <<>>
  /\ cursor' = 0 /\ sem' = [s \in AcquireSems |-> "clear"]
  /\ outOfDate' = FALSE
  /\ taken' = {} /\ ready' = <<>> /\ onScreen' = NoImage
  /\ UNCHANGED <<worker, frameVars, next, cur, ringVars, queue, skips, timedOut>>

RebuildOutOfDate == worker = "acquire" /\ outOfDate /\ Rebuild

\* acquireCommandRing waits for the fence of an armed slot, resets the fence
\* and disarms the slot.
\* Mutant: the first use of a slot, never armed, waits as well.
RingSignaled(r) == fence[r]
RingRetired(r) == armed[r] => fence[r]

Record ==
  LET r == ringNext IN
  /\ worker = "record"
  /\ RingRetired(r)
  /\ ringNext' = (r + 1) % RingSize
  /\ fence' = [fence EXCEPT ![r] = IF armed[r] THEN FALSE ELSE @]
  /\ armed' = [armed EXCEPT ![r] = FALSE]
  /\ cur' = [cur EXCEPT !.ring = r]
  /\ worker' = "submit"
  /\ UNCHANGED <<frameVars, next, semVars, outOfDate, queue, taken, screenVars,
                 skips, timedOut>>

\* acquireCommandRing gives up, before or after it disarmed the slot.  The
\* acquired image is neither presented nor released.
RecordFailed ==
  LET r == ringNext IN
  /\ worker = "record" /\ "ringFail" \in Env /\ skips < MaxSkips
  /\ skips' = skips + 1
  /\ ringNext' = (r + 1) % RingSize
  /\ \/ UNCHANGED <<armed, fence>>
     \/ /\ RingRetired(r)
        /\ fence' = [fence EXCEPT ![r] = IF armed[r] THEN FALSE ELSE @]
        /\ armed' = [armed EXCEPT ![r] = FALSE]
  /\ NextBlit
  /\ UNCHANGED <<semVars, outOfDate, cur, queue, taken, screenVars,
                 timedOut>>

\* The slot is armed by hand after the submit.  Mutant: it is not.
NotArmed == UNCHANGED armed
ArmFence == armed' = [armed EXCEPT ![cur.ring] = TRUE]

\* vkQueueSubmit waiting on the acquire semaphore, and vkQueuePresentKHR.
SubmitPresent ==
  /\ worker = "submit"
  /\ queue' = Append(queue, [image |-> cur.image, sem |-> cur.sem,
                             ring |-> cur.ring, src |-> Source])
  /\ ArmFence
  /\ outOfDate' \in IF "outOfDate" \in Env THEN BOOLEAN ELSE {FALSE}
  /\ NextBlit
  /\ UNCHANGED <<semVars, cur, ringNext, fence, taken, screenVars, skips, timedOut>>

SubmitFailed ==
  /\ worker = "submit" /\ "submitFail" \in Env /\ skips < MaxSkips
  /\ skips' = skips + 1
  /\ NextBlit
  /\ UNCHANGED <<semVars, outOfDate, cur, ringVars, queue, taken,
                 screenVars, timedOut>>

-----------------------------------------------------------------------------
(* External: the GPU queue, the presentation engine, the main thread.      *)

\* The engine is done with an acquired image.
EngineRelease(s) ==
  /\ sem[s] = "pending"
  /\ sem' = [sem EXCEPT ![s] = "signaled"]
  /\ UNCHANGED <<worker, frameVars, next, cursor, outOfDate, cur, ringVars,
                 queue, taken, screenVars, skips, timedOut>>

\* The oldest submitted blit executes: its wait consumes the semaphore, its
\* fence is signaled and its image can be shown.
GpuExecute ==
  LET b == Head(queue) IN
  /\ queue # <<>> /\ sem[b.sem] = "signaled"
  /\ queue' = Tail(queue)
  /\ sem' = [sem EXCEPT ![b.sem] = "clear"]
  /\ fence' = [fence EXCEPT ![b.ring] = TRUE]
  /\ taken' = taken \ {b.image}
  /\ ready' = Append(ready, b.image)
  /\ UNCHANGED <<worker, frameVars, next, cursor, outOfDate, cur, ringNext,
                 armed, onScreen, skips, timedOut>>

Show ==
  /\ ready # <<>>
  /\ onScreen' = Head(ready) /\ ready' = Tail(ready)
  /\ UNCHANGED <<worker, frameVars, next, semVars, outOfDate, cur, ringVars,
                 queue, taken, skips, timedOut>>

\* setOutputSurface on another thread, between two blits: g.mu is free.
NewSurface ==
  /\ "newSurface" \in Env /\ worker \notin {"record", "submit"}
  /\ taken \union Ready \union {onScreen} # {NoImage}
  /\ Rebuild

Frame == CopyBegin \/ CopyEnd \/ Generate
Blit == AcquireImage \/ AcquireFailed \/ RebuildOutOfDate \/ Record
        \/ RecordFailed \/ SubmitPresent \/ SubmitFailed
External == GpuExecute \/ Show \/ NewSurface \/ \E s \in AcquireSems : EngineRelease(s)

Next == Frame \/ Blit \/ External

Spec == Init /\ [][Next]_vars

\* Captures keep coming, the worker runs, the GPU and the engine make progress.
FairSpec ==
  /\ Spec
  /\ WF_vars(Frame \/ Blit) /\ WF_vars(GpuExecute) /\ WF_vars(Show)
  /\ \A s \in AcquireSems : WF_vars(EngineRelease(s))

-----------------------------------------------------------------------------
(* Correctness.                                                            *)

Blits == [image : Images, sem : AcquireSems, ring : Ring,
          src : {Output(k) : k \in 1..Outputs} \union {Input(s) : s \in 0..1}]

TypeOK ==
  /\ worker \in {"idle", "copying", "generating", "acquire", "record", "submit"}
  /\ slotIdx \in 0..1 /\ bypass \in BOOLEAN /\ next \in 1..(Outputs + 1)
  /\ cursor \in AcquireSems
  /\ sem \in [AcquireSems -> {"clear", "pending", "signaled"}]
  /\ outOfDate \in BOOLEAN
  /\ cur \in [image : Images \union {NoImage}, sem : AcquireSems, ring : Ring]
  /\ ringNext \in Ring /\ armed \in [Ring -> BOOLEAN] /\ fence \in [Ring -> BOOLEAN]
  /\ queue \in Seq(Blits) /\ taken \subseteq Images
  /\ ready \in Seq(Images) /\ onScreen \in Images \union {NoImage}
  /\ skips \in 0..MaxSkips /\ timedOut \in BOOLEAN

\* A command buffer is recorded, and its fence submitted, only when the GPU is
\* through with their previous use, through skipped blits and rebuilt
\* swapchains, which leave the ring where it was.
RingSlotRetired ==
  worker = "submit" =>
    /\ ~fence[cur.ring]
    /\ \A i \in DOMAIN queue : queue[i].ring # cur.ring

\* One semaphore more than images is enough: the one the next acquire uses is
\* neither signaled nor awaited by the queue, through rebuilds, suppressed and
\* abandoned frames.  Does not hold once an acquire timed out or an acquired
\* image was not presented: README, section 6.
AcquireSemFree ==
  (worker = "acquire" /\ ~outOfDate /\ skips = 0 /\ ~timedOut) => sem[cursor] = "clear"

\* Between two frames the slot the next copy goes to is read by no queued blit,
\* however many blits were skipped, suppressed or abandoned before; except after
\* a bypassed frame, which does not advance the slots, and then by its own blit
\* only, the single one queued.  The outputs are read by none while framegen
\* writes them.
SourceStable ==
  /\ worker = "idle" =>
       \A i \in DOMAIN queue : queue[i].src = Input(slotIdx) => bypass /\ Len(queue) = 1
  /\ worker = "generating" => \A k \in 1..Outputs : ~InFlight(Output(k))

\* The slot the next copy goes to is read by no queued blit.  Does not hold in
\* bypass, whose frames all use one slot: README, section 6.
CopyTargetFree == worker = "idle" => ~InFlight(Input(slotIdx))

\* The overlay keeps showing new images, once presents stop throwing and the
\* swapchain stays up to date: no skipped blit costs more than its frame.
OverlayAdvances ==
  <>[][/\ ~NewSurface /\ ~outOfDate'
       /\ ~(worker = "generating" /\ worker' = "idle")]_vars
    => []<><<Show>>_vars
=============================================================================
