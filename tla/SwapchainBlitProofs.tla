------------------------ MODULE SwapchainBlitProofs ------------------------
(***************************************************************************)
(* Proofs about SwapchainBlit for every number of images and outputs,      *)
(* every length of the command ring and set of events.                     *)
(***************************************************************************)
EXTENDS SwapchainBlit, FiniteSetTheorems, TLAPS

USE ImagesAssumption, OutputsAssumption, RingAssumption, SkipsAssumption
    DEF frameVars, semVars, ringVars, screenVars

\* The worker is between the acquire of a frame's first blit and its last.
Blitting == worker \in {"acquire", "record", "submit"}

\* A blit that goes on has acquired an image, of a swapchain not yet known to
\* be out of date.
CurInv == worker \in {"record", "submit"} => cur.image \in Images /\ ~outOfDate

\* A fence is unsignaled and its slot armed while its blit is queued; a slot
\* that is not armed has no blit in the queue and no signaled fence.
RingInv ==
  /\ \A i \in DOMAIN queue : armed[queue[i].ring] /\ ~fence[queue[i].ring]
  /\ \A i, j \in DOMAIN queue : queue[i].ring = queue[j].ring => i = j
  /\ \A r \in Ring : ~armed[r] => ~fence[r]
  /\ worker = "submit" => ~armed[cur.ring]

\* The queue is empty while framegen writes, and during the blits of a frame it
\* reads no other input slot than the frame's.
SourceInv ==
  /\ worker = "generating" => queue = <<>>
  /\ Blitting => \A i \in DOMAIN queue : queue[i].src # Input(1 - slotIdx)
  /\ worker = "idle" /\ ~bypass => \A i \in DOMAIN queue : queue[i].src # Input(slotIdx)

\* A bypassed frame begins its blit, of the slot, on an empty queue, and ends
\* with at most that blit in it.
BypassInv ==
  bypass =>
    /\ worker # "generating"
    /\ Blitting => queue = <<>> /\ next = Outputs + 1
    /\ worker = "idle" => Len(queue) <= 1

\* The blit being made has an image, and the blits whose image is not back.
Held == worker \in {"record", "submit"}
Underway == Len(queue) + (IF Held THEN 1 ELSE 0)

\* Each of them has an image of its own; unless a blit lost its image, there
\* are no other images taken.
ImageInv ==
  /\ \A i \in DOMAIN queue : queue[i].image \in taken
  /\ \A i, j \in DOMAIN queue : queue[i].image = queue[j].image => i = j
  /\ Held => cur.image \in taken /\ \A i \in DOMAIN queue : queue[i].image # cur.image
  /\ skips = 0 => Cardinality(taken) = Underway

\* The semaphore of the k-th acquire before the next.
Back(k) == IF k <= cursor THEN cursor - k ELSE (cursor + NumSems) - k

\* While each acquire gave an image, the blits under way use the semaphores
\* before the cursor, the youngest the last, and no other semaphore is in use.
SemInv ==
  skips = 0 /\ ~timedOut /\ ~outOfDate =>
    /\ \A i \in DOMAIN queue : queue[i].sem = Back((Underway + 1) - i)
    /\ Held => cur.sem = Back(1)
    /\ \A s \in AcquireSems : sem[s] # "clear" =>
         \/ \E i \in DOMAIN queue : queue[i].sem = s
         \/ Held /\ cur.sem = s

-----------------------------------------------------------------------------
(* Queues and indices.                                                     *)

LEMMA AppendParts ==
  ASSUME NEW S, NEW s \in Seq(S), NEW e \in S
  PROVE  /\ Append(s, e) \in Seq(S)
         /\ DOMAIN Append(s, e) = DOMAIN s \union {Len(s) + 1}
         /\ Len(s) + 1 \notin DOMAIN s
         /\ Append(s, e)[Len(s) + 1] = e
         /\ \A i \in DOMAIN s : Append(s, e)[i] = s[i]
  OBVIOUS

LEMMA TailParts ==
  ASSUME NEW S, NEW s \in Seq(S), s # <<>>
  PROVE  /\ Tail(s) \in Seq(S) /\ Head(s) \in S /\ Head(s) = s[1] /\ 1 \in DOMAIN s
         /\ \A i \in DOMAIN Tail(s) : /\ i + 1 \in DOMAIN s /\ i + 1 # 1
                                      /\ Tail(s)[i] = s[i + 1]
         /\ DOMAIN Tail(s) \subseteq Nat
  OBVIOUS

LEMMA Modulo ==
  ASSUME NEW n \in Nat \ {0}, NEW i \in 0..(n - 1)
  PROVE  (i + 1) % n \in 0..(n - 1)
<1>1. CASE i + 1 = n
  BY <1>1
<1>2. CASE i + 1 < n
  BY <1>2
<1>3. QED
  BY <1>1, <1>2

\* Where the ring and the semaphores go next.
LEMMA NextIndices ==
  ASSUME TypeOK
  PROVE  NextSem \in AcquireSems /\ 0 \in AcquireSems /\ (ringNext + 1) % RingSize \in Ring
  BY Modulo DEF TypeOK, NextSem, NumSems, AcquireSems, Ring

\* What a blit reads.
LEMMA SourceType ==
  ASSUME TypeOK
  PROVE  /\ Source \in {Output(k) : k \in 1..Outputs} \union {Input(s) : s \in 0..1}
         /\ Source # Input(1 - slotIdx)
<1>1. CASE next <= Outputs
  <2>1. next \in 1..Outputs /\ Source = Output(next)
    BY <1>1 DEF TypeOK, Source
  <2>2. QED
    BY <2>1 DEF Output, Input
<1>2. CASE ~(next <= Outputs)
  <2>1. slotIdx \in 0..1 /\ Source = Input(slotIdx) /\ slotIdx # 1 - slotIdx
    BY <1>2 DEF TypeOK, Source
  <2>2. QED
    BY <2>1 DEF Input
<1>3. QED
  BY <1>1, <1>2

\* What a submit appends to the queue, and what is there already.
LEMMA SubmittedBlit ==
  ASSUME TypeOK, CurInv, worker = "submit"
  PROVE  [image |-> cur.image, sem |-> cur.sem, ring |-> cur.ring, src |-> Source] \in Blits
<1>1. cur.image \in Images
  BY DEF CurInv
<1>2. cur.sem \in AcquireSems /\ cur.ring \in Ring
  BY DEF TypeOK
<1>3. QED
  BY <1>1, <1>2, SourceType DEF Blits

LEMMA QueuedRings == ASSUME TypeOK PROVE \A i \in DOMAIN queue : queue[i].ring \in Ring
<1> SUFFICES ASSUME NEW i \in DOMAIN queue PROVE queue[i].ring \in Ring
  OBVIOUS
<1>1. queue[i] \in Blits
  BY DEF TypeOK
<1>2. QED
  BY <1>1 DEF Blits

-----------------------------------------------------------------------------
(* Steps that many actions share.                                          *)

\* The end of a blit: worker, next, slot and bypass keep their types, and the
\* next frame takes the slot this one did not use.
LEMMA BlitEnds ==
  ASSUME TypeOK, NextBlit
  PROVE  /\ worker' \in {"acquire", "idle"} /\ next' \in 1..(Outputs + 1)
         /\ slotIdx' \in 0..1 /\ bypass' \in BOOLEAN
         /\ worker' = "acquire" => slotIdx' = slotIdx
         /\ worker' = "idle" /\ ~bypass' => slotIdx' = 1 - slotIdx
<1>1. CASE next <= Outputs
  BY <1>1 DEF TypeOK, NextBlit
<1>2. CASE ~(next <= Outputs)
  BY <1>2 DEF TypeOK, NextBlit
<1>3. QED
  BY <1>1, <1>2

LEMMA BlitInit == Init => TypeOK /\ CurInv /\ RingInv /\ SourceInv /\ BypassInv
<1> SUFFICES ASSUME Init PROVE TypeOK /\ CurInv /\ RingInv /\ SourceInv /\ BypassInv
  OBVIOUS
<1>1. 0 \in Ring /\ 0 \in AcquireSems
  BY DEF Ring, AcquireSems, NumSems
<1>2. bypass \in BOOLEAN /\ outOfDate \in BOOLEAN /\ timedOut \in BOOLEAN
  BY Zenon DEF Init
<1>3. cur \in [image : Images \union {NoImage}, sem : AcquireSems, ring : Ring]
  BY <1>1 DEF Init, NoBlit
<1>4. armed \in [Ring -> BOOLEAN] /\ fence \in [Ring -> BOOLEAN]
      /\ \A r \in Ring : ~armed[r] /\ ~fence[r]
  BY DEF Init
<1>5. TypeOK
  BY <1>1, <1>2, <1>3, <1>4 DEF Init, TypeOK
<1>6. QED
  BY <1>4, <1>5 DEF Init, CurInv, RingInv, SourceInv, BypassInv, Blitting
-----------------------------------------------------------------------------
(* Types.                                                                  *)

LEMMA TypeStep == ASSUME TypeOK, CurInv, [Next]_vars PROVE TypeOK'
<1>1. CASE CopyBegin
  BY <1>1 DEF CopyBegin, TypeOK
<1>2. CASE CopyEnd
  BY <1>2 DEF CopyEnd, TypeOK
<1>3. CASE Generate
  BY <1>3 DEF Generate, TypeOK
<1>4. CASE AcquireImage
  <2>1. PICK i \in Free : /\ cur' = [cur EXCEPT !.image = i, !.sem = cursor]
                          /\ taken' = taken \union {i}
    BY <1>4 DEF AcquireImage
  <2>2. i \in Images
    BY DEF Free
  <2>3. cur' \in [image : Images \union {NoImage}, sem : AcquireSems, ring : Ring]
        /\ taken' \subseteq Images
    BY <2>1, <2>2 DEF TypeOK
  <2>4. cursor' \in AcquireSems /\ sem' \in [AcquireSems -> {"clear", "pending", "signaled"}]
    BY <1>4, NextIndices DEF AcquireImage, TypeOK
  <2>5. QED
    BY <1>4, <2>3, <2>4 DEF AcquireImage, TypeOK
<1>5. CASE AcquireFailed
  <2>1. cursor' \in AcquireSems /\ timedOut' \in BOOLEAN /\ outOfDate' \in BOOLEAN
    BY <1>5, NextIndices DEF AcquireFailed, TypeOK
  <2>2. QED
    BY <1>5, <2>1, BlitEnds DEF AcquireFailed, TypeOK
<1>6. CASE Rebuild
  <2>1. cursor' \in AcquireSems /\ sem' \in [AcquireSems -> {"clear", "pending", "signaled"}]
    BY <1>6, NextIndices DEF Rebuild
  <2>2. taken' \subseteq Images /\ onScreen' \in Images \union {NoImage} /\ outOfDate' \in BOOLEAN
    BY <1>6 DEF Rebuild
  <2>3. ready' = <<>> /\ <<>> \in Seq(Images)
    BY <1>6 DEF Rebuild
  <2>4. QED
    BY <1>6, <2>1, <2>2, <2>3 DEF Rebuild, TypeOK
<1>7. CASE Record
  <2>1. ringNext' \in Ring /\ ringNext \in Ring
    BY <1>7, NextIndices DEF Record, TypeOK
  <2>2. /\ fence' \in [Ring -> BOOLEAN] /\ armed' \in [Ring -> BOOLEAN]
        /\ cur' \in [image : Images \union {NoImage}, sem : AcquireSems, ring : Ring]
    BY <1>7, <2>1 DEF Record, TypeOK
  <2>3. QED
    BY <1>7, <2>1, <2>2 DEF Record, TypeOK
<1>8. CASE RecordFailed
  <2>1. ringNext' \in Ring /\ ringNext \in Ring /\ skips' \in 0..MaxSkips
    BY <1>8, NextIndices DEF RecordFailed, TypeOK
  <2>2. fence' \in [Ring -> BOOLEAN] /\ armed' \in [Ring -> BOOLEAN]
    BY <1>8, <2>1 DEF RecordFailed, TypeOK
  <2>3. QED
    BY <1>8, <2>1, <2>2, BlitEnds DEF RecordFailed, TypeOK
<1>9. CASE SubmitPresent
  <2> DEFINE b == [image |-> cur.image, sem |-> cur.sem, ring |-> cur.ring, src |-> Source]
  <2>1. b \in Blits
    BY <1>9, SubmittedBlit DEF SubmitPresent
  <2>2. queue' \in Seq(Blits)
    BY <1>9, <2>1, AppendParts DEF SubmitPresent, TypeOK
  <2>3. armed' \in [Ring -> BOOLEAN] /\ outOfDate' \in BOOLEAN
    BY <1>9 DEF SubmitPresent, ArmFence, TypeOK
  <2>4. QED
    BY <1>9, <2>2, <2>3, BlitEnds DEF SubmitPresent, TypeOK
<1>10. CASE SubmitFailed
  <2>1. skips' \in 0..MaxSkips
    BY <1>10 DEF SubmitFailed, TypeOK
  <2>2. QED
    BY <1>10, <2>1, BlitEnds DEF SubmitFailed, TypeOK
<1>11. CASE GpuExecute
  <2>1. Tail(queue) \in Seq(Blits) /\ Head(queue) \in Blits
    BY <1>11, TailParts DEF GpuExecute, TypeOK
  <2>2. Head(queue).image \in Images
    BY <2>1 DEF Blits
  <2>3. ready' \in Seq(Images)
    BY <1>11, <2>2, AppendParts DEF GpuExecute, TypeOK
  <2>4. /\ sem' \in [AcquireSems -> {"clear", "pending", "signaled"}]
        /\ fence' \in [Ring -> BOOLEAN] /\ taken' \subseteq Images
    BY <1>11, <2>1 DEF GpuExecute, TypeOK
  <2>5. QED
    BY <1>11, <2>1, <2>3, <2>4 DEF GpuExecute, TypeOK
<1>12. CASE Show
  BY <1>12, TailParts DEF Show, TypeOK
<1>13. ASSUME NEW s \in AcquireSems, EngineRelease(s) PROVE TypeOK'
  BY <1>13 DEF EngineRelease, TypeOK
<1>14. CASE UNCHANGED vars
  BY <1>14 DEF vars, TypeOK
<1>15. QED
  BY <1>1, <1>2, <1>3, <1>4, <1>5, <1>6, <1>7, <1>8, <1>9, <1>10, <1>11, <1>12, <1>13, <1>14
     DEF Next, Frame, Blit, External, RebuildOutOfDate, NewSurface

LEMMA CurStep == ASSUME TypeOK, CurInv, [Next]_vars PROVE CurInv'
<1>1. CASE AcquireImage
  BY <1>1 DEF AcquireImage, Free, TypeOK, CurInv
<1>2. CASE Record
  BY <1>2 DEF Record, TypeOK, CurInv
<1>3. CASE AcquireFailed \/ RecordFailed \/ SubmitPresent \/ SubmitFailed
  BY <1>3, BlitEnds DEF AcquireFailed, RecordFailed, SubmitPresent, SubmitFailed, CurInv
<1>4. CASE Frame
  BY <1>4 DEF Frame, CopyBegin, CopyEnd, Generate, CurInv
<1>5. CASE Rebuild \/ External \/ UNCHANGED vars
  BY <1>5 DEF External, NewSurface, Rebuild, GpuExecute, Show, EngineRelease, vars, CurInv
<1>6. QED
  BY <1>1, <1>2, <1>3, <1>4, <1>5 DEF Next, Blit, RebuildOutOfDate

-----------------------------------------------------------------------------
(* The ring.                                                               *)

\* The slot is free for its next use.
LEMMA SlotRetired ==
  ASSUME TypeOK, RingInv, NEW r \in Ring, RingRetired(r),
         fence' = [fence EXCEPT ![r] = IF armed[r] THEN FALSE ELSE @],
         armed' = [armed EXCEPT ![r] = FALSE], UNCHANGED queue
  PROVE  /\ \A i \in DOMAIN queue' : armed'[queue'[i].ring] /\ ~fence'[queue'[i].ring]
         /\ \A q \in Ring : ~armed'[q] => ~fence'[q]
         /\ ~armed'[r]
<1>1. \A i \in DOMAIN queue : queue[i].ring \in Ring
  BY QueuedRings
<1>2. \A i \in DOMAIN queue : queue[i].ring # r
  BY DEF RingInv, RingRetired
<1>3. /\ \A q \in Ring : armed'[q] = (q # r /\ armed[q])
      /\ \A q \in Ring \ {r} : fence'[q] = fence[q]
      /\ ~fence'[r]
  BY DEF TypeOK, RingInv
<1>4. QED
  BY <1>1, <1>2, <1>3 DEF RingInv

LEMMA RingStep == ASSUME TypeOK, CurInv, RingInv, [Next]_vars PROVE RingInv'
<1>1. CASE UNCHANGED <<ringVars, queue>> /\ worker' # "submit"
  BY <1>1 DEF RingInv
<1>2. CASE Rebuild
  BY <1>2 DEF Rebuild, RingInv
<1>3. CASE Record
  <2>1. ringNext \in Ring
    BY DEF TypeOK
  <2>2. cur'.ring = ringNext
    BY <1>3 DEF Record, TypeOK
  <2>3. QED
    BY <1>3, <2>1, <2>2, SlotRetired DEF Record, RingInv
<1>4. CASE RecordFailed
  <2>1. ringNext \in Ring /\ worker' # "submit"
    BY <1>4, BlitEnds DEF RecordFailed, TypeOK
  <2>2. CASE UNCHANGED <<armed, fence>>
    BY <1>4, <2>1, <2>2 DEF RecordFailed, RingInv
  <2>3. CASE ~UNCHANGED <<armed, fence>>
    BY <1>4, <2>1, <2>3, SlotRetired DEF RecordFailed, RingInv
  <2>4. QED
    BY <2>2, <2>3
<1>5. CASE SubmitPresent
  <2> DEFINE b == [image |-> cur.image, sem |-> cur.sem, ring |-> cur.ring, src |-> Source]
  <2> DEFINE n == Len(queue) + 1
  <2>1. b \in Blits /\ b.ring = cur.ring /\ cur.ring \in Ring
    BY <1>5, SubmittedBlit DEF SubmitPresent, TypeOK
  <2>2. ~armed[cur.ring] /\ ~fence[cur.ring] /\ \A i \in DOMAIN queue : queue[i].ring # cur.ring
    BY <1>5, <2>1 DEF SubmitPresent, RingInv
  <2>3. /\ DOMAIN queue' = DOMAIN queue \union {n} /\ n \notin DOMAIN queue
        /\ queue'[n] = b /\ \A i \in DOMAIN queue : queue'[i] = queue[i]
    <3> HIDE DEF b
    <3>1. queue \in Seq(Blits) /\ b \in Blits /\ queue' = Append(queue, b)
      BY <1>5, <2>1 DEF SubmitPresent, TypeOK, b
    <3>2. QED
      BY <3>1, AppendParts
  <2>4. /\ \A r \in Ring : armed'[r] = (armed[r] \/ r = cur.ring)
        /\ fence' = fence /\ worker' # "submit"
    BY <1>5, <2>1, BlitEnds DEF SubmitPresent, ArmFence, TypeOK
  <2>5. \A i \in DOMAIN queue : queue[i].ring \in Ring
    BY QueuedRings
  <2> HIDE DEF b, n
  <2>6. \A i \in DOMAIN queue' : armed'[queue'[i].ring] /\ ~fence'[queue'[i].ring]
    BY <2>1, <2>2, <2>3, <2>4, <2>5 DEF RingInv
  <2>7. \A i, j \in DOMAIN queue' : queue'[i].ring = queue'[j].ring => i = j
    BY <2>1, <2>2, <2>3 DEF RingInv
  <2>8. QED
    BY <2>4, <2>6, <2>7 DEF RingInv
<1>6. CASE GpuExecute
  <2> DEFINE r == Head(queue).ring
  <2>1. /\ Head(queue) = queue[1] /\ 1 \in DOMAIN queue /\ r \in Ring
        /\ \A i \in DOMAIN queue' : i + 1 \in DOMAIN queue /\ i + 1 # 1 /\ queue'[i] = queue[i + 1]
        /\ DOMAIN queue' \subseteq Nat
    <3>1. queue \in Seq(Blits) /\ queue # <<>> /\ queue' = Tail(queue)
      BY <1>6 DEF GpuExecute, TypeOK
    <3>2. Head(queue) \in Blits
      BY <3>1, TailParts
    <3>3. r \in Ring
      BY <3>2 DEF Blits
    <3>4. QED
      BY <3>1, <3>3, TailParts
  <2>2. \A i \in DOMAIN queue' : queue'[i].ring # r
    BY <2>1 DEF RingInv
  <2>3. armed[r] /\ UNCHANGED <<armed, worker, cur>>
    BY <1>6, <2>1 DEF RingInv, GpuExecute
  <2>4. \A q : q # r => fence'[q] = fence[q]
    BY <1>6 DEF GpuExecute, TypeOK
  <2> HIDE DEF r
  <2>5. \A i \in DOMAIN queue' : armed'[queue'[i].ring] /\ ~fence'[queue'[i].ring]
    BY <2>1, <2>2, <2>3, <2>4 DEF RingInv
  <2>6. \A i, j \in DOMAIN queue' : queue'[i].ring = queue'[j].ring => i = j
    <3> SUFFICES ASSUME NEW i \in DOMAIN queue', NEW j \in DOMAIN queue',
                        queue'[i].ring = queue'[j].ring
                 PROVE  i = j
      OBVIOUS
    <3>1. i + 1 = j + 1 /\ i \in Nat /\ j \in Nat
      BY <2>1 DEF RingInv
    <3>2. QED
      BY <3>1
  <2>7. \A q \in Ring : ~armed'[q] => ~fence'[q]
    BY <2>3, <2>4 DEF RingInv
  <2>8. QED
    BY <2>3, <2>5, <2>6, <2>7 DEF RingInv
<1>7. CASE Show \/ (\E s \in AcquireSems : EngineRelease(s)) \/ UNCHANGED vars
  BY <1>7 DEF Show, EngineRelease, vars, RingInv
<1>8. CASE AcquireFailed \/ SubmitFailed
  <2>1. worker' # "submit"
    BY <1>8, BlitEnds DEF AcquireFailed, SubmitFailed
  <2>2. QED
    BY <1>1, <1>8, <2>1 DEF AcquireFailed, SubmitFailed
<1>9. CASE Frame \/ AcquireImage
  BY <1>1, <1>9 DEF Frame, CopyBegin, CopyEnd, Generate, AcquireImage
<1>10. QED
  BY <1>2, <1>3, <1>4, <1>5, <1>6, <1>7, <1>8, <1>9
     DEF Next, Blit, External, RebuildOutOfDate, NewSurface

-----------------------------------------------------------------------------
(* The images the blits read.                                              *)

LEMMA SourceStep == ASSUME TypeOK, CurInv, SourceInv, [Next]_vars PROVE SourceInv'
<1>1. CASE Frame
  <2>1. CASE CopyBegin
    BY <2>1 DEF CopyBegin, SourceInv, Blitting
  <2>2. CASE CopyEnd
    <3>1. queue' = <<>>
      BY <2>2 DEF CopyEnd, QueueIdle
    <3>2. QED
      BY <3>1 DEF SourceInv
  <2>3. CASE Generate
    <3>1. queue' = <<>>
      BY <2>3 DEF Generate, SourceInv
    <3>2. QED
      BY <3>1 DEF SourceInv
  <2>4. QED
    BY <1>1, <2>1, <2>2, <2>3 DEF Frame
<1>2. CASE Rebuild
  BY <1>2 DEF Rebuild, SourceInv
<1>3. CASE AcquireImage \/ Record
  BY <1>3 DEF AcquireImage, Record, SourceInv, Blitting
<1>4. CASE NextBlit /\ Blitting /\ UNCHANGED queue
  BY <1>4, BlitEnds DEF SourceInv, Blitting
<1>5. CASE SubmitPresent
  <2> DEFINE b == [image |-> cur.image, sem |-> cur.sem, ring |-> cur.ring, src |-> Source]
  <2>1. b \in Blits /\ b.src = Source
    BY <1>5, SubmittedBlit DEF SubmitPresent
  <2>2. \A i \in DOMAIN queue' : \/ i \in DOMAIN queue /\ queue'[i] = queue[i]
                                 \/ queue'[i] = b
    <3> HIDE DEF b
    <3>1. queue \in Seq(Blits) /\ b \in Blits /\ queue' = Append(queue, b)
      BY <1>5, <2>1 DEF SubmitPresent, TypeOK, b
    <3>2. QED
      BY <3>1, AppendParts
  <2> HIDE DEF b
  <2>3. \A i \in DOMAIN queue' : queue'[i].src # Input(1 - slotIdx)
    BY <1>5, <2>1, <2>2, SourceType DEF SubmitPresent, SourceInv, Blitting
  <2>4. NextBlit
    BY <1>5 DEF SubmitPresent
  <2>5. QED
    BY <2>3, <2>4, BlitEnds DEF SourceInv, Blitting
<1>6. CASE GpuExecute
  <2>1. \A i \in DOMAIN queue' : i + 1 \in DOMAIN queue /\ queue'[i] = queue[i + 1]
    BY <1>6, TailParts DEF GpuExecute, TypeOK
  <2>2. queue # <<>> /\ UNCHANGED <<worker, slotIdx, bypass>>
    BY <1>6 DEF GpuExecute
  <2>3. QED
    BY <2>1, <2>2 DEF SourceInv, Blitting
<1>7. CASE Show \/ (\E s \in AcquireSems : EngineRelease(s)) \/ UNCHANGED vars
  BY <1>7 DEF Show, EngineRelease, vars, SourceInv, Blitting
<1>8. CASE AcquireFailed \/ RecordFailed \/ SubmitFailed
  BY <1>4, <1>8 DEF AcquireFailed, RecordFailed, SubmitFailed, Blitting
<1>9. QED
  BY <1>1, <1>2, <1>3, <1>5, <1>6, <1>7, <1>8
     DEF Next, Blit, External, RebuildOutOfDate, NewSurface

LEMMA BypassStep == ASSUME TypeOK, BypassInv, [Next]_vars PROVE BypassInv'
<1>1. CASE Frame
  BY <1>1 DEF Frame, CopyBegin, CopyEnd, Generate, QueueIdle, BypassInv, Blitting
<1>2. CASE Rebuild
  BY <1>2 DEF Rebuild, BypassInv, Blitting
<1>3. CASE AcquireImage \/ Record
  BY <1>3 DEF AcquireImage, Record, BypassInv, Blitting
<1>4. ASSUME Blitting, NextBlit, Len(queue') <= Len(queue) + 1
      PROVE  BypassInv'
  <2>1. CASE bypass
    <3>1. queue = <<>> /\ next = Outputs + 1
      BY <1>4, <2>1 DEF BypassInv
    <3>2. worker' = "idle"
      BY <1>4, <3>1, OutputsAssumption DEF NextBlit
    <3>3. Len(queue') <= 1
      BY <1>4, <3>1
    <3>4. QED
      BY <3>2, <3>3 DEF BypassInv, Blitting
  <2>2. CASE ~bypass
    BY <1>4, <2>2 DEF NextBlit, BypassInv, TypeOK
  <2>3. QED
    BY <2>1, <2>2
<1>5. CASE SubmitPresent
  <2>1. Len(queue') = Len(queue) + 1
    BY <1>5 DEF SubmitPresent, TypeOK
  <2>2. QED
    BY <1>4, <1>5, <2>1 DEF SubmitPresent, Blitting
<1>6. CASE GpuExecute
  <2>1. queue # <<>> /\ queue' = Tail(queue) /\ UNCHANGED <<worker, bypass, next>>
    BY <1>6 DEF GpuExecute
  <2>2. Len(queue') <= Len(queue)
    BY <2>1 DEF TypeOK
  <2>3. QED
    BY <2>1, <2>2 DEF BypassInv, Blitting, TypeOK
<1>7. CASE Show \/ (\E s \in AcquireSems : EngineRelease(s)) \/ UNCHANGED vars
  BY <1>7 DEF Show, EngineRelease, vars, BypassInv, Blitting
<1>8. CASE AcquireFailed \/ RecordFailed \/ SubmitFailed
  <2>1. UNCHANGED queue /\ NextBlit /\ Blitting
    BY <1>8 DEF AcquireFailed, RecordFailed, SubmitFailed, Blitting
  <2>2. Len(queue) \in Nat
    BY DEF TypeOK
  <2>3. Len(queue') <= Len(queue) + 1
    BY <2>1, <2>2
  <2>4. QED
    BY <1>4, <2>1, <2>3
<1>9. QED
  BY <1>1, <1>2, <1>3, <1>5, <1>6, <1>7, <1>8
     DEF Next, Blit, External, RebuildOutOfDate, NewSurface

-----------------------------------------------------------------------------
(* Images and semaphores.                                                  *)

\* What is underway does not exceed the images.
LEMMA TakenBounded ==
  ASSUME TypeOK
  PROVE  /\ IsFiniteSet(taken) /\ Cardinality(taken) \in Nat
         /\ Cardinality(taken) <= NumImages
<1>1. IsFiniteSet(Images) /\ Cardinality(Images) = NumImages
  BY FS_Interval DEF Images
<1>2. taken \in SUBSET Images
  BY DEF TypeOK
<1>3. QED
  BY <1>1, <1>2, FS_Subset, FS_CardinalityType

\* The queue's positions and its length.
LEMMA QueueLength ==
  ASSUME TypeOK
  PROVE  Len(queue) \in Nat /\ DOMAIN queue = 1..Len(queue) /\ queue \in Seq(Blits)
  BY DEF TypeOK

\* What a submit does to the queue.
LEMMA Submitted ==
  ASSUME TypeOK, CurInv, SubmitPresent
  PROVE  /\ Len(queue') = Len(queue) + 1 /\ DOMAIN queue' = 1..(Len(queue) + 1)
         /\ \A i \in 1..Len(queue) : queue'[i] = queue[i]
         /\ queue'[Len(queue) + 1].image = cur.image
         /\ queue'[Len(queue) + 1].sem = cur.sem
<1> DEFINE b == [image |-> cur.image, sem |-> cur.sem, ring |-> cur.ring, src |-> Source]
<1>1. b \in Blits /\ b.image = cur.image /\ b.sem = cur.sem
  BY SubmittedBlit DEF SubmitPresent
<1>2. queue' = Append(queue, b)
  BY DEF SubmitPresent
<1> HIDE DEF b
<1>3. QED
  BY <1>1, <1>2, QueueLength

\* What an execution does to it.
LEMMA Executed ==
  ASSUME TypeOK, GpuExecute
  PROVE  /\ Len(queue) \in Nat \ {0} /\ Len(queue') = Len(queue) - 1
         /\ DOMAIN queue = 1..Len(queue) /\ DOMAIN queue' = 1..(Len(queue) - 1)
         /\ \A i \in DOMAIN queue' : queue'[i] = queue[i + 1] /\ i + 1 \in DOMAIN queue
         /\ Head(queue) = queue[1] /\ 1 \in DOMAIN queue /\ Head(queue) \in Blits
<1>1. queue \in Seq(Blits) /\ queue # <<>> /\ queue' = Tail(queue)
  BY DEF TypeOK, GpuExecute
<1>2. QED
  BY <1>1

LEMMA ImageInit == Init => ImageInv /\ SemInv
<1>1. Init => ImageInv
  BY FS_EmptySet DEF Init, ImageInv, Held, Underway
<1>2. Init => SemInv
  BY DEF Init, SemInv, Held
<1>3. QED
  BY <1>1, <1>2

\* The steps that end a blit which holds no image, or change neither queue nor
\* images.
LEMMA ImagesStay ==
  ASSUME ImageInv, UNCHANGED <<queue, taken, skips>>,
         ~Held \/ cur'.image = cur.image, (Held' <=> Held)
  PROVE  ImageInv'
  BY DEF ImageInv, Underway

LEMMA ImageStep == ASSUME TypeOK, CurInv, ImageInv, [Next]_vars PROVE ImageInv'
<1>1. CASE Frame \/ Show \/ (\E s \in AcquireSems : EngineRelease(s)) \/ UNCHANGED vars
  <2>1. UNCHANGED <<queue, taken, skips, cur>> /\ (Held' <=> Held)
    BY <1>1 DEF Frame, CopyBegin, CopyEnd, Generate, Show, EngineRelease, vars, Held
  <2>2. QED
    BY <2>1, ImagesStay
<1>2. CASE AcquireImage
  <2>1. PICK i \in Free : /\ cur' = [cur EXCEPT !.image = i, !.sem = cursor]
                          /\ taken' = taken \union {i}
    BY <1>2 DEF AcquireImage
  <2>2. i \notin taken /\ cur'.image = i /\ ~Held /\ Held' /\ UNCHANGED <<queue, skips>>
    BY <1>2, <2>1 DEF AcquireImage, Free, Held, TypeOK
  <2>3. Cardinality(taken') = Cardinality(taken) + 1
    BY <2>1, <2>2, TakenBounded, FS_AddElement
  <2>4. Underway' = Underway + 1
    BY <2>2, QueueLength DEF Underway
  <2>5. QED
    BY <2>1, <2>2, <2>3, <2>4 DEF ImageInv
<1>3. CASE AcquireFailed
  BY <1>3, BlitEnds, ImagesStay DEF AcquireFailed, Held
<1>4. CASE RebuildOutOfDate \/ NewSurface
  <2>1. queue' = <<>> /\ taken' = {} /\ ~Held'
    BY <1>4 DEF RebuildOutOfDate, NewSurface, Rebuild, Held
  <2>2. QED
    BY <2>1, FS_EmptySet DEF ImageInv, Underway
<1>5. CASE Record
  BY <1>5, ImagesStay DEF Record, Held, TypeOK
<1>6. CASE RecordFailed \/ SubmitFailed
  <2>1. skips' = skips + 1 /\ skips \in Nat
    <3>1. skips \in Nat
      BY DEF TypeOK
    <3>2. QED
      BY <1>6, <3>1 DEF RecordFailed, SubmitFailed
  <2>2. ~Held' /\ UNCHANGED <<queue, taken>>
    BY <1>6, BlitEnds DEF RecordFailed, SubmitFailed, Held
  <2>3. QED
    BY <2>1, <2>2 DEF ImageInv
<1>7. CASE SubmitPresent
  <2>1. Held /\ ~Held' /\ UNCHANGED <<taken, skips>>
    BY <1>7, BlitEnds DEF SubmitPresent, Held
  <2>2. Underway' = Underway
    BY <1>7, <2>1, Submitted, QueueLength DEF Underway
  <2>3. QED
    BY <1>7, <2>1, <2>2, Submitted, QueueLength DEF ImageInv
<1>8. CASE GpuExecute
  <2> DEFINE b == Head(queue)
  <2>1. UNCHANGED <<worker, cur, skips>> /\ taken' = taken \ {b.image} /\ (Held' <=> Held)
    BY <1>8 DEF GpuExecute, Held
  <2>2. b = queue[1] /\ b.image \in taken
    BY <1>8, Executed DEF ImageInv
  <2>3. Cardinality(taken') = Cardinality(taken) - 1
    BY <2>1, <2>2, TakenBounded, FS_RemoveElement
  <2>4. Underway' = Underway - 1
    BY <1>8, <2>1, Executed DEF Underway
  <2>5. \A i \in DOMAIN queue' : queue'[i].image \in taken'
    <3> SUFFICES ASSUME NEW i \in DOMAIN queue' PROVE queue'[i].image \in taken'
      OBVIOUS
    <3>1. queue'[i] = queue[i + 1] /\ i + 1 \in DOMAIN queue /\ i + 1 # 1
      BY <1>8, Executed
    <3>2. queue[i + 1].image # b.image /\ queue[i + 1].image \in taken
      BY <1>8, <2>2, <3>1, Executed DEF ImageInv
    <3>3. QED
      BY <2>1, <3>1, <3>2
  <2>6. \A i, j \in DOMAIN queue' : queue'[i].image = queue'[j].image => i = j
    <3> SUFFICES ASSUME NEW i \in DOMAIN queue', NEW j \in DOMAIN queue',
                        queue'[i].image = queue'[j].image
                 PROVE  i = j
      OBVIOUS
    <3>1. i + 1 = j + 1 /\ i \in Nat /\ j \in Nat
      BY <1>8, Executed DEF ImageInv
    <3>2. QED
      BY <3>1
  <2>7. Held' => cur'.image \in taken' /\ \A i \in DOMAIN queue' : queue'[i].image # cur'.image
    BY <1>8, <2>1, <2>2, Executed DEF ImageInv
  <2>8. skips' = 0 => Cardinality(taken') = Underway'
    BY <2>1, <2>3, <2>4 DEF ImageInv
  <2>9. QED
    BY <2>5, <2>6, <2>7, <2>8 DEF ImageInv
<1>9. QED
  BY <1>1, <1>2, <1>3, <1>4, <1>5, <1>6, <1>7, <1>8 DEF Next, Blit, External

\* The cursor moves on: what was k acquires back is one more.
LEMMA BackMoves ==
  ASSUME TypeOK, cursor' = NextSem
  PROVE  /\ \A k \in 1..NumImages : Back(k + 1)' = Back(k)
         /\ Back(1)' = cursor
<1>1. NumSems \in Nat \ {0} /\ NumSems = NumImages + 1 /\ cursor \in 0..(NumSems - 1)
  BY DEF TypeOK, AcquireSems, NumSems
<1>2. CASE cursor + 1 = NumSems
  <2>1. cursor' = 0
    BY <1>1, <1>2 DEF NextSem
  <2>2. QED
    BY <1>1, <1>2, <2>1 DEF Back
<1>3. CASE cursor + 1 < NumSems
  <2>1. cursor' = cursor + 1
    BY <1>1, <1>3 DEF NextSem
  <2>2. QED
    BY <1>1, <1>3, <2>1 DEF Back
<1>4. QED
  BY <1>1, <1>2, <1>3

LEMMA UnderwayBounded ==
  ASSUME TypeOK, ImageInv, skips = 0
  PROVE  Underway \in Nat /\ Underway <= NumImages /\ Len(queue) <= Underway
  BY TakenBounded, QueueLength DEF ImageInv, Underway

\* The steps that change none of what the blits under way use.
LEMMA SemsStay ==
  ASSUME SemInv, UNCHANGED <<queue, cursor>>, skips' = 0 => skips = 0,
         ~timedOut' => ~timedOut, ~outOfDate' => ~outOfDate,
         ~Held \/ cur'.sem = cur.sem, (Held' <=> Held),
         \A s \in AcquireSems : sem'[s] # "clear" => sem[s] # "clear"
  PROVE  SemInv'
  BY DEF SemInv, Underway, Back

LEMMA SemStep == ASSUME TypeOK, CurInv, ImageInv, SemInv, [Next]_vars PROVE SemInv'
<1>1. CASE Frame \/ Show \/ UNCHANGED vars
  <2>1. UNCHANGED <<queue, cursor, skips, timedOut, outOfDate, sem, cur>> /\ (Held' <=> Held)
    BY <1>1 DEF Frame, CopyBegin, CopyEnd, Generate, Show, vars, Held
  <2>2. QED
    BY <2>1, SemsStay
<1>2. CASE \E s \in AcquireSems : EngineRelease(s)
  BY <1>2, SemsStay DEF EngineRelease, Held, TypeOK
<1>3. CASE Record
  BY <1>3, SemsStay DEF Record, Held, TypeOK
<1>4. CASE RebuildOutOfDate \/ NewSurface
  <2>1. queue' = <<>> /\ ~Held' /\ \A s \in AcquireSems : sem'[s] = "clear"
    BY <1>4 DEF RebuildOutOfDate, NewSurface, Rebuild, Held
  <2>2. QED
    BY <2>1 DEF SemInv
<1>5. CASE AcquireFailed
  BY <1>5 DEF AcquireFailed, SemInv
<1>6. CASE RecordFailed \/ SubmitFailed
  <2>1. skips' = skips + 1 /\ skips \in Nat
    <3>1. skips \in Nat
      BY DEF TypeOK
    <3>2. QED
      BY <1>6, <3>1 DEF RecordFailed, SubmitFailed
  <2>2. QED
    BY <2>1 DEF SemInv
<1>7. CASE AcquireImage
  <2> SUFFICES ASSUME skips = 0, ~timedOut, ~outOfDate PROVE SemInv'
    BY <1>7 DEF AcquireImage, SemInv
  <2>1. /\ cur'.sem = cursor /\ ~Held /\ Held' /\ cursor' = NextSem /\ UNCHANGED queue
        /\ sem' = [sem EXCEPT ![cursor] = "pending"]
    BY <1>7 DEF AcquireImage, Held, TypeOK
  <2>2. Underway' = Len(queue) + 1 /\ Underway = Len(queue)
    BY <2>1, QueueLength DEF Underway
  <2>3. \A i \in DOMAIN queue : queue[i].sem = Back((Underway + 1) - i)'
    <3> SUFFICES ASSUME NEW i \in DOMAIN queue
                 PROVE  queue[i].sem = Back((Underway + 1) - i)'
      OBVIOUS
    <3>1. PICK k \in 1..NumImages : k = (Underway + 1) - i /\ (Underway' + 1) - i = k + 1
      BY <2>2, QueueLength, UnderwayBounded
    <3>2. queue[i].sem = Back(k)
      BY <3>1 DEF SemInv
    <3>3. queue[i].sem = Back(k + 1)'
      BY <2>1, <3>1, <3>2, BackMoves
    <3>4. QED
      BY <3>1, <3>3 DEF Back
  <2>4. cur'.sem = Back(1)'
    BY <2>1, BackMoves
  <2>5. \A s \in AcquireSems : sem'[s] # "clear" =>
          \/ \E i \in DOMAIN queue : queue[i].sem = s
          \/ cur'.sem = s
    BY <2>1 DEF SemInv, TypeOK
  <2>6. QED
    BY <2>1, <2>3, <2>4, <2>5 DEF SemInv
<1>8. CASE SubmitPresent
  <2> SUFFICES ASSUME skips = 0, ~timedOut, ~outOfDate PROVE SemInv'
    BY <1>8 DEF SubmitPresent, SemInv, CurInv
  <2>1. Held /\ ~Held' /\ UNCHANGED <<cursor, sem>>
    BY <1>8, BlitEnds DEF SubmitPresent, Held
  <2>2. Underway' = Underway /\ Underway = Len(queue) + 1
    BY <1>8, <2>1, Submitted, QueueLength DEF Underway
  <2>3. \A i \in DOMAIN queue' : queue'[i].sem = Back((Underway' + 1) - i)
    <3> SUFFICES ASSUME NEW i \in DOMAIN queue'
                 PROVE  queue'[i].sem = Back((Underway' + 1) - i)
      OBVIOUS
    <3>1. CASE i \in DOMAIN queue
      BY <1>8, <2>2, <3>1, Submitted, QueueLength DEF SemInv
    <3>2. CASE i = Len(queue) + 1
      <4>1. (Underway' + 1) - i = 1
        BY <2>2, <3>2, QueueLength
      <4>2. QED
        BY <1>8, <2>1, <3>2, <4>1, Submitted DEF SemInv
    <3>3. QED
      BY <1>8, <3>1, <3>2, Submitted, QueueLength
  <2>4. \A s \in AcquireSems : sem'[s] # "clear" => \E i \in DOMAIN queue' : queue'[i].sem = s
    BY <1>8, <2>1, Submitted, QueueLength DEF SemInv
  <2>5. \A i \in DOMAIN queue' : queue'[i].sem = Back((Underway + 1) - i)'
    BY <2>1, <2>3 DEF Back
  <2>6. QED
    BY <2>1, <2>4, <2>5 DEF SemInv
<1>9. CASE GpuExecute
  <2> SUFFICES ASSUME skips = 0, ~timedOut, ~outOfDate PROVE SemInv'
    BY <1>9 DEF GpuExecute, SemInv
  <2>1. /\ UNCHANGED <<worker, cur, cursor>> /\ (Held' <=> Held)
        /\ sem' = [sem EXCEPT ![Head(queue).sem] = "clear"]
    BY <1>9 DEF GpuExecute, Held
  <2>2. Underway' = Underway - 1 /\ Underway \in Nat
    BY <1>9, <2>1, Executed DEF Underway
  <2>3. \A i \in DOMAIN queue' : queue'[i].sem = Back((Underway' + 1) - i)
    <3> SUFFICES ASSUME NEW i \in DOMAIN queue'
                 PROVE  queue'[i].sem = Back((Underway' + 1) - i)
      OBVIOUS
    <3>1. i + 1 \in DOMAIN queue /\ queue'[i] = queue[i + 1] /\ i \in Nat
      BY <1>9, Executed
    <3>2. (Underway' + 1) - i = (Underway + 1) - (i + 1)
      BY <2>2, <3>1
    <3>3. QED
      BY <3>1, <3>2 DEF SemInv
  <2>4. ASSUME NEW s \in AcquireSems, sem'[s] # "clear"
        PROVE  \/ \E i \in DOMAIN queue' : queue'[i].sem = s
               \/ Held /\ cur.sem = s
    <3>1. sem[s] # "clear" /\ s # queue[1].sem
      BY <1>9, <2>1, <2>4, Executed DEF TypeOK
    <3>2. CASE Held /\ cur.sem = s
      BY <3>2
    <3>3. CASE \E i \in DOMAIN queue : queue[i].sem = s
      <4>1. PICK i \in DOMAIN queue : queue[i].sem = s
        BY <3>3
      <4>2. i \in 1..Len(queue) /\ i # 1 /\ Len(queue) \in Nat
        BY <1>9, <3>1, <4>1, Executed
      <4>3. PICK j \in DOMAIN queue' : j + 1 = i
        <5>1. i - 1 \in 1..(Len(queue) - 1) /\ (i - 1) + 1 = i
          BY <4>2
        <5>2. QED
          BY <1>9, <5>1, Executed
      <4>4. queue'[j] = queue[i]
        BY <1>9, <4>3, Executed
      <4>5. QED
        BY <4>1, <4>4
    <3>4. QED
      BY <3>1, <3>2, <3>3 DEF SemInv
  <2>5. \A i \in DOMAIN queue' : queue'[i].sem = Back((Underway + 1) - i)'
    BY <2>1, <2>3 DEF Back
  <2>6. Held' => cur'.sem = Back(1)'
    BY <2>1 DEF SemInv, Back
  <2>7. QED
    BY <2>1, <2>4, <2>5, <2>6 DEF SemInv
<1>10. QED
  BY <1>1, <1>2, <1>3, <1>4, <1>5, <1>6, <1>7, <1>8, <1>9 DEF Next, Blit, External

\* The semaphore under the cursor is none of those before it.
LEMMA CursorIsClear == ASSUME TypeOK, ImageInv, SemInv PROVE AcquireSemFree
<1> SUFFICES ASSUME worker = "acquire", ~outOfDate, skips = 0, ~timedOut,
                    sem[cursor] # "clear"
             PROVE  FALSE
  BY DEF AcquireSemFree
<1>1. cursor \in AcquireSems /\ cursor \in Nat /\ NumSems = NumImages + 1
  BY DEF TypeOK, AcquireSems, NumSems
<1>2. PICK i \in DOMAIN queue : queue[i].sem = cursor
  BY <1>1 DEF SemInv, Held
<1> DEFINE k == (Underway + 1) - i
<1>3. k \in 1..NumImages /\ cursor = Back(k)
  BY <1>2, QueueLength, UnderwayBounded DEF SemInv
<1> HIDE DEF k
<1>4. QED
  BY <1>1, <1>3 DEF Back

-----------------------------------------------------------------------------

BlitInv == TypeOK /\ CurInv /\ RingInv /\ SourceInv /\ BypassInv /\ ImageInv /\ SemInv

LEMMA BlitInvariant == Spec => []BlitInv
<1>1. Init => BlitInv
  BY BlitInit, ImageInit DEF BlitInv
<1>2. BlitInv /\ [Next]_vars => BlitInv'
  BY TypeStep, CurStep, RingStep, SourceStep, BypassStep, ImageStep, SemStep DEF BlitInv
<1>3. QED
  BY <1>1, <1>2, PTL DEF Spec

\* A command buffer and its fence are reused only when the GPU is through with
\* them, however many blits are skipped, fail or cross a rebuilt swapchain:
\* the armed flag and the fence of acquireCommandRing are enough for that.
THEOREM RingReuse == Spec => []RingSlotRetired
<1>1. BlitInv => RingSlotRetired
  BY DEF BlitInv, TypeOK, RingInv, RingSlotRetired
<1>2. QED
  BY BlitInvariant, <1>1, PTL

\* The alternation of the input slots and the wait at the end of copyAhbImage
\* keep the queued blits off the slot the next copy writes and off the outputs
\* framegen writes.  The one exception is the copy after a bypassed frame, whose
\* own blit may still be queued, alone: in bypass the slots do not alternate.
THEOREM SourcesAreStable == Spec => []SourceStable
<1>1. ASSUME BlitInv, worker = "idle", NEW i \in DOMAIN queue, queue[i].src = Input(slotIdx)
      PROVE  bypass /\ Len(queue) = 1
  <2> DEFINE n == Len(queue)
  <2>1. bypass
    BY <1>1 DEF BlitInv, TypeOK, SourceInv
  <2>2. n <= 1
    BY <1>1, <2>1 DEF BlitInv, BypassInv
  <2>3. n \in Nat /\ i \in 1..n
    BY <1>1, QueueLength DEF BlitInv
  <2>4. n = 1
    <3> HIDE DEF n
    <3>1. QED
      BY <2>2, <2>3
  <2>5. QED
    BY <2>1, <2>4
<1>2. BlitInv => SourceStable
  BY <1>1 DEF BlitInv, SourceInv, SourceStable, InFlight
<1>3. QED
  BY BlitInvariant, <1>2, PTL

\* The variables keep their types.
THEOREM BlitTypes == Spec => []TypeOK
<1>1. BlitInv => TypeOK
  BY DEF BlitInv
<1>2. QED
  BY BlitInvariant, <1>1, PTL

\* One semaphore more than images is enough for every number of images: the
\* next acquire gets a semaphore that no blit still uses, as long as each
\* acquire gave an image and each image was presented.
THEOREM OneSemaphoreMore == Spec => []AcquireSemFree
<1>1. BlitInv => AcquireSemFree
  BY CursorIsClear DEF BlitInv
<1>2. QED
  BY BlitInvariant, <1>1, PTL

=============================================================================
