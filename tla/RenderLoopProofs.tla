-------------------------- MODULE RenderLoopProofs --------------------------
(***************************************************************************)
(* Proofs about RenderLoop for every number of captures, pushers, contents *)
(* and queue depths, and for every set Env of environment events.          *)
(***************************************************************************)
EXTENDS RenderLoop, TLAPS

USE BoundsAssumption, DepthsAssumption DEF Frames, NoFrame, Holding

-----------------------------------------------------------------------------
(* What a pop and a push do to the elements of a queue.                    *)

Occurs(s, g) == \E i \in DOMAIN s : s[i] = g
NoRepeat(s)  == \A i, j \in DOMAIN s : s[i] = s[j] => i = j

LEMMA TailElems ==
  ASSUME NEW S, NEW s \in Seq(S), s # <<>>, NoRepeat(s)
  PROVE  /\ Tail(s) \in Seq(S) /\ NoRepeat(Tail(s))
         /\ Head(s) \in S /\ Occurs(s, Head(s))
         /\ \A g : Occurs(Tail(s), g) <=> Occurs(s, g) /\ g # Head(s)
<1>1. /\ DOMAIN s = 1..Len(s) /\ Len(s) >= 1 /\ Len(s) \in Nat
      /\ Tail(s) \in Seq(S) /\ Head(s) = s[1] /\ Head(s) \in S
      /\ DOMAIN Tail(s) = 1..(Len(s) - 1)
      /\ \A i \in 1..(Len(s) - 1) : Tail(s)[i] = s[i + 1]
  OBVIOUS
<1>2. NoRepeat(Tail(s))
  <2> SUFFICES ASSUME NEW i \in DOMAIN Tail(s), NEW j \in DOMAIN Tail(s),
                      Tail(s)[i] = Tail(s)[j]
               PROVE  i = j
    BY DEF NoRepeat
  <2>1. /\ Tail(s)[i] = s[i + 1] /\ Tail(s)[j] = s[j + 1]
        /\ i + 1 \in DOMAIN s /\ j + 1 \in DOMAIN s /\ i \in Nat /\ j \in Nat
    BY <1>1
  <2>2. QED
    BY <2>1 DEF NoRepeat
<1>3. 1 \in DOMAIN s /\ Occurs(s, Head(s))
  BY <1>1 DEF Occurs
<1>4. ASSUME NEW i \in DOMAIN Tail(s)
      PROVE  Occurs(s, Tail(s)[i]) /\ Tail(s)[i] # Head(s)
  <2>1. Tail(s)[i] = s[i + 1] /\ i + 1 \in DOMAIN s /\ i + 1 # 1
    BY <1>1
  <2>2. QED
    BY <1>1, <1>3, <2>1 DEF Occurs, NoRepeat
<1>5. ASSUME NEW i \in DOMAIN s, s[i] # Head(s) PROVE Occurs(Tail(s), s[i])
  <2>1. i - 1 \in 1..(Len(s) - 1) /\ (i - 1) + 1 = i
    BY <1>1, <1>5
  <2>2. QED
    BY <1>1, <2>1 DEF Occurs
<1>6. QED
  BY <1>1, <1>2, <1>3, <1>4, <1>5 DEF Occurs

LEMMA AppendElems ==
  ASSUME NEW S, NEW s \in Seq(S), NEW e \in S, NoRepeat(s), ~Occurs(s, e)
  PROVE  /\ Append(s, e) \in Seq(S) /\ NoRepeat(Append(s, e))
         /\ \A g : Occurs(Append(s, e), g) <=> Occurs(s, g) \/ g = e
<1>1. /\ DOMAIN s = 1..Len(s) /\ Len(s) \in Nat
      /\ DOMAIN Append(s, e) = 1..(Len(s) + 1)
      /\ Append(s, e)[Len(s) + 1] = e
      /\ \A i \in 1..Len(s) : Append(s, e)[i] = s[i]
  OBVIOUS
<1>2. /\ DOMAIN Append(s, e) = DOMAIN s \union {Len(s) + 1}
      /\ Len(s) + 1 \notin DOMAIN s
  BY <1>1
<1>3. QED
  BY <1>1, <1>2 DEF Occurs, NoRepeat

\* The slot indices the worker and framegen compute are the two slots.
LEMMA ModTwo == ASSUME NEW n \in Nat PROVE n % 2 \in 0..1 /\ 1 - (n % 2) \in 0..1
  OBVIOUS

-----------------------------------------------------------------------------
(* Steps that many actions share.                                          *)

\* A step that leaves captures, pushers, queue and references alone, and after
\* which the worker owns no popped reference it did not own before, keeps the
\* accounting.
LEMMA CustodyFrame ==
  ASSUME HoldersDisjoint, HeldWasCaptured, RefsBalanced,
         UNCHANGED <<captures, push, pending, refs>>,
         \A f \in Frames : Popped(f)' <=> Popped(f),
         worker' \in Holding => frame' \in Frames
  PROVE  HoldersDisjoint' /\ HeldWasCaptured' /\ RefsBalanced'
  BY DEF HoldersDisjoint, HeldWasCaptured, RefsBalanced, Queued, Pushed

\* The worker gives the popped frame's reference back and owns none.
LEMMA ReleasePopped ==
  ASSUME TypeOK, HoldersDisjoint, HeldWasCaptured, RefsBalanced,
         worker \in Holding, worker' \notin Holding, Release(frame),
         UNCHANGED <<captures, push, pending>>
  PROVE  /\ refs' \in [Frames -> Nat]
         /\ HoldersDisjoint' /\ HeldWasCaptured' /\ RefsBalanced'
<1>1. Popped(frame) /\ frame \in Frames /\ refs[frame] = 1
  BY DEF Popped, HeldWasCaptured, RefsBalanced
<1>2. \A f \in Frames : ~Popped(f)' /\ (Queued(f)' <=> Queued(f)) /\ (Pushed(f)' <=> Pushed(f))
  BY DEF Popped, Queued, Pushed
<1>3. \A f \in Frames : refs'[f] = IF f = frame THEN 0 ELSE refs[f]
  BY <1>1 DEF Release, TypeOK
<1>4. refs' \in [Frames -> Nat]
  BY <1>1 DEF Release, TypeOK
<1>5. HoldersDisjoint' /\ HeldWasCaptured'
  BY <1>2 DEF HoldersDisjoint, HeldWasCaptured
<1>6. RefsBalanced'
  BY <1>1, <1>2, <1>3 DEF RefsBalanced, HoldersDisjoint, Popped
<1>7. QED
  BY <1>4, <1>5, <1>6

\* The release loops of the worker's start and of the teardown empty the queue
\* and account for every frame that was in it.
LEMMA ReleaseQueue ==
  ASSUME TypeOK, HoldersDisjoint, HeldWasCaptured, RefsBalanced,
         ReleaseAll(pending), pending' = <<>>, UNCHANGED <<captures, push, frame>>,
         worker' \in Holding <=> worker \in Holding
  PROVE  /\ refs' \in [Frames -> Nat] /\ pending' \in Seq(Frames)
         /\ HoldersDisjoint' /\ HeldWasCaptured' /\ RefsBalanced'
<1>1. \A f \in Frames : /\ ~Queued(f)' /\ (Popped(f)' <=> Popped(f))
                        /\ Pushed(f)' <=> Pushed(f)
  BY DEF Queued, Popped, Pushed
<1>2. \A f \in Frames : refs'[f] = IF Queued(f) THEN refs[f] - 1 ELSE refs[f]
  BY DEF ReleaseAll, Queued
<1>3. \A f \in Frames : refs'[f] = IF Popped(f) \/ Pushed(f) THEN 1 ELSE 0
  BY <1>1, <1>2 DEF RefsBalanced, HoldersDisjoint
<1>4. refs' \in [Frames -> Nat] /\ pending' \in Seq(Frames)
  BY <1>3 DEF ReleaseAll
<1>5. HoldersDisjoint'
  BY <1>1 DEF HoldersDisjoint
<1>6. HeldWasCaptured'
  BY <1>1 DEF HeldWasCaptured
<1>7. RefsBalanced'
  BY <1>1, <1>3 DEF RefsBalanced
<1>8. QED
  BY <1>4, <1>5, <1>6, <1>7

\* The oldest queued frame moves to the worker.
LEMMA PopCustody ==
  ASSUME TypeOK, HoldersDisjoint, HeldWasCaptured, RefsBalanced,
         pending # <<>>, pending' = Tail(pending), frame' = Head(pending),
         worker \notin Holding, worker' \in Holding,
         UNCHANGED <<captures, push, refs>>
  PROVE  /\ frame' \in Frames /\ pending' \in Seq(Frames)
         /\ HoldersDisjoint' /\ HeldWasCaptured' /\ RefsBalanced'
<1> DEFINE h == Head(pending)
<1>1. /\ pending' \in Seq(Frames) /\ NoRepeat(pending')
      /\ h \in Frames /\ Queued(h)
      /\ \A g : Queued(g)' <=> Queued(g) /\ g # h
  <2>1. pending \in Seq(Frames) /\ NoRepeat(pending)
    BY DEF TypeOK, HoldersDisjoint, NoRepeat
  <2>2. QED
    BY <2>1, TailElems DEF Queued, Occurs
<1>2. \A g : /\ Popped(g)' <=> g = h
             /\ ~Popped(g) /\ (Pushed(g)' <=> Pushed(g))
  BY DEF Popped, Pushed
<1>3. HoldersDisjoint'
  <2>1. \A f \in Frames : /\ Queued(f)' => ~Popped(f)' /\ ~Pushed(f)'
                          /\ Popped(f)' => ~Pushed(f)'
    BY <1>1, <1>2 DEF HoldersDisjoint
  <2>2. \A p, q \in Pushers : push'[p] # NoFrame /\ push'[p] = push'[q] => p = q
    BY DEF HoldersDisjoint
  <2>3. QED
    BY <1>1, <2>1, <2>2 DEF HoldersDisjoint, NoRepeat
<1>4. HeldWasCaptured'
  BY <1>1, <1>2 DEF HeldWasCaptured
<1>5. RefsBalanced'
  <2> SUFFICES ASSUME NEW f \in Frames
               PROVE  refs'[f] = IF Queued(f)' \/ Popped(f)' \/ Pushed(f)' THEN 1 ELSE 0
    BY DEF RefsBalanced
  <2>1. Queued(f) <=> Queued(f)' \/ Popped(f)'
    BY <1>1, <1>2
  <2>2. QED
    BY <1>2, <2>1 DEF RefsBalanced
<1>6. QED
  BY <1>1, <1>3, <1>4, <1>5

\* A pusher's frame enters the queue.
LEMMA EnqueueCustody ==
  ASSUME TypeOK, HoldersDisjoint, HeldWasCaptured, RefsBalanced,
         NEW p \in Pushers, push[p] # NoFrame,
         push' = [push EXCEPT ![p] = NoFrame],
         UNCHANGED <<captures, worker, frame>>,
         \/ Release(push[p]) /\ UNCHANGED pending
         \/ pending' = Append(pending, push[p]) /\ UNCHANGED refs
         \/ /\ pending # <<>> /\ Release(Head(pending))
            /\ pending' = Append(Tail(pending), push[p])
  PROVE  /\ refs' \in [Frames -> Nat] /\ pending' \in Seq(Frames)
         /\ HoldersDisjoint' /\ HeldWasCaptured' /\ RefsBalanced'
<1> DEFINE f == push[p]
<1>1. /\ f \in Frames /\ Pushed(f) /\ ~Queued(f) /\ ~Popped(f) /\ refs[f] = 1
      /\ pending \in Seq(Frames) /\ NoRepeat(pending) /\ refs \in [Frames -> Nat]
  <2>1. f \in Frames /\ Pushed(f)
    BY DEF TypeOK, Pushed
  <2>2. ~Queued(f) /\ ~Popped(f)
    BY <2>1 DEF HoldersDisjoint
  <2>3. QED
    BY <2>1, <2>2 DEF RefsBalanced, TypeOK, HoldersDisjoint, NoRepeat
<1>2. \A q \in Pushers : push'[q] = IF q = p THEN NoFrame ELSE push[q]
  BY DEF TypeOK
<1>3. \A g \in Frames : /\ Pushed(g)' <=> Pushed(g) /\ g # f
                        /\ Popped(g)' <=> Popped(g)
  <2>1. \A g \in Frames : Pushed(g)' <=> Pushed(g) /\ g # f
    BY <1>1, <1>2 DEF Pushed, HoldersDisjoint
  <2>2. QED
    BY <2>1 DEF Popped
<1>4. \A q, r \in Pushers : push'[q] # NoFrame /\ push'[q] = push'[r] => q = r
  BY <1>2 DEF HoldersDisjoint
<1>5. worker' \in Holding => frame' \in Frames
  BY DEF HeldWasCaptured
<1>6. CASE Release(f) /\ UNCHANGED pending
  <2>1. \A g \in Frames : refs'[g] = IF g = f THEN 0 ELSE refs[g]
    BY <1>1, <1>6 DEF Release
  <2>2. refs' \in [Frames -> Nat] /\ \A g \in Frames : Queued(g)' <=> Queued(g)
    BY <1>1, <1>6 DEF Release, Queued
  <2>3. HoldersDisjoint'
    BY <1>1, <1>3, <1>4, <1>6, <2>2 DEF HoldersDisjoint
  <2>4. HeldWasCaptured' /\ RefsBalanced'
    BY <1>1, <1>3, <1>5, <2>1, <2>2 DEF HeldWasCaptured, RefsBalanced
  <2>5. QED
    BY <1>1, <1>6, <2>2, <2>3, <2>4
<1>7. CASE pending' = Append(pending, f) /\ UNCHANGED refs
  <2>1. /\ pending' \in Seq(Frames) /\ NoRepeat(pending')
        /\ \A g : Queued(g)' <=> Queued(g) \/ g = f
    <3>1. f \in Frames /\ pending \in Seq(Frames) /\ NoRepeat(pending) /\ ~Occurs(pending, f)
      BY <1>1 DEF Queued, Occurs
    <3> HIDE DEF f, Frames
    <3>2. /\ Append(pending, f) \in Seq(Frames) /\ NoRepeat(Append(pending, f))
          /\ \A g : Occurs(Append(pending, f), g) <=> Occurs(pending, g) \/ g = f
      BY <3>1, AppendElems
    <3>3. QED
      BY <1>7, <3>2 DEF Queued, Occurs
  <2>2. HoldersDisjoint'
    BY <1>1, <1>3, <1>4, <2>1 DEF HoldersDisjoint, NoRepeat
  <2>3. HeldWasCaptured' /\ RefsBalanced'
    BY <1>1, <1>3, <1>5, <1>7, <2>1 DEF HeldWasCaptured, RefsBalanced
  <2>4. QED
    BY <1>1, <1>7, <2>1, <2>2, <2>3
<1>8. CASE pending # <<>> /\ Release(Head(pending)) /\ pending' = Append(Tail(pending), f)
  <2> DEFINE h == Head(pending)
  <2>1. /\ Tail(pending) \in Seq(Frames) /\ NoRepeat(Tail(pending))
        /\ h \in Frames /\ Queued(h) /\ h # f
        /\ \A g : Occurs(Tail(pending), g) <=> Queued(g) /\ g # h
    <3>1. pending \in Seq(Frames) /\ NoRepeat(pending) /\ pending # <<>>
      BY <1>1, <1>8
    <3>2. /\ Tail(pending) \in Seq(Frames) /\ NoRepeat(Tail(pending))
          /\ h \in Frames /\ Occurs(pending, h)
          /\ \A g : Occurs(Tail(pending), g) <=> Occurs(pending, g) /\ g # h
      BY <3>1, TailElems
    <3>3. \A g : Queued(g) <=> Occurs(pending, g)
      BY DEF Queued, Occurs
    <3>4. h # f
      BY <1>1, <3>2, <3>3
    <3>5. QED
      BY <3>2, <3>3, <3>4
  <2>2. /\ pending' \in Seq(Frames) /\ NoRepeat(pending')
        /\ \A g : Queued(g)' <=> (Queued(g) /\ g # h) \/ g = f
    <3> DEFINE t == Tail(pending)
    <3>1. f \in Frames /\ t \in Seq(Frames) /\ NoRepeat(t) /\ ~Occurs(t, f)
      BY <1>1, <2>1
    <3>2. \A g : Occurs(t, g) <=> Queued(g) /\ g # h
      BY <2>1
    <3>3. pending' = Append(t, f)
      BY <1>8
    <3> HIDE DEF f, t, h, Frames
    <3>4. /\ Append(t, f) \in Seq(Frames) /\ NoRepeat(Append(t, f))
          /\ \A g : Occurs(Append(t, f), g) <=> Occurs(t, g) \/ g = f
      BY <3>1, AppendElems
    <3>5. \A g : Queued(g)' <=> Occurs(Append(t, f), g)
      BY <3>3 DEF Queued, Occurs
    <3>6. QED
      BY <3>2, <3>3, <3>4, <3>5
  <2>3. refs[h] = 1 /\ ~Pushed(h) /\ ~Popped(h)
    BY <2>1 DEF RefsBalanced, HoldersDisjoint
  <2>4. /\ refs' \in [Frames -> Nat]
        /\ \A g \in Frames : refs'[g] = IF g = h THEN 0 ELSE refs[g]
    BY <1>1, <1>8, <2>1, <2>3 DEF Release
  <2>5. HoldersDisjoint'
    BY <1>1, <1>3, <1>4, <2>2 DEF HoldersDisjoint, NoRepeat
  <2>6. HeldWasCaptured'
    BY <1>1, <1>3, <1>5, <2>2 DEF HeldWasCaptured
  <2>7. RefsBalanced'
    BY <1>1, <1>3, <2>1, <2>2, <2>3, <2>4 DEF RefsBalanced
  <2>8. QED
    BY <2>2, <2>4, <2>5, <2>6, <2>7
<1>9. QED
  BY <1>6, <1>7, <1>8

\* A capture takes the reference of a frame nobody holds.
LEMMA CaptureCustody ==
  ASSUME TypeOK, HoldersDisjoint, HeldWasCaptured, RefsBalanced,
         NEW p \in Pushers, push[p] = NoFrame, captures < MaxCaptures,
         captures' = captures + 1, Acquire(captures'),
         push' = [push EXCEPT ![p] = captures'],
         UNCHANGED <<pending, worker, frame>>
  PROVE  /\ refs' \in [Frames -> Nat] /\ captures' \in Frames
         /\ HoldersDisjoint' /\ HeldWasCaptured' /\ RefsBalanced'
<1> DEFINE f == captures'
<1>1. f \in Frames /\ f = captures + 1
  BY DEF TypeOK
<1>2. ~Queued(f) /\ ~Popped(f) /\ ~Pushed(f) /\ refs[f] = 0
  BY <1>1 DEF HeldWasCaptured, RefsBalanced, TypeOK
<1>3. \A q \in Pushers : push'[q] = IF q = p THEN f ELSE push[q]
  BY DEF TypeOK
<1>4. \A g \in Frames : /\ Pushed(g)' <=> Pushed(g) \/ g = f
                        /\ Queued(g)' <=> Queued(g)
                        /\ Popped(g)' <=> Popped(g)
  BY <1>1, <1>3 DEF Pushed, Queued, Popped
<1>5. /\ refs' \in [Frames -> Nat]
      /\ \A g \in Frames : refs'[g] = IF g = f THEN 1 ELSE refs[g]
  BY <1>1, <1>2 DEF Acquire, TypeOK
<1>6. HoldersDisjoint'
  <2>1. \A q, r \in Pushers : push'[q] # NoFrame /\ push'[q] = push'[r] => q = r
    BY <1>1, <1>2, <1>3 DEF HoldersDisjoint, Pushed
  <2>2. \A i, j \in DOMAIN pending' : pending'[i] = pending'[j] => i = j
    BY DEF HoldersDisjoint
  <2>3. QED
    BY <1>2, <1>4, <2>1, <2>2 DEF HoldersDisjoint
<1>7. HeldWasCaptured'
  BY <1>1, <1>4 DEF HeldWasCaptured, TypeOK
<1>8. RefsBalanced'
  BY <1>2, <1>4, <1>5 DEF RefsBalanced
<1>9. QED
  BY <1>1, <1>5, <1>6, <1>7, <1>8

-----------------------------------------------------------------------------
(* Sessions.                                                               *)

LEMMA IdleInit == Init => IdleOutsideSession
  BY DEF Init, IdleOutsideSession

LEMMA IdleStep == IdleOutsideSession /\ [Next]_vars => IdleOutsideSession'
<1> SUFFICES ASSUME IdleOutsideSession, [Next]_vars PROVE IdleOutsideSession'
  OBVIOUS
<1> USE DEF IdleOutsideSession, ctlVars, hashVars, queueVars, workVars,
            slotVars, genVars, userVars
<1>1. CASE Control
  <2>1. CASE InitBegin
    BY <2>1 DEF InitBegin
  <2>2. CASE InitDone
    BY <2>2 DEF InitDone
  <2>3. CASE InitSessionFailed
    BY <2>3 DEF InitSessionFailed
  <2>4. CASE InitAllocFailed
    BY <2>4 DEF InitAllocFailed
  <2>5. CASE ShutdownBegin
    BY <2>5 DEF ShutdownBegin
  <2>6. CASE ShutdownJoined
    BY <2>6 DEF ShutdownJoined
  <2>7. CASE ShutdownTeardown
    BY <2>7 DEF ShutdownTeardown
  <2>8. QED
    BY <1>1, <2>1, <2>2, <2>3, <2>4, <2>5, <2>6, <2>7 DEF Control
<1>2. CASE Worker
  <2>1. worker # "none" /\ UNCHANGED <<mu, ctl, initialized>>
    BY <1>2 DEF Worker, DrainStale, Pop, Exit, ImportFrame, CopyFrame, CopyFailed,
                Decide, Present, PresentThrew, BlitGenerated, BlitReal, BlitPassthrough
  <2>2. QED
    BY <2>1
<1>3. CASE \E p \in Pushers : Push(p)
  <2>1. PICK p \in Pushers : Push(p)
    BY <1>3
  <2>2. /\ UNCHANGED <<mu, ctl, initialized, worker, ctx, presentsDone>>
        /\ ~initialized => UNCHANGED pending
    BY <2>1 DEF Push, PushEnqueue, PushDuplicate, PushAcquire, Accepts
  <2>3. QED
    BY <2>2
<1>4. CASE Settings \/ UNCHANGED vars
  <2>1. UNCHANGED <<mu, ctl, initialized, worker, pending, ctx, presentsDone>>
    BY <1>4 DEF Settings, SetBypass, SetQueueDepth, SetOutputSurface, vars
  <2>2. QED
    BY <2>1
<1>5. QED
  BY <1>1, <1>2, <1>3, <1>4 DEF Next

-----------------------------------------------------------------------------
(* Custody of the buffers.                                                 *)

LEMMA CustodyInit == Init => CustodyInv
<1> SUFFICES ASSUME Init PROVE CustodyInv
  OBVIOUS
<1>1. /\ initialized \in BOOLEAN /\ stopRequested \in BOOLEAN
      /\ autoDisabled \in BOOLEAN /\ bypass \in BOOLEAN
      /\ ctx \in BOOLEAN /\ window \in BOOLEAN
  BY DEF Init
<1>2. TypeOK
  BY <1>1 DEF Init, TypeOK, CtlPoints, WorkerPoints
<1>3. \A f \in Frames : ~Queued(f) /\ ~Popped(f) /\ ~Pushed(f)
  BY DEF Init, Queued, Popped, Pushed
<1>4. HoldersDisjoint /\ HeldWasCaptured
  BY <1>3 DEF Init, HoldersDisjoint, HeldWasCaptured
<1>5. RefsBalanced
  BY <1>3 DEF Init, RefsBalanced
<1>6. QED
  BY <1>2, <1>4, <1>5 DEF CustodyInv

LEMMA CustodyStep == CustodyInv /\ IdleOutsideSession /\ [Next]_vars => CustodyInv'
<1> SUFFICES ASSUME CustodyInv, IdleOutsideSession, [Next]_vars PROVE CustodyInv'
  OBVIOUS
<1> USE DEF CustodyInv, ctlVars, hashVars, queueVars, workVars, slotVars,
            genVars, userVars
<1>1. CASE InitBegin
  <2>1. autoDisabled' \in BOOLEAN
    BY <1>1 DEF InitBegin, TypeOK
  <2>2. TypeOK'
    BY <1>1, <2>1 DEF InitBegin, TypeOK, CtlPoints, WorkerPoints
  <2>3. QED
    BY <1>1, <2>2, CustodyFrame DEF InitBegin, Popped, HeldWasCaptured
<1>2. CASE InitDone
  <2>1. /\ initialized' \in BOOLEAN /\ stopRequested' \in BOOLEAN /\ ctx' \in BOOLEAN
    BY <1>2 DEF InitDone
  <2>2. /\ slot' \in [0..1 -> 0..MaxCaptures] /\ frameIdx' \in Nat
        /\ pair' \in (0..MaxCaptures) \X (0..MaxCaptures)
        /\ mu' \in {"free", "ctl"} /\ ctl' \in CtlPoints /\ worker' \in WorkerPoints
    BY <1>2 DEF InitDone, CtlPoints, WorkerPoints
  <2>3. UNCHANGED <<inits, autoDisabled, hashVars, captures, push, queueVars,
                    frame, framesCopied, presentsDone, userVars, shown>>
    BY <1>2 DEF InitDone
  <2>4. TypeOK'
    BY <2>1, <2>2, <2>3 DEF TypeOK
  <2>5. worker = "none"
    BY <1>2 DEF InitDone, IdleOutsideSession
  <2>6. QED
    BY <1>2, <2>4, <2>5, CustodyFrame DEF InitDone, Popped
<1>3. CASE InitSessionFailed
  <2>1. TypeOK'
    BY <1>3 DEF InitSessionFailed, TypeOK, CtlPoints, WorkerPoints
  <2>2. QED
    BY <1>3, <2>1, CustodyFrame DEF InitSessionFailed, Popped, HeldWasCaptured
<1>4. CASE InitAllocFailed
  <2>1. TypeOK'
    BY <1>4 DEF InitAllocFailed, TypeOK, CtlPoints, WorkerPoints
  <2>2. QED
    BY <1>4, <2>1, CustodyFrame DEF InitAllocFailed, Popped, HeldWasCaptured
<1>5. CASE ShutdownBegin
  <2>1. TypeOK'
    BY <1>5 DEF ShutdownBegin, RequestStop, TypeOK, CtlPoints, WorkerPoints
  <2>2. QED
    BY <1>5, <2>1, CustodyFrame DEF ShutdownBegin, RequestStop, Popped, HeldWasCaptured
<1>6. CASE ShutdownJoined
  <2>1. TypeOK'
    BY <1>6 DEF ShutdownJoined, TypeOK, CtlPoints, WorkerPoints
  <2>2. QED
    BY <1>6, <2>1, CustodyFrame DEF ShutdownJoined, Popped, HeldWasCaptured
<1>7. CASE ShutdownTeardown
  <2>1. /\ refs' \in [Frames -> Nat] /\ pending' \in Seq(Frames)
        /\ HoldersDisjoint' /\ HeldWasCaptured' /\ RefsBalanced'
    BY <1>7, ReleaseQueue DEF ShutdownTeardown
  <2>2. initialized' \in BOOLEAN /\ ctx' \in BOOLEAN
    BY <1>7 DEF ShutdownTeardown
  <2>3. TypeOK'
    BY <1>7, <2>1, <2>2 DEF ShutdownTeardown, TypeOK, CtlPoints
  <2>4. QED
    BY <2>1, <2>3
<1>8. CASE DrainStale
  <2>1. /\ refs' \in [Frames -> Nat] /\ pending' \in Seq(Frames)
        /\ HoldersDisjoint' /\ HeldWasCaptured' /\ RefsBalanced'
    BY <1>8, ReleaseQueue DEF DrainStale
  <2>2. TypeOK'
    BY <1>8, <2>1 DEF DrainStale, TypeOK, WorkerPoints
  <2>3. QED
    BY <2>1, <2>2
<1>9. CASE Pop
  <2>1. /\ frame' \in Frames /\ pending' \in Seq(Frames)
        /\ HoldersDisjoint' /\ HeldWasCaptured' /\ RefsBalanced'
    BY <1>9, PopCustody DEF Pop, Take
  <2>2. TypeOK'
    BY <1>9, <2>1 DEF Pop, TypeOK, WorkerPoints
  <2>3. QED
    BY <2>1, <2>2
<1>10. CASE Exit
  <2>1. TypeOK'
    BY <1>10 DEF Exit, TypeOK, CtlPoints, WorkerPoints
  <2>2. QED
    BY <1>10, <2>1, CustodyFrame DEF Exit, Popped, HeldWasCaptured
<1>11. CASE ImportFrame
  <2>1. CASE worker' = "copy" /\ UNCHANGED <<refs, frame>>
    <3>1. TypeOK'
      BY <1>11, <2>1 DEF ImportFrame, TypeOK, WorkerPoints
    <3>2. QED
      BY <1>11, <2>1, <3>1, CustodyFrame DEF ImportFrame, Popped, HeldWasCaptured
  <2>2. CASE Release(frame) /\ worker' = "wait" /\ frame' = NoFrame
    BY <1>11, <2>2, ReleasePopped DEF ImportFrame, TypeOK, WorkerPoints
  <2>3. QED
    BY <1>11, <2>1, <2>2 DEF ImportFrame
<1>12. CASE CopyFrame
  BY <1>12, ReleasePopped, ModTwo
     DEF CopyFrame, WriteSlots, NewSlot, TypeOK, WorkerPoints, HeldWasCaptured
<1>13. CASE CopyFailed
  BY <1>13, ReleasePopped DEF CopyFailed, TypeOK, WorkerPoints
<1>14. CASE Decide
  <2>1. TypeOK'
    BY <1>14 DEF Decide, TypeOK, CtlPoints, WorkerPoints
  <2>2. QED
    BY <1>14, <2>1, CustodyFrame DEF Decide, Popped, HeldWasCaptured
<1>15. CASE Present
  <2>1. TypeOK'
    BY <1>15, ModTwo DEF Present, TypeOK, CtlPoints, WorkerPoints
  <2>2. QED
    BY <1>15, <2>1, CustodyFrame DEF Present, Popped, HeldWasCaptured
<1>16. CASE PresentThrew
  <2>1. autoDisabled' \in BOOLEAN
    BY <1>16 DEF PresentThrew, TypeOK
  <2>2. TypeOK'
    BY <1>16, <2>1 DEF PresentThrew, TypeOK, CtlPoints, WorkerPoints
  <2>3. QED
    BY <1>16, <2>2, CustodyFrame DEF PresentThrew, Popped, HeldWasCaptured
<1>17. CASE BlitGenerated
  <2>1. TypeOK'
    BY <1>17 DEF BlitGenerated, TypeOK, CtlPoints, WorkerPoints
  <2>2. QED
    BY <1>17, <2>1, CustodyFrame DEF BlitGenerated, Popped, HeldWasCaptured
<1>18. CASE BlitReal
  <2>1. TypeOK'
    BY <1>18, ModTwo DEF BlitReal, ShowReal, NewSlot, TypeOK, CtlPoints, WorkerPoints
  <2>2. QED
    BY <1>18, <2>1, CustodyFrame DEF BlitReal, ShowReal, NewSlot, Popped, HeldWasCaptured
<1>19. CASE BlitPassthrough
  <2>1. TypeOK'
    BY <1>19, ModTwo DEF BlitPassthrough, ShowReal, NewSlot, TypeOK, CtlPoints, WorkerPoints
  <2>2. QED
    BY <1>19, <2>1, CustodyFrame DEF BlitPassthrough, ShowReal, NewSlot, Popped, HeldWasCaptured
<1>20. CASE SetBypass
  <2>1. TypeOK'
    BY SMTT(30), <1>20 DEF SetBypass, TypeOK, CtlPoints, WorkerPoints
  <2>2. QED
    BY <1>20, <2>1, CustodyFrame DEF SetBypass, Popped, HeldWasCaptured
<1>21. CASE SetOutputSurface
  <2>1. window' \in BOOLEAN
    BY <1>21 DEF SetOutputSurface
  <2>2. UNCHANGED <<mu, ctl, inits, initialized, stopRequested, autoDisabled, bypass, lastHash,
                    hashFrame, captures, push, pending, queueDepth, refs, worker, frame, slot,
                    framesCopied, presentsDone, frameIdx, ctx, pair, shown>>
    BY <1>21 DEF SetOutputSurface
  <2>3. TypeOK'
    BY <2>1, <2>2 DEF TypeOK
  <2>4. QED
    BY <2>2, <2>3, CustodyFrame DEF Popped, HeldWasCaptured
<1>22. ASSUME NEW p \in Pushers, PushEnqueue(p) PROVE CustodyInv'
  <2>1. QueueFull => pending # <<>>
    <3>1. Len(<<>>) = 0 /\ queueDepth \in 2..6
      BY DEF TypeOK
    <3>2. QED
      BY <3>1 DEF QueueFull
  <2>2. /\ refs' \in [Frames -> Nat] /\ pending' \in Seq(Frames)
        /\ HoldersDisjoint' /\ HeldWasCaptured' /\ RefsBalanced'
    BY <1>22, <2>1, EnqueueCustody DEF PushEnqueue
  <2>3. push' \in [Pushers -> 0..MaxCaptures]
    BY <1>22 DEF PushEnqueue, TypeOK
  <2>4. TypeOK'
    BY <1>22, <2>2, <2>3 DEF PushEnqueue, TypeOK
  <2>5. QED
    BY <2>2, <2>4
<1>23. ASSUME NEW p \in Pushers, NEW c \in Contents, PushDuplicate(p, c) PROVE CustodyInv'
  <2>1. TypeOK'
    BY SMTT(30), <1>23 DEF PushDuplicate, TypeOK
  <2>2. /\ captures \in Nat /\ captures' = captures + 1
        /\ UNCHANGED <<push, pending, refs, worker, frame>>
    BY <1>23 DEF PushDuplicate, TypeOK
  <2>3. HoldersDisjoint' /\ RefsBalanced'
    BY <2>2 DEF HoldersDisjoint, RefsBalanced, Queued, Popped, Pushed
  <2>4. HeldWasCaptured'
    BY <2>2 DEF HeldWasCaptured, Queued, Popped, Pushed
  <2>5. QED
    BY <2>1, <2>3, <2>4
<1>24. ASSUME NEW p \in Pushers, NEW c \in Contents, PushAcquire(p, c) PROVE CustodyInv'
  <2>1. /\ refs' \in [Frames -> Nat] /\ captures' \in Frames
        /\ HoldersDisjoint' /\ HeldWasCaptured' /\ RefsBalanced'
    BY <1>24, CaptureCustody DEF PushAcquire
  <2>2. /\ lastHash' \in Contents \union {NoHash} /\ hashFrame' \in 0..MaxCaptures
        /\ push' \in [Pushers -> 0..MaxCaptures]
    BY SMTT(30), <1>24, <2>1 DEF PushAcquire, TypeOK
  <2>3. TypeOK'
    BY SMTT(30), <1>24, <2>1, <2>2 DEF PushAcquire, TypeOK
  <2>4. QED
    BY <2>1, <2>3
<1>25. ASSUME NEW d \in Depths, SetQueueDepth(d) PROVE CustodyInv'
  <2>1. TypeOK'
    BY SMTT(30), <1>25 DEF SetQueueDepth, TypeOK
  <2>2. QED
    BY <1>25, <2>1, CustodyFrame DEF SetQueueDepth, Popped, HeldWasCaptured
<1>26. CASE UNCHANGED vars
  BY <1>26 DEF vars, TypeOK, HoldersDisjoint, HeldWasCaptured, RefsBalanced, Queued, Popped, Pushed
<1> QED
  BY <1>1, <1>2, <1>3, <1>4, <1>5, <1>6, <1>7, <1>8, <1>9, <1>10, <1>11, <1>12, <1>13, <1>14, <1>15, <1>16, <1>17, <1>18, <1>19, <1>20, <1>21, <1>22, <1>23, <1>24, <1>25, <1>26 DEF Next, Control, Worker, Push, Settings

-----------------------------------------------------------------------------
(* The slots and framegen's counter.                                       *)

LEMMA SlotInit == Init => FrameIdxInStep
  BY DEF Init, FrameIdxInStep

\* framegen's frameIdx and presentsDone agree whenever the worker chooses a slot.
LEMMA SlotStep ==
  TypeOK /\ IdleOutsideSession /\ FrameIdxInStep /\ [Next]_vars => FrameIdxInStep'
<1> SUFFICES ASSUME TypeOK, IdleOutsideSession, FrameIdxInStep, [Next]_vars
             PROVE  FrameIdxInStep'
  OBVIOUS
<1> USE DEF ctlVars, hashVars, queueVars, workVars, slotVars, genVars, userVars
<1>1. CASE UNCHANGED <<ctx, frameIdx, presentsDone, slot, worker, frame>>
  BY <1>1 DEF FrameIdxInStep, NewSlot
<1>2. CASE Control
  <2>1. CASE InitBegin
    BY <2>1 DEF InitBegin, FrameIdxInStep, IdleOutsideSession
  <2>2. CASE InitDone
    BY <2>2 DEF InitDone, FrameIdxInStep, IdleOutsideSession
  <2>3. CASE ShutdownJoined
    BY <2>3 DEF ShutdownJoined, FrameIdxInStep
  <2>4. CASE ShutdownTeardown
    BY <2>4 DEF ShutdownTeardown, FrameIdxInStep, IdleOutsideSession
  <2>5. QED
    BY <1>1, <1>2, <2>1, <2>2, <2>3, <2>4
       DEF Control, InitSessionFailed, InitAllocFailed, ShutdownBegin
<1>3. CASE Worker
  <2>1. CASE DrainStale \/ Pop \/ Exit \/ ImportFrame \/ CopyFailed
    BY <2>1 DEF DrainStale, Pop, Exit, ImportFrame, CopyFailed, FrameIdxInStep
  <2>2. CASE CopyFrame
    <3>1. slot'[presentsDone % 2] = frame
      BY <2>2, ModTwo DEF CopyFrame, WriteSlots, NewSlot, TypeOK
    <3>2. QED
      BY <2>2, <3>1 DEF CopyFrame, FrameIdxInStep, NewSlot
  <2>3. CASE Decide
    BY <2>3 DEF Decide, FrameIdxInStep, NewSlot
  <2>4. CASE Present
    BY <2>4 DEF Present, FrameIdxInStep, TypeOK
  <2>5. CASE PresentThrew
    BY <2>5 DEF PresentThrew, FrameIdxInStep
  <2>6. CASE BlitGenerated
    BY <2>6 DEF BlitGenerated, FrameIdxInStep
  <2>7. CASE BlitReal
    BY <2>7 DEF BlitReal, FrameIdxInStep
  <2>8. CASE BlitPassthrough
    BY <2>8 DEF BlitPassthrough, FrameIdxInStep
  <2>9. QED
    BY <1>3, <2>1, <2>2, <2>3, <2>4, <2>5, <2>6, <2>7, <2>8 DEF Worker
<1>4. CASE \E p \in Pushers : Push(p)
  BY <1>1, <1>4 DEF Push, PushEnqueue, PushDuplicate, PushAcquire
<1>5. CASE Settings \/ UNCHANGED vars
  BY <1>1, <1>5 DEF Settings, SetBypass, SetQueueDepth, SetOutputSurface, vars
<1>6. QED
  BY <1>2, <1>3, <1>4, <1>5 DEF Next

-----------------------------------------------------------------------------
(* The theorems.                                                           *)

LoopInv == CustodyInv /\ SessionInv

\* LoopInv is the inductive invariant: the accounting needs to know that no
\* worker runs outside a session, the slots that nothing is counted outside one.
THEOREM LoopCorrect == Spec => []LoopInv
<1>1. Init => LoopInv
  BY CustodyInit, IdleInit, SlotInit DEF LoopInv, SessionInv
<1>2. LoopInv /\ [Next]_vars => LoopInv'
  BY CustodyStep, IdleStep, SlotStep DEF LoopInv, SessionInv, CustodyInv
<1>3. QED
  BY <1>1, <1>2, PTL DEF Spec

\* Every variable keeps its type, whatever fails.
THEOREM TypeCorrect == Spec => []TypeOK
<1>1. LoopInv => TypeOK
  BY DEF LoopInv, CustodyInv
<1>2. QED
  BY <1>1, LoopCorrect, PTL

\* No failure path, dropped frame or shutdown leaks a capture buffer or releases
\* one twice, however many threads push.
THEOREM BuffersAccountedFor == Spec => []RefsBalanced
<1>1. LoopInv => RefsBalanced
  BY DEF LoopInv, CustodyInv
<1>2. QED
  BY <1>1, LoopCorrect, PTL

\* A finished shutdown leaves no queue, worker or context, wherever pushFrame ran.
THEOREM ShutdownIsComplete == Spec => []NothingOutlivesShutdown
<1>1. LoopInv => NothingOutlivesShutdown
  BY DEF LoopInv, SessionInv, IdleOutsideSession, NothingOutlivesShutdown
<1>2. QED
  BY <1>1, LoopCorrect, PTL

\* framegen always takes the frame just copied for the current one, across
\* failed presents, bypassed frames and restarts.
THEOREM SlotParity == Spec => []CurrentSlotIsNewest
<1>1. LoopInv => CurrentSlotIsNewest
  BY DEF LoopInv, SessionInv, FrameIdxInStep, CurrentSlotIsNewest, NewSlot
<1>2. QED
  BY <1>1, LoopCorrect, PTL

-----------------------------------------------------------------------------
(* The loop implements BufferCustody.                                      *)

custodyMap == [f \in Frames |-> CustodyOf(f)]

LEMMA MapStays == ASSUME UNCHANGED <<captures, refs>> PROVE UNCHANGED custodyMap
  BY DEF custodyMap, CustodyOf

\* Releasing frames that are held is giving them back.
LEMMA MapGivesBack ==
  ASSUME TypeOK, RefsBalanced, UNCHANGED captures, NEW S \in SUBSET Frames,
         \A f \in S : f <= captures /\ refs[f] = 1,
         \A f \in Frames : refs'[f] = IF f \in S THEN 0 ELSE refs[f]
  PROVE  Custody!GiveBack(S)
<1>1. \A f \in S : custodyMap[f] = "held"
  BY SMTT(30) DEF custodyMap, CustodyOf, TypeOK
<1>2. \A f \in Frames : CustodyOf(f)' = IF f \in S THEN "done" ELSE custodyMap[f]
  BY SMTT(30) DEF custodyMap, CustodyOf, TypeOK
<1>3. custodyMap' = [f \in Frames |-> IF f \in S THEN "done" ELSE custodyMap[f]]
  BY <1>2 DEF custodyMap
<1>4. QED
  BY <1>1, <1>3 DEF Custody!GiveBack, custodyMap

\* A capture leaves the unseen frames: taken when a reference is acquired,
\* discarded when none is.
LEMMA MapCaptures ==
  ASSUME TypeOK, HeldWasCaptured, RefsBalanced, NEW f, f = captures + 1, f \in Frames, captures' = f,
         NEW r \in {0, 1}, refs' = [refs EXCEPT ![f] = r]
  PROVE  Custody!Take(f) \/ Custody!Discard(f)
<1>1. refs[f] = 0
  BY DEF TypeOK, HeldWasCaptured, RefsBalanced
<1>2. \A g \in Frames : refs'[g] = IF g = f THEN r ELSE refs[g]
  BY DEF TypeOK
<1>3. custodyMap[f] = "unseen"
  BY SMTT(30) DEF custodyMap, CustodyOf, TypeOK
<1>4. \A g \in Frames : CustodyOf(g)' = IF g = f THEN (IF r = 0 THEN "done" ELSE "held")
                                        ELSE custodyMap[g]
  <2>1. f <= captures' /\ refs'[f] = r /\ captures \in Nat
    BY <1>2 DEF TypeOK
  <2>2. CustodyOf(f)' = IF r = 0 THEN "done" ELSE "held"
    BY <2>1 DEF CustodyOf
  <2>3. ASSUME NEW g \in Frames, g # f PROVE CustodyOf(g)' = custodyMap[g]
    <3>1. refs'[g] = refs[g] /\ (g <= captures' <=> g <= captures)
          /\ (g > captures' <=> g > captures)
      BY <1>2, <2>1, <2>3 DEF Frames
    <3>2. QED
      BY SMTT(30), <3>1 DEF custodyMap, CustodyOf
  <2>4. QED
    BY <2>2, <2>3
<1>5. custodyMap' = [custodyMap EXCEPT ![f] = IF r = 0 THEN "done" ELSE "held"]
  BY <1>4 DEF custodyMap
<1>6. QED
  BY <1>3, <1>5 DEF Custody!Take, Custody!Discard, custodyMap

LEMMA RefinementInit == Init => Custody!Init
  BY DEF Init, Custody!Init, CustodyOf

LEMMA RefinementStep ==
  LoopInv /\ [Next]_vars => [Custody!Next]_custodyMap
<1> SUFFICES ASSUME LoopInv, [Next]_vars PROVE Custody!Next \/ UNCHANGED custodyMap
  OBVIOUS
<1> USE DEF LoopInv, CustodyInv, ctlVars, hashVars, queueVars, workVars, slotVars,
            genVars, userVars
<1>1. CASE UNCHANGED <<captures, refs>>
  BY <1>1, MapStays
<1>2. ASSUME NEW f \in Frames, Release(f), refs[f] = 1, UNCHANGED captures
      PROVE  Custody!Next
  <2>1. f <= captures
    BY <1>2 DEF RefsBalanced, HeldWasCaptured
  <2>2. \A g \in Frames : refs'[g] = IF g \in {f} THEN 0 ELSE refs[g]
    BY <1>2 DEF Release, TypeOK
  <2>3. Custody!GiveBack({f})
    BY <1>2, <2>1, <2>2, MapGivesBack
  <2>4. QED
    BY <2>3 DEF Custody!Next
<1>3. ASSUME ReleaseAll(pending), UNCHANGED captures PROVE Custody!Next
  <2> DEFINE S == {f \in Frames : Queued(f)}
  <2>1. \A f \in S : f <= captures /\ refs[f] = 1
    BY DEF RefsBalanced, HeldWasCaptured
  <2>2. \A f \in Frames : refs'[f] = IF f \in S THEN 0 ELSE refs[f]
    BY <1>3, <2>1 DEF ReleaseAll, Queued
  <2>3. Custody!GiveBack(S)
    BY <1>3, <2>1, <2>2, MapGivesBack
  <2>4. QED
    BY <2>3 DEF Custody!Next
<1>4. CASE Control
  BY <1>1, <1>3, <1>4
     DEF Control, InitBegin, InitDone, InitSessionFailed, InitAllocFailed,
         ShutdownBegin, ShutdownJoined, ShutdownTeardown
<1>5. CASE Worker
  <2>1. worker \in Holding => frame \in Frames /\ refs[frame] = 1
    BY DEF HeldWasCaptured, RefsBalanced, Popped
  <2>2. CASE DrainStale
    BY <1>3, <2>2 DEF DrainStale
  <2>3. CASE ImportFrame \/ CopyFrame \/ CopyFailed
    BY <1>1, <1>2, <2>1, <2>3 DEF ImportFrame, CopyFrame, CopyFailed
  <2>4. QED
    BY <1>1, <1>5, <2>2, <2>3
       DEF Worker, Pop, Exit, Decide, Present, PresentThrew, BlitGenerated,
           BlitReal, BlitPassthrough
<1>6. ASSUME NEW p \in Pushers, Push(p) PROVE Custody!Next \/ UNCHANGED custodyMap
  <2>1. CASE PushEnqueue(p)
    <3>1. push[p] \in Frames /\ refs[push[p]] = 1
      BY SMTT(30), <2>1 DEF PushEnqueue, TypeOK, RefsBalanced, Pushed
    <3>2. QueueFull => Head(pending) \in Frames /\ refs[Head(pending)] = 1
      <4>1. Len(<<>>) = 0 /\ queueDepth \in 2..6 /\ pending \in Seq(Frames) /\ NoRepeat(pending)
        BY DEF TypeOK, HoldersDisjoint, NoRepeat
      <4>2. QueueFull => Head(pending) \in Frames /\ Queued(Head(pending))
        BY <4>1, TailElems DEF QueueFull, Queued, Occurs
      <4>3. QED
        BY <4>2 DEF RefsBalanced
    <3>3. QED
      BY <1>1, <1>2, <2>1, <3>1, <3>2 DEF PushEnqueue
  <2>2. ASSUME NEW c \in Contents, PushDuplicate(p, c) PROVE Custody!Next
    <3>1. captures + 1 \in Frames /\ captures' = captures + 1
      BY SMTT(30), <2>2 DEF PushDuplicate, TypeOK
    <3>2. refs[captures + 1] = 0
      BY <3>1 DEF TypeOK, HeldWasCaptured, RefsBalanced
    <3>3. refs' = [refs EXCEPT ![captures + 1] = 0]
      BY SMTT(30), <2>2, <3>1, <3>2 DEF PushDuplicate, TypeOK
    <3>4. QED
      BY <3>1, <3>3, MapCaptures DEF Custody!Next
  <2>3. ASSUME NEW c \in Contents, PushAcquire(p, c) PROVE Custody!Next
    <3>1. captures + 1 \in Frames /\ captures' = captures + 1
      BY SMTT(30), <2>3 DEF PushAcquire, TypeOK
    <3>2. refs[captures + 1] = 0
      BY <3>1 DEF TypeOK, HeldWasCaptured, RefsBalanced
    <3>3. refs' = [refs EXCEPT ![captures + 1] = 1]
      BY <2>3, <3>1, <3>2 DEF PushAcquire, Acquire, TypeOK
    <3>4. QED
      BY <3>1, <3>3, MapCaptures DEF Custody!Next
  <2>4. QED
    BY <1>6, <2>1, <2>2, <2>3 DEF Push
<1>7. CASE Settings \/ UNCHANGED vars
  BY <1>1, <1>7 DEF Settings, SetBypass, SetQueueDepth, SetOutputSurface, vars
<1>8. QED
  BY <1>4, <1>5, <1>6, <1>7 DEF Next

\* The detailed loop implements the abstract promise about capture buffers.
THEOREM LoopRefinesCustody == Spec => CustodySpec
<1>1. Init => Custody!Init
  BY RefinementInit
<1>2. LoopInv /\ [Next]_vars => [Custody!Next]_custodyMap
  BY RefinementStep
<1>3. QED
  BY <1>1, <1>2, LoopCorrect, PTL DEF Spec, CustodySpec, Custody!Spec, custodyMap

-----------------------------------------------------------------------------
(***************************************************************************)
(* The order of the frames, for every number of captures and contents,     *)
(* every queue depth and set of events: with one capture thread a frame    *)
(* never overtakes another on its way to the overlay.                      *)
(***************************************************************************)
USE DEF Busy

Rising(s) == \A i, j \in DOMAIN s : i < j => s[i] < s[j]

-----------------------------------------------------------------------------
(* Rising queues.                                                          *)

LEMMA RisingNoRepeat ==
  ASSUME NEW s \in Seq(Frames), Rising(s) PROVE NoRepeat(s)
<1>1. DOMAIN s \subseteq Nat /\ \A i \in DOMAIN s : s[i] \in Nat
  OBVIOUS
<1>2. ASSUME NEW i \in DOMAIN s, NEW j \in DOMAIN s, s[i] = s[j] PROVE i = j
  <2>1. ~(i < j) /\ ~(j < i)
    BY <1>1, <1>2 DEF Rising
  <2>2. QED
    BY <1>1, <2>1
<1>3. QED
  BY <1>2 DEF NoRepeat

\* Popping leaves what is behind the head.
LEMMA TailRising ==
  ASSUME NEW s \in Seq(Frames), s # <<>>, Rising(s)
  PROVE  /\ Tail(s) \in Seq(Frames) /\ Rising(Tail(s))
         /\ Head(s) \in Frames /\ Occurs(s, Head(s))
         /\ \A g : Occurs(Tail(s), g) => Occurs(s, g) /\ Head(s) < g
<1>1. /\ DOMAIN s = 1..Len(s) /\ Len(s) \in Nat /\ Len(s) >= 1
      /\ Tail(s) \in Seq(Frames) /\ Head(s) = s[1] /\ Head(s) \in Frames
      /\ DOMAIN Tail(s) = 1..(Len(s) - 1)
      /\ \A i \in 1..(Len(s) - 1) : Tail(s)[i] = s[i + 1]
  OBVIOUS
<1>2. Rising(Tail(s))
  <2> SUFFICES ASSUME NEW i \in DOMAIN Tail(s), NEW j \in DOMAIN Tail(s), i < j
               PROVE  Tail(s)[i] < Tail(s)[j]
    BY DEF Rising
  <2>1. /\ Tail(s)[i] = s[i + 1] /\ Tail(s)[j] = s[j + 1] /\ i + 1 < j + 1
        /\ i + 1 \in DOMAIN s /\ j + 1 \in DOMAIN s
    BY <1>1
  <2>2. QED
    BY <2>1 DEF Rising
<1>3. ASSUME NEW i \in DOMAIN Tail(s)
      PROVE  Occurs(s, Tail(s)[i]) /\ Head(s) < Tail(s)[i]
  <2>1. /\ Tail(s)[i] = s[i + 1] /\ 1 < i + 1
        /\ 1 \in DOMAIN s /\ i + 1 \in DOMAIN s
    BY <1>1
  <2>2. QED
    BY <1>1, <2>1 DEF Occurs, Rising
<1>4. Occurs(s, Head(s))
  BY <1>1 DEF Occurs
<1>5. QED
  BY <1>1, <1>2, <1>3, <1>4 DEF Occurs

\* A frame later than the queue is queued at its end.
LEMMA AppendRising ==
  ASSUME NEW s \in Seq(Frames), NEW e \in Frames, Rising(s),
         \A g : Occurs(s, g) => g < e
  PROVE  /\ Append(s, e) \in Seq(Frames) /\ Rising(Append(s, e))
         /\ \A g : Occurs(Append(s, e), g) <=> Occurs(s, g) \/ g = e
<1>1. /\ DOMAIN s = 1..Len(s) /\ Len(s) \in Nat
      /\ DOMAIN Append(s, e) = 1..(Len(s) + 1)
      /\ Append(s, e)[Len(s) + 1] = e
      /\ \A i \in 1..Len(s) : Append(s, e)[i] = s[i]
      /\ Append(s, e) \in Seq(Frames)
  OBVIOUS
<1>2. ASSUME NEW i \in DOMAIN Append(s, e), NEW j \in DOMAIN Append(s, e), i < j
      PROVE  Append(s, e)[i] < Append(s, e)[j]
  <2>1. i \in DOMAIN s /\ Append(s, e)[i] = s[i] /\ Occurs(s, s[i])
    BY <1>1, <1>2 DEF Occurs
  <2>2. CASE j = Len(s) + 1
    BY <1>1, <2>1, <2>2
  <2>3. CASE j # Len(s) + 1
    <3>1. j \in DOMAIN s /\ Append(s, e)[j] = s[j]
      BY <1>1, <2>3
    <3>2. QED
      BY <1>2, <2>1, <3>1 DEF Rising
  <2>4. QED
    BY <2>2, <2>3
<1>3. /\ DOMAIN Append(s, e) = DOMAIN s \union {Len(s) + 1}
  BY <1>1
<1>4. \A g : Occurs(Append(s, e), g) <=> Occurs(s, g) \/ g = e
  BY <1>1, <1>3 DEF Occurs
<1>5. QED
  BY <1>1, <1>2, <1>4 DEF Rising

-----------------------------------------------------------------------------
(* Ways a step moves the line.                                             *)

\* Nobody enters or leaves the queue and the overlay stays as it is.
LEMMA LineStays ==
  ASSUME TypeOK, InLine, UNCHANGED <<pending, push, shown>>,
         captures' \in {captures, captures + 1},
         worker' \in Busy => worker \in Busy /\ frame' = frame
  PROVE  InLine'
<1>1. captures \in Nat /\ captures <= captures' /\ captures' \in Nat /\ shown \in Nat
      /\ frame \in Nat
  BY DEF TypeOK
<1>2. \A f : (Waiting(f)' <=> Waiting(f)) /\ (Queued(f)' <=> Queued(f)) /\ (Pushed(f)' <=> Pushed(f))
  BY DEF Waiting, Queued, Pushed
<1>3. QED
  BY <1>1, <1>2 DEF InLine

\* The queue is dropped; no worker holds a frame.
LEMMA LineDrained ==
  ASSUME InLine, pending' = <<>>, UNCHANGED <<captures, push, shown>>,
         worker' \notin Busy
  PROVE  InLine'
<1>1. \A f : ~Queued(f)' /\ (Waiting(f)' => Waiting(f))
  BY DEF Queued, Waiting, Pushed
<1>2. QED
  BY <1>1 DEF InLine

\* The worker takes the head of the queue.
LEMMA LinePopped ==
  ASSUME TypeOK, CustodyInv, InLine, pending # <<>>, Take,
         UNCHANGED <<captures, push, shown>>
  PROVE  InLine'
<1>1. pending \in Seq(Frames) /\ Rising(pending)
  BY DEF TypeOK, InLine, Rising
<1>2. /\ frame' \in Frames /\ Occurs(pending, frame') /\ Rising(pending')
      /\ \A g : Occurs(pending', g) => Occurs(pending, g) /\ frame' < g
  <2>1. pending' = Tail(pending) /\ frame' = Head(pending)
    BY DEF Take
  <2> HIDE DEF Frames
  <2>2. QED
    BY <1>1, <2>1, TailRising
<1>3. \A g : (Queued(g) <=> Occurs(pending, g)) /\ (Queued(g)' <=> Occurs(pending', g))
             /\ (Pushed(g)' <=> Pushed(g))
  BY DEF Queued, Occurs, Pushed
<1>4. \A g : Waiting(g)' => Waiting(g)
  BY <1>2, <1>3 DEF Waiting
<1>5. Waiting(frame') /\ Queued(frame')
  BY <1>2, <1>3 DEF Waiting
<1>6. shown < frame' /\ frame' <= captures
  BY <1>2, <1>5 DEF InLine, CustodyInv, HeldWasCaptured
<1>7. \A g \in Frames : Waiting(g)' => frame' < g
  BY <1>2, <1>3, <1>5 DEF Waiting, InLine
<1>8. \A f, g \in Frames : Queued(f)' /\ Pushed(g)' => f < g
  BY <1>2, <1>3 DEF InLine
<1>9. QED
  BY <1>2, <1>4, <1>6, <1>7, <1>8 DEF InLine, Rising

\* The frame in work comes to the overlay, or the window is not there.
LEMMA LineShown ==
  ASSUME TypeOK, InLine, worker \in Busy, worker' \notin Busy,
         shown' \in {shown, frame}, UNCHANGED <<captures, pending, push>>
  PROVE  InLine'
<1>1. \A f : (Waiting(f)' <=> Waiting(f)) /\ (Queued(f)' <=> Queued(f)) /\ (Pushed(f)' <=> Pushed(f))
  BY DEF Waiting, Queued, Pushed
<1>2. QED
  BY <1>1 DEF InLine

\* A capture thread that is alone brings a new frame to the end of the line.
LEMMA LineGrows ==
  ASSUME TypeOK, CustodyInv, InLine, \A p, q \in Pushers : p = q,
         NEW p \in Pushers, push[p] = NoFrame, captures < MaxCaptures,
         captures' = captures + 1, push' = [push EXCEPT ![p] = captures'],
         UNCHANGED <<pending, worker, frame, shown>>
  PROVE  InLine'
<1>1. captures \in Nat /\ captures' \in Frames /\ shown \in Nat
  BY DEF TypeOK
<1>2. \A f \in Frames : (Queued(f)' <=> Queued(f)) /\ (Pushed(f)' <=> f = captures')
  BY DEF Queued, Pushed, TypeOK
<1>3. \A f \in Frames : Waiting(f)' => Waiting(f) \/ f = captures'
  BY <1>2 DEF Waiting
<1>4. \A f \in Frames : Queued(f) => f <= captures
  BY DEF CustodyInv, HeldWasCaptured
<1>5. worker' \in Busy => frame' <= captures /\ frame' < captures'
  BY <1>1 DEF InLine
<1>6. QED
  BY <1>1, <1>2, <1>3, <1>4, <1>5 DEF InLine

\* pushFrame refuses the frame, queues it, or drops the head and queues it.
LEMMA LineQueued ==
  ASSUME LoopInv, InLine, \A p, q \in Pushers : p = q,
         NEW p \in Pushers, PushEnqueue(p)
  PROVE  InLine'
<1> DEFINE f == push[p]
<1>1. /\ f \in Frames /\ pending \in Seq(Frames) /\ Rising(pending)
      /\ UNCHANGED <<captures, worker, frame, shown>>
  BY DEF LoopInv, CustodyInv, TypeOK, PushEnqueue, InLine, Rising, workVars
<1>2. Pushed(f) /\ \A g \in Frames : ~Pushed(g)'
  BY <1>1 DEF PushEnqueue, Pushed, LoopInv, CustodyInv, TypeOK
<1>3. \A g : (Queued(g) <=> Occurs(pending, g)) /\ (Queued(g)' <=> Occurs(pending', g))
  BY DEF Queued, Occurs
<1>4. \A g : Occurs(pending, g) => g < f
  <2>1. \A g : Occurs(pending, g) => g \in Frames
    BY <1>1 DEF Occurs
  <2>2. QED
    BY <1>1, <1>2, <1>3, <2>1 DEF InLine
<1>5. /\ Rising(pending')
      /\ \A g : Occurs(pending', g) => Occurs(pending, g) \/ g = f
  <2>1. CASE UNCHANGED pending
    BY <1>1, <2>1
  <2>2. CASE pending' = Append(pending, f)
    <3> HIDE DEF f, Frames
    <3>1. QED
      BY <1>1, <1>4, <2>2, AppendRising
  <2>3. CASE QueueFull /\ pending' = Append(Tail(pending), f)
    <3>1. pending # <<>>
      BY <2>3, DepthsAssumption DEF QueueFull, LoopInv, CustodyInv, TypeOK
    <3> DEFINE t == Tail(pending)
    <3> HIDE DEF f, t, Frames
    <3>2. t \in Seq(Frames) /\ Rising(t) /\ \A g : Occurs(t, g) => Occurs(pending, g)
      BY <1>1, <3>1, TailRising DEF t
    <3>3. pending' = Append(t, f)
      BY <2>3 DEF t
    <3>4. QED
      BY <1>1, <1>4, <3>2, <3>3, AppendRising
  <2>4. QED
    BY <2>1, <2>2, <2>3 DEF PushEnqueue
<1>6. \A g \in Frames : Waiting(g)' => Waiting(g)
  BY <1>2, <1>3, <1>5 DEF Waiting
<1>7. QED
  BY <1>1, <1>2, <1>5, <1>6 DEF InLine, Rising

-----------------------------------------------------------------------------
(* The slot in work.                                                       *)

LEMMA SlotHoldsStep ==
  ASSUME LoopInv, SlotHoldsFrame, [Next]_vars PROVE SlotHoldsFrame'
<1> USE DEF ctlVars, hashVars, queueVars, workVars, slotVars, genVars, userVars
<1>1. CASE UNCHANGED <<presentsDone, slot, worker, frame>>
  BY <1>1 DEF SlotHoldsFrame, NewSlot
<1>2. CASE Control
  BY <1>1, <1>2
     DEF Control, InitBegin, InitDone, InitSessionFailed, InitAllocFailed,
         ShutdownBegin, ShutdownJoined, ShutdownTeardown, SlotHoldsFrame,
         LoopInv, SessionInv, IdleOutsideSession
<1>3. CASE DrainStale \/ Pop \/ Exit \/ ImportFrame \/ CopyFailed \/ PresentThrew
           \/ BlitReal \/ BlitPassthrough
  BY <1>3 DEF DrainStale, Pop, Exit, ImportFrame, CopyFailed, PresentThrew,
              BlitReal, BlitPassthrough, SlotHoldsFrame
<1>4. CASE CopyFrame
  <2>1. slot'[presentsDone % 2] = frame
    BY <1>4, ModTwo DEF CopyFrame, WriteSlots, NewSlot, TypeOK, LoopInv, CustodyInv
  <2>2. QED
    BY <1>4, <2>1 DEF CopyFrame, SlotHoldsFrame, NewSlot
<1>5. CASE Decide \/ Present \/ BlitGenerated
  BY <1>5 DEF Decide, Present, BlitGenerated, SlotHoldsFrame, NewSlot
<1>6. CASE \E p \in Pushers : Push(p)
  BY <1>1, <1>6 DEF Push, PushEnqueue, PushDuplicate, PushAcquire
<1>7. CASE Settings \/ UNCHANGED vars
  BY <1>1, <1>7 DEF Settings, SetBypass, SetQueueDepth, SetOutputSurface, vars
<1>8. QED
  BY <1>2, <1>3, <1>4, <1>5, <1>6, <1>7 DEF Next, Worker

-----------------------------------------------------------------------------
(* The line.                                                               *)

LEMMA LineInit == Init => InLine /\ SlotHoldsFrame
  BY DEF Init, InLine, SlotHoldsFrame, Waiting, Queued, Pushed

LEMMA LineStep ==
  ASSUME \A p, q \in Pushers : p = q,
         LoopInv, SlotHoldsFrame, InLine, [Next]_vars
  PROVE  InLine' /\ (shown' # shown => shown' > shown)
<1> USE DEF ctlVars, hashVars, queueVars, workVars, slotVars, genVars, userVars,
            LoopInv, CustodyInv
<1>1. CASE /\ UNCHANGED <<pending, push, shown>>
           /\ captures' \in {captures, captures + 1}
           /\ worker' \in Busy => worker \in Busy /\ frame' = frame
  BY <1>1, LineStays
<1>2. CASE DrainStale \/ ShutdownTeardown
  BY <1>2, LineDrained
     DEF DrainStale, ShutdownTeardown, SessionInv, IdleOutsideSession
<1>3. CASE Pop
  BY <1>3, LinePopped DEF Pop
<1>4. CASE BlitReal \/ BlitPassthrough
  <2>1. shown' \in {shown, frame} /\ worker \in Busy
    BY <1>4 DEF BlitReal, BlitPassthrough, ShowReal, SlotHoldsFrame
  <2>2. InLine'
    BY <1>4, <2>1, LineShown DEF BlitReal, BlitPassthrough
  <2>3. QED
    BY <2>1, <2>2 DEF InLine
<1>5. ASSUME NEW p \in Pushers, Push(p) PROVE InLine' /\ shown' = shown
  <2>1. CASE PushEnqueue(p)
    BY <2>1, LineQueued DEF PushEnqueue
  <2>2. ASSUME NEW c \in Contents, PushDuplicate(p, c) PROVE InLine' /\ shown' = shown
    BY <1>1, <2>2 DEF PushDuplicate
  <2>3. ASSUME NEW c \in Contents, PushAcquire(p, c) PROVE InLine' /\ shown' = shown
    BY <2>3, LineGrows DEF PushAcquire
  <2>4. QED
    BY <1>5, <2>1, <2>2, <2>3 DEF Push
<1>6. CASE Control
  BY <1>1, <1>2, <1>6
     DEF Control, InitBegin, InitDone, InitSessionFailed, InitAllocFailed,
         ShutdownBegin, ShutdownJoined
<1>7. CASE Worker
  BY <1>1, <1>2, <1>3, <1>4, <1>7
     DEF Worker, Exit, ImportFrame, CopyFrame, CopyFailed, Decide, Present,
         PresentThrew, BlitGenerated
<1>8. CASE Settings \/ UNCHANGED vars
  BY <1>1, <1>8 DEF Settings, SetBypass, SetQueueDepth, SetOutputSurface, vars
<1>9. QED
  BY <1>5, <1>6, <1>7, <1>8 DEF Next

-----------------------------------------------------------------------------
(* The theorems.                                                           *)

\* Two threads may enqueue their captures in the other order.
OneCaptureThread == \A p, q \in Pushers : p = q

\* The real frames on the overlay are in capture order, over dropped and failed
\* frames, bypass, changes of the queue's depth and new sessions.
THEOREM CaptureOrder == ASSUME OneCaptureThread PROVE Spec => OverlayInOrder
<1>1. Init => InLine /\ SlotHoldsFrame
  BY LineInit
<1>2. LoopInv /\ (InLine /\ SlotHoldsFrame) /\ [Next]_vars => (InLine /\ SlotHoldsFrame)'
  BY LineStep, SlotHoldsStep, OneCaptureThread DEF OneCaptureThread
<1>3. LoopInv /\ InLine /\ SlotHoldsFrame /\ [Next]_vars => [shown' > shown]_shown
  BY LineStep, OneCaptureThread DEF OneCaptureThread
<1>4. QED
  BY <1>1, <1>2, <1>3, LoopCorrect, PTL DEF Spec, OverlayInOrder

\* One capture drops at most one frame, yet a depth lowered under a full queue
\* never lets it grow past the deepest setting.
THEOREM QueueStaysBounded == Spec => []QueueBounded
<1>1. Init => QueueBounded
  BY DepthsAssumption DEF Init, QueueBounded
<1>2. ASSUME LoopInv, QueueBounded, [Next]_vars PROVE QueueBounded'
  <2> USE DEF ctlVars, hashVars, queueVars, workVars, slotVars, genVars, userVars
  <2>1. pending \in Seq(Frames) /\ queueDepth \in Depths /\ Depths \subseteq Nat
    BY <1>2, DepthsAssumption DEF LoopInv, CustodyInv, TypeOK
  <2>2. CASE pending' = <<>> \/ UNCHANGED pending
    BY <1>2, <2>1, <2>2 DEF QueueBounded
  <2>3. CASE Pop
    <3>1. pending # <<>> /\ pending' = Tail(pending)
      BY <2>3 DEF Pop, Take
    <3>2. Len(pending') = Len(pending) - 1 /\ Len(pending) \in Nat
      BY <2>1, <3>1
    <3>3. QED
      BY <1>2, <2>1, <3>2 DEF QueueBounded
  <2>4. ASSUME NEW p \in Pushers, PushEnqueue(p) PROVE QueueBounded'
    <3>1. push[p] \in Frames
      BY <1>2, <2>4 DEF PushEnqueue, LoopInv, CustodyInv, TypeOK
    <3>2. CASE ~QueueFull /\ pending' = Append(pending, push[p])
      <4>1. Len(pending') = Len(pending) + 1 /\ Len(pending) \in Nat
        BY <2>1, <3>1, <3>2
      <4>2. Len(pending') <= queueDepth
        BY <2>1, <3>2, <4>1 DEF QueueFull
      <4>3. QED
        BY <2>1, <2>4, <4>2 DEF QueueBounded
    <3>3. CASE QueueFull /\ pending' = Append(Tail(pending), push[p])
      <4>1. pending # <<>>
        BY <2>1, <3>3, DepthsAssumption DEF QueueFull
      <4>2. Len(pending') = Len(pending)
        BY <2>1, <3>1, <3>3, <4>1
      <4>3. QED
        BY <1>2, <4>2 DEF QueueBounded
    <3>4. QED
      BY <2>2, <2>4, <3>2, <3>3 DEF PushEnqueue
  <2>5. QED
    BY <1>2, <2>2, <2>3, <2>4
       DEF Next, Control, InitBegin, InitDone, InitSessionFailed, InitAllocFailed,
           ShutdownBegin, ShutdownJoined, ShutdownTeardown, Worker, DrainStale, Exit,
           ImportFrame, CopyFrame, CopyFailed, Decide, Present, PresentThrew,
           BlitGenerated, BlitReal, BlitPassthrough, Push, PushDuplicate,
           PushAcquire, Settings, SetBypass, SetQueueDepth, SetOutputSurface, vars
<1>3. QED
  BY <1>1, <1>2, LoopCorrect, PTL DEF Spec
=============================================================================
