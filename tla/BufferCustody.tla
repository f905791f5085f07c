--------------------------- MODULE BufferCustody ---------------------------
(***************************************************************************)
(* What the render loop promises the capture side about the buffers it is  *)
(* handed: a reference is taken at most once and returned exactly once,    *)
(* and a buffer that was discarded is never touched again.  pushFrame      *)
(* (lsfg_render_loop.hpp) keeps a buffer valid past the caller's           *)
(* Image.close() and processes it asynchronously; when it gives it back,   *)
(* and why, is left open here.                                             *)
(***************************************************************************)
EXTENDS Naturals

CONSTANT Buffers

VARIABLE custody

Init == custody = [b \in Buffers |-> "unseen"]

\* A capture is recognised as a duplicate: no reference is taken.
Discard(b) == custody[b] = "unseen" /\ custody' = [custody EXCEPT ![b] = "done"]

Take(b) == custody[b] = "unseen" /\ custody' = [custody EXCEPT ![b] = "held"]

\* Some held buffers are given back: one, or all that were queued.
GiveBack(S) ==
  /\ \A b \in S : custody[b] = "held"
  /\ custody' = [b \in Buffers |-> IF b \in S THEN "done" ELSE custody[b]]

Next ==
  \/ \E b \in Buffers : Discard(b) \/ Take(b)
  \/ \E S \in SUBSET Buffers : GiveBack(S)

Spec == Init /\ [][Next]_custody
=============================================================================
