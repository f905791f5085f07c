------------------------- MODULE MCPrivilegedCapture -------------------------
(* Instances of PrivilegedCapture for TLC.                                 *)
EXTENDS PrivilegedCapture

AllEvents == EnvEvents
InTurn == EnvEvents \ {"earlyReinit", "slowReinit"}
NoEvents == {}
=============================================================================
