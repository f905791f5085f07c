-------------------------- MODULE MCOutputSurface --------------------------
(* Instances of OutputSurface for TLC.                                     *)
EXTENDS OutputSurface, TLC

CONSTANTS w1, w2, dark1, dark2, bright

TwoWindows == {w1, w2}
AllContents == {dark1, dark2, bright}
DarkContents == {dark1, dark2}

AllEvents == EnvEvents
OnlyCpuPost == {"cpuPost"}
OnlyBlitFail == {"blitFail"}
OnlyReattach == {"reattach", "cpuPost"}
OnlyReplace == {"replace", "cpuPost"}
=============================================================================
