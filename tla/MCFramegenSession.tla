------------------------- MODULE MCFramegenSession -------------------------
(* Instances of FramegenSession for TLC.                                   *)
EXTENDS FramegenSession

CONSTANTS low, high

TwoConfigs == {low, high}
AllEvents == EnvEvents
OnlyThrow == {"throw"}
NoEvents == {}
AllFailures == {"instanceThrows", "deviceThrows", "poolsThrow", "contextThrows"}
OnlyDevice == {"deviceThrows"}
=============================================================================
