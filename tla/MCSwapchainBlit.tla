-------------------------- MODULE MCSwapchainBlit --------------------------
(* Instances of SwapchainBlit for TLC.                                     *)
EXTENDS SwapchainBlit

Skips == {"ringFail", "submitFail", "acquireTimeout"}
OnlyBypass == {"bypass"}
OnlyTimeout == {"acquireTimeout"}
AllEvents == EnvEvents
=============================================================================
