---------------------------- MODULE MCRenderLoop ----------------------------
(* Instances of RenderLoop for TLC.                                        *)
EXTENDS RenderLoop, TLC

CONSTANTS c1, c2, p1, p2

TwoContents == {c1, c2}
OnePusher == {p1}
TwoPushers == {p1, p2}

NoEvents == {}
Failures == {"hashFail", "importFail", "copyFail", "presentThrow",
             "deviceLost", "suppress", "noFramegen", "sessionFail", "detach"}
Attached == (Failures \ {"detach", "hashFail"}) \union {"bypass"}
AllEvents == EnvEvents
OnlyDeviceLost == {"deviceLost"}
OnlyAllocFail == {"allocFail", "sessionFail"}
OnlyImportFail == {"importFail"}
OnlyBypass == {"bypass"}
=============================================================================
