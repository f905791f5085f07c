------------------------- MODULE MCForegroundSession -------------------------
(* Bounds for checking ForegroundSession.                                  *)
EXTENDS ForegroundSession

Portrait  == <<1, 2>>
Landscape == <<2, 1>>
Rotations == {Portrait, Landscape}

OneSize == {Portrait}
AllButSlow == EnvEvents \ {"slowReinit"}
=============================================================================
