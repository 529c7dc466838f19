--------------------------- MODULE MCVelocityLoop ---------------------------
(***************************************************************************)
(* Numbers for TLC: about a twentieth of the code's, in its proportions.   *)
(***************************************************************************)
EXTENDS VelocityLoop

SmallTargets == {-4, 1, 4}
SmallPwms == {-5, 10}
SmallSpeeds == {-9, 0, 9}
SmallYawCorrections == {-6, 6}
=============================================================================
