--------------------------- MODULE MCDriveControl ---------------------------
(* DriveControl on a small scale of time and speed for TLC. *)
EXTENDS DriveControl

MCSweepSteps == <<0, 100>>
=============================================================================
