-------------------------- MODULE MCCameraControl --------------------------
(* Model checking CameraControl; the constants are given in the cfg files. *)
EXTENDS CameraControl
=============================================================================
