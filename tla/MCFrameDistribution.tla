------------------------ MODULE MCFrameDistribution ------------------------
(* Model checking FrameDistribution; the constants are given in the cfg    *)
(* files.                                                                  *)
EXTENDS FrameDistribution
=============================================================================
