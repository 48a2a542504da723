---------------------------- MODULE MCEncoderPool ----------------------------
(* EncoderPool with a few buffers; nothing has to be defined for it. *)
EXTENDS EncoderPool

=============================================================================
