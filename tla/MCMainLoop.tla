----------------------------- MODULE MCMainLoop -----------------------------
(***************************************************************************)
(* A lag the ring reaches back to and one it does not.  One sensor that    *)
(* takes single shots: the accumulators do not touch each other, and its   *)
(* sample costs what those of all four do.  A step of the six degrees of   *)
(* freedom takes as long as two ticks and a half.                          *)
(***************************************************************************)
EXTENDS MainLoop

AllLags == {3, 8}
=============================================================================
