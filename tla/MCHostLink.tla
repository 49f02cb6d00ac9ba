---------------------------- MODULE MCHostLink ----------------------------
(* Three lines through a FIFO of three pieces, a bus reset in between.     *)
EXTENDS HostLink
=============================================================================
