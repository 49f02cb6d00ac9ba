----------------------------- MODULE MCCanFeed -----------------------------
(* CanFeed for TLC: three transfers through a queue of two cells.           *)
EXTENDS CanFeed
MCTransfers == <<3, 1, 1>>
=============================================================================
