----------------------------- MODULE MCServices -----------------------------
(***************************************************************************)
(* The services of the board on small rings and queues that wrap several   *)
(* times, each with more bytes, lines or transactions than it holds, and a *)
(* few crashes, resets, calls and mishaps in any order.                    *)
(***************************************************************************)
EXTENDS Services

(* Payloads that look like the beginning of a frame which reaches into     *)
(* those behind it, known or unknown.                                      *)
LookAlikes == {<<>>, <<7, 1>>, <<7, 2, 0, 1>>, <<7, 3, 0, 2>>}
=============================================================================
