------------------------------ MODULE Mailbox ------------------------------
(***************************************************************************)
(* What the command boxes of src/src/main.c promise: a box holds the       *)
(* newest frame of its message; a frame is taken whole, at most once, and  *)
(* only while it is the newest; a truncated frame is never taken           *)
(* (src/src/canmsg.h, "All command frames are 8 bytes").                   *)
(***************************************************************************)
EXTENDS Sequences

CONSTANTS Box, Whole, Truncated

VARIABLES
  newest,  \* newest[b]: the last frame received
  fresh,   \* fresh[b]: it was neither taken nor there at the start
  taken    \* taken[b]: the frames taken so far, in order

vars == <<newest, fresh, taken>>

Init ==
  /\ newest = [b \in Box |-> Truncated]
  /\ fresh = [b \in Box |-> FALSE]
  /\ taken = [b \in Box |-> <<>>]

Arrive(b) ==
  /\ \E f \in Whole \union {Truncated} : newest' = [newest EXCEPT ![b] = f]
  /\ fresh' = [fresh EXCEPT ![b] = TRUE]
  /\ UNCHANGED taken

Take(b) ==
  /\ fresh[b] /\ newest[b] \in Whole
  /\ taken' = [taken EXCEPT ![b] = Append(@, newest[b])]
  /\ fresh' = [fresh EXCEPT ![b] = FALSE]
  /\ UNCHANGED newest

Next == \E b \in Box : Arrive(b) \/ Take(b)

Spec == Init /\ [][Next]_vars
=============================================================================
