---------------------------- MODULE RegisterPort ----------------------------
(***************************************************************************)
(* What the SPI slave engine promises the rest of the harness              *)
(* (src/src/nlib/spislave.h, "Register-file integrity"): the bus sees each *)
(* device as a file of cells that changes only in whole samples, single    *)
(* master writes and the side effects of a frame that has ended, and none  *)
(* of them happens to a device while a read burst is streaming it; only a  *)
(* resync of the sensor layer cuts a burst short.                          *)
(***************************************************************************)
EXTENDS Integers, Sequences

CONSTANTS
  Dev, None,
  Cell, Byte,
  Writable,   \* Writable[d]: the cells the master may write
  Fill        \* the queue entry covering a slot that carries no data

VARIABLES
  file,   \* file[d][c]: the content the bus would see
  burst,  \* the device being streamed, or None
  next,   \* the cell streamed next
  queue   \* what is queued towards the master

vars == <<file, burst, next, queue>>

Init ==
  /\ file \in [Dev -> [Cell -> Byte]]
  /\ burst = None /\ next \in Int /\ queue = <<Fill>>

(* A sample replaces any part of a device's file, at once. *)
Sample(d) ==
  /\ burst # d
  /\ file' \in [Dev -> [Cell -> Byte]]
  /\ \A e \in Dev \ {d} : file'[e] = file[e]
  /\ UNCHANGED <<burst, next, queue>>

(* The master writes one cell. *)
Store(d) ==
  /\ burst # d
  /\ \E c \in Writable[d], v \in Byte : file' = [file EXCEPT ![d][c] = v]
  /\ UNCHANGED <<burst, next, queue>>

BurstBegin(d) ==
  /\ burst = None
  /\ burst' = d /\ next' \in Cell
  /\ UNCHANGED <<file, queue>>

(* The streamed bytes are consecutive cells of the file as it is now. *)
Ship ==
  /\ burst # None /\ next \in Cell
  /\ queue' = Append(queue, file[burst][next])
  /\ next' = next + 1
  /\ UNCHANGED <<file, burst>>

Shift ==
  /\ queue # <<>> /\ queue' = Tail(queue)
  /\ UNCHANGED <<file, burst, next>>

(* Dummy slots are queued ahead of a burst, never into one. *)
Cover ==
  /\ burst = None
  /\ \E n \in 0 .. Len(queue') : queue' = queue \o [i \in 1 .. n |-> Fill]
  /\ UNCHANGED <<file, burst, next>>

(* The frame of d ends: what was queued is dropped, registers may clear. *)
FrameEnd(d) ==
  /\ burst \in {None, d}
  /\ burst' = None
  /\ \E n \in 0 .. Len(queue') : queue' = [i \in 1 .. n |-> Fill]
  /\ \E C \in SUBSET Cell :
       file' = [file EXCEPT ![d] = [c \in Cell |-> IF c \in C THEN 0 ELSE @[c]]]
  /\ UNCHANGED next

(* The sensor layer starts over: the burst and what was queued are dropped, *)
(* the files return to some whole content.                                 *)
Reset ==
  /\ burst' = None /\ queue' = <<>>
  /\ file' \in [Dev -> [Cell -> Byte]]
  /\ UNCHANGED next

Next ==
  \/ \E d \in Dev : Sample(d) \/ Store(d) \/ BurstBegin(d) \/ FrameEnd(d)
  \/ Ship \/ Shift \/ Cover \/ Reset

Spec == Init /\ [][Next]_vars
=============================================================================
