------------------------------ MODULE Commands ------------------------------
(***************************************************************************)
(* The host command mailboxes (struct CmdBox, src/src/main.c).  A frame    *)
(* from the host is stored over the box of its message, by the CAN receive *)
(* interrupt or, with the USB transport, by the main loop before it        *)
(* decodes; cmd_decode looks at the boxes in a fixed order, each through   *)
(* the sequence-checked copy of cmd_snapshot.  One action is one access of *)
(* the thread to a box the interrupt may store to.  A byte is represented  *)
(* by the number of the frame that brought it, counted over all frames.    *)
(***************************************************************************)
EXTENDS Integers, Sequences

CONSTANTS
  Box,        \* the messages
  Order,      \* Order[n]: the box cmd_decode looks at n-th
  InitBox,    \* FDM_INIT: trim, which also moves the aircraft to the origin
  PosBox,     \* FDM_POS: move the aircraft
  Width,      \* bytes of a command
  Tries,      \* copies cmd_snapshot attempts
  Transports, \* the builds looked at: "can", "usb"
  MaxFrames   \* bound: frames of the host

ASSUME CommandsAssumption ==
  /\ Order \in Seq(Box)
  /\ \A b \in Box : \E n \in 1 .. Len(Order) : Order[n] = b
  /\ InitBox \in Box /\ PosBox \in Box /\ InitBox # PosBox
  /\ \A m, n \in 1 .. Len(Order) : Order[m] = InitBox /\ Order[n] = PosBox => m < n
  /\ Width \in Nat \ {0} /\ Tries \in Nat \ {0} /\ MaxFrames \in Nat
  /\ Transports \subseteq {"can", "usb"}

VARIABLES
  link,    \* the transport the program was built for
  data,    \* data[b]: the bytes of the box
  len,     \* len[b]: the length of the last frame
  seq,     \* seq[b]: frames stored
  nframes, \* frames of the host so far (bound)
  pc,      \* where the thread is: "round" and "drain" outside cmd_decode
  at,      \* index of the box it looks at
  try,     \* copies begun for it
  s,       \* cmd_snapshot's s
  i,       \* the next byte it copies
  p,       \* the bytes copied
  last,    \* last[b]: the sequence number last taken, cmd_decode's statics
  taken,   \* taken[b]: the copies decoded, in order
  where    \* the FDM_POS frame that placed the aircraft, 0 for the origin

boxes == <<data, len, seq>>
copy  == <<try, s, i, p>>
done  == <<last, taken, where>>
vars  == <<link, boxes, nframes, pc, at, copy, done>>

Byte == 1 .. Width

------------------------------------------------------------------------------

(* cmd_store, whole as far as the thread can tell: in the interrupt above  *)
(* it, or in the main loop's own drain of the USB lines.  The CAN host is  *)
(* assumed to keep to whole frames, see the README.                        *)
Receive(b, n) ==
  /\ nframes < MaxFrames
  /\ link = "usb" => pc = "drain"
  /\ link = "can" => n = Width
  /\ nframes' = nframes + 1
  /\ data' = [data EXCEPT ![b] = [k \in Byte |-> IF k <= n THEN nframes' ELSE @[k]]]
  /\ len' = [len EXCEPT ![b] = n]
  /\ seq' = [seq EXCEPT ![b] = @ + 1]
  /\ UNCHANGED <<link, pc, at, copy, done>>

Round ==
  /\ pc = "round"
  /\ pc' = IF link = "usb" THEN "drain" ELSE "read"
  /\ UNCHANGED <<link, boxes, nframes, at, copy, done>>

EndDrain ==
  /\ pc = "drain"
  /\ pc' = "read"
  /\ UNCHANGED <<link, boxes, nframes, at, copy, done>>

(* A fault, for the mutants: the boxes in the opposite order.              *)
SlotReversed(n) == Order[Len(Order) + 1 - n]

(* The order of the cmd_snapshot calls in cmd_decode.                      *)
Slot(n) == Order[n]

(* On to the next box, or out of cmd_decode.                               *)
Advance ==
  /\ IF at < Len(Order) THEN at' = at + 1 /\ pc' = "read"
                        ELSE at' = 1 /\ pc' = "round"
  /\ try' = 0 /\ s' = 0 /\ i' = 1 /\ p' = [k \in Byte |-> 0]

ReadSeq ==
  /\ pc = "read"
  /\ s' = seq[Slot(at)]
  /\ try' = try + 1 /\ i' = 1
  /\ pc' = "copy"
  /\ UNCHANGED <<link, boxes, nframes, at, p, done>>

CopyByte ==
  /\ pc = "copy"
  /\ p' = [p EXCEPT ![i] = data[Slot(at)][i]]
  /\ IF i < Width THEN i' = i + 1 /\ UNCHANGED pc
                  ELSE pc' = "check" /\ UNCHANGED i
  /\ UNCHANGED <<link, boxes, nframes, at, try, s, done>>

(* A fault, for the mutants: the sequence number is not read again.        *)
NoRecheck ==
  /\ pc = "check"
  /\ IF s = last[Slot(at)]
     THEN Advance
     ELSE pc' = "len" /\ UNCHANGED <<at, copy>>
  /\ UNCHANGED <<link, boxes, nframes, done>>

(* A fault, for the mutants: a frame that changed under the copy counts as *)
(* seen.                                                                   *)
SkippingRecheck ==
  /\ pc = "check"
  /\ IF seq[Slot(at)] # s
     THEN last' = [last EXCEPT ![Slot(at)] = seq[Slot(at)]] /\ Advance
     ELSE /\ IF s = last[Slot(at)]
             THEN Advance
             ELSE pc' = "len" /\ UNCHANGED <<at, copy>>
          /\ UNCHANGED last
  /\ UNCHANGED <<link, boxes, nframes, taken, where>>

(* The sequence number again: copy once more, no news, or a stable copy.   *)
Recheck ==
  /\ pc = "check"
  /\ IF seq[Slot(at)] # s
     THEN IF try < Tries THEN pc' = "read" /\ UNCHANGED <<at, copy>> ELSE Advance
     ELSE IF s = last[Slot(at)]
          THEN Advance
          ELSE pc' = "len" /\ UNCHANGED <<at, copy>>
  /\ UNCHANGED <<link, boxes, nframes, done>>

(* What cmd_decode does to the aircraft's position: the trim may refuse,   *)
(* and moves to the origin when it does not.                               *)
Apply(b) ==
  CASE b = InitBox -> where' \in {where, 0}
    [] b = PosBox -> where' = p[1]
    [] OTHER -> UNCHANGED where

(* The length, read last of all; then the copy is decoded.                 *)
LenCheck ==
  /\ pc = "len"
  /\ LET b == Slot(at)
     IN  IF len[b] < Width
         THEN UNCHANGED done
         ELSE /\ last' = [last EXCEPT ![b] = s]
              /\ taken' = [taken EXCEPT ![b] = Append(@, p)]
              /\ Apply(b)
  /\ Advance
  /\ UNCHANGED <<link, boxes, nframes>>

Init ==
  /\ link \in Transports
  /\ data = [b \in Box |-> [k \in Byte |-> 0]]
  /\ len = [b \in Box |-> 0] /\ seq = [b \in Box |-> 0]
  /\ nframes = 0
  /\ pc = "round" /\ at = 1 /\ try = 0 /\ s = 0 /\ i = 1 /\ p = [k \in Byte |-> 0]
  /\ last = [b \in Box |-> 0] /\ taken = [b \in Box |-> <<>>]
  /\ where = 0

Thread == Round \/ EndDrain \/ ReadSeq \/ CopyByte \/ Recheck \/ LenCheck

Next == Thread \/ \E b \in Box : \E n \in 0 .. Width : Receive(b, n)

Spec == Init /\ [][Next]_vars

(* The main loop never stops.                                              *)
FairSpec == Spec /\ WF_vars(Thread)

------------------------------------------------------------------------------

(* Every variable stays in its type, the attempts within their bound.      *)
TypeOK ==
  /\ link \in Transports
  /\ data \in [Box -> [Byte -> 0 .. nframes]] /\ len \in [Box -> 0 .. Width]
  /\ seq \in [Box -> Nat] /\ nframes \in 0 .. MaxFrames
  /\ pc \in {"round", "drain", "read", "copy", "check", "len"}
  /\ at \in 1 .. Len(Order) /\ try \in 0 .. Tries
  /\ s \in Nat /\ i \in Byte /\ p \in [Byte -> 0 .. nframes]
  /\ last \in [Box -> Nat] /\ taken \in [Box -> Seq([Byte -> 0 .. nframes])]
  /\ where \in 0 .. nframes

(* A stable copy of a whole frame is as good as taken: nothing the thread  *)
(* reads from here on changes that.                                        *)
Pending(b) == pc = "len" /\ Slot(at) = b /\ len[b] = Width

Mail == INSTANCE Mailbox WITH
          Whole <- {[k \in Byte |-> n] : n \in 1 .. MaxFrames},
          Truncated <- <<>>,
          newest <- [b \in Box |-> IF len[b] = Width THEN data[b] ELSE <<>>],
          fresh <- [b \in Box |-> IF Pending(b) THEN seq[b] # s ELSE seq[b] # last[b]],
          taken <- [b \in Box |-> IF Pending(b) THEN Append(taken[b], p) ELSE taken[b]]

(* Each command decoded is one whole frame, the newest of its message, and *)
(* is decoded once (cmd_snapshot, "seq-stable copy against the RX irq"),   *)
(* however the interrupt falls into the copy.                              *)
MailKept == Mail!Spec

(* The copy last decoded for b is the frame in its box.                    *)
Decoded(b) == taken[b] # <<>> /\ taken[b][Len(taken[b])] = data[b]

(* A whole command, or the whole one that replaced it, is decoded, though  *)
(* its copy may fail and be put off (cmd_snapshot: "the next 1 kHz slot    *)
(* retries").                                                              *)
NewestDecoded == \A b \in Box : len[b] = Width ~> (Decoded(b) \/ len[b] # Width)

(* Both boxes hold a whole frame, and it has been decoded.                 *)
Settled ==
  /\ pc = "round"
  /\ \A b \in {InitBox, PosBox} : len[b] = Width /\ Decoded(b)

(* An air start followed by its position ends there: over USB no round of  *)
(* the main loop takes the position and leaves the older trim for the next *)
(* (cmd_decode: "pair with FDM_INIT for a full air-start at the new        *)
(* position").                                                             *)
AirStartPlaced ==
  link = "usb" /\ Settled /\ data[InitBox][1] < data[PosBox][1] =>
    where = data[PosBox][1]
=============================================================================
