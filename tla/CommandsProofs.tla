--------------------------- MODULE CommandsProofs ---------------------------
(***************************************************************************)
(* Theorems about the command mailboxes, for any set of messages, size of  *)
(* a command, number of attempts and number of frames: type correctness,   *)
(* that the sequence-checked copy implements Mailbox, and that over USB an *)
(* air start ends at its position.                                         *)
(***************************************************************************)
EXTENDS Commands, TLAPS

(* The frames the host may send whole.                                     *)
Frame(n) == [k \in Byte |-> n]
Frames == {Frame(n) : n \in 1 .. MaxFrames}

(* A box of full length holds one frame; over CAN every box stored to is   *)
(* of full length; no sequence number is taken before it was given.        *)
BoxInv ==
  \A b \in Box :
    /\ len[b] = Width => data[b] \in Frames
    /\ link = "can" /\ seq[b] # 0 => len[b] = Width
    /\ last[b] <= seq[b]

(* The bytes copied are those of the box as long as its sequence number    *)
(* stands; past the second look the copy is the frame of that number.      *)
CopyInv ==
  LET b == Slot(at)
  IN  /\ pc \in {"copy", "check", "len"} => s <= seq[b]
      /\ pc = "copy" /\ seq[b] = s => \A k \in 1 .. i - 1 : p[k] = data[b][k]
      /\ pc = "check" /\ seq[b] = s => p = data[b]
      /\ pc = "len" => s # 0
      /\ pc = "len" /\ len[b] = Width => p \in Frames
      /\ pc \in {"round", "drain", "read"} => try < Tries

IInv == TypeOK /\ BoxInv /\ CopyInv

(* The parts of the assumption, so that a step need not carry all of it.   *)
LEMMA Sizes == /\ Width \in Nat /\ Width > 0
               /\ Tries \in Nat /\ Tries > 0
               /\ MaxFrames \in Nat
BY CommandsAssumption

(* The program is built for one of the two transports.                     *)
LEMMA Builds == Transports \subseteq {"can", "usb"}
BY CommandsAssumption

(* cmd_decode looks at one box at least.                                   *)
LEMMA OrderLen == Len(Order) \in Nat /\ Len(Order) > 0
<1>1. Order \in Seq(Box) /\ Len(Order) \in Nat
  BY CommandsAssumption
<1>2. PICK n \in 1 .. Len(Order) : Order[n] = InitBox
  BY CommandsAssumption
<1>3. QED
  BY <1>1, <1>2

(* The order names boxes only.                                             *)
LEMMA SlotIn ==
  ASSUME TypeOK
  PROVE  Slot(at) \in Box
<1>1. Order \in Seq(Box) /\ at \in 1 .. Len(Order)
  BY CommandsAssumption DEF TypeOK
<1>2. QED
  BY <1>1 DEF Slot

(* A frame stored whole is one of the host's frames.                       *)
LEMMA FrameIn ==
  ASSUME NEW n \in 1 .. MaxFrames
  PROVE  Frame(n) \in Frames
BY DEF Frames

(* More frames, more bytes there may be in a copy.                         *)
LEMMA FramesGrow ==
  ASSUME NEW m \in Nat, NEW n \in Nat, m <= n
  PROVE  /\ [Byte -> 0 .. m] \subseteq [Byte -> 0 .. n]
         /\ Seq([Byte -> 0 .. m]) \subseteq Seq([Byte -> 0 .. n])
<1>1. 0 .. m \subseteq 0 .. n
  OBVIOUS
<1>2. [Byte -> 0 .. m] \subseteq [Byte -> 0 .. n]
  BY <1>1
<1>3. QED
  BY <1>2

(* The boxes start empty and no copy is under way.                         *)
LEMMA InitInv == Init => IInv
<1> SUFFICES ASSUME Init PROVE IInv
  OBVIOUS
<1>1. TypeOK
  BY Sizes, OrderLen DEF Init, TypeOK, Byte
<1>2. BoxInv
  <2> SUFFICES ASSUME NEW b \in Box
               PROVE  /\ len[b] # Width
                      /\ seq[b] = 0
                      /\ last[b] <= seq[b]
    BY DEF BoxInv
  <2>1. len[b] = 0 /\ seq[b] = 0 /\ last[b] = 0
    BY DEF Init
  <2>2. QED
    BY <2>1, Sizes
<1>3. CopyInv
  BY Sizes DEF Init, CopyInv
<1> QED BY <1>1, <1>2, <1>3 DEF IInv

(* Storing a frame ends the standing of every copy of that box.            *)
LEMMA ReceiveInv ==
  ASSUME IInv, NEW c \in Box, NEW n \in 0 .. Width, Receive(c, n)
  PROVE  IInv'
<1> USE DEF IInv
<1>1. /\ nframes' \in 1 .. MaxFrames /\ nframes <= nframes'
      /\ nframes \in Nat /\ nframes' \in Nat
  BY Sizes DEF Receive, TypeOK
<1>2. /\ [Byte -> 0 .. nframes] \subseteq [Byte -> 0 .. nframes']
      /\ Seq([Byte -> 0 .. nframes]) \subseteq Seq([Byte -> 0 .. nframes'])
  BY <1>1, FramesGrow
<1>3. data' \in [Box -> [Byte -> 0 .. nframes']]
  <2>1. data \in [Box -> [Byte -> 0 .. nframes']]
    BY <1>2 DEF TypeOK
  <2>2. nframes' \in 0 .. nframes' /\ data[c] \in [Byte -> 0 .. nframes']
    BY <1>1, <2>1
  <2>3. [k \in Byte |-> IF k <= n THEN nframes' ELSE data[c][k]] \in [Byte -> 0 .. nframes']
    BY <2>2
  <2>4. QED
    BY <2>1, <2>3 DEF Receive
<1>4. p \in [Byte -> 0 .. nframes'] /\ taken \in [Box -> Seq([Byte -> 0 .. nframes'])]
  BY <1>2 DEF TypeOK
<1>5. TypeOK'
  <2>1. len' \in [Box -> 0 .. Width] /\ seq' \in [Box -> Nat]
    BY DEF Receive, TypeOK
  <2>2. /\ link' = link /\ pc' = pc /\ at' = at /\ try' = try /\ s' = s /\ i' = i
        /\ p' = p /\ last' = last /\ taken' = taken /\ where' = where
    BY DEF Receive, done, copy
  <2>3. where \in 0 .. nframes' /\ nframes' \in 0 .. MaxFrames
    BY <1>1 DEF TypeOK
  <2>4. QED
    BY <1>3, <1>4, <2>1, <2>2, <2>3 DEF TypeOK
<1>6. BoxInv'
  <2> SUFFICES ASSUME NEW b \in Box
               PROVE  /\ len'[b] = Width => data'[b] \in Frames
                      /\ link' = "can" /\ seq'[b] # 0 => len'[b] = Width
                      /\ last'[b] <= seq'[b]
    BY DEF BoxInv
  <2>1. CASE b # c
    <3>1. len'[b] = len[b] /\ data'[b] = data[b] /\ seq'[b] = seq[b] /\ last' = last
          /\ link' = link
      BY <2>1 DEF Receive, TypeOK, done
    <3>2. QED
      BY <3>1 DEF BoxInv
  <2>2. CASE b = c
    <3>1. len'[b] = n /\ seq'[b] = seq[b] + 1 /\ last' = last /\ link' = link
      BY <2>2 DEF Receive, TypeOK, done
    <3>2. data'[b] = [k \in Byte |-> IF k <= n THEN nframes' ELSE data[b][k]]
      BY <2>2 DEF Receive, TypeOK
    <3>3. ASSUME n = Width PROVE data'[b] = Frame(nframes')
      BY <3>2, <3>3, Sizes DEF Frame, Byte
    <3>4. len'[b] = Width => data'[b] \in Frames
      BY <1>1, <3>1, <3>3, FrameIn
    <3>5. link' = "can" => len'[b] = Width
      BY <3>1 DEF Receive
    <3>6. last'[b] <= seq'[b]
      BY <3>1 DEF BoxInv, TypeOK
    <3>7. QED
      BY <3>4, <3>5, <3>6
  <2>3. QED
    BY <2>1, <2>2
<1>7. CopyInv'
  <2> DEFINE b == Slot(at)
  <2>1. b \in Box /\ b' = b
    BY SlotIn DEF Receive, Slot
  <2>2. pc' = pc /\ try' = try /\ s' = s /\ i' = i /\ p' = p /\ link' = link
    BY DEF Receive, copy
  <2>3. CASE b # c
    <3>1. len'[b] = len[b] /\ data'[b] = data[b] /\ seq'[b] = seq[b]
      BY <2>1, <2>3 DEF Receive, TypeOK
    <3>2. QED
      BY <2>1, <2>2, <3>1 DEF CopyInv
  <2>4. CASE b = c
    <3>1. seq'[b] = seq[b] + 1 /\ seq[b] \in Nat /\ s \in Nat
      BY <2>1, <2>4 DEF Receive, TypeOK
    <3>2. pc \in {"copy", "check", "len"} => s <= seq'[b] /\ s # seq'[b]
      BY <3>1 DEF CopyInv
    <3>3. ASSUME pc = "len" PROVE p \in Frames
      <4>1. link = "can"
        BY <3>3, Builds DEF Receive, TypeOK
      <4>2. s # 0 /\ s <= seq[b]
        BY <3>3 DEF CopyInv
      <4>3. len[b] = Width
        BY <2>1, <3>1, <4>1, <4>2 DEF BoxInv
      <4>4. QED
        BY <3>3, <4>3 DEF CopyInv
    <3>4. QED
      BY <2>1, <2>2, <3>2, <3>3 DEF CopyInv
  <2>5. QED
    BY <2>3, <2>4
<1>8. QED
  BY <1>5, <1>6, <1>7

(* Leaving a box leaves nothing of its copy behind.                        *)
LEMMA AdvanceInv ==
  ASSUME TypeOK, Advance
  PROVE  /\ at' \in 1 .. Len(Order) /\ pc' \in {"read", "round"}
         /\ try' = 0 /\ s' = 0 /\ i' \in Byte /\ p' \in [Byte -> 0 .. nframes]
         /\ CopyInv'
<1>1. at' \in 1 .. Len(Order) /\ pc' \in {"read", "round"}
  <2>1. Len(Order) \in Nat /\ at \in 1 .. Len(Order)
    BY OrderLen DEF TypeOK
  <2>2. CASE at < Len(Order)
    BY <2>1, <2>2 DEF Advance
  <2>3. CASE ~(at < Len(Order))
    BY <2>1, <2>3 DEF Advance
  <2>4. QED
    BY <2>2, <2>3
<1>2. try' = 0 /\ s' = 0 /\ i' \in Byte
  BY Sizes DEF Advance, Byte
<1>3. p' \in [Byte -> 0 .. nframes]
  BY DEF Advance, TypeOK
<1>4. CopyInv'
  BY <1>1, <1>2, Sizes DEF CopyInv
<1>5. QED
  BY <1>1, <1>2, <1>3, <1>4

(* No access of the thread to a box disturbs the invariant.                *)
LEMMA ThreadInv ==
  ASSUME IInv, Thread
  PROVE  IInv'
<1> USE DEF IInv
<1> DEFINE b == Slot(at)
<1>1. b \in Box
  BY SlotIn
<1>2. /\ s \in Nat /\ seq[b] \in Nat /\ last[b] \in Nat /\ i \in Byte
      /\ len[b] \in 0 .. Width /\ data[b] \in [Byte -> 0 .. nframes]
  BY <1>1 DEF TypeOK
<1>3. CASE Round \/ EndDrain
  <2>1. /\ UNCHANGED <<link, boxes, nframes, at, copy, done>>
        /\ pc' \in {"drain", "read"} /\ pc \in {"round", "drain"}
    BY <1>3 DEF Round, EndDrain
  <2>2. TypeOK' /\ BoxInv'
    BY <2>1 DEF TypeOK, BoxInv, boxes, copy, done
  <2>3. try < Tries /\ try' = try
    BY <2>1 DEF CopyInv, copy
  <2>4. CopyInv'
    BY <2>1, <2>3 DEF CopyInv
  <2>5. QED
    BY <2>2, <2>4
<1>4. CASE ReadSeq
  <2>1. try < Tries
    BY <1>4 DEF CopyInv, ReadSeq
  <2>2. try' \in 0 .. Tries /\ i' \in Byte /\ s' \in Nat /\ pc' = "copy"
    BY <1>2, <1>4, <2>1, Sizes DEF ReadSeq, TypeOK, Byte
  <2>3. TypeOK'
    BY <1>4, <2>2 DEF ReadSeq, TypeOK, boxes, done
  <2>4. BoxInv'
    BY <1>4 DEF BoxInv, ReadSeq, boxes, done
  <2>5. b' = b /\ s' = seq[b] /\ seq' = seq /\ i' = 1
    BY <1>4 DEF ReadSeq, boxes, Slot
  <2>6. 1 .. i' - 1 = {} /\ s' <= seq'[b]
    BY <1>2, <2>5
  <2>7. CopyInv'
    BY <2>2, <2>5, <2>6 DEF CopyInv
  <2>8. QED
    BY <2>3, <2>4, <2>7
<1>5. CASE CopyByte
  <2>1. p' \in [Byte -> 0 .. nframes] /\ p' = [p EXCEPT ![i] = data[b][i]]
    BY <1>2, <1>5 DEF CopyByte, TypeOK
  <2>2. i' \in Byte /\ pc' \in {"copy", "check"}
    BY <1>2, <1>5, Sizes DEF CopyByte, Byte
  <2>3. TypeOK'
    BY <1>5, <2>1, <2>2 DEF CopyByte, TypeOK, boxes, done
  <2>4. BoxInv'
    BY <1>5 DEF BoxInv, CopyByte, boxes, done
  <2>5. ASSUME seq[b] = s, NEW k \in 1 .. i PROVE p'[k] = data[b][k]
    <3>1. k \in Byte /\ (k = i \/ k \in 1 .. i - 1)
      BY <1>2, Sizes DEF Byte
    <3>2. p[k] = data[b][k] \/ k = i
      BY <1>5, <2>5, <3>1 DEF CopyByte, CopyInv
    <3>3. QED
      BY <2>1, <3>1, <3>2 DEF TypeOK
  <2>6. /\ b' = b /\ s' = s /\ seq' = seq /\ data' = data /\ try' = try
    BY <1>5 DEF CopyByte, boxes, Slot
  <2>7. s <= seq[b]
    BY <1>5 DEF CopyByte, CopyInv
  <2>8. CASE i < Width
    <3>1. pc' = "copy" /\ i' - 1 = i
      BY <1>2, <1>5, <2>8, Sizes DEF CopyByte, Byte
    <3>2. QED
      BY <2>3, <2>4, <2>5, <2>6, <2>7, <3>1 DEF CopyInv
  <2>9. CASE ~(i < Width)
    <3>1. pc' = "check" /\ i = Width
      BY <1>2, <1>5, <2>9, Sizes DEF CopyByte, Byte
    <3>2. seq[b] = s => p' = data[b]
      BY <1>2, <2>1, <2>5, <3>1 DEF Byte
    <3>3. QED
      BY <2>3, <2>4, <2>6, <2>7, <3>1, <3>2 DEF CopyInv
  <2>10. QED
    BY <2>8, <2>9
<1>6. CASE Recheck
  <2>1. BoxInv'
    BY <1>6 DEF BoxInv, Recheck, boxes, done
  <2>2. CASE Advance
    <3>1. /\ at' \in 1 .. Len(Order) /\ pc' \in {"read", "round"} /\ try' \in 0 .. Tries
          /\ s' \in Nat /\ i' \in Byte /\ p' \in [Byte -> 0 .. nframes] /\ CopyInv'
      BY <2>2, AdvanceInv, Sizes
    <3>2. TypeOK'
      BY <1>6, <3>1 DEF Recheck, TypeOK, boxes, done
    <3>3. QED
      BY <2>1, <3>1, <3>2
  <2>3. CASE pc' = "read" /\ try < Tries /\ UNCHANGED <<at, copy>>
    <3>1. TypeOK'
      BY <1>6, <2>3 DEF Recheck, TypeOK, boxes, copy, done
    <3>2. CopyInv'
      BY <2>3, Sizes DEF CopyInv, copy, TypeOK
    <3>3. QED
      BY <2>1, <3>1, <3>2
  <2>4. CASE pc' = "len" /\ seq[b] = s /\ s # last[b] /\ UNCHANGED <<at, copy>>
    <3>1. TypeOK'
      BY <1>6, <2>4 DEF Recheck, TypeOK, boxes, copy, done
    <3>2. s # 0
      BY <1>1, <1>2, <2>4 DEF BoxInv
    <3>3. p = data[b]
      BY <1>6, <2>4 DEF Recheck, CopyInv
    <3>4. len[b] = Width => p \in Frames
      BY <1>1, <3>3 DEF BoxInv
    <3>5. b' = b /\ s' = s /\ p' = p /\ seq' = seq /\ len' = len
      BY <1>6, <2>4 DEF Recheck, boxes, copy, Slot
    <3>6. CopyInv'
      BY <1>2, <2>4, <3>2, <3>4, <3>5 DEF CopyInv
    <3>7. QED
      BY <2>1, <3>1, <3>6
  <2>5. QED
    BY <1>6, <2>2, <2>3, <2>4 DEF Recheck
<1>7. CASE LenCheck
  <2>1. /\ Advance /\ UNCHANGED <<link, data, len, seq, nframes>>
    BY <1>7 DEF LenCheck, boxes
  <2>2. /\ at' \in 1 .. Len(Order) /\ pc' \in {"read", "round"} /\ try' = 0 /\ s' = 0
        /\ i' \in Byte /\ p' \in [Byte -> 0 .. nframes] /\ CopyInv'
    BY <2>1, AdvanceInv
  <2>3. s <= seq[b]
    BY <1>7 DEF LenCheck, CopyInv
  <2>4. last' \in [Box -> Nat] /\ \A c \in Box : last'[c] <= seq[c]
    BY <1>1, <1>2, <1>7, <2>3 DEF LenCheck, done, TypeOK, BoxInv
  <2>5. taken' \in [Box -> Seq([Byte -> 0 .. nframes])]
    <3>1. taken \in [Box -> Seq([Byte -> 0 .. nframes])] /\ p \in [Byte -> 0 .. nframes]
      BY DEF TypeOK
    <3>2. Append(taken[b], p) \in Seq([Byte -> 0 .. nframes])
      BY <1>1, <3>1
    <3>3. taken' \in {taken, [taken EXCEPT ![b] = Append(@, p)]}
      BY <1>7 DEF LenCheck, done
    <3>4. QED
      BY <1>1, <3>1, <3>2, <3>3
  <2>6. where' \in 0 .. nframes
    <3>1. 1 \in Byte /\ nframes \in Nat
      BY Sizes DEF Byte, TypeOK
    <3>2. p[1] \in 0 .. nframes /\ 0 \in 0 .. nframes /\ where \in 0 .. nframes
      BY <3>1 DEF TypeOK
    <3>3. QED
      BY <1>7, <3>2 DEF LenCheck, done, Apply
  <2>7. try' \in 0 .. Tries /\ s' \in Nat
    BY <2>2, Sizes
  <2>8. TypeOK'
    BY <2>1, <2>2, <2>4, <2>5, <2>6, <2>7 DEF TypeOK
  <2>9. BoxInv'
    BY <2>1, <2>4 DEF BoxInv
  <2>10. QED
    BY <2>2, <2>8, <2>9
<1>8. QED
  BY <1>3, <1>4, <1>5, <1>6, <1>7 DEF Thread

(* Along every behaviour a copy that stands is a copy of the box, and one  *)
(* that passed its second look is a whole frame (cmd_snapshot).            *)
THEOREM InvariantHolds == Spec => []IInv
<1>1. IInv /\ [Next]_vars => IInv'
  <2> SUFFICES ASSUME IInv, [Next]_vars PROVE IInv'
    OBVIOUS
  <2>1. CASE UNCHANGED vars
    BY <2>1 DEF IInv, TypeOK, BoxInv, CopyInv, Slot, vars, boxes, copy, done
  <2>2. QED
    BY <2>1, ReceiveInv, ThreadInv DEF Next
<1>2. QED
  BY InitInv, <1>1, PTL DEF Spec

(* Every variable keeps its type, and cmd_snapshot its bound on attempts.  *)
THEOREM TypeCorrect == Spec => []TypeOK
<1>1. IInv => TypeOK
  BY DEF IInv
<1>2. QED
  BY InvariantHolds, <1>1, PTL

(* What a reader of the boxes sees of the thread, box by box.              *)
NewestOf(b) == IF len[b] = Width THEN data[b] ELSE <<>>
FreshOf(b) == IF Pending(b) THEN seq[b] # s ELSE seq[b] # last[b]
TakenOf(b) == IF Pending(b) THEN Append(taken[b], p) ELSE taken[b]

(* The mailbox stands still when nothing is seen to change.                *)
LEMMA MailStutters ==
  ASSUME \A c \in Box : /\ NewestOf(c)' = NewestOf(c)
                        /\ FreshOf(c)' = FreshOf(c)
                        /\ TakenOf(c)' = TakenOf(c)
  PROVE  UNCHANGED Mail!vars
BY DEF Mail!vars, NewestOf, FreshOf, TakenOf

(* A stored frame arrives: it is the newest of its message, and fresh.     *)
LEMMA ReceiveArrives ==
  ASSUME IInv, NEW c \in Box, NEW n \in 0 .. Width, Receive(c, n)
  PROVE  Mail!Arrive(c)
<1> USE DEF IInv
<1> DEFINE b == Slot(at)
<1>1. /\ seq' = [seq EXCEPT ![c] = @ + 1] /\ len' = [len EXCEPT ![c] = n]
      /\ data' = [data EXCEPT ![c] = [k \in Byte |-> IF k <= n THEN nframes' ELSE @[k]]]
      /\ pc' = pc /\ b' = b /\ s' = s /\ p' = p /\ last' = last /\ taken' = taken
  BY DEF Receive, copy, done, Slot
<1>2. \A d \in Box : Pending(d)' <=> Pending(d)
  <2>1. CASE pc = "len" /\ b = c
    <3>1. link = "can" /\ n = Width
      BY <2>1, Builds DEF Receive, TypeOK
    <3>2. s # 0 /\ s <= seq[c] /\ seq[c] \in Nat /\ s \in Nat
      BY <2>1 DEF CopyInv, TypeOK
    <3>3. len[c] = Width
      BY <3>1, <3>2 DEF BoxInv
    <3>4. len' = len
      BY <1>1, <3>1, <3>3 DEF TypeOK
    <3>5. QED
      BY <1>1, <3>4 DEF Pending, Slot
  <2>2. CASE ~(pc = "len" /\ b = c)
    BY <1>1, <2>2 DEF Pending, TypeOK
  <2>3. QED
    BY <2>1, <2>2
<1>3. FreshOf(c)' = TRUE
  <2>1. seq'[c] = seq[c] + 1 /\ seq[c] \in Nat /\ s \in Nat /\ last[c] \in Nat
    BY <1>1 DEF TypeOK
  <2>2. last[c] <= seq[c] /\ (Pending(c) => s <= seq[c])
    BY DEF BoxInv, CopyInv, Pending
  <2>3. seq'[c] # last[c] /\ (Pending(c) => seq'[c] # s)
    BY <2>1, <2>2
  <2>4. QED
    BY <1>1, <1>2, <2>3 DEF FreshOf
<1>4. \A d \in Box \ {c} : FreshOf(d)' = FreshOf(d) /\ NewestOf(d)' = NewestOf(d)
  BY <1>1, <1>2 DEF FreshOf, NewestOf, TypeOK
<1>5. \A d \in Box : TakenOf(d)' = TakenOf(d)
  BY <1>1, <1>2 DEF TakenOf
<1>6. NewestOf(c)' \in Frames \union {<<>>}
  <2>1. BoxInv'
    BY ReceiveInv
  <2>2. QED
    BY <2>1 DEF BoxInv, NewestOf
<1>7. QED
  BY <1>3, <1>4, <1>5, <1>6
  DEF Mail!Arrive, NewestOf, FreshOf, TakenOf, Frames, Frame

(* The thread takes a frame when its copy has stood the second look and    *)
(* its length is whole; nothing else the thread does shows.                *)
LEMMA ThreadTakes ==
  ASSUME IInv, Thread
  PROVE  (\E c \in Box : Mail!Take(c)) \/ UNCHANGED Mail!vars
<1> USE DEF IInv
<1>1. PICK b \in Box : b = Slot(at)
  BY SlotIn
<1>2. CASE pc # "len" /\ pc' # "len"
  <2>1. UNCHANGED <<data, len, seq, last, taken>>
    BY <1>2 DEF Thread, Round, EndDrain, ReadSeq, CopyByte, Recheck, LenCheck, boxes, done
  <2>2. QED
    BY <1>2, <2>1, MailStutters DEF NewestOf, FreshOf, TakenOf, Pending
<1>3. CASE pc' = "len"
  <2>1. /\ pc = "check" /\ seq[b] = s /\ s # last[b]
        /\ UNCHANGED <<data, len, seq, last, taken, at, s, p>>
    BY <1>1, <1>3
    DEF Thread, Round, EndDrain, ReadSeq, CopyByte, Recheck, LenCheck, Advance,
        boxes, copy, done
  <2>2. Slot(at)' = b /\ p = data[b]
    BY <1>1, <2>1 DEF CopyInv, Slot
  <2>3. \A c \in Box \ {b} : /\ FreshOf(c)' = FreshOf(c) /\ TakenOf(c)' = TakenOf(c)
    BY <1>1, <2>1, <2>2 DEF FreshOf, TakenOf, Pending
  <2>4. \A c \in Box : NewestOf(c)' = NewestOf(c)
    BY <2>1 DEF NewestOf
  <2>5. CASE len[b] = Width
    <3>1. FreshOf(b) = TRUE /\ FreshOf(b)' = FALSE
      BY <1>1, <1>3, <2>1, <2>2, <2>5 DEF FreshOf, Pending
    <3>2. NewestOf(b) = p /\ NewestOf(b) \in Frames
      BY <1>1, <2>2, <2>5 DEF NewestOf, BoxInv
    <3>3. TakenOf(b)' = Append(TakenOf(b), NewestOf(b))
      BY <1>1, <1>3, <2>1, <2>2, <2>5, <3>2 DEF TakenOf, Pending
    <3>4. [c \in Box |-> FreshOf(c)]' = [[c \in Box |-> FreshOf(c)] EXCEPT ![b] = FALSE]
      BY <1>1, <2>3, <3>1
    <3>5. [c \in Box |-> TakenOf(c)]'
            = [[c \in Box |-> TakenOf(c)] EXCEPT ![b] = Append(TakenOf(b), NewestOf(b))]
      BY <1>1, <2>3, <3>3
    <3>6. UNCHANGED [c \in Box |-> NewestOf(c)]
      BY <2>4
    <3>7. Mail!Take(b)
      BY <1>1, <3>1, <3>2, <3>4, <3>5, <3>6
      DEF Mail!Take, NewestOf, FreshOf, TakenOf, Frames, Frame
    <3>8. QED
      BY <1>1, <3>7
  <2>6. CASE len[b] # Width
    <3>1. FreshOf(b)' = FreshOf(b) /\ TakenOf(b)' = TakenOf(b)
      BY <1>1, <2>1, <2>2, <2>6 DEF FreshOf, TakenOf, Pending
    <3>2. QED
      BY <2>3, <2>4, <3>1, MailStutters
  <2>7. QED
    BY <2>5, <2>6
<1>4. CASE pc = "len"
  <2>1. LenCheck /\ pc' # "len"
    BY <1>4
    DEF Thread, Round, EndDrain, ReadSeq, CopyByte, Recheck, LenCheck, Advance
  <2>2. UNCHANGED <<data, len, seq>>
    BY <2>1 DEF LenCheck, boxes
  <2>3. \A c \in Box \ {b} : last'[c] = last[c] /\ taken'[c] = taken[c]
    BY <1>1, <2>1 DEF LenCheck, done, TypeOK
  <2>4. \A c \in Box : NewestOf(c)' = NewestOf(c)
    BY <2>2 DEF NewestOf
  <2>5. \A c \in Box \ {b} : /\ FreshOf(c)' = FreshOf(c) /\ TakenOf(c)' = TakenOf(c)
    BY <1>1, <1>4, <2>1, <2>2, <2>3 DEF FreshOf, TakenOf, Pending
  <2>6. CASE len[b] < Width
    <3>1. last' = last /\ taken' = taken
      BY <1>1, <2>1, <2>6 DEF LenCheck, done
    <3>2. len[b] # Width
      BY <2>6, Sizes
    <3>3. FreshOf(b)' = FreshOf(b) /\ TakenOf(b)' = TakenOf(b)
      BY <1>1, <2>1, <2>2, <3>1, <3>2 DEF FreshOf, TakenOf, Pending
    <3>4. QED
      BY <2>4, <2>5, <3>3, MailStutters
  <2>7. CASE ~(len[b] < Width)
    <3>1. len[b] = Width
      <4>1. len[b] \in 0 .. Width /\ Width \in Nat
        BY <1>1, Sizes DEF TypeOK
      <4>2. QED
        BY <2>7, <4>1
    <3>2. last'[b] = s /\ taken'[b] = Append(taken[b], p)
      BY <1>1, <2>1, <2>7 DEF LenCheck, TypeOK
    <3>3. FreshOf(b)' = FreshOf(b) /\ TakenOf(b)' = TakenOf(b)
      BY <1>1, <1>4, <2>1, <2>2, <3>1, <3>2 DEF FreshOf, TakenOf, Pending
    <3>4. QED
      BY <2>4, <2>5, <3>3, MailStutters
  <2>8. QED
    BY <2>6, <2>7
<1>5. QED
  BY <1>2, <1>3, <1>4

(* However frames fall into the copies, cmd_snapshot hands on each frame   *)
(* at most once, whole, and only while it is the newest of its message.    *)
THEOREM SnapshotIsMailbox == Spec => MailKept
<1>1. Init => Mail!Init
  <2> SUFFICES ASSUME Init PROVE Mail!Init
    OBVIOUS
  <2>1. \A c \in Box : ~Pending(c) /\ len[c] = 0 /\ seq[c] = 0 /\ last[c] = 0
    BY DEF Init, Pending
  <2>2. 0 # Width
    BY Sizes
  <2>3. \A c \in Box : NewestOf(c) = <<>> /\ FreshOf(c) = FALSE /\ TakenOf(c) = <<>>
    BY <2>1, <2>2 DEF NewestOf, FreshOf, TakenOf, Init
  <2>4. QED
    BY <2>3 DEF Mail!Init, NewestOf, FreshOf, TakenOf
<1>2. IInv /\ [Next]_vars => [Mail!Next]_(Mail!vars)
  <2> SUFFICES ASSUME IInv, [Next]_vars PROVE [Mail!Next]_(Mail!vars)
    OBVIOUS
  <2>1. ASSUME NEW c \in Box, NEW n \in 0 .. Width, Receive(c, n)
        PROVE  Mail!Next
    BY <2>1, ReceiveArrives DEF Mail!Next
  <2>2. CASE Thread
    BY <2>2, ThreadTakes DEF Mail!Next
  <2>3. CASE UNCHANGED vars
    BY <2>3 DEF Mail!vars, vars, boxes, copy, done, Pending, Slot
  <2>4. QED
    BY <2>1, <2>2, <2>3 DEF Next
<1>3. QED
  BY InvariantHolds, <1>1, <1>2, PTL DEF Spec, MailKept, Mail!Spec

(* Nothing is left to take of a box.                                       *)
Seen(b) == last[b] = seq[b] \/ len[b] # Width

(* Over USB no frame comes while the thread goes through the boxes, so a   *)
(* copy stands, and a box looked at has been seen.                         *)
Swept ==
  /\ pc \in {"copy", "check", "len"} => s = seq[Slot(at)]
  /\ pc = "len" => s # last[Slot(at)] /\ p = data[Slot(at)]
  /\ pc \in {"read", "copy", "check", "len"} => \A n \in 1 .. at - 1 : Seen(Slot(n))
  /\ pc = "round" => \A b \in Box : Seen(b)
  /\ pc \in {"round", "drain"} => at = 1

(* A position taken after the trim before it places the aircraft, and that *)
(* trim does not come again.                                               *)
Placed ==
  /\ len[PosBox] = Width /\ last[PosBox] = seq[PosBox]
  /\ len[InitBox] = Width /\ data[InitBox][1] < data[PosBox][1]
  => where = data[PosBox][1] /\ last[InitBox] = seq[InitBox]

UsbInv == link = "usb" => Swept /\ Placed

(* Trim and position are two boxes of the order, the trim first.           *)
LEMMA TrimFirst ==
  /\ InitBox \in Box /\ PosBox \in Box /\ InitBox # PosBox
  /\ \A n \in 1 .. Len(Order) : Slot(n) = PosBox =>
       \E m \in 1 .. Len(Order) : Slot(m) = InitBox /\ m < n
  /\ \A b \in Box : \E n \in 1 .. Len(Order) : Slot(n) = b
BY CommandsAssumption DEF Slot

(* A frame comes between two passes only, newer than any other.            *)
LEMMA ReceiveUsb ==
  ASSUME IInv, Swept, Placed, link = "usb",
         NEW c \in Box, NEW n \in 0 .. Width, Receive(c, n)
  PROVE  Swept' /\ Placed'
<1>1. /\ pc = "drain" /\ pc' = pc /\ at' = at /\ last' = last /\ where' = where
      /\ nframes' = nframes + 1 /\ nframes \in Nat
      /\ seq' = [seq EXCEPT ![c] = @ + 1] /\ len' = [len EXCEPT ![c] = n]
      /\ data' = [data EXCEPT ![c] = [k \in Byte |-> IF k <= n THEN nframes' ELSE @[k]]]
  BY DEF Receive, done, IInv, TypeOK
<1>2. Swept'
  BY <1>1 DEF Swept
<1>3. InitBox \in Box /\ PosBox \in Box /\ InitBox # PosBox /\ 1 \in Byte
  BY TrimFirst, Sizes DEF Byte
<1>4. CASE c = PosBox
  <2>1. /\ seq'[PosBox] = seq[PosBox] + 1 /\ last[PosBox] <= seq[PosBox]
        /\ last[PosBox] \in Nat /\ seq[PosBox] \in Nat
    BY <1>1, <1>3, <1>4 DEF IInv, TypeOK, BoxInv
  <2>2. last'[PosBox] # seq'[PosBox]
    BY <1>1, <2>1
  <2> QED BY <1>2, <2>2 DEF Placed
<1>5. CASE c = InitBox
  <2>1. len'[InitBox] = n /\ data'[PosBox] = data[PosBox] /\ data[PosBox][1] \in 0 .. nframes
    BY <1>1, <1>3, <1>5 DEF IInv, TypeOK
  <2>2. n = Width => data'[InitBox][1] = nframes'
    BY <1>1, <1>3, <1>5, Sizes DEF IInv, TypeOK
  <2>3. ~(len'[InitBox] = Width /\ data'[InitBox][1] < data'[PosBox][1])
    BY <1>1, <2>1, <2>2
  <2> QED BY <1>2, <2>3 DEF Placed
<1>6. CASE c # PosBox /\ c # InitBox
  <2>1. \A b \in {PosBox, InitBox} :
          len'[b] = len[b] /\ data'[b] = data[b] /\ seq'[b] = seq[b]
    BY <1>1, <1>3, <1>6 DEF IInv, TypeOK
  <2> QED BY <1>1, <1>2, <2>1 DEF Placed
<1> QED BY <1>4, <1>5, <1>6

(* On from a box that has been seen, with the boxes as they are.           *)
LEMMA AdvanceSwept ==
  ASSUME TypeOK, pc \in {"read", "copy", "check", "len"}, Advance,
         UNCHANGED <<len, seq>>,
         \A n \in 1 .. at : Seen(Slot(n))'
  PROVE  Swept'
<1>1. at \in 1 .. Len(Order) /\ Len(Order) \in Nat
  BY OrderLen DEF TypeOK
<1>2. CASE at < Len(Order)
  <2>1. at' = at + 1 /\ pc' = "read"
    BY <1>2 DEF Advance
  <2>2. \A n \in 1 .. at' - 1 : n \in 1 .. at
    BY <1>1, <2>1
  <2>3. \A n \in 1 .. at' - 1 : Seen(Slot(n))'
    BY <2>2
  <2> QED BY <2>1, <2>3 DEF Swept
<1>3. CASE ~(at < Len(Order))
  <2>1. pc' = "round" /\ at' = 1 /\ at = Len(Order)
    BY <1>1, <1>3 DEF Advance
  <2>2. ASSUME NEW b \in Box PROVE Seen(b)'
    <3>1. PICK n \in 1 .. Len(Order) : Slot(n) = b
      BY TrimFirst
    <3>2. Seen(Slot(n))'
      BY <2>1, <3>1
    <3>3. Slot(n)' = b
      BY <3>1 DEF Slot
    <3> QED BY <3>2, <3>3 DEF Seen
  <2> QED BY <2>1, <2>2 DEF Swept
<1> QED BY <1>2, <1>3

(* The thread goes through the boxes in their order.                       *)
LEMMA ThreadUsb ==
  ASSUME IInv, Swept, Placed, link = "usb", Thread
  PROVE  Swept' /\ Placed'
<1> DEFINE b == Slot(at)
<1>1. b \in Box /\ at \in 1 .. Len(Order) /\ Len(Order) \in Nat /\ TypeOK
  BY SlotIn, OrderLen DEF IInv, TypeOK
<1>2. UNCHANGED <<data, len, seq>>
  BY DEF Thread, Round, EndDrain, ReadSeq, CopyByte, Recheck, LenCheck, boxes
<1>3. CASE Round \/ EndDrain
  <2>1. pc' \in {"drain", "read"} /\ at' = at /\ last' = last /\ where' = where
    BY <1>3 DEF Round, EndDrain, done
  <2>2. Placed'
    BY <1>2, <2>1 DEF Placed
  <2>3. CASE Round
    <3>1. pc' = "drain"
      BY <2>3 DEF Round
    <3>2. at' = 1
      BY <2>1, <2>3 DEF Round, Swept
    <3> QED BY <2>2, <3>1, <3>2 DEF Swept
  <2>4. CASE EndDrain
    <3>1. at = 1
      BY <2>4 DEF EndDrain, Swept
    <3>2. pc' = "read" /\ 1 .. at' - 1 = {}
      BY <2>1, <2>4, <3>1 DEF EndDrain
    <3> QED BY <2>2, <3>2 DEF Swept
  <2> QED BY <1>3, <2>3, <2>4
<1>4. CASE ReadSeq \/ CopyByte
  <2>1. /\ pc \in {"read", "copy"} /\ pc' \in {"copy", "check"}
        /\ at' = at /\ last' = last /\ where' = where /\ s' = seq[b]
    BY <1>4 DEF ReadSeq, CopyByte, done, Swept
  <2>2. Swept'
    BY <1>2, <2>1 DEF Swept, Seen, Slot
  <2>3. Placed'
    BY <1>2, <2>1 DEF Placed
  <2> QED BY <2>2, <2>3
<1>5. CASE Recheck
  <2>1. pc = "check" /\ s = seq[b] /\ last' = last /\ where' = where
    BY <1>5 DEF Recheck, Swept, done
  <2>2. Placed'
    BY <1>2, <2>1 DEF Placed
  <2>3. CASE s = last[b]
    <3>1. Advance
      BY <1>5, <2>1, <2>3 DEF Recheck
    <3>2. \A n \in 1 .. at : n \in 1 .. at - 1 \/ n = at
      BY <1>1
    <3>3. \A n \in 1 .. at : Seen(Slot(n))
      BY <2>1, <2>3, <3>2 DEF Swept, Seen
    <3>4. \A n \in 1 .. at : Seen(Slot(n))'
      BY <1>2, <2>1, <3>3 DEF Seen, Slot
    <3> QED BY <1>1, <1>2, <2>1, <2>2, <3>1, <3>4, AdvanceSwept
  <2>4. CASE s # last[b]
    <3>1. pc' = "len" /\ UNCHANGED <<at, copy>>
      BY <1>5, <2>1, <2>4 DEF Recheck
    <3>2. at' = at /\ s' = s /\ p' = p
      BY <3>1 DEF copy
    <3>3. p = data[b]
      BY <2>1 DEF IInv, CopyInv
    <3> QED BY <3>3,  <1>2, <2>1, <2>2, <2>4, <3>1, <3>2 DEF Swept, Seen, Slot
  <2> QED BY <2>3, <2>4
<1>6. CASE LenCheck
  <2>1. pc = "len" /\ s = seq[b] /\ s # last[b] /\ p = data[b] /\ Advance
    BY <1>6 DEF LenCheck, Swept
  <2>2. \A n \in 1 .. at : n \in 1 .. at - 1 \/ n = at
    BY <1>1
  <2>3. CASE len[b] < Width
    <3>1. last' = last /\ where' = where
      BY <1>6, <2>3 DEF LenCheck, done
    <3>2. len[b] # Width
      BY <2>3, Sizes
    <3>3. \A n \in 1 .. at : Seen(Slot(n))
      BY <2>1, <2>2, <3>2 DEF Swept, Seen
    <3>4. \A n \in 1 .. at : Seen(Slot(n))'
      BY <1>2, <3>1, <3>3 DEF Seen, Slot
    <3>5. Placed'
      BY <1>2, <3>1 DEF Placed
    <3> QED BY <1>1, <1>2, <2>1, <3>4, <3>5, AdvanceSwept
  <2>4. CASE ~(len[b] < Width)
    <3>1. last' = [last EXCEPT ![b] = s] /\ Apply(b)
      BY <1>6, <2>4 DEF LenCheck
    <3>2. last'[b] = seq[b] /\ \A c \in Box \ {b} : last'[c] = last[c]
      BY <1>1, <2>1, <3>1 DEF TypeOK
    <3>3. \A n \in 1 .. at : Slot(n) = b \/ (Slot(n) \in Box \ {b} /\ Seen(Slot(n)))
      <4>1. \A n \in 1 .. at : Slot(n) \in Box
        <5>1. Order \in Seq(Box)
          BY CommandsAssumption
        <5> QED BY <1>1, <5>1 DEF Slot
      <4> QED BY <2>1, <2>2, <4>1 DEF Swept
    <3>4. \A n \in 1 .. at : Seen(Slot(n))'
      BY <1>2, <3>2, <3>3 DEF Seen, Slot
    <3>5. Swept'
      BY <1>1, <1>2, <2>1, <3>4, AdvanceSwept
    <3>6. Placed'
      <4>1. InitBox \in Box /\ PosBox \in Box /\ InitBox # PosBox
        BY TrimFirst
      <4>2. CASE b = PosBox
        <5>1. where' = p[1]
          BY <3>1, <4>1, <4>2 DEF Apply
        <5>2. len[b] = Width
          BY <1>1, <2>4, Sizes DEF TypeOK
        <5>3. PICK m \in 1 .. Len(Order) : Slot(m) = InitBox /\ m < at
          BY <1>1, <4>2, TrimFirst
        <5>4. m \in 1 .. at - 1
          BY <1>1, <5>3
        <5>5. Seen(InitBox)
          BY <2>1, <5>3, <5>4 DEF Swept
        <5>6. last'[InitBox] = last[InitBox]
          BY <3>2, <4>1, <4>2
        <5> QED BY <1>2, <2>1, <4>2, <5>1, <5>5, <5>6 DEF Placed, Seen
      <4>3. CASE b = InitBox
        <5>1. last'[PosBox] = last[PosBox] /\ last[InitBox] # seq[InitBox]
          BY <2>1, <3>2, <4>1, <4>3
        <5> QED BY <1>2, <5>1 DEF Placed
      <4>4. CASE b # PosBox /\ b # InitBox
        <5>1. where' = where
          BY <3>1, <4>4 DEF Apply
        <5>2. last'[PosBox] = last[PosBox] /\ last'[InitBox] = last[InitBox]
          BY <3>2, <4>1, <4>4
        <5> QED BY <1>2, <5>1, <5>2 DEF Placed
      <4> QED BY <4>2, <4>3, <4>4
    <3> QED BY <3>5, <3>6
  <2> QED BY <2>3, <2>4
<1> QED BY <1>3, <1>4, <1>5, <1>6 DEF Thread

(* Over USB an air start ends at the position that came after its trim,    *)
(* for any messages between and around them in cmd_decode.                 *)
THEOREM AirStart == Spec => []AirStartPlaced
<1>1. Init => UsbInv
  <2> SUFFICES ASSUME Init PROVE Swept /\ Placed
    BY DEF UsbInv
  <2>1. \A b \in Box : len[b] = 0 /\ last[b] = 0 /\ seq[b] = 0
    BY DEF Init
  <2>2. pc = "round" /\ 0 # Width
    BY Sizes DEF Init
  <2>3. at = 1 /\ \A b \in Box : Seen(b)
    BY <2>1 DEF Init, Seen
  <2>4. len[PosBox] # Width
    BY <2>1, <2>2, TrimFirst
  <2> QED BY <2>2, <2>3, <2>4 DEF Swept, Placed
<1>2. IInv /\ UsbInv /\ [Next]_vars => UsbInv'
  <2> SUFFICES ASSUME IInv, UsbInv, [Next]_vars, link' = "usb" PROVE Swept' /\ Placed'
    BY DEF UsbInv
  <2>1. link = "usb" /\ Swept /\ Placed
    BY DEF UsbInv, Next, Thread, Round, EndDrain, ReadSeq, CopyByte, Recheck, LenCheck,
           Receive, vars
  <2>2. CASE UNCHANGED vars
    BY <2>1, <2>2 DEF Swept, Placed, Seen, Slot, vars, boxes, copy, done
  <2> QED BY <2>1, <2>2, ReceiveUsb, ThreadUsb DEF Next
<1>3. IInv /\ UsbInv => AirStartPlaced
  <2> SUFFICES ASSUME UsbInv, link = "usb", Settled, data[InitBox][1] < data[PosBox][1]
               PROVE  where = data[PosBox][1]
    BY DEF AirStartPlaced
  <2>1. \A b \in {InitBox, PosBox} : len[b] = Width /\ Seen(b)
    BY TrimFirst DEF UsbInv, Swept, Settled
  <2> QED BY <2>1 DEF UsbInv, Placed, Seen
<1> QED BY InvariantHolds, <1>1, <1>2, <1>3, PTL DEF Spec
=============================================================================
