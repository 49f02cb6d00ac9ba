--------------------------- MODULE CanFeedProofs ---------------------------
(* Proofs about the transmit path, for every queue, buffer and transfer.    *)
EXTENDS CanFeed, SequenceTheorems, TLAPS

-----------------------------------------------------------------------------
(* Arithmetic of the queue's indices. *)

(* The remainder is what is left over a multiple. *)
LEMMA ModUnique ==
  ASSUME NEW b \in Nat \ {0}, NEW q \in Int, NEW r \in 0 .. b - 1
  PROVE  (q * b + r) % b = r
<1> DEFINE a == q * b + r
           Q == a \div b
           R == a % b
<1>1. a \in Int /\ Q \in Int /\ R \in 0 .. b - 1 /\ a = Q * b + R
  BY SMT
<1>2. (Q - q) * b = r - R
  BY <1>1, SMT
<1>3. CASE Q - q >= 1
  <2>1. (Q - q) * b >= b
    BY <1>1, <1>3, SMT
  <2> QED BY <2>1, <1>1, <1>2
<1>4. CASE Q - q <= -1
  <2>1. (Q - q) * b <= -b
    BY <1>1, <1>4, SMT
  <2> QED BY <2>1, <1>1, <1>2
<1>5. CASE Q = q
  BY <1>1, <1>5, SMT
<1> QED BY <1>1, <1>3, <1>4, <1>5

(* A number is a multiple and a remainder. *)
LEMMA ModSplit ==
  ASSUME NEW b \in Nat \ {0}, NEW a \in Int
  PROVE  /\ a % b \in 0 .. b - 1
         /\ \E q \in Int : a = q * b + (a % b)
<1> DEFINE q == a \div b
<1>1. q \in Int /\ a % b \in 0 .. b - 1 /\ a = q * b + (a % b)
  BY SMT
<1> HIDE DEF q
<1> QED BY <1>1

(* Adding a multiple changes no remainder. *)
LEMMA ModShift ==
  ASSUME NEW b \in Nat \ {0}, NEW q \in Int, NEW a \in Int
  PROVE  (a + q * b) % b = a % b
<1>1. PICK p \in Int : a = p * b + (a % b)
  BY ModSplit
<1>2. a % b \in 0 .. b - 1
  BY ModSplit
<1> DEFINE r == a % b
<1> HIDE DEF r
<1>3. r \in 0 .. b - 1 /\ a = p * b + r
  BY <1>1, <1>2 DEF r
<1>4. a + q * b = (p + q) * b + r
  BY <1>3, SMT
<1>5. ((p + q) * b + r) % b = r
  <2>1. p + q \in Int
    OBVIOUS
  <2> QED BY <1>3, <2>1, ModUnique
<1> QED BY <1>4, <1>5 DEF r

(* Cells less than b apart are different ones. *)
LEMMA ModApart ==
  ASSUME NEW b \in Nat \ {0}, NEW a \in Int, NEW d \in 1 .. b - 1
  PROVE  (a + d) % b # a % b
<1> SUFFICES ASSUME (a + d) % b = a % b PROVE FALSE
  OBVIOUS
<1> DEFINE r == a % b
<1>1. r \in 0 .. b - 1
  BY ModSplit
<1>2. PICK q \in Int : a = q * b + r
  BY ModSplit
<1>3. PICK p \in Int : a + d = p * b + r
  <2>1. a + d \in Int
    OBVIOUS
  <2> QED BY <2>1, ModSplit
<1> HIDE DEF r
<1>4. (p - q) * b = d
  BY <1>1, <1>2, <1>3, SMT
<1>5. CASE p - q >= 1
  BY <1>4, <1>5, SMT
<1>6. CASE p - q <= 0
  BY <1>4, <1>6, SMT
<1> QED BY <1>5, <1>6

-----------------------------------------------------------------------------
(* The queue. *)

(* The sizes are positive, and there are more indices than cells.           *)
LEMMA Sizes ==
  /\ QLen \in Nat \ {0} /\ Buffers \in Nat \ {0} /\ DrainMax \in Nat \ {0}
  /\ Width \in Nat \ {0} /\ QLen < Width
BY SizeAssumption

(* Wrapping an index does not move its cell. *)
LEMMA Wrapped ==
  ASSUME NEW a \in Int
  PROVE  (a + Width) % QLen = a % QLen
<1>1. PICK q \in Int : Width = q * QLen + (Width % QLen)
  <2>1. QLen \in Nat \ {0} /\ Width \in Int
    BY Sizes
  <2> QED BY <2>1, ModSplit
<1>2. Width = q * QLen
  <2>1. Width % QLen = 0
    BY SizeAssumption
  <2>2. q * QLen \in Int
    BY Sizes
  <2> QED BY <1>1, <2>1, <2>2
<1>3. (a + q * QLen) % QLen = a % QLen
  BY Sizes, ModShift
<1> QED BY <1>2, <1>3

(* Index arithmetic wraps at most once. *)
LEMMA WrapOnce ==
  ASSUME NEW a \in 0 .. 2 * Width - 1
  PROVE  a % Width = IF a < Width THEN a ELSE a - Width
<1>1. CASE a < Width
  <2>1. (0 * Width + a) % Width = a
    BY <1>1, Sizes, ModUnique
  <2> QED BY <1>1, <2>1, Sizes
<1>2. CASE a >= Width
  <2>1. a - Width \in 0 .. Width - 1
    BY <1>2, Sizes
  <2>2. (1 * Width + (a - Width)) % Width = a - Width
    BY <2>1, Sizes, ModUnique
  <2>3. 1 * Width + (a - Width) = a
    BY Sizes
  <2> QED BY <1>2, <2>2, <2>3, Sizes
<1> QED BY <1>1, <1>2, Sizes

(* The fill is the distance of the indices, across the wrap. *)
LEMMA FillIs ==
  ASSUME head \in Index, tail \in Index
  PROVE  /\ Fill \in 0 .. Width - 1
         /\ Fill = IF head >= tail THEN head - tail ELSE head + Width - tail
<1>1. head + Width - tail \in 0 .. 2 * Width - 1
  BY Sizes DEF Index
<1>2. Fill = IF head + Width - tail < Width THEN head + Width - tail ELSE head - tail
  BY <1>1, WrapOnce, Sizes DEF Fill, Index
<1> QED BY <1>2, Sizes DEF Index

(* The cell at the head is the one after the last that is queued. *)
LEMMA HeadCell ==
  ASSUME head \in Index, tail \in Index
  PROVE  head % QLen = (tail + Fill) % QLen
<1>1. CASE head >= tail
  <2>1. tail + Fill = head
    BY <1>1, FillIs, Sizes DEF Index
  <2> QED BY <2>1
<1>2. CASE head < tail
  <2>1. tail + Fill = head + Width
    BY <1>2, FillIs, Sizes DEF Index
  <2>2. (head + Width) % QLen = head % QLen
    <3>1. head \in Int
      BY Sizes DEF Index
    <3> QED BY <3>1, Wrapped
  <2> QED BY <2>1, <2>2
<1> QED BY <1>1, <1>2, Sizes DEF Index

(* Full and empty are fills. *)
LEMMA FullFill ==
  ASSUME head \in Index, tail \in Index
  PROVE  (Full <=> Fill = QLen) /\ (Empty <=> Fill = 0)
<1> DEFINE a == tail + QLen
<1>1. a \in 0 .. 2 * Width - 1
  BY Sizes DEF Index
<1>2. a % Width = IF a < Width THEN a ELSE a - Width
  <2> HIDE DEF a
  <2> QED BY <1>1, WrapOnce
<1>3. Full <=> Fill = QLen
  BY <1>2, FillIs, Sizes DEF Full, Index
<1>4. Empty <=> Fill = 0
  BY FillIs, Sizes DEF Empty, Index
<1> QED BY <1>3, <1>4

(* An index advanced. *)
LEMMA NextIndex ==
  ASSUME NEW a \in Index
  PROVE  /\ (a + 1) % Width \in Index
         /\ (a + 1) % Width = IF a + 1 < Width THEN a + 1 ELSE 0
<1> DEFINE b == a + 1
<1>1. b \in 0 .. 2 * Width - 1
  BY Sizes DEF Index
<1>2. b % Width = IF b < Width THEN b ELSE b - Width
  <2> HIDE DEF b
  <2> QED BY <1>1, WrapOnce
<1> QED BY <1>2, Sizes DEF Index

(* A push fills one cell more, ... *)
LEMMA PushFill ==
  ASSUME head \in Index, tail \in Index, Fill < QLen,
         head' = (head + 1) % Width, tail' = tail
  PROVE  head' \in Index /\ Fill' = Fill + 1
<1>1. head' \in Index /\ head' = IF head + 1 < Width THEN head + 1 ELSE 0
  BY NextIndex
<1>2. Fill' \in 0 .. Width - 1 /\ Fill' = IF head' >= tail THEN head' - tail ELSE head' + Width - tail
  <2> DEFINE a == head' + Width - tail'
  <2>1. a \in 0 .. 2 * Width - 1
    BY <1>1, Sizes DEF Index
  <2>2. a % Width = IF a < Width THEN a ELSE a - Width
    <3> HIDE DEF a
    <3> QED BY <2>1, WrapOnce
  <2>3. Fill' = a % Width
    BY DEF Fill
  <2> QED BY <2>1, <2>2, <2>3, <1>1, Sizes DEF Index
<1> QED BY <1>1, <1>2, FillIs, Sizes DEF Index

(* ... a pop one less, and moves every queued frame one place forward. *)
LEMMA PopFill ==
  ASSUME head \in Index, tail \in Index, Fill > 0,
         tail' = (tail + 1) % Width, head' = head
  PROVE  /\ tail' \in Index /\ Fill' = Fill - 1
         /\ \A k \in Int : (tail' + k) % QLen = (tail + 1 + k) % QLen
<1>1. tail' \in Index /\ tail' = IF tail + 1 < Width THEN tail + 1 ELSE 0
  BY NextIndex
<1>2. Fill' = IF head >= tail' THEN head - tail' ELSE head + Width - tail'
  <2> DEFINE a == head' + Width - tail'
  <2>1. a \in 0 .. 2 * Width - 1
    BY <1>1, Sizes DEF Index
  <2>2. a % Width = IF a < Width THEN a ELSE a - Width
    <3> HIDE DEF a
    <3> QED BY <2>1, WrapOnce
  <2>3. Fill' = a % Width
    BY DEF Fill
  <2> QED BY <2>1, <2>2, <2>3, <1>1, Sizes DEF Index
<1>3. Fill' = Fill - 1
  BY <1>1, <1>2, FillIs, Sizes DEF Index
<1>4. ASSUME NEW k \in Int PROVE (tail' + k) % QLen = (tail + 1 + k) % QLen
  <2>1. CASE tail + 1 < Width
    <3>1. tail' + k = tail + 1 + k
      BY <2>1, <1>1
    <3> QED BY <3>1
  <2>2. CASE tail + 1 = Width
    <3>1. tail' = 0 /\ tail + 1 + k = k + Width
      BY <2>2, <1>1, Sizes
    <3>2. (k + Width) % QLen = k % QLen
      BY Wrapped
    <3> QED BY <3>1, <3>2
  <2> QED BY <2>1, <2>2, Sizes DEF Index
<1> QED BY <1>1, <1>3, <1>4

-----------------------------------------------------------------------------
(* The invariant. *)

(* Where everything is, apart from the frames. *)
ControlOK ==
  /\ dropped \in Nat
  /\ pc \in {"loop", "head", "push", "kick"}
  /\ it0 \in {"off", "drain", "pump", "flags", "clear"}
  /\ it1 \in {"off", "clear", "drain"}
  /\ it0 = "off" \/ it1 = "off"
  /\ got \in 0 .. DrainMax /\ taken \in 0 .. DrainMax
  /\ seen \subseteq Flags /\ ir \subseteq Flags
  /\ pend \subseteq {"IT0", "IT1"}
  /\ events \in 0 .. Buffers /\ rx \in 0 .. Buffers
  /\ init \in BOOLEAN /\ yielded \in BOOLEAN

(* The frames: a cell is filled before the index passes it, and stays as it *)
(* is until the pump has taken it, whatever comes between the two steps.    *)
FramesOK ==
  /\ head \in Index /\ tail \in Index /\ Fill <= QLen
  /\ elem \in [0 .. QLen - 1 -> Frame \cup {NoFrame}]
  /\ \A k \in 1 .. Fill : elem[(tail + k - 1) % QLen] \in Frame
  /\ cur \in Frame \cup {NoFrame}
  /\ pc \in {"head", "push"} => cur \in Frame
  /\ pc = "push" => Fill < QLen /\ elem[head % QLen] = cur
  /\ buf \in Seq(Frame) /\ Len(buf) <= Buffers

Inv == ControlOK /\ FramesOK

(* The invariant has the types. *)
LEMMA InvType == Inv => TypeOK
BY DEF Inv, ControlOK, FramesOK, TypeOK

(* It holds at the start. *)
LEMMA InitInv == Init => Inv
<1> SUFFICES ASSUME Init PROVE Inv
  OBVIOUS
<1>1. ControlOK
  BY Sizes DEF Init, PortInit, ControlOK
<1>2. head \in Index /\ tail \in Index
  BY Sizes DEF Init, Index
<1>3. Fill = 0
  BY <1>2, FillIs DEF Init
<1>4. buf \in Seq(Frame) /\ Len(buf) <= Buffers
  BY Sizes DEF Init, PortInit
<1>5. elem \in [0 .. QLen - 1 -> Frame \cup {NoFrame}]
  BY DEF Init
<1> QED BY <1>1, <1>2, <1>3, <1>4, <1>5, Sizes DEF Init, Inv, FramesOK

(* The frames of a transfer. *)
LEMMA FrameIs ==
  ASSUME NEW t \in 1 .. Len(Transfers), NEW i \in 1 .. Transfers[t]
  PROVE  <<t, i>> \in Frame
BY DEF Frame

(* A transfer has a first frame, and each but the last a next. *)
LEMMA NextIs ==
  ASSUME cur \in Frame \cup {NoFrame}
  PROVE  /\ cur[1] < Len(Transfers) => <<cur[1] + 1, 1>> \in Frame
         /\ cur \in Frame /\ cur[2] < Transfers[cur[1]] => <<cur[1], cur[2] + 1>> \in Frame
<1>0. Transfers \in Seq(Nat \ {0}) /\ Len(Transfers) \in Nat
  BY SizeAssumption
<1>1. ASSUME cur \in Frame
      PROVE  cur[1] \in 1 .. Len(Transfers) /\ cur[2] \in 1 .. Transfers[cur[1]]
  BY <1>1 DEF Frame
<1>2. cur[1] \in Nat
  BY <1>0, <1>1 DEF NoFrame
<1>3. ASSUME cur[1] < Len(Transfers) PROVE <<cur[1] + 1, 1>> \in Frame
  <2>1. cur[1] + 1 \in 1 .. Len(Transfers)
    BY <1>0, <1>2, <1>3
  <2>2. Transfers[cur[1] + 1] \in Nat \ {0}
    BY <1>0, <2>1
  <2>3. 1 \in 1 .. Transfers[cur[1] + 1]
    BY <2>2
  <2> QED BY <2>1, <2>3, FrameIs
<1>4. ASSUME cur \in Frame, cur[2] < Transfers[cur[1]]
      PROVE  <<cur[1], cur[2] + 1>> \in Frame
  <2>1. Transfers[cur[1]] \in Nat \ {0}
    BY <1>0, <1>1, <1>4
  <2>2. cur[2] + 1 \in 1 .. Transfers[cur[1]]
    BY <1>1, <1>4, <2>1
  <2> QED BY <1>1, <1>4, <2>2, FrameIs
<1> QED BY <1>3, <1>4

(* A cell is filled behind those that are queued. *)
LEMMA TakeFills ==
  ASSUME Inv, TakeCell
  PROVE  /\ Fill' = Fill /\ Fill \in Nat /\ Fill < QLen /\ cur \in Frame
         /\ elem' \in [0 .. QLen - 1 -> Frame \cup {NoFrame}] /\ elem'[head % QLen] = cur
         /\ \A k \in 1 .. Fill : elem'[(tail + k - 1) % QLen] = elem[(tail + k - 1) % QLen]
<1>1. /\ head' = head /\ tail' = tail /\ ~Full /\ pc = "head"
      /\ elem' = [elem EXCEPT ![head % QLen] = cur]
  BY DEF TakeCell
<1>2. Fill' = Fill /\ Fill \in Nat /\ Fill < QLen /\ head \in Int /\ tail \in Int
  <2>1. Fill # QLen /\ Fill \in 0 .. Width - 1
    BY <1>1, FullFill, FillIs DEF Inv, FramesOK
  <2> QED BY <1>1, <2>1, Sizes DEF Fill, Inv, FramesOK, Index
<1>3. cur \in Frame /\ head % QLen \in 0 .. QLen - 1
  BY <1>1, <1>2, Sizes, ModSplit DEF Inv, FramesOK
<1>4. elem' \in [0 .. QLen - 1 -> Frame \cup {NoFrame}] /\ elem'[head % QLen] = cur
  BY <1>1, <1>3 DEF Inv, FramesOK
<1>5. ASSUME NEW k \in 1 .. Fill
      PROVE  elem'[(tail + k - 1) % QLen] = elem[(tail + k - 1) % QLen]
  <2> DEFINE a == tail + k - 1
             d == Fill - k + 1
  <2>1. a \in Int /\ d \in 1 .. QLen - 1 /\ a + d = tail + Fill
    BY <1>2, Sizes
  <2>2. (a + d) % QLen # a % QLen /\ a % QLen \in 0 .. QLen - 1
    <3> HIDE DEF a, d
    <3> QED BY <2>1, Sizes, ModApart, ModSplit
  <2>3. head % QLen = (tail + Fill) % QLen
    BY HeadCell DEF Inv, FramesOK
  <2>4. a % QLen # head % QLen
    BY <2>1, <2>2, <2>3
  <2> HIDE DEF a
  <2>5. elem'[a % QLen] = elem[a % QLen]
    BY <1>1, <2>2, <2>4 DEF Inv, FramesOK
  <2> QED BY <2>5 DEF a
<1> QED BY <1>2, <1>3, <1>4, <1>5

(* The main loop keeps it. *)
LEMMA ThreadInv == Inv /\ Thread => Inv'
<1> SUFFICES ASSUME Inv, Thread PROVE Inv'
  OBVIOUS
<1>0. UNCHANGED <<it0, it1, got, taken, seen, ir, events, rx, init, yielded, buf>>
  BY DEF Thread, isr0, isr1, hw, bounds
<1> DEFINE Same == /\ it0' = it0 /\ it1' = it1 /\ got' = got /\ taken' = taken
                   /\ seen' = seen /\ ir' = ir /\ events' = events /\ rx' = rx
                   /\ init' = init /\ yielded' = yielded /\ buf' = buf
<1>s. Same
  BY <1>0
<1>c. ASSUME dropped' \in Nat, pc' \in {"loop", "head", "push", "kick"},
             pend' \subseteq {"IT0", "IT1"}
      PROVE  ControlOK'
  BY <1>s, <1>c DEF Inv, ControlOK
<1>1. CASE Broadcast /\ UNCHANGED pend
  <2>1. head' = head /\ tail' = tail /\ elem' = elem /\ dropped' = dropped
    BY <1>1 DEF Broadcast, queue
  <2>2. cur' \in Frame /\ pc' = "head"
    BY <1>1, NextIs DEF Broadcast, Inv, FramesOK
  <2>3. Fill' = Fill
    BY <2>1 DEF Fill
  <2>4. ControlOK'
    BY <1>1, <1>c, <2>1, <2>2 DEF Inv, ControlOK
  <2>5. FramesOK'
    BY <1>s, <2>1, <2>2, <2>3 DEF Inv, FramesOK, Index
  <2> QED BY <2>4, <2>5 DEF Inv
<1>n. ASSUME NextFrame, cur \in Frame
      PROVE  cur' \in Frame /\ pc' \in {"head", "kick"}
  <2>1. CASE cur[2] < Transfers[cur[1]]
    BY <1>n, <2>1, NextIs DEF NextFrame
  <2>2. CASE ~(cur[2] < Transfers[cur[1]])
    BY <1>n, <2>2 DEF NextFrame
  <2> QED BY <2>1, <2>2
<1>2. CASE TakeCell /\ UNCHANGED pend
  <2>1. /\ head' = head /\ tail' = tail /\ cur' = cur /\ dropped' = dropped
        /\ pc = "head" /\ pc' = "push" /\ ~Full
        /\ elem' = [elem EXCEPT ![head % QLen] = cur]
    BY <1>2 DEF TakeCell
  <2>2. /\ Fill' = Fill /\ Fill \in Nat /\ Fill < QLen /\ cur \in Frame
        /\ elem' \in [0 .. QLen - 1 -> Frame \cup {NoFrame}] /\ elem'[head % QLen] = cur
        /\ \A k \in 1 .. Fill : elem'[(tail + k - 1) % QLen] = elem[(tail + k - 1) % QLen]
    BY <1>2, TakeFills
  <2>3. ControlOK'
    BY <1>2, <1>c, <2>1 DEF Inv, ControlOK
  <2>4. \A k \in 1 .. Fill' : elem'[(tail' + k - 1) % QLen] \in Frame
    BY <2>1, <2>2 DEF Inv, FramesOK
  <2>5. FramesOK'
    BY <1>s, <2>1, <2>2, <2>4 DEF Inv, FramesOK, Index
  <2> QED BY <2>3, <2>5 DEF Inv
<1>3. CASE DropFrame /\ UNCHANGED pend
  <2>1. /\ head' = head /\ tail' = tail /\ elem' = elem /\ dropped' = dropped + 1
        /\ pc = "head" /\ NextFrame
    BY <1>3 DEF DropFrame
  <2>2. cur' \in Frame /\ pc' \in {"head", "kick"}
    BY <1>n, <2>1 DEF Inv, FramesOK
  <2>3. Fill' = Fill
    BY <2>1 DEF Fill
  <2>4. ControlOK'
    BY <1>3, <1>c, <2>1, <2>2 DEF Inv, ControlOK
  <2>5. FramesOK'
    BY <1>s, <2>1, <2>2, <2>3 DEF Inv, FramesOK, Index
  <2> QED BY <2>4, <2>5 DEF Inv
<1>4. CASE Push /\ UNCHANGED pend
  <2>1. /\ head' = (head + 1) % Width /\ tail' = tail /\ elem' = elem /\ dropped' = dropped
        /\ pc = "push" /\ NextFrame
    BY <1>4 DEF Push
  <2>2. cur' \in Frame /\ pc' \in {"head", "kick"}
    BY <1>n, <2>1 DEF Inv, FramesOK
  <2>3. head' \in Index /\ Fill' = Fill + 1 /\ Fill \in Nat
    BY <2>1, PushFill, FillIs DEF Inv, FramesOK
  <2>4. ControlOK'
    BY <1>4, <1>c, <2>1, <2>2 DEF Inv, ControlOK
  <2>5. \A k \in 1 .. Fill' : elem'[(tail' + k - 1) % QLen] \in Frame
    <3> SUFFICES ASSUME NEW k \in 1 .. Fill + 1 PROVE elem[(tail + k - 1) % QLen] \in Frame
      BY <2>1, <2>3
    <3>1. CASE k <= Fill
      BY <2>3, <3>1 DEF Inv, FramesOK
    <3>2. CASE k = Fill + 1
      <4>1. tail + k - 1 = tail + Fill
        BY <2>3, <3>2, Sizes DEF Inv, FramesOK, Index
      <4>2. elem[(tail + Fill) % QLen] = cur /\ cur \in Frame
        BY <2>1, HeadCell DEF Inv, FramesOK
      <4> QED BY <4>1, <4>2
    <3> QED BY <2>3, <3>1, <3>2
  <2>6. FramesOK'
    BY <1>s, <2>1, <2>2, <2>3, <2>5, Sizes DEF Inv, FramesOK, Index
  <2> QED BY <2>4, <2>6 DEF Inv
<1>5. CASE Kick
  <2>1. /\ head' = head /\ tail' = tail /\ elem' = elem /\ dropped' = dropped /\ cur' = cur
        /\ pc' = "loop" /\ pend' = pend \cup {"IT0"}
    BY <1>5 DEF Kick, queue
  <2>2. Fill' = Fill
    BY <2>1 DEF Fill
  <2>3. ControlOK'
    BY <1>c, <2>1 DEF Inv, ControlOK
  <2>4. FramesOK'
    BY <1>s, <2>1, <2>2 DEF Inv, FramesOK, Index
  <2> QED BY <2>3, <2>4 DEF Inv
<1> QED BY <1>1, <1>2, <1>3, <1>4, <1>5 DEF Thread

(* What leaves queue and buffers alone leaves the frames where they are. *)
LEMMA FramesStay == Inv /\ UNCHANGED <<queue, thread, buf>> => FramesOK'
<1> SUFFICES ASSUME Inv, UNCHANGED <<queue, thread, buf>> PROVE FramesOK'
  OBVIOUS
<1>1. /\ head' = head /\ tail' = tail /\ elem' = elem
      /\ pc' = pc /\ cur' = cur /\ buf' = buf
  BY DEF queue, thread
<1>2. Fill' = Fill
  BY <1>1 DEF Fill
<1> QED BY <1>1, <1>2 DEF Inv, FramesOK, Index

(* What leaves the main loop alone leaves its part of the control alone. *)
LEMMA LoopStays ==
  ASSUME ControlOK, UNCHANGED <<dropped, pc>>
  PROVE  dropped' \in Nat /\ pc' \in {"loop", "head", "push", "kick"}
BY DEF ControlOK

(* A line is one of two. *)
LEMMA Lines == \A flags : Line(flags) \subseteq {"IT0", "IT1"}
BY DEF Line

(* One turn of the pump: the oldest frame moves from the queue to a buffer. *)
LEMMA PumpMoves ==
  ASSUME Inv, It0Pump
  PROVE  /\ Fill \in 1 .. QLen /\ Fill' = Fill - 1 /\ head' = head /\ tail' \in Index
         /\ elem' = elem /\ elem[tail % QLen] \in Frame
         /\ Len(buf) < Buffers /\ buf' = Append(buf, elem[tail % QLen])
         /\ \A k \in Int : (tail' + k) % QLen = (tail + 1 + k) % QLen
<1>1. /\ ~Empty /\ Len(buf) < Buffers /\ buf' = Append(buf, elem[tail % QLen])
      /\ tail' = (tail + 1) % Width /\ head' = head /\ elem' = elem
  BY DEF It0Pump, CanTx
<1>2. head \in Index /\ tail \in Index /\ Fill <= QLen
  BY DEF Inv, FramesOK
<1>3. Fill \in 1 .. QLen
  BY <1>1, <1>2, FullFill, FillIs, Sizes
<1>4. /\ tail' \in Index /\ Fill' = Fill - 1
      /\ \A k \in Int : (tail' + k) % QLen = (tail + 1 + k) % QLen
  BY <1>1, <1>2, <1>3, PopFill
<1>5. elem[tail % QLen] \in Frame
  <2>1. 1 \in 1 .. Fill /\ tail + 1 - 1 = tail
    BY <1>2, <1>3, Sizes DEF Index
  <2> QED BY <2>1 DEF Inv, FramesOK
<1> QED BY <1>1, <1>3, <1>4, <1>5

(* The interrupts keep it. *)
LEMMA InterruptInv == Inv /\ Interrupt => Inv'
<1> SUFFICES ASSUME Inv, Interrupt PROVE Inv'
  OBVIOUS
<1> USE DEF Inv
<1>1. CASE It0Enter
  <2>1. ControlOK'
    BY <1>1, LoopStays, Sizes DEF It0Enter, ThreadRuns, ControlOK, queue, thread, isr1, hw
  <2> QED BY <2>1, <1>1, FramesStay DEF It0Enter, hw
<1>2. CASE It0Drain
  <2>1. ControlOK'
    BY <1>2, LoopStays, Sizes DEF It0Drain, CanTxDone, ControlOK, queue, thread, isr1, bounds
  <2> QED BY <2>1, <1>2, FramesStay DEF It0Drain
<1>3. CASE It0Drained
  <2>1. ControlOK'
    BY <1>3, LoopStays DEF It0Drained, ControlOK, queue, thread, isr1, hw, bounds
  <2> QED BY <2>1, <1>3, FramesStay DEF It0Drained, hw
<1>4. CASE It0Pump
  <2>1. ControlOK'
    BY <1>4, LoopStays DEF It0Pump, ControlOK, thread, isr0, isr1, bounds
  <2>2. /\ Fill \in 1 .. QLen /\ Fill' = Fill - 1 /\ head' = head /\ tail' \in Index
        /\ elem' = elem /\ elem[tail % QLen] \in Frame
        /\ Len(buf) < Buffers /\ buf' = Append(buf, elem[tail % QLen])
        /\ \A k \in Int : (tail' + k) % QLen = (tail + 1 + k) % QLen
    BY <1>4, PumpMoves
  <2>3. pc' = pc /\ cur' = cur
    BY <1>4 DEF It0Pump, thread
  <2>4. \A k \in 1 .. Fill' : elem'[(tail' + k - 1) % QLen] \in Frame
    <3> SUFFICES ASSUME NEW k \in 1 .. Fill - 1 PROVE elem[(tail' + k - 1) % QLen] \in Frame
      BY <2>2
    <3>1. k - 1 \in Int /\ k + 1 \in 1 .. Fill
      BY <2>2
    <3>2. (tail' + (k - 1)) % QLen = (tail + 1 + (k - 1)) % QLen
      BY <2>2, <3>1
    <3>3. tail' + (k - 1) = tail' + k - 1 /\ tail + 1 + (k - 1) = tail + (k + 1) - 1
      BY <2>2, Sizes DEF FramesOK, Index
    <3>4. elem[(tail + (k + 1) - 1) % QLen] \in Frame
      BY <3>1 DEF FramesOK
    <3> QED BY <3>2, <3>3, <3>4
  <2>5. buf' \in Seq(Frame) /\ Len(buf') <= Buffers
    <3>1. buf \in Seq(Frame)
      BY DEF FramesOK
    <3>2. buf' \in Seq(Frame) /\ Len(buf') = Len(buf) + 1 /\ Len(buf) \in Nat
      BY <2>2, <3>1, AppendProperties, LenProperties
    <3> QED BY <2>2, <3>2, Sizes
  <2>6. Fill' <= QLen /\ Fill' < QLen
    BY <2>2, Sizes
  <2>7. pc' = "push" => elem'[head' % QLen] = cur'
    BY <2>2, <2>3 DEF FramesOK
  <2>8. /\ head' \in Index /\ elem' \in [0 .. QLen - 1 -> Frame \cup {NoFrame}]
        /\ cur' \in Frame \cup {NoFrame} /\ (pc' \in {"head", "push"} => cur' \in Frame)
    BY <2>2, <2>3 DEF FramesOK
  <2>9. FramesOK'
    <3> Index' = Index
      BY DEF Index
    <3> QED BY <2>2, <2>4, <2>5, <2>6, <2>7, <2>8 DEF FramesOK
  <2> QED BY <2>1, <2>9
<1>5. CASE It0Pumped
  <2>1. ControlOK'
    BY <1>5, LoopStays DEF It0Pumped, ControlOK, queue, thread, isr1, hw, bounds
  <2> QED BY <2>1, <1>5, FramesStay DEF It0Pumped, hw
<1>6. CASE It0Flag
  <2>1. ControlOK'
    BY <1>6, LoopStays DEF It0Flag, ControlOK, queue, thread, isr1, bounds
  <2> QED BY <2>1, <1>6, FramesStay DEF It0Flag
<1>7. CASE It0Clear
  <2>1. Line(ir') \subseteq {"IT0", "IT1"}
    BY Lines
  <2>2. pend' \subseteq {"IT0", "IT1"} /\ ir' \subseteq Flags
    BY <1>7, <2>1 DEF It0Clear, ControlOK
  <2>3. ControlOK'
    BY <1>7, <2>2, LoopStays, Sizes DEF It0Clear, ControlOK, queue, thread, isr1
  <2> QED BY <2>3, <1>7, FramesStay DEF It0Clear
<1>8. CASE It1Enter
  <2>1. ControlOK'
    BY <1>8, LoopStays, Sizes DEF It1Enter, ThreadRuns, ControlOK, queue, thread, isr0, hw, bounds
  <2> QED BY <2>1, <1>8, FramesStay DEF It1Enter, hw
<1>9. CASE It1Clear
  <2>1. ControlOK'
    BY <1>9, LoopStays DEF It1Clear, ControlOK, queue, thread, isr0, bounds
  <2> QED BY <2>1, <1>9, FramesStay DEF It1Clear
<1>10. CASE It1Drain
  <2>1. ControlOK'
    BY <1>10, LoopStays, Sizes DEF It1Drain, CanRx, ControlOK, queue, thread, isr0, bounds
  <2> QED BY <2>1, <1>10, FramesStay DEF It1Drain
<1>11. CASE It1Return
  <2>1. Line(ir) \subseteq {"IT0", "IT1"}
    BY Lines
  <2>2. pend' \subseteq {"IT0", "IT1"}
    BY <1>11, <2>1 DEF It1Return, ControlOK
  <2>3. ControlOK'
    BY <1>11, <2>2, LoopStays, Sizes DEF It1Return, ControlOK, queue, thread, isr0, hw, bounds
  <2> QED BY <2>3, <1>11, FramesStay DEF It1Return, hw
<1> QED BY <1>1, <1>2, <1>3, <1>4, <1>5, <1>6, <1>7, <1>8, <1>9, <1>10, <1>11 DEF Interrupt

(* A frame that ends leaves the oldest buffer. *)
LEMMA EndsInv ==
  ASSUME Inv, FrameEnds, UNCHANGED <<queue, thread>>
  PROVE  FramesOK'
<1>1. buf \in Seq(Frame) /\ buf # << >> /\ buf' = Tail(buf) /\ Len(buf) <= Buffers
  BY DEF Inv, FramesOK, FrameEnds
<1>2. buf' \in Seq(Frame) /\ Len(buf') <= Buffers
  <2>1. Tail(buf) \in Seq(Frame) /\ Len(Tail(buf)) = Len(buf) - 1 /\ Len(buf) \in Nat
    BY <1>1, HeadTailProperties, LenProperties
  <2> QED BY <1>1, <2>1, Sizes
<1>3. /\ head' = head /\ tail' = tail /\ elem' = elem /\ pc' = pc /\ cur' = cur
  BY DEF queue, thread
<1>4. Fill' = Fill
  BY <1>3 DEF Fill
<1> QED BY <1>2, <1>3, <1>4 DEF Inv, FramesOK, Index

(* A flag raised. *)
LEMMA RaiseOK ==
  ASSUME ControlOK, NEW flags \in SUBSET Flags, Raise(flags)
  PROVE  ir' \subseteq Flags /\ pend' \subseteq {"IT0", "IT1"}
<1>1. Line(ir') \subseteq {"IT0", "IT1"}
  BY Lines
<1> QED BY <1>1 DEF Raise, ControlOK

(* The controller keeps it. *)
LEMMA ControllerInv == Inv /\ Controller => Inv'
<1> SUFFICES ASSUME Inv, Controller PROVE Inv'
  OBVIOUS
<1>0. UNCHANGED <<queue, thread, isr0, isr1>>
  BY DEF Controller
<1>c. ASSUME ir' \subseteq Flags, pend' \subseteq {"IT0", "IT1"}, events' \in 0 .. Buffers,
             rx' \in 0 .. Buffers, init' \in BOOLEAN, yielded' \in BOOLEAN
      PROVE  ControlOK'
  BY <1>0, <1>c, LoopStays DEF Inv, ControlOK, queue, thread, isr0, isr1
<1> USE DEF Inv
<1>f. {"TEFN"} \subseteq Flags /\ {"PEA"} \subseteq Flags /\ {"PEA", "BO"} \subseteq Flags
      /\ {"RF0N"} \subseteq Flags /\ {} \subseteq Flags
  BY DEF Flags, It0Flags
<1>1. CASE Sent
  <2>1. /\ FrameEnds /\ rx' = rx /\ init' = init /\ yielded' = yielded
        /\ events' = (IF events < Buffers THEN events + 1 ELSE events)
        /\ Raise(IF events < Buffers THEN {"TEFN"} ELSE {})
    BY <1>1 DEF Sent
  <2>2. ir' \subseteq Flags /\ pend' \subseteq {"IT0", "IT1"}
    BY <2>1, <1>f, RaiseOK
  <2>3. events' \in 0 .. Buffers
    BY <2>1, Sizes DEF ControlOK
  <2>4. ControlOK'
    BY <1>c, <2>1, <2>2, <2>3 DEF ControlOK
  <2> QED BY <1>0, <2>1, <2>4, EndsInv
<1>2. CASE Disturbed
  <2>1. FrameEnds /\ rx' = rx /\ events' = events /\ yielded' = yielded
    BY <1>2 DEF Disturbed
  <2>2. ir' \subseteq Flags /\ pend' \subseteq {"IT0", "IT1"}
    BY <1>2, <1>f, RaiseOK DEF Disturbed
  <2>3. init' \in BOOLEAN
    BY <1>2 DEF Disturbed, ControlOK
  <2>4. ControlOK'
    BY <1>c, <2>1, <2>2, <2>3 DEF ControlOK
  <2> QED BY <1>0, <2>1, <2>4, EndsInv
<1>3. CASE ArbitrationLost
  <2>1. /\ FrameEnds /\ rx' = rx /\ events' = events /\ yielded' = TRUE
        /\ ir' = ir /\ init' = init /\ pend' = pend
    BY <1>3 DEF ArbitrationLost
  <2>2. ControlOK'
    BY <1>c, <2>1 DEF ControlOK
  <2> QED BY <1>0, <2>1, <2>2, EndsInv
<1>4. CASE Received
  <2>1. /\ buf' = buf /\ events' = events /\ init' = init /\ yielded' = yielded
        /\ \/ rx < Buffers /\ rx' = rx + 1 /\ Raise({"RF0N"})
           \/ rx' = rx /\ ir' = ir /\ pend' = pend
    BY <1>4 DEF Received
  <2>2. ir' \subseteq Flags /\ pend' \subseteq {"IT0", "IT1"}
    BY <2>1, <1>f, RaiseOK DEF ControlOK
  <2>3. rx' \in 0 .. Buffers
    BY <2>1, Sizes DEF ControlOK
  <2>4. ControlOK'
    BY <1>c, <2>1, <2>2, <2>3 DEF ControlOK
  <2> QED BY <1>0, <2>1, <2>4, FramesStay
<1> QED BY <1>1, <1>2, <1>3, <1>4 DEF Controller

(* A stutter keeps it. *)
LEMMA StutterInv == Inv /\ UNCHANGED vars => Inv'
<1> SUFFICES ASSUME Inv, UNCHANGED vars PROVE Inv'
  OBVIOUS
<1>1. ControlOK'
  BY DEF Inv, ControlOK, vars, queue, thread, isr0, isr1, hw, bounds
<1>2. FramesOK'
  BY FramesStay DEF vars, hw
<1> QED BY <1>1, <1>2 DEF Inv

(* Every step keeps it. *)
LEMMA NextInv == Inv /\ [Next]_vars => Inv'
<1>1. Idle => UNCHANGED vars
  BY DEF Idle
<1> QED BY <1>1, ThreadInv, InterruptInv, ControllerInv, StutterInv DEF Next

(* For every queue, number of buffers and sequence of transfers: the types, *)
(* and with them that the queue holds no more frames than it has cells and  *)
(* the pump never takes a cell that is not filled (canmsgq.h:33-44).        *)
THEOREM QueueKept == Spec => [](TypeOK /\ FramesOK)
<1>1. Inv => TypeOK /\ FramesOK
  BY InvType DEF Inv
<1> QED BY <1>1, InitInv, NextInv, PTL DEF Spec

-----------------------------------------------------------------------------
(* The refinement. *)

(* The queue as a sequence. *)
LEMMA QueuedSeq ==
  ASSUME Inv
  PROVE  Queued \in Seq(Frame) /\ Len(Queued) = Fill /\ Fill \in Nat
<1>1. Fill \in Nat
  BY FillIs, Sizes DEF Inv, FramesOK
<1>2. Queued \in [1 .. Fill -> Frame]
  BY DEF Queued, Inv, FramesOK
<1> HIDE DEF Queued
<1>3. Queued \in Seq(Frame)
  BY <1>1, <1>2, SeqDef
<1>4. Len(Queued) = Fill
  BY <1>1, <1>2, <1>3, LenProperties
<1> QED BY <1>1, <1>3, <1>4

(* The same after a step. *)
QueuedOK == Queued \in Seq(Frame) /\ Len(Queued) = Fill

LEMMA QueuedNext == Inv' => QueuedOK'
<1>1. Inv => QueuedOK
  BY QueuedSeq DEF QueuedOK
<1> QED BY <1>1, PTL

(* An element appended at the end of the second part. *)
LEMMA AppendBehind ==
  ASSUME NEW S, NEW s \in Seq(S), NEW t \in Seq(S), NEW e \in S
  PROVE  s \o Append(t, e) = Append(s \o t, e)
<1>1. <<e>> \in Seq(S) /\ s \o t \in Seq(S)
  BY ConcatProperties
<1>2. Append(t, e) = t \o <<e>> /\ Append(s \o t, e) = (s \o t) \o <<e>>
  BY <1>1, AppendIsConcat
<1>3. (s \o t) \o <<e>> = s \o (t \o <<e>>)
  BY <1>1, ConcatAssociative
<1> QED BY <1>2, <1>3

(* An element moved from the head of the second part to the end of the first. *)
LEMMA MoveAcross ==
  ASSUME NEW S, NEW s \in Seq(S), NEW t \in Seq(S), NEW e \in S
  PROVE  Append(s, e) \o t = s \o (<<e>> \o t)
<1>1. <<e>> \in Seq(S)
  OBVIOUS
<1>2. Append(s, e) = s \o <<e>>
  BY AppendIsConcat
<1> QED BY <1>1, <1>2, ConcatAssociative

(* The head and the tail are those of the first part, unless it is empty. *)
LEMMA HeadTailFirst ==
  ASSUME NEW S, NEW s \in Seq(S), NEW t \in Seq(S), s # << >>
  PROVE  s \o t # << >> /\ Head(s \o t) = Head(s) /\ Tail(s \o t) = Tail(s) \o t
<1>1. /\ s \o t \in Seq(S) /\ Len(s \o t) = Len(s) + Len(t)
      /\ \A i \in 1 .. Len(s) + Len(t) : (s \o t)[i] = IF i <= Len(s) THEN s[i] ELSE t[i - Len(s)]
  BY ConcatProperties
<1>2. Len(s) \in Nat \ {0} /\ Len(t) \in Nat
  BY EmptySeq, LenProperties
<1>3. s \o t # << >>
  BY ConcatEqualIffEmpty
<1>4. Head(s \o t) = Head(s)
  <2>1. (s \o t)[1] = s[1]
    BY <1>1, <1>2
  <2> QED BY <2>1, <1>3
<1>5. /\ Tail(s) \in Seq(S) /\ Len(Tail(s)) = Len(s) - 1
      /\ \A i \in 1 .. Len(Tail(s)) : Tail(s)[i] = s[i + 1]
  BY HeadTailProperties
<1>6. /\ Tail(s \o t) \in Seq(S) /\ Len(Tail(s \o t)) = Len(s) + Len(t) - 1
      /\ \A i \in 1 .. Len(Tail(s \o t)) : Tail(s \o t)[i] = (s \o t)[i + 1]
  BY <1>1, <1>3, HeadTailProperties
<1>7. /\ Tail(s) \o t \in Seq(S) /\ Len(Tail(s) \o t) = Len(s) - 1 + Len(t)
      /\ \A i \in 1 .. Len(s) - 1 + Len(t) : (Tail(s) \o t)[i] =
            IF i <= Len(s) - 1 THEN Tail(s)[i] ELSE t[i - (Len(s) - 1)]
  BY <1>5, ConcatProperties
<1>8. ASSUME NEW i \in 1 .. Len(Tail(s \o t)) PROVE Tail(s \o t)[i] = (Tail(s) \o t)[i]
  <2>1. i \in 1 .. Len(s) - 1 + Len(t) /\ i + 1 \in 1 .. Len(s) + Len(t)
    BY <1>2, <1>6
  <2>2. CASE i <= Len(s) - 1
    <3>1. (s \o t)[i + 1] = s[i + 1]
      BY <1>1, <1>2, <2>1, <2>2
    <3>2. (Tail(s) \o t)[i] = s[i + 1]
      BY <1>2, <1>5, <1>7, <2>1, <2>2
    <3> QED BY <1>6, <3>1, <3>2
  <2>3. CASE ~(i <= Len(s) - 1)
    <3>1. (s \o t)[i + 1] = t[(i + 1) - Len(s)]
      BY <1>1, <1>2, <2>1, <2>3
    <3>2. (Tail(s) \o t)[i] = t[i - (Len(s) - 1)]
      BY <1>7, <2>1, <2>3
    <3>3. (i + 1) - Len(s) = i - (Len(s) - 1)
      BY <1>2, <2>1
    <3> QED BY <1>6, <3>1, <3>2, <3>3
  <2> QED BY <2>2, <2>3
<1>9. Tail(s \o t) = Tail(s) \o t
  <2>1. Len(Tail(s \o t)) = Len(Tail(s) \o t)
    BY <1>2, <1>6, <1>7
  <2> DEFINE u == Tail(s \o t)
             v == Tail(s) \o t
  <2>2. u \in Seq(S) /\ v \in Seq(S) /\ Len(u) = Len(v) /\ \A i \in 1 .. Len(u) : u[i] = v[i]
    BY <1>6, <1>7, <1>8, <2>1
  <2> HIDE DEF u, v
  <2>3. u = v
    BY <2>2, SeqEqual
  <2> QED BY <2>3 DEF u, v
<1> QED BY <1>3, <1>4, <1>9

(* A push appends the frame to the pipe. *)
LEMMA PushTakes == Inv /\ Inv' /\ Push /\ UNCHANGED <<buf, bus>> => FramePipe!Take
<1> SUFFICES ASSUME Inv, Inv', Push, UNCHANGED <<buf, bus>> PROVE FramePipe!Take
  OBVIOUS
<1>1. /\ pc = "push" /\ head' = (head + 1) % Width
      /\ tail' = tail /\ elem' = elem /\ dropped' = dropped
  BY DEF Push
<1>2. /\ head \in Index /\ tail \in Index /\ Fill < QLen /\ elem[head % QLen] = cur
      /\ cur \in Frame /\ buf \in Seq(Frame) /\ Len(buf) <= Buffers
  BY <1>1 DEF Inv, FramesOK
<1>3. Fill' = Fill + 1
  BY <1>1, <1>2, PushFill
<1>4. Queued \in Seq(Frame) /\ Len(Queued) = Fill /\ Fill \in Nat
  BY QueuedSeq
<1>5. Queued' \in Seq(Frame) /\ Len(Queued') = Fill'
  BY QueuedNext DEF QueuedOK
<1>6. Queued' = Append(Queued, cur)
  <2>1. /\ Append(Queued, cur) \in Seq(Frame) /\ Len(Append(Queued, cur)) = Fill + 1
        /\ \A k \in 1 .. Fill : Append(Queued, cur)[k] = Queued[k]
        /\ Append(Queued, cur)[Fill + 1] = cur
    BY <1>2, <1>4, AppendProperties
  <2>2. ASSUME NEW k \in 1 .. Fill + 1 PROVE Queued'[k] = Append(Queued, cur)[k]
    <3>1. Queued'[k] = elem[(tail + k - 1) % QLen]
      BY <1>1, <1>3, <2>2 DEF Queued
    <3>2. CASE k <= Fill
      <4>1. Queued[k] = elem[(tail + k - 1) % QLen]
        BY <1>4, <3>2 DEF Queued
      <4> QED BY <1>4, <2>1, <3>1, <3>2, <4>1
    <3>3. CASE k = Fill + 1
      <4>1. tail + k - 1 = tail + Fill
        BY <1>2, <1>4, <3>3, Sizes DEF Index
      <4>2. head % QLen = (tail + Fill) % QLen
        BY <1>2, HeadCell
      <4> QED BY <1>2, <2>1, <3>1, <3>3, <4>1, <4>2
    <3> QED BY <1>4, <3>2, <3>3
  <2> DEFINE u == Queued'
             v == Append(Queued, cur)
  <2>3. u \in Seq(Frame) /\ v \in Seq(Frame) /\ Len(u) = Len(v) /\ \A k \in 1 .. Len(u) : u[k] = v[k]
    BY <1>3, <1>5, <2>1, <2>2
  <2> HIDE DEF u, v
  <2>4. u = v
    BY <2>3, SeqEqual
  <2> QED BY <2>4 DEF u, v
<1>7. (buf \o Queued)' = Append(buf \o Queued, cur)
  BY <1>2, <1>4, <1>6, AppendBehind
<1>8. Len(buf \o Queued) < QLen + Buffers
  <2>1. Len(buf \o Queued) = Len(buf) + Fill /\ Len(buf) \in Nat
    BY <1>2, <1>4, ConcatProperties, LenProperties
  <2> QED BY <1>2, <1>4, <2>1, Sizes
<1> QED BY <1>1, <1>2, <1>7, <1>8 DEF FramePipe!Take

(* A frame refused finds the queue full. *)
LEMMA DropRefuses == Inv /\ DropFrame /\ UNCHANGED <<buf, bus>> => FramePipe!Refuse
<1> SUFFICES ASSUME Inv, DropFrame, UNCHANGED <<buf, bus>> PROVE FramePipe!Refuse
  OBVIOUS
<1>1. Full /\ dropped' = dropped + 1 /\ head' = head /\ tail' = tail /\ elem' = elem
  BY DEF DropFrame
<1>2. Fill = QLen
  BY <1>1, FullFill DEF Inv, FramesOK
<1>3. Queued \in Seq(Frame) /\ Len(Queued) = Fill /\ Fill \in Nat
  BY QueuedSeq
<1>4. buf \in Seq(Frame)
  BY DEF Inv, FramesOK
<1>5. Len(buf \o Queued) = Len(buf) + Fill /\ Len(buf) \in Nat
  BY <1>3, <1>4, ConcatProperties, LenProperties
<1>6. Len(buf \o Queued) >= QLen
  BY <1>2, <1>5, Sizes
<1>7. (buf \o Queued)' = buf \o Queued
  BY <1>1 DEF Queued, Fill
<1> QED BY <1>1, <1>6, <1>7 DEF FramePipe!Refuse

(* The pump moves a frame on within the pipe. *)
LEMMA PumpStutters == Inv /\ Inv' /\ It0Pump => UNCHANGED <<buf \o Queued, dropped, bus>>
<1> SUFFICES ASSUME Inv, Inv', It0Pump PROVE UNCHANGED <<buf \o Queued, dropped, bus>>
  OBVIOUS
<1> DEFINE f == elem[tail % QLen]
<1>1. /\ Fill \in 1 .. QLen /\ Fill' = Fill - 1 /\ elem' = elem /\ f \in Frame
      /\ buf' = Append(buf, f) /\ tail' \in Index
      /\ \A k \in Int : (tail' + k) % QLen = (tail + 1 + k) % QLen
  BY PumpMoves
<1>2. buf \in Seq(Frame) /\ tail \in Index
  BY DEF Inv, FramesOK
<1>3. Queued \in Seq(Frame) /\ Len(Queued) = Fill
  BY QueuedSeq
<1>4. Queued' \in Seq(Frame) /\ Len(Queued') = Fill'
  BY QueuedNext DEF QueuedOK
<1>5. Queued = <<f>> \o Queued'
  <2>1. <<f>> \in Seq(Frame) /\ Len(<<f>>) = 1 /\ <<f>>[1] = f
    BY <1>1
  <2>2. /\ <<f>> \o Queued' \in Seq(Frame) /\ Len(<<f>> \o Queued') = 1 + Fill'
        /\ \A k \in 1 .. 1 + Fill' : (<<f>> \o Queued')[k] = IF k <= 1 THEN <<f>>[k] ELSE Queued'[k - 1]
    <3> HIDE DEF f
    <3> QED BY <2>1, <1>4, ConcatProperties
  <2>3. ASSUME NEW k \in 1 .. Fill PROVE Queued[k] = (<<f>> \o Queued')[k]
    <3>1. Queued[k] = elem[(tail + k - 1) % QLen]
      BY DEF Queued
    <3>2. CASE k = 1
      <4>1. tail + k - 1 = tail
        BY <1>2, <3>2, Sizes DEF Index
      <4>2. Queued[k] = f
        BY <3>1, <4>1
      <4>3. (<<f>> \o Queued')[k] = f
        BY <1>1, <2>1, <2>2, <3>2
      <4> QED BY <4>2, <4>3
    <3>3. CASE k > 1
      <4>1. k - 1 \in 1 .. Fill' /\ k \in 1 .. 1 + Fill' /\ ~(k <= 1)
        BY <1>1, <3>3
      <4>2. Queued'[k - 1] = elem[(tail' + (k - 1) - 1) % QLen]
        BY <1>1, <4>1 DEF Queued
      <4>3. /\ tail' + (k - 1) - 1 = tail' + (k - 2) /\ k - 2 \in Int
            /\ tail + 1 + (k - 2) = tail + k - 1
        BY <1>1, <1>2, Sizes DEF Index
      <4>4. (tail' + (k - 2)) % QLen = (tail + 1 + (k - 2)) % QLen
        BY <1>1, <4>3
      <4>5. Queued'[k - 1] = Queued[k]
        BY <3>1, <4>2, <4>3, <4>4
      <4>6. (<<f>> \o Queued')[k] = Queued'[k - 1]
        BY <2>2, <4>1
      <4> QED BY <4>5, <4>6
    <3>4. k = 1 \/ k > 1
      <4>1. Fill \in Nat
        BY <1>1, Sizes
      <4> QED BY <4>1
    <3> QED BY <3>2, <3>3, <3>4
  <2> DEFINE u == Queued
             v == <<f>> \o Queued'
  <2>4. u \in Seq(Frame) /\ v \in Seq(Frame) /\ Len(u) = Len(v) /\ \A k \in 1 .. Len(u) : u[k] = v[k]
    BY <1>1, <1>3, <2>2, <2>3
  <2> HIDE DEF u, v
  <2>5. u = v
    BY <2>4, SeqEqual
  <2> QED BY <2>5 DEF u, v
<1>6. (buf \o Queued)' = buf \o Queued
  <2>1. Append(buf, f) \o Queued' = buf \o (<<f>> \o Queued')
    <3> HIDE DEF f
    <3> QED BY <1>1, <1>2, <1>4, MoveAcross
  <2> QED BY <1>1, <1>5, <2>1
<1>7. dropped' = dropped /\ bus' = bus
  BY DEF It0Pump
<1> QED BY <1>6, <1>7

(* A frame that ends on the bus leaves the pipe at its head. *)
LEMMA EndsPipe ==
  ASSUME Inv, FrameEnds, UNCHANGED <<queue, thread, isr0, isr1>>
  PROVE  /\ buf \o Queued # << >> /\ Head(buf \o Queued) = Head(buf)
         /\ (buf \o Queued)' = Tail(buf \o Queued)
<1>1. buf \in Seq(Frame) /\ buf # << >> /\ buf' = Tail(buf)
  BY DEF Inv, FramesOK, FrameEnds
<1>2. Queued \in Seq(Frame)
  BY QueuedSeq
<1>3. Queued' = Queued
  BY DEF Queued, Fill, queue
<1>4. /\ buf \o Queued # << >> /\ Head(buf \o Queued) = Head(buf)
      /\ Tail(buf \o Queued) = Tail(buf) \o Queued
  BY <1>1, <1>2, HeadTailFirst
<1> QED BY <1>1, <1>3, <1>4

(* Nothing else moves a frame. *)
LEMMA PipeStays == UNCHANGED <<queue, buf, bus>> => UNCHANGED <<buf \o Queued, dropped, bus>>
BY DEF queue, Queued, Fill

(* Every step is one of the pipe or leaves it as it is. *)
LEMMA NextPipe ==
  ASSUME Inv, Inv', [Next]_vars
  PROVE  [FramePipe!Take \/ FramePipe!Refuse \/ FramePipe!Pass \/ FramePipe!Lose]_<<buf \o Queued, dropped, bus>>
<1>1. CASE Thread
  <2>0. UNCHANGED <<buf, bus>>
    BY <1>1 DEF Thread, hw
  <2>1. CASE Push
    BY <2>0, <2>1, PushTakes
  <2>2. CASE DropFrame
    BY <2>0, <2>2, DropRefuses
  <2>3. CASE Broadcast \/ Kick
    BY <2>0, <2>3, PipeStays DEF Broadcast, Kick
  <2>4. CASE TakeCell
    <3>1. head' = head /\ tail' = tail /\ dropped' = dropped
      BY <2>4 DEF TakeCell
    <3>2. /\ Fill' = Fill
          /\ \A k \in 1 .. Fill : elem'[(tail + k - 1) % QLen] = elem[(tail + k - 1) % QLen]
      BY <2>4, TakeFills
    <3>3. Queued' = Queued
      BY <3>1, <3>2 DEF Queued
    <3> QED BY <2>0, <3>1, <3>3
  <2> QED BY <1>1, <2>1, <2>2, <2>3, <2>4 DEF Thread
<1>2. CASE Interrupt
  <2>1. CASE It0Pump
    BY <2>1, PumpStutters
  <2>2. CASE ~It0Pump
    <3>1. UNCHANGED <<queue, buf, bus>>
      BY <1>2, <2>2 DEF Interrupt, It0Enter, It0Drain, It0Drained, It0Pumped, It0Flag, It0Clear,
                        It1Enter, It1Clear, It1Drain, It1Return, hw
    <3> QED BY <3>1, PipeStays
  <2> QED BY <2>1, <2>2
<1>3. CASE Controller
  <2>0. UNCHANGED <<queue, thread, isr0, isr1>>
    BY <1>3 DEF Controller
  <2>1. dropped' = dropped
    BY <2>0 DEF queue
  <2>2. CASE Sent
    <3>1. FrameEnds /\ bus' = [frame |-> <<Head(buf)>>, count |-> bus.count + 1]
      BY <2>2 DEF Sent
    <3> QED BY <2>0, <2>1, <3>1, EndsPipe DEF FramePipe!Pass
  <2>3. CASE Disturbed \/ ArbitrationLost
    <3>1. FrameEnds /\ bus' = bus
      BY <2>3 DEF Disturbed, ArbitrationLost
    <3> QED BY <2>0, <2>1, <3>1, EndsPipe DEF FramePipe!Lose
  <2>4. CASE Received
    BY <2>0, <2>4, PipeStays DEF Received
  <2> QED BY <1>3, <2>2, <2>3, <2>4 DEF Controller
<1>4. CASE UNCHANGED vars
  BY <1>4, PipeStays DEF vars, hw
<1> QED BY <1>1, <1>2, <1>3, <1>4 DEF Next, Idle

(* The empty queue is the empty pipe. *)
LEMMA InitPipe == Init => FramePipe!Init
<1> SUFFICES ASSUME Init PROVE FramePipe!Init
  OBVIOUS
<1>1. Inv
  BY InitInv
<1>2. Queued \in Seq(Frame) /\ Len(Queued) = Fill
  BY <1>1, QueuedSeq
<1>3. Fill = 0
  BY <1>1, FillIs DEF Init, Inv, FramesOK
<1>4. Queued = << >>
  BY <1>2, <1>3, EmptySeq
<1>5. buf = << >> /\ dropped = 0 /\ bus = [frame |-> << >>, count |-> 0]
  BY DEF Init, PortInit
<1>6. buf \o Queued = << >>
  BY <1>4, <1>5
<1> QED BY <1>5, <1>6 DEF FramePipe!Init

(* For every queue, number of buffers and sequence of transfers: queue and  *)
(* buffers are a Pipe, so frames go out in the order the main loop made     *)
(* them, each at most once, and are refused only when the queue is full.    *)
THEOREM FeedInOrder == Spec => InOrder
<1>1. Inv /\ Inv' /\ [Next]_vars =>
        [FramePipe!Take \/ FramePipe!Refuse \/ FramePipe!Pass \/ FramePipe!Lose]_<<buf \o Queued, dropped, bus>>
  BY NextPipe
<1> QED BY <1>1, InitInv, NextInv, InitPipe, PTL DEF Spec, InOrder, FramePipe!Spec
=============================================================================
