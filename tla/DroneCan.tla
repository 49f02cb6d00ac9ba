------------------------------ MODULE DroneCan ------------------------------
(***************************************************************************)
(* The feeder's messages on the wire: fields of any width are packed into  *)
(* a bit stream, which is cut into the frames of a transfer                *)
(* (src/src/dronecan.c; rb01tool/dronecan.go is the same code in Go).      *)
(* Values are symbolic: bit b of the i-th field's value is <<i, b>>, so    *)
(* one behaviour stands for all values.                                    *)
(***************************************************************************)
EXTENDS Integers, Sequences

VARIABLES
  pc, msg, field,
  o,                 \* bits encoded
  storage, src_ofs,  \* enc, copy_bits
  buf,               \* the bits written, numbered from the highest of the first byte
  off, out,          \* dronecan_broadcast
  tid

vars == <<pc, msg, field, o, storage, src_ofs, buf, off, out, tid>>

(* The widths of the messages' fields, in order.                           *)
Layout == [
  fix2 |-> <<56, 56, 3, 13, 8, 37, 37, 27, 27, 32, 32, 32, 6, 2, 4, 6, 6,
             16, 16, 16, 16, 16, 16, 16>>,
  rawair |-> <<8, 32, 32, 16, 16, 16, 16>>,
  nodestatus |-> <<32, 2, 3, 3, 16>>]

(* Bits left at zero.                                                      *)
Void(i) == msg = "fix2" /\ i = 4

Zero == <<0, 0>>
Bit(k) == IF k \in DOMAIN buf THEN buf[k] ELSE Zero
Min2(a, b) == IF a < b THEN a ELSE b
Max2(a, b) == IF a < b THEN b ELSE a
Width == Layout[msg][field]

------------------------------------------------------------------------------

(* The value as bytes, lowest first, position 0 the highest bit of one.    *)
Little(j, p) ==
  LET n == CHOOSE n \in {1, 2, 4, 8} : Width <= 8 * n /\ (n > 1 => Width > 4 * n)
  IN  IF j < n THEN <<field, 8 * j + 7 - p>> ELSE Zero

(* A fault, for the mutants: the last, partial byte stays as it is.        *)
ImageUnaligned == [jp \in (0 .. 7) \X (0 .. 7) |-> Little(jp[1], jp[2])]

(* The last, partial byte is moved to its upper end.                       *)
Image ==
  [jp \in (0 .. 7) \X (0 .. 7) |->
    LET j == jp[1]
        p == jp[2]
        up == IF j = Width \div 8 /\ Width % 8 # 0 THEN 8 - (Width % 8) ELSE 0
    IN  IF p + up <= 7 THEN Little(j, p + up) ELSE Zero]

(* The next piece that lies in one byte of both.                           *)
Piece == Min2(Width - src_ofs, 8 - Max2(src_ofs % 8, (o + src_ofs) % 8))

Begin(m) ==
  /\ pc = "idle" /\ pc' = "enc"
  /\ msg' = m /\ field' = 1 /\ o' = 0
  /\ UNCHANGED <<storage, src_ofs, buf, off, out, tid>>

NextField == pc' = "enc" /\ field' = field + 1 /\ o' = o + Width

Skip ==
  /\ pc = "enc" /\ field <= Len(Layout[msg]) /\ Void(field)
  /\ NextField
  /\ UNCHANGED <<msg, storage, src_ofs, buf, off, out, tid>>

Enc ==
  /\ pc = "enc" /\ field <= Len(Layout[msg]) /\ ~Void(field)
  /\ pc' = "copy" /\ storage' = Image /\ src_ofs' = 0
  /\ UNCHANGED <<msg, field, o, buf, off, out, tid>>

(* copy_bits, a round of its loop: shift, mask, merge.                     *)
CopyBits ==
  /\ pc = "copy"
  /\ LET dst_ofs == o + src_ofs
         src_bit == src_ofs % 8
         dst_bit == dst_ofs % 8
         shifted(p) ==
           LET q == p - dst_bit + src_bit
           IN  IF q \in 0 .. 7 THEN storage[<<src_ofs \div 8, q>>] ELSE Zero
         mask == {dst_ofs - dst_bit + p : p \in (dst_bit .. dst_bit + Piece - 1) \cap (0 .. 7)}
     IN  buf' = [k \in DOMAIN buf \cup mask |-> IF k \in mask THEN shifted(k % 8) ELSE buf[k]]
  /\ src_ofs' = src_ofs + Piece
  /\ IF src_ofs' < Width THEN UNCHANGED <<pc, field, o>> ELSE NextField
  /\ UNCHANGED <<msg, storage, off, out, tid>>

------------------------------------------------------------------------------

Octet(k) == [p \in 0 .. 7 |-> Bit(8 * k + p)]

(* The transfer's bytes: over seven of them, a checksum goes before them.  *)
Payload ==
  LET plen == (o + 7) \div 8
      bytes == [k \in 1 .. plen |-> Octet(k - 1)]
  IN  IF plen <= 7 THEN bytes ELSE <<"crc", "crc">> \o bytes

Encoded ==
  /\ pc = "enc" /\ field > Len(Layout[msg]) /\ pc' = "cut"
  /\ off' = 0 /\ out' = <<>>
  /\ UNCHANGED <<msg, field, o, storage, src_ofs, buf, tid>>

(* dronecan_broadcast, a frame: seven bytes and the tail.                  *)
Cut ==
  /\ pc = "cut"
  /\ LET total == Len(Payload)
         frame == [data |-> SubSeq(Payload, off + 1, Min2(off + 7, total)),
                   start |-> off = 0, end |-> off + 7 >= total,
                   toggle |-> (off \div 7) % 2, tid |-> tid]
     IN  /\ out' = Append(out, frame) /\ off' = off + 7
         /\ IF off' < total THEN UNCHANGED <<pc, tid>> ELSE pc' = "sent" /\ tid' = (tid + 1) % 32
  /\ UNCHANGED <<msg, field, o, storage, src_ofs, buf>>

(* The frames are queued.                                                  *)
Sent ==
  /\ pc = "sent" /\ pc' = "idle"
  /\ buf' = <<>> /\ storage' = <<>> /\ src_ofs' = 0 /\ off' = 0 /\ out' = <<>>
  /\ field' = 1 /\ o' = 0
  /\ UNCHANGED <<msg, tid>>

Init ==
  /\ pc = "idle" /\ msg = "fix2" /\ field = 1 /\ o = 0
  /\ storage = <<>> /\ src_ofs = 0 /\ buf = <<>>
  /\ off = 0 /\ out = <<>> /\ tid = 0

Next == (\E m \in DOMAIN Layout : Begin(m)) \/ Skip \/ Enc \/ CopyBits \/ Encoded \/ Cut \/ Sent

Spec == Init /\ [][Next]_vars

------------------------------------------------------------------------------
(* What a receiver makes of it.                                            *)

(* The frames of one transfer, in order and complete, full but the last.   *)
OneTransfer ==
  \A i \in DOMAIN out :
    /\ out[i].start = (i = 1) /\ out[i].end = (i = Len(out))
    /\ out[i].toggle = (i - 1) % 2
    /\ out[i].tid = out[1].tid /\ tid = (out[1].tid + 1) % 32
    /\ Len(out[i].data) \in 1 .. 7 /\ (i < Len(out) => Len(out[i].data) = 7)

(* The k-th byte received, the checksum's if it has one, and their number. *)
Checksum == IF Len(out) = 1 THEN 0 ELSE 2
Byte(k) == out[(k \div 7) + 1].data[(k % 7) + 1]
Size == 7 * (Len(out) - 1) + Len(out[Len(out)].data)

(* The widths of the fields before the i-th.                               *)
Offset(i) ==
  LET sum[k \in 0 .. Len(Layout[msg])] ==
        IF k = 0 THEN 0 ELSE sum[k - 1] + Layout[msg][k]
  IN  sum[i - 1]

(* The number of the value's bit that comes k-th in a field of w bits:     *)
(* whole bytes from the lowest, each from its highest bit, then the rest.  *)
BitAt(w, k) ==
  LET byte == k \div 8
  IN  IF 8 * byte + 8 <= w THEN 8 * byte + 7 - (k % 8) ELSE 8 * byte + (w % 8) - 1 - (k % 8)

(* Every field arrives as the bits of its value, in its place, whatever    *)
(* the bits of the others, and what belongs to none is zero: the packing   *)
(* in pieces, the shifted last byte, the cut and the tail are undone by a  *)
(* receiver that follows the format (dronecan.c: "faithful ports").        *)
Understood ==
  pc = "sent" =>
    /\ OneTransfer
    /\ LET n == Len(Layout[msg])
           bit(k) == Byte(Checksum + (k \div 8))[k % 8]
       IN  /\ \A i \in 1 .. n : \A k \in 0 .. Layout[msg][i] - 1 :
                bit(Offset(i) + k) =
                  IF Void(i) THEN Zero ELSE <<i, BitAt(Layout[msg][i], k)>>
           /\ \A k \in Offset(n + 1) .. 8 * (Size - Checksum) - 1 : bit(k) = Zero
=============================================================================
