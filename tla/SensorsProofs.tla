--------------------------- MODULE SensorsProofs ---------------------------
(***************************************************************************)
(* Proofs about the emulated chips: the BMI088 for every capacity, frame   *)
(* size, prefetch and number of samples and frames of the master, and for  *)
(* every set of promises that holds those a theorem names; the barometer   *)
(* for every set of reads and of values the DUT stores.                    *)
(***************************************************************************)
EXTENDS Sensors, SequenceTheorems, TLAPS

-----------------------------------------------------------------------------
(* Frames, bytes and sequences. *)

(* What is assumed of the constants. *)
LEMMA Constants ==
  /\ Accel \in Dev /\ Gyro \in Dev /\ Accel # Gyro
  /\ \A d \in Dev : d = Accel \/ d = Gyro
  /\ \A d \in Dev : /\ Capacity[d] \in Nat \ {0} /\ FrameSize[d] \in Nat \ {0}
                    /\ Prefix[d] \in Nat /\ Prefetch < FrameSize[d]
  /\ Prefix[Gyro] = 0 /\ Prefetch \in Nat /\ Bytes \subseteq Nat
  /\ MaxSamples \in Nat /\ MaxFrames \in Nat
BY ImuAssumption DEF Dev

(* The number of frames in some bytes. *)
LEMMA DivNat ==
  ASSUME NEW a \in Nat, NEW b \in Nat \ {0}
  PROVE  a \div b \in Nat
OBVIOUS

(* The remainder of a frame counts for none. *)
LEMMA WholeFrames ==
  ASSUME NEW fs \in Nat, NEW e \in Nat, e < fs, NEW k \in Nat
  PROVE  (k * fs + e) \div fs = k
OBVIOUS

(* Samples are numbers. *)
LEMMA SeqWiden ==
  ASSUME NEW m \in Nat, NEW f \in Seq(1 .. m)
  PROVE  f \in Seq(Nat)
<1>1. 1 .. m \subseteq Nat
  OBVIOUS
<1> QED BY <1>1, SeqMonotonic

(* Sequences of numbers may be put together in any order. *)
LEMMA NatAssociative ==
  ASSUME NEW s \in Seq(Nat), NEW t \in Seq(Nat), NEW u \in Seq(Nat)
  PROVE  (s \o t) \o u = s \o (t \o u)
<1> DEFINE l == (s \o t) \o u
           r == s \o (t \o u)
<1>1. s \o t \in Seq(Nat) /\ t \o u \in Seq(Nat) /\ l \in Seq(Nat) /\ r \in Seq(Nat)
  BY ConcatProperties
<1>2. /\ Len(s) \in Nat /\ Len(t) \in Nat /\ Len(u) \in Nat
      /\ Len(s \o t) = Len(s) + Len(t) /\ Len(t \o u) = Len(t) + Len(u)
      /\ Len(l) = Len(s) + Len(t) + Len(u) /\ Len(r) = Len(s) + Len(t) + Len(u)
  BY <1>1, ConcatProperties, LenProperties
<1>3. ASSUME NEW i \in 1 .. Len(s) + Len(t) + Len(u) PROVE l[i] = r[i]
  <2>1. CASE i <= Len(s)
    <3>1. l[i] = (s \o t)[i] /\ (s \o t)[i] = s[i] /\ r[i] = s[i]
      BY <1>1, <1>2, <2>1, ConcatProperties
    <3> QED BY <3>1
  <2>2. CASE i > Len(s) /\ i <= Len(s) + Len(t)
    <3>1. l[i] = (s \o t)[i] /\ (s \o t)[i] = t[i - Len(s)]
      BY <1>1, <1>2, <2>2, ConcatProperties
    <3>2. r[i] = (t \o u)[i - Len(s)] /\ (t \o u)[i - Len(s)] = t[i - Len(s)]
      BY <1>1, <1>2, <2>2, ConcatProperties
    <3> QED BY <3>1, <3>2
  <2>3. CASE i > Len(s) + Len(t)
    <3>1. l[i] = u[i - (Len(s) + Len(t))]
      BY <1>1, <1>2, <2>3, ConcatProperties
    <3>2. r[i] = (t \o u)[i - Len(s)] /\ (t \o u)[i - Len(s)] = u[i - Len(s) - Len(t)]
      BY <1>1, <1>2, <2>3, ConcatProperties
    <3>3. i - (Len(s) + Len(t)) = i - Len(s) - Len(t)
      BY <1>2
    <3> QED BY <3>1, <3>2, <3>3
  <2> QED BY <1>2, <2>1, <2>2, <2>3
<1> HIDE DEF l, r
<1>4. l = r
  BY <1>1, <1>2, <1>3, SeqEqual
<1> QED BY <1>4 DEF l, r

(* A sequence cut in two. *)
LEMMA CutInTwo ==
  ASSUME NEW S, NEW f \in Seq(S), NEW k \in 0 .. Len(f)
  PROVE  /\ SubSeq(f, 1, k) \in Seq(S) /\ Len(SubSeq(f, 1, k)) = k
         /\ \A i \in 1 .. k : SubSeq(f, 1, k)[i] = f[i]
         /\ SubSeq(f, k + 1, Len(f)) \in Seq(S)
         /\ Len(SubSeq(f, k + 1, Len(f))) = Len(f) - k
         /\ \A i \in 1 .. Len(f) - k : SubSeq(f, k + 1, Len(f))[i] = f[k + i]
         /\ SubSeq(f, 1, k) \o SubSeq(f, k + 1, Len(f)) = f
<1>1. Len(f) \in Nat /\ \A i \in 1 .. Len(f) : f[i] \in S
  BY LenProperties, ElementOfSeq
<1>2. /\ SubSeq(f, 1, k) \in Seq(S) /\ Len(SubSeq(f, 1, k)) = k
      /\ \A i \in 1 .. k : SubSeq(f, 1, k)[i] = f[i]
  OBVIOUS
<1>3. /\ SubSeq(f, k + 1, Len(f)) \in Seq(S)
      /\ Len(SubSeq(f, k + 1, Len(f))) = Len(f) - k
      /\ \A i \in 1 .. Len(f) - k : SubSeq(f, k + 1, Len(f))[i] = f[k + i]
  OBVIOUS
<1>4. SubSeq(f, 1, k) \o SubSeq(f, k + 1, Len(f)) = SubSeq(f, 1, Len(f))
  <2>1. 1 \in 1 .. Len(f) + 1 /\ k \in 1 - 1 .. Len(f) /\ Len(f) \in k .. Len(f)
    BY <1>1
  <2> QED BY <2>1, ConcatAdjacentSubSeq
<1> QED BY <1>2, <1>3, <1>4, SubSeqFull

-----------------------------------------------------------------------------
(* The frames of one FIFO, to be kept in every step that moves them. *)

(* Of m frames, a holds each that is not in l, in order. *)
Books(a, l, m) ==
  /\ \A i, j \in 1 .. Len(a) : i < j => a[i] < a[j]
  /\ \A i \in 1 .. Len(a) : a[i] \in (1 .. m) \ l
  /\ l \subseteq 1 .. m
  /\ \A x \in (1 .. m) \ l : \E i \in 1 .. Len(a) : a[i] = x

(* What that says of the sequence's range. *)
LEMMA BooksMean ==
  ASSUME NEW a \in Seq(Nat), NEW l, NEW m \in Nat, Books(a, l, m)
  PROVE  /\ \A i, j \in DOMAIN a : i < j => a[i] < a[j]
         /\ {a[i] : i \in DOMAIN a} \intersect l = {}
         /\ {a[i] : i \in DOMAIN a} \union l = 1 .. m
<1>1. DOMAIN a = 1 .. Len(a)
  OBVIOUS
<1> QED BY <1>1 DEF Books

(* The next frame goes behind the others ... *)
LEMMA BooksAppend ==
  ASSUME NEW a \in Seq(Nat), NEW l, NEW m \in Nat, Books(a, l, m)
  PROVE  Books(Append(a, m + 1), l, m + 1)
<1> DEFINE b == Append(a, m + 1)
<1>1. /\ Len(a) \in Nat /\ Len(b) = Len(a) + 1 /\ b[Len(a) + 1] = m + 1
      /\ \A i \in 1 .. Len(a) : b[i] = a[i] /\ a[i] \in Nat
  OBVIOUS
<1> HIDE DEF b
<1>0. /\ \A i, j \in 1 .. Len(a) : i < j => a[i] < a[j]
      /\ \A i \in 1 .. Len(a) : a[i] \in 1 .. m /\ a[i] \notin l
      /\ l \subseteq 1 .. m
  BY DEF Books
<1>2. ASSUME NEW i \in 1 .. Len(b), NEW j \in 1 .. Len(b), i < j PROVE b[i] < b[j]
  <2>1. i \in 1 .. Len(a) /\ b[i] = a[i] /\ a[i] \in 1 .. m
    BY <1>0, <1>1, <1>2
  <2>2. CASE j = Len(a) + 1
    BY <1>1, <2>1, <2>2
  <2>3. CASE j \in 1 .. Len(a)
    BY <1>0, <1>1, <1>2, <2>1, <2>3
  <2> QED BY <1>1, <2>2, <2>3
<1>3. ASSUME NEW i \in 1 .. Len(b) PROVE b[i] \in (1 .. m + 1) \ l
  <2>1. CASE i = Len(a) + 1
    BY <1>0, <1>1, <2>1
  <2>2. CASE i \in 1 .. Len(a)
    BY <1>0, <1>1, <2>2
  <2> QED BY <1>1, <2>1, <2>2
<1>4. ASSUME NEW x \in (1 .. m + 1) \ l PROVE \E i \in 1 .. Len(b) : b[i] = x
  <2>1. CASE x = m + 1
    BY <1>1, <2>1
  <2>2. CASE x # m + 1
    <3>1. PICK i \in 1 .. Len(a) : a[i] = x
      BY <2>2 DEF Books
    <3> QED BY <1>1, <3>1
  <2> QED BY <2>1, <2>2
<1>5. l \subseteq 1 .. m + 1
  BY DEF Books
<1> QED BY <1>2, <1>3, <1>4, <1>5 DEF Books, b

(* ... or is lost at once. *)
LEMMA BooksDrop ==
  ASSUME NEW a \in Seq(Nat), NEW l, NEW m \in Nat, Books(a, l, m)
  PROVE  Books(a, l \union {m + 1}, m + 1)
BY DEF Books

(* The frames behind those taken are lost. *)
LEMMA BooksClear ==
  ASSUME NEW g \in Seq(Nat), NEW f \in Seq(Nat), NEW l, NEW m \in Nat, Books(g \o f, l, m)
  PROVE  Books(g \o <<>>, l \union {f[i] : i \in DOMAIN f}, m)
<1> DEFINE a == g \o f
           r == {f[i] : i \in DOMAIN f}
<1>1. /\ Len(g) \in Nat /\ Len(f) \in Nat /\ DOMAIN f = 1 .. Len(f) /\ g \o <<>> = g
      /\ Len(a) = Len(g) + Len(f)
      /\ \A i \in 1 .. Len(g) : a[i] = g[i] /\ g[i] \in Nat
      /\ \A i \in 1 .. Len(f) : a[Len(g) + i] = f[i] /\ f[i] \in Nat
  BY ConcatEmptySeq, LenProperties, ElementOfSeq, ConcatProperties
<1>2. /\ \A i, j \in 1 .. Len(a) : i < j => a[i] < a[j]
      /\ \A i \in 1 .. Len(a) : a[i] \in (1 .. m) \ l
      /\ l \subseteq 1 .. m
      /\ \A x \in (1 .. m) \ l : \E i \in 1 .. Len(a) : a[i] = x
  BY DEF Books
<1> HIDE DEF a
<1>3. \A i, j \in 1 .. Len(g) : i < j => g[i] < g[j]
  BY <1>1, <1>2
<1>4. ASSUME NEW i \in 1 .. Len(g) PROVE g[i] \in (1 .. m) \ (l \union r)
  <2>1. \A j \in 1 .. Len(f) : a[i] < a[Len(g) + j]
    BY <1>1, <1>2
  <2>2. \A j \in 1 .. Len(f) : g[i] # f[j]
    BY <1>1, <2>1, SMTT(30)
  <2> QED BY <1>1, <1>2, <2>2, SMTT(30)
<1>5. l \union r \subseteq 1 .. m
  <2>1. ASSUME NEW j \in 1 .. Len(f) PROVE f[j] \in 1 .. m
    <3>1. Len(g) + j \in 1 .. Len(a)
      BY <1>1
    <3> QED BY <1>1, <1>2, <3>1
  <2> QED BY <1>1, <1>2, <2>1
<1>6. ASSUME NEW x \in (1 .. m) \ (l \union r) PROVE \E i \in 1 .. Len(g) : g[i] = x
  <2>1. PICK i \in 1 .. Len(a) : a[i] = x
    BY <1>2
  <2>2. CASE i <= Len(g)
    <3>1. i \in 1 .. Len(g)
      BY <1>1, <2>2
    <3> QED BY <1>1, <2>1, <3>1
  <2>3. CASE i > Len(g)
    <3>1. i - Len(g) \in 1 .. Len(f) /\ a[Len(g) + (i - Len(g))] = x
      BY <1>1, <2>1, <2>3
    <3> QED BY <1>1, <3>1
  <2> QED BY <1>1, <2>2, <2>3
<1> QED BY <1>1, <1>3, <1>4, <1>5, <1>6 DEF Books

-----------------------------------------------------------------------------
(* Types.  Between two steps of a commit a place for its sample is left,    *)
(* and the frame on the bus is one of its device.                          *)

ThrType ==
  \/ thr = Idle
  \/ /\ thr \in [pc : {"regs", "fill", "sample", "commit", "apply", "drdy"}, dev : Dev]
     /\ thr.pc \in {"sample", "commit", "apply"} => made[thr.dev] < MaxSamples

BusType ==
  bus # None =>
    /\ bus.dev \in Dev /\ bus.took \in Seq(Nat)
    /\ bus.frame.op = "drain" => bus.frame.early \in Nat /\ bus.frame.bytes \in Nat

TypeInv == TypeOK /\ ThrType /\ BusType

(* sensors_init establishes the types. *)
LEMMA InitType == Init => TypeInv
<1> SUFFICES ASSUME Init PROVE TypeInv
  OBVIOUS
<1>1. <<>> \in Seq(1 .. MaxSamples) /\ <<>> \in Seq(Nat) /\ Len(<<>>) = 0
  OBVIOUS
<1>2. ThrType /\ BusType
  BY DEF Init, ThrType, BusType
<1>3. fifo \in [Dev -> Seq(1 .. MaxSamples)] /\ \A d \in Dev : Len(fifo[d]) <= Capacity[d]
  BY <1>1, Constants DEF Init
<1>4. got \in [Dev -> Seq(Nat)] /\ lost \in [Dev -> SUBSET (1 .. MaxSamples)]
  BY <1>1 DEF Init
<1>5. cfg \in [Dev -> Config]
  BY DEF Init, Config, Default
<1>6. made \in [Dev -> 0 .. MaxSamples] /\ nframes \in 0 .. MaxFrames
  BY Constants DEF Init
<1> QED BY <1>2, <1>3, <1>4, <1>5, <1>6 DEF Init, TypeInv, TypeOK

(* A pop leaves one end of the FIFO. *)
LEMMA PopType ==
  ASSUME TypeOK, NEW d \in Dev, NEW len \in Nat
  PROVE  \E k \in 0 .. Len(fifo[d]) : Pop(d, len) = SubSeq(fifo[d], k + 1, Len(fifo[d]))
<1>1. Len(fifo[d]) \in Nat
  <2>1. fifo[d] \in Seq(1 .. MaxSamples)
    BY DEF TypeOK
  <2> QED BY <2>1, LenProperties
<1>2. len \div FrameSize[d] \in Nat
  BY DivNat, Constants
<1> DEFINE k == Least(len \div FrameSize[d], Len(fifo[d]))
<1>3. k \in 0 .. Len(fifo[d])
  BY <1>1, <1>2 DEF Least
<1>4. Pop(d, len) = SubSeq(fifo[d], k + 1, Len(fifo[d]))
  BY DEF Pop
<1> HIDE DEF k
<1> QED BY <1>3, <1>4

(* A content that fits is announced as it is. *)
LEMMA RefillType ==
  ASSUME TypeOK, NEW d \in Dev, NEW q \in Seq(1 .. MaxSamples), Len(q) <= Capacity[d], Refill(d, q)
  PROVE  /\ fifo' \in [Dev -> Seq(1 .. MaxSamples)]
         /\ \A e \in Dev : Len(fifo'[e]) <= Capacity[e]
         /\ count' \in [Dev -> Nat] /\ mirror' \in Nat
<1>1. Len(q) \in Nat
  BY LenProperties
<1> QED BY <1>1 DEF TypeOK, Refill

(* A drain takes numbers. *)
LEMMA TakenType ==
  ASSUME TypeOK, NEW d \in Dev, NEW f, f.bytes \in Nat
  PROVE  Taken(d, f) \in Seq(Nat)
<1> DEFINE told == IF f.early = 0 THEN count[d] ELSE mirror
           k == Least(f.bytes \div FrameSize[d], told)
<1>1. k \in Nat
  BY DivNat, Constants DEF TypeOK, Least
<1>2. \A i \in 1 .. k : i <= Len(fifo[d]) => fifo[d][i] \in Nat
  <2>1. fifo[d] \in Seq(1 .. MaxSamples)
    BY DEF TypeOK
  <2> HIDE DEF k
  <2>2. \A i \in 1 .. Len(fifo[d]) : fifo[d][i] \in 1 .. MaxSamples
    BY <2>1, ElementOfSeq
  <2> QED BY <1>1, <2>1, <2>2
<1> HIDE DEF k
<1>3. [i \in 1 .. k |-> IF i <= Len(fifo[d]) THEN fifo[d][i] ELSE 0] \in Seq(Nat)
  BY <1>1, <1>2
<1> QED BY <1>3 DEF Taken, k

(* A frame of the master begins. *)
LEMMA BeginType ==
  ASSUME TypeInv, NEW d \in Dev, NEW f \in Frames(d), Begin(d, f)
  PROVE  TypeInv'
<1>1. f.op = "drain" => f.bytes \in Nat /\ f.early \in Nat
  BY Constants DEF Frames
<1>2. bus' = [dev |-> d, frame |-> f, took |-> IF f.op = "drain" THEN Taken(d, f) ELSE <<>>]
  BY DEF Begin
<1>3. bus'.took \in Seq(Nat)
  BY <1>1, <1>2, TakenType DEF TypeInv
<1>4. cfg' \in [Dev -> Config]
  <2>1. CASE f.op = "write"
    <3>1. f.reg \in {"on", "fifo", "en", "map"} /\ f.val \in BOOLEAN
      BY <2>1 DEF Frames
    <3>2. cfg[d] \in Config
      BY DEF TypeInv, TypeOK
    <3>3. [cfg[d] EXCEPT ![f.reg] = f.val] \in Config
      BY <3>1, <3>2 DEF Config
    <3>4. cfg' = [cfg EXCEPT ![d] = [cfg[d] EXCEPT ![f.reg] = f.val]]
      BY <2>1 DEF Begin
    <3> QED BY <3>3, <3>4 DEF TypeInv, TypeOK
  <2>2. CASE f.op # "write"
    BY <2>2 DEF Begin, TypeInv, TypeOK
  <2> QED BY <2>1, <2>2
<1>5. ThrType'
  BY DEF Begin, TypeInv, ThrType, ghost
<1>6. BusType'
  BY <1>1, <1>2, <1>3 DEF BusType
<1>7. bus' = None \/ bus'.dev \in Dev
  BY <1>2
<1>8. nframes' \in 0 .. MaxFrames
  BY Constants DEF Begin, TypeInv, TypeOK
<1>9. UNCHANGED <<fifo, count, mirror, over, fresh, stat, pin, armed, req, thr, bias, ghost>>
  BY DEF Begin
<1>10. TypeOK'
  BY <1>4, <1>7, <1>8, <1>9 DEF TypeInv, TypeOK, ghost
<1> QED BY <1>5, <1>6, <1>10 DEF TypeInv

(* What a drain takes from a FIFO leaves one of its ends. *)
LEMMA EndDrainFills ==
  ASSUME TypeOK, NEW d \in Dev, NEW f, f.early \in Nat, f.bytes \in Nat, EndDrain(d, f)
  PROVE  /\ fifo' \in [Dev -> Seq(1 .. MaxSamples)]
         /\ \A e \in Dev : Len(fifo'[e]) <= Capacity[e]
         /\ count' \in [Dev -> Nat] /\ mirror' \in Nat
<1>1. PICK extra \in 0 .. Prefetch :
        LET len == f.early + f.bytes + extra
        IN  IF d = Accel /\ len <= f.early
            THEN UNCHANGED <<fifo, count, mirror>>
            ELSE Refill(d, Pop(d, len - f.early))
  BY DEF EndDrain
<1> DEFINE len == f.early + f.bytes + extra
<1>2. CASE d = Accel /\ len <= f.early
  BY <1>1, <1>2 DEF TypeOK
<1>3. CASE ~(d = Accel /\ len <= f.early)
  <2>1. len - f.early \in Nat
    BY Constants
  <2>2. Refill(d, Pop(d, len - f.early))
    BY <1>1, <1>3
  <2> HIDE DEF len
  <2>3. PICK k \in 0 .. Len(fifo[d]) :
          Pop(d, len - f.early) = SubSeq(fifo[d], k + 1, Len(fifo[d]))
    BY <2>1, PopType
  <2>4. fifo[d] \in Seq(1 .. MaxSamples) /\ Len(fifo[d]) \in Nat /\ Len(fifo[d]) <= Capacity[d]
    BY LenProperties DEF TypeOK
  <2>5. /\ Pop(d, len - f.early) \in Seq(1 .. MaxSamples)
        /\ Len(Pop(d, len - f.early)) <= Capacity[d]
    <3>1. /\ SubSeq(fifo[d], k + 1, Len(fifo[d])) \in Seq(1 .. MaxSamples)
          /\ Len(SubSeq(fifo[d], k + 1, Len(fifo[d]))) = Len(fifo[d]) - k
      BY <2>4, CutInTwo
    <3>2. Len(fifo[d]) - k <= Capacity[d]
      BY <2>4, Constants
    <3> QED BY <2>3, <3>1, <3>2
  <2> QED BY <2>2, <2>5, RefillType
<1> QED BY <1>2, <1>3

(* A FIFO that is cleared. *)
LEMMA ClearFills ==
  ASSUME TypeOK, NEW d \in Dev, Refill(d, <<>>)
  PROVE  /\ fifo' \in [Dev -> Seq(1 .. MaxSamples)]
         /\ \A e \in Dev : Len(fifo'[e]) <= Capacity[e]
         /\ count' \in [Dev -> Nat] /\ mirror' \in Nat
<1>1. <<>> \in Seq(1 .. MaxSamples) /\ Len(<<>>) <= Capacity[d]
  <2>1. Len(<<>>) = 0
    OBVIOUS
  <2> QED BY <2>1, Constants
<1> QED BY <1>1, RefillType

(* The samples of a FIFO are samples. *)
LEMMA ContentType ==
  ASSUME TypeOK, NEW d \in Dev
  PROVE  {fifo[d][i] : i \in DOMAIN fifo[d]} \subseteq 1 .. MaxSamples
<1>1. fifo[d] \in Seq(1 .. MaxSamples)
  BY DEF TypeOK
<1>2. DOMAIN fifo[d] = 1 .. Len(fifo[d]) /\ \A i \in 1 .. Len(fifo[d]) : fifo[d][i] \in 1 .. MaxSamples
  BY <1>1, LenProperties, ElementOfSeq
<1> QED BY <1>2

(* A frame of the master ends. *)
LEMMA EndType ==
  ASSUME TypeInv, End
  PROVE  TypeInv'
<1> DEFINE d == bus.dev
           f == bus.frame
<1>1. /\ TypeOK /\ d \in Dev /\ bus.took \in Seq(Nat)
      /\ f.op = "drain" => f.early \in Nat /\ f.bytes \in Nat
  BY DEF End, TypeInv, BusType
<1>2. bus' = None /\ UNCHANGED <<armed, thr, bias, nframes>>
  BY DEF End
<1>3. ThrType' /\ BusType'
  <2>1. UNCHANGED made
    BY DEF End, EndDrain, EndRead, EndWrite, EndReset, ghost
  <2> QED BY <1>2, <2>1 DEF TypeInv, ThrType, BusType
<1>4. CASE EndDrain(d, f)
  <2>1. /\ f.op = "drain" /\ UNCHANGED <<cfg, over, fresh, stat, pin, req, made, lost>>
        /\ got' = [got EXCEPT ![d] = got[d] \o bus.took]
    BY <1>4 DEF EndDrain
  <2>2. got' \in [Dev -> Seq(Nat)]
    <3>1. got[d] \in Seq(Nat)
      BY <1>1 DEF TypeOK
    <3>2. got[d] \o bus.took \in Seq(Nat)
      BY <1>1, <3>1, ConcatProperties
    <3> QED BY <1>1, <2>1, <3>2 DEF TypeOK
  <2> HIDE DEF d, f
  <2>3. /\ fifo' \in [Dev -> Seq(1 .. MaxSamples)]
        /\ \A e \in Dev : Len(fifo'[e]) <= Capacity[e]
        /\ count' \in [Dev -> Nat] /\ mirror' \in Nat
    BY <1>1, <1>4, <2>1, EndDrainFills
  <2> QED BY <1>1, <1>2, <1>3, <2>1, <2>2, <2>3 DEF TypeInv, TypeOK
<1>5. CASE EndRead(d, f)
  <2> HIDE DEF d, f
  <2> QED BY <1>1, <1>2, <1>3, <1>5 DEF TypeInv, TypeOK, EndRead, ghost
<1>6. CASE EndWrite(d, f)
  <2> HIDE DEF d, f
  <2>1. UNCHANGED <<cfg, fresh, stat, pin, req, made, got>>
    BY <1>6 DEF EndWrite
  <2>2. CASE f.reg = "fifo"
    <3>1. /\ Refill(d, <<>>) /\ over' = (IF d = Gyro THEN FALSE ELSE over)
          /\ lost' = [lost EXCEPT ![d] = @ \union {fifo[d][i] : i \in DOMAIN fifo[d]}]
      BY <1>6, <2>2 DEF EndWrite
    <3>2. lost' \in [Dev -> SUBSET (1 .. MaxSamples)]
      BY <1>1, <3>1, ContentType DEF TypeOK
    <3> QED BY <1>1, <1>2, <1>3, <2>1, <3>1, <3>2, ClearFills DEF TypeInv, TypeOK
  <2>3. CASE f.reg # "fifo"
    <3>1. UNCHANGED <<fifo, count, mirror, over, lost>>
      BY <1>6, <2>3 DEF EndWrite
    <3> QED BY <1>1, <1>2, <1>3, <2>1, <3>1 DEF TypeInv, TypeOK
  <2> QED BY <2>2, <2>3
<1>7. CASE EndReset(d, f)
  <2> HIDE DEF d, f
  <2> QED BY <1>1, <1>2, <1>3, <1>7 DEF TypeInv, TypeOK, EndReset, regs, ghost
<1> QED BY <1>4, <1>5, <1>6, <1>7 DEF End

(* A sample is offered. *)
LEMMA OfferFills ==
  ASSUME TypeOK, NEW d \in Dev, made[d] < MaxSamples, Offer(d)
  PROVE  /\ fifo' \in [Dev -> Seq(1 .. MaxSamples)]
         /\ \A e \in Dev : Len(fifo'[e]) <= Capacity[e]
         /\ count' \in [Dev -> Nat] /\ mirror' \in Nat
         /\ over' \in BOOLEAN /\ made' \in [Dev -> 0 .. MaxSamples]
         /\ lost' \in [Dev -> SUBSET (1 .. MaxSamples)]
<1>1. made[d] + 1 \in 1 .. MaxSamples /\ made' = [made EXCEPT ![d] = made[d] + 1]
  <2>1. made[d] \in 0 .. MaxSamples
    BY DEF TypeOK
  <2> QED BY <2>1, Constants DEF Offer
<1>2. made' \in [Dev -> 0 .. MaxSamples]
  BY <1>1 DEF TypeOK
<1>3. CASE Len(fifo[d]) < Capacity[d]
  <2>1. Refill(d, Append(fifo[d], made[d] + 1)) /\ UNCHANGED <<over, lost>>
    BY <1>3 DEF Offer
  <2>2. /\ Append(fifo[d], made[d] + 1) \in Seq(1 .. MaxSamples)
        /\ Len(Append(fifo[d], made[d] + 1)) <= Capacity[d]
    <3>1. fifo[d] \in Seq(1 .. MaxSamples) /\ Len(fifo[d]) \in Nat
      BY LenProperties DEF TypeOK
    <3>2. /\ Append(fifo[d], made[d] + 1) \in Seq(1 .. MaxSamples)
          /\ Len(Append(fifo[d], made[d] + 1)) = Len(fifo[d]) + 1
      BY <1>1, <3>1, AppendProperties
    <3> QED BY <1>3, <3>1, <3>2, Constants
  <2> QED BY <1>2, <2>1, <2>2, RefillType DEF TypeOK
<1>4. CASE ~(Len(fifo[d]) < Capacity[d])
  <2>1. /\ over' = (over \/ d = Gyro) /\ UNCHANGED <<fifo, count, mirror>>
        /\ lost' = [lost EXCEPT ![d] = lost[d] \union {made[d] + 1}]
    BY <1>4 DEF Offer
  <2> QED BY <1>1, <1>2, <2>1 DEF TypeOK
<1> QED BY <1>3, <1>4

(* The steps of the thread. *)
LEMMA ThreadType ==
  ASSUME TypeInv, Thread
  PROVE  TypeInv'
<1>1. TypeOK /\ ThrType /\ BusType
  BY DEF TypeInv
<1>2. ASSUME NEW d \in Dev, PollReset(d) PROVE TypeInv'
  <2>1. ThrType' /\ BusType'
    BY <1>1, <1>2 DEF PollReset, ThrType, BusType
  <2> QED BY <1>1, <1>2, <2>1 DEF TypeInv, TypeOK, PollReset, regs, ghost
<1>3. ASSUME NEW d \in Dev, Release(d) PROVE TypeInv'
  <2>1. ThrType' /\ BusType'
    BY <1>1, <1>3 DEF Release, ThrType, BusType, ghost
  <2> QED BY <1>1, <1>3, <2>1 DEF TypeInv, TypeOK, Release, ghost, Config
<1>4. ASSUME NEW d \in Dev, Due(d) PROVE TypeInv'
  <2>1. ThrType' /\ BusType'
    BY <1>1, <1>4 DEF Due, ThrType, BusType, ghost
  <2> QED BY <1>1, <1>4, <2>1 DEF TypeInv, TypeOK, Due, regs, ghost
<1> SUFFICES ASSUME ResetRegs \/ ResetFill \/ Sample \/ Commit \/ Refused \/ Apply \/ Drdy
             PROVE  TypeInv'
  BY <1>2, <1>3, <1>4 DEF Thread
<1> DEFINE d == thr.dev
<1>5. thr # Idle /\ d \in Dev /\ UNCHANGED bus
  <2>1. thr.pc # "idle"
    BY DEF ResetRegs, ResetFill, Sample, Commit, Refused, Apply, Drdy
  <2>2. thr # Idle
    BY <2>1 DEF Idle
  <2>3. UNCHANGED bus
    BY DEF ResetRegs, ResetFill, Sample, Commit, Refused, Apply, Drdy
  <2> QED BY <1>1, <2>2, <2>3 DEF ThrType
<1>6. BusType'
  BY <1>1, <1>5 DEF BusType
<1>7. CASE ResetRegs
  <2>1. ThrType'
    BY <1>1, <1>5, <1>7 DEF ResetRegs, ThrType, ghost
  <2>2. Default(d) \in Config
    BY DEF Default, Config
  <2> QED BY <1>1, <1>5, <1>6, <1>7, <2>1, <2>2 DEF TypeInv, TypeOK, ResetRegs, ghost
<1>8. CASE ResetFill
  <2> HIDE DEF d
  <2>1. thr' = Idle /\ UNCHANGED <<regs, pin, armed, req, bus, bias, made, got, nframes>>
    BY <1>8 DEF ResetFill
  <2>2. /\ fifo' = [fifo EXCEPT ![d] = <<>>]
        /\ lost' = [lost EXCEPT ![d] = lost[d] \union {fifo[d][i] : i \in DOMAIN fifo[d]}]
    BY <1>8 DEF ResetFill, d
  <2>3. <<>> \in Seq(1 .. MaxSamples) /\ Len(<<>>) <= Capacity[d]
    <3>1. Len(<<>>) = 0
      OBVIOUS
    <3> QED BY <3>1, <1>5, Constants
  <2>4. lost' \in [Dev -> SUBSET (1 .. MaxSamples)]
    BY <1>1, <1>5, <2>2, ContentType DEF TypeOK
  <2> QED BY <1>1, <1>5, <1>6, <2>1, <2>2, <2>3, <2>4 DEF TypeInv, TypeOK, regs, ThrType
<1>9. CASE Sample
  <2>1. ThrType'
    BY <1>1, <1>5, <1>9 DEF Sample, ThrType, ghost
  <2> QED BY <1>1, <1>5, <1>6, <1>9, <2>1 DEF TypeInv, TypeOK, Sample, regs, ghost
<1>10. CASE Commit
  <2>1. ThrType'
    BY <1>1, <1>5, <1>10 DEF Commit, ThrType, ghost
  <2> QED BY <1>1, <1>5, <1>6, <1>10, <2>1 DEF TypeInv, TypeOK, Commit, regs, ghost
<1>11. CASE Refused
  <2>1. ThrType'
    BY <1>11 DEF Refused, ThrType
  <2> QED BY <1>1, <1>5, <1>6, <1>11, <2>1 DEF TypeInv, TypeOK, Refused, regs, ghost
<1>12. CASE Apply
  <2> HIDE DEF d
  <2>1. /\ UNCHANGED <<cfg, stat, pin, armed, req, bus, bias, got, nframes>>
        /\ fresh' = (fresh \/ d = Accel) /\ thr' = [pc |-> "drdy", dev |-> d]
    BY <1>12 DEF Apply, d
  <2>2. ThrType'
    BY <1>5, <2>1 DEF ThrType
  <2>3. CASE cfg[d].fifo
    <3>1. Offer(d)
      BY <1>12, <2>3 DEF Apply, d
    <3>2. made[d] < MaxSamples
      BY <1>1, <1>5, <1>12 DEF ThrType, Apply, d
    <3>3. /\ fifo' \in [Dev -> Seq(1 .. MaxSamples)]
          /\ \A e \in Dev : Len(fifo'[e]) <= Capacity[e]
          /\ count' \in [Dev -> Nat] /\ mirror' \in Nat
          /\ over' \in BOOLEAN /\ made' \in [Dev -> 0 .. MaxSamples]
          /\ lost' \in [Dev -> SUBSET (1 .. MaxSamples)]
      BY <1>1, <1>5, <3>1, <3>2, OfferFills
    <3> QED BY <1>1, <1>5, <1>6, <2>1, <2>2, <3>3 DEF TypeInv, TypeOK
  <2>4. CASE ~cfg[d].fifo
    <3>1. UNCHANGED <<fifo, count, mirror, over, made, lost>>
      BY <1>12, <2>4 DEF Apply, d
    <3> QED BY <1>1, <1>5, <1>6, <2>1, <2>2, <3>1 DEF TypeInv, TypeOK
  <2> QED BY <2>3, <2>4
<1>13. CASE Drdy
  <2>1. ThrType'
    BY <1>13 DEF Drdy, ThrType
  <2>2. cfg[d] \in Config
    BY <1>1, <1>5 DEF TypeOK
  <2> QED BY <1>1, <1>5, <1>6, <1>13, <2>1, <2>2 DEF TypeInv, TypeOK, Drdy, ghost, Config
<1> QED BY <1>7, <1>8, <1>9, <1>10, <1>11, <1>12, <1>13

(* Every step keeps the types. *)
LEMMA NextType == TypeInv /\ [Next]_vars => TypeInv'
<1> SUFFICES ASSUME TypeInv, [Next]_vars PROVE TypeInv'
  OBVIOUS
<1>1. CASE UNCHANGED vars
  BY <1>1 DEF TypeInv, TypeOK, ThrType, BusType, vars, regs, ghost
<1> QED BY <1>1, BeginType, EndType, ThreadType DEF Next

(* Every variable stays in its type and no FIFO grows beyond its buffer,   *)
(* whatever the master does (sensors.c, fifo_append).                      *)
THEOREM TypeCorrect == Spec => []TypeOK
<1>1. TypeInv => TypeOK
  BY DEF TypeInv
<1> QED BY <1>1, InitType, NextType, PTL DEF Spec

-----------------------------------------------------------------------------
(* A gap in the gyro's samples is reported.  With the types NoSilentGap is  *)
(* inductive: an append makes the next number, a pop leaves a suffix, and  *)
(* between a reset's registers and its fill mark nothing is claimed.       *)

GapInv == TypeInv /\ NoSilentGap

(* An empty FIFO has no gap. *)
LEMMA InitGap == Init => NoSilentGap
BY Constants DEF Init, NoSilentGap

(* A suffix of consecutive samples is one. *)
LEMMA GapPop ==
  ASSUME TypeOK, NoSilentGap, NEW k \in 0 .. Len(fifo[Gyro]), ~over,
         thr # [pc |-> "fill", dev |-> Gyro],
         NEW q, q = SubSeq(fifo[Gyro], k + 1, Len(fifo[Gyro]))
  PROVE  \A i \in DOMAIN q : q[i] = made[Gyro] - Len(q) + i
<1> DEFINE f == fifo[Gyro]
<1>1. /\ f \in Seq(1 .. MaxSamples) /\ Len(f) \in Nat /\ made[Gyro] \in Nat
      /\ k \in 0 .. Len(f)
  BY LenProperties, Constants DEF TypeOK
<1>2. \A i \in 1 .. Len(f) : f[i] = made[Gyro] - Len(f) + i
  BY <1>1 DEF NoSilentGap
<1> HIDE DEF f
<1>3. /\ q \in Seq(1 .. MaxSamples) /\ Len(q) = Len(f) - k
      /\ \A i \in 1 .. Len(f) - k : q[i] = f[k + i]
  BY <1>1, CutInTwo DEF f
<1>4. DOMAIN q = 1 .. Len(f) - k
  BY <1>3, LenProperties
<1>5. ASSUME NEW i \in 1 .. Len(f) - k PROVE q[i] = made[Gyro] - Len(q) + i
  <2>1. k + i \in 1 .. Len(f)
    BY <1>1
  <2>2. f[k + i] = made[Gyro] - Len(f) + (k + i)
    BY <1>2, <2>1
  <2>3. q[i] = f[k + i] /\ Len(q) = Len(f) - k
    BY <1>3
  <2>4. made[Gyro] - Len(f) + (k + i) = made[Gyro] - (Len(f) - k) + i
    BY <1>1
  <2> QED BY <2>2, <2>3, <2>4
<1> QED BY <1>4, <1>5

(* Every step leaves the samples consecutive or the overrun bit set. *)
LEMMA NextGap == GapInv /\ [Next]_vars => NoSilentGap'
<1> SUFFICES ASSUME TypeInv, NoSilentGap, [Next]_vars, ~over',
                    thr' # [pc |-> "fill", dev |-> Gyro]
             PROVE  \A i \in DOMAIN fifo'[Gyro] : fifo'[Gyro][i] = made'[Gyro] - Len(fifo'[Gyro]) + i
  BY DEF GapInv, NoSilentGap
<1>1. /\ TypeOK /\ Gyro \in Dev /\ fifo[Gyro] \in Seq(1 .. MaxSamples)
      /\ Len(fifo[Gyro]) \in Nat /\ made[Gyro] \in Nat
  BY LenProperties, Constants, SMTT(30) DEF TypeInv, TypeOK
<1>2. ASSUME UNCHANGED <<fifo[Gyro], made[Gyro], over>>,
             thr # [pc |-> "fill", dev |-> Gyro]
      PROVE  \A i \in DOMAIN fifo'[Gyro] : fifo'[Gyro][i] = made'[Gyro] - Len(fifo'[Gyro]) + i
  BY <1>2 DEF NoSilentGap
<1>3. ASSUME fifo'[Gyro] = <<>>
      PROVE  \A i \in DOMAIN fifo'[Gyro] : fifo'[Gyro][i] = made'[Gyro] - Len(fifo'[Gyro]) + i
  BY <1>3
<1>4. CASE End
  <2> DEFINE d == bus.dev
             f == bus.frame
  <2>1. /\ d \in Dev /\ UNCHANGED thr
        /\ f.op = "drain" => f.early \in Nat /\ f.bytes \in Nat
    BY <1>4 DEF End, TypeInv, BusType
  <2>2. CASE EndDrain(d, f)
    <3> HIDE DEF d, f
    <3>1. UNCHANGED <<over, made>> /\ f.op = "drain"
      BY <2>2 DEF EndDrain
    <3>2. PICK extra \in 0 .. Prefetch :
            LET len == f.early + f.bytes + extra
            IN  IF d = Accel /\ len <= f.early
                THEN UNCHANGED <<fifo, count, mirror>>
                ELSE Refill(d, Pop(d, len - f.early))
      BY <2>2 DEF EndDrain
    <3> DEFINE len == f.early + f.bytes + extra
    <3>3. CASE d # Gyro \/ (d = Accel /\ len <= f.early)
      <4>1. UNCHANGED fifo[Gyro]
        BY <1>1, <2>1, <3>2, <3>3, Constants, SMTT(30) DEF Refill, TypeOK
      <4> QED BY <1>2, <2>1, <3>1, <4>1
    <3>4. CASE d = Gyro
      <4>1. len - f.early \in Nat
        BY <2>1, <3>1, Constants
      <4>2. Refill(Gyro, Pop(Gyro, len - f.early))
        BY <3>2, <3>4, Constants
      <4> HIDE DEF len
      <4>3. PICK k \in 0 .. Len(fifo[Gyro]) :
              Pop(Gyro, len - f.early) = SubSeq(fifo[Gyro], k + 1, Len(fifo[Gyro]))
        BY <1>1, <4>1, PopType
      <4>4. fifo'[Gyro] = SubSeq(fifo[Gyro], k + 1, Len(fifo[Gyro]))
        BY <1>1, <4>2, <4>3 DEF Refill, TypeOK
      <4>5. ~over /\ thr # [pc |-> "fill", dev |-> Gyro] /\ made'[Gyro] = made[Gyro]
        BY <2>1, <3>1
      <4> QED BY <1>1, <4>4, <4>5, GapPop
    <3> QED BY <3>3, <3>4
  <2>3. CASE EndRead(d, f) \/ EndReset(d, f)
    BY <1>2, <2>1, <2>3 DEF EndRead, EndReset, regs, ghost
  <2>4. CASE EndWrite(d, f)
    <3> HIDE DEF d, f
    <3>1. CASE f.reg = "fifo" /\ d = Gyro
      <4>1. fifo'[Gyro] = <<>>
        BY <1>1, <2>4, <3>1 DEF EndWrite, Refill, TypeOK
      <4> QED BY <1>3, <4>1
    <3>2. CASE ~(f.reg = "fifo" /\ d = Gyro)
      <4>1. UNCHANGED <<fifo[Gyro], made, over>>
        BY <1>1, <2>1, <2>4, <3>2 DEF EndWrite, Refill, TypeOK
      <4> QED BY <1>2, <2>1, <4>1
    <3> QED BY <3>1, <3>2
  <2> QED BY <1>4, <2>2, <2>3, <2>4 DEF End
<1>5. CASE ResetFill
  <2>1. thr # Idle /\ thr.dev \in Dev
    BY <1>5 DEF ResetFill, TypeInv, ThrType, Idle
  <2>2. CASE thr.dev = Gyro
    BY <1>1, <1>3, <1>5, <2>2 DEF ResetFill, TypeOK
  <2>3. CASE thr.dev # Gyro
    <3>1. thr # [pc |-> "fill", dev |-> Gyro]
      BY <2>3
    <3>2. UNCHANGED <<fifo[Gyro], made[Gyro], over>>
      BY <1>1, <1>5, <2>1, <2>3 DEF ResetFill, TypeOK, regs
    <3> QED BY <1>2, <3>1, <3>2
  <2> QED BY <2>2, <2>3
<1>6. CASE ResetRegs
  <2>1. thr.pc = "regs" /\ thr' = [pc |-> "fill", dev |-> thr.dev] /\ thr.dev # Gyro
    BY <1>6 DEF ResetRegs
  <2>2. thr # [pc |-> "fill", dev |-> Gyro]
    BY <2>1
  <2> QED BY <1>2, <1>6, <2>1, <2>2 DEF ResetRegs, ghost
<1>7. CASE Apply
  <2> DEFINE d == thr.dev
  <2>1. d \in Dev /\ thr.pc = "apply" /\ thr # [pc |-> "fill", dev |-> Gyro]
    BY <1>7 DEF Apply, TypeInv, ThrType, Idle
  <2>2. CASE ~cfg[d].fifo
    BY <1>2, <1>7, <2>1, <2>2 DEF Apply
  <2>3. CASE cfg[d].fifo
    <3>1. Offer(d)
      BY <1>7, <2>3 DEF Apply
    <3> HIDE DEF d
    <3>2. CASE d # Gyro
      <4>1. UNCHANGED <<fifo[Gyro], made[Gyro], over>>
        BY <1>1, <2>1, <3>1, <3>2, Constants DEF Offer, Refill, TypeOK
      <4> QED BY <1>2, <2>1, <4>1
    <3>3. CASE d = Gyro
      <4>1. made'[Gyro] = made[Gyro] + 1 /\ ~over
        BY <1>1, <3>1, <3>3 DEF Offer, Refill, TypeOK
      <4>2. fifo'[Gyro] = Append(fifo[Gyro], made[Gyro] + 1)
        BY <1>1, <3>1, <3>3 DEF Offer, Refill, TypeOK
      <4>3. \A i \in 1 .. Len(fifo[Gyro]) : fifo[Gyro][i] = made[Gyro] - Len(fifo[Gyro]) + i
        BY <1>1, <2>1, <4>1 DEF NoSilentGap
      <4>4. /\ Len(fifo'[Gyro]) = Len(fifo[Gyro]) + 1
            /\ DOMAIN fifo'[Gyro] = 1 .. Len(fifo[Gyro]) + 1
            /\ fifo'[Gyro][Len(fifo[Gyro]) + 1] = made[Gyro] + 1
            /\ \A i \in 1 .. Len(fifo[Gyro]) : fifo'[Gyro][i] = fifo[Gyro][i]
        BY <1>1, <4>2
      <4>5. ASSUME NEW i \in 1 .. Len(fifo[Gyro]) + 1
            PROVE  fifo'[Gyro][i] = made'[Gyro] - Len(fifo'[Gyro]) + i
        <5>1. CASE i = Len(fifo[Gyro]) + 1
          BY <1>1, <4>1, <4>4, <5>1
        <5>2. CASE i # Len(fifo[Gyro]) + 1
          <6>1. i \in 1 .. Len(fifo[Gyro])
            BY <1>1, <5>2
          <6>2. fifo'[Gyro][i] = made[Gyro] - Len(fifo[Gyro]) + i
            BY <4>3, <4>4, <6>1
          <6>3. made[Gyro] - Len(fifo[Gyro]) + i = made[Gyro] + 1 - (Len(fifo[Gyro]) + 1) + i
            BY <1>1
          <6>4. made'[Gyro] = made[Gyro] + 1 /\ Len(fifo'[Gyro]) = Len(fifo[Gyro]) + 1
            BY <4>1, <4>4
          <6> QED BY <1>1, <6>2, <6>3, <6>4
        <5> QED BY <5>1, <5>2
      <4> QED BY <4>4, <4>5
    <3> QED BY <3>2, <3>3
  <2> QED BY <2>2, <2>3
<1>8. CASE \E d \in Dev : PollReset(d) \/ Release(d) \/ Due(d)
  BY <1>2, <1>8 DEF PollReset, Release, Due, Idle, regs, ghost
<1>9. CASE Sample \/ Commit \/ Refused \/ Drdy
  BY <1>2, <1>9 DEF Sample, Commit, Refused, Drdy, regs, ghost
<1>10. CASE \E d \in Dev : \E f \in Frames(d) : Begin(d, f)
  BY <1>2, <1>10 DEF Begin, ghost
<1>11. CASE UNCHANGED vars
  BY <1>2, <1>11 DEF vars, regs, ghost
<1> QED BY <1>4, <1>5, <1>6, <1>7, <1>8, <1>9, <1>10, <1>11 DEF Next, Thread

(* Without the overrun bit the gyro's FIFO holds the newest samples, none  *)
(* missing, whatever the master does (sensors.c: "at full the FIFO_STATUS  *)
(* overrun bit is raised").                                                *)
THEOREM GapsReported == Spec => []NoSilentGap
<1>1. Init => GapInv
  BY InitType, InitGap DEF GapInv
<1>2. GapInv /\ [Next]_vars => GapInv'
  BY NextType, NextGap DEF GapInv
<1>3. GapInv => NoSilentGap
  BY DEF GapInv
<1> QED BY <1>1, <1>2, <1>3, PTL DEF Spec

-----------------------------------------------------------------------------
(* A pulse ends.  PulseEnds needs to know that a reset, which drops the    *)
(* mapping but leaves the pin, finds the pin unmapped already: from the    *)
(* write of SOFTRESET to the end of the reset.                             *)

(* A reset of the device is on the bus, asked for or under way. *)
ResetBound(d) == Resetting(d) \/ (bus # None /\ bus.dev = d /\ bus.frame.op = "reset")

PulseInv == TypeInv /\ PulseEnds /\ \A d \in Dev : ResetBound(d) => ~cfg[d].map

(* The pins start low. *)
LEMMA InitPulse == Init => PulseInv
<1>1. ASSUME Init PROVE PulseEnds /\ \A d \in Dev : ~ResetBound(d)
  BY <1>1 DEF Init, PulseEnds, ResetBound, Resetting, Idle
<1> QED BY <1>1, InitType DEF PulseInv

(* Every step of a DUT that waits for its resets and keeps its mapping. *)
LEMMA NextPulse ==
  ASSUME {"waits", "mapped"} \subseteq Assume, PulseInv, [Next]_vars
  PROVE  PulseInv'
<1>1. /\ TypeInv /\ TypeInv' /\ PulseEnds /\ \A d \in Dev : ResetBound(d) => ~cfg[d].map
      /\ cfg \in [Dev -> Config] /\ pin \in [Dev -> BOOLEAN] /\ armed \in [Dev -> BOOLEAN]
      /\ req \in [Dev -> BOOLEAN]
  BY NextType DEF PulseInv, TypeInv, TypeOK
<1> SUFFICES ASSUME NEW e \in Dev
             PROVE  /\ pin'[e] => armed'[e] /\ cfg'[e].map
                    /\ ResetBound(e)' => ~cfg'[e].map
  BY <1>1 DEF PulseInv, PulseEnds
<1>2. /\ pin[e] => armed[e] /\ cfg[e].map
      /\ ResetBound(e) => ~cfg[e].map
  BY <1>1 DEF PulseEnds
<1>3. ASSUME NEW d \in Dev, NEW f \in Frames(d), Begin(d, f)
      PROVE  /\ pin'[e] => armed'[e] /\ cfg'[e].map
             /\ ResetBound(e)' => ~cfg'[e].map
  <2>1. /\ UNCHANGED <<pin, armed, req, thr>> /\ bus'.dev = d /\ bus'.frame = f
        /\ cfg' = IF f.op = "write" THEN [cfg EXCEPT ![d][f.reg] = f.val] ELSE cfg
        /\ ~Resetting(d)
        /\ cfg[d].map => f.op # "reset" /\ (f.op = "write" => f.reg # "map")
    BY <1>3 DEF Begin, Kept
  <2>2. CASE e # d \/ f.op # "write"
    BY <1>1, <1>2, <2>1, <2>2 DEF ResetBound, Resetting
  <2>3. CASE e = d /\ f.op = "write"
    <3>1. ~ResetBound(e)' /\ UNCHANGED <<pin, armed>>
      BY <2>1, <2>3 DEF ResetBound, Resetting
    <3>2. cfg[e].map => cfg'[e].map
      <4>1. f.reg \in {"on", "fifo", "en", "map"}
        BY <2>3 DEF Frames
      <4> QED BY <1>1, <2>1, <2>3, <4>1 DEF Config
    <3> QED BY <1>2, <3>1, <3>2
  <2> QED BY <2>2, <2>3
<1>4. CASE End
  <2> DEFINE d == bus.dev
             f == bus.frame
  <2>1. d \in Dev /\ UNCHANGED <<armed, thr>> /\ bus' = None /\ bus # None
    BY <1>1, <1>4 DEF End, TypeInv, BusType
  <2>2. CASE EndDrain(d, f) \/ EndRead(d, f) \/ EndWrite(d, f)
    <3> HIDE DEF d, f
    <3>1. UNCHANGED <<cfg, req>> /\ (pin'[e] => pin[e])
      BY <1>1, <2>1, <2>2 DEF EndDrain, EndRead, EndWrite
    <3> QED BY <1>2, <2>1, <3>1 DEF ResetBound, Resetting
  <2>3. CASE EndReset(d, f)
    <3>1. UNCHANGED <<cfg, pin>> /\ req' = [req EXCEPT ![d] = TRUE] /\ f.op = "reset"
      BY <2>3 DEF EndReset, regs
    <3> QED BY <1>1, <1>2, <2>1, <3>1 DEF ResetBound, Resetting
  <2> QED BY <1>4, <2>2, <2>3 DEF End
<1>5. ASSUME NEW d \in Dev, PollReset(d)
      PROVE  /\ pin'[e] => armed'[e] /\ cfg'[e].map
             /\ ResetBound(e)' => ~cfg'[e].map
  BY <1>1, <1>2, <1>5 DEF PollReset, ResetBound, Resetting, regs, Idle
<1>6. ASSUME NEW d \in Dev, Release(d)
      PROVE  /\ pin'[e] => armed'[e] /\ cfg'[e].map
             /\ ResetBound(e)' => ~cfg'[e].map
  BY <1>1, <1>2, <1>6 DEF Release, ResetBound, Resetting
<1>7. ASSUME NEW d \in Dev, Due(d)
      PROVE  /\ pin'[e] => armed'[e] /\ cfg'[e].map
             /\ ResetBound(e)' => ~cfg'[e].map
  BY <1>2, <1>7 DEF Due, ResetBound, Resetting, regs
<1>8. CASE ResetRegs
  <2> DEFINE d == thr.dev
  <2>1. d \in Dev /\ Resetting(d)
    BY <1>1, <1>8 DEF ResetRegs, TypeInv, ThrType, Idle, Resetting
  <2>2. /\ UNCHANGED <<pin, armed, req, bus>> /\ thr' = [pc |-> "fill", dev |-> d]
        /\ cfg' = [cfg EXCEPT ![d] = Default(d)]
    BY <1>8 DEF ResetRegs
  <2> HIDE DEF d
  <2>3. CASE e = d
    BY <1>1, <1>2, <2>1, <2>2, <2>3 DEF Default, ResetBound
  <2>4. CASE e # d
    BY <1>1, <1>2, <2>2, <2>4 DEF ResetBound, Resetting
  <2> QED BY <2>3, <2>4
<1>9. CASE ResetFill \/ Sample \/ Commit \/ Refused
  <2>1. UNCHANGED <<cfg, pin, armed, req, bus>>
    BY <1>9 DEF ResetFill, Sample, Commit, Refused, regs
  <2>2. thr' = Idle \/ thr'.pc \in {"commit", "apply"}
    BY <1>1, <1>9 DEF ResetFill, Sample, Commit, Refused, TypeInv, ThrType, Idle
  <2> QED BY <1>2, <2>1, <2>2 DEF ResetBound, Resetting, Idle
<1>10. CASE Apply
  BY <1>2, <1>10 DEF Apply, ResetBound, Resetting
<1>11. CASE Drdy
  <2> DEFINE d == thr.dev
  <2>1. d \in Dev
    BY <1>1, <1>11 DEF Drdy, TypeInv, ThrType, Idle
  <2>2. /\ UNCHANGED <<cfg, req, bus>> /\ thr' = Idle
        /\ armed' = [armed EXCEPT ![d] = armed[d] \/ (cfg[d].en /\ (cfg[d].map \/ d = Gyro))]
        /\ pin' = [pin EXCEPT ![d] = pin[d] \/ (cfg[d].en /\ cfg[d].map)]
    BY <1>11 DEF Drdy
  <2> HIDE DEF d
  <2>3. ResetBound(e)' => ~cfg'[e].map
    BY <1>2, <2>2 DEF ResetBound, Resetting, Idle
  <2>4. pin'[e] => armed'[e] /\ cfg'[e].map
    BY <1>1, <1>2, <2>2
  <2> QED BY <2>3, <2>4
<1>12. CASE UNCHANGED vars
  BY <1>2, <1>12 DEF vars, ResetBound, Resetting, regs
<1> QED BY <1>3, <1>4, <1>5, <1>6, <1>7, <1>8, <1>9, <1>10, <1>11, <1>12 DEF Next, Thread

(* A pin that is asserted is armed and mapped, so the release finds it, if *)
(* the DUT waits for its resets and keeps the pin mapped (sensors.c: "the  *)
(* pin must re-pulse on every commit").                                    *)
THEOREM PulsesEnd ==
  ASSUME {"waits", "mapped"} \subseteq Assume
  PROVE  Spec => []PulseEnds
<1>1. PulseInv => PulseEnds
  BY DEF PulseInv
<1> QED BY <1>1, InitPulse, NextPulse, PTL DEF Spec

-----------------------------------------------------------------------------
(* Every frame is accounted for.  A drain's bytes and what it took were    *)
(* settled at its select, the pop follows at its end: in between the FIFO  *)
(* does not change, no reset touches it, and what is announced, by the     *)
(* register or the mirror, is there.                                       *)

(* The reset has cleared the registers and not yet the fill mark. *)
Filling(d) == thr = [pc |-> "fill", dev |-> d]

(* No frame of the DUT meets its reset. *)
Waits == \A d \in Dev : Resetting(d) => bus = None \/ bus.dev # d

(* The registers announce what is there. *)
Announced == \A d \in Dev : count[d] = IF Filling(d) THEN 0 ELSE Len(fifo[d])

(* The mirror announces no less. *)
Mirrored == count[Accel] <= mirror

(* A drain on the bus takes whole frames from the head. *)
Drained ==
  bus # None /\ bus.frame.op = "drain" =>
    \E k \in 0 .. Len(fifo[bus.dev]) :
      /\ bus.frame.bytes = k * FrameSize[bus.dev]
      /\ bus.took = SubSeq(fifo[bus.dev], 1, k)

(* Bus, registers and FIFOs are in step. *)
InStep == Waits /\ Announced /\ Mirrored /\ Drained

(* Taken, in the FIFO or lost: each frame once. *)
Booked == \A d \in Dev : Books(got[d] \o fifo[d], lost[d], made[d])

FrameInv == TypeInv /\ InStep /\ Booked

(* All of it holds at the start. *)
LEMMA InitFrame == Init => FrameInv
<1> SUFFICES ASSUME Init PROVE InStep /\ Booked
  BY InitType DEF FrameInv
<1>1. InStep
  BY Constants DEF Init, InStep, Waits, Announced, Mirrored, Drained, Resetting, Filling, Idle
<1>2. ASSUME NEW d \in Dev PROVE Books(got[d] \o fifo[d], lost[d], made[d])
  <2>1. got[d] \o fifo[d] = <<>> /\ Len(<<>>) = 0 /\ lost[d] = {} /\ made[d] = 0
    BY DEF Init
  <2> QED BY <2>1 DEF Books
<1> QED BY <1>1, <1>2 DEF Booked

(* What the DUT takes when it keeps its promises. *)
LEMMA TakenWhole ==
  ASSUME TypeInv, InStep, NEW d \in Dev, NEW f, f.op = "drain", f.early \in {0, Prefix[d]},
         ~Resetting(d), NEW k \in 0 .. count[d], f.bytes = k * FrameSize[d]
  PROVE  k \in 0 .. Len(fifo[d]) /\ Taken(d, f) = SubSeq(fifo[d], 1, k)
<1>1. /\ fifo[d] \in Seq(1 .. MaxSamples) /\ Len(fifo[d]) \in Nat /\ count[d] \in Nat
      /\ FrameSize[d] \in Nat \ {0} /\ mirror \in Nat
  BY LenProperties, Constants DEF TypeInv, TypeOK
<1>2. count[d] = Len(fifo[d])
  BY DEF InStep, Announced, Filling, Resetting
<1>3. f.bytes \div FrameSize[d] = k
  <2>1. (k * FrameSize[d] + 0) \div FrameSize[d] = k
    BY <1>1, <1>2, WholeFrames
  <2>2. k * FrameSize[d] + 0 = k * FrameSize[d]
    BY <1>1, <1>2
  <2> QED BY <2>1, <2>2
<1>4. f.early = 0 \/ (d = Accel /\ k <= mirror)
  BY <1>1, Constants DEF InStep, Mirrored
<1> DEFINE told == IF f.early = 0 THEN count[d] ELSE mirror
<1>5. Least(f.bytes \div FrameSize[d], told) = k
  BY <1>1, <1>3, <1>4 DEF Least
<1>6. Taken(d, f) = [i \in 1 .. k |-> IF i <= Len(fifo[d]) THEN fifo[d][i] ELSE 0]
  BY <1>5 DEF Taken
<1>7. SubSeq(fifo[d], 1, k) = [i \in 1 .. k |-> fifo[d][i]]
  BY <1>1, <1>2
<1>8. \A i \in 1 .. k : i <= Len(fifo[d])
  BY <1>1, <1>2
<1> QED BY <1>1, <1>2, <1>6, <1>7, <1>8

(* A frame of a DUT that keeps its promises begins. *)
LEMMA BeginFrame ==
  ASSUME {"waits", "whole"} \subseteq Assume, FrameInv, NEW d \in Dev, NEW f \in Frames(d), Begin(d, f)
  PROVE  InStep' /\ Booked'
<1>1. /\ TypeInv /\ InStep /\ Booked /\ bus = None /\ ~Resetting(d)
      /\ f.op = "drain" => \E k \in 0 .. count[d] : f.bytes = k * FrameSize[d]
      /\ UNCHANGED <<fifo, count, mirror, thr, req, made, got, lost>>
      /\ bus' = [dev |-> d, frame |-> f, took |-> IF f.op = "drain" THEN Taken(d, f) ELSE <<>>]
  BY DEF FrameInv, Begin, Kept, ghost
<1>2. Booked'
  BY <1>1 DEF Booked
<1>3. Waits'
  BY <1>1 DEF Waits, Resetting
<1>4. Announced' /\ Mirrored'
  BY <1>1 DEF InStep, Announced, Mirrored, Filling
<1>5. Drained'
  <2> SUFFICES ASSUME f.op = "drain"
               PROVE  \E k \in 0 .. Len(fifo[d]) :
                        f.bytes = k * FrameSize[d] /\ Taken(d, f) = SubSeq(fifo[d], 1, k)
    BY <1>1 DEF Drained
  <2>1. PICK k \in 0 .. count[d] : f.bytes = k * FrameSize[d]
    BY <1>1
  <2>2. f.early \in {0, Prefix[d]}
    BY DEF Frames
  <2> QED BY <1>1, <2>1, <2>2, TakenWhole
<1> QED BY <1>2, <1>3, <1>4, <1>5 DEF InStep

(* A drain ends: what was taken is popped, and nothing else. *)
LEMMA EndDrainBooks ==
  ASSUME FrameInv, bus # None, NEW d \in Dev, NEW f, d = bus.dev, f = bus.frame, EndDrain(d, f)
  PROVE  /\ Booked'
         /\ fifo' = [fifo EXCEPT ![d] = fifo'[d]] /\ count' = [count EXCEPT ![d] = Len(fifo'[d])]
         /\ d = Accel => mirror' >= count'[Accel]
         /\ d # Accel => mirror' = mirror
<1>1. /\ TypeInv /\ TypeOK /\ InStep /\ f.op = "drain" /\ f.early \in Nat
      /\ fifo[d] \in Seq(1 .. MaxSamples) /\ Len(fifo[d]) \in Nat /\ got[d] \in Seq(Nat)
      /\ FrameSize[d] \in Nat \ {0} /\ count[d] \in Nat /\ mirror \in Nat
      /\ ~Filling(d)
  <2>1. /\ TypeInv /\ TypeOK /\ InStep /\ f.op = "drain" /\ f.early \in Nat
        /\ fifo[d] \in Seq(1 .. MaxSamples) /\ got[d] \in Seq(Nat)
        /\ count[d] \in Nat /\ mirror \in Nat
    BY DEF FrameInv, TypeInv, TypeOK, BusType, EndDrain
  <2>2. ~Filling(d)
    BY <2>1, SMTT(30) DEF InStep, Waits, Resetting, Filling
  <2> QED BY <2>1, <2>2, LenProperties, Constants
<1>2. PICK k \in 0 .. Len(fifo[d]) : f.bytes = k * FrameSize[d] /\ bus.took = SubSeq(fifo[d], 1, k)
  BY <1>1 DEF InStep, Drained
<1> DEFINE rest == SubSeq(fifo[d], k + 1, Len(fifo[d]))
<1>3. /\ bus.took \in Seq(Nat) /\ rest \in Seq(Nat) /\ rest \in Seq(1 .. MaxSamples)
      /\ bus.took \o rest = fifo[d] /\ (k = 0 => rest = fifo[d])
  <2>1. fifo[d] \in Seq(Nat)
    BY <1>1, Constants, SeqWiden
  <2>2. /\ SubSeq(fifo[d], 1, k) \in Seq(Nat) /\ rest \in Seq(Nat)
        /\ SubSeq(fifo[d], 1, k) \o rest = fifo[d]
    BY <1>1, <2>1, CutInTwo
  <2>3. rest \in Seq(1 .. MaxSamples)
    BY <1>1, CutInTwo
  <2>4. k = 0 => rest = fifo[d]
    <3>1. k = 0 => rest = SubSeq(fifo[d], 1, Len(fifo[d]))
      OBVIOUS
    <3> QED BY <1>1, <3>1, SubSeqFull
  <2> QED BY <1>2, <2>2, <2>3, <2>4
<1>4. PICK extra \in 0 .. Prefetch :
        LET len == f.early + f.bytes + extra
        IN  IF d = Accel /\ len <= f.early
            THEN UNCHANGED <<fifo, count, mirror>>
            ELSE Refill(d, Pop(d, len - f.early))
  BY DEF EndDrain
<1>5. /\ fifo' = [fifo EXCEPT ![d] = rest] /\ count' = [count EXCEPT ![d] = Len(rest)]
      /\ d = Accel => mirror' >= count'[Accel]
      /\ d # Accel => mirror' = mirror
  <2> DEFINE len == f.early + f.bytes + extra
  <2>0. k * FrameSize[d] \in Nat /\ (k # 0 => k * FrameSize[d] > 0) /\ extra \in Nat /\ k \in Nat
    BY <1>1, Constants
  <2>1. CASE d = Accel /\ len <= f.early
    <3>1. k = 0 /\ UNCHANGED <<fifo, count, mirror>>
      BY <1>1, <1>2, <1>4, <2>0, <2>1
    <3>2. rest = fifo[d] /\ count[d] = Len(fifo[d])
      BY <1>1, <1>3, <3>1 DEF InStep, Announced
    <3> QED BY <1>1, <2>1, <3>1, <3>2 DEF TypeOK, InStep, Mirrored
  <2>2. CASE ~(d = Accel /\ len <= f.early)
    <3>1. Refill(d, Pop(d, len - f.early))
      BY <1>4, <2>2
    <3>2. len - f.early = f.bytes + extra
      <4>1. f.bytes \in Nat
        BY <1>2, <2>0
      <4> QED BY <1>1, <2>0, <4>1
    <3> HIDE DEF len, rest
    <3>3. (len - f.early) \div FrameSize[d] = k
      <4>1. (k * FrameSize[d] + extra) \div FrameSize[d] = k
        <5>1. extra < FrameSize[d] /\ FrameSize[d] \in Nat
          BY <1>1, <2>0, Constants
        <5> QED BY <2>0, <5>1, WholeFrames
      <4> QED BY <1>2, <3>2, <4>1
    <3>4. Pop(d, len - f.early) = rest
      <4>1. Least(k, Len(fifo[d])) = k
        BY <1>1 DEF Least
      <4> QED BY <3>3, <4>1 DEF Pop, rest
    <3>5. Refill(d, rest) /\ Len(rest) \in Nat
      BY <1>3, <3>1, <3>4, LenProperties
    <3> QED BY <1>1, <3>5 DEF Refill, TypeOK
  <2> QED BY <2>1, <2>2
<1>6. Booked'
  <2>1. UNCHANGED <<made, lost>> /\ got' = [got EXCEPT ![d] = got[d] \o bus.took]
    BY DEF EndDrain
  <2>2. (got[d] \o bus.took) \o rest = got[d] \o fifo[d]
    <3> HIDE DEF rest
    <3>1. (got[d] \o bus.took) \o rest = got[d] \o (bus.took \o rest)
      BY <1>1, <1>3, NatAssociative
    <3> QED BY <1>3, <3>1
  <2>3. ASSUME NEW e \in Dev PROVE got'[e] \o fifo'[e] = got[e] \o fifo[e]
    <3> HIDE DEF rest
    <3>1. CASE e = d
      BY <1>1, <1>5, <2>1, <2>2, <3>1 DEF TypeOK
    <3>2. CASE e # d
      BY <1>1, <1>5, <2>1, <3>2 DEF TypeOK
    <3> QED BY <3>1, <3>2
  <2> QED BY <2>1, <2>3 DEF FrameInv, Booked
<1>7. fifo'[d] = rest
  BY <1>1, <1>5 DEF TypeOK
<1> QED BY <1>5, <1>6, <1>7

(* A FIFO is cleared, its frames are lost. *)
LEMMA ClearBooks ==
  ASSUME FrameInv, NEW d \in Dev, fifo' = [fifo EXCEPT ![d] = <<>>],
         lost' = [lost EXCEPT ![d] = @ \union {fifo[d][i] : i \in DOMAIN fifo[d]}],
         UNCHANGED <<made, got>>
  PROVE  Booked'
<1>1. TypeOK /\ Booked
  BY DEF FrameInv, TypeInv
<1> SUFFICES ASSUME NEW e \in Dev PROVE Books(got[e] \o fifo'[e], lost'[e], made[e])
  BY DEF Booked
<1>2. CASE e = d
  <2>1. /\ got[d] \in Seq(Nat) /\ fifo[d] \in Seq(Nat) /\ made[d] \in Nat
        /\ Books(got[d] \o fifo[d], lost[d], made[d])
    <3>1. fifo[d] \in Seq(1 .. MaxSamples) /\ got[d] \in Seq(Nat) /\ made[d] \in 0 .. MaxSamples
      BY <1>1 DEF TypeOK
    <3> QED BY <1>1, <3>1, Constants, SeqWiden DEF Booked
  <2>2. fifo'[d] = <<>> /\ lost'[d] = lost[d] \union {fifo[d][i] : i \in DOMAIN fifo[d]}
    BY <1>1 DEF TypeOK
  <2>3. Books(got[d] \o <<>>, lost[d] \union {fifo[d][i] : i \in DOMAIN fifo[d]}, made[d])
    BY <2>1, BooksClear
  <2> QED BY <1>2, <2>2, <2>3
<1>3. CASE e # d
  <2>1. fifo'[e] = fifo[e] /\ lost'[e] = lost[e]
    BY <1>1, <1>3 DEF TypeOK
  <2> QED BY <1>1, <2>1 DEF Booked
<1> QED BY <1>2, <1>3

(* A frame is offered: it is kept, or lost. *)
LEMMA OfferBooks ==
  ASSUME FrameInv, NEW d \in Dev, Offer(d), UNCHANGED got
  PROVE  Booked'
<1>1. /\ TypeOK /\ got[d] \in Seq(Nat) /\ fifo[d] \in Seq(Nat) /\ made[d] \in Nat
      /\ Books(got[d] \o fifo[d], lost[d], made[d]) /\ Booked
  <2>1. /\ fifo[d] \in Seq(1 .. MaxSamples) /\ got[d] \in Seq(Nat)
        /\ made[d] \in 0 .. MaxSamples /\ TypeOK /\ Booked
    BY DEF FrameInv, TypeInv, TypeOK
  <2> QED BY <2>1, Constants, SeqWiden DEF Booked
<1>2. made' = [made EXCEPT ![d] = made[d] + 1]
  BY DEF Offer
<1> DEFINE a == got[d] \o fifo[d]
<1>3. a \in Seq(Nat)
  BY <1>1, ConcatProperties
<1>4. CASE Len(fifo[d]) < Capacity[d]
  <2>1. /\ fifo' = [fifo EXCEPT ![d] = Append(fifo[d], made[d] + 1)] /\ UNCHANGED lost
    BY <1>4 DEF Offer, Refill
  <2>2. got[d] \o Append(fifo[d], made[d] + 1) = Append(a, made[d] + 1)
    <3> DEFINE x == made[d] + 1
    <3>1. x \in Nat /\ <<x>> \in Seq(Nat)
      BY <1>1
    <3> HIDE DEF x
    <3>2. Append(fifo[d], x) = fifo[d] \o <<x>>
      BY <1>1, <3>1, AppendIsConcat
    <3>3. Append(a, x) = a \o <<x>>
      BY <1>3, <3>1, AppendIsConcat
    <3>4. got[d] \o (fifo[d] \o <<x>>) = (got[d] \o fifo[d]) \o <<x>>
      BY <1>1, <3>1, NatAssociative
    <3> QED BY <3>2, <3>3, <3>4 DEF x
  <2> HIDE DEF a
  <2>3. Books(Append(a, made[d] + 1), lost[d], made[d] + 1)
    BY <1>1, <1>3, BooksAppend DEF a
  <2>4. ASSUME NEW e \in Dev PROVE Books(got'[e] \o fifo'[e], lost'[e], made'[e])
    <3>1. CASE e = d
      BY <1>1, <1>2, <2>1, <2>2, <2>3, <3>1 DEF TypeOK
    <3>2. CASE e # d
      BY <1>1, <1>2, <2>1, <3>2 DEF TypeOK, Booked
    <3> QED BY <3>1, <3>2
  <2> QED BY <2>4 DEF Booked
<1>5. CASE ~(Len(fifo[d]) < Capacity[d])
  <2>1. UNCHANGED fifo /\ lost' = [lost EXCEPT ![d] = lost[d] \union {made[d] + 1}]
    BY <1>5 DEF Offer
  <2> HIDE DEF a
  <2>2. Books(a, lost[d] \union {made[d] + 1}, made[d] + 1)
    BY <1>1, <1>3, BooksDrop DEF a
  <2>3. ASSUME NEW e \in Dev PROVE Books(got'[e] \o fifo'[e], lost'[e], made'[e])
    <3>1. CASE e = d
      BY <1>1, <1>2, <2>1, <2>2, <3>1 DEF TypeOK, a
    <3>2. CASE e # d
      BY <1>1, <1>2, <2>1, <3>2 DEF TypeOK, Booked
    <3> QED BY <3>1, <3>2
  <2> QED BY <2>3 DEF Booked
<1> QED BY <1>4, <1>5

(* Any frame ends. *)
LEMMA EndFrame ==
  ASSUME FrameInv, End
  PROVE  InStep' /\ Booked'
<1> DEFINE d == bus.dev
           f == bus.frame
<1>1. /\ TypeInv /\ TypeOK /\ InStep /\ Booked /\ d \in Dev /\ bus # None /\ bus' = None
      /\ UNCHANGED thr /\ count \in [Dev -> Nat] /\ mirror \in Nat
      /\ \A e \in Dev : Len(fifo[e]) \in Nat
  <2>1. /\ TypeInv /\ TypeOK /\ InStep /\ Booked /\ d \in Dev /\ bus # None /\ bus' = None
        /\ UNCHANGED thr /\ count \in [Dev -> Nat] /\ mirror \in Nat
    BY DEF End, FrameInv, TypeInv, TypeOK, BusType
  <2> QED BY <2>1, LenProperties DEF TypeOK
<1>2. Waits' /\ Drained'
  BY <1>1 DEF Waits, Drained
<1>3. ~Filling(d)
  BY <1>1 DEF InStep, Waits, Resetting, Filling
<1>4. CASE EndDrain(d, f)
  <2> HIDE DEF d, f
  <2>1. /\ Booked'
        /\ fifo' = [fifo EXCEPT ![d] = fifo'[d]] /\ count' = [count EXCEPT ![d] = Len(fifo'[d])]
        /\ d = Accel => mirror' >= count'[Accel]
        /\ d # Accel => mirror' = mirror
    BY <1>1, <1>4, EndDrainBooks DEF d, f
  <2>2. Announced'
    BY <1>1, <1>3, <2>1 DEF InStep, Announced, Filling, TypeOK
  <2>3. Mirrored'
    <3>1. CASE d = Accel
      <4>1. count'[Accel] = Len(fifo'[Accel]) /\ Len(fifo'[Accel]) \in Nat /\ mirror' \in Nat
        <5>1. TypeOK'
          BY <1>1, EndType DEF TypeInv
        <5> QED BY <1>1, <2>1, <3>1, <5>1, Constants, LenProperties DEF TypeOK
      <4> QED BY <2>1, <3>1, <4>1 DEF Mirrored
    <3>2. CASE d # Accel
      BY <1>1, <2>1, <3>2, Constants DEF InStep, Mirrored
    <3> QED BY <3>1, <3>2
  <2> QED BY <1>2, <2>1, <2>2, <2>3 DEF InStep
<1>5. CASE EndRead(d, f) \/ EndReset(d, f) \/ (EndWrite(d, f) /\ f.reg # "fifo")
  <2>1. UNCHANGED <<fifo, count, mirror, made, got, lost>>
    BY <1>5 DEF EndRead, EndReset, EndWrite, regs, ghost
  <2> QED BY <1>1, <1>2, <2>1 DEF InStep, Announced, Mirrored, Filling, Booked
<1>6. CASE EndWrite(d, f) /\ f.reg = "fifo"
  <2> HIDE DEF d, f
  <2>1. /\ Refill(d, <<>>) /\ UNCHANGED <<made, got>>
        /\ lost' = [lost EXCEPT ![d] = @ \union {fifo[d][i] : i \in DOMAIN fifo[d]}]
    BY <1>6 DEF EndWrite
  <2>2. /\ fifo' = [fifo EXCEPT ![d] = <<>>] /\ count' = [count EXCEPT ![d] = 0]
        /\ mirror' = IF d = Accel THEN 0 ELSE mirror
    BY <2>1 DEF Refill
  <2>3. Booked'
    BY <1>1, <2>1, <2>2, ClearBooks
  <2>4. Announced'
    BY <1>1, <1>3, <2>2 DEF InStep, Announced, Filling, TypeOK
  <2>5. Mirrored'
    BY <1>1, <2>2, Constants DEF InStep, Mirrored
  <2> QED BY <1>2, <2>3, <2>4, <2>5 DEF InStep
<1> QED BY <1>4, <1>5, <1>6 DEF End

(* A step that moves neither frames nor registers. *)
LEMMA QuietFrame ==
  ASSUME FrameInv, UNCHANGED <<fifo, count, mirror, bus, made, got, lost>>,
         \A d \in Dev : Resetting(d)' => Resetting(d),
         \A d \in Dev : Filling(d)' <=> Filling(d)
  PROVE  InStep' /\ Booked'
<1>1. InStep /\ Booked
  BY DEF FrameInv
<1>2. Booked'
  BY <1>1 DEF Booked
<1>3. Waits' /\ Announced' /\ Mirrored' /\ Drained'
  BY <1>1 DEF InStep, Waits, Announced, Mirrored, Drained
<1> QED BY <1>2, <1>3 DEF InStep

(* The thread goes on. *)
LEMMA ThreadFrame ==
  ASSUME FrameInv, Thread
  PROVE  InStep' /\ Booked'
<1>1. /\ TypeInv /\ TypeOK /\ ThrType /\ InStep /\ Booked /\ count \in [Dev -> Nat] /\ mirror \in Nat
      /\ req \in [Dev -> BOOLEAN]
  BY DEF FrameInv, TypeInv, TypeOK
<1>2. ASSUME NEW d \in Dev, PollReset(d) PROVE InStep' /\ Booked'
  <2>1. UNCHANGED <<fifo, count, mirror, bus, made, got, lost>>
    BY <1>2 DEF PollReset, regs, ghost
  <2>2. \A e \in Dev : (Resetting(e)' => Resetting(e)) /\ (Filling(e)' <=> Filling(e))
    BY <1>1, <1>2 DEF PollReset, Resetting, Filling, Idle
  <2> QED BY <2>1, <2>2, QuietFrame
<1>3. CASE (\E d \in Dev : Release(d) \/ Due(d)) \/ Sample \/ Commit \/ Refused \/ Drdy
  <2>1. UNCHANGED <<fifo, count, mirror, bus, made, got, lost, req>>
    BY <1>3 DEF Release, Due, Sample, Commit, Refused, Drdy, regs, ghost
  <2>2. /\ thr = Idle \/ thr.pc \in {"sample", "commit", "apply", "drdy"}
        /\ thr' = Idle \/ thr'.pc \in {"sample", "commit", "apply", "drdy"}
    BY <1>1, <1>3 DEF Release, Due, Sample, Commit, Refused, Drdy, ThrType, Idle
  <2>3. \A e \in Dev : (Resetting(e)' => Resetting(e)) /\ (Filling(e)' <=> Filling(e))
    BY <2>1, <2>2 DEF Resetting, Filling, Idle
  <2> QED BY <2>1, <2>3, QuietFrame
<1> SUFFICES ASSUME ResetRegs \/ ResetFill \/ Apply PROVE InStep' /\ Booked'
  BY <1>2, <1>3 DEF Thread
<1> DEFINE d == thr.dev
<1>4. d \in Dev /\ UNCHANGED <<bus, req>>
  <2>1. UNCHANGED <<bus, req>>
    BY DEF ResetRegs, ResetFill, Apply
  <2>2. thr # Idle
    <3>1. thr.pc # "idle"
      BY DEF ResetRegs, ResetFill, Apply
    <3> QED BY <3>1 DEF Idle
  <2> QED BY <1>1, <2>1, <2>2 DEF ThrType
<1>5. CASE ResetRegs
  <2>1. /\ thr.pc = "regs" /\ thr' = [pc |-> "fill", dev |-> d]
        /\ count' = [count EXCEPT ![d] = 0] /\ UNCHANGED <<fifo, mirror, made, got, lost>>
    BY <1>5 DEF ResetRegs, ghost
  <2>2. Booked'
    BY <1>1, <2>1 DEF Booked
  <2>3. Waits'
    BY <1>1, <1>4, <2>1 DEF InStep, Waits, Resetting
  <2>4. Announced'
    BY <1>1, <1>4, <2>1 DEF InStep, Announced, Filling
  <2>5. Mirrored'
    BY <1>1, <1>4, <2>1, Constants DEF InStep, Mirrored
  <2>6. Drained'
    BY <1>1, <1>4, <2>1 DEF InStep, Drained
  <2> QED BY <2>2, <2>3, <2>4, <2>5, <2>6 DEF InStep
<1>6. CASE ResetFill
  <2>1. /\ thr.pc = "fill" /\ thr' = Idle /\ fifo' = [fifo EXCEPT ![d] = <<>>]
        /\ lost' = [lost EXCEPT ![d] = @ \union {fifo[d][i] : i \in DOMAIN fifo[d]}]
        /\ UNCHANGED <<count, mirror, made, got>>
    BY <1>6 DEF ResetFill, regs
  <2>2. thr = [pc |-> "fill", dev |-> d] /\ Filling(d) /\ Resetting(d)
    BY <1>1, <2>1 DEF ThrType, Idle, Filling, Resetting
  <2> HIDE DEF d
  <2>3. Booked'
    BY <1>4, <2>1, ClearBooks
  <2>4. Waits'
    BY <1>1, <1>4, <2>1 DEF InStep, Waits, Resetting, Idle
  <2>5. Announced'
    <3>1. ASSUME NEW e \in Dev PROVE count[e] = Len(fifo'[e]) /\ ~Filling(e)'
      <4>1. CASE e = d
        BY <1>1, <1>4, <2>1, <2>2, <4>1 DEF InStep, Announced, Filling, TypeOK, Idle
      <4>2. CASE e # d
        BY <1>1, <1>4, <2>1, <2>2, <4>2 DEF InStep, Announced, Filling, TypeOK, Idle
      <4> QED BY <4>1, <4>2
    <3> QED BY <2>1, <3>1 DEF Announced
  <2>6. Mirrored'
    BY <1>1, <2>1 DEF InStep, Mirrored
  <2>7. Drained'
    BY <1>1, <1>4, <2>1, <2>2 DEF InStep, Drained, Waits, TypeOK
  <2> QED BY <2>3, <2>4, <2>5, <2>6, <2>7 DEF InStep
<1>7. CASE Apply
  <2>1. /\ thr.pc = "apply" /\ bus.dev # d /\ thr' = [pc |-> "drdy", dev |-> d] /\ UNCHANGED got
    BY <1>7 DEF Apply
  <2>2. \A e \in Dev : /\ Resetting(e)' => Resetting(e)
                       /\ ~Filling(e) /\ ~Filling(e)'
    BY <1>4, <2>1 DEF Resetting, Filling
  <2>3. CASE ~cfg[d].fifo
    <3>1. UNCHANGED <<fifo, count, mirror, made, lost>>
      BY <1>7, <2>3 DEF Apply
    <3> QED BY <1>4, <2>1, <2>2, <3>1, QuietFrame
  <2>4. CASE cfg[d].fifo
    <3>1. Offer(d)
      BY <1>7, <2>4 DEF Apply
    <3> HIDE DEF d
    <3>2. Booked'
      BY <1>4, <2>1, <3>1, OfferBooks
    <3>3. \/ UNCHANGED <<fifo, count, mirror>>
          \/ Refill(d, Append(fifo[d], made[d] + 1))
      BY <3>1 DEF Offer
    <3>4. CASE UNCHANGED <<fifo, count, mirror>>
      <4>1. Waits' /\ Announced' /\ Mirrored' /\ Drained'
        BY <1>1, <1>4, <2>2, <3>4 DEF InStep, Waits, Announced, Mirrored, Drained
      <4> QED BY <3>2, <4>1 DEF InStep
    <3>5. CASE Refill(d, Append(fifo[d], made[d] + 1))
      <4> DEFINE q == Append(fifo[d], made[d] + 1)
      <4>1. Len(q) \in Nat
        <5>1. fifo[d] \in Seq(Nat) /\ made[d] + 1 \in Nat
          BY <1>1, <1>4, Constants, SeqWiden DEF TypeOK
        <5> QED BY <5>1, AppendProperties, LenProperties
      <4> HIDE DEF q
      <4>2. /\ fifo' = [fifo EXCEPT ![d] = q] /\ count' = [count EXCEPT ![d] = Len(q)]
            /\ mirror' = IF d = Accel THEN Len(q) ELSE mirror
        BY <3>5 DEF Refill, q
      <4>3. Waits'
        BY <1>1, <1>4, <2>2 DEF InStep, Waits
      <4>4. Announced'
        BY <1>1, <1>4, <2>2, <4>2 DEF InStep, Announced, TypeOK
      <4>5. Mirrored'
        BY <1>1, <1>4, <4>1, <4>2, Constants DEF InStep, Mirrored
      <4>6. Drained'
        BY <1>1, <1>4, <2>1, <4>2 DEF InStep, Drained, TypeOK
      <4> QED BY <3>2, <4>3, <4>4, <4>5, <4>6 DEF InStep
    <3> QED BY <3>3, <3>4, <3>5
  <2> QED BY <2>3, <2>4
<1> QED BY <1>5, <1>6, <1>7

(* Every step of a DUT that waits for its resets and drains whole frames. *)
LEMMA NextFrame ==
  ASSUME {"waits", "whole"} \subseteq Assume, FrameInv, [Next]_vars
  PROVE  FrameInv'
<1>1. TypeInv'
  BY NextType DEF FrameInv
<1>2. CASE UNCHANGED vars
  <2>1. InStep' /\ Booked'
    BY <1>2, QuietFrame DEF vars, regs, ghost, Resetting, Filling
  <2> QED BY <1>1, <2>1 DEF FrameInv
<1> QED BY <1>1, <1>2, BeginFrame, EndFrame, ThreadFrame DEF Next, FrameInv

(* The invariant says what the property says. *)
LEMMA FrameMeans == FrameInv => FramesAccounted
<1> SUFFICES ASSUME FrameInv, NEW d \in Dev
             PROVE  LET all == got[d] \o fifo[d]
                    IN  /\ \A i, j \in DOMAIN all : i < j => all[i] < all[j]
                        /\ {all[i] : i \in DOMAIN all} \intersect lost[d] = {}
                        /\ {all[i] : i \in DOMAIN all} \union lost[d] = 1 .. made[d]
                        /\ thr # [pc |-> "fill", dev |-> d] => count[d] = Len(fifo[d])
  BY DEF FramesAccounted
<1> DEFINE all == got[d] \o fifo[d]
<1>1. fifo[d] \in Seq(1 .. MaxSamples) /\ got[d] \in Seq(Nat) /\ made[d] \in Nat
  BY Constants DEF FrameInv, TypeInv, TypeOK
<1>2. all \in Seq(Nat)
  BY <1>1, SeqWiden, ConcatProperties, Constants
<1>3. Books(all, lost[d], made[d])
  BY DEF FrameInv, Booked
<1>4. thr # [pc |-> "fill", dev |-> d] => count[d] = Len(fifo[d])
  BY DEF FrameInv, InStep, Announced, Filling
<1> HIDE DEF all
<1>5. /\ \A i, j \in DOMAIN all : i < j => all[i] < all[j]
      /\ {all[i] : i \in DOMAIN all} \intersect lost[d] = {}
      /\ {all[i] : i \in DOMAIN all} \union lost[d] = 1 .. made[d]
  BY <1>1, <1>2, <1>3, BooksMean
<1> QED BY <1>4, <1>5 DEF all

(* Each frame offered is taken once and in order, still there, or lost to  *)
(* a full FIFO, a clear or a reset, if the DUT waits for its resets and    *)
(* drains whole frames (sensors.c: "exact whenever the master reads        *)
(* whole-frame multiples").                                                *)
THEOREM FramesKept ==
  ASSUME {"waits", "whole"} \subseteq Assume
  PROVE  Spec => []FramesAccounted
<1> QED BY InitFrame, NextFrame, FrameMeans, PTL DEF Spec

------------------------------------------------------------------------------
(* The conversions of the barometer.                                       *)

Committing == {"bload", "bstore", "bpend", "bpwr", "bsleep", "bint"}
Places == {"idle", "bdata", "mdata", "mclear", "mset", "breset"} \union Committing

BaroType == [mode : C!Mode, en : SUBSET C!Quantity, status : SUBSET (C!Quantity \union {"cmd"}),
             event : BOOLEAN, int : BOOLEAN, inten : BOOLEAN, pend : BOOLEAN,
             req : BOOLEAN, pin : BOOLEAN, armed : BOOLEAN]

ConvType ==
  /\ baro \in BaroType
  /\ conv_bus = C!None \/ conv_bus \in C!Frames
  /\ pc \in Places /\ tmp \subseteq C!Quantity \union {"cmd"}

OnBus(op) == conv_bus.dev = "baro" /\ conv_bus.op = op

(* How far a forced conversion is: nothing to convert; asked for; its      *)
(* sample committed; the request gone; the part asleep again.              *)
Stage ==
  \/ /\ baro.en = {} /\ ~baro.pend /\ baro.mode = "forced" /\ nconv = 0
     /\ pc \notin Committing \union {"bdata"}
  \/ /\ baro.en # {} /\ baro.pend /\ baro.mode = "forced" /\ nconv = 0
     /\ pc \notin Committing
  \/ /\ baro.en # {} /\ baro.pend /\ baro.mode = "forced" /\ nconv = 1
     /\ pc \in {"bload", "bstore", "bpend"}
  \/ /\ baro.en # {} /\ ~baro.pend /\ baro.mode = "forced" /\ nconv = 1
     /\ pc \in {"bpwr", "bsleep"}
  \/ /\ baro.en # {} /\ ~baro.pend /\ baro.mode = "sleep" /\ nconv = 1
     /\ pc \notin {"bdata", "bload", "bstore", "bpend", "bpwr", "bsleep"}

(* A mode is stored with no conversion and no reset under way, and stays   *)
(* alone until the hook has seen it; from there a forced one goes through  *)
(* its stages.                                                             *)
ForceInv ==
  /\ OnBus("pwr") => /\ baro.mode = asked /\ nconv = 0
                     /\ pc \notin Committing /\ (pc = "bdata" => asked = "normal")
  /\ OnBus("pwr") \/ OnBus("cmd") => ~baro.req /\ pc # "breset"
  /\ OnBus("pwr") \/ OnBus("cmd") \/ baro.req \/ pc = "breset" => ~baro.pend
  /\ baro.pend => asked = "forced"
  /\ asked = "forced" /\ ~OnBus("pwr") => Stage
  /\ pc = "bsleep" => tmp = baro.en

(* What has not been read is announced, or about to be by the commit under *)
(* way; what a read on the bus takes counts as read.                       *)
UnreadInv ==
  /\ pc = "bload" => unread \subseteq baro.status \union baro.en
  /\ pc = "bstore" => unread \subseteq tmp
  /\ pc \notin {"bload", "bstore"} => unread \subseteq baro.status
  /\ OnBus("read") => unread \intersect C!Data(conv_bus.at.addr, conv_bus.at.n) = {}

(* The bytes a hook's len overcounts reach no data the read left alone.    *)
ReadsWhole ==
  \A r \in BaroReads, extra \in 0 .. Prefetch : C!Data(r.addr, r.n + extra) = C!Data(r.addr, r.n)

ConvInv == ConvType /\ ForceInv

LEMMA InitConv == C!Init => ConvInv /\ UnreadInv
<1> SUFFICES ASSUME C!Init PROVE ConvInv /\ UnreadInv
  OBVIOUS
<1>1. /\ baro \in BaroType /\ baro.pend = FALSE /\ baro.req = FALSE
  BY DEF C!Init, BaroType, C!Mode, C!Quantity
<1>2. conv_bus = C!None /\ pc = "idle" /\ tmp = {} /\ unread = {} /\ asked = "sleep"
  BY DEF C!Init
<1>3. ~OnBus("pwr") /\ ~OnBus("cmd") /\ ~OnBus("read")
  BY <1>2 DEF OnBus, C!None
<1> QED BY <1>1, <1>2, <1>3 DEF ConvInv, ConvType, ForceInv, UnreadInv, Places, Committing

(* The DUT stores a mode with nothing under way ...                        *)
LEMMA BeginConv ==
  ASSUME ConvInv, NEW f \in C!Frames, C!Begin(f)
  PROVE  ConvInv' /\ (UnreadInv => UnreadInv')
<1> USE DEF ConvInv
<1>1. /\ conv_bus = C!None /\ C!Kept(f) /\ conv_bus' = f /\ UNCHANGED <<pc, tmp>>
  BY DEF C!Begin
<1>2. ~OnBus("pwr") /\ ~OnBus("cmd") /\ ~OnBus("read")
  BY <1>1 DEF OnBus, C!None
<1>3. CASE f.dev = "baro" /\ f.op = "pwr"
  <2>1. /\ baro' = [baro EXCEPT !.mode = f.val.mode, !.en = f.val.en]
        /\ asked' = f.val.mode /\ nconv' = 0 /\ unread' = unread
    BY <1>3 DEF C!Begin
  <2>2. f.val.mode \in C!Mode /\ f.val.en \in SUBSET C!Quantity
    BY <1>3, SensorsAssumption DEF C!Frames, C!Mode, C!Quantity
  <2>3. ~C!BaroBusy
    BY <1>1, <1>3 DEF C!Kept
  <2>4. /\ baro' \in BaroType /\ baro'.mode = f.val.mode /\ baro'.pend = baro.pend
        /\ baro'.req = baro.req /\ baro'.status = baro.status
    BY <2>1, <2>2 DEF ConvType, BaroType
  <2>5. OnBus("pwr")' /\ ~OnBus("read")'
    BY <1>1, <1>3 DEF OnBus
  <2> QED BY <1>1, <2>1, <2>3, <2>4, <2>5 DEF ConvType, ForceInv, UnreadInv, C!BaroBusy, Committing
<1>4. CASE ~(f.dev = "baro" /\ f.op = "pwr")
  <2>1. /\ \/ baro' = baro
           \/ baro' = [baro EXCEPT !.inten = f.val] /\ f.op = "int" /\ f.dev = "baro"
        /\ UNCHANGED <<asked, nconv>>
        /\ unread' = IF f.dev = "baro" /\ f.op = "read"
                     THEN unread \ C!Data(f.at.addr, f.at.n) ELSE unread
    BY <1>4 DEF C!Begin
  <2>2. /\ baro' \in BaroType /\ baro'.mode = baro.mode /\ baro'.pend = baro.pend
        /\ baro'.req = baro.req /\ baro'.status = baro.status /\ baro'.en = baro.en
    BY <2>1 DEF ConvType, BaroType, C!Frames
  <2>3. ~OnBus("pwr")' /\ (OnBus("cmd")' => ~C!BaroBusy)
    BY <1>1, <1>4 DEF OnBus, C!Kept
  <2>4. ConvType'
    BY <1>1, <2>2 DEF ConvType
  <2>5. ForceInv'
    BY <1>1, <1>2, <2>1, <2>2, <2>3 DEF ForceInv, Stage, C!BaroBusy
  <2>6. UnreadInv => UnreadInv'
    BY <1>1, <2>1, <2>2 DEF UnreadInv, OnBus
  <2> QED BY <2>4, <2>5, <2>6
<1> QED BY <1>3, <1>4

(* ... and the hook asks for the conversion.                               *)
LEMMA EndConv ==
  ASSUME ConvInv, C!End
  PROVE  ConvInv' /\ (UnreadInv /\ ReadsWhole => UnreadInv')
<1> USE DEF ConvInv
<1> DEFINE f == conv_bus
<1>1. /\ f \in C!Frames /\ conv_bus' = C!None
      /\ UNCHANGED <<pc, tmp, unread, asked, nconv>>
  BY DEF C!End, ConvType
<1>2. ~OnBus("pwr")' /\ ~OnBus("cmd")' /\ ~OnBus("read")'
  BY <1>1 DEF OnBus, C!None
<1>3. CASE OnBus("read")
  <2>1. PICK extra \in 0 .. Prefetch : C!BaroRead(f, f.at.n + extra)
    BY <1>3 DEF C!End, OnBus
  <2> DEFINE data == C!Data(f.at.addr, f.at.n + extra)
             event == baro.event /\ ~C!Touches(f.at.addr, f.at.n + extra, C!B_EVENT, C!B_EVENT)
             int == C!Touches(f.at.addr, f.at.n + extra, C!B_INT_STATUS, C!B_INT_STATUS)
  <2>0. /\ baro \in BaroType
        /\ baro' = [baro EXCEPT !.status = @ \ data, !.event = event,
                                !.int = @ /\ ~int, !.pin = @ /\ ~(int /\ baro.inten)]
    <3>1. baro' = [baro EXCEPT !.status = @ \ data,
                     !.event = @ /\ ~C!Touches(f.at.addr, f.at.n + extra, C!B_EVENT, C!B_EVENT),
                     !.int = @ /\ ~int, !.pin = @ /\ ~(int /\ baro.inten)]
      BY <2>1 DEF C!BaroRead
    <3>2. baro \in BaroType
      BY DEF ConvType
    <3> QED BY <3>1, <3>2 DEF BaroType
  <2>0a. event \in BOOLEAN /\ int \in BOOLEAN
    BY <2>0 DEF BaroType, C!Touches
  <2> HIDE DEF data, event, int
  <2>2a. baro'.status = baro.status \ data
    BY <2>0 DEF BaroType
  <2>2. baro'.status = baro.status \ C!Data(f.at.addr, f.at.n + extra)
    BY <2>2a DEF data
  <2>3. /\ baro' \in BaroType /\ baro'.mode = baro.mode /\ baro'.pend = baro.pend
        /\ baro'.req = baro.req /\ baro'.en = baro.en
    BY <2>0, <2>0a, ZenonT(40) DEF BaroType
  <2>4. ~OnBus("pwr") /\ ~OnBus("cmd")
    BY <1>3 DEF OnBus
  <2>5. ConvType'
    BY <1>1, <2>3 DEF ConvType
  <2>6. ForceInv'
    BY <1>1, <1>2, <2>3, <2>4 DEF ForceInv, Stage
  <2>7. ASSUME UnreadInv, ReadsWhole PROVE UnreadInv'
    <3>1. f.at \in BaroReads
      BY <1>1, <1>3 DEF C!Frames, OnBus
    <3>2. C!Data(f.at.addr, f.at.n + extra) = C!Data(f.at.addr, f.at.n)
      BY <3>1, <2>7 DEF ReadsWhole
    <3> QED BY <1>1, <1>2, <1>3, <2>2, <2>3, <2>7, <3>2 DEF UnreadInv
  <2> QED BY <2>5, <2>6, <2>7
<1>4. CASE f.dev = "baro" /\ ~OnBus("read")
  <2>1. C!BaroWrite(f)
    BY <1>4 DEF C!End, OnBus
  <2>2. /\ baro' \in BaroType /\ baro'.mode = baro.mode /\ baro'.en = baro.en
        /\ baro'.status = baro.status
        /\ baro'.req = (baro.req \/ OnBus("cmd"))
        /\ baro'.pend = (baro.pend \/ (OnBus("pwr") /\ baro.mode = "forced" /\ baro.en # {}))
    <3>1. CASE OnBus("pwr")
      BY <2>1, <3>1 DEF C!BaroWrite, ConvType, BaroType, OnBus
    <3>2. CASE OnBus("cmd")
      BY <2>1, <3>2 DEF C!BaroWrite, ConvType, BaroType, OnBus
    <3>3. CASE ~OnBus("pwr") /\ ~OnBus("cmd")
      <4>1. baro' = baro
        BY <2>1, <3>3, <1>4 DEF C!BaroWrite, OnBus
      <4> QED BY <4>1, <3>3 DEF ConvType, BaroType
    <3> QED BY <3>1, <3>2, <3>3
  <2>3. ConvType'
    BY <1>1, <2>2 DEF ConvType
  <2>4. ForceInv'
    <3>1. CASE OnBus("pwr")
      <4>1. ~OnBus("cmd")
        BY <3>1 DEF OnBus
      <4>2. asked = "forced" => Stage'
        BY <1>1, <2>2, <3>1 DEF ForceInv, Stage
      <4> QED BY <1>1, <1>2, <2>2, <3>1, <4>1, <4>2 DEF ForceInv
    <3>2. CASE ~OnBus("pwr")
      <4>1. Stage => Stage'
        BY <1>1, <2>2, <3>2 DEF Stage
      <4> QED BY <1>1, <1>2, <2>2, <3>2, <4>1 DEF ForceInv
    <3> QED BY <3>1, <3>2
  <2>5. UnreadInv => UnreadInv'
    BY <1>1, <1>2, <2>2 DEF UnreadInv
  <2> QED BY <2>3, <2>4, <2>5
<1>5. CASE f.dev # "baro"
  <2>1. baro' = baro /\ ~OnBus("pwr")
    BY <1>5 DEF C!End, OnBus
  <2> QED BY <1>1, <1>2, <2>1 DEF ConvType, ForceInv, Stage, UnreadInv
<1> QED BY <1>3, <1>4, <1>5

(* The commit takes a forced conversion through its stages, and a reset    *)
(* comes with none under way.                                              *)
LEMMA CommitConv ==
  ASSUME ConvInv,
         \/ C!BaroData \/ C!BaroStatusLoad \/ C!BaroStatusStore \/ C!BaroPend \/ C!BaroPwrLoad
         \/ C!BaroSleep \/ C!BaroInt
  PROVE  ConvInv' /\ (UnreadInv => UnreadInv')
<1> USE DEF ConvInv
<1>1. CASE C!BaroData
  <2>1. /\ pc = "bdata" /\ pc' = "bload" /\ conv_bus.dev # "baro" /\ unread' = baro.en
        /\ nconv' = (IF nconv = 0 THEN 1 ELSE 2)
        /\ UNCHANGED <<baro, conv_bus, tmp, asked>>
    BY <1>1 DEF C!BaroData, C!Refused
  <2>2. ~OnBus("pwr") /\ ~OnBus("cmd") /\ ~OnBus("read")
    BY <2>1 DEF OnBus
  <2>3. asked = "forced" => Stage'
    BY <2>1, <2>2 DEF ForceInv, Stage, Committing
  <2>4. ConvType' /\ ForceInv'
    BY <2>1, <2>2, <2>3 DEF ConvType, ForceInv, Places, Committing, OnBus
  <2> QED BY <2>1, <2>2, <2>4 DEF UnreadInv, OnBus
<1>2. CASE C!BaroStatusLoad
  <2>1. /\ pc = "bload" /\ pc' = "bstore" /\ tmp' = baro.status \union baro.en
        /\ UNCHANGED <<baro, conv_bus, unread, asked, nconv>>
    BY <1>2 DEF C!BaroStatusLoad
  <2>2. Stage => Stage'
    BY <2>1 DEF Stage, Committing
  <2>3. ConvType'
    BY <2>1 DEF ConvType, BaroType, Places, Committing
  <2>4. ForceInv'
    BY <2>1, <2>2 DEF ForceInv, Committing, OnBus
  <2> QED BY <2>1, <2>3, <2>4 DEF UnreadInv, OnBus
<1>3. CASE C!BaroStatusStore
  <2>1. /\ pc = "bstore" /\ pc' = "bpend" /\ baro' = [baro EXCEPT !.status = tmp] /\ tmp' = {}
        /\ UNCHANGED <<conv_bus, unread, asked, nconv>>
    BY <1>3 DEF C!BaroStatusStore
  <2>2. /\ baro' \in BaroType /\ baro'.mode = baro.mode /\ baro'.en = baro.en
        /\ baro'.status = tmp /\ baro'.req = baro.req /\ baro'.pend = baro.pend
    BY <2>1 DEF ConvType, BaroType
  <2>3. Stage => Stage'
    BY <2>1, <2>2 DEF Stage, Committing
  <2>4. ConvType'
    BY <2>1, <2>2 DEF ConvType, Places, Committing
  <2>5. ForceInv'
    BY <2>1, <2>2, <2>3 DEF ForceInv, Committing, OnBus
  <2> QED BY <2>1, <2>2, <2>4, <2>5 DEF UnreadInv, OnBus
<1>4. CASE C!BaroPend
  <2>1. /\ pc = "bpend" /\ baro' = [baro EXCEPT !.pend = FALSE]
        /\ pc' = (IF baro.pend THEN "bpwr" ELSE "bint")
        /\ UNCHANGED <<conv_bus, tmp, unread, asked, nconv>>
    BY <1>4 DEF C!BaroPend
  <2>2. /\ baro' \in BaroType /\ baro'.mode = baro.mode /\ baro'.en = baro.en
        /\ baro'.status = baro.status /\ baro'.req = baro.req /\ ~baro'.pend
    BY <2>1 DEF ConvType, BaroType
  <2>3. Stage => Stage'
    BY <2>1, <2>2 DEF Stage, Committing
  <2>4. ConvType'
    BY <2>1, <2>2 DEF ConvType, Places, Committing
  <2>5. ForceInv'
    BY <2>1, <2>2, <2>3 DEF ForceInv, Committing, OnBus
  <2> QED BY <2>1, <2>2, <2>4, <2>5 DEF UnreadInv, OnBus
<1>5. CASE C!BaroPwrLoad
  <2>1. /\ pc = "bpwr" /\ pc' = "bsleep" /\ tmp' = baro.en
        /\ UNCHANGED <<baro, conv_bus, unread, asked, nconv>>
    BY <1>5 DEF C!BaroPwrLoad
  <2>2. Stage => Stage'
    BY <2>1 DEF Stage, Committing
  <2>3. ConvType'
    BY <2>1 DEF ConvType, BaroType, Places, Committing
  <2>4. ForceInv'
    BY <2>1, <2>2 DEF ForceInv, Committing, OnBus
  <2> QED BY <2>1, <2>3, <2>4 DEF UnreadInv, OnBus
<1>6. CASE C!BaroSleep
  <2>1. /\ pc = "bsleep" /\ pc' = "bint" /\ tmp' = {} /\ tmp = baro.en
        /\ baro' = [baro EXCEPT !.mode = "sleep", !.en = tmp]
        /\ UNCHANGED <<conv_bus, unread, asked, nconv>>
    BY <1>6 DEF C!BaroSleep, ForceInv
  <2>2. /\ baro' \in BaroType /\ baro'.mode = "sleep" /\ baro'.en = baro.en
        /\ baro'.status = baro.status /\ baro'.req = baro.req /\ baro'.pend = baro.pend
    BY <2>1 DEF ConvType, BaroType, C!Mode
  <2>3. Stage => Stage'
    BY <2>1, <2>2 DEF Stage, Committing
  <2>4. ConvType'
    BY <2>1, <2>2 DEF ConvType, Places, Committing
  <2>5. ForceInv'
    BY <2>1, <2>2, <2>3 DEF ForceInv, Committing, OnBus
  <2> QED BY <2>1, <2>2, <2>4, <2>5 DEF UnreadInv, OnBus
<1>7. CASE C!BaroInt
  <2>1. /\ pc = "bint" /\ pc' = "idle"
        /\ baro' = baro \/ baro' = [baro EXCEPT !.int = TRUE, !.pin = TRUE, !.armed = TRUE]
        /\ UNCHANGED <<conv_bus, tmp, unread, asked, nconv>>
    BY <1>7 DEF C!BaroInt
  <2>2. /\ baro' \in BaroType /\ baro'.mode = baro.mode /\ baro'.en = baro.en
        /\ baro'.status = baro.status /\ baro'.req = baro.req /\ baro'.pend = baro.pend
    BY <2>1 DEF ConvType, BaroType
  <2>3. Stage => Stage'
    BY <2>1, <2>2 DEF Stage, Committing
  <2>4. ConvType'
    BY <2>1, <2>2 DEF ConvType, Places
  <2>5. ForceInv'
    BY <2>1, <2>2, <2>3 DEF ForceInv, Committing, OnBus
  <2> QED BY <2>1, <2>2, <2>4, <2>5 DEF UnreadInv, OnBus
<1> QED BY <1>1, <1>2, <1>3, <1>4, <1>5, <1>6, <1>7

(* The rest of what the thread does.                                       *)
LEMMA RestConv ==
  ASSUME ConvInv,
         C!Sample \/ C!CommitRefused \/ C!MagData \/ C!MagClear \/ C!MagSet \/ C!Poll
  PROVE  ConvInv' /\ (UnreadInv => UnreadInv')
<1> USE DEF ConvInv
<1>1. CASE C!Sample
  <2>1. /\ pc = "idle" /\ UNCHANGED <<baro, conv_bus, tmp, unread, asked, nconv>>
        /\ pc' = "mdata" \/ (C!BaroDue /\ pc' = "bdata")
    BY <1>1 DEF C!Sample
  <2>2. pc' = "bdata" => baro.pend \/ baro.mode = "normal"
    BY <2>1 DEF C!BaroDue
  <2>3. Stage => Stage'
    BY <2>1, <2>2 DEF Stage, Committing
  <2>4. ForceInv'
    BY <2>1, <2>2, <2>3 DEF ForceInv, Committing, OnBus
  <2> QED BY <2>1, <2>4 DEF ConvType, UnreadInv, OnBus, Places
<1>2. CASE C!CommitRefused \/ C!MagData \/ C!MagClear \/ C!MagSet
  <2>1. /\ pc \in {"bdata", "mdata", "mclear", "mset"} /\ pc' \in {"idle", "mclear", "mset"}
        /\ UNCHANGED <<baro, conv_bus, tmp, unread, asked, nconv>>
    BY <1>2 DEF C!CommitRefused, C!Refused, C!MagData, C!MagClear, C!MagSet
  <2>2. Stage => Stage'
    BY <2>1 DEF Stage, Committing
  <2>3. ForceInv'
    BY <2>1, <2>2 DEF ForceInv, Committing, OnBus
  <2> QED BY <2>1, <2>3 DEF ConvType, UnreadInv, OnBus, Places
<1>3. CASE C!PollReset
  <2>1. /\ pc = "idle" /\ pc' = "breset" /\ baro.req /\ baro' = [baro EXCEPT !.req = FALSE]
        /\ UNCHANGED <<conv_bus, tmp, unread, asked, nconv>>
    BY <1>3 DEF C!PollReset
  <2>2. /\ baro' \in BaroType /\ baro'.mode = baro.mode /\ baro'.en = baro.en
        /\ baro'.status = baro.status /\ ~baro'.req /\ baro'.pend = baro.pend
    BY <2>1 DEF ConvType, BaroType
  <2>3. Stage => Stage'
    BY <2>1, <2>2 DEF Stage, Committing
  <2>4. ForceInv'
    BY <2>1, <2>2, <2>3 DEF ForceInv, Committing, OnBus
  <2> QED BY <2>1, <2>2, <2>4 DEF ConvType, UnreadInv, OnBus, Places
<1>4. CASE C!BaroReset
  <2>1. /\ pc = "breset" /\ pc' = "idle" /\ asked' = "sleep" /\ unread' = {}
        /\ baro' = [baro EXCEPT !.mode = "sleep", !.en = {}, !.status = {"cmd"}, !.event = TRUE,
                                !.int = FALSE, !.inten = FALSE]
        /\ UNCHANGED <<conv_bus, tmp>>
    BY <1>4 DEF C!BaroReset
  <2>2. baro' \in BaroType /\ baro'.req = baro.req /\ baro'.pend = baro.pend
    BY <2>1 DEF ConvType, BaroType, C!Mode
  <2>3. ForceInv'
    BY <2>1, <2>2 DEF ForceInv, Committing, OnBus
  <2> QED BY <2>1, <2>2, <2>3 DEF ConvType, UnreadInv, OnBus, Places
<1>5. CASE C!Release
  <2>1. /\ pc = "idle" /\ UNCHANGED <<conv_bus, pc, tmp, unread, asked, nconv>>
        /\ baro' = baro \/ baro' = [baro EXCEPT !.armed = FALSE, !.pin = @ /\ ~baro.inten]
    BY <1>5 DEF C!Release
  <2>2. /\ baro' \in BaroType /\ baro'.mode = baro.mode /\ baro'.en = baro.en
        /\ baro'.status = baro.status /\ baro'.req = baro.req /\ baro'.pend = baro.pend
    BY <2>1 DEF ConvType, BaroType
  <2>3. Stage => Stage'
    BY <2>1, <2>2 DEF Stage
  <2>4. ForceInv'
    BY <2>1, <2>2, <2>3 DEF ForceInv, OnBus
  <2> QED BY <2>1, <2>2, <2>4 DEF ConvType, UnreadInv, OnBus
<1> QED BY <1>1, <1>2, <1>3, <1>4, <1>5 DEF C!Poll

LEMMA NextConv ==
  ASSUME ConvInv, [C!Next]_(C!vars)
  PROVE  ConvInv' /\ (UnreadInv /\ ReadsWhole => UnreadInv')
<1>1. CASE UNCHANGED C!vars
  BY <1>1 DEF C!vars, ConvInv, ConvType, ForceInv, Stage, UnreadInv, OnBus
<1> QED BY <1>1, BeginConv, EndConv, CommitConv, RestConv DEF C!Next, C!Commit

(* For any reads of the DUT, any stores into PWR_CTRL and any interleaving *)
(* of hook and commit, when the DUT waits for what it asked for: a forced  *)
(* mode runs exactly one conversion, and the part is asleep after it.      *)
THEOREM ForcedRunsOnce == C!Spec => []ForcedOnce
<1>1. ConvInv /\ [C!Next]_(C!vars) => ConvInv'
  BY NextConv
<1>2. ConvInv => ForcedOnce
  <2> SUFFICES ASSUME ConvInv, asked = "forced", ~C!BaroBusy, conv_bus = C!None
               PROVE  /\ baro.mode = IF baro.en = {} THEN "forced" ELSE "sleep"
                      /\ nconv = IF baro.en = {} THEN 0 ELSE 1
    BY DEF ForcedOnce, C!ForcedOnce
  <2>1. ~OnBus("pwr")
    BY DEF OnBus, C!None
  <2> QED BY <2>1 DEF ConvInv, ForceInv, Stage, C!BaroBusy
<1> QED BY <1>1, <1>2, InitConv, PTL DEF C!Spec

(* For any such DUT whose reads end where the data do or well before it: a *)
(* sample it has not read is announced in STATUS once its commit is over,  *)
(* whatever reads and other writes the commit met.                         *)
THEOREM SamplesAnnounced ==
  ASSUME ReadsWhole
  PROVE  C!Spec => []UnreadAnnounced
<1>1. ConvInv /\ UnreadInv /\ [C!Next]_(C!vars) => ConvInv' /\ UnreadInv'
  BY NextConv
<1>2. UnreadInv => UnreadAnnounced
  BY DEF UnreadInv, UnreadAnnounced, C!UnreadAnnounced, C!BaroBusy
<1> QED BY <1>1, <1>2, InitConv, PTL DEF C!Spec
=============================================================================
