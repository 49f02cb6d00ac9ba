--------------------------- MODULE SpiSlaveProofs ---------------------------
(***************************************************************************)
(* Proofs about the engine of SpiSlave, for any number of devices, any     *)
(* register file, stream buffer and FIFO size.  Against any master: the    *)
(* inductive invariant IInv, from it type correctness and the refinement   *)
(* of RegisterPort.  Against a master that keeps the Promises, resyncs     *)
(* included: SpiInv, from it everything SpiSlaveProperties asks for save   *)
(* HardZero, which is refuted, and the liveness property.                  *)
(***************************************************************************)
EXTENDS SpiSlaveProperties, FiniteSetTheorems, SequenceTheorems, WellFoundedInduction, TLAPS

(* The thread is inside a commit exactly while interrupts are masked, no   *)
(* handler runs then or during a resync, what a commit copies to is not    *)
(* the selected device, and a resync has stopped the engine.               *)
ThreadInv ==
  /\ masked <=> thr \in {"check", "copy"}
  /\ thr # "idle" => isr = "none"
  /\ thr \in {"check", "copy"} => tdev \in Dev
  /\ thr = "resync" => phase = "CMD"
  /\ thr = "copy" => active # tdev

(* The TX DMA runs exactly in the read phase, from the selected device,    *)
(* with RXNE muted, so the drain loop never runs then.                     *)
BurstInv ==
  /\ phase = "READ" => dma = active /\ ~rxneie /\ isr # "spi"
  /\ phase # "READ" => dma = None /\ rxneie
  /\ phase # "CMD" => active # None
  /\ isr = "fast" => active = None /\ snap # {}

IInv == TypeOK /\ ThreadInv /\ BurstInv

(* The sample left to copy after a refused commit is the empty function.   *)
LEMMA EmptyDomain == DOMAIN <<>> = {}
OBVIOUS

(* Every nonempty set of naturals has a least element. *)
LEMMA LeastElement ==
  ASSUME NEW S \in SUBSET Nat, S # {}
  PROVE  \E m \in S : \A e \in S : m <= e
<1> DEFINE R == OpToRel(<, Nat)
<1>1. \A a, b \in Nat : a < b => <<a, b>> \in R
  BY DEF OpToRel
<1>2. IsWellFoundedOn(R, Nat)
  BY NatLessThanWellFounded
<1> HIDE DEF R
<1>3. PICK m \in S : \A e \in S : <<e, m>> \notin R
  BY <1>2, WFMin
<1>4. ASSUME NEW e \in S, e < m PROVE FALSE
  <2>1. <<e, m>> \in R
    BY <1>1, <1>4
  <2> QED BY <1>3, <2>1
<1>5. ASSUME NEW e \in S PROVE m <= e
  BY <1>4
<1> QED BY <1>5

(* A remainder lies below its divisor. *)
LEMMA ModBound ==
  ASSUME NEW a \in Int, NEW b \in Nat \ {0}
  PROVE  a % b \in 0 .. b - 1
OBVIOUS

(* The arbitration of spislave_resolve picks one of the asserted selects.  *)
LEMMA LowestIn ==
  ASSUME NEW S \in SUBSET Dev, S # {}
  PROVE  Lowest(S) \in S
<1>1. \E d \in S : \A e \in S : d <= e
  BY LeastElement, SizeAssumption DEF Dev
<1>2. QED
  BY <1>1 DEF Lowest

(* It yields a device, or None with no select asserted.                    *)
LEMMA LowestType ==
  ASSUME NEW S \in SUBSET Dev
  PROVE  Lowest(S) \in Dev \union {None}
BY LowestIn DEF Lowest

(* Whatever the command byte, the memory a read command streams lies       *)
(* inside the register file or inside stream[] (spislave_irq, source       *)
(* selection).                                                             *)
LEMMA SourceInMemory ==
  ASSUME NEW d \in Dev, NEW a \in Reg
  PROVE  LET s == Source(d, a)
         IN  s.base \in Cell /\ s.n \in Nat /\ s.base + s.n <= NReg + StreamMax
<1> DEFINE off == (StreamAddr[d] - a) % (2 * NReg)
<1>1. off \in Nat
  <2>1. StreamAddr[d] - a \in Int /\ 2 * NReg \in Nat \ {0}
    BY SizeAssumption, DeviceAssumption DEF Reg
  <2>2. off \in 0 .. 2 * NReg - 1
    BY <2>1, ModBound
  <2>3. QED
    BY <2>1, <2>2
<1>2. QED
  BY <1>1, SizeAssumption, DeviceAssumption DEF Source, Reg, Cell

(* The address field of a command byte addresses a register.               *)
LEMMA CommandTypes ==
  ASSUME NEW b \in Byte
  PROVE  AddrOf(b) \in Reg
BY ModBound, SizeAssumption DEF AddrOf, Reg, Byte

(* spislave_init establishes the inductive invariant.                      *)
LEMMA InitInv == Init => IInv
<1> SUFFICES ASSUME Init PROVE IInv
  OBVIOUS
<1>1. 0 \in Reg /\ 0 \in Byte /\ DOMAIN src = {}
  BY SizeAssumption, EmptyDomain DEF Init, Reg, Byte
<1>2. rx \in Seq(Byte) /\ Len(rx) <= RxDepth /\ tx \in Seq(Byte \union {Fill})
  BY SizeAssumption DEF Init
<1>3. mem \in [Dev -> [Cell -> Byte]] /\ frames \in [Dev -> Nat]
  BY <1>1 DEF Init
<1>4. hook \in [dev : Dev \union {None}, cmd : Byte, addr : Reg, len : Int]
  BY <1>1 DEF Init
<1>5. TypeOK
  BY <1>1, <1>2, <1>3, <1>4 DEF Init, TypeOK
<1>6. ThreadInv /\ BurstInv
  BY DEF Init, ThreadInv, BurstInv
<1>7. QED
  BY <1>5, <1>6 DEF IInv

(* Edges and clocked bytes keep it, at any moment.                         *)
LEMMA MasterInv ==
  ASSUME IInv, Master
  PROVE  IInv'
<1>1. ASSUME NEW d \in Dev, CsFall(d) PROVE IInv'
  <2>1. lost' \in BOOLEAN
    BY <1>1 DEF CsFall, Overlooked, Committed
  <2>2. low' \subseteq Dev /\ pr' \subseteq Dev /\ nvic' \subseteq Dev /\ nfall' \in Nat
    BY <1>1 DEF CsFall, Edge, IInv, TypeOK
  <2>3. UNCHANGED <<spi, engine, mem, counts, handler, thread, heal, resyncs>>
    BY <1>1 DEF CsFall
  <2>4. QED
    BY <2>1, <2>2, <2>3 DEF IInv, TypeOK, ThreadInv, BurstInv, spi, engine, counts, handler, thread
<1>2. ASSUME NEW d \in Dev, CsRise(d) PROVE IInv'
  <2>1. heal' \in {"whole", "cut", "after"} /\ lost' \in BOOLEAN
    BY <1>2 DEF CsRise, Overlooked, Committed, IInv, TypeOK
  <2>2. low' \subseteq Dev /\ pr' \subseteq Dev /\ nvic' \subseteq Dev
    BY <1>2 DEF CsRise, Edge, IInv, TypeOK
  <2>3. UNCHANGED <<spi, engine, mem, counts, handler, thread, nfall, resyncs>>
    BY <1>2 DEF CsRise
  <2>4. QED
    BY <2>1, <2>2, <2>3 DEF IInv, TypeOK, ThreadInv, BurstInv, spi, engine, counts, handler, thread
<1>3. ASSUME NEW b \in MasterBytes, ClockByte(b) PROVE IInv'
  <2>1. b \in Byte
    BY InputAssumption
  <2>2. rx' \in Seq(Byte) /\ Len(rx') <= RxDepth
    <3>1. PICK got \in IF skew THEN MasterBytes ELSE {b} :
             rx' = IF Len(rx) < RxDepth /\ thr # "resync" THEN Append(rx, got) ELSE rx
      BY <1>3 DEF ClockByte
    <3>2. got \in Byte
      BY <2>1, <3>1, InputAssumption
    <3>3. QED
      BY <3>1, <3>2, SizeAssumption DEF IInv, TypeOK
  <2>3. tx' \in Seq(Byte \union {Fill})
    BY <1>3 DEF ClockByte, IInv, TypeOK
  <2>4. heal' \in {"whole", "cut", "after"}
    BY <1>3 DEF ClockByte, IInv, TypeOK
  <2>5. UNCHANGED <<lines, skew, rxneie, dma, mar, ndtr, engine, mem, counts,
                    handler, thread, nfall, lost, resyncs>>
    BY <1>3 DEF ClockByte
  <2>6. QED
    BY <2>2, <2>3, <2>4, <2>5 DEF IInv, TypeOK, ThreadInv, BurstInv, lines, engine, counts, handler, thread
<1>4. QED
  BY <1>1, <1>2, <1>3 DEF Master

(* A DMA fetch keeps it: the fetched cell exists, the rest still fits.     *)
LEMMA DmaInv ==
  ASSUME IInv, DmaFetch
  PROVE  IInv'
<1>1. mar \in Cell /\ dma \in Dev
  BY SizeAssumption DEF IInv, TypeOK, DmaFetch, Cell
<1>2. tx' \in Seq(Byte \union {Fill})
  BY <1>1 DEF IInv, TypeOK, DmaFetch
<1>3. QED
  BY <1>1, <1>2, SizeAssumption DEF DmaFetch, IInv, TypeOK, ThreadInv, BurstInv, lines, engine, counts, handler, thread, master

(* Queueing keeps the type of the TX FIFO.                                 *)
LEMMA ConcatType ==
  ASSUME NEW S, NEW s \in Seq(S), NEW t \in Seq(S)
  PROVE  s \o t \in Seq(S)
OBVIOUS

(* A resync keeps it: the SPI starts empty on a file of defaults.          *)
LEMMA ResyncInv ==
  ASSUME IInv, ResyncBegin \/ ResyncEnd
  PROVE  IInv'
<1>1. CASE ResyncBegin
  <2>1. 0 \in Byte
    BY SizeAssumption DEF Byte
  <2>2. mem' \in [Dev -> [Cell -> Byte]]
    BY <1>1, <2>1 DEF ResyncBegin, IInv, TypeOK
  <2>3. rx' \in Seq(Byte) /\ Len(rx') <= RxDepth /\ tx' \in Seq(Byte \union {Fill})
    BY <1>1, SizeAssumption DEF ResyncBegin
  <2>4. heal' \in {"whole", "cut", "after"} /\ resyncs' \in Nat
    BY <1>1 DEF ResyncBegin, IInv, TypeOK
  <2>5. /\ thr' = "resync" /\ rxneie' = TRUE /\ skew' = FALSE /\ dma' = None
        /\ active' = None /\ phase' = "CMD" /\ isr = "none" /\ thr = "idle"
        /\ UNCHANGED <<lines, mar, ndtr, cmd, addr0, addr, ndtr0, counts, handler,
                       masked, tdev, src, nfall>>
    BY <1>1 DEF ResyncBegin
  <2>6. TypeOK'
    <3>1. lost' \in BOOLEAN
      BY <1>1 DEF ResyncBegin
    <3>2. QED
      BY <2>2, <2>3, <2>4, <2>5, <3>1 DEF IInv, TypeOK, lines, counts, handler
  <2>7. ThreadInv' /\ BurstInv'
    BY <2>5 DEF IInv, ThreadInv, BurstInv, handler
  <2>8. QED
    BY <2>6, <2>7 DEF IInv
<1>2. CASE ResyncEnd
  <2>1. tx' \in Seq(Byte \union {Fill})
    <3>1. <<Fill>> \in Seq(Byte \union {Fill})
      OBVIOUS
    <3>2. QED
      BY <1>2, <3>1, ConcatType DEF ResyncEnd, IInv, TypeOK
  <2>2. QED
    BY <1>2, <2>1 DEF ResyncEnd, IInv, TypeOK, ThreadInv, BurstInv, engine, counts, handler
<1>3. QED
  BY <1>1, <1>2

(* The steps of a commit keep it: the lock excludes the handlers, so the   *)
(* device it found unselected stays unselected until the unlock.           *)
LEMMA ThreadStepInv ==
  ASSUME IInv, Thread
  PROVE  IInv'
<1>1. ASSUME NEW d \in Dev, NEW s \in Samples[d], IrqLock(d, s) PROVE IInv'
  <2>1. DOMAIN s \subseteq Cell /\ \A c \in DOMAIN s : s[c] \in Byte
    BY InputAssumption
  <2>2. QED
    BY <1>1, <2>1 DEF IrqLock, IInv, TypeOK, ThreadInv, BurstInv, lines, spi, engine, counts, handler, master
<1>2. CASE CommitCheck
  <2>1. DOMAIN src' \subseteq Cell /\ \A c \in DOMAIN src' : src'[c] \in Byte
    BY <1>2, EmptyDomain DEF CommitCheck, IInv, TypeOK
  <2>2. TypeOK'
    <3>1. masked' \in BOOLEAN /\ thr' \in {"idle", "copy"}
      BY <1>2 DEF CommitCheck, IInv, TypeOK
    <3>2. UNCHANGED <<lines, spi, engine, mem, counts, handler, tdev, master>>
      BY <1>2 DEF CommitCheck
    <3>3. QED
      BY <2>1, <3>1, <3>2 DEF IInv, TypeOK, lines, spi, engine, counts, handler, master
  <2>3. ThreadInv' /\ BurstInv'
    BY <1>2 DEF CommitCheck, IInv, TypeOK, ThreadInv, BurstInv, spi, engine, handler
  <2>4. QED
    BY <2>2, <2>3 DEF IInv
<1>3. CASE CommitCopy
  <2>1. tdev \in Dev
    BY <1>3 DEF CommitCopy, IInv, ThreadInv
  <2>2. mem' \in [Dev -> [Cell -> Byte]] /\ DOMAIN src' \subseteq Cell /\ \A c \in DOMAIN src' : src'[c] \in Byte
    BY <1>3, <2>1 DEF CommitCopy, IInv, TypeOK
  <2>3. QED
    BY <1>3, <2>2 DEF CommitCopy, IInv, TypeOK, ThreadInv, BurstInv, lines, spi, engine, counts, handler, master
<1>4. CASE IrqUnlock
  BY <1>4 DEF IrqUnlock, IInv, TypeOK, ThreadInv, BurstInv, lines, spi, engine, counts, handler, master
<1>5. CASE ResyncBegin \/ ResyncEnd
  BY <1>5, ResyncInv
<1>6. QED
  BY <1>1, <1>2, <1>3, <1>4, <1>5 DEF Thread

(* So does spislave_select with its dummies.                               *)
LEMMA SelectType ==
  ASSUME NEW sel \in Dev, NEW q \in Seq(Byte \union {Fill}), Select(sel, q)
  PROVE  tx' \in Seq(Byte \union {Fill})
<1>1. [i \in 1 .. Dummy[sel] |-> Fill] \in Seq(Byte \union {Fill})
  BY DeviceAssumption
<1>2. QED
  BY <1>1, ConcatType DEF Select

(* spislave_close_account with the frame hook keeps files and counters     *)
(* typed.                                                                  *)
LEMMA AccountType ==
  ASSUME IInv, NEW d \in Dev, Account(d)
  PROVE  /\ frames' \in [Dev -> Nat]
         /\ hook' \in [dev : Dev \union {None}, cmd : Byte, addr : Reg, len : Int]
         /\ mem' \in [Dev -> [Cell -> Byte]]
<1>1. FrameLen \in Int
  <2>1. addr - addr0 \in Int /\ NReg \in Nat \ {0}
    BY SizeAssumption DEF IInv, TypeOK, Reg
  <2>2. (addr - addr0) % NReg \in Int
    BY <2>1, ModBound
  <2>3. QED
    BY <2>2 DEF FrameLen, IInv, TypeOK
<1>2. 0 \in Byte
  BY SizeAssumption DEF Byte
<1>3. mem' \in [Dev -> [Cell -> Byte]]
  BY <1>2 DEF Account, IInv, TypeOK
<1>4. QED
  BY <1>1, <1>3 DEF Account, IInv, TypeOK

(* spislave_irq keeps the invariant.                                       *)
LEMMA SpiIrqInv ==
  ASSUME IInv, SpiEnter \/ SpiTake \/ SpiExit
  PROVE  IInv'
<1>1. CASE SpiEnter
  BY <1>1 DEF SpiEnter, SpiPending, IInv, TypeOK, ThreadInv, BurstInv, lines, spi, engine, counts, thread, master
<1>2. CASE SpiTake
  <2> DEFINE b == Head(rx)
  <2>1. b \in Byte /\ AddrOf(b) \in Reg /\ rx' \in Seq(Byte) /\ Len(rx') <= RxDepth
    <3>1. b \in Byte /\ rx' \in Seq(Byte) /\ Len(rx') <= RxDepth
      BY <1>2, SizeAssumption DEF SpiTake, IInv, TypeOK
    <3>2. QED
      BY <3>1, CommandTypes
  <2> HIDE DEF b
  <2>2. CASE TakeStray
    BY <1>2, <2>1, <2>2 DEF SpiTake, TakeStray, IInv, TypeOK, ThreadInv, BurstInv, lines, engine, thread, master
  <2>3. CASE TakeReadCommand(b)
    <3>1. LET s == Source(active, AddrOf(b))
          IN  s.base \in Cell /\ s.n \in Nat /\ s.base + s.n <= NReg + StreamMax
      BY <2>1, <2>3, SourceInMemory DEF TakeReadCommand, IInv, TypeOK
    <3>2. mar' \in Nat /\ ndtr' \in Nat /\ ndtr0' \in Nat /\ mar' + ndtr' <= NReg + StreamMax
      BY <2>3, <3>1, SizeAssumption DEF TakeReadCommand, Cell
    <3>3. QED
      BY <1>2, <2>1, <2>3, <3>2 DEF SpiTake, TakeReadCommand, IInv, TypeOK, ThreadInv, BurstInv, lines, thread, master
  <2>4. CASE TakeWriteCommand(b)
    BY <1>2, <2>1, <2>4 DEF SpiTake, TakeWriteCommand, IInv, TypeOK, ThreadInv, BurstInv, lines, thread, master
  <2>5. CASE TakeWriteData(b)
    <3>1. addr' \in Reg
      <4>1. addr + 1 \in Int /\ NReg \in Nat \ {0}
        BY SizeAssumption DEF IInv, TypeOK, Reg
      <4>2. QED
        BY <4>1, <2>5, ModBound DEF TakeWriteData, Reg
    <3>2. mem' \in [Dev -> [Cell -> Byte]] /\ unexpected' \in Nat
      <4>1. active \in Dev /\ addr \in Cell
        BY <2>5, SizeAssumption DEF TakeWriteData, IInv, TypeOK, Reg, Cell
      <4>2. b \in Byte /\ mem \in [Dev -> [Cell -> Byte]] /\ unexpected \in Nat
        BY <2>1 DEF IInv, TypeOK
      <4>3. CASE addr \in WMask[active]
        BY <2>5, <4>1, <4>2, <4>3 DEF TakeWriteData
      <4>4. CASE addr \notin WMask[active]
        BY <2>5, <4>2, <4>4 DEF TakeWriteData
      <4>5. QED
        BY <4>3, <4>4
    <3>3. phase = "WRITE" /\ dma = None
      BY <1>2, <2>5 DEF SpiTake, TakeWriteData, IInv, TypeOK, BurstInv
    <3>4. QED
      BY <1>2, <2>1, <2>5, <3>1, <3>2, <3>3 DEF SpiTake, TakeWriteData, IInv, TypeOK, ThreadInv, BurstInv, lines, thread, master
  <2>6. QED
    BY <1>2, <2>2, <2>3, <2>4, <2>5 DEF SpiTake, b
<1>3. CASE SpiExit
  BY <1>3 DEF SpiExit, IInv, TypeOK, ThreadInv, BurstInv, lines, spi, engine, thread, master
<1>4. QED
  BY <1>1, <1>2, <1>3

(* So does spislave_resolve up to the EXTI clear.                          *)
LEMMA CsIrqInv ==
  ASSUME IInv, CsEnter \/ ResolveRead \/ ResolveFast \/ ResolvePend
  PROVE  IInv'
<1>1. CASE CsEnter
  BY <1>1 DEF CsEnter, IInv, TypeOK, ThreadInv, BurstInv, spi, engine, counts, thread, master
<1>2. CASE ResolveRead
  <2>1. isr' = "fast" => active' = None /\ snap' # {}
    BY <1>2, FS_EmptySet DEF ResolveRead, engine
  <2>2. QED
    BY <1>2, <2>1 DEF ResolveRead, IInv, TypeOK, ThreadInv, BurstInv, lines, spi, engine, counts, thread, master
<1>3. CASE ResolveFast
  <2>1. Lowest(snap) \in Dev /\ Select(Lowest(snap), tx)
    BY <1>3, LowestIn DEF ResolveFast, IInv, TypeOK, BurstInv
  <2>2. tx' \in Seq(Byte \union {Fill})
    BY <2>1, SelectType DEF IInv, TypeOK
  <2>3. QED
    BY <1>3, <2>1, <2>2 DEF ResolveFast, Select, IInv, TypeOK, ThreadInv, BurstInv, counts, thread, master
<1>4. CASE ResolvePend
  BY <1>4 DEF ResolvePend, IInv, TypeOK, ThreadInv, BurstInv, lines, spi, engine, counts, thread, master
<1>5. QED
  BY <1>1, <1>2, <1>3, <1>4

(* And its arbitration: close, keep or open.                               *)
LEMMA ResolveActInv ==
  ASSUME IInv, ResolveAct
  PROVE  IInv'
<1> DEFINE sel == Lowest(snap)
<1>1. sel \in Dev \union {None}
  BY LowestType DEF IInv, TypeOK
<1> HIDE DEF sel
<1>2. CASE ResolveClose
  <2>1. active \in Dev /\ Account(active) /\ Scrub
    BY <1>2 DEF ResolveClose, FrameOver, IInv, TypeOK
  <2>2. tx' \in Seq(Byte \union {Fill}) /\ active' = sel /\ phase' = "CMD"
    <3>1. <<Fill>> \in Seq(Byte \union {Fill})
      OBVIOUS
    <3>2. CASE sel = None
      BY <1>2, <3>1, <3>2 DEF ResolveClose, FrameOver, sel
    <3>3. CASE sel \in Dev
      <4>1. Select(sel, <<Fill>>)
        BY <1>2, <3>3 DEF ResolveClose, FrameOver, sel, Dev, None
      <4>2. QED
        BY <3>1, <3>3, <4>1, SelectType DEF Select
    <3>4. QED
      BY <1>1, <3>2, <3>3
  <2>3. /\ frames' \in [Dev -> Nat]
        /\ hook' \in [dev : Dev \union {None}, cmd : Byte, addr : Reg, len : Int]
        /\ mem' \in [Dev -> [Cell -> Byte]]
    BY <2>1, AccountType
  <2>4. rx' \in Seq(Byte) /\ Len(rx') <= RxDepth
    BY <2>1, SizeAssumption DEF Scrub
  <2>5. TypeOK'
    BY <1>1, <2>1, <2>2, <2>3, <2>4 DEF ResolveAct, Scrub, IInv, TypeOK, thread
  <2>6. ThreadInv' /\ BurstInv'
    BY <2>1, <2>2 DEF ResolveAct, Scrub, IInv, TypeOK, ThreadInv, BurstInv, thread
  <2>7. QED
    BY <2>5, <2>6 DEF IInv
<1>3. CASE ResolveKeep
  BY <1>3 DEF ResolveAct, ResolveKeep, FrameOver, IInv, TypeOK, ThreadInv, BurstInv, thread
<1>4. CASE ResolveOpen
  <2>1. sel \in Dev /\ Select(sel, tx)
    BY <1>1, <1>4 DEF ResolveOpen, sel
  <2>2. tx' \in Seq(Byte \union {Fill})
    BY <2>1, SelectType DEF IInv, TypeOK
  <2>3. QED
    BY <1>4, <2>1, <2>2 DEF ResolveAct, ResolveOpen, Select, IInv, TypeOK, ThreadInv, BurstInv, thread
<1>5. QED
  BY <1>2, <1>3, <1>4 DEF ResolveAct

(* The inductive invariant behind the theorems below: the types, the lock  *)
(* discipline of spidev_commit and the ownership of the TX DMA by the read *)
(* phase (spislave.c, spislave.h), against any master.                     *)
THEOREM InvariantHolds == Spec => []IInv
<1>1. IInv /\ [Next]_vars => IInv'
  <2> SUFFICES ASSUME IInv, [Next]_vars PROVE IInv'
    OBVIOUS
  <2>1. CASE Next
    BY <2>1, MasterInv, DmaInv, ThreadStepInv, SpiIrqInv, CsIrqInv, ResolveActInv DEF Next, Isr
  <2>2. CASE UNCHANGED vars
    BY <2>2 DEF vars, lines, spi, engine, counts, handler, thread, master, IInv, TypeOK, ThreadInv, BurstInv
  <2>3. QED
    BY <2>1, <2>2
<1>2. QED
  BY <1>1, InitInv, PTL DEF Spec

(* In every reachable state every variable is in its type; in particular   *)
(* the TX DMA is never programmed past the memory of a device, for every   *)
(* size, mask and command byte (spislave_irq, source selection).           *)
THEOREM TypeCorrect == Spec => []TypeOK
BY InvariantHolds, PTL DEF IInv

------------------------------------------------------------------------------

(* Settled is a file of cells per device.                                  *)
LEMMA SettledType == TypeOK => Settled \in [Dev -> [Cell -> Byte]]
BY DEF Settled, TypeOK

(* Outside the copy of a commit, Settled is the memory itself.             *)
LEMMA SettledIdle == TypeOK /\ thr # "copy" => Settled = mem
BY DEF Settled, TypeOK

(* Neither the thread nor the memory moved: the visible file is the same.  *)
LEMMA SettledSame ==
  ASSUME UNCHANGED <<mem, thr, tdev, src>>
  PROVE  Settled' = Settled
BY DEF Settled

(* The initial state of the engine is one of the abstract port.            *)
LEMMA PortInit == Init => Port!Init
<1> SUFFICES ASSUME Init PROVE Port!Init
  OBVIOUS
<1>1. Settled \in [Dev -> [Cell -> Byte]]
  BY InitInv, SettledType DEF IInv
<1>2. QED
  BY <1>1 DEF Init, Port!Init

(* An edge is a stutter of the port, a clocked byte a Shift.               *)
LEMMA MasterPort ==
  ASSUME IInv, Master
  PROVE  [Port!Next]_(Port!vars)
<1>1. Settled' = Settled /\ dma' = dma /\ mar' = mar
  BY SettledSame DEF Master, CsFall, CsRise, ClockByte, spi, thread
<1>2. CASE tx' = tx
  BY <1>1, <1>2 DEF Port!vars
<1>3. CASE tx' # tx
  <2>1. tx # <<>> /\ tx' = Tail(tx)
    BY <1>3 DEF Master, CsFall, CsRise, ClockByte, spi
  <2>2. QED
    BY <1>1, <2>1 DEF Port!Shift, Port!Next
<1>4. QED
  BY <1>2, <1>3

(* A DMA fetch is a Ship: it never reads a half-copied cell.               *)
LEMMA DmaPort ==
  ASSUME IInv, DmaFetch
  PROVE  Port!Next
<1>1. dma \in Dev /\ mar \in Cell
  BY SizeAssumption DEF IInv, TypeOK, DmaFetch, Cell
<1>2. thr = "copy" => dma # tdev
  BY <1>1 DEF IInv, TypeOK, ThreadInv, BurstInv, None, Dev
<1>3. Settled[dma][mar] = mem[dma][mar]
  BY <1>1, <1>2 DEF Settled
<1>4. Settled' = Settled
  BY SettledSame DEF DmaFetch, thread
<1>5. Port!Ship
  BY <1>1, <1>3, <1>4 DEF DmaFetch, Port!Ship
<1>6. QED
  BY <1>5 DEF Port!Next

(* Filling n slots behind what is queued.                                  *)
LEMMA CoverLength ==
  ASSUME NEW q \in Seq(Byte \union {Fill}), NEW n \in Nat
  PROVE  /\ Len(q \o [i \in 1 .. n |-> Fill]) = Len(q) + n
         /\ n \in 0 .. Len(q \o [i \in 1 .. n |-> Fill])
<1>1. [i \in 1 .. n |-> Fill] \in Seq(Byte \union {Fill}) /\ Len([i \in 1 .. n |-> Fill]) = n
  OBVIOUS
<1>2. QED
  BY <1>1

(* A resync is a Reset, and a Cover when the SPI is enabled again.         *)
LEMMA ResyncPort ==
  ASSUME IInv, IInv', ResyncBegin \/ ResyncEnd
  PROVE  Port!Reset \/ Port!Cover
<1>1. CASE ResyncBegin
  <2>1. Settled' \in [Dev -> [Cell -> Byte]]
    BY SMTT(30) DEF Settled, IInv, TypeOK
  <2>2. QED
    BY <1>1, <2>1 DEF ResyncBegin, Port!Reset
<1>2. CASE ResyncEnd
  <2>1. dma = None /\ UNCHANGED <<dma, mar>>
    BY <1>2 DEF ResyncEnd, IInv, ThreadInv, BurstInv
  <2>2. Settled' = Settled
    BY <1>2, SettledIdle DEF ResyncEnd, Settled, IInv, TypeOK
  <2>3. tx' = tx \o [i \in 1 .. 1 |-> Fill] /\ 1 \in 0 .. Len(tx')
    <3>1. <<Fill>> = [i \in 1 .. 1 |-> Fill]
      OBVIOUS
    <3>2. QED
      BY <1>2, <3>1, CoverLength DEF ResyncEnd, IInv, TypeOK
  <2>4. QED
    BY <2>1, <2>2, <2>3 DEF Port!Cover
<1>3. QED
  BY <1>1, <1>2

(* A commit is a Sample when its copy begins, the rest stutters.           *)
LEMMA ThreadPort ==
  ASSUME IInv, IInv', Thread
  PROVE  [Port!Next]_(Port!vars)
<1>0. CASE ResyncBegin \/ ResyncEnd
  BY <1>0, ResyncPort DEF Port!Next
<1> SUFFICES ASSUME ~(ResyncBegin \/ ResyncEnd) PROVE [Port!Next]_(Port!vars)
  BY <1>0
<1>1. UNCHANGED <<dma, mar, tx>>
  BY DEF Thread, IrqLock, CommitCheck, CommitCopy, IrqUnlock, spi
<1>2. ASSUME Settled' = Settled PROVE UNCHANGED Port!vars
  BY <1>1, <1>2 DEF Port!vars
<1>3. ASSUME NEW d \in Dev, NEW s \in Samples[d], IrqLock(d, s) PROVE Settled' = Settled
  <2>1. thr # "copy" /\ thr' # "copy" /\ mem' = mem
    BY <1>3 DEF IrqLock
  <2>2. QED
    BY <2>1, SettledIdle DEF IInv, Settled
<1>4. CASE CommitCheck
  <2>1. CASE active = tdev
    <3>1. thr # "copy" /\ thr' # "copy" /\ mem' = mem
      BY <1>4, <2>1 DEF CommitCheck
    <3>2. QED
      BY <1>2, <3>1 DEF Settled
  <2>2. CASE active # tdev
    <3>1. tdev \in Dev /\ dma # tdev
      <4>1. tdev \in Dev
        BY <1>4 DEF CommitCheck, IInv, ThreadInv
      <4>2. dma = None \/ dma = active
        BY DEF IInv, BurstInv
      <4>3. None \notin Dev
        BY DEF None, Dev
      <4>4. QED
        BY <2>2, <4>1, <4>2, <4>3
    <3>2. Settled' \in [Dev -> [Cell -> Byte]]
      BY SMTT(30) DEF Settled, IInv, TypeOK
    <3>3. \A e \in Dev \ {tdev} : Settled'[e] = Settled[e]
      BY <1>4 DEF CommitCheck, Settled
    <3>4. Port!Sample(tdev)
      BY <1>1, <3>1, <3>2, <3>3 DEF Port!Sample
    <3>5. QED
      BY <3>1, <3>4 DEF Port!Next
  <2>3. QED
    BY <2>1, <2>2
<1>5. CASE CommitCopy
  <2>1. tdev \in Dev /\ mem \in [Dev -> [Cell -> Byte]]
    BY <1>5 DEF CommitCopy, IInv, TypeOK, ThreadInv
  <2>2. PICK c \in DOMAIN src :
           /\ mem' = [mem EXCEPT ![tdev][c] = src[c]]
           /\ src' = [x \in DOMAIN src \ {c} |-> src[x]]
    BY <1>5 DEF CommitCopy
  <2>3. thr = "copy" /\ thr' = "copy" /\ tdev' = tdev
    BY <1>5 DEF CommitCopy
  <2>4. DOMAIN src' = DOMAIN src \ {c} /\ \A x \in DOMAIN src \ {c} : src'[x] = src[x]
    BY <2>2
  <2>5. \A d \in Dev, x \in Cell : mem'[d][x] = IF d = tdev /\ x = c THEN src[c] ELSE mem[d][x]
    BY <2>1, <2>2
  <2>6. Settled' = Settled
    BY <2>3, <2>4, <2>5 DEF Settled
  <2>7. QED
    BY <1>2, <2>6
<1>6. CASE IrqUnlock
  <2>1. thr' # "copy" /\ mem' = mem /\ DOMAIN src = {}
    BY <1>6 DEF IrqUnlock
  <2>2. QED
    BY <1>2, <2>1 DEF Settled
<1>7. QED
  BY <1>2, <1>3, <1>4, <1>5, <1>6 DEF Thread

(* A byte taken by spislave_irq is a BurstBegin, a Store or a stutter.     *)
LEMMA TakePort ==
  ASSUME IInv, IInv', SpiTake
  PROVE  [Port!Next]_(Port!vars)
<1> DEFINE b == Head(rx)
<1>1. b \in Byte /\ AddrOf(b) \in Reg
  <2>1. rx \in Seq(Byte) /\ rx # <<>>
    BY DEF SpiTake, IInv, TypeOK
  <2>2. b \in Byte
    BY <2>1
  <2>3. QED
    BY <2>2, CommandTypes
<1> HIDE DEF b
<1>2. tx' = tx /\ thr = "idle" /\ thr' = "idle" /\ UNCHANGED <<tdev, src>>
  BY DEF SpiTake, IInv, TypeOK, ThreadInv, thread
<1>3. Settled = mem /\ Settled' = mem'
  BY <1>2, SettledIdle DEF IInv, Settled, TypeOK
<1>4. CASE TakeStray \/ TakeWriteCommand(b)
  BY <1>2, <1>3, <1>4 DEF TakeStray, TakeWriteCommand, Port!vars
<1>5. CASE TakeReadCommand(b)
  <2>1. active \in Dev /\ dma = None
    BY <1>5 DEF TakeReadCommand, IInv, TypeOK, BurstInv
  <2>2. mar' \in Cell
    BY <1>1, <1>5, <2>1, SourceInMemory DEF TakeReadCommand
  <2>3. Port!BurstBegin(active)
    BY <1>2, <1>3, <1>5, <2>1, <2>2 DEF TakeReadCommand, Port!BurstBegin
  <2>4. QED
    BY <2>1, <2>3 DEF Port!Next
<1>6. CASE TakeWriteData(b)
  <2>1. active \in Dev /\ dma = None /\ active # dma
    BY <1>6 DEF SpiTake, TakeWriteData, IInv, TypeOK, BurstInv
  <2>2. UNCHANGED <<dma, mar>>
    BY <1>6 DEF TakeWriteData
  <2>3. CASE addr \in WMask[active]
    <3>1. Port!Store(active)
      BY <1>1, <1>2, <1>3, <1>6, <2>1, <2>2, <2>3 DEF TakeWriteData, Port!Store
    <3>2. QED
      BY <2>1, <3>1 DEF Port!Next
  <2>4. CASE addr \notin WMask[active]
    BY <1>2, <1>3, <1>6, <2>2, <2>4 DEF TakeWriteData, Port!vars
  <2>5. QED
    BY <2>3, <2>4
<1>7. QED
  BY <1>4, <1>5, <1>6 DEF SpiTake, b

(* The fill left by the scrub and n dummies after it are n + 1 fills.      *)
LEMMA FillConcat ==
  ASSUME NEW n \in Nat
  PROVE  <<Fill>> \o [i \in 1 .. n |-> Fill] = [i \in 1 .. n + 1 |-> Fill]
OBVIOUS

(* Opening a frame is a Cover: dummies never enter a burst.                *)
LEMMA OpenPort ==
  ASSUME IInv, NEW sel \in Dev, Select(sel, tx), active = None,
         UNCHANGED <<dma, mar, mem>>, UNCHANGED thread
  PROVE  Port!Next
<1>1. dma = None /\ Settled' = Settled
  BY SettledSame DEF IInv, TypeOK, BurstInv, thread
<1>2. tx' = tx \o [i \in 1 .. Dummy[sel] |-> Fill] /\ Dummy[sel] \in 0 .. Len(tx')
  BY CoverLength, DeviceAssumption DEF Select, IInv, TypeOK
<1>3. Port!Cover
  BY <1>1, <1>2 DEF Port!Cover
<1>4. QED
  BY <1>3 DEF Port!Next

(* Closing a frame, with the next one opened at once, is a FrameEnd.       *)
LEMMA ClosePort ==
  ASSUME IInv, IInv', ResolveAct, ResolveClose
  PROVE  Port!Next
<1>1. active \in Dev /\ Account(active) /\ Scrub
  BY DEF ResolveClose, FrameOver, IInv, TypeOK
<1>2. dma \in {None, active} /\ dma' = None /\ mar' = mar
  BY <1>1 DEF Scrub, IInv, TypeOK, BurstInv
<1>3. Settled = mem /\ Settled' = mem'
  <2>1. thr = "idle" /\ thr' = "idle"
    BY DEF ResolveAct, IInv, TypeOK, ThreadInv, thread
  <2>2. QED
    BY <2>1, SettledIdle DEF IInv, Settled, TypeOK
<1>4. \E n \in 0 .. Len(tx') : tx' = [i \in 1 .. n |-> Fill]
  <2> DEFINE sel == Lowest(snap)
  <2>1. CASE sel = None
    <3>1. tx' = [i \in 1 .. 1 |-> Fill] /\ Len(tx') = 1
      BY <2>1 DEF ResolveClose, FrameOver
    <3>2. QED
      BY <3>1
  <2>2. CASE sel # None
    <3>1. sel \in Dev /\ Dummy[sel] \in Nat
      BY <2>2, LowestType, DeviceAssumption DEF IInv, TypeOK
    <3>2. tx' = <<Fill>> \o [i \in 1 .. Dummy[sel] |-> Fill]
      BY <2>2 DEF ResolveClose, FrameOver, Select
    <3>3. tx' = [i \in 1 .. Dummy[sel] + 1 |-> Fill] /\ Len(tx') = Dummy[sel] + 1
      <4>1. tx' = [i \in 1 .. Dummy[sel] + 1 |-> Fill]
        BY <3>1, <3>2, FillConcat
      <4>2. DOMAIN tx' = 1 .. Dummy[sel] + 1
        BY <4>1
      <4>3. Len(tx') = Dummy[sel] + 1
        <5>1. tx' \in Seq(Byte \union {Fill})
          BY DEF IInv, TypeOK
        <5>2. QED
          BY <3>1, <4>2, <5>1
      <4>4. QED
        BY <4>1, <4>3
    <3>4. QED
      BY <3>1, <3>3
  <2>3. QED
    BY <2>1, <2>2
<1>5. \E C \in SUBSET Cell :
         mem' = [mem EXCEPT ![active] = [c \in Cell |-> IF c \in C THEN 0 ELSE @[c]]]
  <2> DEFINE K == Cleared(active, cmd, addr0, FrameLen)
  <2>1. mem' = [mem EXCEPT ![active] = [c \in Cell |-> IF c \in K THEN 0 ELSE @[c]]]
    BY <1>1 DEF Account
  <2> HIDE DEF K
  <2>2. mem' = [mem EXCEPT ![active] = [c \in Cell |-> IF c \in K \cap Cell THEN 0 ELSE @[c]]]
    BY <2>1
  <2>3. QED
    BY <2>2
<1>6. Port!FrameEnd(active)
  BY <1>2, <1>3, <1>4, <1>5 DEF Port!FrameEnd
<1>7. QED
  BY <1>1, <1>6 DEF Port!Next

(* Every step of a handler is a step of the port or a stutter.             *)
LEMMA IsrPort ==
  ASSUME IInv, IInv', Isr
  PROVE  [Port!Next]_(Port!vars)
<1>1. CASE SpiEnter \/ SpiExit \/ CsEnter \/ ResolveRead \/ ResolvePend
  <2>1. UNCHANGED <<mem, thr, tdev, src, dma, mar, tx>>
    BY <1>1 DEF SpiEnter, SpiExit, CsEnter, ResolveRead, ResolvePend, spi, thread
  <2>2. QED
    BY <2>1, SettledSame DEF Port!vars
<1>2. CASE SpiTake
  BY <1>2, TakePort
<1>3. CASE ResolveFast
  <2>1. Lowest(snap) \in Dev /\ Select(Lowest(snap), tx) /\ active = None
    BY <1>3, LowestIn DEF ResolveFast, IInv, TypeOK, BurstInv
  <2>2. QED
    BY <1>3, <2>1, OpenPort DEF ResolveFast
<1>4. CASE ResolveAct
  <2>1. CASE ResolveClose
    BY <1>4, <2>1, ClosePort
  <2>2. CASE ResolveKeep
    <3>1. UNCHANGED <<mem, thr, tdev, src, dma, mar, tx>>
      BY <1>4, <2>2 DEF ResolveAct, ResolveKeep, FrameOver, thread
    <3>2. QED
      BY <3>1, SettledSame DEF Port!vars
  <2>3. CASE ResolveOpen
    <3>1. Lowest(snap) \in Dev
      BY <2>3, LowestType DEF ResolveOpen, IInv, TypeOK
    <3>2. QED
      BY <1>4, <2>3, <3>1, OpenPort DEF ResolveAct, ResolveOpen
  <2>4. QED
    BY <1>4, <2>1, <2>2, <2>3 DEF ResolveAct
<1>5. QED
  BY <1>1, <1>2, <1>3, <1>4 DEF Isr

(* The engine implements RegisterPort: whatever the master and the select  *)
(* lines do, no read burst observes a half-committed sample, a sample only *)
(* half a burst, or a cell outside its device (spislave.h, "Register-file  *)
(* integrity").                                                            *)
THEOREM PortRefined == Spec => PortSafe
<1>1. IInv /\ IInv' /\ [Next]_vars => [Port!Next]_(Port!vars)
  <2> SUFFICES ASSUME IInv, IInv', [Next]_vars PROVE [Port!Next]_(Port!vars)
    OBVIOUS
  <2>1. CASE Isr
    BY <2>1, IsrPort
  <2>2. CASE Thread
    BY <2>2, ThreadPort
  <2>3. CASE Master
    BY <2>3, MasterPort
  <2>4. CASE DmaFetch
    BY <2>4, DmaPort
  <2>5. CASE UNCHANGED vars
    BY <2>5, SettledSame DEF vars, spi, thread, Port!vars
  <2>6. QED
    BY <2>1, <2>2, <2>3, <2>4, <2>5 DEF Next
<1>2. QED
  BY <1>1, PortInit, InvariantHolds, PTL DEF Spec, PortSafe

------------------------------------------------------------------------------
(* The master keeps the Promises.  Three parts: LinesInv ties the served   *)
(* device to the select lines and to the edges the engine has still to     *)
(* look at, FrameInv ties what the engine holds to the bytes of the frame, *)
(* IInv types both.                                                        *)

(* At most one select is asserted.  What the resolve read of the pins      *)
(* stands when it acts on it unless an edge came since; that edge has left *)
(* a vector or, alone of all edges, is lost.                               *)
ReadInv ==
  /\ \A d, e \in low : d = e
  /\ \A d, e \in snap : d = e
  /\ Committed /\ nvic = {} /\ ~lost => low = snap
  /\ lost => nvic = {} /\ (Committed \/ (pr = {} /\ isr # "resolve"))
  /\ isr = "check" => phase = "READ"
  /\ thr = "resync" => active = None /\ rx = <<>> /\ ~skew

(* With no edge left to look at, and none lost, the served device is the   *)
(* selected one; a resync, which clears the vectors, keeps the edges.      *)
FollowInv ==
  /\ pr = {} /\ (nvic = {} \/ thr = "resync") /\ isr \in {"none", "spi", "check"}
  /\ ~lost /\ heal # "cut"
  => active = Lowest(low)

(* A byte is only clocked with every interrupt served, and one clocked     *)
(* after a lost edge cuts the frame.                                       *)
ClockInv ==
  /\ low = {} => sent = <<>>
  /\ sent \in Seq(Byte) /\ miso \in Seq(Byte \union {Fill, Stale})
  /\ low # {} => Len(miso) = Len(sent)
  /\ sent # <<>> /\ heal # "cut" =>
       pr = {} /\ nvic = {} /\ ~lost /\ isr \in {"none", "spi", "check"}

(* A frame the master has ended is the one of the served device, whose own *)
(* edge is still pending and is among those a resolve has read.            *)
DueInv ==
  due # <<>> =>
    /\ due = <<[dev |-> active, bytes |-> due[1].bytes]>>
    /\ due[1].bytes \in Seq(Byte) /\ due[1].bytes # <<>>
    /\ active # None /\ active \in pr
    /\ isr = "clear" => active \in pend
    /\ isr \in {"resolve", "pend", "clear"} => rx = <<>> \/ phase = "READ"

(* The engine is in a frame, whole from its first byte, and has not seen   *)
(* an edge of the device.                                                  *)
InFrame ==
  heal = "whole" /\ active # None /\ (active \notin pr \/ (isr = "clear" /\ active \notin pend))

(* If the lines are no longer those it has read, or no longer select the   *)
(* device it serves, then no byte was clocked.                             *)
MissInv ==
  heal = "whole" =>
    /\ Committed /\ low # snap => miso = <<>>
    /\ InFrame /\ low # {active} => sent = <<>> /\ miso = <<>>

LinesInv == ReadInv /\ FollowInv /\ ClockInv /\ DueInv /\ MissInv

(* Between frames the SPI holds nothing but the fill for a command.        *)
IdleInv ==
  heal = "whole" /\ active = None =>
    /\ rx = <<>> /\ ~skew
    /\ tx = IF thr = "resync" THEN <<>> ELSE <<Fill>>

(* The slots of a read burst, command and dummies first.                   *)
Slot(k) ==
  LET s == Source(active, addr0)
      j == k - 2 - Dummy[active]
  IN  IF j < 0 THEN Fill
      ELSE IF j < s.n THEN mem[active][s.base + j] ELSE Stale

(* The register the k-th byte of the write frame f is for.                 *)
Target(f, k) == (AddrOf(f[1]) + k - 2) % NReg

Commanded(f) == f # <<>> /\ cmd = f[1] /\ addr0 = AddrOf(f[1])

(* What the engine has made of the bytes f clocked in its frame so far:    *)
(* nothing yet,                                                            *)
CmdPhase(f) ==
  /\ rx = f /\ Len(f) <= 1
  /\ tx = [i \in 1 .. 1 + Dummy[active] - Len(f) |-> Fill]

(* a burst whose slots were queued on time,                                *)
ReadPhase(f) ==
  LET s == Source(active, addr0)
      queued == 1 + Dummy[active] + (s.n - ndtr)
  IN  /\ Commanded(f) /\ IsRead(f[1])
      /\ ndtr0 = s.n /\ ndtr <= s.n /\ mar + ndtr = s.base + s.n
      /\ queued <= Len(f) + Len(tx)
      /\ tx # <<>> \/ ndtr > 0 => queued = Len(f) + Len(tx)
      /\ ndtr < s.n => Len(tx) <= TxDepth

(* or a write, of which the last byte taken for each register has landed.  *)
WritePhase(f) ==
  LET m == Len(f) - Len(rx)
  IN  /\ Commanded(f) /\ ~IsRead(f[1])
      /\ 1 <= m /\ \A i \in 1 .. Len(rx) : rx[i] = f[m + i]
      /\ addr = (addr0 + m - 1) % NReg
      /\ \A k \in 2 .. m :
           /\ Target(f, k) \in WMask[active]
           /\ \A l \in k + 1 .. m : Target(f, l) # Target(f, k)
           => mem[active][Target(f, k)] = f[k]

Received(f) ==
  /\ phase = "CMD" => CmdPhase(f)
  /\ phase = "READ" => ReadPhase(f)
  /\ phase = "WRITE" => WritePhase(f)

(* What the master has received in the frame, and is about to.             *)
Shipped ==
  phase # "WRITE" =>
    /\ \A k \in 1 .. Len(miso) : miso[k] = Slot(k)
    /\ \A k \in Len(miso) + 1 .. Len(miso) + Len(tx) : tx[k - Len(miso)] = Slot(k)

FrameInv ==
  /\ IdleInv
  /\ InFrame => ~skew /\ Shipped
  /\ \A f \in Seq(Byte) :
       (InFrame /\ f = sent) \/ (due # <<>> /\ f = due[1].bytes) => Received(f)

(* With one select at most, the arbitration names it.                      *)
LEMMA LowestOnly ==
  ASSUME NEW S \in SUBSET Dev, \A d, e \in S : d = e
  PROVE  /\ Lowest(S) = None => S = {}
         /\ Lowest(S) # None => S = {Lowest(S)}
         /\ S = {} => Lowest(S) = None
<1>1. CASE S = {}
  BY <1>1 DEF Lowest
<1>2. CASE S # {}
  <2>1. Lowest(S) \in S
    BY <1>2, LowestIn
  <2>2. Lowest(S) # None
    BY <2>1 DEF Dev, None
  <2>3. QED
    BY <1>2, <2>1, <2>2
<1>3. QED
  BY <1>1, <1>2

(* At most one select each: the same arbitration means the same lines.     *)
LEMMA LowestSame ==
  ASSUME NEW S \in SUBSET Dev, NEW R \in SUBSET Dev,
         \A d, e \in S : d = e, \A d, e \in R : d = e, Lowest(S) = Lowest(R)
  PROVE  S = R
BY LowestOnly

(* The engine follows the lines when it has nothing left to look at.       *)
LEMMA Followed ==
  ASSUME IInv, LinesInv, pr = {}, nvic = {}, isr \in {"none", "spi", "check"},
         ~lost, heal # "cut", low # {}
  PROVE  active \in Dev /\ active # None /\ low = {active}
<1>1. low \in SUBSET Dev /\ \A d, e \in low : d = e
  BY DEF LinesInv, ReadInv, IInv, TypeOK
<1>2. active = Lowest(low)
  BY DEF LinesInv, FollowInv
<1>3. Lowest(low) \in low
  BY <1>1, LowestIn
<1>4. active \in Dev /\ low = {active}
  BY <1>1, <1>2, <1>3
<1>5. None \notin Dev
  BY DEF Dev, None
<1>6. QED
  BY <1>4, <1>5

(* The master has received a byte for every byte of the frame.             *)
LEMMA FrameLength ==
  ASSUME LinesInv, InFrame
  PROVE  sent \in Seq(Byte) /\ Len(miso) = Len(sent)
<1>1. CASE low = {active}
  BY <1>1 DEF LinesInv, ClockInv
<1>2. CASE low # {active}
  BY <1>2 DEF LinesInv, ClockInv, MissInv, InFrame
<1>3. QED
  BY <1>1, <1>2

(* spislave_init has no frame and no work.                                 *)
LEMMA InitLines == Init => LinesInv
BY DEF Init, LinesInv, ReadInv, FollowInv, ClockInv, DueInv, MissInv, InFrame, Committed, Lowest

(* An edge leaves the lines as they were read, or a vector, or is lost.    *)
LEMMA EdgeRead ==
  ASSUME "oneSelect" \in Assume, IInv, LinesInv, NEW d \in Dev, CsFall(d) \/ CsRise(d)
  PROVE  ReadInv'
<1>1. /\ low' \subseteq {d} /\ low' \in SUBSET Dev
      /\ lost' = Overlooked /\ UNCHANGED <<spi, engine, handler, thread>>
  BY DEF CsFall, CsRise, LinesInv, ReadInv, IInv, TypeOK
<1>2. Committed' = Committed /\ snap \in SUBSET Dev
  BY <1>1 DEF Committed, handler, IInv, TypeOK
<1>3. Committed /\ nvic' = {} /\ ~lost' => low' = snap
  <2>1. SUFFICES ASSUME Committed, nvic' = {}, ~lost' PROVE low' = snap
    OBVIOUS
  <2>2. Lowest(low') = Lowest(snap)
    BY <1>1, <2>1 DEF Overlooked
  <2>3. (\A c, e \in low' : c = e) /\ (\A c, e \in snap : c = e)
    BY <1>1 DEF LinesInv, ReadInv
  <2>4. QED
    BY <1>1, <1>2, <2>2, <2>3, LowestSame
<1>4. lost' => Committed /\ nvic' = {}
  BY <1>1 DEF Overlooked
<1>5. UNCHANGED <<snap, isr, phase, thr, active, rx, skew>>
  BY <1>1 DEF handler, engine, thread, spi
<1>6. QED
  BY <1>1, <1>2, <1>3, <1>4, <1>5 DEF LinesInv, ReadInv

(* The master keeps it: an edge of its frame comes with the frame's own    *)
(* device served, a byte with nothing unserved.                            *)
LEMMA MasterLines ==
  ASSUME Promises \subseteq Assume, IInv, LinesInv, Master
  PROVE  LinesInv'
<1>0. "prompt" \in Assume /\ "oneSelect" \in Assume
  BY DEF Promises
<1>1. ASSUME NEW d \in Dev, CsFall(d) PROVE LinesInv'
  <2>1. /\ low = {} /\ low' = {d} /\ pr' = pr \union {d} /\ sent' = <<>> /\ miso' = <<>>
        /\ UNCHANGED <<spi, engine, handler, thread, due, heal>>
    BY <1>0, <1>1 DEF CsFall, Edge
  <2>2. ReadInv'
    BY <1>0, <1>1, EdgeRead
  <2>3. FollowInv' /\ ClockInv' /\ DueInv' /\ MissInv'
    BY <2>1 DEF LinesInv, FollowInv, ClockInv, DueInv, MissInv, spi, engine, handler, thread
  <2>4. QED
    BY <2>2, <2>3 DEF LinesInv
<1>2. ASSUME NEW d \in Dev, CsRise(d) PROVE LinesInv'
  <2>1. /\ low = {d} /\ low' = {} /\ pr' = pr \union {d} /\ sent' = <<>> /\ miso' = miso
        /\ heal' = CASE heal = "cut" -> "after"
                     [] heal = "after" /\ sent # <<>> -> "whole"
                     [] OTHER -> heal
        /\ UNCHANGED <<spi, engine, handler, thread>>
    BY <1>2 DEF CsRise, Edge, LinesInv, ReadInv
  <2>2. ReadInv'
    BY <1>0, <1>2, EdgeRead
  <2>3. FollowInv' /\ ClockInv'
    BY <2>1 DEF LinesInv, FollowInv, ClockInv, spi, engine, handler, thread
  <2>4. sent # <<>> /\ heal # "cut" => active = d /\ active # None /\ due = <<>>
    <3>1. SUFFICES ASSUME sent # <<>>, heal # "cut" PROVE active = d /\ active # None /\ due = <<>>
      OBVIOUS
    <3>2. pr = {} /\ nvic = {} /\ ~lost /\ isr \in {"none", "spi", "check"}
      BY <3>1 DEF LinesInv, ClockInv
    <3>3. active # None /\ low = {active}
      BY <2>1, <3>1, <3>2, Followed
    <3>4. QED
      BY <2>1, <3>2, <3>3 DEF LinesInv, DueInv
  <2>5. DueInv'
    <3>1. CASE sent = <<>> \/ heal # "whole"
      <4>1. due' = due
        BY <1>2, <3>1 DEF CsRise
      <4>2. QED
        BY <2>1, <4>1 DEF LinesInv, DueInv, spi, engine, handler
    <3>2. CASE sent # <<>> /\ heal = "whole"
      <4>1. due' = <<[dev |-> d, bytes |-> sent]>>
        BY <1>2, <2>4, <3>2 DEF CsRise
      <4>2. /\ due' = <<[dev |-> active, bytes |-> due'[1].bytes]>>
            /\ due'[1].bytes = sent
        BY <2>4, <3>2, <4>1
      <4>3. isr \in {"none", "spi", "check"} /\ sent \in Seq(Byte)
        BY <3>2 DEF LinesInv, ClockInv
      <4>4. QED
        BY <2>1, <2>4, <3>2, <4>2, <4>3 DEF DueInv, engine, handler
    <3>3. QED
      BY <3>1, <3>2
  <2>6. MissInv'
    <3>1. SUFFICES ASSUME heal' = "whole",
                          Committed \/ (InFrame' /\ low' # {active})
                   PROVE  miso = <<>>
      BY <2>1 DEF MissInv, Committed, engine, handler
    <3>2. heal = "whole" \/ (heal = "after" /\ sent # <<>>)
      BY <2>1, <3>1 DEF IInv, TypeOK
    <3>3. CASE Committed
      <4>1. sent = <<>> /\ Len(miso) = Len(sent) /\ miso \in Seq(Byte \union {Fill, Stale})
        BY <2>1, <3>2, <3>3 DEF LinesInv, ClockInv, Committed
      <4>2. QED
        BY <4>1
    <3>4. CASE InFrame' /\ ~Committed
      <4>1. active # None /\ active # d /\ active \notin pr
        BY <2>1, <3>4 DEF InFrame, Committed, engine, handler
      <4>2. heal = "whole" /\ InFrame /\ low # {active}
        BY <2>1, <2>4, <3>2, <4>1 DEF InFrame
      <4>3. QED
        BY <4>2 DEF LinesInv, MissInv
    <3>5. QED
      BY <3>1, <3>3, <3>4
  <2>7. QED
    BY <2>2, <2>3, <2>5, <2>6 DEF LinesInv
<1>3. ASSUME NEW b \in MasterBytes, ClockByte(b) PROVE LinesInv'
  <2>0. b \in Byte
    BY InputAssumption
  <2>1. /\ low # {} /\ sent' = Append(sent, b) /\ sent' \in Seq(Byte) /\ sent' # <<>>
        /\ UNCHANGED <<lines, skew, engine, handler, thread, due, lost>>
    BY <1>3, <2>0 DEF ClockByte, LinesInv, ClockInv
  <2>2. miso' \in Seq(Byte \union {Fill, Stale})
    <3>1. tx # <<>> => Head(tx) \in Byte \union {Fill}
      BY DEF IInv, TypeOK
    <3>2. (IF tx = <<>> THEN Stale ELSE Head(tx)) \in Byte \union {Fill, Stale}
      BY <3>1
    <3>3. QED
      BY <1>3, <3>2 DEF ClockByte, LinesInv, ClockInv
  <2>3. Len(miso') = Len(sent')
    <3>1. Len(miso) = Len(sent)
      BY <2>1 DEF LinesInv, ClockInv
    <3>2. QED
      BY <1>3, <3>1 DEF ClockByte, LinesInv, ClockInv
  <2>4. thr = "resync" => rx' = rx /\ active = None
    BY <1>3 DEF ClockByte, LinesInv, ReadInv
  <2>5. thr # "resync" => pr = {} /\ nvic = {} /\ isr \in {"none", "spi", "check"}
    BY <1>0, <1>3 DEF ClockByte, Served
  <2>6. due = <<>>
    BY <2>4, <2>5 DEF LinesInv, DueInv
  <2>7. ReadInv'
    BY <2>1, <2>4 DEF LinesInv, ReadInv, Committed, lines, engine, handler, thread
  <2>8. CASE thr = "resync" \/ lost
    <3>1. heal' = "cut"
      BY <1>3, <2>8 DEF ClockByte
    <3>2. QED
      BY <2>1, <2>2, <2>3, <2>6, <2>7, <3>1 DEF LinesInv, FollowInv, ClockInv, DueInv, MissInv, lines
  <2>9. CASE thr # "resync" /\ ~lost
    <3>1. heal' = heal
      BY <1>3, <2>9 DEF ClockByte
    <3>2. heal # "cut" => low = {active}
      BY <2>1, <2>5, <2>9, Followed
    <3>3. MissInv'
      BY <2>1, <2>5, <2>9, <3>1, <3>2 DEF MissInv, Committed, lines, engine, handler
    <3>4. QED
      BY <2>1, <2>2, <2>3, <2>5, <2>6, <2>7, <2>9, <3>1, <3>3
      DEF LinesInv, FollowInv, ClockInv, DueInv, lines, engine, handler, thread
  <2>10. QED
    BY <2>8, <2>9
<1>4. QED
  BY <1>1, <1>2, <1>3 DEF Master

(* So do the thread, a resync included, and the DMA.                       *)
LEMMA ThreadLines ==
  ASSUME IInv, LinesInv, Thread \/ DmaFetch
  PROVE  LinesInv'
<1>1. CASE DmaFetch \/ (Thread /\ ~ResyncBegin /\ ~ResyncEnd)
  <2>1. /\ UNCHANGED <<lines, rx, skew, engine, handler, master>>
        /\ thr' = thr \/ thr' # "resync"
    BY <1>1 DEF DmaFetch, Thread, IrqLock, CommitCheck, CommitCopy, IrqUnlock, spi, thread
  <2>2. QED
    BY <2>1 DEF LinesInv, ReadInv, FollowInv, ClockInv, DueInv, MissInv, InFrame, Committed,
                lines, engine, handler, master
<1>2. CASE ResyncBegin
  <2>1. /\ isr = "none" /\ active' = None /\ phase' = "CMD" /\ rx' = <<>> /\ skew' = FALSE /\ due' = <<>>
        /\ heal' = IF low # {} /\ (sent # <<>> \/ low \cap pr = {}) THEN "cut" ELSE "whole"
        /\ lost' = FALSE
        /\ UNCHANGED <<lines, handler, sent, miso>>
    BY <1>2 DEF ResyncBegin
  <2>2. FollowInv' /\ MissInv'
    <3>1. pr = {} /\ heal' # "cut" => low = {}
      BY <2>1
    <3>2. Lowest({}) = None
      BY DEF Lowest
    <3>3. QED
      BY <2>1, <3>1, <3>2 DEF FollowInv, MissInv, InFrame, Committed, lines, handler
  <2>3. ReadInv' /\ ClockInv' /\ DueInv'
    BY <2>1 DEF LinesInv, ReadInv, ClockInv, DueInv, Committed, lines, handler
  <2>4. QED
    BY <2>2, <2>3 DEF LinesInv
<1>3. CASE ResyncEnd
  <2>1. /\ thr = "resync" /\ thr' = "idle" /\ isr = "none" /\ nvic' = pr
        /\ UNCHANGED <<low, pr, rx, engine, handler, sent, miso, due, lost>>
        /\ heal' = heal \/ heal' = "cut"
    BY <1>3 DEF ResyncEnd, IInv, ThreadInv
  <2>2. active = None
    BY <2>1 DEF LinesInv, ReadInv
  <2>3. QED
    BY <2>1, <2>2 DEF LinesInv, ReadInv, FollowInv, ClockInv, DueInv, MissInv, InFrame, Committed, engine, handler
<1>4. QED
  BY <1>1, <1>2, <1>3 DEF Thread

(* So does the RXNE handler: what it leaves to spislave_resolve, an ended  *)
(* frame, has no byte left to take.                                        *)
LEMMA SpiIrqLines ==
  ASSUME IInv, LinesInv, SpiEnter \/ SpiTake \/ SpiExit
  PROVE  LinesInv'
<1>0. thr = "idle" \/ SpiEnter
  BY DEF SpiTake, SpiExit, IInv, TypeOK, ThreadInv
<1>1. CASE SpiEnter
  BY <1>1 DEF SpiEnter, LinesInv, ReadInv, FollowInv, ClockInv, DueInv, MissInv, InFrame, Committed,
              lines, spi, engine, thread, master
<1>2. CASE SpiTake
  <2>1. /\ isr = "spi" /\ active' = active
        /\ isr' = "spi" \/ (isr' = "check" /\ phase' = "READ")
        /\ UNCHANGED <<lines, skew, snap, pend, thread, master>>
    BY <1>2 DEF SpiTake, TakeStray, TakeReadCommand, TakeWriteCommand, TakeWriteData, engine
  <2>2. thr # "resync"
    BY <1>0, <2>1 DEF SpiEnter
  <2>3. QED
    BY <2>1, <2>2 DEF LinesInv, ReadInv, FollowInv, ClockInv, DueInv, MissInv, InFrame, Committed,
                      lines, thread, master
<1>3. CASE SpiExit
  <2>1. /\ isr = "check" \/ (isr = "spi" /\ rx = <<>>)
        /\ isr' = IF pr = {} THEN "none" ELSE "resolve"
        /\ UNCHANGED <<lines, spi, engine, snap, pend, thread, master>>
    BY <1>3 DEF SpiExit
  <2>2. rx = <<>> \/ phase = "READ"
    BY <2>1 DEF LinesInv, ReadInv
  <2>3. QED
    BY <2>1, <2>2 DEF LinesInv, ReadInv, FollowInv, ClockInv, DueInv, MissInv, InFrame, Committed,
                      lines, spi, engine, thread, master
<1>4. QED
  BY <1>1, <1>2, <1>3

(* So does spislave_resolve: the edges it has read of a frame that is due  *)
(* still stand when it acts, and what came since it does not close over.   *)
LEMMA ResolveLines ==
  ASSUME IInv, LinesInv,
         CsEnter \/ ResolveRead \/ ResolveFast \/ ResolvePend \/ ResolveAct
  PROVE  LinesInv'
<1>1. CASE CsEnter
  <2>1. /\ isr = "none" /\ isr' = "resolve" /\ nvic # {} /\ ~SpiPending /\ thr # "resync"
        /\ UNCHANGED <<low, pr, spi, engine, snap, pend, thread, master>>
    BY <1>1 DEF CsEnter
  <2>2. rx = <<>> \/ phase = "READ"
    BY <2>1 DEF SpiPending, IInv, BurstInv
  <2>3. QED
    BY <2>1, <2>2 DEF LinesInv, ReadInv, FollowInv, ClockInv, DueInv, MissInv, InFrame, Committed,
                      spi, engine, thread, master
<1>2. CASE ResolveRead
  BY <1>2 DEF ResolveRead, LinesInv, ReadInv, FollowInv, ClockInv, DueInv, MissInv, InFrame, Committed,
              lines, spi, engine, thread, master
<1>3. CASE ResolvePend
  BY <1>3 DEF ResolvePend, LinesInv, ReadInv, FollowInv, ClockInv, DueInv, MissInv, InFrame, Committed,
              lines, spi, engine, thread, master
<1>4. CASE ResolveFast \/ ResolveAct
  <2>1. /\ snap \in SUBSET Dev /\ (\A d, e \in snap : d = e) /\ isr \in {"fast", "clear"} /\ Committed
        /\ isr = "fast" => active = None
        /\ thr = "idle"
    BY <1>4 DEF ResolveFast, ResolveAct, LinesInv, ReadInv, IInv, TypeOK, ThreadInv, BurstInv, Committed
  <2>2. /\ active' = Lowest(snap) /\ pr' = {} /\ isr' = "none" /\ snap' = {}
        /\ due' = due \/ due' = Tail(due)
        /\ due # <<>> /\ active # None /\ active \in pend => due' = Tail(due)
        /\ UNCHANGED <<low, nvic, thread, sent, miso, lost, heal>>
    <3>1. CASE ResolveFast
      BY <2>1, <3>1 DEF ResolveFast, Select, LinesInv, DueInv, master
    <3>2. CASE ResolveAct
      <4>1. /\ pr' = {} /\ isr' = "none" /\ snap' = {}
            /\ UNCHANGED <<low, nvic, thread, sent, miso, lost, heal>>
            /\ ResolveClose \/ ResolveKeep \/ ResolveOpen
        BY <3>2 DEF ResolveAct
      <4>2. CASE ResolveClose
        BY <4>1, <4>2 DEF ResolveClose, Select, Account
      <4>3. CASE ResolveKeep
        BY <4>1, <4>3 DEF ResolveKeep, FrameOver
      <4>4. CASE ResolveOpen
        BY <4>1, <4>4 DEF ResolveOpen, Select
      <4>5. QED
        BY <4>1, <4>2, <4>3, <4>4
    <3>3. QED
      BY <1>4, <3>1, <3>2
  <2>3. due' = <<>>
    <3>1. CASE due = <<>>
      <4>1. Tail(due) = <<>> \/ due' = due
        BY <2>2, <3>1
      <4>2. QED
        BY <2>2, <3>1, <4>1
    <3>2. CASE due # <<>>
      <4>1. active # None /\ active \in pend
        BY <2>1, <3>2 DEF LinesInv, DueInv
      <4>2. due' = Tail(due)
        BY <2>2, <3>2, <4>1
      <4>3. Tail(<<[dev |-> active, bytes |-> due[1].bytes]>>) = <<>>
        OBVIOUS
      <4>4. QED
        BY <3>2, <4>2, <4>3 DEF LinesInv, DueInv
    <3>3. QED
      BY <3>1, <3>2
  <2>4. sent # <<>> => heal = "cut"
    BY <2>1 DEF LinesInv, ClockInv
  <2>5. FollowInv'
    BY <2>1, <2>2 DEF LinesInv, ReadInv, FollowInv, thread
  <2>6. MissInv'
    <3>1. SUFFICES ASSUME heal = "whole", active' # None, low # {active'} PROVE sent = <<>> /\ miso = <<>>
      BY <2>2 DEF MissInv, InFrame, Committed
    <3>2. snap = {active'}
      BY <2>1, <2>2, <3>1, LowestOnly
    <3>3. QED
      BY <2>1, <2>4, <3>1, <3>2 DEF LinesInv, MissInv
  <2>7. ReadInv' /\ ClockInv' /\ DueInv'
    BY <2>1, <2>2, <2>3, <2>4 DEF LinesInv, ReadInv, ClockInv, DueInv, Committed, thread
  <2>8. QED
    BY <2>5, <2>6, <2>7 DEF LinesInv
<1>5. QED
  BY <1>1, <1>2, <1>3, <1>4

(* The strengthened invariant about lines and frames, against a master     *)
(* that keeps its promises.                                                *)
LEMMA NextLines ==
  ASSUME Promises \subseteq Assume, IInv, LinesInv, [Next]_vars
  PROVE  LinesInv'
<1>1. CASE Next
  BY <1>1, MasterLines, ThreadLines, SpiIrqLines, ResolveLines DEF Next, Isr
<1>2. CASE UNCHANGED vars
  BY <1>2 DEF LinesInv, ReadInv, FollowInv, ClockInv, DueInv, MissInv, InFrame, Committed,
              vars, lines, spi, engine, handler, thread, master
<1>3. QED
  BY <1>1, <1>2

(* Arithmetic of the wrapping write pointer (spislave_irq: addr & 0x7f).   *)
LEMMA ModUnique ==
  ASSUME NEW b \in Nat \ {0}, NEW q \in Int, NEW r \in 0 .. b - 1
  PROVE  (q * b + r) % b = r
<1> DEFINE a == q * b + r
           Q == a \div b
           R == a % b
<1>1. a \in Int /\ Q \in Int /\ R \in 0 .. b - 1 /\ a = Q * b + R
  BY SMT
<1>2. (Q - q) * b = r - R
  BY <1>1, SMT
<1>3. CASE Q - q >= 1
  <2>1. (Q - q) * b >= b
    BY <1>1, <1>3, SMT
  <2>2. QED
    BY <2>1, <1>1, <1>2
<1>4. CASE Q - q <= -1
  <2>1. (Q - q) * b <= -b
    BY <1>1, <1>4, SMT
  <2>2. QED
    BY <2>1, <1>1, <1>2
<1>5. CASE Q = q
  BY <1>1, <1>5, SMT
<1>6. QED
  BY <1>1, <1>3, <1>4, <1>5

(* A remainder may be taken before an addition as well as after it.        *)
LEMMA ModPlus ==
  ASSUME NEW b \in Nat \ {0}, NEW a \in Int, NEW c \in Int
  PROVE  ((a % b) + c) % b = (a + c) % b
<1> DEFINE q == a \div b
           r == a % b
           p == (r + c) \div b
           t == (r + c) % b
<1>1. q \in Int /\ r \in Int /\ a = q * b + r
  BY SMT
<1> HIDE DEF q, r
<1>2. p \in Int /\ t \in 0 .. b - 1 /\ r + c = p * b + t
  BY <1>1, SMT
<1> HIDE DEF p, t
<1>3. a + c = (q + p) * b + t
  BY <1>1, <1>2, SMT
<1>4. (a + c) % b = t
  <2>1. q + p \in Int
    BY <1>1, <1>2
  <2>2. QED
    BY <1>2, <1>3, <2>1, ModUnique
<1>5. QED
  BY <1>4 DEF r, t

(* A register's own number is its remainder.                               *)
LEMMA ModSmall ==
  ASSUME NEW b \in Nat \ {0}, NEW r \in 0 .. b - 1
  PROVE  r % b = r
<1>1. (0 * b + r) % b = r
  BY ModUnique
<1>2. 0 * b + r = r
  OBVIOUS
<1>3. QED
  BY <1>1, <1>2

(* From one address n steps up, with the pointer wrapping, is n back.      *)
LEMMA ModBack ==
  ASSUME NEW b \in Nat \ {0}, NEW a \in 0 .. b - 1, NEW n \in Nat
  PROVE  (((a + n) % b) - a) % b = n % b
<1>1. (((a + n) % b) + (-a)) % b = ((a + n) + (-a)) % b
  <2>1. a + n \in Int /\ -a \in Int
    OBVIOUS
  <2>2. QED
    BY <2>1, ModPlus
<1>2. (a + n) + (-a) = n
  OBVIOUS
<1>3. (a + n) % b \in Int
  BY ModBound
<1>4. ((a + n) % b) + (-a) = ((a + n) % b) - a
  BY <1>3
<1>5. QED
  BY <1>1, <1>2, <1>4

(* spislave_init: idle, the fill queued.                                   *)
LEMMA InitFrames == Init => FrameInv
BY DEF Init, FrameInv, IdleInv, InFrame

(* A step that moves neither the frame nor what the engine holds of it.    *)
LEMMA FrameSame ==
  ASSUME LinesInv, FrameInv,
         UNCHANGED <<rx, tx, skew, mar, ndtr, engine, miso, heal, due>>,
         sent' = sent \/ ~InFrame',
         InFrame' => InFrame,
         thr' = "resync" <=> thr = "resync",
         active # None => mem'[active] = mem[active]
  PROVE  FrameInv'
<1>1. IdleInv'
  BY DEF FrameInv, IdleInv, engine
<1>2. ASSUME active # None, NEW f PROVE Received(f)' <=> Received(f)
  BY <1>2 DEF Received, CmdPhase, ReadPhase, WritePhase, Commanded, Target, engine
<1>3. ASSUME active # None PROVE Shipped' <=> Shipped
  BY <1>3 DEF Shipped, Slot, engine
<1>4. InFrame' => ~skew' /\ Shipped'
  BY <1>3 DEF FrameInv, InFrame, engine
<1>5. ASSUME NEW f \in Seq(Byte), InFrame', f = sent' PROVE Received(f)'
  BY <1>2, <1>5 DEF FrameInv, InFrame, engine
<1>6. ASSUME NEW f \in Seq(Byte), due' # <<>>, f = due'[1].bytes PROVE Received(f)'
  BY <1>2, <1>6 DEF FrameInv, LinesInv, DueInv
<1>7. QED
  BY <1>1, <1>4, <1>5, <1>6 DEF FrameInv

(* Opening a frame: the command slot, then the dummies the device owes.    *)
LEMMA FrameOpened ==
  ASSUME IInv, NEW sel \in Dev, Select(sel, <<Fill>>),
         rx' = <<>>, skew' = FALSE, sent' = <<>>, miso' = <<>>, due' = <<>>
  PROVE  FrameInv'
<1>1. active' = sel /\ phase' = "CMD" /\ Dummy[sel] \in Nat /\ sel # None
  BY DeviceAssumption DEF Select, Dev, None
<1>2. tx' = [i \in 1 .. Dummy[sel] + 1 |-> Fill]
  BY <1>1, FillConcat DEF Select
<1>3. Len(tx') = Dummy[sel] + 1
  BY <1>1, <1>2
<1>4. CmdPhase(sent)'
  BY <1>1, <1>2 DEF CmdPhase
<1>5. Shipped'
  <2>1. ASSUME NEW k \in Len(miso') + 1 .. Len(miso') + Len(tx') PROVE (tx[k - Len(miso)] = Slot(k))'
    BY <1>1, <1>2, <1>3, <2>1 DEF Slot
  <2>2. QED
    BY <2>1 DEF Shipped
<1>6. IdleInv'
  BY <1>1 DEF IdleInv
<1>7. ASSUME NEW f \in Seq(Byte), f = <<>> PROVE Received(f)'
  BY <1>1, <1>2, <1>7 DEF Received, CmdPhase
<1>8. QED
  BY <1>5, <1>6, <1>7 DEF FrameInv

(* The master's edges: a frame it ends is due with what was made of it; an *)
(* edge the engine has yet to see leaves it in a frame without a byte.     *)
LEMMA EdgeFrames ==
  ASSUME IInv, LinesInv, LinesInv', FrameInv, NEW d \in Dev, CsFall(d) \/ CsRise(d)
  PROVE  FrameInv'
<1>1. /\ UNCHANGED <<rx, tx, skew, mar, ndtr, engine, mem, handler, thread>>
      /\ pr \subseteq pr' /\ d \in pr' /\ sent' = <<>>
  BY DEF CsFall, CsRise, Edge, spi
<1>2. sent # <<>> /\ heal # "cut" => active = d /\ active # None /\ pr = {} /\ due = <<>>
  <2>1. SUFFICES ASSUME sent # <<>>, heal # "cut"
                 PROVE  active = d /\ active # None /\ pr = {} /\ due = <<>>
    OBVIOUS
  <2>2. pr = {} /\ nvic = {} /\ ~lost /\ isr \in {"none", "spi", "check"} /\ low # {}
    BY <2>1 DEF LinesInv, ClockInv
  <2>3. active # None /\ low = {active}
    BY <2>1, <2>2, Followed
  <2>4. active = d
    BY <2>3 DEF CsFall, CsRise, LinesInv, ReadInv
  <2>5. QED
    BY <2>2, <2>3, <2>4 DEF LinesInv, DueInv
<1>3. heal' = "whole" => heal = "whole" \/ (heal = "after" /\ sent # <<>>)
  BY DEF CsFall, CsRise, IInv, TypeOK
<1>4. InFrame' => InFrame
  <2>1. SUFFICES ASSUME InFrame' PROVE heal = "whole"
    BY <1>1 DEF InFrame, engine, handler
  <2>2. CASE Committed
    BY <1>3, <2>1, <2>2 DEF InFrame, LinesInv, ClockInv, Committed
  <2>3. CASE ~Committed
    <3>1. active \notin pr'
      BY <1>1, <2>1, <2>3 DEF InFrame, Committed, engine, handler
    <3>2. QED
      BY <1>1, <1>2, <1>3, <2>1, <3>1 DEF InFrame
  <2>4. QED
    BY <2>2, <2>3
<1>5. InFrame' => sent = <<>> /\ miso' = <<>>
  <2>1. SUFFICES ASSUME InFrame' PROVE sent = <<>> /\ miso' = <<>>
    OBVIOUS
  <2>2. InFrame /\ heal = "whole"
    BY <1>4, <2>1 DEF InFrame
  <2>3. sent = <<>>
    <3>1. CASE Committed
      BY <2>2, <3>1 DEF LinesInv, ClockInv, Committed
    <3>2. CASE ~Committed
      BY <1>1, <1>2, <2>1, <2>2, <3>2 DEF InFrame, Committed, engine, handler
    <3>3. QED
      BY <3>1, <3>2
  <2>4. CASE CsFall(d)
    BY <2>3, <2>4 DEF CsFall
  <2>5. CASE CsRise(d)
    <3>1. Len(miso) = Len(sent) /\ miso \in Seq(Byte \union {Fill, Stale}) /\ miso' = miso
      BY <2>5 DEF CsRise, LinesInv, ClockInv
    <3>2. QED
      BY <2>3, <3>1
  <2>6. QED
    BY <2>4, <2>5
<1>6. InFrame' => Shipped'
  <2>1. SUFFICES ASSUME InFrame' PROVE Shipped'
    OBVIOUS
  <2>2. Shipped /\ Len(miso) = 0 /\ miso' = <<>>
    <3>1. Shipped /\ Len(miso) = Len(sent)
      BY <1>4, <2>1, FrameLength DEF FrameInv
    <3>2. QED
      BY <1>5, <2>1, <3>1
  <2>3. QED
    BY <1>1, <2>2 DEF Shipped, Slot, engine
<1>7. IdleInv'
  <2>1. heal' = "whole" /\ active' = None => heal = "whole" /\ active = None
    BY <1>1, <1>2, <1>3 DEF engine
  <2>2. QED
    BY <1>1, <2>1 DEF FrameInv, IdleInv, engine, thread
<1>8. ASSUME NEW f, Received(f) PROVE Received(f)'
  BY <1>1, <1>8 DEF Received, CmdPhase, ReadPhase, WritePhase, Commanded, Target, engine
<1>9. ASSUME NEW f \in Seq(Byte), due' # <<>>, f = due'[1].bytes PROVE Received(f)
  <2>1. CASE due' = due
    BY <1>9, <2>1 DEF FrameInv
  <2>2. CASE due' # due
    <3>1. /\ sent # <<>> /\ heal = "whole" /\ due' = Append(due, [dev |-> d, bytes |-> sent])
      BY <2>2 DEF CsFall, CsRise
    <3>2. active # None /\ pr = {} /\ due = <<>>
      BY <1>2, <3>1
    <3>3. due'[1].bytes = sent
      BY <3>1, <3>2
    <3>4. InFrame
      BY <3>1, <3>2 DEF InFrame
    <3>5. QED
      BY <1>9, <3>3, <3>4 DEF FrameInv
  <2>3. QED
    BY <2>1, <2>2
<1>10. ASSUME NEW f \in Seq(Byte), InFrame', f = sent' PROVE Received(f)
  BY <1>1, <1>4, <1>5, <1>10 DEF FrameInv
<1>11. InFrame' => ~skew'
  BY <1>1, <1>4 DEF FrameInv
<1>12. QED
  BY <1>6, <1>7, <1>8, <1>9, <1>10, <1>11 DEF FrameInv

(* What appending one element to a sequence changes.                       *)
LEMMA AppendAt ==
  ASSUME NEW S, NEW s \in Seq(S), NEW e
  PROVE  /\ Len(Append(s, e)) = Len(s) + 1
         /\ Append(s, e) # <<>>
         /\ \A i \in 1 .. Len(s) : Append(s, e)[i] = s[i]
         /\ Append(s, e)[Len(s) + 1] = e
OBVIOUS

(* What shifting one element out of a sequence changes.                    *)
LEMMA TailAt ==
  ASSUME NEW S, NEW s \in Seq(S), s # <<>>
  PROVE  /\ Len(Tail(s)) = Len(s) - 1
         /\ \A i \in 1 .. Len(s) - 1 : Tail(s)[i] = s[i + 1]
         /\ Head(s) = s[1]
OBVIOUS

(* One slot fewer of a queue of fills.                                     *)
LEMMA FillTail ==
  ASSUME NEW n \in Nat
  PROVE  /\ Tail([i \in 1 .. n + 1 |-> Fill]) = [i \in 1 .. n |-> Fill]
         /\ Head([i \in 1 .. n + 1 |-> Fill]) = Fill
         /\ [i \in 1 .. n + 1 |-> Fill] # <<>>
<1> DEFINE s == [i \in 1 .. n + 1 |-> Fill]
<1>1. s \in Seq({Fill}) /\ Len(s) = n + 1
  OBVIOUS
<1>2. s # <<>>
  BY <1>1
<1>3. \A i \in 1 .. n + 1 : s[i] = Fill
  OBVIOUS
<1> HIDE DEF s
<1>4. Tail(s) = [i \in 1 .. n |-> Fill]
  <2>1. Tail(s) \in Seq({Fill}) /\ Len(Tail(s)) = n
    BY <1>1, <1>2
  <2>2. [i \in 1 .. n |-> Fill] \in Seq({Fill}) /\ Len([i \in 1 .. n |-> Fill]) = n
    OBVIOUS
  <2>3. \A i \in 1 .. n : Tail(s)[i] = [j \in 1 .. n |-> Fill][i]
    BY <1>1, <1>2, <1>3, TailAt
  <2>4. QED
    BY <2>1, <2>2, <2>3, SeqEqual
<1>5. QED
  BY <1>1, <1>2, <1>3, <1>4 DEF s

(* A queue of n fills has n slots.                                         *)
LEMMA FillLength ==
  ASSUME NEW n \in Nat
  PROVE  /\ Len([i \in 1 .. n |-> Fill]) = n
         /\ \A k \in 1 .. n : [i \in 1 .. n |-> Fill][k] = Fill
OBVIOUS

(* Slots m + 1 .. m + n of a frame, n of them queued.                      *)
LEMMA Window ==
  ASSUME NEW m \in Nat, NEW n \in Nat, NEW k \in m + 1 .. m + n
  PROVE  k - m \in 1 .. n /\ k \in 1 .. m + n /\ n # 0
OBVIOUS

(* A clocked byte takes at most one slot from the queue.                   *)
LEMMA SlotUsed ==
  ASSUME NEW q \in Nat, NEW l \in Nat, NEW t \in Nat, NEW u \in Nat,
         q <= l + t, u = t \/ u = t - 1
  PROVE  q <= (l + 1) + u
OBVIOUS

(* A byte clocked in a read burst ships the slot that is next.             *)
LEMMA ClockRead ==
  ASSUME IInv, LinesInv, FrameInv, InFrame, Served, phase = "READ",
         NEW b \in Byte,
         sent' = Append(sent, b), tx' = IF tx = <<>> THEN tx ELSE Tail(tx),
         miso' = Append(miso, IF tx = <<>> THEN Stale ELSE Head(tx)),
         UNCHANGED <<mar, ndtr, dma, engine, mem>>
  PROVE  Shipped' /\ \A f \in Seq(Byte) : f = sent' => ReadPhase(f)'
<1> DEFINE s == Source(active, addr0)
           queued == 1 + Dummy[active] + (s.n - ndtr)
<1>1. /\ active \in Dev /\ Dummy[active] \in Nat /\ s.n \in Nat /\ ndtr \in Nat
      /\ tx \in Seq(Byte \union {Fill}) /\ miso \in Seq(Byte \union {Fill, Stale}) /\ sent \in Seq(Byte)
  BY SourceInMemory, DeviceAssumption DEF InFrame, IInv, TypeOK, LinesInv, ClockInv
<1>2. ReadPhase(sent)
  BY <1>1 DEF FrameInv, Received
<1>3. Len(miso) = Len(sent)
  BY FrameLength
<1>4. tx = <<>> => ndtr = 0
  BY <1>1 DEF Served, InFrame, IInv, BurstInv, None
<1>5. Source(active, addr0)' = s
  BY DEF engine, Source
<1>6. \A k : Slot(k)' = Slot(k)
  BY DEF Slot, engine
<1>7. /\ Len(sent') = Len(sent) + 1 /\ Len(miso') = Len(miso) + 1
      /\ sent' # <<>> /\ sent'[1] = sent[1] /\ sent # <<>>
      /\ \A k \in 1 .. Len(miso) : miso'[k] = miso[k]
      /\ miso'[Len(miso) + 1] = IF tx = <<>> THEN Stale ELSE Head(tx)
  <2>1. sent # <<>> /\ Len(sent) >= 1
    BY <1>1, <1>2 DEF ReadPhase, Commanded
  <2>2. 1 \in 1 .. Len(sent)
    BY <1>1, <2>1
  <2>3. Len(sent') = Len(sent) + 1 /\ sent' # <<>> /\ sent'[1] = sent[1]
    BY <1>1, <2>2, AppendAt
  <2>4. /\ Len(miso') = Len(miso) + 1
        /\ \A k \in 1 .. Len(miso) : miso'[k] = miso[k]
        /\ miso'[Len(miso) + 1] = IF tx = <<>> THEN Stale ELSE Head(tx)
    BY <1>1, AppendAt
  <2>5. QED
    BY <2>1, <2>3, <2>4
<1>8. /\ tx = <<>> => tx' = <<>> /\ Len(tx') = 0 /\ Len(tx) = 0
      /\ tx # <<>> => /\ Len(tx') = Len(tx) - 1 /\ Head(tx) = tx[1]
                      /\ \A i \in 1 .. Len(tx) - 1 : tx'[i] = tx[i + 1]
                      /\ 1 <= Len(tx)
  BY <1>1, TailAt
<1>9. queued \in Nat /\ Len(tx) \in Nat /\ Len(sent) \in Nat /\ Len(tx') \in Nat
  <2>1. ndtr <= s.n
    BY <1>2 DEF ReadPhase
  <2> HIDE DEF s
  <2>2. queued \in Nat
    BY <1>1, <2>1, SMTT(30)
  <2>3. Len(tx) \in Nat /\ Len(sent) \in Nat
    BY <1>1
  <2>4. Len(tx') \in Nat
    BY <1>8, <2>3
  <2>5. QED
    BY <2>2, <2>3, <2>4
<1>10. ASSUME NEW f \in Seq(Byte), f = sent' PROVE ReadPhase(f)'
  <2>1. /\ IsRead(sent[1]) /\ cmd = sent[1] /\ addr0 = AddrOf(sent[1])
        /\ ndtr0 = s.n /\ ndtr <= s.n /\ mar + ndtr = s.base + s.n
        /\ queued <= Len(sent) + Len(tx)
        /\ tx # <<>> \/ ndtr > 0 => queued = Len(sent) + Len(tx)
        /\ ndtr < s.n => Len(tx) <= TxDepth
    BY <1>2 DEF ReadPhase, Commanded
  <2>2. Len(f) = Len(sent) + 1
    BY <1>7, <1>10
  <2> HIDE DEF queued
  <2>3. queued <= Len(f) + Len(tx')
    <3>1. Len(tx') = Len(tx) \/ Len(tx') = Len(tx) - 1
      BY <1>8
    <3>2. queued <= (Len(sent) + 1) + Len(tx')
      BY <1>9, <2>1, <3>1, SlotUsed
    <3>3. QED
      BY <2>2, <3>2
  <2>4. tx' # <<>> \/ ndtr > 0 => queued = Len(f) + Len(tx')
    <3>1. CASE tx = <<>>
      BY <1>1, <1>4, <1>8, <3>1
    <3>2. CASE tx # <<>>
      BY <1>8, <1>9, <2>1, <2>2, <3>2
    <3>3. QED
      BY <3>1, <3>2
  <2>5. ndtr < s.n => Len(tx') <= TxDepth
    BY <1>8, <1>9, <2>1, SizeAssumption
  <2>6. Commanded(f)' /\ IsRead(f[1])'
    BY <1>7, <1>10, <2>1 DEF Commanded, engine, IsRead
  <2>7. QED
    BY <1>5, <2>1, <2>3, <2>4, <2>5, <2>6 DEF ReadPhase, queued, engine
<1>11. Shipped'
  <2>1. /\ \A k \in 1 .. Len(miso) : miso[k] = Slot(k)
        /\ \A k \in Len(miso) + 1 .. Len(miso) + Len(tx) : tx[k - Len(miso)] = Slot(k)
    BY DEF FrameInv, Shipped
  <2>2. Len(miso) \in Nat
    BY <1>1
  <2>3. miso'[Len(miso) + 1] = Slot(Len(miso) + 1)
    <3>1. CASE tx = <<>>
      <4>1. queued <= Len(miso)
        BY <1>2, <1>3, <1>8, <1>9, <3>1 DEF ReadPhase
      <4>2. s.n <= (Len(miso) + 1) - 2 - Dummy[active]
        BY <1>1, <1>4, <2>2, <3>1, <4>1
      <4>3. Slot(Len(miso) + 1) = Stale
        BY <1>1, <2>2, <4>2 DEF Slot
      <4>4. QED
        BY <1>7, <3>1, <4>3
    <3>2. CASE tx # <<>>
      <4>1. Len(miso) + 1 \in Len(miso) + 1 .. Len(miso) + Len(tx) /\ (Len(miso) + 1) - Len(miso) = 1
        BY <1>8, <1>9, <2>2, <3>2
      <4>2. tx[1] = Slot(Len(miso) + 1)
        BY <2>1, <4>1
      <4>3. QED
        BY <1>7, <1>8, <3>2, <4>2
    <3>3. QED
      BY <3>1, <3>2
  <2>4. ASSUME NEW k \in 1 .. Len(miso') PROVE miso'[k] = Slot(k)
    <3>1. k \in 1 .. Len(miso) \/ k = Len(miso) + 1
      BY <1>7, <2>2
    <3>2. QED
      BY <1>7, <2>1, <2>3, <3>1
  <2>5. ASSUME NEW k \in Len(miso') + 1 .. Len(miso') + Len(tx') PROVE tx'[k - Len(miso')] = Slot(k)
    <3>1. tx # <<>>
      <4>1. Len(miso') \in Nat
        BY <1>7, <2>2
      <4>2. Len(tx') # 0
        BY <1>9, <4>1, Window
      <4>3. QED
        BY <1>8, <4>2
    <3>2. /\ k \in Len(miso) + 1 .. Len(miso) + Len(tx)
          /\ k - Len(miso') \in 1 .. Len(tx) - 1
          /\ (k - Len(miso')) + 1 = k - Len(miso)
      BY <1>7, <1>8, <1>9, <2>2, <3>1
    <3>3. tx'[k - Len(miso')] = tx[k - Len(miso)]
      BY <1>8, <3>1, <3>2
    <3>4. QED
      BY <2>1, <3>2, <3>3
  <2>6. QED
    BY <1>6, <2>4, <2>5 DEF Shipped
<1>12. QED
  BY <1>10, <1>11

(* A byte clocked in a write waits in the RX FIFO.                         *)
LEMMA ClockWrite ==
  ASSUME IInv, LinesInv, FrameInv, InFrame, phase = "WRITE",
         NEW b \in Byte, sent' = Append(sent, b), rx' = Append(rx, b),
         UNCHANGED <<engine, mem>>
  PROVE  \A f \in Seq(Byte) : f = sent' => WritePhase(f)'
<1> SUFFICES ASSUME NEW f \in Seq(Byte), f = sent' PROVE WritePhase(f)'
  OBVIOUS
<1>1. sent \in Seq(Byte) /\ rx \in Seq(Byte)
  BY DEF IInv, TypeOK, LinesInv, ClockInv
<1>2. WritePhase(sent)
  BY <1>1 DEF FrameInv, Received
<1> DEFINE m == Len(sent) - Len(rx)
<1>3. /\ sent # <<>> /\ cmd = sent[1] /\ addr0 = AddrOf(sent[1]) /\ ~IsRead(sent[1])
      /\ 1 <= m /\ \A i \in 1 .. Len(rx) : rx[i] = sent[m + i]
      /\ addr = (addr0 + m - 1) % NReg
      /\ \A k \in 2 .. m :
           /\ Target(sent, k) \in WMask[active]
           /\ \A l \in k + 1 .. m : Target(sent, l) # Target(sent, k)
           => mem[active][Target(sent, k)] = sent[k]
  BY <1>2 DEF WritePhase, Commanded
<1>4. /\ Len(f) = Len(sent) + 1 /\ Len(rx') = Len(rx) + 1 /\ f # <<>>
      /\ \A i \in 1 .. Len(sent) : f[i] = sent[i]
      /\ f[Len(sent) + 1] = b
      /\ \A i \in 1 .. Len(rx) : rx'[i] = rx[i]
      /\ rx'[Len(rx) + 1] = b
  BY <1>1, AppendAt, ZenonT(40)
<1>5. Len(sent) \in Nat /\ Len(rx) \in Nat /\ m \in Nat /\ m <= Len(sent)
  BY <1>1, <1>3
<1>6. Len(f) - Len(rx') = m
  BY <1>4, <1>5
<1> HIDE DEF m
<1>7. f[1] = sent[1]
  <2>1. 1 \in 1 .. Len(sent)
    BY <1>3, <1>5
  <2>2. QED
    BY <1>4, <2>1
<1>8. ASSUME NEW i \in 1 .. Len(rx') PROVE rx'[i] = f[m + i]
  <2>1. CASE i \in 1 .. Len(rx)
    <3>1. m + i \in 1 .. Len(sent)
      BY <1>5, <2>1 DEF m
    <3>2. QED
      BY <1>3, <1>4, <2>1, <3>1 DEF m
  <2>2. CASE i = Len(rx) + 1
    <3>1. m + i = Len(sent) + 1
      BY <1>5, <2>2 DEF m
    <3>2. QED
      BY <1>4, <2>2, <3>1
  <2>3. i \in 1 .. Len(rx) \/ i = Len(rx) + 1
    BY <1>4, <1>5
  <2>4. QED
    BY <2>1, <2>2, <2>3
<1>9. \A k : Target(f, k)' = Target(sent, k)
  BY <1>7 DEF Target
<1>10. ASSUME NEW k \in 2 .. m, Target(sent, k) \in WMask[active],
              \A l \in k + 1 .. m : Target(sent, l) # Target(sent, k)
       PROVE  mem'[active][Target(sent, k)] = f[k]
  <2>1. k \in 1 .. Len(sent)
    BY <1>5
  <2>2. f[k] = sent[k]
    BY <1>4, <2>1
  <2>3. mem[active][Target(sent, k)] = sent[k]
    BY <1>3, <1>10 DEF m
  <2>4. QED
    BY <2>2, <2>3
<1>11. Commanded(f)' /\ ~IsRead(f[1])
  BY <1>3, <1>4, <1>7 DEF Commanded, engine
<1>12. addr' = (addr0' + m - 1) % NReg
  BY <1>3 DEF m, engine
<1>13. active' = active
  BY DEF engine
<1>14. \A k \in 2 .. m :
         /\ Target(f, k)' \in WMask[active']
         /\ \A l \in k + 1 .. m : Target(f, l)' # Target(f, k)'
         => mem'[active'][Target(f, k)'] = f[k]
  BY <1>9, <1>10, <1>13
<1>15. /\ 1 <= Len(f) - Len(rx')
       /\ \A i \in 1 .. Len(rx') : rx'[i] = f[(Len(f) - Len(rx')) + i]
       /\ addr' = (addr0' + (Len(f) - Len(rx')) - 1) % NReg
       /\ \A k \in 2 .. Len(f) - Len(rx') :
            /\ Target(f, k)' \in WMask[active']
            /\ \A l \in k + 1 .. Len(f) - Len(rx') : Target(f, l)' # Target(f, k)'
            => mem'[active'][Target(f, k)'] = f[k]
  <2>1. 1 <= m
    BY <1>3 DEF m
  <2>2. QED
    BY <1>6, <1>8, <1>12, <1>14, <2>1, Zenon
<1>16. QED
  BY <1>11, <1>15 DEF WritePhase

(* The command byte takes the slot of the fill queued for it.              *)
LEMMA ClockCmd ==
  ASSUME IInv, LinesInv, FrameInv, InFrame, phase = "CMD", rx = <<>>,
         NEW b \in Byte, sent' = Append(sent, b), rx' = Append(rx, b),
         tx' = IF tx = <<>> THEN tx ELSE Tail(tx),
         miso' = Append(miso, IF tx = <<>> THEN Stale ELSE Head(tx)),
         UNCHANGED engine
  PROVE  Shipped' /\ \A f \in Seq(Byte) : f = sent' => CmdPhase(f)'
<1>1. active \in Dev /\ Dummy[active] \in Nat /\ sent \in Seq(Byte)
  BY DeviceAssumption DEF InFrame, IInv, TypeOK, LinesInv, ClockInv
<1>2. CmdPhase(sent)
  BY <1>1 DEF FrameInv, Received
<1>3. sent = <<>> /\ tx = [i \in 1 .. Dummy[active] + 1 |-> Fill]
  BY <1>1, <1>2 DEF CmdPhase
<1>4. miso = <<>>
  <2>1. Len(miso) = 0 /\ miso \in Seq(Byte \union {Fill, Stale})
    BY <1>3, FrameLength DEF LinesInv, ClockInv
  <2>2. QED
    BY <2>1
<1>5. tx' = [i \in 1 .. Dummy[active] |-> Fill] /\ miso' = <<Fill>>
  BY <1>1, <1>3, <1>4, FillTail
<1>6. ASSUME NEW f \in Seq(Byte), f = sent' PROVE CmdPhase(f)'
  <2>1. f = <<b>> /\ rx' = <<b>> /\ Len(f) = 1
    BY <1>3, <1>6
  <2>2. 1 + Dummy[active] - Len(f) = Dummy[active]
    BY <1>1, <2>1
  <2>3. tx' = [i \in 1 .. 1 + Dummy[active] - Len(f) |-> Fill]
    BY <1>5, <2>2
  <2>4. rx' = f /\ Len(f) <= 1 /\ active' = active
    BY <2>1 DEF engine
  <2>5. QED
    BY <2>3, <2>4 DEF CmdPhase
<1>7. Shipped'
  <2>1. Len(miso') = 1 /\ Len(tx') = Dummy[active]
    BY <1>1, <1>5, FillLength
  <2>2. \A k \in 1 .. Dummy[active] + 1 : Slot(k)' = Fill
    BY <1>1 DEF Slot, engine
  <2>3. ASSUME NEW k \in 1 .. Len(miso') PROVE miso'[k] = Slot(k)'
    BY <1>1, <1>5, <2>1, <2>2
  <2>4. ASSUME NEW k \in Len(miso') + 1 .. Len(miso') + Len(tx') PROVE tx'[k - Len(miso')] = Slot(k)'
    <3>1. k \in 1 + 1 .. 1 + Dummy[active]
      BY <2>1
    <3>2. k \in 1 .. 1 + Dummy[active] /\ k - 1 \in 1 .. Dummy[active]
      BY <1>1, <3>1, Window
    <3>3. Slot(k)' = Fill
      <4>1. k \in 1 .. Dummy[active] + 1
        BY <1>1, <3>2
      <4>2. QED
        BY <2>2, <4>1
    <3>4. tx'[k - 1] = Fill
      BY <1>5, <3>2
    <3>5. QED
      BY <2>1, <3>3, <3>4
  <2>5. QED
    BY <2>3, <2>4 DEF Shipped
<1>8. QED
  BY <1>6, <1>7

(* A byte the master clocks reaches the engine in the state its slot and   *)
(* its place in the frame are for.                                         *)
LEMMA ClockFrames ==
  ASSUME Promises \subseteq Assume, IInv, LinesInv, FrameInv, NEW b \in MasterBytes, ClockByte(b)
  PROVE  FrameInv'
<1>1. CASE thr = "resync"
  <2>1. heal' = "cut" /\ due' = <<>>
    BY <1>1 DEF ClockByte, LinesInv, ReadInv, DueInv
  <2>2. QED
    BY <2>1 DEF FrameInv, IdleInv, InFrame
<1>2. CASE thr # "resync"
  <2>1. /\ Served /\ heal' = (IF lost THEN "cut" ELSE heal)
        /\ pr = {} /\ pr' = {} /\ low # {} /\ UNCHANGED <<engine, handler>>
    <3>1. "prompt" \in Assume
      BY DEF Promises
    <3>2. Served
      BY <1>2, <3>1 DEF ClockByte
    <3>3. QED
      BY <1>2, <3>2 DEF ClockByte, Served, lines
  <2>2. due' = <<>>
    BY <2>1 DEF ClockByte, LinesInv, DueInv
  <2>3. CASE heal' # "whole"
    BY <2>2, <2>3 DEF FrameInv, IdleInv, InFrame
  <2>4. CASE heal' = "whole"
    <3>1. InFrame
      <4>1. heal = "whole" /\ ~lost
        BY <2>1, <2>4
      <4>2. active # None
        BY <2>1, <4>1, Followed DEF Served
      <4>3. QED
        BY <2>1, <4>1, <4>2 DEF InFrame
    <3>2. b \in Byte
      BY InputAssumption
    <3>3. ~skew /\ active \in Dev
      BY <3>1 DEF FrameInv, InFrame, IInv, TypeOK
    <3>4. /\ sent' = Append(sent, b) /\ tx' = IF tx = <<>> THEN tx ELSE Tail(tx)
          /\ miso' = Append(miso, IF tx = <<>> THEN Stale ELSE Head(tx))
          /\ Len(rx) < RxDepth => rx' = Append(rx, b)
          /\ UNCHANGED <<skew, dma, mar, ndtr, mem>>
      BY <1>2, <3>3 DEF ClockByte
    <3>5. (phase # "WRITE" => Shipped') /\ \A f \in Seq(Byte) : f = sent' => Received(f)'
      <4>1. CASE phase = "CMD"
        <5>1. rx = <<>> /\ rx' = Append(rx, b)
          BY <2>1, <3>4, <4>1, SizeAssumption DEF Served
        <5>2. QED
          BY <2>1, <3>1, <3>2, <3>4, <4>1, <5>1, ClockCmd DEF Received, engine
      <4>2. CASE phase = "READ"
        BY <2>1, <3>1, <3>2, <3>4, <4>2, ClockRead DEF Received, engine
      <4>3. CASE phase = "WRITE"
        <5>1. rx' = Append(rx, b)
          BY <2>1, <3>4, <4>3 DEF Served
        <5>2. QED
          BY <2>1, <3>1, <3>2, <3>4, <4>3, <5>1, ClockWrite DEF Received, engine
      <4>4. QED
        BY <4>1, <4>2, <4>3 DEF IInv, TypeOK
    <3>6. Shipped'
      BY <2>1, <3>5 DEF Shipped, engine
    <3>7. IdleInv'
      BY <2>1, <3>1 DEF InFrame, IdleInv, engine
    <3>8. QED
      BY <2>2, <3>3, <3>4, <3>5, <3>6, <3>7 DEF FrameInv
  <2>5. QED
    BY <2>3, <2>4
<1>3. QED
  BY <1>1, <1>2

(* A sequence of one element.                                              *)
LEMMA OneLong ==
  ASSUME NEW S, NEW s \in Seq(S), s # <<>>, Len(s) <= 1
  PROVE  s = <<Head(s)>> /\ Len(s) = 1 /\ Tail(s) = <<>>
<1>1. Len(s) = 1 /\ Head(s) = s[1] /\ Head(s) \in S
  OBVIOUS
<1>2. <<Head(s)>> \in Seq(S) /\ Len(<<Head(s)>>) = 1 /\ <<Head(s)>>[1] = Head(s)
  BY <1>1
<1>3. s = <<Head(s)>>
  BY <1>1, <1>2, SeqEqual
<1>4. Tail(s) \in Seq(S) /\ Len(Tail(s)) = 0
  BY <1>1
<1>5. Tail(s) = <<>>
  BY <1>4
<1>6. QED
  BY <1>1, <1>3, <1>5

(* What the DMA fetches is the next slot of the burst.                     *)
LEMMA DmaFrames ==
  ASSUME IInv, LinesInv, FrameInv, DmaFetch
  PROVE  FrameInv'
<1> DEFINE s == Source(active, addr0)
           queued == 1 + Dummy[active] + (s.n - ndtr)
<1>1. /\ dma # None /\ ndtr > 0 /\ Len(tx) < TxDepth
      /\ tx' = Append(tx, mem[dma][mar]) /\ mar' = mar + 1 /\ ndtr' = ndtr - 1
      /\ UNCHANGED <<lines, rx, skew, engine, mem, handler, master, thread>>
  BY DEF DmaFetch
<1>2. phase = "READ" /\ dma = active /\ active \in Dev /\ active # None
  BY <1>1 DEF IInv, TypeOK, BurstInv
<1>3. /\ Dummy[active] \in Nat /\ s.n \in Nat /\ s.base \in Nat /\ ndtr \in Nat /\ mar \in Nat
      /\ tx \in Seq(Byte \union {Fill}) /\ miso \in Seq(Byte \union {Fill, Stale})
  <2>1. s.base \in Cell /\ s.n \in Nat
    BY <1>2, SourceInMemory DEF IInv, TypeOK
  <2>2. QED
    BY <1>2, <2>1, DeviceAssumption DEF IInv, TypeOK, LinesInv, ClockInv, Cell
<1>4. Source(active, addr0)' = s
  BY <1>1 DEF engine, Source
<1>5. \A k : Slot(k)' = Slot(k)
  BY <1>1 DEF Slot, engine
<1>6. /\ Len(tx') = Len(tx) + 1 /\ tx' # <<>> /\ tx'[Len(tx) + 1] = mem[active][mar]
      /\ \A i \in 1 .. Len(tx) : tx'[i] = tx[i]
      /\ Len(tx) \in Nat
  BY <1>1, <1>2, <1>3, AppendAt
<1>7. InFrame' = InFrame
  BY <1>1 DEF InFrame, lines, engine, handler, master
<1>8. ASSUME NEW f \in Seq(Byte), ReadPhase(f) PROVE ReadPhase(f)'
  <2>1. /\ Commanded(f) /\ IsRead(f[1])
        /\ ndtr0 = s.n /\ ndtr <= s.n /\ mar + ndtr = s.base + s.n
        /\ queued = Len(f) + Len(tx) /\ Len(f) \in Nat
    BY <1>1, <1>8 DEF ReadPhase
  <2>2. 1 + Dummy[active] + (s.n - ndtr') = Len(f) + Len(tx')
    <3>1. 1 + Dummy[active] + (s.n - (ndtr - 1)) = Len(f) + (Len(tx) + 1)
      <4>1. 1 + Dummy[active] + (s.n - ndtr) = Len(f) + Len(tx)
        BY <2>1
      <4> DEFINE d == Dummy[active]
                 n == s.n
                 l == Len(f)
                 t == Len(tx)
      <4>2. d \in Nat /\ n \in Nat /\ l \in Nat /\ t \in Nat /\ ndtr \in Nat /\ 1 + d + (n - ndtr) = l + t
        BY <1>3, <1>6, <2>1, <4>1
      <4> HIDE DEF s, d, n, l, t
      <4>3. 1 + d + (n - (ndtr - 1)) = l + (t + 1)
        BY <4>2
      <4>4. QED
        BY <4>3 DEF d, n, l, t
    <3>2. QED
      BY <1>1, <1>6, <3>1
  <2>3. ndtr' <= s.n /\ mar' + ndtr' = s.base + s.n
    <3> HIDE DEF s
    <3>1. QED
      BY <1>1, <1>3, <2>1
  <2>4. Len(tx') <= TxDepth
    BY <1>1, <1>6, SizeAssumption
  <2>5. Commanded(f)' /\ IsRead(f[1])' /\ ndtr0' = s.n /\ active' = active
    BY <1>1, <2>1 DEF Commanded, engine, IsRead
  <2>6. 1 + Dummy[active] + (s.n - ndtr') <= Len(f) + Len(tx')
    <3>1. Len(f) + Len(tx') \in Nat
      BY <1>6, <2>1
    <3>2. QED
      BY <2>2, <3>1
  <2>7. QED
    BY <1>4, <2>2, <2>3, <2>4, <2>5, <2>6 DEF ReadPhase
<1>9. ASSUME InFrame PROVE Shipped'
  <2>1. sent \in Seq(Byte) /\ Len(miso) = Len(sent) /\ Len(miso) \in Nat
    <3>1. sent \in Seq(Byte) /\ Len(miso) = Len(sent)
      BY <1>9, FrameLength
    <3>2. QED
      BY <1>3, <3>1
  <2>2. ReadPhase(sent)
    BY <1>2, <1>9, <2>1 DEF FrameInv, Received
  <2>3. /\ queued = Len(miso) + Len(tx) /\ mar + ndtr = s.base + s.n /\ ndtr <= s.n
    BY <1>1, <2>1, <2>2 DEF ReadPhase
  <2>4. Slot(Len(miso) + Len(tx) + 1) = mem[active][mar]
    <3> DEFINE j == (Len(miso) + Len(tx) + 1) - 2 - Dummy[active]
    <3>1. j \in Nat /\ j < s.n /\ s.base + j = mar
      <4>1. 1 + Dummy[active] + (s.n - ndtr) = Len(miso) + Len(tx)
        BY <2>3
      <4> DEFINE d == Dummy[active]
                 n == s.n
                 c == s.base
                 l == Len(miso)
                 t == Len(tx)
                 i == (l + t + 1) - 2 - d
      <4>2. /\ d \in Nat /\ n \in Nat /\ l \in Nat /\ t \in Nat /\ ndtr \in Nat /\ c \in Nat /\ mar \in Nat
            /\ 1 + d + (n - ndtr) = l + t /\ ndtr > 0 /\ ndtr <= n /\ mar + ndtr = c + n
        BY <1>1, <1>3, <1>6, <2>1, <2>3, <4>1
      <4> HIDE DEF s, d, n, l, t, c
      <4>3. i \in Nat /\ i < n /\ c + i = mar
        BY <4>2
      <4>4. QED
        BY <4>3 DEF d, n, l, t, c
    <3>2. QED
      BY <3>1 DEF Slot
  <2>5. /\ \A k \in 1 .. Len(miso) : miso[k] = Slot(k)
        /\ \A k \in Len(miso) + 1 .. Len(miso) + Len(tx) : tx[k - Len(miso)] = Slot(k)
    BY <1>2, <1>9 DEF FrameInv, Shipped
  <2>6. miso' = miso
    BY <1>1 DEF master
  <2>7. ASSUME NEW k \in Len(miso) + 1 .. Len(miso) + Len(tx') PROVE tx'[k - Len(miso)] = Slot(k)
    <3>1. CASE k = Len(miso) + Len(tx) + 1
      <4>1. k - Len(miso) = Len(tx) + 1
        BY <1>6, <2>1, <3>1
      <4>2. QED
        BY <1>6, <2>4, <3>1, <4>1
    <3>2. CASE k \in Len(miso) + 1 .. Len(miso) + Len(tx)
      <4>1. k - Len(miso) \in 1 .. Len(tx)
        BY <1>6, <2>1, <3>2, Window
      <4>2. QED
        BY <1>6, <2>5, <3>2, <4>1
    <3>3. k \in Len(miso) + 1 .. Len(miso) + Len(tx) \/ k = Len(miso) + Len(tx) + 1
      BY <1>6, <2>1
    <3>4. QED
      BY <3>1, <3>2, <3>3
  <2>8. QED
    BY <1>5, <2>5, <2>6, <2>7 DEF Shipped
<1>10. IdleInv'
  BY <1>1, <1>2 DEF IdleInv, engine
<1>11. phase' = "READ" /\ UNCHANGED <<skew, sent, due>>
  BY <1>1, <1>2 DEF engine, master
<1>12. InFrame' => ~skew' /\ Shipped'
  BY <1>7, <1>9, <1>11 DEF FrameInv
<1>13. ASSUME NEW f \in Seq(Byte), (InFrame' /\ f = sent') \/ (due' # <<>> /\ f = due'[1].bytes)
       PROVE  Received(f)'
  <2>1. Received(f)
    BY <1>7, <1>11, <1>13 DEF FrameInv
  <2>2. QED
    BY <1>2, <1>8, <1>11, <2>1 DEF Received
<1>14. QED
  BY <1>10, <1>12, <1>13 DEF FrameInv

(* Taking the command of a read opens its burst on the addressed cell.     *)
LEMMA TakeReadFrames ==
  ASSUME IInv, LinesInv, FrameInv, NEW b \in Byte, b = Head(rx), rx # <<>>,
         TakeReadCommand(b), UNCHANGED <<tx, skew, miso>>
  PROVE  /\ \A f \in Seq(Byte) : Received(f) => Received(f)'
         /\ InFrame => Shipped'
<1> DEFINE s == Source(active, AddrOf(b))
<1>1. /\ phase = "CMD" /\ phase' = "READ" /\ active' = active /\ IsRead(b) /\ active \in Dev
      /\ mar' = s.base /\ ndtr' = s.n /\ ndtr0' = s.n /\ cmd' = b /\ addr0' = AddrOf(b)
  BY DEF TakeReadCommand, IInv, TypeOK
<1>2. Dummy[active] \in Nat /\ s.n \in Nat /\ s.base \in Nat /\ AddrOf(b) \in Reg
  <2>1. AddrOf(b) \in Reg
    BY CommandTypes
  <2>2. s.base \in Cell /\ s.n \in Nat
    BY <1>1, <2>1, SourceInMemory
  <2>3. QED
    BY <1>1, <2>1, <2>2, DeviceAssumption DEF Cell
<1>3. Source(active, addr0)' = s
  BY <1>1 DEF Source
<1>4. ASSUME NEW f \in Seq(Byte), Received(f)
      PROVE  f = <<b>> /\ tx' = [i \in 1 .. Dummy[active] |-> Fill] /\ ReadPhase(f)'
  <2>1. rx = f /\ Len(f) <= 1 /\ tx = [i \in 1 .. 1 + Dummy[active] - Len(f) |-> Fill]
    BY <1>1, <1>4 DEF Received, CmdPhase
  <2>2. f = <<b>> /\ Len(f) = 1
    BY <2>1, OneLong
  <2>3. 1 + Dummy[active] - Len(f) = Dummy[active]
    BY <1>2, <2>2
  <2>4. tx' = [i \in 1 .. Dummy[active] |-> Fill]
    BY <2>1, <2>3
  <2>5. Len(tx') = Dummy[active]
    BY <1>2, <2>4, FillLength
  <2>6. Commanded(f)' /\ IsRead(f[1])
    BY <1>1, <2>2 DEF Commanded
  <2> HIDE DEF s
  <2>7. /\ 1 + Dummy[active] + (s.n - ndtr') = Len(f) + Len(tx')
        /\ 1 + Dummy[active] + (s.n - ndtr') <= Len(f) + Len(tx')
        /\ ndtr' <= s.n /\ ~(ndtr' < s.n)
    BY <1>1, <1>2, <2>2, <2>5
  <2>8. ReadPhase(f)'
    BY <1>1, <1>3, <2>6, <2>7 DEF ReadPhase
  <2>9. QED
    BY <2>2, <2>4, <2>8
<1>5. ASSUME InFrame PROVE Shipped'
  <2>1. sent \in Seq(Byte) /\ Len(miso) = Len(sent) /\ Received(sent)
    BY <1>5, FrameLength DEF FrameInv
  <2>2. sent = <<b>> /\ tx' = [i \in 1 .. Dummy[active] |-> Fill]
    BY <1>4, <2>1
  <2>3. Len(miso) = 1 /\ Len(tx') = Dummy[active]
    BY <1>2, <2>1, <2>2, FillLength
  <2>4. ASSUME NEW k \in 1 .. 1 + Dummy[active] PROVE Slot(k) = Fill /\ Slot(k)' = Fill
    BY <1>1, <1>2 DEF Slot
  <2>5. miso[1] = Fill
    <3>1. miso[1] = Slot(1)
      BY <1>1, <1>5, <2>3 DEF FrameInv, Shipped
    <3>2. 1 \in 1 .. 1 + Dummy[active]
      BY <1>2
    <3>3. QED
      BY <2>4, <3>1, <3>2
  <2>6. ASSUME NEW k \in Len(miso) + 1 .. Len(miso) + Len(tx') PROVE tx'[k - Len(miso)] = Slot(k)'
    <3>1. k \in 1 + 1 .. 1 + Dummy[active]
      BY <2>3
    <3>2. k \in 1 .. 1 + Dummy[active] /\ k - 1 \in 1 .. Dummy[active]
      BY <1>2, <3>1, Window
    <3>3. tx'[k - 1] = Fill
      BY <2>2, <3>2
    <3>4. QED
      BY <2>3, <2>4, <3>2, <3>3
  <2>7. ASSUME NEW k \in 1 .. Len(miso) PROVE miso[k] = Slot(k)'
    <3>1. k = 1 /\ k \in 1 .. 1 + Dummy[active]
      BY <1>2, <2>3
    <3>2. QED
      BY <2>4, <2>5, <3>1
  <2>8. miso' = miso
    OBVIOUS
  <2>9. QED
    BY <2>6, <2>7, <2>8 DEF Shipped
<1>6. QED
  BY <1>1, <1>4, <1>5 DEF Received

(* Taking the command of a write loads the write pointer.                  *)
LEMMA TakeWriteFrames ==
  ASSUME IInv, NEW b \in Byte, b = Head(rx), rx # <<>>, rx' = Tail(rx), TakeWriteCommand(b),
         NEW f \in Seq(Byte), Received(f)
  PROVE  Received(f)'
<1>1. /\ phase = "CMD" /\ phase' = "WRITE" /\ ~IsRead(b)
      /\ cmd' = b /\ addr0' = AddrOf(b) /\ addr' = AddrOf(b)
  BY DEF TakeWriteCommand
<1>2. f = <<b>> /\ rx' = <<>>
  <2>1. rx = f /\ Len(f) <= 1
    BY <1>1 DEF Received, CmdPhase
  <2>2. QED
    BY <2>1, OneLong
<1>3. AddrOf(b) % NReg = AddrOf(b) /\ AddrOf(b) \in Nat
  <2>1. AddrOf(b) \in 0 .. NReg - 1
    BY CommandTypes DEF Reg
  <2>2. QED
    BY <2>1, ModSmall, SizeAssumption
<1>4. Len(f) = 1 /\ Len(rx') = 0 /\ f # <<>> /\ f[1] = b
  BY <1>2
<1>5. AddrOf(b) + (1 - 0) - 1 = AddrOf(b)
  BY <1>3
<1>6. Commanded(f)' /\ ~IsRead(f[1])
  BY <1>1, <1>4 DEF Commanded
<1>7. addr' = (addr0' + (Len(f) - Len(rx')) - 1) % NReg /\ 1 <= Len(f) - Len(rx')
  BY <1>1, <1>3, <1>4, <1>5
<1>8. 1 .. Len(rx') = {} /\ 2 .. Len(f) - Len(rx') = {}
  BY <1>4
<1>9. WritePhase(f)'
  BY <1>6, <1>7, <1>8 DEF WritePhase
<1>10. QED
  BY <1>1, <1>9 DEF Received

(* A data byte of a write lands in the register it is for, if the master   *)
(* may write that one, and the write pointer moves on.                     *)
LEMMA TakeDataFrames ==
  ASSUME IInv, NEW b \in Byte, b = Head(rx), rx # <<>>, rx' = Tail(rx), TakeWriteData(b),
         phase = "WRITE", active # None, NEW f \in Seq(Byte), Received(f)
  PROVE  Received(f)'
<1> DEFINE m == Len(f) - Len(rx)
<1>1. WritePhase(f)
  BY DEF Received
<1>2. /\ Commanded(f) /\ ~IsRead(f[1]) /\ 1 <= m
      /\ addr = (addr0 + m - 1) % NReg
      /\ \A i \in 1 .. Len(rx) : rx[i] = f[m + i]
      /\ \A k \in 2 .. m :
           /\ Target(f, k) \in WMask[active]
           /\ \A l \in k + 1 .. m : Target(f, l) # Target(f, k)
           => mem[active][Target(f, k)] = f[k]
  BY <1>1 DEF WritePhase
<1>3. rx \in Seq(Byte) /\ addr0 \in Reg /\ active \in Dev /\ mem \in [Dev -> [Cell -> Byte]] /\ addr \in Cell
  BY SizeAssumption DEF IInv, TypeOK, Reg, Cell
<1>4. /\ Len(rx') = Len(rx) - 1 /\ 1 <= Len(rx) /\ Len(rx) \in Nat /\ b = rx[1]
      /\ \A i \in 1 .. Len(rx) - 1 : rx'[i] = rx[i + 1]
  BY <1>3, TailAt
<1>5. Len(f) \in Nat /\ m \in Nat /\ Len(f) - Len(rx') = m + 1
  BY <1>2, <1>4
<1> HIDE DEF m
<1>6. f[m + 1] = b
  BY <1>2, <1>4
<1>7. addr = Target(f, m + 1)
  <2>1. addr0 + m - 1 = addr0 + (m + 1) - 2
    BY <1>3, <1>5 DEF Reg
  <2>2. QED
    BY <1>2, <2>1 DEF Target, Commanded
<1>8. \A k : Target(f, k)' = Target(f, k)
  BY DEF Target
<1>9. UNCHANGED <<phase, cmd, addr0, active>> /\ addr' = (addr + 1) % NReg
  BY DEF TakeWriteData
<1>10. addr' = (addr0' + (m + 1) - 1) % NReg
  <2>1. addr0 + m - 1 \in Int /\ (addr0 + m - 1) + 1 = addr0 + (m + 1) - 1
    BY <1>3, <1>5 DEF Reg
  <2>2. (((addr0 + m - 1) % NReg) + 1) % NReg = ((addr0 + m - 1) + 1) % NReg
    <3> DEFINE a == addr0 + m - 1
    <3>1. a \in Int /\ 1 \in Int /\ NReg \in Nat \ {0}
      BY <2>1, SizeAssumption
    <3> HIDE DEF a
    <3>2. ((a % NReg) + 1) % NReg = (a + 1) % NReg
      BY <3>1, ModPlus
    <3>3. QED
      BY <3>2 DEF a
  <2>3. QED
    BY <1>2, <1>9, <2>1, <2>2
<1>11. ASSUME NEW i \in 1 .. Len(rx') PROVE rx'[i] = f[(m + 1) + i]
  <2>1. i \in 1 .. Len(rx) - 1 /\ i + 1 \in 1 .. Len(rx) /\ m + (i + 1) = (m + 1) + i
    BY <1>4, <1>5
  <2>2. QED
    BY <1>2, <1>4, <2>1
<1>12. \A c \in Cell : mem'[active][c] = IF c = addr /\ c \in WMask[active] THEN b ELSE mem[active][c]
  BY <1>3 DEF TakeWriteData
<1>13. ASSUME NEW k \in 2 .. m + 1, Target(f, k) \in WMask[active],
              \A l \in k + 1 .. m + 1 : Target(f, l) # Target(f, k)
       PROVE  mem'[active][Target(f, k)] = f[k]
  <2>0. Target(f, k) \in Cell
    BY <1>3, <1>13, DeviceAssumption, SizeAssumption DEF Reg, Cell
  <2>1. CASE k = m + 1
    BY <1>6, <1>7, <1>12, <1>13, <2>0, <2>1
  <2>2. CASE k \in 2 .. m
    <3>1. m + 1 \in k + 1 .. m + 1
      BY <1>5, <2>2
    <3>2. Target(f, k) # addr
      BY <1>7, <1>13, <3>1
    <3>3. \A l \in k + 1 .. m : l \in k + 1 .. m + 1
      BY <1>5, <2>2
    <3>4. mem[active][Target(f, k)] = f[k]
      BY <1>2, <1>13, <2>2, <3>3
    <3>5. QED
      BY <1>12, <2>0, <3>2, <3>4
  <2>3. k = m + 1 \/ k \in 2 .. m
    BY <1>5
  <2>4. QED
    BY <2>1, <2>2, <2>3
<1>14. /\ 1 <= m + 1
       /\ \A i \in 1 .. Len(rx') : rx'[i] = f[(m + 1) + i]
       /\ addr' = (addr0' + (m + 1) - 1) % NReg
       /\ \A k \in 2 .. m + 1 :
            /\ Target(f, k)' \in WMask[active']
            /\ \A l \in k + 1 .. m + 1 : Target(f, l)' # Target(f, k)'
            => mem'[active'][Target(f, k)'] = f[k]
  <2>1. 1 <= m + 1
    BY <1>5
  <2>2. \A k \in 2 .. m + 1 :
          /\ Target(f, k)' \in WMask[active']
          /\ \A l \in k + 1 .. m + 1 : Target(f, l)' # Target(f, k)'
          => mem'[active'][Target(f, k)'] = f[k]
    BY <1>8, <1>9, <1>13
  <2>3. QED
    BY <1>10, <1>11, <2>1, <2>2
<1>15. Commanded(f)' /\ ~IsRead(f[1])
  BY <1>2, <1>9 DEF Commanded
<1>16. WritePhase(f)'
  BY <1>5, <1>14, <1>15 DEF WritePhase
<1>17. QED
  BY <1>9, <1>16 DEF Received

(* What the RXNE handler takes goes where the frame wants it; between      *)
(* frames there is nothing to take.                                        *)
LEMMA TakeFrames ==
  ASSUME IInv, LinesInv, FrameInv, SpiTake
  PROVE  FrameInv'
<1> DEFINE b == Head(rx)
<1>1. /\ isr = "spi" /\ rx # <<>> /\ rx' = Tail(rx) /\ thr = "idle"
      /\ TakeStray \/ TakeReadCommand(b) \/ TakeWriteCommand(b) \/ TakeWriteData(b)
      /\ UNCHANGED <<lines, tx, skew, thread, master, active>>
  BY DEF SpiTake, IInv, TypeOK, ThreadInv, TakeStray, TakeReadCommand, TakeWriteCommand, TakeWriteData, engine
<1>2. b \in Byte
  BY <1>1 DEF IInv, TypeOK
<1> HIDE DEF b
<1>3. InFrame' = InFrame /\ UNCHANGED <<tx, skew, sent, miso, due, heal>>
  <2>1. isr' \in {"spi", "check"}
    BY DEF SpiTake, TakeStray, TakeReadCommand, TakeWriteCommand, TakeWriteData
  <2>2. QED
    BY <1>1, <2>1 DEF InFrame, lines, master
<1>4. IdleInv'
  <2>1. ~(heal' = "whole" /\ active' = None)
    BY <1>1 DEF FrameInv, IdleInv, master
  <2>2. QED
    BY <2>1 DEF IdleInv
<1>5. CASE active = None
  <2>1. due = <<>> /\ ~InFrame
    BY <1>5 DEF LinesInv, DueInv, InFrame
  <2>2. QED
    BY <1>3, <1>4, <2>1 DEF FrameInv
<1>6. CASE active # None
  <2>1. /\ \A f \in Seq(Byte) : Received(f) => Received(f)'
        /\ InFrame => Shipped'
    <3>1. CASE TakeReadCommand(b)
      BY <1>1, <1>2, <1>3, <3>1, TakeReadFrames DEF b
    <3>2. CASE TakeWriteCommand(b)
      <4>1. phase' = "WRITE"
        BY <3>2 DEF TakeWriteCommand
      <4>2. Shipped'
        BY <4>1 DEF Shipped
      <4>3. QED
        BY <1>1, <1>2, <3>2, <4>2, TakeWriteFrames DEF b
    <3>3. CASE TakeWriteData(b)
      <4>1. phase = "WRITE" /\ phase' = "WRITE"
        BY <1>1, <3>3 DEF TakeWriteData, IInv, TypeOK, BurstInv
      <4>2. Shipped'
        BY <4>1 DEF Shipped
      <4>3. QED
        BY <1>1, <1>2, <1>6, <3>3, <4>1, <4>2, TakeDataFrames DEF b
    <3>4. QED
      BY <1>1, <1>6, <3>1, <3>2, <3>3 DEF TakeStray
  <2>2. InFrame' => ~skew' /\ Shipped'
    BY <1>3, <2>1 DEF FrameInv
  <2>3. ASSUME NEW f \in Seq(Byte), (InFrame' /\ f = sent') \/ (due' # <<>> /\ f = due'[1].bytes)
        PROVE  Received(f)'
    BY <1>3, <2>1, <2>3 DEF FrameInv
  <2>4. QED
    BY <1>4, <2>2, <2>3 DEF FrameInv
<1>7. QED
  BY <1>5, <1>6

(* spislave_resolve opens the frames it selects on a scrubbed or a fresh   *)
(* SPI and leaves alone the frame that goes on.                            *)
LEMMA ResolveFrames ==
  ASSUME IInv, LinesInv, LinesInv', FrameInv, ResolveFast \/ ResolveAct
  PROVE  FrameInv'
<1>1. /\ snap \in SUBSET Dev /\ isr \in {"fast", "clear"} /\ thr = "idle"
      /\ isr = "fast" => active = None /\ snap # {}
  BY DEF ResolveFast, ResolveAct, LinesInv, ReadInv, IInv, TypeOK, ThreadInv, BurstInv
<1>2. /\ pr' = {} /\ UNCHANGED <<low, thread, sent, miso, heal>>
  BY DEF ResolveFast, ResolveAct, master
<1>3. due' = <<>>
  BY <1>2 DEF LinesInv, DueInv
<1>4. CASE heal # "whole"
  BY <1>2, <1>3, <1>4 DEF FrameInv, IdleInv, InFrame
<1>5. CASE heal = "whole"
  <2>1. sent = <<>>
    BY <1>1, <1>5 DEF LinesInv, ClockInv
  <2>2. snap # {} => miso = <<>>
    <3>1. low = snap \/ miso = <<>>
      BY <1>1, <1>5 DEF LinesInv, MissInv, Committed
    <3>2. low # {} => Len(miso) = 0 /\ miso \in Seq(Byte \union {Fill, Stale})
      BY <2>1 DEF LinesInv, ClockInv
    <3>3. QED
      BY <3>1, <3>2
  <2> DEFINE sel == Lowest(snap)
  <2>3. sel # None => sel \in Dev /\ snap # {}
    BY <1>1, LowestType DEF Lowest
  <2> HIDE DEF sel
  <2>4. ASSUME sel # None, Select(sel, <<Fill>>), rx' = <<>>, skew' = FALSE PROVE FrameInv'
    BY <1>2, <1>3, <2>1, <2>2, <2>3, <2>4, FrameOpened
  <2>5. active = None => rx = <<>> /\ ~skew /\ tx = <<Fill>> /\ skew \in BOOLEAN
    BY <1>1, <1>5 DEF FrameInv, IdleInv, IInv, TypeOK
  <2>6. CASE ResolveFast
    <3>1. /\ sel # None /\ sel \in Dev
      <4>1. isr = "fast" /\ snap # {}
        BY <1>1, <2>6 DEF ResolveFast
      <4>2. sel \in Dev
        BY <1>1, <4>1, LowestIn DEF sel
      <4>3. QED
        BY <4>2 DEF Dev, None
    <3>2. active = None /\ Select(sel, tx) /\ UNCHANGED <<rx, skew>>
      BY <1>1, <2>6 DEF ResolveFast, sel
    <3>3. QED
      BY <2>4, <2>5, <3>1, <3>2
  <2>7. CASE ResolveAct /\ ResolveClose
    <3>1. rx' = <<>> /\ skew' = FALSE /\ thr' = "idle"
      BY <1>1, <1>2, <2>7 DEF ResolveClose, Scrub, thread
    <3>2. CASE sel = None
      <4>1. tx' = <<Fill>> /\ active' = None
        BY <2>7, <3>2 DEF ResolveClose, sel, FrameOver
      <4>2. IdleInv' /\ ~InFrame'
        BY <3>1, <4>1 DEF IdleInv, InFrame
      <4>3. QED
        BY <1>3, <4>2 DEF FrameInv
    <3>3. CASE sel # None
      <4>1. Select(sel, <<Fill>>)
        BY <2>7, <3>3 DEF ResolveClose, sel, FrameOver
      <4>2. QED
        BY <2>4, <3>1, <3>3, <4>1
    <3>4. QED
      BY <3>2, <3>3
  <2>8. CASE ResolveAct /\ ResolveOpen
    <3>1. active = None /\ sel # None /\ Select(sel, tx) /\ UNCHANGED <<rx, skew>>
      BY <2>8 DEF ResolveOpen, sel
    <3>2. QED
      BY <2>4, <2>5, <3>1
  <2>9. CASE ResolveAct /\ ResolveKeep
    <3>1. UNCHANGED <<rx, tx, skew, mar, ndtr, engine, miso, heal, due, thr, sent, mem>>
      BY <1>2, <2>9 DEF ResolveAct, ResolveKeep, FrameOver, engine, thread
    <3>2. active = None \/ (isr = "clear" /\ active \notin pend)
      BY <2>9 DEF ResolveAct, ResolveKeep, FrameOver
    <3>3. InFrame' => InFrame
      BY <3>1, <3>2 DEF InFrame, engine
    <3>4. QED
      BY <3>1, <3>3, FrameSame
  <2>10. QED
    BY <2>6, <2>7, <2>8, <2>9 DEF ResolveAct
<1>6. QED
  BY <1>4, <1>5

(* A resync leaves the SPI idle, or the frame it cut into not whole.       *)
LEMMA ResyncFrames ==
  ASSUME IInv, LinesInv, LinesInv', FrameInv, ResyncBegin \/ ResyncEnd
  PROVE  FrameInv'
<1>1. CASE ResyncBegin
  BY <1>1 DEF ResyncBegin, FrameInv, IdleInv, InFrame
<1>2. CASE ResyncEnd
  <2>1. /\ active = None /\ active' = None /\ due' = due /\ thr = "resync" /\ thr' = "idle"
        /\ tx' = tx \o <<Fill>> /\ rx' = rx /\ skew' \in BOOLEAN
        /\ heal' = IF skew' THEN "cut" ELSE heal
    BY <1>2 DEF ResyncEnd, LinesInv, ReadInv, engine
  <2>2. due' = <<>> /\ ~InFrame'
    BY <2>1 DEF LinesInv, DueInv, InFrame
  <2>3. heal' = "whole" => rx' = <<>> /\ ~skew' /\ tx' = <<Fill>>
    <3>1. <<>> \o <<Fill>> = <<Fill>>
      OBVIOUS
    <3>2. QED
      BY <2>1, <3>1 DEF FrameInv, IdleInv
  <2>4. IdleInv'
    BY <2>1, <2>3 DEF IdleInv
  <2>5. QED
    BY <2>2, <2>4 DEF FrameInv
<1>3. QED
  BY <1>1, <1>2

(* The rest moves no byte of the frame; a commit copies to a device that   *)
(* is not the served one.                                                  *)
LEMMA OtherFrames ==
  ASSUME IInv, LinesInv, FrameInv,
         \/ SpiEnter \/ SpiExit \/ CsEnter \/ ResolveRead \/ ResolvePend
         \/ Thread /\ ~ResyncBegin /\ ~ResyncEnd
         \/ UNCHANGED vars
  PROVE  FrameInv'
<1>1. /\ UNCHANGED <<rx, tx, skew, mar, ndtr, engine, miso, heal, due, sent, pr>>
      /\ thr' = "resync" <=> thr = "resync"
  BY DEF SpiEnter, SpiExit, CsEnter, ResolveRead, ResolvePend, Thread, IrqLock, CommitCheck, CommitCopy, IrqUnlock,
         vars, spi, lines, master, thread
<1>2. active # None => mem'[active] = mem[active]
  <2>1. CASE mem' = mem
    BY <2>1
  <2>2. CASE CommitCopy
    <3>1. tdev # active /\ tdev \in Dev /\ mem \in [Dev -> [Cell -> Byte]] /\ active \in Dev \union {None}
      BY <2>2 DEF CommitCopy, IInv, TypeOK, ThreadInv
    <3>2. QED
      BY <2>2, <3>1 DEF CommitCopy
  <2>3. QED
    BY <2>1, <2>2
    DEF SpiEnter, SpiExit, CsEnter, ResolveRead, ResolvePend, Thread, IrqLock, CommitCheck, IrqUnlock, vars
<1>3. InFrame' => InFrame
  <2>1. isr' = "clear" => (isr = "clear" /\ pend' = pend) \/ pend' = pr
    BY DEF SpiEnter, SpiExit, CsEnter, ResolveRead, ResolvePend, Thread, IrqLock, CommitCheck, CommitCopy, IrqUnlock,
           vars, handler
  <2>2. QED
    BY <1>1, <2>1 DEF InFrame, engine
<1>4. QED
  BY <1>1, <1>2, <1>3, FrameSame

(* The invariant of the frame is inductive, too.                           *)
LEMMA NextFrames ==
  ASSUME Promises \subseteq Assume, IInv, LinesInv, LinesInv', FrameInv, [Next]_vars
  PROVE  FrameInv'
<1>1. CASE Master
  BY <1>1, EdgeFrames, ClockFrames DEF Master
<1>2. CASE DmaFetch
  BY <1>2, DmaFrames
<1>3. CASE Isr
  BY <1>3, TakeFrames, ResolveFrames, OtherFrames DEF Isr
<1>4. CASE Thread
  BY <1>4, ResyncFrames, OtherFrames
<1>5. CASE UNCHANGED vars
  BY <1>5, OtherFrames
<1>6. QED
  BY <1>1, <1>2, <1>3, <1>4, <1>5 DEF Next

SpiInv == IInv /\ LinesInv /\ FrameInv

(* Against a master that keeps its promises the three hold together.       *)
LEMMA FramesHold ==
  ASSUME Promises \subseteq Assume
  PROVE  Spec => []SpiInv
<1>1. Init => SpiInv
  BY InitInv, InitLines, InitFrames DEF SpiInv
<1>2. IInv /\ IInv' /\ SpiInv /\ [Next]_vars => SpiInv'
  BY NextLines, NextFrames DEF SpiInv
<1>3. QED
  BY <1>1, <1>2, InvariantHolds, PTL DEF Spec

(* With every interrupt served, the served device is the selected one,     *)
(* except after an edge that came with its line still pending, no vector   *)
(* latched, between spislave_resolve reading the pins and its clearing     *)
(* EXTI: whatever else edges, handlers and resyncs do to each other, no    *)
(* other edge is lost (spislave.c, spislave_resolve).                      *)
THEOREM LinesFollowed ==
  ASSUME Promises \subseteq Assume
  PROVE  Spec => []LinesResolved
<1>1. SpiInv => LinesResolved
  BY DEF SpiInv, LinesInv, FollowInv, LinesResolved, Quiet
<1>2. QED
  BY <1>1, FramesHold, PTL

(* A frame that was not cut and in which the master clocked bytes is       *)
(* closed and accounted before its next one is opened: none is skipped and *)
(* no two are merged, however the edges meet the handlers (spislave.c, the *)
(* bounce branch).                                                         *)
THEOREM FramesKept ==
  ASSUME Promises \subseteq Assume
  PROVE  Spec => []NoFrameLost
<1>1. SpiInv => NoFrameLost
  <2> SUFFICES ASSUME SpiInv PROVE NoFrameLost
    OBVIOUS
  <2>1. CASE due = <<>>
    BY <2>1 DEF NoFrameLost
  <2>2. CASE due # <<>>
    <3>1. due = <<[dev |-> active, bytes |-> due[1].bytes]>> /\ active \in pr
      BY <2>2 DEF SpiInv, LinesInv, DueInv
    <3>2. Len(<<[dev |-> active, bytes |-> due[1].bytes]>>) = 1
      OBVIOUS
    <3>3. Len(due) = 1 /\ ~Quiet
      BY <3>1, <3>2 DEF Quiet
    <3>4. QED
      BY <3>3 DEF NoFrameLost
  <2>3. QED
    BY <2>1, <2>2
<1>2. QED
  BY <1>1, FramesHold, PTL

(* In an uncut read burst of any length, from any register and for any     *)
(* number of dummies and any FIFO depth, the master gets the fill for the  *)
(* command, the dummies, then the device's cells in order, each once and   *)
(* whole (spislave.h: the TX DMA streams, the dummies are queued ahead).   *)
THEOREM BurstsExact ==
  ASSUME Promises \subseteq Assume
  PROVE  Spec => []BurstExact
<1>1. SpiInv => BurstExact
  <2> SUFFICES ASSUME SpiInv, Quiet, phase = "READ", heal = "whole",
                      NEW k \in 1 .. Len(miso)
               PROVE  miso[k] = Slot(k)
    BY DEF BurstExact, Slot
  <2>1. InFrame
    BY DEF Quiet, InFrame, SpiInv, IInv, BurstInv
  <2>2. QED
    BY <2>1 DEF SpiInv, FrameInv, Shipped
<1>2. QED
  BY <1>1, FramesHold, PTL

(* The close of a read reports the command and a length between what the   *)
(* master received and one FIFO more.                                      *)
LEMMA ReadDelivered ==
  ASSUME SpiInv, NEW f, due = <<[dev |-> active, bytes |-> f]>>, f \in Seq(Byte), f # <<>>,
         phase = "READ", active # None, Account(active)
  PROVE  Delivers(active, Head(due))
<1> DEFINE s == Source(active, addr0)
           n == Len(f) - 1
           owed == Dummy[active]
           shipped == IF n > owed THEN n - owed ELSE 0
<1>1. Head(due) = [dev |-> active, bytes |-> f] /\ due[1].bytes = f /\ due # <<>>
  OBVIOUS
<1>2. ReadPhase(f)
  BY <1>1 DEF SpiInv, FrameInv, Received
<1>3. /\ IsRead(f[1]) /\ cmd = f[1] /\ addr0 = AddrOf(f[1])
      /\ ndtr0 = s.n /\ ndtr <= s.n
      /\ 1 + owed + (s.n - ndtr) <= Len(f) + Len(tx)
      /\ tx # <<>> \/ ndtr > 0 => 1 + owed + (s.n - ndtr) = Len(f) + Len(tx)
      /\ ndtr < s.n => Len(tx) <= TxDepth
  BY <1>2 DEF ReadPhase, Commanded
<1>4. /\ s.n \in Nat /\ ndtr \in Nat /\ owed \in Nat /\ TxDepth \in Nat
      /\ Len(f) \in Nat /\ Len(f) # 0 /\ Len(tx) \in Nat /\ (tx = <<>> => Len(tx) = 0)
  <2>1. active \in Dev /\ addr0 \in Reg /\ ndtr \in Nat /\ tx \in Seq(Byte \union {Fill})
    BY DEF SpiInv, IInv, TypeOK
  <2>2. s.n \in Nat /\ owed \in Nat /\ TxDepth \in Nat
    BY <2>1, SourceInMemory, DeviceAssumption, SizeAssumption
  <2>3. QED
    BY <2>1, <2>2
<1>5. hook' = [dev |-> active, cmd |-> cmd, addr |-> addr0, len |-> ndtr0 - ndtr]
  BY DEF Account, FrameLen
<1>6. /\ s.n - ndtr >= IF shipped < s.n THEN shipped ELSE s.n
      /\ s.n - ndtr <= shipped + TxDepth
  <2> DEFINE q == s.n
             l == Len(f)
             t == Len(tx)
  <2>1. /\ q \in Nat /\ ndtr \in Nat /\ owed \in Nat /\ TxDepth \in Nat /\ l \in Nat /\ l # 0 /\ t \in Nat
        /\ ndtr <= q /\ 1 + owed + (q - ndtr) <= l + t
        /\ t # 0 \/ ndtr > 0 => 1 + owed + (q - ndtr) = l + t
        /\ ndtr < q => t <= TxDepth
    BY <1>3, <1>4
  <2>2. shipped = IF l - 1 > owed THEN (l - 1) - owed ELSE 0
    OBVIOUS
  <2> HIDE DEF q, l, t, s, owed, n, shipped
  <2>3. /\ q - ndtr >= IF shipped < q THEN shipped ELSE q
        /\ q - ndtr <= shipped + TxDepth
    <3>1. CASE l - 1 > owed
      BY <2>1, <2>2, <3>1
    <3>2. CASE ~(l - 1 > owed)
      BY <2>1, <2>2, <3>2
    <3>3. QED
      BY <3>1, <3>2
  <2>4. QED
    BY <2>3 DEF q
<1>7. /\ hook'.dev = active /\ hook'.cmd = f[1] /\ hook'.addr = AddrOf(f[1])
      /\ hook'.len = s.n - ndtr
  BY <1>3, <1>5
<1>8. QED
  BY <1>1, <1>3, <1>6, <1>7 DEF Delivers

(* The close of a write reports the number of its data bytes, and all of   *)
(* them have landed.                                                       *)
LEMMA WriteDelivered ==
  ASSUME SpiInv, NEW f, due = <<[dev |-> active, bytes |-> f]>>, f \in Seq(Byte), f # <<>>,
         phase = "WRITE", rx = <<>>, active # None, Account(active)
  PROVE  Delivers(active, Head(due))
<1> DEFINE n == Len(f) - 1
           a == AddrOf(f[1])
<1>1. Head(due) = [dev |-> active, bytes |-> f] /\ due[1].bytes = f /\ due # <<>>
  OBVIOUS
<1>2. WritePhase(f)
  BY <1>1 DEF SpiInv, FrameInv, Received
<1>3. Len(f) \in Nat /\ n \in Nat /\ Len(rx) = 0 /\ Len(f) - Len(rx) = Len(f)
  <2>1. Len(f) \in Nat /\ Len(f) # 0 /\ Len(rx) = 0
    OBVIOUS
  <2>2. QED
    BY <2>1
<1>4. /\ ~IsRead(f[1]) /\ cmd = f[1] /\ addr0 = a
      /\ addr = (addr0 + Len(f) - 1) % NReg
      /\ \A k \in 2 .. Len(f) :
           /\ Target(f, k) \in WMask[active]
           /\ \A l \in k + 1 .. Len(f) : Target(f, l) # Target(f, k)
           => mem[active][Target(f, k)] = f[k]
  BY <1>2, <1>3 DEF WritePhase, Commanded
<1>5. active \in Dev /\ addr0 \in 0 .. NReg - 1 /\ mem \in [Dev -> [Cell -> Byte]] /\ NReg \in Nat \ {0}
  BY SizeAssumption DEF SpiInv, IInv, TypeOK, Reg
<1>6. FrameLen = n % NReg
  <2>1. addr = (addr0 + n) % NReg
    <3>1. addr0 + Len(f) - 1 = addr0 + n
      BY <1>3, <1>5
    <3>2. QED
      BY <1>4, <3>1
  <2> HIDE DEF n
  <2>2. (((addr0 + n) % NReg) - addr0) % NReg = n % NReg
    BY <1>3, <1>5, ModBack
  <2>3. QED
    BY <2>1, <2>2 DEF FrameLen
<1>7. mem'[active] = mem[active]
  <2>1. Cleared(active, cmd, addr0, FrameLen) = {}
    BY <1>4 DEF Cleared
  <2>2. mem' = [mem EXCEPT ![active] = [c \in Cell |-> mem[active][c]]]
    BY <2>1 DEF Account
  <2>3. QED
    BY <1>5, <2>2
<1>8. hook' = [dev |-> active, cmd |-> f[1], addr |-> a, len |-> n % NReg]
  BY <1>4, <1>6 DEF Account
<1>9. hook'.dev = active /\ hook'.cmd = f[1] /\ hook'.addr = a /\ hook'.len = n % NReg
  BY <1>8
<1>10. \A k \in 2 .. Len(f) :
         /\ (a + k - 2) % NReg \in WMask[active]
         /\ \A l \in k + 1 .. Len(f) : (a + l - 2) % NReg # (a + k - 2) % NReg
         => mem'[active][(a + k - 2) % NReg] = f[k]
  BY <1>4, <1>7 DEF Target
<1>11. QED
  BY <1>1, <1>4, <1>9, <1>10 DEF Delivers

(* Every uncut frame of the master reaches the device's hook as it was     *)
(* clocked: its command, its length, and every byte written, whatever the  *)
(* interleaving of bytes, edges, handlers, commits and DMA fetches         *)
(* (spislave.c, spislave_close_hw and spislave_close_account).             *)
THEOREM FramesDelivered ==
  ASSUME Promises \subseteq Assume
  PROVE  Spec => FrameDelivered
<1>1. SpiInv /\ [Next]_vars =>
        [\A d \in Dev : frames'[d] # frames[d] /\ due # <<>> => Delivers(d, Head(due))]_vars
  <2> SUFFICES ASSUME SpiInv, [Next]_vars, NEW d \in Dev, frames'[d] # frames[d], due # <<>>
               PROVE  Delivers(d, Head(due))
    OBVIOUS
  <2>1. ResolveAct /\ ResolveClose
    BY DEF Next, Isr, Thread, Master, SpiEnter, SpiTake, SpiExit, CsEnter, ResolveRead, ResolveFast, ResolvePend,
           ResolveAct, ResolveKeep, ResolveOpen, IrqLock, CommitCheck, CommitCopy, IrqUnlock, ResyncBegin,
           ResyncEnd, CsFall, CsRise, ClockByte, DmaFetch, vars, counts
  <2>2. Account(active) /\ active # None /\ isr = "clear"
    BY <2>1 DEF ResolveAct, ResolveClose, FrameOver
  <2>3. d = active
    <3>1. frames \in [Dev -> Nat] /\ frames' = [frames EXCEPT ![active] = @ + 1]
      BY <2>2 DEF Account, SpiInv, IInv, TypeOK
    <3>2. QED
      BY <3>1
  <2> DEFINE f == due[1].bytes
  <2>4. /\ due = <<[dev |-> active, bytes |-> f]>> /\ f \in Seq(Byte) /\ f # <<>>
        /\ rx = <<>> \/ phase = "READ"
    BY <2>2 DEF SpiInv, LinesInv, DueInv
  <2> HIDE DEF f
  <2>5. phase # "CMD"
    <3>1. phase = "CMD" => CmdPhase(f)
      BY <2>4 DEF SpiInv, FrameInv, Received, f
    <3>2. QED
      BY <2>4, <3>1 DEF CmdPhase
  <2>6. phase \in {"READ", "WRITE"}
    BY <2>5 DEF SpiInv, IInv, TypeOK
  <2>7. QED
    BY <2>2, <2>3, <2>4, <2>6, ReadDelivered, WriteDelivered
<1>2. QED
  BY <1>1, FramesHold, PTL DEF Spec, FrameDelivered

(* The desync watchdog counts no byte taken with no device selected but    *)
(* in a frame that began with a resync or with an edge the engine          *)
(* overlooked, and in the frame after it (spislave_irq, s->stray).         *)
THEOREM NoStray ==
  ASSUME Promises \subseteq Assume
  PROVE  Spec => StrayFree
<1>1. SpiInv /\ [Next]_vars => [stray' = stray \/ heal # "whole"]_vars
  <2> SUFFICES ASSUME SpiInv, [Next]_vars, stray' # stray PROVE heal # "whole"
    OBVIOUS
  <2>1. SpiTake
    BY DEF Next, Isr, Thread, Master, SpiEnter, SpiExit, CsEnter, ResolveRead, ResolveFast, ResolvePend,
           ResolveAct, IrqLock, CommitCheck, CommitCopy, IrqUnlock, ResyncBegin,
           ResyncEnd, CsFall, CsRise, ClockByte, DmaFetch, vars, counts
  <2>2. active = None /\ rx # <<>>
    BY <2>1 DEF SpiTake, TakeStray, TakeReadCommand, TakeWriteCommand, TakeWriteData
  <2>3. QED
    BY <2>2 DEF SpiInv, FrameInv, IdleInv
<1>2. QED
  BY <1>1, FramesHold, PTL DEF Spec, StrayFree
=============================================================================
