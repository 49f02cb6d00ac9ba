--------------------------- MODULE HostLinkProofs ---------------------------
(* Proofs about the commands' way from the host, for every stream of lines, *)
(* every FIFO and every number of requests and bus resets.                  *)
EXTENDS HostLink, SequenceTheorems, WellFoundedInduction, TLAPS

------------------------------------------------------------------------------
(* The invariant. *)

(* Whatever is served as a packet is one. *)
Served == irq \in {"ctr", "serve_ctr"} => Ctr

(* A SETUP brings a request. *)
Asked == ep0.setup => ep0.rx \in Request

(* The pieces go on in the order they were sent: through the packet buffer, *)
(* the FIFO and the lines accepted, with gaps but never the other way.      *)
Onward ==
  /\ \A i, j \in 1 .. Len(fifo) : i < j => fifo[i] < fifo[j]
  /\ \A i \in 1 .. Len(fifo) : fifo[i] <= sent
  /\ ep1.ctr_rx => /\ \A i \in 1 .. Len(ep1.rx) : ep1.rx[i] <= sent
                   /\ \A i \in 1 .. Len(fifo) : fifo[i] < ep1.rx[1]

(* An accepted line lies before everything still on its way. *)
Behind ==
  /\ \A j \in 1 .. Len(got) : 1 <= got[j] /\ 2 * got[j] <= sent
  /\ \A i, j \in 1 .. Len(got) : i < j => got[i] < got[j]
  /\ \A j \in 1 .. Len(got), i \in 1 .. Len(fifo) : 2 * got[j] < fifo[i]
  /\ ep1.ctr_rx => \A j \in 1 .. Len(got) : 2 * got[j] < ep1.rx[1]

Inv == TypeOK /\ Served /\ Asked /\ Onward /\ Behind

(* Every nonempty set of naturals has a least element. *)
LEMMA LeastElement ==
  ASSUME NEW S \in SUBSET Nat, S # {}
  PROVE  \E m \in S : \A e \in S : m <= e
<1> DEFINE R == OpToRel(<, Nat)
<1>1. \A a, b \in Nat : a < b => <<a, b>> \in R
  BY DEF OpToRel
<1>2. IsWellFoundedOn(R, Nat)
  BY NatLessThanWellFounded
<1> HIDE DEF R
<1>3. PICK m \in S : \A e \in S : <<e, m>> \notin R
  BY <1>2, WFMin
<1>4. ASSUME NEW e \in S, e < m PROVE FALSE
  <2>1. <<e, m>> \in R
    BY <1>1, <1>4
  <2> QED BY <1>3, <2>1
<1>5. ASSUME NEW e \in S PROVE m <= e
  BY <1>4
<1> QED BY <1>5

(* The constants are positive. *)
LEMMA Constants ==
  /\ Lines \in Nat \ {0} /\ Room \in Nat \ {0} /\ Flood \in Nat \ {0}
  /\ MaxRequests \in Nat /\ MaxResets \in Nat \ {0} /\ Prompt \in BOOLEAN
BY LinkAssumption, UsbAssumption

(* A packet is one piece or two that follow each other. *)
LEMMA PacketIs ==
  ASSUME NEW p \in Packets
  PROVE  /\ p \in Seq(Piece) /\ Len(p) \in 1 .. 2 /\ p[1] \in Piece
         /\ \A i \in 1 .. Len(p) : p[i] = p[1] + i - 1
<1>1. CASE \E k \in Piece : p = <<k>>
  BY <1>1 DEF Piece
<1>2. CASE \E k \in Piece \ {2 * Lines} : p = <<k, k + 1>>
  BY <1>2, Constants DEF Piece
<1> QED BY <1>1, <1>2, PacketAssumption DEF AllPackets

(* The next pieces of the stream are a packet. *)
LEMMA NextPacket ==
  ASSUME NEW m \in Nat, NEW n \in 1 .. 2, m + n <= 2 * Lines
  PROVE  LET p == SubSeq([k \in Piece |-> k], m + 1, m + n)
         IN  p \in Packets /\ Len(p) = n /\ p[1] = m + 1
<1> DEFINE f == [k \in Piece |-> k]
           p == SubSeq(f, m + 1, m + n)
<1>1. \A i \in m + 1 .. m + n : f[i] \in Piece /\ f[i] = i
  BY Constants DEF Piece
<1>2. /\ p \in Seq(Piece) /\ Len(p) = n
      /\ \A i \in 1 .. n : p[i] = f[m + i]
  <2>1. m + 1 \in Int /\ m + n \in Int
    OBVIOUS
  <2> HIDE DEF f
  <2>2. /\ p \in Seq(Piece)
        /\ Len(p) = (IF m + 1 <= m + n THEN (m + n) - (m + 1) + 1 ELSE 0)
        /\ \A i \in 1 .. (m + n) - (m + 1) + 1 : p[i] = f[(m + 1) + i - 1]
    BY <1>1, <2>1, SubSeqProperties
  <2> HIDE DEF p
  <2> QED BY <2>2
<1>3. \A i \in 1 .. n : p[i] = m + i
  <2> HIDE DEF p, f
  <2> QED BY <1>1, <1>2
<1>4. p \in AllPackets
  <2> HIDE DEF p, f
  <2>1. CASE n = 1
    <3>1. p = <<m + 1>>
      BY <1>2, <1>3, <2>1
    <3>2. m + 1 \in Piece
      BY <2>1, Constants DEF Piece
    <3> QED BY <3>1, <3>2 DEF AllPackets
  <2>2. CASE n = 2
    <3>1. p = <<m + 1, m + 1 + 1>>
      BY <1>2, <1>3, <2>2
    <3>2. m + 1 \in Piece \ {2 * Lines}
      BY <2>2, Constants DEF Piece
    <3> QED BY <3>1, <3>2 DEF AllPackets
  <2> QED BY <2>1, <2>2
<1>5. p[1] = m + 1
  <2> HIDE DEF p, f
  <2> QED BY <1>3
<1> QED BY <1>2, <1>4, <1>5, PacketAssumption

(* The lines of pieces are lines. *)
LEMMA LinesIs ==
  ASSUME NEW s \in Seq(Piece)
  PROVE  LinesOf(s) \subseteq 1 .. Lines
<1>1. \A k \in Piece : LineOf(k) \in 1 .. Lines
  BY Constants DEF LineOf, Piece
<1>2. \A i \in DOMAIN s : s[i] \in Piece
  OBVIOUS
<1> QED BY <1>1, <1>2 DEF LinesOf, ToSet

------------------------------------------------------------------------------
(* The device. *)

(* The types of the device and its host, and of the link. *)
UsbType ==
  /\ reset \in BOOLEAN
  /\ ep0 \in [ctr_rx : BOOLEAN, setup : BOOLEAN, ctr_tx : BOOLEAN,
              stat_rx : Stat, stat_tx : Stat, rx : Request \union {"data", "empty"}]
  /\ ep1 \in [ctr_rx : BOOLEAN, stat : Stat, dtog : 0 .. 1, rx : Packets]
  /\ daddr \in {None, 0, 1}
  /\ irq \in {"idle", "reset", "ctr", "serve_reset", "serve_ctr"}
  /\ state \in {"UNATTACHED", "DEFAULT", "ADDRESS", "CONFIGURED"}
  /\ req \in Request /\ pending \in BOOLEAN /\ dtr \in BOOLEAN
  /\ stage \in {"idle", "setup", "data_in", "status_out", "data_out", "status_in"}
  /\ asked \in Request
  /\ host \in [addr : 0 .. 1, conf : BOOLEAN, dtr : BOOLEAN, toggle : 0 .. 1, up : BOOLEAN]
  /\ nreq \in 0 .. MaxRequests /\ nreset \in 0 .. MaxResets

LinkType ==
  /\ sent \in 0 .. 2 * Lines /\ fifo \in Seq(Piece) /\ Len(fifo) <= Room
  /\ got \in Seq(0 .. Lines) /\ lost \subseteq 1 .. Lines

LEMMA TypeParts == TypeOK <=> UsbType /\ LinkType
BY DEF TypeOK, UsbType, LinkType

(* The packet waiting to be served is the one that was, if any is. *)
PacketStays == ep1'.ctr_rx => ep1.ctr_rx /\ ep1'.rx = ep1.rx

(* A transfer refused. *)
LEMMA AbortType ==
  ASSUME UsbType, NEW e, Abort(e),
         e \in [ctr_rx : BOOLEAN, setup : BOOLEAN, ctr_tx : BOOLEAN,
               stat_rx : Stat, stat_tx : Stat, rx : Request \union {"data", "empty"}]
  PROVE  /\ ep0' \in [ctr_rx : BOOLEAN, setup : BOOLEAN, ctr_tx : BOOLEAN,
                     stat_rx : Stat, stat_tx : Stat, rx : Request \union {"data", "empty"}]
         /\ ep0'.setup = e.setup /\ ep0'.rx = e.rx
BY DEF Abort, Stat

(* What a request granted does to the bulk endpoint. *)
LEMMA SetType ==
  ASSUME UsbType, NEW r, SetEp1(r), SetState(r)
  PROVE  /\ ep1' \in [ctr_rx : BOOLEAN, stat : Stat, dtog : 0 .. 1, rx : Packets]
         /\ PacketStays
         /\ state' \in {"UNATTACHED", "DEFAULT", "ADDRESS", "CONFIGURED"}
         /\ dtr' \in BOOLEAN /\ daddr' = daddr
<1>1. /\ ep1' \in [ctr_rx : BOOLEAN, stat : Stat, dtog : 0 .. 1, rx : Packets]
      /\ PacketStays
  <2> DEFINE Ep1 == [ctr_rx : BOOLEAN, stat : Stat, dtog : 0 .. 1, rx : Packets]
  <2>0. ep1 \in Ep1
    BY DEF UsbType
  <2>1. CASE r = "configure" /\ state = "ADDRESS"
    BY <2>1 DEF SetEp1, UsbType, PacketStays, Stat
  <2>2. CASE r = "unconfigure" /\ state = "CONFIGURED"
    <3>1. ep1' = [ep1 EXCEPT !.ctr_rx = FALSE, !.stat = "DISABLED", !.dtog = 0]
      BY <2>2 DEF SetEp1
    <3>2. ep1' = [ctr_rx |-> FALSE, stat |-> "DISABLED", dtog |-> 0, rx |-> ep1.rx]
      BY <2>0, <3>1
    <3>3. ep1.rx \in Packets /\ 0 \in 0 .. 1 /\ "DISABLED" \in Stat
      BY <2>0 DEF Stat
    <3> QED BY <3>2, <3>3 DEF PacketStays
  <2>3. CASE r = "halt"
    BY <2>3 DEF SetEp1, UsbType, PacketStays, Stat
  <2>4. CASE r = "clear"
    <3>1. ep1' = [ep1 EXCEPT !.stat = "NAK", !.dtog = 0]
      BY <2>4 DEF SetEp1
    <3>2. ep1' = [ctr_rx |-> ep1.ctr_rx, stat |-> "NAK", dtog |-> 0, rx |-> ep1.rx]
      BY <2>0, <3>1
    <3>3. ep1.ctr_rx \in BOOLEAN /\ ep1.rx \in Packets /\ 0 \in 0 .. 1 /\ "NAK" \in Stat
      BY <2>0 DEF Stat
    <3> QED BY <3>2, <3>3 DEF PacketStays
  <2>5. CASE /\ ~(r = "configure" /\ state = "ADDRESS") /\ r # "halt" /\ r # "clear"
             /\ ~(r = "unconfigure" /\ state = "CONFIGURED")
    <3>1. ep1' = ep1
      BY <2>5 DEF SetEp1
    <3> QED BY <3>1 DEF UsbType, PacketStays
  <2> QED BY <2>1, <2>2, <2>3, <2>4, <2>5
<1>2. state' \in {"UNATTACHED", "DEFAULT", "ADDRESS", "CONFIGURED"}
  BY DEF SetState, UsbType
<1>3. dtr' \in BOOLEAN /\ daddr' = daddr
  BY DEF SetState, UsbType
<1> QED BY <1>1, <1>2, <1>3

(* The control endpoint keeps its types and the packet. *)
LEMMA ControlStep ==
  ASSUME UsbType, Asked, ServeControl
  PROVE  UsbType' /\ Served' /\ Asked' /\ PacketStays
<1> DEFINE Ep0 == [ctr_rx : BOOLEAN, setup : BOOLEAN, ctr_tx : BOOLEAN,
                   stat_rx : Stat, stat_tx : Stat, rx : Request \union {"data", "empty"}]
           Ep1 == [ctr_rx : BOOLEAN, stat : Stat, dtog : 0 .. 1, rx : Packets]
           Kept == ep0' \in Ep0 /\ ep0'.setup = ep0.setup /\ ep0'.rx = ep0.rx
           Goal == /\ Kept /\ ep1' \in Ep1 /\ PacketStays
                   /\ daddr' \in {None, 0, 1}
                   /\ state' \in {"UNATTACHED", "DEFAULT", "ADDRESS", "CONFIGURED"}
                   /\ req' \in Request /\ pending' \in BOOLEAN /\ dtr' \in BOOLEAN
<1>0. /\ irq' = "idle" /\ reset' = reset /\ stage' = stage /\ asked' = asked /\ host' = host
      /\ nreq' = nreq /\ nreset' = nreset
  BY DEF ServeControl
<1>t. /\ ep0 \in Ep0 /\ ep1 \in Ep1 /\ daddr \in {None, 0, 1} /\ req \in Request
      /\ state \in {"UNATTACHED", "DEFAULT", "ADDRESS", "CONFIGURED"}
      /\ pending \in BOOLEAN /\ dtr \in BOOLEAN
  BY DEF UsbType
<1>k. ep1' = ep1 => PacketStays
  BY DEF PacketStays
<1>1. ASSUME HandleSetup PROVE Goal
  <2> DEFINE r == ep0.rx
             e == [ep0 EXCEPT !.ctr_rx = FALSE]
  <2>1. e \in Ep0 /\ e.setup = ep0.setup /\ e.rx = ep0.rx /\ req' = r /\ r \in Request /\ pending' \in BOOLEAN
    BY <1>1, <1>t DEF HandleSetup, Asked
  <2>2. CASE r = "line_coding"
    <3>1. ep0' = [e EXCEPT !.stat_rx = "VALID"] /\ ep1' = ep1 /\ state' = state /\ dtr' = dtr /\ daddr' = daddr
      <4>1. r # "out_other" /\ r \notin SetRequest /\ r \notin GetRequest
        BY <2>2 DEF SetRequest, GetRequest
      <4> QED BY <1>1, <2>2, <4>1 DEF HandleSetup
    <3>2. Kept
      BY <2>1, <3>1 DEF Stat
    <3> QED BY <1>k, <1>t, <2>1, <3>1, <3>2
  <2>3. CASE r \in SetRequest /\ Granted(r)
    <3>1. ep0' = [e EXCEPT !.stat_tx = "VALID"] /\ SetEp1(r) /\ SetState(r)
      <4>1. r # "line_coding" /\ r # "out_other" /\ r \notin GetRequest
        BY <2>3 DEF SetRequest, GetRequest
      <4> QED BY <1>1, <2>3, <4>1 DEF HandleSetup
    <3>2. Kept
      BY <2>1, <3>1 DEF Stat
    <3>3. /\ ep1' \in Ep1 /\ PacketStays /\ dtr' \in BOOLEAN /\ daddr' = daddr
          /\ state' \in {"UNATTACHED", "DEFAULT", "ADDRESS", "CONFIGURED"}
      <4> HIDE DEF r
      <4> QED BY <3>1, SetType
    <3> QED BY <1>t, <2>1, <3>2, <3>3
  <2>4. CASE r \in GetRequest /\ Answered(r)
    <3>1. ep0' = [e EXCEPT !.stat_tx = "VALID"] /\ ep1' = ep1 /\ state' = state /\ dtr' = dtr /\ daddr' = daddr
      BY <1>1, <2>4 DEF HandleSetup, GetRequest, SetRequest
    <3>2. Kept
      BY <2>1, <3>1 DEF Stat
    <3> QED BY <1>k, <1>t, <2>1, <3>1, <3>2
  <2>5. CASE r # "line_coding" /\ ~(r \in SetRequest /\ Granted(r)) /\ ~(r \in GetRequest /\ Answered(r))
    <3>1. Abort(e) /\ ep1' = ep1 /\ state' = state /\ dtr' = dtr /\ daddr' = daddr
      BY <1>1, <2>5 DEF HandleSetup
    <3>2. Kept
      BY <2>1, <3>1, AbortType
    <3> QED BY <1>k, <1>t, <2>1, <3>1, <3>2
  <2> QED BY <2>2, <2>3, <2>4, <2>5
<1>2. ASSUME HandleSent PROVE Goal
  <2> DEFINE e == [ep0 EXCEPT !.ctr_tx = FALSE]
  <2>1. e \in Ep0 /\ e.setup = ep0.setup /\ e.rx = ep0.rx /\ (ep0' = e \/ ep0' = [e EXCEPT !.stat_rx = "VALID"])
    BY <1>2, <1>t DEF HandleSent
  <2>2. Kept
    BY <2>1 DEF Stat
  <2>3. ep1' = ep1 /\ req' = req /\ dtr' = dtr /\ pending' = FALSE
    BY <1>2 DEF HandleSent
  <2>4. daddr' \in {None, 0, 1} /\ state' \in {"UNATTACHED", "DEFAULT", "ADDRESS", "CONFIGURED"}
    BY <1>2, <1>t DEF HandleSent
  <2> QED BY <1>k, <1>t, <2>2, <2>3, <2>4
<1>3. ASSUME HandleReceived PROVE Goal
  <2>1. UNCHANGED <<ep1, daddr, state, req, pending, dtr>>
    BY <1>3 DEF HandleReceived
  <2>2. \/ ep0' = [ep0 EXCEPT !.ctr_rx = FALSE, !.stat_tx = "VALID"]
        \/ ep0' = [ep0 EXCEPT !.ctr_rx = FALSE]
        \/ Abort(ep0)
    BY <1>3 DEF HandleReceived
  <2>3. Kept
    BY <1>t, <2>2, AbortType DEF Stat
  <2> QED BY <1>k, <1>t, <2>1, <2>3
<1>4. ASSUME HandleOther PROVE Goal
  <2>1. UNCHANGED <<ep1, daddr, state, req, pending, dtr>> /\ Abort(ep0)
    BY <1>4 DEF HandleOther
  <2>2. Kept
    BY <1>t, <2>1, AbortType
  <2> QED BY <1>k, <1>t, <2>1, <2>2
<1>5. Goal
  BY <1>1, <1>2, <1>3, <1>4 DEF ServeControl
<1>6. UsbType'
  <2>1. Stat' = Stat /\ Request' = Request
    OBVIOUS
  <2> QED BY <1>0, <1>5 DEF UsbType
<1> QED BY <1>0, <1>5, <1>6 DEF Served, Asked

(* What the handler knows is kept by what leaves it and the flags alone. *)
UsbKept == UsbType' /\ Served' /\ Asked' /\ PacketStays

(* The interrupt handler loads and stores the flags. *)
LEMMA IrqStep ==
  ASSUME UsbType, Served, Asked, IrqLoad \/ IrqStore
  PROVE  UsbKept
<1>1. /\ ep0' = ep0 /\ ep1' = ep1 /\ daddr' = daddr /\ state' = state /\ req' = req
      /\ pending' = pending /\ dtr' = dtr /\ stage' = stage /\ asked' = asked
      /\ host' = host /\ nreq' = nreq /\ nreset' = nreset
  BY DEF IrqLoad, IrqStore
<1>2. irq' \in {"reset", "ctr", "serve_reset", "serve_ctr"} /\ reset' \in BOOLEAN
  BY DEF IrqLoad, IrqStore, UsbType
<1>3. UsbType'
  BY <1>1, <1>2 DEF UsbType
<1>4. Served'
  BY <1>1 DEF IrqLoad, IrqStore, Served, Ctr, Ctr0
<1> QED BY <1>1, <1>3, <1>4 DEF UsbKept, Asked, PacketStays

(* A reset served. *)
LEMMA ResetStep ==
  ASSUME UsbType, Asked, ServeReset
  PROVE  UsbKept /\ ~ep1'.ctr_rx
<1>1. /\ irq' = "idle" /\ reset' = FALSE /\ daddr' = 0 /\ state' = "DEFAULT"
      /\ pending' = FALSE /\ dtr' = FALSE /\ req' = req /\ stage' = stage /\ asked' = asked
      /\ host' = host /\ nreq' = nreq /\ nreset' = nreset
  BY DEF ServeReset
<1>2. ep1' = [ctr_rx |-> FALSE, stat |-> "DISABLED", dtog |-> 0, rx |-> ep1.rx]
  BY DEF ServeReset, UsbType
<1>3. ep1' \in [ctr_rx : BOOLEAN, stat : Stat, dtog : 0 .. 1, rx : Packets]
  <2>1. ep1.rx \in Packets /\ 0 \in 0 .. 1 /\ "DISABLED" \in Stat
    BY DEF UsbType, Stat
  <2> QED BY <1>2, <2>1
<1>4. /\ ep0' = [ctr_rx |-> FALSE, setup |-> ep0.setup, ctr_tx |-> FALSE,
                stat_rx |-> "STALL", stat_tx |-> "STALL", rx |-> ep0.rx]
      /\ ep0.setup \in BOOLEAN /\ ep0.rx \in Request \union {"data", "empty"}
  BY DEF ServeReset, UsbType
<1>5. /\ ep0' \in [ctr_rx : BOOLEAN, setup : BOOLEAN, ctr_tx : BOOLEAN,
                  stat_rx : Stat, stat_tx : Stat, rx : Request \union {"data", "empty"}]
      /\ ep0'.setup = ep0.setup /\ ep0'.rx = ep0.rx
  <2>1. "STALL" \in Stat
    BY DEF Stat
  <2> QED BY <1>4, <2>1
<1>6. UsbType'
  BY <1>1, <1>3, <1>5 DEF UsbType
<1> QED BY <1>1, <1>2, <1>5, <1>6 DEF UsbKept, Served, Asked, PacketStays

(* A bulk packet served. *)
LEMMA BulkServed ==
  ASSUME UsbType, Served, Asked, ServeBulk
  PROVE  UsbKept /\ ep1.ctr_rx /\ ~ep1'.ctr_rx
<1>1. /\ reset' = reset /\ ep0' = ep0 /\ daddr' = daddr /\ state' = state /\ req' = req
      /\ pending' = pending /\ dtr' = dtr /\ stage' = stage /\ asked' = asked
      /\ host' = host /\ nreq' = nreq /\ nreset' = nreset /\ irq' = "idle"
  BY DEF ServeBulk
<1>2. ep1' = [ctr_rx |-> FALSE, stat |-> "VALID", dtog |-> ep1.dtog, rx |-> ep1.rx]
  BY DEF ServeBulk, UsbType
<1>3. ep1' \in [ctr_rx : BOOLEAN, stat : Stat, dtog : 0 .. 1, rx : Packets]
  <2>1. ep1.rx \in Packets /\ ep1.dtog \in 0 .. 1 /\ "VALID" \in Stat
    BY DEF UsbType, Stat
  <2> QED BY <1>2, <2>1
<1>4. UsbType'
  BY <1>1, <1>3 DEF UsbType
<1>5. ep1.ctr_rx
  BY DEF ServeBulk, Served, Ctr
<1> QED BY <1>1, <1>2, <1>4, <1>5 DEF UsbKept, Served, Asked, PacketStays

(* The bus is reset: the flags stay. *)
LEMMA BusStep ==
  ASSUME UsbType, Served, Asked, BusReset
  PROVE  UsbKept
<1>1. /\ reset' = TRUE /\ daddr' = None /\ stage' = "idle" /\ nreset' = nreset + 1
      /\ nreset < MaxResets /\ asked' = asked /\ nreq' = nreq
      /\ irq' = irq /\ state' = state /\ req' = req /\ pending' = pending /\ dtr' = dtr
      /\ host' = [addr |-> 0, conf |-> FALSE, dtr |-> FALSE, toggle |-> 0, up |-> TRUE]
  BY DEF BusReset, device
<1>2. ep1' = [ctr_rx |-> ep1.ctr_rx, stat |-> "DISABLED", dtog |-> 0, rx |-> ep1.rx]
  BY DEF BusReset, UsbType
<1>3. ep1' \in [ctr_rx : BOOLEAN, stat : Stat, dtog : 0 .. 1, rx : Packets]
  <2>1. ep1.rx \in Packets /\ ep1.ctr_rx \in BOOLEAN /\ 0 \in 0 .. 1 /\ "DISABLED" \in Stat
    BY DEF UsbType, Stat
  <2> QED BY <1>2, <2>1
<1>4. /\ ep0' \in [ctr_rx : BOOLEAN, setup : BOOLEAN, ctr_tx : BOOLEAN,
                  stat_rx : Stat, stat_tx : Stat, rx : Request \union {"data", "empty"}]
      /\ ep0'.setup = ep0.setup /\ ep0'.rx = ep0.rx
      /\ ep0'.ctr_rx = ep0.ctr_rx /\ ep0'.ctr_tx = ep0.ctr_tx
  BY DEF BusReset, UsbType, Stat
<1>5. host' \in [addr : 0 .. 1, conf : BOOLEAN, dtr : BOOLEAN, toggle : 0 .. 1, up : BOOLEAN]
  <2>1. 0 \in 0 .. 1
    OBVIOUS
  <2> QED BY <1>1, <2>1
<1>6. nreset' \in 0 .. MaxResets
  BY <1>1, Constants DEF UsbType
<1>7. UsbType'
  BY <1>1, <1>3, <1>4, <1>5, <1>6 DEF UsbType
<1>8. Served' /\ Asked' /\ PacketStays
  BY <1>1, <1>2, <1>4 DEF Served, Asked, PacketStays, Ctr, Ctr0
<1> QED BY <1>7, <1>8 DEF UsbKept

(* The host begins a transfer, ... *)
LEMMA AskStep ==
  ASSUME UsbType, Served, Asked, NEW r \in Request, Ask(r)
  PROVE  UsbKept
<1>1. /\ reset' = reset /\ ep0' = ep0 /\ ep1' = ep1 /\ daddr' = daddr /\ irq' = irq
      /\ state' = state /\ req' = req /\ pending' = pending /\ dtr' = dtr
      /\ host' = host /\ nreset' = nreset /\ stage' = "setup" /\ asked' = r
      /\ nreq < MaxRequests /\ nreq' = nreq + 1
  BY DEF Ask, device
<1>2. nreq' \in 0 .. MaxRequests
  BY <1>1, Constants DEF UsbType
<1>3. UsbType'
  BY <1>1, <1>2 DEF UsbType
<1> QED BY <1>1, <1>3 DEF UsbKept, Served, Asked, PacketStays, Ctr, Ctr0

(* ... goes on with it, ... *)
LEMMA TransferStep ==
  ASSUME UsbType, Served, Asked, Setup \/ In \/ Out
  PROVE  UsbKept
<1> DEFINE Ep0 == [ctr_rx : BOOLEAN, setup : BOOLEAN, ctr_tx : BOOLEAN,
                   stat_rx : Stat, stat_tx : Stat, rx : Request \union {"data", "empty"}]
           Goal == /\ ep0' \in Ep0 /\ Asked'
                   /\ (ep0.ctr_rx => ep0'.ctr_rx) /\ (ep0.ctr_tx => ep0'.ctr_tx)
                   /\ stage' \in {"idle", "setup", "data_in", "status_out", "data_out", "status_in"}
                   /\ host' \in [addr : 0 .. 1, conf : BOOLEAN, dtr : BOOLEAN,
                                toggle : 0 .. 1, up : BOOLEAN]
<1>1. /\ reset' = reset /\ ep1' = ep1 /\ daddr' = daddr /\ irq' = irq
      /\ state' = state /\ req' = req /\ pending' = pending /\ dtr' = dtr
      /\ asked' = asked /\ nreq' = nreq /\ nreset' = nreset
  BY DEF Setup, In, Out, device
<1>t. ep0 \in Ep0 /\ asked \in Request
      /\ host \in [addr : 0 .. 1, conf : BOOLEAN, dtr : BOOLEAN, toggle : 0 .. 1, up : BOOLEAN]
  BY DEF UsbType
<1>2. ASSUME Setup PROVE Goal
  <2>1. ep0' = [ep0 EXCEPT !.ctr_rx = TRUE, !.setup = TRUE, !.rx = asked,
                           !.stat_rx = "NAK", !.stat_tx = "NAK"]
    BY <1>2 DEF Setup
  <2>2. ep0' \in Ep0 /\ ep0'.rx \in Request /\ ep0'.ctr_rx /\ ep0'.ctr_tx = ep0.ctr_tx
    BY <1>t, <2>1 DEF Stat
  <2>3. stage' \in {"data_in", "data_out", "status_in"} /\ host' = host
    <3>1. asked \in SetRequest \/ asked \in GetRequest \/ asked \in OutRequest
      BY <1>t DEF Request
    <3> QED BY <1>2, <3>1 DEF Setup, SetRequest, GetRequest, OutRequest
  <2> QED BY <1>t, <2>2, <2>3 DEF Asked
<1>3. ASSUME In PROVE Goal
  <2>1. /\ stage' \in {"idle", "status_out"} /\ (host' = host \/ Believe)
        /\ ep0' = ep0 \/ ep0' = [ep0 EXCEPT !.ctr_tx = TRUE, !.stat_tx = "NAK"]
    BY <1>3 DEF In
  <2>2. /\ ep0' \in Ep0 /\ ep0'.setup = ep0.setup /\ ep0'.rx = ep0.rx
        /\ ep0'.ctr_rx = ep0.ctr_rx /\ (ep0.ctr_tx => ep0'.ctr_tx)
    BY <1>t, <2>1 DEF Stat
  <2>3. ASSUME Believe
        PROVE  host' \in [addr : 0 .. 1, conf : BOOLEAN, dtr : BOOLEAN, toggle : 0 .. 1, up : BOOLEAN]
    <3>0. 0 \in 0 .. 1 /\ 1 \in 0 .. 1
      OBVIOUS
    <3>1. CASE asked = "address"
      BY <1>t, <2>3, <3>0, <3>1 DEF Believe
    <3>2. CASE asked = "configure"
      BY <1>t, <2>3, <3>0, <3>2 DEF Believe
    <3>3. CASE asked = "unconfigure"
      BY <1>t, <2>3, <3>3 DEF Believe
    <3>4. CASE asked = "clear"
      BY <1>t, <2>3, <3>0, <3>4 DEF Believe
    <3>5. CASE asked \in {"dtr_on", "dtr_off"}
      BY <1>t, <2>3, <3>5 DEF Believe
    <3>6. CASE asked \notin {"address", "configure", "unconfigure", "clear", "dtr_on", "dtr_off"}
      BY <1>t, <2>3, <3>6 DEF Believe
    <3> QED BY <3>1, <3>2, <3>3, <3>4, <3>5, <3>6
  <2> QED BY <1>t, <2>1, <2>2, <2>3 DEF Asked
<1>4. ASSUME Out PROVE Goal
  <2>1. /\ stage' \in {"idle", "status_in"} /\ host' = host
        /\ \/ ep0' = ep0
           \/ \E p \in {"data", "empty"} :
                ep0' = [ep0 EXCEPT !.ctr_rx = TRUE, !.setup = FALSE, !.stat_rx = "NAK", !.rx = p]
    BY <1>4 DEF Out
  <2>2. CASE ep0' = ep0
    BY <1>t, <2>1, <2>2 DEF Asked
  <2>3. ASSUME NEW p \in {"data", "empty"},
               ep0' = [ep0 EXCEPT !.ctr_rx = TRUE, !.setup = FALSE, !.stat_rx = "NAK", !.rx = p]
        PROVE  Goal
    <3>1. ep0' \in Ep0 /\ ~ep0'.setup /\ ep0'.ctr_rx /\ ep0'.ctr_tx = ep0.ctr_tx
      BY <1>t, <2>3 DEF Stat
    <3> QED BY <1>t, <2>1, <3>1 DEF Asked
  <2> QED BY <2>1, <2>2, <2>3
<1>5. Goal
  BY <1>2, <1>3, <1>4
<1>6. UsbType'
  BY <1>1, <1>5 DEF UsbType
<1> QED BY <1>1, <1>5, <1>6 DEF UsbKept, Served, PacketStays, Ctr, Ctr0

(* ... or gives it up. *)
LEMMA GiveUpStep ==
  ASSUME UsbType, Served, Asked, GiveUp
  PROVE  UsbKept
<1>1. /\ reset' = reset /\ ep0' = ep0 /\ ep1' = ep1 /\ daddr' = daddr /\ irq' = irq
      /\ state' = state /\ req' = req /\ pending' = pending /\ dtr' = dtr
      /\ asked' = asked /\ nreq' = nreq /\ nreset' = nreset /\ stage' = "idle"
      /\ host' = [host EXCEPT !.up = FALSE]
  BY DEF GiveUp, device
<1>2. host' \in [addr : 0 .. 1, conf : BOOLEAN, dtr : BOOLEAN, toggle : 0 .. 1, up : BOOLEAN]
  BY <1>1 DEF UsbType
<1>3. UsbType'
  BY <1>1, <1>2 DEF UsbType
<1> QED BY <1>1, <1>3 DEF UsbKept, Served, Asked, PacketStays, Ctr, Ctr0

(* The host sends a packet: the device takes it, or has had it. *)
LEMMA BulkStep ==
  ASSUME UsbType, Served, Asked, NEW p \in Packets, Bulk(p)
  PROVE  /\ UsbType' /\ Served' /\ Asked' /\ ~ep1.ctr_rx
         /\ ep1'.ctr_rx => ep1'.rx = p
<1>1. /\ reset' = reset /\ ep0' = ep0 /\ daddr' = daddr /\ irq' = irq
      /\ state' = state /\ req' = req /\ pending' = pending /\ dtr' = dtr
      /\ asked' = asked /\ nreq' = nreq /\ nreset' = nreset /\ stage' = stage
      /\ host' = [host EXCEPT !.toggle = 1 - host.toggle] /\ ~ep1.ctr_rx
      /\ \/ ep1' = [ep1 EXCEPT !.ctr_rx = TRUE, !.stat = "NAK", !.dtog = 1 - ep1.dtog, !.rx = p]
         \/ ep1' = ep1
  BY DEF Bulk, device
<1>2. host' \in [addr : 0 .. 1, conf : BOOLEAN, dtr : BOOLEAN, toggle : 0 .. 1, up : BOOLEAN]
  <2>1. host.toggle \in 0 .. 1
    BY DEF UsbType
  <2>2. 1 - host.toggle \in 0 .. 1
    BY <2>1
  <2> QED BY <1>1, <2>2 DEF UsbType
<1>3. /\ ep1' \in [ctr_rx : BOOLEAN, stat : Stat, dtog : 0 .. 1, rx : Packets]
      /\ ep1'.ctr_rx => ep1'.rx = p
  <2>0. ep1 \in [ctr_rx : BOOLEAN, stat : Stat, dtog : 0 .. 1, rx : Packets]
    BY DEF UsbType
  <2>1. CASE ep1' = ep1
    BY <1>1, <2>0, <2>1
  <2>2. CASE ep1' = [ep1 EXCEPT !.ctr_rx = TRUE, !.stat = "NAK", !.dtog = 1 - ep1.dtog, !.rx = p]
    <3>1. ep1.dtog \in 0 .. 1
      BY <2>0
    <3>2. 1 - ep1.dtog \in 0 .. 1 /\ "NAK" \in Stat
      BY <3>1 DEF Stat
    <3>3. ep1' = [ctr_rx |-> TRUE, stat |-> "NAK", dtog |-> 1 - ep1.dtog, rx |-> p]
      BY <2>0, <2>2
    <3> QED BY <3>2, <3>3
  <2> QED BY <1>1, <2>1, <2>2
<1>4. UsbType'
  BY <1>1, <1>2, <1>3 DEF UsbType
<1>5. Served' /\ Asked'
  <2>1. irq \in {"ctr", "serve_ctr"} => Ctr0
    BY <1>1 DEF Served, Ctr
  <2> QED BY <1>1, <2>1 DEF Served, Asked, Ctr, Ctr0
<1> QED BY <1>1, <1>3, <1>4, <1>5

------------------------------------------------------------------------------
(* The control transfers, and what device and host know of each other. *)

(* The device is where a host would have it that gave it address a, ...     *)
Agree(a, c, l, t) ==
  /\ daddr = a /\ dtr = l /\ (c => a = 1)
  /\ state = (IF c THEN "CONFIGURED" ELSE IF a = 1 THEN "ADDRESS" ELSE "DEFAULT")
  /\ IF c THEN ep1.stat # "DISABLED" /\ ep1.dtog = t
          ELSE ep1.stat = "DISABLED" /\ ep1.dtog = 0 /\ ~ep1.ctr_rx

(* ... as this one has, ... *)
Even == Agree(host.addr, host.conf, host.dtr, host.toggle)

(* ... as it will once it hears that its request was granted, ... *)
Ahead == Agree(host.addr,
               asked = "configure" \/ (host.conf /\ asked # "unconfigure"),
               IF asked \in {"dtr_on", "dtr_off"} THEN asked = "dtr_on" ELSE host.dtr,
               IF asked \in {"configure", "clear"} THEN 0 ELSE host.toggle)

(* ... or had before its address was acknowledged. *)
Due == host.addr = 1 /\ ~host.conf /\ Agree(0, FALSE, host.dtr, host.toggle)

NewSetup == ep0.ctr_rx /\ ep0.setup

(* From a reset of the bus until the device has served it, or for good if   *)
(* it was missed: nothing the host sends is heard.                          *)
Cut ==
  /\ stage \in {"idle", "setup"}
  /\ host.addr = 0 /\ ~host.conf /\ ~host.dtr /\ host.toggle = 0
  /\ \/ daddr = None /\ (ep0.ctr_tx => ep0.stat_rx = "DISABLED")
     \/ daddr = 1 /\ ep0.stat_rx = "DISABLED" /\ ~Ctr0

(* Between two transfers, the last event of the first one perhaps to come. *)
AtRest ==
  /\ stage \in {"idle", "setup"} /\ ~NewSetup
  /\ IF ep0.ctr_tx /\ ~pending /\ req = "address" THEN Due ELSE Even

(* The SETUP has come. *)
Begun ==
  /\ \/ stage = "status_in" /\ asked \in SetRequest
     \/ stage = "data_in" /\ asked \in GetRequest
     \/ stage = "data_out" /\ asked \in OutRequest
  /\ NewSetup /\ ep0.rx = asked /\ ep0.stat_rx = "NAK" /\ ep0.stat_tx = "NAK" /\ Even

(* Granted: the acknowledge is ready for the host. *)
Done ==
  /\ stage = "status_in" /\ ~Ctr0 /\ ep0.stat_tx = "VALID"
  /\ req = asked /\ (asked = "address" => ~pending) /\ Ahead

(* Refused, or the data of SET_LINE_CODING to be served. *)
Refused ==
  /\ stage = "status_in" /\ ~NewSetup /\ ~ep0.ctr_tx /\ ep0.stat_tx # "VALID"
  /\ (ep0.ctr_rx => asked = "line_coding" /\ req = "line_coding") /\ Even

(* A GET is answered, and its answer acknowledged. *)
Reply ==
  \/ /\ stage = "data_in" /\ asked \in GetRequest /\ ~Ctr0 /\ Even
     /\ ep0.stat_tx = "VALID" => ep0.stat_rx = "NAK" /\ req = asked
  \/ /\ stage = "status_out" /\ ~ep0.ctr_rx /\ Even
     /\ ep0.ctr_tx => ep0.stat_rx = "NAK" /\ req # "address"

(* Data is awaited, or refused. *)
Data ==
  /\ stage = "data_out" /\ ~Ctr0 /\ Even
  /\ ep0.stat_rx = "VALID" => ep0.stat_tx # "VALID" /\ req = "line_coding" /\ asked = "line_coding"

(* From the reset served to the next one. *)
Joined ==
  /\ ~reset /\ irq \in {"idle", "ctr", "serve_ctr"} /\ ep0.stat_rx # "DISABLED" /\ daddr # None
  /\ AtRest \/ Begun \/ Done \/ Refused \/ Reply \/ Data

Protocol ==
  /\ irq \in {"reset", "serve_reset"} => reset
  /\ ~(ep0.ctr_rx /\ ep0.ctr_tx)
  /\ stage # "idle" => Sensible(asked)
  /\ Cut \/ Joined

(* The same device and host, by the fields that tell them. *)
LEMMA AgreeStays ==
  ASSUME NEW a, NEW c, NEW l, NEW t, Agree(a, c, l, t), UNCHANGED <<ep1, daddr, state, dtr>>
  PROVE  Agree(a, c, l, t)'
BY DEF Agree

(* It holds at the start. *)
LEMMA ProtocolInit == Init => Protocol
BY DEF Init, UsbInit, Protocol, Cut

(* The handler's flags. *)
LEMMA ProtocolIrq ==
  ASSUME UsbType, Protocol, IrqLoad \/ IrqStore
  PROVE  Protocol'
<1>1. /\ ep0' = ep0 /\ ep1' = ep1 /\ daddr' = daddr /\ state' = state /\ req' = req
      /\ pending' = pending /\ dtr' = dtr /\ stage' = stage /\ asked' = asked /\ host' = host
  BY DEF IrqLoad, IrqStore
<1>2. /\ irq' \in {"reset", "serve_reset"} => reset'
      /\ ~reset => ~reset' /\ (irq \in {"idle", "ctr", "serve_ctr"} => irq' \in {"ctr", "serve_ctr"})
  <2>1. irq \in {"reset", "serve_reset"} => reset
    BY DEF Protocol
  <2> QED BY <2>1 DEF IrqLoad, IrqStore, UsbType
<1>3. Cut => Cut'
  BY <1>1 DEF Cut, Ctr0
<1>4. Joined => Joined'
  <2>1. AtRest => AtRest'
    BY <1>1 DEF AtRest, NewSetup, Even, Due, Agree
  <2>2. Begun => Begun'
    BY <1>1 DEF Begun, NewSetup, Even, Agree
  <2>3. Done => Done'
    BY <1>1 DEF Done, Ctr0, Ahead, Agree
  <2>4. (Refused => Refused') /\ (Reply => Reply') /\ (Data => Data')
    BY <1>1 DEF Refused, Reply, Data, NewSetup, Ctr0, Even, Agree
  <2> QED BY <1>1, <1>2, <2>1, <2>2, <2>3, <2>4 DEF Joined
<1> QED BY <1>1, <1>2, <1>3, <1>4 DEF Protocol, Sensible

(* The reset served: device and host start together. *)
LEMMA ProtocolReset ==
  ASSUME UsbType, Protocol, ServeReset
  PROVE  Protocol'
<1>1. /\ irq' = "idle" /\ reset' = FALSE /\ daddr' = 0 /\ state' = "DEFAULT"
      /\ dtr' = FALSE /\ stage' = stage /\ asked' = asked /\ host' = host /\ irq = "serve_reset"
  BY DEF ServeReset
<1>2. ~ep1'.ctr_rx /\ ep1'.stat = "DISABLED" /\ ep1'.dtog = 0
  BY DEF ServeReset, UsbType
<1>3. ~ep0'.ctr_rx /\ ~ep0'.ctr_tx /\ ep0'.stat_rx = "STALL"
  BY DEF ServeReset, UsbType
<1>4. Cut
  BY <1>1 DEF Protocol, Joined
<1>5. Even' /\ AtRest'
  <2>1. host'.addr = 0 /\ ~host'.conf /\ host'.dtr = FALSE
    BY <1>1, <1>4 DEF Cut, UsbType
  <2>2. Agree(0, FALSE, FALSE, 0)'
    BY <1>1, <1>2 DEF Agree
  <2>3. Even'
    BY <2>1, <2>2 DEF Even, Agree
  <2> QED BY <1>1, <1>3, <1>4, <2>3 DEF Cut, AtRest, NewSetup
<1>6. Joined'
  BY <1>1, <1>3, <1>5 DEF Joined, None
<1> QED BY <1>1, <1>3, <1>6 DEF Protocol, Sensible

(* The bus is reset: the host starts anew, the device has yet to notice. *)
LEMMA ProtocolBus ==
  ASSUME UsbType, Protocol, BusReset
  PROVE  Protocol'
<1>1. /\ reset' = TRUE /\ daddr' = None /\ stage' = "idle"
      /\ host' = [addr |-> 0, conf |-> FALSE, dtr |-> FALSE, toggle |-> 0, up |-> TRUE]
  BY DEF BusReset
<1>2. ep0'.stat_rx = "DISABLED" /\ ep0'.ctr_rx = ep0.ctr_rx /\ ep0'.ctr_tx = ep0.ctr_tx
  BY DEF BusReset, UsbType
<1> QED BY <1>1, <1>2 DEF Protocol, Cut

(* The host asks. *)
LEMMA ProtocolAsk ==
  ASSUME UsbType, Protocol, NEW r \in Request, Ask(r)
  PROVE  Protocol'
<1>1. /\ reset' = reset /\ ep0' = ep0 /\ ep1' = ep1 /\ daddr' = daddr /\ irq' = irq
      /\ state' = state /\ req' = req /\ pending' = pending /\ dtr' = dtr
      /\ host' = host /\ stage = "idle" /\ stage' = "setup" /\ asked' = r /\ Sensible(r)
  BY DEF Ask, device
<1>2. Sensible(asked)'
  BY <1>1 DEF Sensible
<1>3. Cut => Cut'
  BY <1>1 DEF Cut, Ctr0
<1>4. Joined => AtRest
  BY <1>1 DEF Joined, Begun, Done, Refused, Reply, Data
<1>5. AtRest => AtRest'
  BY <1>1 DEF AtRest, NewSetup, Even, Due, Agree
<1> QED BY <1>1, <1>2, <1>3, <1>4, <1>5 DEF Protocol, Joined

(* The SETUP is taken. *)
LEMMA ProtocolSetup ==
  ASSUME UsbType, Protocol, Prompt, Setup
  PROVE  Protocol'
<1>1. /\ reset' = reset /\ ep1' = ep1 /\ daddr' = daddr /\ irq' = irq
      /\ state' = state /\ req' = req /\ pending' = pending /\ dtr' = dtr
      /\ host' = host /\ stage = "setup" /\ asked' = asked /\ daddr = host.addr
      /\ ep0.stat_rx # "DISABLED" /\ ~ep0.ctr_rx /\ ~ep0.ctr_tx
  BY DEF Setup, Reached, device
<1>2. /\ ep0'.ctr_rx /\ ep0'.setup /\ ~ep0'.ctr_tx /\ ep0'.rx = asked
      /\ ep0'.stat_rx = "NAK" /\ ep0'.stat_tx = "NAK"
  BY <1>1 DEF Setup, UsbType
<1>3. \/ stage' = "status_in" /\ asked \in SetRequest
      \/ stage' = "data_in" /\ asked \in GetRequest
      \/ stage' = "data_out" /\ asked \in OutRequest
  BY DEF Setup, UsbType, Request, SetRequest, GetRequest, OutRequest
<1>4. Joined /\ AtRest /\ Even
  <2>1. ~Cut
    BY <1>1 DEF Cut, None
  <2>2. Joined /\ AtRest
    BY <1>1, <2>1 DEF Protocol, Joined, Begun, Done, Refused, Reply, Data
  <2> QED BY <1>1, <2>2 DEF AtRest
<1>5. Begun'
  <2>1. Even'
    BY <1>1, <1>4 DEF Even, Agree
  <2> QED BY <1>1, <1>2, <1>3, <2>1 DEF Begun, NewSetup
<1>6. Sensible(asked)'
  BY <1>1 DEF Protocol, Sensible
<1> QED BY <1>1, <1>2, <1>4, <1>5, <1>6 DEF Protocol, Joined

(* An IN moves a transfer on, or ends it: the host believes what was granted. *)
LEMMA ProtocolIn ==
  ASSUME UsbType, Protocol, In
  PROVE  Protocol'
<1>1. /\ reset' = reset /\ ep1' = ep1 /\ daddr' = daddr /\ irq' = irq
      /\ state' = state /\ req' = req /\ pending' = pending /\ dtr' = dtr
      /\ stage \in {"data_in", "status_in"} /\ asked' = asked
  BY DEF In, device
<1>2. Joined /\ (Begun \/ Done \/ Refused \/ Reply)
  BY <1>1 DEF Protocol, Cut, Joined, AtRest, Data
<1>3. CASE ep0.stat_tx = "STALL" /\ stage' = "idle" /\ UNCHANGED <<ep0, host>>
  <2>1. ~Begun /\ ~Done
    BY <1>3 DEF Begun, Done
  <2>2. ~NewSetup /\ ~ep0.ctr_tx /\ Even
    BY <1>1, <1>2, <2>1 DEF Refused, Reply, Ctr0, NewSetup
  <2>3. AtRest'
    BY <1>1, <1>3, <2>2 DEF AtRest, NewSetup, Even, Agree
  <2> QED BY <1>1, <1>2, <1>3, <2>3 DEF Protocol, Joined
<1>4. CASE /\ ep0.stat_tx = "VALID"
           /\ ep0' = [ep0 EXCEPT !.ctr_tx = TRUE, !.stat_tx = "NAK"]
           /\ IF stage = "data_in" THEN stage' = "status_out" /\ UNCHANGED host
                                   ELSE stage' = "idle" /\ Believe
  <2>1. /\ ep0'.ctr_tx /\ ep0'.stat_rx = ep0.stat_rx /\ ep0'.ctr_rx = ep0.ctr_rx
        /\ ep0'.setup = ep0.setup
    BY <1>4 DEF UsbType
  <2>2. ~Begun /\ ~Refused /\ ~ep0.ctr_rx
    BY <1>2, <1>4 DEF Begun, Done, Refused, Reply, Ctr0
  <2>3. CASE stage = "data_in"
    <3>1. stage' = "status_out" /\ host' = host
      BY <1>4, <2>3
    <3>2. Even /\ ep0.stat_rx = "NAK" /\ req \in GetRequest
      BY <1>2, <1>4, <2>2, <2>3 DEF Done, Reply
    <3>3. Even'
      BY <1>1, <3>1, <3>2 DEF Even, Agree
    <3>4. Reply'
      BY <1>1, <2>1, <2>2, <3>1, <3>2, <3>3 DEF Reply, GetRequest
    <3>5. Sensible(asked)'
      BY <1>1, <2>3, <3>1 DEF Protocol, Sensible
    <3> QED BY <1>1, <1>2, <2>1, <2>2, <3>1, <3>4, <3>5 DEF Protocol, Joined
  <2>4. CASE stage = "status_in"
    <3>1. stage' = "idle" /\ Believe
      BY <1>4, <2>4
    <3>2. req = asked /\ (asked = "address" => ~pending) /\ Ahead
      BY <1>2, <2>2, <2>4 DEF Done, Reply
    <3>3. Sensible(asked)
      BY <2>4 DEF Protocol
    <3>4. AtRest'
      <4>0. host \in [addr : 0 .. 1, conf : BOOLEAN, dtr : BOOLEAN, toggle : 0 .. 1, up : BOOLEAN]
        BY DEF UsbType
      <4>1. CASE asked = "address"
        <5>1. /\ host'.addr = 1 /\ host'.conf = host.conf /\ host'.dtr = host.dtr
              /\ host'.toggle = host.toggle
          BY <3>1, <4>0, <4>1 DEF Believe
        <5>2. Agree(0, host.conf, host.dtr, host.toggle)
          <6>1. host.addr = 0
            BY <3>3, <4>1 DEF Sensible
          <6>2. asked \notin {"configure", "unconfigure", "clear", "dtr_on", "dtr_off"}
            BY <4>1
          <6> QED BY <3>2, <6>1, <6>2 DEF Ahead, Agree
        <5>3. host.conf = FALSE
          BY <4>0, <5>2 DEF Agree
        <5>4. Due'
          BY <1>1, <5>1, <5>2, <5>3 DEF Due, Agree
        <5> QED BY <1>1, <2>1, <2>2, <3>1, <3>2, <4>1, <5>4 DEF AtRest, NewSetup
      <4>2. CASE asked # "address"
        <5>1. /\ host'.addr = host.addr
              /\ host'.conf = (asked = "configure" \/ (host.conf /\ asked # "unconfigure"))
              /\ host'.dtr = (IF asked \in {"dtr_on", "dtr_off"} THEN asked = "dtr_on" ELSE host.dtr)
              /\ host'.toggle = (IF asked \in {"configure", "clear"} THEN 0 ELSE host.toggle)
          <6>1. CASE asked = "configure"
            BY <3>1, <4>0, <6>1 DEF Believe
          <6>2. CASE asked = "unconfigure"
            BY <3>1, <4>0, <6>2 DEF Believe
          <6>3. CASE asked = "clear"
            BY <3>1, <4>0, <6>3 DEF Believe
          <6>4. CASE asked \in {"dtr_on", "dtr_off"}
            BY <3>1, <4>0, <6>4 DEF Believe
          <6>5. CASE asked \notin {"address", "configure", "unconfigure", "clear", "dtr_on", "dtr_off"}
            BY <3>1, <4>0, <6>5 DEF Believe
          <6> QED BY <4>2, <6>1, <6>2, <6>3, <6>4, <6>5
        <5>2. Even'
          BY <1>1, <3>2, <5>1 DEF Ahead, Even, Agree
        <5> QED BY <1>1, <2>1, <2>2, <3>1, <3>2, <4>2, <5>2 DEF AtRest, NewSetup
      <4> QED BY <4>1, <4>2
    <3> QED BY <1>1, <1>2, <2>1, <2>2, <3>1, <3>4 DEF Protocol, Joined
  <2> QED BY <1>1, <2>3, <2>4
<1> QED BY <1>3, <1>4 DEF In

(* An OUT brings the data, or the host's status. *)
LEMMA ProtocolOut ==
  ASSUME UsbType, Protocol, Out
  PROVE  Protocol'
<1>1. /\ reset' = reset /\ ep1' = ep1 /\ daddr' = daddr /\ irq' = irq
      /\ state' = state /\ req' = req /\ pending' = pending /\ dtr' = dtr
      /\ host' = host /\ stage \in {"data_out", "status_out"} /\ asked' = asked
  BY DEF Out, device
<1>2. Joined /\ (Begun \/ Reply \/ Data)
  BY <1>1 DEF Protocol, Cut, Joined, AtRest, Done, Refused
<1>3. Even'
  BY <1>1, <1>2 DEF Begun, Reply, Data, Even, Agree
<1>4. CASE ep0.stat_rx = "STALL" /\ stage' = "idle" /\ UNCHANGED ep0
  <2>1. ~Begun
    BY <1>4 DEF Begun
  <2>2. ~ep0.ctr_rx /\ ~ep0.ctr_tx
    BY <1>1, <1>2, <1>4, <2>1 DEF Reply, Data, Ctr0
  <2>3. AtRest'
    BY <1>1, <1>3, <1>4, <2>2 DEF AtRest, NewSetup
  <2> QED BY <1>1, <1>2, <1>4, <2>3 DEF Protocol, Joined
<1>5. CASE /\ ep0.stat_rx = "VALID"
           /\ ep0' = [ep0 EXCEPT !.ctr_rx = TRUE, !.setup = FALSE, !.stat_rx = "NAK",
                                 !.rx = IF stage = "data_out" THEN "data" ELSE "empty"]
           /\ stage' = IF stage = "data_out" THEN "status_in" ELSE "idle"
  <2>1. /\ ~ep0'.setup /\ ep0'.stat_rx = "NAK" /\ ep0'.ctr_tx = ep0.ctr_tx
        /\ ep0'.stat_tx = ep0.stat_tx
    BY <1>5 DEF UsbType
  <2>2. ~Begun
    BY <1>5 DEF Begun
  <2>3. ~ep0.ctr_tx
    BY <1>1, <1>2, <1>5, <2>2 DEF Reply, Data, Ctr0
  <2>4. CASE stage = "data_out"
    <3>1. ep0.stat_tx # "VALID" /\ req = "line_coding" /\ asked = "line_coding"
      BY <1>2, <1>5, <2>2, <2>4 DEF Reply, Data
    <3>2. Refused'
      BY <1>1, <1>3, <1>5, <2>1, <2>3, <2>4, <3>1 DEF Refused, NewSetup
    <3>3. Sensible(asked)'
      BY <1>1, <2>4 DEF Protocol, Sensible
    <3> QED BY <1>1, <1>2, <2>1, <2>3, <3>2, <3>3 DEF Protocol, Joined
  <2>5. CASE stage = "status_out"
    <3>1. AtRest'
      BY <1>1, <1>3, <1>5, <2>1, <2>3, <2>5 DEF AtRest, NewSetup
    <3> QED BY <1>1, <1>2, <1>5, <2>1, <2>3, <2>5, <3>1 DEF Protocol, Joined
  <2> QED BY <1>1, <2>4, <2>5
<1> QED BY <1>4, <1>5 DEF Out

(* Only a device that missed a reset is given up. *)
LEMMA ProtocolGiveUp ==
  ASSUME UsbType, Protocol, GiveUp
  PROVE  Protocol'
<1>1. /\ reset' = reset /\ ep0' = ep0 /\ daddr' = daddr /\ irq' = irq /\ stage' = "idle"
      /\ (daddr = None \/ ep0.stat_rx = "DISABLED")
  BY DEF GiveUp, Deaf, device
<1>2. /\ host'.addr = host.addr /\ host'.conf = host.conf /\ host'.dtr = host.dtr
      /\ host'.toggle = host.toggle
  BY DEF GiveUp, UsbType
<1>3. Cut
  BY <1>1 DEF Protocol, Joined
<1>4. Cut'
  BY <1>1, <1>2, <1>3 DEF Cut, Ctr0
<1> QED BY <1>1, <1>4 DEF Protocol

(* A packet is taken: the toggles agree, and go on agreeing. *)
LEMMA ProtocolBulk ==
  ASSUME UsbType, Protocol, NEW p, Bulk(p)
  PROVE  Protocol' /\ ep1'.ctr_rx /\ ep1'.rx = p
<1>1. /\ reset' = reset /\ ep0' = ep0 /\ daddr' = daddr /\ irq' = irq
      /\ state' = state /\ req' = req /\ pending' = pending /\ dtr' = dtr
      /\ asked' = asked /\ stage' = stage /\ host.conf /\ daddr = host.addr
      /\ ep1.stat = "VALID" /\ ~ep1.ctr_rx
      /\ ~(stage # "idle" /\ asked \in {"unconfigure", "halt", "clear"})
  BY DEF Bulk, Reached, device
<1>2. /\ host'.addr = host.addr /\ host'.conf = host.conf /\ host'.dtr = host.dtr
      /\ host'.toggle = 1 - host.toggle
  BY DEF Bulk, UsbType
<1>3. ~Cut
  BY <1>1 DEF Cut
<1>4. Joined
  BY <1>3 DEF Protocol
<1>5. Ahead => Even \/ (asked \in {"dtr_on", "dtr_off"} /\ ep1.dtog = host.toggle /\ state = "CONFIGURED")
              \/ asked = "configure" \/ asked = "unconfigure" \/ asked = "clear"
  BY <1>1 DEF Ahead, Even, Agree
<1>6. Done => asked # "configure"
  BY <1>1 DEF Done, Protocol, Sensible
<1>7. ep1.dtog = host.toggle
  <2>1. Even => ep1.dtog = host.toggle
    BY <1>1 DEF Even, Agree
  <2>2. Done => ep1.dtog = host.toggle
    BY <1>1, <1>5, <1>6, <2>1 DEF Done
  <2>3. AtRest => ep1.dtog = host.toggle
    BY <1>1, <2>1 DEF AtRest, Due
  <2> QED BY <1>4, <2>1, <2>2, <2>3 DEF Joined, Begun, Refused, Reply, Data
<1>8. ep1' = [ctr_rx |-> TRUE, stat |-> "NAK", dtog |-> 1 - host.toggle, rx |-> p]
  BY <1>7 DEF Bulk, UsbType
<1>9. /\ ep1'.ctr_rx /\ ep1'.rx = p /\ ep1'.stat = "NAK" /\ ep1'.dtog = host'.toggle
  BY <1>2, <1>8
<1>10. Even => Even'
  BY <1>1, <1>2, <1>9 DEF Even, Agree
<1>11. Joined'
  <2>1. AtRest => AtRest'
    BY <1>1, <1>10 DEF AtRest, NewSetup, Due
  <2>2. (Begun => Begun') /\ (Refused => Refused') /\ (Reply => Reply') /\ (Data => Data')
    BY <1>1, <1>10 DEF Begun, Refused, Reply, Data, NewSetup, Ctr0
  <2>3. Done => Done'
    <3> SUFFICES ASSUME Done PROVE Done'
      OBVIOUS
    <3>1. asked \notin {"unconfigure", "halt", "clear", "configure"}
      BY <1>1, <1>6 DEF Done
    <3>2. Ahead'
      BY <1>1, <1>2, <1>9, <3>1 DEF Done, Ahead, Agree
    <3> QED BY <1>1, <3>2 DEF Done, Ctr0
  <2> QED BY <1>1, <1>4, <2>1, <2>2, <2>3 DEF Joined
<1>12. stage' # "idle" => Sensible(asked)'
  BY <1>1, <1>2 DEF Protocol, Sensible
<1> QED BY <1>1, <1>9, <1>11, <1>12 DEF Protocol

(* A packet served. *)
LEMMA ProtocolServe ==
  ASSUME UsbType, Served, Protocol, ServeBulk
  PROVE  Protocol'
<1>1. /\ reset' = reset /\ ep0' = ep0 /\ daddr' = daddr /\ state' = state /\ req' = req
      /\ pending' = pending /\ dtr' = dtr /\ stage' = stage /\ asked' = asked
      /\ host' = host /\ irq' = "idle"
  BY DEF ServeBulk
<1>2. ep1.ctr_rx /\ ~ep1'.ctr_rx /\ ep1'.stat = "VALID" /\ ep1'.dtog = ep1.dtog
  BY DEF ServeBulk, UsbType, Served, Ctr
<1>3. Cut => Cut'
  BY <1>1 DEF Cut, Ctr0
<1>4. (Even => Even') /\ (Ahead => Ahead') /\ ~Due
  BY <1>1, <1>2 DEF Even, Ahead, Due, Agree
<1>5. Joined => Joined'
  <2>1. AtRest => AtRest'
    BY <1>1, <1>4 DEF AtRest, NewSetup
  <2>2. (Begun => Begun') /\ (Refused => Refused') /\ (Reply => Reply') /\ (Data => Data')
    BY <1>1, <1>4 DEF Begun, Refused, Reply, Data, NewSetup, Ctr0
  <2>3. Done => Done'
    BY <1>1, <1>4 DEF Done, Ctr0
  <2> QED BY <1>1, <2>1, <2>2, <2>3 DEF Joined
<1> QED BY <1>1, <1>3, <1>5 DEF Protocol, Sensible

(* A request granted puts the device ahead of the host. *)
LEMMA GrantAhead ==
  ASSUME UsbType, Even, Granted(asked), Sensible(asked), asked \in SetRequest,
         SetEp1(asked), SetState(asked), UNCHANGED <<host, asked>>
  PROVE  Ahead'
<1>1. /\ daddr = host.addr /\ dtr = host.dtr /\ (host.conf => host.addr = 1)
      /\ state = (IF host.conf THEN "CONFIGURED" ELSE IF host.addr = 1 THEN "ADDRESS" ELSE "DEFAULT")
      /\ host.conf => ep1.stat # "DISABLED" /\ ep1.dtog = host.toggle
      /\ ~host.conf => ep1.stat = "DISABLED" /\ ep1.dtog = 0 /\ ~ep1.ctr_rx
  BY DEF Even, Agree
<1>2. host.addr \in 0 .. 1
  BY DEF UsbType
<1>3. daddr' = daddr /\ host' = host /\ asked' = asked
  BY DEF SetState
<1>4. CASE asked = "configure"
  <2>1. ~host.conf /\ host.addr = 1 /\ state = "ADDRESS"
    BY <1>1, <1>2, <1>4 DEF Sensible
  <2>2. ep1' = [ep1 EXCEPT !.ctr_rx = FALSE, !.stat = "VALID"]
    BY <1>4, <2>1 DEF SetEp1
  <2>3. ep1'.stat = "VALID" /\ ep1'.dtog = 0
    BY <1>1, <2>1, <2>2 DEF UsbType
  <2>4. state' = "CONFIGURED" /\ dtr' = dtr
    BY <1>4 DEF SetState
  <2> QED BY <1>1, <1>3, <1>4, <2>1, <2>3, <2>4 DEF Ahead, Agree
<1>5. CASE asked = "unconfigure"
  <2>1. host.conf /\ host.addr = 1 /\ state = "CONFIGURED"
    BY <1>1, <1>5 DEF Sensible
  <2>2. ep1' = [ep1 EXCEPT !.ctr_rx = FALSE, !.stat = "DISABLED", !.dtog = 0]
    BY <1>5, <2>1 DEF SetEp1
  <2>3. ep1'.stat = "DISABLED" /\ ep1'.dtog = 0 /\ ~ep1'.ctr_rx
    BY <2>2 DEF UsbType
  <2>4. state' = "ADDRESS" /\ dtr' = dtr
    BY <1>5 DEF SetState
  <2> QED BY <1>1, <1>3, <1>5, <2>1, <2>3, <2>4 DEF Ahead, Agree
<1>6. CASE asked \in {"halt", "clear"}
  <2>1. host.conf /\ host.addr = 1 /\ state = "CONFIGURED"
    BY <1>1, <1>6 DEF Sensible
  <2>2. state' = state /\ dtr' = dtr
    BY <1>6 DEF SetState
  <2>3. ep1'.stat # "DISABLED" /\ ep1'.dtog = (IF asked = "clear" THEN 0 ELSE ep1.dtog)
    <3>1. CASE asked = "halt"
      <4>1. ep1' = [ep1 EXCEPT !.stat = "STALL"]
        BY <3>1 DEF SetEp1
      <4> QED BY <3>1, <4>1 DEF UsbType
    <3>2. CASE asked = "clear"
      <4>1. ep1' = [ep1 EXCEPT !.stat = "NAK", !.dtog = 0]
        BY <3>2 DEF SetEp1
      <4> QED BY <3>2, <4>1 DEF UsbType
    <3> QED BY <1>6, <3>1, <3>2
  <2> QED BY <1>1, <1>3, <1>6, <2>1, <2>2, <2>3 DEF Ahead, Agree
<1>7. CASE asked \in {"dtr_on", "dtr_off"}
  <2>1. ep1' = ep1 /\ state' = state /\ dtr' = (asked = "dtr_on")
    BY <1>7 DEF SetEp1, SetState
  <2>2. /\ asked # "configure" /\ asked # "unconfigure" /\ asked # "clear"
    BY <1>7
  <2> QED BY <1>1, <1>3, <1>7, <2>1, <2>2 DEF Ahead, Agree
<1>8. CASE asked \notin {"configure", "unconfigure", "halt", "clear", "dtr_on", "dtr_off"}
  <2>1. ep1' = ep1 /\ state' = state /\ dtr' = dtr
    BY <1>8 DEF SetEp1, SetState
  <2> QED BY <1>1, <1>3, <1>8, <2>1 DEF Ahead, Agree
<1> QED BY <1>4, <1>5, <1>6, <1>7, <1>8

(* The control endpoint is served. *)
LEMMA ProtocolControl ==
  ASSUME UsbType, Protocol, ServeControl
  PROVE  Protocol'
<1> DEFINE Ep0 == [ctr_rx : BOOLEAN, setup : BOOLEAN, ctr_tx : BOOLEAN,
                   stat_rx : Stat, stat_tx : Stat, rx : Request \union {"data", "empty"}]
<1>1. /\ irq = "serve_ctr" /\ irq' = "idle" /\ reset' = reset /\ stage' = stage /\ asked' = asked
      /\ host' = host /\ Ctr0 /\ ~(ep0.ctr_rx /\ ep0.ctr_tx)
  BY DEF ServeControl, Protocol
<1>2. ep0 \in Ep0
  BY DEF UsbType
<1>3. stage' # "idle" => Sensible(asked)'
  BY <1>1 DEF Protocol, Sensible
<1>4. Joined => /\ ~reset' /\ irq' \in {"idle", "ctr", "serve_ctr"} /\ daddr # None
                /\ ep0.stat_rx # "DISABLED"
  BY <1>1 DEF Joined
<1>5. CASE HandleSetup
  <2> DEFINE r == ep0.rx
             e == [ep0 EXCEPT !.ctr_rx = FALSE]
  <2>1. NewSetup /\ ~ep0.ctr_tx
    BY <1>5 DEF HandleSetup, NewSetup
  <2>2. /\ e \in Ep0 /\ ~e.ctr_rx /\ ~e.ctr_tx /\ e.setup = ep0.setup
        /\ e.stat_rx = ep0.stat_rx /\ e.stat_tx = ep0.stat_tx
    BY <1>2, <2>1
  <2>3. req' = r /\ pending' = (r = "line_coding")
    BY <1>5 DEF HandleSetup
  <2> DEFINE Coding == /\ r = "line_coding" /\ ep0' = [e EXCEPT !.stat_rx = "VALID"]
                       /\ UNCHANGED <<ep1, state, dtr, daddr>>
             Set == /\ r \in SetRequest /\ Granted(r) /\ ep0' = [e EXCEPT !.stat_tx = "VALID"]
                    /\ SetEp1(r) /\ SetState(r)
             Answer == /\ r \in GetRequest /\ ep0' = [e EXCEPT !.stat_tx = "VALID"]
                       /\ UNCHANGED <<ep1, state, dtr, daddr>>
             Refusal == /\ r # "line_coding" /\ ep0' = [e EXCEPT !.stat_rx = "STALL", !.stat_tx = "STALL"]
                        /\ UNCHANGED <<ep1, state, dtr, daddr>>
  <2>4. Coding \/ Set \/ Answer \/ Refusal
    <3> HIDE DEF e
    <3>1. CASE r = "line_coding"
      BY <1>5, <3>1 DEF HandleSetup, SetRequest, GetRequest, e
    <3>2. CASE r \in SetRequest /\ Granted(r)
      BY <1>5, <3>2 DEF HandleSetup, SetRequest, GetRequest, e
    <3>3. CASE r \in GetRequest /\ Answered(r)
      BY <1>5, <3>3 DEF HandleSetup, SetRequest, GetRequest, e
    <3>4. CASE r # "line_coding" /\ ~(r \in SetRequest /\ Granted(r)) /\ ~(r \in GetRequest /\ Answered(r))
      BY <1>5, <3>4 DEF HandleSetup, Abort, e
    <3> QED BY <3>1, <3>2, <3>3, <3>4
  <2>5. ~ep0'.ctr_rx /\ ~ep0'.ctr_tx /\ daddr' = daddr
    <3> HIDE DEF e, r
    <3>1. daddr' = daddr
      BY <2>4 DEF SetState
    <3> QED BY <2>2, <2>4, <3>1
  <2>6. CASE Cut
    <3>1. daddr = None
      BY <1>1, <2>6 DEF Cut
    <3>2. Cut'
      BY <1>1, <2>5, <2>6, <3>1 DEF Cut
    <3> QED BY <1>1, <1>3, <2>5, <3>2 DEF Protocol
  <2>7. CASE Joined
    <3>1. Begun
      BY <2>1, <2>7 DEF Joined, AtRest, Done, Refused, Reply, Data, Ctr0, NewSetup
    <3>2. r = asked /\ ep0.stat_rx = "NAK" /\ ep0.stat_tx = "NAK" /\ Even
      BY <3>1 DEF Begun
    <3>3. CASE Coding
      <4>1. ep0'.stat_rx = "VALID" /\ ep0'.stat_tx = "NAK"
        BY <2>2, <3>2, <3>3
      <4>2. stage = "data_out" /\ asked = "line_coding"
        BY <3>1, <3>2, <3>3 DEF Begun, SetRequest, GetRequest
      <4>3. Even'
        BY <1>1, <3>2, <3>3 DEF Even, Agree
      <4>4. Data'
        BY <1>1, <2>3, <2>5, <3>2, <4>1, <4>2, <4>3 DEF Data, Ctr0
      <4>5. Joined'
        BY <1>4, <2>5, <2>7, <4>1, <4>4 DEF Joined
      <4> QED BY <1>1, <1>3, <2>5, <2>7, <4>5 DEF Protocol
    <3>4. CASE Set
      <4>1. ep0'.stat_rx = "NAK" /\ ep0'.stat_tx = "VALID"
        BY <2>2, <3>2, <3>4
      <4>2. stage = "status_in" /\ asked # "line_coding"
        BY <3>1, <3>2, <3>4 DEF Begun, SetRequest, GetRequest, OutRequest
      <4>3. Ahead'
        <5>1. Sensible(asked)
          BY <4>2 DEF Protocol
        <5>2. Granted(asked) /\ asked \in SetRequest /\ SetEp1(asked) /\ SetState(asked)
          BY <3>2, <3>4
        <5> QED BY <1>1, <3>2, <5>1, <5>2, GrantAhead
      <4>4. Done'
        BY <1>1, <2>3, <2>5, <3>2, <4>1, <4>2, <4>3 DEF Done, Ctr0
      <4>5. Joined'
        BY <1>4, <2>5, <2>7, <4>1, <4>4 DEF Joined
      <4> QED BY <1>1, <1>3, <2>5, <2>7, <4>5 DEF Protocol
    <3>5. CASE Answer
      <4>1. ep0'.stat_rx = "NAK" /\ ep0'.stat_tx = "VALID"
        BY <2>2, <3>2, <3>5
      <4>2. stage = "data_in" /\ asked \in GetRequest
        BY <3>1, <3>2, <3>5 DEF Begun, SetRequest, GetRequest, OutRequest
      <4>3. Even'
        BY <1>1, <3>2, <3>5 DEF Even, Agree
      <4>4. Reply'
        BY <1>1, <2>3, <2>5, <3>2, <4>1, <4>2, <4>3 DEF Reply, Ctr0
      <4>5. Joined'
        BY <1>4, <2>5, <2>7, <4>1, <4>4 DEF Joined
      <4> QED BY <1>1, <1>3, <2>5, <2>7, <4>5 DEF Protocol
    <3>6. CASE Refusal
      <4>1. ep0'.stat_rx = "STALL" /\ ep0'.stat_tx = "STALL"
        BY <2>2, <3>6
      <4>2. Even'
        BY <1>1, <3>2, <3>6 DEF Even, Agree
      <4>3. Refused' \/ Reply' \/ Data'
        BY <1>1, <2>5, <3>1, <4>1, <4>2 DEF Begun, Refused, Reply, Data, Ctr0, NewSetup
      <4>4. Joined'
        BY <1>4, <2>5, <2>7, <4>1, <4>3 DEF Joined
      <4> QED BY <1>1, <1>3, <2>5, <2>7, <4>4 DEF Protocol
    <3> QED BY <2>4, <3>3, <3>4, <3>5, <3>6
  <2> QED BY <2>6, <2>7 DEF Protocol
<1>6. CASE HandleSent
  <2> DEFINE e == [ep0 EXCEPT !.ctr_tx = FALSE]
             due == ~pending /\ req = "address"
  <2>1. /\ ep0.ctr_tx /\ ~ep0.ctr_rx /\ UNCHANGED <<ep1, req, dtr>>
        /\ ep0' = IF ~pending /\ req \notin SetRequest THEN [e EXCEPT !.stat_rx = "VALID"] ELSE e
        /\ IF due THEN daddr' = 1 /\ state' = "ADDRESS" ELSE UNCHANGED <<daddr, state>>
    BY <1>6 DEF HandleSent
  <2>2. /\ ~ep0'.ctr_tx /\ ~ep0'.ctr_rx /\ ep0'.setup = ep0.setup /\ ep0'.stat_tx = ep0.stat_tx
        /\ ep0'.stat_rx = "VALID" \/ ep0'.stat_rx = ep0.stat_rx
        /\ due => ep0'.stat_rx = ep0.stat_rx
    BY <1>2, <2>1 DEF SetRequest
  <2> HIDE DEF e
  <2>3. CASE Cut
    <3>1. daddr = None /\ ep0.stat_rx = "DISABLED"
      BY <1>1, <2>1, <2>3 DEF Cut
    <3>2. Cut'
      BY <1>1, <2>1, <2>2, <2>3, <3>1 DEF Cut, Ctr0
    <3> QED BY <1>1, <1>3, <2>2, <3>2 DEF Protocol
  <2>4. CASE Joined
    <3>1. AtRest \/ (Reply /\ stage = "status_out")
      BY <2>1, <2>4 DEF Joined, Begun, Done, Refused, Reply, Data, Ctr0, NewSetup
    <3>2. CASE AtRest
      <4>1. Even'
        <5>1. CASE due
          <6>1. Due
            BY <2>1, <3>2, <5>1 DEF AtRest
          <6> QED BY <1>1, <2>1, <5>1, <6>1 DEF Due, Even, Agree
        <5>2. CASE ~due
          BY <1>1, <2>1, <3>2, <5>2 DEF AtRest, Even, Agree
        <5> QED BY <5>1, <5>2
      <4>2. AtRest'
        BY <1>1, <2>2, <3>2, <4>1 DEF AtRest, NewSetup
      <4>3. Joined'
        BY <1>4, <2>1, <2>2, <2>4, <4>2 DEF Joined, None
      <4> QED BY <1>1, <1>3, <2>2, <2>4, <4>3 DEF Protocol
    <3>3. CASE Reply /\ stage = "status_out"
      <4>1. ~due /\ Even
        BY <2>1, <3>3 DEF Reply
      <4>2. Even'
        BY <1>1, <2>1, <4>1 DEF Even, Agree
      <4>3. Reply'
        BY <1>1, <2>2, <3>3, <4>2 DEF Reply
      <4>4. Joined'
        BY <1>4, <2>1, <2>2, <2>4, <4>1, <4>3 DEF Joined
      <4> QED BY <1>1, <1>3, <2>2, <2>4, <4>4 DEF Protocol
    <3> QED BY <3>1, <3>2, <3>3
  <2> QED BY <2>3, <2>4 DEF Protocol
<1>7. CASE HandleReceived
  <2>1. ep0.ctr_rx /\ ~ep0.setup /\ ~ep0.ctr_tx /\ UNCHANGED <<ep1, daddr, state, req, pending, dtr>>
    BY <1>7 DEF HandleReceived
  <2>2. \/ ep0' = [ep0 EXCEPT !.ctr_rx = FALSE, !.stat_tx = "VALID"]
        \/ ep0' = [ep0 EXCEPT !.ctr_rx = FALSE]
        \/ ep0' = [ep0 EXCEPT !.stat_rx = "STALL", !.stat_tx = "STALL"]
    BY <1>7 DEF HandleReceived, Abort
  <2>3. /\ ~ep0'.ctr_tx /\ ~ep0'.setup
        /\ \/ ~ep0'.ctr_rx /\ ep0'.stat_tx = "VALID" /\ ep0'.stat_rx = ep0.stat_rx
           \/ ~ep0'.ctr_rx /\ ep0'.stat_tx = ep0.stat_tx /\ ep0'.stat_rx = ep0.stat_rx
           \/ ep0'.stat_tx = "STALL" /\ ep0'.stat_rx = "STALL"
    BY <1>2, <2>1, <2>2
  <2>4. CASE Cut
    <3>1. Cut'
      BY <1>1, <2>1, <2>3, <2>4 DEF Cut, Ctr0
    <3> QED BY <1>1, <1>3, <2>3, <3>1 DEF Protocol
  <2>5. CASE Joined
    <3>1. AtRest \/ Refused
      BY <2>1, <2>5 DEF Joined, Begun, Done, Reply, Data, Ctr0, NewSetup
    <3>2. Even /\ Even'
      BY <1>1, <2>1, <3>1 DEF AtRest, Refused, Even, Agree
    <3>3. AtRest => AtRest'
      BY <1>1, <2>3, <3>2 DEF AtRest, NewSetup
    <3>4. ASSUME Refused PROVE Done' \/ Refused'
      <4>1. stage = "status_in" /\ asked = "line_coding" /\ req = "line_coding" /\ ep0.stat_tx # "VALID"
        BY <2>1, <3>4 DEF Refused
      <4>2. Ahead'
        BY <1>1, <3>2, <4>1 DEF Even, Ahead, Agree
      <4>3. CASE ~ep0'.ctr_rx /\ ep0'.stat_tx = "VALID"
        BY <1>1, <2>1, <2>3, <4>1, <4>2, <4>3 DEF Done, Ctr0
      <4>4. CASE ep0'.stat_tx # "VALID"
        BY <1>1, <2>1, <2>3, <3>2, <4>1, <4>4 DEF Refused, NewSetup
      <4> QED BY <2>3, <4>1, <4>3, <4>4
    <3>5. Joined'
      BY <1>4, <2>1, <2>3, <2>5, <3>1, <3>3, <3>4 DEF Joined
    <3> QED BY <1>1, <1>3, <2>3, <2>5, <3>5 DEF Protocol
  <2> QED BY <2>4, <2>5 DEF Protocol
<1>8. ~HandleOther
  BY <1>1 DEF HandleOther
<1> QED BY <1>5, <1>6, <1>7, <1>8 DEF ServeControl

------------------------------------------------------------------------------
(* The link. *)

(* Nothing moves on the link, and no packet comes. *)
LEMMA LinkStays ==
  ASSUME Inv, PacketStays, UNCHANGED <<fifo, got>>, sent' \in 0 .. 2 * Lines, sent' >= sent
  PROVE  Onward' /\ Behind'
<1>1. sent \in Int /\ sent' \in Int /\ fifo \in Seq(Piece) /\ got \in Seq(0 .. Lines)
  BY Constants DEF Inv, TypeOK
<1>2. \A i \in 1 .. Len(fifo) : fifo[i] \in Int
  BY <1>1, Constants DEF Piece
<1>3. \A j \in 1 .. Len(got) : got[j] \in Int
  BY <1>1, Constants
<1>4. ep1'.ctr_rx => /\ ep1.ctr_rx /\ ep1'.rx = ep1.rx
                     /\ \A i \in 1 .. Len(ep1.rx) : ep1.rx[i] \in Int
  <2>1. ep1.rx \in Packets
    BY DEF Inv, TypeOK
  <2>2. ep1.rx \in Seq(Piece)
    BY <2>1, PacketIs
  <2> QED BY <2>2, Constants DEF PacketStays, Piece
<1>5. Onward'
  BY <1>1, <1>2, <1>4 DEF Inv, Onward
<1>6. Behind'
  BY <1>1, <1>3, <1>4 DEF Inv, Behind
<1> QED BY <1>5, <1>6

(* The lines lost stay lines. *)
LEMMA LostType ==
  ASSUME LinkType, UsbType, Hangup \/ Dropped \/ Buf2Fifo
  PROVE  lost' \subseteq 1 .. Lines
<1>1. lost \subseteq 1 .. Lines
  BY DEF LinkType
<1>2. LinesOf(ep1.rx) \subseteq 1 .. Lines
  BY PacketIs, LinesIs DEF UsbType
<1>3. CASE Dropped
  BY <1>1, <1>2, <1>3 DEF Dropped
<1>4. CASE Buf2Fifo
  BY <1>1, <1>2, <1>4 DEF Buf2Fifo
<1>5. CASE Hangup
  <2>1. ~IsEnd(sent) => LineOf(sent) \in 1 .. Lines
    BY Constants DEF LinkType, IsEnd, LineOf
  <2> QED BY <1>1, <1>5, <2>1 DEF Hangup
<1> QED BY <1>3, <1>4, <1>5

(* A packet served goes behind what is in the FIFO. *)
LEMMA FillInv ==
  ASSUME Inv, ServeBulk, Buf2Fifo
  PROVE  Inv'
<1>0. UsbType /\ LinkType /\ Served /\ Asked
  BY TypeParts DEF Inv
<1>1. UsbKept /\ ep1.ctr_rx /\ ~ep1'.ctr_rx
  BY <1>0, BulkServed
<1>2. sent' = sent /\ got' = got /\ lost' \subseteq 1 .. Lines
  BY <1>0, LostType DEF Buf2Fifo
<1> DEFINE p == ep1.rx
<1>3. /\ p \in Seq(Piece) /\ Len(p) \in 1 .. 2 /\ p[1] \in Piece
      /\ \A i \in 1 .. Len(p) : p[i] = p[1] + i - 1
  BY <1>0, PacketIs DEF UsbType
<1>4. fifo \in Seq(Piece) /\ Len(fifo) \in Nat
  BY <1>0, LenProperties DEF LinkType
<1>5. CASE fifo' = fifo
  <2>1. Onward' /\ Behind'
    BY <1>1, <1>2, <1>5, <1>0, LinkStays DEF UsbKept, LinkType
  <2>2. LinkType'
    BY <1>0, <1>2, <1>5 DEF LinkType
  <2> QED BY <1>1, <2>1, <2>2, TypeParts, PTL DEF Inv, UsbKept
<1>6. CASE fifo' # fifo
  <2>1. fifo' = fifo \o p /\ Len(fifo) + Len(p) <= Room
    BY <1>6 DEF Buf2Fifo
  <2> HIDE DEF p
  <2>2. /\ fifo' \in Seq(Piece) /\ Len(fifo') = Len(fifo) + Len(p)
        /\ \A i \in 1 .. Len(fifo) + Len(p) :
              fifo'[i] = IF i <= Len(fifo) THEN fifo[i] ELSE p[i - Len(fifo)]
    BY <1>3, <1>4, <2>1, ConcatProperties
  <2>3. LinkType'
    BY <1>0, <1>2, <2>1, <2>2 DEF LinkType
  <2>4. /\ \A i \in 1 .. Len(p) : p[i] <= sent
        /\ \A i \in 1 .. Len(fifo) : fifo[i] < p[1]
        /\ \A j \in 1 .. Len(got) : 2 * got[j] < p[1]
    BY <1>1 DEF Inv, Onward, Behind, p
  <2>5. \A i \in 1 .. Len(fifo) : fifo'[i] = fifo[i] /\ fifo[i] \in Int
    <3> SUFFICES ASSUME NEW i \in 1 .. Len(fifo)
                 PROVE  fifo'[i] = fifo[i] /\ fifo[i] \in Int
      OBVIOUS
    <3>1. i \in 1 .. Len(fifo) + Len(p) /\ i <= Len(fifo)
      BY <1>3, <1>4
    <3>2. fifo[i] \in Piece
      BY <1>4
    <3> QED BY <2>2, <3>1, <3>2, Constants DEF Piece
  <2>e. \A i \in 1 .. Len(fifo') :
          i > Len(fifo) => fifo'[i] = p[1] + (i - Len(fifo)) - 1
    <3> SUFFICES ASSUME NEW i \in 1 .. Len(fifo'), i > Len(fifo)
                 PROVE  fifo'[i] = p[1] + (i - Len(fifo)) - 1
      OBVIOUS
    <3>1. i - Len(fifo) \in 1 .. Len(p) /\ i \in 1 .. Len(fifo) + Len(p) /\ ~(i <= Len(fifo))
      BY <1>3, <1>4, <2>2
    <3>2. fifo'[i] = p[i - Len(fifo)]
      BY <2>2, <3>1
    <3>3. p[i - Len(fifo)] = p[1] + (i - Len(fifo)) - 1
      BY <1>3, <3>1
    <3> QED BY <3>2, <3>3
  <2>6. \A i, j \in 1 .. Len(fifo') : i < j => fifo'[i] < fifo'[j]
    <3> SUFFICES ASSUME NEW i \in 1 .. Len(fifo'), NEW j \in 1 .. Len(fifo'), i < j
                 PROVE  fifo'[i] < fifo'[j]
      OBVIOUS
    <3>0. i \in Int /\ j \in Int /\ 1 <= i /\ 1 <= j /\ p[1] \in Int
      BY <1>3, <1>4, <2>2, Constants DEF Piece
    <3>1. CASE j <= Len(fifo)
      <4>1. i \in 1 .. Len(fifo) /\ j \in 1 .. Len(fifo)
        BY <1>4, <3>0, <3>1
      <4>2. fifo[i] < fifo[j]
        BY <4>1 DEF Inv, Onward
      <4>3. fifo'[i] = fifo[i] /\ fifo'[j] = fifo[j]
        BY <2>5, <4>1
      <4> QED BY <4>2, <4>3
    <3>2. CASE i <= Len(fifo) /\ j > Len(fifo)
      <4>1. fifo[i] < p[1] /\ fifo'[i] = fifo[i] /\ fifo[i] \in Int
        <5>1. i \in 1 .. Len(fifo)
          BY <1>4, <3>0, <3>2
        <5> QED BY <2>4, <2>5, <5>1
      <4>2. fifo'[j] = p[1] + (j - Len(fifo)) - 1
        BY <2>e, <3>2
      <4> QED BY <1>4, <3>0, <3>2, <4>1, <4>2
    <3>3. CASE i > Len(fifo)
      <4>1. fifo'[i] = p[1] + (i - Len(fifo)) - 1 /\ fifo'[j] = p[1] + (j - Len(fifo)) - 1
        BY <1>4, <2>e, <3>0, <3>3
      <4> QED BY <1>4, <3>0, <4>1
    <3> QED BY <1>4, <3>0, <3>1, <3>2, <3>3
  <2>7. \A i \in 1 .. Len(fifo') : fifo'[i] <= sent'
    <3> SUFFICES ASSUME NEW i \in 1 .. Len(fifo') PROVE fifo'[i] <= sent
      BY <1>2
    <3>1. CASE i <= Len(fifo)
      <4>1. i \in 1 .. Len(fifo)
        BY <1>4, <2>2, <1>3, <3>1
      <4>2. fifo[i] <= sent /\ fifo'[i] = fifo[i]
        BY <2>5, <4>1 DEF Inv, Onward
      <4> QED BY <4>2
    <3>2. CASE i > Len(fifo)
      <4>1. i - Len(fifo) \in 1 .. Len(p)
        BY <1>3, <1>4, <2>2, <3>2
      <4>2. p[i - Len(fifo)] <= sent /\ p[i - Len(fifo)] = p[1] + (i - Len(fifo)) - 1
        BY <1>3, <2>4, <4>1
      <4> QED BY <2>e, <3>2, <4>2
    <3> QED BY <1>3, <1>4, <2>2, <3>1, <3>2
  <2>8. Onward'
    BY <1>1, <2>6, <2>7 DEF Onward
  <2>9. \A j \in 1 .. Len(got'), i \in 1 .. Len(fifo') : 2 * got'[j] < fifo'[i]
    <3> SUFFICES ASSUME NEW j \in 1 .. Len(got), NEW i \in 1 .. Len(fifo')
                 PROVE  2 * got[j] < fifo'[i]
      BY <1>2
    <3>0. got[j] \in Int /\ p[1] \in Int
      <4>1. got \in Seq(0 .. Lines)
        BY <1>0 DEF LinkType
      <4>2. got[j] \in 0 .. Lines
        BY <4>1, ElementOfSeq
      <4>3. p[1] \in 1 .. 2 * Lines
        BY <1>3 DEF Piece
      <4> QED BY <4>2, <4>3, Constants
    <3>1. CASE i <= Len(fifo)
      <4>1. i \in 1 .. Len(fifo)
        BY <1>4, <2>2, <1>3, <3>1
      <4>2. 2 * got[j] < fifo[i] /\ fifo'[i] = fifo[i]
        BY <2>5, <4>1 DEF Inv, Behind
      <4> QED BY <4>2
    <3>2. CASE i > Len(fifo)
      <4>1. i - Len(fifo) \in Int /\ i - Len(fifo) >= 1
        BY <1>3, <1>4, <2>2, <3>2
      <4>2. 2 * got[j] < p[1] /\ fifo'[i] = p[1] + (i - Len(fifo)) - 1
        BY <2>4, <2>e, <3>2
      <4> QED BY <3>0, <4>1, <4>2
    <3> QED BY <1>3, <1>4, <2>2, <3>1, <3>2
  <2>10. Behind'
    BY <1>1, <1>2, <2>9 DEF Inv, Behind
  <2> QED BY <1>1, <2>3, <2>8, <2>10, TypeParts, PTL DEF Inv, UsbKept
<1> QED BY <1>5, <1>6

(* What passes the parser is the line that ends with its second piece. *)
LEMMA ParsedIs ==
  ASSUME NEW s \in Seq(Piece)
  PROVE  \/ Parsed(s) = << >>
         \/ Len(s) = 2 /\ \E l \in 1 .. Lines : Parsed(s) = <<l>> /\ (IsEnd(s[2]) => 2 * l = s[2])
<1>1. CASE Len(s) = 2 /\ ~IsEnd(s[1]) /\ LineOf(s[1]) = LineOf(s[2])
  <2> DEFINE l == LineOf(s[1])
  <2>1. s[1] \in Piece /\ s[2] \in Piece
    BY <1>1
  <2>2. l \in 1 .. Lines
    BY <2>1, Constants DEF LineOf, Piece
  <2>3. IsEnd(s[2]) => 2 * l = s[2]
    <3>1. l = (s[2] + 1) \div 2
      BY <1>1 DEF LineOf
    <3>2. s[2] \in Int
      BY <2>1, Constants DEF Piece
    <3> HIDE DEF l
    <3> QED BY <3>1, <3>2 DEF IsEnd
  <2>4. Parsed(s) = <<l>>
    BY <1>1 DEF Parsed
  <2> HIDE DEF l
  <2> QED BY <1>1, <2>2, <2>3, <2>4
<1>2. CASE ~(Len(s) = 2 /\ ~IsEnd(s[1]) /\ LineOf(s[1]) = LineOf(s[2]))
  BY <1>2 DEF Parsed
<1> QED BY <1>1, <1>2

(* The main loop takes a line off the FIFO, or drops a flood. *)
LEMMA GetInv ==
  ASSUME Inv, Get
  PROVE  Inv'
<1>0. UsbType /\ LinkType /\ Served /\ Asked /\ Onward /\ Behind
  BY TypeParts DEF Inv
<1>1. sent' = sent /\ lost' = lost /\ UNCHANGED usbVars
  BY DEF Get
<1>2. UsbType' /\ Served' /\ Asked' /\ ep1' = ep1
  BY <1>0, <1>1 DEF usbVars, device, UsbType, Served, Asked, Ctr, Ctr0
<1>3. fifo \in Seq(Piece) /\ Len(fifo) \in Nat /\ got \in Seq(0 .. Lines) /\ Len(got) \in Nat
  BY <1>0, LenProperties DEF LinkType
<1> DEFINE ends == {k \in 1 .. Len(fifo) : IsEnd(fifo[k])}
           e == CHOOSE x \in ends : \A y \in ends : x <= y
<1>4. CASE ends = {}
  <2>1. fifo' = << >> /\ got' = got
    BY <1>4 DEF Get
  <2>2. LinkType'
    BY <1>0, <1>1, <2>1, Constants DEF LinkType
  <2>3. Onward' /\ Behind'
    BY <1>0, <1>1, <1>2, <2>1 DEF Onward, Behind
  <2> QED BY <1>2, <2>2, <2>3 DEF Inv, TypeOK, UsbType, LinkType
<1>5. CASE ends # {}
  <2>1. fifo' = SubSeq(fifo, e + 1, Len(fifo)) /\ got' = got \o Parsed(SubSeq(fifo, 1, e))
    BY <1>5 DEF Get
  <2>2. e \in 1 .. Len(fifo) /\ IsEnd(fifo[e])
    <3>1. ends \in SUBSET Nat
      BY <1>3
    <3>2. \E x \in ends : \A y \in ends : x <= y
      <4> HIDE DEF ends
      <4> QED BY <1>5, <3>1, LeastElement
    <3>3. e \in ends
      BY <3>2
    <3> QED BY <3>3
  <2> HIDE DEF e, ends
  <2> DEFINE s == SubSeq(fifo, 1, e)
             n == Len(fifo) - e
  <2>3. s \in Seq(Piece) /\ Len(s) = e /\ \A i \in 1 .. e : s[i] = fifo[i]
    <3>1. \A i \in 1 .. e : fifo[i] \in Piece
      BY <1>3, <2>2
    <3>2. /\ s \in Seq(Piece) /\ Len(s) = (IF 1 <= e THEN e - 1 + 1 ELSE 0)
          /\ \A i \in 1 .. e - 1 + 1 : s[i] = fifo[1 + i - 1]
      BY <2>2, <3>1, SubSeqProperties
    <3> HIDE DEF s
    <3> QED BY <1>3, <2>2, <3>2
  <2>4. fifo' \in Seq(Piece) /\ Len(fifo') = n /\ \A i \in 1 .. n : fifo'[i] = fifo[e + i]
    <3>1. \A i \in e + 1 .. Len(fifo) : fifo[i] \in Piece
      BY <1>3, <2>2
    <3>2. e + 1 \in Int /\ Len(fifo) \in Int
      BY <1>3, <2>2
    <3>3. /\ fifo' \in Seq(Piece)
          /\ Len(fifo') = (IF e + 1 <= Len(fifo) THEN Len(fifo) - (e + 1) + 1 ELSE 0)
          /\ \A i \in 1 .. Len(fifo) - (e + 1) + 1 : fifo'[i] = fifo[(e + 1) + i - 1]
      BY <2>1, <3>1, <3>2, SubSeqProperties
    <3> QED BY <1>3, <2>2, <3>3
  <2>5. n \in Nat /\ \A i \in 1 .. n : e + i \in 1 .. Len(fifo)
    BY <1>3, <2>2
  <2> HIDE DEF s
  <2>6. Onward'
    <3> HIDE DEF n
    <3>1. \A i, j \in 1 .. n : i < j => fifo[e + i] < fifo[e + j]
      <4> SUFFICES ASSUME NEW i \in 1 .. n, NEW j \in 1 .. n, i < j PROVE fifo[e + i] < fifo[e + j]
        OBVIOUS
      <4>1. e + i \in 1 .. Len(fifo) /\ e + j \in 1 .. Len(fifo) /\ e + i < e + j
        BY <1>3, <2>2, <2>5
      <4> QED BY <1>0, <4>1 DEF Onward
    <3>2. \A i, j \in 1 .. Len(fifo') : i < j => fifo'[i] < fifo'[j]
      BY <2>4, <3>1
    <3>3. \A i \in 1 .. Len(fifo') : fifo'[i] <= sent'
      BY <1>0, <1>1, <2>4, <2>5 DEF Onward
    <3>4. ep1.ctr_rx => /\ \A i \in 1 .. Len(ep1.rx) : ep1.rx[i] <= sent'
                        /\ \A i \in 1 .. Len(fifo') : fifo'[i] < ep1.rx[1]
      BY <1>0, <1>1, <2>4, <2>5 DEF Onward
    <3> QED BY <1>2, <3>2, <3>3, <3>4 DEF Onward
  <2>7. CASE got' = got
    <3> HIDE DEF n
    <3>1. LinkType'
      <4>1. n <= Room
        BY <1>0, <1>3, <2>2, Constants DEF LinkType, n
      <4> QED BY <1>0, <1>1, <2>4, <2>7, <4>1 DEF LinkType
    <3>2. \A j \in 1 .. Len(got), i \in 1 .. n : 2 * got[j] < fifo'[i]
      BY <1>0, <2>4, <2>5 DEF Behind
    <3>3. Behind'
      BY <1>0, <1>1, <1>2, <2>4, <2>7, <3>2 DEF Behind
    <3> QED BY <1>2, <2>6, <3>1, <3>3 DEF Inv, TypeOK, UsbType, LinkType
  <2>8. CASE got' # got
    <3>1. PICK l \in 1 .. Lines : got' = got \o <<l>> /\ 2 * l = fifo[e]
      <4>1. Parsed(s) # << >>
        BY <1>3, <2>1, <2>8, ConcatEmptySeq DEF s
      <4>2. PICK l \in 1 .. Lines :
              Len(s) = 2 /\ Parsed(s) = <<l>> /\ (IsEnd(s[2]) => 2 * l = s[2])
        BY <2>3, <4>1, ParsedIs
      <4>3. e = 2 /\ s[2] = fifo[e]
        BY <2>3, <4>2
      <4> QED BY <2>1, <2>2, <4>2, <4>3 DEF s
    <3>2. /\ got' \in Seq(0 .. Lines) /\ Len(got') = Len(got) + 1
          /\ \A j \in 1 .. Len(got) : got'[j] = got[j] /\ got[j] \in Int
          /\ got'[Len(got) + 1] = l
      <4>1. l \in 0 .. Lines
        BY <3>1, Constants
      <4>2. got' = Append(got, l)
        <5>1. Append(got, l) = got \o <<l>>
          BY <1>3, <4>1, AppendIsConcat
        <5> QED BY <3>1, <5>1
      <4>3. \A j \in 1 .. Len(got) : got[j] \in 0 .. Lines
        BY <1>3, ElementOfSeq
      <4>4. /\ got' \in Seq(0 .. Lines) /\ Len(got') = Len(got) + 1
            /\ \A j \in 1 .. Len(got) : got'[j] = got[j]
            /\ got'[Len(got) + 1] = l
        BY <1>3, <4>1, <4>2, AppendProperties
      <4> QED BY <4>3, <4>4, Constants
    <3>3. l \in Int /\ fifo[e] <= sent /\ \A i \in 1 .. n : fifo[e] < fifo'[i]
      <4>1. \A i \in 1 .. n : fifo[e] < fifo[e + i]
        <5> SUFFICES ASSUME NEW i \in 1 .. n PROVE fifo[e] < fifo[e + i]
          OBVIOUS
        <5>1. e \in 1 .. Len(fifo) /\ e + i \in 1 .. Len(fifo) /\ e < e + i
          BY <2>2, <2>5
        <5> QED BY <1>0, <5>1 DEF Onward
      <4>2. fifo[e] <= sent
        BY <1>0, <2>2 DEF Onward
      <4>3. \A i \in 1 .. n : fifo'[i] = fifo[e + i]
        BY <2>4
      <4>4. l \in Int
        BY <3>1, Constants
      <4> QED BY <4>1, <4>2, <4>3, <4>4
    <3>4. \A j \in 1 .. Len(got) : 2 * got[j] < 2 * l
      BY <1>0, <2>2, <3>1 DEF Behind
    <3> HIDE DEF n
    <3>5. LinkType'
      <4>1. n <= Room
        BY <1>0, <1>3, <2>2, Constants DEF LinkType, n
      <4> QED BY <1>0, <1>1, <2>4, <3>2, <4>1 DEF LinkType
    <3>6. \A j \in 1 .. Len(got') : j \in 1 .. Len(got) \/ (j = Len(got) + 1 /\ got'[j] = l)
      BY <1>3, <3>2
    <3>7. \A j \in 1 .. Len(got') : 1 <= got'[j] /\ 2 * got'[j] <= sent'
      <4> SUFFICES ASSUME NEW j \in 1 .. Len(got') PROVE 1 <= got'[j] /\ 2 * got'[j] <= sent
        BY <1>1
      <4>1. CASE j \in 1 .. Len(got)
        BY <1>0, <3>2, <4>1 DEF Behind
      <4>2. CASE j = Len(got) + 1 /\ got'[j] = l
        BY <3>1, <3>3, <4>2
      <4> QED BY <3>6, <4>1, <4>2
    <3>8. \A i, j \in 1 .. Len(got') : i < j => got'[i] < got'[j]
      <4> SUFFICES ASSUME NEW i \in 1 .. Len(got'), NEW j \in 1 .. Len(got'), i < j
                   PROVE  got'[i] < got'[j]
        OBVIOUS
      <4>1. i \in 1 .. Len(got)
        BY <1>3, <3>2
      <4>2. CASE j \in 1 .. Len(got)
        BY <1>0, <3>2, <4>1, <4>2 DEF Behind
      <4>3. CASE j = Len(got) + 1 /\ got'[j] = l
        <5>1. 2 * got[i] < 2 * l /\ got'[i] = got[i] /\ got[i] \in Int
          BY <3>2, <3>4, <4>1
        <5> QED BY <3>3, <4>3, <5>1
      <4> QED BY <3>6, <4>2, <4>3
    <3>9. \A j \in 1 .. Len(got'), i \in 1 .. n : 2 * got'[j] < fifo'[i]
      <4> SUFFICES ASSUME NEW j \in 1 .. Len(got'), NEW i \in 1 .. n PROVE 2 * got'[j] < fifo'[i]
        OBVIOUS
      <4>1. CASE j \in 1 .. Len(got)
        BY <1>0, <2>4, <2>5, <3>2, <4>1 DEF Behind
      <4>2. CASE j = Len(got) + 1 /\ got'[j] = l
        BY <3>1, <3>3, <4>2
      <4> QED BY <3>6, <4>1, <4>2
    <3>10. ep1.ctr_rx => \A j \in 1 .. Len(got') : 2 * got'[j] < ep1.rx[1]
      <4> SUFFICES ASSUME ep1.ctr_rx, NEW j \in 1 .. Len(got') PROVE 2 * got'[j] < ep1.rx[1]
        OBVIOUS
      <4>1. CASE j \in 1 .. Len(got)
        BY <1>0, <3>2, <4>1 DEF Behind
      <4>2. CASE j = Len(got) + 1 /\ got'[j] = l
        BY <1>0, <2>2, <3>1, <4>2 DEF Onward
      <4> QED BY <3>6, <4>1, <4>2
    <3>11. Behind'
      BY <1>2, <2>4, <3>7, <3>8, <3>9, <3>10 DEF Behind
    <3> QED BY <1>2, <2>6, <3>5, <3>11 DEF Inv, TypeOK, UsbType, LinkType
  <2> QED BY <2>7, <2>8
<1> QED BY <1>4, <1>5

(* The host sends the next pieces. *)
LEMMA WriteInv ==
  ASSUME Inv, NEW n \in 1 .. 2, Write(n)
  PROVE  Inv'
<1>0. UsbType /\ LinkType /\ Served /\ Asked /\ Onward /\ Behind
  BY TypeParts DEF Inv
<1> DEFINE p == SubSeq([k \in Piece |-> k], sent + 1, sent + n)
<1>1. /\ sent + n <= 2 * Lines /\ Bulk(p) /\ sent' = sent + n
      /\ fifo' = fifo /\ got' = got /\ lost' = lost
  BY DEF Write
<1>2. sent \in Nat /\ sent' \in 0 .. 2 * Lines
  BY <1>0, <1>1, Constants DEF LinkType
<1>3. p \in Packets /\ Len(p) = n /\ p[1] = sent + 1
  BY <1>1, <1>2, NextPacket
<1> HIDE DEF p
<1>4. UsbType' /\ Served' /\ Asked' /\ (ep1'.ctr_rx => ep1'.rx = p)
  BY <1>0, <1>1, <1>3, BulkStep
<1>5. LinkType'
  BY <1>0, <1>1, <1>2 DEF LinkType
<1>6. fifo \in Seq(Piece) /\ got \in Seq(0 .. Lines)
  BY <1>0 DEF LinkType
<1>7. \A i \in 1 .. Len(fifo) : fifo[i] \in Int /\ fifo[i] <= sent
  BY <1>0, <1>6, Constants DEF Onward, Piece
<1>8. \A j \in 1 .. Len(got) : got[j] \in Int /\ 2 * got[j] <= sent
  BY <1>0, <1>6, Constants DEF Behind
<1>9. \A i \in 1 .. Len(p) : p[i] <= sent'
  <2> SUFFICES ASSUME NEW i \in 1 .. Len(p) PROVE p[i] <= sent + n
    BY <1>1
  <2>1. p[i] = p[1] + i - 1 /\ i \in Int /\ i <= n
    BY <1>3, PacketIs
  <2> QED BY <1>2, <1>3, <2>1
<1>10. Onward'
  <2>1. \A i \in 1 .. Len(fifo) : fifo[i] <= sent' /\ fifo[i] < p[1]
    BY <1>1, <1>2, <1>3, <1>7
  <2> QED BY <1>0, <1>1, <1>4, <1>9, <2>1 DEF Onward
<1>11. Behind'
  <2>1. \A j \in 1 .. Len(got) : 2 * got[j] <= sent' /\ 2 * got[j] < p[1]
    BY <1>1, <1>2, <1>3, <1>8
  <2> QED BY <1>0, <1>1, <1>4, <2>1 DEF Behind
<1> QED BY <1>4, <1>5, <1>10, <1>11 DEF Inv, TypeOK, UsbType, LinkType

(* A session that ends within a line loses the line at most. *)
LEMMA HangupSent ==
  ASSUME LinkType, Hangup
  PROVE  sent' \in 0 .. 2 * Lines /\ sent' >= sent
<1>1. sent \in 0 .. 2 * Lines /\ Lines \in Nat
  BY Constants DEF LinkType
<1>2. sent % 2 \in 0 .. 1 /\ (sent = 2 * Lines => sent % 2 = 0)
  BY <1>1
<1> QED BY <1>1, <1>2 DEF Hangup

(* It holds at the start. *)
LEMMA InitInv == Init => Inv
<1> SUFFICES ASSUME Init PROVE Inv
  OBVIOUS
<1>1. (CHOOSE p \in Packets : TRUE) \in Packets
  <2>1. <<1>> \in Packets
    BY Constants, PacketAssumption DEF AllPackets, Piece
  <2> QED BY <2>1
<1>2. UsbType
  <2>1. /\ ep0 \in [ctr_rx : BOOLEAN, setup : BOOLEAN, ctr_tx : BOOLEAN,
                    stat_rx : Stat, stat_tx : Stat, rx : Request \union {"data", "empty"}]
    BY DEF Init, UsbInit, Stat
  <2>2. ep1 \in [ctr_rx : BOOLEAN, stat : Stat, dtog : 0 .. 1, rx : Packets]
    <3>1. 0 \in 0 .. 1 /\ "DISABLED" \in Stat
      BY DEF Stat
    <3> QED BY <1>1, <3>1 DEF Init, UsbInit
  <2>3. host \in [addr : 0 .. 1, conf : BOOLEAN, dtr : BOOLEAN, toggle : 0 .. 1, up : BOOLEAN]
    <3>1. 0 \in 0 .. 1
      OBVIOUS
    <3> QED BY <3>1 DEF Init, UsbInit
  <2>4. req \in Request /\ asked \in Request
    BY DEF Init, UsbInit, Request, SetRequest
  <2>5. nreq \in 0 .. MaxRequests /\ nreset \in 0 .. MaxResets
    BY Constants DEF Init, UsbInit
  <2> QED BY <2>1, <2>2, <2>3, <2>4, <2>5 DEF Init, UsbInit, UsbType
<1>3. LinkType
  BY Constants DEF Init, LinkType
<1>4. Served /\ Asked /\ ~ep1.ctr_rx
  BY DEF Init, UsbInit, Served, Asked
<1>5. Onward /\ Behind
  BY <1>4 DEF Init, Onward, Behind
<1> QED BY <1>2, <1>3, <1>4, <1>5, TypeParts DEF Inv

(* It is kept by every step. *)
LEMMA NextInv == Inv /\ [Next]_vars => Inv'
<1> SUFFICES ASSUME Inv, [Next]_vars PROVE Inv'
  OBVIOUS
<1>0. UsbType /\ LinkType /\ Served /\ Asked
  BY TypeParts DEF Inv
<1>i. sent \in 0 .. 2 * Lines /\ sent >= sent
  BY <1>0, Constants DEF LinkType
<1>u. ASSUME UsbKept, UNCHANGED linkVars PROVE Inv'
  <2>1. LinkType'
    BY <1>0, <1>u DEF LinkType, linkVars
  <2>2. Onward' /\ Behind'
    BY <1>i, <1>u, LinkStays DEF UsbKept, linkVars
  <2> QED BY <1>u, <2>1, <2>2 DEF Inv, UsbKept, TypeOK, UsbType, LinkType
<1>d. ASSUME UsbKept, Dropped PROVE Inv'
  <2>1. sent' = sent /\ fifo' = fifo /\ got' = got
    BY <1>d DEF Dropped
  <2>2. lost' \subseteq 1 .. Lines
    BY <1>0, <1>d, LostType
  <2>3. LinkType'
    BY <1>0, <2>1, <2>2 DEF LinkType
  <2>4. Onward' /\ Behind'
    BY <1>i, <1>d, <2>1, LinkStays DEF UsbKept
  <2> QED BY <1>d, <2>3, <2>4 DEF Inv, UsbKept, TypeOK, UsbType, LinkType
<1>h. ASSUME UsbKept, Hangup PROVE Inv'
  <2>1. fifo' = fifo /\ got' = got
    BY <1>h DEF Hangup
  <2>2. lost' \subseteq 1 .. Lines
    BY <1>0, <1>h, LostType
  <2>3. sent' \in 0 .. 2 * Lines /\ sent' >= sent
    BY <1>0, <1>h, HangupSent
  <2>4. LinkType'
    BY <1>0, <2>1, <2>2, <2>3 DEF LinkType
  <2>5. Onward' /\ Behind'
    BY <1>h, <2>1, <2>3, LinkStays DEF UsbKept
  <2> QED BY <1>h, <2>4, <2>5 DEF Inv, UsbKept, TypeOK, UsbType, LinkType
<1>1. CASE Irq
  <2>1. CASE (IrqLoad \/ IrqStore) /\ UNCHANGED linkVars
    BY <1>0, <1>u, <2>1, IrqStep
  <2>2. CASE ServeReset /\ Dropped
    BY <1>0, <1>d, <2>2, ResetStep
  <2>3. CASE ServeControl /\ Dropped
    BY <1>0, <1>d, <2>3, ControlStep DEF UsbKept
  <2>4. CASE ServeBulk /\ Buf2Fifo
    BY <2>4, FillInv
  <2> QED BY <1>1, <2>1, <2>2, <2>3, <2>4 DEF Irq
<1>2. CASE Host
  <2>1. CASE (Setup \/ In \/ Out) /\ UNCHANGED linkVars
    BY <1>0, <1>u, <2>1, TransferStep
  <2>2. CASE GiveUp /\ UNCHANGED linkVars
    BY <1>0, <1>u, <2>2, GiveUpStep
  <2> QED BY <1>2, <2>1, <2>2 DEF Host
<1>3. CASE Get
  BY <1>3, GetInv
<1>4. CASE BusReset /\ Hangup
  BY <1>0, <1>h, <1>4, BusStep
<1>5. CASE Ask("unconfigure") /\ Hangup
  <2>1. "unconfigure" \in Request
    BY DEF Request, SetRequest
  <2> QED BY <1>0, <1>h, <1>5, <2>1, AskStep
<1>6. CASE \E r \in Request \ {"unconfigure"} : Ask(r) /\ UNCHANGED linkVars
  BY <1>0, <1>u, <1>6, AskStep
<1>7. CASE \E n \in 1 .. 2 : Write(n)
  BY <1>7, WriteInv
<1>8. CASE UNCHANGED vars
  <2>1. UsbKept
    <3>1. UsbType' /\ Served' /\ Asked' /\ ep1' = ep1
      BY <1>0, <1>8 DEF vars, usbVars, device, UsbType, Served, Asked, Ctr, Ctr0
    <3> QED BY <3>1 DEF UsbKept, PacketStays
  <2> QED BY <1>u, <1>8, <2>1 DEF vars
<1> QED BY <1>1, <1>2, <1>3, <1>4, <1>5, <1>6, <1>7, <1>8 DEF Next

------------------------------------------------------------------------------
(* What becomes of the pieces. *)

(* The pieces on their way: in the FIFO, or in the packet not yet served. *)
Way == ToSet(fifo) \union (IF ep1.ctr_rx THEN ToSet(ep1.rx) ELSE {})

(* Behind a piece on its way no other is missing, but what was lost. *)
NoGap == \A q \in Way, p \in 1 .. sent : q < p => p \in Way \/ LineOf(p) \in lost

(* A piece sent is on its way until its line is accepted, unless the line   *)
(* or the one before it lost something.                                     *)
Kept ==
  \A i \in 1 .. Lines, k \in Piece :
    LineOf(k) = i /\ k <= sent /\ {i, i - 1} \intersect lost = {} => i \in ToSet(got) \/ k \in Way

(* Pieces are dropped with their lines. *)
LEMMA WayLess ==
  ASSUME LinkType, NoGap, Kept, got' = got, Way' \subseteq Way, lost \subseteq lost',
         sent' \in Nat, \A k \in Way \ Way' : LineOf(k) \in lost',
         \A k \in 1 .. sent' : k > sent => LineOf(k) \in lost'
  PROVE  NoGap' /\ Kept'
<1>0. sent \in Nat /\ Lines \in Nat
  BY Constants DEF LinkType
<1>1. ASSUME NEW q \in Way', NEW p \in 1 .. sent', q < p
      PROVE  p \in Way' \/ LineOf(p) \in lost'
  <2>1. CASE p > sent
    BY <2>1
  <2>2. CASE p \in 1 .. sent
    BY <1>1, <2>2 DEF NoGap
  <2> QED BY <1>0, <2>1, <2>2
<1>2. ASSUME NEW i \in 1 .. Lines, NEW k \in Piece, LineOf(k) = i, k <= sent',
             {i, i - 1} \intersect lost' = {}
      PROVE  i \in ToSet(got)' \/ k \in Way'
  <2>1. {i, i - 1} \intersect lost = {} /\ i \notin lost'
    BY <1>2
  <2>2. k \in 1 .. sent'
    BY <1>0, <1>2 DEF Piece
  <2>3. k <= sent
    BY <1>0, <1>2, <2>1, <2>2
  <2>4. i \in ToSet(got) \/ k \in Way
    BY <1>2, <2>1, <2>3 DEF Kept
  <2>5. k \in Way => k \in Way'
    BY <1>2, <2>1
  <2>6. ToSet(got)' = ToSet(got)
    BY DEF ToSet
  <2> QED BY <2>4, <2>5, <2>6
<1> QED BY <1>1, <1>2 DEF NoGap, Kept

(* Nothing happens to a packet and the FIFO. *)
LEMMA WayStays ==
  ASSUME UNCHANGED fifo, ep1'.ctr_rx = ep1.ctr_rx, ep1'.rx = ep1.rx
  PROVE  Way' = Way
BY DEF Way, ToSet

(* A packet not yet served is dropped, or is not. *)
LEMMA WayDropped ==
  ASSUME PacketStays, Dropped
  PROVE  Way' \subseteq Way /\ lost \subseteq lost' /\ \A k \in Way \ Way' : LineOf(k) \in lost'
<1>1. fifo' = fifo /\ ToSet(fifo)' = ToSet(fifo)
  BY DEF Dropped, ToSet
<1>2. CASE ep1'.ctr_rx
  <2>1. ep1.ctr_rx /\ ToSet(ep1.rx)' = ToSet(ep1.rx)
    BY <1>2 DEF PacketStays, ToSet
  <2>2. Way' = Way
    BY <1>1, <1>2, <2>1 DEF Way
  <2> QED BY <1>2, <2>2 DEF Dropped
<1>3. CASE ~ep1'.ctr_rx
  <2>1. Way' = ToSet(fifo)
    BY <1>1, <1>3 DEF Way
  <2>2. CASE ep1.ctr_rx
    <3>1. lost' = lost \union LinesOf(ep1.rx) /\ Way = ToSet(fifo) \union ToSet(ep1.rx)
      BY <1>3, <2>2 DEF Dropped, Way
    <3> QED BY <2>1, <3>1 DEF LinesOf
  <2>3. CASE ~ep1.ctr_rx
    BY <1>3, <2>1, <2>3 DEF Dropped, Way
  <2> QED BY <2>2, <2>3
<1> QED BY <1>2, <1>3

(* A packet is served: its pieces go into the FIFO, or their lines are lost. *)
LEMMA WayServed ==
  ASSUME UsbType, LinkType, ep1.ctr_rx, ~ep1'.ctr_rx, Buf2Fifo
  PROVE  Way' \subseteq Way /\ lost \subseteq lost' /\ \A k \in Way \ Way' : LineOf(k) \in lost'
<1>1. Way = ToSet(fifo) \union ToSet(ep1.rx) /\ Way' = ToSet(fifo')
  BY DEF Way
<1>2. CASE fifo' = fifo \o ep1.rx /\ lost' = lost
  <2>1. ep1.rx \in Seq(Piece) /\ fifo \in Seq(Piece)
    BY PacketIs DEF UsbType, LinkType
  <2>2. ToSet(fifo') = ToSet(fifo) \union ToSet(ep1.rx)
    <3> DEFINE s == ep1.rx
    <3>1. s \in Seq(Piece) /\ fifo' = fifo \o s /\ Len(s) \in Nat /\ Len(fifo) \in Nat
      BY <1>2, <2>1, LenProperties
    <3> HIDE DEF s
    <3>2. /\ Len(fifo') = Len(fifo) + Len(s) /\ DOMAIN fifo' = 1 .. Len(fifo')
          /\ \A i \in 1 .. Len(fifo) + Len(s) :
               fifo'[i] = IF i <= Len(fifo) THEN fifo[i] ELSE s[i - Len(fifo)]
      <4>1. fifo' \in Seq(Piece)
        BY <2>1, <3>1, ConcatProperties
      <4> QED BY <2>1, <3>1, <4>1, ConcatProperties, LenProperties
    <3>3. DOMAIN fifo = 1 .. Len(fifo) /\ DOMAIN s = 1 .. Len(s)
      BY <2>1, <3>1, LenProperties
    <3>4. ASSUME NEW i \in DOMAIN fifo' PROVE fifo'[i] \in ToSet(fifo) \union ToSet(s)
      <4>1. CASE i <= Len(fifo)
        BY <3>1, <3>2, <3>3, <3>4, <4>1 DEF ToSet
      <4>2. CASE i > Len(fifo)
        <5>1. i - Len(fifo) \in DOMAIN s /\ fifo'[i] = s[i - Len(fifo)]
          BY <3>1, <3>2, <3>3, <3>4, <4>2
        <5> QED BY <5>1 DEF ToSet
      <4> QED BY <3>1, <3>2, <4>1, <4>2
    <3>5. ASSUME NEW i \in DOMAIN fifo PROVE fifo[i] \in ToSet(fifo')
      <4>1. i \in DOMAIN fifo' /\ fifo'[i] = fifo[i]
        BY <3>1, <3>2, <3>3, <3>5
      <4> QED BY <4>1 DEF ToSet
    <3>6. ASSUME NEW i \in DOMAIN s PROVE s[i] \in ToSet(fifo')
      <4>1. i + Len(fifo) \in DOMAIN fifo' /\ fifo'[i + Len(fifo)] = s[i]
        BY <3>1, <3>2, <3>3, <3>6
      <4> QED BY <4>1 DEF ToSet
    <3>7. ToSet(fifo') = ToSet(fifo) \union ToSet(s)
      BY <3>4, <3>5, <3>6 DEF ToSet
    <3> QED BY <3>7 DEF s
  <2> QED BY <1>1, <1>2, <2>2
<1>3. CASE fifo' = fifo /\ lost' = lost \union LinesOf(ep1.rx)
  BY <1>1, <1>3 DEF LinesOf
<1> QED BY <1>2, <1>3 DEF Buf2Fifo

(* A packet sent joins the pieces on their way. *)
LEMMA WriteKeeps ==
  ASSUME Inv, NoGap, Kept, NEW n \in 1 .. 2, Write(n), ep1'.ctr_rx,
         ep1'.rx = SubSeq([k \in Piece |-> k], sent + 1, sent + n)
  PROVE  NoGap' /\ Kept'
<1>0. /\ sent \in Nat /\ Lines \in Nat /\ sent + n <= 2 * Lines /\ sent' = sent + n
      /\ fifo' = fifo /\ got' = got /\ lost' = lost
  BY Constants DEF Inv, TypeOK, Write
<1>1. ~ep1.ctr_rx
  BY DEF Write, Bulk
<1> DEFINE p == SubSeq([k \in Piece |-> k], sent + 1, sent + n)
<1>2. p \in Packets /\ Len(p) = n /\ p[1] = sent + 1
  BY <1>0, NextPacket
<1> HIDE DEF p
<1>3. p \in Seq(Piece) /\ DOMAIN p = 1 .. n /\ \A i \in 1 .. n : p[i] = sent + i
  <2>1. p \in Seq(Piece) /\ \A i \in 1 .. Len(p) : p[i] = p[1] + i - 1
    BY <1>2, PacketIs
  <2> QED BY <1>0, <1>2, <2>1, LenProperties
<1>4. Way' = Way \union ToSet(p)
  <2>1. ToSet(ep1'.rx) = ToSet(p) /\ ToSet(fifo') = ToSet(fifo)
    BY <1>0 DEF p
  <2> QED BY <1>1, <2>1 DEF Way
<1>5. ASSUME NEW k \in 1 .. sent', k > sent PROVE k \in ToSet(p)
  <2>1. k - sent \in DOMAIN p /\ p[k - sent] = k
    BY <1>0, <1>3, <1>5
  <2> QED BY <2>1 DEF ToSet
<1>6. ASSUME NEW k \in ToSet(p) PROVE k \in Int /\ k > sent
  BY <1>0, <1>3, <1>6 DEF ToSet
<1>7. ASSUME NEW q \in Way', NEW k \in 1 .. sent', q < k
      PROVE  k \in Way' \/ LineOf(k) \in lost'
  <2>1. CASE k > sent
    BY <1>4, <1>5, <2>1
  <2>2. CASE k <= sent
    <3>1. q \in Way
      BY <1>0, <1>4, <1>6, <1>7, <2>2
    <3>2. k \in 1 .. sent
      BY <1>0, <2>2
    <3> QED BY <1>0, <1>4, <1>7, <3>1, <3>2 DEF NoGap
  <2> QED BY <1>0, <2>1, <2>2
<1>8. ASSUME NEW i \in 1 .. Lines, NEW k \in Piece, LineOf(k) = i, k <= sent',
             {i, i - 1} \intersect lost' = {}
      PROVE  i \in ToSet(got)' \/ k \in Way'
  <2>1. k \in 1 .. sent' /\ k \in Int
    BY <1>0, <1>8 DEF Piece
  <2>2. CASE k > sent
    BY <1>4, <1>5, <2>1, <2>2
  <2>3. CASE k <= sent
    BY <1>0, <1>4, <1>8, <2>3 DEF Kept, ToSet
  <2> QED BY <1>0, <2>1, <2>2, <2>3
<1> QED BY <1>7, <1>8 DEF NoGap, Kept

(* The pieces the parser takes come before all that stay. *)
LEMMA Places ==
  ASSUME Inv
  PROVE  /\ fifo \in Seq(Piece) /\ DOMAIN fifo = 1 .. Len(fifo) /\ Len(fifo) \in Nat
         /\ \A j \in 1 .. Len(fifo) : fifo[j] \in Piece /\ fifo[j] \in Way /\ fifo[j] <= sent
         /\ \A k \in Way, j \in 1 .. Len(fifo) :
              k \in Int /\ (k <= fifo[j] => \E l \in 1 .. j : fifo[l] = k)
<1>1. fifo \in Seq(Piece) /\ DOMAIN fifo = 1 .. Len(fifo) /\ Len(fifo) \in Nat
  BY LenProperties DEF Inv, TypeOK
<1>2. \A j \in 1 .. Len(fifo) : fifo[j] \in Piece /\ fifo[j] \in Way /\ fifo[j] <= sent
  BY <1>1 DEF Inv, Onward, Way, ToSet
<1>3. ASSUME NEW k \in Way, NEW j \in 1 .. Len(fifo)
      PROVE  k \in Int /\ (k <= fifo[j] => \E l \in 1 .. j : fifo[l] = k)
  <2>1. fifo[j] \in Int
    BY <1>2, Constants DEF Piece
  <2>2. CASE \E l \in 1 .. Len(fifo) : k = fifo[l]
    <3>1. PICK l \in 1 .. Len(fifo) : k = fifo[l]
      BY <2>2
    <3>2. k \in Int
      BY <1>2, <3>1, Constants DEF Piece
    <3>3. l > j => fifo[j] < fifo[l]
      BY DEF Inv, Onward
    <3> QED BY <1>1, <2>1, <3>1, <3>2, <3>3
  <2>3. CASE ep1.ctr_rx /\ k \in ToSet(ep1.rx)
    <3>1. PICK l \in DOMAIN ep1.rx : k = ep1.rx[l]
      BY <2>3 DEF ToSet
    <3>2. /\ ep1.rx \in Seq(Piece) /\ ep1.rx[1] \in Piece
          /\ \A i \in 1 .. Len(ep1.rx) : ep1.rx[i] = ep1.rx[1] + i - 1
      BY PacketIs DEF Inv, TypeOK
    <3>3. l \in 1 .. Len(ep1.rx) /\ l \in Int /\ l >= 1
      BY <3>1, <3>2, LenProperties
    <3>4. k = ep1.rx[1] + l - 1 /\ ep1.rx[1] \in Int /\ fifo[j] < ep1.rx[1]
      BY <2>3, <3>1, <3>2, <3>3, Constants DEF Inv, Onward, Piece
    <3> QED BY <2>1, <3>3, <3>4
  <2> QED BY <1>1, <2>2, <2>3 DEF Way, ToSet
<1> QED BY <1>1, <1>2, <1>3

(* A line is its beginning and its end. *)
LEMMA LinePieces ==
  ASSUME NEW k \in Nat, k >= 1
  PROVE  \E i \in Nat : i >= 1 /\ LineOf(k) = i /\ (IF IsEnd(k) THEN k = 2 * i ELSE k = 2 * i - 1)
BY DEF LineOf, IsEnd

LEMMA PieceLine ==
  ASSUME NEW i \in Nat
  PROVE  LineOf(2 * i) = i /\ IsEnd(2 * i) /\ (i >= 1 => LineOf(2 * i - 1) = i /\ ~IsEnd(2 * i - 1))
BY DEF LineOf, IsEnd

(* Before a piece that ends no line and is not the beginning of its own     *)
(* line, the end of the line before is missing.                             *)
LEMMA Stray ==
  ASSUME Inv, NoGap, NEW i \in 1 .. Lines, i - 1 \notin lost, NEW j \in 1 .. Len(fifo),
         fifo[j] < 2 * i - 1, ~IsEnd(fifo[j]), 2 * i - 1 <= sent
  PROVE  \E w \in Way : fifo[j] < w /\ w = 2 * (i - 1) /\ IsEnd(w)
<1>1. fifo[j] \in Nat /\ fifo[j] >= 1 /\ fifo[j] \in Way /\ i \in Nat /\ sent \in Nat
  BY Places, Constants DEF Piece, Inv, TypeOK
<1>2. PICK m \in Nat : m >= 1 /\ fifo[j] = 2 * m - 1
  BY <1>1, LinePieces
<1>3. m < i /\ i - 1 \in Nat
  BY <1>1, <1>2
<1>4. LineOf(2 * (i - 1)) = i - 1 /\ IsEnd(2 * (i - 1))
  BY <1>3, PieceLine
<1>5. 2 * (i - 1) \in 1 .. sent /\ fifo[j] < 2 * (i - 1)
  BY <1>1, <1>2, <1>3
<1>6. 2 * (i - 1) \in Way
  BY <1>1, <1>4, <1>5 DEF NoGap
<1> QED BY <1>4, <1>5, <1>6

(* The parser takes a line off the FIFO: what it takes of a line is the     *)
(* whole line, and nothing else, unless the line or the one before it lost  *)
(* a piece.                                                                 *)
LEMMA GetKeeps ==
  ASSUME Inv, NoGap, Kept, Get
  PROVE  NoGap' /\ Kept'
<1>0. /\ fifo \in Seq(Piece) /\ DOMAIN fifo = 1 .. Len(fifo) /\ Len(fifo) \in Nat
      /\ sent \in Nat /\ Lines \in Nat /\ Flood \in Nat /\ Flood >= 1
      /\ got \in Seq(0 .. Lines) /\ Len(got) \in Nat /\ DOMAIN got = 1 .. Len(got)
  BY Constants, LenProperties DEF Inv, TypeOK
<1>p. \A j \in 1 .. Len(fifo) :
        /\ fifo[j] \in Piece /\ fifo[j] \in Way /\ fifo[j] <= sent /\ fifo[j] \in Nat /\ fifo[j] >= 1
        /\ \A k \in Way : k \in Int /\ (k <= fifo[j] => \E l \in 1 .. j : fifo[l] = k)
        /\ \A l \in 1 .. Len(fifo) : l < j => fifo[l] < fifo[j]
  BY Places, Constants DEF Piece, Inv, Onward
<1>1. sent' = sent /\ lost' = lost /\ ep1' = ep1
  BY DEF Get, usbVars
<1> DEFINE ends == {e \in 1 .. Len(fifo) : IsEnd(fifo[e])}
           first == CHOOSE x \in ends : \A y \in ends : x <= y
(* What is taken is a beginning of the FIFO. *)
<1>2. \E t \in 0 .. Len(fifo) :
        /\ Len(fifo') = Len(fifo) - t /\ DOMAIN fifo' = 1 .. Len(fifo')
        /\ \A l \in 1 .. Len(fifo) - t : fifo'[l] = fifo[t + l]
        /\ \A l \in 1 .. t - 1 : ~IsEnd(fifo[l])
        /\ \/ t = Len(fifo) /\ (\A l \in 1 .. t : ~IsEnd(fifo[l])) /\ t >= 2 /\ got' = got
           \/ t >= 1 /\ IsEnd(fifo[t]) /\ got' = got \o Parsed(SubSeq(fifo, 1, t))
  <2>1. CASE ends = {}
    <3>1. fifo' = << >> /\ got' = got /\ Len(fifo) > Flood
      BY <2>1 DEF Get
    <3>2. \A l \in 1 .. Len(fifo) : ~IsEnd(fifo[l])
      BY <2>1
    <3>3. Len(fifo') = 0 /\ DOMAIN fifo' = 1 .. 0
      BY <3>1
    <3>4. Len(fifo) \in 0 .. Len(fifo) /\ Len(fifo) >= 2 /\ Len(fifo) - Len(fifo) = 0
      BY <1>0, <3>1
    <3>5. \A l \in 1 .. Len(fifo) - 1 : l \in 1 .. Len(fifo)
      BY <1>0
    <3> HIDE DEF ends
    <3> QED BY <3>1, <3>2, <3>3, <3>4, <3>5
  <2>2. CASE ends # {}
    <3>1. fifo' = SubSeq(fifo, first + 1, Len(fifo)) /\ got' = got \o Parsed(SubSeq(fifo, 1, first))
      BY <2>2 DEF Get
    <3>2. first \in 1 .. Len(fifo) /\ IsEnd(fifo[first]) /\ \A l \in 1 .. first - 1 : ~IsEnd(fifo[l])
      <4>1. ends \in SUBSET Nat
        BY <1>0
      <4>2. \E x \in ends : \A y \in ends : x <= y
        <5> HIDE DEF ends
        <5> QED BY <2>2, <4>1, LeastElement
      <4>3. first \in ends /\ \A y \in ends : first <= y
        <5> HIDE DEF ends
        <5> QED BY <4>2
      <4>4. first \in 1 .. Len(fifo) /\ IsEnd(fifo[first])
        <5> HIDE DEF first
        <5> QED BY <4>3
      <4>5. ASSUME NEW l \in 1 .. first - 1 PROVE ~IsEnd(fifo[l])
        <5>1. l \in 1 .. Len(fifo) /\ ~(first <= l)
          <6> HIDE DEF first, ends
          <6> QED BY <1>0, <4>4, <4>5
        <5>2. l \notin ends
          <6> HIDE DEF first, ends
          <6> QED BY <4>3, <5>1
        <5> QED BY <5>1, <5>2
      <4> HIDE DEF first, ends
      <4> QED BY <4>4, <4>5
    <3> HIDE DEF first, ends
    <3>3. \A l \in first + 1 .. Len(fifo) : fifo[l] \in Piece
      BY <1>p, <3>2
    <3>4. first + 1 \in Int /\ Len(fifo) \in Int
      BY <1>0, <3>2
    <3>5. /\ fifo' \in Seq(Piece)
          /\ Len(fifo') = (IF first + 1 <= Len(fifo) THEN Len(fifo) - (first + 1) + 1 ELSE 0)
          /\ \A l \in 1 .. Len(fifo) - (first + 1) + 1 : fifo'[l] = fifo[(first + 1) + l - 1]
      BY <3>1, <3>3, <3>4, SubSeqProperties
    <3> DEFINE n == Len(fifo)
    <3>n. n \in Nat /\ first \in 1 .. n
      BY <1>0, <3>2
    <3>a. /\ Len(fifo') = (IF first + 1 <= n THEN n - (first + 1) + 1 ELSE 0)
          /\ \A l \in 1 .. n - (first + 1) + 1 : fifo'[l] = fifo[(first + 1) + l - 1]
      BY <3>5
    <3> HIDE DEF n
    <3>b. n - (first + 1) + 1 = n - first /\ (~(first + 1 <= n) => n - first = 0)
      BY <3>n
    <3>c. \A l \in 1 .. n - first : (first + 1) + l - 1 = first + l
      BY <3>n
    <3>6. Len(fifo') = Len(fifo) - first
      BY <3>a, <3>b DEF n
    <3>7. \A l \in 1 .. Len(fifo) - first : fifo'[l] = fifo[first + l]
      <4>1. \A l \in 1 .. n - first : fifo'[l] = fifo[first + l]
        BY <3>a, <3>b, <3>c
      <4> QED BY <4>1 DEF n
    <3>8. DOMAIN fifo' = 1 .. Len(fifo')
      BY <3>5, LenProperties
    <3>9. first \in 0 .. Len(fifo) /\ first >= 1
      BY <1>0, <3>2
    <3> QED BY <3>1, <3>2, <3>6, <3>7, <3>8, <3>9
  <2> QED BY <2>1, <2>2
<1> HIDE DEF ends, first
<1>3. PICK t \in 0 .. Len(fifo) :
        /\ Len(fifo') = Len(fifo) - t /\ DOMAIN fifo' = 1 .. Len(fifo')
        /\ \A l \in 1 .. Len(fifo) - t : fifo'[l] = fifo[t + l]
        /\ \A l \in 1 .. t - 1 : ~IsEnd(fifo[l])
        /\ \/ t = Len(fifo) /\ (\A l \in 1 .. t : ~IsEnd(fifo[l])) /\ t >= 2 /\ got' = got
           \/ t >= 1 /\ IsEnd(fifo[t]) /\ got' = got \o Parsed(SubSeq(fifo, 1, t))
  BY <1>2
<1> HIDE DEF Get
(* What stays on its way comes after it. *)
<1>4. Way' \subseteq Way
  <2>1. ASSUME NEW k \in ToSet(fifo') PROVE k \in Way
    <3>1. PICK l \in 1 .. Len(fifo) - t : k = fifo'[l]
      BY <1>3, <2>1 DEF ToSet
    <3>2. t + l \in 1 .. Len(fifo)
      BY <1>0
    <3>3. k = fifo[t + l]
      BY <1>3, <3>1
    <3> QED BY <1>p, <3>2, <3>3
  <2> QED BY <1>1, <2>1 DEF Way
<1>5. ASSUME NEW k \in Way, k \notin Way' PROVE \E l \in 1 .. t : fifo[l] = k
  <2>1. k \in ToSet(fifo)
    BY <1>1, <1>5 DEF Way
  <2>2. PICK l \in 1 .. Len(fifo) : k = fifo[l]
    BY <1>0, <2>1 DEF ToSet
  <2>3. CASE l > t
    <3>1. l - t \in 1 .. Len(fifo) - t /\ t + (l - t) = l
      BY <1>0, <2>2, <2>3
    <3>2. l - t \in DOMAIN fifo' /\ fifo'[l - t] = k
      BY <1>3, <2>2, <3>1
    <3>3. k \in ToSet(fifo')
      BY <3>2 DEF ToSet
    <3> QED BY <1>5, <3>3 DEF Way
  <2> QED BY <1>0, <2>2, <2>3
<1>6. ASSUME NEW q \in Way', NEW l \in 1 .. t PROVE fifo[l] < q
  <2>0. l \in 1 .. Len(fifo) /\ fifo[l] \in Int
    BY <1>0, <1>p
  <2>1. CASE q \in ToSet(fifo')
    <3>1. PICK m \in 1 .. Len(fifo) - t : q = fifo'[m]
      BY <1>3, <2>1 DEF ToSet
    <3>2. t + m \in 1 .. Len(fifo) /\ l < t + m
      BY <1>0
    <3>3. q = fifo[t + m]
      BY <1>3, <3>1
    <3> QED BY <1>p, <2>0, <3>2, <3>3
  <2>2. CASE ep1.ctr_rx /\ q \in ToSet(ep1.rx)
    <3>1. PICK m \in DOMAIN ep1.rx : q = ep1.rx[m]
      BY <2>2 DEF ToSet
    <3>2. /\ ep1.rx \in Seq(Piece) /\ ep1.rx[1] \in Piece
          /\ \A i \in 1 .. Len(ep1.rx) : ep1.rx[i] = ep1.rx[1] + i - 1
      BY PacketIs DEF Inv, TypeOK
    <3>3. m \in 1 .. Len(ep1.rx) /\ m \in Int /\ m >= 1
      BY <3>1, <3>2, LenProperties
    <3>4. q = ep1.rx[1] + m - 1 /\ ep1.rx[1] \in Int /\ fifo[l] < ep1.rx[1]
      BY <2>0, <2>2, <3>1, <3>2, <3>3, Constants DEF Inv, Onward, Piece
    <3> QED BY <2>0, <3>3, <3>4, SMTT(30)
  <2> QED BY <1>1, <2>1, <2>2 DEF Way
<1>7. NoGap'
  <2> SUFFICES ASSUME NEW q \in Way', NEW p \in 1 .. sent', q < p
               PROVE  p \in Way' \/ LineOf(p) \in lost'
    BY DEF NoGap
  <2>1. p \in Way \/ LineOf(p) \in lost
    BY <1>1, <1>4 DEF NoGap
  <2>2. ASSUME p \in Way, p \notin Way' PROVE FALSE
    <3>1. PICK l \in 1 .. t : fifo[l] = p
      BY <1>5, <2>2
    <3>2. p < q
      BY <1>6, <3>1
    <3>3. q \in Int
      <4>1. l \in 1 .. Len(fifo)
        BY <1>0
      <4> QED BY <1>4, <1>p, <4>1
    <3> QED BY <3>2, <3>3
  <2> QED BY <1>1, <2>1, <2>2
(* The end of a line on its way, none before it in the FIFO. *)
<1>8. ASSUME NEW i \in 1 .. Lines, {i, i - 1} \intersect lost = {},
             IsEnd(fifo[t]), t >= 1, fifo[t] = 2 * i
      PROVE  i \in ToSet(got) \/ i \in ToSet(got')
  <2> SUFFICES ASSUME i \notin ToSet(got) PROVE i \in ToSet(got')
    OBVIOUS
  <2>0. i \in Nat /\ i >= 1 /\ t \in 1 .. Len(fifo) /\ t \in Int
    BY <1>0, <1>8
  <2>1. LineOf(2 * i) = i /\ LineOf(2 * i - 1) = i /\ ~IsEnd(2 * i - 1)
    BY <2>0, PieceLine
  <2>2. 2 * i <= sent
    BY <1>8, <1>p, <2>0
  <2>3. 2 * i - 1 \in Piece /\ 2 * i - 1 <= sent
    BY <1>0, <2>0, <2>2 DEF Piece
  <2>4. 2 * i - 1 \in Way
    BY <1>8, <2>1, <2>3 DEF Kept
  <2>5. PICK l \in 1 .. t : fifo[l] = 2 * i - 1
    BY <1>8, <1>p, <2>0, <2>4
  <2>6. l \in 1 .. Len(fifo) /\ l < t
    BY <1>8, <2>0, <2>5
  <2>7. l = t - 1
    <3> SUFFICES ASSUME l < t - 1 PROVE FALSE
      BY <2>0, <2>6
    <3>1. t - 1 \in 1 .. Len(fifo) /\ t - 1 < t
      BY <2>0, <2>6
    <3>2. fifo[l] < fifo[t - 1] /\ fifo[t - 1] < fifo[t] /\ fifo[t - 1] \in Nat
      BY <1>p, <2>0, <2>6, <3>1
    <3> QED BY <1>8, <2>0, <2>5, <3>2
  <2>8. l = 1
    <3> SUFFICES ASSUME l > 1 PROVE FALSE
      BY <2>6
    <3>1. 1 \in 1 .. Len(fifo) /\ 1 \in 1 .. t - 1 /\ l \in 1 .. Len(fifo)
      BY <1>0, <2>0, <2>6
    <3>2. fifo[1] < 2 * i - 1 /\ ~IsEnd(fifo[1])
      BY <1>3, <1>p, <2>5, <3>1
    <3>3. PICK w \in Way : fifo[1] < w /\ w = 2 * (i - 1) /\ IsEnd(w)
      BY <1>8, <2>3, <3>1, <3>2, Stray
    <3>4. w <= fifo[l]
      BY <2>0, <2>5, <3>3
    <3>5. PICK m \in 1 .. l : fifo[m] = w
      BY <1>p, <3>1, <3>4
    <3>6. m \in 1 .. t - 1
      BY <2>0, <2>6
    <3> QED BY <1>3, <3>3, <3>5, <3>6
  <2>9. t = 2 /\ fifo[1] = 2 * i - 1
    BY <2>0, <2>5, <2>7, <2>8
  <2>10. Parsed(SubSeq(fifo, 1, t)) = <<i>>
    <3> DEFINE s == SubSeq(fifo, 1, t)
    <3>1. Len(s) = 2 /\ s[1] = fifo[1] /\ s[2] = fifo[2]
      <4>1. \A m \in 1 .. 2 : fifo[m] \in Piece
        BY <1>p, <2>0, <2>9
      <4>2. /\ Len(SubSeq(fifo, 1, 2)) = (IF 1 <= 2 THEN 2 - 1 + 1 ELSE 0)
            /\ \A m \in 1 .. 2 - 1 + 1 : SubSeq(fifo, 1, 2)[m] = fifo[1 + m - 1]
        BY <4>1, SubSeqProperties
      <4>3. s = SubSeq(fifo, 1, 2)
        BY <2>9
      <4> HIDE DEF s
      <4> QED BY <4>2, <4>3
    <3> HIDE DEF s
    <3>2. LineOf(s[1]) = i /\ LineOf(s[2]) = i /\ ~IsEnd(s[1])
      BY <1>8, <2>1, <2>9, <3>1
    <3>3. Parsed(s) = <<i>>
      BY <3>1, <3>2 DEF Parsed
    <3> QED BY <3>3 DEF s
  <2>11. got' = got \o <<i>>
    <3>1. t \in 1 .. t
      BY <2>0
    <3>2. got' = got \o Parsed(SubSeq(fifo, 1, t))
      BY <1>3, <1>8, <3>1
    <3> QED BY <2>10, <3>2
  <2>12. i \in 0 .. Lines
    BY <1>0
  <2>13. got' = Append(got, i)
    BY <1>0, <2>11, <2>12, AppendIsConcat
  <2>14. /\ got' \in Seq(0 .. Lines) /\ Len(got') = Len(got) + 1 /\ got'[Len(got) + 1] = i
    BY <1>0, <2>12, <2>13, AppendProperties
  <2>15. Len(got) + 1 \in DOMAIN got'
    BY <1>0, <2>14, LenProperties
  <2> QED BY <2>14, <2>15 DEF ToSet
<1>9. ToSet(got) \subseteq ToSet(got')
  <2>1. CASE got' = got
    BY <2>1
  <2>2. CASE got' # got
    <3>1. got' = got \o Parsed(SubSeq(fifo, 1, t)) /\ t >= 1
      BY <1>3, <2>2
    <3> DEFINE s == Parsed(SubSeq(fifo, 1, t))
    <3>2. s \in Seq(0 .. Lines)
      <4>1. \A m \in 1 .. t : fifo[m] \in Piece
        BY <1>0, <1>p
      <4>2. SubSeq(fifo, 1, t) \in Seq(Piece)
        BY <1>0, <4>1, SubSeqProperties
      <4>3. s = << >> \/ \E m \in 1 .. Lines : s = <<m>>
        BY <4>2, ParsedIs
      <4> HIDE DEF s
      <4>4. \A m \in 1 .. Lines : m \in 0 .. Lines
        BY <1>0
      <4>5. \A m \in 0 .. Lines : <<m>> \in Seq(0 .. Lines)
        OBVIOUS
      <4>6. << >> \in Seq(0 .. Lines)
        OBVIOUS
      <4> QED BY <4>3, <4>4, <4>5, <4>6
    <3> HIDE DEF s
    <3>3. got' = got \o s /\ Len(s) \in Nat
      BY <3>1, <3>2, LenProperties DEF s
    <3>4. /\ got' \in Seq(0 .. Lines) /\ Len(got') = Len(got) + Len(s)
          /\ \A m \in 1 .. Len(got) + Len(s) :
               got'[m] = IF m <= Len(got) THEN got[m] ELSE s[m - Len(got)]
      BY <1>0, <3>2, <3>3, ConcatProperties
    <3>5. ASSUME NEW m \in DOMAIN got PROVE got[m] \in ToSet(got')
      <4>1. m \in 1 .. Len(got) + Len(s) /\ m <= Len(got)
        BY <1>0, <3>3, <3>5
      <4>2. m \in DOMAIN got' /\ got'[m] = got[m]
        BY <3>4, <4>1, LenProperties
      <4> QED BY <4>2 DEF ToSet
    <3> QED BY <3>5 DEF ToSet
  <2> QED BY <2>1, <2>2
<1>10. ASSUME NEW i \in 1 .. Lines, NEW k \in Piece, LineOf(k) = i, k <= sent,
              {i, i - 1} \intersect lost = {}, i \notin ToSet(got), k \in Way, k \notin Way'
       PROVE  i \in ToSet(got')
  <2>0. i \in Nat /\ i >= 1 /\ k \in Nat /\ k >= 1
    BY <1>0, <1>10 DEF Piece
  <2>1. PICK l \in 1 .. t : fifo[l] = k
    BY <1>5, <1>10
  <2>2. l \in 1 .. Len(fifo) /\ l \in Int /\ t \in Int
    BY <1>0
  <2>3. IF IsEnd(k) THEN k = 2 * i ELSE k = 2 * i - 1
    BY <1>10, <2>0, LinePieces
  <2>4. CASE IsEnd(k)
    <3>1. l = t
      BY <1>3, <2>1, <2>2, <2>4
    <3>2. IsEnd(fifo[t]) /\ t >= 1 /\ fifo[t] = 2 * i
      BY <2>1, <2>2, <2>3, <2>4, <3>1
    <3> QED BY <1>8, <1>10, <3>2
  <2>5. CASE ~IsEnd(k) /\ IsEnd(fifo[t]) /\ t >= 1
    <3>1. t \in 1 .. Len(fifo) /\ l # t
      BY <2>1, <2>2, <2>5
    <3>2. l < t
      BY <2>1, <2>2, <3>1
    <3>3. fifo[l] < fifo[t] /\ fifo[t] <= sent /\ fifo[t] \in Nat
      BY <1>p, <2>2, <3>1, <3>2
    <3>4. k = 2 * i - 1 /\ 2 * i <= fifo[t]
      BY <2>0, <2>1, <2>3, <2>5, <3>3
    <3>5. 2 * i \in Piece /\ 2 * i <= sent /\ LineOf(2 * i) = i /\ IsEnd(2 * i)
      <4>1. LineOf(2 * i) = i /\ IsEnd(2 * i)
        BY <2>0, PieceLine
      <4>2. 2 * i <= sent
        BY <1>0, <2>0, <3>3, <3>4
      <4>3. 2 * i \in Piece
        BY <1>0, <2>0 DEF Piece
      <4> QED BY <4>1, <4>2, <4>3
    <3>6. 2 * i \in Way
      BY <1>10, <3>5 DEF Kept
    <3>7. PICK m \in 1 .. t : fifo[m] = 2 * i
      BY <1>p, <3>1, <3>4, <3>6
    <3>8. m = t
      BY <1>3, <2>2, <3>5, <3>7
    <3> QED BY <1>8, <1>10, <2>5, <3>7, <3>8
  <2>6. CASE t = Len(fifo) /\ (\A m \in 1 .. t : ~IsEnd(fifo[m])) /\ t >= 2
    <3>1. k = 2 * i - 1
      BY <2>1, <2>3, <2>6
    <3>2. CASE l > 1
      <4>1. 1 \in 1 .. t /\ 1 \in 1 .. Len(fifo)
        BY <1>0, <2>6
      <4>2. fifo[1] < 2 * i - 1 /\ ~IsEnd(fifo[1])
        BY <1>p, <2>1, <2>2, <2>6, <3>1, <3>2, <4>1
      <4>3. PICK w \in Way : fifo[1] < w /\ w = 2 * (i - 1) /\ IsEnd(w)
        BY <1>10, <3>1, <4>1, <4>2, Stray
      <4>4. w <= fifo[l]
        BY <2>0, <2>1, <3>1, <4>3
      <4>5. PICK m \in 1 .. l : fifo[m] = w
        BY <1>p, <2>2, <4>4
      <4>6. m \in 1 .. t
        BY <2>2
      <4> QED BY <2>6, <4>3, <4>5, <4>6
    <3>3. CASE l = 1
      <4>1. 2 \in 1 .. t /\ 2 \in 1 .. Len(fifo) /\ 1 \in 1 .. Len(fifo)
        BY <1>0, <2>6
      <4>2. fifo[1] < fifo[2] /\ ~IsEnd(fifo[2]) /\ fifo[2] \in Nat /\ fifo[2] <= sent
        BY <1>p, <2>6, <4>1
      <4>3. IsEnd(2 * i) /\ LineOf(2 * i) = i
        BY <2>0, PieceLine
      <4>4. 2 * i <= fifo[2]
        BY <2>0, <2>1, <3>1, <3>3, <4>2
      <4>5. 2 * i \in Piece /\ 2 * i <= sent
        BY <1>0, <2>0, <4>2, <4>4 DEF Piece
      <4>6. 2 * i \in Way
        BY <1>10, <4>3, <4>5 DEF Kept
      <4>7. PICK m \in 1 .. 2 : fifo[m] = 2 * i
        BY <1>p, <4>1, <4>4, <4>6
      <4>8. m \in 1 .. t
        BY <2>6, <2>2
      <4> QED BY <2>6, <4>3, <4>7, <4>8
    <3> QED BY <2>2, <3>2, <3>3
  <2> QED BY <1>3, <2>4, <2>5, <2>6
<1>11. Kept'
  <2> SUFFICES ASSUME NEW i \in 1 .. Lines, NEW k \in Piece, LineOf(k) = i, k <= sent',
                      {i, i - 1} \intersect lost' = {}
               PROVE  i \in ToSet(got') \/ k \in Way'
    BY DEF Kept
  <2>1. i \in ToSet(got) \/ k \in Way
    BY <1>1 DEF Kept
  <2> QED BY <1>1, <1>9, <1>10, <2>1
<1> QED BY <1>7, <1>11

------------------------------------------------------------------------------

(* For every stream of lines, FIFO, flood limit and number of requests and  *)
(* bus resets: no frame is made of pieces of two lines, and none is taken   *)
(* twice or out of order (fmtcan.c, fifo.h, usb.c).                         *)
THEOREM LinkGenuine == Spec => [](TypeOK /\ FramesGenuine)
<1>1. Inv => TypeOK /\ FramesGenuine
  <2> SUFFICES ASSUME Inv PROVE TypeOK /\ FramesGenuine
    OBVIOUS
  <2>1. got \in Seq(0 .. Lines) /\ Len(got) \in Nat /\ DOMAIN got = 1 .. Len(got)
    BY LenProperties DEF Inv, TypeOK
  <2>2. ASSUME NEW j \in DOMAIN got
        PROVE  got[j] # 0 /\ (j > 1 => got[j - 1] < got[j])
    <3>1. 1 <= got[j]
      BY <2>1, <2>2 DEF Inv, Behind
    <3>2. ASSUME j > 1 PROVE got[j - 1] < got[j]
      <4>1. j - 1 \in 1 .. Len(got) /\ j \in 1 .. Len(got) /\ j - 1 < j
        BY <2>1, <2>2, <3>2
      <4> QED BY <4>1 DEF Inv, Behind
    <3> QED BY <3>1, <3>2
  <2> QED BY <2>2 DEF Inv, FramesGenuine
<1> QED BY <1>1, InitInv, NextInv, PTL DEF Spec

------------------------------------------------------------------------------
(* The device, its host and the link together. *)

LinkInv == Inv /\ Protocol /\ NoGap /\ Kept

LEMMA LinkInvInit == Init => LinkInv
<1> SUFFICES ASSUME Init PROVE LinkInv
  OBVIOUS
<1>1. Inv /\ Protocol
  BY InitInv, ProtocolInit
<1>2. sent = 0 /\ ToSet(fifo) = {} /\ ~ep1.ctr_rx
  BY DEF Init, UsbInit, ToSet
<1>3. Way = {} /\ \A k \in Piece : ~(k <= sent)
  BY <1>2, Constants DEF Way, Piece
<1> QED BY <1>1, <1>3 DEF LinkInv, NoGap, Kept

(* The control transfers, step by step. *)
LEMMA ProtocolNext ==
  ASSUME Prompt, Inv, Protocol, [Next]_vars
  PROVE  Protocol'
<1>0. UsbType /\ LinkType /\ Served
  BY TypeParts DEF Inv
<1>1. CASE Irq
  BY <1>0, <1>1, ProtocolIrq, ProtocolReset, ProtocolControl, ProtocolServe DEF Irq
<1>2. CASE Host
  BY <1>0, <1>2, ProtocolSetup, ProtocolIn, ProtocolOut, ProtocolGiveUp DEF Host
<1>3. CASE Get \/ UNCHANGED vars
  <2>1. UNCHANGED usbVars
    BY <1>3 DEF Get, vars
  <2>2. Cut => Cut'
    BY <2>1 DEF usbVars, device, Cut, Ctr0
  <2>3. Joined => Joined'
    BY <2>1 DEF usbVars, device, Joined, AtRest, Begun, Done, Refused, Reply, Data, Ctr0,
                NewSetup, Even, Ahead, Due, Agree
  <2> QED BY <2>1, <2>2, <2>3 DEF usbVars, device, Protocol, Sensible
<1>4. CASE BusReset /\ Hangup
  BY <1>0, <1>4, ProtocolBus
<1>5. CASE Ask("unconfigure") /\ Hangup
  <2>1. "unconfigure" \in Request
    BY DEF Request, SetRequest
  <2> QED BY <1>0, <1>5, <2>1, ProtocolAsk
<1>6. CASE \E r \in Request \ {"unconfigure"} : Ask(r) /\ UNCHANGED linkVars
  BY <1>0, <1>6, ProtocolAsk
<1>7. CASE \E n \in 1 .. 2 : Write(n)
  <2>1. PICK n \in 1 .. 2 : Bulk(SubSeq([k \in Piece |-> k], sent + 1, sent + n))
    BY <1>7 DEF Write
  <2> QED BY <1>0, <2>1, ProtocolBulk
<1> QED BY <1>1, <1>2, <1>3, <1>4, <1>5, <1>6, <1>7 DEF Next

(* The pieces, step by step. *)
LEMMA PiecesNext ==
  ASSUME LinkInv, [Next]_vars
  PROVE  NoGap' /\ Kept'
<1>0. UsbType /\ LinkType /\ Served /\ Asked /\ Inv /\ Protocol /\ NoGap /\ Kept
  BY TypeParts DEF Inv, LinkInv
<1>t. sent \in Nat /\ LinkType'
  <2>1. Inv'
    BY <1>0, NextInv
  <2>2. LinkType'
    BY <2>1 DEF Inv, TypeOK, LinkType
  <2>3. sent \in Nat
    BY <1>0, Constants DEF LinkType
  <2> QED BY <2>2, <2>3
<1>u. ASSUME ep1'.ctr_rx = ep1.ctr_rx, ep1'.rx = ep1.rx, UNCHANGED linkVars
      PROVE  NoGap' /\ Kept'
  <2>1. Way' = Way
    BY <1>u, WayStays DEF linkVars
  <2>2. sent' = sent /\ lost' = lost /\ got' = got /\ \A k \in 1 .. sent : ~(k > sent)
    BY <1>t, <1>u DEF linkVars
  <2> QED BY <1>0, <1>t, <2>1, <2>2, WayLess
<1>h. ASSUME ep1'.ctr_rx = ep1.ctr_rx, ep1'.rx = ep1.rx, Hangup
      PROVE  NoGap' /\ Kept'
  <2>1. Way' = Way
    BY <1>h, WayStays DEF Hangup
  <2>2. sent' \in Nat /\ lost \subseteq lost' /\ got' = got
    BY <1>t, <1>h DEF Hangup
  <2>3. ASSUME NEW k \in 1 .. sent', k > sent PROVE LineOf(k) \in lost'
    <3>1. k = sent + 1 /\ ~IsEnd(sent)
      BY <1>t, <1>h, <2>3 DEF Hangup, IsEnd
    <3>2. LineOf(k) = LineOf(sent)
      BY <1>t, <3>1 DEF LineOf, IsEnd
    <3> QED BY <1>h, <3>1, <3>2 DEF Hangup
  <2> QED BY <1>0, <2>1, <2>2, <2>3, WayLess
<1>d. ASSUME PacketStays, Dropped PROVE NoGap' /\ Kept'
  <2>1. sent' = sent /\ got' = got /\ \A k \in 1 .. sent : ~(k > sent)
    BY <1>t, <1>d DEF Dropped
  <2>2. Way' \subseteq Way /\ lost \subseteq lost' /\ \A k \in Way \ Way' : LineOf(k) \in lost'
    BY <1>d, WayDropped
  <2> QED BY <1>0, <1>t, <2>1, <2>2, WayLess
<1>1. CASE Irq
  <2>1. CASE (IrqLoad \/ IrqStore) /\ UNCHANGED linkVars
    BY <1>u, <2>1 DEF IrqLoad, IrqStore
  <2>2. CASE ServeReset /\ Dropped
    BY <1>0, <1>d, <2>2, ResetStep DEF UsbKept
  <2>3. CASE ServeControl /\ Dropped
    BY <1>0, <1>d, <2>3, ControlStep
  <2>4. CASE ServeBulk /\ Buf2Fifo
    <3>1. ep1.ctr_rx /\ ~ep1'.ctr_rx
      BY <1>0, <2>4, BulkServed
    <3>2. sent' = sent /\ got' = got /\ \A k \in 1 .. sent : ~(k > sent)
      BY <1>t, <2>4 DEF Buf2Fifo
    <3>3. Way' \subseteq Way /\ lost \subseteq lost' /\ \A k \in Way \ Way' : LineOf(k) \in lost'
      BY <1>0, <2>4, <3>1, WayServed
    <3> QED BY <1>0, <1>t, <3>2, <3>3, WayLess
  <2> QED BY <1>1, <2>1, <2>2, <2>3, <2>4 DEF Irq
<1>2. CASE Host
  <2>1. ep1' = ep1 /\ UNCHANGED linkVars
    BY <1>2 DEF Host, Setup, In, Out, GiveUp
  <2> QED BY <1>u, <2>1
<1>3. CASE Get
  BY <1>0, <1>3, GetKeeps
<1>4. CASE BusReset /\ Hangup
  <2>1. ep1'.ctr_rx = ep1.ctr_rx /\ ep1'.rx = ep1.rx
    BY <1>0, <1>4 DEF BusReset, UsbType
  <2> QED BY <1>h, <1>4, <2>1
<1>5. CASE Ask("unconfigure") /\ Hangup
  BY <1>h, <1>5 DEF Ask
<1>6. CASE \E r \in Request \ {"unconfigure"} : Ask(r) /\ UNCHANGED linkVars
  BY <1>u, <1>6 DEF Ask
<1>7. CASE \E n \in 1 .. 2 : Write(n)
  <2>1. PICK n \in 1 .. 2 : Write(n)
    BY <1>7
  <2> DEFINE p == SubSeq([k \in Piece |-> k], sent + 1, sent + n)
  <2>2. Bulk(p)
    BY <2>1 DEF Write
  <2>3. ep1'.ctr_rx /\ ep1'.rx = p
    <3> HIDE DEF p
    <3> QED BY <1>0, <2>2, ProtocolBulk
  <2> QED BY <1>0, <2>1, <2>3, WriteKeeps
<1>8. CASE UNCHANGED vars
  BY <1>u, <1>8 DEF vars, usbVars
<1> QED BY <1>1, <1>2, <1>3, <1>4, <1>5, <1>6, <1>7, <1>8 DEF Next

LEMMA LinkInvNext ==
  ASSUME Prompt
  PROVE  LinkInv /\ [Next]_vars => LinkInv'
<1> SUFFICES ASSUME LinkInv, [Next]_vars PROVE LinkInv'
  OBVIOUS
<1>1. Inv /\ Protocol /\ Inv'
  BY NextInv DEF LinkInv
<1> QED BY <1>1, ProtocolNext, PiecesNext DEF LinkInv

(* For every number of requests and bus resets, with a handler that has run *)
(* by the next SETUP: at rest the host and the device agree on address,     *)
(* configuration, toggle and the open port, whatever was reset, stalled or  *)
(* cut on the way (usb.c).                                                  *)
THEOREM HostAgreed ==
  ASSUME Prompt
  PROVE  Spec => []Agreed
<1>1. LinkInv => Agreed
  <2> SUFFICES ASSUME LinkInv, stage = "idle", irq = "idle", ~reset, ~Ctr, ~Deaf, host.up
               PROVE  /\ daddr = host.addr /\ dtr = host.dtr
                      /\ host.conf <=> state = "CONFIGURED"
                      /\ host.conf => ep1.stat # "DISABLED" /\ ep1.dtog = host.toggle
    BY DEF Agreed
  <2>1. ~Cut
    BY DEF Cut, Deaf
  <2>2. Joined
    BY <2>1 DEF LinkInv, Protocol
  <2>3. AtRest /\ ~ep0.ctr_tx
    BY <2>2 DEF Joined, Begun, Done, Refused, Reply, Data, Ctr, Ctr0
  <2>4. Even
    BY <2>3 DEF AtRest
  <2> QED BY <2>4 DEF Even, Agree
<1>2. LinkInv /\ [Next]_vars => LinkInv'
  BY LinkInvNext
<1> QED BY <1>1, <1>2, LinkInvInit, PTL DEF Spec

(* For every stream of lines, FIFO and flood limit: a line sent arrives or  *)
(* is on its way, unless it or the line before it lost a piece to a full    *)
(* FIFO or a link that went down (usb.c, fifo.h, fmtcan.c).                 *)
THEOREM NothingSilent ==
  ASSUME Prompt
  PROVE  Spec => []NoSilentLoss
<1>1. LinkInv => NoSilentLoss
  <2> SUFFICES ASSUME LinkInv, NEW i \in 1 .. Lines, 2 * i <= sent,
                      {i, i - 1} \intersect lost = {}
               PROVE  \/ i \in ToSet(got) \/ 2 * i \in ToSet(fifo)
                      \/ ep1.ctr_rx /\ 2 * i \in ToSet(ep1.rx)
    BY DEF NoSilentLoss
  <2>1. i \in Nat /\ 2 * i \in Piece
    BY Constants DEF Piece
  <2>2. LineOf(2 * i) = i
    BY <2>1, PieceLine
  <2>3. i \in ToSet(got) \/ 2 * i \in Way
    BY <2>1, <2>2 DEF LinkInv, Kept
  <2> QED BY <2>3 DEF Way
<1>2. LinkInv /\ [Next]_vars => LinkInv'
  BY LinkInvNext
<1> QED BY <1>1, <1>2, LinkInvInit, PTL DEF Spec
=============================================================================
