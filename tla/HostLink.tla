------------------------------ MODULE HostLink ------------------------------
(***************************************************************************)
(* The commands' way from the host's tool to the mailboxes: lines of text  *)
(* cut into USB packets, the byte FIFO the interrupt handler fills and may *)
(* find full, and the parser the main loop empties it with                 *)
(* (src/src/nlib/fmtcan.c, fifo.h, src/src/main.c, src/rb01tool/main.go).  *)
(* The lines the host writes are a stream of pieces, two to a line: its    *)
(* beginning, and the rest with the checksum and the end of line.          *)
(***************************************************************************)
EXTENDS UsbDevice, Sequences, SequencesExt

CONSTANTS
  Lines,  \* bound: lines the host sends
  Room,   \* pieces the FIFO holds
  Flood   \* pieces without an end of line that are dropped

ASSUME LinkAssumption ==
  {Lines, Room, Flood} \subseteq Nat \ {0} /\ Flood < Room

Piece == 1 .. 2 * Lines
LineOf(k) == (k + 1) \div 2
IsEnd(k) == k % 2 = 0

(* A packet holds one piece or two.                                        *)
AllPackets == {<<k>> : k \in Piece} \union {<<k, k + 1>> : k \in Piece \ {2 * Lines}}

ASSUME PacketAssumption == Packets = AllPackets

VARIABLES
  sent,   \* pieces the host has sent
  fifo,   \* usb_rx
  got,    \* the lines accepted, 0 for one made of several
  lost    \* lines that lost a piece: no room, or the link went down

linkVars == <<sent, fifo, got, lost>>
vars == <<usbVars, linkVars>>

LinesOf(s) == {LineOf(k) : k \in ToSet(s)}

------------------------------------------------------------------------------

(* The next piece or two of the stream.                                    *)
Write(n) ==
  /\ sent + n <= 2 * Lines
  /\ Bulk(SubSeq([k \in Piece |-> k], sent + 1, sent + n))
  /\ sent' = sent + n
  /\ UNCHANGED <<fifo, got, lost>>

(* A session that ends within a line leaves it unfinished.                 *)
Hangup ==
  /\ sent' = sent + (sent % 2)
  /\ lost' = IF IsEnd(sent) THEN lost ELSE lost \union {LineOf(sent)}
  /\ UNCHANGED <<fifo, got>>

(* buf2fifo: a packet without room is dropped whole.                       *)
Buf2Fifo ==
  /\ IF Len(fifo) + Len(ep1.rx) <= Room
     THEN fifo' = fifo \o ep1.rx /\ UNCHANGED lost
     ELSE lost' = lost \union LinesOf(ep1.rx) /\ UNCHANGED fifo
  /\ UNCHANGED <<sent, got>>

(* A packet not yet served goes with the endpoint.                         *)
Dropped ==
  /\ lost' = IF ep1.ctr_rx /\ ~ep1'.ctr_rx THEN lost \union LinesOf(ep1.rx) ELSE lost
  /\ UNCHANGED <<sent, fifo, got>>

(* A fault, for the mutants: the checksum does not count.                  *)
ParsedUnchecked(s) ==
  IF Len(s) = 2 /\ ~IsEnd(s[1])
  THEN <<IF LineOf(s[1]) = LineOf(s[2]) THEN LineOf(s[1]) ELSE 0>> ELSE <<>>

(* What passes the parser and its checksum: one whole line.  The rest of a *)
(* line alone is no extended frame.                                        *)
Parsed(s) ==
  IF Len(s) = 2 /\ ~IsEnd(s[1]) /\ LineOf(s[1]) = LineOf(s[2])
  THEN <<LineOf(s[1])>> ELSE <<>>

(* can_fifo_get, and the mailboxes behind it: up to the first end of line; *)
(* a flood without one is dropped.                                         *)
Get ==
  LET ends == {e \in 1 .. Len(fifo) : IsEnd(fifo[e])}
      e == CHOOSE x \in ends : \A y \in ends : x <= y
  IN  /\ IF ends # {}
         THEN /\ fifo' = SubSeq(fifo, e + 1, Len(fifo))
              /\ got' = got \o Parsed(SubSeq(fifo, 1, e))
         ELSE /\ Len(fifo) > Flood
              /\ fifo' = <<>> /\ UNCHANGED got
      /\ UNCHANGED <<sent, lost, usbVars>>

------------------------------------------------------------------------------

Init == UsbInit /\ sent = 0 /\ fifo = <<>> /\ got = <<>> /\ lost = {}

Irq ==
  \/ IrqLoad /\ UNCHANGED linkVars
  \/ IrqStore /\ UNCHANGED linkVars
  \/ ServeReset /\ Dropped
  \/ ServeControl /\ Dropped
  \/ ServeBulk /\ Buf2Fifo

Host ==
  \/ Setup /\ UNCHANGED linkVars
  \/ In /\ UNCHANGED linkVars
  \/ Out /\ UNCHANGED linkVars
  \/ GiveUp /\ UNCHANGED linkVars

Next ==
  \/ Irq \/ Host
  \/ Get
  \/ BusReset /\ Hangup
  \/ Ask("unconfigure") /\ Hangup
  \/ \E r \in Request \ {"unconfigure"} : Ask(r) /\ UNCHANGED linkVars
  \/ \E n \in 1 .. 2 : Write(n)

(* The interrupt is served, and the host goes on with a transfer begun.    *)
Spec == Init /\ [][Next]_vars /\ WF_vars(Irq) /\ WF_vars(Host)

------------------------------------------------------------------------------

(* Every variable stays in its type.                                       *)
TypeOK ==
  /\ reset \in BOOLEAN
  /\ ep0 \in [ctr_rx : BOOLEAN, setup : BOOLEAN, ctr_tx : BOOLEAN,
              stat_rx : Stat, stat_tx : Stat, rx : Request \union {"data", "empty"}]
  /\ ep1 \in [ctr_rx : BOOLEAN, stat : Stat, dtog : 0 .. 1, rx : Packets]
  /\ daddr \in {None, 0, 1}
  /\ irq \in {"idle", "reset", "ctr", "serve_reset", "serve_ctr"}
  /\ state \in {"UNATTACHED", "DEFAULT", "ADDRESS", "CONFIGURED"}
  /\ req \in Request /\ pending \in BOOLEAN /\ dtr \in BOOLEAN
  /\ stage \in {"idle", "setup", "data_in", "status_out", "data_out", "status_in"}
  /\ asked \in Request
  /\ host \in [addr : 0 .. 1, conf : BOOLEAN, dtr : BOOLEAN, toggle : 0 .. 1, up : BOOLEAN]
  /\ nreq \in 0 .. MaxRequests /\ nreset \in 0 .. MaxResets
  /\ sent \in 0 .. 2 * Lines /\ fifo \in Seq(Piece) /\ Len(fifo) <= Room
  /\ got \in Seq(0 .. Lines) /\ lost \subseteq 1 .. Lines

(* Every control transfer ends: answered, stalled, cut by a reset of the   *)
(* bus, or given up because the device missed one (usb.c: "all control     *)
(* transfers are one packet", three events).                               *)
TransferEnds == stage # "idle" ~> stage = "idle"

(* At rest, host and device agree on address, configuration, toggle and    *)
(* the open port, whatever was reset, stalled or cut on the way.           *)
Agreed ==
  stage = "idle" /\ irq = "idle" /\ ~reset /\ ~Ctr /\ ~Deaf /\ host.up =>
    /\ daddr = host.addr /\ dtr = host.dtr
    /\ host.conf <=> state = "CONFIGURED"
    /\ host.conf => ep1.stat # "DISABLED" /\ ep1.dtog = host.toggle

(* A packet dropped costs the lines it held a piece of and the line after  *)
(* them, no more: every other line sent arrives or is on its way.          *)
NoSilentLoss ==
  \A i \in 1 .. Lines :
    2 * i <= sent =>
      \/ {i, i - 1} \intersect lost # {}
      \/ i \in ToSet(got) \/ 2 * i \in ToSet(fifo)
      \/ ep1.ctr_rx /\ 2 * i \in ToSet(ep1.rx)

(* No frame is made of pieces of two lines, none is taken twice or out of  *)
(* order, whatever packets were dropped in between.                        *)
FramesGenuine ==
  \A j \in DOMAIN got : got[j] # 0 /\ (j > 1 => got[j - 1] < got[j])
=============================================================================
