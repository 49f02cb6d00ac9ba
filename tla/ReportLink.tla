----------------------------- MODULE ReportLink -----------------------------
(***************************************************************************)
(* The reports' way from the main loop to the host's tool: lines of text   *)
(* in a FIFO, cut into packets that usb_send schedules while the interrupt *)
(* handler may change the endpoint under it, acknowledges the bus may      *)
(* lose, and a parser without a checksum (src/src/nlib/usb.c, usbfs.h,     *)
(* fmtcan.c, src/src/main.c, src/rb01tool/main.go).  What HostLink shows   *)
(* of the control endpoint is taken for granted here: a request is one     *)
(* step.  A line is three pieces: the beginning, the middle, the end.      *)
(***************************************************************************)
EXTENDS Integers, Sequences

CONSTANTS
  Lines,   \* bound: lines reported
  Room,    \* pieces the FIFO holds
  Packet,  \* pieces in a packet
  Events   \* bound: requests, resets and lost acknowledges

(* STAT_TX by its bits.                                                    *)
DISABLED == {}
STALL == {0}
NAK == {1}
VALID == {0, 1}
Xor(a, b) == (a \ b) \union (b \ a)

VARIABLES
  state, dtr,   \* _usb_state, _ctrl_line_state & 1
  stat, dtog,   \* of EPR[1], IN direction
  buf,          \* its packet
  fifo,         \* usb_tx
  pc, seen,     \* the main loop: what usb_send does next, the STAT_TX loaded
  host,         \* toggle: of the next packet; line: pieces since the last
                \* line; halted: it halted the endpoint
  made,         \* lines reported
  got,          \* the lines the host accepted, 0 for one made of several
  lost,         \* lines known to be lost
  events

vars == <<state, dtr, stat, dtog, buf, fifo, pc, seen, host, made, got, lost, events>>

Piece(i, k) == [line |-> i, part |-> k]
LinesOf(s) == {s[k].line : k \in DOMAIN s}

(* A packet is between the FIFO and the host.                              *)
Sending == pc \in {"load", "store"} \/ stat = VALID
InBuf == IF Sending THEN buf ELSE <<>>

------------------------------------------------------------------------------
(* The main loop.                                                          *)

(* can_send: the whole line goes into the FIFO, or it is dropped.          *)
Report ==
  /\ pc = "idle" /\ made < Lines /\ made' = made + 1
  /\ IF Len(fifo) + 3 <= Room
     THEN fifo' = fifo \o [k \in 1 .. 3 |-> Piece(made + 1, k)] /\ UNCHANGED lost
     ELSE lost' = lost \union {made + 1} /\ UNCHANGED fifo
  /\ UNCHANGED <<state, dtr, stat, dtog, buf, pc, seen, host, got, events>>

(* Once a round: send, or with nobody listening forget.                    *)
Round ==
  /\ pc = "idle"
  /\ IF dtr
     THEN pc' = "look" /\ UNCHANGED <<fifo, lost>>
     ELSE fifo' = <<>> /\ lost' = lost \union LinesOf(fifo) /\ UNCHANGED pc
  /\ UNCHANGED <<state, dtr, stat, dtog, buf, seen, host, made, got, events>>

(* A fault, for the mutants: a packet in flight does not count.            *)
FreeAny == stat \in {NAK, VALID}

(* Not in flight, not stalled, and configured.                             *)
Free == stat = NAK

(* usb_send: is there a packet to send, and room for it ...                *)
Look ==
  /\ pc = "look" /\ pc' = IF Free /\ fifo # <<>> THEN "fill" ELSE "idle"
  /\ UNCHANGED <<state, dtr, stat, dtog, buf, fifo, seen, host, made, got, lost, events>>

(* ... fifo2buf moves it into the packet buffer ...                        *)
Fill ==
  /\ pc = "fill" /\ pc' = "load"
  /\ LET n == IF Len(fifo) < Packet THEN Len(fifo) ELSE Packet
     IN  buf' = SubSeq(fifo, 1, n) /\ fifo' = SubSeq(fifo, n + 1, Len(fifo))
  /\ UNCHANGED <<state, dtr, stat, dtog, seen, host, made, got, lost, events>>

(* ... and usb_ep_set_stat_tx loads the register ...                       *)
Load ==
  /\ pc = "load" /\ pc' = "store" /\ seen' = stat
  /\ UNCHANGED <<state, dtr, stat, dtog, buf, fifo, host, made, got, lost, events>>

(* ... and stores what turns the STAT_TX it loaded into VALID.             *)
Store ==
  /\ pc = "store" /\ pc' = "idle" /\ stat' = Xor(stat, Xor(seen, VALID))
  /\ UNCHANGED <<state, dtr, dtog, buf, fifo, seen, host, made, got, lost, events>>

------------------------------------------------------------------------------
(* The interrupt handler, serving a reset or a request.                    *)

Event == events < Events /\ events' = events + 1

(* What is between FIFO and host goes.                                     *)
DropPacket == lost' = lost \union LinesOf(InBuf)

(* usb_send is shorter than a control transfer: of what changes the        *)
(* endpoint, one at most falls between its look and its store.             *)
Apart ==
  pc \in {"fill", "load", "store"} =>
    stat = NAK /\ state = "CONFIGURED" /\ (pc = "store" => seen = NAK)

(* A bus reset: the endpoint is off and the port closed.                   *)
Reset ==
  /\ Event /\ Apart
  /\ state' = "DEFAULT" /\ dtr' = FALSE
  /\ stat' = DISABLED /\ dtog' = 0
  /\ lost' = lost \union LinesOf(InBuf) \union LinesOf(host.line)
  /\ host' = [host EXCEPT !.line = <<>>]
  /\ UNCHANGED <<buf, fifo, pc, seen, made, got>>

(* SET_ADDRESS, then SET_CONFIGURATION.                                    *)
Address ==
  /\ Apart /\ state = "DEFAULT" /\ state' = "ADDRESS"
  /\ UNCHANGED <<dtr, stat, dtog, buf, fifo, pc, seen, host, made, got, lost, events>>

(* A fault, for the mutants: the endpoint stays as it was.                 *)
ConfigureNothing ==
  /\ Apart /\ state = "ADDRESS" /\ state' = "CONFIGURED"
  /\ host' = [toggle |-> 0, line |-> <<>>, halted |-> FALSE]
  /\ UNCHANGED <<dtr, stat, dtog, buf, fifo, pc, seen, made, got, lost, events>>

Configure ==
  /\ Apart /\ state = "ADDRESS" /\ state' = "CONFIGURED"
  /\ stat' = NAK
  /\ DropPacket
  /\ host' = [toggle |-> 0, line |-> <<>>, halted |-> FALSE]
  /\ UNCHANGED <<dtr, dtog, buf, fifo, pc, seen, made, got, events>>

Unconfigure ==
  /\ Event /\ Apart /\ state = "CONFIGURED" /\ state' = "ADDRESS"
  /\ stat' = DISABLED /\ dtog' = 0
  /\ lost' = lost \union LinesOf(InBuf) \union LinesOf(host.line)
  /\ host' = [host EXCEPT !.line = <<>>]
  /\ UNCHANGED <<dtr, buf, fifo, pc, seen, made, got>>

(* The tool opens or closes the port; what it read of a line is forgotten. *)
Dtr(on) ==
  /\ state = "CONFIGURED" /\ dtr # on /\ dtr' = on
  /\ IF on THEN UNCHANGED <<events, lost>> ELSE Event /\ lost' = lost \union LinesOf(host.line)
  /\ host' = [host EXCEPT !.line = <<>>]
  /\ UNCHANGED <<state, stat, dtog, buf, fifo, pc, seen, made, got>>

(* A host leaves a pipe alone that has a packet for it, or is given one:   *)
(* the packet would go, in the middle of a line.                           *)
Healthy == ~Sending

Halt ==
  /\ Event /\ Apart /\ Healthy /\ state = "CONFIGURED"
  /\ stat' = STALL
  /\ DropPacket
  /\ host' = [host EXCEPT !.halted = TRUE]
  /\ UNCHANGED <<state, dtr, dtog, buf, fifo, pc, seen, made, got>>

(* A fault, for the mutants: the toggle stays.                             *)
ClearStat ==
  /\ Event /\ Apart /\ Healthy /\ state = "CONFIGURED"
  /\ stat' = NAK
  /\ DropPacket
  /\ host' = [host EXCEPT !.toggle = 0, !.halted = FALSE]
  /\ UNCHANGED <<state, dtr, dtog, buf, fifo, pc, seen, made, got>>

Clear ==
  /\ Event /\ Apart /\ Healthy /\ state = "CONFIGURED"
  /\ stat' = NAK /\ dtog' = 0
  /\ DropPacket
  /\ host' = [host EXCEPT !.toggle = 0, !.halted = FALSE]
  /\ UNCHANGED <<state, dtr, buf, fifo, pc, seen, made, got>>

------------------------------------------------------------------------------
(* The host reads while the port is open.                                  *)

(* parseLine has no length to go by: it takes a line that lacks some of    *)
(* its middle, and refuses one with a second beginning in it.              *)
Parsed(s) ==
  IF s[1].part # 1 \/ \E k \in 2 .. Len(s) : s[k].part = 1 THEN <<>>
  ELSE IF LinesOf(s) = {s[1].line} /\ Len(s) = 3 THEN <<s[1].line>> ELSE <<0>>

(* One more piece, which may end a line.                                   *)
Read(h, p) ==
  LET s == Append(h.line, p)
  IN  IF p.part = 3 THEN [line |-> <<>>, got |-> h.got \o Parsed(s)]
                    ELSE [line |-> s, got |-> h.got]

(* All of a packet.                                                        *)
ReadAll(h, packet) ==
  LET reading[n \in 0 .. Len(packet)] ==
        IF n = 0 THEN h ELSE Read(reading[n - 1], packet[n])
  IN  reading[Len(packet)]

(* A packet with the toggle expected is new; an acknowledge that is lost   *)
(* brings it again.                                                        *)
In ==
  /\ state = "CONFIGURED" /\ dtr /\ stat = VALID
  /\ LET h == ReadAll([line |-> host.line, got |-> got], buf)
         new == dtog = host.toggle
     IN  /\ host' = IF new THEN [host EXCEPT !.toggle = 1 - dtog, !.line = h.line] ELSE host
         /\ got' = IF new THEN h.got ELSE got
  /\ \/ (stat' = NAK /\ dtog' = 1 - dtog /\ UNCHANGED events)
     \/ Event /\ UNCHANGED <<stat, dtog>>
  /\ UNCHANGED <<state, dtr, buf, fifo, pc, seen, made, lost>>

------------------------------------------------------------------------------

(* After usb_init and the first reset.                                     *)
Init ==
  /\ state = "DEFAULT" /\ dtr = FALSE /\ stat = DISABLED /\ dtog = 0
  /\ buf = <<>> /\ fifo = <<>> /\ pc = "idle" /\ seen = DISABLED
  /\ host = [toggle |-> 0, line |-> <<>>, halted |-> FALSE]
  /\ made = 0 /\ got = <<>> /\ lost = {} /\ events = 0

Main == Round \/ Look \/ Fill \/ Load \/ Store
Request == Address \/ Configure \/ Unconfigure \/ Dtr(TRUE) \/ Dtr(FALSE) \/ Halt \/ Clear

Next == Report \/ Main \/ Reset \/ Request \/ In

Spec == Init /\ [][Next]_vars

------------------------------------------------------------------------------

(* What the host accepts for a line is one, whole, once and in order,      *)
(* through lost acknowledges, closed ports and resets (main.c: "no         *)
(* per-line crc: USB bulk already has link-level integrity").              *)
ReportsGenuine ==
  \A j \in DOMAIN got : got[j] # 0 /\ (j > 1 => got[j - 1] < got[j])

(* A line that was put in the FIFO arrives or is on its way, unless it, or *)
(* the line before it, went with a closed port, a reset or a request.      *)
ReportsArrive ==
  \A i \in 1 .. made :
    \/ {i - 1, i} \intersect lost # {}
    \/ \E j \in DOMAIN got : got[j] = i
    \/ i \in LinesOf(fifo) \union LinesOf(InBuf) \union LinesOf(host.line)

(* On a configured endpoint the host did not halt, a packet waits for the  *)
(* host or the next one can be sent: neither a request nor usb_send's race *)
(* with it leaves the pipe stuck.                                          *)
PipeOpen ==
  state = "CONFIGURED" /\ ~host.halted /\ pc = "idle" => stat \in {NAK, VALID}
=============================================================================
