------------------------------ MODULE UsbDevice ------------------------------
(***************************************************************************)
(* The USB device of the harness (src/src/nlib/usb.c): the interrupt       *)
(* handler usb_recv with its control endpoint, and the bulk OUT endpoint,  *)
(* against a host that enumerates, configures, makes requests, sends data  *)
(* and resets the bus, and the macrocell between them.  A packet's content *)
(* is the business of HostLink.  The handler runs in three steps, since it *)
(* loads ISTR, stores it back and serves what it loaded, while the bus     *)
(* goes on.                                                                *)
(***************************************************************************)
EXTENDS Integers, FiniteSets

CONSTANTS
  Packets,      \* what a bulk packet may hold
  MaxRequests,  \* bound: control transfers
  MaxResets,    \* bound: bus resets, the first one included
  Prompt        \* the handler has run by the time of the next SETUP

ASSUME UsbAssumption ==
  MaxRequests \in Nat /\ MaxResets \in Nat \ {0} /\ Prompt \in BOOLEAN

None == -1

(* The requests, by the way they are answered.                             *)
SetRequest == {"address", "configure", "unconfigure", "dtr_on", "dtr_off",
               "halt", "clear", "set_other"}
GetRequest == {"get_descriptor", "get_configuration", "get_other"}
OutRequest == {"line_coding", "out_other"}
Request == SetRequest \union GetRequest \union OutRequest

Stat == {"DISABLED", "STALL", "NAK", "VALID"}

VARIABLES
  \* the macrocell
  reset,    \* ISTR_RESET
  ep0,      \* EPR[0] and the last packet received: a request, "data", "empty"
  ep1,      \* EPR[1], OUT direction, and its packet buffer
  daddr,    \* DADDR, None while EF is 0
  \* the device's software
  irq,      \* "idle", or what usb_recv is about to do with the flags loaded
  state,    \* _usb_state
  req,      \* _ctrl_req
  pending,  \* _ctrl_out_pending
  dtr,      \* _ctrl_line_state & 1
  \* the host
  stage,    \* of the control transfer, "idle" between two
  asked,    \* its request
  host,     \* what the host believes: its address for the device, configured,
            \* the DTR it set, the toggle of its next packet; up: worth asking
  nreq, nreset

device == <<irq, state, req, pending, dtr>>
usbVars == <<reset, ep0, ep1, daddr, device, stage, asked, host, nreq, nreset>>

Ctr0 == ep0.ctr_rx \/ ep0.ctr_tx
Ctr == Ctr0 \/ ep1.ctr_rx

------------------------------------------------------------------------------
(* The device.                                                             *)

(* usb_recv loads ISTR ...                                                 *)
IrqLoad ==
  /\ irq = "idle" /\ (reset \/ Ctr)
  /\ irq' = IF reset THEN "reset" ELSE "ctr"
  /\ UNCHANGED <<reset, ep0, ep1, daddr, state, req, pending, dtr, stage, asked, host, nreq, nreset>>

(* ... and stores it back, loaded once more, with the flags it does not    *)
(* use cleared: a reset flagged since may be cleared with them.            *)
IrqStore ==
  /\ irq \in {"reset", "ctr"}
  /\ irq' = IF irq = "reset" THEN "serve_reset" ELSE "serve_ctr"
  /\ reset' \in (IF irq = "reset" THEN {TRUE} ELSE {FALSE, reset})
  /\ UNCHANGED <<ep0, ep1, daddr, state, req, pending, dtr, stage, asked, host, nreq, nreset>>

(* A fault, for the mutants: a reset leaves the port open.                 *)
ServeResetOpen ==
  /\ irq = "serve_reset" /\ irq' = "idle"
  /\ reset' = FALSE
  /\ ep0' = [ep0 EXCEPT !.ctr_rx = FALSE, !.ctr_tx = FALSE, !.stat_rx = "STALL", !.stat_tx = "STALL"]
  /\ ep1' = [ep1 EXCEPT !.ctr_rx = FALSE, !.stat = "DISABLED", !.dtog = 0]
  /\ daddr' = 0
  /\ state' = "DEFAULT" /\ pending' = FALSE
  /\ UNCHANGED <<req, dtr, stage, asked, host, nreq, nreset>>

(* The reset branch: only a SETUP succeeds from here.                      *)
ServeReset ==
  /\ irq = "serve_reset" /\ irq' = "idle"
  /\ reset' = FALSE
  /\ ep0' = [ep0 EXCEPT !.ctr_rx = FALSE, !.ctr_tx = FALSE, !.stat_rx = "STALL", !.stat_tx = "STALL"]
  /\ ep1' = [ep1 EXCEPT !.ctr_rx = FALSE, !.stat = "DISABLED", !.dtog = 0]
  /\ daddr' = 0
  /\ state' = "DEFAULT" /\ pending' = FALSE /\ dtr' = FALSE
  /\ UNCHANGED <<req, stage, asked, host, nreq, nreset>>

(* handle_set_request: which requests are granted, in which state.         *)
Granted(r) ==
  \/ r = "address" /\ state # "CONFIGURED"
  \/ r \in {"configure", "unconfigure"} /\ state \in {"ADDRESS", "CONFIGURED"}
  \/ r \in {"dtr_on", "dtr_off"}
  \/ r \in {"halt", "clear"} /\ state = "CONFIGURED"

(* handle_get_request: which are answered.                                 *)
Answered(r) ==
  \/ r = "get_descriptor"
  \/ r = "get_configuration" /\ state # "DEFAULT"

(* A fault, for the mutants: unconfiguring leaves the endpoint alone.      *)
SetEp1Kept(r) ==
  ep1' = CASE r = "configure" /\ state = "ADDRESS" -> [ep1 EXCEPT !.ctr_rx = FALSE, !.stat = "VALID"]
           [] r = "halt" -> [ep1 EXCEPT !.stat = "STALL"]
           [] r = "clear" -> [ep1 EXCEPT !.stat = "NAK", !.dtog = 0]
           [] OTHER -> ep1

(* What a granted request does to the bulk endpoint.                       *)
SetEp1(r) ==
  ep1' = CASE r = "configure" /\ state = "ADDRESS" -> [ep1 EXCEPT !.ctr_rx = FALSE, !.stat = "VALID"]
           [] r = "unconfigure" /\ state = "CONFIGURED" ->
                [ep1 EXCEPT !.ctr_rx = FALSE, !.stat = "DISABLED", !.dtog = 0]
           [] r = "halt" -> [ep1 EXCEPT !.stat = "STALL"]
           [] r = "clear" -> [ep1 EXCEPT !.stat = "NAK", !.dtog = 0]
           [] OTHER -> ep1

(* A fault, for the mutants: the address is set as soon as it is asked.    *)
SetStateEarly(r) ==
  /\ state' = CASE r = "configure" -> "CONFIGURED" [] r = "unconfigure" -> "ADDRESS"
                [] r = "address" -> "ADDRESS" [] OTHER -> state
  /\ dtr' = (IF r \in {"dtr_on", "dtr_off"} THEN r = "dtr_on" ELSE dtr)
  /\ daddr' = IF r = "address" THEN 1 ELSE daddr

(* And to the device's state; the address waits for the acknowledge.       *)
SetState(r) ==
  /\ state' = CASE r = "configure" -> "CONFIGURED" [] r = "unconfigure" -> "ADDRESS"
                [] OTHER -> state
  /\ dtr' = (IF r \in {"dtr_on", "dtr_off"} THEN r = "dtr_on" ELSE dtr)
  /\ UNCHANGED daddr

(* handle_ep0 did not handle the transfer: both directions stall, and the  *)
(* flags not cleared before stay set.                                      *)
Abort(e) == ep0' = [e EXCEPT !.stat_rx = "STALL", !.stat_tx = "STALL"]

(* A SETUP: the request is granted, answered, refused, or its data awaited.*)
HandleSetup ==
  /\ ep0.ctr_rx /\ ep0.setup /\ ~ep0.ctr_tx
  /\ LET r == ep0.rx
         e == [ep0 EXCEPT !.ctr_rx = FALSE]
     IN  /\ req' = r
         /\ pending' = (r = "line_coding")
         /\ CASE r = "line_coding" ->
                   ep0' = [e EXCEPT !.stat_rx = "VALID"] /\ UNCHANGED <<ep1, state, dtr, daddr>>
              [] r = "out_other" -> Abort(e) /\ UNCHANGED <<ep1, state, dtr, daddr>>
              [] r \in SetRequest /\ Granted(r) ->
                   ep0' = [e EXCEPT !.stat_tx = "VALID"] /\ SetEp1(r) /\ SetState(r)
              [] r \in GetRequest /\ Answered(r) ->
                   ep0' = [e EXCEPT !.stat_tx = "VALID"] /\ UNCHANGED <<ep1, state, dtr, daddr>>
              [] OTHER -> Abort(e) /\ UNCHANGED <<ep1, state, dtr, daddr>>

(* The reply or the acknowledge has gone out: an address takes effect, a   *)
(* GET awaits the host's status.                                           *)
HandleSent ==
  /\ ep0.ctr_tx /\ ~ep0.ctr_rx
  /\ pending' = FALSE
  /\ LET e == [ep0 EXCEPT !.ctr_tx = FALSE]
     IN  ep0' = IF ~pending /\ req \notin SetRequest THEN [e EXCEPT !.stat_rx = "VALID"] ELSE e
  /\ IF ~pending /\ req = "address" THEN daddr' = 1 /\ state' = "ADDRESS" ELSE UNCHANGED <<daddr, state>>
  /\ UNCHANGED <<ep1, req, dtr>>

(* Data for SET_LINE_CODING, or the host's status for a GET.               *)
HandleReceived ==
  /\ ep0.ctr_rx /\ ~ep0.setup /\ ~ep0.ctr_tx
  /\ IF pending
     THEN IF ep0.rx = "data" THEN ep0' = [ep0 EXCEPT !.ctr_rx = FALSE, !.stat_tx = "VALID"] ELSE Abort(ep0)
     ELSE IF ep0.rx = "empty" THEN ep0' = [ep0 EXCEPT !.ctr_rx = FALSE] ELSE Abort(ep0)
  /\ UNCHANGED <<ep1, daddr, state, req, pending, dtr>>

(* Flags no case is for: an acknowledge and the next SETUP together.       *)
HandleOther ==
  /\ ep0.ctr_rx /\ ep0.ctr_tx
  /\ Abort(ep0)
  /\ UNCHANGED <<ep1, daddr, state, req, pending, dtr>>

(* handle_ep0.                                                             *)
ServeControl ==
  /\ irq = "serve_ctr" /\ Ctr0 /\ irq' = "idle"
  /\ HandleSetup \/ HandleSent \/ HandleReceived \/ HandleOther
  /\ UNCHANGED <<reset, stage, asked, host, nreq, nreset>>

(* A bulk packet: taken into the FIFO or, without room, let go.            *)
ServeBulk ==
  /\ irq = "serve_ctr" /\ ~Ctr0 /\ irq' = "idle"
  /\ ep1' = [ep1 EXCEPT !.ctr_rx = FALSE, !.stat = "VALID"]
  /\ UNCHANGED <<reset, ep0, daddr, state, req, pending, dtr, stage, asked, host, nreq, nreset>>

------------------------------------------------------------------------------
(* The macrocell and the host.                                             *)

(* The bus is reset: the macrocell drops address and endpoints, but keeps  *)
(* the flags of packets not yet served.                                    *)
BusReset ==
  /\ nreset < MaxResets /\ nreset' = nreset + 1
  /\ reset' = TRUE
  /\ ep0' = [ep0 EXCEPT !.stat_rx = "DISABLED", !.stat_tx = "DISABLED"]
  /\ ep1' = [ep1 EXCEPT !.stat = "DISABLED", !.dtog = 0]
  /\ daddr' = None
  /\ stage' = "idle"
  /\ host' = [addr |-> 0, conf |-> FALSE, dtr |-> FALSE, toggle |-> 0, up |-> TRUE]
  /\ UNCHANGED <<device, asked, nreq>>

(* What this host asks, by what it believes; it configures a device that   *)
(* is not configured and leaves halts to those that are.                   *)
Sensible(r) ==
  /\ r = "address" => host.addr = 0
  /\ r = "configure" => host.addr # 0 /\ ~host.conf
  /\ r \in {"unconfigure", "dtr_on", "dtr_off", "halt", "clear", "line_coding"} => host.conf

Ask(r) ==
  /\ stage = "idle" /\ host.up /\ nreq < MaxRequests /\ Sensible(r)
  /\ stage' = "setup" /\ asked' = r /\ nreq' = nreq + 1
  /\ UNCHANGED <<reset, ep0, ep1, daddr, device, host, nreset>>

Reached == daddr = host.addr

(* A SETUP is taken in every state but one: with the last packet received  *)
(* not yet served.                                                         *)
Setup ==
  /\ stage = "setup" /\ Reached /\ ep0.stat_rx # "DISABLED" /\ ~ep0.ctr_rx
  /\ Prompt => ~ep0.ctr_tx
  /\ ep0' = [ep0 EXCEPT !.ctr_rx = TRUE, !.setup = TRUE, !.rx = asked,
                        !.stat_rx = "NAK", !.stat_tx = "NAK"]
  /\ stage' = CASE asked \in SetRequest -> "status_in" [] asked \in GetRequest -> "data_in"
                [] asked \in OutRequest -> "data_out"
  /\ UNCHANGED <<reset, ep1, daddr, device, asked, host, nreq, nreset>>

(* What a transfer that succeeded tells the host.                          *)
Believe ==
  host' = CASE asked = "address" -> [host EXCEPT !.addr = 1]
            [] asked = "configure" -> [host EXCEPT !.conf = TRUE, !.toggle = 0]
            [] asked = "unconfigure" -> [host EXCEPT !.conf = FALSE]
            [] asked = "clear" -> [host EXCEPT !.toggle = 0]
            [] asked \in {"dtr_on", "dtr_off"} -> [host EXCEPT !.dtr = (asked = "dtr_on")]
            [] OTHER -> host

(* An IN of the data or the status stage.                                  *)
In ==
  /\ stage \in {"data_in", "status_in"} /\ Reached
  /\ \/ /\ ep0.stat_tx = "VALID"
        /\ ep0' = [ep0 EXCEPT !.ctr_tx = TRUE, !.stat_tx = "NAK"]
        /\ IF stage = "data_in" THEN stage' = "status_out" /\ UNCHANGED host
                                ELSE stage' = "idle" /\ Believe
     \/ ep0.stat_tx = "STALL" /\ stage' = "idle" /\ UNCHANGED <<ep0, host>>
  /\ UNCHANGED <<reset, ep1, daddr, device, asked, nreq, nreset>>

(* An OUT of either.                                                       *)
Out ==
  /\ stage \in {"data_out", "status_out"} /\ Reached
  /\ \/ /\ ep0.stat_rx = "VALID"
        /\ ep0' = [ep0 EXCEPT !.ctr_rx = TRUE, !.setup = FALSE, !.stat_rx = "NAK",
                              !.rx = IF stage = "data_out" THEN "data" ELSE "empty"]
        /\ stage' = IF stage = "data_out" THEN "status_in" ELSE "idle"
     \/ ep0.stat_rx = "STALL" /\ stage' = "idle" /\ UNCHANGED ep0
  /\ UNCHANGED <<reset, ep1, daddr, device, asked, host, nreq, nreset>>

(* A device that missed a reset is deaf: the host gives up on it until it  *)
(* resets the bus again.                                                   *)
Deaf == daddr = None \/ ep0.stat_rx = "DISABLED"
GiveUp ==
  /\ stage # "idle" /\ Deaf /\ irq = "idle" /\ ~reset /\ ~Ctr
  /\ stage' = "idle" /\ host' = [host EXCEPT !.up = FALSE]
  /\ UNCHANGED <<reset, ep0, ep1, daddr, device, asked, nreq, nreset>>

(* A bulk packet is acknowledged; with the wrong toggle it passes for one  *)
(* the device has already had.  The host leaves the pipe alone while it     *)
(* asks for something about it.                                            *)
Bulk(p) ==
  /\ host.conf /\ ~(stage # "idle" /\ asked \in {"unconfigure", "halt", "clear"})
  /\ Reached /\ ep1.stat = "VALID" /\ ~ep1.ctr_rx
  /\ host' = [host EXCEPT !.toggle = 1 - @]
  /\ ep1' = IF ep1.dtog = host.toggle
            THEN [ep1 EXCEPT !.ctr_rx = TRUE, !.stat = "NAK", !.dtog = 1 - @, !.rx = p]
            ELSE ep1
  /\ UNCHANGED <<reset, ep0, daddr, device, stage, asked, nreq, nreset>>

------------------------------------------------------------------------------

(* After usb_init, the bus not yet reset.                                  *)
UsbInit ==
  /\ reset = FALSE
  /\ ep0 = [ctr_rx |-> FALSE, setup |-> FALSE, ctr_tx |-> FALSE,
            stat_rx |-> "DISABLED", stat_tx |-> "DISABLED", rx |-> "empty"]
  /\ ep1 = [ctr_rx |-> FALSE, stat |-> "DISABLED", dtog |-> 0, rx |-> CHOOSE p \in Packets : TRUE]
  /\ daddr = None
  /\ irq = "idle" /\ state = "UNATTACHED" /\ req = "set_other" /\ pending = FALSE /\ dtr = FALSE
  /\ stage = "idle" /\ asked = "set_other"
  /\ host = [addr |-> 0, conf |-> FALSE, dtr |-> FALSE, toggle |-> 0, up |-> FALSE]
  /\ nreq = 0 /\ nreset = 0
=============================================================================
