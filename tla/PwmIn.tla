------------------------------- MODULE PwmIn -------------------------------
(***************************************************************************)
(* One channel of a PWM capture timer (pwm.c): the hardware latches edges  *)
(* of the pin, the capture interrupt measures, the main loop takes         *)
(* snapshots.  Edges are numbered as they happen, rising edges odd, and a  *)
(* time stamp is the number of its edge: a measurement is the pair of the  *)
(* edges it was taken between.                                             *)
(***************************************************************************)
EXTENDS Ages, Sequences

VARIABLES
  edge,            \* the number of the last edge; the pin is high when it is odd
  flag, over, ccr, \* CCxIF, CCxOF and the captured edge
  chan,            \* struct PWMInChan
  irq              \* the interrupt handler: where, and what it read

timer == <<edge, flag, over, ccr>>

Never == <<0, 0>>
Level == edge % 2 = 1

PwmInit ==
  /\ edge \in {0, 1} /\ flag = FALSE /\ over = FALSE /\ ccr = 0
  /\ chan = [have_rise |-> FALSE, prev_level |-> FALSE, rise |-> 0,
             width |-> Never, period |-> Never, count |-> 0, errs |-> 0]
  /\ irq = [at |-> "off", sr |-> {}, cap |-> 0]

(* The pin changes and the capture unit latches it.  A pulse may be shorter  *)
(* than it takes to serve its rising edge; the gap between two is not.       *)
Edge ==
  /\ edge < MaxEdges
  /\ ~Level => ~flag /\ irq.at = "off"
  /\ edge' = edge + 1
  /\ ccr' = edge + 1
  /\ flag' = TRUE
  /\ over' = (over \/ flag)
  /\ UNCHANGED <<chan, irq>>

(* The handler reads SR once, ... *)
IrqEnter ==
  /\ flag /\ irq.at = "off"
  /\ irq' = [at |-> "capture", cap |-> 0,
             sr |-> {"IF"} \cup (IF over THEN {"OF"} ELSE {})]
  /\ UNCHANGED <<timer, chan>>

(* ... clears and counts an overcapture, takes the capture, which clears IF, *)
IrqCapture ==
  /\ irq.at = "capture"
  /\ over' = (over /\ "OF" \notin irq.sr)
  /\ chan' = [chan EXCEPT !.errs = @ + (IF "OF" \in irq.sr THEN 1 ELSE 0)]
  /\ flag' = FALSE
  /\ irq' = [irq EXCEPT !.at = "level", !.cap = ccr]
  /\ UNCHANGED <<edge, ccr>>

(* ... and takes the level of the pin for the kind of the edge.              *)
Rising(c, cap) ==
  [c EXCEPT !.errs = @ + (IF c.have_rise /\ c.prev_level THEN 1 ELSE 0),
            !.period = IF c.have_rise THEN <<c.rise, cap>> ELSE @,
            !.count = @ + (IF c.have_rise THEN 1 ELSE 0),
            !.rise = cap, !.have_rise = TRUE, !.prev_level = TRUE]

Falling(c, cap) ==
  [c EXCEPT !.errs = @ + (IF c.prev_level THEN 0 ELSE 1),
            !.width = IF c.prev_level /\ c.have_rise THEN <<c.rise, cap>> ELSE @,
            !.prev_level = FALSE]

IrqLevel ==
  /\ irq.at = "level"
  /\ chan' = IF Level THEN Rising(chan, irq.cap) ELSE Falling(chan, irq.cap)
  /\ irq' = [at |-> "off", sr |-> {}, cap |-> 0]
  /\ UNCHANGED timer

Capture == Edge \/ IrqEnter \/ IrqCapture \/ IrqLevel

-----------------------------------------------------------------------------
(* pwmin_get, one load after the other: a snapshot s with the field it reads *)
(* next; the handler preempts it anywhere.                                   *)

NoSnapshot == [at |-> "off", count |-> 0, width |-> Never, period |-> Never]

GetCount(s, t) == s.at = "count" /\ t = [s EXCEPT !.count = chan.count, !.at = "width"]
GetWidth(s, t) == s.at = "width" /\ t = [s EXCEPT !.width = chan.width, !.at = "period"]
GetPeriod(s, t) == s.at = "period" /\ t = [s EXCEPT !.period = chan.period, !.at = "again"]

(* A fault, for the mutants: the count is not read again.                    *)
GetUnchecked(s, t) == s.at = "again" /\ t = [s EXCEPT !.at = "done"]

GetAgain(s, t) ==
  s.at = "again" /\ t = [s EXCEPT !.at = IF chan.count = s.count THEN "done" ELSE "count"]

Get(s, t) == GetCount(s, t) \/ GetWidth(s, t) \/ GetPeriod(s, t) \/ GetAgain(s, t)
=============================================================================
