------------------------------ MODULE Controls ------------------------------
(***************************************************************************)
(* The two readers of a capture channel in the main loop: controls_step,   *)
(* which flies the model from it and ages it into a failsafe (controls.c), *)
(* and the report of the widths to the host (main.c), each with its own    *)
(* staleness tracker.  One round of the main loop is one tick of the       *)
(* clock, which wraps; rounds that see the same time repeat themselves.    *)
(***************************************************************************)
EXTENDS PwmIn

VARIABLES
  now, fdm_mode, \* the clock as the round read it; whether the model flies
  pc, s,         \* where the round is; the snapshot it takes
  ch,            \* struct Chan of controls.c
  rep,           \* the report: last count, when it advanced, the width w
  quiet, gap,    \* history: rounds without a capture, for either reader
  switched       \* bound: switches so far

readers == <<now, fdm_mode, pc, s, ch, rep, quiet, gap, switched>>
vars == <<timer, chan, irq, readers>>

Zero == <<0, 0>>

Init ==
  /\ PwmInit
  /\ now = 0 /\ fdm_mode = FALSE
  /\ pc = "top" /\ s = NoSnapshot
  /\ ch = [count |-> 0, change |-> 0, seen |-> FALSE, fs |-> 0, target |-> <<"hold", Never>>]
  /\ rep = [count |-> 0, change |-> 0, w |-> Zero]
  /\ quiet = 0 /\ gap = 0 /\ switched = 0

Age(since) == (now + Turn - since) % Turn
Start == [NoSnapshot EXCEPT !.at = "count"]

Tick(t) == (t + 1) % Turn
UpTo(n, bound) == IF n < bound THEN n + 1 ELSE n

(* A round reads the clock; a command may have switched the model.           *)
Top ==
  /\ pc = "top"
  /\ now' = Tick(now)
  /\ \E mode \in BOOLEAN :
       /\ mode # fdm_mode => switched < Switches
       /\ switched' = IF mode # fdm_mode THEN switched + 1 ELSE switched
       /\ fdm_mode' = mode
  /\ pc' = IF fdm_mode' THEN "step" ELSE "gather"
  /\ s' = Start
  /\ quiet' = IF fdm_mode' THEN quiet ELSE 0
  /\ UNCHANGED <<ch, rep, gap>>

Read ==
  /\ pc \in {"step", "gather"}
  /\ Get(s, s')
  /\ UNCHANGED <<now, fdm_mode, pc, ch, rep, quiet, gap, switched>>

(* A fault, for the mutants: the time of the capture is not kept.            *)
FreshUndated(c) ==
  [c EXCEPT !.count = s.count, !.seen = TRUE, !.fs = 0, !.target = <<"pulse", s.width>>]

(* controls_step for the channel: a fresh capture is held, a silent channel  *)
(* keeps its target for a while and then falls back to trim.                 *)
Fresh(c) ==
  [c EXCEPT !.count = s.count, !.change = now, !.seen = TRUE, !.fs = 0,
            !.target = <<"pulse", s.width>>]

(* A fault, for the mutants: the shorter age is tested first.                *)
AgedHoldFirst(c) ==
  IF Age(c.change) > Hold THEN [c EXCEPT !.fs = 1]
  ELSE IF Age(c.change) > Trim THEN [c EXCEPT !.fs = 2, !.target = <<"trim", Never>>]
  ELSE c

Aged(c) ==
  IF Age(c.change) > Trim THEN [c EXCEPT !.fs = 2, !.target = <<"trim", Never>>]
  ELSE IF Age(c.change) > Hold THEN [c EXCEPT !.fs = 1]
  ELSE c

Step ==
  /\ pc = "step" /\ s.at = "done"
  /\ ch' = IF s.count # ch.count THEN Fresh(ch)
           ELSE IF ~ch.seen THEN [ch EXCEPT !.fs = 0, !.target = <<"hold", Never>>]
           ELSE Aged(ch)
  /\ quiet' = IF s.count # ch.count THEN 0 ELSE UpTo(quiet, Trim + 2)
  /\ pc' = "gather" /\ s' = Start
  /\ UNCHANGED <<now, fdm_mode, rep, gap, switched>>

(* The report gathers the width; one that is too old reads 0.                *)
Gather ==
  /\ pc = "gather" /\ s.at = "done"
  /\ LET change == IF s.count # rep.count THEN now ELSE rep.change
     IN  rep' = [count |-> s.count, change |-> change,
                 w |-> IF Age(change) > Hold THEN Zero ELSE s.width]
  /\ gap' = IF s.count # rep.count THEN 0 ELSE UpTo(gap, Hold + 1)
  /\ pc' = "top" /\ s' = NoSnapshot
  /\ UNCHANGED <<now, fdm_mode, ch, quiet, switched>>

Thread == /\ irq.at = "off"
          /\ Top \/ Read \/ Step \/ Gather
          /\ UNCHANGED <<timer, chan, irq>>

Next == (Capture /\ UNCHANGED readers) \/ Thread

Spec == Init /\ [][Next]_vars

-----------------------------------------------------------------------------
(* Properties *)

Edges == 0 .. MaxEdges + 1
Pairs == Edges \X Edges

(* Types; a width never is longer than one pulse's worth of edges is known.  *)
TypeOK ==
  /\ edge \in Edges /\ ccr \in Edges /\ flag \in BOOLEAN /\ over \in BOOLEAN
  /\ chan \in [have_rise : BOOLEAN, prev_level : BOOLEAN, rise : Edges,
               width : Pairs, period : Pairs, count : Edges, errs : 0 .. 2 * MaxEdges]
  /\ irq \in [at : {"off", "capture", "level"}, sr : SUBSET {"IF", "OF"}, cap : Edges]
  /\ now \in 0 .. Turn - 1 /\ fdm_mode \in BOOLEAN
  /\ pc \in {"top", "step", "gather"}
  /\ s \in [at : {"off", "count", "width", "period", "again", "done"},
            count : Edges, width : Pairs, period : Pairs]
  /\ ch \in [count : Edges, change : 0 .. Turn - 1, seen : BOOLEAN, fs : 0 .. 2,
             target : {"hold", "pulse", "trim"} \X Pairs]
  /\ rep \in [count : Edges, change : 0 .. Turn - 1, w : Pairs]
  /\ quiet \in 0 .. Trim + 2 /\ gap \in 0 .. Hold + 1 /\ switched \in 0 .. Switches

(* A snapshot is whole: its period lies between two successive rising edges  *)
(* and its width is that of the pulse at either end of it, unless the errors *)
(* count says that edges were missed (pwm.h:85, pwm.c:55).                   *)
SnapshotWhole ==
  s.at = "done" /\ s.count > 0 /\ chan.errs = 0 =>
    /\ s.period[1] % 2 = 1 /\ s.period[2] = s.period[1] + 2
    /\ s.width[1] \in {s.period[1], s.period[2]} /\ s.width[2] = s.width[1] + 1

(* A channel that stays silent while the model is stepped goes to trim and   *)
(* stays there, however often the clock wraps (controls.h:14); when it does, *)
(* the reported state shows 1, holding, for a while instead of 2.            *)
SilentFallsBack ==
  quiet > Trim + 1 /\ ch.seen => ch.fs # 0 /\ ch.target[1] = "trim"

(* And only a silent one: a channel is put into failsafe only when for as    *)
(* long as Hold no capture was reported to either reader.                    *)
FailsafeOnlySilent == [][ch.fs = 0 /\ ch'.fs # 0 => gap >= Hold]_vars
=============================================================================
