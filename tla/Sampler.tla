------------------------------ MODULE Sampler ------------------------------
(***************************************************************************)
(* The table scheduler of the main loop: it consumes the ticks of a 10 kHz *)
(* timer, catching up with those that passed meanwhile, steps one of the   *)
(* two flight models and samples each sensor at the rate the DUT set       *)
(* (src/src/main.c, src/src/sensors.c).  The bus changes rates and asks    *)
(* for single shots at any moment.  Time passes as the work costs it.      *)
(***************************************************************************)
EXTENDS Integers

CONSTANTS
  Base,    \* ticks in a second, a multiple of Shot
  Shot,    \* the rate that serves a single shot
  Dev,     \* sensors
  Single,  \* those that take single shots
  Rates,   \* rates, 0 among them
  Period,  \* of a tick, in units of cost
  TickCost, PhysCost, FdmCost, SampleCost, RestCost,  \* of the work
  MaxLag,  \* bound: ticks the loop is seen to fall behind
  MaxHeld  \* bound: ticks it is seen to catch up with at a time

VARIABLES
  lag,             \* tim7_ticks - done
  part,            \* time since the last tick
  todo,            \* sensors left to consider in this tick; the main loop is
  pc,              \* in the catch-up ("ticks") or in the rest of its round
  mode,            \* fdm_mode
  phys_div, fdm_div,
  acc,             \* acc_g, acc_a, acc_b, acc_m
  rate,            \* what the registers say
  pending,         \* sensors asked for a single shot
  \* history: ticks and samples in a row at one rate, over a whole number of
  \* seconds' parts; ticks since the request, or its last refused commit, and
  \* since the last round
  run, made, age, held

timeVars == <<lag, part>>
divVars == <<mode, phys_div, fdm_div>>
rowVars == <<run, made>>
vars == <<timeVars, todo, pc, divVars, acc, rate, pending, rowVars, age, held>>

(* The work takes c.                                                       *)
Takes(c, ticks) ==
  LET behind == ticks + (part + c) \div Period
  IN  /\ lag' = IF behind < MaxLag THEN behind ELSE MaxLag
      /\ part' = (part + c) % Period

(* A fault, for the mutants: a single shot does not raise the rate.        *)
HzConfigured(d) == rate[d]

(* gyro_rate_hz, accel_rate_hz, baro_rate_hz, mag_rate_hz.                 *)
Hz(d) == IF d \in pending THEN Shot ELSE rate[d]

------------------------------------------------------------------------------
(* The bus, at any moment.                                                 *)

(* The DUT sets a rate, or suspends the sensor.                            *)
SetRate(d, r) ==
  /\ rate[d] # r /\ rate' = [rate EXCEPT ![d] = r]
  /\ run' = [run EXCEPT ![d] = 0] /\ made' = [made EXCEPT ![d] = 0]
  /\ UNCHANGED <<timeVars, todo, pc, divVars, acc, pending, age, held>>

(* It asks for a single shot.                                              *)
Ask(d) ==
  /\ rate[d] = 0 /\ d \notin pending /\ pending' = pending \union {d}
  /\ age' = [age EXCEPT ![d] = 0]
  /\ UNCHANGED <<timeVars, todo, pc, divVars, acc, rate, rowVars, held>>

------------------------------------------------------------------------------
(* The main loop.                                                          *)

(* A fault, for the mutants: a divider is not reset.                       *)
StepStuck ==
  /\ phys_div' = (phys_div + 1) % 5
  /\ fdm_div' = IF fdm_div + 1 >= 10 THEN fdm_div ELSE fdm_div + 1
  /\ LET model == CASE mode = 0 /\ phys_div + 1 >= 5 -> PhysCost
                    [] mode = 1 /\ fdm_div + 1 >= 10 -> FdmCost
                    [] OTHER -> 0
     IN  Takes(TickCost + model, lag - 1)

(* The point mass at 2 kHz or the six degrees of freedom at 1 kHz; both    *)
(* dividers run in either mode.                                            *)
Step ==
  /\ phys_div' = (phys_div + 1) % 5 /\ fdm_div' = (fdm_div + 1) % 10
  /\ LET model == CASE mode = 0 /\ phys_div + 1 >= 5 -> PhysCost
                    [] mode = 1 /\ fdm_div + 1 >= 10 -> FdmCost
                    [] OTHER -> 0
     IN  Takes(TickCost + model, lag - 1)

(* A tick is consumed ...                                                  *)
Tick ==
  /\ pc = "ticks" /\ todo = {} /\ lag > 0
  /\ Step
  /\ todo' = Dev /\ held' = IF held < MaxHeld THEN held + 1 ELSE held
  /\ age' = [d \in Single |-> IF d \in pending THEN age[d] + 1 ELSE 0]
  /\ UNCHANGED <<pc, mode, acc, rate, pending, rowVars>>

(* A fault, for the mutants: the remainder is dropped with each sample.    *)
AccumulateFresh(d) == [due |-> acc[d] + Hz(d) >= Base,
                       acc |-> IF acc[d] + Hz(d) >= Base THEN 0 ELSE acc[d] + Hz(d)]

(* Bresenham: a sample is due when the accumulator is full; the remainder  *)
(* is kept.                                                                *)
Accumulate(d) == [due |-> acc[d] + Hz(d) >= Base, acc |-> (acc[d] + Hz(d)) % Base]

(* Whole seconds' parts in which the samples of a rate come out even.      *)
Even(d) == run[d] * Hz(d) % Base = 0

(* baro_commit and mag_commit: a sample is refused while the bus reads the *)
(* device, and the sampler drops it; the single shot it was taken for then *)
(* stays pending until it is due again.                                    *)
Commit(d) ==
  \E refused \in BOOLEAN :
    /\ pending' = IF refused THEN pending ELSE pending \ {d}
    /\ age' = [s \in Single |-> IF refused /\ s = d THEN 0 ELSE age[s]]

(* ... and each sensor considered: sampled and committed, or not yet due.  *)
Consider(d) ==
  /\ pc = "ticks" /\ d \in todo /\ todo' = todo \ {d}
  /\ LET a == Accumulate(d)
         n == IF a.due THEN 1 ELSE 0
     IN  IF Hz(d) = 0
         THEN UNCHANGED <<timeVars, acc, pending, rowVars, age>>
         ELSE /\ acc' = [acc EXCEPT ![d] = a.acc]
              /\ IF a.due THEN Takes(SampleCost, lag) /\ Commit(d)
                          ELSE UNCHANGED <<timeVars, pending, age>>
              /\ IF d \in pending
                 THEN run' = [run EXCEPT ![d] = 0] /\ made' = [made EXCEPT ![d] = 0]
                 ELSE /\ run' = [run EXCEPT ![d] = IF Even(d) THEN 1 ELSE @ + 1]
                      /\ made' = [made EXCEPT ![d] = IF Even(d) THEN n ELSE @ + n]
  /\ UNCHANGED <<pc, divVars, rate, held>>

(* Caught up.                                                              *)
Leave ==
  /\ pc = "ticks" /\ todo = {} /\ lag = 0 /\ pc' = "rest" /\ held' = 0
  /\ UNCHANGED <<timeVars, todo, divVars, acc, rate, pending, rowVars, age>>

(* The rest of the round: reports, and commands that may change the mode.  *)
Rest ==
  /\ pc = "rest" /\ pc' = "ticks"
  /\ mode' \in 0 .. 1
  /\ Takes(RestCost, lag)
  /\ UNCHANGED <<todo, phys_div, fdm_div, acc, rate, pending, rowVars, age, held>>

------------------------------------------------------------------------------

(* After the timer started.                                                *)
Init ==
  /\ lag = 0 /\ part = 0 /\ todo = {} /\ pc = "rest"
  /\ mode = 0 /\ phys_div = 0 /\ fdm_div = 0
  /\ acc = [d \in Dev |-> 0] /\ rate = [d \in Dev |-> 0] /\ pending = {}
  /\ run = [d \in Dev |-> 0] /\ made = [d \in Dev |-> 0] /\ age = [d \in Single |-> 0] /\ held = 0

Main == Tick \/ (\E d \in Dev : Consider(d)) \/ Leave \/ Rest

Bus == (\E d \in Dev, r \in Rates : SetRate(d, r)) \/ (\E d \in Single : Ask(d))

Next == Main \/ Bus

Spec == Init /\ [][Next]_vars

------------------------------------------------------------------------------

(* At a rate left alone the samples taken never stray from it by a whole   *)
(* one, however long, whatever rates and single shots came before, and     *)
(* whatever commits were refused                                           *)
(* (main.c: "Bresenham accumulator per device for any configured ODR").    *)
RateKept ==
  \A d \in Dev : d \notin pending =>
    LET off == made[d] * Base - run[d] * rate[d] IN - Base < off /\ off < Base

(* The sampler never falls MaxLag ticks behind, and the rest of the main   *)
(* loop never waits for more than MaxHeld ticks, through the longest step  *)
(* of either model and every change of mode: the catch-up ends.            *)
CatchesUp == lag < MaxLag /\ held < MaxHeld

(* A commit is tried for a single shot within the period of its rate after *)
(* the request, and within every such period after a refused one: only a   *)
(* commit that was not refused ends the waiting.                           *)
ShotInTime == \A d \in Single : d \in pending /\ todo = {} => age[d] * Shot < Base
=============================================================================
