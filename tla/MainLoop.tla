------------------------------ MODULE MainLoop ------------------------------
(***************************************************************************)
(* The two timetables of the main loop, the truth reports with the GPS     *)
(* feed and the sampler, the encoding of what the feed sends, and a        *)
(* capture channel with its two readers.  They share the processor and     *)
(* nothing else, so a behaviour follows one of them, as subject says, and  *)
(* the others rest.                                                        *)
(***************************************************************************)
EXTENDS TruthFeed, FiniteSets, Ages

CONSTANTS
  Base, Shot, Sensors, Single, Rates,  \* of Sampler: Dev <- Sensors
  Fastest,  \* the highest of the rates
  TickPeriod, TickCost, PhysCost, FdmCost, SampleCost, RestCost, MaxLag, MaxHeld

(* No sensor is faster than the ticks.                                     *)
ASSUME LoopAssumption ==
  /\ {Base, Shot, TickPeriod, MaxLag, MaxHeld} \subseteq Nat \ {0}
  /\ Rates \union {Shot} \subseteq 0 .. Fastest /\ Fastest \in 0 .. Base
  /\ IsFiniteSet(Sensors) /\ Single \subseteq Sensors
  /\ {TickCost, PhysCost, FdmCost, SampleCost, RestCost} \subseteq Nat

(* Times in parts of the unit of cost, of which a tick has Whole: the work *)
(* of a tick on average with every sensor at the highest rate, and what    *)
(* may have come together when the rest of a round ends, each divider and  *)
(* each accumulator a step before it is full.                              *)
Heaviest == IF FdmCost > 2 * PhysCost THEN FdmCost ELSE 2 * PhysCost
Whole == 10 * Base * TickPeriod
Load == 10 * Base * TickCost + Base * Heaviest + 10 * SampleCost * Fastest * Cardinality(Sensors)
Backlog ==
  10 * Base * (TickPeriod - 1 + RestCost) + 9 * Base * Heaviest
    + 10 * SampleCost * (Base - 1) * Cardinality(Sensors)

(* The processor is fast enough for the ticks, and what came together is   *)
(* worked off within the bounds.                                           *)
ASSUME LoadAssumption ==
  /\ Load < Whole
  /\ Backlog < Whole * MaxLag /\ Backlog - Whole < (Whole - Load) * (MaxHeld - 1)

VARIABLES
  subject,
  behind, part, todo, pc, mode, phys_div, fdm_div, acc, rate, pending, run, made, waited, held,
  wire_pc, msg, field, o, storage, src_ofs, buf, off, out, tid,
  edge, flag, over, ccr, chan, irq,
  now, flying, reading, snap, ch, rep, quiet, gap, switched

S == INSTANCE Sampler WITH Dev <- Sensors, Period <- TickPeriod, lag <- behind, age <- waited

W == INSTANCE DroneCan WITH pc <- wire_pc

P == INSTANCE Controls WITH fdm_mode <- flying, pc <- reading, s <- snap

samplerVars ==
  <<behind, part, todo, pc, mode, phys_div, fdm_div, acc, rate, pending, run, made, waited, held>>

wireVars == <<wire_pc, msg, field, o, storage, src_ofs, buf, off, out, tid>>
controlsVars ==
  <<edge, flag, over, ccr, chan, irq,
    now, flying, reading, snap, ch, rep, quiet, gap, switched>>
loopVars == <<subject, vars, samplerVars, wireVars, controlsVars>>

(* What rests does so in one of its initial states.                        *)
LoopInit ==
  /\ subject \in {"feed", "sampler", "wire", "controls"}
  /\ Init /\ S!Init /\ W!Init /\ P!Init
  /\ subject # "feed" => \A l \in Lags : lag <= l
  /\ subject # "controls" => edge = 0

FeedOnly == subject = "feed" /\ UNCHANGED <<subject, samplerVars, wireVars, controlsVars>>
SamplerOnly == subject = "sampler" /\ UNCHANGED <<subject, vars, wireVars, controlsVars>>
WireOnly == subject = "wire" /\ UNCHANGED <<subject, vars, samplerVars, controlsVars>>
ControlsOnly == subject = "controls" /\ UNCHANGED <<subject, vars, samplerVars, wireVars>>

LoopNext ==
  \/ Next /\ FeedOnly
  \/ S!Next /\ SamplerOnly
  \/ W!Next /\ WireOnly
  \/ P!Next /\ ControlsOnly

LoopSpec == LoopInit /\ [][LoopNext]_loopVars

(* Every sensor is sampled at its rate (RateKept), a commit is tried for a *)
(* single shot within the period of its rate, again after a refused one    *)
(* (ShotInTime), and the sampler catches up (CatchesUp).                   *)
RatesKept == S!RateKept /\ S!ShotInTime
CatchesUp == S!CatchesUp

(* What DroneCan says of the messages a receiver takes from the frames.    *)
Understood == W!Understood

(* What Controls says of a capture channel: a snapshot is whole, a silent  *)
(* channel goes to trim, and only a silent one goes into failsafe.         *)
SnapshotWhole == P!SnapshotWhole
SilentFallsBack == P!SilentFallsBack
FailsafeOnlySilent == P!FailsafeOnlySilent
=============================================================================
