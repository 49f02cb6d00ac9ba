----------------------------- MODULE TruthFeed -----------------------------
(***************************************************************************)
(* The truth reports and the GPS feed of the main loop (src/src/main.c):   *)
(* the timers of TRUTH_* and Fix2 on a clock that wraps, the ring of truth *)
(* snapshots, and the lagged snapshot a Fix2 is made of, while the host    *)
(* switches flight model, feeder and lag.  All of it runs at thread level; *)
(* one step is one round of the loop.  RawAirData and NodeStatus have a    *)
(* timer like these, and neither reads the ring for its timing.            *)
(***************************************************************************)
EXTENDS Integers

CONSTANTS
  Wrap,         \* 2^32, the microsecond clock
  Slots,        \* slots of gps_ring
  TruthPeriod,  \* between truth reports, each with a snapshot
  FixPeriod,    \* between Fix2
  Lags,         \* what gps_lag_10ms may be set to, in clock units
  MaxRound,     \* longest round of the loop
  Horizon,      \* bound: elapsed times are told apart up to here
  MaxCommands   \* bound: commands of the host

ASSUME FeedAssumption ==
  /\ {Wrap, Slots, TruthPeriod, FixPeriod, MaxRound} \subseteq Nat \ {0}
  /\ Lags \subseteq Nat /\ {Horizon, MaxCommands} \subseteq Nat
  /\ TruthPeriod + MaxRound < Wrap /\ FixPeriod + MaxRound < Wrap
  /\ \A l \in Lags : /\ l + TruthPeriod + MaxRound < Wrap
                     /\ l + TruthPeriod + FixPeriod + 2 * MaxRound <= Horizon

Slot == 0 .. Slots - 1
None == -1

(* A clock reading is kept as its unsigned difference from now, which is   *)
(* all the code uses it for.                                               *)
VARIABLES
  since,     \* since[r]: now - t_truth, now - t_gpsfeed
  fdm_mode, gps_enable, lag,  \* what the host configured
  ring,      \* ring[s]: now - gps_ring[s].us, None in an empty slot
  gps_head,  \* the slot written next
  fix,       \* the age of the snapshot sent in this round, None if not sent
  age,       \* age[s]: how old the snapshot in s really is
  calm,      \* time since the last command
  wait,      \* wait[r]: time report r has been enabled and not sent
  ncommands  \* commands so far (bound)

switch == <<fdm_mode, gps_enable, lag>>
vars == <<since, switch, ring, gps_head, fix, age, calm, wait, ncommands>>

Report == {"truth", "fix"}

Least(a, b) == IF a < b THEN a ELSE b
Later(t, dt) == Least(t + dt, Horizon)

------------------------------------------------------------------------------

(* A fault, for the mutants: the difference is taken as signed.            *)
PastSigned(d, period) == d >= period /\ d < Wrap \div 2

(* Timers are compared with unsigned differences.                          *)
Past(d, period) == d >= period

(* The snapshots old enough, by their distance from the newest.            *)
Lagged(dt) ==
  {i \in Slot : LET s == (gps_head - 1 - i) % Slots
                IN  ring[s] # None /\ (ring[s] + dt) % Wrap >= lag'}

(* A fault, for the mutants: the ring is searched from its oldest slot.    *)
SnapOldest(dt) ==
  IF Lagged(dt) = {} THEN None
  ELSE (gps_head - 1 - (CHOOSE i \in Lagged(dt) : \A j \in Lagged(dt) : j <= i)) % Slots

(* A fault, for the mutants: the search gives up at the newest snapshot.   *)
SnapNewest(dt) == IF 0 \in Lagged(dt) THEN (gps_head - 1) % Slots ELSE None

(* gps_snap: the newest snapshot at least the lag old.                     *)
Snap(dt) ==
  IF Lagged(dt) = {} THEN None
  ELSE (gps_head - 1 - (CHOOSE i \in Lagged(dt) : \A j \in Lagged(dt) : i <= j)) % Slots

(* What the host sets is in force for the whole round.                     *)
Command(dt) ==
  \/ /\ UNCHANGED <<switch, ncommands>>
     /\ calm' = Later(calm, dt)
  \/ /\ ncommands < MaxCommands /\ ncommands' = ncommands + 1
     /\ \/ fdm_mode' \in BOOLEAN /\ UNCHANGED <<gps_enable, lag>>
        \/ gps_enable' \in BOOLEAN /\ lag' \in Lags /\ UNCHANGED fdm_mode
     /\ calm' = 0

(* The reports due in this round, with the flight model only.              *)
Due(r, dt) ==
  LET d == (since[r] + dt) % Wrap
  IN  CASE r = "fix"   -> gps_enable' /\ fdm_mode' /\ Past(d, FixPeriod)
        [] r = "truth" -> fdm_mode' /\ Past(d, TruthPeriod)

(* gps_feed: nothing is sent without a snapshot.                           *)
FeedFix(dt) ==
  fix' = IF Due("fix", dt) /\ Snap(dt) # None THEN Later(age[Snap(dt)], dt) ELSE None

(* The snapshot that goes with TRUTH_*.                                    *)
Publish(dt) ==
  LET older == [s \in Slot |-> Later(age[s], dt)]
      past  == [s \in Slot |-> IF ring[s] = None THEN None ELSE (ring[s] + dt) % Wrap]
  IN  IF Due("truth", dt)
      THEN /\ ring' = [past EXCEPT ![gps_head] = 0]
           /\ age' = [older EXCEPT ![gps_head] = 0]
           /\ gps_head' = (gps_head + 1) % Slots
      ELSE ring' = past /\ age' = older /\ UNCHANGED gps_head

Enabled(r) ==
  CASE r = "fix" -> gps_enable' /\ fdm_mode' [] r = "truth" -> fdm_mode'
Sent(r, dt) == IF r = "fix" THEN fix' # None ELSE Due(r, dt)

Round(dt) ==
  /\ Command(dt)
  /\ FeedFix(dt) /\ Publish(dt)
  /\ since' = [r \in Report |-> IF Due(r, dt) THEN 0 ELSE (since[r] + dt) % Wrap]
  /\ wait' = [r \in Report |-> IF Enabled(r) /\ ~Sent(r, dt) THEN Later(wait[r], dt) ELSE 0]

(* The timers start with the loop, the feeder enabled, the model off.      *)
Init ==
  /\ since = [r \in Report |-> 0]
  /\ fdm_mode = FALSE /\ gps_enable = TRUE /\ lag \in Lags
  /\ ring = [s \in Slot |-> None] /\ gps_head = 0
  /\ fix = None
  /\ age = [s \in Slot |-> 0] /\ calm = 0
  /\ wait = [r \in Report |-> 0] /\ ncommands = 0

Next == \E dt \in 1 .. MaxRound : Round(dt)

Spec == Init /\ [][Next]_vars

------------------------------------------------------------------------------

(* Every variable stays in its type.                                       *)
TypeOK ==
  /\ since \in [Report -> 0 .. Wrap - 1]
  /\ fdm_mode \in BOOLEAN /\ gps_enable \in BOOLEAN /\ lag \in Lags
  /\ ring \in [Slot -> {None} \union 0 .. Wrap - 1] /\ gps_head \in Slot
  /\ fix \in {None} \union 0 .. Horizon
  /\ age \in [Slot -> 0 .. Horizon] /\ calm \in 0 .. Horizon
  /\ wait \in [Report -> 0 .. Horizon] /\ ncommands \in 0 .. MaxCommands

(* A report that is enabled is sent within its period and a round, also    *)
(* one first enabled after any time of uptime (main.c: "a timer first      *)
(* armed after ~35.8 min of uptime ... never fired").                      *)
OnTime == wait.truth < TruthPeriod + MaxRound

(* The feed never knows the present: a Fix2 is at least the lag old        *)
(* (main.c: "Fix2 stays 5 Hz behind the configurable lag").                *)
FixNotEarly == fix # None => fix >= lag

(* Nothing having been switched for the lag and a snapshot, a Fix2 is no   *)
(* older than the lag and the time between two snapshots.                  *)
FixNotStale ==
  fix # None /\ calm >= lag + TruthPeriod + MaxRound => fix <= lag + TruthPeriod + MaxRound

(* With a lag the ring reaches back to, Fix2 keeps its period.             *)
FixKeepsPeriod ==
  /\ lag <= (Slots - 1) * TruthPeriod
  /\ calm >= lag + TruthPeriod + FixPeriod + 2 * MaxRound
  => wait.fix < FixPeriod + MaxRound

FixLagged == FixNotEarly /\ FixNotStale /\ FixKeepsPeriod
=============================================================================
