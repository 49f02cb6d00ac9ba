------------------------------ MODULE Watchdog ------------------------------
(***************************************************************************)
(* The desync watchdog of the main loop (src/src/main.c): ten times a      *)
(* second it looks at how many writes the sensor devices refused, and a    *)
(* rate that persists resyncs the bus, not twice within the rest time, on  *)
(* a clock that wraps.  What a resync does is in SpiSlave and in           *)
(* RegisterPort; here it is an event.  One step is a round of the loop.    *)
(***************************************************************************)
EXTENDS Integers

CONSTANTS
  Wrap,      \* 2^32, the microsecond clock
  Period,    \* between two looks
  Rest,      \* least time between two resyncs
  Persist,   \* bad windows before a resync
  MaxRound   \* longest round of the loop

ASSUME WatchdogAssumption ==
  /\ {Wrap, Period, Rest, Persist, MaxRound} \subseteq Nat \ {0}
  /\ MaxRound <= Period /\ Period + MaxRound < Wrap \div 2
  /\ Rest + Period + MaxRound < Wrap

VARIABLES
  status,   \* now - t_status
  since,    \* now - t_resync, unsigned
  windows,  \* desync_windows, told apart up to Persist
  desync,   \* the flag of STATUS
  resync,   \* a resync in this round: how long after the last one; or None
  rested,   \* how long ago the bus was really resynced, up to Wrap
  sick,     \* windows since the last that was not bad, or since a resync
  noisy     \* windows since the last quiet one

vars == <<status, since, windows, desync, resync, rested, sick, noisy>>

None == -1

(* The writes refused in a window: none, up to 8, or more.                 *)
Rate == {"none", "few", "many"}

Least(a, b) == IF a < b THEN a ELSE b

(* A bad window comes this long after a resync or the start of the fault   *)
(* at the latest: the rest time can start anew once, when the clock wraps. *)
Limit == Persist + Rest \div Period + 1

------------------------------------------------------------------------------

(* now - t_status >= 100000, and the difference is small.                  *)
Look(dt) == status + dt >= Period

(* A fault, for the mutants: the difference is taken as signed.            *)
RestedSigned(d) == Rest < d /\ d < Wrap \div 2

(* now - t_resync > 1000000.                                               *)
Rested(d) == Rest < d

(* A fault, for the mutants: the resync keeps the time of the last one.    *)
FireOld(d, dt) ==
  /\ resync' = Least(rested + dt, Wrap) /\ since' = d
  /\ rested' = 0 /\ sick' = 0

(* The resync, and the time it is remembered under.                        *)
Fire(d, dt) ==
  /\ resync' = Least(rested + dt, Wrap) /\ since' = 0
  /\ rested' = 0 /\ sick' = 0

Hold(d, dt) ==
  /\ resync' = None /\ since' = d /\ rested' = Least(rested + dt, Wrap)

(* More than eight refused writes: a bad window.                           *)
Bad(d, dt) ==
  /\ desync' = TRUE
  /\ windows' = Least(windows + 1, Persist)
  /\ noisy' = Least(noisy + 1, Persist)
  /\ IF windows + 1 >= Persist /\ Rested(d)
     THEN Fire(d, dt)
     ELSE Hold(d, dt) /\ sick' = Least(sick + 1, Limit)

(* A few: neither the flag nor the count of windows moves.                 *)
Few(d, dt) ==
  /\ UNCHANGED <<desync, windows>>
  /\ noisy' = Least(noisy + 1, Persist)
  /\ Hold(d, dt) /\ sick' = 0

(* A fault, for the mutants: a quiet window clears the flag only.          *)
QuietKeepsCount(d, dt) ==
  /\ desync' = FALSE /\ UNCHANGED windows
  /\ noisy' = 0
  /\ Hold(d, dt) /\ sick' = 0

(* None: the bus is well.                                                  *)
Quiet(d, dt) ==
  /\ desync' = FALSE /\ windows' = 0
  /\ noisy' = 0
  /\ Hold(d, dt) /\ sick' = 0

Window(r, d, dt) ==
  \/ r = "many" /\ Bad(d, dt)
  \/ r = "few" /\ Few(d, dt)
  \/ r = "none" /\ Quiet(d, dt)

Round(dt) ==
  LET d == (since + dt) % Wrap
  IN  \/ /\ Look(dt)
         /\ status' = 0
         /\ \E r \in Rate : Window(r, d, dt)
      \/ /\ ~Look(dt)
         /\ status' = status + dt
         /\ Hold(d, dt)
         /\ UNCHANGED <<windows, desync, sick, noisy>>

(* t_resync starts at 0: the boot counts as a resync.                      *)
Init ==
  /\ status = 0 /\ since \in 0 .. MaxRound
  /\ windows = 0 /\ desync = FALSE /\ resync = None
  /\ rested = Wrap /\ sick = 0 /\ noisy = 0

Next == \E dt \in 1 .. MaxRound : Round(dt)

Spec == Init /\ [][Next]_vars

------------------------------------------------------------------------------

(* Every variable stays in its type.                                       *)
TypeOK ==
  /\ status \in 0 .. Period - 1 /\ since \in 0 .. Wrap - 1
  /\ windows \in 0 .. Persist /\ desync \in BOOLEAN /\ resync \in {None} \union 0 .. Wrap
  /\ rested \in 0 .. Wrap /\ sick \in 0 .. Limit /\ noisy \in 0 .. Persist

(* A fault that persists is cured within Limit windows, whenever it starts *)
(* and whenever the last one was, the wrap of the clock included           *)
(* (src/README.md: "`unexp` stops dead within ~1.5 s"; 16 windows of 0.1 s *)
(* with the numbers of the code).                                          *)
Cured == sick < Limit

(* Two resyncs are really more than the rest time apart, whatever the      *)
(* clock did: a bus that stays bad costs the DUT one resync a second.      *)
RestObserved == resync # None => resync > Rest

(* A resync discards what a live DUT configured: it takes Persist windows  *)
(* in a row none of which was quiet.                                       *)
PersistentOnly == resync # None => noisy = Persist

Sparing == RestObserved /\ PersistentOnly
=============================================================================
