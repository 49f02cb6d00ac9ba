-------------------------------- MODULE Ages --------------------------------
(***************************************************************************)
(* The bounds and the ages of a capture channel and its readers, which     *)
(* PwmIn, Controls and the composition of the main loop share.             *)
(***************************************************************************)
EXTENDS Naturals

CONSTANTS MaxEdges, \* bound on the edges the source makes
          Hold,     \* ticks after which a channel holds (100 ms)
          Trim,     \* ticks after which it goes to trim (600 ms)
          Turn,     \* ticks after which the clock wraps (2^32 us)
          Switches  \* bound: how often the host switches the flight model on or off

ASSUME EdgeAssumption == MaxEdges \in Nat \ {0}

ASSUME AgeAssumption ==
  /\ Hold \in Nat \ {0} /\ Trim \in Nat /\ Turn \in Nat /\ Switches \in Nat
  /\ Hold < Trim /\ Trim + 1 < Turn
=============================================================================
