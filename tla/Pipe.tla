-------------------------------- MODULE Pipe --------------------------------
(***************************************************************************)
(* What the feeder's transmit path promises for its frames: it takes at    *)
(* most Room frames, refuses one only when it holds QLen or more of them,  *)
(* and passes on what it took in order, each at most once.  What is in the *)
(* pipe may be lost on the bus, one frame at a time, oldest first.         *)
(***************************************************************************)
EXTENDS Naturals, Sequences

CONSTANTS Frame, QLen, Room

VARIABLES pending, \* frames taken and not yet on the bus, oldest first
          refused, \* how many were refused
          bus      \* the frame last seen on the bus, if any, and how many there were

Init == /\ pending = << >>
        /\ refused = 0
        /\ bus = [frame |-> << >>, count |-> 0]

Take == \E f \in Frame : /\ Len(pending) < Room
                         /\ pending' = Append(pending, f)
                         /\ UNCHANGED <<refused, bus>>

Refuse == /\ Len(pending) >= QLen
          /\ refused' = refused + 1
          /\ UNCHANGED <<pending, bus>>

Pass == /\ pending # << >>
        /\ pending' = Tail(pending)
        /\ bus' = [frame |-> <<Head(pending)>>, count |-> bus.count + 1]
        /\ UNCHANGED refused

Lose == /\ pending # << >>
        /\ pending' = Tail(pending)
        /\ UNCHANGED <<refused, bus>>

Spec == Init /\ [][Take \/ Refuse \/ Pass \/ Lose]_<<pending, refused, bus>>
=============================================================================
