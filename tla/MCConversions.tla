--------------------------- MODULE MCConversions ---------------------------
(***************************************************************************)
(* A DUT that reads STATUS together with the data, the data alone and the  *)
(* interrupt status; the mag's results and its STATUS.                     *)
(***************************************************************************)
EXTENDS Conversions

ReadsOfBaro == {[addr |-> 3, n |-> 7], [addr |-> 17, n |-> 1]}
ReadsOfMag == {[addr |-> 36, n |-> 9]}
Powers == {[mode |-> m, en |-> Quantity] : m \in Mode}
            \union {[mode |-> "forced", en |-> {"press"}]}
=============================================================================
