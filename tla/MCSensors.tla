----------------------------- MODULE MCSensors ------------------------------
(***************************************************************************)
(* FIFOs of two frames, with the frame sizes and the prefix of the code;   *)
(* a DUT that reads the barometer's STATUS together with the data, and     *)
(* the interrupt status; the mag's results and its STATUS.                 *)
(***************************************************************************)
EXTENDS Sensors, TLC

CONSTANTS accel, gyro

Capacities == accel :> 2 @@ gyro :> 2
FrameSizes == accel :> 7 @@ gyro :> 6
Prefixes == accel :> 2 @@ gyro :> 0
DrainBytes == {0, 6, 7, 12, 14}
AllPromises == Promises

ReadsOfBaro == {[addr |-> 3, n |-> 7], [addr |-> 17, n |-> 1]}
ReadsOfMag == {[addr |-> 36, n |-> 9]}
Powers == [mode : {"sleep", "forced", "normal"}, en : {{"press", "temp"}}]
            \union {[mode |-> "forced", en |-> {"press"}]}
=============================================================================
