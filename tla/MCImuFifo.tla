----------------------------- MODULE MCImuFifo -----------------------------
(***************************************************************************)
(* FIFOs of two frames, with the frame sizes and the prefix of the code.   *)
(***************************************************************************)
EXTENDS ImuFifo, TLC

CONSTANTS accel, gyro

Capacities == accel :> 2 @@ gyro :> 2
FrameSizes == accel :> 7 @@ gyro :> 6
Prefixes == accel :> 2 @@ gyro :> 0
DrainBytes == {0, 6, 7, 12, 14}
AllPromises == Promises
=============================================================================
