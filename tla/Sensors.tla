------------------------------ MODULE Sensors -------------------------------
(***************************************************************************)
(* The emulated chips of src/src/sensors.c: the BMI088, whose FIFOs and    *)
(* resets module ImuFifo describes, and the BMP388 and RM3100 with their   *)
(* conversions.  A hook of one chip touches nothing of another and the     *)
(* thread serves one chip at a time, so a behaviour follows the BMI088 or  *)
(* the other two, as chips says, and the rest stays as it was initialised. *)
(***************************************************************************)
EXTENDS ImuFifo

CONSTANTS
  BaroReads, MagReads, PwrValues, ConvFrames  \* of Conversions

ASSUME SensorsAssumption ==
  /\ ConvFrames \in Nat
  /\ BaroReads \subseteq [addr : 0 .. 127, n : 1 .. 128]
  /\ MagReads \subseteq [addr : 0 .. 127, n : 1 .. 128]
  /\ PwrValues \subseteq [mode : {"sleep", "forced", "normal"}, en : SUBSET {"press", "temp"}]

VARIABLES
  chips,
  baro, mag, conv_bus, pc, tmp, unread, asked, nconv, owed, conv_frames

C == INSTANCE Conversions WITH
  MaxFrames <- ConvFrames, bus <- conv_bus, nframes <- conv_frames

convVars == <<baro, mag, conv_bus, pc, tmp, unread, asked, nconv, owed, conv_frames>>
sensorVars == <<chips, vars, convVars>>

SensorInit == chips \in {"imu", "baro_mag"} /\ Init /\ C!Init

SensorNext ==
  \/ chips = "imu" /\ Next /\ UNCHANGED <<chips, convVars>>
  \/ chips = "baro_mag" /\ C!Next /\ UNCHANGED <<chips, vars>>

SensorSpec == SensorInit /\ [][SensorNext]_sensorVars

(* What Conversions says of forced modes and of samples not yet read.      *)
ForcedOnce == C!ForcedOnce
UnreadAnnounced == C!UnreadAnnounced
=============================================================================
