----------------------------- MODULE MCSpiSlave -----------------------------
(***************************************************************************)
(* Two devices of two registers.  Device 1 owes a dummy byte and clears    *)
(* register 0 when register 1 is read; device 2 owes none, has a drain     *)
(* port at register 1 that may be entered one register early.              *)
(***************************************************************************)
EXTENDS SpiSlaveProperties, TLC

Devices == 2
Registers == 2
DummyBytes == <<1, 0>>
Masks == <<{1}, {0}>>
StreamSizes == <<0, 2>>
NoStreams == <<0, 0>>
StreamAddrs == <<0, 1>>
StreamPrefixes == <<0, 1>>
Clears == <<{[lo |-> 1, hi |-> 1, clears |-> 0]}, {}>>
Bytes == {0, 2, 3}
FreeBytes == {0, 3}
AllPromises == Promises
AnyMaster == {}
(* A whole sample for device 1's registers, one for device 2's stream. *)
NoCommit == <<{}, {}>>
OneCommit == <<{(0 :> 1 @@ 1 :> 3)}, {}>>
Commits == <<{(0 :> 1 @@ 1 :> 3)}, {(2 :> 2 @@ 3 :> 3)}>>
=============================================================================
