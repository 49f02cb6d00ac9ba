----------------------------- MODULE MCCommands -----------------------------
(***************************************************************************)
(* The two messages that interact, looked at in the order of cmd_decode;   *)
(* commands of two bytes, two attempts at a copy.                          *)
(***************************************************************************)
EXTENDS Commands, TLC

Boxes == {"init", "pos"}
DecodeOrder == <<"init", "pos">>
BothTransports == {"can", "usb"}
OnlyUsb == {"usb"}
=============================================================================
