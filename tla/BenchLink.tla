----------------------------- MODULE BenchLink -----------------------------
(***************************************************************************)
(* The bench's way to the autopilot's parameters: a MAVLink session that   *)
(* sets and reads them with timeouts and retries                           *)
(* (src/tools/bench/session.go), over TCP through a bridge whose two       *)
(* goroutines share a serial device that comes and goes (serbridge.go), to *)
(* the autopilot, which answers in order.  Of the parameters one is kept.  *)
(***************************************************************************)
EXTENDS Naturals, Sequences

CONSTANTS
  Value,   \* of the parameter, from 1
  Tries,   \* of a call
  Calls,   \* bound: calls of the session
  Mishaps  \* bound: times the device goes or is reopened

VARIABLES
  \* the session: what is next, the call, its attempts, a call to be repeated
  pc, call, try, again, calls,
  known,     \* history: what the program was told of the parameter last
  link,      \* the connection stands
  toBridge,  \* requests on their way to the bridge
  \* client -> serial: what is next, requests read, the handle still good
  hpc, hand, handle,
  ser,       \* the bridge's device: "open", "stale", or "none" while it is reopened
  toClient,  \* answers on their way to the session
  there,     \* the device is plugged in
  input, output, param,  \* of the autopilot
  mishaps

sessionVars == <<pc, call, try, again, calls, known>>
bridgeVars == <<hpc, hand, handle, ser>>
dutVars == <<there, input, output, param>>
vars == <<sessionVars, link, toBridge, bridgeVars, toClient, dutVars, mishaps>>

Nothing == 0
Set(v) == [op |-> "set", val |-> v]
Get == [op |-> "get", val |-> Nothing]

------------------------------------------------------------------------------
(* The session.                                                            *)

(* A program's next call; one that failed is repeated once, or the program *)
(* ends.                                                                   *)
Begin(c) ==
  /\ pc = "idle" /\ calls < Calls
  /\ again # Nothing => c = Set(again)
  /\ pc' = "send" /\ call' = c /\ try' = 1 /\ calls' = calls + 1
  /\ UNCHANGED <<again, known, link, toBridge, bridgeVars, toClient, dutVars, mishaps>>

(* send; an error is not looked at.                                        *)
Send ==
  /\ pc = "send" /\ pc' = "wait"
  /\ toBridge' = IF link THEN Append(toBridge, call) ELSE toBridge
  /\ known' = IF call.op = "set" THEN Nothing ELSE known
  /\ UNCHANGED <<call, try, again, calls, link, bridgeVars, toClient, dutVars, mishaps>>

(* The call succeeds.                                                      *)
Return(v) ==
  pc' = "idle" /\ known' = v /\ again' = Nothing /\ UNCHANGED try

(* The next attempt, or none is left.                                      *)
NextTry ==
  /\ UNCHANGED known
  /\ IF try < Tries
     THEN pc' = "send" /\ try' = try + 1 /\ UNCHANGED again
     ELSE /\ UNCHANGED try
          /\ IF call.op = "set" /\ again = Nothing
             THEN pc' = "idle" /\ again' = call.val
             ELSE pc' = "over" /\ UNCHANGED again

(* A fault, for the mutants: any answer will do.                           *)
AnsweredAny(v) == TRUE

(* GetParam takes any value, SetParam the one it set.                      *)
Answers(v) == call.op = "set" => v = call.val

(* waitParam finds a value of the parameter.                               *)
Hear ==
  /\ pc = "wait" /\ toClient # <<>> /\ toClient' = Tail(toClient)
  /\ IF Answers(Head(toClient)) THEN Return(Head(toClient)) ELSE NextTry
  /\ UNCHANGED <<call, calls, link, toBridge, bridgeVars, dutVars, mishaps>>

(* waitParam gives up: its time is over, or the connection is.             *)
TimeOut ==
  /\ pc = "wait" /\ NextTry
  /\ UNCHANGED <<call, calls, link, toBridge, bridgeVars, toClient, dutVars, mishaps>>

------------------------------------------------------------------------------
(* The bridge.  The mutex is held while the device is reopened.            *)

ClientRead ==
  /\ hpc = "read" /\ toBridge # <<>> /\ hpc' = "lock"
  /\ \E n \in 1 .. Len(toBridge) :
       /\ hand' = SubSeq(toBridge, 1, n)
       /\ toBridge' = SubSeq(toBridge, n + 1, Len(toBridge))
  /\ UNCHANGED <<sessionVars, link, handle, ser, toClient, dutVars, mishaps>>

ClientLock ==
  /\ hpc = "lock" /\ ser # "none" /\ hpc' = "write"
  /\ handle' = (ser = "open")
  /\ UNCHANGED <<sessionVars, link, toBridge, hand, ser, toClient, dutVars, mishaps>>

(* Without the mutex; an error is not looked at.                           *)
ClientWrite ==
  /\ hpc = "write" /\ hpc' = "read" /\ hand' = <<>>
  /\ input' = IF handle THEN input \o hand ELSE input
  /\ UNCHANGED <<sessionVars, link, toBridge, handle, ser, toClient, there, output, param, mishaps>>

SerialRead ==
  /\ link /\ ser = "open" /\ output # <<>> /\ output' = <<>>
  /\ toClient' = toClient \o output
  /\ UNCHANGED <<sessionVars, link, toBridge, bridgeVars, there, input, param, mishaps>>

(* An error, or nothing but ends of file for two seconds, which a device   *)
(* with nothing to say gives as well: closed, and to be opened again.      *)
SerialLost ==
  /\ link
  /\ \/ ser = "stale" /\ UNCHANGED mishaps
     \/ ser = "open" /\ output = <<>> /\ mishaps < Mishaps /\ mishaps' = mishaps + 1
  /\ ser' = "none" /\ handle' = FALSE
  /\ UNCHANGED <<sessionVars, link, toBridge, hpc, hand, toClient, dutVars>>

(* What the autopilot sent meanwhile may be gone.                          *)
Reopen ==
  /\ link /\ ser = "none" /\ there /\ ser' = "open"
  /\ output' \in {<<>>, output}
  /\ UNCHANGED <<sessionVars, link, toBridge, hpc, hand, handle, toClient, there, input, param>>
  /\ UNCHANGED mishaps

(* Thirty attempts later the client is let go.                             *)
GiveUp ==
  /\ link /\ ser = "none" /\ link' = FALSE
  /\ UNCHANGED <<sessionVars, toBridge, bridgeVars, toClient, dutVars, mishaps>>

------------------------------------------------------------------------------
(* The autopilot and its cable.                                            *)

Serve ==
  /\ there /\ input # <<>> /\ input' = Tail(input)
  /\ param' = IF Head(input).op = "set" THEN Head(input).val ELSE param
  /\ output' = Append(output, param')
  /\ UNCHANGED <<sessionVars, link, toBridge, bridgeVars, toClient, there, mishaps>>

Unplug ==
  /\ there /\ mishaps < Mishaps /\ mishaps' = mishaps + 1
  /\ there' = FALSE /\ input' = <<>> /\ output' = <<>>
  /\ ser' = (IF ser = "open" THEN "stale" ELSE ser) /\ handle' = FALSE
  /\ UNCHANGED <<sessionVars, link, toBridge, hpc, hand, toClient, param>>

Plug ==
  /\ ~there /\ there' = TRUE
  /\ UNCHANGED <<sessionVars, link, toBridge, bridgeVars, toClient, input, output, param, mishaps>>

------------------------------------------------------------------------------

(* Connected, and nothing of an earlier client left on the way.            *)
Init ==
  /\ pc = "idle" /\ call = Get /\ try = 1 /\ again = Nothing /\ calls = 0
  /\ known = Nothing /\ link = TRUE /\ toBridge = <<>>
  /\ hpc = "read" /\ hand = <<>> /\ handle = FALSE /\ ser = "open" /\ toClient = <<>>
  /\ there = TRUE /\ input = <<>> /\ output = <<>> /\ param \in Value
  /\ mishaps = 0

Session == (\E c \in {Get} \cup {Set(v) : v \in Value} : Begin(c)) \/ Send \/ Hear \/ TimeOut
Bridge == ClientRead \/ ClientLock \/ ClientWrite \/ SerialRead \/ SerialLost \/ Reopen \/ GiveUp
Dut == Serve \/ Unplug \/ Plug

Next == Session \/ Bridge \/ Dut

Spec == Init /\ [][Next]_vars

------------------------------------------------------------------------------

(* What a call that succeeded said of the parameter is true, and stays so  *)
(* until the program sets it again, whatever answers came late and         *)
(* whatever requests were lost or sent twice (session.go: "SetParam sets   *)
(* and verifies").                                                         *)
Verified == known # Nothing => known = param
=============================================================================
