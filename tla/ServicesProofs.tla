--------------------------- MODULE ServicesProofs ---------------------------
(***************************************************************************)
(* Theorems about the services, each for every value of its constants: the *)
(* desync watchdog, the fault recorder, the queue of SPI transactions,     *)
(* both ways of the console port, the reports' way to the host, the bench  *)
(* session and its decoder.                                                *)
(***************************************************************************)
EXTENDS Services, SequenceTheorems, WellFoundedInduction, TLAPS

(* The desync watchdog.                                                    *)

(* The clock does not wrap between a resync put off and the next window;   *)
(* the windows a fault has lasted past the count that would have cured it  *)
(* fit into the rest time.                                                 *)
Inv ==
  /\ TypeOK /\ RestObserved /\ PersistentOnly
  /\ since <= rested
  /\ windows <= noisy
  /\ sick <= windows \/ windows = Persist
  /\ sick >= Persist =>
       /\ status <= since /\ since - status <= Rest
       /\ (sick - Persist) * Period <= since - status

(* The constants are positive and a window is far shorter than the clock.  *)
LEMMA Constants ==
  /\ Wrap \in Nat /\ Wrap > 0 /\ Period \in Nat /\ Period > 0
  /\ Rest \in Nat /\ Persist \in Nat /\ Persist > 0
  /\ MaxRound \in Nat /\ MaxRound > 0 /\ MaxRound <= Period
  /\ Rest + Period + MaxRound < Wrap
BY WatchdogAssumption

(* n periods fit into the rest time: no more than the quotient.            *)
LEMMA Quotient ==
  ASSUME NEW n \in Nat, NEW p \in Nat, NEW r \in Nat, p > 0, n * p <= r
  PROVE  n <= r \div p
<1> DEFINE q == r \div p
<1>1. q \in Nat /\ r < (q + 1) * p
  BY SMT
<1>2. CASE n >= q + 1
  <2>1. n * p >= (q + 1) * p
    BY <1>1, <1>2, SMT
  <2> QED BY <2>1, <1>1, SMT
<1> QED BY <1>1, <1>2, SMT

(* One more period.                                                        *)
LEMMA OneMore ==
  ASSUME NEW n \in Int, NEW p \in Int
  PROVE  (n + 1) * p = n * p + p
BY SMT

(* The bound on windows is a positive number.                              *)
LEMMA LimitNat == Limit \in Nat /\ Limit > Persist
<1>1. Rest \div Period \in Nat
  BY Constants, SMT
<1> QED BY <1>1, Constants DEF Limit

(* A clock reading after one round.                                        *)
LEMMA Clock ==
  ASSUME NEW a \in 0 .. Wrap - 1, NEW dt \in 1 .. MaxRound
  PROVE  /\ (a + dt) % Wrap \in 0 .. Wrap - 1
         /\ (a + dt) % Wrap <= a + dt
         /\ a + dt < Wrap => (a + dt) % Wrap = a + dt
BY Constants, SMT

(* The invariant bounds the windows of a fault.                            *)
LEMMA InvCured == Inv => Cured
<1> SUFFICES ASSUME Inv PROVE Cured
  OBVIOUS
<1>1. sick \in Nat /\ since - status \in Int
  BY Constants, LimitNat DEF Inv, TypeOK
<1>2. CASE sick < Persist
  BY <1>1, <1>2, LimitNat, Constants DEF Cured
<1>3. CASE sick >= Persist
  <2>1. sick - Persist \in Nat
    BY <1>1, <1>3, Constants
  <2>2. (sick - Persist) * Period \in Int
    BY <2>1, Constants
  <2>3. (sick - Persist) * Period <= Rest
    BY <1>1, <1>3, <2>2, Constants DEF Inv
  <2>4. sick - Persist <= Rest \div Period
    BY <2>1, <2>3, Quotient, Constants
  <2>5. Rest \div Period \in Nat
    BY Constants, SMT
  <2> QED BY <2>4, <2>5, <1>1, Constants DEF Cured, Limit
<1> QED BY <1>1, <1>2, <1>3, Constants

(* It holds at the start.                                                  *)
LEMMA InitInv == Init => Inv
<1> SUFFICES ASSUME Init PROVE Inv
  OBVIOUS
<1>1. /\ status = 0 /\ since \in 0 .. MaxRound /\ windows = 0 /\ desync = FALSE
      /\ resync = None /\ rested = Wrap /\ sick = 0 /\ noisy = 0
  BY DEF Init
<1>2. since \in 0 .. Wrap - 1
  BY <1>1, Constants
<1>3. TypeOK
  <2>1. status \in 0 .. Period - 1 /\ windows \in 0 .. Persist /\ noisy \in 0 .. Persist
    BY <1>1, Constants
  <2>2. rested \in 0 .. Wrap /\ sick \in 0 .. Limit
    BY <1>1, Constants, LimitNat
  <2>3. desync \in BOOLEAN /\ resync \in {None} \union 0 .. Wrap
    BY <1>1
  <2> QED BY <1>2, <2>1, <2>2, <2>3 DEF TypeOK
<1>4. RestObserved /\ PersistentOnly
  BY <1>1 DEF RestObserved, PersistentOnly
<1>5. since <= rested /\ windows <= noisy /\ sick <= windows /\ ~(sick >= Persist)
  BY <1>1, <1>2, Constants
<1> QED BY <1>3, <1>4, <1>5 DEF Inv

(* A round that only lets time pass.                                       *)
LEMMA Passing ==
  ASSUME Inv, NEW dt \in 1 .. MaxRound, NEW d, d = (since + dt) % Wrap, Hold(d, dt)
  PROVE  /\ resync' = None /\ since' \in 0 .. Wrap - 1
         /\ rested' \in 0 .. Wrap /\ since' <= rested'
         /\ since' = d /\ d \in 0 .. Wrap - 1
         /\ since + dt < Wrap => d = since + dt
<1>1. since \in 0 .. Wrap - 1 /\ rested \in 0 .. Wrap /\ since <= rested
  BY DEF Inv, TypeOK
<1>2. d \in 0 .. Wrap - 1 /\ d <= since + dt /\ (since + dt < Wrap => d = since + dt)
  BY <1>1, Clock
<1>3. rested' = Least(rested + dt, Wrap) /\ since' = d /\ resync' = None
  BY DEF Hold
<1> QED BY <1>1, <1>2, <1>3, Constants DEF Least

(* It is kept by a round in which the watchdog does not look.              *)
LEMMA Between ==
  ASSUME Inv, NEW dt \in 1 .. MaxRound, NEW d, d = (since + dt) % Wrap,
         ~Look(dt), status' = status + dt, Hold(d, dt),
         UNCHANGED <<windows, desync, sick, noisy>>
  PROVE  Inv'
<1>1. status \in 0 .. Period - 1 /\ status' \in 0 .. Period - 1 /\ status' = status + dt
  BY Constants DEF Inv, TypeOK, Look
<1>2. /\ resync' = None /\ since' \in 0 .. Wrap - 1
      /\ rested' \in 0 .. Wrap /\ since' <= rested' /\ since' = d
      /\ since + dt < Wrap => d = since + dt
  BY Passing
<1>3. windows' = windows /\ desync' = desync /\ sick' = sick /\ noisy' = noisy
  OBVIOUS
<1>4. TypeOK'
  BY <1>1, <1>2, <1>3 DEF Inv, TypeOK
<1>5. (RestObserved /\ PersistentOnly)'
  BY <1>2 DEF RestObserved, PersistentOnly, None
<1>6. windows' <= noisy' /\ (sick' <= windows' \/ windows' = Persist)
  BY <1>3 DEF Inv
<1>7. ASSUME sick' >= Persist
      PROVE  /\ status' <= since' /\ since' - status' <= Rest
             /\ (sick' - Persist) * Period <= since' - status'
  <2>1. sick >= Persist /\ status <= since /\ since - status <= Rest
    BY <1>3, <1>7 DEF Inv
  <2>2. since \in 0 .. Wrap - 1
    BY DEF Inv, TypeOK
  <2>3. since + dt < Wrap
    BY <1>1, <2>1, <2>2, Constants
  <2>4. since' = since + dt /\ since' - status' = since - status
    BY <1>1, <1>2, <2>2, <2>3
  <2> QED BY <1>1, <1>3, <2>1, <2>2, <2>4 DEF Inv
<1> QED BY <1>2, <1>4, <1>5, <1>6, <1>7 DEF Inv

(* It is kept by a window without a bad rate.                              *)
LEMMA Good ==
  ASSUME Inv, NEW dt \in 1 .. MaxRound, NEW d, d = (since + dt) % Wrap,
         status' = 0, Few(d, dt) \/ Quiet(d, dt)
  PROVE  Inv'
<1>1. Hold(d, dt) /\ sick' = 0
  BY DEF Few, Quiet
<1>2. /\ resync' = None /\ since' \in 0 .. Wrap - 1
      /\ rested' \in 0 .. Wrap /\ since' <= rested'
  BY <1>1, Passing
<1>3. /\ windows' \in 0 .. Persist /\ noisy' \in 0 .. Persist
      /\ windows' <= noisy' /\ desync' \in BOOLEAN
  <2>1. /\ windows \in 0 .. Persist /\ noisy \in 0 .. Persist
        /\ windows <= noisy /\ desync \in BOOLEAN
    BY DEF Inv, TypeOK
  <2>2. CASE Few(d, dt)
    <3>1. windows' = windows /\ desync' = desync /\ noisy' = Least(noisy + 1, Persist)
      BY <2>2 DEF Few
    <3>2. noisy' \in 0 .. Persist /\ windows' <= noisy'
      BY <3>1, <2>1, Constants DEF Least
    <3> QED BY <3>1, <3>2, <2>1
  <2>3. CASE Quiet(d, dt)
    <3>1. desync' = FALSE /\ windows' = 0 /\ noisy' = 0
      BY <2>3 DEF Quiet
    <3>2. windows' \in 0 .. Persist /\ noisy' \in 0 .. Persist /\ windows' <= noisy'
      BY <3>1, Constants
    <3> QED BY <3>1, <3>2
  <2> QED BY <2>2, <2>3
<1>4. TypeOK'
  BY <1>1, <1>2, <1>3, Constants, LimitNat DEF TypeOK
<1>5. (RestObserved /\ PersistentOnly)'
  BY <1>2 DEF RestObserved, PersistentOnly, None
<1>6. sick' <= windows' /\ ~(sick' >= Persist)
  BY <1>1, <1>3, Constants
<1> QED BY <1>2, <1>3, <1>4, <1>5, <1>6 DEF Inv

(* It is kept by a bad window, cured or put off.                           *)
LEMMA BadWindow ==
  ASSUME Inv, NEW dt \in 1 .. MaxRound, NEW d, d = (since + dt) % Wrap,
         Look(dt), status' = 0, Bad(d, dt)
  PROVE  Inv'
<1>1. /\ since \in 0 .. Wrap - 1 /\ rested \in 0 .. Wrap /\ since <= rested
      /\ windows \in 0 .. Persist /\ noisy \in 0 .. Persist /\ windows <= noisy
      /\ sick \in Nat /\ status \in 0 .. Period - 1
      /\ sick <= windows \/ windows = Persist
  BY LimitNat, Constants DEF Inv, TypeOK
<1>2. d \in 0 .. Wrap - 1 /\ d <= since + dt /\ (since + dt < Wrap => d = since + dt)
  BY <1>1, Clock
<1>3. /\ windows' \in 0 .. Persist /\ noisy' \in 0 .. Persist
      /\ windows' <= noisy' /\ desync' \in BOOLEAN
      /\ windows' = (IF windows + 1 <= Persist THEN windows + 1 ELSE Persist)
      /\ windows + 1 >= Persist => noisy' = Persist
  BY <1>1, Constants DEF Bad, Least
<1>4. CASE windows + 1 >= Persist /\ Rested(d)
  <2>1. /\ resync' = Least(rested + dt, Wrap) /\ since' = 0 /\ rested' = 0 /\ sick' = 0
    BY <1>4 DEF Bad, Fire
  <2>2. rested + dt > Rest /\ Wrap > Rest
    BY <1>1, <1>2, <1>4, Constants DEF Rested
  <2>3. resync' \in 0 .. Wrap /\ resync' > Rest
    BY <2>1, <2>2, <1>1, Constants DEF Least
  <2>4. TypeOK'
    BY <2>1, <2>3, <1>3, Constants, LimitNat DEF TypeOK
  <2>5. (RestObserved /\ PersistentOnly)'
    BY <2>3, <1>3, <1>4 DEF RestObserved, PersistentOnly
  <2> QED BY <2>1, <2>4, <2>5, <1>3, Constants DEF Inv
<1>5. CASE ~(windows + 1 >= Persist /\ Rested(d))
  <2>1. Hold(d, dt) /\ sick' = Least(sick + 1, Limit)
    BY <1>5 DEF Bad
  <2>2. /\ resync' = None /\ since' = d
        /\ rested' \in 0 .. Wrap /\ since' <= rested'
    BY <2>1, Passing
  <2>3. sick' = sick + 1 /\ sick' \in 0 .. Limit
    BY <2>1, <1>1, InvCured, LimitNat DEF Cured, Least
  <2>4. TypeOK'
    BY <2>2, <2>3, <1>2, <1>3, Constants DEF TypeOK
  <2>5. (RestObserved /\ PersistentOnly)'
    BY <2>2 DEF RestObserved, PersistentOnly, None
  <2>6. sick' <= windows' \/ windows' = Persist
    <3>1. CASE windows + 1 <= Persist
      BY <3>1, <2>3, <1>1, <1>3, Constants
    <3>2. CASE ~(windows + 1 <= Persist)
      BY <3>2, <1>3
    <3> QED BY <3>1, <3>2
  <2>7. ASSUME sick' >= Persist
        PROVE  /\ status' <= since' /\ since' - status' <= Rest
               /\ (sick' - Persist) * Period <= since' - status'
    <3>1. d <= Rest
      BY <2>3, <2>7, <1>1, <1>2, <1>5, Constants DEF Rested
    <3>2. status' <= since' /\ since' - status' <= Rest /\ since' - status' = d
      BY <3>1, <2>2, <1>2, Constants
    <3>3. CASE sick' = Persist
      <4>1. (sick' - Persist) * Period = 0
        BY <3>3, Constants
      <4> QED BY <4>1, <3>2, <1>2
    <3>4. CASE sick' # Persist
      <4> DEFINE n == sick - Persist
      <4>1. sick >= Persist /\ n \in Int /\ sick' - Persist = n + 1
        BY <3>4, <2>3, <2>7, <1>1, Constants
      <4>2. status <= since /\ since - status <= Rest /\ n * Period <= since - status
        BY <4>1 DEF Inv
      <4>3. since + dt < Wrap
        BY <4>2, <1>1, Constants
      <4>4. d = since + dt /\ status + dt >= Period
        BY <4>3, <1>2 DEF Look
      <4>5. (n + 1) * Period = n * Period + Period /\ n * Period \in Int
        BY <4>1, OneMore, Constants
      <4>6. n * Period + Period <= d
        BY <4>2, <4>4, <4>5, <1>1, Constants
      <4> QED BY <4>1, <4>5, <4>6, <3>2
    <3> QED BY <3>2, <3>3, <3>4
  <2> QED BY <2>2, <2>4, <2>5, <2>6, <2>7, <1>3 DEF Inv
<1> QED BY <1>4, <1>5

(* It is kept by every step.                                               *)
LEMMA NextInv == Inv /\ [Next]_vars => Inv'
<1> SUFFICES ASSUME Inv, [Next]_vars PROVE Inv'
  OBVIOUS
<1>1. CASE Next
  <2>1. PICK dt \in 1 .. MaxRound : Round(dt)
    BY <1>1 DEF Next
  <2> DEFINE d == (since + dt) % Wrap
  <2>2. CASE Look(dt) /\ status' = 0 /\ \E r \in Rate : Window(r, d, dt)
    <3>1. Bad(d, dt) \/ Few(d, dt) \/ Quiet(d, dt)
      BY <2>2 DEF Window
    <3> QED BY <3>1, <2>2, Good, BadWindow
  <2>3. CASE /\ ~Look(dt) /\ status' = status + dt /\ Hold(d, dt)
             /\ UNCHANGED <<windows, desync, sick, noisy>>
    BY <2>3, Between
  <2> QED BY <2>1, <2>2, <2>3 DEF Round
<1>2. CASE UNCHANGED vars
  BY <1>2 DEF vars, Inv, TypeOK, RestObserved, PersistentOnly
<1> QED BY <1>1, <1>2

------------------------------------------------------------------------------

(* For every period, rest and wrap of the clock: the types, and a fault    *)
(* that persists is cured within Limit windows.                            *)
THEOREM WatchdogCures == Spec => [](TypeOK /\ Cured)
<1>1. Inv => TypeOK /\ Cured
  BY InvCured DEF Inv
<1> QED BY <1>1, InitInv, NextInv, PTL DEF Spec

(* For every period, rest and wrap of the clock: two resyncs are really    *)
(* more than the rest time apart, and none comes of a transient.           *)
THEOREM WatchdogSparing == Spec => []Sparing
<1>1. Inv => Sparing
  BY DEF Inv, Sparing
<1> QED BY <1>1, InitInv, NextInv, PTL DEF Spec

------------------------------------------------------------------------------
(* The fault recorder.                                                     *)

Kinds == {"fault", "assert", "stray"}

FaultTypes ==
  /\ at \in {"boot", "report", "printed", "run", "capture", "halted", "lockup", "off"}
  /\ step \in 1 .. 4 /\ kind \in Kinds
  /\ crashes \in Nat /\ captured \in 0 .. crashes /\ consumed \subseteq 1 .. crashes
  /\ rec \in [magic : BOOLEAN, kind : Kinds, context : 0 .. crashes, lr : Nat,
              cause : [Kinds -> Nat], trace : Nat]

(* How much of the record is of the crash being captured.                  *)
Written ==
  /\ step > 1 => IF kind = "assert" THEN rec.kind = kind /\ rec.cause[kind] = crashes
                                    ELSE rec.context = crashes
  /\ step > 2 => rec.kind = kind /\ rec.cause[kind] = crashes /\ rec.context = crashes
  /\ step > 3 => rec.trace = crashes

(* A valid record is of a crash not reported; a crash captured to its end  *)
(* is on record until it has been.                                         *)
OnRecord ==
  /\ rec.magic => rec.context # 0 /\ rec.context \notin consumed
  /\ at = "run" => ~rec.magic
  /\ at \in {"report", "printed"} => rec.magic
  /\ at = "printed" => shown = F!Printed
  /\ at = "capture" => captured < crashes /\ crashes \notin consumed /\ Written
  /\ captured = crashes /\ captured # 0 =>
       /\ rec.context = crashes /\ rec.cause[rec.kind] = crashes /\ rec.trace = crashes
       /\ rec.magic \/ crashes \in consumed

FaultInv == FaultTypes /\ OnRecord

(* RAM at power up holds no record.                                        *)
LEMMA FaultInit == F!Init => FaultInv
BY DEF F!Init, F!Cold, F!Kind, FaultInv, FaultTypes, OnRecord, Kinds

(* The boot, up to the end of its report.                                  *)
LEMMA BootKeeps ==
  ASSUME FaultInv, F!Boot \/ F!Report \/ F!Consume
  PROVE  FaultInv'
<1> USE DEF FaultInv
<1>1. CASE F!Boot
  BY <1>1 DEF F!Boot, FaultTypes, OnRecord, Written, F!Printed
<1>2. CASE F!Report
  BY <1>2 DEF F!Report, FaultTypes, OnRecord, Written, F!Printed
<1>3. CASE F!Consume
  <2>1. /\ at = "printed" /\ at' = "run" /\ rec' = [rec EXCEPT !.magic = FALSE]
        /\ consumed' = consumed \union {rec.context}
        /\ UNCHANGED <<step, kind, crashes, captured>>
    BY <1>3 DEF F!Consume, OnRecord, F!Printed
  <2>2. rec.context \in 1 .. crashes
    BY <2>1 DEF OnRecord, FaultTypes
  <2>3. /\ rec'.magic = FALSE /\ rec'.kind = rec.kind /\ rec'.context = rec.context
        /\ rec'.cause = rec.cause /\ rec'.trace = rec.trace
    BY <2>1 DEF FaultTypes
  <2>4. FaultTypes'
    BY <2>1, <2>2 DEF FaultTypes
  <2> QED BY <2>1, <2>3, <2>4 DEF OnRecord
<1> QED BY <1>1, <1>2, <1>3

(* A crash begins a capture and leaves an older record where it is.        *)
LEMMA CrashKeeps ==
  ASSUME FaultInv, (\E k \in F!Kind : F!Crash(k)) \/ F!Refault
  PROVE  FaultInv'
<1>1. /\ at' = "capture" /\ step' = 1 /\ kind' \in Kinds /\ crashes' = crashes + 1
      /\ UNCHANGED <<rec, consumed, captured>>
  BY DEF F!Crash, F!Refault, F!Kind, Kinds
<1>2. crashes \in Nat /\ crashes' \in Nat /\ 0 .. crashes \subseteq 0 .. crashes'
      /\ captured < crashes' /\ crashes' \notin consumed
  BY <1>1 DEF FaultInv, FaultTypes
<1>3. FaultTypes'
  BY <1>1, <1>2 DEF FaultInv, FaultTypes
<1>4. OnRecord'
  BY <1>1, <1>2 DEF FaultInv, FaultTypes, OnRecord, Written
<1> QED BY <1>3, <1>4 DEF FaultInv

(* The capture writes its record part by part, and then makes it valid.    *)
LEMMA CaptureKeeps ==
  ASSUME FaultInv, F!Capture \/ F!Finish
  PROVE  FaultInv'
<1>0. /\ at = "capture" /\ captured < crashes /\ crashes \notin consumed /\ Written
      /\ FaultTypes /\ OnRecord
  BY DEF F!Capture, F!Finish, OnRecord, FaultInv
<1>a. /\ crashes \in Nat /\ captured \in 0 .. crashes /\ step \in 1 .. 4 /\ kind \in Kinds
      /\ crashes \in 0 .. crashes /\ crashes # 0
  <2>1. crashes \in Nat /\ captured \in 0 .. crashes /\ step \in 1 .. 4 /\ kind \in Kinds
    BY <1>0 DEF FaultTypes
  <2> QED BY <2>1, <1>0
<1>1. CASE F!Finish
  <2>1. /\ step = 4 /\ at' \in {"boot", "halted"} /\ rec' = [rec EXCEPT !.magic = TRUE]
        /\ captured' = crashes /\ UNCHANGED <<step, kind, crashes, consumed>>
    BY <1>1 DEF F!Finish
  <2>2. /\ rec'.magic = TRUE /\ rec'.kind = rec.kind /\ rec'.context = rec.context
        /\ rec'.cause = rec.cause /\ rec'.trace = rec.trace
    BY <1>0, <2>1 DEF FaultTypes
  <2>3. rec' \in [magic : BOOLEAN, kind : Kinds, context : 0 .. crashes, lr : Nat,
                  cause : [Kinds -> Nat], trace : Nat]
    BY <1>0, <2>1 DEF FaultTypes
  <2>4. FaultTypes'
    BY <1>0, <1>a, <2>1, <2>3 DEF FaultTypes
  <2> QED BY <1>0, <1>a, <2>1, <2>2, <2>4 DEF FaultInv, OnRecord, Written
<1>2. CASE F!Capture
  <2>0. /\ step <= 3 /\ step' = step + 1
        /\ UNCHANGED <<at, kind, crashes, shown, consumed, captured>>
    BY <1>2 DEF F!Capture
  <2>c. CASE step = (IF kind = "assert" THEN 2 ELSE 1) /\ F!CaptureContext
    <3>1. /\ rec'.context = crashes /\ rec'.kind = rec.kind /\ rec'.cause = rec.cause
          /\ rec'.trace = rec.trace /\ rec'.magic = rec.magic
      BY <2>c, <1>0 DEF F!CaptureContext, FaultTypes
    <3>2. rec' \in [magic : BOOLEAN, kind : Kinds, context : 0 .. crashes, lr : Nat,
                    cause : [Kinds -> Nat], trace : Nat]
      BY <1>0, <1>a, <2>c DEF F!CaptureContext, FaultTypes
    <3>3. FaultTypes'
      BY <1>0, <1>a, <2>0, <3>2 DEF FaultTypes
    <3> QED BY <1>0, <1>a, <2>0, <2>c, <3>1, <3>3 DEF FaultInv, OnRecord, Written
  <2>d. CASE step = (IF kind = "assert" THEN 1 ELSE 2) /\ F!CaptureCause
    <3>1. /\ rec'.context = rec.context /\ rec'.kind = kind /\ rec'.cause[kind] = crashes
          /\ rec'.trace = rec.trace /\ rec'.magic = rec.magic
      BY <1>0, <1>a, <2>d DEF F!CaptureCause, FaultTypes
    <3>c. [rec.cause EXCEPT ![kind] = crashes] \in [Kinds -> Nat]
      BY <1>0, <1>a DEF FaultTypes
    <3>2. rec' \in [magic : BOOLEAN, kind : Kinds, context : 0 .. crashes, lr : Nat,
                    cause : [Kinds -> Nat], trace : Nat]
      BY <1>0, <1>a, <2>d, <3>c DEF F!CaptureCause, FaultTypes
    <3>3. FaultTypes'
      BY <1>0, <1>a, <2>0, <3>2 DEF FaultTypes
    <3> QED BY <1>0, <1>a, <2>0, <2>d, <3>1, <3>3 DEF FaultInv, OnRecord, Written
  <2>e. CASE step = 3 /\ F!CaptureTrace
    <3>1. /\ rec'.context = rec.context /\ rec'.kind = rec.kind /\ rec'.cause = rec.cause
          /\ rec'.trace = crashes /\ rec'.magic = rec.magic
      BY <1>0, <2>e DEF F!CaptureTrace, FaultTypes
    <3>2. rec' \in [magic : BOOLEAN, kind : Kinds, context : 0 .. crashes, lr : Nat,
                    cause : [Kinds -> Nat], trace : Nat]
      BY <1>0, <1>a, <2>e DEF F!CaptureTrace, FaultTypes
    <3>3. FaultTypes'
      BY <1>0, <1>a, <2>0, <3>2 DEF FaultTypes
    <3> QED BY <1>0, <1>a, <2>0, <2>e, <3>1, <3>3 DEF FaultInv, OnRecord, Written
  <2>1. step = 1 \/ step = 2 \/ step = 3
    BY <1>a, <2>0
  <2>2. CASE step = 1
    <3>1. IF kind = "assert" THEN F!CaptureCause ELSE F!CaptureContext
      BY <1>2, <2>2 DEF F!Capture
    <3> QED BY <3>1, <2>2, <2>c, <2>d
  <2>3. CASE step = 2
    <3>1. IF kind = "assert" THEN F!CaptureContext ELSE F!CaptureCause
      BY <1>2, <2>3 DEF F!Capture
    <3> QED BY <3>1, <2>3, <2>c, <2>d
  <2>4. CASE step = 3
    <3>1. F!CaptureTrace
      BY <1>2, <2>4 DEF F!Capture
    <3> QED BY <3>1, <2>4, <2>e
  <2> QED BY <2>1, <2>2, <2>3, <2>4
<1> QED BY <1>1, <1>2

(* A reset keeps the record, a loss of power does not.                     *)
LEMMA ResetKeeps ==
  ASSUME FaultInv, F!Resume \/ F!Lockup \/ F!Press \/ F!PowerOff \/ F!PowerOn
  PROVE  FaultInv'
<1> USE DEF FaultInv
<1>1. CASE F!Resume \/ F!Lockup \/ F!Press \/ F!PowerOff
  <2>1. /\ at' \in {"boot", "lockup", "off"}
        /\ UNCHANGED <<step, kind, rec, crashes, shown, consumed, captured>>
    BY <1>1 DEF F!Resume, F!Lockup, F!Press, F!PowerOff
  <2> QED BY <2>1 DEF FaultTypes, OnRecord
<1>2. CASE F!PowerOn
  BY <1>2 DEF F!PowerOn, F!Cold, F!Kind, FaultTypes, OnRecord, Kinds
<1> QED BY <1>1, <1>2

(* For any number of crashes, resets and losses of power: a report that is *)
(* printed to its END is of one crash, the last, and comes once; and the   *)
(* program does not run on past a captured crash that was not reported.    *)
THEOREM CrashesReported == F!Spec => []PostMortem
<1>1. FaultInv /\ [F!Next]_(F!vars) => FaultInv'
  <2> SUFFICES ASSUME FaultInv, [F!Next]_(F!vars) PROVE FaultInv'
    OBVIOUS
  <2>1. CASE UNCHANGED F!vars
    BY <2>1 DEF F!vars, FaultInv, FaultTypes, OnRecord, Written, F!Printed
  <2> QED BY <2>1, BootKeeps, CrashKeeps, CaptureKeeps, ResetKeeps DEF F!Next
<1>2. FaultInv => PostMortem
  <2> SUFFICES ASSUME FaultInv PROVE F!ReportsTrue /\ F!CapturedReported
    BY DEF PostMortem
  <2>1. F!ReportsTrue
    <3> SUFFICES ASSUME at = "printed"
                 PROVE  /\ shown.context \notin consumed
                        /\ captured = crashes => /\ shown.context = crashes
                                                 /\ shown.cause = crashes
                                                 /\ shown.trace = crashes
      BY DEF F!ReportsTrue
    <3>1. rec.magic /\ shown = F!Printed
      BY DEF FaultInv, OnRecord
    <3>2. /\ shown.context = rec.context /\ shown.cause = rec.cause[rec.kind]
          /\ shown.trace = rec.trace
      BY <3>1 DEF F!Printed
    <3>3. rec.context \in 0 .. crashes /\ crashes \in Nat
      BY DEF FaultInv, FaultTypes
    <3> QED BY <3>1, <3>2, <3>3 DEF FaultInv, OnRecord
  <2>2. F!CapturedReported
    BY DEF F!CapturedReported, FaultInv, OnRecord
  <2> QED BY <2>1, <2>2
<1> QED BY <1>1, <1>2, FaultInit, PTL DEF F!Spec

------------------------------------------------------------------------------
(* The queue of SPI transactions.                                          *)

(* The remainder is what is left over a multiple. *)
LEMMA ModUnique ==
  ASSUME NEW b \in Nat \ {0}, NEW q \in Int, NEW r \in 0 .. b - 1
  PROVE  (q * b + r) % b = r
<1> DEFINE a == q * b + r
           quot == a \div b
           rem == a % b
<1>1. a \in Int /\ quot \in Int /\ rem \in 0 .. b - 1 /\ a = quot * b + rem
  BY SMT
<1>2. (quot - q) * b = r - rem
  BY <1>1, SMT
<1>3. CASE quot - q >= 1
  <2>1. (quot - q) * b >= b
    BY <1>1, <1>3, SMT
  <2> QED BY <2>1, <1>1, <1>2
<1>4. CASE quot - q <= -1
  <2>1. (quot - q) * b <= -b
    BY <1>1, <1>4, SMT
  <2> QED BY <2>1, <1>1, <1>2
<1>5. CASE quot = q
  BY <1>1, <1>5, SMT
<1> QED BY <1>1, <1>3, <1>4, <1>5

(* A number is a multiple and a remainder. *)
LEMMA ModSplit ==
  ASSUME NEW b \in Nat \ {0}, NEW a \in Int
  PROVE  /\ a % b \in 0 .. b - 1
         /\ \E q \in Int : a = q * b + (a % b)
<1> DEFINE q == a \div b
<1>1. q \in Int /\ a % b \in 0 .. b - 1 /\ a = q * b + (a % b)
  BY SMT
<1> HIDE DEF q
<1> QED BY <1>1

(* Adding a multiple changes no remainder. *)
LEMMA ModShift ==
  ASSUME NEW b \in Nat \ {0}, NEW q \in Int, NEW a \in Int
  PROVE  (a + q * b) % b = a % b
<1>1. PICK p \in Int : a = p * b + (a % b)
  BY ModSplit
<1>2. a % b \in 0 .. b - 1
  BY ModSplit
<1> DEFINE r == a % b
<1> HIDE DEF r
<1>3. r \in 0 .. b - 1 /\ a = p * b + r
  BY <1>1, <1>2 DEF r
<1>4. a + q * b = (p + q) * b + r
  BY <1>3, SMT
<1>5. ((p + q) * b + r) % b = r
  <2>1. p + q \in Int
    OBVIOUS
  <2> QED BY <1>3, <2>1, ModUnique
<1> QED BY <1>4, <1>5 DEF r

(* Cells less than b apart are different ones. *)
LEMMA ModApart ==
  ASSUME NEW b \in Nat \ {0}, NEW a \in Int, NEW d \in 1 .. b - 1
  PROVE  (a + d) % b # a % b
<1> SUFFICES ASSUME (a + d) % b = a % b PROVE FALSE
  OBVIOUS
<1> DEFINE r == a % b
<1>1. r \in 0 .. b - 1
  BY ModSplit
<1>2. PICK q \in Int : a = q * b + r
  BY ModSplit
<1>3. PICK p \in Int : a + d = p * b + r
  <2>1. a + d \in Int
    OBVIOUS
  <2> QED BY <2>1, ModSplit
<1> HIDE DEF r
<1>4. (p - q) * b = d
  BY <1>1, <1>2, <1>3, SMT
<1>5. CASE p - q >= 1
  BY <1>4, <1>5, SMT
<1>6. CASE p - q <= 0
  BY <1>4, <1>6, SMT
<1> QED BY <1>5, <1>6

LEMMA QueueSizes ==
  /\ QueueSize \in Nat \ {0} /\ CursorWidth \in Nat \ {0} /\ QueueSize < CursorWidth
  /\ Jobs \in Nat
BY ServicesAssumption

(* A cursor counts transactions up to a multiple of its width: one more ... *)
LEMMA Counted ==
  ASSUME NEW a \in Int, NEW n \in Int
  PROVE  ((a % CursorWidth) + n) % CursorWidth = (a + n) % CursorWidth
<1>1. PICK q \in Int : a = q * CursorWidth + (a % CursorWidth)
  BY ModSplit, QueueSizes
<1> DEFINE r == a % CursorWidth
<1>2. r \in Int
  BY ModSplit, QueueSizes
<1> HIDE DEF r
<1>3. a + n = (r + n) + q * CursorWidth
  <2>1. a = q * CursorWidth + r
    BY <1>1 DEF r
  <2>2. q * CursorWidth \in Int
    BY QueueSizes
  <2> QED BY <2>1, <2>2, <1>2
<1>4. ((r + n) + q * CursorWidth) % CursorWidth = (r + n) % CursorWidth
  <2>1. r + n \in Int
    BY <1>2
  <2> QED BY <2>1, ModShift, QueueSizes
<1> QED BY <1>3, <1>4 DEF r

(* ... from one to another ...                                             *)
LEMMA Distance ==
  ASSUME NEW a \in Int, NEW n \in 0 .. CursorWidth - 1
  PROVE  (((a + n) % CursorWidth) - (a % CursorWidth)) % CursorWidth = n
<1> DEFINE r == a % CursorWidth
           s == (a + n) % CursorWidth
<1>1. PICK q \in Int : a = q * CursorWidth + r
  BY ModSplit, QueueSizes
<1>2. PICK p \in Int : a + n = p * CursorWidth + s
  <2>1. a + n \in Int
    BY QueueSizes
  <2> QED BY <2>1, ModSplit, QueueSizes
<1>3. r \in Int /\ s \in Int
  <2>1. a + n \in Int
    BY QueueSizes
  <2> QED BY <2>1, ModSplit, QueueSizes
<1> HIDE DEF r, s
<1>4. s - r = (q - p) * CursorWidth + n
  BY <1>1, <1>2, <1>3, QueueSizes, SMT
<1>5. ((q - p) * CursorWidth + n) % CursorWidth = n
  <2>1. q - p \in Int
    OBVIOUS
  <2> QED BY <2>1, ModUnique, QueueSizes
<1>6. (s - r) % CursorWidth = n
  BY <1>4, <1>5
<1> QED BY <1>6 DEF r, s

(* ... and its slot is that of the count.                                  *)
LEMMA SlotOf ==
  ASSUME NEW a \in Int
  PROVE  M!Slot(a % CursorWidth) = a % QueueSize
<1>1. PICK q \in Int : a = q * CursorWidth + (a % CursorWidth)
  BY ModSplit, QueueSizes
<1>2. PICK k \in Int : CursorWidth = k * QueueSize + (CursorWidth % QueueSize)
  <2>1. CursorWidth \in Int /\ QueueSize \in Nat \ {0}
    BY QueueSizes
  <2> QED BY <2>1, ModSplit
<1>3. CursorWidth = k * QueueSize
  <2>1. CursorWidth % QueueSize = 0 /\ k * QueueSize \in Int
    BY ServicesAssumption, QueueSizes
  <2> QED BY <1>2, <2>1
<1> DEFINE r == a % CursorWidth
<1>4. r \in Int
  BY ModSplit, QueueSizes
<1> HIDE DEF r
<1>5. a = r + (q * k) * QueueSize
  <2>1. a = q * CursorWidth + r
    BY <1>1 DEF r
  <2> QED BY <2>1, <1>3, <1>4, QueueSizes, SMT
<1>6. (r + (q * k) * QueueSize) % QueueSize = r % QueueSize
  <2>1. q * k \in Int
    OBVIOUS
  <2> QED BY <2>1, <1>4, ModShift, QueueSizes
<1> QED BY <1>5, <1>6 DEF M!Slot, r

(* Transactions in the queue together have slots of their own.             *)
LEMMA SlotApart ==
  ASSUME NEW a \in Int, NEW b \in Int, a < b, b - a < QueueSize
  PROVE  a % QueueSize # b % QueueSize
<1>1. b - a \in 1 .. QueueSize - 1
  BY QueueSizes
<1>2. (a + (b - a)) % QueueSize # a % QueueSize
  BY <1>1, ModApart, QueueSizes
<1>3. a + (b - a) = b
  OBVIOUS
<1> QED BY <1>2, <1>3

LEMMA SlotIn ==
  ASSUME NEW a \in Int
  PROVE  a % QueueSize \in 0 .. QueueSize - 1
BY ModSplit, QueueSizes

SpiTypes ==
  /\ elem \in [0 .. QueueSize - 1 -> [job : Nat, done : BOOLEAN]]
  /\ busy \in BOOLEAN /\ xfer \in [slot : 0 .. QueueSize, tcif : BOOLEAN] /\ sel \in Nat
  /\ spi_pc \in {"idle", "look", "start", "wait", "wfi", "asleep"}
  /\ sent \in Nat /\ collected \in Nat

(* c transactions are over: the cursors count those collected, over and    *)
(* enqueued, of which the queue holds the slots.                           *)
Queued(c) ==
  /\ collected <= c /\ c <= sent /\ sent - collected <= QueueSize
  /\ q_tail = collected % CursorWidth /\ curr = c % CursorWidth /\ q_head = sent % CursorWidth
  /\ \A j \in collected + 1 .. sent :
       /\ elem[(j - 1) % QueueSize].job = j
       /\ j <= c => elem[(j - 1) % QueueSize].done
       /\ j > c + 1 => ~elem[(j - 1) % QueueSize].done

(* The next one is on the bus, if any is; nobody can lose sight of one     *)
(* between enqueueing it and the look.                                     *)
OnBus(c) ==
  /\ busy <=> xfer.slot # QueueSize
  /\ busy => /\ c < sent /\ xfer.slot = c % QueueSize /\ sel = c + 1
             /\ xfer.tcif => elem[c % QueueSize].done
  /\ ~busy => ~xfer.tcif /\ sel = 0
  /\ spi_pc = "look" => IF busy THEN c + 1 = sent => ~xfer.tcif ELSE c + 1 = sent
  /\ spi_pc = "start" => ~busy /\ c + 1 = sent
  /\ spi_pc \notin {"look", "start"} /\ ~busy => c = sent
  /\ spi_pc \in {"wfi", "asleep"} => busy

SpiInv == SpiTypes /\ \E c \in Nat : Queued(c) /\ OnBus(c)

LEMMA SpiInit == M!Init => SpiInv
<1> SUFFICES ASSUME M!Init PROVE SpiInv
  OBVIOUS
<1>1. 0 % CursorWidth = 0
  BY QueueSizes, SMT
<1>2. SpiTypes
  <2>1. QueueSize \in 0 .. QueueSize /\ 0 \in Nat
    BY QueueSizes
  <2>2. /\ [job |-> 0, done |-> FALSE] \in [job : Nat, done : BOOLEAN]
        /\ [slot |-> QueueSize, tcif |-> FALSE] \in [slot : 0 .. QueueSize, tcif : BOOLEAN]
    BY <2>1
  <2>3. elem \in [0 .. QueueSize - 1 -> [job : Nat, done : BOOLEAN]]
    BY <2>2 DEF M!Init
  <2>4. xfer \in [slot : 0 .. QueueSize, tcif : BOOLEAN]
    BY <2>2 DEF M!Init, M!NoSlot
  <2> QED BY <2>1, <2>3, <2>4 DEF M!Init, SpiTypes
<1>3. Queued(0)
  BY <1>1, QueueSizes DEF M!Init, Queued
<1>4. OnBus(0)
  BY QueueSizes DEF M!Init, M!NoSlot, OnBus
<1> QED BY <1>2, <1>3, <1>4 DEF SpiInv

(* A transaction joins the queue in a slot none of the others has.         *)
LEMMA EnqueueKeeps ==
  ASSUME SpiInv, M!Enqueue
  PROVE  SpiInv'
<1>1. PICK c \in Nat : Queued(c) /\ OnBus(c)
  BY DEF SpiInv
<1>3. /\ SpiTypes /\ sent \in Int /\ collected \in Int /\ c \in Int
      /\ QueueSize \in Int /\ CursorWidth \in Int
  BY QueueSizes DEF SpiInv, SpiTypes
<1> DEFINE h == sent % QueueSize
<1>s. M!Slot(q_head) = h /\ h \in 0 .. QueueSize - 1
  BY <1>1, <1>3, SlotOf, SlotIn DEF Queued
<1>2. /\ spi_pc = "idle" /\ q_head # M!Plus(q_tail, QueueSize)
      /\ elem' = [elem EXCEPT ![h] = [job |-> sent + 1, done |-> FALSE]]
      /\ q_head' = M!Plus(q_head, 1) /\ sent' = sent + 1 /\ spi_pc' = "look"
      /\ UNCHANGED <<curr, q_tail, busy, sel, xfer, collected>>
  BY <1>s DEF M!Enqueue, M!Full
<1>4. sent - collected < QueueSize
  <2>1. CASE sent - collected = QueueSize
    <3>1. q_head = (collected + QueueSize) % CursorWidth
      BY <2>1, <1>1, <1>3, QueueSizes DEF Queued, SpiTypes
    <3>2. M!Plus(q_tail, QueueSize) = (collected + QueueSize) % CursorWidth
      BY <1>1, <1>3, Counted DEF Queued, M!Plus
    <3> QED BY <3>1, <3>2, <1>2
  <2> QED BY <2>1, <1>1, <1>3, QueueSizes DEF Queued, SpiTypes
<1>6. \A j \in collected + 1 .. sent : (j - 1) % QueueSize # h
  <2> TAKE j \in collected + 1 .. sent
  <2>1. j - 1 \in Int /\ j - 1 < sent /\ sent - (j - 1) < QueueSize
    <3>1. j \in Int /\ collected + 1 <= j /\ j <= sent
      BY <1>3
    <3> QED BY <3>1, <1>3, <1>4
  <2> QED BY <2>1, <1>3, SlotApart
<1> HIDE DEF h
<1>7. SpiTypes'
  BY <1>2, <1>3, <1>s DEF SpiTypes
<1>8. q_head' = (sent + 1) % CursorWidth
  <2>1. ((sent % CursorWidth) + 1) % CursorWidth = (sent + 1) % CursorWidth
    BY <1>3, Counted
  <2> QED BY <2>1, <1>1, <1>2 DEF Queued, M!Plus
<1>9. \A j \in collected + 1 .. sent : elem'[(j - 1) % QueueSize] = elem[(j - 1) % QueueSize]
  BY <1>2, <1>3, <1>6 DEF SpiTypes
<1>10. elem'[h] = [job |-> sent + 1, done |-> FALSE] /\ h = ((sent + 1) - 1) % QueueSize
  BY <1>2, <1>3, <1>s DEF SpiTypes, h
<1>11. Queued(c)'
  <2>1. ASSUME NEW j \in collected' + 1 .. sent'
        PROVE  /\ elem'[(j - 1) % QueueSize].job = j
               /\ j <= c => elem'[(j - 1) % QueueSize].done
               /\ j > c + 1 => ~elem'[(j - 1) % QueueSize].done
    <3>1. CASE j = sent + 1
      <4>1. ~(j <= c)
        BY <3>1, <1>1, <1>3 DEF Queued
      <4> QED BY <3>1, <4>1, <1>10
    <3>2. CASE j \in collected + 1 .. sent
      BY <3>2, <1>9, <1>1 DEF Queued
    <3>3. j = sent + 1 \/ j \in collected + 1 .. sent
      BY <1>2, <1>3
    <3> QED BY <3>1, <3>2, <3>3
  <2>2. /\ collected' <= c /\ c <= sent' /\ sent' - collected' <= QueueSize
        /\ q_tail' = collected' % CursorWidth /\ curr' = c % CursorWidth
        /\ q_head' = sent' % CursorWidth
    BY <1>1, <1>2, <1>3, <1>4, <1>8 DEF Queued
  <2> QED BY <2>1, <2>2 DEF Queued
<1>12. OnBus(c)'
  <2>1. busy => elem'[c % QueueSize] = elem[c % QueueSize] /\ c < sent
    <3> SUFFICES ASSUME busy PROVE elem'[c % QueueSize] = elem[c % QueueSize] /\ c < sent
      OBVIOUS
    <3>1. c < sent /\ c + 1 \in collected + 1 .. sent /\ (c + 1) - 1 = c
      BY <1>1, <1>3 DEF Queued, OnBus, SpiTypes
    <3> QED BY <3>1, <1>9
  <2> QED BY <2>1, <1>1, <1>2, <1>3 DEF OnBus, SpiTypes
<1> QED BY <1>7, <1>11, <1>12 DEF SpiInv

(* The transaction started is the next one.                                *)
LEMMA Started ==
  ASSUME SpiTypes, NEW c \in Nat, Queued(c), c < sent, M!StartXmit(c % CursorWidth)
  PROVE  /\ busy' = TRUE /\ xfer' = [slot |-> c % QueueSize, tcif |-> FALSE] /\ sel' = c + 1
         /\ c % QueueSize \in 0 .. QueueSize - 1
<1>1. M!Slot(c % CursorWidth) = c % QueueSize /\ c % QueueSize \in 0 .. QueueSize - 1
  BY SlotOf, SlotIn
<1>2. c + 1 \in collected + 1 .. sent /\ (c + 1) - 1 = c
  BY DEF SpiTypes, Queued
<1>3. elem[c % QueueSize].job = c + 1
  BY <1>2 DEF Queued
<1> QED BY <1>1, <1>3 DEF M!StartXmit

(* The thread's other steps move a cursor at most.                         *)
LEMMA ThreadKeeps ==
  ASSUME SpiInv,
         M!LookIdle \/ M!Start \/ M!Collect \/ M!Wait \/ M!LookResult \/ M!Sleep \/ M!Wake
  PROVE  SpiInv'
<1>1. PICK c \in Nat : Queued(c) /\ OnBus(c)
  BY DEF SpiInv
<1>2. /\ SpiTypes /\ sent \in Int /\ collected \in Int /\ c \in Int
      /\ QueueSize \in Int /\ CursorWidth \in Int
  BY QueueSizes DEF SpiInv, SpiTypes
<1>3. CASE M!Start
  <2>1. /\ spi_pc = "start" /\ spi_pc' = "idle" /\ M!StartXmit(c % CursorWidth) /\ c + 1 = sent
        /\ UNCHANGED <<elem, q_head, curr, q_tail, sent, collected>>
    BY <1>1, <1>3 DEF M!Start, M!queueVars, OnBus, Queued
  <2>2. /\ busy' = TRUE /\ xfer' = [slot |-> c % QueueSize, tcif |-> FALSE] /\ sel' = c + 1
        /\ c % QueueSize \in 0 .. QueueSize - 1
    <3>1. c < sent
      BY <2>1, <1>2
    <3> QED BY <3>1, <2>1, <1>1, <1>2, Started
  <2>3. SpiTypes'
    BY <2>1, <2>2, <1>2, QueueSizes DEF SpiTypes
  <2>4. Queued(c)'
    BY <2>1, <1>1 DEF Queued
  <2>5. OnBus(c)'
    BY <2>1, <2>2, <1>2, QueueSizes DEF OnBus, SpiTypes
  <2> QED BY <2>3, <2>4, <2>5 DEF SpiInv
<1>4. CASE M!Collect
  <2>1. /\ curr # q_tail /\ q_tail' = M!Plus(q_tail, 1)
        /\ collected' = elem[M!Slot(q_tail)].job
        /\ UNCHANGED <<elem, q_head, curr, busy, sel, xfer, spi_pc, sent>>
    BY <1>4 DEF M!Collect
  <2>2. collected < c
    BY <2>1, <1>1, <1>2 DEF Queued, SpiTypes
  <2>3. collected' = collected + 1
    <3>1. collected + 1 \in collected + 1 .. sent /\ (collected + 1) - 1 = collected
      BY <2>2, <1>1, <1>2 DEF Queued, SpiTypes
    <3>2. M!Slot(q_tail) = collected % QueueSize
      BY SlotOf, <1>1, <1>2 DEF Queued, SpiTypes
    <3> QED BY <3>1, <3>2, <2>1, <1>1 DEF Queued
  <2>4. q_tail' = (collected + 1) % CursorWidth
    <3>1. ((collected % CursorWidth) + 1) % CursorWidth = (collected + 1) % CursorWidth
      BY <1>2, Counted
    <3> QED BY <3>1, <2>1, <1>1 DEF Queued, M!Plus
  <2>5. SpiTypes'
    BY <2>1, <2>3, <1>2 DEF SpiTypes
  <2>6. Queued(c)'
    <3>1. collected + 2 .. sent \subseteq collected + 1 .. sent /\ (collected + 1) + 1 = collected + 2
      BY <1>2
    <3>2. /\ collected' <= c /\ c <= sent' /\ sent' - collected' <= QueueSize
          /\ q_tail' = collected' % CursorWidth /\ curr' = c % CursorWidth
          /\ q_head' = sent' % CursorWidth
      BY <2>1, <2>2, <2>3, <2>4, <1>1, <1>2 DEF Queued
    <3>3. \A j \in collected' + 1 .. sent' :
            /\ elem'[(j - 1) % QueueSize].job = j
            /\ j <= c => elem'[(j - 1) % QueueSize].done
            /\ j > c + 1 => ~elem'[(j - 1) % QueueSize].done
      BY <3>1, <2>1, <2>3, <1>1 DEF Queued
    <3> QED BY <3>2, <3>3 DEF Queued
  <2>7. OnBus(c)'
    BY <2>1, <1>1 DEF OnBus
  <2> QED BY <2>5, <2>6, <2>7 DEF SpiInv
<1>5. CASE M!LookIdle \/ M!Wait \/ M!LookResult \/ M!Sleep \/ M!Wake
  <2>1. /\ UNCHANGED <<elem, q_head, curr, q_tail, busy, sel, xfer, sent, collected>>
        /\ spi_pc' \in {"idle", "start", "wait", "wfi", "asleep"}
    BY <1>5 DEF M!LookIdle, M!Wait, M!LookResult, M!Sleep, M!Wake, M!queueVars
  <2>2. SpiTypes'
    BY <2>1, <1>2 DEF SpiTypes
  <2>3. Queued(c)'
    BY <2>1, <1>1 DEF Queued
  <2>4. spi_pc' = "start" => ~busy /\ c + 1 = sent
    BY <1>5, <1>1 DEF M!LookIdle, M!Wait, M!LookResult, M!Sleep, M!Wake, OnBus
  <2>5. spi_pc' # "start" /\ ~busy => c = sent
    BY <1>5, <1>1 DEF M!LookIdle, M!Wait, M!LookResult, M!Sleep, M!Wake, OnBus
  <2>6. spi_pc' \in {"wfi", "asleep"} => busy
    <3>1. CASE M!LookResult /\ ~busy
      BY <3>1, <1>1 DEF M!LookResult, OnBus, Queued
    <3>2. CASE M!Sleep
      BY <3>2, <1>1 DEF M!Sleep, OnBus
    <3> QED BY <3>1, <3>2, <1>5 DEF M!LookIdle, M!Wait, M!LookResult, M!Wake
  <2>7. OnBus(c)'
    BY <2>1, <2>4, <2>5, <2>6, <1>1 DEF OnBus
  <2> QED BY <2>2, <2>3, <2>7 DEF SpiInv
<1> QED BY <1>3, <1>4, <1>5

(* The exchange is that of the transaction on the bus, never of one whose  *)
(* thread has yet to look.                                                 *)
LEMMA ExchangeKeeps ==
  ASSUME SpiInv, M!Exchange
  PROVE  SpiInv'
<1>1. PICK c \in Nat : Queued(c) /\ OnBus(c)
  BY DEF SpiInv
<1>2. /\ SpiTypes /\ sent \in Int /\ collected \in Int /\ c \in Int
      /\ QueueSize \in Int /\ CursorWidth \in Int
  BY QueueSizes DEF SpiInv, SpiTypes
<1> DEFINE s == c % QueueSize
<1>3. /\ busy /\ ~xfer.tcif /\ elem' = [elem EXCEPT ![s].done = TRUE]
      /\ xfer' = [xfer EXCEPT !.tcif = TRUE] /\ xfer.slot = s /\ c < sent
      /\ spi_pc = "look" => elem[s].job # sent
      /\ UNCHANGED <<q_head, curr, q_tail, busy, sel, spi_pc, sent, collected>>
  BY <1>1 DEF M!Exchange, M!Brisk, M!NoSlot, OnBus
<1>4. s \in 0 .. QueueSize - 1
  BY SlotIn
<1>5. c + 1 \in collected + 1 .. sent /\ elem[s].job = c + 1
  <2>1. c + 1 \in collected + 1 .. sent /\ (c + 1) - 1 = c
    BY <1>1, <1>2, <1>3 DEF Queued, SpiTypes
  <2> QED BY <2>1, <1>1 DEF Queued
<1>6. \A j \in collected + 1 .. sent : j # c + 1 => (j - 1) % QueueSize # s
  <2> SUFFICES ASSUME NEW j \in collected + 1 .. sent, j # c + 1
               PROVE  (j - 1) % QueueSize # c % QueueSize
    OBVIOUS
  <2>1. /\ collected <= c /\ c < sent /\ sent - collected <= QueueSize
        /\ j \in Int /\ collected + 1 <= j /\ j <= sent
    BY <1>1, <1>2, <1>3 DEF Queued
  <2>2. /\ j - 1 \in Int
        /\ \/ j - 1 < c /\ c - (j - 1) < QueueSize
           \/ c < j - 1 /\ (j - 1) - c < QueueSize
    BY <2>1, <1>2
  <2> QED BY <2>2, <1>2, SlotApart
<1>d. s = ((c + 1) - 1) % QueueSize
  OBVIOUS
<1> HIDE DEF s
<1>7. /\ elem'[s].done /\ elem'[s].job = elem[s].job
      /\ \A i \in 0 .. QueueSize - 1 : i # s => elem'[i] = elem[i]
      /\ elem' \in [0 .. QueueSize - 1 -> [job : Nat, done : BOOLEAN]]
  BY <1>2, <1>3, <1>4 DEF SpiTypes
<1>8. xfer'.slot = xfer.slot /\ xfer'.tcif /\ xfer' \in [slot : 0 .. QueueSize, tcif : BOOLEAN]
  BY <1>2, <1>3 DEF SpiTypes
<1>9. SpiTypes'
  BY <1>2, <1>3, <1>7, <1>8 DEF SpiTypes
<1>10. Queued(c)'
  <2>1. ASSUME NEW j \in collected + 1 .. sent
        PROVE  /\ elem'[(j - 1) % QueueSize].job = j
               /\ j <= c => elem'[(j - 1) % QueueSize].done
               /\ j > c + 1 => ~elem'[(j - 1) % QueueSize].done
    <3>1. CASE j = c + 1
      BY <3>1, <1>d, <1>5, <1>7
    <3>2. CASE j # c + 1
      <4>1. (j - 1) % QueueSize \in 0 .. QueueSize - 1
        <5>1. j - 1 \in Int
          BY <1>2 DEF SpiTypes
        <5> QED BY <5>1, SlotIn
      <4>2. elem'[(j - 1) % QueueSize] = elem[(j - 1) % QueueSize]
        BY <4>1, <3>2, <1>6, <1>7
      <4> QED BY <4>2, <1>1 DEF Queued
    <3> QED BY <3>1, <3>2
  <2> QED BY <2>1, <1>1, <1>3 DEF Queued
<1>11. OnBus(c)'
  BY <1>1, <1>3, <1>5, <1>7, <1>8 DEF OnBus, s
<1> QED BY <1>9, <1>10, <1>11 DEF SpiInv

(* The handler goes on to the next, or the queue comes to rest.            *)
LEMMA RxDmaKeeps ==
  ASSUME SpiInv, M!RxDma
  PROVE  SpiInv'
<1>1. PICK c \in Nat : Queued(c) /\ OnBus(c)
  BY DEF SpiInv
<1>2. /\ SpiTypes /\ sent \in Int /\ collected \in Int /\ c \in Int
      /\ QueueSize \in Int /\ CursorWidth \in Int
  BY QueueSizes DEF SpiInv, SpiTypes
<1> DEFINE d == c + 1
<1>3. /\ xfer.tcif /\ spi_pc \notin {"wfi", "asleep"} /\ busy
      /\ UNCHANGED <<elem, q_head, q_tail, spi_pc, sent, collected>>
  BY <1>1 DEF M!RxDma, M!Masked, OnBus
<1>4. curr' = d % CursorWidth /\ d \in Nat /\ d <= sent
  <2>1. ((c % CursorWidth) + 1) % CursorWidth = (c + 1) % CursorWidth
    BY <1>2, Counted
  <2>2. curr' = M!Plus(curr, 1)
    BY DEF M!RxDma
  <2>3. curr' = d % CursorWidth
    BY <2>1, <2>2, <1>1 DEF Queued, M!Plus
  <2>4. d \in Nat /\ d <= sent
    BY <1>1, <1>2, <1>3 DEF OnBus
  <2> QED BY <2>3, <2>4
<1>5. spi_pc # "start" /\ (spi_pc = "look" => d < sent)
  BY <1>1, <1>2, <1>3 DEF OnBus, Queued, SpiTypes
<1>6. elem[((c + 1) - 1) % QueueSize].done
  BY <1>1, <1>3 DEF OnBus
<1>7. \A j \in collected + 1 .. sent :
        /\ elem[(j - 1) % QueueSize].job = j
        /\ j <= d => elem[(j - 1) % QueueSize].done
        /\ j > d + 1 => ~elem[(j - 1) % QueueSize].done
  <2> TAKE j \in collected + 1 .. sent
  <2>1. CASE j = c + 1
    BY <2>1, <1>1, <1>6 DEF Queued
  <2>2. CASE j # c + 1
    BY <2>2, <1>1, <1>2 DEF Queued, SpiTypes
  <2> QED BY <2>1, <2>2
<1>8. d = sent <=> q_head = curr'
  <2>1. CASE d = sent
    BY <2>1, <1>1, <1>4 DEF Queued
  <2>2. CASE d # sent
    <3>1. sent - d \in 1 .. CursorWidth - 1 /\ d + (sent - d) = sent
      BY <2>2, <1>1, <1>2, <1>4, QueueSizes DEF Queued, SpiTypes
    <3>2. (d + (sent - d)) % CursorWidth # d % CursorWidth
      <4>1. d \in Int
        BY <1>4
      <4> QED BY <3>1, <4>1, ModApart, QueueSizes
    <3> QED BY <3>1, <3>2, <2>2, <1>1, <1>4 DEF Queued
  <2> QED BY <2>1, <2>2
<1> HIDE DEF d
<1>9. Queued(d)'
  <2>1. collected <= d
    BY <1>1, <1>2 DEF d, Queued, SpiTypes
  <2> QED BY <2>1, <1>1, <1>3, <1>4, <1>7 DEF Queued
<1>10. CASE d = sent
  <2>1. busy' = FALSE /\ sel' = 0 /\ xfer' = [slot |-> QueueSize, tcif |-> FALSE]
    BY <1>8, <1>10 DEF M!RxDma, M!NoSlot
  <2>2. SpiTypes'
    <3>1. xfer' \in [slot : 0 .. QueueSize, tcif : BOOLEAN]
      <4>1. QueueSize \in 0 .. QueueSize
        BY QueueSizes
      <4> QED BY <2>1, <4>1
    <3> QED BY <3>1, <2>1, <1>2, <1>3 DEF SpiTypes
  <2>3. OnBus(d)'
    <3>1. spi_pc' \notin {"look", "start", "wfi", "asleep"}
      BY <1>3, <1>4, <1>5, <1>10, <1>2
    <3>2. xfer'.slot = QueueSize /\ xfer'.tcif = FALSE
      BY <2>1
    <3> QED BY <2>1, <3>1, <3>2, <1>3, <1>10 DEF OnBus
  <2> QED BY <2>2, <2>3, <1>4, <1>9 DEF SpiInv
<1>11. CASE d # sent
  <2>1. M!StartXmit(d % CursorWidth)
    BY <1>4, <1>8, <1>11 DEF M!RxDma
  <2>2. d + 1 \in collected + 1 .. sent /\ (d + 1) - 1 = d
    BY <1>1, <1>2, <1>4, <1>11 DEF d, Queued, SpiTypes
  <2>3. elem[d % QueueSize].job = d + 1
    BY <2>2, <1>7
  <2>4. M!Slot(d % CursorWidth) = d % QueueSize /\ d % QueueSize \in 0 .. QueueSize - 1
    BY <1>4, SlotOf, SlotIn
  <2>5. /\ busy' = TRUE /\ xfer' = [slot |-> d % QueueSize, tcif |-> FALSE] /\ sel' = d + 1
    BY <2>1, <2>3, <2>4 DEF M!StartXmit
  <2>6. SpiTypes'
    BY <2>4, <2>5, <1>2, <1>3, <1>4, QueueSizes DEF SpiTypes
  <2>7. OnBus(d)'
    BY <2>4, <2>5, <1>2, <1>3, <1>4, <1>5, <1>11, QueueSizes DEF OnBus, SpiTypes
  <2> QED BY <2>6, <2>7, <1>4, <1>9 DEF SpiInv
<1> QED BY <1>10, <1>11

(* What the queue shows of itself.                                         *)
LEMMA QueueShown ==
  ASSUME SpiInv
  PROVE  M!Exchanged /\ M!NoneStuck
<1>1. PICK c \in Nat : Queued(c) /\ OnBus(c)
  BY DEF SpiInv
<1>2. /\ SpiTypes /\ sent \in Int /\ collected \in Int /\ c \in Int
      /\ QueueSize \in Int /\ CursorWidth \in Int
  BY QueueSizes DEF SpiInv, SpiTypes
<1>3. M!Upto(q_tail, q_head) = sent - collected
  <2>1. sent - collected \in 0 .. CursorWidth - 1 /\ collected + (sent - collected) = sent
    BY <1>1, <1>2, QueueSizes DEF Queued, SpiTypes
  <2>2. (((collected + (sent - collected)) % CursorWidth) - (collected % CursorWidth)) % CursorWidth
          = sent - collected
    BY <2>1, <1>2, Distance
  <2> QED BY <2>1, <2>2, <1>1 DEF Queued, M!Upto
<1>4. M!Upto(q_tail, curr) = c - collected
  <2>1. c - collected \in 0 .. CursorWidth - 1 /\ collected + (c - collected) = c
    BY <1>1, <1>2, QueueSizes DEF Queued, SpiTypes
  <2>2. (((collected + (c - collected)) % CursorWidth) - (collected % CursorWidth)) % CursorWidth
          = c - collected
    BY <2>1, <1>2, Distance
  <2> QED BY <2>1, <2>2, <1>1 DEF Queued, M!Upto
<1>5. ASSUME NEW n \in 0 .. sent - collected - 1
      PROVE  LET x == elem[M!Slot(M!Plus(q_tail, n))]
             IN  /\ x.job = collected + 1 + n
                 /\ n < c - collected => x.done
                 /\ n > c - collected => ~x.done
  <2> DEFINE j == collected + 1 + n
  <2>1. j \in collected + 1 .. sent /\ j - 1 = collected + n /\ collected + n \in Int
    BY <1>2 DEF SpiTypes
  <2>2. M!Slot(M!Plus(q_tail, n)) = (collected + n) % QueueSize
    <3>1. M!Plus(q_tail, n) = (collected + n) % CursorWidth
      <4>1. ((collected % CursorWidth) + n) % CursorWidth = (collected + n) % CursorWidth
        <5>1. n \in Int
          BY <1>2
        <5> QED BY <5>1, <1>2, Counted
      <4> QED BY <4>1, <1>1 DEF M!Plus, Queued
    <3> QED BY <3>1, <2>1, SlotOf
  <2>3. /\ n < c - collected => j <= c
        /\ n > c - collected => j > c + 1
    BY <1>2 DEF SpiTypes
  <2> HIDE DEF j
  <2>4. /\ elem[(j - 1) % QueueSize].job = j
        /\ j <= c => elem[(j - 1) % QueueSize].done
        /\ j > c + 1 => ~elem[(j - 1) % QueueSize].done
    BY <2>1, <1>1 DEF Queued
  <2> QED BY <2>1, <2>2, <2>3, <2>4 DEF j
<1>6. /\ xfer.slot # QueueSize =>
            xfer.slot = M!Slot(curr) /\ busy /\ sel = elem[M!Slot(curr)].job
      /\ xfer.slot = QueueSize => sel = 0
  <2>1. M!Slot(curr) = c % QueueSize
    BY <1>1, SlotOf DEF Queued
  <2>2. busy => elem[c % QueueSize].job = c + 1
    <3>1. busy => c + 1 \in collected + 1 .. sent /\ (c + 1) - 1 = c
      BY <1>1, <1>2 DEF Queued, OnBus, SpiTypes
    <3> QED BY <3>1, <1>1 DEF Queued
  <2> QED BY <2>1, <2>2, <1>1 DEF OnBus
<1>7. M!Exchanged
  BY <1>3, <1>4, <1>5, <1>6 DEF M!Exchanged, M!NoSlot
<1>8. M!NoneStuck
  BY <1>1 DEF M!NoneStuck, M!NoSlot, OnBus, Queued
<1> QED BY <1>7, <1>8

(* For any queue and any number of transactions: those in the queue are in *)
(* the order they were enqueued, exchanged up to the one on the bus and    *)
(* not beyond, that one alone selected; no wakeup of the waiting thread is *)
(* lost, and no transaction is left with the bus idle.                     *)
THEOREM QueueServed == M!Spec => []SpiServed
<1>1. SpiInv /\ [M!Next]_(M!vars) => SpiInv'
  <2> SUFFICES ASSUME SpiInv, [M!Next]_(M!vars) PROVE SpiInv'
    OBVIOUS
  <2>1. CASE UNCHANGED M!vars
    BY <2>1 DEF M!vars, M!queueVars, SpiInv, SpiTypes, Queued, OnBus
  <2> QED BY <2>1, EnqueueKeeps, ThreadKeeps, ExchangeKeeps, RxDmaKeeps DEF M!Next
<1>2. SpiInv => SpiServed
  BY QueueShown DEF SpiServed
<1> QED BY <1>1, <1>2, SpiInit, PTL DEF M!Spec

------------------------------------------------------------------------------
(* The rings of the console port.                                          *)

LEMMA RingSizes ==
  /\ TxSize \in Nat \ {0} /\ TxLine \in Nat
  /\ RxSize \in Nat \ {0} /\ RxSize >= 4 /\ RxChunk \in Nat
BY ServicesAssumption

(* A step that does not reach the end of the buffer adds to the place.     *)
LEMMA ModNear ==
  ASSUME NEW b \in Nat \ {0}, NEW a \in Int, NEW k \in Nat, (a % b) + k < b
  PROVE  (a + k) % b = (a % b) + k
<1> DEFINE r == a % b
<1>1. PICK q \in Int : a = q * b + r
  BY ModSplit
<1>2. r \in 0 .. b - 1 /\ r + k < b
  BY ModSplit
<1> HIDE DEF r
<1>3. a + k = q * b + (r + k) /\ r + k \in 0 .. b - 1
  BY <1>1, <1>2
<1>4. (q * b + (r + k)) % b = r + k
  BY <1>3, ModUnique
<1> QED BY <1>3, <1>4 DEF r

(* From the head to the cell of the i-th byte, round the buffer.           *)
LEMMA CellBack ==
  ASSUME NEW b \in Nat \ {0}, NEW h \in Int, NEW i \in Int
  PROVE  ((i % b) - h) % b = (i - h) % b
<1> DEFINE r == i % b
<1>1. PICK q \in Int : i = q * b + r
  BY ModSplit
<1>2. r \in Int
  BY ModSplit
<1> HIDE DEF r
<1>3. i - h = (r - h) + q * b /\ r - h \in Int
  BY <1>1, <1>2
<1>4. ((r - h) + q * b) % b = (r - h) % b
  BY <1>3, ModShift
<1> QED BY <1>3, <1>4 DEF r

LEMMA ModSmall ==
  ASSUME NEW b \in Nat \ {0}, NEW a \in -b .. b - 1
  PROVE  a % b = IF a < 0 THEN a + b ELSE a
<1>1. CASE a < 0
  <2>1. ((-1) * b + (a + b)) % b = a + b
    BY <1>1, ModUnique
  <2> QED BY <1>1, <2>1
<1>2. CASE a >= 0
  <2>1. (0 * b + a) % b = a
    BY <1>2, ModUnique
  <2> QED BY <1>2, <2>1
<1> QED BY <1>1, <1>2

(* fifo.h: what lies in one piece behind the tail t of a ring whose head   *)
(* is h; with h for t and the end of the room for h, the room.             *)
OnePiece(t, h, b) ==
  IF t % b < h % b \/ h = t THEN (h % b) - (t % b) ELSE b - (t % b)

LEMMA PieceFits ==
  ASSUME NEW b \in Nat \ {0}, NEW t \in Nat, NEW h \in Nat, t <= h, h <= t + b
  PROVE  /\ OnePiece(t, h, b) \in Nat /\ OnePiece(t, h, b) <= h - t
         /\ (t % b) + OnePiece(t, h, b) <= b
         /\ h # t => OnePiece(t, h, b) > 0
<1> DEFINE r == t % b
           s == h % b
<1>i. t \in Int /\ h \in Int
  OBVIOUS
<1>1. PICK q \in Int : t = q * b + r
  BY <1>i, ModSplit
<1>2. PICK p \in Int : h = p * b + s
  BY <1>i, ModSplit
<1>3. r \in 0 .. b - 1 /\ s \in 0 .. b - 1
  BY ModSplit
<1>4. OnePiece(t, h, b) = IF r < s \/ h = t THEN s - r ELSE b - r
  BY DEF OnePiece
<1>0. h = t => r = s
  OBVIOUS
<1> HIDE DEF r, s
<1>5. h - t = (p - q) * b + (s - r)
  BY <1>1, <1>2, <1>3, SMT
<1>6. CASE p - q >= 1
  <2>1. (p - q) * b >= b
    BY <1>6, SMT
  <2> HIDE DEF OnePiece
  <2>2. h - t >= b + (s - r)
    BY <1>5, <2>1, <1>3, SMT
  <2> QED BY <1>0, <1>3, <1>4, <2>2 DEF r
<1>7. CASE p - q = 0
  <2>1. h - t = s - r
    BY <1>5, <1>7, <1>3, SMT
  <2> QED BY <1>0, <1>3, <1>4, <2>1 DEF r
<1>8. CASE p - q <= -1
  <2>1. (p - q) * b <= -b
    BY <1>8, SMT
  <2>2. h - t <= (s - r) - b
    BY <1>5, <2>1, <1>3, SMT
  <2> QED BY <1>3, <2>2
<1> QED BY <1>6, <1>7, <1>8


------------------------------------------------------------------------------
(* The transmit side of the console port.                                  *)

TxTypes ==
  /\ tx_head \in Nat /\ tx_tail \in Nat /\ tx_tail <= tx_head /\ tx_head <= tx_tail + TxSize
  /\ taken = tx_head /\ out \in Nat /\ todo \in Nat
  /\ xfersize \in Nat /\ xfersize <= tx_head - tx_tail
  /\ tx_dma \in [src : Nat, left : Nat, tcif : BOOLEAN]
  /\ tdr \in Seq(Nat) /\ tc \in BOOLEAN /\ tcie \in BOOLEAN
  /\ tx_pc \in {"idle", "rest", "putc", "kick"}

(* The ring holds the bytes from the tail to the head.                     *)
RingHolds(buffer, from, to) ==
  \A i \in Nat : from <= i /\ i < to => buffer[i % TxSize] = i + 1

(* The burst lies in one piece at the tail; what it has moved and not yet  *)
(* given back is with the USART or beyond.                                 *)
InFlight ==
  /\ tx_dma.left <= xfersize
  /\ tx_dma.tcif => tx_dma.left = 0
  /\ tx_dma.left = 0 /\ ~tx_dma.tcif => xfersize = 0
  /\ xfersize > 0 =>
       /\ tx_dma.src = (tx_tail % TxSize) + (xfersize - tx_dma.left)
       /\ (tx_tail % TxSize) + xfersize <= TxSize

(* The next bytes for the line.                                            *)
OnTheWay ==
  /\ \A i \in 1 .. Len(tdr) : tdr[i] = out + i
  /\ out + Len(tdr) = tx_tail + (xfersize - tx_dma.left)

(* The rest of a line has room, and the chain is neither left off with     *)
(* bytes in the ring nor waiting for a completion that will not come.      *)
Chained ==
  /\ tx_pc = "rest" => todo <= tx_tail + TxSize - tx_head
  /\ tx_pc = "putc" => todo > 0
  /\ tx_pc = "idle" /\ ~tcie => tx_head = tx_tail
  /\ tx_dma.left = 0 /\ tdr = <<>> => tc

TxRing == TxTypes /\ RingHolds(tx_ring, tx_tail, tx_head) /\ InFlight /\ OnTheWay /\ Chained

LEMMA TxStart == T!Init => TxRing
<1> SUFFICES ASSUME T!Init PROVE TxRing
  OBVIOUS
<1>1. TxTypes
  <2>1. /\ tx_head = 0 /\ tx_tail = 0 /\ taken = 0 /\ out = 0 /\ todo = 0 /\ xfersize = 0
        /\ tx_dma = [src |-> 0, left |-> 0, tcif |-> FALSE]
        /\ tdr = <<>> /\ tc = TRUE /\ tcie = FALSE /\ tx_pc = "idle"
    BY DEF T!Init
  <2>2. tx_dma \in [src : Nat, left : Nat, tcif : BOOLEAN]
    BY <2>1
  <2>3. tdr \in Seq(Nat)
    BY <2>1, EmptySeq
  <2>4. /\ tx_head \in Nat /\ tx_tail \in Nat /\ tx_tail <= tx_head /\ tx_head <= tx_tail + TxSize
        /\ taken = tx_head /\ out \in Nat /\ todo \in Nat
        /\ xfersize \in Nat /\ xfersize <= tx_head - tx_tail
    BY <2>1, RingSizes
  <2>5. tc \in BOOLEAN /\ tcie \in BOOLEAN /\ tx_pc \in {"idle", "rest", "putc", "kick"}
    BY <2>1
  <2> QED BY <2>2, <2>3, <2>4, <2>5 DEF TxTypes
<1>2. RingHolds(tx_ring, tx_tail, tx_head) /\ InFlight /\ OnTheWay /\ Chained
  BY DEF T!Init, RingHolds, InFlight, OnTheWay, Chained
<1> QED BY <1>1, <1>2 DEF TxRing

(* Bytes put in at the head count on, and overwrite none that are there.   *)
LEMMA TxPush ==
  ASSUME TxTypes, RingHolds(tx_ring, tx_tail, tx_head),
         NEW n \in Nat, n <= T!Free, T!PushHead(n)
  PROVE  /\ RingHolds(tx_ring', tx_tail', tx_head')
         /\ tx_head' = tx_head + n /\ taken' = tx_head' /\ tx_tail' = tx_tail
         /\ tx_head' <= tx_tail' + TxSize /\ tx_head' \in Nat
<1>1. /\ tx_head \in Nat /\ tx_tail \in Nat /\ tx_tail <= tx_head /\ taken = tx_head
      /\ tx_head + n <= tx_tail + TxSize
  BY RingSizes DEF TxTypes, T!Free
<1>2. /\ tx_ring' = [i \in 0 .. TxSize - 1 |->
               LET k == (i - tx_head) % TxSize IN IF k < n THEN taken + k + 1 ELSE tx_ring[i]]
      /\ tx_head' = tx_head + n /\ taken' = taken + n /\ tx_tail' = tx_tail
  BY DEF T!PushHead
<1>3. ASSUME NEW i \in Nat, tx_tail <= i, i < tx_head + n
      PROVE  tx_ring'[i % TxSize] = i + 1
  <2>1. i % TxSize \in 0 .. TxSize - 1 /\ i \in Int /\ tx_head \in Int
    BY <1>1, ModSplit, RingSizes
  <2>2. ((i % TxSize) - tx_head) % TxSize = (i - tx_head) % TxSize
    BY <2>1, CellBack, RingSizes
  <2>3. i - tx_head \in -TxSize .. TxSize - 1
    BY <1>1, <1>3, RingSizes
  <2>4. (i - tx_head) % TxSize = IF i - tx_head < 0 THEN i - tx_head + TxSize ELSE i - tx_head
    BY <2>3, ModSmall, RingSizes
  <2> DEFINE k == (i - tx_head) % TxSize
  <2>5. tx_ring'[i % TxSize] = IF k < n THEN taken + k + 1 ELSE tx_ring[i % TxSize]
    BY <1>2, <2>1, <2>2
  <2> HIDE DEF k
  <2>6. k = IF i - tx_head < 0 THEN i - tx_head + TxSize ELSE i - tx_head
    BY <2>4 DEF k
  <2>7. CASE i < tx_head
    <3>1. ~(k < n)
      BY <1>1, <1>3, <2>6, <2>7, RingSizes
    <3>2. tx_ring[i % TxSize] = i + 1
      BY <1>3, <2>7 DEF RingHolds
    <3> QED BY <2>5, <3>1, <3>2
  <2>8. CASE i >= tx_head
    <3>1. k = i - tx_head /\ k < n
      BY <1>1, <1>3, <2>6, <2>8
    <3> QED BY <1>1, <2>5, <3>1
  <2> QED BY <1>1, <2>7, <2>8
<1> QED BY <1>1, <1>2, <1>3 DEF RingHolds

(* The main loop's steps leave the burst alone.                            *)
LEMMA TxMain ==
  ASSUME TxRing, (\E n \in 1 .. TxLine : T!EchoFirst(n) \/ T!Format(n)) \/ T!Main
  PROVE  TxRing'
<1>0. /\ TxTypes /\ RingHolds(tx_ring, tx_tail, tx_head) /\ InFlight /\ OnTheWay /\ Chained
  BY DEF TxRing
<1>1. /\ tx_head \in Nat /\ tx_tail \in Nat /\ tx_tail <= tx_head /\ todo \in Nat
      /\ TxSize \in Nat /\ TxLine \in Nat
  BY <1>0, RingSizes DEF TxTypes
<1>2. ASSUME UNCHANGED <<xfersize, tx_dma, tdr, tc, tx_tail, out>>,
             tx_head' \in Nat, tx_head <= tx_head', tx_head' <= tx_tail + TxSize, taken' = tx_head',
             RingHolds(tx_ring', tx_tail', tx_head'),
             todo' \in Nat, tcie' \in BOOLEAN, tx_pc' \in {"idle", "rest", "putc", "kick"},
             tx_pc' = "rest" => todo' <= tx_tail + TxSize - tx_head',
             tx_pc' = "putc" => todo' > 0,
             tx_pc' = "idle" /\ ~tcie' => tx_head' = tx_tail
      PROVE  TxRing'
  <2>1. TxTypes'
    <3>1. /\ tx_head' \in Nat /\ tx_head <= tx_head' /\ tx_tail' = tx_tail /\ xfersize' = xfersize
          /\ tx_head' <= tx_tail + TxSize
      BY <1>2
    <3>2. xfersize \in Nat /\ xfersize <= tx_head - tx_tail
      BY <1>0 DEF TxTypes
    <3>3. /\ tx_tail' \in Nat /\ tx_tail' <= tx_head' /\ tx_head' <= tx_tail' + TxSize
          /\ xfersize' \in Nat /\ xfersize' <= tx_head' - tx_tail'
      <4> DEFINE h == tx_head'
      <4>1. h \in Nat /\ tx_head <= h /\ h <= tx_tail + TxSize
        BY <3>1
      <4> HIDE DEF h
      <4>2. tx_tail <= h /\ xfersize <= h - tx_tail
        BY <1>1, <3>2, <4>1
      <4> QED BY <1>1, <3>1, <3>2, <4>1, <4>2 DEF h
    <3>4. /\ out' \in Nat /\ tdr' \in Seq(Nat)
          /\ tx_dma' \in [src : Nat, left : Nat, tcif : BOOLEAN] /\ tc' \in BOOLEAN
      BY <1>0, <1>2 DEF TxTypes
    <3> QED BY <1>2, <3>3, <3>4 DEF TxTypes
  <2>2. InFlight' /\ OnTheWay'
    BY <1>0, <1>2 DEF InFlight, OnTheWay
  <2>3. Chained'
    BY <1>0, <1>2 DEF Chained
  <2>4. RingHolds(tx_ring, tx_tail, tx_head)'
    BY <1>2 DEF RingHolds
  <2> QED BY <2>1, <2>2, <2>3, <2>4 DEF TxRing
<1>3. ASSUME NEW n \in 1 .. TxLine, T!EchoFirst(n) PROVE TxRing'
  <2>1. CASE T!Free < n
    BY <1>0, <1>1, <1>2, <1>3, <2>1 DEF T!EchoFirst, T!fifoVars, T!uartVars, TxTypes
  <2>2. CASE ~(T!Free < n)
    <3> DEFINE l == T!Min2(T!HeadSize, n)
    <3>1. /\ T!PushHead(l) /\ todo' = n - l /\ tx_pc' = (IF l < n THEN "rest" ELSE "kick")
          /\ UNCHANGED <<xfersize, tx_dma, tdr, tc, tcie, out>>
      BY <1>3, <2>2 DEF T!EchoFirst, T!uartVars
    <3>2. T!HeadSize \in Nat
      <4>1. (tx_head % TxSize) \in 0 .. TxSize - 1 /\ (tx_tail % TxSize) \in 0 .. TxSize - 1
        BY <1>1, ModSplit, RingSizes
      <4>2. T!Free # 0
        BY <1>1, <1>3, <2>2 DEF T!Free
      <4> QED BY <4>1, <4>2, RingSizes DEF T!HeadSize
    <3>3. l \in Nat /\ l <= n /\ n <= T!Free
      BY <1>1, <1>3, <2>2, <3>2 DEF T!Min2, T!Free
    <3> HIDE DEF l
    <3>4. /\ RingHolds(tx_ring', tx_tail', tx_head')
          /\ tx_head' = tx_head + l /\ taken' = tx_head' /\ tx_tail' = tx_tail
          /\ tx_head' <= tx_tail' + TxSize /\ tx_head' \in Nat
      <4>1. l <= T!Free
        BY <1>1, <1>3, <3>3 DEF T!Free
      <4> QED BY <1>0, <3>1, <3>3, <4>1, TxPush
    <3>5. n - l \in Nat /\ n - l <= tx_tail + TxSize - tx_head'
      BY <1>1, <1>3, <3>3, <3>4 DEF T!Free
    <3> QED BY <1>0, <1>1, <1>2, <3>1, <3>3, <3>4, <3>5 DEF TxTypes
  <2> QED BY <2>1, <2>2
<1>4. ASSUME NEW n \in 1 .. TxLine, T!Format(n) PROVE TxRing'
  BY <1>0, <1>1, <1>2, <1>4 DEF T!Format, T!fifoVars, T!uartVars, TxTypes
<1>5. CASE T!EchoRest
  <2>1. /\ T!PushHead(todo) /\ todo' = 0 /\ tx_pc' = "kick" /\ todo <= T!Free
        /\ UNCHANGED <<xfersize, tx_dma, tdr, tc, tcie, out>>
    BY <1>0, <1>5 DEF T!EchoRest, T!uartVars, Chained, T!Free
  <2>2. /\ RingHolds(tx_ring', tx_tail', tx_head')
        /\ tx_head' = tx_head + todo /\ taken' = tx_head' /\ tx_tail' = tx_tail
        /\ tx_head' <= tx_tail' + TxSize /\ tx_head' \in Nat
    BY <1>0, <1>1, <2>1, TxPush
  <2> QED BY <1>0, <1>1, <1>2, <2>1, <2>2 DEF TxTypes
<1>6. CASE T!Putc
  <2>1. /\ todo' = todo - 1 /\ tx_pc' = (IF todo = 1 THEN "kick" ELSE "putc") /\ todo > 0
        /\ UNCHANGED <<xfersize, tx_dma, tdr, tc, tcie, out>>
    BY <1>0, <1>6 DEF T!Putc, T!uartVars, Chained
  <2>2. CASE T!Free = 0
    BY <1>0, <1>1, <1>2, <1>6, <2>1, <2>2 DEF T!Putc, T!fifoVars, TxTypes
  <2>3. CASE T!Free # 0
    <3>1. T!PushHead(1) /\ 1 <= T!Free
      BY <1>0, <1>1, <1>6, <2>3 DEF T!Putc, T!Free, TxTypes
    <3>2. /\ RingHolds(tx_ring', tx_tail', tx_head')
          /\ tx_head' = tx_head + 1 /\ taken' = tx_head' /\ tx_tail' = tx_tail
          /\ tx_head' <= tx_tail' + TxSize /\ tx_head' \in Nat
      BY <1>0, <3>1, TxPush
    <3> QED BY <1>0, <1>1, <1>2, <2>1, <3>2 DEF TxTypes
  <2> QED BY <2>2, <2>3
<1>7. CASE T!Kick
  BY <1>0, <1>1, <1>2, <1>7 DEF T!Kick, T!fifoVars, T!uartVars, TxTypes
<1> QED BY <1>3, <1>4, <1>5, <1>6, <1>7 DEF T!Main

(* The handlers and the hardware move the bytes on.                        *)
LEMMA TxMoves ==
  ASSUME TxRing, T!TxBurstDone \/ T!TxComplete \/ T!DmaMove \/ T!Shift
  PROVE  TxRing'
<1>0. /\ TxTypes /\ RingHolds(tx_ring, tx_tail, tx_head) /\ InFlight /\ OnTheWay /\ Chained
  BY DEF TxRing
<1>1. /\ tx_head \in Nat /\ tx_tail \in Nat /\ tx_tail <= tx_head /\ tx_head <= tx_tail + TxSize
      /\ xfersize \in Nat /\ xfersize <= tx_head - tx_tail /\ TxSize \in Nat \ {0}
      /\ tx_dma \in [src : Nat, left : Nat, tcif : BOOLEAN] /\ tx_dma.left \in Nat
      /\ tx_dma.src \in Nat /\ out \in Nat /\ tdr \in Seq(Nat) /\ Len(tdr) \in Nat
  BY <1>0, RingSizes, LenProperties DEF TxTypes
<1>2. tx_tail \in Int /\ (tx_tail % TxSize) \in 0 .. TxSize - 1
  <2>1. tx_tail \in Int
    BY <1>1
  <2> QED BY <1>1, <2>1, ModSplit
<1>3. CASE T!TxBurstDone
  <2>1. /\ tx_dma.tcif /\ tx_dma' = [tx_dma EXCEPT !.tcif = FALSE]
        /\ tx_tail' = tx_tail + xfersize /\ xfersize' = 0
        /\ UNCHANGED <<tx_ring, tx_head, tdr, tc, tcie, tx_pc, todo, taken, out>>
    BY <1>3 DEF T!TxBurstDone, T!uartVars
  <2>2. /\ tx_dma' \in [src : Nat, left : Nat, tcif : BOOLEAN]
        /\ tx_dma'.left = 0 /\ tx_dma.left = 0 /\ ~tx_dma'.tcif
    BY <1>0, <1>1, <2>1 DEF InFlight
  <2>3. TxTypes'
    <3>1. /\ tx_tail' \in Nat /\ tx_tail' <= tx_head /\ tx_head <= tx_tail' + TxSize
          /\ xfersize' <= tx_head - tx_tail'
      <4>1. /\ tx_tail + xfersize \in Nat /\ tx_tail + xfersize <= tx_head
            /\ tx_head <= (tx_tail + xfersize) + TxSize /\ 0 <= tx_head - (tx_tail + xfersize)
        BY <1>1
      <4> QED BY <2>1, <4>1
    <3> QED BY <1>0, <2>1, <2>2, <3>1 DEF TxTypes
  <2>4. RingHolds(tx_ring, tx_tail, tx_head)'
    <3>1. ASSUME NEW i \in Nat, tx_tail' <= i, i < tx_head PROVE tx_ring[i % TxSize] = i + 1
      <4>1. tx_tail <= i
        BY <1>1, <2>1, <3>1
      <4> QED BY <1>0, <3>1, <4>1 DEF RingHolds
    <3> QED BY <2>1, <3>1 DEF RingHolds
  <2>5. InFlight'
    BY <2>1, <2>2 DEF InFlight
  <2>6. OnTheWay'
    BY <1>0, <1>1, <2>1, <2>2 DEF OnTheWay
  <2>7. Chained'
    <3>1. tx_head = tx_tail => xfersize = 0
      BY <1>1
    <3>2. tx_head = tx_tail => tx_head = tx_tail'
      BY <1>1, <2>1, <3>1
    <3>3. tx_pc = "rest" => todo <= tx_tail' + TxSize - tx_head
      <4>1. tx_pc = "rest" => todo <= tx_tail + TxSize - tx_head
        BY <1>0 DEF Chained
      <4>2. todo \in Nat
        BY <1>0 DEF TxTypes
      <4>3. todo <= tx_tail + TxSize - tx_head => todo <= (tx_tail + xfersize) + TxSize - tx_head
        BY <1>1, <4>2
      <4> QED BY <2>1, <4>1, <4>3
    <3> QED BY <1>0, <2>1, <2>2, <3>2, <3>3 DEF Chained
  <2> QED BY <2>3, <2>4, <2>5, <2>6, <2>7 DEF TxRing
<1>4. CASE T!TxComplete
  <2>1. /\ xfersize = 0 /\ ~tx_dma.tcif /\ tc
        /\ UNCHANGED <<tx_ring, tx_head, tx_tail, tdr, tx_pc, todo, taken, out>>
    BY <1>4 DEF T!TxComplete, T!fifoVars
  <2>2. CASE tx_head = tx_tail
    <3>1. tcie' = FALSE /\ UNCHANGED <<tc, xfersize, tx_dma>>
      BY <1>4, <2>2 DEF T!TxComplete
    <3> QED BY <1>0, <2>1, <2>2, <3>1
             DEF TxRing, TxTypes, RingHolds, InFlight, OnTheWay, Chained
  <2>3. CASE tx_head # tx_tail
    <3> DEFINE n == OnePiece(tx_tail, tx_head, TxSize)
    <3>1. n \in Nat /\ n <= tx_head - tx_tail /\ (tx_tail % TxSize) + n <= TxSize /\ n > 0
      BY <1>1, <2>3, PieceFits
    <3>2. T!TailSize = n
      BY DEF T!TailSize, OnePiece
    <3> HIDE DEF n
    <3>3. /\ tc' = FALSE /\ xfersize' = n /\ tcie' = tcie
          /\ tx_dma' = [src |-> tx_tail % TxSize, left |-> n, tcif |-> FALSE]
      BY <1>4, <2>1, <2>3, <3>2 DEF T!TxComplete, T!TxBurst
    <3>4. TxTypes'
      <4>1. tx_dma' \in [src : Nat, left : Nat, tcif : BOOLEAN]
        BY <1>2, <3>1, <3>3
      <4> QED BY <1>0, <2>1, <3>1, <3>3, <4>1 DEF TxTypes
    <3>5. InFlight'
      BY <1>2, <2>1, <3>1, <3>3 DEF InFlight
    <3>6. OnTheWay'
      <4>1. tx_dma.left = 0
        BY <1>0, <1>1, <2>1 DEF InFlight
      <4> QED BY <1>0, <1>1, <2>1, <3>1, <3>3, <4>1 DEF OnTheWay
    <3>7. Chained'
      BY <1>0, <2>1, <2>3, <3>1, <3>3 DEF Chained
    <3>8. RingHolds(tx_ring, tx_tail, tx_head)'
      BY <1>0, <2>1 DEF RingHolds
    <3> QED BY <3>4, <3>5, <3>6, <3>7, <3>8 DEF TxRing
  <2> QED BY <2>2, <2>3
<1>5. CASE T!DmaMove
  <2> DEFINE k == xfersize - tx_dma.left
  <2>1. /\ tx_dma.left > 0
        /\ tx_dma' = [src |-> tx_dma.src + 1, left |-> tx_dma.left - 1, tcif |-> tx_dma.left = 1]
        /\ tdr' = Append(tdr, IF tx_dma.src < TxSize THEN tx_ring[tx_dma.src] ELSE 0)
        /\ tc' \in {FALSE, tc}
        /\ UNCHANGED <<tx_ring, tx_head, tx_tail, xfersize, tcie, tx_pc, todo, taken, out>>
    BY <1>5 DEF T!DmaMove, T!fifoVars
  <2>2. /\ k \in Nat /\ k < xfersize /\ xfersize > 0
        /\ tx_dma.src = (tx_tail % TxSize) + k /\ (tx_tail % TxSize) + xfersize <= TxSize
    BY <1>0, <1>1, <2>1 DEF InFlight
  <2>3. tx_dma.src < TxSize /\ tx_dma.src = (tx_tail + k) % TxSize
    <3>1. (tx_tail % TxSize) + k < TxSize
      BY <1>1, <1>2, <2>2
    <3> HIDE DEF k
    <3>2. (tx_tail + k) % TxSize = (tx_tail % TxSize) + k
      BY <1>1, <1>2, <2>2, <3>1, ModNear
    <3> QED BY <2>2, <3>1, <3>2
  <2>4. tx_ring[tx_dma.src] = tx_tail + k + 1
    <3>1. tx_tail + k \in Nat /\ tx_tail <= tx_tail + k /\ tx_tail + k < tx_head
      <4>1. k < xfersize /\ k \in Nat
        BY <2>2
      <4> HIDE DEF k
      <4> QED BY <1>1, <4>1
    <3> QED BY <1>0, <2>3, <3>1 DEF RingHolds
  <2>5. tdr' = Append(tdr, tx_tail + k + 1) /\ tx_tail + k + 1 \in Nat
    <3>1. (IF tx_dma.src < TxSize THEN tx_ring[tx_dma.src] ELSE 0) = tx_tail + k + 1
      BY <2>3, <2>4
    <3> HIDE DEF k
    <3>2. tx_tail + k + 1 \in Nat
      BY <1>1, <2>2
    <3> QED BY <2>1, <3>1, <3>2
  <2> HIDE DEF k
  <2>6. /\ tdr' \in Seq(Nat) /\ Len(tdr') = Len(tdr) + 1
        /\ \A i \in 1 .. Len(tdr) : tdr'[i] = tdr[i]
        /\ tdr'[Len(tdr) + 1] = tx_tail + k + 1
    BY <1>1, <2>5, AppendProperties
  <2>7. /\ tx_dma' \in [src : Nat, left : Nat, tcif : BOOLEAN]
        /\ tx_dma'.left = tx_dma.left - 1 /\ tx_dma'.tcif = (tx_dma.left = 1)
        /\ tx_dma'.src = tx_dma.src + 1
    BY <1>1, <2>1
  <2>8. TxTypes'
    BY <1>0, <2>1, <2>6, <2>7 DEF TxTypes
  <2>9. InFlight'
    <3>1. tx_dma'.left <= xfersize /\ (tx_dma'.tcif => tx_dma'.left = 0)
      <4>1. tx_dma.left <= xfersize
        BY <1>0 DEF InFlight
      <4>2. tx_dma.left - 1 <= xfersize
        BY <1>1, <4>1
      <4>3. tx_dma'.tcif => tx_dma.left = 1
        BY <2>7
      <4> QED BY <2>7, <4>2, <4>3
    <3>2. ~(tx_dma'.left = 0 /\ ~tx_dma'.tcif)
      BY <1>1, <2>7
    <3>3. tx_dma'.src = (tx_tail % TxSize) + (xfersize - tx_dma'.left)
      <4>1. tx_dma.src = (tx_tail % TxSize) + (xfersize - tx_dma.left)
        BY <2>2 DEF k
      <4> QED BY <1>1, <1>2, <2>7, <4>1
    <3> QED BY <2>1, <2>2, <3>1, <3>2, <3>3 DEF InFlight
  <2>10. OnTheWay'
    <3>1. out + Len(tdr) = tx_tail + k
      BY <1>0 DEF OnTheWay, k
    <3>2. tdr'[Len(tdr) + 1] = out + (Len(tdr) + 1)
      BY <1>1, <2>6, <3>1
    <3>3. \A i \in 1 .. Len(tdr) + 1 : tdr'[i] = out + i
      <4>1. \A i \in 1 .. Len(tdr) : tdr'[i] = out + i
        BY <1>0, <2>6 DEF OnTheWay
      <4>2. ASSUME NEW i \in 1 .. Len(tdr) + 1 PROVE tdr'[i] = out + i
        <5>1. i \in 1 .. Len(tdr) \/ i = Len(tdr) + 1
          BY <1>1, <4>2
        <5> QED BY <3>2, <4>1, <5>1
      <4> QED BY <4>2
    <3>4. out + (Len(tdr) + 1) = tx_tail + (xfersize - (tx_dma.left - 1))
      BY <1>1, <3>1 DEF k
    <3> QED BY <2>1, <2>6, <2>7, <3>3, <3>4 DEF OnTheWay
  <2>11. Chained'
    <3>1. tdr' # <<>>
      BY <1>1, <2>6
    <3> QED BY <1>0, <2>1, <3>1 DEF Chained
  <2>12. RingHolds(tx_ring, tx_tail, tx_head)'
    BY <1>0, <2>1 DEF RingHolds
  <2> QED BY <2>8, <2>9, <2>10, <2>11, <2>12 DEF TxRing
<1>6. CASE T!Shift
  <2>1. /\ tdr # <<>> /\ out' = Head(tdr) /\ tdr' = Tail(tdr) /\ tc' = (tc \/ Len(tdr) = 1)
        /\ UNCHANGED <<tx_ring, tx_head, tx_tail, xfersize, tx_dma, tcie, tx_pc, todo, taken>>
    BY <1>6 DEF T!Shift, T!fifoVars
  <2>2. /\ Len(tdr) > 0 /\ out' = tdr[1] /\ tdr' \in Seq(Nat) /\ Len(tdr') = Len(tdr) - 1
        /\ \A i \in 1 .. Len(tdr) - 1 : tdr'[i] = tdr[i + 1]
    BY <1>1, <2>1, HeadTailProperties
  <2>3. out' = out + 1
    BY <1>0, <1>1, <2>2 DEF OnTheWay
  <2>4. TxTypes'
    BY <1>0, <1>1, <2>1, <2>2, <2>3 DEF TxTypes
  <2>5. OnTheWay'
    <3>1. ASSUME NEW i \in 1 .. Len(tdr) - 1 PROVE tdr'[i] = out' + i
      <4>1. i + 1 \in 1 .. Len(tdr)
        BY <1>1, <3>1
      <4>2. tdr[i + 1] = out + (i + 1)
        BY <1>0, <4>1 DEF OnTheWay
      <4> QED BY <1>1, <2>2, <2>3, <3>1, <4>2
    <3>2. out' + Len(tdr') = out + Len(tdr)
      BY <1>1, <2>2, <2>3
    <3> QED BY <1>0, <2>1, <2>2, <3>1, <3>2 DEF OnTheWay
  <2>6. Chained'
    <3>1. tdr' = <<>> => tc'
      <4>1. tdr' = <<>> => Len(tdr') = 0
        OBVIOUS
      <4>2. tdr' = <<>> => Len(tdr) = 1
        BY <1>1, <2>2, <4>1
      <4> QED BY <2>1, <4>2
    <3> QED BY <1>0, <2>1, <3>1 DEF Chained
  <2>7. InFlight' /\ RingHolds(tx_ring, tx_tail, tx_head)'
    BY <1>0, <2>1 DEF InFlight, RingHolds
  <2> QED BY <2>4, <2>5, <2>6, <2>7 DEF TxRing
<1> QED BY <1>3, <1>4, <1>5, <1>6

LEMMA TxNext == TxRing /\ [T!Next]_(T!vars) => TxRing'
<1> SUFFICES ASSUME TxRing, [T!Next]_(T!vars) PROVE TxRing'
  OBVIOUS
<1>1. CASE UNCHANGED T!vars
  BY <1>1 DEF T!vars, T!fifoVars, T!uartVars,
              TxRing, TxTypes, RingHolds, InFlight, OnTheWay, Chained
<1> QED BY <1>1, TxMain, TxMoves DEF T!Next

LEMMA TxShown == TxRing => T!TxInOrder /\ T!TxRests
<1> SUFFICES ASSUME TxRing PROVE T!TxInOrder /\ T!TxRests
  OBVIOUS
<1>1. T!TxInOrder
  <2>1. tdr \in Seq(Nat) /\ DOMAIN tdr = 1 .. Len(tdr)
    BY LenProperties DEF TxRing, TxTypes
  <2> QED BY <2>1 DEF TxRing, OnTheWay, T!TxInOrder
<1>2. T!TxRests
  <2>1. tx_head = tx_tail => xfersize = 0
    BY DEF TxRing, TxTypes
  <2> QED BY <2>1 DEF TxRing, InFlight, Chained, T!TxRests
<1> QED BY <1>1, <1>2

------------------------------------------------------------------------------
(* The receive side of the console port.                                   *)

Items(f) == {f[i] : i \in 1 .. Len(f)}
Rising(f) == \A i, j \in 1 .. Len(f) : i < j => f[i] < f[j]

(* The cells of the buffer from the a-th to before the z-th byte.          *)
Cells(buffer, a, z) == {buffer[i % RxSize] : i \in a .. z - 1}
RisingCells(buffer, a, z) ==
  \A i, j \in a .. z - 1 : i < j => buffer[i % RxSize] < buffer[j % RxSize]

(* The bytes copied, those in the ring and those in the USART are in order *)
(* and among those after l up to n; what is missing there was dropped.     *)
InOrderOf(f, buffer, a, z, q, l, n) ==
  /\ Rising(f) /\ RisingCells(buffer, a, z) /\ Rising(q)
  /\ Items(f) \subseteq l + 1 .. n /\ Cells(buffer, a, z) \subseteq l + 1 .. n
  /\ Items(q) \subseteq l + 1 .. n
  /\ \A x \in Items(f), y \in Cells(buffer, a, z) : x < y
  /\ \A x \in Items(f), y \in Items(q) : x < y
  /\ \A x \in Cells(buffer, a, z), y \in Items(q) : x < y

Covers(f, buffer, a, z, q, l, n, dropped) ==
  l + 1 .. n \subseteq dropped \union Items(f) \union Cells(buffer, a, z) \union Items(q)

(* The bytes not copied yet begin behind those the reader has looked at    *)
(* and end where the DMA writes, or the handler that drains the USART.     *)
Begin == tail + len
Upto == head + (IF isr = "drain" THEN 0 ELSE dma.size - dma.left)

RxStream ==
  /\ InOrderOf(hand, ring, Begin, Upto, rdr, last, arrived)
  /\ Covers(hand, ring, Begin, Upto, rdr, last, arrived, lost)

RxTypes ==
  /\ arrived \in Nat /\ rdr \in Seq(Nat) /\ armed \in BOOLEAN /\ rtof \in BOOLEAN
  /\ dma \in [on : BOOLEAN, dst : Nat, size : Nat, left : Nat, tcif : BOOLEAN]
  /\ ring \in [0 .. RxSize - 1 -> Nat] /\ head \in Nat /\ tail \in Nat
  /\ isr \in {"none", "stop", "flush", "drain"} /\ pc \in {"look", "pop"}
  /\ hand \in Seq(Nat) /\ len \in Nat /\ part \in 1 .. 2
  /\ last \in Nat /\ last <= arrived

(* The burst lies in one piece of free room at the head, and ends before a *)
(* timeout is flagged or long after it is served.                          *)
RxPlaces ==
  /\ tail + len <= head /\ head <= tail + RxSize
  /\ Len(hand) <= RxChunk /\ (pc = "look" => len = 0)
  /\ dma.left <= dma.size
  /\ dma.on = (isr \in {"none", "stop"})
  /\ isr # "drain" =>
       /\ head + dma.size <= tail + RxSize /\ dma.size > 0
       /\ dma.dst = head % RxSize /\ dma.dst + dma.size <= RxSize
  /\ dma.tcif => dma.left = 0 /\ isr = "none"
  /\ dma.on /\ dma.left = 0 => dma.tcif
  /\ isr \in {"stop", "flush"} => rtof
  /\ rtof => ~dma.tcif
  /\ rtof /\ dma.on => Len(rdr) < dma.left

(* No handler empties the ring under the reader, and a flushed line is     *)
(* flushed to its end.                                                     *)
RxCalm ==
  /\ pc = "pop" /\ isr \in {"stop", "flush"} => head + dma.size + Len(rdr) - tail < RxSize
  /\ pc = "pop" /\ isr = "drain" => head + Len(rdr) - tail < RxSize
  /\ ~armed /\ ~rtof /\ isr = "none" => dma.left = dma.size /\ rdr = <<>>

RxInv == RxTypes /\ RxPlaces /\ RxCalm /\ RxStream

(* What a burst is.                                                        *)
LEMMA BurstFits ==
  ASSUME NEW h \in Nat, NEW t \in Nat, t <= h, h < t + RxSize
  PROVE  /\ R!Burst(h, t) \in Nat /\ R!Burst(h, t) > 0
         /\ h + R!Burst(h, t) <= t + RxSize
         /\ (h % RxSize) \in 0 .. RxSize - 1 /\ (h % RxSize) + R!Burst(h, t) <= RxSize
<1> DEFINE n == OnePiece(h, t + RxSize, RxSize)
<1>0. h \in Int /\ t \in Int /\ t + RxSize \in Nat /\ RxSize \in Nat \ {0} /\ RxSize >= 4
  BY RingSizes
<1>1. n \in Nat /\ n <= t + RxSize - h /\ (h % RxSize) + n <= RxSize /\ n > 0
  <2>1. h <= t + RxSize /\ t + RxSize <= h + RxSize /\ t + RxSize # h
    BY <1>0
  <2> QED BY <1>0, <2>1, PieceFits
<1>2. (t + RxSize) % RxSize = t % RxSize
  <2>1. (t + 1 * RxSize) % RxSize = t % RxSize
    <3>1. 1 \in Int
      OBVIOUS
    <3> QED BY <1>0, <3>1, ModShift
  <2>2. t + 1 * RxSize = t + RxSize
    BY <1>0
  <2> QED BY <2>1, <2>2
<1>3. R!HeadSize(h, t) = n
  BY <1>2, RingSizes DEF R!HeadSize, OnePiece
<1>4. (h % RxSize) \in 0 .. RxSize - 1
  BY <1>0, ModSplit
<1> HIDE DEF n
<1>5. RxSize \div 4 \in Nat /\ RxSize \div 4 > 0
  BY <1>0
<1> QED BY <1>0, <1>1, <1>3, <1>4, <1>5 DEF R!Burst, R!Min2

(* A byte written behind the others, less than a round of the buffer from  *)
(* the first, overwrites none of them.                                     *)
LEMMA CellWrite ==
  ASSUME NEW buffer \in [0 .. RxSize - 1 -> Nat], NEW a \in Nat, NEW z \in Nat,
         a <= z, z < a + RxSize, NEW x \in Nat
  PROVE  LET new == [buffer EXCEPT ![z % RxSize] = x]
         IN  /\ new \in [0 .. RxSize - 1 -> Nat]
             /\ \A i \in a .. z - 1 : new[i % RxSize] = buffer[i % RxSize]
             /\ new[z % RxSize] = x
<1> DEFINE new == [buffer EXCEPT ![z % RxSize] = x]
<1>0. z \in Int /\ RxSize \in Nat \ {0}
  BY RingSizes
<1>1. z % RxSize \in 0 .. RxSize - 1
  BY <1>0, ModSplit
<1>2. new[z % RxSize] = x /\ new \in [0 .. RxSize - 1 -> Nat]
  BY <1>1
<1>3. ASSUME NEW i \in a .. z - 1 PROVE new[i % RxSize] = buffer[i % RxSize]
  <2>1. i \in Int /\ z - i \in 1 .. RxSize - 1
    BY <1>0, <1>3
  <2>2. i % RxSize \in 0 .. RxSize - 1
    BY <1>0, <2>1, ModSplit
  <2>3. (i + (z - i)) % RxSize # i % RxSize
    BY <1>0, <2>1, ModApart
  <2>4. i + (z - i) = z
    BY <1>0, <2>1
  <2> QED BY <1>1, <2>2, <2>3, <2>4
<1> QED BY <1>2, <1>3

(* A byte moved from the USART into the ring.                              *)
LEMMA StreamMove ==
  ASSUME NEW f \in Seq(Nat), NEW buffer \in [0 .. RxSize - 1 -> Nat], NEW a \in Nat, NEW z \in Nat,
         NEW q \in Seq(Nat), NEW l \in Nat, NEW n \in Nat, NEW dropped,
         a <= z, z < a + RxSize, q # <<>>,
         InOrderOf(f, buffer, a, z, q, l, n), Covers(f, buffer, a, z, q, l, n, dropped)
  PROVE  LET new == [buffer EXCEPT ![z % RxSize] = Head(q)]
         IN  /\ new \in [0 .. RxSize - 1 -> Nat]
             /\ Tail(q) \in Seq(Nat) /\ Len(Tail(q)) = Len(q) - 1
             /\ InOrderOf(f, new, a, z + 1, Tail(q), l, n)
             /\ Covers(f, new, a, z + 1, Tail(q), l, n, dropped)
<1> DEFINE x == Head(q)
           new == [buffer EXCEPT ![z % RxSize] = x]
           p == Tail(q)
<1>1. /\ x \in Nat /\ x = q[1] /\ p \in Seq(Nat) /\ Len(p) = Len(q) - 1
      /\ Len(q) \in Nat /\ Len(q) > 0
      /\ \A i \in 1 .. Len(q) - 1 : p[i] = q[i + 1]
  BY HeadTailProperties, LenProperties
<1>2. /\ new \in [0 .. RxSize - 1 -> Nat]
      /\ \A i \in a .. z - 1 : new[i % RxSize] = buffer[i % RxSize]
      /\ new[z % RxSize] = x
  <2>1. x \in Nat
    BY <1>1
  <2> HIDE DEF x
  <2> HIDE <1>1
  <2>2. LET c == [buffer EXCEPT ![z % RxSize] = x]
        IN  /\ c \in [0 .. RxSize - 1 -> Nat]
            /\ \A i \in a .. z - 1 : c[i % RxSize] = buffer[i % RxSize]
            /\ c[z % RxSize] = x
    BY <2>1, CellWrite, SMTT(30)
  <2> QED BY <2>2
<1> HIDE DEF x, new, p
<1>3. Items(q) = {x} \union Items(p) /\ \A y \in Items(p) : x < y
  <2>0. Rising(q)
    BY DEF InOrderOf
  <2>1. \A i \in 1 .. Len(q) - 1 : i + 1 \in 1 .. Len(q) /\ p[i] = q[i + 1] /\ q[1] < q[i + 1]
    <3>1. ASSUME NEW i \in 1 .. Len(q) - 1
          PROVE  i + 1 \in 1 .. Len(q) /\ 1 \in 1 .. Len(q) /\ 1 < i + 1
      BY <1>1, <3>1
    <3> QED BY <1>1, <2>0, <3>1 DEF Rising
  <2>2. \A i \in 1 .. Len(q) : i = 1 \/ (i - 1 \in 1 .. Len(q) - 1 /\ q[i] = p[i - 1])
    <3>1. ASSUME NEW i \in 1 .. Len(q), i # 1 PROVE i - 1 \in 1 .. Len(q) - 1 /\ q[i] = p[i - 1]
      <4>1. i - 1 \in 1 .. Len(q) - 1 /\ (i - 1) + 1 = i
        BY <1>1, <3>1
      <4> QED BY <2>1, <4>1
    <3> QED BY <3>1
  <2>3. 1 \in 1 .. Len(q)
    BY <1>1
  <2>4. Items(q) \subseteq {x} \union Items(p)
    <3>1. ASSUME NEW i \in 1 .. Len(q) PROVE q[i] \in {x} \union Items(p)
      BY <1>1, <2>2, <3>1 DEF Items
    <3> QED BY <3>1 DEF Items
  <2>5. x \in Items(q) /\ Items(p) \subseteq Items(q)
    BY <1>1, <2>1, <2>3 DEF Items
  <2>6. \A y \in Items(p) : x < y
    BY <1>1, <2>1 DEF Items
  <2> QED BY <2>4, <2>5, <2>6
<1>4. Cells(new, a, z + 1) = Cells(buffer, a, z) \union {x}
  <2>1. \A i \in a .. (z + 1) - 1 : i \in a .. z - 1 \/ i = z
    OBVIOUS
  <2>2. \A i \in a .. z - 1 : i \in a .. (z + 1) - 1
    OBVIOUS
  <2>3. z \in a .. (z + 1) - 1
    OBVIOUS
  <2> QED BY <1>2, <2>1, <2>2, <2>3 DEF Cells
<1>5. Rising(p)
  <2>1. ASSUME NEW i \in 1 .. Len(p), NEW j \in 1 .. Len(p), i < j PROVE p[i] < p[j]
    <3>1. i + 1 \in 1 .. Len(q) /\ j + 1 \in 1 .. Len(q) /\ i + 1 < j + 1
      BY <1>1, <2>1
    <3>2. q[i + 1] < q[j + 1]
      BY <3>1 DEF InOrderOf, Rising
    <3>3. p[i] = q[i + 1] /\ p[j] = q[j + 1]
      BY <1>1
    <3> QED BY <3>2, <3>3
  <2> QED BY <2>1 DEF Rising
<1>6. RisingCells(new, a, z + 1)
  <2>0. /\ RisingCells(buffer, a, z) /\ \A y \in Cells(buffer, a, z) : y < x
    BY <1>3 DEF InOrderOf
  <2>1. ASSUME NEW i \in a .. (z + 1) - 1, NEW j \in a .. (z + 1) - 1, i < j
        PROVE  new[i % RxSize] < new[j % RxSize]
    <3>1. /\ i \in a .. z - 1 /\ new[i % RxSize] = buffer[i % RxSize]
          /\ buffer[i % RxSize] \in Cells(buffer, a, z)
      <4>1. i \in a .. z - 1
        BY <2>1
      <4> QED BY <1>2, <4>1 DEF Cells
    <3>2. CASE j = z
      BY <1>2, <2>0, <3>1, <3>2
    <3>3. CASE j # z
      <4>1. j \in a .. z - 1
        BY <2>1, <3>3
      <4> QED BY <1>2, <2>0, <2>1, <3>1, <4>1 DEF RisingCells
    <3> QED BY <3>2, <3>3
  <2> QED BY <2>1 DEF RisingCells
<1>7. InOrderOf(f, new, a, z + 1, p, l, n)
  BY <1>3, <1>4, <1>5, <1>6 DEF InOrderOf
<1>8. Covers(f, new, a, z + 1, p, l, n, dropped)
  BY <1>3, <1>4 DEF Covers
<1> QED BY <1>1, <1>2, <1>7, <1>8 DEF x, new, p

(* The bytes in the ring are dropped, and counted.                         *)
LEMMA StreamDrop ==
  ASSUME NEW f, NEW buffer, NEW a \in Nat, NEW z \in Nat, NEW q, NEW l \in Nat, NEW n \in Nat,
         NEW dropped,
         InOrderOf(f, buffer, a, z, q, l, n), Covers(f, buffer, a, z, q, l, n, dropped)
  PROVE  /\ InOrderOf(f, buffer, 0, 0, q, l, n)
         /\ Covers(f, buffer, 0, 0, q, l, n, dropped \union Cells(buffer, a, z))
<1>1. Cells(buffer, 0, 0) = {} /\ RisingCells(buffer, 0, 0)
  <2>1. 0 .. 0 - 1 = {}
    OBVIOUS
  <2> QED BY <2>1 DEF Cells, RisingCells
<1> QED BY <1>1 DEF InOrderOf, Covers

(* The burst is taken into the ring, or the full ring is emptied first,    *)
(* and a burst started at the head (serial_dma_rx_start).                  *)
LEMMA StartKeeps ==
  ASSUME RxTypes, RxPlaces, RxStream, NEW h \in Nat, h = Upto, dma.left = 0 \/ isr = "drain",
         tail + len <= h, h <= tail + RxSize, pc = "pop" => h < tail + RxSize,
         isr' = "none", R!StartRx(h, FALSE), UNCHANGED <<arrived, rdr, ring, hand, last, len>>
  PROVE  /\ head' \in Nat /\ tail' \in Nat /\ tail' + len' <= head'
         /\ head' + dma'.size <= tail' + RxSize /\ dma'.size > 0
         /\ dma'.dst = head' % RxSize /\ dma'.dst + dma'.size <= RxSize
         /\ dma' \in [on : BOOLEAN, dst : Nat, size : Nat, left : Nat, tcif : BOOLEAN]
         /\ dma'.on /\ dma'.left = dma'.size /\ ~dma'.tcif
         /\ RxStream'
<1> DEFINE full == h = tail + RxSize
           h1 == IF full THEN 0 ELSE h
           t1 == IF full THEN 0 ELSE tail
           n == R!Burst(h1, t1)
<1>0. tail \in Nat /\ len \in Nat /\ RxSize \in Nat \ {0} /\ last \in Nat /\ arrived \in Nat
  BY RingSizes DEF RxTypes
<1>1. /\ head' = h1 /\ tail' = t1
      /\ lost' = IF full THEN lost \union R!Content(h) ELSE lost
      /\ dma' = [on |-> TRUE, dst |-> h1 % RxSize, size |-> n, left |-> n, tcif |-> FALSE]
  BY DEF R!StartRx
<1>2. h1 \in Nat /\ t1 \in Nat /\ t1 <= h1 /\ h1 < t1 + RxSize
  BY <1>0
<1>3. full => len = 0 /\ pc = "look"
  BY <1>0 DEF RxPlaces, RxTypes
<1>4. t1 + len <= h1
  BY <1>0, <1>3
<1>5. /\ n \in Nat /\ n > 0 /\ h1 + n <= t1 + RxSize
      /\ (h1 % RxSize) \in 0 .. RxSize - 1 /\ (h1 % RxSize) + n <= RxSize
  <2> HIDE DEF h1, t1
  <2> QED BY <1>2, BurstFits
<1>6. /\ dma'.size = n /\ dma'.left = n /\ dma'.on /\ ~dma'.tcif /\ dma'.dst = h1 % RxSize
      /\ dma' \in [on : BOOLEAN, dst : Nat, size : Nat, left : Nat, tcif : BOOLEAN]
  <2> HIDE DEF n, h1
  <2> QED BY <1>1, <1>5
<1>7. Begin' = t1 + len /\ Upto' = h1
  <2> HIDE DEF n, h1, t1
  <2> QED BY <1>1, <1>2, <1>5, <1>6 DEF Begin, Upto
<1>8. RxStream'
  <2>1. CASE full
    <3>1. R!Content(h) = Cells(ring, Begin, Upto)
      <4>1. Begin = tail
        BY <1>0, <1>3, <2>1 DEF Begin
      <4> QED BY <4>1 DEF R!Content, Cells
    <3>2. Begin' = 0 /\ Upto' = 0
      BY <1>0, <1>3, <1>7, <2>1
    <3>3. Begin \in Nat /\ Upto \in Nat
      BY <1>0 DEF Begin
    <3>4. /\ InOrderOf(hand, ring, 0, 0, rdr, last, arrived)
          /\ Covers(hand, ring, 0, 0, rdr, last, arrived, lost \union Cells(ring, Begin, Upto))
      BY <1>0, <3>3, StreamDrop DEF RxStream
    <3>5. lost' = lost \union Cells(ring, Begin, Upto)
      BY <1>1, <2>1, <3>1
    <3> QED BY <3>2, <3>4, <3>5 DEF RxStream
  <2>2. CASE ~full
    <3>1. Begin' = Begin /\ Upto' = Upto /\ lost' = lost
      BY <1>1, <1>7, <2>2 DEF Begin
    <3> QED BY <3>1 DEF RxStream
  <2> QED BY <2>1, <2>2
<1>9. /\ head' = h1 /\ tail' = t1 /\ len' = len
  BY <1>1
<1> HIDE DEF n, h1, t1, full
<1> QED BY <1>2, <1>4, <1>5, <1>6, <1>8, <1>9

LEMMA RxStart == R!Init => RxInv
<1> SUFFICES ASSUME R!Init PROVE RxInv
  OBVIOUS
<1> DEFINE n == R!Burst(0, 0)
<1>0. n \in Nat /\ n > 0 /\ n <= RxSize /\ 0 % RxSize = 0 /\ RxSize \in Nat \ {0} /\ RxChunk \in Nat
  <2>1. 0 \in Nat /\ 0 < 0 + RxSize /\ 0 <= 0 /\ 0 \in -RxSize .. RxSize - 1
    BY RingSizes
  <2>2. n \in Nat /\ n > 0 /\ 0 + n <= 0 + RxSize
    BY <2>1, BurstFits
  <2>3. 0 % RxSize = 0
    BY <2>1, ModSmall, RingSizes
  <2> HIDE DEF n
  <2> QED BY <2>2, <2>3, RingSizes
<1>1. /\ arrived = 0 /\ rdr = <<>> /\ armed = FALSE /\ rtof = FALSE
      /\ ring = [i \in 0 .. RxSize - 1 |-> 0] /\ head = 0 /\ tail = 0
      /\ dma = [on |-> TRUE, dst |-> 0, size |-> n, left |-> n, tcif |-> FALSE]
      /\ isr = "none" /\ pc = "look" /\ hand = <<>> /\ len = 0 /\ part = 1
      /\ last = 0 /\ lost = {}
  BY DEF R!Init
<1> HIDE DEF n
<1>2. /\ dma \in [on : BOOLEAN, dst : Nat, size : Nat, left : Nat, tcif : BOOLEAN]
      /\ dma.size = n /\ dma.left = n /\ dma.on = TRUE /\ dma.tcif = FALSE /\ dma.dst = 0
  BY <1>0, <1>1
<1>3. RxTypes
  <2>1. ring \in [0 .. RxSize - 1 -> Nat] /\ rdr \in Seq(Nat) /\ hand \in Seq(Nat)
    BY <1>1, EmptySeq
  <2>2. /\ arrived = 0 /\ head = 0 /\ tail = 0 /\ len = 0 /\ part = 1 /\ last = 0
    BY <1>1
  <2>3. /\ arrived \in Nat /\ head \in Nat /\ tail \in Nat /\ len \in Nat /\ part \in 1 .. 2
        /\ last \in Nat /\ last <= arrived
    BY <2>2
  <2>4. /\ armed \in BOOLEAN /\ rtof \in BOOLEAN
        /\ isr \in {"none", "stop", "flush", "drain"} /\ pc \in {"look", "pop"}
    BY <1>1
  <2> QED BY <1>2, <2>1, <2>3, <2>4 DEF RxTypes
<1>4. RxPlaces /\ RxCalm
  <2>1. Len(rdr) = 0 /\ Len(hand) = 0
    BY <1>1
  <2>2. /\ head = 0 /\ tail = 0 /\ len = 0 /\ isr = "none" /\ pc = "look" /\ ~rtof /\ ~armed
        /\ rdr = <<>>
    BY <1>1
  <2> QED BY <1>0, <1>2, <2>1, <2>2 DEF RxPlaces, RxCalm
<1>5. RxStream
  <2>1. Begin = 0 /\ Upto = 0
    BY <1>0, <1>1, <1>2 DEF Begin, Upto
  <2>2. Items(rdr) = {} /\ Items(hand) = {} /\ Rising(rdr) /\ Rising(hand)
    BY <1>1 DEF Items, Rising
  <2>3. Cells(ring, 0, 0) = {} /\ RisingCells(ring, 0, 0) /\ last + 1 .. arrived = {}
    BY <1>1 DEF Cells, RisingCells
  <2> QED BY <2>1, <2>2, <2>3 DEF RxStream, InOrderOf, Covers
<1> QED BY <1>3, <1>4, <1>5 DEF RxInv

(* The ranges every step starts from.                                      *)
LEMMA RxFacts ==
  ASSUME RxTypes, RxPlaces
  PROVE  /\ arrived \in Nat /\ head \in Nat /\ tail \in Nat /\ len \in Nat /\ last \in Nat
         /\ rdr \in Seq(Nat) /\ Len(rdr) \in Nat /\ (Len(rdr) = 0) = (rdr = <<>>)
         /\ hand \in Seq(Nat) /\ Len(hand) \in Nat
         /\ dma.on \in BOOLEAN /\ dma.tcif \in BOOLEAN
         /\ dma.dst \in Nat /\ dma.size \in Nat /\ dma.left \in Nat /\ dma.left <= dma.size
         /\ RxSize \in Nat /\ RxSize > 0 /\ tail + len <= head /\ head <= tail + RxSize
<1>1. /\ Len(rdr) \in Nat /\ (Len(rdr) = 0) = (rdr = <<>>) /\ Len(hand) \in Nat
  BY LenProperties, EmptySeq DEF RxTypes
<1>2. RxSize \in Nat /\ RxSize > 0
  BY RingSizes
<1> QED BY <1>1, <1>2 DEF RxTypes, RxPlaces

(* A byte more in the USART, or lost there.                                *)
LEMMA StreamArrive ==
  ASSUME NEW f, NEW buffer, NEW a, NEW z, NEW q \in Seq(Nat), NEW l \in Nat, NEW n \in Nat, l <= n,
         NEW dropped,
         InOrderOf(f, buffer, a, z, q, l, n), Covers(f, buffer, a, z, q, l, n, dropped)
  PROVE  /\ Append(q, n + 1) \in Seq(Nat) /\ Len(Append(q, n + 1)) = Len(q) + 1
         /\ InOrderOf(f, buffer, a, z, Append(q, n + 1), l, n + 1)
         /\ Covers(f, buffer, a, z, Append(q, n + 1), l, n + 1, dropped)
         /\ InOrderOf(f, buffer, a, z, q, l, n + 1)
         /\ Covers(f, buffer, a, z, q, l, n + 1, dropped \union {n + 1})
<1> DEFINE p == Append(q, n + 1)
<1>1. /\ p \in Seq(Nat) /\ Len(p) = Len(q) + 1 /\ Len(q) \in Nat
      /\ \A i \in 1 .. Len(q) : p[i] = q[i]
      /\ p[Len(q) + 1] = n + 1
  BY AppendProperties, LenProperties
<1> HIDE DEF p
<1>2. l + 1 .. n + 1 = (l + 1 .. n) \union {n + 1}
  OBVIOUS
<1>3. Items(p) = Items(q) \union {n + 1}
  <2>1. \A i \in 1 .. Len(p) : i \in 1 .. Len(q) \/ i = Len(q) + 1
    BY <1>1
  <2>2. /\ \A i \in 1 .. Len(q) : i \in 1 .. Len(p)
        /\ Len(q) + 1 \in 1 .. Len(p)
    BY <1>1
  <2>3. Items(p) \subseteq Items(q) \union {n + 1}
    BY <1>1, <2>1 DEF Items
  <2>4. Items(q) \subseteq Items(p) /\ n + 1 \in Items(p)
    BY <1>1, <2>2 DEF Items
  <2> QED BY <2>3, <2>4
<1>4. \A x \in l + 1 .. n : x < n + 1
  OBVIOUS
<1>5. Rising(p)
  <2>1. ASSUME NEW i \in 1 .. Len(p), NEW j \in 1 .. Len(p), i < j PROVE p[i] < p[j]
    <3>1. i \in 1 .. Len(q) /\ p[i] = q[i] /\ q[i] \in Items(q)
      <4>1. i \in 1 .. Len(q)
        BY <1>1, <2>1
      <4> QED BY <1>1, <4>1 DEF Items
    <3>2. CASE j \in 1 .. Len(q)
      BY <1>1, <2>1, <3>1, <3>2 DEF InOrderOf, Rising
    <3>3. CASE j = Len(q) + 1
      BY <1>1, <1>4, <3>1, <3>3 DEF InOrderOf
    <3> QED BY <1>1, <3>2, <3>3
  <2> QED BY <2>1 DEF Rising
<1>6. InOrderOf(f, buffer, a, z, p, l, n + 1)
  <2>1. Items(f) \subseteq l + 1 .. n /\ Cells(buffer, a, z) \subseteq l + 1 .. n
    BY DEF InOrderOf
  <2>2. \A x \in Items(f) \union Cells(buffer, a, z) : x < n + 1
    BY <1>4, <2>1
  <2> QED BY <1>2, <1>3, <1>5, <2>2 DEF InOrderOf
<1>7. Covers(f, buffer, a, z, p, l, n + 1, dropped)
  BY <1>2, <1>3 DEF Covers
<1>8. /\ InOrderOf(f, buffer, a, z, q, l, n + 1)
      /\ Covers(f, buffer, a, z, q, l, n + 1, dropped \union {n + 1})
  BY <1>2 DEF InOrderOf, Covers
<1> QED BY <1>1, <1>6, <1>7, <1>8 DEF p

LEMMA RxArrive == RxInv /\ R!Arrive => RxInv'
<1> SUFFICES ASSUME RxInv, R!Arrive PROVE RxInv'
  OBVIOUS
<1>0. RxTypes /\ RxPlaces /\ RxCalm /\ RxStream
  BY DEF RxInv
<1>1. /\ arrived' = arrived + 1 /\ armed' = TRUE
      /\ \/ rdr' = Append(rdr, arrived + 1) /\ lost' = lost
         \/ lost' = lost \union {arrived + 1} /\ rdr' = rdr
      /\ UNCHANGED <<rtof, dma, ring, head, tail, isr, pc, hand, len, part, last>>
      /\ R!Apart /\ (isr # "none" => R!Steady')
  BY DEF R!Arrive, R!fifoVars, R!mainVars
<1>2. Begin' = Begin /\ Upto' = Upto
  BY <1>1 DEF Begin, Upto
<1>3. /\ rdr' \in Seq(Nat) /\ RxStream'
  <2>1. last \in Nat /\ arrived \in Nat /\ last <= arrived /\ rdr \in Seq(Nat)
    BY <1>0 DEF RxTypes
  <2>2. /\ InOrderOf(hand, ring, Begin, Upto, rdr, last, arrived)
        /\ Covers(hand, ring, Begin, Upto, rdr, last, arrived, lost)
    BY <1>0 DEF RxStream
  <2>3. /\ Append(rdr, arrived + 1) \in Seq(Nat)
        /\ InOrderOf(hand, ring, Begin, Upto, Append(rdr, arrived + 1), last, arrived + 1)
        /\ Covers(hand, ring, Begin, Upto, Append(rdr, arrived + 1), last, arrived + 1, lost)
        /\ InOrderOf(hand, ring, Begin, Upto, rdr, last, arrived + 1)
        /\ Covers(hand, ring, Begin, Upto, rdr, last, arrived + 1, lost \union {arrived + 1})
    BY <2>1, <2>2, StreamArrive
  <2>4. /\ rdr' \in Seq(Nat)
        /\ InOrderOf(hand, ring, Begin, Upto, rdr', last, arrived')
        /\ Covers(hand, ring, Begin, Upto, rdr', last, arrived', lost')
    BY <1>1, <2>1, <2>3
  <2> QED BY <1>1, <1>2, <2>4 DEF RxStream
<1>4. RxTypes'
  <2>1. arrived' \in Nat /\ last <= arrived'
    BY <1>0, <1>1, RxFacts DEF RxTypes
  <2> QED BY <1>0, <1>1, <1>3, <2>1 DEF RxTypes
<1>5. RxPlaces'
  BY <1>0, <1>1 DEF RxPlaces, R!Apart
<1>6. RxCalm'
  <2>0. Len(rdr') \in Nat
    BY <1>3, LenProperties
  <2>1. isr # "none" /\ pc = "pop" => head + dma.size + Len(rdr') - tail < RxSize
    BY <1>1 DEF R!Steady
  <2>2. isr # "none" /\ pc = "pop" => head + Len(rdr') - tail < RxSize
    <3>1. head \in Nat /\ tail \in Nat /\ dma.size \in Nat /\ RxSize \in Nat
      BY <1>0, RxFacts
    <3> QED BY <2>0, <2>1, <3>1
  <2> QED BY <1>1, <2>1, <2>2 DEF RxCalm
<1> QED BY <1>3, <1>4, <1>5, <1>6 DEF RxInv

(* The place the DMA writes is that of the byte that follows.              *)
LEMMA BurstPlace ==
  ASSUME RxTypes, RxPlaces, isr # "drain", NEW k \in Nat, k < dma.size
  PROVE  (dma.dst + k) % RxSize = (head + k) % RxSize
<1>1. /\ dma.dst = head % RxSize /\ dma.dst + dma.size <= RxSize /\ RxSize \in Nat \ {0}
      /\ head \in Int /\ dma.dst \in Nat /\ dma.size \in Nat
  BY RxFacts DEF RxPlaces
<1>2. dma.dst + k < RxSize /\ dma.dst + k \in -RxSize .. RxSize - 1 /\ dma.dst + k >= 0
  BY <1>1
<1>3. (head + k) % RxSize = dma.dst + k
  BY <1>1, <1>2, ModNear
<1>4. (dma.dst + k) % RxSize = dma.dst + k
  BY <1>1, <1>2, ModSmall
<1> QED BY <1>3, <1>4

LEMMA RxDmaMove == RxInv /\ R!DmaMove => RxInv'
<1> SUFFICES ASSUME RxInv, R!DmaMove PROVE RxInv'
  OBVIOUS
<1>0. RxTypes /\ RxPlaces /\ RxCalm /\ RxStream
  BY DEF RxInv
<1> DEFINE k == dma.size - dma.left
           cell == (dma.dst + dma.size - dma.left) % RxSize
<1>1. /\ rdr # <<>> /\ dma.on /\ dma.left > 0 /\ rdr' = Tail(rdr)
      /\ ring' = [ring EXCEPT ![cell] = Head(rdr)]
      /\ dma' = [dma EXCEPT !.left = @ - 1, !.tcif = @ \/ dma.left = 1]
      /\ UNCHANGED <<arrived, armed, rtof, head, tail, isr, pc, hand, len, part, last, lost>>
  BY DEF R!DmaMove, R!DmaReady, R!mainVars
<1>2. isr \in {"none", "stop"}
  BY <1>0, <1>1 DEF RxPlaces
<1>3. /\ Begin \in Nat /\ Upto \in Nat /\ Upto = head + k /\ Begin <= Upto
      /\ Upto < Begin + RxSize /\ k \in Nat /\ k < dma.size
      /\ dma.dst + dma.size - dma.left = dma.dst + k
  <2>1. /\ head \in Nat /\ tail \in Nat /\ len \in Nat /\ tail + len <= head
        /\ dma.dst \in Nat /\ dma.size \in Nat /\ dma.left \in Nat /\ dma.left <= dma.size
        /\ RxSize \in Nat
    BY <1>0, RxFacts
  <2>2. head + dma.size <= tail + RxSize
    BY <1>0, <1>2 DEF RxPlaces
  <2>3. Begin = tail + len /\ Upto = head + (dma.size - dma.left)
    BY <1>2 DEF Begin, Upto
  <2>4. dma.left > 0
    BY <1>1
  <2> QED BY <2>1, <2>2, <2>3, <2>4
<1>4. cell = Upto % RxSize
  <2>1. (dma.dst + k) % RxSize = (head + k) % RxSize
    BY <1>0, <1>2, <1>3, BurstPlace
  <2> QED BY <1>3, <2>1
<1> HIDE DEF cell, k
<1>5. /\ dma' \in [on : BOOLEAN, dst : Nat, size : Nat, left : Nat, tcif : BOOLEAN]
      /\ dma'.on = dma.on /\ dma'.dst = dma.dst /\ dma'.size = dma.size
      /\ dma'.left = dma.left - 1 /\ dma'.tcif = (dma.tcif \/ dma.left = 1)
  <2>1. dma.left - 1 \in Nat
    <3>1. dma.left \in Nat /\ dma.left > 0
      BY <1>0, <1>1 DEF RxTypes
    <3> QED BY <3>1
  <2> QED BY <1>0, <1>1, <2>1 DEF RxTypes
<1>6. Begin' = Begin /\ Upto' = Upto + 1
  <2>1. head \in Nat /\ dma.size \in Nat /\ dma.left \in Nat
    BY <1>0, RxFacts
  <2>2. Begin' = Begin
    BY <1>1 DEF Begin
  <2>3. Upto' = head + (dma.size - (dma.left - 1)) /\ Upto = head + (dma.size - dma.left)
    BY <1>1, <1>2, <1>5 DEF Upto
  <2> QED BY <2>1, <2>2, <2>3
<1>7. /\ ring' \in [0 .. RxSize - 1 -> Nat] /\ rdr' \in Seq(Nat) /\ Len(rdr') = Len(rdr) - 1
      /\ InOrderOf(hand, ring', Begin, Upto + 1, rdr', last, arrived)
      /\ Covers(hand, ring', Begin, Upto + 1, rdr', last, arrived, lost)
  <2>1. ring' = [ring EXCEPT ![Upto % RxSize] = Head(rdr)]
    BY <1>1, <1>4
  <2>2. /\ hand \in Seq(Nat) /\ ring \in [0 .. RxSize - 1 -> Nat] /\ rdr \in Seq(Nat)
        /\ last \in Nat /\ arrived \in Nat
    BY <1>0 DEF RxTypes
  <2>3. /\ InOrderOf(hand, ring, Begin, Upto, rdr, last, arrived)
        /\ Covers(hand, ring, Begin, Upto, rdr, last, arrived, lost)
    BY <1>0 DEF RxStream
  <2>4. Begin \in Nat /\ Upto \in Nat /\ Begin <= Upto /\ Upto < Begin + RxSize /\ rdr # <<>>
    BY <1>1, <1>3
  <2> HIDE <1>0, <1>1, <1>3, <1>4
  <2>5. LET new == [ring EXCEPT ![Upto % RxSize] = Head(rdr)]
        IN  /\ new \in [0 .. RxSize - 1 -> Nat]
            /\ Tail(rdr) \in Seq(Nat) /\ Len(Tail(rdr)) = Len(rdr) - 1
            /\ InOrderOf(hand, new, Begin, Upto + 1, Tail(rdr), last, arrived)
            /\ Covers(hand, new, Begin, Upto + 1, Tail(rdr), last, arrived, lost)
    BY <2>2, <2>3, <2>4, StreamMove
  <2> QED BY <1>1, <2>1, <2>5
<1>8. RxStream'
  BY <1>1, <1>6, <1>7 DEF RxStream
<1>9. RxTypes'
  BY <1>0, <1>1, <1>5, <1>7 DEF RxTypes
<1>10. RxPlaces'
  <2>1. /\ dma.left \in Nat /\ dma.size \in Nat /\ Len(rdr) \in Nat /\ Len(rdr) > 0
    BY <1>0, <1>1, RxFacts
  <2>2. ~dma.tcif /\ (rtof => dma.left > 1) /\ dma.left <= dma.size
    BY <1>0, <1>1, <2>1 DEF RxPlaces
  <2>3. isr = "none" \/ rtof
    BY <1>0, <1>2 DEF RxPlaces
  <2>4. /\ dma'.left <= dma'.size /\ (dma'.tcif => dma'.left = 0 /\ isr = "none")
        /\ (dma'.left = 0 => dma'.tcif) /\ (rtof => ~dma'.tcif)
        /\ (rtof => Len(rdr') < dma'.left)
    <3>1. rtof => Len(rdr) < dma.left
      BY <1>0, <1>1 DEF RxPlaces
    <3>2. dma'.tcif <=> dma.left = 1
      BY <1>5, <2>2, Zenon
    <3>3. /\ dma'.left = dma.left - 1 /\ dma'.size = dma.size
          /\ Len(rdr') = Len(rdr) - 1 /\ dma.left > 0
      BY <1>1, <1>5, <1>7
    <3> QED BY <2>1, <2>2, <2>3, <3>1, <3>2, <3>3
  <2> QED BY <1>0, <1>1, <1>5, <2>4 DEF RxPlaces
<1>11. RxCalm'
  <2>1. pc = "pop" /\ isr \in {"stop", "flush"} => head + dma.size + (Len(rdr) - 1) - tail < RxSize
    <3>1. /\ head \in Nat /\ tail \in Nat /\ dma.size \in Nat /\ RxSize \in Nat
          /\ Len(rdr) \in Nat
      BY <1>0, RxFacts
    <3>2. pc = "pop" /\ isr \in {"stop", "flush"} => head + dma.size + Len(rdr) - tail < RxSize
      BY <1>0 DEF RxCalm
    <3> QED BY <3>1, <3>2
  <2> QED BY <1>0, <1>1, <1>2, <1>5, <1>7, <2>1 DEF RxCalm
<1> QED BY <1>8, <1>9, <1>10, <1>11 DEF RxInv

LEMMA RxTimeout == RxInv /\ R!Timeout => RxInv'
<1> SUFFICES ASSUME RxInv, R!Timeout PROVE RxInv'
  OBVIOUS
<1>0. RxTypes /\ RxPlaces /\ RxCalm /\ RxStream
  BY DEF RxInv
<1>1. /\ armed' = FALSE /\ rtof' = TRUE /\ R!Apart
      /\ UNCHANGED <<arrived, rdr, dma, ring, head, tail, isr, pc, hand, len, part, last, lost>>
  BY DEF R!Timeout, R!fifoVars, R!mainVars
<1>2. RxTypes' /\ RxCalm'
  BY <1>0, <1>1 DEF RxTypes, RxCalm
<1>3. RxPlaces'
  BY <1>0, <1>1 DEF RxPlaces, R!Apart
<1>4. RxStream'
  BY <1>0, <1>1 DEF RxStream, Begin, Upto
<1> QED BY <1>2, <1>3, <1>4 DEF RxInv

(* The handlers.                                                           *)
LEMMA RxHandler ==
  ASSUME RxInv, R!RxBurstDone \/ R!Usart \/ R!RxStop \/ R!RxFlush \/ R!RxRestart
  PROVE  RxInv'
<1>0. RxTypes /\ RxPlaces /\ RxCalm /\ RxStream
  BY DEF RxInv
<1>1. /\ head \in Nat /\ tail \in Nat /\ len \in Nat /\ Len(rdr) \in Nat
      /\ dma.size \in Nat /\ dma.left \in Nat /\ dma.left <= dma.size
      /\ RxSize \in Nat /\ RxSize > 0 /\ tail + len <= head /\ head <= tail + RxSize
      /\ (Len(rdr) = 0) = (rdr = <<>>)
  BY <1>0, RxFacts
(* A burst started by StartKeeps.                                          *)
<1>2. ASSUME isr' = "none",
             UNCHANGED <<arrived, rdr, armed, rtof, ring, pc, hand, len, part, last>>,
             head' \in Nat, tail' \in Nat, tail' + len' <= head',
             head' + dma'.size <= tail' + RxSize, dma'.size > 0,
             dma'.dst = head' % RxSize, dma'.dst + dma'.size <= RxSize,
             dma' \in [on : BOOLEAN, dst : Nat, size : Nat, left : Nat, tcif : BOOLEAN],
             dma'.on, dma'.left = dma'.size, ~dma'.tcif,
             rtof => rdr = <<>>, ~armed /\ ~rtof => rdr = <<>>, RxStream'
      PROVE  RxInv'
  <2>1. RxTypes'
    BY <1>0, <1>2 DEF RxTypes
  <2>2. RxPlaces'
    <3> DEFINE h == head'
               t == tail'
               d == dma'
    <3>1. h \in Nat /\ t \in Nat /\ d.size \in Nat /\ d.size > 0 /\ h + d.size <= t + RxSize
      BY <1>2
    <3> HIDE DEF h, t, d
    <3>2. h <= t + RxSize
      BY <1>1, <3>1
    <3>3. d.size # 0 /\ d.size <= d.size
      BY <3>1
    <3>4. rtof' /\ dma'.on => Len(rdr') < dma'.left
      BY <1>1, <1>2, <3>1 DEF d
    <3>5. /\ Len(hand) <= RxChunk /\ (pc = "look" => len = 0)
      BY <1>0 DEF RxPlaces
    <3> QED BY <1>2, <3>1, <3>2, <3>3, <3>4, <3>5 DEF RxPlaces, h, t, d
  <2>3. RxCalm'
    BY <1>2 DEF RxCalm
  <2> QED BY <1>2, <2>1, <2>2, <2>3 DEF RxInv
<1>3. CASE R!RxBurstDone
  <2>1. /\ isr = "none" /\ dma.tcif /\ R!Steady /\ R!StartRx(head + dma.size, FALSE)
        /\ UNCHANGED <<arrived, rdr, armed, rtof, ring, isr, pc, hand, len, part, last>>
    BY <1>3 DEF R!RxBurstDone, R!lineVars, R!mainVars
  <2>2. dma.left = 0 /\ ~rtof /\ dma.size > 0 /\ head + dma.size <= tail + RxSize
    BY <1>0, <2>1 DEF RxPlaces
  <2>3. ~(~armed /\ ~rtof)
    BY <1>0, <2>1, <2>2 DEF RxCalm
  <2>4. head + dma.size = Upto
    BY <1>1, <2>1, <2>2 DEF Upto
  <2>5. pc = "pop" => head + dma.size < tail + RxSize
    <3>1. pc = "pop" => head + dma.size + Len(rdr) - tail < RxSize
      BY <2>1 DEF R!Steady
    <3> QED BY <1>1, <3>1
  <2>6. head + dma.size \in Nat /\ tail + len <= head + dma.size
    BY <1>1
  <2>7. isr' = "none"
    BY <2>1
  <2>8. /\ head' \in Nat /\ tail' \in Nat /\ tail' + len' <= head'
        /\ head' + dma'.size <= tail' + RxSize /\ dma'.size > 0
        /\ dma'.dst = head' % RxSize /\ dma'.dst + dma'.size <= RxSize
        /\ dma' \in [on : BOOLEAN, dst : Nat, size : Nat, left : Nat, tcif : BOOLEAN]
        /\ dma'.on /\ dma'.left = dma'.size /\ ~dma'.tcif
        /\ RxStream'
    <3> DEFINE h == head + dma.size
    <3>1. /\ h \in Nat /\ h = Upto /\ tail + len <= h /\ h <= tail + RxSize
          /\ (pc = "pop" => h < tail + RxSize)
          /\ R!StartRx(h, FALSE)
      BY <2>1, <2>2, <2>4, <2>5, <2>6
    <3> HIDE DEF h
    <3> QED BY <1>0, <2>1, <2>2, <2>7, <3>1, StartKeeps
  <2> QED BY <1>2, <2>1, <2>2, <2>3, <2>7, <2>8
<1>4. CASE R!RxRestart
  <2>1. /\ isr = "drain" /\ rdr = <<>> /\ isr' = "none" /\ R!StartRx(head, dma.tcif)
        /\ UNCHANGED <<arrived, rdr, armed, rtof, ring, pc, hand, len, part, last>>
    BY <1>4 DEF R!RxRestart, R!lineVars, R!mainVars
  <2>2. dma.tcif = FALSE
    <3>1. dma.tcif \in BOOLEAN /\ ~dma.tcif
      BY <1>0, <2>1, RxFacts DEF RxPlaces
    <3> QED BY <3>1
  <2>3. R!StartRx(head, FALSE)
    BY <2>1, <2>2
  <2>4. head = Upto
    BY <1>1, <2>1 DEF Upto
  <2>5. pc = "pop" => head < tail + RxSize
    <3>1. pc = "pop" => head + Len(rdr) - tail < RxSize
      BY <1>0, <2>1 DEF RxCalm
    <3> QED BY <1>1, <3>1
  <2>6. /\ head' \in Nat /\ tail' \in Nat /\ tail' + len' <= head'
        /\ head' + dma'.size <= tail' + RxSize /\ dma'.size > 0
        /\ dma'.dst = head' % RxSize /\ dma'.dst + dma'.size <= RxSize
        /\ dma' \in [on : BOOLEAN, dst : Nat, size : Nat, left : Nat, tcif : BOOLEAN]
        /\ dma'.on /\ dma'.left = dma'.size /\ ~dma'.tcif
        /\ RxStream'
    BY <1>0, <1>1, <2>1, <2>3, <2>4, <2>5, StartKeeps
  <2> QED BY <1>2, <2>1, <2>6
<1>5. CASE R!Usart
  <2>1. /\ isr = "none" /\ ~dma.tcif /\ rtof /\ R!Steady /\ isr' = "stop"
        /\ UNCHANGED <<arrived, rdr, armed, rtof, dma, ring, head, tail>>
        /\ UNCHANGED <<pc, hand, len, part, last, lost>>
    BY <1>5 DEF R!Usart, R!lineVars, R!fifoVars, R!mainVars
  <2>2. RxTypes' /\ RxPlaces'
    BY <1>0, <2>1 DEF RxTypes, RxPlaces
  <2>3. RxCalm'
    BY <2>1 DEF RxCalm, R!Steady
  <2>4. RxStream'
    BY <1>0, <2>1 DEF RxStream, Begin, Upto
  <2> QED BY <2>2, <2>3, <2>4 DEF RxInv
<1>6. CASE R!RxStop
  <2>1. /\ isr = "stop" /\ isr' = "flush" /\ dma' = [dma EXCEPT !.on = FALSE]
        /\ UNCHANGED <<arrived, rdr, armed, rtof, ring, head, tail>>
        /\ UNCHANGED <<pc, hand, len, part, last, lost>>
    BY <1>6 DEF R!RxStop, R!lineVars, R!fifoVars, R!mainVars
  <2>2. /\ dma' \in [on : BOOLEAN, dst : Nat, size : Nat, left : Nat, tcif : BOOLEAN]
        /\ dma'.on = FALSE /\ dma'.dst = dma.dst /\ dma'.size = dma.size /\ dma'.left = dma.left
        /\ dma'.tcif = dma.tcif
    BY <1>0, <2>1 DEF RxTypes
  <2>3. RxTypes'
    BY <1>0, <2>1, <2>2 DEF RxTypes
  <2>4. RxPlaces'
    <3>1. ~dma.tcif /\ ~dma'.tcif
      BY <1>0, <2>1, <2>2 DEF RxPlaces
    <3>2. ~dma'.on /\ isr' \notin {"none", "stop"}
      BY <2>1, <2>2
    <3>3. dma'.on = (isr' \in {"none", "stop"})
      BY <2>2, <3>2
    <3>4. /\ head + dma.size <= tail + RxSize /\ dma.size > 0
          /\ dma.dst = head % RxSize /\ dma.dst + dma.size <= RxSize /\ rtof
      BY <1>0, <2>1 DEF RxPlaces
    <3>5. dma'.left <= dma'.size /\ (dma'.on /\ dma'.left = 0 => dma'.tcif)
      BY <1>1, <2>2, <3>2
    <3> QED BY <1>0, <2>1, <2>2, <3>1, <3>2, <3>3, <3>4, <3>5 DEF RxPlaces
  <2>5. RxCalm'
    BY <1>0, <2>1, <2>2 DEF RxCalm
  <2>6. RxStream'
    BY <1>0, <2>1, <2>2 DEF RxStream, Begin, Upto
  <2> QED BY <2>3, <2>4, <2>5, <2>6 DEF RxInv
<1>7. CASE R!RxFlush
  <2> DEFINE k == dma.size - dma.left
  <2>1. /\ isr = "flush" /\ isr' = "drain" /\ rtof' = FALSE /\ head' = head + k
        /\ UNCHANGED <<arrived, rdr, armed, dma, ring, tail, pc, hand, len, part, last, lost>>
    BY <1>7 DEF R!RxFlush, R!mainVars
  <2>2. k \in Nat /\ k <= dma.size
    BY <1>1
  <2>3. /\ head + dma.size <= tail + RxSize /\ dma.on = FALSE /\ ~dma.tcif
    BY <1>0, <2>1, RxFacts DEF RxPlaces
  <2>4. Upto = head + k
    BY <2>1 DEF Upto
  <2> HIDE DEF k
  <2>5. head' \in Nat /\ tail' + len' <= head' /\ head' <= tail' + RxSize
    BY <1>1, <2>1, <2>2, <2>3
  <2>6. RxTypes'
    BY <1>0, <2>1, <2>5 DEF RxTypes
  <2>7. RxPlaces'
    BY <1>0, <2>1, <2>3, <2>5 DEF RxPlaces
  <2>8. RxCalm'
    <3>1. pc = "pop" => head + dma.size + Len(rdr) - tail < RxSize
      BY <1>0, <2>1 DEF RxCalm
    <3>2. pc = "pop" => (head + k) + Len(rdr) - tail < RxSize
      BY <1>1, <2>2, <3>1
    <3> QED BY <2>1, <3>2 DEF RxCalm
  <2>9. RxStream'
    <3>1. Begin' = Begin /\ Upto' = Upto
      BY <1>1, <2>1, <2>2, <2>4 DEF Begin, Upto
    <3> QED BY <1>0, <2>1, <3>1 DEF RxStream
  <2> QED BY <2>6, <2>7, <2>8, <2>9 DEF RxInv
<1> QED BY <1>3, <1>4, <1>5, <1>6, <1>7

(* What waits in the USART goes behind what the ring holds, the full ring  *)
(* being emptied first.                                                    *)
LEMMA RxDrained == RxInv /\ R!RxDrain => RxInv'
<1> SUFFICES ASSUME RxInv, R!RxDrain PROVE RxInv'
  OBVIOUS
<1>0. RxTypes /\ RxPlaces /\ RxCalm /\ RxStream
  BY DEF RxInv
<1>1. /\ head \in Nat /\ tail \in Nat /\ len \in Nat /\ Len(rdr) \in Nat
      /\ RxSize \in Nat /\ RxSize > 0 /\ tail + len <= head /\ head <= tail + RxSize
      /\ (Len(rdr) = 0) = (rdr = <<>>)
  BY <1>0, RxFacts
<1> DEFINE full == head = tail + RxSize
           h == IF full THEN 0 ELSE head
           t == IF full THEN 0 ELSE tail
           drop == IF full THEN lost \union Cells(ring, Begin, Upto) ELSE lost
<1>2. /\ isr = "drain" /\ rdr # <<>> /\ rdr' = Tail(rdr)
      /\ ring' = [ring EXCEPT ![h % RxSize] = Head(rdr)]
      /\ head' = h + 1 /\ tail' = t
      /\ lost' = IF full THEN lost \union R!Content(head) ELSE lost
      /\ UNCHANGED <<arrived, armed, rtof, dma, isr, pc, hand, len, part, last>>
  BY DEF R!RxDrain, R!mainVars
<1>3. Begin = tail + len /\ Upto = head
  BY <1>1, <1>2 DEF Begin, Upto
<1>4. full => len = 0 /\ pc = "look"
  <2>1. full => pc # "pop"
    <3>1. pc = "pop" => head + Len(rdr) - tail < RxSize
      BY <1>0, <1>2 DEF RxCalm
    <3> QED BY <1>1, <3>1
  <2>2. pc \in {"look", "pop"}
    BY <1>0 DEF RxTypes
  <2> QED BY <1>0, <2>1, <2>2 DEF RxPlaces
<1>5. lost' = drop
  <2>1. full => R!Content(head) = Cells(ring, Begin, Upto)
    <3>1. full => Begin = tail
      BY <1>1, <1>3, <1>4
    <3> QED BY <1>3, <3>1 DEF R!Content, Cells
  <2> QED BY <1>2, <2>1
<1>6. /\ h \in Nat /\ t \in Nat /\ t + len <= h /\ h < t + RxSize /\ h < (t + len) + RxSize
  BY <1>1, <1>4
<1>7. /\ InOrderOf(hand, ring, t + len, h, rdr, last, arrived)
      /\ Covers(hand, ring, t + len, h, rdr, last, arrived, drop)
  <2>0. /\ InOrderOf(hand, ring, Begin, Upto, rdr, last, arrived)
        /\ Covers(hand, ring, Begin, Upto, rdr, last, arrived, lost)
    BY <1>0 DEF RxStream
  <2>1. CASE full
    <3>1. Begin \in Nat /\ Upto \in Nat /\ last \in Nat /\ arrived \in Nat
      BY <1>0, <1>1, <1>3, RxFacts
    <3>2. t + len = 0 /\ h = 0
      BY <1>4, <2>1
    <3>3. /\ InOrderOf(hand, ring, 0, 0, rdr, last, arrived)
          /\ Covers(hand, ring, 0, 0, rdr, last, arrived, lost \union Cells(ring, Begin, Upto))
      BY <2>0, <3>1, StreamDrop
    <3> QED BY <2>1, <3>2, <3>3
  <2>2. CASE ~full
    BY <1>3, <2>0, <2>2
  <2> QED BY <2>1, <2>2
<1> HIDE DEF full, h, t, drop
<1>8. /\ ring' \in [0 .. RxSize - 1 -> Nat] /\ rdr' \in Seq(Nat) /\ Len(rdr') = Len(rdr) - 1
      /\ InOrderOf(hand, ring', t + len, h + 1, rdr', last, arrived)
      /\ Covers(hand, ring', t + len, h + 1, rdr', last, arrived, drop)
  <2>1. /\ hand \in Seq(Nat) /\ ring \in [0 .. RxSize - 1 -> Nat] /\ rdr \in Seq(Nat)
        /\ last \in Nat /\ arrived \in Nat
    BY <1>0 DEF RxTypes
  <2>2. t + len \in Nat /\ h \in Nat /\ t + len <= h /\ h < (t + len) + RxSize /\ rdr # <<>>
    BY <1>1, <1>2, <1>6
  <2>3. LET new == [ring EXCEPT ![h % RxSize] = Head(rdr)]
        IN  /\ new \in [0 .. RxSize - 1 -> Nat]
            /\ Tail(rdr) \in Seq(Nat) /\ Len(Tail(rdr)) = Len(rdr) - 1
            /\ InOrderOf(hand, new, t + len, h + 1, Tail(rdr), last, arrived)
            /\ Covers(hand, new, t + len, h + 1, Tail(rdr), last, arrived, drop)
    <3> DEFINE a == t + len
    <3>1. a \in Nat /\ a <= h /\ h < a + RxSize /\ h \in Nat /\ rdr # <<>>
          /\ InOrderOf(hand, ring, a, h, rdr, last, arrived)
          /\ Covers(hand, ring, a, h, rdr, last, arrived, drop)
      BY <1>7, <2>2
    <3> HIDE DEF a
    <3>2. LET new == [ring EXCEPT ![h % RxSize] = Head(rdr)]
          IN  /\ new \in [0 .. RxSize - 1 -> Nat]
              /\ Tail(rdr) \in Seq(Nat) /\ Len(Tail(rdr)) = Len(rdr) - 1
              /\ InOrderOf(hand, new, a, h + 1, Tail(rdr), last, arrived)
              /\ Covers(hand, new, a, h + 1, Tail(rdr), last, arrived, drop)
      BY <2>1, <3>1, StreamMove
    <3> QED BY <3>2 DEF a
  <2> QED BY <1>2, <2>3
<1>9. Begin' = t + len /\ Upto' = h + 1
  BY <1>2, <1>6 DEF Begin, Upto
<1>10. head' \in Nat /\ tail' \in Nat /\ tail' + len' <= head' /\ head' <= tail' + RxSize
  BY <1>1, <1>2, <1>6
<1>11. RxTypes'
  BY <1>0, <1>2, <1>8, <1>10 DEF RxTypes
<1>12. RxPlaces'
  <2>1. dma.on = FALSE /\ ~dma.tcif
    BY <1>0, <1>2, RxFacts DEF RxPlaces
  <2> QED BY <1>0, <1>2, <1>10, <2>1 DEF RxPlaces
<1>13. RxCalm'
  <2>1. pc = "pop" => head' = head + 1 /\ tail' = tail /\ head + Len(rdr) - tail < RxSize
    BY <1>0, <1>2, <1>4 DEF RxCalm, h, t
  <2>2. pc = "pop" => head' + Len(rdr') - tail' < RxSize
    BY <1>1, <1>8, <2>1
  <2> QED BY <1>2, <2>2 DEF RxCalm
<1>14. RxStream'
  BY <1>2, <1>5, <1>8, <1>9 DEF RxStream
<1> QED BY <1>11, <1>12, <1>13, <1>14 DEF RxInv

(* The reader copies what lies at the tail.                                *)
LEMMA StreamRead ==
  ASSUME NEW f \in Seq(Nat), NEW buffer \in [0 .. RxSize - 1 -> Nat], NEW a \in Nat, NEW z \in Nat,
         NEW q \in Seq(Nat), NEW l \in Nat, NEW m \in Nat, NEW dropped,
         NEW n \in Nat, a + n <= z,
         InOrderOf(f, buffer, a, z, q, l, m), Covers(f, buffer, a, z, q, l, m, dropped)
  PROVE  LET new == f \o [i \in 1 .. n |-> buffer[(a + i - 1) % RxSize]]
         IN  /\ new \in Seq(Nat) /\ Len(new) = Len(f) + n
             /\ InOrderOf(new, buffer, a + n, z, q, l, m)
             /\ Covers(new, buffer, a + n, z, q, l, m, dropped)
<1> DEFINE g == [i \in 1 .. n |-> buffer[(a + i - 1) % RxSize]]
           new == f \o g
<1>1. \A i \in a .. z - 1 : buffer[i % RxSize] \in Nat /\ buffer[i % RxSize] \in Cells(buffer, a, z)
  <2>1. ASSUME NEW i \in a .. z - 1 PROVE i % RxSize \in 0 .. RxSize - 1
    <3>1. i \in Int /\ RxSize \in Nat \ {0}
      BY RingSizes
    <3> QED BY <3>1, ModSplit
  <2> QED BY <2>1 DEF Cells
<1>2. \A i \in 1 .. n : a + i - 1 \in a .. z - 1
  OBVIOUS
<1>3. g \in Seq(Nat) /\ Len(g) = n /\ \A i \in 1 .. n : g[i] = buffer[(a + i - 1) % RxSize]
  <2>1. g \in [1 .. n -> Nat]
    BY <1>1, <1>2
  <2>2. \A i \in 1 .. n : g[i] = buffer[(a + i - 1) % RxSize]
    OBVIOUS
  <2> HIDE DEF g
  <2>3. g \in Seq(Nat)
    BY <2>1, SeqDef
  <2>4. Len(g) = n
    BY <2>1, <2>3, LenProperties
  <2> QED BY <2>2, <2>3, <2>4
<1>4. /\ new \in Seq(Nat) /\ Len(new) = Len(f) + n /\ Len(f) \in Nat
      /\ \A i \in 1 .. Len(f) : new[i] = f[i]
      /\ \A i \in 1 .. n : new[Len(f) + i] = g[i]
  <2> HIDE DEF g
  <2>1. /\ new \in Seq(Nat) /\ Len(new) = Len(f) + Len(g) /\ Len(f) \in Nat
        /\ \A i \in 1 .. Len(f) + Len(g) : new[i] = IF i <= Len(f) THEN f[i] ELSE g[i - Len(f)]
    BY <1>3, ConcatProperties, LenProperties
  <2>2. ASSUME NEW i \in 1 .. Len(f) PROVE new[i] = f[i]
    BY <1>3, <2>1, <2>2
  <2>3. ASSUME NEW i \in 1 .. n PROVE new[Len(f) + i] = g[i]
    <3>1. Len(f) + i \in 1 .. Len(f) + n /\ ~(Len(f) + i <= Len(f)) /\ (Len(f) + i) - Len(f) = i
      BY <2>1, <2>3
    <3> QED BY <1>3, <2>1, <3>1
  <2> QED BY <1>3, <2>1, <2>2, <2>3
<1> HIDE DEF g, new
<1>5. \A j \in 1 .. Len(f) + n : j \in 1 .. Len(f) \/ \E i \in 1 .. n : j = Len(f) + i
  <2>1. ASSUME NEW j \in 1 .. Len(f) + n, j \notin 1 .. Len(f)
        PROVE  j - Len(f) \in 1 .. n /\ j = Len(f) + (j - Len(f))
    BY <1>4, <2>1
  <2> QED BY <2>1
<1>6. \A i \in 1 .. n : new[Len(f) + i] = buffer[(a + i - 1) % RxSize]
  BY <1>3, <1>4
<1>7. Items(new) = Items(f) \union Cells(buffer, a, a + n)
  <2>1. ASSUME NEW x \in Items(new) PROVE x \in Items(f) \union Cells(buffer, a, a + n)
    <3>1. PICK j \in 1 .. Len(f) + n : x = new[j]
      BY <1>4 DEF Items
    <3>2. CASE j \in 1 .. Len(f)
      BY <1>4, <3>1, <3>2 DEF Items
    <3>3. CASE j \notin 1 .. Len(f)
      <4>1. PICK i \in 1 .. n : j = Len(f) + i
        BY <1>5, <3>3
      <4>2. x = buffer[(a + i - 1) % RxSize] /\ a + i - 1 \in a .. (a + n) - 1
        <5>1. a + i - 1 \in a .. (a + n) - 1
          OBVIOUS
        <5> QED BY <1>6, <3>1, <4>1, <5>1
      <4> QED BY <4>2 DEF Cells
    <3> QED BY <3>2, <3>3
  <2>2. ASSUME NEW x \in Items(f) PROVE x \in Items(new)
    <3>1. PICK j \in 1 .. Len(f) : x = f[j]
      BY DEF Items
    <3>2. j \in 1 .. Len(new) /\ x = new[j]
      BY <1>4, <3>1
    <3> QED BY <3>2 DEF Items
  <2>3. ASSUME NEW x \in Cells(buffer, a, a + n) PROVE x \in Items(new)
    <3>1. PICK i \in a .. (a + n) - 1 : x = buffer[i % RxSize]
      BY DEF Cells
    <3>2. (i - a) + 1 \in 1 .. n /\ a + ((i - a) + 1) - 1 = i
      BY <3>1
    <3>3. new[Len(f) + ((i - a) + 1)] = x
      BY <1>6, <3>1, <3>2
    <3>4. Len(f) + ((i - a) + 1) \in 1 .. Len(new)
      <4>1. Len(f) \in Nat /\ Len(new) = Len(f) + n
        BY <1>4
      <4> QED BY <3>2, <4>1
    <3> QED BY <3>3, <3>4 DEF Items
  <2> QED BY <2>1, <2>2, <2>3
<1>8. Cells(buffer, a, z) = Cells(buffer, a, a + n) \union Cells(buffer, a + n, z)
  <2>1. /\ \A i \in a .. z - 1 : i \in a .. (a + n) - 1 \/ i \in a + n .. z - 1
        /\ \A i \in a .. (a + n) - 1 : i \in a .. z - 1
        /\ \A i \in a + n .. z - 1 : i \in a .. z - 1
    OBVIOUS
  <2> QED BY <2>1 DEF Cells
<1>9. Rising(new)
  <2>0. Rising(f) /\ RisingCells(buffer, a, z)
    BY DEF InOrderOf
  <2>1. ASSUME NEW i \in 1 .. Len(f) + n, NEW j \in 1 .. Len(f) + n, i < j PROVE new[i] < new[j]
    <3>1. CASE j \in 1 .. Len(f)
      <4>1. i \in 1 .. Len(f)
        BY <1>4, <2>1, <3>1
      <4> QED BY <1>4, <2>0, <2>1, <3>1, <4>1 DEF Rising
    <3>2. CASE j \notin 1 .. Len(f)
      <4>1. PICK y \in 1 .. n : j = Len(f) + y
        BY <1>5, <3>2
      <4>2. new[j] = buffer[(a + y - 1) % RxSize] /\ a + y - 1 \in a .. z - 1
        BY <1>2, <1>6, <4>1
      <4>3. CASE i \in 1 .. Len(f)
        <5>1. new[i] \in Items(f) /\ new[j] \in Cells(buffer, a, z)
          BY <1>1, <1>4, <4>2, <4>3 DEF Items
        <5> QED BY <5>1 DEF InOrderOf
      <4>4. CASE i \notin 1 .. Len(f)
        <5>1. PICK x \in 1 .. n : i = Len(f) + x
          BY <1>5, <4>4
        <5>2. new[i] = buffer[(a + x - 1) % RxSize] /\ a + x - 1 \in a .. z - 1
          BY <1>2, <1>6, <5>1
        <5>3. a + x - 1 < a + y - 1
          <6>1. Len(f) \in Nat /\ Len(f) + x < Len(f) + y
            BY <1>4, <2>1, <4>1, <5>1
          <6> QED BY <6>1
        <5> QED BY <2>0, <4>2, <5>2, <5>3 DEF RisingCells
      <4> QED BY <4>3, <4>4
    <3> QED BY <3>1, <3>2
  <2> QED BY <1>4, <2>1 DEF Rising
<1>10. RisingCells(buffer, a + n, z)
  <2>1. \A i \in a + n .. z - 1 : i \in a .. z - 1
    OBVIOUS
  <2> QED BY <2>1 DEF InOrderOf, RisingCells
<1>11. \A x \in Cells(buffer, a, a + n), y \in Cells(buffer, a + n, z) : x < y
  <2>1. ASSUME NEW i \in a .. (a + n) - 1, NEW j \in a + n .. z - 1
        PROVE  buffer[i % RxSize] < buffer[j % RxSize]
    <3>1. i \in a .. z - 1 /\ j \in a .. z - 1 /\ i < j
      OBVIOUS
    <3> QED BY <3>1 DEF InOrderOf, RisingCells
  <2> QED BY <2>1 DEF Cells
<1>12. InOrderOf(new, buffer, a + n, z, q, l, m)
  BY <1>7, <1>8, <1>9, <1>10, <1>11 DEF InOrderOf
<1>13. Covers(new, buffer, a + n, z, q, l, m, dropped)
  BY <1>7, <1>8 DEF Covers
<1> QED BY <1>4, <1>12, <1>13 DEF new, g

(* The reader looks.                                                       *)
LEMMA RxReadLook == RxInv /\ R!ReadLook => RxInv'
<1> SUFFICES ASSUME RxInv, R!ReadLook PROVE RxInv'
  OBVIOUS
<1>0. RxTypes /\ RxPlaces /\ RxCalm /\ RxStream
  BY DEF RxInv
<1> DEFINE n == R!Min2(R!TailSize(head, tail), RxChunk - Len(hand))
<1>1. /\ pc = "look" /\ isr = "none" /\ pc' = "pop" /\ len' = n
      /\ hand' = hand \o [i \in 1 .. n |-> ring[(tail + i - 1) % RxSize]]
      /\ UNCHANGED <<arrived, rdr, armed, rtof, dma, ring, head, tail, isr, part, last, lost>>
  BY DEF R!ReadLook, R!lineVars, R!fifoVars
<1>2. /\ head \in Nat /\ tail \in Nat /\ len = 0 /\ tail <= head /\ head <= tail + RxSize
      /\ Len(hand) \in Nat /\ Len(hand) <= RxChunk /\ RxChunk \in Nat
      /\ dma.size \in Nat /\ dma.left \in Nat /\ dma.left <= dma.size
  BY <1>0, <1>1, RxFacts, RingSizes DEF RxPlaces
<1>3. n \in Nat /\ tail + n <= head /\ Len(hand) + n <= RxChunk
  <2> DEFINE size == OnePiece(tail, head, RxSize)
  <2>1. RxSize \in Nat \ {0}
    BY RingSizes
  <2>2. size \in Nat /\ size <= head - tail
    BY <1>2, <2>1, PieceFits
  <2>3. R!TailSize(head, tail) = size
    BY DEF R!TailSize, OnePiece
  <2> HIDE DEF size
  <2> QED BY <1>2, <2>2, <2>3 DEF R!Min2
<1> HIDE DEF n
<1>4. Begin = tail /\ Begin' = tail + n /\ Upto' = Upto /\ Upto \in Nat /\ tail + n <= Upto
  BY <1>1, <1>2, <1>3 DEF Begin, Upto
<1>5. /\ hand' \in Seq(Nat) /\ Len(hand') = Len(hand) + n
      /\ InOrderOf(hand', ring, tail + n, Upto, rdr, last, arrived)
      /\ Covers(hand', ring, tail + n, Upto, rdr, last, arrived, lost)
  <2>1. /\ hand \in Seq(Nat) /\ ring \in [0 .. RxSize - 1 -> Nat] /\ rdr \in Seq(Nat)
        /\ last \in Nat /\ arrived \in Nat
    BY <1>0 DEF RxTypes
  <2>2. /\ InOrderOf(hand, ring, tail, Upto, rdr, last, arrived)
        /\ Covers(hand, ring, tail, Upto, rdr, last, arrived, lost)
    BY <1>0, <1>4 DEF RxStream
  <2>3. tail \in Nat /\ Upto \in Nat /\ n \in Nat /\ tail + n <= Upto
    BY <1>2, <1>3, <1>4
  <2>4. LET new == hand \o [i \in 1 .. n |-> ring[(tail + i - 1) % RxSize]]
        IN  /\ new \in Seq(Nat) /\ Len(new) = Len(hand) + n
            /\ InOrderOf(new, ring, tail + n, Upto, rdr, last, arrived)
            /\ Covers(new, ring, tail + n, Upto, rdr, last, arrived, lost)
    BY <2>1, <2>2, <2>3, StreamRead
  <2> QED BY <1>1, <2>4
<1>6. RxTypes'
  BY <1>0, <1>1, <1>3, <1>5 DEF RxTypes
<1>7. RxPlaces'
  <2>1. tail' + len' <= head' /\ Len(hand') <= RxChunk
    BY <1>1, <1>2, <1>3, <1>5
  <2> QED BY <1>0, <1>1, <2>1 DEF RxPlaces
<1>8. RxCalm'
  BY <1>0, <1>1 DEF RxCalm
<1>9. RxStream'
  BY <1>1, <1>4, <1>5 DEF RxStream
<1> QED BY <1>6, <1>7, <1>8, <1>9 DEF RxInv

(* The reader pops, and the second time is done with the bytes copied.     *)
LEMMA RxReadPop == RxInv /\ R!ReadPop => RxInv'
<1> SUFFICES ASSUME RxInv, R!ReadPop PROVE RxInv'
  OBVIOUS
<1>0. RxTypes /\ RxPlaces /\ RxCalm /\ RxStream
  BY DEF RxInv
<1>1. /\ pc = "pop" /\ isr = "none" /\ pc' = "look" /\ tail' = tail + len /\ len' = 0
      /\ part' = 3 - part /\ hand' = (IF part = 1 THEN hand ELSE <<>>)
      /\ last' = (IF part = 2 /\ hand # <<>> THEN hand[Len(hand)] ELSE last)
      /\ UNCHANGED <<arrived, rdr, armed, rtof, dma, ring, head, isr, lost>>
  BY DEF R!ReadPop, R!lineVars
<1>2. /\ head \in Nat /\ tail \in Nat /\ len \in Nat /\ RxSize \in Nat
      /\ tail + len <= head /\ head <= tail + RxSize
      /\ arrived \in Nat /\ last \in Nat /\ last <= arrived
      /\ hand \in Seq(Nat) /\ Len(hand) \in Nat /\ Len(hand) <= RxChunk
      /\ rdr \in Seq(Nat) /\ dma.size \in Nat /\ RxChunk \in Nat
  BY <1>0, RxFacts, RingSizes DEF RxTypes, RxPlaces
<1>3. Begin' = Begin /\ Upto' = Upto
  BY <1>1, <1>2 DEF Begin, Upto
<1>4. /\ InOrderOf(hand, ring, Begin, Upto, rdr, last, arrived)
      /\ Covers(hand, ring, Begin, Upto, rdr, last, arrived, lost)
  BY <1>0 DEF RxStream
<1>5. /\ hand' \in Seq(Nat) /\ Len(hand') <= RxChunk
      /\ last' \in Nat /\ last' <= arrived
      /\ InOrderOf(hand', ring, Begin, Upto, rdr, last', arrived)
      /\ Covers(hand', ring, Begin, Upto, rdr, last', arrived, lost)
  <2>1. CASE part = 1
    <3>1. hand' = hand /\ last' = last
      BY <1>1, <2>1
    <3> QED BY <1>2, <1>4, <3>1
  <2>2. CASE part = 2
    <3>0. hand' = <<>> /\ last' = (IF hand # <<>> THEN hand[Len(hand)] ELSE last)
      BY <1>1, <2>2
    <3>1. hand' \in Seq(Nat) /\ Len(hand') = 0 /\ Items(hand') = {} /\ Rising(hand')
      BY <3>0, EmptySeq DEF Items, Rising
    <3>2. CASE hand = <<>>
      <4>1. last' = last /\ hand' = hand
        BY <3>0, <3>2
      <4> QED BY <1>2, <1>4, <4>1
    <3>3. CASE hand # <<>>
      <4> DEFINE k == Len(hand)
      <4>1. last' = hand[k]
        BY <3>0, <3>3
      <4>2. k \in 1 .. k /\ k \in Nat
        BY <1>2, <3>3, EmptySeq, LenProperties
      <4> HIDE DEF k
      <4>3. hand[k] \in Items(hand)
        BY <4>2 DEF Items, k
      <4>4. hand[k] \in last + 1 .. arrived
        BY <1>4, <4>3 DEF InOrderOf
      <4>5. /\ \A x \in Cells(ring, Begin, Upto) \union Items(rdr) :
                 hand[k] < x /\ x \in last + 1 .. arrived
        BY <1>4, <4>3 DEF InOrderOf
      <4>6. \A x \in Items(hand) : x <= hand[k] /\ x \in Nat
        <5>1. ASSUME NEW i \in 1 .. k PROVE hand[i] <= hand[k] /\ hand[i] \in Nat
          <6>0. hand[i] \in Nat
            BY <1>2, <5>1, ElementOfSeq DEF k
          <6>1. CASE i = k
            BY <6>0, <6>1
          <6>2. CASE i # k
            <7>1. i < k
              BY <4>2, <6>2
            <7>2. hand[i] < hand[k]
              BY <1>4, <4>2, <7>1 DEF InOrderOf, Rising, k
            <7> QED BY <4>4, <6>0, <7>2
          <6> QED BY <6>1, <6>2
        <5> QED BY <5>1 DEF Items, k
      <4>7. hand[k] + 1 .. arrived \subseteq last + 1 .. arrived
        BY <1>2, <4>4
      <4>8. \A x \in hand[k] + 1 .. arrived : x \notin Items(hand)
        BY <4>4, <4>6
      <4>9. Covers(hand', ring, Begin, Upto, rdr, hand[k], arrived, lost)
        BY <1>4, <4>7, <4>8 DEF Covers
      <4>10. InOrderOf(hand', ring, Begin, Upto, rdr, hand[k], arrived)
        <5>1. \A x \in Cells(ring, Begin, Upto) \union Items(rdr) : x \in hand[k] + 1 .. arrived
          BY <1>2, <4>4, <4>5
        <5> QED BY <1>4, <3>1, <5>1 DEF InOrderOf
      <4> QED BY <1>2, <3>1, <4>1, <4>4, <4>9, <4>10
    <3> QED BY <3>2, <3>3
  <2>3. part \in 1 .. 2
    BY <1>0 DEF RxTypes
  <2> QED BY <2>1, <2>2, <2>3
<1>6. RxTypes'
  <2>1. part' \in 1 .. 2 /\ tail' \in Nat /\ len' \in Nat
    <3>1. part \in 1 .. 2
      BY <1>0 DEF RxTypes
    <3> QED BY <1>1, <1>2, <3>1
  <2> QED BY <1>0, <1>1, <1>5, <2>1 DEF RxTypes
<1>7. RxPlaces'
  <2>1. tail' + len' <= head' /\ head' <= tail' + RxSize
    BY <1>1, <1>2
  <2>2. head + dma.size <= tail + RxSize => head + dma.size <= tail' + RxSize
    BY <1>1, <1>2
  <2> QED BY <1>0, <1>1, <1>5, <2>1, <2>2 DEF RxPlaces
<1>8. RxCalm'
  BY <1>0, <1>1 DEF RxCalm
<1>9. RxStream'
  BY <1>1, <1>3, <1>5 DEF RxStream
<1> QED BY <1>6, <1>7, <1>8, <1>9 DEF RxInv

LEMMA RxNext == RxInv /\ [R!Next]_(R!vars) => RxInv'
<1> SUFFICES ASSUME RxInv, [R!Next]_(R!vars) PROVE RxInv'
  OBVIOUS
<1>1. CASE UNCHANGED R!vars
  BY <1>1 DEF R!vars, R!lineVars, R!fifoVars, R!mainVars,
              RxInv, RxTypes, RxPlaces, RxCalm, RxStream, Begin, Upto
<1> QED BY <1>1, RxArrive, RxDmaMove, RxTimeout, RxHandler, RxDrained, RxReadLook, RxReadPop
        DEF R!Next, R!Handler, R!Main

LEMMA RxShown == RxInv => R!RxInOrder /\ R!RxDelivered
<1> SUFFICES ASSUME RxInv PROVE R!RxInOrder /\ R!RxDelivered
  OBVIOUS
<1>0. RxTypes /\ RxPlaces /\ RxCalm /\ RxStream
  BY DEF RxInv
<1>1. /\ head \in Nat /\ tail \in Nat /\ len \in Nat /\ tail + len <= head
      /\ dma.size \in Nat /\ dma.left \in Nat /\ dma.left <= dma.size
      /\ arrived \in Nat /\ last \in Nat
      /\ hand \in Seq(Nat) /\ DOMAIN hand = 1 .. Len(hand) /\ Len(hand) \in Nat
      /\ rdr \in Seq(Nat) /\ DOMAIN rdr = 1 .. Len(rdr)
  BY <1>0, RxFacts, LenProperties
<1>2. /\ InOrderOf(hand, ring, Begin, Upto, rdr, last, arrived)
      /\ Covers(hand, ring, Begin, Upto, rdr, last, arrived, lost)
  BY <1>0 DEF RxStream
<1>3. R!RxInOrder
  <2>1. ASSUME NEW i \in 1 .. Len(hand),
               NEW before, before = (IF i = 1 THEN last ELSE hand[i - 1])
        PROVE  before < hand[i] /\ before + 1 .. hand[i] - 1 \subseteq lost
    <3>1. hand[i] \in last + 1 .. arrived
      BY <1>2, <2>1 DEF InOrderOf, Items
    <3>2. i # 1 => i - 1 \in 1 .. Len(hand) /\ i - 1 < i
      BY <1>1, <2>1
    <3>3. i # 1 => before \in last + 1 .. arrived /\ before < hand[i]
      BY <1>2, <2>1, <3>2 DEF InOrderOf, Items, Rising
    <3>4. before \in Nat /\ before >= last /\ before < hand[i]
      <4>1. CASE i = 1
        <5>1. before = last
          BY <2>1, <4>1
        <5> QED BY <1>1, <3>1, <5>1
      <4>2. CASE i # 1
        BY <1>1, <3>3, <4>2
      <4> QED BY <4>1, <4>2
    <3>5. ASSUME NEW x \in before + 1 .. hand[i] - 1 PROVE x \in lost
      <4>1. x \in last + 1 .. arrived /\ before < x /\ x < hand[i] /\ x \in Nat
        BY <1>1, <3>1, <3>4, <3>5
      <4>2. x \notin Items(hand)
        <5>1. SUFFICES ASSUME NEW j \in 1 .. Len(hand), x = hand[j] PROVE FALSE
          BY DEF Items
        <5>2. CASE j >= i
          <6>1. j = i \/ hand[i] < hand[j]
            BY <1>2, <5>2 DEF InOrderOf, Rising
          <6> QED BY <3>1, <4>1, <5>1, <6>1
        <5>3. CASE j < i
          <6>1. i # 1 /\ before = hand[i - 1]
            BY <2>1, <5>3
          <6>2. j = i - 1 \/ j < i - 1
            BY <5>3
          <6>3. j = i - 1 \/ hand[j] < hand[i - 1]
            BY <1>2, <3>2, <6>1, <6>2 DEF InOrderOf, Rising
          <6> QED BY <3>4, <4>1, <5>1, <6>1, <6>3
        <5> QED BY <5>2, <5>3
      <4>3. hand[i] \in Items(hand)
        BY <2>1 DEF Items
      <4>4. \A y \in Cells(ring, Begin, Upto) \union Items(rdr) : y \in Nat /\ hand[i] < y
        <5>1. \A y \in last + 1 .. arrived : y \in Nat
          BY <1>1
        <5> QED BY <1>2, <4>3, <5>1 DEF InOrderOf
      <4>5. x \notin Cells(ring, Begin, Upto) \union Items(rdr)
        BY <3>1, <4>1, <4>4
      <4> QED BY <1>2, <4>1, <4>2, <4>5 DEF Covers
    <3> QED BY <3>4, <3>5
  <2> QED BY <1>1, <2>1 DEF R!RxInOrder
<1>4. Cells(ring, Begin, Upto) \subseteq R!Content(head) \union R!InBurst
  <2>1. ASSUME NEW i \in Begin .. Upto - 1
        PROVE  ring[i % RxSize] \in R!Content(head) \union R!InBurst
    <3>0. i \in Int /\ i >= tail
      BY <1>1 DEF Begin, Upto
    <3>1. CASE i < head
      <4>1. i \in tail .. head - 1
        BY <1>1, <3>0, <3>1
      <4> QED BY <4>1 DEF R!Content
    <3>2. CASE i >= head
      <4> DEFINE k == i - head
      <4>1. isr # "drain"
        BY <1>1, <2>1, <3>2 DEF Upto
      <4>2. Upto = head + (dma.size - dma.left)
        BY <4>1 DEF Upto
      <4>3. k \in 0 .. dma.size - dma.left - 1 /\ k \in Nat /\ k < dma.size /\ head + k = i
        BY <1>1, <2>1, <3>0, <3>2, <4>2
      <4> HIDE DEF k
      <4>4. (dma.dst + k) % RxSize = i % RxSize
        <5>1. (dma.dst + k) % RxSize = (head + k) % RxSize
          BY <1>0, <4>1, <4>3, BurstPlace
        <5> QED BY <4>3, <5>1
      <4> QED BY <4>1, <4>3, <4>4 DEF R!InBurst
    <3> QED BY <1>1, <3>0, <3>1, <3>2
  <2> QED BY <2>1 DEF Cells
<1>5. ~armed /\ ~rtof /\ isr = "none" => R!InBurst = {} /\ rdr = <<>>
  <2>1. SUFFICES ASSUME ~armed, ~rtof, isr = "none" PROVE R!InBurst = {} /\ rdr = <<>>
    OBVIOUS
  <2>2. dma.left = dma.size /\ rdr = <<>>
    BY <1>0, <2>1 DEF RxCalm
  <2>3. 0 .. dma.size - dma.left - 1 = {}
    BY <1>1, <2>2
  <2> QED BY <2>1, <2>2, <2>3 DEF R!InBurst
<1>6. Items(hand) = {hand[i] : i \in DOMAIN hand} /\ Items(rdr) = {rdr[i] : i \in DOMAIN rdr}
  BY <1>1 DEF Items
<1>7. R!RxDelivered
  BY <1>2, <1>4, <1>5, <1>6 DEF Covers, R!RxDelivered
<1> QED BY <1>3, <1>7

------------------------------------------------------------------------------

(* Both ways of the console port, through the bursts, the timeouts and the *)
(* ends of the buffers, for rings of any size, lines and reads of any      *)
(* length: bytes stay in order, none comes twice and none stale, what is   *)
(* missing was dropped and counted, and neither way stops with bytes left  *)
(* (RxInOrder, RxDelivered, TxInOrder, TxRests).                           *)
THEOREM BytesKept == R!Spec /\ T!Spec => []BytesServed
<1>1. RxInv /\ TxRing => BytesServed
  BY RxShown, TxShown DEF BytesServed
<1>2. R!Spec => []RxInv
  BY RxStart, RxNext, PTL DEF R!Spec
<1>3. T!Spec => []TxRing
  BY TxStart, TxNext, PTL DEF T!Spec
<1> QED BY <1>1, <1>2, <1>3, PTL

------------------------------------------------------------------------------
(* The bench session.                                                      *)

Request == [op : {"set"}, val : Value] \union [op : {"get"}, val : {B!Nothing}]

(* The values on their way to the session, the parameter, and those still  *)
(* to be set: in this order the session will come to hear of them.         *)
AllAnswers == toClient \o output
AllRequests == input \o (hand_up \o toBridge)

(* Where v comes up, nothing but v comes after it.                         *)
Turns(a, p, q, v) ==
  /\ \A i, j \in 1 .. Len(a) : i < j /\ a[i] = v => a[j] = v
  /\ \A i \in 1 .. Len(a) : a[i] = v => p = v
  /\ p = v => \A j \in 1 .. Len(q) : q[j].op = "set" => q[j].val = v
  /\ \A i, j \in 1 .. Len(q) :
       i < j /\ q[i].op = "set" /\ q[j].op = "set" /\ q[i].val = v => q[j].val = v

(* Nothing but p comes.                                                    *)
Uniform(a, p, q) ==
  /\ \A i \in 1 .. Len(a) : a[i] = p
  /\ \A j \in 1 .. Len(q) : q[j].op = "set" => q[j].val = p

Turning(v) == Turns(AllAnswers, param, AllRequests, v)
Steady == Uniform(AllAnswers, param, AllRequests)

BenchTypes ==
  /\ bench_pc \in {"idle", "send", "wait", "over"} /\ call \in Request
  /\ again \in Value \union {B!Nothing} /\ known \in Value \union {B!Nothing}
  /\ toBridge \in Seq(Request) /\ hand_up \in Seq(Request) /\ input \in Seq(Request)
  /\ toClient \in Seq(Value) /\ output \in Seq(Value) /\ param \in Value
  /\ hpc = "read" => hand_up = <<>>

(* While a value is being set nothing but it comes after it; when the      *)
(* session is at rest, or reads, nothing but the parameter comes at all.   *)
Session ==
  /\ bench_pc \in {"send", "wait"} /\ call.op = "set" => Turning(call.val)
  /\ bench_pc \in {"send", "wait"} /\ call.op = "get" => Steady
  /\ bench_pc = "idle" /\ again = B!Nothing => Steady
  /\ bench_pc = "idle" /\ again # B!Nothing => Turning(again)
  /\ bench_pc \in {"send", "wait"} /\ again # B!Nothing => call = B!Set(again)
  /\ known # B!Nothing => known = param /\ Steady

BenchInv == BenchTypes /\ Session

(* What is left of a sequence when some of it is lost.                     *)
Thins(b, a) ==
  \E f \in [1 .. Len(b) -> 1 .. Len(a)] :
    /\ \A i \in 1 .. Len(b) : b[i] = a[f[i]]
    /\ \A i, j \in 1 .. Len(b) : i < j => f[i] < f[j]

LEMMA ThinSame ==
  ASSUME NEW S, NEW a \in Seq(S)
  PROVE  Thins(a, a)
<1> DEFINE f == [i \in 1 .. Len(a) |-> i]
<1>1. /\ f \in [1 .. Len(a) -> 1 .. Len(a)]
      /\ \A i \in 1 .. Len(a) : a[i] = a[f[i]]
      /\ \A i, j \in 1 .. Len(a) : i < j => f[i] < f[j]
  OBVIOUS
<1> HIDE DEF f
<1> QED BY <1>1 DEF Thins

LEMMA ThinMiddle ==
  ASSUME NEW S, NEW x \in Seq(S), NEW y \in Seq(S), NEW z \in Seq(S)
  PROVE  Thins(x \o z, x \o (y \o z))
<1> DEFINE f == [i \in 1 .. Len(x \o z) |-> IF i <= Len(x) THEN i ELSE i + Len(y)]
           m == Len(x)
           n == Len(y)
           k == Len(z)
<1>1. m \in Nat /\ n \in Nat /\ k \in Nat /\ Len(x \o z) = m + k /\ Len(x \o (y \o z)) = m + (n + k)
  OBVIOUS
<1>2. \A i \in 1 .. m + k : (x \o z)[i] = IF i <= m THEN x[i] ELSE z[i - m]
  OBVIOUS
<1>3. ASSUME NEW i \in 1 .. m + (n + k)
      PROVE  (x \o (y \o z))[i] = IF i <= m THEN x[i] ELSE (y \o z)[i - m]
  BY <1>3
<1>4. ASSUME NEW i \in 1 .. n + k
      PROVE  (y \o z)[i] = IF i <= n THEN y[i] ELSE z[i - n]
  BY <1>4
<1> HIDE DEF m, n, k
<1>5. ASSUME NEW i \in 1 .. m + k
      PROVE  /\ f[i] = IF i <= m THEN i ELSE i + n
             /\ f[i] \in 1 .. m + (n + k)
             /\ (x \o z)[i] = (x \o (y \o z))[f[i]]
  <2>1. f[i] = IF i <= m THEN i ELSE i + n
    BY <1>1 DEF m, n
  <2> HIDE DEF f
  <2>2. f[i] \in 1 .. m + (n + k)
    BY <1>1, <2>1
  <2>3. CASE i <= m
    BY <1>1, <1>2, <1>3, <2>1, <2>2, <2>3
  <2>4. CASE ~(i <= m)
    <3>1. f[i] = i + n /\ ~(f[i] <= m) /\ f[i] - m \in 1 .. n + k /\ ~(f[i] - m <= n)
          /\ (f[i] - m) - n = i - m
      BY <1>1, <2>1, <2>4
    <3>2. (x \o (y \o z))[f[i]] = (y \o z)[f[i] - m]
      BY <1>3, <2>2, <3>1
    <3>3. (y \o z)[f[i] - m] = z[i - m]
      BY <1>4, <3>1
    <3> QED BY <1>2, <2>1, <2>2, <2>4, <3>2, <3>3
  <2> QED BY <2>1, <2>2, <2>3, <2>4
<1>6. f \in [1 .. Len(x \o z) -> 1 .. Len(x \o (y \o z))]
  <2>1. DOMAIN f = 1 .. m + k /\ f = [i \in 1 .. m + k |-> f[i]]
    BY <1>1
  <2> HIDE DEF f
  <2> QED BY <1>1, <1>5, <2>1
<1>7. \A i, j \in 1 .. m + k : i < j => f[i] < f[j]
  <2> HIDE DEF f
  <2> SUFFICES ASSUME NEW i \in 1 .. m + k, NEW j \in 1 .. m + k, i < j PROVE f[i] < f[j]
    OBVIOUS
  <2>1. f[i] = IF i <= m THEN i ELSE i + n
    BY <1>5
  <2>2. f[j] = IF j <= m THEN j ELSE j + n
    BY <1>5
  <2> QED BY <1>1, <2>1, <2>2
<1> HIDE DEF f
<1> QED BY <1>1, <1>5, <1>6, <1>7 DEF Thins

LEMMA ThinTurns ==
  ASSUME NEW a, NEW b, NEW q, NEW s, NEW p, Thins(b, a), Thins(s, q)
  PROVE  /\ \A v : Turns(a, p, q, v) => Turns(b, p, s, v)
         /\ Uniform(a, p, q) => Uniform(b, p, s)
<1>1. PICK f \in [1 .. Len(b) -> 1 .. Len(a)] :
        /\ \A i \in 1 .. Len(b) : b[i] = a[f[i]]
        /\ \A i, j \in 1 .. Len(b) : i < j => f[i] < f[j]
  BY DEF Thins
<1>2. PICK g \in [1 .. Len(s) -> 1 .. Len(q)] :
        /\ \A i \in 1 .. Len(s) : s[i] = q[g[i]]
        /\ \A i, j \in 1 .. Len(s) : i < j => g[i] < g[j]
  BY DEF Thins
<1>3. ASSUME NEW v, Turns(a, p, q, v) PROVE Turns(b, p, s, v)
  <2>1. \A i, j \in 1 .. Len(b) : i < j /\ b[i] = v => b[j] = v
    <3> SUFFICES ASSUME NEW i \in 1 .. Len(b), NEW j \in 1 .. Len(b), i < j, b[i] = v
                 PROVE  b[j] = v
      OBVIOUS
    <3>1. f[i] \in 1 .. Len(a) /\ f[j] \in 1 .. Len(a) /\ f[i] < f[j] /\ a[f[i]] = v
      BY <1>1
    <3>2. a[f[j]] = v
      BY <1>3, <3>1 DEF Turns
    <3> QED BY <1>1, <3>2
  <2>2. \A i \in 1 .. Len(b) : b[i] = v => p = v
    BY <1>1, <1>3 DEF Turns
  <2>3. p = v => \A j \in 1 .. Len(s) : s[j].op = "set" => s[j].val = v
    BY <1>2, <1>3 DEF Turns
  <2>4. \A i, j \in 1 .. Len(s) :
          i < j /\ s[i].op = "set" /\ s[j].op = "set" /\ s[i].val = v => s[j].val = v
    <3> SUFFICES ASSUME NEW i \in 1 .. Len(s), NEW j \in 1 .. Len(s), i < j,
                        s[i].op = "set", s[j].op = "set", s[i].val = v
                 PROVE  s[j].val = v
      OBVIOUS
    <3>1. g[i] \in 1 .. Len(q) /\ g[j] \in 1 .. Len(q) /\ g[i] < g[j]
          /\ s[i] = q[g[i]] /\ s[j] = q[g[j]]
      BY <1>2
    <3> QED BY <1>3, <3>1 DEF Turns
  <2> QED BY <2>1, <2>2, <2>3, <2>4 DEF Turns
<1>4. ASSUME Uniform(a, p, q) PROVE Uniform(b, p, s)
  <2>1. \A i \in 1 .. Len(b) : b[i] = p
    BY <1>1, <1>4 DEF Uniform
  <2>2. \A j \in 1 .. Len(s) : s[j].op = "set" => s[j].val = p
    BY <1>2, <1>4 DEF Uniform
  <2> QED BY <2>1, <2>2 DEF Uniform
<1> QED BY <1>3, <1>4

LEMMA UniformTurns ==
  ASSUME NEW a, NEW q, NEW p, NEW v, Uniform(a, p, q)
  PROVE  Turns(a, p, q, v)
BY DEF Uniform, Turns

(* The value the session waits for comes up: all that came before it is    *)
(* behind, and nothing else comes.                                         *)
LEMMA Turned ==
  ASSUME NEW a \in Seq(Value), NEW q, NEW p, NEW v, Turns(a, p, q, v), a # <<>>, Head(a) = v
  PROVE  p = v /\ Uniform(a, p, q)
<1>1. 1 \in 1 .. Len(a) /\ a[1] = v
  OBVIOUS
<1>2. p = v
  BY <1>1 DEF Turns
<1>3. ASSUME NEW i \in 1 .. Len(a) PROVE a[i] = v
  <2>1. i = 1 \/ 1 < i
    OBVIOUS
  <2> QED BY <1>1, <2>1 DEF Turns
<1> QED BY <1>2, <1>3 DEF Turns, Uniform

LEMMA AskedSet ==
  ASSUME NEW a, NEW q \in Seq(Request), NEW p, NEW v \in Value, Turns(a, p, q, v)
  PROVE  Turns(a, p, Append(q, B!Set(v)), v)
<1> DEFINE s == Append(q, B!Set(v))
<1>1. /\ Len(q) \in Nat /\ Len(s) = Len(q) + 1 /\ s[Len(q) + 1].val = v
      /\ \A i \in 1 .. Len(q) : s[i] = q[i]
  BY DEF B!Set, Request
<1> HIDE DEF s
<1>2. ASSUME NEW i \in 1 .. Len(s) PROVE i \in 1 .. Len(q) \/ i = Len(q) + 1
  BY <1>1
<1>3. p = v => \A j \in 1 .. Len(s) : s[j].op = "set" => s[j].val = v
  BY <1>1, <1>2 DEF Turns
<1>4. \A i, j \in 1 .. Len(s) :
        i < j /\ s[i].op = "set" /\ s[j].op = "set" /\ s[i].val = v => s[j].val = v
  <2> SUFFICES ASSUME NEW i \in 1 .. Len(s), NEW j \in 1 .. Len(s), i < j,
                      s[i].op = "set", s[j].op = "set", s[i].val = v
               PROVE  s[j].val = v
    OBVIOUS
  <2>1. CASE j = Len(q) + 1
    BY <1>1, <2>1
  <2>2. CASE j \in 1 .. Len(q)
    <3>1. i \in 1 .. Len(q)
      BY <1>1, <2>2
    <3> QED BY <1>1, <2>2, <3>1 DEF Turns
  <2> QED BY <1>2, <2>1, <2>2
<1>5. Turns(a, p, s, v)
  BY <1>3, <1>4 DEF Turns
<1> QED BY <1>5 DEF s

LEMMA AskedGet ==
  ASSUME NEW a, NEW q \in Seq(Request), NEW p, NEW r \in Request, r.op = "get", Uniform(a, p, q)
  PROVE  Uniform(a, p, Append(q, r))
<1> DEFINE s == Append(q, r)
<1>1. /\ Len(q) \in Nat /\ Len(s) = Len(q) + 1 /\ s[Len(q) + 1] = r
      /\ \A i \in 1 .. Len(q) : s[i] = q[i]
  OBVIOUS
<1> HIDE DEF s
<1>2. ASSUME NEW j \in 1 .. Len(s), s[j].op = "set" PROVE s[j].val = p
  <2>1. j \in 1 .. Len(q)
    BY <1>1, <1>2
  <2> QED BY <1>1, <1>2, <2>1 DEF Uniform
<1>3. Uniform(a, p, s)
  BY <1>2 DEF Uniform
<1> QED BY <1>3 DEF s

(* The autopilot does as the next request says, and answers.               *)
LEMMA Served ==
  ASSUME NEW a \in Seq(Value), NEW q \in Seq(Request), NEW p \in Value, NEW z \in Value, q # <<>>,
         z = (IF Head(q).op = "set" THEN Head(q).val ELSE p)
  PROVE  /\ \A v : Turns(a, p, q, v) => Turns(Append(a, z), z, Tail(q), v)
         /\ Uniform(a, p, q) => z = p /\ Uniform(Append(a, z), z, Tail(q))
<1> DEFINE b == Append(a, z)
           s == Tail(q)
<1>1. /\ Len(a) \in Nat /\ Len(b) = Len(a) + 1 /\ b[Len(a) + 1] = z
      /\ \A i \in 1 .. Len(a) : b[i] = a[i]
  OBVIOUS
<1>2. /\ Len(q) \in Nat /\ 1 \in 1 .. Len(q) /\ Head(q) = q[1] /\ Len(s) = Len(q) - 1
      /\ \A i \in 1 .. Len(s) : i + 1 \in 1 .. Len(q) /\ s[i] = q[i + 1]
  OBVIOUS
<1> HIDE DEF b, s
<1>3. ASSUME NEW i \in 1 .. Len(b) PROVE i \in 1 .. Len(a) \/ i = Len(a) + 1
  BY <1>1
<1>4. ASSUME NEW v, Turns(a, p, q, v) PROVE Turns(b, z, s, v)
  <2>1. p = v => z = v
    BY <1>2, <1>4 DEF Turns
  <2>2. \A i \in 1 .. Len(b) : b[i] = v => z = v
    BY <1>1, <1>3, <1>4, <2>1 DEF Turns
  <2>3. \A i, j \in 1 .. Len(b) : i < j /\ b[i] = v => b[j] = v
    <3> SUFFICES ASSUME NEW i \in 1 .. Len(b), NEW j \in 1 .. Len(b), i < j, b[i] = v
                 PROVE  b[j] = v
      OBVIOUS
    <3>1. CASE j = Len(a) + 1
      BY <1>1, <2>2, <3>1
    <3>2. CASE j \in 1 .. Len(a)
      <4>1. i \in 1 .. Len(a)
        BY <1>1, <3>2
      <4> QED BY <1>1, <1>4, <3>2, <4>1 DEF Turns
    <3> QED BY <1>3, <3>1, <3>2
  <2>4. z = v => \A j \in 1 .. Len(s) : s[j].op = "set" => s[j].val = v
    <3> SUFFICES ASSUME z = v, NEW j \in 1 .. Len(s), s[j].op = "set" PROVE s[j].val = v
      OBVIOUS
    <3>1. s[j] = q[j + 1] /\ j + 1 \in 1 .. Len(q) /\ 1 < j + 1
      BY <1>2
    <3>2. CASE q[1].op = "set"
      BY <1>2, <1>4, <3>1, <3>2 DEF Turns
    <3>3. CASE q[1].op # "set"
      BY <1>2, <1>4, <3>1, <3>3 DEF Turns
    <3> QED BY <3>2, <3>3
  <2>5. \A i, j \in 1 .. Len(s) :
          i < j /\ s[i].op = "set" /\ s[j].op = "set" /\ s[i].val = v => s[j].val = v
    <3> SUFFICES ASSUME NEW i \in 1 .. Len(s), NEW j \in 1 .. Len(s), i < j,
                        s[i].op = "set", s[j].op = "set", s[i].val = v
                 PROVE  s[j].val = v
      OBVIOUS
    <3>1. i + 1 \in 1 .. Len(q) /\ j + 1 \in 1 .. Len(q) /\ i + 1 < j + 1
          /\ s[i] = q[i + 1] /\ s[j] = q[j + 1]
      BY <1>2
    <3> QED BY <1>4, <3>1 DEF Turns
  <2> QED BY <2>2, <2>3, <2>4, <2>5 DEF Turns
<1>5. ASSUME Uniform(a, p, q) PROVE z = p /\ Uniform(b, z, s)
  <2>1. z = p
    BY <1>2, <1>5 DEF Uniform
  <2>2. \A i \in 1 .. Len(b) : b[i] = z
    BY <1>1, <1>2, <1>3, <1>5, <2>1 DEF Uniform
  <2>3. \A j \in 1 .. Len(s) : s[j].op = "set" => s[j].val = z
    BY <1>1, <1>2, <1>3, <1>5, <2>1 DEF Uniform
  <2> QED BY <2>1, <2>2, <2>3 DEF Uniform
<1> QED BY <1>4, <1>5 DEF b, s

(* What is lost on the way leaves the rest as it was.                      *)
LEMMA Lost ==
  ASSUME BenchTypes, BenchTypes', UNCHANGED param,
         Thins(AllAnswers', AllAnswers), Thins(AllRequests', AllRequests)
  PROVE  /\ \A v : Turning(v) => Turning(v)'
         /\ Steady => Steady'
<1> DEFINE a == AllAnswers
           b == AllAnswers'
           q == AllRequests
           s == AllRequests'
<1>1. Thins(b, a) /\ Thins(s, q)
  OBVIOUS
<1> HIDE DEF a, b, q, s
<1>2. /\ \A v : Turns(a, param, q, v) => Turns(b, param, s, v)
      /\ Uniform(a, param, q) => Uniform(b, param, s)
  BY <1>1, ThinTurns
<1> QED BY <1>2 DEF Turning, Steady, a, b, q, s

LEMMA Streams ==
  ASSUME BenchTypes
  PROVE  /\ AllAnswers \in Seq(Value) /\ AllRequests \in Seq(Request)
         /\ Thins(AllAnswers, AllAnswers) /\ Thins(AllRequests, AllRequests)
<1>1. AllAnswers \in Seq(Value) /\ AllRequests \in Seq(Request)
  BY DEF BenchTypes, AllAnswers, AllRequests
<1> QED BY <1>1, ThinSame

(* The session after steps of the others.                                  *)
LEMMA Elsewhere ==
  ASSUME Session, UNCHANGED <<bench_pc, call, try, again, calls, known>>,
         \A v : Turning(v) => Turning(v)', Steady => Steady' /\ param' = param
  PROVE  Session'
BY DEF Session

LEMMA BenchInit == B!Init => BenchInv
<1> SUFFICES ASSUME B!Init PROVE BenchInv
  OBVIOUS
<1>1. BenchTypes
  <2>1. <<>> \in Seq(Request) /\ <<>> \in Seq(Value)
    OBVIOUS
  <2>2. call \in Request
    BY DEF B!Init, B!Get, Request
  <2> QED BY <2>1, <2>2 DEF B!Init, BenchTypes
<1>2. AllAnswers = <<>> /\ AllRequests = <<>>
  BY DEF B!Init, AllAnswers, AllRequests
<1>3. Steady
  BY <1>2 DEF Steady, Uniform
<1>4. bench_pc = "idle" /\ again = B!Nothing /\ known = B!Nothing
  BY DEF B!Init
<1> QED BY <1>1, <1>3, <1>4 DEF BenchInv, Session

(* Nothing is no value.                                                    *)
LEMMA NoValue == B!Nothing \notin Value
BY ServicesAssumption DEF B!Nothing

(* A call begins.                                                          *)
LEMMA BenchBegin ==
  ASSUME BenchInv, NEW c \in {B!Get} \union {B!Set(v) : v \in Value}, B!Begin(c)
  PROVE  BenchInv'
<1> USE DEF BenchInv
<1>1. /\ bench_pc = "idle"
      /\ again # B!Nothing => c = B!Set(again)
      /\ bench_pc' = "send" /\ call' = c
      /\ UNCHANGED <<again, known, link, toBridge, hpc, hand_up, handle, ser, toClient>>
      /\ UNCHANGED <<there, input, output, param>>
  BY DEF B!Begin, B!bridgeVars, B!dutVars
<1>2. c \in Request
  BY DEF Request, B!Get, B!Set
<1>3. BenchTypes'
  BY <1>1, <1>2 DEF BenchTypes
<1>4. /\ AllAnswers' = AllAnswers /\ AllRequests' = AllRequests /\ param' = param
  BY <1>1 DEF AllAnswers, AllRequests
<1>5. (Steady' <=> Steady) /\ \A v : Turning(v)' <=> Turning(v)
  BY <1>4 DEF Steady, Turning
<1>6. CASE again # B!Nothing
  <2>1. call' = B!Set(again) /\ call'.op = "set" /\ call'.val = again
    BY <1>1, <1>6 DEF B!Set
  <2>2. Turning(again)
    BY <1>1, <1>6 DEF Session
  <2> QED BY <1>1, <1>3, <1>4, <1>5, <1>6, <2>1, <2>2 DEF Session
<1>7. CASE again = B!Nothing
  <2>1. Steady
    BY <1>1, <1>7 DEF Session
  <2>2. \A v : Turning(v)
    BY <2>1, UniformTurns DEF Steady, Turning
  <2> QED BY <1>1, <1>3, <1>4, <1>5, <1>7, <2>1, <2>2 DEF Session
<1> QED BY <1>6, <1>7

(* A request is sent, or lost.                                             *)
LEMMA BenchSend == BenchInv /\ B!Send => BenchInv'
<1> SUFFICES ASSUME BenchInv, B!Send PROVE BenchInv'
  OBVIOUS
<1> USE DEF BenchInv
<1>1. /\ bench_pc = "send" /\ bench_pc' = "wait"
      /\ toBridge' = (IF link THEN Append(toBridge, call) ELSE toBridge)
      /\ known' = (IF call.op = "set" THEN B!Nothing ELSE known)
      /\ UNCHANGED <<call, again, hpc, hand_up, toClient, input, output, param>>
  BY DEF B!Send, B!bridgeVars, B!dutVars
<1>2. BenchTypes'
  BY <1>1 DEF BenchTypes
<1>3. AllAnswers' = AllAnswers
  BY <1>1 DEF AllAnswers
<1>4. AllRequests' = Append(AllRequests, call) \/ AllRequests' = AllRequests
  <2>1. /\ input \in Seq(Request) /\ hand_up \in Seq(Request) /\ toBridge \in Seq(Request)
        /\ call \in Request /\ <<call>> \in Seq(Request) /\ hand_up \o toBridge \in Seq(Request)
    BY DEF BenchTypes
  <2>2. hand_up \o Append(toBridge, call) = (hand_up \o toBridge) \o <<call>>
    BY <2>1, AppendIsConcat, ConcatAssociative
  <2>3. input \o ((hand_up \o toBridge) \o <<call>>) = (input \o (hand_up \o toBridge)) \o <<call>>
    BY <2>1, ConcatAssociative
  <2>4. input \o (hand_up \o Append(toBridge, call)) = Append(input \o (hand_up \o toBridge), call)
    <3>1. input \o (hand_up \o toBridge) \in Seq(Request)
      BY <2>1
    <3> QED BY <2>1, <2>2, <2>3, <3>1, AppendIsConcat
  <2> QED BY <1>1, <2>4 DEF AllRequests
<1>s. AllAnswers \in Seq(Value) /\ AllRequests \in Seq(Request) /\ call \in Request
  BY Streams DEF BenchTypes
<1>5. CASE call.op = "set"
  <2>1. Turning(call.val) /\ call.val \in Value /\ call = B!Set(call.val)
    BY <1>1, <1>5, <1>s DEF Session, Request, B!Set
  <2> DEFINE v == call.val
             q == AllRequests
             a == AllAnswers
  <2>2. v \in Value /\ q \in Seq(Request) /\ Turns(a, param, q, v)
    BY <1>s, <2>1 DEF Turning
  <2>3. Turns(a, param, Append(q, B!Set(v)), v)
    <3> HIDE DEF v, q, a
    <3> QED BY <2>2, AskedSet
  <2>4. Turns(a, param, Append(q, call), v)
    BY <2>1, <2>3
  <2>5. Turning(call.val)'
    BY <1>1, <1>3, <1>4, <2>2, <2>4 DEF Turning
  <2> QED BY <1>1, <1>2, <1>5, <2>5, NoValue DEF Session
<1>6. CASE call.op # "set"
  <2>1. call.op = "get" /\ Steady
    BY <1>1, <1>6, <1>s DEF Session, Request
  <2>2. Steady'
    <3>1. Uniform(AllAnswers, param, AllRequests)
      BY <2>1 DEF Steady
    <3>2. Uniform(AllAnswers, param, Append(AllRequests, call))
      BY <1>s, <2>1, <3>1, AskedGet
    <3> QED BY <1>1, <1>3, <1>4, <3>1, <3>2 DEF Steady
  <2> QED BY <1>1, <1>2, <1>6, <2>2 DEF Session
<1> QED BY <1>5, <1>6

(* The next attempt, or none.                                              *)
LEMMA BenchRetry ==
  ASSUME BenchTypes, BenchTypes', Session, bench_pc = "wait", B!NextTry, UNCHANGED <<call, param>>,
         \A v : Turning(v) => Turning(v)', Steady => Steady'
  PROVE  Session'
<1>1. UNCHANGED known
  BY DEF B!NextTry
<1>2. known' # B!Nothing => known' = param' /\ Steady'
  BY <1>1 DEF Session
<1>3. CASE try < Tries
  <2>1. bench_pc' = "send" /\ again' = again
    BY <1>3 DEF B!NextTry
  <2> QED BY <1>2, <2>1 DEF Session
<1>4. CASE ~(try < Tries) /\ call.op = "set" /\ again = B!Nothing
  <2>1. bench_pc' = "idle" /\ again' = call.val
    BY <1>4 DEF B!NextTry
  <2>2. again' # B!Nothing
    <3>1. call.val \in Value
      BY <1>4 DEF BenchTypes, Request
    <3> QED BY <2>1, <3>1, NoValue
  <2>3. Turning(call.val)'
    BY <1>4 DEF Session
  <2>4. Turning(again)'
    <3>1. Turning(call.val)' <=> Turns(AllAnswers', param', AllRequests', call.val')
      BY DEF Turning
    <3>2. Turning(again)' <=> Turns(AllAnswers', param', AllRequests', again')
      BY DEF Turning
    <3> QED BY <2>1, <2>3, <3>1, <3>2
  <2> QED BY <1>2, <2>1, <2>2, <2>4 DEF Session
<1>5. CASE ~(try < Tries) /\ ~(call.op = "set" /\ again = B!Nothing)
  <2>1. bench_pc' = "over"
    BY <1>5 DEF B!NextTry
  <2> QED BY <1>2, <2>1 DEF Session
<1> QED BY <1>3, <1>4, <1>5

(* An answer is heard.                                                     *)
LEMMA BenchHear == BenchInv /\ B!Hear => BenchInv'
<1> SUFFICES ASSUME BenchInv, B!Hear PROVE BenchInv'
  OBVIOUS
<1> USE DEF BenchInv
<1> DEFINE v == Head(toClient)
<1>1. /\ bench_pc = "wait" /\ toClient # <<>> /\ toClient' = Tail(toClient)
      /\ IF B!Answers(v) THEN B!Return(v) ELSE B!NextTry
      /\ UNCHANGED <<call, calls, link, toBridge, hpc, hand_up, handle, ser>>
      /\ UNCHANGED <<there, input, output, param>>
  BY DEF B!Hear, B!bridgeVars, B!dutVars
<1>2. v \in Value /\ AllAnswers # <<>> /\ Head(AllAnswers) = v /\ Tail(toClient) \in Seq(Value)
  BY <1>1 DEF BenchTypes, AllAnswers
<1>3. BenchTypes'
  <2>1. /\ bench_pc' \in {"idle", "send", "wait", "over"} /\ again' \in Value \union {B!Nothing}
        /\ known' \in Value \union {B!Nothing}
    <3>1. CASE B!Answers(v)
      BY <1>1, <1>2, <3>1 DEF B!Return, BenchTypes
    <3>2. CASE ~B!Answers(v)
      <4>1. call.op = "set" => call.val \in Value
        BY DEF BenchTypes, Request
      <4> QED BY <1>1, <3>2, <4>1 DEF B!NextTry, BenchTypes
    <3> QED BY <3>1, <3>2
  <2> QED BY <1>1, <1>2, <2>1 DEF BenchTypes
<1>4. (\A w : Turning(w) => Turning(w)') /\ (Steady => Steady')
  <2>1. AllRequests' = AllRequests
    BY <1>1 DEF AllRequests
  <2>2. Thins(AllAnswers', AllAnswers)
    <3>1. <<>> \in Seq(Value) /\ <<v>> \in Seq(Value) /\ Tail(toClient) \o output \in Seq(Value)
      BY <1>2 DEF BenchTypes
    <3>2. AllAnswers = <<>> \o (<<v>> \o (Tail(toClient) \o output))
      <4>1. toClient = <<v>> \o Tail(toClient)
        BY <1>1 DEF BenchTypes
      <4>2. toClient \o output = <<v>> \o (Tail(toClient) \o output)
        BY <1>2, <3>1, <4>1, ConcatAssociative DEF BenchTypes
      <4>3. <<v>> \o (Tail(toClient) \o output) \in Seq(Value)
        BY <3>1
      <4> QED BY <4>2, <4>3, ConcatEmptySeq DEF AllAnswers
    <3>3. AllAnswers' = <<>> \o (Tail(toClient) \o output)
      BY <1>1, <3>1, ConcatEmptySeq DEF AllAnswers
    <3> HIDE DEF v
    <3> QED BY <3>1, <3>2, <3>3, ThinMiddle
  <2>3. Thins(AllRequests', AllRequests)
    BY <2>1, Streams
  <2> QED BY <1>1, <1>3, <2>2, <2>3, Lost
<1>5. CASE B!Answers(v)
  <2>1. bench_pc' = "idle" /\ known' = v /\ again' = B!Nothing
    BY <1>1, <1>5 DEF B!Return
  <2>2. param = v /\ Steady
    <3>1. CASE call.op = "set"
      <4>1. v = call.val /\ Turning(call.val)
        BY <1>1, <1>5, <3>1 DEF B!Answers, Session
      <4>2. AllAnswers \in Seq(Value) /\ Turns(AllAnswers, param, AllRequests, v)
        BY <4>1, Streams DEF Turning
      <4> HIDE DEF v
      <4>3. param = v /\ Uniform(AllAnswers, param, AllRequests)
        BY <1>2, <4>2, Turned
      <4> QED BY <4>3 DEF Steady
    <3>2. CASE call.op # "set"
      <4>1. Steady
        BY <1>1, <3>2 DEF Session, BenchTypes, Request
      <4>2. Uniform(AllAnswers, param, AllRequests) /\ AllAnswers \in Seq(Value)
        BY <4>1, Streams DEF Steady
      <4>3. Turns(AllAnswers, param, AllRequests, v)
        BY <4>2, UniformTurns
      <4> HIDE DEF v
      <4>4. param = v
        BY <1>2, <4>2, <4>3, Turned
      <4> QED BY <4>1, <4>4
    <3> QED BY <3>1, <3>2
  <2> QED BY <1>1, <1>3, <1>4, <2>1, <2>2 DEF Session
<1>6. CASE ~B!Answers(v)
  <2>1. B!NextTry
    BY <1>1, <1>6
  <2>2. Session'
    BY <1>1, <1>3, <1>4, <2>1, BenchRetry
  <2> QED BY <1>3, <2>2
<1> QED BY <1>5, <1>6

LEMMA BenchTimeOut == BenchInv /\ B!TimeOut => BenchInv'
<1> SUFFICES ASSUME BenchInv, B!TimeOut PROVE BenchInv'
  OBVIOUS
<1> USE DEF BenchInv
<1>1. /\ bench_pc = "wait" /\ B!NextTry
      /\ UNCHANGED <<call, toBridge, hpc, hand_up, toClient, input, output, param>>
  BY DEF B!TimeOut, B!bridgeVars, B!dutVars
<1>2. BenchTypes'
  <2>1. call.op = "set" => call.val \in Value
    BY DEF BenchTypes, Request
  <2> QED BY <1>1, <2>1 DEF B!NextTry, BenchTypes
<1>3. (\A w : Turning(w) => Turning(w)') /\ (Steady => Steady')
  <2>1. AllAnswers' = AllAnswers /\ AllRequests' = AllRequests
    BY <1>1 DEF AllAnswers, AllRequests
  <2> QED BY <1>1, <2>1 DEF Turning, Steady
<1>4. Session'
  BY <1>1, <1>2, <1>3, BenchRetry
<1> QED BY <1>2, <1>4

(* The bridge passes on what it has, or loses it.                          *)
LEMMA BridgeTypes == BenchTypes /\ B!Bridge => BenchTypes'
<1> SUFFICES ASSUME BenchTypes, B!Bridge PROVE BenchTypes'
  OBVIOUS
<1>0. UNCHANGED <<bench_pc, call, try, again, calls, known, param>>
  BY DEF B!Bridge, B!ClientRead, B!ClientLock, B!ClientWrite, B!SerialRead, B!SerialLost, B!Reopen,
         B!GiveUp, B!sessionVars, B!dutVars
<1>1. CASE B!ClientRead
  <2>1. PICK n \in 1 .. Len(toBridge) :
          /\ hand_up' = SubSeq(toBridge, 1, n)
          /\ toBridge' = SubSeq(toBridge, n + 1, Len(toBridge))
    BY <1>1 DEF B!ClientRead
  <2>2. hpc' = "lock" /\ UNCHANGED <<toClient, input, output>>
    BY <1>1 DEF B!ClientRead, B!dutVars
  <2>3. hand_up' \in Seq(Request) /\ toBridge' \in Seq(Request)
    BY <2>1 DEF BenchTypes
  <2> QED BY <1>0, <2>2, <2>3 DEF BenchTypes
<1>2. CASE B!ClientLock
  <2>1. hpc' = "write" /\ UNCHANGED <<toBridge, hand_up, toClient, input, output>>
    BY <1>2 DEF B!ClientLock, B!dutVars
  <2> QED BY <1>0, <2>1 DEF BenchTypes
<1>3. CASE B!ClientWrite
  <2>1. /\ hpc' = "read" /\ hand_up' = <<>> /\ UNCHANGED <<toBridge, toClient, output>>
        /\ input' = IF handle THEN input \o hand_up ELSE input
    BY <1>3 DEF B!ClientWrite
  <2>2. input' \in Seq(Request) /\ <<>> \in Seq(Request)
    BY <2>1 DEF BenchTypes
  <2> QED BY <1>0, <2>1, <2>2 DEF BenchTypes
<1>4. CASE B!SerialRead \/ B!Reopen
  <2>1. UNCHANGED <<toBridge, hpc, hand_up, input>>
    BY <1>4 DEF B!SerialRead, B!Reopen, B!bridgeVars
  <2>2. toClient' \in Seq(Value) /\ output' \in Seq(Value)
    <3>1. CASE B!SerialRead
      <4>1. toClient' = toClient \o output /\ output' = <<>>
        BY <3>1 DEF B!SerialRead
      <4> QED BY <4>1 DEF BenchTypes
    <3>2. CASE B!Reopen
      <4>1. toClient' = toClient /\ output' \in {<<>>, output}
        BY <3>2 DEF B!Reopen
      <4>2. <<>> \in Seq(Value)
        OBVIOUS
      <4> QED BY <4>1, <4>2 DEF BenchTypes
    <3> QED BY <1>4, <3>1, <3>2
  <2> QED BY <1>0, <2>1, <2>2 DEF BenchTypes
<1>5. CASE B!SerialLost \/ B!GiveUp
  <2>1. UNCHANGED <<toBridge, hpc, hand_up, toClient, input, output>>
    BY <1>5 DEF B!SerialLost, B!GiveUp, B!bridgeVars, B!dutVars
  <2> QED BY <1>0, <2>1 DEF BenchTypes
<1> QED BY <1>1, <1>2, <1>3, <1>4, <1>5 DEF B!Bridge

LEMMA BridgeThins ==
  ASSUME BenchTypes, B!Bridge
  PROVE  Thins(AllAnswers', AllAnswers) /\ Thins(AllRequests', AllRequests)
<1>t. /\ toBridge \in Seq(Request) /\ hand_up \in Seq(Request) /\ input \in Seq(Request)
      /\ toClient \in Seq(Value) /\ output \in Seq(Value)
      /\ <<>> \in Seq(Request) /\ <<>> \in Seq(Value)
  BY DEF BenchTypes
<1>1. CASE B!ClientRead
  <2>1. PICK n \in 1 .. Len(toBridge) :
          /\ hand_up' = SubSeq(toBridge, 1, n)
          /\ toBridge' = SubSeq(toBridge, n + 1, Len(toBridge))
    BY <1>1 DEF B!ClientRead
  <2>2. hand_up = <<>> /\ UNCHANGED <<toClient, input, output>>
    BY <1>1 DEF B!ClientRead, B!dutVars, BenchTypes
  <2>3. SubSeq(toBridge, 1, n) \o SubSeq(toBridge, n + 1, Len(toBridge)) = toBridge
    BY <1>t
  <2>4. <<>> \o toBridge = toBridge
    BY <1>t, ConcatEmptySeq
  <2>5. AllRequests' = AllRequests /\ AllAnswers' = AllAnswers
    BY <2>1, <2>2, <2>3, <2>4 DEF AllRequests, AllAnswers
  <2> QED BY <2>5, Streams
<1>2. CASE B!ClientLock \/ B!SerialLost \/ B!GiveUp
  <2>1. UNCHANGED <<toBridge, hand_up, toClient, input, output>>
    BY <1>2 DEF B!ClientLock, B!SerialLost, B!GiveUp, B!bridgeVars, B!dutVars
  <2>2. AllRequests' = AllRequests /\ AllAnswers' = AllAnswers
    BY <2>1 DEF AllRequests, AllAnswers
  <2> QED BY <2>2, Streams
<1>3. CASE B!ClientWrite
  <2>1. /\ hand_up' = <<>> /\ UNCHANGED <<toBridge, toClient, output>>
        /\ input' = IF handle THEN input \o hand_up ELSE input
    BY <1>3 DEF B!ClientWrite
  <2>2. AllAnswers' = AllAnswers /\ <<>> \o toBridge = toBridge
    BY <1>t, <2>1, ConcatEmptySeq DEF AllAnswers
  <2>3. CASE handle
    <3>1. (input \o hand_up) \o toBridge = input \o (hand_up \o toBridge)
      <4>1. input \in Seq(Request) /\ hand_up \in Seq(Request) /\ toBridge \in Seq(Request)
        BY <1>t
      <4> QED BY <4>1, ConcatAssociative
    <3>2. AllRequests' = AllRequests
      BY <2>1, <2>2, <2>3, <3>1 DEF AllRequests
    <3> QED BY <2>2, <3>2, Streams
  <2>4. CASE ~handle
    <3>1. AllRequests' = input \o toBridge
      BY <2>1, <2>2, <2>4 DEF AllRequests
    <3>2. Thins(input \o toBridge, input \o (hand_up \o toBridge))
      BY <1>t, ThinMiddle
    <3> QED BY <2>2, <3>1, <3>2, Streams DEF AllRequests
  <2> QED BY <2>3, <2>4
<1>4. CASE B!SerialRead
  <2>1. /\ toClient' = toClient \o output /\ output' = <<>>
        /\ UNCHANGED <<toBridge, hand_up, input>>
    BY <1>4 DEF B!SerialRead, B!bridgeVars
  <2>2. (toClient \o output) \o <<>> = toClient \o output
    BY <1>t, ConcatEmptySeq
  <2>3. AllRequests' = AllRequests /\ AllAnswers' = AllAnswers
    BY <2>1, <2>2 DEF AllRequests, AllAnswers
  <2> QED BY <2>3, Streams
<1>5. CASE B!Reopen
  <2>1. toClient' = toClient /\ output' \in {<<>>, output} /\ UNCHANGED <<toBridge, hand_up, input>>
    BY <1>5 DEF B!Reopen
  <2>2. AllRequests' = AllRequests
    BY <2>1 DEF AllRequests
  <2>3. Thins(AllAnswers', AllAnswers)
    <3>1. CASE output' = output
      BY <2>1, <3>1, Streams DEF AllAnswers
    <3>2. CASE output' = <<>>
      <4>1. Thins(toClient \o <<>>, toClient \o (output \o <<>>))
        BY <1>t, ThinMiddle
      <4>2. output \o <<>> = output
        BY <1>t, ConcatEmptySeq
      <4> QED BY <2>1, <3>2, <4>1, <4>2 DEF AllAnswers
    <3> QED BY <2>1, <3>1, <3>2
  <2> QED BY <2>2, <2>3, Streams
<1> QED BY <1>1, <1>2, <1>3, <1>4, <1>5 DEF B!Bridge

LEMMA BenchBridge == BenchInv /\ B!Bridge => BenchInv'
<1> SUFFICES ASSUME BenchInv, B!Bridge PROVE BenchInv'
  OBVIOUS
<1>1. UNCHANGED <<bench_pc, call, try, again, calls, known, param>>
  BY DEF B!Bridge, B!ClientRead, B!ClientLock, B!ClientWrite, B!SerialRead, B!SerialLost, B!Reopen,
         B!GiveUp, B!sessionVars, B!dutVars
<1>2. BenchTypes' /\ Thins(AllAnswers', AllAnswers) /\ Thins(AllRequests', AllRequests)
  BY BridgeTypes, BridgeThins DEF BenchInv
<1>3. (\A v : Turning(v) => Turning(v)') /\ (Steady => Steady')
  BY <1>1, <1>2, Lost DEF BenchInv
<1> QED BY <1>1, <1>2, <1>3, Elsewhere DEF BenchInv

(* The autopilot answers.                                                  *)
LEMMA BenchServe == BenchInv /\ B!Serve => BenchInv'
<1> SUFFICES ASSUME BenchInv, B!Serve PROVE BenchInv'
  OBVIOUS
<1> USE DEF BenchInv
<1> DEFINE h == Head(input)
<1>1. /\ input # <<>> /\ input' = Tail(input) /\ output' = Append(output, param')
      /\ param' = IF h.op = "set" THEN h.val ELSE param
      /\ UNCHANGED <<bench_pc, call, try, again, calls, known, toBridge, hpc, hand_up, toClient>>
  BY DEF B!Serve, B!sessionVars, B!bridgeVars
<1>t. /\ toBridge \in Seq(Request) /\ hand_up \in Seq(Request) /\ input \in Seq(Request)
      /\ toClient \in Seq(Value) /\ output \in Seq(Value) /\ param \in Value
  BY DEF BenchTypes
<1>2. h \in Request /\ param' \in Value
  BY <1>1, <1>t DEF Request
<1>3. BenchTypes'
  BY <1>1, <1>2 DEF BenchTypes
<1>4. AllAnswers' = Append(AllAnswers, param')
  <2> DEFINE z == param'
  <2>1. z \in Value
    BY <1>2
  <2> HIDE DEF z
  <2>2. toClient \o Append(output, z) = Append(toClient \o output, z)
    BY <1>t, <2>1, AppendIsConcat, ConcatAssociative
  <2> QED BY <1>1, <2>2 DEF AllAnswers, z
<1>5. AllRequests # <<>> /\ Head(AllRequests) = h /\ AllRequests' = Tail(AllRequests)
  <2> DEFINE y == hand_up \o toBridge
  <2>1. y \in Seq(Request) /\ input \in Seq(Request) /\ input # <<>>
    BY <1>1, <1>t
  <2> HIDE DEF y
  <2>2. input \o y # <<>> /\ Head(input \o y) = Head(input) /\ Tail(input \o y) = Tail(input) \o y
    BY <2>1
  <2> QED BY <1>1, <2>2 DEF AllRequests, y
<1>6. /\ \A v : Turning(v) => Turning(v)'
      /\ Steady => Steady' /\ param' = param
  <2> DEFINE a == AllAnswers
             q == AllRequests
             z == param'
  <2>1. a \in Seq(Value) /\ q \in Seq(Request) /\ param \in Value /\ z \in Value /\ q # <<>>
    BY <1>t, <1>2, <1>5, Streams
  <2>2. z = (IF Head(q).op = "set" THEN Head(q).val ELSE param)
    BY <1>1, <1>5
  <2>3. AllAnswers' = Append(a, z) /\ AllRequests' = Tail(q)
    BY <1>4, <1>5
  <2> HIDE DEF a, q, z, h
  <2>4. /\ \A v : Turns(a, param, q, v) => Turns(Append(a, z), z, Tail(q), v)
        /\ Uniform(a, param, q) => z = param /\ Uniform(Append(a, z), z, Tail(q))
    BY <2>1, <2>2, Served
  <2> QED BY <2>3, <2>4 DEF Turning, Steady, a, q, z
<1> QED BY <1>1, <1>3, <1>6, Elsewhere

(* The cable comes out, and what was on it is lost, or goes in.            *)
LEMMA BenchCable == BenchInv /\ (B!Unplug \/ B!Plug) => BenchInv'
<1> SUFFICES ASSUME BenchInv, B!Unplug \/ B!Plug PROVE BenchInv'
  OBVIOUS
<1> USE DEF BenchInv
<1>1. UNCHANGED <<bench_pc, call, try, again, calls, known, toBridge, hpc, hand_up, toClient,
                  param>>
  BY DEF B!Unplug, B!Plug, B!sessionVars, B!bridgeVars
<1>2. UNCHANGED <<input, output>> \/ (input' = <<>> /\ output' = <<>>)
  BY DEF B!Unplug, B!Plug
<1>t. /\ toBridge \in Seq(Request) /\ hand_up \in Seq(Request) /\ input \in Seq(Request)
      /\ toClient \in Seq(Value) /\ output \in Seq(Value)
      /\ <<>> \in Seq(Request) /\ <<>> \in Seq(Value) /\ hand_up \o toBridge \in Seq(Request)
  BY DEF BenchTypes
<1>3. BenchTypes'
  BY <1>1, <1>2, <1>t DEF BenchTypes
<1>4. Thins(AllAnswers', AllAnswers) /\ Thins(AllRequests', AllRequests)
  <2>1. CASE UNCHANGED <<input, output>>
    <3>1. AllAnswers' = AllAnswers /\ AllRequests' = AllRequests
      BY <1>1, <2>1 DEF AllAnswers, AllRequests
    <3> QED BY <3>1, Streams
  <2>2. CASE input' = <<>> /\ output' = <<>>
    <3>1. Thins(toClient \o <<>>, toClient \o (output \o <<>>)) /\ output \o <<>> = output
      BY <1>t, ThinMiddle, ConcatEmptySeq
    <3> DEFINE y == hand_up \o toBridge
    <3>2. y \in Seq(Request)
      BY <1>t
    <3> HIDE DEF y
    <3>a. input \in Seq(Request) /\ <<>> \in Seq(Request)
      BY <1>t
    <3>b. Thins(<<>> \o y, <<>> \o (input \o y))
      BY <3>a, <3>2, ThinMiddle
    <3>3. Thins(<<>> \o y, <<>> \o (input \o y)) /\ input \o y \in Seq(Request)
      BY <3>a, <3>b, <3>2
    <3>4. <<>> \o (input \o y) = input \o y
      BY <3>3, ConcatEmptySeq
    <3> QED BY <1>1, <2>2, <3>1, <3>3, <3>4 DEF AllAnswers, AllRequests, y
  <2> QED BY <1>2, <2>1, <2>2
<1>5. (\A v : Turning(v) => Turning(v)') /\ (Steady => Steady')
  BY <1>1, <1>3, <1>4, Lost
<1> QED BY <1>1, <1>3, <1>5, Elsewhere

LEMMA BenchNext == BenchInv /\ [B!Next]_(B!vars) => BenchInv'
<1> SUFFICES ASSUME BenchInv, [B!Next]_(B!vars) PROVE BenchInv'
  OBVIOUS
<1>1. CASE UNCHANGED B!vars
  <2>1. UNCHANGED <<bench_pc, call, again, known, toBridge, hpc, hand_up, toClient>>
    BY <1>1 DEF B!vars, B!sessionVars, B!bridgeVars
  <2>2. UNCHANGED <<input, output, param>>
    BY <1>1 DEF B!vars, B!dutVars
  <2>3. BenchTypes'
    BY <2>1, <2>2 DEF BenchInv, BenchTypes
  <2>4. AllAnswers' = AllAnswers /\ AllRequests' = AllRequests
    BY <2>1, <2>2 DEF AllAnswers, AllRequests
  <2>5. (Steady' <=> Steady) /\ \A v : Turning(v)' <=> Turning(v)
    BY <2>2, <2>4 DEF Steady, Turning
  <2> QED BY <2>1, <2>2, <2>3, <2>5 DEF BenchInv, Session
<1>2. CASE B!Session
  BY <1>2, BenchBegin, BenchSend, BenchHear, BenchTimeOut DEF B!Session
<1>3. CASE B!Dut
  BY <1>3, BenchServe, BenchCable DEF B!Dut
<1> QED BY <1>1, <1>2, <1>3, BenchBridge DEF B!Next

(* What a call that succeeded said of the parameter stays true until the   *)
(* program sets it again.                                                  *)
LEMMA BenchShown == BenchInv => B!Verified
BY DEF BenchInv, Session, B!Verified

------------------------------------------------------------------------------
(* The bench's decoder.                                                    *)

Byte == [frame : Nat, place : Nat \ {0}, id : Known \union Unknown, val : Nat]

(* What the decoder has still to look at, and what is still to come.       *)
Unread == scan \o left

(* The bytes of a stream are in the order they were sent, each frame under *)
(* one identifier and no longer than its second byte says.                 *)
Sorted(s) ==
  \A i, j \in 1 .. Len(s) :
    /\ i < j => s[i].frame < s[j].frame \/ (s[i].frame = s[j].frame /\ s[i].place < s[j].place)
    /\ s[i].frame = s[j].frame =>
         /\ s[i].id = s[j].id
         /\ s[i].place = 2 => s[j].place <= 5 + s[i].val

(* From k on the stream has all the bytes of f.                            *)
EndAt(s, k) == k + 4 + s[k + 1].val
FrameAt(s, k, f) ==
  /\ k \in 1 .. Len(s) /\ k + 4 <= Len(s) /\ EndAt(s, k) <= Len(s)
  /\ \A i \in k .. EndAt(s, k) : s[i].frame = f /\ s[i].place = i - k + 1
  /\ s[k].val = StartByte /\ s[k + 2].val = 0 /\ s[k + 3].val = s[k].id

DecoderTypes ==
  /\ sending \in Nat /\ left \in Seq(Byte) /\ losing \in BOOLEAN /\ torn \in BOOLEAN /\ gaps \in Nat
  /\ scan \in Seq(Byte) /\ nil \in BOOLEAN /\ framed \in Seq(Nat)
  /\ whole \subseteq 0 .. sending /\ eaten \subseteq 0 .. sending

(* Frames come before what is unread; what was eaten cannot come any more. *)
Placed ==
  /\ Sorted(Unread)
  /\ \A i \in 1 .. Len(Unread) : Unread[i].frame <= sending
  /\ \A i \in 1 .. Len(left) : left[i].frame = sending
  /\ left # <<>> => sending \notin whole
  /\ \A j \in 1 .. Len(framed) :
       /\ framed[j] <= sending /\ framed[j] \notin eaten
       /\ j > 1 => framed[j - 1] < framed[j]
       /\ \A i \in 1 .. Len(Unread) : framed[j] < Unread[i].frame
  /\ \A i \in 1 .. Len(Unread) : Unread[i].frame \in eaten => Unread[i].place # 1

Out(f) == \E j \in 1 .. Len(framed) : framed[j] = f

(* A frame fed whole waits in the buffer, unless it came out or was eaten; *)
(* so does the part fed of one that may be.                                *)
Waiting ==
  /\ \A f \in whole : Out(f) \/ f \in eaten
       \/ \E k \in 1 .. Len(Unread) : /\ FrameAt(Unread, k, f) /\ Unread[k].id \in Known
                                      /\ EndAt(Unread, k) <= Len(scan)
  /\ left # <<>> /\ ~torn =>
       sending \in eaten \/ \E k \in 1 .. Len(Unread) : FrameAt(Unread, k, sending)

(* Without a gap there are but whole frames, and what the decoder waits    *)
(* with is the beginning of the last.                                      *)
Framed(s) ==
  /\ s # <<>> => s[1].place = 1
  /\ \A k \in 1 .. Len(s) : s[k].place = 1 =>
       FrameAt(s, k, s[k].frame) /\ (EndAt(s, k) < Len(s) => s[EndAt(s, k) + 1].place = 1)
Honest ==
  gaps = 0 =>
    /\ ~losing /\ ~torn /\ eaten = {} /\ Framed(Unread)
    /\ nil => (\A i \in 1 .. Len(scan) : scan[i].frame = sending) /\ (scan = <<>> \/ left # <<>>)

DecoderInv == DecoderTypes /\ Placed /\ Waiting /\ Honest

(* A sequence and another after it.                                        *)
LEMMA Concat ==
  ASSUME NEW S, NEW a \in Seq(S), NEW b \in Seq(S)
  PROVE  /\ a \o b \in Seq(S) /\ Len(a \o b) = Len(a) + Len(b)
         /\ Len(a) \in Nat /\ Len(b) \in Nat
         /\ \A i \in 1 .. Len(a) : (a \o b)[i] = a[i]
         /\ \A i \in 1 .. Len(b) : (a \o b)[Len(a) + i] = b[i]
         /\ \A i \in 1 .. Len(a) + Len(b) :
              i \in 1 .. Len(a) \/ (i - Len(a) \in 1 .. Len(b) /\ (a \o b)[i] = b[i - Len(a)])
OBVIOUS

LEMMA Joined ==
  ASSUME NEW a \in Seq(Byte), NEW b \in Seq(Byte)
  PROVE  /\ a \o b \in Seq(Byte) /\ Len(a \o b) = Len(a) + Len(b)
         /\ Len(a) \in Nat /\ Len(b) \in Nat
         /\ \A i \in 1 .. Len(a) : (a \o b)[i] = a[i]
         /\ \A i \in 1 .. Len(b) : (a \o b)[Len(a) + i] = b[i]
         /\ \A i \in 1 .. Len(a) + Len(b) :
              i \in 1 .. Len(a) \/ (i - Len(a) \in 1 .. Len(b) /\ (a \o b)[i] = b[i - Len(a)])
OBVIOUS

LEMMA ByteTypes ==
  ASSUME NEW s \in Seq(Byte), NEW i \in 1 .. Len(s)
  PROVE  /\ s[i] \in Byte /\ s[i].frame \in Nat /\ s[i].place \in Nat /\ s[i].place > 0
         /\ s[i].val \in Nat
<1>1. s[i] \in Byte
  OBVIOUS
<1>2. Known \subseteq Nat /\ Unknown \subseteq Nat
  BY ServicesAssumption
<1> QED BY <1>1, <1>2 DEF Byte

(* Where a frame lies.                                                     *)
LEMMA FrameSpan ==
  ASSUME NEW s \in Seq(Byte), NEW k, NEW f, FrameAt(s, k, f)
  PROVE  /\ k \in 1 .. Len(s) /\ k + 1 \in 1 .. Len(s) /\ k + 2 \in 1 .. Len(s)
         /\ k + 3 \in 1 .. Len(s) /\ EndAt(s, k) \in 1 .. Len(s) /\ EndAt(s, k) >= k + 4
         /\ s[k].frame = f /\ s[k].place = 1 /\ s[k + 1].frame = f /\ s[k + 1].place = 2
<1>1. k \in 1 .. Len(s) /\ k + 4 <= Len(s) /\ EndAt(s, k) <= Len(s) /\ Len(s) \in Nat
  BY DEF FrameAt
<1>2. k + 1 \in 1 .. Len(s) /\ k + 2 \in 1 .. Len(s) /\ k + 3 \in 1 .. Len(s)
  BY <1>1
<1>3. s[k + 1].val \in Nat
  BY <1>2, ByteTypes
<1>4. EndAt(s, k) \in 1 .. Len(s) /\ EndAt(s, k) >= k + 4
  BY <1>1, <1>3 DEF EndAt
<1>5. k \in k .. EndAt(s, k) /\ k + 1 \in k .. EndAt(s, k) /\ k - k + 1 = 1 /\ (k + 1) - k + 1 = 2
  BY <1>1, <1>4
<1>6. s[k].frame = f /\ s[k].place = k - k + 1
  BY <1>5 DEF FrameAt
<1>7. s[k + 1].frame = f /\ s[k + 1].place = (k + 1) - k + 1
  BY <1>5 DEF FrameAt
<1> QED BY <1>1, <1>2, <1>4, <1>5, <1>6, <1>7

(* The bytes of a frame after its own are of later frames.                 *)
LEMMA FrameEnds ==
  ASSUME NEW s \in Seq(Byte), Sorted(s), NEW k, NEW f, FrameAt(s, k, f),
         NEW i \in 1 .. Len(s), i > EndAt(s, k)
  PROVE  f < s[i].frame
<1> DEFINE e == EndAt(s, k)
<1>1. /\ k \in 1 .. Len(s) /\ k + 1 \in 1 .. Len(s) /\ e \in 1 .. Len(s) /\ e >= k + 4
      /\ s[k + 1].frame = f /\ s[k + 1].place = 2
  BY FrameSpan
<1>2. e \in k .. e
  BY <1>1
<1>3. s[e].frame = f /\ s[e].place = e - k + 1
  BY <1>2 DEF FrameAt
<1>4. e = k + 4 + s[k + 1].val
  BY DEF EndAt
<1> HIDE DEF e
<1>5. s[e].frame < s[i].frame \/ (s[e].frame = s[i].frame /\ s[e].place < s[i].place)
  <2>1. e < i
    BY DEF e
  <2> QED BY <1>1, <2>1 DEF Sorted
<1>6. CASE s[e].frame = s[i].frame /\ s[e].place < s[i].place
  <2>1. s[i].place <= 5 + s[k + 1].val
    <3>1. s[k + 1].frame = s[i].frame
      BY <1>1, <1>3, <1>6
    <3> QED BY <1>1, <3>1 DEF Sorted
  <2> DEFINE v == s[k + 1].val
             x == s[e].place
  <2>2. s[i].place \in Nat /\ v \in Nat /\ k \in Nat
    BY <1>1, ByteTypes
  <2>3. x = e - k + 1 /\ e = k + 4 + v /\ x < s[i].place /\ s[i].place <= 5 + v
    BY <1>3, <1>4, <1>6, <2>1
  <2> HIDE DEF v, x
  <2> QED BY <2>2, <2>3
<1> QED BY <1>3, <1>5, <1>6

(* The stream without its first m bytes.                                   *)
Shorter(s, m, t) ==
  m \in 0 .. Len(s) /\ Len(t) = Len(s) - m /\ \A i \in 1 .. Len(t) : t[i] = s[i + m]

LEMMA Dropped ==
  ASSUME NEW s \in Seq(Byte), NEW t \in Seq(Byte), NEW m, Shorter(s, m, t), Sorted(s)
  PROVE  Sorted(t)
<1>0. /\ Len(s) \in Nat /\ Len(t) \in Nat /\ m \in 0 .. Len(s) /\ Len(t) = Len(s) - m
      /\ \A i \in 1 .. Len(t) : t[i] = s[i + m]
  BY DEF Shorter
<1> SUFFICES ASSUME NEW i \in 1 .. Len(t), NEW j \in 1 .. Len(t)
             PROVE  /\ i < j => t[i].frame < t[j].frame
                                \/ (t[i].frame = t[j].frame /\ t[i].place < t[j].place)
                    /\ t[i].frame = t[j].frame =>
                         /\ t[i].id = t[j].id
                         /\ t[i].place = 2 => t[j].place <= 5 + t[i].val
  BY DEF Sorted
<1>1. /\ i + m \in 1 .. Len(s) /\ j + m \in 1 .. Len(s) /\ t[i] = s[i + m] /\ t[j] = s[j + m]
      /\ i < j => i + m < j + m
  BY <1>0
<1> QED BY <1>1 DEF Sorted

LEMMA DroppedFrame ==
  ASSUME NEW s \in Seq(Byte), NEW t \in Seq(Byte), NEW m, Shorter(s, m, t),
         NEW k, NEW f, FrameAt(s, k, f), NEW x \in Nat \ {0}, k = x + m
  PROVE  x \in 1 .. Len(t) /\ FrameAt(t, x, f) /\ EndAt(s, k) = EndAt(t, x) + m
<1>0. /\ Len(s) \in Nat /\ Len(t) \in Nat /\ m \in 0 .. Len(s) /\ Len(t) = Len(s) - m
      /\ \A i \in 1 .. Len(t) : t[i] = s[i + m]
  BY DEF Shorter
<1> DEFINE e == EndAt(s, k)
           d == EndAt(t, x)
<1>1. /\ k + 1 \in 1 .. Len(s) /\ k + 2 \in 1 .. Len(s) /\ k + 3 \in 1 .. Len(s)
      /\ e \in 1 .. Len(s) /\ e >= k + 4 /\ k + 4 <= Len(s)
  BY FrameSpan DEF FrameAt
<1>2. /\ x \in 1 .. Len(t) /\ x + 1 \in 1 .. Len(t) /\ x + 2 \in 1 .. Len(t)
      /\ x + 3 \in 1 .. Len(t) /\ x + 4 <= Len(t) /\ x + m = k
      /\ (x + 1) + m = k + 1 /\ (x + 2) + m = k + 2 /\ (x + 3) + m = k + 3
  <2>1. k \in Nat /\ m \in Nat /\ x + 4 <= Len(t) /\ k = x + m
    BY <1>0, <1>1
  <2> QED BY <1>0, <2>1
<1>3. t[x] = s[k] /\ t[x + 1] = s[k + 1] /\ t[x + 2] = s[k + 2] /\ t[x + 3] = s[k + 3]
  <2> QED BY <1>0, <1>2
<1>4. s[k + 1].val \in Nat
  BY <1>1, ByteTypes
<1>5. e = d + m /\ d <= Len(t) /\ d \in Nat
  <2> DEFINE v == s[k + 1].val
  <2>1. d = x + 4 + v /\ e = k + 4 + v
    BY <1>3 DEF EndAt
  <2>2. k = x + m /\ e <= Len(s) /\ v \in Nat
    BY <1>1, <1>4
  <2> HIDE DEF d, e, v
  <2> QED BY <1>0, <2>1, <2>2
<1>6. ASSUME NEW i \in x .. d PROVE t[i].frame = f /\ t[i].place = i - x + 1
  <2>1. i + m \in k .. e /\ i \in 1 .. Len(t) /\ (i + m) - k + 1 = i - x + 1
    <3> HIDE DEF d, e
    <3> QED BY <1>0, <1>1, <1>2, <1>5, <1>6
  <2>2. s[i + m].frame = f /\ s[i + m].place = (i + m) - k + 1
    BY <2>1 DEF FrameAt
  <2>3. t[i] = s[i + m]
    BY <1>0, <2>1
  <2> HIDE DEF d, e
  <2> QED BY <2>1, <2>2, <2>3
<1>7. s[k].val = StartByte /\ s[k + 2].val = 0 /\ s[k + 3].val = s[k].id
  BY DEF FrameAt
<1>8. FrameAt(t, x, f)
  BY <1>2, <1>3, <1>5, <1>6, <1>7 DEF FrameAt
<1> QED BY <1>0, <1>1, <1>2, <1>5, <1>8

LEMMA UnreadIs ==
  ASSUME DecoderTypes
  PROVE  /\ Unread \in Seq(Byte) /\ Len(Unread) = Len(scan) + Len(left)
         /\ scan \in Seq(Byte) /\ left \in Seq(Byte) /\ Len(scan) \in Nat /\ Len(left) \in Nat
         /\ \A i \in 1 .. Len(scan) : Unread[i] = scan[i] /\ i \in 1 .. Len(Unread)
         /\ \A i \in 1 .. Len(left) :
              Unread[Len(scan) + i] = left[i] /\ Len(scan) + i \in 1 .. Len(Unread)
         /\ \A i \in 1 .. Len(Unread) :
              \/ i \in 1 .. Len(scan)
              \/ i - Len(scan) \in 1 .. Len(left) /\ Unread[i] = left[i - Len(scan)]
<1>1. scan \in Seq(Byte) /\ left \in Seq(Byte)
  BY DEF DecoderTypes
<1> QED BY <1>1, Joined DEF Unread

(* The parser does away with the first m bytes: what holds of the rest.    *)
LEMMA Parsed ==
  ASSUME DecoderInv, NEW m \in 1 .. Len(scan), scan' = SubSeq(scan, m + 1, Len(scan)), ~nil,
         UNCHANGED <<sending, left, losing, torn, gaps, nil, whole>>,
         framed' \in Seq(Nat), eaten' \subseteq 0 .. sending, eaten \subseteq eaten',
         \A f : Out(f) => Out(f)',
         \A j \in 1 .. Len(framed') :
           /\ framed'[j] <= sending /\ framed'[j] \notin eaten'
           /\ j > 1 => framed'[j - 1] < framed'[j]
           /\ \A i \in m + 1 .. Len(Unread) : framed'[j] < Unread[i].frame,
         \A i \in m + 1 .. Len(Unread) : Unread[i].frame \in eaten' => Unread[i].place # 1,
         \A k \in 1 .. m, f \in whole : FrameAt(Unread, k, f) /\ Unread[k].id \in Known
           /\ EndAt(Unread, k) <= Len(scan) => Out(f)' \/ f \in eaten',
         \A k \in 1 .. m : FrameAt(Unread, k, sending) /\ left # <<>> => sending \in eaten',
         FrameAt(Unread, 1, Unread[1].frame) => m = EndAt(Unread, 1) /\ eaten' \subseteq eaten
  PROVE  DecoderInv'
<1> DEFINE s == Unread
           t == Unread'
           n == Len(scan)
<1>1. /\ s \in Seq(Byte) /\ Len(s) = n + Len(left) /\ n \in Nat /\ Len(left) \in Nat
      /\ scan \in Seq(Byte) /\ left \in Seq(Byte)
      /\ \A i \in 1 .. n : s[i] = scan[i] /\ i \in 1 .. Len(s)
      /\ \A i \in 1 .. Len(left) : s[n + i] = left[i] /\ n + i \in 1 .. Len(s)
  BY UnreadIs DEF DecoderInv
<1>2. /\ scan' \in Seq(Byte) /\ Len(scan') = n - m /\ \A i \in 1 .. n - m : scan'[i] = scan[i + m]
  BY <1>1
<1>3. DecoderTypes'
  BY <1>2 DEF DecoderInv, DecoderTypes
<1>4. /\ t \in Seq(Byte) /\ Len(t) = Len(scan') + Len(left)
      /\ \A i \in 1 .. Len(scan') : t[i] = scan'[i]
      /\ \A i \in 1 .. Len(left) : t[Len(scan') + i] = left[i]
      /\ \A i \in 1 .. Len(scan') + Len(left) :
           i \in 1 .. Len(scan')
             \/ (i - Len(scan') \in 1 .. Len(left) /\ t[i] = left[i - Len(scan')])
  <2> DEFINE b == scan'
  <2>1. b \in Seq(Byte) /\ left' = left
    BY <1>2
  <2>2. t = b \o left
    BY <2>1 DEF Unread
  <2> HIDE DEF b, t
  <2>3. /\ t \in Seq(Byte) /\ Len(t) = Len(b) + Len(left)
        /\ \A i \in 1 .. Len(b) : t[i] = b[i]
        /\ \A i \in 1 .. Len(left) : t[Len(b) + i] = left[i]
        /\ \A i \in 1 .. Len(b) + Len(left) :
             i \in 1 .. Len(b) \/ (i - Len(b) \in 1 .. Len(left) /\ t[i] = left[i - Len(b)])
    BY <1>1, <2>1, <2>2, Joined
  <2> QED BY <2>3 DEF b
<1>5. /\ m \in 0 .. Len(s) /\ Len(t) = Len(s) - m
      /\ \A i \in 1 .. Len(t) : t[i] = s[i + m] /\ i + m \in m + 1 .. Len(s)
  <2>1. m \in 0 .. Len(s) /\ Len(t) = Len(s) - m
    BY <1>1, <1>2, <1>4
  <2> SUFFICES ASSUME NEW i \in 1 .. Len(t) PROVE t[i] = s[i + m] /\ i + m \in m + 1 .. Len(s)
    BY <2>1
  <2>2. i + m \in m + 1 .. Len(s)
    BY <1>1, <2>1
  <2>3. CASE i \in 1 .. n - m
    <3>1. i + m \in 1 .. n
      BY <1>1, <2>3
    <3>2. t[i] = scan'[i] /\ scan'[i] = scan[i + m] /\ s[i + m] = scan[i + m]
      BY <1>1, <1>2, <1>4, <2>3, <3>1
    <3> QED BY <2>2, <3>2
  <2>4. CASE i \notin 1 .. n - m
    <3>1. i - (n - m) \in 1 .. Len(left) /\ t[i] = left[i - (n - m)]
      BY <1>2, <1>4, <2>1, <2>4
    <3>2. n + (i - (n - m)) = i + m
      BY <1>1
    <3>3. s[i + m] = left[i - (n - m)]
      BY <1>1, <3>1, <3>2
    <3> QED BY <2>2, <3>1, <3>3
  <2> QED BY <2>3, <2>4
<1> HIDE DEF s, t, n
<1>6. /\ Sorted(s) => Sorted(t)
      /\ \A f : \A k \in m + 1 .. Len(s) : FrameAt(s, k, f) =>
           k - m \in 1 .. Len(t) /\ FrameAt(t, k - m, f) /\ EndAt(t, k - m) = EndAt(s, k) - m
  <2>1. Shorter(s, m, t)
    BY <1>5 DEF Shorter
  <2>2. s \in Seq(Byte) /\ t \in Seq(Byte)
    BY <1>1, <1>4
  <2>3. Sorted(s) => Sorted(t)
    BY <2>1, <2>2, Dropped
  <2>4. ASSUME NEW f, NEW k \in m + 1 .. Len(s), FrameAt(s, k, f)
        PROVE  k - m \in 1 .. Len(t) /\ FrameAt(t, k - m, f) /\ EndAt(t, k - m) = EndAt(s, k) - m
    <3> DEFINE x == k - m
    <3>1. x \in Nat \ {0} /\ k = x + m
      BY <1>1
    <3> HIDE DEF x
    <3>2. x \in 1 .. Len(t) /\ FrameAt(t, x, f) /\ EndAt(s, k) = EndAt(t, x) + m
      BY <2>1, <2>2, <2>4, <3>1, DroppedFrame
    <3>3. EndAt(t, x) \in 1 .. Len(t)
      BY <2>2, <3>2, FrameSpan
    <3>4. EndAt(t, x) = EndAt(s, k) - m
      BY <1>4, <3>2, <3>3
    <3> QED BY <3>2, <3>4 DEF x
  <2> QED BY <2>3, <2>4
<1>7. Placed'
  <2>1. Sorted(t)
    BY <1>6 DEF DecoderInv, Placed, s
  <2>2. \A i \in 1 .. Len(t) : t[i].frame <= sending
    <3>1. \A i \in m + 1 .. Len(s) : s[i].frame <= sending
      BY <1>1 DEF DecoderInv, Placed, s
    <3> QED BY <1>5, <3>1
  <2>3. \A j \in 1 .. Len(framed') :
          /\ framed'[j] <= sending /\ framed'[j] \notin eaten'
          /\ j > 1 => framed'[j - 1] < framed'[j]
          /\ \A i \in 1 .. Len(t) : framed'[j] < t[i].frame
    BY <1>5 DEF s
  <2>4. \A i \in 1 .. Len(t) : t[i].frame \in eaten' => t[i].place # 1
    BY <1>5 DEF s
  <2>5. /\ sending' = sending
        /\ \A i \in 1 .. Len(left') : left'[i].frame = sending'
        /\ left' # <<>> => sending' \notin whole'
    BY DEF DecoderInv, Placed
  <2> QED BY <2>1, <2>2, <2>3, <2>4, <2>5 DEF Placed, t
<1>8. Waiting'
  <2>1. ASSUME NEW f \in whole
        PROVE  Out(f)' \/ f \in eaten'
                 \/ \E k \in 1 .. Len(t) : /\ FrameAt(t, k, f) /\ t[k].id \in Known
                                           /\ EndAt(t, k) <= Len(scan')
    <3>1. CASE Out(f) \/ f \in eaten
      BY <3>1
    <3>2. CASE \E k \in 1 .. Len(s) : /\ FrameAt(s, k, f) /\ s[k].id \in Known
                                      /\ EndAt(s, k) <= n
      <4>1. PICK k \in 1 .. Len(s) : /\ FrameAt(s, k, f) /\ s[k].id \in Known
                                     /\ EndAt(s, k) <= n
        BY <3>2
      <4>2. CASE k <= m
        <5>1. k \in 1 .. m
          BY <4>2
        <5> QED BY <4>1, <5>1 DEF s, n
      <4>3. CASE k > m
        <5>1. k \in m + 1 .. Len(s) /\ k - m \in Int /\ (k - m) + m = k
          BY <4>3
        <5>2. k - m \in 1 .. Len(t) /\ FrameAt(t, k - m, f) /\ EndAt(t, k - m) = EndAt(s, k) - m
          BY <1>6, <4>1, <5>1
        <5>3. t[k - m] = s[k]
          BY <1>5, <5>1, <5>2
        <5>4. EndAt(s, k) \in 1 .. Len(s)
          BY <1>1, <4>1, FrameSpan
        <5>5. EndAt(t, k - m) <= Len(scan')
          BY <1>1, <1>2, <4>1, <5>2, <5>4
        <5> QED BY <4>1, <5>2, <5>3, <5>5
      <4> QED BY <4>2, <4>3
    <3> QED BY <3>1, <3>2 DEF DecoderInv, Waiting, s, n
  <2>2. ASSUME left # <<>>, ~torn
        PROVE  sending \in eaten' \/ \E k \in 1 .. Len(t) : FrameAt(t, k, sending)
    <3>1. CASE sending \in eaten
      BY <3>1
    <3>2. CASE \E k \in 1 .. Len(s) : FrameAt(s, k, sending)
      <4>1. PICK k \in 1 .. Len(s) : FrameAt(s, k, sending)
        BY <3>2
      <4>2. CASE k <= m
        <5>1. k \in 1 .. m
          BY <4>2
        <5> QED BY <2>2, <4>1, <5>1 DEF s
      <4>3. CASE k > m
        <5>1. k \in m + 1 .. Len(s)
          BY <4>3
        <5> QED BY <1>6, <4>1, <5>1
      <4> QED BY <4>2, <4>3
    <3> QED BY <2>2, <3>1, <3>2 DEF DecoderInv, Waiting, s
  <2> QED BY <2>1, <2>2 DEF Waiting, t
<1>9. Honest'
  <2> SUFFICES ASSUME gaps = 0 PROVE eaten' = {} /\ Framed(t) /\ ~losing /\ ~torn
    BY DEF Honest, t
  <2>1. ~losing /\ ~torn /\ eaten = {} /\ Framed(s)
    BY DEF DecoderInv, Honest, s
  <2>2. 1 \in 1 .. Len(s) /\ s # <<>>
    BY <1>1 DEF n
  <2>3. FrameAt(s, 1, s[1].frame) /\ (EndAt(s, 1) < Len(s) => s[EndAt(s, 1) + 1].place = 1)
    BY <2>1, <2>2 DEF Framed
  <2>4. m = EndAt(s, 1) /\ eaten' = {}
    BY <2>1, <2>3 DEF s
  <2>5. t # <<>> => t[1].place = 1
    <3> SUFFICES ASSUME t # <<>> PROVE t[1].place = 1
      OBVIOUS
    <3>1. 1 \in 1 .. Len(t)
      BY <1>4
    <3>2. t[1] = s[1 + m] /\ m < Len(s) /\ 1 + m = m + 1
      BY <1>5, <3>1
    <3> QED BY <2>3, <2>4, <3>2
  <2>6. ASSUME NEW k \in 1 .. Len(t), t[k].place = 1
        PROVE  FrameAt(t, k, t[k].frame) /\ (EndAt(t, k) < Len(t) => t[EndAt(t, k) + 1].place = 1)
    <3> DEFINE x == k + m
    <3>1. x \in m + 1 .. Len(s) /\ x \in 1 .. Len(s) /\ t[k] = s[x] /\ x - m = k
      BY <1>1, <1>5
    <3> HIDE DEF x
    <3>2. FrameAt(s, x, s[x].frame) /\ (EndAt(s, x) < Len(s) => s[EndAt(s, x) + 1].place = 1)
      BY <2>1, <2>6, <3>1 DEF Framed
    <3>3. FrameAt(t, k, s[x].frame) /\ EndAt(t, k) = EndAt(s, x) - m
      BY <1>6, <3>1, <3>2
    <3>4. EndAt(s, x) \in 1 .. Len(s)
      BY <1>1, <3>2, FrameSpan
    <3>5. ASSUME EndAt(t, k) < Len(t) PROVE t[EndAt(t, k) + 1].place = 1
      <4> DEFINE e == EndAt(s, x)
                 d == EndAt(t, k)
      <4>1. d = e - m /\ e \in 1 .. Len(s) /\ d < Len(t)
        BY <3>3, <3>4, <3>5
      <4>2. d >= 1
        <5>1. d \in 1 .. Len(t)
          BY <1>4, <3>3, FrameSpan
        <5> QED BY <5>1
      <4> HIDE DEF e, d
      <4>3. d + 1 \in 1 .. Len(t) /\ (d + 1) + m = e + 1 /\ e < Len(s)
        <5>1. Len(s) \in Nat /\ Len(t) \in Nat
          BY <1>1, <1>4
        <5>2. Len(t) = Len(s) - m /\ m \in 0 .. Len(s)
          BY <1>5
        <5>3. e \in Int /\ m \in Int /\ d \in Int /\ d < Len(t) /\ d + m = e
          BY <4>1, <5>2
        <5>4. d + 1 \in 1 .. Len(t)
          BY <4>2, <5>1, <5>3
        <5>5. (d + 1) + m = e + 1 /\ e < Len(s)
          BY <5>1, <5>2, <5>3
        <5> QED BY <5>4, <5>5
      <4>4. t[d + 1] = s[e + 1]
        BY <1>5, <4>3
      <4>5. s[e + 1].place = 1
        BY <3>2, <4>3 DEF e
      <4> QED BY <4>4, <4>5 DEF d
    <3> QED BY <3>1, <3>3, <3>5
  <2>7. Framed(t)
    BY <2>5, <2>6 DEF Framed
  <2> QED BY <2>1, <2>4, <2>7
<1> QED BY <1>3, <1>7, <1>8, <1>9 DEF DecoderInv

(* What a step of the parser looks at.                                     *)
LEMMA Looked ==
  ASSUME DecoderInv, D!AtStart
  PROVE  /\ Len(scan) >= 1 /\ scan[1].val = StartByte
         /\ \A i \in 1 .. Len(scan) : scan[i] = Unread[i] /\ i \in 1 .. Len(Unread)
         /\ D!Headed => /\ scan[2].val \in Nat /\ D!Total = EndAt(Unread, 1) /\ D!Total >= 5
                        /\ D!Total = 5 + scan[2].val
<1>1. scan \in Seq(Byte)
  BY DEF DecoderInv, DecoderTypes
<1>2. Len(scan) >= 1 /\ scan[1].val = StartByte
  BY <1>1 DEF D!AtStart
<1>3. \A i \in 1 .. Len(scan) : scan[i] = Unread[i] /\ i \in 1 .. Len(Unread)
  BY UnreadIs DEF DecoderInv
<1>4. ASSUME D!Headed
      PROVE  /\ scan[2].val \in Nat /\ D!Total = EndAt(Unread, 1) /\ D!Total >= 5
             /\ D!Total = 5 + scan[2].val
  <2>1. Len(scan) >= 5 /\ 2 \in 1 .. Len(scan)
    BY <1>1, <1>4 DEF D!Headed, D!Overhead, D!Header
  <2>2. scan[2].val \in Nat /\ scan[2] = Unread[2]
    BY <1>1, <1>3, <2>1, ByteTypes
  <2>3. D!Total = 5 + scan[2].val /\ EndAt(Unread, 1) = 1 + 4 + Unread[1 + 1].val /\ 1 + 1 = 2
    BY DEF D!Total, D!Overhead, D!Header, EndAt
  <2> QED BY <2>2, <2>3
<1> QED BY <1>2, <1>3, <1>4

(* A frame at the head is what its header claims; its sum is right.        *)
LEMMA AtHead ==
  ASSUME DecoderInv, NEW f, FrameAt(Unread, 1, f), scan # <<>>
  PROVE  /\ D!AtStart
         /\ D!Headed => scan[3].val = 0 /\ scan[4].val = Unread[1].id
         /\ D!Complete => D!SumRight
<1>1. /\ Unread \in Seq(Byte) /\ scan \in Seq(Byte)
      /\ \A i \in 1 .. Len(scan) : Unread[i] = scan[i] /\ i \in 1 .. Len(Unread)
  BY UnreadIs DEF DecoderInv
<1>2. /\ Unread[1].val = StartByte /\ Unread[1 + 2].val = 0 /\ Unread[1 + 3].val = Unread[1].id
      /\ \A i \in 1 .. EndAt(Unread, 1) : Unread[i].frame = f /\ Unread[i].place = i - 1 + 1
  BY DEF FrameAt
<1>3. D!AtStart
  <2>1. 1 \in 1 .. Len(scan)
    BY <1>1
  <2> QED BY <1>1, <1>2, <2>1 DEF D!AtStart
<1>4. ASSUME D!Headed PROVE scan[3].val = 0 /\ scan[4].val = Unread[1].id
  <2>1. 3 \in 1 .. Len(scan) /\ 4 \in 1 .. Len(scan) /\ 1 + 2 = 3 /\ 1 + 3 = 4
    BY <1>1, <1>4 DEF D!Headed, D!Overhead, D!Header
  <2> QED BY <1>1, <1>2, <2>1
<1>5. ASSUME D!Complete PROVE D!SumRight
  <2> DEFINE e == D!Total
  <2>1. e = EndAt(Unread, 1) /\ e >= 5 /\ Len(scan) >= e /\ e \in Nat
    <3>1. D!Headed /\ Len(scan) >= e
      BY <1>5 DEF D!Complete
    <3>2. scan[2].val \in Nat /\ e = EndAt(Unread, 1) /\ e >= 5 /\ e = 5 + scan[2].val
      BY <1>3, <3>1, Looked
    <3> QED BY <3>1, <3>2
  <2>2. \A i \in 1 .. e : D!Cut[i] = scan[i]
    <3>1. D!Cut = SubSeq(scan, 1, e)
      BY DEF D!Cut
    <3> HIDE DEF e
    <3> QED BY <1>1, <2>1, <3>1
  <2> HIDE DEF e
  <2>3. ASSUME NEW i \in 1 .. e PROVE D!Cut[i].frame = f /\ D!Cut[i].place = i
    <3>1. i \in 1 .. Len(scan) /\ i \in 1 .. EndAt(Unread, 1) /\ i - 1 + 1 = i
      BY <2>1
    <3>2. D!Cut[i] = Unread[i]
      BY <1>1, <2>2, <3>1
    <3> QED BY <1>2, <3>1, <3>2
  <2>4. 1 \in 1 .. e /\ e \in 1 .. e
    BY <2>1
  <2>5. /\ D!Cut[e].place = e
        /\ \A i \in 1 .. e : D!Cut[i].frame = D!Cut[1].frame /\ D!Cut[i].place = i
    BY <2>3, <2>4
  <2> QED BY <2>5 DEF D!SumRight, e
<1> QED BY <1>3, <1>4, <1>5

(* A byte that begins no frame.                                            *)
LEMMA OneDropped ==
  ASSUME DecoderInv, ~nil, scan # <<>>, scan' = Tail(scan),
         UNCHANGED <<sending, left, losing, torn, gaps, nil, framed, whole, eaten>>,
         \A f : ~FrameAt(Unread, 1, f)
  PROVE  DecoderInv'
<1>1. scan \in Seq(Byte) /\ framed \in Seq(Nat) /\ eaten \subseteq 0 .. sending
  BY DEF DecoderInv, DecoderTypes
<1>2. 1 \in 1 .. Len(scan) /\ Tail(scan) = SubSeq(scan, 1 + 1, Len(scan))
  BY <1>1, TailIsSubSeq
<1>3. Len(Unread) \in Nat
  BY UnreadIs DEF DecoderInv
<1>4. \A f : Out(f) => Out(f)'
  BY DEF Out
<1>5. \A j \in 1 .. Len(framed) :
        /\ framed[j] <= sending /\ framed[j] \notin eaten
        /\ j > 1 => framed[j - 1] < framed[j]
        /\ \A i \in 1 + 1 .. Len(Unread) : framed[j] < Unread[i].frame
  <2>1. \A i \in 1 + 1 .. Len(Unread) : i \in 1 .. Len(Unread)
    BY <1>3
  <2> QED BY <2>1 DEF DecoderInv, Placed
<1>6. \A i \in 1 + 1 .. Len(Unread) : Unread[i].frame \in eaten => Unread[i].place # 1
  <2>1. \A i \in 1 + 1 .. Len(Unread) : i \in 1 .. Len(Unread)
    BY <1>3
  <2> QED BY <2>1 DEF DecoderInv, Placed
<1>7. \A f : \A k \in 1 .. 1 : ~FrameAt(Unread, k, f)
  OBVIOUS
<1> QED BY <1>1, <1>2, <1>4, <1>5, <1>6, <1>7, Parsed

LEMMA OnNoise ==
  ASSUME DecoderInv, D!Noise \/ D!FlagsBad \/ D!FalseStart
  PROVE  DecoderInv'
<1>1. /\ ~nil /\ scan # <<>> /\ scan' = Tail(scan)
      /\ UNCHANGED <<sending, left, losing, torn, gaps, nil, framed, whole, eaten>>
  BY DEF D!Noise, D!FlagsBad, D!FalseStart, D!Complete, D!Headed, D!AtStart, D!DropFirst,
         D!streamVars, D!historyVars
<1>2. ASSUME NEW f, FrameAt(Unread, 1, f) PROVE FALSE
  <2>1. /\ D!AtStart
        /\ D!Headed => scan[3].val = 0 /\ scan[4].val = Unread[1].id
        /\ D!Complete => D!SumRight
    BY <1>1, <1>2, AtHead
  <2> QED BY <2>1 DEF D!Noise, D!FlagsBad, D!FalseStart
<1> QED BY <1>1, <1>2, OneDropped

(* What a complete frame, or what looks like one, takes from the buffer.   *)
LEMMA Whole1 ==
  ASSUME DecoderInv, D!Complete
  PROVE  /\ D!Total \in 1 .. Len(scan) /\ D!Total >= 5 /\ ~nil /\ D!Total \in Nat
         /\ D!Total = EndAt(Unread, 1) /\ D!Total = 5 + Unread[2].val /\ Unread[2].val \in Nat
         /\ \A i \in 1 .. D!Total : /\ D!Cut[i] = Unread[i] /\ i \in 1 .. Len(scan)
                                    /\ i \in 1 .. Len(Unread) /\ scan[i] = Unread[i]
<1>1. D!Headed /\ D!AtStart /\ Len(scan) >= D!Total /\ ~nil
  BY DEF D!Complete, D!Headed
<1>2. /\ \A i \in 1 .. Len(scan) : scan[i] = Unread[i] /\ i \in 1 .. Len(Unread)
      /\ scan[2].val \in Nat /\ D!Total = EndAt(Unread, 1) /\ D!Total >= 5
      /\ D!Total = 5 + scan[2].val
  BY <1>1, Looked
<1>3. scan \in Seq(Byte) /\ Len(scan) \in Nat
  BY UnreadIs DEF DecoderInv
<1> DEFINE m == D!Total
<1>4. m \in Nat /\ m >= 5 /\ m <= Len(scan)
  <2>1. m = 5 + scan[2].val /\ m <= Len(scan)
    BY <1>1, <1>2, <1>3
  <2> HIDE DEF m
  <2> QED BY <1>2, <2>1
<1>5. D!Cut = SubSeq(scan, 1, m)
  BY DEF D!Cut
<1> HIDE DEF m
<1>6. \A i \in 1 .. m : D!Cut[i] = scan[i] /\ i \in 1 .. Len(scan)
  BY <1>3, <1>4, <1>5
<1>7. 2 \in 1 .. Len(scan) /\ m \in 1 .. Len(scan)
  BY <1>3, <1>4
<1> QED BY <1>1, <1>2, <1>4, <1>6, <1>7 DEF m

(* A frame cut off by the end of the buffer is not all in it.              *)
LEMMA CutOff ==
  ASSUME DecoderInv, NEW k, FrameAt(Unread, k, sending), left # <<>>
  PROVE  EndAt(Unread, k) > Len(scan)
<1>1. /\ Unread \in Seq(Byte) /\ left \in Seq(Byte) /\ Len(scan) \in Nat /\ Len(left) \in Nat
      /\ Sorted(Unread)
  BY UnreadIs DEF DecoderInv, Placed
<1>2. 1 \in 1 .. Len(left)
  BY <1>1
<1> DEFINE n == Len(scan) + 1
<1>3. Unread[n] = left[1] /\ n \in 1 .. Len(Unread) /\ left[1].frame = sending /\ sending \in Nat
  BY <1>2, UnreadIs DEF DecoderInv, DecoderTypes, Placed
<1>4. EndAt(Unread, k) \in 1 .. Len(Unread)
  BY <1>1, FrameSpan
<1>5. ASSUME n > EndAt(Unread, k) PROVE FALSE
  <2>1. sending < Unread[n].frame
    BY <1>1, <1>3, <1>5, FrameEnds
  <2> QED BY <1>3, <2>1
<1> QED BY <1>1, <1>4, <1>5

LEMMA OnReturn ==
  ASSUME DecoderInv, D!Return
  PROVE  DecoderInv'
<1> DEFINE m == D!Total
           s == Unread
           g == Unread[1].frame
<1>1. /\ D!Complete /\ D!SumRight /\ framed' = Append(framed, scan[1].frame)
      /\ scan' = SubSeq(scan, m + 1, Len(scan))
      /\ UNCHANGED <<sending, left, losing, torn, gaps, nil, whole, eaten>>
  BY DEF D!Return, D!streamVars
<1>2. /\ m \in 1 .. Len(scan) /\ m >= 5 /\ ~nil /\ m \in Nat
      /\ m = EndAt(s, 1) /\ m = 5 + s[2].val /\ s[2].val \in Nat
      /\ \A i \in 1 .. m : /\ D!Cut[i] = s[i] /\ i \in 1 .. Len(scan)
                           /\ i \in 1 .. Len(s) /\ scan[i] = s[i]
  BY <1>1, Whole1
<1>3. s \in Seq(Byte) /\ Len(s) \in Nat /\ Len(scan) <= Len(s) /\ Len(scan) \in Nat
  BY UnreadIs DEF DecoderInv
<1>4. \A i \in 1 .. m : s[i].frame = g /\ s[i].place = i
  <2>1. \A i \in 1 .. m : D!Cut[i].frame = D!Cut[1].frame /\ D!Cut[i].place = i
    BY <1>1 DEF D!SumRight
  <2>2. 1 \in 1 .. m
    BY <1>2
  <2> HIDE DEF m
  <2>3. ASSUME NEW i \in 1 .. m PROVE s[i].frame = g /\ s[i].place = i
    <3>1. D!Cut[i] = s[i] /\ D!Cut[1] = s[1]
      BY <1>2, <2>2
    <3> QED BY <2>1, <3>1
  <2> QED BY <2>3
<1>5. 1 \in 1 .. m /\ 2 \in 1 .. m /\ m \in 1 .. m
  BY <1>2
<1>6. g \in Nat /\ g <= sending /\ g \notin eaten /\ scan[1].frame = g /\ sending \in Nat
  <2>1. 1 \in 1 .. Len(s) /\ scan[1] = s[1] /\ s[1].place = 1
    BY <1>2, <1>4, <1>5
  <2> QED BY <1>3, <2>1, ByteTypes DEF DecoderInv, DecoderTypes, Placed
<1> HIDE DEF m
<1>7. ASSUME NEW i \in m + 1 .. Len(s) PROVE g < s[i].frame
  <2>1. /\ i \in 1 .. Len(s) /\ m < i /\ m \in 1 .. Len(s) /\ 2 \in 1 .. Len(s)
        /\ s[2].frame = g /\ s[2].place = 2 /\ s[m].frame = g /\ s[m].place = m
    BY <1>2, <1>3, <1>4, <1>5
  <2>2. s[m].frame < s[i].frame \/ (s[m].frame = s[i].frame /\ s[m].place < s[i].place)
    BY <2>1 DEF DecoderInv, Placed, Sorted
  <2>3. s[2].frame = s[i].frame => s[i].place <= 5 + s[2].val
    BY <2>1 DEF DecoderInv, Placed, Sorted
  <2>4. s[i].place \in Nat
    BY <1>3, <2>1, ByteTypes
  <2> QED BY <1>2, <2>1, <2>2, <2>3, <2>4
<1>8. framed \in Seq(Nat) /\ eaten \subseteq 0 .. sending
  BY DEF DecoderInv, DecoderTypes
<1>9. /\ framed' \in Seq(Nat) /\ Len(framed') = Len(framed) + 1 /\ framed'[Len(framed) + 1] = g
      /\ \A j \in 1 .. Len(framed) : framed'[j] = framed[j] /\ j \in 1 .. Len(framed')
      /\ Len(framed) + 1 \in 1 .. Len(framed') /\ Len(framed) \in Nat
  BY <1>1, <1>6, <1>8
<1>10. ASSUME NEW f, Out(f) \/ f = g PROVE Out(f)'
  <2>1. \E j \in 1 .. Len(framed') : framed'[j] = f
    <3>1. CASE f = g
      BY <1>9, <3>1
    <3>2. CASE Out(f)
      <4>1. PICK j \in 1 .. Len(framed) : framed[j] = f
        BY <3>2 DEF Out
      <4> QED BY <1>9, <4>1
    <3> QED BY <1>10, <3>1, <3>2
  <2> QED BY <2>1 DEF Out
<1>11. ASSUME NEW j \in 1 .. Len(framed')
       PROVE  /\ framed'[j] <= sending /\ framed'[j] \notin eaten
              /\ j > 1 => framed'[j - 1] < framed'[j]
              /\ \A i \in m + 1 .. Len(s) : framed'[j] < s[i].frame
  <2>1. CASE j \in 1 .. Len(framed)
    <3>1. framed'[j] = framed[j] /\ (j > 1 => framed'[j - 1] = framed[j - 1])
      BY <1>9, <2>1
    <3>2. \A i \in m + 1 .. Len(s) : i \in 1 .. Len(s)
      BY <1>2, <1>3
    <3> QED BY <2>1, <3>1, <3>2 DEF DecoderInv, Placed
  <2>2. CASE j = Len(framed) + 1
    <3>1. framed'[j] = g
      BY <1>9, <2>2
    <3>2. ASSUME j > 1 PROVE framed'[j - 1] < framed'[j]
      <4>1. j - 1 \in 1 .. Len(framed) /\ framed'[j - 1] = framed[j - 1]
        BY <1>9, <2>2, <3>2
      <4>2. 1 \in 1 .. Len(s)
        BY <1>2, <1>5
      <4>3. framed[j - 1] < g
        BY <4>1, <4>2 DEF DecoderInv, Placed
      <4> QED BY <3>1, <4>1, <4>3
    <3> QED BY <1>6, <1>7, <3>1, <3>2
  <2>3. j \in 1 .. Len(framed) \/ j = Len(framed) + 1
    BY <1>9
  <2> QED BY <2>1, <2>2, <2>3
<1>12. ASSUME NEW i \in m + 1 .. Len(s), s[i].frame \in eaten PROVE s[i].place # 1
  <2>1. i \in 1 .. Len(s)
    BY <1>2, <1>3
  <2> QED BY <1>12, <2>1 DEF DecoderInv, Placed
<1>13. ASSUME NEW k \in 1 .. m, NEW f, FrameAt(s, k, f) PROVE f = g /\ k = 1
  <2>1. s[k].frame = f /\ s[k].place = 1
    <3>1. s \in Seq(Byte)
      BY <1>3
    <3> HIDE DEF s
    <3> QED BY <1>13, <3>1, FrameSpan
  <2> QED BY <1>4, <2>1
<1>14. ASSUME NEW k \in 1 .. m, FrameAt(s, k, sending), left # <<>> PROVE FALSE
  <2>1. k = 1
    BY <1>13, <1>14
  <2>2. EndAt(s, 1) > Len(scan)
    BY <1>14, <2>1, CutOff
  <2> QED BY <1>2, <1>3, <2>2
<1>15. eaten' \subseteq eaten /\ eaten \subseteq eaten' /\ eaten' \subseteq 0 .. sending
  BY <1>1, <1>8
<1>16. \A k \in 1 .. m, f \in whole : FrameAt(s, k, f) => Out(f)'
  BY <1>10, <1>13
<1>17. UNCHANGED <<sending, left, losing, torn, gaps, nil, whole>> /\ ~nil
  BY <1>1, <1>2
<1>18. /\ \A j \in 1 .. Len(framed') :
            /\ framed'[j] <= sending /\ framed'[j] \notin eaten'
            /\ j > 1 => framed'[j - 1] < framed'[j]
            /\ \A i \in m + 1 .. Len(s) : framed'[j] < s[i].frame
       /\ \A i \in m + 1 .. Len(s) : s[i].frame \in eaten' => s[i].place # 1
  BY <1>1, <1>11, <1>12
<1>19. scan' = SubSeq(scan, m + 1, Len(scan)) /\ m \in 1 .. Len(scan) /\ m = EndAt(s, 1)
  BY <1>1, <1>2
<1> QED BY <1>9, <1>10, <1>14, <1>15, <1>16, <1>17, <1>18, <1>19, Parsed

(* An unknown frame is skipped whole; what lies in it is eaten.            *)
LEMMA OnSkip ==
  ASSUME DecoderInv, D!SkipUnknown
  PROVE  DecoderInv'
<1> DEFINE m == D!Total
           s == Unread
           X == {D!Cut[i].frame : i \in {j \in 1 .. m : \/ scan[1].place # 1
                                                        \/ D!Cut[j].frame # scan[1].frame}}
<1>1. /\ D!Complete /\ scan[4].val \notin Known /\ eaten' = eaten \union X
      /\ scan' = SubSeq(scan, m + 1, Len(scan))
      /\ UNCHANGED <<sending, left, losing, torn, gaps, nil, framed, whole>>
  BY DEF D!SkipUnknown, D!streamVars
<1>2. /\ m \in 1 .. Len(scan) /\ m >= 5 /\ ~nil /\ m \in Nat /\ m = EndAt(s, 1)
      /\ \A i \in 1 .. m : /\ D!Cut[i] = s[i] /\ i \in 1 .. Len(scan)
                           /\ i \in 1 .. Len(s) /\ scan[i] = s[i]
  BY <1>1, Whole1
<1>3. s \in Seq(Byte) /\ Len(s) \in Nat /\ Len(scan) <= Len(s) /\ Len(scan) \in Nat
  BY UnreadIs DEF DecoderInv
<1>4. 1 \in 1 .. m /\ 4 \in 1 .. m /\ scan[1] = s[1]
  <2>1. 1 \in 1 .. m /\ 4 \in 1 .. m
    BY <1>2
  <2> QED BY <1>2, <2>1
<1>5. X = {s[i].frame : i \in {j \in 1 .. m : s[1].place # 1 \/ s[j].frame # s[1].frame}}
  BY <1>2, <1>4
<1> HIDE DEF X, m
<1>6. /\ framed \in Seq(Nat) /\ eaten \subseteq 0 .. sending /\ sending \in Nat
      /\ Sorted(s)
  BY DEF DecoderInv, DecoderTypes, Placed
<1>7. X \subseteq 0 .. sending
  <2> SUFFICES ASSUME NEW i \in 1 .. m PROVE s[i].frame \in 0 .. sending
    BY <1>5
  <2>1. i \in 1 .. Len(s)
    BY <1>2
  <2>2. s[i].frame \in Nat /\ s[i].frame <= sending
    BY <1>3, <2>1, ByteTypes DEF DecoderInv, Placed
  <2> QED BY <1>6, <2>2
<1>8. ASSUME NEW j \in 1 .. Len(framed)
      PROVE  /\ framed[j] <= sending /\ framed[j] \notin eaten \union X
             /\ j > 1 => framed[j - 1] < framed[j]
             /\ \A i \in m + 1 .. Len(s) : framed[j] < s[i].frame
  <2>1. /\ framed[j] <= sending /\ framed[j] \notin eaten
        /\ j > 1 => framed[j - 1] < framed[j]
        /\ \A i \in 1 .. Len(s) : framed[j] < s[i].frame
    BY DEF DecoderInv, Placed
  <2>2. framed[j] \notin X
    <3> SUFFICES ASSUME NEW i \in 1 .. m PROVE framed[j] # s[i].frame
      BY <1>5
    <3>1. framed[j] < s[i].frame /\ s[i].frame \in Nat /\ framed[j] \in Nat
      BY <1>2, <1>3, <1>6, <2>1, ByteTypes
    <3> QED BY <3>1
  <2>3. \A i \in m + 1 .. Len(s) : i \in 1 .. Len(s)
    BY <1>2, <1>3
  <2> QED BY <2>1, <2>2, <2>3
<1>9. ASSUME NEW i \in m + 1 .. Len(s), s[i].frame \in eaten \union X PROVE s[i].place # 1
  <2>1. i \in 1 .. Len(s) /\ i > m
    BY <1>2, <1>3
  <2>2. CASE s[i].frame \in eaten
    BY <2>1, <2>2 DEF DecoderInv, Placed
  <2>3. CASE s[i].frame \in X
    <3>1. PICK j \in 1 .. m : s[i].frame = s[j].frame
      BY <1>5, <2>3
    <3>2. j \in 1 .. Len(s) /\ j < i
      BY <1>2, <2>1, <3>1
    <3>3. s[j].frame < s[i].frame \/ s[j].place < s[i].place
      BY <1>6, <2>1, <3>2 DEF Sorted
    <3>4. s[j].place \in Nat /\ s[j].place > 0 /\ s[i].place \in Nat /\ s[i].frame \in Nat
      BY <1>3, <2>1, <3>2, ByteTypes
    <3> QED BY <3>1, <3>3, <3>4
  <2> QED BY <1>9, <2>2, <2>3
<1>10. ASSUME NEW k \in 1 .. m, NEW f, FrameAt(s, k, f) PROVE k = 1 \/ f \in X
  <2> SUFFICES ASSUME k # 1 PROVE f \in X
    OBVIOUS
  <2>1. s[k].frame = f /\ s[k].place = 1
    BY <1>3, <1>10, FrameSpan
  <2>2. k \in 1 .. Len(s) /\ 1 \in 1 .. Len(s) /\ 1 < k
    BY <1>2, <1>4
  <2>3. s[1].frame < s[k].frame \/ s[1].place < s[k].place
    BY <1>6, <2>2 DEF Sorted
  <2>4. s[1].frame \in Nat /\ s[k].frame \in Nat /\ s[1].place \in Nat /\ s[1].place > 0
    BY <1>3, <2>2, ByteTypes
  <2>5. s[k].frame # s[1].frame
    BY <2>1, <2>3, <2>4
  <2> QED BY <1>5, <2>1, <2>5
<1>11. ASSUME NEW k \in 1 .. m, NEW f, FrameAt(s, k, f), s[k].id \in Known PROVE f \in X
  <2>1. CASE k = 1
    <3>1. s[1 + 3].val = s[1].id /\ 1 + 3 = 4
      BY <1>11, <2>1 DEF FrameAt
    <3>2. scan[4] = s[4]
      BY <1>2, <1>4
    <3> QED BY <1>1, <1>11, <2>1, <3>1, <3>2
  <2> QED BY <1>10, <1>11, <2>1
<1>12. ASSUME NEW k \in 1 .. m, FrameAt(s, k, sending), left # <<>> PROVE sending \in X
  <2>1. CASE k = 1
    <3>1. EndAt(s, 1) > Len(scan)
      BY <1>12, <2>1, CutOff
    <3> QED BY <1>2, <1>3, <3>1
  <2> QED BY <1>10, <1>12, <2>1
<1>13. ASSUME FrameAt(s, 1, s[1].frame) PROVE X = {}
  <2>1. s[1].place = 1
    BY <1>3, <1>13, FrameSpan
  <2>2. ASSUME NEW j \in 1 .. m PROVE s[j].frame = s[1].frame
    <3>1. j \in 1 .. EndAt(s, 1)
      BY <1>2
    <3> QED BY <1>13, <3>1 DEF FrameAt
  <2> QED BY <1>5, <2>1, <2>2
<1>14. eaten' \subseteq 0 .. sending /\ eaten \subseteq eaten' /\ framed' \in Seq(Nat)
  BY <1>1, <1>6, <1>7
<1>15. /\ \A j \in 1 .. Len(framed') :
            /\ framed'[j] <= sending /\ framed'[j] \notin eaten'
            /\ j > 1 => framed'[j - 1] < framed'[j]
            /\ \A i \in m + 1 .. Len(s) : framed'[j] < s[i].frame
       /\ \A i \in m + 1 .. Len(s) : s[i].frame \in eaten' => s[i].place # 1
  BY <1>1, <1>8, <1>9
<1>16. /\ \A k \in 1 .. m, f \in whole :
            FrameAt(s, k, f) /\ s[k].id \in Known => f \in eaten'
       /\ \A k \in 1 .. m : FrameAt(s, k, sending) /\ left # <<>> => sending \in eaten'
  BY <1>1, <1>11, <1>12
<1>17. \A f : Out(f) => Out(f)'
  BY <1>1 DEF Out
<1>18. FrameAt(s, 1, s[1].frame) => m = EndAt(s, 1) /\ eaten' \subseteq eaten
  BY <1>1, <1>2, <1>13
<1>19. /\ scan' = SubSeq(scan, m + 1, Len(scan)) /\ m \in 1 .. Len(scan) /\ ~nil
       /\ UNCHANGED <<sending, left, losing, torn, gaps, nil, whole>>
  BY <1>1, <1>2
<1> QED BY <1>14, <1>15, <1>16, <1>17, <1>18, <1>19, Parsed

(* Without a gap the decoder waits only for the rest of what is being sent.*)
LEMMA OnNil ==
  ASSUME DecoderInv, D!ReturnNil
  PROVE  DecoderInv'
<1> DEFINE s == Unread
           g == Unread[1].frame
<1>1. /\ ~nil /\ D!More /\ nil' = TRUE
      /\ UNCHANGED <<sending, left, losing, torn, gaps, scan, framed, whole, eaten>>
  BY DEF D!ReturnNil, D!streamVars, D!historyVars
<1>2. /\ s \in Seq(Byte) /\ Len(s) = Len(scan) + Len(left) /\ scan \in Seq(Byte)
      /\ Len(scan) \in Nat /\ Len(left) \in Nat /\ left \in Seq(Byte)
  BY UnreadIs DEF DecoderInv
<1>3. ASSUME gaps = 0, scan # <<>>
      PROVE  (\A i \in 1 .. Len(scan) : scan[i].frame = sending) /\ left # <<>>
  <2>1. Framed(s)
    BY <1>3 DEF DecoderInv, Honest
  <2>2. 1 \in 1 .. Len(s) /\ s # <<>>
    BY <1>2, <1>3
  <2>3. FrameAt(s, 1, g)
    BY <2>1, <2>2 DEF Framed
  <2>4. EndAt(s, 1) \in 1 .. Len(s) /\ EndAt(s, 1) >= 5
    <3>1. EndAt(s, 1) \in 1 .. Len(s) /\ EndAt(s, 1) >= 1 + 4
      BY <1>2, <2>3, FrameSpan
    <3> QED BY <3>1
  <2>5. D!AtStart /\ (D!Headed => scan[3].val = 0 /\ scan[4].val = s[1].id)
    BY <1>3, <2>3, AtHead
  <2>6. Len(scan) < EndAt(s, 1)
    <3>1. CASE Len(scan) >= 5
      <4>1. D!Headed
        BY <1>1, <2>5, <3>1 DEF D!Headed, D!Overhead, D!Header
      <4>2. Len(scan) < D!Total
        BY <1>1, <2>5, <3>1 DEF D!More, D!Overhead, D!Header
      <4>3. D!Total = EndAt(s, 1)
        BY <2>5, <4>1, Looked
      <4> QED BY <4>2, <4>3
    <3>2. CASE ~(Len(scan) >= 5)
      BY <1>2, <2>4, <3>2
    <3> QED BY <3>1, <3>2
  <2>7. \A i \in 1 .. EndAt(s, 1) : s[i].frame = g
    BY <2>3 DEF FrameAt
  <2>8. left # <<>> /\ 1 \in 1 .. Len(left)
    BY <1>2, <2>4, <2>6
  <2>9. Len(scan) + 1 \in 1 .. EndAt(s, 1)
    BY <1>2, <2>4, <2>6
  <2>10. g = sending
    <3>1. s[Len(scan) + 1] = left[1] /\ left[1].frame = sending
      BY <2>8, UnreadIs DEF DecoderInv, Placed
    <3> QED BY <2>7, <2>9, <3>1
  <2>11. ASSUME NEW i \in 1 .. Len(scan) PROVE scan[i].frame = sending
    <3>1. i \in 1 .. EndAt(s, 1) /\ s[i] = scan[i]
      <4>1. i \in 1 .. EndAt(s, 1)
        BY <1>2, <2>4, <2>6
      <4> QED BY <4>1, UnreadIs DEF DecoderInv
    <3> QED BY <2>7, <2>10, <3>1
  <2> QED BY <2>8, <2>11
<1>4. Unread' = Unread
  BY <1>1 DEF Unread
<1>5. Honest'
  <2>1. gaps = 0 => ~losing /\ ~torn /\ eaten = {} /\ Framed(s)
    BY DEF DecoderInv, Honest
  <2>2. gaps = 0 => (\A i \in 1 .. Len(scan) : scan[i].frame = sending)
                    /\ (scan = <<>> \/ left # <<>>)
    <3>1. CASE scan = <<>>
      <4>1. 1 .. Len(scan) = {}
        BY <3>1
      <4> QED BY <3>1, <4>1
    <3> QED BY <1>3, <3>1
  <2> QED BY <1>1, <1>4, <2>1, <2>2 DEF Honest
<1>6. DecoderTypes'
  BY <1>1 DEF DecoderInv, DecoderTypes
<1>7. Placed'
  <2>1. UNCHANGED <<sending, left, framed, whole, eaten>> /\ Unread' = Unread
    BY <1>1, <1>4
  <2> QED BY <2>1 DEF DecoderInv, Placed
<1>8. Waiting'
  <2>1. UNCHANGED <<sending, left, torn, scan, framed, whole, eaten>> /\ Unread' = Unread
    BY <1>1, <1>4
  <2>2. \A f : Out(f)' <=> Out(f)
    BY <2>1 DEF Out
  <2> QED BY <2>1, <2>2 DEF DecoderInv, Waiting
<1> QED BY <1>5, <1>6, <1>7, <1>8 DEF DecoderInv

(* A frame lies where it lay when what comes after it changes.             *)
LEMMA FrameKept ==
  ASSUME NEW s \in Seq(Byte), NEW t \in Seq(Byte), NEW n \in Nat, n <= Len(s), n <= Len(t),
         \A i \in 1 .. n : t[i] = s[i], NEW k, NEW f, FrameAt(s, k, f), EndAt(s, k) <= n
  PROVE  FrameAt(t, k, f) /\ EndAt(t, k) = EndAt(s, k) /\ t[k] = s[k] /\ k \in 1 .. Len(t)
<1> DEFINE e == EndAt(s, k)
<1>0. Len(s) \in Nat /\ Len(t) \in Nat
  OBVIOUS
<1>1. /\ k \in 1 .. Len(s) /\ k + 1 \in 1 .. Len(s) /\ k + 2 \in 1 .. Len(s)
      /\ k + 3 \in 1 .. Len(s) /\ e \in 1 .. Len(s) /\ e >= k + 4
  BY FrameSpan
<1>2. k \in 1 .. n /\ k + 1 \in 1 .. n /\ k + 2 \in 1 .. n /\ k + 3 \in 1 .. n /\ k \in 1 .. Len(t)
  <2> HIDE DEF e
  <2>1. e <= n
    BY DEF e
  <2> QED BY <1>0, <1>1, <2>1
<1>3. t[k] = s[k] /\ t[k + 1] = s[k + 1] /\ t[k + 2] = s[k + 2] /\ t[k + 3] = s[k + 3]
  BY <1>2
<1>4. EndAt(t, k) = e
  BY <1>3 DEF EndAt
<1>5. e <= Len(t) /\ k + 4 <= Len(t)
  <2>1. e <= n
    OBVIOUS
  <2> HIDE DEF e
  <2> QED BY <1>0, <1>1, <2>1
<1>6. ASSUME NEW i \in k .. e PROVE t[i].frame = f /\ t[i].place = i - k + 1
  <2>1. i \in 1 .. n
    <3>1. e <= n
      OBVIOUS
    <3> HIDE DEF e
    <3> QED BY <1>0, <1>1, <3>1
  <2>2. t[i] = s[i]
    BY <2>1
  <2> QED BY <2>2 DEF FrameAt
<1>7. t[k].val = StartByte /\ t[k + 2].val = 0 /\ t[k + 3].val = t[k].id
  BY <1>3 DEF FrameAt
<1> HIDE DEF e
<1>8. FrameAt(t, k, f)
  BY <1>2, <1>4, <1>5, <1>6, <1>7 DEF FrameAt
<1> QED BY <1>2, <1>3, <1>4, <1>8 DEF e

(* The bytes of a frame sent.                                              *)
LEMMA Encoded ==
  ASSUME NEW f \in Nat, NEW id \in Known \union Unknown, NEW p \in Payloads,
         NEW b, b = D!Encode(f, id, p)
  PROVE  /\ b \in Seq(Byte) /\ Len(b) = 5 + Len(p) /\ Len(p) \in Nat
         /\ \A i \in 1 .. Len(b) : b[i].frame = f /\ b[i].place = i /\ b[i].id = id
         /\ b[1].val = StartByte /\ b[2].val = Len(p) /\ b[3].val = 0 /\ b[4].val = id
<1> DEFINE h == <<StartByte, Len(p), 0, id>>
           q == h \o p
           v == q \o <<0>>
<1>1. p \in Seq(Nat) /\ StartByte \in Nat /\ Known \union Unknown \subseteq Nat
  BY ServicesAssumption
<1>2. Len(p) \in Nat
  BY <1>1
<1>3. h \in Seq(Nat) /\ Len(h) = 4 /\ h[1] = StartByte /\ h[2] = Len(p) /\ h[3] = 0 /\ h[4] = id
  BY <1>1, <1>2
<1> HIDE DEF h
<1>3a. q \in Seq(Nat) /\ Len(q) = 4 + Len(p) /\ \A i \in 1 .. 4 : q[i] = h[i]
  <2>1. h \in Seq(Nat) /\ p \in Seq(Nat) /\ Len(h) = 4 /\ Len(p) \in Nat
    BY <1>1, <1>2, <1>3
  <2>2. \A i \in 1 .. Len(h) : q[i] = h[i]
    <3> DEFINE N == Nat
    <3>1. h \in Seq(N) /\ p \in Seq(N)
      BY <2>1
    <3> HIDE DEF N
    <3> QED BY <3>1, Concat
  <2>3. q \in Seq(Nat) /\ Len(q) = Len(h) + Len(p)
    <3> DEFINE N == Nat
    <3>1. h \in Seq(N) /\ p \in Seq(N)
      BY <2>1
    <3> HIDE DEF N
    <3>2. q \in Seq(N) /\ Len(q) = Len(h) + Len(p)
      BY <3>1, Concat
    <3> QED BY <3>2 DEF N
  <2> QED BY <2>1, <2>2, <2>3
<1>3b. 1 \in 1 .. 4 /\ 2 \in 1 .. 4 /\ 3 \in 1 .. 4 /\ 4 \in 1 .. 4
  OBVIOUS
<1> HIDE DEF q
<1>4. /\ q \in Seq(Nat) /\ Len(q) = 4 + Len(p)
      /\ q[1] = StartByte /\ q[2] = Len(p) /\ q[3] = 0 /\ q[4] = id
  BY <1>3, <1>3a, <1>3b
<1>5. /\ v \in Seq(Nat) /\ Len(v) = 5 + Len(p)
      /\ v[1] = StartByte /\ v[2] = Len(p) /\ v[3] = 0 /\ v[4] = id
  BY <1>2, <1>4
<1> HIDE DEF v
<1>6. DOMAIN v = 1 .. 5 + Len(p) /\ \A i \in 1 .. 5 + Len(p) : v[i] \in Nat
  BY <1>2, <1>5
<1>7. b = [i \in 1 .. 5 + Len(p) |-> [frame |-> f, place |-> i, id |-> id, val |-> v[i]]]
  BY <1>6 DEF D!Encode, v, q, h
<1>8. ASSUME NEW i \in 1 .. 5 + Len(p)
      PROVE  [frame |-> f, place |-> i, id |-> id, val |-> v[i]] \in Byte
  <2>1. i \in Nat \ {0} /\ v[i] \in Nat
    BY <1>2, <1>6
  <2> QED BY <2>1 DEF Byte
<1>9. b \in [1 .. 5 + Len(p) -> Byte]
  BY <1>7, <1>8
<1>10. b \in Seq(Byte) /\ Len(b) = 5 + Len(p)
  <2>1. 5 + Len(p) \in Nat
    BY <1>2
  <2>2. b \in Seq(Byte)
    BY <1>9, <2>1
  <2>3. DOMAIN b = 1 .. 5 + Len(p)
    BY <1>9
  <2> QED BY <2>1, <2>2, <2>3
<1>11. \A i \in 1 .. 5 + Len(p) : /\ b[i].frame = f /\ b[i].place = i /\ b[i].id = id
                                  /\ b[i].val = v[i]
  BY <1>7
<1>12. \A i \in 1 .. 4 : i \in 1 .. 5 + Len(p)
  BY <1>2
<1>13. b[1].val = v[1] /\ b[2].val = v[2] /\ b[3].val = v[3] /\ b[4].val = v[4]
  BY <1>11, <1>12
<1>14. \A i \in 1 .. Len(b) : b[i].frame = f /\ b[i].place = i /\ b[i].id = id
  BY <1>10, <1>11
<1> QED BY <1>2, <1>5, <1>10, <1>13, <1>14

LEMMA OnSend ==
  ASSUME DecoderInv, NEW id \in Known \union Unknown, NEW p \in Payloads, D!SendFrame(id, p)
  PROVE  DecoderInv'
<1> DEFINE g == sending + 1
           b == D!Encode(g, id, p)
           t == scan \o b
           n == Len(scan)
<1>1. /\ left = <<>> /\ sending' = g /\ torn' = FALSE /\ left' = b
      /\ UNCHANGED <<losing, gaps, scan, nil, framed, whole, eaten>>
  BY DEF D!SendFrame, D!historyVars
<1>2. /\ scan \in Seq(Byte) /\ n \in Nat /\ sending \in Nat /\ whole \subseteq 0 .. sending
      /\ eaten \subseteq 0 .. sending /\ framed \in Seq(Nat) /\ g \in Nat
      /\ g \notin whole /\ g \notin eaten
  BY DEF DecoderInv, DecoderTypes
<1>3. Unread = scan /\ Unread' = t
  BY <1>1, <1>2 DEF Unread
<1>4. /\ b \in Seq(Byte) /\ Len(b) = 5 + Len(p) /\ Len(p) \in Nat /\ Len(b) \in Nat
      /\ \A i \in 1 .. Len(b) : b[i].frame = g /\ b[i].place = i /\ b[i].id = id
      /\ b[1].val = StartByte /\ b[2].val = Len(p) /\ b[3].val = 0 /\ b[4].val = id
  <2>1. g \in Nat /\ b = D!Encode(g, id, p)
    BY <1>2
  <2> HIDE DEF g, b
  <2> QED BY <2>1, Encoded
<1> HIDE DEF b
<1>5. /\ t \in Seq(Byte) /\ Len(t) = n + Len(b)
      /\ \A i \in 1 .. n : t[i] = scan[i]
      /\ \A i \in 1 .. Len(b) : t[n + i] = b[i]
      /\ \A i \in 1 .. n + Len(b) :
           i \in 1 .. n \/ (i - n \in 1 .. Len(b) /\ t[i] = b[i - n])
  BY <1>2, <1>4, Joined
<1> HIDE DEF t
<1>6. /\ Sorted(scan) /\ \A i \in 1 .. n : scan[i].frame \in Nat /\ scan[i].frame <= sending
      /\ \A i \in 1 .. n : scan[i].frame < g
  <2>1. Sorted(scan) /\ \A i \in 1 .. n : scan[i].frame <= sending
    BY <1>3 DEF DecoderInv, Placed
  <2>2. \A i \in 1 .. n : scan[i].frame \in Nat
    BY <1>2, ByteTypes
  <2> QED BY <1>2, <2>1, <2>2
<1> HIDE DEF n
<1>7. ASSUME NEW i \in 1 .. Len(t)
      PROVE  \/ i \in 1 .. n /\ t[i] = scan[i]
             \/ /\ i - n \in 1 .. Len(b) /\ t[i] = b[i - n] /\ t[i].frame = g
                /\ t[i].place = i - n /\ t[i].id = id /\ i > n
  <2>1. i \in 1 .. n \/ (i - n \in 1 .. Len(b) /\ t[i] = b[i - n])
    BY <1>5
  <2>2. CASE i \in 1 .. n
    BY <1>5, <2>2
  <2>3. CASE i - n \in 1 .. Len(b) /\ t[i] = b[i - n]
    <3>1. i > n
      BY <1>2, <1>4, <2>3
    <3> QED BY <1>4, <2>3, <3>1
  <2> QED BY <2>1, <2>2, <2>3
<1>8. Sorted(t)
  <2> SUFFICES ASSUME NEW i \in 1 .. Len(t), NEW j \in 1 .. Len(t)
               PROVE  /\ i < j => t[i].frame < t[j].frame
                                  \/ (t[i].frame = t[j].frame /\ t[i].place < t[j].place)
                      /\ t[i].frame = t[j].frame =>
                           /\ t[i].id = t[j].id
                           /\ t[i].place = 2 => t[j].place <= 5 + t[i].val
    BY DEF Sorted
  <2>0. i \in Int /\ j \in Int /\ n \in Int
    BY <1>2
  <2>1. CASE i \in 1 .. n /\ t[i] = scan[i]
    <3>1. CASE j \in 1 .. n /\ t[j] = scan[j]
      BY <1>6, <2>1, <3>1 DEF Sorted, n
    <3>2. CASE t[j].frame = g
      <4>1. t[i].frame < g /\ t[i].frame \in Nat
        BY <1>6, <2>1
      <4> HIDE DEF g
      <4> QED BY <1>2, <3>2, <4>1
    <3> QED BY <1>7, <3>1, <3>2
  <2>2. CASE /\ i - n \in 1 .. Len(b) /\ t[i] = b[i - n] /\ t[i].frame = g
             /\ t[i].place = i - n /\ t[i].id = id /\ i > n
    <3>1. CASE j \in 1 .. n /\ t[j] = scan[j]
      <4>1. t[j].frame < g /\ t[j].frame \in Nat /\ ~(i < j)
        BY <1>6, <2>0, <2>2, <3>1
      <4> HIDE DEF g
      <4> QED BY <1>2, <2>2, <4>1
    <3>2. CASE /\ j - n \in 1 .. Len(b) /\ t[j].frame = g
               /\ t[j].place = j - n /\ t[j].id = id /\ j > n
      <4>1. i < j => i - n < j - n
        BY <2>0
      <4>2. ASSUME i - n = 2 PROVE j - n <= 5 + t[i].val
        <5>1. t[i].val = Len(p)
          BY <1>4, <2>2, <4>2
        <5> QED BY <1>4, <2>0, <3>2, <5>1
      <4> QED BY <2>2, <3>2, <4>1, <4>2
    <3> QED BY <1>7, <3>1, <3>2
  <2> QED BY <1>7, <2>1, <2>2
<1>9. FrameAt(t, n + 1, g) /\ EndAt(t, n + 1) = Len(t) /\ n + 1 \in 1 .. Len(t)
  <2>1. 1 \in 1 .. Len(b) /\ 2 \in 1 .. Len(b) /\ 3 \in 1 .. Len(b) /\ 4 \in 1 .. Len(b)
    BY <1>4
  <2>2. t[n + 1] = b[1] /\ t[n + 2] = b[2] /\ t[n + 3] = b[3] /\ t[n + 4] = b[4]
    BY <1>5, <2>1
  <2>3. (n + 1) + 1 = n + 2 /\ (n + 1) + 2 = n + 3 /\ (n + 1) + 3 = n + 4
    BY <1>2
  <2>4. EndAt(t, n + 1) = n + 1 + 4 + Len(p)
    BY <1>4, <2>2, <2>3 DEF EndAt
  <2>5. EndAt(t, n + 1) = Len(t) /\ n + 1 \in 1 .. Len(t) /\ n + 1 + 4 <= Len(t) /\ Len(t) \in Nat
    BY <1>2, <1>4, <1>5, <2>4
  <2>6. ASSUME NEW i \in n + 1 .. Len(t) PROVE t[i].frame = g /\ t[i].place = i - (n + 1) + 1
    <3>1. i \in 1 .. Len(t) /\ i \notin 1 .. n /\ i - (n + 1) + 1 = i - n
      BY <1>2, <2>5
    <3> QED BY <1>7, <3>1
  <2>7. /\ t[n + 1].val = StartByte /\ t[(n + 1) + 2].val = 0
        /\ t[(n + 1) + 3].val = t[n + 1].id
    BY <1>4, <2>1, <2>2, <2>3
  <2> HIDE DEF g
  <2>8. FrameAt(t, n + 1, g)
    <3> DEFINE k == n + 1
    <3>1. k \in 1 .. Len(t) /\ k + 4 <= Len(t) /\ EndAt(t, k) <= Len(t)
      BY <2>5
    <3>2. \A i \in k .. EndAt(t, k) : t[i].frame = g /\ t[i].place = i - k + 1
      BY <2>5, <2>6
    <3>3. t[k].val = StartByte /\ t[k + 2].val = 0 /\ t[k + 3].val = t[k].id
      BY <2>7
    <3> HIDE DEF k
    <3>4. FrameAt(t, k, g)
      BY <3>1, <3>2, <3>3 DEF FrameAt
    <3> QED BY <3>4 DEF k
  <2> QED BY <2>5, <2>8
<1>10. ASSUME NEW k, NEW f, FrameAt(scan, k, f)
       PROVE  /\ FrameAt(t, k, f) /\ EndAt(t, k) = EndAt(scan, k) /\ t[k] = scan[k]
              /\ k \in 1 .. Len(t) /\ EndAt(scan, k) \in 1 .. n
  <2>1. EndAt(scan, k) \in 1 .. Len(scan)
    BY <1>2, <1>10, FrameSpan
  <2>2. Len(scan) \in Nat /\ Len(scan) <= Len(t) /\ \A i \in 1 .. Len(scan) : t[i] = scan[i]
    BY <1>2, <1>4, <1>5 DEF n
  <2>3. EndAt(scan, k) <= Len(scan) /\ Len(scan) <= Len(scan)
    BY <2>1, <2>2
  <2>4. /\ FrameAt(t, k, f) /\ EndAt(t, k) = EndAt(scan, k) /\ t[k] = scan[k]
        /\ k \in 1 .. Len(t)
    BY <1>2, <1>5, <1>10, <2>2, <2>3, FrameKept
  <2> QED BY <2>1, <2>4 DEF n
<1>11. DecoderTypes'
  <2>1. whole \subseteq 0 .. g /\ eaten \subseteq 0 .. g
    BY <1>2
  <2> QED BY <1>1, <1>2, <1>4, <2>1 DEF DecoderInv, DecoderTypes
<1>12. Placed'
  <2>1. \A i \in 1 .. Len(t) : t[i].frame <= g
    <3> SUFFICES ASSUME NEW i \in 1 .. Len(t) PROVE t[i].frame <= g
      OBVIOUS
    <3> QED BY <1>2, <1>6, <1>7
  <2>2. ASSUME NEW j \in 1 .. Len(framed)
        PROVE  /\ framed[j] <= g /\ framed[j] \notin eaten
               /\ j > 1 => framed[j - 1] < framed[j]
               /\ \A i \in 1 .. Len(t) : framed[j] < t[i].frame
    <3>1. /\ framed[j] <= sending /\ framed[j] \notin eaten /\ framed[j] \in Nat
          /\ j > 1 => framed[j - 1] < framed[j]
          /\ \A i \in 1 .. n : framed[j] < scan[i].frame
      BY <1>2, <1>3 DEF DecoderInv, Placed, n
    <3>2. framed[j] < g
      BY <1>2, <3>1
    <3>3. ASSUME NEW i \in 1 .. Len(t) PROVE framed[j] < t[i].frame
      BY <1>7, <3>1, <3>2
    <3> QED BY <1>2, <3>1, <3>2, <3>3
  <2>3. ASSUME NEW i \in 1 .. Len(t), t[i].frame \in eaten PROVE t[i].place # 1
    <3>1. i \in 1 .. n /\ t[i] = scan[i]
      BY <1>2, <1>7, <2>3
    <3>2. scan[i].frame \in eaten
      BY <2>3, <3>1
    <3>3. i \in 1 .. Len(Unread) /\ Unread[i] = scan[i]
      BY <1>3, <3>1 DEF n
    <3>4. Unread[i].place # 1
      BY <3>2, <3>3 DEF DecoderInv, Placed
    <3> QED BY <3>1, <3>3, <3>4
  <2>4. \A i \in 1 .. Len(left') : left'[i].frame = sending'
    BY <1>1, <1>4
  <2> QED BY <1>1, <1>2, <1>3, <1>8, <2>1, <2>2, <2>3, <2>4 DEF Placed
<1>13. Waiting'
  <2>1. ASSUME NEW f \in whole
        PROVE  Out(f)' \/ f \in eaten
                 \/ \E k \in 1 .. Len(t) : /\ FrameAt(t, k, f) /\ t[k].id \in Known
                                           /\ EndAt(t, k) <= n
    <3>1. CASE Out(f)
      BY <1>1, <3>1 DEF Out
    <3>2. CASE \E k \in 1 .. Len(scan) : /\ FrameAt(scan, k, f) /\ scan[k].id \in Known
                                         /\ EndAt(scan, k) <= n
      BY <1>10, <3>2
    <3> QED BY <1>3, <3>1, <3>2 DEF DecoderInv, Waiting, n
  <2>2. \E k \in 1 .. Len(t) : FrameAt(t, k, g)
    BY <1>9
  <2> QED BY <1>1, <1>3, <2>1, <2>2 DEF Waiting, n
<1>14. Honest'
  <2> SUFFICES ASSUME gaps = 0
               PROVE  /\ ~losing /\ eaten = {} /\ Framed(t)
                      /\ nil => (\A i \in 1 .. Len(scan) : scan[i].frame = g) /\ scan = <<>>
    BY <1>1, <1>3 DEF Honest
  <2>1. ~losing /\ eaten = {} /\ Framed(scan) /\ (nil => scan = <<>>)
    BY <1>1, <1>3 DEF DecoderInv, Honest
  <2>2. t[n + 1].place = 1 /\ n + 1 \in 1 .. Len(t)
    <3>1. t \in Seq(Byte)
      BY <1>5
    <3> DEFINE k == n + 1
    <3>2. FrameAt(t, k, g) /\ k \in 1 .. Len(t)
      BY <1>9
    <3> HIDE DEF k
    <3>3. t[k].place = 1
      BY <3>1, <3>2, FrameSpan
    <3> QED BY <3>2, <3>3 DEF k
  <2>3. t[1].place = 1
    <3>1. CASE scan = <<>>
      <4>1. n = 0 /\ n + 1 = 1
        BY <3>1 DEF n
      <4> QED BY <2>2, <4>1
    <3>2. CASE scan # <<>>
      <4>1. 1 \in 1 .. n
        BY <1>2, <3>2 DEF n
      <4> QED BY <1>5, <2>1, <3>2, <4>1 DEF Framed
    <3> QED BY <3>1, <3>2
  <2>4. ASSUME NEW k \in 1 .. Len(t), t[k].place = 1
        PROVE  FrameAt(t, k, t[k].frame) /\ (EndAt(t, k) < Len(t) => t[EndAt(t, k) + 1].place = 1)
    <3>1. CASE k \in 1 .. n /\ t[k] = scan[k]
      <4>1. /\ FrameAt(scan, k, scan[k].frame)
            /\ EndAt(scan, k) < Len(scan) => scan[EndAt(scan, k) + 1].place = 1
        BY <2>1, <2>4, <3>1 DEF Framed, n
      <4>2. /\ FrameAt(t, k, scan[k].frame) /\ EndAt(t, k) = EndAt(scan, k)
            /\ EndAt(scan, k) \in 1 .. n
        BY <1>10, <4>1
      <4> DEFINE e == EndAt(scan, k)
      <4>3. t[e + 1].place = 1
        <5>1. CASE e = n
          BY <2>2, <5>1
        <5>2. CASE e # n
          <6>1. e < n /\ e + 1 \in 1 .. n
            BY <1>2, <4>2, <5>2
          <6> QED BY <1>5, <4>1, <6>1 DEF n
        <5> QED BY <5>1, <5>2
      <4> QED BY <3>1, <4>2, <4>3
    <3>2. CASE t[k].frame = g /\ t[k].place = k - n
      <4>1. k = n + 1
        BY <1>2, <2>4, <3>2
      <4> QED BY <1>9, <3>2, <4>1
    <3> QED BY <1>7, <3>1, <3>2
  <2>5. Framed(t)
    BY <2>3, <2>4 DEF Framed
  <2>6. nil => 1 .. Len(scan) = {}
    BY <2>1
  <2> QED BY <2>1, <2>5, <2>6
<1> QED BY <1>11, <1>12, <1>13, <1>14 DEF DecoderInv

LEMMA Regrouped ==
  ASSUME NEW a \in Seq(Byte), NEW b \in Seq(Byte), NEW c \in Seq(Byte)
  PROVE  (a \o b) \o c = a \o (b \o c)
BY ConcatAssociative

LEMMA OnFeed ==
  ASSUME DecoderInv, NEW n \in 1 .. Len(left), D!Feed(n)
  PROVE  DecoderInv'
<1> DEFINE s == Unread
           a == SubSeq(left, 1, n)
           r == SubSeq(left, n + 1, Len(left))
<1>1. /\ nil /\ ~losing /\ scan' = scan \o a /\ left' = r /\ nil' = FALSE
      /\ whole' = IF left' = <<>> /\ ~torn /\ left[1].id \in Known
                  THEN whole \union {sending} ELSE whole
      /\ UNCHANGED <<sending, losing, torn, gaps, framed, eaten>>
  BY DEF D!Feed
<1>2. /\ s \in Seq(Byte) /\ Len(s) = Len(scan) + Len(left) /\ scan \in Seq(Byte)
      /\ Len(scan) \in Nat /\ Len(left) \in Nat /\ left \in Seq(Byte)
  BY UnreadIs DEF DecoderInv
<1>3. /\ a \in Seq(Byte) /\ Len(a) = n /\ r \in Seq(Byte) /\ Len(r) = Len(left) - n
      /\ \A i \in 1 .. n : a[i] = left[i]
      /\ \A i \in 1 .. Len(left) - n : r[i] = left[n + i] /\ n + i \in 1 .. Len(left)
  BY <1>2
<1>4. a \o r = left
  <2>1. /\ a \o r \in Seq(Byte) /\ Len(a \o r) = n + (Len(left) - n)
        /\ \A i \in 1 .. n : (a \o r)[i] = a[i]
        /\ \A i \in 1 .. Len(r) : (a \o r)[n + i] = r[i]
    BY <1>2, <1>3, Joined
  <2> DEFINE c == a \o r
  <2> HIDE DEF c
  <2>2. c \in Seq(Byte) /\ Len(c) = Len(left)
    <3>1. c \in Seq(Byte) /\ Len(c) = n + (Len(left) - n)
      BY <2>1 DEF c
    <3>2. n + (Len(left) - n) = Len(left)
      BY <1>2
    <3> QED BY <3>1, <3>2
  <2>3. ASSUME NEW i \in 1 .. Len(left) PROVE c[i] = left[i]
    <3>1. CASE i <= n
      <4>1. i \in 1 .. n
        BY <3>1
      <4> QED BY <1>3, <2>1, <4>1 DEF c
    <3>2. CASE i > n
      <4> DEFINE j == i - n
      <4>1. j \in 1 .. Len(left) - n /\ n + j = i
        BY <1>2, <3>2
      <4> HIDE DEF j
      <4>2. c[n + j] = r[j] /\ r[j] = left[n + j]
        BY <1>3, <2>1, <4>1 DEF c
      <4> QED BY <4>1, <4>2
    <3> QED BY <1>2, <3>1, <3>2
  <2> QED BY <1>2, <2>2, <2>3, SeqEqual DEF c
<1>5. Unread' = s
  <2>1. Unread' = (scan \o a) \o r
    BY <1>1 DEF Unread
  <2> HIDE DEF a, r
  <2>2. (scan \o a) \o r = scan \o (a \o r)
    <3>1. scan \in Seq(Byte) /\ a \in Seq(Byte) /\ r \in Seq(Byte)
      BY <1>2, <1>3
    <3> QED BY <3>1, Regrouped
  <2> QED BY <1>4, <2>1, <2>2 DEF Unread
<1> HIDE DEF a, r
<1>6. /\ scan' \in Seq(Byte) /\ Len(scan') = Len(scan) + n /\ left' \in Seq(Byte)
      /\ Len(left') = Len(left) - n
  <2>1. scan \o a \in Seq(Byte) /\ Len(scan \o a) = Len(scan) + n
    BY <1>2, <1>3, Joined
  <2> QED BY <1>1, <1>3, <2>1
<1>7. left # <<>> /\ left[1].frame = sending /\ s[Len(scan) + 1] = left[1]
      /\ Len(scan) + 1 \in 1 .. Len(s)
  <2>1. 1 \in 1 .. Len(left)
    BY <1>2
  <2>2. left[1].frame = sending
    BY <2>1 DEF DecoderInv, Placed
  <2>3. s[Len(scan) + 1] = left[1] /\ Len(scan) + 1 \in 1 .. Len(s)
    BY <2>1, UnreadIs DEF DecoderInv
  <2> QED BY <2>1, <2>2, <2>3
<1>8. DecoderTypes'
  <2>1. sending \in Nat /\ whole \subseteq 0 .. sending
    BY DEF DecoderInv, DecoderTypes
  <2>2. whole' \subseteq 0 .. sending
    BY <1>1, <2>1
  <2> QED BY <1>1, <1>6, <2>2 DEF DecoderInv, DecoderTypes
<1>9. Placed'
  <2>1. \A i \in 1 .. Len(left') : left'[i].frame = sending
    <3> SUFFICES ASSUME NEW i \in 1 .. Len(left') PROVE left'[i].frame = sending
      OBVIOUS
    <3>1. i \in 1 .. Len(left) - n
      BY <1>6
    <3>2. left'[i] = left[n + i] /\ n + i \in 1 .. Len(left)
      BY <1>1, <1>3, <3>1
    <3> QED BY <3>2 DEF DecoderInv, Placed
  <2>2. left' # <<>> => sending \notin whole'
    BY <1>1, <1>7 DEF DecoderInv, Placed
  <2>3. /\ Sorted(s) /\ \A i \in 1 .. Len(s) : s[i].frame <= sending
        /\ \A j \in 1 .. Len(framed) :
             /\ framed[j] <= sending /\ framed[j] \notin eaten
             /\ j > 1 => framed[j - 1] < framed[j]
             /\ \A i \in 1 .. Len(s) : framed[j] < s[i].frame
        /\ \A i \in 1 .. Len(s) : s[i].frame \in eaten => s[i].place # 1
    BY DEF DecoderInv, Placed
  <2>4. UNCHANGED <<sending, framed, eaten>> /\ Unread' = s
    BY <1>1, <1>5
  <2> HIDE DEF s
  <2> QED BY <2>1, <2>2, <2>3, <2>4 DEF Placed
<1>10. Waiting'
  <2>1. ASSUME NEW f \in whole'
        PROVE  Out(f) \/ f \in eaten
                 \/ \E k \in 1 .. Len(s) : /\ FrameAt(s, k, f) /\ s[k].id \in Known
                                           /\ EndAt(s, k) <= Len(scan')
    <3>1. CASE f \in whole
      <4>1. CASE \E k \in 1 .. Len(s) : /\ FrameAt(s, k, f) /\ s[k].id \in Known
                                        /\ EndAt(s, k) <= Len(scan)
        <5>1. PICK k \in 1 .. Len(s) : /\ FrameAt(s, k, f) /\ s[k].id \in Known
                                       /\ EndAt(s, k) <= Len(scan)
          BY <4>1
        <5>2. EndAt(s, k) \in 1 .. Len(s)
          BY <1>2, <5>1, FrameSpan
        <5>3. EndAt(s, k) <= Len(scan')
          BY <1>2, <1>6, <5>1, <5>2
        <5> QED BY <5>1, <5>3
      <4> QED BY <3>1, <4>1 DEF DecoderInv, Waiting
    <3>2. CASE f \notin whole
      <4>1. f = sending /\ left' = <<>> /\ ~torn /\ left[1].id \in Known
        BY <1>1, <2>1, <3>2
      <4>2. sending \in eaten \/ \E k \in 1 .. Len(s) : FrameAt(s, k, sending)
        BY <1>7, <4>1 DEF DecoderInv, Waiting
      <4>3. ASSUME NEW k \in 1 .. Len(s), FrameAt(s, k, sending)
            PROVE  s[k].id \in Known /\ EndAt(s, k) <= Len(scan')
        <5>1. s[k].frame = sending /\ EndAt(s, k) \in 1 .. Len(s)
          <6>1. s \in Seq(Byte)
            BY <1>2
          <6> HIDE DEF s
          <6> QED BY <4>3, <6>1, FrameSpan
        <5>2. s[k].id = left[1].id
          BY <1>7, <5>1 DEF DecoderInv, Placed, Sorted
        <5>3. Len(left') = 0
          BY <4>1
        <5>4. Len(scan') = Len(s)
          BY <1>2, <1>6, <5>3
        <5>5. EndAt(s, k) <= Len(scan')
          <6>1. EndAt(s, k) \in 1 .. Len(s) /\ Len(scan') = Len(s)
            BY <5>1, <5>4
          <6> QED BY <6>1
        <5> QED BY <4>1, <5>2, <5>5
      <4> QED BY <4>1, <4>2, <4>3
    <3> QED BY <3>1, <3>2
  <2>2. left' # <<>> /\ ~torn =>
          sending \in eaten \/ \E k \in 1 .. Len(s) : FrameAt(s, k, sending)
    BY <1>7 DEF DecoderInv, Waiting
  <2>3. UNCHANGED <<sending, torn, framed, eaten>> /\ Unread' = s
    BY <1>1, <1>5
  <2>4. \A f : Out(f)' <=> Out(f)
    BY <2>3 DEF Out
  <2> HIDE DEF s
  <2> QED BY <2>1, <2>2, <2>3, <2>4 DEF Waiting
<1>11. Honest'
  <2>1. gaps = 0 => ~losing /\ ~torn /\ eaten = {} /\ Framed(s)
    BY DEF DecoderInv, Honest
  <2> HIDE DEF s
  <2> QED BY <1>1, <1>5, <2>1 DEF Honest
<1> QED BY <1>8, <1>9, <1>10, <1>11 DEF DecoderInv

LEMMA OnLose ==
  ASSUME DecoderInv, D!Lose
  PROVE  DecoderInv'
<1> DEFINE s == Unread
           t == Unread'
           n == Len(scan)
<1>1. /\ losing /\ left # <<>> /\ left' = Tail(left) /\ torn' = TRUE
      /\ UNCHANGED <<sending, losing, gaps, scan, nil, framed, whole, eaten>>
  BY DEF D!Lose, D!historyVars
<1>2. /\ s \in Seq(Byte) /\ Len(s) = n + Len(left) /\ scan \in Seq(Byte)
      /\ n \in Nat /\ Len(left) \in Nat /\ left \in Seq(Byte)
      /\ \A i \in 1 .. n : s[i] = scan[i] /\ i \in 1 .. Len(s)
      /\ \A i \in 1 .. Len(left) : s[n + i] = left[i] /\ n + i \in 1 .. Len(s)
  BY UnreadIs DEF DecoderInv
<1>3. /\ left' \in Seq(Byte) /\ Len(left') = Len(left) - 1
      /\ \A i \in 1 .. Len(left) - 1 : left'[i] = left[i + 1] /\ i + 1 \in 1 .. Len(left)
  BY <1>1, <1>2
<1>4. /\ t \in Seq(Byte) /\ Len(t) = n + Len(left')
      /\ \A i \in 1 .. n : t[i] = scan[i]
      /\ \A i \in 1 .. n + Len(left') :
           i \in 1 .. n \/ (i - n \in 1 .. Len(left') /\ t[i] = left'[i - n])
  <2> DEFINE b == left'
  <2>1. b \in Seq(Byte) /\ t = scan \o b
    BY <1>1, <1>3 DEF Unread
  <2> HIDE DEF b, t
  <2>2. /\ t \in Seq(Byte) /\ Len(t) = n + Len(b)
        /\ \A i \in 1 .. n : t[i] = scan[i]
        /\ \A i \in 1 .. n + Len(b) :
             i \in 1 .. n \/ (i - n \in 1 .. Len(b) /\ t[i] = b[i - n])
    BY <1>2, <2>1, Joined
  <2> QED BY <2>2 DEF b
<1> HIDE DEF s, t
<1> DEFINE from(i) == IF i <= n THEN i ELSE i + 1
<1>5. ASSUME NEW i \in 1 .. Len(t)
      PROVE  from(i) \in 1 .. Len(s) /\ t[i] = s[from(i)]
  <2>1. CASE i \in 1 .. n
    <3>1. from(i) = i
      BY <2>1
    <3> QED BY <1>2, <1>4, <2>1, <3>1
  <2>2. CASE i \notin 1 .. n
    <3>1. i - n \in 1 .. Len(left') /\ t[i] = left'[i - n]
      BY <1>4, <2>2
    <3>2. i - n \in 1 .. Len(left) - 1
      BY <1>3, <3>1
    <3>3. t[i] = left[(i - n) + 1] /\ (i - n) + 1 \in 1 .. Len(left)
      BY <1>3, <3>1, <3>2
    <3>4. from(i) = n + ((i - n) + 1)
      BY <1>2, <2>2
    <3> QED BY <1>2, <3>3, <3>4
  <2> QED BY <2>1, <2>2
<1>6. \A i, j \in 1 .. Len(t) : i < j => from(i) < from(j)
  BY <1>2
<1> HIDE DEF from
<1>7. Sorted(s) /\ sending \notin whole /\ gaps # 0
  BY <1>1 DEF DecoderInv, Placed, Honest, s
<1>8. Sorted(t)
  <2> SUFFICES ASSUME NEW i \in 1 .. Len(t), NEW j \in 1 .. Len(t)
               PROVE  /\ i < j => t[i].frame < t[j].frame
                                  \/ (t[i].frame = t[j].frame /\ t[i].place < t[j].place)
                      /\ t[i].frame = t[j].frame =>
                           /\ t[i].id = t[j].id
                           /\ t[i].place = 2 => t[j].place <= 5 + t[i].val
    BY DEF Sorted
  <2>1. /\ from(i) \in 1 .. Len(s) /\ from(j) \in 1 .. Len(s) /\ t[i] = s[from(i)]
        /\ t[j] = s[from(j)] /\ i < j => from(i) < from(j)
    <3>1. from(i) \in 1 .. Len(s) /\ t[i] = s[from(i)]
      BY <1>5
    <3>2. from(j) \in 1 .. Len(s) /\ t[j] = s[from(j)]
      BY <1>5
    <3> QED BY <1>6, <3>1, <3>2
  <2>2. i < j => from(i) < from(j)
    BY <1>6
  <2>3. from(i) \in 1 .. Len(s) /\ t[i] = s[from(i)]
    BY <1>5
  <2>4. from(j) \in 1 .. Len(s) /\ t[j] = s[from(j)]
    BY <1>5
  <2> QED BY <1>7, <2>2, <2>3, <2>4 DEF Sorted
<1>9. Placed'
  <2>1. /\ \A i \in 1 .. Len(s) : s[i].frame <= sending
        /\ \A i \in 1 .. Len(left) : left[i].frame = sending
        /\ \A j \in 1 .. Len(framed) :
             /\ framed[j] <= sending /\ framed[j] \notin eaten
             /\ j > 1 => framed[j - 1] < framed[j]
             /\ \A i \in 1 .. Len(s) : framed[j] < s[i].frame
        /\ \A i \in 1 .. Len(s) : s[i].frame \in eaten => s[i].place # 1
    BY DEF DecoderInv, Placed, s
  <2>2. ASSUME NEW i \in 1 .. Len(left') PROVE left'[i].frame = sending
    <3>1. i \in 1 .. Len(left) - 1
      BY <1>3
    <3>2. left'[i] = left[i + 1] /\ i + 1 \in 1 .. Len(left)
      BY <1>3, <3>1
    <3> QED BY <2>1, <3>2
  <2>3. /\ \A i \in 1 .. Len(t) : t[i].frame <= sending
        /\ \A j \in 1 .. Len(framed) :
             /\ framed[j] <= sending /\ framed[j] \notin eaten
             /\ j > 1 => framed[j - 1] < framed[j]
             /\ \A i \in 1 .. Len(t) : framed[j] < t[i].frame
        /\ \A i \in 1 .. Len(t) : t[i].frame \in eaten => t[i].place # 1
    BY <1>5, <2>1
  <2>4. UNCHANGED <<sending, framed, eaten, whole>> /\ Unread' = t
    BY <1>1 DEF t
  <2> QED BY <1>7, <1>8, <2>2, <2>3, <2>4 DEF Placed
<1>10. Waiting'
  <2>1. ASSUME NEW f \in whole
        PROVE  Out(f) \/ f \in eaten
                 \/ \E k \in 1 .. Len(t) : /\ FrameAt(t, k, f) /\ t[k].id \in Known
                                           /\ EndAt(t, k) <= n
    <3>1. CASE \E k \in 1 .. Len(s) : /\ FrameAt(s, k, f) /\ s[k].id \in Known
                                      /\ EndAt(s, k) <= n
      <4>1. PICK k \in 1 .. Len(s) : /\ FrameAt(s, k, f) /\ s[k].id \in Known
                                     /\ EndAt(s, k) <= n
        BY <3>1
      <4>2. n <= Len(s) /\ n <= Len(t) /\ \A i \in 1 .. n : t[i] = s[i]
        BY <1>2, <1>3, <1>4
      <4>3. FrameAt(t, k, f) /\ EndAt(t, k) = EndAt(s, k) /\ t[k] = s[k] /\ k \in 1 .. Len(t)
        BY <1>2, <1>4, <4>1, <4>2, FrameKept
      <4> QED BY <4>1, <4>3
    <3> QED BY <3>1 DEF DecoderInv, Waiting, s
  <2>2. UNCHANGED <<sending, framed, eaten, whole, scan>> /\ Unread' = t /\ torn'
    BY <1>1 DEF t
  <2>3. \A f : Out(f)' <=> Out(f)
    BY <2>2 DEF Out
  <2> QED BY <2>1, <2>2, <2>3 DEF Waiting
<1>11. DecoderTypes'
  BY <1>1, <1>3 DEF DecoderInv, DecoderTypes
<1>12. Honest'
  BY <1>1, <1>7 DEF Honest
<1> QED BY <1>9, <1>10, <1>11, <1>12 DEF DecoderInv

LEMMA OnGap ==
  ASSUME DecoderInv, D!GapBegins \/ D!GapEnds \/ UNCHANGED decoderVars
  PROVE  DecoderInv'
<1>1. /\ UNCHANGED <<sending, left, torn, scan, nil, framed, whole, eaten>>
      /\ \/ losing' = TRUE /\ gaps' = gaps + 1
         \/ losing' = FALSE /\ gaps' = gaps
         \/ UNCHANGED <<losing, gaps>>
  BY DEF D!GapBegins, D!GapEnds, D!historyVars, decoderVars
<1>2. Unread' = Unread
  BY <1>1 DEF Unread
<1>3. losing' \in BOOLEAN /\ gaps' \in Nat /\ (gaps' = 0 => gaps = 0 /\ (losing' => losing))
  <2>1. gaps \in Nat /\ losing \in BOOLEAN
    BY DEF DecoderInv, DecoderTypes
  <2>2. CASE losing' = TRUE /\ gaps' = gaps + 1
    <3>1. gaps' \in Nat /\ gaps' # 0
      BY <2>1, <2>2
    <3> QED BY <2>2, <3>1
  <2>3. CASE losing' = FALSE /\ gaps' = gaps
    BY <2>1, <2>3
  <2>4. CASE UNCHANGED <<losing, gaps>>
    BY <2>1, <2>4
  <2> QED BY <1>1, <2>2, <2>3, <2>4, Zenon
<1>4. DecoderTypes'
  BY <1>1, <1>3 DEF DecoderInv, DecoderTypes
<1>5. Placed'
  BY <1>1, <1>2 DEF DecoderInv, Placed
<1>6. Waiting'
  <2>1. \A f : Out(f)' <=> Out(f)
    BY <1>1 DEF Out
  <2> QED BY <1>1, <1>2, <2>1 DEF DecoderInv, Waiting
<1>7. Honest'
  BY <1>1, <1>2, <1>3 DEF DecoderInv, Honest
<1> QED BY <1>4, <1>5, <1>6, <1>7 DEF DecoderInv

LEMMA DecoderInit == D!Init => DecoderInv
<1> SUFFICES ASSUME D!Init PROVE DecoderInv
  OBVIOUS
<1>1. /\ sending = 0 /\ left = <<>> /\ losing = FALSE /\ torn = FALSE /\ gaps = 0
      /\ scan = <<>> /\ nil = TRUE /\ framed = <<>> /\ whole = {} /\ eaten = {}
  BY DEF D!Init
<1>2. <<>> \in Seq(Byte) /\ <<>> \in Seq(Nat) /\ Len(<<>>) = 0 /\ <<>> \o <<>> = <<>>
  OBVIOUS
<1>3. Unread = <<>>
  BY <1>1, <1>2 DEF Unread
<1>4. \A i : i \notin 1 .. 0
  OBVIOUS
<1>5. DecoderTypes
  BY <1>1, <1>2 DEF DecoderTypes
<1>6. Placed
  BY <1>1, <1>2, <1>3, <1>4 DEF Placed, Sorted
<1>7. Waiting
  BY <1>1, <1>2, <1>3, <1>4 DEF Waiting
<1>8. Honest
  BY <1>1, <1>2, <1>3, <1>4 DEF Honest, Framed
<1> QED BY <1>5, <1>6, <1>7, <1>8 DEF DecoderInv

LEMMA DecoderNext == DecoderInv /\ (D!Steps \/ UNCHANGED decoderVars) => DecoderInv'
<1> SUFFICES ASSUME DecoderInv, D!Steps \/ UNCHANGED decoderVars PROVE DecoderInv'
  OBVIOUS
<1>1. CASE D!Noise \/ D!FlagsBad \/ D!FalseStart
  BY <1>1, OnNoise
<1>2. CASE D!Return
  BY <1>2, OnReturn
<1>3. CASE D!SkipUnknown
  BY <1>3, OnSkip
<1>4. CASE D!ReturnNil
  BY <1>4, OnNil
<1>5. CASE \E id \in Known \union Unknown, p \in Payloads : D!SendFrame(id, p)
  BY <1>5, OnSend
<1>6. CASE \E n \in 1 .. Len(left) : D!Feed(n)
  BY <1>6, OnFeed
<1>7. CASE D!Lose
  BY <1>7, OnLose
<1>8. CASE D!GapBegins \/ D!GapEnds \/ UNCHANGED decoderVars
  BY <1>8, OnGap
<1> QED BY <1>1, <1>2, <1>3, <1>4, <1>5, <1>6, <1>7, <1>8 DEF D!Steps, D!Stream, D!Next

LEMMA DecoderShown == DecoderInv => D!FramesFound
<1> SUFFICES ASSUME DecoderInv PROVE D!FramesFound
  OBVIOUS
<1>1. /\ framed \in Seq(Nat) /\ scan \in Seq(Byte) /\ Unread \in Seq(Byte) /\ Len(scan) \in Nat
      /\ \A i \in 1 .. Len(scan) : Unread[i] = scan[i] /\ i \in 1 .. Len(Unread)
  BY UnreadIs DEF DecoderInv, DecoderTypes
<1>2. DOMAIN framed = 1 .. Len(framed) /\ DOMAIN scan = 1 .. Len(scan)
  BY <1>1
<1>3. \A j \in DOMAIN framed : framed[j] \notin eaten /\ (j > 1 => framed[j - 1] < framed[j])
  BY <1>2 DEF DecoderInv, Placed
<1>4. ASSUME NEW f \in whole
      PROVE  f \in eaten \/ (\E j \in DOMAIN framed : framed[j] = f) \/ D!InBuf(f)
  <2>1. CASE Out(f)
    BY <1>2, <2>1 DEF Out
  <2>2. CASE \E k \in 1 .. Len(Unread) : FrameAt(Unread, k, f) /\ EndAt(Unread, k) <= Len(scan)
    <3>1. PICK k \in 1 .. Len(Unread) : FrameAt(Unread, k, f) /\ EndAt(Unread, k) <= Len(scan)
      BY <2>2
    <3>2. /\ EndAt(Unread, k) \in 1 .. Len(Unread) /\ EndAt(Unread, k) >= k + 4
          /\ Unread[k].frame = f /\ Unread[k].place = 1
      <4>1. Unread \in Seq(Byte)
        BY <1>1
      <4> QED BY <3>1, <4>1, FrameSpan
    <3>3. k \in 1 .. Len(scan)
      BY <1>1, <3>1, <3>2
    <3>4. scan[k].frame = f /\ scan[k].place = 1
      BY <1>1, <3>2, <3>3
    <3> QED BY <1>2, <3>3, <3>4 DEF D!InBuf
  <2> QED BY <2>1, <2>2 DEF DecoderInv, Waiting
<1>5. gaps = 0 => eaten = {} /\ (nil => \A i \in DOMAIN scan : scan[i].frame = sending)
  BY <1>2 DEF DecoderInv, Honest
<1> QED BY <1>3, <1>4, <1>5 DEF D!FramesFound

------------------------------------------------------------------------------

(* The bench, for any calls, values and payloads, losses, restarts and     *)
(* gaps: a parameter that was read back, or set and answered, is as the    *)
(* call says until the program sets it again; frames come out in order,    *)
(* each once, and one fed whole comes out, waits, or was eaten by what was *)
(* skipped unchecked behind a gap (Verified, FramesFound).                 *)
THEOREM BenchTrue == B!Spec /\ D!Spec => []BenchHeard
<1>1. BenchInv /\ DecoderInv => BenchHeard
  BY BenchShown, DecoderShown DEF BenchHeard
<1>2. B!Spec => []BenchInv
  BY BenchInit, BenchNext, PTL DEF B!Spec
<1>3. DecoderInv /\ [D!Steps]_(D!vars) => DecoderInv'
  <2>1. UNCHANGED D!vars => UNCHANGED decoderVars
    BY DEF D!vars, D!streamVars, D!historyVars, decoderVars
  <2> QED BY <2>1, DecoderNext
<1>4. D!Spec => []DecoderInv
  BY <1>3, DecoderInit, PTL DEF D!Spec
<1> QED BY <1>1, <1>2, <1>4, PTL

------------------------------------------------------------------------------
(* The reports' way to the host.                                           *)

Pieces == [line : Nat, part : 1 .. 3]

(* The pieces on their way, of n lines of which those in d are known to be *)
(* lost: in order, no line ends without being lost in anything but its     *)
(* third piece or begins in anything but its first, and none is missing.   *)
Rises(s) ==
  \A i, j \in 1 .. Len(s) : i < j =>
    s[i].line < s[j].line \/ (s[i].line = s[j].line /\ s[i].part < s[j].part)
Follows(s, i, d) ==
  \/ s[i + 1].line = s[i].line /\ s[i + 1].part = s[i].part + 1
  \/ s[i + 1].part = 1 /\ (s[i].part = 3 \/ s[i].line \in d)
Unbroken(s, n, d) ==
  /\ \A i \in 1 .. Len(s) : s[i].line \in 1 .. n
  /\ Rises(s)
  /\ \A i \in 1 .. Len(s) - 1 : Follows(s, i, d)
  /\ s # <<>> =>
       /\ s[1].part = 1 \/ s[1].line \in d
       /\ s[Len(s)].part = 3 \/ s[Len(s)].line \in d
       /\ \A x \in s[1].line .. n : x \in d \/ \E k \in 1 .. Len(s) : s[k].line = x

(* Every line was accepted or is on its way, or it or the one before it is *)
(* lost; what was accepted came before all that is on its way.             *)
Accounted(s, g, n, d) ==
  \A i \in 1 .. n : \/ i \in d \/ i - 1 \in d
                    \/ \E j \in 1 .. Len(g) : g[j] = i
                    \/ \E k \in 1 .. Len(s) : s[k].line = i
Accepted(s, g, n) ==
  \A j \in 1 .. Len(g) :
    /\ g[j] \in 1 .. n /\ (j > 1 => g[j - 1] < g[j])
    /\ \A i \in 1 .. Len(s) : g[j] < s[i].line

Told(s, g, n, d) ==
  /\ s \in Seq(Pieces) /\ g \in Seq(Nat) /\ n \in Nat
  /\ Unbroken(s, n, d) /\ Accounted(s, g, n, d) /\ Accepted(s, g, n)

NoEnd(s) == \A i \in 1 .. Len(s) : s[i].part # 3

LEMMA PieceTypes ==
  ASSUME NEW s \in Seq(Pieces), NEW i \in 1 .. Len(s)
  PROVE  s[i] \in Pieces /\ s[i].line \in Nat /\ s[i].part \in 1 .. 3
<1>1. s[i] \in Pieces
  OBVIOUS
<1> QED BY <1>1 DEF Pieces

(* An earlier piece is of an earlier line, or earlier in the same.         *)
LEMMA Earlier ==
  ASSUME NEW s \in Seq(Pieces), Rises(s), NEW i \in 1 .. Len(s), NEW j \in 1 .. Len(s), i < j
  PROVE  /\ s[i].line < s[j].line \/ (s[i].line = s[j].line /\ s[i].part < s[j].part)
         /\ s[i].line <= s[j].line
<1>1. s[i].line \in Nat /\ s[j].line \in Nat
  BY PieceTypes
<1>2. s[i].line < s[j].line \/ (s[i].line = s[j].line /\ s[i].part < s[j].part)
  BY DEF Rises
<1> QED BY <1>1, <1>2

(* What is known to be lost may come to be more.                           *)
LEMMA MoreLost ==
  ASSUME NEW s, NEW g, NEW n, NEW d, NEW e, Told(s, g, n, d), d \subseteq e
  PROVE  Told(s, g, n, e)
<1>1. Unbroken(s, n, e)
  <2>1. \A i \in 1 .. Len(s) - 1 : Follows(s, i, d) => Follows(s, i, e)
    BY DEF Follows
  <2> QED BY <2>1 DEF Told, Unbroken
<1>2. Accounted(s, g, n, e)
  BY DEF Told, Accounted
<1> QED BY <1>1, <1>2 DEF Told

(* The first pieces go, as lost ones or with the end of a line.            *)
LEMMA FrontGone ==
  ASSUME NEW s, NEW n, NEW d, s \in Seq(Pieces), n \in Nat, Unbroken(s, n, d),
         NEW m \in 0 .. Len(s), NEW t \in Seq(Pieces), Len(t) = Len(s) - m,
         \A i \in 1 .. Len(t) : t[i] = s[i + m],
         m > 0 => s[m].part = 3 \/ s[m].line \in d
  PROVE  Unbroken(t, n, d)
<1>1. /\ Len(s) \in Nat /\ Len(t) \in Nat /\ m \in Nat
      /\ \A i \in 1 .. Len(t) : i + m \in 1 .. Len(s) /\ t[i] = s[i + m]
  OBVIOUS
<1>2. \A i \in 1 .. Len(t) : t[i].line \in 1 .. n
  BY <1>1 DEF Unbroken
<1>3. Rises(t)
  <2> SUFFICES ASSUME NEW i \in 1 .. Len(t), NEW j \in 1 .. Len(t), i < j
               PROVE  t[i].line < t[j].line
                      \/ (t[i].line = t[j].line /\ t[i].part < t[j].part)
    BY DEF Rises
  <2> DEFINE a == i + m
             b == j + m
  <2>1. a < b
    BY <1>1
  <2>2. a \in 1 .. Len(s) /\ t[i] = s[a]
    BY <1>1
  <2>3. b \in 1 .. Len(s) /\ t[j] = s[b]
    BY <1>1
  <2> HIDE DEF a, b
  <2>4. Rises(s)
    BY DEF Unbroken
  <2> QED BY <2>1, <2>2, <2>3, <2>4, Earlier
<1>4. ASSUME NEW i \in 1 .. Len(t) - 1 PROVE Follows(t, i, d)
  <2>1. /\ i \in 1 .. Len(t) /\ i + 1 \in 1 .. Len(t) /\ i + m \in 1 .. Len(s) - 1
        /\ (i + 1) + m = (i + m) + 1
    BY <1>1
  <2>2. t[i] = s[i + m] /\ t[i + 1] = s[(i + m) + 1]
    BY <1>1, <2>1
  <2>3. Follows(s, i + m, d)
    BY <2>1 DEF Unbroken
  <2> QED BY <2>2, <2>3 DEF Follows
<1>5. ASSUME t # <<>>
      PROVE  /\ t[1].part = 1 \/ t[1].line \in d
             /\ t[Len(t)].part = 3 \/ t[Len(t)].line \in d
             /\ \A x \in t[1].line .. n : x \in d \/ \E k \in 1 .. Len(t) : t[k].line = x
  <2>1. /\ 1 \in 1 .. Len(t) /\ Len(t) \in 1 .. Len(t) /\ 1 + m \in 1 .. Len(s) /\ s # <<>>
        /\ Len(t) + m = Len(s) /\ t[1] = s[1 + m] /\ t[Len(t)] = s[Len(s)] /\ 1 \in 1 .. Len(s)
    <3>1. 1 \in 1 .. Len(t) /\ Len(t) \in 1 .. Len(t) /\ Len(t) + m = Len(s)
      BY <1>1, <1>5
    <3>2. 1 + m \in 1 .. Len(s) /\ t[1] = s[1 + m] /\ t[Len(t)] = s[Len(s)]
      BY <1>1, <3>1
    <3>3. 1 \in 1 .. Len(s) /\ s # <<>>
      BY <1>1, <3>1
    <3> QED BY <3>1, <3>2, <3>3
  <2>2. t[Len(t)].part = 3 \/ t[Len(t)].line \in d
    BY <2>1 DEF Unbroken
  <2>3. t[1].part = 1 \/ t[1].line \in d
    <3>1. CASE m = 0
      <4>1. 1 + m = 1
        BY <3>1
      <4> QED BY <2>1, <4>1 DEF Unbroken
    <3>2. CASE m > 0
      <4>1. m \in 1 .. Len(s) - 1 /\ m \in 1 .. Len(s) /\ 1 + m = m + 1
        BY <1>1, <2>1, <3>2
      <4>2. Follows(s, m, d) /\ t[1] = s[m + 1]
        BY <2>1, <4>1 DEF Unbroken
      <4>3. t[1].part \in 1 .. 3
        BY <2>1, PieceTypes
      <4>4. CASE t[1].line = s[m].line /\ t[1].part = s[m].part + 1
        <5>1. s[m].part # 3
          BY <4>3, <4>4
        <5> QED BY <3>2, <4>4, <5>1
      <4> QED BY <4>2, <4>4 DEF Follows
    <3> QED BY <1>1, <3>1, <3>2
  <2>4. ASSUME NEW x \in t[1].line .. n PROVE x \in d \/ \E k \in 1 .. Len(t) : t[k].line = x
    <3>1. s[1].line \in Nat /\ t[1].line \in Nat /\ s[1].line <= t[1].line
      <4>1. s[1].line \in Nat /\ t[1].line \in Nat
        BY <2>1, PieceTypes
      <4>2. CASE m = 0
        <5>1. 1 + m = 1
          BY <4>2
        <5> QED BY <2>1, <4>1, <5>1
      <4>3. CASE m > 0
        <5>1. 1 < 1 + m
          BY <1>1, <4>3
        <5>2. s[1].line < s[1 + m].line \/ s[1].line = s[1 + m].line
          BY <2>1, <5>1 DEF Unbroken, Rises
        <5> QED BY <2>1, <4>1, <5>2
      <4> QED BY <1>1, <4>1, <4>2, <4>3
    <3>2. x \in s[1].line .. n /\ x \in Nat
      BY <3>1
    <3>3. x \in d \/ \E k \in 1 .. Len(s) : s[k].line = x
      BY <2>1, <3>2 DEF Unbroken
    <3>4. ASSUME NEW k \in 1 .. Len(s), s[k].line = x
          PROVE  \E i \in 1 .. Len(t) : t[i].line = x
      <4>1. CASE k <= m
        <5>1. k < 1 + m
          BY <1>1, <4>1
        <5>2. s[k].line <= s[1 + m].line
          <6> DEFINE j == 1 + m
          <6>1. j \in 1 .. Len(s) /\ k < j /\ Rises(s)
            BY <2>1, <5>1 DEF Unbroken
          <6> HIDE DEF j
          <6>2. s[k].line <= s[j].line
            BY <6>1, Earlier
          <6> QED BY <6>2 DEF j
        <5>3. t[1].line = x
          BY <2>1, <3>1, <3>4, <5>2
        <5> QED BY <2>1, <5>3
      <4>2. CASE k > m
        <5> DEFINE i == k - m
        <5>1. i \in 1 .. Len(t) /\ i + m = k
          BY <1>1, <4>2
        <5> HIDE DEF i
        <5>2. t[i] = s[k]
          BY <1>1, <5>1
        <5> QED BY <3>4, <5>1, <5>2
      <4> QED BY <1>1, <4>1, <4>2
    <3> QED BY <3>3, <3>4
  <2> QED BY <2>2, <2>3, <2>4
<1> QED BY <1>2, <1>3, <1>4, <1>5 DEF Unbroken

(* The first pieces are lost.                                              *)
LEMMA FrontLost ==
  ASSUME NEW s, NEW g, NEW n, NEW d, Told(s, g, n, d), NEW m, NEW t \in Seq(Pieces),
         Shorter(s, m, t), NEW e, d \subseteq e, \A i \in 1 .. m : s[i].line \in e
  PROVE  Told(t, g, n, e)
<1>1. Told(s, g, n, e)
  BY MoreLost
<1>2. /\ s \in Seq(Pieces) /\ g \in Seq(Nat) /\ n \in Nat
      /\ Unbroken(s, n, e) /\ Accounted(s, g, n, e) /\ Accepted(s, g, n)
  BY <1>1 DEF Told
<1>3. /\ m \in 0 .. Len(s) /\ Len(t) = Len(s) - m /\ Len(s) \in Nat /\ Len(t) \in Nat
      /\ \A i \in 1 .. Len(t) : t[i] = s[i + m] /\ i + m \in 1 .. Len(s)
  BY <1>2 DEF Shorter
<1>4. m > 0 => s[m].line \in e
  <2>1. m > 0 => m \in 1 .. m
    BY <1>3
  <2> QED BY <2>1
<1>5. Unbroken(t, n, e)
  BY <1>2, <1>3, <1>4, FrontGone
<1>6. ASSUME NEW k \in 1 .. Len(s)
      PROVE  s[k].line \in e \/ \E i \in 1 .. Len(t) : t[i].line = s[k].line
  <2>1. CASE k <= m
    <3>1. k \in 1 .. m
      BY <1>3, <2>1
    <3> QED BY <3>1
  <2>2. CASE k > m
    <3> DEFINE i == k - m
    <3>1. i \in 1 .. Len(t) /\ i + m = k
      BY <1>3, <2>2
    <3> HIDE DEF i
    <3>2. t[i] = s[k]
      BY <1>3, <3>1
    <3> QED BY <3>1, <3>2
  <2> QED BY <1>3, <2>1, <2>2
<1>7. Accounted(t, g, n, e)
  BY <1>2, <1>6 DEF Accounted
<1>8. Accepted(t, g, n)
  BY <1>2, <1>3 DEF Accepted
<1> QED BY <1>2, <1>5, <1>7, <1>8 DEF Told

(* The last pieces are lost.                                               *)
Opening(s, m, t) ==
  m \in 0 .. Len(s) /\ Len(t) = m /\ \A i \in 1 .. m : t[i] = s[i]

LEMMA BackLost ==
  ASSUME NEW s, NEW g, NEW n, NEW d, Told(s, g, n, d), NEW m, NEW t \in Seq(Pieces),
         Opening(s, m, t), NEW e, d \subseteq e, \A i \in m + 1 .. Len(s) : s[i].line \in e
  PROVE  Told(t, g, n, e)
<1>1. Told(s, g, n, e)
  BY MoreLost
<1>2. /\ s \in Seq(Pieces) /\ g \in Seq(Nat) /\ n \in Nat
      /\ Unbroken(s, n, e) /\ Accounted(s, g, n, e) /\ Accepted(s, g, n)
  BY <1>1 DEF Told
<1>3. /\ m \in 0 .. Len(s) /\ Len(t) = m /\ Len(s) \in Nat /\ m \in Nat
      /\ \A i \in 1 .. m : t[i] = s[i] /\ i \in 1 .. Len(s) /\ i \in 1 .. Len(t)
  BY <1>2 DEF Opening
<1>4. Rises(s)
  BY <1>2 DEF Unbroken
<1>5. ASSUME NEW i \in 1 .. Len(t) - 1 PROVE Follows(t, i, e)
  <2>1. i \in 1 .. m /\ i + 1 \in 1 .. m /\ i \in 1 .. Len(s) - 1
    BY <1>3
  <2>2. t[i] = s[i] /\ t[i + 1] = s[i + 1]
    BY <1>3, <2>1
  <2>3. Follows(s, i, e)
    BY <1>2, <2>1 DEF Unbroken
  <2> QED BY <2>2, <2>3 DEF Follows
<1>6. ASSUME t # <<>>
      PROVE  /\ t[1].part = 1 \/ t[1].line \in e
             /\ t[Len(t)].part = 3 \/ t[Len(t)].line \in e
             /\ \A x \in t[1].line .. n : x \in e \/ \E k \in 1 .. Len(t) : t[k].line = x
  <2>1. /\ 1 \in 1 .. m /\ m \in 1 .. m /\ m > 0 /\ t[1] = s[1] /\ t[m] = s[m] /\ s # <<>>
        /\ m \in 1 .. Len(s)
    <3>1. 1 \in 1 .. m /\ m \in 1 .. m /\ m > 0
      BY <1>3, <1>6
    <3> QED BY <1>2, <1>3, <3>1
  <2>2. t[1].part = 1 \/ t[1].line \in e
    BY <1>2, <2>1 DEF Unbroken
  <2>3. t[m].part = 3 \/ t[m].line \in e
    <3>1. CASE m = Len(s)
      BY <1>2, <2>1, <3>1 DEF Unbroken
    <3>2. CASE m # Len(s)
      <4>1. m \in 1 .. Len(s) - 1 /\ m + 1 \in m + 1 .. Len(s)
        BY <1>3, <2>1, <3>2
      <4>2. Follows(s, m, e) /\ s[m + 1].line \in e
        BY <1>2, <4>1 DEF Unbroken
      <4> QED BY <2>1, <4>2 DEF Follows
    <3> QED BY <3>1, <3>2
  <2>4. ASSUME NEW x \in t[1].line .. n PROVE x \in e \/ \E k \in 1 .. Len(t) : t[k].line = x
    <3>1. x \in e \/ \E k \in 1 .. Len(s) : s[k].line = x
      BY <1>2, <2>1, <2>4 DEF Unbroken
    <3>2. ASSUME NEW k \in 1 .. Len(s), s[k].line = x
          PROVE  x \in e \/ \E i \in 1 .. Len(t) : t[i].line = x
      <4>1. CASE k <= m
        <5>1. k \in 1 .. m
          BY <1>3, <4>1
        <5> QED BY <1>3, <3>2, <5>1
      <4>2. CASE k > m
        <5>1. k \in m + 1 .. Len(s)
          BY <1>3, <4>2
        <5> QED BY <3>2, <5>1
      <4> QED BY <1>3, <4>1, <4>2
    <3> QED BY <3>1, <3>2
  <2> QED BY <1>3, <2>2, <2>3, <2>4
<1>7. Rises(t)
  <2> SUFFICES ASSUME NEW i \in 1 .. Len(t), NEW j \in 1 .. Len(t), i < j
               PROVE  t[i].line < t[j].line
                      \/ (t[i].line = t[j].line /\ t[i].part < t[j].part)
    BY DEF Rises
  <2>1. i \in 1 .. Len(s) /\ t[i] = s[i] /\ j \in 1 .. Len(s) /\ t[j] = s[j]
    BY <1>3
  <2> QED BY <1>2, <1>4, <2>1, Earlier
<1>8. \A i \in 1 .. Len(t) : t[i].line \in 1 .. n
  BY <1>2, <1>3 DEF Unbroken
<1>9. Unbroken(t, n, e)
  BY <1>5, <1>6, <1>7, <1>8 DEF Unbroken
<1>10. ASSUME NEW k \in 1 .. Len(s)
       PROVE  s[k].line \in e \/ \E i \in 1 .. Len(t) : t[i].line = s[k].line
  <2>1. CASE k <= m
    <3>1. k \in 1 .. m
      BY <1>3, <2>1
    <3> QED BY <1>3, <3>1
  <2>2. CASE k > m
    <3>1. k \in m + 1 .. Len(s)
      BY <1>3, <2>2
    <3> QED BY <3>1
  <2> QED BY <1>3, <2>1, <2>2
<1>11. Accounted(t, g, n, e)
  BY <1>2, <1>10 DEF Accounted
<1>12. Accepted(t, g, n)
  BY <1>2, <1>3 DEF Accepted
<1> QED BY <1>2, <1>9, <1>11, <1>12 DEF Told

(* A line is reported: there is room for it ...                            *)
LEMMA LineAdded ==
  ASSUME NEW s, NEW g, NEW n, NEW d, Told(s, g, n, d), NEW t \in Seq(Pieces),
         Len(t) = Len(s) + 3, \A i \in 1 .. Len(s) : t[i] = s[i],
         \A k \in 1 .. 3 : t[Len(s) + k].line = n + 1 /\ t[Len(s) + k].part = k
  PROVE  Told(t, g, n + 1, d)
<1> DEFINE l == Len(s)
           y == n + 1
<1>1. /\ s \in Seq(Pieces) /\ g \in Seq(Nat) /\ n \in Nat
      /\ Unbroken(s, n, d) /\ Accounted(s, g, n, d) /\ Accepted(s, g, n)
  BY DEF Told
<1>2. /\ l \in Nat /\ Len(t) = l + 3 /\ y \in Nat /\ y = n + 1
      /\ \A i \in 1 .. l : t[i] = s[i] /\ i \in 1 .. Len(t)
      /\ \A k \in 1 .. 3 : t[l + k].line = y /\ t[l + k].part = k
  BY <1>1
<1>3. /\ t[l + 1].line = y /\ t[l + 1].part = 1 /\ t[l + 2].line = y /\ t[l + 2].part = 2
      /\ t[l + 3].line = y /\ t[l + 3].part = 3
  <2>1. 1 \in 1 .. 3 /\ 2 \in 1 .. 3 /\ 3 \in 1 .. 3
    OBVIOUS
  <2> QED BY <1>2, <2>1
<1> HIDE DEF l, y
<1>4. ASSUME NEW i \in 1 .. Len(t)
      PROVE  i \in 1 .. l \/ i = l + 1 \/ i = l + 2 \/ i = l + 3
  BY <1>2
<1>5. \A i \in 1 .. l : s[i].line \in 1 .. n /\ t[i].line = s[i].line /\ t[i].line < y
  <2>1. \A i \in 1 .. l : s[i].line \in 1 .. n /\ t[i] = s[i]
    BY <1>1, <1>2 DEF Unbroken, l
  <2> QED BY <1>1, <1>2, <2>1
<1>6. \A i \in 1 .. Len(t) : t[i].line \in 1 .. y
  <2> SUFFICES ASSUME NEW i \in 1 .. Len(t) PROVE t[i].line \in 1 .. y
    OBVIOUS
  <2>1. y \in 1 .. y
    BY <1>1, <1>2
  <2>2. CASE i \in 1 .. l
    <3>1. s[i].line \in 1 .. n /\ t[i].line = s[i].line
      BY <1>5, <2>2
    <3> QED BY <1>1, <1>2, <3>1
  <2>3. CASE i = l + 1
    BY <1>3, <2>1, <2>3
  <2>4. CASE i = l + 2
    BY <1>3, <2>1, <2>4
  <2>5. CASE i = l + 3
    BY <1>3, <2>1, <2>5
  <2> QED BY <1>4, <2>2, <2>3, <2>4, <2>5
<1>7. Rises(t)
  <2> SUFFICES ASSUME NEW i \in 1 .. Len(t), NEW j \in 1 .. Len(t), i < j
               PROVE  t[i].line < t[j].line
                      \/ (t[i].line = t[j].line /\ t[i].part < t[j].part)
    BY DEF Rises
  <2>1. CASE j \in 1 .. l
    <3>1. i \in 1 .. l
      BY <1>2, <2>1
    <3>2. t[i] = s[i] /\ t[j] = s[j] /\ Rises(s)
      BY <1>1, <1>2, <2>1, <3>1 DEF Unbroken
    <3> QED BY <1>1, <2>1, <3>1, <3>2, Earlier DEF l
  <2>2. CASE i \in 1 .. l /\ j \notin 1 .. l
    <3>1. t[j].line = y
      BY <1>3, <1>4, <2>2
    <3> QED BY <1>5, <2>2, <3>1
  <2>3. CASE i \notin 1 .. l /\ j \notin 1 .. l
    <3>1. i = l + 1 \/ i = l + 2 \/ i = l + 3
      BY <1>4, <2>3
    <3>2. j = l + 1 \/ j = l + 2 \/ j = l + 3
      BY <1>4, <2>3
    <3>3. (i = l + 1 /\ (j = l + 2 \/ j = l + 3)) \/ (i = l + 2 /\ j = l + 3)
      BY <1>2, <3>1, <3>2
    <3> QED BY <1>3, <3>3
  <2> QED BY <2>1, <2>2, <2>3
<1>8. ASSUME NEW i \in 1 .. Len(t) - 1 PROVE Follows(t, i, d)
  <2>1. CASE i \in 1 .. l - 1
    <3>1. i \in 1 .. l /\ i + 1 \in 1 .. l
      BY <1>2, <2>1
    <3>2. t[i] = s[i] /\ t[i + 1] = s[i + 1] /\ Follows(s, i, d)
      BY <1>1, <1>2, <2>1, <3>1 DEF Unbroken, l
    <3> QED BY <3>2 DEF Follows
  <2>2. CASE i = l
    <3>1. l \in 1 .. l /\ s # <<>>
      BY <1>1, <1>2, <2>2 DEF l
    <3>2. t[l] = s[l] /\ (s[l].part = 3 \/ s[l].line \in d)
      BY <1>1, <1>2, <3>1 DEF Unbroken, l
    <3> QED BY <1>3, <2>2, <3>2 DEF Follows
  <2>3. CASE i = l + 1
    <3>1. i + 1 = l + 2
      BY <1>2, <2>3
    <3> QED BY <1>3, <2>3, <3>1 DEF Follows
  <2>4. CASE i = l + 2
    <3>1. i + 1 = l + 3
      BY <1>2, <2>4
    <3> QED BY <1>3, <2>4, <3>1 DEF Follows
  <2> QED BY <1>2, <2>1, <2>2, <2>3, <2>4
<1>9. Len(t) = l + 3 /\ l + 1 \in 1 .. Len(t) /\ l + 3 \in 1 .. Len(t) /\ t # <<>>
  BY <1>2
<1>10. t[1].part = 1 \/ t[1].line \in d
  <2>1. CASE l = 0
    <3>1. l + 1 = 1
      BY <2>1
    <3> QED BY <1>3, <3>1
  <2>2. CASE l # 0
    <3>1. 1 \in 1 .. l /\ s # <<>>
      BY <1>2, <2>2 DEF l
    <3>2. t[1] = s[1]
      BY <1>2, <3>1
    <3> QED BY <1>1, <3>1, <3>2 DEF Unbroken
  <2> QED BY <2>1, <2>2
<1>11. ASSUME NEW x \in t[1].line .. y PROVE x \in d \/ \E k \in 1 .. Len(t) : t[k].line = x
  <2>1. CASE x = y
    BY <1>3, <1>9, <2>1
  <2>2. CASE x # y
    <3>1. l # 0
      <4>1. ASSUME l = 0 PROVE FALSE
        <5>1. l + 1 = 1
          BY <4>1
        <5>2. t[1].line = y
          BY <1>3, <5>1
        <5> QED BY <1>2, <1>11, <2>2, <5>2
      <4> QED BY <4>1
    <3>2. 1 \in 1 .. l /\ s # <<>>
      BY <1>2, <3>1 DEF l
    <3>3. t[1] = s[1] /\ t[1].line \in 1 .. n
      BY <1>2, <1>5, <3>2
    <3>4. x \in s[1].line .. n
      BY <1>1, <1>2, <1>11, <2>2, <3>3
    <3>5. x \in d \/ \E k \in 1 .. l : s[k].line = x
      BY <1>1, <3>2, <3>4 DEF Unbroken, l
    <3> QED BY <1>2, <3>5
  <2> QED BY <2>1, <2>2
<1>12. Unbroken(t, y, d)
  BY <1>3, <1>6, <1>7, <1>8, <1>9, <1>10, <1>11 DEF Unbroken
<1>13. Accounted(t, g, y, d)
  <2> SUFFICES ASSUME NEW i \in 1 .. y
               PROVE  \/ i \in d \/ i - 1 \in d
                      \/ \E j \in 1 .. Len(g) : g[j] = i
                      \/ \E k \in 1 .. Len(t) : t[k].line = i
    BY DEF Accounted
  <2>1. CASE i = y
    BY <1>3, <1>9, <2>1
  <2>2. CASE i # y
    <3>1. i \in 1 .. n
      BY <1>1, <1>2, <2>2
    <3>2. \/ i \in d \/ i - 1 \in d
          \/ \E j \in 1 .. Len(g) : g[j] = i
          \/ \E k \in 1 .. l : s[k].line = i
      BY <1>1, <3>1 DEF Accounted, l
    <3> QED BY <1>2, <3>2
  <2> QED BY <2>1, <2>2
<1>14. Accepted(t, g, y)
  <2> SUFFICES ASSUME NEW j \in 1 .. Len(g)
               PROVE  /\ g[j] \in 1 .. y /\ (j > 1 => g[j - 1] < g[j])
                      /\ \A i \in 1 .. Len(t) : g[j] < t[i].line
    BY DEF Accepted
  <2>1. /\ g[j] \in 1 .. n /\ (j > 1 => g[j - 1] < g[j])
        /\ \A i \in 1 .. l : g[j] < s[i].line
    BY <1>1 DEF Accepted, l
  <2>2. g[j] \in 1 .. y /\ g[j] < y
    BY <1>1, <1>2, <2>1
  <2>3. ASSUME NEW i \in 1 .. Len(t) PROVE g[j] < t[i].line
    BY <1>3, <1>4, <1>5, <2>1, <2>2
  <2> QED BY <2>1, <2>2, <2>3
<1> QED BY <1>1, <1>2, <1>12, <1>13, <1>14 DEF Told, y

(* ... or there is none.                                                   *)
LEMMA LineRefused ==
  ASSUME NEW s, NEW g, NEW n, NEW d, Told(s, g, n, d)
  PROVE  Told(s, g, n + 1, d \union {n + 1})
<1> DEFINE y == n + 1
           e == d \union {y}
<1>1. Told(s, g, n, e)
  <2>1. d \subseteq e
    OBVIOUS
  <2> HIDE DEF e
  <2> QED BY <2>1, MoreLost
<1>2. /\ s \in Seq(Pieces) /\ g \in Seq(Nat) /\ n \in Nat /\ y \in Nat /\ y = n + 1 /\ y \in e
      /\ Unbroken(s, n, e) /\ Accounted(s, g, n, e) /\ Accepted(s, g, n)
  BY <1>1 DEF Told
<1>3. \A i \in Int : i \in 1 .. n => i \in 1 .. y
  BY <1>2
<1>4. \A x, i \in Int : i \in x .. y => i \in x .. n \/ i = y
  BY <1>2
<1> HIDE DEF y, e
<1>5. Unbroken(s, y, e)
  <2>1. \A i \in 1 .. Len(s) : s[i].line \in 1 .. y
    BY <1>2, <1>3 DEF Unbroken
  <2>2. ASSUME s # <<>>, NEW x \in s[1].line .. y
        PROVE  x \in e \/ \E k \in 1 .. Len(s) : s[k].line = x
    <3>1. 1 \in 1 .. Len(s)
      BY <1>2, <2>2
    <3>2. s[1].line \in Nat
      BY <1>2, <3>1, PieceTypes
    <3>3. x \in s[1].line .. n \/ x = y
      BY <1>4, <3>2
    <3> QED BY <1>2, <2>2, <3>3 DEF Unbroken
  <2> QED BY <1>2, <2>1, <2>2 DEF Unbroken
<1>6. Accounted(s, g, y, e)
  <2>1. \A i \in 1 .. y : i \in 1 .. n \/ i = y
    BY <1>2
  <2> QED BY <1>2, <2>1 DEF Accounted
<1>7. Accepted(s, g, y)
  BY <1>2, <1>3 DEF Accepted
<1> QED BY <1>2, <1>5, <1>6, <1>7 DEF Told, y, e

(* Up to the end of a line, what is neither of that line nor lost is not   *)
(* there: nothing but the next piece of its line follows a piece.          *)
LEMMA OneLine ==
  ASSUME NEW s \in Seq(Pieces), NEW n \in Nat, NEW d, Unbroken(s, n, d), NEW m \in 1 .. Len(s),
         \A i \in 1 .. m - 1 : s[i].part # 3, NEW k \in 1 .. m, s[k].line \notin d
  PROVE  s[k].line = s[m].line
<1>1. m \in Nat /\ Len(s) \in Nat /\ k \in 1 .. Len(s)
  OBVIOUS
<1>2. ASSUME NEW i \in 1 .. m - 1, s[i].line \notin d
      PROVE  s[i + 1].line = s[i].line /\ s[i + 1].part = s[i].part + 1
  <2>1. i \in 1 .. Len(s) - 1 /\ s[i].part # 3
    BY <1>1
  <2> QED BY <1>2, <2>1 DEF Unbroken, Follows
<1>3. CASE k = m
  BY <1>3
<1>4. CASE k + 1 = m
  <2>1. k \in 1 .. m - 1
    BY <1>1, <1>4
  <2> QED BY <1>2, <1>4, <2>1
<1>5. CASE k + 1 < m
  <2> DEFINE j == k + 1
  <2>1. k \in 1 .. m - 1 /\ j \in 1 .. m - 1 /\ j \in 1 .. Len(s) /\ j + 1 \in 1 .. m
        /\ j + 1 \in 1 .. Len(s)
    BY <1>1, <1>5
  <2>2. s[j].line = s[k].line /\ s[j].part = s[k].part + 1
    BY <1>2, <2>1
  <2>3. s[j + 1].line = s[j].line /\ s[j + 1].part = s[j].part + 1
    BY <1>2, <2>1, <2>2
  <2>4. s[k].part \in 1 .. 3 /\ s[j + 1].part \in 1 .. 3
    BY <1>1, <2>1, PieceTypes
  <2>5. s[j + 1].part = 3
    BY <2>2, <2>3, <2>4
  <2>6. j + 1 = m
    BY <1>1, <2>1, <2>5
  <2> QED BY <2>2, <2>3, <2>6
<1> QED BY <1>1, <1>3, <1>4, <1>5

(* The pieces of a whole line are three.                                   *)
LEMMA ThreePieces ==
  ASSUME NEW s \in Seq(Pieces), NEW n \in Nat, NEW d, Unbroken(s, n, d), NEW m \in 1 .. Len(s),
         \A i \in 1 .. m - 1 : s[i].part # 3, s[m].part = 3, s[1].part = 1,
         \A i \in 2 .. m : s[i].part # 1
  PROVE  m = 3 /\ s[2].line = s[1].line /\ s[3].line = s[1].line
<1>1. m \in Nat /\ Len(s) \in Nat /\ m # 1 /\ m > 1
  <2>1. m # 1
    OBVIOUS
  <2> QED BY <2>1
<1>2. s[2].line = s[1].line /\ s[2].part = 2
  <2>1. 1 \in 1 .. Len(s) - 1 /\ 1 \in 1 .. m - 1 /\ 2 \in 2 .. m /\ 1 + 1 = 2
    BY <1>1
  <2>2. Follows(s, 1, d)
    BY <2>1 DEF Unbroken
  <2> QED BY <2>1, <2>2 DEF Follows
<1>3. m # 2 /\ m > 2
  <2>1. m # 2
    BY <1>2
  <2> QED BY <1>1, <2>1
<1>4. s[3].line = s[1].line /\ s[3].part = 3
  <2>1. 2 \in 1 .. Len(s) - 1 /\ 2 \in 1 .. m - 1 /\ 3 \in 2 .. m /\ 2 + 1 = 3
    BY <1>1, <1>3
  <2>2. Follows(s, 2, d)
    BY <2>1 DEF Unbroken
  <2> QED BY <1>2, <2>1, <2>2 DEF Follows
<1>5. m = 3
  <2>1. m > 3 => 3 \in 1 .. m - 1
    BY <1>1
  <2> QED BY <1>1, <1>3, <1>4, <2>1
<1> QED BY <1>2, <1>4, <1>5

(* A line that is not accepted is lost, or the one before it is.           *)
LEMMA Broken ==
  ASSUME NEW s \in Seq(Pieces), NEW n \in Nat, NEW d, Unbroken(s, n, d), NEW m \in 1 .. Len(s),
         \A i \in 1 .. m - 1 : s[i].part # 3,
         s[1].part # 1 \/ \E i \in 2 .. m : s[i].part = 1
  PROVE  s[m].line \in d \/ s[m].line - 1 \in d
<1> SUFFICES ASSUME s[m].line \notin d PROVE s[m].line - 1 \in d
  OBVIOUS
<1>1. m \in Nat /\ Len(s) \in Nat /\ 1 \in 1 .. Len(s) /\ s # <<>> /\ 1 \in 1 .. m
  OBVIOUS
<1> DEFINE z == s[m].line
<1>2. z \in Nat /\ z \in 1 .. n
  BY <1>1 DEF Unbroken
<1>3. PICK k \in 1 .. m : s[k].line \in d
  <2>1. CASE s[1].part # 1
    BY <1>1, <2>1 DEF Unbroken
  <2>2. CASE \E i \in 2 .. m : s[i].part = 1
    <3>1. PICK i \in 2 .. m : s[i].part = 1
      BY <2>2
    <3> DEFINE j == i - 1
    <3>2. j \in 1 .. m - 1 /\ j \in 1 .. Len(s) - 1 /\ j + 1 = i /\ j \in 1 .. Len(s) /\ j \in 1 .. m
      BY <1>1
    <3> HIDE DEF j
    <3>3. Follows(s, j, d) /\ s[j].part # 3
      BY <3>2 DEF Unbroken
    <3>4. s[j].part \in 1 .. 3
      BY <3>2, PieceTypes
    <3>5. s[j].line \in d
      BY <3>1, <3>2, <3>3, <3>4 DEF Follows
    <3> QED BY <3>2, <3>5
  <2> QED BY <2>1, <2>2
<1>4. k \in 1 .. Len(s) /\ s[k].line \in Nat /\ k # m /\ k < m /\ s[1].line \in Nat
  <2>1. k \in 1 .. Len(s) /\ k # m /\ k < m
    BY <1>1, <1>3
  <2> QED BY <1>1, <2>1, PieceTypes
<1>5. Rises(s)
  BY DEF Unbroken
<1>6. s[k].line < z
  <2>1. s[k].line <= z
    BY <1>4, <1>5, Earlier
  <2>2. s[k].line # z
    BY <1>3
  <2> QED BY <1>2, <1>4, <2>1, <2>2
<1>7. s[1].line <= s[k].line
  <2>1. CASE k = 1
    BY <1>4, <2>1
  <2>2. CASE k # 1
    <3>1. 1 < k
      BY <1>3, <2>2
    <3> QED BY <1>1, <1>4, <1>5, <3>1, Earlier
  <2> QED BY <2>1, <2>2
<1> HIDE DEF z
<1>8. z - 1 \in s[1].line .. n
  BY <1>2, <1>4, <1>6, <1>7
<1>9. ASSUME NEW j \in 1 .. Len(s), s[j].line = z - 1 PROVE z - 1 \in d
  <2>1. j < m
    <3>1. ASSUME m < j PROVE FALSE
      <4>1. s[m].line <= s[j].line
        BY <1>5, <3>1, Earlier
      <4> QED BY <1>2, <1>9, <4>1 DEF z
    <3>2. j # m
      BY <1>2, <1>9 DEF z
    <3> QED BY <1>1, <3>1, <3>2
  <2>2. j \in 1 .. m
    BY <1>1, <2>1
  <2>3. s[j].line # s[m].line
    BY <1>2, <1>9 DEF z
  <2> QED BY <1>9, <2>2, <2>3, OneLine
<1> QED BY <1>1, <1>8, <1>9 DEF Unbroken, z

(* The host takes a line off the front, or refuses it.                     *)
LEMMA LineRead ==
  ASSUME NEW s, NEW g, NEW n, NEW d, Told(s, g, n, d), NEW m, m > 0, NEW t \in Seq(Pieces),
         Shorter(s, m, t), NEW x \in Seq(Pieces), Opening(s, m, x),
         \A i \in 1 .. m - 1 : s[i].part # 3, s[m].part = 3
  PROVE  L!Parsed(x) \in Seq(Nat) /\ Told(t, g \o L!Parsed(x), n, d)
<1>1. /\ s \in Seq(Pieces) /\ g \in Seq(Nat) /\ n \in Nat
      /\ Unbroken(s, n, d) /\ Accounted(s, g, n, d) /\ Accepted(s, g, n)
  BY DEF Told
<1>2. /\ m \in 1 .. Len(s) /\ Len(t) = Len(s) - m /\ Len(s) \in Nat /\ Len(t) \in Nat
      /\ \A i \in 1 .. Len(t) : t[i] = s[i + m] /\ i + m \in 1 .. Len(s)
      /\ Len(x) = m /\ \A i \in 1 .. m : x[i] = s[i]
  BY <1>1 DEF Shorter, Opening
<1>3. Unbroken(t, n, d)
  <2>1. /\ m \in 0 .. Len(s) /\ Len(t) = Len(s) - m /\ s[m].part = 3
        /\ \A i \in 1 .. Len(t) : t[i] = s[i + m]
    BY <1>2
  <2>2. s \in Seq(Pieces) /\ n \in Nat /\ Unbroken(s, n, d)
    BY <1>1
  <2> QED BY <2>1, <2>2, FrontGone
<1>4. ASSUME NEW k \in 1 .. Len(s)
      PROVE  s[k].line \in d \/ s[k].line = s[m].line \/ \E i \in 1 .. Len(t) : t[i].line = s[k].line
  <2>1. CASE k <= m
    <3>1. k \in 1 .. m /\ m \in 1 .. Len(s) /\ \A i \in 1 .. m - 1 : s[i].part # 3
      BY <1>2, <2>1
    <3>2. ASSUME s[k].line \notin d PROVE s[k].line = s[m].line
      BY <1>1, <3>1, <3>2, OneLine
    <3> QED BY <3>2
  <2>2. CASE k > m
    <3> DEFINE i == k - m
    <3>1. i \in 1 .. Len(t) /\ i + m = k
      BY <1>2, <2>2
    <3> HIDE DEF i
    <3>2. t[i] = s[k]
      BY <1>2, <3>1
    <3> QED BY <3>1, <3>2
  <2> QED BY <1>2, <2>1, <2>2
<1>5. 1 \in 1 .. m /\ x[1] = s[1] /\ (\A k \in 2 .. m : k \in 1 .. m /\ x[k] = s[k])
  BY <1>2
<1>6. CASE x[1].part # 1 \/ \E k \in 2 .. Len(x) : x[k].part = 1
  <2>1. L!Parsed(x) = <<>>
    BY <1>6 DEF L!Parsed
  <2>2. s[m].line \in d \/ s[m].line - 1 \in d
    <3>1. s[1].part # 1 \/ \E i \in 2 .. m : s[i].part = 1
      BY <1>2, <1>5, <1>6
    <3>2. m \in 1 .. Len(s)
      BY <1>2
    <3> QED BY <1>1, <3>1, <3>2, Broken
  <2>3. g \o <<>> = g
    BY <1>1
  <2>4. Accounted(t, g, n, d)
    <3> SUFFICES ASSUME NEW i \in 1 .. n
                 PROVE  \/ i \in d \/ i - 1 \in d
                        \/ \E j \in 1 .. Len(g) : g[j] = i
                        \/ \E k \in 1 .. Len(t) : t[k].line = i
      BY DEF Accounted
    <3>1. \/ i \in d \/ i - 1 \in d
          \/ \E j \in 1 .. Len(g) : g[j] = i
          \/ \E k \in 1 .. Len(s) : s[k].line = i
      BY <1>1 DEF Accounted
    <3>2. ASSUME NEW k \in 1 .. Len(s), s[k].line = i
          PROVE  i \in d \/ i - 1 \in d \/ \E j \in 1 .. Len(t) : t[j].line = i
      BY <1>4, <2>2, <3>2
    <3> QED BY <3>1, <3>2
  <2>5. Accepted(t, g, n)
    BY <1>1, <1>2 DEF Accepted
  <2> QED BY <1>1, <1>3, <2>1, <2>3, <2>4, <2>5 DEF Told
<1>7. CASE x[1].part = 1 /\ \A k \in 2 .. Len(x) : x[k].part # 1
  <2> DEFINE z == s[1].line
  <2>1. m = 3 /\ s[2].line = z /\ s[3].line = z
    <3>1. s[1].part = 1 /\ \A k \in 2 .. m : s[k].part # 1
      BY <1>2, <1>5, <1>7
    <3> QED BY <1>1, <1>2, <3>1, ThreePieces
  <2>2. z \in Nat /\ z \in 1 .. n /\ z = s[m].line
    <3>1. 1 \in 1 .. Len(s)
      BY <1>2
    <3>2. z \in Nat
      BY <1>1, <3>1, PieceTypes
    <3> QED BY <1>1, <2>1, <3>1, <3>2 DEF Unbroken
  <2>3. L!LinesOf(x) = {z}
    <3>1. DOMAIN x = 1 .. 3
      BY <1>2, <2>1
    <3>2. x[1].line = z /\ x[2].line = z /\ x[3].line = z
      BY <1>2, <2>1
    <3>3. \A p \in L!LinesOf(x) : p = z
      BY <3>1, <3>2 DEF L!LinesOf
    <3>4. z \in L!LinesOf(x)
      BY <3>1, <3>2 DEF L!LinesOf
    <3> QED BY <3>3, <3>4
  <2>4. L!Parsed(x) = <<z>>
    BY <1>2, <1>5, <1>7, <2>1, <2>3 DEF L!Parsed
  <2> DEFINE h == g \o <<z>>
  <2> HIDE DEF z
  <2>5. /\ h \in Seq(Nat) /\ Len(h) = Len(g) + 1 /\ Len(g) \in Nat
        /\ \A j \in 1 .. Len(g) : h[j] = g[j] /\ j \in 1 .. Len(h)
        /\ h[Len(g) + 1] = z
    BY <1>1, <2>2
  <2> HIDE DEF h
  <2>6. Accounted(t, h, n, d)
    <3> SUFFICES ASSUME NEW i \in 1 .. n
                 PROVE  \/ i \in d \/ i - 1 \in d
                        \/ \E j \in 1 .. Len(h) : h[j] = i
                        \/ \E k \in 1 .. Len(t) : t[k].line = i
      BY DEF Accounted
    <3>1. CASE i = z
      <4>1. Len(g) + 1 \in 1 .. Len(h)
        BY <2>5
      <4> QED BY <2>5, <3>1, <4>1
    <3>2. CASE i # z
      <4>1. \/ i \in d \/ i - 1 \in d
            \/ \E j \in 1 .. Len(g) : g[j] = i
            \/ \E k \in 1 .. Len(s) : s[k].line = i
        BY <1>1 DEF Accounted
      <4>2. ASSUME NEW k \in 1 .. Len(s), s[k].line = i
            PROVE  i \in d \/ \E j \in 1 .. Len(t) : t[j].line = i
        BY <1>4, <2>2, <3>2, <4>2
      <4> QED BY <2>5, <4>1, <4>2
    <3> QED BY <3>1, <3>2
  <2>7. \A i \in 1 .. Len(t) : z < t[i].line
    <3> SUFFICES ASSUME NEW i \in 1 .. Len(t) PROVE z < t[i].line
      OBVIOUS
    <3> DEFINE j == i + m
    <3>1. j \in 1 .. Len(s) /\ t[i] = s[j] /\ m < j
      BY <1>2
    <3> HIDE DEF j
    <3>2. s[m].line < s[j].line \/ (s[m].line = s[j].line /\ s[m].part < s[j].part)
      <4>1. s \in Seq(Pieces) /\ Rises(s) /\ m \in 1 .. Len(s)
        BY <1>1, <1>2 DEF Unbroken
      <4> QED BY <3>1, <4>1, Earlier
    <3>3. s[j].part \in 1 .. 3
      BY <1>1, <3>1, PieceTypes
    <3> QED BY <2>2, <3>1, <3>2, <3>3
  <2>8. Accepted(t, h, n)
    <3> SUFFICES ASSUME NEW j \in 1 .. Len(h)
                 PROVE  /\ h[j] \in 1 .. n /\ (j > 1 => h[j - 1] < h[j])
                        /\ \A i \in 1 .. Len(t) : h[j] < t[i].line
      BY DEF Accepted
    <3>1. CASE j \in 1 .. Len(g)
      <4>1. h[j] = g[j] /\ (j > 1 => j - 1 \in 1 .. Len(g) /\ h[j - 1] = g[j - 1])
        BY <2>5, <3>1
      <4>2. g[j] \in 1 .. n /\ (j > 1 => g[j - 1] < g[j]) /\ \A i \in 1 .. Len(s) : g[j] < s[i].line
        BY <1>1, <3>1 DEF Accepted
      <4> QED BY <1>2, <4>1, <4>2
    <3>2. CASE j = Len(g) + 1
      <4>1. h[j] = z
        BY <2>5, <3>2
      <4>2. ASSUME j > 1 PROVE h[j - 1] < z
        <5>1. j - 1 = Len(g) /\ Len(g) \in 1 .. Len(g)
          BY <2>5, <3>2, <4>2
        <5>2. h[Len(g)] = g[Len(g)]
          BY <2>5, <5>1
        <5>3. m \in 1 .. Len(s) /\ g[Len(g)] < s[m].line
          BY <1>1, <1>2, <5>1 DEF Accepted
        <5> QED BY <2>2, <5>1, <5>2, <5>3
      <4> QED BY <2>2, <2>7, <4>1, <4>2
    <3> QED BY <2>5, <3>1, <3>2
  <2> QED BY <1>1, <1>3, <2>2, <2>4, <2>5, <2>6, <2>8 DEF Told, h
<1> QED BY <1>6, <1>7

(* A packet's pieces before those of the FIFO.                             *)
LEMMA PacketSpan ==
  ASSUME NEW b \in Seq(Pieces), NEW f \in Seq(Pieces), NEW k \in 0 .. Len(b)
  PROVE  LET r == SubSeq(b, k + 1, Len(b)) \o f
         IN  /\ r \in Seq(Pieces) /\ Len(r) = Len(b) - k + Len(f)
             /\ \A i \in 1 .. Len(r) :
                  r[i] = IF i <= Len(b) - k THEN b[i + k] ELSE f[i - (Len(b) - k)]
<1> DEFINE q == SubSeq(b, k + 1, Len(b))
           r == q \o f
           P == Pieces
<1>0. b \in Seq(P) /\ f \in Seq(P)
  OBVIOUS
<1> HIDE DEF P
<1>1. q \in Seq(P) /\ Len(q) = Len(b) - k /\ \A i \in 1 .. Len(q) : q[i] = b[i + k]
  <2>1. \A i \in k + 1 .. Len(b) : b[i] \in P
    BY <1>0
  <2>2. /\ q \in Seq(P)
        /\ Len(q) = IF k + 1 <= Len(b) THEN Len(b) - (k + 1) + 1 ELSE 0
        /\ \A i \in 1 .. Len(b) - (k + 1) + 1 : q[i] = b[(k + 1) + i - 1]
    <3>1. k + 1 \in Int /\ Len(b) \in Int
      BY <1>0
    <3> QED BY <1>0, <2>1, <3>1, SubSeqProperties
  <2>3. \A i \in 1 .. Len(b) - k : (k + 1) + i - 1 = i + k /\ i \in 1 .. Len(b) - (k + 1) + 1
    BY <1>0
  <2>4. Len(q) = Len(b) - k
    BY <1>0, <2>2
  <2> QED BY <2>2, <2>3, <2>4
<1> HIDE DEF q
<1>2. r \in Seq(P) /\ Len(r) = Len(q) + Len(f)
      /\ \A i \in 1 .. Len(r) : r[i] = IF i <= Len(q) THEN q[i] ELSE f[i - Len(q)]
  BY <1>0, <1>1
<1>3. \A i \in 1 .. Len(r) : i <= Len(q) => i \in 1 .. Len(q)
  BY <1>0, <1>1, <1>2
<1> QED BY <1>1, <1>2, <1>3 DEF P, q

LEMMA PiecesJoined ==
  ASSUME NEW a \in Seq(Pieces), NEW b \in Seq(Pieces)
  PROVE  /\ a \o b \in Seq(Pieces) /\ Len(a \o b) = Len(a) + Len(b)
         /\ \A i \in 1 .. Len(a) : (a \o b)[i] = a[i]
         /\ \A i \in 1 .. Len(b) : (a \o b)[Len(a) + i] = b[i]
<1> DEFINE c == a \o b
           l == Len(a)
<1>1. /\ c \in Seq(Pieces) /\ Len(c) = l + Len(b) /\ l \in Nat /\ Len(b) \in Nat
      /\ \A i \in 1 .. l + Len(b) : c[i] = IF i <= l THEN a[i] ELSE b[i - l]
  BY ConcatProperties, LenProperties
<1> HIDE DEF c, l
<1>2. \A i \in 1 .. l : i \in 1 .. l + Len(b) /\ i <= l
  BY <1>1
<1>3. ASSUME NEW i \in 1 .. Len(b) PROVE c[l + i] = b[i]
  <2> DEFINE j == l + i
  <2>1. j \in 1 .. l + Len(b) /\ ~(j <= l) /\ j - l = i
    BY <1>1
  <2> HIDE DEF j
  <2> QED BY <1>1, <2>1 DEF j
<1> QED BY <1>1, <1>2, <1>3 DEF c, l

LEMMA PiecesRegrouped ==
  ASSUME NEW a \in Seq(Pieces), NEW b \in Seq(Pieces), NEW c \in Seq(Pieces)
  PROVE  a \o (b \o c) = (a \o b) \o c
<1> DEFINE P == Pieces
<1>1. a \in Seq(P) /\ b \in Seq(P) /\ c \in Seq(P)
  OBVIOUS
<1> HIDE DEF P
<1>2. (a \o b) \o c = a \o (b \o c)
  BY <1>1, ConcatAssociative
<1> QED BY <1>2

LEMMA SameSequence ==
  ASSUME NEW s \in Seq(Pieces), NEW t \in Seq(Pieces), Len(s) = Len(t),
         \A i \in 1 .. Len(s) : s[i] = t[i]
  PROVE  s = t
BY SeqEqual

(* What is on its way when the host has read k pieces of a packet.         *)
Ahead(h, b, k, f) == h.line \o (SubSeq(b, k + 1, Len(b)) \o f)
Heard(h, b, k, f, n, d) ==
  /\ h.line \in Seq(Pieces) /\ h.got \in Seq(Nat) /\ NoEnd(h.line)
  /\ Told(Ahead(h, b, k, f), h.got, n, d)

LEMMA ReadPiece ==
  ASSUME NEW b \in Seq(Pieces), NEW f \in Seq(Pieces), NEW k \in 0 .. Len(b), k # Len(b),
         NEW h, NEW n, NEW d, Heard(h, b, k, f, n, d)
  PROVE  Heard(L!Read(h, b[k + 1]), b, k + 1, f, n, d)
<1> DEFINE p == b[k + 1]
           l == Len(h.line)
           m == l + 1
           x == Append(h.line, p)
           r == SubSeq(b, k + 1, Len(b)) \o f
           t == SubSeq(b, (k + 1) + 1, Len(b)) \o f
           s == h.line \o r
           g == h.got
<1>1. /\ h.line \in Seq(Pieces) /\ l \in Nat /\ g \in Seq(Nat) /\ NoEnd(h.line)
      /\ Told(s, g, n, d)
  BY DEF Heard, Ahead
<1>2. k \in Nat /\ Len(b) \in Nat /\ Len(f) \in Nat /\ k + 1 \in 0 .. Len(b) /\ k + 1 \in 1 .. Len(b)
      /\ p \in Pieces
  OBVIOUS
<1>3. /\ r \in Seq(Pieces) /\ Len(r) = Len(b) - k + Len(f)
      /\ \A i \in 1 .. Len(r) :
           r[i] = IF i <= Len(b) - k THEN b[i + k] ELSE f[i - (Len(b) - k)]
  BY PacketSpan
<1>4. /\ t \in Seq(Pieces) /\ Len(t) = Len(b) - (k + 1) + Len(f)
      /\ \A i \in 1 .. Len(t) :
           t[i] = IF i <= Len(b) - (k + 1) THEN b[i + (k + 1)] ELSE f[i - (Len(b) - (k + 1))]
  BY <1>2, PacketSpan
<1>5. L!Read(h, p) = IF p.part = 3 THEN [line |-> <<>>, got |-> g \o L!Parsed(x)]
                                   ELSE [line |-> x, got |-> g]
  BY DEF L!Read
<1> HIDE DEF r, t
<1>6. Len(r) = Len(t) + 1 /\ r[1] = p /\ Len(t) \in Nat
      /\ \A i \in 1 .. Len(t) : r[i + 1] = t[i]
  <2>1. Len(r) = Len(t) + 1 /\ Len(t) \in Nat
    BY <1>2, <1>3, <1>4
  <2>2. r[1] = p
    <3>1. 1 \in 1 .. Len(r) /\ 1 <= Len(b) - k /\ 1 + k = k + 1
      BY <1>2, <2>1
    <3> QED BY <1>3, <3>1
  <2>3. ASSUME NEW i \in 1 .. Len(t) PROVE r[i + 1] = t[i]
    <3> DEFINE j == i + 1
    <3>1. j \in 1 .. Len(r) /\ (j <= Len(b) - k <=> i <= Len(b) - (k + 1)) /\ j + k = i + (k + 1)
          /\ j - (Len(b) - k) = i - (Len(b) - (k + 1))
      BY <1>2, <2>1
    <3> HIDE DEF j
    <3> QED BY <1>3, <1>4, <3>1 DEF j
  <2> QED BY <2>1, <2>2, <2>3
<1> HIDE DEF p
<1>7. /\ s \in Seq(Pieces) /\ Len(s) = l + Len(r)
      /\ \A i \in 1 .. l : s[i] = h.line[i]
      /\ \A i \in 1 .. Len(r) : s[l + i] = r[i]
  BY <1>1, <1>3, PiecesJoined
<1>8. /\ x \in Seq(Pieces) /\ Len(x) = m /\ x[m] = p /\ m \in Nat
      /\ \A i \in 1 .. l : x[i] = h.line[i]
  BY <1>1, <1>2
<1> HIDE DEF s, x, l, g
<1>9. Len(s) = m + Len(t) /\ s[m] = p /\ m \in 1 .. Len(s)
      /\ (\A i \in 1 .. Len(t) : s[m + i] = t[i] /\ m + i \in 1 .. Len(s))
      /\ (\A i \in 1 .. m : i \in 1 .. l \/ i = m)
  <2>1. Len(s) = m + Len(t) /\ m \in 1 .. Len(s) /\ 1 \in 1 .. Len(r)
        /\ (\A i \in 1 .. m : i \in 1 .. l \/ i = m)
        /\ (\A i \in 1 .. Len(t) : m + i \in 1 .. Len(s))
    BY <1>1, <1>6, <1>7
  <2>2. s[m] = p
    BY <1>6, <1>7, <2>1
  <2>3. ASSUME NEW i \in 1 .. Len(t) PROVE s[m + i] = t[i]
    <3>1. i + 1 \in 1 .. Len(r) /\ l + (i + 1) = m + i
      BY <1>1, <1>6
    <3>2. s[l + (i + 1)] = r[i + 1]
      BY <1>7, <3>1
    <3> QED BY <1>6, <3>1, <3>2
  <2> QED BY <2>1, <2>2, <2>3
<1>10. \A i \in 1 .. m : s[i] = x[i]
  BY <1>7, <1>8, <1>9
<1>11. \A i \in 1 .. l : s[i].part # 3
  BY <1>1, <1>7 DEF NoEnd, l
<1>12. CASE p.part # 3
  <2> HIDE DEF m
  <2> DEFINE y == x \o t
  <2>1. y \in Seq(Pieces) /\ Len(y) = m + Len(t) /\ (\A i \in 1 .. m : y[i] = x[i])
        /\ \A i \in 1 .. Len(t) : y[m + i] = t[i]
    <3>1. x \in Seq(Pieces) /\ t \in Seq(Pieces)
      BY <1>4, <1>8
    <3>2. /\ y \in Seq(Pieces) /\ Len(y) = Len(x) + Len(t)
          /\ (\A i \in 1 .. Len(x) : y[i] = x[i]) /\ \A i \in 1 .. Len(t) : y[Len(x) + i] = t[i]
      BY <3>1, PiecesJoined
    <3> HIDE DEF y
    <3> QED BY <1>8, <3>2
  <2> HIDE DEF y
  <2>2. ASSUME NEW i \in 1 .. Len(y) PROVE y[i] = s[i]
    <3>1. CASE i \in 1 .. m
      BY <1>10, <2>1, <3>1
    <3>2. CASE i \notin 1 .. m
      <4> DEFINE j == i - m
      <4>1. j \in 1 .. Len(t) /\ i = m + j
        BY <1>6, <1>8, <2>1, <3>2
      <4> HIDE DEF j
      <4> QED BY <1>9, <2>1, <4>1
    <3> QED BY <3>1, <3>2
  <2>3. y = s
    BY <1>7, <1>9, <2>1, <2>2, SameSequence
  <2>4. NoEnd(x)
    <3>1. \A i \in 1 .. m : x[i].part # 3
      BY <1>8, <1>9, <1>10, <1>11, <1>12
    <3> QED BY <1>8, <3>1 DEF NoEnd
  <2>5. L!Read(h, p) = [line |-> x, got |-> g]
    BY <1>5, <1>12
  <2> DEFINE u == L!Read(h, p)
  <2>6. u.line = x /\ u.got = g
    BY <2>5
  <2> HIDE DEF u
  <2>7. Ahead(u, b, k + 1, f) = s
    BY <2>3, <2>6 DEF Ahead, t, y
  <2>8. Heard(u, b, k + 1, f, n, d)
    BY <1>1, <1>8, <2>4, <2>6, <2>7 DEF Heard
  <2> QED BY <2>8 DEF u, p
<1>13. CASE p.part = 3
  <2>1. Shorter(s, m, t)
    <3>1. m \in 0 .. Len(s) /\ Len(t) = Len(s) - m
      BY <1>6, <1>8, <1>9
    <3>2. \A i \in 1 .. Len(t) : i + m = m + i
      BY <1>6, <1>8
    <3> QED BY <1>9, <3>1, <3>2 DEF Shorter
  <2>2. Opening(s, m, x)
    <3>1. m \in 0 .. Len(s)
      BY <1>9
    <3> QED BY <1>8, <1>10, <3>1 DEF Opening
  <2>3. m - 1 = l /\ m > 0
    BY <1>1
  <2>4. (\A i \in 1 .. m - 1 : s[i].part # 3) /\ s[m].part = 3
    BY <1>9, <1>11, <1>13, <2>3
  <2> HIDE DEF m
  <2>5. L!Parsed(x) \in Seq(Nat) /\ Told(t, g \o L!Parsed(x), n, d)
    BY <1>1, <1>4, <1>8, <2>1, <2>2, <2>3, <2>4, LineRead
  <2> DEFINE y == L!Parsed(x)
             N == Nat
  <2>6. L!Read(h, p) = [line |-> <<>>, got |-> g \o y]
    BY <1>5, <1>13
  <2>7. g \in Seq(N) /\ y \in Seq(N) /\ Told(t, g \o y, n, d)
    BY <1>1, <2>5
  <2> HIDE DEF y, N
  <2>8. g \o y \in Seq(N)
    BY <2>7
  <2>9. <<>> \o t = t /\ <<>> \in Seq(Pieces) /\ NoEnd(<<>>)
    BY <1>4 DEF NoEnd
  <2> QED BY <2>6, <2>7, <2>8, <2>9 DEF Heard, Ahead, p, t, N
<1> QED BY <1>12, <1>13 DEF p

(* Every nonempty set of naturals has a least element. *)
LEMMA LeastElement ==
  ASSUME NEW Some \in SUBSET Nat, Some # {}
  PROVE  \E m \in Some : \A e \in Some : m <= e
<1> DEFINE Below == OpToRel(<, Nat)
<1>1. \A a, b \in Nat : a < b => <<a, b>> \in Below
  BY DEF OpToRel
<1>2. IsWellFoundedOn(Below, Nat)
  BY NatLessThanWellFounded
<1> HIDE DEF Below
<1>3. PICK m \in Some : \A e \in Some : <<e, m>> \notin Below
  BY <1>2, WFMin
<1>4. ASSUME NEW e \in Some, e < m PROVE FALSE
  <2>1. <<e, m>> \in Below
    BY <1>1, <1>4
  <2> QED BY <1>3, <2>1
<1>5. ASSUME NEW e \in Some PROVE m <= e
  BY <1>4
<1> QED BY <1>5

(* The first n readings of a packet's pieces.                              *)
Readings(r, h, b, n) ==
  r = [k \in 0 .. n |-> IF k = 0 THEN h ELSE L!Read(r[k - 1], b[k])]

LEMMA ReadingsExist ==
  ASSUME NEW h, NEW b, NEW n \in Nat
  PROVE  \E r : Readings(r, h, b, n)
<1> DEFINE NotHeard == {k \in Nat : ~\E r : Readings(r, h, b, k)}
<1> SUFFICES ASSUME NotHeard # {} PROVE FALSE
  OBVIOUS
<1>1. PICK m \in NotHeard : \A e \in NotHeard : m <= e
  <2>1. NotHeard \in SUBSET Nat
    OBVIOUS
  <2> HIDE DEF NotHeard
  <2> QED BY <2>1, LeastElement
<1>2. m \in Nat /\ ~\E r : Readings(r, h, b, m)
  BY <1>1
<1>3. m # 0
  <2>1. ASSUME m = 0 PROVE FALSE
    <3> DEFINE r == [k \in 0 .. 0 |-> h]
    <3>1. r = [k \in 0 .. 0 |-> IF k = 0 THEN h ELSE L!Read(r[k - 1], b[k])]
      OBVIOUS
    <3> HIDE DEF r
    <3>2. Readings(r, h, b, 0)
      BY <3>1 DEF Readings
    <3> QED BY <1>2, <2>1, <3>2
  <2> QED BY <2>1
<1> DEFINE l == m - 1
<1>4. l \in Nat /\ l < m
  BY <1>2, <1>3
<1>5. l \notin NotHeard
  <2> HIDE DEF NotHeard
  <2> QED BY <1>1, <1>2, <1>4
<1>6. PICK q : Readings(q, h, b, l)
  BY <1>4, <1>5
<1> DEFINE Next1 == L!Read(q[l], b[m])
           r == [k \in 0 .. m |-> IF k = m THEN Next1 ELSE q[k]]
<1>7. \A k \in 0 .. l : q[k] = IF k = 0 THEN h ELSE L!Read(q[k - 1], b[k])
  <2>1. q = [k \in 0 .. l |-> IF k = 0 THEN h ELSE L!Read(q[k - 1], b[k])]
    BY <1>6 DEF Readings
  <2> QED BY <2>1
<1>8. \A k \in 0 .. m : r[k] = IF k = 0 THEN h ELSE L!Read(r[k - 1], b[k])
  <2> SUFFICES ASSUME NEW k \in 0 .. m
               PROVE  r[k] = IF k = 0 THEN h ELSE L!Read(r[k - 1], b[k])
    OBVIOUS
  <2> HIDE DEF Next1
  <2>1. CASE k = m
    <3>1. r[m] = Next1 /\ l \in 0 .. m /\ l # m
      BY <1>2, <1>4
    <3>2. r[l] = q[l]
      BY <3>1
    <3> HIDE DEF r
    <3> QED BY <1>3, <2>1, <3>1, <3>2 DEF Next1
  <2>2. CASE k # m /\ k # 0
    <3>1. k \in 0 .. l /\ k - 1 \in 0 .. m /\ k - 1 # m
      BY <1>2, <2>2
    <3>2. r[k] = q[k] /\ r[k - 1] = q[k - 1]
      BY <2>2, <3>1
    <3> HIDE DEF r
    <3> QED BY <1>7, <2>2, <3>1, <3>2
  <2>3. CASE k = 0
    <3>1. 0 \in 0 .. l /\ 0 # m
      BY <1>3, <1>4
    <3>2. r[0] = q[0]
      BY <2>3, <3>1
    <3> HIDE DEF r
    <3> QED BY <1>7, <2>3, <3>1, <3>2
  <2> QED BY <2>1, <2>2, <2>3
<1>9. r = [k \in 0 .. m |-> r[k]]
  OBVIOUS
<1> HIDE DEF r
<1>10. Readings(r, h, b, m)
  BY <1>8, <1>9 DEF Readings
<1> QED BY <1>2, <1>10

(* All of a packet.                                                        *)
LEMMA PacketRead ==
  ASSUME NEW b \in Seq(Pieces), NEW f \in Seq(Pieces), NEW h, NEW n, NEW d,
         Heard(h, b, 0, f, n, d)
  PROVE  Heard(L!ReadAll(h, b), b, Len(b), f, n, d)
<1> DEFINE r == CHOOSE q : Readings(q, h, b, Len(b))
<1>1. Len(b) \in Nat
  OBVIOUS
<1>2. Readings(r, h, b, Len(b))
  BY <1>1, ReadingsExist
<1>3. L!ReadAll(h, b) = r[Len(b)]
  BY DEF L!ReadAll, Readings
<1> HIDE DEF r
<1>4. \A k \in 0 .. Len(b) : r[k] = IF k = 0 THEN h ELSE L!Read(r[k - 1], b[k])
  <2>1. r = [k \in 0 .. Len(b) |-> IF k = 0 THEN h ELSE L!Read(r[k - 1], b[k])]
    BY <1>2 DEF Readings
  <2> QED BY <2>1
<1> DEFINE NotHeard == {k \in 0 .. Len(b) : ~Heard(r[k], b, k, f, n, d)}
<1>5. ASSUME NotHeard # {} PROVE FALSE
  <2>1. PICK m \in NotHeard : \A e \in NotHeard : m <= e
    <3>1. NotHeard \in SUBSET Nat
      OBVIOUS
    <3> HIDE DEF NotHeard
    <3> QED BY <1>5, <3>1, LeastElement
  <2>2. m \in 0 .. Len(b) /\ ~Heard(r[m], b, m, f, n, d)
    BY <2>1
  <2>3. m # 0
    <3>1. 0 \in 0 .. Len(b)
      BY <1>1
    <3>2. r[0] = h
      BY <1>4, <3>1
    <3> QED BY <2>2, <3>2
  <2> DEFINE l == m - 1
  <2>4. l \in 0 .. Len(b) /\ l # Len(b) /\ l < m /\ l + 1 = m
    BY <1>1, <2>2, <2>3
  <2>5. l \notin NotHeard
    <3> HIDE DEF NotHeard
    <3> QED BY <1>1, <2>1, <2>2, <2>4
  <2>6. Heard(r[l], b, l, f, n, d)
    BY <2>4, <2>5
  <2>7. r[m] = L!Read(r[l], b[m])
    BY <1>4, <2>2, <2>3
  <2> HIDE DEF l
  <2>8. Heard(L!Read(r[l], b[l + 1]), b, l + 1, f, n, d)
    BY <2>4, <2>6, ReadPiece
  <2> QED BY <2>2, <2>4, <2>7, <2>8
<1>6. Heard(r[Len(b)], b, Len(b), f, n, d)
  <2>1. Len(b) \in 0 .. Len(b)
    BY <1>1
  <2> QED BY <1>5, <2>1
<1> QED BY <1>3, <1>6

(* The thread stores what undoes a reset: the packet will not be sent.     *)
Doomed == usb_pc = "store" /\ stat # seen

(* The packet the host has not read, and all that is on its way.           *)
Pend ==
  IF L!Sending /\ ~Doomed /\ ~(state = "CONFIGURED" /\ dtog # host.toggle) THEN buf ELSE <<>>
Flow == host.line \o (Pend \o fifo)

(* The host reads lines to their end, and from an open port only; but for  *)
(* the packet it has read and not acknowledged the toggles agree, and      *)
(* nothing is filled into a packet in flight.                              *)
Pipe ==
  /\ host \in [toggle : 0 .. 1, line : Seq(Pieces), halted : BOOLEAN] /\ dtog \in 0 .. 1
  /\ buf \in Seq(Pieces) /\ fifo \in Seq(Pieces)
  /\ stat \in {L!DISABLED, L!STALL, L!NAK, L!VALID}
  /\ NoEnd(host.line)
  /\ ~dtr => host.line = <<>>
  /\ state # "CONFIGURED" => host.line = <<>> /\ dtog = 0
  /\ state = "CONFIGURED" /\ stat # L!VALID => dtog = host.toggle
  /\ usb_pc \in {"fill", "load", "store"} => stat # L!VALID
  /\ Doomed => stat = L!DISABLED /\ seen = L!NAK /\ state # "CONFIGURED"
  /\ state = "CONFIGURED" /\ ~host.halted => stat \in {L!NAK, L!VALID}

LinkInv == Pipe /\ Told(Flow, got, made, gone)

(* STAT_TX's values differ, and the store turns what was loaded to VALID.  *)
LEMMA StatValues ==
  /\ L!DISABLED # L!VALID /\ L!STALL # L!VALID /\ L!NAK # L!VALID /\ L!DISABLED # L!NAK
  /\ L!STALL # L!NAK /\ L!STALL # L!DISABLED
  /\ \A x \in {L!DISABLED, L!STALL, L!NAK, L!VALID} : L!Xor(x, L!Xor(x, L!VALID)) = L!VALID
  /\ L!Xor(L!DISABLED, L!Xor(L!NAK, L!VALID)) = L!STALL
<1>1. /\ {} # {0, 1} /\ {0} # {0, 1} /\ {1} # {0, 1} /\ {} # {1} /\ {0} # {1} /\ {0} # {}
  <2>1. /\ 1 \in {0, 1} /\ 0 \in {0, 1} /\ 1 \notin {0} /\ 0 \notin {1} /\ 1 \in {1}
        /\ 0 \in {0} /\ 1 \notin {} /\ 0 \notin {}
    OBVIOUS
  <2> QED BY <2>1
<1>2. \A x \in {{}, {0}, {1}, {0, 1}} : L!Xor(x, L!Xor(x, {0, 1})) = {0, 1}
  BY DEF L!Xor
<1>3. L!Xor({}, L!Xor({1}, {0, 1})) = {0}
  <2>1. 0 # 1
    OBVIOUS
  <2> QED BY <2>1 DEF L!Xor
<1> QED BY <1>1, <1>2, <1>3 DEF L!DISABLED, L!STALL, L!NAK, L!VALID

LEMMA PendType == Pipe => Pend \in Seq(Pieces) /\ (Pend = <<>> \/ Pend = L!InBuf)
BY DEF Pipe, Pend, L!InBuf

(* What comes first goes, known to be lost ...                             *)
LEMMA FirstGone ==
  ASSUME NEW a \in Seq(Pieces), NEW q \in Seq(Pieces), NEW g, NEW n, NEW d, Told(a \o q, g, n, d),
         NEW e, d \subseteq e, L!LinesOf(a) \subseteq e
  PROVE  Told(q, g, n, e)
<1> DEFINE s == a \o q
           m == Len(a)
<1>1. /\ s \in Seq(Pieces) /\ Len(s) = m + Len(q)
      /\ (\A i \in 1 .. m : s[i] = a[i]) /\ \A i \in 1 .. Len(q) : s[m + i] = q[i]
  BY PiecesJoined
<1>2. m \in Nat /\ Len(q) \in Nat
  OBVIOUS
<1> HIDE DEF s
<1>3. \A i \in 1 .. m : s[i].line \in e
  <2>1. \A i \in 1 .. m : a[i].line \in L!LinesOf(a)
    BY DEF L!LinesOf
  <2> QED BY <1>1, <2>1
<1> HIDE DEF m
<1>4. Shorter(s, m, q)
  <2>1. m \in 0 .. Len(s) /\ Len(q) = Len(s) - m
    BY <1>1, <1>2
  <2>2. \A i \in 1 .. Len(q) : i + m = m + i
    BY <1>2
  <2> QED BY <1>1, <2>1, <2>2 DEF Shorter
<1>5. Told(s, g, n, d)
  BY DEF s
<1> QED BY <1>3, <1>4, <1>5, FrontLost

(* ... or what comes last.                                                 *)
LEMMA LastGone ==
  ASSUME NEW a \in Seq(Pieces), NEW q \in Seq(Pieces), NEW g, NEW n, NEW d, Told(a \o q, g, n, d),
         NEW e, d \subseteq e, L!LinesOf(q) \subseteq e
  PROVE  Told(a, g, n, e)
<1> DEFINE s == a \o q
           m == Len(a)
<1>1. /\ s \in Seq(Pieces) /\ Len(s) = m + Len(q)
      /\ (\A i \in 1 .. m : s[i] = a[i]) /\ \A i \in 1 .. Len(q) : s[m + i] = q[i]
  BY PiecesJoined
<1>2. m \in Nat /\ Len(q) \in Nat /\ Len(a) = m
  OBVIOUS
<1> HIDE DEF s
<1>3. \A i \in 1 .. Len(q) : q[i].line \in e
  BY DEF L!LinesOf
<1> HIDE DEF m
<1>4. ASSUME NEW i \in m + 1 .. Len(s) PROVE s[i].line \in e
  <2> DEFINE j == i - m
  <2>1. j \in 1 .. Len(q) /\ i = m + j
    BY <1>1, <1>2
  <2> HIDE DEF j
  <2>2. s[i] = q[j]
    BY <1>1, <2>1
  <2> QED BY <1>3, <2>1, <2>2
<1>5. Opening(s, m, a)
  <2>1. m \in 0 .. Len(s)
    BY <1>1, <1>2
  <2> QED BY <1>1, <1>2, <2>1 DEF Opening
<1>6. Told(s, g, n, d)
  BY DEF s
<1> QED BY <1>4, <1>5, <1>6, BackLost

(* The thread's steps.                                                     *)
LEMMA StepReport == LinkInv /\ L!Report => LinkInv'
<1> SUFFICES ASSUME LinkInv, L!Report PROVE LinkInv'
  OBVIOUS
<1> USE DEF LinkInv
<1>1. /\ UNCHANGED <<state, dtr, stat, dtog, buf, usb_pc, seen, host, got>>
      /\ made' = made + 1 /\ made \in Nat /\ Pend \in Seq(Pieces) /\ fifo \in Seq(Pieces)
      /\ host.line \in Seq(Pieces)
  BY PendType DEF L!Report, Told, Pipe
<1>2. Doomed' = Doomed /\ L!Sending' = L!Sending
  BY <1>1 DEF Doomed, L!Sending
<1>3. Pend' = Pend
  BY <1>1, <1>2 DEF Pend
<1>4. CASE Len(fifo) + 3 <= Room
  <2> DEFINE three == [k \in 1 .. 3 |-> L!Piece(made + 1, k)]
             s == Flow
             t == Flow \o three
  <2>1. fifo' = fifo \o three /\ gone' = gone
    BY <1>4 DEF L!Report
  <2>2. three \in Seq(Pieces) /\ Len(three) = 3
        /\ \A k \in 1 .. 3 : three[k].line = made + 1 /\ three[k].part = k
    <3>1. \A k \in 1 .. 3 : L!Piece(made + 1, k) \in Pieces
      BY <1>1 DEF L!Piece, Pieces
    <3>2. three \in [1 .. 3 -> Pieces]
      BY <3>1
    <3>3. three \in Seq(Pieces)
      BY <3>2
    <3>4. Len(three) = 3
      BY <3>2, <3>3, LenProperties
    <3> QED BY <3>3, <3>4 DEF L!Piece
  <2> HIDE DEF three
  <2>3. fifo' \in Seq(Pieces)
    BY <1>1, <2>1, <2>2, PiecesJoined
  <2>4. s \in Seq(Pieces) /\ Told(s, got, made, gone)
    BY DEF Told
  <2>5. Flow' = t
    <3>0. /\ three \in Seq(Pieces) /\ Pend \in Seq(Pieces) /\ fifo \in Seq(Pieces)
          /\ host.line \in Seq(Pieces)
      BY <1>1, <2>2
    <3>1. Flow' = host.line \o (Pend \o (fifo \o three))
      BY <1>1, <1>3, <2>1 DEF Flow
    <3>2. Pend \o (fifo \o three) = (Pend \o fifo) \o three
      BY <3>0, PiecesRegrouped
    <3>3. Pend \o fifo \in Seq(Pieces)
      BY <1>1, PiecesJoined
    <3>4. host.line \o ((Pend \o fifo) \o three) = (host.line \o (Pend \o fifo)) \o three
      <4> DEFINE a == host.line
                 q == Pend \o fifo
      <4>1. a \in Seq(Pieces) /\ q \in Seq(Pieces) /\ three \in Seq(Pieces)
        BY <3>0, <3>3
      <4> HIDE DEF a, q
      <4>2. a \o (q \o three) = (a \o q) \o three
        BY <4>1, PiecesRegrouped
      <4> QED BY <4>2 DEF a, q
    <3> QED BY <3>1, <3>2, <3>4 DEF Flow
  <2> HIDE DEF s
  <2>6. /\ t \in Seq(Pieces) /\ Len(t) = Len(s) + 3
        /\ (\A i \in 1 .. Len(s) : t[i] = s[i])
        /\ \A k \in 1 .. 3 : t[Len(s) + k] = three[k]
    <3>1. /\ t \in Seq(Pieces) /\ Len(t) = Len(s) + Len(three)
          /\ (\A i \in 1 .. Len(s) : t[i] = s[i])
          /\ \A k \in 1 .. Len(three) : t[Len(s) + k] = three[k]
      BY <2>2, <2>4, PiecesJoined DEF s
    <3> HIDE DEF t
    <3> QED BY <2>2, <3>1
  <2> HIDE DEF t
  <2>7. Told(t, got, made + 1, gone)
    <3>1. \A k \in 1 .. 3 : t[Len(s) + k].line = made + 1 /\ t[Len(s) + k].part = k
      BY <2>2, <2>6
    <3>2. /\ t \in Seq(Pieces) /\ Len(t) = Len(s) + 3
          /\ \A i \in 1 .. Len(s) : t[i] = s[i]
      BY <2>6
    <3>3. Told(s, got, made, gone)
      BY <2>4
    <3> QED BY <3>1, <3>2, <3>3, LineAdded
  <2>8. Pipe'
    BY <1>1, <1>2, <2>3 DEF Pipe
  <2> QED BY <1>1, <2>1, <2>5, <2>7, <2>8
<1>5. CASE ~(Len(fifo) + 3 <= Room)
  <2>1. fifo' = fifo /\ gone' = gone \union {made + 1}
    BY <1>5 DEF L!Report
  <2>2. Flow' = Flow
    BY <1>1, <1>3, <2>1 DEF Flow
  <2>3. Told(Flow, got, made + 1, gone \union {made + 1})
    BY LineRefused
  <2>4. Pipe'
    BY <1>1, <1>2, <2>1 DEF Pipe
  <2> QED BY <1>1, <2>1, <2>2, <2>3, <2>4
<1> QED BY <1>4, <1>5

LEMMA StepRound == LinkInv /\ L!Round => LinkInv'
<1> SUFFICES ASSUME LinkInv, L!Round PROVE LinkInv'
  OBVIOUS
<1> USE DEF LinkInv
<1>1. /\ UNCHANGED <<state, dtr, stat, dtog, buf, seen, host, made, got>>
      /\ Pend \in Seq(Pieces) /\ fifo \in Seq(Pieces) /\ host.line \in Seq(Pieces)
      /\ usb_pc = "idle" /\ usb_pc' \in {"idle", "look"}
  BY PendType DEF L!Round, Pipe
<1>2. Doomed' = Doomed /\ L!Sending' = L!Sending
  BY <1>1 DEF Doomed, L!Sending
<1>3. Pend' = Pend
  BY <1>1, <1>2 DEF Pend
<1>4. CASE dtr
  <2>1. fifo' = fifo /\ gone' = gone
    BY <1>4 DEF L!Round
  <2>2. Flow' = Flow
    BY <1>1, <1>3, <2>1 DEF Flow
  <2>3. Pipe'
    BY <1>1, <1>2, <2>1 DEF Pipe
  <2> QED BY <1>1, <2>1, <2>2, <2>3
<1>5. CASE ~dtr
  <2>1. fifo' = <<>> /\ gone' = gone \union L!LinesOf(fifo)
    BY <1>5 DEF L!Round
  <2> DEFINE a == host.line \o Pend
  <2>2. a \in Seq(Pieces)
    BY <1>1, PiecesJoined
  <2>3. Flow = a \o fifo
    BY <1>1, PiecesRegrouped DEF Flow
  <2>4. Flow' = a
    <3>1. Flow' = host.line \o (Pend \o <<>>)
      BY <1>1, <1>3, <2>1 DEF Flow
    <3> QED BY <1>1, <3>1, ConcatEmptySeq
  <2> HIDE DEF a
  <2>5. Told(a, got, made, gone')
    BY <1>1, <2>1, <2>2, <2>3, LastGone
  <2>6. fifo' \in Seq(Pieces)
    BY <2>1
  <2>7. Pipe'
    BY <1>1, <1>2, <2>6 DEF Pipe
  <2> QED BY <1>1, <2>4, <2>5, <2>7
<1> QED BY <1>4, <1>5

LEMMA StepLook == LinkInv /\ L!Look => LinkInv'
<1> SUFFICES ASSUME LinkInv, L!Look PROVE LinkInv'
  OBVIOUS
<1> USE DEF LinkInv
<1>1. /\ UNCHANGED <<state, dtr, stat, dtog, buf, fifo, seen, host, made, got, gone>>
      /\ usb_pc = "look" /\ usb_pc' \in {"idle", "fill"} /\ (usb_pc' = "fill" => stat = L!NAK)
  BY DEF L!Look, L!Free
<1>2. Doomed' = Doomed /\ L!Sending' = L!Sending
  BY <1>1 DEF Doomed, L!Sending
<1>3. Flow' = Flow
  BY <1>1, <1>2 DEF Flow, Pend
<1>4. Pipe'
  BY <1>1, <1>2, StatValues DEF Pipe
<1> QED BY <1>1, <1>3, <1>4

LEMMA StepFill == LinkInv /\ L!Fill => LinkInv'
<1> SUFFICES ASSUME LinkInv, L!Fill PROVE LinkInv'
  OBVIOUS
<1> USE DEF LinkInv
<1> DEFINE n == IF Len(fifo) < Packet THEN Len(fifo) ELSE Packet
<1>1. /\ UNCHANGED <<state, dtr, stat, dtog, seen, host, made, got, gone>>
      /\ usb_pc = "fill" /\ usb_pc' = "load" /\ fifo \in Seq(Pieces)
      /\ buf' = SubSeq(fifo, 1, n) /\ fifo' = SubSeq(fifo, n + 1, Len(fifo))
  BY DEF L!Fill, Pipe
<1>2. n \in 0 .. Len(fifo) /\ Len(fifo) \in Nat
  BY <1>1, ServicesAssumption DEF ServicesAssumption
<1> HIDE DEF n
<1>3. buf' \in Seq(Pieces) /\ fifo' \in Seq(Pieces) /\ buf' \o fifo' = fifo
  <2> DEFINE P == Pieces
             x == SubSeq(fifo, 1, n)
             y == SubSeq(fifo, n + 1, Len(fifo))
  <2>1. fifo \in Seq(P) /\ 1 \in Int /\ n \in Int /\ n + 1 \in Int /\ Len(fifo) \in Int
    BY <1>1, <1>2
  <2> HIDE DEF P
  <2>2. (\A i \in 1 .. n : fifo[i] \in P) /\ \A i \in n + 1 .. Len(fifo) : fifo[i] \in P
    BY <1>2, <2>1
  <2>3. /\ x \in Seq(P) /\ Len(x) = IF 1 <= n THEN n - 1 + 1 ELSE 0
        /\ \A i \in 1 .. n - 1 + 1 : x[i] = fifo[1 + i - 1]
    BY <2>1, <2>2, SubSeqProperties
  <2>4. /\ y \in Seq(P) /\ Len(y) = IF n + 1 <= Len(fifo) THEN Len(fifo) - (n + 1) + 1 ELSE 0
        /\ \A i \in 1 .. Len(fifo) - (n + 1) + 1 : y[i] = fifo[(n + 1) + i - 1]
    BY <2>1, <2>2, SubSeqProperties
  <2> HIDE DEF x, y
  <2>5. Len(x) = n /\ \A i \in 1 .. n : x[i] = fifo[i]
    <3>1. n - 1 + 1 = n /\ Len(x) = n
      BY <1>2, <2>3
    <3>2. \A i \in 1 .. n : 1 + i - 1 = i
      BY <1>2
    <3> QED BY <2>3, <3>1, <3>2
  <2>6. Len(y) = Len(fifo) - n /\ \A i \in 1 .. Len(y) : y[i] = fifo[n + i]
    <3>1. Len(fifo) - (n + 1) + 1 = Len(fifo) - n /\ Len(y) = Len(fifo) - n
      BY <1>2, <2>4
    <3>2. \A i \in 1 .. Len(y) : (n + 1) + i - 1 = n + i
      BY <1>2
    <3> QED BY <2>4, <3>1, <3>2
  <2> DEFINE z == x \o y
  <2>7. /\ z \in Seq(Pieces) /\ Len(z) = Len(x) + Len(y)
        /\ (\A i \in 1 .. Len(x) : z[i] = x[i]) /\ \A i \in 1 .. Len(y) : z[Len(x) + i] = y[i]
    BY <2>3, <2>4, PiecesJoined DEF P
  <2> HIDE DEF z
  <2>8. Len(z) = Len(fifo)
    BY <1>2, <2>5, <2>6, <2>7
  <2>9. ASSUME NEW i \in 1 .. Len(z) PROVE z[i] = fifo[i]
    <3>1. CASE i <= n
      <4>1. i \in 1 .. n
        BY <1>2, <3>1
      <4> QED BY <2>5, <2>7, <4>1
    <3>2. CASE ~(i <= n)
      <4> DEFINE j == i - n
      <4>1. j \in 1 .. Len(y) /\ i = n + j
        BY <1>2, <2>6, <2>8, <3>2
      <4> HIDE DEF j
      <4> QED BY <2>5, <2>6, <2>7, <4>1
    <3> QED BY <3>1, <3>2
  <2>10. z = fifo
    BY <1>1, <2>7, <2>8, <2>9, SameSequence
  <2> QED BY <1>1, <2>3, <2>4, <2>10 DEF P, x, y, z
<1>4. ~L!Sending /\ L!Sending' /\ ~Doomed'
  BY <1>1 DEF L!Sending, Doomed, Pipe
<1>5. state = "CONFIGURED" => dtog = host.toggle
  BY <1>1 DEF Pipe
<1>6. Pend = <<>> /\ Pend' = buf'
  BY <1>1, <1>4, <1>5 DEF Pend
<1>7. Flow' = Flow
  <2>1. <<>> \o fifo = fifo
    BY <1>1
  <2> QED BY <1>1, <1>3, <1>6, <2>1 DEF Flow
<1>8. Pipe'
  BY <1>1, <1>3, <1>4 DEF Pipe
<1> QED BY <1>1, <1>7, <1>8

LEMMA StepLoad == LinkInv /\ L!Load => LinkInv'
<1> SUFFICES ASSUME LinkInv, L!Load PROVE LinkInv'
  OBVIOUS
<1> USE DEF LinkInv
<1>1. /\ UNCHANGED <<state, dtr, stat, dtog, buf, fifo, host, made, got, gone>>
      /\ usb_pc = "load" /\ usb_pc' = "store" /\ seen' = stat
  BY DEF L!Load
<1>2. ~Doomed /\ ~Doomed' /\ L!Sending /\ L!Sending'
  BY <1>1 DEF Doomed, L!Sending
<1>3. Flow' = Flow
  BY <1>1, <1>2 DEF Flow, Pend
<1>4. Pipe'
  BY <1>1, <1>2 DEF Pipe
<1> QED BY <1>1, <1>3, <1>4

LEMMA StepStore == LinkInv /\ L!Store => LinkInv'
<1> SUFFICES ASSUME LinkInv, L!Store PROVE LinkInv'
  OBVIOUS
<1> USE DEF LinkInv
<1>1. /\ UNCHANGED <<state, dtr, dtog, buf, fifo, seen, host, made, got, gone>>
      /\ usb_pc = "store" /\ usb_pc' = "idle"
      /\ stat' = L!Xor(stat, L!Xor(seen, L!VALID))
      /\ stat \in {L!DISABLED, L!STALL, L!NAK, L!VALID} /\ stat # L!VALID
  BY DEF L!Store, Pipe
<1>2. ~Doomed' /\ L!Sending
  BY <1>1 DEF Doomed, L!Sending
<1>3. CASE Doomed
  <2>1. stat' = L!STALL /\ state # "CONFIGURED"
    BY <1>1, <1>3, StatValues DEF Pipe
  <2>2. ~L!Sending'
    BY <1>1, <2>1, StatValues DEF L!Sending
  <2>3. Flow' = Flow
    BY <1>1, <1>3, <2>2 DEF Flow, Pend
  <2>4. Pipe'
    BY <1>1, <1>2, <2>1, StatValues DEF Pipe
  <2> QED BY <1>1, <2>3, <2>4
<1>4. CASE ~Doomed
  <2>1. stat' = L!VALID
    BY <1>1, <1>4, StatValues DEF Doomed
  <2>2. L!Sending'
    BY <2>1 DEF L!Sending
  <2>3. Flow' = Flow
    BY <1>1, <1>2, <1>4, <2>2 DEF Flow, Pend
  <2>4. Pipe'
    BY <1>1, <1>2, <2>1, StatValues DEF Pipe
  <2> QED BY <1>1, <2>3, <2>4
<1> QED BY <1>3, <1>4

(* The line the host reads goes, and what is in the packet may go with it. *)
LEMMA LineDropped ==
  ASSUME LinkInv, host'.line = <<>>, UNCHANGED <<fifo, got, made>>, gone \subseteq gone',
         L!LinesOf(host.line) \subseteq gone',
         Pend' = Pend \/ (Pend' = <<>> /\ L!LinesOf(L!InBuf) \subseteq gone')
  PROVE  Told(Flow, got, made, gone)'
<1>1. /\ Pend \in Seq(Pieces) /\ fifo \in Seq(Pieces) /\ host.line \in Seq(Pieces)
      /\ Pend = <<>> \/ Pend = L!InBuf
  BY PendType DEF LinkInv, Pipe
<1> DEFINE q == Pend \o fifo
<1>2. q \in Seq(Pieces) /\ <<>> \o q = q /\ <<>> \o fifo = fifo
  <2>1. q \in Seq(Pieces)
    BY <1>1, PiecesJoined
  <2> HIDE DEF q
  <2> QED BY <1>1, <2>1, ConcatEmptySeq
<1>3. Told(host.line \o q, got, made, gone)
  BY DEF LinkInv, Flow
<1>4. Told(q, got, made, gone')
  <2> HIDE DEF q
  <2> QED BY <1>1, <1>2, <1>3, FirstGone
<1>5. Flow' = <<>> \o (Pend' \o fifo)
  BY DEF Flow
<1>6. CASE Pend' = Pend
  BY <1>2, <1>4, <1>5, <1>6
<1>7. CASE Pend' = <<>> /\ L!LinesOf(L!InBuf) \subseteq gone'
  <2>1. L!LinesOf(Pend) \subseteq gone'
    <3>1. L!LinesOf(<<>>) = {}
      BY DEF L!LinesOf
    <3> QED BY <1>1, <1>7, <3>1
  <2>2. Told(fifo, got, made, gone')
    BY <1>1, <1>4, <2>1, FirstGone
  <2> QED BY <1>2, <1>5, <1>7, <2>2
<1> QED BY <1>6, <1>7

(* Nothing moves, and no less is lost.                                     *)
LEMMA NothingMoves ==
  ASSUME LinkInv, host'.line = host.line, UNCHANGED <<fifo, got, made>>, gone \subseteq gone',
         Pend' = Pend
  PROVE  Told(Flow, got, made, gone)'
<1>1. Flow' = Flow
  BY DEF Flow
<1>2. Told(Flow, got, made, gone')
  BY MoreLost DEF LinkInv
<1> QED BY <1>1, <1>2

(* The handler's steps.                                                    *)
LEMMA StepReset == LinkInv /\ L!Reset => LinkInv'
<1> SUFFICES ASSUME LinkInv, L!Reset PROVE LinkInv'
  OBVIOUS
<1>0. Pipe
  BY DEF LinkInv
<1>1. /\ state' = "DEFAULT" /\ dtr' = FALSE /\ stat' = L!DISABLED /\ dtog' = 0
      /\ host' = [host EXCEPT !.line = <<>>] /\ L!Apart
      /\ UNCHANGED <<buf, fifo, usb_pc, seen, made, got>>
      /\ gone \subseteq gone' /\ L!LinesOf(L!InBuf) \subseteq gone'
      /\ L!LinesOf(host.line) \subseteq gone'
  BY DEF L!Reset
<1>2. host' \in [toggle : 0 .. 1, line : Seq(Pieces), halted : BOOLEAN] /\ host'.line = <<>>
  <2>1. host \in [toggle : 0 .. 1, line : Seq(Pieces), halted : BOOLEAN] /\ 0 \in 0 .. 1
    BY <1>0 DEF Pipe
  <2>2. <<>> \in Seq(Pieces)
    OBVIOUS
  <2> DEFINE S == Seq(Pieces)
  <2> HIDE DEF S
  <2> QED BY <1>1, <2>1, <2>2 DEF S
<1>3. usb_pc = "store" => seen = L!NAK
  BY <1>1 DEF L!Apart
<1>4. Pend' = Pend \/ Pend' = <<>>
  <2>1. CASE usb_pc = "load"
    <3>1. state = "CONFIGURED" /\ stat = L!NAK /\ L!Sending /\ ~Doomed /\ L!Sending' /\ ~Doomed'
      BY <1>1, <2>1 DEF L!Apart, L!Sending, Doomed
    <3>2. dtog = host.toggle /\ state' # "CONFIGURED"
      BY <1>0, <1>1, <3>1, StatValues DEF Pipe
    <3> QED BY <1>1, <3>1, <3>2 DEF Pend
  <2>2. CASE usb_pc = "store"
    <3>1. Doomed'
      BY <1>1, <1>3, <2>2, StatValues DEF Doomed
    <3> QED BY <3>1 DEF Pend
  <2>3. CASE usb_pc \notin {"load", "store"}
    <3>1. ~L!Sending'
      BY <1>1, <2>3, StatValues DEF L!Sending
    <3> QED BY <3>1 DEF Pend
  <2> QED BY <2>1, <2>2, <2>3
<1>5. Told(Flow, got, made, gone)'
  BY <1>1, <1>2, <1>4, LineDropped
<1>6. Pipe'
  <2>1. Doomed' => usb_pc = "store"
    BY <1>1 DEF Doomed
  <2>2. NoEnd(<<>>)
    BY DEF NoEnd
  <2> QED BY <1>0, <1>1, <1>2, <1>3, <2>1, <2>2, StatValues DEF Pipe
<1> QED BY <1>5, <1>6 DEF LinkInv

LEMMA StepUnconfigure == LinkInv /\ L!Unconfigure => LinkInv'
<1> SUFFICES ASSUME LinkInv, L!Unconfigure PROVE LinkInv'
  OBVIOUS
<1>0. Pipe
  BY DEF LinkInv
<1>1. /\ state = "CONFIGURED" /\ state' = "ADDRESS" /\ stat' = L!DISABLED /\ dtog' = 0
      /\ host' = [host EXCEPT !.line = <<>>] /\ L!Apart
      /\ UNCHANGED <<dtr, buf, fifo, usb_pc, seen, made, got>>
      /\ gone \subseteq gone' /\ L!LinesOf(L!InBuf) \subseteq gone'
      /\ L!LinesOf(host.line) \subseteq gone'
  BY DEF L!Unconfigure
<1>2. host' \in [toggle : 0 .. 1, line : Seq(Pieces), halted : BOOLEAN] /\ host'.line = <<>>
  <2>1. host \in [toggle : 0 .. 1, line : Seq(Pieces), halted : BOOLEAN] /\ 0 \in 0 .. 1
    BY <1>0 DEF Pipe
  <2>2. <<>> \in Seq(Pieces)
    OBVIOUS
  <2> DEFINE S == Seq(Pieces)
  <2> HIDE DEF S
  <2> QED BY <1>1, <2>1, <2>2 DEF S
<1>3. usb_pc = "store" => seen = L!NAK
  BY <1>1 DEF L!Apart
<1>4. Pend' = Pend \/ Pend' = <<>>
  <2>1. CASE usb_pc = "load"
    <3>1. stat = L!NAK /\ L!Sending /\ ~Doomed /\ L!Sending' /\ ~Doomed'
      BY <1>1, <2>1 DEF L!Apart, L!Sending, Doomed
    <3>2. dtog = host.toggle /\ state' # "CONFIGURED"
      BY <1>0, <1>1, <3>1, StatValues DEF Pipe
    <3> QED BY <1>1, <3>1, <3>2 DEF Pend
  <2>2. CASE usb_pc = "store"
    <3>1. Doomed'
      BY <1>1, <1>3, <2>2, StatValues DEF Doomed
    <3> QED BY <3>1 DEF Pend
  <2>3. CASE usb_pc \notin {"load", "store"}
    <3>1. ~L!Sending'
      BY <1>1, <2>3, StatValues DEF L!Sending
    <3> QED BY <3>1 DEF Pend
  <2> QED BY <2>1, <2>2, <2>3
<1>5. Told(Flow, got, made, gone)'
  BY <1>1, <1>2, <1>4, LineDropped
<1>6. Pipe'
  <2>1. Doomed' => usb_pc = "store"
    BY <1>1 DEF Doomed
  <2>2. NoEnd(<<>>)
    BY DEF NoEnd
  <2> QED BY <1>0, <1>1, <1>2, <1>3, <2>1, <2>2, StatValues DEF Pipe
<1> QED BY <1>5, <1>6 DEF LinkInv

LEMMA StepAddress == LinkInv /\ L!Address => LinkInv'
<1> SUFFICES ASSUME LinkInv, L!Address PROVE LinkInv'
  OBVIOUS
<1>1. /\ UNCHANGED <<dtr, stat, dtog, buf, fifo, usb_pc, seen, host, made, got, gone>>
      /\ state = "DEFAULT" /\ state' = "ADDRESS"
  BY DEF L!Address
<1>2. Doomed' = Doomed /\ L!Sending' = L!Sending
  BY <1>1 DEF Doomed, L!Sending
<1>3. Pend' = Pend
  BY <1>1, <1>2 DEF Pend
<1>4. Told(Flow, got, made, gone)'
  BY <1>1, <1>3, NothingMoves
<1>5. Pipe'
  BY <1>1, <1>2 DEF LinkInv, Pipe
<1> QED BY <1>4, <1>5 DEF LinkInv

LEMMA StepConfigure == LinkInv /\ L!Configure => LinkInv'
<1> SUFFICES ASSUME LinkInv, L!Configure PROVE LinkInv'
  OBVIOUS
<1>0. Pipe
  BY DEF LinkInv
<1>1. /\ state = "ADDRESS" /\ state' = "CONFIGURED" /\ stat' = L!NAK /\ L!Apart
      /\ host' = [toggle |-> 0, line |-> <<>>, halted |-> FALSE]
      /\ UNCHANGED <<dtr, dtog, buf, fifo, usb_pc, seen, made, got>>
      /\ gone \subseteq gone' /\ L!LinesOf(L!InBuf) \subseteq gone'
  BY DEF L!Configure, L!DropPacket
<1>2. host.line = <<>> /\ dtog = 0
  BY <1>0, <1>1 DEF Pipe
<1>3. usb_pc \notin {"fill", "load", "store"}
  BY <1>1 DEF L!Apart
<1>4. Pend' = <<>>
  <2>1. ~L!Sending'
    BY <1>1, <1>3, StatValues DEF L!Sending
  <2> QED BY <2>1 DEF Pend
<1>5. Told(Flow, got, made, gone)'
  <2>1. L!LinesOf(host.line) \subseteq gone'
    BY <1>2 DEF L!LinesOf
  <2> QED BY <1>1, <1>4, <2>1, LineDropped
<1>6. Pipe'
  <2>1. ~Doomed'
    BY <1>1, <1>3 DEF Doomed
  <2>2. NoEnd(<<>>)
    BY DEF NoEnd
  <2>3. host' \in [toggle : 0 .. 1, line : Seq(Pieces), halted : BOOLEAN]
    BY <1>1
  <2> QED BY <1>0, <1>1, <1>2, <1>3, <2>1, <2>2, <2>3, StatValues DEF Pipe
<1> QED BY <1>5, <1>6 DEF LinkInv

LEMMA StepDtr == ASSUME NEW on \in BOOLEAN, LinkInv, L!Dtr(on) PROVE LinkInv'
<1>0. Pipe
  BY DEF LinkInv
<1>1. /\ dtr # on /\ dtr' = on /\ host' = [host EXCEPT !.line = <<>>]
      /\ UNCHANGED <<state, stat, dtog, buf, fifo, usb_pc, seen, made, got>>
      /\ gone \subseteq gone'
  BY DEF L!Dtr
<1>2. /\ host' \in [toggle : 0 .. 1, line : Seq(Pieces), halted : BOOLEAN] /\ host'.line = <<>>
      /\ host'.toggle = host.toggle /\ host'.halted = host.halted
  <2>1. host \in [toggle : 0 .. 1, line : Seq(Pieces), halted : BOOLEAN] /\ 0 \in 0 .. 1
    BY <1>0 DEF Pipe
  <2>2. <<>> \in Seq(Pieces)
    OBVIOUS
  <2> DEFINE S == Seq(Pieces)
  <2> HIDE DEF S
  <2> QED BY <1>1, <2>1, <2>2 DEF S
<1>3. L!LinesOf(host.line) \subseteq gone'
  <2>1. CASE on
    <3>1. host.line = <<>>
      BY <1>0, <1>1, <2>1 DEF Pipe
    <3> QED BY <3>1 DEF L!LinesOf
  <2>2. CASE ~on
    BY <2>2 DEF L!Dtr
  <2> QED BY <2>1, <2>2
<1>4. Doomed' = Doomed /\ L!Sending' = L!Sending
  BY <1>1 DEF Doomed, L!Sending
<1>5. Pend' = Pend
  BY <1>1, <1>2, <1>4 DEF Pend
<1>6. Told(Flow, got, made, gone)'
  BY <1>1, <1>2, <1>3, <1>5, LineDropped
<1>7. Pipe'
  <2>1. NoEnd(<<>>)
    BY DEF NoEnd
  <2> QED BY <1>0, <1>1, <1>2, <1>4, <2>1 DEF Pipe
<1> QED BY <1>6, <1>7 DEF LinkInv

LEMMA StepHalt == LinkInv /\ (L!Halt \/ L!Clear) => LinkInv'
<1> SUFFICES ASSUME LinkInv, L!Halt \/ L!Clear PROVE LinkInv'
  OBVIOUS
<1>0. Pipe
  BY DEF LinkInv
<1>1. /\ UNCHANGED <<state, dtr, buf, fifo, usb_pc, seen, made, got>>
      /\ L!Apart /\ ~L!Sending /\ state = "CONFIGURED" /\ gone \subseteq gone'
      /\ \/ stat' = L!STALL /\ dtog' = dtog /\ host' = [host EXCEPT !.halted = TRUE]
         \/ /\ stat' = L!NAK /\ dtog' = 0
            /\ host' = [host EXCEPT !.toggle = 0, !.halted = FALSE]
  BY DEF L!Halt, L!Clear, L!DropPacket, L!Healthy
<1>2. /\ host' \in [toggle : 0 .. 1, line : Seq(Pieces), halted : BOOLEAN]
      /\ host'.line = host.line
      /\ \/ stat' = L!STALL /\ dtog' = dtog /\ host'.toggle = host.toggle /\ host'.halted = TRUE
         \/ stat' = L!NAK /\ dtog' = 0 /\ host'.toggle = 0
  <2>1. host \in [toggle : 0 .. 1, line : Seq(Pieces), halted : BOOLEAN] /\ 0 \in 0 .. 1
    BY <1>0 DEF Pipe
  <2>2. <<>> \in Seq(Pieces)
    OBVIOUS
  <2> DEFINE S == Seq(Pieces)
  <2> HIDE DEF S
  <2> QED BY <1>1, <2>1, <2>2 DEF S
<1>3. stat' # L!VALID /\ stat # L!VALID /\ usb_pc \notin {"load", "store"}
  BY <1>1, <1>2, StatValues DEF L!Sending
<1>4. ~L!Sending' /\ ~Doomed'
  BY <1>1, <1>3 DEF L!Sending, Doomed
<1>5. Pend' = Pend
  BY <1>1, <1>4 DEF Pend
<1>6. Told(Flow, got, made, gone)'
  BY <1>1, <1>2, <1>5, NothingMoves
<1>7. dtog = host.toggle
  BY <1>0, <1>1, <1>3 DEF Pipe
<1>8. Pipe'
  BY <1>0, <1>1, <1>2, <1>3, <1>4, <1>7 DEF Pipe
<1> QED BY <1>6, <1>8 DEF LinkInv

(* The host reads a packet, or has read it before.                         *)
LEMMA StepIn == LinkInv /\ L!In => LinkInv'
<1> SUFFICES ASSUME LinkInv, L!In PROVE LinkInv'
  OBVIOUS
<1>0. Pipe /\ Told(Flow, got, made, gone) /\ got \in Seq(Nat)
  BY DEF LinkInv, Told
<1> DEFINE o1 == [line |-> host.line, got |-> got]
           h == L!ReadAll(o1, buf)
<1>1. /\ UNCHANGED <<state, dtr, buf, fifo, usb_pc, seen, made, gone>>
      /\ state = "CONFIGURED" /\ dtr /\ stat = L!VALID
      /\ host' = IF dtog = host.toggle THEN [host EXCEPT !.toggle = 1 - dtog, !.line = h.line]
                                       ELSE host
      /\ got' = IF dtog = host.toggle THEN h.got ELSE got
      /\ (stat' = L!NAK /\ dtog' = 1 - dtog) \/ (stat' = stat /\ dtog' = dtog)
  BY DEF L!In
<1>2. usb_pc \notin {"fill", "load", "store"} /\ dtog \in 0 .. 1 /\ host.toggle \in 0 .. 1
  BY <1>0, <1>1 DEF Pipe
<1>3. ~Doomed /\ ~Doomed' /\ L!Sending
  BY <1>1, <1>2 DEF Doomed, L!Sending
<1>4. host'.toggle = 1 - dtog /\ host'.halted = host.halted
  <2>1. dtog # host.toggle => host.toggle = 1 - dtog
    BY <1>2
  <2>2. host \in [toggle : 0 .. 1, line : Seq(Pieces), halted : BOOLEAN]
    BY <1>0 DEF Pipe
  <2> HIDE DEF h
  <2> QED BY <1>1, <2>1, <2>2
<1>5. Pend' = <<>>
  <2>1. stat' = L!NAK => ~L!Sending'
    BY <1>1, <1>2, StatValues DEF L!Sending
  <2>2. dtog' = dtog => dtog' # host'.toggle
    BY <1>2, <1>4
  <2> QED BY <1>1, <2>1, <2>2 DEF Pend
<1>6. buf \in Seq(Pieces) /\ fifo \in Seq(Pieces) /\ host.line \in Seq(Pieces) /\ NoEnd(host.line)
  BY <1>0 DEF Pipe
<1>7. Flow' = host'.line \o fifo
  <2>1. <<>> \o fifo = fifo
    BY <1>6
  <2> QED BY <1>1, <1>5, <2>1 DEF Flow
<1>8. CASE dtog = host.toggle
  <2>1. Heard(o1, buf, 0, fifo, made, gone)
    <3>1. Pend = buf
      BY <1>3, <1>8 DEF Pend
    <3>2. SubSeq(buf, 0 + 1, Len(buf)) = buf
      BY <1>6, SubSeqFull
    <3>3. Ahead(o1, buf, 0, fifo) = Flow
      BY <3>1, <3>2 DEF Ahead, Flow
    <3> QED BY <1>0, <1>6, <3>3 DEF Heard
  <2> HIDE DEF o1
  <2>2. Heard(h, buf, Len(buf), fifo, made, gone)
    BY <1>6, <2>1, PacketRead
  <2> HIDE DEF h
  <2>3. Ahead(h, buf, Len(buf), fifo) = h.line \o fifo
    <3>1. Len(buf) \in Int /\ Len(buf) + 1 \in Int /\ Len(buf) < Len(buf) + 1
      BY <1>6
    <3>2. SubSeq(buf, Len(buf) + 1, Len(buf)) = <<>>
      BY <3>1, SubSeqEmpty
    <3>3. <<>> \o fifo = fifo
      BY <1>6
    <3> QED BY <3>2, <3>3 DEF Ahead
  <2>4. /\ h.line \in Seq(Pieces) /\ NoEnd(h.line) /\ h.got \in Seq(Nat)
        /\ Told(h.line \o fifo, h.got, made, gone)
    BY <2>2, <2>3 DEF Heard
  <2>5. /\ host' \in [toggle : 0 .. 1, line : Seq(Pieces), halted : BOOLEAN]
        /\ host'.line = h.line /\ got' = h.got
    <3>1. host \in [toggle : 0 .. 1, line : Seq(Pieces), halted : BOOLEAN] /\ 1 - dtog \in 0 .. 1
      BY <1>0, <1>2 DEF Pipe
    <3> QED BY <1>1, <1>8, <2>4, <3>1
  <2>6. Told(Flow, got, made, gone)'
    BY <1>1, <1>7, <2>4, <2>5
  <2>7. Pipe'
    BY <1>0, <1>1, <1>2, <1>3, <1>4, <2>4, <2>5, StatValues DEF Pipe
  <2> QED BY <2>6, <2>7 DEF LinkInv
<1>9. CASE dtog # host.toggle
  <2> HIDE DEF h
  <2>1. host' = host /\ got' = got
    BY <1>1, <1>9
  <2>2. Pend = <<>>
    BY <1>1, <1>9 DEF Pend
  <2>3. Told(Flow, got, made, gone)'
    BY <1>1, <1>5, <2>1, <2>2, NothingMoves
  <2>4. Pipe'
    BY <1>0, <1>1, <1>2, <1>3, <1>4, <2>1, StatValues DEF Pipe
  <2> QED BY <2>3, <2>4 DEF LinkInv
<1> QED BY <1>8, <1>9

(* It holds at the start.                                                  *)
LEMMA LinkStarts == L!Init => LinkInv
<1> SUFFICES ASSUME L!Init PROVE LinkInv
  OBVIOUS
<1>1. /\ state = "DEFAULT" /\ dtr = FALSE /\ stat = L!DISABLED /\ dtog = 0
      /\ buf = <<>> /\ fifo = <<>> /\ usb_pc = "idle"
      /\ host = [toggle |-> 0, line |-> <<>>, halted |-> FALSE]
      /\ made = 0 /\ got = <<>> /\ gone = {}
  BY DEF L!Init
<1>2. NoEnd(<<>>) /\ ~Doomed
  BY <1>1 DEF NoEnd, Doomed
<1>3. Pipe
  BY <1>1, <1>2, StatValues DEF Pipe
<1>4. Flow = <<>>
  <2>1. Pend = <<>>
    BY <1>1 DEF Pend
  <2> QED BY <1>1, <2>1 DEF Flow
<1>5. Unbroken(<<>>, 0, {}) /\ Accounted(<<>>, <<>>, 0, {}) /\ Accepted(<<>>, <<>>, 0)
  BY DEF Unbroken, Rises, Accounted, Accepted
<1>6. Told(<<>>, <<>>, 0, {})
  BY <1>5 DEF Told
<1> QED BY <1>1, <1>3, <1>4, <1>6 DEF LinkInv

(* Every step keeps it.                                                    *)
LEMMA LinkKept == LinkInv /\ [L!Next]_linkVars => LinkInv'
<1> SUFFICES ASSUME LinkInv, [L!Next]_linkVars PROVE LinkInv'
  OBVIOUS
<1>1. CASE L!Report
  BY <1>1, StepReport
<1>2. CASE L!Round
  BY <1>2, StepRound
<1>3. CASE L!Look
  BY <1>3, StepLook
<1>4. CASE L!Fill
  BY <1>4, StepFill
<1>5. CASE L!Load
  BY <1>5, StepLoad
<1>6. CASE L!Store
  BY <1>6, StepStore
<1>7. CASE L!Reset
  BY <1>7, StepReset
<1>8. CASE L!Address
  BY <1>8, StepAddress
<1>9. CASE L!Configure
  BY <1>9, StepConfigure
<1>10. CASE L!Unconfigure
  BY <1>10, StepUnconfigure
<1>11. CASE L!Dtr(TRUE) \/ L!Dtr(FALSE)
  BY <1>11, StepDtr
<1>12. CASE L!Halt \/ L!Clear
  BY <1>12, StepHalt
<1>13. CASE L!In
  BY <1>13, StepIn
<1>14. CASE UNCHANGED linkVars
  BY <1>14 DEF linkVars, LinkInv, Pipe, Flow, Pend, Doomed, L!Sending
<1> QED BY <1>1, <1>2, <1>3, <1>4, <1>5, <1>6, <1>7, <1>8, <1>9, <1>10, <1>11, <1>12, <1>13, <1>14
        DEF L!Next, L!Main, L!Request

(* What the host accepts is a line, and in order; what it did not accept   *)
(* is on its way or known to be lost; the endpoint is ready or in flight.  *)
LEMMA LinkMeans == LinkInv => ReportsGenuine /\ ReportsArrive
<1> SUFFICES ASSUME LinkInv PROVE ReportsGenuine /\ ReportsArrive
  OBVIOUS
<1>1. /\ Flow \in Seq(Pieces) /\ got \in Seq(Nat) /\ made \in Nat
      /\ Accounted(Flow, got, made, gone) /\ Accepted(Flow, got, made) /\ Pipe
      /\ Pend \in Seq(Pieces) /\ fifo \in Seq(Pieces) /\ host.line \in Seq(Pieces)
      /\ (Pend = <<>> \/ Pend = L!InBuf)
  BY PendType DEF LinkInv, Told, Pipe
<1>2. L!ReportsGenuine
  <2> SUFFICES ASSUME NEW j \in DOMAIN got PROVE got[j] # 0 /\ (j > 1 => got[j - 1] < got[j])
    BY DEF L!ReportsGenuine
  <2>1. j \in 1 .. Len(got)
    BY <1>1
  <2> QED BY <1>1, <2>1 DEF Accepted
<1>3. L!ReportsArrive
  <2> SUFFICES ASSUME NEW i \in 1 .. made, {i - 1, i} \intersect gone = {}
               PROVE  \/ \E j \in DOMAIN got : got[j] = i
                      \/ i \in L!LinesOf(fifo) \union L!LinesOf(L!InBuf)
                                  \union L!LinesOf(host.line)
    BY DEF L!ReportsArrive
  <2>1. \/ \E j \in 1 .. Len(got) : got[j] = i
        \/ \E k \in 1 .. Len(Flow) : Flow[k].line = i
    BY <1>1 DEF Accounted
  <2>2. CASE \E j \in 1 .. Len(got) : got[j] = i
    BY <1>1, <2>2
  <2>3. CASE \E k \in 1 .. Len(Flow) : Flow[k].line = i
    <3>1. PICK k \in 1 .. Len(Flow) : Flow[k].line = i
      BY <2>3
    <3>2. \A s \in Seq(Pieces) : \A j \in 1 .. Len(s) : s[j].line \in L!LinesOf(s)
      BY DEF L!LinesOf
    <3>3. ASSUME NEW a \in Seq(Pieces), NEW b \in Seq(Pieces), NEW j \in 1 .. Len(a \o b)
          PROVE  (a \o b)[j].line \in L!LinesOf(a) \union L!LinesOf(b)
      <4>1. /\ Len(a) \in Nat /\ Len(b) \in Nat /\ Len(a \o b) = Len(a) + Len(b)
            /\ (\A n \in 1 .. Len(a) : (a \o b)[n] = a[n])
            /\ \A n \in 1 .. Len(b) : (a \o b)[Len(a) + n] = b[n]
        BY PiecesJoined
      <4>2. CASE j \in 1 .. Len(a)
        BY <3>2, <4>1, <4>2
      <4>3. CASE j \notin 1 .. Len(a)
        <5> DEFINE n == j - Len(a)
        <5>1. n \in 1 .. Len(b) /\ j = Len(a) + n
          BY <4>1, <4>3
        <5> HIDE DEF n
        <5> QED BY <3>2, <4>1, <5>1
      <4> QED BY <4>2, <4>3
    <3> DEFINE q == Pend \o fifo
    <3>4. q \in Seq(Pieces)
      BY <1>1, PiecesJoined
    <3>5. i \in L!LinesOf(host.line) \/ i \in L!LinesOf(q)
      <4> HIDE DEF q
      <4>1. Flow = host.line \o q
        BY DEF Flow, q
      <4> QED BY <1>1, <3>1, <3>3, <3>4, <4>1
    <3>6. ASSUME i \in L!LinesOf(q) PROVE i \in L!LinesOf(Pend) \/ i \in L!LinesOf(fifo)
      <4>1. PICK j \in 1 .. Len(q) : q[j].line = i
        BY <3>4, <3>6 DEF L!LinesOf
      <4> QED BY <1>1, <3>3, <4>1
    <3>7. L!LinesOf(<<>>) = {}
      BY DEF L!LinesOf
    <3> QED BY <1>1, <3>5, <3>6, <3>7
  <2> QED BY <2>1, <2>2, <2>3
<1>4. L!PipeOpen
  BY <1>1 DEF L!PipeOpen, Pipe
<1> QED BY <1>2, <1>3, <1>4 DEF ReportsGenuine, ReportsArrive

(* The invariant of the reports' way.                                     *)
LEMMA LinkHolds == L!Spec => []LinkInv
<1>1. L!Init => LinkInv
  BY LinkStarts
<1>2. LinkInv /\ [L!Next]_L!vars => LinkInv'
  BY LinkKept DEF linkVars, L!vars
<1> QED BY <1>1, <1>2, PTL DEF L!Spec

(* What the host accepts for a line is one of those reported, whole, once  *)
(* and in order (usb_send of usb.c, parseLine of rb01tool).                *)
THEOREM GenuineKept == L!Spec => []ReportsGenuine
<1>1. LinkInv => ReportsGenuine
  BY LinkMeans
<1> QED BY <1>1, LinkHolds, PTL

(* A line that was put in the FIFO arrives or is on its way, unless it or  *)
(* the one before it went with a closed port, a reset or a request; the    *)
(* pipe never sticks (usb_send of usb.c, the endpoint's requests).         *)
THEOREM ArriveKept == L!Spec => []ReportsArrive
<1>1. LinkInv => ReportsArrive
  BY LinkMeans
<1> QED BY <1>1, LinkHolds, PTL
=============================================================================
