---------------------------- MODULE Conversions ----------------------------
(***************************************************************************)
(* The emulated barometer and magnetometer (src/src/sensors.c): the        *)
(* single-shot conversions the DUT asks for with a forced PWR_CTRL mode or *)
(* a POLL, continuous modes, data-ready, clear-on-read and soft reset.     *)
(* The frame hooks run in the group-0 handlers and preempt the thread at   *)
(* any point of a commit, except inside its spidev_commit, which masks     *)
(* interrupts and is refused while the device is selected.  Time is left   *)
(* out: the sampler of main.c offers a sample some time after a rate is    *)
(* configured, sensors_poll releases a pin some time after it was raised.  *)
(* Pins are taken relative to the configured polarity.                     *)
(***************************************************************************)
EXTENDS Integers, FiniteSets

CONSTANTS
  Prefetch,   \* bytes a read hook's len may overcount
  BaroReads,  \* the read frames of the DUT, records [addr, n]
  MagReads,
  PwrValues,  \* what the DUT writes to PWR_CTRL, records [mode, en]
  MaxFrames   \* bound: frames of the DUT

(* Register addresses of the two parts.                                    *)
B_PRESS == 4
B_TEMP == 7
B_EVENT == 16
B_INT_STATUS == 17
M_MEAS == 36

Quantity == {"press", "temp"}
Mode == {"sleep", "forced", "normal"}

ASSUME ConversionsAssumption ==
  /\ Prefetch \in Nat /\ MaxFrames \in Nat
  /\ BaroReads \subseteq [addr : 0 .. 127, n : 1 .. 128]
  /\ MagReads \subseteq [addr : 0 .. 127, n : 1 .. 128]
  /\ PwrValues \subseteq [mode : Mode, en : SUBSET Quantity]

VARIABLES
  baro,     \* the barometer's registers and flags, see TypeOK
  mag,      \* the magnetometer's
  bus,      \* the frame on the bus, None between frames
  pc,       \* where the thread is in a commit or in sensors_poll
  tmp,      \* the register value it loaded and has not stored yet
  unread,   \* enabled quantities committed and not read by the DUT since
  asked,    \* the mode the DUT last stored, sleep after a reset
  nconv,    \* samples committed since (2 stands for more)
  owed,     \* single shots requested and not answered: {"forced", "poll"}
  nframes   \* frames so far (bound)

vars == <<baro, mag, bus, pc, tmp, unread, asked, nconv, owed, nframes>>

None == [dev |-> "none"]

------------------------------------------------------------------------------
(* The master and the engine: the select with its stores, then the hook.   *)

Frames ==
  [dev : {"baro"}, op : {"read"}, at : BaroReads]
    \union [dev : {"mag"}, op : {"read"}, at : MagReads]
    \union [dev : {"baro"}, op : {"pwr"}, val : PwrValues]
    \union [dev : {"baro"}, op : {"int"}, val : BOOLEAN]
    \union [dev : {"baro"}, op : {"cmd"}]
    \union [dev : {"mag"}, op : {"poll"}]
    \union [dev : {"mag"}, op : {"cmm", "ste"}, val : BOOLEAN]
    \union [dev : {"mag"}, op : {"drc"}, val : SUBSET {"write", "read"}]

(* frame_reads: the burst of len bytes from addr touches lo .. hi.         *)
Touches(addr, len, lo, hi) == addr <= hi /\ addr + len > lo

(* The quantities whose data registers a burst touches.                    *)
Data(addr, len) ==
  {q \in Quantity : IF q = "press" THEN Touches(addr, len, B_PRESS, B_PRESS + 2)
                                   ELSE Touches(addr, len, B_TEMP, B_TEMP + 2)}

(* A conversion or a reset of the barometer is asked for or under way.     *)
BaroBusy ==
  \/ baro.pend \/ baro.req
  \/ pc \in {"bdata", "bload", "bstore", "bpend", "bpwr", "bsleep", "bint", "breset"}

(* What a paced DUT promises: it leaves PWR_CTRL and CMD alone until the  *)
(* conversion or reset it asked for is over.                               *)
Kept(f) == f.dev = "baro" /\ f.op \in {"pwr", "cmd"} => ~BaroBusy

(* A write's byte is in the file when it is received, its hook runs later. *)
(* POLL and CMD go back to 0 in the hook and are not represented.          *)
Begin(f) ==
  /\ bus = None /\ nframes < MaxFrames /\ Kept(f)
  /\ bus' = f
  /\ nframes' = nframes + 1
  /\ baro' = CASE f.dev = "baro" /\ f.op = "pwr" ->
                    [baro EXCEPT !.mode = f.val.mode, !.en = f.val.en]
               [] f.dev = "baro" /\ f.op = "int" -> [baro EXCEPT !.inten = f.val]
               [] OTHER -> baro
  /\ mag' = CASE f.dev = "mag" /\ f.op = "cmm" -> [mag EXCEPT !.cont = f.val]
              [] f.dev = "mag" /\ f.op = "ste" -> [mag EXCEPT !.ste = f.val]
              [] f.dev = "mag" /\ f.op = "drc" -> [mag EXCEPT !.drc = f.val]
              [] OTHER -> mag
  /\ IF f.dev = "baro" /\ f.op = "pwr"
     THEN /\ asked' = f.val.mode /\ nconv' = 0
          /\ owed' = IF f.val.mode = "forced" /\ f.val.en # {}
                     THEN owed \union {"forced"} ELSE owed \ {"forced"}
     ELSE UNCHANGED <<asked, nconv, owed>>
  /\ unread' = IF f.dev = "baro" /\ f.op = "read" THEN unread \ Data(f.at.addr, f.at.n)
                                                  ELSE unread
  /\ UNCHANGED <<pc, tmp>>

(* baro_frame on a read, its len overcounting what was read.               *)
BaroRead(f, len) ==
  LET int == Touches(f.at.addr, len, B_INT_STATUS, B_INT_STATUS)
  IN  baro' = [baro EXCEPT
        !.status = @ \ Data(f.at.addr, len),
        !.event = @ /\ ~Touches(f.at.addr, len, B_EVENT, B_EVENT),
        !.int = @ /\ ~int,
        !.pin = @ /\ ~(int /\ baro.inten)]

(* A fault, for the mutants: a forced mode starts no conversion.           *)
IgnoresForced(f) ==
  baro' = IF f.op = "cmd" THEN [baro EXCEPT !.req = TRUE] ELSE baro

(* baro_frame on a write, looking at the register as it is by now.         *)
BaroWrite(f) ==
  baro' = CASE f.op = "pwr" -> [baro EXCEPT !.pend = @ \/ (baro.mode = "forced" /\ baro.en # {})]
            [] f.op = "cmd" -> [baro EXCEPT !.req = TRUE]
            [] OTHER -> baro

(* mag_frame on a read: data-ready clears with the results, if configured. *)
MagRead(f, len) ==
  LET clear == "read" \in mag.drc /\ Touches(f.at.addr, len, M_MEAS, M_MEAS + 8)
  IN  mag' = [mag EXCEPT !.status = @ /\ ~clear, !.pin = @ /\ ~clear]

(* A fault, for the mutants: no single shot in continuous mode.            *)
MagWriteKeeps(f) ==
  LET clear == "write" \in mag.drc
      test == f.op = "poll" /\ mag.ste
  IN  /\ mag' = [mag EXCEPT
           !.status = (@ /\ ~clear) \/ test,
           !.pin = (@ /\ ~clear) \/ test,
           !.pend = @ \/ (f.op = "poll" /\ ~test /\ ~mag.cont)]
      /\ owed' = IF f.op # "poll" THEN owed
                 ELSE IF test THEN owed \ {"poll"} ELSE owed \union {"poll"}

(* mag_frame on a write: data-ready clears with any, if configured; a POLL *)
(* requests a measurement, or runs the self test at once.                  *)
MagWrite(f) ==
  LET clear == "write" \in mag.drc
      test == f.op = "poll" /\ mag.ste
  IN  /\ mag' = [mag EXCEPT
           !.status = (@ /\ ~clear) \/ test,
           !.pin = (@ /\ ~clear) \/ test,
           !.pend = @ \/ (f.op = "poll" /\ ~test)]
      /\ owed' = IF f.op # "poll" THEN owed
                 ELSE IF test THEN owed \ {"poll"} ELSE owed \union {"poll"}

End ==
  /\ bus # None
  /\ bus' = None
  /\ LET f == bus
     IN  \/ /\ f.dev = "baro" /\ f.op = "read"
            /\ \E extra \in 0 .. Prefetch : BaroRead(f, f.at.n + extra)
            /\ UNCHANGED <<mag, owed>>
         \/ f.dev = "baro" /\ f.op # "read" /\ BaroWrite(f) /\ UNCHANGED <<mag, owed>>
         \/ /\ f.dev = "mag" /\ f.op = "read"
            /\ \E extra \in 0 .. Prefetch : MagRead(f, f.at.n + extra)
            /\ UNCHANGED <<baro, owed>>
         \/ f.dev = "mag" /\ f.op # "read" /\ MagWrite(f) /\ UNCHANGED baro
  /\ UNCHANGED <<pc, tmp, unread, asked, nconv, nframes>>

------------------------------------------------------------------------------
(* The thread: main.c's sampler and sensors_poll. *)

(* baro_rate_hz() # 0 and the test that opens mag_commit.                  *)
BaroDue == baro.pend \/ (baro.mode = "normal" /\ baro.en # {})
MagDue == mag.pend \/ mag.cont

Sample ==
  /\ pc = "idle"
  /\ \/ BaroDue /\ pc' = "bdata"
     \/ MagDue /\ pc' = "mdata"
  /\ UNCHANGED <<baro, mag, bus, tmp, unread, asked, nconv, owed, nframes>>

(* A fault, for the mutants: the barometer commits while selected.         *)
RefusedForMag == pc = "mdata" /\ bus.dev = "mag"

(* spidev_commit refused; main.c drops the sample.                         *)
Refused ==
  \/ pc = "bdata" /\ bus.dev = "baro"
  \/ pc = "mdata" /\ bus.dev = "mag"

CommitRefused ==
  /\ Refused
  /\ pc' = "idle"
  /\ UNCHANGED <<baro, mag, bus, tmp, unread, asked, nconv, owed, nframes>>

BaroData ==
  /\ pc = "bdata" /\ ~Refused
  /\ unread' = baro.en
  /\ nconv' = IF nconv = 0 THEN 1 ELSE 2
  /\ pc' = "bload"
  /\ UNCHANGED <<baro, mag, bus, tmp, asked, owed, nframes>>

(* B_STATUS |= the enabled quantities: a load, then a store.               *)
BaroStatusLoad ==
  /\ pc = "bload"
  /\ tmp' = baro.status \union baro.en
  /\ pc' = "bstore"
  /\ UNCHANGED <<baro, mag, bus, unread, asked, nconv, owed, nframes>>

BaroStatusStore ==
  /\ pc = "bstore"
  /\ baro' = [baro EXCEPT !.status = tmp]
  /\ owed' = owed \ {"forced"}
  /\ tmp' = {}
  /\ pc' = "bpend"
  /\ UNCHANGED <<mag, bus, unread, asked, nconv, nframes>>

(* A forced conversion is done: the request goes, and PWR_CTRL &= ~0x30,   *)
(* again a load and a store, drops the part back to sleep.                 *)
BaroPend ==
  /\ pc = "bpend"
  /\ baro' = [baro EXCEPT !.pend = FALSE]
  /\ pc' = IF baro.pend THEN "bpwr" ELSE "bint"
  /\ UNCHANGED <<mag, bus, tmp, unread, asked, nconv, owed, nframes>>

BaroPwrLoad ==
  /\ pc = "bpwr"
  /\ tmp' = baro.en
  /\ pc' = "bsleep"
  /\ UNCHANGED <<baro, mag, bus, unread, asked, nconv, owed, nframes>>

(* A fault, for the mutants: the mode stays forced after the sample.       *)
BaroStaysForced ==
  /\ pc = "bsleep"
  /\ baro' = [baro EXCEPT !.en = tmp]
  /\ tmp' = {}
  /\ pc' = "bint"
  /\ UNCHANGED <<mag, bus, unread, asked, nconv, owed, nframes>>

BaroSleep ==
  /\ pc = "bsleep"
  /\ baro' = [baro EXCEPT !.mode = "sleep", !.en = tmp]
  /\ tmp' = {}
  /\ pc' = "bint"
  /\ UNCHANGED <<mag, bus, unread, asked, nconv, owed, nframes>>

BaroInt ==
  /\ pc = "bint"
  /\ baro' = IF baro.inten THEN [baro EXCEPT !.int = TRUE, !.pin = TRUE, !.armed = TRUE]
                           ELSE baro
  /\ pc' = "idle"
  /\ UNCHANGED <<mag, bus, tmp, unread, asked, nconv, owed, nframes>>

MagData ==
  /\ pc = "mdata" /\ ~Refused
  /\ pc' = "mclear"
  /\ UNCHANGED <<baro, mag, bus, tmp, unread, asked, nconv, owed, nframes>>

MagClear ==
  /\ pc = "mclear"
  /\ mag' = [mag EXCEPT !.pend = FALSE]
  /\ pc' = "mset"
  /\ UNCHANGED <<baro, bus, tmp, unread, asked, nconv, owed, nframes>>

MagSet ==
  /\ pc = "mset"
  /\ mag' = [mag EXCEPT !.status = TRUE, !.pin = TRUE, !.armed = TRUE]
  /\ owed' = owed \ {"poll"}
  /\ pc' = "idle"
  /\ UNCHANGED <<baro, bus, tmp, unread, asked, nconv, nframes>>

(* sensors_poll: the reset's flag goes first, the file next; the pending   *)
(* conversion is neither a register nor reset.                             *)
PollReset ==
  /\ pc = "idle" /\ baro.req
  /\ baro' = [baro EXCEPT !.req = FALSE]
  /\ pc' = "breset"
  /\ UNCHANGED <<mag, bus, tmp, unread, asked, nconv, owed, nframes>>

BaroReset ==
  /\ pc = "breset"
  /\ baro' = [baro EXCEPT !.mode = "sleep", !.en = {}, !.status = {"cmd"}, !.event = TRUE,
                          !.int = FALSE, !.inten = FALSE]
  /\ unread' = {} /\ asked' = "sleep" /\ nconv' = 0 /\ owed' = owed \ {"forced"}
  /\ pc' = "idle"
  /\ UNCHANGED <<mag, bus, tmp, nframes>>

(* sensors_poll, 300 us after a pin was raised.                            *)
Release ==
  /\ pc = "idle"
  /\ \/ /\ baro.armed
        /\ baro' = [baro EXCEPT !.armed = FALSE, !.pin = @ /\ ~baro.inten]
        /\ UNCHANGED mag
     \/ /\ mag.armed
        /\ mag' = [mag EXCEPT !.armed = FALSE, !.pin = FALSE]
        /\ UNCHANGED baro
  /\ UNCHANGED <<bus, pc, tmp, unread, asked, nconv, owed, nframes>>

------------------------------------------------------------------------------

(* The registers after sensors_init.                                       *)
Init ==
  /\ baro = [mode |-> "sleep", en |-> {}, status |-> {"cmd"}, event |-> TRUE, int |-> FALSE,
             inten |-> FALSE, pend |-> FALSE, req |-> FALSE, pin |-> FALSE, armed |-> FALSE]
  /\ mag = [cont |-> FALSE, ste |-> FALSE, drc |-> {"write", "read"}, status |-> FALSE,
            pend |-> FALSE, pin |-> FALSE, armed |-> FALSE]
  /\ bus = None /\ pc = "idle" /\ tmp = {}
  /\ unread = {} /\ asked = "sleep" /\ nconv = 0 /\ owed = {}
  /\ nframes = 0

Commit == \/ CommitRefused
          \/ BaroData \/ BaroStatusLoad \/ BaroStatusStore \/ BaroPend
          \/ BaroPwrLoad \/ BaroSleep \/ BaroInt
          \/ MagData \/ MagClear \/ MagSet

Poll == PollReset \/ BaroReset \/ Release

Next == Sample \/ Commit \/ Poll \/ End \/ \E f \in Frames : Begin(f)

Spec == Init /\ [][Next]_vars

SampleBaro == Sample /\ pc' = "bdata"
SampleMag == Sample /\ pc' = "mdata"

(* The master ends its frames and the thread never stops; a configured     *)
(* sensor is sampled again and again, and not for ever at a moment when it *)
(* is selected.                                                            *)
Fairness ==
  /\ WF_vars(End) /\ WF_vars(Commit) /\ WF_vars(BaroReset)
  /\ SF_vars(PollReset) /\ SF_vars(Release)
  /\ SF_vars(SampleBaro) /\ SF_vars(SampleMag)
  /\ SF_vars(BaroData) /\ SF_vars(MagData)

FairSpec == Spec /\ Fairness

------------------------------------------------------------------------------

(* Every variable stays in its type; the barometer's cmd_rdy bit is always *)
(* set, it executes commands at once.                                      *)
TypeOK ==
  /\ baro \in [mode : Mode, en : SUBSET Quantity, status : SUBSET (Quantity \union {"cmd"}),
               event : BOOLEAN, int : BOOLEAN, inten : BOOLEAN, pend : BOOLEAN,
               req : BOOLEAN, pin : BOOLEAN, armed : BOOLEAN]
  /\ mag \in [cont : BOOLEAN, ste : BOOLEAN, drc : SUBSET {"write", "read"},
              status : BOOLEAN, pend : BOOLEAN, pin : BOOLEAN, armed : BOOLEAN]
  /\ bus = None \/ bus \in Frames
  /\ pc \in {"idle", "bdata", "bload", "bstore", "bpend", "bpwr", "bsleep", "bint",
             "mdata", "mclear", "mset", "breset"}
  /\ "cmd" \in baro.status
  /\ tmp \subseteq Quantity \union {"cmd"} /\ unread \subseteq Quantity
  /\ asked \in Mode /\ nconv \in 0 .. 2 /\ owed \subseteq {"forced", "poll"}
  /\ nframes \in 0 .. MaxFrames

(* A forced write runs exactly one conversion and the part is asleep again *)
(* after it (baro_frame: "exactly ONE conversion and the part drops back   *)
(* to sleep by itself").                                                   *)
ForcedOnce ==
  asked = "forced" /\ ~BaroBusy /\ bus = None =>
    /\ baro.mode = IF baro.en = {} THEN "forced" ELSE "sleep"
    /\ nconv = IF baro.en = {} THEN 0 ELSE 1

(* A sample the DUT has not read is announced in STATUS once its commit is *)
(* over, so a driver that waits for data-ready gets each one.              *)
UnreadAnnounced == ~BaroBusy => unread \subseteq baro.status

(* A single shot the DUT asks for is answered: STATUS is raised after the  *)
(* request, by a new sample or by the one just being committed.            *)
ForcedAnswered == "forced" \in owed ~> "forced" \notin owed
PollAnswered == "poll" \in owed ~> "poll" \notin owed
Answered == ForcedAnswered /\ PollAnswered
=============================================================================
