------------------------------ MODULE ImuFifo ------------------------------
(***************************************************************************)
(* The two halves of the emulated BMI088 (src/src/sensors.c): the accel    *)
(* and gyro FIFOs behind their drain ports, the data-ready status and pin, *)
(* and the deferred soft reset.  The frame hooks run in the group-0        *)
(* handlers and preempt the thread, which runs sensors_poll and the        *)
(* commits; a commit's register update is one spidev_apply (module         *)
(* SpiSlave), so it is one step, refused while the device is selected.     *)
(* A FIFO holds the numbers of the samples in it; pin levels are taken     *)
(* relative to the configured polarity.                                    *)
(***************************************************************************)
EXTENDS Integers, Sequences, FiniteSets

CONSTANTS
  Accel, Gyro,
  Capacity,    \* Capacity[d]: frames the FIFO buffer holds
  FrameSize,   \* FrameSize[d]: bytes of a frame
  Prefix,      \* Prefix[d]: registers below the port a drain may start at
  Prefetch,    \* bytes a hook's len may overcount (TX FIFO and shifter)
  Bytes,       \* what a drain may read from the port
  MaxSamples,  \* bound: frames offered to a FIFO
  MaxFrames,   \* bound: frames of the master
  Assume       \* what the DUT is assumed to do, see Promises

Dev == {Accel, Gyro}

Promises == {"waits",  \* a device is left alone until its soft reset is done
             "whole",  \* a drain reads whole frames, as many as are announced
             "mapped"} \* once mapped, the data-ready pin stays mapped

ASSUME ImuAssumption ==
  /\ Accel # Gyro
  /\ Capacity \in [Dev -> Nat \ {0}] /\ FrameSize \in [Dev -> Nat \ {0}]
  /\ Prefix \in [Dev -> Nat] /\ Prefix[Gyro] = 0 /\ Prefetch \in Nat
  /\ \A d \in Dev : Prefetch < FrameSize[d]
  /\ Bytes \subseteq Nat /\ MaxSamples \in Nat /\ MaxFrames \in Nat
  /\ Assume \subseteq Promises

VARIABLES
  fifo,     \* fifo[d]: the frames from the buffer's head to the fill mark
  cfg,      \* cfg[d]: the configuration registers, see Config
  count,    \* count[d]: the announced fill, FIFO_LENGTH resp. FIFO_STATUS[6:0]
  mirror,   \* accel_fifo.len, the copy ahead of the accel's buffer
  over,     \* the gyro's FIFO_STATUS overrun bit
  fresh,    \* the accel's STATUS drdy_acc
  stat,     \* stat[d]: INT_STAT_1
  pin,      \* pin[d]: the DRDY pin is asserted
  armed,    \* armed[d]: *_drdy_armed
  req,      \* req[d]: *_reset_req
  bus,      \* the frame on the bus, None between frames
  thr,      \* where the thread is, and with which device
  bias,     \* the gyro's bias walk: finite, or infinite for good
  made,     \* made[d]: frames offered to the FIFO so far
  got,      \* got[d]: frames the DUT took from its drains
  lost,     \* lost[d]: frames dropped at full, or cleared with the FIFO
  nframes   \* frames of the master so far (bound)

regs  == <<cfg, count, mirror, over, fresh, stat>>
ghost == <<made, got, lost>>
vars  == <<fifo, regs, pin, armed, req, bus, thr, bias, ghost, nframes>>

(* on: a sample rate is configured; fifo: frames flow into the FIFO;       *)
(* en, map: data-ready is enabled, and mapped to the pin.                  *)
Config == [on : BOOLEAN, fifo : BOOLEAN, en : BOOLEAN, map : BOOLEAN]
Default(d) == [on |-> d = Gyro, fifo |-> FALSE, en |-> FALSE, map |-> FALSE]

(* The frames of the master: a drain that starts early registers below the *)
(* port and reads bytes from it, the reads that clear (only the accel's),  *)
(* a configuration write, or 0xB6 into SOFTRESET.                          *)
Frames(d) ==
  [op : {"drain"}, early : {0, Prefix[d]}, bytes : Bytes]
    \union [op : IF d = Accel THEN {"data", "int", "reset"} ELSE {"reset"}]
    \union [op : {"write"}, reg : {"on", "fifo", "en", "map"}, val : BOOLEAN]

None == [dev |-> "none"]

Least(a, b) == IF a < b THEN a ELSE b

------------------------------------------------------------------------------
(* The master and the engine: select and bytes, then deselect and hook.    *)

Resetting(d) == req[d] \/ (thr.pc \in {"regs", "fill"} /\ thr.dev = d)

Kept(d, f) ==
  /\ "waits" \in Assume => ~Resetting(d)
  /\ "whole" \in Assume /\ f.op = "drain" =>
       \E k \in 0 .. count[d] : f.bytes = k * FrameSize[d]
  /\ "mapped" \in Assume /\ cfg[d].map =>
       f.op # "reset" /\ (f.op = "write" => f.reg # "map")

(* The frames the DUT takes from a drain: those it reads in full, of those *)
(* announced, by the mirror when the burst carries it.                     *)
Taken(d, f) ==
  LET told == IF f.early = 0 THEN count[d] ELSE mirror
      k == Least(f.bytes \div FrameSize[d], told)
  IN  [i \in 1 .. k |-> IF i <= Len(fifo[d]) THEN fifo[d][i] ELSE 0]

(* The select, and the stores of a write: the engine does them at once.    *)
Begin(d, f) ==
  /\ bus = None /\ nframes < MaxFrames
  /\ Kept(d, f)
  /\ bus' = [dev |-> d, frame |-> f,
             took |-> IF f.op = "drain" THEN Taken(d, f) ELSE <<>>]
  /\ cfg' = IF f.op = "write" THEN [cfg EXCEPT ![d][f.reg] = f.val] ELSE cfg
  /\ nframes' = nframes + 1
  /\ UNCHANGED <<fifo, count, mirror, over, fresh, stat, pin, armed, req, thr, bias, ghost>>

(* A fault, for the mutants: a partly counted frame is popped.             *)
PopUp(d, len) ==
  LET k == Least((len + FrameSize[d] - 1) \div FrameSize[d], Len(fifo[d]))
  IN  SubSeq(fifo[d], k + 1, Len(fifo[d]))

(* fifo_pop: whole frames off the head, as many as len covers.             *)
Pop(d, len) ==
  LET k == Least(len \div FrameSize[d], Len(fifo[d]))
  IN  SubSeq(fifo[d], k + 1, Len(fifo[d]))

(* A fault, for the mutants: the registers are not synchronised.           *)
NoSync(d, content) ==
  /\ fifo' = [fifo EXCEPT ![d] = content]
  /\ UNCHANGED <<count, mirror>>

(* A FIFO takes its new content and announces it: accel_fifo_sync and      *)
(* gyro_fifo_sync.                                                         *)
Refill(d, content) ==
  /\ fifo' = [fifo EXCEPT ![d] = content]
  /\ count' = [count EXCEPT ![d] = Len(content)]
  /\ mirror' = IF d = Accel THEN Len(content) ELSE mirror

(* accel_frame and gyro_frame on a drain; len counts the registers below   *)
(* the port, and up to Prefetch bytes too many.  An accel burst that stays *)
(* below the port, by that count, is no drain.                             *)
EndDrain(d, f) ==
  /\ f.op = "drain"
  /\ \E extra \in 0 .. Prefetch :
       LET len == f.early + f.bytes + extra
       IN  IF d = Accel /\ len <= f.early
           THEN UNCHANGED <<fifo, count, mirror>>
           ELSE Refill(d, Pop(d, len - f.early))
  /\ got' = [got EXCEPT ![d] = @ \o bus.took]
  /\ UNCHANGED <<cfg, over, fresh, stat, pin, req, made, lost>>

(* accel_frame on reads of the data and of the interrupt status.           *)
EndRead(d, f) ==
  /\ f.op \in {"data", "int"}
  /\ fresh' = (fresh /\ f.op # "data")
  /\ stat' = [stat EXCEPT ![d] = @ /\ f.op # "int"]
  /\ pin' = [pin EXCEPT ![d] = @ /\ ~(f.op = "int" /\ cfg[d].map)]
  /\ UNCHANGED <<fifo, cfg, count, mirror, over, req, ghost>>

(* A write of the FIFO configuration clears the FIFO and the overrun.      *)
EndWrite(d, f) ==
  /\ f.op = "write"
  /\ IF f.reg = "fifo"
     THEN /\ Refill(d, <<>>)
          /\ over' = IF d = Gyro THEN FALSE ELSE over
          /\ lost' = [lost EXCEPT ![d] = @ \union {fifo[d][i] : i \in DOMAIN fifo[d]}]
     ELSE UNCHANGED <<fifo, count, mirror, over, lost>>
  /\ UNCHANGED <<cfg, fresh, stat, pin, req, made, got>>

EndReset(d, f) ==
  /\ f.op = "reset"
  /\ req' = [req EXCEPT ![d] = TRUE]
  /\ UNCHANGED <<fifo, regs, pin, ghost>>

End ==
  /\ bus # None
  /\ LET d == bus.dev
         f == bus.frame
     IN  EndDrain(d, f) \/ EndRead(d, f) \/ EndWrite(d, f) \/ EndReset(d, f)
  /\ bus' = None
  /\ UNCHANGED <<armed, thr, bias, nframes>>

------------------------------------------------------------------------------
(* The thread. *)

Idle == [pc |-> "idle"]

(* sensors_poll: the flag is cleared first, then the file is rebuilt.      *)
PollReset(d) ==
  /\ thr = Idle /\ req[d]
  /\ req' = [req EXCEPT ![d] = FALSE]
  /\ thr' = [pc |-> "regs", dev |-> d]
  /\ UNCHANGED <<fifo, regs, pin, armed, bus, bias, ghost, nframes>>

(* accel_reset and gyro_reset, with interrupts on; the fill mark is last.  *)
ResetRegs ==
  /\ thr.pc = "regs"
  /\ LET d == thr.dev
     IN  /\ cfg' = [cfg EXCEPT ![d] = Default(d)]
         /\ count' = [count EXCEPT ![d] = 0]
         /\ stat' = [stat EXCEPT ![d] = FALSE]
         /\ over' = IF d = Gyro THEN FALSE ELSE over
         /\ fresh' = IF d = Accel THEN FALSE ELSE fresh
         /\ thr' = [pc |-> "fill", dev |-> d]
  /\ UNCHANGED <<fifo, mirror, pin, armed, req, bus, bias, ghost, nframes>>

ResetFill ==
  /\ thr.pc = "fill"
  /\ LET d == thr.dev
     IN  /\ fifo' = [fifo EXCEPT ![d] = <<>>]
         /\ lost' = [lost EXCEPT ![d] = @ \union {fifo[d][i] : i \in DOMAIN fifo[d]}]
  /\ thr' = Idle
  /\ UNCHANGED <<regs, pin, armed, req, bus, bias, made, got, nframes>>

(* A fault, for the mutants: the enable is tested in place of the map.     *)
ReleaseIfEnabled(d) ==
  /\ thr = Idle /\ armed[d]
  /\ armed' = [armed EXCEPT ![d] = FALSE]
  /\ stat' = [stat EXCEPT ![d] = FALSE]
  /\ pin' = [pin EXCEPT ![d] = @ /\ ~cfg[d].en]
  /\ UNCHANGED <<fifo, cfg, count, mirror, over, fresh, req, bus, thr, bias, ghost, nframes>>

(* sensors_poll, 300 us after the pin was asserted.                        *)
Release(d) ==
  /\ thr = Idle /\ armed[d]
  /\ armed' = [armed EXCEPT ![d] = FALSE]
  /\ stat' = [stat EXCEPT ![d] = FALSE]
  /\ pin' = [pin EXCEPT ![d] = @ /\ ~cfg[d].map]
  /\ UNCHANGED <<fifo, cfg, count, mirror, over, fresh, req, bus, thr, bias, ghost, nframes>>

(* The main loop finds a sample due: a rate is configured.                 *)
Due(d) ==
  /\ thr = Idle /\ cfg[d].on /\ made[d] < MaxSamples
  /\ thr' = [pc |-> "sample", dev |-> d]
  /\ UNCHANGED <<fifo, regs, pin, armed, req, bus, bias, ghost, nframes>>

(* sample_gyro and sample_accel.  The gyro's walk divides by the rate as   *)
(* it is by now.                                                           *)
Sample ==
  /\ thr.pc = "sample"
  /\ bias' = IF thr.dev = Gyro /\ ~cfg[Gyro].on THEN "infinite" ELSE bias
  /\ thr' = [thr EXCEPT !.pc = "commit"]
  /\ UNCHANGED <<fifo, regs, pin, armed, req, bus, ghost, nframes>>

(* accel_commit and gyro_commit: the rate check, the locked update, then   *)
(* data-ready with interrupts on.                                          *)
Commit ==
  /\ thr.pc = "commit"
  /\ thr' = IF cfg[thr.dev].on THEN [thr EXCEPT !.pc = "apply"] ELSE Idle
  /\ UNCHANGED <<fifo, regs, pin, armed, req, bus, bias, ghost, nframes>>

Refused ==
  /\ thr.pc = "apply" /\ bus.dev = thr.dev
  /\ thr' = Idle
  /\ UNCHANGED <<fifo, regs, pin, armed, req, bus, bias, ghost, nframes>>

(* A fault, for the mutants: the overrun is not reported.                  *)
SilentOffer(d) ==
  /\ made' = [made EXCEPT ![d] = @ + 1]
  /\ IF Len(fifo[d]) < Capacity[d]
     THEN /\ Refill(d, Append(fifo[d], made[d] + 1))
          /\ UNCHANGED <<over, lost>>
     ELSE /\ lost' = [lost EXCEPT ![d] = @ \union {made[d] + 1}]
          /\ UNCHANGED <<fifo, count, mirror, over>>

(* The FIFO half of accel_apply and gyro_apply; at full the frame is       *)
(* dropped, which only the gyro reports.                                   *)
Offer(d) ==
  /\ made' = [made EXCEPT ![d] = @ + 1]
  /\ IF Len(fifo[d]) < Capacity[d]
     THEN /\ Refill(d, Append(fifo[d], made[d] + 1))
          /\ UNCHANGED <<over, lost>>
     ELSE /\ over' = (over \/ d = Gyro)
          /\ lost' = [lost EXCEPT ![d] = @ \union {made[d] + 1}]
          /\ UNCHANGED <<fifo, count, mirror>>

Apply ==
  /\ thr.pc = "apply" /\ bus.dev # thr.dev
  /\ LET d == thr.dev
     IN  /\ fresh' = (fresh \/ d = Accel)
         /\ IF cfg[d].fifo
            THEN Offer(d)
            ELSE UNCHANGED <<fifo, count, mirror, over, made, lost>>
         /\ thr' = [pc |-> "drdy", dev |-> d]
  /\ UNCHANGED <<cfg, stat, pin, armed, req, bus, bias, got, nframes>>

(* The accel latches its status always and arms the release with the pin;  *)
(* the gyro does both only when data-ready is enabled.                     *)
Drdy ==
  /\ thr.pc = "drdy"
  /\ LET d == thr.dev
         c == cfg[d]
     IN  /\ stat' = [stat EXCEPT ![d] = @ \/ d = Accel \/ c.en]
         /\ armed' = [armed EXCEPT ![d] = @ \/ (c.en /\ (c.map \/ d = Gyro))]
         /\ pin' = [pin EXCEPT ![d] = @ \/ (c.en /\ c.map)]
  /\ thr' = Idle
  /\ UNCHANGED <<fifo, cfg, count, mirror, over, fresh, req, bus, bias, ghost, nframes>>

------------------------------------------------------------------------------

Init ==
  /\ fifo = [d \in Dev |-> <<>>]
  /\ cfg = [d \in Dev |-> Default(d)]
  /\ count = [d \in Dev |-> 0] /\ mirror = 0
  /\ over = FALSE /\ fresh = FALSE
  /\ stat = [d \in Dev |-> FALSE]
  /\ pin = [d \in Dev |-> FALSE]
  /\ armed = [d \in Dev |-> FALSE]
  /\ req = [d \in Dev |-> FALSE]
  /\ bus = None /\ thr = Idle /\ bias = "finite"
  /\ made = [d \in Dev |-> 0] /\ got = [d \in Dev |-> <<>>]
  /\ lost = [d \in Dev |-> {}]
  /\ nframes = 0

Thread ==
  \/ \E d \in Dev : PollReset(d) \/ Release(d) \/ Due(d)
  \/ ResetRegs \/ ResetFill \/ Sample \/ Commit \/ Refused \/ Apply \/ Drdy

Next == Thread \/ End \/ \E d \in Dev : \E f \in Frames(d) : Begin(d, f)

Spec == Init /\ [][Next]_vars

------------------------------------------------------------------------------

(* Every variable stays in its type, no FIFO beyond its buffer.            *)
TypeOK ==
  /\ fifo \in [Dev -> Seq(1 .. MaxSamples)]
  /\ \A d \in Dev : Len(fifo[d]) <= Capacity[d]
  /\ cfg \in [Dev -> Config]
  /\ count \in [Dev -> Nat] /\ mirror \in Nat
  /\ over \in BOOLEAN /\ fresh \in BOOLEAN
  /\ stat \in [Dev -> BOOLEAN] /\ pin \in [Dev -> BOOLEAN]
  /\ armed \in [Dev -> BOOLEAN] /\ req \in [Dev -> BOOLEAN]
  /\ bus = None \/ bus.dev \in Dev
  /\ thr = Idle \/ thr.dev \in Dev
  /\ bias \in {"finite", "infinite"}
  /\ made \in [Dev -> 0 .. MaxSamples]
  /\ got \in [Dev -> Seq(Nat)] /\ lost \in [Dev -> SUBSET (1 .. MaxSamples)]
  /\ nframes \in 0 .. MaxFrames

(* Every frame offered is exactly once in one place: taken by the DUT, in  *)
(* order, still in the FIFO, or lost to a full FIFO, a clear or a reset.   *)
(* The pop takes no frame the DUT did not read, and leaves none it did     *)
(* (sensors.c: "exact whenever the master reads whole-frame multiples").   *)
(* What is announced is what is there, whenever the reset is not clearing  *)
(* the registers and the fill mark (accel_fifo_sync, gyro_fifo_sync).      *)
FramesAccounted ==
  \A d \in Dev :
    LET all == got[d] \o fifo[d]
    IN  /\ \A i, j \in DOMAIN all : i < j => all[i] < all[j]
        /\ {all[i] : i \in DOMAIN all} \intersect lost[d] = {}
        /\ {all[i] : i \in DOMAIN all} \union lost[d] = 1 .. made[d]
        /\ thr # [pc |-> "fill", dev |-> d] => count[d] = Len(fifo[d])

(* A gap in the gyro's samples never goes unreported: without the overrun  *)
(* bit the FIFO holds consecutive samples, up to the newest one made       *)
(* (sensors.c: "at full the FIFO_STATUS overrun bit is raised").           *)
NoSilentGap ==
  LET q == fifo[Gyro]
  IN  ~over /\ thr # [pc |-> "fill", dev |-> Gyro] =>
        \A i \in DOMAIN q : q[i] = made[Gyro] - Len(q) + i

(* Data-ready is a pulse: a pin still asserted will be released, the next  *)
(* sensors_poll 300 us later finds it armed and mapped (sensors.c: "the    *)
(* pin must re-pulse on every commit").                                    *)
PulseEnds == \A d \in Dev : pin[d] => armed[d] /\ cfg[d].map

------------------------------------------------------------------------------

(* The gyro's bias is "a per-boot turn-on bias plus an in-run bias that     *)
(* random-walks", 0.002 deg/s per sqrt(s) (main.c): it stays a number.      *)
BiasFinite == bias = "finite"
=============================================================================
