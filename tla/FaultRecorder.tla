--------------------------- MODULE FaultRecorder ---------------------------
(***************************************************************************)
(* The post-mortem of src/src/nlib/fault.c: a fault, a stray interrupt or  *)
(* an assert writes a record into RAM that survives a reset, and the next  *)
(* boot prints it and marks it consumed.  A crash may come while an older  *)
(* record waits or is being printed, a reset or a loss of power at any     *)
(* moment.  Crashes are numbered; a field holds the number of the crash    *)
(* that wrote it, 0 for what the RAM held at power up.                     *)
(***************************************************************************)
EXTENDS Integers, FiniteSets

CONSTANTS
  MaxCrashes,  \* bound: crashes
  MaxResets    \* bound: presses of the reset button and losses of power

Kind == {"fault", "assert", "stray"}

VARIABLES
  at,       \* where the program is
  level,    \* of the capture: thread, UsageFault, HardFault
  step,     \* of the capture, next to be done
  kind,     \* of the crash being captured
  rec,      \* crashdump
  crashes,  \* crashes so far
  resets,   \* presses and losses so far
  shown,    \* the last report printed to its END
  consumed, \* crashes whose report was marked consumed
  captured  \* the last crash captured to its end, 0 without power since

vars == <<at, level, step, kind, rec, crashes, resets, shown, consumed, captured>>

Running == {"boot", "report", "printed", "run"}

(* What a report prints of the record.                                     *)
Printed == [kind |-> rec.kind, context |-> rec.context, lr |-> rec.lr,
            cause |-> rec.cause[rec.kind], trace |-> rec.trace]

------------------------------------------------------------------------------

(* RAM at power up does not hold the magic number.                         *)
Cold == [magic |-> FALSE, kind |-> "fault", context |-> 0, lr |-> 0,
         cause |-> [k \in Kind |-> 0], trace |-> 0]

(* Reset_Handler, up to fault_report: prints when the record is valid.     *)
Boot ==
  /\ at = "boot"
  /\ at' = IF rec.magic THEN "report" ELSE "run"
  /\ UNCHANGED <<level, step, kind, rec, crashes, resets, shown, consumed, captured>>

(* The report is out, to its END ...                                       *)
Report ==
  /\ at = "report" /\ at' = "printed"
  /\ shown' = Printed
  /\ UNCHANGED <<level, step, kind, rec, crashes, resets, consumed, captured>>

(* A fault, for the mutants: the record stays valid.                       *)
ConsumeNothing ==
  /\ at = "printed" /\ at' = "run"
  /\ consumed' = consumed \union {shown.context}
  /\ UNCHANGED <<level, step, kind, rec, crashes, resets, shown, captured>>

(* ... and the record is no longer valid.                                  *)
Consume ==
  /\ at = "printed" /\ at' = "run"
  /\ rec' = [rec EXCEPT !.magic = FALSE]
  /\ consumed' = consumed \union {shown.context}
  /\ UNCHANGED <<level, step, kind, crashes, resets, shown, captured>>

------------------------------------------------------------------------------

(* A crash: only UsageFault has a level of its own, the other faults are   *)
(* HardFaults; an assert stays where it is.                                *)
Crash(k) ==
  /\ at \in Running /\ crashes < MaxCrashes
  /\ at' = "capture" /\ step' = 1 /\ kind' = k /\ crashes' = crashes + 1
  /\ level' \in CASE k = "fault" -> {"usage", "hard"} [] k = "stray" -> {"usage"}
                  [] k = "assert" -> {"thread"}
  /\ UNCHANGED <<rec, resets, shown, consumed, captured>>

(* The stacked pc, lr and psr and the stack pointer; an assert takes the   *)
(* pc of its caller and the stack pointer.                                 *)
CaptureContext ==
  rec' = IF kind = "assert" THEN [rec EXCEPT !.context = crashes]
                            ELSE [rec EXCEPT !.context = crashes, !.lr = crashes]

(* The kind and what belongs to it: the fault status registers, the        *)
(* interrupt's number, or file, line and expression.                       *)
CaptureCause == rec' = [rec EXCEPT !.kind = kind, !.cause[kind] = crashes]

(* A fault, for the mutants: an assert has no exception frame to scan from.*)
CaptureTraceFaults ==
  rec' = IF kind = "assert" THEN rec ELSE [rec EXCEPT !.trace = crashes]

(* The return addresses found on the stack.                                *)
CaptureTrace == rec' = [rec EXCEPT !.trace = crashes]

(* crash_from_fault and __assert_func, which write cause and context in    *)
(* opposite orders.                                                        *)
Capture ==
  /\ at = "capture" /\ step <= 3 /\ step' = step + 1
  /\ CASE step = 1 -> IF kind = "assert" THEN CaptureCause ELSE CaptureContext
       [] step = 2 -> IF kind = "assert" THEN CaptureContext ELSE CaptureCause
       [] step = 3 -> CaptureTrace
  /\ UNCHANGED <<at, level, kind, crashes, resets, shown, consumed, captured>>

(* A fault, for the mutants: the reset comes without the magic number.     *)
FinishUnmarked ==
  /\ at = "capture" /\ step = 4
  /\ at' \in {"boot", "halted"} /\ captured' = crashes
  /\ UNCHANGED <<level, step, kind, rec, crashes, resets, shown, consumed>>

(* crash_finish: the record is valid; a debugger stops here, else reset.   *)
Finish ==
  /\ at = "capture" /\ step = 4
  /\ at' \in {"boot", "halted"}
  /\ rec' = [rec EXCEPT !.magic = TRUE] /\ captured' = crashes
  /\ UNCHANGED <<level, step, kind, crashes, resets, shown, consumed>>

(* The debugger goes on.                                                   *)
Resume ==
  /\ at = "halted" /\ at' = "boot"
  /\ UNCHANGED <<level, step, kind, rec, crashes, resets, shown, consumed, captured>>

(* A fault within a capture starts the capture of a HardFault, within that *)
(* one it locks the processor up.                                          *)
Refault ==
  /\ at = "capture" /\ level # "hard" /\ crashes < MaxCrashes
  /\ level' = "hard" /\ step' = 1 /\ kind' = "fault" /\ crashes' = crashes + 1
  /\ UNCHANGED <<at, rec, resets, shown, consumed, captured>>

Lockup ==
  /\ at = "capture" /\ level = "hard"
  /\ at' = "lockup"
  /\ UNCHANGED <<level, step, kind, rec, crashes, resets, shown, consumed, captured>>

------------------------------------------------------------------------------

(* The reset button.                                                       *)
Press ==
  /\ at # "off"
  /\ resets < MaxResets /\ resets' = resets + 1
  /\ at' = "boot"
  /\ UNCHANGED <<level, step, kind, rec, crashes, shown, consumed, captured>>

PowerOff ==
  /\ at # "off" /\ resets < MaxResets /\ resets' = resets + 1
  /\ at' = "off"
  /\ UNCHANGED <<level, step, kind, rec, crashes, shown, consumed, captured>>

PowerOn ==
  /\ at = "off" /\ at' = "boot"
  /\ rec' = Cold /\ captured' = 0
  /\ UNCHANGED <<level, step, kind, crashes, resets, shown, consumed>>

Init ==
  /\ at = "boot" /\ level = "thread" /\ step = 1 /\ kind = "fault"
  /\ rec = Cold /\ shown = Printed
  /\ crashes = 0 /\ resets = 0 /\ consumed = {} /\ captured = 0

Next ==
  \/ Boot \/ Report \/ Consume \/ Capture \/ Finish \/ Resume
  \/ \E k \in Kind : Crash(k)
  \/ Refault \/ Lockup \/ Press \/ PowerOff \/ PowerOn

Spec == Init /\ [][Next]_vars

------------------------------------------------------------------------------

(* A report printed to its END is of a crash not reported before, and      *)
(* speaks of one crash, the last there was, in context, cause and          *)
(* backtrace, whatever older record waited or was being printed when it    *)
(* came (fault.h: "the causal PC/LR + fault cause, and a call-chain");     *)
(* only a capture that was itself cut off may leave less.                  *)
ReportsTrue ==
  at = "printed" =>
    /\ shown.context \notin consumed
    /\ captured = crashes =>
         shown.context = crashes /\ shown.cause = crashes /\ shown.trace = crashes

(* The program never runs on past a captured crash that was not reported,  *)
(* however often the boot is interrupted, unless power was lost (fault.h:  *)
(* "On the next boot, fault_report() prints the record").                  *)
CapturedReported == at = "run" /\ captured = crashes /\ captured # 0 => captured \in consumed
=============================================================================
