------------------------------ MODULE Mavlink ------------------------------
(***************************************************************************)
(* The bench's decoder of the autopilot's stream: it looks for a start     *)
(* byte, believes the length behind it, and checks the sum, in a buffer    *)
(* that is fed in pieces of any size (src/tools/bench/mavlink.go).  The    *)
(* stream may have a gap.  A frame is a start byte, the length of the      *)
(* payload, the flags, the identifier, the payload and the checksum, of    *)
(* one byte each but the payload; a payload may hold what looks like the   *)
(* beginning of a frame.  Frames are numbered.                             *)
(***************************************************************************)
EXTENDS Integers, Sequences

CONSTANTS
  Start,     \* the start byte
  Known,     \* identifiers there is a checksum seed for
  Unknown,   \* others the autopilot sends
  Payloads,  \* that it sends
  Frames,    \* bound: frames sent
  Gaps       \* bound: gaps in the stream

VARIABLES
  sending, left,  \* the last frame begun, and its bytes still to come
  losing, torn,   \* the stream is in a gap; the frame has lost a byte
  gaps,
  buf,            \* of struct Parser
  nil,            \* Next has found no frame: the buffer is fed
  got,            \* history: frames returned
  whole,          \* frames of a known identifier fed without a loss
  eaten           \* frames that lost bytes to a skip of another

streamVars == <<sending, left, losing, torn, gaps>>
historyVars == <<got, whole, eaten>>
vars == <<streamVars, buf, nil, historyVars>>

(* Bytes before the payload, and around it.                                *)
Header == 4
Overhead == Header + 1

Encode(f, id, payload) ==
  LET vals == <<Start, Len(payload), 0, id>> \o payload \o <<0>>
  IN  [i \in DOMAIN vals |-> [frame |-> f, place |-> i, id |-> id, val |-> vals[i]]]

------------------------------------------------------------------------------
(* The stream.                                                             *)

SendFrame(id, payload) ==
  /\ left = <<>> /\ sending < Frames
  /\ sending' = sending + 1 /\ torn' = FALSE
  /\ left' = Encode(sending + 1, id, payload)
  /\ UNCHANGED <<losing, gaps, buf, nil, historyVars>>

(* The next n bytes are read, and fed.                                     *)
Feed(n) ==
  /\ nil /\ n \in 1 .. Len(left) /\ ~losing
  /\ buf' = buf \o SubSeq(left, 1, n) /\ left' = SubSeq(left, n + 1, Len(left))
  /\ nil' = FALSE
  /\ whole' = IF left' = <<>> /\ ~torn /\ left[1].id \in Known
              THEN whole \union {sending} ELSE whole
  /\ UNCHANGED <<sending, losing, torn, gaps, got, eaten>>

GapBegins ==
  /\ ~losing /\ left # <<>> /\ gaps < Gaps
  /\ losing' = TRUE /\ gaps' = gaps + 1
  /\ UNCHANGED <<sending, left, torn, buf, nil, historyVars>>

Lose ==
  /\ losing /\ left # <<>>
  /\ left' = Tail(left) /\ torn' = TRUE
  /\ UNCHANGED <<sending, losing, gaps, buf, nil, historyVars>>

GapEnds ==
  /\ losing /\ losing' = FALSE
  /\ UNCHANGED <<sending, left, torn, gaps, buf, nil, historyVars>>

------------------------------------------------------------------------------
(* Parser.Next, until it has no more to return.                            *)

AtStart == buf # <<>> /\ buf[1].val = Start

DropFirst ==
  buf' = Tail(buf) /\ UNCHANGED <<streamVars, nil, historyVars>>

Noise == ~nil /\ buf # <<>> /\ ~AtStart /\ DropFirst

(* A header is there.                                                      *)
Headed == ~nil /\ AtStart /\ Len(buf) >= Overhead

FlagsBad == Headed /\ buf[3].val # 0 /\ DropFirst

Total == Overhead + buf[2].val
Cut == SubSeq(buf, 1, Total)

(* All that the header claims is there.                                    *)
Complete == Headed /\ buf[3].val = 0 /\ Len(buf) >= Total

(* The checksum holds for what was sent, and is taken to fail for all else.*)
SumRight ==
  /\ Cut[Total].place = Total
  /\ \A i \in 1 .. Total : Cut[i].frame = Cut[1].frame /\ Cut[i].place = i

Return ==
  /\ Complete /\ buf[4].val \in Known /\ SumRight
  /\ got' = Append(got, buf[1].frame)
  /\ buf' = SubSeq(buf, Total + 1, Len(buf))
  /\ UNCHANGED <<streamVars, nil, whole, eaten>>

(* A fault, for the mutants: the whole of what was claimed is skipped.     *)
FalseStartSkips ==
  /\ Complete /\ buf[4].val \in Known /\ ~SumRight
  /\ buf' = SubSeq(buf, Total + 1, Len(buf))
  /\ UNCHANGED <<streamVars, nil, historyVars>>

(* A false start: one byte on.                                             *)
FalseStart ==
  Complete /\ buf[4].val \in Known /\ ~SumRight /\ DropFirst

(* Nothing to check an unknown frame by: it is believed, and skipped.      *)
SkipUnknown ==
  /\ Complete /\ buf[4].val \notin Known
  /\ buf' = SubSeq(buf, Total + 1, Len(buf))
  /\ eaten' = eaten \union
       {Cut[i].frame : i \in {j \in 1 .. Total : buf[1].place # 1 \/ Cut[j].frame # buf[1].frame}}
  /\ UNCHANGED <<streamVars, nil, got, whole>>

(* More bytes are needed.                                                  *)
More ==
  IF ~AtStart THEN buf = <<>>
  ELSE Len(buf) >= Overhead => buf[3].val = 0 /\ Len(buf) < Total

ReturnNil ==
  /\ ~nil /\ More /\ nil' = TRUE
  /\ UNCHANGED <<streamVars, buf, historyVars>>

------------------------------------------------------------------------------

Init ==
  /\ sending = 0 /\ left = <<>> /\ losing = FALSE /\ torn = FALSE /\ gaps = 0
  /\ buf = <<>> /\ nil = TRUE /\ got = <<>> /\ whole = {} /\ eaten = {}

Stream ==
  \/ \E id \in Known \union Unknown, p \in Payloads : SendFrame(id, p)
  \/ (\E n \in 1 .. Len(left) : Feed(n)) \/ GapBegins \/ Lose \/ GapEnds
Next == Noise \/ FlagsBad \/ Return \/ FalseStart \/ SkipUnknown \/ ReturnNil
Steps == Stream \/ Next

Spec == Init /\ [][Steps]_vars

------------------------------------------------------------------------------

InBuf(f) == \E i \in DOMAIN buf : buf[i].frame = f /\ buf[i].place = 1

(* Frames come out in order, each once, none that was not sent; and a      *)
(* frame that was fed whole comes out, or waits in the buffer behind a     *)
(* start still to be checked: false starts cost time and no frame, for     *)
(* they are left one byte at a time ("false sync, shift one byte").  What  *)
(* is skipped unchecked may take others with it, but only after a gap      *)
(* ("assume framing is honest").                                           *)
FramesFound ==
  /\ \A j \in DOMAIN got : got[j] \notin eaten /\ (j > 1 => got[j - 1] < got[j])
  /\ \A f \in whole : f \in eaten \/ (\E j \in DOMAIN got : got[j] = f) \/ InBuf(f)
  /\ gaps = 0 => eaten = {} /\ (nil => \A i \in DOMAIN buf : buf[i].frame = sending)
=============================================================================
