--------------------------- MODULE ControlsProofs ---------------------------
(* Proofs about a capture channel and its readers, for every number of      *)
(* edges, every pair of ages and every wrap of the clock.                   *)
EXTENDS MainLoop, TLAPS

-----------------------------------------------------------------------------
(* The invariants. *)

Chan == [have_rise : BOOLEAN, prev_level : BOOLEAN, rise : P!Edges,
         width : P!Pairs, period : P!Pairs, count : P!Edges, errs : 0 .. 2 * MaxEdges]

(* The captures counted, and the errors, are no more than the edges made:   *)
(* each is counted when its edge is served.                                 *)
Bit(b) == IF b THEN 1 ELSE 0
Counted ==
  /\ irq.at = "capture" => flag
  /\ edge <= MaxEdges
  /\ chan.count + Bit(flag) + Bit(irq.at = "level") <= edge
  /\ chan.errs + 2 * Bit(flag) + Bit(irq.at = "level") <= 2 * edge

(* The last edge served, while none has been missed. *)
Done == IF ~chan.have_rise THEN 0 ELSE IF chan.prev_level THEN chan.rise ELSE chan.rise + 1

(* While no error is counted, at most two edges are not yet served, two     *)
(* only when a pulse was too short; what is measured is measured between    *)
(* neighbours.                                                              *)
Measured ==
  chan.errs = 0 =>
    /\ edge \in {Done, Done + 1, Done + 2}
    /\ edge = Done + 2 => edge % 2 = 0
    /\ edge = Done => irq.at = "off" /\ ~flag
    /\ irq.at = "off" /\ ~flag => edge = Done \/ (edge = 1 /\ ~chan.have_rise)
    /\ flag => ccr = edge
    /\ irq.at = "level" => \/ irq.cap = Done + 1 /\ (flag => edge = Done + 2)
                           \/ irq.cap = edge /\ edge = Done + 2
    /\ chan.have_rise => chan.rise % 2 = 1
    /\ chan.prev_level => chan.have_rise
    /\ chan.have_rise /\ ~chan.prev_level => chan.width = <<chan.rise, chan.rise + 1>>
    /\ chan.count > 0 => chan.have_rise /\ chan.period = <<chan.rise - 2, chan.rise>>
                         /\ chan.width \in {<<chan.rise - 2, chan.rise - 1>>, <<chan.rise, chan.rise + 1>>}

(* What a snapshot has so far, if no capture has come since it began.       *)
Gathered ==
  chan.errs = 0 /\ chan.count > 0 /\ snap.count = chan.count =>
    /\ snap.at \in {"period", "again"} =>
         snap.width \in {<<chan.rise - 2, chan.rise - 1>>, <<chan.rise, chan.rise + 1>>}
    /\ snap.at = "again" => snap.period = chan.period

(* The readers lag behind the counter, never the other way.                 *)
Lagging ==
  /\ ch.count <= chan.count /\ rep.count <= chan.count
  /\ snap.at \notin {"off", "count"} => snap.count <= chan.count
  /\ reading = "gather" /\ snap.at \notin {"off", "count"} => ch.count <= snap.count

(* While a channel has not gone to trim, its age is the rounds it has been  *)
(* silent for.                                                              *)
Aging ==
  /\ ch.target[1] = "trim" => ch.fs # 0
  /\ ch.seen /\ ch.target[1] # "trim" /\ quiet >= 1 =>
       IF reading = "step" THEN quiet <= P!Age(ch.change) /\ P!Age(ch.change) <= Trim + 1
                      ELSE quiet <= P!Age(ch.change) + 1 /\ P!Age(ch.change) <= Trim

(* While the counter stands where controls_step last saw it, the report has *)
(* seen nothing new for as long.                                            *)
Quiet(n) == gap >= n \/ gap >= Hold
Standing ==
  /\ chan.count = ch.count =>
       /\ reading = "top" => rep.count = ch.count /\ Quiet(P!Age(ch.change))
       /\ reading = "step" => rep.count = ch.count /\ Quiet(P!Age(ch.change) - 1)
       /\ reading = "gather" => \/ rep.count = ch.count /\ Quiet(P!Age(ch.change) - 1)
                           \/ P!Age(ch.change) = 0
  /\ reading = "step" /\ snap.at \notin {"off", "count"} /\ snap.count = ch.count =>
       Quiet(P!Age(ch.change) - 1)

Inv == P!TypeOK /\ Counted /\ Measured /\ Gathered /\ P!SnapshotWhole /\ Lagging /\ Aging /\ Standing

(* The ages lie within the clock. *)
LEMMA Constants ==
  /\ MaxEdges \in Nat \ {0} /\ Hold \in Nat \ {0} /\ Trim \in Nat /\ Turn \in Nat
  /\ Switches \in Nat /\ Hold < Trim /\ Trim + 1 < Turn
BY EdgeAssumption, AgeAssumption

(* A clock reading and an age, after a tick. *)
LEMMA TickFrom ==
  ASSUME NEW t \in 0 .. Turn - 1, now \in 0 .. Turn - 1, now' = P!Tick(now)
  PROVE  /\ now' \in 0 .. Turn - 1
         /\ P!Age(t) \in 0 .. Turn - 1
         /\ (now' + Turn - t) % Turn = IF P!Age(t) + 1 = Turn THEN 0 ELSE P!Age(t) + 1
<1>1. P!Age(t) = IF now >= t THEN now - t ELSE now + Turn - t
  BY Constants, SMT DEF P!Age
<1>2. now' = IF now + 1 = Turn THEN 0 ELSE now + 1
  BY Constants, SMT DEF P!Tick
<1>3. (now' + Turn - t) % Turn = IF now' >= t THEN now' - t ELSE now' + Turn - t
  BY <1>2, Constants, SMT
<1> QED BY <1>1, <1>2, <1>3, Constants

(* An age of the present is none. *)
LEMMA AgeRange ==
  ASSUME NEW t \in 0 .. Turn - 1, now \in 0 .. Turn - 1
  PROVE  P!Age(t) \in 0 .. Turn - 1 /\ P!Age(now) = 0
BY Constants, SMT DEF P!Age

(* Successive numbers differ in parity. *)
LEMMA Parity ==
  ASSUME NEW e \in Int
  PROVE  /\ e % 2 \in {0, 1} /\ (e + 1) % 2 = 1 - (e % 2)
         /\ (e + 2) % 2 = e % 2 /\ (e - 2) % 2 = e % 2
BY SMT

-----------------------------------------------------------------------------
(* The initial states. *)

LEMMA InitInv == P!Init => Inv
<1> SUFFICES ASSUME P!Init PROVE Inv
  OBVIOUS
<1>1. P!TypeOK
  <2>1. /\ edge \in P!Edges /\ 0 \in P!Edges /\ P!Never \in P!Pairs /\ P!Zero \in P!Pairs
        /\ 0 \in 0 .. 2 * MaxEdges /\ 0 \in 0 .. Turn - 1
        /\ 0 \in 0 .. Trim + 2 /\ 0 \in 0 .. Hold + 1 /\ 0 \in 0 .. Switches
    BY Constants DEF P!Init, P!PwmInit, P!Edges, P!Pairs, P!Never, P!Zero
  <2>2. chan \in Chan
    BY <2>1 DEF P!Init, P!PwmInit, Chan
  <2>3. snap \in [at : {"off", "count", "width", "period", "again", "done"},
               count : P!Edges, width : P!Pairs, period : P!Pairs]
    BY <2>1 DEF P!Init, P!NoSnapshot
  <2>4. ch \in [count : P!Edges, change : 0 .. Turn - 1, seen : BOOLEAN, fs : 0 .. 2,
                target : {"hold", "pulse", "trim"} \X P!Pairs]
    BY <2>1 DEF P!Init
  <2>5. rep \in [count : P!Edges, change : 0 .. Turn - 1, w : P!Pairs]
    BY <2>1 DEF P!Init
  <2>6. irq \in [at : {"off", "capture", "level"}, sr : SUBSET {"IF", "OF"}, cap : P!Edges]
    BY <2>1 DEF P!Init, P!PwmInit
  <2> QED BY <2>1, <2>2, <2>3, <2>4, <2>5, <2>6 DEF P!Init, P!PwmInit, P!TypeOK, Chan
<1>2. Counted
  BY Constants DEF P!Init, P!PwmInit, Counted, Bit
<1>3. Measured
  BY Constants DEF P!Init, P!PwmInit, Measured, Done
<1>4. Gathered /\ P!SnapshotWhole /\ Lagging
  BY DEF P!Init, P!PwmInit, Gathered, P!SnapshotWhole, Lagging, P!NoSnapshot
<1>5. Aging
  BY DEF P!Init, Aging
<1>6. Standing
  <2>1. P!Age(0) \in 0 .. Turn - 1 /\ P!Age(now) = 0
    BY AgeRange, Constants DEF P!Init
  <2>2. chan.count = ch.count /\ rep.count = ch.count /\ Quiet(P!Age(ch.change)) /\ reading = "top"
    BY <2>1 DEF P!Init, P!PwmInit, Quiet
  <2> QED BY <2>2 DEF Standing
<1> QED BY <1>1, <1>2, <1>3, <1>4, <1>5, <1>6 DEF Inv

-----------------------------------------------------------------------------
(* The capture unit and its interrupt. *)

(* What the proofs need of the types. *)
LEMMA Types ==
  ASSUME P!TypeOK
  PROVE  /\ edge \in Nat /\ ccr \in Nat /\ flag \in BOOLEAN /\ over \in BOOLEAN
         /\ chan \in Chan /\ chan.count \in Nat /\ chan.errs \in Nat /\ chan.rise \in Nat
         /\ chan.have_rise \in BOOLEAN /\ chan.prev_level \in BOOLEAN
         /\ chan.width \in P!Pairs /\ chan.period \in P!Pairs
         /\ irq.at \in {"off", "capture", "level"} /\ irq.cap \in P!Edges /\ irq.cap \in Nat
         /\ Done \in Nat
<1>1. P!Edges \subseteq Nat
  BY Constants DEF P!Edges
<1>2. chan \in Chan
  BY DEF P!TypeOK, Chan
<1>3. /\ chan.count \in P!Edges /\ chan.errs \in 0 .. 2 * MaxEdges /\ chan.rise \in P!Edges
      /\ chan.have_rise \in BOOLEAN /\ chan.prev_level \in BOOLEAN
      /\ chan.width \in P!Pairs /\ chan.period \in P!Pairs
  BY <1>2 DEF Chan
<1>4. chan.errs \in Nat /\ chan.rise \in Nat /\ chan.count \in Nat
  <2>1. 0 .. 2 * MaxEdges \subseteq Nat
    BY Constants
  <2> QED BY <1>1, <1>3, <2>1
<1>5. Done \in Nat
  BY <1>3, <1>4 DEF Done
<1>6. irq.at \in {"off", "capture", "level"} /\ irq.cap \in P!Edges
  BY DEF P!TypeOK
<1> QED BY <1>1, <1>2, <1>3, <1>4, <1>5, <1>6 DEF P!TypeOK

(* An edge: one more to serve. *)
LEMMA EdgeCore ==
  ASSUME Inv, P!Edge
  PROVE  (Counted /\ Measured)' /\ edge' \in P!Edges /\ ccr' \in P!Edges
<1>0. P!TypeOK /\ Counted /\ Measured
  BY DEF Inv
<1>t. /\ edge \in Nat /\ flag \in BOOLEAN /\ irq.at \in {"off", "capture", "level"}
      /\ chan.count \in Nat /\ chan.errs \in Nat /\ Done \in Nat
  BY <1>0, Types
<1>1. /\ edge < MaxEdges /\ edge' = edge + 1 /\ ccr' = edge + 1 /\ flag' = TRUE
      /\ chan' = chan /\ irq' = irq
      /\ edge % 2 # 1 => ~flag /\ irq.at = "off"
  BY DEF P!Edge, P!Level
<1>2. edge' \in P!Edges /\ ccr' \in P!Edges
  BY <1>t, <1>1, Constants DEF P!Edges
<1>3. Counted'
  BY <1>0, <1>t, <1>1, Constants DEF Counted, Bit
<1>4. Measured'
  <2>1. Done' = Done
    BY <1>1 DEF Done
  <2>2. edge % 2 \in {0, 1} /\ (edge + 1) % 2 = 1 - (edge % 2)
    BY <1>t, Parity
  <2>3. ASSUME chan.errs = 0
        PROVE  /\ edge \in {Done, Done + 1} /\ (edge = Done + 1 => edge % 2 = 1)
               /\ edge = Done => irq.at = "off"
               /\ irq.at = "level" => irq.cap = Done + 1
    <3>0. /\ edge \in {Done, Done + 1, Done + 2}
          /\ edge = Done + 2 => edge % 2 = 0
          /\ edge = Done => irq.at = "off" /\ ~flag
          /\ irq.at = "off" /\ ~flag => edge = Done \/ (edge = 1 /\ ~chan.have_rise)
          /\ irq.at = "level" => irq.cap = Done + 1 \/ edge = Done + 2
      BY <1>0, <2>3 DEF Measured
    <3>1. CASE edge % 2 = 1
      BY <3>0, <3>1
    <3>2. CASE edge % 2 # 1
      <4>1. edge # 1
        BY <3>2
      <4> QED BY <1>1, <1>t, <3>0, <3>2, <4>1
    <3> QED BY <3>1, <3>2
  <2>4. ASSUME chan.errs = 0
        PROVE  /\ edge' \in {Done + 1, Done + 2}
               /\ edge' = Done + 2 => edge' % 2 = 0
               /\ irq'.at = "level" => irq'.cap = Done + 1 /\ edge' = Done + 2
    BY <1>1, <1>t, <2>2, <2>3, <2>4
  <2> QED BY <1>0, <1>1, <1>t, <2>1, <2>4 DEF Measured
<1> QED BY <1>2, <1>3, <1>4

(* The handler is entered: what is to be served stands. *)
LEMMA EnterCore ==
  ASSUME Inv, P!IrqEnter
  PROVE  (Counted /\ Measured)' /\ irq' \in [at : {"off", "capture", "level"},
                                             sr : SUBSET {"IF", "OF"}, cap : P!Edges]
<1>0. P!TypeOK /\ Counted /\ Measured
  BY DEF Inv
<1>t. edge \in Nat /\ Done \in Nat
  BY <1>0, Types
<1>1. /\ flag /\ irq.at = "off" /\ edge' = edge /\ ccr' = ccr /\ flag' = flag /\ chan' = chan
      /\ irq' = [at |-> "capture", cap |-> 0, sr |-> {"IF"} \cup (IF over THEN {"OF"} ELSE {})]
  BY DEF P!IrqEnter, P!timer
<1>2. irq'.at = "capture" /\ irq' \in [at : {"off", "capture", "level"},
                                       sr : SUBSET {"IF", "OF"}, cap : P!Edges]
  BY <1>1, Constants DEF P!Edges
<1>3. Counted'
  BY <1>0, <1>1, <1>2 DEF Counted, Bit
<1>4. Done' = Done
  BY <1>1 DEF Done
<1>5. Measured'
  BY <1>0, <1>1, <1>2, <1>4 DEF Measured
<1> QED BY <1>2, <1>3, <1>5

(* The capture is taken: at most one error more. *)
LEMMA CaptureCore ==
  ASSUME Inv, P!IrqCapture
  PROVE  /\ (Counted /\ Measured)' /\ chan' \in Chan /\ over' \in BOOLEAN
         /\ irq' \in [at : {"off", "capture", "level"}, sr : SUBSET {"IF", "OF"}, cap : P!Edges]
         /\ chan'.count = chan.count /\ chan'.rise = chan.rise /\ chan'.period = chan.period
         /\ chan'.errs = 0 => chan.errs = 0
<1>0. P!TypeOK /\ Counted /\ Measured
  BY DEF Inv
<1>t. /\ edge \in Nat /\ ccr \in P!Edges /\ flag \in BOOLEAN /\ over \in BOOLEAN /\ chan \in Chan
      /\ chan.count \in Nat /\ chan.errs \in Nat /\ Done \in Nat
      /\ irq \in [at : {"off", "capture", "level"}, sr : SUBSET {"IF", "OF"}, cap : P!Edges]
  BY <1>0, Types DEF P!TypeOK
<1> DEFINE lost == IF "OF" \in irq.sr THEN 1 ELSE 0
<1>1. /\ irq.at = "capture" /\ over' = (over /\ "OF" \notin irq.sr)
      /\ chan' = [chan EXCEPT !.errs = @ + lost]
      /\ flag' = FALSE /\ irq' = [irq EXCEPT !.at = "level", !.cap = ccr]
      /\ edge' = edge /\ ccr' = ccr
  BY DEF P!IrqCapture
<1>2. lost \in {0, 1}
  OBVIOUS
<1> HIDE DEF lost
<1>3. /\ chan'.have_rise = chan.have_rise /\ chan'.prev_level = chan.prev_level
      /\ chan'.rise = chan.rise /\ chan'.width = chan.width /\ chan'.period = chan.period
      /\ chan'.count = chan.count /\ chan'.errs = chan.errs + lost
  BY <1>1, <1>t DEF Chan
<1>4. /\ irq'.at = "level" /\ irq'.cap = ccr
      /\ irq' \in [at : {"off", "capture", "level"}, sr : SUBSET {"IF", "OF"}, cap : P!Edges]
  BY <1>1, <1>t
<1>5. flag /\ chan.count + 1 <= edge /\ chan.errs + 2 <= 2 * edge /\ edge <= MaxEdges
  BY <1>0, <1>1, <1>t DEF Counted, Bit
<1>6. Counted'
  BY <1>1, <1>2, <1>3, <1>4, <1>5, <1>t, Constants DEF Counted, Bit
<1>7. chan' \in Chan
  <2>1. chan.errs + lost \in 0 .. 2 * MaxEdges
    BY <1>2, <1>5, <1>t, Constants
  <2> QED BY <1>1, <1>t, <2>1 DEF Chan
<1>8. chan'.errs = 0 => chan.errs = 0
  BY <1>2, <1>3, <1>t
<1>9. Measured'
  <2>1. Done' = Done
    BY <1>3 DEF Done
  <2>2. ASSUME chan.errs = 0
        PROVE  /\ ccr = edge /\ edge \in {Done + 1, Done + 2}
               /\ edge = Done + 2 => edge % 2 = 0
    BY <1>0, <1>1, <1>5, <2>2 DEF Measured
  <2>3. ASSUME chan.errs = 0 PROVE edge # Done
    BY <2>2, <2>3, <1>t
  <2> QED BY <1>0, <1>1, <1>3, <1>4, <1>8, <2>1, <2>2, <2>3 DEF Measured
<1> QED BY <1>1, <1>4, <1>3, <1>6, <1>7, <1>8, <1>9, <1>t

(* The handler on a rising edge, field by field. *)
LEMMA RisingIs ==
  ASSUME chan \in Chan, NEW cap \in P!Edges
  PROVE  LET c == P!Rising(chan, cap)
             up == IF chan.have_rise THEN 1 ELSE 0
             bad == IF chan.have_rise /\ chan.prev_level THEN 1 ELSE 0
         IN  /\ c = [have_rise |-> TRUE, prev_level |-> TRUE, rise |-> cap, width |-> chan.width,
                     period |-> IF chan.have_rise THEN <<chan.rise, cap>> ELSE chan.period,
                     count |-> chan.count + up, errs |-> chan.errs + bad]
             /\ up \in {0, 1} /\ bad \in {0, 1}
<1> DEFINE up == IF chan.have_rise THEN 1 ELSE 0
           bad == IF chan.have_rise /\ chan.prev_level THEN 1 ELSE 0
           p == IF chan.have_rise THEN <<chan.rise, cap>> ELSE chan.period
           n == chan.count + up
           e == chan.errs + bad
<1>1. P!Rising(chan, cap) = [chan EXCEPT !.errs = e, !.period = p, !.count = n, !.rise = cap,
                                       !.have_rise = TRUE, !.prev_level = TRUE]
  BY DEF P!Rising, Chan
<1>2. up \in {0, 1} /\ bad \in {0, 1}
  OBVIOUS
<1> HIDE DEF e, n, p
<1>3. P!Rising(chan, cap) = [have_rise |-> TRUE, prev_level |-> TRUE, rise |-> cap, width |-> chan.width,
                           period |-> p, count |-> n, errs |-> e]
  BY <1>1 DEF Chan
<1> QED BY <1>2, <1>3 DEF e, n, p

(* And on a falling one. *)
LEMMA FallingIs ==
  ASSUME chan \in Chan, NEW cap \in P!Edges
  PROVE  LET c == P!Falling(chan, cap)
             bad == IF chan.prev_level THEN 0 ELSE 1
         IN  /\ c = [have_rise |-> chan.have_rise, prev_level |-> FALSE, rise |-> chan.rise,
                     width |-> IF chan.prev_level /\ chan.have_rise THEN <<chan.rise, cap>> ELSE chan.width,
                     period |-> chan.period, count |-> chan.count, errs |-> chan.errs + bad]
             /\ bad \in {0, 1}
<1> DEFINE bad == IF chan.prev_level THEN 0 ELSE 1
           w == IF chan.prev_level /\ chan.have_rise THEN <<chan.rise, cap>> ELSE chan.width
           e == chan.errs + bad
<1>1. P!Falling(chan, cap) = [chan EXCEPT !.errs = e, !.width = w, !.prev_level = FALSE]
  BY DEF P!Falling, Chan
<1>2. bad \in {0, 1}
  OBVIOUS
<1> HIDE DEF e, w
<1>3. P!Falling(chan, cap) = [have_rise |-> chan.have_rise, prev_level |-> FALSE, rise |-> chan.rise,
                            width |-> w, period |-> chan.period, count |-> chan.count, errs |-> e]
  BY <1>1 DEF Chan
<1> QED BY <1>2, <1>3 DEF e, w

(* What is known when the level is taken without an error counted. *)
LEMMA ServedNext ==
  ASSUME Inv, irq.at = "level", chan.errs = 0
  PROVE  /\ chan.have_rise => chan.rise % 2 = 1
         /\ chan.prev_level => chan.have_rise
         /\ chan.have_rise /\ ~chan.prev_level => chan.width = <<chan.rise, chan.rise + 1>>
         /\ chan.count > 0 => chan.have_rise
         /\ edge % 2 = 1 => edge = Done + 1 /\ irq.cap = edge /\ ~flag
         /\ edge % 2 # 1 /\ chan.prev_level => edge = Done + 1 /\ irq.cap = edge /\ ~flag
<1>0. P!TypeOK /\ Measured
  BY DEF Inv
<1>t. edge \in Nat /\ Done \in Nat /\ chan.rise \in Nat
  BY <1>0, Types
<1>1. /\ edge \in {Done, Done + 1, Done + 2}
      /\ edge = Done + 2 => edge % 2 = 0
      /\ edge # Done
      /\ \/ irq.cap = Done + 1 /\ (flag => edge = Done + 2)
         \/ irq.cap = edge /\ edge = Done + 2
      /\ chan.have_rise => chan.rise % 2 = 1
      /\ chan.prev_level => chan.have_rise
      /\ chan.have_rise /\ ~chan.prev_level => chan.width = <<chan.rise, chan.rise + 1>>
      /\ chan.count > 0 => chan.have_rise
  BY <1>0 DEF Measured
<1>2. edge # Done + 2 => edge = Done + 1 /\ irq.cap = edge /\ ~flag
  BY <1>1, <1>t
<1>3. edge % 2 = 1 => edge # Done + 2
  BY <1>1
<1>4. ASSUME chan.prev_level PROVE edge # Done + 2
  <2>1. Done = chan.rise /\ chan.rise % 2 = 1
    BY <1>1, <1>4 DEF Done
  <2>2. (chan.rise + 2) % 2 = chan.rise % 2
    BY <1>t, Parity
  <2> QED BY <1>1, <2>1, <2>2
<1> QED BY <1>1, <1>2, <1>3, <1>4

(* The level is taken: a rising edge counts a capture. *)
LEMMA LevelCore ==
  ASSUME Inv, P!IrqLevel
  PROVE  /\ (Counted /\ Measured)' /\ chan' \in Chan
         /\ irq' \in [at : {"off", "capture", "level"}, sr : SUBSET {"IF", "OF"}, cap : P!Edges]
         /\ chan'.errs = 0 => chan.errs = 0
         /\ chan'.count = chan.count /\ chan.count > 0 /\ chan'.errs = 0 =>
              chan'.rise = chan.rise /\ chan'.period = chan.period
         /\ chan'.count \in {chan.count, chan.count + 1}
<1>0. P!TypeOK /\ Counted /\ Measured
  BY DEF Inv
<1>t. /\ edge \in Nat /\ flag \in BOOLEAN /\ chan \in Chan /\ irq.cap \in P!Edges /\ irq.cap \in Nat
      /\ chan.count \in Nat /\ chan.errs \in Nat /\ Done \in Nat /\ chan.rise \in Nat
      /\ chan.rise \in P!Edges /\ chan.width \in P!Pairs /\ chan.period \in P!Pairs
      /\ chan.have_rise \in BOOLEAN /\ chan.prev_level \in BOOLEAN
  BY <1>0, Types DEF Chan
<1>1. /\ irq.at = "level" /\ edge' = edge /\ flag' = flag /\ ccr' = ccr
      /\ chan' = IF edge % 2 = 1 THEN P!Rising(chan, irq.cap) ELSE P!Falling(chan, irq.cap)
      /\ irq' = [at |-> "off", sr |-> {}, cap |-> 0]
  BY DEF P!IrqLevel, P!Level, P!timer
<1>2. irq'.at = "off" /\ irq' \in [at : {"off", "capture", "level"}, sr : SUBSET {"IF", "OF"}, cap : P!Edges]
  BY <1>1, Constants DEF P!Edges
<1>3. /\ edge <= MaxEdges
      /\ chan.count + 1 + Bit(flag) <= edge
      /\ chan.errs + 2 * Bit(flag) + 1 <= 2 * edge
  BY <1>0, <1>1, <1>t DEF Counted, Bit
<1>4. ASSUME chan'.count \in {chan.count, chan.count + 1},
             chan'.errs \in {chan.errs, chan.errs + 1}
      PROVE  Counted' /\ chan'.count \in P!Edges /\ chan'.errs \in 0 .. 2 * MaxEdges
             /\ (chan'.errs = 0 => chan.errs = 0)
  BY <1>1, <1>2, <1>3, <1>4, <1>t, Constants DEF Counted, Bit, P!Edges
<1>5. CASE edge % 2 = 1
  <2> DEFINE up == IF chan.have_rise THEN 1 ELSE 0
             bad == IF chan.have_rise /\ chan.prev_level THEN 1 ELSE 0
             p == IF chan.have_rise THEN <<chan.rise, irq.cap>> ELSE chan.period
  <2>1. /\ chan' = [have_rise |-> TRUE, prev_level |-> TRUE, rise |-> irq.cap, width |-> chan.width,
                    period |-> p, count |-> chan.count + up, errs |-> chan.errs + bad]
        /\ up \in {0, 1} /\ bad \in {0, 1}
    BY <1>1, <1>5, <1>t, RisingIs
  <2>2. up = (IF chan.have_rise THEN 1 ELSE 0) /\ (bad = 0 => ~(chan.have_rise /\ chan.prev_level))
        /\ p = (IF chan.have_rise THEN <<chan.rise, irq.cap>> ELSE chan.period) /\ p \in P!Pairs
    BY <1>t DEF P!Pairs
  <2> HIDE DEF up, bad, p
  <2>3. /\ chan'.have_rise = TRUE /\ chan'.prev_level = TRUE /\ chan'.rise = irq.cap
        /\ chan'.width = chan.width /\ chan'.period = p
        /\ chan'.count = chan.count + up /\ chan'.errs = chan.errs + bad
    BY <2>1
  <2>4. chan'.count \in {chan.count, chan.count + 1} /\ chan'.errs \in {chan.errs, chan.errs + 1}
    BY <2>1, <2>3, <1>t
  <2>5. Counted' /\ chan'.count \in P!Edges /\ chan'.errs \in 0 .. 2 * MaxEdges
        /\ (chan'.errs = 0 => chan.errs = 0)
    BY <1>4, <2>4
  <2>6. chan' \in Chan
    BY <2>1, <2>2, <2>3, <2>5, <1>t DEF Chan
  <2>7. ASSUME chan'.errs = 0
        PROVE  /\ edge = Done + 1 /\ irq.cap = edge /\ ~flag /\ ~(chan.have_rise /\ chan.prev_level)
               /\ chan.have_rise => chan.width = <<chan.rise, chan.rise + 1>>
               /\ chan.count > 0 => chan.have_rise
    <3>1. chan.errs = 0 /\ bad = 0
      BY <2>1, <2>3, <2>7, <1>t
    <3> QED BY <3>1, <2>2, <1>1, <1>5, ServedNext
  <2>8. ASSUME chan'.errs = 0, chan.have_rise
        PROVE  chan'.rise - 2 = chan.rise /\ chan'.rise - 1 = chan.rise + 1
    <3>1. Done = chan.rise + 1
      BY <2>7, <2>8 DEF Done
    <3> QED BY <3>1, <2>3, <2>7, <2>8, <1>t
  <2>9. ASSUME chan'.errs = 0, chan'.count > 0 PROVE chan.have_rise
    BY <2>2, <2>3, <2>7, <2>9, <1>t
  <2>10. ASSUME chan'.errs = 0, chan'.count > 0
         PROVE  /\ chan'.period = <<chan'.rise - 2, chan'.rise>>
                /\ chan'.width = <<chan'.rise - 2, chan'.rise - 1>>
    BY <2>2, <2>3, <2>7, <2>8, <2>9, <2>10
  <2>11. Done' = irq.cap
    BY <2>3 DEF Done
  <2>12. Measured'
    <3> SUFFICES ASSUME chan'.errs = 0 PROVE Measured'
      BY DEF Measured
    <3>1. edge' = Done' /\ edge' \in Nat /\ irq'.at = "off" /\ ~flag' /\ chan'.rise % 2 = 1
      BY <1>1, <1>2, <1>5, <1>t, <2>3, <2>7, <2>11
    <3>2. edge' # Done' + 2
      <4>1. \A n \in Nat : n # n + 2
        OBVIOUS
      <4> QED BY <4>1, <3>1, Zenon
    <3> QED BY <3>1, <3>2, <2>3, <2>10 DEF Measured
  <2>13. chan'.count = chan.count /\ chan.count > 0 /\ chan'.errs = 0 => FALSE
    BY <2>2, <2>3, <2>7, <1>t
  <2> QED BY <1>2, <2>4, <2>5, <2>6, <2>12, <2>13
<1>6. CASE edge % 2 # 1
  <2> DEFINE bad == IF chan.prev_level THEN 0 ELSE 1
             w == IF chan.prev_level /\ chan.have_rise THEN <<chan.rise, irq.cap>> ELSE chan.width
  <2>1. /\ chan' = [have_rise |-> chan.have_rise, prev_level |-> FALSE, rise |-> chan.rise, width |-> w,
                    period |-> chan.period, count |-> chan.count, errs |-> chan.errs + bad]
        /\ bad \in {0, 1}
    BY <1>1, <1>6, <1>t, FallingIs
  <2>2. (bad = 0 => chan.prev_level) /\ w \in P!Pairs
        /\ (chan.prev_level /\ chan.have_rise => w = <<chan.rise, irq.cap>>)
    BY <1>t DEF P!Pairs
  <2> HIDE DEF bad, w
  <2>3. /\ chan'.have_rise = chan.have_rise /\ chan'.prev_level = FALSE /\ chan'.rise = chan.rise
        /\ chan'.width = w /\ chan'.period = chan.period
        /\ chan'.count = chan.count /\ chan'.errs = chan.errs + bad
    BY <2>1
  <2>4. chan'.count \in {chan.count, chan.count + 1} /\ chan'.errs \in {chan.errs, chan.errs + 1}
    BY <2>1, <2>3, <1>t
  <2>5. Counted' /\ chan'.count \in P!Edges /\ chan'.errs \in 0 .. 2 * MaxEdges
        /\ (chan'.errs = 0 => chan.errs = 0)
    BY <1>4, <2>4
  <2>6. chan' \in Chan
    BY <2>1, <2>2, <2>3, <2>5, <1>t DEF Chan
  <2>7. ASSUME chan'.errs = 0
        PROVE  /\ chan.errs = 0 /\ chan.prev_level /\ chan.have_rise /\ chan.rise % 2 = 1
               /\ edge = Done + 1 /\ irq.cap = edge /\ ~flag /\ Done = chan.rise
    <3>1. chan.errs = 0 /\ bad = 0
      BY <2>1, <2>3, <2>7, <1>t
    <3>2. chan.prev_level
      BY <2>2, <3>1
    <3>3. chan.have_rise /\ chan.rise % 2 = 1 /\ edge = Done + 1 /\ irq.cap = edge /\ ~flag
      BY <3>1, <3>2, <1>1, <1>6, ServedNext
    <3> QED BY <3>1, <3>2, <3>3 DEF Done
  <2>8. ASSUME chan'.errs = 0 PROVE chan'.width = <<chan'.rise, chan'.rise + 1>>
    BY <2>2, <2>3, <2>7, <2>8
  <2>9. ASSUME chan'.errs = 0, chan'.count > 0
        PROVE  chan'.have_rise /\ chan'.period = <<chan'.rise - 2, chan'.rise>>
    BY <1>0, <2>3, <2>7, <2>9 DEF Measured
  <2>10. chan'.errs = 0 => Done' = chan.rise + 1
    BY <2>3, <2>7 DEF Done
  <2>11. Measured'
    <3> SUFFICES ASSUME chan'.errs = 0 PROVE Measured'
      BY DEF Measured
    <3>1. /\ edge' = Done' /\ edge' \in Nat /\ irq'.at = "off" /\ ~flag'
          /\ chan'.rise % 2 = 1 /\ chan'.have_rise
      BY <1>1, <1>2, <1>t, <2>3, <2>7, <2>10
    <3>2. edge' # Done' + 2
      <4>1. \A n \in Nat : n # n + 2
        OBVIOUS
      <4> QED BY <4>1, <3>1, Zenon
    <3> QED BY <3>1, <3>2, <2>3, <2>8, <2>9 DEF Measured
  <2> QED BY <1>2, <2>3, <2>4, <2>5, <2>6, <2>11
<1> QED BY <1>5, <1>6

(* A step of the timer or its interrupt keeps the invariant: the readers    *)
(* stand, and a new capture can only take the counter away from them.       *)
LEMMA CoreStep ==
  ASSUME Inv, UNCHANGED P!readers,
         edge' \in P!Edges, ccr' \in P!Edges, flag' \in BOOLEAN, over' \in BOOLEAN, chan' \in Chan,
         irq' \in [at : {"off", "capture", "level"}, sr : SUBSET {"IF", "OF"}, cap : P!Edges],
         (Counted /\ Measured)', chan'.errs = 0 => chan.errs = 0,
         chan'.count \in {chan.count, chan.count + 1},
         chan'.count = chan.count /\ chan.count > 0 /\ chan'.errs = 0 =>
           chan'.rise = chan.rise /\ chan'.period = chan.period
  PROVE  Inv'
<1>0. P!TypeOK /\ Counted /\ Measured /\ Gathered /\ P!SnapshotWhole /\ Lagging /\ Aging /\ Standing
  BY DEF Inv
<1>1. /\ now' = now /\ flying' = flying /\ reading' = reading /\ snap' = snap /\ ch' = ch /\ rep' = rep
      /\ quiet' = quiet /\ gap' = gap /\ switched' = switched
  BY DEF P!readers
<1>t. chan.count \in Nat /\ chan.errs \in Nat
  BY <1>0, Types
<1>2. P!TypeOK'
  BY <1>0, <1>1 DEF P!TypeOK, Chan
<1>3. snap.at \notin {"off", "count"} => snap.count <= chan.count /\ snap.count \in Nat
  <2>1. snap.count \in P!Edges
    BY <1>0 DEF P!TypeOK
  <2>2. snap.count \in Nat
    BY <2>1, Constants DEF P!Edges
  <2> QED BY <1>0, <2>2 DEF Lagging
<1>4. ch.count \in Nat /\ rep.count \in Nat /\ ch.count <= chan.count /\ rep.count <= chan.count
  <2>1. ch.count \in P!Edges /\ rep.count \in P!Edges
    BY <1>0 DEF P!TypeOK
  <2>2. ch.count \in Nat /\ rep.count \in Nat
    BY <2>1, Constants DEF P!Edges
  <2> QED BY <1>0, <2>2 DEF Lagging
<1>5. Lagging'
  BY <1>0, <1>1, <1>3, <1>4, <1>t DEF Lagging
<1>6. P!SnapshotWhole'
  BY <1>0, <1>1 DEF P!SnapshotWhole
<1>7. Gathered'
  <2> SUFFICES ASSUME chan'.errs = 0, chan'.count > 0, snap.count = chan'.count,
                      snap.at \in {"period", "again"}
               PROVE  Gathered'
    BY <1>1 DEF Gathered
  <2>1. chan'.count = chan.count
    BY <1>3, <1>t
  <2>2. chan.errs = 0 /\ chan.count > 0 /\ snap.count = chan.count
    BY <2>1
  <2>3. chan'.rise = chan.rise /\ chan'.period = chan.period
    BY <2>1, <2>2
  <2> QED BY <1>0, <1>1, <2>2, <2>3 DEF Gathered
<1>8. Aging'
  <2>1. P!Age(ch.change)' = P!Age(ch.change)
    BY <1>1 DEF P!Age
  <2> QED BY <1>0, <1>1, <2>1 DEF Aging
<1>9. Standing'
  <2>1. P!Age(ch.change)' = P!Age(ch.change)
    BY <1>1 DEF P!Age
  <2>2. chan'.count = ch.count => chan.count = ch.count
    BY <1>4, <1>t
  <2> QED BY <1>0, <1>1, <2>1, <2>2 DEF Standing, Quiet
<1> QED BY <1>2, <1>5, <1>6, <1>7, <1>8, <1>9 DEF Inv

LEMMA CaptureInv ==
  ASSUME Inv, P!Capture, UNCHANGED P!readers
  PROVE  Inv'
<1>0. P!TypeOK
  BY DEF Inv
<1>t. /\ edge \in P!Edges /\ ccr \in P!Edges /\ flag \in BOOLEAN /\ over \in BOOLEAN /\ chan \in Chan
      /\ irq \in [at : {"off", "capture", "level"}, sr : SUBSET {"IF", "OF"}, cap : P!Edges]
  BY <1>0 DEF P!TypeOK, Chan
<1>1. CASE P!Edge
  <2>1. flag' = TRUE /\ over' = (over \/ flag) /\ chan' = chan /\ irq' = irq
    BY <1>1 DEF P!Edge
  <2>2. over' \in BOOLEAN
    BY <1>t, <2>1, Zenon
  <2>3. edge' \in P!Edges /\ ccr' \in P!Edges /\ (Counted /\ Measured)'
    BY <1>1, EdgeCore
  <2> QED BY <1>t, <2>1, <2>2, <2>3, CoreStep
<1>2. CASE P!IrqEnter
  <2>1. edge' = edge /\ ccr' = ccr /\ flag' = flag /\ over' = over /\ chan' = chan
    BY <1>2 DEF P!IrqEnter, P!timer
  <2>2. /\ irq' \in [at : {"off", "capture", "level"}, sr : SUBSET {"IF", "OF"}, cap : P!Edges]
        /\ (Counted /\ Measured)'
    BY <1>2, EnterCore
  <2> QED BY <1>t, <2>1, <2>2, CoreStep
<1>3. CASE P!IrqCapture
  <2>1. edge' = edge /\ ccr' = ccr /\ flag' = FALSE
    BY <1>3 DEF P!IrqCapture
  <2>2. /\ irq' \in [at : {"off", "capture", "level"}, sr : SUBSET {"IF", "OF"}, cap : P!Edges]
        /\ (Counted /\ Measured)' /\ chan' \in Chan /\ over' \in BOOLEAN
        /\ chan'.count = chan.count /\ chan'.rise = chan.rise /\ chan'.period = chan.period
        /\ chan'.errs = 0 => chan.errs = 0
    BY <1>3, CaptureCore
  <2> QED BY <1>t, <2>1, <2>2, CoreStep
<1>4. CASE P!IrqLevel
  <2>1. edge' = edge /\ ccr' = ccr /\ flag' = flag /\ over' = over
    BY <1>4 DEF P!IrqLevel, P!timer
  <2>2. /\ irq' \in [at : {"off", "capture", "level"}, sr : SUBSET {"IF", "OF"}, cap : P!Edges]
        /\ (Counted /\ Measured)' /\ chan' \in Chan
        /\ chan'.errs = 0 => chan.errs = 0
        /\ chan'.count \in {chan.count, chan.count + 1}
        /\ chan'.count = chan.count /\ chan.count > 0 /\ chan'.errs = 0 =>
             chan'.rise = chan.rise /\ chan'.period = chan.period
    BY <1>4, LevelCore
  <2> QED BY <1>t, <2>1, <2>2, CoreStep
<1> QED BY <1>1, <1>2, <1>3, <1>4 DEF P!Capture

-----------------------------------------------------------------------------
(* The main loop. *)

Snapshots == [at : {"off", "count", "width", "period", "again", "done"},
              count : P!Edges, width : P!Pairs, period : P!Pairs]
Channels == [count : P!Edges, change : 0 .. Turn - 1, seen : BOOLEAN, fs : 0 .. 2,
             target : {"hold", "pulse", "trim"} \X P!Pairs]
Reports == [count : P!Edges, change : 0 .. Turn - 1, w : P!Pairs]

(* What the proofs need of the readers' types. *)
LEMMA ReaderTypes ==
  ASSUME P!TypeOK
  PROVE  /\ now \in 0 .. Turn - 1 /\ ch.change \in 0 .. Turn - 1 /\ rep.change \in 0 .. Turn - 1
         /\ snap \in Snapshots /\ ch \in Channels /\ rep \in Reports
         /\ snap.count \in Nat /\ ch.count \in Nat /\ rep.count \in Nat /\ chan.count \in Nat
         /\ snap.count \in P!Edges /\ chan.count \in P!Edges /\ snap.width \in P!Pairs /\ snap.period \in P!Pairs
         /\ quiet \in 0 .. Trim + 2 /\ gap \in 0 .. Hold + 1 /\ quiet \in Nat /\ gap \in Nat
         /\ P!Age(ch.change) \in Nat
<1>1. snap \in Snapshots /\ ch \in Channels /\ rep \in Reports
  BY DEF P!TypeOK, Snapshots, Channels, Reports
<1>2. /\ snap.count \in P!Edges /\ ch.count \in P!Edges /\ rep.count \in P!Edges
      /\ snap.width \in P!Pairs /\ snap.period \in P!Pairs
      /\ ch.change \in 0 .. Turn - 1 /\ rep.change \in 0 .. Turn - 1
  BY <1>1 DEF Snapshots, Channels, Reports
<1>3. P!Edges \subseteq Nat
  BY Constants DEF P!Edges
<1>4. now \in 0 .. Turn - 1 /\ quiet \in 0 .. Trim + 2 /\ gap \in 0 .. Hold + 1
  BY DEF P!TypeOK
<1>5. quiet \in Nat /\ gap \in Nat
  BY <1>4, Constants
<1>6. P!Age(ch.change) \in 0 .. Turn - 1
  BY <1>2, <1>4, AgeRange
<1>7. 0 .. Turn - 1 \subseteq Nat
  BY Constants
<1>8. chan.count \in P!Edges /\ chan.count \in Nat
  <2>1. chan \in Chan
    BY Types
  <2>2. chan.count \in P!Edges
    BY <2>1 DEF Chan
  <2> QED BY <2>2, <1>3
<1> QED BY <1>1, <1>2, <1>3, <1>4, <1>5, <1>6, <1>7, <1>8

(* The main loop touches neither the timer nor what is measured. *)
LEMMA CoreStays ==
  ASSUME Inv, UNCHANGED <<P!timer, chan, irq>>
  PROVE  /\ (Counted /\ Measured)'
         /\ (/\ now' \in 0 .. Turn - 1 /\ flying' \in BOOLEAN /\ reading' \in {"top", "step", "gather"}
             /\ snap' \in Snapshots /\ ch' \in Channels /\ rep' \in Reports
             /\ quiet' \in 0 .. Trim + 2 /\ gap' \in 0 .. Hold + 1 /\ switched' \in 0 .. Switches)
            => P!TypeOK'
<1>1. edge' = edge /\ flag' = flag /\ over' = over /\ ccr' = ccr /\ chan' = chan /\ irq' = irq
  BY DEF P!timer
<1>2. P!TypeOK /\ Counted /\ Measured
  BY DEF Inv
<1>3. Counted' /\ Measured'
  <2>1. Done' = Done
    BY <1>1 DEF Done
  <2> QED BY <1>1, <1>2, <2>1 DEF Counted, Measured
<1> QED BY <1>1, <1>2, <1>3 DEF P!TypeOK, Snapshots, Channels, Reports

(* A round begins: every age grows by one tick, or starts anew. *)
LEMMA TopInv ==
  ASSUME Inv, P!Top, UNCHANGED <<P!timer, chan, irq>>
  PROVE  Inv'
<1>0. P!TypeOK /\ Counted /\ Measured /\ Gathered /\ P!SnapshotWhole /\ Lagging /\ Aging /\ Standing
  BY DEF Inv
<1>t. /\ now \in 0 .. Turn - 1 /\ ch.change \in 0 .. Turn - 1 /\ quiet \in Nat /\ gap \in Nat
      /\ quiet \in 0 .. Trim + 2 /\ P!Age(ch.change) \in Nat
  BY <1>0, ReaderTypes
<1>1. /\ reading = "top" /\ now' = P!Tick(now) /\ flying' \in BOOLEAN
      /\ reading' = (IF flying' THEN "step" ELSE "gather")
      /\ snap' = P!Start /\ quiet' = (IF flying' THEN quiet ELSE 0)
      /\ ch' = ch /\ rep' = rep /\ gap' = gap /\ chan' = chan
  BY DEF P!Top
<1>2. switched' \in 0 .. Switches
  <2>1. switched \in 0 .. Switches
    BY <1>0 DEF P!TypeOK
  <2>2. switched' = switched \/ (switched < Switches /\ switched' = switched + 1)
    BY DEF P!Top
  <2> QED BY <2>1, <2>2, Constants
<1>3. snap'.at = "count" /\ snap' \in Snapshots
  <2>1. 0 \in P!Edges /\ P!Never \in P!Pairs
    BY Constants DEF P!Edges, P!Pairs, P!Never
  <2> QED BY <1>1, <2>1 DEF P!Start, P!NoSnapshot, Snapshots
<1>4. /\ now' \in 0 .. Turn - 1 /\ P!Age(ch.change) \in 0 .. Turn - 1
      /\ P!Age(ch.change)' = IF P!Age(ch.change) + 1 = Turn THEN 0 ELSE P!Age(ch.change) + 1
  <2>1. (P!Age(ch.change))' = (now' + Turn - ch.change) % Turn
    BY <1>1 DEF P!Age
  <2> DEFINE t == ch.change
  <2>2. t \in 0 .. Turn - 1 /\ ch'.change = t
    BY <1>t, <1>1
  <2> HIDE DEF t
  <2>3. /\ now' \in 0 .. Turn - 1 /\ P!Age(t) \in 0 .. Turn - 1
        /\ (now' + Turn - t) % Turn = IF P!Age(t) + 1 = Turn THEN 0 ELSE P!Age(t) + 1
    BY <1>1, <1>t, <2>2, TickFrom
  <2> QED BY <2>1, <2>3 DEF t
<1>5. quiet' \in 0 .. Trim + 2 /\ (quiet' = quiet \/ quiet' = 0)
  BY <1>1, <1>t, Constants
<1>6. reading' \in {"step", "gather"}
  BY <1>1
<1>7. (Counted /\ Measured)' /\ P!TypeOK'
  <2>1. ch \in Channels /\ rep \in Reports /\ gap \in 0 .. Hold + 1
    BY <1>0, ReaderTypes
  <2> QED BY <1>1, <1>2, <1>3, <1>4, <1>5, <1>6, <2>1, CoreStays
<1>8. Gathered' /\ P!SnapshotWhole' /\ Lagging'
  BY <1>0, <1>1, <1>3 DEF Gathered, P!SnapshotWhole, Lagging
<1>9. Aging'
  <2>1. ASSUME ch.seen, ch.target[1] # "trim", quiet >= 1
        PROVE  quiet <= P!Age(ch.change)' /\ P!Age(ch.change)' <= Trim + 1
    <3>1. quiet <= P!Age(ch.change) + 1 /\ P!Age(ch.change) <= Trim
      BY <1>0, <1>1, <2>1 DEF Aging
    <3> QED BY <3>1, <1>4, <1>t, Constants
  <2>2. reading' = "gather" => quiet' = 0
    BY <1>1
  <2> QED BY <1>0, <1>1, <1>5, <1>6, <2>1, <2>2 DEF Aging
<1>10. Standing'
  <2>1. ASSUME chan.count = ch.count
        PROVE  rep.count = ch.count /\ Quiet(P!Age(ch.change)' - 1)
    <3>1. rep.count = ch.count /\ (gap >= P!Age(ch.change) \/ gap >= Hold)
      BY <1>0, <1>1, <2>1 DEF Standing, Quiet
    <3> QED BY <3>1, <1>4, <1>t, Constants DEF Quiet
  <2>2. chan'.count = ch'.count => rep'.count = ch'.count /\ Quiet(P!Age(ch.change) - 1)'
    BY <1>1, <2>1 DEF Quiet
  <2> QED BY <1>3, <1>6, <2>2 DEF Standing
<1> QED BY <1>7, <1>8, <1>9, <1>10 DEF Inv

(* A snapshot is gathered load by load; one that is done is whole, since no *)
(* capture was counted between its first load and its last.                 *)
LEMMA ReadInv ==
  ASSUME Inv, P!Read, UNCHANGED <<P!timer, chan, irq>>
  PROVE  Inv'
<1>0. P!TypeOK /\ Counted /\ Measured /\ Gathered /\ P!SnapshotWhole /\ Lagging /\ Aging /\ Standing
  BY DEF Inv
<1>1. /\ reading \in {"step", "gather"} /\ P!Get(snap, snap')
      /\ now' = now /\ flying' = flying /\ reading' = reading /\ ch' = ch /\ rep' = rep
      /\ quiet' = quiet /\ gap' = gap /\ switched' = switched /\ chan' = chan
  BY DEF P!Read
<1>t. /\ snap \in Snapshots /\ ch \in Channels /\ rep \in Reports /\ snap.count \in Nat
      /\ ch.count \in Nat /\ rep.count \in Nat /\ chan.count \in Nat
      /\ chan.count \in P!Edges /\ chan.width \in P!Pairs /\ chan.period \in P!Pairs
      /\ snap.count \in P!Edges /\ snap.width \in P!Pairs /\ snap.period \in P!Pairs
  BY <1>0, Types, ReaderTypes
<1>2. (Counted /\ Measured)' /\ (snap' \in Snapshots => P!TypeOK')
  BY <1>0, <1>1, <1>t, CoreStays DEF P!TypeOK
<1>3. Aging' /\ P!Age(ch.change)' = P!Age(ch.change)
  <2>1. P!Age(ch.change)' = P!Age(ch.change)
    BY <1>1 DEF P!Age
  <2> QED BY <1>0, <1>1, <2>1 DEF Aging
<1>4. ASSUME snap' \in Snapshots, Gathered', P!SnapshotWhole', snap'.count <= chan.count,
             reading = "gather" /\ snap'.at \notin {"off", "count"} => ch.count <= snap'.count,
             reading = "step" /\ snap'.at \notin {"off", "count"} /\ snap'.count = ch.count =>
               Quiet(P!Age(ch.change) - 1)
      PROVE  Inv'
  <2>1. Lagging'
    BY <1>0, <1>1, <1>4 DEF Lagging
  <2>2. Standing'
    BY <1>0, <1>1, <1>3, <1>4 DEF Standing, Quiet
  <2> QED BY <1>2, <1>3, <1>4, <2>1, <2>2 DEF Inv
<1>5. CASE P!GetCount(snap, snap')
  <2>1. snap' = [at |-> "width", count |-> chan.count, width |-> snap.width, period |-> snap.period]
    BY <1>5, <1>t DEF P!GetCount, Snapshots
  <2>2. snap' \in Snapshots /\ snap'.at = "width" /\ snap'.count = chan.count
    BY <2>1, <1>t DEF Snapshots
  <2>3. Gathered' /\ P!SnapshotWhole'
    BY <2>2 DEF Gathered, P!SnapshotWhole
  <2>4. ch.count <= chan.count
    BY <1>0 DEF Lagging
  <2>5. reading = "step" /\ chan.count = ch.count => Quiet(P!Age(ch.change) - 1)
    BY <1>0 DEF Standing
  <2>6. snap'.count <= chan.count
    BY <2>2, <1>t
  <2> QED BY <1>4, <2>2, <2>3, <2>4, <2>5, <2>6
<1>6. ASSUME snap.at \in {"width", "period", "again"}
      PROVE  /\ snap.count <= chan.count /\ (reading = "gather" => ch.count <= snap.count)
             /\ reading = "step" /\ snap.count = ch.count => Quiet(P!Age(ch.change) - 1)
  BY <1>0, <1>6 DEF Lagging, Standing
<1>7. CASE P!GetWidth(snap, snap')
  <2>1. snap' = [at |-> "period", count |-> snap.count, width |-> chan.width, period |-> snap.period]
    BY <1>7, <1>t DEF P!GetWidth, Snapshots
  <2>2. snap' \in Snapshots /\ snap'.at = "period" /\ snap'.count = snap.count /\ snap'.width = chan.width
    BY <2>1, <1>t DEF Snapshots
  <2>3. snap.at = "width"
    BY <1>7 DEF P!GetWidth
  <2>4. Gathered' /\ P!SnapshotWhole'
    BY <1>0, <1>1, <2>2 DEF Gathered, P!SnapshotWhole, Measured
  <2> QED BY <1>4, <1>6, <2>2, <2>3, <2>4
<1>8. CASE P!GetPeriod(snap, snap')
  <2>1. snap' = [at |-> "again", count |-> snap.count, width |-> snap.width, period |-> chan.period]
    BY <1>8, <1>t DEF P!GetPeriod, Snapshots
  <2>2. /\ snap' \in Snapshots /\ snap'.at = "again" /\ snap'.count = snap.count
        /\ snap'.width = snap.width /\ snap'.period = chan.period
    BY <2>1, <1>t DEF Snapshots
  <2>3. snap.at = "period"
    BY <1>8 DEF P!GetPeriod
  <2>4. Gathered' /\ P!SnapshotWhole'
    BY <1>0, <1>1, <2>2, <2>3 DEF Gathered, P!SnapshotWhole
  <2> QED BY <1>4, <1>6, <2>2, <2>3, <2>4
<1>9. CASE P!GetAgain(snap, snap')
  <2>1. snap' = [at |-> IF chan.count = snap.count THEN "done" ELSE "count",
              count |-> snap.count, width |-> snap.width, period |-> snap.period]
    BY <1>9, <1>t DEF P!GetAgain, Snapshots
  <2>2. /\ snap' \in Snapshots /\ snap'.at = (IF chan.count = snap.count THEN "done" ELSE "count")
        /\ snap'.count = snap.count /\ snap'.width = snap.width /\ snap'.period = snap.period
    BY <2>1, <1>t DEF Snapshots
  <2>3. snap.at = "again"
    BY <1>9 DEF P!GetAgain
  <2>4. Gathered'
    BY <2>2 DEF Gathered
  <2>5. P!SnapshotWhole'
    <3> SUFFICES ASSUME chan.count = snap.count, snap.count > 0, chan.errs = 0
                 PROVE  P!SnapshotWhole'
      BY <1>1, <2>2 DEF P!SnapshotWhole
    <3> DEFINE r == chan.rise
    <3>1. /\ snap.period = <<r - 2, r>> /\ r % 2 = 1
          /\ snap.width \in {<<r - 2, r - 1>>, <<r, r + 1>>}
      BY <1>0, <2>3 DEF Measured, Gathered
    <3>2. r \in Nat /\ (r - 2) % 2 = r % 2
      BY <1>0, Types, Parity
    <3> HIDE DEF r
    <3>3. /\ snap.period[1] % 2 = 1 /\ snap.period[2] = snap.period[1] + 2
          /\ snap.width[1] \in {snap.period[1], snap.period[2]} /\ snap.width[2] = snap.width[1] + 1
      BY <3>1, <3>2
    <3> QED BY <2>2, <3>3 DEF P!SnapshotWhole
  <2> QED BY <1>4, <1>6, <2>2, <2>3, <2>4, <2>5
<1> QED BY <1>1, <1>5, <1>7, <1>8, <1>9 DEF P!Get

(* controls_step: the channel takes the capture, or ages. *)
LEMMA StepInv ==
  ASSUME Inv, P!Step, UNCHANGED <<P!timer, chan, irq>>
  PROVE  Inv'
<1>0. P!TypeOK /\ Counted /\ Measured /\ Gathered /\ P!SnapshotWhole /\ Lagging /\ Aging /\ Standing
  BY DEF Inv
<1>1. /\ reading = "step" /\ snap.at = "done" /\ reading' = "gather" /\ snap' = P!Start
      /\ now' = now /\ flying' = flying /\ rep' = rep /\ gap' = gap
      /\ switched' = switched /\ chan' = chan
      /\ ch' = IF snap.count # ch.count THEN P!Fresh(ch)
               ELSE IF ~ch.seen THEN [ch EXCEPT !.fs = 0, !.target = <<"hold", P!Never>>]
               ELSE P!Aged(ch)
      /\ quiet' = IF snap.count # ch.count THEN 0 ELSE P!UpTo(quiet, Trim + 2)
  BY DEF P!Step
<1>t. /\ now \in 0 .. Turn - 1 /\ snap \in Snapshots /\ ch \in Channels /\ rep \in Reports
      /\ snap.count \in Nat /\ ch.count \in Nat /\ rep.count \in Nat /\ chan.count \in Nat
      /\ snap.count \in P!Edges /\ snap.width \in P!Pairs
      /\ quiet \in 0 .. Trim + 2 /\ gap \in 0 .. Hold + 1 /\ quiet \in Nat
      /\ P!Age(ch.change) \in Nat /\ P!Age(now) = 0 /\ P!Never \in P!Pairs
  BY <1>0, ReaderTypes, AgeRange, Constants DEF P!Edges, P!Pairs, P!Never
<1>2. snap'.at = "count" /\ snap' \in Snapshots
  <2>1. 0 \in P!Edges /\ P!Never \in P!Pairs
    BY Constants DEF P!Edges, P!Pairs, P!Never
  <2> QED BY <1>1, <2>1 DEF P!Start, P!NoSnapshot, Snapshots
<1>3. snap.count <= chan.count
  BY <1>0, <1>1 DEF Lagging
<1>4. quiet' \in 0 .. Trim + 2 /\ (quiet' = 0 \/ quiet' <= quiet + 1)
  BY <1>1, <1>t, Constants DEF P!UpTo
<1>5. Gathered' /\ P!SnapshotWhole'
  BY <1>2 DEF Gathered, P!SnapshotWhole
<1>6. ASSUME ch' \in Channels, ch'.count <= chan.count, Aging', Standing'
      PROVE  Inv'
  <2>1. (Counted /\ Measured)' /\ P!TypeOK'
    BY <1>0, <1>1, <1>2, <1>4, <1>6, <1>t, CoreStays DEF P!TypeOK
  <2>2. Lagging'
    BY <1>0, <1>1, <1>2, <1>6 DEF Lagging
  <2> QED BY <1>5, <1>6, <2>1, <2>2 DEF Inv
<1>7. CASE snap.count # ch.count
  <2>1. ch' = [count |-> snap.count, change |-> now, seen |-> TRUE, fs |-> 0,
               target |-> <<"pulse", snap.width>>]
    BY <1>1, <1>7, <1>t DEF P!Fresh, Channels
  <2>2. /\ ch' \in Channels /\ ch'.count = snap.count /\ ch'.change = now
        /\ ch'.target[1] = "pulse"
    BY <2>1, <1>t DEF Channels
  <2>3. P!Age(ch.change)' = 0
    BY <1>1, <1>t, <2>2 DEF P!Age
  <2>4. quiet' = 0
    BY <1>1, <1>7
  <2> QED BY <1>1, <1>2, <1>3, <1>6, <2>2, <2>3, <2>4 DEF Aging, Standing
<1>8. ASSUME snap.count = ch.count, ch' \in Channels, ch'.count = ch.count, ch'.change = ch.change,
             ch'.target[1] = "trim" => ch'.fs # 0,
             ch'.seen /\ ch'.target[1] # "trim" =>
               ch.seen /\ ch.target[1] # "trim" /\ P!Age(ch.change) <= Trim
      PROVE  Inv'
  <2>1. P!Age(ch.change)' = P!Age(ch.change)
    BY <1>1, <1>8 DEF P!Age
  <2>2. Aging'
    <3>1. ASSUME ch'.seen, ch'.target[1] # "trim", quiet' >= 1
          PROVE  quiet' <= P!Age(ch.change) + 1 /\ P!Age(ch.change) <= Trim
      <4>1. quiet >= 1 => quiet <= P!Age(ch.change)
        BY <1>0, <1>1, <1>8, <3>1 DEF Aging
      <4>2. quiet' <= quiet + 1
        BY <1>4, <3>1
      <4>3. quiet' \in Nat
        BY <1>4, Constants
      <4> QED BY <1>8, <3>1, <4>1, <4>2, <4>3, <1>t
    <3> QED BY <1>1, <1>8, <2>1, <3>1 DEF Aging
  <2>3. Standing'
    BY <1>0, <1>1, <1>2, <1>8, <2>1 DEF Standing, Quiet
  <2> QED BY <1>3, <1>6, <1>8, <2>2, <2>3
<1>9. CASE snap.count = ch.count /\ ~ch.seen
  <2>1. ch' = [count |-> ch.count, change |-> ch.change, seen |-> ch.seen, fs |-> 0,
               target |-> <<"hold", P!Never>>]
    BY <1>1, <1>9, <1>t DEF Channels
  <2>2. ch' \in Channels /\ ch'.count = ch.count /\ ch'.change = ch.change /\ ~ch'.seen
        /\ ch'.target[1] = "hold"
    BY <2>1, <1>9, <1>t DEF Channels
  <2> QED BY <1>8, <1>9, <2>2
<1>10. CASE snap.count = ch.count /\ ch.seen
  <2>0. ch' = P!Aged(ch)
    BY <1>1, <1>10
  <2>1. CASE P!Age(ch.change) > Trim
    <3>1. ch' = [count |-> ch.count, change |-> ch.change, seen |-> ch.seen, fs |-> 2,
                 target |-> <<"trim", P!Never>>]
      BY <2>0, <2>1, <1>t DEF Channels, P!Aged
    <3>2. ch' \in Channels /\ ch'.count = ch.count /\ ch'.change = ch.change /\ ch'.fs # 0
          /\ ch'.target[1] = "trim"
      BY <3>1, <1>t DEF Channels
    <3> QED BY <1>8, <1>10, <3>2
  <2>2. CASE ~(P!Age(ch.change) > Trim) /\ P!Age(ch.change) > Hold
    <3>1. ch' = [count |-> ch.count, change |-> ch.change, seen |-> ch.seen, fs |-> 1,
                 target |-> ch.target]
      BY <2>0, <2>2, <1>t DEF Channels, P!Aged
    <3>2. /\ ch' \in Channels /\ ch'.count = ch.count /\ ch'.change = ch.change /\ ch'.fs # 0
          /\ ch'.target = ch.target /\ ch'.seen = ch.seen
      BY <3>1, <1>t DEF Channels
    <3>3. P!Age(ch.change) <= Trim
      BY <2>2, <1>t, Constants
    <3> QED BY <1>8, <1>10, <3>2, <3>3
  <2>3. CASE ~(P!Age(ch.change) > Trim) /\ ~(P!Age(ch.change) > Hold)
    <3>1. ch' = ch
      BY <2>0, <2>3 DEF P!Aged
    <3>2. P!Age(ch.change) <= Trim
      BY <2>3, <1>t, Constants
    <3>3. ch.target[1] = "trim" => ch.fs # 0
      BY <1>0 DEF Aging
    <3> QED BY <1>8, <1>10, <1>t, <3>1, <3>2, <3>3
  <2> QED BY <2>1, <2>2, <2>3
<1> QED BY <1>7, <1>9, <1>10

(* The report takes the count and its own age. *)
LEMMA GatherInv ==
  ASSUME Inv, P!Gather, UNCHANGED <<P!timer, chan, irq>>
  PROVE  Inv'
<1>0. P!TypeOK /\ Counted /\ Measured /\ Gathered /\ P!SnapshotWhole /\ Lagging /\ Aging /\ Standing
  BY DEF Inv
<1> DEFINE change == IF snap.count # rep.count THEN now ELSE rep.change
           w == IF P!Age(change) > Hold THEN P!Zero ELSE snap.width
<1>1. /\ reading = "gather" /\ snap.at = "done" /\ reading' = "top" /\ snap' = P!NoSnapshot
      /\ now' = now /\ flying' = flying /\ ch' = ch /\ quiet' = quiet
      /\ switched' = switched /\ chan' = chan
      /\ rep' = [count |-> snap.count, change |-> change, w |-> w]
      /\ gap' = IF snap.count # rep.count THEN 0 ELSE P!UpTo(gap, Hold + 1)
  BY DEF P!Gather
<1>t. /\ now \in 0 .. Turn - 1 /\ rep.change \in 0 .. Turn - 1 /\ ch \in Channels
      /\ snap.count \in Nat /\ ch.count \in Nat /\ rep.count \in Nat /\ chan.count \in Nat
      /\ snap.count \in P!Edges /\ snap.width \in P!Pairs /\ gap \in 0 .. Hold + 1 /\ gap \in Nat
      /\ quiet \in 0 .. Trim + 2 /\ P!Age(ch.change) \in Nat
  BY <1>0, ReaderTypes
<1>2. change \in 0 .. Turn - 1 /\ w \in P!Pairs
  <2>1. P!Zero \in P!Pairs
    BY Constants DEF P!Zero, P!Pairs, P!Edges
  <2> QED BY <1>t, <2>1
<1> HIDE DEF change, w
<1>3. rep' \in Reports /\ rep'.count = snap.count
  BY <1>1, <1>2, <1>t DEF Reports
<1>4. snap'.at = "off" /\ snap' \in Snapshots
  <2>1. 0 \in P!Edges /\ P!Never \in P!Pairs
    BY Constants DEF P!Edges, P!Pairs, P!Never
  <2> QED BY <1>1, <2>1 DEF P!NoSnapshot, Snapshots
<1>5. ch.count <= snap.count /\ snap.count <= chan.count /\ ch.count <= chan.count
  BY <1>0, <1>1 DEF Lagging
<1>6. gap' \in 0 .. Hold + 1
  BY <1>1, <1>t, Constants DEF P!UpTo
<1>7. (Counted /\ Measured)' /\ P!TypeOK'
  BY <1>0, <1>1, <1>3, <1>4, <1>6, <1>t, CoreStays DEF P!TypeOK
<1>8. Gathered' /\ P!SnapshotWhole' /\ Lagging'
  BY <1>1, <1>3, <1>4, <1>5 DEF Gathered, P!SnapshotWhole, Lagging
<1>9. P!Age(ch.change)' = P!Age(ch.change)
  BY <1>1 DEF P!Age
<1>10. Aging'
  BY <1>0, <1>1, <1>9 DEF Aging
<1>11. Standing'
  <2>1. ASSUME chan.count = ch.count
        PROVE  snap.count = ch.count /\ (gap' >= P!Age(ch.change) \/ gap' >= Hold)
    <3>1. snap.count = ch.count
      BY <1>5, <2>1, <1>t
    <3>2. \/ rep.count = ch.count /\ (gap >= P!Age(ch.change) - 1 \/ gap >= Hold)
          \/ P!Age(ch.change) = 0
      BY <1>0, <1>1, <2>1 DEF Standing, Quiet
    <3>3. rep.count = ch.count => gap' = P!UpTo(gap, Hold + 1)
      BY <1>1, <3>1
    <3> QED BY <3>1, <3>2, <3>3, <1>6, <1>t, Constants DEF P!UpTo
  <2> QED BY <1>1, <1>3, <1>9, <2>1 DEF Standing, Quiet
<1> QED BY <1>7, <1>8, <1>10, <1>11 DEF Inv

LEMMA NextInv == Inv /\ [P!Next]_(P!vars) => Inv'
<1> SUFFICES ASSUME Inv, [P!Next]_(P!vars) PROVE Inv'
  OBVIOUS
<1>1. CASE P!Capture /\ UNCHANGED P!readers
  BY <1>1, CaptureInv
<1>2. CASE P!Thread
  BY <1>2, TopInv, ReadInv, StepInv, GatherInv DEF P!Thread
<1>3. CASE UNCHANGED P!vars
  <2>1. UNCHANGED P!readers
    BY <1>3 DEF P!vars
  <2>2. edge' = edge /\ flag' = flag /\ over' = over /\ ccr' = ccr /\ chan' = chan /\ irq' = irq
    BY <1>3 DEF P!vars, P!timer
  <2>3. /\ P!TypeOK /\ chan.count \in Nat
        /\ edge \in P!Edges /\ ccr \in P!Edges /\ flag \in BOOLEAN /\ over \in BOOLEAN /\ chan \in Chan
        /\ irq \in [at : {"off", "capture", "level"}, sr : SUBSET {"IF", "OF"}, cap : P!Edges]
    BY Types DEF Inv, P!TypeOK, Chan
  <2>4. (Counted /\ Measured)'
    BY <2>2, CoreStays DEF P!timer
  <2> QED BY <2>1, <2>2, <2>3, <2>4, CoreStep
<1> QED BY <1>1, <1>2, <1>3 DEF P!Next

-----------------------------------------------------------------------------

(* For every number of edges, pair of ages and wrap of the clock: a snapshot *)
(* is of one moment, and every variable stays in its type (pwm.c).           *)
THEOREM SnapshotOfOneMoment == P!Spec => [](P!TypeOK /\ SnapshotWhole)
<1>1. Inv => P!TypeOK /\ SnapshotWhole
  BY DEF Inv, SnapshotWhole
<1> QED BY <1>1, InitInv, NextInv, PTL DEF P!Spec

(* A channel that stays silent while it is stepped falls back to trim, and   *)
(* stays there however often the clock wraps (controls.c).                   *)
THEOREM SilenceCaught == P!Spec => []SilentFallsBack
<1>1. Inv => SilentFallsBack
  <2> SUFFICES ASSUME Inv, quiet > Trim + 1, ch.seen
               PROVE  ch.fs # 0 /\ ch.target[1] = "trim"
    BY DEF Inv, SilentFallsBack, P!SilentFallsBack
  <2>1. quiet \in Nat /\ P!Age(ch.change) \in Nat
    BY ReaderTypes DEF Inv
  <2>2. ch.target[1] = "trim"
    <3> SUFFICES ASSUME ch.target[1] # "trim" PROVE FALSE
      OBVIOUS
    <3>1. \/ quiet <= P!Age(ch.change) + 1 /\ P!Age(ch.change) <= Trim
          \/ quiet <= P!Age(ch.change) /\ P!Age(ch.change) <= Trim + 1
      BY <2>1, Constants DEF Inv, Aging
    <3> QED BY <2>1, <3>1, Constants
  <2> QED BY <2>2 DEF Inv, Aging
<1> QED BY <1>1, InitInv, NextInv, PTL DEF P!Spec

(* And only a silent one is put into failsafe: no capture was reported to    *)
(* either reader for Hold ticks before (controls.c:94).                     *)
THEOREM FailsafeJustified == P!Spec => FailsafeOnlySilent
<1>1. Inv /\ [P!Next]_(P!vars) => [ch.fs = 0 /\ ch'.fs # 0 => gap >= Hold]_(P!vars)
  <2> SUFFICES ASSUME Inv, P!Next, ch.fs = 0, ch'.fs # 0 PROVE gap >= Hold
    OBVIOUS
  <2>1. P!Step
    BY DEF P!Next, P!Thread, P!Top, P!Read, P!Gather, P!readers
  <2>2. ch \in Channels /\ P!Age(ch.change) \in Nat /\ gap \in Nat
    BY ReaderTypes DEF Inv
  <2>3. snap.count = ch.count /\ P!Age(ch.change) > Hold
    <3>1. snap.count # ch.count => ch'.fs = 0
      BY <2>1, <2>2 DEF P!Step, P!Fresh, Channels
    <3>2. snap.count = ch.count /\ ~ch.seen => ch'.fs = 0
      BY <2>1, <2>2 DEF P!Step, Channels
    <3>3. snap.count = ch.count /\ ch.seen => ch' = P!Aged(ch)
      BY <2>1 DEF P!Step
    <3>4. P!Age(ch.change) > Trim => P!Age(ch.change) > Hold
      BY <2>2, Constants
    <3>5. ~(P!Age(ch.change) > Trim) /\ ~(P!Age(ch.change) > Hold) => P!Aged(ch) = ch
      BY DEF P!Aged
    <3> QED BY <3>1, <3>2, <3>3, <3>4, <3>5
  <2>4. Quiet(P!Age(ch.change) - 1)
    BY <2>1, <2>3 DEF Inv, Standing, P!Step
  <2> QED BY <2>2, <2>3, <2>4, Constants DEF Quiet
<1> QED BY <1>1, InitInv, NextInv, PTL DEF P!Spec, FailsafeOnlySilent, P!FailsafeOnlySilent

=============================================================================
