--------------------------- MODULE MainLoopProofs ---------------------------
(* Proofs about the two timetables of the main loop: the truth reports,    *)
(* for every period, lag and wrap, and the sampler, for every set of rates *)
(* and every cost of the work the processor can bear; and about what the   *)
(* receiver reads of a message, whatever its values.                       *)
EXTENDS MainLoop, FiniteSetTheorems, SequenceTheorems, WellFoundedInduction, TLAPS

(* While the flight model is on, the timer is in its period, and a report  *)
(* waits no longer than the timer has run and the round that enabled it.   *)
Inv ==
  /\ TypeOK
  /\ fdm_mode => since["truth"] < TruthPeriod /\ wait["truth"] <= since["truth"] + MaxRound
  /\ ~fdm_mode => wait["truth"] = 0

(* A snapshot is at least as old as its stamp says: the clock wraps, the   *)
(* stamp's age with it, never the other way.                               *)
Stamped ==
  /\ \A s \in Slot : ring[s] # None => age[s] >= ring[s] \/ age[s] = Horizon
  /\ FixNotEarly

(* Every nonempty set of naturals has a least element. *)
LEMMA LeastElement ==
  ASSUME NEW Some \in SUBSET Nat, Some # {}
  PROVE  \E m \in Some : \A e \in Some : m <= e
<1> DEFINE R == OpToRel(<, Nat)
<1>1. \A a, b \in Nat : a < b => <<a, b>> \in R
  BY DEF OpToRel
<1>2. IsWellFoundedOn(R, Nat)
  BY NatLessThanWellFounded
<1> HIDE DEF R
<1>3. PICK m \in Some : \A e \in Some : <<e, m>> \notin R
  BY <1>2, WFMin
<1>4. ASSUME NEW e \in Some, e < m PROVE FALSE
  <2>1. <<e, m>> \in R
    BY <1>1, <1>4
  <2> QED BY <1>3, <2>1
<1>5. ASSUME NEW e \in Some PROVE m <= e
  BY <1>4
<1> QED BY <1>5

(* The constants are positive.                                             *)
LEMMA Constants ==
  /\ Wrap \in Nat /\ Wrap > 0 /\ Slots \in Nat /\ Slots > 0
  /\ TruthPeriod \in Nat /\ TruthPeriod > 0
  /\ MaxRound \in Nat /\ MaxRound > 0
  /\ TruthPeriod + MaxRound < Wrap
  /\ Horizon \in Nat /\ MaxCommands \in Nat
BY FeedAssumption

(* A lag lies within the times told apart.                                 *)
LEMMA LagBound == \A l \in Lags : l \in Nat /\ l <= Horizon
<1> SUFFICES ASSUME NEW l \in Lags PROVE l \in Nat /\ l <= Horizon
  OBVIOUS
<1>1. /\ l \in Nat /\ l + TruthPeriod + FixPeriod + 2 * MaxRound <= Horizon
      /\ FixPeriod \in Nat
  BY FeedAssumption
<1> QED BY <1>1, Constants

(* A clock difference after one round.                                     *)
LEMMA Clock ==
  ASSUME NEW a \in 0 .. Wrap - 1, NEW dt \in 1 .. MaxRound
  PROVE  /\ (a + dt) % Wrap \in 0 .. Wrap - 1
         /\ a + dt < Wrap => (a + dt) % Wrap = a + dt
BY Constants, SMT

(* A time after one round, as far as it is told apart.                     *)
LEMMA LaterType ==
  ASSUME NEW t \in 0 .. Horizon, NEW dt \in 1 .. MaxRound
  PROVE  Later(t, dt) \in 0 .. Horizon /\ Later(t, dt) <= t + dt
BY Constants DEF Later, Least

(* A slot of the ring counted from its head.                               *)
LEMMA SlotMod ==
  ASSUME NEW a \in Int
  PROVE  a % Slots \in Slot
BY Constants, SMT DEF Slot

(* The snapshot the feed takes is one of the ring, if there is one.        *)
LEMMA SnapType ==
  ASSUME gps_head \in Slot, NEW dt
  PROVE  Snap(dt) = None \/ Snap(dt) \in Slot
<1>1. CASE Lagged(dt) = {}
  BY <1>1 DEF Snap
<1>2. CASE Lagged(dt) # {}
  <2>1. Lagged(dt) \in SUBSET Nat
    BY Constants DEF Lagged, Slot
  <2>2. \E i \in Lagged(dt) : \A j \in Lagged(dt) : i <= j
    BY <1>2, <2>1, LeastElement
  <2> DEFINE i == CHOOSE k \in Lagged(dt) : \A j \in Lagged(dt) : k <= j
  <2>3. i \in Nat
    BY <2>1, <2>2
  <2>4. gps_head - 1 - i \in Int
    BY <2>3, Constants DEF Slot
  <2>5. (gps_head - 1 - i) % Slots \in Slot
    BY <2>4, SlotMod
  <2>6. Snap(dt) = (gps_head - 1 - i) % Slots
    BY <1>2 DEF Snap
  <2> QED BY <2>5, <2>6
<1> QED BY <1>1, <1>2

(* It holds at the start.                                                  *)
LEMMA InitInv == Init => Inv
<1> SUFFICES ASSUME Init PROVE Inv
  OBVIOUS
<1>1. since \in [Report -> 0 .. Wrap - 1] /\ wait \in [Report -> 0 .. Horizon]
  BY Constants DEF Init
<1>2. fdm_mode \in BOOLEAN /\ gps_enable \in BOOLEAN /\ lag \in Lags
  BY DEF Init
<1>3. ring \in [Slot -> {None} \union 0 .. Wrap - 1] /\ gps_head \in Slot
  BY Constants DEF Init, Slot
<1>4. fix \in {None} \union 0 .. Horizon /\ age \in [Slot -> 0 .. Horizon]
  BY Constants DEF Init
<1>5. calm \in 0 .. Horizon /\ ncommands \in 0 .. MaxCommands
  BY Constants DEF Init
<1>6. ~fdm_mode /\ wait["truth"] = 0
  BY DEF Init, Report
<1> QED BY <1>1, <1>2, <1>3, <1>4, <1>5, <1>6 DEF Inv, TypeOK

(* What the host sets is something it may set.                             *)
LEMMA CommandType ==
  ASSUME TypeOK, NEW dt \in 1 .. MaxRound, Command(dt)
  PROVE  /\ fdm_mode' \in BOOLEAN /\ gps_enable' \in BOOLEAN /\ lag' \in Lags
         /\ calm' \in 0 .. Horizon /\ ncommands' \in 0 .. MaxCommands
<1>0. /\ fdm_mode \in BOOLEAN /\ gps_enable \in BOOLEAN /\ lag \in Lags
      /\ calm \in 0 .. Horizon /\ ncommands \in 0 .. MaxCommands
  BY DEF TypeOK
<1>1. CASE UNCHANGED <<switch, ncommands>> /\ calm' = Later(calm, dt)
  <2>1. /\ fdm_mode' = fdm_mode /\ gps_enable' = gps_enable /\ lag' = lag
        /\ ncommands' = ncommands
    BY <1>1 DEF switch
  <2> QED BY <1>0, <1>1, <2>1, LaterType
<1>2. CASE /\ ncommands < MaxCommands /\ ncommands' = ncommands + 1
           /\ \/ fdm_mode' \in BOOLEAN /\ UNCHANGED <<gps_enable, lag>>
              \/ gps_enable' \in BOOLEAN /\ lag' \in Lags /\ UNCHANGED fdm_mode
           /\ calm' = 0
  <2>1. calm' \in 0 .. Horizon /\ ncommands' \in 0 .. MaxCommands
    BY <1>0, <1>2, Constants
  <2>2. fdm_mode' \in BOOLEAN /\ gps_enable' \in BOOLEAN /\ lag' \in Lags
    BY <1>0, <1>2
  <2> QED BY <2>1, <2>2
<1> QED BY <1>1, <1>2 DEF Command

(* The ring after a round.                                                 *)
LEMMA PublishType ==
  ASSUME TypeOK, NEW dt \in 1 .. MaxRound, Publish(dt)
  PROVE  /\ ring' \in [Slot -> {None} \union 0 .. Wrap - 1]
         /\ age' \in [Slot -> 0 .. Horizon] /\ gps_head' \in Slot
<1>0. /\ ring \in [Slot -> {None} \union 0 .. Wrap - 1]
      /\ age \in [Slot -> 0 .. Horizon] /\ gps_head \in Slot
  BY DEF TypeOK
<1> DEFINE older == [s \in Slot |-> Later(age[s], dt)]
           past == [s \in Slot |-> IF ring[s] = None THEN None ELSE (ring[s] + dt) % Wrap]
<1>1. older \in [Slot -> 0 .. Horizon]
  BY <1>0, LaterType
<1>2. past \in [Slot -> {None} \union 0 .. Wrap - 1]
  <2> SUFFICES ASSUME NEW s \in Slot, ring[s] # None
               PROVE  (ring[s] + dt) % Wrap \in 0 .. Wrap - 1
    OBVIOUS
  <2>1. ring[s] \in 0 .. Wrap - 1
    BY <1>0
  <2> QED BY <2>1, Clock
<1>3. 0 \in 0 .. Horizon /\ 0 \in 0 .. Wrap - 1
  BY Constants
<1>4. (gps_head + 1) % Slots \in Slot
  <2>1. gps_head + 1 \in Int
    BY <1>0, Constants DEF Slot
  <2> QED BY <2>1, SlotMod
<1>5. CASE Due("truth", dt)
  <2>1. /\ ring' = [past EXCEPT ![gps_head] = 0] /\ age' = [older EXCEPT ![gps_head] = 0]
        /\ gps_head' = (gps_head + 1) % Slots
    BY <1>5 DEF Publish
  <2> HIDE DEF older, past
  <2> QED BY <2>1, <1>1, <1>2, <1>3, <1>4
<1>6. CASE ~Due("truth", dt)
  <2>1. ring' = past /\ age' = older /\ gps_head' = gps_head
    BY <1>6 DEF Publish
  <2> QED BY <2>1, <1>0, <1>1, <1>2
<1> QED BY <1>5, <1>6

(* A round keeps every variable in its type.                               *)
LEMMA RoundType ==
  ASSUME TypeOK, NEW dt \in 1 .. MaxRound, Round(dt)
  PROVE  TypeOK'
<1>1. /\ fdm_mode' \in BOOLEAN /\ gps_enable' \in BOOLEAN /\ lag' \in Lags
      /\ calm' \in 0 .. Horizon /\ ncommands' \in 0 .. MaxCommands
  BY CommandType DEF Round
<1>2. /\ ring' \in [Slot -> {None} \union 0 .. Wrap - 1]
      /\ age' \in [Slot -> 0 .. Horizon] /\ gps_head' \in Slot
  BY PublishType DEF Round
<1>3. fix' \in {None} \union 0 .. Horizon
  <2>1. Snap(dt) = None \/ Snap(dt) \in Slot
    BY SnapType DEF TypeOK
  <2>2. age \in [Slot -> 0 .. Horizon]
    BY DEF TypeOK
  <2>3. fix' = None \/ (Snap(dt) # None /\ fix' = Later(age[Snap(dt)], dt))
    BY DEF Round, FeedFix
  <2>4. CASE Snap(dt) # None /\ fix' = Later(age[Snap(dt)], dt)
    <3>1. age[Snap(dt)] \in 0 .. Horizon
      BY <2>1, <2>2, <2>4
    <3> QED BY <2>4, <3>1, LaterType
  <2> QED BY <2>3, <2>4
<1>4. since' \in [Report -> 0 .. Wrap - 1]
  <2>1. since' = [r \in Report |-> IF Due(r, dt) THEN 0 ELSE (since[r] + dt) % Wrap]
    BY DEF Round
  <2> SUFFICES ASSUME NEW r \in Report
               PROVE  (IF Due(r, dt) THEN 0 ELSE (since[r] + dt) % Wrap) \in 0 .. Wrap - 1
    BY <2>1
  <2>2. since[r] \in 0 .. Wrap - 1
    BY DEF TypeOK
  <2> QED BY <2>2, Clock, Constants
<1>5. wait' \in [Report -> 0 .. Horizon]
  <2>1. wait' = [r \in Report |-> IF Enabled(r) /\ ~Sent(r, dt) THEN Later(wait[r], dt) ELSE 0]
    BY DEF Round
  <2> SUFFICES ASSUME NEW r \in Report
               PROVE  (IF Enabled(r) /\ ~Sent(r, dt) THEN Later(wait[r], dt) ELSE 0) \in 0 .. Horizon
    BY <2>1
  <2>2. wait[r] \in 0 .. Horizon
    BY DEF TypeOK
  <2> QED BY <2>2, LaterType, Constants
<1> QED BY <1>1, <1>2, <1>3, <1>4, <1>5 DEF TypeOK

(* A round keeps the timer of the truth reports on time.                   *)
LEMMA RoundTimer ==
  ASSUME Inv, NEW dt \in 1 .. MaxRound, Round(dt)
  PROVE  /\ fdm_mode' => /\ since'["truth"] < TruthPeriod
                         /\ wait'["truth"] <= since'["truth"] + MaxRound
         /\ ~fdm_mode' => wait'["truth"] = 0
<1> DEFINE d == (since["truth"] + dt) % Wrap
<1>1. "truth" \in Report
  BY DEF Report
<1>2. since["truth"] \in 0 .. Wrap - 1 /\ wait["truth"] \in 0 .. Horizon
  BY <1>1 DEF Inv, TypeOK
<1>3. /\ since'["truth"] = (IF Due("truth", dt) THEN 0 ELSE d)
      /\ wait'["truth"] = (IF Enabled("truth") /\ ~Sent("truth", dt)
                           THEN Later(wait["truth"], dt) ELSE 0)
  BY <1>1 DEF Round
<1>4. (Enabled("truth") <=> fdm_mode') /\ (Sent("truth", dt) <=> Due("truth", dt))
  BY DEF Enabled, Sent
<1>5. Due("truth", dt) <=> fdm_mode' /\ d >= TruthPeriod
  BY DEF Due, Past
<1>6. d \in 0 .. Wrap - 1 /\ (since["truth"] + dt < Wrap => d = since["truth"] + dt)
  BY <1>2, Clock
<1>7. Later(wait["truth"], dt) <= wait["truth"] + dt /\ Later(wait["truth"], dt) \in Nat
  BY <1>2, LaterType
<1>8. CASE ~fdm_mode'
  BY <1>3, <1>4, <1>8
<1>9. CASE fdm_mode' /\ d >= TruthPeriod
  BY <1>3, <1>4, <1>5, <1>9, Constants
<1>10. CASE fdm_mode' /\ ~(d >= TruthPeriod)
  <2>1. since'["truth"] = d /\ wait'["truth"] = Later(wait["truth"], dt)
    BY <1>3, <1>4, <1>5, <1>10
  <2>2. d < TruthPeriod
    BY <1>6, <1>10, Constants
  <2>3. CASE fdm_mode
    <3>1. since["truth"] < TruthPeriod /\ wait["truth"] <= since["truth"] + MaxRound
      BY <2>3 DEF Inv
    <3>2. d = since["truth"] + dt
      BY <3>1, <1>2, <1>6, Constants
    <3> QED BY <2>1, <2>2, <3>1, <3>2, <1>2, <1>7, <1>10, Constants
  <2>4. CASE ~fdm_mode
    <3>1. wait["truth"] = 0
      BY <2>4 DEF Inv
    <3> QED BY <2>1, <2>2, <3>1, <1>6, <1>7, <1>10, Constants
  <2> QED BY <2>3, <2>4
<1> QED BY <1>8, <1>9, <1>10

(* It is kept by every step.                                               *)
LEMMA NextInv == Inv /\ [Next]_vars => Inv'
<1> SUFFICES ASSUME Inv, [Next]_vars PROVE Inv'
  OBVIOUS
<1>1. CASE Next
  <2>1. PICK dt \in 1 .. MaxRound : Round(dt)
    BY <1>1 DEF Next
  <2>2. TypeOK'
    BY <2>1, RoundType DEF Inv
  <2> QED BY <2>1, <2>2, RoundTimer DEF Inv
<1>2. CASE UNCHANGED vars
  <2>1. /\ since' = since /\ fdm_mode' = fdm_mode /\ gps_enable' = gps_enable /\ lag' = lag
        /\ ring' = ring /\ gps_head' = gps_head /\ fix' = fix /\ age' = age /\ calm' = calm
        /\ wait' = wait /\ ncommands' = ncommands
    BY <1>2 DEF vars, switch
  <2> QED BY <2>1 DEF Inv, TypeOK
<1> QED BY <1>1, <1>2

(* A slot's age and its stamp's after one round.                           *)
LEMMA Ages ==
  ASSUME NEW r \in 0 .. Wrap - 1, NEW a \in 0 .. Horizon, NEW dt \in 1 .. MaxRound,
         a >= r \/ a = Horizon
  PROVE  Later(a, dt) >= (r + dt) % Wrap \/ Later(a, dt) = Horizon
<1>1. (r + dt) % Wrap <= r + dt /\ (r + dt) % Wrap \in Nat
  BY Constants, SMT
<1> QED BY <1>1, Constants DEF Later, Least

(* The snapshot a Fix2 is made of is one the lag admits.                   *)
LEMMA SnapLagged ==
  ASSUME TypeOK, NEW dt \in 1 .. MaxRound, Snap(dt) # None
  PROVE  /\ Snap(dt) \in Slot /\ ring[Snap(dt)] # None
         /\ (ring[Snap(dt)] + dt) % Wrap >= lag'
<1>1. Lagged(dt) # {}
  BY DEF Snap
<1>2. Lagged(dt) \in SUBSET Nat
  BY Constants DEF Lagged, Slot
<1>3. \E i \in Lagged(dt) : \A j \in Lagged(dt) : i <= j
  BY <1>1, <1>2, LeastElement
<1> DEFINE i == CHOOSE k \in Lagged(dt) : \A j \in Lagged(dt) : k <= j
           s == (gps_head - 1 - i) % Slots
<1>4. i \in Lagged(dt) /\ i \in Nat
  BY <1>2, <1>3
<1>5. Snap(dt) = s
  BY <1>1 DEF Snap
<1>6. ring[s] # None /\ (ring[s] + dt) % Wrap >= lag'
  BY <1>4 DEF Lagged
<1>7. Snap(dt) \in Slot
  BY SnapType DEF TypeOK
<1> QED BY <1>5, <1>6, <1>7

(* The ages stay true to the stamps, and the feed behind the lag.          *)
LEMMA RoundStamped ==
  ASSUME TypeOK, TypeOK', Stamped, NEW dt \in 1 .. MaxRound, Round(dt)
  PROVE  Stamped'
<1>0. /\ ring \in [Slot -> {None} \union 0 .. Wrap - 1]
      /\ age \in [Slot -> 0 .. Horizon] /\ gps_head \in Slot
  BY DEF TypeOK
<1> DEFINE older == [s \in Slot |-> Later(age[s], dt)]
           past == [s \in Slot |-> IF ring[s] = None THEN None ELSE (ring[s] + dt) % Wrap]
<1>1. ASSUME NEW s \in Slot, past[s] # None
      PROVE  older[s] >= past[s] \/ older[s] = Horizon
  <2>1. ring[s] # None /\ past[s] = (ring[s] + dt) % Wrap /\ older[s] = Later(age[s], dt)
    BY <1>1
  <2>2. ring[s] \in 0 .. Wrap - 1 /\ age[s] \in 0 .. Horizon
    BY <1>0, <2>1
  <2>3. age[s] >= ring[s] \/ age[s] = Horizon
    BY <2>1 DEF Stamped
  <2> QED BY <2>1, <2>2, <2>3, Ages
<1>2. ASSUME NEW s \in Slot, ring'[s] # None
      PROVE  age'[s] >= ring'[s] \/ age'[s] = Horizon
  <2>1. CASE Due("truth", dt)
    <3>1. ring' = [past EXCEPT ![gps_head] = 0] /\ age' = [older EXCEPT ![gps_head] = 0]
      BY <2>1 DEF Round, Publish
    <3>2. CASE s = gps_head
      <4>1. ring'[s] = 0 /\ age'[s] = 0
        BY <3>1, <3>2
      <4> QED BY <4>1
    <3>3. CASE s # gps_head
      <4>1. ring'[s] = past[s] /\ age'[s] = older[s]
        BY <3>1, <3>3
      <4> QED BY <4>1, <1>1, <1>2
    <3> QED BY <3>2, <3>3
  <2>2. CASE ~Due("truth", dt)
    <3>1. ring' = past /\ age' = older
      BY <2>2 DEF Round, Publish
    <3> QED BY <3>1, <1>1, <1>2
  <2> QED BY <2>1, <2>2
<1>3. FixNotEarly'
  <2>1. CASE fix' = None
    BY <2>1 DEF FixNotEarly
  <2>2. CASE fix' # None
    <3> DEFINE s == Snap(dt)
    <3>1. s # None /\ fix' = Later(age[s], dt)
      BY <2>2 DEF Round, FeedFix
    <3>2. s \in Slot /\ ring[s] # None /\ (ring[s] + dt) % Wrap >= lag'
      BY <3>1, SnapLagged
    <3> HIDE DEF s
    <3>3. ring[s] \in 0 .. Wrap - 1 /\ age[s] \in 0 .. Horizon
      BY <1>0, <3>2
    <3>4. age[s] >= ring[s] \/ age[s] = Horizon
      BY <3>2 DEF Stamped
    <3>5. Later(age[s], dt) >= (ring[s] + dt) % Wrap \/ Later(age[s], dt) = Horizon
      BY <3>3, <3>4, Ages
    <3>6. lag' \in Nat /\ lag' <= Horizon
      BY LagBound DEF TypeOK
    <3>7. (ring[s] + dt) % Wrap \in Nat /\ Later(age[s], dt) \in Nat
      BY <3>3, Clock, LaterType
    <3>8. fix' >= lag'
      BY <3>1, <3>2, <3>5, <3>6, <3>7, Constants
    <3> QED BY <3>8 DEF FixNotEarly
  <2> QED BY <2>1, <2>2
<1> QED BY <1>2, <1>3 DEF Stamped

(* The snapshots, the newest first.                                        *)
Pos(i) == (gps_head - 1 - i) % Slots
Held(i) == ring[Pos(i)] # None
Age(i) == age[Pos(i)]
Apart == TruthPeriod + MaxRound

(* A stamp's age is the snapshot's until the clock wraps.                  *)
StampTrue ==
  \A s \in Slot : ring[s] # None /\ age[s] < Horizon /\ age[s] < Wrap => ring[s] = age[s]

(* The ring fills from its newest end, and snapshots are a period apart.   *)
Spaced ==
  /\ \A i \in 0 .. Slots - 2 : Held(i + 1) => Held(i)
  /\ \A i \in Slot : Held(i) => Age(i) >= Least(since["truth"] + i * TruthPeriod, Horizon)

(* While nothing is switched the snapshots come without a gap, the newest  *)
(* with the last truth report: a gap is as old as the last command.        *)
Dense ==
  /\ calm <= since["truth"] \/ (Held(0) /\ Age(0) = since["truth"])
  /\ \A i \in 0 .. Slots - 2 : Held(i) /\ Age(i) < calm =>
       calm <= Age(i) + Apart \/ (Held(i + 1) /\ Age(i + 1) <= Age(i) + Apart)

(* A Fix2 that waits longer than its timer waits for a snapshot.           *)
Feeding ==
  /\ ~(gps_enable /\ fdm_mode) => wait["fix"] = 0
  /\ gps_enable /\ fdm_mode =>
       /\ since["fix"] < FixPeriod
       /\ lag <= (Slots - 1) * TruthPeriod =>
            wait["fix"] <= since["fix"] \/ calm < lag + Apart + since["fix"]

FeedInv == StampTrue /\ Spaced /\ (fdm_mode => Dense) /\ Feeding /\ FixNotStale

(* Places in the ring: the newest is before the head, and a new snapshot   *)
(* moves every other one place on.                                         *)
LEMMA Places ==
  ASSUME NEW h \in Slot, NEW i \in Slot
  PROVE  /\ (h - 1 - i) % Slots \in Slot
         /\ i < Slots - 1 => (h - 1 - i) % Slots # h
         /\ (((h + 1) % Slots) - 1) % Slots = h
         /\ i < Slots - 1 => (((h + 1) % Slots) - 1 - (i + 1)) % Slots = (h - 1 - i) % Slots
<1>0. Slots \in Nat /\ Slots > 0 /\ h \in 0 .. Slots - 1 /\ i \in 0 .. Slots - 1
  BY Constants DEF Slot
<1>1. ASSUME NEW a \in 0 .. Slots - 1 PROVE a % Slots = a
  BY <1>0, <1>1, SMT
<1>2. ASSUME NEW a \in -Slots .. -1 PROVE a % Slots = a + Slots
  BY <1>0, <1>2, SMT
<1>3. Slots % Slots = 0
  BY <1>0, SMT
<1>4. CASE i <= h - 1
  <2>1. (h - 1 - i) % Slots = h - 1 - i
    BY <1>0, <1>1, <1>4
  <2>2. CASE h + 1 < Slots
    <3>1. (h + 1) % Slots = h + 1
      BY <1>0, <1>1, <2>2
    <3>2. (h + 1 - 1) % Slots = h
      BY <1>0, <1>1
    <3>3. h + 1 - 1 - (i + 1) = h - 1 - i
      BY <1>0
    <3> QED BY <1>0, <1>4, <2>1, <3>1, <3>2, <3>3 DEF Slot
  <2>3. CASE h + 1 = Slots
    <3>1. (h + 1) % Slots = 0
      BY <1>3, <2>3
    <3>2. (0 - 1) % Slots = h
      BY <1>0, <1>2, <2>3
    <3>3. i < Slots - 1 => (0 - 1 - (i + 1)) % Slots = h - 1 - i
      BY <1>0, <1>2, <2>3
    <3> QED BY <1>0, <1>4, <2>1, <3>1, <3>2, <3>3 DEF Slot
  <2> QED BY <1>0, <2>2, <2>3
<1>5. CASE i > h - 1
  <2>1. (h - 1 - i) % Slots = h - 1 - i + Slots
    BY <1>0, <1>2, <1>5
  <2>2. CASE h + 1 < Slots
    <3>1. (h + 1) % Slots = h + 1
      BY <1>0, <1>1, <2>2
    <3>2. (h + 1 - 1) % Slots = h
      BY <1>0, <1>1
    <3>3. h + 1 - 1 - (i + 1) = h - 1 - i
      BY <1>0
    <3> QED BY <1>0, <1>5, <2>1, <3>1, <3>2, <3>3 DEF Slot
  <2>3. CASE h + 1 = Slots
    <3>1. (h + 1) % Slots = 0
      BY <1>3, <2>3
    <3>2. (0 - 1) % Slots = h
      BY <1>0, <1>2, <2>3
    <3>3. i = Slots - 1
      BY <1>0, <1>5, <2>3
    <3> QED BY <1>0, <1>5, <2>1, <3>1, <3>2, <3>3 DEF Slot
  <2> QED BY <1>0, <2>2, <2>3
<1> QED BY <1>0, <1>4, <1>5

(* What the time and the stamps are after one round.                       *)
LEMMA LaterOf ==
  ASSUME NEW t \in 0 .. Horizon, NEW dt \in 1 .. MaxRound
  PROVE  Later(t, dt) = IF t + dt < Horizon THEN t + dt ELSE Horizon
BY Constants DEF Later, Least

(* The places of the snapshots are slots.                                  *)
LEMMA PosType ==
  ASSUME TypeOK, NEW i \in Slot
  PROVE  /\ Pos(i) \in Slot /\ Age(i) \in 0 .. Horizon
         /\ Held(i) => ring[Pos(i)] \in 0 .. Wrap - 1
<1>1. Pos(i) \in Slot
  BY Places DEF TypeOK, Pos
<1>2. age[Pos(i)] \in 0 .. Horizon /\ ring[Pos(i)] \in {None} \union 0 .. Wrap - 1
  BY <1>1 DEF TypeOK
<1> QED BY <1>1, <1>2 DEF Age, Held

(* One slot after one round.                                               *)
LEMMA SlotStep ==
  ASSUME TypeOK, NEW dt \in 1 .. MaxRound, Publish(dt), NEW s \in Slot
  PROVE  /\ Due("truth", dt) /\ s = gps_head => ring'[s] = 0 /\ age'[s] = 0
         /\ ~(Due("truth", dt) /\ s = gps_head) =>
              /\ ring'[s] = IF ring[s] = None THEN None ELSE (ring[s] + dt) % Wrap
              /\ age'[s] = Later(age[s], dt)
<1> DEFINE older == [x \in Slot |-> Later(age[x], dt)]
           past == [x \in Slot |-> IF ring[x] = None THEN None ELSE (ring[x] + dt) % Wrap]
<1>1. CASE Due("truth", dt)
  <2>1. ring' = [past EXCEPT ![gps_head] = 0] /\ age' = [older EXCEPT ![gps_head] = 0]
    BY <1>1 DEF Publish
  <2> QED BY <1>1, <2>1
<1>2. CASE ~Due("truth", dt)
  <2>1. ring' = past /\ age' = older
    BY <1>2 DEF Publish
  <2> QED BY <1>2, <2>1
<1> QED BY <1>1, <1>2

(* A round without a truth report only ages the snapshots.                 *)
LEMMA Aged ==
  ASSUME TypeOK, NEW dt \in 1 .. MaxRound, Publish(dt), ~Due("truth", dt), NEW i \in Slot
  PROVE  (Held(i)' <=> Held(i)) /\ Age(i)' = Later(Age(i), dt)
<1>1. Pos(i)' = Pos(i)
  BY DEF Publish, Pos
<1>2. Pos(i) \in Slot /\ (Held(i) => ring[Pos(i)] \in 0 .. Wrap - 1)
  BY PosType
<1>3. /\ ring'[Pos(i)] = IF ring[Pos(i)] = None THEN None ELSE (ring[Pos(i)] + dt) % Wrap
      /\ age'[Pos(i)] = Later(age[Pos(i)], dt)
  BY <1>2, SlotStep
<1>4. Held(i) => (ring[Pos(i)] + dt) % Wrap # None
  <2> SUFFICES ASSUME Held(i) PROVE (ring[Pos(i)] + dt) % Wrap # None
    OBVIOUS
  <2>1. (ring[Pos(i)] + dt) % Wrap \in 0 .. Wrap - 1
    BY <1>2, Clock
  <2> QED BY <2>1, Constants DEF None
<1> QED BY <1>1, <1>3, <1>4 DEF Held, Age

(* A truth report moves them one place on, behind its own.                 *)
LEMMA Moved ==
  ASSUME TypeOK, NEW dt \in 1 .. MaxRound, Publish(dt), Due("truth", dt)
  PROVE  /\ Held(0)' /\ Age(0)' = 0
         /\ \A i \in 0 .. Slots - 2 :
              (Held(i + 1)' <=> Held(i)) /\ Age(i + 1)' = Later(Age(i), dt)
<1>1. gps_head' = (gps_head + 1) % Slots
  BY DEF Publish
<1>2. gps_head \in Slot /\ 0 \in Slot /\ Slots \in Nat
  BY Constants DEF TypeOK, Slot
<1>3. Held(0)' /\ Age(0)' = 0
  <2>1. gps_head' - 1 - 0 = gps_head' - 1
    BY <1>1, <1>2, SlotMod, Constants DEF Slot
  <2>2. Pos(0)' = gps_head
    BY <1>1, <1>2, <2>1, Places DEF Pos
  <2>3. ring'[gps_head] = 0 /\ age'[gps_head] = 0
    BY <1>2, SlotStep
  <2> QED BY <2>2, <2>3 DEF Held, Age, None
<1>4. ASSUME NEW i \in 0 .. Slots - 2
      PROVE  (Held(i + 1)' <=> Held(i)) /\ Age(i + 1)' = Later(Age(i), dt)
  <2>1. i \in Slot /\ i < Slots - 1
    BY <1>2, <1>4 DEF Slot
  <2>2. Pos(i + 1)' = Pos(i) /\ Pos(i) # gps_head
    BY <1>1, <1>2, <2>1, Places DEF Pos
  <2>3. Pos(i) \in Slot /\ (Held(i) => ring[Pos(i)] \in 0 .. Wrap - 1)
    BY <2>1, PosType
  <2>4. /\ ring'[Pos(i)] = IF ring[Pos(i)] = None THEN None ELSE (ring[Pos(i)] + dt) % Wrap
        /\ age'[Pos(i)] = Later(age[Pos(i)], dt)
    BY <2>2, <2>3, SlotStep
  <2>5. Held(i) => (ring[Pos(i)] + dt) % Wrap # None
    <3> SUFFICES ASSUME Held(i) PROVE (ring[Pos(i)] + dt) % Wrap # None
      OBVIOUS
    <3>1. (ring[Pos(i)] + dt) % Wrap \in 0 .. Wrap - 1
      BY <2>3, Clock
    <3> QED BY <3>1, Constants DEF None
  <2> QED BY <2>2, <2>4, <2>5 DEF Held, Age
<1> QED BY <1>3, <1>4

(* The stamps stay true.                                                   *)
LEMMA RoundStamps ==
  ASSUME TypeOK, StampTrue, NEW dt \in 1 .. MaxRound, Round(dt)
  PROVE  StampTrue'
<1> SUFFICES ASSUME NEW s \in Slot, ring'[s] # None, age'[s] < Horizon, age'[s] < Wrap
             PROVE  ring'[s] = age'[s]
  BY DEF StampTrue
<1>0. Publish(dt) /\ age[s] \in 0 .. Horizon /\ ring[s] \in {None} \union 0 .. Wrap - 1
  BY DEF Round, TypeOK
<1>1. CASE Due("truth", dt) /\ s = gps_head
  BY <1>0, <1>1, SlotStep
<1>2. CASE ~(Due("truth", dt) /\ s = gps_head)
  <2>1. /\ ring'[s] = IF ring[s] = None THEN None ELSE (ring[s] + dt) % Wrap
        /\ age'[s] = Later(age[s], dt)
    BY <1>0, <1>2, SlotStep
  <2>2. age[s] + dt < Horizon /\ age'[s] = age[s] + dt
    BY <1>0, <2>1, LaterOf, Constants
  <2>3. age[s] < Horizon /\ age[s] < Wrap /\ age[s] + dt < Wrap
    BY <1>0, <2>2, Constants
  <2>4. ring[s] = age[s] /\ ring[s] \in 0 .. Wrap - 1
    BY <1>0, <2>1, <2>3 DEF StampTrue
  <2>5. (ring[s] + dt) % Wrap = ring[s] + dt
    BY <2>3, <2>4, Clock
  <2> QED BY <2>1, <2>2, <2>4, <2>5
<1> QED BY <1>1, <1>2

(* A period more, in steps of the ring.                                    *)
LEMMA Periods ==
  ASSUME NEW i \in Nat
  PROVE  /\ i * TruthPeriod \in Nat
         /\ (i + 1) * TruthPeriod = i * TruthPeriod + TruthPeriod
BY Constants, SMT

(* The snapshots stay spaced.                                              *)
LEMMA RoundSpaced ==
  ASSUME TypeOK, Spaced, NEW dt \in 1 .. MaxRound, Round(dt)
  PROVE  Spaced'
<1> DEFINE t == since["truth"]  u == since'["truth"]
<1>0. /\ Publish(dt) /\ t \in 0 .. Wrap - 1 /\ Slots \in Nat /\ Slots > 0
      /\ u = IF Due("truth", dt) THEN 0 ELSE (t + dt) % Wrap
  BY Constants DEF Round, TypeOK, Report
<1>1. (t + dt) % Wrap \in Nat /\ (t + dt) % Wrap <= t + dt
  BY <1>0, Constants, SMT
<1>2. ASSUME NEW i \in Slot, Held(i)
      PROVE  Age(i) \in 0 .. Horizon /\ Age(i) >= Least(t + i * TruthPeriod, Horizon)
  BY <1>2, PosType DEF Spaced
<1>3. CASE Due("truth", dt)
  <2>1. u = 0 /\ TruthPeriod <= t + dt
    BY <1>0, <1>1, <1>3, Constants DEF Due, Past
  <2>2. /\ Held(0)' /\ Age(0)' = 0
        /\ \A i \in 0 .. Slots - 2 :
             (Held(i + 1)' <=> Held(i)) /\ Age(i + 1)' = Later(Age(i), dt)
    BY <1>0, <1>3, Moved
  <2>3. ASSUME NEW i \in 0 .. Slots - 2, Held(i + 1)' PROVE Held(i)'
    <3>1. CASE i = 0
      BY <2>2, <3>1
    <3>2. CASE i > 0
      <4>1. i - 1 \in 0 .. Slots - 2 /\ (i - 1) + 1 = i
        BY <1>0, <3>2
      <4>2. Held(i)
        BY <2>2, <2>3
      <4>3. Held(i - 1)
        BY <4>1, <4>2 DEF Spaced
      <4>4. Held((i - 1) + 1)'
        BY <2>2, <4>1, <4>3
      <4> QED BY <4>1, <4>4
    <3> QED BY <3>1, <3>2
  <2>4. ASSUME NEW i \in Slot, Held(i)'
        PROVE  Age(i)' >= Least(u + i * TruthPeriod, Horizon)
    <3>1. CASE i = 0
      <4>1. i * TruthPeriod = 0
        BY <3>1, Constants, SMT
      <4> HIDE DEF u
      <4>2. Least(u + i * TruthPeriod, Horizon) = 0
        BY <2>1, <4>1, Constants DEF Least
      <4> QED BY <2>2, <3>1, <4>2
    <3>2. CASE i # 0
      <4> DEFINE k == i - 1  p == k * TruthPeriod
      <4>1. k \in 0 .. Slots - 2 /\ k \in Slot /\ k \in Nat /\ k + 1 = i
        BY <1>0, <3>2 DEF Slot
      <4>2. p \in Nat /\ i * TruthPeriod = p + TruthPeriod
        BY <4>1, Periods
      <4>3. Held(k) /\ Age(i)' = Later(Age(k), dt)
        <5> HIDE DEF k
        <5>1. (Held(k + 1)' <=> Held(k)) /\ Age(k + 1)' = Later(Age(k), dt)
          BY <2>2, <4>1
        <5> QED BY <2>4, <4>1, <5>1
      <4>4. Age(k) \in 0 .. Horizon /\ Age(k) >= Least(t + p, Horizon)
        BY <1>2, <4>1, <4>3
      <4> HIDE DEF k, p, t, u
      <4>5. Later(Age(k), dt) = IF Age(k) + dt < Horizon THEN Age(k) + dt ELSE Horizon
        BY <4>4, LaterOf
      <4>6. Age(k) + dt >= p + TruthPeriod \/ Age(k) = Horizon
        BY <1>0, <2>1, <4>2, <4>4, Constants DEF Least
      <4>7. Later(Age(k), dt) >= Least(p + TruthPeriod, Horizon)
        BY <4>2, <4>4, <4>5, <4>6, Constants DEF Least
      <4>8. u + i * TruthPeriod = p + TruthPeriod
        BY <2>1, <4>2, Constants
      <4> QED BY <4>3, <4>7, <4>8
    <3> QED BY <3>1, <3>2
  <2> QED BY <2>3, <2>4 DEF Spaced
<1>4. CASE ~Due("truth", dt)
  <2>1. u <= t + dt /\ u \in Nat
    BY <1>0, <1>1, <1>4
  <2>2. \A i \in Slot : (Held(i)' <=> Held(i)) /\ Age(i)' = Later(Age(i), dt)
    BY <1>0, <1>4, Aged
  <2>3. ASSUME NEW i \in 0 .. Slots - 2, Held(i + 1)' PROVE Held(i)'
    <3>1. i \in Slot /\ i + 1 \in Slot
      BY <1>0, <2>3 DEF Slot
    <3>2. Held(i + 1)
      BY <2>2, <2>3, <3>1
    <3> QED BY <2>2, <3>1, <3>2 DEF Spaced
  <2>4. ASSUME NEW i \in Slot, Held(i)'
        PROVE  Age(i)' >= Least(u + i * TruthPeriod, Horizon)
    <3> DEFINE p == i * TruthPeriod
    <3>1. p \in Nat
      BY Periods DEF Slot
    <3>2. Age(i)' = Later(Age(i), dt) /\ Age(i) \in 0 .. Horizon /\ Age(i) >= Least(t + p, Horizon)
      BY <1>2, <2>2, <2>4
    <3> HIDE DEF p, t, u
    <3>3. Later(Age(i), dt) = IF Age(i) + dt < Horizon THEN Age(i) + dt ELSE Horizon
      BY <3>2, LaterOf
    <3>4. Later(Age(i), dt) >= Least(u + p, Horizon)
      BY <1>0, <2>1, <3>1, <3>2, <3>3, Constants DEF Least
    <3> QED BY <3>2, <3>4 DEF p
  <2> QED BY <2>3, <2>4 DEF Spaced
<1> QED BY <1>3, <1>4

(* Without a command the switches stay.                                    *)
LEMMA Quiet ==
  ASSUME NEW dt, Command(dt)
  PROVE  \/ calm' = 0
         \/ /\ calm' = Later(calm, dt)
            /\ fdm_mode' = fdm_mode /\ gps_enable' = gps_enable /\ lag' = lag
BY DEF Command, switch

(* A gap between two snapshots, or after the newest, stays as old as the   *)
(* last command.                                                           *)
LEMMA GapStays ==
  ASSUME NEW c \in 0 .. Horizon, NEW a \in 0 .. Horizon, NEW b \in 0 .. Horizon,
         NEW dt \in 1 .. MaxRound, NEW lagged \in BOOLEAN,
         a < c => c <= a + Apart \/ (lagged /\ b <= a + Apart),
         Later(a, dt) < Later(c, dt)
  PROVE  \/ Later(c, dt) <= Later(a, dt) + Apart
         \/ lagged /\ Later(b, dt) <= Later(a, dt) + Apart
<1>0. Apart \in Nat
  BY Constants DEF Apart
<1>1. /\ Later(a, dt) = IF a + dt < Horizon THEN a + dt ELSE Horizon
      /\ Later(b, dt) = IF b + dt < Horizon THEN b + dt ELSE Horizon
      /\ Later(c, dt) = IF c + dt < Horizon THEN c + dt ELSE Horizon
  BY LaterOf
<1>2. a < c /\ Later(a, dt) = a + dt
  BY <1>1, Constants
<1>3. CASE c <= a + Apart
  BY <1>0, <1>1, <1>2, <1>3, Constants
<1>4. CASE lagged /\ b <= a + Apart
  BY <1>0, <1>1, <1>2, <1>4, Constants
<1> QED BY <1>2, <1>3, <1>4

(* While the flight model is on the snapshots come without a gap.          *)
LEMMA RoundDense ==
  ASSUME Inv, Inv', fdm_mode => Dense, NEW dt \in 1 .. MaxRound, Round(dt), fdm_mode'
  PROVE  Dense'
<1> DEFINE t == since["truth"]  u == since'["truth"]
<1>0. /\ TypeOK /\ TypeOK' /\ Command(dt) /\ Publish(dt) /\ Slots \in Nat /\ Slots > 0
      /\ t \in 0 .. Wrap - 1 /\ u \in 0 .. Wrap - 1
      /\ calm \in 0 .. Horizon /\ calm' \in 0 .. Horizon
  BY Constants DEF Inv, Round, TypeOK, Report
<1>1. u = IF Due("truth", dt) THEN 0 ELSE (t + dt) % Wrap
  BY DEF Round, Report
<1>2. \A i \in Slot : Age(i) \in 0 .. Horizon /\ Age(i)' \in 0 .. Horizon
  <2> TAKE i \in Slot
  <2>1. Pos(i) \in Slot /\ Pos(i)' \in Slot
    BY <1>0, Places DEF TypeOK, Pos
  <2> QED BY <1>0, <2>1 DEF TypeOK, Age
<1>3. CASE calm' = 0
  <2> HIDE DEF u, t
  <2>1. calm' <= u
    BY <1>0, <1>3, Constants
  <2>2. \A i \in 0 .. Slots - 2 : ~(Age(i)' < calm')
    <3> TAKE i \in 0 .. Slots - 2
    <3>1. i \in Slot
      BY <1>0 DEF Slot
    <3> QED BY <1>2, <1>3, <3>1, Constants
  <2> QED BY <2>1, <2>2 DEF Dense, u
<1>4. CASE calm' # 0
  <2>0. calm' = Later(calm, dt) /\ fdm_mode
    BY <1>0, <1>4, Quiet
  <2>1. /\ t < TruthPeriod
        /\ calm <= t \/ (Held(0) /\ Age(0) = t)
    BY <2>0 DEF Inv, Dense
  <2>2. /\ t + dt < Wrap /\ (t + dt) % Wrap = t + dt
    <3>1. t + dt < Wrap
      BY <1>0, <2>1, Constants
    <3> QED BY <1>0, <3>1, Clock
  <2>3. \A i \in 0 .. Slots - 2 :
          /\ i \in Slot /\ i + 1 \in Slot
          /\ Held(i) /\ Age(i) < calm =>
               calm <= Age(i) + Apart \/ (Held(i + 1) /\ Age(i + 1) <= Age(i) + Apart)
    BY <1>0, <2>0 DEF Dense, Slot
  <2>4. 0 \in Slot /\ Apart \in Nat /\ Apart = TruthPeriod + MaxRound
    BY <1>0, Constants DEF Slot, Apart
  <2>5. t + dt < Horizon
    <3>1. lag \in Lags
      BY <1>0 DEF TypeOK
    <3>2. /\ lag \in Nat /\ lag + TruthPeriod + FixPeriod + 2 * MaxRound <= Horizon
          /\ FixPeriod \in Nat
      BY <3>1, FeedAssumption
    <3> HIDE DEF t
    <3> QED BY <1>0, <2>1, <3>2, Constants
  <2>6. CASE Due("truth", dt)
    <3>1. /\ Held(0)' /\ Age(0)' = 0 /\ u = 0
          /\ \A i \in 0 .. Slots - 2 :
               (Held(i + 1)' <=> Held(i)) /\ Age(i + 1)' = Later(Age(i), dt)
      BY <1>0, <1>1, <2>6, Moved
    <3>2. ASSUME NEW i \in 0 .. Slots - 2, Held(i)', Age(i)' < calm'
          PROVE  \/ calm' <= Age(i)' + Apart
                 \/ Held(i + 1)' /\ Age(i + 1)' <= Age(i)' + Apart
      <4>1. CASE i = 0
        <5>1. 0 \in 0 .. Slots - 2
          BY <3>2, <4>1
        <5>2. (Held(0 + 1)' <=> Held(0)) /\ Age(0 + 1)' = Later(Age(0), dt)
          BY <3>1, <5>1
        <5>3. Age(0) \in 0 .. Horizon
          BY <1>2, <2>4
        <5> HIDE DEF t, u
        <5>4. CASE calm <= t
          <6>1. calm' <= t + dt
            BY <1>0, <2>0, <5>4, LaterOf, Constants
          <6>2. calm' <= 0 + Apart
            BY <1>0, <2>1, <2>4, <6>1, Constants
          <6> QED BY <3>1, <4>1, <6>2
        <5>5. CASE Held(0) /\ Age(0) = t
          <6>1. Later(Age(0), dt) = t + dt
            BY <1>0, <2>5, <5>3, <5>5, LaterOf
          <6>2. t + dt <= 0 + Apart
            BY <1>0, <2>1, <2>4, Constants
          <6>3. Held(0 + 1)' /\ Age(0 + 1)' <= 0 + Apart
            BY <5>2, <5>5, <6>1, <6>2
          <6> QED BY <3>1, <4>1, <6>3
        <5> QED BY <2>1, <5>4, <5>5
      <4>2. CASE i # 0
        <5> DEFINE k == i - 1
        <5>1. k \in 0 .. Slots - 2 /\ k + 1 = i /\ i \in Slot /\ i + 1 \in Slot
          BY <1>0, <4>2 DEF Slot
        <5> HIDE DEF k
        <5>2. (Held(k + 1)' <=> Held(k)) /\ Age(k + 1)' = Later(Age(k), dt)
          BY <3>1, <5>1
        <5>3. (Held(i + 1)' <=> Held(i)) /\ Age(i + 1)' = Later(Age(i), dt)
          BY <3>1
        <5>4. k \in Slot /\ (Held(k) /\ Age(k) < calm =>
                calm <= Age(k) + Apart \/ (Held(k + 1) /\ Age(k + 1) <= Age(k) + Apart))
          BY <2>3, <5>1
        <5>5. Held(k) /\ Age(i)' = Later(Age(k), dt)
          BY <3>2, <5>1, <5>2
        <5>6. Held(i) \in BOOLEAN /\ Age(k) \in 0 .. Horizon /\ Age(i) \in 0 .. Horizon
          BY <1>2, <5>1, <5>4 DEF Held
        <5>7. Age(k) < calm => calm <= Age(k) + Apart \/ (Held(i) /\ Age(i) <= Age(k) + Apart)
          BY <5>1, <5>4, <5>5
        <5>8. Later(Age(k), dt) < Later(calm, dt)
          BY <2>0, <3>2, <5>5
        <5>9. \/ Later(calm, dt) <= Later(Age(k), dt) + Apart
              \/ Held(i) /\ Later(Age(i), dt) <= Later(Age(k), dt) + Apart
          BY <1>0, <5>6, <5>7, <5>8, GapStays
        <5> QED BY <2>0, <5>3, <5>5, <5>9
      <4> QED BY <4>1, <4>2
    <3> QED BY <3>1, <3>2 DEF Dense
  <2>7. CASE ~Due("truth", dt)
    <3>1. u = t + dt /\ \A i \in Slot : (Held(i)' <=> Held(i)) /\ Age(i)' = Later(Age(i), dt)
      BY <1>0, <1>1, <2>2, <2>7, Aged
    <3>2. calm' <= u \/ (Held(0)' /\ Age(0)' = u)
      <4>1. Age(0) \in 0 .. Horizon /\ (Held(0)' <=> Held(0)) /\ Age(0)' = Later(Age(0), dt)
        BY <1>2, <2>4, <3>1
      <4> HIDE DEF t, u
      <4>2. CASE calm <= t
        <5>1. calm' <= t + dt
          BY <1>0, <2>0, <4>2, LaterOf, Constants
        <5> QED BY <3>1, <5>1
      <4>3. CASE Held(0) /\ Age(0) = t
        <5>1. Later(Age(0), dt) = t + dt
          BY <1>0, <2>5, <4>1, <4>3, LaterOf
        <5> QED BY <3>1, <4>1, <4>3, <5>1
      <4> QED BY <2>1, <4>2, <4>3
    <3>3. ASSUME NEW i \in 0 .. Slots - 2, Held(i)', Age(i)' < calm'
          PROVE  \/ calm' <= Age(i)' + Apart
                 \/ Held(i + 1)' /\ Age(i + 1)' <= Age(i)' + Apart
      <4>1. /\ i \in Slot /\ i + 1 \in Slot
            /\ Held(i) /\ Age(i) < calm =>
                 calm <= Age(i) + Apart \/ (Held(i + 1) /\ Age(i + 1) <= Age(i) + Apart)
        BY <2>3
      <4>2. /\ (Held(i)' <=> Held(i)) /\ Age(i)' = Later(Age(i), dt)
            /\ (Held(i + 1)' <=> Held(i + 1)) /\ Age(i + 1)' = Later(Age(i + 1), dt)
        BY <3>1, <4>1
      <4>3. /\ Held(i + 1) \in BOOLEAN
            /\ Age(i) \in 0 .. Horizon /\ Age(i + 1) \in 0 .. Horizon
        BY <1>2, <4>1 DEF Held
      <4>4. Age(i) < calm =>
              calm <= Age(i) + Apart \/ (Held(i + 1) /\ Age(i + 1) <= Age(i) + Apart)
        BY <3>3, <4>1, <4>2
      <4>5. Later(Age(i), dt) < Later(calm, dt)
        BY <2>0, <3>3, <4>2
      <4>6. \/ Later(calm, dt) <= Later(Age(i), dt) + Apart
            \/ Held(i + 1) /\ Later(Age(i + 1), dt) <= Later(Age(i), dt) + Apart
        BY <1>0, <4>3, <4>4, <4>5, GapStays
      <4> QED BY <2>0, <4>2, <4>6
    <3> QED BY <3>2, <3>3 DEF Dense
  <2> QED BY <2>6, <2>7
<1> QED BY <1>3, <1>4

(* The lag and a gap are within what is told apart, and within the clock.  *)
LEMMA LagFits ==
  ASSUME TypeOK
  PROVE  /\ lag \in Nat /\ Apart \in Nat /\ Apart > 0
         /\ lag + Apart < Wrap /\ lag + Apart + FixPeriod + MaxRound <= Horizon
         /\ FixPeriod \in Nat /\ FixPeriod > 0 /\ FixPeriod + MaxRound < Wrap
<1>1. lag \in Lags
  BY DEF TypeOK
<1>2. /\ lag \in Nat /\ lag + TruthPeriod + MaxRound < Wrap
      /\ lag + TruthPeriod + FixPeriod + 2 * MaxRound <= Horizon
      /\ FixPeriod \in Nat /\ FixPeriod > 0 /\ FixPeriod + MaxRound < Wrap
  BY <1>1, FeedAssumption
<1> QED BY <1>2, Constants DEF Apart

(* The bound on a gap is positive.                                         *)
LEMMA Room ==
  ASSUME NEW a \in Nat, NEW b \in Nat, NEW c \in Nat, b > 0
  PROVE  0 < a + b + c
OBVIOUS

(* A snapshot younger than the clock's wrap is judged by its real age.     *)
LEMMA Judged ==
  ASSUME TypeOK, StampTrue, NEW dt \in 1 .. MaxRound, NEW i \in Slot,
         Held(i), Age(i) + dt < lag + Apart
  PROVE  (ring[Pos(i)] + dt) % Wrap = Age(i) + dt
<1>1. Pos(i) \in Slot /\ Age(i) \in 0 .. Horizon /\ ring[Pos(i)] \in 0 .. Wrap - 1
  BY PosType
<1>2. Age(i) < Horizon /\ Age(i) < Wrap /\ Age(i) + dt < Wrap
  BY <1>1, LagFits, Constants
<1>3. ring[Pos(i)] = Age(i)
  BY <1>1, <1>2 DEF StampTrue, Held, Age
<1> QED BY <1>1, <1>2, <1>3, Clock

(* Nothing switched for the lag and a gap: the feed finds a snapshot that  *)
(* is no older than that, if the ring reaches back to the lag.             *)
LEMMA Found ==
  ASSUME Inv, StampTrue, Spaced, fdm_mode => Dense,
         NEW dt \in 1 .. MaxRound, Round(dt), fdm_mode', calm' >= lag' + Apart
  PROVE  /\ Snap(dt) # None => Snap(dt) \in Slot /\ age[Snap(dt)] + dt < lag' + Apart
         /\ lag' <= (Slots - 1) * TruthPeriod => Snap(dt) # None
<1>0. /\ TypeOK /\ Slots \in Nat /\ Slots > 0 /\ calm \in 0 .. Horizon
      /\ since["truth"] \in 0 .. Wrap - 1
  BY Constants DEF Inv, TypeOK, Report
<1>1. calm' = Later(calm, dt) /\ fdm_mode /\ lag' = lag
  <2>1. lag' \in Nat
    BY CommandType, LagBound, <1>0 DEF Round
  <2>2. calm' # 0
    BY <2>1, <1>0, LagFits
  <2> QED BY <2>2, Quiet DEF Round
<1>2. /\ lag \in Nat /\ Apart \in Nat /\ Apart > 0
      /\ lag + Apart < Wrap /\ lag + Apart <= Horizon
  BY <1>0, LagFits, Constants
<1>3. calm + dt >= lag + Apart
  BY <1>0, <1>1, <1>2, LaterType
<1>4. Dense /\ since["truth"] < TruthPeriod
  BY <1>1 DEF Inv
<1>5. Apart = TruthPeriod + MaxRound
  BY DEF Apart
<1>6. \A i \in Slot : i \in Nat /\ Age(i) \in 0 .. Horizon
  BY <1>0, PosType DEF Slot
<1> DEFINE Old == {i \in Slot : ~(Held(i) /\ Age(i) + dt < lag)}
<1>7. \A i \in Slot : i \in Lagged(dt) <=> Held(i) /\ (ring[Pos(i)] + dt) % Wrap >= lag
  BY <1>1 DEF Lagged, Held, Pos
<1>8. Lagged(dt) \subseteq Slot
  BY DEF Lagged
<1>9. ASSUME NEW i \in Slot, i \notin Old PROVE i \notin Lagged(dt)
  <2>1. Held(i) /\ Age(i) + dt < lag /\ Age(i) \in 0 .. Horizon
    BY <1>6, <1>9
  <2>2. Age(i) + dt < lag + Apart
    BY <1>2, <2>1
  <2>3. (ring[Pos(i)] + dt) % Wrap = Age(i) + dt
    BY <1>0, <2>1, <2>2, Judged
  <2> QED BY <1>2, <1>7, <2>1, <2>3
<1>10. CASE Old = {}
  <2>1. Lagged(dt) = {} /\ Snap(dt) = None
    BY <1>8, <1>9, <1>10 DEF Snap
  <2>2. ASSUME lag <= (Slots - 1) * TruthPeriod PROVE FALSE
    <3> DEFINE k == Slots - 1  p == k * TruthPeriod
    <3>1. k \in Slot /\ p \in Nat
      BY <1>0, Periods DEF Slot
    <3>2. Held(k) /\ Age(k) + dt < lag
      BY <1>10, <3>1
    <3>3. Age(k) >= Least(since["truth"] + p, Horizon) /\ Age(k) \in 0 .. Horizon
      BY <1>6, <3>1, <3>2 DEF Spaced
    <3>4. lag <= p
      BY <2>2
    <3> HIDE DEF p, k
    <3>5. Age(k) >= lag
      BY <1>0, <1>2, <3>1, <3>3, <3>4, Constants DEF Least
    <3> QED BY <1>2, <3>2, <3>3, <3>5
  <2> QED BY <1>1, <2>1, <2>2
<1>11. CASE Old # {}
  <2>1. Old \in SUBSET Nat
    BY <1>6
  <2>2. PICK m \in Old : \A e \in Old : m <= e
    BY <1>11, <2>1, LeastElement
  <2>3. m \in Slot /\ m \in Nat /\ ~(Held(m) /\ Age(m) + dt < lag) /\ Age(m) \in 0 .. Horizon
    BY <1>6, <2>2
  <2>4. Held(m) /\ Age(m) + dt < lag + Apart
    <3>1. CASE m = 0
      <4>1. ~(calm <= since["truth"])
        BY <1>0, <1>2, <1>3, <1>4, <1>5, Constants
      <4>2. Held(0) /\ Age(0) = since["truth"]
        BY <1>4, <4>1 DEF Dense
      <4>3. Age(0) + dt < lag + Apart
        BY <1>0, <1>2, <1>4, <1>5, <4>2, Constants
      <4> QED BY <3>1, <4>2, <4>3
    <3>2. CASE m # 0
      <4> DEFINE k == m - 1
      <4>1. k \in 0 .. Slots - 2 /\ k \in Slot /\ k + 1 = m /\ k < m
        BY <1>0, <2>3, <3>2 DEF Slot
      <4>2. k \notin Old
        BY <2>2, <2>3, <4>1
      <4>3. Held(k) /\ Age(k) + dt < lag /\ Age(k) \in 0 .. Horizon
        BY <1>6, <4>1, <4>2
      <4> HIDE DEF k, Old
      <4>4. Age(k) < calm /\ ~(calm <= Age(k) + Apart)
        BY <1>0, <1>2, <1>3, <4>3, Constants
      <4>5. Held(m) /\ Age(m) <= Age(k) + Apart
        BY <1>4, <4>1, <4>3, <4>4 DEF Dense
      <4>6. Age(m) + dt < lag + Apart
        BY <1>2, <2>3, <4>3, <4>5, Constants
      <4> QED BY <4>5, <4>6
    <3> QED BY <3>1, <3>2
  <2>5. (ring[Pos(m)] + dt) % Wrap = Age(m) + dt
    BY <1>0, <2>3, <2>4, Judged
  <2>6. m \in Lagged(dt)
    BY <1>2, <1>7, <2>3, <2>4, <2>5, Constants
  <2>7. \A j \in Lagged(dt) : j \in Nat /\ m <= j
    BY <1>6, <1>8, <1>9, <2>2
  <2> DEFINE i == CHOOSE k \in Lagged(dt) : \A j \in Lagged(dt) : k <= j
  <2>8. i = m
    <3>1. i \in Lagged(dt) /\ \A j \in Lagged(dt) : i <= j
      BY <2>6, <2>7
    <3>2. i <= m /\ m <= i /\ i \in Nat
      BY <2>6, <2>7, <3>1
    <3> HIDE DEF i
    <3> QED BY <2>3, <3>2
  <2>9. Snap(dt) = Pos(m)
    BY <2>6, <2>8 DEF Snap, Pos
  <2>10. Pos(m) \in Slot /\ Pos(m) # None
    BY <1>0, <2>3, PosType, Constants DEF Slot, None
  <2> QED BY <1>1, <2>4, <2>9, <2>10 DEF Age
<1> QED BY <1>10, <1>11

(* A Fix2 is of a snapshot the lag and a gap old, if nothing was switched. *)
LEMMA RoundFix ==
  ASSUME Inv, Inv', StampTrue, Spaced, fdm_mode => Dense, NEW dt \in 1 .. MaxRound, Round(dt)
  PROVE  FixNotStale'
<1> SUFFICES ASSUME fix' # None, calm' >= lag' + TruthPeriod + MaxRound
             PROVE  fix' <= lag' + TruthPeriod + MaxRound
  BY DEF FixNotStale
<1>0. lag' \in Nat /\ Apart \in Nat /\ Apart = TruthPeriod + MaxRound
  BY LagBound, Constants DEF Apart, Inv, TypeOK
<1>1. Due("fix", dt) /\ Snap(dt) # None /\ fix' = Later(age[Snap(dt)], dt)
  BY DEF Round, FeedFix
<1>2. fdm_mode'
  BY <1>1 DEF Due
<1>3. calm' >= lag' + Apart
  BY <1>0, Constants
<1>4. Snap(dt) \in Slot /\ age[Snap(dt)] + dt < lag' + Apart
  BY <1>1, <1>2, <1>3, Found
<1>5. age[Snap(dt)] \in 0 .. Horizon
  BY <1>4 DEF Inv, TypeOK
<1>6. Later(age[Snap(dt)], dt) <= age[Snap(dt)] + dt /\ Later(age[Snap(dt)], dt) \in Nat
  BY <1>5, LaterType
<1> QED BY <1>0, <1>1, <1>4, <1>5, <1>6, Constants

(* The feed's timer, and what waits for it.                                *)
LEMMA RoundFeeding ==
  ASSUME Inv, Inv', StampTrue, Spaced, fdm_mode => Dense, Feeding,
         NEW dt \in 1 .. MaxRound, Round(dt)
  PROVE  Feeding'
<1> DEFINE t == since["fix"]  u == since'["fix"]  w == wait["fix"]  v == wait'["fix"]
           d == (t + dt) % Wrap
           near == lag <= (Slots - 1) * TruthPeriod
<1>0. /\ TypeOK /\ TypeOK' /\ Command(dt) /\ t \in 0 .. Wrap - 1 /\ w \in 0 .. Horizon
      /\ calm \in 0 .. Horizon /\ "fix" \in Report
  BY DEF Inv, Round, TypeOK, Report
<1>1. /\ u = IF Due("fix", dt) THEN 0 ELSE d
      /\ v = IF Enabled("fix") /\ ~Sent("fix", dt) THEN Later(w, dt) ELSE 0
  BY <1>0 DEF Round
<1>2. /\ Enabled("fix") <=> gps_enable' /\ fdm_mode'
      /\ Sent("fix", dt) <=> fix' # None
      /\ Due("fix", dt) <=> gps_enable' /\ fdm_mode' /\ d >= FixPeriod
  BY DEF Enabled, Sent, Due, Past
<1>3. ~(gps_enable' /\ fdm_mode') => v = 0
  BY <1>1, <1>2
<1>4. d \in 0 .. Wrap - 1 /\ (t + dt < Wrap => d = t + dt)
  BY <1>0, Clock
<1>5. /\ lag \in Nat /\ Apart \in Nat /\ Apart > 0
      /\ FixPeriod \in Nat /\ FixPeriod > 0 /\ FixPeriod + MaxRound < Wrap
  BY <1>0, LagFits
<1>6. ASSUME gps_enable', fdm_mode'
      PROVE  /\ u < FixPeriod
             /\ lag' <= (Slots - 1) * TruthPeriod => v <= u \/ calm' < lag' + Apart + u
  <2>1. u < FixPeriod
    BY <1>1, <1>2, <1>4, <1>5, <1>6
  <2>2. lag' \in Nat /\ calm' \in 0 .. Horizon
    BY <1>0, LagBound DEF TypeOK
  <2>3. CASE calm' = 0
    <3> HIDE DEF u
    <3>1. u \in 0 .. Wrap - 1
      BY <1>0 DEF TypeOK, u
    <3>2. calm' < lag' + Apart + u
      <4>1. Apart \in Nat /\ Apart > 0 /\ lag' \in Nat /\ u \in Nat
        BY <1>5, <2>2, <3>1, Constants
      <4>2. 0 < lag' + Apart + u
        BY <4>1, Room
      <4> QED BY <2>3, <4>2
    <3> QED BY <2>1, <3>2
  <2>4. CASE calm' # 0
    <3>1. /\ calm' = Later(calm, dt) /\ fdm_mode /\ gps_enable /\ lag' = lag
      BY <1>0, <1>6, <2>4, Quiet
    <3>2. t < FixPeriod /\ (near => w <= t \/ calm < lag + Apart + t)
      BY <3>1 DEF Feeding
    <3>3. d = t + dt
      BY <1>0, <1>4, <1>5, <3>2, Constants
    <3>4. /\ Later(calm, dt) <= calm + dt /\ Later(calm, dt) \in Nat
          /\ Later(w, dt) <= w + dt /\ Later(w, dt) \in Nat
      BY <1>0, LaterType
    <3>5. CASE Due("fix", dt)
      <4>1. u = 0
        BY <1>1, <3>5
      <4>2. CASE fix' # None
        BY <1>1, <1>2, <2>1, <4>1, <4>2
      <4>3. CASE fix' = None
        <5>1. Snap(dt) = None
          <6> SUFFICES ASSUME Snap(dt) # None PROVE FALSE
            OBVIOUS
          <6>1. fix' = Later(age[Snap(dt)], dt) /\ Snap(dt) \in Slot
            BY <1>0, <3>5, SnapType DEF Round, FeedFix, TypeOK
          <6>2. age[Snap(dt)] \in 0 .. Horizon
            BY <1>0, <6>1 DEF TypeOK
          <6> QED BY <4>3, <6>1, <6>2, LaterType DEF None
        <5>2. near => ~(calm' >= lag' + Apart)
          BY <1>6, <3>1, <5>1, Found
        <5> QED BY <1>5, <2>1, <2>2, <3>1, <4>1, <5>2
      <4> QED BY <4>2, <4>3
    <3>6. CASE ~Due("fix", dt)
      <4>1. u = t + dt /\ (v = 0 \/ v = Later(w, dt))
        BY <1>1, <3>3, <3>6
      <4> HIDE DEF u, v, t, w, near
      <4>2. w <= t => v <= u
        BY <1>0, <3>4, <4>1
      <4>3. calm < lag + Apart + t => calm' < lag' + Apart + u
        BY <1>0, <1>5, <3>1, <3>4, <4>1
      <4> QED BY <2>1, <3>1, <3>2, <4>2, <4>3 DEF near
    <3> QED BY <3>5, <3>6
  <2> QED BY <2>3, <2>4
<1> QED BY <1>3, <1>6 DEF Feeding

------------------------------------------------------------------------------

(* For every period, lag and wrap of the clock: a truth report enabled at  *)
(* any time is sent within its period and a round.                         *)
THEOREM TruthOnTime == Spec => [](TypeOK /\ OnTime)
<1>1. Inv => TypeOK /\ OnTime
  <2> SUFFICES ASSUME Inv PROVE TypeOK /\ OnTime
    OBVIOUS
  <2>1. since["truth"] \in 0 .. Wrap - 1 /\ wait["truth"] \in 0 .. Horizon
    BY DEF Inv, TypeOK, Report
  <2>2. wait["truth"] < TruthPeriod + MaxRound
    BY <2>1, Constants DEF Inv
  <2> QED BY <2>2 DEF Inv, OnTime
<1> QED BY <1>1, InitInv, NextInv, PTL DEF Spec

(* For every period, lag and wrap of the clock, and whatever the host      *)
(* switches: the feed never sends a position younger than the lag.         *)
THEOREM FeedBehind == Spec => []FixNotEarly
<1>1. Init => Stamped
  BY DEF Init, Stamped, FixNotEarly
<1>2. Inv /\ Inv' /\ Stamped /\ [Next]_vars => Stamped'
  <2> SUFFICES ASSUME Inv, Inv', Stamped, [Next]_vars PROVE Stamped'
    OBVIOUS
  <2>1. CASE Next
    <3>1. PICK dt \in 1 .. MaxRound : Round(dt)
      BY <2>1 DEF Next
    <3> QED BY <3>1, RoundStamped DEF Inv
  <2>2. CASE UNCHANGED vars
    <3>1. ring' = ring /\ age' = age /\ fix' = fix /\ lag' = lag
      BY <2>2 DEF vars, switch
    <3> QED BY <3>1 DEF Stamped, FixNotEarly
  <2> QED BY <2>1, <2>2
<1>3. Stamped => FixNotEarly
  BY DEF Stamped
<1> QED BY <1>1, <1>2, <1>3, InitInv, NextInv, PTL DEF Spec

(* For every period, lag, ring and wrap of the clock, and whatever the     *)
(* host switches: a Fix2 is at least the lag old; once nothing has been    *)
(* switched for a while it is not a snapshot older than that either, and   *)
(* with a lag the ring reaches back to it is sent in every period.         *)
THEOREM FeedLags == Spec => []FixLagged
<1>1. Init => FeedInv
  <2> SUFFICES ASSUME Init PROVE FeedInv
    OBVIOUS
  <2>1. TypeOK
    BY InitInv DEF Inv
  <2>2. \A s \in Slot : ring[s] = None
    BY DEF Init
  <2>3. \A i \in Slot : ~Held(i)
    BY <2>1, <2>2, PosType DEF Held
  <2>4. \A i \in 0 .. Slots - 2 : i \in Slot /\ i + 1 \in Slot
    BY Constants DEF Slot
  <2>5. fdm_mode = FALSE /\ fix = None /\ wait["fix"] = 0
    BY DEF Init, Report
  <2> QED BY <2>2, <2>3, <2>4, <2>5 DEF FeedInv, StampTrue, Spaced, Feeding, FixNotStale
<1>2. Inv /\ Inv' /\ FeedInv /\ [Next]_vars => FeedInv'
  <2> SUFFICES ASSUME Inv, Inv', FeedInv, [Next]_vars PROVE FeedInv'
    OBVIOUS
  <2>1. CASE Next
    <3>1. PICK dt \in 1 .. MaxRound : Round(dt)
      BY <2>1 DEF Next
    <3>2. TypeOK /\ StampTrue /\ Spaced /\ (fdm_mode => Dense) /\ Feeding
      BY DEF FeedInv, Inv
    <3>3. StampTrue' /\ Spaced'
      BY <3>1, <3>2, RoundStamps, RoundSpaced
    <3>4. fdm_mode' => Dense'
      BY <3>1, <3>2, RoundDense
    <3>5. Feeding' /\ FixNotStale'
      BY <3>1, <3>2, RoundFeeding, RoundFix
    <3> QED BY <3>3, <3>4, <3>5 DEF FeedInv
  <2>2. CASE UNCHANGED vars
    <3>1. /\ since' = since /\ fdm_mode' = fdm_mode /\ gps_enable' = gps_enable /\ lag' = lag
          /\ ring' = ring /\ gps_head' = gps_head /\ fix' = fix /\ age' = age /\ calm' = calm
          /\ wait' = wait
      BY <2>2 DEF vars, switch
    <3> QED BY <3>1 DEF FeedInv, StampTrue, Spaced, Dense, Feeding, FixNotStale, Held, Age, Pos
  <2> QED BY <2>1, <2>2
<1>3. Inv /\ FeedInv /\ FixNotEarly => FixLagged
  <2> SUFFICES ASSUME Inv, FeedInv, FixNotEarly PROVE FixLagged
    OBVIOUS
  <2>1. /\ TypeOK /\ since["fix"] \in 0 .. Wrap - 1 /\ wait["fix"] \in 0 .. Horizon
        /\ calm \in 0 .. Horizon
    BY DEF Inv, TypeOK, Report
  <2>2. /\ lag \in Nat /\ Apart \in Nat /\ FixPeriod \in Nat /\ FixPeriod > 0
        /\ Apart = TruthPeriod + MaxRound
    BY <2>1, LagFits DEF Apart
  <2>3. FixKeepsPeriod
    <3> SUFFICES ASSUME lag <= (Slots - 1) * TruthPeriod,
                        calm >= lag + TruthPeriod + FixPeriod + 2 * MaxRound
                 PROVE  wait["fix"] < FixPeriod + MaxRound
      BY DEF FixKeepsPeriod
    <3>1. CASE ~(gps_enable /\ fdm_mode)
      <4>1. wait["fix"] = 0
        BY <3>1 DEF FeedInv, Feeding
      <4> QED BY <2>2, <4>1, Constants
    <3>2. CASE gps_enable /\ fdm_mode
      <4>1. /\ since["fix"] < FixPeriod
            /\ wait["fix"] <= since["fix"] \/ calm < lag + Apart + since["fix"]
        BY <3>2 DEF FeedInv, Feeding
      <4> QED BY <2>1, <2>2, <4>1, Constants
    <3> QED BY <3>1, <3>2
  <2> QED BY <2>3 DEF FixLagged, FeedInv
<1> QED BY <1>1, <1>2, <1>3, InitInv, NextInv, FeedBehind, PTL DEF Spec

------------------------------------------------------------------------------
(* The sampler.                                                            *)

LEMMA LoopConstants ==
  /\ Base \in Nat /\ Base > 0 /\ Shot \in Nat /\ Shot > 0 /\ Shot <= Base
  /\ Rates \subseteq 0 .. Base /\ Single \subseteq Sensors
  /\ Fastest \in 0 .. Base /\ Rates \subseteq 0 .. Fastest /\ Shot <= Fastest
  /\ IsFiniteSet(Sensors) /\ TickPeriod \in Nat /\ TickPeriod > 0
  /\ TickCost \in Nat /\ PhysCost \in Nat /\ FdmCost \in Nat /\ SampleCost \in Nat
  /\ RestCost \in Nat /\ MaxLag \in Nat /\ MaxLag > 0 /\ MaxHeld \in Nat /\ MaxHeld > 0
BY LoopAssumption

SampleTypes ==
  /\ acc \in [Sensors -> 0 .. Base - 1] /\ rate \in [Sensors -> 0 .. Base]
  /\ pending \subseteq Single /\ todo \subseteq Sensors
  /\ run \in [Sensors -> Nat] /\ made \in [Sensors -> Nat] /\ waited \in [Single -> Nat]

(* Since a row of samples began at the remainder a, the accumulator holds  *)
(* what its ticks put in and its samples took out; a row at no rate, or    *)
(* with a single shot asked for, is empty.                                 *)
Row(d) ==
  /\ \E a \in 0 .. Base - 1 : acc[d] = a + run[d] * rate[d] - made[d] * Base
  /\ rate[d] = 0 \/ d \in pending => run[d] = 0 /\ made[d] = 0

(* A single shot asked for has put in its rate in every tick since.        *)
ShotRow(d) ==
  d \in pending =>
    acc[d] >= (waited[d] * Shot) - (IF d \in todo THEN Shot ELSE 0)

SampleInv ==
  /\ SampleTypes
  /\ \A d \in Sensors : Row(d)
  /\ \A d \in Single : ShotRow(d)

(* A multiple of n between -n and n is none.                               *)
LEMMA NoMultiple ==
  ASSUME NEW n \in Nat \ {0}, NEW q \in Int, -n < q * n, q * n < n
  PROVE  q = 0
<1>1. CASE q >= 1
  BY <1>1, SMT
<1>2. CASE q <= -1
  BY <1>2, SMT
<1> QED BY <1>1, <1>2

(* The accumulator wraps once at most.                                     *)
LEMMA WrapsOnce ==
  ASSUME NEW a \in 0 .. Base - 1, NEW r \in 0 .. Base
  PROVE  /\ (a + r) % Base \in 0 .. Base - 1
         /\ (a + r) % Base = IF a + r >= Base THEN a + r - Base ELSE a + r
BY LoopConstants, SMT

(* A row that comes out even leaves the accumulator where it began.        *)
LEMMA EvenRow ==
  ASSUME NEW a \in 0 .. Base - 1, NEW b \in 0 .. Base - 1, NEW p \in Nat, NEW m \in Nat,
         b = a + p - m * Base, p % Base = 0
  PROVE  a = b
<1> DEFINE q == p \div Base
<1>1. q \in Int /\ p = q * Base
  BY LoopConstants, SMT
<1> HIDE DEF q
<1>2. (q - m) * Base = b - a
  BY <1>1, LoopConstants, SMT
<1>3. q - m = 0
  <2>1. q - m \in Int /\ -Base < b - a /\ b - a < Base
    BY <1>1, LoopConstants
  <2> QED BY <2>1, <1>2, LoopConstants, NoMultiple
<1>4. b - a = 0
  BY <1>2, <1>3, LoopConstants, SMT
<1> QED BY <1>4

LEMMA InitSample == S!Init => SampleInv
<1> SUFFICES ASSUME S!Init PROVE SampleInv
  OBVIOUS
<1>1. SampleTypes
  BY LoopConstants DEF S!Init, SampleTypes
<1>2. ASSUME NEW d \in Sensors PROVE Row(d)
  <2>1. acc[d] = 0 /\ rate[d] = 0 /\ run[d] = 0 /\ made[d] = 0
    BY DEF S!Init
  <2>2. 0 \in 0 .. Base - 1 /\ 0 = 0 + 0 * 0 - 0 * Base
    BY LoopConstants
  <2> QED BY <2>1, <2>2 DEF Row
<1>3. \A d \in Single : ShotRow(d)
  BY DEF S!Init, ShotRow
<1> QED BY <1>1, <1>2, <1>3 DEF SampleInv

(* What the bus asks for begins a row, or does not touch it.               *)
LEMMA BusSample ==
  ASSUME SampleInv, S!Bus
  PROVE  SampleInv'
<1> USE DEF SampleInv
<1>1. CASE \E d \in Sensors, r \in Rates : S!SetRate(d, r)
  <2>1. PICK d \in Sensors, r \in Rates : S!SetRate(d, r)
    BY <1>1
  <2>2. /\ rate' = [rate EXCEPT ![d] = r] /\ run' = [run EXCEPT ![d] = 0]
        /\ made' = [made EXCEPT ![d] = 0] /\ UNCHANGED <<acc, pending, todo, waited>>
    BY <2>1 DEF S!SetRate
  <2>3. SampleTypes'
    BY <2>2, LoopConstants DEF SampleTypes
  <2>4. ASSUME NEW e \in Sensors PROVE Row(e)'
    <3>1. CASE e = d
      <4>1. run'[e] = 0 /\ made'[e] = 0 /\ rate'[e] \in Int /\ acc'[e] \in 0 .. Base - 1
        BY <2>2, <2>3, <3>1 DEF SampleTypes
      <4>2. acc'[e] = acc'[e] + 0 * rate'[e] - 0 * Base
        BY <4>1, LoopConstants, SMT
      <4> QED BY <4>1, <4>2 DEF Row
    <3>2. CASE e # d
      BY <2>2, <3>2 DEF SampleTypes, Row
    <3> QED BY <3>1, <3>2
  <2>5. \A e \in Single : ShotRow(e)'
    BY <2>2 DEF ShotRow
  <2> QED BY <2>3, <2>4, <2>5
<1>2. CASE \E d \in Single : S!Ask(d)
  <2>1. PICK d \in Single : S!Ask(d)
    BY <1>2
  <2>2. /\ rate[d] = 0 /\ pending' = pending \union {d} /\ waited' = [waited EXCEPT ![d] = 0]
        /\ UNCHANGED <<acc, rate, run, made, todo>>
    BY <2>1 DEF S!Ask, S!rowVars
  <2>3. SampleTypes'
    BY <2>2 DEF SampleTypes
  <2>4. \A e \in Sensors : Row(e)'
    BY <2>2 DEF Row
  <2>5. ASSUME NEW e \in Single PROVE ShotRow(e)'
    <3>1. CASE e = d
      <4>1. waited'[e] = 0 /\ acc'[e] \in Nat
        BY <2>2, <2>3, <3>1, LoopConstants DEF SampleTypes
      <4>2. 0 * Shot = 0
        BY LoopConstants, SMT
      <4> QED BY <4>1, <4>2, LoopConstants DEF ShotRow
    <3>2. CASE e # d
      BY <2>2, <3>2 DEF SampleTypes, ShotRow
    <3> QED BY <3>1, <3>2
  <2> QED BY <2>3, <2>4, <2>5
<1> QED BY <1>1, <1>2 DEF S!Bus

(* A tick counts for every sensor before each is considered.               *)
LEMMA TickSample ==
  ASSUME SampleInv, S!Tick
  PROVE  SampleInv'
<1> USE DEF SampleInv
<1>1. /\ todo = {} /\ todo' = Sensors /\ UNCHANGED <<acc, rate, pending, run, made>>
      /\ waited' = [d \in Single |-> IF d \in pending THEN waited[d] + 1 ELSE 0]
  BY DEF S!Tick, S!rowVars
<1>2. SampleTypes'
  BY <1>1 DEF SampleTypes
<1>3. \A d \in Sensors : Row(d)'
  BY <1>1 DEF Row
<1>4. ASSUME NEW d \in Single, d \in pending PROVE ShotRow(d)'
  <2>1. /\ waited'[d] = waited[d] + 1 /\ waited[d] \in Nat /\ acc[d] \in Int /\ d \in todo'
        /\ acc[d] >= (waited[d] * Shot) - 0
    BY <1>1, <1>4, LoopConstants DEF SampleTypes, ShotRow
  <2>2. (waited[d] + 1) * Shot = (waited[d] * Shot) + Shot /\ waited[d] * Shot \in Int
    BY <2>1, LoopConstants, SMT
  <2>3. acc[d] >= ((waited[d] + 1) * Shot) - Shot
    BY <2>1, <2>2, LoopConstants
  <2> QED BY <1>1, <2>1, <2>3 DEF ShotRow
<1>5. \A d \in Single : ShotRow(d)'
  BY <1>1, <1>4 DEF ShotRow
<1> QED BY <1>2, <1>3, <1>5

(* A sensor considered: its rate goes in, and a sample takes the base out. *)
LEMMA ConsiderSample ==
  ASSUME SampleInv, NEW d \in Sensors, S!Consider(d)
  PROVE  SampleInv'
<1> USE DEF SampleInv
<1>0. d \in todo /\ todo' = todo \ {d} /\ rate' = rate
  BY DEF S!Consider, S!divVars
<1>t. /\ acc[d] \in 0 .. Base - 1 /\ rate[d] \in 0 .. Base /\ run[d] \in Nat /\ made[d] \in Nat
  BY DEF SampleTypes
<1>1. CASE S!Hz(d) = 0
  <2>1. UNCHANGED <<acc, pending, run, made, waited>> /\ d \notin pending
    BY <1>1, LoopConstants DEF S!Consider, S!rowVars, S!Hz
  <2>2. SampleTypes'
    BY <1>0, <2>1 DEF SampleTypes
  <2>3. \A e \in Sensors : Row(e)'
    BY <1>0, <2>1 DEF Row
  <2>4. \A e \in Single : ShotRow(e)'
    BY <1>0, <2>1 DEF ShotRow
  <2> QED BY <2>2, <2>3, <2>4
<1>2. CASE S!Hz(d) # 0
  <2> DEFINE r == S!Hz(d)
             due == acc[d] + r >= Base
             n == IF due THEN 1 ELSE 0
             even == run[d] * r % Base = 0
  <2>1. /\ acc' = [acc EXCEPT ![d] = (acc[d] + r) % Base]
        /\ ~due => pending' = pending /\ waited' = waited
        /\ due => S!Commit(d)
    BY <1>2 DEF S!Consider, S!Accumulate
  <2>a. /\ pending' \subseteq pending /\ \A e \in Single \ {d} : e \in pending' => e \in pending
        /\ waited' \in [Single -> Nat] /\ \A e \in Single \ {d} : waited'[e] = waited[e]
    <3>1. CASE ~due
      BY <2>1, <3>1 DEF SampleTypes
    <3>2. CASE due
      <4>1. PICK refused \in BOOLEAN :
              /\ pending' = IF refused THEN pending ELSE pending \ {d}
              /\ waited' = [s \in Single |-> IF refused /\ s = d THEN 0 ELSE waited[s]]
        BY <2>1, <3>2 DEF S!Commit
      <4>2. ASSUME NEW e \in Single
            PROVE  (IF refused /\ e = d THEN 0 ELSE waited[e]) \in Nat
        BY DEF SampleTypes
      <4>3. waited' \in [Single -> Nat] /\ \A e \in Single \ {d} : waited'[e] = waited[e]
        BY <4>1, <4>2
      <4> QED BY <4>1, <4>3
    <3> QED BY <3>1, <3>2
  <2>b. ASSUME due, d \in pending' PROVE d \in pending /\ (d \in Single => waited'[d] = 0)
    BY <2>1, <2>b DEF S!Commit
  <2>2. IF d \in pending
        THEN run' = [run EXCEPT ![d] = 0] /\ made' = [made EXCEPT ![d] = 0]
        ELSE /\ run' = [run EXCEPT ![d] = IF even THEN 1 ELSE run[d] + 1]
             /\ made' = [made EXCEPT ![d] = IF even THEN n ELSE made[d] + n]
    BY <1>2 DEF S!Consider, S!Accumulate, S!Even
  <2>3. r \in 0 .. Base
    BY <1>t, LoopConstants DEF S!Hz
  <2> HIDE DEF even
  <2>4. /\ (acc[d] + r) % Base \in 0 .. Base - 1
        /\ (acc[d] + r) % Base = IF due THEN acc[d] + r - Base ELSE acc[d] + r
    BY <1>t, <2>3, WrapsOnce
  <2>5. SampleTypes'
    <3>1. acc' \in [Sensors -> 0 .. Base - 1]
      BY <2>1, <2>4 DEF SampleTypes
    <3>2. run' \in [Sensors -> Nat] /\ made' \in [Sensors -> Nat]
      BY <2>2, <1>t DEF SampleTypes
    <3> QED BY <1>0, <2>a, <3>1, <3>2 DEF SampleTypes
  <2>6. acc'[d] = acc[d] + r - n * Base
    <3>1. acc'[d] = (acc[d] + r) % Base
      BY <2>1 DEF SampleTypes
    <3> QED BY <3>1, <2>4, <1>t, <2>3, LoopConstants, SMT
  <2>7. Row(d)'
    <3>1. CASE d \in pending
      <4>1. run'[d] = 0 /\ made'[d] = 0 /\ acc'[d] \in 0 .. Base - 1 /\ rate'[d] \in Int
        BY <1>0, <1>t, <2>2, <2>5, <3>1 DEF SampleTypes
      <4>2. acc'[d] = acc'[d] + 0 * rate'[d] - 0 * Base
        BY <4>1, LoopConstants, SMT
      <4> QED BY <4>1, <4>2 DEF Row
    <3>2. CASE d \notin pending
      <4>1. r = rate[d] /\ rate[d] # 0
        BY <1>2, <3>2 DEF S!Hz
      <4>2. PICK a \in 0 .. Base - 1 : acc[d] = a + run[d] * rate[d] - made[d] * Base
        BY DEF Row
      <4>3. d \notin pending' /\ rate'[d] # 0
        BY <1>0, <2>a, <3>2, <4>1
      <4>4. CASE even
        <5>1. run'[d] = 1 /\ made'[d] = n
          BY <2>2, <3>2, <4>4 DEF SampleTypes
        <5>2. (run[d] * rate[d]) % Base = 0 /\ run[d] * rate[d] \in Nat
          BY <4>1, <4>4, <1>t, SMT DEF even
        <5>3. a = acc[d]
          BY <4>2, <5>2, <1>t, EvenRow
        <5>4. acc'[d] = a + 1 * rate'[d] - n * Base
          BY <1>0, <1>t, <2>6, <4>1, <5>3, LoopConstants, SMT
        <5> QED BY <4>3, <5>1, <5>4 DEF Row
      <4>5. CASE ~even
        <5>1. run'[d] = run[d] + 1 /\ made'[d] = made[d] + n
          BY <2>2, <3>2, <4>5 DEF SampleTypes
        <5>2. /\ (run[d] + 1) * rate[d] = run[d] * rate[d] + rate[d]
              /\ (made[d] + n) * Base = made[d] * Base + n * Base
          BY <1>t, LoopConstants, SMT
        <5>3. acc'[d] = a + (run[d] + 1) * rate[d] - (made[d] + n) * Base
          BY <1>t, <2>6, <4>1, <4>2, <5>2, LoopConstants, SMT
        <5> QED BY <1>0, <4>3, <5>1, <5>3 DEF Row
      <4> QED BY <4>4, <4>5
    <3> QED BY <3>1, <3>2
  <2>8. ASSUME NEW e \in Sensors, e # d PROVE Row(e)'
    <3>1. /\ acc'[e] = acc[e] /\ run'[e] = run[e] /\ made'[e] = made[e] /\ rate'[e] = rate[e]
          /\ e \in pending' => e \in pending
      BY <1>0, <2>1, <2>2, <2>8, <2>a DEF SampleTypes
    <3> QED BY <3>1 DEF Row
  <2>9. ASSUME NEW e \in Single PROVE ShotRow(e)'
    <3>1. CASE e # d
      <4>1. e \in Sensors
        BY LoopConstants
      <4>2. /\ acc'[e] = acc[e] /\ waited'[e] = waited[e]
            /\ e \in pending' => e \in pending
            /\ e \in todo' <=> e \in todo
        BY <1>0, <2>1, <2>a, <3>1, <4>1 DEF SampleTypes
      <4> QED BY <4>2 DEF ShotRow
    <3>2. CASE e = d /\ d \in pending' /\ due
      <4>1. waited'[d] = 0 /\ acc'[d] \in Nat
        BY <2>5, <2>b, <3>2, LoopConstants DEF SampleTypes
      <4>2. 0 * Shot = 0
        BY LoopConstants, SMT
      <4>3. acc'[d] >= (waited'[d] * Shot) - 0
        BY <4>1, <4>2
      <4> QED BY <1>0, <3>2, <4>3 DEF ShotRow
    <3>3. CASE e = d /\ d \in pending' /\ ~due
      <4>1. d \in pending /\ r = Shot /\ waited'[d] = waited[d]
        BY <2>1, <3>3 DEF S!Hz
      <4>2. acc'[d] = acc[d] + Shot
        <5>1. n = 0 /\ 0 * Base = 0
          BY <3>3, LoopConstants, SMT
        <5> QED BY <5>1, <4>1, <2>6, <1>t, LoopConstants
      <4>3. waited[d] * Shot \in Int
        <5>1. waited[d] \in Nat
          BY <3>3, <4>1 DEF SampleTypes
        <5> QED BY <5>1, LoopConstants, SMT
      <4>4. acc[d] >= (waited[d] * Shot) - Shot
        BY <1>0, <3>3, <4>1 DEF ShotRow
      <4>5. acc'[d] >= (waited'[d] * Shot) - 0
        BY <4>1, <4>2, <4>3, <4>4, <1>t, LoopConstants
      <4> QED BY <1>0, <3>3, <4>5 DEF ShotRow
    <3> QED BY <3>1, <3>2, <3>3 DEF ShotRow
  <2> QED BY <2>5, <2>7, <2>8, <2>9
<1> QED BY <1>1, <1>2

LEMMA NextSample ==
  ASSUME SampleInv, [S!Next]_(S!vars)
  PROVE  SampleInv'
<1>1. CASE S!Leave \/ S!Rest \/ UNCHANGED S!vars
  <2>1. UNCHANGED <<acc, rate, pending, todo, run, made, waited>>
    BY <1>1 DEF S!Leave, S!Rest, S!vars, S!rowVars
  <2> QED BY <2>1 DEF SampleInv, SampleTypes, Row, ShotRow
<1> QED BY <1>1, BusSample, TickSample, ConsiderSample DEF S!Next, S!Main

(* At a rate left alone no sensor strays from it by a whole sample,        *)
(* whatever rates and single shots came before and whatever commits were   *)
(* refused, and a commit is tried for a single shot within the period of   *)
(* its rate after the request and after every refused try: for every base  *)
(* and set of rates up to it, however the work delays the ticks.           *)
THEOREM SampledAtRate == S!Spec => []RatesKept
<1>1. SampleInv => RatesKept
  <2> SUFFICES ASSUME SampleInv PROVE S!RateKept /\ S!ShotInTime
    BY DEF RatesKept
  <2>1. ASSUME NEW d \in Sensors
        PROVE  LET stray == made[d] * Base - run[d] * rate[d] IN - Base < stray /\ stray < Base
    <3>1. PICK a \in 0 .. Base - 1 : acc[d] = a + run[d] * rate[d] - made[d] * Base
      BY DEF SampleInv, Row
    <3>2. /\ acc[d] \in 0 .. Base - 1 /\ run[d] * rate[d] \in Int /\ made[d] * Base \in Int
      BY LoopConstants, SMT DEF SampleInv, SampleTypes
    <3> QED BY <3>1, <3>2, LoopConstants
  <2>2. S!RateKept
    BY <2>1 DEF S!RateKept
  <2>3. ASSUME NEW d \in Single, d \in pending, todo = {}
        PROVE  waited[d] * Shot < Base
    <3>1. acc[d] >= (waited[d] * Shot) - 0 /\ acc[d] \in 0 .. Base - 1 /\ waited[d] \in Nat
      BY <2>3, LoopConstants DEF SampleInv, SampleTypes, ShotRow
    <3>2. waited[d] * Shot \in Int
      BY <3>1, LoopConstants, SMT
    <3> QED BY <3>1, <3>2, LoopConstants
  <2> QED BY <2>2, <2>3 DEF S!ShotInTime
<1> QED BY <1>1, InitSample, NextSample, PTL DEF S!Spec

------------------------------------------------------------------------------
(* The load of the processor.                                              *)

(* What the accumulators hold, counted: a piece for each unit in each.     *)
Filled == [Sensors -> 0 .. Base - 1]
Pieces(f) == {p \in Sensors \X (1 .. Base) : p[2] <= f[p[1]]}
Owed(f) == Cardinality(Pieces(f))

LEMMA Counts == Cardinality(Sensors) \in Nat
BY LoopConstants, FS_CardinalityType

LEMMA PiecesFinite ==
  ASSUME NEW f \in Filled
  PROVE  IsFiniteSet(Pieces(f)) /\ Owed(f) \in Nat
<1>1. IsFiniteSet(1 .. Base)
  BY LoopConstants, FS_Interval
<1>2. IsFiniteSet(Sensors \X (1 .. Base))
  BY <1>1, LoopConstants, FS_Product
<1>3. Pieces(f) \in SUBSET (Sensors \X (1 .. Base))
  BY DEF Pieces
<1>4. IsFiniteSet(Pieces(f))
  BY <1>2, <1>3, FS_Subset
<1> QED BY <1>4, FS_CardinalityType DEF Owed

(* No accumulator is full.                                                 *)
LEMMA OwedBound ==
  ASSUME NEW f \in Filled
  PROVE  Owed(f) <= Cardinality(Sensors) * (Base - 1)
<1> DEFINE room == Sensors \X (1 .. Base - 1)
<1>1. IsFiniteSet(1 .. Base - 1) /\ Cardinality(1 .. Base - 1) = Base - 1
  <2>1. /\ IsFiniteSet(1 .. Base - 1)
        /\ Cardinality(1 .. Base - 1) = IF 1 > Base - 1 THEN 0 ELSE Base - 1 - 1 + 1
    BY LoopConstants, FS_Interval
  <2> QED BY <2>1, LoopConstants
<1>2. IsFiniteSet(room) /\ Cardinality(room) = Cardinality(Sensors) * (Base - 1)
  BY <1>1, LoopConstants, FS_Product
<1>3. Pieces(f) \in SUBSET room
  <2>1. ASSUME NEW p \in Pieces(f) PROVE p \in room
    <3>1. p \in Sensors \X (1 .. Base) /\ p[2] <= f[p[1]]
      BY DEF Pieces
    <3>2. p = <<p[1], p[2]>> /\ p[1] \in Sensors /\ p[2] \in 1 .. Base
      BY <3>1
    <3>3. f[p[1]] \in 0 .. Base - 1
      BY <3>2 DEF Filled
    <3>4. p[2] \in 1 .. Base - 1
      BY <3>1, <3>2, <3>3, LoopConstants
    <3> QED BY <3>2, <3>4
  <2> QED BY <2>1
<1> HIDE DEF room
<1> QED BY <1>2, <1>3, FS_Subset DEF Owed

(* The pieces of one sensor and those of the others.                       *)
LEMMA OwedSplit ==
  ASSUME NEW f \in Filled, NEW d \in Sensors
  PROVE  LET others == {p \in Pieces(f) : p[1] # d}
         IN  Cardinality(others) \in Nat /\ Owed(f) = Cardinality(others) + f[d]
<1> DEFINE others == {p \in Pieces(f) : p[1] # d}
           own == {d} \X (1 .. f[d])
<1>1. f[d] \in 0 .. Base - 1 /\ f[d] \in Int /\ f[d] >= 0
  BY LoopConstants DEF Filled
<1>2. IsFiniteSet(others) /\ Cardinality(others) \in Nat
  <2>1. others \in SUBSET Pieces(f)
    OBVIOUS
  <2> HIDE DEF others
  <2>2. IsFiniteSet(others)
    BY <2>1, PiecesFinite, FS_Subset
  <2> QED BY <2>2, FS_CardinalityType
<1>3. IsFiniteSet(own) /\ Cardinality(own) = f[d]
  <2>1. IsFiniteSet(1 .. f[d]) /\ Cardinality(1 .. f[d]) = IF 1 > f[d] THEN 0 ELSE f[d] - 1 + 1
    BY <1>1, FS_Interval
  <2>2. Cardinality(1 .. f[d]) = f[d]
    BY <2>1, <1>1
  <2>3. IsFiniteSet({d}) /\ Cardinality({d}) = 1
    BY FS_Singleton
  <2>4. IsFiniteSet(own) /\ Cardinality(own) = Cardinality({d}) * Cardinality(1 .. f[d])
    BY <2>1, <2>3, FS_Product
  <2> QED BY <2>2, <2>3, <2>4, <1>1
<1>4. Pieces(f) = others \union own
  <2>1. ASSUME NEW p \in Pieces(f), p[1] = d PROVE p \in own
    <3>1. p \in Sensors \X (1 .. Base) /\ p[2] <= f[d]
      BY <2>1 DEF Pieces
    <3>2. p = <<d, p[2]>> /\ p[2] \in 1 .. Base
      BY <3>1, <2>1
    <3>3. p[2] \in 1 .. f[d]
      BY <3>1, <3>2, <1>1, LoopConstants
    <3> QED BY <3>2, <3>3
  <2>2. ASSUME NEW p \in own PROVE p \in Pieces(f)
    <3>1. p = <<d, p[2]>> /\ p[1] = d /\ p[2] \in 1 .. f[d]
      OBVIOUS
    <3>2. p[2] \in 1 .. Base /\ p[2] <= f[d]
      BY <3>1, <1>1, LoopConstants
    <3> QED BY <3>1, <3>2 DEF Pieces
  <2> QED BY <2>1, <2>2
<1>5. others \intersect own = {}
  OBVIOUS
<1> HIDE DEF others, own
<1>6. Cardinality(Pieces(f)) = Cardinality(others) + Cardinality(own) - Cardinality({})
  BY <1>2, <1>3, <1>4, <1>5, FS_Union
<1>7. Owed(f) = Cardinality(others) + f[d]
  BY <1>1, <1>2, <1>3, <1>6, FS_EmptySet DEF Owed
<1> QED BY <1>2, <1>7 DEF others

(* One accumulator changes.                                                *)
LEMMA OwedStep ==
  ASSUME NEW f \in Filled, NEW d \in Sensors, NEW b \in 0 .. Base - 1
  PROVE  /\ [f EXCEPT ![d] = b] \in Filled
         /\ Owed([f EXCEPT ![d] = b]) = Owed(f) + b - f[d]
<1> DEFINE g == [f EXCEPT ![d] = b]
<1>1. g \in Filled /\ g[d] = b /\ \A e \in Sensors : e # d => g[e] = f[e]
  BY DEF Filled
<1> HIDE DEF g
<1>2. {p \in Pieces(g) : p[1] # d} = {p \in Pieces(f) : p[1] # d}
  BY <1>1 DEF Pieces
<1> DEFINE m == Cardinality({p \in Pieces(f) : p[1] # d})
<1>3. m \in Nat /\ Owed(f) = m + f[d]
  BY OwedSplit
<1>4. Owed(g) = Cardinality({p \in Pieces(g) : p[1] # d}) + g[d]
  BY <1>1, OwedSplit
<1>5. Owed(g) = m + b
  BY <1>1, <1>2, <1>4
<1> HIDE DEF m
<1>6. f[d] \in Int
  BY LoopConstants DEF Filled
<1>7. Owed(g) = Owed(f) + b - f[d]
  BY <1>3, <1>5, <1>6
<1> QED BY <1>1, <1>7 DEF g

(* The work that has come together, in the parts of LoadAssumption: the    *)
(* time passed and not accounted for, the dividers' share of the next step *)
(* of a model, and the accumulators' of the next samples.                  *)
Debt == behind * TickPeriod + part
Credit == IF mode = 1 THEN fdm_div * FdmCost ELSE 2 * phys_div * PhysCost
Weight ==
  10 * Base * Debt + Base * Credit
    + 10 * SampleCost * (Owed(acc) + Fastest * Cardinality(todo))

LoopTypes ==
  /\ behind \in Nat /\ part \in 0 .. TickPeriod - 1 /\ held \in 0 .. MaxHeld - 1
  /\ mode \in 0 .. 1 /\ phys_div \in 0 .. 4 /\ fdm_div \in 0 .. 9
  /\ \A d \in Sensors : rate[d] <= Fastest
  /\ pc \in {"ticks", "rest"}
  /\ pc = "rest" => behind = 0 /\ todo = {} /\ held = 0

(* Each tick of a catch-up makes it less by what the processor has to      *)
(* spare in a tick.                                                        *)
LoadInv ==
  /\ LoopTypes
  /\ pc = "ticks" => Weight + held * (Whole - Load) <= Backlog

LEMMA LoadConstants ==
  /\ Heaviest \in Nat /\ FdmCost <= Heaviest /\ 2 * PhysCost <= Heaviest
  /\ Whole \in Nat /\ Load \in Nat /\ Backlog \in Int /\ Load < Whole
  /\ Backlog < Whole * MaxLag /\ Backlog - Whole < (Whole - Load) * (MaxHeld - 1)
<1>1. Heaviest \in Nat /\ FdmCost <= Heaviest /\ 2 * PhysCost <= Heaviest
  BY LoopConstants DEF Heaviest
<1>2. Whole \in Nat /\ Load \in Nat /\ Backlog \in Int
  BY <1>1, LoopConstants, Counts, SMT DEF Whole, Load, Backlog
<1> QED BY <1>1, <1>2, LoadAssumption

(* Time that weighs no more than the backlog is less than MaxLag ticks.    *)
LEMMA TimeFits ==
  ASSUME NEW t \in Nat, 10 * Base * t <= Backlog
  PROVE  t < TickPeriod * MaxLag
<1>1. CASE t >= TickPeriod * MaxLag
  <2>1. TickPeriod * MaxLag \in Nat /\ Base \in Nat
    BY LoopConstants, SMT
  <2>2. 10 * Base * t >= 10 * Base * (TickPeriod * MaxLag)
    <3> DEFINE y == TickPeriod * MaxLag
    <3>1. t >= y /\ y \in Nat
      BY <1>1, <2>1
    <3> HIDE DEF y
    <3>2. Base * t >= Base * y
      BY <3>1, LoopConstants, SMT
    <3>3. 10 * Base * t >= 10 * Base * y
      BY <3>1, <3>2, LoopConstants, SMT
    <3> QED BY <3>3 DEF y
  <2>3. 10 * Base * (TickPeriod * MaxLag) = Whole * MaxLag
    BY LoopConstants, SMT DEF Whole
  <2>4. 10 * Base * t \in Int /\ Whole * MaxLag \in Int
    BY LoopConstants, LoadConstants, SMT
  <2> QED BY <2>2, <2>3, <2>4, LoadConstants
<1>2. TickPeriod * MaxLag \in Int
  BY LoopConstants, SMT
<1> QED BY <1>1, <1>2

(* The clock after work that does not overrun the bound.                   *)
LEMMA TakesTime ==
  ASSUME NEW c \in Nat, NEW ticks \in Nat, part \in 0 .. TickPeriod - 1, S!Takes(c, ticks),
         10 * Base * (ticks * TickPeriod + part + c) <= Backlog
  PROVE  /\ behind' \in Nat /\ part' \in 0 .. TickPeriod - 1
         /\ Debt' = ticks * TickPeriod + part + c
<1> DEFINE q == (part + c) \div TickPeriod
           m == (part + c) % TickPeriod
<1>1. q \in Nat /\ m \in 0 .. TickPeriod - 1 /\ part + c = q * TickPeriod + m
  <2>1. part + c \in Nat
    BY LoopConstants
  <2> DEFINE x == part + c
  <2> HIDE DEF x
  <2>2. x \in Nat
    BY <2>1 DEF x
  <2>3. /\ x \div TickPeriod \in Nat /\ x % TickPeriod \in 0 .. TickPeriod - 1
        /\ x = (x \div TickPeriod) * TickPeriod + (x % TickPeriod)
    BY <2>2, LoopConstants, SMT
  <2> QED BY <2>3 DEF x
<1>2. behind' = (IF ticks + q < MaxLag THEN ticks + q ELSE MaxLag) /\ part' = m
  BY DEF S!Takes
<1> HIDE DEF q, m
<1> DEFINE n == ticks + q
<1>3. n \in Nat /\ ticks * TickPeriod + part + c = n * TickPeriod + m
  <2>1. (ticks + q) * TickPeriod = ticks * TickPeriod + q * TickPeriod
    BY <1>1, LoopConstants, SMT
  <2>2. ticks * TickPeriod \in Nat /\ q * TickPeriod \in Nat
    BY <1>1, LoopConstants, SMT
  <2> QED BY <1>1, <2>1, <2>2, LoopConstants
<1> HIDE DEF n
<1>4. n * TickPeriod + m \in Nat
  BY <1>1, <1>3, LoopConstants, SMT
<1>5. n * TickPeriod + m < TickPeriod * MaxLag
  BY <1>3, <1>4, TimeFits
<1>6. n < MaxLag
  <2>1. CASE n >= MaxLag
    <3>1. n * TickPeriod >= TickPeriod * MaxLag
      BY <2>1, <1>3, LoopConstants, SMT
    <3> QED BY <3>1, <1>1, <1>3, <1>5, LoopConstants, SMT
  <2> QED BY <2>1, <1>3, LoopConstants
<1>7. behind' = n
  BY <1>2, <1>6 DEF n
<1> QED BY <1>1, <1>2, <1>3, <1>7 DEF Debt

LEMMA Weights ==
  ASSUME SampleInv, LoopTypes
  PROVE  /\ acc \in Filled /\ Owed(acc) \in Nat /\ Debt \in Nat /\ Credit \in Nat
         /\ IsFiniteSet(todo) /\ Cardinality(todo) \in Nat /\ Weight \in Nat
         /\ 10 * Base * Debt <= Weight
<1>1. acc \in Filled /\ Owed(acc) \in Nat
  BY PiecesFinite DEF SampleInv, SampleTypes, Filled
<1>2. Debt \in Nat /\ Credit \in Nat
  <2>1. behind \in Nat /\ part \in Nat /\ fdm_div \in Nat /\ phys_div \in Nat
    BY LoopConstants DEF LoopTypes
  <2>2. behind * TickPeriod + part \in Nat /\ fdm_div * FdmCost \in Nat
        /\ 2 * phys_div * PhysCost \in Nat
    BY <2>1, LoopConstants, SMT
  <2> QED BY <2>2 DEF Debt, Credit
<1>3. IsFiniteSet(todo) /\ Cardinality(todo) \in Nat
  <2>1. todo \in SUBSET Sensors
    BY DEF SampleInv, SampleTypes
  <2>2. IsFiniteSet(todo)
    BY <2>1, LoopConstants, FS_Subset
  <2> QED BY <2>2, FS_CardinalityType
<1>4. /\ 10 * Base * Debt \in Nat /\ Base * Credit \in Nat
      /\ 10 * SampleCost * (Owed(acc) + Fastest * Cardinality(todo)) \in Nat
  <2> DEFINE x == Owed(acc)
             y == Cardinality(todo)
  <2>1. x \in Nat /\ y \in Nat /\ Fastest \in Nat
    BY <1>1, <1>3, LoopConstants
  <2> HIDE DEF x, y
  <2>2. 10 * SampleCost * (x + Fastest * y) \in Nat
    BY <2>1, LoopConstants, SMT
  <2>3. 10 * Base * Debt \in Nat /\ Base * Credit \in Nat
    BY <1>2, LoopConstants, SMT
  <2> QED BY <2>2, <2>3 DEF x, y
<1> QED BY <1>1, <1>2, <1>3, <1>4 DEF Weight

LEMMA InitLoad == S!Init => LoadInv
BY LoopConstants DEF S!Init, LoadInv, LoopTypes

(* What the bus asks for does no work.                                     *)
LEMMA BusLoad ==
  ASSUME SampleInv, LoadInv, S!Bus
  PROVE  LoadInv'
<1>1. UNCHANGED <<behind, part, todo, pc, mode, phys_div, fdm_div, acc, held>>
  BY DEF S!Bus, S!SetRate, S!Ask, S!timeVars, S!divVars
<1>2. ASSUME NEW d \in Sensors PROVE rate'[d] <= Fastest
  <2>1. CASE \E e \in Single : S!Ask(e)
    BY <2>1 DEF S!Ask, LoadInv, LoopTypes
  <2>2. CASE \E e \in Sensors, r \in Rates : S!SetRate(e, r)
    <3>1. PICK e \in Sensors, r \in Rates : rate' = [rate EXCEPT ![e] = r]
      BY <2>2 DEF S!SetRate
    <3>2. r <= Fastest
      BY LoopConstants
    <3> QED BY <3>1, <3>2 DEF SampleInv, SampleTypes, LoadInv, LoopTypes
  <2> QED BY <2>1, <2>2 DEF S!Bus
<1>3. LoopTypes'
  BY <1>1, <1>2 DEF LoadInv, LoopTypes
<1>4. Weight' = Weight
  BY <1>1 DEF Weight, Debt, Credit
<1> QED BY <1>1, <1>3, <1>4 DEF LoadInv

(* A tick: the work of one on average, less its time.                      *)
LEMMA TickLoad ==
  ASSUME SampleInv, LoadInv, S!Tick
  PROVE  LoadInv'
<1>t. /\ behind \in Nat /\ behind > 0 /\ part \in 0 .. TickPeriod - 1 /\ held \in Nat
      /\ mode \in 0 .. 1 /\ phys_div \in 0 .. 4 /\ fdm_div \in 0 .. 9
      /\ pc = "ticks" /\ todo = {} /\ todo' = Sensors /\ UNCHANGED <<pc, mode, acc, rate>>
      /\ held' = IF held < MaxHeld THEN held + 1 ELSE held
      /\ Weight + held * (Whole - Load) <= Backlog
  BY LoopConstants DEF LoadInv, LoopTypes, S!Tick
<1> DEFINE model == CASE mode = 0 /\ phys_div + 1 >= 5 -> PhysCost
                      [] mode = 1 /\ fdm_div + 1 >= 10 -> FdmCost
                      [] OTHER -> 0
           ticks == behind - 1
           c == TickCost + model
           t == ticks * TickPeriod + part + c
<1>1. /\ phys_div' = (phys_div + 1) % 5 /\ fdm_div' = (fdm_div + 1) % 10
      /\ S!Takes(c, ticks)
  BY DEF S!Tick, S!Step
<1>2. model \in Nat
  BY LoopConstants
<1>3. phys_div' \in 0 .. 4 /\ fdm_div' \in 0 .. 9
  BY <1>1, <1>t
<1>4. 10 * model + Credit' - Credit <= Heaviest
  <2>1. CASE mode = 0
    <3>1. Credit = 2 * phys_div * PhysCost /\ Credit' = 2 * phys_div' * PhysCost
      BY <2>1, <1>t DEF Credit
    <3>2. CASE phys_div = 4
      <4>1. phys_div' = 0 /\ model = PhysCost
        BY <3>2, <2>1, <1>1
      <4> QED BY <3>1, <3>2, <4>1, LoadConstants, LoopConstants, SMT
    <3>3. CASE phys_div # 4
      <4>1. phys_div' = phys_div + 1 /\ model = 0
        BY <3>3, <2>1, <1>1, <1>t
      <4>2. 2 * (phys_div + 1) * PhysCost = 2 * phys_div * PhysCost + 2 * PhysCost
        BY <1>t, LoopConstants, SMT
      <4>3. 2 * phys_div * PhysCost \in Int
        BY <1>t, LoopConstants, SMT
      <4> QED BY <3>1, <4>1, <4>2, <4>3, LoadConstants, LoopConstants
    <3> QED BY <3>2, <3>3
  <2>2. CASE mode = 1
    <3>1. Credit = fdm_div * FdmCost /\ Credit' = fdm_div' * FdmCost
      BY <2>2, <1>t DEF Credit
    <3>2. CASE fdm_div = 9
      <4>1. fdm_div' = 0 /\ model = FdmCost
        BY <3>2, <2>2, <1>1
      <4> QED BY <3>1, <3>2, <4>1, LoadConstants, LoopConstants, SMT
    <3>3. CASE fdm_div # 9
      <4>1. fdm_div' = fdm_div + 1 /\ model = 0
        BY <3>3, <2>2, <1>1, <1>t
      <4>2. (fdm_div + 1) * FdmCost = fdm_div * FdmCost + FdmCost
        BY <1>t, LoopConstants, SMT
      <4>3. fdm_div * FdmCost \in Int
        BY <1>t, LoopConstants, SMT
      <4> QED BY <3>1, <4>1, <4>2, <4>3, LoadConstants, LoopConstants
    <3> QED BY <3>2, <3>3
  <2> QED BY <1>t, <2>1, <2>2
<1>5. t \in Nat /\ t = Debt - TickPeriod + TickCost + model
  <2> HIDE DEF model
  <2>1. (behind - 1) * TickPeriod = behind * TickPeriod - TickPeriod
    BY <1>t, LoopConstants, SMT
  <2>2. behind * TickPeriod \in Nat /\ behind * TickPeriod >= TickPeriod
    BY <1>t, LoopConstants, SMT
  <2> QED BY <1>2, <1>t, <2>1, <2>2, LoopConstants DEF Debt
<1> HIDE DEF model
<1>6. /\ Weight \in Nat /\ Owed(acc) \in Nat /\ Debt \in Nat /\ Credit \in Nat
      /\ 10 * Base * Debt <= Weight
  BY Weights DEF LoadInv
<1>7. Credit' \in Nat
  <2> DEFINE x == fdm_div'
             y == phys_div'
  <2>0. x \in Nat /\ y \in Nat
    BY <1>3
  <2> HIDE DEF x, y
  <2>1. x * FdmCost \in Nat /\ 2 * y * PhysCost \in Nat
    BY <2>0, LoopConstants, SMT
  <2> QED BY <2>1 DEF Credit, x, y
<1> DEFINE n == Cardinality(Sensors)
           w == 10 * Base * t + Base * Credit'
                  + 10 * SampleCost * (Owed(acc) + Fastest * n)
<1>8. n \in Nat
  BY Counts
<1> HIDE DEF t, n
<1>9. w <= Weight - Whole + Load
  <2> DEFINE owed == Owed(acc)
             k == Credit
             k1 == Credit'
             b == Debt
  <2>1. Cardinality(todo) = 0
    BY <1>t, FS_EmptySet
  <2>2. owed \in Nat /\ k \in Nat /\ k1 \in Nat /\ b \in Nat
    BY <1>6, <1>7
  <2>3. Weight = 10 * Base * b + Base * k + 10 * SampleCost * (owed + Fastest * 0)
    BY <2>1 DEF Weight
  <2>4. Load = 10 * Base * TickCost + Base * Heaviest + 10 * SampleCost * Fastest * n
    BY DEF Load, n
  <2>a. 10 * model + k1 - k <= Heaviest
    BY <1>4
  <2> HIDE DEF owed, k, k1, b
  <2>5. 10 * Base * t = 10 * Base * b - Whole + 10 * Base * TickCost + 10 * Base * model
    <3>1. t = b - TickPeriod + TickCost + model
      BY <1>5 DEF b
    <3> QED BY <3>1, <2>2, <1>2, LoopConstants, SMT DEF Whole
  <2>6. 10 * Base * model + Base * k1 <= Base * k + Base * Heaviest
    <3>1. 10 * model + k1 <= k + Heaviest
      BY <2>a, <1>2, <2>2, LoadConstants
    <3>2. Base * (10 * model + k1) <= Base * (k + Heaviest)
      <4> DEFINE u == 10 * model + k1
                 v == k + Heaviest
      <4>1. u \in Nat /\ v \in Nat /\ u <= v
        BY <3>1, <1>2, <2>2, LoadConstants
      <4> HIDE DEF u, v
      <4>2. Base * u <= Base * v
        BY <4>1, LoopConstants, SMT
      <4> QED BY <4>2 DEF u, v
    <3> QED BY <3>2, <1>2, <2>2, LoadConstants, LoopConstants, SMT
  <2>7. w = 10 * Base * t + Base * k1 + 10 * SampleCost * (owed + Fastest * n)
    BY DEF owed, k1
  <2>8. 10 * SampleCost * (owed + Fastest * n)
          = 10 * SampleCost * (owed + Fastest * 0) + 10 * SampleCost * Fastest * n
    BY <1>8, <2>2, LoopConstants, SMT
  <2> DEFINE A == 10 * Base * b
             D == Base * k
             D1 == Base * k1
             E == 10 * Base * TickCost
             G == 10 * Base * model
             H == Base * Heaviest
             I == 10 * SampleCost * (owed + Fastest * 0)
             J == 10 * SampleCost * Fastest * n
             K == 10 * Base * t
  <2>9. /\ A \in Int /\ D \in Int /\ D1 \in Int /\ E \in Int /\ G \in Int /\ H \in Int
        /\ I \in Int /\ J \in Int /\ K \in Int
    BY <1>2, <1>5, <1>8, <2>2, LoopConstants, LoadConstants, SMT
  <2>10. /\ Weight = A + D + I /\ Load = E + H + J /\ K = A - Whole + E + G
         /\ G + D1 <= D + H /\ w = K + D1 + (I + J)
    BY <2>3, <2>4, <2>5, <2>6, <2>7, <2>8
  <2> HIDE DEF A, D, D1, E, G, H, I, J, K, w
  <2> QED BY <2>9, <2>10, LoadConstants
<1>10. w \in Nat /\ 10 * Base * t <= w
  <2>1. /\ 10 * Base * t \in Nat /\ Base * Credit' \in Nat
    <3> DEFINE k == Credit'
    <3>1. k \in Nat
      BY <1>7
    <3> HIDE DEF k
    <3>2. 10 * Base * t \in Nat /\ Base * k \in Nat
      BY <1>5, <3>1, LoopConstants, SMT
    <3> QED BY <3>2 DEF k
  <2>2. 10 * SampleCost * (Owed(acc) + Fastest * n) \in Nat
    <3> DEFINE owed == Owed(acc)
    <3>1. owed \in Nat
      BY <1>6
    <3> HIDE DEF owed
    <3>2. 10 * SampleCost * (owed + Fastest * n) \in Nat
      BY <3>1, <1>8, LoopConstants, SMT
    <3> QED BY <3>2 DEF owed
  <2> QED BY <2>1, <2>2
<1>11. held * (Whole - Load) \in Nat
       /\ (held + 1) * (Whole - Load) = held * (Whole - Load) + (Whole - Load)
  <2> DEFINE s == Whole - Load
  <2>1. s \in Nat
    BY LoadConstants
  <2> HIDE DEF s
  <2>2. held * s \in Nat /\ (held + 1) * s = held * s + s
    BY <2>1, <1>t, SMT
  <2> QED BY <2>2 DEF s
<1>12. w + (held + 1) * (Whole - Load) <= Backlog
  <2> HIDE DEF w
  <2> DEFINE h == held * (Whole - Load)
  <2>1. h \in Nat /\ (held + 1) * (Whole - Load) = h + (Whole - Load) /\ Weight + h <= Backlog
    BY <1>11, <1>t
  <2> HIDE DEF h
  <2> QED BY <2>1, <1>6, <1>9, <1>10, LoadConstants
<1>13. 10 * Base * t <= Backlog
  <2> HIDE DEF w
  <2> DEFINE h == held * (Whole - Load)
             e == 10 * Base * t
  <2>1. h \in Nat /\ (held + 1) * (Whole - Load) = h + (Whole - Load)
    BY <1>11
  <2>2. e \in Int
    BY <1>5, LoopConstants, SMT
  <2>3. e <= w
    BY <1>10
  <2> HIDE DEF h, e
  <2>4. e <= Backlog
    BY <2>1, <2>2, <2>3, <1>10, <1>12, LoadConstants
  <2> QED BY <2>4 DEF e
<1>14. behind' \in Nat /\ part' \in 0 .. TickPeriod - 1 /\ Debt' = t
  <2>1. c \in Nat /\ ticks \in Nat
    BY <1>2, <1>t, LoopConstants
  <2>2. 10 * Base * (ticks * TickPeriod + part + c) <= Backlog
    BY <1>13 DEF t
  <2> HIDE DEF c, ticks
  <2>3. Debt' = ticks * TickPeriod + part + c /\ behind' \in Nat /\ part' \in 0 .. TickPeriod - 1
    BY <1>1, <1>t, <2>1, <2>2, TakesTime
  <2> QED BY <2>3 DEF t
<1>15. held' = held + 1 /\ held + 1 < MaxHeld
  <2>1. Weight >= Whole
    <3>1. Debt >= TickPeriod
      <4>1. behind * TickPeriod >= TickPeriod /\ behind * TickPeriod \in Int
        BY <1>t, LoopConstants, SMT
      <4> QED BY <4>1, <1>t, LoopConstants DEF Debt
    <3>2. 10 * Base * Debt >= Whole
      BY <3>1, <1>6, LoopConstants, SMT DEF Whole
    <3>3. 10 * Base * Debt \in Int
      BY <1>6, LoopConstants, SMT
    <3> QED BY <3>2, <3>3, <1>6, LoadConstants
  <2>2. held * (Whole - Load) < (Whole - Load) * (MaxHeld - 1)
    <3> DEFINE h == held * (Whole - Load)
               m == (Whole - Load) * (MaxHeld - 1)
    <3>1. h \in Int /\ Weight + h <= Backlog /\ Backlog - Whole < m
      BY <1>11, <1>t, LoadConstants
    <3>2. m \in Int
      BY LoadConstants, LoopConstants, SMT
    <3> HIDE DEF h, m
    <3>3. h < m
      BY <3>1, <3>2, <2>1, <1>6, LoadConstants
    <3> QED BY <3>3 DEF h, m
  <2>3. CASE held >= MaxHeld - 1
    <3> DEFINE s == Whole - Load
               m == MaxHeld - 1
    <3>1. s \in Nat /\ m \in Int /\ held >= m
      BY <2>3, LoadConstants, LoopConstants
    <3> HIDE DEF s, m
    <3>2. held * s >= s * m
      BY <3>1, <1>t, SMT
    <3>3. held * s < s * m
      BY <2>2 DEF s, m
    <3>4. held * s \in Int /\ s * m \in Int
      BY <3>1, <1>t, SMT
    <3> QED BY <3>2, <3>3, <3>4
  <2> QED BY <2>3, <1>t, LoopConstants
<1>16. LoopTypes'
  <2>1. held' \in 0 .. MaxHeld - 1
    BY <1>15, <1>t, LoopConstants
  <2> QED BY <1>t, <1>3, <1>14, <2>1 DEF LoadInv, LoopTypes
<1>17. Weight' = w
  BY <1>t, <1>14 DEF Weight, n
<1>18. Weight' + held' * (Whole - Load) <= Backlog
  <2> HIDE DEF w
  <2> QED BY <1>12, <1>15, <1>17
<1> QED BY <1>16, <1>18 DEF LoadInv

(* A sensor considered: a sample takes from its accumulator what it costs. *)
LEMMA ConsiderLoad ==
  ASSUME SampleInv, SampleInv', LoadInv, NEW d \in Sensors, S!Consider(d)
  PROVE  LoadInv'
<1>t. /\ behind \in Nat /\ part \in 0 .. TickPeriod - 1 /\ held \in Nat
      /\ pc = "ticks" /\ d \in todo /\ todo' = todo \ {d}
      /\ UNCHANGED <<pc, mode, phys_div, fdm_div, rate, held>>
      /\ Weight + held * (Whole - Load) <= Backlog
      /\ acc[d] \in 0 .. Base - 1 /\ rate[d] \in 0 .. Base /\ rate[d] <= Fastest
  BY LoopConstants DEF LoadInv, LoopTypes, SampleInv, SampleTypes, S!Consider, S!divVars
<1>6. /\ Weight \in Nat /\ acc \in Filled /\ Owed(acc) \in Nat /\ Debt \in Nat /\ Credit \in Nat
      /\ 10 * Base * Debt <= Weight
      /\ IsFiniteSet(todo) /\ Cardinality(todo) \in Nat
  BY Weights DEF LoadInv
<1> DEFINE n == Cardinality(todo)
           r == S!Hz(d)
           x == acc[d]
           due == x + r >= Base
           y == (x + r) % Base
           owed == Owed(acc)
           C == 10 * SampleCost
<1>1. Cardinality(todo') = n - 1
  <2>1. Cardinality(todo \ {d}) = n - 1
    BY <1>t, <1>6, FS_RemoveElement
  <2> QED BY <1>t, <2>1
<1>2. r \in Nat /\ r <= Fastest /\ r <= Base
  BY <1>t, LoopConstants DEF S!Hz
<1>3. y \in 0 .. Base - 1 /\ y = IF due THEN x + r - Base ELSE x + r
  BY <1>t, <1>2, WrapsOnce
<1>4. /\ acc' = [acc EXCEPT ![d] = y] \/ (r = 0 /\ acc' = acc)
      /\ Owed(acc') = owed + y - x
  <2>1. CASE r = 0
    <3>1. acc' = acc
      BY <2>1 DEF S!Consider
    <3>2. y = x
      <4>1. x \in Int /\ x + r < Base /\ x + r = x
        BY <2>1, <1>t, LoopConstants
      <4>2. ~due
        BY <4>1, <1>2, LoopConstants
      <4>3. y = x + r
        BY <1>3, <4>2
      <4> HIDE DEF y
      <4> QED BY <4>1, <4>3
    <3> QED BY <2>1, <3>1, <3>2, <1>6, <1>t, LoopConstants
  <2>2. CASE r # 0
    <3>1. acc' = [acc EXCEPT ![d] = y]
      BY <2>2 DEF S!Consider, S!Accumulate
    <3>2. Owed([acc EXCEPT ![d] = y]) = Owed(acc) + y - acc[d]
      BY <1>6, <1>3, OwedStep
    <3> QED BY <3>1, <3>2
  <2> QED BY <2>1, <2>2
<1>5. C \in Nat
  BY LoopConstants
<1>7. n \in Nat /\ n >= 1 /\ owed \in Nat /\ x \in Nat /\ y \in Nat
  <2>1. n # 0
    BY <1>t, <1>6, FS_EmptySet
  <2> QED BY <2>1, <1>6, <1>t, <1>3, LoopConstants
<1>8. Credit' = Credit
  BY <1>t DEF Credit
<1>9. Weight = 10 * Base * Debt + Base * Credit + C * (owed + Fastest * n)
  BY DEF Weight
<1>10. Weight' = 10 * Base * Debt' + Base * Credit + C * ((owed + y - x) + Fastest * (n - 1))
  BY <1>1, <1>4, <1>8 DEF Weight
<1>11. S!Hz(d) # 0 /\ due => S!Takes(SampleCost, behind)
  BY DEF S!Consider, S!Accumulate
<1>12. ~due => UNCHANGED <<behind, part>>
  BY DEF S!Consider, S!Accumulate, S!timeVars
<1>13. due => r # 0
  BY <1>t, <1>2, LoopConstants
<1> HIDE DEF n, r, x, y, owed, C
<1>14. C * ((owed + y - x) + Fastest * (n - 1))
         = C * (owed + Fastest * n) + C * (y - x) - C * Fastest
  <2>1. Fastest \in Nat
    BY LoopConstants
  <2> QED BY <1>5, <1>7, <2>1, SMT
<1>15. C * r <= C * Fastest /\ C * r \in Int /\ C * Fastest \in Int
  <2>1. Fastest \in Nat
    BY LoopConstants
  <2> QED BY <1>2, <1>5, <2>1, SMT
<1>16. /\ C * (owed + Fastest * n) \in Int /\ Base * Credit \in Int
       /\ 10 * Base * Debt \in Int /\ C * (y - x) \in Int
  BY <1>5, <1>6, <1>7, LoopConstants, SMT
<1>17. held * (Whole - Load) \in Nat
  <2> DEFINE s == Whole - Load
  <2>1. s \in Nat
    BY LoadConstants
  <2> HIDE DEF s
  <2>2. held * s \in Nat
    BY <2>1, <1>t, SMT
  <2> QED BY <2>2 DEF s
<1>18. CASE ~due
  <2>1. Debt' = Debt /\ behind' = behind /\ part' = part
    BY <1>18, <1>12 DEF Debt
  <2>2. C * (y - x) = C * r
    BY <1>3, <1>18, <1>2, <1>7
  <2>3. Weight' <= Weight /\ Weight' \in Int
    <3> DEFINE D == 10 * Base * Debt
               E == Base * Credit
               G == C * (owed + Fastest * n)
               H == C * (y - x)
               I == C * Fastest
               J == C * r
    <3>1. /\ Weight = D + E + G /\ Weight' = D + E + (G + H - I) /\ H = J /\ J <= I
          /\ D \in Int /\ E \in Int /\ G \in Int /\ H \in Int /\ I \in Int /\ J \in Int
      BY <1>9, <1>10, <1>14, <1>15, <1>16, <2>1, <2>2
    <3> HIDE DEF D, E, G, H, I, J
    <3> QED BY <3>1
  <2>4. Weight' + held * (Whole - Load) <= Backlog
    <3> DEFINE h == held * (Whole - Load)
    <3>1. h \in Nat /\ Weight + h <= Backlog
      BY <1>17, <1>t
    <3> HIDE DEF h
    <3> DEFINE a == Weight
               b == Weight'
    <3>a. a \in Int /\ b \in Int /\ b <= a /\ a + h <= Backlog
      BY <2>3, <3>1, <1>6
    <3> HIDE DEF a, b
    <3>b. b + h <= Backlog
      BY <3>1, <3>a, LoadConstants
    <3>2. Weight' + h <= Backlog
      BY <3>b DEF b
    <3> QED BY <3>2 DEF h
  <2>5. LoopTypes'
    BY <1>t, <2>1 DEF LoadInv, LoopTypes
  <2>6. held' = held
    BY <1>t
  <2> QED BY <2>4, <2>5, <2>6 DEF LoadInv
<1>19. CASE due
  <2> DEFINE t == behind * TickPeriod + part + SampleCost
  <2>1. t = Debt + SampleCost /\ t \in Nat
    BY <1>6, LoopConstants DEF Debt
  <2> HIDE DEF t
  <2> DEFINE w == 10 * Base * t + Base * Credit + C * ((owed + y - x) + Fastest * (n - 1))
  <2>2. C * (y - x) = C * r - 10 * Base * SampleCost
    <3>1. y - x = r - Base
      BY <1>3, <1>19, <1>2, <1>7, LoopConstants
    <3>2. C * (r - Base) = C * r - C * Base
      BY <1>2, <1>5, LoopConstants, SMT
    <3>3. C * Base = 10 * Base * SampleCost
      BY LoopConstants, SMT DEF C
    <3> QED BY <3>1, <3>2, <3>3
  <2>3. 10 * Base * t = 10 * Base * Debt + 10 * Base * SampleCost
    BY <2>1, <1>6, LoopConstants, SMT
  <2>4. 10 * Base * SampleCost \in Int
    BY LoopConstants, SMT
  <2>5. w <= Weight /\ w \in Int
    <3> DEFINE D == 10 * Base * Debt
               E == Base * Credit
               G == C * (owed + Fastest * n)
               H == C * (y - x)
               I == C * Fastest
               J == C * r
               K == 10 * Base * SampleCost
               L == 10 * Base * t
    <3>1. /\ Weight = D + E + G /\ w = L + E + (G + H - I) /\ H = J - K /\ J <= I /\ L = D + K
          /\ D \in Int /\ E \in Int /\ G \in Int /\ H \in Int /\ I \in Int /\ J \in Int /\ K \in Int
      BY <1>9, <1>14, <1>15, <1>16, <2>2, <2>3, <2>4
    <3> HIDE DEF D, E, G, H, I, J, K, L, w
    <3> QED BY <3>1
  <2>6. 10 * Base * t <= w
    <3>1. (owed + y - x) + Fastest * (n - 1) \in Nat
      <4>1. owed + y - x \in Nat
        <5>1. Owed(acc') \in Nat
          BY PiecesFinite DEF SampleInv, SampleTypes, Filled
        <5> QED BY <5>1, <1>4
      <4>2. Fastest * (n - 1) \in Nat
        BY <1>7, LoopConstants, SMT
      <4> QED BY <4>1, <4>2
    <3> DEFINE v == (owed + y - x) + Fastest * (n - 1)
               L == 10 * Base * t
    <3>2. v \in Nat
      BY <3>1
    <3> HIDE DEF v
    <3>3. C * v \in Nat
      BY <3>2, <1>5, SMT
    <3>4. Base * Credit \in Nat /\ L \in Int
      BY <1>6, <2>1, LoopConstants, SMT
    <3>5. w = L + Base * Credit + C * v
      BY DEF v
    <3> HIDE DEF w, L
    <3>6. L <= w
      BY <3>3, <3>4, <3>5
    <3> QED BY <3>6 DEF L
  <2> HIDE DEF w
  <2>7. w + held * (Whole - Load) <= Backlog /\ 10 * Base * t <= Backlog
    <3> DEFINE h == held * (Whole - Load)
               L == 10 * Base * t
    <3>1. h \in Nat /\ Weight + h <= Backlog
      BY <1>17, <1>t
    <3>2. L \in Int /\ L <= w
      BY <2>1, <2>6, LoopConstants, SMT
    <3> HIDE DEF h, L
    <3>3. w + h <= Backlog /\ L <= Backlog
      BY <2>5, <3>1, <3>2, <1>6, LoadConstants
    <3> QED BY <3>3 DEF h, L
  <2>8. behind' \in Nat /\ part' \in 0 .. TickPeriod - 1 /\ Debt' = t
    <3>1. S!Takes(SampleCost, behind)
      BY <1>11, <1>13, <1>19 DEF r
    <3>2. SampleCost \in Nat
      BY LoopConstants
    <3> QED BY <1>t, <3>1, <3>2, <2>7, TakesTime DEF t
  <2>9. Weight' = w
    BY <1>10, <2>8 DEF w
  <2>10. LoopTypes'
    BY <1>t, <2>8 DEF LoadInv, LoopTypes
  <2>11. held' = held
    BY <1>t
  <2> QED BY <2>7, <2>9, <2>10, <2>11 DEF LoadInv
<1> QED BY <1>18, <1>19

(* What has come together when the rest of a round ends.                   *)
LEMMA RestLoad ==
  ASSUME SampleInv, LoadInv, S!Rest
  PROVE  LoadInv'
<1>1. /\ behind = 0 /\ todo = {} /\ held = 0 /\ part \in 0 .. TickPeriod - 1
      /\ phys_div \in 0 .. 4 /\ fdm_div \in 0 .. 9 /\ S!Takes(RestCost, 0)
      /\ pc' = "ticks" /\ mode' \in 0 .. 1
      /\ UNCHANGED <<todo, phys_div, fdm_div, acc, rate, held>>
  BY DEF S!Rest, LoadInv, LoopTypes
<1> DEFINE t == part + RestCost
           n == Cardinality(Sensors)
           k == Credit'
           owed == Owed(acc)
<1>2. t \in Nat /\ t <= TickPeriod - 1 + RestCost
  BY <1>1, LoopConstants
<1>3. k \in Nat /\ k <= 9 * Heaviest
  <2>1. CASE mode' = 1
    <3>1. k = fdm_div * FdmCost
      BY <2>1, <1>1 DEF Credit
    <3>2. fdm_div * FdmCost <= 9 * Heaviest /\ fdm_div * FdmCost \in Nat
      BY <1>1, LoopConstants, LoadConstants, SMT
    <3> QED BY <3>1, <3>2
  <2>2. CASE mode' # 1
    <3>1. k = 2 * phys_div * PhysCost
      BY <2>2, <1>1 DEF Credit
    <3>2. phys_div * PhysCost <= 4 * PhysCost /\ phys_div * PhysCost \in Nat
      BY <1>1, LoopConstants, SMT
    <3>3. 2 * phys_div * PhysCost = 2 * (phys_div * PhysCost)
      BY <1>1, LoopConstants, SMT
    <3> DEFINE z == phys_div * PhysCost
    <3>4. z \in Nat /\ z <= 4 * PhysCost /\ k = 2 * z
      BY <3>1, <3>2, <3>3
    <3> HIDE DEF z, k
    <3> QED BY <3>4, LoopConstants, LoadConstants
  <2> QED BY <2>1, <2>2
<1>4. owed \in Nat /\ owed <= n * (Base - 1) /\ n \in Nat
  <2>1. acc \in Filled
    BY DEF SampleInv, SampleTypes, Filled
  <2> QED BY <2>1, PiecesFinite, OwedBound, Counts
<1>5. Cardinality(todo') = 0
  BY <1>1, FS_EmptySet
<1> DEFINE w == 10 * Base * t + Base * k + 10 * SampleCost * (owed + Fastest * 0)
<1> HIDE DEF t, k, owed, n
<1>6. w \in Nat /\ w <= Backlog /\ 10 * Base * t <= w
  <2>1. 10 * Base * t \in Nat /\ 10 * Base * t <= 10 * Base * (TickPeriod - 1 + RestCost)
    <3> DEFINE y == TickPeriod - 1 + RestCost
    <3>1. y \in Nat /\ t <= y
      BY <1>2, LoopConstants
    <3> HIDE DEF y
    <3>2. Base * t \in Nat /\ Base * y \in Nat /\ Base * t <= Base * y
      BY <1>2, <3>1, LoopConstants, SMT
    <3>3. 10 * Base * t \in Nat /\ 10 * Base * t <= 10 * Base * y
      BY <1>2, <3>1, <3>2, LoopConstants, SMT
    <3> QED BY <3>3 DEF y
  <2>2. Base * k \in Nat /\ Base * k <= 9 * Base * Heaviest
    <3> DEFINE y == 9 * Heaviest
    <3>1. y \in Nat /\ k <= y
      BY <1>3, LoadConstants
    <3> HIDE DEF y
    <3>2. Base * k \in Nat /\ Base * k <= Base * y
      BY <1>3, <3>1, LoopConstants, SMT
    <3>3. Base * (9 * Heaviest) = 9 * Base * Heaviest
      BY LoopConstants, LoadConstants, SMT
    <3> QED BY <3>2, <3>3 DEF y
  <2>3. /\ 10 * SampleCost * (owed + Fastest * 0) \in Nat
        /\ 10 * SampleCost * (owed + Fastest * 0) <= 10 * SampleCost * (Base - 1) * n
    <3> DEFINE y == n * (Base - 1)
    <3>1. y \in Nat /\ owed <= y
      BY <1>4, LoopConstants, SMT
    <3>2. 10 * SampleCost * (Base - 1) * n = 10 * SampleCost * y
      BY <1>4, LoopConstants, SMT
    <3> HIDE DEF y
    <3>3. SampleCost * owed <= SampleCost * y /\ SampleCost * owed \in Nat /\ SampleCost * y \in Nat
      BY <3>1, <1>4, LoopConstants, SMT
    <3>4. /\ 10 * SampleCost * (owed + Fastest * 0) = 10 * (SampleCost * owed)
          /\ 10 * SampleCost * y = 10 * (SampleCost * y)
      BY <3>1, <1>4, LoopConstants, SMT
    <3> DEFINE D == SampleCost * owed
               E == SampleCost * y
    <3> HIDE DEF D, E
    <3>5. 10 * D \in Nat /\ 10 * D <= 10 * E
      BY <3>3 DEF D, E
    <3> QED BY <3>2, <3>4, <3>5 DEF D, E
  <2> DEFINE D == 10 * Base * t
             E == Base * k
             G == 10 * SampleCost * (owed + Fastest * 0)
             H == 10 * Base * (TickPeriod - 1 + RestCost)
             I == 9 * Base * Heaviest
             J == 10 * SampleCost * (Base - 1) * n
  <2>4. H \in Int /\ I \in Int /\ J \in Int
    BY <1>4, LoopConstants, LoadConstants, SMT
  <2>5. Backlog = H + I + J
    BY DEF Backlog, n
  <2>6. /\ D \in Nat /\ E \in Nat /\ G \in Nat /\ D <= H /\ E <= I /\ G <= J
    BY <2>1, <2>2, <2>3
  <2>7. w = D + E + G
    OBVIOUS
  <2> HIDE DEF D, E, G, H, I, J, w
  <2>8. w \in Nat /\ w <= Backlog /\ D <= w
    BY <2>4, <2>5, <2>6, <2>7
  <2> QED BY <2>8 DEF D
<1>7. 10 * Base * (0 * TickPeriod + part + RestCost) <= Backlog
  <2>1. 0 * TickPeriod + part + RestCost = t
    BY <1>1, LoopConstants DEF t
  <2>2. 10 * Base * t \in Int
    BY <1>2, LoopConstants, SMT
  <2> DEFINE D == 10 * Base * t
  <2>3. D \in Int /\ D <= w
    BY <1>6, <2>2
  <2> HIDE DEF D, w
  <2>4. D <= Backlog
    BY <1>6, <2>3, LoadConstants
  <2> QED BY <2>1, <2>4 DEF D
<1>8. behind' \in Nat /\ part' \in 0 .. TickPeriod - 1 /\ Debt' = t
  <2>1. 0 \in Nat /\ RestCost \in Nat
    BY LoopConstants
  <2>2. /\ behind' \in Nat /\ part' \in 0 .. TickPeriod - 1
        /\ Debt' = 0 * TickPeriod + part + RestCost
    BY <1>1, <1>7, <2>1, TakesTime
  <2> QED BY <2>2, <1>1, LoopConstants DEF t
<1>9. Weight' = w
  BY <1>1, <1>5, <1>8 DEF Weight, k, owed
<1>10. LoopTypes'
  BY <1>1, <1>8 DEF LoadInv, LoopTypes
<1>11. held' * (Whole - Load) = 0
  BY <1>1, LoadConstants
<1>12. Weight' + held' * (Whole - Load) <= Backlog
  BY <1>6, <1>9, <1>11, LoadConstants
<1> QED BY <1>10, <1>12 DEF LoadInv

(* The sampler never falls MaxLag ticks behind, and no catch-up consumes   *)
(* MaxHeld ticks, for every set of rates and every cost of the work that   *)
(* the processor can bear on average: however the single shots, the rates  *)
(* and the changes of mode fall, each catch-up ends.                       *)
THEOREM LoopCatchesUp == S!Spec => []CatchesUp
<1>1. SampleInv /\ LoadInv /\ [S!Next]_(S!vars) => LoadInv'
  <2> SUFFICES ASSUME SampleInv, LoadInv, [S!Next]_(S!vars) PROVE LoadInv'
    OBVIOUS
  <2>1. SampleInv'
    BY NextSample
  <2>2. CASE S!Leave
    BY <2>2, LoopConstants DEF S!Leave, S!timeVars, S!divVars, LoadInv, LoopTypes
  <2>3. CASE UNCHANGED S!vars
    <3>1. UNCHANGED <<behind, part, todo, pc, mode, phys_div, fdm_div, acc, rate, held>>
      BY <2>3 DEF S!vars, S!timeVars, S!divVars
    <3> QED BY <3>1 DEF LoadInv, LoopTypes, Weight, Debt, Credit
  <2> QED BY <2>1, <2>2, <2>3, BusLoad, TickLoad, ConsiderLoad, RestLoad DEF S!Next, S!Main
<1>2. SampleInv /\ LoadInv => CatchesUp
  <2> SUFFICES ASSUME SampleInv, LoadInv PROVE behind < MaxLag /\ held < MaxHeld
    BY DEF CatchesUp, S!CatchesUp
  <2>1. behind < MaxLag
    <3>1. CASE pc = "rest"
      BY <3>1, LoopConstants DEF LoadInv, LoopTypes
    <3>2. CASE pc = "ticks"
      <4>1. /\ Debt \in Nat /\ 10 * Base * Debt <= Weight /\ Weight \in Nat
            /\ behind \in Nat /\ part \in 0 .. TickPeriod - 1 /\ held \in Nat
        BY Weights, LoopConstants DEF LoadInv, LoopTypes
      <4>2. 10 * Base * Debt \in Int /\ held * (Whole - Load) \in Nat
        <5> DEFINE s == Whole - Load
        <5>1. s \in Nat
          BY LoadConstants
        <5> HIDE DEF s
        <5>2. held * s \in Nat /\ 10 * Base * Debt \in Int
          BY <4>1, <5>1, LoopConstants, SMT
        <5> QED BY <5>2 DEF s
      <4>3. 10 * Base * Debt <= Backlog
        <5> DEFINE D == 10 * Base * Debt
                   h == held * (Whole - Load)
        <5>1. D \in Int /\ h \in Nat /\ D <= Weight /\ Weight + h <= Backlog
          BY <3>2, <4>1, <4>2 DEF LoadInv
        <5> HIDE DEF D, h
        <5>2. D <= Backlog
          BY <5>1, <4>1, LoadConstants
        <5> QED BY <5>2 DEF D
      <4>4. Debt < TickPeriod * MaxLag
        BY <4>1, <4>3, TimeFits
      <4>5. CASE behind >= MaxLag
        <5>1. behind * TickPeriod >= TickPeriod * MaxLag
          BY <4>1, <4>5, LoopConstants, SMT
        <5>2. behind * TickPeriod \in Int /\ TickPeriod * MaxLag \in Int
          BY <4>1, LoopConstants, SMT
        <5> QED BY <4>1, <4>4, <5>1, <5>2, LoopConstants DEF Debt
      <4> QED BY <4>1, <4>5, LoopConstants
    <3> QED BY <3>1, <3>2 DEF LoadInv, LoopTypes
  <2>2. held < MaxHeld
    BY LoopConstants DEF LoadInv, LoopTypes
  <2> QED BY <2>1, <2>2
<1> QED BY <1>1, <1>2, InitSample, InitLoad, NextSample, PTL DEF S!Spec

------------------------------------------------------------------------------
(* The messages on the wire.                                               *)

LEMMA Layouts ==
  ASSUME NEW m \in DOMAIN W!Layout
  PROVE  W!Layout[m] \in Seq(1 .. 64) /\ Len(W!Layout[m]) \in Nat \ {0}
<1>1. W!Layout["fix2"] \in Seq(1 .. 64) /\ Len(W!Layout["fix2"]) \in Nat \ {0}
  BY DEF W!Layout
<1>2. W!Layout["rawair"] \in Seq(1 .. 64) /\ Len(W!Layout["rawair"]) \in Nat \ {0}
  BY DEF W!Layout
<1>3. W!Layout["nodestatus"] \in Seq(1 .. 64) /\ Len(W!Layout["nodestatus"]) \in Nat \ {0}
  BY DEF W!Layout
<1>4. m \in {"fix2", "rawair", "nodestatus"}
  BY DEF W!Layout
<1> QED BY <1>1, <1>2, <1>3, <1>4

(* The sums of the first k of a sequence, for k up to n.                   *)
Sums(f, w, n) == f = [k \in 0 .. n |-> IF k = 0 THEN 0 ELSE f[k - 1] + w[k]]

LEMMA SumsExist ==
  ASSUME NEW w, NEW n \in Nat
  PROVE  \E f : Sums(f, w, n)
<1> DEFINE Not == {k \in Nat : ~\E f : Sums(f, w, k)}
<1> SUFFICES ASSUME Not # {} PROVE FALSE
  OBVIOUS
<1>1. PICK m \in Not : \A e \in Not : m <= e
  <2>1. Not \in SUBSET Nat
    OBVIOUS
  <2> HIDE DEF Not
  <2> QED BY <2>1, LeastElement
<1>2. m \in Nat /\ ~\E f : Sums(f, w, m)
  BY <1>1
<1>3. m # 0
  <2>1. ASSUME m = 0 PROVE FALSE
    <3> DEFINE f == [k \in 0 .. 0 |-> 0]
    <3>1. f = [k \in 0 .. 0 |-> IF k = 0 THEN 0 ELSE f[k - 1] + w[k]]
      OBVIOUS
    <3> HIDE DEF f
    <3>2. Sums(f, w, 0)
      BY <3>1 DEF Sums
    <3> QED BY <1>2, <2>1, <3>2
  <2> QED BY <2>1
<1> DEFINE l == m - 1
<1>4. l \in Nat /\ l < m
  BY <1>2, <1>3
<1>5. l \notin Not
  <2> HIDE DEF Not
  <2> QED BY <1>1, <1>2, <1>4
<1>6. PICK q : Sums(q, w, l)
  BY <1>4, <1>5
<1> DEFINE Last == q[l] + w[m]
           f == [k \in 0 .. m |-> IF k = m THEN Last ELSE q[k]]
<1>7. \A k \in 0 .. l : q[k] = IF k = 0 THEN 0 ELSE q[k - 1] + w[k]
  <2>1. q = [k \in 0 .. l |-> IF k = 0 THEN 0 ELSE q[k - 1] + w[k]]
    BY <1>6 DEF Sums
  <2> QED BY <2>1
<1>8. \A k \in 0 .. m : f[k] = IF k = 0 THEN 0 ELSE f[k - 1] + w[k]
  <2> SUFFICES ASSUME NEW k \in 0 .. m
               PROVE  f[k] = IF k = 0 THEN 0 ELSE f[k - 1] + w[k]
    OBVIOUS
  <2> HIDE DEF Last
  <2>1. CASE k = m
    <3>1. f[m] = Last /\ l \in 0 .. m /\ l # m
      BY <1>2, <1>4
    <3>2. f[l] = q[l]
      BY <3>1
    <3> HIDE DEF f
    <3> QED BY <1>3, <2>1, <3>1, <3>2 DEF Last
  <2>2. CASE k # m /\ k # 0
    <3>1. k \in 0 .. l /\ k - 1 \in 0 .. m /\ k - 1 # m
      BY <1>2, <2>2
    <3>2. f[k] = q[k] /\ f[k - 1] = q[k - 1]
      BY <2>2, <3>1
    <3> HIDE DEF f
    <3> QED BY <1>7, <2>2, <3>1, <3>2
  <2>3. CASE k = 0
    <3>1. 0 \in 0 .. l /\ 0 # m
      BY <1>3, <1>4
    <3>2. f[0] = q[0]
      BY <2>3, <3>1
    <3> HIDE DEF f
    <3> QED BY <1>7, <2>3, <3>1, <3>2
  <2> QED BY <2>1, <2>2, <2>3
<1>9. f = [k \in 0 .. m |-> f[k]]
  OBVIOUS
<1> HIDE DEF f
<1>10. Sums(f, w, m)
  BY <1>8, <1>9 DEF Sums
<1> QED BY <1>2, <1>10

(* Where the i-th field of message m begins.                               *)
Place(m, i) ==
  (CHOOSE f : f = [k \in 0 .. Len(W!Layout[m]) |->
                    IF k = 0 THEN 0 ELSE f[k - 1] + W!Layout[m][k]])[i - 1]

LEMMA FieldPlaces ==
  ASSUME NEW m \in DOMAIN W!Layout
  PROVE  /\ Place(m, 1) = 0
         /\ \A i \in 1 .. Len(W!Layout[m]) : Place(m, i + 1) = Place(m, i) + W!Layout[m][i]
<1> DEFINE n == Len(W!Layout[m])
           f == CHOOSE f : Sums(f, W!Layout[m], n)
<1>1. n \in Nat
  BY Layouts
<1>2. \A i : Place(m, i) = f[i - 1]
  BY DEF Place, Sums
<1>3. Sums(f, W!Layout[m], n)
  <2> HIDE DEF n
  <2> QED BY <1>1, SumsExist
<1> HIDE DEF f
<1>4. \A k \in 0 .. n : f[k] = IF k = 0 THEN 0 ELSE f[k - 1] + W!Layout[m][k]
  <2>1. f = [k \in 0 .. n |-> IF k = 0 THEN 0 ELSE f[k - 1] + W!Layout[m][k]]
    BY <1>3 DEF Sums
  <2> QED BY <2>1
<1>5. f[0] = 0
  BY <1>1, <1>4
<1>6. ASSUME NEW i \in 1 .. n
      PROVE  f[i] = f[i - 1] + W!Layout[m][i]
  BY <1>1, <1>4
<1>7. Place(m, 1) = 0
  BY <1>2, <1>5
<1>8. ASSUME NEW i \in 1 .. n
      PROVE  Place(m, i + 1) = Place(m, i) + W!Layout[m][i]
  <2>1. i \in Nat /\ (i + 1) - 1 = i
    BY <1>1
  <2>2. Place(m, i + 1) = f[i]
    BY <1>2, <2>1
  <2> QED BY <1>2, <1>6, <2>2
<1> QED BY <1>7, <1>8

LEMMA OffsetPlace ==
  /\ \A i : W!Offset(i) = Place(msg, i)
BY DEF W!Offset, Place

(* A place in a byte.                                                      *)
LEMMA ByteStep ==
  ASSUME NEW a \in Nat, NEW t \in Nat, (a % 8) + t < 8
  PROVE  (a + t) % 8 = (a % 8) + t /\ (a + t) \div 8 = a \div 8
OBVIOUS

LEMMA ByteParts ==
  ASSUME NEW a \in Nat
  PROVE  a \div 8 \in Nat /\ a % 8 \in 0 .. 7 /\ a = 8 * (a \div 8) + (a % 8)
OBVIOUS

(* The bits of a value in the image that copy_bits takes them from.        *)
LEMMA ImageBit ==
  ASSUME W!Width \in 1 .. 64, NEW s \in 0 .. W!Width - 1
  PROVE  W!Image[<<s \div 8, s % 8>>] = <<field, W!BitAt(W!Width, s)>>
<1> DEFINE w == W!Width
           j == s \div 8
           p == s % 8
           up == IF j = w \div 8 /\ w % 8 # 0 THEN 8 - (w % 8) ELSE 0
<1>1. j \in 0 .. 7 /\ p \in 0 .. 7 /\ s = 8 * j + p
  OBVIOUS
<1>2. w \in 1 .. 64 /\ w \div 8 \in 0 .. 8 /\ w % 8 \in 0 .. 7 /\ w = 8 * (w \div 8) + (w % 8)
  OBVIOUS
<1>3. W!Image[<<j, p>>] = IF p + up <= 7 THEN W!Little(j, p + up) ELSE W!Zero
  <2>1. <<j, p>> \in (0 .. 7) \X (0 .. 7) /\ <<j, p>>[1] = j /\ <<j, p>>[2] = p
    BY <1>1
  <2> HIDE DEF j, p
  <2> QED BY <2>1 DEF W!Image
<1> DEFINE n == CHOOSE n \in {1, 2, 4, 8} : w <= 8 * n /\ (n > 1 => w > 4 * n)
<1>4. n \in {1, 2, 4, 8} /\ w <= 8 * n
  <2>1. \E k \in {1, 2, 4, 8} : w <= 8 * k /\ (k > 1 => w > 4 * k)
    <3> HIDE DEF w
    <3>1. CASE w <= 8
      BY <1>2, <3>1
    <3>2. CASE w > 8 /\ w <= 16
      BY <1>2, <3>2
    <3>3. CASE w > 16 /\ w <= 32
      BY <1>2, <3>3
    <3>4. CASE w > 32
      BY <1>2, <3>4
    <3> QED BY <1>2, <3>1, <3>2, <3>3, <3>4
  <2> HIDE DEF w
  <2> QED BY <2>1
<1>5. \A q : W!Little(j, q) = IF j < n THEN <<field, 8 * j + 7 - q>> ELSE W!Zero
  BY DEF W!Little
<1> HIDE DEF n
<1>6. s \in 0 .. w - 1
  OBVIOUS
<1>7. W!BitAt(w, s) = IF 8 * j + 8 <= w THEN 8 * j + 7 - p ELSE 8 * j + (w % 8) - 1 - p
  BY DEF W!BitAt
<1> HIDE DEF w, j, p
<1>8. j < n
  BY <1>1, <1>2, <1>4, <1>6
<1>9. p + up <= 7 /\ 8 * j + 7 - (p + up) = W!BitAt(w, s)
  <2>1. CASE j = w \div 8
    BY <1>1, <1>2, <1>6, <1>7, <2>1
  <2>2. CASE j # w \div 8
    BY <1>1, <1>2, <1>6, <1>7, <2>2
  <2> QED BY <2>1, <2>2
<1>10. W!Image[<<j, p>>] = <<field, W!BitAt(w, s)>>
  BY <1>3, <1>5, <1>8, <1>9
<1> QED BY <1>10 DEF w, j, p

(* The bits of a message's first n - 1 fields, and the first d of its      *)
(* n-th, are in the buffer b, each in its place.                           *)
Has(b, k) == IF k \in DOMAIN b THEN b[k] ELSE W!Zero
Correct(m, i, k) ==
  IF m = "fix2" /\ i = 4 THEN W!Zero ELSE <<i, W!BitAt(W!Layout[m][i], k)>>
Written(b, m, n, d) ==
  /\ Place(m, n) \in Nat /\ DOMAIN b \subseteq 0 .. Place(m, n) + d - 1
  /\ \A i \in 1 .. n - 1 :
       /\ Place(m, i) \in Nat /\ Place(m, i) + W!Layout[m][i] <= Place(m, n)
       /\ \A k \in 0 .. W!Layout[m][i] - 1 : Has(b, Place(m, i) + k) = Correct(m, i, k)
  /\ \A k \in 0 .. d - 1 : Has(b, Place(m, n) + k) = Correct(m, n, k)

LEMMA OfSeq ==
  ASSUME NEW Elem, NEW l \in Seq(Elem), NEW i \in 1 .. Len(l)
  PROVE  l[i] \in Elem
OBVIOUS

LEMMA WidthType ==
  ASSUME NEW m \in DOMAIN W!Layout, NEW n \in 1 .. Len(W!Layout[m])
  PROVE  W!Layout[m][n] \in 1 .. 64
BY Layouts, OfSeq

LEMMA FieldDone ==
  ASSUME NEW b, NEW m \in DOMAIN W!Layout, NEW n \in 1 .. Len(W!Layout[m]),
         Written(b, m, n, W!Layout[m][n])
  PROVE  Written(b, m, n + 1, 0)
<1> DEFINE w == W!Layout[m][n]
<1>1. n \in Nat \ {0} /\ w \in 1 .. 64
  BY Layouts, WidthType
<1>2. Place(m, n) \in Nat /\ Place(m, n + 1) = Place(m, n) + w
  BY FieldPlaces DEF Written
<1>3. Place(m, n + 1) \in Nat /\ DOMAIN b \subseteq 0 .. Place(m, n + 1) + 0 - 1
  <2>1. DOMAIN b \subseteq 0 .. Place(m, n) + w - 1
    BY DEF Written
  <2> DEFINE p == Place(m, n)
             q == Place(m, n + 1)
  <2>2. p \in Nat /\ q = p + w
    BY <1>2
  <2> HIDE DEF p, q, w
  <2>3. w \in Nat
    BY <1>1
  <2>4. p + w \in Nat
    BY <2>2, <2>3
  <2>5. q \in Nat
    BY <2>2, <2>4
  <2>6. \A k \in 0 .. p + w - 1 : k \in 0 .. q + 0 - 1
    BY <2>2, <2>3, <2>5
  <2>7. DOMAIN b \subseteq 0 .. q + 0 - 1
    BY <2>1, <2>6 DEF p
  <2> QED BY <2>5, <2>7 DEF q
<1>4. ASSUME NEW i \in 1 .. n
      PROVE  /\ Place(m, i) \in Nat /\ Place(m, i) + W!Layout[m][i] <= Place(m, n + 1)
             /\ \A k \in 0 .. W!Layout[m][i] - 1 : Has(b, Place(m, i) + k) = Correct(m, i, k)
  <2> DEFINE p == Place(m, n)
             q == Place(m, n + 1)
             r == Place(m, i)
             v == W!Layout[m][i]
  <2>1. p \in Nat /\ q = p + w
    BY <1>2
  <2>2. CASE i = n
    <3>1. \A k \in 0 .. w - 1 : Has(b, p + k) = Correct(m, n, k)
      BY DEF Written
    <3>2. p + w <= q
      <4> HIDE DEF p, q, w
      <4>1. w \in Nat
        BY <1>1
      <4>2. p + w \in Nat
        BY <2>1, <4>1
      <4> QED BY <2>1, <4>2
    <3> QED BY <2>1, <2>2, <3>1, <3>2
  <2>3. CASE i # n
    <3>1. i \in 1 .. n - 1 /\ i \in 1 .. Len(W!Layout[m])
      BY <1>1, <2>3, Layouts
    <3>2. v \in 1 .. 64
      BY <3>1, WidthType
    <3>3. r \in Nat /\ r + v <= p /\ \A k \in 0 .. v - 1 : Has(b, r + k) = Correct(m, i, k)
      BY <3>1 DEF Written
    <3>4. r + v <= q
      <4> HIDE DEF p, q, r, v, w
      <4>1. w \in Nat /\ v \in Nat
        BY <1>1, <3>2
      <4>2. r + v <= p + w
        BY <2>1, <3>3, <4>1
      <4> QED BY <2>1, <4>2
    <3> QED BY <3>3, <3>4
  <2> QED BY <2>2, <2>3
<1>5. (n + 1) - 1 = n /\ \A k \in 0 .. 0 - 1 : FALSE
  BY <1>1
<1> QED BY <1>3, <1>4, <1>5 DEF Written

(* Bits of a void are those nobody wrote.                                  *)
LEMMA FieldSkipped ==
  ASSUME NEW b, NEW m \in DOMAIN W!Layout, NEW n \in 1 .. Len(W!Layout[m]),
         Written(b, m, n, 0), m = "fix2" /\ n = 4
  PROVE  Written(b, m, n + 1, 0)
<1> DEFINE w == W!Layout[m][n]
<1>1. w \in 1 .. 64
  BY WidthType
<1>2. Place(m, n) \in Nat /\ DOMAIN b \subseteq 0 .. Place(m, n) - 1
  BY DEF Written
<1>3. DOMAIN b \subseteq 0 .. Place(m, n) + w - 1
  <2> DEFINE p == Place(m, n)
  <2>1. p \in Nat /\ DOMAIN b \subseteq 0 .. p - 1
    BY <1>2
  <2> HIDE DEF p, w
  <2>2. DOMAIN b \subseteq 0 .. p + w - 1
    BY <1>1, <2>1
  <2> QED BY <2>2 DEF p
<1>4. ASSUME NEW k \in 0 .. w - 1
      PROVE  Has(b, Place(m, n) + k) = Correct(m, n, k)
  <2>1. Place(m, n) + k \notin DOMAIN b
    BY <1>1, <1>2
  <2> QED BY <2>1 DEF Has, Correct
<1>5. Written(b, m, n, w)
  BY <1>3, <1>4 DEF Written
<1> QED BY <1>5, FieldDone

(* A piece of t bits is copied behind the first d of a field.              *)
LEMMA BitsAdded ==
  ASSUME NEW b, NEW c, NEW m \in DOMAIN W!Layout, NEW n \in 1 .. Len(W!Layout[m]),
         NEW d \in Nat, NEW t \in Nat, Written(b, m, n, d),
         DOMAIN c = DOMAIN b \cup Place(m, n) + d .. Place(m, n) + d + t - 1,
         \A k \in DOMAIN c :
           k \notin Place(m, n) + d .. Place(m, n) + d + t - 1 => c[k] = b[k],
         \A s \in d .. d + t - 1 : c[Place(m, n) + s] = Correct(m, n, s)
  PROVE  Written(c, m, n, d + t)
<1> DEFINE o0 == Place(m, n)
<1>1. o0 \in Nat /\ DOMAIN b \subseteq 0 .. o0 + d - 1 /\ n \in Nat \ {0}
  BY Layouts DEF Written
<1>2. DOMAIN c \subseteq 0 .. o0 + (d + t) - 1
  <2> HIDE DEF o0
  <2>1. DOMAIN c = DOMAIN b \cup o0 + d .. o0 + d + t - 1
    BY DEF o0
  <2>2. ASSUME NEW k \in 0 .. o0 + d - 1 PROVE k \in 0 .. o0 + (d + t) - 1
    BY <1>1
  <2>3. ASSUME NEW k \in o0 + d .. o0 + d + t - 1 PROVE k \in 0 .. o0 + (d + t) - 1
    BY <1>1
  <2> QED BY <1>1, <2>1, <2>2, <2>3, Zenon
<1>3. ASSUME NEW k \in Nat, k < o0 + d
      PROVE  Has(c, k) = Has(b, k)
  <2>1. k \notin o0 + d .. o0 + d + t - 1
    BY <1>1, <1>3
  <2> QED BY <2>1 DEF Has
<1>4. ASSUME NEW i \in 1 .. n - 1
      PROVE  /\ Place(m, i) \in Nat /\ Place(m, i) + W!Layout[m][i] <= o0
             /\ \A k \in 0 .. W!Layout[m][i] - 1 : Has(c, Place(m, i) + k) = Correct(m, i, k)
  <2>1. Place(m, i) \in Nat /\ Place(m, i) + W!Layout[m][i] <= o0
    BY DEF Written
  <2>2. W!Layout[m][i] \in 1 .. 64
    <3>1. i \in 1 .. Len(W!Layout[m])
      BY Layouts
    <3> QED BY <3>1, WidthType
  <2>3. ASSUME NEW k \in 0 .. W!Layout[m][i] - 1
        PROVE  Has(c, Place(m, i) + k) = Correct(m, i, k)
    <3>1. Place(m, i) + k \in Nat /\ Place(m, i) + k < o0 + d
      <4> DEFINE p == Place(m, i)
                 v == W!Layout[m][i]
      <4>1. p \in Nat /\ p + v <= o0 /\ v \in 1 .. 64 /\ k \in 0 .. v - 1
        BY <2>1, <2>2
      <4> HIDE DEF p, v, o0
      <4>2. p + k \in Nat /\ p + k < o0 + d
        BY <1>1, <4>1
      <4> QED BY <4>2 DEF p
    <3>2. Has(c, Place(m, i) + k) = Has(b, Place(m, i) + k)
      BY <1>3, <3>1
    <3> QED BY <3>2 DEF Written
  <2> QED BY <2>1, <2>3
<1>5. ASSUME NEW k \in 0 .. (d + t) - 1
      PROVE  Has(c, o0 + k) = Correct(m, n, k)
  <2>1. CASE k < d
    <3>1. o0 + k \in Nat /\ o0 + k < o0 + d /\ k \in 0 .. d - 1
      BY <1>1, <2>1
    <3>2. Has(c, o0 + k) = Has(b, o0 + k)
      BY <1>3, <3>1
    <3> QED BY <3>1, <3>2 DEF Written
  <2>2. CASE k >= d
    <3>1. k \in d .. d + t - 1 /\ o0 + k \in o0 + d .. o0 + d + t - 1
      BY <1>1, <2>2
    <3>2. o0 + k \in DOMAIN c
      BY <3>1
    <3> QED BY <3>1, <3>2 DEF Has
  <2> QED BY <2>1, <2>2
<1> QED BY <1>1, <1>2, <1>4, <1>5 DEF Written

(* A piece of copy_bits lies in one byte of both, and within the field.    *)
LEMMA PieceFits ==
  ASSUME o \in Nat, W!Width \in 1 .. 64, src_ofs \in 0 .. W!Width - 1
  PROVE  /\ W!Piece \in 1 .. 8 /\ src_ofs + W!Piece <= W!Width
         /\ (src_ofs % 8) + W!Piece <= 8 /\ ((o + src_ofs) % 8) + W!Piece <= 8
<1> DEFINE w == W!Width
           x == src_ofs % 8
           y == (o + src_ofs) % 8
<1>1. w \in 1 .. 64 /\ src_ofs \in 0 .. w - 1 /\ x \in 0 .. 7 /\ y \in 0 .. 7
  <2>1. src_ofs \in Nat /\ o + src_ofs \in Nat
    OBVIOUS
  <2> QED BY <2>1, ByteParts
<1>2. W!Piece = W!Min2(w - src_ofs, 8 - W!Max2(x, y))
  BY DEF W!Piece
<1> HIDE DEF w, x, y
<1>3. W!Max2(x, y) \in {x, y} /\ W!Max2(x, y) >= x /\ W!Max2(x, y) >= y
  BY <1>1 DEF W!Max2
<1>4. ASSUME NEW a \in Int, NEW b \in Int
      PROVE  W!Min2(a, b) \in {a, b} /\ W!Min2(a, b) <= a /\ W!Min2(a, b) <= b
  BY DEF W!Min2
<1> DEFINE z == W!Max2(x, y)
           p == W!Piece
<1>5. z \in 0 .. 7 /\ z >= x /\ z >= y
  BY <1>1, <1>3
<1> HIDE DEF z
<1>6. p = W!Min2(w - src_ofs, 8 - z)
  BY <1>2 DEF z
<1>7. w - src_ofs \in Int /\ 8 - z \in Int
  BY <1>1, <1>5
<1>8. p \in {w - src_ofs, 8 - z} /\ p <= w - src_ofs /\ p <= 8 - z
  BY <1>4, <1>6, <1>7
<1> HIDE DEF p
<1>9. p \in 1 .. 8 /\ src_ofs + p <= w /\ x + p <= 8 /\ y + p <= 8
  BY <1>1, <1>5, <1>8
<1> QED BY <1>9 DEF p, w, x, y

LEMMA Copied ==
  ASSUME W!CopyBits, o \in Nat, W!Width \in 1 .. 64, src_ofs \in 0 .. W!Width - 1,
         storage = W!Image
  PROVE  /\ DOMAIN buf' = DOMAIN buf \cup o + src_ofs .. o + src_ofs + W!Piece - 1
         /\ \A k \in DOMAIN buf' :
              k \notin o + src_ofs .. o + src_ofs + W!Piece - 1 => buf'[k] = buf[k]
         /\ \A s \in src_ofs .. src_ofs + W!Piece - 1 :
              buf'[o + s] = <<field, W!BitAt(W!Width, s)>>
<1> DEFINE t == W!Piece
           a == o + src_ofs
           x == src_ofs % 8
           y == a % 8
           mask == {a - y + p : p \in (y .. y + t - 1) \cap (0 .. 7)}
           shifted(p) ==
             LET q == p - y + x
             IN  IF q \in 0 .. 7 THEN storage[<<src_ofs \div 8, q>>] ELSE W!Zero
<1>1. buf' = [k \in DOMAIN buf \cup mask |-> IF k \in mask THEN shifted(k % 8) ELSE buf[k]]
  BY DEF W!CopyBits
<1>2. /\ t \in 1 .. 8 /\ src_ofs + t <= W!Width /\ x + t <= 8 /\ y + t <= 8
  BY PieceFits
<1>3. src_ofs \in Nat /\ a \in Nat /\ x \in 0 .. 7 /\ y \in 0 .. 7
  BY ByteParts
<1> HIDE DEF t
<1>4. mask = a .. a + t - 1
  <2> HIDE DEF a, x, y
  <2>1. ASSUME NEW k \in a .. a + t - 1
        PROVE  k \in mask
    <3> DEFINE p == k - a + y
    <3>1. p \in (y .. y + t - 1) \cap (0 .. 7) /\ k = a - y + p
      BY <1>2, <1>3
    <3> HIDE DEF p
    <3> QED BY <3>1
  <2>2. ASSUME NEW p \in (y .. y + t - 1) \cap (0 .. 7)
        PROVE  a - y + p \in a .. a + t - 1
    BY <1>2, <1>3
  <2> QED BY <2>1, <2>2
<1>5. ASSUME NEW s \in src_ofs .. src_ofs + t - 1
      PROVE  buf'[o + s] = <<field, W!BitAt(W!Width, s)>>
  <2> DEFINE u == s - src_ofs
  <2>1. u \in 0 .. t - 1 /\ u \in Nat /\ s = src_ofs + u /\ o + s = a + u
    BY <1>2, <1>3
  <2> HIDE DEF u
  <2>2. (o + s) % 8 = y + u
    <3>1. y + u < 8
      BY <1>2, <1>3, <2>1
    <3> QED BY <1>3, <2>1, <3>1, ByteStep
  <2>3. s % 8 = x + u /\ s \div 8 = src_ofs \div 8
    <3>1. x + u < 8
      BY <1>2, <1>3, <2>1
    <3> QED BY <1>3, <2>1, <3>1, ByteStep
  <2>4. o + s \in mask
    <3>1. a + u \in a .. a + t - 1
      <4> HIDE DEF a
      <4> QED BY <1>2, <1>3, <2>1
    <3> HIDE DEF mask, a
    <3> QED BY <1>4, <2>1, <3>1
  <2>5. buf'[o + s] = shifted((o + s) % 8)
    <3> HIDE DEF mask, shifted
    <3> QED BY <1>1, <2>4
  <2>6. ((o + s) % 8) - y + x = x + u /\ x + u \in 0 .. 7
    <3> HIDE DEF x, y, a
    <3> DEFINE v == (o + s) % 8
    <3>1. v = y + u
      BY <2>2
    <3> HIDE DEF v
    <3>2. v - y + x = x + u /\ x + u \in 0 .. 7
      BY <1>2, <1>3, <2>1, <3>1
    <3> QED BY <3>2 DEF v
  <2>7. shifted((o + s) % 8) = storage[<<s \div 8, s % 8>>]
    <3> HIDE DEF x, y, a
    <3> QED BY <2>3, <2>6
  <2>8. s \in 0 .. W!Width - 1
    <3> DEFINE w == W!Width
    <3>1. w \in 1 .. 64 /\ src_ofs + t <= w
      BY <1>2
    <3> HIDE DEF w
    <3>2. s \in 0 .. w - 1
      BY <1>2, <1>3, <3>1
    <3> QED BY <3>2 DEF w
  <2>9. storage[<<s \div 8, s % 8>>] = <<field, W!BitAt(W!Width, s)>>
    BY <2>8, ImageBit
  <2> QED BY <2>5, <2>7, <2>9
<1>6. DOMAIN buf' = DOMAIN buf \cup a .. a + t - 1
  <2> HIDE DEF mask, shifted, a
  <2>1. DOMAIN buf' = DOMAIN buf \cup mask
    BY <1>1
  <2> QED BY <1>4, <2>1
<1>7. ASSUME NEW k \in DOMAIN buf', k \notin a .. a + t - 1
      PROVE  buf'[k] = buf[k]
  <2> HIDE DEF mask, shifted, a
  <2>1. k \notin mask
    BY <1>4, <1>7
  <2> QED BY <1>1, <2>1
<1> QED BY <1>5, <1>6, <1>7 DEF t

(* The i-th frame of the transfer of the bytes p.                          *)
FrameAt(p, i, t) ==
  [data |-> SubSeq(p, 7 * (i - 1) + 1, W!Min2(7 * (i - 1) + 7, Len(p))),
   start |-> 7 * (i - 1) = 0, end |-> 7 * (i - 1) + 7 >= Len(p),
   toggle |-> ((7 * (i - 1)) \div 7) % 2, tid |-> t]

Cutting(p, s, t) ==
  /\ s \in Seq({FrameAt(p, i, t) : i \in Nat})
  /\ \A i \in 1 .. Len(s) : s[i] = FrameAt(p, i, t)

(* A message is encoded field by field; then it is cut.                    *)
WireTypes ==
  /\ wire_pc \in {"idle", "enc", "copy", "cut", "sent"} /\ msg \in DOMAIN W!Layout
  /\ field \in 1 .. Len(W!Layout[msg]) + 1 /\ o = Place(msg, field) /\ tid \in 0 .. 31

Encoding ==
  /\ wire_pc = "idle" => field = 1 /\ buf = <<>>
  /\ wire_pc = "enc" => Written(buf, msg, field, 0)
  /\ wire_pc = "copy" =>
       /\ field <= Len(W!Layout[msg]) /\ ~W!Void(field)
       /\ storage = W!Image /\ src_ofs \in 0 .. W!Width - 1
       /\ Written(buf, msg, field, src_ofs)
  /\ wire_pc \in {"cut", "sent"} =>
       field = Len(W!Layout[msg]) + 1 /\ Written(buf, msg, field, 0)

Sending ==
  /\ wire_pc = "cut" =>
       /\ Cutting(W!Payload, out, tid)
       /\ off = 7 * Len(out) /\ off < Len(W!Payload)
  /\ wire_pc = "sent" =>
       \E t \in 0 .. 31 :
         /\ tid = (t + 1) % 32 /\ Cutting(W!Payload, out, t) /\ Len(out) > 0
         /\ 7 * (Len(out) - 1) < Len(W!Payload) /\ Len(W!Payload) <= 7 * Len(out)

WireInv == WireTypes /\ Encoding /\ Sending

LEMMA WireInit == W!Init => WireInv
<1> SUFFICES ASSUME W!Init PROVE WireInv
  OBVIOUS
<1> USE DEF W!Init
<1>1. msg \in DOMAIN W!Layout /\ msg = "fix2"
  BY DEF W!Layout
<1>2. field \in 1 .. Len(W!Layout[msg]) + 1 /\ o = Place(msg, field)
  BY <1>1, Layouts, FieldPlaces
<1>3. WireTypes
  BY <1>1, <1>2 DEF WireTypes
<1>4. Encoding
  BY DEF Encoding
<1>5. Sending
  BY DEF Sending
<1> QED BY <1>3, <1>4, <1>5 DEF WireInv

LEMMA StepBegin ==
  ASSUME WireInv, NEW m \in DOMAIN W!Layout, W!Begin(m)
  PROVE  WireInv'
<1> USE DEF W!Begin
<1>1. field' \in 1 .. Len(W!Layout[msg']) + 1 /\ o' = Place(msg', field')
  BY Layouts, FieldPlaces
<1>2. WireTypes'
  BY <1>1 DEF WireInv, WireTypes
<1>3. DOMAIN buf' = {}
  BY DEF WireInv, Encoding
<1>4. Written(buf', m, 1, 0)
  <2>1. Place(m, 1) = 0
    BY FieldPlaces
  <2>2. DOMAIN buf' \subseteq 0 .. Place(m, 1) + 0 - 1
    BY <1>3
  <2>3. \A i \in 1 .. 1 - 1 : FALSE
    OBVIOUS
  <2>4. \A k \in 0 .. 0 - 1 : FALSE
    OBVIOUS
  <2> QED BY <2>1, <2>2, <2>3, <2>4 DEF Written
<1>5. Encoding'
  BY <1>4 DEF Encoding
<1>6. Sending'
  BY DEF Sending
<1> QED BY <1>2, <1>5, <1>6 DEF WireInv

(* A field is done, and the next is begun.                                 *)
LEMMA StepField ==
  ASSUME WireInv, wire_pc \in {"enc", "copy"}, field <= Len(W!Layout[msg]), W!NextField,
         UNCHANGED <<msg, tid>>, Written(buf', msg, field + 1, 0)
  PROVE  WireInv'
<1> USE DEF W!NextField
<1>1. field \in 1 .. Len(W!Layout[msg]) /\ msg \in DOMAIN W!Layout /\ o = Place(msg, field)
  BY Layouts DEF WireInv, WireTypes
<1>2. field' \in 1 .. Len(W!Layout[msg]) + 1
  BY <1>1, Layouts
<1>3. o' = Place(msg, field + 1)
  BY <1>1, FieldPlaces DEF W!Width
<1>4. WireTypes'
  BY <1>2, <1>3 DEF WireInv, WireTypes
<1>5. Encoding'
  BY DEF Encoding
<1>6. Sending'
  BY DEF Sending
<1> QED BY <1>4, <1>5, <1>6 DEF WireInv

LEMMA StepSkip ==
  ASSUME WireInv, W!Skip
  PROVE  WireInv'
<1> USE DEF W!Skip
<1>1. field \in 1 .. Len(W!Layout[msg]) /\ msg \in DOMAIN W!Layout
  BY Layouts DEF WireInv, WireTypes
<1>2. Written(buf, msg, field, 0)
  BY DEF WireInv, Encoding
<1>3. msg = "fix2" /\ field = 4
  BY DEF W!Void
<1>4. Written(buf', msg, field + 1, 0)
  BY <1>1, <1>2, <1>3, FieldSkipped
<1> QED BY <1>4, StepField

LEMMA StepEnc ==
  ASSUME WireInv, W!Enc
  PROVE  WireInv'
<1> USE DEF W!Enc
<1>1. field \in 1 .. Len(W!Layout[msg]) /\ msg \in DOMAIN W!Layout
  BY Layouts DEF WireInv, WireTypes
<1>2. W!Width \in 1 .. 64
  BY <1>1, WidthType DEF W!Width
<1>3. W!Width' = W!Width
  BY DEF W!Width
<1>4. W!Image' = W!Image
  BY <1>3 DEF W!Image, W!Little
<1>5. WireTypes'
  BY DEF WireInv, WireTypes
<1>6. Written(buf', msg', field', src_ofs')
  BY DEF WireInv, Encoding
<1>7. src_ofs' \in 0 .. W!Width' - 1
  <2> DEFINE w == W!Width
  <2>1. w \in 1 .. 64 /\ src_ofs' = 0 /\ W!Width' = w
    BY <1>2, <1>3
  <2> HIDE DEF w
  <2>2. 0 \in 0 .. w - 1
    BY <2>1
  <2> QED BY <2>1, <2>2
<1>8. ~W!Void(field)'
  BY DEF W!Void
<1>9. Encoding'
  BY <1>4, <1>6, <1>7, <1>8 DEF Encoding
<1>10. Sending'
  BY DEF Sending
<1> QED BY <1>5, <1>9, <1>10 DEF WireInv

LEMMA StepCopyBits ==
  ASSUME WireInv, W!CopyBits
  PROVE  WireInv'
<1> DEFINE w == W!Width
           t == W!Piece
           d == src_ofs
<1>1. wire_pc = "copy"
  BY DEF W!CopyBits
<1>2. /\ field \in 1 .. Len(W!Layout[msg]) /\ msg \in DOMAIN W!Layout /\ o = Place(msg, field)
      /\ ~W!Void(field) /\ storage = W!Image /\ d \in 0 .. w - 1
      /\ Written(buf, msg, field, d)
  BY <1>1, Layouts DEF WireInv, WireTypes, Encoding
<1>3. w \in 1 .. 64 /\ w = W!Layout[msg][field]
  BY <1>2, WidthType DEF W!Width
<1>4. o \in Nat
  BY <1>2 DEF Written
<1>5. t \in 1 .. 8 /\ d + t <= w
  BY <1>2, <1>3, <1>4, PieceFits
<1>6. /\ DOMAIN buf' = DOMAIN buf \cup o + d .. o + d + t - 1
      /\ \A k \in DOMAIN buf' : k \notin o + d .. o + d + t - 1 => buf'[k] = buf[k]
      /\ \A s \in d .. d + t - 1 : buf'[o + s] = <<field, W!BitAt(w, s)>>
  BY <1>2, <1>3, <1>4, Copied
<1>7. /\ src_ofs' = d + t /\ UNCHANGED <<msg, storage, tid>>
      /\ IF src_ofs' < w THEN UNCHANGED <<wire_pc, field, o>> ELSE W!NextField
  BY DEF W!CopyBits
<1>8. ASSUME NEW s \in d .. d + t - 1
      PROVE  buf'[o + s] = Correct(msg, field, s)
  <2>1. Correct(msg, field, s) = <<field, W!BitAt(w, s)>>
    BY <1>2, <1>3 DEF Correct, W!Void
  <2> QED BY <1>6, <2>1
<1> HIDE DEF w, t
<1>9. d \in Nat /\ t \in Nat
  BY <1>2, <1>3, <1>5
<1>10. Written(buf', msg, field, d + t)
  <2> DEFINE c == buf'
  <2>1. /\ DOMAIN c = DOMAIN buf \cup Place(msg, field) + d .. Place(msg, field) + d + t - 1
        /\ \A k \in DOMAIN c :
             k \notin Place(msg, field) + d .. Place(msg, field) + d + t - 1 => c[k] = buf[k]
        /\ \A s \in d .. d + t - 1 : c[Place(msg, field) + s] = Correct(msg, field, s)
    BY <1>2, <1>6, <1>8
  <2> HIDE DEF c
  <2>2. Written(c, msg, field, d + t)
    BY <1>2, <1>9, <2>1, BitsAdded
  <2> QED BY <2>2 DEF c
<1>11. CASE d + t < w
  <2>1. UNCHANGED <<wire_pc, field, o>> /\ src_ofs' = d + t
    BY <1>7, <1>11
  <2>2. W!Width' = W!Width
    BY <1>7, <2>1 DEF W!Width
  <2>3. W!Image' = W!Image
    BY <1>7, <2>1, <2>2 DEF W!Image, W!Little
  <2>4. ~W!Void(field)'
    BY <1>2, <1>7, <2>1 DEF W!Void
  <2>5. src_ofs' \in 0 .. w - 1
    BY <1>3, <1>9, <1>11, <2>1
  <2>6. WireTypes'
    BY <1>7, <2>1 DEF WireInv, WireTypes
  <2>7. Encoding'
    <3>1. storage' = W!Image'
      BY <1>2, <1>7, <2>3
    <3>2. src_ofs' \in 0 .. W!Width' - 1
      BY <2>2, <2>5 DEF w
    <3>3. Written(buf', msg', field', src_ofs')
      BY <1>7, <1>10, <2>1
    <3>4. field' <= Len(W!Layout[msg'])
      BY <1>2, <1>7, <2>1, Layouts
    <3> QED BY <1>1, <2>1, <2>4, <3>1, <3>2, <3>3, <3>4 DEF Encoding
  <2>8. Sending'
    BY <1>1, <2>1 DEF Sending
  <2> QED BY <2>6, <2>7, <2>8 DEF WireInv
<1>12. CASE ~(d + t < w)
  <2>1. d + t = w
    BY <1>3, <1>5, <1>9, <1>12
  <2>2. W!NextField
    BY <1>7, <1>12
  <2> DEFINE c == buf'
  <2>3. Written(c, msg, field, W!Layout[msg][field])
    BY <1>3, <1>10, <2>1
  <2> HIDE DEF c
  <2>4. Written(c, msg, field + 1, 0)
    BY <1>2, <2>3, FieldDone
  <2>5. Written(buf', msg, field + 1, 0) /\ field <= Len(W!Layout[msg])
    BY <1>2, <2>4, Layouts DEF c
  <2> QED BY <1>1, <1>7, <2>2, <2>5, StepField
<1> QED BY <1>11, <1>12

(* The bytes of a transfer: those of the message, after the checksum.      *)
Plen == (o + 7) \div 8
Before == IF Plen <= 7 THEN 0 ELSE 2
Octets == {"crc"} \cup {W!Octet(k) : k \in Nat}

LEMMA Joined ==
  ASSUME NEW Elem, NEW a \in Seq(Elem), NEW b \in Seq(Elem)
  PROVE  /\ a \o b \in Seq(Elem) /\ Len(a \o b) = Len(a) + Len(b)
         /\ \A i \in 1 .. Len(b) : (a \o b)[Len(a) + i] = b[i]
OBVIOUS

LEMMA PayloadIs ==
  ASSUME o \in Nat
  PROVE  /\ Plen \in Nat /\ Before \in Nat /\ W!Payload \in Seq(Octets)
         /\ Len(W!Payload) = Before + Plen
         /\ \A k \in 0 .. Plen - 1 : W!Payload[Before + k + 1] = W!Octet(k)
<1>1. Plen \in Nat
  <2>1. o + 7 \in Nat
    OBVIOUS
  <2> QED BY <2>1, ByteParts DEF Plen
<1>2. Before \in {0, 2}
  BY DEF Before
<1> DEFINE n == Plen
           bytes == [k \in 1 .. n |-> W!Octet(k - 1)]
<1>3. W!Payload = IF n <= 7 THEN bytes ELSE <<"crc", "crc">> \o bytes
  BY DEF W!Payload, Plen
<1>4. bytes \in Seq(Octets) /\ Len(bytes) = n
  <2> HIDE DEF n
  <2>1. \A k \in 1 .. n : W!Octet(k - 1) \in Octets
    <3> SUFFICES ASSUME NEW k \in 1 .. n PROVE W!Octet(k - 1) \in Octets
      OBVIOUS
    <3>1. k - 1 \in Nat
      BY <1>1
    <3> QED BY <3>1 DEF Octets
  <2>2. n \in Nat
    BY <1>1 DEF n
  <2> QED BY <2>1, <2>2
<1>5. ASSUME NEW k \in 0 .. n - 1
      PROVE  bytes[k + 1] = W!Octet(k)
  <2> HIDE DEF n
  <2>1. k + 1 \in 1 .. n /\ (k + 1) - 1 = k
    BY <1>1 DEF n
  <2> QED BY <2>1
<1>6. <<"crc", "crc">> \in Seq(Octets) /\ Len(<<"crc", "crc">>) = 2
  BY DEF Octets
<1> HIDE DEF bytes
<1>7. CASE n <= 7
  <2>1. W!Payload = bytes /\ Before = 0
    BY <1>3, <1>7 DEF Before
  <2>2. ASSUME NEW k \in 0 .. n - 1 PROVE Before + k + 1 = k + 1
    BY <1>1, <2>1
  <2> QED BY <1>1, <1>2, <1>4, <1>5, <2>1, <2>2
<1>8. CASE ~(n <= 7)
  <2> DEFINE c == <<"crc", "crc">>
  <2>1. W!Payload = c \o bytes /\ Before = 2
    BY <1>3, <1>8 DEF Before
  <2>2. c \in Seq(Octets) /\ Len(c) = 2
    BY <1>6
  <2> HIDE DEF c, n
  <2>3. n \in Nat
    BY <1>1 DEF n
  <2> DEFINE e == c \o bytes
  <2>6. /\ e \in Seq(Octets) /\ Len(e) = Len(c) + Len(bytes)
        /\ \A i \in 1 .. Len(bytes) : e[Len(c) + i] = bytes[i]
    <3>0. c \in Seq(Octets) /\ bytes \in Seq(Octets)
      BY <1>4, <2>2
    <3> DEFINE Elem == Octets
    <3>4. c \in Seq(Elem) /\ bytes \in Seq(Elem)
      BY <3>0
    <3> HIDE DEF Elem
    <3>1. c \o bytes \in Seq(Elem)
      BY <3>4
    <3>2. Len(c \o bytes) = Len(c) + Len(bytes)
      BY <3>4
    <3>3. \A i \in 1 .. Len(bytes) : (c \o bytes)[Len(c) + i] = bytes[i]
      BY <3>4
    <3> QED BY <3>1, <3>2, <3>3 DEF Elem
  <2> HIDE DEF e
  <2>4. e \in Seq(Octets) /\ Len(e) = 2 + n
    BY <1>4, <2>2, <2>6
  <2>5. ASSUME NEW k \in 0 .. n - 1
        PROVE  e[2 + k + 1] = W!Octet(k)
    <3>1. k + 1 \in 1 .. n /\ 2 + k + 1 = 2 + (k + 1)
      BY <2>3
    <3>2. e[2 + (k + 1)] = bytes[k + 1]
      BY <1>4, <2>2, <2>6, <3>1
    <3> QED BY <1>5, <3>1, <3>2
  <2> QED BY <2>1, <2>3, <2>4, <2>5 DEF n, e
<1> QED BY <1>7, <1>8

(* Plen bytes hold o bits.                                                 *)
LEMMA PlenHolds ==
  ASSUME o \in Nat
  PROVE  o <= 8 * Plen /\ (o > 0 => Plen > 0)
<1> DEFINE n == Plen
<1>1. o + 7 \in Nat
  OBVIOUS
<1>2. n \in Nat /\ (o + 7) % 8 \in 0 .. 7 /\ o + 7 = 8 * n + ((o + 7) % 8)
  BY <1>1, ByteParts DEF Plen
<1> HIDE DEF n
<1>3. o <= 8 * n /\ (o > 0 => n > 0)
  BY <1>2
<1> QED BY <1>3 DEF n

LEMMA SameFrames ==
  ASSUME UNCHANGED <<o, buf>>
  PROVE  W!Payload' = W!Payload
BY DEF W!Payload, W!Octet, W!Bit

LEMMA PlaceEnd ==
  ASSUME WireInv, wire_pc \in {"cut", "sent"} \/ (wire_pc = "enc" /\ field > Len(W!Layout[msg]))
  PROVE  o \in Nat \ {0} /\ Written(buf, msg, field, 0) /\ field = Len(W!Layout[msg]) + 1
<1>1. /\ o = Place(msg, field) /\ Written(buf, msg, field, 0) /\ msg \in DOMAIN W!Layout
      /\ field = Len(W!Layout[msg]) + 1
  BY Layouts DEF WireInv, WireTypes, Encoding
<1>2. 1 \in 1 .. field - 1 /\ 1 \in 1 .. Len(W!Layout[msg])
  BY <1>1, Layouts
<1> DEFINE p == Place(msg, 1)
           w == W!Layout[msg][1]
<1>3. o \in Nat /\ p \in Nat /\ p + w <= o
  BY <1>1, <1>2 DEF Written
<1>4. w \in 1 .. 64
  BY <1>1, <1>2, WidthType
<1> HIDE DEF p, w
<1>5. o # 0
  BY <1>3, <1>4
<1> QED BY <1>1, <1>3, <1>5

LEMMA StepEncoded ==
  ASSUME WireInv, W!Encoded
  PROVE  WireInv'
<1> USE DEF W!Encoded
<1>1. WireTypes'
  BY DEF WireInv, WireTypes
<1>2. Encoding'
  <2>1. Written(buf, msg, field, 0) /\ field = Len(W!Layout[msg]) + 1
    BY PlaceEnd
  <2>2. Written(buf', msg', field', 0) /\ field' = Len(W!Layout[msg']) + 1
    BY <2>1
  <2> QED BY <2>2 DEF Encoding
<1>3. Sending'
  <2>1. o \in Nat \ {0}
    BY PlaceEnd
  <2>2. Len(W!Payload) \in Nat \ {0}
    <3> DEFINE n == Plen
               l == Len(W!Payload)
    <3>1. n \in Nat /\ n > 0 /\ Before \in Nat /\ l = Before + n
      BY <2>1, PayloadIs, PlenHolds
    <3> HIDE DEF n, l
    <3>2. l \in Nat \ {0}
      BY <3>1
    <3> QED BY <3>2 DEF l
  <2>3. W!Payload' = W!Payload
    BY SameFrames
  <2>4. Cutting(W!Payload, <<>>, tid)
    BY DEF Cutting
  <2>5. Cutting(W!Payload', out', tid')
    BY <2>3, <2>4
  <2>6. off' = 7 * Len(out') /\ off' < Len(W!Payload')
    BY <2>2, <2>3
  <2> QED BY <2>5, <2>6 DEF Sending
<1> QED BY <1>1, <1>2, <1>3 DEF WireInv

(* One more frame.                                                         *)
LEMMA CutMore ==
  ASSUME NEW p, NEW s, NEW t, Cutting(p, s, t)
  PROVE  /\ Cutting(p, Append(s, FrameAt(p, Len(s) + 1, t)), t)
         /\ Len(s) \in Nat /\ Len(Append(s, FrameAt(p, Len(s) + 1, t))) = Len(s) + 1
<1> DEFINE F == {FrameAt(p, i, t) : i \in Nat}
           e == FrameAt(p, Len(s) + 1, t)
<1>1. s \in Seq(F) /\ \A i \in 1 .. Len(s) : s[i] = FrameAt(p, i, t)
  BY DEF Cutting
<1>2. Len(s) \in Nat /\ Len(s) + 1 \in Nat
  <2> HIDE DEF F
  <2> QED BY <1>1
<1>3. e \in F
  BY <1>2
<1> HIDE DEF F, e
<1>4. Append(s, e) \in Seq(F) /\ Len(Append(s, e)) = Len(s) + 1
  BY <1>1, <1>3
<1>5. ASSUME NEW i \in 1 .. Len(s) + 1
      PROVE  Append(s, e)[i] = FrameAt(p, i, t)
  <2>1. CASE i = Len(s) + 1
    <3>1. Append(s, e)[Len(s) + 1] = e
      BY <1>1, <1>3
    <3> QED BY <2>1, <3>1 DEF e
  <2>2. CASE i # Len(s) + 1
    <3>1. i \in 1 .. Len(s)
      BY <1>2, <2>2
    <3>2. Append(s, e)[i] = s[i]
      BY <1>1, <1>3, <3>1
    <3> QED BY <1>1, <3>1, <3>2
  <2> QED BY <2>1, <2>2
<1>6. \A i \in 1 .. Len(Append(s, e)) : Append(s, e)[i] = FrameAt(p, i, t)
  BY <1>4, <1>5
<1>7. Cutting(p, Append(s, e), t)
  BY <1>4, <1>6 DEF Cutting, F
<1> QED BY <1>2, <1>4, <1>7 DEF e

LEMMA StepCut ==
  ASSUME WireInv, W!Cut
  PROVE  WireInv'
<1> DEFINE p == W!Payload
           n == Len(out)
           total == Len(p)
           e == FrameAt(p, n + 1, tid)
<1>1. wire_pc = "cut" /\ UNCHANGED <<msg, field, o, buf>>
  BY DEF W!Cut
<1>2. Cutting(p, out, tid) /\ off = 7 * n /\ off < total /\ tid \in 0 .. 31
  BY <1>1 DEF WireInv, WireTypes, Sending
<1>3. n \in Nat /\ Cutting(p, Append(out, e), tid) /\ Len(Append(out, e)) = n + 1
  <2> HIDE DEF p
  <2> QED BY <1>2, CutMore
<1>4. total \in Nat
  BY PlaceEnd, PayloadIs, <1>1
<1>5. off = 7 * ((n + 1) - 1) /\ (n + 1) - 1 = n
  <2> HIDE DEF n
  <2> QED BY <1>2, <1>3
<1>6. e = [data |-> SubSeq(p, off + 1, W!Min2(off + 7, total)),
           start |-> off = 0, end |-> off + 7 >= total,
           toggle |-> (off \div 7) % 2, tid |-> tid]
  <2> HIDE DEF p, n
  <2> QED BY <1>5 DEF FrameAt
<1>7. /\ out' = Append(out, e) /\ off' = off + 7
      /\ IF off' < total THEN UNCHANGED <<wire_pc, tid>>
                         ELSE wire_pc' = "sent" /\ tid' = (tid + 1) % 32
  <2> HIDE DEF e
  <2> QED BY <1>6 DEF W!Cut
<1>8. W!Payload' = p
  BY <1>1, SameFrames
<1>9. field = Len(W!Layout[msg]) + 1 /\ Written(buf, msg, field, 0)
  BY <1>1, PlaceEnd
<1>10. Written(buf', msg', field', 0) /\ field' = Len(W!Layout[msg']) + 1
  BY <1>1, <1>9
<1>11. tid' \in 0 .. 31 /\ wire_pc' \in {"cut", "sent"}
  <2>1. (tid + 1) % 32 \in 0 .. 31
    BY <1>2
  <2> HIDE DEF total
  <2> QED BY <1>1, <1>2, <1>7, <2>1
<1>12. WireTypes'
  BY <1>1, <1>11 DEF WireInv, WireTypes
<1>13. Encoding'
  BY <1>10, <1>11 DEF Encoding
<1>14. Sending'
  <2> HIDE DEF p, n, total, e
  <2>1. Cutting(p, out', tid) /\ Len(out') = n + 1
    BY <1>3, <1>7
  <2>2. off' = 7 * Len(out') /\ Len(out') \in Nat
    BY <1>2, <1>3, <1>7, <2>1
  <2>3. W!Payload' = p /\ Len(W!Payload') = total
    BY <1>8 DEF total
  <2>4. CASE off' < total
    <3>1. wire_pc' = "cut" /\ tid' = tid
      BY <1>1, <1>7, <2>4
    <3> QED BY <2>1, <2>2, <2>3, <2>4, <3>1 DEF Sending
  <2>5. CASE ~(off' < total)
    <3>1. wire_pc' = "sent" /\ tid' = (tid + 1) % 32
      BY <1>7, <2>5
    <3>2. Len(out') > 0 /\ 7 * (Len(out') - 1) < total /\ total <= 7 * Len(out')
      BY <1>2, <1>3, <1>4, <1>7, <2>1, <2>5
    <3> QED BY <1>2, <2>1, <2>3, <3>1, <3>2 DEF Sending
  <2> QED BY <2>4, <2>5
<1> QED BY <1>12, <1>13, <1>14 DEF WireInv

LEMMA StepSent ==
  ASSUME WireInv, W!Sent
  PROVE  WireInv'
<1> USE DEF W!Sent
<1>1. msg \in DOMAIN W!Layout
  BY DEF WireInv, WireTypes
<1>2. field' \in 1 .. Len(W!Layout[msg']) + 1 /\ o' = Place(msg', field')
  BY <1>1, Layouts, FieldPlaces
<1>3. WireTypes'
  BY <1>2 DEF WireInv, WireTypes
<1>4. Encoding'
  BY DEF Encoding
<1>5. Sending'
  BY DEF Sending
<1> QED BY <1>3, <1>4, <1>5 DEF WireInv

LEMMA WireNext == WireInv /\ [W!Next]_(W!vars) => WireInv'
<1> SUFFICES ASSUME WireInv, [W!Next]_(W!vars) PROVE WireInv'
  OBVIOUS
<1>1. ASSUME NEW m \in DOMAIN W!Layout, W!Begin(m) PROVE WireInv'
  BY <1>1, StepBegin
<1>2. CASE W!Skip BY <1>2, StepSkip
<1>3. CASE W!Enc BY <1>3, StepEnc
<1>4. CASE W!CopyBits BY <1>4, StepCopyBits
<1>5. CASE W!Encoded BY <1>5, StepEncoded
<1>6. CASE W!Cut BY <1>6, StepCut
<1>7. CASE W!Sent BY <1>7, StepSent
<1>8. CASE UNCHANGED W!vars
  <2> USE <1>8 DEF W!vars
  <2>1. W!Payload' = W!Payload
    BY SameFrames
  <2>2. W!Width' = W!Width /\ W!Void(field)' = W!Void(field)
    BY DEF W!Width, W!Void
  <2>3. W!Image' = W!Image
    BY <2>2 DEF W!Image, W!Little
  <2>4. WireTypes'
    BY DEF WireInv, WireTypes
  <2>5. Encoding'
    BY <2>2, <2>3 DEF WireInv, Encoding
  <2>6. Sending'
    BY <2>1 DEF WireInv, Sending
  <2> QED BY <2>4, <2>5, <2>6 DEF WireInv
<1> QED BY <1>1, <1>2, <1>3, <1>4, <1>5, <1>6, <1>7, <1>8 DEF W!Next

(* A frame's bytes are those of the payload from its place on.             *)
LEMMA Cuts ==
  ASSUME NEW Elem, NEW p \in Seq(Elem), NEW a \in Nat, a < Len(p)
  PROVE  LET b == W!Min2(a + 7, Len(p)) IN
         /\ b \in Nat /\ b - a \in 1 .. 7 /\ b <= Len(p) /\ (a + 7 < Len(p) => b = a + 7)
         /\ (a + 7 >= Len(p) => b = Len(p))
         /\ Len(SubSeq(p, a + 1, b)) = b - a
         /\ \A j \in 1 .. b - a : SubSeq(p, a + 1, b)[j] = p[a + j]
<1> DEFINE b == W!Min2(a + 7, Len(p))
<1>1. Len(p) \in Nat
  OBVIOUS
<1>2. b = IF a + 7 < Len(p) THEN a + 7 ELSE Len(p)
  BY DEF W!Min2
<1> HIDE DEF b
<1>3. b \in Nat /\ b - a \in 1 .. 7 /\ b <= Len(p) /\ (a + 7 < Len(p) => b = a + 7)
      /\ (a + 7 >= Len(p) => b = Len(p))
  BY <1>1, <1>2
<1>4. \A j \in a + 1 .. b : p[j] \in Elem
  <2>1. \A j \in a + 1 .. b : j \in 1 .. Len(p)
    BY <1>1, <1>3
  <2> QED BY <2>1, OfSeq
<1>5. a + 1 \in 1 .. Len(p) + 1 /\ b \in a .. Len(p) /\ b - (a + 1) + 1 = b - a
  BY <1>1, <1>3
<1>6. /\ Len(SubSeq(p, a + 1, b)) = b - a
      /\ \A j \in 1 .. b - a : SubSeq(p, a + 1, b)[j] = p[a + j]
  <2> DEFINE l == a + 1
             q == SubSeq(p, l, b)
  <2>1. l \in Int /\ b \in Int /\ l <= b /\ b - l + 1 = b - a
    BY <1>3
  <2>2. \A j \in l .. b : p[j] \in Elem
    BY <1>4
  <2> HIDE DEF l
  <2>3. Len(q) = b - l + 1 /\ \A j \in 1 .. b - l + 1 : q[j] = p[l + j - 1]
    BY <2>1, <2>2, SubSeqProperties
  <2>4. \A j \in 1 .. b - a : l + j - 1 = a + j
    BY <1>3 DEF l
  <2> HIDE DEF q
  <2>5. Len(q) = b - a /\ \A j \in 1 .. b - a : q[j] = p[a + j]
    BY <2>1, <2>3, <2>4
  <2> QED BY <2>5 DEF q, l
<1> QED BY <1>3, <1>6 DEF b

(* What the frames of a transfer are.                                      *)
LEMMA FramesAre ==
  ASSUME NEW Elem, NEW p \in Seq(Elem), NEW t, Cutting(p, out, t), Len(out) > 0,
         7 * (Len(out) - 1) < Len(p), Len(p) <= 7 * Len(out)
  PROVE  /\ Len(out) \in Nat
         /\ \A i \in 1 .. Len(out) :
              /\ out[i].start = (i = 1) /\ out[i].end = (i = Len(out))
              /\ out[i].toggle = (i - 1) % 2 /\ out[i].tid = t
              /\ Len(out[i].data) \in 1 .. 7 /\ (i < Len(out) => Len(out[i].data) = 7)
         /\ W!Size = Len(p)
         /\ \A k \in 0 .. Len(p) - 1 : W!Byte(k) = p[k + 1]
<1> DEFINE n == Len(out)
           l == Len(p)
           F == {FrameAt(p, i, t) : i \in Nat}
<1>1. n \in Nat /\ l \in Nat /\ n > 0 /\ 7 * (n - 1) < l /\ l <= 7 * n
  <2>1. out \in Seq(F)
    BY DEF Cutting
  <2> HIDE DEF F
  <2> QED BY <2>1
<1> HIDE DEF F
<1>2. ASSUME NEW i \in 1 .. n, NEW a \in Nat, a = 7 * (i - 1)
      PROVE  /\ a < l
             /\ out[i].start = (i = 1) /\ out[i].end = (i = n)
             /\ out[i].toggle = (i - 1) % 2 /\ out[i].tid = t
             /\ Len(out[i].data) \in 1 .. 7 /\ (a + 7 < l => Len(out[i].data) = 7)
             /\ (a + 7 >= l => Len(out[i].data) = l - a)
             /\ \A j \in 1 .. Len(out[i].data) : out[i].data[j] = p[a + j]
  <2> DEFINE b == W!Min2(a + 7, l)
             d == SubSeq(p, a + 1, b)
  <2>1. out[i] = FrameAt(p, i, t)
    BY DEF Cutting
  <2>2. out[i] = [data |-> d, start |-> a = 0, end |-> a + 7 >= l,
                  toggle |-> (a \div 7) % 2, tid |-> t]
    BY <1>2, <2>1 DEF FrameAt
  <2> HIDE DEF n, l, d, b
  <2>3. a < l
    BY <1>1, <1>2
  <2>4. /\ b \in Nat /\ b - a \in 1 .. 7 /\ (a + 7 < l => b = a + 7) /\ (a + 7 >= l => b = l)
        /\ Len(d) = b - a /\ \A j \in 1 .. b - a : d[j] = p[a + j]
    BY <2>3, Cuts DEF l, d, b
  <2>5. (a = 0) = (i = 1)
    BY <1>1, <1>2
  <2>6. (a + 7 >= l) = (i = n)
    BY <1>1, <1>2
  <2>7. a \div 7 = i - 1
    BY <1>1, <1>2
  <2>8. /\ out[i].data = d /\ out[i].start = (a = 0) /\ out[i].end = (a + 7 >= l)
        /\ out[i].toggle = (a \div 7) % 2 /\ out[i].tid = t
    BY <2>2
  <2>9. out[i].start = (i = 1) /\ out[i].end = (i = n) /\ out[i].toggle = (i - 1) % 2
    BY <2>5, <2>6, <2>7, <2>8
  <2>10. /\ Len(d) \in 1 .. 7 /\ (a + 7 < l => Len(d) = 7) /\ (a + 7 >= l => Len(d) = l - a)
         /\ \A j \in 1 .. Len(d) : d[j] = p[a + j]
    BY <1>1, <2>4
  <2> QED BY <2>3, <2>8, <2>9, <2>10
<1>3. ASSUME NEW i \in 1 .. n
      PROVE  /\ out[i].start = (i = 1) /\ out[i].end = (i = n)
             /\ out[i].toggle = (i - 1) % 2 /\ out[i].tid = t
             /\ Len(out[i].data) \in 1 .. 7 /\ (i < n => Len(out[i].data) = 7)
  <2> DEFINE a == 7 * (i - 1)
  <2> HIDE DEF n, l
  <2>1. a \in Nat /\ (i < n => a + 7 < l)
    BY <1>1
  <2> QED BY <1>2, <2>1
<1>4. W!Size = l
  <2> DEFINE a == 7 * (n - 1)
             m == Len(out[n].data)
  <2>1. W!Size = a + m
    BY DEF W!Size
  <2> HIDE DEF n, l
  <2>2. a \in Nat /\ n \in 1 .. n /\ a + 7 >= l
    BY <1>1
  <2>3. m = l - a
    BY <1>2, <2>2
  <2> HIDE DEF a, m
  <2> QED BY <1>1, <2>1, <2>2, <2>3
<1>5. ASSUME NEW k \in 0 .. l - 1
      PROVE  W!Byte(k) = p[k + 1]
  <2> DEFINE i == (k \div 7) + 1
             j == (k % 7) + 1
             a == 7 * (k \div 7)
             m == Len(out[i].data)
  <2>1. W!Byte(k) = out[i].data[j]
    BY DEF W!Byte
  <2> HIDE DEF n, l
  <2>2. k \div 7 \in Nat /\ k % 7 \in 0 .. 6 /\ k = 7 * (k \div 7) + (k % 7)
    BY <1>1
  <2>3. i \in Nat /\ i > 0 /\ a \in Nat /\ a = 7 * (i - 1) /\ j \in 1 .. 7 /\ k + 1 = a + j
    BY <2>2
  <2> HIDE DEF i, j, a
  <2>4. i \in 1 .. n
    BY <1>1, <2>3
  <2>5. /\ m \in 1 .. 7 /\ (a + 7 < l => m = 7) /\ (a + 7 >= l => m = l - a)
        /\ \A x \in 1 .. m : out[i].data[x] = p[a + x]
    BY <1>2, <2>3, <2>4
  <2> HIDE DEF m
  <2>6. j \in 1 .. m
    <3>1. k \in Nat /\ k < l
      BY <1>1
    <3>2. CASE a + 7 < l
      BY <2>3, <2>5, <3>2
    <3>3. CASE ~(a + 7 < l)
      <4>1. m = l - a
        BY <1>1, <2>3, <2>5, <3>3
      <4> QED BY <1>1, <2>3, <3>1, <4>1
    <3> QED BY <3>2, <3>3
  <2> QED BY <2>1, <2>3, <2>5, <2>6
<1> QED BY <1>1, <1>3, <1>4, <1>5

LEMMA WireShown == WireInv => W!Understood
<1> SUFFICES ASSUME WireInv, wire_pc = "sent"
             PROVE  /\ W!OneTransfer
                    /\ LET n == Len(W!Layout[msg])
                           bit(k) == W!Byte(W!Checksum + (k \div 8))[k % 8]
                       IN  /\ \A i \in 1 .. n : \A k \in 0 .. W!Layout[msg][i] - 1 :
                                bit(W!Offset(i) + k) =
                                  IF W!Void(i) THEN W!Zero
                                               ELSE <<i, W!BitAt(W!Layout[msg][i], k)>>
                           /\ \A k \in W!Offset(n + 1) .. 8 * (W!Size - W!Checksum) - 1 :
                                bit(k) = W!Zero
  BY DEF W!Understood
<1> DEFINE n == Len(W!Layout[msg])
           bit(k) == W!Byte(W!Checksum + (k \div 8))[k % 8]
           p == W!Payload
<1>1. o \in Nat \ {0} /\ Written(buf, msg, field, 0) /\ field = n + 1 /\ o = Place(msg, n + 1)
      /\ msg \in DOMAIN W!Layout /\ n \in Nat \ {0}
  BY PlaceEnd, Layouts DEF WireInv, WireTypes
<1>2. PICK t \in 0 .. 31 :
         /\ tid = (t + 1) % 32 /\ Cutting(p, out, t) /\ Len(out) > 0
         /\ 7 * (Len(out) - 1) < Len(p) /\ Len(p) <= 7 * Len(out)
  BY DEF WireInv, Sending
<1>3. /\ Plen \in Nat /\ Before \in Nat /\ p \in Seq(Octets) /\ Len(p) = Before + Plen
      /\ \A k \in 0 .. Plen - 1 : p[Before + k + 1] = W!Octet(k)
  BY <1>1, PayloadIs
<1>4. /\ Len(out) \in Nat
      /\ \A i \in 1 .. Len(out) :
           /\ out[i].start = (i = 1) /\ out[i].end = (i = Len(out))
           /\ out[i].toggle = (i - 1) % 2 /\ out[i].tid = t
           /\ Len(out[i].data) \in 1 .. 7 /\ (i < Len(out) => Len(out[i].data) = 7)
      /\ W!Size = Len(p)
      /\ \A k \in 0 .. Len(p) - 1 : W!Byte(k) = p[k + 1]
  <2>1. /\ p \in Seq(Octets) /\ Cutting(p, out, t) /\ Len(out) > 0
        /\ 7 * (Len(out) - 1) < Len(p) /\ Len(p) <= 7 * Len(out)
    BY <1>2, <1>3
  <2> HIDE DEF p, n, bit
  <2> QED BY <2>1, FramesAre
<1> HIDE DEF p
<1>5. W!OneTransfer
  <2>1. DOMAIN out = 1 .. Len(out)
    BY <1>2 DEF Cutting
  <2>2. 1 \in 1 .. Len(out)
    BY <1>2, <1>4
  <2>3. out[1].tid = t
    BY <1>4, <2>2
  <2> QED BY <1>2, <1>4, <2>1, <2>3 DEF W!OneTransfer
<1>6. W!Checksum = Before /\ Len(p) - W!Checksum = Plen
  <2> DEFINE m == Len(out)
             l == Plen
             b == Before
  <2>1. b = (IF l <= 7 THEN 0 ELSE 2) /\ W!Checksum = IF m = 1 THEN 0 ELSE 2
    BY DEF Before, W!Checksum
  <2>2. m \in Nat /\ l \in Nat /\ m > 0 /\ 7 * (m - 1) < b + l /\ b + l <= 7 * m
    BY <1>2, <1>3, <1>4
  <2> HIDE DEF m, l, b
  <2>3. W!Checksum = b /\ (b + l) - W!Checksum = l
    BY <2>1, <2>2
  <2> QED BY <1>3, <2>3 DEF l, b
<1>7. ASSUME NEW k \in Nat, k < 8 * Plen
      PROVE  bit(k) = Has(buf, k)
  <2> DEFINE j == k \div 8
             q == k % 8
             l == Plen
             b == Before
  <2>1. j \in Nat /\ q \in 0 .. 7 /\ k = 8 * j + q
    BY ByteParts
  <2>2. l \in Nat /\ b \in Nat /\ Len(p) = b + l /\ k < 8 * l
    BY <1>3, <1>7
  <2> HIDE DEF l, b, j, q
  <2>3. j \in 0 .. l - 1 /\ b + j \in 0 .. (b + l) - 1
    BY <2>1, <2>2
  <2>4. W!Byte(b + j) = p[b + j + 1]
    BY <1>4, <2>2, <2>3
  <2>5. p[b + j + 1] = W!Octet(j)
    BY <1>3, <2>3 DEF l, b
  <2>6. W!Octet(j)[q] = W!Bit(8 * j + q)
    BY <2>1 DEF W!Octet
  <2>7. W!Bit(k) = Has(buf, k)
    BY DEF W!Bit, Has
  <2>8. bit(k) = W!Byte(b + j)[q]
    BY <1>6 DEF j, q, b
  <2> HIDE DEF bit
  <2> QED BY <2>1, <2>4, <2>5, <2>6, <2>7, <2>8
<1> HIDE DEF bit
<1>8. o <= 8 * Plen
  BY <1>1, PlenHolds
<1>9. ASSUME NEW i \in 1 .. n, NEW k \in 0 .. W!Layout[msg][i] - 1
      PROVE  bit(W!Offset(i) + k) =
               IF W!Void(i) THEN W!Zero ELSE <<i, W!BitAt(W!Layout[msg][i], k)>>
  <2> DEFINE a == Place(msg, i)
             w == W!Layout[msg][i]
             l == Plen
  <2>1. W!Offset(i) = a
    BY OffsetPlace
  <2>2. i \in 1 .. field - 1
    BY <1>1
  <2>3. a \in Nat /\ a + w <= o /\ Has(buf, a + k) = Correct(msg, i, k)
    BY <1>1, <2>2 DEF Written
  <2>4. w \in 1 .. 64 /\ k \in 0 .. w - 1 /\ l \in Nat /\ o <= 8 * l
    BY <1>1, <1>3, <1>8, WidthType
  <2> HIDE DEF a, w, l
  <2>5. a + k \in Nat /\ a + k < 8 * l
    BY <1>1, <2>3, <2>4
  <2>6. bit(a + k) = Has(buf, a + k)
    BY <1>7, <2>5 DEF l
  <2>7. Correct(msg, i, k) = IF W!Void(i) THEN W!Zero ELSE <<i, W!BitAt(w, k)>>
    BY DEF Correct, W!Void, w
  <2> QED BY <2>1, <2>3, <2>6, <2>7 DEF w
<1>10. ASSUME NEW k \in W!Offset(n + 1) .. 8 * (W!Size - W!Checksum) - 1
       PROVE  bit(k) = W!Zero
  <2> DEFINE l == Plen
  <2>1. W!Offset(n + 1) = o
    BY <1>1, OffsetPlace
  <2>2. W!Size - W!Checksum = l /\ l \in Nat
    BY <1>3, <1>4, <1>6
  <2>3. DOMAIN buf \subseteq 0 .. o + 0 - 1
    BY <1>1 DEF Written
  <2> HIDE DEF l
  <2>4. k \in o .. 8 * l - 1
    BY <2>1, <2>2
  <2>5. k \in Nat /\ k < 8 * l /\ k \notin 0 .. o + 0 - 1
    BY <1>1, <2>2, <2>4
  <2>6. bit(k) = Has(buf, k)
    BY <1>7, <2>5 DEF l
  <2>7. Has(buf, k) = W!Zero
    BY <2>3, <2>5 DEF Has
  <2> QED BY <2>6, <2>7
<1> QED BY <1>5, <1>9, <1>10 DEF bit

(* A message on the wire: for each of the layouts and each transfer        *)
(* identifier the receiver of the frames reads every bit of every field in *)
(* its place, and zero in the void and behind the last (Understood).       *)
THEOREM MessageUnderstood == W!Spec => []Understood
<1>1. WireInv => Understood
  BY WireShown DEF Understood
<1> QED BY <1>1, WireInit, WireNext, PTL DEF W!Spec
=============================================================================
