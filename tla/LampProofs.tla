----------------------------- MODULE LampProofs -----------------------------
(* Proofs about Lamp, for any strip, any configurations and any strengths.  *)
EXTENDS Lamp, TLAPS

\* What the timer task has found out so far is still so, as long as nothing has
\* changed since it began.
Reading ==
    fresh =>
        /\ cb.at # "idle" => cb.hour = hour
        /\ cb.at \in {"window", "night"} => light_config.nightLightMode = 1
        /\ cb.at = "night" => InNightWindow(light_config, hour)
        /\ cb.at = "day" => ~(light_config.nightLightMode = 1 /\ InNightWindow(light_config, hour))
        /\ cb.at = "send" => cb.colour = Wanted

\* The line is at the pixel whose turn it is, and the ones before it are done.
Sending ==
    /\ cb.at # "send" => line = 1 /\ cb.sent = 0
    /\ line <= cb.sent + 1
    /\ cb.at = "send" /\ fresh =>
          line = cb.sent + 1 /\ \A i \in 1..cb.sent : strip[i] = cb.colour

LampInv == TypeOK /\ Reading /\ Sending /\ RefreshIsWhole

-----------------------------------------------------------------------------
(* Colours and types.                                                      *)

\* The conversion to uint8_t yields a byte.
LEMMA Uint8IsByte == \A n \in Int : Uint8(n) \in Byte
BY DEF Uint8, Byte

\* The night light is a colour, whatever strength is configured.
LEMMA NightIsColour == \A v \in Nat : NightLight(v) \in Colours
<1> SUFFICES ASSUME NEW v \in Nat PROVE HsvToRgb(37, 58, v) \in Colours
  BY DEF NightLight, nlm_H, nlm_S
<1>1. /\ (255 * v * 6000) \div 600000 \in Int
      /\ (255 * v * (60 * (100 - 58))) \div 600000 \in Int
      /\ (255 * v * (6000 - 58 * (60 - (37 % 60)))) \div 600000 \in Int
  OBVIOUS
<1>2. 37 \div 60 = 0
  OBVIOUS
<1>3. HsvToRgb(37, 58, v) = Colour(Uint8((255 * v * 6000) \div 600000),
                                   Uint8((255 * v * (6000 - 58 * (60 - (37 % 60)))) \div 600000),
                                   Uint8((255 * v * (60 * (100 - 58))) \div 600000))
  BY <1>2 DEF HsvToRgb
<1>4. QED
  BY <1>1, <1>3, Uint8IsByte DEF Colour, Colours

\* So is the light outside the night window.
LEMMA DayIsColour == \A s \in Nat, o \in {0, 1} : DayLight(s, o) \in Colours
<1> SUFFICES ASSUME NEW s \in Nat, NEW o \in {0, 1} PROVE DayLight(s, o) \in Colours
  OBVIOUS
<1>1. (s * 255 * o) \div 100 \in Int
  <2>1. s * 255 * o \in Nat
    OBVIOUS
  <2>2. QED
    BY <2>1
<1>2. QED
  BY <1>1, Uint8IsByte DEF DayLight, Colour, Colours

\* Eight pulses give the byte back that was sent with them.
LEMMA ByteArrives == \A n \in Byte : ByteSeen(Pulses(n)) = n
<1> SUFFICES ASSUME NEW n \in Byte PROVE ByteSeen(Pulses(n)) = n
  OBVIOUS
<1>1. \A i \in 1..8 : BitSeen(Pulses(n)[i]) = BitOf(n, i)
  <2> SUFFICES ASSUME NEW i \in 1..8 PROVE BitSeen(Pulses(n)[i]) = BitOf(n, i)
    OBVIOUS
  <2>1. Weights[i] \in {1, 2, 4, 8, 16, 32, 64, 128}
    BY DEF Weights
  <2>2. BitOf(n, i) \in {0, 1}
    BY <2>1 DEF BitOf, Byte
  <2>3. QED
    BY <2>2 DEF Pulses, BitSeen, Long, Short
<1>2. ByteSeen(Pulses(n)) =
          BitOf(n, 1) * 128 + BitOf(n, 2) * 64 + BitOf(n, 3) * 32 + BitOf(n, 4) * 16
          + BitOf(n, 5) * 8 + BitOf(n, 6) * 4 + BitOf(n, 7) * 2 + BitOf(n, 8)
  BY <1>1 DEF ByteSeen
<1>3. /\ BitOf(n, 1) = (n \div 128) % 2 /\ BitOf(n, 2) = (n \div 64) % 2
      /\ BitOf(n, 3) = (n \div 32) % 2 /\ BitOf(n, 4) = (n \div 16) % 2
      /\ BitOf(n, 5) = (n \div 8) % 2 /\ BitOf(n, 6) = (n \div 4) % 2
      /\ BitOf(n, 7) = (n \div 2) % 2 /\ BitOf(n, 8) = (n \div 1) % 2
  BY DEF BitOf, Weights
<1>4. ((n \div 128) % 2) * 128 + ((n \div 64) % 2) * 64 + ((n \div 32) % 2) * 32
      + ((n \div 16) % 2) * 16 + ((n \div 8) % 2) * 8 + ((n \div 4) % 2) * 4
      + ((n \div 2) % 2) * 2 + ((n \div 1) % 2) = n
  BY DEF Byte
<1>5. QED
  BY <1>2, <1>3, <1>4

\* A colour arrives as it was sent: the order of its bytes is the strip's.
LEMMA ColourArrives ==
  \A colour \in Colours : ColourSeen(WS2812BSend_24bit(colour)) = colour
<1> SUFFICES ASSUME NEW colour \in Colours
             PROVE  ColourSeen(WS2812BSend_24bit(colour)) = colour
  OBVIOUS
<1>1. colour = <<colour[1], colour[2], colour[3]>>
      /\ colour[1] \in Byte /\ colour[2] \in Byte /\ colour[3] \in Byte
  BY DEF Colours
<1>2. ColourSeen(WS2812BSend_24bit(colour)) =
          <<ByteSeen(Pulses(colour[1])), ByteSeen(Pulses(colour[2])), ByteSeen(Pulses(colour[3]))>>
  BY DEF ColourSeen, WS2812BSend_24bit, Colour
<1>3. QED
  BY <1>1, <1>2, ByteArrives

-----------------------------------------------------------------------------
(* The invariant, first initially and then step by step.                   *)

\* The lamp starts dark, with nothing read and nothing sent.
LEMMA LampStarts == Init => LampInv
<1> SUFFICES ASSUME Init PROVE LampInv
  OBVIOUS
<1> USE LampAssumption DEF Init
<1>1. Dark \in Colours
  BY DEF Dark, Colour, Colours, Byte
<1>2. TypeOK
  <2>1. mqtt \in [todo : Seq(Fields), json : Configs \cup {<<>>}] /\ mqtt.todo = <<>>
    BY DEF NoWork
  <2>2. light_config \in [Fields -> Nat] /\ strip \in [Pixels -> Colours]
    BY <1>1
  <2>3. cb \in [at : {"idle", "window", "night", "day", "send"}, hour : 0..23,
                colour : Colours, sent : 0..(PIXEL_MAX - 1)]
    BY <1>1 DEF NoTick
  <2>4. QED
    <3>1. /\ light_onoff \in {0, 1} /\ lightStrength \in Nat
          /\ timer \in {"none", "running", "expired"}
          /\ hour \in 0..23 /\ fresh \in BOOLEAN
      OBVIOUS
    <3>2. 1 \in Pixels
      BY DEF Pixels
    <3>3. line \in Pixels
      BY <3>2
    <3>4. QED
      BY <2>1, <2>2, <2>3, <3>1, <3>3 DEF TypeOK
<1>3. Reading /\ Sending /\ RefreshIsWhole
  BY DEF Reading, Sending, RefreshIsWhole, NoTick
<1>4. QED
  BY <1>2, <1>3 DEF LampInv

\* A command that changes the switch or the strength makes the refresh under way
\* stale; one that changes neither leaves all it has read in force.
LEMMA DoLightKeeps ==
  ASSUME NEW data \in {0, 1, 7}, LampInv, DoLight(data) PROVE LampInv'
<1> USE LampAssumption DEF DoLight, NextMessage, LampInv
<1>1. TypeOK'
  BY DEF TypeOK
<1>2. Reading'
  BY DEF Reading, Wanted, TypeOK
<1>3. Sending'
  BY DEF Sending, TypeOK
<1>4. RefreshIsWhole'
  BY DEF RefreshIsWhole, Shows, Wanted, TypeOK
<1>5. QED
  BY <1>1, <1>2, <1>3, <1>4

\* The same for the strength.
LEMMA DoLightStrengthKeeps ==
  ASSUME NEW num \in Strengths, LampInv, DoLightStrength(num) PROVE LampInv'
<1> USE LampAssumption DEF DoLightStrength, NextMessage, LampInv
<1>1. TypeOK'
  BY DEF TypeOK
<1>2. Reading'
  BY DEF Reading, Wanted, TypeOK
<1>3. Sending'
  BY DEF Sending, TypeOK
<1>4. RefreshIsWhole'
  BY DEF RefreshIsWhole, Shows, Wanted, TypeOK
<1>5. QED
  BY <1>1, <1>2, <1>3, <1>4

\* A configuration that has arrived but is not yet written changes nothing.
LEMMA ConfigLightKeeps ==
  ASSUME NEW json \in Configs, LampInv, ConfigLight(json) PROVE LampInv'
<1> USE LampAssumption DEF ConfigLight, NextMessage, LampInv, settings
<1>1. TypeOK'
  BY DEF TypeOK, FieldOrder, Fields
<1>2. Reading'
  BY DEF Reading, Wanted
<1>3. Sending'
  BY DEF Sending
<1>4. RefreshIsWhole'
  BY DEF RefreshIsWhole, Shows, Wanted
<1>5. QED
  BY <1>1, <1>2, <1>3, <1>4

\* One field at a time: the refresh under way is stale as soon as one differs.
LEMMA ConfigFieldKeeps == ASSUME LampInv, ConfigField PROVE LampInv'
<1> USE LampAssumption DEF ConfigField, LampInv, counters
<1>1. TypeOK'
  <2>1. Head(mqtt.todo) \in Fields
    BY DEF TypeOK
  <2>2. mqtt.json \in Configs
    BY DEF TypeOK
  <2>3. Head(mqtt.todo) \in DOMAIN mqtt.json => mqtt.json[Head(mqtt.todo)] \in Nat
    BY <2>2
  <2>4. light_config' \in [Fields -> Nat]
    BY <2>1, <2>3 DEF TypeOK
  <2>5. /\ mqtt' \in [todo : Seq(Fields), json : Configs \cup {<<>>}]
        /\ mqtt'.todo # <<>> => mqtt'.json \in Configs
    <3>1. CASE Len(mqtt.todo) = 1
      <4>1. mqtt' = NoWork
        BY <3>1
      <4>2. QED
        BY <4>1 DEF NoWork
    <3>2. CASE Len(mqtt.todo) # 1
      <4>1. mqtt' = [mqtt EXCEPT !.todo = Tail(mqtt.todo)]
        BY <3>2
      <4>2. Tail(mqtt.todo) \in Seq(Fields)
        BY DEF TypeOK
      <4>3. QED
        BY <2>2, <4>1, <4>2 DEF TypeOK
    <3>3. QED
      BY <3>1, <3>2
  <2>6. fresh' \in BOOLEAN
    BY DEF TypeOK
  <2>7. QED
    BY <2>4, <2>5, <2>6 DEF TypeOK
<1>2. Reading'
  BY DEF Reading, Wanted, TypeOK
<1>3. Sending'
  BY DEF Sending, TypeOK
<1>4. RefreshIsWhole'
  BY DEF RefreshIsWhole, Shows, Wanted, TypeOK
<1>5. QED
  BY <1>1, <1>2, <1>3, <1>4

\* The timer starts after the lamp; it reads the mode and the clock as they are.
LEMMA TimerKeeps == ASSUME LampInv, StartEventList \/ TimerFires PROVE LampInv'
<1> USE LampAssumption DEF LampInv, settings, counters, NoTick
<1>1. CASE StartEventList
  BY <1>1 DEF StartEventList, TypeOK, Reading, Sending, RefreshIsWhole, Shows, Wanted
<1>2. CASE TimerFires
  <2> USE <1>2 DEF TimerFires
  <2>1. Dark \in Colours
    BY DEF Dark, Colour, Colours, Byte
  <2>2. TypeOK'
    <3>1. hour \in 0..23 /\ 0 \in 0..(PIXEL_MAX - 1)
      BY DEF TypeOK
    <3>2. cb' \in [at : {"idle", "window", "night", "day", "send"}, hour : 0..23,
                   colour : Colours, sent : 0..(PIXEL_MAX - 1)]
      BY <2>1, <3>1
    <3>3. QED
      BY <3>2 DEF TypeOK
  <2>3. Reading'
    BY DEF Reading
  <2>4. Sending'
    BY DEF Sending, TypeOK
  <2>5. RefreshIsWhole'
    BY DEF RefreshIsWhole, TypeOK
  <2>6. QED
    BY <2>2, <2>3, <2>4, <2>5
<1>3. QED
  BY <1>1, <1>2

\* Whether it is night and which colour follows: decided by settings that are
\* still the present ones, or the refresh is stale.
LEMMA DecisionKeeps ==
  ASSUME LampInv, JudgeNight \/ ShowNight \/ ShowDay PROVE LampInv'
<1> USE LampAssumption DEF LampInv, settings, counters, TimerStep
<1>1. CASE JudgeNight
  <2> USE <1>1 DEF JudgeNight
  <2>1. TypeOK' /\ cb'.hour = cb.hour /\ cb'.sent = cb.sent
    BY DEF TypeOK
  <2>2. Reading'
    BY <2>1 DEF Reading, Wanted, TypeOK, InNightWindow
  <2>3. Sending' /\ RefreshIsWhole'
    BY <2>1 DEF Sending, RefreshIsWhole, TypeOK
  <2>4. QED
    BY <2>1, <2>2, <2>3
<1>2. CASE ShowNight
  <2> USE <1>2 DEF ShowNight
  <2>1. NightLight(light_config.nlmLightStrength) \in Colours
    BY NightIsColour DEF TypeOK, Fields
  <2>2. TypeOK' /\ cb'.at = "send" /\ cb'.hour = cb.hour /\ cb'.sent = cb.sent
        /\ cb'.colour = NightLight(light_config.nlmLightStrength)
    BY <2>1 DEF TypeOK
  <2>3. Reading'
    BY <2>2 DEF Reading, Wanted, InNightWindow
  <2>4. Sending' /\ RefreshIsWhole'
    BY <2>2 DEF Sending, RefreshIsWhole, TypeOK
  <2>5. QED
    BY <2>2, <2>3, <2>4
<1>3. CASE ShowDay
  <2> USE <1>3 DEF ShowDay
  <2>1. DayLight(lightStrength, light_onoff) \in Colours
    BY DayIsColour DEF TypeOK
  <2>2. TypeOK' /\ cb'.at = "send" /\ cb'.hour = cb.hour /\ cb'.sent = cb.sent
        /\ cb'.colour = DayLight(lightStrength, light_onoff)
    BY <2>1 DEF TypeOK
  <2>3. Reading'
    BY <2>2 DEF Reading, Wanted, InNightWindow
  <2>4. Sending' /\ RefreshIsWhole'
    BY <2>2 DEF Sending, RefreshIsWhole, TypeOK
  <2>5. QED
    BY <2>2, <2>3, <2>4
<1>4. QED
  BY <1>1, <1>2, <1>3

\* One pixel more; after the last one of a refresh that is not stale, all are done.
LEMMA SendPixelKeeps == ASSUME LampInv, SendPixel PROVE LampInv'
<1> USE LampAssumption DEF SendPixel, LampInv, settings, counters, Latch
<1>1. /\ cb.sent \in 0..(PIXEL_MAX - 1) /\ line \in 1..PIXEL_MAX
      /\ line <= cb.sent + 1 /\ PIXEL_MAX \in Nat
  BY DEF TypeOK, Sending, Pixels
<1>2. strip' \in [Pixels -> Colours] /\ strip'[line] = cb.colour
      /\ \A i \in Pixels : i # line => strip'[i] = strip[i]
  <2>1. cb.colour \in Colours
    BY DEF TypeOK
  <2>2. ColourSeen(WS2812BSend_24bit(cb.colour)) = cb.colour
    BY <2>1, ColourArrives
  <2>3. strip' = [strip EXCEPT ![line] = cb.colour]
    BY <2>2
  <2>4. QED
    BY <2>1, <2>3 DEF TypeOK
<1>3. fresh => /\ cb.colour = Wanted
               /\ \A i \in 1..(cb.sent + 1) : strip'[i] = cb.colour
  BY <1>1, <1>2 DEF Reading, Sending, Pixels
<1>4. Wanted' = Wanted
  BY DEF Wanted
<1>5. CASE cb.sent + 1 = PIXEL_MAX
  <2>1. cb' = NoTick /\ line' = 1
    BY <1>5
  <2>2. Dark \in Colours
    BY DEF Dark, Colour, Colours, Byte
  <2>3. cb' \in [at : {"idle", "window", "night", "day", "send"}, hour : 0..23,
                 colour : Colours, sent : 0..(PIXEL_MAX - 1)]
    BY <1>1, <2>1, <2>2 DEF NoTick
  <2>4. TypeOK'
    BY <1>1, <1>2, <2>1, <2>3 DEF TypeOK, Pixels
  <2>5. Reading' /\ Sending'
    BY <2>1 DEF Reading, Sending, NoTick
  <2>6. RefreshIsWhole'
    BY <1>3, <1>4, <1>5 DEF RefreshIsWhole, Shows, Pixels
  <2>7. QED
    BY <2>4, <2>5, <2>6
<1>6. CASE cb.sent + 1 # PIXEL_MAX
  <2>1. cb' = [cb EXCEPT !.sent = cb.sent + 1] /\ line' = line + 1
    BY <1>6
  <2>2. cb.sent + 1 \in 0..(PIXEL_MAX - 1) /\ line + 1 \in Pixels
    BY <1>1, <1>6 DEF Pixels
  <2>3. TypeOK' /\ cb'.at = "send" /\ cb'.hour = cb.hour /\ cb'.sent = cb.sent + 1
        /\ cb'.colour = cb.colour
    BY <1>2, <2>1, <2>2 DEF TypeOK
  <2>4. Reading'
    BY <1>4, <2>3 DEF Reading
  <2>5. Sending'
    BY <1>1, <1>3, <2>1, <2>3 DEF Sending
  <2>6. RefreshIsWhole'
    BY <2>3 DEF RefreshIsWhole
  <2>7. QED
    BY <2>3, <2>4, <2>5, <2>6
<1>7. QED
  BY <1>5, <1>6

\* A pause of the line and the passing of an hour make the refresh stale.
LEMMA OutsideKeeps == ASSUME LampInv, LinePauses \/ HourPasses PROVE LampInv'
<1> USE LampAssumption DEF LampInv, settings, LinePauses, HourPasses
<1>1. TypeOK'
  <2>1. line' \in Pixels
    BY DEF TypeOK, Pixels
  <2>2. hour' \in 0..23
    <3>1. hour' = hour \/ hour' = (hour + 1) % 24
      OBVIOUS
    <3>2. hour \in 0..23
      BY DEF TypeOK
    <3>3. QED
      BY <3>1, <3>2
  <2>3. QED
    BY <2>1, <2>2 DEF TypeOK
<1>2. fresh' = FALSE /\ cb' = cb /\ line' \in {1, line}
  OBVIOUS
<1>3. cb.at = "send" \/ line' = line
  OBVIOUS
<1>4. Reading' /\ RefreshIsWhole'
  BY <1>2 DEF Reading, RefreshIsWhole
<1>5. Sending'
  BY <1>2, <1>3 DEF Sending, TypeOK
<1>6. QED
  BY <1>1, <1>4, <1>5

-----------------------------------------------------------------------------
(* The theorems.                                                           *)

\* LampInv is an invariant: what the timer task has read is in force or known to
\* be stale, and the line is where the loop over the pixels has got to.
THEOREM LampInvariant == Spec => []LampInv
<1>1. Init => LampInv
  BY LampStarts
<1>2. LampInv /\ [Next]_vars => LampInv'
  <2> SUFFICES ASSUME LampInv, [Next]_vars PROVE LampInv'
    OBVIOUS
  <2>1. CASE Command
    BY <2>1, DoLightKeeps, DoLightStrengthKeeps, ConfigLightKeeps DEF Command
  <2>2. CASE ConfigField
    BY <2>2, ConfigFieldKeeps
  <2>3. CASE TimerTask
    BY <2>3, TimerKeeps, DecisionKeeps, SendPixelKeeps DEF TimerTask
  <2>4. CASE LinePauses \/ HourPasses
    BY <2>4, OutsideKeeps
  <2>5. CASE UNCHANGED vars
    BY <2>5 DEF vars, settings, counters, LampInv, TypeOK, Reading, Sending,
                RefreshIsWhole, Shows, Wanted
  <2>6. QED
    BY <2>1, <2>2, <2>3, <2>4, <2>5 DEF Next
<1>3. QED
  BY <1>1, <1>2, PTL DEF Spec

\* Every variable keeps its type: what reaches the strip is a triple of bytes and
\* the line stays within it, whatever strengths and hours the server sends.
THEOREM LampTypeCorrect == Spec => []TypeOK
<1>1. LampInv => TypeOK
  BY DEF LampInv
<1>2. QED
  BY <1>1, LampInvariant, PTL

\* A refresh that nothing disturbs leaves every pixel as the settings and the hour
\* want it, for a strip of any length and any sequence of commands before it.
THEOREM RefreshLeavesWanted == Spec => []RefreshIsWhole
<1>1. LampInv => RefreshIsWhole
  BY DEF LampInv
<1>2. QED
  BY <1>1, LampInvariant, PTL
=============================================================================
