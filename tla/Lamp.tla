-------------------------------- MODULE Lamp --------------------------------
(***************************************************************************)
(* The light itself: the settings that the MQTT task writes                *)
(* (mqtt_data_action), the one-second timer that reads them and lights the *)
(* strip (status_update_report), and the strip's driver (ws2182_dev.c).    *)
(* The two tasks share the settings without a lock; the priority of the    *)
(* timer task is the SDK's, so any interleaving of the two is allowed.     *)
(*                                                                         *)
(* External: the server, the clock, and the strip.  A WS2812 takes the     *)
(* first 24 bits after a pause of the line and passes the later ones on;   *)
(* a task that keeps the callback waiting between two pixels is a pause.   *)
(***************************************************************************)
EXTENDS StripCode

CONSTANTS
    PIXEL_MAX,      \* pixels of the strip
    Strengths,      \* numbers that the server sends to /do/lightStrength
    Configs,        \* JSON objects that it sends to /config/light
    FirstHour,      \* the time of the day when the lamp is started
    MaxCommands,    \* bound: commands of the server
    MaxHours,       \* bound: hours that pass
    MaxPauses       \* bound: pauses of the line between two pixels

\* The fields of light_config that something reads, in the order in which
\* mqtt_data_action looks for them.
FieldOrder == <<"nightLightMode", "nlmStart", "nlmEnd", "nlmLightStrength">>
Fields == {"nightLightMode", "nlmStart", "nlmEnd", "nlmLightStrength"}

ASSUME LampAssumption ==
    /\ PIXEL_MAX \in Nat \ {0}
    /\ Strengths \subseteq Nat
    /\ \A json \in Configs : \E keys \in SUBSET Fields : json \in [keys -> Nat]
    /\ FirstHour \in 0..23
    /\ MaxCommands \in Nat /\ MaxHours \in Nat /\ MaxPauses \in Nat

Pixels == 1..PIXEL_MAX
Dark == Colour(0, 0, 0)

\* The conversion to the uint8_t parameters of setAllPixelColor_nocache.
Uint8(n) == n % 256

\* hsv_to_rgb, s and v in percent, and the scaling of set_night_light: per cent
\* times per cent times sixtieths of a sextant.
HsvToRgb(h, s, v) ==
    LET c == h % 60
        Scaled(n) == Uint8((255 * v * n) \div 600000)
        V == Scaled(6000)
        X == Scaled(60 * (100 - s))
        Y == Scaled(6000 - s * c)
        Z == Scaled(6000 - s * (60 - c))
        sextants == <<Colour(V, Z, X), Colour(Y, V, X), Colour(X, V, Z),
                      Colour(X, Y, V), Colour(Z, X, V), Colour(V, X, Y)>>
    IN  sextants[h \div 60 + 1]

nlm_H == 37
nlm_S == 58
NightLight(strength) == HsvToRgb(nlm_H, nlm_S, strength)

DayLight(strength, onoff) ==
    LET lightness == Uint8((strength * 255 * onoff) \div 100)
    IN  Colour(lightness, lightness, lightness)

\* The test of event_pro.c:43.
InNightWindow(config, h) == h >= config.nlmStart /\ h <= config.nlmEnd

VARIABLES
    light_onoff, lightStrength, light_config,
    mqtt,       \* what the MQTT task has still to do of a configuration
    timer,      \* statusUpRep_Timer: "none" yet, "running", or "expired"
    cb,         \* where the timer task is in status_update_report
    strip,      \* what the pixels show
    line,       \* the pixel that takes the next 24 bits
    hour,
    fresh,      \* nothing has changed or paused since the last refresh began
                \* (history)
    commands, hours, pauses

settings == <<light_onoff, lightStrength, light_config>>
counters == <<commands, hours, pauses>>
vars == <<settings, mqtt, timer, cb, strip, line, hour, fresh, counters>>

NoWork == [todo |-> <<>>, json |-> <<>>]
NoTick == [at |-> "idle", hour |-> 0, colour |-> Dark, sent |-> 0]

\* gValueInit, the zeroes of light_config and must_init, which darkens the strip.
Init ==
    /\ light_onoff = 0
    /\ lightStrength = 0
    /\ light_config = [f \in Fields |-> 0]
    /\ mqtt = NoWork
    /\ timer = "none"
    /\ cb = NoTick
    /\ strip = [i \in Pixels |-> Dark]
    /\ line = 1
    /\ hour = FirstHour
    /\ fresh = FALSE
    /\ commands = 0
    /\ hours = 0
    /\ pauses = 0

-----------------------------------------------------------------------------
(* The MQTT task, in mqtt_data_action: one message after the other.        *)

NextMessage ==
    /\ mqtt.todo = <<>>
    /\ commands < MaxCommands
    /\ commands' = commands + 1
    /\ UNCHANGED <<timer, cb, strip, line, hour, hours, pauses>>

\* Only a first character of 0 or 1 counts.
DoLight(data) ==
    /\ NextMessage
    /\ light_onoff' = IF data \in {0, 1} THEN data ELSE light_onoff
    /\ fresh' = (fresh /\ light_onoff' = light_onoff)
    /\ UNCHANGED <<lightStrength, light_config, mqtt>>

\* atoi gives 0 also for what is no number: 0 is not taken.
DoLightStrength(num) ==
    /\ NextMessage
    /\ lightStrength' = IF num # 0 THEN num ELSE lightStrength
    /\ fresh' = (fresh /\ lightStrength' = lightStrength)
    /\ UNCHANGED <<light_onoff, light_config, mqtt>>

\* A payload that is not JSON is an object without fields.
ConfigLight(json) ==
    /\ NextMessage
    /\ mqtt' = [todo |-> FieldOrder, json |-> json]
    /\ UNCHANGED <<settings, fresh>>

\* The next field; one that is not in the object keeps its value.
ConfigField ==
    /\ mqtt.todo # <<>>
    /\ LET field == Head(mqtt.todo) IN
         light_config' = IF field \in DOMAIN mqtt.json
                         THEN [light_config EXCEPT ![field] = mqtt.json[field]]
                         ELSE light_config
    /\ mqtt' = IF Len(mqtt.todo) = 1 THEN NoWork ELSE [mqtt EXCEPT !.todo = Tail(mqtt.todo)]
    /\ fresh' = (fresh /\ light_config' = light_config)
    /\ UNCHANGED <<light_onoff, lightStrength, timer, cb, strip, line, hour, counters>>

-----------------------------------------------------------------------------
(* The timer task, in status_update_report.                                *)

\* start_event_list, after mqtt_app_start.
StartEventList ==
    /\ timer = "none"
    /\ timer' = "running"
    /\ UNCHANGED <<settings, mqtt, cb, strip, line, hour, fresh, counters>>

\* Wrong variant: xTimerCreate without auto-reload.
TimerFiresOnce ==
    /\ timer = "running"
    /\ cb.at = "idle"
    /\ cb' = [NoTick EXCEPT !.at = IF light_config.nightLightMode = 1 THEN "window" ELSE "day",
                            !.hour = hour]
    /\ fresh' = TRUE
    /\ timer' = "expired"
    /\ UNCHANGED <<settings, mqtt, strip, line, hour, counters>>

\* Every second; in night light mode the clock is read.
TimerFires ==
    /\ timer = "running"
    /\ cb.at = "idle"
    /\ cb' = [NoTick EXCEPT !.at = IF light_config.nightLightMode = 1 THEN "window" ELSE "day",
                            !.hour = hour]
    /\ fresh' = TRUE
    /\ UNCHANGED <<settings, mqtt, timer, strip, line, hour, counters>>

TimerStep(next) ==
    /\ cb' = next
    /\ UNCHANGED <<settings, mqtt, timer, strip, line, hour, fresh, counters>>

JudgeNight ==
    /\ cb.at = "window"
    /\ TimerStep([cb EXCEPT !.at = IF InNightWindow(light_config, cb.hour) THEN "night" ELSE "day"])

\* set_night_light; the switch is not looked at.
ShowNight ==
    /\ cb.at = "night"
    /\ TimerStep([cb EXCEPT !.at = "send", !.colour = NightLight(light_config.nlmLightStrength)])

ShowDay ==
    /\ cb.at = "day"
    /\ TimerStep([cb EXCEPT !.at = "send", !.colour = DayLight(lightStrength, light_onoff)])

\* The pixel that the line reaches shows what it sees.
Latch(bits) == strip' = [strip EXCEPT ![line] = ColourSeen(bits)]

\* Wrong variant: i < PIXEL_MAX - 1 in the loop over the pixels.
SendAllButLast ==
    /\ cb.at = "send"
    /\ Latch(WS2812BSend_24bit(cb.colour))
    /\ IF cb.sent + 2 >= PIXEL_MAX
       THEN cb' = NoTick /\ line' = 1
       ELSE cb' = [cb EXCEPT !.sent = cb.sent + 1] /\ line' = line + 1
    /\ UNCHANGED <<settings, mqtt, timer, hour, fresh, counters>>

\* Wrong variant: i <= PIXEL_MAX.
SendOneMore ==
    /\ cb.at = "send"
    /\ IF line \in Pixels THEN Latch(WS2812BSend_24bit(cb.colour)) ELSE UNCHANGED strip
    /\ IF cb.sent = PIXEL_MAX
       THEN cb' = NoTick /\ line' = 1
       ELSE cb' = [cb EXCEPT !.sent = cb.sent + 1] /\ line' = line + 1
    /\ UNCHANGED <<settings, mqtt, timer, hour, fresh, counters>>

\* One turn of the loop of setAllPixelColor_nocache.  After the last one the line
\* rests until the next second.
SendPixel ==
    /\ cb.at = "send"
    /\ Latch(WS2812BSend_24bit(cb.colour))
    /\ IF cb.sent + 1 = PIXEL_MAX
       THEN cb' = NoTick /\ line' = 1
       ELSE cb' = [cb EXCEPT !.sent = cb.sent + 1] /\ line' = line + 1
    /\ UNCHANGED <<settings, mqtt, timer, hour, fresh, counters>>

-----------------------------------------------------------------------------
(* External.                                                               *)

\* Another task runs between two pixels: the rest starts at the first pixel again.
LinePauses ==
    /\ cb.at = "send"
    /\ pauses < MaxPauses
    /\ pauses' = pauses + 1
    /\ line' = 1
    /\ fresh' = FALSE
    /\ UNCHANGED <<settings, mqtt, timer, cb, strip, hour, commands, hours>>

HourPasses ==
    /\ hours < MaxHours
    /\ hours' = hours + 1
    /\ hour' = (hour + 1) % 24
    /\ fresh' = FALSE
    /\ UNCHANGED <<settings, mqtt, timer, cb, strip, line, commands, pauses>>

Command ==
    \/ \E data \in {0, 1, 7} : DoLight(data)
    \/ \E num \in Strengths : DoLightStrength(num)
    \/ \E json \in Configs : ConfigLight(json)

TimerTask == StartEventList \/ TimerFires \/ JudgeNight \/ ShowNight \/ ShowDay \/ SendPixel

Next == Command \/ ConfigField \/ TimerTask \/ LinePauses \/ HourPasses

Spec == Init /\ [][Next]_vars

\* The periodic timer fires again and both tasks run; nobody has to send anything.
FairSpec == Spec /\ WF_vars(TimerTask) /\ WF_vars(ConfigField)

-----------------------------------------------------------------------------
(* Properties.                                                             *)

TypeOK ==
    /\ light_onoff \in {0, 1}
    /\ lightStrength \in Nat
    /\ light_config \in [Fields -> Nat]
    /\ mqtt \in [todo : Seq(Fields), json : Configs \cup {<<>>}]
    /\ mqtt.todo # <<>> => mqtt.json \in Configs
    /\ timer \in {"none", "running", "expired"}
    /\ cb \in [at : {"idle", "window", "night", "day", "send"}, hour : 0..23,
               colour : Colours, sent : 0..(PIXEL_MAX - 1)]
    /\ strip \in [Pixels -> Colours]
    /\ line \in Pixels
    /\ hour \in 0..23
    /\ fresh \in BOOLEAN

\* What status_update_report should show for the settings and the time.
Wanted ==
    IF light_config.nightLightMode = 1 /\ InNightWindow(light_config, hour)
    THEN NightLight(light_config.nlmLightStrength)
    ELSE DayLight(lightStrength, light_onoff)

Shows(colour) == \A i \in Pixels : strip[i] = colour

\* Although the callback reads the settings one by one while they are written one
\* by one, and the strip is written pixel by pixel: a refresh during which nothing
\* changed and the line did not pause leaves every pixel as wanted, whatever
\* interrupted and half-finished refreshes came before.
RefreshIsWhole == cb.at = "idle" /\ fresh => Shows(Wanted)

\* Whatever half-read configuration or torn line comes in between, the periodic
\* refresh repairs it: in the end the strip shows what was last asked for.
StripSettles == <>[]Shows(Wanted)

(* What a comment promises and the code does not keep.                     *)

\* event_pro.c:44: the test decides whether it is night.  A window that begins in
\* the evening and ends in the morning is one, and within it the night light shows.
IsNight(config, h) ==
    IF config.nlmStart <= config.nlmEnd
    THEN config.nlmStart <= h /\ h <= config.nlmEnd
    ELSE config.nlmStart <= h \/ h <= config.nlmEnd

NightIsLit ==
    (cb.at = "idle" /\ fresh /\ light_config.nightLightMode = 1 /\ IsNight(light_config, hour))
        => Shows(NightLight(light_config.nlmLightStrength))
=============================================================================
