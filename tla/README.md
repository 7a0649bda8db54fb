# The presence-sensing lamp in TLA+

`src/main` is the firmware of a lamp: an ESP8266 with a WS2812 strip and a
millimetre-wave radar on its UART. It is provisioned over a web page of its own
access point, joins the user's network, takes commands from a server over MQTT and
reports who is there. This directory holds a formal model of it, the TLC runs that
check the model and the TLAPS proofs about it.

## 1. The system

One program, six tasks that matter: the main task (`app_main`), the HTTP server's
task, the event-loop task of the SDK, the MQTT client's task, the UART task and the
FreeRTOS timer task. They share plain global variables; nothing in the repository
takes a lock of its own.

| Component | State it keeps | Operations | Talks to |
|---|---|---|---|
| Boot sequence, `main_app.c`, `ym_init.c` | the loop's `control` and `err_ym`, `wifi_config` | initialise NVS, check, join, erase, provision, write, restart, start everything else | calls all the others in turn |
| Stored credentials, `net_tool.c` | NVS namespace `netconfig`, two keys | `wificonfcheck`, `wificonfwrite` (MAKE, CHANGE) | boot sequence; survives restarts |
| Provisioning page, `web_server.c`, `wifi_apNetsetup_start` | `ssid_buf`, `passwd_buf`, an event group with one bit | `start_web_server`, `hello_get_handler` | main task and HTTP task share buffers and group |
| Wi-Fi station, `net_tool.c` | `s_retry_num`, an event group with two bits, two handler registrations | `wifi_init_sta`, `wifi_sta_event_handle` | main task and event-loop task; driver, access point, DHCP |
| MQTT link, `mqtt_work.c`, `fun_tool.c` | topic heads, `mqtt_topic_temp`, `client_g` | connected, disconnected, data; subscribe, reply, report | broker and server; shares `mqtt_topic_temp` with the UART task |
| Radar UART, `base_fun.c` | driver queue and ring buffer | `uart_event_task` | driver interrupt; radar parser |
| Radar parser, `base_fun.c` | `man_exist`, `man_move`, `man_move_to` | `radar_data_process` | calls the MQTT link on a change |
| Lamp settings and timer, `event_pro.c`, `mqtt_work.c` | `light_onoff`, `lightStrength`, `light_config`, a periodic timer | `mqtt_data_action`, `status_update_report` | written by the MQTT task, read by the timer task |
| LED strip driver, `ws2182_dev.c` | the strip itself | `set_night_light`, `setAllPixelColor_nocache` | timer task; SPI |
| Time, `ym_init.c` | the system clock | `initialize_sntp` and the wait for it | boot sequence, `status_update_report` |

What is hard in it: two tasks and two unprotected buffers in provisioning; an
event group that is deleted while a handler might still set its bits; a
disconnection that arrives at any moment of joining; power that fails between two
writes to NVS; a topic buffer that a task of higher priority rewrites while it is
composed, used or parsed; a handler that runs again at every reconnection and
appends to static strings; settings that are written and read field by field by
different tasks; a serial line whose pauses have a meaning.

What makes each part correct:

- *Credentials*: what is stored fits the arrays it is read into; a pair that will be
  used is one that provisioning handed over as a pair; a pair that works is not given up
  early.
- *Provisioning*: what is adopted is the outcome of whole requests, never of one that is
  half copied (which is not to say of a single request: one that lacks a field completes
  an earlier one); no access to a deleted group; a submission ends it.
- *Station*: exactly the configured number of retries; nothing pending when it gives
  up; the wait ends; no use of a deleted group.
- *MQTT link*: topics fit their buffer (for six connections, and not for longer); settings
  change by the server's commands only, in order and at most once; the value of a reply is
  never published as the answer to another question; the UART task is never shut out for
  ever; the six subscriptions exist.
- *Radar*: events and bytes stay together, or get together again; a read never waits
  for bytes that do not come; what the lamp believes is what a frame said; presence is
  noticed.
- *Lamp*: an undisturbed refresh shows in all pixels what settings and hour ask for;
  a disturbed one is repaired.
- *Boot*: there is one configuration or none, whatever fails in between; in the end all
  of the lamp runs.

## 2. Modules

| Module | Models | Composes |
|---|---|---|
| `WifiConfig` | lengths, `wificonfcheck`, the test of `wificonfwrite` | |
| `WebSetup` | `start_web_server`, `hello_get_handler` | `WifiConfig` |
| `WifiStation` | `wifi_init_sta`, `wifi_sta_event_handle` | |
| `Boot` | `app_main` until all is started, NVS, SNTP, restart, loss of power | `WebSetup`, `WifiStation` |
| `Provisioning` | abstract: what the user is promised about the configuration | implemented by `Boot` |
| `TopicRoute` | lookup of the levels of a topic, the codes and lists of `mqtt_work.h` | |
| `MqttLink` | MQTT handlers, topic composition and parsing, presence reports | `TopicRoute` |
| `RemoteControl` | abstract: what who controls the lamp is promised | implemented by `MqttLink` |
| `RadarFrame` | `radar_data_process` as a function, the radar's frames | |
| `RadarUart` | `uart_event_task_radar`, the driver's ring buffer and event queue | `RadarFrame` |
| `StripCode` | `WS2812BSend_24bit`: a colour as pulses and back | |
| `Lamp` | settings, `status_update_report`, colours, the pixel loop | `StripCode` |
| `MCWebSetup`, `MCBoot`, `MCLamp` | constants for TLC | |
| `WebSetupProofs`, `WifiStationProofs`, `BootProofs` | theorems about the boot and its parts | |
| `MqttLinkProofs`, `RemoteControlProofs` | theorems about the MQTT side and its refinement | |
| `RadarUartProofs` | theorems about the radar's serial line and its parser | |
| `LampProofs` | theorems about settings, refresh and pulses | |

`WifiStation`, `MqttLink` and `RadarUart` have few constants, all numbers, and are run as they are.

### WebSetup

`webPc` is the main task's place in `start_web_server`: `CreateGroup`,
`StartServer`, `InputSeen` (the wait with `portMAX_DELAY`), `StopServer` and
`ServerStopped` (calling and returning from `httpd_stop`), `AdoptInput`. `handler` is
the HTTP task's place: one request at a time, and the two `strcpy` into the shared
buffers (`TakeSsid`, `TakePasswd`) and the setting of the bit (`SignalInput`) are
steps of their own, so the main task may run between any two. A text is its name and
its length. `FormEncode` is what the browser does to a typed text; the code has no
inverse of it. `submitted` is a history variable: the pair that the requests up to the
last signal amount to, worked out from the requests and not from the buffers (`Taken`); a
request changes both fields of it at once, and leaves alone a field that it lacks.

`httpd_stop` returning only when the handler is done is the SDK's, and external
(`ServerStopped`); two of the properties rest on it, and their mutants drop it.

### WifiStation

`staPc` is the main task's place in `wifi_init_sta`; `staEvents` the events the
driver has posted; the event-loop task takes them one by one. The SDK's event loop
holds a mutex during a dispatch, so a handler and an unregistration do not overlap;
but an event can be dispatched between the two unregistrations and be handled or
dropped accordingly. `driver` abstracts driver, access point and DHCP server: it
connects, is refused, gets an address, loses the link at any time. `failures` is
a history variable that counts disconnections independently of `s_retry_num`.

### Boot

`pc` is the place in `app_main`; while it is `setup` or `station` the steps are those
of `WebSetup` and `WifiStation`. `store` is NVS. Each `nvs_set_str` is one atomic
step, and `wificonfwrite` makes two of them, so power can fail in between
(`PowerLoss`, at any state). `Faults` selects SDK calls that may fail: a full
partition, `nvs_open`, `nvs_set_str`, `httpd_start`. `given` remembers the pairs
that were handed to `wificonfwrite`.

Once joined, `app_main` waits for the time. `sntp_get_sync_status` resets a status
of `COMPLETED` when it is read, and the log line before the loop reads it (`SntpLog`): an
answer that comes before it is lost, and the loop waits for the next (`SntpWait`). Then
UART, MQTT and timer are started one after the other; the power may fail between
any two, and the link may be lost for good (`Stranded`), since the handlers are
gone by then.

`Provisioning` is what all this is for, in four steps: a pair is offered, one of the
offered pairs is adopted whole when there is none, the pair is given up, the device
connects with the pair it has. `Boot` implements it under the mapping
`Configuration` (NVS counts as a configuration once it is usable), `given`, and
having come out of `wifi_init_sta` with success.

### MqttLink

A topic is its side, the number of MACs in its head, a path of two levels, and a tail that
is empty unless two compositions were mixed; `LenOf` gives its length in characters.
`TopicRoute` is the lookup: `strstr` in a list whose words have no terminators, so `light`
is also found in `lightStrength` (`PartOf`), and the place in the list makes the code.
`stradd_copy` is two steps (`CopyHead`, `CatPath`) and the call that reads the buffer is a
third. Each `strcpy`, `strcat` and `strncpy` is one step, although the UART task can also
preempt inside it: topics cut in the middle of a word, or with the head of one side and
the rest of the other, are abstracted from. `SubscribedApart` in the proofs (the lamp is
not subscribed to what it replies on) rests on that. The UART task preempts between any
two of them (`ReportChange`): it composes its own topic in the same buffer, then publishes
at once or, when the MQTT task is inside a handler and holds the client's lock, is
`blocked` until the lock is free (`ReportUnblocked`) and publishes whatever the buffer
then holds. `connects` and with it the heads grow without an end in the code; the model
goes on counting where the real buffer has overflowed, so behind the sixth connection it
shows how long the topics get and not what the overwritten memory does. Parsing is two
steps, route and leaf, because it reads the buffer from left to right: the leaf may be
that of another topic (`LeafCode`). The fall-through of the reply cases is `RepliesTo`.
Connections break without notice, sessions are clean, QoS is 0. The values of replies are
abstracted.

`RemoteControl` knows only the settings and what is under way to the lamp. Anything may be
sent to it, also what is no command; the first of what is under way is obeyed, if it is one
of the server's commands, or missed, and all of it is missed when the connection goes. That
is its `Spec`; that nothing stays under way for ever is its `Fairness`. `MqttLink`
implements both with `UnderWay`: the messages not delivered, after the one that is delivered
and not yet looked up. The lamp's own messages, which come back to it when a
subscription was torn, are among them.

### RadarUart

The driver's interrupt appends bytes to `ring` and an event with their number to
`queue`, and the task takes an event and reads that many bytes; nothing else ties
the two together. An interrupt may find a whole frame, a part of one (`Cuts` says
after how many bytes), two frames, or come too late (`FifoOverflow`). A full queue
drops the event but not the bytes; a full ring is announced by an event of its own.
`Flush` and `ResetQueue` are two steps, with interrupts possible in between. Between
`Read` and `Reported` the task is in `mqtt_man_exist_change_pro`, which may block
(`MqttLink`), and only then is `man_exist` assigned.

`torn` is a history variable: bytes were lost between those in the ring, and the event
that would say so found no room in the queue (`SendEvent`) or is discarded by the reset that
comes next (`LoseBytes`). A flush ends it. While it holds the parser may meet the head of one frame
and the tail of another, and takes any byte for the presence. `MqttLink` abstracts from
that: its reports are of 0 or 1.

`RadarFrame` has `radar_data_process` as it is written: the header test starts at the
second byte, the inner `if` guards a log call only, the word 0x80 is looked for at
the third or fourth byte accordingly, and case 0x01 falls through to 0x02. Bytes
behind those read are zero because the buffer is cleared before each read. The frames'
layout is the radar's; it is taken from what the code tests and from the data it uses. `man_move`
and `man_move_to` are logged and never used, so `man_exist` is all that is kept.

### Lamp

`mqtt` is what the MQTT task has still to write of a configuration: one field is one step,
in the order of `mqtt_data_action`. `cb` is the timer task's place in
`status_update_report`, with the hour it has read, the colour it has decided on and the
number of pixels sent. It reads mode, window and strength at different steps, and the MQTT
task may write between them. `HsvToRgb` is `hsv_to_rgb` with the scaling of
`set_night_light` in integers; for the fixed hue 37 and saturation 58 and every strength
from 0 to 100 it gives the numbers that the C code gives in floating point, as does
`DayLight`. `Uint8` is the conversion to `uint8_t`. `StripCode` turns a colour into the 24
pulses of a transfer, green first, and says what a pixel sees in them. `strip` and `line`
are the strip: a WS2812 chain takes the next 24 bits for the next pixel and starts over
after a pause, so `LinePauses`, another task running between two `WS2812BSend_24bit`,
sends the rest of the colours to the first pixels again. The model's refresh sends the
same colour to all pixels, as the code does, so a pause leaves the last pixels as they
were. `fresh` is a history variable: no setting, hour or pause has come in since the
present (or last) refresh began.

`lightMode`, `envLightMode` and `envLightStrengthLevel` are written and never read;
`setAllPixelColor` is never called. The initial strip is dark (`must_init`).

## 3. Runs

All passing runs check for deadlock except `web` and `boot_faults`, in which
`httpd_start` may fail; `app_main` then waits for a submission for ever, which is a
real stop.

| Run | Checks | Instance | States |
|---|---|---|---|
| `web` | `GroupAliveInHandler`, `AdoptsWholeRequests`, `BuffersFit`, `SubmissionEndsSetup` | 9 requests: complete, partial, empty, one too long; any number of them; `httpd_start` may fail | 898 |
| `station` | `GroupAliveForHandler`, `FailAfterAllRetries`, `GivesUpWhenQuiet`, `StationReturns` | five retries, as configured | 205 |
| `boot` | `TypeOK`, `UsableWasGiven`, `GoodConfigIsKept`, `EventuallyRunning`, `ImplementsProvisioning` | two routers, two retries, two power failures, two mistaken submissions | 53607 |
| `boot_faults` | `StoredFits` | all faults, one power failure, one mistake, a name of 32 characters | 3926 |
| `mqtt` | `TypeOK`, `TopicGrowth`, `RepliesNotSwapped`, `ObeysRemoteControl`, `NothingStaysUnderWay`, `UartIsReleased` | eight connections, two commands, two presence changes, one message waiting behind the one that is parsed | 269408 |
| `radar` | `TypeOK`, `ReadNeverBlocks`, `BeliefsComeFromFrames`, `NoticedInStep` | a ring of 24 bytes, a queue of one event, cuts after six bytes, one change of presence, two overflows while events wait | 512845 |
| `lamp` | `TypeOK`, `RefreshIsWhole`, `StripSettles` | three pixels, five configurations, three strengths, three commands, three hours from 21 on, one pause | 248691 |

What they show:

- `AdoptsWholeRequests`: the two buffers are unprotected, but what the main task copies
  is always what whole requests have left there, one after the other. A later request
  whose first field is already copied cannot be half-adopted, because `httpd_stop` waits
  for it. Without that wait TLC shows the torn pair. The property does not say that both
  fields come from one request: after (`attic`, `atticpass`) and then (`home`, no
  password), both in the run, the pair is (`home`, `atticpass`), and the property names it
  as what is adopted. It is one request's when the last one had both fields.
- `GivesUpWhenQuiet`, `FailAfterAllRetries`: the retry counter lives in the event task
  and the decision in the main task; still, when the device gives up there is no
  attempt and no event under way, and it has made exactly `MAXIMUM_RETRY` retries
  since it last had an address.
- `UsableWasGiven`: the name and the password are two writes, and power may fail in
  between, during the blanking and during the new write. A usable pair in NVS is
  nevertheless always one that `wificonfwrite` was given, because the blanking of both precedes
  the writing of both, and because an erased or blank password is not acceptable.
- `GoodConfigIsKept`: every change of a usable stored pair happens after all the
  retries have failed.
- `EventuallyRunning`: all of it together, with finitely many mistakes and failures, up
  to the last start of `app_main`.
- `ImplementsProvisioning`: loop, restarts, power failures and half-done writes look from
  outside like a configuration that is there or not, adopted whole, and not
  given up while connected.
- `ObeysRemoteControl`: the device can subscribe to its own event topic and parse a topic
  that changes under it, and a setting still changes only as a command of the server says,
  in the order of the commands and once for each, because what the UART task puts into the
  buffer is a route of its own whose leaf is in no other list. A change of presence can
  spoil a command or a subscription, not turn it into another command. The order of the
  lists matters: with `lightStrength` before `light`, the switch would set the strength.
- `RepliesNotSwapped`: a reply whose topic is replaced before it is published goes out on
  the presence topic, where the server takes its value (of the light, say) for a report of
  presence; one that is disturbed half-way goes out on a torn topic. Those are the only
  topics besides its own: it is never taken for the answer to another question.
- `NothingStaysUnderWay`: whatever a topic has become while it was parsed, its message is
  looked up or dropped, also when no list has its words.
- `ReadNeverBlocks`: `uart_read_bytes` has no timeout, and the flush takes bytes away;
  still no event is left that announces more bytes than there are, because every flush
  is followed by a reset of the queue before the next event is taken.
- `BeliefsComeFromFrames`: with bytes and events out of step, reads start in the middle
  of frames; the lenient header test still takes nothing for a report that is not
  one, except that a frame cut right before its data reads as "nobody". This
  holds as long as every loss of bytes is told by an event; after one that is not (`torn`)
  the lamp can take a byte of the next frame's header for the presence.
- `NoticedInStep`: losing frames and events whole only delays. What does not
  heal is a chunk of bytes without its event (run `radar_resync`).
- `TopicGrowth`: each connection lengthens the heads by a MAC, and races of the two tasks
  do not add up: at most two paths are behind the head. After n connections that is 53 + 12 n
  characters at the most, 125 after six. The 128 bytes are too few from the seventh connection
  on for a torn topic (137), and from the eighth on for the fifth subscription itself (131),
  which every connection makes. The run goes to eight and reaches these lengths.
- `RefreshIsWhole`, `StripSettles`: a torn configuration or a paused line can be shown,
  for a second; nothing of it lasts.

The bounds. Requests are not counted in `web`. In `boot`, two failures are what it takes
to interrupt both the blanking and the writing of the same pair, and two routers are what
it takes to tell a mixture from a pair; two retries distinguish the first, a middle and
the last. In `mqtt` eight connections go from where the buffer is long enough to where it
never is, two presence changes allow one to be blocked while the buffer holds the other's
topic, and two commands can be exchanged, repeated or overtaken, one of them being parsed
while the other waits. In `radar` the ring holds two frames and a part, so it overflows
with the queue full and not full; one event suffices for one to be taken while another
waits and a third finds no room; a cut after six bytes is the one before the data; frames
have ten bytes each, as those that matter have. Two overflows are a first that starts the
flush and one that falls between flush and reset or into the full queue; they (and any
number while the task waits for an event with unannounced bytes, `Stuffed`, where the
driver must not be stopped by a bound) brings bytes and events apart, and the run then
goes on with them apart. `radar_resync` has a larger ring and cuts after four bytes, for a
counterexample that is a cycle. In `lamp` three pixels are a first, a middle and a last
one; 21 to 24 hours enter the window of 22 to 23, leave it, and enter and stay in the one
that crosses midnight.

Fairness. FreeRTOS runs ready tasks, so each task has weak fairness; there is no fairness
for phones, commands, presence, power or pauses. The driver ends an attempt one way or the
other; an associated station gets an address or loses the link (`StationReturns` needs it:
the wait in `wifi_init_sta` has no timeout of its own). `EventuallyRunning` also assumes
strong fairness of a correct submission, of the access point's acceptance, of DHCP and of
the time server: the user who is asked again and again in the end types the right pair,
and whoever is asked again and again in the end answers. In `radar` a frame that has begun
is sent to its end, and the radar, which reports all the time, again and again gets a
report through in one piece (`Report`); that the task's publish returns is
`UartIsReleased`. In `mqtt` the client reconnects and delivers what it has. In `lamp` the
periodic timer fires again.

### Where code and comments disagree

Each of these runs checks one statement of a comment or the README that the code does
not keep; TLC finds the counterexample.

| Run | Statement | What the code does |
|---|---|---|
| `station_lost_link` | `net_tool.c:179-181`, reconnects after a disconnection while retries are left | the handler is unregistered once connected, so a lost link stays lost |
| `boot_blank_name` | `main_app.c:70`, without a configuration the device provisions itself | power lost between the two blanking writes leaves an empty name beside a good password, which `wificonfcheck` accepts |
| `mqtt_subscribed` | `README.md:36`, the device receives commands | a change of presence during subscribing replaces one of the six topics, unnoticed |
| `radar_resync` | `base_fun.c:129`, the buffer is flushed in order to read more data | bytes that come between `uart_flush_input` and `xQueueReset` stay without their event; every later read is shifted, and reports are not recognised any more |
| `lamp_night` | `event_pro.c:44`, the test decides whether it is night | a window across midnight is never entered |

Seen while reading, and in the model's behaviour, without a run of their own: provisioning
has an error code for a timeout (`net_tool.h:110`) but waits for ever
(`web_server.c:117`); it returns `YM_OK` also when neither field could be taken
(`net_tool.h:112`); a request that lacks a field completes an earlier one, so name and
password can come from two phones (`web_server.c:34-40`); `wificonfwrite` returns `YM_OK`
when `nvs_set_str` fails (`net_tool.h:84-87`); a password of one to six characters is
accepted for writing (`net_tool.c:153`) and rejected at the next boot (`net_tool.c:113`);
a presence report that meets a broken connection or a rewritten topic is lost
(`mqtt_work.c:111`); a reply can be published on the presence topic (`mqtt_work.c:221`,
`RepliesNotSwapped`); the topic buffer overflows at the seventh or eighth connection of a
boot (`fun_tool.c:8`, `TopicGrowth`); a name or password with a space or another character
that a browser encodes is stored encoded (`web_server.c:34`, `FormEncode`); each
reconnection appends the MAC to the topic heads again (`mqtt_work.c:97`), so that from
then on commands no longer reach the lamp; a strength of 0 is refused (`mqtt_work.c:208`);
the switch has no effect in the night window.

## 4. Proofs

All theorems hold for every value of the constants that the modules' named
assumptions allow: any texts and lengths, any requests, any `MAXIMUM_RETRY`, any
number of power failures, any length of the strip, any number of commands and reports,
any number of messages under way, any sizes of ring buffer and event queue, any number of
overflows and any cuts of the radar's frames.

- **Station** (`WifiStationProofs`). `StaInv` strengthens the properties by three facts
  that none of them states: registrations and group follow the main task's place
  (`Registration`), the queue of events has one of five shapes that the driver's state determines
  (`QueueShape`), and without FAIL the retry counter equals the failures since
  the last address (`RetryCount`). `QueueShape` is what makes the count exact: a
  second disconnection cannot be posted before the first is handled. From it follow
  `HandlerHasGroup`, `FailureIsExhaustion` and `FailureIsQuiet`.
- **Provisioning** (`WebSetupProofs`). `WebInv` ties the life of the group to the places
  of both tasks and yields `HandlerGroupAlive` and `CopiesFit`. For
  `ReturnsWholeRequests` it is strengthened by what the buffers hold at each place
  of the handler (`Untorn`): what has been taken of the present request, and otherwise
  exactly `submitted`. `CompleteFormsStayWhole` adds the case that people mean: if every
  form has both fields and they can be taken, the pair is one form's.
- **Boot** (`BootProofs`). `SafeInv` joins the two invariants with what NVS may hold and
  holds under all faults; it yields `TypeCorrect` and `StoreFitsBuffers`.
  `StoredPairIsWhole` and `ConfigIsKept` assume `Faults = {}` and rest on an invariant
  that says for each place of `app_main` which of the two keys is still blank, so
  that no new name ever meets an old password. `BootImplementsProvisioning` maps every
  step to one of `Provisioning` or a stutter; it needs one fact more (`JoinInv`): whoever
  was let in by an access point, or is past `wifi_init_sta`, holds in RAM the pair that
  NVS holds, and it is a router's, so what connects is the stored configuration.
- **Lamp** (`LampProofs`). `LampInv` adds to the property that what the timer task has read
  so far is still in force unless `fresh` is false (`Reading`), and that the line is at
  the pixel whose turn it is, with all earlier pixels done (`Sending`). It yields
  `LampTypeCorrect` and `RefreshLeavesWanted`; `ColourArrives` is the lemma that the
  pulses of any colour give that colour back.
- **MQTT** (`MqttLinkProofs`). `LinkInv` adds that every topic in the buffer, subscribed to or
  under way is `Sound` (no more MACs than connections, mixed of two only when the UART
  task's came first) and what the buffer can hold at each place of the MQTT task
  (`Composed`). From `Sound` and the lengths of the paths follows `TopicsGrowByMacs`, for any
  number of connections, and from it `SixConnectionsFit`, which speaks of the connections made
  so far and assumes nothing of those to come. `LaterConnectionsOverflow` is the other side of
  it: what `Composed` says of the buffer before the strcat of the fifth subscription is enough
  to know that behind it there are 128 characters or more, always from the eighth connection on
  and after a race from the seventh. From `Composed` also follows `RepliesMatch`.
- **Remote control** (`RemoteControlProofs`). `ControlInv` adds to `LinkInv` what the
  refinement turns on: whatever is under way is a command of the server or has the path of a
  report or of the query for presence (`MessagesKnown`), because the lamp is subscribed to
  none of the topics it replies on (`SubscribedApart`) and what a handler leaves in the buffer
  is its own last topic or a report (`BufferWhenUsed`); and while a message is parsed the buffer
  holds its topic or the UART task's report, with the route read from either (`Parsed`). The
  lemmas `Leaves`, `ReportLeaf` and `LookedUp` are about the lookup itself: a leaf of one topic
  is not found under the route of the other. `LinkImplementsRemoteControl` maps each step:
  `ParseLeaf` to obeying or missing, `Disconnected` to missing all, every publish that is
  delivered to sending, the rest to a stutter.
- **Radar** (`RadarUartProofs`). `UartInv` has three parts of its own. `Sized`: outside flush and
  reset the ring holds what the events announce, one after the other (`Fits` has a witness for
  what is left behind each event, since a sum over the queue is not within the prover's reach).
  From it follows `ReadsDoNotBlock`. `Told`: what lies in the ring and is still to be sent
  goes on as the radar's frames do (`Continuous`, `Whole`), or an event that leads to a flush
  comes before the bytes behind the gap are read, unless `torn`. `Heard`: so do the bytes that a
  report is about. `ParseReason` is the lemma about the parser: continuous bytes change the
  presence only for a `Reason`. From these follows `BeliefsHaveReasons`. `ReportsUnderstood` is the
  converse for a read that begins with a report: whatever follows, it is understood.

Only model-checked: the liveness properties `SubmissionEndsSetup`, `StationReturns`,
`EventuallyRunning`, `UartIsReleased`, `NothingStaysUnderWay`, `NoticedInStep` and
`StripSettles`. They need fairness and ENABLED, which are beyond the prover. Every safety
property that a passing run checks is stated by a theorem.

## 5. Not modelled

- The SPI and UART set-up: register values, no behaviour that the properties see.
  `esp8266_spi_*` in `base_fun.c` and `setAllPixelColor` have no caller.
- The echo of what was read to the radar (`base_fun.c:121`), which does not listen.
- The heap: `cJSON_Print` at `mqtt_work.c:110` leaks with every change of presence.
- The characters of topics and payloads: `tmp[20]` at `mqtt_work.c:390` and
  `numToString[5]` at `mqtt_work.c:218` have no counterpart.
- The values of replies, and the fields of `light_config` that nothing reads.
- `ws2812.c_disable`, `uart_fun.c.bak`, the committed build output: not compiled.
- The page's HTML: what a browser sends for it is an input.
- The SDK (event loop, HTTP server, esp-mqtt, NVS) is modelled only as far as this
  code relies on it; every such definition is marked external.

## 6. Plan

Done: the core, in the order `WifiConfig`, `WebSetup`, `WifiStation`, `Boot`, `MqttLink`,
`Lamp`; then the radar (`RadarFrame`, `RadarUart`), the lookup of topics, the end of `app_main`,
the strip's encoding, and the two abstract specifications. All components have proofs, and both
refinements are proved. Next, in this order:

1. The safety core of `NoticedInStep`: as long as every byte has its event, a read begins where
   the radar's bytes were cut, so with `ReportsUnderstood` a report in a piece of its own is
   always understood.
2. The order of replies and reports that the server sees (`base_fun.c:52`), which needs values
   in `MqttLink`'s replies.
