------------------------------ MODULE MqttLink ------------------------------
(***************************************************************************)
(* The MQTT side of the lamp (mqtt_work.c) and the one other task that     *)
(* publishes: the UART task, which reports a change of presence            *)
(* (mqtt_man_exist_change_pro).  Both build their topics in the one buffer *)
(* mqtt_topic_temp.  The UART task has the higher priority: it can stop    *)
(* the MQTT task between any two of its steps, and is itself only stopped  *)
(* by the client's lock, which the MQTT task holds while a handler runs.   *)
(*                                                                         *)
(* External: the esp-mqtt client (its lock, its clean sessions, QoS 0), the *)
(* broker, and the server that sends commands.                             *)
(***************************************************************************)
EXTENDS TopicRoute

CONSTANTS
    MaxConnects,    \* bound: connections of the client, the first included
    MaxCommands,    \* bound: messages of the server
    MaxReports,     \* bound: presence changes seen by the radar
    MaxInbound      \* bound: messages under way to the device

ASSUME LinkAssumption ==
    /\ MaxConnects \in Nat
    /\ MaxCommands \in Nat
    /\ MaxReports \in Nat
    /\ MaxInbound \in Nat

\* The paths of the topics, by their two levels.
DoLight == <<"do", "light">>
DoLightStrength == <<"do", "lightStrength">>
ConfigLight == <<"config", "light">>
InfoLight == <<"info", "light">>
InfoLightStrength == <<"info", "lightStrength">>
InfoExist == <<"info", "exist">>
ExistChange == <<"event", "existChange">>

\* The topics of mqtt_connect_action, in its order.
SubPaths == <<DoLight, DoLightStrength, ConfigLight, InfoLight, InfoLightStrength, InfoExist>>

CommandPaths == {SubPaths[i] : i \in DOMAIN SubPaths}
Paths == CommandPaths \cup {ExistChange}
NoPath == <<>>

\* strlen() of what strcat appends.
PathLen(path) ==
    CASE path = NoPath -> 0 [] path = DoLight -> 9 [] path = DoLightStrength -> 17
      [] path = ConfigLight -> 13 [] path = InfoLight -> 11
      [] path = InfoLightStrength -> 19 [] path = InfoExist -> 11
      [] path = ExistChange -> 18

\* The contents of a topic buffer: "/dev/aiot/<side>/el1/", the MAC as often as
\* topic_maker has appended it, a path, and what else was appended to that.
Topics == [side : {"s", "d"}, macs : Nat, path : Paths \cup {NoPath}, tail : Paths \cup {NoPath}]

TopicHead(side, n) == [side |-> side, macs |-> n, path |-> NoPath, tail |-> NoPath]
Topic(side, n, path) == [TopicHead(side, n) EXCEPT !.path = path]
StrCat(topic, path) == IF topic.path = NoPath THEN [topic EXCEPT !.path = path]
                                              ELSE [topic EXCEPT !.tail = path]

LenOf(topic) == 16 + 12 * topic.macs + PathLen(topic.path) + PathLen(topic.tail)

\* The level where the route is read, and all that follows it.
RouteWord(topic) == topic.path[1]
LeafWord(topic) == IF topic.tail = NoPath THEN topic.path[2] ELSE "torn"

\* What the server sends: a switch position, a strength, settings, a query; and
\* what the device may meet on its own topics, its JSON report of presence.
Payloads(path) ==
    CASE path = DoLight -> {"0", "1"}
      [] path = DoLightStrength -> {"10"}
      [] path = ConfigLight -> {"cfg"}
      [] OTHER -> {"?"}

ExistJson(e) == IF e = 1 THEN "exist1" ELSE "exist0"

Message(topic, payload) == [topic |-> topic, payload |-> payload]

\* atoi stops at the first character of a JSON text.
Atoi(payload) == CASE payload = "10" -> 10 [] payload = "1" -> 1 [] OTHER -> 0

\* data[0], as a digit.
FirstDigit(payload) ==
    CASE payload \in {"1", "10"} -> 1 [] payload = "0" -> 0 [] OTHER -> 9

VARIABLES
    client,         \* has mqtt_app_start run?
    link,           \* the connection: "down", "up", or "broken" and not noticed
    macs,           \* how often the MAC is in both topic heads
    topicTemp,      \* mqtt_topic_temp
    subs,           \* the broker's subscriptions of this session
    inbound,        \* published to a subscribed topic, not yet delivered
    task,           \* the MQTT task: where it is and what it works on
    uart,           \* the UART task: "idle", or "blocked" in a publish
    man_exist, light_onoff, lightStrength, light_config,
    connects, commands, reports

vars == <<client, link, macs, topicTemp, subs, inbound, task, uart, man_exist,
          light_onoff, lightStrength, light_config, connects, commands, reports>>

settings == <<light_onoff, lightStrength, light_config>>
counters == <<connects, commands, reports>>

NoMessage == Message(TopicHead("s", 0), "none")
FreeTask == [at |-> "free", mode |-> "none", work |-> <<>>, msg |-> NoMessage, route |-> NoCode]

Init ==
    /\ client = FALSE
    /\ link = "down"
    /\ macs = 0
    /\ topicTemp = TopicHead("s", 0)
    /\ subs = {}
    /\ inbound = <<>>
    /\ task = FreeTask
    /\ uart = [at |-> "idle", exist |-> 0]
    /\ man_exist = 0
    /\ light_onoff = 0
    /\ lightStrength = 0
    /\ light_config = "none"
    /\ connects = 0
    /\ commands = 0
    /\ reports = 0

-----------------------------------------------------------------------------
(* The esp-mqtt client and the broker, as used.                            *)

\* Nobody else is inside the client; a waiting UART task is served first.
LockFree == task.at = "free"
MqttMayRun == LockFree /\ uart.at = "idle"

\* QoS 0: a message is lost unless the connection works.  The broker hands it to
\* the device when the topic is one of its subscriptions.
Deliver(message) ==
    \/ inbound' = inbound
    \/ /\ message.topic \in subs
       /\ Len(inbound) < MaxInbound
       /\ inbound' = Append(inbound, message)

Publish(topic, payload) ==
    IF client /\ link = "up" THEN Deliver(Message(topic, payload)) ELSE inbound' = inbound

MqttAppStart ==
    /\ ~client
    /\ client' = TRUE
    /\ UNCHANGED <<link, macs, topicTemp, subs, inbound, task, uart, man_exist,
                   settings, counters>>

LinkBreaks ==
    /\ link = "up"
    /\ link' = "broken"
    /\ UNCHANGED <<client, macs, topicTemp, subs, inbound, task, uart, man_exist,
                   settings, counters>>

\* MQTT_EVENT_DISCONNECTED: the handler logs it.  The session is clean: the
\* broker forgets the subscriptions.
Disconnected ==
    /\ MqttMayRun
    /\ link = "broken"
    /\ link' = "down"
    /\ subs' = {}
    /\ inbound' = <<>>
    /\ UNCHANGED <<client, macs, topicTemp, task, uart, man_exist, settings, counters>>

\* The server publishes on the device's topic as the protocol has it.
Command(path, payload) ==
    /\ commands < MaxCommands
    /\ commands' = commands + 1
    /\ link = "up"
    /\ Deliver(Message(Topic("s", 1, path), payload))
    /\ UNCHANGED <<client, link, macs, topicTemp, subs, task, uart, man_exist,
                   settings, connects, reports>>

-----------------------------------------------------------------------------
(* The MQTT task.  Each compose-and-use of a topic is three steps: strcpy   *)
(* and strcat of stradd_copy, then the call that reads the buffer.         *)

\* Wrong variant: the MAC is also appended when the client is started.
ConnectedAppendsTwice ==
    /\ MqttMayRun
    /\ client
    /\ link = "down"
    /\ connects < MaxConnects
    /\ connects' = connects + 1
    /\ link' = "up"
    /\ macs' = IF connects = 0 THEN 2 ELSE macs + 1
    /\ task' = [FreeTask EXCEPT !.at = "strcpy", !.mode = "subscribe", !.work = SubPaths]
    /\ UNCHANGED <<client, topicTemp, subs, inbound, uart, man_exist, settings, commands, reports>>

\* MQTT_EVENT_CONNECTED, up to the first subscription: topic_maker appends the
\* MAC to both heads on every connection.
Connected ==
    /\ MqttMayRun
    /\ client
    /\ link = "down"
    /\ connects < MaxConnects
    /\ connects' = connects + 1
    /\ link' = "up"
    /\ macs' = macs + 1
    /\ task' = [FreeTask EXCEPT !.at = "strcpy", !.mode = "subscribe", !.work = SubPaths]
    /\ UNCHANGED <<client, topicTemp, subs, inbound, uart, man_exist, settings, commands, reports>>

\* A subscription is on the server's side, a reply on the device's.
SideOf(mode) == IF mode = "subscribe" THEN "s" ELSE "d"

\* Wrong variant: a head that is already there is kept.
CopyHeadOnce ==
    /\ task.at = "strcpy"
    /\ task' = [task EXCEPT !.at = "strcat"]
    /\ topicTemp' = IF topicTemp.side = SideOf(task.mode) THEN topicTemp
                    ELSE TopicHead(SideOf(task.mode), macs)
    /\ UNCHANGED <<client, link, macs, subs, inbound, uart, man_exist, settings, counters>>

\* stradd_copy, first half.
CopyHead ==
    /\ task.at = "strcpy"
    /\ task' = [task EXCEPT !.at = "strcat"]
    /\ topicTemp' = TopicHead(SideOf(task.mode), macs)
    /\ UNCHANGED <<client, link, macs, subs, inbound, uart, man_exist, settings, counters>>

\* stradd_copy, second half.
CatPath ==
    /\ task.at = "strcat"
    /\ task' = [task EXCEPT !.at = "use"]
    /\ topicTemp' = StrCat(topicTemp, Head(task.work))
    /\ UNCHANGED <<client, link, macs, subs, inbound, uart, man_exist, settings, counters>>

\* On to the next topic of the handler, or out of it.
NextTopic ==
    task' = IF Len(task.work) = 1 THEN FreeTask
            ELSE [task EXCEPT !.at = "strcpy", !.work = Tail(task.work)]

\* Wrong variant: the subscription is repeated until it goes out.
SubscribeUntilSent ==
    /\ task.at = "use"
    /\ task.mode = "subscribe"
    /\ link = "up"
    /\ NextTopic
    /\ subs' = subs \cup {topicTemp}
    /\ UNCHANGED <<client, link, macs, topicTemp, inbound, uart, man_exist, settings, counters>>

\* What esp_mqtt_client_subscribe returns is only logged.
Subscribe ==
    /\ task.at = "use"
    /\ task.mode = "subscribe"
    /\ NextTopic
    /\ subs' = IF link = "up" THEN subs \cup {topicTemp} ELSE subs
    /\ UNCHANGED <<client, link, macs, topicTemp, inbound, uart, man_exist, settings, counters>>

\* The value itself, what __itoa made of it, is left out.
Reply ==
    /\ task.at = "use"
    /\ task.mode = "reply"
    /\ NextTopic
    /\ Publish(topicTemp, "value")
    /\ UNCHANGED <<client, link, macs, topicTemp, subs, uart, man_exist, settings,
                   counters>>

\* MQTT_EVENT_DATA: the topic is copied into the shared buffer.
StoreTopic ==
    /\ MqttMayRun
    /\ link = "up"
    /\ inbound # <<>>
    /\ inbound' = Tail(inbound)
    /\ topicTemp' = Head(inbound).topic
    /\ task' = [FreeTask EXCEPT !.at = "route", !.msg = Head(inbound)]
    /\ UNCHANGED <<client, link, macs, subs, uart, man_exist, settings, counters>>

\* mqtt_topic_res reads the buffer from left to right, the route first.
ParseRoute ==
    /\ task.at = "route"
    /\ task' = [task EXCEPT !.at = "leaf", !.route = topic_get_head(RouteWord(topicTemp))]
    /\ UNCHANGED <<client, link, macs, topicTemp, subs, inbound, uart, man_exist,
                   settings, counters>>

\* Without a break, the answer to a query goes on to the later ones.
RepliesTo(code) ==
    CASE code = ROUTE_info_1_light -> <<InfoLight, InfoLightStrength, InfoExist>>
      [] code = ROUTE_info_1_lightStrength -> <<InfoLightStrength, InfoExist>>
      [] code = ROUTE_info_1_exist -> <<InfoExist>>
      [] OTHER -> <<>>

\* The leaf's code is known and mqtt_data_action acts on it.
Act(code) ==
    /\ light_onoff' = IF code = ROUTE_do_1_light /\ FirstDigit(task.msg.payload) \in {0, 1}
                      THEN FirstDigit(task.msg.payload) ELSE light_onoff
    /\ lightStrength' = IF code = ROUTE_do_1_lightStrength /\ Atoi(task.msg.payload) # 0
                        THEN Atoi(task.msg.payload) ELSE lightStrength
    /\ light_config' = IF code = ROUTE_config_1_light /\ task.msg.payload = "cfg"
                       THEN task.msg.payload ELSE light_config
    /\ task' = IF RepliesTo(code) = <<>> THEN FreeTask
               ELSE [task EXCEPT !.at = "strcpy", !.mode = "reply", !.work = RepliesTo(code)]

\* The leaf is looked up among those of the route that was read before: the
\* topic may have been replaced in between.
LeafCode == topic_get_route(LeafWord(topicTemp), task.route)

\* Wrong variant: a leaf that is not found counts as the last one of the route.
ParseLeafLastByDefault ==
    /\ task.at = "leaf"
    /\ Act(IF LeafCode = NoCode /\ task.route = ROUTE_do THEN ROUTE_do_1_lightStrength
           ELSE LeafCode)
    /\ UNCHANGED <<client, link, macs, topicTemp, subs, inbound, uart, man_exist,
                   counters>>

\* Wrong variant: the handler waits for a topic that it knows.
ParseLeafUntilFound ==
    /\ task.at = "leaf"
    /\ LeafCode # NoCode
    /\ Act(LeafCode)
    /\ UNCHANGED <<client, link, macs, topicTemp, subs, inbound, uart, man_exist,
                   counters>>

ParseLeaf ==
    /\ task.at = "leaf"
    /\ Act(LeafCode)
    /\ UNCHANGED <<client, link, macs, topicTemp, subs, inbound, uart, man_exist,
                   counters>>

-----------------------------------------------------------------------------
(* The UART task: radar_data_process calls mqtt_man_exist_change_pro, then *)
(* assigns man_exist.                                                      *)

\* The topic is composed before the client is entered.  With the lock free the
\* whole call is one step of this task.
ReportChange(e) ==
    /\ uart.at = "idle"
    /\ e # man_exist
    /\ reports < MaxReports
    /\ reports' = reports + 1
    /\ topicTemp' = Topic("d", macs, ExistChange)
    /\ IF client /\ ~LockFree
       THEN /\ uart' = [at |-> "blocked", exist |-> e]
            /\ UNCHANGED <<man_exist, inbound>>
       ELSE /\ Publish(topicTemp', ExistJson(e))
            /\ man_exist' = e
            /\ uart' = uart
    /\ UNCHANGED <<client, link, macs, subs, task, settings, connects, commands>>

\* The lock is given to the waiting task; the buffer is read now.
ReportUnblocked ==
    /\ uart.at = "blocked"
    /\ LockFree
    /\ Publish(topicTemp, ExistJson(uart.exist))
    /\ man_exist' = uart.exist
    /\ uart' = [at |-> "idle", exist |-> 0]
    /\ UNCHANGED <<client, link, macs, topicTemp, subs, task, settings, counters>>

-----------------------------------------------------------------------------
\* Nothing to read, or no connection yet.
Poll == MqttMayRun /\ UNCHANGED vars

HandlerStep == CopyHead \/ CatPath \/ Subscribe \/ Reply \/ ParseRoute \/ ParseLeaf

Next ==
    \/ MqttAppStart
    \/ Connected \/ Disconnected \/ StoreTopic
    \/ HandlerStep
    \/ \E e \in {0, 1} : ReportChange(e)
    \/ ReportUnblocked
    \/ LinkBreaks
    \/ Poll
    \/ \E path \in CommandPaths : \E payload \in Payloads(path) : Command(path, payload)

Spec == Init /\ [][Next]_vars

\* The tasks run when they can; the client reconnects; a message that has been
\* accepted is delivered.
FairSpec ==
    /\ Spec
    /\ WF_vars(MqttAppStart)
    /\ WF_vars(Connected)
    /\ WF_vars(Disconnected)
    /\ WF_vars(StoreTopic)
    /\ WF_vars(HandlerStep)
    /\ WF_vars(ReportUnblocked)

-----------------------------------------------------------------------------
(* Properties.                                                             *)

TypeOK ==
    /\ client \in BOOLEAN
    /\ link \in {"down", "up", "broken"}
    /\ macs \in 0..MaxConnects
    /\ topicTemp \in Topics
    /\ subs \subseteq Topics
    /\ Len(inbound) <= MaxInbound
    /\ task.at \in {"free", "strcpy", "strcat", "use", "route", "leaf"}
    /\ uart \in [at : {"idle", "blocked"}, exist : {0, 1}]
    /\ man_exist \in {0, 1}
    /\ light_onoff \in {0, 1}
    /\ lightStrength \in Nat

\* The server's messages.
Commands == UNION {{Message(Topic("s", 1, path), payload) : payload \in Payloads(path)} :
                       path \in CommandPaths}

Settings == [onoff |-> light_onoff, strength |-> lightStrength, config |-> light_config]
Untouched == [onoff |-> 0, strength |-> 0, config |-> "none"]

Obeyed(before, command) ==
    CASE command.topic.path = DoLight -> [before EXCEPT !.onoff = Atoi(command.payload)]
      [] command.topic.path = DoLightStrength -> [before EXCEPT !.strength = Atoi(command.payload)]
      [] command.topic.path = ConfigLight -> [before EXCEPT !.config = command.payload]
      [] OTHER -> before

\* Under way: not delivered, or delivered and not yet looked up.
UnderWay == (IF task.at \in {"route", "leaf"} THEN <<task.msg>> ELSE <<>>) \o inbound

Remote == INSTANCE RemoteControl WITH settings <- Settings, underWay <- UnderWay

\* The link implements RemoteControl: although the UART task rewrites the topic
\* while mqtt_topic_res parses it, and although the lamp's own messages can come
\* back to it when a topic was torn, a setting changes only by the server's command
\* for it, to its value, in order and at most once.
ObeysRemoteControl == Remote!Spec

\* Whatever the topic has become while it was parsed, and whether the connection
\* lasts or not: no message stays under way.
NothingStaysUnderWay == Remote!Fairness

\* What the UART task puts into the buffer.
PresenceTopic == Topic("d", macs, ExistChange)

\* Where the value of a reply goes when the UART task's report gets in between: on
\* the presence topic, as if it were a report, or on one with its own path appended
\* to that, which is no topic of the protocol.  It never goes out as the answer to
\* another question, nor anywhere else.
RepliesNotSwapped ==
    [][Reply => topicTemp \in {Topic("d", macs, Head(task.work)),
                               PresenceTopic,
                               StrCat(PresenceTopic, Head(task.work))}]_vars

\* strlen() of the longest topic after n connections: that of a report, torn, with
\* the longest path of the server behind it.  It is 125 after six and 137 after
\* seven; the longest that is not torn is 119 after seven and 131 after eight.
LongestTopic(n) == 16 + 12 * n + PathLen(ExistChange) + PathLen(InfoLightStrength)

\* mqtt_topic_temp has 128 bytes and nothing bounds what strcpy and strcat put
\* there: it grows by one MAC with each connection, and a race of the two tasks
\* adds a second path, never a third.  So the buffer is large enough up to the sixth
\* connection of a boot, and too short for the fifth subscription of the eighth.
\* (From there on the real program writes into what lies behind it.)
TopicGrowth == LenOf(topicTemp) <= LongestTopic(connects)

\* The UART task does not stay blocked in a publish, whatever the link does, so
\* radar data is not left in the driver's ring buffer.
UartIsReleased == uart.at = "blocked" ~> uart.at = "idle"

(* What the comments and README promise and the code does not keep.        *)

\* README.md: the device receives commands.  Out of the handler of the
\* connection, it is subscribed to the server's six topics.
SubscribedWhenConnected ==
    (task.at = "free" /\ link = "up") =>
        \A path \in CommandPaths : Topic("s", 1, path) \in subs
=============================================================================
