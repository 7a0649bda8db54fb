------------------------ MODULE RemoteControlProofs -------------------------
(* MqttLink implements RemoteControl: the proof, step by step, for any      *)
(* numbers of connections, commands, reports and messages under way.       *)
EXTENDS MqttLinkProofs

SettingPaths == {DoLight, DoLightStrength, ConfigLight}
OwnPaths == {InfoExist, ExistChange}

\* A message of the server, or one of the lamp's own that has come back to it:
\* those are on a topic that asks for nothing to be set.
Known(message) == message \in Commands \/ message.topic.path \in OwnPaths

\* What is under way is known.
MessagesKnown ==
    /\ \A i \in 1..Len(inbound) : Known(inbound[i])
    /\ task.at \in {"route", "leaf"} => Known(task.msg)

\* The lamp is subscribed to none of the topics on which it replies.
SubscribedApart == \A topic \in subs : topic.side = "s" \/ topic.path = ExistChange

\* The topic in the buffer when it is used, by the MQTT task after composing it and
\* by the UART task when the lock is free again: each handler ends with InfoExist.
BufferWhenUsed ==
    /\ task.at \in {"strcpy", "strcat", "use"} => task.work[Len(task.work)] = InfoExist
    /\ task.at = "use" =>
          \/ topicTemp = Topic(SideOf(task.mode), macs, Head(task.work))
          \/ topicTemp.path = ExistChange
    /\ task.at = "free" /\ uart.at = "blocked" => topicTemp.path \in OwnPaths
    /\ task.at \in {"route", "leaf"} /\ uart.at = "blocked" => topicTemp = PresenceTopic

\* While a topic is parsed, the buffer holds it or the report that replaced it, and
\* the route was read from one of the two.
RouteOf(topic) == topic_get_head(RouteWord(topic))

Parsed ==
    /\ task.at = "route" => topicTemp \in {task.msg.topic, PresenceTopic}
    /\ task.at = "leaf" =>
          \/ topicTemp = task.msg.topic /\ task.route = RouteOf(task.msg.topic)
          \/ topicTemp = PresenceTopic /\ task.route \in {RouteOf(task.msg.topic), ROUTE_event}

ControlInv ==
    LinkInv /\ MessagesKnown /\ SubscribedApart /\ BufferWhenUsed /\ Parsed

-----------------------------------------------------------------------------
(* What topics ask for.                                                    *)

\* A command: its topic, its path, its text.
LEMMA CommandShape ==
  ASSUME NEW message \in Commands
  PROVE  /\ message.topic.path \in CommandPaths /\ message.topic.tail = NoPath
         /\ message.topic.path = DoLight => message.payload \in {"0", "1"}
         /\ message.topic.path = DoLightStrength => message.payload = "10"
         /\ message.topic.path = ConfigLight => message.payload = "cfg"
<1>0. PICK path \in CommandPaths :
          \E payload \in Payloads(path) : message = Message(Topic("s", 1, path), payload)
  BY DEF Commands
<1>1. PICK payload \in Payloads(path) : message = Message(Topic("s", 1, path), payload)
  BY <1>0
<1>2. /\ message.topic.path = path /\ message.topic.tail = NoPath /\ message.payload = payload
  BY <1>1, TopicMade DEF Message, Paths
<1>3. path = DoLight => payload \in {"0", "1"}
  BY <1>1, PathsDistinct DEF Payloads
<1>4. path = DoLightStrength => payload = "10"
  BY <1>1, PathsDistinct DEF Payloads
<1>5. path = ConfigLight => payload = "cfg"
  BY <1>1, PathsDistinct DEF Payloads
<1>6. QED
  BY <1>2, <1>3, <1>4, <1>5

\* The route of each path.
LEMMA Routes ==
  /\ topic_get_head("do") = ROUTE_do /\ topic_get_head("config") = ROUTE_config
  /\ topic_get_head("info") = ROUTE_info /\ topic_get_head("event") = ROUTE_event
BY DEF topic_get_head, Place, SelectInSeq, PartOf, ROUTE_LIST, NoCode, ROUTE, Min,
       ROUTE_do, ROUTE_config, ROUTE_info, ROUTE_event

\* The code of each path, found with the route that is its own.
LEMMA Leaves ==
  /\ topic_get_route("light", ROUTE_do) = ROUTE_do_1_light
  /\ topic_get_route("lightStrength", ROUTE_do) = ROUTE_do_1_lightStrength
  /\ topic_get_route("light", ROUTE_config) = ROUTE_config_1_light
  /\ topic_get_route("light", ROUTE_info) = ROUTE_info_1_light
  /\ topic_get_route("lightStrength", ROUTE_info) = ROUTE_info_1_lightStrength
  /\ topic_get_route("exist", ROUTE_info) = ROUTE_info_1_exist
BY DEF topic_get_route, Place, SelectInSeq, PartOf, LeafList, NoCode, Min,
       ROUTE_do, ROUTE_config, ROUTE_info, ROUTE_event, ROUTE_do_1_light,
       ROUTE_do_1_lightStrength, ROUTE_config_1_light, ROUTE_info_1_light,
       ROUTE_info_1_lightStrength, ROUTE_info_1_exist

\* The codes that set something.
SettingCodes == {ROUTE_do_1_light, ROUTE_do_1_lightStrength, ROUTE_config_1_light}

\* A report's leaf is none of any other route's, and the leaf of a torn topic is
\* none at all.
LEMMA ReportLeaf ==
  ASSUME NEW word \in {"existChange", "torn"},
         NEW route \in {ROUTE_do, ROUTE_config, ROUTE_info, ROUTE_event}
  PROVE  topic_get_route(word, route) \notin SettingCodes
<1> USE DEF topic_get_route, Place, SelectInSeq, PartOf, LeafList, NoCode, Min, SettingCodes,
            ROUTE_do, ROUTE_config, ROUTE_info, ROUTE_event, ROUTE_do_1_light,
            ROUTE_do_1_lightStrength, ROUTE_config_1_light
<1>1. CASE route = ROUTE_do
  BY <1>1
<1>2. CASE route = ROUTE_config
  BY <1>2
<1>3. CASE route = ROUTE_info
  BY <1>3
<1>4. CASE route = ROUTE_event
  BY <1>4
<1>5. QED
  BY <1>1, <1>2, <1>3, <1>4

\* What a known message asks for.
CodeOf(path) ==
    CASE path = DoLight -> ROUTE_do_1_light
      [] path = DoLightStrength -> ROUTE_do_1_lightStrength
      [] path = ConfigLight -> ROUTE_config_1_light
      [] path = InfoLight -> ROUTE_info_1_light
      [] path = InfoLightStrength -> ROUTE_info_1_lightStrength
      [] path = InfoExist -> ROUTE_info_1_exist

\* The code of a path is that of its two levels.
LEMMA CodeFound ==
  ASSUME NEW path \in CommandPaths
  PROVE  /\ topic_get_head(path[1]) \in {ROUTE_do, ROUTE_config, ROUTE_info}
         /\ topic_get_route(path[2], topic_get_head(path[1])) = CodeOf(path)
<1>1. CASE path = DoLight
  BY <1>1, Routes, Leaves, PathsDistinct DEF CodeOf, DoLight
<1>2. CASE path = DoLightStrength
  <2>1. path[1] = "do" /\ path[2] = "lightStrength"
    BY <1>2 DEF DoLightStrength
  <2>2. CodeOf(path) = ROUTE_do_1_lightStrength
    BY <1>2, PathsDistinct DEF CodeOf
  <2>3. QED
    BY <2>1, <2>2, Routes, Leaves
<1>3. CASE path = ConfigLight
  <2>1. path[1] = "config" /\ path[2] = "light"
    BY <1>3 DEF ConfigLight
  <2>2. CodeOf(path) = ROUTE_config_1_light
    BY <1>3, PathsDistinct DEF CodeOf
  <2>3. QED
    BY <2>1, <2>2, Routes, Leaves
<1>4. CASE path = InfoLight
  <2>1. path[1] = "info" /\ path[2] = "light"
    BY <1>4 DEF InfoLight
  <2>2. CodeOf(path) = ROUTE_info_1_light
    BY <1>4, PathsDistinct DEF CodeOf
  <2>3. QED
    BY <2>1, <2>2, Routes, Leaves
<1>5. CASE path = InfoLightStrength
  <2>1. path[1] = "info" /\ path[2] = "lightStrength"
    BY <1>5 DEF InfoLightStrength
  <2>2. CodeOf(path) = ROUTE_info_1_lightStrength
    BY <1>5, PathsDistinct DEF CodeOf
  <2>3. QED
    BY <2>1, <2>2, Routes, Leaves
<1>6. CASE path = InfoExist
  <2>1. path[1] = "info" /\ path[2] = "exist"
    BY <1>6 DEF InfoExist
  <2>2. CodeOf(path) = ROUTE_info_1_exist
    BY <1>6, PathsDistinct DEF CodeOf
  <2>3. QED
    BY <2>1, <2>2, Routes, Leaves
<1>7. QED
  BY <1>1, <1>2, <1>3, <1>4, <1>5, <1>6, PathsKnown

\* Only the three paths of settings have a code that sets something.
LEMMA CodesOfSettings ==
  ASSUME NEW path \in CommandPaths
  PROVE  CodeOf(path) \in SettingCodes <=> path \in SettingPaths
<1> USE PathsDistinct DEF CodeOf, SettingCodes, SettingPaths, ROUTE_do_1_light,
        ROUTE_do_1_lightStrength, ROUTE_config_1_light, ROUTE_info_1_light,
        ROUTE_info_1_lightStrength, ROUTE_info_1_exist
<1>1. path \in SettingPaths => CodeOf(path) \in SettingCodes
  OBVIOUS
<1>2. CodeOf(InfoLight) \notin SettingCodes
  OBVIOUS
<1>3. CodeOf(InfoLightStrength) \notin SettingCodes
  OBVIOUS
<1>4. CodeOf(InfoExist) \notin SettingCodes
  OBVIOUS
<1>5. QED
  BY <1>1, <1>2, <1>3, <1>4, PathsKnown DEF SettingPaths

\* What the two readings of the buffer make of it: the code of the message's own
\* topic, or one that sets nothing.
LEMMA LookedUp ==
  ASSUME ControlInv, task.at = "leaf"
  PROVE  \/ task.msg.topic.path \in CommandPaths /\ LeafCode = CodeOf(task.msg.topic.path)
         \/ LeafCode \notin SettingCodes
<1> DEFINE topic == task.msg.topic
<1>1. \/ topicTemp = topic /\ task.route = RouteOf(topic)
      \/ topicTemp = PresenceTopic /\ task.route \in {RouteOf(topic), ROUTE_event}
  BY DEF ControlInv, Parsed
<1>2. Known(task.msg)
  BY DEF ControlInv, MessagesKnown
<1>3. topic.path \in CommandPaths \/ topic.path = ExistChange
  BY <1>2, CommandShape, PathsKnown DEF Known, OwnPaths
<1>4. RouteOf(topic) \in {ROUTE_do, ROUTE_config, ROUTE_info, ROUTE_event}
      /\ (topic.path = ExistChange => RouteOf(topic) = ROUTE_event)
  <2>1. CASE topic.path \in CommandPaths
    BY <2>1, CodeFound, PathsKnown DEF RouteOf, RouteWord
  <2>2. CASE topic.path = ExistChange
    <3>1. RouteWord(topic) = "event"
      BY <2>2 DEF RouteWord, ExistChange
    <3>2. QED
      BY <3>1, Routes DEF RouteOf
  <2>3. QED
    BY <1>3, <2>1, <2>2
<1>5. CASE topicTemp = PresenceTopic
  <2>1. topicTemp.path = ExistChange /\ topicTemp.tail = NoPath
    BY <1>5, TopicMade, LinkAssumption DEF PresenceTopic, Paths, ControlInv, LinkInv, TypeOK
  <2>2. LeafWord(topicTemp) = "existChange"
    BY <2>1 DEF LeafWord, ExistChange
  <2>3. task.route \in {ROUTE_do, ROUTE_config, ROUTE_info, ROUTE_event}
    BY <1>1, <1>4, <1>5
  <2>4. QED
    BY <2>2, <2>3, ReportLeaf DEF LeafCode
<1>6. CASE topicTemp = topic /\ task.route = RouteOf(topic)
  <2>1. CASE topic.tail # NoPath
    BY <1>4, <1>6, <2>1, ReportLeaf DEF LeafCode, LeafWord
  <2>2. CASE topic.tail = NoPath /\ topic.path = ExistChange
    <3>1. LeafWord(topicTemp) = "existChange"
      BY <1>6, <2>2 DEF LeafWord, ExistChange
    <3>2. QED
      BY <1>4, <1>6, <3>1, ReportLeaf DEF LeafCode
  <2>3. CASE topic.tail = NoPath /\ topic.path \in CommandPaths
    <3>1. LeafWord(topicTemp) = topic.path[2] /\ task.route = topic_get_head(topic.path[1])
      BY <1>6, <2>3 DEF LeafWord, RouteOf, RouteWord
    <3>2. QED
      BY <2>3, <3>1, CodeFound DEF LeafCode
  <2>4. QED
    BY <1>3, <2>1, <2>2, <2>3
<1>7. QED
  BY <1>1, <1>5, <1>6

\* What mqtt_data_action does when the topic has been looked up is what the message
\* commands, or nothing.
LEMMA ActObeys ==
  ASSUME ControlInv, ParseLeaf
  PROVE  \/ task.msg \in Commands /\ Settings' = Obeyed(Settings, task.msg)
         \/ Settings' = Settings
<1> DEFINE path == task.msg.topic.path
           payload == task.msg.payload
<1>1. task.at = "leaf" /\ Act(LeafCode)
  BY DEF ParseLeaf
<1>2. CASE LeafCode \notin SettingCodes
  BY <1>1, <1>2 DEF Act, SettingCodes, Settings
<1>3. CASE LeafCode \in SettingCodes
  <2>1. path \in CommandPaths /\ LeafCode = CodeOf(path)
    BY <1>1, <1>3, LookedUp
  <2>2. path \in SettingPaths
    BY <1>3, <2>1, CodesOfSettings
  <2>3. task.msg \in Commands
    <3>1. path \notin OwnPaths
      BY <2>2, PathsDistinct DEF SettingPaths, OwnPaths
    <3>2. QED
      BY <1>1, <3>1 DEF ControlInv, MessagesKnown, Known
  <2>4. CASE path = DoLight
    <3>1. LeafCode = ROUTE_do_1_light
      BY <2>1, <2>4, PathsDistinct DEF CodeOf
    <3>2. payload \in {"0", "1"}
      BY <2>3, <2>4, CommandShape
    <3>3. FirstDigit(payload) \in {0, 1} /\ FirstDigit(payload) = Atoi(payload)
      BY <3>2 DEF FirstDigit, Atoi
    <3>4. /\ light_onoff' = Atoi(payload)
          /\ lightStrength' = lightStrength /\ light_config' = light_config
      BY <1>1, <3>1, <3>3 DEF Act, ROUTE_do_1_light, ROUTE_do_1_lightStrength, ROUTE_config_1_light
    <3>5. Obeyed(Settings, task.msg) = [Settings EXCEPT !.onoff = Atoi(payload)]
      BY <2>4, PathsDistinct DEF Obeyed
    <3>6. QED
      BY <2>3, <3>4, <3>5 DEF Settings
  <2>5. CASE path = DoLightStrength
    <3>1. LeafCode = ROUTE_do_1_lightStrength
      BY <2>1, <2>5, PathsDistinct DEF CodeOf
    <3>2. payload = "10"
      BY <2>3, <2>5, CommandShape
    <3>3. Atoi(payload) = 10
      BY <3>2 DEF Atoi
    <3>4. /\ lightStrength' = Atoi(payload)
          /\ light_onoff' = light_onoff /\ light_config' = light_config
      BY <1>1, <3>1, <3>3 DEF Act, ROUTE_do_1_light, ROUTE_do_1_lightStrength, ROUTE_config_1_light
    <3>5. Obeyed(Settings, task.msg) = [Settings EXCEPT !.strength = Atoi(payload)]
      BY <2>5, PathsDistinct DEF Obeyed
    <3>6. QED
      BY <2>3, <3>4, <3>5 DEF Settings
  <2>6. CASE path = ConfigLight
    <3>1. LeafCode = ROUTE_config_1_light
      BY <2>1, <2>6, PathsDistinct DEF CodeOf
    <3>2. payload = "cfg"
      BY <2>3, <2>6, CommandShape
    <3>3. /\ light_config' = payload
          /\ light_onoff' = light_onoff /\ lightStrength' = lightStrength
      BY <1>1, <3>1, <3>2 DEF Act, ROUTE_do_1_light, ROUTE_do_1_lightStrength, ROUTE_config_1_light
    <3>4. Obeyed(Settings, task.msg) = [Settings EXCEPT !.config = payload]
      BY <2>6, PathsDistinct DEF Obeyed
    <3>5. QED
      BY <2>3, <3>3, <3>4 DEF Settings
  <2>7. QED
    BY <2>2, <2>4, <2>5, <2>6 DEF SettingPaths
<1>4. QED
  BY <1>2, <1>3

-----------------------------------------------------------------------------
(* The invariant, step by step.                                            *)

\* Nothing is under way, nothing subscribed to, and no task at work.
LEMMA ControlStarts == ASSUME Init PROVE ControlInv
<1>1. LinkInv
  BY LinkStarts
<1>2. inbound = <<>> /\ Len(inbound) = 0 /\ subs = {} /\ task.at = "free" /\ uart.at = "idle"
  BY DEF Init, FreeTask
<1>3. QED
  BY <1>1, <1>2 DEF ControlInv, MessagesKnown, SubscribedApart, BufferWhenUsed, Parsed

\* A known message that is delivered is one more known message.
LEMMA DeliverKnown ==
  ASSUME ControlInv, NEW message \in Messages, Deliver(message),
         message.topic \in subs => Known(message)
  PROVE  \A i \in 1..Len(inbound') : Known(inbound'[i])
<1>1. inbound \in Seq(Messages) /\ \A i \in 1..Len(inbound) : Known(inbound[i])
  BY DEF ControlInv, LinkInv, AllSound, MessagesKnown
<1>2. CASE inbound' = inbound
  BY <1>1, <1>2
<1>3. CASE message.topic \in subs /\ inbound' = Append(inbound, message)
  <2>1. /\ Len(inbound) \in Nat /\ Len(inbound') = Len(inbound) + 1
        /\ \A i \in 1..Len(inbound') :
              inbound'[i] = IF i <= Len(inbound) THEN inbound[i] ELSE message
    BY <1>1, <1>3
  <2>2. QED
    BY <1>1, <1>3, <2>1
<1>4. QED
  BY <1>2, <1>3 DEF Deliver

\* The same of a publish, which may do nothing.
LEMMA PublishKnown ==
  ASSUME ControlInv, NEW topic \in Topics, NEW text \in Texts,
         Publish(topic, text), topic \in subs => topic.path \in OwnPaths
  PROVE  \A i \in 1..Len(inbound') : Known(inbound'[i])
<1> DEFINE message == Message(topic, text)
<1>1. message \in Messages /\ message.topic = topic
  BY DEF Message, Messages
<1> HIDE DEF message
<1>2. message.topic \in subs => Known(message)
  BY <1>1 DEF Known
<1>3. CASE client /\ link = "up"
  BY <1>1, <1>2, <1>3, DeliverKnown DEF Publish, message
<1>4. CASE ~(client /\ link = "up")
  BY <1>4 DEF Publish, ControlInv, MessagesKnown
<1>5. QED
  BY <1>3, <1>4

\* The start of the client, breaks, and the notice of them.
LEMMA ConnectionControl ==
  ASSUME ControlInv, LinkInv', MqttAppStart \/ LinkBreaks \/ Disconnected PROVE ControlInv'
<1>1. /\ subs' \in {subs, {}} /\ inbound' \in {inbound, <<>>}
      /\ UNCHANGED <<macs, topicTemp, task, uart>>
  BY DEF MqttAppStart, LinkBreaks, Disconnected
<1>2. MessagesKnown'
  <2>1. CASE inbound' = inbound
    BY <1>1, <2>1 DEF ControlInv, MessagesKnown
  <2>2. CASE inbound' = <<>>
    BY <1>1, <2>2 DEF ControlInv, MessagesKnown
  <2>3. QED
    BY <1>1, <2>1, <2>2
<1>3. QED
  BY <1>1, <1>2 DEF ControlInv, SubscribedApart, BufferWhenUsed, Parsed, PresenceTopic

\* A connection begins with the subscriptions, the last of which is InfoExist.
LEMMA ConnectedControl == ASSUME ControlInv, LinkInv', Connected PROVE ControlInv'
<1>1. /\ task'.at = "strcpy" /\ task'.work = SubPaths
      /\ UNCHANGED <<subs, inbound>>
  BY DEF Connected, FreeTask
<1>2. SubPaths[Len(SubPaths)] = InfoExist
  BY DEF SubPaths
<1>3. QED
  BY <1>1, <1>2 DEF ControlInv, MessagesKnown, SubscribedApart, BufferWhenUsed, Parsed

\* The steps of composing: what is composed is for the work that is at hand.
LEMMA ComposeControl ==
  ASSUME ControlInv, LinkInv', CopyHead \/ CatPath PROVE ControlInv'
<1>1. /\ task.at \in {"strcpy", "strcat"} /\ task'.at \in {"strcat", "use"}
      /\ task'.work = task.work /\ task'.mode = task.mode
      /\ UNCHANGED <<macs, subs, inbound, uart>>
  BY DEF CopyHead, CatPath, ControlInv, LinkInv, TaskTyped
<1>2. task'.at = "use" =>
          \/ topicTemp' = Topic(SideOf(task.mode), macs, Head(task.work))
          \/ topicTemp'.path = ExistChange
  <2> SUFFICES ASSUME task'.at = "use"
               PROVE  \/ topicTemp' = Topic(SideOf(task.mode), macs, Head(task.work))
                      \/ topicTemp'.path = ExistChange
    OBVIOUS
  <2>1. task.at = "strcat" /\ topicTemp' = StrCat(topicTemp, Head(task.work))
    BY <1>1 DEF CopyHead, CatPath, ControlInv, LinkInv, TaskTyped
  <2>2. macs \in Nat
    BY LinkAssumption DEF ControlInv, LinkInv, TypeOK
  <2>3. CASE topicTemp = TopicHead(SideOf(task.mode), macs)
    BY <2>1, <2>3 DEF StrCat, Topic, TopicHead
  <2>4. CASE topicTemp = Topic("d", macs, ExistChange)
    <3>1. topicTemp \in Topics /\ topicTemp.path = ExistChange
      BY <2>2, <2>4, TopicMade DEF Paths
    <3>2. topicTemp'.path = ExistChange
      BY <2>1, <3>1, PathsDistinct DEF StrCat, Topics
    <3>3. QED
      BY <3>2
  <2>5. QED
    BY <2>1, <2>3, <2>4 DEF ControlInv, LinkInv, Composed, PresenceTopic
<1>3. BufferWhenUsed'
  BY <1>1, <1>2 DEF ControlInv, BufferWhenUsed
<1>4. QED
  BY <1>1, <1>3 DEF ControlInv, MessagesKnown, SubscribedApart, Parsed

\* The last entry of a list of more than one is that of what follows the first.
LEMMA LastLeft ==
  ASSUME NEW S, NEW list \in Seq(S), list # <<>>, Len(list) # 1
  PROVE  Tail(list)[Len(Tail(list))] = list[Len(list)]
<1>1. Len(list) \in Nat /\ Len(list) # 0
  BY EmptySeq
<1>2. /\ Len(Tail(list)) = Len(list) - 1
      /\ \A i \in 1..Len(Tail(list)) : Tail(list)[i] = list[i + 1]
  BY HeadTailProperties
<1>3. Len(list) - 1 \in 1..Len(Tail(list)) /\ (Len(list) - 1) + 1 = Len(list)
  BY <1>1, <1>2
<1>4. QED
  BY <1>2, <1>3

\* A topic is used: the subscriptions stay apart from the replies, and a reply
\* comes back only on the topic of a report; the last one leaves InfoExist behind.
LEMMA UseControl == ASSUME ControlInv, LinkInv', Subscribe \/ Reply PROVE ControlInv'
<1>1. /\ task.at = "use" /\ NextTopic /\ UNCHANGED <<macs, topicTemp, uart>>
      /\ macs \in Nat /\ topicTemp \in Topics
      /\ task.work \in Seq(CommandPaths) /\ task.work # <<>>
      /\ task.mode \in {"subscribe", "reply"}
      /\ task.work[Len(task.work)] = InfoExist
  BY LinkAssumption
     DEF Subscribe, Reply, ControlInv, LinkInv, TypeOK, TaskTyped, BufferWhenUsed
<1>2. \/ topicTemp = Topic(SideOf(task.mode), macs, Head(task.work))
      \/ topicTemp.path = ExistChange
  BY <1>1 DEF ControlInv, BufferWhenUsed
<1>3. Head(task.work) = task.work[1] /\ Head(task.work) \in CommandPaths
  BY <1>1, HeadTailProperties
<1>4. BufferWhenUsed'
  <2>1. CASE Len(task.work) = 1
    <3>1. task'.at = "free"
      BY <1>1, <2>1 DEF NextTopic, FreeTask
    <3>2. Head(task.work) = InfoExist
      BY <1>1, <1>3, <2>1
    <3>3. topicTemp.path \in OwnPaths
      BY <1>1, <1>2, <3>2, TopicMade DEF SideOf, OwnPaths, Paths, CommandPaths
    <3>4. QED
      BY <1>1, <3>1, <3>3 DEF BufferWhenUsed
  <2>2. CASE Len(task.work) # 1
    <3>1. task'.at = "strcpy" /\ task'.work = Tail(task.work)
      BY <1>1, <2>2 DEF NextTopic, ControlInv, LinkInv, TaskTyped
    <3>2. task'.work[Len(task'.work)] = InfoExist
      BY <1>1, <2>2, <3>1, LastLeft
    <3>3. QED
      BY <3>1, <3>2 DEF BufferWhenUsed
  <2>3. QED
    BY <2>1, <2>2
<1>5. task'.at \in {"free", "strcpy"}
  BY <1>1, NextTopicTyped DEF ControlInv
<1>6. Parsed'
  BY <1>5 DEF Parsed
<1>7. CASE Subscribe
  <2>1. subs' \subseteq subs \cup {topicTemp} /\ inbound' = inbound /\ task.mode = "subscribe"
    BY <1>7 DEF Subscribe
  <2>2. topicTemp.side = "s" \/ topicTemp.path = ExistChange
    BY <1>2, <2>1 DEF SideOf, Topic, TopicHead
  <2>3. SubscribedApart' /\ MessagesKnown'
    BY <1>5, <2>1, <2>2 DEF ControlInv, SubscribedApart, MessagesKnown
  <2>4. QED
    BY <1>4, <1>6, <2>3 DEF ControlInv
<1>8. CASE Reply
  <2>1. subs' = subs /\ task.mode = "reply" /\ Publish(topicTemp, "value")
    BY <1>8 DEF Reply
  <2>2. topicTemp \in subs => topicTemp.path \in OwnPaths
    <3>1. CASE topicTemp = Topic("d", macs, Head(task.work))
      <4>1. topicTemp.side = "d" /\ topicTemp.path \in CommandPaths
        BY <1>1, <1>3, <3>1, TopicMade DEF Topic, TopicHead, Paths
      <4>2. QED
        BY <4>1, PathsKnown DEF ControlInv, SubscribedApart
    <3>2. CASE topicTemp.path = ExistChange
      BY <3>2 DEF OwnPaths
    <3>3. QED
      BY <1>2, <2>1, <3>1, <3>2 DEF SideOf
  <2>3. "value" \in Texts
    BY DEF Texts
  <2>4. \A i \in 1..Len(inbound') : Known(inbound'[i])
    BY <1>1, <2>1, <2>2, <2>3, PublishKnown
  <2>5. SubscribedApart' /\ MessagesKnown'
    BY <1>5, <2>1, <2>4 DEF ControlInv, SubscribedApart, MessagesKnown
  <2>6. QED
    BY <1>4, <1>6, <2>5 DEF ControlInv
<1>9. QED
  BY <1>7, <1>8

\* The first message is taken from those under way, its topic put into the buffer.
LEMMA StoreControl == ASSUME ControlInv, LinkInv', StoreTopic PROVE ControlInv'
<1>1. /\ task'.at = "route" /\ task'.msg = Head(inbound) /\ topicTemp' = Head(inbound).topic
      /\ inbound' = Tail(inbound) /\ inbound # <<>> /\ uart.at = "idle"
      /\ UNCHANGED <<macs, subs, uart>>
  BY DEF StoreTopic, FreeTask, MqttMayRun
<1>2. /\ inbound \in Seq(Messages) /\ \A i \in 1..Len(inbound) : Known(inbound[i])
  BY DEF ControlInv, LinkInv, AllSound, MessagesKnown
<1>3. Len(inbound) \in Nat \ {0} /\ Head(inbound) = inbound[1]
  BY <1>1, <1>2, EmptySeq
<1>4. /\ Len(inbound') = Len(inbound) - 1
      /\ \A i \in 1..Len(inbound') : inbound'[i] = inbound[i + 1]
  BY <1>1, <1>2, HeadTailProperties
<1>5. MessagesKnown'
  <2>1. Known(Head(inbound))
    BY <1>2, <1>3
  <2>2. ASSUME NEW i \in 1..Len(inbound') PROVE Known(inbound'[i])
    <3>1. i + 1 \in 1..Len(inbound)
      BY <1>3, <1>4
    <3>2. QED
      BY <1>2, <1>4, <3>1
  <2>3. QED
    BY <1>1, <2>1, <2>2 DEF MessagesKnown
<1>6. QED
  BY <1>1, <1>5 DEF ControlInv, SubscribedApart, BufferWhenUsed, Parsed

\* The buffer is read, not written; the route that is found is that of the message
\* or of the report that has replaced it.
LEMMA ParseControl == ASSUME ControlInv, LinkInv', ParseRoute \/ ParseLeaf PROVE ControlInv'
<1>1. UNCHANGED <<macs, topicTemp, subs, inbound, uart>>
  BY DEF ParseRoute, ParseLeaf
<1>2. CASE ParseRoute
  <2>1. /\ task.at = "route" /\ task'.at = "leaf" /\ task'.msg = task.msg
        /\ task'.route = RouteOf(topicTemp)
    BY <1>2 DEF ParseRoute, RouteOf, ControlInv, LinkInv, TaskTyped
  <2>2. RouteOf(PresenceTopic) = ROUTE_event
    <3>1. PresenceTopic.path = ExistChange
      BY TopicMade, LinkAssumption DEF PresenceTopic, Paths, ControlInv, LinkInv, TypeOK
    <3>2. RouteWord(PresenceTopic) = "event"
      BY <3>1 DEF RouteWord, ExistChange
    <3>3. QED
      BY <3>2, Routes DEF RouteOf
  <2>3. topicTemp \in {task.msg.topic, PresenceTopic}
    BY <2>1 DEF ControlInv, Parsed
  <2>4. PresenceTopic' = PresenceTopic
    BY <1>1 DEF PresenceTopic
  <2>5. Parsed'
    <3>1. CASE topicTemp = PresenceTopic
      BY <1>1, <2>1, <2>2, <2>4, <3>1 DEF Parsed
    <3>2. CASE topicTemp = task.msg.topic
      BY <1>1, <2>1, <3>2 DEF Parsed
    <3>3. QED
      BY <2>3, <3>1, <3>2
  <2>6. BufferWhenUsed' /\ MessagesKnown' /\ SubscribedApart'
    BY <1>1, <2>1, <2>4 DEF ControlInv, BufferWhenUsed, MessagesKnown, SubscribedApart
  <2>7. QED
    BY <2>5, <2>6 DEF ControlInv
<1>3. CASE ParseLeaf
  <2>1. task.at = "leaf" /\ Act(LeafCode)
    BY <1>3 DEF ParseLeaf
  <2>2. uart.at = "blocked" => topicTemp.path \in OwnPaths
    <3>1. PresenceTopic.path = ExistChange
      BY TopicMade, LinkAssumption DEF PresenceTopic, Paths, ControlInv, LinkInv, TypeOK
    <3>2. QED
      BY <2>1, <3>1 DEF ControlInv, BufferWhenUsed, OwnPaths
  <2>3. CASE RepliesTo(LeafCode) = <<>>
    <3>1. task'.at = "free"
      BY <2>1, <2>3 DEF Act, FreeTask
    <3>2. QED
      BY <1>1, <2>2, <3>1 DEF ControlInv, BufferWhenUsed, MessagesKnown, SubscribedApart, Parsed
  <2>4. CASE RepliesTo(LeafCode) # <<>>
    <3>1. task'.at = "strcpy" /\ task'.work = RepliesTo(LeafCode)
      BY <2>1, <2>4 DEF Act, ControlInv, LinkInv, TaskTyped
    <3>2. RepliesTo(LeafCode)[Len(RepliesTo(LeafCode))] = InfoExist
      BY <2>4 DEF RepliesTo
    <3>3. QED
      BY <1>1, <3>1, <3>2 DEF ControlInv, BufferWhenUsed, MessagesKnown, SubscribedApart, Parsed
  <2>5. QED
    BY <2>3, <2>4
<1>4. QED
  BY <1>2, <1>3

\* What the server publishes is a command.
LEMMA CommandControl ==
  ASSUME ControlInv, LinkInv', NEW path \in CommandPaths, NEW payload \in Payloads(path),
         Command(path, payload)
  PROVE  ControlInv'
<1> DEFINE message == Message(Topic("s", 1, path), payload)
<1>1. message \in Messages
  BY TopicMade DEF Message, Messages, Payloads, Texts, Paths
<1>2. message \in Commands
  BY DEF Commands
<1>3. Deliver(message) /\ UNCHANGED <<macs, topicTemp, subs, task, uart>>
  BY DEF Command
<1> HIDE DEF message
<1>4. \A i \in 1..Len(inbound') : Known(inbound'[i])
  BY <1>1, <1>2, <1>3, DeliverKnown DEF Known
<1>5. QED
  BY <1>3, <1>4 DEF ControlInv, MessagesKnown, SubscribedApart, BufferWhenUsed, Parsed, PresenceTopic

\* A report replaces the topic that is in the buffer, and is published on a topic
\* that asks for nothing to be set.
LEMMA ReportControl ==
  ASSUME ControlInv, LinkInv', (\E e \in {0, 1} : ReportChange(e)) \/ ReportUnblocked
  PROVE  ControlInv'
<1>1. UNCHANGED <<macs, subs, task>>
  BY DEF ReportChange, ReportUnblocked
<1>2. macs \in Nat /\ topicTemp \in Topics
  BY LinkAssumption DEF ControlInv, LinkInv, TypeOK
<1>3. PresenceTopic \in Topics /\ PresenceTopic.path = ExistChange /\ PresenceTopic' = PresenceTopic
  BY <1>1, <1>2, TopicMade DEF PresenceTopic, Paths
<1>4. \A e \in {0, 1} : ExistJson(e) \in Texts
  BY DEF ExistJson, Texts
<1>5. CASE \E e \in {0, 1} : ReportChange(e)
  <2>1. PICK e \in {0, 1} : ReportChange(e)
    BY <1>5
  <2>2. topicTemp' = PresenceTopic /\ (uart'.at = "blocked" => task.at # "free" \/ uart' = uart)
    BY <2>1 DEF ReportChange, PresenceTopic, LockFree
  <2>3. uart.at = "idle"
    BY <2>1 DEF ReportChange
  <2>4. \A i \in 1..Len(inbound') : Known(inbound'[i])
    <3>1. CASE client /\ ~LockFree
      BY <2>1, <3>1 DEF ReportChange, ControlInv, MessagesKnown
    <3>2. CASE ~(client /\ ~LockFree)
      <4>1. Publish(PresenceTopic, ExistJson(e))
        BY <2>1, <2>2, <3>2 DEF ReportChange
      <4>2. PresenceTopic \in subs => PresenceTopic.path \in OwnPaths
        BY <1>3 DEF OwnPaths
      <4>3. QED
        BY <1>3, <1>4, <4>1, <4>2, PublishKnown
    <3>3. QED
      BY <3>1, <3>2
  <2>5. BufferWhenUsed' /\ Parsed'
    BY <1>1, <1>3, <2>2, <2>3 DEF ControlInv, BufferWhenUsed, Parsed, OwnPaths
  <2>6. QED
    BY <1>1, <2>4, <2>5 DEF ControlInv, MessagesKnown, SubscribedApart
<1>6. CASE ReportUnblocked
  <2>1. /\ task.at = "free" /\ topicTemp' = topicTemp /\ topicTemp.path \in OwnPaths
        /\ uart'.at = "idle" /\ Publish(topicTemp, ExistJson(uart.exist))
    BY <1>6 DEF ReportUnblocked, LockFree, ControlInv, BufferWhenUsed
  <2>2. uart.exist \in {0, 1}
    BY DEF ControlInv, LinkInv, TypeOK
  <2>3. \A i \in 1..Len(inbound') : Known(inbound'[i])
    BY <1>2, <1>4, <2>1, <2>2, PublishKnown
  <2>4. QED
    BY <1>1, <2>1, <2>3
       DEF ControlInv, MessagesKnown, SubscribedApart, BufferWhenUsed, Parsed
<1>7. QED
  BY <1>5, <1>6

\* The invariant holds after every step.
LEMMA ControlSteps == ASSUME ControlInv, [Next]_vars PROVE ControlInv'
<1>1. LinkInv'
  BY LinkSteps DEF ControlInv
<1>2. CASE MqttAppStart \/ LinkBreaks \/ Disconnected
  BY <1>1, <1>2, ConnectionControl
<1>3. CASE Connected
  BY <1>1, <1>3, ConnectedControl
<1>4. CASE StoreTopic
  BY <1>1, <1>4, StoreControl
<1>5. CASE HandlerStep
  BY <1>1, <1>5, ComposeControl, UseControl, ParseControl DEF HandlerStep
<1>6. CASE (\E e \in {0, 1} : ReportChange(e)) \/ ReportUnblocked
  BY <1>1, <1>6, ReportControl
<1>7. CASE \E path \in CommandPaths : \E payload \in Payloads(path) : Command(path, payload)
  BY <1>1, <1>7, CommandControl
<1>8. CASE Poll \/ UNCHANGED vars
  BY <1>1, <1>8
     DEF Poll, vars, ControlInv, MessagesKnown, SubscribedApart, BufferWhenUsed, Parsed, PresenceTopic
<1>9. QED
  BY <1>2, <1>3, <1>4, <1>5, <1>6, <1>7, <1>8 DEF Next

-----------------------------------------------------------------------------
(* The refinement.                                                         *)

\* The step on the left is one of RemoteControl's, or none.
Mapped == [Remote!Next]_<<Settings, UnderWay>>

\* What is under way is a sequence of messages.
LEMMA UnderWayTyped ==
  ASSUME LinkInv
  PROVE  /\ UnderWay \in Seq(Messages) /\ inbound \in Seq(Messages)
         /\ task.msg \in Messages
BY DEF LinkInv, TaskTyped, AllSound, UnderWay

\* A publish of whatever to wherever: it is sent to the lamp, or lost.
LEMMA PublishMapped ==
  ASSUME LinkInv, NEW message \in Messages, Deliver(message) \/ inbound' = inbound,
         UNCHANGED <<settings>>,
         task.at \in {"route", "leaf"} => task' = task,
         task.at \notin {"route", "leaf"} => task'.at \notin {"route", "leaf"}
  PROVE  Mapped
<1> DEFINE first == IF task.at \in {"route", "leaf"} THEN <<task.msg>> ELSE <<>>
<1>1. /\ first \in Seq(Messages) /\ inbound \in Seq(Messages)
      /\ UnderWay = first \o inbound
  BY UnderWayTyped DEF UnderWay
<1>2. UnderWay' = first \o inbound'
  BY DEF UnderWay
<1>3. Settings' = Settings
  BY DEF Settings, settings
<1> HIDE DEF first
<1>4. CASE inbound' = inbound
  BY <1>1, <1>2, <1>3, <1>4 DEF Mapped
<1>5. CASE inbound' = Append(inbound, message)
  <2>1. UnderWay \in Seq(Messages)
    BY <1>1
  <2>2. UnderWay' = Append(UnderWay, message)
    <3>1. first \o Append(inbound, message) = Append(first \o inbound, message)
      BY <1>1
    <3>2. QED
      BY <1>1, <1>2, <1>5, <3>1
  <2>3. /\ Len(UnderWay) + 1 \in DOMAIN UnderWay'
        /\ UnderWay'[Len(UnderWay) + 1] = message
    BY <2>1, <2>2
  <2>4. Remote!Send
    BY <1>3, <2>2, <2>3 DEF Remote!Send
  <2>5. QED
    BY <2>4 DEF Mapped, Remote!Next
<1>6. QED
  BY <1>4, <1>5 DEF Deliver

\* Delivery takes nothing from what is under way.
LEMMA StoreMapped == ASSUME LinkInv, StoreTopic PROVE Mapped
<1>1. /\ task.at = "free" /\ task'.at = "route" /\ task'.msg = Head(inbound)
      /\ inbound' = Tail(inbound) /\ inbound # <<>> /\ UNCHANGED settings
  BY DEF StoreTopic, FreeTask, MqttMayRun, LockFree
<1>2. inbound \in Seq(Messages)
  BY UnderWayTyped
<1>3. UnderWay = inbound
  BY <1>1, <1>2 DEF UnderWay
<1>4. UnderWay' = <<Head(inbound)>> \o Tail(inbound)
  BY <1>1 DEF UnderWay
<1>5. <<Head(inbound)>> \o Tail(inbound) = inbound
  BY <1>1, <1>2
<1>6. QED
  BY <1>1, <1>3, <1>4, <1>5 DEF Mapped, Settings, settings

\* The end of parsing: the message is obeyed or missed.
LEMMA LeafMapped == ASSUME ControlInv, ParseLeaf PROVE Mapped
<1>1. /\ task.at = "leaf" /\ inbound' = inbound
      /\ inbound \in Seq(Messages) /\ task.msg \in Messages
  BY UnderWayTyped DEF ParseLeaf, ControlInv
<1>2. task'.at \in {"free", "strcpy"}
  BY <1>1 DEF ParseLeaf, Act, FreeTask, ControlInv, LinkInv, TaskTyped
<1>3. UnderWay = <<task.msg>> \o inbound
  BY <1>1 DEF UnderWay
<1>4. UnderWay' = inbound
  BY <1>1, <1>2 DEF UnderWay
<1>5. UnderWay # <<>> /\ Head(UnderWay) = task.msg /\ Tail(UnderWay) = inbound
  BY <1>1, <1>3
<1>6. CASE task.msg \in Commands /\ Settings' = Obeyed(Settings, task.msg)
  BY <1>4, <1>5, <1>6 DEF Mapped, Remote!Next, Remote!Obey
<1>7. CASE Settings' = Settings
  BY <1>4, <1>5, <1>7 DEF Mapped, Remote!Next, Remote!Miss
<1>8. QED
  BY <1>6, <1>7, ActObeys

\* Every step of the link is one of the remote control, or changes neither the
\* settings nor what is under way.
LEMMA StepMapped == ASSUME ControlInv, [Next]_vars PROVE Mapped
<1>1. LinkInv /\ inbound \in Seq(Messages) /\ NoMessage \in Messages
  BY UnderWayTyped, TopicMade DEF ControlInv, NoMessage, Message, Messages, Texts
<1>2. CASE Disconnected
  <2>1. UnderWay' = <<>> /\ Settings' = Settings
    BY <1>2 DEF Disconnected, MqttMayRun, LockFree, UnderWay, Settings, settings
  <2>2. QED
    BY <2>1 DEF Mapped, Remote!Next, Remote!MissAll
<1>3. CASE MqttAppStart \/ LinkBreaks \/ Poll \/ UNCHANGED vars
  BY <1>3 DEF MqttAppStart, LinkBreaks, Poll, vars, Mapped, UnderWay, Settings, settings
<1>4. CASE Connected
  <2>1. task.at = "free" /\ task'.at = "strcpy" /\ inbound' = inbound /\ UNCHANGED settings
    BY <1>4 DEF Connected, FreeTask, MqttMayRun, LockFree
  <2>2. QED
    BY <1>1, <2>1, PublishMapped
<1>5. CASE StoreTopic
  BY <1>1, <1>5, StoreMapped
<1>6. CASE CopyHead \/ CatPath
  <2>1. /\ task.at \in {"strcpy", "strcat"} /\ task'.at \in {"strcat", "use"}
        /\ inbound' = inbound /\ UNCHANGED settings
    BY <1>1, <1>6 DEF CopyHead, CatPath, LinkInv, TaskTyped
  <2>2. QED
    BY <1>1, <2>1, PublishMapped
<1>7. CASE Subscribe \/ Reply
  <2>1. task.at = "use" /\ NextTopic /\ UNCHANGED settings
    BY <1>7 DEF Subscribe, Reply
  <2>2. task'.at \in {"free", "strcpy"}
    BY <1>1, <2>1, NextTopicTyped
  <2>3. \E message \in Messages : Deliver(message) \/ inbound' = inbound
    <3>1. CASE Subscribe
      BY <1>1, <3>1 DEF Subscribe
    <3>2. CASE Reply
      <4>1. Message(topicTemp, "value") \in Messages
        BY <1>1 DEF Message, Messages, Texts, LinkInv, TypeOK
      <4>2. QED
        BY <3>2, <4>1 DEF Reply, Publish
    <3>3. QED
      BY <1>7, <3>1, <3>2
  <2>4. QED
    BY <1>1, <2>1, <2>2, <2>3, PublishMapped
<1>8. CASE ParseRoute
  <2>1. /\ task.at = "route" /\ task'.at = "leaf" /\ task'.msg = task.msg
        /\ inbound' = inbound /\ UNCHANGED settings
    BY <1>1, <1>8 DEF ParseRoute, LinkInv, TaskTyped
  <2>2. UnderWay' = UnderWay
    BY <2>1 DEF UnderWay
  <2>3. QED
    BY <2>1, <2>2 DEF Mapped, Settings, settings
<1>9. CASE ParseLeaf
  BY <1>9, LeafMapped
<1>10. CASE (\E e \in {0, 1} : ReportChange(e)) \/ ReportUnblocked
  <2>1. task' = task /\ UNCHANGED settings
    BY <1>10 DEF ReportChange, ReportUnblocked
  <2>2. \E message \in Messages : Deliver(message) \/ inbound' = inbound
    <3>1. CASE inbound' = inbound
      BY <1>1, <3>1
    <3>2. CASE \E e \in {0, 1} : Deliver(Message(topicTemp', ExistJson(e)))
      <4>1. PICK e \in {0, 1} : Deliver(Message(topicTemp', ExistJson(e)))
        BY <3>2
      <4>2. topicTemp' \in Topics
        BY <1>1, ReportKeeps, <1>10 DEF LinkInv, TypeOK
      <4>3. Message(topicTemp', ExistJson(e)) \in Messages
        BY <4>2 DEF Message, Messages, ExistJson, Texts
      <4>4. QED
        BY <4>1, <4>3
    <3>3. inbound' = inbound \/ \E e \in {0, 1} : Deliver(Message(topicTemp', ExistJson(e)))
      <4>1. CASE \E e \in {0, 1} : ReportChange(e)
        BY <4>1 DEF ReportChange, Publish
      <4>2. CASE ReportUnblocked
        BY <1>1, <4>2 DEF ReportUnblocked, Publish, LinkInv, TypeOK
      <4>3. QED
        BY <1>10, <4>1, <4>2
    <3>4. QED
      BY <3>1, <3>2, <3>3
  <2>3. QED
    BY <1>1, <2>1, <2>2, PublishMapped
<1>11. CASE \E path \in CommandPaths : \E payload \in Payloads(path) : Command(path, payload)
  <2>1. PICK path \in CommandPaths : \E payload \in Payloads(path) : Command(path, payload)
    BY <1>11
  <2>2. PICK payload \in Payloads(path) : Command(path, payload)
    BY <2>1
  <2>3. Message(Topic("s", 1, path), payload) \in Messages
    BY TopicMade DEF Message, Messages, Payloads, Texts, Paths
  <2>4. /\ Deliver(Message(Topic("s", 1, path), payload))
        /\ task' = task /\ UNCHANGED settings
    BY <2>2 DEF Command
  <2>5. QED
    BY <1>1, <2>3, <2>4, PublishMapped
<1>12. QED
  BY <1>2, <1>3, <1>4, <1>5, <1>6, <1>7, <1>8, <1>9, <1>10, <1>11 DEF Next, HandlerStep

-----------------------------------------------------------------------------
(* The theorems.                                                           *)

\* Whatever tears the topics, no message other than the server's asks for a setting.
THEOREM ControlInvariant == Spec => []ControlInv
<1>1. Init => ControlInv
  BY ControlStarts
<1>2. ControlInv /\ [Next]_vars => ControlInv'
  BY ControlSteps
<1>3. QED
  BY <1>1, <1>2, PTL DEF Spec

\* The settings are what the server's commands have made of them, each carried out
\* at most once and in their order: every step of the link is one of RemoteControl.
THEOREM LinkImplementsRemoteControl == Spec => ObeysRemoteControl
<1>1. Init => Remote!Init
  BY DEF Init, Remote!Init, UnderWay, Settings, Untouched, FreeTask
<1>2. ControlInv /\ [Next]_vars => [Remote!Next]_<<Settings, UnderWay>>
  BY StepMapped DEF Mapped
<1>3. QED
  BY <1>1, <1>2, ControlInvariant, PTL DEF Spec, ObeysRemoteControl, Remote!Spec

=============================================================================
