--------------------------- MODULE MqttLinkProofs ---------------------------
(* Proofs about MqttLink, for any numbers of connections, commands, reports *)
(* and messages under way.                                                 *)
EXTENDS MqttLink, SequenceTheorems, TLAPS

\* What a message can carry, the lamp's own messages included.
Texts == {"none", "0", "1", "10", "cfg", "?", "value", "exist0", "exist1"}
Messages == [topic : Topics, payload : Texts]

Places == {"free", "strcpy", "strcat", "use", "route", "leaf"}

\* The code of the route may be anything; composing a topic, the MQTT task knows what for.
TaskTyped ==
    /\ task \in [at : Places, mode : {"none", "subscribe", "reply"}, work : Seq(CommandPaths),
                 msg : Messages, route : {task.route}]
    /\ task.at \in {"strcpy", "strcat", "use"} =>
          task.work # <<>> /\ task.mode \in {"subscribe", "reply"}

\* A topic of this boot: no more MACs than connections, and mixed of two
\* compositions only if the UART task's is the first of them.
Sound(topic) ==
    /\ topic \in Topics
    /\ topic.macs <= macs
    /\ topic.tail = NoPath \/ topic.path = ExistChange

AllSound ==
    /\ Sound(topicTemp)
    /\ \A topic \in subs : Sound(topic)
    /\ inbound \in Seq(Messages)
    /\ \A i \in 1..Len(inbound) : Sound(inbound[i].topic)
    /\ macs = connects

\* What the buffer holds between strcpy and strcat, and when it is used for a reply.
Composed ==
    /\ task.at = "strcat" =>
          topicTemp \in {TopicHead(SideOf(task.mode), macs), PresenceTopic}
    /\ task.at = "use" /\ task.mode = "reply" =>
          topicTemp \in {Topic("d", macs, Head(task.work)), PresenceTopic,
                         StrCat(PresenceTopic, Head(task.work))}

LinkInv == TypeOK /\ TaskTyped /\ AllSound /\ Composed

-----------------------------------------------------------------------------
(* Paths and topics.                                                       *)

\* The six paths of the server, and the two that are none of them.
LEMMA PathsKnown ==
  /\ CommandPaths = {DoLight, DoLightStrength, ConfigLight, InfoLight, InfoLightStrength, InfoExist}
  /\ ExistChange \notin CommandPaths
  /\ NoPath \notin Paths
  /\ SubPaths \in Seq(CommandPaths) /\ SubPaths # <<>>
<1>1. DOMAIN SubPaths = 1..6
  BY DEF SubPaths
<1>2. CommandPaths = {SubPaths[1], SubPaths[2], SubPaths[3], SubPaths[4], SubPaths[5], SubPaths[6]}
  BY <1>1 DEF CommandPaths
<1>3. CommandPaths = {DoLight, DoLightStrength, ConfigLight, InfoLight, InfoLightStrength,
                      InfoExist}
  BY <1>2 DEF SubPaths
<1>4. ExistChange \notin CommandPaths
  BY <1>3 DEF ExistChange, DoLight, DoLightStrength, ConfigLight, InfoLight,
              InfoLightStrength, InfoExist
<1>5. NoPath \notin Paths
  <2>1. \A p \in Paths : Len(p) = 2
    BY <1>3 DEF Paths, ExistChange, DoLight, DoLightStrength, ConfigLight, InfoLight,
                InfoLightStrength, InfoExist
  <2>2. QED
    BY <2>1 DEF NoPath
<1>6. SubPaths \in Seq(CommandPaths) /\ SubPaths # <<>>
  BY <1>3 DEF SubPaths
<1>7. QED
  BY <1>3, <1>4, <1>5, <1>6

\* A topic is made of a head and one path.
LEMMA TopicMade ==
  ASSUME NEW side \in {"s", "d"}, NEW n \in Nat
  PROVE  /\ TopicHead(side, n) \in Topics
         /\ TopicHead(side, n).macs = n /\ TopicHead(side, n).path = NoPath
         /\ TopicHead(side, n).tail = NoPath
         /\ \A path \in Paths :
                /\ Topic(side, n, path) \in Topics
                /\ Topic(side, n, path).macs = n /\ Topic(side, n, path).path = path
                /\ Topic(side, n, path).tail = NoPath
BY DEF TopicHead, Topic, Topics

\* No two paths are the same.
LEMMA PathsDistinct ==
  /\ NoPath \notin {DoLight, DoLightStrength, ConfigLight, InfoLight, InfoLightStrength,
                    InfoExist, ExistChange}
  /\ DoLight \notin {DoLightStrength, ConfigLight, InfoLight, InfoLightStrength,
                     InfoExist, ExistChange}
  /\ DoLightStrength \notin {ConfigLight, InfoLight, InfoLightStrength, InfoExist, ExistChange}
  /\ ConfigLight \notin {InfoLight, InfoLightStrength, InfoExist, ExistChange}
  /\ InfoLight \notin {InfoLightStrength, InfoExist, ExistChange}
  /\ InfoLightStrength \notin {InfoExist, ExistChange}
  /\ InfoExist # ExistChange
BY DEF NoPath, ExistChange, DoLight, DoLightStrength, ConfigLight, InfoLight,
       InfoLightStrength, InfoExist

\* The longest path has 19 characters, that of a report 18.
LEMMA PathLengths ==
  /\ PathLen(NoPath) = 0
  /\ PathLen(ExistChange) = 18
  /\ PathLen(InfoLightStrength) = 19
  /\ \A path \in Paths \cup {NoPath} : PathLen(path) \in 0..19
<1>1. Paths = {DoLight, DoLightStrength, ConfigLight, InfoLight, InfoLightStrength, InfoExist,
               ExistChange}
  BY PathsKnown DEF Paths
<1>2. PathLen(NoPath) = 0
  <2>1. \A other \in Paths : NoPath # other
    BY PathsKnown
  <2>2. QED
    BY <1>1, <2>1 DEF PathLen
<1>3. /\ PathLen(DoLight) = 9 /\ PathLen(DoLightStrength) = 17 /\ PathLen(ConfigLight) = 13
      /\ PathLen(InfoLight) = 11 /\ PathLen(InfoLightStrength) = 19 /\ PathLen(InfoExist) = 11
      /\ PathLen(ExistChange) = 18
  <2>1. PathLen(DoLight) = 9
    BY PathsDistinct DEF PathLen
  <2>2. PathLen(DoLightStrength) = 17
    BY PathsDistinct DEF PathLen
  <2>3. PathLen(ConfigLight) = 13
    BY PathsDistinct DEF PathLen
  <2>4. PathLen(InfoLight) = 11
    BY PathsDistinct DEF PathLen
  <2>5. PathLen(InfoLightStrength) = 19
    BY PathsDistinct DEF PathLen
  <2>6. PathLen(InfoExist) = 11
    BY PathsDistinct DEF PathLen
  <2>7. PathLen(ExistChange) = 18
    BY PathsDistinct DEF PathLen
  <2>8. QED
    BY <2>1, <2>2, <2>3, <2>4, <2>5, <2>6, <2>7
<1>4. QED
  BY <1>1, <1>2, <1>3

\* A sound topic is no longer than its MACs, a report's path and the longest path.
LEMMA SoundBounded ==
  ASSUME macs \in Nat, NEW topic, Sound(topic) PROVE LenOf(topic) <= LongestTopic(macs)
<1>1. /\ topic.macs \in Nat /\ topic.macs <= macs
      /\ PathLen(topic.path) \in 0..19 /\ PathLen(topic.tail) \in 0..19
  BY PathLengths DEF Sound, Topics
<1>2. topic.tail = NoPath \/ topic.path = ExistChange
  BY DEF Sound
<1>3. PathLen(topic.path) + PathLen(topic.tail) <= 37
  BY <1>1, <1>2, PathLengths
<1>4. QED
  BY <1>1, <1>3, PathLengths DEF LenOf, LongestTopic

-----------------------------------------------------------------------------
(* The invariant, first initially and then step by step.                   *)

\* Nothing is composed, published or under way.
LEMMA LinkStarts == Init => LinkInv
<1> SUFFICES ASSUME Init PROVE LinkInv
  OBVIOUS
<1> USE LinkAssumption DEF Init
<1>1. /\ TopicHead("s", 0) \in Topics /\ TopicHead("d", 0) \in Topics
      /\ TopicHead("s", 0).macs = 0 /\ TopicHead("s", 0).tail = NoPath
      /\ TopicHead("d", 0).path = NoPath
  BY TopicMade
<1>2. NoMessage \in Messages
  BY <1>1 DEF NoMessage, Message, Messages, Texts
<1>3. task.at = "free" /\ task.work = <<>> /\ task.route = NoCode
  BY DEF FreeTask
<1>4. TypeOK
  <2>1. topicTemp \in Topics /\ subs \subseteq Topics
    BY <1>1
  <2>2. Len(inbound) <= MaxInbound /\ macs \in 0..MaxConnects
    OBVIOUS
  <2>3. uart \in [at : {"idle", "blocked"}, exist : {0, 1}]
    OBVIOUS
  <2>4. QED
    BY <1>3, <2>1, <2>2, <2>3 DEF TypeOK
<1>5. TaskTyped /\ AllSound
  <2>1. task \in [at : Places, mode : {"none", "subscribe", "reply"}, work : Seq(CommandPaths),
                  msg : Messages, route : {NoCode}]
    BY <1>2 DEF FreeTask, Places
  <2>2. Sound(topicTemp)
    BY <1>1 DEF Sound
  <2>3. inbound \in Seq(Messages) /\ Len(inbound) = 0
    OBVIOUS
  <2>4. QED
    BY <1>3, <2>1, <2>2, <2>3 DEF TaskTyped, AllSound
<1>6. Composed
  BY <1>3 DEF Composed
<1>7. QED
  BY <1>4, <1>5, <1>6 DEF LinkInv

\* A message that is lost or delivered is one more sound topic at most.
LEMMA DeliverKeeps ==
  ASSUME LinkInv, NEW message \in Messages, Deliver(message), macs' = macs
  PROVE  /\ inbound' \in Seq(Messages) /\ Len(inbound') <= MaxInbound
         /\ \A i \in 1..Len(inbound') : Sound(inbound'[i].topic)
<1> USE DEF LinkInv, AllSound, TypeOK
<1>1. CASE inbound' = inbound
  BY <1>1
<1>2. CASE /\ message.topic \in subs
           /\ inbound' = Append(inbound, message) /\ Len(inbound) < MaxInbound
  <2>1. /\ inbound' \in Seq(Messages) /\ Len(inbound') = Len(inbound) + 1
        /\ \A i \in 1..Len(inbound') :
              inbound'[i] = IF i <= Len(inbound) THEN inbound[i] ELSE message
    BY <1>2
  <2>2. QED
    BY <1>2, <2>1, LinkAssumption
<1>3. QED
  BY <1>1, <1>2 DEF Deliver

\* Soundness of a topic only depends on the number of MACs, which grows.
LEMMA SoundKept ==
  ASSUME NEW topic, Sound(topic), macs \in Nat, macs' \in Nat, macs <= macs'
  PROVE  Sound(topic)'
BY DEF Sound, Topics

\* What a publish makes of the messages under way.
LEMMA PublishKeeps ==
  ASSUME LinkInv, NEW topic, Sound(topic), NEW text \in Texts,
         Publish(topic, text), macs' = macs
  PROVE  /\ inbound' \in Seq(Messages) /\ Len(inbound') <= MaxInbound
         /\ \A i \in 1..Len(inbound') : Sound(inbound'[i].topic)
<1>1. Message(topic, text) \in Messages /\ Message(topic, text).topic = topic
  BY DEF Message, Messages, Sound
<1>2. CASE client /\ link = "up"
  BY <1>1, <1>2, DeliverKeeps DEF Publish
<1>3. CASE ~(client /\ link = "up")
  BY <1>3 DEF Publish, LinkInv, AllSound, TypeOK
<1>4. QED
  BY <1>2, <1>3

\* A start, a break and the notice of it touch neither the topics nor the task.
LEMMA ConnectionKeeps ==
  ASSUME LinkInv, MqttAppStart \/ LinkBreaks \/ Disconnected PROVE LinkInv'
<1> USE DEF LinkInv, MqttAppStart, LinkBreaks, Disconnected, settings, counters
<1>1. /\ subs' \in {subs, {}} /\ inbound' \in {inbound, <<>>}
      /\ UNCHANGED <<macs, topicTemp, task, uart, man_exist, light_onoff, lightStrength, connects>>
      /\ client' \in BOOLEAN /\ link' \in {"down", "up", "broken"}
  BY DEF TypeOK
<1>2. TypeOK'
  BY <1>1, LinkAssumption DEF TypeOK
<1>3. TaskTyped' /\ Composed'
  BY <1>1 DEF TaskTyped, Composed, PresenceTopic
<1>4. AllSound'
  <2>1. \A topic : Sound(topic) => Sound(topic)'
    BY <1>1 DEF Sound
  <2>2. inbound' \in Seq(Messages) /\ \A i \in 1..Len(inbound') : Sound(inbound'[i].topic)
    <3>1. CASE inbound' = inbound
      BY <3>1 DEF AllSound
    <3>2. CASE inbound' = <<>>
      <4>1. inbound' \in Seq(Messages) /\ Len(inbound') = 0
        BY <3>2
      <4>2. QED
        BY <4>1
    <3>3. QED
      BY <1>1, <3>1, <3>2
  <2>3. \A topic \in subs' : Sound(topic)
    BY <1>1 DEF AllSound
  <2>4. QED
    BY <1>1, <2>1, <2>2, <2>3 DEF AllSound
<1>5. QED
  BY <1>2, <1>3, <1>4

\* A connection counts one MAC more; all topics stay sound.
LEMMA ConnectedKeeps == ASSUME LinkInv, Connected PROVE LinkInv'
<1> USE LinkAssumption DEF LinkInv, Connected, MqttMayRun, LockFree, settings
<1>1. macs \in Nat /\ macs' \in 0..MaxConnects /\ macs <= macs' /\ macs' = connects'
  BY DEF TypeOK, AllSound
<1>2. /\ task' = [at |-> "strcpy", mode |-> "subscribe", work |-> SubPaths,
                  msg |-> NoMessage, route |-> NoCode]
      /\ task'.at = "strcpy" /\ task'.mode = "subscribe" /\ task'.work = SubPaths
      /\ task'.route = NoCode
  BY DEF FreeTask
<1>3. NoMessage \in Messages
  BY TopicMade DEF NoMessage, Message, Messages, Texts
<1>4. TypeOK'
  BY <1>1, <1>2 DEF TypeOK
<1>5. TaskTyped'
  BY <1>2, <1>3, PathsKnown DEF TaskTyped, Places
<1>6. AllSound'
  BY <1>1, SoundKept DEF AllSound
<1>7. Composed'
  BY <1>2 DEF Composed
<1>8. QED
  BY <1>4, <1>5, <1>6, <1>7

\* A place and a list of work that go with the task as it is.
LEMMA TaskMoves ==
  ASSUME LinkInv, NEW at \in Places, NEW work \in Seq(CommandPaths),
         NEW mode \in {"none", "subscribe", "reply"},
         at \in {"strcpy", "strcat", "use"} => work # <<>> /\ mode \in {"subscribe", "reply"},
         task' = [task EXCEPT !.at = at, !.mode = mode, !.work = work]
  PROVE  /\ TaskTyped'
         /\ task'.at = at /\ task'.mode = mode /\ task'.work = work
BY DEF LinkInv, TaskTyped

\* strcpy makes a head, strcat a topic, unless the UART task's is in the buffer.
LEMMA ComposeKeeps == ASSUME LinkInv, CopyHead \/ CatPath PROVE LinkInv'
<1> USE LinkAssumption DEF LinkInv, CopyHead, CatPath, settings, counters
<1>1. task.mode \in {"subscribe", "reply"} /\ task.work # <<>> /\ task.work \in Seq(CommandPaths)
  BY DEF TaskTyped
<1>2. macs \in Nat /\ SideOf(task.mode) \in {"s", "d"}
  BY DEF TypeOK, SideOf
<1>3. Head(task.work) \in CommandPaths
  BY <1>1
<1>4. /\ task' = [task EXCEPT !.at = task'.at, !.mode = task.mode, !.work = task.work]
      /\ task'.at \in {"strcat", "use"}
  BY DEF TaskTyped
<1>5. TaskTyped' /\ task'.mode = task.mode /\ task'.work = task.work
  BY <1>1, <1>4, TaskMoves DEF Places
<1>6. Sound(topicTemp')
  <2>1. CASE CopyHead
    BY <1>2, <2>1, TopicMade DEF Sound
  <2>2. CASE CatPath /\ topicTemp = TopicHead(SideOf(task.mode), macs)
    BY <1>2, <1>3, <2>2, TopicMade DEF Sound, StrCat, Topics, Paths
  <2>3. CASE CatPath /\ topicTemp = Topic("d", macs, ExistChange)
    <3>1. topicTemp \in Topics /\ topicTemp.macs = macs /\ topicTemp.path = ExistChange
      BY <1>2, <2>3, TopicMade DEF Paths
    <3>2. topicTemp' = [topicTemp EXCEPT !.tail = Head(task.work)]
      BY <2>3, <3>1, PathsKnown DEF StrCat, Paths
    <3>3. QED
      BY <1>2, <1>3, <3>1, <3>2 DEF Sound, Topics, Paths
  <2>4. QED
    BY <2>1, <2>2, <2>3 DEF Composed, PresenceTopic
<1>7. TypeOK' /\ AllSound'
  BY <1>4, <1>6 DEF TypeOK, AllSound, Sound
<1>8. Composed'
  <2>1. CASE CopyHead
    BY <1>5, <2>1 DEF Composed
  <2>2. CASE CatPath
    <3>1. CASE topicTemp = TopicHead(SideOf(task.mode), macs) /\ task.mode = "reply"
      <4>1. topicTemp' = Topic("d", macs, Head(task.work))
        BY <2>2, <3>1 DEF StrCat, Topic, TopicHead, SideOf
      <4>2. QED
        BY <1>5, <2>2, <4>1 DEF Composed
    <3>2. CASE topicTemp = PresenceTopic
      <4>1. topicTemp' = StrCat(PresenceTopic, Head(task.work)) /\ UNCHANGED <<macs, task.work>>
        BY <1>5, <2>2, <3>2
      <4>2. QED
        BY <1>5, <2>2, <4>1 DEF Composed, PresenceTopic
    <3>3. CASE task.mode # "reply"
      BY <1>5, <2>2, <3>3 DEF Composed
    <3>4. QED
      BY <2>2, <3>1, <3>2, <3>3 DEF Composed
  <2>3. QED
    BY <2>1, <2>2
<1>9. QED
  BY <1>5, <1>7, <1>8

\* What is left of a list of more than one entry.
LEMMA TailLeft ==
  ASSUME NEW S, NEW list \in Seq(S), list # <<>>, Len(list) # 1
  PROVE  Tail(list) \in Seq(S) /\ Tail(list) # <<>>
<1>1. Len(list) \in Nat /\ Len(list) # 0
  BY EmptySeq
<1>2. Tail(list) \in Seq(S) /\ Len(Tail(list)) = Len(list) - 1
  BY HeadTailProperties
<1>3. Len(Tail(list)) # 0
  BY <1>1, <1>2
<1>4. Tail(list) # <<>>
  <2>1. Len(<<>>) = 0
    OBVIOUS
  <2>2. QED
    BY <1>3, <2>1, Zenon
<1>5. QED
  BY <1>2, <1>4

\* On to the next topic, or out of the handler.
LEMMA NextTopicTyped ==
  ASSUME LinkInv, task.at = "use", NextTopic
  PROVE  TaskTyped' /\ task'.at \in {"free", "strcpy"}
<1>1. task.work \in Seq(CommandPaths) /\ task.work # <<>> /\ task.mode \in {"subscribe", "reply"}
  BY DEF LinkInv, TaskTyped
<1>2. CASE Len(task.work) = 1
  <2>1. task' = [at |-> "free", mode |-> "none", work |-> <<>>, msg |-> NoMessage, route |-> NoCode]
        /\ task'.at = "free" /\ task'.route = NoCode
    BY <1>2 DEF NextTopic, FreeTask
  <2>2. NoMessage \in Messages
    BY TopicMade DEF NoMessage, Message, Messages, Texts
  <2>3. <<>> \in Seq(CommandPaths)
    OBVIOUS
  <2>4. QED
    BY <2>1, <2>2, <2>3 DEF TaskTyped, Places
<1>3. CASE Len(task.work) # 1
  <2>1. Tail(task.work) \in Seq(CommandPaths) /\ Tail(task.work) # <<>>
    BY <1>1, <1>3, TailLeft
  <2>2. task' = [task EXCEPT !.at = "strcpy", !.mode = task.mode, !.work = Tail(task.work)]
    BY <1>3 DEF NextTopic, LinkInv, TaskTyped
  <2>3. QED
    BY <1>1, <2>1, <2>2, TaskMoves DEF Places
<1>4. QED
  BY <1>2, <1>3

\* The topic in the buffer is used: subscribed to, or published as a reply to what
\* was asked, or to something that nobody asks for.
LEMMA UseKeeps == ASSUME LinkInv, Subscribe \/ Reply PROVE LinkInv'
<1> USE DEF LinkInv, Subscribe, Reply, settings, counters
<1>1. TaskTyped' /\ task'.at \in {"free", "strcpy"}
  BY NextTopicTyped
<1>2. Composed'
  BY <1>1 DEF Composed
<1>3. CASE Subscribe
  <2>1. subs' \subseteq subs \cup {topicTemp}
    BY <1>3
  <2>2. TypeOK'
    BY <1>1, <1>3, <2>1 DEF TypeOK
  <2>3. AllSound'
    BY <1>3, <2>1 DEF AllSound, Sound
  <2>4. QED
    BY <1>1, <1>2, <2>2, <2>3
<1>4. CASE Reply
  <2>1. Sound(topicTemp) /\ "value" \in Texts
    BY DEF AllSound, Texts
  <2>2. /\ inbound' \in Seq(Messages) /\ Len(inbound') <= MaxInbound
        /\ \A i \in 1..Len(inbound') : Sound(inbound'[i].topic)
    BY <1>4, <2>1, PublishKeeps
  <2>3. TypeOK'
    BY <1>1, <1>4, <2>2 DEF TypeOK
  <2>4. AllSound'
    BY <1>4, <2>2 DEF AllSound, Sound
  <2>5. QED
    BY <1>1, <1>2, <2>3, <2>4
<1>5. QED
  BY <1>3, <1>4

\* The topic of a message that was delivered is in the buffer.
LEMMA StoreKeeps == ASSUME LinkInv, StoreTopic PROVE LinkInv'
<1> USE DEF LinkInv, StoreTopic, settings, counters
<1>1. /\ Head(inbound) \in Messages /\ Sound(Head(inbound).topic)
      /\ Tail(inbound) \in Seq(Messages) /\ Len(Tail(inbound)) = Len(inbound) - 1
      /\ \A i \in 1..Len(Tail(inbound)) : Tail(inbound)[i] = inbound[i + 1]
  <2>1. inbound \in Seq(Messages) /\ inbound # <<>>
    BY DEF AllSound
  <2>2. Len(inbound) \in Nat \ {0} /\ Head(inbound) = inbound[1]
    BY <2>1, EmptySeq
  <2>3. Sound(Head(inbound).topic)
    BY <2>2 DEF AllSound
  <2>4. QED
    BY <2>1, <2>3, HeadTailProperties
<1>2. inbound \in Seq(Messages) /\ Len(inbound) \in Nat
  BY DEF AllSound
<1>3. /\ task' = [at |-> "route", mode |-> "none", work |-> <<>>, msg |-> Head(inbound),
                  route |-> NoCode]
      /\ task'.at = "route" /\ task'.route = NoCode
  BY DEF FreeTask
<1>4. TypeOK'
  BY <1>1, <1>2, <1>3, LinkAssumption DEF TypeOK, Sound
<1>5. TaskTyped'
  <2> HIDE DEF LinkInv, StoreTopic, settings, counters
  <2>1. <<>> \in Seq(CommandPaths)
    OBVIOUS
  <2>2. Head(inbound) \in Messages
    BY <1>1
  <2>3. QED
    BY <1>3, <2>1, <2>2 DEF TaskTyped, Places
<1>6. AllSound'
  <2>1. \A i \in 1..Len(inbound') : Sound(inbound'[i].topic)
    <3>1. TAKE i \in 1..Len(inbound')
    <3>2. i + 1 \in 1..Len(inbound) /\ inbound'[i] = inbound[i + 1]
      BY <1>1, <1>2
    <3>3. QED
      BY <3>2 DEF AllSound
  <2>2. QED
    BY <1>1, <2>1 DEF AllSound, Sound
<1>7. Composed'
  BY <1>3 DEF Composed
<1>8. QED
  BY <1>4, <1>5, <1>6, <1>7

\* What a query is answered with is among the topics of the server.
LEMMA RepliesKnown == \A code : RepliesTo(code) \in Seq(CommandPaths)
<1>1. {InfoLight, InfoLightStrength, InfoExist} \subseteq CommandPaths
  BY PathsKnown
<1>2. QED
  BY <1>1 DEF RepliesTo

\* Looking up a topic reads the buffer and changes the settings at most.
LEMMA ParseKeeps == ASSUME LinkInv, ParseRoute \/ ParseLeaf PROVE LinkInv'
<1> USE DEF LinkInv, settings, counters
<1>1. UNCHANGED <<client, link, macs, topicTemp, subs, inbound, uart, man_exist, connects>>
  BY DEF ParseRoute, ParseLeaf
<1>2. TaskTyped' /\ task'.at \in {"free", "strcpy", "leaf"}
  <2>1. CASE ParseRoute
    BY <2>1 DEF ParseRoute, TaskTyped, Places
  <2>2. CASE ParseLeaf
    <3>1. Act(LeafCode)
      BY <2>2 DEF ParseLeaf
    <3>2. CASE RepliesTo(LeafCode) = <<>>
      <4>1. /\ task' = [at |-> "free", mode |-> "none", work |-> <<>>, msg |-> NoMessage,
                        route |-> NoCode]
            /\ task'.at = "free" /\ task'.route = NoCode
        BY <3>1, <3>2 DEF Act, FreeTask
      <4>2. NoMessage \in Messages
        BY TopicMade DEF NoMessage, Message, Messages, Texts
      <4>3. <<>> \in Seq(CommandPaths)
        OBVIOUS
      <4>4. QED
        BY <4>1, <4>2, <4>3 DEF TaskTyped, Places
    <3>3. CASE RepliesTo(LeafCode) # <<>>
      <4>1. task' = [task EXCEPT !.at = "strcpy", !.mode = "reply", !.work = RepliesTo(LeafCode)]
        BY <3>1, <3>3 DEF Act
      <4>2. QED
        BY <3>3, <4>1, RepliesKnown, TaskMoves DEF Places
    <3>4. QED
      BY <3>2, <3>3
  <2>3. QED
    BY <2>1, <2>2
<1>3. light_onoff' \in {0, 1} /\ lightStrength' \in Nat
  <2>1. CASE ParseRoute
    BY <2>1 DEF ParseRoute, TypeOK
  <2>2. CASE ParseLeaf
    BY <2>2 DEF ParseLeaf, Act, TypeOK, FirstDigit, Atoi
  <2>3. QED
    BY <2>1, <2>2
<1>4. TypeOK'
  BY <1>1, <1>2, <1>3 DEF TypeOK
<1>5. AllSound'
  BY <1>1 DEF AllSound, Sound
<1>6. Composed'
  BY <1>1, <1>2 DEF Composed
<1>7. QED
  BY <1>2, <1>4, <1>5, <1>6

\* The server's message, or its loss, changes nothing but what is under way.
LEMMA CommandKeeps ==
  ASSUME LinkInv, NEW path \in CommandPaths, NEW payload \in Payloads(path), Command(path, payload)
  PROVE  LinkInv'
<1> USE DEF LinkInv, Command, settings
<1>1. Message(Topic("s", 1, path), payload) \in Messages
  BY TopicMade DEF Message, Messages, Payloads, Texts, Paths
<1>2. /\ inbound' \in Seq(Messages) /\ Len(inbound') <= MaxInbound
      /\ \A i \in 1..Len(inbound') : Sound(inbound'[i].topic)
  BY <1>1, DeliverKeeps
<1>3. TypeOK' /\ TaskTyped'
  BY <1>2 DEF TypeOK, TaskTyped
<1>4. AllSound' /\ Composed'
  BY <1>2 DEF AllSound, Sound, Composed, PresenceTopic
<1>5. QED
  BY <1>3, <1>4

\* A report puts its whole topic in the buffer, whatever was there, and publishes
\* what it finds there: something that answers no question.
LEMMA ReportKeeps ==
  ASSUME LinkInv, (\E e \in {0, 1} : ReportChange(e)) \/ ReportUnblocked PROVE LinkInv'
<1> USE DEF LinkInv, settings, counters
<1>1. UNCHANGED <<client, link, macs, subs, task, light_onoff, lightStrength, connects>>
  BY DEF ReportChange, ReportUnblocked
<1>2. macs \in Nat
  BY LinkAssumption DEF TypeOK
<1>3. \/ topicTemp' = topicTemp
      \/ topicTemp' = Topic("d", macs, ExistChange)
  BY DEF ReportChange, ReportUnblocked
<1>4. Sound(topicTemp')
  <2>1. CASE topicTemp' = topicTemp
    BY <2>1 DEF AllSound
  <2>2. CASE topicTemp' = Topic("d", macs, ExistChange)
    <3>1. /\ topicTemp' \in Topics /\ topicTemp'.macs = macs
          /\ topicTemp'.path = ExistChange
      BY <1>2, <2>2, TopicMade DEF Paths
    <3>2. QED
      BY <1>2, <3>1 DEF Sound
  <2>3. QED
    BY <1>3, <2>1, <2>2
<1>5. man_exist' \in {0, 1} /\ uart' \in [at : {"idle", "blocked"}, exist : {0, 1}]
  BY DEF ReportChange, ReportUnblocked, TypeOK
<1>6. inbound' = inbound \/ \E e \in {0, 1} : Publish(topicTemp', ExistJson(e))
  <2>1. CASE \E e \in {0, 1} : ReportChange(e)
    BY <2>1 DEF ReportChange
  <2>2. CASE ReportUnblocked
    BY <2>2 DEF ReportUnblocked, TypeOK
  <2>3. QED
    BY <2>1, <2>2
<1>7. /\ inbound' \in Seq(Messages) /\ Len(inbound') <= MaxInbound
      /\ \A i \in 1..Len(inbound') : Sound(inbound'[i].topic)
  <2>1. CASE inbound' = inbound
    BY <2>1 DEF AllSound, TypeOK
  <2>2. CASE \E e \in {0, 1} : Publish(topicTemp', ExistJson(e))
    <3>1. PICK e \in {0, 1} : Publish(topicTemp', ExistJson(e))
      BY <2>2
    <3>2. ExistJson(e) \in Texts
      BY DEF ExistJson, Texts
    <3>3. QED
      BY <1>1, <1>4, <3>1, <3>2, PublishKeeps
  <2>3. QED
    BY <1>6, <2>1, <2>2
<1>8. TypeOK' /\ TaskTyped'
  BY <1>1, <1>4, <1>5, <1>7 DEF TypeOK, TaskTyped, Sound
<1>9. AllSound'
  BY <1>1, <1>4, <1>7 DEF AllSound, Sound
<1>10. Composed'
  <2>1. CASE topicTemp' = topicTemp
    BY <1>1, <2>1 DEF Composed, PresenceTopic
  <2>2. CASE topicTemp' = Topic("d", macs, ExistChange)
    BY <1>1, <2>2 DEF Composed, PresenceTopic
  <2>3. QED
    BY <1>3, <2>1, <2>2
<1>11. QED
  BY <1>8, <1>9, <1>10

-----------------------------------------------------------------------------
(* The theorems.                                                           *)

\* Every step of the client, the tasks and the server keeps the invariant.
LEMMA LinkSteps == ASSUME LinkInv, [Next]_vars PROVE LinkInv'
<1>1. CASE MqttAppStart \/ LinkBreaks \/ Disconnected
  BY <1>1, ConnectionKeeps
<1>2. CASE Connected
  BY <1>2, ConnectedKeeps
<1>3. CASE StoreTopic
  BY <1>3, StoreKeeps
<1>4. CASE HandlerStep
  BY <1>4, ComposeKeeps, UseKeeps, ParseKeeps DEF HandlerStep
<1>5. CASE (\E e \in {0, 1} : ReportChange(e)) \/ ReportUnblocked
  BY <1>5, ReportKeeps
<1>6. CASE \E path \in CommandPaths : \E payload \in Payloads(path) : Command(path, payload)
  BY <1>6, CommandKeeps
<1>7. CASE Poll \/ UNCHANGED vars
  BY <1>7 DEF Poll, vars, LinkInv, TypeOK, TaskTyped, AllSound, Sound, Composed,
              PresenceTopic
<1>8. QED
  BY <1>1, <1>2, <1>3, <1>4, <1>5, <1>6, <1>7 DEF Next

\* The invariant holds of every number of connections, commands and reports.
THEOREM LinkInvariant == Spec => []LinkInv
<1>1. Init => LinkInv
  BY LinkStarts
<1>2. LinkInv /\ [Next]_vars => LinkInv'
  BY LinkSteps
<1>3. QED
  BY <1>1, <1>2, PTL DEF Spec

\* The client, the tasks and the settings keep their types.
THEOREM LinkTypeCorrect == Spec => []TypeOK
<1>1. LinkInv => TypeOK
  BY DEF LinkInv
<1>2. QED
  BY <1>1, LinkInvariant, PTL

\* For every number of connections: what stands in the shared buffer is no longer
\* than a report's topic torn with the longest of the server's.
THEOREM TopicsGrowByMacs == Spec => []TopicGrowth
<1>1. LinkInv => TopicGrowth
  <2> SUFFICES ASSUME LinkInv PROVE TopicGrowth
    OBVIOUS
  <2>1. macs \in Nat /\ macs = connects /\ Sound(topicTemp)
    BY LinkAssumption DEF LinkInv, TypeOK, AllSound
  <2>2. QED
    BY <2>1, SoundBounded DEF TopicGrowth
<1>2. QED
  BY <1>1, LinkInvariant, PTL

\* The 128 bytes of the buffer are enough for the first six connections of a boot,
\* whatever the two tasks do to each other's topics.
THEOREM SixConnectionsFit == Spec => [](connects <= 6 => LenOf(topicTemp) < 128)
<1>1. LinkInv /\ TopicGrowth => (connects <= 6 => LenOf(topicTemp) < 128)
  <2> SUFFICES ASSUME LinkInv, TopicGrowth, connects <= 6 PROVE LenOf(topicTemp) < 128
    OBVIOUS
  <2>1. connects \in 0..6
    BY LinkAssumption DEF LinkInv, TypeOK, AllSound
  <2>2. LenOf(topicTemp) \in Int
    <3>1. topicTemp \in Topics
      BY DEF LinkInv, TypeOK
    <3>2. topicTemp.macs \in Nat /\ PathLen(topicTemp.path) \in 0..19
          /\ PathLen(topicTemp.tail) \in 0..19
      BY <3>1, PathLengths DEF Topics
    <3>3. QED
      BY <3>2 DEF LenOf
  <2>3. LongestTopic(connects) = 16 + 12 * connects + 18 + 19
    BY PathLengths DEF LongestTopic
  <2>4. QED
    BY <2>1, <2>2, <2>3 DEF TopicGrowth
<1>2. QED
  BY <1>1, LinkInvariant, TopicsGrowByMacs, PTL

\* They are not enough for longer: from the eighth connection on the fifth
\* subscription's strcat always ends behind the buffer, and from the seventh on it
\* does when a report got in between strcpy and strcat.
THEOREM LaterConnectionsOverflow ==
  Spec => [][CatPath /\ Head(task.work) = InfoLightStrength
             /\ (connects >= 8 \/ (connects = 7 /\ topicTemp = PresenceTopic))
                => LenOf(topicTemp') >= 128]_vars
<1>1. LinkInv => (CatPath /\ Head(task.work) = InfoLightStrength
                  /\ (connects >= 8 \/ (connects = 7 /\ topicTemp = PresenceTopic))
                     => LenOf(topicTemp') >= 128)
  <2> SUFFICES ASSUME LinkInv, CatPath, Head(task.work) = InfoLightStrength,
                      connects >= 8 \/ (connects = 7 /\ topicTemp = PresenceTopic)
               PROVE  LenOf(topicTemp') >= 128
    OBVIOUS
  <2>1. macs \in Nat /\ macs = connects
    BY LinkAssumption DEF LinkInv, TypeOK, AllSound
  <2>2. topicTemp' = StrCat(topicTemp, InfoLightStrength)
    BY DEF CatPath
  <2>3. CASE topicTemp = PresenceTopic
    <3>1. /\ topicTemp \in Topics /\ topicTemp.macs = macs /\ topicTemp.path = ExistChange
      BY <2>1, <2>3, TopicMade DEF PresenceTopic, Paths
    <3>2. topicTemp' = [topicTemp EXCEPT !.tail = InfoLightStrength]
      BY <2>2, <3>1, PathsKnown DEF StrCat, Paths
    <3>3. LenOf(topicTemp') = 16 + 12 * macs + 18 + 19
      BY <3>1, <3>2, PathLengths DEF LenOf, Topics
    <3>4. QED
      BY <2>1, <3>3
  <2>4. CASE topicTemp = TopicHead(SideOf(task.mode), macs) /\ connects >= 8
    <3>1. topicTemp' = [topicTemp EXCEPT !.path = InfoLightStrength]
      BY <2>2, <2>4 DEF StrCat, TopicHead
    <3>2. LenOf(topicTemp') = 16 + 12 * macs + 19 + 0
      BY <2>4, <3>1, PathLengths DEF LenOf, TopicHead
    <3>3. QED
      BY <2>1, <2>4, <3>2
  <2>5. topicTemp \in {TopicHead(SideOf(task.mode), macs), PresenceTopic}
    BY DEF LinkInv, Composed, CatPath
  <2>6. CASE topicTemp # PresenceTopic
    BY <2>4, <2>5, <2>6
  <2>7. QED
    BY <2>3, <2>6
<1>2. QED
  BY <1>1, LinkInvariant, PTL DEF Spec

\* However the UART task's reports fall between the steps of a reply, the reply is
\* published as the answer to its own question, as a report of presence, or on a
\* topic torn of the two.
THEOREM RepliesMatch == Spec => RepliesNotSwapped
<1>1. LinkInv => (Reply => topicTemp \in {Topic("d", macs, Head(task.work)), PresenceTopic,
                                          StrCat(PresenceTopic, Head(task.work))})
  BY DEF LinkInv, Composed, Reply
<1>2. QED
  BY <1>1, LinkInvariant, PTL DEF Spec, RepliesNotSwapped
=============================================================================
