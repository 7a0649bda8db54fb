-------------------------- MODULE WifiStationProofs --------------------------
(***************************************************************************)
(* Proofs about WifiStation, for every MAXIMUM_RETRY.                      *)
(***************************************************************************)
EXTENDS WifiStation, SequenceTheorems, TLAPS

\* What the main task's place says about registrations and the group.
Registration ==
    /\ staPc = "idle" => registered = {} /\ staEvents = <<>> /\ driver = "off"
    /\ staPc = "unregister_wifi" => registered \subseteq {"WIFI"}
    /\ staPc \in {"delete", "returned"} => registered = {}
    /\ staPc \in {"wait", "stop", "unregister_ip", "unregister_wifi", "delete"} =>
           staGroup = "live"

\* The driver posts at most a lost address's two events before it needs the
\* handler, so the queue has one of five shapes.
QueueShape ==
    \/ driver = "off" /\ staEvents = <<>>
    \/ driver = "idle" /\ staEvents \in {<<>>, <<"STA_START">>, <<"DISCONNECTED">>,
                                         <<"GOT_IP", "DISCONNECTED">>}
    \/ driver \in {"connecting", "associated"} /\ staEvents = <<>>
    \/ driver = "up" /\ staEvents \in {<<>>, <<"GOT_IP">>}

\* The retries are the failures but for the last one, after which all is quiet.
RetryCount ==
    IF "FAIL" \in staBits
    THEN /\ failures = MAXIMUM_RETRY + 1
         /\ s_retry_num = MAXIMUM_RETRY
         /\ driver \in {"idle", "off"}
         /\ staEvents = <<>>
         /\ staPc # "idle"
    ELSE failures = s_retry_num

\* The result is set by the time the wait is over, and failure is the bit's.
FailResult ==
    /\ (staResult = "YM_ERR_WIFI_STA_CONNECT_FAIL" \/ staPc = "stop") => "FAIL" \in staBits
    /\ staPc \notin {"idle", "wait"} => staResult # "none"

StaInv == StaTypeOK /\ Registration /\ QueueShape /\ RetryCount /\ FailResult

\* Power-on establishes it.
LEMMA StaInitInv == StaInit => StaInv
BY RetryAssumption DEF StaInit, StaInv, StaTypeOK, Registration, QueueShape, RetryCount, FailResult

\* StaReset is StaInit, primed.
LEMMA StaResetInv == StaReset => StaInv'
BY RetryAssumption DEF StaReset, StaInv, StaTypeOK, Registration, QueueShape, RetryCount, FailResult

\* The main task's steps: both bases are unregistered before the group goes.
LEMMA StaMainInv == StaInv /\ StaMainStep => StaInv'
<1> SUFFICES ASSUME StaInv, StaMainStep PROVE StaInv'
  OBVIOUS
<1> USE RetryAssumption DEF StaInv, StaTypeOK, Events
<1>1. CASE StationStart
  BY <1>1 DEF StationStart, Registration, QueueShape, RetryCount, FailResult
<1>2. CASE BitsSeen
  BY <1>2 DEF BitsSeen, Registration, QueueShape, RetryCount, FailResult
<1>3. CASE StopDriver
  BY <1>3 DEF StopDriver, Registration, QueueShape, RetryCount, FailResult
<1>4. CASE UnregisterIp
  BY <1>4 DEF UnregisterIp, Registration, QueueShape, RetryCount, FailResult
<1>5. CASE UnregisterWifi
  BY <1>5 DEF UnregisterWifi, Registration, QueueShape, RetryCount, FailResult
<1>6. CASE DeleteGroup
  BY <1>6 DEF DeleteGroup, Registration, QueueShape, RetryCount, FailResult
<1>7. QED
  BY <1>1, <1>2, <1>3, <1>4, <1>5, <1>6 DEF StaMainStep

\* What taking an event off the queue tells about the driver, and leaves behind.
LEMMA DispatchShape ==
    ASSUME QueueShape, NEW event \in Events, Dispatch(event)
    PROVE  /\ staEvents # <<>>
           /\ \/ event = "STA_START" /\ driver = "idle" /\ staEvents' = <<>>
              \/ event = "DISCONNECTED" /\ driver = "idle" /\ staEvents' = <<>>
              \/ event = "GOT_IP" /\ driver = "idle" /\ staEvents' = <<"DISCONNECTED">>
              \/ event = "GOT_IP" /\ driver = "up" /\ staEvents' = <<>>
<1>1. CASE staEvents = <<"STA_START">>
  BY <1>1 DEF QueueShape, Dispatch, Events
<1>2. CASE staEvents = <<"DISCONNECTED">>
  BY <1>2 DEF QueueShape, Dispatch, Events
<1>3. CASE staEvents = <<"GOT_IP">>
  BY <1>3 DEF QueueShape, Dispatch, Events
<1>4. CASE staEvents = <<"GOT_IP", "DISCONNECTED">>
  <2>1. /\ Head(staEvents) = "GOT_IP"
        /\ Tail(staEvents) = <<"DISCONNECTED">>
        /\ staEvents # <<>>
    BY <1>4
  <2>2. driver = "idle"
    BY <1>4 DEF QueueShape
  <2>3. QED
    BY <2>1, <2>2 DEF Dispatch
<1>5. QED
  BY <1>1, <1>2, <1>3, <1>4 DEF QueueShape, Dispatch

\* Appending to the queues that occur.
LEMMA AppendShape ==
    /\ Append(<<>>, "STA_START") = <<"STA_START">>
    /\ Append(<<>>, "DISCONNECTED") = <<"DISCONNECTED">>
    /\ Append(<<>>, "GOT_IP") = <<"GOT_IP">>
    /\ Append(<<"GOT_IP">>, "DISCONNECTED") = <<"GOT_IP", "DISCONNECTED">>
<1>1. /\ Append(<<>>, "STA_START") = <<"STA_START">>
      /\ Append(<<>>, "DISCONNECTED") = <<"DISCONNECTED">>
      /\ Append(<<>>, "GOT_IP") = <<"GOT_IP">>
  OBVIOUS
<1>2. Append(<<"GOT_IP">>, "DISCONNECTED") = <<"GOT_IP", "DISCONNECTED">>
  <2>1. /\ <<"GOT_IP">> \in Seq(Events) /\ Len(<<"GOT_IP">>) = 1
        /\ <<"GOT_IP", "DISCONNECTED">> \in Seq(Events)
        /\ Len(<<"GOT_IP", "DISCONNECTED">>) = 2
        /\ "DISCONNECTED" \in Events
    BY DEF Events
  <2>2. /\ Append(<<"GOT_IP">>, "DISCONNECTED") \in Seq(Events)
        /\ Len(Append(<<"GOT_IP">>, "DISCONNECTED")) = 2
    BY <2>1
  <2>3. /\ Append(<<"GOT_IP">>, "DISCONNECTED")[1] = "GOT_IP"
        /\ Append(<<"GOT_IP">>, "DISCONNECTED")[2] = "DISCONNECTED"
    BY <2>1
  <2>4. \A i \in 1..2 :
            Append(<<"GOT_IP">>, "DISCONNECTED")[i] = <<"GOT_IP", "DISCONNECTED">>[i]
    BY <2>3
  <2>5. QED
    BY <2>1, <2>2, <2>4, SeqEqual
<1>3. QED
  BY <1>1, <1>2

\* Queues of these shapes are queues of events.
LEMMA ShapeIsSeq == QueueShape => staEvents \in Seq(Events)
<1>1. /\ <<>> \in Seq(Events)
      /\ <<"STA_START">> \in Seq(Events)
      /\ <<"DISCONNECTED">> \in Seq(Events)
      /\ <<"GOT_IP">> \in Seq(Events)
      /\ <<"GOT_IP", "DISCONNECTED">> \in Seq(Events)
  BY DEF Events
<1>2. QED
  BY <1>1 DEF QueueShape

\* The handler's steps: each disconnection is counted once.
LEMMA StaEventInv == StaInv /\ StaEventStep => StaInv'
<1> SUFFICES ASSUME StaInv, StaEventStep PROVE StaInv'
  OBVIOUS
<1> USE RetryAssumption DEF StaInv, StaTypeOK
<1>q. QueueShape' => (staEvents \in Seq(Events))'
  BY ShapeIsSeq, PTL
<1>e. Events = {"STA_START", "DISCONNECTED", "GOT_IP"}
  BY DEF Events
<1>1. CASE HandleStaStart
  <2>1. Dispatch("STA_START")
    BY <1>1 DEF HandleStaStart
  <2>2. driver = "idle" /\ staEvents # <<>> /\ staEvents' = <<>>
    BY <2>1, <1>e, DispatchShape
  <2>3. QueueShape'
    BY <1>1, <2>2 DEF HandleStaStart, QueueShape
  <2>4. QED
    BY <1>1, <1>q, <2>2, <2>3 DEF HandleStaStart, Registration, RetryCount, FailResult
<1>2. CASE HandleDisconnected
  <2>1. Dispatch("DISCONNECTED")
    BY <1>2 DEF HandleDisconnected
  <2>2. driver = "idle" /\ staEvents # <<>> /\ staEvents' = <<>>
    BY <2>1, <1>e, DispatchShape
  <2>3. QueueShape'
    BY <1>2, <2>2 DEF HandleDisconnected, QueueShape
  <2>4. staPc # "idle" /\ "FAIL" \notin staBits /\ failures = s_retry_num
    BY <2>2 DEF Registration, RetryCount
  <2>5. StaTypeOK'
    <3>1. s_retry_num' \in 0..MAXIMUM_RETRY /\ failures' \in Nat
      BY <1>2 DEF HandleDisconnected
    <3>2. driver' \in {"idle", "connecting"} /\ staBits' \subseteq {"CONNECTED", "FAIL"}
      BY <1>2, <2>2 DEF HandleDisconnected
    <3>3. QED
      BY <1>2, <1>q, <2>3, <3>1, <3>2 DEF HandleDisconnected
  <2>6. Registration'
    BY <1>2, <2>4 DEF HandleDisconnected, Registration
  <2>7. RetryCount'
    BY <1>2, <2>2, <2>4 DEF HandleDisconnected, RetryCount
  <2>8. FailResult'
    BY <1>2, <2>4 DEF HandleDisconnected, FailResult
  <2>9. QED
    BY <2>3, <2>5, <2>6, <2>7, <2>8
<1>3. CASE HandleGotIp
  <2>1. Dispatch("GOT_IP")
    BY <1>3 DEF HandleGotIp
  <2>2. /\ staEvents # <<>>
        /\ \/ driver = "idle" /\ staEvents' = <<"DISCONNECTED">>
           \/ driver = "up" /\ staEvents' = <<>>
    BY <2>1, <1>e, DispatchShape
  <2>3. QueueShape'
    BY <1>3, <2>2 DEF HandleGotIp, QueueShape
  <2>4. QED
    BY <1>3, <1>q, <2>2, <2>3
    DEF HandleGotIp, BaseOf, Registration, RetryCount, FailResult
<1>4. CASE DropEvent
  <2>1. PICK event \in Events : Dispatch(event) /\ BaseOf(event) \notin registered
    BY <1>4 DEF DropEvent
  <2>2. /\ staEvents # <<>>
        /\ \/ driver = "idle" /\ staEvents' \in {<<>>, <<"DISCONNECTED">>}
           \/ driver = "up" /\ staEvents' = <<>>
    BY <2>1, DispatchShape
  <2>3. QueueShape'
    BY <1>4, <2>2 DEF DropEvent, QueueShape
  <2>4. QED
    BY <1>4, <1>q, <2>2, <2>3 DEF DropEvent, Registration, RetryCount, FailResult
<1>5. QED
  BY <1>1, <1>2, <1>3, <1>4 DEF StaEventStep

\* The driver posts one disconnection or one address per attempt.
LEMMA StaDriverInv ==
    StaInv /\ (ApAccepts \/ ApRejects \/ DhcpAnswers \/ LinkLost) => StaInv'
<1> SUFFICES ASSUME StaInv, ApAccepts \/ ApRejects \/ DhcpAnswers \/ LinkLost PROVE StaInv'
  OBVIOUS
<1> USE RetryAssumption DEF StaInv, StaTypeOK, DriverStep
<1>q. QueueShape' => (staEvents \in Seq(Events))'
  BY ShapeIsSeq, PTL
<1>1. QueueShape'
  BY AppendShape DEF ApAccepts, ApRejects, DhcpAnswers, LinkLost, QueueShape
<1>2. driver \in {"connecting", "associated", "up"}
  BY DEF ApAccepts, ApRejects, DhcpAnswers, LinkLost
<1>3. driver' \in {"idle", "associated", "up"}
  BY DEF ApAccepts, ApRejects, DhcpAnswers, LinkLost
<1>4. UNCHANGED <<staPc, staGroup, staBits, s_retry_num, registered, failures, staResult>>
  BY DEF ApAccepts, ApRejects, DhcpAnswers, LinkLost
<1>5. QED
  BY <1>q, <1>1, <1>2, <1>3, <1>4 DEF Registration, RetryCount, FailResult

\* Nothing in it depends on anything but staVars.
LEMMA StaStutterInv == StaInv /\ UNCHANGED staVars => StaInv'
BY DEF StaInv, StaTypeOK, Registration, QueueShape, RetryCount, FailResult, staVars, Events

\* The invariant of joining: group and registrations follow the program counter of
\* wifi_init_sta, the retry counter counts the disconnections handled, and the
\* pending events fit the state of the driver.
THEOREM StaInvariant == StaSpec => []StaInv
<1>1. StaInit => StaInv
  BY StaInitInv
<1>2. StaInv /\ [StaNext]_staVars => StaInv'
  BY StaMainInv, StaEventInv, StaDriverInv, StaStutterInv DEF StaNext, StaReturned
<1>3. QED
  BY <1>1, <1>2, PTL DEF StaSpec

\* wifi_sta_event_handle never meets a deleted event group.
THEOREM HandlerHasGroup == StaSpec => []GroupAliveForHandler
<1>1. StaInv => GroupAliveForHandler
  BY DEF StaInv, StaTypeOK, Registration, GroupAliveForHandler
<1>2. QED
  BY <1>1, StaInvariant, PTL

\* Failure means MAXIMUM_RETRY + 1 failed attempts in a row.
THEOREM FailureIsExhaustion == StaSpec => []FailAfterAllRetries
<1>1. StaInv => FailAfterAllRetries
  BY DEF StaInv, RetryCount, FailAfterAllRetries
<1>2. QED
  BY <1>1, StaInvariant, PTL

\* wifi_init_sta stops the driver only when nothing is under way.
THEOREM FailureIsQuiet == StaSpec => []GivesUpWhenQuiet
<1>1. StaInv => GivesUpWhenQuiet
  BY DEF StaInv, FailResult, RetryCount, GivesUpWhenQuiet
<1>2. QED
  BY <1>1, StaInvariant, PTL
=============================================================================
