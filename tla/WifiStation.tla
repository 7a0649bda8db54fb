---------------------------- MODULE WifiStation ----------------------------
(***************************************************************************)
(* Joining the configured network: wifi_init_sta (net_tool.c), which the   *)
(* main task runs, and wifi_sta_event_handle, which the event-loop task    *)
(* runs for each event of the Wi-Fi driver.  The two share an event group  *)
(* and the counter s_retry_num.  The driver, the access point and the DHCP *)
(* server are external.                                                    *)
(***************************************************************************)
EXTENDS Naturals, Sequences

CONSTANT MAXIMUM_RETRY      \* EXAMPLE_ESP_MAXIMUM_RETRY

ASSUME RetryAssumption == MAXIMUM_RETRY \in Nat

VARIABLES
    staPc,          \* where the main task is in wifi_init_sta
    staGroup,       \* the event group s_wifi_event_group
    staBits,        \* its bits
    s_retry_num,
    registered,     \* the event bases wifi_sta_event_handle is registered for
    staEvents,      \* posted by the driver, not yet dispatched
    driver,         \* the Wi-Fi driver
    failures,       \* disconnections handled since the last address (history)
    staResult       \* what wifi_init_sta returns

staVars == <<staPc, staGroup, staBits, s_retry_num, registered, staEvents,
             driver, failures, staResult>>

Events == {"STA_START", "DISCONNECTED", "GOT_IP"}
BaseOf(event) == IF event = "GOT_IP" THEN "IP" ELSE "WIFI"

StaTypeOK ==
    /\ staPc \in {"idle", "wait", "stop", "unregister_ip", "unregister_wifi",
                  "delete", "returned"}
    /\ staGroup \in {"none", "live", "deleted"}
    /\ staBits \subseteq {"CONNECTED", "FAIL"}
    /\ s_retry_num \in 0..MAXIMUM_RETRY
    /\ registered \subseteq {"WIFI", "IP"}
    /\ staEvents \in Seq(Events)
    /\ driver \in {"off", "idle", "connecting", "associated", "up"}
    /\ failures \in Nat
    /\ staResult \in {"none", "YM_OK", "YM_ERR_WIFI_STA_CONNECT_FAIL"}

StaInit ==
    /\ staPc = "idle"
    /\ staGroup = "none"
    /\ staBits = {}
    /\ s_retry_num = 0
    /\ registered = {}
    /\ staEvents = <<>>
    /\ driver = "off"
    /\ failures = 0
    /\ staResult = "none"

\* A restart of the device.
StaReset ==
    /\ staPc' = "idle"
    /\ staGroup' = "none"
    /\ staBits' = {}
    /\ s_retry_num' = 0
    /\ registered' = {}
    /\ staEvents' = <<>>
    /\ driver' = "off"
    /\ failures' = 0
    /\ staResult' = "none"

-----------------------------------------------------------------------------
(* The main task, in wifi_init_sta.                                        *)

\* Create the group, register for both bases, start the driver.
StationStart ==
    /\ staPc = "idle"
    /\ staPc' = "wait"
    /\ staGroup' = "live"
    /\ staBits' = {}
    /\ registered' = {"WIFI", "IP"}
    /\ driver' = "idle"
    /\ staEvents' = Append(staEvents, "STA_START")
    /\ UNCHANGED <<s_retry_num, failures, staResult>>

\* xEventGroupWaitBits for either bit, for ever; CONNECTED is looked at first.
BitsSeen ==
    /\ staPc = "wait"
    /\ staBits # {}
    /\ IF "CONNECTED" \in staBits
       THEN staResult' = "YM_OK" /\ staPc' = "unregister_ip"
       ELSE staResult' = "YM_ERR_WIFI_STA_CONNECT_FAIL" /\ staPc' = "stop"
    /\ UNCHANGED <<staGroup, staBits, s_retry_num, registered, staEvents, driver, failures>>

StopDriver ==
    /\ staPc = "stop"
    /\ staPc' = "unregister_ip"
    /\ driver' = "off"
    /\ UNCHANGED <<staGroup, staBits, s_retry_num, registered, staEvents, failures, staResult>>

UnregisterIp ==
    /\ staPc = "unregister_ip"
    /\ staPc' = "unregister_wifi"
    /\ registered' = registered \ {"IP"}
    /\ UNCHANGED <<staGroup, staBits, s_retry_num, staEvents, driver, failures, staResult>>

\* Wrong variant: the second unregistration names the IP base again.
UnregisterIpTwice ==
    /\ staPc = "unregister_wifi"
    /\ staPc' = "delete"
    /\ registered' = registered \ {"IP"}
    /\ UNCHANGED <<staGroup, staBits, s_retry_num, staEvents, driver, failures, staResult>>

UnregisterWifi ==
    /\ staPc = "unregister_wifi"
    /\ staPc' = "delete"
    /\ registered' = registered \ {"WIFI"}
    /\ UNCHANGED <<staGroup, staBits, s_retry_num, staEvents, driver, failures, staResult>>

DeleteGroup ==
    /\ staPc = "delete"
    /\ staPc' = "returned"
    /\ staGroup' = "deleted"
    /\ UNCHANGED <<staBits, s_retry_num, registered, staEvents, driver, failures, staResult>>

-----------------------------------------------------------------------------
(* The event-loop task: one event at a time, in the order of posting.  The *)
(* loop's mutex keeps a dispatch and an unregistration apart.              *)

Dispatch(event) ==
    /\ staEvents # <<>>
    /\ Head(staEvents) = event
    /\ staEvents' = Tail(staEvents)

HandleStaStart ==
    /\ Dispatch("STA_START")
    /\ BaseOf("STA_START") \in registered
    /\ driver' = "connecting"
    /\ UNCHANGED <<staPc, staGroup, staBits, s_retry_num, registered, failures, staResult>>

\* Wrong variant: one retry too many.
RetryOnceMore ==
    /\ Dispatch("DISCONNECTED")
    /\ BaseOf("DISCONNECTED") \in registered
    /\ IF s_retry_num <= MAXIMUM_RETRY
       THEN /\ driver' = "connecting"
            /\ s_retry_num' = s_retry_num + 1
            /\ UNCHANGED staBits
       ELSE /\ staBits' = staBits \cup {"FAIL"}
            /\ UNCHANGED <<driver, s_retry_num>>
    /\ failures' = failures + 1
    /\ UNCHANGED <<staPc, staGroup, registered, staResult>>

\* Wrong variant: the last retry is started and failure reported at once.
FailWithLastRetry ==
    /\ Dispatch("DISCONNECTED")
    /\ BaseOf("DISCONNECTED") \in registered
    /\ IF s_retry_num < MAXIMUM_RETRY
       THEN driver' = "connecting" /\ s_retry_num' = s_retry_num + 1
       ELSE UNCHANGED <<driver, s_retry_num>>
    /\ staBits' = IF s_retry_num + 1 >= MAXIMUM_RETRY THEN staBits \cup {"FAIL"} ELSE staBits
    /\ failures' = failures + 1
    /\ UNCHANGED <<staPc, staGroup, registered, staResult>>

\* Wrong variant: the exhausted handler only logs.
GiveUpSilently ==
    /\ Dispatch("DISCONNECTED")
    /\ BaseOf("DISCONNECTED") \in registered
    /\ IF s_retry_num < MAXIMUM_RETRY
       THEN driver' = "connecting" /\ s_retry_num' = s_retry_num + 1
       ELSE UNCHANGED <<driver, s_retry_num>>
    /\ failures' = failures + 1
    /\ UNCHANGED <<staPc, staGroup, staBits, registered, staResult>>

HandleDisconnected ==
    /\ Dispatch("DISCONNECTED")
    /\ BaseOf("DISCONNECTED") \in registered
    /\ IF s_retry_num < MAXIMUM_RETRY
       THEN /\ driver' = "connecting"
            /\ s_retry_num' = s_retry_num + 1
            /\ UNCHANGED staBits
       ELSE /\ staBits' = staBits \cup {"FAIL"}
            /\ UNCHANGED <<driver, s_retry_num>>
    /\ failures' = failures + 1
    /\ UNCHANGED <<staPc, staGroup, registered, staResult>>

HandleGotIp ==
    /\ Dispatch("GOT_IP")
    /\ BaseOf("GOT_IP") \in registered
    /\ s_retry_num' = 0
    /\ failures' = 0
    /\ staBits' = staBits \cup {"CONNECTED"}
    /\ UNCHANGED <<staPc, staGroup, registered, driver, staResult>>

\* Nobody is registered for the event's base.
DropEvent ==
    /\ \E event \in Events : Dispatch(event) /\ BaseOf(event) \notin registered
    /\ UNCHANGED <<staPc, staGroup, staBits, s_retry_num, registered, driver,
                   failures, staResult>>

-----------------------------------------------------------------------------
(* External: the driver, the access point and its DHCP server.             *)

DriverStep(from, to) ==
    /\ driver = from
    /\ driver' = to
    /\ UNCHANGED <<staPc, staGroup, staBits, s_retry_num, registered, failures, staResult>>

ApAccepts == DriverStep("connecting", "associated") /\ UNCHANGED staEvents

ApRejects ==
    /\ DriverStep("connecting", "idle")
    /\ staEvents' = Append(staEvents, "DISCONNECTED")

DhcpAnswers ==
    /\ DriverStep("associated", "up")
    /\ staEvents' = Append(staEvents, "GOT_IP")

LinkLost ==
    /\ DriverStep("associated", "idle") \/ DriverStep("up", "idle")
    /\ staEvents' = Append(staEvents, "DISCONNECTED")

-----------------------------------------------------------------------------
StaMainStep ==
    StationStart \/ BitsSeen \/ StopDriver \/ UnregisterIp \/ UnregisterWifi \/ DeleteGroup

StaEventStep == HandleStaStart \/ HandleDisconnected \/ HandleGotIp \/ DropEvent

StaReturned == staPc = "returned" /\ UNCHANGED staVars

StaNext ==
    \/ StaMainStep
    \/ StaEventStep
    \/ ApAccepts \/ ApRejects \/ DhcpAnswers \/ LinkLost
    \/ StaReturned

StaSpec == StaInit /\ [][StaNext]_staVars

\* Ready tasks run; an attempt to connect ends, one way or the other; an
\* associated station gets an address or loses the link.
StaFairSpec ==
    /\ StaSpec
    /\ WF_staVars(StaMainStep)
    /\ WF_staVars(StaEventStep)
    /\ WF_staVars(ApAccepts \/ ApRejects)
    /\ WF_staVars(DhcpAnswers \/ LinkLost)

-----------------------------------------------------------------------------
(* Properties.                                                             *)

\* wifi_init_sta deletes the event group that its handler sets bits in: as long
\* as the handler can still be called, the group is there.
GroupAliveForHandler == registered # {} => staGroup = "live"

\* Failure is reported after exactly MAXIMUM_RETRY retries of the first attempt,
\* none of them lost or counted twice, a success in between starting the count
\* anew (net_tool.c:182-188 and 198).
FailAfterAllRetries ==
    "FAIL" \in staBits => /\ failures = MAXIMUM_RETRY + 1
                          /\ s_retry_num = MAXIMUM_RETRY

\* When wifi_init_sta gives up and stops the driver, no attempt is under way
\* and no event is left that could still bring a connection.
GivesUpWhenQuiet ==
    staResult = "YM_ERR_WIFI_STA_CONNECT_FAIL" =>
        /\ driver \in {"idle", "off"}
        /\ staEvents = <<>>

\* The wait with portMAX_DELAY ends: some bit is set in the end.
StationReturns == staPc = "wait" ~> staPc = "returned"

(* What the comments promise and the code does not keep.                   *)

\* net_tool.c:179-181: on a disconnection, as long as the maximum is not reached,
\* the station reconnects.
LostLinkIsRetried ==
    (driver = "idle" /\ s_retry_num < MAXIMUM_RETRY) ~> (driver # "idle")
=============================================================================
