-------------------------------- MODULE Boot --------------------------------
(***************************************************************************)
(* app_main (main_app.c) from power-on until all of the lamp runs: read    *)
(* the credentials from NVS, try to join, erase and provision again when   *)
(* that fails, write what was provisioned and restart; once joined, wait   *)
(* for the time and start UART, MQTT and timer.  It composes WebSetup and  *)
(* WifiStation, whose steps are taken while app_main is in the call, and   *)
(* adds SNTP, the NVS contents, which survive a restart, and the loss of   *)
(* power, which may come between any two steps.                            *)
(***************************************************************************)
EXTENDS WebSetup, WifiStation

CONSTANTS
    Routers,            \* the pairs with which some access point can be joined
    MaxPowerLoss,       \* bound: how often the power fails
    MaxMistakes         \* bound: submissions that are no router's pair

ASSUME BootAssumption ==
    /\ Routers \subseteq Pair
    /\ \A r \in Routers : r.ssid # Empty
    /\ MaxPowerLoss \in Nat
    /\ MaxMistakes \in Nat

VARIABLES
    pc,         \* where app_main is
    control,    \* its local: did the last attempt to join fail?
    sntp,       \* the SNTP client: "off", "reset" (no news) or "completed"
    store,      \* NVS namespace "netconfig"
    given,      \* pairs handed to wificonfwrite(WIFI_CONFIG_CHANGE) (history)
    losses, mistakes

bootVars == <<pc, control, sntp, store, given, losses, mistakes>>
vars == <<webVars, staVars, bootVars>>

\* After wifi_init_sta: SNTP, then one start after the other.
Joined == {"sntp_init", "sntp_log", "sntp_wait", "start_uart_event", "mqtt_app_start",
           "start_event_list", "running"}
BootPcs == {"nvs_init", "check", "make_ssid", "make_passwd", "setup", "write_ssid",
            "write_passwd", "restart", "station"} \cup Joined

TypeOK ==
    /\ WebTypeOK
    /\ StaTypeOK
    /\ pc \in BootPcs
    /\ control \in {"WIFI_IS_GOOD", "WIFI_NOT_GOOD"}
    /\ sntp \in {"off", "reset", "completed"}
    /\ store \in Stored
    /\ given \subseteq Pair
    /\ losses \in 0..MaxPowerLoss
    /\ mistakes \in 0..MaxMistakes

Init ==
    /\ WebInit
    /\ StaInit
    /\ pc = "nvs_init"
    /\ control = "WIFI_IS_GOOD"
    /\ sntp = "off"
    /\ store = NothingStored
    /\ given = {}
    /\ losses = 0
    /\ mistakes = 0

\* RAM and the peripherals after any restart; NVS keeps its contents.
Reset ==
    /\ WebReset
    /\ StaReset
    /\ pc' = "nvs_init"
    /\ control' = "WIFI_IS_GOOD"
    /\ sntp' = "off"

-----------------------------------------------------------------------------
(* app_main.                                                               *)

\* nvs_init_all, which erases a partition without a free page, and must_init.
NvsInit ==
    /\ pc = "nvs_init"
    /\ pc' = "check"
    /\ \/ store' = store
       \/ "nvs_pages" \in Faults /\ store' = NothingStored
    /\ UNCHANGED <<webVars, staVars, control, sntp, given, losses, mistakes>>

\* One turn of the loop down to the branch on err_ym.  A NOT_GOOD control
\* overrides what wificonfcheck says.
WhereTo(err) ==
    IF control = "WIFI_NOT_GOOD" THEN "make_ssid"
    ELSE IF err = "YM_OK" THEN "station" ELSE "setup"

CheckConfig ==
    /\ pc = "check"
    /\ \/ /\ ram' = LoadInto(ram, store)
          /\ pc' = WhereTo(wificonfcheck(store))
       \/ /\ "nvs_open" \in Faults
          /\ pc' = WhereTo("YM_ERR_NVS_FAIL")
          /\ UNCHANGED ram
    /\ UNCHANGED <<webPc, webGroup, input, server, handler, ssid_buf, passwd_buf,
                   submitted, staVars, control, sntp, store, given, losses, mistakes>>

\* One nvs_set_str.  It is atomic; it may fail, and nobody looks.
SetStr(key, text) ==
    \/ store' = [store EXCEPT ![key] = text]
    \/ "nvs_set" \in Faults /\ store' = store

\* wificonfwrite(NULL, WIFI_CONFIG_MAKE), in two steps; its result is ignored.
MakeSsid ==
    /\ pc = "make_ssid"
    /\ \/ SetStr("ssid", Empty) /\ pc' = "make_passwd"
       \/ "nvs_open" \in Faults /\ store' = store /\ pc' = "setup"
    /\ UNCHANGED <<webVars, staVars, control, sntp, given, losses, mistakes>>

\* Wrong variant: the password is left for the next write to replace.
MakePasswdSkipped ==
    /\ pc = "make_passwd"
    /\ store' = store
    /\ pc' = "setup"
    /\ UNCHANGED <<webVars, staVars, control, sntp, given, losses, mistakes>>

MakePasswd ==
    /\ pc = "make_passwd"
    /\ SetStr("passwd", Empty)
    /\ pc' = "setup"
    /\ UNCHANGED <<webVars, staVars, control, sntp, given, losses, mistakes>>

\* wifi_apNetsetup_start has returned; wificonfwrite opens NVS and tests the pair.
SetupDone ==
    /\ pc = "setup"
    /\ webPc = "returned"
    /\ IF Writable(ram)
       THEN \/ pc' = "write_ssid" /\ given' = given \cup {ram}
            \/ "nvs_open" \in Faults /\ pc' = "restart" /\ given' = given
       ELSE pc' = "restart" /\ given' = given
    /\ UNCHANGED <<webVars, staVars, control, sntp, store, losses, mistakes>>

WriteSsid ==
    /\ pc = "write_ssid"
    /\ SetStr("ssid", ram.ssid)
    /\ pc' = "write_passwd"
    /\ UNCHANGED <<webVars, staVars, control, sntp, given, losses, mistakes>>

WritePasswd ==
    /\ pc = "write_passwd"
    /\ SetStr("passwd", ram.passwd)
    /\ pc' = "restart"
    /\ UNCHANGED <<webVars, staVars, control, sntp, given, losses, mistakes>>

\* esp_restart, whatever wificonfwrite returned.
Restart ==
    /\ pc = "restart"
    /\ Reset
    /\ UNCHANGED <<store, given, losses, mistakes>>

\* Wrong variant: the link is looked at once more.
StationDoneIfStillUp ==
    /\ pc = "station"
    /\ staPc = "returned"
    /\ IF staResult = "YM_OK" /\ driver = "up"
       THEN pc' = "sntp_init" /\ UNCHANGED control
       ELSE pc' = "check" /\ control' = "WIFI_NOT_GOOD"
    /\ UNCHANGED <<webVars, staVars, sntp, store, given, losses, mistakes>>

StationDone ==
    /\ pc = "station"
    /\ staPc = "returned"
    /\ IF staResult = "YM_OK"
       THEN pc' = "sntp_init" /\ UNCHANGED control
       ELSE pc' = "check" /\ control' = "WIFI_NOT_GOOD"
    /\ UNCHANGED <<webVars, staVars, sntp, store, given, losses, mistakes>>

-----------------------------------------------------------------------------
(* app_main, once joined.                                                  *)

Starting(from, to) ==
    /\ pc = from
    /\ pc' = to
    /\ UNCHANGED <<webVars, staVars, control, store, given, losses, mistakes>>

\* initialize_sntp, up to sntp_init.
SntpInit == Starting("sntp_init", "sntp_log") /\ sntp' = "reset"

\* sntp_get_sync_status: to read "completed" resets it.
StatusRead == sntp' = IF sntp = "completed" THEN "reset" ELSE sntp

\* The log line before the loop reads the status, too.
SntpLog == Starting("sntp_log", "sntp_wait") /\ StatusRead

\* Wrong variant: the status is logged right before each test.
SntpWaitLogging == Starting("sntp_wait", "sntp_wait") /\ sntp = "completed" /\ StatusRead

\* The loop is left, and sntp_stop called.
SntpWait ==
    /\ Starting("sntp_wait", "start_uart_event")
    /\ sntp = "completed"
    /\ sntp' = "off"

\* Another turn of the loop.
SntpPoll == pc = "sntp_wait" /\ sntp # "completed" /\ UNCHANGED vars

StartUartEvent == Starting("start_uart_event", "mqtt_app_start") /\ UNCHANGED sntp
MqttAppStart == Starting("mqtt_app_start", "start_event_list") /\ UNCHANGED sntp
StartEventList == Starting("start_event_list", "running") /\ UNCHANGED sntp

\* The client polls again and again while it runs and the link is up.
SntpAnswers ==
    /\ sntp = "reset"
    /\ driver = "up"
    /\ sntp' = "completed"
    /\ UNCHANGED <<webVars, staVars, pc, control, store, given, losses, mistakes>>

-----------------------------------------------------------------------------
(* The calls, their concurrent tasks and their environment.                *)

InSetup(step) == pc = "setup" /\ step /\ UNCHANGED <<staVars, bootVars>>

SetupTask == InSetup(WebMainStep)
HttpTask == InSetup(WebHandlerStep)

IsMistake(q) ==
    q.query /\ ~(TakesSsid(q) /\ TakesPasswd(q) /\ OnTheWire(q) \in Routers)

\* A phone loads the page or submits the form; mistakes are bounded.
Visit(q) ==
    /\ pc = "setup"
    /\ Receive(q)
    /\ IsMistake(q) => mistakes < MaxMistakes
    /\ mistakes' = IF IsMistake(q) THEN mistakes + 1 ELSE mistakes
    /\ UNCHANGED <<staVars, pc, control, sntp, store, given, losses>>

GoodVisit == \E q \in Requests : q.query /\ ~IsMistake(q) /\ Visit(q)

InStation(step) ==
    /\ pc \in {"station"} \cup Joined
    /\ step
    /\ UNCHANGED <<webVars, bootVars>>

StationTask == pc = "station" /\ InStation(StaMainStep)
EventTask == InStation(StaEventStep)

\* The access point lets in who has its password; it may refuse anyone.
Accept == ram \in Routers /\ InStation(ApAccepts)
Reject == InStation(ApRejects)
Dhcp == InStation(DhcpAnswers)
Loss == InStation(LinkLost)

PowerLoss ==
    /\ losses < MaxPowerLoss
    /\ losses' = losses + 1
    /\ Reset
    /\ UNCHANGED <<store, given, mistakes>>

\* From here on the other tasks carry the lamp.
Running == pc = "running" /\ UNCHANGED vars

\* The link is lost once the handlers are gone: nobody joins again.
Stranded == pc \in Joined /\ driver = "idle"

-----------------------------------------------------------------------------
AppMain ==
    \/ NvsInit \/ CheckConfig \/ MakeSsid \/ MakePasswd
    \/ SetupDone \/ WriteSsid \/ WritePasswd \/ Restart \/ StationDone
    \/ SntpInit \/ SntpLog \/ SntpWait
    \/ StartUartEvent \/ MqttAppStart \/ StartEventList

MainTask == AppMain \/ SetupTask \/ StationTask

Next ==
    \/ MainTask
    \/ HttpTask \/ EventTask
    \/ \E q \in Requests : Visit(q)
    \/ Accept \/ Reject \/ Dhcp \/ Loss
    \/ PowerLoss \/ SntpAnswers
    \/ Running \/ SntpPoll

Spec == Init /\ [][Next]_vars

\* Tasks and driver as in WebFairSpec and StaFairSpec.  Somebody who finds the
\* page again and again submits a router's pair again and again; an access
\* point and its DHCP server asked again and again let the device in, and a time
\* server asked again and again answers.
FairSpec ==
    /\ Spec
    /\ WF_vars(MainTask)
    /\ WF_vars(HttpTask)
    /\ WF_vars(EventTask)
    /\ WF_vars(Accept \/ Reject)
    /\ SF_vars(GoodVisit)
    /\ SF_vars(Accept)
    /\ SF_vars(Dhcp)
    /\ SF_vars(SntpAnswers)

-----------------------------------------------------------------------------
(* Properties.                                                             *)

\* wificonfcheck accepts it, and it names a network.
Usable(pair) == Accepted(pair) /\ pair.ssid # Empty

\* Wherever the power fails, a usable pair in NVS was handed whole to
\* wificonfwrite: no ssid meets the password of another such pair, although
\* the two are written by separate nvs_set_str calls.
UsableWasGiven == Usable(store) => store \in given

\* A usable pair is given up only after wifi_init_sta has failed
\* through all its retries: no restart, half write or wrong branch costs the
\* user the configuration.
GoodConfigIsKept ==
    [][Usable(store) /\ store' # store
         => pc = "make_ssid" /\ failures = MAXIMUM_RETRY + 1]_vars

\* The text that wificonfcheck lets nvs_get_str copy fits sta.ssid[32] and
\* sta.password[64], whatever was submitted and wherever the power failed.
StoredFits ==
    /\ store.ssid # None => SizeOf(store.ssid) <= 32
    /\ store.passwd # None => SizeOf(store.passwd) <= 64

\* After finitely many mistakes and power failures all of the lamp runs, although
\* the log line of initialize_sntp may swallow an answer, unless the link is lost
\* between joining and the first answer.
EventuallyRunning == <>(pc = "running" \/ Stranded)

\* What NVS holds counts as a configuration once it is usable.
Configuration == IF Usable(store) THEN store ELSE NothingStored

\* The boot implements Provisioning, wherever the power fails; connected is who
\* has come out of wifi_init_sta with success.
Prov == INSTANCE Provisioning WITH
            Offers <- Pair, Networks <- Routers, Nothing <- NothingStored,
            config <- Configuration, offered <- given, connected <- pc \in Joined

ImplementsProvisioning == Prov!Spec

(* What the comments promise and the code does not keep.                   *)

\* main_app.c:70: without an access configuration the device provisions itself.
\* It never tries to join with the blank name that marks there is none.
NoNameNoStation == pc = "station" => ram.ssid # Empty
=============================================================================
