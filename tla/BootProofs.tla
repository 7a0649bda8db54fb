----------------------------- MODULE BootProofs -----------------------------
(***************************************************************************)
(* Proofs about Boot: for all texts, requests, routers, retries, and for   *)
(* any number of power failures.                                           *)
(***************************************************************************)
EXTENDS Boot, WebSetupProofs, WifiStationProofs

LocalTypeOK ==
    /\ pc \in BootPcs
    /\ control \in {"WIFI_IS_GOOD", "WIFI_NOT_GOOD"}
    /\ sntp \in {"off", "reset", "completed"}
    /\ store \in Stored
    /\ given \subseteq Pair
    /\ losses \in 0..MaxPowerLoss
    /\ mistakes \in 0..MaxMistakes

\* The two calls keep their invariants inside app_main, and what NVS holds fits
\* the buffers it is read into.  Holds under every fault.
SafeInv == WebInv /\ StaInv /\ LocalTypeOK /\ StoredFits

\* Power-on establishes it.
LEMMA SafeInit == Init => SafeInv
<1> SUFFICES ASSUME Init PROVE SafeInv
  OBVIOUS
<1>1. WebInv /\ StaInv
  BY WebInitInv, StaInitInv DEF Init
<1>2. LocalTypeOK
  BY BootAssumption DEF Init, LocalTypeOK, BootPcs, Stored, NothingStored
<1>3. StoredFits
  BY DEF Init, StoredFits, NothingStored
<1>4. QED
  BY <1>1, <1>2, <1>3 DEF SafeInv

\* What nvs_set_str leaves behind.
LEMMA SetStrFits ==
    ASSUME NEW key \in {"ssid", "passwd"}, NEW text \in Text, SetStr(key, text),
           store \in Stored, StoredFits,
           key = "ssid" => SizeOf(text) <= 32,
           key = "passwd" => SizeOf(text) <= 64
    PROVE  store' \in Stored /\ StoredFits'
<1>1. CASE key = "ssid"
  BY <1>1 DEF SetStr, Stored, StoredFits
<1>2. CASE key = "passwd"
  BY <1>2 DEF SetStr, Stored, StoredFits
<1>3. QED
  BY <1>1, <1>2

\* What nvs_get_str copies into the caller's pair fits it.
LEMMA LoadFits ==
    ASSUME ram \in Pair, store \in Stored, StoredFits, BuffersFit
    PROVE  /\ LoadInto(ram, store) \in Pair
           /\ SizeOf(LoadInto(ram, store).ssid) <= 32
           /\ SizeOf(LoadInto(ram, store).passwd) <= 64
BY DEF LoadInto, Pair, Stored, StoredFits, BuffersFit

\* The starts that follow joining.
JoinedSteps ==
    SntpInit \/ SntpLog \/ SntpWait \/ StartUartEvent \/ MqttAppStart \/ StartEventList

\* They touch nothing but the place and the SNTP client.
LEMMA JoinedStepsMove ==
    ASSUME JoinedSteps, sntp \in {"off", "reset", "completed"}
    PROVE  /\ UNCHANGED <<webVars, staVars, control, store, given, losses, mistakes>>
           /\ pc \in Joined /\ pc' \in Joined
           /\ sntp' \in {"off", "reset", "completed"}
BY DEF JoinedSteps, SntpInit, SntpLog, SntpWait, StartUartEvent, MqttAppStart, StartEventList,
       Starting, StatusRead, Joined

\* The steps of app_main itself, the environment's bookkeeping included.
LEMMA SafeAppMain == SafeInv /\ AppMain => SafeInv'
<1> SUFFICES ASSUME SafeInv, AppMain PROVE SafeInv'
  OBVIOUS
<1> USE DEF SafeInv, LocalTypeOK, BootPcs, Joined
<1>a. UNCHANGED webVars => WebInv'
  BY WebStutterInv
<1>b. UNCHANGED staVars => StaInv'
  BY StaStutterInv
<1>c. UNCHANGED store => StoredFits'
  BY DEF StoredFits
<1>d. ram \in Pair /\ BuffersFit
  BY DEF WebInv, WebTypeOK
<1>1. CASE NvsInit
  <2>1. store' \in Stored /\ StoredFits'
    BY <1>1, <1>c DEF NvsInit, Stored, NothingStored, StoredFits
  <2>2. QED
    BY <1>1, <1>a, <1>b, <2>1 DEF NvsInit
<1>2. CASE CheckConfig
  <2>1. WebInv'
    <3>1. ram' \in Pair /\ SizeOf(ram'.ssid) <= 32 /\ SizeOf(ram'.passwd) <= 64
      BY <1>2, <1>d, LoadFits DEF CheckConfig, BuffersFit
    <3>2. QED
      BY <1>2, <3>1 DEF CheckConfig, WebInv, WebTypeOK, GroupLife, BuffersFit
  <2>2. pc' \in BootPcs
    BY <1>2 DEF CheckConfig, WhereTo
  <2>3. QED
    BY <1>2, <1>b, <1>c, <2>1, <2>2 DEF CheckConfig
<1>3. CASE MakeSsid
  <2>1. store' \in Stored /\ StoredFits'
    BY <1>3, <1>c, BlankFits, SetStrFits DEF MakeSsid
  <2>2. QED
    BY <1>3, <1>a, <1>b, <2>1 DEF MakeSsid
<1>4. CASE MakePasswd
  <2>1. store' \in Stored /\ StoredFits'
    BY <1>4, BlankFits, SetStrFits DEF MakePasswd
  <2>2. QED
    BY <1>4, <1>a, <1>b, <2>1 DEF MakePasswd
<1>5. CASE SetupDone
  BY <1>5, <1>a, <1>b, <1>c, <1>d DEF SetupDone
<1>6. CASE WriteSsid
  <2>1. store' \in Stored /\ StoredFits'
    BY <1>6, <1>d, SetStrFits DEF WriteSsid, Pair, BuffersFit
  <2>2. QED
    BY <1>6, <1>a, <1>b, <2>1 DEF WriteSsid
<1>7. CASE WritePasswd
  <2>1. store' \in Stored /\ StoredFits'
    BY <1>7, <1>d, SetStrFits DEF WritePasswd, Pair, BuffersFit
  <2>2. QED
    BY <1>7, <1>a, <1>b, <2>1 DEF WritePasswd
<1>8. CASE Restart
  BY <1>8, <1>c, WebResetInv, StaResetInv DEF Restart, Reset
<1>9. CASE StationDone
  BY <1>9, <1>a, <1>b, <1>c DEF StationDone
<1>10. CASE JoinedSteps
  BY <1>10, <1>a, <1>b, <1>c, JoinedStepsMove
<1>11. QED
  BY <1>1, <1>2, <1>3, <1>4, <1>5, <1>6, <1>7, <1>8, <1>9, <1>10 DEF AppMain, JoinedSteps

\* The steps of the two calls and of their surroundings.
LEMMA SafeCalls ==
    ASSUME SafeInv,
           \/ SetupTask \/ HttpTask \/ StationTask \/ EventTask
           \/ Accept \/ Reject \/ Dhcp \/ Loss \/ SntpAnswers
    PROVE  SafeInv'
<1> USE DEF SafeInv
<1>1. ASSUME UNCHANGED bootVars PROVE LocalTypeOK' /\ StoredFits'
  BY <1>1 DEF bootVars, LocalTypeOK, StoredFits
<1>2. CASE SetupTask \/ HttpTask
  BY <1>1, <1>2, WebMainInv, WebHandlerInv, StaStutterInv DEF SetupTask, HttpTask, InSetup
<1>3. CASE StationTask
  BY <1>1, <1>3, StaMainInv, WebStutterInv DEF StationTask, InStation
<1>4. CASE EventTask
  BY <1>1, <1>4, StaEventInv, WebStutterInv DEF EventTask, InStation
<1>5. CASE Accept \/ Reject \/ Dhcp \/ Loss
  BY <1>1, <1>5, StaDriverInv, WebStutterInv DEF Accept, Reject, Dhcp, Loss, InStation
<1>6. CASE SntpAnswers
  BY <1>6, WebStutterInv, StaStutterInv DEF SntpAnswers, LocalTypeOK, StoredFits
<1>7. QED
  BY <1>2, <1>3, <1>4, <1>5, <1>6

\* A request only moves the handler.
LEMMA SafeVisit == ASSUME NEW q \in Requests, SafeInv, Visit(q) PROVE SafeInv'
<1>1. WebInv'
  BY ReceiveInv DEF Visit, SafeInv
<1>2. StaInv'
  BY StaStutterInv DEF Visit, SafeInv
<1>3. mistakes' \in 0..MaxMistakes
  BY BootAssumption DEF Visit, SafeInv, LocalTypeOK
<1>4. QED
  BY <1>1, <1>2, <1>3 DEF Visit, SafeInv, LocalTypeOK, StoredFits

\* A restart from any state re-establishes it, whatever NVS holds.
LEMMA SafePowerLoss == SafeInv /\ PowerLoss => SafeInv'
<1> SUFFICES ASSUME SafeInv, PowerLoss PROVE SafeInv'
  OBVIOUS
<1>1. WebInv' /\ StaInv'
  BY WebResetInv, StaResetInv DEF PowerLoss, Reset
<1>2. losses' \in 0..MaxPowerLoss
  BY BootAssumption DEF PowerLoss, SafeInv, LocalTypeOK
<1>3. QED
  BY <1>1, <1>2 DEF PowerLoss, Reset, SafeInv, LocalTypeOK, BootPcs, StoredFits

\* Nothing in it depends on anything but the variables.
LEMMA SafeStutter == SafeInv /\ UNCHANGED vars => SafeInv'
<1> SUFFICES ASSUME SafeInv, UNCHANGED vars PROVE SafeInv'
  OBVIOUS
<1>1. WebInv' /\ StaInv'
  BY WebStutterInv, StaStutterInv DEF vars, SafeInv
<1>2. QED
  BY <1>1 DEF vars, bootVars, SafeInv, LocalTypeOK, StoredFits

\* Both calls keep their invariants inside app_main and what NVS holds fits the
\* arrays it is read into, under every fault and any number of power failures.
THEOREM SafeInvariant == Spec => []SafeInv
<1>1. Init => SafeInv
  BY SafeInit
<1>2. SafeInv /\ [Next]_vars => SafeInv'
  BY SafeAppMain, SafeCalls, SafeVisit, SafePowerLoss, SafeStutter
  DEF Next, MainTask, Running, SntpPoll
<1>3. QED
  BY <1>1, <1>2, PTL DEF Spec

\* Type correctness of app_main with both of its calls.
THEOREM TypeCorrect == Spec => []TypeOK
<1>1. SafeInv => TypeOK
  BY DEF SafeInv, LocalTypeOK, WebInv, StaInv, TypeOK
<1>2. QED
  BY <1>1, SafeInvariant, PTL

\* wificonfcheck never reads more out of NVS than sta.ssid and sta.password hold.
THEOREM StoreFitsBuffers == Spec => []StoredFits
<1>1. SafeInv => StoredFits
  BY DEF SafeInv
<1>2. QED
  BY <1>1, SafeInvariant, PTL

-----------------------------------------------------------------------------
(* The stored pair and the submitted ones.                                 *)

PasswdUsable(p) == p # None /\ PasswdSizeOk(p)

\* The argument: provisioning is only entered with a password in NVS that
\* wificonfcheck refuses whatever the ssid, and the ssid is written first.  So
\* the first usable pair after it is the one of the last write.
GivenInv ==
    /\ store.ssid = None => store.passwd = None
    /\ pc \in {"setup", "write_ssid", "write_passwd"} => ~PasswdUsable(store.passwd)
    /\ pc \in {"write_ssid", "write_passwd"} => ram \in given
    /\ pc = "write_passwd" => store.ssid = ram.ssid
    /\ pc = "make_passwd" => store.ssid = Empty
    /\ UsableWasGiven

\* Why the configuration is given up: the last wifi_init_sta of this boot failed.
BlameInv ==
    /\ control = "WIFI_NOT_GOOD" =>
           /\ staResult = "YM_ERR_WIFI_STA_CONNECT_FAIL"
           /\ pc \notin {"station"} \cup Joined
    /\ pc = "make_ssid" => control = "WIFI_NOT_GOOD"

NvsWorks == Faults \cap {"nvs_open", "nvs_set"} = {}

\* A blanked or missing password is never accepted.
LEMMA EmptyUnusable == ~PasswdUsable(Empty) /\ ~PasswdUsable(None)
BY TextAssumption DEF PasswdUsable, PasswdSizeOk, SizeOf

\* Since every stored name fits, wificonfcheck refuses only for the password.
LEMMA RefusedMeansUnusable ==
    ASSUME store \in Stored, StoredFits, store.ssid = None => store.passwd = None,
           ~Accepted(store)
    PROVE  ~PasswdUsable(store.passwd)
BY TextAssumption DEF Accepted, SsidSizeOk, SizeOf, PasswdUsable, StoredFits, Stored

\* The steps of app_main: erasing blanks the name first and writing replaces the
\* password last, so that a mixture never has a usable password.
LEMMA GivenAppMain == NvsWorks /\ SafeInv /\ GivenInv /\ AppMain => GivenInv'
<1> SUFFICES ASSUME NvsWorks, SafeInv, GivenInv, AppMain PROVE GivenInv'
  OBVIOUS
<1>n. "nvs_open" \notin Faults /\ "nvs_set" \notin Faults
  BY DEF NvsWorks
<1>t. store \in Stored /\ ram \in Pair /\ given \subseteq Pair /\ StoredFits
  BY DEF SafeInv, LocalTypeOK, WebInv, WebTypeOK
<1>u. PasswdUsable(store.passwd) = (store.passwd # None /\ PasswdSizeOk(store.passwd))
  BY DEF PasswdUsable
<1> USE DEF GivenInv, UsableWasGiven
<1>1. CASE NvsInit
  <2>1. CASE store' = store
    BY <1>1, <2>1 DEF NvsInit
  <2>2. CASE store' = NothingStored
    BY <1>1, <2>2, EmptyUnusable DEF NvsInit, NothingStored, Usable, Accepted
  <2>3. QED
    BY <1>1, <2>1, <2>2 DEF NvsInit
<1>2. CASE CheckConfig
  <2>1. store' = store /\ given' = given
    BY <1>2 DEF CheckConfig
  <2>2. pc' = "setup" => ~PasswdUsable(store.passwd)
    BY <1>2, <1>n, <1>t, RefusedMeansUnusable DEF CheckConfig, WhereTo, wificonfcheck
  <2>3. pc' \in {"make_ssid", "station", "setup"}
    BY <1>2 DEF CheckConfig, WhereTo
  <2>4. QED
    BY <2>1, <2>2, <2>3
<1>3. CASE MakeSsid
  <2>1. store' = [store EXCEPT !.ssid = Empty] /\ pc' = "make_passwd" /\ given' = given
    BY <1>3, <1>n DEF MakeSsid, SetStr
  <2>2. store'.ssid = Empty /\ Empty # None
    BY <1>t, <2>1, TextAssumption DEF Stored
  <2>3. QED
    BY <2>1, <2>2 DEF Usable
<1>4. CASE MakePasswd
  <2>1. store' = [store EXCEPT !.passwd = Empty] /\ pc' = "setup" /\ given' = given
    BY <1>4, <1>n DEF MakePasswd, SetStr
  <2>2. store'.passwd = Empty /\ store'.ssid = Empty
    BY <1>4, <1>t, <2>1 DEF Stored, MakePasswd
  <2>3. QED
    BY <2>1, <2>2, EmptyUnusable, TextAssumption DEF Usable
<1>5. CASE SetupDone
  BY <1>5, <1>n, <1>t DEF SetupDone, webVars
<1>6. CASE WriteSsid
  <2>1. /\ store' = [store EXCEPT !.ssid = ram.ssid] /\ pc' = "write_passwd"
        /\ given' = given /\ ram' = ram
    BY <1>6, <1>n DEF WriteSsid, SetStr, webVars
  <2>2. store'.passwd = store.passwd /\ store'.ssid = ram.ssid /\ ram.ssid # None
    BY <1>t, <2>1, TextAssumption DEF Stored, Pair
  <2>3. ~PasswdUsable(store'.passwd) /\ ram' \in given'
    BY <1>6, <2>1, <2>2 DEF WriteSsid
  <2>4. ~Usable(store')
    BY <2>3 DEF Usable, Accepted, PasswdUsable
  <2>5. QED
    BY <2>1, <2>2, <2>3, <2>4
<1>7. CASE WritePasswd
  <2>1. /\ store' = [store EXCEPT !.passwd = ram.passwd] /\ pc' = "restart"
        /\ given' = given /\ ram \in given /\ store.ssid = ram.ssid
    BY <1>7, <1>n DEF WritePasswd, SetStr
  <2>2. store' = ram /\ ram.ssid # None
    BY <1>t, <2>1, TextAssumption DEF Stored, Pair
  <2>3. QED
    BY <2>1, <2>2
<1>8. CASE Restart
  BY <1>8 DEF Restart, Reset
<1>9. CASE StationDone
  BY <1>9 DEF StationDone
<1>10. CASE JoinedSteps
  BY <1>10, JoinedStepsMove DEF SafeInv, LocalTypeOK, Joined, webVars
<1>11. QED
  BY <1>1, <1>2, <1>3, <1>4, <1>5, <1>6, <1>7, <1>8, <1>9, <1>10 DEF AppMain, JoinedSteps

\* Outside app_main the store is not touched, and the caller's pair only while
\* provisioning is under way.
LEMMA GivenOthers ==
    ASSUME GivenInv,
           \/ SetupTask \/ HttpTask \/ StationTask \/ EventTask
           \/ Accept \/ Reject \/ Dhcp \/ Loss \/ SntpAnswers
           \/ (\E q \in Requests : Visit(q))
           \/ PowerLoss
           \/ UNCHANGED vars
    PROVE  GivenInv'
<1> USE DEF GivenInv, UsableWasGiven
<1>1. CASE SetupTask \/ HttpTask
  BY <1>1 DEF SetupTask, HttpTask, InSetup, bootVars
<1>2. CASE StationTask \/ EventTask \/ Accept \/ Reject \/ Dhcp \/ Loss
  BY <1>2 DEF StationTask, EventTask, Accept, Reject, Dhcp, Loss, InStation, bootVars, webVars
<1>3. CASE \E q \in Requests : Visit(q)
  BY <1>3 DEF Visit
<1>4. CASE PowerLoss
  BY <1>4 DEF PowerLoss, Reset
<1>5. CASE UNCHANGED vars
  BY <1>5 DEF vars, bootVars, webVars
<1>6. CASE SntpAnswers
  BY <1>6 DEF SntpAnswers, webVars
<1>7. QED
  BY <1>1, <1>2, <1>3, <1>4, <1>5, <1>6

\* A usable pair in NVS is one that was handed to wificonfwrite whole, wherever
\* the power failed, as long as NVS itself does what it is asked.
THEOREM StoredPairIsWhole == NvsWorks => (Spec => []UsableWasGiven)
<1> SUFFICES ASSUME NvsWorks PROVE Spec => []UsableWasGiven
  OBVIOUS
<1>1. Init => GivenInv
  BY DEF Init, GivenInv, UsableWasGiven, NothingStored, Usable, Accepted
<1>2. SafeInv /\ GivenInv /\ [Next]_vars => GivenInv'
  BY GivenAppMain, GivenOthers DEF Next, MainTask, Running, SntpPoll
<1>3. GivenInv => UsableWasGiven
  BY DEF GivenInv
<1>4. QED
  BY <1>1, <1>2, <1>3, SafeInvariant, PTL DEF Spec

-----------------------------------------------------------------------------
(* A usable pair is erased only after the retries are exhausted.           *)

\* wifi_init_sta is blamed (control is NOT_GOOD) only with its retries exhausted.
LEMMA BlameStep == SafeInv /\ BlameInv /\ [Next]_vars => BlameInv'
<1> SUFFICES ASSUME SafeInv, BlameInv, [Next]_vars PROVE BlameInv'
  OBVIOUS
<1> USE DEF BlameInv, Joined
<1>1. CASE NvsInit
  BY <1>1 DEF NvsInit, staVars
<1>2. CASE CheckConfig
  BY <1>2 DEF CheckConfig, WhereTo, staVars
<1>3. CASE MakeSsid \/ MakePasswd \/ WriteSsid \/ WritePasswd
  BY <1>3 DEF MakeSsid, MakePasswd, WriteSsid, WritePasswd, staVars
<1>4. CASE SetupDone
  BY <1>4 DEF SetupDone, staVars
<1>5. CASE Restart \/ PowerLoss
  BY <1>5 DEF Restart, PowerLoss, Reset
<1>6. CASE StationDone
  <2>1. staResult \in {"YM_OK", "YM_ERR_WIFI_STA_CONNECT_FAIL"}
    BY <1>6 DEF StationDone, SafeInv, StaInv, StaTypeOK, FailResult
  <2>2. QED
    BY <1>6, <2>1 DEF StationDone, staVars
<1>7. CASE SetupTask \/ HttpTask
  BY <1>7 DEF SetupTask, HttpTask, InSetup, bootVars, staVars
<1>8. CASE StationTask \/ EventTask \/ Accept \/ Reject \/ Dhcp \/ Loss
  BY <1>8 DEF StationTask, EventTask, Accept, Reject, Dhcp, Loss, InStation, bootVars
<1>9. CASE \E q \in Requests : Visit(q)
  BY <1>9 DEF Visit, staVars
<1>10. CASE UNCHANGED vars
  BY <1>10 DEF vars, bootVars, staVars
<1>11. CASE JoinedSteps
  BY <1>11, JoinedStepsMove DEF SafeInv, LocalTypeOK, staVars
<1>12. CASE SntpAnswers
  BY <1>12 DEF SntpAnswers, staVars
<1>13. QED
  BY <1>1, <1>2, <1>3, <1>4, <1>5, <1>6, <1>7, <1>8, <1>9, <1>10, <1>11, <1>12
  DEF Next, MainTask, AppMain, JoinedSteps, Running, SntpPoll

\* Which steps touch the store at all.
LEMMA StoreChanges ==
    ASSUME [Next]_vars, store' # store
    PROVE  NvsInit \/ MakeSsid \/ MakePasswd \/ WriteSsid \/ WritePasswd
<1>1. ASSUME UNCHANGED bootVars PROVE FALSE
  BY <1>1 DEF bootVars
<1>2. ~(SetupTask \/ HttpTask \/ StationTask \/ EventTask \/ Accept \/ Reject \/ Dhcp \/ Loss)
  BY <1>1 DEF SetupTask, HttpTask, StationTask, EventTask, Accept, Reject, Dhcp, Loss,
              InSetup, InStation
<1>3. ~(CheckConfig \/ SetupDone \/ Restart \/ StationDone)
  BY DEF CheckConfig, SetupDone, Restart, StationDone
<1>4. ~((\E q \in Requests : Visit(q)) \/ PowerLoss \/ SntpAnswers \/ JoinedSteps)
  BY DEF Visit, PowerLoss, SntpAnswers, JoinedSteps, SntpInit, SntpLog, SntpWait,
         StartUartEvent, MqttAppStart, StartEventList, Starting
<1>5. ~UNCHANGED vars
  BY <1>1 DEF vars
<1>6. QED
  BY <1>2, <1>3, <1>4, <1>5 DEF Next, MainTask, AppMain, JoinedSteps, Running, SntpPoll

\* Unless flash itself fails, nothing but MAXIMUM_RETRY + 1 failed attempts in a
\* row makes the device forget a pair that could be used.
THEOREM ConfigIsKept ==
    Faults \cap {"nvs_pages", "nvs_open", "nvs_set"} = {} => (Spec => GoodConfigIsKept)
<1> SUFFICES ASSUME Faults \cap {"nvs_pages", "nvs_open", "nvs_set"} = {}
             PROVE  Spec => GoodConfigIsKept
  OBVIOUS
<1>n. NvsWorks
  BY DEF NvsWorks
<1>1. Init => GivenInv /\ BlameInv
  BY DEF Init, GivenInv, BlameInv, UsableWasGiven, NothingStored, Usable, Accepted
<1>2. SafeInv /\ GivenInv /\ BlameInv /\ [Next]_vars => GivenInv' /\ BlameInv'
  BY <1>n, GivenAppMain, GivenOthers, BlameStep DEF Next, MainTask, Running, SntpPoll
<1>3. ASSUME SafeInv, GivenInv, BlameInv, [Next]_vars, Usable(store), store' # store
      PROVE  pc = "make_ssid" /\ failures = MAXIMUM_RETRY + 1
  <2>1. NvsInit \/ MakeSsid \/ MakePasswd \/ WriteSsid \/ WritePasswd
    BY <1>3, StoreChanges
  <2>2. ~NvsInit
    BY <1>3 DEF NvsInit
  <2>3. store.ssid # Empty /\ PasswdUsable(store.passwd)
    BY <1>3 DEF Usable, Accepted, PasswdUsable
  <2>4. ~(MakePasswd \/ WriteSsid \/ WritePasswd)
    BY <1>3, <2>3 DEF MakePasswd, WriteSsid, WritePasswd, GivenInv
  <2>5. MakeSsid
    BY <2>1, <2>2, <2>4
  <2>6. staResult = "YM_ERR_WIFI_STA_CONNECT_FAIL"
    BY <1>3, <2>5 DEF MakeSsid, BlameInv
  <2>7. QED
    BY <1>3, <2>5, <2>6 DEF MakeSsid, SafeInv, StaInv, FailResult, RetryCount
<1>4. SafeInv /\ GivenInv /\ BlameInv /\ [Next]_vars =>
        [Usable(store) /\ store' # store
           => pc = "make_ssid" /\ failures = MAXIMUM_RETRY + 1]_vars
  BY <1>3
<1>5. QED
  BY <1>1, <1>2, <1>4, SafeInvariant, PTL DEF Spec, GoodConfigIsKept

-----------------------------------------------------------------------------
(* The boot implements Provisioning.                                       *)

\* What shows that an access point has let the lamp in, from the driver's state to
\* the result of wifi_init_sta.
LetIn ==
    \/ driver \in {"associated", "up"}
    \/ staEvents # <<>> /\ Head(staEvents) = "GOT_IP"
    \/ "CONNECTED" \in staBits
    \/ staResult = "YM_OK"

Joining == {"station"} \cup Joined

\* The argument: before wifi_init_sta is entered nothing has let the lamp in; it is
\* entered with the stored pair, which does not change until the next restart; and
\* only a router's pair is let in.
JoinInv ==
    /\ control = "WIFI_IS_GOOD" /\ pc \notin Joining => ~LetIn
    /\ pc \in Joining => ram = store /\ Accepted(store)
    /\ pc \in Joining /\ LetIn => ram \in Routers

\* Nothing has let in a lamp that has just been switched on.
LEMMA FreshNotLetIn == (StaInit => ~LetIn) /\ (StaReset => ~LetIn')
BY DEF StaInit, StaReset, LetIn

\* The steps inside wifi_init_sta, in the handler and of the driver let nobody in
\* but by ApAccepts.
LEMMA LetInSteps ==
    ASSUME StaInv, ~LetIn,
           StaMainStep \/ StaEventStep \/ ApRejects \/ DhcpAnswers \/ LinkLost
    PROVE  ~LetIn'
<1> USE DEF LetIn
<1>1. CASE StaMainStep
  <2>1. CASE StationStart
    <3>1. staEvents' = <<"STA_START">>
      BY <2>1, AppendShape DEF StationStart, StaInv, Registration
    <3>2. QED
      BY <2>1, <3>1 DEF StationStart
  <2>2. CASE BitsSeen
    BY <2>2 DEF BitsSeen
  <2>3. CASE StopDriver
    BY <2>3 DEF StopDriver
  <2>4. CASE UnregisterIp \/ UnregisterWifi \/ DeleteGroup
    BY <2>4 DEF UnregisterIp, UnregisterWifi, DeleteGroup
  <2>5. QED
    BY <1>1, <2>1, <2>2, <2>3, <2>4 DEF StaMainStep
<1>2. CASE StaEventStep
  <2>e. Events = {"STA_START", "DISCONNECTED", "GOT_IP"} /\ QueueShape
    BY DEF Events, StaInv
  <2>1. CASE HandleStaStart
    <3>1. staEvents' = <<>>
      BY <2>1, <2>e, DispatchShape DEF HandleStaStart
    <3>2. QED
      BY <2>1, <3>1 DEF HandleStaStart
  <2>2. CASE HandleDisconnected
    <3>1. staEvents' = <<>> /\ driver = "idle"
      BY <2>2, <2>e, DispatchShape DEF HandleDisconnected
    <3>2. QED
      BY <2>2, <3>1 DEF HandleDisconnected
  <2>3. ~HandleGotIp
    BY DEF HandleGotIp, Dispatch
  <2>4. CASE DropEvent
    <3>1. PICK event \in Events : Dispatch(event)
      BY <2>4 DEF DropEvent
    <3>2. event # "GOT_IP"
      BY <3>1 DEF Dispatch
    <3>3. staEvents' = <<>>
      BY <3>1, <3>2, <2>e, DispatchShape
    <3>4. QED
      BY <2>4, <3>3 DEF DropEvent
  <2>5. QED
    BY <1>2, <2>1, <2>2, <2>3, <2>4 DEF StaEventStep
<1>3. CASE ApRejects
  <2>1. staEvents' = <<"DISCONNECTED">>
    BY <1>3, AppendShape DEF ApRejects, DriverStep, StaInv, QueueShape
  <2>2. QED
    BY <1>3, <2>1 DEF ApRejects, DriverStep
<1>4. ~DhcpAnswers /\ ~LinkLost
  BY DEF DhcpAnswers, LinkLost, DriverStep
<1>5. QED
  BY <1>1, <1>2, <1>3, <1>4

\* The argument, step by step.
LEMMA JoinStep == SafeInv /\ BlameInv /\ JoinInv /\ [Next]_vars => JoinInv'
<1> SUFFICES ASSUME SafeInv, BlameInv, JoinInv, [Next]_vars PROVE JoinInv'
  OBVIOUS
<1>s. StaInv
  BY DEF SafeInv
<1>a. UNCHANGED staVars => (LetIn' <=> LetIn)
  BY DEF LetIn, staVars
<1> USE DEF JoinInv, Joining
<1>1. CASE NvsInit \/ MakeSsid \/ MakePasswd \/ WriteSsid \/ WritePasswd \/ SetupDone
  BY <1>1, <1>a DEF NvsInit, MakeSsid, MakePasswd, WriteSsid, WritePasswd, SetupDone, Joined
<1>2. CASE CheckConfig
  <2>1. UNCHANGED <<staVars, control, store>> /\ pc = "check"
    BY <1>2 DEF CheckConfig
  <2>2. pc' \in {"make_ssid", "station", "setup"}
    BY <1>2 DEF CheckConfig, WhereTo
  <2>3. pc' = "station" => Accepted(store) /\ ram' = LoadInto(ram, store) /\ control = "WIFI_IS_GOOD"
    BY <1>2, <2>1 DEF CheckConfig, WhereTo, wificonfcheck, SafeInv, LocalTypeOK
  <2>4. Accepted(store) => LoadInto(ram, store) = store
    BY DEF SafeInv, LocalTypeOK, Stored, LoadInto, Accepted
  <2>5. control = "WIFI_IS_GOOD" => ~LetIn'
    BY <1>a, <2>1 DEF Joined
  <2>6. QED
    BY <2>1, <2>2, <2>3, <2>4, <2>5 DEF Joined
<1>3. CASE Restart \/ PowerLoss
  BY <1>3, FreshNotLetIn DEF Restart, PowerLoss, Reset, Joined
<1>4. CASE StationDone
  <2>1. UNCHANGED <<ram, store>> /\ pc = "station" /\ pc' \in {"sntp_init", "check"}
    BY <1>4 DEF StationDone, webVars
  <2>2. pc' = "check" => control' = "WIFI_NOT_GOOD"
    BY <1>4 DEF StationDone
  <2>3. QED
    BY <1>4, <1>a, <2>1, <2>2 DEF StationDone, Joined
<1>5. CASE SetupTask \/ HttpTask
  BY <1>5, <1>a DEF SetupTask, HttpTask, InSetup, bootVars, Joined
<1>6. CASE \E q \in Requests : Visit(q)
  BY <1>6, <1>a DEF Visit, Joined
<1>7. CASE StationTask \/ EventTask \/ Accept \/ Reject \/ Dhcp \/ Loss
  <2>1. pc \in Joining /\ UNCHANGED <<pc, control, ram, store>>
    BY <1>7 DEF StationTask, EventTask, Accept, Reject, Dhcp, Loss, InStation, bootVars, webVars
  <2>2. CASE Accept
    BY <2>1, <2>2 DEF Accept
  <2>3. CASE StationTask \/ EventTask \/ Reject \/ Dhcp \/ Loss
    <3>1. StaMainStep \/ StaEventStep \/ ApRejects \/ DhcpAnswers \/ LinkLost
      BY <2>3 DEF StationTask, EventTask, Reject, Dhcp, Loss, InStation
    <3>2. LetIn' => LetIn
      BY <1>s, <3>1, LetInSteps
    <3>3. QED
      BY <2>1, <3>2
  <2>4. QED
    BY <1>7, <2>2, <2>3
<1>8. CASE JoinedSteps
  BY <1>8, <1>a, JoinedStepsMove DEF SafeInv, LocalTypeOK, webVars
<1>9. CASE SntpAnswers
  BY <1>9, <1>a DEF SntpAnswers, webVars
<1>10. CASE UNCHANGED vars
  BY <1>10, <1>a DEF vars, bootVars, webVars
<1>11. QED
  BY <1>1, <1>2, <1>3, <1>4, <1>5, <1>6, <1>7, <1>8, <1>9, <1>10
  DEF Next, MainTask, AppMain, JoinedSteps, Running, SntpPoll

\* Every step of the boot is one of Provisioning's, or none.
LEMMA ProvisioningStep ==
    NvsWorks /\ SafeInv /\ GivenInv /\ JoinInv /\ [Next]_vars
        => [Prov!Next]_<<Configuration, given, pc \in Joined>>
<1> SUFFICES ASSUME NvsWorks, SafeInv, GivenInv, JoinInv, [Next]_vars
             PROVE  [Prov!Next]_<<Configuration, given, pc \in Joined>>
  OBVIOUS
<1>n. "nvs_open" \notin Faults /\ "nvs_set" \notin Faults
  BY DEF NvsWorks
<1>t. store \in Stored /\ ram \in Pair /\ given \subseteq Pair
  BY DEF SafeInv, LocalTypeOK, WebInv, WebTypeOK
<1>c. UNCHANGED store => UNCHANGED Configuration
  BY DEF Configuration
<1>u. ASSUME UNCHANGED <<store, given>>, (pc \in Joined)' = (pc \in Joined)
      PROVE  UNCHANGED <<Configuration, given, pc \in Joined>>
  BY <1>c, <1>u
<1> USE DEF Prov!Next
<1>1. CASE NvsInit
  <2>1. UNCHANGED given /\ pc \notin Joined /\ pc' \notin Joined
    BY <1>1 DEF NvsInit, Joined
  <2>2. store' = store \/ Configuration' = NothingStored
    BY <1>1 DEF NvsInit, Configuration
  <2>3. QED
    BY <1>c, <2>1, <2>2 DEF Prov!GiveUp
<1>2. CASE MakeSsid
  <2>1. /\ store' = [store EXCEPT !.ssid = Empty] /\ given' = given
        /\ pc \notin Joined /\ pc' \notin Joined
    BY <1>2, <1>n DEF MakeSsid, SetStr, Joined
  <2>2. Configuration' = NothingStored
    BY <1>t, <2>1 DEF Configuration, Usable, Stored
  <2>3. QED
    BY <2>1, <2>2 DEF Prov!GiveUp
<1>3. CASE MakePasswd
  <2>1. /\ store' = [store EXCEPT !.passwd = Empty] /\ given' = given /\ store.ssid = Empty
        /\ pc \notin Joined /\ pc' \notin Joined
    BY <1>3, <1>n DEF MakePasswd, SetStr, Joined, GivenInv
  <2>2. ~Usable(store) /\ ~Usable(store')
    BY <1>t, <2>1 DEF Usable, Stored
  <2>3. QED
    BY <2>1, <2>2 DEF Configuration
<1>4. CASE SetupDone
  <2>1. /\ UNCHANGED store /\ pc \notin Joined /\ pc' \notin Joined
        /\ given' = given \/ given' = given \cup {ram}
    BY <1>4 DEF SetupDone, Joined
  <2>2. QED
    BY <1>t, <1>c, <2>1 DEF Prov!Offer
<1>5. CASE WriteSsid
  <2>1. /\ store' = [store EXCEPT !.ssid = ram.ssid] /\ given' = given
        /\ ~PasswdUsable(store.passwd) /\ pc \notin Joined /\ pc' \notin Joined
    BY <1>5, <1>n DEF WriteSsid, SetStr, Joined, GivenInv
  <2>2. ~Usable(store) /\ ~Usable(store')
    BY <1>t, <2>1 DEF Usable, Accepted, PasswdUsable, Stored
  <2>3. QED
    BY <2>1, <2>2 DEF Configuration
<1>6. CASE WritePasswd
  <2>1. /\ store' = [store EXCEPT !.passwd = ram.passwd] /\ given' = given
        /\ ~PasswdUsable(store.passwd) /\ ram \in given /\ store.ssid = ram.ssid
        /\ pc \notin Joined /\ pc' \notin Joined
    BY <1>6, <1>n DEF WritePasswd, SetStr, Joined, GivenInv
  <2>2. store' = ram
    BY <1>t, <2>1 DEF Stored, Pair
  <2>3. Configuration = NothingStored
    BY <2>1 DEF Configuration, Usable, Accepted, PasswdUsable
  <2>4. Configuration' \in given \/ Configuration' = NothingStored
    BY <2>1, <2>2 DEF Configuration
  <2>5. QED
    BY <2>1, <2>3, <2>4 DEF Prov!Adopt
<1>7. CASE StationDone
  <2>1. UNCHANGED <<store, given>> /\ pc = "station" /\ pc \notin Joined
    BY <1>7 DEF StationDone, Joined
  <2>2. CASE staResult = "YM_OK"
    <3>1. pc' \in Joined
      BY <1>7, <2>2 DEF StationDone, Joined
    <3>2. ram = store /\ Accepted(store) /\ store \in Routers
      BY <2>1, <2>2 DEF JoinInv, Joining, LetIn
    <3>3. Configuration \in Routers
      BY <3>2, BootAssumption DEF Configuration, Usable
    <3>4. QED
      BY <1>c, <2>1, <3>1, <3>3 DEF Prov!Connect
  <2>3. CASE staResult # "YM_OK"
    BY <1>7, <1>u, <2>1, <2>3 DEF StationDone, Joined
  <2>4. QED
    BY <2>2, <2>3
<1>8. CASE Restart \/ PowerLoss
  <2>1. UNCHANGED <<store, given>> /\ pc' \notin Joined
    BY <1>8 DEF Restart, PowerLoss, Reset, Joined
  <2>2. QED
    BY <1>c, <2>1 DEF Prov!PowerLoss
<1>9. CASE CheckConfig
  BY <1>9, <1>u DEF CheckConfig, WhereTo, Joined
<1>10. CASE SetupTask \/ HttpTask \/ StationTask \/ EventTask
              \/ Accept \/ Reject \/ Dhcp \/ Loss
  BY <1>10, <1>u DEF SetupTask, HttpTask, InSetup, StationTask, EventTask, Accept, Reject,
                     Dhcp, Loss, InStation, bootVars
<1>11. CASE \E q \in Requests : Visit(q)
  BY <1>11, <1>u DEF Visit
<1>12. CASE JoinedSteps
  BY <1>12, <1>u, JoinedStepsMove DEF SafeInv, LocalTypeOK
<1>13. CASE SntpAnswers
  BY <1>13, <1>u DEF SntpAnswers
<1>14. CASE UNCHANGED vars
  BY <1>14, <1>u DEF vars, bootVars
<1>15. QED
  BY <1>1, <1>2, <1>3, <1>4, <1>5, <1>6, <1>7, <1>8, <1>9, <1>10, <1>11, <1>12, <1>13, <1>14
  DEF Next, MainTask, AppMain, JoinedSteps, Running, SntpPoll

\* With a working NVS the boot implements Provisioning, for all texts, requests and
\* routers and any number of power failures: a configuration is adopted whole,
\* replaced only after it was given up, connected with only as it is stored, and
\* never given up while connected.
THEOREM BootImplementsProvisioning == NvsWorks => (Spec => ImplementsProvisioning)
<1> SUFFICES ASSUME NvsWorks PROVE Spec => ImplementsProvisioning
  OBVIOUS
<1>1. Init => GivenInv /\ BlameInv /\ JoinInv
  BY FreshNotLetIn
  DEF Init, GivenInv, BlameInv, JoinInv, Joining, Joined, UsableWasGiven, NothingStored,
      Usable, Accepted
<1>2. SafeInv /\ GivenInv /\ BlameInv /\ JoinInv /\ [Next]_vars
        => GivenInv' /\ BlameInv' /\ JoinInv'
  BY GivenAppMain, GivenOthers, BlameStep, JoinStep DEF Next, MainTask, Running, SntpPoll
<1>3. Init => Prov!Init
  BY DEF Init, Prov!Init, Configuration, Joined, NothingStored, Usable, Accepted
<1>4. SafeInv /\ GivenInv /\ JoinInv /\ [Next]_vars
        => [Prov!Next]_<<Configuration, given, pc \in Joined>>
  BY ProvisioningStep
<1>5. QED
  BY <1>1, <1>2, <1>3, <1>4, SafeInvariant, PTL DEF Spec, ImplementsProvisioning, Prov!Spec
=============================================================================
