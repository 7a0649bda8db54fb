------------------------------ MODULE WebSetup ------------------------------
(***************************************************************************)
(* Network provisioning: start_web_server (web_server.c), which the main   *)
(* task runs under wifi_apNetsetup_start, and hello_get_handler, which the *)
(* HTTP server's own task runs for every GET of /hello.  They share the    *)
(* event group, through which the handler wakes the main task, and the two *)
(* static buffers ssid_buf and passwd_buf, which nothing else protects.    *)
(*                                                                         *)
(* A request is what a phone submits: the two fields as typed, or None for *)
(* a key that the query string does not have.  On the wire a typed text is *)
(* FormEncode of it; the handler takes the text off the wire as it is.     *)
(***************************************************************************)
EXTENDS WifiConfig

CONSTANTS
    Requests,       \* the GETs of /hello that can arrive
    FormEncode,     \* how a browser writes a typed text into a query string
    Faults          \* the calls into the SDK that may fail

Request == [query : BOOLEAN, ssid : Text \cup {None}, passwd : Text \cup {None}]

ASSUME RequestAssumption ==
    /\ Requests \subseteq Request
    /\ FormEncode \in [Text -> Text]

\* A form with both fields, as the browser sends it.
OnTheWire(q) == [ssid |-> FormEncode[q.ssid], passwd |-> FormEncode[q.passwd]]

FaultKinds == {"httpd", "nvs_pages", "nvs_open", "nvs_set"}

ASSUME FaultAssumption == Faults \subseteq FaultKinds

VARIABLES
    webPc,          \* where the main task is in start_web_server
    webGroup,       \* the event group ap_wifi_event_group_local
    input,          \* its bit WIFI_CONFIG_INPUT
    server,         \* the HTTP server
    handler,        \* where the HTTP task is in hello_get_handler, and for whom
    ssid_buf, passwd_buf,
    submitted,      \* what all requests up to the last signal amount to (history)
    ram             \* the caller's wifi_config

webVars == <<webPc, webGroup, input, server, handler, ssid_buf, passwd_buf,
             submitted, ram>>

NoRequest == [query |-> FALSE, ssid |-> None, passwd |-> None]
Idle == [at |-> "idle", req |-> NoRequest]

WebTypeOK ==
    /\ webPc \in {"idle", "server", "wait", "stop", "join", "adopt", "returned"}
    /\ webGroup \in {"none", "live", "deleted"}
    /\ input \in BOOLEAN
    /\ server \in {"down", "up", "failed", "stopping"}
    /\ handler \in [at : {"idle", "ssid", "passwd", "signal", "respond"},
                    req : Requests \cup {NoRequest}]
    /\ ssid_buf \in Text
    /\ passwd_buf \in Text
    /\ submitted \in Pair
    /\ ram \in Pair

\* After power-on nothing has been called and all buffers are zero.
WebInit ==
    /\ webPc = "idle"
    /\ webGroup = "none"
    /\ input = FALSE
    /\ server = "down"
    /\ handler = Idle
    /\ ssid_buf = Empty
    /\ passwd_buf = Empty
    /\ submitted = BlankPair
    /\ ram = BlankPair

\* A restart of the device.
WebReset ==
    /\ webPc' = "idle"
    /\ webGroup' = "none"
    /\ input' = FALSE
    /\ server' = "down"
    /\ handler' = Idle
    /\ ssid_buf' = Empty
    /\ passwd_buf' = Empty
    /\ submitted' = BlankPair
    /\ ram' = BlankPair

-----------------------------------------------------------------------------
(* The main task, in start_web_server.                                     *)

CreateGroup ==
    /\ webPc = "idle"
    /\ webPc' = "server"
    /\ webGroup' = "live"
    /\ input' = FALSE
    /\ UNCHANGED <<server, handler, ssid_buf, passwd_buf, ram, submitted>>

\* start_webserver; a NULL handle is not looked at.
StartServer ==
    /\ webPc = "server"
    /\ webPc' = "wait"
    /\ \/ server' = "up"
       \/ "httpd" \in Faults /\ server' = "failed"
    /\ UNCHANGED <<webGroup, input, handler, ssid_buf, passwd_buf, ram, submitted>>

\* xEventGroupWaitBits with portMAX_DELAY: nothing but the bit ends the wait.
InputSeen ==
    /\ webPc = "wait"
    /\ input
    /\ webPc' = "stop"
    /\ UNCHANGED <<webGroup, input, server, handler, ssid_buf, passwd_buf, ram, submitted>>

\* Wrong variant: stop_webserver returns at once.
StopServerNoJoin ==
    /\ webPc = "stop"
    /\ webPc' = "adopt"
    /\ server' = "down"
    /\ UNCHANGED <<webGroup, input, handler, ssid_buf, passwd_buf, ram, submitted>>

StopServer ==
    /\ webPc = "stop"
    /\ webPc' = "join"
    /\ server' = "stopping"
    /\ UNCHANGED <<webGroup, input, handler, ssid_buf, passwd_buf, ram, submitted>>

\* httpd_stop returns when the HTTP task has finished what it was serving.
ServerStopped ==
    /\ webPc = "join"
    /\ handler.at = "idle"
    /\ webPc' = "adopt"
    /\ server' = "down"
    /\ UNCHANGED <<webGroup, input, handler, ssid_buf, passwd_buf, ram, submitted>>

\* Delete the group, copy both buffers out, return YM_OK.
AdoptInput ==
    /\ webPc = "adopt"
    /\ webPc' = "returned"
    /\ webGroup' = "deleted"
    /\ ram' = [ssid |-> ssid_buf, passwd |-> passwd_buf]
    /\ UNCHANGED <<input, server, handler, ssid_buf, passwd_buf, submitted>>

-----------------------------------------------------------------------------
(* The HTTP server's task, in hello_get_handler.                           *)

At(place) == handler.at = place
Goto(place) == handler' = [handler EXCEPT !.at = place]

Receive(q) ==
    /\ server = "up"
    /\ At("idle")
    /\ handler' = [at |-> IF q.query THEN "ssid" ELSE "respond", req |-> q]
    /\ UNCHANGED <<webPc, webGroup, input, server, ssid_buf, passwd_buf, ram, submitted>>

\* Wrong variant: the size of the password's array is given for the ssid's.
TakeSsidUnbounded ==
    /\ At("ssid")
    /\ Goto("passwd")
    /\ ssid_buf' = IF handler.req.ssid # None /\ SizeOf(FormEncode[handler.req.ssid]) <= 64
                   THEN FormEncode[handler.req.ssid]
                   ELSE ssid_buf
    /\ UNCHANGED <<webPc, webGroup, input, server, passwd_buf, ram, submitted>>

\* httpd_query_key_value succeeds for a key that is there and whose value,
\* with its NUL, fits the local array.
TakesSsid(q) == q.ssid # None /\ SizeOf(FormEncode[q.ssid]) <= 32
TakesPasswd(q) == q.passwd # None /\ SizeOf(FormEncode[q.passwd]) <= 64

\* What a whole request makes of a pair: a field that it lacks stays as it was.
Taken(pair, q) ==
    [ssid   |-> IF TakesSsid(q) THEN FormEncode[q.ssid] ELSE pair.ssid,
     passwd |-> IF TakesPasswd(q) THEN FormEncode[q.passwd] ELSE pair.passwd]

TakeSsid ==
    /\ At("ssid")
    /\ Goto("passwd")
    /\ ssid_buf' = IF TakesSsid(handler.req) THEN FormEncode[handler.req.ssid] ELSE ssid_buf
    /\ UNCHANGED <<webPc, webGroup, input, server, passwd_buf, ram, submitted>>

TakePasswd ==
    /\ At("passwd")
    /\ Goto("signal")
    /\ passwd_buf' = IF TakesPasswd(handler.req) THEN FormEncode[handler.req.passwd]
                     ELSE passwd_buf
    /\ UNCHANGED <<webPc, webGroup, input, server, ssid_buf, ram, submitted>>

\* Wrong variant: the main task is only woken for a request with both keys.
SignalInputIfComplete ==
    /\ At("signal")
    /\ Goto("respond")
    /\ input' = (input \/ (handler.req.ssid # None /\ handler.req.passwd # None))
    /\ submitted' = Taken(submitted, handler.req)
    /\ UNCHANGED <<webPc, webGroup, server, ssid_buf, passwd_buf, ram>>

\* The bit is set for every query string, whatever was found in it.
SignalInput ==
    /\ At("signal")
    /\ Goto("respond")
    /\ input' = TRUE
    /\ submitted' = Taken(submitted, handler.req)
    /\ UNCHANGED <<webPc, webGroup, server, ssid_buf, passwd_buf, ram>>

Respond ==
    /\ At("respond")
    /\ handler' = Idle
    /\ UNCHANGED <<webPc, webGroup, input, server, ssid_buf, passwd_buf, ram, submitted>>

-----------------------------------------------------------------------------
WebMainStep ==
    CreateGroup \/ StartServer \/ InputSeen \/ StopServer \/ ServerStopped \/ AdoptInput

WebHandlerStep == TakeSsid \/ TakePasswd \/ SignalInput \/ Respond

WebReturned == webPc = "returned" /\ UNCHANGED webVars

WebNext ==
    \/ WebMainStep
    \/ \E q \in Requests : Receive(q)
    \/ WebHandlerStep
    \/ WebReturned

WebSpec == WebInit /\ [][WebNext]_webVars

\* FreeRTOS runs every ready task; whether a phone ever submits is not its doing.
WebFairSpec == WebSpec /\ WF_webVars(WebMainStep) /\ WF_webVars(WebHandlerStep)

-----------------------------------------------------------------------------
(* Properties.                                                             *)

\* hello_get_handler sets a bit of the event group that start_web_server
\* creates and deletes: whenever it is about to, the group exists.  It rests on
\* the order create, start server, stop server, delete of start_web_server.
GroupAliveInHandler == At("signal") => webGroup = "live"

\* start_web_server copies two buffers that the HTTP task fills one after the
\* other, without a lock.  However many requests overlap with the stop of the
\* server, the pair it returns is what the requests served so far amount to, each
\* of them whole: no request has got one of its fields into the pair and is yet to
\* write the other.  A request that lacks a field leaves that of an earlier one in
\* place, so the pair can be put together from two requests; it is one request's
\* if both fields of the last could be taken.
AdoptsWholeRequests == webPc = "returned" => ram = submitted

\* The unchecked strcpy calls of web_server.c:36-40 and 131-132 stay inside
\* ssid_buf[33], passwd_buf[64] and the 32 and 64 bytes of wifi_config->sta.
BuffersFit ==
    /\ SizeOf(ssid_buf) <= 32 /\ SizeOf(ram.ssid) <= 32
    /\ SizeOf(passwd_buf) <= 64 /\ SizeOf(ram.passwd) <= 64

\* A phone's query ends the provisioning: the bit the handler sets reaches the
\* main task also when it is set before that task begins to wait.
SubmissionEndsSetup == At("ssid") ~> webPc = "returned"
=============================================================================
