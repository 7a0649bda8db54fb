--------------------------- MODULE WebSetupProofs ---------------------------
(***************************************************************************)
(* Proofs about WebSetup, for every set of texts and of requests.          *)
(***************************************************************************)
EXTENDS WebSetup, TLAPS

\* The group lives from before the server's start until after its stop, and a
\* handler runs only in between.
GroupLife ==
    /\ webPc \in {"server", "wait", "stop", "join", "adopt"} => webGroup = "live"
    /\ server = "up" => webPc \in {"wait", "stop"}
    /\ handler.at # "idle" => webPc \in {"wait", "stop", "join"}
    /\ handler.at \in {"ssid", "passwd", "signal"} => handler.req \in Requests /\ handler.req.query

WebInv == WebTypeOK /\ GroupLife /\ BuffersFit

\* The empty text fits every array.
LEMMA BlankFits == Empty \in Text /\ SizeOf(Empty) <= 32 /\ SizeOf(Empty) <= 64
BY TextAssumption DEF SizeOf

\* The initial values of buffers and handler are well-typed.
LEMMA BlankState ==
    /\ Idle \in [at : {"idle", "ssid", "passwd", "signal", "respond"},
                 req : Requests \cup {NoRequest}]
    /\ Idle.at = "idle"
    /\ BlankPair \in Pair
    /\ BlankPair.ssid = Empty
    /\ BlankPair.passwd = Empty
BY BlankFits DEF Idle, BlankPair, Pair

\* Power-on establishes the invariant.
LEMMA WebInitInv == WebInit => WebInv
BY BlankFits, BlankState DEF WebInit, WebInv, WebTypeOK, GroupLife, BuffersFit

\* WebReset is WebInit, primed.
LEMMA WebResetInv == WebReset => WebInv'
BY BlankFits, BlankState DEF WebReset, WebInv, WebTypeOK, GroupLife, BuffersFit

\* The main task's steps keep it: the server is up only between the creation and
\* the deletion of the group.
LEMMA WebMainInv == WebInv /\ WebMainStep => WebInv'
<1> SUFFICES ASSUME WebInv, WebMainStep PROVE WebInv'
  OBVIOUS
<1> USE DEF WebInv, WebTypeOK, GroupLife, BuffersFit
<1>1. CASE CreateGroup
  BY <1>1 DEF CreateGroup
<1>2. CASE StartServer
  BY <1>2 DEF StartServer
<1>3. CASE InputSeen
  BY <1>3 DEF InputSeen
<1>4. CASE StopServer
  BY <1>4 DEF StopServer
<1>5. CASE ServerStopped
  BY <1>5 DEF ServerStopped
<1>6. CASE AdoptInput
  BY <1>6 DEF AdoptInput, Pair
<1>7. QED
  BY <1>1, <1>2, <1>3, <1>4, <1>5, <1>6 DEF WebMainStep

\* A request is only accepted by a running server.
LEMMA ReceiveInv == ASSUME NEW q \in Requests, WebInv, Receive(q) PROVE WebInv'
<1>1. q \in Request
  BY RequestAssumption
<1>2. handler' \in [at : {"idle", "ssid", "passwd", "signal", "respond"},
                    req : Requests \cup {NoRequest}]
  BY DEF Receive
<1>3. QED
  BY <1>1, <1>2 DEF Receive, WebInv, WebTypeOK, GroupLife, BuffersFit, At

\* The handler's steps keep it; each copy is bounded by the size it was tested for.
LEMMA WebHandlerInv == WebInv /\ WebHandlerStep => WebInv'
<1> SUFFICES ASSUME WebInv, WebHandlerStep PROVE WebInv'
  OBVIOUS
<1> USE DEF WebInv, WebTypeOK, GroupLife, BuffersFit, At, Goto
<1>a. handler.req \in Requests => handler.req \in Request
  BY RequestAssumption
<1>1. CASE TakeSsid
  <2>1. handler.req.ssid # None => FormEncode[handler.req.ssid] \in Text
    BY <1>a, <1>1, RequestAssumption DEF TakeSsid, Request
  <2>2. QED
    BY <1>1, <2>1 DEF TakeSsid, TakesSsid
<1>2. CASE TakePasswd
  <2>1. handler.req.passwd # None => FormEncode[handler.req.passwd] \in Text
    BY <1>a, <1>2, RequestAssumption DEF TakePasswd, Request
  <2>2. QED
    BY <1>2, <2>1 DEF TakePasswd, TakesPasswd
<1>3. CASE SignalInput
  <2>1. /\ TakesSsid(handler.req) => FormEncode[handler.req.ssid] \in Text
        /\ TakesPasswd(handler.req) => FormEncode[handler.req.passwd] \in Text
    BY <1>a, <1>3, RequestAssumption DEF SignalInput, Request, TakesSsid, TakesPasswd
  <2>2. Taken(submitted, handler.req) \in Pair
    BY <2>1 DEF Taken, Pair
  <2>3. QED
    BY <1>3, <2>2 DEF SignalInput
<1>4. CASE Respond
  BY <1>4, BlankState DEF Respond
<1>5. QED
  BY <1>1, <1>2, <1>3, <1>4 DEF WebHandlerStep

\* Nothing in the invariant depends on anything but webVars.
LEMMA WebStutterInv == WebInv /\ UNCHANGED webVars => WebInv'
BY DEF WebInv, WebTypeOK, GroupLife, BuffersFit, webVars

\* Provisioning keeps its types, the life of the event group follows the program
\* counter of start_web_server, and every copied text fits its array.
THEOREM WebInvariant == WebSpec => []WebInv
<1>1. WebInit => WebInv
  BY WebInitInv
<1>2. WebInv /\ [WebNext]_webVars => WebInv'
  BY WebMainInv, ReceiveInv, WebHandlerInv, WebStutterInv DEF WebNext, WebReturned
<1>3. QED
  BY <1>1, <1>2, PTL DEF WebSpec

\* hello_get_handler never sets a bit of a group that is not there.
THEOREM HandlerGroupAlive == WebSpec => []GroupAliveInHandler
<1>1. WebInv => GroupAliveInHandler
  BY DEF WebInv, WebTypeOK, GroupLife, GroupAliveInHandler, At
<1>2. QED
  BY <1>1, WebInvariant, PTL

\* No strcpy of the provisioning writes past its destination.
THEOREM CopiesFit == WebSpec => []BuffersFit
<1>1. WebInv => BuffersFit
  BY DEF WebInv
<1>2. QED
  BY <1>1, WebInvariant, PTL

-----------------------------------------------------------------------------
(* The pair that is adopted is what whole requests amount to.              *)

Buffers == [ssid |-> ssid_buf, passwd |-> passwd_buf]

\* Only between its copies and its signal is a request in the buffers and not yet
\* counted in submitted; the main task looks at them when no handler runs.
Untorn ==
    /\ webPc \in {"stop", "join", "adopt", "returned"} => input
    /\ webPc = "returned" => ram = submitted
    /\ At("idle") \/ At("ssid") \/ At("respond") => Buffers = submitted
    /\ At("passwd") =>
          Buffers = [ssid |-> Taken(submitted, handler.req).ssid, passwd |-> submitted.passwd]
    /\ At("signal") => Buffers = Taken(submitted, handler.req)

\* The main task's steps: between the stop of the server and the copies no handler
\* runs.
LEMMA UntornMain == WebInv /\ Untorn /\ WebMainStep => Untorn'
<1> SUFFICES ASSUME WebInv, Untorn, WebMainStep PROVE Untorn'
  OBVIOUS
<1> USE DEF Untorn, At, Buffers, Taken
<1>g. /\ webPc \in {"idle", "server", "adopt"} => handler.at = "idle"
      /\ webPc \in {"idle", "server", "wait", "stop", "join", "adopt", "returned"}
  BY DEF WebInv, GroupLife, WebTypeOK
<1>1. CASE CreateGroup
  BY <1>1, <1>g DEF CreateGroup
<1>2. CASE StartServer
  BY <1>2 DEF StartServer
<1>3. CASE InputSeen
  BY <1>3 DEF InputSeen
<1>4. CASE StopServer
  BY <1>4 DEF StopServer
<1>5. CASE ServerStopped
  BY <1>5 DEF ServerStopped
<1>6. CASE AdoptInput
  BY <1>6, <1>g DEF AdoptInput
<1>7. QED
  BY <1>1, <1>2, <1>3, <1>4, <1>5, <1>6 DEF WebMainStep

\* A new request changes no buffer.
LEMMA UntornReceive ==
    ASSUME NEW q \in Requests, WebInv, Untorn, Receive(q)
    PROVE  Untorn'
<1>1. handler'.at \in {"ssid", "respond"} /\ handler.at = "idle"
  BY DEF Receive, At
<1>2. UNCHANGED <<webPc, input, ssid_buf, passwd_buf, submitted, ram>>
  BY DEF Receive
<1>3. QED
  BY <1>1, <1>2 DEF Untorn, At, Buffers

\* The handler's own steps: both copies are made before the bit is set.
LEMMA UntornHandler == WebInv /\ Untorn /\ WebHandlerStep => Untorn'
<1> SUFFICES ASSUME WebInv, Untorn, WebHandlerStep PROVE Untorn'
  OBVIOUS
<1>h. /\ handler = [at |-> handler.at, req |-> handler.req]
      /\ submitted = [ssid |-> submitted.ssid, passwd |-> submitted.passwd]
      /\ handler.at # "idle" => webPc # "returned"
  BY DEF WebInv, WebTypeOK, GroupLife, Pair
<1>1. CASE TakeSsid
  <2>1. handler.at = "ssid" /\ handler'.at = "passwd" /\ handler'.req = handler.req
    BY <1>1, <1>h DEF TakeSsid, At, Goto
  <2>2. ssid_buf = submitted.ssid /\ passwd_buf = submitted.passwd
    BY <1>h, <2>1 DEF Untorn, At, Buffers
  <2>3. Buffers' = [ssid |-> Taken(submitted, handler.req).ssid, passwd |-> submitted.passwd]
    BY <1>1, <2>2 DEF TakeSsid, Buffers, Taken
  <2>4. QED
    BY <1>1, <2>1, <2>3 DEF TakeSsid, Untorn, At
<1>2. CASE TakePasswd
  <2>1. handler.at = "passwd" /\ handler'.at = "signal" /\ handler'.req = handler.req
    BY <1>2, <1>h DEF TakePasswd, At, Goto
  <2>2. ssid_buf = Taken(submitted, handler.req).ssid /\ passwd_buf = submitted.passwd
    BY <2>1 DEF Untorn, At, Buffers
  <2>3. Buffers' = Taken(submitted, handler.req)
    BY <1>2, <2>2 DEF TakePasswd, Buffers, Taken
  <2>4. QED
    BY <1>2, <2>1, <2>3 DEF TakePasswd, Untorn, At
<1>3. CASE SignalInput
  <2>1. handler.at = "signal" /\ handler'.at = "respond"
    BY <1>3, <1>h DEF SignalInput, At, Goto
  <2>2. Buffers' = submitted'
    BY <1>3, <2>1 DEF SignalInput, Untorn, At, Buffers
  <2>3. QED
    BY <1>3, <1>h, <2>1, <2>2 DEF SignalInput, Untorn, At
<1>4. CASE Respond
  <2>1. handler.at = "respond" /\ handler'.at = "idle"
    BY <1>4, BlankState DEF Respond, At
  <2>2. QED
    BY <1>4, <2>1 DEF Respond, Untorn, At, Buffers
<1>5. QED
  BY <1>1, <1>2, <1>3, <1>4 DEF WebHandlerStep

\* Power-on leaves blank buffers, and so does no request at all.
LEMMA UntornInit == WebInit => Untorn
BY BlankState DEF WebInit, Untorn, At, Buffers, BlankPair

\* Every step of both tasks keeps the buffers accounted for.
LEMMA UntornSteps == WebInv /\ Untorn /\ [WebNext]_webVars => Untorn'
<1>1. Untorn /\ UNCHANGED webVars => Untorn'
  BY DEF Untorn, webVars, At, Buffers, Taken
<1>2. QED
  BY <1>1, UntornMain, UntornReceive, UntornHandler DEF WebNext, WebReturned

\* However the requests of several phones interleave with each other and with the
\* stop of the server, start_web_server returns what the requests served so far
\* amount to, each of them whole.
THEOREM ReturnsWholeRequests == WebSpec => []AdoptsWholeRequests
<1>1. Untorn => AdoptsWholeRequests
  BY DEF Untorn, AdoptsWholeRequests
<1>2. QED
  BY <1>1, UntornInit, UntornSteps, WebInvariant, PTL DEF WebSpec

-----------------------------------------------------------------------------
(* When every form is complete, the pair is one form's.                    *)

Complete(q) == TakesSsid(q) /\ TakesPasswd(q)

\* After a signal what was submitted is the pair of a single request.
FromOneForm == input => \E q \in Requests : Complete(q) /\ submitted = OnTheWire(q)

\* Only complete requests are served.
OnlyComplete == \A q \in Requests : q.query => Complete(q)

\* Each signal replaces all of what was submitted before.
LEMMA OneFormSteps ==
    ASSUME OnlyComplete, WebInv, FromOneForm, [WebNext]_webVars
    PROVE  FromOneForm'
<1>1. CASE UNCHANGED <<input, submitted>>
  BY <1>1 DEF FromOneForm, Complete, TakesSsid, TakesPasswd, OnTheWire
<1>2. CASE CreateGroup
  BY <1>2 DEF CreateGroup, FromOneForm
<1>3. CASE SignalInput
  <2>1. handler.req \in Requests /\ Complete(handler.req)
    BY <1>3 DEF SignalInput, At, WebInv, GroupLife, OnlyComplete
  <2>2. submitted' = OnTheWire(handler.req)
    BY <1>3, <2>1 DEF SignalInput, Taken, OnTheWire, Complete
  <2>3. QED
    BY <2>1, <2>2 DEF FromOneForm
<1>4. [WebNext]_webVars => CreateGroup \/ SignalInput \/ UNCHANGED <<input, submitted>>
  BY DEF WebNext, WebMainStep, WebHandlerStep, WebReturned, webVars, StartServer, InputSeen,
         StopServer, ServerStopped, AdoptInput, Receive, TakeSsid, TakePasswd, Respond
<1>5. QED
  BY <1>1, <1>2, <1>3, <1>4

\* As long as nobody submits a form of which a field cannot be taken, the pair that
\* start_web_server returns is one form's, never put together from two.
THEOREM CompleteFormsStayWhole ==
    ASSUME OnlyComplete
    PROVE  WebSpec => [](webPc = "returned" => \E q \in Requests : ram = OnTheWire(q))
<1>1. WebInit => FromOneForm
  BY DEF WebInit, FromOneForm
<1>2. WebInv /\ FromOneForm /\ [WebNext]_webVars => FromOneForm'
  BY OnlyComplete, OneFormSteps
<1>3. Untorn /\ FromOneForm => (webPc = "returned" => \E q \in Requests : ram = OnTheWire(q))
  BY DEF Untorn, FromOneForm
<1>4. QED
  BY <1>1, <1>2, <1>3, UntornInit, UntornSteps, WebInvariant, PTL DEF WebSpec
=============================================================================
