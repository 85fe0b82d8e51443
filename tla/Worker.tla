------------------------------- MODULE Worker -------------------------------
(***************************************************************************)
(* One worker process and the requests it serves: conf/ayahesa.conf (which *)
(* path has which handler and which authentication), middleware.c,         *)
(* route.c, the handlers of core/ayahesa.c and the controllers.  The       *)
(* worker is an event loop: a request it takes up runs to its end, through *)
(* the validator of its route, the page, and Kore's release of the         *)
(* request, before the next event is looked at.                            *)
(*                                                                         *)
(* What outlives a request: the counters of core/application.c, the        *)
(* failure count of http_basic_auth, the flag of controllers/status.c, and *)
(* the memory nobody freed.  A few requests end the process in their turn, *)
(* and with it every connection; another worker takes its place.  Kore     *)
(* itself (accepting, parsing, dispatching, closing, reloading the module, *)
(* replacing a worker that died) is modelled from how it is used here.     *)
(***************************************************************************)
EXTENDS Integers, Sequences, SequencesExt

CONSTANTS Conns,         \* client connections
          Requests,      \* requests a client may send
          Settings,      \* what the configuration file may have of the items used here
          SlowFrom,      \* failures from which http_basic_auth sleeps: 5
          SlowerFrom,    \* failures from which it sleeps longer: 20
          Width,         \* the unsigned counters wrap at: 2^32
          MaxConnects,   \* bound of the model on the connections counted in a process
          MaxReloads,    \* bound of the model on module reloads
          NULL

ASSUME ThrottleAssumption ==
    SlowFrom \in Nat \ {0} /\ SlowerFrom \in Nat /\ SlowFrom < SlowerFrom
ASSUME BoundAssumption == MaxConnects \in Nat /\ MaxReloads \in Nat
ASSUME WidthAssumption == Width \in Nat /\ Width > MaxConnects

\* Item auth: not there, with a ':', or without; whether app.domain and storage
\* are there.
ASSUME SettingsAssumption ==
    Settings \subseteq [auth : {"unset", "pair", "undivided"}, domain : BOOLEAN,
                        storage : BOOLEAN]

-----------------------------------------------------------------------------
(* What a client sends.  header is the Authorization header: absent; blank *)
(* (no method); bare (the method alone); the right credentials; near, of   *)
(* the right length; wrong; garbled, not to be decoded; or foreign, of     *)
(* another method.  body is the method of a JSON-RPC body, params whether  *)
(* the arguments of the page are as it needs them, and agent whether the   *)
(* client tells its name.                                                  *)

GuardedBy == [basic |-> {"/status", "/app/html"}, jwt |-> {"/app/resource"}]
Endpoints == {"/endpoint/core/jsonrpc", "/endpoint/auth/jsonrpc"}
Paths == GuardedBy.basic \cup GuardedBy.jwt \cup Endpoints \cup
         {"/", "/app/report", "/static", "/app/welcome", "/app/cookie", "/readme",
          "/teapot", "/fox", "/shutdown", "/endpoint/msg/socket", "/elsewhere"}

Methods == {"GET", "POST", "PUT", "DELETE"}
Headers == {"absent", "blank", "bare", "right", "near", "wrong", "garbled", "foreign"}
Bodies == {"malformed", "info", "echo", "date", "authenticate", "refresh", "revoke", "other"}

Request == [path : Paths, method : Methods, header : Headers, body : Bodies,
            params : {"good", "bad"}, agent : BOOLEAN]

ASSUME RequestAssumption == Requests \subseteq Request

VARIABLES conn,          \* state of each connection
          request,       \* the request a connection has sent
          queue,         \* connections whose request waits for its turn
          cur,           \* the request whose turn it is, and its memory
          counters,      \* internal_counter
          config,        \* the items of the configuration that was loaded last
          basic_auth_count,
          status_has_auth_user,
          lost,          \* kinds of memory that no pointer reaches any more
          parent,        \* what the parent process was told
          refused,       \* history: basic authentications refused in a row
          strays,        \* history: websockets gone without aya_disconnect, less the
                         \* connections that were open at a reload
          reloads

\* What requests leave behind in the process.
Statics == <<config, basic_auth_count, status_has_auth_user>>

vars == <<conn, request, queue, cur, counters, Statics, lost, parent, refused, strays, reloads>>

\* struct request_data; NULL stands for request->hdlr_extra not allocated.
Blank == [object_id |-> 0, principal |-> FALSE, session |-> FALSE]
RequestData == [object_id : {0, 1}, principal : BOOLEAN, session : BOOLEAN]

Turn == [conn : Conns, stage : {"validate", "page", "done"}, extra : RequestData \cup {NULL},
         codes : Seq(Int), lost : SUBSET {"session", "principal", "decoded"}, pause : {0, 1, 5}]

ASSUME NullAssumption == NULL \notin RequestData /\ NULL \notin Turn

Zero == [req_count |-> 0, conn_active |-> 0]

Init ==
    /\ conn = [c \in Conns |-> "closed"]
    /\ request = [c \in Conns |-> NULL]
    /\ queue = <<>>
    /\ cur = NULL
    /\ counters = Zero
    /\ config \in Settings
    /\ basic_auth_count = 0
    /\ status_has_auth_user = 0
    /\ lost = {}
    /\ parent = "running"
    /\ refused = 0
    /\ strays = 0
    /\ reloads = 0

-----------------------------------------------------------------------------
(* Connections.                                                            *)

\* application_prelude.
Prelude == [req_count |-> (counters.req_count + 1) % Width,
            conn_active |-> (counters.conn_active + 1) % Width]
\* Seeded fault: the counter is not of a fixed width.
PostprocUnbounded == [counters EXCEPT !.conn_active = @ - 1]

\* Seeded fault: nothing is counted down.
PostprocIdle == counters

\* application_postproc.
Postproc == [counters EXCEPT !.conn_active = (@ - 1) % Width]

Connected == {c \in Conns : conn[c] # "closed"}

\* Kore accepts a connection and calls aya_connect.
Connect(c) ==
    /\ parent # "stopped" /\ cur = NULL
    /\ conn[c] = "closed"
    /\ counters.req_count < MaxConnects
    /\ conn' = [conn EXCEPT ![c] = "open"]
    /\ counters' = Prelude
    /\ UNCHANGED <<request, queue, cur, Statics, lost, parent, refused, strays, reloads>>

\* A request has been read completely and is put at the end of Kore's list.
Receive(c, r) ==
    /\ parent # "stopped" /\ cur = NULL
    /\ conn[c] = "open"
    /\ conn' = [conn EXCEPT ![c] = "waiting"]
    /\ request' = [request EXCEPT ![c] = r]
    /\ queue' = Append(queue, c)
    /\ UNCHANGED <<cur, counters, Statics, lost, parent, refused, strays, reloads>>

WithoutRequestOf(c) == RemoveFirst(queue, c)

\* The client goes away, before or after sending a request; Kore drops its
\* request and calls aya_disconnect.  Whether the websocket handshake leaves
\* that callback in place is Kore's business, so both are possible.
Disconnect(c) ==
    /\ parent # "stopped" /\ cur = NULL
    /\ conn[c] # "closed"
    /\ conn' = [conn EXCEPT ![c] = "closed"]
    /\ request' = [request EXCEPT ![c] = NULL]
    /\ queue' = WithoutRequestOf(c)
    /\ \/ counters' = Postproc /\ strays' = strays
       \/ conn[c] = "socket" /\ counters' = counters /\ strays' = strays + 1
    /\ UNCHANGED <<cur, Statics, lost, parent, refused, reloads>>

-----------------------------------------------------------------------------
(* What the code does to the request whose turn it is.                     *)

Req == request[cur.conn]
At(stage) == cur # NULL /\ cur.stage = stage

Respond(t, code) == [t EXCEPT !.codes = Append(@, code)]

\* aya_calloc of request->hdlr_extra, by whoever needs it first.
WithExtra(t) == IF t.extra = NULL THEN [t EXCEPT !.extra = Blank] ELSE t

\* A new session tree; a tree that was there before is lost.
NewSession(t) ==
    [t EXCEPT !.extra.session = TRUE,
              !.lost = @ \cup IF t.extra.session THEN {"session"} ELSE {}]

\* The macros of a view read the name of the client and the domain, and those
\* of the status page the storage, whether they are there or not.
Viewable(view) == Req.agent /\ config.domain /\ (view = "status" => config.storage)

\* Where it is Viewable; otherwise the worker ends.
http_view(t, code) == Respond(t, code)
http_report(t, code) == http_view(NewSession(WithExtra(t)), code)

ReleaseSession(t) == [t EXCEPT !.extra.session = FALSE]

\* The structure goes, and with it the pointers to what has not been freed.
FreeExtra(t) ==
    IF t.extra = NULL THEN t
    ELSE [t EXCEPT !.extra = NULL,
                   !.lost = @ \cup {k \in {"session", "principal"} : t.extra[k]}]

\* Seeded fault: the session tree is not released before the structure goes.
ReportAndForget(t, code) == FreeExtra(http_report(t, code))

\* The tail that every reporting handler has.
ReportAndRelease(t, code) == FreeExtra(ReleaseSession(http_report(t, code)))

\* Seeded fault: the handler goes on after it has reported.
NotFoundThenPage(t) == Respond(ReportAndRelease(t, 404), 200)

notfound(t) == ReportAndRelease(t, 404)

-----------------------------------------------------------------------------
(* The turn of a request.                                                  *)

Guard(path) == CASE path \in GuardedBy.basic -> "auth_basic"
                 [] path \in GuardedBy.jwt -> "auth_jwt"
                 [] OTHER -> "none"

\* Seeded fault: the request that came last is taken first.
TakeNewest ==
    /\ parent # "stopped" /\ cur = NULL
    /\ queue # <<>>
    /\ LET c == Last(queue) IN
         cur' = [conn |-> c, extra |-> NULL, codes |-> <<>>, lost |-> {}, pause |-> 0,
                 stage |-> IF Guard(request[c].path) = "none" THEN "page" ELSE "validate"]
    /\ queue' = Front(queue)
    /\ UNCHANGED <<conn, request, counters, Statics, lost, parent, refused, strays, reloads>>

\* Kore takes the oldest request.
Take ==
    /\ parent # "stopped" /\ cur = NULL
    /\ queue # <<>>
    /\ LET c == Head(queue) IN
         cur' = [conn |-> c, extra |-> NULL, codes |-> <<>>, lost |-> {}, pause |-> 0,
                 stage |-> IF Guard(request[c].path) = "none" THEN "page" ELSE "validate"]
    /\ queue' = Tail(queue)
    /\ UNCHANGED <<conn, request, counters, Statics, lost, parent, refused, strays, reloads>>

ToPage(t) == [t EXCEPT !.stage = "page"]
ToDone(t) == [t EXCEPT !.stage = "done"]

\* A null pointer is followed: the process ends and its connections with it,
\* answered or not.  Kore starts another, whose aya_init reads the file again.
Die ==
    /\ conn' = [c \in Conns |-> "closed"]
    /\ request' = [c \in Conns |-> NULL]
    /\ queue' = <<>>
    /\ cur' = NULL
    /\ counters' = Zero
    /\ config' \in Settings
    /\ basic_auth_count' = 0
    /\ status_has_auth_user' = 0
    /\ lost' = {}
    /\ refused' = 0
    /\ strays' = 0
    /\ UNCHANGED <<parent, reloads>>

\* What a validator or a page that reaches its end leaves alone.
OutsideTurn == <<conn, request, queue, counters, config, refused, strays, reloads, lost>>
Elsewhere == UNCHANGED <<status_has_auth_user, parent>> /\ UNCHANGED OutsideTurn
OnlyTurn == UNCHANGED basic_auth_count /\ Elsewhere

\* http_basic_auth: the pause before it looks at the header, and whether the
\* header has the configured credentials.  Decoded credentials of the right
\* length that differ are not freed.
Pause == IF basic_auth_count >= SlowerFrom THEN 5
         ELSE IF basic_auth_count >= SlowFrom THEN 1 ELSE 0
Configured == config.auth # "unset"
http_basic_auth == Req.header = "right"
Decoded == IF Req.header = "near" THEN {"decoded"} ELSE {}

\* Seeded fault: a refused request is let through as nobody's.
AdmitRefused(t, code) == ToPage(t)

Refuse(t, code) == ToDone(ReportAndRelease(t, code))

\* Seeded fault: only a wrong password is counted, not a header without one.
CountedFew == IF Req.header = "wrong" THEN basic_auth_count + 1 ELSE basic_auth_count

Counted == basic_auth_count + 1

\* Seeded fault: the validator lets through with KORE_RESULT_RETRY.
IdentifiedRetry(t) ==
    [t EXCEPT !.extra = [object_id |-> 1, principal |-> TRUE, session |-> @.session]]

Identified(t) ==
    ToPage([t EXCEPT !.extra = [object_id |-> 1, principal |-> TRUE, session |-> @.session]])

\* A method alone has no credentials to decode; the length of what cannot be
\* decoded is whatever was there, so it may be the right one; and an item
\* without a ':' has no end of a user's name to write to.
EndsBasic ==
    \/ Configured /\ Req.header \in {"bare", "garbled"}
    \/ Configured /\ http_basic_auth /\ config.auth = "undivided"
    \/ ~(Configured /\ http_basic_auth) /\ ~Viewable("report")

\* middleware_auth_basic; it answers itself when it does not let through.
AuthBasic ==
    /\ At("validate") /\ Guard(Req.path) = "auth_basic"
    /\ LET t == WithExtra(cur)
           p == [t EXCEPT !.pause = Pause, !.lost = @ \cup Decoded]
       IN  \/ /\ ~Configured /\ Viewable("report")
              /\ cur' = Refuse(t, 404)
              /\ UNCHANGED basic_auth_count
              /\ Elsewhere
           \/ /\ Configured /\ ~http_basic_auth /\ Req.header # "bare" /\ Viewable("report")
              /\ cur' = Refuse(p, 401)
              /\ basic_auth_count' = Counted
              /\ Elsewhere
           \/ /\ Configured /\ http_basic_auth /\ config.auth = "pair"
              /\ cur' = Identified(p)
              /\ basic_auth_count' = 0
              /\ Elsewhere
           \/ EndsBasic /\ Die

Deny(t) == ToDone(Respond(t, 403))

\* middleware_auth_jwt, which Kore calls with the header if there is one and
\* for which it answers when the validator refuses.  jwt_verify reads the first
\* letter of a token that is not there.
AuthJwt ==
    /\ At("validate") /\ Guard(Req.path) = "auth_jwt"
    /\ LET t == WithExtra(cur)
       IN  \/ /\ Req.header = "absent"
              /\ cur' = Deny(cur)
              /\ OnlyTurn
           \/ /\ Req.header \in {"blank", "near", "wrong", "garbled", "foreign"}
              /\ cur' = Deny(t)
              /\ OnlyTurn
           \/ /\ Req.header = "right"
              /\ cur' = Identified(t)
              /\ OnlyTurn
           \/ Req.header = "bare" /\ Die

-----------------------------------------------------------------------------
(* Pages.                                                                  *)

Page(paths) == At("page") /\ Req.path \in paths

\* http_get of core/defs.h.
AppPlain ==
    /\ Page({"/", "/app/report", "/app/html", "/static", "/app/welcome", "/app/cookie"})
    /\ cur' = ToDone(Respond(cur,
                 CASE Req.path = "/" -> 302
                   [] Req.path \in {"/app/welcome", "/app/cookie"} /\ Req.method # "GET" -> 405
                   [] OTHER -> 200))
    /\ OnlyTurn

FreePrincipal(t) == [t EXCEPT !.extra.principal = FALSE]

\* route status and its controller, which frees all it finds.
AppStatus ==
    /\ Page({"/status"})
    /\ \/ /\ Req.method # "GET"
          /\ cur' = ToDone(Respond(cur, 405))
          /\ OnlyTurn
       \/ /\ Req.method = "GET" /\ Viewable("status")
          /\ LET t == WithExtra(cur)
                 v == ReleaseSession(http_view(NewSession(t), 200))
             IN  /\ cur' = ToDone(FreeExtra(FreePrincipal(v)))
                 /\ status_has_auth_user' = IF t.extra.principal THEN 1 ELSE status_has_auth_user
          /\ UNCHANGED <<basic_auth_count, parent>>
          /\ UNCHANGED OutsideTurn
       \/ Req.method = "GET" /\ ~Viewable("status") /\ Die

\* route resource drops the result of its controller, so an error of the
\* controller ends the request without an answer.
Authenticated(t) == t.extra # NULL /\ t.extra.principal /\ t.extra.object_id # 0

ResourceAnswers ==
    IF ~Authenticated(cur) THEN {<<>>}
    ELSE IF Req.method \notin {"GET", "POST"} THEN {<<405>>}
    ELSE IF Req.params = "bad" THEN {<<IF Req.method = "GET" THEN 412 ELSE 400>>}
    ELSE {<<200>>, <<IF Req.method = "GET" THEN 404 ELSE 500>>}

\* ResourceStore.FetchFatal: the stored file is shorter than a header.
EndsFetch == Authenticated(cur) /\ Req.method = "GET" /\ Req.params = "good"

AppResource ==
    /\ Page({"/app/resource"})
    /\ \/ /\ \E codes \in ResourceAnswers : cur' = ToDone([cur EXCEPT !.codes = @ \o codes])
          /\ OnlyTurn
       \/ EndsFetch /\ Die

\* aya_readme; README.md may not be there.
AyaReadme ==
    /\ Page({"/readme"})
    /\ \/ cur' = ToDone(Respond(cur, 200)) /\ OnlyTurn
       \/ Viewable("report") /\ cur' = ToDone(notfound(cur)) /\ OnlyTurn
       \/ ~Viewable("report") /\ Die

AyaReport ==
    /\ Page({"/teapot", "/fox"})
    /\ \/ /\ Viewable("report")
          /\ cur' = ToDone(ReportAndRelease(cur, IF Req.path = "/fox" THEN 419 ELSE 418))
          /\ OnlyTurn
       \/ ~Viewable("report") /\ Die

\* Seeded fault: the page returns KORE_RESULT_RETRY.
AyaShutdownRetry ==
    /\ Page({"/shutdown"})
    /\ cur' = cur
    /\ parent' = "told"
    /\ UNCHANGED <<basic_auth_count, status_has_auth_user>>
    /\ UNCHANGED OutsideTurn

\* The parent is told after the report; a worker that ends in it tells nothing.
AyaShutdown ==
    /\ Page({"/shutdown"})
    /\ \/ /\ Viewable("report")
          /\ cur' = ToDone(ReportAndRelease(cur, 435))
          /\ parent' = "told"
          /\ UNCHANGED <<basic_auth_count, status_has_auth_user>>
          /\ UNCHANGED OutsideTurn
       \/ ~Viewable("report") /\ Die

NotFound ==
    /\ Page({"/elsewhere"})
    /\ \/ Viewable("report") /\ cur' = ToDone(notfound(cur)) /\ OnlyTurn
       \/ ~Viewable("report") /\ Die

\* jrpc_parse, jrpc_info and jrpc_invoke: each way out of them answers once.
\* A code below zero is that of a JSON-RPC error.
EndpointCore ==
    /\ Page({"/endpoint/core/jsonrpc"})
    /\ cur' = ToDone(Respond(cur,
                 CASE Req.method \notin {"POST", "PUT"} -> 405
                   [] Req.body = "malformed" -> -32700
                   [] Req.body = "info" -> 200
                   [] Req.body \in {"echo", "date"} -> IF Req.params = "good" THEN 200 ELSE -32602
                   [] OTHER -> -32601))
    /\ OnlyTurn

\* The outcome of model_principal_auth is the database's.
AuthAnswers ==
    CASE Req.method \notin {"POST", "PUT"} -> {405}
      [] Req.body = "malformed" -> {-32700}
      [] Req.body = "info" -> {200}
      [] Req.body = "authenticate" -> IF Req.params = "bad" THEN {-32602, -2, -3} ELSE {200, -4}
      [] Req.body \in {"refresh", "revoke"} -> {-5}
      [] OTHER -> {-32601}

EndpointAuth ==
    /\ Page({"/endpoint/auth/jsonrpc"})
    /\ \E code \in AuthAnswers : cur' = ToDone(Respond(cur, code))
    /\ OnlyTurn

\* The websocket handshake switches protocols.
EndpointMsg ==
    /\ Page({"/endpoint/msg/socket"})
    /\ cur' = ToDone(Respond(cur, 101))
    /\ OnlyTurn

-----------------------------------------------------------------------------
(* The end of a turn, of the worker and of the module's code.              *)

Refused == IF Guard(Req.path) = "auth_basic" /\ Configured
           THEN IF cur.codes = <<401>> THEN refused + 1 ELSE 0
           ELSE refused

\* Kore releases the request, and request->hdlr_extra if it is still there,
\* and closes the connection (http_keepalive_time 0) once it has answered.
Finish ==
    /\ At("done")
    /\ LET c == cur.conn
           state == CASE cur.codes = <<>> -> "hung" [] cur.codes = <<101>> -> "socket"
                      [] OTHER -> "closed"
       IN  /\ conn' = [conn EXCEPT ![c] = state]
           /\ request' = [request EXCEPT ![c] = NULL]
           /\ counters' = IF state = "closed" THEN Postproc ELSE counters
    /\ lost' = lost \cup FreeExtra(cur).lost
    /\ refused' = Refused
    /\ cur' = NULL
    /\ UNCHANGED <<queue, Statics, parent, strays, reloads>>

\* The parent ends its workers.
Stop ==
    /\ parent = "told" /\ cur = NULL
    /\ parent' = "stopped"
    /\ conn' = [c \in Conns |-> "closed"]
    /\ request' = [c \in Conns |-> NULL]
    /\ queue' = <<>>
    /\ UNCHANGED <<cur, counters, Statics, lost, refused, strays, reloads>>

\* Kore reloads the module: aya_init releases the application, the module is
\* loaded anew with all its static variables, and aya_init creates it again.
\* The connections stay; the configuration may have changed.
Reload ==
    /\ parent # "stopped" /\ cur = NULL
    /\ reloads < MaxReloads
    /\ reloads' = reloads + 1
    /\ counters' = Zero
    /\ config' \in Settings
    /\ basic_auth_count' = 0
    /\ status_has_auth_user' = 0
    /\ refused' = 0
    /\ strays' = -Cardinality(Connected)
    /\ UNCHANGED <<conn, request, queue, cur, lost, parent>>

Serve == \/ Take \/ AuthBasic \/ AuthJwt \/ AppPlain \/ AppStatus \/ AppResource
         \/ AyaReadme \/ AyaReport \/ AyaShutdown \/ NotFound
         \/ EndpointCore \/ EndpointAuth \/ EndpointMsg \/ Finish

Next ==
    \/ \E c \in Conns : Connect(c) \/ Disconnect(c) \/ \E r \in Requests : Receive(c, r)
    \/ Serve
    \/ Stop
    \/ Reload

Spec == Init /\ [][Next]_vars

\* The event loop of a worker that is up keeps going, and looks between turns
\* whether its parent ends it, which a parent that was told to shut down does.
FairSpec == Spec /\ WF_vars(Serve) /\ SF_vars(Stop)

-----------------------------------------------------------------------------
(* Properties.                                                             *)

\* Counters stay within their width, and the state has its shape.
TypeOK ==
    /\ conn \in [Conns -> {"closed", "open", "waiting", "hung", "socket"}]
    /\ request \in [Conns -> Requests \cup {NULL}]
    /\ queue \in Seq(Conns)
    /\ cur = NULL \/ cur \in Turn
    /\ counters \in [req_count : 0..(Width - 1), conn_active : 0..(Width - 1)]
    /\ config \in Settings
    /\ basic_auth_count \in Nat
    /\ status_has_auth_user \in {0, 1}
    /\ lost \subseteq {"session", "principal", "decoded"}
    /\ parent \in {"running", "told", "stopped"}
    /\ refused \in Nat
    /\ strays \in Int
    /\ reloads \in 0..MaxReloads

\* Every request whose turn reaches its end (that of one that ends the worker
\* does not, see Die) has been answered exactly once, by the validator, by Kore
\* or by the page: route resource throws its controller's error away, so it must
\* be the route's validator that answers.
AnsweredOnce == At("done") => Len(cur.codes) = 1

\* The page of a guarded path runs only for a request that its validator has
\* let through and identified.
GuardedPage == At("page") /\ Guard(Req.path) # "none" => Authenticated(cur)

\* No session tree is ever lost: whoever creates one releases it before
\* request->hdlr_extra goes, whoever frees that.
SessionsReleased == "session" \notin lost

\* What does get lost with a request: the principal a validator stored
\* (middleware.c:58), unless the status controller, the only one that frees
\* it, ran; and decoded credentials that compared unequal.  Nothing else.
Validated == Req.header = "right" /\ (Guard(Req.path) = "auth_basic" => Configured)
LossIsExact ==
    [][Finish => FreeExtra(cur).lost =
          {k \in {"principal"} : /\ Guard(Req.path) # "none" /\ Validated
                                 /\ ~(Req.path = "/status" /\ Req.method = "GET")}
          \cup {k \in {"decoded"} : /\ Guard(Req.path) = "auth_basic" /\ Configured
                                    /\ Req.header = "near"}]_vars

\* Attempts at basic authentication are delayed from the SlowFrom-th refusal
\* in a row on, however they were refused; an accepted one ends the delay.
Throttled ==
    cur # NULL /\ cur.stage # "validate" /\ Guard(Req.path) = "auth_basic" /\ Configured =>
        cur.pause = IF refused >= SlowerFrom THEN 5 ELSE IF refused >= SlowFrom THEN 1 ELSE 0

\* The status page says that somebody is authenticated when that holds for
\* the request it answers, although its flag is never reset.
StatusFlagHonest ==
    [][AppStatus /\ cur' # NULL /\ cur'.codes = <<200>> =>
          (status_has_auth_user' = 1 <=> cur.extra # NULL /\ cur.extra.principal)]_vars

\* Between turns the active counter is the number of connections; it is off
\* by the websockets that Kore took the callback from, which it counts as if
\* they were there, and by the connections open at a reload, which it takes
\* for gone and whose ends are counted again.  Nothing else moves it.
ActiveCount ==
    cur = NULL /\ parent # "stopped" =>
        counters.conn_active = (Cardinality(Connected) + strays) % Width

\* What clients see of the worker: the line they wait in, whose first may have
\* its turn, and what that one has been answered so far.
Line == IF cur = NULL THEN queue ELSE <<cur.conn>> \o queue
Codes == IF cur = NULL THEN <<>> ELSE cur.codes

\* The requests that may end the worker under a configuration: they lack the
\* credentials after the method or the name of the client, or they fetch a
\* stored file; under one that lacks an item, all that need it.
Reporting == GuardedBy.basic \cup {"/readme", "/teapot", "/fox", "/shutdown", "/elsewhere"}
MayEnd(r, s) ==
    \/ /\ r.path \in GuardedBy.basic
       /\ \/ r.header \in {"bare", "garbled"}
          \/ r.header = "right" /\ s.auth = "undivided"
    \/ r.path \in GuardedBy.jwt /\ r.header = "bare"
    \/ r.path \in GuardedBy.jwt /\ r.header = "right" /\ r.method = "GET" /\ r.params = "good"
    \/ r.path \in Reporting /\ ~(r.agent /\ s.domain)
    \/ r.path = "/status" /\ ~s.storage

Clients == INSTANCE Server WITH
               Unproven <- {r \in Requests : Guard(r.path) # "none" /\ r.header # "right"},
               Shutdowns <- {r \in Requests : r.path = "/shutdown"},
               Fatal <- {r \in Requests : \E s \in Settings : MayEnd(r, s)},
               Refusals <- {401, 403, 404},
               line <- Line, codes <- Codes

\* Whatever validators, pages and reloads do, a request gets one answer, in its
\* turn, and a refusal if it comes to a guarded page without the credentials;
\* or it is one of those that MayEnd tells apart, and ends the worker and all
\* that wait in its line.  No other request costs a client its answer.
ImplementsServer == Clients!Spec

\* A request that waits is eventually served, unless its client leaves, the
\* worker is stopped, or a request before it ends the worker.
EventuallyServed ==
    \A c \in Conns : conn[c] = "waiting" ~> conn[c] # "waiting"

\* A shutdown request is followed by the end of the worker.
ShutdownHappens == parent = "told" ~> parent = "stopped"
=============================================================================
