----------------------------- MODULE Application -----------------------------
(***************************************************************************)
(* The express application inside the server process: the stack of layers  *)
(* a request walks down, the error middleware at its end, the layers that  *)
(* extensions add, and the event bus between handlers and extensions.      *)
(* Every step is one of ServerLifecycle's or leaves the server alone.      *)
(***************************************************************************)
EXTENDS ServerLifecycle, ConfigExpiry

CONSTANTS
  Path,       \* what requests ask for: routes, "unknown", and the extensions' own
  Throwing    \* extensions whose listeners may throw

ASSUME ApplicationAssumption == Throwing \subseteq Plugin

VARIABLES
  added,      \* layers of app.stack that extensions added behind the core's
  req,        \* what each request asks for and the layer it stands at
  answers,    \* the answers sent to each request
  listeners,  \* the extensions that listen, in the order they began to
  emitted,    \* history: requests whose event was emitted
  ticks,      \* events that wait for process.nextTick
  heard       \* events each extension was called with

router == <<req, answers>>
bus == <<emitted, ticks, heard>>
app == <<added, listeners, router, bus>>
vars == <<server, app>>

-----------------------------------------------------------------------------
(* The stack. *)

AuthLimited == {"register", "login", "forgot-password", "reset-password"}
Guarded == {"sessions", "revoke"}
Handled == AuthLimited \cup Guarded \cup {"refresh", "logout", "verify-email"}

\* Routes whose handler emits an event; logout emits for a token it finds.
Emits == {"register", "login", "logout", "reset-password", "revoke"}

Layer(name, serves, may) == [name |-> name, serves |-> serves, may |-> may]
ErrorLayer == Layer("errorHandler", Path, {"report"})

\* Nested routers are flattened: an error leaves them, and so does a request none
\* of their layers serves.  A layer that always calls next is left out.
Routes ==
  << Layer("apiRateLimiter", Path, {"next", "limited"}),
     Layer("body", Path, {"next", "failed"}),
     Layer("docs", {"docs"}, {"ok"}),
     Layer("authRateLimiter", AuthLimited, {"next", "limited"}),
     Layer("validate", AuthLimited, {"next", "refused"}),
     Layer("authenticate", Guarded, {"next", "refused", "failed"}),
     Layer("controller", Handled, {"ok", "refused", "failed"}),
     Layer("health", {"health"}, {"ok"}) >>

CoreStackOpen == Routes \o <<ErrorLayer>>
CoreStack == Routes \o <<Layer("notFound", Path, {"refused"}), ErrorLayer>>

ExtensionLayer(p) == Layer(p, {p}, {"ok"})

stack == CoreStack \o added

OnError(layer) == layer.may = {"report"}

\* The next layer that takes the request: an error passes the ordinary layers by.
\* Behind the stack waits express's own answer, which is not in the envelope.
NextLayer(i, path, failing) ==
  LET takers == {j \in DOMAIN stack : j > i /\ path \in stack[j].serves
                                     /\ OnError(stack[j]) = failing}
  IN IF takers = {} THEN Len(stack) + 1 ELSE CHOOSE j \in takers : \A k \in takers : j <= k

LayerOf(r) ==
  IF req[r].layer \in DOMAIN stack THEN stack[req[r].layer]
  ELSE Layer("finalhandler", Path, {"report"})

Underway(r) == Running /\ conn[r] = "started"
May(r, outcome) == Underway(r) /\ outcome \in LayerOf(r).may

-----------------------------------------------------------------------------
(* Requests. *)

\* Ticks come before the event loop takes anything new from outside.
Begin(r, path) ==
  /\ Accept(r) /\ ticks = <<>>
  /\ req' = [req EXCEPT ![r] = [path |-> path, layer |-> NextLayer(0, path, FALSE),
                                error |-> "none"]]
  /\ UNCHANGED <<added, listeners, answers, bus>>

\* authenticate and the handlers query, any number of times.
UseDatabase(r) ==
  /\ LayerOf(r).name \in {"authenticate", "controller"}
  /\ Query(r)
  /\ UNCHANGED app

Pass(r) ==
  /\ May(r, "next")
  /\ req' = [req EXCEPT ![r].layer = NextLayer(@, req[r].path, FALSE)]
  /\ UNCHANGED <<server, added, listeners, answers, bus>>

ThrowSwallowed(r, error) ==
  /\ May(r, error)
  /\ req' = [req EXCEPT ![r].error = error, ![r].layer =
               IF LayerOf(r).name = "authenticate" THEN @ ELSE NextLayer(@, req[r].path, TRUE)]
  /\ UNCHANGED <<server, added, listeners, answers, bus>>

\* next(error), a throw or a rejection: ApiErrors and ZodErrors are "refused" with
\* a status of 4xx, as is any known request error of Prisma; the rest has "failed",
\* the errors of the body parsers included, and is answered 500.
Throw(r, error) ==
  /\ May(r, error)
  /\ req' = [req EXCEPT ![r].layer = NextLayer(@, req[r].path, TRUE), ![r].error = error]
  /\ UNCHANGED <<server, added, listeners, answers, bus>>

Idle == [path |-> "none", layer |-> 0, error |-> "none"]

Send(r, status) == answers' = [answers EXCEPT ![r] = Append(@, status)]
Respond(r, status) ==
  /\ Send(r, status) /\ Answer(r)
  /\ req' = [req EXCEPT ![r] = Idle]

LimitAndGoOn(r) ==
  /\ May(r, "limited") /\ Send(r, "limited")
  /\ req' = [req EXCEPT ![r].layer = NextLayer(@, req[r].path, FALSE)]
  /\ UNCHANGED <<server, added, listeners, bus>>

\* A limiter answers 429 itself.
Limit(r) ==
  /\ May(r, "limited") /\ Respond(r, "limited")
  /\ UNCHANGED <<added, listeners, bus>>

EmitNow(r) ==
  /\ May(r, "ok")
  /\ \/ LayerOf(r).name = "controller" /\ req[r].path \in Emits /\ Throwing # {}
        /\ emitted' = Append(emitted, r)
        /\ req' = [req EXCEPT ![r].layer = NextLayer(@, req[r].path, TRUE), ![r].error = "failed"]
        /\ UNCHANGED <<server, added, listeners, answers, ticks, heard>>
     \/ Respond(r, "ok") /\ UNCHANGED <<added, listeners, bus>>

\* The layer answers 2xx; the controller of a route with an event has emitted it.
Serve(r) ==
  /\ May(r, "ok") /\ Respond(r, "ok")
  /\ \/ LayerOf(r).name = "controller" /\ req[r].path \in Emits
        /\ emitted' = Append(emitted, r) /\ ticks' = Append(ticks, r)
     \/ ~(LayerOf(r).name = "controller" /\ req[r].path \in Emits \ {"logout"})
        /\ UNCHANGED <<emitted, ticks>>
  /\ UNCHANGED <<added, listeners, heard>>

\* errorHandler answers with the status of the error.
Report(r) ==
  /\ May(r, "report") /\ Respond(r, req[r].error)
  /\ UNCHANGED <<added, listeners, bus>>

-----------------------------------------------------------------------------
(* Extensions and the event bus. *)

\* init subscribes, then adds the extension's route, and may throw anywhere.
InitializeExtension ==
  /\ InitializePlugin
  /\ LET p == Head(todo) IN
     IF plugin'[p] = "listening"
       THEN listeners' = Append(listeners, p) /\ added' = Append(added, ExtensionLayer(p))
       ELSE listeners' \in {listeners, Append(listeners, p)} /\ UNCHANGED added
  /\ UNCHANGED <<router, bus>>

DeliverLast ==
  /\ Running /\ ticks # <<>>
  /\ heard' = [p \in Plugin |->
                 IF \E i \in DOMAIN listeners : listeners[i] = p
                   THEN Append(heard[p], ticks[Len(ticks)]) ELSE heard[p]]
  /\ ticks' = SubSeq(ticks, 1, Len(ticks) - 1)
  /\ UNCHANGED <<server, added, listeners, router, emitted>>

\* The listeners are called in order, until one throws: that is logged.
Deliver ==
  /\ Running /\ ticks # <<>>
  /\ \E last \in 0..Len(listeners) :
       /\ last = Len(listeners) \/ (last > 0 /\ listeners[last] \in Throwing)
       /\ heard' = [p \in Plugin |->
                      IF \E i \in 1..last : listeners[i] = p
                        THEN Append(heard[p], Head(ticks)) ELSE heard[p]]
  /\ ticks' = Tail(ticks)
  /\ UNCHANGED <<server, added, listeners, router, emitted>>

-----------------------------------------------------------------------------

AppInit ==
  /\ Init
  /\ added = <<>> /\ listeners = <<>>
  /\ req = [r \in Request |-> Idle]
  /\ answers = [r \in Request |-> <<>>]
  /\ emitted = <<>> /\ ticks = <<>> /\ heard = [p \in Plugin |-> <<>>]

Handling(r) ==
  \/ Pass(r) \/ Limit(r) \/ Serve(r) \/ Report(r)
  \/ \E error \in {"refused", "failed"} : Throw(r, error)

AppNext ==
  \/ InitializeExtension
  \/ (LoadConfig \/ ConnectRedis \/ ConnectDatabase \/ Listen \/ ListenFails \/ BootFails
      \/ Kill) /\ UNCHANGED app
  \/ \E r \in Request, path \in Path : Begin(r, path)
  \/ \E r \in Request : UseDatabase(r) \/ Handling(r)
  \/ Deliver
  \/ \E s \in Signal : Receive(s) /\ ticks = <<>> /\ UNCHANGED app
  \/ \E s \in Signal : Shutdown(s) /\ UNCHANGED app

AppSpec == AppInit /\ [][AppNext]_vars

\* What a handler awaits settles: Redis retries are bounded, the pool gives up on
\* a connection after ten seconds.  The event loop does not stand still while some
\* handler can go on; that it favours none is not needed.
AppFairSpec ==
  /\ AppSpec
  /\ WF_vars(\E r \in Request : Handling(r))
  /\ WF_vars(\E s \in Signal : Shutdown(s) /\ UNCHANGED app)

-----------------------------------------------------------------------------

Status == {"ok", "limited", "refused", "failed"}
Requests(seq) == \A i \in DOMAIN seq : seq[i] \in Request

\* Every variable has its type, a request no more than one answer: a layer that
\* answers does not go on to the next one.
AppTypeOK ==
  /\ boot \in {"config", "redis", "database", "plugins", "up"}
  /\ exit \in {"running", "failed", "killed", "clean"}
  /\ database \in {"closed", "open"} /\ accepting \in BOOLEAN
  /\ \A i \in DOMAIN listeners : listeners[i] \in Plugin
  /\ \A r \in Request : answers[r] \in {<<>>} \cup {<<s>> : s \in Status}
  /\ Requests(emitted) /\ Requests(ticks) /\ \A p \in Plugin : Requests(heard[p])

\* A request for a core route, or for none that exists, is answered by the core's
\* own layers: no extension takes it over, and it never runs off the stack to be
\* answered without the envelope.
CoreAnswersAll ==
  \A r \in Request :
    Underway(r) /\ req[r].path \notin Plugin => req[r].layer \in 1..Len(CoreStack)

\* Events reach an extension in the order they were emitted and none is lost but to
\* the end of the process, unless an extension that began to listen earlier throws.
HeardInOrder ==
  \A i \in DOMAIN listeners :
    (\A j \in 1..(i - 1) : listeners[j] \notin Throwing)
      => heard[listeners[i]] \o ticks = emitted

\* What an extension does with an event cannot turn the answer: an operation that
\* was announced is answered as done, once.
AnnouncedIsOk == \A i \in DOMAIN emitted : answers[emitted[i]] = <<"ok">>

\* A server past its configuration gives rows, keys and cookies the lifetime of the
\* refresh token, if JWT_REFRESH_EXPIRY is a whole number and one of m, h and d;
\* with another spelling they part, save for two accidents.
ExpiryInStep == boot # "config" => LifetimesAgree

\* Every request accepted is answered unless the process ends first.
AcceptedAnswered ==
  \A r \in Request : conn[r] = "started" ~> answers[r] # <<>> \/ ~Running

=============================================================================
