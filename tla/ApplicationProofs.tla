-------------------------- MODULE ApplicationProofs --------------------------
(* Whatever routes extensions add and whatever their listeners throw, every   *)
(* request is answered once, by the core, and events keep their order.        *)
EXTENDS Application, SequenceTheorems, TLAPS

-----------------------------------------------------------------------------
(* The server: boot order and shutdown order keep requests off an unready     *)
(* one, whatever extensions are registered and however many signals arrive.   *)

LifecycleTypeOK ==
  /\ todo \in Seq(Plugin)
  /\ plugin \in [Plugin -> {"registered", "listening", "broken"}]
  /\ conn \in [Request -> {"none", "started", "answered"}]
  /\ handler \in [Signal -> {"none", "disconnect", "quit", "failed", "done"}]

\* An extension that had no turn yet is on the list; the list is empty, and the
\* client open, when the server comes up; a server still accepting has received
\* no signal.
Ordered ==
  /\ \A p \in Plugin : plugin[p] = "registered" => \E i \in DOMAIN todo : todo[i] = p
  /\ boot = "up" => todo = <<>>
  /\ boot # "up" => ~accepting /\ (\A r \in Request : conn[r] = "none")
                               /\ (\A s \in Signal : handler[s] = "none")
  /\ boot = "plugins" => database = "open"
  /\ accepting => database = "open" /\ \A s \in Signal : handler[s] = "none"

LifecycleInv == LifecycleTypeOK /\ Ordered

LEMMA LifecycleInit == Init => LifecycleInv
<1> SUFFICES ASSUME Init PROVE LifecycleInv
  OBVIOUS
<1>1. LifecycleTypeOK
  BY LifecycleAssumption DEF Init, LifecycleTypeOK
<1>2. Ordered
  BY LifecycleAssumption DEF Init, Ordered
<1>3. QED BY <1>1, <1>2 DEF LifecycleInv

\* The extension at the head of the list leaves it as it gets its turn.
LEMMA TurnTaken ==
  ASSUME LifecycleInv, InitializePlugin
  PROVE  LifecycleInv'
<1> USE DEF LifecycleInv
<1>1. /\ todo \in Seq(Plugin) /\ todo # <<>> /\ todo' = Tail(todo)
      /\ Head(todo) \in Plugin
  BY DEF InitializePlugin, LifecycleTypeOK
<1>2. PICK outcome \in {"listening", "broken"} :
        plugin' = [plugin EXCEPT ![Head(todo)] = outcome]
  BY DEF InitializePlugin
<1>3. LifecycleTypeOK'
  BY <1>1, <1>2 DEF InitializePlugin, LifecycleTypeOK
<1>4. ASSUME NEW p \in Plugin, plugin'[p] = "registered"
      PROVE  \E i \in DOMAIN todo' : todo'[i] = p
  <2>1. p # Head(todo) /\ plugin[p] = "registered"
    BY <1>1, <1>2, <1>4 DEF LifecycleTypeOK
  <2>2. PICK i \in DOMAIN todo : todo[i] = p
    BY <2>1 DEF Ordered
  <2>3. i # 1 /\ i \in 1..Len(todo)
    BY <1>1, <2>1, <2>2
  <2>4. i - 1 \in DOMAIN Tail(todo) /\ Tail(todo)[i - 1] = p
    BY <1>1, <2>2, <2>3
  <2>5. QED BY <1>1, <2>4
<1>5. Ordered'
  BY <1>4 DEF InitializePlugin, Booting, Running, Ordered
<1>6. QED BY <1>3, <1>5

LEMMA LifecycleStep == LifecycleInv /\ [Next]_server => LifecycleInv'
<1> SUFFICES ASSUME LifecycleInv, [Next]_server
             PROVE  LifecycleInv'
  OBVIOUS
<1> USE DEF LifecycleInv, LifecycleTypeOK, Ordered, Booting, Running, Up
<1>1. CASE LoadConfig \/ ConnectRedis \/ ConnectDatabase
  BY <1>1 DEF LoadConfig, ConnectRedis, ConnectDatabase
<1>2. CASE InitializePlugin
  BY <1>2, TurnTaken
<1>3. CASE Listen \/ ListenFails
  BY <1>3 DEF Listen, ListenFails
<1>4. CASE BootFails \/ Kill
  BY <1>4 DEF BootFails, Kill
<1>5. ASSUME NEW r \in Request, Accept(r) \/ Query(r) \/ Answer(r)
      PROVE  LifecycleInv'
  <2>1. CASE Accept(r)
    BY <2>1 DEF Accept
  <2>2. CASE Query(r)
    BY <2>2 DEF Query
  <2>3. CASE Answer(r)
    BY <2>3 DEF Answer
  <2>4. QED BY <1>5, <2>1, <2>2, <2>3
<1>6. ASSUME NEW s \in Signal, Receive(s) \/ Shutdown(s)
      PROVE  LifecycleInv'
  <2>1. CASE Receive(s)
    BY <2>1 DEF Receive
  <2>2. CASE Disconnect(s)
    BY <2>2 DEF Disconnect
  <2>3. CASE DisconnectFails(s)
    BY <2>3 DEF DisconnectFails
  <2>4. CASE Quit(s)
    BY <2>4 DEF Quit
  <2>5. QED BY <1>6, <2>1, <2>2, <2>3, <2>4 DEF Shutdown
<1>7. CASE UNCHANGED server
  BY <1>7 DEF server
<1>8. QED BY <1>1, <1>2, <1>3, <1>4, <1>5, <1>6, <1>7 DEF Next, Boot

\* No event of a request is missed by an extension that was to listen.
THEOREM AllEventsHeard == Spec => []EventsHeard
<1>1. LifecycleInv => EventsHeard
  BY DEF LifecycleInv, LifecycleTypeOK, Ordered, EventsHeard
<1>2. QED BY <1>1, LifecycleInit, LifecycleStep, PTL DEF Spec

\* The server never accepts a request after its database client was closed.
THEOREM AlwaysAcceptsWhileOpen == Spec => []AcceptsWhileOpen
<1>1. LifecycleInv => AcceptsWhileOpen
  BY DEF LifecycleInv, Ordered, AcceptsWhileOpen
<1>2. QED BY <1>1, LifecycleInit, LifecycleStep, PTL DEF Spec

-----------------------------------------------------------------------------
(* The application: sequences and its stack of layers.                        *)

LEMMA ConcatFacts ==
  ASSUME NEW S, NEW s \in Seq(S), NEW t \in Seq(S)
  PROVE  /\ s \o t \in Seq(S) /\ Len(s \o t) = Len(s) + Len(t)
         /\ \A i \in 1..Len(s) : (s \o t)[i] = s[i]
         /\ \A i \in 1..Len(t) : (s \o t)[Len(s) + i] = t[i]
<1>1. s \o t \in Seq(S)
  OBVIOUS
<1>2. Len(s \o t) = Len(s) + Len(t)
  OBVIOUS
<1>3. ASSUME NEW i \in 1..Len(s) PROVE (s \o t)[i] = s[i]
  OBVIOUS
<1>4. ASSUME NEW i \in 1..Len(t) PROVE (s \o t)[Len(s) + i] = t[i]
  OBVIOUS
<1>5. QED BY <1>1, <1>2, <1>3, <1>4

LEMMA OwnRange ==
  ASSUME NEW S, NEW s \in Seq(S)
  PROVE  s \in Seq({s[i] : i \in 1..Len(s)})
BY LenProperties, SeqDef

LEMMA RoutesFacts ==
  /\ Routes \in Seq({Routes[i] : i \in 1..8}) /\ Len(Routes) = 8
  /\ \A i \in 1..8 : "report" \notin Routes[i].may
<1>1. Len(Routes) = 8
  BY DEF Routes
<1>2. Routes \in Seq({Routes[i] : i \in 1..8})
  BY DEF Routes
<1>3. ASSUME NEW i \in 1..8 PROVE "report" \notin Routes[i].may
  <2>1. CASE i \in {1, 2, 3, 4}
    BY <2>1 DEF Routes, Layer
  <2>2. CASE i \in {5, 6, 7, 8}
    BY <2>2 DEF Routes, Layer
  <2>3. QED BY <2>1, <2>2
<1>4. QED BY <1>1, <1>2, <1>3

\* The catch-all and the error middleware are the last two of the core's ten
\* layers, and only the error middleware reports.
LEMMA CoreStackFacts ==
  /\ CoreStack \in Seq({CoreStack[i] : i \in 1..10}) /\ Len(CoreStack) = 10
  /\ \A i \in 1..9 : "report" \notin CoreStack[i].may
  /\ CoreStack[9] = Layer("notFound", Path, {"refused"})
  /\ CoreStack[10] = ErrorLayer
<1> DEFINE last == <<Layer("notFound", Path, {"refused"}), ErrorLayer>>
           R == {Routes[i] : i \in 1..8}
           L == R \cup {last[1], last[2]}
<1>1. last \in Seq(L) /\ Len(last) = 2 /\ last[1] = Layer("notFound", Path, {"refused"})
      /\ last[2] = ErrorLayer
  OBVIOUS
<1>2. Routes \in Seq(L)
  BY RoutesFacts, SeqMonotonic
<1>3. CoreStack = Routes \o last
  BY DEF CoreStack
<1> HIDE DEF last, R, L
<1>a. /\ Routes \o last \in Seq(L) /\ Len(Routes \o last) = Len(Routes) + Len(last)
      /\ \A i \in 1..Len(Routes) : (Routes \o last)[i] = Routes[i]
      /\ \A i \in 1..Len(last) : (Routes \o last)[Len(Routes) + i] = last[i]
  <2>1. last \in Seq(L)
    BY <1>1
  <2>2. /\ Routes \o last \in Seq(L) /\ Len(Routes \o last) = Len(Routes) + Len(last)
    BY <1>2, <2>1, ConcatFacts, Zenon
  <2>3. \A i \in 1..Len(Routes) : (Routes \o last)[i] = Routes[i]
    BY <1>2, <2>1, ConcatFacts, Zenon
  <2>4. ASSUME NEW i \in 1..Len(last) PROVE (Routes \o last)[Len(Routes) + i] = last[i]
    BY <1>2, <2>1
  <2>5. QED BY <2>2, <2>3, <2>4
<1>b. Len(Routes) = 8 /\ Len(last) = 2
  BY <1>1, RoutesFacts
<1>4. CoreStack \in Seq(L) /\ Len(CoreStack) = 10
  BY <1>3, <1>a, <1>b
<1>5. \A i \in 1..8 : CoreStack[i] = Routes[i]
  BY <1>3, <1>a, <1>b
<1>6. CoreStack[8 + 1] = last[1] /\ CoreStack[8 + 2] = last[2]
  BY <1>3, <1>a, <1>b
<1>7. ASSUME NEW i \in 1..9 PROVE "report" \notin CoreStack[i].may
  <2>1. CASE i \in 1..8
    BY <2>1, <1>5, RoutesFacts
  <2>2. CASE i = 9
    BY <2>2, <1>1, <1>6 DEF Layer
  <2>3. QED BY <2>1, <2>2
<1>8. CoreStack \in Seq({CoreStack[i] : i \in 1..10})
  BY <1>4, OwnRange
<1>9. QED BY <1>1, <1>4, <1>6, <1>7, <1>8

\* A set of positive numbers with one up to ten has a least one.
LEMMA LeastUpToTen ==
  ASSUME NEW T, T \subseteq Nat \ {0}, NEW n \in T, n <= 10
  PROVE  \E j \in T : j <= n /\ \A k \in T : j <= k
<1> DEFINE Least(j) == j \in T /\ \A k \in T : j <= k
<1>1. CASE 1 \in T
  BY <1>1
<1>2. CASE 1 \notin T /\ 2 \in T
  BY <1>2
<1>3. CASE {1, 2} \cap T = {} /\ 3 \in T
  BY <1>3
<1>4. CASE {1, 2, 3} \cap T = {} /\ 4 \in T
  BY <1>4
<1>5. CASE {1, 2, 3, 4} \cap T = {} /\ 5 \in T
  BY <1>5
<1>6. CASE {1, 2, 3, 4, 5} \cap T = {} /\ 6 \in T
  BY <1>6
<1>7. CASE {1, 2, 3, 4, 5, 6} \cap T = {} /\ 7 \in T
  BY <1>7
<1>8. CASE {1, 2, 3, 4, 5, 6, 7} \cap T = {} /\ 8 \in T
  BY <1>8
<1>9. CASE {1, 2, 3, 4, 5, 6, 7, 8} \cap T = {} /\ 9 \in T
  BY <1>9
<1>10. CASE {1, 2, 3, 4, 5, 6, 7, 8, 9} \cap T = {} /\ 10 \in T
  BY <1>10
<1>11. QED BY <1>1, <1>2, <1>3, <1>4, <1>5, <1>6, <1>7, <1>8, <1>9, <1>10

-----------------------------------------------------------------------------

ReqType == [path : Path \cup {"none"}, layer : Nat, error : {"none", "refused", "failed"}]
ReqTypes == [Request -> ReqType]
AnswerTypes == [Request -> {<<>>} \cup {<<s>> : s \in Status}]

AppTypes ==
  /\ added \in Seq({ExtensionLayer(p) : p \in Plugin})
  /\ listeners \in Seq(Plugin)
  /\ req \in ReqTypes /\ answers \in AnswerTypes
  /\ emitted \in Seq(Request) /\ ticks \in Seq(Request)
  /\ heard \in [Plugin -> Seq(Request)]
  /\ boot \in {"config", "redis", "database", "plugins", "up"}
  /\ exit \in {"running", "failed", "killed", "clean"}
  /\ database \in {"closed", "open"} /\ accepting \in BOOLEAN

\* A request under way stands at a layer of the core, with an error when it is
\* the last, and has no answer yet.
Positions ==
  \A r \in Request :
    /\ conn[r] # "answered" => answers[r] = <<>>
    /\ conn[r] = "started" => /\ req[r].path \in Path /\ req[r].layer \in 1..10
                              /\ req[r].layer = 10 => req[r].error # "none"

Events ==
  /\ \A i \in DOMAIN emitted : conn[emitted[i]] = "answered"
  /\ AnnouncedIsOk /\ HeardInOrder
  /\ boot # "up" => emitted = <<>> /\ ticks = <<>> /\ \A p \in Plugin : heard[p] = <<>>

AppInv == LifecycleInv /\ AppTypes /\ Positions /\ Events

\* Extensions add their layers behind the core's.
LEMMA StackFacts ==
  ASSUME AppTypes
  PROVE  /\ Len(stack) \in Nat /\ DOMAIN stack = 1..Len(stack) /\ Len(stack) >= 10
         /\ \A i \in 1..10 : stack[i] = CoreStack[i]
<1> DEFINE C == {CoreStack[i] : i \in 1..10}
           E == {ExtensionLayer(p) : p \in Plugin}
<1>1. CoreStack \in Seq(C \cup E) /\ added \in Seq(C \cup E)
  BY CoreStackFacts, SeqMonotonic DEF AppTypes
<1> HIDE DEF C, E
<1>2. Len(CoreStack) = 10
  BY CoreStackFacts
<1>3. Len(added) \in Nat
  BY <1>1, LenProperties
<1>a. /\ stack \in Seq(C \cup E) /\ Len(stack) = Len(CoreStack) + Len(added)
      /\ \A i \in 1..Len(CoreStack) : stack[i] = CoreStack[i]
  BY <1>1, ConcatFacts, Zenon DEF stack
<1>4. Len(stack) = 10 + Len(added)
  BY <1>2, <1>a
<1>5. \A i \in 1..10 : stack[i] = CoreStack[i]
  BY <1>2, <1>a
<1>6. QED BY <1>3, <1>4, <1>5, <1>a, LenProperties

\* A request in front of notFound goes on to a layer no later than it, and an error
\* from any layer but the last to one no later than the error middleware.
LEMMA StaysInCore ==
  ASSUME AppTypes, NEW path \in Path, NEW i \in 0..9, NEW failing \in BOOLEAN,
         failing \/ i <= 8
  PROVE  /\ NextLayer(i, path, failing) \in 1..10
         /\ NextLayer(i, path, failing) = 10 => failing
<1> DEFINE takers == {j \in DOMAIN stack : j > i /\ path \in stack[j].serves
                                           /\ OnError(stack[j]) = failing}
           end == IF failing THEN 10 ELSE 9
<1>1. stack[9] = Layer("notFound", Path, {"refused"}) /\ stack[10] = ErrorLayer
  BY StackFacts, CoreStackFacts
<1>2. /\ OnError(stack[9]) = FALSE /\ stack[9].serves = Path
      /\ OnError(stack[10]) = TRUE /\ stack[10].serves = Path
  BY <1>1 DEF OnError, Layer, ErrorLayer
<1>3. takers \subseteq Nat \ {0} /\ end \in takers /\ end \in Nat /\ end <= 10
  <2>1. /\ Len(stack) \in Nat /\ DOMAIN stack = 1..Len(stack) /\ 9 \in 1..Len(stack)
        /\ 10 \in 1..Len(stack)
    BY StackFacts
  <2>2. takers \subseteq 1..Len(stack)
    BY <2>1
  <2>3. CASE failing
    <3>1. end = 10
      BY <2>3
    <3>2. OnError(stack[10]) = failing
      <4>1. failing = TRUE
        BY <2>3
      <4>2. QED BY <1>2, <4>1
    <3>3. 10 > i
      OBVIOUS
    <3>4. 10 \in takers
      BY <1>2, <2>1, <3>2, <3>3, Zenon
    <3>5. QED BY <2>2, <3>1, <3>4
  <2>4. CASE ~failing
    <3>1. end = 9 /\ OnError(stack[9]) = failing /\ i <= 8
      BY <1>2, <2>4
    <3>2. QED BY <1>2, <2>1, <2>2, <3>1
  <2>5. QED BY <2>3, <2>4
<1>4. \E j \in takers : j <= end /\ \A k \in takers : j <= k
  <2> HIDE DEF takers, end
  <2>1. QED BY <1>3, LeastUpToTen
<1>5. NextLayer(i, path, failing) = CHOOSE j \in takers : \A k \in takers : j <= k
  BY <1>3 DEF NextLayer
<1>6. NextLayer(i, path, failing) \in takers /\ NextLayer(i, path, failing) <= end
  <2> HIDE DEF takers, end
  <2>1. QED BY <1>3, <1>4, <1>5
<1>7. QED BY <1>3, <1>6

LEMMA OnwardInCore ==
  ASSUME AppTypes, NEW path \in Path, NEW i \in 0..8
  PROVE  /\ NextLayer(i, path, FALSE) \in 1..10
         /\ NextLayer(i, path, FALSE) # 10
<1>1. i \in 0..9 /\ i <= 8 /\ FALSE \in BOOLEAN
  OBVIOUS
<1>2. QED BY <1>1, StaysInCore, Zenon

LEMMA ErrorInCore ==
  ASSUME AppTypes, NEW path \in Path, NEW i \in 0..9
  PROVE  NextLayer(i, path, TRUE) \in 1..10
<1>1. TRUE \in BOOLEAN
  OBVIOUS
<1>2. QED BY <1>1, StaysInCore, Zenon

-----------------------------------------------------------------------------
(* A step of the application is a step of the server or leaves it alone. *)

LEMMA AppStepIsServerStep == [AppNext]_vars => [Next]_server
<1> SUFFICES ASSUME [AppNext]_vars PROVE [Next]_server
  OBVIOUS
<1>1. CASE InitializeExtension
  BY <1>1 DEF InitializeExtension, Next, Boot
<1>2. CASE (LoadConfig \/ ConnectRedis \/ ConnectDatabase \/ Listen \/ ListenFails
            \/ BootFails \/ Kill) /\ UNCHANGED app
  BY <1>2 DEF Next, Boot
<1>3. ASSUME NEW r \in Request, NEW path \in Path, Begin(r, path) PROVE Next
  BY <1>3 DEF Begin, Next
<1>4. ASSUME NEW r \in Request, UseDatabase(r) \/ Handling(r) PROVE [Next]_server
  <2>1. CASE UseDatabase(r)
    BY <2>1 DEF UseDatabase, Next
  <2>2. CASE Pass(r) \/ \E error \in {"refused", "failed"} : Throw(r, error)
    BY <2>2 DEF Pass, Throw
  <2>3. CASE Limit(r) \/ Serve(r) \/ Report(r)
    BY <2>3 DEF Limit, Serve, Report, Respond, Next
  <2>4. QED BY <1>4, <2>1, <2>2, <2>3 DEF Handling
<1>5. CASE Deliver
  BY <1>5 DEF Deliver
<1>6. ASSUME NEW s \in Signal, Receive(s) \/ Shutdown(s) PROVE Next
  BY <1>6 DEF Next
<1>7. CASE UNCHANGED vars
  BY <1>7 DEF vars
<1>8. QED BY <1>1, <1>2, <1>3, <1>4, <1>5, <1>6, <1>7 DEF AppNext

\* The application is the server: what holds of ServerLifecycle holds of it.
THEOREM ImplementsLifecycle == AppSpec => Spec
<1>1. AppInit => Init
  BY DEF AppInit
<1>2. QED BY <1>1, AppStepIsServerStep, PTL DEF AppSpec, Spec

-----------------------------------------------------------------------------
(* AppInv is inductive. *)

LEMMA AppInitInv == AppInit => AppInv
<1> SUFFICES ASSUME AppInit PROVE AppInv
  OBVIOUS
<1>1. LifecycleInv
  BY LifecycleInit DEF AppInit
<1>2. AppTypes
  <2>1. /\ added \in Seq({ExtensionLayer(p) : p \in Plugin}) /\ listeners \in Seq(Plugin)
        /\ emitted \in Seq(Request) /\ ticks \in Seq(Request)
    BY DEF AppInit
  <2>2. heard \in [Plugin -> Seq(Request)]
    BY DEF AppInit
  <2>3. answers \in AnswerTypes
    BY DEF AppInit, AnswerTypes
  <2>4. req \in ReqTypes
    BY DEF AppInit, Idle, ReqTypes, ReqType
  <2>5. QED BY <2>1, <2>2, <2>3, <2>4 DEF AppInit, Init, AppTypes
<1>3. Positions
  BY DEF AppInit, Init, Positions
<1>4. \A p \in Plugin : heard[p] = <<>>
  BY DEF AppInit
<1>5. Events
  BY <1>4 DEF AppInit, Events, AnnouncedIsOk, HeardInOrder
<1>6. QED BY <1>1, <1>2, <1>3, <1>5 DEF AppInv

\* A request under way stands at a layer of the core's stack.
LEMMA AtCoreLayer ==
  ASSUME AppInv, NEW r \in Request, Underway(r)
  PROVE  /\ req[r].path \in Path /\ req[r].layer \in 1..10 /\ answers[r] = <<>>
         /\ LayerOf(r) = CoreStack[req[r].layer]
         /\ "next" \in LayerOf(r).may => req[r].layer \in 1..8
         /\ "refused" \in LayerOf(r).may \/ "failed" \in LayerOf(r).may
              => req[r].layer \in 1..9
         /\ "report" \in LayerOf(r).may => req[r].error \in {"refused", "failed"}
<1>1. req[r].path \in Path /\ req[r].layer \in 1..10 /\ answers[r] = <<>>
      /\ (req[r].layer = 10 => req[r].error # "none")
  BY DEF AppInv, Positions, Underway
<1>2. LayerOf(r) = CoreStack[req[r].layer]
  BY <1>1, StackFacts DEF AppInv, LayerOf
<1>3. req[r].layer \in 1..8 \/ req[r].layer = 9 \/ req[r].layer = 10
  BY <1>1
<1>4. CoreStack[9].may = {"refused"} /\ CoreStack[10].may = {"report"}
  BY CoreStackFacts DEF Layer, ErrorLayer
<1>5. "report" \in LayerOf(r).may => req[r].layer = 10
  BY <1>2, <1>3, CoreStackFacts
<1>6. req[r].error \in {"none", "refused", "failed"}
  BY DEF AppInv, AppTypes, ReqTypes, ReqType
<1>7. QED BY <1>1, <1>2, <1>3, <1>4, <1>5, <1>6

\* A step that touches neither the bus nor the listeners, nor the answer of a
\* request already answered.
LEMMA QuietStep ==
  ASSUME AppInv, UNCHANGED <<listeners, emitted, ticks, heard>>,
         boot' = boot \/ boot' = "up" \/ boot # "up",
         \A r \in Request : conn[r] = "answered" => conn'[r] = "answered" /\ answers'[r] = answers[r]
  PROVE  Events'
<1> USE DEF AppInv, Events
<1>1. \A i \in DOMAIN emitted : emitted[i] \in Request
  BY DEF AppTypes
<1>2. (\A i \in DOMAIN emitted : conn[emitted[i]] = "answered")' /\ AnnouncedIsOk'
  BY <1>1 DEF AnnouncedIsOk
<1>3. HeardInOrder'
  BY DEF HeardInOrder
<1>4. QED BY <1>2, <1>3

\* The answer of a layer takes the request off the stack with one status.
LEMMA Responding ==
  ASSUME AppInv, NEW r \in Request, Underway(r), NEW status \in Status,
         Respond(r, status), UNCHANGED <<added, listeners>>
  PROVE  /\ Positions'
         /\ req' \in ReqTypes /\ answers' \in AnswerTypes
         /\ conn'[r] = "answered" /\ answers'[r] = <<status>>
         /\ \A q \in Request \ {r} : conn'[q] = conn[q] /\ answers'[q] = answers[q]
         /\ boot' = boot
<1> USE DEF AppInv, AppTypes, ReqTypes, AnswerTypes
<1>1. answers[r] = <<>>
  BY AtCoreLayer
<1>2. answers' = [answers EXCEPT ![r] = <<status>>]
  BY <1>1 DEF Respond, Send
<1>3. conn' = [conn EXCEPT ![r] = "answered"] /\ boot' = boot
  BY DEF Respond, Answer
<1>4. req' = [req EXCEPT ![r] = Idle]
  BY DEF Respond
<1>5. conn \in [Request -> {"none", "started", "answered"}]
  BY DEF LifecycleInv, LifecycleTypeOK
<1>6. Positions'
  BY <1>2, <1>3, <1>4, <1>5 DEF Positions
<1>7. /\ conn'[r] = "answered" /\ answers'[r] = <<status>>
      /\ \A q \in Request \ {r} : conn'[q] = conn[q] /\ answers'[q] = answers[q]
  BY <1>2, <1>3, <1>5
<1>8. answers' \in AnswerTypes
  BY <1>2
<1>9. req' \in ReqTypes
  BY <1>4 DEF Idle, ReqType
<1>10. QED BY <1>3, <1>6, <1>7, <1>8, <1>9

\* A layer that passes the request on, or an error, keeps it within the core.
LEMMA Moving ==
  ASSUME AppInv, NEW r \in Request,
         Pass(r) \/ \E error \in {"refused", "failed"} : Throw(r, error)
  PROVE  AppTypes' /\ Positions' /\ Events'
<1> USE DEF AppInv
<1>1. UNCHANGED <<server, added, listeners, answers, bus>> /\ Underway(r)
  BY DEF Pass, Throw, May
<1> DEFINE Rerouted ==
      /\ req' \in ReqTypes /\ req'[r].path = req[r].path /\ req'[r].layer \in 1..10
      /\ req'[r].layer = 10 => req'[r].error # "none"
      /\ \A q \in Request \ {r} : req'[q] = req[q]
<1>2. req \in ReqTypes
  BY DEF AppTypes
<1>3. ASSUME Pass(r) PROVE Rerouted
  <2>1. req[r].layer \in 1..8 /\ req[r].path \in Path
    BY <1>1, <1>3, AtCoreLayer DEF Pass, May
  <2>2. req[r].layer \in 0..8
    BY <2>1
  <2>3. /\ NextLayer(req[r].layer, req[r].path, FALSE) \in 1..10
        /\ NextLayer(req[r].layer, req[r].path, FALSE) # 10
    BY <2>1, <2>2, OnwardInCore, Zenon
  <2>4. PICK n \in 1..10 : n # 10 /\ n = NextLayer(req[r].layer, req[r].path, FALSE)
    BY <2>3
  <2>5. req' = [req EXCEPT ![r] = [@ EXCEPT !.layer = n]]
    BY <1>2, <1>3, <2>4 DEF Pass, ReqTypes, ReqType
  <2>6. req'[r] = [req[r] EXCEPT !.layer = n] /\ \A q \in Request \ {r} : req'[q] = req[q]
    BY <1>2, <2>5 DEF ReqTypes, ReqType
  <2>7. req'[r].path = req[r].path /\ req'[r].layer = n /\ req'[r] \in ReqType
    <3>1. req[r] \in ReqType
      BY <1>2 DEF ReqTypes
    <3>2. n \in Nat
      OBVIOUS
    <3>3. PICK x \in ReqType : x = req[r]
      BY <3>1
    <3>4. PICK y : y = [x EXCEPT !.layer = n]
      OBVIOUS
    <3>5. y \in ReqType /\ y.path = x.path /\ y.layer = n
      BY <3>2, <3>4 DEF ReqType
    <3>6. req'[r] = y
      BY <2>6, <3>3, <3>4, Zenon
    <3>7. QED BY <3>3, <3>5, <3>6
  <2>8. req' \in ReqTypes
    BY <1>2, <2>5, <2>7 DEF ReqTypes
  <2>9. QED BY <2>4, <2>6, <2>7, <2>8
<1>4. ASSUME NEW error \in {"refused", "failed"}, Throw(r, error) PROVE Rerouted
  <2>1. req[r].layer \in 1..9 /\ req[r].path \in Path
    BY <1>1, <1>4, AtCoreLayer DEF Throw, May
  <2>2. req[r].layer \in 0..9
    BY <2>1
  <2>3. NextLayer(req[r].layer, req[r].path, TRUE) \in 1..10
    BY <2>1, <2>2, ErrorInCore, Zenon
  <2>4. PICK n \in 1..10 : n = NextLayer(req[r].layer, req[r].path, TRUE)
    BY <2>3
  <2>5. req' = [req EXCEPT ![r] = [@ EXCEPT !.layer = n, !.error = error]]
    BY <1>2, <1>4, <2>4 DEF Throw, ReqTypes, ReqType
  <2>6. /\ req'[r] = [req[r] EXCEPT !.layer = n, !.error = error]
        /\ \A q \in Request \ {r} : req'[q] = req[q]
    BY <1>2, <2>5 DEF ReqTypes, ReqType
  <2>7. /\ req'[r].path = req[r].path /\ req'[r].layer = n /\ req'[r].error = error
        /\ req'[r] \in ReqType
    <3>1. req[r] \in ReqType
      BY <1>2 DEF ReqTypes
    <3>2. n \in Nat
      OBVIOUS
    <3>3. PICK x \in ReqType : x = req[r]
      BY <3>1
    <3>4. PICK y : y = [x EXCEPT !.layer = n, !.error = error]
      OBVIOUS
    <3>5. y \in ReqType /\ y.path = x.path /\ y.layer = n /\ y.error = error
      BY <3>2, <3>4 DEF ReqType
    <3>6. req'[r] = y
      BY <2>6, <3>3, <3>4, Zenon
    <3>7. QED BY <3>3, <3>5, <3>6
  <2>8. req' \in ReqTypes
    BY <1>2, <2>5, <2>7 DEF ReqTypes
  <2>9. error # "none"
    OBVIOUS
  <2>10. QED BY <2>4, <2>6, <2>7, <2>8, <2>9
<1>5. Rerouted
  BY <1>3, <1>4
<1>6. AppTypes'
  BY <1>1, <1>5 DEF AppTypes, AnswerTypes, ReqTypes, server, bus
<1>7. Positions'
  <2>1. req[r].path \in Path /\ answers[r] = <<>>
    BY <1>1, AtCoreLayer
  <2>2. QED BY <1>1, <1>5, <2>1 DEF Positions, server
<1>8. Events'
  BY <1>1, QuietStep DEF server, bus
<1>9. QED BY <1>6, <1>7, <1>8

-----------------------------------------------------------------------------
(* Events. *)

LEMMA AppendFacts ==
  ASSUME NEW S, NEW s \in Seq(S), NEW e \in S
  PROVE  Append(s, e) \in Seq(S) /\ Len(Append(s, e)) = Len(s) + 1
OBVIOUS

LEMMA AppendedBehind ==
  ASSUME NEW S, NEW s \in Seq(S), NEW t \in Seq(S), NEW e \in S
  PROVE  s \o Append(t, e) = Append(s \o t, e)
OBVIOUS

LEMMA HeadMoved ==
  ASSUME NEW S, NEW s \in Seq(S), NEW t \in Seq(S), t # <<>>
  PROVE  Append(s, Head(t)) \o Tail(t) = s \o t
OBVIOUS

\* A request comes in: it stands in front of the first layer that takes it.
LEMMA Begun ==
  ASSUME AppInv, NEW r \in Request, NEW path \in Path, Begin(r, path)
  PROVE  AppTypes' /\ Positions' /\ Events'
<1> USE DEF AppInv
<1>1. /\ UNCHANGED <<boot, database, accepting, exit, added, listeners, answers, bus>>
      /\ conn[r] = "none" /\ conn' = [conn EXCEPT ![r] = "started"]
  BY DEF Begin, Accept
<1>2. 0 \in 0..8
  OBVIOUS
<1>3. NextLayer(0, path, FALSE) \in 1..10 /\ NextLayer(0, path, FALSE) # 10
  BY <1>2, OnwardInCore, Zenon
<1>4. PICK n \in 1..10 : n # 10 /\ n = NextLayer(0, path, FALSE)
  BY <1>3
<1>5. PICK y : y = [path |-> path, layer |-> n, error |-> "none"]
  OBVIOUS
<1>6. y \in ReqType /\ y.path = path /\ y.layer = n
  BY <1>5 DEF ReqType
<1>7. req' = [req EXCEPT ![r] = y]
  BY <1>4, <1>5, Zenon DEF Begin
<1>8. req \in ReqTypes /\ conn \in [Request -> {"none", "started", "answered"}]
  BY DEF AppTypes, LifecycleInv, LifecycleTypeOK
<1>9. req' \in ReqTypes
  BY <1>6, <1>7, <1>8 DEF ReqTypes
<1>10. AppTypes'
  BY <1>1, <1>9 DEF AppTypes, bus, AnswerTypes
<1>11. Positions'
  BY <1>1, <1>4, <1>6, <1>7, <1>8 DEF Positions, ReqTypes
<1>12. Events'
  <2>1. \A q \in Request : conn[q] = "answered" => conn'[q] = "answered" /\ answers'[q] = answers[q]
    BY <1>1, <1>8
  <2>2. QED BY <1>1, <2>1, QuietStep DEF bus
<1>13. QED BY <1>10, <1>11, <1>12

LEMMA Queried ==
  ASSUME AppInv, NEW r \in Request, UseDatabase(r)
  PROVE  AppTypes' /\ Positions' /\ Events'
<1> USE DEF AppInv
<1>1. /\ UNCHANGED <<boot, accepting, exit, conn, app>>
      /\ database' \in {"closed", "open"}
  BY DEF UseDatabase, Query, AppTypes
<1>2. AppTypes'
  BY <1>1 DEF AppTypes, app, router, bus, AnswerTypes, ReqTypes
<1>3. Positions'
  BY <1>1 DEF Positions, app, router
<1>4. Events'
  BY <1>1, QuietStep DEF app, router, bus
<1>5. QED BY <1>2, <1>3, <1>4

\* A layer answers; the event of an operation goes to the end of the queue.
LEMMA Served ==
  ASSUME AppInv, NEW r \in Request, Limit(r) \/ Serve(r) \/ Report(r)
  PROVE  AppTypes' /\ Positions' /\ Events'
<1> USE DEF AppInv
<1>1. Underway(r) /\ UNCHANGED <<added, listeners, heard>>
  BY DEF Limit, Serve, Report, May, bus
<1>2. PICK status \in Status : /\ Respond(r, status)
                               /\ UNCHANGED <<emitted, ticks>> \/ status = "ok"
  <2>1. CASE Limit(r)
    BY <2>1 DEF Limit, Status, bus
  <2>2. CASE Serve(r)
    BY <2>2 DEF Serve, Status
  <2>3. CASE Report(r)
    <3>1. req[r].error \in {"refused", "failed"}
      BY <1>1, <2>3, AtCoreLayer DEF Report, May
    <3>2. QED BY <2>3, <3>1 DEF Report, Status, bus
  <2>4. QED BY <2>1, <2>2, <2>3
<1>3. /\ Positions'
      /\ req' \in ReqTypes /\ answers' \in AnswerTypes
      /\ conn'[r] = "answered" /\ answers'[r] = <<status>>
      /\ \A q \in Request \ {r} : conn'[q] = conn[q] /\ answers'[q] = answers[q]
      /\ boot' = boot
  BY <1>1, <1>2, Responding
<1>4. UNCHANGED <<database, accepting, exit>>
  BY <1>2 DEF Respond, Answer
<1>5. conn[r] = "started" /\ boot = "up"
  BY <1>1 DEF Underway, LifecycleInv, Ordered
<1>6. CASE UNCHANGED <<emitted, ticks>>
  <2>1. AppTypes'
    BY <1>1, <1>3, <1>4, <1>6 DEF AppTypes
  <2>2. \A q \in Request : conn[q] = "answered" => conn'[q] = "answered" /\ answers'[q] = answers[q]
    BY <1>3, <1>5
  <2>3. Events'
    BY <1>1, <1>3, <1>6, <2>2, QuietStep
  <2>4. QED BY <1>3, <2>1, <2>3
<1>7. CASE ~UNCHANGED <<emitted, ticks>>
  <2>1. Serve(r) /\ status = "ok"
    BY <1>2, <1>7 DEF Limit, Report, bus
  <2>2. emitted' = Append(emitted, r) /\ ticks' = Append(ticks, r)
    BY <1>7, <2>1 DEF Serve
  <2>3. emitted \in Seq(Request) /\ ticks \in Seq(Request)
    BY DEF AppTypes
  <2>4. emitted' \in Seq(Request) /\ ticks' \in Seq(Request) /\ Len(emitted') = Len(emitted) + 1
    BY <2>2, <2>3, AppendFacts
  <2>5. \A i \in 1..Len(emitted) : emitted'[i] = emitted[i] /\ emitted[i] \in Request \ {r}
                                  /\ conn[emitted[i]] = "answered"
    BY <1>5, <2>2, <2>3 DEF Events
  <2>6. emitted'[Len(emitted) + 1] = r
    BY <2>2, <2>3
  <2>7. (\A i \in DOMAIN emitted : conn[emitted[i]] = "answered")'
    BY <1>3, <2>3, <2>4, <2>5, <2>6
  <2>8. AnnouncedIsOk'
    BY <1>3, <2>1, <2>3, <2>4, <2>5, <2>6 DEF AnnouncedIsOk, Events
  <2>9. HeardInOrder'
    <3>1. SUFFICES ASSUME NEW i \in DOMAIN listeners,
                          \A j \in 1..(i - 1) : listeners[j] \notin Throwing
                   PROVE  heard[listeners[i]] \o ticks' = emitted'
      BY <1>1 DEF HeardInOrder
    <3>2. heard[listeners[i]] \o ticks = emitted
      BY <3>1 DEF Events, HeardInOrder
    <3>3. heard[listeners[i]] \in Seq(Request)
      BY DEF AppTypes
    <3>4. PICK h \in Seq(Request), t \in Seq(Request) : h = heard[listeners[i]] /\ t = ticks
      BY <2>3, <3>3
    <3>5. h \o Append(t, r) = Append(h \o t, r)
      BY AppendedBehind
    <3>6. QED BY <2>2, <3>2, <3>4, <3>5, Zenon
  <2>10. Events'
    BY <1>3, <1>5, <2>7, <2>8, <2>9 DEF Events
  <2>11. AppTypes'
    BY <1>1, <1>3, <1>4, <2>4 DEF AppTypes
  <2>12. QED BY <1>3, <2>10, <2>11
<1>8. QED BY <1>6, <1>7

\* The oldest event goes to every listener up to the first that throws.
LEMMA Delivered ==
  ASSUME AppInv, Deliver
  PROVE  AppTypes' /\ Positions' /\ Events'
<1> USE DEF AppInv
<1>1. /\ ticks # <<>> /\ ticks' = Tail(ticks)
      /\ UNCHANGED <<server, added, listeners, router, emitted>>
  BY DEF Deliver
<1>2. PICK last \in 0..Len(listeners) :
        /\ last = Len(listeners) \/ (last > 0 /\ listeners[last] \in Throwing)
        /\ heard' = [p \in Plugin |->
                       IF \E i \in 1..last : listeners[i] = p
                         THEN Append(heard[p], Head(ticks)) ELSE heard[p]]
  BY DEF Deliver
<1>3. /\ listeners \in Seq(Plugin) /\ ticks \in Seq(Request)
      /\ heard \in [Plugin -> Seq(Request)]
  BY DEF AppTypes
<1>4. Head(ticks) \in Request /\ Tail(ticks) \in Seq(Request)
  BY <1>1, <1>3
<1>5. heard' \in [Plugin -> Seq(Request)]
  <2>1. \A p \in Plugin : Append(heard[p], Head(ticks)) \in Seq(Request)
    BY <1>3, <1>4, AppendFacts
  <2>2. QED BY <1>2, <1>3, <2>1
<1>6. AppTypes'
  BY <1>1, <1>4, <1>5 DEF AppTypes, server, router, AnswerTypes, ReqTypes
<1>7. Positions'
  BY <1>1 DEF Positions, server, router
<1>8. HeardInOrder'
  <2>1. SUFFICES ASSUME NEW i \in DOMAIN listeners,
                        \A j \in 1..(i - 1) : listeners[j] \notin Throwing
                 PROVE  heard'[listeners[i]] \o ticks' = emitted
    BY <1>1 DEF HeardInOrder
  <2>2. heard[listeners[i]] \o ticks = emitted
    BY <2>1 DEF Events, HeardInOrder
  <2>3. i \in 1..Len(listeners) /\ listeners[i] \in Plugin
    BY <1>3
  <2>4. i <= last
    <3>1. CASE last = Len(listeners)
      BY <1>3, <2>3, <3>1
    <3>2. CASE last > 0 /\ listeners[last] \in Throwing
      BY <1>3, <2>1, <2>3, <3>2
    <3>3. QED BY <1>2, <3>1, <3>2
  <2>5. heard'[listeners[i]] = Append(heard[listeners[i]], Head(ticks))
    BY <1>2, <2>3, <2>4
  <2>6. heard[listeners[i]] \in Seq(Request)
    BY <1>3, <2>3
  <2>7. Append(heard[listeners[i]], Head(ticks)) \o Tail(ticks) = heard[listeners[i]] \o ticks
    BY <1>1, <1>3, <2>6, HeadMoved, Zenon
  <2>8. QED BY <1>1, <2>2, <2>5, <2>7, Zenon
<1>9. boot = "up"
  BY <1>1 DEF Events
<1>10. Events'
  BY <1>1, <1>8, <1>9 DEF Events, AnnouncedIsOk, server, router
<1>11. QED BY <1>6, <1>7, <1>10

\* Before the server is up there are no events: whoever listens has heard them all.
LEMMA Initialized ==
  ASSUME AppInv, InitializeExtension
  PROVE  AppTypes' /\ Positions' /\ Events'
<1> USE DEF AppInv
<1> DEFINE p == Head(todo)
<1>1. /\ boot = "plugins" /\ UNCHANGED <<boot, database, accepting, conn, exit, router, bus>>
      /\ p \in Plugin
  BY DEF InitializeExtension, InitializePlugin, Booting, LifecycleInv, LifecycleTypeOK
<1>2. /\ listeners' = listeners \/ listeners' = Append(listeners, p)
      /\ added' = added \/ added' = Append(added, ExtensionLayer(p))
  BY DEF InitializeExtension
<1> HIDE DEF p
<1>3. listeners' \in Seq(Plugin)
  <2>1. listeners \in Seq(Plugin)
    BY DEF AppTypes
  <2>2. Append(listeners, p) \in Seq(Plugin)
    BY <1>1, <2>1, AppendFacts
  <2>3. QED BY <1>2, <2>1, <2>2
<1>4. added' \in Seq({ExtensionLayer(q) : q \in Plugin})
  <2>1. ExtensionLayer(p) \in {ExtensionLayer(q) : q \in Plugin}
    BY <1>1
  <2>2. added \in Seq({ExtensionLayer(q) : q \in Plugin})
    BY DEF AppTypes
  <2>3. QED BY <1>2, <2>1, <2>2, AppendFacts, Zenon
<1>5. AppTypes'
  BY <1>1, <1>3, <1>4 DEF AppTypes, router, bus, AnswerTypes, ReqTypes
<1>6. Positions'
  BY <1>1 DEF Positions, router
<1>7. /\ emitted' = <<>> /\ ticks' = <<>> /\ \A q \in Plugin : heard'[q] = <<>>
      /\ boot' = "plugins"
  BY <1>1 DEF Events, bus
<1>8. HeardInOrder'
  <2>1. SUFFICES ASSUME NEW i \in DOMAIN listeners'
                 PROVE  heard'[listeners'[i]] \o ticks' = emitted'
    BY DEF HeardInOrder
  <2>2. listeners'[i] \in Plugin
    BY <1>3
  <2>3. QED BY <1>7, <2>2
<1>9. Events'
  BY <1>7, <1>8 DEF Events, AnnouncedIsOk
<1>10. QED BY <1>5, <1>6, <1>9

\* Steps of the server that leave the application alone.
LEMMA ServerOnly ==
  ASSUME AppInv, UNCHANGED app, conn' = conn,
         boot' = boot \/ (boot' \in {"redis", "database", "plugins"} /\ boot # "up") \/ boot' = "up",
         exit' \in {exit, "failed", "killed", "clean"}, database' \in {database, "closed", "open"},
         accepting' \in {accepting, TRUE, FALSE}
  PROVE  AppTypes' /\ Positions' /\ Events'
<1> USE DEF AppInv
<1>1. AppTypes'
  BY DEF AppTypes, app, router, bus, AnswerTypes, ReqTypes
<1>2. Positions'
  BY DEF Positions, app, router
<1>3. Events'
  BY QuietStep DEF app, router, bus
<1>4. QED BY <1>1, <1>2, <1>3

LEMMA AppStep == AppInv /\ [AppNext]_vars => AppInv'
<1> SUFFICES ASSUME AppInv, [AppNext]_vars PROVE AppInv'
  OBVIOUS
<1>1. LifecycleInv'
  BY AppStepIsServerStep, LifecycleStep DEF AppInv
<1>2. AppTypes' /\ Positions' /\ Events'
  <2>1. CASE InitializeExtension
    BY <2>1, Initialized
  <2>2. CASE (LoadConfig \/ ConnectRedis \/ ConnectDatabase \/ Listen \/ ListenFails
              \/ BootFails \/ Kill) /\ UNCHANGED app
    <3>1. CASE LoadConfig \/ ConnectRedis \/ ConnectDatabase
      BY <2>2, <3>1, ServerOnly DEF LoadConfig, ConnectRedis, ConnectDatabase, Booting
    <3>2. CASE Listen \/ ListenFails
      BY <2>2, <3>2, ServerOnly DEF Listen, ListenFails
    <3>3. CASE BootFails \/ Kill
      BY <2>2, <3>3, ServerOnly DEF BootFails, Kill
    <3>4. QED BY <2>2, <3>1, <3>2, <3>3
  <2>3. ASSUME NEW r \in Request, NEW path \in Path, Begin(r, path)
        PROVE  AppTypes' /\ Positions' /\ Events'
    BY <2>3, Begun
  <2>4. ASSUME NEW r \in Request, UseDatabase(r) \/ Handling(r)
        PROVE  AppTypes' /\ Positions' /\ Events'
    <3>1. CASE UseDatabase(r)
      BY <3>1, Queried
    <3>2. CASE Pass(r) \/ \E error \in {"refused", "failed"} : Throw(r, error)
      BY <3>2, Moving
    <3>3. CASE Limit(r) \/ Serve(r) \/ Report(r)
      BY <3>3, Served
    <3>4. QED BY <2>4, <3>1, <3>2, <3>3 DEF Handling
  <2>5. CASE Deliver
    BY <2>5, Delivered
  <2>6. ASSUME NEW s \in Signal, (Receive(s) \/ Shutdown(s)) /\ UNCHANGED app
        PROVE  AppTypes' /\ Positions' /\ Events'
    BY <2>6, ServerOnly DEF Receive, Shutdown, Disconnect, DisconnectFails, Quit
  <2>7. CASE UNCHANGED vars
    BY <2>7, ServerOnly DEF vars, server
  <2>8. QED BY <2>1, <2>2, <2>3, <2>4, <2>5, <2>6, <2>7 DEF AppNext
<1>3. QED BY <1>1, <1>2 DEF AppInv

LEMMA AlwaysAppInv == AppSpec => []AppInv
BY AppInitInv, AppStep, PTL DEF AppSpec

\* No request gets two answers, whatever the layers in front did.
THEOREM AppTypeCorrect == AppSpec => []AppTypeOK
<1>1. AppInv => AppTypeOK
  <2> SUFFICES ASSUME AppInv PROVE AppTypeOK
    OBVIOUS
  <2>1. /\ \A i \in DOMAIN listeners : listeners[i] \in Plugin
        /\ Requests(emitted) /\ Requests(ticks)
    BY DEF AppInv, AppTypes, Requests
  <2>2. \A p \in Plugin : Requests(heard[p])
    BY DEF AppInv, AppTypes, Requests
  <2>3. \A r \in Request : answers[r] \in {<<>>} \cup {<<s>> : s \in Status}
    BY DEF AppInv, AppTypes, AnswerTypes
  <2>4. QED BY <2>1, <2>2, <2>3 DEF AppInv, AppTypes, AppTypeOK
<1>2. QED BY <1>1, AlwaysAppInv, PTL

\* The core's own layers answer every request for a route of its own, or for none,
\* whatever layers the extensions add.
THEOREM CoreAlwaysAnswers == AppSpec => []CoreAnswersAll
<1>1. AppInv => CoreAnswersAll
  BY CoreStackFacts DEF AppInv, Positions, CoreAnswersAll, Underway
<1>2. QED BY <1>1, AlwaysAppInv, PTL

\* Events reach every extension in order, behind listeners that do not throw.
THEOREM EventsInOrder == AppSpec => []HeardInOrder
<1>1. AppInv => HeardInOrder
  BY DEF AppInv, Events
<1>2. QED BY <1>1, AlwaysAppInv, PTL

\* An operation is announced only when it is answered as done.
THEOREM AnnouncedAlwaysOk == AppSpec => []AnnouncedIsOk
<1>1. AppInv => AnnouncedIsOk
  BY DEF AppInv, Events
<1>2. QED BY <1>1, AlwaysAppInv, PTL

-----------------------------------------------------------------------------

Units == {"m", "min", "minutes", "h", "hour", "d", "days", "s", "second", "w"}

LEMMA SpelledUnits ==
  /\ DOMAIN Seconds = Units
  /\ Seconds["m"] = 60 /\ Seconds["h"] = 3600 /\ Seconds["d"] = 86400
  /\ \A u \in Units : Seconds[u] \in Nat \ {0}
  /\ LastLetter["m"] = "m" /\ LastLetter["h"] = "h" /\ LastLetter["d"] = "d"
  /\ Seconds["second"] = 1 /\ LastLetter["second"] = "d"
  /\ \A u \in {"min", "minutes", "hour", "days", "s", "w"} : LastLetter[u] \notin {"m", "h", "d"}
<1>1. DOMAIN Seconds = Units
  BY DEF Seconds, Units
<1>2. Seconds["m"] = 60 /\ Seconds["h"] = 3600 /\ Seconds["d"] = 86400
  BY DEF Seconds
<1>3. \A u \in Units : Seconds[u] \in Nat \ {0}
  BY DEF Seconds, Units
<1>4. LastLetter["m"] = "m" /\ LastLetter["h"] = "h" /\ LastLetter["d"] = "d"
  BY DEF LastLetter
<1>5. Seconds["second"] = 1 /\ LastLetter["second"] = "d"
  BY DEF Seconds, LastLetter
<1>6. \A u \in {"min", "minutes", "hour", "days", "s", "w"} : LastLetter[u] \notin {"m", "h", "d"}
  BY DEF LastLetter
<1>7. QED BY <1>1, <1>2, <1>3, <1>4, <1>5, <1>6

\* For every setting, of any size.
LEMMA AgreeWhenPlain == LifetimesAgree
<1> SUFFICES ASSUME NEW e \in Setting
             PROVE  LET inStep == ParseExpiryToMs(e) = TokenLifetime(e) IN
                    /\ Plain(e) => inStep
                    /\ inStep => Plain(e) \/ TokenLifetime(e) \in {0, Fallback}
  BY DEF LifetimesAgree
<1>1. PICK t \in Nat, u \in Units : e.tenths = t /\ e.unit = u
  BY ConfigAssumption, SpelledUnits
<1>2. PICK v \in Nat : v = t \div 10
  OBVIOUS
<1>3. 10 * v <= t /\ (10 * v = t <=> t % 10 = 0)
  BY <1>2
<1>4. CASE u \in {"min", "minutes", "hour", "days", "s", "w"}
  <2>1. ParseExpiryToMs(e) = Fallback
    BY <1>1, <1>4, SpelledUnits DEF ParseExpiryToMs
  <2>2. ~Plain(e)
    BY <1>1, <1>4 DEF Plain
  <2>3. QED BY <2>1, <2>2
<1>5. CASE u = "m"
  <2>1. ParseExpiryToMs(e) = (10 * v) * 60 /\ TokenLifetime(e) = t * 60
    BY <1>1, <1>2, <1>5, SpelledUnits DEF ParseExpiryToMs, TokenLifetime
  <2>2. Plain(e) <=> t % 10 = 0
    BY <1>1, <1>5 DEF Plain
  <2>3. QED BY <1>3, <2>1, <2>2
<1>6. CASE u = "h"
  <2>1. ParseExpiryToMs(e) = (10 * v) * 3600 /\ TokenLifetime(e) = t * 3600
    BY <1>1, <1>2, <1>6, SpelledUnits DEF ParseExpiryToMs, TokenLifetime
  <2>2. Plain(e) <=> t % 10 = 0
    BY <1>1, <1>6 DEF Plain
  <2>3. QED BY <1>3, <2>1, <2>2
<1>7. CASE u = "d"
  <2>1. ParseExpiryToMs(e) = (10 * v) * 86400 /\ TokenLifetime(e) = t * 86400
    BY <1>1, <1>2, <1>7, SpelledUnits DEF ParseExpiryToMs, TokenLifetime
  <2>2. Plain(e) <=> t % 10 = 0
    BY <1>1, <1>7 DEF Plain
  <2>3. QED BY <1>3, <2>1, <2>2
<1>8. CASE u = "second"
  <2>1. ParseExpiryToMs(e) = (10 * v) * 86400 /\ TokenLifetime(e) = t
    BY <1>1, <1>2, <1>8, SpelledUnits DEF ParseExpiryToMs, TokenLifetime
  <2>2. ~Plain(e)
    BY <1>1, <1>8 DEF Plain
  <2>3. (10 * v) * 86400 = t => t = 0
    <3>1. t < 10 * v + 10
      BY <1>2
    <3>2. QED BY <3>1
  <2>4. QED BY <2>1, <2>2, <2>3
<1>9. QED BY <1>4, <1>5, <1>6, <1>7, <1>8 DEF Units

\* Rows, keys, cookies and tokens keep step for every plain setting and no other.
THEOREM ExpiryAlwaysInStep == AppSpec => []ExpiryInStep
<1>1. ExpiryInStep
  BY AgreeWhenPlain DEF ExpiryInStep
<1>2. QED BY <1>1, PTL

=============================================================================
