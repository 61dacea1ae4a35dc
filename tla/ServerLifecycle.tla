--------------------------- MODULE ServerLifecycle ---------------------------
(***************************************************************************)
(* startServer and gracefulShutdown: the process reads its environment,    *)
(* connects its stores, initializes the registered plugins one by one,     *)
(* listens, serves requests, and on a signal closes the listener,          *)
(* disconnects and exits.                                                  *)
(***************************************************************************)
EXTENDS Naturals, Sequences

CONSTANTS
  Request,      \* connections that may come
  Signal,       \* SHUTDOWN_SIGNALS, each received at most once
  Plugin,       \* extensions
  Registered,   \* the extensions in the order they registered themselves
  MayFail       \* plugins, the database and the port may fail

ASSUME LifecycleAssumption ==
  /\ Registered \in Seq(Plugin)
  /\ \A p \in Plugin : \E i \in DOMAIN Registered : Registered[i] = p
  /\ MayFail \in BOOLEAN

VARIABLES
  boot,       \* the await startServer stands at
  todo,       \* extensions initializeAll has still to initialize
  plugin,     \* "registered", "listening" for events, or "broken"
  database,   \* the Prisma client: "closed" or "open"
  accepting,  \* the HTTP server accepts connections
  conn,       \* where each request stands
  handler,    \* where gracefulShutdown(signal) stands
  exit        \* "running", or how the process ended

server == <<boot, todo, plugin, database, accepting, conn, handler, exit>>

Running == exit = "running"
Booting(pc) == Running /\ boot = pc
Up == Booting("up")

-----------------------------------------------------------------------------
(* startServer *)

\* Importing the configuration validates the environment.
LoadConfig ==
  /\ Booting("config")
  /\ boot' = "redis"
  /\ UNCHANGED <<todo, plugin, database, accepting, conn, handler, exit>>

\* The adaptor's connect only logs, so the cache stays as configured.
ConnectRedis ==
  /\ Booting("redis")
  /\ boot' = "database"
  /\ UNCHANGED <<todo, plugin, database, accepting, conn, handler, exit>>

ConnectDatabase ==
  /\ Booting("database")
  /\ database' = "open" /\ boot' = "plugins"
  /\ UNCHANGED <<todo, plugin, accepting, conn, handler, exit>>

\* init registers the extension's listeners, or throws: logged, and the next
\* extension follows.
InitializePlugin ==
  /\ Booting("plugins") /\ todo # <<>>
  /\ \E outcome \in {"listening"} \cup (IF MayFail THEN {"broken"} ELSE {}) :
       plugin' = [plugin EXCEPT ![Head(todo)] = outcome]
  /\ todo' = Tail(todo)
  /\ UNCHANGED <<boot, database, accepting, conn, handler, exit>>

ListenEarly ==
  /\ Booting("plugins")
  /\ accepting' = TRUE
  /\ boot' = IF todo = <<>> THEN "up" ELSE boot
  /\ UNCHANGED <<todo, plugin, database, conn, handler, exit>>

\* The listener opens and the signal handlers are installed.
Listen ==
  /\ Booting("plugins") /\ todo = <<>>
  /\ accepting' = TRUE /\ boot' = "up"
  /\ UNCHANGED <<todo, plugin, database, conn, handler, exit>>

\* The port is taken: express hands the error to the callback of listen, which
\* logs that the server listens.  The signal handlers are installed all the same.
ListenFails ==
  /\ MayFail
  /\ Booting("plugins") /\ todo = <<>>
  /\ boot' = "up"
  /\ UNCHANGED <<todo, plugin, database, accepting, conn, handler, exit>>

\* The environment is invalid, $connect rejects, or PORT is no port number and
\* listen throws: exit code 1.
BootFails ==
  /\ MayFail
  /\ Booting("config") \/ Booting("database") \/ (Booting("plugins") /\ todo = <<>>)
  /\ exit' = "failed"
  /\ UNCHANGED <<boot, todo, plugin, database, accepting, conn, handler>>

-----------------------------------------------------------------------------
(* Requests. *)

Accept(r) ==
  /\ Up /\ accepting /\ conn[r] = "none"
  /\ conn' = [conn EXCEPT ![r] = "started"]
  /\ UNCHANGED <<boot, todo, plugin, database, accepting, handler, exit>>

\* A query reopens a client that was disconnected, or fails on it.
Query(r) ==
  /\ Running /\ conn[r] = "started"
  /\ database' \in {database, "open"}
  /\ UNCHANGED <<boot, todo, plugin, accepting, conn, handler, exit>>

\* Some layer answers.
Answer(r) ==
  /\ Running /\ conn[r] = "started"
  /\ conn' = [conn EXCEPT ![r] = "answered"]
  /\ UNCHANGED <<boot, todo, plugin, database, accepting, handler, exit>>

-----------------------------------------------------------------------------
(* gracefulShutdown, one instance per signal received. *)

ReceiveStillAccepting(s) ==
  /\ Up /\ handler[s] = "none"
  /\ handler' = [handler EXCEPT ![s] = "disconnect"]
  /\ UNCHANGED <<boot, todo, plugin, database, accepting, conn, exit>>

\* server.close is called, not awaited.
Receive(s) ==
  /\ Up /\ handler[s] = "none"
  /\ accepting' = FALSE
  /\ handler' = [handler EXCEPT ![s] = "disconnect"]
  /\ UNCHANGED <<boot, todo, plugin, database, conn, exit>>

\* Before the handlers are installed a signal ends the process.
Kill ==
  /\ Running /\ boot # "up"
  /\ exit' = "killed"
  /\ UNCHANGED <<boot, todo, plugin, database, accepting, conn, handler>>

Disconnect(s) ==
  /\ Running /\ handler[s] = "disconnect"
  /\ database' = "closed"
  /\ handler' = [handler EXCEPT ![s] = "quit"]
  /\ UNCHANGED <<boot, todo, plugin, accepting, conn, exit>>

DisconnectFailsSilently(s) ==
  /\ MayFail
  /\ Running /\ handler[s] = "disconnect"
  /\ handler' = [handler EXCEPT ![s] = "failed"]
  /\ UNCHANGED <<boot, todo, plugin, database, accepting, conn, exit>>

\* $disconnect rejects: exit code 1.
DisconnectFails(s) ==
  /\ MayFail
  /\ Running /\ handler[s] = "disconnect"
  /\ handler' = [handler EXCEPT ![s] = "failed"]
  /\ exit' = "failed"
  /\ UNCHANGED <<boot, todo, plugin, database, accepting, conn>>

\* The adaptor's quit only logs; exit code 0.
Quit(s) ==
  /\ Running /\ handler[s] = "quit"
  /\ handler' = [handler EXCEPT ![s] = "done"]
  /\ exit' = "clean"
  /\ UNCHANGED <<boot, todo, plugin, database, accepting, conn>>

-----------------------------------------------------------------------------

Init ==
  /\ boot = "config" /\ todo = Registered
  /\ plugin = [p \in Plugin |-> "registered"]
  /\ database = "closed" /\ accepting = FALSE
  /\ conn = [r \in Request |-> "none"]
  /\ handler = [s \in Signal |-> "none"]
  /\ exit = "running"

Boot == LoadConfig \/ ConnectRedis \/ ConnectDatabase \/ InitializePlugin
        \/ Listen \/ ListenFails \/ BootFails
Shutdown(s) == Disconnect(s) \/ DisconnectFails(s) \/ Quit(s)

Next ==
  \/ Boot \/ Kill
  \/ \E r \in Request : Accept(r) \/ Query(r) \/ Answer(r)
  \/ \E s \in Signal : Receive(s) \/ Shutdown(s)

Spec == Init /\ [][Next]_server

\* $disconnect settles and the event loop resumes the handler.
FairSpec == Spec /\ \A s \in Signal : WF_server(Shutdown(s))

-----------------------------------------------------------------------------

\* No request is taken before every extension had its turn at listening, so the
\* event of none is missed by an extension whose init did not throw.
EventsHeard ==
  (accepting \/ \E r \in Request : conn[r] # "none")
    => \A p \in Plugin : plugin[p] # "registered"

\* Connections are accepted only while the database client is open, with one
\* shutdown or two under way.
AcceptsWhileOpen == accepting => database = "open"

\* A signal received by the running server ends the process, whether or not
\* the database disconnects and whatever requests are in flight.
SignalEnds == \A s \in Signal : handler[s] # "none" ~> ~Running

\* A clean exit leaves no request unanswered (docs/architecture.md, Graceful
\* Shutdown).
DrainsBeforeExit ==
  exit = "clean" => \A r \in Request : conn[r] \in {"none", "answered"}

=============================================================================
