----------------------------- MODULE Lifecycle -----------------------------
(***************************************************************************)
(* The life of one of the node programs: index.ts builds its modules, App  *)
(* initialises them in order, the HTTP server answers, and SIGTERM makes   *)
(* the modules that listen for it let go of what keeps the program alive.  *)
(* A node program ends when nothing is left that could call it back.       *)
(***************************************************************************)
EXTENDS Naturals, Sequences, FiniteSets, SequencesExt

CONSTANTS Programs,   \* the programs looked at
          Conn        \* connections of the HTTP server, from clients of all kinds

\* The modules, in the order of each index.ts. The keys of the HTTP servers are
\* "http" and "httpServer".
IntegrationModules == <<"http", "httpClient", "wss", "devnotif", "device", "sysWs",
                        "wsc", "psm", "homepage", "cmd">>
OsModules      == <<"http", "wsc", "os", "cmd">>
PublicModules  == <<"http", "wss", "intSysWs", "homepage", "cmd">>
VirtualModules == <<"http", "devNotifClient", "devCtrl">>

ModulesOf ==
  [integration |-> IntegrationModules, os |-> OsModules,
   public |-> PublicModules, virtual |-> VirtualModules]

\* main of the OS server listens for "uncaughtException", which keeps node from
\* ending on an exception or rejection that nobody handles.
Survives(p) == p = "os"

ASSUME LifecycleAssumption == Programs \subseteq DOMAIN ModulesOf /\ IsFiniteSet(Conn)

\* What is asked for. "unknown" is a path that is nobody's, such as an upgrade
\* without a web socket server. Four kinds do not agree with the command explorer:
\* a URL that does not parse, such as "//", arguments that do not, and a command to
\* a device that refuses it, or whose answer cannot be serialized.
Unreadable == {"misaddressed", "unparsable"}
Unfit == {"refused", "unwritable"}
Path == {"ping", "page", "notification", "control", "file", "command", "unknown"}
          \cup Unreadable \cup Unfit

VARIABLES
  prog,     \* the program
  run,      \* "boot": before its server listens, then "up", and "down" for good
  inited,   \* the modules that are initialised
  hears,    \* those that listen for SIGTERM
  open,     \* the HTTP server accepts connections
  told,     \* SIGTERM was handled
  conn,     \* each connection: none, idle, silent, socket, or the path under way
  link,     \* the socket of the web socket client: none, opening, open, closed
  loop      \* the timers that set themselves again: modules

life == <<prog, run, inited, hears, open, told, conn, link, loop>>

Has(module) == module \in inited

-----------------------------------------------------------------------------
(***************************************************************************)
(* Boot                                                                    *)
(***************************************************************************)
LifeInit ==
  /\ prog \in Programs /\ run = "boot"
  /\ inited = {} /\ hears = {} /\ open = FALSE /\ told = FALSE
  /\ conn = [c \in Conn |-> "none"] /\ link = "none" /\ loop = {}

\* The modules whose init calls process.on("SIGTERM").
Hearing == {"http", "wss", "wsc"}

\* Those whose init starts a loop: autoConnect, the pulses, the notifications.
Looping == {"wsc", "os", "devNotifClient"}

\* The HTTP server is the first module. When it listens, init resolves and the
\* loop of initModules runs to its end before anything else does.
Boot ==
  LET modules == Range(ModulesOf[prog])
  IN  /\ run = "boot"
      /\ run' = "up" /\ open' = TRUE
      /\ inited' = modules /\ hears' = modules \cap Hearing
      /\ loop' = modules \cap (Looping \ {"wsc"})
      /\ link' = IF "wsc" \in modules THEN "opening" ELSE "none"
      /\ UNCHANGED <<prog, told, conn>>

\* What dies takes its connections with it.
Dead ==
  /\ run' = "down" /\ open' = FALSE /\ loop' = {} /\ link' = "none"
  /\ conn' = [c \in Conn |-> "none"]
  /\ UNCHANGED <<prog, inited, hears, told>>

\* The file of the pid cannot be written, or the port is taken: listen has no
\* handler for errors, and even where the exception is survived nothing is left
\* to wait for.
BootFails == run = "boot" /\ Dead

-----------------------------------------------------------------------------
(***************************************************************************)
(* Requests                                                                *)
(***************************************************************************)
Accept(c) ==
  /\ run = "up" /\ open /\ conn[c] = "none"
  /\ conn' = [conn EXCEPT ![c] = "idle"]
  /\ UNCHANGED <<prog, run, inited, hears, open, told, link, loop>>

Ask(c, path) ==
  /\ run = "up" /\ conn[c] = "idle"
  /\ conn' = [conn EXCEPT ![c] = path]
  /\ UNCHANGED <<prog, run, inited, hears, open, told, link, loop>>

\* The web socket server takes the connection, unless closeAll has closed it.
Upgrade(c) ==
  /\ run = "up" /\ conn[c] = "idle" /\ Has("wss") /\ ~told
  /\ conn' = [conn EXCEPT ![c] = "socket"]
  /\ UNCHANGED <<prog, run, inited, hears, open, told, link, loop>>

\* The configurator that index.ts gives to the HTTP server.
Configured(path) == path = "ping" \/ (path = "page" /\ prog \in {"os", "virtual"})

\* The controllers that end() wraps: the home page, which reads its files, and the
\* notifications of devices, which read the body of the request.
PageRoute(path) == path = "page" /\ Has("homepage")
NotificationRoute(path) == path = "notification" /\ Has("devnotif")

\* The pins of the virtual device.
ControlRoute(path) == path = "control" /\ Has("devCtrl")

\* The files of the command explorer, found or not.
FileRoute(path) == path = "file" /\ Has("cmd")

\* The commands, failing or not. Where there are no devices one to a device is
\* none at all, whose result is empty.
CommandRoute(path) ==
  Has("cmd") /\ (path = "command" \/ (path \in Unfit /\ ~Has("device")))

\* Express answers with status 404 what is left, unless the command explorer is
\* there: cmdCtrl returns if the path is not its own, and cmdExpressMiddleware
\* has no next to call.
Answered(path) ==
  \/ Configured(path) \/ PageRoute(path) \/ NotificationRoute(path)
  \/ ControlRoute(path) \/ FileRoute(path) \/ CommandRoute(path)
  \/ ~Has("cmd")

\* Mutant of Caught: end() does not catch.
Caught_Not(path) == FALSE

\* end() catches what its controller throws, a file that is missing or a body that
\* is no JSON, and answers with status 500.
Caught(path) == PageRoute(path) \/ NotificationRoute(path)

\* What nothing catches: the URL and the arguments are parsed, and the result is
\* serialized, outside of any try, and when a device refuses it is request's own
\* promise that rejects, while the one it has returned stays as it is.
Breaking(path) ==
  Has("cmd") /\ (path \in Unreadable \/ (path \in Unfit /\ Has("device")))

Throwing(path) == PageRoute(path) \/ NotificationRoute(path) \/ Breaking(path)

Answer(c) ==
  /\ run = "up" /\ conn[c] \in Path /\ Answered(conn[c])
  /\ conn' = [conn EXCEPT ![c] = "idle"]
  /\ UNCHANGED <<prog, run, inited, hears, open, told, link, loop>>

Ignore(c) ==
  /\ run = "up" /\ conn[c] \in Path /\ ~Answered(conn[c]) /\ ~Breaking(conn[c])
  /\ conn' = [conn EXCEPT ![c] = "silent"]
  /\ UNCHANGED <<prog, run, inited, hears, open, told, link, loop>>

\* A rejection that nobody handles ends node, unless the program survives that or
\* a listener that a request of HttpClient has left behind takes it. Then the
\* request stays unanswered.
Throws(c) ==
  /\ run = "up" /\ conn[c] \in Path /\ Throwing(conn[c])
  /\ \/ /\ Caught(conn[c]) \/ Survives(prog) \/ Has("httpClient")
        /\ conn' = [conn EXCEPT ![c] = IF Caught(@) THEN "idle" ELSE "silent"]
        /\ UNCHANGED <<prog, run, inited, hears, open, told, link, loop>>
     \/ ~Caught(conn[c]) /\ ~Survives(prog) /\ Dead

\* The client leaves, or node closes a connection that is idle for too long.
Leave(c) ==
  /\ run = "up" /\ conn[c] \in {"idle", "silent", "socket"}
  /\ conn' = [conn EXCEPT ![c] = "none"]
  /\ UNCHANGED <<prog, run, inited, hears, open, told, link, loop>>

-----------------------------------------------------------------------------
(***************************************************************************)
(* autoConnect of the web socket client                                    *)
(***************************************************************************)
\* Mutant of Connected: the socket is kept whatever happened while it opened.
Connected_Late(up) == IF up THEN "open" ELSE "closed"

\* What becomes of the socket once openWs resolves or rejects.
Connected(up) == IF up /\ ~told THEN "open" ELSE "closed"

\* "wsc" is in loop while autoConnect sleeps; when openWs resolves after SIGTERM
\* it returns.
Connects(up) ==
  /\ run = "up" /\ link = "opening"
  /\ link' = Connected(up)
  /\ loop' = IF up /\ told THEN loop ELSE loop \cup {"wsc"}
  /\ UNCHANGED <<prog, run, inited, hears, open, told, conn>>

\* autoConnect wakes: it returns after SIGTERM, opens a socket if it has none,
\* and sleeps again.
Wakes ==
  /\ run = "up" /\ "wsc" \in loop
  /\ link' = IF ~told /\ link = "closed" THEN "opening" ELSE link
  /\ loop' = IF told \/ link = "closed" THEN loop \ {"wsc"} ELSE loop
  /\ UNCHANGED <<prog, run, inited, hears, open, told, conn>>

PeerCloses ==
  /\ run = "up" /\ link = "open" /\ link' = "closed"
  /\ UNCHANGED <<prog, run, inited, hears, open, told, conn, loop>>

-----------------------------------------------------------------------------
(***************************************************************************)
(* The end                                                                 *)
(***************************************************************************)
\* Mutant of ClosedAll: the web socket server closes and leaves its clients.
ClosedAll_Left == conn

\* closeAll terminates the clients of the web socket server.
ClosedAll ==
  [c \in Conn |-> IF conn[c] = "socket" /\ "wss" \in hears THEN "none" ELSE conn[c]]

\* If nobody listens node ends at once.
Sigterm ==
  /\ run # "down"
  /\ IF hears # {}
     THEN /\ told' = TRUE /\ open' = FALSE
          /\ conn' = ClosedAll
          /\ link' = IF link = "open" THEN "closed" ELSE link
          /\ UNCHANGED <<prog, run, inited, hears, loop>>
     ELSE Dead

\* Nothing is left.
Exit ==
  /\ run = "up" /\ ~open /\ loop = {}
  /\ link \in {"none", "closed"} /\ \A c \in Conn : conn[c] = "none"
  /\ Dead

LifeNext ==
  \/ Boot \/ BootFails
  \/ \E c \in Conn : \/ Accept(c) \/ Upgrade(c) \/ \E path \in Path : Ask(c, path)
                     \/ Answer(c) \/ Ignore(c) \/ Throws(c) \/ Leave(c)
  \/ \E up \in BOOLEAN : Connects(up)
  \/ Wakes \/ PeerCloses
  \/ Sigterm \/ Exit

\* Timers fire, requests are handled, and what is connected to is a program like
\* these or nobody, so that an attempt comes to an end. Whoever is idle or waits
\* in vain leaves some day, as node's keepAliveTimeout and the timeouts of the
\* clients have it: not so a web socket.
Leaves(c) == conn[c] # "socket" /\ Leave(c)

Fairness ==
  /\ WF_life(Boot \/ BootFails) /\ WF_life(Wakes) /\ WF_life(Exit)
  /\ WF_life(\E up \in BOOLEAN : Connects(up))
  /\ \A c \in Conn : WF_life(Answer(c) \/ Ignore(c) \/ Throws(c)) /\ SF_life(Leaves(c))

LifeSpec == LifeInit /\ [][LifeNext]_life /\ Fairness

-----------------------------------------------------------------------------
(***************************************************************************)
(* Properties                                                              *)
(***************************************************************************)
LifeTypeOK ==
  /\ prog \in Programs /\ run \in {"boot", "up", "down"}
  /\ inited \subseteq Range(ModulesOf[prog]) /\ hears \subseteq inited
  /\ open \in BOOLEAN /\ told \in BOOLEAN
  /\ conn \in [Conn -> {"none", "idle", "silent", "socket"} \cup Path]
  /\ link \in {"none", "opening", "open", "closed"} /\ loop \subseteq Looping

\* After SIGTERM the program has no web socket, neither as a client nor as a
\* server, whatever was on its way then (ws-client.module.ts:35, closeAll).
StaysClosed ==
  /\ LifeTypeOK
  /\ told => link # "open" /\ \A c \in Conn : conn[c] # "socket"

\* Neither SIGTERM nor a controller that throws takes a request that is being
\* handled, its own or another one's: they are answered (http-server.module.ts:35
\* and 67). What ends the program with all of them is another request, to the
\* command explorer: one that is unreadable (cmd.ui.ts:19, cmd.ctrl.ts:16), or one
\* whose device refuses it (device.common.cmd.tree.ts:30) or answers what cannot be
\* serialized (cmd.ctrl.ts:32); and never that of the OS server.
FinishesRequests ==
  [][\A c \in Conn : conn[c] \in Path /\ Answered(conn[c]) /\ conn'[c] \notin {conn[c], "idle"} =>
       ~Survives(prog) /\ \E d \in Conn \ {c} : conn[d] \in Path /\ Breaking(conn[d])]_life

\* A program without an endless loop ends when it is told to: nothing else keeps
\* it, neither the web sockets nor the client that reconnects.
Stops == told /\ loop \subseteq {"wsc"} ~> run = "down"
=============================================================================
