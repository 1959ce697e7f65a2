------------------------------ MODULE SysLink -------------------------------
(***************************************************************************)
(* The web socket between the OS server (WebSocketClientModule, OsModule)  *)
(* and the integration server (SysWsModule), and the remote scripts that   *)
(* the shell of the integration server runs over it (runRemoteScript).     *)
(*                                                                         *)
(* The client opens one connection after the other; those it has opened    *)
(* are numbered.  Each end learns of a cut connection in its own time, and *)
(* whatever was under way on it may or may not still arrive.  The same     *)
(* client and the same acceptor code join the integration server to the    *)
(* public server.                                                          *)
(***************************************************************************)
EXTENDS Naturals, Sequences, FiniteSets

CONSTANTS Script,   \* names of the scripts of the OS server
          Call,     \* calls of runRemoteScript, one of a kind
          Faults,   \* how many disturbances there may be
          None

ASSUME SysLinkAssumption == Faults \in Nat /\ None \notin Call \cup Script

Conn   == 1 .. Faults + 1       \* each new connection costs a disturbance
NoConn == 0

VARIABLES
  client,      \* readyState of the client's socket for each connection
  server,      \* the server's socket for each connection
  cut,         \* connections that carry nothing new any more
  down, up,    \* requests and results under way on each connection
  wsc,         \* WebSocketClientModule.ws, NoConn before the first
  loop,        \* where autoConnect stands
  terminated,  \* _terminate: SIGTERM arrived
  execs,       \* scripts running on the OS server: <<call, connection to answer>>
  sysClient,   \* SysWsModule.sysClient, NoConn before the first
  call,        \* the calls
  handler,     \* the call whose responseHandler is subscribed
  excused,     \* history: calls disturbed in one of the ways named below
  faults       \* disturbances left

osVars   == <<client, wsc, loop, execs>>
intVars  == <<server, sysClient, call, handler>>
vars     == <<osVars, intVars, cut, down, up, terminated, excused, faults>>

Fault == faults > 0 /\ faults' = faults - 1

Waiting == {k \in Call : call[k].is = "waiting"}
Sent(queue, c, k) == IF c \in cut THEN queue ELSE [queue EXCEPT ![c] = Append(@, k)]

\* Both ends agree on the connection, and it works.
Linked == /\ wsc # NoConn /\ wsc = sysClient /\ wsc \notin cut
          /\ client[wsc] = "open" /\ server[wsc] = "on"

\* A result for call k may still come.
InFlight(k) == \/ \E c \in Conn : \/ /\ server[c] = "on"
                                     /\ \E i \in 1 .. Len(up[c]) : up[c][i] = k
                                  \/ /\ client[c] \in {"opening", "open", "closing"}
                                     /\ \E i \in 1 .. Len(down[c]) : down[c][i] = k
               \/ \E e \in execs : e[1] = k

Init == /\ client = [c \in Conn |-> "none"]
        /\ server = [c \in Conn |-> "none"]
        /\ cut = {}
        /\ down = [c \in Conn |-> <<>>]
        /\ up = [c \in Conn |-> <<>>]
        /\ wsc = NoConn
        /\ loop = "check"
        /\ terminated = FALSE
        /\ execs = {}
        /\ sysClient = NoConn
        /\ call = [k \in Call |-> [is |-> "new", script |-> None, via |-> NoConn, got |-> None]]
        /\ handler = None
        /\ excused = {}
        /\ faults = Faults

-----------------------------------------------------------------------------
(***************************************************************************)
(* The client: autoConnect and openWs                                      *)
(***************************************************************************)
NextConn == Cardinality({c \in Conn : client[c] # "none"}) + 1

\* Mutant of NeedsSocket: any socket that is not open is replaced.
NeedsSocket_NotOpen == \A c \in {wsc} \ {NoConn} : client[c] # "open"

\* this.ws is undefined or CLOSED.
NeedsSocket == \A c \in {wsc} \ {NoConn} : client[c] = "closed"

LoopChecks ==
  /\ loop = "check"
  /\ IF terminated
     THEN loop' = "done" /\ UNCHANGED client
     ELSE /\ NeedsSocket
          /\ client' = [client EXCEPT ![NextConn] = "opening"]
          /\ loop' = "opening"
  /\ UNCHANGED <<wsc, execs, intVars, cut, down, up, terminated, excused, faults>>

GivesUp == terminated

\* The socket opens.  Requests that came along with the handshake response
\* are emitted before autoConnect, which awaits, attaches its listener.
Opens(c) ==
  /\ client[c] = "opening"
  /\ server[c] \in {"on", "closed"}
  /\ IF GivesUp
     THEN /\ client' = [client EXCEPT ![c] = "closed"]
          /\ cut' = cut \cup {c}
          /\ loop' = "done"
          /\ UNCHANGED <<wsc, down>>
     ELSE /\ client' = [client EXCEPT ![c] = "open"]
          /\ \E n \in 0 .. Len(down[c]) :
               down' = [down EXCEPT ![c] = SubSeq(@, n + 1, Len(@))]
          /\ wsc' = c
          /\ loop' = "check"
          /\ UNCHANGED cut
  /\ UNCHANGED <<execs, intVars, up, terminated, excused, faults>>

AfterFailure == "check"

\* It does not open: refused, or lost on the way.
OpenFails(c) ==
  /\ client[c] = "opening"
  /\ (c \in cut /\ UNCHANGED faults) \/ Fault
  /\ client' = [client EXCEPT ![c] = "closed"]
  /\ cut' = cut \cup {c}
  /\ loop' = AfterFailure
  /\ UNCHANGED <<wsc, execs, intVars, down, up, terminated, excused>>

\* The client's end of a cut connection: CLOSING, and CLOSED in a later event.
ClientSees(c) ==
  /\ c \in cut
  /\ \/ client[c] = "open" /\ client' = [client EXCEPT ![c] = "closing"]
     \/ client[c] = "closing" /\ client' = [client EXCEPT ![c] = "closed"]
  /\ UNCHANGED <<wsc, loop, execs, intVars, cut, down, up, terminated, excused, faults>>

\* The SIGTERM listener: the current socket is terminated.
Sigterm ==
  /\ ~terminated
  /\ terminated' = TRUE
  /\ IF wsc # NoConn
     THEN client' = [client EXCEPT ![wsc] = "closed"] /\ cut' = cut \cup {wsc}
     ELSE UNCHANGED <<client, cut>>
  /\ excused' = excused \cup Waiting
  /\ UNCHANGED <<wsc, loop, execs, intVars, down, up, faults>>

-----------------------------------------------------------------------------
(***************************************************************************)
(* The server: the "connection" and "error" listeners of SysWsModule       *)
(***************************************************************************)
\* Mutant of Accepted: the first client that came remains the system's.
Accepted_First(c) == IF sysClient = NoConn THEN c ELSE sysClient

Accepted(c) == c

\* Connections are accepted in the order in which they were opened, some when
\* their client has already given them up.
ServerAccepts(c) ==
  /\ client[c] # "none"
  /\ \A d \in Conn : d >= c => server[d] = "none"
  /\ server' = [server EXCEPT ![c] = "on"]
  /\ sysClient' = Accepted(c)
  /\ UNCHANGED <<osVars, call, handler, cut, down, up, terminated, excused, faults>>

\* The server's end of a cut connection closes, or emits an error: that rejects
\* the calls made over it.  sysClient stays.
ServerSees(c) ==
  /\ c \in cut
  /\ server[c] = "on"
  /\ server' = [server EXCEPT ![c] = "closed"]
  /\ \/ UNCHANGED <<call, handler>>
     \/ LET rejected == {k \in Waiting : call[k].via = c}
        IN  /\ call' = [k \in Call |-> IF k \in rejected THEN [call[k] EXCEPT !.is = "rejected"]
                                                         ELSE call[k]]
            /\ handler' = IF handler \in rejected THEN None ELSE handler
  /\ UNCHANGED <<osVars, sysClient, cut, down, up, terminated, excused, faults>>

-----------------------------------------------------------------------------
(***************************************************************************)
(* Remote scripts                                                          *)
(***************************************************************************)
\* Mutant of Subscribed: a handler of that id is kept.
Subscribed_Keep(k) == IF handler = None THEN k ELSE handler

\* Every responseHandler has the same id: it takes the place of the last one.
Subscribed(k) == k

\* runRemoteScript.  It may go unanswered if the link is not up, and so may the
\* call whose handler it displaces.
StartCall(k, s) ==
  /\ call[k].is = "new"
  /\ IF sysClient = NoConn
     THEN /\ call' = [call EXCEPT ![k].is = "rejected"]
          /\ UNCHANGED <<down, handler, excused>>
     ELSE /\ call' = [call EXCEPT ![k] = [is |-> "waiting", script |-> s, via |-> sysClient,
                                          got |-> None]]
          /\ down' = IF server[sysClient] = "on" THEN Sent(down, sysClient, k) ELSE down
          /\ handler' = Subscribed(k)
          /\ excused' = excused \cup ({handler} \ {None}) \cup (IF Linked THEN {} ELSE {k})
  /\ UNCHANGED <<osVars, server, sysClient, cut, up, terminated, faults>>

\* _wsMsgHandler starts the script, and will answer on the socket current now.
OsReceives(c) ==
  /\ client[c] \in {"open", "closing"}
  /\ down[c] # <<>>
  /\ down' = [down EXCEPT ![c] = Tail(@)]
  /\ execs' = execs \cup {<<Head(down[c]), wsc>>}
  /\ UNCHANGED <<client, wsc, loop, intVars, cut, up, terminated, excused, faults>>

\* The script ends, well or not: either way a result is sent.
ExecEnds(e) ==
  /\ e \in execs
  /\ execs' = execs \ {e}
  /\ up' = IF client[e[2]] = "open" THEN Sent(up, e[2], e[1]) ELSE up
  /\ UNCHANGED <<client, wsc, loop, intVars, cut, down, terminated, excused, faults>>

\* Mutant of Matches: the scriptFilename of the result not compared.
Matches_Any(k) == {handler} \cap Waiting

\* The calls that the result of call k's script resolves.
Matches(k) == {h \in {handler} \cap Waiting : call[h].script = call[k].script}

ServerReceives(c) ==
  /\ server[c] = "on"
  /\ up[c] # <<>>
  /\ up' = [up EXCEPT ![c] = Tail(@)]
  /\ LET resolved == Matches(Head(up[c]))
     IN  /\ call' = [k \in Call |-> IF k \in resolved
                                    THEN [call[k] EXCEPT !.is = "resolved", !.got = Head(up[c])]
                                    ELSE call[k]]
         /\ handler' = IF handler \in resolved THEN None ELSE handler
  /\ UNCHANGED <<osVars, server, sysClient, cut, down, terminated, excused, faults>>

\* Mutant of Expires: no timeout.
Expires_Never(k) == FALSE

Expires(k) == k \in Waiting

\* Five seconds have passed.  While the script has not answered yet this is a
\* disturbance: most scripts take less.
Timeout(k) ==
  /\ Expires(k)
  /\ call' = [call EXCEPT ![k].is = "timedout"]
  /\ handler' = IF handler = k THEN None ELSE handler
  /\ IF InFlight(k) THEN Fault /\ excused' = excused \cup {k}
                    ELSE UNCHANGED <<faults, excused>>
  /\ UNCHANGED <<osVars, server, sysClient, cut, down, up, terminated>>

-----------------------------------------------------------------------------
(***************************************************************************)
(* Disturbances                                                            *)
(***************************************************************************)
\* A connection breaks; neither end knows yet.
Breaks(c) ==
  /\ client[c] \in {"opening", "open"} /\ c \notin cut
  /\ Fault
  /\ cut' = cut \cup {c}
  /\ excused' = excused \cup Waiting
  /\ UNCHANGED <<osVars, intVars, down, up, terminated>>

OsRestarts ==
  /\ ~terminated
  /\ Fault
  /\ client' = [c \in Conn |-> IF client[c] = "none" THEN "none" ELSE "closed"]
  /\ wsc' = NoConn
  /\ loop' = "check"
  /\ execs' = {}
  /\ cut' = cut \cup {c \in Conn : client[c] # "none"}
  /\ excused' = excused \cup Waiting
  /\ UNCHANGED <<intVars, down, up, terminated>>

IntServerRestarts ==
  /\ Fault
  /\ server' = [c \in Conn |-> CASE server[c] = "on" -> "closed"
                                [] server[c] = "none" /\ client[c] # "none" -> "dropped"
                                [] OTHER -> server[c]]
  /\ sysClient' = NoConn
  /\ call' = [k \in Call |-> IF k \in Waiting THEN [call[k] EXCEPT !.is = "lost"] ELSE call[k]]
  /\ handler' = None
  /\ cut' = cut \cup {c \in Conn : client[c] # "none"}
  /\ UNCHANGED <<osVars, down, up, terminated, excused>>

Next == \/ LoopChecks \/ Sigterm \/ OsRestarts \/ IntServerRestarts
        \/ \E c \in Conn : \/ Opens(c) \/ OpenFails(c) \/ ClientSees(c)
                           \/ ServerAccepts(c) \/ ServerSees(c)
                           \/ OsReceives(c) \/ ServerReceives(c) \/ Breaks(c)
        \/ \E k \in Call, s \in Script : StartCall(k, s)
        \/ \E e \in execs : ExecEnds(e)
        \/ \E k \in Call : Timeout(k)

Spec == Init /\ [][Next]_vars

(***************************************************************************)
(* Fairness.  The loop polls; an attempt opens or fails; the client, which *)
(* writes to its socket on every turn, learns that it is cut (the server,  *)
(* which does not, may never); scripts end, and timers fire.               *)
(***************************************************************************)
Fairness ==
  /\ WF_vars(LoopChecks)
  /\ \A c \in Conn : /\ WF_vars(ServerAccepts(c)) /\ WF_vars(Opens(c) \/ OpenFails(c))
                     /\ WF_vars(ClientSees(c))
                     /\ WF_vars(OsReceives(c)) /\ WF_vars(ServerReceives(c))
  /\ WF_vars(\E e \in execs : ExecEnds(e))
  /\ WF_vars(\E k \in Call : Timeout(k))

FairSpec == Spec /\ Fairness

-----------------------------------------------------------------------------
(***************************************************************************)
(* Properties                                                              *)
(***************************************************************************)
Queues == [Conn -> Seq(Call)]

Types ==
  /\ client \in [Conn -> {"none", "opening", "open", "closing", "closed"}]
  /\ server \in [Conn -> {"none", "on", "closed", "dropped"}]
  /\ cut \subseteq Conn
  /\ down \in Queues /\ up \in Queues
  /\ wsc \in Conn \cup {NoConn} /\ sysClient \in Conn \cup {NoConn}
  /\ loop \in {"check", "opening", "done"}
  /\ terminated \in BOOLEAN
  /\ execs \subseteq Call \X Conn
  /\ call \in [Call -> [is : {"new", "waiting", "resolved", "rejected", "timedout", "lost"},
                        script : Script \cup {None}, via : Conn \cup {NoConn},
                        got : Call \cup {None}]]
  /\ handler \in Call \cup {None}
  /\ excused \subseteq Call
  /\ faults \in 0..Faults

\* Types; and autoConnect waits for a socket exactly while one is opening.
TypeOK ==
  /\ Types
  /\ loop = "opening" <=> \E c \in Conn : client[c] = "opening"

\* The client never holds two live sockets: it waits for CLOSED, and for openWs.
OneSocket ==
  /\ TypeOK
  /\ \A c, d \in Conn : /\ client[c] \notin {"none", "closed"}
                         /\ client[d] \notin {"none", "closed"} => c = d

\* A call resolves with the output of its own script, and no output resolves two.
ResultsAreOwn ==
  \A k \in Call : call[k].is = "resolved" =>
    /\ call[call[k].got].script = call[k].script
    /\ \A h \in Call \ {k} : call[h].is = "resolved" => call[h].got # call[k].got

\* A call times out only if the link was not up or went down meanwhile, if its
\* script took too long, or if another call displaced its handler.
NoSpuriousTimeout == \A k \in Call : call[k].is = "timedout" => k \in excused

\* No call waits for ever.
CallsSettle == \A k \in Call : k \in Waiting ~> k \notin Waiting

\* Once the disturbances are over both ends hold the same, working connection,
\* although the server never learns that an old one is gone.
LinkRecovers == <>[](terminated \/ Linked)
=============================================================================
