----------------------------- MODULE PulsePath -----------------------------
(***************************************************************************)
(* The way of a pulse from the loop of an OS server through the pulse      *)
(* handler of its integration server to a page, and the page's table of    *)
(* live servers (ws-service.ts, Servers.tsx), in time.                     *)
(*                                                                         *)
(* Time advances in ticks of half a second, of which all the intervals of  *)
(* the code are multiples; Tick waits for whatever is due.  Timers of the  *)
(* page are exact, those of a pulse may lag.  The home page of the         *)
(* integration server and that of the public server differ in MaxSeen.     *)
(***************************************************************************)
EXTENDS Naturals

CONSTANTS Server,      \* systems shown on the page
          Period,      \* sendPulseMinInterval of the OS server
          Lag,         \* how late its scripts may make a pulse
          DevTimeout,  \* timeout of a request to a device
          Check,       \* checkServerIsOfflineInterval
          MaxSeen,     \* checkServerIsOfflineMaxLastSeenInterval
          Retry,       \* autoConnectInterval of the page
          Outages,     \* disturbances
          Stranger,    \* devices without an entry in device.db.json may notify
          None

ASSUME PulsePathAssumption ==
  /\ {Period, DevTimeout, Check, MaxSeen, Retry} \subseteq Nat \ {0}
  /\ {Lag, Outages} \subseteq Nat
  /\ Stranger \in BOOLEAN
  /\ None \notin Nat

VARIABLES
  pulse,      \* ticks until the loop of each OS server sends a pulse, None if dead
  run,        \* ticks since the pulse handler of each server started, None if idle
  ws,         \* readyState of the page's socket
  retry,      \* ticks until the page looks at it again, None while it awaits openWs
  check,      \* ticks until the page looks for servers that fell silent
  seen,       \* the table _servers: ticks since lastSeen, None if it has no entry
  shown,      \* serversBuf: the servers on the page
  page,       \* whether React still renders the page
  disturbed,  \* history: servers hit by an outage since their last view
  outages     \* disturbances left

vars == <<pulse, run, ws, retry, check, seen, shown, page, disturbed, outages>>

Outage == outages > 0 /\ outages' = outages - 1

Ages == 0 .. MaxSeen + Check + 1

Init == /\ pulse \in [Server -> 0 .. Period]
        /\ run = [s \in Server |-> None]
        /\ ws = "closed"
        /\ retry = 0
        /\ check = Check
        /\ seen = [s \in Server |-> None]
        /\ shown = {}
        /\ page = "up"
        /\ disturbed = Server
        /\ outages = Outages

-----------------------------------------------------------------------------
\* The timers of its requests end a run.
TimedOut(s) == run[s] = DevTimeout

Later(timer) == IF timer = None THEN None ELSE timer - 1

Tick ==
  /\ \A s \in Server : pulse[s] # 0 /\ ~TimedOut(s)
  /\ retry # 0 /\ check # 0
  /\ pulse' = [s \in Server |-> Later(pulse[s])]
  /\ run' = [s \in Server |-> IF run[s] = None THEN None ELSE run[s] + 1]
  /\ retry' = Later(retry)
  /\ check' = check - 1
  /\ seen' = [s \in Server |-> IF seen[s] \in Ages /\ seen[s] + 1 \in Ages
                               THEN seen[s] + 1 ELSE seen[s]]
  /\ UNCHANGED <<ws, shown, page, disturbed, outages>>

\* The loop of the OS server sends a pulse and, once the script has run and the
\* interval is over, the next one.  A pulse is dropped while the last is handled.
SendPulse(s) ==
  /\ pulse[s] = 0
  /\ \E n \in Period .. Period + Lag : pulse' = [pulse EXCEPT ![s] = n]
  /\ run' = IF run[s] = None THEN [run EXCEPT ![s] = 0] ELSE run
  /\ UNCHANGED <<ws, retry, check, seen, shown, page, disturbed, outages>>

\* Mutant of SeenSince: the time of the pulse taken for that of its arrival.
SeenSince_Pulse(s) == run[s]

\* lastSeen: the time at which the page gets the pulse.
SeenSince(s) == 0

\* The handler has heard of every device and sends its view: pulseMainHandler
\* enters the server, Servers shows it.  Device reads the name of each device
\* and throws for one without info, whereupon React removes the page.
ViewArrives(s) ==
  /\ run[s] # None
  /\ run' = [run EXCEPT ![s] = None]
  /\ IF ws = "open"
     THEN /\ seen' = [seen EXCEPT ![s] = SeenSince(s)]
          /\ shown' = shown \cup {s}
          /\ disturbed' = IF pulse[s] = None THEN disturbed ELSE disturbed \ {s}
          /\ page' \in {page} \cup (IF Stranger THEN {"blank"} ELSE {})
     ELSE UNCHANGED <<seen, shown, page, disturbed>>
  /\ UNCHANGED <<pulse, ws, retry, check, outages>>

-----------------------------------------------------------------------------
(***************************************************************************)
(* The page                                                                *)
(***************************************************************************)
\* Mutant of Rearmed: the two intervals taken for each other.
Rearmed_MaxSeen == MaxSeen

Rearmed == Check

Hidden(gone) == gone

\* _deleteOfflineServers, and the handlers of SERVER_IS_OFFLINE.
CheckOffline ==
  /\ check = 0
  /\ LET gone == {s \in Server : seen[s] \in Ages /\ seen[s] > MaxSeen}
     IN  /\ seen' = [s \in Server |-> IF s \in gone THEN None ELSE seen[s]]
         /\ shown' = shown \ Hidden(gone)
  /\ check' = Rearmed
  /\ UNCHANGED <<pulse, run, ws, retry, page, disturbed, outages>>

\* _infiniteTryConnect
TryConnect ==
  /\ retry = 0
  /\ IF ws = "closed" THEN ws' = "opening" /\ retry' = None
                      ELSE ws' = ws /\ retry' = Retry
  /\ UNCHANGED <<pulse, run, check, seen, shown, page, disturbed, outages>>

Opens ==
  /\ ws = "opening"
  /\ ws' = "open"
  /\ retry' = Retry
  /\ UNCHANGED <<pulse, run, check, seen, shown, page, disturbed, outages>>

\* Mutant of Again: openWs awaited in no try.
Again_Throws == None

Again == Retry

OpenFails ==
  /\ ws = "opening"
  /\ Outage
  /\ ws' = "closed"
  /\ retry' = Again
  /\ UNCHANGED <<pulse, run, check, seen, shown, page, disturbed>>

Closes ==
  /\ ws = "closing"
  /\ ws' = "closed"
  /\ UNCHANGED <<pulse, run, retry, check, seen, shown, page, disturbed, outages>>

-----------------------------------------------------------------------------
(***************************************************************************)
(* Outages                                                                 *)
(***************************************************************************)
SocketBreaks ==
  /\ ws = "open"
  /\ Outage
  /\ ws' = "closing"
  /\ disturbed' = Server
  /\ UNCHANGED <<pulse, run, retry, check, seen, shown, page>>

\* The temperature script fails: getSysPulse rejects and ends the infinite loop.
LoopDies(s) ==
  /\ pulse[s] # None
  /\ Outage
  /\ pulse' = [pulse EXCEPT ![s] = None]
  /\ disturbed' = disturbed \cup {s}
  /\ UNCHANGED <<run, ws, retry, check, seen, shown, page>>

\* Only a restart of the OS server starts it again.
OsRestarts(s) ==
  /\ Outage
  /\ pulse' = [pulse EXCEPT ![s] = Period]
  /\ disturbed' = disturbed \cup {s}
  /\ UNCHANGED <<run, ws, retry, check, seen, shown, page>>

Works == \/ Tick \/ CheckOffline \/ TryConnect \/ Opens \/ Closes
         \/ \E s \in Server : SendPulse(s) \/ ViewArrives(s)

Next == \/ Works
        \/ OpenFails \/ SocketBreaks
        \/ \E s \in Server : LoopDies(s) \/ OsRestarts(s)

Spec == Init /\ [][Next]_vars

\* Timers fire and a handler ends: time passes.  An attempt to connect, and a
\* closing socket, come to an end.
FairSpec == Spec /\ WF_vars(Works) /\ SF_vars(Opens) /\ WF_vars(Closes)

-----------------------------------------------------------------------------
(***************************************************************************)
(* Properties                                                              *)
(***************************************************************************)
\* Types; and a run never outlasts the timers of its requests.
TypeOK == /\ pulse \in [Server -> 0 .. Period + Lag \cup {None}]
          /\ run \in [Server -> 0 .. DevTimeout \cup {None}]
          /\ ws \in {"closed", "opening", "open", "closing"}
          /\ retry \in 0 .. Retry \cup {None}
          /\ check \in 0 .. Check
          /\ seen \in [Server -> Ages \cup {None}]
          /\ shown \subseteq Server
          /\ page \in {"up", "blank"}
          /\ disturbed \subseteq Server
          /\ outages \in 0 .. Outages

\* The page's two tables, _servers and serversBuf, never disagree.
ShownIsTable == shown = {s \in Server : seen[s] # None}

\* A server that fell silent is off the page within MaxSeen + Check, and so out of
\* both tables at once (ws-service.ts:99, Servers.tsx:18).
DetectsSilence == /\ TypeOK /\ ShownIsTable
                  /\ \A s \in shown : seen[s] <= MaxSeen + Check

\* A server is taken off the page only after an outage: not because a device
\* that does not answer makes it handle every other pulse only.
NoFlicker == [][\A s \in shown \ shown' : s \in disturbed]_vars

\* After the last outage every server whose loop lives is on the page for good.
Reappears == \A s \in Server : <>[](s \in shown \/ pulse[s] = None)

\* The page goes on rendering whatever devices a pulse lists: Server.tsx:11 and
\* device.types.ts:10 provide for devices without info.
PageStaysUp == page = "up"
=============================================================================
