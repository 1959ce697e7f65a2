------------------------------- MODULE Relay --------------------------------
(***************************************************************************)
(* The public server between integration systems and browsers: pulses go   *)
(* from every system to the browser that connected last, commands from     *)
(* every browser to the system that connected last (homepage.module.ts,    *)
(* int-system.ws.module.ts of the public server), over sockets that break  *)
(* and are opened again at either end; and the ends themselves, the switch *)
(* of a page (Device.tsx) and the handler of its commands in the           *)
(* integration system (public-server.module.ts).                           *)
(*                                                                         *)
(* A system has one device with one pin. A view is the level of the pin, *)
(* with a version by which views can be told apart; how the view of        *)
(* several devices comes about is IntServer's, when a silent system leaves *)
(* a page PulsePath's.                                                     *)
(***************************************************************************)
EXTENDS Integers, Sequences, FiniteSets

CONSTANTS Sys,       \* integration systems
          Browser,   \* browsers
          User,      \* bound: browsers at which somebody clicks a switch
          Switched,  \* bound: systems whose switch is clicked
          Clicks,    \* bound: clicks on a switch
          Versions,  \* bound: versions of a view told apart
          Cap,       \* bound: messages under way on one socket
          Faults,    \* bound: sockets broken
          None

ASSUME RelayAssumption ==
  /\ {Clicks, Versions, Cap, Faults} \subseteq Nat
  /\ Versions > 0 /\ Cap > 0
  /\ User \subseteq Browser /\ Switched \subseteq Sys
  /\ None \notin Sys \cup Browser

VARIABLES
  link,        \* each system's socket to the public server is open
  page,        \* each browser's socket is open
  sysClient,   \* the system whose socket commands are sent to
  feWs,        \* the browser whose socket pulses are sent to
  subscribed,  \* the ids of the handlers of PULSE
  level,       \* the pin of each system's device
  version,     \* versions of views, for each system
  views,       \* views under way from each system
  late,        \* views still under way on the system's socket before this one
  toPage,      \* views under way to each browser
  shown,       \* the view of each system on each page, or None
  clicked,     \* commands sent, by number: the system and the value
  up,          \* commands under way from each browser, by number
  down,        \* commands under way to each system
  setting,     \* commands whose setState is under way, for each system
  ran,         \* history: how often a device has carried out each command
  lost,        \* history: commands that a broken socket or no system took
  late_seen,   \* history: a view has arrived on an old socket
  faults

sockets == <<link, page, sysClient, feWs, subscribed>>
viewing == <<version, views, late, toPage, shown>>
commands == <<clicked, up, down, setting, ran, lost>>
vars == <<sockets, level, viewing, commands, late_seen, faults>>

Init ==
  /\ link = [s \in Sys |-> FALSE] /\ page = [b \in Browser |-> FALSE]
  /\ sysClient = None /\ feWs = None /\ subscribed = {}
  /\ level = [s \in Sys |-> 0]
  /\ version = [s \in Sys |-> 0]
  /\ views = [s \in Sys |-> <<>>] /\ late = [s \in Sys |-> <<>>]
  /\ toPage = [b \in Browser |-> <<>>]
  /\ shown = [b \in Browser |-> [s \in Sys |-> None]]
  /\ clicked = <<>> /\ ran = <<>> /\ lost = {}
  /\ up = [b \in Browser |-> <<>>] /\ down = [s \in Sys |-> <<>>]
  /\ setting = [s \in Sys |-> {}]
  /\ late_seen = FALSE /\ faults = 0

Elements(q) == {q[i] : i \in DOMAIN q}

-----------------------------------------------------------------------------
(***************************************************************************)
(* Sockets                                                                 *)
(***************************************************************************)
\* autoConnect of a system's wsc, and "connection" with its header.
SysConnects(s) ==
  /\ ~link[s]
  /\ link' = [link EXCEPT ![s] = TRUE]
  /\ sysClient' = s
  /\ UNCHANGED <<page, feWs, subscribed, level, viewing, commands, late_seen,
                 faults>>

\* Mutant of HandlerId: an id for every connection.
HandlerId_Own(b) == b

\* The id under which the handler of pulses is subscribed: its name.
HandlerId(b) == None

\* Mutant of BrowserConnects: the handler is not subscribed to pulses.
BrowserConnects_Deaf(b) ==
  /\ ~page[b]
  /\ page' = [page EXCEPT ![b] = TRUE]
  /\ feWs' = b
  /\ UNCHANGED <<link, sysClient, subscribed, level, viewing, commands,
                 late_seen, faults>>

\* _infiniteTryConnect of a page, and "connection" on /fe-wss.
BrowserConnects(b) ==
  /\ ~page[b]
  /\ page' = [page EXCEPT ![b] = TRUE]
  /\ feWs' = b
  /\ subscribed' = subscribed \cup {HandlerId(b)}
  /\ UNCHANGED <<link, sysClient, level, viewing, commands, late_seen, faults>>

\* The socket of a system breaks. What it sent may still come, what was sent to
\* it is lost.
SysBreaks(s) ==
  /\ link[s] /\ faults < Faults
  /\ faults' = faults + 1
  /\ link' = [link EXCEPT ![s] = FALSE]
  /\ late' = [late EXCEPT ![s] = IF @ = <<>> THEN views[s] ELSE @]
  /\ views' = [views EXCEPT ![s] = <<>>]
  /\ down' = [down EXCEPT ![s] = <<>>]
  /\ lost' = lost \cup Elements(down[s])
  /\ UNCHANGED <<page, sysClient, feWs, subscribed, level, version, toPage,
                 shown, clicked, up, setting, ran, late_seen>>

BrowserBreaks(b) ==
  /\ page[b] /\ faults < Faults
  /\ faults' = faults + 1
  /\ page' = [page EXCEPT ![b] = FALSE]
  /\ toPage' = [toPage EXCEPT ![b] = <<>>]
  /\ up' = [up EXCEPT ![b] = <<>>]
  /\ lost' = lost \cup Elements(up[b])
  /\ UNCHANGED <<link, sysClient, feWs, subscribed, level, version, views,
                 late, shown, clicked, down, setting, ran, late_seen>>

\* The public server restarts: it knows nobody and no handler.
Restarts ==
  /\ faults < Faults
  /\ faults' = faults + 1
  /\ link' = [s \in Sys |-> FALSE] /\ page' = [b \in Browser |-> FALSE]
  /\ sysClient' = None /\ feWs' = None /\ subscribed' = {}
  /\ views' = [s \in Sys |-> <<>>] /\ late' = [s \in Sys |-> <<>>]
  /\ toPage' = [b \in Browser |-> <<>>]
  /\ up' = [b \in Browser |-> <<>>] /\ down' = [s \in Sys |-> <<>>]
  /\ lost' = lost \cup (UNION {Elements(up[b]) : b \in Browser})
                  \cup (UNION {Elements(down[s]) : s \in Sys})
  /\ UNCHANGED <<level, version, shown, clicked, setting, ran, late_seen>>

-----------------------------------------------------------------------------
(***************************************************************************)
(* Views                                                                   *)
(***************************************************************************)
Lower(m, n) == IF m < n THEN m ELSE n

\* The handler of a system's pulse, or of a command, has read the pin and sends
\* the view (_sendPulseToPublicServer). A wsc.ws that is closed drops it, which
\* changes nothing.
SendsView(s) ==
  /\ link[s] /\ Len(views[s]) < Cap
  /\ version' = [version EXCEPT ![s] = Lower(@ + 1, Versions)]
  /\ views' = [views EXCEPT ![s] = Append(@, [sys |-> s, level |-> level[s],
                                             version |-> version'[s]])]
  /\ UNCHANGED <<sockets, level, late, toPage, shown, commands, late_seen, faults>>

\* Every handler of PULSE sends the view to the browser that connected last.
Relays(view) ==
  /\ toPage' = IF feWs # None /\ page[feWs]
               THEN [toPage EXCEPT ![feWs] =
                       @ \o [i \in 1 .. Cardinality(subscribed) |-> view]]
               ELSE toPage
  /\ feWs # None /\ page[feWs] => Len(toPage[feWs]) < Cap

RelaysView(s) ==
  /\ views[s] # <<>>
  /\ views' = [views EXCEPT ![s] = Tail(@)]
  /\ Relays(Head(views[s]))
  /\ UNCHANGED <<sockets, level, version, late, shown, commands, late_seen,
                 faults>>

\* A socket that was replaced still has its listener; or it ends.
RelaysLate(s) ==
  /\ late[s] # <<>>
  /\ late' = [late EXCEPT ![s] = Tail(@)]
  /\ Relays(Head(late[s]))
  /\ late_seen' = TRUE
  /\ UNCHANGED <<sockets, level, version, views, shown, commands, faults>>

LateEnds(s) ==
  /\ late[s] # <<>>
  /\ late' = [late EXCEPT ![s] = <<>>]
  /\ UNCHANGED <<sockets, level, version, views, toPage, shown, commands,
                 late_seen, faults>>

\* The page shows the view.
ShowsView(b) ==
  /\ toPage[b] # <<>>
  /\ toPage' = [toPage EXCEPT ![b] = Tail(@)]
  /\ shown' = [shown EXCEPT ![b][Head(toPage[b]).sys] = Head(toPage[b])]
  /\ UNCHANGED <<sockets, level, version, views, late, commands, late_seen,
                 faults>>

-----------------------------------------------------------------------------
(***************************************************************************)
(* Commands                                                                *)
(***************************************************************************)
\* A switch asks for what it does not show. The next render enables it again,
\* so it may be clicked before it has changed.
Click(b, s) ==
  /\ Len(clicked) < Clicks /\ shown[b][s] # None /\ Len(up[b]) < Cap
  /\ clicked' = Append(clicked, [sys |-> s, val |-> 1 - shown[b][s].level])
  /\ ran' = Append(ran, 0)
  /\ IF page[b] THEN up' = [up EXCEPT ![b] = Append(@, Len(clicked'))]
                     /\ UNCHANGED lost
                ELSE lost' = lost \cup {Len(clicked')} /\ UNCHANGED up
  /\ UNCHANGED <<sockets, level, viewing, down, setting, late_seen, faults>>

\* The system that a command is sent on to: a closed socket drops it.
Target == {s \in Sys : s = sysClient /\ link[s]}

RelaysCommand(b) ==
  /\ up[b] # <<>>
  /\ \A s \in Target : Len(down[s]) < Cap
  /\ up' = [up EXCEPT ![b] = Tail(@)]
  /\ down' = [s \in Sys |-> IF s \in Target THEN Append(down[s], Head(up[b]))
                                            ELSE down[s]]
  /\ lost' = IF Target = {} THEN lost \cup {Head(up[b])} ELSE lost
  /\ UNCHANGED <<sockets, level, viewing, clicked, setting, ran, late_seen, faults>>

\* Mutant of KnownTo: a system takes any command for one of its device.
KnownTo_Any(s, c) == TRUE

\* getDeviceList(mac) of the system has the device.
KnownTo(s, c) == clicked[c].sys = s

\* _pubMsgMainHandler starts setState. It is not awaited: the next command may
\* come before this one is carried out.
StartsCommand(s) ==
  /\ down[s] # <<>>
  /\ down' = [down EXCEPT ![s] = Tail(@)]
  /\ IF KnownTo(s, Head(down[s]))
     THEN setting' = [setting EXCEPT ![s] = @ \cup {Head(down[s])}]
          /\ UNCHANGED lost
     ELSE lost' = lost \cup {Head(down[s])} /\ UNCHANGED setting
  /\ UNCHANGED <<sockets, level, viewing, clicked, up, ran, late_seen, faults>>

\* The device carries out a command, in any order.
Sets(s, c) ==
  /\ c \in setting[s]
  /\ setting' = [setting EXCEPT ![s] = @ \ {c}]
  /\ level' = [level EXCEPT ![s] = clicked[c].val]
  /\ ran' = [ran EXCEPT ![c] = @ + 1]
  /\ UNCHANGED <<sockets, viewing, clicked, up, down, lost, late_seen, faults>>

Next ==
  \/ \E s \in Sys :
       \/ SysConnects(s) \/ SysBreaks(s)
       \/ SendsView(s) \/ RelaysView(s) \/ RelaysLate(s) \/ LateEnds(s)
       \/ StartsCommand(s) \/ (\E c \in setting[s] : Sets(s, c))
  \/ \E b \in Browser :
       \/ BrowserConnects(b) \/ BrowserBreaks(b) \/ ShowsView(b)
       \/ RelaysCommand(b)
  \/ \E b \in User, s \in Switched : Click(b, s)
  \/ Restarts

Spec == Init /\ [][Next]_vars

\* Either end tries again after a second, pulses come every second, and what is
\* under way arrives.
FairSpec ==
  /\ Spec
  /\ \A s \in Sys :
       /\ WF_vars(SysConnects(s)) /\ WF_vars(SendsView(s))
       /\ SF_vars(RelaysView(s)) /\ WF_vars(RelaysLate(s) \/ LateEnds(s))
       /\ WF_vars(StartsCommand(s)) /\ WF_vars(\E c \in setting[s] : Sets(s, c))
  /\ \A b \in Browser :
       /\ WF_vars(BrowserConnects(b)) /\ WF_vars(ShowsView(b))
       /\ WF_vars(RelaysCommand(b))

-----------------------------------------------------------------------------
(***************************************************************************)
(* Properties                                                              *)
(***************************************************************************)
View == [sys : Sys, level : {0, 1}, version : 0 .. Versions]

\* Type correctness.
TypeOK ==
  /\ link \in [Sys -> BOOLEAN] /\ page \in [Browser -> BOOLEAN]
  /\ sysClient \in Sys \cup {None} /\ feWs \in Browser \cup {None}
  /\ level \in [Sys -> {0, 1}] /\ version \in [Sys -> 0 .. Versions]
  /\ views \in [Sys -> Seq(View)] /\ late \in [Sys -> Seq(View)]
  /\ toPage \in [Browser -> Seq(View)]
  /\ shown \in [Browser -> [Sys -> View \cup {None}]]
  /\ clicked \in Seq([sys : Sys, val : {0, 1}]) /\ ran \in Seq(Nat)
  /\ up \in [Browser -> Seq(Nat)] /\ down \in [Sys -> Seq(Nat)]
  /\ setting \in [Sys -> SUBSET DOMAIN clicked] /\ lost \subseteq DOMAIN clicked
  /\ late_seen \in BOOLEAN /\ faults \in 0 .. Faults

\* w is newer than v, as far as versions are told apart.
Newer(v, w) == v = None \/ v.version < w.version \/ w.version = Versions

\* However often browsers and systems connect, a view is sent on at most once
\* (homepage.module.ts:53) and never after a newer one: what comes to a page is
\* newer than what it shows, whatever reconnects, unless a socket that was
\* replaced has spoken (int-system.ws.module.ts:20).
ViewsInOrder ==
  /\ TypeOK
  /\ \A b \in Browser : \A i \in DOMAIN toPage[b] :
       LET w == toPage[b][i]
       IN  \/ late_seen
           \/ /\ Newer(shown[b][w.sys], w)
              /\ \A j \in 1 .. i - 1 :
                   toPage[b][j].sys = w.sys => Newer(toPage[b][j], w)

\* The places where a command is.
Places(c) ==
  {<<"up", b>> : b \in {x \in Browser : c \in Elements(up[x])}}
    \cup {<<"down", s>> : s \in {x \in Sys : c \in Elements(down[x])}}
    \cup {<<"setting", s>> : s \in {x \in Sys : c \in setting[x]}}
    \cup {<<"ran", n>> : n \in 1 .. ran[c]}
    \cup {<<"lost", 0>> : l \in {x \in lost : x = c}}

\* Every command is in one place: under way, carried out once by the system that
\* has its device, or lost with a socket or for want of that system
\* (homepage.module.ts:65, public-server.module.ts:77).
OnePlace ==
  \A c \in DOMAIN clicked :
    /\ Cardinality(Places(c)) = 1
    /\ \A s \in Sys : c \in setting[s] => clicked[c].sys = s

\* Once all is quiet, the browser that connected last shows every pin as it is,
\* for good. No other browser need.
LastShows ==
  <>[](\A s \in Sys : feWs # None /\ shown[feWs][s] # None
                        /\ shown[feWs][s].level = level[s])
=============================================================================
