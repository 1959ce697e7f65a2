# iot-home in TLA+

A verification project for the [iot-home](../src/README.md) programs: TLA+ modules
translated from the source, TLC runs that check them on small instances, and proofs
that TLAPS checks for every instance.  `PROJECT.json` maps every definition to the
lines it models.

## 1. The system

| part | state | operations | talks to |
|---|---|---|---|
| integration server (`iot-integration-server`) | `DeviceModule.deviceStore`, each viewer's `_sysPulseHandlerBlock` and `_lastSysPulse`, the current browser `_feWs`, `sysClient`, subscribed handlers, the `uncaughtException` listeners of its HTTP requests | device notification, system pulse, control command (browser or public server), shell commands, connections | devices (HTTP), OS server (ws), browser (ws), public server (ws) |
| OS server (`iot-os-interface-server`) | `WebSocketClientModule.ws`, `_terminate`, scripts in progress | pulse loop, connection loop, remote script, SIGTERM | integration server (ws), scripts (exec) |
| OS scripts (`os/scripts`) | the netplan file, the hotspot | add and remove wifi connections, scan | netplan, NetworkManager |
| public server (`iot-public-server`) | `sysClient`, the current browser | relay of pulses and commands | integration server (ws), browser (ws) |
| browser front end (`homepage-fe.alone`) | table of servers with `lastSeen`, the displayed list | pulse, offline check every 1500 ms, reconnection | either server (ws) |
| virtual device, Pico W device | pins, wifi state, the static response buffer, the HTTP requests in progress | set and read pins, notify every second | integration server |
| command explorer (`cmd-explorer`) | command tree, arguments | find and run a command, suggest, serialise | shell page in the browser |

**What is hard.**  Everything is event-driven JavaScript: code runs to its next `await`
and other events come in between, on shared `Device` objects that a notification
replaces.  Failures travel as rejections, and one that nobody catches takes the
process down or not depending on listeners other requests have left behind.  Requests
time out and are executed all the same; sockets break at each end in its own time;
either server restarts; remote scripts are matched by name only.

**What makes each part correct.**

* HTTP client: every request settles; a failure does not take down the process.
* Devices and viewers: one pulse run per viewer at a time and never a viewer blocked
  for ever; what a viewer shows ends up being what the devices hold.
* Link: one socket at a time, the same one at both ends, again after every failure, and
  none after SIGTERM; a remote script's output reaches the call it belongs to, once.
* Front end: a live server is shown, a dead one disappears, the two tables agree.
* Scripts: the default connection is never lost or changed, and a configuration once
  written passes the validation of the next change.
* Devices: notifications resume after any failure; no request reads another's response.
* Command explorer: the command found is the one named; arguments parse to what was
  written; serialisation ends on cyclic objects.

`PROJECT.json` lists the hazards line by line, with the properties that cover them.

## 2. Modules

### HttpClient
`common_modules/http-client/http-client.module.ts` and what it uses of Node.  A request
slot goes `idle -> connecting -> streaming -> done`, or to `refused`/`broken`, and back to
`idle` when the continuation of its caller has run.  `dying` is a response whose request
the timer or a listener destroyed and whose stream has not erred yet.

* `Call(S)`: an event runs code that sends the requests of `S`.  `Headers`, `End`,
  `Refuse`, `Break`, `ResError`, `Timer`: what may happen to one request next.
* `Resume(r, S)`: the continuation of a settled request, up to its next `await`.  A
  caller in `Guarded` has a `try`; one in `Unguarded` (`setState` in a handler) has not;
  a request in `Raw` is one of the shell commands (`device.common.cmd.tree.ts`), which
  has neither timer nor listener.
* `Raise`: Node raises the unhandled rejections of the tick.  It crashes if no listener
  is left, and an ECONNREFUSED makes every listener abort its own request.
* `Restart`: `restart: unless-stopped` of docker-compose.

It has no run of its own: IntServer, whose actions are made of its, is checked and run, and
theorems about its instance there state what it promises.  That a slot is of one kind (`SlotsDisjoint`) holds
of the requests of IntServer (`SlotsAreDisjoint`).

`requestStream` leaves one listener per request behind.  An emission consumes all of
them, and those of settled requests do nothing, so the model keeps the listeners of the
requests in flight (`listeners`) and whether there is any other (`leftover`), not the
unbounded number.  That Node itself warns of more than ten listeners is left out.

### IntServer
`devnotif.module.ts`, `device.module.ts`, `homepage.module.ts`, `public-server.module.ts`
and the shell's `select` command over the instance `H` of HttpClient.  A run of a handler
takes a slot of `Job`; its requests are the slots `<<j, m>>` (a query of device `m`) and
`<<j, "set">>`.  Each event handler up to its first `await` is an action (`Notify`,
`FeConnect`, `PulseArrives`, `CtrlDev`, `Select`), and so is each continuation
(`QueryResumes`, `SetSucceeds`, `SetFails`, `ShellResumes`, `Finish`).  `Promise.all` is
the condition `Finishing`.  `Quiet`, in every event, is the rule that pending
continuations run first.

`heap` holds the Device objects: number 0 is the one in `deviceStore`, and one that was
replaced while runs refer to it lives on under another number until they end.  `fresh`
stands for `lastSeen` within two seconds (`Expire` lets them pass).  `actual` is the
device's own pins, `late` the commands it received but whose sender gave them up.

Commanding is what the senders of commands are promised, in three actions: a command is sent,
carried out, or forgotten.  It knows nothing of requests, handlers and crashes; its pending
commands are those on their way to the device and the late ones (`Outstanding`).  MCIntServer
has the instances for TLC.

Abstracted: the text of messages, temperatures and addresses, the port that one owner
writes into the pulse both of them share, several pins in one command, `--dry-run` and
`select get` (no state), and how long things take, but for their order.

### SysLink
`ws-client.module.ts`, `sys.ws.module.ts`, `sys.common.cmd.tree.ts` and the script handler
of `os.module.ts`.  The client numbers its connections.  `client` and `server` hold the
`readyState` of each end; `cut` the connections that carry nothing new; what is under way
on a cut connection may still arrive until that end notices.  `Opens` includes the loss of
requests that came with the handshake response: `ws` emits them before the awaiting loop
has attached its listener.  `StartCall` is `runRemoteScript`; all calls subscribe under the
handler id `"responseHandler"`, so `handler` is a single call.  `execs` remembers the socket
to answer on, read before the script ran.  The public server's `int-system.ws.module.ts`
and the integration server's own client are copies of this code.

### PulsePath
The pulse loop of `os.module.ts`, the block flag seen from outside, and the page:
`ws-service.ts` and `Servers.tsx`, in ticks of 500 ms, of which every interval of the code is
a multiple.  `pulse` and `run` are the loop and the pulse handler of each server; `ws` and
`retry` the connection loop of the page; `seen` its table `_servers` (as ages), `shown` the
component's `serversBuf`.  `Tick` waits for whatever is due, so a handler takes no time of
its own.  `Lag` is how much later than its interval the temperature script may make a pulse.
`ViewArrives` ends a run and hands its view to the page; with `Stranger` one of the devices
may lack `info`.  `SocketBreaks`, `OpenFails`, `LoopDies` and `OsRestarts` are the `Outages`;
`disturbed`, a history variable, tells the servers they hit from those a page loses for no
reason.  The link between the two servers is taken to be up (SysLink is about that), and a
server to have one page.

### PicoHttp
`main.cpp`, `WifiManager.cpp`, `http_client_request.cpp` and `lwip_http_client.c` of the
Pico W.  `main` is where the loop stands; every callback of lwIP (`Connected`,
`RecvHeaders`, `RecvHead`, `RecvData`, `PeerCloses`, `Breaks`, `Poll`, `NameFound`,
`NameUnknown`) is an action, because lwIP's background interrupt puts it between any two
steps of the loop.  A slot of `Req` is one `httpc_state_t`; what it owns (`pcb`, `request`,
`rx_hdrs`) is kept beside the counters of lwIP's heap, control blocks and buffers, so that a
leak shows.  `unread` is the part of the receive window that was not given back, `body` and
`promised` the two lengths that decide the result.  `home` is the static array of
`getIpAddrBytes`, which remembers the first network.

Sizes are counted in blocks and buffers; TCP hands over one buffer at a time.  `headers_fn`
frees the header buffers that `httpc_tcp_recv` goes on using.  With lwIP's assertions the device
halts when they are freed again (`Asserts`).  Without, `pbuf_free_header` walks them though they
lie in the pool: the first one links the free list by now, so unless the headers end inside it
the list is cut off behind it (`FreeHeader`; the history variable `cut` remembers it), and what
the body is counted from is one of the buffers cut off, of any length, or none (`LeftOver`).

### DeviceApi
The request API twice: `device-control.module.ts` of the virtual device as the pure
`VirtualLevels` and `VirtualAnswer`, and `cgi.cpp`, `ApiHandler.cpp`, `ssi.cpp` of the Pico
as a state machine over its connections.  `Queries` are the strings that `setState` and
`queryState` of the integration server can write.  `Api` is the whole CGI handler (it cannot
be interrupted by another); `SsiJson` and `SsiPage` replace the tag, at once or after other
requests if the connection had no room.  `asked`, `alone` and `seen` say what each connection
was promised.  Of an answer's entry the model keeps pin and `sta`.

### OsScripts
The classes of `scripts-lib.js` and the scripts that use them.  A run is a process of its
own: `Read` (parse, change, validate), `Open` and `Write` (`fs.writeFile`, which empties the
file first), then the shell script with sudo.  A run may be killed between any two steps.
`Torn` stands for any file that does not parse to a configuration.  `Row` is the parser of
`nmcli -t` lines over sequences of characters, for all names up to `MaxName` of the three
kinds of characters it tells apart.

### Explorer
`App.tsx` and, behind it, `cmd.ctrl.ts`, `cmd-runner.ts`, `Arg.class.ts` and the command
`select` of `device.control.cmd.tree.ts`.  A text is a sequence of letters, one letter for a
whole argument or a part of one, and one for a space, a quote and a new line.  `Type`,
`Follow`, `Backspace`, `Tab` and `Enter` are the user; `HelpAnswers` and `Answer` the
responses, in any order; `Refused` is the command whose device is away, which ends the server.
The map `_cache` also holds the flag of the quotes and, under `cmdHeight`, the height of the box,
which a new line in quotes puts there and deleting one changes (`Heightened`, `Lowered`); both are
kept as what a render of that key makes of them.
`cache` holds the arrays in the order in which `Screen` left them: it reverses them in place at
every render.  `Follow` (the user types what is suggested) does not count for `Keys`, so that
whole commands are reached.

### Relay
The public server (`int-system.ws.module.ts`, `homepage.module.ts`) with the ends of its
sockets: the system's client (the integration server's copy of `ws-client.module.ts`) and
its handler of commands (`public-server.module.ts`), the page's service and its switches
(`Device.tsx` of the public page).  `sysClient` and `feWs` are the last connections that came;
`late` is what an older socket of a system still delivers.  A view carries a version, a
command its number, and `ran` and `lost` say what became of each.

### Switches
The pins of the integration server's home page as React keeps them: `Servers.tsx`, `Server.tsx`
and `Device.tsx`.  Every list is rendered with its index as key, so a component, and its state,
belongs to a place and not to a device.  `PulseArrives`, `GoesOffline` and `Click` are the
events; `Render` renders the tree with the state set last, `Pass` being one call of `Pin`, which
sets its state while it renders and is called again, up to React's limit of 25.  `props` and
`state` are what React has of each place, `buf` the level each pin number was last drawn with.
`Batch` bounds the pulses and offline checks that come before React renders.  The definitions of
its specification begin with `Page` (`PageSpec`), so that its proofs can be read next to those of
PulsePath, which is about the same page.

### Lifecycle
`index.ts`, `App.module.ts`, the HTTP server and the handlers of SIGTERM of the four node
programs, which differ in their modules (`ModulesOf`).  `Boot` initialises the modules in order;
a connection asks for a path, becomes a web socket or waits; `Answer`, `Ignore` and `Throws` are
what becomes of the request.  `Path` has a name for each kind of request that ends differently;
`Breaking` are those that no `try` covers, all of them the command explorer's.  A listener that a
request of HttpClient has left behind may take what they throw, so in the integration server
`Throws` either ends the process or leaves that request unanswered.  `Wakes` and `Connects` are the loop of the web socket client,
`Exit` the end of a process with nothing left to wait for.  The four programs hold copies of the
common modules; the map cites one copy of each, now of one program and now of another.  Its
specification is `LifeSpec`, and its proofs are with those of OsScripts.

### ScriptResults and Serialized
Pure functions, and no variables.  ScriptResults takes what a shell script prints through
`scripts-lib.js`, the script around it, `os.module.ts` and either the pulse and the page
(`Shown`) or a command (`Body`), for the temperatures `Temps`; MCSysLink checks it for every
output.  Serialized is
`serializeObject`, checked by MCLifecycle for all graphs of three objects, shared and cyclic
ones included (`MaxDepth` stands for the size of the stack; it is more than a walk that ends
can need).

### How they fit together
IntServer composes HttpClient (`H == INSTANCE`: its actions conjoin those of `H`) and implements
Commanding (`CommandsRunOnce`).
The others meet at interfaces: a view leaves IntServer for PulsePath (time) or Relay (order);
a control command enters it from Relay or Explorer and ends in DeviceApi, of which IntServer
keeps that a command sets a pin and a query reads them; a notification leaves PicoHttp and is
IntServer's `Notify`; SysLink carries the pulses of PulsePath and starts the runs of OsScripts.

Proofs about a module `M` are in `MProofs`: IntServer, SysLink, PulsePath, PicoHttp, DeviceApi,
OsScripts, Relay and Explorer have one.  IntServerProofs also holds those about HttpClient (as
`H!...`), PulsePathProofs those about Switches, OsScriptsProofs those about Lifecycle, and
SysLinkProofs those about ScriptResults.  A few lemmas on induction over the places of a sequence
(`LeastIn`, `Reaches`, `Iterated`) are stated in each proof module that needs them.

Operators named `X_Y` next to an operator `X` are plausible bugs of `X`; `PROJECT.json` lists
which property each of them must violate.

## 3. Runs

| run | question | instance | fairness | distinct states |
|---|---|---|---|---|
| int_server | all interleavings of pulses, commands, notifications and failures; does a run end though no device answers; is a command carried out once at most? | one device, one viewer, two run slots, two disturbances; commands raise a pin that starts low | microtasks, timers | 273 thousand |
| int_server_view | does the viewer end up right, after commands that timed out and were carried out late? | one viewer, two pins, two values, commands and timeouts up to three, or one other disturbance; devices that answer in time in the end | microtasks, pulses, notifications, answers | 320 thousand |
| sys_link | safety, recovery and settling of link and remote scripts; what becomes of a script's output | two calls, two scripts, two disturbances, three connections, two temperatures | see below | 473 thousand |
| public_page | does a live server stay on the page, a dead one go, everything come back? | two servers, 3000 ms, slow scripts and devices, two outages | see below | 1.4 million |
| stranger_page | does the page survive any device? (violation) | one server, no outage | none | |
| pico_http | leaks, results, hanging servers, another network | two requests, room for one and a half in the heap, two control blocks, two networks, three buffers, one fault | see below | 666 thousand |
| device_api | shared buffer, both devices alike | two connections, two pins | none | 4 thousand |
| os_scripts | overlapping and killed runs, sudo, scan | two runs, three networks, two passwords, one kill, names of three characters | runs go on | 463 thousand |
| explorer | responses, completion, quotes, guided commands | three keys against the suggestions, texts of seventeen letters, two fetches, one completion awaited | none | 1.4 million |
| relay | order of views, fate of commands, last browser | two systems, two browsers, one click at one of them, one broken socket or restart | see below | 519 thousand |
| switches | does each switch show its pin, whichever component it is? | two servers, three devices, two events before a render | none | 299 thousand |
| lifecycle | does a program end when told to, with its requests answered? what is written of a result? | the four programs, two connections; graphs of three objects | see below | 3 thousand |

Bounds.  Two uncaught failures are the least that end the process, hence two unguarded
slots and two run slots; two runs also are the least that can disagree about a replaced
object.  `Budget` and `Faults` bound the disturbances (commands, reconnections, failures,
restarts), two so that one may hit while another is being handled.  In int_server_view a late command needs
three: two commands, and the timeout of the first, which is carried out before or after the second
(`Cost` makes any other disturbance take the whole budget, so that it comes alone).  Commands there
are for one of two pins, so that a reply to one knows nothing of the other.  One viewer is enough:
viewers share the Device objects only, and their commands change these in the same way.  It is the
browser, which may reconnect and after a command is sent the last pulse again, if it was kept; in
int_server it is the public server.  Each new connection of
SysLink costs a disturbance, so `Faults + 1` connections are all there can be; `FirstScript` keeps
one of two states that differ by the names of the scripts alone (symmetry reduction does not go
with liveness).  The
counters `raised` and `cmds` stop at two, all that the properties tell apart.  Two calls
are enough to displace a handler and for a late result to meet the wrong call; two scripts
to tell a result from another.  In PicoHttp two requests overlap, the second one meets a full
heap while the first holds its request text and an exhausted pool while closed control blocks
wait; a window of two buffers lets one response run it out.  Two connections are the least that
share a response buffer, two pins the least whose values can be swapped.  Two runs of a script
are the least that lose an update, three networks the least of which one is default, one added
and one lost.  In Explorer, three deviating keys suffice for two quotes with a new line
between them, a quote, a character behind it and its deletion, or a quote and a new line behind
`cmdHeight` (one letter, like every word) while its answer is awaited; after two of them what is
suggested may still be followed (`Strays`); seventeen letters hold `select` with a device, `set` and
two pins with their values, as the suggestions build it.  In Relay, one broken socket is what makes a late one, two browsers what
makes a last one; versions stop at two, which only loses the order of the newest;
`User` and `Switched` say whose switches are clicked, one browser and one system being enough as
the module treats all browsers and all systems alike.

Fairness.  Continuations (`Microtask`) are weakly fair: the event loop takes no event while
one is pending.  The timer of each request is strongly fair: Node visits due timers on every
turn.  In `ViewFairSpec` the system's pulses, the notifications and the answers of the
devices are strongly fair, and with `Reliable` a timeout is one of the bounded disturbances:
the property speaks of a system whose devices work.  In SysLink the loop polls, attempts
open or fail (`openWs` has no timeout, so this is an assumption about the peer), and the
client notices a cut socket, to which it writes on every turn; the server, which writes only
when asked, is **not** assumed to notice.  Restarts of a crashed process are weakly fair:
docker-compose restarts it.  In PulsePath the clock and the handlers are weakly fair, an
attempt of the page to connect is not refused for ever (it is one of the bounded outages when
it is), and a closing socket closes.  In PicoHttp the loop and lwIP's poll timer go on, TCP
releases closed connections, a name is found or given up; strong fairness of `Connected` is
the one assumption about the server: called again and again where it lives, it takes a
request.  The server is not assumed to answer or to close.  In OsScripts a run that can go on
does.  In Relay both ends reconnect (both loops do so every second), pulses come, and what is
under way on an open socket arrives.  In Lifecycle timers fire, handlers end, an attempt to
connect succeeds or fails, and a client that is idle leaves (node's `keepAliveTimeout` sees to
that); one with a web socket need not.

Deadlock checking is off for SysLink, OsScripts, MCExplorer and MCLifecycle: after SIGTERM the
client and the program stop, scripts end, and a user who has used up the bounded keys is done.

What the runs show:

* The listeners that `requestStream` forgets are what keeps the server alive: removing them
  when a request settles (mutant `Leaves_Nothing`) lets a single refused command end the
  process.  With them it takes two failures without a new request in between
  (`CrashNeedsTwo`), or a failed shell command, and pulses alone never do it
  (`CrashNeedsTwoCommands`).  `index.ts:67` has the process-wide listener commented out.
* A shell command whose device refuses the connection never returns
  (`device.common.cmd.tree.ts:30`, no `try` in an async executor).
* Commands are at most once (`CommandsRunOnce`): the server never repeats one that failed, was
  aborted by the failure of another or was given up, though each may still be carried out, after
  later ones and after a restart.
* A view may for a moment lack pins (the reply to a command holds one), or come from an
  object that was replaced; it does not stay so (`ViewConverges`).
* A call of a remote script can be displaced by another and then times out; but no result
  resolves a call for another script, or two calls, and no call times out for any reason
  besides those named in `NoSpuriousTimeout`.
* After breaks and restarts both ends hold the same connection again (`LinkRecovers`),
  although `sysClient` is never cleared: the next accepted connection overwrites it.
* A device that does not answer holds its server's view back by a second, and the pulse that
  arrives meanwhile is dropped: views come every two pulses.  The page of the public server
  (3000 ms) tolerates that and slow scripts, and `NoFlicker` is about it alone.  That of the integration server (2000 ms) does
  not: with `MaxSeen = 4`, `DevTimeout = 2` and any `Lag` a live server flickers.
* A script that fails once ends the pulse loop of its OS server for good
  (`os.module.ts:50`): `Reappears` has to except such servers.
* **Finding** (`stranger_page`): `Device.tsx:14` reads the name of a device unconditionally,
  although `device.types.ts:10` and `Server.tsx:11` allow for a device without `info`.  A
  device that is not in `device.db.json` notifies, appears in the next view, and blanks every
  page that shows it.
* Pico: no memory and no control block leaks on any way a request may end (`Accounted`).  Buffers
  do: a response whose headers do not end together with data in the first buffer cuts off the free
  list of the pool, or with lwIP's assertions stops the device.  Buffers that come back later extend
  it again, but those cut off are lost; the last one never is, so the device goes on hearing.  Such
  a response may be told as a success or not whatever came; one whose headers end in the first
  buffer is told truly (`OkIsTrue`).  A server that accepts
  and hangs, or sends for ever, costs a request only for a time: the poll timer, or the window
  that `body_fn` never gives back, ends it, and notifications resume
  (`KeepsNotifying`).  But a device that comes up in another network goes on calling the address
  it computed in the first (`DeafAbroad`, a true statement about a defect: `WifiManager.cpp:78`).
* The Pico's answers may be swapped between two connections; they never tell a level the pin did
  not have meanwhile (`AnswersTrue`).  For every query the integration server writes the two kinds
  of device are `Interchangeable`.  For others they are not: the shell's `set` without `--val`
  sends an empty `val=`, which makes the Pico drive 0 and the virtual device only read; and the
  Pico drops pairs beyond its ten parameters.
* Scripts: two runs at once may lose one's network or tear the file, but neither they nor a kill
  can take away the default connection (`DefaultKept`).  A torn file is never repaired by a script
  (`TornStays`).  The scan tells fields apart for all names but those ending in a backslash
  (`ScanAligned`).  The shell scripts print `done` even when sudo failed.
* Explorer: two fetches that overlap set the same count, and the second response is not shown
  until the next render (`ScreenCurrent` excepts them).  A completion that comes late overwrites
  what was typed; then the flag of the quotes no longer fits the text, and a lone quote entered
  as a command makes the render throw.  So does `cmdHeight` once a new line was typed in quotes
  (`QuotesAgree` excepts exactly these).  Completion by Tab
  drops the quotes of earlier arguments.  A
  command for a device that refuses connections ends the integration server's process if no
  listener of another request is left (`Refused`).
* Relay: a view is relayed once and in order unless a replaced socket still speaks
  (`ViewsInOrder`); a command meant for a system that is not the last to connect is lost, never
  carried out by another one (`OnePlace`); only the last browser is sure to be right (`LastShows`).
* Switches: React hands the state of a switch to the pin that takes its place.  `Pin` puts it
  right while it renders, in fewer passes than React allows, so that what is shown is what is
  held (`SwitchesTrue`); it is the sort in `Server.tsx:9` that keeps the switches from moving when
  the pulses list the devices in another order (`PlacesKept`).
* Lifecycle: no web socket outlives SIGTERM, not even one that was opening (`StaysClosed`), and
  requests under way are answered (`FinishesRequests`) unless another one of the command explorer ends
  the process: one whose URL (`cmd.ui.ts:19`) or arguments (`cmd.ctrl.ts:16`) do not parse, whose
  device refuses the command (`device.common.cmd.tree.ts:30`) or answers what cannot be serialized
  (`cmd.ctrl.ts:32`).  The OS server survives these (`index.ts:44`).  `Stops` has to except the programs with an
  endless loop: after SIGTERM the OS server (`os.module.ts:47`) and the virtual device go on for
  ever, although `su-stop:7`, the `ExecStop` of the service, sends nothing but SIGTERM.  A path
  that no controller knows is never answered where the command explorer is installed
  (`cmd.ctrl.ts:15` returns and its middleware has no `next`).
* A temperature that could not be read is NaN in the OS server, null in JSON and 0 on the page
  (`TemperatureTold`), although `ws-service.types.ts:62` allows for null.  A node script that fails
  to run is worse, as above.
* `serializeObject` remembers plain objects only: a cycle through arrays and Maps alone overflows
  the stack (`WritesAll` says exactly when).

## 4. Proofs

All theorems hold for every value of the constants under the module's assumption.  TLC checks
their invariants on the instances above.

**IntServerProofs**, for any devices, pins, owners and runs:

* `HttpTypeCorrect`: `H!Spec => []H!TypeOK`, which is inductive by itself.
* `HttpCrashSafety`: `H!Spec => []H!CrashNeedsTwo`.  That the first exception finds a listener is
  not visible in the crashed state; the inductive invariant `HttpInv` adds `H!Shielded`: until the
  first exception every request in flight has its listener, and a rejection is only left
  unhandled beside the listener of its own request.  `ResumeKeepsShield` (a request that
  settles moves its listener to `leftover`) and `RaiseIsCounted` are the steps that matter.
* `CommandsOnce`: `Spec => CommandsRunOnce`.  The mapping counts, for each command, the requests
  its device may not have seen and the ones given up before it did; each action has a step that says
  what it does to that sum.
* `CrashSafety`: `Spec => []CrashNeedsTwoCommands`.  `ClientRefined` (each action moves requests as
  an action of HttpClient or leaves them alone, which is so by the way the actions are written and
  is no result of its own) brings the invariant of HttpClient along: a crash needs two exceptions, or a failed shell command.  `Blame` adds
  where they come from: a single command is out, or has left one rejection unhandled, or
  one exception raised, never two of these; queries settle inside their handler's `try`.
* `BlockExact`: `Spec => []BlockIsExact`.  The invariant `World` says of the flag that it is set
  exactly while one pulse run of the owner is in progress (`Blocks`), that a run which awaits
  a control command has captured just the commanded device (`Runs`), and that only a request
  in flight carries a body (`Carried`).  That an object has a free number when one is
  needed (`NumberIsFree`) is a pigeonhole argument: each run keeps one generation of a device
  alive at most, and there is one generation more than there are runs.

**SysLinkProofs**, for any calls and scripts, any number of disturbances, queues of any length,
any temperatures:

* `ClientHoldsOne` (`OneSocket`).  `Dialing`: connections are opened one after another, all but the
  last are closed, and each was paid for by a disturbance.
* `OwnResults` (`ResultsAreOwn`).  `Tokens`: the request of a call, its running script, its result
  under way and the call that used it are in one place at most, and once in it.
* `TimeoutsHaveReason` (`NoSpuriousTimeout`).  `Served`: a waiting call without an excuse is the
  subscribed one, its link is up, and its request, script or result is on that link, so that its
  timer cannot be the next thing to happen.
* `TemperatureIsTold` (`TemperatureTold`) and `CommandsAreTold` (`CommandTells`): one lemma for
  each kind of output takes it through the six programs.  The kinds are finitely many, the
  temperatures are not.

**RelayProofs**, for any systems, browsers, clicks and faults, queues of any length:

* `CommandsOnce` (`OnePlace`).  `Kept`: a command is in one queue of one browser or system, or
  being set by its own system, or ran once, or is lost; queues do not repeat.
* `ViewsKeepOrder` (`ViewsInOrder`).  `Once`: there is one handler for all browsers, so a view is
  sent on once.  `Ordered`: what a page shows is older than what waits for it, which is older
  than what its systems have sent, in each queue in order; it holds until a socket that was
  replaced speaks (`late_seen`).

**PulsePathProofs**, for any servers and intervals:

* `SilenceIsDetected`, `Spec => []DetectsSilence`.  The age of an entry alone is not inductive;
  `DueInTime` bounds the age plus the time to the next check, which `Tick` keeps constant and
  `CheckOffline` resets.
* `NoneFlickers` (`NoFlicker`), under `Patient`: `Period + Lag + DevTimeout <= MaxSeen`, which the
  intervals of the code satisfy for the public page (1000 + 500 + 1000 <= 3000).
  `SteadyTable` bounds the age of a server without an outage by where its next view is.

The same module proves of Switches, for any servers, devices, pins and names:

* `SwitchesAreTrue`, `PageSpec => []SwitchesTrue`.  What is on the page is a function of a list of
  servers, the one rendered last (`OnPage`), and the state of every switch is what its props say
  (`Steady`).  `SettledIs` says what those calls come to from any
  state React may bring along, far below the limit of 25, whichever pin the state was for.
* `PlacesStay`, `PageSpec => PlacesKept`.  Two orderings of the same devices by their names are the
  same (`OneOrder`, from `SortedIs`), so a device changes its place only when another comes or goes.

**PicoHttpProofs**, for any finite set of requests and any sizes: `NothingLeaks`
(`Accounted`), `ReportedOnce`, `SuccessIsTrue` (`OkIsTrue`) and `HeardAtHome` (`DeafAbroad`).  The inductive
invariant has four parts: types, the `Shape` of a slot (what it owns follows from where it
is, and what is counted of its body what arrived), `Balance` (the counters are the cardinalities
of the owners; of the buffers, once the list was cut off, that one at least is left) and `Course` (the slot the loop
is starting, and that every request goes to `home`).  `Recount` says how a cardinality changes
when one request does, `SlotStep` that a step which changes one request and moves the counters
accordingly keeps everything; each callback is then an instance of `SlotStep`.

**DeviceApiProofs**, for any number of connections and pins: `ToldIsTrue` (`AnswersTrue`) and
`AnswerIsOwn` (`OwnAnswer`), and `DevicesAgree` (`Interchangeable`).  `MarkedPins` shows that the last parameter for a pin decides and that
exactly the named pins are marked; the invariant says that the buffer holds levels every waiting
connection has seen since the request that filled it, and the pins of the last request.
For `DevicesAgree` a query is a `Reading`: each parameter `pin` names one pin, with the value of the
`val` next to it if there is one, which is what both devices make of it (`SetReading`,
`PinReading`).  The virtual device's levels are a recursive function; `LevelsExist` and
`LevelsAre` describe it by induction over its argument, as the absence of a least argument
for which the description fails (`LeastIn`).

**OsScriptsProofs**, for any runs, networks and passwords: `TypeCorrect`, `DefaultIsKept`
(`DefaultKept`), `TornIsLeft` (`TornStays`) and `NothingIsLost` (`NothingLost`).  The invariant `Agrees` relates the configuration last
in the file, and what each run is about to write, to one password of the default network: a run
validates against the file it read, which may not be the one it overwrites.  `Keeps` says that
what an undisturbed run is about to write still has every network of the file but the one it
removes.

`ScanIsAligned` (`ScanAligned`), for names of any length.  The invariant is only that a scan gives
the row of some name; the argument is about the text.  `JoinedBy` describes what is put together of
strings as a function on their places, `HashedConcat` cuts a line in two wherever no escape is cut,
so that what comes before the name, the name and the rest can be looked at one by one.  In an
escaped name every colon has a backslash before it (`EscapedIs`), so none is left in it
(`HashedHides`), and the colons that are left are the separators (`ColonsAre`): three if the
name does not end with a backslash (`FourFields`), else two, as the third is taken for an escaped
one (`LineMissed`, `ThreeFields`).

Of Lifecycle, for any connections and programs: `SocketsStayClosed` (`StaysClosed`) and
`RequestsFinish` (`FinishesRequests`).  The invariant `Lives` says that a program that is up has a
module that hears SIGTERM, that the module whose clients are web sockets hears it too, and that a
process that has ended has no connections.  What ends a process with requests under way is then
a `Breaking` request, and in no program that survives it.

**ExplorerProofs**, for any devices, pins, values, texts of any length, any number of fetches and
completions:

* `AnswersFiled` (`Filed`, which lets the height of the box overwrite an answer to `cmdHeight`) and `ScreenIsCurrent` (`ScreenCurrent`).  `PageInv` has three parts: types,
  `Filing` (each answered command is in the cache as often as it was answered) and `Reading` (as long
  as no two commands were fetched together, at most one is under way, its count is the latest, and
  the screen shows what the cache has).
* `FlagAgrees` (`QuotesAgree`).  `Quoting` adds to it that help is only awaited for texts whose
  quotes are closed, which is what makes a late completion harmless unless the text was edited.
  Where the flag is right, the quote alone is never the command of a render.
* `SuggestionsGuide` (`Guided`), about commands of any length.  `GuideIs` is what is suggested after
  each argument, `RestIsFollowed` that a guided command was guided at each of its places, and
  `FollowedTurns` that, once a setting has its device, pins and values take turns; `PairsAre` reads
  the two lists off from that.

The proofs asked for assumptions that the runs had not: that `None` is neither a set of pins nor
`"ok"`, that `None` and `Torn` are no configurations, that `None` is no number and no pin value,
that there are at least as many request slots as control blocks, that devices, pins, values and
connections are finitely many, that a device has a pin, and that one fetch at least is allowed.

Only model-checked:

* liveness: `RunsEnd`, `ViewConverges`, `CallsSettle`, `LinkRecovers`, `Reappears`,
  `KeepsNotifying`, `RunsFinish`, `LastShows` and `Stops` (TLAPS has no rules for
  fairness here);
* `WritesAll`: Serialized is a recursive operator, for which the provers have no rules;
* `PageStaysUp`, which does not hold (`stranger_page`).

## 5. Not modelled

The contents of static pages, the build and deployment scripts, the text of all messages, layout,
StrictMode, TLS.  Of the OS scripts `getConfig`, `setConfig` and
`HostInfo`, which read or are called by hand; of the lwIP client the download to a file, proxies
and the writing of the request's text; of the SSI the limit of 192 bytes that an answer with more
than five entries exceeds; `traverseObject`, which gives the commands their application.  The copies of the common modules in the
other servers are modelled once.

Relay and IntServer are not composed: Relay takes a view to be the level at the moment it is
sent, IntServer explains how a view comes to differ from it and that it does not last.  The
same holds for the map of pending pins of the page, which is keyed by pin alone, so that two
devices with the same pin numbers share its entries; Relay has one pin for each system.
