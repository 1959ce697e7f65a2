------------------------------ MODULE Switches ------------------------------
(***************************************************************************)
(* The home page as React renders it: servers, their devices and the       *)
(* switches of their pins (Servers.tsx, Server.tsx, Device.tsx).  React    *)
(* keeps the state of a switch by its position, because the keys are       *)
(* indices: when servers or devices come and go it passes from one pin to  *)
(* another, and the code that runs in the render has to put it right.      *)
(* That code calls setters, after each of which React renders once more,   *)
(* and gives up when that goes on.                                         *)
(***************************************************************************)
EXTENDS Integers, Sequences, FiniteSets, SequencesExt

CONSTANTS System, Mac, Pin,
          DevsOf,      \* the devices of each server
          PinsOf,      \* device.db.json: the pins of each device, in order
          Name,        \* device.db.json: displayName, as its place in the alphabet
          Batch        \* bound: calls of setServers between two renders

ASSUME SwitchesAssumption ==
  /\ DevsOf \in [System -> SUBSET Mac] /\ IsFiniteSet(Mac)
  /\ PinsOf \in [Mac -> Seq(Pin) \ {<<>>}]
  /\ Name \in [Mac -> Nat] /\ IsInjective(Name) /\ Batch \in Nat \ {0}

VARIABLES
  servers,   \* serversBuf, in its order, and the state made of it
  dirty,     \* how often setServers was called since the last render
  props,     \* the props of the switches, by position
  state,     \* the React state of the switches, by position
  buf,       \* pinStateBuf: the level of each pin number when last rendered, if any
  blank      \* a render has thrown: the page is empty

pageVars == <<servers, dirty, props, state, buf, blank>>

-----------------------------------------------------------------------------
(***************************************************************************)
(* Rendering                                                               *)
(***************************************************************************)
\* Mutant of Sorted: the devices stay as the pulse lists them.
Sorted_Not(devices) == devices

\* The names of the devices ascend.
Ordered(devices) ==
  \A i, j \in DOMAIN devices : i < j => Name[devices[i]] < Name[devices[j]]

\* Server sorts its array of devices by name, in place.
Sorted(devices) ==
  CHOOSE d \in [1 .. Cardinality(Range(devices)) -> Range(devices)] : Ordered(d)

\* A Pin that is mounted.
Mounted(p) == [checked |-> p.on, disabled |-> p.off]

\* What useState holds in a call of Pin that sets nothing.
Steady(p, s) == s.checked = p.on /\ s.disabled = p.off

\* Mutant of Pass: a switch that is disabled stays so until its level changes.
Pass_Stays(p, s) ==
  [checked  |-> p.on,
   disabled |-> (~s.disabled /\ p.off) \/ (s.disabled /\ p.on = s.checked)]

\* One call of Pin with the props p and the state s.
Pass(p, s) ==
  [checked  |-> p.on,
   disabled |-> p.off /\ (s.disabled => p.on = s.checked)]

\* React calls Pin again while it sets state, Limit times at most.
Limit == 25
Settled(p, s) ==
  LET again(t) == IF Steady(p, t) THEN t ELSE Pass(p, t)
      call[n \in 0 .. Limit] == IF n = 0 THEN s ELSE again(call[n - 1])
  IN  call[Limit]

\* The level of each pin of device m of the server e: a pin without a state is
\* shown as one that is off.
Levels(e, m) == [p \in Range(PinsOf[m]) |-> <<m, p>> \in e.high]

\* One call of Device with those levels: it looks for those that differ from the
\* last one rendered for a pin of that number, of whichever device.
DevicePass(on, b) ==
  [buf   |-> [p \in DOMAIN b |-> IF p \in DOMAIN on THEN {on[p]} ELSE b[p]],
   again |-> \E p \in DOMAIN on : b[p] # {on[p]}]

\* The devices rendered one after another: pinStateBuf, and whether one of them
\* never stops setting state.
Rendered(levels, b) ==
  LET device(acc, on) ==
        LET once == DevicePass(on, acc.buf)
        IN  [buf   |-> once.buf,
             stuck |-> acc.stuck \/ (once.again /\ DevicePass(on, once.buf).again)]
      done[n \in 0 .. Len(levels)] ==
        IF n = 0 THEN [buf |-> b, stuck |-> FALSE] ELSE device(done[n - 1], levels[n])
  IN  done[Len(levels)]

\* The positions of the switches: server, device, pin.
Positions(list) ==
  UNION {UNION {{<<i, j, k>> : k \in DOMAIN PinsOf[list[i].devices[j]]} :
                  j \in DOMAIN list[i].devices} : i \in DOMAIN list}

\* The props of the switch at a position.
Props(list, x) ==
  LET e == list[x[1]]
      m == e.devices[x[2]]
      p == PinsOf[m][x[3]]
  IN  [mac |-> m, pin |-> p, on |-> <<m, p>> \in e.high, off |-> m \notin e.online]

-----------------------------------------------------------------------------
(***************************************************************************)
(* The page                                                                *)
(***************************************************************************)
PageInit ==
  /\ servers = <<>> /\ dirty = 0 /\ blank = FALSE
  /\ props = <<>> /\ state = <<>>
  /\ buf = [p \in Pin |-> {}]

\* What a pulse can tell: the devices in some order, which of them are online and
\* which of their pins are on.
Pulses ==
  UNION {UNION {
    [name : {s}, devices : {devices}, online : SUBSET Range(devices),
     high : SUBSET UNION {{m} \X Range(PinsOf[m]) : m \in Range(devices)}]
    : devices \in SetToAllKPermutations(DevsOf[s])} : s \in System}

At(s) == {i \in DOMAIN servers : servers[i].name = s}

\* serverIsActiveHandler: Map.set keeps the place of a server that is there.
Put(pulse) ==
  IF At(pulse.name) = {} THEN Append(servers, pulse)
  ELSE [servers EXCEPT ![CHOOSE i \in At(pulse.name) : TRUE] = pulse]

\* pulseMainHandler, and the handler it calls.
PulseArrives(pulse) ==
  /\ ~blank /\ dirty < Batch
  /\ servers' = Put(pulse)
  /\ dirty' = dirty + 1
  /\ UNCHANGED <<props, state, buf, blank>>

\* serverIsOfflineHandler.
GoesOffline(s) ==
  /\ ~blank /\ dirty < Batch /\ At(s) # {}
  /\ servers' = RemoveAt(servers, CHOOSE i \in At(s) : TRUE)
  /\ dirty' = dirty + 1
  /\ UNCHANGED <<props, state, buf, blank>>

\* React renders the state set last. A switch keeps the state of its position,
\* and what throws while it renders leaves an empty page.
Switch(list, x) ==
  LET p == Props(list, x)
  IN  Settled(p, IF x \in DOMAIN state THEN state[x] ELSE Mounted(p))

AllLevels(list) ==
  LET of(e) == [j \in DOMAIN e.devices |-> Levels(e, e.devices[j])]
      all[n \in 0 .. Len(list)] ==
        IF n = 0 THEN <<>> ELSE all[n - 1] \o of(list[n])
  IN  all[Len(list)]

Throws(list) ==
  \/ Rendered(AllLevels(list), buf).stuck
  \/ \E x \in Positions(list) : ~Steady(Props(list, x), Switch(list, x))

Render ==
  /\ dirty > 0 /\ ~blank
  /\ dirty' = 0
  /\ servers' = [i \in DOMAIN servers |-> [servers[i] EXCEPT !.devices = Sorted(@)]]
  /\ buf' = Rendered(AllLevels(servers'), buf).buf
  /\ blank' = Throws(servers')
  /\ LET places == IF blank' THEN {} ELSE Positions(servers')
     IN  /\ props' = [x \in places |-> Props(servers', x)]
         /\ state' = [x \in places |-> Switch(servers', x)]

\* handleChange disables the switch, and Pin is called with that.  The command
\* it sends goes its own way (Relay).
Click(x) ==
  LET next == Settled(props[x], [state[x] EXCEPT !.disabled = TRUE])
  IN  /\ ~blank /\ ~state[x].disabled
      /\ blank' = ~Steady(props[x], next)
      /\ state' = [state EXCEPT ![x] = next]
      /\ UNCHANGED <<servers, dirty, props, buf>>

PageNext ==
  \/ \E pulse \in Pulses : PulseArrives(pulse)
  \/ \E s \in System : GoesOffline(s)
  \/ Render
  \/ \E x \in DOMAIN state : Click(x)

PageSpec == PageInit /\ [][PageNext]_pageVars

-----------------------------------------------------------------------------
(***************************************************************************)
(* Properties                                                              *)
(***************************************************************************)
\* Types: the page never gives up rendering, and the switches on the page are
\* those of the servers it knows, once it has rendered.
PageTypeOK ==
  /\ dirty \in 0 .. Batch /\ ~blank
  /\ IsInjective([i \in DOMAIN servers |-> servers[i].name])
  /\ \A i \in DOMAIN servers :
       /\ servers[i].name \in System /\ IsInjective(servers[i].devices)
       /\ Range(servers[i].devices) \subseteq DevsOf[servers[i].name]
  /\ DOMAIN buf = Pin /\ Range(buf) \subseteq {{}, {TRUE}, {FALSE}}

\* A switch shows the level its pin had in the view rendered last, and it can be
\* used exactly if the device was online in it, whatever switch was at its place
\* before and was clicked there (Device.tsx:83-97, key={i}).
SwitchesTrue ==
  /\ PageTypeOK
  /\ DOMAIN state = DOMAIN props
  /\ \A x \in DOMAIN props : Steady(props[x], state[x])
  /\ dirty = 0 => props = [x \in Positions(servers) |-> Props(servers, x)]

\* The pins on the page, of a server at a place.
Listed(i) == {<<props[x].mac, props[x].pin>> : x \in {y \in DOMAIN props : y[1] = i}}

\* As long as a place has the same pins no switch moves, in whatever order the
\* pulses list the devices: a click does not hit another one (Server.tsx:9).
PlacesKept ==
  [][\A x \in DOMAIN props \cap DOMAIN props' :
       Listed(x[1])' = Listed(x[1]) =>
         props'[x].mac = props[x].mac /\ props'[x].pin = props[x].pin]_pageVars
=============================================================================
