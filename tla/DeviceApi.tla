----------------------------- MODULE DeviceApi ------------------------------
(***************************************************************************)
(* The request API of a device: that of the Pico W (cgi.cpp, ssi.cpp,      *)
(* ApiHandler.cpp) with its connections and static buffers, and that of    *)
(* the virtual device (device-control.module.ts) that stands in for it.    *)
(*                                                                         *)
(* The integration server writes a query string (device.module.ts), the    *)
(* device acts on its parameters and answers with the states of the pins.  *)
(* Of an entry of an answer the model keeps the pin and its sta, which is  *)
(* all that a page shows.                                                  *)
(***************************************************************************)
EXTENDS Integers, Sequences, FiniteSets, FiniteSetsExt

CONSTANTS Conn,       \* connections of httpd
          Pin,        \* pins of the device in device.db.json
          MaxParams,  \* size of the arrays pins and vals
          Leds,       \* GPIO 2 to 5, as LED1 to LED4
          None

ASSUME DeviceApiAssumption ==
  /\ Pin \subseteq 1 .. 9
  /\ Leds \subseteq Pin
  /\ MaxParams \in Nat /\ 2 * Cardinality(Pin) <= MaxParams
  /\ None \notin Int /\ \A S \in SUBSET Pin : None # S

VARIABLES
  level,     \* the output level of each pin
  pins,      \* pins and vals of handleRequestParams: None, or the value asked for
  response,  \* _response: the level of each pin that it tells
  asked,     \* for each connection the pins of its request, None if it is idle
  alone,     \* history: no other request was handled since that of the connection
  seen       \* history: the levels that each pin had since then

vars == <<level, pins, response, asked, alone, seen>>

Level == {0, 1}

\* What a string of parameters tells is a function from some pins to levels.
Partial(S, T) == UNION {[D -> T] : D \in SUBSET S}

Init == /\ level = [p \in Pin |-> 0]
        /\ pins = [p \in Pin |-> None]
        /\ response = <<>>
        /\ asked = [c \in Conn |-> None]
        /\ alone = [c \in Conn |-> TRUE]
        /\ seen = [c \in Conn |-> [p \in Pin |-> {}]]

-----------------------------------------------------------------------------
(***************************************************************************)
(* Query strings of the integration server                                 *)
(***************************************************************************)
Param(name, value) == [name |-> name, value |-> value]

\* Device.setState: pin and val of each state in turn.
SetQuery(states) ==
  [i \in 1 .. 2 * Len(states) |->
     IF i % 2 = 1 THEN Param("pin", states[(i + 1) \div 2].pin)
                  ELSE Param("val", states[i \div 2].val)]

\* Device.queryState: the pins alone.
PinQuery(ps) == [i \in 1 .. Len(ps) |-> Param("pin", ps[i])]

Tuples(S) == UNION {[1 .. n -> S] : n \in 1 .. Cardinality(Pin)}

Queries == {SetQuery(s) : s \in Tuples([pin : Pin, val : Level])}
           \cup {PinQuery(ps) : ps \in Tuples(Pin)}

\* Device.setState and queryState: the last entry for a pin is the one that counts.
Read(entries) ==
  [p \in {entries[i].pin : i \in DOMAIN entries} |->
     entries[Max({i \in DOMAIN entries : entries[i].pin = p})].sta]

-----------------------------------------------------------------------------
(***************************************************************************)
(* The virtual device                                                      *)
(***************************************************************************)
\* The n-th of a set of positions.
Nth(S, n) == CHOOSE i \in S : Cardinality({k \in S : k <= i}) = n

\* The values of all parameters of a name, in their order.
Values(params, name) ==
  LET at == {i \in DOMAIN params : params[i].name = name}
  IN  [n \in 1 .. Cardinality(at) |-> params[Nth(at, n)].value]

\* Mutant of Paired: values taken in reverse order.
Paired_Reverse(params) ==
  LET ps == Values(params, "pin") vs == Values(params, "val")
  IN  [i \in 1 .. Len(ps) |->
        [pin |-> ps[i], val |-> IF i <= Len(vs) THEN vs[Len(vs) + 1 - i] ELSE None]]

\* _getControlParams: the i-th val belongs to the i-th pin.
Paired(params) ==
  LET ps == Values(params, "pin") vs == Values(params, "val")
  IN  [i \in 1 .. Len(ps) |->
        [pin |-> ps[i], val |-> IF i <= Len(vs) THEN vs[i] ELSE None]]

\* setState, or getState if there is no val.
SetState(lev, s) ==
  IF s.val = None THEN lev ELSE [lev EXCEPT ![s.pin] = IF s.val > 0 THEN 1 ELSE 0]

\* pin_ctrl: one state after the other; each answer is that of its own moment.
VirtualLevels(lev, params) ==
  LET states == Paired(params)
      after[i \in 0 .. Len(states)] ==
        IF i = 0 THEN lev ELSE SetState(after[i - 1], states[i])
  IN  after

VirtualAnswer(lev, params) ==
  LET states == Paired(params)
  IN  [i \in 1 .. Len(states) |->
        [pin |-> states[i].pin,
         sta |-> VirtualLevels(lev, params)[i][states[i].pin]]]

-----------------------------------------------------------------------------
(***************************************************************************)
(* The Pico W                                                              *)
(***************************************************************************)
\* Mutant of Reset: static arrays that keep the pins of earlier requests.
Reset_Nothing(marks) == marks

Reset(marks) == [p \in Pin |-> None]

\* The value for a pin is the parameter right behind it; -1 only asks for its state.
\* Behind the last parameter lwIP has none.
ValueAt(params, i) ==
  IF i < MaxParams /\ i < Len(params) /\ params[i + 1].name = "val"
  THEN params[i + 1].value ELSE -1

\* The first loop of handleRequestParams over the parameters.
Marked(marks, params) ==
  LET at(p) == {i \in 1 .. Len(params) :
                  i <= MaxParams /\ params[i] = Param("pin", p)}
  IN  [p \in Pin |-> IF at(p) = {} THEN marks[p] ELSE ValueAt(params, Max(at(p)))]

\* gpio: a value is put, then the level read.
Put(lev, marks) ==
  [p \in Pin |-> IF marks[p] = None \/ marks[p] < 0 THEN lev[p]
                 ELSE IF marks[p] = 0 THEN 0 ELSE 1]

Told(lev, marks) == [p \in {q \in Pin : marks[q] # None} |-> lev[p]]

\* History: what the connections under way see of a handler that leaves lev.
Watch(c, lev) ==
  /\ alone' = [d \in Conn |-> d = c]
  /\ seen' = [d \in Conn |-> [p \in Pin |-> (IF d = c THEN {} ELSE seen[d][p]) \cup {lev[p]}]]

\* _apiCgiHandler: handleRequestParams, whose result is kept in _response until the
\* tag of response.json is replaced by it.
Api(c) ==
  /\ asked[c] = None
  /\ \E params \in Queries :
       LET marks == Marked(Reset(pins), params)
           lev   == Put(level, marks)
       IN  /\ pins' = marks
           /\ level' = lev
           /\ response' = Told(lev, marks)
           /\ asked' = [asked EXCEPT ![c] = {params[i].value : i \in
                          {j \in DOMAIN params : params[j].name = "pin"}}]
           /\ Watch(c, lev)

\* cgi_handler_basic and cgi_handler_extended: all LEDs off, then some on.
LedForm(c) ==
  /\ asked[c] = None
  /\ \E on \in SUBSET Leds :
       LET lev == [p \in Pin |-> IF p \notin Leds THEN level[p]
                                 ELSE IF p \in on THEN 1 ELSE 0]
       IN  /\ level' = lev
           /\ asked' = [asked EXCEPT ![c] = {}]
           /\ Watch(c, lev)
  /\ UNCHANGED <<pins, response>>

Idle(c) == /\ asked' = [asked EXCEPT ![c] = None]
           /\ UNCHANGED <<level, pins, response, alone, seen>>

\* Mutant of Inserted: the tag is replaced by what the arrays say at this time.
Inserted_Pins == [p \in {q \in Pin : pins[q] # None} |-> IF pins[p] > 0 THEN 1 ELSE 0]

\* ssi_handler, tag json.  httpd calls it when it comes to the tag: in the call that
\* ran the handler, or, if that could not send all, after other requests.
Inserted == response

SsiJson(c) == asked[c] \notin {None, {}} /\ Idle(c)

\* ssi_handler, tags state1 to bg4: the level at the time the page is sent.
Shown == [p \in Leds |-> level[p]]

SsiPage(c) == asked[c] = {} /\ Idle(c)

\* The client gives up.
Aborted(c) == asked[c] # None /\ Idle(c)

\* cgi_init, ssi_init: the device was switched off and on.
Boots == /\ level' = [p \in Pin |-> 0]
         /\ pins' = [p \in Pin |-> None]
         /\ response' = <<>>
         /\ asked' = [c \in Conn |-> None]
         /\ alone' = [c \in Conn |-> TRUE]
         /\ seen' = [c \in Conn |-> [p \in Pin |-> {}]]

Next == \/ Boots
        \/ \E c \in Conn : Api(c) \/ LedForm(c) \/ SsiJson(c) \/ SsiPage(c) \/ Aborted(c)

Spec == Init /\ [][Next]_vars

-----------------------------------------------------------------------------
(***************************************************************************)
(* Properties                                                              *)
(***************************************************************************)
\* Type correctness.
TypeOK ==
  /\ level \in [Pin -> Level]
  /\ pins \in [Pin -> Level \cup {-1, None}]
  /\ response \in Partial(Pin, Level)
  /\ asked \in [Conn -> {None} \cup SUBSET Pin]
  /\ alone \in [Conn -> BOOLEAN]
  /\ seen \in [Conn -> [Pin -> SUBSET Level]]

\* The response buffer is shared by all connections, so an answer may be that to
\* another request.  Still all that it says is true: each level it tells is one
\* that the pin had between the request and the answer, and so is a form's page.
AnswersTrue ==
  /\ TypeOK
  /\ \A c \in Conn :
       /\ asked[c] \notin {None, {}} =>
            \A p \in DOMAIN Inserted : Inserted[p] \in seen[c][p]
       /\ asked[c] = {} => \A p \in Leds : Shown[p] \in seen[c][p]

\* A request that no other one overlaps is answered for the pins that it named and
\* for these only: nothing of an earlier request is left in the static buffers.
OwnAnswer ==
  \A c \in Conn : asked[c] \notin {None, {}} /\ alone[c] => DOMAIN Inserted = asked[c]

\* Whatever levels the pins have, the virtual device and the Pico W do the same with
\* a query of the integration server, and it reads the same from their answers,
\* though one pairs pins and values by position and the other by adjacency.
Interchangeable ==
  \A params \in Queries :
    LET marks == Marked(Reset(pins), params)
        lev   == Put(level, marks)
    IN  /\ lev = VirtualLevels(level, params)[Len(Paired(params))]
        /\ \A p \in DOMAIN Told(lev, marks) :
             Read(VirtualAnswer(level, params))[p] = lev[p]
        /\ DOMAIN Told(lev, marks) = DOMAIN Read(VirtualAnswer(level, params))
=============================================================================
