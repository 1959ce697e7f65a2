---------------------------- MODULE ScriptResults ----------------------------
(***************************************************************************)
(* What becomes of the output of a shell script.  Six programs hand it on  *)
(* as JSON, each with its own idea of what is missing or wrong: the shell  *)
(* script, the node script around it (scripts-lib.js), the OS server       *)
(* (os.module.ts), the integration server, and then a home page, for the   *)
(* temperature of the pulse, or the command explorer, for a command.       *)
(*                                                                         *)
(* A JavaScript value is a tuple that begins with its type.  A text is     *)
(* JSON for a value, blank, empty, or neither.                             *)
(***************************************************************************)
EXTENDS Integers, Sequences

CONSTANT Temps   \* the temperatures that sensors reads

-----------------------------------------------------------------------------
(***************************************************************************)
(* Values and texts                                                        *)
(***************************************************************************)
Undefined == <<"undefined">>
Null == <<"null">>
NaN == <<"NaN">>
Thrown == <<"thrown">>
Num(t) == <<"number", t>>
List(items) == <<"list", items>>
Obj(f) == <<"object", f>>
NoKeys == Obj([k \in {} |-> Null])

Json(v) == <<"json", v>>
Other == <<"other">>   \* neither JSON nor blank
Blank == <<"blank">>   \* a new line
Empty == <<"empty">>
Str(text) == <<"string", text>>

\* v[key]
Get(v, key) ==
  IF v \in {Undefined, Null, Thrown} THEN Thrown
  ELSE IF v[1] = "object" /\ key \in DOMAIN v[2] THEN v[2][key] ELSE Undefined

Truthy(v) == v \notin {Undefined, Null, NaN, Str(Empty)}

\* v && v[key]
Then(v, key) == IF Truthy(v) THEN Get(v, key) ELSE v

\* Number(v), of what the programs call it with.
Number(v) == IF v = Null THEN Num(0) ELSE IF v[1] = "number" THEN v ELSE NaN

\* JSON.stringify of a property, and JSON.parse of it.
Sent(v) == IF v = NaN THEN Null ELSE v

\* JSON.parse
Parse(text) == IF text[1] = "json" THEN text[2] ELSE Thrown

-----------------------------------------------------------------------------
(***************************************************************************)
(* The shell script, and the node script that runs it                      *)
(***************************************************************************)
Sensors(t) == Obj([cpu |-> Obj([temp1 |-> Obj([temp1_input |-> Num(t)])])])
Failed == <<"failed">>   \* the shell script exits with an error

\* cpu-temperature.sh: what sensors says, which may lack the chip, or nothing,
\* in an object that is no JSON then.
CpuOutputs ==
  {Json(Obj([value |-> v])) : v \in {Sensors(t) : t \in Temps} \cup {NoKeys}}
    \cup {Other, Failed}

\* fake-list.sh, and nmcli-if-list.sh, which prints a line, if only a blank one.
Outputs(script) ==
  CASE script = "cpu-temperature.js"  -> CpuOutputs
    [] script = "fake-script.js"      -> {Json(List(<<1, 2, 3>>)), Failed}
    [] script = "net-list-devices.js" -> {Other, Blank, Failed}

\* Cmd.parseData
ParseData(text) ==
  CASE text = Empty -> Undefined
    [] text = Blank -> Obj([obj |-> NoKeys, raw |-> Str(Empty)])
    [] text = Other -> Obj([obj |-> NoKeys, raw |-> Str(text)])
    [] text[1] = "json" -> Obj([obj |-> Parse(text), raw |-> Str(text)])

\* Machine.getCpuTemperature
GetCpuTemperature(out) == Get(Get(ParseData(out), "obj"), "value")

\* _parse_dev_list: the lines that are not empty.
Lines(raw) == List(IF raw = Str(Empty) THEN <<>> ELSE <<"row">>)

\* NetworkManager.listDevices
ListDevices(out) == Lines(Get(ParseData(out), "raw"))

\* What the script's function resolves with, if the shell script has not failed.
Returned(script, out) ==
  IF out = Failed THEN Thrown
  ELSE CASE script = "cpu-temperature.js"  -> GetCpuTemperature(out)
         [] script = "fake-script.js"      -> ParseData(out)
         [] script = "net-list-devices.js" -> ListDevices(out)

\* JSON.stringify and console.log: "undefined" is no JSON. An error is printed on
\* stderr, and the exit status is 0 nevertheless.
Printed(script, out) ==
  LET v == Returned(script, out)
  IN  IF v = Thrown THEN Empty ELSE IF v = Undefined THEN Other ELSE Json(v)

-----------------------------------------------------------------------------
(***************************************************************************)
(* The pulse of the OS server                                              *)
(***************************************************************************)
\* Mutant of ParseScriptResponse: JSON.parse in no try.
ParseScriptResponse_Bare(stdout) ==
  IF Truthy(Then(Parse(stdout), "obj")) THEN Get(Parse(stdout), "obj") ELSE Parse(stdout)

\* parseScriptResponse: obj.
ParseScriptResponse(stdout) ==
  LET parsed == Parse(stdout)
  IN  IF parsed = Thrown THEN NoKeys
      ELSE IF Truthy(Then(parsed, "obj")) THEN Get(parsed, "obj") ELSE parsed

\* getCpuTemp: obj may be null, but its properties need not be there.
GetCpuTemp(stdout) ==
  LET chip == Get(ParseScriptResponse(stdout), "cpu")
  IN  IF chip = Thrown THEN Thrown ELSE Number(Then(Then(chip, "temp1"), "temp1_input"))

\* What the page holds of the temperature t that the pulse tells: JSON has no NaN,
\* and the page makes a number of what it gets.
Shown(t) == Number(Sent(t))

-----------------------------------------------------------------------------
(***************************************************************************)
(* Commands: the OS server hands on the text, or an empty one if the node  *)
(* script failed.                                                          *)
(***************************************************************************)
\* sys fake runFakeScript, sys net listDevices, sys res cpuTemperature.
Scripts == {"fake-script.js", "net-list-devices.js", "cpu-temperature.js"}

\* Mutant of Body: what is no JSON is answered as it is, as if it were a result.
Body_Raw(stdout) == stdout

\* SysWsUtil.parseScriptResponse, cmdCtrl and serializeObject: an error is logged,
\* and the body is empty.
Body(stdout) == IF Parse(stdout) = Thrown THEN Empty ELSE Json(Parse(stdout))

-----------------------------------------------------------------------------
(***************************************************************************)
(* Properties                                                              *)
(***************************************************************************)
\* The temperature that an output of the shell script tells.
Told(out) == {t \in Temps : out = Json(Obj([value |-> Sensors(t)]))}

\* Whatever the shell script prints, and even if it fails, making the pulse throws
\* nothing, which would end the loop of the pulses (os.module.ts:84); and a page
\* holds the temperature told, or 0 if there is none (ws-service.ts:148).
TemperatureTold ==
  \A out \in CpuOutputs :
    LET t == GetCpuTemp(Printed("cpu-temperature.js", out))
    IN  /\ t # Thrown
        /\ IF Told(out) = {} THEN Shown(t) = Num(0)
           ELSE \E told \in Told(out) : Shown(t) = Num(told)

\* What a command whose shell script printed out should be answered with.
Due(script, out) ==
  IF out = Failed THEN Empty
  ELSE CASE script = "fake-script.js" -> Json(Obj([obj |-> out[2], raw |-> Str(out)]))
         [] script = "net-list-devices.js" ->
              Json(List(IF out = Blank THEN <<>> ELSE <<"row">>))
         [] script = "cpu-temperature.js" ->
              IF out = Other THEN Empty ELSE Json(out[2][2].value)

\* A command is answered with what its shell script told, through the four programs
\* that hand it on, and with nothing if that failed (sys.ws.util.ts:14).
CommandTells ==
  \A s \in Scripts : \A out \in Outputs(s) : Body(Printed(s, out)) = Due(s, out)
=============================================================================
