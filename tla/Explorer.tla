------------------------------ MODULE Explorer ------------------------------
(***************************************************************************)
(* The command explorer: the page (App.tsx) with its input box, its cache  *)
(* of responses and its completion by Tab, and the server behind it that   *)
(* walks the tree of commands (cmd-runner.ts), with the one command that   *)
(* guides its user through its arguments (device.control.cmd.tree.ts).     *)
(*                                                                         *)
(* A text is a sequence of letters, where one letter stands for the run of *)
(* keys that types one argument, or part of one, and for a single space,   *)
(* quote or new line. Keys are typed at the end of the text. Of a response *)
(* the model keeps which request it answers. The height of the input box,  *)
(* which the page keeps among the responses, is a number, 0.               *)
(***************************************************************************)
EXTENDS Integers, Sequences, FiniteSets, SequencesExt

CONSTANTS Devices, Pins, Values, \* the arguments of the command select
          Partial,               \* what a user types of an argument
          Within, AnyCase,       \* <<partial, name>>: contained, in any case
          SameFirst,             \* <<partial, name>>: the same first letter
          Keys,                  \* bound: keys typed against the suggestions
          Strays,                \* bound: those after which suggestions are followed
          MaxEdited,             \* bound: letters of a text when one is typed
          MaxText,               \* bound: letters of a text
          MaxFetches,            \* bound: commands entered, the first included
          MaxTabs                \* bound: completions awaited at a time

ASSUME ExplorerAssumption ==
  /\ \A b \in {Keys, Strays, MaxEdited, MaxText, MaxFetches, MaxTabs} : b \in Nat
  /\ MaxFetches > 0
  /\ \A S \in {Devices, Pins, Values} : IsFiniteSet(S)
  /\ Within \subseteq AnyCase

VARIABLES
  text,       \* the value of the input box
  quoted,     \* _cache.get(QUOTE): the box takes Tab and Enter as text
  helps,      \* the texts whose help is awaited, by onTabPressed
  shown,      \* suggestionsState
  cmd,        \* commandState
  cache,      \* _cache but for the flag: the responses to each command, in the
              \* array's order, and first among those to cmdHeight perhaps a number
  fetches,    \* the commands fetched: the text, fetchCount captured, state
  count,      \* fetchCount
  screen,     \* the responses that the page shows
  broken,     \* a render has thrown: the page is empty
  up,         \* the integration server runs
  keys,       \* keys typed so far, of those that Keys bounds
  overwrote,  \* history: a completion has replaced a text edited meanwhile
  together    \* history: a command was entered while another was fetched

page == <<cmd, cache, count, screen, broken>>
input == <<text, quoted, keys>>
vars == <<text, quoted, helps, shown, cmd, cache, fetches, count, screen, broken,
          up, keys, overwrote, together>>

-----------------------------------------------------------------------------
(***************************************************************************)
(* Arguments, and the parser of the page                                   *)
(***************************************************************************)
Arg(name, value) == [name |-> name, value |-> value]
Flag(name) == Arg(name, "")
Space == Flag(" ")
Quote == Flag("quote")
NewLine == Flag("newline")
CmdHeight == Flag("cmdHeight")
Pin(p) == Arg("--pin", p)
Val(v) == Arg("--val", v)

Pushed(acc) ==
  IF acc.word = <<>> THEN acc
  ELSE [args |-> Append(acc.args, acc.word), word |-> <<>>, quoted |-> acc.quoted]

Parsed(acc, char) ==
  CASE char = Space /\ ~acc.quoted -> Pushed(acc)
    [] char = Quote ->
         [(IF acc.quoted THEN Pushed(acc) ELSE acc) EXCEPT !.quoted = ~@]
    [] OTHER -> [acc EXCEPT !.word = Append(@, char)]

\* The arguments of a text, each a sequence of letters. The last one is the
\* one being typed, and may be empty; the others never are.
ParseCommand(command) ==
  LET read[n \in 0 .. Len(command)] ==
        IF n = 0 THEN [args |-> <<>>, word |-> <<>>, quoted |-> FALSE]
        ELSE Parsed(read[n - 1], command[n])
      end == read[Len(command)]
  IN  Append(end.args, end.word)

\* args.join(" ").
Joined(args) ==
  LET join(t, word) == IF t = <<>> THEN word ELSE t \o <<Space>> \o word
      joined[n \in 0 .. Len(args)] ==
        IF n = 0 THEN <<>> ELSE join(joined[n - 1], args[n])
  IN  joined[Len(args)]

\* What the server takes a word for: an argument if it is just that.
Word(w) == CASE w = <<>> -> Flag("") [] Len(w) = 1 -> w[1] [] OTHER -> Flag("?")
Args(command) == LET words == ParseCommand(command)
                 IN  [i \in DOMAIN words |-> Word(words[i])]

-----------------------------------------------------------------------------
(***************************************************************************)
(* The server: the tree of commands and its runner                         *)
(***************************************************************************)
None == {Flag("none")}   \* no list: the response is empty

\* mainCmdTree and devMainCmdTree, one command of each kind.
Executors == {<<Flag("ping")>>, <<Flag("dev"), Flag("get"), Flag("all")>>,
              <<Flag("dev"), Flag("ctrl"), Flag("select")>>}
Select == <<Flag("dev"), Flag("ctrl"), Flag("select")>>

\* CmdRunner._getExecutor: the first function on the way down the tree.
Executor(args) == {path \in Executors : IsPrefix(path, args)}
Rest(path, args) == SubSeq(args, Len(path) + 1, Len(args))

\* help of a category: the names below it.
Category(args) ==
  LET below == {path \in Executors : IsStrictPrefix(args, path)}
  IN  IF below = {} THEN None ELSE {path[Len(args) + 1] : path \in below}

\* cmdInclude({ help: true }): of these commands help is left to themselves.
CanBeCalledWithHelp == {Select}

\* Arg.getArgNeedHelp: the argument before help, which comes after args.
ArgNeedHelp(args) == IF args = <<>> THEN Flag(" ") ELSE args[Len(args)]

\* Arg.has, and hasName for a name without a value.
Has(args, name) == Flag(name) \in Range(args)

\* Mutant of Guide: the pins that have been named are suggested again.
Guide_Again(args) ==
  LET last == ArgNeedHelp(args)
  IN  CASE last.name = " "          -> {Arg("--dev-name", d) : d \in Devices}
        [] last.name = "--dev-name" -> {Flag("set"), Flag("get")}
        [] last.name \in {"set", "get", "--val"} -> {Pin(p) : p \in Pins}
        [] last.name = "--pin"      -> {Val(v) : v \in Values}
        [] OTHER                    -> None

\* DeviceControlCmdTree.select called for help after the arguments args.
Guide(args) ==
  LET last == ArgNeedHelp(args)
      set  == Has(args, "set")
      left == {Pin(p) : p \in {q \in Pins : Pin(q) \notin Range(args)}}
  IN  CASE last.name = " "          -> {Arg("--dev-name", d) : d \in Devices}
        [] last.name = "--dev-name" -> {Flag("set"), Flag("get")}
        [] last.name = "set"        -> left
        [] last.name = "--pin"      ->
             IF set THEN {Val(v) : v \in Values} ELSE {Flag("--dry-run")}
        [] last.name = "--val"      ->
             IF set THEN left \cup {Flag("--dry-run")} ELSE None
        [] last.name = "get"        -> left \cup {Flag("--dry-run")}
        [] OTHER                    -> None

\* CmdRunner.run with the arguments args and "help": an executor that cannot
\* be called with help has nothing to suggest.
Help(args) ==
  IF Executor(args) = {} THEN Category(args)
  ELSE IF Executor(args) \subseteq CanBeCalledWithHelp
       THEN Guide(Rest(Select, args)) ELSE {}

\* The values of an option, in their order (Arg.getListValueOf).
ListValueOf(name, args) ==
  LET values[n \in 0 .. Len(args)] ==
        IF n = 0 THEN <<>>
        ELSE IF args[n].name = name THEN Append(values[n - 1], args[n].value)
        ELSE values[n - 1]
  IN  values[Len(args)]

\* The parameters that select sends to the device: for set the i-th pin with the
\* i-th value, "" where there is none, for get the pins.
Params(args) ==
  LET pins == ListValueOf("--pin", args)
      vals == ListValueOf("--val", args)
  IN  [i \in DOMAIN pins |->
         CASE Has(args, "set") ->
                <<pins[i], IF i \in DOMAIN vals THEN vals[i] ELSE "">>
           [] ~Has(args, "set") /\ Has(args, "get") ->
                <<pins[i]>>
           [] OTHER -> <<>>]

\* The command reaches a device.
Requests(args) ==
  /\ IsPrefix(Select, args)
  /\ ~Has(args, "help") /\ ~Has(args, "--dry-run")
  /\ \E d \in Devices : Arg("--dev-name", d) \in Range(args)

-----------------------------------------------------------------------------
(***************************************************************************)
(* The page                                                                *)
(***************************************************************************)
\* getSuggestions, for the partial argument w.
Suggestions(list, w) ==
  LET match(rel) == {a \in list : w = <<a>> \/ <<Word(w).name, a.name>> \in rel}
      first == {a \in list : w = <<a>> \/ <<Word(w).name, a.name>> \in SameFirst}
      passes == <<match(Within) \cap first, match(AnyCase) \cap first,
                  match(AnyCase), list>>
      hits == {i \in DOMAIN passes : passes[i] # {}}
  IN  IF w = <<>> \/ hits = {} THEN list
      ELSE passes[CHOOSE i \in hits : \A j \in hits : i <= j]

Init ==
  /\ text = <<>> /\ quoted = FALSE /\ keys = 0
  /\ helps = <<>> /\ shown = {}
  /\ cmd = <<>> /\ cache = [c \in {} |-> <<>>] /\ count = 0 /\ screen = <<>>
  /\ fetches = <<[cmd |-> <<>>, count |-> 0, state |-> "sent"]>>
  /\ broken = FALSE /\ up = TRUE
  /\ overwrote = FALSE /\ together = FALSE

\* The responses of a command; an array that is empty is not kept.
Responses(ch, c) == IF c \in DOMAIN ch THEN ch[c] ELSE <<>>
With(ch, c, responses) ==
  IF responses = <<>> THEN ch
  ELSE [k \in DOMAIN ch \cup {c} |-> IF k = c THEN responses ELSE ch[k]]

\* Two keys of the cache are no commands: the flag's value is no array, and a
\* number among the responses cannot be split into lines.
Throws(c, ch) == \/ c = <<Quote>>
                 \/ c = <<CmdHeight>> /\ 0 \in Range(Responses(ch, c))

\* App renders with the command c and the cache ch. Screen turns the array
\* round in place, at every render.
Render(c, ch) ==
  /\ cmd' = c
  /\ cache' = With(ch, c, Reverse(Responses(ch, c)))
  /\ IF Throws(c, ch) THEN broken' = TRUE /\ UNCHANGED screen
     ELSE screen' = Responses(cache', c) /\ UNCHANGED broken

\* The box grows by a line. If what comes first is a response, it stays one.
Heightened(ch) ==
  With(ch, <<CmdHeight>>, IF Responses(ch, <<CmdHeight>>) = <<>> THEN <<0>>
                          ELSE Responses(ch, <<CmdHeight>>))

\* The box shrinks by a line, if the key is there: what comes first is a number
\* now, whatever it was.
Lowered(ch) ==
  IF \/ <<CmdHeight>> \in DOMAIN ch
     \/ \E i \in DOMAIN fetches : fetches[i].cmd = <<CmdHeight>>
  THEN LET r == Responses(ch, <<CmdHeight>>)
       IN  With(ch, <<CmdHeight>>, IF r = <<>> THEN <<0>> ELSE [r EXCEPT ![1] = 0])
  ELSE ch

\* A key that is text. Tab in quotes types two spaces and Enter a new line.
Type(c) ==
  /\ ~broken /\ Len(text) < MaxText
  /\ CASE c = NewLine -> quoted
       [] c = Space /\ ~quoted -> text # <<>> /\ Last(text) # Space
       [] OTHER -> TRUE
  /\ (keys < Keys /\ Len(text) < MaxEdited) \/ (c = Space /\ ~quoted)
  /\ keys' = IF c = Space /\ ~quoted THEN keys ELSE keys + 1
  /\ text' = Append(text, c)
  /\ quoted' = (quoted # (c = Quote))
  /\ cache' = IF c = NewLine THEN Heightened(cache) ELSE cache
  /\ UNCHANGED <<cmd, count, screen, broken, helps, shown, fetches, up, overwrote, together>>

\* A suggested argument is typed, where it was suggested for.
Follow(a) ==
  /\ ~broken /\ ~quoted /\ Len(text) < MaxText /\ keys <= Strays
  /\ a \in shown \cap Help(Front(Args(text)))
  /\ Last(ParseCommand(text)) = <<>>
  /\ text' = Append(text, a)
  /\ UNCHANGED <<page, quoted, keys, helps, shown, fetches, up, overwrote, together>>

\* Mutant of Backspace: deleting a quote leaves the flag.
Backspace_Keeps ==
  /\ ~broken /\ keys < Keys /\ text # <<>>
  /\ keys' = keys + 1
  /\ text' = Front(text)
  /\ cache' = IF Last(text) = NewLine THEN Lowered(cache) ELSE cache
  /\ UNCHANGED <<cmd, count, screen, broken, quoted, helps, shown, fetches, up, overwrote,
                 together>>

\* The last letter is deleted. A quote deleted opens or ends the quotes.
Backspace ==
  /\ ~broken /\ keys < Keys /\ text # <<>> /\ Len(text) <= MaxEdited
  /\ keys' = keys + 1
  /\ text' = Front(text)
  /\ quoted' = (quoted # (Last(text) = Quote))
  /\ cache' = IF Last(text) = NewLine THEN Lowered(cache) ELSE cache
  /\ UNCHANGED <<cmd, count, screen, broken, helps, shown, fetches, up, overwrote, together>>

\* Tab outside quotes: getHelp of the arguments before the last.
Tab ==
  /\ ~broken /\ ~quoted /\ up /\ Len(helps) < MaxTabs
  /\ helps' = Append(helps, text)
  /\ UNCHANGED <<page, input, shown, fetches, up, overwrote, together>>

\* The text that a list of suggestions makes of a command.
Completed(command, list) ==
  IF Cardinality(list) = 1
  THEN Joined(Append(Front(ParseCommand(command)), SetToSeq(list)))
  ELSE command

\* The help arrives: onTabPressed goes on, and its result is written into the
\* box, whatever the box holds now. A response without a list rejects it.
HelpAnswers(i) ==
  LET command == helps[i]
      list == Help(Front(Args(command)))
      hints == Suggestions(list, Last(ParseCommand(command)))
  IN  /\ ~broken /\ up
      /\ helps' = RemoveAt(helps, i)
      /\ IF list = None
         THEN UNCHANGED <<page, text, shown, overwrote>>
         ELSE /\ text' = Completed(command, hints)
              /\ shown' = IF Cardinality(hints) = 1 THEN {} ELSE hints
              /\ Render(IF Cardinality(hints) = 1 THEN text' ELSE cmd, cache)
              /\ overwrote' = (overwrote \/ text # command)
              /\ UNCHANGED count
      /\ UNCHANGED <<quoted, keys, fetches, up, together>>

\* fetchData in the effect of a render, with what the effect has captured.
Fetched(command) ==
  Append(fetches, [cmd |-> command, count |-> count,
                   state |-> IF up THEN "sent" ELSE "lost"])

\* onEnterPress. A render that throws has no effects, so nothing is fetched.
Entered(command) ==
  /\ Render(command, cache)
  /\ IF Throws(command, cache) THEN UNCHANGED <<fetches, together>>
     ELSE /\ fetches' = Fetched(command)
          /\ together' = (together \/ \E i \in DOMAIN fetches : fetches[i].state = "sent")
  /\ UNCHANGED count

\* Enter outside quotes. The box keeps its text.
Enter ==
  /\ ~broken /\ ~quoted /\ Len(fetches) < MaxFetches
  /\ Entered(text)
  /\ UNCHANGED <<input, helps, shown, up, overwrote>>

\* Mutant of Answer: the answer goes to the command of the latest render.
Answer_Current(i) ==
  LET filed == With(cache, cmd, Append(Responses(cache, cmd), i))
  IN  /\ ~broken /\ up /\ fetches[i].state = "sent"
      /\ fetches' = [fetches EXCEPT ![i].state = "answered"]
      /\ count' = fetches[i].count + 1
      /\ Render(cmd, filed)
      /\ UNCHANGED <<input, helps, shown, up, overwrote, together>>

\* Mutant of Answer: the count does not go up, so that nothing renders.
Answer_Silent(i) ==
  LET f == fetches[i]
  IN  /\ ~broken /\ up /\ f.state = "sent"
      /\ fetches' = [fetches EXCEPT ![i].state = "answered"]
      /\ cache' = With(cache, f.cmd, Append(Responses(cache, f.cmd), i))
      /\ UNCHANGED <<cmd, count, screen, broken>>
      /\ UNCHANGED <<input, helps, shown, up, overwrote, together>>

\* The answer of fetch i is pushed to the responses that its effect captured.
\* A count that is that of another answer changes no state: nothing renders.
Answer(i) ==
  LET f == fetches[i]
      filed == With(cache, f.cmd, Append(Responses(cache, f.cmd), i))
  IN  /\ ~broken /\ up /\ f.state = "sent"
      /\ fetches' = [fetches EXCEPT ![i].state = "answered"]
      /\ count' = f.count + 1
      /\ IF count' # count THEN Render(cmd, filed)
         ELSE cache' = filed /\ UNCHANGED <<cmd, screen, broken>>
      /\ UNCHANGED <<input, helps, shown, up, overwrote, together>>

\* The device of a command refuses the connection: the rejection is nobody's
\* (device.common.cmd.tree.ts:30) and ends the process. If the listener of another
\* request takes it (HttpClient) the fetch is just never answered.
Refused(i) ==
  /\ ~broken /\ up /\ fetches[i].state = "sent"
  /\ Requests(Args(fetches[i].cmd))
  /\ up' = FALSE
  /\ fetches' = [k \in DOMAIN fetches |->
                   IF fetches[k].state = "sent"
                   THEN [fetches[k] EXCEPT !.state = "lost"] ELSE fetches[k]]
  /\ helps' = <<>>
  /\ UNCHANGED <<page, input, shown, overwrote, together>>

Next ==
  \/ \E c \in {Space, Quote, NewLine} \cup {Flag(p) : p \in Partial} : Type(c)
  \/ \E a \in shown : Follow(a)
  \/ Backspace \/ Tab \/ Enter
  \/ \E i \in DOMAIN helps : HelpAnswers(i)
  \/ \E i \in DOMAIN fetches : Answer(i) \/ Refused(i)

Spec == Init /\ [][Next]_vars

-----------------------------------------------------------------------------
(***************************************************************************)
(* Properties                                                              *)
(***************************************************************************)
\* Type correctness.
TypeOK ==
  /\ keys \in 0 .. Keys
  /\ quoted \in BOOLEAN /\ broken \in BOOLEAN /\ up \in BOOLEAN
  /\ overwrote \in BOOLEAN /\ together \in BOOLEAN
  /\ Len(helps) <= MaxTabs /\ Len(fetches) \in 1 .. MaxFetches
  /\ count \in 0 .. MaxFetches
  /\ \A i \in DOMAIN fetches : /\ fetches[i].state \in {"sent", "answered", "lost"}
                               /\ fetches[i].count \in 0 .. MaxFetches
  /\ \A c \in DOMAIN cache : Range(cache[c]) \subseteq DOMAIN fetches \cup {0}

\* Every answer is filed once, under the command that asked for it, whatever
\* was entered or completed meanwhile (App.tsx:96, 103). One to cmdHeight may be
\* overwritten by the height of the box (App.tsx:181).
Filed ==
  /\ TypeOK
  /\ \A i \in DOMAIN fetches :
       \A c \in DOMAIN cache \cup {fetches[i].cmd} :
         Cardinality({k \in DOMAIN Responses(cache, c) : Responses(cache, c)[k] = i})
           \in IF fetches[i].state = "answered" /\ fetches[i].cmd = c
              THEN IF c = <<CmdHeight>> THEN {0, 1} ELSE {1}
              ELSE {0}

\* The page shows every response it has to its command, as long as no command
\* was entered while another was being fetched (App.tsx:104: two of them set
\* the same count, and the second answer is not shown).
ScreenCurrent ==
  ~together => broken \/ cmd = <<CmdHeight>> \/ screen = Responses(cache, cmd)

\* The flag agrees with the quotes of the text, and the page stays up unless its
\* command is cmdHeight, the key under which it keeps a number (App.tsx:179-196).
\* This is so until a completion comes late and replaces what was typed
\* (App.tsx:222): then the quote alone may be entered, whose entry in the cache
\* is the flag (App.tsx:96).
QuotesAgree ==
  \/ overwrote
  \/ /\ quoted = (Cardinality({i \in DOMAIN text : text[i] = Quote}) % 2 = 1)
     /\ broken => cmd = <<CmdHeight>>

\* Every argument is one that was suggested for those before it.
Suggested(args) == \A i \in DOMAIN args : args[i] \in Help(SubSeq(args, 1, i - 1))

\* A command whose every argument was suggested for the ones before it names
\* each pin once and pairs it with the value that follows it, although select
\* collects pins and values apart (device.control.cmd.tree.ts:38).
Guided ==
  LET args == Args(text)
      given == Rest(Select, args)
  IN  (IsPrefix(Select, args) /\ Suggested(args)) =>
        /\ IsInjective(ListValueOf("--pin", given))
        /\ \A i \in DOMAIN given :
             given[i].name = "--val" =>
               <<given[i - 1].value, given[i].value>> \in Range(Params(given))
=============================================================================
