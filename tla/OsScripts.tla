----------------------------- MODULE OsScripts ------------------------------
(***************************************************************************)
(* The scripts of the OS server that configure the network (os/scripts):   *)
(* wifi-add-init-conn.js and the class Netplan change netplan's file and   *)
(* have it applied, hotspot.js switches the hotspot, wifi-scan.js lists    *)
(* the networks in reach.                                                  *)
(*                                                                         *)
(* Each run of a script is a process of its own.  Runs may overlap, and    *)
(* one may be killed at any time; nothing but the file relates them.       *)
(***************************************************************************)
EXTENDS Naturals, Sequences, FiniteSets

CONSTANTS Job,      \* runs of scripts
          SSID,     \* network names
          Default,  \* DEFAULT_WIFI_SSID
          Pass,     \* passwords of networks, of at least four characters
          Sudo,     \* what SUDO_PASSWORD may be: "right", "wrong", "unset"
          Runs,     \* bound on runs
          Kills,    \* bound on runs killed
          MaxName,  \* bound on the length of a name that is scanned
          Torn,     \* a file that does not parse to a configuration
          None

ASSUME OsScriptsAssumption ==
  /\ Default \in SSID /\ Pass # {}
  /\ Sudo \subseteq {"right", "wrong", "unset"}
  /\ {Runs, Kills, MaxName} \subseteq Nat
  /\ None \notin Pass /\ Torn # None
  /\ {None, Torn} \cap UNION {[S -> Pass] : S \in SUBSET SSID} = {}

VARIABLES
  file,     \* access points in /etc/netplan/50-cloud-init.yaml, or Torn
  applied,  \* those of the file as netplan applied it last
  hotspot,  \* whether the hotspot is up
  job,      \* the runs under way
  scan,     \* last network scanned, and its row of the list
  last,     \* history: the last configuration that the file held
  clash,    \* history: runs that overlapped another one's change of the file
  runs, kills

vars == <<file, applied, hotspot, job, scan, last, clash, runs, kills>>

Config == UNION {[S -> Pass] : S \in SUBSET SSID}

Idle == [at |-> "idle", op |-> None, ssid |-> None, pass |-> None, sudo |-> None,
         new |-> None, tries |-> 0]

Init == /\ file \in {c \in Config : Default \in DOMAIN c}
        /\ applied = file
        /\ hotspot = FALSE
        /\ job = [j \in Job |-> Idle]
        /\ scan = None
        /\ last = file /\ clash = {}
        /\ runs = Runs /\ kills = Kills

\* While a run is at one of these its change of the file is under way.
Changing(j) == job[j].at \in {"modified", "opened"}

-----------------------------------------------------------------------------
(***************************************************************************)
(* Changes of the file                                                     *)
(***************************************************************************)
\* The script refuses the default network, addWifiConn a password that is too short
\* (None).
Refused(ssid, pass) == ssid = Default \/ pass = None

Begins(j, at, op, ssid, pass, sudo) ==
  job' = [job EXCEPT ![j] = [at |-> at, op |-> op, ssid |-> ssid, pass |-> pass,
                             sudo |-> sudo, new |-> None, tries |-> 0]]

\* A script is started.  removeWifiConn and hotspot.js take no password of a network.
Start(j) ==
  /\ job[j].at = "idle" /\ runs > 0
  /\ runs' = runs - 1
  /\ \/ \E ssid \in SSID, pass \in Pass \cup {None}, sudo \in Sudo :
          ~Refused(ssid, pass) /\ Begins(j, "read", "add", ssid, pass, sudo)
     \/ \E ssid \in SSID : Begins(j, "read", "remove", ssid, None, None)
     \/ \E op \in {"on", "off"}, sudo \in Sudo : Begins(j, "shell", op, None, None, sudo)
  /\ clash' = clash \ {j}
  /\ scan' = None
  /\ UNCHANGED <<file, applied, hotspot, last, kills>>

\* Mutant of Modified: the new network takes the place of all but the default one.
Modified_Replace(points, q) ==
  [s \in (DOMAIN points \cap {Default}) \cup {q.ssid} |->
     IF s = q.ssid THEN q.pass ELSE points[s]]

\* addWifiConn and removeWifiConn: what they do to the configuration.
Modified(points, q) ==
  IF q.op = "add"
  THEN [s \in DOMAIN points \cup {q.ssid} |-> IF s = q.ssid THEN q.pass ELSE points[s]]
  ELSE [s \in DOMAIN points \ {q.ssid} |-> points[s]]

\* Mutant of Valid: _validateNewConfig looks for the device and the renderer only.
Valid_Any(new, existing) == TRUE

\* _validateNewConfig: the default network must be in both, with one password.
Valid(new, existing) ==
  /\ Default \in DOMAIN new /\ Default \in DOMAIN existing
  /\ new[Default] = existing[Default]

\* parse, and _validateDefaultConfig, which throws for what is no configuration.
Existing(f) == f

\* The file is read, parsed, changed and validated.  Whatever is wrong is thrown.
Read(j) ==
  /\ job[j].at = "read"
  /\ job' = [job EXCEPT ![j] =
       IF Existing(file) # Torn /\ Valid(Modified(Existing(file), job[j]), Existing(file))
       THEN [@ EXCEPT !.at = "modified", !.new = Modified(Existing(file), job[j])]
       ELSE Idle]
  /\ UNCHANGED <<file, applied, hotspot, scan, last, clash, runs, kills>>

\* History: the runs that do not have the file to themselves.
Clashing(j) == IF \E k \in Job \ {j} : Changing(k) THEN {k \in Job : Changing(k)} ELSE {}

\* fs.writeFile opens the file, which empties it, ...
Open(j) ==
  /\ job[j].at = "modified"
  /\ file' = Torn
  /\ job' = [job EXCEPT ![j].at = "opened"]
  /\ clash' = clash \cup Clashing(j)
  /\ UNCHANGED <<applied, hotspot, scan, last, runs, kills>>

\* wifi-add-init-conn.js has the new file applied.
AfterWrite(q) ==
  IF q.op = "add" THEN [Idle EXCEPT !.at = "shell", !.op = "add", !.sudo = q.sudo] ELSE Idle

\* ... and writes from its beginning.  What another run wrote meanwhile is covered
\* by the new text, except for its end if it is longer.
Write(j) ==
  /\ job[j].at = "opened"
  /\ file' \in {job[j].new} \cup (IF file = Torn THEN {} ELSE {Torn})
  /\ job' = [job EXCEPT ![j] = AfterWrite(@)]
  /\ clash' = clash \cup Clashing(j)
  /\ last' = IF file' = Torn THEN last ELSE file'
  /\ UNCHANGED <<applied, hotspot, scan, runs, kills>>

-----------------------------------------------------------------------------
(***************************************************************************)
(* Shell scripts that run sudo                                             *)
(***************************************************************************)
\* The command that sudo runs: netplan apply, nmcli con up or nmcli con down.
Command(q) ==
  /\ applied' = IF q.op = "add" THEN file ELSE applied
  /\ hotspot' = IF q.op = "add" THEN hotspot ELSE q.op = "on"

\* sudo asks for no password, or the right one was written: it runs the command.
SudoRuns(j) ==
  /\ \/ job[j].at = "shell" /\ job[j].sudo # "unset"
     \/ job[j].at = "answered" /\ job[j].sudo = "right"
  /\ Command(job[j])
  /\ job' = [job EXCEPT ![j].at = "echo"]
  /\ UNCHANGED <<file, scan, last, clash, runs, kills>>

\* sudo asks for a password, up to three times.
SudoAsks(j) ==
  /\ \/ job[j].at = "shell" /\ job[j].sudo # "unset"
     \/ job[j].at = "answered" /\ job[j].sudo = "wrong"
  /\ job' = [job EXCEPT ![j].at = IF job[j].tries < 3 THEN "asked" ELSE "echo",
                        ![j].tries = IF @ < 3 THEN @ + 1 ELSE @]
  /\ UNCHANGED <<file, applied, hotspot, scan, last, clash, runs, kills>>

\* Mutant of MatchesPassword: the password is written to the first prompt only.
MatchesPassword_Once(q) == q.tries = 1

\* data.match(/password/)
MatchesPassword(q) == TRUE

\* _runBashSudo, onData: each prompt is answered.
Answers(j) ==
  /\ job[j].at = "asked"
  /\ MatchesPassword(job[j])
  /\ job' = [job EXCEPT ![j].at = "answered"]
  /\ UNCHANGED <<file, applied, hotspot, scan, last, clash, runs, kills>>

\* Without a password runShellScript calls exec: sudo has no terminal and fails.
ExecFails(j) ==
  /\ job[j].at = "shell" /\ job[j].sudo = "unset"
  /\ job' = [job EXCEPT ![j].at = "echo"]
  /\ UNCHANGED <<file, applied, hotspot, scan, last, clash, runs, kills>>

\* The shell script says done whether or not its command succeeded, and exits.
\* onData ends the run if it gets that word in a piece of its own, else onExit does.
Exits(j) ==
  /\ job[j].at = "echo"
  /\ job' = [job EXCEPT ![j] = Idle]
  /\ UNCHANGED <<file, applied, hotspot, scan, last, clash, runs, kills>>

Killed(j) ==
  /\ job[j].at # "idle" /\ kills > 0
  /\ kills' = kills - 1
  /\ job' = [job EXCEPT ![j] = Idle]
  /\ UNCHANGED <<file, applied, hotspot, scan, last, clash, runs>>

-----------------------------------------------------------------------------
(***************************************************************************)
(* Scan                                                                    *)
(***************************************************************************)
\* Names are made of colons, backslashes and other characters.
Char == {":", "\\", "x"}
Name == UNION {[1 .. n -> Char] : n \in 1 .. MaxName}

\* The characters of a sequence of strings, one string after the other.
Joined(strings) ==
  LET upto[i \in 0 .. Len(strings)] == IF i = 0 THEN <<>> ELSE upto[i - 1] \o strings[i]
  IN  upto[Len(strings)]

\* nmcli -t puts a backslash before a colon and before a backslash ...
Escaped(name) ==
  Joined([i \in DOMAIN name |-> IF name[i] = "x" THEN <<"x">> ELSE <<"\\", name[i]>>])

\* ... and a colon between the fields: in-use, BSSID, SSID and mode.
Line(ssid) == Joined(<<<<"x", ":">>, Escaped(<<"x", ":", "x">>), <<":">>,
                       Escaped(ssid), <<":">>, <<"x">>>>)

\* Mutant of Hashed: escapes that are not looked at.
Hashed_Not(line) == line

\* line.replace(/\\:/g, "###"), with one character for the three.
Hashed(line) ==
  LET pair(i) == i \in 1 .. Len(line) - 1 /\ line[i] = "\\" /\ line[i + 1] = ":"
  IN  Joined([i \in DOMAIN line |-> IF pair(i) THEN <<"#">>
                                    ELSE IF pair(i - 1) THEN <<>> ELSE <<line[i]>>])

\* split(":")
Fields(text) ==
  LET colons == {i \in DOMAIN text : text[i] = ":"}
      end(n) == CHOOSE i \in colons \cup {Len(text) + 1} :
                  Cardinality({k \in colons : k < i}) = n - 1
      start(n) == IF n = 1 THEN 1 ELSE end(n - 1) + 1
  IN  [n \in 1 .. Cardinality(colons) + 1 |-> SubSeq(text, start(n), end(n) - 1)]

\* Of the fields only the BSSID gets its colons back.
Unhashed(text) == [i \in DOMAIN text |-> IF text[i] = "#" THEN ":" ELSE text[i]]

\* _parseWifiListResponse for one line.
Row(line) ==
  LET f == Fields(Hashed(line))
  IN  [bssid |-> Unhashed(f[2]), ssid |-> f[3], mode |-> IF Len(f) < 4 THEN <<>> ELSE f[4]]

\* wifi-scan.js.  Nothing but its line bears on it: it is run before the others.
Scan ==
  /\ runs = Runs
  /\ \E ssid \in Name : scan' = [ssid |-> ssid, row |-> Row(Line(ssid))]
  /\ UNCHANGED <<file, applied, hotspot, job, last, clash, runs, kills>>

-----------------------------------------------------------------------------
Step(j) == \/ Read(j) \/ Open(j) \/ Write(j) \/ SudoRuns(j) \/ SudoAsks(j)
           \/ Answers(j) \/ ExecFails(j) \/ Exits(j)

Next == Scan \/ \E j \in Job : Start(j) \/ Step(j) \/ Killed(j)

Spec == Init /\ [][Next]_vars

\* A run that can go on does.
FairSpec == Spec /\ \A j \in Job : WF_vars(Step(j))

-----------------------------------------------------------------------------
(***************************************************************************)
(* Properties                                                              *)
(***************************************************************************)
\* Type correctness.
TypeOK ==
  /\ file \in Config \cup {Torn} /\ applied \in Config \cup {Torn}
  /\ hotspot \in BOOLEAN
  /\ job \in [Job ->
       [at : {"idle", "read", "modified", "opened", "shell", "asked", "answered", "echo"},
        op : {"add", "remove", "on", "off", None},
        ssid : SSID \cup {None}, pass : Pass \cup {None}, sudo : Sudo \cup {None},
        new : Config \cup {None}, tries : 0 .. 3]]
  /\ last \in Config /\ clash \subseteq Job
  /\ runs \in 0 .. Runs /\ kills \in 0 .. Kills

\* However runs overlap and wherever they are killed, no configuration that gets
\* into the file lacks the default network or gives it another password: through
\* that network the system can always be reached.
DefaultKept ==
  [][/\ Default \in DOMAIN last'
     /\ last'[Default] = last[Default]]_last

\* A network gets lost from the file only by a run that removes it, or by two runs
\* that each write what they made of the file as it was before the other's write.
NothingLost ==
  [][\A j \in Job : Write(j) /\ file' # Torn /\ j \notin clash' =>
       DOMAIN last \ DOMAIN file' \subseteq
         IF job[j].op = "remove" THEN {job[j].ssid} ELSE {}]_vars

\* A file that was left torn by a run killed while it wrote, or by two that wrote at
\* once, is never changed by a script again: it has to be restored by hand.
TornStays ==
  [](file = Torn /\ ~(\E j \in Job : Changing(j)) => [](file = Torn))

\* Every run comes to an end: each prompt of sudo is answered, and if the word of
\* the end is missed the end of the shell is not.
RunsFinish == \A j \in Job : job[j].at # "idle" ~> job[j].at = "idle"

\* The fields of a scanned network are told apart right, colons in its name or not,
\* unless the name ends with a backslash; the name itself is shown with its colons
\* as hashes.
ScanAligned ==
  scan # None =>
    ((/\ scan.row.bssid = <<"x", ":", "x">> /\ scan.row.mode = <<"x">>
      /\ Unhashed(scan.row.ssid) = Unhashed(Hashed(Escaped(scan.ssid))))
     <=> scan.ssid[Len(scan.ssid)] # "\\")
=============================================================================
