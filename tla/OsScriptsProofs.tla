-------------------------- MODULE OsScriptsProofs ---------------------------
(***************************************************************************)
(* What the scripts do to netplan's file, for any number of runs, networks *)
(* and passwords: the default network stays in every configuration that is *)
(* written, and a torn file is left alone.                                 *)
(*                                                                         *)
(* Then what a scan makes of a line of nmcli, for names of any length: the *)
(* fields are told apart right unless the name ends with a backslash.      *)
(*                                                                         *)
(* At the end, what becomes of the programs that run them and their like   *)
(* (Lifecycle), for any number of connections: after SIGTERM no web socket *)
(* is left, and the requests under way are answered.                       *)
(***************************************************************************)
EXTENDS OsScripts, Lifecycle, TLAPS, FiniteSetTheorems, SequenceTheorems, WellFoundedInduction

\* A configuration is a function from some networks to passwords, and back.
LEMMA ConfigOf == ASSUME NEW c \in Config
                  PROVE  /\ DOMAIN c \subseteq SSID
                         /\ \A s \in DOMAIN c : c[s] \in Pass
  BY DEF Config

LEMMA IsConfig == ASSUME NEW S \in SUBSET SSID, NEW c \in [S -> Pass] PROVE c \in Config
  BY DEF Config

LEMMA NoConfig == None \notin Config /\ Torn \notin Config /\ None # Torn
  BY OsScriptsAssumption DEF Config

\* Both operations make a configuration of a configuration.
LEMMA ModifiedConfig ==
  ASSUME NEW c \in Config, NEW q, q.ssid \in SSID, q.op = "add" => q.pass \in Pass
  PROVE  Modified(c, q) \in Config
<1>1. CASE q.op = "add"
  <2>1. Modified(c, q) \in [DOMAIN c \cup {q.ssid} -> Pass]
    BY <1>1, ConfigOf DEF Modified
  <2>2. QED
    BY <2>1, ConfigOf, IsConfig
<1>2. CASE q.op # "add"
  <2>1. Modified(c, q) \in [DOMAIN c \ {q.ssid} -> Pass]
    BY <1>2, ConfigOf DEF Modified
  <2>2. QED
    BY <2>1, ConfigOf, IsConfig
<1>3. QED
  BY <1>1, <1>2

-----------------------------------------------------------------------------
(***************************************************************************)
(* The inductive invariant.  A run that changes the file carries a         *)
(* configuration that it validated against the file as it read it; that it *)
(* agrees with the last one on the default network, although the file may  *)
(* have been written several times since, is what has to be carried along. *)
(***************************************************************************)
Asks(q) == /\ q.at = "read" => q.ssid \in SSID /\ (q.op = "add" => q.pass \in Pass)
           /\ q.at \in {"modified", "opened"} => q.new \in Config

Agrees(c) == Default \in DOMAIN c /\ c[Default] = last[Default]

IInv == /\ TypeOK
        /\ \A j \in Job : Asks(job[j])
        /\ file \in {Torn, last}
        /\ Agrees(last)
        /\ \A j \in Job : Changing(j) => Agrees(job[j].new)

\* A run that is not about to write the file.
QuietRun == [at : {"idle", "read", "shell", "asked", "answered", "echo"},
             op : {"add", "remove", "on", "off", None},
             ssid : SSID \cup {None}, pass : Pass \cup {None}, sudo : Sudo \cup {None},
             new : Config \cup {None}, tries : 0 .. 3]

\* The steps of a run that leave the file, and the run's change of it, alone.
LEMMA QuietStep ==
  ASSUME IInv, NEW j \in Job, NEW q,
         job' = [job EXCEPT ![j] = q],
         q \in QuietRun,
         Asks(q),
         UNCHANGED <<file, last>>,
         applied' \in Config \cup {Torn}, hotspot' \in BOOLEAN, clash' \subseteq Job,
         runs' \in 0 .. Runs, kills' \in 0 .. Kills
  PROVE  IInv'
<1>1. TypeOK'
  BY DEF QuietRun, IInv, TypeOK
<1>2. \A k \in Job : job'[k] = IF k = j THEN q ELSE job[k]
  BY DEF IInv, TypeOK
<1>3. \A k \in Job : Asks(job[k])'
  BY <1>2 DEF IInv, Asks
<1>4. \A k \in Job : Changing(k)' => Agrees(job[k].new)'
  BY <1>2 DEF QuietRun, IInv, Changing, Agrees
<1>5. QED
  BY <1>1, <1>3, <1>4 DEF IInv, Agrees

LEMMA IdleQuiet == Idle \in QuietRun /\ Asks(Idle)
<1>1. Idle \in QuietRun
  BY DEF Idle, QuietRun
<1>2. Asks(Idle)
  BY DEF Idle, Asks
<1>3. QED
  BY <1>1, <1>2

LEMMA StartStep == ASSUME IInv, NEW j \in Job, Start(j) PROVE IInv'
<1>1. /\ UNCHANGED <<file, last>>
      /\ applied' \in Config \cup {Torn} /\ hotspot' \in BOOLEAN
      /\ clash' \subseteq Job /\ kills' \in 0 .. Kills
  BY DEF Start, IInv, TypeOK
<1>2. runs' \in 0 .. Runs
  BY OsScriptsAssumption, SMT DEF Start, IInv, TypeOK
<1>3. ASSUME NEW ssid \in SSID, NEW pass \in Pass \cup {None}, NEW sudo \in Sudo,
             ~Refused(ssid, pass), Begins(j, "read", "add", ssid, pass, sudo)
      PROVE  IInv'
  <2> DEFINE q == [at |-> "read", op |-> "add", ssid |-> ssid, pass |-> pass, sudo |-> sudo,
                   new |-> None, tries |-> 0]
  <2>1. job' = [job EXCEPT ![j] = q]
    BY <1>3 DEF Begins
  <2>2. q \in QuietRun
    BY <1>3 DEF QuietRun, Refused
  <2>3. Asks(q)
    BY <1>3 DEF Asks, Refused
  <2> HIDE DEF q
  <2>4. QED
    BY <1>1, <1>2, <2>1, <2>2, <2>3, QuietStep DEF IInv, TypeOK
<1>4. ASSUME NEW ssid \in SSID, Begins(j, "read", "remove", ssid, None, None) PROVE IInv'
  <2> DEFINE q == [at |-> "read", op |-> "remove", ssid |-> ssid, pass |-> None, sudo |-> None,
                   new |-> None, tries |-> 0]
  <2>1. job' = [job EXCEPT ![j] = q]
    BY <1>4 DEF Begins
  <2>2. q \in QuietRun
    BY <1>4 DEF QuietRun
  <2>3. Asks(q)
    BY <1>4 DEF Asks
  <2> HIDE DEF q
  <2>4. QED
    BY <1>1, <1>2, <2>1, <2>2, <2>3, QuietStep DEF IInv, TypeOK
<1>5. ASSUME NEW op \in {"on", "off"}, NEW sudo \in Sudo,
             Begins(j, "shell", op, None, None, sudo)
      PROVE  IInv'
  <2> DEFINE q == [at |-> "shell", op |-> op, ssid |-> None, pass |-> None, sudo |-> sudo,
                   new |-> None, tries |-> 0]
  <2>1. job' = [job EXCEPT ![j] = q]
    BY <1>5 DEF Begins
  <2>2. q \in QuietRun
    BY <1>5 DEF QuietRun
  <2>3. Asks(q)
    BY <1>5 DEF Asks
  <2> HIDE DEF q
  <2>4. QED
    BY <1>1, <1>2, <2>1, <2>2, <2>3, QuietStep DEF IInv, TypeOK
<1>6. QED
  BY <1>3, <1>4, <1>5 DEF Start

LEMMA ReadStep == ASSUME IInv, NEW j \in Job, Read(j) PROVE IInv'
<1> DEFINE new == Modified(file, job[j])
           ok  == file # Torn /\ Valid(new, file)
<1>1. job[j].at = "read" /\ Asks(job[j])
  BY DEF Read, IInv
<1>2. CASE ~ok
  <2>1. job' = [job EXCEPT ![j] = Idle]
    BY <1>2 DEF Read, Existing
  <2>2. Idle \in QuietRun /\ Asks(Idle)
    BY IdleQuiet
  <2>3. UNCHANGED <<file, applied, hotspot, last, clash, runs, kills>>
    BY DEF Read
  <2>4. /\ applied' \in Config \cup {Torn} /\ hotspot' \in BOOLEAN /\ clash' \subseteq Job
        /\ runs' \in 0 .. Runs /\ kills' \in 0 .. Kills
    BY <2>3 DEF IInv, TypeOK
  <2> HIDE DEF new, ok
  <2>5. QED
    BY <2>1, <2>2, <2>3, <2>4, QuietStep DEF IInv, TypeOK
<1>3. CASE ok
  <2>1. file \in Config /\ file = last
    BY <1>3 DEF IInv, TypeOK
  <2>2. new \in Config
    BY <1>1, <2>1, ModifiedConfig DEF Asks
  <2>3. Agrees(new)
    BY <1>3, <2>1 DEF Valid, Agrees, IInv
  <2>4. job' = [job EXCEPT ![j] = [@ EXCEPT !.at = "modified", !.new = new]]
    BY <1>3, Zenon DEF Read, Existing
  <2>5. UNCHANGED <<file, applied, hotspot, last, clash, runs, kills>>
    BY DEF Read
  <2> HIDE DEF new, ok
  <2>6. TypeOK'
    <3> DEFINE q == [job[j] EXCEPT !.at = "modified", !.new = new]
               Run == [at : {"idle", "read", "modified", "opened", "shell", "asked",
                             "answered", "echo"},
                       op : {"add", "remove", "on", "off", None},
                       ssid : SSID \cup {None}, pass : Pass \cup {None},
                       sudo : Sudo \cup {None}, new : Config \cup {None}, tries : 0 .. 3]
    <3>1. q \in Run
      BY <2>2 DEF IInv, TypeOK
    <3>2. job \in [Job -> Run] /\ job' = [job EXCEPT ![j] = q]
      BY <2>4 DEF IInv, TypeOK
    <3>3. job' \in [Job -> Run]
      <4> HIDE DEF q, Run
      <4>1. QED
        BY <3>1, <3>2
    <3>4. QED
      BY <2>5, <3>3 DEF IInv, TypeOK
  <2>7. \A k \in Job : job'[k] = IF k = j THEN [job[j] EXCEPT !.at = "modified", !.new = new]
                                          ELSE job[k]
    BY <2>4 DEF IInv, TypeOK
  <2>8. job'[j].at = "modified" /\ job'[j].new = new
    BY <2>7 DEF IInv, TypeOK
  <2>9. \A k \in Job : Asks(job[k])'
    BY <2>2, <2>7, <2>8 DEF IInv, Asks
  <2>10. \A k \in Job : Changing(k)' => Agrees(job[k].new)'
    BY <2>3, <2>5, <2>7, <2>8 DEF IInv, Changing, Agrees
  <2>11. QED
    BY <2>5, <2>6, <2>9, <2>10 DEF IInv, Agrees
<1>4. QED
  BY <1>2, <1>3

LEMMA OpenStep == ASSUME IInv, NEW j \in Job, Open(j) PROVE IInv'
<1>1. TypeOK'
  BY DEF Open, Clashing, IInv, TypeOK
<1>2. \A k \in Job : job'[k] = IF k = j THEN [job[j] EXCEPT !.at = "opened"] ELSE job[k]
  BY DEF Open, IInv, TypeOK
<1>3. job[j].at = "modified" /\ job'[j].at = "opened" /\ job'[j].new = job[j].new
  BY <1>2 DEF Open, IInv, TypeOK
<1>4. file' = Torn /\ last' = last
  BY DEF Open
<1>5. \A k \in Job : Asks(job[k])'
  BY <1>2, <1>3 DEF IInv, Asks
<1>6. \A k \in Job : Changing(k)' => Agrees(job[k].new)'
  BY <1>2, <1>3, <1>4 DEF IInv, Changing, Agrees
<1>7. QED
  BY <1>1, <1>4, <1>5, <1>6 DEF IInv, Agrees

LEMMA WriteStep == ASSUME IInv, NEW j \in Job, Write(j) PROVE IInv'
<1>1. job[j].at = "opened" /\ job[j].new \in Config /\ Agrees(job[j].new)
  BY DEF Write, IInv, Asks, Changing
<1>2. file' \in {Torn, job[j].new} /\ last' = (IF file' = Torn THEN last ELSE file')
  BY DEF Write
<1>3. /\ AfterWrite(job[j]) \in
           [at : {"idle", "shell"}, op : {"add", None}, ssid : {None}, pass : {None},
            sudo : Sudo \cup {None}, new : {None}, tries : {0}]
      /\ job' = [job EXCEPT ![j] = AfterWrite(job[j])]
  BY DEF Write, AfterWrite, Idle, IInv, TypeOK
<1>4. TypeOK'
  BY <1>1, <1>2, <1>3 DEF Write, Clashing, IInv, TypeOK
<1>5. \A k \in Job : job'[k] = IF k = j THEN AfterWrite(job[j]) ELSE job[k]
  BY <1>3 DEF IInv, TypeOK
<1>6. last'[Default] = last[Default] /\ Default \in DOMAIN last'
  BY <1>1, <1>2 DEF IInv, Agrees
<1>7. \A k \in Job : Asks(job[k])'
  BY <1>3, <1>5 DEF IInv, Asks
<1>8. \A k \in Job : Changing(k)' => Agrees(job[k].new)'
  BY <1>3, <1>5, <1>6 DEF IInv, Changing, Agrees
<1>9. QED
  BY <1>2, <1>4, <1>6, <1>7, <1>8 DEF IInv, Agrees

\* The steps of a shell script, its end, and a kill.
LEMMA ShellStep ==
  ASSUME IInv, NEW j \in Job,
         \/ SudoRuns(j) \/ SudoAsks(j) \/ Answers(j) \/ ExecFails(j) \/ Exits(j) \/ Killed(j)
  PROVE  IInv'
<1>1. ASSUME SudoRuns(j) PROVE IInv'
  <2>1. applied' \in Config \cup {Torn} /\ hotspot' \in BOOLEAN
    BY <1>1 DEF SudoRuns, Command, IInv, TypeOK
  <2> DEFINE q == [job[j] EXCEPT !.at = "echo"]
  <2>2. job' = [job EXCEPT ![j] = q]
    BY <1>1 DEF SudoRuns, IInv, TypeOK
  <2>3. q \in QuietRun /\ Asks(q)
    BY DEF QuietRun, Asks, IInv, TypeOK
  <2> HIDE DEF q
  <2>4. QED
    BY <1>1, <2>1, <2>2, <2>3, QuietStep DEF SudoRuns, IInv, TypeOK
<1>2. ASSUME SudoAsks(j) PROVE IInv'
  <2> DEFINE q == [job[j] EXCEPT !.at = IF job[j].tries < 3 THEN "asked" ELSE "echo",
                                 !.tries = IF @ < 3 THEN @ + 1 ELSE @]
  <2>1. job' = [job EXCEPT ![j] = q]
    BY <1>2 DEF SudoAsks, IInv, TypeOK
  <2>2. job[j].tries \in 0 .. 3 =>
           (IF job[j].tries < 3 THEN job[j].tries + 1 ELSE job[j].tries) \in 0 .. 3
    BY SMT
  <2>3. q.at \in {"asked", "echo"} /\ q \in QuietRun
    <3>1. PICK r \in [at : {"idle", "read", "modified", "opened", "shell", "asked", "answered", "echo"},
                       op : {"add", "remove", "on", "off", None},
                       ssid : SSID \cup {None}, pass : Pass \cup {None},
                       sudo : Sudo \cup {None}, new : Config \cup {None}, tries : 0 .. 3] :
              r = job[j]
      BY DEF IInv, TypeOK
    <3>2. q = [r EXCEPT !.at = IF r.tries < 3 THEN "asked" ELSE "echo",
                        !.tries = IF @ < 3 THEN @ + 1 ELSE @]
      BY <3>1
    <3> HIDE DEF q
    <3>3. QED
      BY <2>2, <3>1, <3>2 DEF QuietRun
  <2> HIDE DEF q
  <2>4. Asks(q)
    BY <2>3 DEF Asks
  <2>5. QED
    BY <1>2, <2>1, <2>3, <2>4, QuietStep DEF SudoAsks, IInv, TypeOK
<1>3. ASSUME Answers(j) PROVE IInv'
  <2> DEFINE q == [job[j] EXCEPT !.at = "answered"]
  <2>1. job' = [job EXCEPT ![j] = q]
    BY <1>3 DEF Answers, IInv, TypeOK
  <2>2. q \in QuietRun /\ Asks(q)
    BY DEF QuietRun, Asks, IInv, TypeOK
  <2> HIDE DEF q
  <2>3. QED
    BY <1>3, <2>1, <2>2, QuietStep DEF Answers, IInv, TypeOK
<1>4. ASSUME ExecFails(j) PROVE IInv'
  <2> DEFINE q == [job[j] EXCEPT !.at = "echo"]
  <2>1. job' = [job EXCEPT ![j] = q]
    BY <1>4 DEF ExecFails, IInv, TypeOK
  <2>2. q \in QuietRun /\ Asks(q)
    BY DEF QuietRun, Asks, IInv, TypeOK
  <2> HIDE DEF q
  <2>3. QED
    BY <1>4, <2>1, <2>2, QuietStep DEF ExecFails, IInv, TypeOK
<1>5. ASSUME Exits(j) PROVE IInv'
  <2>1. Idle \in QuietRun /\ Asks(Idle)
    BY IdleQuiet
  <2>2. QED
    BY <1>5, <2>1, QuietStep DEF Exits, IInv, TypeOK
<1>6. ASSUME Killed(j) PROVE IInv'
  <2>1. kills' \in 0 .. Kills
    BY <1>6, OsScriptsAssumption, SMT DEF Killed, IInv, TypeOK
  <2>2. Idle \in QuietRun /\ Asks(Idle)
    BY IdleQuiet
  <2>3. QED
    BY <1>6, <2>1, <2>2, QuietStep DEF Killed, IInv, TypeOK
<1>7. QED
  BY <1>1, <1>2, <1>3, <1>4, <1>5, <1>6

LEMMA InvStep == ASSUME IInv, [Next]_vars PROVE IInv'
<1>1. CASE Scan
  BY <1>1 DEF Scan, IInv, TypeOK, Asks, Agrees, Changing
<1>2. ASSUME NEW j \in Job, Start(j) \/ Step(j) \/ Killed(j) PROVE IInv'
  BY <1>2, StartStep, ReadStep, OpenStep, WriteStep, ShellStep DEF Step
<1>3. CASE UNCHANGED vars
  BY <1>3 DEF vars, IInv, TypeOK, Asks, Agrees, Changing
<1>4. QED
  BY <1>1, <1>2, <1>3 DEF Next

LEMMA InvInit == Init => IInv
<1> SUFFICES ASSUME Init PROVE IInv
  OBVIOUS
<1>1. \A j \in Job : job[j] = Idle
  BY DEF Init
<1>2. /\ runs \in 0 .. Runs /\ kills \in 0 .. Kills
  BY OsScriptsAssumption, SMT DEF Init
<1>3. TypeOK
  <2>1. file \in Config /\ last = file /\ applied = file
    BY DEF Init
  <2>2. job \in [Job -> QuietRun]
    BY IdleQuiet DEF Init
  <2>3. QED
    BY <1>2, <2>1, <2>2 DEF Init, TypeOK, QuietRun
<1>4. \A j \in Job : Asks(job[j]) /\ ~Changing(j)
  BY <1>1 DEF Asks, Changing, Idle
<1>5. file = last /\ Agrees(last)
  BY DEF Init, Agrees
<1>6. QED
  BY <1>3, <1>4, <1>5 DEF IInv

LEMMA Invariant == Spec => []IInv
<1>1. Init => IInv
  BY InvInit
<1>2. IInv /\ [Next]_vars => IInv'
  BY InvStep
<1>3. QED
  BY <1>1, <1>2, PTL DEF Spec

\* Type correctness: TypeOK holds in every reachable state.
THEOREM TypeCorrect == Spec => []TypeOK
<1>1. IInv => TypeOK
  BY DEF IInv
<1>2. QED
  BY <1>1, Invariant, PTL

\* The default network stays in the file with its password: DefaultKept, however
\* many runs overlap.
THEOREM DefaultIsKept == Spec => DefaultKept
<1>1. ASSUME IInv' PROVE Default \in DOMAIN last'
  BY <1>1 DEF IInv, Agrees
<1>2. ASSUME IInv, [Next]_vars PROVE last'[Default] = last[Default]
  <2>1. ASSUME NEW j \in Job, Write(j) PROVE last'[Default] = last[Default]
    BY <1>2, <2>1 DEF Write, IInv, Changing, Agrees
  <2>2. CASE UNCHANGED last
    BY <2>2
  <2>3. QED
    BY <1>2, <2>1, <2>2 DEF Next, vars, Scan, Start, Step, Killed, Read, Open, SudoRuns,
                            SudoAsks, Answers, ExecFails, Exits
<1>3. IInv /\ IInv' /\ [Next]_vars
        => [/\ Default \in DOMAIN last'
            /\ last'[Default] = last[Default]]_last
  BY <1>1, <1>2
<1>4. QED
  BY <1>3, Invariant, PTL DEF Spec, DefaultKept

-----------------------------------------------------------------------------
\* Once the file is torn and no run is about to write, no step makes it whole: a run
\* would have to read a configuration first.
Abandoned == file = Torn /\ ~(\E j \in Job : Changing(j))

LEMMA AbandonedStep == ASSUME IInv, Abandoned, [Next]_vars PROVE Abandoned'
<1> USE DEF IInv, TypeOK, Abandoned, Changing
<1>1. ASSUME NEW j \in Job, Start(j) PROVE Abandoned'
  <2>1. ASSUME NEW at \in {"read", "shell"}, NEW op, NEW ssid, NEW pass, NEW sudo,
               Begins(j, at, op, ssid, pass, sudo)
        PROVE  ~(\E k \in Job : Changing(k)')
    BY <2>1 DEF Begins
  <2>2. QED
    BY <1>1, <2>1 DEF Start
<1>2. ASSUME NEW j \in Job, Read(j) PROVE Abandoned'
  BY <1>2 DEF Read, Existing, Idle
<1>3. ASSUME NEW j \in Job,
             SudoRuns(j) \/ SudoAsks(j) \/ Answers(j) \/ ExecFails(j) \/ Exits(j) \/ Killed(j)
      PROVE Abandoned'
  BY <1>3 DEF SudoRuns, SudoAsks, Answers, ExecFails, Exits, Killed, Idle
<1>4. ASSUME NEW j \in Job, Open(j) \/ Write(j) PROVE FALSE
  BY <1>4 DEF Open, Write
<1>5. CASE Scan \/ UNCHANGED vars
  BY <1>5 DEF Scan, vars
<1>6. QED
  BY <1>1, <1>2, <1>3, <1>4, <1>5 DEF Next, Step

\* A torn file stays as it is until it is restored by hand: TornStays.
THEOREM TornIsLeft == Spec => TornStays
<1>1. IInv /\ Abandoned /\ [Next]_vars => Abandoned'
  BY AbandonedStep
<1>2. Abandoned => file = Torn
  BY DEF Abandoned
<1>3. QED
  BY <1>1, <1>2, Invariant, PTL DEF Spec, TornStays, Abandoned

-----------------------------------------------------------------------------
(***************************************************************************)
(* Lost networks.  What a run made of the file leaves out no network of    *)
(* the last configuration but the one it removes: so it is when it reads,  *)
(* and another run's write, after which it need not be so, marks it.       *)
(***************************************************************************)
Gone(q) == IF q.op = "remove" THEN {q.ssid} ELSE {}

Keeps(j) == Changing(j) /\ j \notin clash => DOMAIN last \ DOMAIN job[j].new \subseteq Gone(job[j])

KInv == \A j \in Job : /\ job[j].at = "read" => job[j].op \in {"add", "remove"}
                       /\ Keeps(j)

\* Steps of a run that leave the file alone and after which it changes nothing.
LEMMA KeepsQuiet ==
  ASSUME IInv, KInv, NEW j \in Job, UNCHANGED last,
         \A k \in Job \ {j} : /\ job'[k] = job[k]
                             /\ (k \in clash => k \in clash'),
         job'[j].at = "read" => job'[j].op \in {"add", "remove"},
         job'[j].at \notin {"modified", "opened"}
  PROVE  KInv'
<1>1. ASSUME NEW k \in Job \ {j}
      PROVE  (job[k].at = "read" => job[k].op \in {"add", "remove"})' /\ Keeps(k)'
  <2>1. job'[k] = job[k] /\ (k \in clash => k \in clash')
    OBVIOUS
  <2>2. (job[k].at = "read" => job[k].op \in {"add", "remove"}) /\ Keeps(k)
    BY DEF KInv
  <2>3. QED
    BY <2>1, <2>2 DEF Keeps, Changing, Gone
<1>2. Keeps(j)'
  BY DEF Keeps, Changing
<1>3. QED
  BY <1>1, <1>2 DEF KInv

LEMMA KInvStep == ASSUME IInv, KInv, [Next]_vars PROVE KInv'
<1> USE DEF IInv, TypeOK
<1>1. ASSUME NEW j \in Job, Start(j) PROVE KInv'
  <2>1. ASSUME NEW at, NEW op, NEW ssid, NEW pass, NEW sudo,
               \/ at = "read" /\ op \in {"add", "remove"}
               \/ at = "shell",
               Begins(j, at, op, ssid, pass, sudo)
        PROVE  /\ job'[j].at = "read" => job'[j].op \in {"add", "remove"}
               /\ job'[j].at \notin {"modified", "opened"}
               /\ \A k \in Job \ {j} : job'[k] = job[k]
    BY <2>1 DEF Begins
  <2>2. /\ job'[j].at = "read" => job'[j].op \in {"add", "remove"}
        /\ job'[j].at \notin {"modified", "opened"}
        /\ \A k \in Job \ {j} : job'[k] = job[k]
    BY <1>1, <2>1 DEF Start
  <2>3. UNCHANGED last /\ clash' = clash \ {j}
    BY <1>1 DEF Start
  <2>4. QED
    BY <2>2, <2>3, KeepsQuiet
<1>2. ASSUME NEW j \in Job, Read(j) PROVE KInv'
  <2>1. CASE job' = [job EXCEPT ![j] = Idle]
    <3>1. job'[j].at = "idle" /\ \A k \in Job \ {j} : job'[k] = job[k]
      BY <2>1 DEF Idle
    <3>2. QED
      BY <1>2, <3>1, KeepsQuiet DEF Read
  <2>2. CASE /\ file # Torn
             /\ job' = [job EXCEPT ![j] = [job[j] EXCEPT !.at = "modified",
                                                        !.new = Modified(file, job[j])]]
    <3>1. /\ job'[j].at = "modified" /\ job'[j].new = Modified(file, job[j])
          /\ job'[j].op = job[j].op /\ job'[j].ssid = job[j].ssid
          /\ \A k \in Job \ {j} : job'[k] = job[k]
      BY <2>2
    <3>2. DOMAIN last \ DOMAIN Modified(file, job[j]) \subseteq Gone(job[j])
      <4>1. file = last /\ job[j].op \in {"add", "remove"}
        BY <1>2, <2>2 DEF KInv, Read
      <4>2. CASE job[j].op = "add"
        BY <4>1, <4>2 DEF Modified
      <4>3. CASE job[j].op = "remove"
        BY <4>1, <4>3 DEF Modified, Gone
      <4>4. QED
        BY <4>1, <4>2, <4>3
    <3>3. UNCHANGED <<last, clash>>
      BY <1>2 DEF Read
    <3>4. QED
      BY <3>1, <3>2, <3>3 DEF KInv, Keeps, Changing, Gone
  <2>3. QED
    BY <1>2, <2>1, <2>2 DEF Read, Existing
<1>3. ASSUME NEW j \in Job, Open(j) PROVE KInv'
  <2>1. /\ job[j].at = "modified" /\ job' = [job EXCEPT ![j] = [job[j] EXCEPT !.at = "opened"]]
        /\ UNCHANGED last /\ clash \subseteq clash'
    BY <1>3 DEF Open
  <2>2. /\ job'[j].at = "opened" /\ job'[j].op = job[j].op /\ job'[j].ssid = job[j].ssid
        /\ job'[j].new = job[j].new /\ \A k \in Job \ {j} : job'[k] = job[k]
    BY <2>1
  <2>3. QED
    BY <2>1, <2>2 DEF KInv, Keeps, Changing, Gone
<1>4. ASSUME NEW j \in Job, Write(j) PROVE KInv'
  <2>1. /\ job' = [job EXCEPT ![j] = AfterWrite(job[j])] /\ clash' = clash \cup Clashing(j)
    BY <1>4 DEF Write
  <2>2. /\ job'[j].at \in {"idle", "shell"}
        /\ \A k \in Job \ {j} : job'[k] = job[k]
    <3>1. AfterWrite(job[j]).at \in {"idle", "shell"}
      BY DEF AfterWrite, Idle
    <3>2. QED
      BY <2>1, <3>1
  <2>3. ASSUME NEW k \in Job \ {j}, Changing(k) PROVE k \in clash'
    BY <2>1, <2>3 DEF Clashing
  <2>4. QED
    BY <2>2, <2>3 DEF KInv, Keeps, Changing
<1>5. ASSUME NEW j \in Job,
             SudoRuns(j) \/ SudoAsks(j) \/ Answers(j) \/ ExecFails(j) \/ Exits(j) \/ Killed(j)
      PROVE  KInv'
  <2>1. /\ job'[j].at \notin {"read", "modified", "opened"}
        /\ \A k \in Job \ {j} : job'[k] = job[k]
        /\ UNCHANGED <<last, clash>>
    BY <1>5 DEF SudoRuns, SudoAsks, Answers, ExecFails, Exits, Killed, Idle
  <2>2. QED
    BY <2>1, KeepsQuiet
<1>6. CASE Scan \/ UNCHANGED vars
  BY <1>6 DEF Scan, vars, KInv, Keeps, Changing, Gone
<1>7. QED
  BY <1>1, <1>2, <1>3, <1>4, <1>5, <1>6 DEF Next, Step

\* NothingLost: a network gets lost from the file by the run that removes it, or by
\* two runs that overlap in their change of it, in no other way.
THEOREM NothingIsLost == Spec => NothingLost
<1>1. Init => KInv
  BY DEF Init, KInv, Keeps, Changing, Idle
<1>2. IInv /\ KInv /\ [Next]_vars => KInv'
  BY KInvStep
<1>3. ASSUME IInv, KInv, NEW j \in Job, Write(j), file' # Torn, j \notin clash'
      PROVE  DOMAIN last \ DOMAIN file' \subseteq Gone(job[j])
  <2>1. file' = job[j].new /\ Changing(j) /\ j \notin clash
    BY <1>3 DEF Write, Changing
  <2>2. QED
    BY <1>3, <2>1 DEF KInv, Keeps
<1>4. IInv /\ KInv
        => [\A j \in Job : Write(j) /\ file' # Torn /\ j \notin clash' =>
              DOMAIN last \ DOMAIN file' \subseteq
                IF job[j].op = "remove" THEN {job[j].ssid} ELSE {}]_vars
  BY <1>3 DEF Gone
<1>5. QED
  BY <1>1, <1>2, <1>4, Invariant, PTL DEF Spec, NothingLost

-----------------------------------------------------------------------------
(***************************************************************************)
(* Induction over the places of a sequence, with sets as predicates and    *)
(* functions as steps.                                                     *)
(***************************************************************************)
\* A set of numbers has a least one.
LEMMA LeastIn == ASSUME NEW S \in SUBSET Nat, S # {} PROVE \E m \in S : \A k \in S : m <= k
<1>1. PICK m \in S : \A k \in S : ~(<<k, m>> \in OpToRel(<, Nat))
  <2>1. IsWellFoundedOn(OpToRel(<, Nat), Nat)
    BY NatLessThanWellFounded
  <2>2. QED
    BY <2>1, WFMin
<1>2. \A k \in S : ~(k < m)
  BY <1>1 DEF OpToRel
<1>3. QED
  BY <1>2

\* A set that has 0 and, with each number below n, the next has all up to n.
LEMMA Reaches ==
  ASSUME NEW n \in Nat, NEW P, 0 \in P, \A i \in 1 .. n : i - 1 \in P => i \in P
  PROVE  0 .. n \subseteq P
<1> SUFFICES ASSUME ~(0 .. n \subseteq P) PROVE FALSE
  OBVIOUS
<1> DEFINE Bad == {i \in 0 .. n : i \notin P}
<1>1. Bad # {} /\ Bad \in SUBSET Nat
  OBVIOUS
<1>2. PICK m \in Bad : \A k \in Bad : m <= k
  BY <1>1, LeastIn
<1>3. m \in 1 .. n /\ m - 1 \in 0 .. n /\ m - 1 \notin Bad
  BY <1>2
<1>4. QED
  BY <1>2, <1>3

\* A function that begins with b and goes on as g says, place by place, exists.
Follows(f, g, b, n) == f[0] = b /\ \A i \in 1 .. n : f[i] = g[<<i, f[i - 1]>>]

LEMMA Iterated ==
  ASSUME NEW S, NEW b \in S, NEW n \in Nat, NEW g \in [(1 .. n) \X S -> S]
  PROVE  \E f \in [0 .. n -> S] : Follows(f, g, b, n)
<1> DEFINE Begun(f, m) == f[0] = b /\ \A i \in 1 .. m : f[i] = g[<<i, f[i - 1]>>]
           P == {m \in 0 .. n : \E f \in [0 .. m -> S] : Begun(f, m)}
<1>1. 0 \in P
  <2> DEFINE h == [i \in 0 .. 0 |-> b]
  <2>1. h \in [0 .. 0 -> S] /\ Begun(h, 0)
    OBVIOUS
  <2> HIDE DEF h, Begun
  <2>2. QED
    BY <2>1
<1>2. ASSUME NEW m \in 1 .. n, m - 1 \in P PROVE m \in P
  <2>1. PICK f \in [0 .. m - 1 -> S] : Begun(f, m - 1)
    BY <1>2
  <2> DEFINE h == [i \in 0 .. m |-> IF i = m THEN g[<<m, f[m - 1]>>] ELSE f[i]]
  <2>2. h \in [0 .. m -> S] /\ h[0] = b
    <3>1. g[<<m, f[m - 1]>>] \in S
      BY <2>1
    <3>2. ASSUME NEW i \in 0 .. m PROVE h[i] \in S
      BY <2>1, <3>1
    <3>3. QED
      BY <2>1, <3>2
  <2>3. ASSUME NEW i \in 1 .. m PROVE h[i] = g[<<i, h[i - 1]>>]
    <3>1. h[i - 1] = f[i - 1]
      OBVIOUS
    <3>2. CASE i = m
      <4>1. m \in 0 .. m /\ h[m] = g[<<m, f[m - 1]>>]
        OBVIOUS
      <4> HIDE DEF h
      <4>2. QED
        BY <3>1, <3>2, <4>1
    <3>3. CASE i # m
      <4>1. i \in 1 .. m - 1 /\ h[i] = f[i]
        BY <3>3
      <4>2. QED
        BY <2>1, <3>1, <4>1
    <3>4. QED
      BY <3>2, <3>3
  <2>4. Begun(h, m)
    BY <2>2, <2>3
  <2> HIDE DEF h, Begun
  <2>5. QED
    BY <2>2, <2>4
<1>3. n \in P
  <2> HIDE DEF P
  <2>1. 0 .. n \subseteq P
    BY <1>1, <1>2, Reaches
  <2>2. QED
    BY <2>1
<1>4. QED
  BY <1>3 DEF Follows

-----------------------------------------------------------------------------
(***************************************************************************)
(* Strings, put together of strings                                        *)
(***************************************************************************)
Mark == Char \cup {"#"}
Text == Seq(Mark)

\* A function that puts strings together, one by one.
Joins(f, strings) ==
  /\ f \in [0 .. Len(strings) -> Text] /\ f[0] = <<>>
  /\ \A k \in 1 .. Len(strings) : f[k] = f[k - 1] \o strings[k]

LEMMA JoinedBy ==
  ASSUME NEW strings \in Seq(Text)
  PROVE  \E f : Joins(f, strings) /\ Joined(strings) = f[Len(strings)]
<1> DEFINE n == Len(strings)
           g == [x \in (1 .. n) \X Text |-> x[2] \o strings[x[1]]]
           step(f) == [k \in 0 .. n |-> IF k = 0 THEN <<>> ELSE f[k - 1] \o strings[k]]
           upto == CHOOSE f : f = step(f)
<1>1. n \in Nat /\ <<>> \in Text /\ \A k \in 1 .. n : strings[k] \in Text
  BY DEF Text
<1>2. ASSUME NEW t \in Text, NEW k \in 1 .. n PROVE t \o strings[k] \in Text
  BY <1>1 DEF Text
<1> HIDE DEF n
<1>3. g \in [(1 .. n) \X Text -> Text]
  BY <1>2
<1>4. PICK f0 \in [0 .. n -> Text] : Follows(f0, g, <<>>, n)
  <2> HIDE DEF g
  <2>1. QED
    BY <1>1, <1>3, Iterated
<1>5. ASSUME NEW k \in 1 .. n PROVE f0[k] = f0[k - 1] \o strings[k]
  <2>1. f0[k - 1] \in Text
    BY <1>1, <1>4
  <2>2. g[<<k, f0[k - 1]>>] = f0[k - 1] \o strings[k]
    BY <2>1
  <2>3. QED
    BY <1>4, <2>2 DEF Follows
<1>6. f0 = step(f0)
  <2>1. ASSUME NEW k \in 0 .. n PROVE f0[k] = IF k = 0 THEN <<>> ELSE f0[k - 1] \o strings[k]
    <3>1. CASE k = 0
      BY <1>4, <3>1 DEF Follows
    <3>2. CASE k # 0
      <4>1. k \in 1 .. n
        BY <1>1, <3>2
      <4>2. QED
        BY <1>5, <3>2, <4>1
    <3>3. QED
      BY <3>1, <3>2
  <2>2. QED
    BY <1>4, <2>1
<1>7. upto = step(upto)
  <2> HIDE DEF step
  <2>1. QED
    BY <1>6
<1> HIDE DEF upto
<1>8. upto[0] = <<>> /\ upto = [k \in 0 .. n |-> upto[k]]
  BY <1>1, <1>7
<1>9. ASSUME NEW k \in 1 .. n PROVE upto[k] = upto[k - 1] \o strings[k]
  <2>1. k \in 0 .. n /\ k # 0
    BY <1>1
  <2>2. QED
    BY <1>7, <2>1
<1> HIDE DEF step, g
<1>10. \A k \in 0 .. n : upto[k] \in Text
  <2> DEFINE P == {k \in 0 .. n : upto[k] \in Text}
  <2>1. 0 \in P
    BY <1>1, <1>8
  <2>2. ASSUME NEW k \in 1 .. n, k - 1 \in P PROVE k \in P
    <3>1. upto[k - 1] \in Text /\ k \in 0 .. n
      BY <1>1, <2>2
    <3>2. QED
      BY <1>2, <1>9, <3>1
  <2> HIDE DEF P
  <2>3. 0 .. n \subseteq P
    BY <1>1, <2>1, <2>2, Reaches
  <2>4. QED
    BY <2>3 DEF P
<1>11. upto \in [0 .. n -> Text]
  BY <1>8, <1>10
<1>12. Joined(strings) = upto[n]
  BY DEF Joined, upto, step, n
<1>13. QED
  BY <1>8, <1>9, <1>11, <1>12 DEF Joins, n

\* The same, said place by place.
LEMMA JoinedSteps ==
  ASSUME NEW strings \in Seq(Text)
  PROVE  \E f : /\ f[0] = <<>> /\ Joined(strings) = f[Len(strings)]
                /\ \A i \in 0 .. Len(strings) : f[i] \in Seq(Mark)
                /\ \A i \in 1 .. Len(strings) :
                     f[i - 1] \in Seq(Mark) /\ strings[i] \in Seq(Mark) /\ f[i] = f[i - 1] \o strings[i]
<1>1. PICK f : Joins(f, strings) /\ Joined(strings) = f[Len(strings)]
  BY JoinedBy
<1>2. ASSUME NEW i \in 0 .. Len(strings) PROVE f[i] \in Seq(Mark)
  BY <1>1 DEF Joins, Text
<1>3. ASSUME NEW i \in 1 .. Len(strings)
      PROVE  f[i - 1] \in Seq(Mark) /\ strings[i] \in Seq(Mark) /\ f[i] = f[i - 1] \o strings[i]
  <2>1. i - 1 \in 0 .. Len(strings)
    OBVIOUS
  <2>2. strings[i] \in Text
    OBVIOUS
  <2>3. QED
    BY <1>1, <1>2, <2>1, <2>2 DEF Joins, Text
<1>4. QED
  BY <1>1, <1>2, <1>3 DEF Joins

LEMMA JoinedIs == ASSUME NEW strings \in Seq(Text) PROVE Joined(strings) \in Text
<1>1. PICK f : Joins(f, strings) /\ Joined(strings) = f[Len(strings)]
  BY JoinedBy
<1>2. Len(strings) \in 0 .. Len(strings)
  OBVIOUS
<1>3. QED
  BY <1>1, <1>2 DEF Joins

LEMMA Regrouped ==
  ASSUME NEW a \in Seq(Mark), NEW b \in Seq(Mark), NEW c \in Seq(Mark)
  PROVE  (a \o b) \o c = a \o (b \o c)
  BY ConcatAssociative

\* Putting together goes through concatenation.
LEMMA JoinedConcat ==
  ASSUME NEW a \in Seq(Text), NEW b \in Seq(Text)
  PROVE  Joined(a \o b) = Joined(a) \o Joined(b)
<1> DEFINE c == a \o b
           m == Len(a)
           n == Len(b)
<1>1. /\ m \in Nat /\ n \in Nat /\ c \in Seq(Text) /\ Len(c) = m + n
      /\ \A k \in 1 .. m : c[k] = a[k] /\ a[k] \in Text
      /\ \A k \in 1 .. n : c[m + k] = b[k] /\ b[k] \in Text
  OBVIOUS
<1>2. PICK f : /\ f[0] = <<>> /\ Joined(a) = f[m]
               /\ \A i \in 0 .. m : f[i] \in Seq(Mark)
               /\ \A i \in 1 .. m :
                     f[i - 1] \in Seq(Mark) /\ a[i] \in Seq(Mark) /\ f[i] = f[i - 1] \o a[i]
  BY JoinedSteps
<1>3. PICK g : /\ g[0] = <<>> /\ Joined(b) = g[n]
               /\ \A i \in 0 .. n : g[i] \in Seq(Mark)
               /\ \A i \in 1 .. n :
                     g[i - 1] \in Seq(Mark) /\ b[i] \in Seq(Mark) /\ g[i] = g[i - 1] \o b[i]
  BY JoinedSteps
<1> HIDE DEF c
<1>4. PICK h : /\ h[0] = <<>> /\ Joined(c) = h[Len(c)]
               /\ \A i \in 0 .. Len(c) : h[i] \in Seq(Mark)
               /\ \A i \in 1 .. Len(c) :
                     h[i - 1] \in Seq(Mark) /\ c[i] \in Seq(Mark) /\ h[i] = h[i - 1] \o c[i]
  BY <1>1, JoinedSteps
<1> HIDE DEF m, n
<1> DEFINE P == {k \in 0 .. m : h[k] = f[k]}
           Q == {k \in 0 .. n : h[m + k] = f[m] \o g[k]}
<1>5. 0 .. m \subseteq P
  <2>1. 0 \in P
    BY <1>1, <1>2, <1>4
  <2>2. ASSUME NEW k \in 1 .. m, k - 1 \in P PROVE k \in P
    <3>1. k \in 1 .. Len(c) /\ k \in 0 .. m /\ h[k - 1] = f[k - 1]
      BY <1>1, <2>2
    <3>2. h[k] = h[k - 1] \o c[k]
      BY <1>4, <3>1
    <3>3. f[k] = f[k - 1] \o a[k] /\ c[k] = a[k]
      BY <1>1, <1>2
    <3>4. QED
      BY <3>1, <3>2, <3>3
  <2> HIDE DEF P
  <2>3. QED
    BY <1>1, <2>1, <2>2, Reaches
<1>6. f[m] \in Seq(Mark) /\ h[m] = f[m]
  <2>1. m \in 0 .. m
    BY <1>1
  <2>2. QED
    BY <1>2, <1>5, <2>1
<1>7. 0 .. n \subseteq Q
  <2>1. 0 \in Q
    <3>1. m + 0 = m /\ 0 \in 0 .. n
      BY <1>1
    <3>2. f[m] \o <<>> = f[m]
      BY <1>6
    <3>3. QED
      BY <1>3, <1>6, <3>1, <3>2
  <2>2. ASSUME NEW k \in 1 .. n, k - 1 \in Q PROVE k \in Q
    <3>1. /\ (m + k) - 1 = m + (k - 1) /\ k - 1 \in 0 .. n /\ k \in 0 .. n
          /\ m + k \in 1 .. Len(c)
      BY <1>1
    <3>2. h[m + k] = h[(m + k) - 1] \o c[m + k]
      BY <1>4, <3>1
    <3>3. h[m + k] = (f[m] \o g[k - 1]) \o b[k]
      BY <1>1, <2>2, <3>1, <3>2
    <3>4. g[k - 1] \in Seq(Mark) /\ b[k] \in Seq(Mark) /\ g[k] = g[k - 1] \o b[k]
      BY <1>3
    <3>5. (f[m] \o g[k - 1]) \o b[k] = f[m] \o (g[k - 1] \o b[k])
      BY <1>6, <3>4, Regrouped
    <3>6. QED
      BY <3>1, <3>3, <3>4, <3>5
  <2> HIDE DEF Q
  <2>3. QED
    BY <1>1, <2>1, <2>2, Reaches
<1>8. h[m + n] = f[m] \o g[n]
  <2>1. n \in 0 .. n
    BY <1>1
  <2>2. QED
    BY <1>7, <2>1
<1>9. QED
  BY <1>1, <1>2, <1>3, <1>4, <1>8 DEF c

\* One string, and one string more, put together.
LEMMA JoinedMore ==
  ASSUME NEW strings \in Seq(Text), NEW t \in Text
  PROVE  Joined(Append(strings, t)) = Joined(strings) \o t
<1> DEFINE c == Append(strings, t)
           n == Len(strings)
<1>1. /\ c \in Seq(Text) /\ Len(c) = n + 1 /\ c[n + 1] = t /\ n \in Nat
      /\ \A k \in 1 .. n : c[k] = strings[k]
  OBVIOUS
<1> HIDE DEF c
<1>2. PICK f : /\ f[0] = <<>> /\ Joined(strings) = f[n]
               /\ \A i \in 0 .. n : f[i] \in Seq(Mark)
               /\ \A i \in 1 .. n :
                    f[i - 1] \in Seq(Mark) /\ strings[i] \in Seq(Mark) /\ f[i] = f[i - 1] \o strings[i]
  BY JoinedSteps
<1>3. PICK h : /\ h[0] = <<>> /\ Joined(c) = h[Len(c)]
               /\ \A i \in 0 .. Len(c) : h[i] \in Seq(Mark)
               /\ \A i \in 1 .. Len(c) :
                    h[i - 1] \in Seq(Mark) /\ c[i] \in Seq(Mark) /\ h[i] = h[i - 1] \o c[i]
  BY <1>1, JoinedSteps
<1> HIDE DEF n
<1> DEFINE P == {k \in 0 .. n : h[k] = f[k]}
<1>4. 0 \in P
  <2>1. 0 \in 0 .. n /\ h[0] = f[0]
    BY <1>1, <1>2, <1>3
  <2>2. QED
    BY <2>1
<1>5. ASSUME NEW k \in 1 .. n, k - 1 \in P PROVE k \in P
  <2>1. k \in 1 .. Len(c) /\ k \in 0 .. n /\ h[k - 1] = f[k - 1]
    BY <1>1, <1>5
  <2>2. h[k] = h[k - 1] \o c[k]
    BY <1>3, <2>1
  <2>3. QED
    BY <1>1, <1>2, <2>1, <2>2
<1> HIDE DEF P
<1>6. 0 .. n \subseteq P
  BY <1>1, <1>4, <1>5, Reaches
<1>7. h[n] = f[n]
  <2>1. n \in 0 .. n
    BY <1>1
  <2>2. QED
    BY <1>6, <2>1 DEF P
<1>8. h[n + 1] = h[n] \o t
  <2>1. n + 1 \in 1 .. Len(c) /\ (n + 1) - 1 = n
    BY <1>1
  <2>2. QED
    BY <1>1, <1>3, <2>1
<1>9. QED
  BY <1>1, <1>2, <1>3, <1>7, <1>8 DEF c

\* What is in a string put together is in one of its parts.
LEMMA JoinedHas ==
  ASSUME NEW strings \in Seq(Text), NEW k \in DOMAIN Joined(strings)
  PROVE  \E i \in DOMAIN strings : \E j \in DOMAIN strings[i] : Joined(strings)[k] = strings[i][j]
<1> DEFINE n == Len(strings)
           In(c) == \E i \in 1 .. n : \E j \in DOMAIN strings[i] : c = strings[i][j]
<1>1. n \in Nat /\ DOMAIN strings = 1 .. n
  OBVIOUS
<1>2. PICK f : /\ f[0] = <<>> /\ Joined(strings) = f[n]
               /\ \A i \in 0 .. n : f[i] \in Seq(Mark)
               /\ \A i \in 1 .. n :
                    f[i - 1] \in Seq(Mark) /\ strings[i] \in Seq(Mark) /\ f[i] = f[i - 1] \o strings[i]
  BY JoinedSteps
<1> HIDE DEF n, In
<1> DEFINE P == {i \in 0 .. n : \A j \in DOMAIN f[i] : In(f[i][j])}
<1>3. 0 \in P
  BY <1>1, <1>2
<1>4. ASSUME NEW i \in 1 .. n, i - 1 \in P PROVE i \in P
  <2> DEFINE a == f[i - 1]
             b == strings[i]
  <2>1. a \in Seq(Mark) /\ b \in Seq(Mark) /\ f[i] = a \o b
    BY <1>2
  <2>2. \A j \in DOMAIN a : In(a[j])
    BY <1>4
  <2>3. \A j \in DOMAIN b : In(b[j])
    BY DEF In
  <2> HIDE DEF a, b
  <2>4. ASSUME NEW j \in DOMAIN (a \o b) PROVE In((a \o b)[j])
    <3>1. j \in 1 .. Len(a) + Len(b) /\ Len(a) \in Nat /\ Len(b) \in Nat
      BY <2>1
    <3>2. CASE j <= Len(a)
      <4>1. j \in DOMAIN a /\ (a \o b)[j] = a[j]
        BY <2>1, <3>1, <3>2
      <4>2. QED
        BY <2>2, <4>1
    <3>3. CASE ~(j <= Len(a))
      <4>1. j - Len(a) \in DOMAIN b /\ (a \o b)[j] = b[j - Len(a)]
        BY <2>1, <3>1, <3>3
      <4>2. QED
        BY <2>3, <4>1
    <3>4. QED
      BY <3>2, <3>3
  <2>5. i \in 0 .. n
    BY <1>1
  <2>6. QED
    BY <2>1, <2>4, <2>5
<1> HIDE DEF P
<1>5. 0 .. n \subseteq P
  BY <1>1, <1>3, <1>4, Reaches
<1>6. n \in P
  BY <1>1, <1>5
<1>7. In(Joined(strings)[k])
  BY <1>2, <1>6 DEF P
<1>8. QED
  BY <1>1, <1>7 DEF In

-----------------------------------------------------------------------------
(***************************************************************************)
(* Escapes that become hashes                                              *)
(***************************************************************************)
Pair(line, i) == i \in 1 .. Len(line) - 1 /\ line[i] = "\\" /\ line[i + 1] = ":"

Marks(line) ==
  [i \in DOMAIN line |-> IF Pair(line, i) THEN <<"#">>
                         ELSE IF Pair(line, i - 1) THEN <<>> ELSE <<line[i]>>]

\* What the place i of a line becomes.
LEMMA MarksAre ==
  ASSUME NEW line \in Text
  PROVE  /\ Marks(line) \in Seq(Text) /\ Len(Marks(line)) = Len(line)
         /\ \A i \in 1 .. Len(line) :
              Marks(line)[i] = IF Pair(line, i) THEN <<"#">>
                               ELSE IF Pair(line, i - 1) THEN <<>> ELSE <<line[i]>>
<1> DEFINE at(i) == IF Pair(line, i) THEN <<"#">>
                    ELSE IF Pair(line, i - 1) THEN <<>> ELSE <<line[i]>>
           n == Len(line)
<1>1. n \in Nat /\ DOMAIN line = 1 .. n /\ \A i \in 1 .. n : line[i] \in Mark
  BY DEF Text
<1>2. <<"#">> \in Text /\ <<>> \in Text /\ \A i \in 1 .. n : <<line[i]>> \in Text
  BY <1>1 DEF Text, Mark
<1>3. \A i \in 1 .. n : at(i) \in Text
  BY <1>2
<1>4. Marks(line) = [i \in 1 .. n |-> at(i)]
  BY <1>1 DEF Marks
<1> HIDE DEF at, n
<1>5. QED
  BY <1>1, <1>3, <1>4 DEF at, n

LEMMA HashedIs ==
  ASSUME NEW line \in Text
  PROVE  Hashed(line) = Joined(Marks(line)) /\ Hashed(line) \in Text
<1>1. Hashed(line) = Joined(Marks(line))
  BY DEF Hashed, Marks, Pair
<1>2. QED
  BY <1>1, MarksAre, JoinedIs

\* Concatenation, place by place.
LEMMA ConcatIs ==
  ASSUME NEW S, NEW a \in Seq(S), NEW b \in Seq(S)
  PROVE  /\ a \o b \in Seq(S) /\ Len(a \o b) = Len(a) + Len(b)
         /\ \A i \in 1 .. Len(a) : (a \o b)[i] = a[i]
         /\ \A i \in 1 .. Len(b) : (a \o b)[Len(a) + i] = b[i]
  OBVIOUS

\* What is two sequences one after the other is their concatenation.
LEMMA Pasted ==
  ASSUME NEW S, NEW a \in Seq(S), NEW b \in Seq(S), NEW c \in Seq(S),
         Len(c) = Len(a) + Len(b),
         \A i \in 1 .. Len(a) : c[i] = a[i],
         \A i \in 1 .. Len(b) : c[Len(a) + i] = b[i]
  PROVE  c = a \o b
<1>1. /\ a \o b \in Seq(S) /\ Len(a \o b) = Len(c) /\ Len(a) \in Nat /\ Len(b) \in Nat
      /\ Len(c) \in Nat
  BY ConcatIs
<1>2. ASSUME NEW i \in 1 .. Len(c) PROVE (a \o b)[i] = c[i]
  <2>1. CASE i <= Len(a)
    <3>1. i \in 1 .. Len(a)
      BY <1>1, <2>1
    <3>2. QED
      BY <3>1, ConcatIs
  <2>2. CASE ~(i <= Len(a))
    <3>1. i - Len(a) \in 1 .. Len(b) /\ Len(a) + (i - Len(a)) = i
      BY <1>1, <2>2
    <3>2. c[Len(a) + (i - Len(a))] = b[i - Len(a)]
      BY <3>1
    <3>3. (a \o b)[Len(a) + (i - Len(a))] = b[i - Len(a)]
      BY <3>1, ConcatIs
    <3>4. QED
      BY <3>1, <3>2, <3>3
  <2>3. QED
    BY <2>1, <2>2
<1>3. QED
  BY <1>1, <1>2, SeqEqual

\* A line may be cut wherever no escape is cut.
Uncut(a, b) == a = <<>> \/ b = <<>> \/ a[Len(a)] # "\\" \/ b[1] # ":"

LEMMA MarksConcat ==
  ASSUME NEW a \in Text, NEW b \in Text, Uncut(a, b)
  PROVE  Marks(a \o b) = Marks(a) \o Marks(b)
<1> DEFINE c == a \o b
           m == Len(a)
           n == Len(b)
<1>1. /\ m \in Nat /\ n \in Nat /\ c \in Text /\ Len(c) = m + n
      /\ \A i \in 1 .. m : c[i] = a[i]
      /\ \A i \in 1 .. n : c[m + i] = b[i]
  BY ConcatIs DEF Text
<1>2. (m > 0 /\ n > 0) => (a[m] # "\\" \/ b[1] # ":")
  BY DEF Uncut, Text
<1> HIDE DEF c
<1>3. /\ Marks(c) \in Seq(Text) /\ Len(Marks(c)) = m + n
      /\ \A i \in 1 .. m + n :
           Marks(c)[i] = IF Pair(c, i) THEN <<"#">>
                         ELSE IF Pair(c, i - 1) THEN <<>> ELSE <<c[i]>>
  BY <1>1, MarksAre
<1>4. /\ Marks(a) \in Seq(Text) /\ Len(Marks(a)) = m
      /\ \A i \in 1 .. m :
           Marks(a)[i] = IF Pair(a, i) THEN <<"#">>
                         ELSE IF Pair(a, i - 1) THEN <<>> ELSE <<a[i]>>
  BY MarksAre
<1>5. /\ Marks(b) \in Seq(Text) /\ Len(Marks(b)) = n
      /\ \A i \in 1 .. n :
           Marks(b)[i] = IF Pair(b, i) THEN <<"#">>
                         ELSE IF Pair(b, i - 1) THEN <<>> ELSE <<b[i]>>
  BY MarksAre
<1>6. \A i : Pair(a, i) <=> i \in 1 .. m - 1 /\ a[i] = "\\" /\ a[i + 1] = ":"
  BY DEF Pair
<1>7. \A i : Pair(b, i) <=> i \in 1 .. n - 1 /\ b[i] = "\\" /\ b[i + 1] = ":"
  BY DEF Pair
<1>8. \A i : Pair(c, i) <=> i \in 1 .. (m + n) - 1 /\ c[i] = "\\" /\ c[i + 1] = ":"
  BY <1>1 DEF Pair
<1> HIDE DEF m, n
<1>9. ASSUME NEW i \in 0 .. m PROVE Pair(c, i) <=> Pair(a, i)
  <2>1. CASE i \in 1 .. m - 1
    <3>1. i + 1 \in 1 .. m /\ i \in 1 .. m /\ i \in 1 .. (m + n) - 1
      BY <1>1, <2>1
    <3>2. QED
      BY <1>1, <1>6, <1>8, <2>1, <3>1
  <2>2. CASE i = 0
    BY <1>6, <1>8, <2>2
  <2>3. CASE i = m /\ m > 0 /\ n > 0
    <3>1. m \in 1 .. m /\ 1 \in 1 .. n
      BY <1>1, <2>3
    <3>2. c[i] = a[m] /\ c[i + 1] = b[1]
      BY <1>1, <2>3, <3>1
    <3>3. ~Pair(c, i) /\ ~(i \in 1 .. m - 1)
      BY <1>1, <1>2, <1>8, <2>3, <3>2
    <3>4. QED
      BY <1>6, <3>3
  <2>4. CASE i = m /\ n = 0
    <3>1. ~(i \in 1 .. m - 1) /\ ~(i \in 1 .. (m + n) - 1)
      BY <1>1, <2>4
    <3>2. QED
      BY <1>6, <1>8, <3>1
  <2>5. QED
    BY <1>1, <2>1, <2>2, <2>3, <2>4
<1>10. ASSUME NEW i \in 1 .. n PROVE Pair(c, m + i) <=> Pair(b, i)
  <2>1. CASE i \in 1 .. n - 1
    <3>1. i + 1 \in 1 .. n /\ m + i \in 1 .. (m + n) - 1 /\ (m + i) + 1 = m + (i + 1)
      BY <1>1, <2>1
    <3>2. c[m + i] = b[i] /\ c[(m + i) + 1] = b[i + 1]
      BY <1>1, <3>1
    <3>3. QED
      BY <1>7, <1>8, <2>1, <3>1, <3>2
  <2>2. CASE i = n
    <3>1. ~(i \in 1 .. n - 1) /\ ~(m + i \in 1 .. (m + n) - 1)
      BY <1>1, <2>2
    <3>2. QED
      BY <1>7, <1>8, <3>1
  <2>3. QED
    BY <1>1, <2>1, <2>2
<1>11. ~Pair(c, m) /\ ~Pair(b, 0)
  <2>1. m \in 0 .. m /\ ~(m \in 1 .. m - 1) /\ ~(0 \in 1 .. n - 1)
    BY <1>1
  <2>2. QED
    BY <1>6, <1>7, <1>9, <2>1
<1>12. ASSUME NEW i \in 1 .. m PROVE Marks(c)[i] = Marks(a)[i]
  <2>1. i \in 1 .. m + n /\ i \in 0 .. m /\ i - 1 \in 0 .. m
    BY <1>1
  <2>2. Pair(c, i) <=> Pair(a, i)
    BY <1>9, <2>1
  <2>3. Pair(c, i - 1) <=> Pair(a, i - 1)
    BY <1>9, <2>1
  <2>4. QED
    BY <1>1, <1>3, <1>4, <2>1, <2>2, <2>3
<1>13. ASSUME NEW i \in 1 .. n PROVE Marks(c)[m + i] = Marks(b)[i]
  <2>1. m + i \in 1 .. m + n
    BY <1>1
  <2>2. Pair(c, m + i) <=> Pair(b, i)
    BY <1>10
  <2>3. Pair(c, (m + i) - 1) <=> Pair(b, i - 1)
    <3>1. CASE i = 1
      <4>1. (m + i) - 1 = m /\ i - 1 = 0
        BY <1>1, <3>1
      <4>2. QED
        BY <1>11, <4>1
    <3>2. CASE i # 1
      <4>1. i - 1 \in 1 .. n /\ (m + i) - 1 = m + (i - 1)
        BY <1>1, <3>2
      <4>2. QED
        BY <1>10, <4>1
    <3>3. QED
      BY <3>1, <3>2
  <2>4. QED
    BY <1>1, <1>3, <1>5, <2>1, <2>2, <2>3
<1> DEFINE r == Marks(c)
           p == Marks(a)
           q == Marks(b)
<1> HIDE DEF r, p, q
<1>14. /\ r \in Seq(Text) /\ p \in Seq(Text) /\ q \in Seq(Text)
       /\ Len(p) = m /\ Len(q) = n /\ Len(r) = m + n
       /\ \A i \in 1 .. m : r[i] = p[i]
       /\ \A i \in 1 .. n : r[m + i] = q[i]
  BY <1>3, <1>4, <1>5, <1>12, <1>13 DEF r, p, q
<1>15. r = p \o q
  BY <1>1, <1>14, Pasted
<1>16. QED
  BY <1>15 DEF r, p, q, c

LEMMA HashedConcat ==
  ASSUME NEW a \in Text, NEW b \in Text, Uncut(a, b)
  PROVE  Hashed(a \o b) = Hashed(a) \o Hashed(b)
<1>1. a \o b \in Text
  BY ConcatIs DEF Text
<1>2. Marks(a) \in Seq(Text) /\ Marks(b) \in Seq(Text)
  BY MarksAre
<1>3. Joined(Marks(a \o b)) = Joined(Marks(a)) \o Joined(Marks(b))
  BY <1>2, MarksConcat, JoinedConcat
<1>4. QED
  BY <1>1, <1>3, HashedIs

-----------------------------------------------------------------------------
(***************************************************************************)
(* A line of nmcli                                                         *)
(***************************************************************************)
LEMMA JoinedNone == Joined(<<>>) = <<>>
<1> DEFINE none == <<>>
<1>1. none \in Seq(Text) /\ Len(none) = 0
  OBVIOUS
<1> HIDE DEF none
<1>2. PICK f : f[0] = <<>> /\ Joined(none) = f[Len(none)]
  BY <1>1, JoinedSteps
<1>3. QED
  BY <1>1, <1>2 DEF none

LEMMA JoinedOne == ASSUME NEW t \in Text PROVE Joined(<<t>>) = t
<1>1. <<>> \in Seq(Text) /\ Append(<<>>, t) = <<t>>
  OBVIOUS
<1>2. Joined(<<t>>) = <<>> \o t
  BY <1>1, JoinedMore, JoinedNone
<1>3. <<>> \o t = t
  BY DEF Text
<1>4. QED
  BY <1>2, <1>3

\* A place more.
LEMMA HashedMore ==
  ASSUME NEW t \in Text, NEW c \in Mark, t = <<>> \/ t[Len(t)] # "\\" \/ c # ":"
  PROVE  Hashed(Append(t, c)) = Append(Hashed(t), c)
<1> DEFINE one == <<c>>
<1>1. one \in Text /\ Len(one) = 1 /\ one[1] = c /\ DOMAIN one = {1}
  BY DEF Text
<1>2. t \o one = Append(t, c) /\ \A u \in Text : u \o one = Append(u, c)
  BY DEF Text
<1>3. Uncut(t, one)
  BY <1>1 DEF Uncut
<1>4. <<one>> \in Seq(Text) /\ Len(<<one>>) = 1 /\ <<one>>[1] = one
  BY <1>1
<1> HIDE DEF one
<1>5. ~Pair(one, 1) /\ ~Pair(one, 0)
  BY <1>1 DEF Pair
<1>6. Marks(one) \in Seq(Text) /\ Len(Marks(one)) = 1 /\ Marks(one)[1] = one
  <2>1. /\ Marks(one) \in Seq(Text) /\ Len(Marks(one)) = 1
        /\ Marks(one)[1] = IF Pair(one, 1) THEN <<"#">>
                           ELSE IF Pair(one, 1 - 1) THEN <<>> ELSE <<one[1]>>
    BY <1>1, MarksAre
  <2>2. <<one[1]>> = one
    BY <1>1 DEF one
  <2>3. QED
    BY <1>5, <2>1, <2>2
<1>7. Marks(one) = <<one>>
  BY <1>4, <1>6, SeqEqual
<1>8. Hashed(one) = one
  BY <1>1, <1>7, HashedIs, JoinedOne
<1>9. Hashed(t \o one) = Hashed(t) \o one
  BY <1>1, <1>3, <1>8, HashedConcat
<1>10. QED
  BY <1>2, <1>9, HashedIs

LEMMA HashedNone == Hashed(<<>>) = <<>>
<1> DEFINE none == <<>>
<1>1. none \in Text /\ Len(none) = 0
  BY DEF Text
<1> HIDE DEF none
<1>2. Marks(none) \in Seq(Text) /\ Len(Marks(none)) = 0
  BY <1>1, MarksAre
<1>3. Marks(none) = <<>>
  BY <1>2
<1>4. QED
  BY <1>1, <1>3, HashedIs, JoinedNone DEF none

LEMMA HashedEscape == Hashed(<<"\\", ":">>) = <<"#">>
<1> DEFINE two == <<"\\", ":">>
           marks == <<<<"#">>, <<>>>>
<1>1. two \in Text /\ Len(two) = 2 /\ two[1] = "\\" /\ two[2] = ":"
  BY DEF Text, Mark, Char
<1>2. /\ <<"#">> \in Text /\ <<>> \in Text /\ <<<<"#">>>> \in Seq(Text)
      /\ marks \in Seq(Text) /\ Len(marks) = 2 /\ marks[1] = <<"#">> /\ marks[2] = <<>>
      /\ marks = Append(<<<<"#">>>>, <<>>)
  BY DEF Text, Mark
<1> HIDE DEF two, marks
<1>3. Pair(two, 1) /\ ~Pair(two, 2)
  BY <1>1 DEF Pair
<1>4. /\ Marks(two) \in Seq(Text) /\ Len(Marks(two)) = 2
      /\ Marks(two)[1] = <<"#">> /\ Marks(two)[2] = <<>>
  <2>1. \A i \in 1 .. 2 :
          Marks(two)[i] = IF Pair(two, i) THEN <<"#">>
                          ELSE IF Pair(two, i - 1) THEN <<>> ELSE <<two[i]>>
    BY <1>1, MarksAre
  <2>2. QED
    BY <1>1, <1>3, <2>1, MarksAre
<1>5. Marks(two) = marks
  BY <1>2, <1>4, SeqEqual
<1>6. Joined(marks) = <<"#">> \o <<>>
  BY <1>2, JoinedMore, JoinedOne
<1>7. QED
  BY <1>1, <1>5, <1>6, HashedIs DEF two

\* A text in which every colon is escaped, and what is left of it after the hashes.
Guarded(text) == \A i \in 1 .. Len(text) : text[i] = ":" => i > 1 /\ text[i - 1] = "\\"

NoColon(text) == \A i \in 1 .. Len(text) : text[i] # ":"

LEMMA HashedHides ==
  ASSUME NEW text \in Text, Guarded(text)
  PROVE  NoColon(Hashed(text))
<1>1. Hashed(text) = Joined(Marks(text)) /\ Hashed(text) \in Text /\ Marks(text) \in Seq(Text)
  BY HashedIs, MarksAre
<1>2. SUFFICES ASSUME NEW k \in 1 .. Len(Hashed(text)), Hashed(text)[k] = ":" PROVE FALSE
  BY DEF NoColon
<1>3. k \in DOMAIN Joined(Marks(text))
  BY <1>1 DEF Text
<1>4. PICK i \in DOMAIN Marks(text) : \E j \in DOMAIN Marks(text)[i] :
         Joined(Marks(text))[k] = Marks(text)[i][j]
  BY <1>1, <1>3, JoinedHas
<1>5. PICK j \in DOMAIN Marks(text)[i] : Marks(text)[i][j] = ":"
  BY <1>1, <1>2, <1>4
<1>6. i \in 1 .. Len(text) /\ Len(text) \in Nat
  BY <1>1, MarksAre DEF Text
<1>7. Marks(text)[i] = IF Pair(text, i) THEN <<"#">>
                       ELSE IF Pair(text, i - 1) THEN <<>> ELSE <<text[i]>>
  BY <1>6, MarksAre
<1>8. CASE Pair(text, i)
  BY <1>5, <1>7, <1>8
<1>9. CASE ~Pair(text, i) /\ Pair(text, i - 1)
  BY <1>5, <1>7, <1>9
<1>10. CASE ~Pair(text, i) /\ ~Pair(text, i - 1)
  <2>1. text[i] = ":"
    BY <1>5, <1>7, <1>10
  <2>2. i > 1 /\ text[i - 1] = "\\"
    BY <1>6, <2>1 DEF Guarded
  <2>3. i - 1 \in 1 .. Len(text) - 1 /\ (i - 1) + 1 = i
    BY <1>6, <2>2
  <2>4. QED
    BY <1>10, <2>1, <2>2, <2>3 DEF Pair
<1>11. QED
  BY <1>8, <1>9, <1>10

\* A name on the line: its colons are escaped, and its last character is its own.
LEMMA EscapedIs ==
  ASSUME NEW name \in Name
  PROVE  /\ Escaped(name) \in Text /\ Guarded(Escaped(name))
         /\ Len(Escaped(name)) > 0
         /\ Escaped(name)[Len(Escaped(name))] = name[Len(name)]
<1>1. PICK n \in 1 .. MaxName : name \in [1 .. n -> Char]
  BY DEF Name
<1>2. n \in Nat /\ n > 0 /\ name \in Seq(Char) /\ Len(name) = n /\ DOMAIN name = 1 .. n
      /\ \A i \in 1 .. n : name[i] \in Char
  BY <1>1, OsScriptsAssumption
<1> DEFINE part(i) == IF name[i] = "x" THEN <<"x">> ELSE <<"\\", name[i]>>
           parts == [i \in 1 .. n |-> part(i)]
<1>3. ASSUME NEW i \in 1 .. n
      PROVE  /\ part(i) \in Text /\ part(i) \in Seq(Mark)
             /\ Len(part(i)) > 0 /\ part(i)[Len(part(i))] = name[i]
             /\ Guarded(part(i))
  <2>1. CASE name[i] = "x"
    BY <2>1 DEF Text, Mark, Char, Guarded
  <2>2. CASE name[i] # "x"
    <3> DEFINE two == <<"\\", name[i]>>
    <3>1. name[i] \in Mark /\ "\\" \in Mark
      BY <1>2 DEF Mark, Char
    <3>2. two \in Text /\ Len(two) = 2 /\ two[1] = "\\" /\ two[2] = name[i]
      BY <3>1 DEF Text
    <3>3. part(i) = two
      BY <2>2
    <3> HIDE DEF two, part
    <3>4. Guarded(two)
      BY <3>2 DEF Guarded
    <3>5. two \in Seq(Mark) /\ Len(two) > 0 /\ two[Len(two)] = name[i]
      BY <3>2 DEF Text
    <3>6. QED
      BY <3>2, <3>3, <3>4, <3>5
  <2>3. QED
    BY <2>1, <2>2
<1> HIDE DEF part
<1>4. parts \in Seq(Text) /\ Len(parts) = n /\ \A i \in 1 .. n : parts[i] = part(i)
  BY <1>2, <1>3
<1>5. Escaped(name) = Joined(parts)
  BY <1>2 DEF Escaped, part
<1> HIDE DEF parts
<1>6. PICK f : /\ f[0] = <<>> /\ Joined(parts) = f[n]
               /\ \A i \in 0 .. n : f[i] \in Seq(Mark)
               /\ \A i \in 1 .. n :
                    f[i - 1] \in Seq(Mark) /\ parts[i] \in Seq(Mark) /\ f[i] = f[i - 1] \o parts[i]
  BY <1>4, JoinedSteps
<1> DEFINE Good(i) == /\ Guarded(f[i])
                      /\ i > 0 => Len(f[i]) > 0 /\ f[i][Len(f[i])] = name[i]
           P == {i \in 0 .. n : Good(i)}
<1>7. 0 \in P
  <2>1. Guarded(<<>>)
    BY DEF Guarded
  <2>2. QED
    BY <1>2, <1>6, <2>1
<1>8. ASSUME NEW i \in 1 .. n, i - 1 \in P PROVE i \in P
  <2> DEFINE a == f[i - 1]
             b == parts[i]
  <2>1. /\ a \in Seq(Mark) /\ b \in Seq(Mark) /\ f[i] = a \o b
        /\ Guarded(a) /\ Guarded(b) /\ Len(b) > 0 /\ b[Len(b)] = name[i]
    BY <1>3, <1>4, <1>6, <1>8
  <2> HIDE DEF a, b
  <2>2. /\ Len(a) \in Nat /\ Len(b) \in Nat
        /\ a \o b \in Seq(Mark) /\ Len(a \o b) = Len(a) + Len(b)
        /\ \A j \in 1 .. Len(a) : (a \o b)[j] = a[j]
        /\ \A j \in 1 .. Len(b) : (a \o b)[Len(a) + j] = b[j]
    BY <2>1, ConcatIs
  <2>3. (a \o b)[Len(a) + Len(b)] = name[i]
    BY <2>1, <2>2
  <2>4. ASSUME NEW j \in 1 .. Len(a \o b), (a \o b)[j] = ":"
        PROVE  j > 1 /\ (a \o b)[j - 1] = "\\"
    <3>1. CASE j \in 1 .. Len(a)
      <4>1. a[j] = ":"
        BY <2>2, <2>4, <3>1
      <4>2. j > 1 /\ a[j - 1] = "\\"
        BY <2>1, <3>1, <4>1 DEF Guarded
      <4>3. j - 1 \in 1 .. Len(a)
        BY <2>2, <3>1, <4>2
      <4>4. QED
        BY <2>2, <4>2, <4>3
    <3>2. CASE ~(j \in 1 .. Len(a))
      <4>1. PICK k \in 1 .. Len(b) : j = Len(a) + k
        <5>1. j - Len(a) \in 1 .. Len(b) /\ j = Len(a) + (j - Len(a))
          BY <2>2, <3>2
        <5>2. QED
          BY <5>1
      <4>2. b[k] = ":"
        BY <2>2, <2>4, <4>1
      <4>3. k > 1 /\ b[k - 1] = "\\"
        BY <2>1, <4>2 DEF Guarded
      <4>4. k - 1 \in 1 .. Len(b) /\ j - 1 = Len(a) + (k - 1)
        BY <2>2, <4>1, <4>3
      <4>5. QED
        BY <2>2, <4>1, <4>3, <4>4
    <3>3. QED
      BY <3>1, <3>2
  <2>5. Guarded(a \o b)
    BY <2>4 DEF Guarded
  <2>6. Len(a \o b) > 0 /\ (a \o b)[Len(a \o b)] = name[i]
    BY <2>1, <2>2, <2>3
  <2>7. Good(i)
    BY <2>1, <2>5, <2>6
  <2>8. i \in 0 .. n
    BY <1>2
  <2> HIDE DEF Good
  <2>9. QED
    BY <2>7, <2>8
<1> HIDE DEF P
<1>9. 0 .. n \subseteq P
  BY <1>2, <1>7, <1>8, Reaches
<1>10. n \in 0 .. n /\ Good(n)
  <2>1. n \in P
    BY <1>2, <1>9
  <2>2. QED
    BY <2>1 DEF P
<1> HIDE DEF Good
<1>11. f[n] \in Seq(Mark) /\ Guarded(f[n]) /\ Len(f[n]) > 0 /\ f[n][Len(f[n])] = name[n]
  BY <1>2, <1>6, <1>10 DEF Good
<1>12. QED
  BY <1>2, <1>5, <1>6, <1>11 DEF Text

\* What comes before the name on the line, and what it is turned into.
Prefix == <<"x", ":", "x", "\\", ":", "x", ":">>
Shown == <<"x", ":", "x", "#", "x", ":">>

\* Strings, written out.
LEMMA AppendTwo ==
  ASSUME NEW S, NEW s \in Seq(S), NEW c \in S, NEW d \in S
  PROVE  Append(Append(s, c), d) = s \o <<c, d>>
  OBVIOUS

LEMMA EscapedBssid == Escaped(<<"x", ":", "x">>) = <<"x", "\\", ":", "x">>
<1> DEFINE name == <<"x", ":", "x">>
           parts == [i \in DOMAIN name |-> IF name[i] = "x" THEN <<"x">> ELSE <<"\\", name[i]>>]
           x == <<"x">>
           e == <<"\\", ":">>
<1>1. x \in Text /\ e \in Text /\ <<x>> \in Seq(Text) /\ <<x, e>> \in Seq(Text)
  BY DEF Text, Mark, Char
<1>2. parts = <<x, e, x>>
  <2>1. DOMAIN name = 1 .. 3 /\ name[1] = "x" /\ name[2] = ":" /\ name[3] = "x"
    OBVIOUS
  <2> DEFINE three == <<x, e, x>>
  <2>2. Len(three) = 3 /\ three[1] = x /\ three[2] = e /\ three[3] = x /\ three \in Seq(Text)
    BY <1>1
  <2>3. parts \in Seq(Text) /\ Len(parts) = 3 /\ parts[1] = x /\ parts[2] = e /\ parts[3] = x
    <3>1. \A i \in 1 .. 3 : parts[i] \in Text
      BY <1>1, <2>1
    <3>2. parts = [i \in 1 .. 3 |-> parts[i]]
      BY <2>1
    <3>3. QED
      BY <2>1, <3>1, <3>2
  <2> HIDE DEF three, parts
  <2>4. \A i \in 1 .. 3 : parts[i] = three[i]
    BY <2>2, <2>3
  <2>5. parts = three
    BY <2>2, <2>3, <2>4, SeqEqual
  <2>6. QED
    BY <2>5 DEF three
<1>3. (x \o e) \o x = <<"x", "\\", ":", "x">>
  <2>1. "x" \in Mark /\ "\\" \in Mark /\ ":" \in Mark
    BY DEF Mark, Char
  <2> DEFINE s == <<"x", "\\">>
             t == <<"x", "\\", ":">>
             u == <<"x", "\\", ":", "x">>
  <2>2. x \in Seq(Mark) /\ s = Append(x, "\\") /\ t = Append(s, ":") /\ u = Append(t, "x")
    BY <2>1
  <2>3. \A r \in Seq(Mark) : r \o x = Append(r, "x")
    BY <2>1
  <2>4. \A r \in Seq(Mark) : r \o e = Append(Append(r, "\\"), ":")
    BY <2>1, AppendTwo
  <2> HIDE DEF s, t, u, x, e
  <2>5. \A r \in Seq(Mark) : \A k \in Mark : Append(r, k) \in Seq(Mark)
    OBVIOUS
  <2>6. x \o e = t
    BY <2>2, <2>4
  <2>7. t \in Seq(Mark)
    BY <2>1, <2>2, <2>5
  <2>8. t \o x = u
    BY <2>2, <2>3, <2>7
  <2>9. QED
    BY <2>6, <2>8 DEF u
<1> HIDE DEF x, e
<1>4. Joined(<<x, e>>) = x \o e
  <2>1. <<x, e>> = Append(<<x>>, e)
    OBVIOUS
  <2>2. QED
    BY <1>1, <2>1, JoinedMore, JoinedOne
<1>5. Joined(<<x, e, x>>) = Joined(<<x, e>>) \o x
  <2>1. <<x, e, x>> = Append(<<x, e>>, x)
    OBVIOUS
  <2>2. QED
    BY <1>1, <2>1, JoinedMore
<1>6. Escaped(name) = Joined(parts)
  BY DEF Escaped
<1>7. QED
  BY <1>2, <1>3, <1>4, <1>5, <1>6

LEMMA LineIs ==
  ASSUME NEW name \in Name
  PROVE  Line(name) = ((Prefix \o Escaped(name)) \o <<":">>) \o <<"x">>
<1> DEFINE a == <<"x", ":">>
           b == <<"x", "\\", ":", "x">>
           c == <<":">>
           d == <<"x">>
           e == Escaped(name)
<1>1. a \in Text /\ b \in Text /\ c \in Text /\ d \in Text
  BY DEF Text, Mark, Char
<1>2. e \in Text
  BY EscapedIs
<1>3. (a \o b) \o c = Prefix
  <2>1. "x" \in Mark /\ "\\" \in Mark /\ ":" \in Mark
    BY DEF Mark, Char
  <2> DEFINE s == <<"x", ":">>
             t == <<"x", ":", "x">>
             u == <<"x", ":", "x", "\\">>
             v == <<"x", ":", "x", "\\", ":">>
             w == <<"x", ":", "x", "\\", ":", "x">>
  <2>2. /\ s \in Seq(Mark) /\ t = Append(s, "x") /\ u = Append(t, "\\") /\ v = Append(u, ":")
        /\ w = Append(v, "x") /\ Prefix = Append(w, ":")
    BY <2>1 DEF Prefix
  <2> HIDE DEF s, t, u, v, w
  <2>3. QED
    BY <2>1, <2>2 DEF s
<1>4. Line(name) = Joined(<<a, b, c, e, c, d>>)
  BY EscapedBssid DEF Line
<1> HIDE DEF a, b, c, d, e
<1>5. /\ <<a>> \in Seq(Text) /\ <<a, b>> \in Seq(Text) /\ <<a, b, c>> \in Seq(Text)
      /\ <<a, b, c, e>> \in Seq(Text) /\ <<a, b, c, e, c>> \in Seq(Text)
  BY <1>1, <1>2
<1>6. Joined(<<a, b>>) = a \o b
  <2>1. <<a, b>> = Append(<<a>>, b)
    OBVIOUS
  <2>2. QED
    BY <1>1, <1>5, <2>1, JoinedMore, JoinedOne
<1>7. Joined(<<a, b, c>>) = Prefix
  <2>1. <<a, b, c>> = Append(<<a, b>>, c)
    OBVIOUS
  <2>2. QED
    BY <1>1, <1>3, <1>5, <1>6, <2>1, JoinedMore
<1>8. Joined(<<a, b, c, e>>) = Prefix \o e
  <2>1. <<a, b, c, e>> = Append(<<a, b, c>>, e)
    OBVIOUS
  <2>2. QED
    BY <1>2, <1>5, <1>7, <2>1, JoinedMore
<1>9. Joined(<<a, b, c, e, c>>) = (Prefix \o e) \o c
  <2>1. <<a, b, c, e, c>> = Append(<<a, b, c, e>>, c)
    OBVIOUS
  <2>2. QED
    BY <1>1, <1>5, <1>8, <2>1, JoinedMore
<1>10. Joined(<<a, b, c, e, c, d>>) = ((Prefix \o e) \o c) \o d
  <2>1. <<a, b, c, e, c, d>> = Append(<<a, b, c, e, c>>, d)
    OBVIOUS
  <2>2. QED
    BY <1>1, <1>5, <1>9, <2>1, JoinedMore
<1>11. QED
  BY <1>4, <1>10 DEF c, d, e

LEMMA PrefixHashed == Hashed(Prefix) = Shown
<1> DEFINE none == <<>>
           r == <<"x">>
           s == <<"x", ":">>
           t == <<"x", ":", "x">>
           u == <<"x", ":", "x", "\\">>
           v == <<"x", ":", "x", "\\", ":">>
           w == <<"x", ":", "x", "\\", ":", "x">>
           y == <<"x", ":", "x", "#">>
           z == <<"x", ":", "x", "#", "x">>
           escape == <<"\\", ":">>
           hash == <<"#">>
<1>1. "x" \in Mark /\ "\\" \in Mark /\ ":" \in Mark /\ "#" \in Mark
  BY DEF Mark, Char
<1>2. /\ none \in Text /\ r = Append(none, "x") /\ s = Append(r, ":") /\ t = Append(s, "x")
      /\ u = Append(t, "\\") /\ v = Append(u, ":") /\ w = Append(v, "x") /\ Prefix = Append(w, ":")
      /\ y = Append(t, "#") /\ z = Append(y, "x") /\ Shown = Append(z, ":")
  BY <1>1 DEF Prefix, Shown, Text
<1>3. escape \in Text /\ escape = Append(Append(<<>>, "\\"), ":")
  BY <1>1 DEF Text
<1>4. ASSUME NEW a \in Text PROVE a \o escape = Append(Append(a, "\\"), ":")
  BY <1>1, AppendTwo DEF Text
<1>5. ASSUME NEW a \in Text PROVE a \o hash = Append(a, "#")
  BY <1>1 DEF Text
<1>6. ASSUME NEW a \in Text, NEW c \in Mark
      PROVE  Append(a, c) \in Text /\ Append(a, c)[Len(Append(a, c))] = c
  BY DEF Text
<1>7. Hashed(none) = none /\ Hashed(escape) = hash
  BY HashedNone, HashedEscape
<1> HIDE DEF none, r, s, t, u, v, w, y, z, escape, hash
<1>8. r \in Text /\ s \in Text /\ t \in Text /\ u \in Text /\ v \in Text /\ w \in Text
  BY <1>1, <1>2, <1>6
<1>9. "x" # "\\" /\ "x" # ":"
  OBVIOUS
<1>10. Hashed(r) = r
  BY <1>1, <1>2, <1>7, <1>9, HashedMore
<1>11. Hashed(s) = s
  <2>1. r[Len(r)] = "x"
    BY <1>1, <1>2, <1>6
  <2>2. Hashed(Append(r, ":")) = Append(Hashed(r), ":")
    BY <1>1, <1>8, <1>9, <2>1, HashedMore
  <2>3. QED
    BY <1>2, <1>10, <2>2
<1>12. Hashed(t) = t
  BY <1>1, <1>2, <1>8, <1>9, <1>11, HashedMore
<1>13. Hashed(v) = y
  <2>1. t[Len(t)] = "x"
    BY <1>1, <1>2, <1>6, <1>8
  <2>2. Uncut(t, escape)
    BY <1>9, <2>1 DEF Uncut
  <2>3. Hashed(t \o escape) = Hashed(t) \o Hashed(escape)
    BY <1>3, <1>8, <2>2, HashedConcat
  <2>4. QED
    BY <1>2, <1>4, <1>5, <1>7, <1>8, <1>12, <2>3
<1>14. Hashed(w) = z
  <2>1. Hashed(Append(v, "x")) = Append(Hashed(v), "x")
    BY <1>1, <1>8, <1>9, HashedMore
  <2>2. QED
    BY <1>2, <1>13, <2>1
<1>15. Hashed(Append(w, ":")) = Append(z, ":")
  <2>1. w[Len(w)] = "x"
    BY <1>1, <1>2, <1>6, <1>8
  <2>2. QED
    BY <1>1, <1>8, <1>9, <1>14, <2>1, HashedMore
<1>16. QED
  BY <1>2, <1>15

LEMMA PrefixIs == Prefix \in Text /\ Prefix[Len(Prefix)] = ":" /\ Shown \in Text
  BY DEF Prefix, Shown, Text, Mark, Char

\* The line of a name that does not end with a backslash ...
LEMMA LineHashed ==
  ASSUME NEW name \in Name, name[Len(name)] # "\\"
  PROVE  Hashed(Line(name)) = Append(Append(Shown \o Hashed(Escaped(name)), ":"), "x")
<1> DEFINE e == Escaped(name)
           a == Prefix \o e
<1>1. e \in Text /\ Len(e) > 0 /\ e[Len(e)] # "\\"
  BY EscapedIs
<1> HIDE DEF e
<1>2. "x" \in Mark /\ ":" \in Mark /\ "x" # ":" /\ ":" # "\\"
  BY DEF Mark, Char
<1>3. Uncut(Prefix, e)
  BY <1>2, PrefixIs DEF Uncut
<1>4. a \in Text /\ a[Len(a)] # "\\"
  <2>1. /\ a \in Text /\ Len(a) = Len(Prefix) + Len(e) /\ Len(e) \in Nat
        /\ \A i \in 1 .. Len(e) : a[Len(Prefix) + i] = e[i]
    BY <1>1, PrefixIs, ConcatIs DEF Text
  <2>2. Len(e) \in 1 .. Len(e)
    BY <1>1, <2>1
  <2>3. QED
    BY <1>1, <2>1, <2>2
<1>5. Hashed(a) = Shown \o Hashed(e)
  BY <1>1, <1>3, PrefixIs, PrefixHashed, HashedConcat
<1> HIDE DEF a
<1>6. Line(name) = Append(Append(a, ":"), "x")
  <2>1. \A t \in Text : t \o <<":">> = Append(t, ":") /\ t \o <<"x">> = Append(t, "x")
    BY <1>2 DEF Text
  <2>2. Append(a, ":") \in Text
    BY <1>2, <1>4 DEF Text
  <2>3. Line(name) = (a \o <<":">>) \o <<"x">>
    BY LineIs DEF a, e
  <2>4. QED
    BY <1>4, <2>1, <2>2, <2>3
<1>7. Append(a, ":") \in Text
  BY <1>2, <1>4 DEF Text
<1>8. Hashed(Append(a, ":")) = Append(Hashed(a), ":")
  BY <1>2, <1>4, HashedMore
<1>9. Hashed(Append(Append(a, ":"), "x")) = Append(Hashed(Append(a, ":")), "x")
  BY <1>2, <1>7, HashedMore
<1>10. QED
  BY <1>5, <1>6, <1>8, <1>9 DEF e

\* ... and of one that does: the colon after it is taken for an escaped one.
LEMMA LineMissed ==
  ASSUME NEW name \in Name, name[Len(name)] = "\\"
  PROVE  \E h \in Text :
           NoColon(h) /\ Hashed(Line(name)) = Append(Append(Shown \o h, "#"), "x")
<1> DEFINE e == Escaped(name)
           n == Len(e) - 1
           s == SubSeq(e, 1, n)
           a == Prefix \o s
           escape == <<"\\", ":">>
           hash == <<"#">>
<1>1. e \in Text /\ Guarded(e) /\ Len(e) > 0 /\ Len(e) \in Nat /\ e[Len(e)] = "\\"
  BY EscapedIs DEF Text
<1> HIDE DEF e
<1>2. "x" \in Mark /\ ":" \in Mark /\ "\\" \in Mark /\ "#" \in Mark /\ "x" # ":" /\ ":" # "\\"
  BY DEF Mark, Char
<1>3. n \in Nat /\ s \in Text /\ Len(s) = n /\ \A i \in 1 .. n : s[i] = e[i]
  <2>1. n \in Nat /\ \A i \in 1 .. n : i \in 1 .. Len(e)
    BY <1>1
  <2>2. \A i \in 1 .. n : e[i] \in Mark
    BY <1>1, <2>1 DEF Text
  <2> HIDE DEF n
  <2>3. s = [i \in 1 .. n |-> e[i]]
    BY <1>1, <2>1 DEF Text
  <2> HIDE DEF s
  <2>4. QED
    BY <2>1, <2>2, <2>3 DEF Text
<1> HIDE DEF s
<1>4. e = Append(s, "\\")
  <2>1. /\ Append(s, "\\") \in Seq(Mark) /\ e \in Seq(Mark) /\ Len(Append(s, "\\")) = n + 1
        /\ Append(s, "\\")[n + 1] = "\\" /\ \A i \in 1 .. n : Append(s, "\\")[i] = s[i]
    BY <1>1, <1>2, <1>3 DEF Text
  <2>2. ASSUME NEW i \in 1 .. Len(e) PROVE Append(s, "\\")[i] = e[i]
    <3>1. i \in 1 .. n \/ (i = n + 1 /\ i = Len(e))
      BY <1>1, <1>3
    <3>2. QED
      BY <1>1, <1>3, <2>1, <3>1
  <2>3. Len(e) = n + 1
    BY <1>1
  <2>4. QED
    BY <2>1, <2>2, <2>3, SeqEqual
<1>5. Guarded(s)
  <2>1. ASSUME NEW i \in 1 .. Len(s), s[i] = ":" PROVE i > 1 /\ s[i - 1] = "\\"
    <3>1. i \in 1 .. Len(e) /\ i \in 1 .. n
      BY <1>1, <1>3
    <3>2. i > 1 /\ e[i - 1] = "\\"
      BY <1>1, <1>3, <2>1, <3>1 DEF Guarded
    <3>3. i - 1 \in 1 .. n
      BY <1>3, <3>1, <3>2
    <3>4. QED
      BY <1>3, <3>2, <3>3
  <2>2. QED
    BY <2>1 DEF Guarded
<1> HIDE DEF n
<1>6. NoColon(Hashed(s)) /\ Hashed(s) \in Text
  BY <1>3, <1>5, HashedHides, HashedIs
<1>7. Hashed(a) = Shown \o Hashed(s) /\ a \in Text
  <2>1. Uncut(Prefix, s)
    BY <1>2, PrefixIs DEF Uncut
  <2>2. QED
    BY <1>3, <2>1, PrefixIs, PrefixHashed, HashedConcat, ConcatIs DEF Text
<1>8. Line(name) = Append(a \o escape, "x")
  <2>1. \A t \in Text : /\ t \o <<":">> = Append(t, ":") /\ t \o <<"x">> = Append(t, "x")
                        /\ t \o <<"\\">> = Append(t, "\\")
    BY <1>2 DEF Text
  <2>2. \A t \in Text : t \o escape = Append(Append(t, "\\"), ":")
    BY <1>2, AppendTwo DEF Text
  <2>3. Line(name) = ((Prefix \o e) \o <<":">>) \o <<"x">>
    BY LineIs DEF e
  <2>4. Prefix \o e = Append(a, "\\")
    <3>1. Prefix \o (s \o <<"\\">>) = (Prefix \o s) \o <<"\\">>
      <4>1. <<"\\">> \in Seq(Mark)
        BY <1>2
      <4>2. QED
        BY <1>3, <4>1, PrefixIs, Regrouped DEF Text
    <3>2. QED
      BY <1>3, <1>4, <1>7, <2>1, <3>1
  <2> HIDE DEF a, escape
  <2>5. \A t \in Text : \A c \in Mark : Append(t, c) \in Text
    BY DEF Text
  <2>6. Append(a, "\\") \in Text /\ Append(Append(a, "\\"), ":") \in Text
    BY <1>2, <1>7, <2>5
  <2>7. QED
    BY <1>7, <2>1, <2>2, <2>3, <2>4, <2>6
<1>9. escape \in Text /\ a \o escape \in Text
  <2>1. escape \in Text
    BY <1>2 DEF Text
  <2> HIDE DEF a, escape
  <2>2. QED
    BY <1>7, <2>1, ConcatIs DEF Text
<1>10. Hashed(a \o escape) = Hashed(a) \o hash
  <2>1. Uncut(a, escape)
    BY <1>2 DEF Uncut
  <2>2. Hashed(escape) = hash
    BY HashedEscape
  <2> HIDE DEF a, escape, hash
  <2>3. QED
    BY <1>7, <1>9, <2>1, <2>2, HashedConcat
<1>11. Hashed(a) \in Text /\ Hashed(a) \o hash = Append(Hashed(a), "#")
  <2> HIDE DEF a
  <2>1. Hashed(a) \in Text
    BY <1>7, HashedIs
  <2>2. QED
    BY <1>2, <2>1 DEF Text
<1> HIDE DEF a, escape, hash
<1>12. Hashed(Line(name)) = Append(Hashed(a \o escape), "x")
  BY <1>2, <1>8, <1>9, HashedMore
<1>13. QED
  BY <1>6, <1>7, <1>10, <1>11, <1>12

-----------------------------------------------------------------------------
(***************************************************************************)
(* The fields                                                              *)
(***************************************************************************)
\* A place that is alone in having so many colons before it is where a field ends.
Colons(text) == {i \in DOMAIN text : text[i] = ":"}

End(text, n) == CHOOSE i \in Colons(text) \cup {Len(text) + 1} :
                  Cardinality({k \in Colons(text) : k < i}) = n - 1

LEMMA FieldsAre ==
  ASSUME NEW text,
         NEW m, m = Cardinality(Colons(text)) + 1
  PROVE  /\ DOMAIN Fields(text) = 1 .. m
         /\ \A n \in 1 .. m :
              Fields(text)[n] = SubSeq(text, IF n = 1 THEN 1 ELSE End(text, n - 1) + 1,
                                       End(text, n) - 1)
  BY DEF Fields, Colons, End

LEMMA Counted ==
  ASSUME NEW i \in Nat, NEW j \in Nat, NEW k \in Nat, i < j, j < k
  PROVE  /\ Cardinality({}) = 0 /\ Cardinality({i}) = 1
         /\ Cardinality({i, j}) = 2 /\ Cardinality({i, j, k}) = 3
<1>1. Cardinality({}) = 0
  BY FS_EmptySet
<1>2. IsFiniteSet({i}) /\ Cardinality({i}) = 1
  BY FS_Singleton
<1>3. IsFiniteSet({i} \cup {j}) /\ Cardinality({i} \cup {j}) = 2
  <2>1. j \notin {i}
    OBVIOUS
  <2>2. QED
    BY <1>2, <2>1, FS_AddElement
<1>4. {i, j} = {i} \cup {j} /\ {i, j, k} = {i, j} \cup {k} /\ k \notin {i, j}
  OBVIOUS
<1>5. Cardinality({i, j, k}) = 3
  BY <1>3, <1>4, FS_AddElement
<1>6. QED
  BY <1>1, <1>2, <1>3, <1>4, <1>5

\* A text that begins as every line does.
Rest(h, c, d) == Append(Append(Shown \o h, c), d)

LEMMA RestIs ==
  ASSUME NEW h \in Text, NEW c \in Mark, NEW d \in Mark
  PROVE  /\ Rest(h, c, d) \in Text /\ Len(h) \in Nat /\ Len(Rest(h, c, d)) = Len(h) + 8
         /\ \A i \in 1 .. 6 : Rest(h, c, d)[i] = Shown[i]
         /\ \A i \in 1 .. Len(h) : Rest(h, c, d)[6 + i] = h[i]
         /\ Rest(h, c, d)[Len(h) + 7] = c /\ Rest(h, c, d)[Len(h) + 8] = d
<1> DEFINE a == Shown \o h
           b == Append(a, c)
           t == Append(b, d)
           n == Len(h)
<1>1. Shown \in Text /\ Len(Shown) = 6
  BY PrefixIs DEF Shown
<1>2. /\ a \in Seq(Mark) /\ n \in Nat /\ Len(a) = 6 + n
      /\ \A i \in 1 .. 6 : a[i] = Shown[i]
      /\ \A i \in 1 .. n : a[6 + i] = h[i]
  <2>1. Shown \in Seq(Mark) /\ h \in Seq(Mark)
    BY <1>1 DEF Text
  <2>2. /\ a \in Seq(Mark) /\ Len(a) = Len(Shown) + n
        /\ \A i \in 1 .. Len(Shown) : a[i] = Shown[i]
        /\ \A i \in 1 .. n : a[Len(Shown) + i] = h[i]
    BY <2>1, ConcatIs
  <2> HIDE DEF a
  <2>3. n \in Nat
    BY <2>1
  <2>4. QED
    BY <1>1, <2>2, <2>3
<1> HIDE DEF a, n
<1>3. b \in Seq(Mark) /\ Len(b) = n + 7 /\ b[n + 7] = c /\ \A i \in 1 .. n + 6 : b[i] = a[i]
  BY <1>2
<1> HIDE DEF b
<1>4. t \in Seq(Mark) /\ Len(t) = n + 8 /\ t[n + 8] = d /\ \A i \in 1 .. n + 7 : t[i] = b[i]
  BY <1>2, <1>3
<1> HIDE DEF t
<1>5. ASSUME NEW i \in 1 .. 6 PROVE t[i] = Shown[i]
  <2>1. i \in 1 .. n + 6 /\ i \in 1 .. n + 7
    BY <1>2
  <2>2. QED
    BY <1>2, <1>3, <1>4, <2>1
<1>6. ASSUME NEW i \in 1 .. n PROVE t[6 + i] = h[i]
  <2>1. 6 + i \in 1 .. n + 6 /\ 6 + i \in 1 .. n + 7
    BY <1>2
  <2>2. QED
    BY <1>2, <1>3, <1>4, <2>1
<1>7. t[n + 7] = c
  <2>1. n + 7 \in 1 .. n + 7
    BY <1>2
  <2>2. QED
    BY <1>3, <1>4, <2>1
<1>8. Rest(h, c, d) = t
  BY DEF Rest, t, b, a
<1>9. QED
  BY <1>2, <1>4, <1>5, <1>6, <1>7, <1>8 DEF Text, n

LEMMA ColonsAre ==
  ASSUME NEW h \in Text, NoColon(h), NEW c \in Mark
  PROVE  /\ Len(h) \in Nat
         /\ Colons(Rest(h, c, "x")) = {2, 6} \cup (IF c = ":" THEN {Len(h) + 7} ELSE {})
<1> DEFINE t == Rest(h, c, "x")
           n == Len(h)
<1>1. "x" \in Mark /\ "x" # ":"
  BY DEF Mark, Char
<1>2. /\ t \in Text /\ n \in Nat /\ Len(t) = n + 8
      /\ \A i \in 1 .. 6 : t[i] = Shown[i]
      /\ \A i \in 1 .. n : t[6 + i] = h[i]
      /\ t[n + 7] = c /\ t[n + 8] = "x"
  BY <1>1, RestIs
<1> HIDE DEF t
<1>3. /\ t[1] = "x" /\ t[2] = ":" /\ t[3] = "x" /\ t[4] = "#" /\ t[5] = "x" /\ t[6] = ":"
  <2>1. /\ Shown[1] = "x" /\ Shown[2] = ":" /\ Shown[3] = "x" /\ Shown[4] = "#"
        /\ Shown[5] = "x" /\ Shown[6] = ":"
    BY DEF Shown
  <2>2. QED
    BY <1>2, <2>1
<1>4. DOMAIN t = 1 .. n + 8
  BY <1>2 DEF Text
<1>5. \A i \in 1 .. n : h[i] # ":"
  BY DEF NoColon
<1> HIDE DEF n
<1>6. ASSUME NEW i \in 1 .. n + 8
      PROVE  t[i] = ":" <=> i \in {2, 6} \cup (IF c = ":" THEN {n + 7} ELSE {})
  <2>1. CASE i \in 1 .. 6
    <3>1. ~(i = n + 7)
      BY <1>2, <2>1
    <3>2. i = 1 \/ i = 2 \/ i = 3 \/ i = 4 \/ i = 5 \/ i = 6
      BY <2>1
    <3>3. QED
      BY <1>1, <1>3, <3>1, <3>2
  <2>2. CASE i \in 7 .. n + 6
    <3>1. i - 6 \in 1 .. n /\ 6 + (i - 6) = i /\ i \notin {2, 6} /\ i # n + 7
      BY <1>2, <2>2
    <3>2. t[6 + (i - 6)] = h[i - 6]
      BY <1>2, <3>1
    <3>3. QED
      BY <1>5, <3>1, <3>2
  <2>3. CASE i = n + 7
    <3>1. i \notin {2, 6} /\ t[i] = c
      BY <1>2, <2>3
    <3>2. QED
      BY <2>3, <3>1
  <2>4. CASE i = n + 8
    <3>1. i \notin {2, 6} /\ i # n + 7 /\ t[i] = "x"
      BY <1>2, <2>4
    <3>2. QED
      BY <1>1, <3>1
  <2>5. QED
    BY <1>2, <2>1, <2>2, <2>3, <2>4
<1>7. {2, 6} \cup (IF c = ":" THEN {n + 7} ELSE {}) \subseteq 1 .. n + 8
  BY <1>2
<1>8. Colons(t) = {2, 6} \cup (IF c = ":" THEN {n + 7} ELSE {})
  BY <1>4, <1>6, <1>7 DEF Colons
<1>9. QED
  BY <1>2, <1>8 DEF t, n

\* A field of one character.
LEMMA OneField ==
  ASSUME NEW t, NEW k \in Nat, t[k] \in Mark
  PROVE  SubSeq(t, k, k) = <<t[k]>>
<1> DEFINE s == SubSeq(t, k, k)
           u == <<t[k]>>
<1>1. \A i \in k .. k : t[i] \in Mark
  <2>1. \A i \in k .. k : i = k
    OBVIOUS
  <2>2. QED
    BY <2>1
<1>2. s \in Seq(Mark) /\ Len(s) = 1 /\ s[1] = t[k]
  <2>1. /\ s \in Seq(Mark) /\ Len(s) = IF k <= k THEN k - k + 1 ELSE 0
        /\ \A i \in 1 .. k - k + 1 : s[i] = t[k + i - 1]
    BY <1>1, SubSeqProperties
  <2> HIDE DEF s
  <2>2. k - k + 1 = 1 /\ k <= k /\ k + 1 - 1 = k
    OBVIOUS
  <2>3. QED
    BY <2>1, <2>2
<1>3. u \in Seq(Mark) /\ Len(u) = 1 /\ u[1] = t[k]
  OBVIOUS
<1> HIDE DEF s, u
<1>4. s = u
  BY <1>2, <1>3, SeqEqual
<1>5. QED
  BY <1>4 DEF s, u

\* With a colon after what is in the middle there are four fields ...
LEMMA FourFields ==
  ASSUME NEW h \in Text, NoColon(h)
  PROVE  /\ Len(Fields(Rest(h, ":", "x"))) = 4
         /\ Fields(Rest(h, ":", "x"))[2] = <<"x", "#", "x">>
         /\ Fields(Rest(h, ":", "x"))[3] = h
         /\ Fields(Rest(h, ":", "x"))[4] = <<"x">>
<1> DEFINE t == Rest(h, ":", "x")
           n == Len(h)
           m == n + 7
           Until(i) == Cardinality({k \in Colons(t) : k < i})
<1>1. ":" \in Mark /\ "x" \in Mark /\ "#" \in Mark
  BY DEF Mark, Char
<1>2. /\ t \in Text /\ n \in Nat /\ Len(t) = n + 8
      /\ \A i \in 1 .. 6 : t[i] = Shown[i]
      /\ \A i \in 1 .. n : t[6 + i] = h[i]
      /\ t[n + 8] = "x"
  BY <1>1, RestIs
<1>3. Colons(t) = {2, 6, m}
  BY <1>1, ColonsAre
<1> HIDE DEF t
<1>4. m \in Nat /\ 6 < m /\ Len(t) + 1 = m + 2
  BY <1>2
<1> HIDE DEF n
<1>5. Until(2) = 0 /\ Until(6) = 1 /\ Until(m) = 2 /\ Until(m + 2) = 3 /\ Cardinality({2, 6, m}) = 3
  <2>1. /\ {k \in {2, 6, m} : k < 2} = {} /\ {k \in {2, 6, m} : k < 6} = {2}
        /\ {k \in {2, 6, m} : k < m} = {2, 6} /\ {k \in {2, 6, m} : k < m + 2} = {2, 6, m}
    BY <1>4
  <2> HIDE DEF m
  <2>2. /\ Cardinality({}) = 0 /\ Cardinality({2}) = 1
        /\ Cardinality({2, 6}) = 2 /\ Cardinality({2, 6, m}) = 3
    <3>1. 2 \in Nat /\ 6 \in Nat /\ m \in Nat /\ 2 < 6 /\ 6 < m
      BY <1>4
    <3>2. QED
      BY <3>1, Counted
  <2>3. QED
    BY <1>3, <2>1, <2>2
<1>6. \A p : End(t, p) = CHOOSE i \in {2, 6, m, m + 2} : Until(i) = p - 1
  <2>1. Colons(t) \cup {Len(t) + 1} = {2, 6, m, m + 2}
    BY <1>3, <1>4
  <2> HIDE DEF m
  <2>2. QED
    BY <2>1 DEF End
<1> HIDE DEF Until, m
<1>7. End(t, 1) = 2 /\ End(t, 2) = 6 /\ End(t, 3) = m /\ End(t, 4) = m + 2
  <2>1. ASSUME NEW p \in 1 .. 4, NEW j \in {2, 6, m, m + 2}, Until(j) = p - 1
        PROVE  End(t, p) = j
    <3>1. \A i \in {2, 6, m, m + 2} : Until(i) = p - 1 => i = j
      BY <1>4, <1>5, <2>1
    <3>2. (CHOOSE i \in {2, 6, m, m + 2} : Until(i) = p - 1) = j
      BY <2>1, <3>1
    <3>3. QED
      BY <1>6, <3>2
  <2>2. QED
    BY <1>5, <2>1
<1>8. /\ DOMAIN Fields(t) = 1 .. 4
      /\ \A p \in 1 .. 4 : Fields(t)[p] = SubSeq(t, IF p = 1 THEN 1 ELSE End(t, p - 1) + 1, End(t, p) - 1)
  <2>1. 4 = Cardinality(Colons(t)) + 1
    BY <1>3, <1>5
  <2>2. QED
    BY <2>1, FieldsAre
<1>9. Fields(t)[2] = SubSeq(t, 3, 5) /\ Fields(t)[3] = SubSeq(t, 7, m - 1) /\ Fields(t)[4] = SubSeq(t, m + 1, m + 1)
  <2>1. /\ Fields(t)[2] = SubSeq(t, End(t, 2 - 1) + 1, End(t, 2) - 1)
        /\ Fields(t)[3] = SubSeq(t, End(t, 3 - 1) + 1, End(t, 3) - 1)
        /\ Fields(t)[4] = SubSeq(t, End(t, 4 - 1) + 1, End(t, 4) - 1)
    BY <1>8
  <2>2. /\ 2 - 1 = 1 /\ 3 - 1 = 2 /\ 4 - 1 = 3 /\ 2 + 1 = 3 /\ 6 - 1 = 5 /\ 6 + 1 = 7
        /\ (m + 2) - 1 = m + 1
    BY <1>4
  <2>3. QED
    BY <1>7, <2>1, <2>2
<1>10. DOMAIN t = 1 .. n + 8 /\ \A i \in 1 .. n + 8 : t[i] \in Mark
  BY <1>2 DEF Text
<1>11. SubSeq(t, 3, 5) = <<"x", "#", "x">>
  <2> DEFINE s == SubSeq(t, 3, 5)
             u == <<"x", "#", "x">>
  <2>1. s \in Seq(Mark) /\ Len(s) = 3 /\ \A i \in 1 .. 3 : s[i] = t[2 + i]
    <3>1. \A i \in 3 .. 5 : t[i] \in Mark
      BY <1>2, <1>10
    <3>2. s \in Seq(Mark) /\ Len(s) = 3 /\ \A i \in 1 .. 3 : s[i] = t[3 + i - 1]
      BY <3>1, SubSeqProperties
    <3>3. \A i \in 1 .. 3 : 3 + i - 1 = 2 + i
      OBVIOUS
    <3>4. QED
      BY <3>2, <3>3
  <2>2. u \in Seq(Mark) /\ Len(u) = 3 /\ u[1] = "x" /\ u[2] = "#" /\ u[3] = "x"
    BY <1>1
  <2>3. t[3] = "x" /\ t[4] = "#" /\ t[5] = "x"
    <3>1. Shown[3] = "x" /\ Shown[4] = "#" /\ Shown[5] = "x"
      BY DEF Shown
    <3>2. QED
      BY <1>2, <3>1
  <2> HIDE DEF s, u
  <2>4. \A i \in 1 .. 3 : s[i] = u[i]
    <3>1. s[1] = t[3] /\ s[2] = t[4] /\ s[3] = t[5]
      BY <2>1
    <3>2. QED
      BY <2>2, <2>3, <3>1
  <2>5. QED
    BY <2>1, <2>2, <2>4, SeqEqual DEF s, u
<1>12. SubSeq(t, 7, m - 1) = h
  <2> DEFINE s == SubSeq(t, 7, m - 1)
  <2>1. s \in Seq(Mark) /\ Len(s) = n /\ \A i \in 1 .. n : s[i] = t[6 + i]
    <3>1. m - 1 = n + 6 /\ m - 1 \in Int /\ 7 \in Int
      BY <1>2 DEF m
    <3>2. \A i \in 7 .. n + 6 : t[i] \in Mark
      BY <1>2, <1>10
    <3>3. /\ s \in Seq(Mark) /\ Len(s) = IF 7 <= n + 6 THEN (n + 6) - 7 + 1 ELSE 0
          /\ \A i \in 1 .. (n + 6) - 7 + 1 : s[i] = t[7 + i - 1]
      BY <3>1, <3>2, SubSeqProperties
    <3> HIDE DEF s
    <3>4. (n + 6) - 7 + 1 = n /\ \A i \in 1 .. n : 7 + i - 1 = 6 + i
      BY <1>2
    <3>5. QED
      BY <1>2, <3>3, <3>4
  <2> HIDE DEF s
  <2>2. h \in Seq(Mark) /\ Len(h) = n
    BY DEF Text, n
  <2>3. \A i \in 1 .. n : s[i] = h[i]
    BY <1>2, <2>1
  <2>4. s = h
    BY <2>1, <2>2, <2>3, SeqEqual
  <2>5. QED
    BY <2>4 DEF s
<1>13. SubSeq(t, m + 1, m + 1) = <<"x">>
  <2>1. m + 1 = n + 8 /\ n + 8 \in Nat /\ n + 8 \in 1 .. n + 8
    BY <1>2 DEF m
  <2>2. t[n + 8] \in Mark
    BY <1>10, <2>1
  <2>3. SubSeq(t, n + 8, n + 8) = <<t[n + 8]>>
    BY <2>1, <2>2, OneField
  <2>4. QED
    BY <1>2, <2>1, <2>3
<1>14. Len(Fields(t)) = 4
  BY <1>8
<1>15. QED
  BY <1>9, <1>11, <1>12, <1>13, <1>14 DEF t

\* ... and with a hash, three.
LEMMA ThreeFields ==
  ASSUME NEW h \in Text, NoColon(h)
  PROVE  Len(Fields(Rest(h, "#", "x"))) = 3
<1> DEFINE t == Rest(h, "#", "x")
<1>1. "#" \in Mark /\ "#" # ":"
  BY DEF Mark
<1>2. Colons(t) = {2, 6}
  BY <1>1, ColonsAre
<1>3. Cardinality({2, 6}) = 2
  <2>1. 2 < 6 /\ 6 < 7 /\ 2 \in Nat /\ 6 \in Nat /\ 7 \in Nat
    OBVIOUS
  <2>2. QED
    BY <2>1, Counted
<1> HIDE DEF t
<1>4. DOMAIN Fields(t) = 1 .. 3
  <2>1. 3 = Cardinality(Colons(t)) + 1
    BY <1>2, <1>3
  <2>2. QED
    BY <2>1, FieldsAre
<1>5. Len(Fields(t)) = 3
  BY <1>4
<1>6. QED
  BY <1>5 DEF t

-----------------------------------------------------------------------------
(***************************************************************************)
(* The scan                                                                *)
(***************************************************************************)
LEMMA Right ==
  ASSUME NEW name \in Name, name[Len(name)] # "\\"
  PROVE  /\ Row(Line(name)).bssid = <<"x", ":", "x">> /\ Row(Line(name)).mode = <<"x">>
         /\ Unhashed(Row(Line(name)).ssid) = Unhashed(Hashed(Escaped(name)))
<1> DEFINE h == Hashed(Escaped(name))
           f == Fields(Hashed(Line(name)))
<1>1. h \in Text /\ NoColon(h)
  BY EscapedIs, HashedIs, HashedHides
<1>2. Hashed(Line(name)) = Rest(h, ":", "x")
  BY LineHashed DEF Rest
<1> HIDE DEF h
<1>3. Len(f) = 4 /\ f[2] = <<"x", "#", "x">> /\ f[3] = h /\ f[4] = <<"x">>
  BY <1>1, <1>2, FourFields
<1>4. Row(Line(name)) =
        [bssid |-> Unhashed(f[2]), ssid |-> f[3], mode |-> IF Len(f) < 4 THEN <<>> ELSE f[4]]
  BY DEF Row
<1> HIDE DEF f
<1>5. Unhashed(<<"x", "#", "x">>) = <<"x", ":", "x">>
  BY DEF Unhashed
<1>6. QED
  BY <1>3, <1>4, <1>5 DEF h

LEMMA Wrong ==
  ASSUME NEW name \in Name, name[Len(name)] = "\\"
  PROVE  Row(Line(name)).mode # <<"x">>
<1> DEFINE f == Fields(Hashed(Line(name)))
<1>1. PICK h \in Text : NoColon(h) /\ Hashed(Line(name)) = Rest(h, "#", "x")
  BY LineMissed DEF Rest
<1>2. Len(f) = 3
  BY <1>1, ThreeFields
<1>3. Row(Line(name)) =
        [bssid |-> Unhashed(f[2]), ssid |-> f[3], mode |-> IF Len(f) < 4 THEN <<>> ELSE f[4]]
  BY DEF Row
<1> HIDE DEF f
<1>4. Row(Line(name)).mode = <<>>
  BY <1>2, <1>3
<1>5. <<>> # <<"x">>
  OBVIOUS
<1>6. QED
  BY <1>4, <1>5

\* What a scan gives is the row of a name.
Scanned ==
  scan # None => \E name \in Name : scan = [ssid |-> name, row |-> Row(Line(name))]

LEMMA AlignedIs == ASSUME Scanned PROVE ScanAligned
<1> SUFFICES ASSUME scan # None
             PROVE  (/\ scan.row.bssid = <<"x", ":", "x">> /\ scan.row.mode = <<"x">>
                     /\ Unhashed(scan.row.ssid) = Unhashed(Hashed(Escaped(scan.ssid))))
                    <=> scan.ssid[Len(scan.ssid)] # "\\"
  BY DEF ScanAligned
<1>1. PICK name \in Name : scan = [ssid |-> name, row |-> Row(Line(name))]
  BY DEF Scanned
<1>2. scan.ssid = name /\ scan.row = Row(Line(name))
  BY <1>1
<1>3. CASE name[Len(name)] # "\\"
  BY <1>2, <1>3, Right
<1>4. CASE name[Len(name)] = "\\"
  BY <1>2, <1>4, Wrong
<1>5. QED
  BY <1>3, <1>4

\* The fields of a scanned network are told apart right, colons in its name or not,
\* unless the name ends with a backslash.
THEOREM ScanIsAligned == Spec => []ScanAligned
<1>1. Init => Scanned
  BY DEF Init, Scanned
<1>2. Scanned /\ [Next]_vars => Scanned'
  <2> SUFFICES ASSUME Scanned, [Next]_vars PROVE Scanned'
    OBVIOUS
  <2>1. CASE Scan
    BY <2>1 DEF Scan, Scanned
  <2>2. ASSUME NEW j \in Job, Start(j) PROVE Scanned'
    BY <2>2 DEF Start, Scanned
  <2>3. ASSUME NEW j \in Job, Step(j) \/ Killed(j) PROVE Scanned'
    <3>1. UNCHANGED scan
      BY <2>3 DEF Step, Killed, Read, Open, Write, SudoRuns, SudoAsks, Answers, ExecFails, Exits
    <3>2. QED
      BY <3>1 DEF Scanned
  <2>4. CASE UNCHANGED vars
    BY <2>4 DEF vars, Scanned
  <2>5. QED
    BY <2>1, <2>2, <2>3, <2>4 DEF Next
<1>3. Scanned => ScanAligned
  BY AlignedIs
<1>4. QED
  BY <1>1, <1>2, <1>3, PTL DEF Spec

-----------------------------------------------------------------------------
(***************************************************************************)
(* The life of the programs.  A program that is up has a module that hears *)
(* SIGTERM, and the one whose clients are web sockets hears it too.        *)
(***************************************************************************)
Lives ==
  /\ LifeTypeOK
  /\ hears = inited \cap Hearing
  /\ run = "up" => "http" \in hears
  /\ run # "up" => \A c \in Conn : conn[c] = "none"
  /\ \A c \in Conn : conn[c] = "socket" => "wss" \in hears /\ ~told
  /\ told => link # "open"

LEMMA Programmed ==
  ASSUME NEW p \in Programs
  PROVE  "http" \in Range(ModulesOf[p])
<1>1. p \in {"integration", "os", "public", "virtual"}
  BY LifecycleAssumption DEF ModulesOf
<1>2. \A m \in {IntegrationModules, OsModules, PublicModules, VirtualModules} :
        1 \in DOMAIN m /\ m[1] = "http"
  BY DEF IntegrationModules, OsModules, PublicModules, VirtualModules
<1>3. ModulesOf[p] \in {IntegrationModules, OsModules, PublicModules, VirtualModules}
  BY <1>1 DEF ModulesOf
<1>4. QED
  BY <1>2, <1>3 DEF Range

LEMMA DeadStep == ASSUME Lives, Dead PROVE Lives'
  BY DEF Lives, Dead, LifeTypeOK

LEMMA LifeInitial == LifeInit => Lives
  BY DEF LifeInit, Lives, LifeTypeOK, Hearing

LEMMA LifeStep == ASSUME Lives, [LifeNext]_life PROVE Lives'
<1> USE DEF Lives, LifeTypeOK, Hearing, Looping
<1>1. CASE Boot
  <2> DEFINE modules == Range(ModulesOf[prog])
  <2>1. "http" \in modules
    BY Programmed
  <2>2. /\ run = "boot" /\ run' = "up" /\ open' = TRUE /\ inited' = modules
        /\ hears' = modules \cap Hearing /\ loop' = modules \cap (Looping \ {"wsc"})
        /\ link' \in {"opening", "none"} /\ UNCHANGED <<prog, told, conn>>
    BY <1>1 DEF Boot
  <2> HIDE DEF modules
  <2>3. inited' \subseteq Range(ModulesOf'[prog'])
    BY <2>2 DEF modules, ModulesOf, IntegrationModules, OsModules, PublicModules, VirtualModules
  <2>4. QED
    BY <2>1, <2>2, <2>3
<1>2. CASE BootFails
  BY <1>2, DeadStep DEF BootFails
<1>3. ASSUME NEW c \in Conn, Accept(c) PROVE Lives'
  BY <1>3 DEF Accept
<1>4. ASSUME NEW c \in Conn, Upgrade(c) PROVE Lives'
  BY <1>4 DEF Upgrade, Has
<1>5. ASSUME NEW c \in Conn, NEW path \in Path, Ask(c, path) PROVE Lives'
  <2>1. path # "socket"
    BY Zenon DEF Path, Unreadable, Unfit
  <2>2. QED
    BY <1>5, <2>1 DEF Ask
<1>6. ASSUME NEW c \in Conn, Answer(c) PROVE Lives'
  BY <1>6 DEF Answer
<1>7. ASSUME NEW c \in Conn, Ignore(c) PROVE Lives'
  BY <1>7 DEF Ignore
<1>8. ASSUME NEW c \in Conn, Throws(c) PROVE Lives'
  <2>1. CASE Dead
    BY <2>1, DeadStep
  <2>2. ASSUME NEW v \in {"idle", "silent"}, conn' = [conn EXCEPT ![c] = v],
               UNCHANGED <<prog, run, inited, hears, open, told, link, loop>>, run = "up"
        PROVE  Lives'
    BY <2>2
  <2>3. QED
    BY <1>8, <2>1, <2>2 DEF Throws
<1>9. ASSUME NEW c \in Conn, Leave(c) PROVE Lives'
  BY <1>9 DEF Leave
<1>10. ASSUME NEW up \in BOOLEAN, Connects(up) PROVE Lives'
  BY <1>10 DEF Connects, Connected
<1>11. CASE Wakes
  BY <1>11 DEF Wakes
<1>12. CASE PeerCloses
  BY <1>12 DEF PeerCloses
<1>13. CASE Sigterm
  <2>1. CASE hears = {}
    BY <1>13, <2>1, DeadStep DEF Sigterm
  <2>2. CASE hears # {}
    BY <1>13, <2>2 DEF Sigterm, ClosedAll
  <2>3. QED
    BY <2>1, <2>2
<1>14. CASE Exit
  BY <1>14, DeadStep DEF Exit
<1>15. CASE UNCHANGED life
  BY <1>15 DEF life
<1>16. QED
  BY <1>1, <1>2, <1>3, <1>4, <1>5, <1>6, <1>7, <1>8, <1>9, <1>10, <1>11, <1>12, <1>13, <1>14, <1>15
     DEF LifeNext

LEMMA ProgramLives == LifeSpec => []Lives
  BY LifeInitial, LifeStep, PTL DEF LifeSpec

\* After SIGTERM the program has no web socket, neither one that was opening when
\* the signal came (ws-client.module.ts:35) nor one of a client, however many
\* connections there are and whatever they are doing.
THEOREM SocketsStayClosed == LifeSpec => []StaysClosed
<1>1. Lives => StaysClosed
  BY DEF Lives, StaysClosed
<1>2. QED
  BY <1>1, ProgramLives, PTL

\* No step takes a request that is being handled, be it SIGTERM or a controller
\* that throws for another connection: it is answered (http-server.module.ts:35
\* and 67). The exception is the death that another request brings to a program
\* that does not survive it, where nothing catches what the command explorer
\* throws: at cmd.ui.ts:19, cmd.ctrl.ts:16 and 32, and where a device refuses.
THEOREM RequestsFinish == LifeSpec => FinishesRequests
<1> DEFINE Finishes ==
      \A c \in Conn : conn[c] \in Path /\ Answered(conn[c]) /\ conn'[c] \notin {conn[c], "idle"} =>
        ~Survives(prog) /\ \E d \in Conn \ {c} : conn[d] \in Path /\ Breaking(conn[d])
<1>1. ASSUME Lives, [LifeNext]_life PROVE [Finishes]_life
  <2> USE DEF Lives, LifeTypeOK
  <2> SUFFICES ASSUME NEW c \in Conn, conn[c] \in Path, Answered(conn[c]),
                      conn'[c] \notin {conn[c], "idle"}, LifeNext
               PROVE  /\ ~Survives(prog)
                      /\ \E d \in Conn \ {c} : conn[d] \in Path /\ Breaking(conn[d])
    BY <1>1
  <2> conn[c] \notin {"none", "idle", "silent", "socket"}
    BY Zenon DEF Path, Unreadable, Unfit
  <2> HIDE DEF Lives, LifeTypeOK
  <2>1. run = "up" /\ hears # {} /\ DOMAIN conn = Conn
    BY <1>1 DEF Lives, LifeTypeOK
  <2>2. ~(Boot \/ BootFails \/ Exit \/ Wakes \/ PeerCloses \/ \E up \in BOOLEAN : Connects(up))
    BY <2>1 DEF Boot, BootFails, Exit, Wakes, PeerCloses, Connects
  <2>3. ~Sigterm
    BY <2>1 DEF Sigterm, ClosedAll
  <2>4. ASSUME NEW d \in Conn,
               Accept(d) \/ Upgrade(d) \/ (\E path \in Path : Ask(d, path)) \/ Answer(d) \/ Leave(d)
        PROVE  FALSE
    <3>1. PICK v : conn' = [conn EXCEPT ![d] = v] /\ (v = "idle" \/ conn[d] \in {"none", "idle", "silent", "socket"})
      BY <2>4 DEF Accept, Upgrade, Ask, Answer, Leave
    <3>2. CASE d = c
      BY <2>1, <3>1, <3>2
    <3>3. CASE d # c
      BY <2>1, <3>1, <3>3
    <3>4. QED
      BY <3>2, <3>3
  <2>5. ASSUME NEW d \in Conn, Ignore(d) PROVE FALSE
    BY <2>1, <2>5 DEF Ignore
  <2>6. ASSUME NEW d \in Conn, Throws(d)
        PROVE  ~Survives(prog) /\ d # c /\ conn[d] \in Path /\ Breaking(conn[d])
    <3>1. ~(Answered(conn[c]) /\ Breaking(conn[c]))
      BY DEF Answered, Breaking, Configured, PageRoute, NotificationRoute, ControlRoute,
             FileRoute, CommandRoute, Unreadable, Unfit
    <3>2. /\ conn[d] \in Path /\ Throwing(conn[d])
          /\ \/ conn' = [conn EXCEPT ![d] = IF Caught(@) THEN "idle" ELSE "silent"]
             \/ ~Caught(conn[d]) /\ ~Survives(prog)
      BY <2>6 DEF Throws
    <3>3. CASE conn' = [conn EXCEPT ![d] = IF Caught(@) THEN "idle" ELSE "silent"]
      <4>1. d = c /\ ~Caught(conn[c])
        BY <2>1, <3>3
      <4>2. Breaking(conn[c])
        BY <3>2, <4>1 DEF Throwing, Caught
      <4>3. QED
        BY <3>1, <4>2
    <3>4. CASE ~Caught(conn[d]) /\ ~Survives(prog)
      BY <3>1, <3>2, <3>4 DEF Throwing, Caught
    <3>5. QED
      BY <3>2, <3>3, <3>4
  <2>7. QED
    BY <2>2, <2>3, <2>4, <2>5, <2>6 DEF LifeNext
<1>2. QED
  BY <1>1, ProgramLives, PTL DEF LifeSpec, FinishesRequests
=============================================================================
