----------------------------- MODULE IntServer ------------------------------
(***************************************************************************)
(* The integration server between the system's pulses, the devices and the *)
(* two viewers: the home page's browser and the public server.             *)
(*                                                                         *)
(* Every system pulse makes both owners (HomePageModule and                *)
(* PublicServerModule) query each online device and send what they learned;*)
(* a control command sets a pin and then does the same.  All of it shares  *)
(* the Device objects of DeviceModule.deviceStore, which a notification    *)
(* replaces while runs that captured the old object are still using it.    *)
(* Requests follow module HttpClient: an action here that sends, settles   *)
(* or resumes a request is one action there.                               *)
(***************************************************************************)
EXTENDS Integers, FiniteSets

CONSTANTS Mac,       \* devices that may notify
          KnownMac,  \* those that device.db.json describes
          Pin, Val,  \* the pins of a device and their values
          Owner,     \* "homepage" and "psm", or one of them
          Job,       \* slots for runs of a handler in progress
          None,
          Orders,    \* the <<device, pin, value>> that viewers and shell may command
          Start,     \* how the pins may stand when the server starts
          Budget,    \* bound: disturbances
          Cost,      \* what a disturbance of each kind takes of the bound
          Reliable   \* once Budget is spent devices answer within the timeout

\* The disturbances that are bounded.
Kinds == {"command", "shell", "browser", "silence", "junk", "failure", "timeout"}

ASSUME IntServerAssumption ==
  /\ KnownMac \subseteq Mac
  /\ Owner \subseteq {"homepage", "psm"}
  /\ Orders \subseteq Mac \X Pin \X Val
  /\ Start \subseteq [Mac -> [Pin -> Val]]
  /\ Budget \in Nat
  /\ Reliable \in BOOLEAN
  /\ Mac \cap {"set", "cli"} = {}
  /\ None \notin Val \cup Nat /\ IsFiniteSet(Job)
  /\ Cost \in [Kinds -> Nat \ {0}]

VARIABLES
  stage, listeners, leftover, unhandled, crashed, raised, rawFailed,  \* HttpClient
  reply,       \* the body a request is receiving, None if it is not an array
  store,       \* deviceStore: the devices it has an object for
  heap,        \* the Device objects that something still refers to
  actual,      \* the pins as the device itself holds them
  late,        \* how often a device may still execute a command that was given up
  job,         \* the handler runs in progress
  shell,       \* the shell command in progress, None if there is none
  blocked,     \* owners whose _sysPulseHandlerBlock is set
  lastPulse,   \* owners whose _lastSysPulse is set
  subscribed,  \* owners subscribed to PULSE
  sent,        \* the devices in the last message of each owner to its viewer
  budget,      \* disturbances left
  cmds         \* history: control commands since the start, up to two

http == <<stage, listeners, leftover, unhandled, crashed, raised, rawFailed>>
vars == <<http, reply, store, heap, actual, late, job, shell, blocked, lastPulse,
          subscribed, sent, budget, cmds>>

Set(j) == <<j, "set">>
Cli    == <<"shell", "cli">>
Query(j, m) == <<j, m>>

H == INSTANCE HttpClient WITH Guarded   <- Job \X Mac,
                              Unguarded <- {Set(j) : j \in Job},
                              Raw       <- {Cli}

Req      == H!Req
\* Object <<m, 0>> is the one deviceStore holds for device m; one that was
\* replaced while runs still refer to it goes on under another number.
Gen      == 0 .. Cardinality(Job)
Obj      == Mac \X Gen
Pins     == [Pin -> Val \cup {None}]
Command  == Mac \X Pin \X Val
Unknown  == [p \in Pin |-> None]
NoDevs   == [m \in Mac |-> None]
Stored   == [m \in Mac |-> IF m \in store THEN 0 ELSE None]   \* getDeviceList("*")
Blank    == [fresh |-> FALSE, isOnline |-> FALSE, pins |-> Unknown]
FreeSlot == [kind |-> "free", owner |-> None, cmd |-> None, devs |-> NoDevs]

Free == {j \in Job : job[j].kind = "free"}

\* The run has awaited all its requests: only its last, synchronous part is left.
Finishing(j) == /\ job[j].kind # "free"
                /\ \A x \in Mac \cup {"set"} : stage[<<j, x>>] = "idle"

Quiet == H!Quiet /\ \A j \in Job : ~Finishing(j)

Spend(kind) == budget >= Cost[kind] /\ budget' = budget - Cost[kind]

Init == /\ H!Init
        /\ reply = [r \in Req |-> None]
        /\ store = {}
        /\ heap = [o \in Obj |-> Blank]
        /\ actual \in Start
        /\ late = [c \in Command |-> 0]
        /\ job = [j \in Job |-> FreeSlot]
        /\ shell = None
        /\ blocked = {}
        /\ lastPulse = {}
        /\ subscribed = Owner \ {"homepage"}
        /\ sent = [o \in Owner |-> None]
        /\ budget = Budget
        /\ cmds = 0

-----------------------------------------------------------------------------
(***************************************************************************)
(* Device objects: devices \in [Mac -> Gen \cup {None}] is a list of them. *)
(***************************************************************************)
Referred(devices) == {<<m, devices[m]>> : m \in {n \in Mac : devices[n] # None}}

\* Objects nothing refers to any more are gone.
Collected(h, jobs) ==
  LET live == Referred(Stored) \cup UNION {Referred(jobs[j].devs) : j \in Job}
  IN  [o \in Obj |-> IF o \in live THEN h[o] ELSE Blank]

\* dev.isOnline = dev.checkIsOnline(), for every device of the list.
Checked(h, devices) ==
  [o \in Obj |-> IF o \in Referred(devices) THEN [h[o] EXCEPT !.isOnline = h[o].fresh]
                                            ELSE h[o]]

\* queryState sends a request for the devices seen recently; one without an
\* entry in device.db.json throws before it does, inside the caller's try.
Asked(devices) == {m \in KnownMac : devices[m] # None /\ heap[<<m, devices[m]>>].fresh}

\* What JSON.stringify puts into the pulse.
View(devices) ==
  [m \in Mac |-> IF devices[m] = None THEN None
                 ELSE LET d == heap[<<m, devices[m]>>]
                      IN  [isOnline |-> d.isOnline, pins |-> d.pins]]

\* A reply that is an array replaces every pin the object knew.
Updated(h, o, body) == IF body = None THEN h ELSE [h EXCEPT ![o].pins = body]

\* Mutant of Target: the object the store holds by then.
Target_Store(j, m) == <<m, 0>>

\* The object a run of a handler works on: the one it captured.
Target(j, m) == <<m, job[j].devs[m]>>

Closed(r) == [reply EXCEPT ![r] = None]

-----------------------------------------------------------------------------
(***************************************************************************)
(* Events                                                                  *)
(***************************************************************************)
\* A device notifies: setDevice puts a new object, which knows no pins yet,
\* in place of the old one.
Notify(m) ==
  /\ Quiet
  /\ LET holders == {j \in Job : job[j].devs[m] = 0}
         new     == [Blank EXCEPT !.fresh = TRUE]
     IN  \/ /\ holders = {}
            /\ heap' = [heap EXCEPT ![<<m, 0>>] = new]
            /\ UNCHANGED job
         \/ /\ holders # {}
            /\ LET g == CHOOSE n \in Gen \ {0} : \A j \in Job : job[j].devs[m] # n
               IN  /\ heap' = [heap EXCEPT ![<<m, g>>] = heap[<<m, 0>>], ![<<m, 0>>] = new]
                   /\ job' = [j \in Job |->
                              IF j \in holders THEN [job[j] EXCEPT !.devs[m] = g] ELSE job[j]]
  /\ store' = store \cup {m}
  /\ UNCHANGED <<http, reply, actual, late, shell, blocked, lastPulse, subscribed,
                 sent, budget, cmds>>

\* Two seconds pass since the notification that made this object.
Expire(o) ==
  /\ Quiet
  /\ heap[o].fresh
  /\ heap' = [heap EXCEPT ![o].fresh = FALSE]
  /\ Spend("silence")
  /\ UNCHANGED <<http, reply, store, actual, late, job, shell, blocked, lastPulse,
                 subscribed, sent, cmds>>

\* A browser connects: it replaces the previous one, and the home page
\* subscribes (again: the handler id is the same).
FeConnect ==
  /\ Quiet
  /\ "homepage" \in Owner
  /\ subscribed' = subscribed \cup {"homepage"}
  /\ sent' = [sent EXCEPT !["homepage"] = None]
  /\ IF "homepage" \in subscribed THEN Spend("browser") ELSE UNCHANGED budget
  /\ UNCHANGED <<http, reply, store, heap, actual, late, job, shell, blocked, lastPulse,
                 cmds>>

\* A pulse of the system: every subscribed handler that is not blocked starts.
\* Mutant of Accepting: the flag not consulted.
Accepting_NoBlock == subscribed

Accepting == subscribed \ blocked

\* The run of owner o goes on in slot[o].
Started(slot) ==
  [j \in Job |-> IF \E o \in Accepting : slot[o] = j
               THEN [kind |-> "pulse", owner |-> CHOOSE o \in Accepting : slot[o] = j,
                     cmd |-> None, devs |-> Stored]
               ELSE job[j]]

Queries(slot) == {Query(slot[o], m) : o \in Accepting, m \in Asked(Stored)}

PulseArrives ==
  /\ Quiet
  /\ Accepting # {}
  /\ \E slot \in [Accepting -> Free] :
       /\ \A a, b \in Accepting : slot[a] = slot[b] => a = b
       /\ job' = Started(slot)
       /\ IF Queries(slot) = {} THEN UNCHANGED http ELSE H!Call(Queries(slot))
  /\ heap' = Checked(heap, Stored)
  /\ blocked' = blocked \cup Accepting
  /\ lastPulse' = lastPulse \cup (Accepting \cap {"homepage"})
  /\ UNCHANGED <<reply, store, actual, late, shell, subscribed, sent, budget, cmds>>

\* A control command from the viewer of owner o, for a device in the store.
CtrlDev(o, c) ==
  /\ Quiet
  /\ o \in subscribed
  /\ c[1] \in store
  /\ \E j \in Free :
       /\ job' = [job EXCEPT ![j] = [kind |-> "ctrl", owner |-> o, cmd |-> c,
                                     devs |-> [NoDevs EXCEPT ![c[1]] = 0]]]
       /\ H!Call({Set(j)})
  /\ cmds' = IF cmds < 2 THEN cmds + 1 ELSE 2
  /\ Spend("command")
  /\ UNCHANGED <<reply, store, heap, actual, late, shell, blocked, lastPulse,
                 subscribed, sent>>

\* The shell command "select ... set" of device.control.cmd.tree.ts.
Select(c) ==
  /\ Quiet
  /\ c[1] \in store
  /\ shell = None
  /\ shell' = c
  /\ H!Call({Cli})
  /\ heap' = Checked(heap, [NoDevs EXCEPT ![c[1]] = 0])
  /\ Spend("shell")
  /\ UNCHANGED <<reply, store, actual, late, job, blocked, lastPulse, subscribed,
                 sent, cmds>>

-----------------------------------------------------------------------------
(***************************************************************************)
(* The device and the network                                              *)
(***************************************************************************)
IsQuery(r) == r[2] \in Mac
Cmd(r)     == IF r = Cli THEN shell ELSE job[r[1]].cmd

Executed(c) == [actual EXCEPT ![c[1]][c[2]] = c[3]]

\* The device handles the request and its response arrives: a query is
\* answered with every pin, a command with the one pin it set.
Answer(r) ==
  /\ Quiet
  /\ H!Headers(r)
  /\ IF IsQuery(r)
     THEN reply' = [reply EXCEPT ![r] = actual[r[2]]] /\ UNCHANGED actual
     ELSE /\ actual' = Executed(Cmd(r))
          /\ reply' = [reply EXCEPT ![r] = [Unknown EXCEPT ![Cmd(r)[2]] = Cmd(r)[3]]]
  /\ UNCHANGED <<store, heap, late, job, shell, blocked, lastPulse, subscribed,
                 sent, budget, cmds>>

\* Something answers, but not with a JSON array.
AnswerJunk(r) ==
  /\ Quiet
  /\ H!Headers(r)
  /\ Spend("junk")
  /\ UNCHANGED <<reply, store, heap, actual, late, job, shell, blocked, lastPulse,
                 subscribed, sent, cmds>>

BodyEnds(r) ==
  /\ Quiet
  /\ H!End(r)
  /\ UNCHANGED <<reply, store, heap, actual, late, job, shell, blocked, lastPulse,
                 subscribed, sent, budget, cmds>>

\* Requests for the command c that the device may not have seen yet.
Unseen(c) == {r \in Req : stage[r] = "connecting" /\ ~IsQuery(r) /\ Cmd(r) = c}

\* The requests of R are given up.
GivenUp(R) == [c \in Command |-> late[c] + Cardinality(Unseen(c) \cap R)]

ConnectionFails(r) ==
  /\ Quiet
  /\ \/ H!Refuse(r) /\ UNCHANGED late
     \/ H!Break(r) /\ late' = GivenUp({r})
     \/ stage[r] = "streaming" /\ H!ResError(r) /\ UNCHANGED late
  /\ reply' = Closed(r)
  /\ Spend("failure")
  /\ UNCHANGED <<store, heap, actual, job, shell, blocked, lastPulse, subscribed, sent,
                 cmds>>

TimerFires(r) ==
  /\ Quiet
  /\ H!Timer(r)
  /\ late' = GivenUp({r})
  /\ reply' = Closed(r)
  /\ IF Reliable THEN Spend("timeout") ELSE UNCHANGED budget
  /\ UNCHANGED <<store, heap, actual, job, shell, blocked, lastPulse, subscribed, sent,
                 cmds>>

\* The stream of a destroyed request fails.
SocketCloses(r) ==
  /\ Quiet
  /\ stage[r] = "dying" /\ H!ResError(r)
  /\ UNCHANGED <<reply, store, heap, actual, late, job, shell, blocked, lastPulse,
                 subscribed, sent, budget, cmds>>

\* A device executes a command its sender gave up, or never will.
LateCommand(c) ==
  /\ Quiet
  /\ late[c] > 0
  /\ late' = [late EXCEPT ![c] = @ - 1]
  /\ actual' \in {actual, Executed(c)}
  /\ UNCHANGED <<http, reply, store, heap, job, shell, blocked, lastPulse, subscribed,
                 sent, budget, cmds>>

-----------------------------------------------------------------------------
(***************************************************************************)
(* Continuations                                                           *)
(***************************************************************************)
\* await dev.queryState() in the try of a handler: the reply goes into the
\* object the run captured, whatever the store holds now.
QueryResumes(j, m) ==
  LET r == Query(j, m) IN
  /\ H!Resume(r, {})
  /\ heap' = IF stage[r] = "done" THEN Updated(heap, Target(j, m), reply[r])
                                   ELSE heap
  /\ reply' = Closed(r)
  /\ UNCHANGED <<store, actual, late, job, shell, blocked, lastPulse, subscribed,
                 sent, budget, cmds>>

\* await device.setState(states), in no try: the handler goes on to query
\* every device, if a pulse came before, or its rejection stays unhandled.
SetSucceeds(j) ==
  LET m   == Cmd(Set(j))[1]
      set == Updated(heap, Target(j, m), reply[Set(j)])
  IN
  /\ stage[Set(j)] = "done"
  /\ IF job[j].owner \in lastPulse
     THEN /\ H!Resume(Set(j), {Query(j, n) : n \in Asked(Stored)})
          /\ job' = [job EXCEPT ![j].devs = Stored]
          /\ heap' = Collected(Checked(set, Stored), job')
     ELSE /\ H!Resume(Set(j), {})
          /\ job' = [job EXCEPT ![j] = FreeSlot]
          /\ heap' = Collected(set, job')
  /\ reply' = Closed(Set(j))
  /\ UNCHANGED <<store, actual, late, shell, blocked, lastPulse, subscribed, sent, budget,
                 cmds>>

\* Mutant of SetFails: the command is sent again.
SetFails_Retry(j) ==
  /\ ~crashed
  /\ stage[Set(j)] \in H!Failed
  /\ stage' = [stage EXCEPT ![Set(j)] = "connecting"]
  /\ UNCHANGED <<listeners, leftover, unhandled, crashed, raised, rawFailed,
                 reply, store, heap, actual, late, job, shell, blocked, lastPulse,
                 subscribed, sent, budget, cmds>>

\* Its rejection ends the run of the control command.
SetFails(j) ==
  /\ stage[Set(j)] \in H!Failed
  /\ H!Resume(Set(j), {})
  /\ job' = [job EXCEPT ![j] = FreeSlot]
  /\ heap' = Collected(heap, job')
  /\ UNCHANGED <<reply, store, actual, late, shell, blocked, lastPulse, subscribed, sent,
                 budget, cmds>>

\* The request of the shell command settles.  If its connection failed, the
\* promise of the command never does: its caller waits for ever, and nothing
\* of that is left in the server's state.
ShellResumes ==
  /\ H!Resume(Cli, {})
  /\ shell' = None
  /\ reply' = Closed(Cli)
  /\ UNCHANGED <<store, heap, actual, late, job, blocked, lastPulse, subscribed, sent,
                 budget, cmds>>

\* The end of a run: its view is sent, and a pulse run unblocks its owner.
Finish(j) ==
  /\ ~crashed
  /\ Finishing(j)
  /\ sent' = [sent EXCEPT ![job[j].owner] = View(job[j].devs)]
  /\ blocked' = IF job[j].kind = "pulse" THEN blocked \ {job[j].owner} ELSE blocked
  /\ lastPulse' = lastPulse \cup {job[j].owner}
  /\ job' = [job EXCEPT ![j] = FreeSlot]
  /\ heap' = Collected(heap, job')
  /\ UNCHANGED <<http, reply, store, actual, late, shell, subscribed, budget, cmds>>

\* Unhandled rejections reach the uncaughtException listeners of HttpClient.
RaiseUncaught ==
  /\ \A j \in Job : ~Finishing(j)
  /\ H!Raise
  /\ late' = IF stage' = stage THEN late
             ELSE GivenUp({r \in Req : stage'[r] # stage[r]})
  /\ reply' = [r \in Req |-> IF stage'[r] = "dying" THEN None ELSE reply[r]]
  /\ UNCHANGED <<store, heap, actual, job, shell, blocked, lastPulse, subscribed, sent,
                 budget, cmds>>

\* The container restarts after a crash: the server forgets everything.
Restart ==
  /\ H!Restart
  /\ reply' = [r \in Req |-> None]
  /\ store' = {}
  /\ heap' = [o \in Obj |-> Blank]
  /\ late' = GivenUp(Req)
  /\ job' = [j \in Job |-> FreeSlot]
  /\ shell' = None
  /\ blocked' = {}
  /\ lastPulse' = {}
  /\ subscribed' = Owner \ {"homepage"}
  /\ cmds' = 0
  /\ UNCHANGED <<actual, sent, budget>>

-----------------------------------------------------------------------------
Microtask == \/ \E j \in Job : \/ \E m \in Mac : QueryResumes(j, m)
                               \/ SetSucceeds(j) \/ SetFails(j) \/ Finish(j)
             \/ ShellResumes
             \/ RaiseUncaught
             \/ Restart

Next == \/ \E m \in Mac : Notify(m)
        \/ \E o \in Obj : Expire(o)
        \/ FeConnect
        \/ PulseArrives
        \/ \E o \in Owner, c \in Orders : CtrlDev(o, c)
        \/ \E c \in Orders : Select(c)
        \/ \E c \in Command : LateCommand(c)
        \/ \E r \in Req : \/ Answer(r) \/ AnswerJunk(r) \/ BodyEnds(r)
                          \/ ConnectionFails(r) \/ TimerFires(r) \/ SocketCloses(r)
        \/ Microtask

Spec == Init /\ [][Next]_vars

(***************************************************************************)
(* Fairness.  The event loop never leaves a continuation pending, and the  *)
(* timer of every request is set; the system sends a pulse, and a working  *)
(* device a notification, every second.                                    *)
(***************************************************************************)
Advances(j) == \E x \in Mac \cup {"set"} :
                  \/ Answer(<<j, x>>) \/ BodyEnds(<<j, x>>) \/ SocketCloses(<<j, x>>)

TimesOut(j) == \E x \in Mac \cup {"set"} :
                  TimerFires(<<j, x>>) \/ SocketCloses(<<j, x>>)

\* Devices may stay silent: only the timers are counted on.
TimerFairSpec == Spec /\ WF_vars(Microtask) /\ \A j \in Job : SF_vars(TimesOut(j))

\* Devices answer in time once the disturbances are over.
ViewFairSpec == /\ Spec
                /\ WF_vars(Microtask)
                /\ SF_vars(PulseArrives)
                /\ \A m \in KnownMac : SF_vars(Notify(m))
                /\ \A j \in Job : SF_vars(Advances(j))
                /\ WF_vars(\E c \in Command : LateCommand(c))

-----------------------------------------------------------------------------
(***************************************************************************)
(* Properties                                                              *)
(***************************************************************************)
Lists  == [Mac -> Gen \cup {None}]
Slot   == [kind : {"free", "pulse", "ctrl"}, owner : Owner \cup {None},
           cmd : Command \cup {None}, devs : Lists]
Views  == [Mac -> {None} \cup [isOnline : BOOLEAN, pins : Pins]]
Object == [fresh : BOOLEAN, isOnline : BOOLEAN, pins : Pins]

Types ==
  /\ reply \in [Req -> Pins \cup {None}]
  /\ store \subseteq Mac
  /\ heap \in [Obj -> Object]
  /\ actual \in [Mac -> [Pin -> Val]]
  /\ late \in [Command -> Nat]
  /\ job \in [Job -> Slot]
  /\ shell \in Command \cup {None}
  /\ blocked \subseteq Owner /\ lastPulse \subseteq Owner /\ subscribed \subseteq Owner
  /\ sent \in [Owner -> Views \cup {None}]
  /\ budget \in 0..Budget /\ cmds \in 0..2

\* Types; besides, only requests in flight carry a body, and a run that is
\* awaiting a control command has captured just the device it commands.
TypeOK ==
  /\ H!TypeOK
  /\ Types
  /\ \A r \in Req : reply[r] # None => stage[r] \in {"streaming", "done"}
  /\ \A j \in Job : stage[Set(j)] # "idle" => Cardinality(Referred(job[j].devs)) = 1

PulseRuns(o) == {j \in Job : job[j].kind = "pulse" /\ job[j].owner = o}

\* Types, and _sysPulseHandlerBlock is exact: it is set while, and only while,
\* one pulse run of the owner is in progress.  Two runs would send their views
\* in any order, and a flag set with no run would silence the viewer for ever.
BlockIsExact ==
  /\ TypeOK
  /\ \A o \in Owner : IF o \in blocked THEN Cardinality(PulseRuns(o)) = 1
                                        ELSE PulseRuns(o) = {}

\* Pulses alone never bring the server down, and neither does one control
\* command, however the devices behave, unless a shell command failed.
CrashNeedsTwoCommands == crashed => cmds = 2 \/ rawFailed

\* Commands that a device may still execute: its sender waits for it, or gave
\* it up before the device answered.
Outstanding == [c \in Command |-> late[c] + Cardinality(Unseen(c))]

C == INSTANCE Commanding WITH Device <- Mac, pins <- actual,
                              pending <- Outstanding, left <- budget

\* The pins of a device change only by commands that were sent, each executed
\* at most once and never sent again by itself, although a command may time
\* out, be aborted by the failure of another one, outlive the crash and the
\* restart of the server, and be executed after commands that came later.
CommandsRunOnce == C!Spec

\* Each step of the server is made of one step of HttpClient at most: a check
\* that the two modules fit together.
ImplementsHttpClient == H!Spec

\* A run never blocks its owner for ever, even if no device ever answers.
RunsEnd == \A o \in Owner : o \in blocked ~> o \notin blocked

\* Once the disturbances are over every viewer gets to see each device online,
\* with the pins as they really are: no command executed after its timeout and
\* after a later one, no reply into an orphaned object and no partial reply that
\* wiped the other pins leaves a wrong view behind.
TrueView(m) == [isOnline |-> TRUE, pins |-> actual[m]]

ViewConverges ==
  <>[](\A o \in subscribed : /\ sent[o] # None
                             /\ \A m \in KnownMac : sent[o][m] = TrueView(m))
=============================================================================
