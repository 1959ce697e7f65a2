---------------------------- MODULE IntServerProofs ----------------------------
(***************************************************************************)
(* For any number of devices, pins, owners and runs: the server executes  *)
(* each control command at most once, it dies of no single one, and        *)
(* _sysPulseHandlerBlock is exact.                                         *)
(***************************************************************************)
EXTENDS IntServer, TLAPS, FiniteSetTheorems

-----------------------------------------------------------------------------
(***************************************************************************)
(* Requests                                                                *)
(***************************************************************************)
LEMMA ReqIs == Req = (Job \X Mac) \cup {Set(j) : j \in Job} \cup {Cli}
  BY DEF Req, H!Req

\* The requests of a run.
LEMMA QueriesAreReq ==
  /\ \A d : Asked(d) \subseteq Mac
  /\ \A j \in Job, m \in Mac : Query(j, m) \in Req
  /\ \A j \in Job : Set(j) \in Req
  /\ Cli \in Req
<1>1. \A d : Asked(d) \subseteq Mac
  BY IntServerAssumption DEF Asked
<1>2. QED
  BY <1>1, ReqIs DEF Query

\* No request is of two kinds or of two runs.
LEMMA KindsDiffer ==
  ASSUME NEW j \in Job
  PROVE  /\ Set(j) # Cli /\ ~IsQuery(Set(j)) /\ ~IsQuery(Cli)
         /\ \A k \in Job : Set(j) = Set(k) => j = k
         /\ \A k \in Job, m \in Mac : /\ Query(k, m) # Set(j) /\ Query(k, m) # Cli
                                     /\ IsQuery(Query(k, m))
  BY IntServerAssumption DEF Set, Cli, Query, IsQuery

LEMMA OrdersAreCommands == Orders \subseteq Command
  BY IntServerAssumption DEF Command

\* Every step of the server is one of HttpClient, or none.
LEMMA StepIsHttp == ASSUME [Next]_vars PROVE [H!Next]_http
<1> USE IntServerAssumption
<1>1. ASSUME NEW S \in SUBSET Req, H!Call(S) PROVE H!Next
  BY <1>1 DEF H!Next, Req
<1>2. ASSUME NEW r \in Req, NEW S \in SUBSET Req, H!Resume(r, S) PROVE H!Next
  BY <1>2 DEF H!Next, Req
<1>3. ASSUME NEW r \in Req,
             \/ H!Headers(r) \/ H!End(r) \/ H!Refuse(r) \/ H!Break(r)
             \/ H!ResError(r) \/ H!Timer(r)
      PROVE  H!Next
  BY <1>3 DEF H!Next, Req
<1>4. ASSUME NEW m \in Mac, Notify(m) PROVE UNCHANGED http
  BY <1>4 DEF Notify
<1>5. ASSUME NEW o \in Obj, Expire(o) PROVE UNCHANGED http
  BY <1>5 DEF Expire
<1>6. CASE FeConnect
  BY <1>6 DEF FeConnect
<1>7. ASSUME PulseArrives PROVE [H!Next]_http
  <2>1. PICK slot \in [Accepting -> Free] :
          IF Queries(slot) = {} THEN UNCHANGED http ELSE H!Call(Queries(slot))
    BY <1>7 DEF PulseArrives
  <2>2. Queries(slot) \subseteq Req
    BY QueriesAreReq DEF Queries, Free
  <2>3. QED
    BY <1>1, <2>1, <2>2
<1>8. ASSUME NEW o \in Owner, NEW c \in Orders, CtrlDev(o, c) PROVE H!Next
  <2>1. PICK j \in Free : H!Call({Set(j)})
    BY <1>8 DEF CtrlDev
  <2>2. {Set(j)} \subseteq Req
    BY ReqIs DEF Free
  <2>3. QED
    BY <1>1, <2>1, <2>2
<1>9. ASSUME NEW c \in Orders, Select(c) PROVE H!Next
  BY <1>1, <1>9, ReqIs DEF Select
<1>10. ASSUME NEW c \in Command, LateCommand(c) PROVE UNCHANGED http
  BY <1>10 DEF LateCommand
<1>11. ASSUME NEW r \in Req,
              \/ Answer(r) \/ AnswerJunk(r) \/ BodyEnds(r)
              \/ ConnectionFails(r) \/ TimerFires(r) \/ SocketCloses(r)
       PROVE  H!Next
  <2>1. \/ H!Headers(r) \/ H!End(r) \/ H!Refuse(r) \/ H!Break(r)
        \/ H!ResError(r) \/ H!Timer(r)
    BY <1>11 DEF Answer, AnswerJunk, BodyEnds, ConnectionFails, TimerFires, SocketCloses
  <2>2. QED
    BY <1>3, <2>1
<1>12. ASSUME NEW j \in Job, NEW m \in Mac, QueryResumes(j, m) PROVE H!Next
  BY <1>2, <1>12, ReqIs DEF QueryResumes, Query
<1>13. ASSUME NEW j \in Job, SetSucceeds(j) PROVE H!Next
  <2>1. {Query(j, n) : n \in Asked(Stored)} \subseteq Req /\ Set(j) \in Req
    BY QueriesAreReq
  <2>2. PICK S \in SUBSET Req : H!Resume(Set(j), S)
    BY <1>13, <2>1 DEF SetSucceeds
  <2>3. QED
    BY <1>2, <2>1, <2>2
<1>14. ASSUME NEW j \in Job, SetFails(j) PROVE H!Next
  BY <1>2, <1>14, ReqIs DEF SetFails
<1>15. ASSUME NEW j \in Job, Finish(j) PROVE UNCHANGED http
  BY <1>15 DEF Finish
<1>16. CASE ShellResumes
  BY <1>2, <1>16, ReqIs DEF ShellResumes
<1>17. CASE RaiseUncaught
  BY <1>17 DEF RaiseUncaught, H!Next
<1>18. CASE Restart
  BY <1>18 DEF Restart, H!Next
<1>19. CASE UNCHANGED vars
  BY <1>19 DEF vars
<1>20. QED
  BY <1>4, <1>5, <1>6, <1>7, <1>8, <1>9, <1>10, <1>11, <1>12, <1>13, <1>14, <1>15,
     <1>16, <1>17, <1>18, <1>19, OrdersAreCommands DEF Next, Microtask

\* Holds by the shape of the actions: each sends, settles or resumes by one
\* action of HttpClient, whose invariants are therefore the server's.
LEMMA ClientRefined == Spec => ImplementsHttpClient
<1>1. Init => H!Init
  BY DEF Init
<1>2. [Next]_vars => [H!Next]_(H!vars)
  BY StepIsHttp DEF http, H!vars
<1>3. QED
  BY <1>1, <1>2, PTL DEF Spec, H!Spec, ImplementsHttpClient

-----------------------------------------------------------------------------
(***************************************************************************)
(* HttpClient with the requests of the server.                             *)
(***************************************************************************)
LEMMA SlotsAreDisjoint == H!SlotsDisjoint
  BY IntServerAssumption DEF Set, Cli, H!SlotsDisjoint

\* Its TypeOK is inductive: no step of the client takes a variable out of its type.
LEMMA HttpTypeStep == ASSUME H!TypeOK, [H!Next]_(H!vars) PROVE H!TypeOK'
<1> USE SlotsAreDisjoint DEF H!SlotsDisjoint, H!Req, H!TypeOK, H!Stages, H!Settled, H!Failed
<1>1. ASSUME NEW S \in SUBSET H!Req, H!Call(S) PROVE H!TypeOK'
  BY <1>1 DEF H!Call, H!Starting, H!Registered
<1>2. ASSUME NEW r \in H!Req, NEW from \in H!Stages, NEW to \in H!Stages,
             H!Move(r, from, to)
      PROVE H!TypeOK'
  BY <1>2 DEF H!Move
<1>3. ASSUME NEW r \in H!Req,
             \/ H!Headers(r) \/ H!End(r) \/ H!Refuse(r) \/ H!Break(r)
             \/ H!ResError(r) \/ H!Timer(r)
      PROVE H!TypeOK'
  BY <1>2, <1>3 DEF H!Headers, H!End, H!Refuse, H!Break, H!ResError, H!Timer
<1>4. ASSUME NEW r \in H!Req, NEW S \in SUBSET H!Req, H!Resume(r, S) PROVE H!TypeOK'
  BY <1>4 DEF H!Resume, H!Starting, H!Registered, H!Uncaught, H!Leaves
<1>5. ASSUME H!Raise PROVE H!TypeOK'
  <2>1. \A r \in H!Req : H!Aborted(r) \in H!Stages
    BY DEF H!Aborted
  <2>2. stage' \in [H!Req -> H!Stages]
    BY <1>5, <2>1 DEF H!Raise
  <2>3. crashed' \in BOOLEAN /\ raised' \in 0..2
    BY <1>5 DEF H!Raise
  <2>4. /\ listeners' \subseteq H!Req \ {Cli}
        /\ leftover' \in BOOLEAN
        /\ unhandled' \subseteq H!Req \X H!Failed
        /\ rawFailed' \in BOOLEAN
    BY <1>5 DEF H!Raise
  <2>5. QED
    BY <2>2, <2>3, <2>4
<1>6. ASSUME H!Restart PROVE H!TypeOK'
  <2>1. stage' \in [H!Req -> H!Stages]
    BY <1>6 DEF H!Restart
  <2>2. listeners' \subseteq H!Req \ {Cli} /\ unhandled' \subseteq H!Req \X H!Failed
    BY <1>6 DEF H!Restart
  <2>3. leftover' \in BOOLEAN /\ crashed' \in BOOLEAN /\ rawFailed' \in BOOLEAN
    BY <1>6, Zenon DEF H!Restart
  <2>4. raised' \in 0..2
    BY <1>6, SMT DEF H!Restart
  <2>5. QED
    BY <2>1, <2>2, <2>3, <2>4
<1>7. CASE UNCHANGED H!vars
  BY <1>7 DEF H!vars
<1>8. QED
  BY <1>1, <1>3, <1>4, <1>5, <1>6, <1>7 DEF H!Next

LEMMA HttpTypeInit == H!Init => H!TypeOK
<1> SUFFICES ASSUME H!Init PROVE H!TypeOK
  OBVIOUS
<1>1. stage \in [H!Req -> H!Stages]
  BY DEF H!Init, H!Stages
<1>2. /\ listeners \subseteq H!Req \ {Cli}
      /\ unhandled \subseteq H!Req \X H!Failed
  BY DEF H!Init
<1>3. leftover \in BOOLEAN /\ crashed \in BOOLEAN /\ rawFailed \in BOOLEAN
  BY Zenon DEF H!Init
<1>4. raised \in 0..2
  BY SMT DEF H!Init
<1>5. QED
  BY <1>1, <1>2, <1>3, <1>4 DEF H!TypeOK

\* Type correctness of HttpClient, with the requests of the server.
THEOREM HttpTypeCorrect == H!Spec => []H!TypeOK
<1>1. H!Init => H!TypeOK
  BY HttpTypeInit
<1>2. H!TypeOK /\ [H!Next]_(H!vars) => H!TypeOK'
  BY HttpTypeStep
<1>3. QED
  BY <1>1, <1>2, PTL DEF H!Spec

-----------------------------------------------------------------------------
(***************************************************************************)
(* The inductive invariant.  CrashNeedsTwo alone is not inductive: that    *)
(* the first exception finds a listener follows from Shielded, which holds *)
(* because listeners only grow until the first exception is raised.        *)
(***************************************************************************)
HttpInv == H!TypeOK /\ H!Shielded /\ H!CrashNeedsTwo

\* A request settled by the first failure still has its listener, so leaving
\* its rejection unhandled keeps the shield.
LEMMA ResumeKeepsShield ==
  ASSUME HttpInv, NEW r \in H!Req, NEW S \in SUBSET H!Req, H!Resume(r, S)
  PROVE  H!Shielded'
<1> SUFFICES ASSUME ~rawFailed', raised' = 0
             PROVE  /\ ~crashed'
                    /\ H!InFlight' \subseteq listeners'
                    /\ unhandled' # {} => leftover'
  BY DEF H!Shielded
<1>1. ~rawFailed /\ raised = 0 /\ (H!Uncaught(r) => r # Cli)
  BY DEF H!Resume
<1>2. /\ ~crashed /\ H!InFlight \subseteq listeners
      /\ unhandled # {} => leftover
  BY <1>1 DEF HttpInv, H!Shielded
<1>3. H!InFlight' \subseteq listeners'
  BY <1>2, SlotsAreDisjoint
  DEF H!Resume, H!Starting, H!Registered, H!InFlight, H!Idle, HttpInv, H!TypeOK,
      H!SlotsDisjoint
<1>4. H!Uncaught(r) => r \in listeners
  BY <1>1, <1>2 DEF H!InFlight, H!Uncaught, H!Idle, H!Failed
<1>5. unhandled' # {} => leftover'
  BY <1>2, <1>4 DEF H!Resume, H!Leaves
<1>6. QED
  BY <1>2, <1>3, <1>5 DEF H!Resume

\* Raising the first exception finds a listener; two at once count as two.
LEMMA RaiseIsCounted == ASSUME HttpInv, H!Raise PROVE H!Shielded' /\ H!CrashNeedsTwo'
<1>1. raised' # 0
  BY DEF H!Raise
<1>2. H!Shielded'
  BY <1>1 DEF H!Shielded
<1>3. ASSUME crashed', ~rawFailed', raised' # 2 PROVE FALSE
  <2>1. raised = 0 /\ \A u, v \in unhandled : u = v
    BY <1>3 DEF H!Raise
  <2>2. ~leftover
    BY <1>3, <2>1 DEF H!Raise
  <2>3. unhandled # {} => leftover
    BY <1>3, <2>1 DEF HttpInv, H!Shielded, H!Raise
  <2>4. QED
    BY <2>2, <2>3 DEF H!Raise
<1>4. QED
  BY <1>2, <1>3 DEF H!CrashNeedsTwo

\* HttpInv is inductive.
LEMMA ClientStep == ASSUME HttpInv, [H!Next]_(H!vars) PROVE HttpInv'
<1>1. H!TypeOK'
  BY HttpTypeStep DEF HttpInv
<1>2. ASSUME NEW S \in SUBSET H!Req, H!Call(S) PROVE H!Shielded' /\ H!CrashNeedsTwo'
  BY <1>2 DEF HttpInv, H!TypeOK, H!Shielded, H!CrashNeedsTwo, H!Call, H!Quiet, H!Starting,
              H!Registered, H!InFlight, H!Idle
<1>3. ASSUME NEW r \in H!Req, NEW from, from # "idle", NEW to, H!Move(r, from, to)
      PROVE H!Shielded' /\ H!CrashNeedsTwo'
  BY <1>3 DEF HttpInv, H!TypeOK, H!Shielded, H!CrashNeedsTwo, H!Move, H!Quiet, H!InFlight, H!Idle
<1>4. ASSUME NEW r \in H!Req,
             \/ H!Headers(r) \/ H!End(r) \/ H!Refuse(r) \/ H!Break(r)
             \/ H!ResError(r) \/ H!Timer(r)
      PROVE H!Shielded' /\ H!CrashNeedsTwo'
  BY <1>3, <1>4 DEF H!Headers, H!End, H!Refuse, H!Break, H!ResError, H!Timer
<1>5. ASSUME NEW r \in H!Req, NEW S \in SUBSET H!Req, H!Resume(r, S)
      PROVE H!Shielded' /\ H!CrashNeedsTwo'
  <2>1. H!Shielded'
    BY <1>5, ResumeKeepsShield
  <2>2. H!CrashNeedsTwo'
    BY <1>5 DEF H!Resume, H!CrashNeedsTwo, HttpInv
  <2>3. QED
    BY <2>1, <2>2
<1>6. CASE H!Raise
  BY <1>1, <1>6, RaiseIsCounted DEF HttpInv
<1>7. CASE UNCHANGED H!vars
  <2>1. H!InFlight' = H!InFlight
    BY <1>7 DEF H!vars, H!InFlight, H!Idle
  <2>2. QED
    BY <1>1, <1>7, <2>1 DEF H!vars, HttpInv, H!Shielded, H!CrashNeedsTwo
<1>8. CASE H!Restart
  <2>1. H!Shielded' /\ H!CrashNeedsTwo'
    BY <1>8 DEF H!Restart, H!Shielded, H!CrashNeedsTwo, H!InFlight, H!Idle
  <2>2. QED
    BY <1>1, <2>1 DEF HttpInv
<1>9. QED
  BY <1>1, <1>2, <1>4, <1>5, <1>6, <1>7, <1>8 DEF HttpInv, H!Next

LEMMA HttpInit == H!Init => H!TypeOK /\ HttpInv
  BY HttpTypeInit DEF H!Init, HttpInv, H!Shielded, H!CrashNeedsTwo, H!InFlight, H!Idle

\* The process never dies of a single uncaught failure of the HTTP client:
\* the listener each request leaves behind absorbs the first one.
THEOREM HttpCrashSafety == H!Spec => []H!CrashNeedsTwo
<1>1. H!Init => HttpInv
  BY HttpInit
<1>2. HttpInv /\ [H!Next]_(H!vars) => HttpInv'
  BY ClientStep
<1>3. HttpInv => H!CrashNeedsTwo
  BY DEF HttpInv
<1>4. QED
  BY <1>1, <1>2, <1>3, PTL DEF H!Spec

-----------------------------------------------------------------------------
(***************************************************************************)
(* What the server does to its requests.                                   *)
(***************************************************************************)
\* Every step of the server keeps it.
LEMMA HttpStep == ASSUME HttpInv, [Next]_vars PROVE H!TypeOK' /\ HttpInv'
<1>1. [H!Next]_(H!vars)
  BY StepIsHttp DEF http, H!vars
<1>2. QED
  BY <1>1, ClientStep DEF HttpInv

\* What an event that sends requests, or one that moves a request, does to them.
LEMMA CallSends ==
  ASSUME H!TypeOK, NEW S \in SUBSET Req, H!Call(S)
  PROVE  /\ \A r \in Req : stage'[r] = IF r \in S THEN "connecting" ELSE stage[r]
         /\ \A r \in S : stage[r] = "idle"
         /\ unhandled = {} /\ UNCHANGED <<leftover, unhandled, crashed, raised, rawFailed>>
  BY DEF H!Call, H!Quiet, H!Starting, H!Idle, H!TypeOK, Req

LEMMA MoveMoves ==
  ASSUME H!TypeOK, NEW r \in Req,
         \/ H!Headers(r) \/ H!End(r) \/ H!Refuse(r) \/ H!Break(r)
         \/ H!ResError(r) \/ H!Timer(r)
  PROVE  /\ stage[r] # "idle" /\ stage'[r] # "idle"
         /\ \A q \in Req \ {r} : stage'[q] = stage[q]
         /\ UNCHANGED <<leftover, unhandled, crashed, raised, rawFailed>>
<1>1. ASSUME NEW from, from # "idle", NEW to, to # "idle", H!Move(r, from, to)
      PROVE  /\ stage[r] # "idle" /\ stage'[r] # "idle"
             /\ \A q \in Req \ {r} : stage'[q] = stage[q]
             /\ UNCHANGED <<leftover, unhandled, crashed, raised, rawFailed>>
  BY <1>1 DEF H!Move, H!TypeOK, Req
<1>2. QED
  BY <1>1 DEF H!Headers, H!End, H!Refuse, H!Break, H!ResError, H!Timer

LEMMA ResumeEnds ==
  ASSUME H!TypeOK, NEW r \in Req, NEW S \in SUBSET Req, H!Resume(r, S)
  PROVE  /\ stage[r] # "idle" /\ (r \notin S => stage'[r] = "idle")
         /\ \A q \in Req \ {r} : stage'[q] = IF q \in S THEN "connecting" ELSE stage[q]
         /\ \A q \in S : stage[q] = "idle"
         /\ UNCHANGED <<crashed, raised>>
  BY DEF H!Resume, H!Settled, H!Failed, H!Starting, H!Idle, H!TypeOK, Req

-----------------------------------------------------------------------------
(***************************************************************************)
(* Whose rejections stay unhandled                                         *)
(***************************************************************************)
Single(S) == \A p, q \in S : p = q

\* Runs that await a control command.
SetsOut == {j \in Job : stage[Set(j)] # "idle"}

\* Unless a shell command failed, only control commands leave rejections: one
\* command is out, or its rejection is unhandled, or was raised.
Blame ==
  \/ rawFailed
  \/ cmds = 2
  \/ cmds = 1 /\ Single(SetsOut) /\ unhandled = {} /\ raised = 0
  \/ cmds = 1 /\ SetsOut = {} /\ Single(unhandled) /\ raised = 0
  \/ cmds \in {0, 1} /\ SetsOut = {} /\ unhandled = {} /\ raised <= cmds

\* No command is sent, and none fails.
LEMMA BlameKept ==
  ASSUME Blame, SetsOut' \subseteq SetsOut, UNCHANGED <<cmds, unhandled, raised>>,
         rawFailed => rawFailed'
  PROVE  Blame'
  BY DEF Blame, Single

LEMMA BlameStep ==
  ASSUME H!TypeOK, cmds \in 0 .. 2, raised \in 0 .. 2, Blame, [Next]_vars PROVE Blame'
<1>1. ASSUME NEW S \in SUBSET Req, H!Call(S), \A j \in Job : Set(j) \notin S, cmds' = cmds
      PROVE  Blame'
  <2>1. SetsOut' \subseteq SetsOut
    BY <1>1, CallSends, QueriesAreReq DEF SetsOut
  <2>2. UNCHANGED <<unhandled, raised, rawFailed>>
    BY <1>1, CallSends
  <2>3. QED
    BY <1>1, <2>1, <2>2, BlameKept
<1>2. ASSUME NEW r \in Req, cmds' = cmds,
             \/ H!Headers(r) \/ H!End(r) \/ H!Refuse(r) \/ H!Break(r)
             \/ H!ResError(r) \/ H!Timer(r)
      PROVE  Blame'
  <2>1. /\ stage[r] # "idle" /\ UNCHANGED <<unhandled, raised, rawFailed>>
        /\ \A q \in Req \ {r} : stage'[q] = stage[q]
    BY <1>2, MoveMoves
  <2>2. SetsOut' \subseteq SetsOut
    BY <2>1, QueriesAreReq DEF SetsOut
  <2>3. QED
    BY <1>2, <2>1, <2>2, BlameKept
<1>3. ASSUME UNCHANGED http, cmds' = cmds PROVE Blame'
  BY <1>3, BlameKept DEF http, SetsOut
<1>4. ASSUME NEW m \in Mac, Notify(m) PROVE Blame'
  BY <1>3, <1>4 DEF Notify
<1>5. ASSUME NEW o \in Obj, Expire(o) PROVE Blame'
  BY <1>3, <1>5 DEF Expire
<1>6. CASE FeConnect
  BY <1>3, <1>6 DEF FeConnect
<1>7. CASE PulseArrives
  <2>1. PICK slot \in [Accepting -> Free] :
          IF Queries(slot) = {} THEN UNCHANGED http ELSE H!Call(Queries(slot))
    BY <1>7 DEF PulseArrives
  <2>2. Queries(slot) \subseteq Req /\ \A j \in Job : Set(j) \notin Queries(slot)
    BY QueriesAreReq, KindsDiffer DEF Queries, Free
  <2>3. QED
    BY <1>1, <1>3, <1>7, <2>1, <2>2 DEF PulseArrives
<1>8. ASSUME NEW o \in Owner, NEW c \in Command, CtrlDev(o, c) PROVE Blame'
  <2>1. PICK j \in Job : H!Call({Set(j)})
    BY <1>8 DEF CtrlDev, Free
  <2>2. {Set(j)} \in SUBSET Req
    BY QueriesAreReq
  <2>3. /\ \A r \in Req : stage'[r] = IF r \in {Set(j)} THEN "connecting" ELSE stage[r]
        /\ unhandled = {} /\ UNCHANGED <<unhandled, raised, rawFailed>>
    BY <2>1, <2>2, CallSends
  <2>4. SetsOut' \subseteq SetsOut \cup {j}
    BY <2>3, KindsDiffer, QueriesAreReq DEF SetsOut
  <2>5. cmds' = IF cmds < 2 THEN cmds + 1 ELSE 2
    BY <1>8 DEF CtrlDev
  <2>6. QED
    BY <2>3, <2>4, <2>5 DEF Blame, Single
<1>9. ASSUME NEW c \in Command, Select(c) PROVE Blame'
  <2>1. H!Call({Cli}) /\ cmds' = cmds
    BY <1>9 DEF Select
  <2>2. {Cli} \in SUBSET Req /\ \A j \in Job : Set(j) \notin {Cli}
    BY QueriesAreReq, KindsDiffer
  <2>3. QED
    BY <1>1, <2>1, <2>2
<1>10. ASSUME NEW c \in Command, LateCommand(c) PROVE Blame'
  BY <1>3, <1>10 DEF LateCommand
<1>11. ASSUME NEW r \in Req,
              \/ Answer(r) \/ AnswerJunk(r) \/ BodyEnds(r)
              \/ ConnectionFails(r) \/ TimerFires(r) \/ SocketCloses(r)
       PROVE  Blame'
  <2>1. \/ H!Headers(r) \/ H!End(r) \/ H!Refuse(r) \/ H!Break(r)
        \/ H!ResError(r) \/ H!Timer(r)
    BY <1>11 DEF Answer, AnswerJunk, BodyEnds, ConnectionFails, TimerFires, SocketCloses
  <2>2. cmds' = cmds
    BY <1>11 DEF Answer, AnswerJunk, BodyEnds, ConnectionFails, TimerFires, SocketCloses
  <2>3. QED
    BY <1>2, <2>1, <2>2
<1>12. ASSUME NEW j \in Job, NEW m \in Mac, QueryResumes(j, m) PROVE Blame'
  <2>1. /\ H!Resume(Query(j, m), {}) /\ cmds' = cmds
        /\ Query(j, m) \in Req /\ {} \in SUBSET Req
    BY <1>12, QueriesAreReq DEF QueryResumes
  <2>2. ~H!Uncaught(Query(j, m))
    BY DEF H!Uncaught, Query
  <2>3. unhandled' = unhandled /\ rawFailed' = rawFailed
    BY <2>1, <2>2 DEF H!Resume, H!TypeOK
  <2>4. SetsOut' \subseteq SetsOut /\ raised' = raised
    BY <2>1, ResumeEnds, KindsDiffer, QueriesAreReq DEF SetsOut
  <2>5. QED
    BY <2>1, <2>3, <2>4, BlameKept
<1>13. ASSUME NEW j \in Job, SetSucceeds(j) PROVE Blame'
  <2>1. PICK S \in SUBSET Req : /\ H!Resume(Set(j), S)
                               /\ \A k \in Job : Set(k) \notin S
    <3>1. /\ {Query(j, n) : n \in Asked(Stored)} \in SUBSET Req
          /\ \A k \in Job : Set(k) \notin {Query(j, n) : n \in Asked(Stored)}
      BY QueriesAreReq, KindsDiffer
    <3>2. QED
      BY <1>13, <3>1 DEF SetSucceeds
  <2>2. cmds' = cmds /\ stage[Set(j)] = "done" /\ Set(j) \in Req
    BY <1>13, QueriesAreReq DEF SetSucceeds
  <2>3. ~H!Uncaught(Set(j))
    BY <2>2 DEF H!Uncaught, H!Failed
  <2>4. unhandled' = unhandled /\ rawFailed' = rawFailed
    BY <2>1, <2>3 DEF H!Resume, H!TypeOK
  <2>5. SetsOut' \subseteq SetsOut /\ raised' = raised
    BY <2>1, <2>2, ResumeEnds, QueriesAreReq DEF SetsOut
  <2>6. QED
    BY <2>2, <2>4, <2>5, BlameKept
<1>14. ASSUME NEW j \in Job, SetFails(j) PROVE Blame'
  <2>1. /\ H!Resume(Set(j), {}) /\ cmds' = cmds /\ stage[Set(j)] \in H!Failed
        /\ Set(j) \in Req /\ {} \in SUBSET Req
    BY <1>14, QueriesAreReq DEF SetFails
  <2>2. /\ unhandled' \subseteq unhandled \cup {<<Set(j), stage[Set(j)]>>}
        /\ rawFailed => rawFailed'
    BY <2>1 DEF H!Resume
  <2>3. /\ stage[Set(j)] # "idle" /\ stage'[Set(j)] = "idle" /\ raised' = raised
        /\ \A q \in Req \ {Set(j)} : stage'[q] = stage[q]
    BY <2>1, ResumeEnds
  <2>4. j \in SetsOut /\ SetsOut' = SetsOut \ {j}
    BY <2>3, QueriesAreReq, KindsDiffer DEF SetsOut
  <2>5. QED
    BY <2>1, <2>2, <2>3, <2>4 DEF Blame, Single
<1>15. ASSUME NEW j \in Job, Finish(j) PROVE Blame'
  BY <1>3, <1>15 DEF Finish
<1>16. CASE ShellResumes
  <2>1. H!Resume(Cli, {}) /\ cmds' = cmds /\ Cli \in Req /\ {} \in SUBSET Req
    BY <1>16, QueriesAreReq DEF ShellResumes
  <2>2. CASE H!Uncaught(Cli)
    <3>1. rawFailed'
      BY <2>1, <2>2 DEF H!Resume
    <3>2. QED
      BY <3>1 DEF Blame
  <2>3. CASE ~H!Uncaught(Cli)
    <3>1. unhandled' = unhandled /\ rawFailed' = rawFailed
      BY <2>1, <2>3 DEF H!Resume, H!TypeOK
    <3>2. SetsOut' \subseteq SetsOut /\ raised' = raised
      BY <2>1, ResumeEnds, KindsDiffer, QueriesAreReq DEF SetsOut
    <3>3. QED
      BY <2>1, <3>1, <3>2, BlameKept
  <2>4. QED
    BY <2>2, <2>3
<1>17. CASE RaiseUncaught
  <2>1. H!Raise /\ cmds' = cmds
    BY <1>17 DEF RaiseUncaught
  <2>2. SetsOut' \subseteq SetsOut
    <3>1. \A r \in Req : stage'[r] = stage[r] \/ stage'[r] = H!Aborted(r)
      BY <2>1 DEF H!Raise, Req
    <3>2. \A r \in Req : stage[r] = "idle" => stage'[r] = "idle"
      BY <3>1 DEF H!Aborted
    <3>3. QED
      BY <3>2, QueriesAreReq DEF SetsOut
  <2>3. /\ unhandled # {} /\ unhandled' = {} /\ rawFailed' = rawFailed
        /\ raised' = IF raised = 0 /\ Single(unhandled) THEN 1 ELSE 2
    BY <2>1 DEF H!Raise, Single
  <2>4. QED
    BY <2>1, <2>2, <2>3 DEF Blame
<1>18. CASE Restart
  <2>1. H!Restart /\ cmds' = 0
    BY <1>18 DEF Restart
  <2>2. unhandled' = {} /\ raised' = 0 /\ \A r \in Req : stage'[r] = "idle"
    BY <2>1 DEF H!Restart, Req
  <2>3. SetsOut' = {}
    BY <2>2, QueriesAreReq DEF SetsOut
  <2>4. QED
    BY <2>1, <2>2, <2>3 DEF Blame
<1>19. CASE UNCHANGED vars
  BY <1>3, <1>19 DEF vars
<1>20. QED
  BY <1>4, <1>5, <1>6, <1>7, <1>8, <1>9, <1>10, <1>11, <1>12, <1>13, <1>14, <1>15,
     <1>16, <1>17, <1>18, <1>19, OrdersAreCommands DEF Next, Microtask

\* The invariant of HttpClient says that it dies of two uncaught exceptions.
CrashInv == H!TypeOK /\ HttpInv /\ cmds \in 0 .. 2 /\ Blame

LEMMA CountStep == ASSUME cmds \in 0 .. 2, [Next]_vars PROVE cmds' \in 0 .. 2
<1>1. cmds' \in {cmds, 0} \/ cmds' = IF cmds < 2 THEN cmds + 1 ELSE 2
  BY DEF Next, Microtask, vars, Notify, Expire, FeConnect, PulseArrives, CtrlDev, Select,
         LateCommand, Answer, AnswerJunk, BodyEnds, ConnectionFails, TimerFires, SocketCloses,
         QueryResumes, SetSucceeds, SetFails, Finish, ShellResumes, RaiseUncaught, Restart
<1>2. QED
  BY <1>1

\* One control command never brings the server down, however the devices
\* behave, and pulses alone never do, unless a shell command failed.
THEOREM CrashSafety == Spec => []CrashNeedsTwoCommands
<1>1. Init => CrashInv
  <2> SUFFICES ASSUME Init PROVE CrashInv
    OBVIOUS
  <2>1. H!Init /\ cmds = 0
    BY DEF Init
  <2>2. /\ unhandled = {} /\ raised = 0 /\ \A r \in Req : stage[r] = "idle"
    BY <2>1 DEF H!Init, Req
  <2>3. SetsOut = {}
    BY <2>2, QueriesAreReq DEF SetsOut
  <2>4. Blame
    BY <2>1, <2>2, <2>3 DEF Blame
  <2>5. QED
    BY <2>1, <2>4, HttpInit DEF CrashInv
<1>2. CrashInv /\ [Next]_vars => CrashInv'
  <2> SUFFICES ASSUME CrashInv, [Next]_vars PROVE CrashInv'
    OBVIOUS
  <2>1. raised \in 0 .. 2
    BY DEF CrashInv, H!TypeOK
  <2>2. QED
    BY <2>1, HttpStep, BlameStep, CountStep DEF CrashInv
<1>3. CrashInv => CrashNeedsTwoCommands
  BY DEF CrashInv, Blame, CrashNeedsTwoCommands, HttpInv, H!CrashNeedsTwo
<1>4. QED
  BY <1>1, <1>2, <1>3, PTL DEF Spec

-----------------------------------------------------------------------------
(***************************************************************************)
(* Types                                                                   *)
(***************************************************************************)
Heaps == [Obj -> Object]

LEMMA GenIs == Cardinality(Job) \in Nat /\ Gen = 0 .. Cardinality(Job) /\ None \notin Gen
<1>1. Cardinality(Job) \in Nat
  BY IntServerAssumption, FS_CardinalityType
<1>2. QED
  BY <1>1, IntServerAssumption DEF Gen

LEMMA StoredIsTyped == Stored \in Lists /\ NoDevs \in Lists
  BY GenIs DEF Stored, NoDevs, Lists

LEMMA BlankIsTyped == Blank \in Object /\ [Blank EXCEPT !.fresh = TRUE] \in Object
<1>1. Unknown \in Pins
  BY DEF Unknown, Pins
<1>2. QED
  BY <1>1 DEF Blank, Object

LEMMA FreeIsTyped == FreeSlot \in Slot /\ FreeSlot.kind = "free"
  BY StoredIsTyped DEF FreeSlot, Slot

LEMMA CollectedIsTyped == ASSUME NEW h \in Heaps, NEW jobs PROVE Collected(h, jobs) \in Heaps
<1>1. PICK live : Collected(h, jobs) = [o \in Obj |-> IF o \in live THEN h[o] ELSE Blank]
  BY DEF Collected
<1>2. QED
  BY <1>1, BlankIsTyped DEF Heaps

LEMMA CheckedIsTyped == ASSUME NEW h \in Heaps, NEW devices PROVE Checked(h, devices) \in Heaps
<1>1. ASSUME NEW o \in Obj PROVE [h[o] EXCEPT !.isOnline = h[o].fresh] \in Object
  <2>1. h[o] \in Object
    BY DEF Heaps
  <2>2. QED
    BY <2>1 DEF Object
<1>2. QED
  BY <1>1 DEF Checked, Heaps

LEMMA UpdatedIsTyped ==
  ASSUME NEW h \in Heaps, NEW o, NEW body \in Pins \cup {None} PROVE Updated(h, o, body) \in Heaps
<1>1. CASE body = None
  BY <1>1 DEF Updated
<1>2. CASE body # None /\ o \in Obj
  <2>1. [h[o] EXCEPT !.pins = body] \in Object
    BY <1>2 DEF Heaps, Object
  <2>2. QED
    BY <1>2, <2>1 DEF Updated, Heaps
<1>3. CASE body # None /\ o \notin Obj
  BY <1>3 DEF Updated, Heaps
<1>4. QED
  BY <1>1, <1>2, <1>3

LEMMA ViewIsTyped ==
  ASSUME NEW devices \in Lists, heap \in Heaps PROVE View(devices) \in Views
<1>1. ASSUME NEW m \in Mac, devices[m] # None
      PROVE  /\ heap[<<m, devices[m]>>].isOnline \in BOOLEAN
             /\ heap[<<m, devices[m]>>].pins \in Pins
  <2>1. <<m, devices[m]>> \in Obj
    BY <1>1 DEF Lists, Obj
  <2>2. heap[<<m, devices[m]>>] \in Object
    BY <2>1 DEF Heaps
  <2>3. QED
    BY <2>2 DEF Object
<1>2. QED
  BY <1>1 DEF View, Views

LEMMA ExecutedIsTyped ==
  ASSUME actual \in [Mac -> [Pin -> Val]], NEW c \in Command
  PROVE  Executed(c) \in [Mac -> [Pin -> Val]]
<1>1. c[1] \in Mac /\ c[2] \in Pin /\ c[3] \in Val
  BY DEF Command
<1>2. QED
  BY <1>1 DEF Executed

\* A slot of which the list of devices is replaced.
LEMMA SlotIsTyped ==
  ASSUME NEW s \in Slot
  PROVE  /\ s.kind \in {"free", "pulse", "ctrl"} /\ s.owner \in Owner \cup {None}
         /\ s.cmd \in Command \cup {None} /\ s.devs \in Lists
         /\ \A d \in Lists : /\ [s EXCEPT !.devs = d] \in Slot
                             /\ [s EXCEPT !.devs = d].kind = s.kind
                             /\ [s EXCEPT !.devs = d].owner = s.owner
                             /\ [s EXCEPT !.devs = d].cmd = s.cmd
                             /\ [s EXCEPT !.devs = d].devs = d
  BY DEF Slot

-----------------------------------------------------------------------------
(***************************************************************************)
(* Runs                                                                    *)
(***************************************************************************)
\* The run has captured just the device it commands.
Commanded(j) ==
  /\ job[j].kind = "ctrl" /\ job[j].cmd \in Command
  /\ \E g \in Gen : job[j].devs = [NoDevs EXCEPT ![job[j].cmd[1]] = g]

Runs == /\ \A j \in Job : job[j].kind # "free" => job[j].owner \in Owner
        /\ \A j \in Job : stage[Set(j)] # "idle" => Commanded(j)
        /\ stage[Cli] # "idle" => shell \in Command

\* Only requests in flight carry a body.
Carried == \A r \in Req : reply[r] # None => stage[r] \in {"streaming", "done"}

Blocks == \A o \in Owner : IF o \in blocked THEN \E j \in Job : PulseRuns(o) = {j}
                                            ELSE PulseRuns(o) = {}

World == H!TypeOK /\ Types /\ Runs /\ Carried /\ Blocks

\* What is sent to a device, or was given up, is a command.
LEMMA CmdIsTyped ==
  ASSUME Types, Runs, NEW r \in Req, stage[r] # "idle", ~IsQuery(r) PROVE Cmd(r) \in Command
<1>1. CASE r = Cli
  BY <1>1 DEF Cmd, Runs
<1>2. CASE r # Cli
  <2>1. PICK j \in Job : r = Set(j)
    BY <1>2, ReqIs DEF IsQuery
  <2>2. r[1] = j
    BY <2>1 DEF Set
  <2>3. QED
    BY <1>2, <2>1, <2>2 DEF Cmd, Runs, Commanded
<1>3. QED
  BY <1>1, <1>2

\* Finitely many requests carry a command.
LEMMA UnseenIsFinite == \A c : IsFiniteSet(Unseen(c))
<1> DEFINE Carriers == {Set(j) : j \in Job} \cup {Cli}
<1>1. IsFiniteSet(Carriers)
  <2>1. IsFiniteSet({Set(j) : j \in Job})
    <3> DEFINE f == [j \in Job |-> Set(j)]
    <3>1. f \in Surjection(Job, {Set(j) : j \in Job})
      BY DEF Surjection
    <3>2. QED
      BY <3>1, FS_Surjection, IntServerAssumption
  <2>2. QED
    BY <2>1, FS_AddElement
<1>2. \A c : Unseen(c) \subseteq Carriers
  BY ReqIs DEF Unseen, IsQuery
<1>3. QED
  BY <1>1, <1>2, FS_Subset

LEMMA GivenUpIsTyped ==
  ASSUME Types, NEW R PROVE GivenUp(R) \in [Command -> Nat]
<1>1. \A c \in Command : Cardinality(Unseen(c) \cap R) \in Nat
  BY UnseenIsFinite, FS_Intersection, FS_CardinalityType
<1>2. \A c \in Command : late[c] \in Nat
  BY DEF Types
<1>3. \A c \in Command : late[c] + Cardinality(Unseen(c) \cap R) \in Nat
  BY <1>1, <1>2
<1>4. QED
  BY <1>3 DEF GivenUp

\* However many runs there are, one more object finds a number.
LEMMA NumberIsFree ==
  ASSUME Types, NEW m \in Mac, \E j \in Job : job[j].devs[m] = 0
  PROVE  \E n \in Gen \ {0} : \A j \in Job : job[j].devs[m] # n
<1> SUFFICES ASSUME \A n \in Gen \ {0} : \E j \in Job : job[j].devs[m] = n PROVE FALSE
  OBVIOUS
<1>1. \A n \in Gen : \E j \in Job : job[j].devs[m] = n
  OBVIOUS
<1> DEFINE f == [n \in Gen |-> CHOOSE j \in Job : job[j].devs[m] = n]
<1>2. \A n \in Gen : f[n] \in Job /\ job[f[n]].devs[m] = n
  BY <1>1
<1>3. f \in [Gen -> Job]
  BY <1>2
<1>4. IsFiniteSet(Gen) /\ Cardinality(Gen) = Cardinality(Job) + 1
  BY GenIs, FS_Interval
<1>5. IsFiniteSet(Job) /\ Cardinality(Job) < Cardinality(Gen)
  BY <1>4, GenIs, IntServerAssumption
<1> HIDE DEF f
<1>6. \E x, y \in Gen : x # y /\ f[x] = f[y]
  BY <1>3, <1>4, <1>5, FS_PigeonHole
<1>7. QED
  BY <1>2, <1>6

\* Steps that leave the runs alone.
LEMMA RunsKept ==
  ASSUME Runs, job' = job, shell' = shell,
         \A r \in Req : ~IsQuery(r) /\ stage'[r] # "idle" => stage[r] # "idle"
  PROVE  Runs'
<1>1. \A j \in Job : stage'[Set(j)] # "idle" => stage[Set(j)] # "idle"
  BY QueriesAreReq, KindsDiffer
<1>2. stage'[Cli] # "idle" => stage[Cli] # "idle"
  BY QueriesAreReq, IntServerAssumption DEF IsQuery, Cli
<1>3. QED
  BY <1>1, <1>2 DEF Runs, Commanded

LEMMA BlocksKept ==
  ASSUME Blocks, blocked' = blocked,
         \A j \in Job : job'[j].kind = job[j].kind /\ job'[j].owner = job[j].owner
  PROVE  Blocks'
<1>1. \A o : PulseRuns(o)' = PulseRuns(o)
  BY DEF PulseRuns
<1>2. QED
  BY <1>1 DEF Blocks

\* A notification takes the object of the store away from the runs that use it.
LEMMA NotifyStep == ASSUME World, NEW m \in Mac, Notify(m) PROVE (Types /\ Runs /\ Carried /\ Blocks)'
<1>1. /\ UNCHANGED <<http, reply, actual, late, shell, blocked, lastPulse, subscribed, sent,
                     budget, cmds>>
      /\ store' = store \cup {m}
  BY DEF Notify
<1>2. heap \in Heaps /\ Types /\ <<m, 0>> \in Obj
  BY GenIs DEF World, Types, Heaps, Obj
<1>3. PICK g \in Gen :
        /\ heap' \in Heaps
        /\ \A j \in Job : \/ job'[j] = job[j]
                        \/ /\ job[j].devs[m] = 0
                           /\ job'[j] = [job[j] EXCEPT !.devs = [job[j].devs EXCEPT ![m] = g]]
        /\ job' \in [Job -> Slot]
  <2> DEFINE holders == {j \in Job : job[j].devs[m] = 0}
             new == [Blank EXCEPT !.fresh = TRUE]
             number == CHOOSE n \in Gen \ {0} : \A j \in Job : job[j].devs[m] # n
  <2>1. CASE holders = {}
    <3>1. heap' = [heap EXCEPT ![<<m, 0>>] = new] /\ job' = job
      BY <2>1 DEF Notify
    <3>2. heap' \in Heaps
      BY <1>2, <3>1, BlankIsTyped DEF Heaps
    <3>3. QED
      BY <1>2, <3>1, <3>2, GenIs DEF Types
  <2>2. CASE holders # {}
    <3>1. number \in Gen
      BY <1>2, <2>2, NumberIsFree
    <3>2. /\ heap' = [heap EXCEPT ![<<m, number>>] = heap[<<m, 0>>], ![<<m, 0>>] = new]
          /\ job' = [j \in Job |-> IF j \in holders THEN [job[j] EXCEPT !.devs[m] = number]
                                                  ELSE job[j]]
      BY <2>2 DEF Notify
    <3> HIDE DEF number, new
    <3>3. new \in Object /\ heap[<<m, 0>>] \in Object
      BY <1>2, BlankIsTyped DEF Heaps, new
    <3>4. heap' \in Heaps
      BY <1>2, <3>2, <3>3 DEF Heaps
    <3>5. ASSUME NEW j \in Job
          PROVE  /\ \/ job'[j] = job[j]
                    \/ /\ job[j].devs[m] = 0
                       /\ job'[j] = [job[j] EXCEPT !.devs = [job[j].devs EXCEPT ![m] = number]]
                 /\ job'[j] \in Slot
      <4>1. job[j] \in Slot /\ job[j].devs \in Lists
        BY <1>2, SlotIsTyped DEF Types
      <4>2. [job[j].devs EXCEPT ![m] = number] \in Lists
        BY <3>1, <4>1 DEF Lists
      <4>3. [job[j] EXCEPT !.devs = [job[j].devs EXCEPT ![m] = number]] \in Slot
        BY <4>1, <4>2, SlotIsTyped
      <4>4. QED
        BY <3>2, <4>1, <4>3
    <3>6. job' \in [Job -> Slot]
      BY <3>2, <3>5
    <3>7. QED
      BY <3>1, <3>4, <3>5, <3>6
  <2>3. QED
    BY <2>1, <2>2
<1>4. Types'
  BY <1>1, <1>2, <1>3 DEF Types, Heaps
<1>5. ASSUME NEW j \in Job
      PROVE  /\ job'[j].kind = job[j].kind /\ job'[j].owner = job[j].owner
             /\ job'[j].cmd = job[j].cmd
             /\ job'[j].devs \in {job[j].devs, [job[j].devs EXCEPT ![m] = g]}
             /\ (job'[j].devs # job[j].devs => job[j].devs[m] = 0)
  <2>1. job[j] \in Slot /\ job[j].devs \in Lists
    BY <1>2, SlotIsTyped DEF Types
  <2>2. [job[j].devs EXCEPT ![m] = g] \in Lists
    BY <2>1 DEF Lists
  <2>3. CASE job'[j] = job[j]
    BY <2>3
  <2>4. CASE /\ job[j].devs[m] = 0
             /\ job'[j] = [job[j] EXCEPT !.devs = [job[j].devs EXCEPT ![m] = g]]
    BY <2>1, <2>2, <2>4, SlotIsTyped
  <2>5. QED
    BY <1>3, <2>3, <2>4
<1>6. ASSUME NEW j \in Job, Commanded(j) PROVE Commanded(j)'
  <2>1. PICK n \in Gen : job[j].devs = [NoDevs EXCEPT ![job[j].cmd[1]] = n]
    BY <1>6 DEF Commanded
  <2>2. CASE job'[j].devs = job[j].devs
    BY <1>5, <1>6, <2>2 DEF Commanded
  <2>3. CASE job'[j].devs # job[j].devs
    <3>1. job[j].devs[m] = 0 /\ job'[j].devs = [job[j].devs EXCEPT ![m] = g]
      BY <1>5, <2>3
    <3>2. job[j].cmd[1] = m
      BY <2>1, <3>1, GenIs DEF NoDevs
    <3>3. job'[j].devs = [NoDevs EXCEPT ![m] = g]
      BY <2>1, <3>1, <3>2 DEF NoDevs
    <3>4. QED
      BY <1>5, <1>6, <3>2, <3>3 DEF Commanded
  <2>4. QED
    BY <2>2, <2>3
<1>7. Runs'
  <2>1. \A j \in Job : job'[j].kind # "free" => job'[j].owner \in Owner
    BY <1>5 DEF World, Runs
  <2>2. stage' = stage /\ shell' = shell
    BY <1>1 DEF http
  <2>3. QED
    BY <1>6, <2>1, <2>2 DEF World, Runs
<1>8. Carried'
  BY <1>1 DEF World, Carried, http
<1>9. Blocks'
  BY <1>1, <1>5, BlocksKept DEF World
<1>10. QED
  BY <1>4, <1>7, <1>8, <1>9

\* Every subscribed owner that is not blocked gets one run, and is blocked.
LEMMA PulseStep == ASSUME World, PulseArrives PROVE (Types /\ Runs /\ Carried /\ Blocks)'
<1>1. PICK slot \in [Accepting -> Free] :
        /\ \A a, b \in Accepting : slot[a] = slot[b] => a = b
        /\ job' = Started(slot)
        /\ IF Queries(slot) = {} THEN UNCHANGED http ELSE H!Call(Queries(slot))
  BY DEF PulseArrives
<1>2. /\ heap' = Checked(heap, Stored) /\ blocked' = blocked \cup Accepting
      /\ lastPulse' = lastPulse \cup (Accepting \cap {"homepage"})
      /\ UNCHANGED <<reply, store, actual, late, shell, subscribed, sent, budget, cmds>>
  BY DEF PulseArrives
<1>3. Types /\ heap \in Heaps /\ Accepting \subseteq Owner /\ Free \subseteq Job
  BY DEF World, Types, Heaps, Accepting, Free
<1>4. ASSUME NEW j \in Job
      PROVE  \/ \E o \in Accepting : /\ slot[o] = j /\ job[j].kind = "free"
                                    /\ job'[j] \in Slot
                                    /\ job'[j].kind = "pulse" /\ job'[j].owner = o
             \/ job'[j] = job[j] /\ \A o \in Accepting : slot[o] # j
  <2>1. CASE \E o \in Accepting : slot[o] = j
    <3>1. PICK o \in Accepting : slot[o] = j
      BY <2>1
    <3>2. (CHOOSE a \in Accepting : slot[a] = j) = o
      BY <1>1, <3>1
    <3>3. job[j].kind = "free" /\ o \in Owner
      BY <1>3, <3>1 DEF Free
    <3>4. job'[j] = [kind |-> "pulse", owner |-> o, cmd |-> None, devs |-> Stored]
      BY <1>1, <3>1, <3>2 DEF Started
    <3>5. job'[j] \in Slot
      BY <3>3, <3>4, StoredIsTyped DEF Slot
    <3>6. QED
      BY <3>1, <3>3, <3>4, <3>5
  <2>2. CASE ~\E o \in Accepting : slot[o] = j
    BY <1>1, <2>2 DEF Started
  <2>3. QED
    BY <2>1, <2>2
<1>5. job' \in [Job -> Slot]
  <2>1. \A j \in Job : job'[j] \in Slot
    BY <1>3, <1>4 DEF Types
  <2>2. QED
    BY <1>1, <2>1 DEF Started
<1>6. Types'
  <2>1. heap' \in Heaps
    BY <1>2, <1>3, CheckedIsTyped
  <2>2. blocked' \subseteq Owner /\ lastPulse' \subseteq Owner
    BY <1>2, <1>3 DEF Types
  <2>3. QED
    BY <1>2, <1>3, <1>5, <2>1, <2>2 DEF Types, Heaps
<1>7. \A r \in Req : /\ (stage'[r] = stage[r] \/ stage[r] = "idle")
                    /\ (~IsQuery(r) => stage'[r] = stage[r])
  <2>1. Queries(slot) \subseteq Req /\ \A r \in Queries(slot) : IsQuery(r)
    BY <1>3, QueriesAreReq, KindsDiffer DEF Queries
  <2>2. CASE UNCHANGED http
    BY <2>2 DEF http
  <2>3. CASE H!Call(Queries(slot))
    BY <2>1, <2>3, CallSends DEF World
  <2>4. QED
    BY <1>1, <2>2, <2>3
<1>8. Runs'
  <2>1. ASSUME NEW j \in Job, job'[j].kind # "free" PROVE job'[j].owner \in Owner
    BY <1>3, <1>4, <2>1 DEF World, Runs
  <2>2. ASSUME NEW j \in Job, stage'[Set(j)] # "idle" PROVE Commanded(j)'
    <3>1. stage[Set(j)] # "idle"
      BY <1>7, <2>2, QueriesAreReq, KindsDiffer
    <3>2. Commanded(j)
      BY <3>1 DEF World, Runs
    <3>3. job'[j] = job[j]
      BY <1>4, <3>2 DEF Commanded
    <3>4. QED
      BY <3>2, <3>3 DEF Commanded
  <2>3. stage'[Cli] = stage[Cli] /\ shell' = shell
    BY <1>2, <1>7, QueriesAreReq, IntServerAssumption DEF IsQuery, Cli
  <2>4. QED
    BY <2>1, <2>2, <2>3 DEF World, Runs
<1>9. Carried'
  BY <1>2, <1>7 DEF World, Carried
<1>10. Blocks'
  <2> SUFFICES ASSUME NEW o \in Owner
               PROVE  IF o \in blocked' THEN \E j \in Job : PulseRuns(o)' = {j}
                                        ELSE PulseRuns(o)' = {}
    BY DEF Blocks
  <2>1. CASE o \in Accepting
    <3>1. slot[o] \in Job /\ PulseRuns(o) = {}
      BY <1>3, <2>1 DEF World, Blocks, Accepting
    <3>2. ASSUME NEW j \in Job
          PROVE  (job'[j].kind = "pulse" /\ job'[j].owner = o) <=> j = slot[o]
      BY <1>1, <1>4, <2>1, <3>1 DEF PulseRuns
    <3>3. PulseRuns(o)' = {slot[o]}
      BY <3>1, <3>2 DEF PulseRuns
    <3>4. QED
      BY <1>2, <2>1, <3>1, <3>3
  <2>2. CASE o \notin Accepting
    <3>1. ASSUME NEW j \in Job
          PROVE  (job'[j].kind = "pulse" /\ job'[j].owner = o)
                 <=> (job[j].kind = "pulse" /\ job[j].owner = o)
      BY <1>4, <2>2
    <3>2. PulseRuns(o)' = PulseRuns(o)
      BY <3>1 DEF PulseRuns
    <3>3. QED
      BY <1>2, <2>2, <3>2 DEF World, Blocks
  <2>3. QED
    BY <2>1, <2>2
<1>11. QED
  BY <1>6, <1>8, <1>9, <1>10

LEMMA SpendIsTyped ==
  ASSUME Types, \/ \E kind \in Kinds : Spend(kind)
                \/ UNCHANGED budget
  PROVE  budget' \in 0 .. Budget
  BY IntServerAssumption DEF Types, Spend

\* Steps that touch no run and no request.
LEMMA QuietStep ==
  ASSUME World,
         \/ UNCHANGED vars
         \/ \E o \in Obj : Expire(o)
         \/ FeConnect
         \/ \E c \in Command : LateCommand(c)
  PROVE  (Types /\ Runs /\ Carried /\ Blocks)'
<1>1. UNCHANGED <<http, reply, store, job, shell, blocked, lastPulse, cmds>>
  BY DEF vars, Expire, FeConnect, LateCommand
<1>2. Types
  BY DEF World
<1>3. Runs' /\ Blocks' /\ Carried'
  BY <1>1, RunsKept, BlocksKept DEF World, http, Carried
<1>4. budget' \in 0 .. Budget
  BY <1>2, SpendIsTyped DEF vars, Expire, FeConnect, LateCommand, Kinds
<1>5. heap' \in Heaps
  <2>1. CASE heap' = heap
    BY <1>2, <2>1 DEF Types, Heaps
  <2>2. ASSUME NEW o \in Obj, Expire(o) PROVE heap' \in Heaps
    <3>1. heap[o] \in Object /\ heap' = [heap EXCEPT ![o] = [heap[o] EXCEPT !.fresh = FALSE]]
      BY <1>2, <2>2 DEF Types, Expire
    <3>2. [heap[o] EXCEPT !.fresh = FALSE] \in Object
      BY <3>1 DEF Object
    <3>3. QED
      BY <1>2, <3>1, <3>2 DEF Types, Heaps
  <2>3. QED
    BY <2>1, <2>2 DEF vars, FeConnect, LateCommand
<1>6. late' \in [Command -> Nat]
  BY <1>2 DEF Types, vars, Expire, FeConnect, LateCommand
<1>7. actual' \in [Mac -> [Pin -> Val]]
  <2>1. CASE actual' = actual
    BY <1>2, <2>1 DEF Types
  <2>2. ASSUME NEW c \in Command, LateCommand(c) PROVE actual' \in [Mac -> [Pin -> Val]]
    <3>1. actual \in [Mac -> [Pin -> Val]] /\ actual' \in {actual, Executed(c)}
      BY <1>2, <2>2 DEF Types, LateCommand
    <3>2. QED
      BY <3>1, ExecutedIsTyped
  <2>3. QED
    BY <2>1, <2>2 DEF vars, Expire, FeConnect
<1>8. subscribed' \subseteq Owner /\ sent' \in [Owner -> Views \cup {None}]
  <2>1. CASE UNCHANGED <<subscribed, sent>>
    BY <1>2, <2>1 DEF Types
  <2>2. CASE FeConnect
    BY <1>2, <2>2 DEF Types, FeConnect
  <2>3. QED
    BY <2>1, <2>2 DEF vars, Expire, LateCommand
<1>9. Types'
  BY <1>1, <1>2, <1>4, <1>5, <1>6, <1>7, <1>8 DEF Types, Heaps
<1>10. QED
  BY <1>3, <1>9

\* A control command occupies a free run, which captures the device's object.
LEMMA CtrlStep ==
  ASSUME World, NEW o \in Owner, NEW c \in Command, CtrlDev(o, c)
  PROVE  (Types /\ Runs /\ Carried /\ Blocks)'
<1> DEFINE run == [kind |-> "ctrl", owner |-> o, cmd |-> c,
                   devs |-> [NoDevs EXCEPT ![c[1]] = 0]]
<1>1. PICK j \in Free : job' = [job EXCEPT ![j] = run] /\ H!Call({Set(j)})
  BY DEF CtrlDev
<1>2. /\ cmds' = IF cmds < 2 THEN cmds + 1 ELSE 2
      /\ Spend("command")
      /\ UNCHANGED <<reply, store, heap, actual, late, shell, blocked, lastPulse,
                     subscribed, sent>>
  BY DEF CtrlDev
<1>3. Types /\ j \in Job /\ job[j].kind = "free"
  BY DEF World, Free
<1>4. run \in Slot /\ c[1] \in Mac /\ 0 \in Gen
  <2>1. c[1] \in Mac /\ 0 \in Gen
    BY GenIs DEF Command
  <2>2. [NoDevs EXCEPT ![c[1]] = 0] \in Lists
    BY <2>1, StoredIsTyped DEF Lists
  <2>3. QED
    BY <2>1, <2>2 DEF Slot
<1>5. /\ job'[j] = run /\ \A k \in Job \ {j} : job'[k] = job[k]
      /\ job' \in [Job -> Slot]
  BY <1>1, <1>3, <1>4 DEF Types
<1>6. Types'
  <2>1. budget' \in 0 .. Budget
    BY <1>2, <1>3, SpendIsTyped DEF Kinds
  <2>2. cmds' \in 0 .. 2
    BY <1>2, <1>3 DEF Types
  <2>3. QED
    BY <1>2, <1>3, <1>5, <2>1, <2>2 DEF Types
<1>7. \A r \in Req : stage'[r] = IF r = Set(j) THEN "connecting" ELSE stage[r]
  <2>1. {Set(j)} \in SUBSET Req
    BY <1>3, QueriesAreReq
  <2>2. QED
    BY <1>1, <2>1, CallSends DEF World
<1>8. Runs'
  <2>1. \A k \in Job : job'[k].kind # "free" => job'[k].owner \in Owner
    BY <1>5 DEF World, Runs
  <2>2. Commanded(j)'
    <3>1. job'[j].kind = "ctrl" /\ job'[j].cmd = c
      BY <1>5
    <3>2. job'[j].devs = [NoDevs EXCEPT ![c[1]] = 0]
      BY <1>5
    <3>3. QED
      BY <1>4, <3>1, <3>2 DEF Commanded
  <2>3. ASSUME NEW k \in Job \ {j}, stage'[Set(k)] # "idle" PROVE Commanded(k)'
    <3>1. stage[Set(k)] # "idle"
      BY <1>3, <1>7, <2>3, KindsDiffer, QueriesAreReq
    <3>2. Commanded(k)
      BY <3>1 DEF World, Runs
    <3>3. QED
      BY <1>5, <3>2 DEF Commanded
  <2>4. stage'[Cli] = stage[Cli]
    BY <1>3, <1>7, KindsDiffer, QueriesAreReq
  <2>5. QED
    BY <1>2, <2>1, <2>2, <2>3, <2>4 DEF World, Runs
<1>9. Carried'
  <2>1. stage[Set(j)] = "idle" /\ Set(j) \in Req
    BY <1>3, QueriesAreReq DEF World, Runs, Commanded
  <2>2. QED
    BY <1>2, <1>7, <2>1 DEF World, Carried
<1>10. Blocks'
  <2>1. \A p : PulseRuns(p)' = PulseRuns(p)
    BY <1>3, <1>5 DEF PulseRuns
  <2>2. QED
    BY <1>2, <2>1 DEF World, Blocks
<1>11. QED
  BY <1>6, <1>8, <1>9, <1>10

\* The shell command.
LEMMA SelectStep ==
  ASSUME World, NEW c \in Command, Select(c) PROVE (Types /\ Runs /\ Carried /\ Blocks)'
<1>1. /\ shell' = c /\ H!Call({Cli}) /\ Spend("shell")
      /\ heap' = Checked(heap, [NoDevs EXCEPT ![c[1]] = 0])
      /\ UNCHANGED <<reply, store, actual, late, job, blocked, lastPulse, subscribed,
                     sent, cmds>>
  BY DEF Select
<1>2. Types /\ heap \in Heaps
  BY DEF World, Types, Heaps
<1>3. heap' \in Heaps /\ budget' \in 0 .. Budget
  BY <1>1, <1>2, CheckedIsTyped, SpendIsTyped DEF Kinds
<1>4. Types'
  BY <1>1, <1>2, <1>3 DEF Types, Heaps
<1>5. /\ \A r \in Req : stage'[r] = IF r = Cli THEN "connecting" ELSE stage[r]
      /\ stage[Cli] = "idle"
  <2>1. {Cli} \in SUBSET Req
    BY QueriesAreReq
  <2>2. QED
    BY <1>1, <2>1, CallSends DEF World
<1>6. Runs'
  <2>1. \A j \in Job : stage'[Set(j)] = stage[Set(j)]
    BY <1>5, KindsDiffer, QueriesAreReq
  <2>2. QED
    BY <1>1, <2>1 DEF World, Runs, Commanded
<1>7. Carried'
  BY <1>1, <1>5 DEF World, Carried
<1>8. Blocks'
  BY <1>1, BlocksKept DEF World
<1>9. QED
  BY <1>4, <1>6, <1>7, <1>8

\* What the device and the network do to a request in flight.
LEMMA EventStep ==
  ASSUME World, NEW r \in Req,
         \/ Answer(r) \/ AnswerJunk(r) \/ BodyEnds(r)
         \/ ConnectionFails(r) \/ TimerFires(r) \/ SocketCloses(r)
  PROVE  (Types /\ Runs /\ Carried /\ Blocks)'
<1>1. UNCHANGED <<store, heap, job, shell, blocked, lastPulse, subscribed, sent, cmds>>
  BY DEF Answer, AnswerJunk, BodyEnds, ConnectionFails, TimerFires, SocketCloses
<1>2. Types /\ H!TypeOK /\ Carried /\ Runs
  BY DEF World
<1>3. stage[r] # "idle" /\ \A q \in Req \ {r} : stage'[q] = stage[q]
  <2>1. \/ H!Headers(r) \/ H!End(r) \/ H!Refuse(r) \/ H!Break(r)
        \/ H!ResError(r) \/ H!Timer(r)
    BY DEF Answer, AnswerJunk, BodyEnds, ConnectionFails, TimerFires, SocketCloses
  <2>2. QED
    BY <1>2, <2>1, MoveMoves
<1>4. Runs'
  BY <1>1, <1>2, <1>3, RunsKept
<1>5. Blocks'
  BY <1>1, BlocksKept DEF World
<1>6. budget' \in 0 .. Budget
  <2>1. (\E kind \in Kinds : Spend(kind)) \/ UNCHANGED budget
    BY DEF Answer, AnswerJunk, BodyEnds, ConnectionFails, TimerFires, SocketCloses, Kinds
  <2>2. QED
    BY <1>2, <2>1, SpendIsTyped
<1>7. late' \in [Command -> Nat]
  <2>1. late \in [Command -> Nat] /\ GivenUp({r}) \in [Command -> Nat]
    BY <1>2, GivenUpIsTyped DEF Types
  <2>2. late' = late \/ late' = GivenUp({r})
    BY DEF Answer, AnswerJunk, BodyEnds, ConnectionFails, TimerFires, SocketCloses
  <2>3. QED
    BY <2>1, <2>2
<1>8. /\ actual' \in [Mac -> [Pin -> Val]]
      /\ reply' \in [Req -> Pins \cup {None}]
      /\ reply'[r] # None => stage'[r] \in {"streaming", "done"}
      /\ \A q \in Req \ {r} : reply'[q] = reply[q]
  <2>1. /\ actual \in [Mac -> [Pin -> Val]] /\ reply \in [Req -> Pins \cup {None}]
        /\ stage \in [Req -> H!Stages]
    BY <1>2 DEF Types, H!TypeOK, Req
  <2>2. CASE Answer(r)
    <3>1. stage[r] = "connecting" /\ stage' = [stage EXCEPT ![r] = "streaming"]
      BY <2>2 DEF Answer, H!Headers, H!Move
    <3>2. CASE IsQuery(r)
      <4>1. reply' = [reply EXCEPT ![r] = actual[r[2]]] /\ actual' = actual
        BY <2>2, <3>2 DEF Answer
      <4>2. actual[r[2]] \in Pins
        BY <2>1, <3>2 DEF IsQuery, Pins
      <4>3. QED
        BY <2>1, <3>1, <4>1, <4>2
    <3>3. CASE ~IsQuery(r)
      <4>1. PICK c \in Command : c = Cmd(r)
        BY <1>2, <1>3, <3>3, CmdIsTyped
      <4>2. /\ reply' = [reply EXCEPT ![r] = [Unknown EXCEPT ![c[2]] = c[3]]]
            /\ actual' = Executed(c)
        BY <2>2, <3>3, <4>1 DEF Answer
      <4>3. [Unknown EXCEPT ![c[2]] = c[3]] \in Pins
        BY DEF Unknown, Pins, Command
      <4>4. QED
        BY <2>1, <3>1, <4>2, <4>3, ExecutedIsTyped
    <3>4. QED
      BY <3>2, <3>3
  <2>3. CASE AnswerJunk(r) \/ BodyEnds(r)
    <3>1. /\ UNCHANGED <<actual, reply>>
          /\ \/ stage' = [stage EXCEPT ![r] = "streaming"]
             \/ stage' = [stage EXCEPT ![r] = "done"]
      BY <2>3 DEF AnswerJunk, BodyEnds, H!Headers, H!End, H!Move
    <3>2. QED
      BY <2>1, <3>1
  <2>4. CASE ConnectionFails(r) \/ TimerFires(r)
    <3>1. actual' = actual /\ reply' = [reply EXCEPT ![r] = None]
      BY <2>4 DEF ConnectionFails, TimerFires, Closed
    <3>2. QED
      BY <2>1, <3>1
  <2>5. CASE SocketCloses(r)
    <3>1. UNCHANGED <<actual, reply>> /\ stage[r] = "dying"
      BY <2>5 DEF SocketCloses
    <3>2. reply[r] = None
      BY <1>2, <3>1 DEF Carried
    <3>3. QED
      BY <2>1, <3>1, <3>2
  <2>6. QED
    BY <2>2, <2>3, <2>4, <2>5
<1>9. Types'
  BY <1>1, <1>2, <1>6, <1>7, <1>8 DEF Types
<1>10. Carried'
  BY <1>2, <1>3, <1>8 DEF Carried
<1>11. QED
  BY <1>4, <1>5, <1>9, <1>10

\* The reply of a query goes into the object its run captured.
LEMMA QueryStep ==
  ASSUME World, NEW j \in Job, NEW m \in Mac, QueryResumes(j, m)
  PROVE  (Types /\ Runs /\ Carried /\ Blocks)'
<1> DEFINE r == Query(j, m)
<1>1. /\ H!Resume(r, {})
      /\ heap' = IF stage[r] = "done" THEN Updated(heap, Target(j, m), reply[r]) ELSE heap
      /\ reply' = [reply EXCEPT ![r] = None]
      /\ UNCHANGED <<store, actual, late, job, shell, blocked, lastPulse, subscribed,
                     sent, budget, cmds>>
  BY DEF QueryResumes, Closed
<1>2. r \in Req /\ {} \in SUBSET Req
  BY QueriesAreReq
<1> HIDE DEF r
<1>3. Types /\ H!TypeOK /\ Carried /\ Runs /\ heap \in Heaps
  BY DEF World, Types, Heaps
<1>4. stage[r] # "idle" /\ \A q \in Req \ {r} : stage'[q] = stage[q]
  BY <1>1, <1>2, <1>3, ResumeEnds
<1>5. reply \in [Req -> Pins \cup {None}]
  BY <1>3 DEF Types
<1>6. heap' \in Heaps
  <2>1. reply[r] \in Pins \cup {None}
    BY <1>2, <1>5
  <2>2. Updated(heap, Target(j, m), reply[r]) \in Heaps
    BY <1>3, <2>1, UpdatedIsTyped
  <2>3. QED
    BY <1>1, <1>3, <2>2
<1>7. Types'
  BY <1>1, <1>3, <1>5, <1>6 DEF Types, Heaps
<1>8. Runs'
  BY <1>1, <1>2, <1>3, <1>4, RunsKept
<1>9. Blocks'
  BY <1>1, BlocksKept DEF World
<1>10. Carried'
  BY <1>1, <1>2, <1>3, <1>4, <1>5 DEF Carried
<1>11. QED
  BY <1>7, <1>8, <1>9, <1>10

LEMMA ShellStep == ASSUME World, ShellResumes PROVE (Types /\ Runs /\ Carried /\ Blocks)'
<1>1. /\ H!Resume(Cli, {}) /\ shell' = None /\ reply' = [reply EXCEPT ![Cli] = None]
      /\ UNCHANGED <<store, heap, actual, late, job, blocked, lastPulse, subscribed, sent,
                     budget, cmds>>
  BY DEF ShellResumes, Closed
<1>2. Cli \in Req /\ {} \in SUBSET Req
  BY QueriesAreReq
<1>3. Types /\ H!TypeOK /\ Carried /\ Runs
  BY DEF World
<1>4. stage'[Cli] = "idle" /\ \A q \in Req \ {Cli} : stage'[q] = stage[q]
  BY <1>1, <1>2, <1>3, ResumeEnds
<1>5. reply \in [Req -> Pins \cup {None}]
  BY <1>3 DEF Types
<1>6. Types'
  BY <1>1, <1>3, <1>5 DEF Types
<1>7. Runs'
  <2>1. \A j \in Job : stage'[Set(j)] = stage[Set(j)]
    BY <1>4, KindsDiffer, QueriesAreReq
  <2>2. QED
    BY <1>1, <1>3, <1>4, <2>1 DEF Runs, Commanded
<1>8. Carried'
  BY <1>1, <1>2, <1>3, <1>4, <1>5 DEF Carried
<1>9. Blocks'
  BY <1>1, BlocksKept DEF World
<1>10. QED
  BY <1>6, <1>7, <1>8, <1>9

\* A run that awaited a control command goes on to its queries, or ends: its
\* slot s is another one, but it was and is no pulse run.
LEMMA SetStep ==
  ASSUME World, NEW j \in Job, SetSucceeds(j) \/ SetFails(j)
  PROVE  (Types /\ Runs /\ Carried /\ Blocks)'
<1>1. Types /\ H!TypeOK /\ Runs /\ Carried /\ Blocks /\ heap \in Heaps
  BY DEF World, Types, Heaps
<1>2. /\ UNCHANGED <<store, actual, late, shell, blocked, lastPulse, subscribed, sent,
                     budget, cmds>>
      /\ reply' = [reply EXCEPT ![Set(j)] = None] \/ reply' = reply
      /\ reply' = reply => stage[Set(j)] \in H!Failed \/ reply[Set(j)] = None
  <2>1. CASE SetSucceeds(j)
    <3>1. reply' = [reply EXCEPT ![Set(j)] = None]
      BY <2>1 DEF SetSucceeds, Closed
    <3>2. reply' = reply => reply[Set(j)] = None
      BY <1>1, <3>1, QueriesAreReq DEF Types
    <3>3. QED
      BY <2>1, <3>1, <3>2 DEF SetSucceeds
  <2>2. CASE SetFails(j)
    BY <2>2 DEF SetFails
  <2>3. QED
    BY <2>1, <2>2
<1>3. PICK S \in SUBSET Req : H!Resume(Set(j), S) /\ \A q \in S : IsQuery(q)
  <2>1. /\ {Query(j, n) : n \in Asked(Stored)} \in SUBSET Req
        /\ \A q \in {Query(j, n) : n \in Asked(Stored)} : IsQuery(q)
    BY QueriesAreReq, KindsDiffer
  <2>2. QED
    BY <2>1 DEF SetSucceeds, SetFails
<1>4. /\ stage[Set(j)] # "idle" /\ stage'[Set(j)] = "idle"
      /\ \A q \in Req \ {Set(j)} : stage'[q] = IF q \in S THEN "connecting" ELSE stage[q]
      /\ \A q \in S : stage[q] = "idle" /\ q # Set(j)
  BY <1>1, <1>3, ResumeEnds, QueriesAreReq, KindsDiffer
<1>5. job[j].kind = "ctrl" /\ job[j].owner \in Owner
  BY <1>1, <1>4 DEF Runs, Commanded
<1>6. /\ job' \in [Job -> Slot] /\ \A k \in Job \ {j} : job'[k] = job[k]
      /\ job'[j].kind \in {"free", "ctrl"}
      /\ job'[j].kind # "free" => job'[j].owner \in Owner
  <2>1. job[j] \in Slot /\ job \in [Job -> Slot]
    BY <1>1 DEF Types
  <2>2. CASE job' = [job EXCEPT ![j] = [job[j] EXCEPT !.devs = Stored]]
    <3>1. /\ [job[j] EXCEPT !.devs = Stored] \in Slot
          /\ [job[j] EXCEPT !.devs = Stored].kind = "ctrl"
          /\ [job[j] EXCEPT !.devs = Stored].owner \in Owner
      BY <1>5, <2>1, SlotIsTyped, StoredIsTyped
    <3>2. QED
      BY <2>1, <2>2, <3>1
  <2>3. CASE job' = [job EXCEPT ![j] = FreeSlot]
    BY <2>1, <2>3, FreeIsTyped
  <2>4. QED
    BY <2>2, <2>3 DEF SetSucceeds, SetFails
<1>7. heap' \in Heaps
  <2>1. CASE SetSucceeds(j)
    <3>1. PICK set : /\ set = Updated(heap, Target(j, Cmd(Set(j))[1]), reply[Set(j)])
                    /\ \/ heap' = Collected(Checked(set, Stored), job')
                       \/ heap' = Collected(set, job')
      BY <2>1 DEF SetSucceeds
    <3>2. reply[Set(j)] \in Pins \cup {None}
      BY <1>1, QueriesAreReq DEF Types
    <3>3. set \in Heaps
      BY <1>1, <3>1, <3>2, UpdatedIsTyped
    <3>4. Checked(set, Stored) \in Heaps
      BY <3>3, CheckedIsTyped
    <3>5. QED
      BY <3>1, <3>3, <3>4, CollectedIsTyped
  <2>2. CASE SetFails(j)
    BY <1>1, <2>2, CollectedIsTyped DEF SetFails
  <2>3. QED
    BY <2>1, <2>2
<1>8. reply' \in [Req -> Pins \cup {None}]
  BY <1>1, <1>2 DEF Types
<1>9. Types'
  BY <1>1, <1>2, <1>6, <1>7, <1>8 DEF Types, Heaps
<1>10. Runs'
  <2>1. \A k \in Job : job'[k].kind # "free" => job'[k].owner \in Owner
    BY <1>1, <1>6 DEF Runs
  <2>2. ASSUME NEW k \in Job, stage'[Set(k)] # "idle" PROVE Commanded(k)'
    <3>1. k # j /\ stage[Set(k)] # "idle"
      BY <1>3, <1>4, <2>2, KindsDiffer, QueriesAreReq
    <3>2. Commanded(k)
      BY <1>1, <3>1 DEF Runs
    <3>3. QED
      BY <1>6, <3>1, <3>2 DEF Commanded
  <2>3. stage'[Cli] = stage[Cli]
    BY <1>3, <1>4, KindsDiffer, QueriesAreReq
  <2>4. QED
    BY <1>1, <1>2, <2>1, <2>2, <2>3 DEF Runs
<1>11. Carried'
  <2>1. ASSUME NEW q \in Req \ {Set(j)}, reply'[q] # None
        PROVE  stage'[q] \in {"streaming", "done"}
    <3>1. reply'[q] = reply[q]
      BY <1>1, <1>2 DEF Types
    <3>2. stage[q] \in {"streaming", "done"}
      BY <1>1, <2>1, <3>1 DEF Carried
    <3>3. QED
      BY <1>4, <3>2
  <2>2. reply'[Set(j)] = None
    <3>1. stage[Set(j)] \in H!Failed => reply[Set(j)] = None
      BY <1>1, QueriesAreReq DEF Carried, H!Failed
    <3>2. QED
      BY <1>1, <1>2, <3>1, QueriesAreReq DEF Types
  <2>3. QED
    BY <2>1, <2>2 DEF Carried
<1>12. Blocks'
  <2>1. \A o : PulseRuns(o)' = PulseRuns(o)
    BY <1>5, <1>6 DEF PulseRuns
  <2>2. QED
    BY <1>1, <1>2, <2>1 DEF Blocks
<1>13. QED
  BY <1>9, <1>10, <1>11, <1>12

\* The pulse run that ends is its owner's only one.
LEMMA FinishStep ==
  ASSUME World, NEW j \in Job, Finish(j) PROVE (Types /\ Runs /\ Carried /\ Blocks)'
<1>1. Types /\ H!TypeOK /\ Runs /\ Carried /\ Blocks /\ heap \in Heaps
  BY DEF World, Types, Heaps
<1>2. /\ job[j].kind # "free" /\ stage[Set(j)] = "idle"
      /\ sent' = [sent EXCEPT ![job[j].owner] = View(job[j].devs)]
      /\ blocked' = IF job[j].kind = "pulse" THEN blocked \ {job[j].owner} ELSE blocked
      /\ lastPulse' = lastPulse \cup {job[j].owner}
      /\ job' = [job EXCEPT ![j] = FreeSlot]
      /\ heap' = Collected(heap, job')
      /\ UNCHANGED <<http, reply, store, actual, late, shell, subscribed, budget, cmds>>
  BY DEF Finish, Finishing, Set
<1>3. job[j].owner \in Owner /\ job[j].devs \in Lists /\ job \in [Job -> Slot]
  BY <1>1, <1>2, SlotIsTyped DEF Runs, Types
<1>4. /\ job'[j].kind = "free" /\ \A k \in Job \ {j} : job'[k] = job[k]
      /\ job' \in [Job -> Slot]
  BY <1>2, <1>3, FreeIsTyped
<1>5. Types'
  <2>1. heap' \in Heaps
    BY <1>1, <1>2, CollectedIsTyped
  <2>2. sent' \in [Owner -> Views \cup {None}]
    <3>1. View(job[j].devs) \in Views
      BY <1>1, <1>3, ViewIsTyped
    <3>2. QED
      BY <1>1, <1>2, <1>3, <3>1 DEF Types
  <2>3. blocked' \subseteq Owner /\ lastPulse' \subseteq Owner
    BY <1>1, <1>2, <1>3 DEF Types
  <2>4. QED
    BY <1>1, <1>2, <1>4, <2>1, <2>2, <2>3 DEF Types, Heaps
<1>6. Runs'
  <2>1. stage' = stage /\ shell' = shell
    BY <1>2 DEF http
  <2>2. \A k \in Job : job'[k].kind # "free" => job'[k].owner \in Owner
    BY <1>1, <1>4 DEF Runs
  <2>3. ASSUME NEW k \in Job, stage[Set(k)] # "idle" PROVE Commanded(k)'
    <3>1. k # j /\ Commanded(k)
      BY <1>1, <1>2, <2>3 DEF Runs
    <3>2. QED
      BY <1>4, <3>1 DEF Commanded
  <2>4. QED
    BY <1>1, <2>1, <2>2, <2>3 DEF Runs
<1>7. Carried'
  BY <1>1, <1>2 DEF Carried, http
<1>8. Blocks'
  <2> SUFFICES ASSUME NEW o \in Owner
               PROVE  IF o \in blocked' THEN \E k \in Job : PulseRuns(o)' = {k}
                                        ELSE PulseRuns(o)' = {}
    BY DEF Blocks
  <2>1. PulseRuns(o)' = PulseRuns(o) \ {j}
    BY <1>4 DEF PulseRuns
  <2>2. CASE job[j].kind = "pulse" /\ job[j].owner = o
    <3>1. j \in PulseRuns(o)
      BY <2>2 DEF PulseRuns
    <3>2. PulseRuns(o) = {j}
      BY <1>1, <3>1 DEF Blocks
    <3>3. QED
      BY <1>2, <2>1, <2>2, <3>2
  <2>3. CASE ~(job[j].kind = "pulse" /\ job[j].owner = o)
    <3>1. PulseRuns(o)' = PulseRuns(o)
      BY <2>1, <2>3 DEF PulseRuns
    <3>2. o \in blocked' <=> o \in blocked
      BY <1>2, <2>3
    <3>3. QED
      BY <1>1, <3>1, <3>2 DEF Blocks
  <2>4. QED
    BY <2>2, <2>3
<1>9. QED
  BY <1>5, <1>6, <1>7, <1>8

\* Uncaught rejections abort requests of other runs, which lose their bodies.
LEMMA RaiseStep == ASSUME World, RaiseUncaught PROVE (Types /\ Runs /\ Carried /\ Blocks)'
<1>1. /\ late' \in {late, GivenUp({r \in Req : stage'[r] # stage[r]})}
      /\ reply' = [r \in Req |-> IF stage'[r] = "dying" THEN None ELSE reply[r]]
      /\ UNCHANGED <<store, heap, actual, job, shell, blocked, lastPulse, subscribed, sent,
                     budget, cmds>>
  BY DEF RaiseUncaught
<1>2. Types /\ H!TypeOK /\ Runs /\ Carried
  BY DEF World
<1>3. ASSUME NEW r \in Req
      PROVE  \/ stage'[r] = stage[r]
             \/ stage[r] = "connecting" /\ stage'[r] = "refused"
             \/ stage[r] = "streaming" /\ stage'[r] = "dying"
  <2>1. stage'[r] = stage[r] \/ stage'[r] = H!Aborted(r)
    BY DEF RaiseUncaught, H!Raise, Req
  <2>2. QED
    BY <2>1 DEF H!Aborted
<1>4. Types'
  <2>1. GivenUp({r \in Req : stage'[r] # stage[r]}) \in [Command -> Nat]
    <3>1. PICK R \in SUBSET Req : R = {r \in Req : stage'[r] # stage[r]}
      OBVIOUS
    <3>2. GivenUp(R) \in [Command -> Nat]
      BY <1>2, GivenUpIsTyped
    <3>3. QED
      BY <3>1, <3>2
  <2>2. late' \in [Command -> Nat]
    BY <1>1, <1>2, <2>1 DEF Types
  <2>3. reply' \in [Req -> Pins \cup {None}]
    BY <1>1, <1>2 DEF Types
  <2>4. QED
    BY <1>1, <1>2, <2>2, <2>3 DEF Types
<1>5. Runs'
  BY <1>1, <1>2, <1>3, RunsKept
<1>6. Carried'
  BY <1>1, <1>2, <1>3 DEF Carried
<1>7. Blocks'
  BY <1>1, BlocksKept DEF World
<1>8. QED
  BY <1>4, <1>5, <1>6, <1>7

\* A server that has just started has no run, no request and no body.
LEMMA Fresh ==
  ASSUME \A r \in Req : stage[r] = "idle" /\ reply[r] = None,
         \A j \in Job : job[j] = FreeSlot, blocked = {}
  PROVE  Runs /\ Carried /\ Blocks
<1>1. Runs
  BY FreeIsTyped, QueriesAreReq DEF Runs
<1>2. Carried
  BY DEF Carried
<1>3. Blocks
  BY FreeIsTyped DEF Blocks, PulseRuns
<1>4. QED
  BY <1>1, <1>2, <1>3

LEMMA RestartStep == ASSUME World, Restart PROVE (Types /\ Runs /\ Carried /\ Blocks)'
<1>1. /\ reply' = [r \in Req |-> None] /\ store' = {} /\ heap' = [o \in Obj |-> Blank]
      /\ late' = GivenUp(Req) /\ job' = [j \in Job |-> FreeSlot] /\ shell' = None
      /\ blocked' = {} /\ lastPulse' = {} /\ subscribed' = Owner \ {"homepage"}
      /\ cmds' = 0 /\ UNCHANGED <<actual, sent, budget>>
  BY DEF Restart
<1>2. \A r \in Req : stage'[r] = "idle" /\ reply'[r] = None
  BY <1>1 DEF Restart, H!Restart, Req
<1>3. (Runs /\ Carried /\ Blocks)'
  <2>1. /\ (\A r \in Req : stage[r] = "idle" /\ reply[r] = None)'
        /\ (\A j \in Job : job[j] = FreeSlot)' /\ (blocked = {})'
    BY <1>1, <1>2
  <2>2. QED
    BY <2>1, Fresh, PTL
<1>4. Types'
  <2>1. Types /\ late' \in [Command -> Nat]
    BY <1>1, GivenUpIsTyped DEF World
  <2>2. QED
    BY <1>1, <2>1, FreeIsTyped, BlankIsTyped DEF Types
<1>5. QED
  BY <1>3, <1>4

\* One step per action.
LEMMA WorldStep == ASSUME World, HttpInv, [Next]_vars PROVE World'
<1>1. H!TypeOK'
  BY HttpStep
<1>2. (Types /\ Runs /\ Carried /\ Blocks)'
  BY NotifyStep, QuietStep, PulseStep, CtrlStep, SelectStep, EventStep, QueryStep, SetStep,
     FinishStep, ShellStep, RaiseStep, RestartStep, OrdersAreCommands
  DEF Next, Microtask
<1>3. QED
  BY <1>1, <1>2 DEF World

LEMMA WorldInit == Init => World
<1> SUFFICES ASSUME Init PROVE World
  OBVIOUS
<1>1. H!TypeOK
  BY HttpInit DEF Init
<1>2. \A r \in Req : stage[r] = "idle" /\ reply[r] = None
  BY DEF Init, H!Init, Req
<1>3. Runs /\ Carried /\ Blocks
  BY <1>2, Fresh DEF Init
<1>4. Types
  BY FreeIsTyped, BlankIsTyped, IntServerAssumption DEF Init, Types
<1>5. QED
  BY <1>1, <1>3, <1>4 DEF World

\* A run that awaits a control command has captured one object.
LEMMA CaptureIsSingle ==
  ASSUME NEW m \in Mac, NEW g \in Gen
  PROVE  Cardinality(Referred([NoDevs EXCEPT ![m] = g])) = 1
<1>1. Referred([NoDevs EXCEPT ![m] = g]) = {<<m, g>>}
  BY GenIs DEF Referred, NoDevs
<1>2. QED
  BY <1>1, FS_Singleton

\* At every moment an owner is blocked exactly while one pulse run of its own
\* is in progress, so its views go out one after the other and it is never
\* deaf for good; every variable has its type.
THEOREM BlockExact == Spec => []BlockIsExact
<1>1. Init => World /\ HttpInv
  BY WorldInit, HttpInit DEF Init
<1>2. World /\ HttpInv /\ [Next]_vars => (World /\ HttpInv)'
  BY WorldStep, HttpStep
<1>3. World => BlockIsExact
  <2> SUFFICES ASSUME World PROVE BlockIsExact
    OBVIOUS
  <2>1. ASSUME NEW j \in Job, stage[Set(j)] # "idle"
        PROVE  Cardinality(Referred(job[j].devs)) = 1
    <3>1. PICK g \in Gen : job[j].devs = [NoDevs EXCEPT ![job[j].cmd[1]] = g]
      BY <2>1 DEF World, Runs, Commanded
    <3>2. job[j].cmd[1] \in Mac
      BY <2>1 DEF World, Runs, Commanded, Command
    <3>3. QED
      BY <3>1, <3>2, CaptureIsSingle
  <2>2. TypeOK
    BY <2>1 DEF World, Carried, TypeOK
  <2>3. ASSUME NEW o \in Owner
        PROVE  IF o \in blocked THEN Cardinality(PulseRuns(o)) = 1 ELSE PulseRuns(o) = {}
    BY FS_Singleton DEF World, Blocks
  <2>4. QED
    BY <2>2, <2>3 DEF BlockIsExact
<1>4. QED
  BY <1>1, <1>2, <1>3, PTL DEF Spec
-----------------------------------------------------------------------------
(***************************************************************************)
(* Commanding                                                              *)
(***************************************************************************)
LEMMA SpendIsLess ==
  ASSUME Types
  PROVE  /\ \A kind \in Kinds : Spend(kind) => budget' \in Nat /\ budget' < budget
         /\ budget' = budget => budget' \in Nat /\ budget' <= budget
  BY IntServerAssumption DEF Types, Spend

\* The requests for c, seen from the runs and the shell.
Carriers(c) ==
  {Set(j) : j \in {k \in Job : stage[Set(k)] = "connecting" /\ job[k].cmd = c}}
  \cup {r \in {Cli} : stage[Cli] = "connecting" /\ shell = c}

LEMMA UnseenIs == \A c : Unseen(c) = Carriers(c)
<1>1. ASSUME NEW j \in Job
      PROVE  Set(j) \in Req /\ ~IsQuery(Set(j)) /\ Cmd(Set(j)) = job[j].cmd
  BY QueriesAreReq, KindsDiffer DEF Cmd, Set
<1>2. Cli \in Req /\ ~IsQuery(Cli) /\ Cmd(Cli) = shell
  BY QueriesAreReq, IntServerAssumption DEF Cmd, IsQuery, Cli
<1>3. \A r \in Req : ~IsQuery(r) => r = Cli \/ \E j \in Job : r = Set(j)
  BY ReqIs DEF IsQuery
<1>4. QED
  BY <1>1, <1>2, <1>3 DEF Unseen, Carriers

LEMMA UnseenWillBe == \A c : Unseen(c)' = Carriers(c)'
<1>1. (\A c : Unseen(c) = Carriers(c))'
  BY UnseenIs, PTL
<1>2. QED
  BY <1>1

\* Requests that still carry a command did so before, for the same command.
Fewer == /\ \A j \in Job : stage'[Set(j)] = "connecting" =>
                             stage[Set(j)] = "connecting" /\ job'[j].cmd = job[j].cmd
         /\ stage'[Cli] = "connecting" => stage[Cli] = "connecting" /\ shell' = shell

LEMMA FewerUnseen == ASSUME Fewer, NEW c PROVE Unseen(c)' \subseteq Unseen(c)
<1>1. Unseen(c) = Carriers(c) /\ Unseen(c)' = Carriers(c)'
  BY UnseenIs, UnseenWillBe
<1>2. Carriers(c)' \subseteq Carriers(c)
  BY DEF Fewer, Carriers
<1>3. QED
  BY <1>1, <1>2

\* Requests and runs as they were.
LEMMA SameIsFewer == ASSUME UNCHANGED <<http, job, shell>> PROVE Fewer
  BY DEF Fewer, http

LEMMA OutstandingIs ==
  ASSUME Types
  PROVE  /\ Outstanding \in [Command -> Nat] /\ late \in [Command -> Nat]
         /\ \A c \in Command : /\ Outstanding[c] = late[c] + Cardinality(Unseen(c))
                               /\ Cardinality(Unseen(c)) \in Nat
<1>1. \A c \in Command : late[c] \in Nat /\ Cardinality(Unseen(c)) \in Nat
  BY UnseenIsFinite, FS_CardinalityType DEF Types
<1>2. \A c \in Command : late[c] + Cardinality(Unseen(c)) \in Nat
  BY <1>1
<1>3. QED
  BY <1>1, <1>2 DEF Outstanding, Types

LEMMA OutstandingIsTyped == Types => Outstanding \in [Command -> Nat]
  BY OutstandingIs

\* A step that executes nothing and sends no command forgets some, or none.
LEMMA ForgetStep ==
  ASSUME Types, Types', actual' = actual, budget' \in Nat, budget' <= budget,
         \A c \in Command : late'[c] + Cardinality(Unseen(c)') <= late[c] + Cardinality(Unseen(c))
  PROVE  C!Forget
<1>1. Outstanding' \in [Command -> Nat]
  <2>1. (Types => Outstanding \in [Command -> Nat])'
    BY OutstandingIsTyped, PTL
  <2>2. QED
    BY <2>1
<1>2. \A c \in Command : Outstanding'[c] <= Outstanding[c]
  BY DEF Outstanding
<1>3. QED
  BY <1>1, <1>2 DEF C!Forget, C!Command, Command

LEMMA CommandsKept ==
  ASSUME Types, Types', Fewer, actual' = actual, late' = late,
         (\E kind \in Kinds : Spend(kind)) \/ UNCHANGED budget
  PROVE  C!Forget
<1>1. budget' \in Nat /\ budget' <= budget
  BY SpendIsLess, IntServerAssumption DEF Types
<1>2. ASSUME NEW c \in Command
      PROVE  late'[c] + Cardinality(Unseen(c)') <= late[c] + Cardinality(Unseen(c))
  <2>1. /\ IsFiniteSet(Unseen(c)) /\ Cardinality(Unseen(c)) \in Nat
        /\ Unseen(c)' \subseteq Unseen(c) /\ late[c] \in Nat
    BY FewerUnseen, UnseenIsFinite, OutstandingIs
  <2>2. Cardinality(Unseen(c)') \in Nat /\ Cardinality(Unseen(c)') <= Cardinality(Unseen(c))
    BY <2>1, FS_Subset, FS_CardinalityType
  <2>3. QED
    BY <2>1, <2>2
<1>3. QED
  BY <1>1, <1>2, ForgetStep

\* What is given up in flight may still be executed: nothing is gained.
LEMMA CommandsGivenUp ==
  ASSUME Types, Types', Fewer, actual' = actual, NEW R, late' = GivenUp(R),
         \A j \in Job : Set(j) \in R => stage'[Set(j)] # "connecting",
         Cli \in R => stage'[Cli] # "connecting",
         (\E kind \in Kinds : Spend(kind)) \/ UNCHANGED budget
  PROVE  C!Forget
<1>1. budget' \in Nat /\ budget' <= budget
  BY SpendIsLess, IntServerAssumption DEF Types
<1>2. ASSUME NEW c \in Command
      PROVE  late'[c] + Cardinality(Unseen(c)') <= late[c] + Cardinality(Unseen(c))
  <2>1. IsFiniteSet(Unseen(c)) /\ Cardinality(Unseen(c)) \in Nat /\ late[c] \in Nat
    BY UnseenIsFinite, OutstandingIs
  <2>2. Unseen(c)' \subseteq Unseen(c) \ R
    <3>1. Unseen(c)' \subseteq Unseen(c)
      BY FewerUnseen
    <3>2. \A r \in Carriers(c)' : r \notin R
      BY DEF Carriers
    <3>3. QED
      BY <3>1, <3>2, UnseenWillBe
  <2>3. /\ IsFiniteSet(Unseen(c) \ R) /\ Cardinality(Unseen(c) \ R) \in Nat
        /\ Cardinality(Unseen(c) \cap R) \in Nat
        /\ Cardinality(Unseen(c) \ R) = Cardinality(Unseen(c)) - Cardinality(Unseen(c) \cap R)
    BY <2>1, FS_Difference, FS_Intersection, FS_CardinalityType
  <2>4. /\ Cardinality(Unseen(c)') \in Nat
        /\ Cardinality(Unseen(c)') <= Cardinality(Unseen(c) \ R)
    BY <2>2, <2>3, FS_Subset, FS_CardinalityType
  <2>5. late'[c] = late[c] + Cardinality(Unseen(c) \cap R)
    BY DEF GivenUp
  <2>6. QED
    BY <2>1, <2>3, <2>4, <2>5
<1>3. QED
  BY <1>1, <1>2, ForgetStep

\* One request more for the command c.
LEMMA OneMore ==
  ASSUME Types, Types', NEW c \in Command, NEW r, actual' = actual, late' = late,
         \E kind \in Kinds : Spend(kind), r \notin Unseen(c), Unseen(c)' = Unseen(c) \cup {r},
         \A d \in Command \ {c} : Unseen(d)' = Unseen(d)
  PROVE  C!Send(c)
<1>1. budget' < budget
  BY SpendIsLess
<1>2. Cardinality(Unseen(c)') = Cardinality(Unseen(c)) + 1
  BY UnseenIsFinite, FS_AddElement
<1>3. Outstanding' = [d \in Command |-> late[d] + Cardinality(Unseen(d)')]
  BY DEF Outstanding
<1>4. Outstanding'[c] = Outstanding[c] + 1
  <2>1. /\ Outstanding[c] = late[c] + Cardinality(Unseen(c))
        /\ late[c] \in Nat /\ Cardinality(Unseen(c)) \in Nat
    BY OutstandingIs
  <2>2. Outstanding'[c] = late[c] + Cardinality(Unseen(c)')
    BY <1>3
  <2>3. QED
    BY <1>2, <2>1, <2>2
<1>5. \A d \in Command \ {c} : Outstanding'[d] = Outstanding[d]
  BY <1>3, OutstandingIs
<1>6. Outstanding' = [Outstanding EXCEPT ![c] = @ + 1]
  BY <1>3, <1>4, <1>5, OutstandingIs
<1>7. QED
  BY <1>1, <1>6 DEF C!Send

\* The command c is executed, and waited for once less.
LEMMA OneLess ==
  ASSUME Types, NEW c \in Command, actual' = Executed(c), budget' = budget,
         Outstanding[c] > 0, Outstanding' = [Outstanding EXCEPT ![c] = @ - 1]
  PROVE  C!Execute(c)
  BY DEF C!Execute, Executed
\* Events outside the requests.
LEMMA CommandsInEvents ==
  ASSUME World, World',
         \/ UNCHANGED vars
         \/ \E m \in Mac : Notify(m)
         \/ \E o \in Obj : Expire(o)
         \/ FeConnect
         \/ PulseArrives
  PROVE  C!Forget
<1>1. Types /\ Types' /\ H!TypeOK /\ Runs
  BY DEF World
<1>2. actual' = actual /\ late' = late /\ ((\E kind \in Kinds : Spend(kind)) \/ UNCHANGED budget)
  BY DEF vars, Notify, Expire, FeConnect, PulseArrives, Kinds
<1>3. Fewer
  <2>1. CASE UNCHANGED vars \/ FeConnect \/ \E o \in Obj : Expire(o)
    BY <2>1, SameIsFewer DEF vars, FeConnect, Expire
  <2>2. ASSUME NEW m \in Mac, Notify(m) PROVE Fewer
    <3>1. UNCHANGED <<http, shell>>
      BY <2>2 DEF Notify
    <3>2. ASSUME NEW j \in Job PROVE job'[j].cmd = job[j].cmd
      <4>1. job \in [Job -> Slot] /\ job[j] \in Slot /\ job[j].devs \in Lists
        BY <1>1, SlotIsTyped DEF Types
      <4>2. job'[j] = job[j] \/ \E g : job'[j] = [job[j] EXCEPT !.devs = [@ EXCEPT ![m] = g]]
        BY <2>2, <4>1 DEF Notify
      <4>3. QED
        BY <4>1, <4>2 DEF Slot
    <3>3. QED
      BY <3>1, <3>2 DEF Fewer, http
  <2>3. CASE PulseArrives
    <3>1. PICK slot \in [Accepting -> Free] :
            /\ job' = Started(slot)
            /\ IF Queries(slot) = {} THEN UNCHANGED http ELSE H!Call(Queries(slot))
      BY <2>3 DEF PulseArrives
    <3>2. shell' = shell
      BY <2>3 DEF PulseArrives
    <3>3. Queries(slot) \subseteq Req /\ \A q \in Queries(slot) : IsQuery(q)
      BY QueriesAreReq, KindsDiffer DEF Queries, Free
    <3>4. \A r \in Req : ~IsQuery(r) => stage'[r] = stage[r]
      BY <1>1, <3>1, <3>3, CallSends DEF http
    <3>5. stage'[Cli] = stage[Cli] /\ \A j \in Job : stage'[Set(j)] = stage[Set(j)]
      BY <3>4, QueriesAreReq, KindsDiffer, IntServerAssumption DEF IsQuery, Cli
    <3>6. ASSUME NEW j \in Job, stage[Set(j)] = "connecting" PROVE job'[j] = job[j]
      <4>1. job[j].kind = "ctrl"
        BY <1>1, <3>6 DEF Runs, Commanded
      <4>2. \A o \in Accepting : slot[o] # j
        BY <4>1 DEF Free
      <4>3. QED
        BY <3>1, <4>2 DEF Started
    <3>7. QED
      BY <3>2, <3>5, <3>6 DEF Fewer
  <2>4. QED
    BY <2>1, <2>2, <2>3
<1>4. QED
  BY <1>1, <1>2, <1>3, CommandsKept

\* A viewer or the shell asks for a command: one request more carries it.
LEMMA CommandsSent ==
  ASSUME World, World', NEW c \in Command,
         Select(c) \/ \E o \in Owner : CtrlDev(o, c)
  PROVE  C!Send(c)
<1>1. Types /\ Types' /\ H!TypeOK /\ Runs
  BY DEF World
<1>2. actual' = actual /\ late' = late /\ \E kind \in Kinds : Spend(kind)
  BY DEF Select, CtrlDev, Kinds
<1>3. ASSUME NEW r, r \notin Unseen(c), Unseen(c)' = Unseen(c) \cup {r},
             \A d \in Command \ {c} : Unseen(d)' = Unseen(d)
      PROVE  C!Send(c)
  BY <1>1, <1>2, <1>3, OneMore
<1>4. CASE Select(c)
  <2>1. shell' = c /\ H!Call({Cli}) /\ job' = job
    BY <1>4 DEF Select
  <2>2. {Cli} \in SUBSET Req
    BY QueriesAreReq
  <2>3. /\ stage[Cli] = "idle" /\ stage'[Cli] = "connecting"
        /\ \A j \in Job : stage'[Set(j)] = stage[Set(j)]
    BY <1>1, <2>1, <2>2, CallSends, KindsDiffer, QueriesAreReq
  <2>4. Cli \notin Carriers(c) /\ Carriers(c)' = Carriers(c) \cup {Cli}
    BY <2>1, <2>3, KindsDiffer DEF Carriers
  <2>5. \A d \in Command \ {c} : Carriers(d)' = Carriers(d)
    BY <2>1, <2>3 DEF Carriers
  <2>6. QED
    BY <1>3, <2>4, <2>5, UnseenIs, UnseenWillBe
<1>5. ASSUME NEW o \in Owner, CtrlDev(o, c) PROVE C!Send(c)
  <2> DEFINE run == [kind |-> "ctrl", owner |-> o, cmd |-> c,
                     devs |-> [NoDevs EXCEPT ![c[1]] = 0]]
  <2>1. PICK j \in Free : job' = [job EXCEPT ![j] = run] /\ H!Call({Set(j)})
    BY <1>5 DEF CtrlDev
  <2>2. shell' = shell
    BY <1>5 DEF CtrlDev
  <2>3. j \in Job /\ {Set(j)} \in SUBSET Req
    BY QueriesAreReq DEF Free
  <2>4. /\ stage[Set(j)] = "idle" /\ stage'[Set(j)] = "connecting" /\ stage'[Cli] = stage[Cli]
        /\ \A k \in Job \ {j} : stage'[Set(k)] = stage[Set(k)]
    BY <1>1, <2>1, <2>3, CallSends, KindsDiffer, QueriesAreReq
  <2>5. job'[j].cmd = c /\ \A k \in Job \ {j} : job'[k] = job[k]
    BY <1>1, <2>1, <2>3 DEF Types
  <2>6. Set(j) \notin Carriers(c) /\ Carriers(c)' = Carriers(c) \cup {Set(j)}
    BY <2>2, <2>3, <2>4, <2>5, KindsDiffer DEF Carriers
  <2>7. \A d \in Command \ {c} : Carriers(d)' = Carriers(d)
    BY <2>2, <2>3, <2>4, <2>5, KindsDiffer DEF Carriers
  <2>8. QED
    BY <1>3, <2>6, <2>7, UnseenIs, UnseenWillBe
<1>6. QED
  BY <1>4, <1>5
\* The device, or what comes in its place, answers a request for a command or
\* for its pins.
LEMMA CommandsAnswered ==
  ASSUME World, World', NEW r \in Req, Answer(r)
  PROVE  C!Forget \/ \E c \in Command : C!Execute(c)
<1>1. Types /\ Types' /\ H!TypeOK /\ Runs
  BY DEF World
<1>2. /\ stage[r] = "connecting" /\ stage'[r] = "streaming"
      /\ \A q \in Req \ {r} : stage'[q] = stage[q]
      /\ late' = late /\ job' = job /\ shell' = shell /\ budget' = budget
  BY <1>1 DEF Answer, H!Headers, H!Move, H!TypeOK, Req
<1>3. \A c : Unseen(c)' = Unseen(c) \ {r}
  <2>1. \A q \in Req : Cmd(q)' = Cmd(q)
    BY <1>2 DEF Cmd
  <2>2. QED
    BY <1>2, <2>1 DEF Unseen
<1>4. CASE IsQuery(r)
  <2>1. actual' = actual
    BY <1>4 DEF Answer
  <2>2. Fewer
    <3>1. \A j \in Job : stage'[Set(j)] = stage[Set(j)]
      BY <1>2, <1>4, QueriesAreReq, KindsDiffer
    <3>2. stage'[Cli] = stage[Cli]
      BY <1>2, <1>4, QueriesAreReq, IntServerAssumption DEF IsQuery, Cli
    <3>3. QED
      BY <1>2, <3>1, <3>2 DEF Fewer
  <2>3. QED
    BY <1>1, <1>2, <2>1, <2>2, CommandsKept
<1>5. CASE ~IsQuery(r)
  <2>1. PICK c \in Command : c = Cmd(r)
    BY <1>1, <1>2, <1>5, CmdIsTyped
  <2>2. actual' = Executed(c)
    BY <1>5, <2>1 DEF Answer
  <2>3. r \in Unseen(c) /\ \A d : d # c => r \notin Unseen(d)
    BY <1>2, <1>5, <2>1 DEF Unseen
  <2>4. Outstanding' = [d \in Command |-> late[d] + Cardinality(Unseen(d) \ {r})]
    BY <1>2, <1>3 DEF Outstanding
  <2>5. /\ Cardinality(Unseen(c) \ {r}) = Cardinality(Unseen(c)) - 1
        /\ Cardinality(Unseen(c) \ {r}) \in Nat
    BY <2>3, UnseenIsFinite, FS_RemoveElement, FS_CardinalityType
  <2>6. Outstanding'[c] = Outstanding[c] - 1 /\ Outstanding[c] > 0
    <3>1. /\ Outstanding[c] = late[c] + Cardinality(Unseen(c))
          /\ late[c] \in Nat /\ Cardinality(Unseen(c)) \in Nat
      BY <1>1, OutstandingIs
    <3>2. Outstanding'[c] = late[c] + Cardinality(Unseen(c) \ {r})
      BY <2>4
    <3>3. QED
      BY <2>5, <3>1, <3>2
  <2>7. \A d \in Command \ {c} : Outstanding'[d] = Outstanding[d]
    <3>1. \A d \in Command \ {c} : Unseen(d) \ {r} = Unseen(d)
      BY <2>3
    <3>2. QED
      BY <1>1, <2>4, <3>1, OutstandingIs
  <2>8. Outstanding' = [Outstanding EXCEPT ![c] = @ - 1]
    BY <1>1, <2>4, <2>6, <2>7, OutstandingIs
  <2>9. QED
    BY <1>1, <1>2, <2>2, <2>6, <2>8, OneLess
<1>6. QED
  BY <1>4, <1>5

\* A command given up is executed late, or never.
LEMMA CommandsLate ==
  ASSUME World, World', NEW c \in Command, LateCommand(c)
  PROVE  C!Forget \/ C!Execute(c)
<1>1. Types /\ Types'
  BY DEF World
<1>2. /\ late[c] > 0 /\ late' = [late EXCEPT ![c] = @ - 1] /\ actual' \in {actual, Executed(c)}
      /\ UNCHANGED <<http, job, shell, budget>>
  BY DEF LateCommand
<1>3. \A d \in Command : Unseen(d)' = Unseen(d)
  BY <1>2 DEF Unseen, Cmd, http
<1>4. \A d \in Command : /\ late[d] \in Nat /\ Cardinality(Unseen(d)) \in Nat
                         /\ Outstanding[d] = late[d] + Cardinality(Unseen(d))
                         /\ Outstanding'[d] = late'[d] + Cardinality(Unseen(d))
                         /\ late'[d] = IF d = c THEN late[d] - 1 ELSE late[d]
  BY <1>1, <1>2, <1>3, OutstandingIs DEF Outstanding
<1>5. CASE actual' = actual
  <2>1. budget' \in Nat /\ budget' <= budget
    BY <1>1, <1>2, SpendIsLess
  <2>2. \A d \in Command : late'[d] + Cardinality(Unseen(d)') <= late[d] + Cardinality(Unseen(d))
    BY <1>3, <1>4
  <2>3. QED
    BY <1>1, <1>5, <2>1, <2>2, ForgetStep
<1>6. CASE actual' = Executed(c)
  <2>1. Outstanding[c] > 0 /\ Outstanding'[c] = Outstanding[c] - 1
    BY <1>2, <1>4
  <2>2. \A d \in Command \ {c} : Outstanding'[d] = Outstanding[d]
    BY <1>4
  <2>3. Outstanding' = [Outstanding EXCEPT ![c] = @ - 1]
    BY <2>1, <2>2 DEF Outstanding
  <2>4. QED
    BY <1>1, <1>2, <1>6, <2>1, <2>3, OneLess
<1>7. QED
  BY <1>2, <1>5, <1>6

\* Other answers, failures and timeouts.
LEMMA CommandsLost ==
  ASSUME World, World', NEW r \in Req,
         \/ AnswerJunk(r) \/ BodyEnds(r)
         \/ ConnectionFails(r) \/ TimerFires(r) \/ SocketCloses(r)
  PROVE  C!Forget
<1>1. Types /\ Types' /\ H!TypeOK
  BY DEF World
<1>2. /\ UNCHANGED <<actual, job, shell>> /\ late' \in {late, GivenUp({r})}
      /\ (\E kind \in Kinds : Spend(kind)) \/ UNCHANGED budget
  BY DEF AnswerJunk, BodyEnds, ConnectionFails, TimerFires, SocketCloses, Kinds
<1>3. stage'[r] # "connecting" /\ \A q \in Req \ {r} : stage'[q] = stage[q]
  <2>1. \E to \in {"streaming", "done", "refused", "broken", "dying"} :
           stage' = [stage EXCEPT ![r] = to]
    BY DEF AnswerJunk, BodyEnds, ConnectionFails, TimerFires, SocketCloses, H!Headers, H!End,
           H!Refuse, H!Break, H!ResError, H!Timer, H!Move
  <2>2. QED
    BY <1>1, <2>1 DEF H!TypeOK, Req
<1>4. Fewer
  BY <1>2, <1>3, QueriesAreReq DEF Fewer
<1>5. CASE late' = late
  BY <1>1, <1>2, <1>4, <1>5, CommandsKept
<1>6. CASE late' = GivenUp({r})
  <2>1. /\ \A j \in Job : Set(j) \in {r} => stage'[Set(j)] # "connecting"
        /\ Cli \in {r} => stage'[Cli] # "connecting"
    BY <1>3
  <2>2. QED
    BY <1>1, <1>2, <1>4, <1>6, <2>1, CommandsGivenUp
<1>7. QED
  BY <1>2, <1>5, <1>6

\* The ends of requests and runs send no command.
LEMMA CommandsInRuns ==
  ASSUME World, World',
         \/ ShellResumes
         \/ \E j \in Job : \/ \E m \in Mac : QueryResumes(j, m)
                           \/ SetSucceeds(j) \/ SetFails(j) \/ Finish(j)
  PROVE  C!Forget
<1>1. Types /\ Types' /\ H!TypeOK /\ Runs
  BY DEF World
<1>2. UNCHANGED <<actual, late, budget>>
  BY DEF ShellResumes, QueryResumes, SetSucceeds, SetFails, Finish
<1>3. ASSUME NEW r \in Req, NEW S \in SUBSET Req, H!Resume(r, S), \A q \in S : IsQuery(q)
      PROVE  \A q \in Req : ~IsQuery(q) => stage'[q] = IF q = r THEN "idle" ELSE stage[q]
  <2>1. ~IsQuery(r) => r \notin S
    BY <1>3
  <2>2. QED
    BY <1>1, <1>3, <2>1, ResumeEnds
<1>4. Fewer
  <2>1. CASE ShellResumes
    <3>1. /\ \A q \in Req : ~IsQuery(q) => stage'[q] = IF q = Cli THEN "idle" ELSE stage[q]
          /\ job' = job
      BY <1>3, <2>1, QueriesAreReq DEF ShellResumes
    <3>2. QED
      BY <3>1, QueriesAreReq, KindsDiffer, IntServerAssumption DEF Fewer, IsQuery, Cli
  <2>2. ASSUME NEW j \in Job, NEW m \in Mac, QueryResumes(j, m) PROVE Fewer
    <3>1. /\ \A q \in Req : ~IsQuery(q) => stage'[q] = stage[q]
          /\ job' = job /\ shell' = shell
      BY <1>3, <2>2, QueriesAreReq, KindsDiffer DEF QueryResumes
    <3>2. QED
      BY <3>1, QueriesAreReq, KindsDiffer, IntServerAssumption DEF Fewer, IsQuery, Cli
  <2>3. ASSUME NEW j \in Job, SetSucceeds(j) \/ SetFails(j) PROVE Fewer
    <3>1. /\ {Query(j, n) : n \in Asked(Stored)} \in SUBSET Req
          /\ \A q \in {Query(j, n) : n \in Asked(Stored)} : IsQuery(q)
      BY QueriesAreReq, KindsDiffer
    <3>2. PICK S \in SUBSET Req : H!Resume(Set(j), S) /\ \A q \in S : IsQuery(q)
      BY <2>3, <3>1 DEF SetSucceeds, SetFails
    <3>3. /\ stage'[Set(j)] = "idle" /\ stage'[Cli] = stage[Cli]
          /\ \A k \in Job \ {j} : stage'[Set(k)] = stage[Set(k)]
      BY <1>3, <3>2, QueriesAreReq, KindsDiffer
    <3>4. shell' = shell /\ \A k \in Job \ {j} : job'[k] = job[k]
      BY <1>1, <2>3 DEF SetSucceeds, SetFails, Types
    <3>5. QED
      BY <3>3, <3>4 DEF Fewer
  <2>4. ASSUME NEW j \in Job, Finish(j) PROVE Fewer
    <3>1. UNCHANGED <<http, shell>> /\ \A k \in Job \ {j} : job'[k] = job[k]
      BY <1>1, <2>4 DEF Finish, Types
    <3>2. stage[Set(j)] = "idle"
      BY <2>4 DEF Finish, Finishing, Set
    <3>3. QED
      BY <3>1, <3>2 DEF Fewer, http
  <2>5. QED
    BY <2>1, <2>2, <2>3, <2>4
<1>5. QED
  BY <1>1, <1>2, <1>4, CommandsKept

\* An abort by another command's failure, and a crash.
LEMMA CommandsAborted ==
  ASSUME World, World', RaiseUncaught \/ Restart PROVE C!Forget
<1>1. Types /\ Types' /\ H!TypeOK
  BY DEF World
<1>2. UNCHANGED <<actual, budget>>
  BY DEF RaiseUncaught, Restart
<1>3. CASE RaiseUncaught
  <2>1. job' = job /\ shell' = shell
    BY <1>3 DEF RaiseUncaught
  <2>2. \A r \in Req : stage'[r] = stage[r] \/ stage'[r] # "connecting"
    <3>1. \A r \in Req : stage'[r] = stage[r] \/ stage'[r] = H!Aborted(r)
      BY <1>3 DEF RaiseUncaught, H!Raise, Req
    <3>2. QED
      BY <3>1 DEF H!Aborted
  <2>3. Fewer
    BY <2>1, <2>2, QueriesAreReq DEF Fewer
  <2>4. CASE late' = late
    BY <1>1, <1>2, <2>3, <2>4, CommandsKept
  <2>5. CASE late' = GivenUp({r \in Req : stage'[r] # stage[r]})
    <3>1. PICK R : R = {r \in Req : stage'[r] # stage[r]}
      OBVIOUS
    <3>2. /\ \A j \in Job : Set(j) \in R => stage'[Set(j)] # "connecting"
          /\ Cli \in R => stage'[Cli] # "connecting"
      BY <2>2, <3>1
    <3>3. late' = GivenUp(R)
      BY <2>5, <3>1
    <3>4. QED
      BY <1>1, <1>2, <2>3, <3>2, <3>3, CommandsGivenUp
  <2>6. QED
    BY <1>3, <2>4, <2>5 DEF RaiseUncaught
<1>4. CASE Restart
  <2>1. late' = GivenUp(Req) /\ \A r \in Req : stage'[r] = "idle"
    BY <1>4 DEF Restart, H!Restart, Req
  <2>2. Fewer
    BY <2>1, QueriesAreReq DEF Fewer
  <2>3. /\ \A j \in Job : Set(j) \in Req => stage'[Set(j)] # "connecting"
        /\ Cli \in Req => stage'[Cli] # "connecting"
    BY <2>1
  <2>4. QED
    BY <1>1, <1>2, <2>1, <2>2, <2>3, CommandsGivenUp
<1>5. QED
  BY <1>3, <1>4

\* The server is a Commanding: whatever times out, is aborted, crashes and
\* restarts, a device is changed only by commands that were sent, each at most
\* once.
THEOREM CommandsOnce == Spec => CommandsRunOnce
<1>1. Init => C!Init
  <2> SUFFICES ASSUME Init PROVE C!Init
    OBVIOUS
  <2>1. \A c : Carriers(c) = {}
    BY QueriesAreReq DEF Init, H!Init, Carriers, Req
  <2>2. \A c : Cardinality(Unseen(c)) = 0
    BY <2>1, UnseenIs, FS_EmptySet
  <2>3. Outstanding = [c \in Command |-> 0]
    BY <2>2 DEF Outstanding, Init
  <2>4. QED
    BY <2>3, IntServerAssumption DEF Init, C!Init, C!Command, Command
<1>2. World /\ World' /\ [Next]_vars => [C!Next]_(C!vars)
  <2> SUFFICES ASSUME World, World', [Next]_vars
               PROVE  C!Forget \/ \E c \in Command : C!Send(c) \/ C!Execute(c)
    BY DEF C!Next, C!Command, Command
  <2>1. QED
    BY CommandsInEvents, CommandsSent, CommandsAnswered, CommandsLate, CommandsLost,
       CommandsInRuns, CommandsAborted, OrdersAreCommands
    DEF Next, Microtask
<1>3. Init => World /\ HttpInv
  BY WorldInit, HttpInit DEF Init
<1>4. World /\ HttpInv /\ [Next]_vars => (World /\ HttpInv)'
  BY WorldStep, HttpStep
<1>5. QED
  BY <1>1, <1>2, <1>3, <1>4, PTL DEF Spec, CommandsRunOnce, C!Spec
=============================================================================
