-------------------------- MODULE PulsePathProofs ---------------------------
(***************************************************************************)
(* The page's table of servers, for any number of servers and any of the   *)
(* intervals: a server that fell silent is off the page in time, and the   *)
(* two tables agree.  Then the switches of their devices (Switches), for   *)
(* any number of servers, devices and pins: each shows its own pin.        *)
(***************************************************************************)
EXTENDS PulsePath, Switches, TLAPS, FiniteSetTheorems, SequenceTheorems, WellFoundedInduction

LEMMA Intervals == /\ Period \in Nat \ {0} /\ DevTimeout \in Nat \ {0}
                   /\ Check \in Nat \ {0} /\ MaxSeen \in Nat \ {0} /\ Retry \in Nat \ {0}
                   /\ Lag \in Nat /\ Outages \in Nat
                   /\ None \notin Nat
  BY PulsePathAssumption

\* A timer that is not due counts down.
LEMMA LaterCounts ==
  ASSUME NEW n \in Nat, NEW timer \in 0 .. n \cup {None}, timer # 0
  PROVE  Later(timer) \in 0 .. n \cup {None}
  BY Intervals DEF Later

-----------------------------------------------------------------------------
(***************************************************************************)
(* The inductive invariant.  That a server shown was seen within MaxSeen + *)
(* Check says too little of the time between two checks: what a server's   *)
(* age may be depends on how long the next check is away.                  *)
(***************************************************************************)
DueInTime == \A s \in Server : seen[s] # None => seen[s] + check <= MaxSeen + Check

IInv == TypeOK /\ ShownIsTable /\ DueInTime

LEMMA TickStep == ASSUME IInv, Tick PROVE IInv'
<1> USE Intervals
<1>1. pulse' \in [Server -> 0 .. Period + Lag \cup {None}]
  <2>1. ASSUME NEW s \in Server PROVE pulse'[s] \in 0 .. Period + Lag \cup {None}
    <3>1. pulse[s] # 0 /\ pulse[s] \in 0 .. Period + Lag \cup {None}
      BY DEF IInv, TypeOK, Tick
    <3>2. pulse'[s] = Later(pulse[s]) /\ Period + Lag \in Nat
      BY DEF Tick
    <3>3. QED
      BY <3>1, <3>2, LaterCounts
  <2>2. pulse' = [s \in Server |-> pulse'[s]]
    BY DEF Tick
  <2>3. QED
    BY <2>1, <2>2
<1>2. run' \in [Server -> 0 .. DevTimeout \cup {None}]
  <2>1. ASSUME NEW s \in Server PROVE run'[s] \in 0 .. DevTimeout \cup {None}
    <3>1. run[s] # DevTimeout /\ run[s] \in 0 .. DevTimeout \cup {None}
      BY DEF IInv, TypeOK, Tick, TimedOut
    <3>2. run'[s] = IF run[s] = None THEN None ELSE run[s] + 1
      BY DEF Tick
    <3>3. QED
      BY <3>1, <3>2
  <2>2. run' = [s \in Server |-> run'[s]]
    BY DEF Tick
  <2>3. QED
    BY <2>1, <2>2
<1>3. retry' \in 0 .. Retry \cup {None}
  BY LaterCounts DEF IInv, TypeOK, Tick
<1>4. check' \in 0 .. Check /\ check' = check - 1 /\ check \in Nat
  BY DEF IInv, TypeOK, Tick
<1>5. ASSUME NEW s \in Server
      PROVE  /\ seen[s] = None => seen'[s] = None
             /\ seen[s] # None => /\ seen[s] \in Nat /\ seen[s] + check <= MaxSeen + Check
                                  /\ seen'[s] = seen[s] + 1
  <2>1. seen'[s] = IF seen[s] \in Ages /\ seen[s] + 1 \in Ages THEN seen[s] + 1 ELSE seen[s]
    BY DEF Tick
  <2>2. CASE seen[s] = None
    <3>1. seen[s] \notin Ages
      BY <2>2 DEF Ages
    <3>2. QED
      BY <2>1, <2>2, <3>1
  <2>3. CASE seen[s] # None
    <3>1. seen[s] \in Ages /\ seen[s] \in Nat
      BY <2>3 DEF IInv, TypeOK, Ages
    <3>2. seen[s] + check <= MaxSeen + Check /\ check >= 1
      BY <2>3, <1>4 DEF IInv, TypeOK, DueInTime, Tick
    <3>3. seen[s] + 1 \in Ages
      BY <1>4, <3>1, <3>2 DEF Ages
    <3>4. QED
      BY <2>1, <3>1, <3>2, <3>3
  <2>4. QED
    BY <2>2, <2>3
<1>6. DueInTime'
  BY <1>4, <1>5 DEF DueInTime
<1>7. seen' \in [Server -> Ages \cup {None}]
  <2>1. seen' = [s \in Server |-> seen'[s]]
    BY DEF Tick
  <2>2. \A s \in Server : seen'[s] \in Ages \cup {None}
    BY DEF Tick, IInv, TypeOK
  <2>3. QED
    BY <2>1, <2>2
<1>8. ShownIsTable'
  <2>1. \A s \in Server : seen'[s] # None <=> seen[s] # None
    BY <1>5
  <2>2. QED
    BY <2>1 DEF IInv, ShownIsTable, Tick
<1>9. TypeOK'
  BY <1>1, <1>2, <1>3, <1>4, <1>7 DEF IInv, TypeOK, Tick
<1>10. QED
  BY <1>6, <1>8, <1>9 DEF IInv

LEMMA ViewArrivesStep == ASSUME IInv, NEW s \in Server, ViewArrives(s) PROVE IInv'
<1> USE Intervals
<1>1. TypeOK'
  BY DEF IInv, TypeOK, ViewArrives, SeenSince, Ages
<1>2. CASE ws = "open"
  <2>1. seen' = [seen EXCEPT ![s] = 0] /\ shown' = shown \cup {s} /\ check' = check
    BY <1>2 DEF ViewArrives, SeenSince
  <2>2. \A r \in Server : seen'[r] = IF r = s THEN 0 ELSE seen[r]
    BY <2>1 DEF IInv, TypeOK
  <2>3. ShownIsTable'
    BY <2>1, <2>2 DEF IInv, ShownIsTable
  <2>4. DueInTime'
    BY <2>1, <2>2 DEF IInv, TypeOK, DueInTime
  <2>5. QED
    BY <1>1, <2>3, <2>4 DEF IInv
<1>3. CASE ws # "open"
  BY <1>1, <1>3 DEF ViewArrives, IInv, ShownIsTable, DueInTime
<1>4. QED
  BY <1>2, <1>3

LEMMA CheckOfflineStep == ASSUME IInv, CheckOffline PROVE IInv'
<1> USE Intervals
<1> DEFINE gone == {s \in Server : seen[s] \in Ages /\ seen[s] > MaxSeen}
<1>1. /\ seen' = [s \in Server |-> IF s \in gone THEN None ELSE seen[s]]
      /\ shown' = shown \ gone /\ check' = Check
  BY DEF CheckOffline, Hidden, Rearmed
<1>2. TypeOK'
  BY <1>1 DEF IInv, TypeOK, CheckOffline
<1>3. ShownIsTable'
  BY <1>1 DEF IInv, ShownIsTable
<1>4. ASSUME NEW s \in Server, seen'[s] # None PROVE seen'[s] + check' <= MaxSeen + Check
  <2>1. s \notin gone /\ seen'[s] = seen[s]
    BY <1>1, <1>4
  <2>2. seen[s] \in Ages
    BY <1>4, <2>1 DEF IInv, TypeOK
  <2>3. seen[s] <= MaxSeen
    BY <2>1, <2>2 DEF Ages
  <2>4. QED
    BY <1>1, <2>1, <2>2, <2>3 DEF Ages
<1>5. QED
  BY <1>2, <1>3, <1>4 DEF IInv, DueInTime

LEMMA InvStep == ASSUME IInv, [Next]_vars PROVE IInv'
<1> USE Intervals
<1>1. CASE Tick
  BY <1>1, TickStep
<1>2. CASE CheckOffline
  BY <1>2, CheckOfflineStep
<1>3. ASSUME NEW s \in Server, ViewArrives(s) PROVE IInv'
  BY <1>3, ViewArrivesStep
<1>4. ASSUME NEW s \in Server, SendPulse(s) \/ LoopDies(s) \/ OsRestarts(s) PROVE IInv'
  <2>1. UNCHANGED <<seen, shown, check, ws, retry, page>>
    BY <1>4 DEF SendPulse, LoopDies, OsRestarts
  <2>2. pulse' \in [Server -> 0 .. Period + Lag \cup {None}]
    BY <1>4 DEF SendPulse, LoopDies, OsRestarts, IInv, TypeOK
  <2>3. run' \in [Server -> 0 .. DevTimeout \cup {None}]
    BY <1>4 DEF SendPulse, LoopDies, OsRestarts, IInv, TypeOK
  <2>4. disturbed' \subseteq Server /\ outages' \in 0 .. Outages
    BY <1>4 DEF SendPulse, LoopDies, OsRestarts, Outage, IInv, TypeOK
  <2>5. QED
    BY <2>1, <2>2, <2>3, <2>4 DEF IInv, TypeOK, ShownIsTable, DueInTime
<1>5. CASE TryConnect \/ Opens \/ Closes \/ OpenFails \/ SocketBreaks
  <2>1. UNCHANGED <<seen, shown, check, pulse, run, page>>
    BY <1>5 DEF TryConnect, Opens, Closes, OpenFails, SocketBreaks
  <2>2. /\ ws' \in {"closed", "opening", "open", "closing"}
        /\ retry' \in 0 .. Retry \cup {None}
    BY <1>5 DEF TryConnect, Opens, Closes, OpenFails, SocketBreaks, Again, IInv, TypeOK
  <2>3. disturbed' \subseteq Server /\ outages' \in 0 .. Outages
    BY <1>5 DEF TryConnect, Opens, Closes, OpenFails, SocketBreaks, Outage, IInv, TypeOK
  <2>4. QED
    BY <2>1, <2>2, <2>3 DEF IInv, TypeOK, ShownIsTable, DueInTime
<1>6. CASE UNCHANGED vars
  BY <1>6 DEF vars, IInv, TypeOK, ShownIsTable, DueInTime
<1>7. QED
  BY <1>1, <1>2, <1>3, <1>4, <1>5, <1>6 DEF Next, Works

LEMMA InvInit == Init => IInv
<1> SUFFICES ASSUME Init PROVE IInv
  OBVIOUS
<1> USE Intervals
<1>1. TypeOK
  BY DEF Init, TypeOK
<1>2. ShownIsTable /\ DueInTime
  BY DEF Init, ShownIsTable, DueInTime
<1>3. QED
  BY <1>1, <1>2 DEF IInv

LEMMA Invariant == Spec => []IInv
<1>1. Init => IInv
  BY InvInit
<1>2. IInv /\ [Next]_vars => IInv'
  BY InvStep
<1>3. QED
  BY <1>1, <1>2, PTL DEF Spec

\* DetectsSilence: types, the two tables agree, and a silent server is off the page
\* after MaxSeen + Check at the latest.
THEOREM SilenceIsDetected == Spec => []DetectsSilence
<1>1. ASSUME IInv PROVE DetectsSilence
  <2>1. ASSUME NEW s \in shown PROVE seen[s] <= MaxSeen + Check
    <3>1. s \in Server /\ seen[s] # None
      BY <1>1, <2>1 DEF IInv, ShownIsTable
    <3>2. seen[s] \in Nat /\ check \in Nat
      BY <1>1, <3>1, Intervals DEF IInv, TypeOK, Ages
    <3>3. QED
      BY <1>1, <3>1, <3>2, Intervals DEF IInv, DueInTime
  <2>2. QED
    BY <1>1, <2>1 DEF IInv, DetectsSilence
<1>2. QED
  BY <1>1, Invariant, PTL

-----------------------------------------------------------------------------
(***************************************************************************)
(* No flicker.  A pulse of a server that lives reaches the page at most    *)
(* Period + Lag + DevTimeout after the one before, even if the handler     *)
(* drops every other one: how long ago a server was seen is bounded by     *)
(* where its next view is on its way.                                      *)
(***************************************************************************)
Patient == Period + Lag + DevTimeout <= MaxSeen

SteadyTable ==
  \A s \in Server \ disturbed :
    /\ ws = "open" /\ pulse[s] # None /\ seen[s] # None
    /\ run[s] = None => seen[s] + pulse[s] <= Period + Lag
    /\ run[s] # None => seen[s] <= Period + Lag + run[s]

\* The view of a server that nothing disturbed is never too old.
LEMMA SteadyAge ==
  ASSUME Patient, IInv, SteadyTable, NEW s \in Server \ disturbed PROVE seen[s] \in 0 .. MaxSeen
<1> USE Intervals
<1>1. seen[s] \in Nat
  BY DEF IInv, TypeOK, Ages, SteadyTable
<1>2. CASE run[s] = None
  <2>1. pulse[s] \in Nat /\ seen[s] + pulse[s] <= Period + Lag
    BY <1>2 DEF IInv, TypeOK, SteadyTable
  <2>2. QED
    BY <1>1, <2>1 DEF Patient
<1>3. CASE run[s] # None
  <2>1. run[s] \in 0 .. DevTimeout /\ seen[s] <= Period + Lag + run[s]
    BY <1>3 DEF IInv, TypeOK, SteadyTable
  <2>2. QED
    BY <1>1, <2>1 DEF Patient
<1>4. QED
  BY <1>2, <1>3

LEMMA SteadyStep == ASSUME Patient, IInv, SteadyTable, [Next]_vars PROVE SteadyTable'
<1> USE Intervals
<1>1. CASE Tick
  <2> SUFFICES ASSUME NEW s \in Server \ disturbed
               PROVE  /\ pulse'[s] # None /\ seen'[s] # None
                      /\ run'[s] = None => seen'[s] + pulse'[s] <= Period + Lag
                      /\ run'[s] # None => seen'[s] <= Period + Lag + run'[s]
    BY <1>1 DEF Tick, SteadyTable
  <2>1. seen[s] \in 0 .. MaxSeen
    BY SteadyAge
  <2>2. seen'[s] = seen[s] + 1
    BY <1>1, <2>1 DEF Tick, Ages
  <2>3. pulse[s] \in Nat \ {0} /\ pulse'[s] = pulse[s] - 1
    BY <1>1 DEF Tick, Later, SteadyTable, IInv, TypeOK
  <2>4. CASE run[s] = None
    <3>1. run'[s] = None
      BY <1>1, <2>4 DEF Tick
    <3>2. QED
      BY <2>1, <2>2, <2>3, <2>4, <3>1 DEF SteadyTable
  <2>5. CASE run[s] # None
    <3>1. run[s] \in Nat /\ run'[s] = run[s] + 1
      BY <1>1, <2>5 DEF Tick, IInv, TypeOK
    <3>2. QED
      BY <2>1, <2>2, <2>3, <2>5, <3>1 DEF SteadyTable
  <2>6. QED
    BY <2>4, <2>5
<1>2. ASSUME NEW s \in Server, SendPulse(s) PROVE SteadyTable'
  <2>1. PICK n \in Period .. Period + Lag : pulse' = [pulse EXCEPT ![s] = n]
    BY <1>2 DEF SendPulse
  <2>2. /\ pulse[s] = 0 /\ UNCHANGED <<ws, seen, disturbed>>
        /\ run' = IF run[s] = None THEN [run EXCEPT ![s] = 0] ELSE run
    BY <1>2 DEF SendPulse
  <2>3. ASSUME NEW r \in Server \ disturbed, r # s
        PROVE  pulse'[r] = pulse[r] /\ run'[r] = run[r]
    BY <2>1, <2>2, <2>3 DEF IInv, TypeOK
  <2>4. ASSUME s \notin disturbed
        PROVE  pulse'[s] = n /\ run'[s] # None /\ seen[s] <= Period + Lag + run'[s]
    <3>1. seen[s] \in Nat /\ pulse'[s] = n
      BY <2>1, <2>4 DEF SteadyTable, IInv, TypeOK, Ages
    <3>2. CASE run[s] = None
      <4>1. run'[s] = 0 /\ seen[s] + 0 <= Period + Lag
        BY <2>2, <2>4, <3>2 DEF SteadyTable, IInv, TypeOK
      <4>2. QED
        BY <3>1, <4>1
    <3>3. CASE run[s] # None
      BY <2>2, <2>4, <3>1, <3>3 DEF SteadyTable
    <3>4. QED
      BY <3>2, <3>3
  <2>5. QED
    BY <2>2, <2>3, <2>4 DEF SteadyTable
<1>3. ASSUME NEW s \in Server, ViewArrives(s) PROVE SteadyTable'
  <2>1. CASE ws = "open"
    <3>1. /\ run' = [run EXCEPT ![s] = None] /\ seen' = [seen EXCEPT ![s] = 0]
          /\ disturbed' = IF pulse[s] = None THEN disturbed ELSE disturbed \ {s}
          /\ UNCHANGED <<pulse, ws>>
      BY <1>3, <2>1 DEF ViewArrives, SeenSince
    <3>2. ASSUME NEW r \in Server \ disturbed', r # s
          PROVE  r \notin disturbed /\ run'[r] = run[r] /\ seen'[r] = seen[r]
      BY <3>1, <3>2 DEF IInv, TypeOK
    <3>3. ASSUME s \notin disturbed'
          PROVE  /\ pulse[s] # None /\ seen'[s] = 0 /\ run'[s] = None
                 /\ pulse[s] <= Period + Lag
      BY <3>1, <3>3 DEF IInv, TypeOK, SteadyTable
    <3>4. QED
      BY <2>1, <3>1, <3>2, <3>3 DEF SteadyTable, IInv, TypeOK
  <2>2. CASE ws # "open"
    <3>1. disturbed' = disturbed /\ Server \ disturbed = {}
      BY <1>3, <2>2 DEF ViewArrives, SteadyTable
    <3>2. QED
      BY <3>1 DEF SteadyTable
  <2>3. QED
    BY <2>1, <2>2
<1>4. CASE CheckOffline
  <2>1. ASSUME NEW s \in Server \ disturbed PROVE seen'[s] = seen[s]
    <3>1. seen[s] \in 0 .. MaxSeen
      BY SteadyAge
    <3>2. ~(seen[s] > MaxSeen)
      BY <3>1
    <3>3. QED
      BY <1>4, <3>2 DEF CheckOffline
  <2>2. UNCHANGED <<pulse, run, ws, disturbed>>
    BY <1>4 DEF CheckOffline
  <2>3. QED
    BY <2>1, <2>2 DEF SteadyTable
<1>5. CASE TryConnect \/ Opens \/ Closes \/ OpenFails
  <2>1. /\ UNCHANGED <<pulse, run, seen, disturbed>>
        /\ ws = "open" => ws' = "open"
    BY <1>5 DEF TryConnect, Opens, Closes, OpenFails
  <2>2. QED
    BY <2>1 DEF SteadyTable
<1>6. CASE SocketBreaks
  BY <1>6 DEF SocketBreaks, SteadyTable
<1>7. ASSUME NEW s \in Server, LoopDies(s) \/ OsRestarts(s) PROVE SteadyTable'
  <2>1. /\ disturbed' = disturbed \cup {s} /\ UNCHANGED <<run, ws, seen>>
        /\ \A r \in Server \ {s} : pulse'[r] = pulse[r]
    BY <1>7 DEF LoopDies, OsRestarts, IInv, TypeOK
  <2>2. QED
    BY <2>1 DEF SteadyTable
<1>8. CASE UNCHANGED vars
  BY <1>8 DEF vars, SteadyTable
<1>9. QED
  BY <1>1, <1>2, <1>3, <1>4, <1>5, <1>6, <1>7, <1>8 DEF Next, Works

\* NoFlicker: as long as the page's patience covers the interval of the pulses, the
\* lag of the script and the timeout of a device, a server leaves the page only
\* after an outage.
THEOREM NoneFlickers == ASSUME Patient PROVE Spec => NoFlicker
<1>1. Init => SteadyTable
  BY DEF Init, SteadyTable
<1>2. IInv /\ SteadyTable /\ [Next]_vars => SteadyTable'
  BY SteadyStep
<1>3. ASSUME IInv, SteadyTable, [Next]_vars PROVE \A s \in shown \ shown' : s \in disturbed
  <2>1. CASE CheckOffline
    <3> SUFFICES ASSUME NEW s \in shown \ shown', s \notin disturbed PROVE FALSE
      OBVIOUS
    <3>1. s \in Server
      BY <1>3 DEF IInv, TypeOK
    <3>2. seen[s] \in 0 .. MaxSeen
      BY <1>3, <3>1, SteadyAge
    <3>3. ~(seen[s] > MaxSeen)
      BY <3>2, Intervals
    <3>4. QED
      BY <2>1, <3>3 DEF CheckOffline, Hidden
  <2>2. CASE ~CheckOffline
    <3>1. shown \subseteq shown'
      BY <1>3, <2>2 DEF Next, Works, vars, Tick, TryConnect, Opens, Closes, SendPulse,
           ViewArrives, OpenFails, SocketBreaks, LoopDies, OsRestarts
    <3>2. QED
      BY <3>1
  <2>3. QED
    BY <2>1, <2>2
<1>4. IInv /\ SteadyTable /\ [Next]_vars => [\A s \in shown \ shown' : s \in disturbed]_vars
  BY <1>3
<1>5. QED
  BY <1>1, <1>2, <1>4, Invariant, PTL DEF Spec, NoFlicker

-----------------------------------------------------------------------------
(***************************************************************************)
(* Induction over the places of a sequence, with sets as predicates and    *)
(* functions as steps.                                                     *)
(***************************************************************************)
\* A set of numbers has a least one.
LEMMA LeastIn == ASSUME NEW S \in SUBSET Nat, S # {} PROVE \E m \in S : \A k \in S : m <= k
<1>1. PICK m \in S : \A k \in S : ~(<<k, m>> \in OpToRel(<, Nat))
  <2>1. IsWellFoundedOn(OpToRel(<, Nat), Nat)
    BY NatLessThanWellFounded
  <2>2. QED
    BY <2>1, WFMin
<1>2. \A k \in S : ~(k < m)
  BY <1>1 DEF OpToRel
<1>3. QED
  BY <1>2

\* A set that has 0 and, with each number below n, the next has all up to n.
LEMMA Reaches ==
  ASSUME NEW n \in Nat, NEW P, 0 \in P, \A i \in 1 .. n : i - 1 \in P => i \in P
  PROVE  0 .. n \subseteq P
<1> SUFFICES ASSUME ~(0 .. n \subseteq P) PROVE FALSE
  OBVIOUS
<1> DEFINE Bad == {i \in 0 .. n : i \notin P}
<1>1. Bad # {} /\ Bad \in SUBSET Nat
  OBVIOUS
<1>2. PICK m \in Bad : \A k \in Bad : m <= k
  BY <1>1, LeastIn
<1>3. m \in 1 .. n /\ m - 1 \in 0 .. n /\ m - 1 \notin Bad
  BY <1>2
<1>4. QED
  BY <1>2, <1>3

\* A function that begins with b and goes on as g says, place by place, exists.
Follows(f, g, b, n) == f[0] = b /\ \A i \in 1 .. n : f[i] = g[<<i, f[i - 1]>>]

LEMMA Iterated ==
  ASSUME NEW S, NEW b \in S, NEW n \in Nat, NEW g \in [(1 .. n) \X S -> S]
  PROVE  \E f \in [0 .. n -> S] : Follows(f, g, b, n)
<1> DEFINE Begun(f, m) == f[0] = b /\ \A i \in 1 .. m : f[i] = g[<<i, f[i - 1]>>]
           P == {m \in 0 .. n : \E f \in [0 .. m -> S] : Begun(f, m)}
<1>1. 0 \in P
  <2> DEFINE h == [i \in 0 .. 0 |-> b]
  <2>1. h \in [0 .. 0 -> S] /\ Begun(h, 0)
    OBVIOUS
  <2> HIDE DEF h, Begun
  <2>2. QED
    BY <2>1
<1>2. ASSUME NEW m \in 1 .. n, m - 1 \in P PROVE m \in P
  <2>1. PICK f \in [0 .. m - 1 -> S] : Begun(f, m - 1)
    BY <1>2
  <2> DEFINE h == [i \in 0 .. m |-> IF i = m THEN g[<<m, f[m - 1]>>] ELSE f[i]]
  <2>2. h \in [0 .. m -> S] /\ h[0] = b
    <3>1. g[<<m, f[m - 1]>>] \in S
      BY <2>1
    <3>2. ASSUME NEW i \in 0 .. m PROVE h[i] \in S
      BY <2>1, <3>1
    <3>3. QED
      BY <2>1, <3>2
  <2>3. ASSUME NEW i \in 1 .. m PROVE h[i] = g[<<i, h[i - 1]>>]
    <3>1. h[i - 1] = f[i - 1]
      OBVIOUS
    <3>2. CASE i = m
      <4>1. m \in 0 .. m /\ h[m] = g[<<m, f[m - 1]>>]
        OBVIOUS
      <4> HIDE DEF h
      <4>2. QED
        BY <3>1, <3>2, <4>1
    <3>3. CASE i # m
      <4>1. i \in 1 .. m - 1 /\ h[i] = f[i]
        BY <3>3
      <4>2. QED
        BY <2>1, <3>1, <4>1
    <3>4. QED
      BY <3>2, <3>3
  <2>4. Begun(h, m)
    BY <2>2, <2>3
  <2> HIDE DEF h, Begun
  <2>5. QED
    BY <2>2, <2>4
<1>3. n \in P
  <2> HIDE DEF P
  <2>1. 0 .. n \subseteq P
    BY <1>1, <1>2, Reaches
  <2>2. QED
    BY <2>1
<1>4. QED
  BY <1>3 DEF Follows

-----------------------------------------------------------------------------
(***************************************************************************)
(* A switch settles: after two calls of Pin nothing is left to set         *)
(***************************************************************************)
Shown == [mac : Mac, pin : Pin, on : BOOLEAN, off : BOOLEAN]
State == [checked : BOOLEAN, disabled : BOOLEAN]

LEMMA PassIs ==
  ASSUME NEW p \in Shown, NEW s \in State
  PROVE  /\ Pass(p, s) \in State /\ Pass(p, s).checked = p.on
         /\ s.checked = p.on => Pass(p, s).disabled = p.off
<1>1. p.on \in BOOLEAN /\ p.off \in BOOLEAN /\ s.checked \in BOOLEAN /\ s.disabled \in BOOLEAN
  BY DEF Shown, State
<1>2. /\ Pass(p, s).checked = p.on
      /\ Pass(p, s).disabled = (p.off /\ (s.disabled => p.on = s.checked))
  BY DEF Pass
<1>3. (p.off /\ (s.disabled => p.on = s.checked)) \in BOOLEAN
  BY Zenon
<1>4. Pass(p, s) \in State
  BY <1>1, <1>3 DEF Pass, State
<1>5. QED
  BY <1>1, <1>2, <1>4

LEMMA SettledIs ==
  ASSUME NEW p \in Shown, NEW s \in State
  PROVE  Settled(p, s) \in State /\ Steady(p, Settled(p, s))
<1> DEFINE n == Limit
           again(t) == IF Steady(p, t) THEN t ELSE Pass(p, t)
           step(f) == [k \in 0 .. n |-> IF k = 0 THEN s ELSE again(f[k - 1])]
           g == [x \in (1 .. n) \X State |-> again(x[2])]
           call == CHOOSE f : f = step(f)
<1>1. n \in Nat /\ n >= 2
  BY DEF Limit
<1>2. ASSUME NEW t \in State
      PROVE  /\ again(t) \in State /\ again(t).checked = p.on
             /\ t.checked = p.on => Steady(p, again(t))
  BY PassIs DEF Steady
<1> HIDE DEF again
<1>3. g \in [(1 .. n) \X State -> State]
  <2> HIDE DEF n
  <2>1. QED
    BY <1>2
<1>4. PICK f0 \in [0 .. n -> State] : Follows(f0, g, s, n)
  <2> HIDE DEF n, g, step, call
  <2>1. QED
    BY <1>1, <1>3, Iterated
<1> HIDE DEF n
<1>5. f0 = step(f0)
  <2>1. ASSUME NEW k \in 0 .. n PROVE f0[k] = IF k = 0 THEN s ELSE again(f0[k - 1])
    <3>1. CASE k # 0
      <4>1. k \in 1 .. n /\ f0[k - 1] \in State
        BY <1>1, <1>4, <3>1
      <4>2. g[<<k, f0[k - 1]>>] = again(f0[k - 1])
        BY <4>1
      <4>3. QED
        BY <1>4, <3>1, <4>1, <4>2 DEF Follows
    <3>2. QED
      BY <1>4, <3>1 DEF Follows
  <2>2. QED
    BY <1>4, <2>1
<1>6. call = step(call)
  <2> HIDE DEF step
  <2>1. QED
    BY <1>5
<1>7. call[n] \in State /\ Steady(p, call[n])
  <2> DEFINE P == {k \in 0 .. n : /\ call[k] \in State
                                  /\ k >= 1 => call[k].checked = p.on
                                  /\ k >= 2 => Steady(p, call[k])}
  <2> HIDE DEF call
  <2>1. 0 \in P
    BY <1>1, <1>6
  <2>2. ASSUME NEW k \in 1 .. n, k - 1 \in P PROVE k \in P
    <3>1. call[k] = again(call[k - 1])
      BY <1>1, <1>6
    <3>2. /\ call[k - 1] \in State
          /\ k - 1 >= 1 => call[k - 1].checked = p.on
      BY <2>2, Zenon
    <3> k - 1 \in Nat /\ k \in 0 .. n
      BY <1>1
    <3>3. call[k] \in State /\ call[k].checked = p.on
      BY <1>2, <3>1, <3>2
    <3>4. k >= 2 => Steady(p, call[k])
      BY <1>1, <1>2, <3>1, <3>2
    <3>5. QED
      BY <3>2, <3>3, <3>4
  <2> HIDE DEF P
  <2>3. 0 .. n \subseteq P
    BY <1>1, <2>1, <2>2, Reaches
  <2>4. n \in P
    BY <1>1, <2>3
  <2>5. call[n] \in State /\ (n >= 2 => Steady(p, call[n]))
    BY <2>4, Zenon DEF P
  <2>6. QED
    BY <1>1, <2>5
<1>8. Settled(p, s) = call[n]
  BY DEF Settled, again, n
<1> HIDE DEF call
<1>9. QED
  BY <1>1, <1>7, <1>8

-----------------------------------------------------------------------------
(***************************************************************************)
(* Nothing a device does in a render goes on: its second call agrees with  *)
(* its first                                                               *)
(***************************************************************************)
Buf == [Pin -> {{}, {TRUE}, {FALSE}}]
Level == UNION {[T -> BOOLEAN] : T \in SUBSET Pin}
Drawn == [buf : Buf, stuck : {FALSE}]

LEMMA DevicePassIs ==
  ASSUME NEW on \in Level, NEW b \in Buf
  PROVE  DevicePass(on, b).buf \in Buf /\ ~DevicePass(on, DevicePass(on, b).buf).again
<1> DEFINE next == [p \in DOMAIN b |-> IF p \in DOMAIN on THEN {on[p]} ELSE b[p]]
<1>1. PICK T \in SUBSET Pin : on \in [T -> BOOLEAN]
  BY DEF Level
<1>2. DOMAIN b = Pin /\ DOMAIN on = T /\ \A p \in T : p \in Pin /\ on[p] \in BOOLEAN
  BY <1>1 DEF Buf
<1>3. DevicePass(on, b).buf = next
  BY DEF DevicePass
<1>4. next \in Buf
  <2>1. ASSUME NEW p \in Pin PROVE next[p] \in {{}, {TRUE}, {FALSE}}
    <3>1. CASE p \in T
      <4>1. next[p] = {on[p]} /\ on[p] \in BOOLEAN
        BY <1>2, <3>1
      <4>2. QED
        BY <4>1
    <3>2. CASE p \notin T
      BY <1>2, <3>2 DEF Buf
    <3>3. QED
      BY <3>1, <3>2
  <2>2. QED
    BY <1>2, <2>1 DEF Buf
<1>5. \A p \in DOMAIN on : next[p] = {on[p]}
  BY <1>2
<1> HIDE DEF next
<1>6. ~DevicePass(on, next).again
  BY <1>5 DEF DevicePass
<1>7. QED
  BY <1>3, <1>4, <1>6

LEMMA RenderedIs ==
  ASSUME NEW levels \in Seq(Level), NEW b \in Buf
  PROVE  Rendered(levels, b) \in Drawn
<1> DEFINE n == Len(levels)
           first == [buf |-> b, stuck |-> FALSE]
           device(acc, on) ==
             LET once == DevicePass(on, acc.buf)
             IN  [buf   |-> once.buf,
                  stuck |-> acc.stuck \/ (once.again /\ DevicePass(on, once.buf).again)]
           step(f) == [k \in 0 .. n |-> IF k = 0 THEN first ELSE device(f[k - 1], levels[k])]
           g == [x \in (1 .. n) \X Drawn |-> device(x[2], levels[x[1]])]
           done == CHOOSE f : f = step(f)
<1>1. n \in Nat
  OBVIOUS
<1>2. first \in Drawn
  BY DEF Drawn
<1>3. ASSUME NEW acc \in Drawn, NEW on \in Level PROVE device(acc, on) \in Drawn
  <2> DEFINE once == DevicePass(on, acc.buf)
             stuck == acc.stuck \/ (once.again /\ DevicePass(on, once.buf).again)
  <2>1. acc.buf \in Buf /\ acc.stuck = FALSE
    BY DEF Drawn
  <2>2. once.buf \in Buf /\ ~DevicePass(on, once.buf).again
    BY <2>1, DevicePassIs
  <2>3. device(acc, on) = [buf |-> once.buf, stuck |-> stuck]
    OBVIOUS
  <2> HIDE DEF once
  <2>4. stuck = FALSE
    BY <2>1, <2>2, Zenon
  <2> HIDE DEF stuck, device
  <2>5. device(acc, on) = [buf |-> once.buf, stuck |-> FALSE]
    BY <2>3, <2>4, Zenon
  <2>6. [buf |-> once.buf, stuck |-> FALSE] \in Drawn
    BY <2>2 DEF Drawn
  <2>7. QED
    BY <2>5, <2>6
<1>4. \A k \in 1 .. n : levels[k] \in Level
  OBVIOUS
<1> HIDE DEF device
<1>5. g \in [(1 .. n) \X Drawn -> Drawn]
  <2> HIDE DEF n
  <2>1. QED
    BY <1>3, <1>4
<1>6. PICK f0 \in [0 .. n -> Drawn] : Follows(f0, g, first, n)
  <2> HIDE DEF n, g, first, step, done
  <2>1. QED
    BY <1>1, <1>2, <1>5, Iterated
<1> HIDE DEF n, first
<1>7. f0 = step(f0)
  <2>1. ASSUME NEW k \in 0 .. n PROVE f0[k] = IF k = 0 THEN first ELSE device(f0[k - 1], levels[k])
    <3>1. CASE k # 0
      <4>1. k \in 1 .. n /\ f0[k - 1] \in Drawn
        BY <1>1, <1>6, <3>1
      <4>2. g[<<k, f0[k - 1]>>] = device(f0[k - 1], levels[k])
        BY <4>1
      <4>3. QED
        BY <1>6, <3>1, <4>1, <4>2 DEF Follows
    <3>2. QED
      BY <1>6, <3>1 DEF Follows
  <2>2. QED
    BY <1>6, <2>1
<1>8. done = step(done)
  <2> HIDE DEF step
  <2>1. QED
    BY <1>7
<1>9. done[n] \in Drawn
  <2> DEFINE P == {k \in 0 .. n : done[k] \in Drawn}
  <2> HIDE DEF done
  <2>1. 0 \in P
    BY <1>1, <1>2, <1>8
  <2>2. ASSUME NEW k \in 1 .. n, k - 1 \in P PROVE k \in P
    <3>1. done[k] = device(done[k - 1], levels[k])
      BY <1>1, <1>8
    <3>2. QED
      BY <1>1, <1>3, <1>4, <2>2, <3>1
  <2> HIDE DEF P
  <2>3. 0 .. n \subseteq P
    BY <1>1, <2>1, <2>2, Reaches
  <2>4. QED
    BY <1>1, <2>3 DEF P
<1>10. Rendered(levels, b) = done[n]
  BY DEF Rendered, device, n, first
<1>11. QED
  BY <1>9, <1>10

-----------------------------------------------------------------------------
(***************************************************************************)
(* Servers on the page                                                     *)
(***************************************************************************)
Entry == [name : System, devices : Seq(Mac), online : SUBSET Mac, high : SUBSET (Mac \X Pin)]

LEMMA Database ==
  /\ DevsOf \in [System -> SUBSET Mac] /\ IsFiniteSet(Mac) /\ Batch \in Nat \ {0}
  /\ \A m \in Mac : PinsOf[m] \in Seq(Pin) /\ PinsOf[m] # <<>>
  /\ \A m \in Mac : Name[m] \in Nat
  /\ \A m, o \in Mac : Name[m] = Name[o] => m = o
  BY SwitchesAssumption DEF IsInjective

LEMMA LevelsAre == ASSUME NEW e, NEW m \in Mac PROVE Levels(e, m) \in Level
<1>1. Range(PinsOf[m]) \in SUBSET Pin
  <2>1. PinsOf[m] \in Seq(Pin)
    BY Database
  <2>2. \A k \in DOMAIN PinsOf[m] : PinsOf[m][k] \in Pin
    BY <2>1
  <2>3. QED
    BY <2>2 DEF Range
<1>2. ASSUME NEW p \in Range(PinsOf[m]) PROVE (<<m, p>> \in e.high) \in BOOLEAN
  OBVIOUS
<1>3. Levels(e, m) \in [Range(PinsOf[m]) -> BOOLEAN]
  BY <1>2 DEF Levels
<1>4. QED
  BY <1>1, <1>3 DEF Level

LEMMA AllLevelsAre == ASSUME NEW list \in Seq(Entry) PROVE AllLevels(list) \in Seq(Level)
<1> DEFINE n == Len(list)
           S == Seq(Level)
           b == <<>>
           of(e) == [j \in DOMAIN e.devices |-> Levels(e, e.devices[j])]
           step(f) == [k \in 0 .. n |-> IF k = 0 THEN b ELSE f[k - 1] \o of(list[k])]
           g == [x \in (1 .. n) \X S |-> x[2] \o of(list[x[1]])]
           all == CHOOSE f : f = step(f)
<1>1. n \in Nat
  OBVIOUS
<1>2. b \in S
  OBVIOUS
<1>3. ASSUME NEW e \in Entry PROVE of(e) \in S
  <2>1. e.devices \in Seq(Mac)
    BY DEF Entry
  <2>2. Len(e.devices) \in Nat /\ DOMAIN e.devices = 1 .. Len(e.devices)
        /\ \A j \in 1 .. Len(e.devices) : e.devices[j] \in Mac
    BY <2>1
  <2>3. ASSUME NEW j \in 1 .. Len(e.devices) PROVE Levels(e, e.devices[j]) \in Level
    BY <2>2, LevelsAre
  <2>4. of(e) \in [1 .. Len(e.devices) -> Level]
    BY <2>2, <2>3
  <2> HIDE DEF of
  <2>5. QED
    BY <2>2, <2>4, SeqDef
<1>4. \A k \in 1 .. n : list[k] \in Entry
  OBVIOUS
<1> HIDE DEF of
<1>5. g \in [(1 .. n) \X S -> S]
  <2>1. ASSUME NEW s \in S, NEW k \in 1 .. n PROVE s \o of(list[k]) \in S
    BY <1>3, <1>4
  <2> HIDE DEF n, S
  <2>2. QED
    BY <2>1
<1>6. PICK f0 \in [0 .. n -> S] : Follows(f0, g, b, n)
  <2> HIDE DEF n, S, g, b, step, all
  <2>1. QED
    BY <1>1, <1>2, <1>5, Iterated
<1> HIDE DEF n, S, b
<1>7. f0 = step(f0)
  <2>1. ASSUME NEW k \in 0 .. n PROVE f0[k] = IF k = 0 THEN b ELSE f0[k - 1] \o of(list[k])
    <3>1. CASE k # 0
      <4>1. k \in 1 .. n /\ f0[k - 1] \in S
        BY <1>1, <1>6, <3>1
      <4>2. g[<<k, f0[k - 1]>>] = f0[k - 1] \o of(list[k])
        BY <4>1
      <4>3. QED
        BY <1>6, <3>1, <4>1, <4>2 DEF Follows
    <3>2. QED
      BY <1>6, <3>1 DEF Follows
  <2>2. QED
    BY <1>6, <2>1
<1>8. all = step(all)
  <2> HIDE DEF step
  <2>1. QED
    BY <1>7
<1>9. all[n] \in S
  <2> DEFINE P == {k \in 0 .. n : all[k] \in S}
  <2> HIDE DEF all
  <2>1. 0 \in P
    BY <1>1, <1>2, <1>8
  <2>2. ASSUME NEW k \in 1 .. n, k - 1 \in P PROVE k \in P
    <3>1. all[k] = all[k - 1] \o of(list[k])
      BY <1>1, <1>8
    <3>2. all[k - 1] \in Seq(Level) /\ of(list[k]) \in Seq(Level)
      BY <1>3, <1>4, <2>2 DEF S
    <3>3. all[k] \in Seq(Level)
      BY <3>1, <3>2
    <3>4. QED
      BY <1>1, <3>3 DEF S
  <2> HIDE DEF P
  <2>3. 0 .. n \subseteq P
    BY <1>1, <2>1, <2>2, Reaches
  <2>4. QED
    BY <1>1, <2>3 DEF P
<1>10. AllLevels(list) = all[n]
  BY DEF AllLevels, of, n, b
<1>11. QED
  BY <1>9, <1>10 DEF S

-----------------------------------------------------------------------------
(***************************************************************************)
(* The order of the devices                                                *)
(***************************************************************************)
LEMMA SortedExists ==
  ASSUME NEW R \in SUBSET Mac
  PROVE  \E d \in [1 .. Cardinality(R) -> R] : Ordered(d)
<1> DEFINE n == Cardinality(R)
           P == {k \in 0 .. n : \A T \in SUBSET Mac :
                                  Cardinality(T) = k => \E d \in [1 .. k -> T] : Ordered(d)}
<1>1. n \in Nat
  BY Database, FS_Subset, FS_CardinalityType
<1>2. 0 \in P
  <2> SUFFICES ASSUME NEW T \in SUBSET Mac, Cardinality(T) = 0
               PROVE  \E d \in [1 .. 0 -> T] : Ordered(d)
    BY <1>1
  <2> DEFINE d == [i \in 1 .. 0 |-> i]
  <2>1. d \in [1 .. 0 -> T] /\ DOMAIN d = {}
    OBVIOUS
  <2> HIDE DEF d
  <2>2. Ordered(d)
    BY <2>1 DEF Ordered
  <2>3. QED
    BY <2>1, <2>2
<1>3. ASSUME NEW k \in 1 .. n, k - 1 \in P PROVE k \in P
  <2> SUFFICES ASSUME NEW T \in SUBSET Mac, Cardinality(T) = k
               PROVE  \E d \in [1 .. k -> T] : Ordered(d)
    BY <1>1
  <2>1. IsFiniteSet(T) /\ T # {}
    BY <1>1, Database, FS_Subset, FS_EmptySet
  <2>2. PICK m \in T : \A o \in T : Name[m] <= Name[o]
    <3> DEFINE S == {Name[o] : o \in T}
    <3>1. S \in SUBSET Nat /\ S # {}
      BY <2>1, Database
    <3>2. PICK a \in S : \A c \in S : a <= c
      <4> HIDE DEF S
      <4>1. QED
        BY <3>1, LeastIn
    <3>3. QED
      BY <3>2
  <2>3. Cardinality(T \ {m}) = k - 1
    BY <2>1, FS_RemoveElement
  <2>4. PICK e \in [1 .. k - 1 -> T \ {m}] : Ordered(e)
    BY <1>3, <2>3
  <2> DEFINE d == [i \in 1 .. k |-> IF i = 1 THEN m ELSE e[i - 1]]
  <2>5. d \in [1 .. k -> T]
    <3>1. ASSUME NEW i \in 1 .. k, i # 1 PROVE e[i - 1] \in T
      BY <2>4, <3>1
    <3>2. QED
      BY <3>1
  <2>6. ASSUME NEW i \in 1 .. k, NEW j \in 1 .. k, i < j PROVE Name[d[i]] < Name[d[j]]
    <3>1. j - 1 \in 1 .. k - 1 /\ d[j] = e[j - 1] /\ e[j - 1] \in T \ {m}
      BY <2>4, <2>6
    <3>2. CASE i = 1
      <4>1. Name[m] <= Name[e[j - 1]] /\ Name[m] # Name[e[j - 1]]
        BY <2>2, <3>1, Database
      <4>2. Name[m] \in Nat /\ Name[e[j - 1]] \in Nat
        BY <3>1, Database
      <4>3. d[i] = m
        BY <3>2
      <4>4. QED
        BY <3>1, <4>1, <4>2, <4>3
    <3>3. CASE i # 1
      <4>1. i - 1 \in 1 .. k - 1 /\ d[i] = e[i - 1] /\ i - 1 < j - 1
        BY <2>6, <3>3
      <4>2. DOMAIN e = 1 .. k - 1
        BY <2>4
      <4>3. Name[e[i - 1]] < Name[e[j - 1]]
        BY <2>4, <3>1, <4>1, <4>2 DEF Ordered
      <4>4. QED
        BY <3>1, <4>1, <4>3
    <3>4. QED
      BY <3>2, <3>3
  <2> HIDE DEF d
  <2>7. Ordered(d)
    BY <2>5, <2>6 DEF Ordered
  <2>8. QED
    BY <2>5, <2>7
<1>4. n \in P
  <2> HIDE DEF P, n
  <2>1. 0 .. n \subseteq P
    BY <1>1, <1>2, <1>3, Reaches
  <2>2. QED
    BY <1>1, <2>1
<1>5. QED
  BY <1>4

\* Ordered by name, no device is listed twice.
LEMMA OrderedOnce ==
  ASSUME NEW d \in Seq(Mac), Ordered(d)
  PROVE  IsInjective(d)
<1> SUFFICES ASSUME NEW i \in DOMAIN d, NEW j \in DOMAIN d, d[i] = d[j] PROVE i = j
  BY DEF IsInjective
<1>1. i \in Nat /\ j \in Nat /\ d[i] \in Mac
  OBVIOUS
<1>2. Name[d[i]] \in Nat
  BY <1>1, Database
<1>3. ~(i < j) /\ ~(j < i)
  BY <1>2 DEF Ordered
<1>4. QED
  BY <1>1, <1>3

\* Sorted has the same devices in the order of their names.
LEMMA SortedIs ==
  ASSUME NEW devices \in Seq(Mac)
  PROVE  /\ Sorted(devices) \in Seq(Mac) /\ Range(Sorted(devices)) = Range(devices)
         /\ Ordered(Sorted(devices)) /\ IsInjective(Sorted(devices))
<1> DEFINE R == Range(devices)
           n == Cardinality(R)
           d == Sorted(devices)
<1>1. R \in SUBSET Mac
  BY DEF Range
<1>2. IsFiniteSet(R) /\ n \in Nat
  BY <1>1, Database, FS_Subset, FS_CardinalityType
<1>3. d \in [1 .. n -> R] /\ Ordered(d)
  <2>1. \E c \in [1 .. Cardinality(R) -> R] : Ordered(c)
    BY <1>1, SortedExists
  <2> HIDE DEF R
  <2>2. Sorted(devices) = CHOOSE c \in [1 .. Cardinality(R) -> R] : Ordered(c)
    BY DEF Sorted, R
  <2>3. QED
    BY <2>1, <2>2
<1> HIDE DEF R, n, d
<1>4. d \in Seq(Mac)
  <2>1. d \in [1 .. n -> Mac]
    BY <1>1, <1>3
  <2>2. QED
    BY <1>2, <2>1, SeqDef
<1>5. IsInjective(d)
  BY <1>3, <1>4, OrderedOnce
<1>6. Range(d) = R
  <2>1. d \in Injection(1 .. n, R)
    BY <1>3, <1>5 DEF Injection, IsInjective
  <2>2. Cardinality(1 .. n) = n
    BY <1>2, FS_Interval
  <2>3. d \in Surjection(1 .. n, R)
    BY <1>2, <2>1, <2>2, FS_Injection DEF n
  <2>4. QED
    BY <2>3 DEF Surjection, Range
<1>7. QED
  BY <1>3, <1>4, <1>5, <1>6 DEF d, R

\* There is only one order: two ordered sequences of the same devices have the
\* same device at each place.
LEMMA OneOrder ==
  ASSUME NEW d \in Seq(Mac), NEW e \in Seq(Mac), Ordered(d), Ordered(e), Range(d) = Range(e),
         NEW j \in DOMAIN d \cap DOMAIN e
  PROVE  d[j] = e[j]
<1> DEFINE Bad == {k \in DOMAIN d \cap DOMAIN e : d[k] # e[k]}
<1>1. /\ DOMAIN d = 1 .. Len(d) /\ DOMAIN e = 1 .. Len(e) /\ Len(d) \in Nat /\ Len(e) \in Nat
      /\ IsInjective(d) /\ IsInjective(e)
  BY OrderedOnce
<1> SUFFICES ASSUME Bad # {} PROVE FALSE
  OBVIOUS
<1>2. Bad \in SUBSET Nat
  BY <1>1
<1>3. PICK k \in Bad : \A i \in Bad : k <= i
  <2> HIDE DEF Bad
  <2>1. QED
    BY <1>2, LeastIn
<1>4. k \in 1 .. Len(d) /\ k \in 1 .. Len(e) /\ d[k] # e[k] /\ k \in Nat
  BY <1>1
<1>5. \A i \in DOMAIN d \cap DOMAIN e : i < k => d[i] = e[i]
  BY <1>1, <1>3
<1>6. PICK m \in 1 .. Len(e) : e[m] = d[k]
  BY <1>1, <1>4 DEF Range
<1>7. PICK p \in 1 .. Len(d) : d[p] = e[k]
  BY <1>1, <1>4 DEF Range
<1>8. ~(m < k)
  <2> SUFFICES ASSUME m < k PROVE FALSE
    OBVIOUS
  <2>1. m \in DOMAIN d \cap DOMAIN e
    BY <1>1, <1>4
  <2>2. d[m] = d[k]
    BY <1>5, <1>6, <2>1
  <2>3. QED
    BY <1>1, <1>4, <2>1, <2>2 DEF IsInjective
<1>9. ~(p < k)
  <2> SUFFICES ASSUME p < k PROVE FALSE
    OBVIOUS
  <2>1. p \in DOMAIN d \cap DOMAIN e
    BY <1>1, <1>4
  <2>2. e[p] = e[k]
    BY <1>5, <1>7, <2>1
  <2>3. QED
    BY <1>1, <1>4, <2>1, <2>2 DEF IsInjective
<1>10. k < m /\ k < p
  BY <1>4, <1>6, <1>7, <1>8, <1>9
<1>11. Name[e[k]] < Name[e[m]] /\ Name[d[k]] < Name[d[p]]
  BY <1>1, <1>4, <1>10 DEF Ordered
<1>12. Name[d[k]] \in Nat /\ Name[e[k]] \in Nat
  <2>1. d[k] \in Mac /\ e[k] \in Mac
    BY <1>1, <1>4
  <2>2. QED
    BY <2>1, Database
<1>13. QED
  BY <1>6, <1>7, <1>11, <1>12

-----------------------------------------------------------------------------
(***************************************************************************)
(* The switches of a list of servers                                       *)
(***************************************************************************)
LEMMA PositionsAre ==
  ASSUME NEW list, NEW x
  PROVE  x \in Positions(list) <=>
           \E i \in DOMAIN list : \E j \in DOMAIN list[i].devices :
             \E k \in DOMAIN PinsOf[list[i].devices[j]] : x = <<i, j, k>>
  BY DEF Positions

LEMMA PropsAre ==
  ASSUME NEW list \in Seq(Entry), NEW x \in Positions(list)
  PROVE  Props(list, x) \in Shown
<1>1. PICK i \in DOMAIN list : \E j \in DOMAIN list[i].devices :
              \E k \in DOMAIN PinsOf[list[i].devices[j]] : x = <<i, j, k>>
  BY PositionsAre
<1>2. PICK j \in DOMAIN list[i].devices :
              \E k \in DOMAIN PinsOf[list[i].devices[j]] : x = <<i, j, k>>
  BY <1>1
<1>3. PICK k \in DOMAIN PinsOf[list[i].devices[j]] : x = <<i, j, k>>
  BY <1>2
<1>4. x[1] = i /\ x[2] = j /\ x[3] = k
  BY <1>3
<1> DEFINE e == list[i]
           m == e.devices[j]
           p == PinsOf[m][k]
           on == <<m, p>> \in e.high
           off == m \notin e.online
<1>5. e \in Entry
  OBVIOUS
<1>6. e.devices \in Seq(Mac)
  BY <1>5 DEF Entry
<1>7. m \in Mac
  BY <1>6
<1>8. p \in Pin
  <2>1. PinsOf[m] \in Seq(Pin)
    BY <1>7, Database
  <2>2. QED
    BY <2>1
<1>9. Props(list, x) = [mac |-> m, pin |-> p, on |-> on, off |-> off]
  BY <1>4 DEF Props
<1>10. on \in BOOLEAN /\ off \in BOOLEAN
  OBVIOUS
<1> HIDE DEF on, off, m, p
<1>11. QED
  BY <1>7, <1>8, <1>9, <1>10 DEF Shown

-----------------------------------------------------------------------------
(***************************************************************************)
(* The servers of the page, each there once and with no device twice       *)
(***************************************************************************)
Kept(e) == IsInjective(e.devices) /\ Range(e.devices) \subseteq DevsOf[e.name]

Listing(list) ==
  /\ list \in Seq(Entry)
  /\ \A i \in DOMAIN list : Kept(list[i])
  /\ \A i, j \in DOMAIN list : list[i].name = list[j].name => i = j

LEMMA PulseIs ==
  ASSUME NEW told \in Pulses
  PROVE  told \in Entry /\ Kept(told)
<1>1. PICK s \in System : told \in UNION {
          [name : {s}, devices : {devices}, online : SUBSET Range(devices),
           high : SUBSET UNION {{m} \X Range(PinsOf[m]) : m \in Range(devices)}]
          : devices \in SetToAllKPermutations(DevsOf[s])}
  BY DEF Pulses
<1>2. PICK d \in SetToAllKPermutations(DevsOf[s]) : told \in
          [name : {s}, devices : {d}, online : SUBSET Range(d),
           high : SUBSET UNION {{m} \X Range(PinsOf[m]) : m \in Range(d)}]
  BY <1>1
<1>3. PICK T \in SUBSET DevsOf[s] : d \in SetToSeqs(T)
  BY <1>2 DEF SetToAllKPermutations
<1>4. /\ d \in [1 .. Cardinality(T) -> T]
      /\ \A i, j \in 1 .. Cardinality(T) : i # j => d[i] # d[j]
  BY <1>3 DEF SetToSeqs
<1>5. T \in SUBSET Mac /\ Cardinality(T) \in Nat
  <2>1. DevsOf[s] \in SUBSET Mac
    BY Database
  <2>2. T \in SUBSET Mac
    BY <2>1
  <2>3. QED
    BY <2>2, Database, FS_Subset, FS_CardinalityType
<1>6. d \in Seq(Mac) /\ IsInjective(d) /\ Range(d) \subseteq T
  <2>1. d \in [1 .. Cardinality(T) -> Mac]
    BY <1>4, <1>5
  <2>2. d \in Seq(Mac)
    BY <1>5, <2>1, SeqDef
  <2>3. QED
    BY <1>4, <2>2 DEF IsInjective, Range
<1>7. Range(d) \in SUBSET Mac
  BY <1>5, <1>6
<1>8. UNION {{m} \X Range(PinsOf[m]) : m \in Range(d)} \in SUBSET (Mac \X Pin)
  <2>1. ASSUME NEW m \in Mac PROVE Range(PinsOf[m]) \in SUBSET Pin
    <3>1. PinsOf[m] \in Seq(Pin)
      BY Database
    <3>2. QED
      BY <3>1 DEF Range
  <2>2. QED
    BY <1>7, <2>1
<1>9. told \in [name : {s}, devices : {d}, online : SUBSET Mac, high : SUBSET (Mac \X Pin)]
  BY <1>2, <1>7, <1>8
<1>10. told.name = s /\ told.devices = d
  BY <1>2
<1>11. told \in Entry
  BY <1>6, <1>9 DEF Entry
<1>12. QED
  BY <1>3, <1>6, <1>10, <1>11 DEF Kept

\* Map.set: a server that is there keeps its place, another comes last.
LEMMA PutIs ==
  ASSUME Listing(servers), NEW told \in Pulses
  PROVE  Listing(Put(told))
<1>1. told \in Entry /\ Kept(told)
  BY PulseIs
<1>2. /\ servers \in Seq(Entry) /\ DOMAIN servers = 1 .. Len(servers) /\ Len(servers) \in Nat
      /\ \A i \in DOMAIN servers : Kept(servers[i])
      /\ \A i, j \in DOMAIN servers : servers[i].name = servers[j].name => i = j
  BY DEF Listing
<1>3. CASE At(told.name) = {}
  <2> DEFINE r == Append(servers, told)
  <2>1. Put(told) = r
    BY <1>3 DEF Put
  <2>2. /\ r \in Seq(Entry) /\ DOMAIN r = 1 .. Len(servers) + 1 /\ r[Len(servers) + 1] = told
        /\ \A i \in 1 .. Len(servers) : r[i] = servers[i]
    BY <1>1, <1>2, AppendProperties
  <2>3. \A i \in 1 .. Len(servers) : servers[i].name # told.name
    BY <1>2, <1>3 DEF At
  <2> HIDE DEF r
  <2>4. \A i \in DOMAIN r : Kept(r[i])
    <3>1. \A i \in DOMAIN r : i \in 1 .. Len(servers) \/ i = Len(servers) + 1
      BY <1>2, <2>2
    <3>2. QED
      BY <1>1, <1>2, <2>2, <3>1
  <2>5. ASSUME NEW i \in DOMAIN r, NEW j \in DOMAIN r, r[i].name = r[j].name PROVE i = j
    <3>1. i \in 1 .. Len(servers) \/ i = Len(servers) + 1
      BY <1>2, <2>2
    <3>2. j \in 1 .. Len(servers) \/ j = Len(servers) + 1
      BY <1>2, <2>2
    <3>3. QED
      BY <1>2, <2>2, <2>3, <2>5, <3>1, <3>2
  <2>6. QED
    BY <2>1, <2>2, <2>4, <2>5 DEF Listing
<1>4. CASE At(told.name) # {}
  <2> DEFINE k == CHOOSE i \in At(told.name) : TRUE
             r == [servers EXCEPT ![k] = told]
  <2>1. Put(told) = r
    BY <1>4 DEF Put
  <2>2. k \in At(told.name)
    BY <1>4
  <2>3. k \in DOMAIN servers /\ servers[k].name = told.name
    BY <2>2 DEF At
  <2> HIDE DEF k
  <2>4. /\ r \in Seq(Entry) /\ DOMAIN r = DOMAIN servers /\ r[k] = told
        /\ \A i \in DOMAIN servers : i # k => r[i] = servers[i]
    BY <1>1, <1>2, <2>3
  <2> HIDE DEF r
  <2>5. \A i \in DOMAIN r : Kept(r[i])
    BY <1>1, <1>2, <2>4
  <2>6. \A i \in DOMAIN r : r[i].name = servers[i].name
    BY <2>3, <2>4
  <2>7. QED
    BY <1>2, <2>1, <2>4, <2>5, <2>6 DEF Listing
<1>5. QED
  BY <1>3, <1>4

\* What RemoveAt leaves: those before the place, and those after it moved up.
LEMMA RemovedIs ==
  ASSUME NEW S, NEW s \in Seq(S), NEW i \in 1 .. Len(s)
  PROVE  /\ RemoveAt(s, i) \in Seq(S) /\ Len(RemoveAt(s, i)) = Len(s) - 1
         /\ \A k \in 1 .. Len(s) - 1 : RemoveAt(s, i)[k] = s[IF k < i THEN k ELSE k + 1]
<1> DEFINE a == SubSeq(s, 1, i - 1)
           b == SubSeq(s, i + 1, Len(s))
<1>1. Len(s) \in Nat /\ i \in Nat /\ i >= 1 /\ i <= Len(s)
  OBVIOUS
<1>2. a \in Seq(S) /\ Len(a) = i - 1 /\ \A k \in 1 .. i - 1 : a[k] = s[k]
  <2>1. \A k \in 1 .. i - 1 : s[k] \in S
    BY <1>1
  <2>2. /\ a \in Seq(S) /\ Len(a) = IF 1 <= i - 1 THEN i - 1 - 1 + 1 ELSE 0
        /\ \A k \in 1 .. i - 1 - 1 + 1 : a[k] = s[1 + k - 1]
    BY <1>1, <2>1, SubSeqProperties
  <2> HIDE DEF a
  <2>3. QED
    BY <1>1, <2>2
<1>3. b \in Seq(S) /\ Len(b) = Len(s) - i /\ \A k \in 1 .. Len(s) - i : b[k] = s[i + k]
  <2>1. \A k \in i + 1 .. Len(s) : s[k] \in S
    BY <1>1
  <2>2. /\ b \in Seq(S) /\ Len(b) = IF i + 1 <= Len(s) THEN Len(s) - (i + 1) + 1 ELSE 0
        /\ \A k \in 1 .. Len(s) - (i + 1) + 1 : b[k] = s[i + 1 + k - 1]
    BY <1>1, <2>1, SubSeqProperties
  <2> HIDE DEF b
  <2>3. QED
    BY <1>1, <2>2
<1> HIDE DEF a, b
<1>4. /\ a \o b \in Seq(S) /\ Len(a \o b) = Len(s) - 1
      /\ \A k \in 1 .. Len(s) - 1 : (a \o b)[k] = IF k <= i - 1 THEN a[k] ELSE b[k - (i - 1)]
  <2>1. /\ a \o b \in Seq(S) /\ Len(a \o b) = Len(a) + Len(b)
        /\ \A k \in 1 .. Len(a) + Len(b) : (a \o b)[k] = IF k <= Len(a) THEN a[k] ELSE b[k - Len(a)]
    BY <1>2, <1>3, ConcatProperties
  <2>2. QED
    BY <1>1, <1>2, <1>3, <2>1
<1>5. ASSUME NEW k \in 1 .. Len(s) - 1 PROVE (a \o b)[k] = s[IF k < i THEN k ELSE k + 1]
  <2>1. CASE k < i
    BY <1>1, <1>2, <1>4, <2>1
  <2>2. CASE ~(k < i)
    <3>1. k - (i - 1) \in 1 .. Len(s) - i /\ i + (k - (i - 1)) = k + 1
      BY <1>1, <2>2
    <3>2. (a \o b)[k] = b[k - (i - 1)]
      BY <1>1, <1>4, <2>2
    <3>3. QED
      BY <1>3, <2>2, <3>1, <3>2
  <2>3. QED
    BY <2>1, <2>2
<1>6. RemoveAt(s, i) = a \o b
  BY DEF RemoveAt, a, b
<1>7. QED
  BY <1>4, <1>5, <1>6

LEMMA LeftIs ==
  ASSUME NEW list, Listing(list), NEW i \in DOMAIN list
  PROVE  Listing(RemoveAt(list, i))
<1> DEFINE r == RemoveAt(list, i)
           from(k) == IF k < i THEN k ELSE k + 1
<1>1. list \in Seq(Entry) /\ Len(list) \in Nat /\ DOMAIN list = 1 .. Len(list) /\ i \in 1 .. Len(list)
  BY DEF Listing
<1>2. /\ r \in Seq(Entry) /\ Len(r) = Len(list) - 1
      /\ \A k \in 1 .. Len(list) - 1 : r[k] = list[from(k)]
  BY <1>1, RemovedIs
<1> HIDE DEF r
<1>3. DOMAIN r = 1 .. Len(list) - 1
  BY <1>2
<1>4. \A k \in DOMAIN r : from(k) \in DOMAIN list /\ r[k] = list[from(k)]
  BY <1>1, <1>2, <1>3
<1>5. \A k, m \in DOMAIN r : from(k) = from(m) => k = m
  BY <1>1, <1>3
<1> HIDE DEF from
<1>6. \A k \in DOMAIN r : Kept(r[k])
  BY <1>4 DEF Listing
<1>7. ASSUME NEW k \in DOMAIN r, NEW m \in DOMAIN r, r[k].name = r[m].name PROVE k = m
  <2>1. list[from(k)].name = list[from(m)].name
    BY <1>4, <1>7
  <2>2. from(k) = from(m)
    BY <1>4, <2>1 DEF Listing
  <2>3. QED
    BY <1>5, <2>2
<1>8. QED
  BY <1>2, <1>6, <1>7 DEF Listing, r

\* The list as a render leaves it.
InOrder(list) == [i \in DOMAIN list |-> [list[i] EXCEPT !.devices = Sorted(@)]]

LEMMA InOrderIs ==
  ASSUME NEW list, Listing(list)
  PROVE  Listing(InOrder(list)) /\ \A i \in DOMAIN InOrder(list) : Ordered(InOrder(list)[i].devices)
<1> DEFINE r == InOrder(list)
<1>1. list \in Seq(Entry) /\ Len(list) \in Nat /\ DOMAIN list = 1 .. Len(list)
  BY DEF Listing
<1>2. ASSUME NEW i \in DOMAIN list
      PROVE  /\ r[i] \in Entry /\ r[i].name = list[i].name
             /\ Kept(r[i]) /\ Ordered(r[i].devices)
  <2> DEFINE e == list[i]
             d == Sorted(e.devices)
  <2>1. PICK nm \in System, ds \in Seq(Mac), on \in SUBSET Mac, hi \in SUBSET (Mac \X Pin) :
          e = [name |-> nm, devices |-> ds, online |-> on, high |-> hi]
    <3>1. e \in Entry
      BY <1>1
    <3>2. QED
      BY <3>1 DEF Entry
  <2>2. /\ d \in Seq(Mac) /\ Range(d) = Range(ds) /\ Ordered(d) /\ IsInjective(d)
    BY <2>1, SortedIs
  <2>3. r[i] = [e EXCEPT !.devices = d]
    BY DEF InOrder
  <2> HIDE DEF d, r
  <2>4. r[i] = [name |-> nm, devices |-> d, online |-> on, high |-> hi]
    BY <2>1, <2>3
  <2>5. r[i] \in Entry
    BY <2>2, <2>4 DEF Entry
  <2>6. Range(ds) \subseteq DevsOf[nm]
    BY <2>1 DEF Listing, Kept
  <2>7. Kept(r[i])
    BY <2>2, <2>4, <2>6 DEF Kept
  <2>8. QED
    BY <2>1, <2>2, <2>4, <2>5, <2>7
<1>3. DOMAIN r = DOMAIN list
  BY DEF InOrder
<1> HIDE DEF r
<1>4. r \in Seq(Entry)
  <2>1. r \in [1 .. Len(list) -> Entry]
    <3>1. r = [i \in DOMAIN list |-> r[i]]
      BY <1>3 DEF r, InOrder
    <3>2. QED
      BY <1>1, <1>2, <3>1
  <2>2. QED
    BY <1>1, <2>1, SeqDef
<1>5. \A i, j \in DOMAIN r : r[i].name = r[j].name => i = j
  BY <1>2, <1>3 DEF Listing
<1>6. QED
  BY <1>2, <1>3, <1>4, <1>5 DEF Listing, r

-----------------------------------------------------------------------------
(***************************************************************************)
(* The switches are true.  What is on the page is a list of servers, each  *)
(* with its devices in the order of their names: the one rendered last,    *)
(* and that is the one known now unless something has come since.          *)
(***************************************************************************)
OnPage(list) ==
  /\ list \in Seq(Entry) /\ \A i \in DOMAIN list : Ordered(list[i].devices)
  /\ props = [x \in Positions(list) |-> Props(list, x)]
  /\ dirty = 0 => list = servers

SwitchInv ==
  /\ dirty \in 0 .. Batch /\ blank = FALSE /\ buf \in Buf
  /\ Listing(servers)
  /\ DOMAIN state = DOMAIN props
  /\ \A x \in DOMAIN props : props[x] \in Shown /\ state[x] \in State /\ Steady(props[x], state[x])
  /\ \E list : OnPage(list)

LEMMA SwitchInit == PageInit => SwitchInv
<1> SUFFICES ASSUME PageInit PROVE SwitchInv
  OBVIOUS
<1>1. buf \in Buf /\ dirty \in 0 .. Batch /\ blank = FALSE
  BY Database DEF PageInit, Buf
<1>2. Listing(servers)
  <2>1. servers = <<>> /\ DOMAIN servers = {}
    BY DEF PageInit
  <2>2. QED
    BY <2>1 DEF Listing
<1>3. DOMAIN props = {} /\ DOMAIN state = {}
  BY DEF PageInit
<1>4. OnPage(<<>>)
  <2> DEFINE none == <<>>
  <2>1. none \in Seq(Entry) /\ DOMAIN none = {} /\ none = servers /\ props = none
    BY DEF PageInit
  <2> HIDE DEF none
  <2>2. Positions(none) = {}
    BY <2>1, PositionsAre
  <2>3. [x \in Positions(none) |-> Props(none, x)] = [x \in {} |-> x]
    BY <2>2
  <2>4. [x \in {} |-> x] = <<>>
    OBVIOUS
  <2>5. props = [x \in Positions(none) |-> Props(none, x)]
    BY <2>3, <2>4 DEF PageInit
  <2>6. OnPage(none)
    BY <2>1, <2>5 DEF OnPage
  <2>7. QED
    BY <2>6 DEF none
<1>5. QED
  BY <1>1, <1>2, <1>3, <1>4 DEF SwitchInv

\* A handler changes what the page knows, not what it shows.
LEMMA HandlerStep ==
  ASSUME SwitchInv, Listing(servers'), dirty < Batch, dirty' = dirty + 1,
         UNCHANGED <<props, state, buf, blank>>
  PROVE  SwitchInv'
<1>1. dirty' \in 0 .. Batch /\ dirty' # 0
  BY Database DEF SwitchInv
<1>2. PICK list : OnPage(list)
  BY DEF SwitchInv
<1>3. OnPage(list)'
  BY <1>1, <1>2 DEF OnPage
<1>4. QED
  BY <1>1, <1>3 DEF SwitchInv

\* A render puts every switch right, and none of them keeps it from ending.
LEMMA RenderStep ==
  ASSUME SwitchInv, Render
  PROVE  SwitchInv' /\ \E l : OnPage(l)'
<1> DEFINE list == InOrder(servers)
<1>1. servers' = list
  BY DEF Render, InOrder
<1>2. Listing(list) /\ \A i \in DOMAIN list : Ordered(list[i].devices)
  <2>1. Listing(servers)
    BY DEF SwitchInv
  <2>2. QED
    BY <2>1, InOrderIs
<1> HIDE DEF list
<1>3. list \in Seq(Entry)
  BY <1>2 DEF Listing
<1>4. Rendered(AllLevels(list), buf) \in Drawn
  <2>1. AllLevels(list) \in Seq(Level) /\ buf \in Buf
    BY <1>3, AllLevelsAre DEF SwitchInv
  <2>2. QED
    BY <2>1, RenderedIs
<1>5. ASSUME NEW x \in Positions(list)
      PROVE  /\ Props(list, x) \in Shown
             /\ Switch(list, x) \in State /\ Steady(Props(list, x), Switch(list, x))
  <2> DEFINE p == Props(list, x)
             s == IF x \in DOMAIN state THEN state[x] ELSE Mounted(p)
  <2>1. p \in Shown
    BY <1>3, PropsAre
  <2>2. s \in State
    <3>1. x \in DOMAIN state => state[x] \in State
      BY DEF SwitchInv
    <3>2. Mounted(p) \in State
      <4>1. p.on \in BOOLEAN /\ p.off \in BOOLEAN
        BY <2>1 DEF Shown
      <4>2. QED
        BY <4>1 DEF Mounted, State
    <3>3. QED
      BY <3>1, <3>2
  <2>3. Switch(list, x) = Settled(p, s)
    BY DEF Switch
  <2> HIDE DEF p, s
  <2>4. Settled(p, s) \in State /\ Steady(p, Settled(p, s))
    BY <2>1, <2>2, SettledIs
  <2>5. QED
    BY <2>1, <2>3, <2>4 DEF p
<1>6. ~Throws(list)
  <2>1. ~Rendered(AllLevels(list), buf).stuck
    BY <1>4 DEF Drawn
  <2>2. QED
    BY <1>5, <2>1 DEF Throws
<1>7. blank' = FALSE
  <2>1. blank' = Throws(list)
    BY <1>1 DEF Render
  <2>2. Throws(list) \in BOOLEAN
    BY DEF Throws
  <2>3. QED
    BY <1>6, <2>1, <2>2
<1>8. buf' \in Buf /\ dirty' = 0 /\ dirty' \in 0 .. Batch
  <2>1. buf' = Rendered(AllLevels(list), buf).buf
    BY <1>1 DEF Render
  <2>2. Rendered(AllLevels(list), buf).buf \in Buf
    BY <1>4 DEF Drawn
  <2>3. QED
    BY <2>1, <2>2, Database DEF Render
<1>9. /\ props' = [x \in Positions(list) |-> Props(list, x)]
      /\ state' = [x \in Positions(list) |-> Switch(list, x)]
  <2>1. (IF blank' THEN {} ELSE Positions(servers')) = Positions(list)
    BY <1>1, <1>7
  <2>2. QED
    BY <1>1, <2>1 DEF Render
<1>10. \E l : OnPage(l)'
  <2>1. PICK l : l = list
    OBVIOUS
  <2>2. OnPage(l)'
    BY <1>1, <1>2, <1>3, <1>9, <2>1 DEF OnPage
  <2>3. QED
    BY <2>2
<1>11. SwitchInv'
  <2>1. Listing(servers)'
    BY <1>1, <1>2 DEF Listing
  <2>2. /\ DOMAIN state' = DOMAIN props'
        /\ \A x \in DOMAIN props' :
             props'[x] \in Shown /\ state'[x] \in State /\ Steady(props'[x], state'[x])
    BY <1>5, <1>9
  <2>3. (\E l : OnPage(l))'
    BY <1>10
  <2>4. QED
    BY <1>7, <1>8, <2>1, <2>2, <2>3 DEF SwitchInv
<1>12. QED
  BY <1>10, <1>11

\* A click disables a switch, and Pin enables it again if it may be used.
LEMMA ClickStep ==
  ASSUME SwitchInv, NEW x \in DOMAIN state, Click(x)
  PROVE  SwitchInv'
<1> DEFINE s == [state[x] EXCEPT !.disabled = TRUE]
           next == Settled(props[x], s)
<1>1. x \in DOMAIN props /\ props[x] \in Shown /\ state[x] \in State /\ DOMAIN state = DOMAIN props
  BY DEF SwitchInv
<1>2. s \in State
  BY <1>1 DEF State
<1> HIDE DEF s
<1>3. next \in State /\ Steady(props[x], next)
  BY <1>1, <1>2, SettledIs
<1>4. /\ blank' = ~Steady(props[x], next) /\ state' = [state EXCEPT ![x] = next]
      /\ UNCHANGED <<servers, dirty, props, buf>>
  BY DEF Click, s
<1> HIDE DEF next
<1>5. blank' = FALSE
  BY <1>3, <1>4
<1>6. /\ DOMAIN state' = DOMAIN props'
      /\ \A y \in DOMAIN props' :
           props'[y] \in Shown /\ state'[y] \in State /\ Steady(props'[y], state'[y])
  <2>1. DOMAIN state' = DOMAIN state /\ state'[x] = next
        /\ \A y \in DOMAIN state : y # x => state'[y] = state[y]
    BY <1>4
  <2>2. QED
    BY <1>1, <1>3, <1>4, <2>1 DEF SwitchInv
<1>7. (\E l : OnPage(l))'
  <2>1. PICK l : OnPage(l)
    BY DEF SwitchInv
  <2>2. OnPage(l)'
    BY <1>4, <2>1 DEF OnPage
  <2>3. QED
    BY <2>2
<1>8. Listing(servers)' /\ dirty' \in 0 .. Batch /\ buf' \in Buf
  BY <1>4 DEF SwitchInv, Listing
<1>9. QED
  BY <1>5, <1>6, <1>7, <1>8 DEF SwitchInv

LEMMA SwitchStep == ASSUME SwitchInv, [PageNext]_pageVars PROVE SwitchInv'
<1>1. Listing(servers)
  BY DEF SwitchInv
<1>2. ASSUME NEW told \in Pulses, PulseArrives(told) PROVE SwitchInv'
  <2>1. Listing(servers')
    <3>1. Listing(Put(told))
      BY <1>1, PutIs
    <3>2. QED
      BY <1>2, <3>1 DEF PulseArrives
  <2>2. dirty < Batch /\ dirty' = dirty + 1 /\ UNCHANGED <<props, state, buf, blank>>
    BY <1>2 DEF PulseArrives
  <2>3. QED
    BY <2>1, <2>2, HandlerStep
<1>3. ASSUME NEW s \in System, GoesOffline(s) PROVE SwitchInv'
  <2>1. Listing(servers')
    <3>1. (CHOOSE i \in At(s) : TRUE) \in At(s)
      BY <1>3 DEF GoesOffline
    <3>2. (CHOOSE i \in At(s) : TRUE) \in DOMAIN servers
      BY <3>1 DEF At
    <3>3. Listing(RemoveAt(servers, CHOOSE i \in At(s) : TRUE))
      BY <1>1, <3>2, LeftIs
    <3>4. QED
      BY <1>3, <3>3 DEF GoesOffline
  <2>2. dirty < Batch /\ dirty' = dirty + 1 /\ UNCHANGED <<props, state, buf, blank>>
    BY <1>3 DEF GoesOffline
  <2>3. QED
    BY <2>1, <2>2, HandlerStep
<1>4. CASE Render
  BY <1>4, RenderStep
<1>5. ASSUME NEW x \in DOMAIN state, Click(x) PROVE SwitchInv'
  BY <1>5, ClickStep
<1>6. CASE UNCHANGED pageVars
  BY <1>6 DEF pageVars, SwitchInv, Listing, OnPage
<1>7. QED
  BY <1>2, <1>3, <1>4, <1>5, <1>6 DEF PageNext

LEMMA SwitchInvariant == PageSpec => []SwitchInv
<1>1. QED
  BY SwitchInit, SwitchStep, PTL DEF PageSpec

\* Every switch shows the level its pin had in the view rendered last and can be
\* used exactly if its device was online in it, and the page never gives up
\* rendering, with any servers, devices and pins (Device.tsx:64-97).
THEOREM SwitchesAreTrue == PageSpec => []SwitchesTrue
<1>1. SwitchInv => SwitchesTrue
  <2> SUFFICES ASSUME SwitchInv PROVE SwitchesTrue
    OBVIOUS
  <2>1. PageTypeOK
    <3>1. dirty \in 0 .. Batch /\ ~blank
      BY DEF SwitchInv
    <3>2. /\ servers \in Seq(Entry)
          /\ \A i \in DOMAIN servers : Kept(servers[i])
          /\ \A i, j \in DOMAIN servers : servers[i].name = servers[j].name => i = j
      BY DEF SwitchInv, Listing
    <3>3. IsInjective([i \in DOMAIN servers |-> servers[i].name])
      BY <3>2 DEF IsInjective
    <3>4. \A i \in DOMAIN servers :
            /\ servers[i].name \in System /\ IsInjective(servers[i].devices)
            /\ Range(servers[i].devices) \subseteq DevsOf[servers[i].name]
      <4>1. ASSUME NEW i \in DOMAIN servers PROVE servers[i].name \in System
        <5>1. servers[i] \in Entry
          BY <3>2
        <5>2. QED
          BY <5>1 DEF Entry
      <4>2. QED
        BY <3>2, <4>1 DEF Kept
    <3>5. DOMAIN buf = Pin /\ Range(buf) \subseteq {{}, {TRUE}, {FALSE}}
      BY DEF SwitchInv, Buf, Range
    <3>6. QED
      BY <3>1, <3>3, <3>4, <3>5 DEF PageTypeOK
  <2>2. dirty = 0 => props = [x \in Positions(servers) |-> Props(servers, x)]
    BY DEF SwitchInv, OnPage
  <2>3. QED
    BY <2>1, <2>2 DEF SwitchInv, SwitchesTrue
<1>2. QED
  BY <1>1, SwitchInvariant, PTL

-----------------------------------------------------------------------------
(***************************************************************************)
(* A render moves no switch of a place that has the same pins as before    *)
(***************************************************************************)
\* The devices with a switch at a place, among given props.
Macs(drawn, i) == {drawn[x].mac : x \in {y \in DOMAIN drawn : y[1] = i}}

\* Every device has pins, so its switches tell which devices a server has.
LEMMA MacsAre ==
  ASSUME NEW list \in Seq(Entry), NEW i \in DOMAIN list
  PROVE  Macs([x \in Positions(list) |-> Props(list, x)], i) = Range(list[i].devices)
<1> DEFINE drawn == [x \in Positions(list) |-> Props(list, x)]
           d == list[i].devices
<1>1. d \in Seq(Mac)
  <2>1. list[i] \in Entry
    OBVIOUS
  <2>2. QED
    BY <2>1 DEF Entry
<1>2. ASSUME NEW m \in Macs(drawn, i) PROVE m \in Range(d)
  <2>1. PICK x \in Positions(list) : x[1] = i /\ m = Props(list, x).mac
    BY DEF Macs
  <2>2. PICK a \in DOMAIN list : \E j \in DOMAIN list[a].devices :
                \E k \in DOMAIN PinsOf[list[a].devices[j]] : x = <<a, j, k>>
    BY PositionsAre
  <2>3. PICK j \in DOMAIN list[a].devices :
                \E k \in DOMAIN PinsOf[list[a].devices[j]] : x = <<a, j, k>>
    BY <2>2
  <2>4. a = i /\ x[2] = j
    BY <2>1, <2>3
  <2>5. m = d[j] /\ j \in DOMAIN d
    BY <2>1, <2>3, <2>4 DEF Props
  <2>6. QED
    BY <2>5 DEF Range
<1>3. ASSUME NEW m \in Range(d) PROVE m \in Macs(drawn, i)
  <2>1. PICK j \in DOMAIN d : d[j] = m
    BY DEF Range
  <2>2. m \in Mac
    BY <1>1, <2>1
  <2>3. 1 \in DOMAIN PinsOf[m]
    BY <2>2, Database
  <2> DEFINE x == <<i, j, 1>>
  <2>4. x \in Positions(list) /\ x[1] = i /\ x[2] = j
    BY <2>1, <2>3, PositionsAre
  <2>5. Props(list, x).mac = m
    BY <2>1, <2>4 DEF Props
  <2> HIDE DEF x
  <2>6. x \in DOMAIN drawn /\ drawn[x].mac = m
    BY <2>4, <2>5
  <2> HIDE DEF drawn
  <2>7. QED
    BY <2>4, <2>6 DEF Macs
<1>4. QED
  BY <1>2, <1>3

\* The same devices at a place, each list in the order of their names: the switch
\* at a position is that of the same pin.
LEMMA SamePlace ==
  ASSUME NEW old \in Seq(Entry), NEW new \in Seq(Entry),
         \A i \in DOMAIN old : Ordered(old[i].devices),
         \A i \in DOMAIN new : Ordered(new[i].devices),
         NEW x \in Positions(old) \cap Positions(new),
         Range(old[x[1]].devices) = Range(new[x[1]].devices)
  PROVE  Props(old, x).mac = Props(new, x).mac /\ Props(old, x).pin = Props(new, x).pin
<1>1. PICK i \in DOMAIN old : \E j \in DOMAIN old[i].devices :
              \E k \in DOMAIN PinsOf[old[i].devices[j]] : x = <<i, j, k>>
  BY PositionsAre
<1>2. PICK j \in DOMAIN old[i].devices :
              \E k \in DOMAIN PinsOf[old[i].devices[j]] : x = <<i, j, k>>
  BY <1>1
<1>3. x[1] = i /\ x[2] = j
  BY <1>2
<1>4. i \in DOMAIN new /\ j \in DOMAIN new[i].devices
  <2>1. PICK a \in DOMAIN new : \E b \in DOMAIN new[a].devices :
                \E k \in DOMAIN PinsOf[new[a].devices[b]] : x = <<a, b, k>>
    BY PositionsAre
  <2>2. PICK b \in DOMAIN new[a].devices :
                \E k \in DOMAIN PinsOf[new[a].devices[b]] : x = <<a, b, k>>
    BY <2>1
  <2>3. a = i /\ b = j
    BY <1>3, <2>2
  <2>4. QED
    BY <2>2, <2>3
<1>5. old[i].devices \in Seq(Mac) /\ new[i].devices \in Seq(Mac)
  <2>1. old[i] \in Entry /\ new[i] \in Entry
    BY <1>4
  <2>2. QED
    BY <2>1 DEF Entry
<1>6. old[i].devices[j] = new[i].devices[j]
  <2> DEFINE d == old[i].devices
             e == new[i].devices
  <2>1. d \in Seq(Mac) /\ e \in Seq(Mac) /\ Ordered(d) /\ Ordered(e) /\ Range(d) = Range(e)
    BY <1>3, <1>4, <1>5
  <2>2. j \in DOMAIN d \cap DOMAIN e
    BY <1>4
  <2> HIDE DEF d, e
  <2>3. d[j] = e[j]
    BY <2>1, <2>2, OneOrder
  <2>4. QED
    BY <2>3 DEF d, e
<1>7. QED
  BY <1>3, <1>6 DEF Props

\* As long as a place lists the same pins no switch moves, in whatever order the
\* pulses list the devices, with any servers, devices and pins (Server.tsx:5-15).
THEOREM PlacesStay == PageSpec => PlacesKept
<1> DEFINE Stays == \A x \in DOMAIN props \cap DOMAIN props' :
                      Listed(x[1])' = Listed(x[1]) =>
                        props'[x].mac = props[x].mac /\ props'[x].pin = props[x].pin
<1>1. ASSUME SwitchInv, [PageNext]_pageVars PROVE Stays \/ UNCHANGED pageVars
  <2>1. CASE UNCHANGED props
    BY <2>1
  <2>2. CASE Render
    <3> SUFFICES ASSUME NEW x \in DOMAIN props \cap DOMAIN props', Listed(x[1])' = Listed(x[1])
                 PROVE  props'[x].mac = props[x].mac /\ props'[x].pin = props[x].pin
      OBVIOUS
    <3>1. PICK old : OnPage(old)
      BY <1>1 DEF SwitchInv
    <3>2. PICK new : OnPage(new)'
      BY <1>1, <2>2, RenderStep
    <3>3. /\ old \in Seq(Entry) /\ \A i \in DOMAIN old : Ordered(old[i].devices)
          /\ props = [y \in Positions(old) |-> Props(old, y)]
      BY <3>1 DEF OnPage
    <3>4. /\ new \in Seq(Entry) /\ \A i \in DOMAIN new : Ordered(new[i].devices)
          /\ props' = [y \in Positions(new) |-> Props(new, y)]
      BY <3>2 DEF OnPage
    <3>5. x \in Positions(old) \cap Positions(new)
      BY <3>3, <3>4
    <3>6. x[1] \in DOMAIN old /\ x[1] \in DOMAIN new
      <4>1. ASSUME NEW l, x \in Positions(l) PROVE x[1] \in DOMAIN l
        <5>1. PICK i \in DOMAIN l : \E j \in DOMAIN l[i].devices :
                      \E k \in DOMAIN PinsOf[l[i].devices[j]] : x = <<i, j, k>>
          BY <4>1, PositionsAre
        <5>2. QED
          BY <5>1
      <4>2. QED
        BY <3>5, <4>1
    <3>7. Macs(props', x[1]) = Macs(props, x[1])
      <4>1. ASSUME NEW f
            PROVE  Macs(f, x[1]) = {q[1] : q \in {<<f[z].mac, f[z].pin>> :
                                             z \in {y \in DOMAIN f : y[1] = x[1]}}}
        <5> DEFINE Z == {y \in DOMAIN f : y[1] = x[1]}
        <5> HIDE DEF Z
        <5>1. {f[z].mac : z \in Z} = {q[1] : q \in {<<f[z].mac, f[z].pin>> : z \in Z}}
          <6> DEFINE Q == {<<f[z].mac, f[z].pin>> : z \in Z}
          <6>1. ASSUME NEW z \in Z PROVE f[z].mac \in {q[1] : q \in Q}
            <7>1. PICK q \in Q : q = <<f[z].mac, f[z].pin>>
              OBVIOUS
            <7>2. q[1] = f[z].mac
              BY <7>1
            <7> HIDE DEF Q
            <7>3. QED
              BY <7>2
          <6>2. ASSUME NEW q \in Q PROVE q[1] \in {f[z].mac : z \in Z}
            <7>1. PICK z \in Z : q = <<f[z].mac, f[z].pin>>
              OBVIOUS
            <7>2. q[1] = f[z].mac
              BY <7>1
            <7>3. QED
              BY <7>2
          <6> HIDE DEF Q
          <6>3. {f[z].mac : z \in Z} = {q[1] : q \in Q}
            BY <6>1, <6>2
          <6>4. QED
            BY <6>3 DEF Q
        <5>2. QED
          BY <5>1 DEF Macs, Z
      <4>2. /\ Listed(x[1]) = {<<props[z].mac, props[z].pin>> :
                                 z \in {y \in DOMAIN props : y[1] = x[1]}}
            /\ Listed(x[1])' = {<<props'[z].mac, props'[z].pin>> :
                                 z \in {y \in DOMAIN props' : y[1] = x[1]}}
        BY DEF Listed
      <4>3. QED
        BY <4>1, <4>2
    <3>8. Macs(props, x[1]) = Range(old[x[1]].devices) /\ Macs(props', x[1]) = Range(new[x[1]].devices)
      BY <3>3, <3>4, <3>6, MacsAre
    <3>9. Props(old, x).mac = Props(new, x).mac /\ Props(old, x).pin = Props(new, x).pin
      BY <3>3, <3>4, <3>5, <3>7, <3>8, SamePlace
    <3>10. props[x] = Props(old, x) /\ props'[x] = Props(new, x)
      BY <3>3, <3>4, <3>5
    <3>11. QED
      BY <3>9, <3>10
  <2>3. UNCHANGED props \/ Render
    BY <1>1 DEF PageNext, PulseArrives, GoesOffline, Click, pageVars
  <2>4. QED
    BY <2>1, <2>2, <2>3
<1>2. QED
  BY <1>1, SwitchInvariant, PTL DEF PageSpec, PlacesKept
=============================================================================
