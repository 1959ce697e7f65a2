----------------------------- MODULE SysLinkProofs -----------------------------
(***************************************************************************)
(* The client holds one live socket, a call resolves with the output of    *)
(* its own script, and none times out without a reason, for any number of  *)
(* calls, scripts and disturbances, and queues of any length; and what a   *)
(* pulse or a command tells of any temperature is what the script told.    *)
(***************************************************************************)
EXTENDS MCSysLink, TLAPS, FiniteSetTheorems

LEMMA Bounds == Faults \in Nat /\ None \notin Call
  BY SysLinkAssumption

-----------------------------------------------------------------------------
(***************************************************************************)
(* Queues                                                                  *)
(***************************************************************************)
Elements(q) == {q[i] : i \in DOMAIN q}

Distinct(q) == \A i, j \in DOMAIN q : q[i] = q[j] => i = j

\* What a queue holds when something is put into it.
LEMMA Appended ==
  ASSUME NEW S, NEW q \in Seq(S), NEW x \in S
  PROVE  /\ Append(q, x) \in Seq(S)
         /\ Elements(Append(q, x)) = Elements(q) \cup {x}
         /\ Distinct(q) /\ x \notin Elements(q) => Distinct(Append(q, x))
<1>1. /\ Append(q, x) \in Seq(S) /\ Len(Append(q, x)) = Len(q) + 1
      /\ \A i \in 1 .. Len(q) : Append(q, x)[i] = q[i]
      /\ Append(q, x)[Len(q) + 1] = x
      /\ DOMAIN q = 1 .. Len(q) /\ DOMAIN Append(q, x) = 1 .. Len(q) + 1 /\ Len(q) \in Nat
  OBVIOUS
<1> DEFINE a == Append(q, x)
<1> HIDE DEF a
<1>2. Elements(a) = Elements(q) \cup {x}
  BY <1>1 DEF Elements, a
<1>3. Distinct(q) /\ x \notin Elements(q) => Distinct(a)
  BY <1>1 DEF Elements, Distinct, a
<1>4. QED
  BY <1>1, <1>2, <1>3 DEF a

\* What is left of a queue when the first n are dropped.
LEMMA Dropped ==
  ASSUME NEW S, NEW q \in Seq(S), NEW n \in 0 .. Len(q)
  PROVE  /\ SubSeq(q, n + 1, Len(q)) \in Seq(S)
         /\ Elements(SubSeq(q, n + 1, Len(q))) \subseteq Elements(q)
         /\ Distinct(q) => Distinct(SubSeq(q, n + 1, Len(q)))
<1> DEFINE r == SubSeq(q, n + 1, Len(q))
<1>1. Len(q) \in Nat /\ DOMAIN q = 1 .. Len(q)
  OBVIOUS
<1>2. /\ r \in Seq(S) /\ DOMAIN r = 1 .. Len(q) - n
      /\ \A i \in 1 .. Len(q) - n : r[i] = q[i + n]
  BY <1>1
<1> HIDE DEF r
<1>3. \A i \in DOMAIN r : i + n \in DOMAIN q
  BY <1>1, <1>2
<1>4. Elements(r) \subseteq Elements(q)
  BY <1>2, <1>3 DEF Elements
<1>5. Distinct(q) => Distinct(r)
  <2> SUFFICES ASSUME Distinct(q), NEW i \in DOMAIN r, NEW j \in DOMAIN r, r[i] = r[j] PROVE i = j
    BY DEF Distinct
  <2>1. i + n = j + n
    BY <1>2, <1>3 DEF Distinct
  <2>2. QED
    BY <1>1, <1>2, <2>1
<1>6. QED
  BY <1>2, <1>4, <1>5 DEF r

\* The first element and the rest.
LEMMA Taken ==
  ASSUME NEW S, NEW q \in Seq(S), q # <<>>
  PROVE  /\ Tail(q) \in Seq(S) /\ Head(q) \in S
         /\ Elements(q) = {Head(q)} \cup Elements(Tail(q))
         /\ Distinct(q) => Distinct(Tail(q)) /\ Head(q) \notin Elements(Tail(q))
<1>1. /\ Tail(q) \in Seq(S) /\ Head(q) \in S /\ Head(q) = q[1]
      /\ Len(q) \in Nat /\ Len(q) >= 1 /\ Len(Tail(q)) = Len(q) - 1
      /\ DOMAIN q = 1 .. Len(q) /\ DOMAIN Tail(q) = 1 .. Len(q) - 1
      /\ \A i \in 1 .. Len(q) - 1 : Tail(q)[i] = q[i + 1]
  OBVIOUS
<1> DEFINE t == Tail(q)
<1>2. \A i \in DOMAIN q : q[i] = q[1] \/ \E j \in DOMAIN t : q[i] = t[j]
  <2> SUFFICES ASSUME NEW i \in DOMAIN q, i # 1 PROVE \E j \in DOMAIN t : q[i] = t[j]
    OBVIOUS
  <2>1. i - 1 \in 1 .. Len(q) - 1 /\ t[i - 1] = q[i]
    BY <1>1
  <2>2. QED
    BY <1>1, <2>1
<1> HIDE DEF t
<1>3. Elements(q) = {Head(q)} \cup Elements(t)
  BY <1>1, <1>2 DEF Elements, t
<1>4. ASSUME Distinct(q) PROVE Distinct(t) /\ Head(q) \notin Elements(t)
  BY <1>1, <1>4 DEF Elements, Distinct, t
<1>5. QED
  BY <1>1, <1>3, <1>4 DEF t

-----------------------------------------------------------------------------
(***************************************************************************)
(* The sockets of the client                                               *)
(***************************************************************************)
Opened == {c \in Conn : client[c] # "none"}

\* The first n connections were opened, all but the last are closed, and each
\* new one was paid for, unless the last is not cut.
Line(n) ==
  /\ Opened = 1 .. n
  /\ \A c \in Conn : c < n => client[c] = "closed"
  /\ ~terminated => n + faults <= Faults + (IF n \in Conn \ cut THEN 1 ELSE 0)
  /\ loop = "opening" <=> (n \in Conn /\ client[n] = "opening")

Dialing ==
  /\ \E n \in 0 .. Faults + 1 : Line(n)
  /\ cut \subseteq Opened
  /\ \A c \in Conn : client[c] = "closed" => c \in cut
  /\ \A c \in Conn : client[c] \in {"open", "closing"} => wsc = c
  /\ wsc # NoConn => client[wsc] \in {"open", "closing", "closed"}

LEMMA OnlyTheLastLives ==
  ASSUME NEW n \in 0 .. Faults + 1, Line(n), NEW c \in Conn, client[c] \notin {"none", "closed"}
  PROVE  c = n
<1>1. c \in 1 .. n
  BY DEF Line, Opened
<1>2. ~(c < n)
  BY DEF Line
<1>3. QED
  BY <1>1, <1>2, Bounds

\* A new connection is the next one, and there is room for it.
LEMMA NextIsNext ==
  ASSUME NEW n \in 0 .. Faults + 1, Line(n) PROVE NextConn = n + 1
<1>1. n \in Nat
  BY Bounds
<1>2. Cardinality(1 .. n) = n
  BY <1>1, FS_Interval
<1>3. QED
  BY <1>2 DEF NextConn, Line, Opened

LEMMA DialingNext == ASSUME Types, Dialing, LoopChecks, ~terminated PROVE Dialing'
<1>1. PICK n \in 0 .. Faults + 1 : Line(n)
  BY DEF Dialing
<1>2. NextConn = n + 1
  BY <1>1, NextIsNext
<1>3. /\ client' = [client EXCEPT ![n + 1] = "opening"] /\ loop' = "opening" /\ NeedsSocket
      /\ loop = "check" /\ UNCHANGED <<cut, wsc, terminated, faults>>
  BY <1>2 DEF LoopChecks, intVars
<1>4. \A c \in Conn : client[c] \in {"none", "closed"}
  <2> SUFFICES ASSUME NEW c \in Conn, client[c] \notin {"none", "closed"} PROVE FALSE
    OBVIOUS
  <2>1. c = n
    BY <1>1, OnlyTheLastLives
  <2>2. client[c] # "opening"
    BY <1>1, <1>3, <2>1 DEF Line
  <2>3. client[c] \in {"open", "closing"}
    BY <2>2 DEF Types
  <2>4. wsc = c /\ wsc # NoConn
    BY <2>3, Bounds DEF Dialing, Conn, NoConn
  <2>5. QED
    BY <1>3, <2>3, <2>4 DEF NeedsSocket
<1>5. n \notin Conn \ cut
  <2> SUFFICES ASSUME n \in Conn PROVE n \in cut
    OBVIOUS
  <2>1. n \in Opened
    BY <1>1, Bounds DEF Line, Conn
  <2>2. QED
    BY <1>4, <2>1 DEF Opened, Dialing
<1>6. n + faults <= Faults /\ n + 1 \in Conn /\ n + 1 \in 0 .. Faults + 1
  BY <1>1, <1>5, Bounds DEF Line, Types, Conn
<1>7. \A c \in Conn : client'[c] = IF c = n + 1 THEN "opening" ELSE client[c]
  BY <1>3 DEF Types
<1>8. n + 1 \notin cut
  BY <1>1, Bounds DEF Dialing, Line
<1>9. Opened' = 1 .. n + 1
  <2>1. Opened' = Opened \cup {n + 1}
    BY <1>6, <1>7 DEF Opened
  <2>2. QED
    BY <1>1, <1>6, <2>1 DEF Line
<1>10. Line(n + 1)'
  <2>1. \A c \in Conn : c < n + 1 => client'[c] = "closed"
    <3> SUFFICES ASSUME NEW c \in Conn, c < n + 1 PROVE client'[c] = "closed"
      OBVIOUS
    <3>1. c \in Opened /\ c # n + 1
      BY <1>1, Bounds DEF Line, Conn
    <3>2. QED
      BY <1>4, <1>7, <3>1 DEF Opened
  <2>2. n + 1 + faults <= Faults + 1
    BY <1>6, Bounds DEF Types
  <2>3. QED
    BY <1>3, <1>6, <1>7, <1>8, <1>9, <2>1, <2>2 DEF Line
<1>11. cut' \subseteq Opened'
  BY <1>3, <1>6, <1>7 DEF Dialing, Opened
<1>12. /\ \A c \in Conn : client'[c] = "closed" => c \in cut'
       /\ \A c \in Conn : client'[c] \in {"open", "closing"} => wsc' = c
  BY <1>3, <1>7 DEF Dialing
<1>13. wsc' # NoConn => client'[wsc'] \in {"open", "closing", "closed"}
  <2> SUFFICES ASSUME wsc # NoConn PROVE client'[wsc] \in {"open", "closing", "closed"}
    BY <1>3
  <2>1. wsc \in Conn /\ client[wsc] \in {"open", "closing", "closed"}
    BY DEF Types, Dialing
  <2>2. wsc \in Opened
    BY <2>1 DEF Opened
  <2>3. wsc # n + 1
    BY <1>1, <2>2, Bounds DEF Line
  <2>4. QED
    BY <1>7, <2>1, <2>3
<1>14. QED
  BY <1>3, <1>6, <1>10, <1>11, <1>12, <1>13 DEF Dialing

\* Nothing but connections that are cut, and that is paid for.
LEMMA DialingKept ==
  ASSUME Types, Dialing, UNCHANGED <<client, wsc, loop, terminated>>,
         cut \subseteq cut', cut' \subseteq Opened,
         (cut' = cut /\ faults' = faults) \/ faults' = faults - 1
  PROVE  Dialing'
<1>1. PICK n \in 0 .. Faults + 1 : Line(n)
  BY DEF Dialing
<1>2. Opened' = Opened
  BY DEF Opened
<1>3. ~terminated => n + faults' <= Faults + (IF n \in Conn \ cut' THEN 1 ELSE 0)
  BY <1>1, Bounds DEF Types, Line
<1>4. Line(n)'
  BY <1>1, <1>2, <1>3 DEF Line
<1>5. QED
  BY <1>2, <1>4 DEF Dialing

\* The connection that was being opened is there, or the client hangs up.
LEMMA DialingOpens == ASSUME Types, Dialing, NEW c \in Conn, Opens(c) PROVE Dialing'
<1>1. PICK n \in 0 .. Faults + 1 : Line(n)
  BY DEF Dialing
<1>2. c = n
  BY <1>1, OnlyTheLastLives DEF Opens
<1>3. \A d \in Conn \ {c} : client[d] \in {"none", "closed"}
  BY <1>1, <1>2, OnlyTheLastLives
<1>4. UNCHANGED <<terminated, faults>> /\ client[c] = "opening"
  BY DEF Opens
<1>5. wsc # c
  BY <1>4, Bounds DEF Dialing, Conn, NoConn
<1>6. CASE GivesUp
  <2>1. /\ client' = [client EXCEPT ![c] = "closed"] /\ cut' = cut \cup {c}
        /\ loop' = "done" /\ wsc' = wsc /\ terminated
    BY <1>6 DEF Opens, GivesUp
  <2>2. client'[c] = "closed" /\ \A d \in Conn \ {c} : client'[d] = client[d]
    BY <2>1 DEF Types
  <2>3. Opened' = Opened
    BY <1>4, <2>2 DEF Opened
  <2>4. Line(n)'
    BY <1>1, <1>2, <1>4, <2>1, <2>2, <2>3 DEF Line
  <2>5. wsc # NoConn => wsc \in Conn \ {c}
    BY <1>5 DEF Types
  <2>6. QED
    BY <1>3, <1>4, <2>1, <2>2, <2>3, <2>4, <2>5 DEF Dialing, Opened
<1>7. CASE ~GivesUp
  <2>1. /\ client' = [client EXCEPT ![c] = "open"] /\ cut' = cut
        /\ loop' = "check" /\ wsc' = c
    BY <1>7 DEF Opens
  <2>2. client'[c] = "open" /\ \A d \in Conn \ {c} : client'[d] = client[d]
    BY <2>1 DEF Types
  <2>3. Opened' = Opened
    BY <1>4, <2>2 DEF Opened
  <2>4. Line(n)'
    BY <1>1, <1>2, <1>4, <2>1, <2>2, <2>3 DEF Line
  <2>5. QED
    BY <1>3, <1>4, <2>1, <2>2, <2>3, <2>4 DEF Dialing
<1>8. QED
  BY <1>6, <1>7

LEMMA DialingFails == ASSUME Types, Dialing, NEW c \in Conn, OpenFails(c) PROVE Dialing'
<1>1. PICK n \in 0 .. Faults + 1 : Line(n)
  BY DEF Dialing
<1>2. /\ client[c] = "opening" /\ client' = [client EXCEPT ![c] = "closed"]
      /\ cut' = cut \cup {c} /\ loop' = "check" /\ UNCHANGED <<wsc, terminated>>
      /\ (c \in cut /\ faults' = faults) \/ faults' = faults - 1
  BY DEF OpenFails, Fault, AfterFailure
<1>3. c = n
  BY <1>1, <1>2, OnlyTheLastLives
<1>4. client'[c] = "closed" /\ \A d \in Conn \ {c} : client'[d] = client[d]
  BY <1>2 DEF Types
<1>5. Opened' = Opened
  BY <1>2, <1>4 DEF Opened
<1>6. ~terminated => n + faults' <= Faults
  BY <1>1, <1>2, <1>3, Bounds DEF Types, Line
<1>7. Line(n)'
  BY <1>1, <1>2, <1>3, <1>4, <1>5, <1>6, Bounds DEF Line
<1>8. wsc # NoConn => wsc \in Conn \ {c}
  BY <1>2 DEF Types, Dialing
<1>9. QED
  BY <1>2, <1>4, <1>5, <1>7, <1>8 DEF Dialing, Opened

LEMMA DialingSees == ASSUME Types, Dialing, NEW c \in Conn, ClientSees(c) PROVE Dialing'
<1>1. PICK n \in 0 .. Faults + 1 : Line(n)
  BY DEF Dialing
<1>2. PICK r \in {"closing", "closed"} :
        /\ c \in cut /\ client[c] \in {"open", "closing"}
        /\ client' = [client EXCEPT ![c] = r]
        /\ UNCHANGED <<cut, wsc, loop, terminated, faults>>
  BY DEF ClientSees
<1>3. c = n /\ wsc = c
  BY <1>1, <1>2, OnlyTheLastLives DEF Dialing
<1>4. client'[c] = r /\ \A d \in Conn \ {c} : client'[d] = client[d]
  BY <1>2 DEF Types
<1>5. Opened' = Opened
  BY <1>2, <1>4 DEF Opened
<1>6. Line(n)'
  BY <1>1, <1>2, <1>3, <1>4, <1>5 DEF Line
<1>7. QED
  BY <1>2, <1>3, <1>4, <1>5, <1>6 DEF Dialing

LEMMA DialingEnds == ASSUME Types, Dialing, Sigterm PROVE Dialing'
<1>1. PICK n \in 0 .. Faults + 1 : Line(n)
  BY DEF Dialing
<1>2. terminated' /\ UNCHANGED <<wsc, loop, faults>>
  BY DEF Sigterm
<1>3. CASE wsc = NoConn
  <2>1. UNCHANGED <<client, cut>>
    BY <1>3 DEF Sigterm
  <2>2. Opened' = Opened /\ Line(n)'
    BY <1>1, <1>2, <2>1 DEF Line, Opened
  <2>3. QED
    BY <1>2, <2>1, <2>2 DEF Dialing
<1>4. CASE wsc # NoConn
  <2>1. /\ client' = [client EXCEPT ![wsc] = "closed"] /\ cut' = cut \cup {wsc}
        /\ wsc \in Conn /\ client[wsc] \in {"open", "closing", "closed"}
    BY <1>4 DEF Sigterm, Dialing, Types
  <2>2. client'[wsc] = "closed" /\ \A d \in Conn \ {wsc} : client'[d] = client[d]
    BY <2>1 DEF Types
  <2>3. Opened' = Opened
    BY <2>1, <2>2 DEF Opened
  <2>4. Line(n)'
    BY <1>1, <1>2, <2>1, <2>2, <2>3 DEF Line
  <2>5. QED
    BY <1>2, <2>1, <2>2, <2>3, <2>4 DEF Dialing, Opened
<1>5. QED
  BY <1>3, <1>4

LEMMA DialingRestarts == ASSUME Types, Dialing, OsRestarts PROVE Dialing'
<1>1. PICK n \in 0 .. Faults + 1 : Line(n)
  BY DEF Dialing
<1>2. /\ \A c \in Conn : client'[c] = IF client[c] = "none" THEN "none" ELSE "closed"
      /\ wsc' = NoConn /\ loop' = "check" /\ terminated' = terminated
      /\ cut' = cut \cup Opened /\ faults' = faults - 1
  BY DEF OsRestarts, Fault, Opened
<1>3. Opened' = Opened
  BY <1>2 DEF Opened
<1>4. cut' = Opened
  BY <1>2 DEF Dialing
<1>5. ~terminated => n + faults' <= Faults + (IF n \in Conn \ cut' THEN 1 ELSE 0)
  BY <1>1, <1>2, Bounds DEF Types, Line
<1>6. \A c \in Conn : c < n => client'[c] = "closed"
  BY <1>1, <1>2 DEF Line
<1>7. \A c \in Conn : client'[c] \in {"none", "closed"}
  BY <1>2
<1>8. Line(n)'
  BY <1>1, <1>2, <1>3, <1>5, <1>6, <1>7 DEF Line
<1>9. QED
  BY <1>2, <1>3, <1>4, <1>7, <1>8 DEF Dialing, Opened

LEMMA DialingStep == ASSUME Types, Dialing, [Next]_vars PROVE Dialing'
<1>1. CASE LoopChecks
  <2>1. CASE ~terminated
    BY <1>1, <2>1, DialingNext
  <2>2. CASE terminated
    <3>1. PICK n \in 0 .. Faults + 1 : Line(n)
      BY DEF Dialing
    <3>2. /\ UNCHANGED <<client, cut, wsc, terminated, faults>>
          /\ loop' = "done" /\ loop = "check"
      BY <1>1, <2>2 DEF LoopChecks
    <3>3. Opened' = Opened /\ Line(n)'
      BY <3>1, <3>2 DEF Line, Opened
    <3>4. QED
      BY <3>2, <3>3 DEF Dialing
  <2>3. QED
    BY <2>1, <2>2
<1>2. CASE IntServerRestarts
  <2>1. cut' = cut \cup Opened
    BY <1>2 DEF IntServerRestarts, Opened
  <2>2. QED
    BY <1>2, <2>1, DialingKept DEF IntServerRestarts, osVars, Fault, Dialing
<1>3. ASSUME NEW c \in Conn, ServerAccepts(c) \/ ServerSees(c) \/ ServerReceives(c) PROVE Dialing'
  BY <1>3, DialingKept DEF ServerAccepts, ServerSees, ServerReceives, osVars, Dialing
<1>4. ASSUME NEW c \in Conn, OsReceives(c) PROVE Dialing'
  BY <1>4, DialingKept DEF OsReceives, Dialing
<1>5. ASSUME NEW c \in Conn, Breaks(c) PROVE Dialing'
  BY <1>5, DialingKept DEF Breaks, Fault, osVars, Dialing, Opened
<1>6. ASSUME NEW k \in Call, NEW s \in Script, StartCall(k, s) PROVE Dialing'
  BY <1>6, DialingKept DEF StartCall, osVars, Dialing
<1>7. ASSUME NEW e \in execs, ExecEnds(e) PROVE Dialing'
  BY <1>7, DialingKept DEF ExecEnds, Dialing
<1>8. ASSUME NEW k \in Call, Timeout(k) PROVE Dialing'
  BY <1>8, DialingKept DEF Timeout, Fault, osVars, Dialing
<1>9. CASE UNCHANGED vars
  BY <1>9, DialingKept DEF vars, osVars, Dialing
<1>10. QED
  BY <1>1, <1>2, <1>3, <1>4, <1>5, <1>6, <1>7, <1>8, <1>9,
     DialingOpens, DialingFails, DialingSees, DialingEnds, DialingRestarts DEF Next

\* The client never holds two live sockets.
LEMMA OneLives ==
  ASSUME Dialing, NEW c \in Conn, NEW d \in Conn,
         client[c] \notin {"none", "closed"}, client[d] \notin {"none", "closed"}
  PROVE  c = d
<1>1. PICK n \in 0 .. Faults + 1 : Line(n)
  BY DEF Dialing
<1>2. QED
  BY <1>1, OnlyTheLastLives

-----------------------------------------------------------------------------
(***************************************************************************)
(* Types                                                                   *)
(***************************************************************************)
LEMMA CallType ==
  ASSUME Types, NEW k \in Call
  PROVE  /\ call[k].is \in {"new", "waiting", "resolved", "rejected", "timedout", "lost"}
         /\ call[k].script \in Script \cup {None}
         /\ call[k].via \in Conn \cup {NoConn} /\ call[k].got \in Call \cup {None}
  BY DEF Types

\* What a connection's queue becomes.
LEMMA SentIsTyped ==
  ASSUME NEW queue \in Queues, NEW c \in Conn, NEW k \in Call
  PROVE  Sent(queue, c, k) \in Queues
<1>1. queue[c] \in Seq(Call)
  BY DEF Queues
<1>2. Append(queue[c], k) \in Seq(Call)
  BY <1>1, Appended
<1>3. QED
  BY <1>2 DEF Sent, Queues

Rest(queue, c) == [queue EXCEPT ![c] = Tail(@)]

LEMMA TakenIsTyped ==
  ASSUME NEW queue \in Queues, NEW c \in Conn, queue[c] # <<>>
  PROVE  Rest(queue, c) \in Queues /\ Head(queue[c]) \in Call
<1>1. queue[c] \in Seq(Call)
  BY DEF Queues
<1>2. PICK t : t = Tail(queue[c])
  OBVIOUS
<1>3. t \in Seq(Call) /\ Head(queue[c]) \in Call
  BY <1>1, <1>2, Taken
<1>4. Rest(queue, c) = [queue EXCEPT ![c] = t]
  BY <1>2 DEF Rest
<1>5. QED
  BY <1>3, <1>4 DEF Queues

LEMMA TypesInit == Init => Types
<1> SUFFICES ASSUME Init PROVE Types
  OBVIOUS
<1>1. down \in Queues /\ up \in Queues
  BY DEF Init, Queues
<1>2. call \in [Call -> [is : {"new", "waiting", "resolved", "rejected", "timedout", "lost"},
                        script : Script \cup {None}, via : Conn \cup {NoConn},
                        got : Call \cup {None}]]
  BY DEF Init
<1>3. /\ client \in [Conn -> {"none", "opening", "open", "closing", "closed"}]
      /\ server \in [Conn -> {"none", "on", "closed", "dropped"}]
  BY DEF Init
<1>4. /\ wsc = NoConn /\ sysClient = NoConn /\ handler = None /\ terminated = FALSE
      /\ cut = {} /\ execs = {} /\ excused = {} /\ loop = "check" /\ faults = Faults
  BY DEF Init
<1>5. faults \in 0 .. Faults
  BY <1>4, Bounds
<1>6. QED
  BY <1>1, <1>2, <1>3, <1>4, <1>5 DEF Types

LEMMA TypesStep == ASSUME Types, Dialing, [Next]_vars PROVE Types'
<1> USE Bounds
<1> DEFINE Is == {"new", "waiting", "resolved", "rejected", "timedout", "lost"}
           Calls == [Call -> [is : Is, script : Script \cup {None}, via : Conn \cup {NoConn},
                              got : Call \cup {None}]]
<1>0. ASSUME Fault PROVE faults' \in 0 .. Faults
  BY <1>0 DEF Fault, Types
<1>1. CASE LoopChecks
  BY <1>1 DEF LoopChecks, Types, intVars
<1>2. CASE Sigterm
  <2>1. client' \in [Conn -> {"none", "opening", "open", "closing", "closed"}] /\ cut' \subseteq Conn
    BY <1>2 DEF Sigterm, Types
  <2>2. QED
    BY <1>2, <2>1 DEF Sigterm, Types, intVars, Waiting
<1>3. CASE OsRestarts
  BY <1>0, <1>3 DEF OsRestarts, Types, intVars, Waiting
<1>4. CASE IntServerRestarts
  <2>1. server' \in [Conn -> {"none", "on", "closed", "dropped"}]
    BY <1>4 DEF IntServerRestarts, Types
  <2>2. call' \in Calls
    BY <1>4 DEF IntServerRestarts, Types
  <2>3. QED
    BY <1>0, <1>4, <2>1, <2>2 DEF IntServerRestarts, Types, osVars
<1>5. ASSUME NEW c \in Conn, Opens(c) PROVE Types'
  <2>1. down' \in Queues
    <3>1. CASE GivesUp
      BY <1>5, <3>1 DEF Opens, Types
    <3>2. CASE ~GivesUp
      <4>1. PICK n \in 0 .. Len(down[c]) :
              down' = [down EXCEPT ![c] = SubSeq(@, n + 1, Len(@))]
        BY <1>5, <3>2 DEF Opens
      <4>2. down[c] \in Seq(Call)
        BY DEF Types, Queues
      <4>3. SubSeq(down[c], n + 1, Len(down[c])) \in Seq(Call)
        BY <4>2, Dropped
      <4>4. QED
        BY <4>1, <4>3 DEF Types, Queues
    <3>3. QED
      BY <3>1, <3>2
  <2>2. /\ client' \in [Conn -> {"none", "opening", "open", "closing", "closed"}]
        /\ cut' \subseteq Conn /\ wsc' \in Conn \cup {NoConn}
        /\ loop' \in {"check", "opening", "done"}
    BY <1>5 DEF Opens, Types
  <2>3. QED
    BY <1>5, <2>1, <2>2 DEF Opens, Types, intVars
<1>6. ASSUME NEW c \in Conn, OpenFails(c) PROVE Types'
  <2>1. faults' \in 0 .. Faults
    BY <1>0, <1>6 DEF OpenFails, Types
  <2>2. QED
    BY <1>6, <2>1 DEF OpenFails, Types, intVars, AfterFailure
<1>7. ASSUME NEW c \in Conn, ClientSees(c) PROVE Types'
  BY <1>7 DEF ClientSees, Types, intVars
<1>8. ASSUME NEW c \in Conn, ServerAccepts(c) PROVE Types'
  BY <1>8 DEF ServerAccepts, Types, osVars, Accepted
<1>9. ASSUME NEW c \in Conn, ServerSees(c) PROVE Types'
  <2>1. call' \in Calls /\ handler' \in Call \cup {None}
    BY <1>9 DEF ServerSees, Types
  <2>2. QED
    BY <1>9, <2>1 DEF ServerSees, Types, osVars
<1>10. ASSUME NEW k \in Call, NEW s \in Script, StartCall(k, s) PROVE Types'
  <2>1. call' \in Calls
    BY <1>10 DEF StartCall, Types
  <2>2. down' \in Queues
    BY <1>10, SentIsTyped DEF StartCall, Types
  <2>3. handler' \in Call \cup {None} /\ excused' \subseteq Call
    BY <1>10 DEF StartCall, Types, Subscribed
  <2>4. QED
    BY <1>10, <2>1, <2>2, <2>3 DEF StartCall, Types, osVars
<1>11. ASSUME NEW c \in Conn, OsReceives(c) PROVE Types'
  <2>1. down' \in Queues /\ Head(down[c]) \in Call
    BY <1>11, TakenIsTyped DEF OsReceives, Types, Rest
  <2>2. wsc = c
    BY <1>11 DEF OsReceives, Dialing
  <2>3. QED
    BY <1>11, <2>1, <2>2 DEF OsReceives, Types, intVars
<1>12. ASSUME NEW e \in execs, ExecEnds(e) PROVE Types'
  <2>1. e[1] \in Call /\ e[2] \in Conn
    BY DEF Types
  <2>2. up' \in Queues
    BY <1>12, <2>1, SentIsTyped DEF ExecEnds, Types
  <2>3. QED
    BY <1>12, <2>2 DEF ExecEnds, Types, intVars
<1>13. ASSUME NEW c \in Conn, ServerReceives(c) PROVE Types'
  <2>1. up' \in Queues /\ Head(up[c]) \in Call
    BY <1>13, TakenIsTyped DEF ServerReceives, Types, Rest
  <2>2. call' \in Calls /\ handler' \in Call \cup {None}
    BY <1>13, <2>1 DEF ServerReceives, Types
  <2>3. QED
    BY <1>13, <2>1, <2>2 DEF ServerReceives, Types, osVars
<1>14. ASSUME NEW k \in Call, Timeout(k) PROVE Types'
  <2>1. call' \in Calls
    BY <1>14 DEF Timeout, Types
  <2>2. faults' \in 0 .. Faults /\ excused' \subseteq Call
    BY <1>0, <1>14 DEF Timeout, Types
  <2>3. handler' \in Call \cup {None}
    BY <1>14 DEF Timeout, Types
  <2>4. QED
    BY <1>14, <2>1, <2>2, <2>3 DEF Timeout, Types, osVars
<1>15. ASSUME NEW c \in Conn, Breaks(c) PROVE Types'
  BY <1>0, <1>15 DEF Breaks, Types, osVars, intVars, Waiting
<1>16. CASE UNCHANGED vars
  BY <1>16 DEF vars, osVars, intVars, Types
<1>17. QED
  BY <1>1, <1>2, <1>3, <1>4, <1>5, <1>6, <1>7, <1>8, <1>9, <1>10, <1>11, <1>12, <1>13,
     <1>14, <1>15, <1>16 DEF Next

-----------------------------------------------------------------------------
(***************************************************************************)
(* Where the calls are                                                     *)
(***************************************************************************)
DownAt(k) == {c \in Conn : k \in Elements(down[c])}
UpAt(k)   == {c \in Conn : k \in Elements(up[c])}
ExecAt(k) == {c \in Conn : <<k, c>> \in execs}

\* The calls resolved with the output of call k's script.
Used(k) == {h \in Call : call[h].is = "resolved" /\ call[h].got = k}

Single(S) == \A p, q \in S : p = q

\* A request is under way, or its script runs, or its result is under way, or
\* was used: one of these at most, and once.
Alone(D, E, U, G) ==
  \/ Single(D) /\ E = {} /\ U = {} /\ G = {}
  \/ D = {} /\ Single(E) /\ U = {} /\ G = {}
  \/ D = {} /\ E = {} /\ Single(U) /\ G = {}
  \/ D = {} /\ E = {} /\ U = {} /\ Single(G)

Nowhere(k) == DownAt(k) = {} /\ ExecAt(k) = {} /\ UpAt(k) = {} /\ Used(k) = {}

Own(k) == /\ call[k].got \in Call /\ call[call[k].got].is # "new"
          /\ call[call[k].got].script = call[k].script

Tokens ==
  /\ \A c \in Conn : Distinct(down[c]) /\ Distinct(up[c])
  /\ \A k \in Call : Alone(DownAt(k), ExecAt(k), UpAt(k), Used(k))
  /\ \A k \in Call : call[k].is = "new" => Nowhere(k)
  /\ \A k \in Call : call[k].is = "resolved" => Own(k)

\* Whatever is lost, and whatever calls are given up.
LEMMA TokensLost ==
  ASSUME Types, Tokens, up' = up, execs' \subseteq execs,
         \A c \in Conn : Distinct(down'[c]) /\ Elements(down'[c]) \subseteq Elements(down[c]),
         \A k \in Call : \/ call'[k] = call[k]
                         \/ /\ call[k].is = "waiting" /\ call'[k].is \notin {"new", "resolved"}
                            /\ call'[k].script = call[k].script
  PROVE  Tokens'
<1>1. ASSUME NEW k \in Call
      PROVE  /\ DownAt(k)' \subseteq DownAt(k) /\ ExecAt(k)' \subseteq ExecAt(k)
             /\ UpAt(k)' = UpAt(k) /\ Used(k)' = Used(k)
  BY DEF DownAt, ExecAt, UpAt, Used
<1>2. ASSUME NEW k \in Call PROVE Alone(DownAt(k), ExecAt(k), UpAt(k), Used(k))'
  BY <1>1 DEF Tokens, Alone, Single
<1>3. ASSUME NEW k \in Call, call'[k].is = "new" PROVE Nowhere(k)'
  BY <1>1, <1>3 DEF Tokens, Nowhere
<1>4. ASSUME NEW k \in Call, call'[k].is = "resolved" PROVE Own(k)'
  <2>1. call'[k] = call[k] /\ Own(k)
    BY <1>4 DEF Tokens
  <2>2. QED
    BY <2>1 DEF Own
<1>5. QED
  BY <1>2, <1>3, <1>4 DEF Tokens

\* A queue into which a call may have been put.
LEMMA SentHolds ==
  ASSUME NEW queue \in Queues, NEW c \in Conn, NEW k \in Call,
         \A d \in Conn : Distinct(queue[d]), \A d \in Conn : k \notin Elements(queue[d])
  PROVE  /\ \A d \in Conn : Distinct(Sent(queue, c, k)[d])
         /\ \A d \in Conn \ {c} : Sent(queue, c, k)[d] = queue[d]
         /\ Elements(Sent(queue, c, k)[c])
              = Elements(queue[c]) \cup (IF c \in cut THEN {} ELSE {k})
<1>1. queue[c] \in Seq(Call)
  BY DEF Queues
<1>2. /\ Elements(Append(queue[c], k)) = Elements(queue[c]) \cup {k}
      /\ Distinct(Append(queue[c], k))
  BY <1>1, Appended
<1>3. CASE c \in cut
  BY <1>3 DEF Sent
<1>4. CASE c \notin cut
  <2>1. Sent(queue, c, k) = [queue EXCEPT ![c] = Append(queue[c], k)]
    BY <1>4 DEF Sent
  <2>2. /\ Sent(queue, c, k)[c] = Append(queue[c], k)
        /\ \A d \in Conn \ {c} : Sent(queue, c, k)[d] = queue[d]
    BY <2>1 DEF Queues
  <2>3. QED
    BY <1>2, <1>4, <2>2
<1>5. QED
  BY <1>3, <1>4

\* A new call is nowhere; now its request may be under way.
LEMMA TokensStart ==
  ASSUME Types, Tokens, NEW k \in Call, NEW s \in Script, StartCall(k, s) PROVE Tokens'
<1>1. /\ call[k].is = "new" /\ Nowhere(k) /\ UNCHANGED <<up, execs>>
  BY DEF StartCall, osVars, Tokens
<1>2. /\ call' \in [Call -> [is : {"new", "waiting", "resolved", "rejected", "timedout", "lost"},
                             script : Script \cup {None}, via : Conn \cup {NoConn},
                             got : Call \cup {None}]]
      /\ \A h \in Call \ {k} : call'[h] = call[h]
      /\ call'[k].is \in {"waiting", "rejected"}
  BY DEF StartCall, Types
<1>3. /\ \A c \in Conn : Distinct(down'[c])
      /\ \A c \in Conn : Elements(down'[c]) \subseteq Elements(down[c]) \cup {k}
      /\ \A c, d \in Conn : k \in Elements(down'[c]) /\ k \in Elements(down'[d]) => c = d
  <2>1. /\ \A c \in Conn : Distinct(down[c])
        /\ \A c \in Conn : k \notin Elements(down[c])
    BY <1>1 DEF Tokens, Nowhere, DownAt
  <2>2. CASE down' = down
    BY <2>1, <2>2
  <2>3. CASE sysClient # NoConn /\ down' = Sent(down, sysClient, k)
    <3>1. down \in Queues /\ sysClient \in Conn
      BY <2>3 DEF Types
    <3>2. /\ \A d \in Conn : Distinct(down'[d])
          /\ \A d \in Conn \ {sysClient} : down'[d] = down[d]
          /\ Elements(down'[sysClient]) \subseteq Elements(down[sysClient]) \cup {k}
      BY <2>1, <2>3, <3>1, SentHolds
    <3>3. QED
      BY <2>1, <3>1, <3>2
  <2>4. QED
    BY <2>2, <2>3 DEF StartCall
<1>4. ASSUME NEW h \in Call
      PROVE  /\ ExecAt(h)' = ExecAt(h) /\ UpAt(h)' = UpAt(h) /\ Used(h)' = Used(h)
             /\ h # k => DownAt(h)' \subseteq DownAt(h)
             /\ h = k => Single(DownAt(h)')
  BY <1>1, <1>2, <1>3 DEF ExecAt, UpAt, Used, DownAt, Single
<1>5. ASSUME NEW h \in Call PROVE Alone(DownAt(h), ExecAt(h), UpAt(h), Used(h))'
  <2>1. CASE h = k
    BY <1>1, <1>4, <2>1 DEF Nowhere, Alone
  <2>2. CASE h # k
    BY <1>4, <2>2 DEF Tokens, Alone, Single
  <2>3. QED
    BY <2>1, <2>2
<1>6. ASSUME NEW h \in Call, call'[h].is = "new" PROVE Nowhere(h)'
  <2>1. h # k /\ Nowhere(h)
    BY <1>2, <1>6 DEF Tokens
  <2>2. QED
    BY <1>4, <2>1 DEF Nowhere
<1>7. ASSUME NEW h \in Call, call'[h].is = "resolved" PROVE Own(h)'
  <2>1. call'[h] = call[h] /\ Own(h)
    BY <1>2, <1>7 DEF Tokens
  <2>2. call[h].got # k
    BY <1>1, <2>1 DEF Own
  <2>3. QED
    BY <1>2, <2>1, <2>2 DEF Own
<1>8. QED
  BY <1>1, <1>3, <1>5, <1>6, <1>7 DEF Tokens

\* What the first element of a queue is, and where it is not any more.
LEMMA HeadLeaves ==
  ASSUME NEW queue \in Queues, NEW c \in Conn, queue[c] # <<>>,
         \A d \in Conn : Distinct(queue[d])
  PROVE  /\ Head(queue[c]) \in Call /\ Head(queue[c]) \in Elements(queue[c])
         /\ \A d \in Conn : Distinct(Rest(queue, c)[d])
         /\ \A d \in Conn \ {c} : Rest(queue, c)[d] = queue[d]
         /\ Elements(Rest(queue, c)[c]) = Elements(queue[c]) \ {Head(queue[c])}
<1>1. queue[c] \in Seq(Call) /\ Distinct(queue[c])
  BY DEF Queues
<1>2. /\ Head(queue[c]) \in Call /\ Distinct(Tail(queue[c]))
      /\ Elements(queue[c]) = {Head(queue[c])} \cup Elements(Tail(queue[c]))
      /\ Head(queue[c]) \notin Elements(Tail(queue[c]))
  BY <1>1, Taken
<1>3. PICK rest : rest = Rest(queue, c)
  OBVIOUS
<1>4. rest[c] = Tail(queue[c]) /\ \A d \in Conn \ {c} : rest[d] = queue[d]
  BY <1>3 DEF Queues, Rest
<1>5. /\ \A d \in Conn : Distinct(rest[d])
      /\ Elements(rest[c]) = Elements(queue[c]) \ {Head(queue[c])}
  BY <1>2, <1>4
<1>6. QED
  BY <1>2, <1>3, <1>4, <1>5

\* A request is taken from its queue, and its script runs.
LEMMA TokensRun ==
  ASSUME Types, Dialing, Tokens, NEW c \in Conn, OsReceives(c) PROVE Tokens'
<1>1. PICK x : x = Head(down[c])
  OBVIOUS
<1>2. /\ down' = Rest(down, c) /\ down[c] # <<>>
      /\ execs' = execs \cup {<<x, c>>} /\ UNCHANGED <<call, up>>
  BY <1>1 DEF OsReceives, Dialing, intVars, Rest
<1>3. /\ x \in Call /\ x \in Elements(down[c])
      /\ \A d \in Conn : Distinct(down'[d])
      /\ \A d \in Conn \ {c} : down'[d] = down[d]
      /\ Elements(down'[c]) = Elements(down[c]) \ {x}
  <2>1. down \in Queues /\ \A d \in Conn : Distinct(down[d])
    BY DEF Types, Tokens
  <2>2. QED
    BY <1>1, <1>2, <2>1, HeadLeaves
<1>4. ASSUME NEW h \in Call
      PROVE  /\ UpAt(h)' = UpAt(h) /\ Used(h)' = Used(h)
             /\ DownAt(h)' = IF h = x THEN DownAt(h) \ {c} ELSE DownAt(h)
             /\ ExecAt(h)' = IF h = x THEN ExecAt(h) \cup {c} ELSE ExecAt(h)
  BY <1>2, <1>3 DEF ExecAt, UpAt, Used, DownAt
<1>5. c \in DownAt(x)
  BY <1>3 DEF DownAt
<1>6. ASSUME NEW h \in Call PROVE Alone(DownAt(h), ExecAt(h), UpAt(h), Used(h))'
  BY <1>4, <1>5 DEF Tokens, Alone, Single
<1>7. ASSUME NEW h \in Call, call'[h].is = "new" PROVE Nowhere(h)'
  <2>1. Nowhere(h) /\ h # x
    BY <1>2, <1>5, <1>7 DEF Tokens, Nowhere
  <2>2. QED
    BY <1>4, <2>1 DEF Nowhere
<1>8. ASSUME NEW h \in Call, call'[h].is = "resolved" PROVE Own(h)'
  BY <1>2, <1>8 DEF Tokens, Own
<1>9. QED
  BY <1>2, <1>3, <1>6, <1>7, <1>8 DEF Tokens

\* A script has run, and its result may be sent.
LEMMA TokensAnswer ==
  ASSUME Types, Tokens, NEW e \in execs, ExecEnds(e) PROVE Tokens'
<1>1. PICK x \in Call, c \in Conn : e = <<x, c>>
  BY DEF Types
<1>2. /\ execs' = execs \ {<<x, c>>} /\ UNCHANGED <<call, down>>
      /\ up' = up \/ up' = Sent(up, c, x)
  BY <1>1 DEF ExecEnds, intVars
<1>3. c \in ExecAt(x)
  BY <1>1 DEF ExecAt
<1>4. DownAt(x) = {} /\ UpAt(x) = {} /\ Used(x) = {} /\ Single(ExecAt(x))
  BY <1>3 DEF Tokens, Alone
<1>5. /\ \A d \in Conn : Distinct(up'[d])
      /\ \A d \in Conn \ {c} : up'[d] = up[d]
      /\ Elements(up'[c]) \subseteq Elements(up[c]) \cup {x}
      /\ Elements(up[c]) \subseteq Elements(up'[c])
  <2>1. /\ up \in Queues /\ \A d \in Conn : Distinct(up[d])
        /\ \A d \in Conn : x \notin Elements(up[d])
    BY <1>4 DEF Types, Tokens, UpAt
  <2>2. CASE up' = up
    BY <2>1, <2>2
  <2>3. CASE up' = Sent(up, c, x)
    BY <2>1, <2>3, SentHolds
  <2>4. QED
    BY <1>2, <2>2, <2>3
<1>6. ASSUME NEW h \in Call
      PROVE  /\ DownAt(h)' = DownAt(h) /\ Used(h)' = Used(h)
             /\ ExecAt(h)' = IF h = x THEN ExecAt(h) \ {c} ELSE ExecAt(h)
             /\ UpAt(h)' \subseteq IF h = x THEN UpAt(h) \cup {c} ELSE UpAt(h)
  BY <1>2, <1>5 DEF ExecAt, UpAt, Used, DownAt
<1>7. ASSUME NEW h \in Call PROVE Alone(DownAt(h), ExecAt(h), UpAt(h), Used(h))'
  <2>1. CASE h = x
    <3>1. ExecAt(h)' = {} /\ Single(UpAt(h)')
      BY <1>3, <1>4, <1>6, <2>1 DEF Single
    <3>2. QED
      BY <1>4, <1>6, <2>1, <3>1 DEF Alone
  <2>2. CASE h # x
    BY <1>6, <2>2 DEF Tokens, Alone, Single
  <2>3. QED
    BY <2>1, <2>2
<1>8. ASSUME NEW h \in Call, call'[h].is = "new" PROVE Nowhere(h)'
  <2>1. Nowhere(h) /\ h # x
    BY <1>2, <1>3, <1>8 DEF Tokens, Nowhere
  <2>2. QED
    BY <1>6, <2>1 DEF Nowhere
<1>9. ASSUME NEW h \in Call, call'[h].is = "resolved" PROVE Own(h)'
  BY <1>2, <1>9 DEF Tokens, Own
<1>10. QED
  BY <1>2, <1>5, <1>7, <1>8, <1>9 DEF Tokens

\* A result resolves the subscribed call, if it is of the same script, or none.
LEMMA TokensUsed ==
  ASSUME Types, Tokens, NEW c \in Conn, ServerReceives(c) PROVE Tokens'
<1>1. PICK x : x = Head(up[c])
  OBVIOUS
<1>2. /\ up' = Rest(up, c) /\ up[c] # <<>>
      /\ UNCHANGED <<down, execs>>
      /\ call' = [k \in Call |-> IF k \in Matches(x)
                                THEN [call[k] EXCEPT !.is = "resolved", !.got = x]
                                ELSE call[k]]
  BY <1>1 DEF ServerReceives, osVars, Rest
<1>3. /\ x \in Call /\ x \in Elements(up[c])
      /\ \A d \in Conn : Distinct(up'[d])
      /\ \A d \in Conn \ {c} : up'[d] = up[d]
      /\ Elements(up'[c]) = Elements(up[c]) \ {x}
  <2>1. up \in Queues /\ \A d \in Conn : Distinct(up[d])
    BY DEF Types, Tokens
  <2>2. up' = Rest(up, c) /\ up[c] # <<>>
    BY <1>2
  <2>3. QED
    BY <1>1, <2>1, <2>2, HeadLeaves
<1>4. c \in UpAt(x)
  BY <1>3 DEF UpAt
<1>5. /\ DownAt(x) = {} /\ ExecAt(x) = {} /\ Single(UpAt(x)) /\ Used(x) = {}
      /\ call[x].is # "new"
  BY <1>3, <1>4 DEF Tokens, Alone, Nowhere
<1>6. /\ Single(Matches(x)) /\ Matches(x) \subseteq Waiting
      /\ \A h \in Matches(x) : call[h].script = call[x].script
  BY DEF Matches, Single
<1>7. ASSUME NEW h \in Call
      PROVE  /\ call'[h].script = call[h].script
             /\ h \in Matches(x) => /\ call'[h].is = "resolved" /\ call'[h].got = x
                                     /\ call[h].is = "waiting"
             /\ h \notin Matches(x) => call'[h] = call[h]
             /\ call'[h].is = "new" <=> call[h].is = "new"
  <2>1. call[h] \in [is : {"new", "waiting", "resolved", "rejected", "timedout", "lost"},
                     script : Script \cup {None}, via : Conn \cup {NoConn},
                     got : Call \cup {None}]
    BY DEF Types
  <2>2. CASE h \in Matches(x)
    <3>1. call'[h] = [call[h] EXCEPT !.is = "resolved", !.got = x] /\ call[h].is = "waiting"
      BY <1>2, <1>6, <2>2 DEF Waiting
    <3>2. QED
      BY <2>1, <2>2, <3>1
  <2>3. CASE h \notin Matches(x)
    BY <1>2, <2>3
  <2>4. QED
    BY <2>2, <2>3
<1>8. ASSUME NEW h \in Call
      PROVE  /\ DownAt(h)' = DownAt(h) /\ ExecAt(h)' = ExecAt(h)
             /\ UpAt(h)' = IF h = x THEN UpAt(h) \ {c} ELSE UpAt(h)
  BY <1>2, <1>3 DEF ExecAt, UpAt, DownAt
<1>9. ASSUME NEW h \in Call PROVE Used(h)' = IF h = x THEN Matches(x) ELSE Used(h)
  <2>1. Matches(x) \subseteq Call
    BY <1>6 DEF Waiting
  <2>2. QED
    BY <1>5, <1>7, <2>1 DEF Used
<1>10. ASSUME NEW h \in Call PROVE Alone(DownAt(h), ExecAt(h), UpAt(h), Used(h))'
  <2>1. CASE h = x
    <3>1. UpAt(h)' = {}
      BY <1>4, <1>5, <1>8, <2>1 DEF Single
    <3>2. QED
      BY <1>5, <1>6, <1>8, <1>9, <2>1, <3>1 DEF Alone
  <2>2. CASE h # x
    BY <1>8, <1>9, <2>2 DEF Tokens
  <2>3. QED
    BY <2>1, <2>2
<1>11. ASSUME NEW h \in Call, call'[h].is = "new" PROVE Nowhere(h)'
  <2>1. Nowhere(h) /\ h # x
    BY <1>5, <1>7, <1>11 DEF Tokens
  <2>2. QED
    BY <1>8, <1>9, <2>1 DEF Nowhere
<1>12. ASSUME NEW h \in Call, call'[h].is = "resolved" PROVE Own(h)'
  <2>1. CASE h \in Matches(x)
    BY <1>3, <1>5, <1>6, <1>7, <2>1 DEF Own
  <2>2. CASE h \notin Matches(x)
    <3>1. call'[h] = call[h] /\ Own(h)
      BY <1>7, <1>12, <2>2 DEF Tokens
    <3>2. QED
      BY <1>7, <3>1 DEF Own
  <2>3. QED
    BY <2>1, <2>2
<1>13. QED
  BY <1>2, <1>3, <1>10, <1>11, <1>12 DEF Tokens

LEMMA TokensStep == ASSUME Types, Dialing, Tokens, [Next]_vars PROVE Tokens'
<1>1. \A c \in Conn : Distinct(down[c])
  BY DEF Tokens
<1>2. ASSUME UNCHANGED <<call, up, down, execs>> PROVE Tokens'
  BY <1>1, <1>2, TokensLost
<1>3. CASE LoopChecks \/ Sigterm
  BY <1>2, <1>3 DEF LoopChecks, Sigterm, intVars
<1>4. CASE OsRestarts
  BY <1>1, <1>4, TokensLost DEF OsRestarts, intVars
<1>5. CASE IntServerRestarts
  <2>1. /\ \A k \in Call : \/ call'[k] = call[k]
                           \/ k \in Waiting /\ call'[k] = [call[k] EXCEPT !.is = "lost"]
        /\ UNCHANGED <<up, down, execs>>
    BY <1>5 DEF IntServerRestarts, osVars
  <2>2. \A k \in Call : \/ call'[k] = call[k]
                        \/ /\ call[k].is = "waiting" /\ call'[k].is \notin {"new", "resolved"}
                           /\ call'[k].script = call[k].script
    BY <2>1 DEF Types, Waiting
  <2>3. QED
    BY <1>1, <2>1, <2>2, TokensLost
<1>6. ASSUME NEW c \in Conn, Opens(c) PROVE Tokens'
  <2>1. \A d \in Conn : Distinct(down'[d]) /\ Elements(down'[d]) \subseteq Elements(down[d])
    <3>1. CASE GivesUp
      BY <1>1, <1>6, <3>1 DEF Opens
    <3>2. CASE ~GivesUp
      <4>1. PICK n \in 0 .. Len(down[c]) :
              down' = [down EXCEPT ![c] = SubSeq(@, n + 1, Len(@))]
        BY <1>6, <3>2 DEF Opens
      <4>2. down[c] \in Seq(Call)
        BY DEF Types, Queues
      <4>3. /\ Distinct(SubSeq(down[c], n + 1, Len(down[c])))
            /\ Elements(SubSeq(down[c], n + 1, Len(down[c]))) \subseteq Elements(down[c])
        BY <1>1, <4>2, Dropped
      <4>4. /\ down'[c] = SubSeq(down[c], n + 1, Len(down[c]))
            /\ \A d \in Conn \ {c} : down'[d] = down[d]
        BY <4>1 DEF Types, Queues
      <4>5. QED
        BY <1>1, <4>3, <4>4
    <3>3. QED
      BY <3>1, <3>2
  <2>2. QED
    BY <1>6, <2>1, TokensLost DEF Opens, intVars
<1>7. ASSUME NEW c \in Conn,
             OpenFails(c) \/ ClientSees(c) \/ ServerAccepts(c) \/ Breaks(c)
      PROVE  Tokens'
  <2>1. UNCHANGED <<call, up, down, execs>>
    BY <1>7 DEF OpenFails, ClientSees, ServerAccepts, Breaks, osVars, intVars
  <2>2. QED
    BY <1>2, <2>1
<1>8. ASSUME NEW c \in Conn, ServerSees(c) PROVE Tokens'
  <2>1. /\ \A k \in Call : \/ call'[k] = call[k]
                           \/ k \in Waiting /\ call'[k] = [call[k] EXCEPT !.is = "rejected"]
        /\ UNCHANGED <<up, down, execs>>
    BY <1>8 DEF ServerSees, osVars
  <2>2. \A k \in Call : \/ call'[k] = call[k]
                        \/ /\ call[k].is = "waiting" /\ call'[k].is \notin {"new", "resolved"}
                           /\ call'[k].script = call[k].script
    BY <2>1 DEF Types, Waiting
  <2>3. QED
    BY <1>1, <2>1, <2>2, TokensLost
<1>9. ASSUME NEW k \in Call, Timeout(k) PROVE Tokens'
  <2>1. /\ call' = [call EXCEPT ![k].is = "timedout"] /\ call[k].is = "waiting"
        /\ UNCHANGED <<up, down, execs>>
    BY <1>9 DEF Timeout, Expires, Waiting, osVars
  <2>2. \A h \in Call : \/ call'[h] = call[h]
                        \/ /\ call[h].is = "waiting" /\ call'[h].is \notin {"new", "resolved"}
                           /\ call'[h].script = call[h].script
    BY <2>1 DEF Types
  <2>3. QED
    BY <1>1, <2>1, <2>2, TokensLost
<1>10. CASE UNCHANGED vars
  BY <1>2, <1>10 DEF vars, osVars, intVars
<1>11. QED
  BY <1>3, <1>4, <1>5, <1>6, <1>7, <1>8, <1>9, <1>10,
     TokensStart, TokensRun, TokensAnswer, TokensUsed DEF Next

-----------------------------------------------------------------------------
(***************************************************************************)
(* Calls that must be answered                                             *)
(***************************************************************************)
\* The link is up, the call is subscribed, and its request is under way on this
\* connection, or its script runs and will answer on it, or the answer comes.
Answerable(k) ==
  /\ handler = k /\ Linked /\ call[k].via = wsc
  /\ k \in Elements(down[wsc]) \/ <<k, wsc>> \in execs \/ k \in Elements(up[wsc])

Served == \A k \in Waiting \ excused : Answerable(k)

\* A disturbance that excuses all.
LEMMA ServedExcused ==
  ASSUME call' = call, excused' = excused \cup Waiting PROVE Served'
  BY DEF Served, Waiting

\* While such a call is out, no connection is being opened or accepted.
LEMMA LinkIsLast ==
  ASSUME Types, Dialing, Linked, NEW c \in Conn, client[c] # "none"
  PROVE  wsc \in Conn /\ c <= wsc /\ (c # wsc => client[c] = "closed")
<1>1. PICK n \in 0 .. Faults + 1 : Line(n)
  BY DEF Dialing
<1>2. wsc \in Conn /\ client[wsc] = "open"
  BY DEF Linked, Types
<1>3. wsc = n
  BY <1>1, <1>2, OnlyTheLastLives
<1>4. c \in 1 .. n
  BY <1>1 DEF Line, Opened
<1>5. c # wsc => client[c] = "closed"
  BY <1>1, <1>3, <1>4, Bounds DEF Line
<1>6. QED
  BY <1>2, <1>3, <1>4, <1>5, Bounds

LEMMA ServedOpening ==
  ASSUME Types, Dialing, NEW k \in Call, Answerable(k), NEW c \in Conn
  PROVE  /\ client[c] # "opening"
         /\ ~(\A d \in Conn : d >= c => server[d] = "none") \/ client[c] = "none"
<1>1. Linked /\ wsc \in Conn /\ client[wsc] = "open" /\ server[wsc] = "on"
  BY DEF Answerable, Linked, Types
<1>2. client[c] # "none" => c <= wsc /\ (c # wsc => client[c] = "closed")
  BY <1>1, LinkIsLast
<1>3. c \in Nat /\ wsc \in Nat
  BY <1>1, Bounds DEF Conn
<1>4. QED
  BY <1>1, <1>2, <1>3

LEMMA ServedStep ==
  ASSUME Types, Dialing, Tokens, Served, [Next]_vars PROVE Served'
<1>1. CASE LoopChecks
  <2> SUFFICES ASSUME NEW k \in Waiting', k \notin excused' PROVE Answerable(k)'
    BY DEF Served
  <2>1. /\ k \in Call /\ Answerable(k)
        /\ UNCHANGED <<wsc, execs, intVars, cut, down, up>>
    BY <1>1 DEF LoopChecks, Served, Waiting, intVars
  <2>2. wsc # NoConn /\ client[wsc] = "open"
    BY <2>1 DEF Answerable, Linked
  <2>3. client' = client
    BY <1>1, <2>2 DEF LoopChecks, NeedsSocket
  <2>4. QED
    BY <2>1, <2>3 DEF Answerable, Linked, intVars
<1>2. CASE Sigterm \/ OsRestarts
  BY <1>2, ServedExcused DEF Sigterm, OsRestarts, intVars
<1>3. ASSUME NEW c \in Conn, Breaks(c) PROVE Served'
  BY <1>3, ServedExcused DEF Breaks, intVars
<1>4. CASE IntServerRestarts
  <2>1. Waiting' = {}
    BY <1>4 DEF IntServerRestarts, Waiting, Types
  <2>2. QED
    BY <2>1 DEF Served
<1>5. ASSUME NEW c \in Conn, Opens(c) \/ OpenFails(c) \/ ServerAccepts(c) PROVE Served'
  <2> SUFFICES ASSUME NEW k \in Waiting', k \notin excused' PROVE FALSE
    BY DEF Served
  <2>1. k \in Call /\ Answerable(k)
    BY <1>5 DEF Opens, OpenFails, ServerAccepts, Served, Waiting, intVars
  <2>2. QED
    BY <1>5, <2>1, ServedOpening DEF Opens, OpenFails, ServerAccepts
<1>6. ASSUME NEW c \in Conn, ClientSees(c) PROVE Served'
  <2> SUFFICES ASSUME NEW k \in Waiting', k \notin excused' PROVE Answerable(k)'
    BY DEF Served
  <2>1. /\ k \in Call /\ Answerable(k) /\ c \in cut
        /\ UNCHANGED <<wsc, execs, intVars, cut, down, up>>
    BY <1>6 DEF ClientSees, Served, Waiting, intVars
  <2>2. c # wsc
    BY <2>1 DEF Answerable, Linked
  <2>3. client'[wsc] = client[wsc]
    BY <1>6, <2>1, <2>2 DEF ClientSees, Types, Answerable, Linked
  <2>4. QED
    BY <2>1, <2>3 DEF Answerable, Linked, intVars
<1>7. ASSUME NEW c \in Conn, ServerSees(c) PROVE Served'
  <2> SUFFICES ASSUME NEW k \in Waiting', k \notin excused' PROVE Answerable(k)'
    BY DEF Served
  <2>1. /\ k \in Call /\ c \in cut /\ UNCHANGED <<osVars, sysClient, cut, down, up, excused>>
        /\ server' = [server EXCEPT ![c] = "closed"]
    BY <1>7 DEF ServerSees, Waiting
  <2>2. k \in Waiting
    BY <1>7 DEF ServerSees, Waiting, Types
  <2>3. Answerable(k)
    BY <2>1, <2>2 DEF Served
  <2>4. c # wsc /\ wsc \in Conn
    BY <2>1, <2>3 DEF Answerable, Linked, Types
  <2>5. call'[k] = call[k] /\ handler' = handler
    BY <1>7, <2>1, <2>3, <2>4 DEF ServerSees, Answerable
  <2>6. server'[wsc] = server[wsc]
    BY <2>1, <2>4 DEF Types
  <2>7. QED
    BY <2>1, <2>3, <2>5, <2>6 DEF Answerable, Linked, osVars
<1>8. ASSUME NEW h \in Call, NEW s \in Script, StartCall(h, s) PROVE Served'
  <2> SUFFICES ASSUME NEW k \in Waiting', k \notin excused' PROVE Answerable(k)'
    BY DEF Served
  <2>1. k \in Call /\ UNCHANGED <<osVars, server, sysClient, cut, up>>
    BY <1>8 DEF StartCall, Waiting
  <2>2. /\ \A g \in Call \ {h} : call'[g] = call[g]
        /\ sysClient = NoConn => call'[h].is = "rejected"
        /\ sysClient # NoConn => call'[h].via = sysClient
    BY <1>8 DEF StartCall, Types
  <2>3. CASE k # h
    <3>1. Answerable(k)
      BY <1>8, <2>1, <2>2, <2>3 DEF StartCall, Served, Waiting
    <3>2. sysClient # NoConn /\ handler = k
      BY <3>1 DEF Answerable, Linked
    <3>3. k \in excused'
      BY <1>8, <2>1, <3>2, Bounds DEF StartCall
    <3>4. QED
      BY <3>3
  <2>4. CASE k = h
    <3>1. sysClient # NoConn
      BY <2>2, <2>4 DEF Waiting
    <3>2. Linked /\ handler' = k /\ call'[k].via = sysClient
      BY <1>8, <2>2, <2>4, <3>1 DEF StartCall, Subscribed
    <3>3. sysClient = wsc /\ wsc \in Conn /\ wsc \notin cut /\ server[wsc] = "on"
      BY <3>1, <3>2 DEF Linked, Types
    <3>4. down' = [down EXCEPT ![wsc] = Append(@, k)]
      BY <1>8, <2>4, <3>1, <3>3 DEF StartCall, Sent
    <3>5. down[wsc] \in Seq(Call) /\ down'[wsc] = Append(down[wsc], k)
      BY <3>3, <3>4 DEF Types, Queues
    <3>6. k \in Elements(down'[wsc])
      BY <2>1, <3>5, Appended
    <3>7. Linked'
      BY <2>1, <3>2 DEF Linked, osVars
    <3>8. QED
      BY <2>1, <3>2, <3>3, <3>6, <3>7 DEF Answerable, osVars
  <2>5. QED
    BY <2>3, <2>4
<1>9. ASSUME NEW c \in Conn, OsReceives(c) PROVE Served'
  <2> SUFFICES ASSUME NEW k \in Waiting', k \notin excused' PROVE Answerable(k)'
    BY DEF Served
  <2>1. /\ k \in Call /\ Answerable(k) /\ wsc = c
        /\ UNCHANGED <<client, wsc, intVars, cut, up>>
        /\ down' = Rest(down, c) /\ down[c] # <<>>
        /\ execs' = execs \cup {<<Head(down[c]), wsc>>}
    BY <1>9 DEF OsReceives, Served, Waiting, intVars, Dialing, Rest
  <2>2. down \in Queues /\ \A d \in Conn : Distinct(down[d])
    BY DEF Types, Tokens
  <2>3. Elements(down'[c]) = Elements(down[c]) \ {Head(down[c])}
    BY <2>1, <2>2, HeadLeaves
  <2>4. Linked'
    BY <2>1 DEF Linked, Answerable, intVars
  <2>5. QED
    BY <2>1, <2>3, <2>4 DEF Answerable, intVars
<1>10. ASSUME NEW e \in execs, ExecEnds(e) PROVE Served'
  <2> SUFFICES ASSUME NEW k \in Waiting', k \notin excused' PROVE Answerable(k)'
    BY DEF Served
  <2>1. /\ k \in Call /\ Answerable(k) /\ execs' = execs \ {e}
        /\ up' = IF client[e[2]] = "open" THEN Sent(up, e[2], e[1]) ELSE up
        /\ UNCHANGED <<client, wsc, intVars, cut, down>>
    BY <1>10 DEF ExecEnds, Served, Waiting, intVars
  <2>2. PICK x \in Call, c \in Conn : e = <<x, c>>
    BY DEF Types
  <2>3. wsc \in Conn /\ wsc \notin cut /\ client[wsc] = "open" /\ handler' = k
        /\ Linked' /\ call'[k].via = wsc'
    BY <2>1 DEF Answerable, Linked, Types, intVars
  <2>4. /\ up \in Queues /\ (\A d \in Conn : Distinct(up[d]))
        /\ \A d \in Conn : x \notin Elements(up[d])
    <3>1. c \in ExecAt(x)
      BY <2>2 DEF ExecAt
    <3>2. UpAt(x) = {}
      BY <3>1 DEF Tokens, Alone
    <3>3. QED
      BY <3>2 DEF Types, Tokens, UpAt
  <2>5. Elements(up[wsc]) \subseteq Elements(up'[wsc])
    <3>1. CASE up' = up
      BY <3>1
    <3>2. CASE up' = Sent(up, c, x)
      BY <2>3, <2>4, <3>2, SentHolds
    <3>3. QED
      BY <2>1, <2>2, <3>1, <3>2
  <2>6. e = <<k, wsc>> => k \in Elements(up'[wsc])
    <3> SUFFICES ASSUME x = k, c = wsc PROVE k \in Elements(up'[wsc])
      BY <2>2
    <3>1. up' = Sent(up, c, x)
      BY <2>1, <2>2, <2>3
    <3>2. QED
      BY <2>3, <2>4, <3>1, SentHolds
  <2>7. QED
    BY <2>1, <2>3, <2>5, <2>6 DEF Answerable
<1>11. ASSUME NEW c \in Conn, ServerReceives(c) PROVE Served'
  <2> SUFFICES ASSUME NEW k \in Waiting', k \notin excused' PROVE Answerable(k)'
    BY DEF Served
  <2>1. PICK x : x = Head(up[c])
    OBVIOUS
  <2>2. /\ k \in Call /\ up' = Rest(up, c) /\ up[c] # <<>>
        /\ call' = [h \in Call |-> IF h \in Matches(x)
                                  THEN [call[h] EXCEPT !.is = "resolved", !.got = x]
                                  ELSE call[h]]
        /\ handler' = IF handler \in Matches(x) THEN None ELSE handler
        /\ UNCHANGED <<osVars, server, sysClient, cut, down, excused>>
    BY <1>11, <2>1 DEF ServerReceives, Waiting, Rest
  <2>3. k \notin Matches(x)
    BY <2>2 DEF Waiting, Types
  <2>4. call'[k] = call[k]
    BY <2>2, <2>3
  <2>5. k \in Waiting /\ Answerable(k)
    BY <2>2, <2>4 DEF Waiting, Served
  <2>6. handler = k /\ handler' = k /\ k # x
    BY <2>2, <2>3, <2>5 DEF Answerable, Matches
  <2>7. k \in Elements(up[wsc]) => k \in Elements(up'[wsc])
    <3>1. up \in Queues /\ (\A d \in Conn : Distinct(up[d])) /\ wsc \in Conn
      BY <2>5 DEF Types, Tokens, Answerable, Linked
    <3>2. /\ \A d \in Conn \ {c} : up'[d] = up[d]
          /\ Elements(up'[c]) = Elements(up[c]) \ {x}
      <4>1. up' = Rest(up, c) /\ up[c] # <<>>
        BY <2>2
      <4>2. QED
        BY <2>1, <3>1, <4>1, HeadLeaves
    <3>3. QED
      BY <2>6, <3>1, <3>2
  <2>8. QED
    BY <2>2, <2>4, <2>5, <2>6, <2>7 DEF Answerable, Linked, osVars
<1>12. ASSUME NEW h \in Call, Timeout(h) PROVE Served'
  <2> SUFFICES ASSUME NEW k \in Waiting', k \notin excused' PROVE Answerable(k)'
    BY DEF Served
  <2>1. /\ k \in Call /\ call' = [call EXCEPT ![h].is = "timedout"] /\ excused \subseteq excused'
        /\ handler' = IF handler = h THEN None ELSE handler
        /\ UNCHANGED <<osVars, server, sysClient, cut, down, up>>
    BY <1>12 DEF Timeout, Waiting
  <2>2. k # h /\ call'[k] = call[k]
    BY <2>1 DEF Waiting, Types
  <2>3. Answerable(k)
    BY <2>1, <2>2 DEF Waiting, Served
  <2>4. QED
    BY <2>1, <2>2, <2>3 DEF Answerable, Linked, osVars
<1>13. CASE UNCHANGED vars
  BY <1>13 DEF vars, osVars, intVars, Served, Waiting, Answerable, Linked
<1>14. QED
  BY <1>1, <1>2, <1>3, <1>4, <1>5, <1>6, <1>7, <1>8, <1>9, <1>10, <1>11, <1>12, <1>13 DEF Next

\* So a call whose answer is not under way was excused when it times out.
LEMMA TimeoutStep ==
  ASSUME Types, Dialing, Tokens, Served, NoSpuriousTimeout, [Next]_vars PROVE NoSpuriousTimeout'
<1>1. ASSUME NEW k \in Call, Timeout(k) PROVE NoSpuriousTimeout'
  <2>1. /\ k \in Waiting /\ call' = [call EXCEPT ![k].is = "timedout"]
        /\ excused \subseteq excused' /\ (InFlight(k) => k \in excused')
    BY <1>1 DEF Timeout, Expires
  <2>2. \A h \in Call \ {k} : call'[h] = call[h]
    BY <2>1 DEF Types
  <2>3. k \in excused'
    <3> SUFFICES ASSUME Answerable(k) PROVE InFlight(k)
      BY <2>1 DEF Served
    <3>1. /\ wsc \in Conn /\ client[wsc] = "open" /\ server[wsc] = "on"
          /\ down[wsc] \in Seq(Call) /\ up[wsc] \in Seq(Call)
      BY DEF Answerable, Linked, Types, Queues
    <3>2. CASE k \in Elements(down[wsc])
      <4>1. \E i \in 1 .. Len(down[wsc]) : down[wsc][i] = k
        BY <3>1, <3>2 DEF Elements
      <4>2. QED
        BY <3>1, <4>1 DEF InFlight
    <3>3. CASE <<k, wsc>> \in execs
      BY <3>3 DEF InFlight
    <3>4. CASE k \in Elements(up[wsc])
      <4>1. \E i \in 1 .. Len(up[wsc]) : up[wsc][i] = k
        BY <3>1, <3>4 DEF Elements
      <4>2. QED
        BY <3>1, <4>1 DEF InFlight
    <3>5. QED
      BY <3>2, <3>3, <3>4 DEF Answerable
  <2>4. QED
    BY <2>1, <2>2, <2>3 DEF NoSpuriousTimeout
<1>2. ASSUME excused \subseteq excused',
             \A k \in Call : call'[k].is = "timedout" => call[k].is = "timedout"
      PROVE  NoSpuriousTimeout'
  BY <1>2 DEF NoSpuriousTimeout
<1>3. CASE LoopChecks \/ Sigterm \/ OsRestarts
  BY <1>2, <1>3 DEF LoopChecks, Sigterm, OsRestarts, intVars
<1>4. CASE IntServerRestarts
  BY <1>2, <1>4 DEF IntServerRestarts, Types
<1>5. ASSUME NEW c \in Conn,
             \/ Opens(c) \/ OpenFails(c) \/ ClientSees(c) \/ ServerAccepts(c)
             \/ OsReceives(c) \/ Breaks(c)
      PROVE  NoSpuriousTimeout'
  <2>1. excused \subseteq excused' /\ call' = call
    BY <1>5 DEF Opens, OpenFails, ClientSees, ServerAccepts, OsReceives, Breaks, intVars
  <2>2. QED
    BY <1>2, <2>1
<1>6. ASSUME NEW c \in Conn, ServerSees(c) \/ ServerReceives(c) PROVE NoSpuriousTimeout'
  <2>1. /\ excused' = excused
        /\ \A k \in Call : \/ call'[k] = call[k]
                           \/ call'[k] = [call[k] EXCEPT !.is = "rejected"]
                           \/ call'[k] = [call[k] EXCEPT !.is = "resolved", !.got = Head(up[c])]
    BY <1>6 DEF ServerSees, ServerReceives
  <2>2. ASSUME NEW k \in Call, call'[k].is = "timedout" PROVE call[k].is = "timedout"
    BY <2>1, <2>2 DEF Types
  <2>3. QED
    BY <1>2, <2>1, <2>2
<1>7. ASSUME NEW k \in Call, NEW s \in Script, StartCall(k, s) PROVE NoSpuriousTimeout'
  BY <1>2, <1>7 DEF StartCall, Types
<1>8. ASSUME NEW e \in execs, ExecEnds(e) PROVE NoSpuriousTimeout'
  BY <1>2, <1>8 DEF ExecEnds, intVars
<1>9. CASE UNCHANGED vars
  BY <1>2, <1>9 DEF vars, intVars
<1>10. QED
  BY <1>1, <1>3, <1>4, <1>5, <1>6, <1>7, <1>8, <1>9 DEF Next

-----------------------------------------------------------------------------
(***************************************************************************)
(* The invariant                                                           *)
(***************************************************************************)
IInv == Types /\ Dialing /\ Tokens /\ Served /\ NoSpuriousTimeout

LEMMA Initially == Init => IInv
<1> SUFFICES ASSUME Init PROVE IInv
  OBVIOUS
<1>1. Types
  BY TypesInit
<1>2. \A c \in Conn : client[c] = "none" /\ down[c] = <<>> /\ up[c] = <<>>
  BY DEF Init
<1>3. Line(0)
  BY <1>2, Bounds DEF Init, Line, Opened, Conn
<1>4. Dialing
  BY <1>2, <1>3, Bounds DEF Init, Dialing
<1>5. \A k \in Call : call[k].is = "new"
  BY DEF Init
<1>6. Elements(<<>>) = {} /\ Distinct(<<>>)
  BY DEF Elements, Distinct
<1>7. \A k \in Call : Nowhere(k)
  BY <1>2, <1>5, <1>6 DEF Init, Nowhere, DownAt, UpAt, ExecAt, Used
<1>8. Tokens
  BY <1>2, <1>5, <1>6, <1>7 DEF Tokens, Nowhere, Alone, Single
<1>9. QED
  BY <1>1, <1>4, <1>5, <1>8 DEF IInv, Served, Waiting, NoSpuriousTimeout

LEMMA Step == ASSUME IInv, [Next]_vars PROVE IInv'
  BY TypesStep, DialingStep, TokensStep, ServedStep, TimeoutStep DEF IInv

LEMMA Invariant == Spec => []IInv
  BY Initially, Step, PTL DEF Spec

\* However connections break and either server restarts, the client holds one
\* live socket, and autoConnect waits exactly for the one that is opening.
THEOREM ClientHoldsOne == Spec => []OneSocket
<1>1. ASSUME IInv PROVE OneSocket
  <2>1. Types /\ Dialing
    BY <1>1 DEF IInv
  <2>2. PICK n \in 0 .. Faults + 1 : Line(n)
    BY <2>1 DEF Dialing
  <2>3. loop = "opening" <=> \E c \in Conn : client[c] = "opening"
    BY <2>2, OnlyTheLastLives DEF Line
  <2>4. QED
    BY <2>1, <2>3, OneLives DEF OneSocket, TypeOK
<1>2. QED
  BY <1>1, Invariant, PTL

\* A call resolves with the output of its own script, which resolves no other.
THEOREM OwnResults == Spec => []ResultsAreOwn
<1>1. ASSUME IInv PROVE ResultsAreOwn
  <2> SUFFICES ASSUME NEW k \in Call, call[k].is = "resolved"
               PROVE  /\ call[call[k].got].script = call[k].script
                      /\ \A h \in Call \ {k} : call[h].is = "resolved"
                                                => call[h].got # call[k].got
    BY DEF ResultsAreOwn
  <2>1. Own(k)
    BY <1>1 DEF IInv, Tokens
  <2>2. Single(Used(call[k].got))
    BY <1>1, <2>1 DEF IInv, Tokens, Alone, Own, Single
  <2>3. k \in Used(call[k].got)
    BY DEF Used
  <2>4. ASSUME NEW h \in Call \ {k}, call[h].is = "resolved", call[h].got = call[k].got
        PROVE  FALSE
    BY <2>2, <2>3, <2>4 DEF Used, Single
  <2>5. QED
    BY <2>1, <2>4 DEF Own
<1>2. QED
  BY <1>1, Invariant, PTL

\* A call times out only for one of the reasons that the module names.
THEOREM TimeoutsHaveReason == Spec => []NoSpuriousTimeout
<1>1. IInv => NoSpuriousTimeout
  BY DEF IInv
<1>2. QED
  BY <1>1, Invariant, PTL

-----------------------------------------------------------------------------
(***************************************************************************)
(* What becomes of the output of a script.  The values are taken apart one *)
(* constructor at a time: what Get, Parse and the printing do to an        *)
(* object, to a number, and to what is undefined or thrown.                *)
(***************************************************************************)
\* What the shell script of the pulse prints.
LEMMA Readings ==
  ASSUME NEW out \in Results!CpuOutputs
  PROVE  \/ out = Results!Other
         \/ out = Results!Failed
         \/ out = Results!Json(Results!Obj([value |-> Results!NoKeys]))
         \/ \E t \in Temps : out = Results!Json(Results!Obj([value |-> Results!Sensors(t)]))
  BY DEF Results!CpuOutputs

\* A property of an object, which is there or undefined, and of what is undefined.
LEMMA GetOfObject ==
  ASSUME NEW f, NEW key
  PROVE  Results!Get(Results!Obj(f), key)
           = IF key \in DOMAIN f THEN f[key] ELSE Results!Undefined
  BY DEF Results!Get, Results!Obj, Results!Undefined, Results!Null, Results!Thrown

LEMMA GetOfNothing ==
  ASSUME NEW key
  PROVE  /\ Results!Get(Results!Undefined, key) = Results!Thrown
         /\ Results!Get(Results!Thrown, key) = Results!Thrown
<1>1. Results!Undefined[1] # "object" /\ Results!Thrown[1] # "object"
  BY DEF Results!Undefined, Results!Thrown
<1>2. QED
  BY <1>1, Zenon DEF Results!Get

\* Objects and numbers are true, and what is undefined is not.
LEMMA Truths ==
  /\ \A f : Results!Truthy(Results!Obj(f))
  /\ \A t : Results!Truthy(Results!Num(t))
  /\ ~Results!Truthy(Results!Undefined)
  BY DEF Results!Truthy, Results!Obj, Results!Num, Results!Undefined, Results!Null,
         Results!NaN, Results!Str

\* JSON is parsed to its value, and nothing else is.
LEMMA Parses ==
  /\ \A v : Results!Parse(Results!Json(v)) = v
  /\ Results!Parse(Results!Other) = Results!Thrown
  /\ Results!Parse(Results!Empty) = Results!Thrown
  BY DEF Results!Parse, Results!Json, Results!Other, Results!Empty

\* Values of different types differ.
LEMMA TypesDiffer ==
  /\ Results!Undefined # Results!Thrown
  /\ \A f : /\ Results!Obj(f) # Results!Thrown /\ Results!Obj(f) # Results!Undefined
            /\ Results!Obj(f) # Results!NaN
  /\ \A t : /\ Results!Num(t) # Results!Thrown /\ Results!Num(t) # Results!Undefined
            /\ Results!Num(t) # Results!NaN /\ Results!Num(t) # Results!Null
  /\ \A t : Results!List(t) # Results!Thrown /\ Results!List(t) # Results!Undefined
  /\ \A v : /\ Results!Json(v) # Results!Failed /\ Results!Json(v) # Results!Other
            /\ Results!Json(v) # Results!Empty /\ Results!Json(v) # Results!Blank
  /\ Results!Other # Results!Failed /\ Results!Blank # Results!Failed
  /\ Results!Other # Results!Empty /\ Results!Other # Results!Blank
  /\ Results!Blank # Results!Empty
  BY DEF Results!Undefined, Results!Thrown, Results!Obj, Results!Num, Results!List,
         Results!Json, Results!Failed, Results!Other, Results!Empty, Results!Blank,
         Results!NaN, Results!Null

LEMMA Data ==
  /\ \A v : Results!ParseData(Results!Json(v))
              = Results!Obj([obj |-> v, raw |-> Results!Str(Results!Json(v))])
  /\ Results!ParseData(Results!Other)
       = Results!Obj([obj |-> Results!NoKeys, raw |-> Results!Str(Results!Other)])
  /\ Results!ParseData(Results!Blank)
       = Results!Obj([obj |-> Results!NoKeys, raw |-> Results!Str(Results!Empty)])
<1>1. /\ \A v : Results!Json(v)[1] = "json"
      /\ Results!Other[1] # "json" /\ Results!Blank[1] # "json"
  BY DEF Results!Json, Results!Other, Results!Blank
<1>2. ASSUME NEW v
      PROVE  Results!ParseData(Results!Json(v))
               = Results!Obj([obj |-> v, raw |-> Results!Str(Results!Json(v))])
  BY <1>1, TypesDiffer, Parses, Zenon DEF Results!ParseData
<1>3. /\ Results!ParseData(Results!Other)
           = Results!Obj([obj |-> Results!NoKeys, raw |-> Results!Str(Results!Other)])
      /\ Results!ParseData(Results!Blank)
           = Results!Obj([obj |-> Results!NoKeys, raw |-> Results!Str(Results!Empty)])
  BY <1>1, TypesDiffer, Zenon DEF Results!ParseData
<1>4. QED
  BY <1>2, <1>3

\* What the function of cpu-temperature.js resolves with.
LEMMA CpuTemperature ==
  /\ \A v : Results!GetCpuTemperature(Results!Json(Results!Obj([value |-> v]))) = v
  /\ Results!GetCpuTemperature(Results!Other) = Results!Undefined
<1>1. ASSUME NEW v
      PROVE  Results!GetCpuTemperature(Results!Json(Results!Obj([value |-> v]))) = v
  <2> DEFINE o == Results!Obj([value |-> v])
             d == [obj |-> o, raw |-> Results!Str(Results!Json(o))]
  <2>1. Results!ParseData(Results!Json(o)) = Results!Obj(d)
    BY Data
  <2>2. Results!Get(Results!Obj(d), "obj") = o
    <3>1. "obj" \in DOMAIN d /\ d["obj"] = o
      OBVIOUS
    <3>2. QED
      BY <3>1, GetOfObject
  <2>3. Results!Get(o, "value") = v
    <3>1. "value" \in DOMAIN [value |-> v] /\ [value |-> v]["value"] = v
      OBVIOUS
    <3>2. QED
      BY <3>1, GetOfObject
  <2>4. QED
    BY <2>1, <2>2, <2>3 DEF Results!GetCpuTemperature
<1>2. Results!GetCpuTemperature(Results!Other) = Results!Undefined
  <2> DEFINE d == [obj |-> Results!NoKeys, raw |-> Results!Str(Results!Other)]
  <2>1. Results!ParseData(Results!Other) = Results!Obj(d)
    BY Data
  <2>2. Results!Get(Results!Obj(d), "obj") = Results!NoKeys
    <3>1. "obj" \in DOMAIN d /\ d["obj"] = Results!NoKeys
      OBVIOUS
    <3>2. QED
      BY <3>1, GetOfObject
  <2>3. Results!Get(Results!NoKeys, "value") = Results!Undefined
    BY GetOfObject DEF Results!NoKeys
  <2>4. QED
    BY <2>1, <2>2, <2>3 DEF Results!GetCpuTemperature
<1>3. QED
  BY <1>1, <1>2

\* What is printed for the temperature.
LEMMA CpuPrinted ==
  /\ Results!Printed("cpu-temperature.js", Results!Failed) = Results!Empty
  /\ Results!Printed("cpu-temperature.js", Results!Other) = Results!Other
  /\ \A f : Results!Printed("cpu-temperature.js",
                            Results!Json(Results!Obj([value |-> Results!Obj(f)])))
              = Results!Json(Results!Obj(f))
<1>1. \A out : out # Results!Failed =>
        Results!Returned("cpu-temperature.js", out) = Results!GetCpuTemperature(out)
  BY Zenon DEF Results!Returned
<1>2. Results!Returned("cpu-temperature.js", Results!Failed) = Results!Thrown
  BY Zenon DEF Results!Returned
<1>3. QED
  BY <1>1, <1>2, CpuTemperature, TypesDiffer DEF Results!Printed

\* A number is one.
LEMMA Numbers == \A t : Results!Number(Results!Num(t)) = Results!Num(t)
<1>1. \A t : Results!Num(t)[1] = "number"
  BY DEF Results!Num
<1>2. QED
  BY <1>1, TypesDiffer DEF Results!Number

\* Where there is no object, or an empty one, there is no number.
LEMMA NoTemperature ==
  ASSUME NEW stdout \in {Results!Empty, Results!Other, Results!Json(Results!NoKeys)}
  PROVE  Results!GetCpuTemp(stdout) = Results!NaN
<1>1. \A key : Results!Get(Results!NoKeys, key) = Results!Undefined
  BY GetOfObject DEF Results!NoKeys
<1>2. Results!ParseScriptResponse(stdout) = Results!NoKeys
  <2>1. Results!Parse(stdout) = Results!Thrown \/ Results!Parse(stdout) = Results!NoKeys
    BY Parses
  <2>2. ~Results!Truthy(Results!Then(Results!NoKeys, "obj"))
    BY <1>1, Truths DEF Results!Then, Results!NoKeys
  <2>3. QED
    BY <2>1, <2>2 DEF Results!ParseScriptResponse
<1>3. Results!Then(Results!Then(Results!Undefined, "temp1"), "temp1_input") = Results!Undefined
  BY Truths DEF Results!Then
<1>4. Results!Number(Results!Undefined) = Results!NaN
  BY DEF Results!Number, Results!Undefined, Results!Null
<1>5. QED
  BY <1>1, <1>2, <1>3, <1>4, TypesDiffer DEF Results!GetCpuTemp

\* A temperature comes through.
LEMMA SomeTemperature ==
  ASSUME NEW t
  PROVE  Results!GetCpuTemp(Results!Json(Results!Sensors(t))) = Results!Num(t)
<1> DEFINE input == [temp1_input |-> Results!Num(t)]
           temp == [temp1 |-> Results!Obj(input)]
           chips == [cpu |-> Results!Obj(temp)]
<1>1. /\ Results!Get(Results!Obj(chips), "cpu") = Results!Obj(temp)
      /\ Results!Get(Results!Obj(temp), "temp1") = Results!Obj(input)
      /\ Results!Get(Results!Obj(input), "temp1_input") = Results!Num(t)
      /\ Results!Get(Results!Obj(chips), "obj") = Results!Undefined
  <2>1. /\ "cpu" \in DOMAIN chips /\ chips["cpu"] = Results!Obj(temp)
        /\ "temp1" \in DOMAIN temp /\ temp["temp1"] = Results!Obj(input)
        /\ "temp1_input" \in DOMAIN input /\ input["temp1_input"] = Results!Num(t)
        /\ "obj" \notin DOMAIN chips
    OBVIOUS
  <2> HIDE DEF chips, temp, input
  <2>2. QED
    BY <2>1, GetOfObject
<1>2. Results!Sensors(t) = Results!Obj(chips)
  BY DEF Results!Sensors
<1> HIDE DEF chips, temp, input
<1>3. Results!ParseScriptResponse(Results!Json(Results!Obj(chips))) = Results!Obj(chips)
  BY <1>1, Parses, Truths, TypesDiffer DEF Results!ParseScriptResponse, Results!Then
<1>4. Results!Then(Results!Then(Results!Obj(temp), "temp1"), "temp1_input") = Results!Num(t)
  BY <1>1, Truths DEF Results!Then
<1>5. Results!Number(Results!Num(t)) = Results!Num(t)
  BY Numbers
<1>6. QED
  BY <1>1, <1>2, <1>3, <1>4, <1>5, TypesDiffer DEF Results!GetCpuTemp

\* For any temperatures that sensors may read.
LEMMA TemperaturesTold == Results!TemperatureTold
<1> SUFFICES ASSUME NEW out \in Results!CpuOutputs
             PROVE  LET t == Results!GetCpuTemp(Results!Printed("cpu-temperature.js", out))
                    IN  /\ t # Results!Thrown
                        /\ IF Results!Told(out) = {} THEN Results!Shown(t) = Results!Num(0)
                           ELSE \E told \in Results!Told(out) :
                                  Results!Shown(t) = Results!Num(told)
  BY DEF Results!TemperatureTold
<1>1. /\ Results!NaN # Results!Thrown
      /\ Results!Shown(Results!NaN) = Results!Num(0)
      /\ \A t : Results!Shown(Results!Num(t)) = Results!Num(t)
  <2>1. Results!NaN # Results!Thrown
    BY DEF Results!NaN, Results!Thrown
  <2>2. Results!Shown(Results!NaN) = Results!Num(0)
    BY DEF Results!Shown, Results!Sent, Results!Number
  <2>3. \A t : Results!Shown(Results!Num(t)) = Results!Num(t)
    BY Numbers, TypesDiffer DEF Results!Shown, Results!Sent
  <2>4. QED
    BY <2>1, <2>2, <2>3
<1>2. \A t : Results!NoKeys # Results!Sensors(t)
  BY DEF Results!NoKeys, Results!Sensors, Results!Obj
<1>3. \A v, w : Results!Json(Results!Obj([value |-> v])) = Results!Json(Results!Obj([value |-> w]))
                  => v = w
  BY DEF Results!Json, Results!Obj
<1>4. CASE \E t \in Temps : out = Results!Json(Results!Obj([value |-> Results!Sensors(t)]))
  <2>1. PICK t \in Temps : out = Results!Json(Results!Obj([value |-> Results!Sensors(t)]))
    BY <1>4
  <2>2. t \in Results!Told(out)
    BY <2>1 DEF Results!Told
  <2>3. Results!Printed("cpu-temperature.js", out) = Results!Json(Results!Sensors(t))
    BY <2>1, CpuPrinted DEF Results!Sensors
  <2>4. QED
    BY <1>1, <2>2, <2>3, SomeTemperature, TypesDiffer
<1>5. CASE out \in {Results!Other, Results!Failed,
                    Results!Json(Results!Obj([value |-> Results!NoKeys]))}
  <2>1. Results!Told(out) = {}
    BY <1>2, <1>3, <1>5, TypesDiffer DEF Results!Told
  <2>2. Results!Printed("cpu-temperature.js", out)
          \in {Results!Empty, Results!Other, Results!Json(Results!NoKeys)}
    BY <1>5, CpuPrinted DEF Results!NoKeys
  <2>3. QED
    BY <1>1, <2>1, <2>2, NoTemperature
<1>6. QED
  BY <1>4, <1>5, Readings

\* A command tells what its shell script told, for any temperatures.
LEMMA CommandsTell == Results!CommandTells
<1> SUFFICES ASSUME NEW s \in Results!Scripts, NEW out \in Results!Outputs(s)
             PROVE  Results!Body(Results!Printed(s, out)) = Results!Due(s, out)
  BY DEF Results!CommandTells
<1>1. /\ \A v : v # Results!Thrown => Results!Body(Results!Json(v)) = Results!Json(v)
      /\ Results!Body(Results!Empty) = Results!Empty
      /\ Results!Body(Results!Other) = Results!Empty
  BY Parses DEF Results!Body
<1>2. CASE out = Results!Failed
  <2>1. Results!Printed(s, out) = Results!Empty
    BY <1>2 DEF Results!Printed, Results!Returned
  <2>2. QED
    BY <1>1, <1>2, <2>1 DEF Results!Due
<1>3. CASE s = "cpu-temperature.js" /\ out # Results!Failed
  <2>1. out \in Results!CpuOutputs
    BY <1>3, Zenon DEF Results!Outputs
  <2>2. CASE out = Results!Other
    <3>1. Results!Due(s, out) = Results!Empty
      BY <1>3, <2>2, Zenon DEF Results!Due
    <3>2. QED
      BY <1>1, <1>3, <2>2, <3>1, CpuPrinted
  <2>3. CASE out # Results!Other
    <3>1. PICK f : out = Results!Json(Results!Obj([value |-> Results!Obj(f)]))
      BY <1>3, <2>1, <2>3, Readings DEF Results!NoKeys, Results!Sensors
    <3>2. out[2][2].value = Results!Obj(f)
      BY <3>1 DEF Results!Json, Results!Obj
    <3>3. Results!Due(s, out) = Results!Json(Results!Obj(f))
      BY <1>3, <2>3, <3>2, Zenon DEF Results!Due
    <3>4. QED
      BY <1>1, <1>3, <3>1, <3>3, CpuPrinted, TypesDiffer
  <2>4. QED
    BY <2>2, <2>3
<1>4. CASE s = "fake-script.js" /\ out # Results!Failed
  <2> DEFINE list == Results!List(<<1, 2, 3>>)
             data == Results!Obj([obj |-> list, raw |-> Results!Str(Results!Json(list))])
  <2>1. out = Results!Json(list)
    BY <1>4, Zenon DEF Results!Outputs
  <2>2. Results!Returned(s, out) = data
    <3>1. Results!Returned(s, out) = Results!ParseData(out)
      BY <1>4, Zenon DEF Results!Returned
    <3>2. QED
      BY <2>1, <3>1, Data
  <2>3. Results!Printed(s, out) = Results!Json(data)
    BY <2>2, TypesDiffer DEF Results!Printed
  <2>4. out[2] = list
    BY <2>1 DEF Results!Json
  <2>5. Results!Due(s, out) = Results!Json(data)
    <3>1. Results!Due(s, out)
            = Results!Json(Results!Obj([obj |-> out[2], raw |-> Results!Str(out)]))
      BY <1>4, Zenon DEF Results!Due
    <3>2. QED
      BY <2>1, <2>4, <3>1
  <2>6. QED
    BY <1>1, <2>3, <2>5, TypesDiffer
<1>5. CASE s = "net-list-devices.js" /\ out # Results!Failed
  <2> DEFINE rows == Results!List(IF out = Results!Blank THEN <<>> ELSE <<"row">>)
  <2>1. out \in {Results!Other, Results!Blank}
    BY <1>5, Zenon DEF Results!Outputs
  <2>2. Results!ListDevices(out) = rows
    <3> DEFINE raw == IF out = Results!Blank THEN Results!Str(Results!Empty)
                      ELSE Results!Str(Results!Other)
               data == [obj |-> Results!NoKeys, raw |-> raw]
    <3>1. Results!ParseData(out) = Results!Obj(data)
      BY <2>1, Data, TypesDiffer
    <3>2. Results!Get(Results!Obj(data), "raw") = raw
      <4>1. "raw" \in DOMAIN data /\ data["raw"] = raw
        OBVIOUS
      <4> HIDE DEF data, raw
      <4>2. QED
        BY <4>1, GetOfObject
    <3>3. Results!Str(Results!Other) # Results!Str(Results!Empty)
      BY TypesDiffer DEF Results!Str
    <3>4. QED
      BY <2>1, <3>1, <3>2, <3>3, TypesDiffer DEF Results!ListDevices, Results!Lines
  <2>3. Results!Returned(s, out) = rows
    <3>1. Results!Returned(s, out) = Results!ListDevices(out)
      BY <1>5, Zenon DEF Results!Returned
    <3>2. QED
      BY <2>2, <3>1
  <2>4. Results!Printed(s, out) = Results!Json(rows)
    BY <2>3, TypesDiffer DEF Results!Printed
  <2>5. Results!Due(s, out) = Results!Json(rows)
    BY <1>5, Zenon DEF Results!Due
  <2>6. QED
    BY <1>1, <2>4, <2>5, TypesDiffer
<1>6. QED
  BY <1>2, <1>3, <1>4, <1>5, Zenon DEF Results!Scripts

\* Making a pulse throws nothing, and the pages hold the temperature that the shell
\* script told, or 0, whatever temperatures the sensors read.
THEOREM TemperatureIsTold == Spec => []TemperatureTold
  BY TemperaturesTold, PTL DEF TemperatureTold

\* Every command is answered with what its shell script told, or with nothing.
THEOREM CommandsAreTold == Spec => []CommandTells
  BY CommandsTell, PTL DEF CommandTells
=============================================================================
