------------------------------ MODULE RelayProofs ------------------------------
(***************************************************************************)
(* The public server carries out no command twice and none at the wrong    *)
(* system, and sends views on once and in order, for any number of systems *)
(* and browsers, clicks and broken sockets, and queues of any length.      *)
(***************************************************************************)
EXTENDS Relay, TLAPS, FiniteSetTheorems

LEMMA Bounds == /\ Clicks \in Nat /\ Versions \in Nat \ {0} /\ Cap \in Nat \ {0}
                /\ Faults \in Nat /\ User \subseteq Browser /\ Switched \subseteq Sys
                /\ None \notin Sys /\ None \notin Browser
  BY RelayAssumption

-----------------------------------------------------------------------------
(***************************************************************************)
(* Queues                                                                  *)
(***************************************************************************)
Distinct(q) == \A i, j \in DOMAIN q : q[i] = q[j] => i = j

\* What a queue holds when something is put into it.
LEMMA Appended ==
  ASSUME NEW S, NEW q \in Seq(S), NEW x \in S
  PROVE  /\ Append(q, x) \in Seq(S)
         /\ Elements(Append(q, x)) = Elements(q) \cup {x}
         /\ Distinct(q) /\ x \notin Elements(q) => Distinct(Append(q, x))
<1>1. /\ Append(q, x) \in Seq(S) /\ Len(Append(q, x)) = Len(q) + 1
      /\ \A i \in 1 .. Len(q) : Append(q, x)[i] = q[i]
      /\ Append(q, x)[Len(q) + 1] = x
      /\ DOMAIN q = 1 .. Len(q) /\ DOMAIN Append(q, x) = 1 .. Len(q) + 1 /\ Len(q) \in Nat
  OBVIOUS
<1> DEFINE a == Append(q, x)
<1> HIDE DEF a
<1>2. Elements(a) = Elements(q) \cup {x}
  BY <1>1 DEF Elements, a
<1>3. Distinct(q) /\ x \notin Elements(q) => Distinct(a)
  BY <1>1 DEF Elements, Distinct, a
<1>4. QED
  BY <1>1, <1>2, <1>3 DEF a

\* What is left of it when its first element is taken.
LEMMA Taken ==
  ASSUME NEW S, NEW q \in Seq(S), q # <<>>
  PROVE  /\ Tail(q) \in Seq(S) /\ Head(q) \in S
         /\ Elements(q) = {Head(q)} \cup Elements(Tail(q))
         /\ Distinct(q) => Distinct(Tail(q)) /\ Head(q) \notin Elements(Tail(q))
<1>1. /\ Tail(q) \in Seq(S) /\ Head(q) \in S /\ Head(q) = q[1]
      /\ Len(q) \in Nat /\ Len(q) >= 1 /\ Len(Tail(q)) = Len(q) - 1
      /\ DOMAIN q = 1 .. Len(q) /\ DOMAIN Tail(q) = 1 .. Len(q) - 1
      /\ \A i \in 1 .. Len(q) - 1 : Tail(q)[i] = q[i + 1]
  OBVIOUS
<1> DEFINE t == Tail(q)
<1>2. \A i \in DOMAIN q : q[i] = q[1] \/ \E j \in DOMAIN t : q[i] = t[j]
  <2> SUFFICES ASSUME NEW i \in DOMAIN q, i # 1 PROVE \E j \in DOMAIN t : q[i] = t[j]
    OBVIOUS
  <2>1. i - 1 \in 1 .. Len(q) - 1 /\ t[i - 1] = q[i]
    BY <1>1
  <2>2. QED
    BY <1>1, <2>1
<1> HIDE DEF t
<1>3. Elements(q) = {Head(q)} \cup Elements(t)
  BY <1>1, <1>2 DEF Elements, t
<1>4. ASSUME Distinct(q) PROVE Distinct(t) /\ Head(q) \notin Elements(t)
  BY <1>1, <1>4 DEF Elements, Distinct, t
<1>5. QED
  BY <1>1, <1>3, <1>4 DEF t

LEMMA ElementType == ASSUME NEW S, NEW q \in Seq(S), NEW i \in DOMAIN q PROVE q[i] \in S
  OBVIOUS

LEMMA ElementsTyped == ASSUME NEW S, NEW q \in Seq(S) PROVE Elements(q) \subseteq S
  BY DEF Elements

\* A queue of which one element is replaced.
LEMMA Replaced ==
  ASSUME NEW S, NEW q \in Seq(S), NEW i \in DOMAIN q, NEW x \in S
  PROVE  /\ [q EXCEPT ![i] = x] \in Seq(S) /\ DOMAIN [q EXCEPT ![i] = x] = DOMAIN q
  OBVIOUS

LEMMA Nothing == Elements(<<>>) = {} /\ Distinct(<<>>)
  BY DEF Elements, Distinct

-----------------------------------------------------------------------------
(***************************************************************************)
(* Types                                                                   *)
(***************************************************************************)
Once == subscribed \subseteq {None}

\* However many browsers came, their handlers have one id.
LEMMA OneHandler == ASSUME Once PROVE Cardinality(subscribed) \in {0, 1}
<1>1. subscribed = {} \/ subscribed = {None}
  BY DEF Once
<1>2. QED
  BY <1>1, FS_EmptySet, FS_Singleton

\* So a view is put at most once into the queue of the last browser.
LEMMA RelayedOnce ==
  ASSUME TypeOK, Once, NEW view \in View, Relays(view)
  PROVE  /\ toPage' \in [Browser -> Seq(View)]
         /\ \A b \in Browser : \/ toPage'[b] = toPage[b]
                               \/ toPage'[b] = Append(toPage[b], view)
<1> USE Bounds
<1>1. CASE ~(feWs # None /\ page[feWs])
  BY <1>1 DEF Relays, TypeOK
<1>2. CASE feWs # None /\ page[feWs]
  <2> DEFINE copies == [i \in 1 .. Cardinality(subscribed) |-> view]
  <2>1. feWs \in Browser /\ toPage[feWs] \in Seq(View)
    BY <1>2 DEF TypeOK
  <2>2. copies = <<>> \/ copies = <<view>>
    BY OneHandler
  <2>3. /\ toPage[feWs] \o <<>> = toPage[feWs]
        /\ toPage[feWs] \o <<view>> = Append(toPage[feWs], view)
        /\ Append(toPage[feWs], view) \in Seq(View)
    BY <2>1
  <2>4. toPage' = [toPage EXCEPT ![feWs] = @ \o copies]
    BY <1>2 DEF Relays
  <2> HIDE DEF copies
  <2>5. \A b \in Browser : toPage'[b] = IF b = feWs THEN toPage[b] \o copies ELSE toPage[b]
    BY <2>4 DEF TypeOK
  <2>6. toPage[feWs] \o copies \in Seq(View)
    BY <2>1, <2>2, <2>3
  <2>7. toPage' \in [Browser -> Seq(View)]
    BY <2>4, <2>6 DEF TypeOK
  <2>8. QED
    BY <2>2, <2>3, <2>5, <2>7
<1>3. QED
  BY <1>1, <1>2

\* Commands wait in queues without repetition; each of them was clicked.
Listed ==
  /\ DOMAIN ran = DOMAIN clicked
  /\ \A b \in Browser : Distinct(up[b]) /\ Elements(up[b]) \subseteq DOMAIN clicked
  /\ \A s \in Sys : Distinct(down[s]) /\ Elements(down[s]) \subseteq DOMAIN clicked

LEMMA ViewIsTyped ==
  ASSUME NEW v \in View
  PROVE  v.sys \in Sys /\ v.level \in {0, 1} /\ v.version \in 0 .. Versions
  BY DEF View

LEMMA TypeInit == Init => TypeOK
<1> SUFFICES ASSUME Init PROVE TypeOK
  OBVIOUS
<1> USE Bounds
<1>1. link \in [Sys -> BOOLEAN] /\ page \in [Browser -> BOOLEAN] /\ late_seen \in BOOLEAN
  BY Zenon DEF Init
<1>2. QED
  BY <1>1, SMT DEF Init, TypeOK

LEMMA TypeStep == ASSUME TypeOK, Once, Listed, [Next]_vars PROVE TypeOK'
<1> USE Bounds
<1>1. ASSUME NEW s \in Sys, SysConnects(s) PROVE TypeOK'
  BY <1>1 DEF SysConnects, TypeOK, viewing, commands
<1>2. ASSUME NEW b \in Browser, BrowserConnects(b) PROVE TypeOK'
  BY <1>2 DEF BrowserConnects, TypeOK, viewing, commands
<1>3. ASSUME NEW s \in Sys, SysBreaks(s) PROVE TypeOK'
  <2>1. lost' \subseteq DOMAIN clicked
    BY <1>3 DEF SysBreaks, TypeOK, Listed
  <2>2. late' \in [Sys -> Seq(View)] /\ views' \in [Sys -> Seq(View)]
    BY <1>3 DEF SysBreaks, TypeOK
  <2>3. QED
    BY <1>3, <2>1, <2>2 DEF SysBreaks, TypeOK
<1>4. ASSUME NEW b \in Browser, BrowserBreaks(b) PROVE TypeOK'
  <2>1. lost' \subseteq DOMAIN clicked
    BY <1>4 DEF BrowserBreaks, TypeOK, Listed
  <2>2. QED
    BY <1>4, <2>1 DEF BrowserBreaks, TypeOK
<1>5. ASSUME Restarts PROVE TypeOK'
  <2>1. lost' \subseteq DOMAIN clicked
    BY <1>5 DEF Restarts, TypeOK, Listed
  <2>2. /\ link' \in [Sys -> BOOLEAN] /\ page' \in [Browser -> BOOLEAN]
    BY <1>5, Zenon DEF Restarts
  <2>3. /\ views' \in [Sys -> Seq(View)] /\ late' \in [Sys -> Seq(View)]
        /\ toPage' \in [Browser -> Seq(View)]
        /\ up' \in [Browser -> Seq(Nat)] /\ down' \in [Sys -> Seq(Nat)]
    BY <1>5 DEF Restarts
  <2>4. faults' \in 0 .. Faults
    BY <1>5 DEF Restarts, TypeOK
  <2>5. /\ sysClient' \in Sys \cup {None} /\ feWs' \in Browser \cup {None}
        /\ UNCHANGED <<level, version, shown, clicked, setting, ran, late_seen>>
    BY <1>5 DEF Restarts
  <2>6. QED
    BY <2>1, <2>2, <2>3, <2>4, <2>5 DEF TypeOK
<1>6. ASSUME NEW s \in Sys, SendsView(s) PROVE TypeOK'
  <2>1. version' \in [Sys -> 0 .. Versions]
    BY <1>6 DEF SendsView, TypeOK, Lower
  <2>2. [sys |-> s, level |-> level[s], version |-> version'[s]] \in View
    BY <2>1 DEF TypeOK, View
  <2>3. views' \in [Sys -> Seq(View)]
    BY <1>6, <2>2 DEF SendsView, TypeOK
  <2>4. QED
    BY <1>6, <2>1, <2>3 DEF SendsView, TypeOK, sockets, commands
<1>7. ASSUME NEW s \in Sys, RelaysView(s) PROVE TypeOK'
  <2>1. views[s] \in Seq(View) /\ views[s] # <<>>
    BY <1>7 DEF RelaysView, TypeOK
  <2>2. Tail(views[s]) \in Seq(View) /\ Head(views[s]) \in View
    BY <2>1, Taken
  <2>3. toPage' \in [Browser -> Seq(View)]
    BY <1>7, <2>2, RelayedOnce DEF RelaysView
  <2>4. views' \in [Sys -> Seq(View)]
    BY <1>7, <2>2 DEF RelaysView, TypeOK
  <2>5. QED
    BY <1>7, <2>3, <2>4 DEF RelaysView, TypeOK, sockets, commands
<1>8. ASSUME NEW s \in Sys, RelaysLate(s) PROVE TypeOK'
  <2>1. late[s] \in Seq(View) /\ late[s] # <<>>
    BY <1>8 DEF RelaysLate, TypeOK
  <2>2. Tail(late[s]) \in Seq(View) /\ Head(late[s]) \in View
    BY <2>1, Taken
  <2>3. toPage' \in [Browser -> Seq(View)]
    BY <1>8, <2>2, RelayedOnce DEF RelaysLate
  <2>4. late' \in [Sys -> Seq(View)]
    BY <1>8, <2>2 DEF RelaysLate, TypeOK
  <2>5. QED
    BY <1>8, <2>3, <2>4 DEF RelaysLate, TypeOK, sockets, commands
<1>9. ASSUME NEW s \in Sys, LateEnds(s) PROVE TypeOK'
  BY <1>9 DEF LateEnds, TypeOK, sockets, commands
<1>10. ASSUME NEW b \in Browser, ShowsView(b) PROVE TypeOK'
  <2>1. toPage[b] \in Seq(View) /\ toPage[b] # <<>>
    BY <1>10 DEF ShowsView, TypeOK
  <2>2. Tail(toPage[b]) \in Seq(View) /\ Head(toPage[b]) \in View
    BY <2>1, Taken
  <2>3. Head(toPage[b]).sys \in Sys
    BY <2>2 DEF View
  <2>4. toPage' \in [Browser -> Seq(View)] /\ shown' \in [Browser -> [Sys -> View \cup {None}]]
    BY <1>10, <2>2, <2>3 DEF ShowsView, TypeOK
  <2>5. QED
    BY <1>10, <2>4 DEF ShowsView, TypeOK, sockets, commands
<1>11. ASSUME NEW b \in Browser, NEW s \in Sys, Click(b, s) PROVE TypeOK'
  <2>1. shown[b][s] \in View
    BY <1>11 DEF Click, TypeOK
  <2>2. [sys |-> s, val |-> 1 - shown[b][s].level] \in [sys : Sys, val : {0, 1}]
    BY <2>1 DEF View
  <2>3. /\ clicked' \in Seq([sys : Sys, val : {0, 1}]) /\ ran' \in Seq(Nat)
        /\ Len(clicked') \in Nat /\ DOMAIN clicked' = DOMAIN clicked \cup {Len(clicked')}
    <3>1. /\ clicked' = Append(clicked, [sys |-> s, val |-> 1 - shown[b][s].level])
          /\ ran' = Append(ran, 0)
          /\ clicked \in Seq([sys : Sys, val : {0, 1}]) /\ ran \in Seq(Nat)
      BY <1>11 DEF Click, TypeOK
    <3>2. QED
      BY <2>2, <3>1
  <2>4. up' \in [Browser -> Seq(Nat)] /\ lost' \subseteq DOMAIN clicked'
    <3>1. /\ up \in [Browser -> Seq(Nat)] /\ lost \subseteq DOMAIN clicked
          /\ \/ up' = [up EXCEPT ![b] = Append(@, Len(clicked'))] /\ lost' = lost
             \/ up' = up /\ lost' = lost \cup {Len(clicked')}
      BY <1>11 DEF Click, TypeOK
    <3>2. Append(up[b], Len(clicked')) \in Seq(Nat)
      <4>1. up[b] \in Seq(Nat) /\ Len(clicked') \in Nat
        BY <2>3, <3>1
      <4>2. QED
        BY <4>1, Appended
    <3>3. QED
      BY <2>3, <3>1, <3>2
  <2>5. setting' \in [Sys -> SUBSET DOMAIN clicked']
    BY <1>11, <2>3 DEF Click, TypeOK
  <2>6. QED
    BY <1>11, <2>3, <2>4, <2>5 DEF Click, TypeOK, sockets, viewing
<1>12. ASSUME NEW b \in Browser, RelaysCommand(b) PROVE TypeOK'
  <2>1. up[b] \in Seq(Nat) /\ up[b] # <<>>
    BY <1>12 DEF RelaysCommand, TypeOK
  <2>2. /\ Tail(up[b]) \in Seq(Nat) /\ Head(up[b]) \in Nat
        /\ Head(up[b]) \in DOMAIN clicked
    BY <2>1, Taken DEF Listed
  <2>3. up' \in [Browser -> Seq(Nat)] /\ down' \in [Sys -> Seq(Nat)]
    <3>1. up \in [Browser -> Seq(Nat)] /\ down \in [Sys -> Seq(Nat)]
      BY DEF TypeOK
    <3>2. \A s \in Sys : Append(down[s], Head(up[b])) \in Seq(Nat)
      BY <2>2, <3>1
    <3>3. QED
      BY <1>12, <2>2, <3>1, <3>2 DEF RelaysCommand
  <2>4. QED
    BY <1>12, <2>2, <2>3 DEF RelaysCommand, TypeOK, sockets, viewing
<1>13. ASSUME NEW s \in Sys, StartsCommand(s) PROVE TypeOK'
  <2>1. down[s] \in Seq(Nat) /\ down[s] # <<>>
    BY <1>13 DEF StartsCommand, TypeOK
  <2>2. Tail(down[s]) \in Seq(Nat) /\ Head(down[s]) \in DOMAIN clicked
    BY <2>1, Taken DEF Listed
  <2>3. down' \in [Sys -> Seq(Nat)]
    BY <1>13, <2>2 DEF StartsCommand, TypeOK
  <2>4. setting' \in [Sys -> SUBSET DOMAIN clicked] /\ lost' \subseteq DOMAIN clicked
    <3>1. setting \in [Sys -> SUBSET DOMAIN clicked] /\ lost \subseteq DOMAIN clicked
      BY DEF TypeOK
    <3>2. \/ /\ setting' = [setting EXCEPT ![s] = @ \cup {Head(down[s])}]
             /\ lost' = lost
          \/ lost' = lost \cup {Head(down[s])} /\ setting' = setting
      BY <1>13 DEF StartsCommand
    <3>3. QED
      BY <2>2, <3>1, <3>2
  <2>5. QED
    BY <1>13, <2>3, <2>4 DEF StartsCommand, TypeOK, sockets, viewing
<1>14. ASSUME NEW s \in Sys, NEW c \in setting[s], Sets(s, c) PROVE TypeOK'
  <2>1. c \in DOMAIN clicked /\ c \in DOMAIN ran
    BY DEF TypeOK, Listed
  <2>2. clicked[c] \in [sys : Sys, val : {0, 1}] /\ ran[c] \in Nat
    <3>1. clicked \in Seq([sys : Sys, val : {0, 1}]) /\ ran \in Seq(Nat)
      BY DEF TypeOK
    <3>2. QED
      BY <2>1, <3>1, ElementType
  <2>3. level' \in [Sys -> {0, 1}] /\ ran' \in Seq(Nat)
    <3>1. level \in [Sys -> {0, 1}] /\ ran \in Seq(Nat)
      BY DEF TypeOK
    <3>2. level' = [level EXCEPT ![s] = clicked[c].val] /\ ran' = [ran EXCEPT ![c] = ran[c] + 1]
      BY <1>14 DEF Sets
    <3>3. ran[c] + 1 \in Nat
      BY <2>2
    <3>4. [ran EXCEPT ![c] = ran[c] + 1] \in Seq(Nat)
      BY <2>1, <3>1, <3>3, Replaced
    <3>5. QED
      BY <2>2, <3>1, <3>2, <3>4
  <2>4. setting' \in [Sys -> SUBSET DOMAIN clicked]
    BY <1>14 DEF Sets, TypeOK
  <2>5. QED
    BY <1>14, <2>3, <2>4 DEF Sets, TypeOK, sockets, viewing
<1>15. CASE UNCHANGED vars
  BY <1>15 DEF vars, sockets, viewing, commands, TypeOK
<1>16. QED
  BY <1>1, <1>2, <1>3, <1>4, <1>5, <1>6, <1>7, <1>8, <1>9, <1>10, <1>11, <1>12,
     <1>13, <1>14, <1>15 DEF Next

-----------------------------------------------------------------------------
(***************************************************************************)
(* Where the commands are                                                  *)
(***************************************************************************)
UpAt(c)   == {b \in Browser : c \in Elements(up[b])}
DownAt(c) == {s \in Sys : c \in Elements(down[s])}
SetAt(c)  == {s \in Sys : c \in setting[s]}

\* U, D, S: the places under way where a command is; n: how often it was carried
\* out; l: it was lost.
Alone(U, D, S, n, l) ==
  \/ (\E b \in Browser : U = {b}) /\ D = {} /\ S = {} /\ n = 0 /\ ~l
  \/ U = {} /\ (\E s \in Sys : D = {s}) /\ S = {} /\ n = 0 /\ ~l
  \/ U = {} /\ D = {} /\ (\E s \in Sys : S = {s}) /\ n = 0 /\ ~l
  \/ U = {} /\ D = {} /\ S = {} /\ n = 1 /\ ~l
  \/ U = {} /\ D = {} /\ S = {} /\ n = 0 /\ l

Single(c) == Alone(UpAt(c), DownAt(c), SetAt(c), ran[c], c \in lost)

AtHome == \A s \in Sys : \A c \in setting[s] : clicked[c].sys = s

Kept == Listed /\ AtHome /\ \A c \in DOMAIN clicked : Single(c)

\* In the terms of the property: there is one place.
LEMMA SingleIsOne == ASSUME NEW c, Single(c) PROVE Cardinality(Places(c)) = 1
<1> DEFINE P == Places(c)
<1>1. P = {<<"up", b>> : b \in UpAt(c)} \cup {<<"down", s>> : s \in DownAt(c)}
            \cup {<<"setting", s>> : s \in SetAt(c)}
            \cup {<<"ran", n>> : n \in 1 .. ran[c]}
            \cup {<<"lost", 0>> : l \in {x \in lost : x = c}}
  BY DEF Places, UpAt, DownAt, SetAt
<1> HIDE DEF P
<1>2. SUFFICES \E x : P = {x}
  BY FS_Singleton DEF P
<1>3. CASE (\E b \in Browser : UpAt(c) = {b}) /\ DownAt(c) = {} /\ SetAt(c) = {} /\ ran[c] = 0
           /\ c \notin lost
  <2>1. PICK b \in Browser : UpAt(c) = {b}
    BY <1>3
  <2>2. P = {<<"up", b>>}
    BY <1>1, <1>3, <2>1
  <2>3. QED
    BY <2>2
<1>4. CASE UpAt(c) = {} /\ (\E s \in Sys : DownAt(c) = {s}) /\ SetAt(c) = {} /\ ran[c] = 0
           /\ c \notin lost
  <2>1. PICK s \in Sys : DownAt(c) = {s}
    BY <1>4
  <2>2. P = {<<"down", s>>}
    BY <1>1, <1>4, <2>1
  <2>3. QED
    BY <2>2
<1>5. CASE UpAt(c) = {} /\ DownAt(c) = {} /\ (\E s \in Sys : SetAt(c) = {s}) /\ ran[c] = 0
           /\ c \notin lost
  <2>1. PICK s \in Sys : SetAt(c) = {s}
    BY <1>5
  <2>2. P = {<<"setting", s>>}
    BY <1>1, <1>5, <2>1
  <2>3. QED
    BY <2>2
<1>6. CASE UpAt(c) = {} /\ DownAt(c) = {} /\ SetAt(c) = {} /\ ran[c] = 1 /\ c \notin lost
  <2>1. P = {<<"ran", 1>>}
    BY <1>1, <1>6
  <2>2. QED
    BY <2>1
<1>7. CASE UpAt(c) = {} /\ DownAt(c) = {} /\ SetAt(c) = {} /\ ran[c] = 0 /\ c \in lost
  <2>1. P = {<<"lost", 0>>}
    BY <1>1, <1>7
  <2>2. QED
    BY <2>1
<1>8. QED
  BY <1>3, <1>4, <1>5, <1>6, <1>7 DEF Single, Alone

\* A step that does not touch the commands.
LEMMA Untouched ==
  ASSUME Kept, UNCHANGED <<clicked, up, down, setting, ran, lost>>
  PROVE  Kept'
<1>1. Listed'
  BY DEF Kept, Listed, Elements, Distinct
<1>2. AtHome'
  BY DEF Kept, AtHome
<1>3. ASSUME NEW c \in DOMAIN clicked PROVE Single(c)'
  <2>1. UpAt(c)' = UpAt(c) /\ DownAt(c)' = DownAt(c) /\ SetAt(c)' = SetAt(c)
    BY DEF UpAt, DownAt, SetAt, Elements
  <2>2. QED
    BY <2>1 DEF Kept, Single
<1>4. QED
  BY <1>1, <1>2, <1>3 DEF Kept

\* The queue of a broken socket is lost with it.
LEMMA SysLoses == ASSUME TypeOK, Kept, NEW s \in Sys, SysBreaks(s) PROVE Kept'
<1>1. /\ down' = [down EXCEPT ![s] = <<>>] /\ lost' = lost \cup Elements(down[s])
      /\ UNCHANGED <<clicked, up, setting, ran>>
      /\ down \in [Sys -> Seq(Nat)]
  BY DEF SysBreaks, TypeOK
<1>2. down'[s] = <<>> /\ \A t \in Sys \ {s} : down'[t] = down[t]
  BY <1>1
<1>3. Listed'
  <2>1. \A t \in Sys : Distinct(down'[t]) /\ Elements(down'[t]) \subseteq DOMAIN clicked
    BY <1>2, Nothing DEF Kept, Listed
  <2>2. QED
    BY <1>1, <2>1 DEF Kept, Listed
<1>4. AtHome'
  BY <1>1 DEF Kept, AtHome
<1>5. ASSUME NEW c \in DOMAIN clicked PROVE Single(c)'
  <2>1. UpAt(c)' = UpAt(c) /\ SetAt(c)' = SetAt(c) /\ ran'[c] = ran[c]
    BY <1>1 DEF UpAt, SetAt
  <2>2. DownAt(c)' = DownAt(c) \ {s}
    BY <1>2, Nothing DEF DownAt
  <2>3. c \in lost' <=> c \in lost \/ s \in DownAt(c)
    BY <1>1 DEF DownAt
  <2>4. QED
    BY <2>1, <2>2, <2>3 DEF Kept, Single, Alone
<1>6. QED
  BY <1>1, <1>3, <1>4, <1>5 DEF Kept

LEMMA BrowserLoses == ASSUME TypeOK, Kept, NEW b \in Browser, BrowserBreaks(b) PROVE Kept'
<1>1. /\ up' = [up EXCEPT ![b] = <<>>] /\ lost' = lost \cup Elements(up[b])
      /\ UNCHANGED <<clicked, down, setting, ran>>
      /\ up \in [Browser -> Seq(Nat)]
  BY DEF BrowserBreaks, TypeOK
<1>2. up'[b] = <<>> /\ \A d \in Browser \ {b} : up'[d] = up[d]
  BY <1>1
<1>3. Listed'
  <2>1. \A d \in Browser : Distinct(up'[d]) /\ Elements(up'[d]) \subseteq DOMAIN clicked
    BY <1>2, Nothing DEF Kept, Listed
  <2>2. QED
    BY <1>1, <2>1 DEF Kept, Listed
<1>4. AtHome'
  BY <1>1 DEF Kept, AtHome
<1>5. ASSUME NEW c \in DOMAIN clicked PROVE Single(c)'
  <2>1. DownAt(c)' = DownAt(c) /\ SetAt(c)' = SetAt(c) /\ ran'[c] = ran[c]
    BY <1>1 DEF DownAt, SetAt
  <2>2. UpAt(c)' = UpAt(c) \ {b}
    BY <1>2, Nothing DEF UpAt
  <2>3. c \in lost' <=> c \in lost \/ b \in UpAt(c)
    BY <1>1 DEF UpAt
  <2>4. QED
    BY <2>1, <2>2, <2>3 DEF Kept, Single, Alone
<1>6. QED
  BY <1>1, <1>3, <1>4, <1>5 DEF Kept

\* A restart of the public server loses all that is under way.
LEMMA RestartLoses == ASSUME TypeOK, Kept, Restarts PROVE Kept'
<1>1. /\ up' = [b \in Browser |-> <<>>] /\ down' = [s \in Sys |-> <<>>]
      /\ UNCHANGED <<clicked, setting, ran>>
  BY DEF Restarts
<1>2. \A c : c \in lost' <=> c \in lost \/ UpAt(c) # {} \/ DownAt(c) # {}
  BY DEF Restarts, UpAt, DownAt
<1>3. Listed'
  BY <1>1, Nothing DEF Kept, Listed
<1>4. AtHome'
  BY <1>1 DEF Kept, AtHome
<1>5. ASSUME NEW c \in DOMAIN clicked PROVE Single(c)'
  <2>1. UpAt(c)' = {} /\ DownAt(c)' = {} /\ SetAt(c)' = SetAt(c) /\ ran'[c] = ran[c]
    BY <1>1, Nothing DEF UpAt, DownAt, SetAt
  <2>2. QED
    BY <1>2, <2>1 DEF Kept, Single, Alone
<1>6. QED
  BY <1>1, <1>3, <1>4, <1>5 DEF Kept

\* A click makes one command, of a new number.
LEMMA ClickIsOne ==
  ASSUME TypeOK, Kept, NEW b \in Browser, NEW s \in Sys, Click(b, s) PROVE Kept'
<1>0. PICK n : n = Len(clicked')
  OBVIOUS
<1>1. /\ clicked' = Append(clicked, [sys |-> s, val |-> 1 - shown[b][s].level])
      /\ ran' = Append(ran, 0)
      /\ \/ up' = [up EXCEPT ![b] = Append(@, n)] /\ lost' = lost
         \/ lost' = lost \cup {n} /\ up' = up
      /\ UNCHANGED <<down, setting>>
  BY <1>0 DEF Click
<1>2. /\ clicked \in Seq([sys : Sys, val : {0, 1}]) /\ ran \in Seq(Nat)
      /\ up \in [Browser -> Seq(Nat)] /\ lost \subseteq DOMAIN clicked
      /\ setting \in [Sys -> SUBSET DOMAIN clicked]
  BY DEF TypeOK
<1>3. /\ n \in Nat /\ n \notin DOMAIN clicked /\ DOMAIN clicked' = DOMAIN clicked \cup {n}
      /\ DOMAIN ran' = DOMAIN clicked' /\ ran'[n] = 0
      /\ \A c \in DOMAIN clicked : clicked'[c] = clicked[c] /\ ran'[c] = ran[c]
  <2>1. DOMAIN ran = DOMAIN clicked
    BY DEF Kept, Listed
  <2>2. Len(ran) = Len(clicked)
    BY <1>2, <2>1
  <2>3. QED
    BY <1>0, <1>1, <1>2, <2>1, <2>2
<1>4. n \notin Elements(up[b])
  BY <1>3 DEF Kept, Listed
<1>5. \A d \in Browser : /\ Distinct(up'[d])
                         /\ \/ Elements(up'[d]) = Elements(up[d])
                            \/ d = b /\ Elements(up'[d]) = Elements(up[d]) \cup {n} /\ lost' = lost
  <2>1. /\ Elements(Append(up[b], n)) = Elements(up[b]) \cup {n}
        /\ Distinct(Append(up[b], n))
    <3>1. up[b] \in Seq(Nat) /\ Distinct(up[b])
      BY <1>2 DEF Kept, Listed
    <3>2. QED
      BY <1>3, <1>4, <3>1, Appended
  <2>2. QED
    BY <1>1, <1>2, <2>1 DEF Kept, Listed
<1>6. Listed'
  BY <1>1, <1>3, <1>5 DEF Kept, Listed
<1>7. AtHome'
  BY <1>1, <1>2, <1>3 DEF Kept, AtHome
<1>8. ASSUME NEW c \in DOMAIN clicked PROVE Single(c)'
  <2>0. \A d \in Browser : c \in Elements(up'[d]) <=> c \in Elements(up[d])
    BY <1>3, <1>5
  <2>1. UpAt(c)' = UpAt(c) /\ DownAt(c)' = DownAt(c) /\ SetAt(c)' = SetAt(c)
    BY <1>1, <2>0 DEF UpAt, DownAt, SetAt
  <2>2. ran'[c] = ran[c] /\ (c \in lost' <=> c \in lost)
    BY <1>1, <1>3
  <2>3. QED
    BY <2>1, <2>2 DEF Kept, Single
<1>9. Single(n)'
  <2>1. DownAt(n)' = {} /\ SetAt(n)' = {}
    BY <1>1, <1>2, <1>3 DEF Kept, Listed, DownAt, SetAt
  <2>2. (UpAt(n)' = {b} /\ lost' = lost) \/ (UpAt(n)' = {} /\ n \in lost')
    <3>1. \A d \in Browser : n \notin Elements(up[d])
      BY <1>3 DEF Kept, Listed
    <3>2. CASE up' = up /\ lost' = lost \cup {n}
      BY <3>1, <3>2 DEF UpAt
    <3>3. CASE up' = [up EXCEPT ![b] = Append(@, n)] /\ lost' = lost
      <4>1. Elements(up'[b]) = Elements(up[b]) \cup {n}
        <5>1. up[b] \in Seq(Nat) /\ up'[b] = Append(up[b], n)
          BY <1>2, <3>3
        <5>2. QED
          BY <1>3, <5>1, Appended
      <4>2. \A d \in Browser \ {b} : up'[d] = up[d]
        BY <1>2, <3>3
      <4>3. \A d \in Browser : n \in Elements(up'[d]) <=> d = b
        <5>1. ASSUME NEW d \in Browser, d # b PROVE n \notin Elements(up'[d])
          BY <3>1, <4>2, <5>1
        <5>2. QED
          BY <4>1, <5>1
      <4>4. UpAt(n)' = {b}
        BY <4>3 DEF UpAt
      <4>5. QED
        BY <3>3, <4>4
    <3>4. QED
      BY <1>1, <3>2, <3>3
  <2>3. QED
    BY <1>2, <1>3, <2>1, <2>2 DEF Single, Alone
<1>10. QED
  BY <1>3, <1>6, <1>7, <1>8, <1>9 DEF Kept

\* A command sent on is in the other queue, or lost for want of a system.
LEMMA CommandMoves == ASSUME TypeOK, Kept, NEW b \in Browser, RelaysCommand(b) PROVE Kept'
<1>0. PICK n : n = Head(up[b])
  OBVIOUS
<1>1. /\ up[b] # <<>> /\ up' = [up EXCEPT ![b] = Tail(@)]
      /\ down' = [s \in Sys |-> IF s \in Target THEN Append(down[s], n) ELSE down[s]]
      /\ lost' = IF Target = {} THEN lost \cup {n} ELSE lost
      /\ UNCHANGED <<clicked, setting, ran>>
  BY <1>0 DEF RelaysCommand
<1>2. up \in [Browser -> Seq(Nat)] /\ down \in [Sys -> Seq(Nat)]
  BY DEF TypeOK
<1>3. Target = {} \/ \E s \in Sys : Target = {s}
  BY DEF Target
<1>4. /\ n \in Nat /\ Elements(up[b]) = {n} \cup Elements(Tail(up[b]))
      /\ Distinct(Tail(up[b])) /\ n \notin Elements(Tail(up[b]))
  <2>1. up[b] \in Seq(Nat) /\ Distinct(up[b])
    BY <1>2 DEF Kept, Listed
  <2>2. QED
    BY <1>0, <1>1, <2>1, Taken
<1>5. n \in DOMAIN clicked /\ b \in UpAt(n)
  BY <1>4 DEF Kept, Listed, UpAt
<1>6. UpAt(n) = {b} /\ DownAt(n) = {} /\ SetAt(n) = {} /\ ran[n] = 0 /\ n \notin lost
  BY <1>5 DEF Kept, Single, Alone
<1>7. /\ Elements(up'[b]) = Elements(up[b]) \ {n} /\ Distinct(up'[b])
      /\ \A d \in Browser \ {b} : up'[d] = up[d]
  BY <1>1, <1>2, <1>4
<1>8. \A s \in Sys : IF s \in Target
                     THEN Elements(down'[s]) = Elements(down[s]) \cup {n} /\ Distinct(down'[s])
                     ELSE down'[s] = down[s]
  <2> SUFFICES ASSUME NEW s \in Sys, s \in Target
               PROVE  Elements(down'[s]) = Elements(down[s]) \cup {n} /\ Distinct(down'[s])
    BY <1>1
  <2>1. down[s] \in Seq(Nat) /\ Distinct(down[s]) /\ n \notin Elements(down[s])
    BY <1>2, <1>6 DEF Kept, Listed, DownAt
  <2>2. down'[s] = Append(down[s], n)
    BY <1>1
  <2>3. QED
    BY <1>4, <2>1, <2>2, Appended
<1>9. Listed'
  <2>1. \A d \in Browser : Distinct(up'[d]) /\ Elements(up'[d]) \subseteq DOMAIN clicked
    BY <1>7 DEF Kept, Listed
  <2>2. \A s \in Sys : Distinct(down'[s]) /\ Elements(down'[s]) \subseteq DOMAIN clicked
    BY <1>5, <1>8 DEF Kept, Listed
  <2>3. QED
    BY <1>1, <2>1, <2>2 DEF Kept, Listed
<1>10. AtHome'
  BY <1>1 DEF Kept, AtHome
<1>11. ASSUME NEW c \in DOMAIN clicked, c # n PROVE Single(c)'
  <2>1. \A d \in Browser : c \in Elements(up'[d]) <=> c \in Elements(up[d])
    BY <1>7, <1>11
  <2>2. \A s \in Sys : c \in Elements(down'[s]) <=> c \in Elements(down[s])
    BY <1>8, <1>11
  <2>3. UpAt(c)' = UpAt(c) /\ DownAt(c)' = DownAt(c) /\ SetAt(c)' = SetAt(c)
    BY <1>1, <2>1, <2>2 DEF UpAt, DownAt, SetAt
  <2>4. ran'[c] = ran[c] /\ (c \in lost' <=> c \in lost)
    BY <1>1, <1>11
  <2>5. QED
    BY <2>3, <2>4 DEF Kept, Single
<1>12. Single(n)'
  <2>1. \A d \in Browser : n \notin Elements(up'[d])
    BY <1>6, <1>7 DEF UpAt
  <2>2. \A s \in Sys : n \in Elements(down'[s]) <=> s \in Target
    BY <1>6, <1>8 DEF DownAt
  <2>3. UpAt(n)' = {} /\ DownAt(n)' = Target /\ SetAt(n)' = {} /\ ran'[n] = 0
    <3>1. Target \subseteq Sys
      BY DEF Target
    <3>2. QED
      BY <1>1, <1>6, <2>1, <2>2, <3>1 DEF UpAt, DownAt, SetAt
  <2>4. n \in lost' <=> Target = {}
    BY <1>1, <1>6
  <2>5. QED
    BY <1>3, <2>3, <2>4 DEF Single, Alone
<1>13. QED
  BY <1>1, <1>9, <1>10, <1>11, <1>12 DEF Kept

\* A system starts a command for its own device, and drops any other.
LEMMA CommandStarts == ASSUME TypeOK, Kept, NEW s \in Sys, StartsCommand(s) PROVE Kept'
<1>0. PICK n : n = Head(down[s])
  OBVIOUS
<1>1. /\ down[s] # <<>> /\ down' = [down EXCEPT ![s] = Tail(@)]
      /\ \/ /\ clicked[n].sys = s /\ lost' = lost
            /\ setting' = [setting EXCEPT ![s] = @ \cup {n}]
         \/ lost' = lost \cup {n} /\ setting' = setting
      /\ UNCHANGED <<clicked, up, ran>>
  BY <1>0 DEF StartsCommand, KnownTo
<1>2. /\ down \in [Sys -> Seq(Nat)]
      /\ setting \in [Sys -> SUBSET DOMAIN clicked]
  BY DEF TypeOK
<1>4. /\ n \in Nat /\ Elements(down[s]) = {n} \cup Elements(Tail(down[s]))
      /\ Distinct(Tail(down[s])) /\ n \notin Elements(Tail(down[s]))
  <2>1. down[s] \in Seq(Nat) /\ Distinct(down[s])
    BY <1>2 DEF Kept, Listed
  <2>2. QED
    BY <1>0, <1>1, <2>1, Taken
<1>5. n \in DOMAIN clicked /\ s \in DownAt(n)
  BY <1>4 DEF Kept, Listed, DownAt
<1>6. UpAt(n) = {} /\ DownAt(n) = {s} /\ SetAt(n) = {} /\ ran[n] = 0 /\ n \notin lost
  BY <1>5 DEF Kept, Single, Alone
<1>7. /\ Elements(down'[s]) = Elements(down[s]) \ {n} /\ Distinct(down'[s])
      /\ \A t \in Sys \ {s} : down'[t] = down[t]
  BY <1>1, <1>2, <1>4
<1>8. Listed'
  <2>1. \A t \in Sys : Distinct(down'[t]) /\ Elements(down'[t]) \subseteq DOMAIN clicked
    BY <1>7 DEF Kept, Listed
  <2>2. QED
    BY <1>1, <2>1 DEF Kept, Listed
<1>9. AtHome'
  <2> SUFFICES ASSUME NEW t \in Sys, NEW c \in setting'[t] PROVE clicked[c].sys = t
    BY <1>1 DEF AtHome
  <2>1. c \in setting[t] \/ (t = s /\ c = n /\ clicked[n].sys = s)
    BY <1>1, <1>2
  <2>2. QED
    BY <2>1 DEF Kept, AtHome
<1>10. ASSUME NEW c \in DOMAIN clicked, c # n PROVE Single(c)'
  <2>1. \A t \in Sys : c \in Elements(down'[t]) <=> c \in Elements(down[t])
    BY <1>7, <1>10
  <2>2. \A t \in Sys : c \in setting'[t] <=> c \in setting[t]
    BY <1>1, <1>2, <1>10
  <2>3. UpAt(c)' = UpAt(c) /\ DownAt(c)' = DownAt(c) /\ SetAt(c)' = SetAt(c)
    BY <1>1, <2>1, <2>2 DEF UpAt, DownAt, SetAt
  <2>4. ran'[c] = ran[c] /\ (c \in lost' <=> c \in lost)
    BY <1>1, <1>10
  <2>5. QED
    BY <2>3, <2>4 DEF Kept, Single
<1>11. Single(n)'
  <2>1. \A t \in Sys : n \notin Elements(down'[t])
    BY <1>6, <1>7 DEF DownAt
  <2>2. UpAt(n)' = {} /\ DownAt(n)' = {} /\ ran'[n] = 0
    BY <1>1, <1>6, <2>1 DEF UpAt, DownAt
  <2>3. (SetAt(n)' = {s} /\ n \notin lost') \/ (SetAt(n)' = {} /\ n \in lost')
    BY <1>1, <1>2, <1>6 DEF SetAt
  <2>4. QED
    BY <2>2, <2>3 DEF Single, Alone
<1>12. QED
  BY <1>1, <1>8, <1>9, <1>10, <1>11 DEF Kept

\* The device carries out a command that no other system has.
LEMMA CommandIsRun ==
  ASSUME TypeOK, Kept, NEW s \in Sys, NEW n \in setting[s], Sets(s, n) PROVE Kept'
<1>1. /\ setting' = [setting EXCEPT ![s] = @ \ {n}] /\ ran' = [ran EXCEPT ![n] = @ + 1]
      /\ UNCHANGED <<clicked, up, down, lost>>
  BY DEF Sets
<1>2. setting \in [Sys -> SUBSET DOMAIN clicked] /\ ran \in Seq(Nat)
  BY DEF TypeOK
<1>3. n \in DOMAIN clicked /\ s \in SetAt(n) /\ DOMAIN ran = DOMAIN clicked
  BY <1>2 DEF Kept, Listed, SetAt
<1>4. UpAt(n) = {} /\ DownAt(n) = {} /\ SetAt(n) = {s} /\ ran[n] = 0 /\ n \notin lost
  BY <1>3 DEF Kept, Single, Alone
<1>5. Listed'
  BY <1>1, <1>2, <1>3 DEF Kept, Listed
<1>6. AtHome'
  BY <1>1, <1>2 DEF Kept, AtHome
<1>7. ASSUME NEW c \in DOMAIN clicked, c # n PROVE Single(c)'
  <2>1. \A t \in Sys : c \in setting'[t] <=> c \in setting[t]
    BY <1>1, <1>2, <1>7
  <2>2. UpAt(c)' = UpAt(c) /\ DownAt(c)' = DownAt(c) /\ SetAt(c)' = SetAt(c)
    BY <1>1, <2>1 DEF UpAt, DownAt, SetAt
  <2>3. ran'[c] = ran[c] /\ (c \in lost' <=> c \in lost)
    BY <1>1, <1>2, <1>3, <1>7
  <2>4. QED
    BY <2>2, <2>3 DEF Kept, Single
<1>8. Single(n)'
  <2>1. UpAt(n)' = {} /\ DownAt(n)' = {} /\ SetAt(n)' = {}
    BY <1>1, <1>2, <1>4 DEF UpAt, DownAt, SetAt
  <2>2. ran'[n] = 1 /\ n \notin lost'
    BY <1>1, <1>2, <1>3, <1>4
  <2>3. QED
    BY <2>1, <2>2 DEF Single, Alone
<1>9. QED
  BY <1>1, <1>5, <1>6, <1>7, <1>8 DEF Kept

-----------------------------------------------------------------------------
(***************************************************************************)
(* The order of views.  What is under way is older than what its system    *)
(* sends next; a page shows what is older than all that may come to it.    *)
(***************************************************************************)
Sorted(q) == \A i, j \in DOMAIN q : i < j /\ q[i].sys = q[j].sys => Newer(q[i], q[j])

Ages ==
  /\ \A s \in Sys : \A v \in Elements(views[s]) \cup Elements(late[s]) :
       v.sys = s /\ v.version <= version[s]
  /\ \A b \in Browser : \A v \in Elements(toPage[b]) : v.version <= version[v.sys]
  /\ \A b \in Browser, s \in Sys : shown[b][s] # None => shown[b][s].version <= version[s]

Ordered ==
  /\ \A s \in Sys : Sorted(views[s])
  /\ \A b \in Browser : Sorted(toPage[b])
  /\ \A b \in Browser : \A w \in Elements(toPage[b]) :
       /\ Newer(shown[b][w.sys], w)
       /\ \A v \in Elements(views[w.sys]) : Newer(w, v)
  /\ \A b \in Browser, s \in Sys : \A v \in Elements(views[s]) : Newer(shown[b][s], v)

InOrder == Ages /\ (late_seen \/ Ordered)

LEMMA SortedAppended ==
  ASSUME NEW q \in Seq(View), NEW x \in View, Sorted(q),
         \A v \in Elements(q) : v.sys = x.sys => Newer(v, x)
  PROVE  Sorted(Append(q, x))
<1> DEFINE a == Append(q, x)
<1>1. /\ Len(q) \in Nat /\ DOMAIN q = 1 .. Len(q) /\ DOMAIN a = 1 .. Len(q) + 1
      /\ \A i \in 1 .. Len(q) : a[i] = q[i]
      /\ a[Len(q) + 1] = x
  OBVIOUS
<1> HIDE DEF a
<1>2. ASSUME NEW i \in DOMAIN a, NEW j \in DOMAIN a, i < j, a[i].sys = a[j].sys
      PROVE  Newer(a[i], a[j])
  <2>1. i \in 1 .. Len(q) /\ a[i] = q[i] /\ q[i] \in Elements(q)
    BY <1>1, <1>2 DEF Elements
  <2>2. CASE j \in 1 .. Len(q)
    BY <1>1, <1>2, <2>1, <2>2 DEF Sorted
  <2>3. CASE j = Len(q) + 1
    BY <1>1, <1>2, <2>1, <2>3
  <2>4. QED
    BY <1>1, <2>2, <2>3
<1>3. QED
  BY <1>2 DEF Sorted, a

LEMMA SortedTaken ==
  ASSUME NEW q \in Seq(View), q # <<>>, Sorted(q)
  PROVE  /\ Sorted(Tail(q))
         /\ \A v \in Elements(Tail(q)) : v.sys = Head(q).sys => Newer(Head(q), v)
<1> DEFINE t == Tail(q)
<1>1. /\ Head(q) = q[1] /\ Len(q) \in Nat /\ Len(q) >= 1
      /\ DOMAIN q = 1 .. Len(q) /\ DOMAIN t = 1 .. Len(q) - 1
      /\ \A i \in 1 .. Len(q) - 1 : t[i] = q[i + 1]
  OBVIOUS
<1> HIDE DEF t
<1>2. Sorted(t)
  BY <1>1 DEF Sorted
<1>3. ASSUME NEW i \in DOMAIN t, t[i].sys = q[1].sys PROVE Newer(q[1], t[i])
  <2>1. i + 1 \in DOMAIN q /\ 1 \in DOMAIN q /\ 1 < i + 1 /\ t[i] = q[i + 1]
    BY <1>1
  <2>2. QED
    BY <1>3, <2>1 DEF Sorted
<1>4. QED
  BY <1>1, <1>2, <1>3 DEF Elements, t

LEMMA NothingIsSorted == Sorted(<<>>)
  BY DEF Sorted

LEMMA ViewsUntouched ==
  ASSUME InOrder, UNCHANGED <<version, views, late, toPage, shown, late_seen>>
  PROVE  InOrder'
<1>1. /\ \A s \in Sys : Elements(views[s])' = Elements(views[s])
      /\ \A s \in Sys : Elements(late[s])' = Elements(late[s])
      /\ \A b \in Browser : Elements(toPage[b])' = Elements(toPage[b])
  BY DEF Elements
<1>2. Ages'
  BY <1>1 DEF InOrder, Ages
<1>3. Ordered => Ordered'
  BY <1>1 DEF Ordered, Sorted, Newer
<1>4. QED
  BY <1>2, <1>3 DEF InOrder

\* A new view is newer than all of its system: the version goes up, or is the
\* last that is told apart.
LEMMA SendingIsOrdered == ASSUME TypeOK, InOrder, NEW s \in Sys, SendsView(s) PROVE InOrder'
<1> USE Bounds
<1>1. PICK x : x = [sys |-> s, level |-> level[s], version |-> version'[s]]
  OBVIOUS
<1>2. /\ version' = [version EXCEPT ![s] = Lower(@ + 1, Versions)]
      /\ views' = [views EXCEPT ![s] = Append(@, x)]
      /\ UNCHANGED <<late, toPage, shown, late_seen>>
  BY <1>1 DEF SendsView
<1>3. /\ version \in [Sys -> 0 .. Versions] /\ views \in [Sys -> Seq(View)]
      /\ late \in [Sys -> Seq(View)] /\ toPage \in [Browser -> Seq(View)]
      /\ shown \in [Browser -> [Sys -> View \cup {None}]] /\ level \in [Sys -> {0, 1}]
  BY DEF TypeOK
<1>4. /\ version'[s] \in 0 .. Versions /\ version[s] <= version'[s]
      /\ version[s] < version'[s] \/ version'[s] = Versions
      /\ \A t \in Sys \ {s} : version'[t] = version[t]
  BY <1>2, <1>3 DEF Lower
<1>5. x \in View /\ x.sys = s /\ x.version = version'[s]
  BY <1>1, <1>3, <1>4 DEF View
<1>6. ASSUME NEW v \in View, v.version <= version[s] PROVE Newer(v, x)
  <2>1. v.version \in Nat /\ version[s] \in Nat /\ version'[s] \in Nat
    BY <1>3, <1>4, ViewIsTyped
  <2>2. v.version < x.version \/ x.version = Versions
    BY <1>4, <1>5, <1>6, <2>1
  <2>3. QED
    BY <2>2 DEF Newer
<1>7. /\ Elements(views'[s]) = Elements(views[s]) \cup {x}
      /\ \A t \in Sys \ {s} : views'[t] = views[t]
  <2>1. views[s] \in Seq(View) /\ views'[s] = Append(views[s], x)
    BY <1>2, <1>3
  <2>2. QED
    BY <1>2, <1>3, <1>5, <2>1, Appended
<1>8. \A t \in Sys : version[t] <= version'[t] /\ version[t] \in Nat /\ version'[t] \in Nat
  <2>1. \A t \in Sys : version[t] \in 0 .. Versions
    BY <1>3
  <2>2. \A t \in Sys : version[t] \in Nat /\ (t # s => version'[t] = version[t])
    BY <1>4, <2>1
  <2>3. version'[s] \in Nat
    BY <1>4
  <2>4. QED
    BY <1>4, <2>2, <2>3
<1>9. /\ \A t \in Sys : Elements(views[t]) \cup Elements(late[t]) \subseteq View
      /\ \A b \in Browser : Elements(toPage[b]) \subseteq View
  BY <1>3 DEF Elements
<1>10. Ages'
  <2>1. ASSUME NEW t \in Sys, NEW v \in Elements(views'[t]) \cup Elements(late'[t])
        PROVE  v.sys = t /\ v.version <= version'[t]
    <3>1. v \in Elements(views[t]) \cup Elements(late[t]) \/ (t = s /\ v = x)
      BY <1>2, <1>7, <2>1
    <3>2. CASE t = s /\ v = x
      BY <1>5, <1>4, <3>2
    <3>3. CASE v \in Elements(views[t]) \cup Elements(late[t])
      <4>1. v.sys = t /\ v.version <= version[t] /\ v.version \in 0 .. Versions
        BY <1>9, <3>3 DEF InOrder, Ages, View
      <4>2. QED
        BY <1>8, <4>1
    <3>4. QED
      BY <3>1, <3>2, <3>3
  <2>2. ASSUME NEW b \in Browser, NEW v \in Elements(toPage'[b])
        PROVE  v.version <= version'[v.sys]
    <3>1. v.version <= version[v.sys] /\ v.version \in 0 .. Versions /\ v.sys \in Sys
      BY <1>2, <1>9, <2>2 DEF InOrder, Ages, View
    <3>2. QED
      BY <1>8, <3>1
  <2>3. ASSUME NEW b \in Browser, NEW t \in Sys, shown'[b][t] # None
        PROVE  shown'[b][t].version <= version'[t]
    <3>1. shown[b][t].version <= version[t] /\ shown[b][t].version \in 0 .. Versions
      BY <1>2, <1>3, <2>3 DEF InOrder, Ages, View
    <3>2. QED
      BY <1>2, <1>8, <3>1
  <2>4. QED
    BY <2>1, <2>2, <2>3 DEF Ages
<1>11. ASSUME Ordered PROVE Ordered'
  <2>1. \A t \in Sys : Sorted(views'[t])
    <3>1. views[s] \in Seq(View) /\ views'[s] = Append(views[s], x)
      BY <1>2, <1>3
    <3>2. \A v \in Elements(views[s]) : Newer(v, x)
      BY <1>6, <1>9 DEF InOrder, Ages
    <3>3. Sorted(views'[s])
      BY <1>5, <1>11, <3>1, <3>2, SortedAppended DEF Ordered
    <3>4. QED
      BY <1>7, <1>11, <3>3 DEF Ordered
  <2>2. ASSUME NEW b \in Browser, NEW w \in Elements(toPage[b]), NEW v \in Elements(views'[w.sys])
        PROVE  Newer(w, v)
    <3>1. w \in View /\ w.version <= version[w.sys] /\ w.sys \in Sys
      BY <1>9, ViewIsTyped DEF InOrder, Ages
    <3>2. v \in Elements(views[w.sys]) \/ (w.sys = s /\ v = x)
      BY <1>7, <3>1
    <3>3. QED
      BY <1>6, <1>11, <3>1, <3>2 DEF Ordered
  <2>3. ASSUME NEW b \in Browser, NEW t \in Sys, NEW v \in Elements(views'[t])
        PROVE  Newer(shown[b][t], v)
    <3>1. v \in Elements(views[t]) \/ (t = s /\ v = x)
      BY <1>7
    <3>2. shown[b][t] = None \/ (shown[b][t] \in View /\ shown[b][t].version <= version[t])
      BY <1>3 DEF InOrder, Ages
    <3>3. Newer(None, v)
      BY DEF Newer
    <3>4. QED
      BY <1>6, <1>11, <3>1, <3>2, <3>3 DEF Ordered
  <2>4. QED
    BY <1>2, <1>11, <2>1, <2>2, <2>3 DEF Ordered, Newer
<1>12. QED
  BY <1>2, <1>10, <1>11 DEF InOrder

\* A view that is sent on is newer than what the page shows or will show.
LEMMA RelayingIsOrdered ==
  ASSUME TypeOK, Once, InOrder, NEW s \in Sys, RelaysView(s) PROVE InOrder'
<1>1. PICK x : x = Head(views[s])
  OBVIOUS
<1>2. /\ views[s] # <<>> /\ views' = [views EXCEPT ![s] = Tail(@)] /\ Relays(x)
      /\ UNCHANGED <<version, late, shown, late_seen>>
  BY <1>1 DEF RelaysView
<1>3. /\ views \in [Sys -> Seq(View)] /\ toPage \in [Browser -> Seq(View)]
  BY DEF TypeOK
<1>4. /\ x \in View /\ x \in Elements(views[s])
      /\ views'[s] = Tail(views[s]) /\ Elements(views'[s]) \subseteq Elements(views[s])
      /\ \A t \in Sys \ {s} : views'[t] = views[t]
  <2>1. views[s] \in Seq(View)
    BY <1>3
  <2>2. views'[s] = Tail(views[s]) /\ \A t \in Sys \ {s} : views'[t] = views[t]
    BY <1>2, <1>3
  <2>3. QED
    BY <1>1, <1>2, <2>1, <2>2, Taken
<1>5. x.sys = s /\ x.version <= version[s]
  BY <1>4 DEF InOrder, Ages
<1>6. \A b \in Browser : toPage'[b] = toPage[b] \/ toPage'[b] = Append(toPage[b], x)
  BY <1>2, <1>4, RelayedOnce
<1>7. ASSUME NEW b \in Browser PROVE Elements(toPage'[b]) \subseteq Elements(toPage[b]) \cup {x}
  <2>1. toPage[b] \in Seq(View)
    BY <1>3
  <2>2. Elements(Append(toPage[b], x)) = Elements(toPage[b]) \cup {x}
    BY <1>4, <2>1, Appended
  <2>3. QED
    BY <1>6, <2>2
<1>8. \A t \in Sys : Elements(views'[t]) \subseteq Elements(views[t])
  BY <1>4
<1>9. Ages'
  BY <1>2, <1>5, <1>7, <1>8 DEF InOrder, Ages
<1>10. ASSUME Ordered PROVE Ordered'
  <2>1. views[s] \in Seq(View) /\ views[s] # <<>> /\ Sorted(views[s])
    BY <1>2, <1>3, <1>10 DEF Ordered
  <2>2. /\ Sorted(views'[s])
        /\ \A v \in Elements(views'[s]) : Newer(x, v)
    <3>1. \A v \in Elements(views'[s]) : v.sys = s
      BY <1>4 DEF InOrder, Ages
    <3>2. QED
      BY <1>1, <1>4, <1>5, <2>1, <3>1, SortedTaken
  <2>3. \A t \in Sys : Sorted(views'[t])
    BY <1>4, <1>10, <2>2 DEF Ordered
  <2>4. ASSUME NEW b \in Browser PROVE Sorted(toPage'[b])
    <3>1. toPage[b] \in Seq(View) /\ Sorted(toPage[b])
      BY <1>3, <1>10 DEF Ordered
    <3>2. \A v \in Elements(toPage[b]) : v.sys = x.sys => Newer(v, x)
      BY <1>4, <1>5, <1>10 DEF Ordered
    <3>3. QED
      BY <1>4, <1>6, <3>1, <3>2, SortedAppended
  <2>5. ASSUME NEW b \in Browser, NEW w \in Elements(toPage'[b])
        PROVE  /\ Newer(shown[b][w.sys], w)
               /\ \A v \in Elements(views'[w.sys]) : Newer(w, v)
    <3>1. CASE w = x
      BY <1>4, <1>5, <1>10, <2>2, <3>1 DEF Ordered
    <3>2. CASE w \in Elements(toPage[b])
      <4>1. w.sys \in Sys
        BY <1>3, <3>2, ViewIsTyped DEF Elements
      <4>2. QED
        BY <1>8, <1>10, <3>2, <4>1 DEF Ordered
    <3>3. QED
      BY <1>7, <3>1, <3>2
  <2>6. ASSUME NEW b \in Browser, NEW t \in Sys, NEW v \in Elements(views'[t])
        PROVE  Newer(shown[b][t], v)
    BY <1>8, <1>10 DEF Ordered
  <2>7. QED
    BY <1>2, <2>3, <2>4, <2>5, <2>6 DEF Ordered, Newer
<1>11. QED
  BY <1>2, <1>9, <1>10 DEF InOrder

\* A view from a replaced socket may come in any order; it is none too new.
LEMMA RelayingLateIsOrdered ==
  ASSUME TypeOK, Once, InOrder, NEW s \in Sys, RelaysLate(s) PROVE InOrder'
<1>1. PICK x : x = Head(late[s])
  OBVIOUS
<1>2. /\ late[s] # <<>> /\ late' = [late EXCEPT ![s] = Tail(@)] /\ Relays(x)
      /\ late_seen' /\ UNCHANGED <<version, views, shown>>
  BY <1>1 DEF RelaysLate
<1>3. /\ late \in [Sys -> Seq(View)] /\ toPage \in [Browser -> Seq(View)]
  BY DEF TypeOK
<1>4. /\ x \in View /\ x \in Elements(late[s])
      /\ \A t \in Sys : Elements(late'[t]) \subseteq Elements(late[t])
  <2>1. late[s] \in Seq(View)
    BY <1>3
  <2>2. late'[s] = Tail(late[s]) /\ \A t \in Sys \ {s} : late'[t] = late[t]
    BY <1>2, <1>3
  <2>3. /\ x \in View /\ x \in Elements(late[s])
        /\ Elements(Tail(late[s])) \subseteq Elements(late[s])
    BY <1>1, <1>2, <2>1, Taken
  <2>4. QED
    BY <2>2, <2>3
<1>5. x.sys = s /\ x.version <= version[s]
  BY <1>4 DEF InOrder, Ages
<1>6. \A b \in Browser : toPage'[b] = toPage[b] \/ toPage'[b] = Append(toPage[b], x)
  BY <1>2, <1>4, RelayedOnce
<1>7. ASSUME NEW b \in Browser PROVE Elements(toPage'[b]) \subseteq Elements(toPage[b]) \cup {x}
  <2>1. toPage[b] \in Seq(View)
    BY <1>3
  <2>2. Elements(Append(toPage[b], x)) = Elements(toPage[b]) \cup {x}
    BY <1>4, <2>1, Appended
  <2>3. QED
    BY <1>6, <2>2
<1>8. Ages'
  BY <1>2, <1>4, <1>5, <1>7 DEF InOrder, Ages
<1>9. QED
  BY <1>2, <1>8 DEF InOrder

\* What a page shows is older than all that is still to come.
LEMMA ShowingIsOrdered ==
  ASSUME TypeOK, InOrder, NEW b \in Browser, ShowsView(b) PROVE InOrder'
<1>1. PICK x : x = Head(toPage[b])
  OBVIOUS
<1>2. /\ toPage[b] # <<>> /\ toPage' = [toPage EXCEPT ![b] = Tail(@)]
      /\ shown' = [shown EXCEPT ![b][x.sys] = x]
      /\ UNCHANGED <<version, views, late, late_seen>>
  BY <1>1 DEF ShowsView
<1>3. /\ toPage \in [Browser -> Seq(View)]
      /\ shown \in [Browser -> [Sys -> View \cup {None}]]
  BY DEF TypeOK
<1>4. /\ x \in View /\ x \in Elements(toPage[b]) /\ toPage'[b] = Tail(toPage[b])
      /\ Elements(toPage'[b]) \subseteq Elements(toPage[b])
      /\ \A d \in Browser \ {b} : toPage'[d] = toPage[d]
  <2>1. toPage[b] \in Seq(View)
    BY <1>3
  <2>2. toPage'[b] = Tail(toPage[b]) /\ \A d \in Browser \ {b} : toPage'[d] = toPage[d]
    BY <1>2, <1>3
  <2>3. QED
    BY <1>1, <1>2, <2>1, <2>2, Taken
<1>5. x.sys \in Sys /\ x.version <= version[x.sys]
  BY <1>4, ViewIsTyped DEF InOrder, Ages
<1>6. \A d \in Browser, t \in Sys :
        shown'[d][t] = IF d = b /\ t = x.sys THEN x ELSE shown[d][t]
  BY <1>2, <1>3, <1>5
<1>7. \A d \in Browser : Elements(toPage'[d]) \subseteq Elements(toPage[d])
  BY <1>4
<1>8. Ages'
  BY <1>2, <1>5, <1>6, <1>7 DEF InOrder, Ages
<1>9. ASSUME Ordered PROVE Ordered'
  <2>1. toPage[b] \in Seq(View) /\ Sorted(toPage[b])
    BY <1>3, <1>9 DEF Ordered
  <2>2. /\ Sorted(toPage'[b])
        /\ \A v \in Elements(toPage'[b]) : v.sys = x.sys => Newer(x, v)
    BY <1>1, <1>2, <1>4, <2>1, SortedTaken
  <2>3. \A d \in Browser : Sorted(toPage'[d])
    BY <1>4, <1>9, <2>2 DEF Ordered
  <2>4. ASSUME NEW d \in Browser, NEW w \in Elements(toPage'[d])
        PROVE  /\ Newer(shown'[d][w.sys], w)
               /\ \A v \in Elements(views[w.sys]) : Newer(w, v)
    <3>1. w \in Elements(toPage[d]) /\ w.sys \in Sys
      <4>1. w \in Elements(toPage[d]) /\ toPage[d] \in Seq(View)
        BY <1>3, <1>7
      <4>2. QED
        BY <4>1, ElementsTyped, ViewIsTyped
    <3>2. QED
      BY <1>6, <1>9, <2>2, <3>1 DEF Ordered
  <2>5. ASSUME NEW d \in Browser, NEW t \in Sys, NEW v \in Elements(views[t])
        PROVE  Newer(shown'[d][t], v)
    BY <1>4, <1>6, <1>9 DEF Ordered
  <2>6. \A t \in Sys : Sorted(views[t])
    BY <1>9 DEF Ordered
  <2>7. QED
    BY <1>2, <2>3, <2>4, <2>5, <2>6 DEF Ordered, Newer
<1>10. QED
  BY <1>2, <1>8, <1>9 DEF InOrder

\* Whatever is lost, the rest keeps its order.
LEMMA LosingIsOrdered ==
  ASSUME TypeOK, InOrder,
         \A s \in Sys : views'[s] = views[s] \/ views'[s] = <<>>,
         \A s \in Sys : late'[s] \in {late[s], views[s], <<>>},
         \A b \in Browser : toPage'[b] = toPage[b] \/ toPage'[b] = <<>>,
         UNCHANGED <<version, shown, late_seen>>
  PROVE  InOrder'
<1>1. /\ \A s \in Sys : Elements(views'[s]) \subseteq Elements(views[s])
      /\ \A s \in Sys : Elements(late'[s]) \subseteq Elements(late[s]) \cup Elements(views[s])
      /\ \A b \in Browser : Elements(toPage'[b]) \subseteq Elements(toPage[b])
  BY Nothing
<1>2. Ages'
  BY <1>1 DEF InOrder, Ages
<1>3. ASSUME Ordered PROVE Ordered'
  <2>1. /\ \A s \in Sys : Sorted(views'[s])
        /\ \A b \in Browser : Sorted(toPage'[b])
    BY <1>3, NothingIsSorted DEF Ordered
  <2>2. ASSUME NEW b \in Browser, NEW w \in Elements(toPage'[b])
        PROVE  /\ Newer(shown[b][w.sys], w)
               /\ \A v \in Elements(views'[w.sys]) : Newer(w, v)
    <3>1. w \in Elements(toPage[b])
      BY <1>1
    <3>2. w.sys \in Sys
      <4>1. toPage[b] \in Seq(View)
        BY DEF TypeOK
      <4>2. QED
        BY <3>1, <4>1, ElementsTyped, ViewIsTyped
    <3>3. QED
      BY <1>1, <1>3, <3>1, <3>2 DEF Ordered
  <2>3. \A b \in Browser, s \in Sys : \A v \in Elements(views'[s]) : Newer(shown[b][s], v)
    BY <1>1, <1>3 DEF Ordered
  <2>4. QED
    BY <2>1, <2>2, <2>3 DEF Ordered, Newer
<1>4. QED
  BY <1>2, <1>3 DEF InOrder

-----------------------------------------------------------------------------
(***************************************************************************)
(* The invariant.  TypeOK alone is not inductive: what a queue holds has   *)
(* to be a command (Listed, in Kept), and a view is put into a queue once  *)
(* only because there is one handler.                                      *)
(***************************************************************************)
IInv == TypeOK /\ Once /\ Kept /\ InOrder

LEMMA Initially == Init => IInv
<1> SUFFICES ASSUME Init PROVE IInv
  OBVIOUS
<1>1. TypeOK
  BY TypeInit
<1>2. Once
  BY DEF Init, Once
<1>3. /\ \A b \in Browser : up[b] = <<>> /\ toPage[b] = <<>>
      /\ \A s \in Sys : down[s] = <<>> /\ views[s] = <<>> /\ late[s] = <<>>
      /\ \A b \in Browser, s \in Sys : shown[b][s] = None
      /\ clicked = <<>> /\ ran = <<>>
      /\ \A s \in Sys : setting[s] = {}
  BY DEF Init
<1>4. Kept
  BY <1>3, Nothing DEF Kept, Listed, AtHome
<1>5. InOrder
  BY <1>3, Nothing, NothingIsSorted DEF InOrder, Ages, Ordered
<1>6. QED
  BY <1>1, <1>2, <1>4, <1>5 DEF IInv

LEMMA Step == ASSUME IInv, [Next]_vars PROVE IInv'
<1>1. TypeOK /\ Once /\ Kept /\ InOrder /\ Listed
  BY DEF IInv, Kept
<1>2. TypeOK'
  BY <1>1, TypeStep
<1>3. Once' /\ Kept' /\ InOrder'
  <2>1. ASSUME NEW s \in Sys, SysConnects(s) PROVE Once' /\ Kept' /\ InOrder'
    BY <1>1, <2>1, Untouched, ViewsUntouched DEF SysConnects, Once, viewing, commands
  <2>2. ASSUME NEW b \in Browser, BrowserConnects(b) PROVE Once' /\ Kept' /\ InOrder'
    BY <1>1, <2>2, Untouched, ViewsUntouched
    DEF BrowserConnects, Once, HandlerId, viewing, commands
  <2>3. ASSUME NEW s \in Sys, SysBreaks(s) PROVE Once' /\ Kept' /\ InOrder'
    <3>1. /\ \A t \in Sys : views'[t] = views[t] \/ views'[t] = <<>>
          /\ \A t \in Sys : late'[t] \in {late[t], views[t], <<>>}
      BY <1>1, <2>3 DEF SysBreaks, TypeOK
    <3>2. QED
      BY <1>1, <2>3, <3>1, SysLoses, LosingIsOrdered DEF SysBreaks, Once
  <2>4. ASSUME NEW b \in Browser, BrowserBreaks(b) PROVE Once' /\ Kept' /\ InOrder'
    <3>1. \A d \in Browser : toPage'[d] = toPage[d] \/ toPage'[d] = <<>>
      BY <1>1, <2>4 DEF BrowserBreaks, TypeOK
    <3>2. QED
      BY <1>1, <2>4, <3>1, BrowserLoses, LosingIsOrdered DEF BrowserBreaks, Once
  <2>5. CASE Restarts
    <3>1. /\ \A t \in Sys : views'[t] = <<>> /\ late'[t] = <<>>
          /\ \A d \in Browser : toPage'[d] = <<>>
      BY <2>5 DEF Restarts
    <3>2. QED
      BY <1>1, <2>5, <3>1, RestartLoses, LosingIsOrdered DEF Restarts, Once
  <2>6. ASSUME NEW s \in Sys, SendsView(s) PROVE Once' /\ Kept' /\ InOrder'
    BY <1>1, <2>6, Untouched, SendingIsOrdered DEF SendsView, Once, sockets, commands
  <2>7. ASSUME NEW s \in Sys, RelaysView(s) PROVE Once' /\ Kept' /\ InOrder'
    BY <1>1, <2>7, Untouched, RelayingIsOrdered DEF RelaysView, Once, sockets, commands
  <2>8. ASSUME NEW s \in Sys, RelaysLate(s) PROVE Once' /\ Kept' /\ InOrder'
    BY <1>1, <2>8, Untouched, RelayingLateIsOrdered DEF RelaysLate, Once, sockets, commands
  <2>9. ASSUME NEW s \in Sys, LateEnds(s) PROVE Once' /\ Kept' /\ InOrder'
    <3>1. \A t \in Sys : late'[t] \in {late[t], views[t], <<>>}
      BY <1>1, <2>9 DEF LateEnds, TypeOK
    <3>2. QED
      BY <1>1, <2>9, <3>1, Untouched, LosingIsOrdered DEF LateEnds, Once, sockets, commands
  <2>10. ASSUME NEW b \in Browser, ShowsView(b) PROVE Once' /\ Kept' /\ InOrder'
    BY <1>1, <2>10, Untouched, ShowingIsOrdered DEF ShowsView, Once, sockets, commands
  <2>11. ASSUME NEW b \in Browser, NEW s \in Sys, Click(b, s) PROVE Once' /\ Kept' /\ InOrder'
    BY <1>1, <2>11, ClickIsOne, ViewsUntouched DEF Click, Once, sockets, viewing
  <2>12. ASSUME NEW b \in Browser, RelaysCommand(b) PROVE Once' /\ Kept' /\ InOrder'
    BY <1>1, <2>12, CommandMoves, ViewsUntouched DEF RelaysCommand, Once, sockets, viewing
  <2>13. ASSUME NEW s \in Sys, StartsCommand(s) PROVE Once' /\ Kept' /\ InOrder'
    BY <1>1, <2>13, CommandStarts, ViewsUntouched DEF StartsCommand, Once, sockets, viewing
  <2>14. ASSUME NEW s \in Sys, NEW c \in setting[s], Sets(s, c)
         PROVE  Once' /\ Kept' /\ InOrder'
    BY <1>1, <2>14, CommandIsRun, ViewsUntouched DEF Sets, Once, sockets, viewing
  <2>15. CASE UNCHANGED vars
    BY <1>1, <2>15, Untouched, ViewsUntouched DEF vars, Once, sockets, viewing, commands
  <2>16. QED
    BY <2>1, <2>2, <2>3, <2>4, <2>5, <2>6, <2>7, <2>8, <2>9, <2>10, <2>11, <2>12,
       <2>13, <2>14, <2>15, Bounds DEF Next
<1>4. QED
  BY <1>2, <1>3 DEF IInv

LEMMA Invariant == Spec => []IInv
  BY Initially, Step, PTL DEF Spec

\* However sockets break and servers restart, every command is in one place: it
\* is carried out at most once, and by the system that has its device.
THEOREM CommandsOnce == Spec => []OnePlace
<1>1. IInv => OnePlace
  BY SingleIsOne DEF IInv, Kept, AtHome, OnePlace, TypeOK
<1>2. QED
  BY <1>1, Invariant, PTL

\* A view is sent on at most once, and none after a newer one, to whatever
\* browser is the last, unless a replaced socket has spoken.
THEOREM ViewsKeepOrder == Spec => []ViewsInOrder
<1>1. ASSUME IInv PROVE ViewsInOrder
  <2> SUFFICES ASSUME NEW b \in Browser, NEW i \in DOMAIN toPage[b], ~late_seen
               PROVE  /\ Newer(shown[b][toPage[b][i].sys], toPage[b][i])
                      /\ \A j \in 1 .. i - 1 : toPage[b][j].sys = toPage[b][i].sys
                                                => Newer(toPage[b][j], toPage[b][i])
    BY <1>1 DEF IInv, ViewsInOrder
  <2>1. Ordered
    BY <1>1 DEF IInv, InOrder
  <2>2. toPage[b][i] \in Elements(toPage[b])
    BY DEF Elements
  <2>3. ASSUME NEW j \in 1 .. i - 1, toPage[b][j].sys = toPage[b][i].sys
        PROVE  Newer(toPage[b][j], toPage[b][i])
    <3>1. toPage[b] \in Seq(View)
      BY <1>1 DEF IInv, TypeOK
    <3>2. j \in DOMAIN toPage[b] /\ j < i
      BY <3>1
    <3>3. QED
      BY <2>1, <2>3, <3>2 DEF Ordered, Sorted
  <2>4. QED
    BY <2>1, <2>2, <2>3 DEF Ordered
<1>2. QED
  BY <1>1, Invariant, PTL
=============================================================================
