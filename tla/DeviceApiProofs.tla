-------------------------- MODULE DeviceApiProofs ---------------------------
(***************************************************************************)
(* What a device answers, for any connections and any pins: all that its   *)
(* shared buffer tells is true, and a request that is not overlapped is    *)
(* answered for its own pins.                                              *)
(***************************************************************************)
EXTENDS DeviceApi, TLAPS, FiniteSetTheorems, SequenceTheorems, WellFoundedInduction

-----------------------------------------------------------------------------
(***************************************************************************)
(* Queries                                                                 *)
(***************************************************************************)
\* A set of positions has a greatest one.
LEMMA MaxIn ==
  ASSUME NEW n \in Nat, NEW S \in SUBSET (1 .. n), S # {}
  PROVE  Max(S) \in S /\ \A k \in S : k <= Max(S)
<1> DEFINE T == {n - i : i \in S}
<1>1. T \subseteq Nat
  <2>1. ASSUME NEW i \in S PROVE n - i \in Nat
    OBVIOUS
  <2>2. QED
    BY <2>1
<1>2. PICK t \in T : \A u \in T : ~(<<u, t>> \in OpToRel(<, Nat))
  <2>1. IsWellFoundedOn(OpToRel(<, Nat), Nat)
    BY NatLessThanWellFounded
  <2>2. T # {}
    OBVIOUS
  <2>3. QED
    BY <1>1, <2>1, <2>2, WFMin
<1>3. \A u \in T : ~(u < t)
  BY <1>1, <1>2 DEF OpToRel
<1>4. PICK i \in S : t = n - i
  BY <1>2
<1>5. ASSUME NEW k \in S PROVE i >= k
  <2>1. ~(n - k < n - i)
    BY <1>3, <1>4
  <2>2. QED
    BY <2>1
<1>6. QED
  BY <1>5 DEF Max

LEMMA TupleShape ==
  ASSUME NEW S, NEW s \in Tuples(S)
  PROVE  s \in Seq(S) /\ Len(s) \in 1 .. Cardinality(Pin) /\ s \in [1 .. Len(s) -> S]
<1>1. PICK n \in 1 .. Cardinality(Pin) : s \in [1 .. n -> S]
  BY DEF Tuples
<1>2. n \in Nat
  BY <1>1
<1>3. s \in Seq(S) /\ Len(s) = n
  BY <1>1, <1>2, SeqDef, LenProperties
<1>4. QED
  BY <1>1, <1>3

\* The parameters of a query are pins and levels, and fit into the arrays.
IsParam(q) == \/ q = Param("pin", q.value) /\ q.name = "pin" /\ q.value \in Pin
              \/ q.name = "val" /\ q.value \in Level

LEMMA QueryShape ==
  ASSUME NEW params \in Queries
  PROVE  /\ Len(params) \in Nat /\ Len(params) <= MaxParams
         /\ DOMAIN params = 1 .. Len(params)
         /\ \A i \in 1 .. Len(params) : IsParam(params[i])
<1>1. Cardinality(Pin) \in Nat /\ 2 * Cardinality(Pin) <= MaxParams /\ MaxParams \in Nat
  <2>1. Pin \in SUBSET Nat /\ 9 \in Nat /\ \A p \in Pin : p <= 9
    BY DeviceApiAssumption
  <2>2. IsFiniteSet(Pin)
    BY <2>1, FS_BoundedSetOfNaturals
  <2>3. QED
    BY <2>2, FS_CardinalityType, DeviceApiAssumption
<1>2. ASSUME NEW s \in Tuples([pin : Pin, val : Level]), params = SetQuery(s)
      PROVE  /\ Len(params) \in Nat /\ Len(params) <= MaxParams
             /\ DOMAIN params = 1 .. Len(params)
             /\ \A i \in 1 .. Len(params) : IsParam(params[i])
  <2> DEFINE n == Len(s)
  <2>1. n \in 1 .. Cardinality(Pin) /\ s \in [1 .. n -> [pin : Pin, val : Level]]
    BY TupleShape
  <2>2. ASSUME NEW i \in 1 .. 2 * n PROVE IsParam(params[i])
    <3>1. CASE i % 2 = 1
      <4>1. (i + 1) \div 2 \in 1 .. n
        BY <1>1, <2>1, <3>1
      <4>2. params[i] = Param("pin", s[(i + 1) \div 2].pin)
        BY <1>2, <3>1 DEF SetQuery
      <4>3. s[(i + 1) \div 2].pin \in Pin
        BY <2>1, <4>1
      <4>4. QED
        BY <4>2, <4>3 DEF IsParam, Param
    <3>2. CASE i % 2 # 1
      <4>1. i \div 2 \in 1 .. n
        BY <1>1, <2>1, <3>2
      <4>2. params[i] = Param("val", s[i \div 2].val)
        BY <1>2, <3>2 DEF SetQuery
      <4>3. s[i \div 2].val \in Level
        BY <2>1, <4>1
      <4>4. QED
        BY <4>2, <4>3 DEF IsParam, Param
    <3>3. QED
      BY <3>1, <3>2
  <2>3. DOMAIN params = 1 .. 2 * n
    BY <1>2 DEF SetQuery
  <2>4. Len(params) = 2 * n
    <3>1. params \in [1 .. 2 * n -> {params[i] : i \in 1 .. 2 * n}]
      BY <1>2, <2>3 DEF SetQuery
    <3>2. 2 * n \in Nat
      BY <1>1, <2>1
    <3>3. QED
      BY <3>1, <3>2, SeqDef, LenProperties
  <2>5. QED
    BY <1>1, <2>1, <2>2, <2>3, <2>4
<1>3. ASSUME NEW ps \in Tuples(Pin), params = PinQuery(ps)
      PROVE  /\ Len(params) \in Nat /\ Len(params) <= MaxParams
             /\ DOMAIN params = 1 .. Len(params)
             /\ \A i \in 1 .. Len(params) : IsParam(params[i])
  <2> DEFINE n == Len(ps)
  <2>1. n \in 1 .. Cardinality(Pin) /\ ps \in [1 .. n -> Pin]
    BY TupleShape
  <2>2. ASSUME NEW i \in 1 .. n PROVE IsParam(params[i])
    <3>1. params[i] = Param("pin", ps[i]) /\ ps[i] \in Pin
      BY <1>3, <2>1 DEF PinQuery
    <3>2. QED
      BY <3>1 DEF IsParam, Param
  <2>3. params \in [1 .. n -> {params[i] : i \in 1 .. n}] /\ n \in Nat
    BY <1>1, <1>3, <2>1 DEF PinQuery
  <2>4. Len(params) = n /\ DOMAIN params = 1 .. n
    BY <2>3, SeqDef, LenProperties
  <2>5. QED
    BY <1>1, <2>1, <2>2, <2>4
<1>4. QED
  BY <1>2, <1>3 DEF Queries

\* What a request marks: just the pins it names, with a level or -1.
LEMMA MarkedPins ==
  ASSUME NEW params \in Queries, NEW marks
  PROVE  LET named == {params[i].value : i \in {j \in DOMAIN params : params[j].name = "pin"}}
             after == Marked(Reset(marks), params)
         IN  /\ named \subseteq Pin
             /\ after \in [Pin -> Level \cup {-1, None}]
             /\ {p \in Pin : after[p] # None} = named
<1> DEFINE named == {params[i].value : i \in {j \in DOMAIN params : params[j].name = "pin"}}
           after == Marked(Reset(marks), params)
           at(p) == {i \in 1 .. Len(params) : i <= MaxParams /\ params[i] = Param("pin", p)}
<1> USE QueryShape
<1>1. named \subseteq Pin
  BY DEF IsParam
<1>2. ASSUME NEW p \in Pin
      PROVE  /\ after[p] = IF at(p) = {} THEN None ELSE ValueAt(params, Max(at(p)))
             /\ at(p) # {} <=> p \in named
  <2>1. after[p] = IF at(p) = {} THEN None ELSE ValueAt(params, Max(at(p)))
    BY DEF Marked, Reset
  <2>2. ASSUME at(p) # {} PROVE p \in named
    BY <2>2 DEF Param
  <2>3. ASSUME p \in named PROVE at(p) # {}
    <3>1. PICK i \in 1 .. Len(params) : params[i].name = "pin" /\ params[i].value = p
      BY <2>3
    <3>2. params[i] = Param("pin", p)
      BY <3>1 DEF IsParam
    <3>3. i <= MaxParams
      BY DeviceApiAssumption
    <3>4. QED
      BY <3>2, <3>3
  <2>4. QED
    BY <2>1, <2>2, <2>3
<1>3. ASSUME NEW p \in Pin, at(p) # {} PROVE ValueAt(params, Max(at(p))) \in Level \cup {-1}
  <2>1. Max(at(p)) \in 1 .. Len(params)
    BY <1>3, MaxIn
  <2> HIDE DEF at
  <2> DEFINE i == Max(at(p))
  <2>2. CASE i < Len(params) /\ params[i + 1].name = "val"
    <3>1. i + 1 \in 1 .. Len(params)
      BY <2>1, <2>2
    <3>2. params[i + 1].value \in Level
      BY <2>2, <3>1 DEF IsParam
    <3>3. QED
      BY <2>2, <3>2 DEF ValueAt
  <2>3. CASE ~(i < Len(params) /\ params[i + 1].name = "val")
    BY <2>3 DEF ValueAt
  <2>4. QED
    BY <2>2, <2>3
<1>4. Level \cup {-1} \subseteq Int /\ None \notin Int
  BY DeviceApiAssumption DEF Level
<1> HIDE DEF at
<1>5. \A p \in Pin : /\ after[p] \in Level \cup {-1, None}
                     /\ after[p] # None <=> p \in named
  BY <1>2, <1>3, <1>4
<1>6. after = [p \in Pin |-> after[p]]
  BY DEF Marked
<1> HIDE DEF after, named
<1>7. QED
  BY <1>1, <1>5, <1>6 DEF after, named

LEMMA PutLevels ==
  ASSUME NEW lev \in [Pin -> Level], NEW marks PROVE Put(lev, marks) \in [Pin -> Level]
  BY DEF Put, Level

-----------------------------------------------------------------------------
(***************************************************************************)
(* The inductive invariant.  Truth of the buffer is kept by a form that    *)
(* changes the pins only because every connection under way has seen the   *)
(* level of every pin at this moment: seen holds the present, and grows.   *)
(***************************************************************************)
SeesNow == \A c \in Conn : asked[c] # None => \A p \in Pin : level[p] \in seen[c][p]

Asking(c) == asked[c] # None /\ asked[c] # {}

BufferTrue == \A c \in Conn : Asking(c) => \A p \in DOMAIN response : response[p] \in seen[c][p]

BufferOwn == \A c \in Conn : Asking(c) /\ alone[c] => DOMAIN response = asked[c]

IInv == /\ TypeOK
        /\ DOMAIN response \subseteq Pin
        /\ SeesNow /\ BufferTrue /\ BufferOwn

\* What the history of the connections becomes when c's handler leaves lev.
LEMMA WatchSees ==
  ASSUME TypeOK, NEW c \in Conn, NEW lev \in [Pin -> Level], Watch(c, lev)
  PROVE  /\ alone' \in [Conn -> BOOLEAN] /\ seen' \in [Conn -> [Pin -> SUBSET Level]]
         /\ \A d \in Conn : alone'[d] <=> d = c
         /\ \A d \in Conn, p \in Pin : lev[p] \in seen'[d][p]
         /\ \A d \in Conn \ {c}, p \in Pin : seen[d][p] \subseteq seen'[d][p]
<1>1. alone' \in [Conn -> BOOLEAN] /\ \A d \in Conn : alone'[d] <=> d = c
  BY Zenon DEF Watch
<1>2. ASSUME NEW d \in Conn, NEW p \in Pin
      PROVE  seen'[d][p] = (IF d = c THEN {} ELSE seen[d][p]) \cup {lev[p]}
  BY DEF Watch
<1>3. seen' \in [Conn -> [Pin -> SUBSET Level]]
  BY DEF Watch, TypeOK
<1>4. QED
  BY <1>1, <1>2, <1>3

LEMMA ApiStep == ASSUME IInv, NEW c \in Conn, Api(c) PROVE IInv'
<1>1. PICK params \in Queries :
        LET marks == Marked(Reset(pins), params)
            lev   == Put(level, marks)
        IN  /\ pins' = marks
            /\ level' = lev
            /\ response' = Told(lev, marks)
            /\ asked' = [asked EXCEPT ![c] = {params[i].value : i \in
                           {j \in DOMAIN params : params[j].name = "pin"}}]
            /\ Watch(c, lev)
  BY DEF Api
<1> DEFINE marks == Marked(Reset(pins), params)
           lev   == Put(level, marks)
           named == {params[i].value : i \in {j \in DOMAIN params : params[j].name = "pin"}}
<1>2. /\ named \subseteq Pin
      /\ marks \in [Pin -> Level \cup {-1, None}]
      /\ {p \in Pin : marks[p] # None} = named
  BY MarkedPins
<1>3. lev \in [Pin -> Level]
  BY PutLevels DEF IInv, TypeOK
<1>4. response' = [p \in named |-> lev[p]]
  BY <1>1, <1>2 DEF Told
<1>5. /\ pins' = marks /\ level' = lev
      /\ asked' = [asked EXCEPT ![c] = named] /\ Watch(c, lev)
  BY <1>1
<1> HIDE DEF marks, lev, named
<1>6. /\ alone' \in [Conn -> BOOLEAN] /\ seen' \in [Conn -> [Pin -> SUBSET Level]]
      /\ \A d \in Conn : alone'[d] <=> d = c
      /\ \A d \in Conn, p \in Pin : lev[p] \in seen'[d][p]
  BY <1>3, <1>5, WatchSees DEF IInv
<1>7. asked' \in [Conn -> {None} \cup SUBSET Pin] /\ asked'[c] = named
  BY <1>2, <1>5 DEF IInv, TypeOK
<1>8. response' \in Partial(Pin, Level) /\ DOMAIN response' = named
  BY <1>2, <1>3, <1>4 DEF Partial
<1>9. TypeOK'
  BY <1>2, <1>3, <1>5, <1>6, <1>7, <1>8 DEF TypeOK
<1>10. SeesNow'
  BY <1>5, <1>6 DEF SeesNow
<1>11. BufferTrue'
  BY <1>2, <1>4, <1>6 DEF BufferTrue
<1>12. BufferOwn'
  BY <1>6, <1>7, <1>8 DEF BufferOwn
<1>13. QED
  BY <1>2, <1>8, <1>9, <1>10, <1>11, <1>12 DEF IInv

LEMMA LedFormStep == ASSUME IInv, NEW c \in Conn, LedForm(c) PROVE IInv'
<1>1. PICK on \in SUBSET Leds :
        LET lev == [p \in Pin |-> IF p \notin Leds THEN level[p]
                                  ELSE IF p \in on THEN 1 ELSE 0]
        IN  /\ level' = lev
            /\ asked' = [asked EXCEPT ![c] = {}]
            /\ Watch(c, lev)
  BY DEF LedForm
<1> DEFINE lev == [p \in Pin |-> IF p \notin Leds THEN level[p]
                                 ELSE IF p \in on THEN 1 ELSE 0]
<1>2. lev \in [Pin -> Level]
  BY DEF IInv, TypeOK, Level
<1>3. /\ level' = lev /\ asked' = [asked EXCEPT ![c] = {}] /\ Watch(c, lev)
      /\ pins' = pins /\ response' = response
  BY <1>1 DEF LedForm
<1> HIDE DEF lev
<1>4. /\ alone' \in [Conn -> BOOLEAN] /\ seen' \in [Conn -> [Pin -> SUBSET Level]]
      /\ \A d \in Conn : alone'[d] <=> d = c
      /\ \A d \in Conn, p \in Pin : lev[p] \in seen'[d][p]
      /\ \A d \in Conn \ {c}, p \in Pin : seen[d][p] \subseteq seen'[d][p]
  BY <1>2, <1>3, WatchSees DEF IInv
<1>5. /\ asked' \in [Conn -> {None} \cup SUBSET Pin]
      /\ \A d \in Conn : asked'[d] = IF d = c THEN {} ELSE asked[d]
  BY <1>3 DEF IInv, TypeOK
<1>6. TypeOK'
  BY <1>2, <1>3, <1>4, <1>5 DEF IInv, TypeOK
<1>7. SeesNow'
  BY <1>3, <1>4 DEF SeesNow
<1>8. \A d \in Conn : Asking(d)' => d # c /\ Asking(d)
  BY <1>5 DEF Asking
<1>9. BufferTrue'
  <2>1. ASSUME NEW d \in Conn, Asking(d)', NEW p \in DOMAIN response
        PROVE  response[p] \in seen'[d][p]
    BY <1>4, <1>8, <2>1 DEF IInv, BufferTrue
  <2>2. QED
    BY <1>3, <2>1 DEF BufferTrue
<1>10. BufferOwn'
  BY <1>4, <1>8 DEF BufferOwn
<1>11. QED
  BY <1>3, <1>6, <1>7, <1>9, <1>10 DEF IInv

LEMMA IdleStep == ASSUME IInv, NEW c \in Conn, Idle(c) PROVE IInv'
<1>1. /\ asked' \in [Conn -> {None} \cup SUBSET Pin]
      /\ \A d \in Conn : asked'[d] = IF d = c THEN None ELSE asked[d]
  BY DEF Idle, IInv, TypeOK
<1>2. UNCHANGED <<level, pins, response, alone, seen>>
  BY DEF Idle
<1>3. TypeOK'
  BY <1>1, <1>2 DEF IInv, TypeOK
<1>4. SeesNow' /\ BufferTrue' /\ BufferOwn'
  BY <1>1, <1>2 DEF IInv, SeesNow, BufferTrue, BufferOwn, Asking
<1>5. QED
  BY <1>2, <1>3, <1>4 DEF IInv

\* The state of a device that was switched on.
Fresh == /\ level = [p \in Pin |-> 0]
         /\ pins = [p \in Pin |-> None]
         /\ response = <<>>
         /\ asked = [c \in Conn |-> None]
         /\ alone = [c \in Conn |-> TRUE]
         /\ seen = [c \in Conn |-> [p \in Pin |-> {}]]

LEMMA FreshInv == Fresh => IInv
<1> SUFFICES ASSUME Fresh PROVE IInv
  OBVIOUS
<1>1. DOMAIN response = {} /\ response \in Partial(Pin, Level)
  <2>1. response \in [{} -> Level] /\ {} \in SUBSET Pin
    BY DEF Fresh
  <2>2. QED
    BY <2>1 DEF Partial
<1>2. level \in [Pin -> Level] /\ pins \in [Pin -> Level \cup {-1, None}]
  BY DEF Fresh, Level
<1>3. alone \in [Conn -> BOOLEAN]
  BY Zenon DEF Fresh
<1>4. /\ asked \in [Conn -> {None} \cup SUBSET Pin]
      /\ seen \in [Conn -> [Pin -> SUBSET Level]]
      /\ \A c \in Conn : asked[c] = None
  BY DEF Fresh
<1>5. QED
  BY <1>1, <1>2, <1>3, <1>4 DEF IInv, TypeOK, SeesNow, BufferTrue, BufferOwn, Asking

LEMMA InvStep == ASSUME IInv, [Next]_vars PROVE IInv'
<1>1. ASSUME NEW c \in Conn, Api(c) \/ LedForm(c) PROVE IInv'
  BY <1>1, ApiStep, LedFormStep
<1>2. ASSUME NEW c \in Conn, SsiJson(c) \/ SsiPage(c) \/ Aborted(c) PROVE IInv'
  BY <1>2, IdleStep DEF SsiJson, SsiPage, Aborted
<1>3. CASE Boots
  <2>1. Fresh'
    BY <1>3 DEF Boots, Fresh
  <2>2. Fresh' => IInv'
    BY FreshInv, PTL
  <2>3. QED
    BY <2>1, <2>2
<1>4. CASE UNCHANGED vars
  BY <1>4 DEF vars, IInv, TypeOK, SeesNow, BufferTrue, BufferOwn, Asking
<1>5. QED
  BY <1>1, <1>2, <1>3, <1>4 DEF Next

LEMMA Invariant == Spec => []IInv
<1>1. Init => IInv
  BY FreshInv DEF Init, Fresh
<1>2. IInv /\ [Next]_vars => IInv'
  BY InvStep
<1>3. QED
  BY <1>1, <1>2, PTL DEF Spec

\* AnswersTrue: whatever the other connections do to the shared buffer, what an
\* answer or a page tells of a pin was so between the request and the answer.
THEOREM ToldIsTrue == Spec => []AnswersTrue
<1>1. ASSUME IInv PROVE AnswersTrue
  <2>1. \A c \in Conn : asked[c] = {} => \A p \in Leds : Shown[p] \in seen[c][p]
    BY <1>1, DeviceApiAssumption DEF IInv, SeesNow, Shown
  <2>2. QED
    BY <1>1, <2>1 DEF AnswersTrue, Inserted, IInv, BufferTrue, Asking
<1>2. QED
  BY <1>1, Invariant, PTL

\* OwnAnswer: a request that no other overlaps gets the answer to itself.
THEOREM AnswerIsOwn == Spec => []OwnAnswer
<1>1. IInv => OwnAnswer
  BY DEF IInv, BufferOwn, Asking, OwnAnswer, Inserted
<1>2. QED
  BY <1>1, Invariant, PTL

-----------------------------------------------------------------------------
(***************************************************************************)
(* The two ways to read a query.  What a recursive function yields cannot  *)
(* be proved by the library's induction here: it is proved of the least    *)
(* argument at which it would fail.                                        *)
(***************************************************************************)
\* A set of numbers has a least one.
LEMMA LeastIn == ASSUME NEW S \in SUBSET Nat, S # {} PROVE \E m \in S : \A k \in S : m <= k
<1>1. PICK m \in S : \A k \in S : ~(<<k, m>> \in OpToRel(<, Nat))
  <2>1. IsWellFoundedOn(OpToRel(<, Nat), Nat)
    BY NatLessThanWellFounded
  <2>2. QED
    BY <2>1, WFMin
<1>2. \A k \in S : ~(k < m)
  BY <1>1 DEF OpToRel
<1>3. QED
  BY <1>2

LEMMA MaxIs ==
  ASSUME NEW S \in SUBSET Int, NEW m \in S, \A k \in S : k <= m PROVE Max(S) = m
<1>1. \A x \in S : (\A y \in S : x >= y) => x = m
  OBVIOUS
<1>2. \A y \in S : m >= y
  OBVIOUS
<1>3. QED
  BY <1>1, <1>2 DEF Max

\* The n-th element of the range of an increasing function is its n-th value.
Lists(f, n, S) == /\ f \in [1 .. n -> Nat] /\ S = {f[i] : i \in 1 .. n}
                  /\ \A i, j \in 1 .. n : i < j => f[i] < f[j]

LEMMA NthOf ==
  ASSUME NEW n \in Nat, NEW f, NEW S, Lists(f, n, S)
  PROVE  Cardinality(S) = n /\ \A k \in 1 .. n : Nth(S, k) = f[k]
<1> USE DEF Lists
<1> DEFINE T(k) == {f[i] : i \in 1 .. k}
<1>1. ASSUME NEW k \in 0 .. n PROVE Cardinality(T(k)) = k
  <2> DEFINE g == [i \in 1 .. k |-> f[i]]
  <2>1. g \in Bijection(1 .. k, T(k))
    BY DEF Bijection, Injection, Surjection, IsInjective
  <2>2. IsFiniteSet(1 .. k) /\ Cardinality(1 .. k) = k
    BY FS_Interval
  <2> HIDE DEF T
  <2>3. QED
    BY <2>1, <2>2, FS_Bijection DEF ExistsBijection
<1>2. ASSUME NEW k \in 1 .. n PROVE Cardinality({x \in S : x <= f[k]}) = k
  <2>1. {x \in S : x <= f[k]} = T(k)
    <3>1. ASSUME NEW i \in 1 .. n PROVE f[i] <= f[k] <=> i <= k
      BY <3>1
    <3>2. QED
      BY <3>1
  <2> HIDE DEF T
  <2>2. QED
    BY <1>1, <2>1
<1>3. ASSUME NEW k \in 1 .. n PROVE Nth(S, k) = f[k]
  <2>1. f[k] \in S /\ \A x \in S : Cardinality({y \in S : y <= x}) = k => x = f[k]
    BY <1>2
  <2>2. QED
    BY <1>2, <2>1 DEF Nth
<1>4. S = T(n) /\ n \in 0 .. n
  OBVIOUS
<1> HIDE DEF T
<1>5. QED
  BY <1>1, <1>3, <1>4

LEMMA ValuesOf ==
  ASSUME NEW params, NEW name, NEW n \in Nat, NEW f,
         Lists(f, n, {i \in DOMAIN params : params[i].name = name})
  PROVE  /\ Values(params, name) = [k \in 1 .. n |-> params[f[k]].value]
         /\ Len(Values(params, name)) = n
<1>1. PICK at : at = {i \in DOMAIN params : params[i].name = name}
  OBVIOUS
<1>2. Cardinality(at) = n /\ \A k \in 1 .. n : Nth(at, k) = f[k]
  BY <1>1, NthOf
<1>3. Values(params, name) = [k \in 1 .. Cardinality(at) |-> params[Nth(at, k)].value]
  BY <1>1 DEF Values
<1>4. Values(params, name) = [k \in 1 .. n |-> params[f[k]].value]
  BY <1>2, <1>3
<1>5. Values(params, name) \in [1 .. n -> {params[f[k]].value : k \in 1 .. n}]
  BY <1>4
<1>6. QED
  BY <1>4, <1>5, SeqDef, LenProperties

\* Both devices read a query as states st, which ask for values or for none; where a
\* pin comes more than once, the Pico W marks it with the last value.
At(st, p) == {i \in DOMAIN st : st[i].pin = p}

Marks(val) == IF val = None THEN -1 ELSE val

IsReading(params, n, st) ==
  /\ n \in Nat /\ st \in [1 .. n -> [pin : Pin, val : Level \cup {None}]]
  /\ Paired(params) = st
  /\ \/ \A i \in 1 .. n : st[i].val # None
     \/ \A i \in 1 .. n : st[i].val = None
  /\ \A marks : \A p \in Pin :
       Marked(Reset(marks), params)[p]
       = IF At(st, p) = {} THEN None ELSE Marks(st[Max(At(st, p))].val)

LEMMA SetReading ==
  ASSUME NEW s \in Tuples([pin : Pin, val : Level])
  PROVE  \E n, st : IsReading(SetQuery(s), n, st)
<1> DEFINE n == Len(s)
           params == SetQuery(s)
           st == [i \in 1 .. n |-> [pin |-> s[i].pin, val |-> s[i].val]]
           f == [k \in 1 .. n |-> 2 * k - 1]
           g == [k \in 1 .. n |-> 2 * k]
<1>1. n \in Nat /\ s \in [1 .. n -> [pin : Pin, val : Level]]
  <2>1. s \in Seq([pin : Pin, val : Level]) /\ s \in [1 .. n -> [pin : Pin, val : Level]]
    BY TupleShape
  <2>2. QED
    BY <2>1, LenProperties
<1>2. params \in Queries
  BY DEF Queries
<1>3. DOMAIN params = 1 .. 2 * n /\ Len(params) = 2 * n /\ 2 * n <= MaxParams
  <2>1. DOMAIN params = 1 .. 2 * n
    BY DEF SetQuery
  <2>2. DOMAIN params = 1 .. Len(params) /\ Len(params) \in Nat /\ Len(params) <= MaxParams
    BY <1>2, QueryShape
  <2>3. QED
    BY <1>1, <2>1, <2>2
<1>4. ASSUME NEW k \in 1 .. n
      PROVE  /\ params[2 * k - 1] = Param("pin", s[k].pin)
             /\ params[2 * k] = Param("val", s[k].val)
  <2>1. /\ 2 * k - 1 \in 1 .. 2 * n /\ (2 * k - 1) % 2 = 1 /\ (2 * k - 1 + 1) \div 2 = k
        /\ 2 * k \in 1 .. 2 * n /\ (2 * k) % 2 # 1 /\ (2 * k) \div 2 = k
    BY <1>1
  <2>2. QED
    BY <2>1 DEF SetQuery
<1>5. \A i \in 1 .. 2 * n : \E k \in 1 .. n : i = 2 * k - 1 \/ i = 2 * k
  <2> SUFFICES ASSUME NEW i \in 1 .. 2 * n
               PROVE  \E k \in 1 .. n : i = 2 * k - 1 \/ i = 2 * k
    OBVIOUS
  <2>1. (i + 1) \div 2 \in 1 .. n
    BY <1>1
  <2>2. i = 2 * ((i + 1) \div 2) - 1 \/ i = 2 * ((i + 1) \div 2)
    BY <1>1
  <2>3. QED
    BY <2>1, <2>2
<1>6. ASSUME NEW v1, NEW v2 PROVE /\ Param("pin", v1).name = "pin" /\ Param("pin", v1).value = v1
                                  /\ Param("val", v1).name = "val" /\ Param("val", v1).value = v1
                                  /\ Param("pin", v1) # Param("val", v2)
                                  /\ Param("pin", v1) = Param("pin", v2) => v1 = v2
  BY DEF Param
<1> HIDE DEF params
<1> HIDE DEF n
<1>7. \A k \in 1 .. n : 2 * k - 1 \in 1 .. 2 * n /\ 2 * k \in 1 .. 2 * n
  BY <1>1
<1>8. /\ Lists(f, n, {i \in DOMAIN params : params[i].name = "pin"})
      /\ Lists(g, n, {i \in DOMAIN params : params[i].name = "val"})
  <2>1. \A k \in 1 .. n : params[2 * k - 1].name = "pin" /\ params[2 * k].name = "val"
    BY <1>4, <1>6
  <2>2. \A i \in DOMAIN params : params[i].name = "pin" => \E k \in 1 .. n : i = f[k]
    BY <1>3, <1>5, <2>1
  <2>3. \A i \in DOMAIN params : params[i].name = "val" => \E k \in 1 .. n : i = g[k]
    BY <1>3, <1>5, <2>1
  <2>4. {i \in DOMAIN params : params[i].name = "pin"} = {f[k] : k \in 1 .. n}
    BY <1>3, <1>7, <2>1, <2>2
  <2>5. {i \in DOMAIN params : params[i].name = "val"} = {g[k] : k \in 1 .. n}
    BY <1>3, <1>7, <2>1, <2>3
  <2>6. /\ f \in [1 .. n -> Nat] /\ g \in [1 .. n -> Nat]
        /\ \A i, j \in 1 .. n : i < j => f[i] < f[j] /\ g[i] < g[j]
    BY <1>1
  <2> HIDE DEF f, g
  <2>7. QED
    BY <2>4, <2>5, <2>6 DEF Lists
<1>9. /\ Values(params, "pin") = [k \in 1 .. n |-> s[k].pin] /\ Len(Values(params, "pin")) = n
      /\ Values(params, "val") = [k \in 1 .. n |-> s[k].val] /\ Len(Values(params, "val")) = n
  <2>1. \A k \in 1 .. n : params[f[k]].value = s[k].pin /\ params[g[k]].value = s[k].val
    BY <1>4, <1>6
  <2> HIDE DEF f, g
  <2>2. /\ Values(params, "pin") = [k \in 1 .. n |-> params[f[k]].value]
        /\ Len(Values(params, "pin")) = n
    BY <1>1, <1>8, ValuesOf
  <2>3. /\ Values(params, "val") = [k \in 1 .. n |-> params[g[k]].value]
        /\ Len(Values(params, "val")) = n
    BY <1>1, <1>8, ValuesOf
  <2>4. QED
    BY <2>1, <2>2, <2>3
<1>10. Paired(params) = st
  BY <1>1, <1>9 DEF Paired
<1>11. st \in [1 .. n -> [pin : Pin, val : Level \cup {None}]] /\ \A i \in 1 .. n : st[i].val # None
  BY <1>1, DeviceApiAssumption DEF Level
<1>12. ASSUME NEW marks, NEW p \in Pin
       PROVE  Marked(Reset(marks), params)[p]
              = IF At(st, p) = {} THEN None ELSE Marks(st[Max(At(st, p))].val)
  <2> DEFINE at == {i \in 1 .. Len(params) : i <= MaxParams /\ params[i] = Param("pin", p)}
  <2>1. Marked(Reset(marks), params)[p]
        = IF at = {} THEN None ELSE ValueAt(params, Max(at))
    BY DEF Marked, Reset
  <2>2. \A k \in 1 .. n : 2 * k - 1 \in at <=> k \in At(st, p)
    BY <1>3, <1>4, <1>6, <1>7, DeviceApiAssumption DEF At
  <2>3. ASSUME NEW i \in at PROVE \E k \in At(st, p) : i = 2 * k - 1
    <3>1. PICK k \in 1 .. n : i = 2 * k - 1 \/ i = 2 * k
      BY <1>3, <1>5
    <3>2. i # 2 * k
      BY <1>4, <1>6
    <3>3. QED
      BY <2>2, <3>1, <3>2
  <2>4. at \in SUBSET (1 .. Len(params)) /\ At(st, p) \in SUBSET (1 .. n)
    BY DEF At
  <2> HIDE DEF at
  <2>5. CASE At(st, p) = {}
    BY <2>1, <2>3, <2>5
  <2>6. CASE At(st, p) # {}
    <3>1. PICK m \in At(st, p) : Max(At(st, p)) = m /\ \A k \in At(st, p) : k <= m
      BY <1>1, <2>4, <2>6, MaxIn
    <3>2. m \in 1 .. n /\ 2 * m - 1 \in at /\ \A i \in at : i <= 2 * m - 1
      BY <1>1, <2>2, <2>3, <2>4, <3>1
    <3>3. Max(at) = 2 * m - 1
      BY <1>3, <2>4, <3>2, MaxIs
    <3>4. params[2 * m - 1 + 1].name = "val" /\ params[2 * m - 1 + 1].value = s[m].val
      <4>1. 2 * m - 1 + 1 = 2 * m /\ m \in 1 .. n
        BY <1>1, <3>2
      <4>2. params[2 * m] = Param("val", s[m].val)
        BY <1>4, <4>1
      <4>3. QED
        BY <1>6, <4>1, <4>2
    <3>5. ValueAt(params, 2 * m - 1) = s[m].val
      BY <1>1, <1>3, <3>2, <3>4, DeviceApiAssumption DEF ValueAt
    <3>6. st[m].val = s[m].val /\ st[m].val # None
      BY <1>11, <3>2
    <3>7. QED
      BY <2>1, <2>6, <3>1, <3>2, <3>3, <3>5, <3>6 DEF Marks
  <2>7. QED
    BY <2>5, <2>6
<1>13. IsReading(params, n, st)
  BY <1>1, <1>10, <1>11, <1>12 DEF IsReading
<1>14. QED
  BY <1>13 DEF params

LEMMA PinReading ==
  ASSUME NEW ps \in Tuples(Pin) PROVE \E n, st : IsReading(PinQuery(ps), n, st)
<1> DEFINE n == Len(ps)
           params == PinQuery(ps)
           st == [i \in 1 .. n |-> [pin |-> ps[i], val |-> None]]
           f == [k \in 1 .. n |-> k]
           g == [k \in 1 .. 0 |-> k]
<1>1. n \in Nat /\ ps \in [1 .. n -> Pin]
  <2>1. ps \in Seq(Pin) /\ ps \in [1 .. n -> Pin]
    BY TupleShape
  <2>2. QED
    BY <2>1, LenProperties
<1>2. params \in Queries
  BY DEF Queries
<1>3. DOMAIN params = 1 .. n /\ Len(params) = n /\ n <= MaxParams
  <2>1. DOMAIN params = 1 .. n
    BY DEF PinQuery
  <2>2. DOMAIN params = 1 .. Len(params) /\ Len(params) \in Nat /\ Len(params) <= MaxParams
    BY <1>2, QueryShape
  <2>3. QED
    BY <1>1, <2>1, <2>2
<1>4. ASSUME NEW k \in 1 .. n
      PROVE  /\ params[k] = Param("pin", ps[k])
             /\ params[k].name = "pin" /\ params[k].value = ps[k]
             /\ \A p : params[k] = Param("pin", p) <=> ps[k] = p
  BY DEF PinQuery, Param
<1> HIDE DEF params, n
<1>5. /\ Lists(f, n, {i \in DOMAIN params : params[i].name = "pin"})
      /\ Lists(g, 0, {i \in DOMAIN params : params[i].name = "val"})
  <2>1. {i \in DOMAIN params : params[i].name = "pin"} = {f[k] : k \in 1 .. n}
    BY <1>3, <1>4
  <2>2. {i \in DOMAIN params : params[i].name = "val"} = {g[k] : k \in 1 .. 0}
    BY <1>3, <1>4
  <2>3. f \in [1 .. n -> Nat] /\ \A i, j \in 1 .. n : i < j => f[i] < f[j]
    BY <1>1
  <2>4. g \in [1 .. 0 -> Nat] /\ \A i, j \in 1 .. 0 : i < j => g[i] < g[j]
    OBVIOUS
  <2> HIDE DEF f, g
  <2>5. QED
    BY <2>1, <2>2, <2>3, <2>4 DEF Lists
<1>6. /\ Values(params, "pin") = [k \in 1 .. n |-> ps[k]] /\ Len(Values(params, "pin")) = n
      /\ Len(Values(params, "val")) = 0
  <2>1. \A k \in 1 .. n : params[f[k]].value = ps[k]
    BY <1>4
  <2> HIDE DEF f, g
  <2>2. /\ Values(params, "pin") = [k \in 1 .. n |-> params[f[k]].value]
        /\ Len(Values(params, "pin")) = n
    BY <1>1, <1>5, ValuesOf
  <2>3. Len(Values(params, "val")) = 0
    BY <1>5, ValuesOf
  <2>4. QED
    BY <2>1, <2>2, <2>3
<1>7. Paired(params) = st
  BY <1>1, <1>6 DEF Paired
<1>8. st \in [1 .. n -> [pin : Pin, val : Level \cup {None}]] /\ \A i \in 1 .. n : st[i].val = None
  BY <1>1
<1>9. ASSUME NEW marks, NEW p \in Pin
      PROVE  Marked(Reset(marks), params)[p]
             = IF At(st, p) = {} THEN None ELSE Marks(st[Max(At(st, p))].val)
  <2> DEFINE at == {i \in 1 .. Len(params) : i <= MaxParams /\ params[i] = Param("pin", p)}
  <2>1. Marked(Reset(marks), params)[p]
        = IF at = {} THEN None ELSE ValueAt(params, Max(at))
    BY DEF Marked, Reset
  <2>2. at = At(st, p) /\ at \in SUBSET (1 .. n)
    BY <1>1, <1>3, <1>4, DeviceApiAssumption DEF At
  <2> HIDE DEF at
  <2>3. ASSUME at # {} PROVE ValueAt(params, Max(at)) = -1 /\ Marks(st[Max(at)].val) = -1
    <3>1. Max(at) \in 1 .. n
      BY <1>1, <2>2, <2>3, MaxIn
    <3>2. Max(at) < Len(params) => params[Max(at) + 1].name = "pin"
      <4>1. Max(at) < n => Max(at) + 1 \in 1 .. n
        BY <1>1, <3>1
      <4>2. QED
        BY <1>3, <1>4, <4>1
    <3>3. ValueAt(params, Max(at)) = -1
      BY <3>2 DEF ValueAt
    <3>4. QED
      BY <1>8, <3>1, <3>3 DEF Marks
  <2>4. QED
    BY <2>1, <2>2, <2>3
<1>10. IsReading(params, n, st)
  BY <1>1, <1>7, <1>8, <1>9 DEF IsReading
<1>11. QED
  BY <1>10 DEF params

-----------------------------------------------------------------------------
(***************************************************************************)
(* The virtual device, state by state.                                     *)
(***************************************************************************)
\* The states up to i that ask for a value of pin p.
Asks(st, i, p) == {j \in 1 .. i : st[j].pin = p /\ st[j].val # None}

\* The levels after each state exist: there is no least state without.
LEMMA LevelsExist ==
  ASSUME NEW n \in Nat, NEW lev, NEW st
  PROVE  \E f : f = [i \in 0 .. n |-> IF i = 0 THEN lev ELSE SetState(f[i - 1], st[i])]
<1> DEFINE Exists(m) ==
      \E f : f = [i \in 0 .. m |-> IF i = 0 THEN lev ELSE SetState(f[i - 1], st[i])]
<1> SUFFICES ASSUME ~Exists(n) PROVE FALSE
  OBVIOUS
<1> DEFINE Bad == {m \in Nat : ~Exists(m)}
<1>1. PICK m \in Bad : \A k \in Bad : m <= k
  <2>1. Bad # {} /\ Bad \in SUBSET Nat
    OBVIOUS
  <2> HIDE DEF Bad
  <2>2. QED
    BY <2>1, LeastIn
<1>2. CASE m = 0
  <2> DEFINE f == [i \in 0 .. 0 |-> lev]
  <2>1. f = [i \in 0 .. 0 |-> IF i = 0 THEN lev ELSE SetState(f[i - 1], st[i])]
    OBVIOUS
  <2> HIDE DEF f
  <2>2. QED
    BY <1>2, <2>1
<1>3. CASE m # 0
  <2>1. m \in Nat \ {0} /\ m - 1 \in Nat /\ m - 1 \notin Bad
    <3>1. m \in Nat
      BY <1>1
    <3> HIDE DEF Bad
    <3>2. QED
      BY <1>1, <1>3, <3>1
  <2>2. PICK g : g = [i \in 0 .. m - 1 |-> IF i = 0 THEN lev ELSE SetState(g[i - 1], st[i])]
    BY <2>1
  <2> DEFINE f == [i \in 0 .. m |-> IF i = m THEN SetState(g[m - 1], st[m]) ELSE g[i]]
  <2>3. \A i \in 0 .. m : f[i] = IF i = 0 THEN lev ELSE SetState(f[i - 1], st[i])
    <3> SUFFICES ASSUME NEW i \in 0 .. m
                 PROVE  f[i] = IF i = 0 THEN lev ELSE SetState(f[i - 1], st[i])
      OBVIOUS
    <3>1. CASE i = 0
      BY <2>1, <2>2, <3>1
    <3>2. CASE i # 0
      <4>1. i - 1 \in 0 .. m - 1 /\ f[i - 1] = g[i - 1]
        BY <2>1, <3>2
      <4>2. CASE i = m
        BY <3>2, <4>1, <4>2
      <4>3. CASE i # m
        <5>1. i \in 0 .. m - 1 /\ f[i] = g[i]
          BY <2>1, <4>3
        <5>2. g[i] = SetState(g[i - 1], st[i])
          BY <2>2, <3>2, <5>1
        <5>3. QED
          BY <3>2, <4>1, <5>1, <5>2
      <4>4. QED
        BY <4>2, <4>3
    <3>3. QED
      BY <3>1, <3>2
  <2>4. f = [i \in 0 .. m |-> IF i = 0 THEN lev ELSE SetState(f[i - 1], st[i])]
    BY <2>3
  <2> HIDE DEF f
  <2>5. Exists(m)
    BY <2>4
  <2>6. QED
    BY <1>1, <2>5
<1>4. QED
  BY <1>2, <1>3

LEMMA LevelsAre ==
  ASSUME NEW params, NEW n, NEW st, IsReading(params, n, st), NEW lev
  PROVE  /\ Len(Paired(params)) = n
         /\ VirtualLevels(lev, params)[0] = lev
         /\ \A i \in 1 .. n : VirtualLevels(lev, params)[i]
                             = SetState(VirtualLevels(lev, params)[i - 1], st[i])
<1>1. n \in Nat /\ st = Paired(params) /\ st \in [1 .. n -> [pin : Pin, val : Level \cup {None}]]
  BY DEF IsReading
<1>2. Len(st) = n
  BY <1>1, SeqDef, LenProperties
<1> DEFINE f == VirtualLevels(lev, params)
<1>3. f = [i \in 0 .. n |-> IF i = 0 THEN lev ELSE SetState(f[i - 1], st[i])]
  BY <1>1, <1>2, LevelsExist DEF VirtualLevels
<1> HIDE DEF f
<1>4. QED
  BY <1>1, <1>2, <1>3 DEF f

\* After i states a pin has the level that the last of them asks for, if any does.
LEMMA LevelsTold ==
  ASSUME NEW params, NEW n, NEW st, IsReading(params, n, st), NEW lev \in [Pin -> Level],
         NEW i \in 0 .. n
  PROVE  /\ VirtualLevels(lev, params)[i] \in [Pin -> Level]
         /\ \A p \in Pin : VirtualLevels(lev, params)[i][p]
                           = IF Asks(st, i, p) = {} THEN lev[p] ELSE st[Max(Asks(st, i, p))].val
<1> DEFINE f == VirtualLevels(lev, params)
           Told1(k) == /\ f[k] \in [Pin -> Level]
                       /\ \A p \in Pin : f[k][p] = IF Asks(st, k, p) = {} THEN lev[p]
                                                   ELSE st[Max(Asks(st, k, p))].val
           Bad == {k \in 0 .. n : ~Told1(k)}
<1>1. /\ f[0] = lev /\ \A k \in 1 .. n : f[k] = SetState(f[k - 1], st[k])
      /\ n \in Nat /\ st \in [1 .. n -> [pin : Pin, val : Level \cup {None}]]
  <2>1. n \in Nat /\ st \in [1 .. n -> [pin : Pin, val : Level \cup {None}]]
    BY DEF IsReading
  <2>2. QED
    BY <2>1, LevelsAre
<1> HIDE DEF f
<1>2. SUFFICES ASSUME Bad # {} PROVE FALSE
  BY DEF f
<1>3. PICK m \in Bad : \A k \in Bad : m <= k
  <2>1. Bad \in SUBSET Nat
    BY <1>1
  <2> HIDE DEF Bad
  <2>2. QED
    BY <1>2, <2>1, LeastIn
<1>4. m \in 0 .. n /\ ~Told1(m)
  BY <1>3
<1>5. CASE m = 0
  <2>1. \A p : Asks(st, 0, p) = {}
    BY DEF Asks
  <2>2. QED
    BY <1>1, <1>4, <1>5, <2>1
<1>6. CASE m # 0
  <2>1. m \in 1 .. n /\ m - 1 \in 0 .. n /\ m - 1 \notin Bad
    <3>1. m \in Nat
      BY <1>1, <1>4
    <3> HIDE DEF Bad
    <3>2. QED
      BY <1>1, <1>3, <1>4, <1>6, <3>1
  <2>2. Told1(m - 1)
    BY <2>1
  <2>3. f[m] = SetState(f[m - 1], st[m]) /\ st[m].pin \in Pin /\ st[m].val \in Level \cup {None}
    BY <1>1, <2>1
  <2>4. CASE st[m].val = None
    <3>1. f[m] = f[m - 1]
      BY <2>3, <2>4 DEF SetState
    <3>2. \A p : Asks(st, m, p) = Asks(st, m - 1, p)
      BY <2>1, <2>4 DEF Asks
    <3> HIDE DEF Bad
    <3>3. QED
      BY <1>4, <2>2, <3>1, <3>2
  <2>5. CASE st[m].val # None
    <3>1. f[m] = [f[m - 1] EXCEPT ![st[m].pin] = st[m].val]
      BY <2>3, <2>5 DEF SetState, Level
    <3>2. f[m] \in [Pin -> Level]
      BY <2>2, <2>3, <2>5, <3>1
    <3>3. ASSUME NEW p \in Pin, p # st[m].pin
          PROVE  f[m][p] = f[m - 1][p] /\ Asks(st, m, p) = Asks(st, m - 1, p)
      BY <2>1, <2>2, <3>1, <3>3 DEF Asks
    <3>4. f[m][st[m].pin] = st[m].val
      BY <2>2, <2>3, <3>1
    <3>5. Max(Asks(st, m, st[m].pin)) = m /\ Asks(st, m, st[m].pin) # {}
      <4>1. /\ Asks(st, m, st[m].pin) \in SUBSET Int /\ m \in Asks(st, m, st[m].pin)
            /\ \A k \in Asks(st, m, st[m].pin) : k <= m
        BY <2>1, <2>5 DEF Asks
      <4>2. QED
        BY <4>1, MaxIs
    <3>6. Told1(m)
      BY <2>2, <3>2, <3>3, <3>4, <3>5
    <3>7. QED
      BY <1>4, <3>6
  <2>6. QED
    BY <2>4, <2>5
<1>7. QED
  BY <1>5, <1>6

\* Both devices leave the same levels, and both answers are read as these.
LEMMA ReadingsAgree ==
  ASSUME NEW params, NEW n, NEW st, IsReading(params, n, st), NEW lev \in [Pin -> Level],
         NEW marks
  PROVE  LET m   == Marked(Reset(marks), params)
             put == Put(lev, m)
         IN  /\ put = VirtualLevels(lev, params)[Len(Paired(params))]
             /\ \A p \in DOMAIN Told(put, m) : Read(VirtualAnswer(lev, params))[p] = put[p]
             /\ DOMAIN Told(put, m) = DOMAIN Read(VirtualAnswer(lev, params))
<1> DEFINE m == Marked(Reset(marks), params)
           put == Put(lev, m)
           f == VirtualLevels(lev, params)
           answer == VirtualAnswer(lev, params)
<1>1. /\ n \in Nat /\ st \in [1 .. n -> [pin : Pin, val : Level \cup {None}]]
      /\ Paired(params) = st /\ Len(Paired(params)) = n
      /\ (\A i \in 1 .. n : st[i].val # None) \/ (\A i \in 1 .. n : st[i].val = None)
      /\ None \notin Level /\ None # -1
  BY LevelsAre, DeviceApiAssumption DEF IsReading, Level
<1>2. ASSUME NEW p \in Pin
      PROVE  m[p] = IF At(st, p) = {} THEN None ELSE Marks(st[Max(At(st, p))].val)
  BY DEF IsReading
<1>3. ASSUME NEW i \in 0 .. n
      PROVE  /\ f[i] \in [Pin -> Level]
             /\ \A p \in Pin : f[i][p] = IF Asks(st, i, p) = {} THEN lev[p]
                                         ELSE st[Max(Asks(st, i, p))].val
  BY LevelsTold
<1>4. put \in [Pin -> Level] /\ \A p \in Pin : put[p] = IF m[p] = None \/ m[p] < 0 THEN lev[p]
                                                      ELSE IF m[p] = 0 THEN 0 ELSE 1
  BY PutLevels DEF Put
<1>5. answer = [i \in 1 .. n |-> [pin |-> st[i].pin, sta |-> f[i][st[i].pin]]]
  BY <1>1 DEF VirtualAnswer
<1>6. \A p : m[p] # None /\ p \in Pin <=> At(st, p) # {} /\ p \in Pin
  <2>1. ASSUME NEW p \in Pin, At(st, p) # {} PROVE m[p] # None
    <3>1. Max(At(st, p)) \in 1 .. n
      BY <1>1, <2>1, MaxIn DEF At
    <3>2. QED
      BY <1>1, <1>2, <2>1, <3>1 DEF Marks
  <2>2. QED
    BY <1>2, <2>1
<1> HIDE DEF m, put, f, answer
<1>7. ASSUME NEW p \in Pin, NEW i \in 0 .. n, \A j \in At(st, p) : j <= i PROVE f[i][p] = put[p]
  <2>1. At(st, p) \in SUBSET (1 .. n)
    BY <1>1 DEF At
  <2>2. CASE At(st, p) = {}
    <3>1. Asks(st, i, p) = {}
      BY <1>1, <2>2 DEF At, Asks
    <3>2. QED
      BY <1>2, <1>3, <1>4, <2>2, <3>1
  <2>3. CASE At(st, p) # {} /\ \A j \in 1 .. n : st[j].val = None
    <3>1. Asks(st, i, p) = {}
      BY <1>1, <2>3 DEF Asks
    <3>2. m[p] = -1
      <4>1. Max(At(st, p)) \in 1 .. n
        BY <1>1, <2>1, <2>3, MaxIn
      <4>2. QED
        BY <1>2, <2>3, <4>1 DEF Marks
    <3>3. QED
      BY <1>3, <1>4, <3>1, <3>2
  <2>4. CASE At(st, p) # {} /\ \A j \in 1 .. n : st[j].val # None
    <3>1. Asks(st, i, p) = At(st, p)
      BY <1>1, <1>7, <2>1, <2>4 DEF At, Asks
    <3>2. PICK j \in 1 .. n : j = Max(At(st, p))
      BY <1>1, <2>1, <2>4, MaxIn
    <3>3. m[p] = st[j].val /\ st[j].val \in Level
      BY <1>1, <1>2, <2>4, <3>2 DEF Marks
    <3>4. put[p] = st[j].val
      BY <1>1, <1>4, <3>3 DEF Level
    <3>5. QED
      BY <1>3, <2>4, <3>1, <3>2, <3>4
  <2>5. QED
    BY <1>1, <2>2, <2>3, <2>4
<1>8. put = f[n]
  <2>1. \A p \in Pin : f[n][p] = put[p]
    BY <1>1, <1>7 DEF At
  <2>2. n \in 0 .. n
    BY <1>1
  <2>3. QED
    BY <1>3, <1>4, <2>1, <2>2
<1>9. DOMAIN Told(put, m) = {p \in Pin : At(st, p) # {}}
  BY <1>6 DEF Told
<1>10. /\ DOMAIN answer = 1 .. n
       /\ \A p : {i \in DOMAIN answer : answer[i].pin = p} = At(st, p)
  BY <1>1, <1>5 DEF At
<1>11. DOMAIN Read(answer) = {p \in Pin : At(st, p) # {}}
  <2>1. DOMAIN Read(answer) = {answer[i].pin : i \in 1 .. n}
    BY <1>10 DEF Read
  <2>2. \A i \in 1 .. n : answer[i].pin = st[i].pin /\ st[i].pin \in Pin
    BY <1>1, <1>5
  <2>3. QED
    BY <1>1, <2>1, <2>2 DEF At
<1>12. ASSUME NEW p \in Pin, At(st, p) # {} PROVE Read(answer)[p] = put[p]
  <2>1. PICK i \in At(st, p) : i = Max(At(st, p)) /\ \A j \in At(st, p) : j <= i
    <3>1. At(st, p) \in SUBSET (1 .. n)
      BY <1>1 DEF At
    <3>2. QED
      BY <1>1, <1>12, <3>1, MaxIn
  <2>2. i \in 1 .. n /\ i \in 0 .. n /\ st[i].pin = p
    BY <1>1, <2>1 DEF At
  <2>3. Read(answer)[p] = answer[Max({k \in DOMAIN answer : answer[k].pin = p})].sta
    <3>1. p \in {answer[k].pin : k \in DOMAIN answer}
      BY <1>5, <1>10, <2>2
    <3>2. QED
      BY <3>1 DEF Read
  <2>4. Read(answer)[p] = f[i][p]
    BY <1>5, <1>10, <2>1, <2>2, <2>3
  <2>5. QED
    BY <1>7, <2>1, <2>2, <2>4
<1>13. QED
  BY <1>1, <1>8, <1>9, <1>11, <1>12 DEF m, put, f, answer

\* Interchangeable: for any pins and any query the two devices set the same levels,
\* and the server reads the same states from their answers.
THEOREM DevicesAgree == Spec => []Interchangeable
<1>1. ASSUME IInv PROVE Interchangeable
  <2>1. level \in [Pin -> Level]
    BY <1>1 DEF IInv, TypeOK
  <2>2. ASSUME NEW params \in Queries PROVE \E n, st : IsReading(params, n, st)
    BY SetReading, PinReading DEF Queries
  <2>3. QED
    BY <2>1, <2>2, ReadingsAgree DEF Interchangeable
<1>2. QED
  BY <1>1, Invariant, PTL
=============================================================================
