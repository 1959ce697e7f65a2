--------------------------- MODULE PicoHttpProofs ---------------------------
(***************************************************************************)
(* For any sizes of its heap, pools, window and timeout, the HTTP client   *)
(* of the Pico W gives back blocks and control blocks, loses buffers only  *)
(* after the pool was cut off, reports each result once and success only   *)
(* when it is one; and it never leaves the address of the first network.   *)
(***************************************************************************)
EXTENDS PicoHttp, TLAPS, FiniteSetTheorems

LEMMA Sizes == /\ Heap \in Nat /\ Faults \in Nat /\ Pcbs \in Nat \ {0}
               /\ Window \in Nat \ {0} /\ Pool \in Nat \ {0} /\ Polls \in Nat \ {0}
               /\ IsFiniteSet(Req) /\ None \notin Net /\ None \notin Nat /\ None # "ok"
  BY PicoHttpAssumption

States == {"free", "new", "resolving", "connecting", "line", "headers", "data"}

Slot == [at : States,
         to : Net \cup {None}, pcb : BOOLEAN, request : BOOLEAN, rx_hdrs : BOOLEAN,
         ticks : 0 .. Polls, unread : 0 .. Window, body : 0 .. 2 * Window,
         promised : Lengths, came : 0 .. Window \cup {None},
         calls : {0, 1}, result : Results \cup {None}]

-----------------------------------------------------------------------------
(***************************************************************************)
(* The inductive invariant.  The accounts balance because what a request   *)
(* owns follows from where it is: a pcb while it lasts, its text until it  *)
(* is connected, its chain of buffers before the end of the headers only;  *)
(* and what was counted is what came, unless the headers were spread out.  *)
(***************************************************************************)
Busy   == {r \in Req : req[r].at # "free"}
Texts  == {r \in Req : req[r].request}
Owners == {r \in Req : req[r].pcb}

Unsent == {"new", "resolving", "connecting"}

Shape(q) ==
  /\ q.pcb <=> q.at # "free"
  /\ q.request <=> q.at \in Unsent
  /\ q.rx_hdrs => q.at \in {"line", "headers"}
  /\ q.at # "data" /\ ~q.rx_hdrs => q.unread = 0
  /\ q.body <= Window + q.unread
  /\ q.came # None => q.at = "data" /\ q.came = q.body /\ q.came <= q.unread
  /\ q.at # "free" => q.calls = 0 /\ q.to # None

Balance == /\ heap = Cardinality(Busy) + Cardinality(Texts)
           /\ pcbs = Cardinality(Owners) + closing
           /\ pool + Cardinality(Held) \in (IF cut THEN 1 ELSE Pool) .. Pool

\* The loop, and the address: every request goes to the one computed first.
Course == /\ link \/ main \in {"request", "connect"} => net # None
          /\ main = "connect" => cur \in Req /\ req[cur].at = "new"
          /\ \A r \in Req : req[r].at = "new" => cur = r /\ main \in {"connect", "halted"}
          /\ \A r \in Req : req[r].at # "free" => req[r].to = home

IInv == TypeOK /\ (\A r \in Req : Shape(req[r])) /\ Balance /\ Course

One(b) == IF b THEN 1 ELSE 0

\* One request changes: so much do the sets that are counted change.
LEMMA Recount ==
  ASSUME NEW S \in SUBSET Req, NEW T \in SUBSET Req, NEW r \in Req,
         \A k \in Req \ {r} : k \in S <=> k \in T
  PROVE  /\ Cardinality(S) \in Nat /\ Cardinality(T) \in Nat
         /\ Cardinality(T) <= Cardinality(Req)
         /\ Cardinality(T) = Cardinality(S) - One(r \in S) + One(r \in T)
         /\ r \in S => Cardinality(S) >= 1
<1>1. IsFiniteSet(S) /\ IsFiniteSet(T) /\ Cardinality(T) <= Cardinality(Req)
  BY Sizes, FS_Subset
<1>2. Cardinality(S) \in Nat /\ Cardinality(T) \in Nat
  BY <1>1, FS_CardinalityType
<1>3. S \ {r} = T \ {r}
  OBVIOUS
<1>4. IsFiniteSet(S \ {r}) /\ Cardinality(S \ {r}) \in Nat
  BY <1>1, FS_RemoveElement, FS_CardinalityType
<1>5. Cardinality(S \ {r}) = Cardinality(S) - One(r \in S)
  <2>1. Cardinality(S \ {r}) = IF r \in S THEN Cardinality(S) - 1 ELSE Cardinality(S)
    BY <1>1, FS_RemoveElement
  <2>2. QED
    BY <1>2, <2>1 DEF One
<1>6. Cardinality(T \ {r}) = Cardinality(T) - One(r \in T)
  <2>1. Cardinality(T \ {r}) = IF r \in T THEN Cardinality(T) - 1 ELSE Cardinality(T)
    BY <1>1, FS_RemoveElement
  <2>2. QED
    BY <1>2, <2>1 DEF One
<1>7. QED
  BY <1>1, <1>2, <1>3, <1>4, <1>5, <1>6 DEF One

\* Stacks of buffers over the requests, as high as c says.
Stack(c) == {b \in Req \X (1 .. Window) : b[2] <= c[b[1]]}

\* One stack changes: so much does the number of buffers in all of them change.
LEMMA Restack ==
  ASSUME NEW c \in [Req -> 0 .. Window], NEW d \in [Req -> 0 .. Window], NEW r \in Req,
         \A k \in Req \ {r} : c[k] = d[k]
  PROVE  /\ Cardinality(Stack(c)) \in Nat /\ Cardinality(Stack(d)) \in Nat
         /\ c[r] \in Nat /\ d[r] \in Nat
         /\ Cardinality(Stack(d)) = Cardinality(Stack(c)) - c[r] + d[r]
         /\ Cardinality(Stack(c)) >= c[r]
<1> DEFINE rest == {b \in Stack(c) : b[1] # r}
<1>1. Window \in Nat /\ IsFiniteSet(Req)
  BY Sizes
<1>2. IsFiniteSet(Req \X (1 .. Window))
  <2>1. IsFiniteSet(1 .. Window)
    BY <1>1, FS_Interval
  <2>2. QED
    BY <1>1, <2>1, FS_Product, Zenon
<1>3. IsFiniteSet(rest) /\ Cardinality(rest) \in Nat
  BY <1>2, FS_Subset, FS_CardinalityType DEF Stack
<1>4. ASSUME NEW n \in 0 .. Window
      PROVE  IsFiniteSet({r} \X (1 .. n)) /\ Cardinality({r} \X (1 .. n)) = n
  <2>1. IsFiniteSet({r}) /\ Cardinality({r}) = 1
    BY FS_Singleton
  <2>2. IsFiniteSet(1 .. n) /\ Cardinality(1 .. n) = n
    <3>1. n \in Nat
      BY <1>1
    <3>2. QED
      BY <3>1, FS_Interval
  <2>3. /\ IsFiniteSet({r} \X (1 .. n))
        /\ Cardinality({r} \X (1 .. n)) = Cardinality({r}) * Cardinality(1 .. n)
    BY <2>1, <2>2, FS_Product, Zenon
  <2>4. QED
    BY <1>1, <2>1, <2>2, <2>3
<1>5. ASSUME NEW e \in [Req -> 0 .. Window], \A k \in Req \ {r} : c[k] = e[k]
      PROVE  Cardinality(Stack(e)) = Cardinality(rest) + e[r]
  <2>1. Stack(e) = rest \cup ({r} \X (1 .. e[r]))
    BY <1>1, <1>5 DEF Stack
  <2>2. rest \cap ({r} \X (1 .. e[r])) = {}
    OBVIOUS
  <2>3. e[r] \in 0 .. Window
    OBVIOUS
  <2> HIDE DEF rest
  <2>4. /\ IsFiniteSet({r} \X (1 .. e[r]))
        /\ Cardinality({r} \X (1 .. e[r])) = e[r]
    BY <1>4, <2>3
  <2>5. Cardinality(rest \cup ({r} \X (1 .. e[r])))
          = Cardinality(rest) + e[r] - Cardinality({})
    BY <1>3, <2>2, <2>4, FS_Union
  <2>6. QED
    BY <1>1, <1>3, <2>1, <2>3, <2>5, FS_EmptySet
<1>6. Cardinality(Stack(c)) = Cardinality(rest) + c[r]
  BY <1>5
<1>7. Cardinality(Stack(d)) = Cardinality(rest) + d[r]
  BY <1>5
<1>8. c[r] \in Nat /\ d[r] \in Nat
  BY <1>1
<1> HIDE DEF rest
<1>9. QED
  BY <1>3, <1>6, <1>7, <1>8

\* The pool gains what the chain of a request loses, unless it is cut off: then
\* the buffers of the headers and one more are its whole free list.
Buffers(o, q) ==
  /\ pool' \in Nat /\ cut' \in BOOLEAN
  /\ \/ cut' = cut /\ pool' = pool + Chain(o) - Chain(q)
     \/ /\ pool > 0 /\ Chain(q) = 0 /\ pool' = Chain(o) + 1
        /\ cut' = (cut \/ pool > 1)

LEMMA ChainType == ASSUME IInv, NEW r \in Req PROVE Chain(req[r]) \in Nat
  BY Sizes DEF IInv, TypeOK, Chain

\* A step that changes one request keeps the invariant if the counters follow.
LEMMA SlotStep ==
  ASSUME IInv, NEW r \in Req,
         req' \in [Req -> Slot], \A k \in Req \ {r} : req'[k] = req[k], Shape(req'[r]),
         heap' = heap - One(req[r].at # "free") - One(req[r].request)
                      + One(req'[r].at # "free") + One(req'[r].request),
         pcbs' - closing' = pcbs - closing - One(req[r].pcb) + One(req'[r].pcb),
         Buffers(req[r], req'[r]),
         heap' <= Heap, pcbs' \in Nat, pcbs' <= Pcbs, closing' \in Nat,
         main' \in {"asleep", "wifi", "request", "connect", "halted"},
         cur' \in Req \cup {None},
         UNCHANGED <<link, net>>, home' \in Net \cup {None}, faults' \in 0 .. Faults,
         Course'
  PROVE  IInv'
<1> USE Sizes
<1>1. /\ heap \in Nat /\ pcbs \in Nat /\ closing \in Nat
      /\ pool \in Nat /\ pool' \in Nat /\ cut \in BOOLEAN /\ cut' \in BOOLEAN
  BY DEF IInv, TypeOK, Buffers
<1>2. /\ Cardinality(Busy') = Cardinality(Busy) - One(req[r].at # "free")
                                               + One(req'[r].at # "free")
      /\ Cardinality(Busy) \in Nat /\ Cardinality(Busy') \in Nat
  <2>1. Busy \in SUBSET Req /\ Busy' \in SUBSET Req
    BY DEF Busy
  <2>2. \A k \in Req : (k \in Busy <=> req[k].at # "free") /\ (k \in Busy' <=> req'[k].at # "free")
    BY DEF Busy
  <2>3. \A k \in Req \ {r} : k \in Busy <=> k \in Busy'
    BY <2>2
  <2>4. /\ Cardinality(Busy) \in Nat /\ Cardinality(Busy') \in Nat
        /\ Cardinality(Busy') <= Cardinality(Req)
        /\ Cardinality(Busy') = Cardinality(Busy) - One(r \in Busy) + One(r \in Busy')
    BY <2>1, <2>3, Recount
  <2>5. /\ One(r \in Busy) = One(req[r].at # "free")
        /\ One(r \in Busy') = One(req'[r].at # "free")
    BY <2>2 DEF One
  <2>6. QED
    BY <2>4, <2>5
<1>3. /\ Cardinality(Texts') = Cardinality(Texts) - One(req[r].request) + One(req'[r].request)
      /\ Cardinality(Texts) \in Nat /\ Cardinality(Texts') \in Nat
  <2>1. Texts \in SUBSET Req /\ Texts' \in SUBSET Req
    BY DEF Texts
  <2>2. \A k \in Req : (k \in Texts <=> req[k].request) /\ (k \in Texts' <=> req'[k].request)
    BY DEF Texts
  <2>3. \A k \in Req \ {r} : k \in Texts <=> k \in Texts'
    BY <2>2
  <2>4. /\ Cardinality(Texts) \in Nat /\ Cardinality(Texts') \in Nat
        /\ Cardinality(Texts') <= Cardinality(Req)
        /\ Cardinality(Texts') = Cardinality(Texts) - One(r \in Texts) + One(r \in Texts')
    BY <2>1, <2>3, Recount
  <2>5. /\ One(r \in Texts) = One(req[r].request)
        /\ One(r \in Texts') = One(req'[r].request)
    BY <2>2 DEF One
  <2>6. QED
    BY <2>4, <2>5
<1>4. /\ Cardinality(Owners') = Cardinality(Owners) - One(req[r].pcb) + One(req'[r].pcb)
      /\ Cardinality(Owners) \in Nat /\ Cardinality(Owners') \in Nat
  <2>1. Owners \in SUBSET Req /\ Owners' \in SUBSET Req
    BY DEF Owners
  <2>2. \A k \in Req : (k \in Owners <=> req[k].pcb) /\ (k \in Owners' <=> req'[k].pcb)
    BY DEF Owners
  <2>3. \A k \in Req \ {r} : k \in Owners <=> k \in Owners'
    BY <2>2
  <2>4. /\ Cardinality(Owners) \in Nat /\ Cardinality(Owners') \in Nat
        /\ Cardinality(Owners') <= Cardinality(Req)
        /\ Cardinality(Owners') = Cardinality(Owners) - One(r \in Owners) + One(r \in Owners')
    BY <2>1, <2>3, Recount
  <2>5. /\ One(r \in Owners) = One(req[r].pcb)
        /\ One(r \in Owners') = One(req'[r].pcb)
    BY <2>2 DEF One
  <2>6. QED
    BY <2>4, <2>5
<1>5. /\ Cardinality(Held') = Cardinality(Held) - Chain(req[r]) + Chain(req'[r])
      /\ Cardinality(Held) \in Nat /\ Cardinality(Held') \in Nat
      /\ Chain(req[r]) \in Nat /\ Chain(req'[r]) \in Nat
      /\ Cardinality(Held) >= Chain(req[r])
  <2> DEFINE c == [k \in Req |-> Chain(req[k])]
             d == [k \in Req |-> Chain(req'[k])]
  <2>1. c \in [Req -> 0 .. Window] /\ d \in [Req -> 0 .. Window]
    <3>1. \A q \in Slot : Chain(q) \in 0 .. Window
      BY DEF Chain, Slot
    <3>2. req \in [Req -> Slot]
      BY DEF IInv, TypeOK, Slot, States
    <3>3. QED
      BY <3>1, <3>2
  <2>2. \A k \in Req \ {r} : c[k] = d[k]
    OBVIOUS
  <2>3. Held = Stack(c) /\ Held' = Stack(d)
    BY DEF Held, Stack
  <2>4. c[r] = Chain(req[r]) /\ d[r] = Chain(req'[r])
    OBVIOUS
  <2> HIDE DEF c, d
  <2>5. QED
    BY <2>1, <2>2, <2>3, <2>4, Restack
<1>6. Balance'
  <2>1. /\ One(req[r].at # "free") \in Nat /\ One(req'[r].at # "free") \in Nat
        /\ One(req[r].request) \in Nat /\ One(req'[r].request) \in Nat
        /\ One(req[r].pcb) \in Nat /\ One(req'[r].pcb) \in Nat
    BY DEF One
  <2>2. heap' = Cardinality(Busy') + Cardinality(Texts')
    BY <1>1, <1>2, <1>3, <2>1 DEF IInv, Balance
  <2>3. pcbs' = Cardinality(Owners') + closing'
    BY <1>1, <1>4, <2>1 DEF IInv, Balance
  <2>4. pool' + Cardinality(Held') \in (IF cut' THEN 1 ELSE Pool) .. Pool
    <3>1. pool + Cardinality(Held) \in (IF cut THEN 1 ELSE Pool) .. Pool
      BY DEF IInv, Balance
    <3>2. CASE cut' = cut /\ pool' = pool + Chain(req[r]) - Chain(req'[r])
      BY <1>1, <1>5, <3>1, <3>2
    <3>3. CASE /\ pool > 0 /\ Chain(req'[r]) = 0 /\ pool' = Chain(req[r]) + 1
               /\ cut' = (cut \/ pool > 1)
      <4>1. CASE cut'
        BY <1>1, <1>5, <3>1, <3>3, <4>1
      <4>2. CASE ~cut'
        <5>1. ~cut /\ ~(pool > 1)
          BY <3>3, <4>2, Zenon
        <5>2. pool = 1
          BY <1>1, <3>3, <5>1
        <5>3. QED
          BY <1>1, <1>5, <3>1, <3>3, <4>2, <5>1, <5>2
      <4>3. QED
        BY <4>1, <4>2
    <3>4. QED
      BY <3>2, <3>3 DEF Buffers
  <2>5. QED
    BY <2>2, <2>3, <2>4 DEF Balance
<1>7. TypeOK'
  <2>1. heap' \in 0 .. Heap /\ pcbs' \in 0 .. Pcbs /\ closing' \in 0 .. Pcbs
    BY <1>1, <1>2, <1>3, <1>4, <1>6 DEF Balance
  <2>2. pool' \in 0 .. Pool
    BY <1>1, <1>5, <1>6 DEF Balance
  <2>3. QED
    BY <1>1, <2>1, <2>2 DEF IInv, TypeOK, Slot, States
<1>8. \A k \in Req : Shape(req[k])'
  BY DEF IInv, Shape
<1>9. QED
  BY <1>6, <1>7, <1>8 DEF IInv

\* A step that leaves the requests alone.
LEMMA QuietStep ==
  ASSUME IInv, UNCHANGED <<req, heap, pool, cut>>,
         pcbs' - closing' = pcbs - closing, pcbs' \in 0 .. Pcbs, closing' \in 0 .. Pcbs,
         main' \in {"asleep", "wifi", "request", "connect", "halted"},
         UNCHANGED <<cur, home>>, link' \in BOOLEAN, net' \in Net \cup {None},
         faults' \in 0 .. Faults, Course'
  PROVE  IInv'
<1>1. TypeOK'
  BY DEF IInv, TypeOK
<1>2. Busy' = Busy /\ Texts' = Texts /\ Owners' = Owners /\ Held' = Held
  BY DEF Busy, Texts, Owners, Held, Chain
<1>3. Cardinality(Owners) \in Nat
  <2>1. Owners \in SUBSET Req
    BY DEF Owners
  <2>2. QED
    BY <2>1, Sizes, FS_Subset, FS_CardinalityType
<1>4. Balance'
  BY <1>1, <1>2, <1>3 DEF IInv, TypeOK, Balance
<1>5. \A k \in Req : Shape(req[k])'
  BY DEF IInv, Shape
<1>6. QED
  BY <1>1, <1>4, <1>5 DEF IInv

\* A request ends.
LEMMA EndStep ==
  ASSUME IInv, NEW r \in Req, req[r].at # "free",
         NEW result \in Results \cup {None}, NEW calls \in {0, 1},
         req' = [req EXCEPT ![r] = Free(result, calls)],
         heap' = heap - Blocks(req[r]),
         pool' = pool + Chain(req[r]), cut' = cut,
         \/ closing' = closing + 1 /\ pcbs' = pcbs
         \/ closing' = closing /\ pcbs' = pcbs - 1,
         \/ main' = main /\ cur' = cur /\ req[r].at # "new"
         \/ main' = "asleep" /\ cur' = None /\ req[r].at = "new",
         UNCHANGED <<link, net, home>>, faults' \in 0 .. Faults
  PROVE  IInv'
<1> USE Sizes
<1>1. /\ req' \in [Req -> Slot] /\ req'[r] = Free(result, calls)
      /\ \A k \in Req \ {r} : req'[k] = req[k]
  <2>1. req \in [Req -> Slot]
    BY DEF IInv, TypeOK, Slot, States
  <2>2. Free(result, calls) \in Slot
    BY DEF Free, Slot, States, Lengths
  <2> HIDE DEF Free
  <2>3. QED
    BY <2>1, <2>2
<1>2. /\ req'[r].at = "free" /\ ~req'[r].request /\ ~req'[r].pcb /\ ~req'[r].rx_hdrs
      /\ Shape(req'[r])
  BY <1>1 DEF Free, Shape, Unsent
<1>3. Shape(req[r]) /\ req[r].pcb
  BY DEF IInv, Shape
<1>4. /\ heap' = heap - One(req[r].at # "free") - One(req[r].request)
                      + One(req'[r].at # "free") + One(req'[r].request)
      /\ heap' <= Heap
  BY <1>2 DEF Blocks, One, IInv, TypeOK
<1>5. Buffers(req[r], req'[r])
  BY <1>2, ChainType DEF Buffers, Chain, IInv, TypeOK
<1>6. pcbs' - closing' = pcbs - closing - One(req[r].pcb) + One(req'[r].pcb)
  BY <1>2, <1>3 DEF One, IInv, TypeOK
<1>7. pcbs' \in Nat /\ pcbs' <= Pcbs /\ closing' \in Nat
  <2>1. pcbs >= 1
    <3>1. Owners \in SUBSET Req /\ r \in Owners
      BY <1>3 DEF Owners
    <3>2. Cardinality(Owners) \in Nat /\ Cardinality(Owners) >= 1
      BY <3>1, Recount
    <3>3. QED
      BY <3>2 DEF IInv, TypeOK, Balance
  <2>2. QED
    BY <2>1 DEF IInv, TypeOK
<1>8. Course'
  <2>1. \A k \in Req : req'[k].at # "free" => k # r /\ req'[k] = req[k]
    BY <1>1, <1>2
  <2>2. main' = "connect" => main = "connect" /\ cur' = cur /\ cur # r
    BY DEF IInv, Course
  <2>3. \A k \in Req : req'[k].at = "new" => cur' = k /\ main' \in {"connect", "halted"}
    BY <2>1 DEF IInv, Course
  <2>4. QED
    BY <1>1, <2>1, <2>2, <2>3 DEF IInv, Course
<1>9. /\ main' \in {"asleep", "wifi", "request", "connect", "halted"}
      /\ cur' \in Req \cup {None} /\ home' \in Net \cup {None}
  BY DEF IInv, TypeOK
<1>10. QED
  BY <1>1, <1>2, <1>4, <1>5, <1>6, <1>7, <1>8, <1>9, SlotStep

\* A request goes on: it keeps its pcb, and its text until it is connected.
LEMMA MoveStep ==
  ASSUME IInv, NEW r \in Req, NEW q \in Slot, req[r].at # "free", q.at \notin {"free", "new"},
         req' = [req EXCEPT ![r] = q], Shape(q), q.to = req[r].to,
         heap' = heap - One(req[r].request) + One(q.request),
         Buffers(req[r], q),
         q.request => req[r].request,
         UNCHANGED <<pcbs, closing>>,
         \/ main' = main /\ cur' = cur /\ req[r].at # "new"
         \/ main' = "halted" /\ cur' = cur /\ req[r].at # "new"
         \/ main' = "asleep" /\ cur' = None /\ req[r].at = "new",
         UNCHANGED <<link, net, home, faults>>
  PROVE  IInv'
<1> USE Sizes
<1>1. /\ req' \in [Req -> Slot] /\ req'[r] = q
      /\ \A k \in Req \ {r} : req'[k] = req[k]
  <2>1. req \in [Req -> Slot]
    BY DEF IInv, TypeOK, Slot, States
  <2>2. QED
    BY <2>1
<1>2. Shape(req[r]) /\ req[r].pcb /\ q.pcb
  BY DEF IInv, Shape
<1>3. /\ heap' = heap - One(req[r].at # "free") - One(req[r].request)
                      + One(req'[r].at # "free") + One(req'[r].request)
      /\ heap' <= Heap
  BY <1>1 DEF One, IInv, TypeOK
<1>4. Buffers(req[r], req'[r])
  BY <1>1
<1>5. pcbs' - closing' = pcbs - closing - One(req[r].pcb) + One(req'[r].pcb)
  BY <1>1, <1>2 DEF One, IInv, TypeOK
<1>6. pcbs' \in Nat /\ pcbs' <= Pcbs /\ closing' \in Nat
  BY DEF IInv, TypeOK
<1>7. Course'
  <2>1. \A k \in Req : req'[k].at = "new" => k # r /\ req'[k] = req[k]
    BY <1>1
  <2>2. main' = "connect" => main = "connect" /\ cur' = cur /\ cur # r
    BY DEF IInv, Course
  <2>3. \A k \in Req : req'[k].at = "new" => cur' = k /\ main' \in {"connect", "halted"}
    BY <2>1 DEF IInv, Course
  <2>4. \A k \in Req : req'[k].at # "free" => req'[k].to = home'
    BY <1>1 DEF IInv, Course
  <2>5. QED
    BY <1>1, <2>2, <2>3, <2>4 DEF IInv, Course
<1>8. /\ main' \in {"asleep", "wifi", "request", "connect", "halted"}
      /\ cur' \in Req \cup {None} /\ home' \in Net \cup {None} /\ faults' \in 0 .. Faults
  BY DEF IInv, TypeOK
<1>9. QED
  BY <1>1, <1>3, <1>4, <1>5, <1>6, <1>7, <1>8, SlotStep

-----------------------------------------------------------------------------
(***************************************************************************)
(* The actions                                                             *)
(***************************************************************************)
LEMMA ReqType == IInv => req \in [Req -> Slot] /\ \A r \in Req : req[r] \in Slot
  BY DEF IInv, TypeOK, Slot, States

LEMMA AllocatesStep == ASSUME IInv, Allocates PROVE IInv'
<1> USE Sizes
<1>1. home' = Gateway /\ Gateway \in Net /\ (home # None => Gateway = home)
  BY DEF Allocates, Gateway, IpAddrBytes, IInv, TypeOK, Course
<1>2. home = None => \A r \in Req : req[r].at = "free"
  BY DEF IInv, Course, Shape
<1>3. CASE heap + 2 <= Heap /\ pcbs < Pcbs
  <2>1. PICK r \in Req :
          /\ req[r].at = "free"
          /\ req' = [req EXCEPT ![r] =
               [at |-> "new", to |-> Gateway, pcb |-> TRUE, request |-> TRUE,
                rx_hdrs |-> FALSE, ticks |-> Polls, unread |-> 0, body |-> 0,
                promised |-> None, came |-> None, calls |-> 0, result |-> None]]
          /\ heap' = heap + 2 /\ pcbs' = pcbs + 1
          /\ cur' = r /\ main' = "connect"
    BY <1>3 DEF Allocates
  <2> DEFINE q == [at |-> "new", to |-> Gateway, pcb |-> TRUE, request |-> TRUE,
                   rx_hdrs |-> FALSE, ticks |-> Polls, unread |-> 0, body |-> 0,
                   promised |-> None, came |-> None, calls |-> 0, result |-> None]
  <2>2. req' = [req EXCEPT ![r] = q]
    BY <2>1
  <2>3. q \in Slot
    BY <1>1 DEF Slot, States, Lengths
  <2>4. Shape(q) /\ q.at = "new" /\ q.request /\ q.pcb /\ ~q.rx_hdrs /\ q.to = Gateway
    BY <1>1 DEF Shape, Unsent
  <2> HIDE DEF q
  <2>5. req' \in [Req -> Slot] /\ req'[r] = q /\ \A k \in Req \ {r} : req'[k] = req[k]
    BY <2>2, <2>3, ReqType
  <2>6. ~req[r].request /\ ~req[r].pcb /\ ~req[r].rx_hdrs
    BY <2>1 DEF IInv, Shape, Unsent
  <2>7. /\ heap' = heap - One(req[r].at # "free") - One(req[r].request)
                        + One(req'[r].at # "free") + One(req'[r].request)
        /\ heap' <= Heap
    BY <1>3, <2>1, <2>4, <2>5, <2>6 DEF One, IInv, TypeOK
  <2>8. UNCHANGED <<link, net, closing, pool, cut, faults>>
    BY DEF Allocates
  <2>9. /\ pcbs' - closing' = pcbs - closing - One(req[r].pcb) + One(req'[r].pcb)
        /\ pcbs' \in Nat /\ pcbs' <= Pcbs /\ closing' \in Nat
    <3>1. pcbs \in 0 .. Pcbs /\ closing \in 0 .. Pcbs
      BY DEF IInv, TypeOK
    <3>2. One(req[r].pcb) = 0 /\ One(req'[r].pcb) = 1
      BY <2>4, <2>5, <2>6 DEF One
    <3>3. pcbs' = pcbs + 1 /\ closing' = closing /\ pcbs < Pcbs /\ Pcbs \in Nat
      BY <1>3, <2>1, <2>8
    <3>4. QED
      BY <3>1, <3>2, <3>3
  <2>10. Buffers(req[r], req'[r])
    BY <2>4, <2>5, <2>6, <2>8 DEF Buffers, Chain, IInv, TypeOK
  <2>11. Course'
    <3>1. \A k \in Req \ {r} : req[k].at # "new"
      BY DEF Allocates, IInv, Course
    <3>2. net # None
      BY DEF Allocates, IInv, Course
    <3>3. \A k \in Req : req'[k].at # "free" => req'[k].to = home'
      BY <1>1, <1>2, <2>4, <2>5 DEF IInv, Course
    <3>4. QED
      BY <2>1, <2>4, <2>5, <2>8, <3>1, <3>2, <3>3 DEF Course
  <2>12. /\ main' \in {"asleep", "wifi", "request", "connect", "halted"}
         /\ cur' \in Req \cup {None} /\ home' \in Net \cup {None} /\ faults' \in 0 .. Faults
    BY <1>1, <2>1, <2>8 DEF IInv, TypeOK
  <2>13. QED
    BY <2>4, <2>5, <2>7, <2>8, <2>9, <2>10, <2>11, <2>12, SlotStep
<1>4. CASE ~(heap + 2 <= Heap /\ pcbs < Pcbs)
  <2>1. main' = "asleep" /\ UNCHANGED <<cur, req, heap, pcbs, link, net, closing, pool, cut, faults>>
    BY <1>4 DEF Allocates
  <2>2. TypeOK'
    BY <1>1, <2>1 DEF IInv, TypeOK
  <2>3. Balance'
    BY <2>1 DEF IInv, Balance, Busy, Texts, Owners, Held, Chain
  <2>4. Course'
    BY <1>1, <1>2, <2>1 DEF Allocates, IInv, Course
  <2>5. \A k \in Req : Shape(req[k])'
    BY <2>1 DEF IInv, Shape
  <2>6. QED
    BY <2>2, <2>3, <2>4, <2>5 DEF IInv
<1>5. QED
  BY <1>3, <1>4

LEMMA LoopStep == ASSUME IInv, Wakes \/ Joins \/ Connects \/ NoRoute PROVE IInv'
<1> USE Sizes
<1>1. CASE Wakes
  <2>1. Course'
    BY <1>1 DEF Wakes, IInv, Course
  <2>2. QED
    BY <1>1, <2>1, QuietStep DEF Wakes, IInv, TypeOK
<1>2. CASE Joins
  <2>1. Course'
    BY <1>2 DEF Joins, IInv, Course
  <2>2. QED
    BY <1>2, <2>1, QuietStep DEF Joins, IInv, TypeOK
<1>3. CASE Connects
  <2>1. cur \in Req /\ req[cur].at = "new"
    BY <1>3 DEF Connects, IInv, Course
  <2>2. PICK at \in {"resolving", "connecting"} : req' = [req EXCEPT ![cur].at = at]
    BY <1>3 DEF Connects, Connecting
  <2> DEFINE q == [req[cur] EXCEPT !.at = at]
  <2>3. q \in Slot /\ q.at = at /\ q.to = req[cur].to /\ q.request = req[cur].request
        /\ Chain(q) = Chain(req[cur])
    BY <2>1, ReqType DEF Slot, States, Chain
  <2>4. Shape(q)
    BY <2>1, ReqType DEF IInv, Shape, Unsent, Slot
  <2>5. req' = [req EXCEPT ![cur] = q]
    BY <2>2
  <2> HIDE DEF q
  <2>6. /\ heap' = heap - One(req[cur].request) + One(q.request)
        /\ Buffers(req[cur], q)
    BY <1>3, <2>1, <2>3, ChainType DEF Connects, Buffers, One, IInv, TypeOK
  <2>7. /\ main' = "asleep" /\ cur' = None
        /\ UNCHANGED <<link, net, home, pcbs, closing, faults>>
    BY <1>3 DEF Connects
  <2>8. QED
    BY <2>1, <2>3, <2>4, <2>5, <2>6, <2>7, MoveStep
<1>4. CASE NoRoute
  <2>1. cur \in Req /\ req[cur].at = "new"
    BY <1>4 DEF NoRoute, IInv, Course
  <2>2. QED
    BY <1>4, <2>1, EndStep DEF NoRoute, StartFails, FreeState, ClosePcb, IInv, TypeOK
<1>5. QED
  BY <1>1, <1>2, <1>3, <1>4

\* The callbacks that end a request.
LEMMA EndingStep ==
  ASSUME IInv, NEW r \in Req, req[r].at \notin {"free", "new"},
         NEW result \in Results,
         \/ Close(r, TRUE, result) /\ UNCHANGED faults
         \/ /\ heap' = heap - Blocks(req[r])
            /\ pool' = pool + Chain(req[r]) /\ cut' = cut
            /\ pcbs' = pcbs - 1 /\ closing' = closing
            /\ req' = [req EXCEPT ![r] = Free(result, req[r].calls + 1)]
            /\ Fault,
         UNCHANGED <<main, cur, link, net, home>>
  PROVE  IInv'
<1> USE Sizes
<1>1. req[r].calls + 1 = 1
  BY DEF IInv, Shape
<1>2. req' = [req EXCEPT ![r] = Free(result, 1)]
  BY <1>1 DEF Close, FreeState
<1>3. /\ heap' = heap - Blocks(req[r])
      /\ pool' = pool + Chain(req[r]) /\ cut' = cut
      /\ \/ closing' = closing + 1 /\ pcbs' = pcbs
         \/ closing' = closing /\ pcbs' = pcbs - 1
  BY DEF Close, FreeState, ClosePcb
<1>4. faults' \in 0 .. Faults
  <2>1. faults \in 0 .. Faults
    BY DEF IInv, TypeOK
  <2>2. faults' = faults \/ (faults' = faults - 1 /\ faults > 0)
    BY DEF Fault
  <2>3. QED
    BY <2>1, <2>2
<1>5. QED
  BY <1>2, <1>3, <1>4, EndStep

LEMMA EndCallbacks ==
  ASSUME IInv, NEW r \in Req, NameUnknown(r) \/ WriteFails(r) \/ PeerCloses(r) \/ Breaks(r)
  PROVE  IInv'
<1>1. CASE NameUnknown(r)
  BY <1>1, EndingStep DEF NameUnknown, Results
<1>2. CASE WriteFails(r)
  BY <1>2, EndingStep DEF WriteFails, Results
<1>3. CASE PeerCloses(r)
  <2>1. Outcome(req[r]) \in Results
    BY DEF Outcome, Results
  <2>2. QED
    BY <1>3, <2>1, EndingStep DEF PeerCloses
<1>4. CASE Breaks(r)
  <2>1. req[r].at \notin {"free", "new"} /\ "closed" \in Results
    BY <1>4 DEF Breaks, Active, Results
  <2>2. QED
    BY <1>4, <2>1, EndingStep DEF Breaks
<1>5. QED
  BY <1>1, <1>2, <1>3, <1>4

\* What the callbacks of received data do to a request.
Took(o, at) == [o EXCEPT !.at = at, !.rx_hdrs = TRUE, !.unread = o.unread + 1]

HeadOver(o, unread, body, ticks, length, came) ==
  [o EXCEPT !.at = "data", !.rx_hdrs = FALSE, !.unread = unread, !.body = body,
            !.ticks = ticks, !.promised = length, !.came = came]

More(o) == [o EXCEPT !.unread = o.unread + 1, !.body = o.body + 1,
                     !.came = IF o.came = None THEN None ELSE o.came + 1,
                     !.ticks = Polls]

LEMMA HeadersSlot ==
  ASSUME NEW o \in Slot, Shape(o), o.at \in {"line", "headers"}, o.unread < Window,
         NEW at \in {"line", "headers"}
  PROVE  LET q == Took(o, at)
         IN  /\ q \in Slot /\ Shape(q) /\ q.at = at
             /\ q.to = o.to /\ q.request = o.request /\ Chain(q) = Chain(o) + 1
<1> DEFINE q == Took(o, at)
<1>1. Window \in Nat /\ o.unread + 1 \in 0 .. Window
  BY Sizes DEF Slot
<1>2. q \in Slot
  BY <1>1 DEF Took, Slot, States
<1>3. q.at = at /\ q.rx_hdrs /\ q.unread = o.unread + 1
  BY DEF Took, Slot
<1>4. q.to = o.to /\ q.request = o.request /\ q.pcb = o.pcb
  BY DEF Took, Slot
<1>5. q.body = o.body /\ q.calls = o.calls /\ q.came = o.came
  BY DEF Took, Slot
<1>6. o.unread \in Nat /\ o.body \in Nat /\ Chain(o) = o.unread
  BY Sizes DEF Slot, Shape, Chain
<1> HIDE DEF q
<1>7. Shape(q)
  BY <1>1, <1>3, <1>4, <1>5, <1>6 DEF Shape, Unsent
<1>8. Chain(q) = Chain(o) + 1
  BY <1>3, <1>6 DEF Chain
<1>9. QED
  BY <1>2, <1>3, <1>4, <1>7, <1>8 DEF q

LEMMA HeadSlot ==
  ASSUME NEW o \in Slot, Shape(o), o.at \in {"line", "headers"},
         NEW unread \in {0, 1}, NEW body \in 0 .. Window, NEW ticks \in 0 .. Polls,
         NEW length \in Lengths, NEW came \in {1, None},
         came = 1 => unread = 1 /\ body = 1
  PROVE  LET q == HeadOver(o, unread, body, ticks, length, came)
         IN  /\ q \in Slot /\ Shape(q) /\ q.at = "data"
             /\ q.to = o.to /\ q.request = o.request /\ Chain(q) = 0
<1> DEFINE q == HeadOver(o, unread, body, ticks, length, came)
<1>1. /\ unread \in 0 .. Window /\ body \in 0 .. 2 * Window
      /\ came \in 0 .. Window \cup {None}
  BY Sizes
<1>2. ASSUME NEW p \in Slot
      PROVE  [p EXCEPT !.at = "data", !.rx_hdrs = FALSE, !.unread = unread] \in Slot
  BY <1>1 DEF Slot, States
<1>3. ASSUME NEW p \in Slot
      PROVE  [p EXCEPT !.body = body, !.ticks = ticks, !.promised = length] \in Slot
  BY <1>1 DEF Slot
<1>4. ASSUME NEW p \in Slot PROVE [p EXCEPT !.came = came] \in Slot
  BY <1>1 DEF Slot
<1>5. q = [[[o EXCEPT !.at = "data", !.rx_hdrs = FALSE, !.unread = unread]
               EXCEPT !.body = body, !.ticks = ticks, !.promised = length]
              EXCEPT !.came = came]
  BY DEF HeadOver
<1>6. q \in Slot
  BY <1>2, <1>3, <1>4, <1>5
<1>7. q.at = "data" /\ ~q.rx_hdrs
  BY DEF HeadOver, Slot
<1>8. q.unread = unread /\ q.body = body
  BY DEF HeadOver, Slot
<1>9. q.came = came
  BY DEF HeadOver, Slot
<1>10. q.to = o.to /\ q.request = o.request
  BY DEF HeadOver, Slot
<1>11. q.pcb = o.pcb
  BY DEF HeadOver, Slot
<1>12. q.calls = o.calls
  BY DEF HeadOver, Slot
<1> HIDE DEF q
<1>13. Shape(q)
  BY <1>1, <1>7, <1>8, <1>9, <1>10, <1>11, <1>12, Sizes DEF Shape, Unsent
<1>14. Chain(q) = 0
  BY <1>7 DEF Chain
<1>15. QED
  BY <1>6, <1>7, <1>10, <1>13, <1>14 DEF q

LEMMA DataSlot ==
  ASSUME NEW o \in Slot, Shape(o), o.at = "data", o.unread < Window
  PROVE  LET q == More(o)
         IN  /\ q \in Slot /\ Shape(q) /\ q.at = "data"
             /\ q.to = o.to /\ q.request = o.request /\ Chain(q) = Chain(o)
<1> DEFINE q == More(o)
           came == IF o.came = None THEN None ELSE o.came + 1
<1>1. /\ o.unread \in Nat /\ o.body \in Nat
      /\ o.unread + 1 \in 0 .. Window /\ o.body + 1 \in 0 .. 2 * Window
      /\ Polls \in 0 .. Polls /\ came \in 0 .. Window \cup {None}
  BY Sizes DEF Slot, Shape
<1>2. q \in Slot
  BY <1>1 DEF More, Slot
<1>3. q.unread = o.unread + 1 /\ q.body = o.body + 1
  BY DEF More, Slot
<1>4. q.at = o.at /\ q.to = o.to /\ q.request = o.request
  BY DEF More, Slot
<1>5. q.pcb = o.pcb /\ q.rx_hdrs = o.rx_hdrs /\ q.calls = o.calls
  BY DEF More, Slot
<1>6. q.came = came /\ (came # None => o.came # None /\ came = o.came + 1)
  BY Sizes DEF More, Slot
<1>7. Chain(q) = Chain(o)
  BY <1>5 DEF Chain, Shape
<1> HIDE DEF q, came
<1>8. Shape(q)
  BY <1>1, <1>3, <1>4, <1>5, <1>6, Sizes DEF Shape, Unsent
<1>9. QED
  BY <1>2, <1>4, <1>5, <1>7, <1>8 DEF q

\* The callbacks after which a request goes on.
LEMMA NameFoundStep == ASSUME IInv, NEW r \in Req, NameFound(r) PROVE IInv'
<1> USE Sizes
<1>1. CASE link
  <2> DEFINE q == [req[r] EXCEPT !.at = "connecting"]
  <2>1. req' = [req EXCEPT ![r] = q]
    BY <1>1 DEF NameFound, Connecting
  <2>2. /\ q \in Slot /\ q.at = "connecting" /\ q.to = req[r].to
        /\ q.request = req[r].request /\ Chain(q) = Chain(req[r])
    BY ReqType DEF Slot, States, Chain
  <2>3. Shape(q) /\ req[r].at = "resolving"
    BY ReqType DEF NameFound, IInv, Shape, Unsent, Slot
  <2> HIDE DEF q
  <2>4. UNCHANGED <<main, cur, link, net, home, faults, heap, pcbs, closing, pool, cut>>
    BY <1>1 DEF NameFound
  <2>5. /\ heap' = heap - One(req[r].request) + One(q.request)
        /\ Buffers(req[r], q)
    BY <2>2, <2>4, ChainType DEF Buffers, One, IInv, TypeOK
  <2>6. QED
    BY <2>1, <2>2, <2>3, <2>4, <2>5, MoveStep
<1>2. CASE ~link
  BY <1>2, EndingStep DEF NameFound, Results
<1>3. QED
  BY <1>1, <1>2

LEMMA ConnectedStep == ASSUME IInv, NEW r \in Req, Connected(r) PROVE IInv'
<1> USE Sizes
<1> DEFINE q == [req[r] EXCEPT !.at = "line", !.request = FALSE]
<1>1. req' = [req EXCEPT ![r] = q]
  BY DEF Connected
<1>2. /\ q \in Slot /\ q.at = "line" /\ q.to = req[r].to
      /\ ~q.request /\ Chain(q) = Chain(req[r])
  <2>1. q \in Slot /\ q.at = "line" /\ ~q.request
    <3>1. /\ req[r] \in Slot
          /\ \A p \in Slot : /\ [p EXCEPT !.at = "line", !.request = FALSE] \in Slot
                            /\ [p EXCEPT !.at = "line", !.request = FALSE].at = "line"
                            /\ ~[p EXCEPT !.at = "line", !.request = FALSE].request
      BY ReqType DEF Slot, States
    <3>2. QED
      BY <3>1
  <2>2. q.to = req[r].to /\ q.rx_hdrs = req[r].rx_hdrs
    BY ReqType DEF Slot
  <2>3. q.unread = req[r].unread
    BY ReqType DEF Slot
  <2> HIDE DEF q
  <2>4. QED
    BY <2>1, <2>2, <2>3 DEF Chain
<1>3. Shape(q) /\ req[r].at = "connecting" /\ req[r].request
  BY ReqType DEF Connected, IInv, Shape, Unsent, Slot
<1> HIDE DEF q
<1>4. UNCHANGED <<main, cur, link, net, home, faults, pcbs, closing, pool, cut>> /\ heap' = heap - 1
  BY DEF Connected
<1>5. /\ heap' = heap - One(req[r].request) + One(q.request)
      /\ Buffers(req[r], q)
  BY <1>2, <1>3, <1>4, ChainType DEF Buffers, One, IInv, TypeOK
<1>6. QED
  BY <1>1, <1>2, <1>3, <1>4, <1>5, MoveStep

LEMMA RecvHeadersStep == ASSUME IInv, NEW r \in Req, RecvHeaders(r) PROVE IInv'
<1> USE Sizes
<1>1. PICK piece \in Piece :
        req' = [req EXCEPT ![r] =
          [@ EXCEPT !.at = IF HasLine(req[r].at, piece) THEN "headers" ELSE "line",
                    !.rx_hdrs = TRUE,
                    !.unread = req[r].unread + 1]]
  BY DEF RecvHeaders
<1> DEFINE at == IF HasLine(req[r].at, piece) THEN "headers" ELSE "line"
           q  == Took(req[r], at)
<1>2. req' = [req EXCEPT ![r] = q]
  BY <1>1 DEF Took
<1>3. at \in {"line", "headers"} /\ req[r].unread < Window /\ req[r].at \in {"line", "headers"}
  BY DEF RecvHeaders
<1>4. req[r] \in Slot /\ Shape(req[r])
  BY ReqType DEF IInv
<1> HIDE DEF at
<1>5. /\ q \in Slot /\ Shape(q) /\ q.at = at /\ q.to = req[r].to
      /\ q.request = req[r].request /\ Chain(q) = Chain(req[r]) + 1
  BY <1>3, <1>4, HeadersSlot
<1> HIDE DEF q
<1>6. /\ UNCHANGED <<main, cur, link, net, home, faults, heap, pcbs, closing, cut>>
      /\ pool > 0 /\ pool' = pool - 1
  BY DEF RecvHeaders, Received
<1>7. /\ heap' = heap - One(req[r].request) + One(q.request)
      /\ Buffers(req[r], q)
  BY <1>5, <1>6, ChainType DEF Buffers, One, IInv, TypeOK
<1>8. QED
  BY <1>2, <1>3, <1>5, <1>6, <1>7, MoveStep

LEMMA RecvHeadStep == ASSUME IInv, NEW r \in Req, RecvHead(r) PROVE IInv'
<1> USE Sizes
<1>1. PICK piece \in {"head", "head+data"}, length \in Lengths :
        /\ \E found \in LeftOver(Inside(req[r], piece)) :
             req' = [req EXCEPT ![r] =
               [@ EXCEPT !.at = "data",
                         !.rx_hdrs = FALSE,
                         !.unread = IF piece = "head" THEN 0 ELSE BodyFn(0),
                         !.body = Counted(found),
                         !.ticks = IF found = None THEN req[r].ticks ELSE Polls,
                         !.promised = length,
                         !.came = IF Inside(req[r], piece) THEN 1 ELSE None]]
        /\ pool' = FreeHeader(req[r].unread + 1, Inside(req[r], piece))
        /\ cut' = (cut \/ (~Inside(req[r], piece) /\ pool > 1))
  BY DEF RecvHead
<1> DEFINE inside == Inside(req[r], piece)
<1>2. PICK found \in LeftOver(inside) :
        req' = [req EXCEPT ![r] =
          [@ EXCEPT !.at = "data",
                    !.rx_hdrs = FALSE,
                    !.unread = IF piece = "head" THEN 0 ELSE BodyFn(0),
                    !.body = Counted(found),
                    !.ticks = IF found = None THEN req[r].ticks ELSE Polls,
                    !.promised = length,
                    !.came = IF inside THEN 1 ELSE None]]
  BY <1>1
<1> DEFINE unread == IF piece = "head" THEN 0 ELSE BodyFn(0)
           body   == Counted(found)
           ticks  == IF found = None THEN req[r].ticks ELSE Polls
           came   == IF inside THEN 1 ELSE None
           q      == HeadOver(req[r], unread, body, ticks, length, came)
<1>3. req' = [req EXCEPT ![r] = q]
  BY <1>2 DEF HeadOver
<1>4. req[r] \in Slot /\ Shape(req[r]) /\ req[r].at \in {"line", "headers"}
  BY ReqType DEF RecvHead, IInv
<1>5. /\ unread \in {0, 1} /\ body \in 0 .. Window /\ ticks \in 0 .. Polls
      /\ came \in {1, None} /\ (came = 1 => unread = 1 /\ body = 1)
  BY <1>4 DEF Slot, BodyFn, Counted, LeftOver, Inside
<1>6. /\ req[r].unread \in Nat /\ Chain(req[r]) = req[r].unread
      /\ inside => req[r].unread = 0
  BY <1>4 DEF Slot, Shape, Chain, Inside
<1>7. /\ UNCHANGED <<cur, link, net, home, faults, heap, pcbs, closing>>
      /\ main' \in {main, "halted"} /\ pool > 0
  BY DEF RecvHead, FreedAgain, Received
<1> HIDE DEF unread, body, ticks, came
<1>8. /\ q \in Slot /\ Shape(q) /\ q.at = "data" /\ q.to = req[r].to
      /\ q.request = req[r].request /\ Chain(q) = 0
  BY <1>4, <1>5, HeadSlot
<1> HIDE DEF q
<1>9. Buffers(req[r], q)
  <2>1. pool \in Nat /\ cut \in BOOLEAN
    BY DEF IInv, TypeOK
  <2>2. CASE inside
    <3>1. cut' = cut /\ pool' = pool - 1 + 1
      BY <1>1, <1>6, <2>1, <2>2 DEF FreeHeader, HeadersFn
    <3>2. QED
      BY <1>6, <1>8, <2>1, <2>2, <3>1 DEF Buffers
  <2>3. CASE ~inside
    <3>1. cut' = (cut \/ pool > 1) /\ pool' = req[r].unread + 1
      BY <1>1, <2>1, <2>3 DEF FreeHeader
    <3>2. QED
      BY <1>6, <1>7, <1>8, <2>1, <3>1 DEF Buffers
  <2>4. QED
    BY <2>2, <2>3
<1>10. heap' = heap - One(req[r].request) + One(q.request)
  BY <1>7, <1>8 DEF One, IInv, TypeOK
<1>11. QED
  BY <1>3, <1>4, <1>7, <1>8, <1>9, <1>10, MoveStep

LEMMA RecvDataStep == ASSUME IInv, NEW r \in Req, RecvData(r) PROVE IInv'
<1> USE Sizes
<1> DEFINE q == More(req[r])
<1>1. req' = [req EXCEPT ![r] = q]
  BY DEF RecvData, BodyFn, More
<1>2. req[r].at = "data" /\ req[r].unread < Window
  BY DEF RecvData
<1>3. req[r] \in Slot /\ Shape(req[r])
  BY ReqType DEF IInv
<1>4. /\ q \in Slot /\ Shape(q) /\ q.at = "data" /\ q.to = req[r].to
      /\ q.request = req[r].request /\ Chain(q) = Chain(req[r])
  BY <1>2, <1>3, DataSlot
<1> HIDE DEF q
<1>5. UNCHANGED <<main, cur, link, net, home, heap, pcbs, closing, pool, cut, faults>>
  BY DEF RecvData
<1>6. /\ heap' = heap - One(req[r].request) + One(q.request)
      /\ Buffers(req[r], q)
  BY <1>4, <1>5, ChainType DEF Buffers, One, IInv, TypeOK
<1>7. QED
  BY <1>1, <1>2, <1>4, <1>5, <1>6, MoveStep

LEMMA PollStep == ASSUME IInv, NEW r \in Req, Poll(r) PROVE IInv'
<1> USE Sizes
<1>1. req[r].at \in {"connecting", "line", "headers", "data"}
  BY DEF Poll, Active
<1>2. CASE Countdown(req[r].ticks) = 0
  BY <1>1, <1>2, EndingStep DEF Poll, Results
<1>3. CASE Countdown(req[r].ticks) # 0
  <2> DEFINE ticks == Countdown(req[r].ticks)
             q == [req[r] EXCEPT !.ticks = ticks]
  <2>1. req' = [req EXCEPT ![r] = q]
    BY <1>3 DEF Poll
  <2>2. ticks \in 0 .. Polls
    BY ReqType DEF Slot, Countdown
  <2> HIDE DEF ticks
  <2>3. /\ q \in Slot /\ q.at = req[r].at /\ q.to = req[r].to
        /\ q.request = req[r].request /\ Chain(q) = Chain(req[r])
    BY <2>2, ReqType DEF Slot, States, Chain
  <2>4. Shape(q)
    BY ReqType DEF IInv, Shape, Unsent, Slot
  <2> HIDE DEF q
  <2>5. UNCHANGED <<main, cur, link, net, home, heap, pcbs, closing, pool, cut, faults>>
    BY <1>3 DEF Poll
  <2>6. /\ heap' = heap - One(req[r].request) + One(q.request)
        /\ Buffers(req[r], q)
    BY <2>3, <2>5, ChainType DEF Buffers, One, IInv, TypeOK
  <2>7. QED
    BY <1>1, <2>1, <2>3, <2>4, <2>5, <2>6, MoveStep
<1>4. QED
  BY <1>2, <1>3

LEMMA NetworkStep == ASSUME IInv, Released \/ LinkLost PROVE IInv'
<1> USE Sizes
<1>1. Course'
  BY DEF Released, LinkLost, IInv, Course
<1>2. CASE Released
  <2>1. Owners \in SUBSET Req
    BY DEF Owners
  <2>2. Cardinality(Owners) \in Nat
    BY <2>1, FS_Subset, FS_CardinalityType
  <2>3. pcbs' \in 0 .. Pcbs /\ closing' \in 0 .. Pcbs /\ pcbs' - closing' = pcbs - closing
    BY <1>2, <2>2 DEF Released, IInv, TypeOK, Balance
  <2>4. QED
    BY <1>1, <1>2, <2>3, QuietStep DEF Released, IInv, TypeOK
<1>3. CASE LinkLost
  <2>1. faults' \in 0 .. Faults
    BY <1>3 DEF LinkLost, Fault, IInv, TypeOK
  <2>2. QED
    BY <1>1, <1>3, <2>1, QuietStep DEF LinkLost, IInv, TypeOK
<1>4. QED
  BY <1>2, <1>3

-----------------------------------------------------------------------------
(***************************************************************************)
(* The specification                                                       *)
(***************************************************************************)
LEMMA InvInit == Init => IInv
<1> SUFFICES ASSUME Init PROVE IInv
  OBVIOUS
<1> USE Sizes
<1>1. \A r \in Req : req[r] = Free(None, 0)
  BY DEF Init
<1>2. Free(None, 0) \in Slot /\ Free(None, 0).at = "free" /\ Shape(Free(None, 0))
      /\ ~Free(None, 0).request /\ ~Free(None, 0).pcb /\ ~Free(None, 0).rx_hdrs
  BY DEF Free, Slot, States, Lengths, Shape, Unsent
<1>3. Busy = {} /\ Texts = {} /\ Owners = {} /\ Held = {}
  BY <1>1, <1>2 DEF Busy, Texts, Owners, Held, Chain
<1>4. Balance
  BY <1>3, FS_EmptySet DEF Init, Balance
<1>5. Course
  BY <1>1, <1>2 DEF Init, Course
<1>6. req \in [Req -> Slot]
  <2>1. req = [r \in Req |-> Free(None, 0)]
    BY DEF Init
  <2>2. QED
    BY <1>2, <2>1
<1>8. TypeOK
  <2>1. /\ main = "wifi" /\ cur = None /\ link = FALSE /\ net = None /\ home = None
        /\ heap = 0 /\ pcbs = 0 /\ closing = 0 /\ pool = Pool /\ cut = FALSE
        /\ faults = Faults
    BY DEF Init
  <2>2. heap \in 0 .. Heap /\ {pcbs, closing} \subseteq 0 .. Pcbs /\ faults \in 0 .. Faults
    BY <2>1
  <2>3. pool \in 0 .. Pool
    BY <2>1
  <2>4. cut \in BOOLEAN
    BY <2>1
  <2>5. QED
    BY <1>6, <2>1, <2>2, <2>3, <2>4 DEF TypeOK, Slot, States
<1>9. \A r \in Req : Shape(req[r])
  BY <1>1, <1>2
<1>10. QED
  BY <1>4, <1>5, <1>8, <1>9 DEF IInv

LEMMA InvStep == IInv /\ [Next]_vars => IInv'
<1> SUFFICES ASSUME IInv, [Next]_vars PROVE IInv'
  OBVIOUS
<1>1. CASE Loop
  BY <1>1, AllocatesStep, LoopStep DEF Loop
<1>2. CASE Released \/ LinkLost
  BY <1>2, NetworkStep
<1>3. ASSUME NEW r \in Req, Callback(r) PROVE IInv'
  BY <1>3, EndCallbacks, NameFoundStep, ConnectedStep, RecvHeadersStep, RecvHeadStep,
     RecvDataStep, PollStep DEF Callback
<1>4. CASE UNCHANGED vars
  BY <1>4 DEF vars, IInv, TypeOK, Balance, Busy, Texts, Owners, Held, Chain, Course
<1>5. QED
  BY <1>1, <1>2, <1>3, <1>4 DEF Next

LEMMA Invariant == Spec => []IInv
  BY InvInit, InvStep, PTL DEF Spec

\* However requests overlap and end, the blocks and control blocks in use are what
\* those under way own; buffers are lost only after the pool was cut off.
THEOREM NothingLeaks == Spec => []Accounted
<1>1. IInv => Accounted
  BY DEF IInv, Accounted, Balance, Busy, Texts, Owners
<1>2. QED
  BY <1>1, Invariant, PTL

-----------------------------------------------------------------------------
\* How a request ends: at its start, or with one call of result_fn.
Ends(r) == \/ req[r].at = "new" /\ req'[r].calls = 0 /\ req'[r].result = None
           \/ /\ req[r].at # "new" /\ req'[r].calls = 1
              /\ \/ req'[r].result = Outcome(req[r])
                 \/ req'[r].result \notin {"ok", "content_len"}

LEMMA Freed ==
  ASSUME IInv, NEW r \in Req, NEW result, NEW calls, req' = [req EXCEPT ![r] = Free(result, calls)]
  PROVE  /\ req'[r].calls = calls /\ req'[r].result = result
         /\ \A k \in Req \ {r} : req'[k] = req[k]
  BY ReqType DEF Free

\* A request that ends in a callback.
Tells(k, result) ==
  /\ req' = [req EXCEPT ![k] = Free(result, req[k].calls + 1)]
  /\ result = Outcome(req[k]) \/ result \notin {"ok", "content_len"}

LEMMA Answered ==
  ASSUME IInv, NEW k \in Req, NEW r \in Req, req[r].at # "free", req'[r].at = "free",
         NEW result, req[k].at \notin {"free", "new"}, Tells(k, result)
  PROVE  Ends(r)
<1>1. /\ req'[k].calls = req[k].calls + 1 /\ req'[k].result = result
      /\ \A j \in Req \ {k} : req'[j] = req[j]
  BY Freed DEF Tells
<1>2. r = k
  BY <1>1
<1>3. req[k].calls = 0
  BY DEF IInv, Shape
<1>4. QED
  BY <1>1, <1>2, <1>3 DEF Ends, Tells

LEMMA EveryEnd ==
  ASSUME IInv, [Next]_vars, NEW r \in Req, req[r].at # "free", req'[r].at = "free"
  PROVE  Ends(r)
<1> USE Sizes
<1>1. CASE Wakes \/ Joins \/ Released \/ LinkLost \/ UNCHANGED vars
  BY <1>1 DEF Wakes, Joins, Released, LinkLost, vars
<1>2. CASE Allocates
  BY <1>2, ReqType DEF Allocates
<1>3. CASE Connects
  <2>1. PICK at \in {"resolving", "connecting"} : req' = [req EXCEPT ![cur].at = at]
    BY <1>3 DEF Connects, Connecting
  <2>2. cur \in Req /\ req[cur] \in Slot /\ req \in [Req -> Slot]
    BY <1>3, ReqType DEF Connects, IInv, Course
  <2>3. req'[cur].at # "free" /\ \A k \in Req \ {cur} : req'[k] = req[k]
    BY <2>1, <2>2 DEF Slot
  <2>4. QED
    BY <2>3
<1>4. CASE NoRoute
  <2>1. cur \in Req /\ req[cur].at = "new" /\ req' = [req EXCEPT ![cur] = Free(None, 0)]
    BY <1>4 DEF NoRoute, StartFails, FreeState, IInv, Course
  <2>2. /\ req'[cur].calls = 0 /\ req'[cur].result = None
        /\ \A k \in Req \ {cur} : req'[k] = req[k]
    BY <2>1, Freed
  <2>3. r = cur
    BY <2>2
  <2>4. QED
    BY <2>1, <2>2, <2>3 DEF Ends
<1>5. ASSUME NEW k \in Req, Callback(k) PROVE Ends(r)
  <2>1. CASE NameFound(k)
    <3>1. CASE link
      BY <2>1, <3>1, ReqType DEF NameFound, Connecting, Slot
    <3>2. CASE ~link
      <4>1. Tells(k, "connect") /\ req[k].at = "resolving"
        BY <2>1, <3>2 DEF NameFound, Close, FreeState, Tells
      <4>2. QED
        BY <4>1, Answered
    <3>3. QED
      BY <3>1, <3>2
  <2>2. CASE NameUnknown(k) \/ WriteFails(k)
    <3>1. /\ Tells(k, "hostname") \/ Tells(k, "mem")
          /\ req[k].at \in {"resolving", "connecting"}
      BY <2>2 DEF NameUnknown, WriteFails, Close, FreeState, Tells
    <3>2. QED
      BY <3>1, Answered
  <2>3. CASE PeerCloses(k)
    <3>1. Tells(k, Outcome(req[k])) /\ req[k].at \in {"line", "headers", "data"}
      BY <2>3 DEF PeerCloses, Close, FreeState, Tells
    <3>2. QED
      BY <3>1, Answered
  <2>4. CASE Breaks(k)
    <3>1. Tells(k, "closed") /\ req[k].at \notin {"free", "new"}
      BY <2>4 DEF Breaks, Active, Tells
    <3>2. QED
      BY <3>1, Answered
  <2>5. CASE Poll(k)
    <3>1. req[k].at \in {"connecting", "line", "headers", "data"}
      BY <2>5 DEF Poll, Active
    <3>2. CASE Countdown(req[k].ticks) = 0
      <4>1. Tells(k, "timeout")
        BY <2>5, <3>2 DEF Poll, Close, FreeState, Tells
      <4>2. QED
        BY <3>1, <4>1, Answered
    <3>3. CASE Countdown(req[k].ticks) # 0
      <4>1. req' = [req EXCEPT ![k].ticks = Countdown(req[k].ticks)]
        BY <2>5, <3>3 DEF Poll
      <4>2. QED
        BY <3>1, <4>1, ReqType DEF Slot
    <3>4. QED
      BY <3>2, <3>3
  <2>6. CASE Connected(k)
    BY <2>6, ReqType DEF Connected, Slot
  <2>7. CASE RecvHeaders(k)
    BY <2>7, ReqType DEF RecvHeaders, Slot
  <2>8. CASE RecvHead(k)
    BY <2>8, ReqType DEF RecvHead, Slot
  <2>9. CASE RecvData(k)
    BY <2>9, ReqType DEF RecvData, Slot
  <2>10. QED
    BY <1>5, <2>1, <2>2, <2>3, <2>4, <2>5, <2>6, <2>7, <2>8, <2>9 DEF Callback
<1>6. QED
  BY <1>1, <1>2, <1>3, <1>4, <1>5 DEF Next, Loop

\* result_fn hears of every request once, but of none that could not start.
THEOREM ReportedOnce == Spec => ResultOnce
<1>1. IInv /\ [Next]_vars =>
        [\A r \in Req : req[r].at # "free" /\ req'[r].at = "free" =>
           req'[r].calls = IF req[r].at = "new" THEN 0 ELSE 1]_vars
  BY EveryEnd DEF Ends
<1>2. QED
  BY <1>1, Invariant, PTL DEF Spec, ResultOnce

\* Of a response whose headers end in its first buffer, success is reported for
\* the whole body and only for it.
THEOREM SuccessIsTrue == Spec => OkIsTrue
<1>1. ASSUME IInv, [Next]_vars, NEW r \in Req, req[r].came # None, req'[r].at = "free",
             req'[r].result \in {"ok", "content_len"}
      PROVE  req'[r].result = "ok" <=> req[r].promised \in {None, req[r].came}
  <2>1. req[r].at = "data" /\ req[r].came = req[r].body
    BY <1>1 DEF IInv, Shape
  <2>2. req'[r].result = Outcome(req[r])
    BY <1>1, <2>1, EveryEnd DEF Ends
  <2>3. QED
    BY <2>1, <2>2 DEF Outcome
<1>2. IInv /\ [Next]_vars =>
        [\A r \in Req : /\ req[r].came # None /\ req'[r].at = "free"
                        /\ req'[r].result \in {"ok", "content_len"}
           => (req'[r].result = "ok" <=> req[r].promised \in {None, req[r].came})]_vars
  BY <1>1
<1>3. QED
  BY <1>2, Invariant, PTL DEF Spec, OkIsTrue

\* The device is heard only in the network whose address it computed first.
THEOREM HeardAtHome == Spec => DeafAbroad
<1>1. IInv /\ [Next]_vars => [Heard => net = home]_vars
  BY DEF Heard, Connected, IInv, Course
<1>2. QED
  BY <1>1, Invariant, PTL DEF Spec, DeafAbroad
=============================================================================
