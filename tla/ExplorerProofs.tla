---------------------------- MODULE ExplorerProofs ----------------------------
(***************************************************************************)
(* The page of the command explorer, for any devices, pins and values, any *)
(* suggestions and texts of any length: every answer is filed once, the    *)
(* page shows what it has, the flag of the quotes agrees with them, and a  *)
(* command made of suggestions is one the sub-command understands.         *)
(***************************************************************************)
EXTENDS Explorer, TLAPS, FiniteSetTheorems, SequenceTheorems, WellFoundedInduction

LEMMA Bounds ==
  /\ Keys \in Nat /\ MaxFetches \in Nat /\ MaxTabs \in Nat
  /\ IsFiniteSet(Devices) /\ IsFiniteSet(Pins) /\ IsFiniteSet(Values)
  BY ExplorerAssumption

-----------------------------------------------------------------------------
(***************************************************************************)
(* Induction over the places of a sequence, with sets as predicates and    *)
(* functions as steps.                                                     *)
(***************************************************************************)
\* A set of numbers has a least one.
LEMMA LeastIn == ASSUME NEW S \in SUBSET Nat, S # {} PROVE \E m \in S : \A k \in S : m <= k
<1>1. PICK m \in S : \A k \in S : ~(<<k, m>> \in OpToRel(<, Nat))
  <2>1. IsWellFoundedOn(OpToRel(<, Nat), Nat)
    BY NatLessThanWellFounded
  <2>2. QED
    BY <2>1, WFMin
<1>2. \A k \in S : ~(k < m)
  BY <1>1 DEF OpToRel
<1>3. QED
  BY <1>2

\* A set that has 0 and, with each number below n, the next has all up to n.
LEMMA Reaches ==
  ASSUME NEW n \in Nat, NEW P, 0 \in P, \A i \in 1 .. n : i - 1 \in P => i \in P
  PROVE  0 .. n \subseteq P
<1> SUFFICES ASSUME ~(0 .. n \subseteq P) PROVE FALSE
  OBVIOUS
<1> DEFINE Bad == {i \in 0 .. n : i \notin P}
<1>1. Bad # {} /\ Bad \in SUBSET Nat
  OBVIOUS
<1>2. PICK m \in Bad : \A k \in Bad : m <= k
  BY <1>1, LeastIn
<1>3. m \in 1 .. n /\ m - 1 \in 0 .. n /\ m - 1 \notin Bad
  BY <1>2
<1>4. QED
  BY <1>2, <1>3

\* A function that begins with b and goes on as g says, place by place, exists.
Follows(f, g, b, n) == f[0] = b /\ \A i \in 1 .. n : f[i] = g[<<i, f[i - 1]>>]

LEMMA Iterated ==
  ASSUME NEW S, NEW b \in S, NEW n \in Nat, NEW g \in [(1 .. n) \X S -> S]
  PROVE  \E f \in [0 .. n -> S] : Follows(f, g, b, n)
<1> DEFINE Begun(f, m) == f[0] = b /\ \A i \in 1 .. m : f[i] = g[<<i, f[i - 1]>>]
           P == {m \in 0 .. n : \E f \in [0 .. m -> S] : Begun(f, m)}
<1>1. 0 \in P
  <2> DEFINE h == [i \in 0 .. 0 |-> b]
  <2>1. h \in [0 .. 0 -> S] /\ Begun(h, 0)
    OBVIOUS
  <2> HIDE DEF h, Begun
  <2>2. QED
    BY <2>1
<1>2. ASSUME NEW m \in 1 .. n, m - 1 \in P PROVE m \in P
  <2>1. PICK f \in [0 .. m - 1 -> S] : Begun(f, m - 1)
    BY <1>2
  <2> DEFINE h == [i \in 0 .. m |-> IF i = m THEN g[<<m, f[m - 1]>>] ELSE f[i]]
  <2>2. h \in [0 .. m -> S] /\ h[0] = b
    <3>1. g[<<m, f[m - 1]>>] \in S
      BY <2>1
    <3>2. ASSUME NEW i \in 0 .. m PROVE h[i] \in S
      BY <2>1, <3>1
    <3>3. QED
      BY <2>1, <3>2
  <2>3. ASSUME NEW i \in 1 .. m PROVE h[i] = g[<<i, h[i - 1]>>]
    <3>1. h[i - 1] = f[i - 1]
      OBVIOUS
    <3>2. CASE i = m
      <4>1. m \in 0 .. m /\ h[m] = g[<<m, f[m - 1]>>]
        OBVIOUS
      <4> HIDE DEF h
      <4>2. QED
        BY <3>1, <3>2, <4>1
    <3>3. CASE i # m
      <4>1. i \in 1 .. m - 1 /\ h[i] = f[i]
        BY <3>3
      <4>2. QED
        BY <2>1, <3>1, <4>1
    <3>4. QED
      BY <3>2, <3>3
  <2>4. Begun(h, m)
    BY <2>2, <2>3
  <2> HIDE DEF h, Begun
  <2>5. QED
    BY <2>2, <2>4
<1>3. n \in P
  <2> HIDE DEF P
  <2>1. 0 .. n \subseteq P
    BY <1>1, <1>2, Reaches
  <2>2. QED
    BY <2>1
<1>4. QED
  BY <1>3 DEF Follows

-----------------------------------------------------------------------------
(***************************************************************************)
(* Sequences                                                               *)
(***************************************************************************)
LEMMA AppendIs ==
  ASSUME NEW S, NEW s \in Seq(S), NEW x \in S
  PROVE  /\ Append(s, x) \in Seq(S) /\ Len(Append(s, x)) = Len(s) + 1
         /\ DOMAIN s = 1 .. Len(s) /\ Len(s) \in Nat
         /\ DOMAIN Append(s, x) = 1 .. Len(s) + 1
         /\ \A i \in 1 .. Len(s) : Append(s, x)[i] = s[i]
         /\ Append(s, x)[Len(s) + 1] = x
         /\ Append(s, x) # <<>>
  OBVIOUS

LEMMA FrontIs ==
  ASSUME NEW S, NEW s \in Seq(S), s # <<>>
  PROVE  /\ Front(s) \in Seq(S) /\ Len(Front(s)) = Len(s) - 1
         /\ DOMAIN s = 1 .. Len(s) /\ Len(s) \in Nat \ {0}
         /\ DOMAIN Front(s) = 1 .. Len(s) - 1
         /\ \A i \in 1 .. Len(s) - 1 : Front(s)[i] = s[i]
         /\ Last(s) = s[Len(s)] /\ Last(s) \in S
  BY DEF Front, Last

LEMMA ConcatIs ==
  ASSUME NEW S, NEW a \in Seq(S), NEW z \in Seq(S)
  PROVE  /\ a \o z \in Seq(S) /\ Len(a \o z) = Len(a) + Len(z)
         /\ DOMAIN (a \o z) = 1 .. Len(a) + Len(z)
         /\ \A k \in 1 .. Len(a) : (a \o z)[k] = a[k]
         /\ \A k \in 1 .. Len(z) : (a \o z)[Len(a) + k] = z[k]
         /\ Len(a) \in Nat /\ Len(z) \in Nat
  OBVIOUS

LEMMA RemoveIs ==
  ASSUME NEW S, NEW s \in Seq(S), NEW i \in DOMAIN s
  PROVE  /\ RemoveAt(s, i) \in Seq(S) /\ Len(RemoveAt(s, i)) = Len(s) - 1
         /\ \A k \in DOMAIN RemoveAt(s, i) : \E j \in DOMAIN s : RemoveAt(s, i)[k] = s[j]
<1> DEFINE a == SubSeq(s, 1, i - 1)
           z == SubSeq(s, i + 1, Len(s))
<1>1. /\ Len(s) \in Nat /\ i \in 1 .. Len(s) /\ DOMAIN s = 1 .. Len(s)
      /\ \A k \in 1 .. Len(s) : s[k] \in S
  OBVIOUS
<1>2. /\ a \in Seq(S) /\ Len(a) = i - 1 /\ \A k \in 1 .. i - 1 : a[k] = s[k]
  BY <1>1
<1>3. /\ z \in Seq(S) /\ Len(z) = Len(s) - i /\ \A k \in 1 .. Len(s) - i : z[k] = s[k + i]
  BY <1>1
<1>4. RemoveAt(s, i) = a \o z
  BY DEF RemoveAt
<1> HIDE DEF a, z
<1>5. /\ a \o z \in Seq(S) /\ Len(a \o z) = Len(s) - 1 /\ DOMAIN (a \o z) = 1 .. Len(s) - 1
      /\ \A k \in 1 .. i - 1 : (a \o z)[k] = a[k]
      /\ \A k \in 1 .. Len(s) - i : (a \o z)[i - 1 + k] = z[k]
  <2>1. i \in Nat \ {0} /\ Len(a) + Len(z) = Len(s) - 1
    BY <1>1, <1>2, <1>3
  <2>2. /\ a \o z \in Seq(S) /\ Len(a \o z) = Len(a) + Len(z)
        /\ DOMAIN (a \o z) = 1 .. Len(a) + Len(z)
        /\ \A k \in 1 .. Len(a) : (a \o z)[k] = a[k]
        /\ \A k \in 1 .. Len(z) : (a \o z)[Len(a) + k] = z[k]
    <3>1. a \in Seq(S) /\ z \in Seq(S)
      BY <1>2, <1>3
    <3>2. QED
      BY <3>1, ConcatIs
  <2>3. QED
    BY <1>2, <1>3, <2>1, <2>2
<1>6. ASSUME NEW k \in 1 .. Len(s) - 1 PROVE \E j \in DOMAIN s : (a \o z)[k] = s[j]
  <2>1. CASE k <= i - 1
    <3>1. k \in 1 .. i - 1 /\ k \in DOMAIN s
      BY <1>1, <2>1
    <3>2. (a \o z)[k] = s[k]
      BY <1>2, <1>5, <3>1
    <3>3. QED
      BY <3>1, <3>2
  <2>2. CASE ~(k <= i - 1)
    <3>1. k - (i - 1) \in 1 .. Len(s) - i /\ k + 1 \in 1 .. Len(s)
      BY <1>1, <2>2
    <3>2. z[k - (i - 1)] = s[k + 1]
      BY <1>1, <1>3, <3>1
    <3>3. (a \o z)[k] = z[k - (i - 1)]
      <4>1. (a \o z)[i - 1 + (k - (i - 1))] = z[k - (i - 1)]
        BY <1>5, <3>1
      <4>2. i - 1 + (k - (i - 1)) = k
        BY <1>1
      <4>3. QED
        BY <4>1, <4>2
    <3>4. QED
      BY <1>1, <3>1, <3>2, <3>3
  <2>3. QED
    BY <2>1, <2>2
<1>7. QED
  BY <1>4, <1>5, <1>6

\* What is not a number, which stands for all, occurs once.
Once(s) == \A i, j \in DOMAIN s : s[i] = s[j] /\ s[i] # 0 => i = j

\* Turned round, a sequence has the same elements, each as often.
LEMMA ReverseIs ==
  ASSUME NEW S, NEW s \in Seq(S)
  PROVE  /\ Reverse(s) \in Seq(S) /\ Len(Reverse(s)) = Len(s)
         /\ Range(Reverse(s)) = Range(s)
         /\ Once(s) => Once(Reverse(s))
         /\ Reverse(s) = <<>> <=> s = <<>>
<1>1. Len(s) \in Nat /\ DOMAIN s = 1 .. Len(s) /\ \A i \in 1 .. Len(s) : s[i] \in S
  OBVIOUS
<1>2. /\ Reverse(s) \in Seq(S) /\ Len(Reverse(s)) = Len(s) /\ DOMAIN Reverse(s) = 1 .. Len(s)
      /\ \A i \in 1 .. Len(s) : Reverse(s)[i] = s[(Len(s) - i) + 1]
  BY <1>1 DEF Reverse
<1>3. Range(Reverse(s)) = Range(s)
  <2>1. ASSUME NEW x \in Range(s) PROVE x \in Range(Reverse(s))
    <3>1. PICK i \in 1 .. Len(s) : x = s[i]
      BY <1>1 DEF Range
    <3>2. (Len(s) - i) + 1 \in 1 .. Len(s) /\ (Len(s) - ((Len(s) - i) + 1)) + 1 = i
      BY <1>1
    <3>3. Reverse(s)[(Len(s) - i) + 1] = x
      BY <1>2, <3>1, <3>2
    <3>4. QED
      BY <1>2, <3>2, <3>3 DEF Range
  <2>2. ASSUME NEW x \in Range(Reverse(s)) PROVE x \in Range(s)
    BY <1>1, <1>2 DEF Range
  <2>3. QED
    BY <2>1, <2>2
<1>4. ASSUME Once(s), NEW i \in 1 .. Len(s), NEW j \in 1 .. Len(s),
             Reverse(s)[i] = Reverse(s)[j], Reverse(s)[i] # 0
      PROVE  i = j
  <2>1. (Len(s) - i) + 1 \in 1 .. Len(s) /\ (Len(s) - j) + 1 \in 1 .. Len(s)
    BY <1>1
  <2>2. (Len(s) - i) + 1 = (Len(s) - j) + 1
    BY <1>1, <1>2, <1>4, <2>1 DEF Once
  <2>3. QED
    BY <1>1, <2>2
<1>5. Reverse(s) = <<>> <=> s = <<>>
  BY <1>1, <1>2
<1>6. QED
  BY <1>2, <1>3, <1>4, <1>5 DEF Once

-----------------------------------------------------------------------------
(***************************************************************************)
(* What is suggested                                                       *)
(***************************************************************************)
CommandNames == {"ping", "dev", "get", "all", "ctrl", "select", "set", "--dry-run", "none"}

Suggestable ==
  {Flag(n) : n \in CommandNames} \cup {Arg("--dev-name", d) : d \in Devices}
    \cup {Pin(p) : p \in Pins} \cup {Val(v) : v \in Values}

LEMMA RangeIsFinite == ASSUME NEW f, IsFiniteSet(DOMAIN f) PROVE IsFiniteSet({f[x] : x \in DOMAIN f})
<1> DEFINE g == [x \in DOMAIN f |-> f[x]]
<1>1. g \in Surjection(DOMAIN f, {f[x] : x \in DOMAIN f})
  BY DEF Surjection
<1>2. QED
  BY <1>1, FS_Surjection

LEMMA SuggestableIsFinite == IsFiniteSet(Suggestable)
<1>1. IsFiniteSet({Flag(n) : n \in CommandNames})
  <2> DEFINE f == [n \in CommandNames |-> Flag(n)]
  <2>1. IsFiniteSet(CommandNames)
    <3>1. CommandNames = {"ping"} \cup {"dev"} \cup {"get"} \cup {"all"} \cup {"ctrl"} \cup {"select"}
                            \cup {"set"} \cup {"--dry-run"} \cup {"none"}
      BY DEF CommandNames
    <3>2. QED
      BY <3>1, FS_Singleton, FS_Union
  <2>2. IsFiniteSet({f[x] : x \in DOMAIN f})
    BY <2>1, RangeIsFinite
  <2>3. QED
    BY <2>2
<1>2. IsFiniteSet({Arg("--dev-name", d) : d \in Devices})
  <2> DEFINE f == [d \in Devices |-> Arg("--dev-name", d)]
  <2>1. IsFiniteSet({f[x] : x \in DOMAIN f})
    BY Bounds, RangeIsFinite
  <2>2. QED
    BY <2>1
<1>3. IsFiniteSet({Pin(p) : p \in Pins})
  <2> DEFINE f == [p \in Pins |-> Pin(p)]
  <2>1. IsFiniteSet({f[x] : x \in DOMAIN f})
    BY Bounds, RangeIsFinite
  <2>2. QED
    BY <2>1
<1>4. IsFiniteSet({Val(v) : v \in Values})
  <2> DEFINE f == [v \in Values |-> Val(v)]
  <2>1. IsFiniteSet({f[x] : x \in DOMAIN f})
    BY Bounds, RangeIsFinite
  <2>2. QED
    BY <2>1
<1>5. QED
  BY <1>1, <1>2, <1>3, <1>4, FS_Union DEF Suggestable

\* Nobody suggests a quote, or a space.
LEMMA NoQuoteSuggested == Quote \notin Suggestable /\ Space \notin Suggestable /\ Space # Quote
  BY DEF Quote, Space, Suggestable, CommandNames, Flag, Arg, Pin, Val

\* Help, whatever it is asked for.
LEMMA HelpIs ==
  ASSUME NEW S, NEW args \in Seq(S)
  PROVE  Help(args) \subseteq Suggestable /\ IsFiniteSet(Help(args))
<1>1. Category(args) \subseteq Suggestable
  <2>1. ASSUME NEW path \in Executors, IsStrictPrefix(args, path)
        PROVE  path[Len(args) + 1] \in Suggestable
    <3>1. Len(args) \in Nat /\ Len(args) < Len(path)
      <4>1. path \in Seq({Flag(n) : n \in CommandNames}) /\ Len(path) \in Nat
        <5> DEFINE F == {Flag(n) : n \in CommandNames}
        <5>1. /\ Flag("ping") \in F /\ Flag("dev") \in F /\ Flag("get") \in F
              /\ Flag("all") \in F /\ Flag("ctrl") \in F /\ Flag("select") \in F
          BY DEF CommandNames
        <5> HIDE DEF F
        <5>2. /\ <<Flag("ping")>> \in Seq(F) /\ <<Flag("dev"), Flag("get"), Flag("all")>> \in Seq(F)
              /\ <<Flag("dev"), Flag("ctrl"), Flag("select")>> \in Seq(F)
          BY <5>1
        <5>3. path \in Seq(F)
          BY <5>2 DEF Executors
        <5>4. QED
          BY <5>3 DEF F
      <4> Len(args) \in Nat
        OBVIOUS
      <4>2. /\ Len(args) <= Len(path) /\ args # path
            /\ SubSeq(args, 1, Len(args)) = SubSeq(path, 1, Len(args))
        BY <2>1 DEF IsStrictPrefix, IsPrefix
      <4>3. ASSUME Len(args) = Len(path) PROVE FALSE
        <5>1. SubSeq(args, 1, Len(args)) = args
          OBVIOUS
        <5>2. SubSeq(path, 1, Len(path)) = path
          BY <4>1
        <5>3. QED
          BY <4>2, <4>3, <5>1, <5>2
      <4>4. QED
        BY <4>1, <4>2, <4>3
    <3>2. \A k \in 1 .. Len(path) : path[k] \in {Flag(n) : n \in CommandNames}
      BY DEF Executors, CommandNames
    <3>3. Len(args) + 1 \in 1 .. Len(path)
      BY <3>1 DEF Executors
    <3>4. QED
      BY <3>2, <3>3 DEF Suggestable
  <2>2. None \subseteq Suggestable
    BY DEF None, Suggestable, CommandNames
  <2>3. QED
    BY <2>1, <2>2 DEF Category
<1>2. \A given : Guide(given) \subseteq Suggestable
  <2> SUFFICES ASSUME NEW given, NEW a \in Guide(given) PROVE a \in Suggestable
    OBVIOUS
  <2>1. \/ a \in {Arg("--dev-name", d) : d \in Devices}
        \/ a \in {Pin(p) : p \in Pins}
        \/ a \in {Val(v) : v \in Values}
        \/ a \in {Flag("set"), Flag("get"), Flag("--dry-run"), Flag("none")}
    <3> DEFINE left == {Pin(p) : p \in {q \in Pins : Pin(q) \notin Range(given)}}
               name == ArgNeedHelp(given).name
    <3>1. Guide(given) \in {{Arg("--dev-name", d) : d \in Devices}, {Flag("set"), Flag("get")},
                            left, {Val(v) : v \in Values}, {Flag("--dry-run")},
                            left \cup {Flag("--dry-run")}, None}
      <4>1. Guide(given) =
              CASE name = " " -> {Arg("--dev-name", d) : d \in Devices}
                [] name = "--dev-name" -> {Flag("set"), Flag("get")}
                [] name = "set"        -> left
                [] name = "--pin"      ->
                     IF Has(given, "set") THEN {Val(v) : v \in Values} ELSE {Flag("--dry-run")}
                [] name = "--val"      ->
                     IF Has(given, "set") THEN left \cup {Flag("--dry-run")} ELSE None
                [] name = "get"        -> left \cup {Flag("--dry-run")}
                [] OTHER               -> None
        BY DEF Guide
      <4> HIDE DEF left, name
      <4>2. QED
        BY <4>1
    <3>2. QED
      BY <3>1 DEF None
  <2>2. QED
    BY <2>1 DEF Suggestable, CommandNames
<1>3. Help(args) \subseteq Suggestable
  BY <1>1, <1>2 DEF Help
<1>4. QED
  BY <1>3, SuggestableIsFinite, FS_Subset

\* What is left of a list against a partial argument is part of the list.
LEMMA SuggestionsIn == ASSUME NEW list, NEW w PROVE Suggestions(list, w) \subseteq list
<1> DEFINE match(rel) == {a \in list : w = <<a>> \/ <<Word(w).name, a.name>> \in rel}
           first == {a \in list : w = <<a>> \/ <<Word(w).name, a.name>> \in SameFirst}
           passes == <<match(Within) \cap first, match(AnyCase) \cap first, match(AnyCase), list>>
           hits == {i \in DOMAIN passes : passes[i] # {}}
           hit == CHOOSE i \in hits : \A j \in hits : i <= j
<1>1. DOMAIN passes = 1 .. 4 /\ \A i \in 1 .. 4 : passes[i] \subseteq list
  OBVIOUS
<1>2. Suggestions(list, w) = IF w = <<>> \/ hits = {} THEN list ELSE passes[hit]
  BY DEF Suggestions
<1>3. CASE hits # {}
  <2>1. hits \in SUBSET Nat
    BY <1>1
  <2> HIDE DEF hits
  <2>2. \E i \in hits : \A j \in hits : i <= j
    BY <1>3, <2>1, LeastIn
  <2>3. hit \in hits
    BY <2>2
  <2>4. hit \in DOMAIN passes
    BY <2>3 DEF hits
  <2> HIDE DEF hit, passes
  <2>5. QED
    BY <1>1, <1>2, <2>4
<1>4. CASE hits = {}
  BY <1>2, <1>4
<1>5. QED
  BY <1>3, <1>4

-----------------------------------------------------------------------------
(***************************************************************************)
(* Texts                                                                   *)
(***************************************************************************)
Letter == {Space, Quote, NewLine, CmdHeight} \cup {Flag(p) : p \in Partial} \cup Suggestable
Texts == Seq(Letter)
Plain == Letter \ {Quote}
Words == Seq(Seq(Plain))
Accs == [args : Words, word : Seq(Plain), quoted : BOOLEAN]

LEMMA LettersArePlain == Suggestable \subseteq Plain /\ Space \in Plain /\ Suggestable \subseteq Letter
  BY NoQuoteSuggested DEF Plain, Letter

LEMMA PushedRecord ==
  ASSUME NEW a, NEW w, NEW q
  PROVE  LET acc == [args |-> a, word |-> w, quoted |-> q]
         IN  Pushed(acc) = IF w = <<>> THEN acc
                           ELSE [args |-> Append(a, w), word |-> <<>>, quoted |-> q]
  BY DEF Pushed

LEMMA PushedIs == ASSUME NEW acc \in Accs PROVE Pushed(acc) \in Accs
<1>1. PICK a \in Words, w \in Seq(Plain), q \in BOOLEAN : acc = [args |-> a, word |-> w, quoted |-> q]
  BY DEF Accs
<1>2. Append(a, w) \in Words
  <2>1. a \in Seq(Seq(Plain))
    BY DEF Words
  <2>2. QED
    BY <2>1, AppendIs DEF Words
<1>3. Pushed(acc) = IF w = <<>> THEN acc ELSE [args |-> Append(a, w), word |-> <<>>, quoted |-> q]
  BY <1>1, PushedRecord
<1>4. [args |-> Append(a, w), word |-> <<>>, quoted |-> q] \in Accs
  BY <1>2 DEF Accs
<1>5. QED
  BY <1>3, <1>4

\* A character read leaves words without quotes.
LEMMA ParsedIs == ASSUME NEW acc \in Accs, NEW char \in Letter PROVE Parsed(acc, char) \in Accs
<1>1. CASE char = Space /\ ~acc.quoted
  <2>1. char # Quote
    BY <1>1, NoQuoteSuggested
  <2>2. Parsed(acc, char) = Pushed(acc)
    BY <1>1, <2>1, Zenon DEF Parsed
  <2>3. QED
    BY <2>2, PushedIs
<1>2. CASE char = Quote
  <2>1. char # Space
    BY <1>2, NoQuoteSuggested
  <2> DEFINE left == IF acc.quoted THEN Pushed(acc) ELSE acc
  <2>2. Parsed(acc, char) = [left EXCEPT !.quoted = ~@]
    BY <1>2, <2>1, Zenon DEF Parsed
  <2>3. left \in Accs
    BY PushedIs
  <2> HIDE DEF left
  <2>4. PICK a \in Words, w \in Seq(Plain), q \in BOOLEAN : left = [args |-> a, word |-> w, quoted |-> q]
    BY <2>3 DEF Accs
  <2>5. Parsed(acc, char) = [args |-> a, word |-> w, quoted |-> ~q]
    BY <2>2, <2>4
  <2>6. QED
    BY <2>5 DEF Accs
<1>3. CASE ~(char = Space /\ ~acc.quoted) /\ char # Quote
  <2>1. Parsed(acc, char) = [acc EXCEPT !.word = Append(@, char)]
    BY <1>3, Zenon DEF Parsed
  <2>2. char \in Plain
    BY <1>3 DEF Plain
  <2>3. PICK a \in Words, w \in Seq(Plain), q \in BOOLEAN : acc = [args |-> a, word |-> w, quoted |-> q]
    BY DEF Accs
  <2>4. Parsed(acc, char) = [args |-> a, word |-> Append(w, char), quoted |-> q]
    BY <2>1, <2>3
  <2>5. QED
    BY <2>2, <2>4 DEF Accs
<1>4. QED
  BY <1>1, <1>2, <1>3

\* The arguments of a text have no quotes, and there is always one.
LEMMA ParseIs ==
  ASSUME NEW command \in Texts
  PROVE  ParseCommand(command) \in Words /\ ParseCommand(command) # <<>>
<1> DEFINE n == Len(command)
           b == [args |-> <<>>, word |-> <<>>, quoted |-> FALSE]
           step(f) == [k \in 0 .. n |-> IF k = 0 THEN b ELSE Parsed(f[k - 1], command[k])]
           g == [x \in (1 .. n) \X Accs |-> Parsed(x[2], command[x[1]])]
           read == CHOOSE f : f = step(f)
<1> n \in Nat
  BY DEF Texts
<1>1. \A k \in 1 .. n : command[k] \in Letter
  BY DEF Texts
<1>2. b \in Accs
  BY DEF Accs, Words
<1>3. g \in [(1 .. n) \X Accs -> Accs]
  BY <1>1, ParsedIs
<1>4. PICK f0 \in [0 .. n -> Accs] : Follows(f0, g, b, n)
  <2> HIDE DEF n, b, g, step, read
  <2>1. QED
    BY <1>2, <1>3, Iterated
<1>5. f0 = step(f0)
  <2>1. ASSUME NEW k \in 0 .. n PROVE f0[k] = IF k = 0 THEN b ELSE Parsed(f0[k - 1], command[k])
    <3>1. CASE k # 0
      <4>1. k \in 1 .. n /\ f0[k - 1] \in Accs
        BY <1>1, <1>4, <3>1
      <4>2. <<k, f0[k - 1]>> \in (1 .. n) \X Accs
        BY <4>1
      <4>3. g[<<k, f0[k - 1]>>] = Parsed(f0[k - 1], command[k])
        <5> HIDE DEF n
        <5>1. QED
          BY <4>2
      <4>4. QED
        BY <1>4, <3>1, <4>1, <4>3 DEF Follows
    <3>2. QED
      BY <1>4, <3>1 DEF Follows
  <2> HIDE DEF n, b
  <2>2. QED
    BY <1>4, <2>1
<1>6. read = step(read)
  <2> HIDE DEF step
  <2>1. QED
    BY <1>5
<1>7. read[n] \in Accs
  <2> DEFINE P == {k \in 0 .. n : read[k] \in Accs}
  <2> HIDE DEF read
  <2>1. 0 \in P
    BY <1>1, <1>2, <1>6
  <2>2. ASSUME NEW k \in 1 .. n, k - 1 \in P PROVE k \in P
    <3>1. read[k] = Parsed(read[k - 1], command[k])
      <4> HIDE DEF b
      <4>1. k \in 0 .. n /\ k # 0
        OBVIOUS
      <4> HIDE DEF n
      <4>2. QED
        BY <1>6, <4>1
    <3>2. QED
      BY <1>1, <2>2, <3>1, ParsedIs
  <2> HIDE DEF P, n
  <2>3. 0 .. n \subseteq P
    BY <1>1, <2>1, <2>2, Reaches
  <2>4. QED
    BY <1>1, <2>3 DEF P
<1>8. ParseCommand(command) = Append(read[n].args, read[n].word)
  BY DEF ParseCommand
<1> HIDE DEF read, n
<1>9. read[n].args \in Seq(Seq(Plain)) /\ read[n].word \in Seq(Plain)
  BY <1>7 DEF Accs, Words
<1>10. QED
  BY <1>8, <1>9, AppendIs DEF Words

\* Arguments without quotes are joined to a text without quotes.
LEMMA JoinedIs == ASSUME NEW args \in Words PROVE Joined(args) \in Seq(Plain)
<1> DEFINE n == Len(args)
           S == Seq(Plain)
           b == <<>>
           join(t, word) == IF t = <<>> THEN word ELSE t \o <<Space>> \o word
           step(f) == [k \in 0 .. n |-> IF k = 0 THEN b ELSE join(f[k - 1], args[k])]
           g == [x \in (1 .. n) \X S |-> join(x[2], args[x[1]])]
           joined == CHOOSE f : f = step(f)
<1> n \in Nat
  BY DEF Words
<1>1. \A k \in 1 .. n : args[k] \in S
  BY DEF Words
<1>2. b \in S
  OBVIOUS
<1>3. ASSUME NEW t \in S, NEW word \in S PROVE join(t, word) \in S
  <2>1. <<Space>> \in S
    BY LettersArePlain
  <2>2. QED
    BY <2>1
<1> HIDE DEF join
<1>4. g \in [(1 .. n) \X S -> S]
  <2> HIDE DEF S
  <2>1. QED
    BY <1>1, <1>3
<1>5. PICK f0 \in [0 .. n -> S] : Follows(f0, g, b, n)
  <2> HIDE DEF n, S, b, g, step, joined
  <2>1. QED
    BY <1>2, <1>4, Iterated
<1>6. f0 = step(f0)
  <2>1. ASSUME NEW k \in 0 .. n PROVE f0[k] = IF k = 0 THEN b ELSE join(f0[k - 1], args[k])
    <3>1. CASE k # 0
      <4>1. k \in 1 .. n /\ f0[k - 1] \in S
        BY <1>1, <1>5, <3>1
      <4>2. <<k, f0[k - 1]>> \in (1 .. n) \X S
        BY <4>1
      <4>3. g[<<k, f0[k - 1]>>] = join(f0[k - 1], args[k])
        <5> HIDE DEF n, S
        <5>1. QED
          BY <4>2
      <4>4. QED
        BY <1>5, <3>1, <4>1, <4>3 DEF Follows
    <3>2. QED
      BY <1>5, <3>1 DEF Follows
  <2> HIDE DEF n, S
  <2>2. QED
    BY <1>5, <2>1
<1>7. joined = step(joined)
  <2> HIDE DEF step
  <2>1. QED
    BY <1>6
<1>8. joined[n] \in S
  <2> DEFINE P == {k \in 0 .. n : joined[k] \in S}
  <2> HIDE DEF joined
  <2>1. 0 \in P
    BY <1>1, <1>2, <1>7
  <2>2. ASSUME NEW k \in 1 .. n, k - 1 \in P PROVE k \in P
    <3>1. joined[k] = join(joined[k - 1], args[k])
      <4> HIDE DEF b
      <4>1. k \in 0 .. n /\ k # 0
        OBVIOUS
      <4> HIDE DEF n
      <4>2. QED
        BY <1>7, <4>1
    <3>2. QED
      BY <1>1, <1>3, <2>2, <3>1
  <2> HIDE DEF P, n
  <2>3. 0 .. n \subseteq P
    BY <1>1, <2>1, <2>2, Reaches
  <2>4. QED
    BY <1>1, <2>3 DEF P
<1>9. Joined(args) = joined[n]
  BY DEF Joined, join
<1>10. QED
  BY <1>8, <1>9

\* The only element of a set, as a sequence.
LEMMA SingletonSeq ==
  ASSUME NEW T, NEW list \in SUBSET T, IsFiniteSet(list), Cardinality(list) = 1
  PROVE  SetToSeq(list) \in Seq(T)
<1> DEFINE c == SetToSeq(list)
<1>1. PICK x : list = {x}
  BY FS_Singleton
<1> DEFINE h == [i \in 1 .. 1 |-> x]
<1>2. h \in [1 .. Cardinality(list) -> list] /\ IsInjective(h)
  BY <1>1 DEF IsInjective
<1>3. c \in [1 .. Cardinality(list) -> list]
  <2> HIDE DEF h
  <2>1. QED
    BY <1>2 DEF SetToSeq
<1>4. c \in Seq(list)
  <2> HIDE DEF c
  <2>1. Cardinality(list) = 1
    OBVIOUS
  <2>2. c \in [1 .. 1 -> list]
    BY <1>3, <2>1
  <2>3. ASSUME NEW f \in [1 .. 1 -> list] PROVE f \in Seq(list)
    BY SeqDef
  <2>4. QED
    BY <2>2, <2>3
<1>5. QED
  <2> HIDE DEF c
  <2>1. \A s : s \in Seq(list) => s \in Seq(T)
    OBVIOUS
  <2>2. QED
    BY <1>4, <2>1 DEF c

\* A completion is the command itself or a text without quotes.
LEMMA CompletedIs ==
  ASSUME NEW command \in Texts, NEW list \in SUBSET Suggestable
  PROVE  /\ Completed(command, list) \in Texts
         /\ Cardinality(list) = 1 => Completed(command, list) \in Seq(Plain)
         /\ Cardinality(list) # 1 => Completed(command, list) = command
<1>1. IsFiniteSet(list)
  BY SuggestableIsFinite, FS_Subset
<1>2. ASSUME Cardinality(list) = 1 PROVE Completed(command, list) \in Seq(Plain)
  <2>1. SetToSeq(list) \in Seq(Plain)
    <3>1. list \in SUBSET Plain
      BY LettersArePlain
    <3>2. QED
      BY <1>1, <1>2, <3>1, SingletonSeq
  <2>2. Front(ParseCommand(command)) \in Seq(Seq(Plain))
    <3>1. ParseCommand(command) \in Seq(Seq(Plain)) /\ ParseCommand(command) # <<>>
      BY ParseIs DEF Words
    <3>2. QED
      BY <3>1, FrontIs
  <2>3. Append(Front(ParseCommand(command)), SetToSeq(list)) \in Words
    BY <2>1, <2>2, AppendIs DEF Words
  <2>4. QED
    BY <1>2, <2>3, JoinedIs DEF Completed
<1>3. ASSUME NEW t \in Seq(Plain) PROVE t \in Texts
  BY DEF Plain, Texts
<1>4. QED
  BY <1>2, <1>3 DEF Completed

\* The arguments before the last are a sequence.
LEMMA ArgsAre ==
  ASSUME NEW command \in Texts
  PROVE  \E S : Args(command) \in Seq(S) /\ Front(Args(command)) \in Seq(S)
<1> DEFINE words == ParseCommand(command)
           S == {Word(w) : w \in Seq(Plain)}
<1>1. words \in Seq(Seq(Plain)) /\ words # <<>>
  BY ParseIs DEF Words
<1>2. Args(command) = [i \in DOMAIN words |-> Word(words[i])]
  BY DEF Args
<1> HIDE DEF words
<1>3. Args(command) \in Seq(S) /\ Args(command) # <<>>
  <2>1. DOMAIN words = 1 .. Len(words) /\ Len(words) \in Nat \ {0} /\ \A i \in 1 .. Len(words) : words[i] \in Seq(Plain)
    BY <1>1
  <2>2. \A i \in 1 .. Len(words) : Word(words[i]) \in S
    BY <2>1
  <2> HIDE DEF S
  <2>3. QED
    BY <1>2, <2>1, <2>2
<1> HIDE DEF S
<1>4. QED
  BY <1>3, FrontIs

-----------------------------------------------------------------------------
(***************************************************************************)
(* Types                                                                   *)
(***************************************************************************)
Fetch == [cmd : Texts, count : Nat, state : {"sent", "answered", "lost"}]

\* What the page holds, whatever was typed. The count captured by a fetch is
\* at most the number of fetches before it.
PageType ==
  /\ text \in Texts /\ cmd \in Texts
  /\ helps \in Seq(Texts) /\ Len(helps) <= MaxTabs
  /\ shown \subseteq Suggestable
  /\ fetches \in Seq(Fetch) /\ Len(fetches) \in 1 .. MaxFetches
  /\ \A i \in DOMAIN fetches : fetches[i].count < i
  /\ count \in 0 .. Len(fetches)
  /\ keys \in 0 .. Keys
  /\ quoted \in BOOLEAN /\ broken \in BOOLEAN /\ up \in BOOLEAN
  /\ overwrote \in BOOLEAN /\ together \in BOOLEAN

LEMMA PageTypeInit == Init => PageType
<1> SUFFICES ASSUME Init PROVE PageType
  OBVIOUS
<1> DEFINE f == [cmd |-> <<>>, count |-> 0, state |-> "sent"]
<1>1. f \in Fetch
  BY DEF Fetch, Texts
<1>2. fetches = <<f>> /\ f.count = 0
  BY DEF Init
<1> HIDE DEF f
<1>3. /\ fetches \in Seq(Fetch) /\ Len(fetches) = 1
      /\ \A i \in DOMAIN fetches : i = 1 /\ fetches[i] = f
  BY <1>1, <1>2
<1>4. MaxFetches \in Nat /\ MaxFetches > 0 /\ Keys \in Nat /\ MaxTabs \in Nat
  BY ExplorerAssumption
<1>5. helps = <<>> /\ text = <<>> /\ cmd = <<>> /\ shown = {} /\ count = 0 /\ keys = 0
  BY DEF Init
<1>6. helps \in Seq(Texts) /\ text \in Texts /\ cmd \in Texts /\ Len(helps) = 0
  BY <1>5 DEF Texts
<1>7. quoted = FALSE /\ broken = FALSE /\ up = TRUE /\ overwrote = FALSE /\ together = FALSE
  BY DEF Init
<1>8. Len(helps) <= MaxTabs /\ Len(fetches) \in 1 .. MaxFetches /\ count \in 0 .. Len(fetches)
      /\ keys \in 0 .. Keys /\ \A i \in DOMAIN fetches : fetches[i].count < i
  BY <1>2, <1>3, <1>4, <1>5, <1>6
<1>9. QED
  BY <1>3, <1>5, <1>6, <1>7, <1>8 DEF PageType

\* A fetch of a command is the last, and has the latest count.
LEMMA FetchedIs ==
  ASSUME PageType, NEW command \in Texts
  PROVE  LET f == [cmd |-> command, count |-> count, state |-> IF up THEN "sent" ELSE "lost"]
         IN  /\ f \in Fetch
             /\ Fetched(command) = Append(fetches, f)
             /\ Fetched(command) \in Seq(Fetch)
             /\ Len(Fetched(command)) = Len(fetches) + 1
             /\ DOMAIN Fetched(command) = 1 .. Len(fetches) + 1
             /\ DOMAIN fetches = 1 .. Len(fetches)
             /\ \A i \in DOMAIN fetches : Fetched(command)[i] = fetches[i]
             /\ Fetched(command)[Len(fetches) + 1] = f
<1> DEFINE f == [cmd |-> command, count |-> count, state |-> IF up THEN "sent" ELSE "lost"]
<1>1. f \in Fetch
  BY DEF PageType, Fetch
<1>2. Fetched(command) = Append(fetches, f)
  BY DEF Fetched
<1> HIDE DEF f
<1>3. fetches \in Seq(Fetch)
  BY DEF PageType
<1>4. /\ Append(fetches, f) \in Seq(Fetch) /\ Len(Append(fetches, f)) = Len(fetches) + 1
      /\ DOMAIN fetches = 1 .. Len(fetches)
      /\ DOMAIN Append(fetches, f) = 1 .. Len(fetches) + 1
      /\ \A i \in 1 .. Len(fetches) : Append(fetches, f)[i] = fetches[i]
      /\ Append(fetches, f)[Len(fetches) + 1] = f
  BY <1>1, <1>3, AppendIs
<1>5. QED
  BY <1>1, <1>2, <1>4 DEF f

\* What an answer makes of the fetches.
LEMMA AnsweredIs ==
  ASSUME PageType, NEW i \in DOMAIN fetches
  PROVE  LET fs == [fetches EXCEPT ![i].state = "answered"]
         IN  /\ fs \in Seq(Fetch) /\ Len(fs) = Len(fetches) /\ DOMAIN fs = DOMAIN fetches
             /\ DOMAIN fetches = 1 .. Len(fetches)
             /\ \A k \in DOMAIN fetches :
                  /\ fs[k].cmd = fetches[k].cmd /\ fs[k].count = fetches[k].count
                  /\ fs[k].state = IF k = i THEN "answered" ELSE fetches[k].state
<1> DEFINE fs == [fetches EXCEPT ![i].state = "answered"]
<1>1. fetches \in Seq(Fetch) /\ DOMAIN fetches = 1 .. Len(fetches) /\ fetches[i] \in Fetch
  BY DEF PageType
<1>2. PICK c \in Texts, n \in Nat, s \in {"sent", "answered", "lost"} :
        fetches[i] = [cmd |-> c, count |-> n, state |-> s]
  BY <1>1 DEF Fetch
<1> DEFINE f == [cmd |-> c, count |-> n, state |-> "answered"]
<1>3. [fetches[i] EXCEPT !.state = "answered"] = f
  BY <1>2
<1>4. fs = [fetches EXCEPT ![i] = f]
  BY <1>3
<1>5. f \in Fetch /\ f.cmd = fetches[i].cmd /\ f.count = fetches[i].count /\ f.state = "answered"
  BY <1>2 DEF Fetch
<1> HIDE DEF f, fs
<1>6. /\ fs \in Seq(Fetch) /\ Len(fs) = Len(fetches) /\ DOMAIN fs = DOMAIN fetches
      /\ \A k \in DOMAIN fetches : fs[k] = IF k = i THEN f ELSE fetches[k]
  BY <1>1, <1>4, <1>5
<1>7. QED
  BY <1>1, <1>5, <1>6 DEF fs

\* What the end of the server makes of them.
Lost(f) == IF f.state = "sent" THEN [f EXCEPT !.state = "lost"] ELSE f

LEMMA LostIs ==
  ASSUME NEW f \in Fetch
  PROVE  /\ Lost(f) \in Fetch /\ Lost(f).cmd = f.cmd /\ Lost(f).count = f.count
         /\ Lost(f).state # "sent"
         /\ Lost(f).state = "answered" <=> f.state = "answered"
<1>1. PICK c \in Texts, n \in Nat, s \in {"sent", "answered", "lost"} :
        f = [cmd |-> c, count |-> n, state |-> s]
  BY DEF Fetch
<1>2. Lost(f) = [cmd |-> c, count |-> n, state |-> IF s = "sent" THEN "lost" ELSE s]
  BY <1>1 DEF Lost
<1>3. QED
  BY <1>1, <1>2 DEF Fetch

LEMMA AllLostIs ==
  ASSUME PageType, NEW fs,
         fs = [k \in DOMAIN fetches |->
                 IF fetches[k].state = "sent" THEN [fetches[k] EXCEPT !.state = "lost"]
                 ELSE fetches[k]]
  PROVE  /\ fs \in Seq(Fetch) /\ Len(fs) = Len(fetches) /\ DOMAIN fs = DOMAIN fetches
         /\ \A k \in DOMAIN fetches : fs[k] = Lost(fetches[k]) /\ fetches[k] \in Fetch
<1>1. /\ fetches \in Seq(Fetch) /\ DOMAIN fetches = 1 .. Len(fetches) /\ Len(fetches) \in Nat
      /\ \A k \in 1 .. Len(fetches) : fetches[k] \in Fetch
  BY DEF PageType
<1>2. fs = [k \in 1 .. Len(fetches) |-> Lost(fetches[k])]
  BY <1>1 DEF Lost
<1>3. \A k \in 1 .. Len(fetches) : Lost(fetches[k]) \in Fetch
  BY <1>1, LostIs
<1>4. QED
  BY <1>1, <1>2, <1>3

\* A help that arrives: the text is replaced by the command that the help
\* was asked for or by its completion, which has no quotes.
LEMMA HelpArrives ==
  ASSUME PageType, NEW i \in DOMAIN helps, HelpAnswers(i)
  PROVE  /\ helps[i] \in Texts /\ helps' \in Seq(Texts) /\ Len(helps') = Len(helps) - 1
         /\ \A k \in DOMAIN helps' : \E j \in DOMAIN helps : helps'[k] = helps[j]
         /\ shown' \subseteq Suggestable
         /\ \/ UNCHANGED <<page, text, overwrote>>
            \/ /\ text' \in Texts /\ (text' = helps[i] \/ text' \in Seq(Plain))
               /\ overwrote' = (overwrote \/ text # helps[i])
               /\ UNCHANGED count
               /\ \E c \in Texts : c \in {cmd, text'} /\ Render(c, cache)
         /\ UNCHANGED <<quoted, keys, fetches, up, together>>
         /\ ~broken
<1> DEFINE command == helps[i]
           list == Help(Front(Args(command)))
           hints == Suggestions(list, Last(ParseCommand(command)))
<1>1. helps \in Seq(Texts) /\ command \in Texts
  BY DEF PageType
<1>2. list \subseteq Suggestable
  <2>1. PICK S : Front(Args(command)) \in Seq(S)
    BY <1>1, ArgsAre
  <2>2. QED
    BY <2>1, HelpIs
<1> HIDE DEF list
<1>3. hints \subseteq list
  BY SuggestionsIn
<1> HIDE DEF hints, command
<1>4. hints \in SUBSET Suggestable
  BY <1>2, <1>3
<1>5. /\ Completed(command, hints) \in Texts
      /\ Completed(command, hints) = command \/ Completed(command, hints) \in Seq(Plain)
  BY <1>1, <1>4, CompletedIs
<1>6. /\ ~broken /\ helps' = RemoveAt(helps, i)
      /\ IF list = None
         THEN UNCHANGED <<page, text, shown, overwrote>>
         ELSE /\ text' = Completed(command, hints)
              /\ shown' = IF Cardinality(hints) = 1 THEN {} ELSE hints
              /\ Render(IF Cardinality(hints) = 1 THEN text' ELSE cmd, cache)
              /\ overwrote' = (overwrote \/ text # command)
              /\ UNCHANGED count
      /\ UNCHANGED <<quoted, keys, fetches, up, together>>
  BY DEF HelpAnswers, command, list, hints
<1>7. /\ helps' \in Seq(Texts) /\ Len(helps') = Len(helps) - 1
      /\ \A k \in DOMAIN helps' : \E j \in DOMAIN helps : helps'[k] = helps[j]
  BY <1>1, <1>6, RemoveIs
<1>8. CASE list = None
  BY <1>1, <1>6, <1>7, <1>8 DEF PageType, command
<1>9. CASE list # None
  <2>1. shown' \subseteq Suggestable
    BY <1>4, <1>6, <1>9
  <2>2. \E c \in Texts : c \in {cmd, text'} /\ Render(c, cache)
    <3>1. text' \in Texts /\ cmd \in Texts
      BY <1>5, <1>6, <1>9 DEF PageType
    <3>2. QED
      BY <1>6, <1>9, <3>1
  <2>3. /\ text' \in Texts /\ (text' = command \/ text' \in Seq(Plain))
        /\ overwrote' = (overwrote \/ text # command) /\ UNCHANGED count
    BY <1>5, <1>6, <1>9
  <2>4. QED
    BY <1>1, <1>6, <1>7, <1>9, <2>1, <2>2, <2>3 DEF command
<1>10. QED
  BY <1>8, <1>9

\* What a render makes of the page, but for the cache.
LEMMA RenderIs ==
  ASSUME NEW c, NEW ch, broken \in BOOLEAN, Render(c, ch)
  PROVE  cmd' = c /\ broken' \in BOOLEAN
  BY DEF Render

LEMMA PageTypeStep == PageType /\ [Next]_vars => PageType'
<1> SUFFICES ASSUME PageType, [Next]_vars PROVE PageType'
  OBVIOUS
<1> USE DEF PageType
<1>1. ASSUME NEW c \in {Space, Quote, NewLine} \cup {Flag(p) : p \in Partial}, Type(c)
      PROVE  PageType'
  <2>1. c \in Letter
    BY DEF Letter
  <2>2. text' \in Texts
    BY <1>1, <2>1 DEF Type, Texts
  <2>3. keys' \in 0 .. Keys
    BY <1>1, Bounds DEF Type
  <2>4. quoted' \in BOOLEAN
    BY <1>1, Zenon DEF Type
  <2>5. QED
    BY <1>1, <2>2, <2>3, <2>4 DEF Type
<1>2. ASSUME NEW a \in shown, Follow(a) PROVE PageType'
  <2>1. a \in Letter
    BY LettersArePlain
  <2>2. text' \in Texts
    BY <1>2, <2>1 DEF Follow, Texts
  <2>3. QED
    BY <1>2, <2>2 DEF Follow, page
<1>3. CASE Backspace
  <2>1. text' \in Texts
    BY <1>3, FrontIs DEF Backspace, Texts
  <2>2. keys' \in 0 .. Keys
    BY <1>3, Bounds DEF Backspace
  <2>3. quoted' \in BOOLEAN
    BY <1>3, Zenon DEF Backspace
  <2>4. QED
    BY <1>3, <2>1, <2>2, <2>3 DEF Backspace
<1>4. CASE Tab
  <2>1. helps' \in Seq(Texts) /\ Len(helps') = Len(helps) + 1
    BY <1>4 DEF Tab
  <2>2. Len(helps') <= MaxTabs
    BY <1>4, <2>1, Bounds DEF Tab
  <2>3. QED
    BY <1>4, <2>1, <2>2 DEF Tab, page, input
<1>5. CASE Enter
  <2>1. /\ UNCHANGED <<input, helps, shown, up, overwrote>> /\ Entered(text)
        /\ Len(fetches) < MaxFetches
    BY <1>5 DEF Enter
  <2>2. cmd' = text /\ broken' \in BOOLEAN /\ UNCHANGED count
    BY <2>1, RenderIs DEF Entered
  <2>3. CASE Throws(text, cache)
    BY <2>1, <2>2, <2>3 DEF Entered, input
  <2>4. CASE ~Throws(text, cache)
    <3>1. /\ fetches' = Fetched(text)
          /\ together' = (together \/ \E i \in DOMAIN fetches : fetches[i].state = "sent")
      BY <2>1, <2>4 DEF Entered
    <3> DEFINE f == [cmd |-> text, count |-> count, state |-> IF up THEN "sent" ELSE "lost"]
    <3>2. /\ fetches' \in Seq(Fetch) /\ Len(fetches') = Len(fetches) + 1
          /\ DOMAIN fetches' = 1 .. Len(fetches) + 1 /\ DOMAIN fetches = 1 .. Len(fetches)
          /\ \A i \in DOMAIN fetches : fetches'[i] = fetches[i]
          /\ fetches'[Len(fetches) + 1] = f
      <4> text \in Texts
        OBVIOUS
      <4>1. QED
        BY <3>1, FetchedIs
    <3>3. f.count = count
      OBVIOUS
    <3> HIDE DEF f
    <3>4. \A i \in DOMAIN fetches' : fetches'[i].count < i
      BY <3>2, <3>3
    <3>5. Len(fetches') \in 1 .. MaxFetches /\ count' \in 0 .. Len(fetches')
      BY <2>1, <2>2, <3>2, Bounds
    <3>6. together' \in BOOLEAN
      BY <3>1, Zenon
    <3>7. QED
      BY <2>1, <2>2, <3>2, <3>4, <3>5, <3>6 DEF input
  <2>5. QED
    BY <2>3, <2>4
<1>6. ASSUME NEW i \in DOMAIN helps, HelpAnswers(i) PROVE PageType'
  <2>1. /\ helps' \in Seq(Texts) /\ Len(helps') = Len(helps) - 1
        /\ shown' \subseteq Suggestable
        /\ \/ UNCHANGED <<page, text, overwrote>>
           \/ /\ text' \in Texts /\ overwrote' = (overwrote \/ text # helps[i])
              /\ UNCHANGED count /\ \E c \in Texts : Render(c, cache)
        /\ UNCHANGED <<quoted, keys, fetches, up, together>>
    <3>1. PageType
      OBVIOUS
    <3> HIDE DEF PageType
    <3>2. QED
      BY <1>6, <3>1, HelpArrives, Zenon
  <2>2. cmd' \in Texts /\ count' = count /\ broken' \in BOOLEAN
    BY <2>1, RenderIs DEF page
  <2>3. Len(helps') <= MaxTabs /\ helps' \in Seq(Texts)
    BY <2>1, Bounds
  <2>4. overwrote' \in BOOLEAN /\ text' \in Texts
    BY <2>1, Zenon
  <2>5. QED
    BY <2>1, <2>2, <2>3, <2>4
<1>7. ASSUME NEW i \in DOMAIN fetches, Answer(i) PROVE PageType'
  <2> DEFINE f == fetches[i]
             filed == With(cache, f.cmd, Append(Responses(cache, f.cmd), i))
  <2>1. /\ fetches' = [fetches EXCEPT ![i].state = "answered"] /\ count' = f.count + 1
        /\ IF count' # count THEN Render(cmd, filed)
           ELSE cache' = filed /\ UNCHANGED <<cmd, screen, broken>>
        /\ UNCHANGED <<input, helps, shown, up, overwrote, together>>
    BY <1>7 DEF Answer
  <2> HIDE DEF filed
  <2>2. cmd' \in Texts /\ broken' \in BOOLEAN
    BY <2>1, RenderIs
  <2>3. /\ fetches' \in Seq(Fetch) /\ Len(fetches') = Len(fetches) /\ DOMAIN fetches' = DOMAIN fetches
        /\ DOMAIN fetches = 1 .. Len(fetches)
        /\ \A k \in DOMAIN fetches : fetches'[k].count = fetches[k].count
    BY <2>1, AnsweredIs
  <2>4. count' \in 0 .. Len(fetches')
    <3>1. f \in Fetch /\ f.count < i /\ i \in 1 .. Len(fetches) /\ Len(fetches) \in Nat
      BY <2>3
    <3>2. f.count \in Nat
      BY <3>1 DEF Fetch
    <3>3. QED
      BY <2>1, <2>3, <3>1, <3>2
  <2>5. QED
    BY <2>1, <2>2, <2>3, <2>4 DEF input
<1>8. ASSUME NEW i \in DOMAIN fetches, Refused(i) PROVE PageType'
  <2>1. /\ up' = FALSE /\ helps' = <<>>
        /\ UNCHANGED <<page, input, shown, overwrote, together>>
        /\ fetches' = [k \in DOMAIN fetches |->
                         IF fetches[k].state = "sent" THEN [fetches[k] EXCEPT !.state = "lost"]
                         ELSE fetches[k]]
    BY <1>8 DEF Refused
  <2>2. /\ fetches' \in Seq(Fetch) /\ Len(fetches') = Len(fetches) /\ DOMAIN fetches' = DOMAIN fetches
        /\ \A k \in DOMAIN fetches : fetches'[k] = Lost(fetches[k]) /\ fetches[k] \in Fetch
    BY <2>1, AllLostIs
  <2>3. \A k \in DOMAIN fetches' : fetches'[k].count < k
    BY <2>2, LostIs
  <2>4. helps' \in Seq(Texts) /\ Len(helps') <= MaxTabs
    BY <2>1, Bounds
  <2>5. QED
    BY <2>1, <2>2, <2>3, <2>4 DEF page, input
<1>9. CASE UNCHANGED vars
  BY <1>9 DEF vars, page
<1>10. QED
  BY <1>1, <1>2, <1>3, <1>4, <1>5, <1>6, <1>7, <1>8, <1>9 DEF Next

-----------------------------------------------------------------------------
(***************************************************************************)
(* The cache                                                               *)
(***************************************************************************)
LEMMA HeightIsText == <<CmdHeight>> \in Texts
  BY DEF Texts, Letter

\* The fetches of the command c that have been answered.
Answered(fs, c) == {i \in DOMAIN fs : fs[i].state = "answered" /\ fs[i].cmd = c}

\* A list of the answered fetches of c, each once; among those of cmdHeight some
\* may be lacking, and a number may be there.
FiledAs(r, fs, c) ==
  /\ r \in Seq(DOMAIN fs \cup {0}) /\ Once(r)
  /\ IF c = <<CmdHeight>> THEN Range(r) \subseteq Answered(fs, c) \cup {0}
                         ELSE Range(r) = Answered(fs, c)

FiledIn(ch, fs) ==
  DOMAIN ch \subseteq Texts /\ \A c \in Texts : FiledAs(Responses(ch, c), fs, c)

\* What With keeps: all but the responses of c.
LEMMA WithIs ==
  ASSUME NEW ch, NEW c \in Texts, NEW r, DOMAIN ch \subseteq Texts,
         r # <<>> \/ Responses(ch, c) = <<>>
  PROVE  /\ DOMAIN With(ch, c, r) \subseteq Texts
         /\ \A k : Responses(With(ch, c, r), k) = IF k = c THEN r ELSE Responses(ch, k)
<1>1. CASE r = <<>>
  <2>1. With(ch, c, r) = ch
    BY <1>1 DEF With
  <2>2. QED
    BY <1>1, <2>1
<1>2. CASE r # <<>>
  <2> DEFINE w == [k \in DOMAIN ch \cup {c} |-> IF k = c THEN r ELSE ch[k]]
  <2>1. With(ch, c, r) = w
    BY <1>2 DEF With
  <2>2. DOMAIN w = DOMAIN ch \cup {c} /\ \A k \in DOMAIN ch \cup {c} : w[k] = IF k = c THEN r ELSE ch[k]
    OBVIOUS
  <2> HIDE DEF w
  <2>3. QED
    BY <2>1, <2>2 DEF Responses
<1>3. QED
  BY <1>1, <1>2

\* Turning round the responses of a command leaves them filed.
LEMMA RenderFiles ==
  ASSUME NEW ch, NEW fs, NEW c \in Texts, FiledIn(ch, fs)
  PROVE  LET r == Reverse(Responses(ch, c))
         IN  FiledIn(With(ch, c, r), fs) /\ Responses(With(ch, c, r), c) = r
<1> DEFINE r == Reverse(Responses(ch, c))
           w == With(ch, c, r)
<1>1. DOMAIN ch \subseteq Texts /\ \A k \in Texts : FiledAs(Responses(ch, k), fs, k)
  BY DEF FiledIn
<1>2. FiledAs(r, fs, c) /\ (r = <<>> <=> Responses(ch, c) = <<>>)
  BY <1>1, ReverseIs DEF FiledAs
<1> HIDE DEF r
<1>3. DOMAIN w \subseteq Texts /\ \A k : Responses(w, k) = IF k = c THEN r ELSE Responses(ch, k)
  BY <1>1, <1>2, WithIs
<1> HIDE DEF w
<1>4. FiledIn(w, fs)
  BY <1>1, <1>2, <1>3 DEF FiledIn
<1>5. QED
  BY <1>3, <1>4 DEF w, r

\* The height of the box, written over the first response to cmdHeight or, if there
\* is none, before all, leaves the others filed.
LEMMA HeightFiles ==
  ASSUME NEW ch, NEW fs, FiledIn(ch, fs)
  PROVE  /\ FiledIn(Heightened(ch), fs)
         /\ \A k : k # <<CmdHeight>> => Responses(Heightened(ch), k) = Responses(ch, k)
<1> DEFINE c == <<CmdHeight>>
           r == IF Responses(ch, c) = <<>> THEN <<0>> ELSE Responses(ch, c)
<1>1. DOMAIN ch \subseteq Texts /\ \A k \in Texts : FiledAs(Responses(ch, k), fs, k)
  BY DEF FiledIn
<1>2. Heightened(ch) = With(ch, c, r) /\ r # <<>>
  BY DEF Heightened
<1>3. c \in Texts
  BY HeightIsText
<1>4. QED
  <2>1. FiledAs(r, fs, c)
    <3>1. CASE Responses(ch, c) = <<>>
      BY <3>1 DEF FiledAs, Once, Range
    <3>2. CASE Responses(ch, c) # <<>>
      BY <1>1, <1>3, <3>2
    <3>3. QED
      BY <3>1, <3>2
  <2> HIDE DEF r, c
  <2>2. /\ DOMAIN With(ch, c, r) \subseteq Texts
        /\ \A k : Responses(With(ch, c, r), k) = IF k = c THEN r ELSE Responses(ch, k)
    BY <1>1, <1>2, <1>3, WithIs
  <2>3. FiledIn(Heightened(ch), fs)
    BY <1>1, <1>2, <2>1, <2>2 DEF FiledIn
  <2>4. QED
    BY <1>2, <2>2, <2>3 DEF c

LEMMA LowerFiles ==
  ASSUME NEW ch, NEW fs, FiledIn(ch, fs)
  PROVE  /\ FiledIn(Lowered(ch), fs)
         /\ \A k : k # <<CmdHeight>> => Responses(Lowered(ch), k) = Responses(ch, k)
<1> DEFINE c == <<CmdHeight>>
           a == Responses(ch, c)
           r == IF a = <<>> THEN <<0>> ELSE [a EXCEPT ![1] = 0]
<1>1. DOMAIN ch \subseteq Texts /\ \A k \in Texts : FiledAs(Responses(ch, k), fs, k)
  BY DEF FiledIn
<1>2. Lowered(ch) = With(ch, c, r) \/ Lowered(ch) = ch
  BY Zenon DEF Lowered
<1>3. c \in Texts
  BY HeightIsText
<1>4. a \in Seq(DOMAIN fs \cup {0}) /\ Once(a) /\ Range(a) \subseteq Answered(fs, c) \cup {0}
  BY <1>1, <1>3 DEF FiledAs
<1> HIDE DEF a
<1>5. FiledAs(r, fs, c) /\ r # <<>>
  <2>1. CASE a = <<>>
    BY <2>1 DEF FiledAs, Once, Range
  <2>2. CASE a # <<>>
    <3>1. /\ r \in Seq(DOMAIN fs \cup {0}) /\ DOMAIN r = DOMAIN a /\ r # <<>>
          /\ \A k \in DOMAIN a : r[k] = IF k = 1 THEN 0 ELSE a[k]
      BY <1>4, <2>2
    <3> HIDE DEF r
    <3>2. Once(r)
      BY <1>4, <3>1 DEF Once
    <3>3. Range(r) \subseteq Answered(fs, c) \cup {0}
      BY <1>4, <3>1 DEF Range
    <3>4. QED
      BY <3>1, <3>2, <3>3 DEF FiledAs
  <2>3. QED
    BY <2>1, <2>2
<1> HIDE DEF r
<1>6. CASE Lowered(ch) = With(ch, c, r)
  <2> HIDE DEF c
  <2>1. /\ DOMAIN With(ch, c, r) \subseteq Texts
        /\ \A k : Responses(With(ch, c, r), k) = IF k = c THEN r ELSE Responses(ch, k)
    BY <1>1, <1>3, <1>5, WithIs
  <2>2. FiledIn(Lowered(ch), fs)
    BY <1>1, <1>5, <1>6, <2>1 DEF FiledIn
  <2>3. QED
    BY <1>6, <2>1, <2>2 DEF c
<1>7. QED
  BY <1>2, <1>6

\* An answer is filed once, with the command it answers.
LEMMA AnswerFiles ==
  ASSUME NEW ch, NEW fs, NEW gs, NEW i \in DOMAIN fs, FiledIn(ch, fs), 0 \notin DOMAIN fs,
         fs[i].cmd \in Texts, fs[i].state # "answered", DOMAIN gs = DOMAIN fs,
         \A k \in DOMAIN fs : /\ gs[k].cmd = fs[k].cmd
                              /\ gs[k].state = IF k = i THEN "answered" ELSE fs[k].state
  PROVE  FiledIn(With(ch, fs[i].cmd, Append(Responses(ch, fs[i].cmd), i)), gs)
<1> DEFINE c == fs[i].cmd
           a == Responses(ch, c)
           r == Append(a, i)
           w == With(ch, c, r)
<1>1. /\ DOMAIN ch \subseteq Texts /\ c \in Texts
      /\ \A k \in Texts : FiledAs(Responses(ch, k), fs, k)
  BY DEF FiledIn
<1>2. FiledAs(a, fs, c)
  BY <1>1
<1>3. i \notin Range(a)
  BY <1>2 DEF Answered, FiledAs
<1> HIDE DEF a
<1>4. /\ r \in Seq(DOMAIN fs \cup {0}) /\ r # <<>> /\ DOMAIN a = 1 .. Len(a) /\ Len(a) \in Nat
      /\ DOMAIN r = 1 .. Len(a) + 1 /\ r[Len(a) + 1] = i /\ \A k \in 1 .. Len(a) : r[k] = a[k]
  BY <1>2, AppendIs DEF FiledAs
<1> HIDE DEF r
<1>5. Range(r) = Range(a) \cup {i}
  <2>1. ASSUME NEW x \in Range(r) PROVE x \in Range(a) \cup {i}
    <3>1. PICK k \in 1 .. Len(a) + 1 : x = r[k]
      BY <1>4 DEF Range
    <3>2. CASE k \in 1 .. Len(a)
      BY <1>4, <3>1, <3>2 DEF Range
    <3>3. CASE k = Len(a) + 1
      BY <1>4, <3>1, <3>3
    <3>4. QED
      BY <1>4, <3>2, <3>3
  <2>2. ASSUME NEW x \in Range(a) PROVE x \in Range(r)
    <3>1. PICK k \in 1 .. Len(a) : x = a[k]
      BY <1>4 DEF Range
    <3>2. k \in DOMAIN r /\ r[k] = x
      BY <1>4, <3>1
    <3>3. QED
      BY <3>2 DEF Range
  <2>3. i \in Range(r)
    <3>1. Len(a) + 1 \in DOMAIN r
      BY <1>4
    <3>2. QED
      BY <1>4, <3>1 DEF Range
  <2>4. QED
    BY <2>1, <2>2, <2>3
<1>6. Once(r)
  <2> SUFFICES ASSUME NEW j \in 1 .. Len(a) + 1, NEW k \in 1 .. Len(a) + 1, r[j] = r[k],
                      r[j] # 0
               PROVE  j = k
    BY <1>4 DEF Once
  <2>1. CASE j \in 1 .. Len(a) /\ k \in 1 .. Len(a)
    BY <1>2, <1>4, <2>1 DEF FiledAs, Once
  <2>2. CASE j = Len(a) + 1 /\ k \in 1 .. Len(a)
    <3>1. a[k] = i
      BY <1>4, <2>2
    <3>2. QED
      BY <1>3, <1>4, <2>2, <3>1 DEF Range
  <2>3. CASE k = Len(a) + 1 /\ j \in 1 .. Len(a)
    <3>1. a[j] = i
      BY <1>4, <2>3
    <3>2. QED
      BY <1>3, <1>4, <2>3, <3>1 DEF Range
  <2>4. QED
    BY <1>4, <2>1, <2>2, <2>3
<1>7. DOMAIN w \subseteq Texts /\ \A k : Responses(w, k) = IF k = c THEN r ELSE Responses(ch, k)
  <2> HIDE DEF c
  <2>1. QED
    BY <1>1, <1>4, WithIs
<1>8. \A k : Answered(gs, k) = IF k = c THEN Answered(fs, k) \cup {i} ELSE Answered(fs, k)
  BY DEF Answered
<1> HIDE DEF w, c
<1>9. ASSUME NEW k \in Texts
      PROVE  FiledAs(Responses(w, k), gs, k)
  <2>1. CASE k = c
    BY <1>2, <1>4, <1>5, <1>6, <1>7, <1>8, <2>1 DEF FiledAs
  <2>2. CASE k # c
    BY <1>1, <1>7, <1>8, <2>2 DEF FiledAs
  <2>3. QED
    BY <2>1, <2>2
<1>10. FiledIn(w, gs)
  BY <1>7, <1>9 DEF FiledIn
<1>11. QED
  BY <1>10 DEF w, r, a, c

\* More fetches, of which the same are answered.
LEMMA FiledStays ==
  ASSUME NEW ch, NEW fs, NEW gs, FiledIn(ch, fs), DOMAIN fs \subseteq DOMAIN gs,
         \A i \in DOMAIN fs : /\ gs[i].cmd = fs[i].cmd
                              /\ gs[i].state = "answered" <=> fs[i].state = "answered",
         \A i \in DOMAIN gs \ DOMAIN fs : gs[i].state # "answered"
  PROVE  FiledIn(ch, gs)
<1>1. \A k : Answered(gs, k) = Answered(fs, k)
  BY DEF Answered
<1>2. ASSUME NEW s \in Seq(DOMAIN fs \cup {0}) PROVE s \in Seq(DOMAIN gs \cup {0})
  OBVIOUS
<1>3. QED
  BY <1>1, <1>2 DEF FiledIn, FiledAs

\* The page shows the responses to its command, as long as no command has been
\* entered while another was fetched: then at most one is sent, and its count
\* is the latest, so that its answer renders. What cmdHeight stands for changes
\* without a render, when the box grows.
Reading ==
  \/ together
  \/ /\ broken \/ cmd = <<CmdHeight>> \/ screen = Responses(cache, cmd)
     /\ \A i \in DOMAIN fetches : fetches[i].state = "sent" => fetches[i].count = count
     /\ \A i, j \in DOMAIN fetches : fetches[i].state = "sent" /\ fetches[j].state = "sent" => i = j

Filing == FiledIn(cache, fetches)

PageInv == PageType /\ Filing /\ Reading

LEMMA FilingInit == Init => Filing /\ Reading
<1> SUFFICES ASSUME Init PROVE Filing /\ Reading
  OBVIOUS
<1> DEFINE f == [cmd |-> <<>>, count |-> 0, state |-> "sent"]
<1>1. f.state = "sent" /\ f.count = 0
  OBVIOUS
<1>2. fetches = <<f>> /\ count = 0 /\ screen = <<>> /\ DOMAIN cache = {}
  BY DEF Init
<1> HIDE DEF f
<1>3. DOMAIN fetches = {1} /\ fetches[1] = f
  BY <1>2
<1>4. \A c : Responses(cache, c) = <<>>
  BY <1>2 DEF Responses
<1>5. \A c : Answered(fetches, c) = {}
  BY <1>1, <1>3 DEF Answered
<1>6. Filing
  <2>1. Once(<<>>) /\ Range(<<>>) = {} /\ <<>> \in Seq(DOMAIN fetches \cup {0})
    BY DEF Once, Range
  <2>2. QED
    BY <1>2, <1>4, <1>5, <2>1 DEF Filing, FiledIn, FiledAs
<1>7. QED
  BY <1>1, <1>2, <1>3, <1>4, <1>6 DEF Reading

\* A render keeps what is filed and shows the responses to its command, or throws.
LEMMA Rendered ==
  ASSUME NEW ch, NEW fs, NEW c \in Texts, FiledIn(ch, fs), Render(c, ch)
  PROVE  FiledIn(cache', fs) /\ (broken' \/ screen' = Responses(cache', cmd'))
<1>1. /\ cmd' = c /\ cache' = With(ch, c, Reverse(Responses(ch, c)))
      /\ broken' \/ screen' = Responses(cache', c)
  BY DEF Render
<1>2. QED
  BY <1>1, RenderFiles

\* The height of the box changes what is filed for cmdHeight alone.
LEMMA Resized ==
  ASSUME PageType, PageType', Filing, Reading,
         cache' \in {Heightened(cache), Lowered(cache), cache},
         UNCHANGED <<cmd, count, screen, broken, fetches, together>>
  PROVE  PageInv'
<1>1. /\ FiledIn(cache', fetches)
      /\ \A k : k # <<CmdHeight>> => Responses(cache', k) = Responses(cache, k)
  BY HeightFiles, LowerFiles DEF Filing
<1>2. Filing'
  BY <1>1 DEF Filing
<1>3. Reading'
  BY <1>1 DEF Reading
<1>4. QED
  BY <1>2, <1>3 DEF PageInv

LEMMA PageInvStep == PageInv /\ [Next]_vars => PageInv'
<1> SUFFICES ASSUME PageInv, [Next]_vars PROVE PageInv'
  OBVIOUS
<1>1. PageType /\ PageType' /\ Filing /\ Reading
  BY PageTypeStep DEF PageInv
<1>2. ASSUME UNCHANGED <<page, fetches, together>> PROVE PageInv'
  BY <1>1, <1>2 DEF Filing, Reading, page, PageInv
<1>3. ASSUME NEW c \in {Space, Quote, NewLine} \cup {Flag(p) : p \in Partial}, Type(c)
      PROVE  PageInv'
  <2>1. /\ cache' = IF c = NewLine THEN Heightened(cache) ELSE cache
        /\ UNCHANGED <<cmd, count, screen, broken, fetches, together>>
    BY <1>3 DEF Type
  <2>2. QED
    BY <1>1, <2>1, Resized
<1>4. ASSUME NEW a \in shown, Follow(a) PROVE PageInv'
  BY <1>2, <1>4 DEF Follow
<1>5. CASE Backspace
  <2>1. /\ cache' = IF Last(text) = NewLine THEN Lowered(cache) ELSE cache
        /\ UNCHANGED <<cmd, count, screen, broken, fetches, together>>
    BY <1>5 DEF Backspace
  <2>2. QED
    BY <1>1, <2>1, Resized
<1>6. CASE Tab
  BY <1>2, <1>6 DEF Tab
<1>7. CASE Enter
  <2>1. Entered(text) /\ ~broken /\ text \in Texts
    BY <1>1, <1>7 DEF Enter, PageType
  <2>2. CASE Throws(text, cache)
    <3>1. broken' /\ Render(text, cache) /\ UNCHANGED <<count, fetches, together>>
      BY <2>1, <2>2 DEF Entered, Render
    <3>2. FiledIn(cache', fetches)
      BY <1>1, <2>1, <3>1, Rendered DEF Filing
    <3>3. QED
      BY <1>1, <3>1, <3>2 DEF Filing, Reading, PageInv
  <2>3. CASE ~Throws(text, cache)
    <3>1. /\ Render(text, cache) /\ fetches' = Fetched(text)
          /\ together' = (together \/ \E i \in DOMAIN fetches : fetches[i].state = "sent")
          /\ UNCHANGED count
      BY <2>1, <2>3 DEF Entered
    <3>2. FiledIn(cache', fetches) /\ (broken' \/ screen' = Responses(cache', cmd'))
      BY <1>1, <2>1, <3>1, Rendered DEF Filing
    <3> DEFINE f == [cmd |-> text, count |-> count, state |-> IF up THEN "sent" ELSE "lost"]
    <3>3. /\ DOMAIN fetches' = 1 .. Len(fetches) + 1 /\ DOMAIN fetches = 1 .. Len(fetches)
          /\ \A i \in DOMAIN fetches : fetches'[i] = fetches[i]
          /\ fetches'[Len(fetches) + 1] = f
      BY <1>1, <2>1, <3>1, FetchedIs
    <3>4. f.state # "answered" /\ f.count = count
      OBVIOUS
    <3> HIDE DEF f
    <3>5. Len(fetches) \in Nat
      BY <1>1 DEF PageType
    <3>6. \A i \in DOMAIN fetches' : i \in DOMAIN fetches \/ i = Len(fetches) + 1
      BY <3>3, <3>5
    <3>7. Filing'
      <4>1. FiledIn(cache', fetches')
        BY <3>2, <3>3, <3>4, <3>5, <3>6, FiledStays
      <4>2. QED
        BY <4>1 DEF Filing
    <3>8. Reading'
      <4>1. CASE together \/ \E i \in DOMAIN fetches : fetches[i].state = "sent"
        BY <3>1, <4>1 DEF Reading
      <4>2. CASE ~together /\ \A i \in DOMAIN fetches : fetches[i].state # "sent"
        BY <3>1, <3>2, <3>3, <3>4, <3>6, <4>2 DEF Reading
      <4>3. QED
        BY <4>1, <4>2
    <3>9. QED
      BY <1>1, <3>7, <3>8 DEF PageInv
  <2>4. QED
    BY <2>2, <2>3
<1>8. ASSUME NEW i \in DOMAIN helps, HelpAnswers(i) PROVE PageInv'
  <2>1. /\ \/ UNCHANGED page
           \/ UNCHANGED count /\ \E c \in Texts : Render(c, cache)
        /\ UNCHANGED <<fetches, together>>
    <3>1. HelpAnswers(i) /\ PageType
      BY <1>1, <1>8
    <3>2. QED
      BY <3>1, HelpArrives DEF page
  <2>2. CASE UNCHANGED page
    BY <1>2, <2>1, <2>2
  <2>3. ASSUME UNCHANGED count, NEW c \in Texts, Render(c, cache) PROVE PageInv'
    <3>1. FiledIn(cache', fetches) /\ (broken' \/ screen' = Responses(cache', cmd'))
      BY <1>1, <2>3, Rendered DEF Filing
    <3>2. QED
      BY <1>1, <2>1, <2>3, <3>1 DEF Filing, Reading, PageInv
  <2>4. QED
    BY <2>1, <2>2, <2>3
<1>9. ASSUME NEW i \in DOMAIN fetches, Answer(i) PROVE PageInv'
  <2> DEFINE f == fetches[i]
             filed == With(cache, f.cmd, Append(Responses(cache, f.cmd), i))
  <2>1. /\ fetches' = [fetches EXCEPT ![i].state = "answered"] /\ count' = f.count + 1
        /\ IF count' # count THEN Render(cmd, filed)
           ELSE cache' = filed /\ UNCHANGED <<cmd, screen, broken>>
        /\ UNCHANGED together /\ f.state = "sent" /\ ~broken
    BY <1>9 DEF Answer
  <2>2. f \in Fetch /\ cmd \in Texts
    BY <1>1 DEF PageType
  <2>3. f.cmd \in Texts /\ f.count \in Nat
    BY <2>2 DEF Fetch
  <2>4. /\ DOMAIN fetches' = DOMAIN fetches
        /\ \A k \in DOMAIN fetches :
             /\ fetches'[k].cmd = fetches[k].cmd /\ fetches'[k].count = fetches[k].count
             /\ fetches'[k].state = IF k = i THEN "answered" ELSE fetches[k].state
    BY <1>1, <2>1, AnsweredIs
  <2>5. FiledIn(filed, fetches')
    <3>1. 0 \notin DOMAIN fetches
      BY <1>1 DEF PageType
    <3>2. FiledIn(cache, fetches) /\ f.state # "answered" /\ f.cmd \in Texts
      BY <1>1, <2>1, <2>3 DEF Filing
    <3>3. \A k \in DOMAIN fetches :
            /\ fetches'[k].cmd = fetches[k].cmd
            /\ fetches'[k].state = IF k = i THEN "answered" ELSE fetches[k].state
      BY <2>4
    <3>4. QED
      BY <2>4, <3>1, <3>2, <3>3, AnswerFiles
  <2> HIDE DEF filed
  <2>6. Filing'
    <3>1. CASE count' # count
      <4>1. Render(cmd, filed)
        BY <2>1, <3>1
      <4>2. FiledIn(cache', fetches')
        BY <2>2, <2>5, <4>1, Rendered
      <4>3. QED
        BY <4>2 DEF Filing
    <3>2. CASE count' = count
      BY <2>1, <2>5, <3>2 DEF Filing
    <3>3. QED
      BY <3>1, <3>2
  <2>7. Reading'
    <3>1. CASE together
      BY <2>1, <3>1 DEF Reading
    <3>2. CASE ~together
      <4>1. f.count = count /\ \A k \in DOMAIN fetches : fetches[k].state = "sent" => k = i
        BY <1>1, <2>1, <3>2 DEF Reading
      <4>2. count' # count
        BY <2>1, <2>3, <4>1
      <4>3. Render(cmd, filed)
        BY <2>1, <4>2
      <4>4. broken' \/ screen' = Responses(cache', cmd')
        BY <2>2, <2>5, <4>3, Rendered
      <4>5. \A k \in DOMAIN fetches' : fetches'[k].state # "sent"
        BY <2>4, <4>1
      <4>6. QED
        BY <2>4, <4>4, <4>5 DEF Reading
    <3>3. QED
      BY <3>1, <3>2
  <2>8. QED
    BY <1>1, <2>6, <2>7 DEF PageInv
<1>10. ASSUME NEW i \in DOMAIN fetches, Refused(i) PROVE PageInv'
  <2>1. /\ UNCHANGED <<page, together>>
        /\ fetches' = [k \in DOMAIN fetches |->
                         IF fetches[k].state = "sent" THEN [fetches[k] EXCEPT !.state = "lost"]
                         ELSE fetches[k]]
    BY <1>10 DEF Refused
  <2>2. /\ DOMAIN fetches' = DOMAIN fetches
        /\ \A k \in DOMAIN fetches : fetches'[k] = Lost(fetches[k]) /\ fetches[k] \in Fetch
    BY <1>1, <2>1, AllLostIs
  <2>3. \A k \in DOMAIN fetches :
          /\ fetches'[k].cmd = fetches[k].cmd /\ fetches'[k].state # "sent"
          /\ fetches'[k].state = "answered" <=> fetches[k].state = "answered"
    BY <2>2, LostIs
  <2>4. FiledIn(cache, fetches')
    BY <1>1, <2>2, <2>3, FiledStays DEF Filing
  <2>5. QED
    BY <1>1, <2>1, <2>2, <2>3, <2>4 DEF Filing, Reading, page, PageInv
<1>11. CASE UNCHANGED vars
  BY <1>2, <1>11 DEF vars, page
<1>12. QED
  BY <1>3, <1>4, <1>5, <1>6, <1>7, <1>8, <1>9, <1>10, <1>11 DEF Next

\* Each answered fetch is once among the responses to its command, and no
\* other fetch is among the responses to any.
LEMMA FiledOnce == PageType /\ Filing => Filed
<1> SUFFICES ASSUME PageType, Filing PROVE Filed
  OBVIOUS
<1>1. DOMAIN cache \subseteq Texts /\ \A c \in Texts : FiledAs(Responses(cache, c), fetches, c)
  BY DEF Filing, FiledIn
<1>2. \A i \in DOMAIN fetches : fetches[i] \in Fetch /\ i \in 1 .. Len(fetches)
  BY DEF PageType
<1>3. TypeOK
  <2>1. \A c \in DOMAIN cache : Range(cache[c]) \subseteq DOMAIN fetches \cup {0}
    BY <1>1 DEF Responses, Answered, FiledAs
  <2>2. \A i \in DOMAIN fetches : /\ fetches[i].state \in {"sent", "answered", "lost"}
                                  /\ fetches[i].count \in 0 .. MaxFetches
    <3>1. \A i \in DOMAIN fetches : /\ fetches[i].state \in {"sent", "answered", "lost"}
                                    /\ fetches[i].count \in Nat /\ fetches[i].count < i
      BY <1>2 DEF Fetch, PageType
    <3>2. Len(fetches) <= MaxFetches /\ Len(fetches) \in Nat
      BY Bounds DEF PageType
    <3>3. QED
      BY <1>2, <3>1, <3>2, Bounds
  <2>3. count \in 0 .. MaxFetches
    BY Bounds DEF PageType
  <2>4. QED
    BY <2>1, <2>2, <2>3 DEF TypeOK, PageType
<1>4. ASSUME NEW i \in DOMAIN fetches, NEW c \in DOMAIN cache \cup {fetches[i].cmd}
      PROVE  Cardinality({k \in DOMAIN Responses(cache, c) : Responses(cache, c)[k] = i})
               \in IF fetches[i].state = "answered" /\ fetches[i].cmd = c
                  THEN IF c = <<CmdHeight>> THEN {0, 1} ELSE {1}
                  ELSE {0}
  <2> DEFINE r == Responses(cache, c)
             places == {k \in DOMAIN r : r[k] = i}
  <2>1. c \in Texts
    BY <1>1, <1>2 DEF Fetch
  <2>2. FiledAs(r, fetches, c) /\ i # 0
    BY <1>1, <1>2, <2>1
  <2> HIDE DEF r
  <2>3. ASSUME NEW k \in DOMAIN r, r[k] = i PROVE Cardinality(places) = 1
    <3>1. places = {k}
      BY <2>2, <2>3 DEF FiledAs, Once
    <3>2. QED
      BY <3>1, FS_Singleton
  <2>4. ASSUME i \notin Range(r) PROVE Cardinality(places) = 0
    <3>1. places = {}
      BY <2>4 DEF Range
    <3>2. QED
      BY <3>1, FS_EmptySet
  <2>5. Cardinality(places) = IF i \in Range(r) THEN 1 ELSE 0
    BY <2>3, <2>4 DEF Range
  <2>6. i \in Range(r) => fetches[i].state = "answered" /\ fetches[i].cmd = c
    BY <2>2 DEF Answered, FiledAs
  <2>7. fetches[i].state = "answered" /\ fetches[i].cmd = c /\ c # <<CmdHeight>> => i \in Range(r)
    BY <2>2 DEF Answered, FiledAs
  <2>8. QED
    BY <2>5, <2>6, <2>7 DEF r
<1>5. QED
  BY <1>3, <1>4 DEF Filed

LEMMA PageHolds == Spec => []PageInv
<1>1. Init => PageInv
  BY PageTypeInit, FilingInit DEF PageInv
<1>2. QED
  BY <1>1, PageInvStep, PTL DEF Spec

\* Every answer is filed once, under the command that asked for it, whatever is
\* entered, completed or turned round at the renders meanwhile (App.tsx:96,
\* 103), for any number of commands and answers in any order. Only one to
\* cmdHeight may be overwritten, by the height of the box (App.tsx:181).
THEOREM AnswersFiled == Spec => []Filed
<1>1. PageInv => Filed
  BY FiledOnce DEF PageInv
<1>2. QED
  BY <1>1, PageHolds, PTL

\* The page shows every response it has to its command, as long as no command
\* was entered while another was being fetched: then each answer changes the
\* count, whose change renders (App.tsx:104).
THEOREM ScreenIsCurrent == Spec => []ScreenCurrent
<1>1. PageInv => ScreenCurrent
  BY DEF PageInv, Reading, ScreenCurrent
<1>2. QED
  BY <1>1, PageHolds, PTL

-----------------------------------------------------------------------------
(***************************************************************************)
(* The quotes and their flag                                               *)
(***************************************************************************)
QuotesOf(t) == {i \in DOMAIN t : t[i] = Quote}
Odd(t) == Cardinality(QuotesOf(t)) % 2 = 1

LEMMA QuotesAreCounted ==
  ASSUME NEW t \in Texts
  PROVE  IsFiniteSet(QuotesOf(t)) /\ Cardinality(QuotesOf(t)) \in Nat
<1>1. Len(t) \in Nat /\ QuotesOf(t) \subseteq 1 .. Len(t)
  BY DEF Texts, QuotesOf
<1>2. IsFiniteSet(1 .. Len(t))
  BY <1>1, FS_Interval
<1>3. IsFiniteSet(QuotesOf(t))
  BY <1>1, <1>2, FS_Subset
<1>4. QED
  BY <1>3, FS_CardinalityType

\* A letter more changes the parity if it is a quote.
LEMMA OneMore ==
  ASSUME NEW s \in Texts, NEW t \in Texts, Len(t) = Len(s) + 1,
         \A i \in 1 .. Len(s) : t[i] = s[i]
  PROVE  Odd(t) <=> ~(Odd(s) <=> t[Len(t)] = Quote)
<1>1. /\ Len(s) \in Nat /\ DOMAIN s = 1 .. Len(s) /\ DOMAIN t = 1 .. Len(s) + 1
      /\ Len(t) = Len(s) + 1
  BY DEF Texts
<1>2. Len(t) \notin QuotesOf(s)
  BY <1>1 DEF QuotesOf
<1>3. IsFiniteSet(QuotesOf(s)) /\ Cardinality(QuotesOf(s)) \in Nat
  BY QuotesAreCounted
<1>4. CASE t[Len(t)] = Quote
  <2>1. QuotesOf(t) = QuotesOf(s) \cup {Len(t)}
    BY <1>1, <1>4 DEF QuotesOf
  <2>2. Cardinality(QuotesOf(t)) = Cardinality(QuotesOf(s)) + 1
    BY <1>2, <1>3, <2>1, FS_AddElement
  <2>3. QED
    BY <1>3, <1>4, <2>2 DEF Odd
<1>5. CASE t[Len(t)] # Quote
  <2>1. QuotesOf(t) = QuotesOf(s)
    BY <1>1, <1>5 DEF QuotesOf
  <2>2. QED
    BY <1>5, <2>1 DEF Odd
<1>6. QED
  BY <1>4, <1>5

LEMMA NoneIsEven == ~Odd(<<>>) /\ \A t \in Seq(Plain) : ~Odd(t)
<1>1. ASSUME NEW t, QuotesOf(t) = {} PROVE ~Odd(t)
  <2>1. Cardinality(QuotesOf(t)) = 0
    BY <1>1, FS_EmptySet
  <2>2. QED
    BY <2>1 DEF Odd
<1>2. QuotesOf(<<>>) = {}
  BY DEF QuotesOf
<1>3. ASSUME NEW t \in Seq(Plain) PROVE QuotesOf(t) = {}
  <2>1. \A i \in DOMAIN t : t[i] \in Plain
    OBVIOUS
  <2>2. QED
    BY <2>1 DEF QuotesOf, Plain
<1>4. QED
  BY <1>1, <1>2, <1>3

LEMMA OneIsOdd == Odd(<<Quote>>)
<1>1. Quote \in Letter
  BY DEF Letter
<1>2. <<>> \in Texts /\ <<Quote>> \in Texts /\ Len(<<Quote>>) = Len(<<>>) + 1
  BY <1>1 DEF Texts
<1>3. \A i \in 1 .. Len(<<>>) : <<Quote>>[i] = <<>>[i]
  OBVIOUS
<1>4. <<Quote>>[Len(<<Quote>>)] = Quote
  OBVIOUS
<1>5. Odd(<<Quote>>) <=> ~(Odd(<<>>) <=> <<Quote>>[Len(<<Quote>>)] = Quote)
  BY <1>2, <1>3, OneMore
<1>6. QED
  BY <1>4, <1>5, NoneIsEven

\* Until a completion replaces a text edited meanwhile, the flag is the parity
\* of the quotes, and commands are entered and help is awaited only for texts
\* whose quotes are closed: for these Tab is a completion, and the text is still
\* the same. So the flag is never taken for the responses of a command.
Quoting ==
  \/ overwrote
  \/ /\ quoted <=> Odd(text)
     /\ ~Odd(cmd)
     /\ broken => cmd = <<CmdHeight>>
     /\ \A i \in DOMAIN helps : ~Odd(helps[i])

\* A render whose command is not the quote throws for cmdHeight only.
LEMMA RenderThrows ==
  ASSUME NEW c, NEW ch, Render(c, ch), ~broken, ~Odd(c)
  PROVE  ~Odd(cmd') /\ (broken' => cmd' = <<CmdHeight>>)
<1>1. cmd' = c /\ c # <<Quote>>
  BY OneIsOdd DEF Render
<1>2. broken' => Throws(c, ch)
  BY DEF Render
<1>3. QED
  <2>1. ~Odd(cmd')
    BY <1>1 DEF Odd, QuotesOf
  <2>2. QED
    BY <1>1, <1>2, <2>1 DEF Throws

QuoteInv == PageType /\ Quoting

LEMMA QuotingStep == QuoteInv /\ [Next]_vars => QuoteInv'
<1> SUFFICES ASSUME QuoteInv, [Next]_vars PROVE QuoteInv'
  OBVIOUS
<1>1. PageType /\ PageType' /\ Quoting
  BY PageTypeStep DEF QuoteInv
<1>2. text \in Texts /\ helps \in Seq(Texts) /\ quoted \in BOOLEAN /\ quoted' \in BOOLEAN
  BY <1>1 DEF PageType
<1>3. ASSUME UNCHANGED overwrote,
             overwrote \/ /\ ~Odd(cmd') /\ (broken' => cmd' = <<CmdHeight>>)
                          /\ quoted' <=> Odd(text')
                          /\ \A i \in DOMAIN helps' : ~Odd(helps'[i])
      PROVE  QuoteInv'
  BY <1>1, <1>3 DEF QuoteInv, Quoting, Odd, QuotesOf
<1>4. ASSUME NEW c \in {Space, Quote, NewLine} \cup {Flag(p) : p \in Partial}, Type(c)
      PROVE  QuoteInv'
  <2>1. /\ text' = Append(text, c) /\ quoted' = (quoted # (c = Quote))
        /\ UNCHANGED <<helps, cmd, broken, overwrote>>
    BY <1>4 DEF Type
  <2>2. c \in Letter
    BY DEF Letter
  <2>3. /\ text' \in Texts /\ Len(text') = Len(text) + 1 /\ text'[Len(text')] = c
        /\ \A i \in 1 .. Len(text) : text'[i] = text[i]
    BY <1>2, <2>1, <2>2, AppendIs DEF Texts
  <2>4. Odd(text') <=> ~(Odd(text) <=> c = Quote)
    BY <1>2, <2>3, OneMore
  <2>5. quoted' <=> ~(quoted <=> c = Quote)
    BY <1>2, <2>1
  <2>6. QED
    BY <1>1, <1>3, <2>1, <2>4, <2>5 DEF Quoting
<1>5. ASSUME NEW a \in shown, Follow(a) PROVE QuoteInv'
  <2>1. text' = Append(text, a) /\ UNCHANGED <<quoted, helps, cmd, broken, overwrote>>
    BY <1>5 DEF Follow, page
  <2>2. a \in Letter /\ a # Quote
    BY <1>1, LettersArePlain DEF PageType, Plain
  <2>3. /\ text' \in Texts /\ Len(text') = Len(text) + 1 /\ text'[Len(text')] = a
        /\ \A i \in 1 .. Len(text) : text'[i] = text[i]
    BY <1>2, <2>1, <2>2, AppendIs DEF Texts
  <2>4. Odd(text') <=> Odd(text)
    BY <1>2, <2>2, <2>3, OneMore
  <2>5. QED
    BY <1>1, <1>3, <2>1, <2>4 DEF Quoting
<1>6. CASE Backspace
  <2>1. /\ text # <<>> /\ text' = Front(text) /\ quoted' = (quoted # (Last(text) = Quote))
        /\ UNCHANGED <<helps, cmd, broken, overwrote>>
    BY <1>6 DEF Backspace
  <2>2. /\ text' \in Texts /\ Len(text) = Len(text') + 1 /\ text[Len(text)] = Last(text)
        /\ \A i \in 1 .. Len(text') : text[i] = text'[i]
    <3>1. text \in Seq(Letter)
      BY <1>2 DEF Texts
    <3>2. /\ Front(text) \in Seq(Letter) /\ Len(Front(text)) = Len(text) - 1
          /\ Len(text) \in Nat \ {0} /\ Last(text) = text[Len(text)]
          /\ \A i \in 1 .. Len(text) - 1 : Front(text)[i] = text[i]
      BY <2>1, <3>1, FrontIs
    <3>3. QED
      BY <2>1, <3>2 DEF Texts
  <2>3. Odd(text) <=> ~(Odd(text') <=> Last(text) = Quote)
    BY <1>2, <2>2, OneMore
  <2>4. quoted' <=> ~(quoted <=> Last(text) = Quote)
    BY <1>2, <2>1
  <2>5. QED
    BY <1>1, <1>3, <2>1, <2>3, <2>4 DEF Quoting
<1>7. CASE Tab
  <2>1. /\ ~broken /\ ~quoted /\ helps' = Append(helps, text)
        /\ UNCHANGED <<text, quoted, cmd, broken, overwrote>>
    BY <1>7 DEF Tab, input, page
  <2>2. \A i \in DOMAIN helps' : helps'[i] = text \/ (i \in DOMAIN helps /\ helps'[i] = helps[i])
    BY <1>2, <2>1, AppendIs
  <2>3. QED
    BY <1>1, <1>3, <2>1, <2>2 DEF Quoting
<1>8. CASE Enter
  <2>1. Entered(text) /\ ~broken /\ ~quoted /\ UNCHANGED <<text, quoted, helps, overwrote>>
    BY <1>8 DEF Enter, input
  <2>2. CASE overwrote
    BY <1>3, <2>1, <2>2
  <2>3. CASE ~overwrote
    <3>1. ~Odd(text)
      BY <1>1, <2>1, <2>3 DEF Quoting
    <3>2. ~Odd(cmd') /\ (broken' => cmd' = <<CmdHeight>>)
      BY <2>1, <3>1, RenderThrows DEF Entered
    <3>3. QED
      BY <1>1, <1>3, <2>1, <3>2 DEF Quoting
  <2>4. QED
    BY <2>2, <2>3
<1>9. ASSUME NEW i \in DOMAIN helps, HelpAnswers(i) PROVE QuoteInv'
  <2>1. /\ \A k \in DOMAIN helps' : \E j \in DOMAIN helps : helps'[k] = helps[j]
        /\ \/ UNCHANGED <<page, text, overwrote>>
           \/ /\ text' \in Texts /\ (text' = helps[i] \/ text' \in Seq(Plain))
              /\ overwrote' = (overwrote \/ text # helps[i])
              /\ \E c \in Texts : c \in {cmd, text'} /\ Render(c, cache)
        /\ UNCHANGED quoted /\ ~broken
    BY <1>1, <1>9, HelpArrives
  <2>2. CASE overwrote'
    BY <1>1, <2>2 DEF QuoteInv, Quoting
  <2>3. CASE ~overwrote'
    <3>1. ~overwrote /\ UNCHANGED overwrote
      BY <1>1, <2>1, <2>3 DEF PageType
    <3>2. (quoted <=> Odd(text)) /\ ~Odd(cmd) /\ \A k \in DOMAIN helps : ~Odd(helps[k])
      BY <1>1, <3>1 DEF Quoting
    <3>3. \A k \in DOMAIN helps' : ~Odd(helps'[k])
      BY <2>1, <3>2
    <3>4. CASE UNCHANGED <<page, text>>
      BY <1>3, <2>1, <3>1, <3>2, <3>3, <3>4 DEF page
    <3>5. CASE ~UNCHANGED <<page, text>>
      <4>1. /\ text = helps[i] /\ (text' = helps[i] \/ text' \in Seq(Plain))
            /\ \E c \in Texts : c \in {cmd, text'} /\ Render(c, cache)
        BY <2>1, <2>3, <3>5
      <4>2. ~Odd(text) /\ ~Odd(text')
        BY <3>2, <4>1, NoneIsEven
      <4>3. ~Odd(cmd') /\ (broken' => cmd' = <<CmdHeight>>)
        BY <2>1, <3>2, <4>1, <4>2, RenderThrows
      <4>4. QED
        BY <1>3, <2>1, <3>1, <3>2, <3>3, <4>2, <4>3
    <3>6. QED
      BY <3>4, <3>5
  <2>4. QED
    BY <2>2, <2>3
<1>10. ASSUME NEW i \in DOMAIN fetches, Answer(i) PROVE QuoteInv'
  <2>1. /\ UNCHANGED <<text, quoted, helps, overwrote>> /\ ~broken
        /\ UNCHANGED <<cmd, broken>> \/ \E ch : Render(cmd, ch)
    BY <1>10 DEF Answer, input
  <2>2. overwrote \/ (~Odd(cmd') /\ (broken' => cmd' = <<CmdHeight>>))
    BY <1>1, <2>1, RenderThrows DEF Quoting
  <2>3. QED
    BY <1>1, <1>3, <2>1, <2>2 DEF Quoting
<1>11. ASSUME NEW i \in DOMAIN fetches, Refused(i) PROVE QuoteInv'
  <2>1. UNCHANGED <<text, quoted, cmd, broken, overwrote>> /\ helps' = <<>>
    BY <1>11 DEF Refused, input, page
  <2>2. DOMAIN helps' = {}
    BY <2>1
  <2>3. QED
    BY <1>1, <1>3, <2>1, <2>2 DEF Quoting
<1>12. CASE UNCHANGED vars
  <2>1. UNCHANGED <<text, quoted, helps, cmd, broken, overwrote>>
    BY <1>12 DEF vars
  <2>2. QED
    BY <1>1, <1>3, <2>1 DEF Quoting
<1>13. QED
  BY <1>4, <1>5, <1>6, <1>7, <1>8, <1>9, <1>10, <1>11, <1>12 DEF Next

\* The flag agrees with the quotes of the text, and the page stays up unless its
\* command is cmdHeight (App.tsx:179-196), until a completion comes late and
\* replaces what was typed (App.tsx:222): the texts that are entered or completed
\* have their quotes closed, so none of them is the flag's key.
THEOREM FlagAgrees == Spec => []QuotesAgree
<1>1. Init => QuoteInv
  <2> SUFFICES ASSUME Init PROVE QuoteInv
    OBVIOUS
  <2>1. text = <<>> /\ quoted = FALSE /\ broken = FALSE /\ helps = <<>> /\ cmd = <<>>
    BY DEF Init
  <2>2. QED
    BY <2>1, PageTypeInit, NoneIsEven DEF QuoteInv, Quoting
<1>2. QuoteInv => QuotesAgree
  <2> SUFFICES ASSUME QuoteInv PROVE QuotesAgree
    OBVIOUS
  <2>1. quoted \in BOOLEAN /\ Quoting
    BY DEF QuoteInv, PageType
  <2>2. QED
    BY <2>1 DEF Quoting, QuotesAgree, Odd, QuotesOf
<1>3. QED
  BY <1>1, <1>2, QuotingStep, PTL DEF Spec

-----------------------------------------------------------------------------
(***************************************************************************)
(* A command whose every argument was suggested                            *)
(***************************************************************************)
Options == {"--dev-name", "set", "get", "--pin", "--val", "--dry-run", "none"}

\* The pins that are left after some arguments.
Left(args) == {Pin(p) : p \in {q \in Pins : Pin(q) \notin Range(args)}}

LEMMA GuideIs ==
  ASSUME NEW args
  PROVE  LET name == ArgNeedHelp(args).name
             set  == Has(args, "set")
         IN  /\ name = " " => Guide(args) = {Arg("--dev-name", d) : d \in Devices}
             /\ name = "--dev-name" => Guide(args) = {Flag("set"), Flag("get")}
             /\ name = "set" => Guide(args) = Left(args)
             /\ name = "--pin" =>
                  Guide(args) = IF set THEN {Val(v) : v \in Values} ELSE {Flag("--dry-run")}
             /\ name = "--val" =>
                  Guide(args) = IF set THEN Left(args) \cup {Flag("--dry-run")} ELSE None
             /\ name = "get" => Guide(args) = Left(args) \cup {Flag("--dry-run")}
             /\ name \in {"--dry-run", "none"} => Guide(args) = None
<1> DEFINE name == ArgNeedHelp(args).name
           set  == Has(args, "set")
           devs == {Arg("--dev-name", d) : d \in Devices}
           vals == IF set THEN {Val(v) : v \in Values} ELSE {Flag("--dry-run")}
           more == IF set THEN Left(args) \cup {Flag("--dry-run")} ELSE None
           both == Left(args) \cup {Flag("--dry-run")}
           first == {Flag("set"), Flag("get")}
<1>1. Guide(args) = CASE name = " "          -> devs
                      [] name = "--dev-name" -> first
                      [] name = "set"        -> Left(args)
                      [] name = "--pin"      -> vals
                      [] name = "--val"      -> more
                      [] name = "get"        -> both
                      [] OTHER               -> None
  BY DEF Guide, Left
<1>2. /\ " " # "--dev-name" /\ " " # "set" /\ " " # "--pin" /\ " " # "--val" /\ " " # "get"
      /\ "--dev-name" # "set" /\ "--dev-name" # "--pin" /\ "--dev-name" # "--val" /\ "--dev-name" # "get"
      /\ "set" # "--pin" /\ "set" # "--val" /\ "set" # "get"
      /\ "--pin" # "--val" /\ "--pin" # "get" /\ "--val" # "get"
  OBVIOUS
<1>3. ASSUME name \in {"--dry-run", "none"}
      PROVE  /\ name # " " /\ name # "--dev-name" /\ name # "set" /\ name # "--pin"
             /\ name # "--val" /\ name # "get"
  BY <1>3
<1> HIDE DEF name, set, devs, vals, more, both, first
<1>4. name = " " => Guide(args) = devs
  BY <1>1, <1>2, Zenon
<1>5. name = "--dev-name" => Guide(args) = first
  BY <1>1, <1>2, Zenon
<1>6. name = "set" => Guide(args) = Left(args)
  BY <1>1, <1>2, Zenon
<1>7. name = "--pin" => Guide(args) = vals
  BY <1>1, <1>2, Zenon
<1>8. name = "--val" => Guide(args) = more
  BY <1>1, <1>2, Zenon
<1>9. name = "get" => Guide(args) = both
  BY <1>1, <1>2, Zenon
<1>10. name \in {"--dry-run", "none"} => Guide(args) = None
  BY <1>1, <1>3, Zenon
<1>11. QED
  BY <1>4, <1>5, <1>6, <1>7, <1>8, <1>9, <1>10 DEF name, set, devs, vals, more, both, first

\* What a prefix of three letters is.
LEMMA FirstThree ==
  ASSUME NEW S, NEW s, \A i \in 1 .. 3 : s[i] \in S
  PROVE  \A i \in 1 .. 3 : SubSeq(s, 1, 3)[i] = s[i]
<1>1. 1 \in Int /\ 3 \in Int
  OBVIOUS
<1>2. \A i \in 1 .. 3 - 1 + 1 : SubSeq(s, 1, 3)[i] = s[1 + i - 1]
  BY <1>1, SubSeqProperties, SMTT(60)
<1>3. QED
  BY <1>2

\* Below select it is select that suggests.
LEMMA SelectHelps ==
  ASSUME NEW S, NEW args \in Seq(S), IsPrefix(Select, args)
  PROVE  Help(args) = Guide(Rest(Select, args))
<1>1. Len(args) >= 3 /\ args[1] = Flag("dev") /\ args[2] = Flag("ctrl") /\ args[3] = Flag("select")
  <2>1. Len(Select) = 3 /\ SubSeq(Select, 1, 3) = SubSeq(args, 1, 3) /\ 3 <= Len(args)
    BY DEF IsPrefix, Select
  <2>2. \A k \in 1 .. 3 : SubSeq(args, 1, 3)[k] = args[k] /\ SubSeq(Select, 1, 3)[k] = Select[k]
    <3>1. ASSUME NEW k \in 1 .. 3 PROVE SubSeq(args, 1, 3)[k] = args[k]
      <4>1. \A i \in 1 .. 3 : args[i] \in S
        BY <2>1
      <4>2. QED
        BY <4>1, FirstThree
    <3>2. Select \in Seq({Flag("dev"), Flag("ctrl"), Flag("select")})
      BY DEF Select
    <3>3. \A k \in 1 .. 3 : SubSeq(Select, 1, 3)[k] = Select[k]
      BY <2>1, <3>2
    <3>4. QED
      BY <3>1, <3>3
  <2>3. args[1] = Select[1] /\ args[2] = Select[2] /\ args[3] = Select[3]
    BY <2>1, <2>2
  <2>4. QED
    BY <2>1, <2>3 DEF Select
<1>2. Flag("ping") # Flag("dev") /\ Flag("get") # Flag("ctrl")
  BY DEF Flag, Arg
<1>3. ~IsPrefix(<<Flag("ping")>>, args)
  <2> DEFINE p == <<Flag("ping")>>
  <2>1. Len(p) = 1 /\ SubSeq(p, 1, 1)[1] = Flag("ping") /\ SubSeq(args, 1, 1)[1] = args[1]
    BY <1>1
  <2>2. QED
    BY <1>1, <1>2, <2>1 DEF IsPrefix
<1>4. ~IsPrefix(<<Flag("dev"), Flag("get"), Flag("all")>>, args)
  <2> DEFINE p == <<Flag("dev"), Flag("get"), Flag("all")>>
  <2>1. Len(p) = 3 /\ SubSeq(p, 1, 3)[2] = Flag("get") /\ SubSeq(args, 1, 3)[2] = args[2]
    BY <1>1
  <2>2. QED
    BY <1>1, <1>2, <2>1 DEF IsPrefix
<1>5. Executor(args) = {Select}
  BY <1>3, <1>4 DEF Executor, Executors, Select
<1>6. QED
  BY <1>5 DEF Help, CanBeCalledWithHelp

\* The arguments of select, each suggested for the ones before it.
Followed(given) ==
  \A i \in 1 .. Len(given) : given[i] \in Guide(SubSeq(given, 1, i - 1))

LEMMA RestIsFollowed ==
  ASSUME NEW S, NEW args \in Seq(S), Suggested(args), IsPrefix(Select, args)
  PROVE  Rest(Select, args) \in Seq(S) /\ Followed(Rest(Select, args))
<1> DEFINE given == Rest(Select, args)
<1>1. Len(args) \in Nat /\ Len(args) >= 3 /\ Len(Select) = 3 /\ DOMAIN args = 1 .. Len(args)
  BY DEF IsPrefix, Select
<1>2. /\ given \in Seq(S) /\ Len(given) = Len(args) - 3
      /\ \A i \in 1 .. Len(args) - 3 : given[i] = args[i + 3]
  <2>1. given = SubSeq(args, 4, Len(args))
    BY <1>1 DEF Rest
  <2>2. QED
    BY <1>1, <2>1
<1> HIDE DEF given
<1>3. ASSUME NEW i \in 1 .. Len(given) PROVE given[i] \in Guide(SubSeq(given, 1, i - 1))
  <2> DEFINE some == SubSeq(args, 1, i + 2)
  <2>1. i + 3 \in 1 .. Len(args) /\ i \in Nat /\ i + 2 \in 0 .. Len(args)
    BY <1>1, <1>2
  <2>2. args[i + 3] \in Help(some)
    <3>1. args[i + 3] \in Help(SubSeq(args, 1, (i + 3) - 1))
      BY <1>1, <2>1 DEF Suggested
    <3>2. (i + 3) - 1 = i + 2
      BY <2>1
    <3>3. QED
      BY <3>1, <3>2
  <2>3. /\ some \in Seq(S) /\ Len(some) = i + 2
        /\ \A k \in 1 .. i + 2 : some[k] = args[k]
    BY <1>1, <2>1
  <2> HIDE DEF some
  <2>4. IsPrefix(Select, some)
    <3>1. SubSeq(some, 1, 3) = SubSeq(args, 1, 3)
      BY <1>1, <2>1, <2>3
    <3>2. QED
      BY <1>1, <2>1, <2>3, <3>1 DEF IsPrefix
  <2>5. Rest(Select, some) = SubSeq(given, 1, i - 1)
    <3>1. Rest(Select, some) = SubSeq(some, 4, i + 2)
      BY <1>1, <2>3 DEF Rest
    <3> DEFINE u == SubSeq(some, 4, i + 2)
               v == SubSeq(given, 1, i - 1)
    <3>2. u \in Seq(S) /\ Len(u) = i - 1 /\ \A k \in 1 .. i - 1 : u[k] = some[k + 3]
      BY <2>1, <2>3
    <3>3. v \in Seq(S) /\ Len(v) = i - 1 /\ \A k \in 1 .. i - 1 : v[k] = given[k]
      BY <1>2, <2>1
    <3>4. \A k \in 1 .. i - 1 : given[k] = some[k + 3]
      <4>1. \A k \in 1 .. i - 1 : k \in 1 .. Len(args) - 3 /\ k + 3 \in 1 .. i + 2
        BY <1>1, <2>1
      <4>2. QED
        BY <1>2, <2>3, <4>1
    <3> HIDE DEF u, v
    <3>5. u = v
      BY <3>2, <3>3, <3>4, SeqEqual
    <3>6. QED
      BY <3>1, <3>5 DEF u, v
  <2>6. QED
    BY <1>2, <2>1, <2>2, <2>3, <2>4, <2>5, SelectHelps
<1>4. QED
  BY <1>2, <1>3 DEF Followed, given

\* What comes after what: the device first, then set or get, and after set a pin that
\* is not there yet and its value, in turn.
Turns(given) ==
  \A i \in 1 .. Len(given) :
    /\ given[i].name \in Options
    /\ given[i].name = "--dev-name" <=> i = 1
    /\ given[i].name = "set" => i = 2 /\ given[i] = Flag("set")
    /\ given[i].name = "get" => i = 2
    /\ given[i].name = "--pin" =>
         /\ i > 2 /\ given[i - 1].name \in {"set", "get", "--val"}
         /\ \E p \in Pins : given[i] = Pin(p)
         /\ \A k \in 1 .. i - 1 : given[k] # given[i]
    /\ given[i].name = "--val" =>
         /\ i > 3 /\ given[i - 1].name = "--pin" /\ given[2].name = "set"
    /\ i > 1 /\ given[i - 1].name = "--pin" /\ given[2].name = "set" => given[i].name = "--val"

LEMMA FollowedTurns ==
  ASSUME NEW S, NEW given \in Seq(S), Followed(given)
  PROVE  Turns(given)
<1> DEFINE n == Len(given)
           before(i) == SubSeq(given, 1, i - 1)
<1>1. n \in Nat /\ DOMAIN given = 1 .. n
  OBVIOUS
<1>2. ASSUME NEW i \in 1 .. n
      PROVE  /\ Len(before(i)) = i - 1 /\ before(i) \in Seq(S)
             /\ \A k \in 1 .. i - 1 : before(i)[k] = given[k]
             /\ Range(before(i)) = {given[k] : k \in 1 .. i - 1}
             /\ i = 1 => ArgNeedHelp(before(i)) = Flag(" ")
             /\ i > 1 => ArgNeedHelp(before(i)) = given[i - 1]
  <2>1. /\ Len(before(i)) = i - 1 /\ before(i) \in Seq(S)
        /\ \A k \in 1 .. i - 1 : before(i)[k] = given[k]
    BY <1>1
  <2> HIDE DEF before
  <2>2. DOMAIN before(i) = 1 .. i - 1
    BY <1>1, <2>1
  <2>3. Range(before(i)) = {given[k] : k \in 1 .. i - 1}
    BY <2>1, <2>2 DEF Range
  <2>4. i = 1 => ArgNeedHelp(before(i)) = Flag(" ")
    BY <2>1 DEF ArgNeedHelp
  <2>5. ASSUME i > 1 PROVE ArgNeedHelp(before(i)) = given[i - 1]
    <3>1. before(i) # <<>> /\ i - 1 \in 1 .. i - 1
      BY <1>1, <2>1, <2>5
    <3>2. ArgNeedHelp(before(i)) = before(i)[Len(before(i))]
      BY <3>1 DEF ArgNeedHelp
    <3>3. QED
      BY <2>1, <3>1, <3>2
  <2>6. QED
    BY <2>1, <2>3, <2>4, <2>5
<1>3. \A i \in 1 .. n : given[i] \in Guide(before(i))
  BY DEF Followed
<1> HIDE DEF before, n
<1> DEFINE name(i) == given[i].name
           set(i) == \E k \in 1 .. i - 1 : given[k] = Flag("set")
<1>4. ASSUME NEW i \in 1 .. n
      PROVE  /\ i = 1 => \E d \in Devices : given[i] = Arg("--dev-name", d)
             /\ i > 1 /\ name(i - 1) = "--dev-name" => given[i] \in {Flag("set"), Flag("get")}
             /\ i > 1 /\ name(i - 1) = "set" => given[i] \in Left(before(i))
             /\ i > 1 /\ name(i - 1) = "--pin" =>
                  given[i] \in IF set(i) THEN {Val(v) : v \in Values} ELSE {Flag("--dry-run")}
             /\ i > 1 /\ name(i - 1) \in {"--val", "get"} =>
                  given[i] \in Left(before(i)) \cup {Flag("--dry-run"), Flag("none")}
             /\ i > 1 /\ name(i - 1) \in {"--dry-run", "none"} => given[i] = Flag("none")
  <2> DEFINE b == before(i)
  <2>1. Has(b, "set") <=> set(i)
    BY <1>2 DEF Has
  <2>2. LET nm == ArgNeedHelp(b).name
        IN  /\ nm = " " => Guide(b) = {Arg("--dev-name", d) : d \in Devices}
            /\ nm = "--dev-name" => Guide(b) = {Flag("set"), Flag("get")}
            /\ nm = "set" => Guide(b) = Left(b)
            /\ nm = "--pin" =>
                 Guide(b) = IF Has(b, "set") THEN {Val(v) : v \in Values} ELSE {Flag("--dry-run")}
            /\ nm = "--val" =>
                 Guide(b) = IF Has(b, "set") THEN Left(b) \cup {Flag("--dry-run")} ELSE None
            /\ nm = "get" => Guide(b) = Left(b) \cup {Flag("--dry-run")}
            /\ nm \in {"--dry-run", "none"} => Guide(b) = None
    BY GuideIs
  <2>3. given[i] \in Guide(b)
    BY <1>3
  <2>4. None = {Flag("none")}
    BY DEF None
  <2>5. i = 1 => ArgNeedHelp(b).name = " "
    <3>1. Flag(" ").name = " "
      BY DEF Flag, Arg
    <3>2. QED
      BY <1>2, <3>1
  <2>6. i > 1 => ArgNeedHelp(b).name = name(i - 1)
    BY <1>2
  <2> HIDE DEF b, set, name
  <2>7. QED
    BY <2>1, <2>2, <2>3, <2>4, <2>5, <2>6 DEF b
<1>5. ASSUME NEW i \in 1 .. n, given[i] \in Left(before(i))
      PROVE  /\ \E p \in Pins : given[i] = Pin(p)
             /\ \A k \in 1 .. i - 1 : given[k] # given[i]
  BY <1>2, <1>5 DEF Left
<1>6. /\ \A d : Arg("--dev-name", d).name = "--dev-name"
      /\ \A p : Pin(p).name = "--pin"
      /\ \A v : Val(v).name = "--val"
      /\ \A f : Flag(f).name = f
  BY DEF Arg, Pin, Val, Flag
<1>7. \A i \in 1 .. n : name(i) \in Options
  <2> DEFINE P == {i \in 0 .. n : i = 0 \/ name(i) \in Options}
  <2>1. ASSUME NEW i \in 1 .. n, i - 1 \in P PROVE i \in P
    <3>1. CASE i = 1
      <4> HIDE DEF set
      <4>1. PICK d \in Devices : given[i] = Arg("--dev-name", d)
        BY <1>4, <3>1
      <4>2. QED
        BY <1>6, <4>1 DEF Options
    <3>2. CASE i > 1
      <4>1. name(i - 1) \in Options
        BY <2>1, <3>2
      <4> HIDE DEF set
      <4>2. given[i] \in {Flag("set"), Flag("get"), Flag("--dry-run"), Flag("none")}
            \/ given[i] \in Left(before(i)) \/ given[i] \in {Val(v) : v \in Values}
        BY <1>4, <3>2, <4>1 DEF Options
      <4>3. QED
        BY <1>5, <1>6, <4>2 DEF Options
    <3>3. QED
      BY <1>1, <3>1, <3>2
  <2>2. 0 \in P
    BY <1>1 DEF n
  <2> HIDE DEF P
  <2>3. 0 .. n \subseteq P
    BY <1>1, <2>1, <2>2, Reaches DEF n
  <2>4. QED
    BY <2>3 DEF P
<1>8. \A i \in 1 .. n : name(i) = "--dev-name" <=> i = 1
  <2>1. ASSUME NEW i \in 1 .. n, i > 1 PROVE name(i) # "--dev-name"
    <3>1. name(i - 1) \in Options
      BY <1>1, <1>7, <2>1
    <3> HIDE DEF set
    <3>2. given[i] \in {Flag("set"), Flag("get"), Flag("--dry-run"), Flag("none")}
            \/ given[i] \in Left(before(i)) \/ given[i] \in {Val(v) : v \in Values}
      BY <1>4, <2>1, <3>1 DEF Options
    <3>3. QED
      BY <1>5, <1>6, <3>2
  <2>2. \A i \in 1 .. n : i = 1 => name(i) = "--dev-name"
    BY <1>4, <1>6
  <2>3. QED
    BY <1>1, <2>1, <2>2
<1>9. ASSUME NEW i \in 1 .. n, name(i) \in {"set", "get"} PROVE i = 2 /\ given[i] = Flag(name(i))
  <2>1. i > 1
    BY <1>1, <1>8, <1>9
  <2>2. name(i - 1) \in Options
    BY <1>1, <1>7, <2>1
  <2> HIDE DEF set
  <2>3. name(i - 1) = "--dev-name"
    <3> SUFFICES ASSUME name(i - 1) # "--dev-name" PROVE FALSE
      OBVIOUS
    <3>1. given[i] \in {Flag("--dry-run"), Flag("none")}
            \/ given[i] \in Left(before(i)) \/ given[i] \in {Val(v) : v \in Values}
      BY <1>4, <2>1, <2>2 DEF Options
    <3>2. QED
      BY <1>5, <1>6, <1>9, <3>1
  <2>4. given[i] \in {Flag("set"), Flag("get")}
    BY <1>4, <2>1, <2>3
  <2>5. i - 1 = 1
    BY <1>1, <1>8, <2>1, <2>3
  <2>6. QED
    BY <1>6, <2>1, <2>4, <2>5
<1>10. ASSUME NEW i \in 1 .. n, i > 2 PROVE set(i) <=> name(2) = "set"
  <2>1. 2 \in 1 .. n /\ 2 \in 1 .. i - 1
    BY <1>1, <1>10
  <2>2. ASSUME set(i) PROVE name(2) = "set"
    <3>1. PICK k \in 1 .. i - 1 : given[k] = Flag("set")
      BY <2>2
    <3>2. k \in 1 .. n /\ name(k) = "set"
      BY <1>1, <1>6, <3>1
    <3>3. k = 2
      BY <1>9, <3>2
    <3>4. QED
      BY <3>2, <3>3
  <2>3. ASSUME name(2) = "set" PROVE set(i)
    BY <1>9, <2>1, <2>3
  <2>4. QED
    BY <2>2, <2>3
<1>11. ASSUME NEW i \in 1 .. n, name(i) = "--pin"
       PROVE  /\ i > 2 /\ name(i - 1) \in {"set", "get", "--val"}
              /\ \E p \in Pins : given[i] = Pin(p)
              /\ \A k \in 1 .. i - 1 : given[k] # given[i]
  <2>1. i > 1
    BY <1>1, <1>8, <1>11
  <2>2. name(i - 1) \in Options
    BY <1>1, <1>7, <2>1
  <2> HIDE DEF set
  <2>3. name(i - 1) \in {"set", "get", "--val"} /\ given[i] \in Left(before(i))
    BY <1>4, <1>6, <1>11, <2>1, <2>2 DEF Options
  <2>4. i - 1 # 1
    BY <1>1, <1>8, <2>1, <2>3
  <2>5. QED
    BY <1>5, <2>1, <2>3, <2>4
<1>12. ASSUME NEW i \in 1 .. n, name(i) = "--val"
       PROVE  i > 3 /\ name(i - 1) = "--pin" /\ name(2) = "set"
  <2>1. i > 1
    BY <1>1, <1>8, <1>12
  <2>2. name(i - 1) \in Options
    BY <1>1, <1>7, <2>1
  <2>3. name(i - 1) = "--pin" /\ set(i)
    <3> HIDE DEF set
    <3>1. QED
      BY <1>4, <1>5, <1>6, <1>12, <2>1, <2>2 DEF Options
  <2>4. i - 1 > 2
    BY <1>1, <1>11, <2>1, <2>3
  <2>5. QED
    BY <1>10, <2>3, <2>4
<1>13. ASSUME NEW i \in 1 .. n, i > 1, name(i - 1) = "--pin", name(2) = "set"
       PROVE  name(i) = "--val"
  <2>1. i - 1 > 2
    BY <1>1, <1>11, <1>13
  <2>2. set(i)
    BY <1>10, <1>13, <2>1
  <2> HIDE DEF set
  <2>3. QED
    BY <1>4, <1>6, <1>13, <2>2
<1>14. QED
  BY <1>7, <1>8, <1>9, <1>11, <1>12, <1>13 DEF Turns, n

\* The values of an option, one after another.
Lists(f, name, given) ==
  /\ f[0] = <<>>
  /\ \A k \in 1 .. Len(given) :
       f[k] = IF given[k].name = name THEN Append(f[k - 1], given[k].value) ELSE f[k - 1]

LEMMA ListedIs ==
  ASSUME NEW S, NEW given \in Seq(S), NEW name
  PROVE  \E f : /\ f \in [0 .. Len(given) -> Seq({a.value : a \in S})]
                /\ Lists(f, name, given) /\ ListValueOf(name, given) = f[Len(given)]
<1> DEFINE n == Len(given)
           V == {a.value : a \in S}
           next(t, a) == IF a.name = name THEN Append(t, a.value) ELSE t
           g == [x \in (1 .. n) \X Seq(V) |-> next(x[2], given[x[1]])]
           step(f) == [k \in 0 .. n |->
                         IF k = 0 THEN <<>>
                         ELSE IF given[k].name = name THEN Append(f[k - 1], given[k].value)
                         ELSE f[k - 1]]
           values == CHOOSE f : f = step(f)
<1>1. n \in Nat /\ <<>> \in Seq(V) /\ \A k \in 1 .. n : given[k] \in S
  OBVIOUS
<1>2. ASSUME NEW t \in Seq(V), NEW k \in 1 .. n PROVE next(t, given[k]) \in Seq(V)
  <2>1. given[k].value \in V
    BY <1>1
  <2> HIDE DEF V
  <2>2. QED
    BY <2>1
<1>3. g \in [(1 .. n) \X Seq(V) -> Seq(V)]
  <2> HIDE DEF n, V, next
  <2>1. QED
    BY <1>2
<1>4. PICK f0 \in [0 .. n -> Seq(V)] : Follows(f0, g, <<>>, n)
  <2> HIDE DEF n, V, g
  <2>1. QED
    BY <1>1, <1>3, Iterated
<1> HIDE DEF n, V
<1>5. ASSUME NEW k \in 1 .. n PROVE f0[k] = next(f0[k - 1], given[k])
  <2>1. f0[k - 1] \in Seq(V)
    BY <1>1, <1>4
  <2>2. g[<<k, f0[k - 1]>>] = next(f0[k - 1], given[k])
    <3> HIDE DEF next
    <3>1. QED
      BY <2>1
  <2>3. QED
    BY <1>4, <2>2 DEF Follows
<1>6. f0 = step(f0)
  <2>1. ASSUME NEW k \in 0 .. n
        PROVE  f0[k] = IF k = 0 THEN <<>>
                       ELSE IF given[k].name = name THEN Append(f0[k - 1], given[k].value)
                       ELSE f0[k - 1]
    <3>1. CASE k = 0
      BY <1>4, <3>1 DEF Follows
    <3>2. CASE k # 0
      <4>1. k \in 1 .. n
        BY <1>1, <3>2
      <4>2. QED
        BY <1>5, <3>2, <4>1
    <3>3. QED
      BY <3>1, <3>2
  <2>2. QED
    BY <1>4, <2>1
<1>7. values = step(values)
  <2> HIDE DEF step
  <2>1. QED
    BY <1>6
<1> HIDE DEF values
<1>8. values[0] = <<>> /\ DOMAIN values = 0 .. n
  BY <1>1, <1>7
<1>9. ASSUME NEW k \in 1 .. n PROVE values[k] = next(values[k - 1], given[k])
  <2>1. k \in 0 .. n /\ k # 0
    BY <1>1
  <2>2. QED
    BY <1>7, <2>1
<1>10. \A k \in 0 .. n : values[k] \in Seq(V)
  <2> DEFINE P == {k \in 0 .. n : values[k] \in Seq(V)}
  <2> HIDE DEF next, step, g
  <2>1. 0 \in P
    <3>1. values[0] \in Seq(V)
      BY <1>8
    <3>2. QED
      BY <1>1, <3>1
  <2>2. ASSUME NEW k \in 1 .. n, k - 1 \in P PROVE k \in P
    <3>1. values[k - 1] \in Seq(V) /\ k \in 0 .. n
      BY <1>1, <2>2
    <3>2. next(values[k - 1], given[k]) \in Seq(V)
      BY <1>2, <3>1
    <3>3. QED
      BY <1>9, <3>1, <3>2
  <2> HIDE DEF P
  <2>3. 0 .. n \subseteq P
    BY <1>1, <2>1, <2>2, Reaches
  <2>4. QED
    BY <2>3 DEF P
<1>11. ListValueOf(name, given) = values[n]
  BY DEF ListValueOf, values, n
<1>12. values \in [0 .. n -> Seq(V)]
  <2>1. values = [k \in 0 .. n |-> values[k]]
    BY <1>1, <1>7
  <2> HIDE DEF step
  <2>2. QED
    BY <1>10, <2>1
<1>13. Lists(values, name, given)
  BY <1>8, <1>9 DEF Lists, n
<1>14. QED
  BY <1>11, <1>12, <1>13 DEF n, V

\* Taken apart, pins and values stay together: the i-th value came after the i-th pin.
LEMMA PairsAre ==
  ASSUME NEW S, NEW given \in Seq(S), Turns(given)
  PROVE  LET pins == ListValueOf("--pin", given)
             vals == ListValueOf("--val", given)
         IN  /\ IsInjective(pins)
             /\ \A i \in 1 .. Len(given) : given[i].name = "--val" =>
                  \E k \in DOMAIN pins \cap DOMAIN vals :
                    pins[k] = given[i - 1].value /\ vals[k] = given[i].value
<1> DEFINE n == Len(given)
           V == {a.value : a \in S}
           name(i) == given[i].name
<1>1. n \in Nat /\ \A i \in 1 .. n : given[i] \in S /\ given[i].value \in V
  OBVIOUS
<1> HIDE DEF V
<1>2. PICK p \in [0 .. n -> Seq(V)] :
        Lists(p, "--pin", given) /\ ListValueOf("--pin", given) = p[n]
  BY ListedIs DEF V
<1>3. PICK v \in [0 .. n -> Seq(V)] :
        Lists(v, "--val", given) /\ ListValueOf("--val", given) = v[n]
  BY ListedIs DEF V
<1> DEFINE Fresh(k) ==
             /\ \A i \in 1 .. Len(p[k]) : \E j \in 1 .. k : given[j] = Pin(p[k][i])
             /\ \A i, j \in 1 .. Len(p[k]) : p[k][i] = p[k][j] => i = j
           Even(k) ==
             IF k > 0 /\ name(k) = "--pin"
             THEN Len(p[k]) = Len(v[k]) + 1 /\ p[k][Len(p[k])] = given[k].value
             ELSE Len(p[k]) = Len(v[k])
           Paired(k) ==
             \A i \in 1 .. k : name(i) = "--val" =>
               \E j \in 1 .. Len(v[k]) :
                 j <= Len(p[k]) /\ p[k][j] = given[i - 1].value /\ v[k][j] = given[i].value
           P == {k \in 0 .. n : Fresh(k) /\ (name(2) = "set" => Even(k)) /\ Paired(k)}
<1> HIDE DEF n, Fresh, Even, Paired, P
<1>4. 0 \in P
  <2>1. p[0] = <<>> /\ v[0] = <<>> /\ 0 \in 0 .. n
    BY <1>1, <1>2, <1>3 DEF Lists
  <2>2. Fresh(0) /\ Even(0) /\ Paired(0)
    BY <2>1 DEF Fresh, Even, Paired
  <2>3. QED
    BY <2>1, <2>2 DEF P
<1>5. ASSUME NEW k \in 1 .. n, k - 1 \in P PROVE k \in P
  <2>1. /\ p[k - 1] \in Seq(V) /\ v[k - 1] \in Seq(V) /\ given[k].value \in V
        /\ Len(p[k - 1]) \in Nat /\ Len(v[k - 1]) \in Nat /\ k \in Nat /\ k - 1 \in 0 .. n
    BY <1>1, <1>2, <1>3
  <2>2. /\ Fresh(k - 1) /\ (name(2) = "set" => Even(k - 1)) /\ Paired(k - 1)
    BY <1>5 DEF P
  <2>3. /\ p[k] = IF name(k) = "--pin" THEN Append(p[k - 1], given[k].value) ELSE p[k - 1]
        /\ v[k] = IF name(k) = "--val" THEN Append(v[k - 1], given[k].value) ELSE v[k - 1]
    BY <1>2, <1>3 DEF Lists, n
  <2>4. /\ name(k) = "--pin" =>
             /\ k > 2 /\ name(k - 1) \in {"set", "get", "--val"}
             /\ \E q \in Pins : given[k] = Pin(q)
             /\ \A i \in 1 .. k - 1 : given[i] # given[k]
        /\ name(k) = "--val" => k > 3 /\ name(k - 1) = "--pin" /\ name(2) = "set"
        /\ k > 1 /\ name(k - 1) = "--pin" /\ name(2) = "set" => name(k) = "--val"
    BY DEF Turns, n
  <2>5. CASE name(k) = "--pin"
    <3>1. /\ p[k] = Append(p[k - 1], given[k].value) /\ v[k] = v[k - 1]
          /\ Len(p[k]) = Len(p[k - 1]) + 1 /\ p[k][Len(p[k])] = given[k].value
          /\ \A i \in 1 .. Len(p[k - 1]) : p[k][i] = p[k - 1][i]
      BY <2>1, <2>3, <2>5
    <3>2. given[k] = Pin(given[k].value)
      BY <2>4, <2>5 DEF Pin, Arg
    <3>3. Fresh(k)
      <4>1. \A i \in 1 .. Len(p[k]) : i \in 1 .. Len(p[k - 1]) \/ i = Len(p[k])
        BY <2>1, <3>1
      <4>2. ASSUME NEW i \in 1 .. Len(p[k]) PROVE \E j \in 1 .. k : given[j] = Pin(p[k][i])
        <5>1. CASE i \in 1 .. Len(p[k - 1])
          <6>1. PICK j \in 1 .. k - 1 : given[j] = Pin(p[k - 1][i])
            BY <2>2, <5>1 DEF Fresh
          <6>2. QED
            BY <2>1, <3>1, <5>1, <6>1
        <5>2. CASE i = Len(p[k])
          <6>1. p[k][i] = given[k].value /\ k \in 1 .. k
            BY <2>1, <3>1, <5>2
          <6>2. QED
            BY <3>2, <6>1
        <5>3. QED
          BY <4>1, <5>1, <5>2
      <4>3. ASSUME NEW i \in 1 .. Len(p[k - 1]) PROVE p[k][i] # given[k].value
        <5>1. PICK j \in 1 .. k - 1 : given[j] = Pin(p[k - 1][i])
          BY <2>2 DEF Fresh
        <5>2. given[j] # given[k]
          BY <2>4, <2>5
        <5>3. QED
          BY <3>1, <3>2, <5>1, <5>2
      <4>4. ASSUME NEW i \in 1 .. Len(p[k]), NEW j \in 1 .. Len(p[k]), p[k][i] = p[k][j] PROVE i = j
        BY <2>2, <3>1, <4>1, <4>3, <4>4 DEF Fresh
      <4>5. QED
        BY <4>2, <4>4 DEF Fresh
    <3>4. name(2) = "set" => Even(k)
      BY <2>1, <2>2, <2>4, <2>5, <3>1 DEF Even
    <3>5. Paired(k)
      <4>1. ASSUME NEW i \in 1 .. k, name(i) = "--val"
            PROVE  \E j \in 1 .. Len(v[k]) :
                     j <= Len(p[k]) /\ p[k][j] = given[i - 1].value /\ v[k][j] = given[i].value
        <5>1. i \in 1 .. k - 1
          BY <2>1, <2>5, <4>1
        <5>2. PICK j \in 1 .. Len(v[k - 1]) :
                j <= Len(p[k - 1]) /\ p[k - 1][j] = given[i - 1].value /\ v[k - 1][j] = given[i].value
          BY <2>2, <4>1, <5>1 DEF Paired
        <5>3. QED
          BY <2>1, <3>1, <5>2
      <4>2. QED
        BY <4>1 DEF Paired
    <3>6. QED
      BY <3>3, <3>4, <3>5 DEF P
  <2>6. CASE name(k) = "--val"
    <3>1. /\ v[k] = Append(v[k - 1], given[k].value) /\ p[k] = p[k - 1]
          /\ Len(v[k]) = Len(v[k - 1]) + 1 /\ v[k][Len(v[k])] = given[k].value
          /\ \A i \in 1 .. Len(v[k - 1]) : v[k][i] = v[k - 1][i]
      BY <2>1, <2>3, <2>6
    <3>2. Len(p[k]) = Len(v[k]) /\ p[k][Len(p[k])] = given[k - 1].value
      BY <2>1, <2>2, <2>4, <2>6, <3>1 DEF Even
    <3>3. Fresh(k)
      <4>1. \A i \in 1 .. Len(p[k]) : \E j \in 1 .. k : given[j] = Pin(p[k][i])
        <5>1. ASSUME NEW i \in 1 .. Len(p[k]) PROVE \E j \in 1 .. k : given[j] = Pin(p[k][i])
          <6>1. PICK j \in 1 .. k - 1 : given[j] = Pin(p[k][i])
            BY <2>2, <3>1 DEF Fresh
          <6>2. QED
            BY <2>1, <6>1
        <5>2. QED
          BY <5>1
      <4>2. QED
        BY <2>2, <3>1, <4>1 DEF Fresh
    <3>4. name(2) = "set" => Even(k)
      BY <2>6, <3>2 DEF Even
    <3>5. Paired(k)
      <4>1. ASSUME NEW i \in 1 .. k, name(i) = "--val"
            PROVE  \E j \in 1 .. Len(v[k]) :
                     j <= Len(p[k]) /\ p[k][j] = given[i - 1].value /\ v[k][j] = given[i].value
        <5>1. CASE i \in 1 .. k - 1
          <6>1. PICK j \in 1 .. Len(v[k - 1]) :
                  j <= Len(p[k - 1]) /\ p[k - 1][j] = given[i - 1].value /\ v[k - 1][j] = given[i].value
            BY <2>2, <4>1, <5>1 DEF Paired
          <6>2. QED
            BY <2>1, <3>1, <6>1
        <5>2. CASE i = k
          <6> DEFINE j == Len(v[k])
          <6>1. j \in 1 .. Len(v[k]) /\ j <= Len(p[k])
            BY <2>1, <3>1, <3>2
          <6>2. p[k][j] = given[i - 1].value /\ v[k][j] = given[i].value
            BY <3>1, <3>2, <5>2
          <6> HIDE DEF j
          <6>3. QED
            BY <6>1, <6>2
        <5>3. QED
          BY <2>1, <5>1, <5>2
      <4>2. QED
        BY <4>1 DEF Paired
    <3>6. QED
      BY <3>3, <3>4, <3>5 DEF P
  <2>7. CASE name(k) # "--pin" /\ name(k) # "--val"
    <3>1. p[k] = p[k - 1] /\ v[k] = v[k - 1]
      BY <2>3, <2>7
    <3>2. Fresh(k)
      <4>1. \A i \in 1 .. Len(p[k]) : \E j \in 1 .. k : given[j] = Pin(p[k][i])
        <5>1. ASSUME NEW i \in 1 .. Len(p[k]) PROVE \E j \in 1 .. k : given[j] = Pin(p[k][i])
          <6>1. PICK j \in 1 .. k - 1 : given[j] = Pin(p[k][i])
            BY <2>2, <3>1 DEF Fresh
          <6>2. QED
            BY <2>1, <6>1
        <5>2. QED
          BY <5>1
      <4>2. QED
        BY <2>2, <3>1, <4>1 DEF Fresh
    <3>3. name(2) = "set" => Even(k)
      BY <2>1, <2>2, <2>4, <2>7, <3>1 DEF Even
    <3>4. Paired(k)
      <4>1. ASSUME NEW i \in 1 .. k, name(i) = "--val" PROVE i \in 1 .. k - 1
        BY <2>1, <2>7, <4>1
      <4>2. QED
        BY <2>2, <3>1, <4>1 DEF Paired
    <3>5. QED
      BY <3>2, <3>3, <3>4 DEF P
  <2>8. QED
    BY <2>5, <2>6, <2>7
<1>6. n \in P
  <2>1. 0 .. n \subseteq P
    BY <1>1, <1>4, <1>5, Reaches
  <2>2. QED
    BY <1>1, <2>1
<1>7. DOMAIN p[n] = 1 .. Len(p[n]) /\ DOMAIN v[n] = 1 .. Len(v[n]) /\ Len(p[n]) \in Nat /\ Len(v[n]) \in Nat
  BY <1>1, <1>2, <1>3
<1>8. Fresh(n) /\ Paired(n)
  BY <1>6 DEF P
<1>9. IsInjective(p[n])
  BY <1>7, <1>8 DEF IsInjective, Fresh
<1>10. ASSUME NEW i \in 1 .. n, name(i) = "--val"
       PROVE  \E k \in DOMAIN p[n] \cap DOMAIN v[n] :
                p[n][k] = given[i - 1].value /\ v[n][k] = given[i].value
  <2>1. PICK j \in 1 .. Len(v[n]) :
          j <= Len(p[n]) /\ p[n][j] = given[i - 1].value /\ v[n][j] = given[i].value
    BY <1>8, <1>10 DEF Paired
  <2>2. QED
    BY <1>7, <2>1
<1>11. QED
  BY <1>2, <1>3, <1>9, <1>10 DEF n

\* A command whose every argument was suggested for the ones before it names each pin
\* once and pairs it with the value that follows it, for any devices, pins and values
\* and commands of any length (device.control.cmd.tree.ts:38).
THEOREM SuggestionsGuide == Spec => []Guided
<1>1. PageType => Guided
  <2> SUFFICES ASSUME PageType, Suggested(Args(text)), IsPrefix(Select, Args(text))
               PROVE  LET given == Rest(Select, Args(text))
                      IN  /\ IsInjective(ListValueOf("--pin", given))
                          /\ \A i \in DOMAIN given :
                               given[i].name = "--val" =>
                                 <<given[i - 1].value, given[i].value>> \in Range(Params(given))
    BY DEF Guided
  <2> DEFINE given == Rest(Select, Args(text))
             pins == ListValueOf("--pin", given)
             vals == ListValueOf("--val", given)
  <2>1. PICK S : Args(text) \in Seq(S)
    BY ArgsAre DEF PageType
  <2>2. given \in Seq(S) /\ Followed(given)
    BY <2>1, RestIsFollowed
  <2> HIDE DEF given
  <2>3. Turns(given)
    BY <2>2, FollowedTurns
  <2>4. /\ IsInjective(pins)
        /\ \A i \in 1 .. Len(given) : given[i].name = "--val" =>
             \E k \in DOMAIN pins \cap DOMAIN vals :
               pins[k] = given[i - 1].value /\ vals[k] = given[i].value
    BY <2>2, <2>3, PairsAre
  <2>5. ASSUME NEW i \in DOMAIN given, given[i].name = "--val"
        PROVE  <<given[i - 1].value, given[i].value>> \in Range(Params(given))
    <3>1. i \in 1 .. Len(given)
      BY <2>2
    <3>2. given[2] = Flag("set") /\ 2 \in DOMAIN given
      BY <2>2, <2>3, <2>5, <3>1 DEF Turns
    <3>3. Has(given, "set")
      BY <3>2 DEF Has, Range
    <3>4. PICK k \in DOMAIN pins \cap DOMAIN vals :
            pins[k] = given[i - 1].value /\ vals[k] = given[i].value
      BY <2>4, <2>5, <3>1
    <3>5. Params(given)[k] = <<pins[k], vals[k]>> /\ DOMAIN Params(given) = DOMAIN pins
      <4> DEFINE val == IF k \in DOMAIN vals THEN vals[k] ELSE ""
      <4>1. Params(given)[k] =
              CASE Has(given, "set") -> <<pins[k], val>>
                [] ~Has(given, "set") /\ Has(given, "get") -> <<pins[k]>>
                [] OTHER -> <<>>
        BY DEF Params
      <4>2. DOMAIN Params(given) = DOMAIN pins
        BY DEF Params
      <4>3. val = vals[k]
        OBVIOUS
      <4> HIDE DEF val, pins, vals
      <4>4. Params(given)[k] = <<pins[k], val>>
        BY <3>3, <4>1, Zenon
      <4>5. QED
        BY <4>2, <4>3, <4>4
    <3>6. QED
      BY <3>4, <3>5 DEF Range
  <2>6. QED
    BY <2>4, <2>5 DEF given
<1>2. PageInv => PageType
  BY DEF PageInv
<1>3. QED
  BY <1>1, <1>2, PageHolds, PTL
=============================================================================
