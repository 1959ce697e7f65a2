----------------------------- MODULE Serialized -----------------------------
(***************************************************************************)
(* How cmdCtrl of the command explorer writes the result of a command:     *)
(* serializeObject, which is recursive and does not know what it is given. *)
(* The objects may be shared, and may form cycles.                         *)
(*                                                                         *)
(* A graph gives each object, a number, its kind and its children, which   *)
(* are visited in their order.  A child is the property of a plain object, *)
(* the item of an array, or the value of a Map.  Of the text written, the  *)
(* model keeps what stands for each object.                                *)
(***************************************************************************)
EXTENDS Integers, Sequences, FiniteSets, SequencesExt

CONSTANTS Objects,   \* the objects: 1, where it begins, and others
          MaxDepth   \* bound: the depth at which the stack overflows

\* What the walk has come to so far; overflow: maximum call stack size exceeded.
Start == [circular |-> {}, written |-> <<>>, overflow |-> FALSE]

Children(g, o) == SetToSortSeq(g.children[o], LAMBDA x, y : x < y)

-----------------------------------------------------------------------------
\* Mutant of Recorded: arrays and Maps instead of plain objects.
Recorded_Arrays(g, o) == g.kind[o] = "array"

\* The objects that serializeObject pushes to circular: an array or a Map is copied
\* and a Buffer summed up first.
Recorded(g, o) == g.kind[o] = "plain"

\* serializeObject at object o: its replacer, and JSON.stringify of what that returns.
RECURSIVE Serialize(_, _, _, _)
Serialize(g, w, o, depth) ==
  LET wrote(how) == [w EXCEPT !.written = Append(@, <<o, how>>)]
      whole == [wrote("whole") EXCEPT !.circular = IF Recorded(g, o) THEN @ \cup {o} ELSE @]
  IN  IF w.overflow THEN w
      ELSE IF depth = MaxDepth THEN [w EXCEPT !.overflow = TRUE]
      ELSE IF o \in w.circular THEN wrote("[Circular]")
      ELSE IF g.kind[o] = "blob" THEN wrote("summary")
      ELSE FoldLeft(LAMBDA v, c : Serialize(g, v, c, depth + 1), whole, Children(g, o))

Written(g) == Serialize(g, Start, 1, 0)

-----------------------------------------------------------------------------
(***************************************************************************)
(* Properties                                                              *)
(***************************************************************************)
Graphs(kinds) == [kind : [Objects -> kinds], children : [Objects -> SUBSET Objects]]

\* The objects that can be reached from those of set S through objects of set V.
Reach(g, S, V) ==
  LET grown[n \in 0 .. Cardinality(Objects)] ==
        IF n = 0 THEN S
        ELSE grown[n - 1] \cup UNION {g.children[o] : o \in grown[n - 1] \cap V}
  IN  grown[Cardinality(Objects)]

OfKind(g, k) == {o \in Objects : g.kind[o] = k}

\* No cycle can be reached from S through V that has objects of set C only.
NoCycle(g, S, V, C) ==
  \A o \in Reach(g, S, V) \cap C : o \notin Reach(g, g.children[o] \cap C, C)

\* Whatever is shared or cyclic, a result is written to its end unless a cycle of
\* arrays and Maps only is in it; every object that can be reached is in the text,
\* and no plain object stands there whole twice (serializeObject.ts:15, 46).
WritesAll ==
  \A g \in Graphs({"blob", "array", "plain"}) :
    LET text == Written(g).written
        entered == Objects \ OfKind(g, "blob")
        times(o) == Cardinality({i \in DOMAIN text : text[i] = <<o, "whole">>})
    IN  /\ Written(g).overflow = ~NoCycle(g, {1}, entered, OfKind(g, "array"))
        /\ \A o \in OfKind(g, "plain") : times(o) <= 1
        /\ ~Written(g).overflow =>
             \A o \in Reach(g, {1}, entered) :
               IF g.kind[o] = "blob" THEN <<o, "summary">> \in Range(text)
               ELSE times(o) >= 1
=============================================================================
