---------------------------- MODULE MCLifecycle ----------------------------
(***************************************************************************)
(* The four programs, with two connections each; and the results of their  *)
(* commands, over all graphs of three objects.                             *)
(***************************************************************************)
EXTENDS Lifecycle

CONSTANTS c1, c2

Results == INSTANCE Serialized WITH Objects <- 1 .. 3, MaxDepth <- 7

\* The result of a command is written whole, once and to its end, unless arrays and
\* Maps alone form a cycle (serializeObject.ts:15, 46).
WritesAll == (\E c \in Conn : conn[c] = "command") => Results!WritesAll
=============================================================================
