----------------------------- MODULE Commanding ------------------------------
(***************************************************************************)
(* What the senders of control commands are promised, whatever happens to  *)
(* the requests that carry them: the pins of a device change only because  *)
(* a command asks for it, and a command that was sent changes them at most *)
(* once, sooner or later or never.  A command that failed is not sent      *)
(* again unless its sender asks again.                                     *)
(***************************************************************************)
EXTENDS Naturals

CONSTANTS Device, Pin, Val

Command == Device \X Pin \X Val   \* set this pin of this device to this value

VARIABLES pins,     \* the pins as the devices hold them
          pending,  \* how often each command may still be executed
          left      \* what the senders have left to spend on commands

vars == <<pins, pending, left>>

Init == /\ pins \in [Device -> [Pin -> Val]]
        /\ pending = [c \in Command |-> 0]
        /\ left \in Nat

\* A sender asks for the command c.
Send(c) == /\ left' < left
           /\ pending' = [pending EXCEPT ![c] = @ + 1]
           /\ UNCHANGED pins

\* The device of the command c carries it out.
Execute(c) == /\ pending[c] > 0
              /\ pending' = [pending EXCEPT ![c] = @ - 1]
              /\ pins' = [pins EXCEPT ![c[1]][c[2]] = c[3]]
              /\ UNCHANGED left

\* Some commands are never carried out, and senders spend on other things.
Forget == /\ pending' \in [Command -> Nat]
          /\ \A c \in Command : pending'[c] <= pending[c]
          /\ left' \in Nat /\ left' <= left
          /\ UNCHANGED pins

Next == \/ \E c \in Command : Send(c) \/ Execute(c)
        \/ Forget

Spec == Init /\ [][Next]_vars
=============================================================================
