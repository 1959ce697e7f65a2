----------------------------- MODULE HttpClient -----------------------------
(***************************************************************************)
(* The outgoing HTTP requests of the integration server                    *)
(* (common_modules/http-client/http-client.module.ts) together with the    *)
(* part of Node's event loop they depend on: promise continuations run     *)
(* before the next event, a rejection nobody catches becomes an            *)
(* "uncaughtException", and the process dies of one that finds no          *)
(* listener.                                                               *)
(*                                                                         *)
(* requestStream registers one process.once("uncaughtException") listener  *)
(* per request and never removes it.  An emission consumes every listener  *)
(* at once and those of settled requests do nothing, so all that can       *)
(* matter of them is whether there is one.                                 *)
(***************************************************************************)
EXTENDS Naturals, FiniteSets

CONSTANTS Guarded,    \* request slots whose caller awaits inside try/catch
          Unguarded,  \* request slots whose caller does not
          Raw         \* requests of the shell commands: no timer, no listener

\* A slot is of one kind only.
SlotsDisjoint == /\ Guarded \cap Unguarded = {}
                 /\ Raw \cap (Guarded \cup Unguarded) = {}

Req == Guarded \cup Unguarded \cup Raw

VARIABLES stage,      \* where each request stands
          listeners,  \* requests in flight whose uncaughtException listener
                      \* is registered
          leftover,   \* a settled request left its listener behind
          unhandled,  \* rejections of the current tick that nobody caught
          crashed,    \* the process died
          raised,     \* history: uncaught exceptions since the start, up to two
          rawFailed   \* history: a request of a shell command failed to connect

vars == <<stage, listeners, leftover, unhandled, crashed, raised, rawFailed>>

Failed  == {"refused", "broken"}            \* rejected, continuation pending
Settled == Failed \cup {"done"}
Stages  == Settled \cup {"idle", "connecting", "streaming", "dying"}

Idle(r) == stage[r] = "idle"

\* Nothing left to run before the event loop takes the next event.
Quiet == /\ ~crashed
         /\ unhandled = {}
         /\ \A r \in Req : stage[r] \notin Settled

Init == /\ stage = [r \in Req |-> "idle"]
        /\ listeners = {}
        /\ leftover = FALSE
        /\ unhandled = {}
        /\ crashed = FALSE
        /\ raised = 0
        /\ rawFailed = FALSE

-----------------------------------------------------------------------------
\* requestStream registers a listener, device.common.cmd.tree.ts does not.
Registered(S) == S \ Raw

\* The code sends the requests of S, the others standing as in base.
Starting(S, base) == stage' = [r \in Req |-> IF r \in S THEN "connecting" ELSE base[r]]

\* An event runs code that sends the requests of S.
Call(S) ==
  /\ Quiet
  /\ S # {}
  /\ \A r \in S : Idle(r)
  /\ Starting(S, stage)
  /\ listeners' = listeners \cup Registered(S)
  /\ UNCHANGED <<leftover, unhandled, crashed, raised, rawFailed>>

Move(r, from, to) ==
  /\ Quiet
  /\ stage[r] = from
  /\ stage' = [stage EXCEPT ![r] = to]
  /\ UNCHANGED <<listeners, leftover, unhandled, crashed, raised, rawFailed>>

\* The response headers: requestStream resolves, request() listens to the body.
Headers(r) == Move(r, "connecting", "streaming")

\* The body's "end": request() resolves, whether or not the body parses.
End(r) == Move(r, "streaming", "done")

\* req emits "error": ECONNREFUSED, or any other socket error.
Refuse(r) == Move(r, "connecting", "refused")
Break(r)  == Move(r, "connecting", "broken")

\* The response stream fails, on its own or because the request was destroyed.
\* A shell command's request() rejects into the try of the command controller.
ResError(r) == \E from \in {"streaming", "dying"} :
                  Move(r, from, IF r \in Raw THEN "done" ELSE "broken")

\* Mutant of Timer: the timeout cleared when the headers arrive.
Timer_Cleared(r) == r \notin Raw /\ Move(r, "connecting", "broken")

\* The timeout of requestStream: nothing clears it.  Before the headers it
\* rejects; afterwards its reject is void and the destroyed stream errs later.
Timer(r) == /\ r \notin Raw
            /\ \/ Move(r, "connecting", "broken")
               \/ Move(r, "streaming", "dying")

\* The continuation of a settled request r runs to its next await, sending the
\* requests of S.  A failure that the caller does not catch stays unhandled.
Uncaught(r) == stage[r] \in Failed /\ r \notin Guarded

\* Mutant of Leaves: the listener removed once its request has settled.
Leaves_Nothing(r) == FALSE

\* Nothing removes the listener of a settled request.
Leaves(r) == r \in listeners

Resume(r, S) ==
  /\ ~crashed
  /\ stage[r] \in Settled
  /\ \A s \in S : Idle(s)
  /\ Uncaught(r) => S = {}
  /\ Starting(S, [stage EXCEPT ![r] = "idle"])
  /\ listeners' = (listeners \ {r}) \cup Registered(S)
  /\ leftover' = (leftover \/ Leaves(r))
  /\ unhandled' = IF Uncaught(r) THEN unhandled \cup {<<r, stage[r]>>} ELSE unhandled
  /\ rawFailed' = (rawFailed \/ (Uncaught(r) /\ r \in Raw))
  /\ UNCHANGED <<crashed, raised>>

\* What the listener of request r does to it on an uncaught ECONNREFUSED.
Aborted(r) == CASE stage[r] = "connecting" -> "refused"
                [] stage[r] = "streaming"  -> "dying"
                [] OTHER                   -> stage[r]

\* processPromiseRejections: every unhandled rejection of the tick is raised,
\* one after the other, before the continuations the listeners released.
Raise ==
  /\ ~crashed
  /\ unhandled # {}
  /\ \A r \in Req : stage[r] \notin Settled
  /\ crashed' = ((listeners = {} /\ ~leftover) \/ \E u, v \in unhandled : u # v)
  /\ raised' = IF raised = 0 /\ \A u, v \in unhandled : u = v THEN 1 ELSE 2
  /\ stage' = IF \E r \in Req : <<r, "refused">> \in unhandled
              THEN [r \in Req |-> IF r \in listeners THEN Aborted(r) ELSE stage[r]]
              ELSE stage
  /\ listeners' = {}
  /\ leftover' = FALSE
  /\ unhandled' = {}
  /\ UNCHANGED rawFailed

\* docker-compose starts the process again.
Restart == /\ crashed
           /\ stage' = [r \in Req |-> "idle"]
           /\ listeners' = {}
           /\ leftover' = FALSE
           /\ unhandled' = {}
           /\ crashed' = FALSE
           /\ raised' = 0
           /\ rawFailed' = FALSE

Next == \/ \E S \in SUBSET Req : Call(S)
        \/ \E r \in Req : \/ Headers(r) \/ End(r) \/ Refuse(r) \/ Break(r)
                          \/ ResError(r) \/ Timer(r)
        \/ \E r \in Req, S \in SUBSET Req : Resume(r, S)
        \/ Raise
        \/ Restart

Spec == Init /\ [][Next]_vars

-----------------------------------------------------------------------------
(***************************************************************************)
(* Properties                                                              *)
(***************************************************************************)
\* Every variable has its type; the requests of shell commands never own a
\* listener (device.common.cmd.tree.ts registers none).
TypeOK == /\ stage \in [Req -> Stages]
          /\ listeners \subseteq Req \ Raw
          /\ leftover \in BOOLEAN
          /\ unhandled \subseteq Req \X Failed
          /\ crashed \in BOOLEAN
          /\ raised \in 0..2
          /\ rawFailed \in BOOLEAN

\* The leaked listeners shield the process: it dies only of a second uncaught
\* failure, never of the first, unless a shell command's own request failed.
CrashNeedsTwo == crashed => raised = 2 \/ rawFailed

\* Why: until the first uncaught exception every request in flight has its
\* listener, and a rejection is left unhandled only beside the listener that
\* its request left.
InFlight == {r \in Req \ Raw : ~Idle(r)}

Shielded == ~rawFailed /\ raised = 0 => /\ ~crashed
                                        /\ InFlight \subseteq listeners
                                        /\ unhandled # {} => leftover
=============================================================================
