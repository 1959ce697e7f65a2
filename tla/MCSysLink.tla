----------------------------- MODULE MCSysLink ------------------------------
(***************************************************************************)
(* The link with two calls, and what their results are made of.            *)
(***************************************************************************)
EXTENDS SysLink

CONSTANTS k1, s1,
          Temps   \* the temperatures that sensors reads

\* Scripts are interchangeable and a call has one only: if the first call has any,
\* it is s1. (TLC's symmetry reduction would not do for liveness.)
FirstScript == call[k1].script \in {None, s1}

Results == INSTANCE ScriptResults

\* The link is up: whatever the shell script prints, a pulse is made, and the page holds
\* the temperature told, or 0 (os.module.ts:84, ws-service.ts:148).
TemperatureTold == (\E c \in Conn : client[c] = "open") => Results!TemperatureTold

\* A call that got a result answers its command with what the shell script told, or with
\* nothing if that failed (sys.ws.util.ts:14).
CommandTells == (\E k \in Call : call[k].is = "resolved") => Results!CommandTells
=============================================================================
