----------------------------- MODULE MCSwitches -----------------------------
(* Two servers, one with two devices of which one has two pins; the numbers *)
(* of their pins overlap, as those of all devices do.                       *)
EXTENDS Switches
CONSTANTS s1, s2, virtual, pico, other
MCDevsOf == (s1 :> {virtual, pico}) @@ (s2 :> {other})
MCPinsOf == (virtual :> <<2, 3>>) @@ (pico :> <<2>>) @@ (other :> <<3>>)
MCName == (virtual :> 2) @@ (pico :> 1) @@ (other :> 3)
=============================================================================
