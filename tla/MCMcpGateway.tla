----------------------------- MODULE MCMcpGateway -----------------------------
(***************************************************************************)
(* McpGateway for TLC: an upstream that the profile hides, between two that *)
(* it shows, one of them with a tool that may be seen and not called.       *)
(***************************************************************************)
EXTENDS McpGateway, TLC

CONSTANTS first, hidden, second, tool

GatewayOrder == <<first, hidden, second>>
GatewayVisible == (first :> {tool}) @@ (hidden :> {}) @@ (second :> {tool})
GatewayCallable == (first :> {tool}) @@ (hidden :> {}) @@ (second :> {})

(* Only one upstream at a time has lines that wait to be read, other than   *)
(* the end of its output: what one upstream has written is never read in a  *)
(* call to another.                                                         *)
OneQueueAtATime ==
    \A u, v \in Upstreams : u # v =>
        \E quiet \in {u, v} : \A i \in DOMAIN lines[quiet] : lines[quiet][i].kind = "eof"
================================================================================
