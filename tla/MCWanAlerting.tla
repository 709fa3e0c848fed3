---- MODULE MCWanAlerting ----
(* Instances of WanAlerting for TLC, and the documented promises that the
   code does not keep: each is the property of a run that refutes it. *)
EXTENDS WanAlerting

CONSTANTS a1, a2, a3    \* next-hop addresses

OneGateway == <<a1>>
TwoGateways == <<a1, a2>>
SharedGateway == <<a1, a2, a2>>   \* WAN 2 and WAN 3 behind one modem

-----------------------------------------------------------------------------
(* Documented promises                                                     *)

IssuesDown(w) == issued[w].kind # "DOWN" /\ issued'[w].kind = "DOWN"

\* README.md:214, "WAN DOWN ... Default route failover detected": a DOWN alert
\* needs an answer of the router, not the lack of one.
DownNeedsAnswer ==
  [][\A w \in Wan : IssuesDown(w) => hop # NoAnswer]_vars

\* README.md:165, "normal_interval: 60 # Seconds between SNMP polls (normal)":
\* with the default route staying on WAN 1 the loop ends up at that interval.
NormalWhenPrimaryUp ==
  <>[](running /\ lastStates[1].status = "up") => <>[](interval = "normal")

\* shared/models.py:26, "Current state of a WAN interface", of the states in a
\* heartbeat: the default route has one next hop, so at no time are two WANs up.
HeartbeatOneUp ==
  \A v, w \in Wan : payload[v] = "up" /\ payload[w] = "up" => v = w
=============================================================================
