------------------------------ MODULE OutageLog ------------------------------
(***************************************************************************)
(* What a monitor of this system promises to whoever reads its alerts: for *)
(* every watched entity (a WAN link, or the local monitor itself), the     *)
(* alerts of one process life alternate outage, recovery, outage, ...,     *)
(* starting with an outage.  A restart forgets everything, so the next     *)
(* alert is an outage again.  WanAlerting and Sentinel implement it.       *)
(***************************************************************************)
CONSTANT Entity

VARIABLES
  last,    \* the last alert about each entity in this process life
  even     \* whether an even number was issued: shows a repeated alert

log == <<last, even>>

Init == last = [e \in Entity |-> "none"] /\ even = [e \in Entity |-> TRUE]

Record(e, word) ==
  /\ last' = [last EXCEPT ![e] = word]
  /\ even' = [even EXCEPT ![e] = ~@]

\* "<WAN> DOWN", "CONNECTION LOST TO LOCAL MONITOR": never twice in a row.
Outage(e) == last[e] # "out" /\ Record(e, "out")

\* "<WAN> RECOVERED", "LOCAL MONITOR RECOVERED": only to close an outage.
Recovery(e) == last[e] = "out" /\ Record(e, "back")

\* systemd starts a fresh process, which remembers no alert.
Restart == last' = [e \in Entity |-> "none"] /\ even' = [e \in Entity |-> TRUE]

Next == Restart \/ \E e \in Entity : Outage(e) \/ Recovery(e)

Spec == Init /\ [][Next]_log
=============================================================================
