---- MODULE MCSentinel ----
(* Sentinel for TLC, and a documented promise that the code does not keep: the
   property of a run that refutes it. *)
EXTENDS Sentinel

\* README.md:220, "Monitor Lost ... No heartbeat for 3+ minutes": a LOST alert for
\* a monitor that has been heard before follows a silence beyond the threshold.
LostAfterHeardSilence ==
  issued = "lost" /\ lastLost.heard => lastLost.silence > Threshold
=============================================================================
