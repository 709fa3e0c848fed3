----------------------------- MODULE HeartbeatLink -----------------------------
(***************************************************************************)
(* The path of a heartbeat: LocalMonitor._heartbeat_loop with its          *)
(* HeartbeatSender, the VPN and the HTTP server between, and the sentinel  *)
(* of module Sentinel at the other end, where Heartbeat now means that a   *)
(* payload on its way is recorded.  A payload may be lost or late, and may *)
(* be recorded after the sender has given up on it.                        *)
(*                                                                         *)
(* A payload is known by its age, the ticks since it was built, which is   *)
(* what its timestamp says.                                                *)
(***************************************************************************)
EXTENDS Sentinel

CONSTANTS
  Interval,      \* heartbeat.interval of the local monitor
  RequestMax,    \* bound on HeartbeatSender.send: the timeouts of one POST
  DelayMax,      \* bound: age at which a payload not yet recorded is lost
  RestartDelay,  \* RestartSec of the local monitor's unit
  MaxCrashes     \* bound: how often the local monitor dies

\* The longest time between two payloads of one process, as the request
\* comes on top of the interval.
Cycle == Interval + RequestMax

ASSUME LinkAssumption ==
  /\ Interval \in Nat \ {0} /\ RestartDelay \in Nat \ {0}
  /\ RequestMax \in Nat /\ DelayMax \in Nat /\ MaxCrashes \in Nat

VARIABLES
  phase,    \* where _heartbeat_loop is; "down": no process
  since,    \* age of the payload built last, or ticks since the process died,
            \* at most Buried
  due,      \* the value of 'since' at which the sleep ends
  flight,   \* ages of the payloads neither recorded nor lost
  orphans,  \* those of them whose process has died (auxiliary)
  stored,   \* age of HeartbeatStore.last_payload, at most Ancient
  missed,   \* payloads of the running process, or of the last one, lost since
            \* the last record, counted to MissedThreshold (auxiliary)
  steady,   \* a payload of the running process has been recorded (auxiliary)
  crashes

senderVars == <<phase, since, due, crashes>>
linkVars == <<senderVars, flight, orphans, stored, missed, steady>>
allVars == <<vars, linkVars>>

\* Older than anything that can still arrive, or no payload at all.
Ancient == DelayMax + 1

\* Dead for longer than anything waits that starts with the death.
Buried == RestartDelay + DelayMax + Cap

-----------------------------------------------------------------------------
(* _heartbeat_loop and HeartbeatSender                                     *)

LinkInit ==
  /\ Init
  /\ phase = "down" /\ since = RestartDelay /\ due = 0 /\ crashes = 0
  /\ flight = {} /\ orphans = {} /\ stored = Ancient /\ missed = 0 /\ steady = FALSE

\* Builds the payload and begins the POST, with no await in between.
Post ==
  /\ phase' = "request" /\ since' = 0 /\ due' = 0
  /\ flight' = flight \cup {0}
  /\ UNCHANGED <<vars, orphans, stored, missed, steady, crashes>>

\* systemd starts the process, whose loop begins with a heartbeat.
Boot == phase = "down" /\ since >= RestartDelay /\ Post

SleepEndsAtOnce ==               \* Faulty: the loop does not wait its interval.
  phase = "sleep" /\ Post

SleepEnds == phase = "sleep" /\ since = due /\ Post

\* The POST ends with its payload's fate, or earlier with a timeout, whatever
\* becomes of the payload then; send() turns every exception into False, and
\* the loop does not look at the result.
RequestEnds ==
  /\ phase = "request" /\ (since \notin flight \/ since = RequestMax)
  /\ phase' = "sleep" /\ due' = since + Interval
  /\ UNCHANGED <<vars, since, crashes, flight, orphans, stored, missed, steady>>

\* The process dies: what it has sent may still arrive.
Crash ==
  /\ phase # "down" /\ crashes < MaxCrashes
  /\ phase' = "down" /\ since' = 0 /\ due' = 0 /\ crashes' = crashes + 1
  /\ orphans' = flight /\ steady' = FALSE
  /\ UNCHANGED <<vars, flight, stored, missed>>

-----------------------------------------------------------------------------
(* Between the two processes                                               *)

\* POST /heartbeat reaches record(), which stores the payload unseen.
Deliver(a) ==
  /\ Heartbeat
  /\ flight' = flight \ {a} /\ orphans' = orphans \ {a} /\ stored' = a /\ missed' = 0
  /\ steady' = (steady \/ (phase # "down" /\ a = since))
  /\ UNCHANGED senderVars

\* No connection, no server, or not in time: nobody retries.
Lose(a) ==
  /\ flight' = flight \ {a} /\ orphans' = orphans \ {a}
  /\ missed' = IF missed < MissedThreshold /\ a \notin orphans THEN missed + 1 ELSE missed
  /\ UNCHANGED <<vars, senderVars, stored, steady>>

Network == \E a \in flight : Deliver(a) \/ Lose(a)

-----------------------------------------------------------------------------
(* The sentinel                                                            *)

Watch == (MonitorLoop \/ Serve) /\ UNCHANGED linkVars

SentinelRestart ==
  /\ Restart
  /\ stored' = Ancient
  /\ UNCHANGED <<senderVars, flight, orphans, missed, steady>>

-----------------------------------------------------------------------------
(* Time                                                                    *)

\* The last moment at which the sender may still be where it is.
SenderMayWait ==
  CASE phase = "down" -> TRUE
    [] phase = "request" -> since < RequestMax
    [] phase = "sleep" -> since < due

LinkTickSendForever ==           \* Faulty: a POST without a timeout.
  /\ Tick
  /\ phase = "sleep" => since < due
  /\ \A a \in flight : a < DelayMax
  /\ since' = IF phase = "down" /\ since = Buried THEN since ELSE since + 1
  /\ flight' = {a + 1 : a \in flight} /\ orphans' = {a + 1 : a \in orphans}
  /\ stored' = IF stored < Ancient THEN stored + 1 ELSE stored
  /\ UNCHANGED <<phase, due, crashes, missed, steady>>

LinkTick ==
  /\ Tick /\ SenderMayWait
  /\ \A a \in flight : a < DelayMax
  /\ since' = IF phase = "down" /\ since = Buried THEN since ELSE since + 1
  /\ flight' = {a + 1 : a \in flight} /\ orphans' = {a + 1 : a \in orphans}
  /\ stored' = IF stored < Ancient THEN stored + 1 ELSE stored
  /\ UNCHANGED <<phase, due, crashes, missed, steady>>

-----------------------------------------------------------------------------

Sender == SleepEnds \/ RequestEnds

LinkNext ==
  Boot \/ Sender \/ Crash \/ Network \/ Watch \/ SentinelRestart \/ LinkTick

LinkSpec == LinkInit /\ [][LinkNext]_allVars

\* Time passes; both loops go on; a payload has some fate.  Neither its
\* arrival nor a restart of the local monitor is assumed.
LinkFairSpec ==
  /\ LinkSpec
  /\ WF_allVars(Watch) /\ WF_allVars(LinkTick)
  /\ WF_allVars(Sender) /\ WF_allVars(Network)

-----------------------------------------------------------------------------
(* Properties                                                              *)

\* Every variable keeps its type and every clock its bound.
LinkTypeOK ==
  /\ TypeOK
  /\ phase \in {"down", "request", "sleep"}
  /\ since \in Nat /\ due \in 0 .. Cycle /\ crashes \in 0 .. MaxCrashes
  /\ flight \subseteq 0 .. DelayMax /\ orphans \subseteq flight /\ stored \in 0 .. Ancient
  /\ missed \in 0 .. MissedThreshold /\ steady \in BOOLEAN

\* What LossesBehindLost needs: all but one of the tolerated losses, and the
\* delay of the next heartbeat, fit into the sentinel's threshold.
Timely ==
  /\ DelayMax < Interval
  /\ (MissedThreshold - 1) * Cycle + DelayMax <= Threshold

\* record() looks at no timestamp, so a late payload could replace a newer one.
\* Only what a process sent before its death can: everything else on its way is
\* newer than what is stored, although requests are given up while their
\* payloads may still arrive, if none is late by a whole interval.
InOrder == DelayMax < Interval => \A a \in flight \ orphans : a < stored

\* A monitor that has been heard and still runs is found missing only after
\* all but one of the tolerated heartbeats were lost since, however long
\* requests and deliveries take.
LossesBehindLost ==
  [][Timely /\ ~alerted /\ alerted' /\ heard /\ steady
       => missed >= MissedThreshold - 1]_allVars

\* While a monitor that has been heard runs on, the silence is no longer than
\* one cycle for each payload lost since and one more, and the delay of the next.
SilenceOwed ==
  DelayMax < Interval /\ steady /\ missed < MissedThreshold
    => silence <= (missed + 1) * Cycle + DelayMax

\* A monitor that has been dead for the longest delay and the time of a detection
\* has been announced LOST, if it was heard by this sentinel, whatever of its
\* payloads were recorded after its death and whichever sends raised.
DeadInTime ==
  heard /\ phase = "down" /\ since > DelayMax + Latest => issued = "lost"

\* A local monitor that stays dead is in the end announced LOST, for good,
\* whatever of its heartbeats still arrive and whichever sends fail.
DeadAnnounced == <>[](phase = "down") => <>[](issued = "lost")
=============================================================================
