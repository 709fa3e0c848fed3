------------------------------- MODULE Sentinel -------------------------------
(***************************************************************************)
(* The remote sentinel's watch over the local monitor: HeartbeatStore, the *)
(* endpoint that records heartbeats in it, and RemoteSentinel._monitor_loop*)
(* with its awaits (external probe, Telegram, sleep), during which         *)
(* heartbeats keep arriving.                                               *)
(*                                                                         *)
(* Time is counted in ticks; the clocks are relative (time since the last  *)
(* heartbeat, in the present await, since the last check), so that they    *)
(* are bounded without bounding the run.                                   *)
(***************************************************************************)
EXTENDS Integers

CONSTANTS
  ExpectedInterval,   \* heartbeat.expected_interval
  MissedThreshold,    \* heartbeat.missed_threshold
  Period,             \* asyncio.sleep(10) between checks
  Lag,                \* how late the event loop may resume a sleeper: the DNS
                      \* check of the same loop blocks it
  ProbeEnabled,       \* external_probe.enabled, with a target
  ProbeMax,           \* bound on ExternalProbe.check: all its timeouts
  SendMax,            \* bound on send_alert: Telegram's timeouts
  SendOutcome,        \* how send_alert may end
  MaxRestarts         \* bound: number of restarts

Threshold == ExpectedInterval * MissedThreshold

\* The longest time between two checks of the monitor loop.
MaxGap == ProbeMax + SendMax + Period + Lag

\* Longest silence after which a LOST alert is created, and one tick more,
\* where the count of silence stops.
Latest == Threshold + MaxGap + ProbeMax
Cap == Latest + 1

ASSUME SentinelAssumption ==
  /\ ExpectedInterval \in Nat /\ MissedThreshold \in Nat
  /\ Period \in Nat /\ Lag \in Nat /\ ProbeMax \in Nat /\ SendMax \in Nat
  /\ ProbeEnabled \in BOOLEAN /\ MaxRestarts \in Nat
  /\ SendOutcome \subseteq {"sent", "failed", "raised"}

VARIABLES
  serving,     \* uvicorn accepts requests
  heard,       \* HeartbeatStore.last_heartbeat is not None
  silence,     \* ticks since last_heartbeat, or since the start if not heard
  alerted,     \* HeartbeatStore._alerted_missing
  wasMissing,  \* RemoteSentinel._was_missing
  pc,          \* where _monitor_loop is
  timer,       \* ticks spent in the present await
  sinceCheck,  \* ticks since the last check began
  issued,      \* the last alert created in this process life
  even,        \* whether an even number of them was (auxiliary)
  lastLost,    \* heard and silence when the last LOST alert was created
  chat,        \* the last alert that reached the chat
  restarts

store   == <<heard, silence, alerted>>
alerts  == <<issued, even, lastLost, chat>>
vars == <<store, alerts, serving, wasMissing, pc, timer, sinceCheck, restarts>>

Point == {"start", "probe", "sendLost", "sendRecovered", "sleep"}

-----------------------------------------------------------------------------
(* HeartbeatStore                                                          *)

MissingEarly == ~heard \/ silence > ExpectedInterval     \* Faulty: one missed.

Missing == ~heard \/ silence > Threshold

ShouldAlertAgain == Missing              \* Faulty: not once.

ShouldAlertMissing == Missing /\ ~alerted

-----------------------------------------------------------------------------
(* The life of a process                                                   *)

Init ==
  /\ serving = FALSE /\ heard = FALSE /\ silence = 0 /\ alerted = FALSE
  /\ wasMissing = FALSE /\ pc = "start" /\ timer = 0 /\ sinceCheck = 0
  /\ issued = "none" /\ even = TRUE /\ lastLost = [heard |-> FALSE, silence |-> 0]
  /\ chat = "none" /\ restarts = 0

\* A crash or an exit, then Restart=always: only the chat remembers.
Restart ==
  /\ restarts < MaxRestarts
  /\ restarts' = restarts + 1
  /\ serving' = FALSE /\ heard' = FALSE /\ silence' = 0 /\ alerted' = FALSE
  /\ wasMissing' = FALSE /\ pc' = "start" /\ timer' = 0 /\ sinceCheck' = 0
  /\ issued' = "none" /\ even' = TRUE /\ lastLost' = [heard |-> FALSE, silence |-> 0]
  /\ UNCHANGED chat

\* start() creates the monitor task before it awaits uvicorn, so the first
\* check comes before the first request can.
Serve ==
  /\ ~serving /\ pc # "start"
  /\ serving' = TRUE
  /\ UNCHANGED <<store, alerts, wasMissing, pc, timer, sinceCheck, restarts>>

-----------------------------------------------------------------------------
(* Time                                                                    *)

StepMaxUnbounded ==                      \* Faulty: a probe without timeouts.
  CASE pc = "start" -> 0
    [] pc = "probe" -> Cap
    [] pc \in {"sendLost", "sendRecovered"} -> SendMax
    [] pc = "sleep" -> Period + Lag

StepMax ==
  CASE pc = "start" -> 0
    [] pc = "probe" -> ProbeMax
    [] pc \in {"sendLost", "sendRecovered"} -> SendMax
    [] pc = "sleep" -> Period + Lag

Elapse ==
  /\ timer' = timer + 1 /\ sinceCheck' = sinceCheck + 1
  /\ silence' = IF silence < Cap THEN silence + 1 ELSE silence
  /\ UNCHANGED <<heard, alerted, alerts, serving, wasMissing, pc, restarts>>

\* A tick passes unless the present await must be over.
Tick == timer < StepMax /\ Elapse

-----------------------------------------------------------------------------
(* POST /heartbeat                                                         *)

HeartbeatKeepsFlag ==                    \* Faulty: _alerted_missing not reset.
  /\ serving
  /\ heard' = TRUE /\ silence' = 0
  /\ UNCHANGED <<alerted, alerts, serving, wasMissing, pc, timer, sinceCheck, restarts>>

\* record() takes the time of arrival and forgets the alert.
Heartbeat ==
  /\ serving
  /\ heard' = TRUE /\ silence' = 0 /\ alerted' = FALSE
  /\ UNCHANGED <<alerts, serving, wasMissing, pc, timer, sinceCheck, restarts>>

-----------------------------------------------------------------------------
(* _monitor_loop                                                           *)

AtCheck == pc = "start" \/ (pc = "sleep" /\ timer >= Period)

Enter(p) == pc' = p /\ timer' = 0

CreateLost ==
  /\ issued' = "lost" /\ even' = ~even
  /\ lastLost' = [heard |-> heard, silence |-> silence]

\* should_alert_missing sets its flag, then the probe is awaited.  A disabled
\* probe returns at once, and the loop runs on to the send of the alert.
CheckMissing ==
  /\ AtCheck /\ ShouldAlertMissing
  /\ alerted' = TRUE /\ sinceCheck' = 0
  /\ IF ProbeEnabled THEN Enter("probe") /\ UNCHANGED alerts
                     ELSE Enter("sendLost") /\ CreateLost /\ UNCHANGED chat
  /\ UNCHANGED <<heard, silence, serving, wasMissing, restarts>>

\* The alert describes the store as it is now, whatever it was at the check.
ProbeDone ==
  /\ pc = "probe"
  /\ CreateLost
  /\ Enter("sendLost")
  /\ UNCHANGED <<store, chat, serving, wasMissing, sinceCheck, restarts>>

CheckRecovered ==
  /\ AtCheck /\ ~ShouldAlertMissing /\ wasMissing /\ ~Missing
  /\ issued' = "recovered" /\ even' = ~even
  /\ Enter("sendRecovered") /\ sinceCheck' = 0
  /\ UNCHANGED <<store, lastLost, chat, serving, wasMissing, restarts>>

CheckQuiet ==
  /\ AtCheck /\ ~ShouldAlertMissing /\ ~(wasMissing /\ ~Missing)
  /\ Enter("sleep") /\ sinceCheck' = 0
  /\ UNCHANGED <<store, alerts, serving, wasMissing, restarts>>

ChatAfter(o) == IF o = "sent" THEN issued ELSE chat

LostSentForgets(o) ==                    \* Faulty: _was_missing not set.
  /\ pc = "sendLost"
  /\ chat' = ChatAfter(o)
  /\ Enter("sleep")
  /\ UNCHANGED <<store, issued, even, lastLost, serving, wasMissing, sinceCheck, restarts>>

LostSentAlways(o) ==                     \* Faulty: _was_missing set in any case.
  /\ pc = "sendLost"
  /\ chat' = ChatAfter(o)
  /\ wasMissing' = TRUE
  /\ Enter("sleep")
  /\ UNCHANGED <<store, issued, even, lastLost, serving, sinceCheck, restarts>>

\* Delivered or refused, the loss counts as announced; after an exception it
\* does not, and the same sleep follows.
LostSent(o) ==
  /\ pc = "sendLost"
  /\ chat' = ChatAfter(o)
  /\ wasMissing' = IF o = "raised" THEN wasMissing ELSE TRUE
  /\ Enter("sleep")
  /\ UNCHANGED <<store, issued, even, lastLost, serving, sinceCheck, restarts>>

RecoveredSentForgets(o) ==               \* Faulty: _was_missing not cleared.
  /\ pc = "sendRecovered"
  /\ chat' = ChatAfter(o)
  /\ Enter("sleep")
  /\ UNCHANGED <<store, issued, even, lastLost, serving, wasMissing, sinceCheck, restarts>>

RecoveredSent(o) ==
  /\ pc = "sendRecovered"
  /\ chat' = ChatAfter(o)
  /\ wasMissing' = IF o = "raised" THEN wasMissing ELSE FALSE
  /\ Enter("sleep")
  /\ UNCHANGED <<store, issued, even, lastLost, serving, sinceCheck, restarts>>

MonitorLoop ==
  \/ CheckMissing
  \/ CheckRecovered
  \/ CheckQuiet
  \/ ProbeDone
  \/ \E o \in SendOutcome : LostSent(o) \/ RecoveredSent(o)

Next == MonitorLoop \/ Tick \/ Heartbeat \/ Serve \/ Restart

Spec == Init /\ [][Next]_vars

\* Time passes and every await of the monitor loop ends.
FairSpec == Spec /\ WF_vars(MonitorLoop) /\ WF_vars(Tick)

-----------------------------------------------------------------------------
(* Properties                                                              *)

\* Every variable keeps its type and every clock its bound.
TypeOK ==
  /\ serving \in BOOLEAN /\ heard \in BOOLEAN /\ alerted \in BOOLEAN
  /\ wasMissing \in BOOLEAN /\ pc \in Point
  /\ silence \in 0 .. Cap /\ timer \in Nat /\ timer <= StepMax
  /\ sinceCheck \in 0 .. MaxGap
  /\ issued \in {"none", "lost", "recovered"} /\ even \in BOOLEAN
  /\ lastLost \in [heard : BOOLEAN, silence : 0 .. Cap]
  /\ chat \in {"none", "lost", "recovered"} /\ restarts \in 0 .. MaxRestarts

\* However checks, probes, failed sends and late heartbeats interleave, a
\* silence longer than the threshold, one full loop and one probe has had its
\* LOST alert, and no RECOVERED alert after it.
SilenceAnnounced == heard /\ silence > Latest => issued = "lost"

\* Once a heartbeat has ever come, a LOST alert tells of a silence beyond the
\* threshold, unless a heartbeat arrived during its very probe.
LostIsOldOrProbed ==
  issued = "lost" /\ lastLost.heard =>
    \/ lastLost.silence > Threshold
    \/ ProbeEnabled /\ lastLost.silence <= ProbeMax

\* A check that finds nothing to report is right: the last alert is LOST exactly
\* if heartbeats are missing, unless an exception cut a report short.
QuietCheckAgrees ==
  [][CheckQuiet /\ "raised" \notin SendOutcome => (issued = "lost" <=> Missing)]_vars

\* A RECOVERED alert is only sent to a chat whose last word is LOST, through
\* exceptions and restarts, if Telegram refuses no alert.
RecoveryClosesLoss ==
  "failed" \notin SendOutcome /\ pc = "sendRecovered" => chat = "lost"

Word == [none |-> "none", lost |-> "out", recovered |-> "back"]
Announced == [e \in {"monitor"} |-> Word[issued]]

AnnouncedEven == [e \in {"monitor"} |-> even]

Log == INSTANCE OutageLog WITH
  Entity <- {"monitor"}, last <- Announced, even <- AnnouncedEven

\* What AlertsAlternate needs: checks closer together than the threshold, and
\* no exception out of a send.
Punctual == MaxGap <= Threshold /\ "raised" \notin SendOutcome

\* LOST and RECOVERED alternate without repetition, from LOST, in every process
\* life: no recovery and no new loss goes unreported in between.
AlertsAlternate == Log!Spec

\* While heartbeats keep coming in time, the last word is not LOST.
RecoveryFollows ==
  <>[](heard /\ silence <= Threshold) => <>[](issued # "lost")
=============================================================================
