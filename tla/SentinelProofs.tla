---------------------------- MODULE SentinelProofs ----------------------------
(***************************************************************************)
(* Proofs about Sentinel for every interval, threshold, period and bound   *)
(* on the awaits.                                                          *)
(***************************************************************************)
EXTENDS Sentinel, TLAPS

LEMMA ConstantTypes ==
  /\ Threshold \in Nat /\ MaxGap \in Nat /\ Latest \in Nat /\ Cap \in Nat
  /\ Latest = Threshold + MaxGap + ProbeMax /\ Cap = Latest + 1
  /\ MaxGap = ProbeMax + SendMax + Period + Lag
  /\ Period \in Nat /\ Lag \in Nat /\ ProbeMax \in Nat /\ SendMax \in Nat
<1>1. \A a, b \in Nat : a * b \in Nat
  OBVIOUS
<1>2. Threshold \in Nat
  BY <1>1, SentinelAssumption DEF Threshold
<1>3. MaxGap \in Nat
  BY SentinelAssumption DEF MaxGap
<1>4. Latest \in Nat /\ Latest = Threshold + MaxGap + ProbeMax
  BY <1>2, <1>3, SentinelAssumption DEF Latest
<1> QED BY <1>2, <1>3, <1>4, SentinelAssumption DEF Cap, MaxGap

-----------------------------------------------------------------------------
(* Type correctness, with the clocks                                       *)

\* How much of the time since the check each await may have taken.
Clocks ==
  /\ pc = "start" => sinceCheck = 0 /\ timer = 0
  /\ pc = "probe" => sinceCheck = timer
  /\ pc \in {"sendLost", "sendRecovered"} => sinceCheck <= ProbeMax + timer
  /\ pc = "sleep" => sinceCheck <= ProbeMax + SendMax + timer

Typed == TypeOK /\ Clocks

LEMMA StepMaxValue ==
  /\ pc = "start" => StepMax = 0
  /\ pc = "probe" => StepMax = ProbeMax
  /\ pc \in {"sendLost", "sendRecovered"} => StepMax = SendMax
  /\ pc = "sleep" => StepMax = Period + Lag
<1>1. CASE pc = "start"
  BY <1>1 DEF StepMax
<1>2. CASE pc = "probe"
  BY <1>2 DEF StepMax
<1>3. CASE pc = "sendLost"
  BY <1>3 DEF StepMax
<1>4. CASE pc = "sendRecovered"
  BY <1>4 DEF StepMax
<1>5. CASE pc = "sleep"
  BY <1>5 DEF StepMax
<1> QED BY <1>1, <1>2, <1>3, <1>4, <1>5

LEMMA LostType ==
  ASSUME NEW h \in BOOLEAN, NEW s \in 0 .. Cap
  PROVE  [heard |-> h, silence |-> s] \in [heard : BOOLEAN, silence : 0 .. Cap]
OBVIOUS

LEMMA InitTyped == Init => Typed
<1> SUFFICES ASSUME Init PROVE Typed
  OBVIOUS
<1>1. lastLost \in [heard : BOOLEAN, silence : 0 .. Cap]
  BY ConstantTypes, LostType DEF Init
<1>2. timer \in Nat /\ timer <= StepMax /\ silence \in 0 .. Cap /\ sinceCheck \in 0 .. MaxGap
      /\ restarts \in 0 .. MaxRestarts /\ Clocks
  BY ConstantTypes, SentinelAssumption, StepMaxValue DEF Init, Clocks
<1> QED BY <1>1, <1>2 DEF Init, Typed, TypeOK, Point

LEMMA StepTyped == Typed /\ [Next]_vars => Typed'
<1> SUFFICES ASSUME Typed, [Next]_vars PROVE Typed'
  OBVIOUS
<1> USE ConstantTypes, SentinelAssumption DEF Typed, Clocks
<1>1. CASE Tick
  BY <1>1 DEF Tick, Elapse, TypeOK, Point, StepMax, alerts
<1>2. CASE CheckMissing /\ ProbeEnabled
  BY <1>2 DEF CheckMissing, AtCheck, Enter, TypeOK, Point, StepMax, alerts
<1>3. CASE CheckMissing /\ ~ProbeEnabled
  BY <1>3 DEF CheckMissing, CreateLost, AtCheck, Enter, TypeOK, Point, StepMax
<1>4. CASE CheckRecovered
  BY <1>4 DEF CheckRecovered, AtCheck, Enter, TypeOK, Point, StepMax, store
<1>5. CASE CheckQuiet
  BY <1>5 DEF CheckQuiet, AtCheck, Enter, TypeOK, Point, StepMax, store, alerts
<1>6. CASE ProbeDone
  BY <1>6 DEF ProbeDone, CreateLost, Enter, TypeOK, Point, StepMax, store
<1>7. CASE \E o \in SendOutcome : LostSent(o) \/ RecoveredSent(o)
  <2>1. PICK o \in SendOutcome : LostSent(o) \/ RecoveredSent(o)
    BY <1>7
  <2>2. wasMissing' \in BOOLEAN
    BY <2>1 DEF LostSent, RecoveredSent, TypeOK
  <2>3. chat' \in {"none", "lost", "recovered"}
    BY <2>1 DEF LostSent, RecoveredSent, ChatAfter, TypeOK
  <2>4. /\ pc \in {"sendLost", "sendRecovered"} /\ pc' = "sleep" /\ timer' = 0
        /\ UNCHANGED <<store, issued, even, lastLost, serving, sinceCheck, restarts>>
    BY <2>1 DEF LostSent, RecoveredSent, Enter
  <2>5. timer' <= StepMax' /\ Clocks'
    BY <2>4, StepMaxValue DEF TypeOK, StepMax
  <2> QED BY <2>2, <2>3, <2>4, <2>5 DEF TypeOK, Point, store
<1>8. CASE Heartbeat \/ Serve \/ UNCHANGED vars
  <2>1. UNCHANGED <<alerts, wasMissing, pc, timer, sinceCheck, restarts>>
    BY <1>8 DEF Heartbeat, Serve, vars
  <2>2. heard' \in BOOLEAN /\ alerted' \in BOOLEAN /\ serving' \in BOOLEAN
    BY <1>8, Zenon DEF Heartbeat, Serve, vars, store, TypeOK
  <2>3. silence' \in 0 .. Cap
    BY <1>8 DEF Heartbeat, Serve, vars, store, TypeOK
  <2>4. StepMax' = StepMax
    BY <2>1 DEF StepMax
  <2> QED BY <2>1, <2>2, <2>3, <2>4 DEF TypeOK, alerts
<1>9. CASE Restart
  <2>1. lastLost' \in [heard : BOOLEAN, silence : 0 .. Cap]
    BY <1>9, LostType DEF Restart
  <2>2. timer' <= StepMax' /\ Clocks'
    BY <1>9 DEF Restart, StepMax
  <2>3. /\ silence' \in 0 .. Cap /\ timer' \in Nat /\ sinceCheck' \in 0 .. MaxGap
        /\ restarts' \in 0 .. MaxRestarts
    BY <1>9 DEF Restart, TypeOK
  <2>4. /\ serving' \in BOOLEAN /\ heard' \in BOOLEAN /\ alerted' \in BOOLEAN
        /\ wasMissing' \in BOOLEAN /\ even' \in BOOLEAN /\ pc' \in Point
        /\ issued' = "none" /\ chat' = chat
    BY <1>9, Zenon DEF Restart, Point
  <2> QED BY <2>1, <2>2, <2>3, <2>4 DEF TypeOK
<1> QED
  BY <1>1, <1>2, <1>3, <1>4, <1>5, <1>6, <1>7, <1>8, <1>9
     DEF Next, MonitorLoop

\* Every variable keeps its type and every clock its bound.
THEOREM Typing == Spec => []TypeOK
<1>1. Typed => TypeOK
  BY DEF Typed
<1> QED BY <1>1, InitTyped, StepTyped, PTL DEF Spec

-----------------------------------------------------------------------------
(* Detection: no silence escapes, and what a LOST alert may be about       *)

\* The flag of the store tells of an alert that is created or being prepared.
FlagMeansAlert ==
  alerted => Missing /\ (pc # "probe" => issued = "lost")

\* A silence not flagged was within the threshold at the last check; one
\* flagged was found by the first check after the threshold.
FoundInTime ==
  heard =>
    /\ ~alerted => silence <= Threshold + sinceCheck
    /\ alerted /\ pc = "probe" => silence <= Threshold + MaxGap + timer

\* A flag cleared during a probe was cleared by a heartbeat.
ProbedFlag ==
  pc = "probe" => ProbeEnabled /\ (~alerted => heard /\ silence <= timer)

DInv == Typed /\ FlagMeansAlert /\ FoundInTime /\ ProbedFlag /\ LostIsOldOrProbed

LEMMA InitDetect == Init => DInv
BY InitTyped DEF Init, DInv, FlagMeansAlert, FoundInTime, ProbedFlag, LostIsOldOrProbed

LEMMA StepDetect == DInv /\ [Next]_vars => DInv'
<1> SUFFICES ASSUME DInv, [Next]_vars PROVE DInv'
  OBVIOUS
<1>t. Typed'
  BY StepTyped DEF DInv
<1>g. sinceCheck \in Nat /\ sinceCheck <= MaxGap /\ silence \in 0 .. Cap /\ timer \in Nat
  BY ConstantTypes DEF DInv, Typed, TypeOK
<1>p. pc = "probe" => timer <= ProbeMax
  BY DEF DInv, Typed, TypeOK, StepMax
<1> USE ConstantTypes, <1>t, <1>g, <1>p
    DEF DInv, FlagMeansAlert, FoundInTime, ProbedFlag, LostIsOldOrProbed, Missing
<1>1. CASE Tick
  BY <1>1 DEF Tick, Elapse, alerts
<1>2. CASE CheckMissing /\ ProbeEnabled
  BY <1>2 DEF CheckMissing, ShouldAlertMissing, AtCheck, Enter, alerts
<1>3. CASE CheckMissing /\ ~ProbeEnabled
  BY <1>3 DEF CheckMissing, ShouldAlertMissing, CreateLost, AtCheck, Enter
<1>4. CASE CheckRecovered
  BY <1>4 DEF CheckRecovered, ShouldAlertMissing, AtCheck, Enter, store
<1>5. CASE CheckQuiet
  BY <1>5 DEF CheckQuiet, ShouldAlertMissing, AtCheck, Enter, store, alerts
<1>6. CASE ProbeDone
  BY <1>6 DEF ProbeDone, CreateLost, Enter, store
<1>7. CASE \E o \in SendOutcome : LostSent(o) \/ RecoveredSent(o)
  <2>1. /\ UNCHANGED <<heard, silence, alerted, issued, lastLost, sinceCheck>>
        /\ pc # "probe" /\ pc' = "sleep"
    BY <1>7 DEF LostSent, RecoveredSent, Enter, store
  <2> QED BY <2>1
<1>8. CASE Heartbeat
  BY <1>8 DEF Heartbeat, alerts
<1>9. CASE Serve
  BY <1>9 DEF Serve, store, alerts
<1>10. CASE Restart
  BY <1>10 DEF Restart
<1>11. CASE UNCHANGED vars
  BY <1>11 DEF vars, store, alerts
<1> QED
  BY <1>1, <1>2, <1>3, <1>4, <1>5, <1>6, <1>7, <1>8, <1>9, <1>10, <1>11
     DEF Next, MonitorLoop

LEMMA Detecting == Spec => []DInv
BY InitDetect, StepDetect, PTL DEF Spec

\* A silence beyond the threshold, one loop and one probe has had its alert.
THEOREM Detection == Spec => []SilenceAnnounced
<1>1. DInv => SilenceAnnounced
  BY ConstantTypes
     DEF DInv, Typed, TypeOK, StepMax, FlagMeansAlert, FoundInTime, SilenceAnnounced
<1> QED BY <1>1, Detecting, PTL

\* A LOST alert about a monitor heard before tells of a silence beyond the
\* threshold or of a heartbeat that arrived during the probe.
THEOREM LostExplained == Spec => []LostIsOldOrProbed
<1>1. DInv => LostIsOldOrProbed
  BY DEF DInv
<1> QED BY <1>1, Detecting, PTL

\* Without the probe no time passes between the check and the alert, so the LOST
\* alert of a monitor heard before always tells of a silence beyond the threshold:
\* the promise of README.md:220 fails by the probe's await alone.
THEOREM LostWithoutProbe ==
  ASSUME ~ProbeEnabled
  PROVE  Spec => [](issued = "lost" /\ lastLost.heard => lastLost.silence > Threshold)
<1>1. LostIsOldOrProbed => (issued = "lost" /\ lastLost.heard => lastLost.silence > Threshold)
  BY DEF LostIsOldOrProbed
<1> QED BY <1>1, LostExplained, PTL

-----------------------------------------------------------------------------
(* What a check finds, and what the chat shows                             *)

\* Unless an exception has cut its report short, a loss that was announced is
\* remembered until its recovery is.
LossStands ==
  issued = "lost" => pc = "sendLost" \/ (wasMissing /\ pc # "sendRecovered")

LEMMA StepStands ==
  "raised" \notin SendOutcome /\ LossStands /\ [Next]_vars => LossStands'
<1> SUFFICES ASSUME "raised" \notin SendOutcome, LossStands, [Next]_vars PROVE LossStands'
  OBVIOUS
<1> USE DEF LossStands
<1>1. CASE CheckMissing
  BY <1>1 DEF CheckMissing, CreateLost, AtCheck, Enter, alerts
<1>2. CASE CheckRecovered
  BY <1>2 DEF CheckRecovered
<1>3. CASE CheckQuiet
  BY <1>3 DEF CheckQuiet, AtCheck, Enter, alerts
<1>4. CASE ProbeDone
  BY <1>4 DEF ProbeDone, Enter
<1>5. CASE \E o \in SendOutcome : LostSent(o) \/ RecoveredSent(o)
  BY <1>5 DEF LostSent, RecoveredSent, Enter
<1>6. CASE Restart
  BY <1>6 DEF Restart
<1>7. CASE Tick \/ Heartbeat \/ Serve \/ UNCHANGED vars
  BY <1>7 DEF Tick, Elapse, Heartbeat, Serve, vars, alerts
<1> QED BY <1>1, <1>2, <1>3, <1>4, <1>5, <1>6, <1>7 DEF Next, MonitorLoop

\* A check that reports nothing has nothing to report: what was announced last is
\* what it finds, however far apart the checks are.
THEOREM QuietChecks == Spec => QuietCheckAgrees
<1> DEFINE Stands == "raised" \notin SendOutcome => LossStands
           Agrees == CheckQuiet /\ "raised" \notin SendOutcome => (issued = "lost" <=> Missing)
<1>1. Init => Stands
  BY DEF Init, LossStands
<1>2. Stands /\ [Next]_vars => Stands'
  BY StepStands
<1>3. DInv /\ Stands => Agrees
  <2> SUFFICES ASSUME DInv, Stands, CheckQuiet, "raised" \notin SendOutcome
               PROVE  issued = "lost" <=> Missing
    OBVIOUS
  <2>1. pc \in {"start", "sleep"}
    BY DEF CheckQuiet, AtCheck
  <2>2. ASSUME Missing PROVE issued = "lost"
    BY <2>1, <2>2 DEF CheckQuiet, ShouldAlertMissing, DInv, FlagMeansAlert
  <2>3. ASSUME ~Missing PROVE issued # "lost"
    BY <2>1, <2>3 DEF CheckQuiet, LossStands
  <2> QED BY <2>2, <2>3
<1> HIDE DEF Agrees, Stands
<1>4. Spec => [](DInv /\ Stands)
  BY <1>1, <1>2, Detecting, PTL DEF Spec
<1>5. Spec => [][Agrees]_vars
  BY <1>3, <1>4, PTL DEF Spec
<1> QED BY <1>5 DEF Agrees, QuietCheckAgrees

\* A loss is remembered only once its alert is in the chat, unless Telegram
\* refuses alerts, and until its recovery is there.
LossInChat ==
  /\ pc = "sendLost" => issued = "lost"
  /\ pc = "sendRecovered" => wasMissing
  /\ "failed" \notin SendOutcome /\ wasMissing => chat = "lost"

LEMMA StepInChat == LossInChat /\ [Next]_vars => LossInChat'
<1> SUFFICES ASSUME LossInChat, [Next]_vars PROVE LossInChat'
  OBVIOUS
<1> USE SentinelAssumption DEF LossInChat
<1>1. CASE CheckMissing
  BY <1>1 DEF CheckMissing, CreateLost, Enter, alerts
<1>2. CASE CheckRecovered
  BY <1>2 DEF CheckRecovered, Enter
<1>3. CASE CheckQuiet
  BY <1>3 DEF CheckQuiet, Enter, alerts
<1>4. CASE ProbeDone
  BY <1>4 DEF ProbeDone, CreateLost, Enter
<1>5. CASE \E o \in SendOutcome : LostSent(o) \/ RecoveredSent(o)
  <2>1. PICK o \in SendOutcome : LostSent(o) \/ RecoveredSent(o)
    BY <1>5
  <2>2. pc' = "sleep" /\ o \in {"sent", "failed", "raised"}
    BY <2>1 DEF LostSent, RecoveredSent, Enter
  <2> QED BY <2>1, <2>2 DEF LostSent, RecoveredSent, ChatAfter
<1>6. CASE Restart
  BY <1>6 DEF Restart
<1>7. CASE Tick \/ Heartbeat \/ Serve \/ UNCHANGED vars
  BY <1>7 DEF Tick, Elapse, Heartbeat, Serve, vars, alerts
<1> QED BY <1>1, <1>2, <1>3, <1>4, <1>5, <1>6, <1>7 DEF Next, MonitorLoop

\* A RECOVERED alert closes a loss that the reader of the chat knows of.
THEOREM RecoveryClosing == Spec => []RecoveryClosesLoss
<1>1. Init => LossInChat
  BY DEF Init, LossInChat
<1>2. LossInChat => RecoveryClosesLoss
  BY DEF LossInChat, RecoveryClosesLoss
<1> QED BY <1>1, <1>2, StepInChat, PTL DEF Spec

-----------------------------------------------------------------------------
(* Alternation                                                             *)

\* The last alert is LOST from its creation to the creation of RECOVERED.
Standing ==
  /\ issued = "lost" <=> pc = "sendLost" \/ (wasMissing /\ pc # "sendRecovered")
  /\ pc \in {"start", "probe", "sendLost"} => ~wasMissing
  /\ pc = "sendRecovered" => wasMissing

\* While a loss stands, a flag that is down was cleared by a heartbeat that
\* came after the last check.
ClearedByHeartbeat ==
  /\ ~alerted
  /\ pc = "sendLost" \/ (wasMissing /\ pc = "sleep")
  => heard /\ silence <= sinceCheck

AInv == DInv /\ Standing /\ ClearedByHeartbeat

LEMMA InitAlternate == Init => AInv
BY InitDetect DEF Init, AInv, Standing, ClearedByHeartbeat

LEMMA StepAlternate == Punctual /\ AInv /\ [Next]_vars => AInv'
<1> SUFFICES ASSUME Punctual, AInv, [Next]_vars PROVE AInv'
  OBVIOUS
<1>t. DInv'
  BY StepDetect DEF AInv
<1>g. sinceCheck \in Nat /\ sinceCheck <= MaxGap /\ silence \in 0 .. Cap
      /\ pc \in Point /\ MaxGap <= Threshold
  BY ConstantTypes DEF AInv, DInv, Typed, TypeOK, Punctual
<1> USE ConstantTypes, <1>t, <1>g DEF AInv, Standing, ClearedByHeartbeat, Point
<1>1. CASE Tick
  BY <1>1 DEF Tick, Elapse, alerts
<1>2. CASE CheckMissing /\ ProbeEnabled
  BY <1>2 DEF CheckMissing, ShouldAlertMissing, Missing, AtCheck, Enter, alerts
<1>3. CASE CheckMissing /\ ~ProbeEnabled
  BY <1>3 DEF CheckMissing, ShouldAlertMissing, Missing, CreateLost, AtCheck, Enter
<1>4. CASE CheckRecovered
  BY <1>4 DEF CheckRecovered, ShouldAlertMissing, AtCheck, Enter, store
<1>5. CASE CheckQuiet
  BY <1>5 DEF CheckQuiet, ShouldAlertMissing, AtCheck, Enter, store, alerts
<1>6. CASE ProbeDone
  BY <1>6 DEF ProbeDone, CreateLost, Enter, store, DInv, ProbedFlag, Typed, Clocks
<1>7. CASE \E o \in SendOutcome : LostSent(o) \/ RecoveredSent(o)
  <2>1. PICK o \in SendOutcome : LostSent(o) \/ RecoveredSent(o)
    BY <1>7
  <2>2. o # "raised"
    BY <2>1 DEF Punctual
  <2>3. /\ UNCHANGED <<heard, silence, alerted, issued, sinceCheck>> /\ pc' = "sleep"
        /\ \/ pc = "sendLost" /\ wasMissing' = TRUE
           \/ pc = "sendRecovered" /\ wasMissing' = FALSE
    BY <2>1, <2>2 DEF LostSent, RecoveredSent, Enter, store
  <2> QED BY <2>3
<1>8. CASE Heartbeat
  BY <1>8 DEF Heartbeat, alerts
<1>9. CASE Serve
  BY <1>9 DEF Serve, store, alerts
<1>10. CASE Restart
  BY <1>10 DEF Restart
<1>11. CASE UNCHANGED vars
  BY <1>11 DEF vars, store, alerts
<1> QED
  BY <1>1, <1>2, <1>3, <1>4, <1>5, <1>6, <1>7, <1>8, <1>9, <1>10, <1>11
     DEF Next, MonitorLoop

\* A step that creates an alert creates the one that OutageLog allows next.
LEMMA StepRefines ==
  Punctual /\ AInv /\ [Next]_vars => [Log!Next]_<<Announced, AnnouncedEven>>
<1> SUFFICES ASSUME Punctual, AInv, Next, ~ UNCHANGED <<issued, even>>
             PROVE  Log!Next
  <2>1. UNCHANGED vars => UNCHANGED <<issued, even>>
    BY DEF vars, alerts
  <2>2. UNCHANGED <<issued, even>> => UNCHANGED <<Announced, AnnouncedEven>>
    BY DEF Announced, AnnouncedEven
  <2> QED BY <2>1, <2>2
<1>g. /\ sinceCheck \in Nat /\ sinceCheck <= MaxGap /\ silence \in 0 .. Cap
      /\ pc \in Point /\ MaxGap <= Threshold
      /\ issued \in {"none", "lost", "recovered"}
  BY ConstantTypes DEF AInv, DInv, Typed, TypeOK, Punctual
<1>1. ASSUME even' = ~even PROVE AnnouncedEven' = [AnnouncedEven EXCEPT !["monitor"] = ~@]
  BY <1>1 DEF AnnouncedEven
<1>2. CASE (CheckMissing /\ ~ProbeEnabled) \/ ProbeDone
  <2>1. issued # "lost" /\ issued' = "lost" /\ even' = ~even
    BY <1>2, <1>g, ConstantTypes
       DEF CheckMissing, ProbeDone, CreateLost, AtCheck, ShouldAlertMissing,
           Missing, AInv, Standing, ClearedByHeartbeat
  <2>2. Announced["monitor"] # "out" /\ Announced' = [Announced EXCEPT !["monitor"] = "out"]
    BY <2>1, <1>g DEF Announced, Word
  <2>3. Log!Outage("monitor")
    BY <2>1, <2>2, <1>1 DEF Log!Outage, Log!Record
  <2> QED BY <2>3 DEF Log!Next
<1>3. CASE CheckRecovered
  <2>1. issued = "lost" /\ issued' = "recovered" /\ even' = ~even
    BY <1>3 DEF CheckRecovered, AtCheck, AInv, Standing
  <2>2. Announced["monitor"] = "out" /\ Announced' = [Announced EXCEPT !["monitor"] = "back"]
    BY <2>1 DEF Announced, Word
  <2>3. Log!Recovery("monitor")
    BY <2>1, <2>2, <1>1 DEF Log!Recovery, Log!Record
  <2> QED BY <2>3 DEF Log!Next
<1>4. CASE Restart
  BY <1>4 DEF Restart, Log!Next, Log!Restart, Announced, AnnouncedEven, Word
<1> QED
  BY <1>2, <1>3, <1>4
     DEF Next, MonitorLoop, CheckMissing, CheckQuiet, LostSent, RecoveredSent,
         Tick, Elapse, Heartbeat, Serve, alerts

\* When the checks are closer together than the threshold and no send raises,
\* LOST and RECOVERED alternate without repetition.
THEOREM Alternation ==
  ASSUME Punctual
  PROVE  Spec => AlertsAlternate
<1>1. Init => Log!Init
  BY DEF Init, Log!Init, Announced, AnnouncedEven, Word
<1>2. Punctual
  OBVIOUS
<1>3. AInv /\ [Next]_vars => AInv'
  BY <1>2, StepAlternate
<1>4. AInv /\ [Next]_vars => [Log!Next]_<<Announced, AnnouncedEven>>
  BY <1>2, StepRefines
<1> QED BY <1>1, <1>3, <1>4, InitAlternate, PTL DEF Spec, AlertsAlternate, Log!Spec, Log!log
=============================================================================
