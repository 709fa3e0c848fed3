-------------------------- MODULE ExternalProbeProofs --------------------------
(***************************************************************************)
(* Proofs about ExternalProbe for every bound on its awaits.               *)
(***************************************************************************)
EXTENDS ExternalProbe, SentinelProofs

LEMMA PortTimes ==
  /\ PortsMax(0) = 0
  /\ PortsMax(1) = ConnectMax + CloseMax
  /\ PortsMax(2) = PortsMax(1) + ConnectMax + CloseMax
  /\ PortsMax(3) = PortsMax(2) + ConnectMax + CloseMax
  /\ HttpMax \in Nat /\ ConnectMax \in Nat /\ CloseMax \in Nat
  /\ HttpMax + PortsMax(3) <= ProbeMax
BY ProbeAssumption, SentinelAssumption DEF PortsMax

LEMMA Services ==
  /\ Len(Ports) = 3
  /\ Service = {"http", Ports[1], Ports[2], Ports[3]}
BY DEF Ports, Service

-----------------------------------------------------------------------------
(* Where check() is, the time it has taken, what it has found              *)

\* The longest time of the awaits before the present one.
Before ==
  CASE step = "http" -> 0
    [] step = "connect" -> HttpMax + PortsMax(turn - 1)
    [] step = "close" -> HttpMax + PortsMax(turn - 1) + ConnectMax

Shape ==
  /\ step \in {"none", "http", "connect", "close"}
  /\ step # "none" <=> pc = "probe"
  /\ turn \in 0 .. 3 /\ elapsed \in Nat /\ timer \in Nat
  /\ result \in {"none", "REACHABLE", "UNREACHABLE"}
  /\ answering \subseteq Service /\ silent \subseteq Service /\ reset \subseteq Service
  /\ step \in {"connect", "close"} => turn # 0

\* The time of the probe is that of the awaits it has been through.
Budget == step # "none" => elapsed <= Limit /\ timer <= Before + elapsed

\* Whatever was passed over had been silent at some moment of this check, or had
\* failed while its connection was closed.
Passed ==
  /\ step \in {"connect", "close"} =>
       "http" \in silent /\ \A n \in 1 .. turn - 1 : Ports[n] \in silent \cup reset
  /\ SteadyServiceFound

PInv == Shape /\ Budget /\ Passed

LEMMA ProbeInitInv == ProbeInit => PInv
BY DEF ProbeInit, Init, PInv, Shape, Budget, Passed, SteadyServiceFound

LEMMA ContinueInv ==
  ASSUME PInv, step \in {"connect", "close"},
         NEW resets \in SUBSET Service, Continue(resets),
         reset \subseteq resets, Ports[turn] \in silent \cup resets,
         step = "connect" => elapsed <= ConnectMax,
         step = "close" => elapsed <= CloseMax
  PROVE  PInv'
<1>1. turn \in {1, 2, 3} /\ timer \in Nat /\ silent \subseteq Service
  BY DEF PInv, Shape
<1>2. "http" \in silent /\ \A n \in 1 .. turn : Ports[n] \in silent \cup resets
  BY <1>1 DEF PInv, Passed
<1>3. CASE turn < Len(Ports) /\ step' = "connect" /\ turn' = turn + 1 /\ elapsed' = 0
           /\ reset' = resets /\ UNCHANGED <<vars, result, answering, silent>>
  <2>1. turn \in {1, 2} /\ UNCHANGED <<pc, timer, result, answering, silent>>
    BY <1>1, <1>3, Services DEF vars
  <2>2. Shape'
    BY <1>3, <2>1 DEF PInv, Shape
  <2>3. result # "UNREACHABLE" \/ ("http" \in silent /\ silent \cup reset = Service)
    BY DEF PInv, Passed, SteadyServiceFound
  <2>4. SteadyServiceFound'
    BY <1>1, <1>3, <2>1, <2>3 DEF SteadyServiceFound
  <2>5. Passed'
    BY <1>2, <1>3, <2>1, <2>4 DEF Passed
  <2>6. timer <= HttpMax + PortsMax(turn)
    BY <2>1, PortTimes DEF PInv, Budget, Before, Limit, Shape
  <2>7. Budget'
    BY <1>3, <2>1, <2>6, PortTimes DEF Budget, Before, Limit
  <2> QED BY <2>2, <2>5, <2>7 DEF PInv
<1>4. CASE turn = Len(Ports) /\ Return("UNREACHABLE", resets)
  <2>1. silent \cup resets = Service
    <3>1. turn = 3
      BY <1>4, Services
    <3>2. /\ Ports[1] \in silent \cup resets /\ Ports[2] \in silent \cup resets
          /\ Ports[3] \in silent \cup resets
      BY <1>2, <3>1
    <3> QED BY <1>1, <1>2, <3>2, Services
  <2>2. silent' = silent /\ reset' = resets
    BY <1>4 DEF Return
  <2> QED BY <1>2, <1>4, <2>1, <2>2
          DEF Return, ProbeDone, Enter, PInv, Shape, Budget, Passed, SteadyServiceFound
<1> QED BY <1>3, <1>4 DEF Continue

LEMMA ReturnsInv ==
  ASSUME PInv, Return("REACHABLE", reset)
  PROVE  PInv'
BY DEF Return, ProbeDone, Enter, PInv, Shape, Budget, Passed, SteadyServiceFound

LEMMA ProbeStepInv == TypeOK' /\ PInv /\ [ProbeNext]_probeVars => PInv'
<1> SUFFICES ASSUME TypeOK', PInv, [ProbeNext]_probeVars PROVE PInv'
  OBVIOUS
<1> USE DEF PInv
<1>1. CASE ProbeStarts
  BY <1>1, PortTimes, ProbeAssumption DEF ProbeStarts, CheckMissing, Enter, Shape, Budget, Passed,
     SteadyServiceFound, Limit, Before
<1>2. CASE HttpAnswers \/ Closes
  BY <1>2, ReturnsInv DEF HttpAnswers, Closes
<1>3. CASE HttpFails
  <2>1. UNCHANGED <<pc, timer, result, answering, silent, reset>>
    BY <1>3 DEF HttpFails, vars, target
  <2>2. Shape' /\ Passed'
    BY <1>3, <2>1 DEF HttpFails, Shape, Passed, SteadyServiceFound
  <2>3. Budget'
    BY <1>3, <2>1, PortTimes DEF HttpFails, Shape, Budget, Limit, Before
  <2> QED BY <2>2, <2>3
<1>4. CASE Connects
  <2>1. UNCHANGED <<pc, timer, turn, result, answering, silent, reset>>
    BY <1>4 DEF Connects, vars, target
  <2>2. Shape' /\ Passed'
    BY <1>4, <2>1 DEF Connects, Shape, Passed, SteadyServiceFound
  <2>3. turn \in {1, 2, 3}
    BY <1>4 DEF Connects, Shape
  <2>4. Budget'
    BY <1>4, <2>1, <2>3, PortTimes DEF Connects, Shape, Budget, Limit, Before
  <2> QED BY <2>2, <2>4
<1>5. CASE ConnectFails
  <2>1. step = "connect" /\ elapsed <= ConnectMax /\ reset \in SUBSET Service
    BY <1>5 DEF ConnectFails, Budget, Limit, Shape
  <2> QED BY <1>5, <2>1, ContinueInv DEF ConnectFails
<1>6. CASE CloseFails
  <2>1. step = "close" /\ elapsed <= CloseMax /\ turn \in {1, 2, 3}
    BY <1>6 DEF CloseFails, Budget, Limit, Shape
  <2>2. PICK resets : resets = reset \cup {Ports[turn]}
    OBVIOUS
  <2>3. resets \in SUBSET Service
    BY <2>1, <2>2, Services DEF Shape
  <2>4. Continue(resets)
    BY <1>6, <2>2 DEF CloseFails
  <2> QED BY <2>1, <2>2, <2>3, <2>4, ContinueInv
<1>7. CASE \E s \in Service : TargetChanges(s)
  <2>1. /\ UNCHANGED <<pc, timer, step, turn, elapsed, result, reset>>
        /\ silent' \subseteq Service /\ silent \subseteq silent'
        /\ answering' \subseteq Service
    BY <1>7 DEF TargetChanges, vars, check, Shape
  <2>2. Shape' /\ Passed'
    BY <2>1 DEF Shape, Passed, SteadyServiceFound
  <2>3. Budget'
    BY <2>1 DEF Budget, Limit, Before
  <2> QED BY <2>2, <2>3
<1>8. CASE LoopSteps
  <2>1. pc # "probe" /\ pc' # "probe" /\ UNCHANGED <<check, target>>
    BY <1>8 DEF LoopSteps, CheckRecovered, CheckQuiet, LostSent, RecoveredSent, AtCheck, Enter
  <2>2. timer' \in Nat
    BY DEF TypeOK
  <2> QED BY <2>1, <2>2 DEF check, target, Shape, Budget, Passed, SteadyServiceFound
<1>9. CASE Arrivals \/ UNCHANGED probeVars
  <2>1. UNCHANGED <<pc, timer, check, target>>
    BY <1>9 DEF Arrivals, Heartbeat, Serve, probeVars, vars
  <2>2. Budget'
    BY <2>1 DEF check, Budget, Limit, Before
  <2> QED BY <2>1, <2>2 DEF check, target, Shape, Passed, SteadyServiceFound
<1>10. CASE ProbedRestart
  BY <1>10 DEF ProbedRestart, Restart, Shape, Budget, Passed, SteadyServiceFound
<1>11. CASE OtherTick
  <2>1. timer' \in Nat
    BY DEF TypeOK
  <2> QED BY <1>11, <2>1
          DEF OtherTick, Tick, Elapse, check, target, Shape, Budget, Passed, SteadyServiceFound
<1>12. CASE CheckTick
  <2>1. /\ timer' = timer + 1 /\ elapsed' = elapsed + 1 /\ elapsed < Limit /\ step # "none"
        /\ UNCHANGED <<pc, step, turn, result, answering, silent, reset>>
    BY <1>12 DEF CheckTick, Elapse, target
  <2>2. Shape' /\ Passed'
    BY <2>1 DEF Shape, Passed, SteadyServiceFound
  <2>3. Limit' = Limit /\ Before' = Before
    BY <2>1 DEF Limit, Before
  <2>4. Limit \in Nat
    BY <2>1, PortTimes DEF Limit, Shape
  <2>5. turn \in {1, 2, 3} \/ step = "http"
    BY <2>1 DEF Shape
  <2>6. Before \in Nat
    BY <2>1, <2>5, PortTimes DEF Before, Shape
  <2>7. Budget'
    BY <2>1, <2>3, <2>4, <2>6 DEF Budget, Shape
  <2> QED BY <2>2, <2>7
<1> QED
  BY <1>1, <1>2, <1>3, <1>4, <1>5, <1>6, <1>7, <1>8, <1>9, <1>10, <1>11, <1>12
     DEF ProbeNext, ProbedLoop, CheckSteps

-----------------------------------------------------------------------------
(* The whole is an instance of module Sentinel                             *)

LEMMA TickInTime ==
  ASSUME PInv, CheckTick
  PROVE  Tick
<1>1. pc = "probe" /\ StepMax = ProbeMax
  BY StepMaxValue DEF CheckTick, PInv, Shape
<1>2. elapsed < Limit /\ timer <= Before + elapsed
  BY DEF CheckTick, PInv, Budget
<1>3. turn \in {1, 2, 3} \/ step = "http"
  BY DEF CheckTick, PInv, Shape
<1>4. Before + Limit <= HttpMax + PortsMax(3) /\ Before \in Nat /\ Limit \in Nat
  BY <1>3, PortTimes DEF CheckTick, PInv, Shape, Before, Limit
<1>5. timer < ProbeMax
  BY <1>2, <1>4, PortTimes, SentinelAssumption DEF PInv, Shape
<1> QED BY <1>1, <1>5 DEF CheckTick, Tick

LEMMA ProbeStepIsStep == PInv /\ [ProbeNext]_probeVars => [Next]_vars
<1> SUFFICES ASSUME PInv, [ProbeNext]_probeVars PROVE [Next]_vars
  OBVIOUS
<1>1. CASE ProbeStarts \/ LoopSteps
  BY <1>1 DEF ProbeStarts, LoopSteps, Next, MonitorLoop
<1>2. CASE CheckSteps
  <2>1. ProbeDone \/ UNCHANGED vars
    BY <1>2 DEF CheckSteps, HttpAnswers, HttpFails, Connects, ConnectFails, Closes, CloseFails,
       Continue, Return
  <2> QED BY <2>1 DEF Next, MonitorLoop
<1>3. CASE \E s \in Service : TargetChanges(s)
  BY <1>3 DEF TargetChanges
<1>4. CASE Arrivals \/ ProbedRestart \/ OtherTick
  BY <1>4 DEF Arrivals, ProbedRestart, OtherTick, Next
<1>5. CASE CheckTick
  BY <1>5, TickInTime DEF Next
<1>6. CASE UNCHANGED probeVars
  BY <1>6 DEF probeVars
<1> QED BY <1>1, <1>2, <1>3, <1>4, <1>5, <1>6 DEF ProbeNext, ProbedLoop

LEMMA ProbeAlways == ProbeSpec => [](PInv /\ TypeOK /\ Typed)
<1>1. ProbeInit => Init
  BY DEF ProbeInit
<1>2. Typed => TypeOK
  BY DEF Typed
<1> QED BY <1>1, <1>2, InitTyped, StepTyped, ProbeInitInv, ProbeStepInv, ProbeStepIsStep, PTL
        DEF ProbeSpec

\* The probe with all its awaits, within whose own timeouts no time passes
\* beyond ProbeMax, implements the sentinel (the safety of ImplementsSentinel).
THEOREM SentinelImplemented == ProbeSpec => Spec
<1>1. ProbeInit => Init
  BY DEF ProbeInit
<1> QED BY <1>1, ProbeAlways, ProbeStepIsStep, PTL DEF ProbeSpec, Spec

\* So a silence has its LOST alert in time, whatever path the probe takes.
THEOREM ProbedDetection == ProbeSpec => []SilenceAnnounced
BY SentinelImplemented, Detection, PTL

\* A target is called unreachable only if each of its services was out at some
\* moment of the check, or failed to close a connection it had accepted.
THEOREM SteadyServices == ProbeSpec => []SteadyServiceFound
<1>1. PInv => SteadyServiceFound
  BY DEF PInv, Passed
<1> QED BY <1>1, ProbeAlways, PTL

\* Every variable keeps its type; check() is under way exactly in the probe.
THEOREM ProbeTyping == ProbeSpec => []ProbeTypeOK
<1>1. PInv /\ TypeOK => ProbeTypeOK
  BY DEF PInv, Shape, ProbeTypeOK
<1> QED BY <1>1, ProbeAlways, PTL

\* A check that finds nothing to report agrees with the last alert, however the
\* loop's timing compares with the threshold.
THEOREM ProbedQuietChecks == ProbeSpec => QuietCheckAgrees
<1>1. Spec => QuietCheckAgrees
  BY QuietChecks
<1> QED BY <1>1, SentinelImplemented, PTL

\* What else the sentinel promises holds with the probe in full: LOST and
\* RECOVERED alternate, ...
THEOREM ProbedAlternation ==
  ASSUME Punctual
  PROVE  ProbeSpec => AlertsAlternate
<1>1. Spec => AlertsAlternate
  BY Alternation
<1> QED BY <1>1, SentinelImplemented, PTL

\* ... and a LOST alert that tells of a short silence is explained by a heartbeat
\* that came during the probe's own awaits.
THEOREM ProbedLost == ProbeSpec => []LostIsOldOrProbed
BY SentinelImplemented, LostExplained, PTL
=============================================================================
