---------------------------- MODULE ExternalProbe ----------------------------
(***************************************************************************)
(* The sentinel of module Sentinel with the probe in full: what            *)
(* ExternalProbe.check tries between CheckMissing and ProbeDone, one await *)
(* after the other, while the services of the target come and go.          *)
(***************************************************************************)
EXTENDS Sentinel, Sequences

CONSTANTS
  HttpMax,      \* bound on the HTTP request: the timeouts of its phases
  ConnectMax,   \* external_probe.timeout, on each connection
  CloseMax      \* bound on wait_closed, which is outside that timeout

Ports == <<"port80", "port443", "port22">>
Service == {"http"} \cup {Ports[n] : n \in DOMAIN Ports}

\* The time of n ports.
PortsMax(n) == n * (ConnectMax + CloseMax)

ASSUME ProbeAssumption ==
  /\ HttpMax \in Nat /\ ConnectMax \in Nat /\ CloseMax \in Nat
  /\ ProbeEnabled        \* otherwise check() returns at once
  /\ ProbeMax >= HttpMax + PortsMax(3)

VARIABLES
  step,       \* the await that check() is in
  turn,       \* the position in Ports of the port it tries
  elapsed,    \* ticks spent in that await
  result,     \* the ProbeResult of the last check
  answering,  \* the services of the target that answer now; {} outside a check
  silent,     \* those that did not at some moment of the check (auxiliary)
  reset       \* the ports whose connection failed while it was closed (auxiliary);
              \* both are kept after a check that found nothing

check == <<step, turn, elapsed, result>>
target == <<answering, silent, reset>>
probeVars == <<vars, check, target>>

-----------------------------------------------------------------------------
(* ExternalProbe.check                                                     *)

ProbeInit ==
  /\ Init
  /\ step = "none" /\ turn = 0 /\ elapsed = 0 /\ result = "none"
  /\ answering = {} /\ silent = {} /\ reset = {}

\* check() returns, and the alert is created and its send begun without an await.
Return(r, resets) ==
  /\ ProbeDone
  /\ step' = "none" /\ turn' = 0 /\ elapsed' = 0 /\ result' = r
  /\ answering' = {}
  /\ silent' = IF r = "REACHABLE" THEN {} ELSE silent
  /\ reset' = IF r = "REACHABLE" THEN {} ELSE resets

ProbeStarts ==
  /\ CheckMissing
  /\ step' = "http" /\ turn' = 0 /\ elapsed' = 0 /\ result' = "none"
  /\ answering' \in SUBSET Service /\ silent' = Service \ answering' /\ reset' = {}

\* Any response will do, ...
HttpAnswers ==
  /\ step = "http" /\ "http" \in answering
  /\ Return("REACHABLE", reset)

\* ... and after any exception the ports are tried.
HttpFails ==
  /\ step = "http" /\ "http" \in silent
  /\ step' = "connect" /\ turn' = 1 /\ elapsed' = 0
  /\ UNCHANGED <<vars, result, target>>

Connects ==
  /\ step = "connect" /\ Ports[turn] \in answering
  /\ step' = "close" /\ elapsed' = 0
  /\ UNCHANGED <<vars, turn, result, target>>

\* Faulty: the first port that fails decides; nothing ends the list of ports.
ContinueBreaks(resets) == Return("UNREACHABLE", resets)
ContinueEndless(resets) ==
  /\ step' = "connect" /\ turn' = turn + 1 /\ elapsed' = 0 /\ reset' = resets
  /\ UNCHANGED <<vars, result, answering, silent>>

\* The next port, or none is left.
Continue(resets) ==
  \/ /\ turn < Len(Ports)
     /\ step' = "connect" /\ turn' = turn + 1 /\ elapsed' = 0 /\ reset' = resets
     /\ UNCHANGED <<vars, result, answering, silent>>
  \/ /\ turn = Len(Ports)
     /\ Return("UNREACHABLE", resets)

\* Refused, or no connection in time.
ConnectFails ==
  /\ step = "connect" /\ Ports[turn] \in silent
  /\ Continue(reset)

Closes ==
  /\ step = "close"
  /\ Return("REACHABLE", reset)

\* The connection was accepted and fails while it is closed: the port counts as
\* failed, whether or not its service goes on answering.
CloseFails ==
  /\ step = "close"
  /\ Continue(reset \cup {Ports[turn]})

CheckSteps ==
  HttpAnswers \/ HttpFails \/ Connects \/ ConnectFails \/ Closes \/ CloseFails

-----------------------------------------------------------------------------
(* The target, the other steps of the sentinel, time                       *)

\* A service goes down or comes up, at any moment.
TargetChanges(s) ==
  /\ step # "none"
  /\ answering' = IF s \in answering THEN answering \ {s} ELSE answering \cup {s}
  /\ silent' = silent \cup (Service \ answering')
  /\ UNCHANGED <<vars, check, reset>>

LoopSteps ==
  /\ CheckRecovered \/ CheckQuiet \/ \E o \in SendOutcome : LostSent(o) \/ RecoveredSent(o)
  /\ UNCHANGED <<check, target>>

Arrivals == (Heartbeat \/ Serve) /\ UNCHANGED <<check, target>>

ProbedRestart ==
  /\ Restart
  /\ step' = "none" /\ turn' = 0 /\ elapsed' = 0 /\ result' = "none"
  /\ answering' = {} /\ silent' = {} /\ reset' = {}

Limit ==
  CASE step = "http" -> HttpMax [] step = "connect" -> ConnectMax [] step = "close" -> CloseMax

\* A tick outside the probe, ...
OtherTick == step = "none" /\ Tick /\ UNCHANGED <<check, target>>

CheckTickUnlimited ==            \* Faulty: connections without a timeout.
  /\ step = "connect" \/ (step # "none" /\ elapsed < Limit)
  /\ Elapse
  /\ elapsed' = elapsed + 1
  /\ UNCHANGED <<step, turn, result, target>>

\* ... and one in it, where only check()'s own timeouts limit the time.
CheckTick ==
  /\ step # "none" /\ elapsed < Limit
  /\ Elapse
  /\ elapsed' = elapsed + 1
  /\ UNCHANGED <<step, turn, result, target>>

-----------------------------------------------------------------------------

ProbedLoop == ProbeStarts \/ CheckSteps \/ LoopSteps

ProbeNext ==
  \/ ProbedLoop \/ Arrivals \/ \E s \in Service : TargetChanges(s)
  \/ ProbedRestart \/ OtherTick \/ CheckTick

ProbeSpec == ProbeInit /\ [][ProbeNext]_probeVars

\* Every await of the loop ends, those of check() included; time passes.
ProbeFairSpec ==
  /\ ProbeSpec
  /\ WF_probeVars(ProbedLoop) /\ WF_probeVars(OtherTick \/ CheckTick)

-----------------------------------------------------------------------------
(* Properties                                                              *)

\* Every variable keeps its type, and check() is in an await exactly while the
\* monitor loop is in the probe.
ProbeTypeOK ==
  /\ TypeOK
  /\ step \in {"none", "http", "connect", "close"}
  /\ step # "none" <=> pc = "probe"
  /\ turn \in 0 .. 3 /\ elapsed \in Nat
  /\ result \in {"none", "REACHABLE", "UNREACHABLE"}
  /\ answering \subseteq Service /\ silent \subseteq Service /\ reset \subseteq Service

\* The alert says that the connection is likely down only if HTTP and each port
\* were out at some moment of the probe, or the port accepted a connection and
\* failed while it was closed: a service that answers and closes throughout is
\* found, in whatever order the others fail.
SteadyServiceFound ==
  result = "UNREACHABLE" => "http" \in silent /\ silent \cup reset = Service

\* The whole is an instance of module Sentinel: in particular the awaits of
\* check(), on whichever path, end within ProbeMax, on which the promptness of
\* the LOST alert rests.
ImplementsSentinel == FairSpec
=============================================================================
