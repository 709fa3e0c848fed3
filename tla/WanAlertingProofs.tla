-------------------------- MODULE WanAlertingProofs --------------------------
(***************************************************************************)
(* Proofs about WanAlerting for every number of WANs, every gateway map    *)
(* (shared gateways included), every set of send outcomes and every value  *)
(* of the bounds.                                                          *)
(***************************************************************************)
EXTENDS WanAlerting, TLAPS

-----------------------------------------------------------------------------
(* Facts about the operators                                               *)

\* Of the WANs of one poll at most one is the default route, even when two
\* of them share its gateway.
LEMMA OneActive ==
  ASSUME NEW h, NEW v \in Wan, NEW w \in Wan, IsActive(v, h), IsActive(w, h)
  PROVE  v = w
BY DEF IsActive, Wan

\* Every poll yields one well-formed state for each WAN.
LEMMA PolledType ==
  ASSUME TypeOK, NEW h
  PROVE  Polled(h) \in [Wan -> State]
BY WanAlertingAssumption DEF TypeOK, Polled, State, StatusOf, SinceOf

\* An alert about a WAN state is well formed.
LEMMA AlertForType ==
  ASSUME NEW s \in State, NEW p \in State
  PROVE  AlertFor(s, p) \in Alert
BY WanAlertingAssumption DEF AlertFor, Alert, State, Kind

-----------------------------------------------------------------------------
(* Type correctness                                                        *)

\* The states being processed come from a poll, which knows no third status,
\* and an alert being sent is about one of them.
PolledKnown ==
  /\ pc = "send" => k \in Wan
  /\ pc \in {"process", "send"} =>
       \A w \in Wan : lastStates[w].status \in {"up", "down"}

Typed == TypeOK /\ PolledKnown

LEMMA InitTyped == Init => Typed
BY WanAlertingAssumption
   DEF Init, Typed, TypeOK, PolledKnown, State, Alert, Point, NoState, NoAlert, Wan

LEMMA StepTyped == Typed /\ [Next]_vars => Typed'
<1> SUFFICES ASSUME Typed, [Next]_vars PROVE Typed'
  OBVIOUS
<1> USE WanAlertingAssumption DEF Typed, PolledKnown
<1>1. CASE PollStart
  BY <1>1 DEF PollStart, TypeOK, Point, ChosenInterval, AtLoopTest, engineVars, chatVars
<1>2. CASE PollExit
  BY <1>2 DEF PollExit, TypeOK, Point, AtLoopTest, engineVars, pollVars, chatVars
<1>3. CASE \E h \in Addr \cup {NoAnswer} : PollReturn(h)
  BY <1>3, PolledType DEF PollReturn, TypeOK, Point, engineVars, chatVars, Polled, StatusOf
<1>4. CASE ProcessQuiet
  <2>1. lastStates[k] \in State /\ Steady(stable[k]) \in 0 .. StablePolls
        /\ k + 1 \in 1 .. NumWans + 1
    BY <1>4 DEF ProcessQuiet, TypeOK, Wan, Steady
  <2> QED BY <1>4, <2>1 DEF ProcessQuiet, TypeOK, pollVars, chatVars
<1>5. CASE ProcessAlert
  <2>1. /\ lastStates[k].status \in {"up", "down"}
        /\ lastStates[k] \in State /\ previous[k] \in State
    BY <1>5 DEF ProcessAlert, TypeOK, State, MustAlert, ShouldAlert
  <2> QED BY <1>5, <2>1, AlertForType
          DEF ProcessAlert, TypeOK, Point, pollVars, chatVars
<1>6. CASE \E o \in SendOutcome : SendReturned(o)
  <2>1. PICK o \in SendOutcome : SendReturned(o)
    BY <1>6
  <2>2. k + 1 \in 1 .. NumWans + 1 /\ issued[k].kind \in {"none", "DOWN", "RECOVERED"}
    BY <2>1 DEF SendReturned, TypeOK, Alert, Wan
  <2>3. chat' \in [Wan -> {"none", "DOWN", "RECOVERED"}]
    BY <2>1, <2>2 DEF SendReturned, TypeOK
  <2> QED BY <2>1, <2>2, <2>3 DEF SendReturned, TypeOK, Point, engineVars, pollVars, chatVars
<1>7. CASE \E o \in SendOutcome : SendRaised(o)
  BY <1>7 DEF SendRaised, TypeOK, Point, engineVars, pollVars, chatVars
<1>8. CASE EndOfPoll
  BY <1>8 DEF EndOfPoll, TypeOK, Point, engineVars, pollVars, chatVars
<1>9. CASE SendHeartbeat
  BY <1>9 DEF SendHeartbeat, TypeOK, State, engineVars, pollVars, chatVars
<1>10. CASE Stop
  BY <1>10 DEF Stop, TypeOK, engineVars, pollVars, chatVars
<1>11. CASE Restart
  BY <1>11 DEF Restart, TypeOK, State, Alert, Point, NoState, NoAlert, Wan
<1>12. CASE UNCHANGED vars
  BY <1>12 DEF vars, TypeOK, engineVars, pollVars, chatVars
<1> QED
  BY <1>1, <1>2, <1>3, <1>4, <1>5, <1>6, <1>7, <1>8, <1>9, <1>10, <1>11, <1>12
     DEF Next, PollLoop

\* Every variable keeps the type that the fields of the code give it.
THEOREM Typing == Spec => []TypeOK
<1>1. Typed => TypeOK
  BY DEF Typed
<1> QED BY <1>1, InitTyped, StepTyped, PTL DEF Spec

-----------------------------------------------------------------------------
(* The inductive invariant                                                 *)

\* The for loop has handed the engine the WANs before k and no other one: a
\* completed poll is known entirely.
Progress ==
  /\ pc \in {"process", "send"} =>
       \A w \in Wan : w < k => previous[w] = lastStates[w]
  /\ pc = "send" => previous[k] = lastStates[k]
  /\ pc = "sleep" => previous = lastStates

\* A poll finds at most one WAN up.
OneUp ==
  \A v, w \in Wan :
    lastStates[v].status = "up" /\ lastStates[w].status = "up" => v = w

\* About a WAN that no dropped poll has left out, the engine and the poller
\* remember the same poll, and the same 'since' while a status lasts.
Lockstep ==
  \A w \in Wan \ gapped :
    /\ pc \notin {"process", "send"} => previous[w] = lastStates[w]
    /\ previous[w].status = lastStates[w].status => previous[w] = lastStates[w]
    /\ issued[w].kind = "DOWN" => previous[w].since = issued[w].at

IInv == Typed /\ EngineAgrees /\ Progress /\ OneUp /\ Lockstep

LEMMA InitInv == Init => IInv
<1> SUFFICES ASSUME Init PROVE IInv
  OBVIOUS
<1> QED BY InitTyped
        DEF Init, IInv, EngineAgrees, Progress, OneUp, Lockstep, NoState, NoAlert

LEMMA StepInv == IInv /\ [Next]_vars => IInv'
<1> SUFFICES ASSUME IInv, [Next]_vars PROVE IInv'
  OBVIOUS
<1> USE WanAlertingAssumption
<1>t. Typed'
  BY StepTyped DEF IInv
<1>1. CASE PollStart \/ PollExit \/ EndOfPoll \/ SendHeartbeat \/ Stop
  <2>1. UNCHANGED <<lastStates, engineVars, k, gapped>>
    BY <1>1 DEF PollStart, PollExit, EndOfPoll, SendHeartbeat, Stop, pollVars, chatVars
  <2>2. EngineAgrees' /\ OneUp'
    BY <2>1 DEF IInv, EngineAgrees, OneUp, engineVars
  <2>3. Progress' /\ Lockstep'
    <3>1. CASE EndOfPoll
      <4>1. \A w \in Wan : previous[w] = lastStates[w]
        BY <3>1 DEF EndOfPoll, IInv, Progress, Wan
      <4>2. previous = lastStates
        BY <4>1 DEF IInv, Typed, TypeOK
      <4> QED BY <3>1, <2>1, <4>2 DEF EndOfPoll, IInv, Progress, Lockstep, engineVars
    <3>2. CASE PollStart \/ PollExit
      BY <3>2, <2>1 DEF PollStart, PollExit, AtLoopTest, IInv, Progress, Lockstep, engineVars
    <3>3. CASE SendHeartbeat \/ Stop
      BY <3>3, <2>1 DEF SendHeartbeat, Stop, IInv, Progress, Lockstep, engineVars
    <3> QED BY <1>1, <3>1, <3>2, <3>3
  <2> QED BY <1>t, <2>2, <2>3 DEF IInv
<1>2. CASE \E h \in Addr \cup {NoAnswer} : PollReturn(h)
  <2>1. PICK h \in Addr \cup {NoAnswer} : PollReturn(h)
    BY <1>2
  <2>2. EngineAgrees' /\ Progress'
    BY <2>1 DEF PollReturn, IInv, EngineAgrees, Progress, engineVars, Wan
  <2>3. OneUp'
    BY <2>1, OneActive DEF PollReturn, Polled, StatusOf, OneUp
  <2>4. Lockstep'
    <3> SUFFICES ASSUME NEW w \in Wan \ gapped
                 PROVE  /\ previous[w].status = lastStates'[w].status
                             => previous[w] = lastStates'[w]
                        /\ issued[w].kind = "DOWN" => previous[w].since = issued[w].at
      BY <2>1 DEF Lockstep, PollReturn, engineVars, chatVars
    <3>1. previous[w] = lastStates[w]
      BY <2>1 DEF PollReturn, IInv, Lockstep
    <3>2. lastStates'[w] = [status |-> StatusOf(w, h),
                            since |-> SinceOf(previous[w], StatusOf(w, h))]
      BY <2>1, <3>1 DEF PollReturn, Polled
    <3>3. previous[w] \in State
      BY DEF IInv, Typed, TypeOK
    <3>4. ASSUME previous[w].status = StatusOf(w, h)
          PROVE  previous[w] = [status |-> StatusOf(w, h), since |-> previous[w].since]
      BY <3>3, <3>4 DEF State
    <3> QED BY <3>2, <3>4 DEF SinceOf, IInv, Lockstep
  <2> QED BY <1>t, <2>2, <2>3, <2>4 DEF IInv
<1>3. CASE ProcessQuiet
  <2>1. lastStates[k].status \in {"up", "down"}
    BY <1>3 DEF ProcessQuiet, IInv, Typed, PolledKnown
  <2>2. previous' \in [Wan -> State] /\ previous'[k] = lastStates[k]
        /\ \A w \in Wan \ {k} : previous'[w] = previous[w]
    BY <1>3 DEF ProcessQuiet, IInv, Typed, TypeOK
  <2>3. /\ current[k] = "unknown" => lastStates[k].status = "up"
        /\ current[k] # "unknown" => lastStates[k].status = current[k]
    BY <1>3, <2>1 DEF ProcessQuiet, MustAlert, ShouldAlert
  <2>4. EngineAgrees'
    BY <1>3, <2>2, <2>3 DEF ProcessQuiet, IInv, EngineAgrees
  <2>5. Progress' /\ OneUp'
    BY <1>3, <2>2 DEF ProcessQuiet, pollVars, IInv, Typed, TypeOK, Progress, OneUp, Wan
  <2>6. Lockstep'
    BY <1>3, <2>2, <2>3 DEF ProcessQuiet, pollVars, chatVars, IInv, EngineAgrees, Lockstep
  <2> QED BY <1>t, <2>4, <2>5, <2>6 DEF IInv
<1>4. CASE ProcessAlert
  <2>1. lastStates[k].status \in {"up", "down"}
    BY <1>4 DEF ProcessAlert, IInv, Typed, PolledKnown
  <2>2. /\ previous'[k] = lastStates[k] /\ current'[k] = lastStates[k].status
        /\ issued'[k] = AlertFor(lastStates[k], previous[k])
        /\ \A w \in Wan \ {k} : /\ previous'[w] = previous[w]
                                /\ current'[w] = current[w]
                                /\ issued'[w] = issued[w]
    BY <1>4 DEF ProcessAlert, IInv, Typed, TypeOK
  <2>3. /\ issued'[k].kind = Kind(lastStates[k].status)
        /\ issued'[k].at = lastStates[k].since
    BY <2>2 DEF AlertFor
  <2>4. EngineAgrees'
    BY <1>4, <2>1, <2>2, <2>3 DEF IInv, EngineAgrees, Kind
  <2>5. Progress' /\ OneUp'
    BY <1>4, <2>2 DEF ProcessAlert, pollVars, IInv, Typed, TypeOK, Progress, OneUp, Wan
  <2>6. Lockstep'
    BY <1>4, <2>2, <2>3 DEF ProcessAlert, pollVars, IInv, Lockstep
  <2> QED BY <1>t, <2>4, <2>5, <2>6 DEF IInv
<1>5. CASE \E o \in SendOutcome : SendReturned(o)
  <2>1. /\ pc = "send" /\ pc' = "process" /\ k' = k + 1 /\ k \in Wan
        /\ UNCHANGED <<lastStates, engineVars, gapped>>
    BY <1>5 DEF SendReturned, pollVars, IInv, Typed, PolledKnown
  <2>2. EngineAgrees' /\ OneUp' /\ Lockstep'
    BY <2>1 DEF IInv, EngineAgrees, OneUp, Lockstep, engineVars
  <2>3. Progress'
    BY <2>1 DEF IInv, Progress, engineVars, Wan
  <2> QED BY <1>t, <2>2, <2>3 DEF IInv
<1>6. CASE \E o \in SendOutcome : SendRaised(o)
  <2>1. /\ pc = "send" /\ pc' = "backoff" /\ k \in Wan
        /\ gapped' = gapped \cup {w \in Wan : w > k}
        /\ UNCHANGED <<lastStates, engineVars>>
    BY <1>6 DEF SendRaised, pollVars, IInv, Typed, PolledKnown
  <2>2. EngineAgrees' /\ Progress' /\ OneUp'
    BY <2>1 DEF IInv, EngineAgrees, Progress, OneUp, engineVars
  <2>3. Lockstep'
    <3>1. ASSUME NEW w \in Wan, ~(w > k) PROVE previous[w] = lastStates[w]
      <4>1. w < k \/ w = k
        BY <2>1, <3>1 DEF Wan
      <4> QED BY <2>1, <4>1 DEF IInv, Progress
    <3> QED BY <2>1, <3>1 DEF IInv, Lockstep, engineVars
  <2> QED BY <1>t, <2>2, <2>3 DEF IInv
<1>7. CASE Restart
  BY <1>t, <1>7 DEF Restart, IInv, EngineAgrees, Progress, OneUp, Lockstep,
                    NoState, NoAlert
<1>8. CASE UNCHANGED vars
  BY <1>t, <1>8 DEF vars, pollVars, engineVars, chatVars, IInv, EngineAgrees, Progress,
                    OneUp, Lockstep
<1> QED
  BY <1>1, <1>2, <1>3, <1>4, <1>5, <1>6, <1>7, <1>8 DEF Next, PollLoop

LEMMA Invariance == Spec => []IInv
BY InitInv, StepInv, PTL DEF Spec

-----------------------------------------------------------------------------
(* What follows from it                                                    *)

\* The deduplication memory never disagrees with what was announced.
THEOREM EngineAgreement == Spec => []EngineAgrees
<1>1. IInv => EngineAgrees
  BY DEF IInv
<1> QED BY <1>1, Invariance, PTL

\* After a completed poll the WANs announced DOWN are those polled down, even
\* if exceptions cut earlier polls short.
THEOREM Settling == Spec => []SettledReport
<1>1. IInv => SettledReport
  BY DEF IInv, EngineAgrees, Progress, SettledReport
<1> QED BY <1>1, Invariance, PTL

\* After every completed poll, also one that follows polls cut short, the
\* states a heartbeat picks up are those of that poll, at most one of them up.
THEOREM Snapshot == Spec => []SnapshotIsOnePoll
<1>1. IInv => SnapshotIsOnePoll
  BY DEF IInv, Progress, OneUp, SnapshotIsOnePoll
<1> QED BY <1>1, Invariance, PTL

\* The downtime in a RECOVERED alert is that of the outage announced, unless a
\* dropped poll left the WAN out in between.
THEOREM Downtime == Spec => DowntimeCoversOutage
<1> DEFINE Covers ==
      \A w \in Wan \ gapped :
        issued[w].kind = "DOWN" /\ issued'[w].kind = "RECOVERED"
        => issued'[w].from = issued[w].at
<1>1. IInv /\ [Next]_vars => [Covers]_vars
  <2> SUFFICES ASSUME IInv, Next, NEW w \in Wan \ gapped,
                      issued[w].kind = "DOWN", issued'[w].kind = "RECOVERED"
               PROVE  issued'[w].from = issued[w].at
    OBVIOUS
  <2>1. issued' # issued
    OBVIOUS
  <2>2. CASE ProcessAlert
    <3>1. w = k /\ issued'[w] = AlertFor(lastStates[w], previous[w])
      BY <2>2 DEF ProcessAlert, IInv, Typed, TypeOK
    <3>2. previous[w].status = "down" /\ previous[w].since = issued[w].at
      BY DEF IInv, EngineAgrees, Lockstep
    <3>3. lastStates[w].status = "up"
      BY <2>2, <3>1 DEF ProcessAlert, AlertFor, Kind, IInv, Typed, PolledKnown
    <3> QED BY <3>1, <3>2, <3>3 DEF AlertFor
  <2>3. CASE Restart
    BY <2>3 DEF Restart, NoAlert
  <2> QED
    BY <2>1, <2>2, <2>3
       DEF Next, PollLoop, PollStart, PollExit, PollReturn, ProcessQuiet, SendReturned,
           SendRaised, EndOfPoll, SendHeartbeat, Stop, engineVars, chatVars
<1> QED BY <1>1, Invariance, PTL DEF Spec, DowntimeCoversOutage

\* The alerts about each WAN implement OutageLog: DOWN and RECOVERED alternate.
THEOREM Alternation == Spec => AlertsAlternate
<1>1. Init => Log!Init
  BY DEF Init, Log!Init, Announced, Word, NoAlert
<1>2. IInv /\ [Next]_vars => [Log!Next]_<<Announced, even>>
  <2> SUFFICES ASSUME IInv, Next, ~ UNCHANGED <<issued, even>>
               PROVE  Log!Next
    <3>1. issued' = issued => Announced' = Announced
      BY DEF Announced
    <3>2. UNCHANGED vars => UNCHANGED <<issued, even>>
      BY DEF vars, engineVars, chatVars
    <3> QED BY <3>1, <3>2
  <2>1. CASE ProcessAlert
    <3>1. /\ lastStates[k].status \in {"up", "down"} /\ k \in Wan
          /\ issued'[k].kind = Kind(lastStates[k].status)
          /\ \A w \in Wan \ {k} : issued'[w] = issued[w]
          /\ issued[k].kind \in {"none", "DOWN", "RECOVERED"}
      BY <2>1 DEF ProcessAlert, AlertFor, IInv, Typed, TypeOK, PolledKnown, Alert
    <3>2. /\ issued[k].kind = "DOWN" => lastStates[k].status = "up"
          /\ issued[k].kind # "DOWN" => lastStates[k].status = "down"
      BY <2>1, <3>1
         DEF ProcessAlert, MustAlert, ShouldAlert, IInv, Typed, TypeOK, EngineAgrees
    <3>3. even' = [even EXCEPT ![k] = ~@]
      BY <2>1 DEF ProcessAlert
    <3> DEFINE word == Word[issued'[k].kind]
    <3>4. Announced' = [Announced EXCEPT ![k] = word]
      <4>1. \A w \in Wan \ {k} : Announced'[w] = Announced[w]
        <5> SUFFICES ASSUME NEW w \in Wan \ {k} PROVE Announced'[w] = Announced[w]
          OBVIOUS
        <5>1. issued'[w].kind = issued[w].kind
          BY <3>1
        <5> QED BY <5>1 DEF Announced
      <4>2. Announced'[k] = word
        BY <3>1 DEF Announced
      <4>3. /\ Announced = [w \in Wan |-> Announced[w]]
            /\ Announced' = [w \in Wan |-> Announced'[w]]
        BY DEF Announced
      <4> HIDE DEF word
      <4> QED BY <4>1, <4>2, <4>3
    <3>5. \/ Announced[k] # "out" /\ word = "out"
          \/ Announced[k] = "out" /\ word = "back"
      BY <3>1, <3>2 DEF Announced, Word, Kind
    <3> HIDE DEF word
    <3>6. Log!Outage(k) \/ Log!Recovery(k)
      BY <3>3, <3>4, <3>5 DEF Log!Outage, Log!Recovery, Log!Record
    <3> QED BY <3>1, <3>6 DEF Log!Next
  <2>2. CASE Restart
    BY <2>2 DEF Restart, Log!Next, Log!Restart, Announced, Word, NoAlert
  <2> QED
    BY <2>1, <2>2
       DEF Next, PollLoop, PollStart, PollExit, PollReturn, ProcessQuiet, SendReturned,
           SendRaised, EndOfPoll, SendHeartbeat, Stop, engineVars, chatVars
<1> QED BY <1>1, <1>2, Invariance, PTL DEF Spec, AlertsAlternate, Log!Spec, Log!log

-----------------------------------------------------------------------------
(* The chat                                                                *)

\* What this process announced, is no longer sending and was not refused is
\* what the chat shows; an earlier process may have left an older alert about a
\* WAN this one has not announced.
ChatFollows ==
  \A w \in Wan \ refused :
    issued[w].kind # "none" /\ ~(pc = "send" /\ k = w) => chat[w] = issued[w].kind

LEMMA StepChat == IInv /\ ChatFollows /\ [Next]_vars => ChatFollows'
<1> SUFFICES ASSUME IInv, ChatFollows, [Next]_vars, NEW w \in Wan \ refused',
                    issued'[w].kind # "none", ~(pc' = "send" /\ k' = w)
             PROVE  chat'[w] = issued'[w].kind
  BY DEF ChatFollows
<1>1. CASE ProcessAlert
  BY <1>1 DEF ProcessAlert, chatVars, ChatFollows, IInv, Typed, TypeOK
<1>2. CASE \E o \in SendOutcome : SendReturned(o)
  BY <1>2 DEF SendReturned, engineVars, chatVars, ChatFollows, IInv, Typed, TypeOK
<1>3. CASE \E o \in SendOutcome : SendRaised(o)
  BY <1>3 DEF SendRaised, engineVars, ChatFollows
<1>4. CASE Restart
  BY <1>4 DEF Restart, NoAlert
<1>5. CASE UNCHANGED vars
  BY <1>5 DEF vars, engineVars, chatVars, ChatFollows
<1>6. CASE \/ PollStart \/ PollExit \/ ProcessQuiet \/ EndOfPoll \/ SendHeartbeat \/ Stop
           \/ \E h \in Addr \cup {NoAnswer} : PollReturn(h)
  <2>1. UNCHANGED <<issued, chat, refused>> /\ ~(pc = "send" /\ k = w)
    BY <1>6 DEF PollStart, PollExit, ProcessQuiet, EndOfPoll, SendHeartbeat, Stop,
                PollReturn, AtLoopTest, engineVars, chatVars
  <2> QED BY <2>1 DEF ChatFollows
<1> QED BY <1>1, <1>2, <1>3, <1>4, <1>5, <1>6 DEF Next, PollLoop

\* A WAN polled down stands DOWN in the chat after every completed poll,
\* through exceptions and any number of restarts, unless its alert was refused.
THEOREM Visibility == Spec => []OutageVisible
<1>1. Init => ChatFollows
  BY DEF Init, ChatFollows, NoAlert
<1>2. IInv /\ ChatFollows => OutageVisible
  BY DEF IInv, EngineAgrees, Progress, ChatFollows, OutageVisible
<1> QED BY <1>1, <1>2, StepChat, Invariance, PTL DEF Spec

-----------------------------------------------------------------------------
(* The slow-down                                                           *)

Known(w) == previous[w].status # "none"

\* The engine has had its turn with w in this poll.
Handled(w) ==
  pc \notin {"start", "snmp"} /\ (w < k \/ (w = k /\ pc \in {"send", "backoff", "done"}))

Allowance(w) == IF Handled(w) THEN 1 ELSE 0

\* Some WAN's count of stable polls is no more than the polls from t on.
SomeFresh(t) == \E v \in Wan : Known(v) /\ stable[v] <= now - t + Allowance(v)

Dated ==
  \A w \in Wan :
    /\ lastStates[w].since <= now /\ previous[w].since <= now
    /\ ~Known(w) => previous[w] = NoState /\ stable[w] = 0

\* A count may run on while 'since' moves, if an exception hid a change of
\* status from the engine; but then the count of the WAN whose alert raised
\* began anew.
Fresh ==
  \A w \in Wan : Known(w) =>
    /\ SomeFresh(previous[w].since)
    /\ lastStates[w].status = previous[w].status => SomeFresh(lastStates[w].since)

HiddenByRaise ==
  /\ pc \in {"start", "snmp", "backoff"} =>
       \A w \in Wan : Known(w) /\ lastStates[w].status # previous[w].status
         => \E v \in Wan : Known(v) /\ stable[v] = 0
  /\ pc = "send" => Known(k) /\ stable[k] = 0

CalmInv == Dated /\ HiddenByRaise /\ (now < Horizon => Fresh)

\* Counts that grow no faster than the clock, or begin anew, stay fresh.
LEMMA FreshStays ==
  ASSUME TypeOK, TypeOK', NEW t \in Nat, t <= now',
         \A v \in Wan : Known(v) =>
           /\ Known(v)'
           /\ \/ stable'[v] - Allowance(v)' - now' <= stable[v] - Allowance(v) - now
              \/ stable'[v] = 0,
         SomeFresh(t)
  PROVE  SomeFresh(t)'
<1>1. PICK v \in Wan : Known(v) /\ stable[v] <= now - t + Allowance(v)
  BY DEF SomeFresh
<1>2. Known(v)' /\ (\/ stable'[v] - Allowance(v)' - now' <= stable[v] - Allowance(v) - now
                    \/ stable'[v] = 0)
  BY <1>1
<1>3. /\ stable[v] \in Nat /\ stable'[v] \in Nat /\ now \in Nat /\ now' \in Nat
      /\ Allowance(v) \in {0, 1} /\ Allowance(v)' \in {0, 1}
  BY DEF TypeOK, Allowance
<1>4. stable'[v] <= now' - t + Allowance(v)'
  BY <1>1, <1>2, <1>3
<1> QED BY <1>2, <1>4 DEF SomeFresh

LEMMA CalmStep == IInv /\ IInv' /\ CalmInv /\ [Next]_vars => CalmInv'
<1> SUFFICES ASSUME IInv, IInv', CalmInv, [Next]_vars PROVE CalmInv'
  OBVIOUS
<1> USE WanAlertingAssumption
<1>t. TypeOK /\ TypeOK'
  BY DEF IInv, Typed
<1>s. \A w \in Wan : /\ lastStates[w].since \in Nat /\ previous[w].since \in Nat
                     /\ stable[w] \in Nat /\ w \in Nat
                     /\ previous[w].status \in {"none", "up", "down"}
                     /\ lastStates[w].status \in {"none", "up", "down"}
  BY <1>t DEF TypeOK, State, Wan
<1>n. now \in Nat /\ k \in Nat
  BY <1>t DEF TypeOK
<1>1. CASE PollStart
  <2>1. /\ now' = (IF now < Horizon THEN now + 1 ELSE now) /\ pc' = "snmp"
        /\ pc \in {"start", "sleep", "backoff"}
        /\ UNCHANGED <<lastStates, previous, stable>>
    BY <1>1 DEF PollStart, AtLoopTest, engineVars
  <2>2. Dated'
    BY <2>1, <1>s, <1>n DEF CalmInv, Dated, Known
  <2>3. HiddenByRaise'
    BY <2>1 DEF CalmInv, HiddenByRaise, Known, IInv, Progress
  <2>4. ASSUME now' < Horizon PROVE Fresh'
    <3>1. now < Horizon /\ now' = now + 1
      BY <2>1, <2>4, <1>t DEF TypeOK
    <3>2. \A v \in Wan : /\ Known(v)' = Known(v)
                         /\ Allowance(v)' = 0 /\ Allowance(v) \in {0, 1}
      BY <2>1 DEF Known, Allowance, Handled
    <3>3. \A v \in Wan : stable'[v] - Allowance(v)' - now' <= stable[v] - Allowance(v) - now
      BY <3>1, <3>2, <2>1, <1>s, <1>n
    <3>4. \A w \in Wan : lastStates[w].since <= now' /\ previous[w].since <= now'
      BY <3>1, <1>s, <1>n DEF CalmInv, Dated
    <3>5. \A w \in Wan : /\ SomeFresh(previous[w].since) => SomeFresh(previous[w].since)'
                         /\ SomeFresh(lastStates[w].since) => SomeFresh(lastStates[w].since)'
      <4> SUFFICES ASSUME NEW w \in Wan
                   PROVE  /\ SomeFresh(previous[w].since) => SomeFresh(previous[w].since)'
                          /\ SomeFresh(lastStates[w].since) => SomeFresh(lastStates[w].since)'
        OBVIOUS
      <4>1. previous'[w].since = previous[w].since /\ lastStates'[w].since = lastStates[w].since
        BY <2>1
      <4>2. ASSUME NEW t \in Nat, t <= now', SomeFresh(t) PROVE SomeFresh(t)'
        BY <4>2, <3>2, <3>3, <1>t, FreshStays
      <4> QED BY <4>1, <4>2, <3>4, <1>s
    <3> QED BY <3>1, <3>2, <3>5, <2>1 DEF CalmInv, Fresh, Known
  <2> QED BY <2>2, <2>3, <2>4 DEF CalmInv
<1>2. CASE \/ PollExit \/ EndOfPoll \/ SendHeartbeat \/ Stop \/ UNCHANGED vars
           \/ \E o \in SendOutcome : SendReturned(o) \/ SendRaised(o)
  <2>1. UNCHANGED <<now, lastStates, previous, stable>>
    BY <1>2 DEF PollExit, EndOfPoll, SendHeartbeat, Stop, SendReturned, SendRaised, vars,
                pollVars, engineVars
  <2>2. \A v \in Wan : Handled(v) => Handled(v)'
    BY <1>2, <1>s, <1>n DEF PollExit, EndOfPoll, SendHeartbeat, Stop, SendReturned, SendRaised,
                vars, AtLoopTest, Handled, IInv, Typed, PolledKnown
  <2>3. HiddenByRaise'
    BY <1>2, <2>1 DEF PollExit, EndOfPoll, SendHeartbeat, Stop, SendReturned, SendRaised, vars,
                CalmInv, HiddenByRaise, Known, IInv, Typed, PolledKnown
  <2>4. \A v \in Wan : Known(v)' = Known(v)
    BY <2>1 DEF Known
  <2>5. \A v \in Wan : /\ Allowance(v) \in {0, 1} /\ Allowance(v)' \in {0, 1}
                       /\ Allowance(v) <= Allowance(v)'
    BY <2>2 DEF Allowance
  <2>6. \A v \in Wan : stable'[v] - Allowance(v)' - now' <= stable[v] - Allowance(v) - now
    BY <2>1, <2>5, <1>s, <1>n
  <2>7. ASSUME NEW t \in Nat, t <= now', SomeFresh(t) PROVE SomeFresh(t)'
    BY <2>4, <2>6, <2>7, <1>t, FreshStays
  <2>8. ASSUME Fresh PROVE Fresh'
    BY <2>1, <2>4, <2>7, <2>8, <1>s DEF Fresh, CalmInv, Dated
  <2> QED BY <2>1, <2>3, <2>4, <2>8 DEF CalmInv, Dated
<1>3. CASE \E h \in Addr \cup {NoAnswer} : PollReturn(h)
  <2>1. PICK h \in Addr \cup {NoAnswer} : PollReturn(h)
    BY <1>3
  <2>2. pc = "snmp" /\ pc' = "process" /\ k' = 1 /\ UNCHANGED <<now, previous, stable>>
    BY <2>1 DEF PollReturn, engineVars
  <2>3. \A v \in Wan : Known(v)' = Known(v)
    BY <2>2 DEF Known
  <2>4. \A v \in Wan : Allowance(v)' = 0 /\ Allowance(v) = 0
    BY <2>2 DEF Allowance, Handled, Wan
  <2>5. \A w \in Wan : /\ lastStates'[w].status = StatusOf(w, h)
                       /\ lastStates'[w].since = SinceOf(lastStates[w], StatusOf(w, h))
    BY <2>1 DEF PollReturn, Polled
  <2>6. \A w \in Wan : lastStates'[w].since <= now'
    BY <2>2, <2>5, <1>n, <1>s DEF SinceOf, CalmInv, Dated
  <2>7. ASSUME NEW t \in Nat, t <= now', SomeFresh(t) PROVE SomeFresh(t)'
    BY <2>2, <2>3, <2>4, <2>7, <1>t, <1>s, <1>n, FreshStays
  <2>8. ASSUME now < Horizon, NEW w \in Wan, Known(w)
        PROVE  /\ SomeFresh(previous[w].since)'
               /\ lastStates'[w].status = previous'[w].status => SomeFresh(lastStates[w].since)'
    <3>1. SomeFresh(previous[w].since)'
      BY <2>2, <2>7, <2>8, <1>s DEF CalmInv, Dated, Fresh
    <3>2. CASE lastStates[w].status = StatusOf(w, h)
      <4>1. lastStates'[w].since = lastStates[w].since
        BY <2>5, <3>2 DEF SinceOf
      <4>2. lastStates'[w].status = previous'[w].status => SomeFresh(lastStates[w].since)
        BY <2>2, <2>5, <2>8, <3>2 DEF CalmInv, Fresh
      <4>3. SomeFresh(lastStates[w].since) => SomeFresh(lastStates[w].since)'
        BY <4>1, <2>2, <2>7, <1>s DEF CalmInv, Dated
      <4> QED BY <3>1, <4>2, <4>3
    <3>3. CASE lastStates[w].status # StatusOf(w, h)
      <4>1. lastStates'[w].since = now
        BY <2>5, <3>3 DEF SinceOf
      <4>2. SUFFICES ASSUME previous[w].status = StatusOf(w, h)
                     PROVE  SomeFresh(lastStates[w].since)'
        BY <2>2, <2>5, <3>1
      <4>3. PICK v \in Wan : Known(v) /\ stable[v] = 0
        BY <2>2, <2>8, <3>3, <4>2 DEF CalmInv, HiddenByRaise
      <4>4. stable'[v] <= now' - lastStates'[w].since + Allowance(v)'
        BY <4>1, <4>3, <2>2, <2>4, <1>n
      <4> QED BY <4>3, <4>4, <2>3 DEF SomeFresh
    <3> QED BY <3>2, <3>3
  <2>9. Dated' /\ HiddenByRaise'
    BY <2>2, <2>3, <2>6 DEF CalmInv, Dated, HiddenByRaise
  <2> QED BY <2>2, <2>3, <2>8, <2>9 DEF CalmInv, Fresh
<1>4. CASE ProcessQuiet \/ ProcessAlert
  <2>0. PICK n \in Wan : n = k
    BY <1>4 DEF ProcessQuiet, ProcessAlert
  <2>1. /\ pc = "process" /\ UNCHANGED <<now, lastStates>>
        /\ previous' = [previous EXCEPT ![n] = lastStates[n]]
        /\ \A v \in Wan \ {n} : stable'[v] = stable[v]
        /\ lastStates[n].status \in {"up", "down"}
    BY <1>4, <2>0, <1>t DEF ProcessQuiet, ProcessAlert, TypeOK, pollVars, IInv, Typed, PolledKnown
  <2>2. previous'[n] = lastStates[n] /\ \A v \in Wan \ {n} : previous'[v] = previous[v]
    BY <2>1, <1>t DEF TypeOK
  <2>3. Known(n)' /\ \A v \in Wan \ {n} : Known(v)' = Known(v)
    BY <2>1, <2>2 DEF Known
  <2>4. /\ Handled(n)' /\ ~Handled(n)
        /\ \A v \in Wan \ {n} : Handled(v)' = Handled(v)
    BY <1>4, <2>0, <2>1, <1>s, <1>n DEF ProcessQuiet, ProcessAlert, Handled
  <2>5. /\ Allowance(n)' = 1 /\ Allowance(n) = 0
        /\ \A v \in Wan \ {n} : Allowance(v)' = Allowance(v) /\ Allowance(v) \in {0, 1}
    BY <2>4 DEF Allowance
  <2>6. stable'[n] = 0 \/ stable'[n] <= stable[n] + 1
    <3>1. stable'[n] = 0 \/ stable'[n] = Steady(stable[n])
      BY <1>4, <2>0, <1>t DEF ProcessQuiet, ProcessAlert, TypeOK
    <3> QED BY <3>1, <1>s DEF Steady
  <2>7. \A v \in Wan : stable'[v] - Allowance(v)' - now' <= stable[v] - Allowance(v) - now
                       \/ stable'[v] = 0
    <3>1. stable'[n] \in Nat
      BY <1>t, <2>1 DEF TypeOK
    <3>2. stable'[n] - Allowance(n)' - now' <= stable[n] - Allowance(n) - now
          \/ stable'[n] = 0
      BY <2>1, <2>5, <2>6, <3>1, <1>s, <1>n
    <3>3. ASSUME NEW v \in Wan \ {n}
          PROVE  stable'[v] - Allowance(v)' - now' <= stable[v] - Allowance(v) - now
      BY <2>1, <2>5, <1>s, <1>n
    <3> QED BY <3>2, <3>3
  <2>8. ASSUME NEW t \in Nat, t <= now', SomeFresh(t) PROVE SomeFresh(t)'
    BY <2>3, <2>7, <2>8, <1>t, FreshStays
  <2>9. ASSUME now < Horizon PROVE SomeFresh(previous[n].since)'
    <3>1. previous'[n].since = lastStates[n].since /\ lastStates[n].since <= now
          /\ lastStates[n].since \in Nat
      BY <2>1, <2>2, <1>s DEF CalmInv, Dated
    <3>2. CASE stable'[n] <= 1
      <4>1. stable'[n] <= now' - previous'[n].since + Allowance(n)'
        <5>1. stable'[n] \in Nat
          BY <1>t, <2>1 DEF TypeOK
        <5> QED BY <5>1, <2>1, <2>5, <3>1, <3>2, <1>n
      <4> QED BY <4>1, <2>1, <2>3 DEF SomeFresh
    <3>3. CASE stable'[n] > 1
      <4>1. Known(n) /\ ProcessQuiet
        <5>1. ~Known(n) => stable[n] = 0
          BY <2>1 DEF CalmInv, Dated
        <5>2. stable'[n] # 0 => ProcessQuiet
          BY <1>4, <2>0, <1>t DEF ProcessAlert, TypeOK
        <5>3. stable'[n] \in Nat /\ stable[n] \in Nat
          BY <1>t DEF TypeOK
        <5>4. stable[n] # 0 /\ stable'[n] # 0
          BY <5>3, <2>6, <3>3
        <5> QED BY <5>1, <5>2, <5>4
      <4>2. lastStates[n].status = previous[n].status
        BY <4>1, <2>0, <2>1, <1>s, <1>t DEF ProcessQuiet, MustAlert, ShouldAlert, IInv, EngineAgrees,
                                Known, TypeOK
      <4>3. SomeFresh(lastStates[n].since)
        BY <2>9, <4>1, <4>2, <2>1 DEF CalmInv, Fresh
      <4>4. PICK t \in Nat : t = lastStates[n].since
        BY <3>1
      <4>5. SomeFresh(t)'
        BY <2>1, <3>1, <4>3, <4>4, <2>8
      <4> QED BY <3>1, <4>4, <4>5 DEF SomeFresh
    <3>4. stable'[n] \in Nat
      BY <1>t, <2>1 DEF TypeOK
    <3> QED BY <3>2, <3>3, <3>4
  <2>10. ASSUME now < Horizon PROVE Fresh'
    <3>1. lastStates'[n].since = previous'[n].since
      BY <2>1, <2>2
    <3>2. SomeFresh(lastStates[n].since)'
      BY <2>10, <2>9, <3>1 DEF SomeFresh
    <3>3. ASSUME NEW w \in Wan \ {n}, Known(w)'
          PROVE  /\ SomeFresh(previous[w].since)'
                 /\ lastStates'[w].status = previous'[w].status => SomeFresh(lastStates[w].since)'
      <4>1. /\ SomeFresh(previous[w].since)
            /\ lastStates[w].status = previous[w].status => SomeFresh(lastStates[w].since)
        BY <2>10, <2>3, <3>3 DEF CalmInv, Fresh
      <4>2. /\ previous'[w] = previous[w] /\ lastStates'[w] = lastStates[w]
            /\ previous[w].since <= now' /\ lastStates[w].since <= now'
        BY <2>1, <2>2 DEF CalmInv, Dated
      <4> QED BY <4>1, <4>2, <2>8, <1>s
    <3> QED BY <2>10, <2>9, <3>2, <3>3 DEF Fresh
  <2>11. HiddenByRaise'
    <3>1. pc' = "process" \/ (pc' = "send" /\ k' = n /\ stable'[n] = 0)
      BY <1>4, <2>0, <1>t DEF ProcessQuiet, ProcessAlert, TypeOK
    <3> QED BY <2>0, <3>1, <2>3 DEF HiddenByRaise
  <2>12. Dated'
    <3>1. \A v \in Wan \ {n} : Known(v)' = Known(v) /\ previous'[v] = previous[v]
      BY <2>2, <2>3
    <3> QED BY <3>1, <2>1, <2>2, <2>3 DEF CalmInv, Dated
  <2> QED BY <2>1, <2>10, <2>11, <2>12 DEF CalmInv
<1>5. CASE Restart
  <2>1. \A w \in Wan : /\ previous'[w] = NoState /\ lastStates'[w] = NoState
                       /\ stable'[w] = 0 /\ ~Known(w)'
    BY <1>5 DEF Restart, Known, NoState
  <2>2. pc' = "start"
    BY <1>5 DEF Restart
  <2>3. Dated'
    BY <1>5, <2>1, <1>n DEF Restart, Dated, NoState
  <2> QED BY <2>1, <2>2, <2>3 DEF CalmInv, Fresh, HiddenByRaise
<1> QED BY <1>1, <1>2, <1>3, <1>4, <1>5 DEF Next, PollLoop

\* The poll loop slows down only when every WAN known so far has been up for
\* StablePolls polls (SlowsDownOnlyWhenCalm).  A single WAN's count does not say
\* so when exceptions drop polls; the counts of all of them do.
THEOREM CalmSlowDown == Spec => SlowsDownOnlyWhenCalm
<1> DEFINE Calm ==
      pc # "snmp" /\ pc' = "snmp" /\ interval' = "normal" /\ now < Horizon =>
        \A w \in Wan : previous[w] # NoState =>
          /\ previous[w].status = "up"
          /\ now - previous[w].since >= StablePolls - 1
<1>1. Init => CalmInv
  BY DEF Init, CalmInv, Dated, Fresh, HiddenByRaise, Known, NoState
<1>2. IInv /\ CalmInv /\ [Next]_vars => [Calm]_vars
  <2> SUFFICES ASSUME IInv, CalmInv, Next, pc # "snmp", pc' = "snmp", interval' = "normal",
                      now < Horizon, NEW w \in Wan, previous[w] # NoState
               PROVE  previous[w].status = "up" /\ now - previous[w].since >= StablePolls - 1
    OBVIOUS
  <2>1. PollStart
    BY DEF Next, PollLoop, PollExit, PollReturn, ProcessQuiet, ProcessAlert, SendReturned,
           SendRaised, EndOfPoll, SendHeartbeat, Stop, Restart
  <2>2. \A v \in Wan : previous[v] # NoState => current[v] # "down" /\ ~(stable[v] < StablePolls)
    BY <2>1 DEF PollStart, ChosenInterval, NeedsFastPolling
  <2>3. previous[w].status = "up" /\ Known(w)
    BY <2>2 DEF IInv, Typed, TypeOK, State, EngineAgrees, CalmInv, Dated, Known
  <2>4. PICK v \in Wan : Known(v) /\ stable[v] <= now - previous[w].since + Allowance(v)
    BY <2>3 DEF CalmInv, Fresh, SomeFresh
  <2>5. previous[v] # NoState
    BY <2>4 DEF Known, NoState
  <2>6. /\ stable[v] \in Nat /\ previous[w].since \in Nat /\ now \in Nat
        /\ Allowance(v) \in {0, 1} /\ StablePolls \in Nat
    BY WanAlertingAssumption DEF IInv, Typed, TypeOK, State, Allowance
  <2> QED BY <2>2, <2>3, <2>4, <2>5, <2>6
<1>3. Spec => []CalmInv
  BY <1>1, CalmStep, Invariance, PTL DEF Spec
<1> QED BY <1>2, <1>3, Invariance, PTL DEF Spec, SlowsDownOnlyWhenCalm

-----------------------------------------------------------------------------
(* Several WANs                                                            *)

\* What a poll leaves behind: the status of every WAN, or, if an exception cut
\* it short, a WAN whose alert it was and whose count has begun anew.
PollTrace ==
  /\ pc = "sleep" => \A w \in Wan : lastStates[w].status \in {"up", "down"}
  /\ pc = "send" => stable[k] = 0
  /\ pc = "backoff" => \E w \in Wan : previous[w] # NoState /\ stable[w] = 0

LEMMA StepTrace == IInv /\ PollTrace /\ [Next]_vars => PollTrace'
<1> SUFFICES ASSUME IInv, PollTrace, [Next]_vars PROVE PollTrace'
  OBVIOUS
<1>1. CASE ProcessAlert
  <2>1. stable'[k] = 0 /\ k' = k /\ pc' = "send"
    BY <1>1 DEF ProcessAlert, IInv, Typed, TypeOK
  <2> QED BY <2>1 DEF PollTrace
<1>2. CASE \E o \in SendOutcome : SendRaised(o)
  <2>1. pc = "send" /\ pc' = "backoff" /\ k \in Wan /\ UNCHANGED engineVars
    BY <1>2 DEF SendRaised, IInv, Typed, PolledKnown
  <2>2. previous[k] # NoState /\ stable[k] = 0
    BY <2>1 DEF PollTrace, IInv, Progress, Typed, PolledKnown, NoState
  <2> QED BY <2>1, <2>2 DEF PollTrace, engineVars
<1>3. CASE EndOfPoll
  BY <1>3 DEF EndOfPoll, PollTrace, pollVars, IInv, Typed, PolledKnown
<1>4. CASE SendHeartbeat \/ Stop \/ UNCHANGED vars
  <2>1. UNCHANGED <<pc, k, pollVars, engineVars>>
    BY <1>4 DEF SendHeartbeat, Stop, vars
  <2> QED BY <2>1 DEF PollTrace, pollVars, engineVars
<1>5. CASE \/ PollStart \/ PollExit \/ ProcessQuiet \/ Restart
           \/ (\E h \in Addr \cup {NoAnswer} : PollReturn(h))
           \/ (\E o \in SendOutcome : SendReturned(o))
  <2>1. pc' \notin {"sleep", "send", "backoff"}
    BY <1>5 DEF PollStart, PollExit, ProcessQuiet, Restart, PollReturn, SendReturned
  <2> QED BY <2>1 DEF PollTrace
<1> QED BY <1>1, <1>2, <1>3, <1>4, <1>5 DEF Next, PollLoop

\* Of several WANs at most one is the default route, so the loop that has polled
\* them once never returns to the normal interval.
THEOREM NoSlowDown == Spec => NeverSlowsDown
<1> DEFINE Fast ==
      NumWans > 1 /\ StablePolls > 0 /\ pc \in {"sleep", "backoff"} /\ pc' = "snmp"
        => interval' = "alert"
<1>1. Init => PollTrace
  BY DEF Init, PollTrace
<1>2. IInv /\ PollTrace /\ [Next]_vars => [Fast]_vars
  <2> SUFFICES ASSUME IInv, PollTrace, Next, NumWans > 1, StablePolls > 0,
                      pc \in {"sleep", "backoff"}, pc' = "snmp"
               PROVE  interval' = "alert"
    OBVIOUS
  <2>1. interval' = ChosenInterval
    BY DEF Next, PollLoop, PollStart, PollExit, PollReturn, ProcessQuiet, ProcessAlert,
           SendReturned, SendRaised, EndOfPoll, SendHeartbeat, Stop, Restart
  <2>2. CASE pc = "sleep"
    <3>1. 1 \in Wan /\ 2 \in Wan
      BY WanAlertingAssumption DEF Wan
    <3>2. PICK w \in Wan : lastStates[w].status # "up"
      BY <3>1 DEF IInv, OneUp
    <3>3. lastStates[w].status = "down" /\ previous[w] = lastStates[w]
      BY <2>2, <3>2 DEF PollTrace, IInv, Progress
    <3>4. previous[w] # NoState /\ current[w] = "down"
      BY <3>3 DEF NoState, IInv, EngineAgrees
    <3> QED BY <2>1, <3>4 DEF ChosenInterval, NeedsFastPolling
  <2>3. CASE pc = "backoff"
    <3>1. PICK w \in Wan : previous[w] # NoState /\ stable[w] = 0
      BY <2>3 DEF PollTrace
    <3>2. stable[w] < StablePolls
      BY <3>1
    <3> QED BY <2>1, <3>1, <3>2 DEF ChosenInterval, NeedsFastPolling
  <2> QED BY <2>2, <2>3
<1> QED BY <1>1, <1>2, StepTrace, Invariance, PTL DEF Spec, NeverSlowsDown

-----------------------------------------------------------------------------
(* After a stop                                                            *)

\* After a SIGTERM the poll in progress is finished or dropped and no other is
\* begun: each step takes the loop nearer to its end.
THEOREM NearStop == Spec => StopIsNear
<1> DEFINE Near == ~running => running' \/ StepsLeft' < StepsLeft
<1>1. IInv /\ [Next]_vars => [Near]_vars
  <2> SUFFICES ASSUME IInv, Next, ~running, ~running' PROVE StepsLeft' < StepsLeft
    OBVIOUS
  <2>0. NumWans \in Nat /\ k \in 1 .. NumWans + 1 /\ k \in Nat
    BY WanAlertingAssumption DEF IInv, Typed, TypeOK
  <2>1. CASE PollExit
    BY <2>1 DEF PollExit, AtLoopTest, StepsLeft
  <2>2. CASE \E h \in Addr \cup {NoAnswer} : PollReturn(h)
    BY <2>0, <2>2 DEF PollReturn, StepsLeft
  <2>3. CASE ProcessQuiet
    BY <2>0, <2>3 DEF ProcessQuiet, StepsLeft
  <2>4. CASE ProcessAlert
    BY <2>0, <2>4 DEF ProcessAlert, StepsLeft
  <2>5. CASE \E o \in SendOutcome : SendReturned(o)
    BY <2>0, <2>5 DEF SendReturned, StepsLeft
  <2>6. CASE \E o \in SendOutcome : SendRaised(o)
    <3>1. k \in Wan
      BY <2>6 DEF SendRaised, IInv, Typed, PolledKnown
    <3> QED BY <2>0, <2>6, <3>1 DEF SendRaised, StepsLeft, Wan
  <2>7. CASE EndOfPoll
    BY <2>0, <2>7 DEF EndOfPoll, StepsLeft
  <2>8. ~(PollStart \/ SendHeartbeat \/ Stop \/ Restart)
    BY DEF PollStart, SendHeartbeat, Stop, Restart
  <2> QED BY <2>1, <2>2, <2>3, <2>4, <2>5, <2>6, <2>7, <2>8 DEF Next, PollLoop
<1> QED BY <1>1, Invariance, PTL DEF Spec, StopIsNear
=============================================================================
