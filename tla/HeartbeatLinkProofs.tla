-------------------------- MODULE HeartbeatLinkProofs --------------------------
(***************************************************************************)
(* Proofs about HeartbeatLink for every interval, delay and threshold.     *)
(***************************************************************************)
EXTENDS HeartbeatLink, SentinelProofs

-----------------------------------------------------------------------------
(* The sentinel on the link is the sentinel of module Sentinel             *)

LEMMA WatchedStep == [LinkNext]_allVars => [Next]_vars
<1> SUFFICES ASSUME [LinkNext]_allVars PROVE [Next]_vars
  OBVIOUS
<1>1. CASE Boot \/ Sender \/ Crash
  BY <1>1 DEF Boot, Sender, SleepEnds, RequestEnds, Crash, Post
<1>2. CASE Network
  BY <1>2 DEF Network, Deliver, Lose, Next
<1>3. CASE Watch
  BY <1>3 DEF Watch, Next
<1>4. CASE SentinelRestart
  BY <1>4 DEF SentinelRestart, Next
<1>5. CASE LinkTick
  BY <1>5 DEF LinkTick, Next
<1>6. CASE UNCHANGED allVars
  BY <1>6 DEF allVars
<1> QED BY <1>1, <1>2, <1>3, <1>4, <1>5, <1>6 DEF LinkNext

\* HeartbeatLink implements Sentinel, whose heartbeats come whenever they like.
THEOREM Watched == LinkSpec => Spec
<1>1. LinkInit => Init
  BY DEF LinkInit
<1> QED BY <1>1, WatchedStep, PTL DEF LinkSpec, Spec

\* So what the sentinel promises of any heartbeats holds on the link: silences
\* are announced in time (SilenceAnnounced).
THEOREM LinkDetection == LinkSpec => []SilenceAnnounced
BY Watched, Detection, PTL

-----------------------------------------------------------------------------
(* Type correctness, with the sender's clock                               *)

SenderClock ==
  /\ phase = "down" => since <= Buried
  /\ phase = "request" => since <= RequestMax
  /\ phase = "sleep" => since <= due /\ Interval <= due

LinkTyped ==
  /\ phase \in {"down", "request", "sleep"}
  /\ since \in Nat /\ due \in 0 .. Cycle /\ crashes \in 0 .. MaxCrashes
  /\ flight \subseteq 0 .. DelayMax /\ orphans \subseteq flight
  /\ stored \in 0 .. Ancient
  /\ missed \in 0 .. MissedThreshold /\ steady \in BOOLEAN
  /\ SenderClock

LEMMA BuriedBound ==
  /\ Buried \in Nat /\ Cap \in Nat /\ Latest \in Nat /\ Cap = Latest + 1
  /\ RestartDelay <= Buried /\ DelayMax + Cap <= Buried
BY LinkAssumption, ConstantTypes DEF Buried, Cap, Latest

LEMMA LinkInitTyped == LinkInit => LinkTyped
<1> SUFFICES ASSUME LinkInit PROVE LinkTyped
  OBVIOUS
<1>1. phase = "down" /\ since = RestartDelay /\ flight = {} /\ orphans = {} /\ steady = FALSE
  BY DEF LinkInit
<1>2. /\ due \in 0 .. Cycle /\ crashes \in 0 .. MaxCrashes
      /\ stored \in 0 .. Ancient /\ missed \in 0 .. MissedThreshold
  BY LinkAssumption, SentinelAssumption DEF LinkInit, Cycle, Ancient
<1>3. SenderClock
  BY <1>1, BuriedBound DEF SenderClock
<1> QED BY <1>1, <1>2, <1>3, LinkAssumption DEF LinkTyped

LEMMA PostTyped ==
  ASSUME LinkTyped, Post
  PROVE  LinkTyped'
BY LinkAssumption DEF Post, LinkTyped, SenderClock, Cycle, Ancient

LEMMA LinkStepTyped == LinkTyped /\ [LinkNext]_allVars => LinkTyped'
<1> SUFFICES ASSUME LinkTyped, [LinkNext]_allVars PROVE LinkTyped'
  OBVIOUS
<1> USE LinkAssumption, SentinelAssumption, BuriedBound DEF SenderClock, Cycle, Ancient
<1>1. CASE Boot \/ SleepEnds
  BY <1>1, PostTyped DEF Boot, SleepEnds
<1>2. CASE RequestEnds
  BY <1>2 DEF RequestEnds, LinkTyped
<1>3. CASE Crash
  <2>1. phase' = "down" /\ since' = 0 /\ due' = 0 /\ steady' = FALSE
        /\ crashes' \in 0 .. MaxCrashes /\ UNCHANGED <<flight, stored, missed>>
        /\ orphans' = flight
    BY <1>3 DEF Crash, LinkTyped
  <2>2. SenderClock'
    BY <2>1
  <2>3. since' \in Nat /\ due' \in 0 .. Cycle
    BY <2>1
  <2>4. steady' \in BOOLEAN /\ phase' \in {"down", "request", "sleep"}
    BY <2>1
  <2> QED BY <2>1, <2>2, <2>3, <2>4 DEF LinkTyped
<1>4. CASE Network
  <2>1. PICK a \in flight : Deliver(a) \/ Lose(a)
    BY <1>4 DEF Network
  <2>2. CASE Deliver(a)
    <3>1. steady' \in BOOLEAN
      BY <2>2 DEF Deliver
    <3> QED BY <2>2, <3>1 DEF Deliver, LinkTyped, senderVars
  <2>3. CASE Lose(a)
    BY <2>3 DEF Lose, LinkTyped, senderVars
  <2> QED BY <2>1, <2>2, <2>3
<1>5. CASE Watch \/ UNCHANGED allVars
  BY <1>5 DEF Watch, LinkTyped, linkVars, senderVars, allVars
<1>6. CASE SentinelRestart
  BY <1>6 DEF SentinelRestart, LinkTyped, senderVars
<1>7. CASE LinkTick
  <2>1. flight' \subseteq 0 .. DelayMax /\ orphans' \subseteq flight'
    BY <1>7 DEF LinkTick, LinkTyped
  <2>2. since' \in Nat /\ stored' \in 0 .. Ancient
    BY <1>7 DEF LinkTick, LinkTyped
  <2>3. SenderClock'
    <3>1. phase' = phase /\ due' = due
      BY <1>7 DEF LinkTick
    <3>2. CASE phase = "down"
      BY <1>7, <3>1, <3>2 DEF LinkTick, LinkTyped
    <3>3. CASE phase = "request"
      BY <1>7, <3>1, <3>3 DEF LinkTick, LinkTyped, SenderMayWait
    <3>4. CASE phase = "sleep"
      BY <1>7, <3>1, <3>4 DEF LinkTick, LinkTyped, SenderMayWait
    <3> QED BY <3>2, <3>3, <3>4 DEF LinkTyped
  <2> QED BY <1>7, <2>1, <2>2, <2>3 DEF LinkTick, LinkTyped
<1> QED
  BY <1>1, <1>2, <1>3, <1>4, <1>5, <1>6, <1>7 DEF LinkNext, Sender

LEMMA LinkAlwaysTyped == LinkSpec => [](LinkTyped /\ TypeOK)
<1>1. LinkSpec => []LinkTyped
  BY LinkInitTyped, LinkStepTyped, PTL DEF LinkSpec
<1> QED BY <1>1, Watched, Typing, PTL

\* The type invariant of both ends of the link and of what is between them.
THEOREM LinkTyping == LinkSpec => []LinkTypeOK
<1>1. LinkTyped /\ TypeOK => LinkTypeOK
  BY DEF LinkTyped, LinkTypeOK
<1> QED BY <1>1, LinkAlwaysTyped, PTL

-----------------------------------------------------------------------------
(* Payloads in order                                                       *)

\* Of a process that runs at most the payload built last is on its way; what its
\* predecessors sent is older, and all that was stored is at least as old.
Ordered ==
  /\ phase # "down" =>
       /\ \A a \in flight \ orphans : a = since
       /\ \A a \in orphans : since < a
  /\ phase = "down" => orphans = flight /\ \A a \in flight : since <= a
  /\ since <= stored \/ stored = Ancient
  /\ \A a \in flight \ orphans : a < stored

LEMMA BuildsNext ==
  ASSUME LinkTyped, DelayMax < Interval, Ordered, Boot \/ SleepEnds
  PROVE  orphans = flight /\ 0 < stored /\ \A a \in flight : 0 < a
<1> USE LinkAssumption
<1>1. \A a \in flight : a \in Nat /\ a <= DelayMax
  BY DEF LinkTyped
<1>2. 0 < since
  BY DEF LinkTyped, SenderClock, Boot, SleepEnds
<1>3. 0 < stored
  BY <1>2 DEF LinkTyped, Ordered, Ancient
<1>4. CASE Boot
  BY <1>1, <1>2, <1>3, <1>4 DEF Boot, Ordered, LinkTyped
<1>5. CASE SleepEnds
  <2>1. DelayMax < since
    BY <1>5 DEF LinkTyped, SenderClock, SleepEnds
  <2>2. flight = {} /\ orphans = {}
    BY <1>1, <1>5, <2>1 DEF SleepEnds, Ordered, LinkTyped
  <2> QED BY <1>3, <2>2
<1> QED BY <1>4, <1>5

LEMMA OrderedStep ==
  ASSUME LinkTyped, DelayMax < Interval, Ordered, [LinkNext]_allVars
  PROVE  Ordered'
<1> USE LinkAssumption
<1>0. \A a \in flight : a \in Nat /\ a <= DelayMax
  BY DEF LinkTyped
<1>1. CASE Boot \/ SleepEnds
  <2>1. /\ flight' = flight \cup {0} /\ orphans' = orphans /\ stored' = stored
        /\ phase' = "request" /\ since' = 0
    BY <1>1 DEF Boot, SleepEnds, Post
  <2>2. orphans = flight /\ 0 < stored /\ \A a \in flight : 0 < a
    BY <1>1, BuildsNext
  <2>3. stored \in Nat
    BY DEF LinkTyped, Ancient
  <2> QED BY <2>1, <2>2, <2>3 DEF Ordered
<1>2. CASE RequestEnds
  BY <1>2 DEF RequestEnds, Ordered
<1>3. CASE Crash
  BY <1>0, <1>3 DEF Crash, Ordered, LinkTyped
<1>4. CASE Network
  <2>1. PICK a \in flight : Deliver(a) \/ Lose(a)
    BY <1>4 DEF Network
  <2>2. /\ flight' = flight \ {a} /\ orphans' = orphans \ {a}
        /\ phase' = phase /\ since' = since
    BY <2>1 DEF Deliver, Lose, senderVars
  <2>3. CASE Deliver(a)
    <3>1. stored' = a
      BY <2>3 DEF Deliver
    <3>2. \A b \in flight' \ orphans' : b < a
      BY <1>0, <2>2 DEF Ordered, LinkTyped
    <3>3. (since <= stored \/ stored = Ancient)'
      BY <2>2, <3>1 DEF Ordered, LinkTyped
    <3> QED BY <2>2, <3>1, <3>2, <3>3 DEF Ordered
  <2>4. CASE Lose(a)
    BY <2>2, <2>4 DEF Lose, Ordered, senderVars, Ancient
  <2> QED BY <2>1, <2>3, <2>4
<1>5. CASE Watch \/ UNCHANGED allVars
  BY <1>5 DEF Watch, Ordered, linkVars, senderVars, allVars, Ancient
<1>6. CASE SentinelRestart
  <2>1. \A a \in flight : a < Ancient
    BY <1>0 DEF Ancient
  <2> QED BY <1>6, <2>1 DEF SentinelRestart, Ordered, senderVars, Ancient
<1>7. CASE LinkTick
  <2>1. /\ phase' = phase
        /\ flight' = {a + 1 : a \in flight} /\ orphans' = {a + 1 : a \in orphans}
    BY <1>7 DEF LinkTick
  <2>2. phase # "down" => since' = since + 1
    BY <1>7 DEF LinkTick
  <2>3. since' <= since + 1 /\ (since' = since + 1 \/ since' = Buried)
    BY <1>7 DEF LinkTick, LinkTyped
  <2>4. stored' = IF stored < Ancient THEN stored + 1 ELSE stored
    BY <1>7 DEF LinkTick
  <2>5. since' \in Nat /\ since \in Nat /\ stored \in 0 .. Ancient
    BY <1>7 DEF LinkTick, LinkTyped
  <2>6. (since <= stored \/ stored = Ancient)'
    BY <2>3, <2>4, <2>5 DEF Ordered, Ancient
  <2>7. \A a \in flight' \ orphans' : \E b \in flight \ orphans : a = b + 1
    BY <2>1
  <2>8. \A b \in flight \ orphans : b + 1 < stored'
    BY <1>0, <1>7, <2>4, <2>5 DEF LinkTick, Ordered, Ancient
  <2>9. \A a \in flight' \ orphans' : a < stored'
    BY <2>7, <2>8
  <2>10. (phase # "down" => /\ \A a \in flight \ orphans : a = since
                            /\ \A a \in orphans : since < a)'
    BY <1>0, <2>1, <2>2, <2>5, <2>7 DEF Ordered, LinkTyped
  <2>11. (phase = "down" => orphans = flight /\ \A a \in flight : since <= a)'
    BY <1>0, <2>1, <2>3, <2>5 DEF Ordered
  <2> QED BY <2>6, <2>9, <2>10, <2>11 DEF Ordered
<1> QED
  BY <1>1, <1>2, <1>3, <1>4, <1>5, <1>6, <1>7 DEF LinkNext, Sender

LEMMA OrderedAlways == LinkSpec => [](DelayMax < Interval => Ordered)
<1>1. LinkInit => (DelayMax < Interval => Ordered)
  BY LinkAssumption DEF LinkInit, Ordered, Ancient
<1>2. LinkTyped /\ (DelayMax < Interval => Ordered) /\ [LinkNext]_allVars
        => (DelayMax < Interval => Ordered)'
  BY OrderedStep
<1> QED BY <1>1, <1>2, LinkAlwaysTyped, PTL DEF LinkSpec

\* Only what was sent by a process that has died since can replace a newer
\* payload in the store (InOrder), although record() does not look at timestamps
\* and requests are given up before the fate of their payloads is known.
THEOREM OrderKept == LinkSpec => []InOrder
<1>1. (DelayMax < Interval => Ordered) => InOrder
  BY DEF InOrder, Ordered
<1> QED BY <1>1, OrderedAlways, PTL

-----------------------------------------------------------------------------
(* A dead monitor                                                          *)

\* What it sent before its death is at least as old as the death is, so that
\* since then the silence has grown, but for the delay of what came late.
Silenced ==
  phase = "down" =>
    /\ \A a \in flight : since <= a
    /\ heard => since <= silence + DelayMax \/ silence = Cap

LEMMA SilencedStep ==
  ASSUME LinkTyped, TypeOK, Silenced, [LinkNext]_allVars
  PROVE  Silenced'
<1> USE LinkAssumption, BuriedBound
<1>0. /\ \A a \in flight : a \in Nat /\ a <= DelayMax
      /\ silence \in Nat /\ silence <= Cap /\ since \in Nat
  BY DEF LinkTyped, TypeOK
<1>1. CASE Boot \/ Sender
  BY <1>1 DEF Boot, Sender, SleepEnds, RequestEnds, Post, Silenced
<1>2. CASE Crash
  <2>1. UNCHANGED <<flight, heard, silence>> /\ since' = 0
    BY <1>2 DEF Crash, vars, store
  <2> QED BY <1>0, <2>1 DEF Silenced
<1>3. CASE Network
  <2>1. PICK a \in flight : Deliver(a) \/ Lose(a)
    BY <1>3 DEF Network
  <2>2. flight' = flight \ {a} /\ phase' = phase /\ since' = since
    BY <2>1 DEF Deliver, Lose, senderVars
  <2>3. CASE Deliver(a)
    <3>1. silence' = 0
      BY <2>3 DEF Deliver, Heartbeat
    <3> QED BY <1>0, <2>1, <2>2, <3>1 DEF Silenced
  <2>4. CASE Lose(a)
    BY <2>2, <2>4 DEF Lose, Silenced, vars, store
  <2> QED BY <2>1, <2>3, <2>4
<1>4. CASE Watch
  <2>1. UNCHANGED <<heard, silence, phase, since, flight>>
    BY <1>4 DEF Watch, MonitorLoop, CheckMissing, CheckRecovered, CheckQuiet, ProbeDone,
                LostSent, RecoveredSent, Serve, store, linkVars, senderVars
  <2> QED BY <2>1 DEF Silenced
<1>5. CASE SentinelRestart
  BY <1>5 DEF SentinelRestart, Restart, Silenced, senderVars
<1>6. CASE LinkTick
  <2>1. /\ phase' = phase /\ heard' = heard /\ flight' = {a + 1 : a \in flight}
        /\ silence' = IF silence < Cap THEN silence + 1 ELSE silence
    BY <1>6 DEF LinkTick, Tick, Elapse
  <2>2. since' <= since + 1 /\ since' \in Nat
    BY <1>0, <1>6 DEF LinkTick, LinkTyped, SenderClock
  <2>3. phase = "down" => \A a \in flight : since' <= a + 1
    BY <1>0, <2>2 DEF Silenced
  <2>4. phase = "down" /\ heard => since' <= silence' + DelayMax \/ silence' = Cap
    BY <1>0, <2>1, <2>2 DEF Silenced
  <2> QED BY <2>1, <2>3, <2>4 DEF Silenced
<1>7. CASE UNCHANGED allVars
  BY <1>7 DEF allVars, vars, store, linkVars, senderVars, Silenced
<1> QED BY <1>1, <1>2, <1>3, <1>4, <1>5, <1>6, <1>7 DEF LinkNext

\* A monitor that has been dead for the longest delay and the time of a detection
\* has been announced LOST (DeadInTime), for all timing constants of both ends.
THEOREM DeadFound == LinkSpec => []DeadInTime
<1>1. LinkInit => Silenced
  BY DEF LinkInit, Init, Silenced
<1>2. LinkTyped /\ TypeOK /\ Silenced /\ SilenceAnnounced => DeadInTime
  <2> SUFFICES ASSUME LinkTyped, TypeOK, Silenced, SilenceAnnounced,
                      heard, phase = "down", since > DelayMax + Latest
               PROVE  issued = "lost"
    BY DEF DeadInTime
  <2>1. silence \in Nat /\ since \in Nat
    BY BuriedBound DEF LinkTyped, TypeOK
  <2>2. silence > Latest
    BY <2>1, LinkAssumption, BuriedBound DEF Silenced
  <2> QED BY <2>2 DEF SilenceAnnounced
<1> QED BY <1>1, <1>2, SilencedStep, LinkAlwaysTyped, LinkDetection, PTL DEF LinkSpec

-----------------------------------------------------------------------------
(* Losses behind a LOST alert                                              *)

\* How many payloads the silence accounts for: those lost, and the last one
\* while it is still on its way.
Spent == IF since \in flight THEN missed + 1 ELSE missed

\* Each of them cost at most one cycle.
Accounted ==
  steady =>
    /\ phase # "down"
    /\ missed < MissedThreshold => silence <= Spent * Cycle + since

LEMMA OneMoreCycle ==
  ASSUME NEW n \in Nat, NEW c \in Nat
  PROVE  n * c \in Nat /\ (n + 1) * c = n * c + c
<1>1. n * c \in Nat
  OBVIOUS
<1> QED BY <1>1

LEMMA CycleType == Cycle \in Nat /\ MissedThreshold \in Nat
BY LinkAssumption, SentinelAssumption DEF Cycle

LEMMA AccountedStep ==
  ASSUME LinkTyped, TypeOK, DelayMax < Interval, Ordered, Accounted, [LinkNext]_allVars
  PROVE  Accounted'
<1> USE LinkAssumption, CycleType
<1>1. CASE Boot
  BY <1>1 DEF Boot, Post, Accounted
<1>2. CASE SleepEnds
  <2>0. /\ UNCHANGED <<steady, silence, missed>> /\ phase' = "request"
        /\ since' = 0 /\ since' \in flight'
    BY <1>2 DEF SleepEnds, Post, vars, store
  <2>1. SUFFICES ASSUME steady, missed < MissedThreshold
                 PROVE  silence <= (missed + 1) * Cycle
    <3>1. (missed + 1) * Cycle \in Nat
      BY OneMoreCycle DEF LinkTyped
    <3>2. Spent' = missed + 1
      BY <2>0 DEF Spent
    <3> QED BY <2>0, <3>1, <3>2 DEF Accounted
  <2>2. DelayMax < since /\ since <= Cycle
    BY <1>2 DEF SleepEnds, LinkTyped, SenderClock
  <2>3. since \notin flight
    BY <2>2 DEF LinkTyped
  <2>4. silence <= missed * Cycle + since
    BY <2>1, <2>3 DEF Accounted, Spent
  <2> QED BY <2>2, <2>4, OneMoreCycle DEF LinkTyped, TypeOK
<1>3. CASE RequestEnds
  BY <1>3 DEF RequestEnds, Accounted, Spent, vars, store
<1>4. CASE Crash
  BY <1>4 DEF Crash, Accounted
<1>5. CASE Network
  <2>1. PICK a \in flight : Deliver(a) \/ Lose(a)
    BY <1>5 DEF Network
  <2>2. CASE Deliver(a)
    <3>1. steady' => phase' # "down"
      BY <2>2 DEF Deliver, Accounted, senderVars
    <3>2. silence' = 0 /\ missed' = 0 /\ since' = since
      BY <2>2 DEF Deliver, Heartbeat, senderVars
    <3>3. Spent' * Cycle + since \in Nat
      BY <3>2, OneMoreCycle DEF Spent, LinkTyped
    <3> QED BY <3>1, <3>2, <3>3 DEF Accounted
  <2>3. CASE Lose(a)
    <3>1. UNCHANGED <<steady, phase, silence, since>> /\ flight' = flight \ {a}
      BY <2>3 DEF Lose, vars, store, senderVars
    <3>2. SUFFICES ASSUME steady, missed' < MissedThreshold
                   PROVE  silence <= Spent' * Cycle + since
      BY <3>1 DEF Accounted
    <3>3. missed' = (IF a \in orphans THEN missed ELSE missed + 1)
          /\ missed < MissedThreshold /\ missed \in Nat
      BY <2>3, <3>2 DEF Lose, LinkTyped
    <3>4. silence <= Spent * Cycle + since
      BY <3>2, <3>3 DEF Accounted
    <3>5. a \in orphans => a # since
      BY <3>2 DEF Ordered, Accounted, LinkTyped
    <3>6. Spent' = Spent \/ Spent' = Spent + 1
      BY <3>1, <3>3, <3>5 DEF Spent
    <3>7. Spent \in Nat
      BY <3>3 DEF Spent
    <3> QED BY <3>4, <3>6, <3>7, OneMoreCycle DEF LinkTyped, TypeOK
  <2> QED BY <2>1, <2>2, <2>3
<1>6. CASE Watch
  <2>1. silence' = silence
    BY <1>6 DEF Watch, MonitorLoop, CheckMissing, CheckRecovered,
                CheckQuiet, ProbeDone, LostSent, RecoveredSent, Serve, store
  <2> QED BY <1>6, <2>1 DEF Watch, Accounted, Spent, linkVars, senderVars
<1>7. CASE SentinelRestart
  <2>1. silence' = 0 /\ UNCHANGED <<steady, phase, since, missed, flight>>
    BY <1>7 DEF SentinelRestart, Restart, senderVars
  <2>2. Spent' * Cycle + since' \in Nat
    BY <2>1, OneMoreCycle DEF Spent, LinkTyped
  <2> QED BY <2>1, <2>2 DEF Accounted
<1>8. CASE LinkTick
  <2>1. SUFFICES ASSUME steady PROVE Accounted'
    BY <1>8 DEF LinkTick, Accounted
  <2>2. phase # "down"
    BY <2>1 DEF Accounted
  <2>3. UNCHANGED <<steady, phase, missed>> /\ since' = since + 1
        /\ flight' = {b + 1 : b \in flight}
    BY <1>8, <2>2 DEF LinkTick
  <2>4. silence' <= silence + 1
    BY <1>8 DEF LinkTick, Tick, Elapse, TypeOK
  <2>5. since' \in flight' <=> since \in flight
    BY <2>3 DEF LinkTyped
  <2>6. Spent' = Spent /\ Spent * Cycle \in Nat
    BY <2>3, <2>5, OneMoreCycle DEF Spent, LinkTyped
  <2>7. silence \in Nat /\ silence' \in Nat /\ since \in Nat
    BY <1>8, ConstantTypes DEF LinkTick, Tick, Elapse, TypeOK, LinkTyped
  <2> QED BY <2>1, <2>2, <2>3, <2>4, <2>6, <2>7 DEF Accounted
<1>9. CASE UNCHANGED allVars
  BY <1>9 DEF allVars, vars, store, linkVars, senderVars, Accounted, Spent
<1> QED
  BY <1>1, <1>2, <1>3, <1>4, <1>5, <1>6, <1>7, <1>8, <1>9 DEF LinkNext, Sender

Explained == DelayMax < Interval => Accounted

LEMMA ExplainedAlways == LinkSpec => []Explained
<1> DEFINE InOrdered == DelayMax < Interval => Ordered
<1>1. LinkInit => Explained
  BY DEF LinkInit, Accounted, Explained
<1>2. LinkTyped /\ TypeOK /\ InOrdered /\ Explained /\ [LinkNext]_allVars => Explained'
  BY AccountedStep DEF Explained
<1>3. LinkSpec => []InOrdered
  BY OrderedAlways
<1> QED BY <1>1, <1>2, <1>3, LinkAlwaysTyped, PTL DEF LinkSpec

\* The alarm is raised only by a check that finds the threshold exceeded.
LEMMA AlarmStep ==
  ASSUME [LinkNext]_allVars, ~alerted, alerted', heard
  PROVE  silence > Threshold
<1>1. [Next]_vars
  BY WatchedStep
<1>2. CheckMissing
  BY <1>1 DEF Next, vars, store, MonitorLoop, CheckRecovered, CheckQuiet, ProbeDone,
              LostSent, RecoveredSent, Tick, Elapse, Heartbeat, Serve, Restart
<1> QED BY <1>2 DEF CheckMissing, ShouldAlertMissing, Missing

LEMMA AccountedSilence ==
  ASSUME LinkTyped, TypeOK, Accounted, steady, missed < MissedThreshold
  PROVE  silence <= (missed + 1) * Cycle + DelayMax
<1> USE LinkAssumption, CycleType, ConstantTypes
<1>1. missed \in Nat /\ since \in Nat /\ silence \in Nat
  BY DEF LinkTyped, TypeOK
<1>2. silence <= Spent * Cycle + since
  BY DEF Accounted
<1>3. since <= Cycle /\ (since \in flight => since <= DelayMax)
  BY DEF Accounted, LinkTyped, SenderClock, Cycle
<1> QED BY <1>1, <1>2, <1>3, OneMoreCycle DEF Spent

LEMMA EnoughLost ==
  ASSUME LinkTyped, TypeOK, Timely, Accounted, steady, silence > Threshold
  PROVE  missed >= MissedThreshold - 1
<1> USE LinkAssumption, CycleType, ConstantTypes
<1>1. SUFFICES ASSUME missed < MissedThreshold - 1 PROVE FALSE
  BY DEF LinkTyped
<1>2. missed \in Nat /\ silence \in Nat
  BY DEF LinkTyped, TypeOK
<1>3. silence <= (missed + 1) * Cycle + DelayMax
  BY <1>1, <1>2, AccountedSilence
<1>4. (missed + 1) * Cycle <= (MissedThreshold - 1) * Cycle
  <2>1. PICK d \in Nat : MissedThreshold - 1 = (missed + 1) + d
    <3>1. MissedThreshold - 1 - (missed + 1) \in Nat
      BY <1>1, <1>2
    <3> QED BY <3>1, <1>2
  <2>2. ((missed + 1) + d) * Cycle = (missed + 1) * Cycle + d * Cycle
    BY <1>2, <2>1
  <2>3. d * Cycle \in Nat /\ (missed + 1) * Cycle \in Nat
    BY <1>2, <2>1, OneMoreCycle
  <2> QED BY <2>1, <2>2, <2>3
<1>5. (missed + 1) * Cycle \in Nat /\ (MissedThreshold - 1) * Cycle \in Nat
  <2>1. MissedThreshold - 1 \in Nat /\ missed + 1 \in Nat
    BY <1>1, <1>2
  <2> QED BY <2>1, OneMoreCycle
<1> QED BY <1>2, <1>3, <1>4, <1>5 DEF Timely

\* A running monitor is found missing only after all but one of the tolerated
\* heartbeats were lost (LossesBehindLost), whatever the timing constants are.
THEOREM LossesCounted == LinkSpec => LossesBehindLost
<1>1. LinkTyped /\ TypeOK /\ Explained /\ [LinkNext]_allVars
        => [Timely /\ ~alerted /\ alerted' /\ heard /\ steady
              => missed >= MissedThreshold - 1]_allVars
  BY AlarmStep, EnoughLost DEF Explained, Timely
<1> QED BY <1>1, ExplainedAlways, LinkAlwaysTyped, PTL DEF LinkSpec, LossesBehindLost

\* While a monitor runs on, the silence is no longer than its losses explain.
THEOREM SilenceExplained == LinkSpec => []SilenceOwed
<1>1. LinkTyped /\ TypeOK /\ Explained => SilenceOwed
  BY AccountedSilence DEF Explained, SilenceOwed
<1> QED BY <1>1, ExplainedAlways, LinkAlwaysTyped, PTL DEF LinkSpec

\* With the intervals that both config.example.yaml files and the defaults of
\* shared/config.py give, the network is timely if two requests and a delivery
\* take at most a minute, and the checks are close enough if the awaits of one
\* loop take less than its three.
THEOREM ShippedTiming ==
  ASSUME Interval = 60, ExpectedInterval = 60, MissedThreshold = 3, Period = 10
  PROVE  /\ DelayMax < 60 /\ RequestMax + RequestMax + DelayMax <= 60 => Timely
         /\ ProbeMax + SendMax + Lag <= 170 => MaxGap <= Threshold
<1> USE LinkAssumption, SentinelAssumption
<1>1. Threshold = 180 /\ MissedThreshold - 1 = 2 /\ Cycle = 60 + RequestMax
  BY DEF Threshold, Cycle
<1>2. 2 * Cycle = 120 + RequestMax + RequestMax
  BY <1>1
<1>3. DelayMax < 60 /\ RequestMax + RequestMax + DelayMax <= 60 => Timely
  BY <1>1, <1>2 DEF Timely
<1>4. ProbeMax + SendMax + Lag <= 170 => MaxGap <= Threshold
  BY <1>1 DEF MaxGap
<1> QED BY <1>3, <1>4

-----------------------------------------------------------------------------
(* What else holds of any heartbeats                                       *)

\* On the link too LOST and RECOVERED alternate, ...
THEOREM LinkAlternation ==
  ASSUME Punctual
  PROVE  LinkSpec => AlertsAlternate
<1>1. Spec => AlertsAlternate
  BY Alternation
<1> QED BY <1>1, Watched, PTL

\* ... a RECOVERED alert closes a loss that the chat shows, ...
THEOREM LinkRecovery == LinkSpec => []RecoveryClosesLoss
BY Watched, RecoveryClosing, PTL

\* ... and a check that reports nothing agrees with the last alert.
THEOREM LinkQuietChecks == LinkSpec => QuietCheckAgrees
BY Watched, QuietChecks, PTL
=============================================================================
