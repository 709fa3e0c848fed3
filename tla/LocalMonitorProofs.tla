--------------------------- MODULE LocalMonitorProofs ---------------------------
(***************************************************************************)
(* Proofs about SyslogParsing and LocalMonitor for any traffic, limits and *)
(* outcomes of sends.                                                      *)
(***************************************************************************)
EXTENDS LocalMonitor, FiniteSetTheorems, SequenceTheorems, TLAPS

-----------------------------------------------------------------------------
(* Which messages have an alert                                            *)

\* Of a list of four the first element shown is picked.
LEMMA FirstIsShown ==
  ASSUME NEW list, DOMAIN list = 1 .. 4, NEW shown,
         NEW k \in 1 .. 4, list[k] \in shown
  PROVE  \E i \in 1 .. 4 :
           /\ FirstShown(list, shown) = list[i] /\ list[i] \in shown
           /\ \A j \in 1 .. 4 : list[j] \in shown => i <= j
<1>1. \E c \in 1 .. 4 :
        list[c] \in shown /\ \A j \in 1 .. 4 : list[j] \in shown => c <= j
  <2>1. CASE list[1] \in shown
    BY <2>1
  <2>2. CASE list[1] \notin shown /\ list[2] \in shown
    BY <2>2
  <2>3. CASE list[1] \notin shown /\ list[2] \notin shown /\ list[3] \in shown
    BY <2>3
  <2>4. CASE list[1] \notin shown /\ list[2] \notin shown /\ list[3] \notin shown
    BY <2>4
  <2> QED BY <2>1, <2>2, <2>3, <2>4
<1> QED BY <1>1 DEF FirstShown

\* A message is alerted exactly if it tells of a failover, its end or a broken
\* link, whatever keywords it contains, and whatever other WAN patterns:
\* categorize_message and process_syslog_event together keep what the rows of
\* the alert table about the WANs promise, and never the row Auth Failure.
THEOREM UrgentAlerts ==
  ASSUME NEW m \in Message
  PROVE  Alerting(Categorize(m)) <=> Urgent(m)
<1>1. /\ DOMAIN WanPatterns = 1 .. 4
      /\ WanPatterns[1] = "failover_activated" /\ WanPatterns[2] = "failover_deactivated"
      /\ WanPatterns[3] = "link_down" /\ WanPatterns[4] = "online_detection"
  BY DEF WanPatterns
<1>2. m.patterns \subseteq {WanPatterns[i] : i \in 1 .. 4}
  BY <1>1 DEF Message, Elements
<1>3. DOMAIN Severity = {"failover_activated", "failover_deactivated", "link_down"}
  BY DEF Severity
<1>4. CASE m.patterns = {}
  <2>1. ~Urgent(m)
    BY <1>4 DEF Urgent
  <2>2. Categorize(m).category # "wan"
    <3>1. CASE m.keywords = {}
      BY <1>4, <3>1 DEF Categorize
    <3>2. CASE m.keywords # {}
      <4>1. /\ DOMAIN KeywordLists = 1 .. 4
            /\ \A i \in 1 .. 4 : KeywordLists[i] # "wan"
        BY DEF KeywordLists
      <4>2. m.keywords \subseteq {KeywordLists[i] : i \in 1 .. 4}
        BY <4>1 DEF Message, Elements
      <4>3. PICK i \in 1 .. 4 : KeywordLists[i] \in m.keywords
        BY <3>2, <4>2
      <4>4. FirstShown(KeywordLists, m.keywords) # "wan"
        BY <4>1, <4>3, FirstIsShown
      <4> QED BY <1>4, <3>2, <4>4 DEF Categorize
    <3> QED BY <3>1, <3>2
  <2> QED BY <2>1, <2>2 DEF Alerting
<1>5. CASE m.patterns # {}
  <2>0. PICK c \in 1 .. 4 : WanPatterns[c] \in m.patterns
    BY <1>2, <1>5
  <2>1. PICK i \in 1 .. 4 :
          /\ FirstShown(WanPatterns, m.patterns) = WanPatterns[i]
          /\ WanPatterns[i] \in m.patterns
          /\ \A j \in 1 .. 4 : WanPatterns[j] \in m.patterns => i <= j
    BY <1>1, <2>0, FirstIsShown
  <2>2. Alerting(Categorize(m)) <=> WanPatterns[i] \in DOMAIN Severity
    BY <1>5, <2>1 DEF Alerting, Categorize
  <2>3. CASE i = 4
    BY <1>1, <1>3, <2>1, <2>2, <2>3 DEF Urgent
  <2>4. CASE i \in 1 .. 3
    <3>1. WanPatterns[i] \in DOMAIN Severity
      BY <1>1, <1>3, <2>4
    <3> QED BY <1>3, <2>1, <2>2, <3>1 DEF Urgent
  <2> QED BY <2>3, <2>4
<1> QED BY <1>4, <1>5

\* An alert of syslog is CRITICAL exactly if its message tells of a failover or
\* of its end, even when it also tells of a broken link, which alone is a WARNING.
THEOREM FailoverCritical ==
  ASSUME NEW m \in Message, Alerting(Categorize(m))
  PROVE  Severity[Categorize(m).type] = "CRITICAL"
           <=> m.patterns \cap {"failover_activated", "failover_deactivated"} # {}
<1>1. /\ DOMAIN WanPatterns = 1 .. 4
      /\ WanPatterns[1] = "failover_activated" /\ WanPatterns[2] = "failover_deactivated"
      /\ WanPatterns[3] = "link_down" /\ WanPatterns[4] = "online_detection"
  BY DEF WanPatterns
<1>2. /\ Severity["failover_activated"] = "CRITICAL"
      /\ Severity["failover_deactivated"] = "CRITICAL"
      /\ Severity["link_down"] = "WARNING"
      /\ "online_detection" \notin DOMAIN Severity
  BY DEF Severity
<1>3. m.patterns # {}
  <2>1. m.patterns \cap {"failover_activated", "failover_deactivated", "link_down"} # {}
    BY UrgentAlerts DEF Urgent
  <2> QED BY <2>1
<1>4. PICK i \in 1 .. 4 :
        /\ FirstShown(WanPatterns, m.patterns) = WanPatterns[i]
        /\ WanPatterns[i] \in m.patterns
        /\ \A j \in 1 .. 4 : WanPatterns[j] \in m.patterns => i <= j
  <2>1. m.patterns \subseteq {WanPatterns[i] : i \in 1 .. 4}
    BY <1>1 DEF Message, Elements
  <2>2. PICK c \in 1 .. 4 : WanPatterns[c] \in m.patterns
    BY <1>3, <2>1
  <2> QED BY <1>1, <2>2, FirstIsShown
<1>5. Categorize(m).type = WanPatterns[i] /\ WanPatterns[i] \in DOMAIN Severity
  BY <1>3, <1>4 DEF Categorize, Alerting
<1>6. CASE i \in {1, 2}
  BY <1>1, <1>2, <1>4, <1>5, <1>6
<1>7. CASE i = 3
  BY <1>1, <1>2, <1>4, <1>5, <1>7
<1> QED BY <1>1, <1>2, <1>5, <1>6, <1>7

-----------------------------------------------------------------------------
(* Facts about the operators                                               *)

LEMMA SeqWider ==
  ASSUME NEW m \in Nat, NEW n \in Nat, m <= n, NEW s \in Seq(1 .. m)
  PROVE  s \in Seq(1 .. n)
OBVIOUS

\* LastOf keeps the end of a sequence.
LEMMA LastOfProperties ==
  ASSUME NEW S, NEW s \in Seq(S), NEW n \in Nat
  PROVE  LET t == LastOf(s, n)
         IN  /\ t \in Seq(S) /\ Len(t) = IF Len(s) > n THEN n ELSE Len(s)
             /\ \A i \in 1 .. Len(t) : t[i] = s[Len(s) - Len(t) + i]
<1> DEFINE m == IF Len(s) > n THEN Len(s) - n + 1 ELSE 1
<1>1. m \in Int /\ Len(s) \in Int /\ \A i \in m .. Len(s) : s[i] \in S
  OBVIOUS
<1>2. LastOf(s, n) = SubSeq(s, m, Len(s))
  BY DEF LastOf
<1>3. /\ SubSeq(s, m, Len(s)) \in Seq(S)
      /\ Len(SubSeq(s, m, Len(s))) = IF m <= Len(s) THEN Len(s) - m + 1 ELSE 0
      /\ \A i \in 1 .. Len(s) - m + 1 : SubSeq(s, m, Len(s))[i] = s[m + i - 1]
  BY <1>1, SubSeqProperties
<1> DEFINE t == LastOf(s, n)
<1>4. t \in Seq(S) /\ Len(t) = IF Len(s) > n THEN n ELSE Len(s)
  <2>1. Len(t) = IF m <= Len(s) THEN Len(s) - m + 1 ELSE 0
    BY <1>2, <1>3
  <2>2. Len(s) \in Nat /\ m = IF Len(s) > n THEN Len(s) - n + 1 ELSE 1
    OBVIOUS
  <2>3. Len(t) = IF Len(s) > n THEN n ELSE Len(s)
    <3>1. CASE Len(s) > n
      <4>1. m = Len(s) - n + 1
        BY <2>2, <3>1
      <4>2. m <= Len(s) <=> n >= 1
        BY <2>2, <4>1
      <4> HIDE DEF m, t
      <4> QED BY <2>1, <2>2, <3>1, <4>1, <4>2
    <3>2. CASE ~(Len(s) > n)
      <4>1. m = 1
        BY <2>2, <3>2
      <4> HIDE DEF m, t
      <4> QED BY <2>1, <2>2, <3>2, <4>1
    <3> QED BY <3>1, <3>2
  <2> QED BY <1>2, <1>3, <2>3 DEF t
<1>5. Len(s) - m = Len(t) - 1 /\ m = Len(s) - Len(t) + 1
  BY <1>4
<1>6. ASSUME NEW i \in 1 .. Len(t) PROVE t[i] = s[Len(s) - Len(t) + i]
  <2> HIDE DEF m
  <2>1. i \in 1 .. Len(s) - m + 1
    BY <1>4, <1>5
  <2>2. t[i] = s[m + i - 1]
    BY <1>2, <1>3, <2>1
  <2>3. m + i - 1 = Len(s) - Len(t) + i
    BY <1>1, <1>4, <1>5
  <2> QED BY <2>2, <2>3
<1> QED BY <1>4, <1>6

-----------------------------------------------------------------------------
(* Type correctness                                                        *)

\* The poll loop has an alert in hand exactly while it awaits its sending.
Typed == TypeOK /\ (poll = "send" <=> inHand # 0)

\* What the creation of an alert does to the list of alerts.
LEMMA Creation ==
  ASSUME TypeOK, NEW who \in {"poll", "syslog"}, Create(who)
  PROVE  /\ Created \in Nat /\ Created' = Created + 1 /\ Created' <= MaxAlerts
         /\ origin' \in Seq({"poll", "syslog"}) /\ origin'[Created + 1] = who
         /\ \A a \in 1 .. Created : origin'[a] = origin[a]
         /\ recent' \in Seq(1 .. Created') /\ Len(recent') = Len(recent) + 1
         /\ recent'[Len(recent) + 1] = Created + 1
         /\ \A i \in 1 .. Len(recent) : recent'[i] = recent[i]
<1> USE LocalMonitorAssumption
<1>1. Created \in Nat /\ origin \in Seq({"poll", "syslog"}) /\ recent \in Seq(1 .. Created)
  BY DEF TypeOK, Created
<1>2. origin' = Append(origin, who) /\ recent' = Append(recent, Created + 1)
  BY DEF Create
<1>3. /\ Created' = Created + 1 /\ origin' \in Seq({"poll", "syslog"})
      /\ origin'[Created + 1] = who /\ \A a \in 1 .. Created : origin'[a] = origin[a]
  BY <1>1, <1>2, AppendProperties DEF Created
<1>4. recent \in Seq(1 .. Created + 1) /\ Created + 1 \in 1 .. Created + 1
  BY <1>1, SeqWider
<1> HIDE DEF Created
<1>5. /\ recent' \in Seq(1 .. Created + 1) /\ Len(recent') = Len(recent) + 1
      /\ recent'[Len(recent) + 1] = Created + 1
      /\ \A i \in 1 .. Len(recent) : recent'[i] = recent[i]
  BY <1>2, <1>4, AppendProperties
<1>6. Created < MaxAlerts
  BY DEF Create
<1> QED BY <1>1, <1>3, <1>5, <1>6

LEMMA Sending ==
  ASSUME TypeOK, NEW a \in 1 .. Created, NEW o, SendEnds(a, o)
  PROVE  chat' \in Seq(1 .. Created) /\ refused' \subseteq 1 .. Created
BY AppendProperties DEF TypeOK, SendEnds

LEMMA InitTyped == Init => Typed
<1> SUFFICES ASSUME Init PROVE Typed
  OBVIOUS
<1>1. Created = 0 /\ MaxAlerts \in Nat
  BY LocalMonitorAssumption DEF Init, Created
<1>2. /\ origin \in Seq({"poll", "syslog"})
      /\ recent \in Seq(1 .. Created) /\ payload \in Seq(1 .. Created)
      /\ chat \in Seq(1 .. Created)
  BY DEF Init
<1>3. /\ inHand \in 0 .. Created /\ tasks \subseteq 1 .. Created
      /\ refused \subseteq 1 .. Created
  BY <1>1 DEF Init
<1>4. /\ main = "starting" /\ running \in BOOLEAN /\ listening \in BOOLEAN
      /\ poll = "new" /\ beat = "new" /\ status = "new" /\ inHand = 0
  BY DEF Init
<1>5. count \in Nat /\ logged \in Nat /\ received \in Nat /\ urgent \in Nat /\ logins \in Nat
  BY DEF Init
<1> QED BY <1>1, <1>2, <1>3, <1>4, <1>5 DEF Typed, TypeOK

\* A step that creates an alert keeps the types that speak of the number of
\* alerts, as that only grows.
LEMMA StepTypedCreate ==
  ASSUME Typed, NEW who \in {"poll", "syslog"}, Create(who),
         tasks' \subseteq 1 .. Created + 1, refused' \subseteq 1 .. Created,
         chat' \in Seq(1 .. Created), inHand' \in 0 .. Created + 1, UNCHANGED payload
  PROVE  /\ origin' \in Seq({"poll", "syslog"}) /\ Created' <= MaxAlerts
         /\ recent' \in Seq(1 .. Created') /\ payload' \in Seq(1 .. Created')
         /\ inHand' \in 0 .. Created' /\ tasks' \subseteq 1 .. Created'
         /\ refused' \subseteq 1 .. Created' /\ chat' \in Seq(1 .. Created')
<1>1. Created \in Nat /\ Created' = Created + 1
  BY Creation DEF Typed
<1>2. payload \in Seq(1 .. Created)
  BY DEF Typed, TypeOK
<1> HIDE DEF Created
<1>3. payload \in Seq(1 .. Created + 1) /\ chat' \in Seq(1 .. Created + 1)
  BY <1>1, <1>2, SeqWider
<1> QED BY <1>1, <1>3, Creation DEF Typed

LEMMA TrimTyped ==
  ASSUME TypeOK PROVE Trim(recent) \in Seq(1 .. Created)
BY LastOfProperties, LocalMonitorAssumption DEF TypeOK, Trim

LEMMA StepTyped == Typed /\ [Next]_vars => Typed'
<1> SUFFICES ASSUME Typed, [Next]_vars PROVE Typed'
  OBVIOUS
<1> USE LocalMonitorAssumption DEF Typed
<1>0. Created \in Nat
  BY DEF TypeOK, Created
<1>1. CASE Main \/ Stop \/ PollTest \/ BeatEnds \/ BeatReturns \/ StatusLoop \/ UNCHANGED vars
  <2>1. CASE Main \/ Stop
    <3>1. UNCHANGED <<loops, events, payload, counts>>
      BY <2>1 DEF Main, Open, Gather, ListenFails, LoopsEnd, Exit, Stop
    <3>2. /\ main' \in {"starting", "opening", "gather", "finally", "closed"}
          /\ running' \in BOOLEAN /\ listening' \in BOOLEAN
      BY <2>1 DEF Main, Open, Gather, ListenFails, LoopsEnd, Exit, Stop, TypeOK
    <3> QED BY <3>1, <3>2 DEF loops, events, counts, TypeOK, Created
  <2>2. CASE PollTest
    BY <2>2 DEF PollTest, events, counts, TypeOK, Created
  <2>3. CASE BeatEnds \/ BeatReturns
    BY <2>3 DEF BeatEnds, BeatReturns, events, counts, TypeOK, Created
  <2>4. CASE StatusStart
    BY <2>4 DEF StatusStart, events, counts, TypeOK, Created
  <2>5. CASE StatusWakes
    BY <2>5 DEF StatusWakes, events, counts, TypeOK, Created
  <2>6. CASE UNCHANGED vars
    BY <2>6 DEF vars, loops, events, counts, TypeOK, Created
  <2> QED BY <1>1, <2>1, <2>2, <2>3, <2>4, <2>5, <2>6 DEF StatusLoop
<1>2. CASE Beat
  <2>1. payload' \in Seq(1 .. Created)
    BY <1>2, LastOfProperties DEF Beat, TypeOK
  <2> QED BY <1>2, <2>1 DEF Beat, events, counts, TypeOK, Created
<1>3. CASE PollReturns \/ \E o \in SendOutcome : PollSent(o)
  <2>1. /\ UNCHANGED <<main, running, listening, beat, status, tasks, payload, counts>>
        /\ PollAlerts \/ PollEnds
    BY <1>3 DEF PollReturns, PollSent
  <2>2. chat' \in Seq(1 .. Created) /\ refused' \subseteq 1 .. Created
    <3>1. CASE PollReturns
      BY <3>1 DEF PollReturns, TypeOK
    <3>2. CASE \E o \in SendOutcome : PollSent(o)
      <4>1. PICK o \in SendOutcome : PollSent(o)
        BY <3>2
      <4>2. inHand \in 1 .. Created
        BY <1>0, <4>1 DEF PollSent, TypeOK
      <4> QED BY <4>1, <4>2, Sending DEF PollSent
    <3> QED BY <1>3, <3>1, <3>2
  <2>3. CASE PollAlerts
    <3>1. inHand' = Created + 1 /\ poll' = "send" /\ Create("poll")
      BY <2>3 DEF PollAlerts
    <3>2. tasks' \subseteq 1 .. Created + 1 /\ inHand' \in 0 .. Created + 1
      BY <1>0, <2>1, <3>1 DEF TypeOK
    <3>3. /\ origin' \in Seq({"poll", "syslog"}) /\ Created' <= MaxAlerts
          /\ recent' \in Seq(1 .. Created') /\ payload' \in Seq(1 .. Created')
          /\ inHand' \in 0 .. Created' /\ tasks' \subseteq 1 .. Created'
          /\ refused' \subseteq 1 .. Created' /\ chat' \in Seq(1 .. Created')
      BY <2>1, <2>2, <3>1, <3>2, StepTypedCreate
    <3> QED BY <1>0, <2>1, <3>1, <3>3 DEF counts, TypeOK
  <2>4. CASE PollEnds
    <3>1. recent' \in Seq(1 .. Created) /\ Created' = Created
      BY <2>4, TrimTyped DEF PollEnds, Created
    <3> QED BY <1>0, <2>1, <2>2, <2>4, <3>1 DEF PollEnds, counts, TypeOK
  <2> QED BY <2>1, <2>3, <2>4
<1>5. CASE \E o \in SendOutcome : PollRaised(o)
  <2>1. PICK o \in SendOutcome : PollRaised(o)
    BY <1>5
  <2>2. inHand \in 1 .. Created
    BY <1>0, <2>1 DEF PollRaised, TypeOK
  <2>3. chat' \in Seq(1 .. Created) /\ refused' \subseteq 1 .. Created
    BY <2>1, <2>2, Sending DEF PollRaised
  <2> QED BY <1>0, <2>1, <2>3 DEF PollRaised, counts, TypeOK, Created
<1>6. CASE \E m \in Traffic : DatagramAlerts(m)
  <2>1. PICK m \in Traffic : DatagramAlerts(m)
    BY <1>6
  <2>2. /\ UNCHANGED <<main, running, listening, loops, inHand, refused, chat, payload, logged>>
        /\ count' = count + 1 /\ received' = received + 1
        /\ urgent' \in Nat /\ logins' \in Nat
        /\ Create("syslog") /\ tasks' = tasks \cup {Created + 1}
    BY <2>1 DEF DatagramAlerts, Counted, TypeOK
  <2>3. /\ tasks' \subseteq 1 .. Created + 1 /\ inHand' \in 0 .. Created + 1
        /\ refused' \subseteq 1 .. Created /\ chat' \in Seq(1 .. Created)
    BY <1>0, <2>2 DEF TypeOK
  <2>4. /\ origin' \in Seq({"poll", "syslog"}) /\ Created' <= MaxAlerts
        /\ recent' \in Seq(1 .. Created') /\ payload' \in Seq(1 .. Created')
        /\ inHand' \in 0 .. Created' /\ tasks' \subseteq 1 .. Created'
        /\ refused' \subseteq 1 .. Created' /\ chat' \in Seq(1 .. Created')
    BY <2>2, <2>3, StepTypedCreate
  <2> QED BY <2>2, <2>4 DEF loops, TypeOK
<1>7. CASE \E m \in Traffic : DatagramQuiet(m)
  BY <1>7 DEF DatagramQuiet, Counted, loops, TypeOK, Created
<1>8. CASE \E a \in tasks, o \in SendOutcome : TaskEnds(a, o)
  <2>1. PICK a \in tasks, o \in SendOutcome : TaskEnds(a, o)
    BY <1>8
  <2>2. a \in 1 .. Created
    BY DEF TypeOK
  <2>3. chat' \in Seq(1 .. Created) /\ refused' \subseteq 1 .. Created
    BY <2>1, <2>2, Sending DEF TaskEnds
  <2> QED BY <2>1, <2>3 DEF TaskEnds, loops, counts, TypeOK, Created
<1> QED
  BY <1>1, <1>2, <1>3, <1>5, <1>6, <1>7, <1>8
     DEF Next, PollLoop, HeartbeatLoop, Datagram

\* Every variable keeps its type.
THEOREM Typing == Spec => []TypeOK
<1>1. Typed => TypeOK
  BY DEF Typed
<1> QED BY <1>1, InitTyped, StepTyped, PTL DEF Spec

LEMMA TypedAlways == Spec => []Typed
BY InitTyped, StepTyped, PTL DEF Spec


-----------------------------------------------------------------------------
(* Messages                                                                *)

\* Every message with a header is reported once or still counted.
THEOREM Counting == Spec => []MessagesCounted
<1>1. Init => MessagesCounted
  BY DEF Init, MessagesCounted
<1>2. Typed /\ MessagesCounted /\ [Next]_vars => MessagesCounted'
  <2> SUFFICES ASSUME Typed, MessagesCounted, [Next]_vars PROVE MessagesCounted'
    OBVIOUS
  <2>1. count \in Nat /\ logged \in Nat /\ received \in Nat
    BY DEF Typed, TypeOK
  <2>2. CASE StatusWakes
    BY <2>1, <2>2 DEF StatusWakes, MessagesCounted
  <2>3. CASE \E m \in Traffic : Datagram(m)
    BY <2>1, <2>3 DEF Datagram, DatagramAlerts, DatagramQuiet, Counted, MessagesCounted
  <2>4. CASE Main \/ Stop \/ PollLoop \/ HeartbeatLoop \/ StatusStart \/ UNCHANGED vars
             \/ \E a \in tasks, o \in SendOutcome : TaskEnds(a, o)
    <3>1. UNCHANGED counts
      BY <2>4 DEF Main, Open, Gather, ListenFails, LoopsEnd, Exit, Stop, PollLoop, PollTest,
                  PollReturns, PollSent, PollRaised, HeartbeatLoop, Beat, BeatEnds,
                  BeatReturns, StatusStart, TaskEnds, vars
    <3> QED BY <3>1 DEF counts, MessagesCounted
  <2> QED BY <2>2, <2>3, <2>4 DEF Next, StatusLoop
<1> QED BY <1>1, <1>2, TypedAlways, PTL DEF Spec

\* A step that creates no syslog alert and receives no message.
LEMMA OtherSteps ==
  ASSUME Next, ~ \E m \in Traffic : Datagram(m)
  PROVE  UNCHANGED urgent /\ (UNCHANGED origin \/ Create("poll"))
BY DEF Next, Main, Open, Gather, ListenFails, LoopsEnd, Exit, Stop, PollLoop, PollTest,
       PollReturns, PollSent, PollRaised, PollAlerts, PollEnds, HeartbeatLoop, Beat,
       BeatEnds, BeatReturns, StatusLoop, StatusStart, StatusWakes, TaskEnds, events, counts

\* Failed logins have none, so the alerts are exactly those of urgent messages.
UrgentTold == Cardinality(SyslogAlerts) = urgent

\* Each message about a failover, its end or a broken link has an alert of its
\* own; no other has one.
THEOREM Telling == Spec => [](FailoverTold /\ UrgentTold)
<1>1. Init => UrgentTold
  <2> SUFFICES ASSUME Init PROVE UrgentTold
    OBVIOUS
  <2>1. SyslogAlerts = {}
    BY DEF Init, SyslogAlerts, Created
  <2> QED BY <2>1, FS_EmptySet DEF Init, UrgentTold
<1>2. Typed /\ UrgentTold /\ [Next]_vars => UrgentTold'
  <2> SUFFICES ASSUME Typed, UrgentTold, Next PROVE UrgentTold'
    BY DEF vars, events, counts, UrgentTold, SyslogAlerts, Created
  <2>1. Created \in Nat /\ urgent \in Nat /\ Cardinality(SyslogAlerts) = urgent
    BY DEF Typed, TypeOK, Created, UrgentTold, SyslogAlerts
  <2>2. IsFiniteSet(SyslogAlerts)
    <3>1. IsFiniteSet(1 .. Created)
      BY <2>1, FS_Interval
    <3> QED BY <3>1, FS_Subset DEF SyslogAlerts
  <2>3. ASSUME NEW who \in {"poll", "syslog"}, Create(who)
        PROVE  SyslogAlerts' = IF who = "syslog" THEN SyslogAlerts \cup {Created + 1}
                               ELSE SyslogAlerts
    <3>1. /\ Created' = Created + 1 /\ origin'[Created + 1] = who
          /\ \A a \in 1 .. Created : origin'[a] = origin[a]
      BY <2>3, Creation DEF Typed
    <3>2. 1 .. Created + 1 = (1 .. Created) \cup {Created + 1}
      BY <2>1
    <3>3. SyslogAlerts' = {a \in 1 .. Created + 1 : origin'[a] = "syslog"}
      BY <3>1 DEF SyslogAlerts
    <3> HIDE DEF Created
    <3> QED BY <3>1, <3>2, <3>3 DEF SyslogAlerts
  <2>4. CASE \E m \in Traffic : DatagramAlerts(m)
    <3>1. PICK m \in Traffic : DatagramAlerts(m)
      BY <2>4
    <3>2. m \in Message /\ Urgent(m)
      BY <3>1, UrgentAlerts, LocalMonitorAssumption DEF DatagramAlerts
    <3>3. urgent' = urgent + 1 /\ SyslogAlerts' = SyslogAlerts \cup {Created + 1}
      BY <2>3, <3>1, <3>2 DEF DatagramAlerts, Counted
    <3>4. Created + 1 \notin SyslogAlerts
      BY <2>1 DEF SyslogAlerts
    <3>5. Cardinality(SyslogAlerts') = urgent + 1
      BY <2>1, <2>2, <3>3, <3>4, FS_AddElement
    <3> QED BY <3>3, <3>5 DEF UrgentTold, SyslogAlerts
  <2>5. CASE \E m \in Traffic : DatagramQuiet(m)
    <3>1. PICK m \in Traffic : DatagramQuiet(m)
      BY <2>5
    <3>2. m \in Message /\ ~Urgent(m)
      BY <3>1, UrgentAlerts, LocalMonitorAssumption DEF DatagramQuiet
    <3> QED BY <3>1, <3>2 DEF DatagramQuiet, Counted, UrgentTold, SyslogAlerts, Created
  <2>6. CASE ~ \E m \in Traffic : Datagram(m)
    <3>1. UNCHANGED urgent /\ SyslogAlerts' = SyslogAlerts
      BY <2>3, <2>6, OtherSteps DEF SyslogAlerts, Created
    <3> QED BY <2>1, <3>1 DEF UrgentTold, SyslogAlerts
  <2> QED BY <2>4, <2>5, <2>6 DEF Datagram
<1>3. Typed /\ UrgentTold => FailoverTold
  BY DEF Typed, TypeOK, UrgentTold, FailoverTold
<1> QED BY <1>1, <1>2, <1>3, TypedAlways, PTL DEF Spec

-----------------------------------------------------------------------------
(* The way of an alert                                                     *)

\* The steps that concern alerts.
LEMMA AlertSteps ==
  ASSUME [Next]_vars
  PROVE  \/ UNCHANGED <<origin, inHand, tasks, refused, chat>>
         \/ PollReturns
         \/ \E o \in SendOutcome : PollSent(o) \/ PollRaised(o)
         \/ \E m \in Traffic : DatagramAlerts(m)
         \/ \E a \in tasks, o \in SendOutcome : TaskEnds(a, o)
BY DEF Next, Main, Open, Gather, ListenFails, LoopsEnd, Exit, Stop, PollLoop, PollTest,
       HeartbeatLoop, Beat, BeatEnds, BeatReturns, StatusLoop, StatusStart, StatusWakes,
       Datagram, DatagramQuiet, Counted, vars, events

\* The sending of an alert puts it at the end of the chat or among the refused.
LEMMA Outcome ==
  ASSUME TypeOK, NEW a \in 1 .. Created, NEW o, SendEnds(a, o)
  PROVE  \/ /\ UNCHANGED refused /\ Len(chat') = Len(chat) + 1
            /\ chat'[Len(chat) + 1] = a
            /\ \A i \in 1 .. Len(chat) : chat'[i] = chat[i]
            /\ chat' \in Seq(1 .. Created)
         \/ UNCHANGED chat /\ refused' = refused \cup {a}
<1>1. chat \in Seq(1 .. Created)
  BY DEF TypeOK
<1>2. CASE o = "sent"
  <2>1. chat' = Append(chat, a) /\ UNCHANGED refused
    BY <1>2 DEF SendEnds
  <2> HIDE DEF Created
  <2> QED BY <1>1, <2>1, AppendProperties
<1>3. CASE o # "sent"
  BY <1>3 DEF SendEnds
<1> QED BY <1>2, <1>3

\* What PollOrder rests on: the poll loop sends one alert at a time, and none
\* of its alerts is sent by a task.
InTurn ==
  /\ inHand # 0 => origin[inHand] = "poll"
  /\ \A i \in DOMAIN chat : inHand # 0 /\ origin[chat[i]] = "poll" => chat[i] < inHand
  /\ \A a \in tasks : origin[a] = "syslog"

OrderInv == InTurn /\ PollOrder

\* The end of a send keeps the order of the chat, if the alert is the syslog
\* callback's or the one in hand.
LEMMA OrderAfterSend ==
  ASSUME Typed, OrderInv, NEW a \in 1 .. Created, NEW o, SendEnds(a, o),
         a = inHand \/ a \in tasks
  PROVE  /\ chat' \in Seq(1 .. Created)
         /\ \A i, j \in DOMAIN chat' :
              i < j /\ origin[chat'[i]] = "poll" /\ origin[chat'[j]] = "poll"
                => chat'[i] < chat'[j]
         /\ \A i \in DOMAIN chat' :
              a # inHand /\ inHand # 0 /\ origin[chat'[i]] = "poll" => chat'[i] < inHand
<1>1. chat \in Seq(1 .. Created) /\ DOMAIN chat = 1 .. Len(chat) /\ Len(chat) \in Nat
  BY DEF Typed, TypeOK
<1>2. CASE UNCHANGED chat
  BY <1>1, <1>2 DEF OrderInv, InTurn, PollOrder
<1>3. CASE /\ Len(chat') = Len(chat) + 1 /\ chat'[Len(chat) + 1] = a
           /\ \A i \in 1 .. Len(chat) : chat'[i] = chat[i]
           /\ chat' \in Seq(1 .. Created)
  <2>1. DOMAIN chat' = 1 .. Len(chat) + 1 /\ 1 .. Created \subseteq Nat
    BY <1>3
  <2>2. origin[a] = "poll" => a = inHand /\ inHand # 0
    BY DEF OrderInv, InTurn
  <2>3. ASSUME NEW i \in DOMAIN chat', NEW j \in DOMAIN chat', i < j,
               origin[chat'[i]] = "poll", origin[chat'[j]] = "poll"
        PROVE  chat'[i] < chat'[j]
    <3>1. i \in 1 .. Len(chat) /\ chat'[i] = chat[i]
      BY <1>1, <1>3, <2>1, <2>3
    <3>2. CASE j \in 1 .. Len(chat)
      BY <1>1, <1>3, <2>3, <3>1, <3>2 DEF OrderInv, PollOrder
    <3>3. CASE j = Len(chat) + 1
      BY <1>1, <1>3, <2>2, <2>3, <3>1, <3>3 DEF OrderInv, InTurn
    <3> QED BY <1>1, <2>1, <3>2, <3>3
  <2>4. ASSUME NEW i \in DOMAIN chat', a # inHand, inHand # 0, origin[chat'[i]] = "poll"
        PROVE  chat'[i] < inHand
    <3>1. CASE i \in 1 .. Len(chat)
      BY <1>1, <1>3, <2>4, <3>1 DEF OrderInv, InTurn
    <3>2. CASE i = Len(chat) + 1
      BY <1>3, <2>2, <2>4, <3>2
    <3> QED BY <1>1, <2>1, <3>1, <3>2
  <2> QED BY <1>3, <2>3, <2>4
<1> QED BY <1>1, <1>2, <1>3, Outcome DEF Typed

\* Creating an alert keeps the order: its number is larger than all before.
LEMMA OrderAfterCreate ==
  ASSUME Typed, NEW who \in {"poll", "syslog"}, Create(who),
         NEW c \in Seq(1 .. Created),
         \A i, j \in DOMAIN c :
           i < j /\ origin[c[i]] = "poll" /\ origin[c[j]] = "poll" => c[i] < c[j]
  PROVE  /\ \A i, j \in DOMAIN c :
              i < j /\ origin'[c[i]] = "poll" /\ origin'[c[j]] = "poll" => c[i] < c[j]
         /\ \A i \in DOMAIN c : c[i] < Created + 1 /\ origin'[c[i]] = origin[c[i]]
<1>1. Created \in Nat /\ \A a \in 1 .. Created : origin'[a] = origin[a]
  BY Creation DEF Typed
<1> HIDE DEF Created
<1>2. DOMAIN c = 1 .. Len(c) /\ \A i \in 1 .. Len(c) : c[i] \in 1 .. Created
  BY ElementOfSeq, LenProperties
<1>3. \A i \in DOMAIN c : c[i] \in 1 .. Created
  BY <1>2
<1>4. \A i \in DOMAIN c : c[i] < Created + 1 /\ origin'[c[i]] = origin[c[i]]
  BY <1>1, <1>3
<1> QED BY <1>4

LEMMA StepOrder == Typed /\ OrderInv /\ [Next]_vars => OrderInv'
<1> SUFFICES ASSUME Typed, OrderInv, [Next]_vars PROVE OrderInv'
  OBVIOUS
<1>0. /\ Created \in Nat /\ chat \in Seq(1 .. Created) /\ tasks \subseteq 1 .. Created
      /\ inHand \in 0 .. Created
  BY DEF Typed, TypeOK, Created
<1>1. CASE UNCHANGED <<origin, inHand, tasks, refused, chat>>
  BY <1>1 DEF OrderInv, InTurn, PollOrder
<1>2. ASSUME PollAlerts, UNCHANGED tasks,
             chat' \in Seq(1 .. Created),
             \A i, j \in DOMAIN chat' :
               i < j /\ origin[chat'[i]] = "poll" /\ origin[chat'[j]] = "poll"
                 => chat'[i] < chat'[j]
      PROVE  OrderInv'
  <2>1. /\ \A i, j \in DOMAIN chat' :
             i < j /\ origin'[chat'[i]] = "poll" /\ origin'[chat'[j]] = "poll"
               => chat'[i] < chat'[j]
        /\ \A i \in DOMAIN chat' : chat'[i] < Created + 1
    BY <1>2, OrderAfterCreate DEF PollAlerts
  <2>2. /\ inHand' = Created + 1 /\ origin'[Created + 1] = "poll"
        /\ \A a \in 1 .. Created : origin'[a] = origin[a]
    BY <1>2, Creation DEF PollAlerts, Typed
  <2> HIDE DEF Created
  <2> QED BY <1>0, <1>2, <2>1, <2>2 DEF OrderInv, InTurn, PollOrder
<1>3. ASSUME inHand' = 0, UNCHANGED <<origin, tasks>>,
             \A i, j \in DOMAIN chat' :
               i < j /\ origin[chat'[i]] = "poll" /\ origin[chat'[j]] = "poll"
                 => chat'[i] < chat'[j]
      PROVE  OrderInv'
  BY <1>3 DEF OrderInv, InTurn, PollOrder
<1>4. CASE PollReturns
  <2>1. UNCHANGED <<tasks, chat>> /\ (PollAlerts \/ PollEnds)
    BY <1>4 DEF PollReturns
  <2> QED BY <1>0, <1>2, <1>3, <2>1 DEF PollEnds, OrderInv, PollOrder
<1>5. CASE \E o \in SendOutcome : PollSent(o) \/ PollRaised(o)
  <2>1. PICK o \in SendOutcome : PollSent(o) \/ PollRaised(o)
    BY <1>5
  <2>2. SendEnds(inHand, o) /\ UNCHANGED tasks /\ inHand \in 1 .. Created
    BY <1>0, <2>1 DEF PollSent, PollRaised, Typed
  <2>3. /\ chat' \in Seq(1 .. Created)
        /\ \A i, j \in DOMAIN chat' :
             i < j /\ origin[chat'[i]] = "poll" /\ origin[chat'[j]] = "poll"
               => chat'[i] < chat'[j]
    BY <2>2, OrderAfterSend
  <2>4. PollAlerts \/ (inHand' = 0 /\ UNCHANGED origin)
    BY <2>1 DEF PollSent, PollRaised, PollEnds
  <2> QED BY <1>2, <1>3, <2>2, <2>3, <2>4
<1>6. CASE \E m \in Traffic : DatagramAlerts(m)
  <2>1. /\ Create("syslog") /\ tasks' = tasks \cup {Created + 1}
        /\ UNCHANGED <<inHand, chat>>
    BY <1>6 DEF DatagramAlerts, Counted
  <2>2. /\ \A i, j \in DOMAIN chat :
             i < j /\ origin'[chat[i]] = "poll" /\ origin'[chat[j]] = "poll"
               => chat[i] < chat[j]
        /\ \A i \in DOMAIN chat : origin'[chat[i]] = origin[chat[i]]
    BY <1>0, <2>1, OrderAfterCreate DEF OrderInv, PollOrder
  <2>3. origin'[Created + 1] = "syslog" /\ \A a \in 1 .. Created : origin'[a] = origin[a]
    BY <2>1, Creation DEF Typed
  <2> HIDE DEF Created
  <2> QED BY <1>0, <2>1, <2>2, <2>3 DEF OrderInv, InTurn, PollOrder
<1>7. CASE \E a \in tasks, o \in SendOutcome : TaskEnds(a, o)
  <2>1. PICK a \in tasks, o \in SendOutcome : TaskEnds(a, o)
    BY <1>7
  <2>2. /\ SendEnds(a, o) /\ tasks' = tasks \ {a} /\ UNCHANGED <<origin, inHand>>
        /\ a \in 1 .. Created /\ (inHand # 0 => a # inHand)
    BY <1>0, <2>1 DEF TaskEnds, OrderInv, InTurn
  <2>3. /\ \A i, j \in DOMAIN chat' :
             i < j /\ origin[chat'[i]] = "poll" /\ origin[chat'[j]] = "poll"
               => chat'[i] < chat'[j]
        /\ \A i \in DOMAIN chat' :
             inHand # 0 /\ origin[chat'[i]] = "poll" => chat'[i] < inHand
    BY <2>2, OrderAfterSend
  <2> QED BY <2>2, <2>3 DEF OrderInv, InTurn, PollOrder
<1> QED BY <1>1, <1>4, <1>5, <1>6, <1>7, AlertSteps

\* The alerts of the poll loop reach the chat in their order, whatever the
\* tasks of the syslog alerts do.
THEOREM OrderOfPolls == Spec => []PollOrder
<1>1. Init => OrderInv
  BY DEF Init, OrderInv, InTurn, PollOrder
<1>2. OrderInv => PollOrder
  BY DEF OrderInv
<1> QED BY <1>1, <1>2, StepOrder, TypedAlways, PTL DEF Spec


-----------------------------------------------------------------------------
(* No alert is lost or doubled                                             *)

\* The places an alert can be in.
Apart ==
  /\ Elements(chat) \cap refused = {} /\ Elements(chat) \cap tasks = {}
  /\ refused \cap tasks = {}
  /\ inHand \notin Elements(chat) \cup refused \cup tasks

Ledger == Apart /\ EachAlertOnce

LEMMA Countable ==
  ASSUME NEW n \in Nat, NEW c \in Seq(1 .. n), NEW R \in SUBSET (1 .. n)
  PROVE  Len(c) \in Nat /\ Cardinality(R) \in Nat
<1>1. IsFiniteSet(1 .. n)
  BY FS_Interval
<1> QED BY <1>1, FS_Subset, FS_CardinalityType, LenProperties

LEMMA LedgerFinite ==
  ASSUME Typed
  PROVE  /\ Created \in Nat /\ Len(chat) \in Nat
         /\ IsFiniteSet(refused) /\ IsFiniteSet(tasks)
         /\ Cardinality(refused) \in Nat /\ Cardinality(tasks) \in Nat
         /\ Elements(chat) \subseteq 1 .. Created /\ refused \subseteq 1 .. Created
         /\ tasks \subseteq 1 .. Created /\ inHand \in 0 .. Created
<1>1. Created \in Nat
  BY DEF Typed, TypeOK, Created
<1>2. IsFiniteSet(1 .. Created)
  BY <1>1, FS_Interval
<1>3. refused \subseteq 1 .. Created /\ tasks \subseteq 1 .. Created
  BY DEF Typed, TypeOK
<1>4. IsFiniteSet(refused) /\ IsFiniteSet(tasks)
  BY <1>2, <1>3, FS_Subset
<1>5. chat \in Seq(1 .. Created)
  BY DEF Typed, TypeOK
<1> QED
  BY <1>1, <1>3, <1>4, <1>5, FS_CardinalityType, LenProperties, ElementOfSeq
     DEF Elements, Typed, TypeOK

\* The end of a send moves the alert to the chat or to the refused.
LEMMA LedgerSend ==
  ASSUME Typed, Ledger, NEW a \in 1 .. Created, NEW o, SendEnds(a, o),
         a \notin Elements(chat) \cup refused
  PROVE  /\ Elements(chat') \cup refused' = Elements(chat) \cup refused \cup {a}
         /\ Elements(chat') \cap refused' = {}
         /\ Len(chat') + Cardinality(refused') = Len(chat) + Cardinality(refused) + 1
<1>1. chat \in Seq(1 .. Created) /\ DOMAIN chat = 1 .. Len(chat) /\ Len(chat) \in Nat
  BY LenProperties DEF Typed, TypeOK
<1>2. CASE UNCHANGED chat /\ refused' = refused \cup {a}
  <2>1. Cardinality(refused') = Cardinality(refused) + 1
    BY <1>2, LedgerFinite, FS_AddElement
  <2>2. Cardinality(refused) \in Nat
    BY LedgerFinite
  <2> QED BY <1>1, <1>2, <2>1, <2>2 DEF Ledger, Apart, Elements
<1>3. CASE /\ UNCHANGED refused /\ Len(chat') = Len(chat) + 1
           /\ chat'[Len(chat) + 1] = a
           /\ \A i \in 1 .. Len(chat) : chat'[i] = chat[i]
           /\ chat' \in Seq(1 .. Created)
  <2>1. DOMAIN chat' = 1 .. Len(chat) + 1
    BY <1>3, LenProperties
  <2>2. Elements(chat') = Elements(chat) \cup {a}
    <3>1. ASSUME NEW x \in Elements(chat') PROVE x \in Elements(chat) \cup {a}
      <4>1. PICK n \in 1 .. Len(chat) + 1 : x = chat'[n]
        BY <2>1, <3>1 DEF Elements
      <4>2. CASE n = Len(chat) + 1
        BY <1>3, <4>1, <4>2
      <4>3. CASE n \in 1 .. Len(chat)
        BY <1>1, <1>3, <4>1, <4>3 DEF Elements
      <4> QED BY <1>1, <4>2, <4>3
    <3>2. ASSUME NEW x \in Elements(chat) PROVE x \in Elements(chat')
      <4>1. PICK n \in 1 .. Len(chat) : x = chat[n]
        BY <1>1, <3>2 DEF Elements
      <4>2. n \in DOMAIN chat' /\ x = chat'[n]
        BY <1>1, <1>3, <2>1, <4>1
      <4> QED BY <4>2 DEF Elements
    <3>3. a \in Elements(chat')
      <4>1. Len(chat) + 1 \in DOMAIN chat'
        BY <1>1, <2>1
      <4> QED BY <1>3, <4>1 DEF Elements
    <3> QED BY <3>1, <3>2, <3>3
  <2>3. Cardinality(refused) \in Nat
    BY LedgerFinite
  <2> QED BY <1>1, <1>3, <2>2, <2>3 DEF Ledger, Apart
<1> QED BY <1>2, <1>3, Outcome DEF Typed

LEMMA StepLedger == Typed /\ Ledger /\ [Next]_vars => Ledger'
<1> SUFFICES ASSUME Typed, Ledger, [Next]_vars PROVE Ledger'
  OBVIOUS
<1>0. /\ Created \in Nat /\ Len(chat) \in Nat
      /\ Cardinality(refused) \in Nat /\ Cardinality(tasks) \in Nat
      /\ Elements(chat) \subseteq 1 .. Created /\ refused \subseteq 1 .. Created
      /\ tasks \subseteq 1 .. Created /\ inHand \in 0 .. Created
  BY LedgerFinite
<1>a. /\ 1 .. Created = Elements(chat) \cup refused \cup tasks \cup ({inHand} \ {0})
      /\ Created = Len(chat) + Cardinality(refused) + Cardinality(tasks)
                     + IF inHand = 0 THEN 0 ELSE 1
  BY DEF Ledger, EachAlertOnce
<1>1. CASE UNCHANGED <<origin, inHand, tasks, refused, chat>>
  BY <1>1 DEF Ledger, Apart, EachAlertOnce, Elements, Created
\* The poll goes on once the alert in hand, if any, is off its hands.
<1>2. ASSUME PollAlerts \/ (inHand' = 0 /\ UNCHANGED origin), UNCHANGED tasks,
             Elements(chat') \cup refused' = Elements(chat) \cup refused \cup ({inHand} \ {0}),
             Elements(chat') \cap refused' = {},
             Len(chat') \in Nat, Cardinality(refused') \in Nat,
             Len(chat') + Cardinality(refused')
               = Len(chat) + Cardinality(refused) + IF inHand = 0 THEN 0 ELSE 1
      PROVE  Ledger'
  <2>1. (Elements(chat') \cup refused') \cap tasks = {}
    BY <1>2 DEF Ledger, Apart
  <2>2. /\ 1 .. Created = Elements(chat') \cup refused' \cup tasks
        /\ Created = Len(chat') + Cardinality(refused') + Cardinality(tasks)
    BY <1>0, <1>a, <1>2
  <2>3. CASE PollAlerts
    <3>1. Created' = Created + 1 /\ inHand' = Created + 1
      BY <2>3, Creation DEF PollAlerts, Typed
    <3>2. 1 .. Created + 1 = (1 .. Created) \cup {Created + 1} /\ Created + 1 \notin 1 .. Created
          /\ Created + 1 # 0
      BY <1>0
    <3>3. /\ 1 .. Created' = Elements(chat') \cup refused' \cup tasks' \cup ({inHand'} \ {0})
          /\ inHand' \notin Elements(chat') \cup refused' \cup tasks'
      BY <1>2, <2>2, <3>1, <3>2
    <3>4. Created' = Len(chat') + Cardinality(refused') + Cardinality(tasks')
                       + IF inHand' = 0 THEN 0 ELSE 1
      BY <1>0, <1>2, <2>2, <3>1, <3>2
    <3> QED BY <1>2, <2>1, <3>3, <3>4 DEF Ledger, Apart, EachAlertOnce, Elements
  <2>4. CASE inHand' = 0 /\ UNCHANGED origin
    <3>1. Created' = Created /\ 0 \notin 1 .. Created
      BY <2>4 DEF Created
    <3>2. /\ 1 .. Created' = Elements(chat') \cup refused' \cup tasks' \cup ({inHand'} \ {0})
          /\ inHand' \notin Elements(chat') \cup refused' \cup tasks'
      BY <1>2, <2>2, <2>4, <3>1
    <3>3. Created' = Len(chat') + Cardinality(refused') + Cardinality(tasks')
                       + IF inHand' = 0 THEN 0 ELSE 1
      BY <1>0, <1>2, <2>2, <2>4, <3>1
    <3> QED BY <1>2, <2>1, <3>2, <3>3 DEF Ledger, Apart, EachAlertOnce, Elements
  <2> QED BY <1>2, <2>3, <2>4
<1>3. CASE PollReturns
  <2>1. UNCHANGED <<tasks, chat, refused>> /\ (PollAlerts \/ (inHand' = 0 /\ UNCHANGED origin))
    BY <1>3 DEF PollReturns, PollEnds
  <2>2. inHand = 0
    BY <1>3 DEF PollReturns, Typed
  <2>3. Elements(chat') = Elements(chat) /\ Len(chat') = Len(chat)
    BY <2>1 DEF Elements
  <2> QED BY <1>0, <1>2, <2>1, <2>2, <2>3 DEF Ledger, Apart
<1>4. CASE \E o \in SendOutcome : PollSent(o) \/ PollRaised(o)
  <2>1. PICK o \in SendOutcome : PollSent(o) \/ PollRaised(o)
    BY <1>4
  <2>2. /\ SendEnds(inHand, o) /\ UNCHANGED tasks /\ inHand \in 1 .. Created
        /\ inHand # 0
    BY <1>0, <2>1 DEF PollSent, PollRaised, Typed
  <2>3. PollAlerts \/ (inHand' = 0 /\ UNCHANGED origin)
    BY <2>1 DEF PollSent, PollRaised, PollEnds
  <2>4. inHand \notin Elements(chat) \cup refused
    BY DEF Ledger, Apart
  <2>5. /\ Elements(chat') \cup refused' = Elements(chat) \cup refused \cup {inHand}
        /\ Elements(chat') \cap refused' = {}
        /\ Len(chat') + Cardinality(refused') = Len(chat) + Cardinality(refused) + 1
    BY <2>2, <2>4, LedgerSend
  <2>6. Len(chat') \in Nat /\ Cardinality(refused') \in Nat
    BY <1>0, <2>2, Sending, Countable DEF Typed
  <2> QED BY <1>2, <2>2, <2>3, <2>5, <2>6
<1>5. CASE \E m \in Traffic : DatagramAlerts(m)
  <2>1. /\ Create("syslog") /\ tasks' = tasks \cup {Created + 1}
        /\ UNCHANGED <<inHand, refused, chat>>
    BY <1>5 DEF DatagramAlerts, Counted
  <2>2. Created' = Created + 1
    BY <2>1, Creation DEF Typed
  <2>3. 1 .. Created + 1 = (1 .. Created) \cup {Created + 1} /\ Created + 1 \notin 0 .. Created
    BY <1>0
  <2>4. Created + 1 \notin tasks
    BY <1>0
  <2>5. Cardinality(tasks') = Cardinality(tasks) + 1
    BY <2>1, <2>4, LedgerFinite, FS_AddElement
  <2>6. Elements(chat') = Elements(chat) /\ Len(chat') = Len(chat)
    BY <2>1 DEF Elements
  <2>7. /\ 1 .. Created' = Elements(chat') \cup refused' \cup tasks' \cup ({inHand'} \ {0})
        /\ Apart'
    <3>1. Created + 1 \notin Elements(chat) \cup refused \cup tasks \cup {inHand}
      BY <1>0
    <3>2. 1 .. Created' = Elements(chat') \cup refused' \cup tasks' \cup ({inHand'} \ {0})
      BY <1>a, <2>1, <2>2, <2>3, <2>6
    <3> QED BY <2>1, <2>6, <3>1, <3>2 DEF Ledger, Apart
  <2>8. Created' = Len(chat') + Cardinality(refused') + Cardinality(tasks')
                     + IF inHand' = 0 THEN 0 ELSE 1
    BY <1>0, <1>a, <2>1, <2>2, <2>5, <2>6
  <2> QED BY <2>7, <2>8 DEF Ledger, EachAlertOnce
<1>6. CASE \E a \in tasks, o \in SendOutcome : TaskEnds(a, o)
  <2>1. PICK a \in tasks, o \in SendOutcome : TaskEnds(a, o)
    BY <1>6
  <2>2. /\ SendEnds(a, o) /\ tasks' = tasks \ {a} /\ UNCHANGED <<origin, inHand>>
        /\ a \in 1 .. Created /\ a \notin Elements(chat) \cup refused /\ a # inHand
    BY <1>0, <2>1 DEF TaskEnds, Ledger, Apart
  <2>3. /\ Elements(chat') \cup refused' = Elements(chat) \cup refused \cup {a}
        /\ Elements(chat') \cap refused' = {}
        /\ Len(chat') + Cardinality(refused') = Len(chat) + Cardinality(refused) + 1
    BY <2>2, LedgerSend
  <2>4. Cardinality(tasks') = Cardinality(tasks) - 1
    BY <2>1, <2>2, LedgerFinite, FS_RemoveElement
  <2>5. Len(chat') \in Nat /\ Cardinality(refused') \in Nat
    BY <1>0, <2>2, Sending, Countable DEF Typed
  <2>6. Created' = Created
    BY <2>2 DEF Created
  <2>7. /\ 1 .. Created = Elements(chat') \cup refused' \cup tasks' \cup ({inHand'} \ {0})
        /\ Apart'
    BY <1>a, <2>2, <2>3 DEF Ledger, Apart
  <2>8. Created' = Len(chat') + Cardinality(refused') + Cardinality(tasks')
                     + IF inHand' = 0 THEN 0 ELSE 1
    BY <1>0, <1>a, <2>2, <2>3, <2>4, <2>5, <2>6
  <2> QED BY <2>6, <2>7, <2>8 DEF Ledger, EachAlertOnce
<1> QED BY <1>1, <1>3, <1>4, <1>5, <1>6, AlertSteps

\* Every alert is in the chat once, or was refused, or is still being sent.
THEOREM AlertsAccounted == Spec => []EachAlertOnce
<1>1. Init => Ledger
  BY FS_EmptySet DEF Init, Ledger, Apart, EachAlertOnce, Elements, Created
<1>2. Ledger => EachAlertOnce
  BY DEF Ledger
<1> QED BY <1>1, <1>2, StepLedger, TypedAlways, PTL DEF Spec


-----------------------------------------------------------------------------
(* What a heartbeat tells                                                  *)

\* The recent events are the last alerts created, none missing, and none that
\* a heartbeat would need has been cut off.
RecentLatest ==
  /\ Len(recent) <= Created
  /\ Len(recent) = Created \/ Len(recent) >= Keep
  /\ \A i \in 1 .. Len(recent) : recent[i] = Created - Len(recent) + i

LEMMA TrimKeepsLatest ==
  ASSUME Typed, RecentLatest
  PROVE  LET t == Trim(recent)
         IN  /\ Len(t) <= Created
             /\ Len(t) = Created \/ Len(t) >= Keep
             /\ \A i \in 1 .. Len(t) : t[i] = Created - Len(t) + i
<1> DEFINE t == LastOf(recent, Keep)
<1>1. Created \in Nat /\ Keep \in Nat /\ recent \in Seq(1 .. Created) /\ Len(recent) \in Nat
  BY LocalMonitorAssumption, LenProperties DEF Typed, TypeOK, Created
<1>2. /\ t \in Seq(1 .. Created)
      /\ Len(t) = IF Len(recent) > Keep THEN Keep ELSE Len(recent)
      /\ \A i \in 1 .. Len(t) : t[i] = recent[Len(recent) - Len(t) + i]
  BY <1>1, LastOfProperties
<1> HIDE DEF t
<1>3. Len(t) \in Nat /\ Len(t) <= Len(recent)
  BY <1>1, <1>2
<1>4. ASSUME NEW i \in 1 .. Len(t) PROVE t[i] = Created - Len(t) + i
  <2> DEFINE j == Len(recent) - Len(t) + i
  <2>1. t[i] = recent[j]
    BY <1>2
  <2>3. j \in 1 .. Len(recent)
    BY <1>1, <1>3
  <2>2. recent[j] = Created - Len(recent) + j
    BY <2>3 DEF RecentLatest
  <2> QED BY <1>1, <1>3, <2>1, <2>2
<1>5. Len(t) <= Created /\ (Len(t) = Created \/ Len(t) >= Keep)
  BY <1>1, <1>2, <1>3 DEF RecentLatest
<1> QED BY <1>4, <1>5 DEF t, Trim

LEMMA StepRecent == Typed /\ RecentLatest /\ [Next]_vars => RecentLatest'
<1> SUFFICES ASSUME Typed, RecentLatest, [Next]_vars PROVE RecentLatest'
  OBVIOUS
<1>0. Created \in Nat /\ Keep \in Nat /\ recent \in Seq(1 .. Created) /\ Len(recent) \in Nat
  BY LocalMonitorAssumption, LenProperties DEF Typed, TypeOK, Created
<1>1. CASE UNCHANGED <<origin, recent>>
  BY <1>1 DEF RecentLatest, Created
<1>2. CASE \E who \in {"poll", "syslog"} : Create(who)
  <2>1. /\ Created' = Created + 1 /\ Len(recent') = Len(recent) + 1
        /\ recent'[Len(recent) + 1] = Created + 1
        /\ \A i \in 1 .. Len(recent) : recent'[i] = recent[i]
    BY <1>2, Creation DEF Typed
  <2> HIDE DEF Created
  <2>2. ASSUME NEW i \in 1 .. Len(recent) + 1
        PROVE  recent'[i] = Created' - Len(recent') + i
    <3>1. CASE i \in 1 .. Len(recent)
      BY <1>0, <2>1, <3>1 DEF RecentLatest
    <3>2. CASE i = Len(recent) + 1
      BY <1>0, <2>1, <3>2
    <3> QED BY <1>0, <3>1, <3>2
  <2> QED BY <1>0, <2>1, <2>2 DEF RecentLatest
<1>3. CASE PollEnds
  <2>1. recent' = Trim(recent) /\ Created' = Created
    BY <1>3 DEF PollEnds, Created
  <2> HIDE DEF Created
  <2> QED BY <2>1, TrimKeepsLatest DEF RecentLatest
<1> QED
  BY <1>1, <1>2, <1>3
     DEF Next, Main, Open, Gather, ListenFails, LoopsEnd, Exit, Stop, PollLoop, PollTest,
         PollReturns, PollSent, PollRaised, PollAlerts, HeartbeatLoop, Beat, BeatEnds,
         BeatReturns, StatusLoop, StatusStart, StatusWakes, Datagram, DatagramAlerts,
         DatagramQuiet, TaskEnds, vars, events

\* A heartbeat tells of the last alerts created, in order, none missing.
THEOREM LatestTold == Spec => HeartbeatTellsLatest
<1> DEFINE Latest == beat # "request" /\ beat' = "request"
                       => payload' = LastOf([i \in 1 .. Created |-> i], Last)
<1>1. Init => RecentLatest
  BY LocalMonitorAssumption DEF Init, RecentLatest, Created
<1>2. Typed /\ RecentLatest /\ [Next]_vars => [Latest]_vars
  <2> SUFFICES ASSUME Typed, RecentLatest, Next, beat # "request", beat' = "request"
               PROVE  payload' = LastOf([i \in 1 .. Created |-> i], Last)
    BY DEF vars, loops
  <2>1. payload' = LastOf(recent, Last)
    BY DEF Next, Main, Open, Gather, ListenFails, LoopsEnd, Exit, Stop, PollLoop, PollTest,
           PollReturns, PollSent, PollRaised, HeartbeatLoop, Beat, BeatEnds,
           BeatReturns, StatusLoop, StatusStart, StatusWakes, Datagram, DatagramAlerts,
           DatagramQuiet, Counted, TaskEnds, loops
  <2> DEFINE all == [i \in 1 .. Created |-> i]
             p == LastOf(recent, Last)
             q == LastOf(all, Last)
  <2>2. /\ Created \in Nat /\ Keep \in Nat /\ Last \in Nat /\ Last <= Keep
        /\ recent \in Seq(1 .. Created) /\ Len(recent) \in Nat
    BY LocalMonitorAssumption, LenProperties DEF Typed, TypeOK, Created
  <2> HIDE DEF Created
  <2>3. all \in Seq(1 .. Created) /\ Len(all) = Created
        /\ \A i \in 1 .. Created : all[i] = i
    BY <2>2
  <2> HIDE DEF all
  <2>4. /\ p \in Seq(1 .. Created)
        /\ Len(p) = IF Len(recent) > Last THEN Last ELSE Len(recent)
        /\ \A i \in 1 .. Len(p) : p[i] = recent[Len(recent) - Len(p) + i]
    BY <2>2, LastOfProperties
  <2>5. /\ q \in Seq(1 .. Created)
        /\ Len(q) = IF Created > Last THEN Last ELSE Created
        /\ \A i \in 1 .. Len(q) : q[i] = all[Created - Len(q) + i]
    BY <2>2, <2>3, LastOfProperties
  <2> HIDE DEF p, q
  <2>6. Len(p) = Len(q) /\ Len(p) \in Nat /\ Len(p) <= Len(recent) /\ Len(p) <= Created
    BY <2>2, <2>4, <2>5 DEF RecentLatest
  <2>7. ASSUME NEW i \in 1 .. Len(p) PROVE p[i] = q[i]
    <3>1. /\ Len(recent) - Len(p) + i \in 1 .. Len(recent)
          /\ Created - Len(p) + i \in 1 .. Created
      BY <2>2, <2>6
    <3>2. p[i] = Created - Len(recent) + (Len(recent) - Len(p) + i)
      BY <2>4, <3>1 DEF RecentLatest
    <3>3. q[i] = Created - Len(p) + i
      BY <2>3, <2>5, <2>6, <3>1
    <3> QED BY <2>2, <2>6, <3>2, <3>3
  <2>8. p = q
    BY <2>4, <2>5, <2>6, <2>7, SeqEqual
  <2> QED BY <2>1, <2>8 DEF p, q, all
<1> QED BY <1>1, <1>2, StepRecent, TypedAlways, PTL DEF Spec, HeartbeatTellsLatest

-----------------------------------------------------------------------------
(* The abstract specification                                              *)

\* What the refinement rests on: the alerts on their way are the one in hand
\* and those of the tasks, and only the former is the poll loop's.
OnTheWay == InTurn /\ Delivery!Pending = tasks \cup ({inHand} \ {0})

LEMMA LedgerOnTheWay == Typed /\ OrderInv /\ Ledger => OnTheWay
<1> SUFFICES ASSUME Typed, OrderInv, Ledger PROVE OnTheWay
  OBVIOUS
<1>1. Delivery!Pending = (1 .. Created) \ (Elements(chat) \cup refused)
  <2>1. DOMAIN origin = 1 .. Created
    BY DEF Typed, TypeOK, Created
  <2> QED BY <2>1 DEF Delivery!Pending, Delivery!Posted, Elements
<1>2. (1 .. Created) \ (Elements(chat) \cup refused) = tasks \cup ({inHand} \ {0})
  BY DEF Ledger, Apart, EachAlertOnce
<1> QED BY <1>1, <1>2 DEF OnTheWay, OrderInv

\* When the poll loop creates an alert, no other of its own is on its way.
LEMMA PollCreates ==
  ASSUME Typed, OnTheWay', PollAlerts
  PROVE  Delivery!Create("poll")
<1>1. origin' = Append(origin, "poll") /\ inHand' = Created + 1
  BY DEF PollAlerts, Create
<1>2. Len(origin') = Created + 1
  BY Creation DEF PollAlerts, Typed, Created
<1>3. ASSUME NEW a \in Delivery!Pending', origin'[a] = "poll" PROVE a = Len(origin')
  BY <1>1, <1>2, <1>3 DEF OnTheWay, InTurn
<1> QED BY <1>1, <1>3 DEF Delivery!Create

LEMMA SendEndsOnTheWay ==
  ASSUME NEW a \in Delivery!Pending, NEW o, SendEnds(a, o)
  PROVE  Delivery!Post(a) \/ Delivery!Refuse(a)
BY DEF SendEnds, Delivery!Post, Delivery!Refuse

LEMMA StepDelivery ==
  ASSUME Typed, OnTheWay, OnTheWay', [Next]_vars
  PROVE  [Delivery!Next]_<<origin, refused, chat>>
<1>1. CASE UNCHANGED <<origin, inHand, tasks, refused, chat>>
  BY <1>1
<1>2. CASE PollReturns
  <2>1. CASE PollAlerts
    <3>1. Delivery!Create("poll") /\ UNCHANGED <<refused, chat>>
      BY <1>2, <2>1, PollCreates DEF PollReturns
    <3> QED BY <3>1 DEF Delivery!Next
  <2>2. CASE PollEnds
    BY <1>2, <2>2 DEF PollReturns, PollEnds
  <2> QED BY <1>2, <2>1, <2>2 DEF PollReturns
<1>3. CASE \E o \in SendOutcome : PollSent(o) \/ PollRaised(o)
  <2>1. PICK o \in SendOutcome : PollSent(o) \/ PollRaised(o)
    BY <1>3
  <2>2. SendEnds(inHand, o) /\ inHand # 0
    BY <2>1 DEF PollSent, PollRaised, Typed
  <2>3. inHand \in Delivery!Pending /\ origin[inHand] = "poll"
    BY <2>2 DEF OnTheWay, InTurn
  <2>4. Delivery!Post(inHand) \/ Delivery!Refuse(inHand)
    BY <2>2, <2>3, SendEndsOnTheWay
  <2>5. CASE UNCHANGED origin
    BY <2>3, <2>4, <2>5 DEF Delivery!Next
  <2>6. CASE PollAlerts
    <3>1. Delivery!Create("poll")
      BY <2>6, PollCreates
    <3> QED BY <2>3, <2>4, <3>1 DEF Delivery!Next
  <2> QED BY <2>1, <2>5, <2>6 DEF PollSent, PollRaised, PollEnds
<1>4. CASE \E m \in Traffic : DatagramAlerts(m)
  <2>1. origin' = Append(origin, "syslog") /\ UNCHANGED <<refused, chat>>
    BY <1>4 DEF DatagramAlerts, Counted, Create
  <2>2. Delivery!Create("syslog")
    BY <2>1 DEF Delivery!Create
  <2> QED BY <2>1, <2>2 DEF Delivery!Next
<1>5. CASE \E a \in tasks, o \in SendOutcome : TaskEnds(a, o)
  <2>1. PICK a \in tasks, o \in SendOutcome : TaskEnds(a, o)
    BY <1>5
  <2>2. a \in Delivery!Pending /\ SendEnds(a, o) /\ UNCHANGED origin
    BY <2>1 DEF OnTheWay, TaskEnds
  <2>3. Delivery!Post(a) \/ Delivery!Refuse(a)
    BY <2>2, SendEndsOnTheWay
  <2> QED BY <2>2, <2>3 DEF Delivery!Next
<1> QED BY <1>1, <1>2, <1>3, <1>4, <1>5, AlertSteps

\* LocalMonitor implements AlertDelivery.
THEOREM Delivering == Spec => ImplementsDelivery
<1>1. Init => Delivery!Init /\ OrderInv /\ Ledger
  BY FS_EmptySet
     DEF Init, Delivery!Init, OrderInv, InTurn, PollOrder, Ledger, Apart, EachAlertOnce,
         Elements, Created
<1>2. Typed /\ OnTheWay /\ OnTheWay' /\ [Next]_vars => [Delivery!Next]_Delivery!delivery
  BY StepDelivery DEF Delivery!delivery
<1> QED
  BY <1>1, <1>2, StepOrder, StepLedger, LedgerOnTheWay, TypedAlways, PTL
     DEF Spec, ImplementsDelivery, Delivery!Spec
=============================================================================
