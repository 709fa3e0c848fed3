--------------------------- MODULE DnsMonitorProofs ---------------------------
(***************************************************************************)
(* Proofs about DnsMonitor for every set of addresses, expected address    *)
(* and set of send outcomes.                                               *)
(***************************************************************************)
EXTENDS DnsMonitor, SequenceTheorems, TLAPS

-----------------------------------------------------------------------------
(* The alerts of one check                                                 *)

\* A failed check has the failure alert or none, and a successful one has
\* other alerts than that.
LEMMA AlertsForValue ==
  ASSUME NEW a \in Addr \cup {NoAddr}
  PROVE  /\ a = NoAddr =>
              AlertsFor(a) = IF NextFailures(a) >= 2 THEN <<"failure">> ELSE <<>>
         /\ a # NoAddr => AlertsFor(a) # <<"failure">>
<1> DEFINE c == <<"change">>
           m == <<"mismatch">>
<1>1. /\ <<>> \in Seq(Kinds) /\ <<"failure">> \in Seq(Kinds)
      /\ c \in Seq(Kinds) /\ m \in Seq(Kinds)
  BY DEF Kinds
<1>2. \A s \in Seq(Kinds) : s \o <<>> = s /\ <<>> \o s = s
  BY ConcatEmptySeq
<1>3. c \o m # <<"failure">>
  <2>1. Len(c \o m) = Len(c) + Len(m)
    BY <1>1, ConcatProperties
  <2> QED BY <2>1
<1>4. CASE a = NoAddr
  BY <1>1, <1>2, <1>4 DEF AlertsFor, Changed, Mismatch
<1>5. CASE a # NoAddr
  <2>1. AlertsFor(a) = (IF Changed(a) THEN c ELSE <<>>) \o (IF Mismatch(a) THEN m ELSE <<>>)
    BY <1>1, <1>2, <1>5 DEF AlertsFor
  <2>2. AlertsFor(a) \in {<<>>, c, m, c \o m}
    BY <1>1, <1>2, <2>1
  <2> QED BY <1>3, <1>5, <2>2
<1> QED BY <1>4, <1>5

-----------------------------------------------------------------------------
(* The inductive invariant                                                 *)

\* A change alert leads to an address, so an unresolved name has had none.
ChangeLeadsSomewhere == change # NoChange => change.to # NoAddr

\* The counter tells whether the last completed check failed.
Counted == failures \in 0 .. 2 /\ (failures = 0 <=> ~failed)

IInv == ChangesAccounted /\ ChangeLeadsSomewhere /\ Counted

LEMMA InitInv == Init => IInv
BY DEF Init, IInv, ChangesAccounted, ChangeLeadsSomewhere, Counted, NoChange

LEMMA StepInv == IInv /\ [Next]_vars => IInv'
<1> SUFFICES ASSUME IInv, [Next]_vars PROVE IInv'
  OBVIOUS
<1> USE DnsMonitorAssumption DEF IInv, ChangeLeadsSomewhere, Counted
<1>1. ASSUME NEW a \in Addr \cup {NoAddr}, Check(a) PROVE IInv'
  <2>1. Counted'
    <3>1. failures' = NextFailures(a) /\ failed' = (a = NoAddr)
      BY <1>1 DEF Check
    <3>2. NextFailures(a) \in 0 .. 2 /\ (NextFailures(a) = 0 <=> a # NoAddr)
      BY DEF NextFailures
    <3> QED BY <3>1, <3>2
  <2>2. CASE a = NoAddr
    BY <1>1, <2>1, <2>2 DEF Check, SeenAfter, Changed, ChangesAccounted
  <2>3. CASE Changed(a)
    <3>1. lastSeen' = a /\ change' = [from |-> lastSeen, to |-> a] /\ a # NoAddr
      BY <1>1, <2>3 DEF Check, SeenAfter, Changed
    <3>2. change' # NoChange /\ change'.to = a
      BY <3>1 DEF NoChange
    <3> QED BY <2>1, <3>1, <3>2 DEF ChangesAccounted
  <2>4. CASE a # NoAddr /\ ~Changed(a)
    <3>1. lastSeen' = a /\ UNCHANGED change /\ first' = IF first = NoAddr THEN a ELSE first
      BY <1>1, <2>4 DEF Check, SeenAfter
    <3>2. CASE lastSeen = NoAddr
      BY <2>1, <2>4, <3>1, <3>2 DEF ChangesAccounted
    <3>3. CASE a = lastSeen
      BY <2>1, <2>4, <3>1, <3>3 DEF ChangesAccounted
    <3> QED BY <2>4, <3>2, <3>3 DEF Changed
  <2> QED BY <2>2, <2>3, <2>4
<1>2. CASE Restart
  BY <1>2 DEF Restart, ChangesAccounted, NoChange
<1>3. CASE Wake \/ CheckRaised \/ (\E o \in SendOutcome : Returned(o) \/ Raised(o))
           \/ UNCHANGED vars
  BY <1>3 DEF Wake, CheckRaised, Returned, Raised, vars, monitor, ChangesAccounted
<1> QED BY <1>1, <1>2, <1>3 DEF Next, Loop

LEMMA Invariance == Spec => []IInv
BY InitInv, StepInv, PTL DEF Spec

-----------------------------------------------------------------------------
(* The theorems                                                            *)

\* The change alerts form a chain that ends at the address compared with.
THEOREM ChangeChain == Spec => []ChangesAccounted
<1>1. IInv => ChangesAccounted
  BY DEF IInv
<1> QED BY <1>1, Invariance, PTL

\* A failure alert comes exactly from the second failed check in a row on.
THEOREM FailureTwice == Spec => FailureNeedsTwo
<1>1. ASSUME IInv, NEW a \in Addr \cup {NoAddr}, Check(a)
      PROVE  queue' = <<"failure">> <=> failed /\ failed'
  <2>1. queue' = AlertsFor(a) /\ failed' = (a = NoAddr)
    BY <1>1 DEF Check
  <2>2. CASE a = NoAddr
    <3>1. NextFailures(a) >= 2 <=> failed
      BY <1>1, <2>2 DEF IInv, Counted, NextFailures
    <3>2. <<"failure">> # <<>>
      OBVIOUS
    <3> QED BY <1>1, <2>1, <2>2, <3>1, <3>2, AlertsForValue
  <2>3. CASE a # NoAddr
    BY <1>1, <2>1, <2>3, AlertsForValue
  <2> QED BY <2>2, <2>3
<1>2. IInv => [\A a \in Addr \cup {NoAddr} :
                 Check(a) => (queue' = <<"failure">> <=> failed /\ failed')]_vars
  BY <1>1
<1> QED BY <1>2, Invariance, PTL DEF FailureNeedsTwo

-----------------------------------------------------------------------------
(* Type correctness                                                        *)

LEMMA AlertsForTyped == ASSUME NEW a \in Addr \cup {NoAddr} PROVE AlertsFor(a) \in Queues
<1> DEFINE c == <<"change">>
           m == <<"mismatch">>
<1>1. /\ <<"failure">> \in Seq(Kinds) /\ c \in Seq(Kinds) /\ m \in Seq(Kinds)
      /\ c \in Queues /\ m \in Queues /\ <<>> \in Queues /\ <<"failure">> \in Queues
  BY DEF Kinds, Queues
<1>2. \A s \in Seq(Kinds) : s \o <<>> = s /\ <<>> \o s = s
  BY ConcatEmptySeq
<1>3. c \o m \in Queues
  <2>1. /\ c \o m \in Seq(Kinds) /\ Len(c \o m) = 2
        /\ (c \o m)[1] = "change" /\ (c \o m)[2] = "mismatch"
    BY <1>1, ConcatProperties
  <2>2. /\ <<"change", "mismatch">> \in Seq(Kinds) /\ Len(<<"change", "mismatch">>) = 2
    BY DEF Kinds
  <2>3. \A i \in 1 .. 2 : (c \o m)[i] = <<"change", "mismatch">>[i]
    BY <2>1
  <2>4. c \o m = <<"change", "mismatch">>
    BY <2>1, <2>2, <2>3, SeqEqual
  <2> QED BY <2>4 DEF Queues
<1>4. CASE a = NoAddr
  BY <1>1, <1>4, AlertsForValue
<1>5. CASE a # NoAddr
  <2>1. AlertsFor(a) = (IF Changed(a) THEN c ELSE <<>>) \o (IF Mismatch(a) THEN m ELSE <<>>)
    <3>1. <<>> \in Seq(Kinds)
      OBVIOUS
    <3> QED BY <1>1, <1>2, <1>5, <3>1 DEF AlertsFor
  <2>2. AlertsFor(a) \in {<<>>, c, m, c \o m}
    <3>1. <<>> \o <<>> = <<>>
      OBVIOUS
    <3> QED BY <1>1, <1>2, <2>1, <3>1
  <2> QED BY <1>1, <1>3, <2>2
<1> QED BY <1>4, <1>5

\* The loop is sending only while it has an alert left to send.
Typed == TypeOK /\ (pc = "send" => queue # <<>>)

LEMMA NoChangeType == NoChange \in [from : Addr \cup {NoAddr}, to : Addr \cup {NoAddr}]
BY DEF NoChange

LEMMA InitTyped == Init => Typed
<1> SUFFICES ASSUME Init PROVE Typed
  OBVIOUS
<1>1. queue \in Queues
  BY DEF Init, Queues
<1>2. change \in [from : Addr \cup {NoAddr}, to : Addr \cup {NoAddr}]
  BY NoChangeType DEF Init
<1>3. /\ lastSeen \in Addr \cup {NoAddr} /\ failures \in 0 .. 2
      /\ pc = "check" /\ first \in Addr \cup {NoAddr}
  BY DEF Init
<1>4. failed \in BOOLEAN /\ delivered \subseteq Kinds
  BY DEF Init
<1>5. restarts \in 0 .. MaxRestarts
  BY DnsMonitorAssumption DEF Init
<1> QED BY <1>1, <1>2, <1>3, <1>4, <1>5 DEF Typed, TypeOK

LEMMA StepTyped == Typed /\ [Next]_vars => Typed'
<1> SUFFICES ASSUME Typed, [Next]_vars PROVE Typed'
  OBVIOUS
<1> USE DnsMonitorAssumption DEF Typed
<1>1. ASSUME NEW a \in Addr \cup {NoAddr}, Check(a) PROVE Typed'
  <2>1. queue' \in Queues /\ NextFailures(a) \in 0 .. 2 /\ SeenAfter(a) \in Addr \cup {NoAddr}
    BY <1>1, AlertsForTyped DEF Check, NextFailures, SeenAfter, TypeOK
  <2> QED BY <1>1, <2>1 DEF Check, TypeOK
<1>2. CASE Restart
  <2>1. queue' \in Queues
    BY <1>2 DEF Restart, Queues
  <2>2. change' \in [from : Addr \cup {NoAddr}, to : Addr \cup {NoAddr}]
    BY <1>2, NoChangeType DEF Restart
  <2>3. /\ lastSeen' \in Addr \cup {NoAddr} /\ failures' \in 0 .. 2
        /\ pc' = "check" /\ first' \in Addr \cup {NoAddr}
    BY <1>2 DEF Restart
  <2>4. failed' \in BOOLEAN /\ delivered' \subseteq Kinds
    BY <1>2 DEF Restart, TypeOK
  <2>5. restarts' \in 0 .. MaxRestarts
    BY <1>2 DEF Restart, TypeOK
  <2> QED BY <2>1, <2>2, <2>3, <2>4, <2>5 DEF TypeOK
<1>3. CASE \E o \in SendOutcome : Returned(o)
  <2>1. PICK o \in SendOutcome : Returned(o)
    BY <1>3
  <2>2. CASE queue = <<"change", "mismatch">>
    <3>1. Tail(queue) = <<"mismatch">> /\ Len(queue) = 2 /\ Head(queue) \in Kinds
      BY <2>2 DEF Kinds
    <3>2. <<"mismatch">> \in Queues /\ <<"mismatch">> # <<>>
      BY DEF Queues, Kinds
    <3> QED BY <2>1, <3>1, <3>2 DEF Returned, TypeOK, monitor
  <2>3. CASE \E k \in Kinds : queue = <<k>>
    <3>1. Tail(queue) = <<>> /\ Len(queue) = 1 /\ Head(queue) \in Kinds
      BY <2>3
    <3>2. <<>> \in Queues
      BY DEF Queues
    <3>3. queue' \in Queues
      BY <2>1, <3>1, <3>2 DEF Returned
    <3>4. pc' = "sleep"
      BY <2>1, <3>1 DEF Returned
    <3>5. delivered' \subseteq Kinds
      BY <2>1, <3>1 DEF Returned, TypeOK
    <3> QED BY <2>1, <3>3, <3>4, <3>5 DEF Returned, TypeOK, monitor
  <2> QED BY <2>1, <2>2, <2>3 DEF Returned, TypeOK, Queues
<1>4. CASE Wake \/ CheckRaised \/ (\E o \in SendOutcome : Raised(o)) \/ UNCHANGED vars
  BY <1>4 DEF Wake, CheckRaised, Raised, vars, monitor, TypeOK
<1> QED BY <1>1, <1>2, <1>3, <1>4 DEF Next, Loop

\* Every variable keeps its type, and a check leaves at most two alerts.
THEOREM Typing == Spec => []TypeOK
<1>1. Typed => TypeOK
  BY DEF Typed
<1> QED BY <1>1, InitTyped, StepTyped, PTL DEF Spec
=============================================================================
