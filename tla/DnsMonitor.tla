------------------------------ MODULE DnsMonitor ------------------------------
(***************************************************************************)
(* DnsMonitor.check and RemoteSentinel._dns_monitor_loop, which sends the  *)
(* alerts of a check one after the other.  check() runs without an await,  *)
(* so it is one step; each send is another.                                *)
(***************************************************************************)
EXTENDS Integers, Sequences

CONSTANTS
  Addr,         \* IPv4 addresses the name may resolve to
  NoAddr,       \* None: not resolved, or never; also an empty expected_ip
  Expected,     \* dns_monitor.expected_ip
  SendOutcome,  \* how send_alert may end
  MaxRestarts   \* bound: number of restarts

ASSUME DnsMonitorAssumption ==
  /\ NoAddr \notin Addr
  /\ Expected \in Addr \cup {NoAddr}
  /\ SendOutcome \subseteq {"sent", "failed", "raised"}
  /\ MaxRestarts \in Nat

VARIABLES
  lastSeen,   \* DnsMonitor.last_seen_ip
  failures,   \* DnsMonitor.consecutive_failures, where 2 stands for more
  pc,         \* where the loop is
  queue,      \* the alerts of the last check that are still to be sent
  first,      \* the first address resolved in this process life (auxiliary)
  change,     \* the last change alert created in it (auxiliary)
  failed,     \* whether the last completed check failed (auxiliary)
  delivered,  \* the kinds of alerts that have reached the chat
  restarts

monitor == <<lastSeen, failures, first, change, failed>>
vars == <<monitor, pc, queue, delivered, restarts>>

NoChange == [from |-> NoAddr, to |-> NoAddr]
Kinds == {"failure", "change", "mismatch"}
Queues == {<<>>} \cup {<<k>> : k \in Kinds} \cup {<<"change", "mismatch">>}

-----------------------------------------------------------------------------
(* DnsMonitor.check, for the address a that the name resolves to           *)

NextFailuresNoReset(a) ==          \* Faulty: a success does not reset it.
  IF a # NoAddr THEN failures ELSE IF failures < 2 THEN failures + 1 ELSE 2

NextFailures(a) ==
  IF a # NoAddr THEN 0 ELSE IF failures < 2 THEN failures + 1 ELSE 2

SeenAfterForgets(a) ==             \* Faulty: only the first address is kept.
  IF a = NoAddr \/ lastSeen # NoAddr THEN lastSeen ELSE a

SeenAfter(a) == IF a = NoAddr THEN lastSeen ELSE a

Changed(a) == a # NoAddr /\ lastSeen # NoAddr /\ a # lastSeen

MismatchOnce(a) ==                 \* Faulty: only a new address is compared.
  a # NoAddr /\ Expected # NoAddr /\ a # Expected /\ a # lastSeen

Mismatch(a) == a # NoAddr /\ Expected # NoAddr /\ a # Expected

AlertsFor(a) ==
  (IF a = NoAddr /\ NextFailures(a) >= 2 THEN <<"failure">> ELSE <<>>)
    \o (IF Changed(a) THEN <<"change">> ELSE <<>>)
    \o (IF Mismatch(a) THEN <<"mismatch">> ELSE <<>>)

-----------------------------------------------------------------------------
(* The life of a process                                                   *)

Init ==
  /\ lastSeen = NoAddr /\ failures = 0 /\ pc = "check" /\ queue = <<>>
  /\ first = NoAddr /\ change = NoChange /\ failed = FALSE
  /\ delivered = {} /\ restarts = 0

\* A crash or an exit, then Restart=always.
Restart ==
  /\ restarts < MaxRestarts
  /\ restarts' = restarts + 1
  /\ lastSeen' = NoAddr /\ failures' = 0 /\ pc' = "check" /\ queue' = <<>>
  /\ first' = NoAddr /\ change' = NoChange /\ failed' = FALSE
  /\ UNCHANGED delivered

-----------------------------------------------------------------------------
(* _dns_monitor_loop                                                       *)

\* One of the loop's two sleeps is over.
Wake ==
  /\ pc \in {"sleep", "backoff"}
  /\ pc' = "check"
  /\ UNCHANGED <<monitor, queue, delivered, restarts>>

CheckAppends(a) ==                 \* Faulty: undelivered alerts pile up.
  /\ pc = "check"
  /\ failures' = NextFailures(a)
  /\ lastSeen' = SeenAfter(a)
  /\ queue' = queue \o AlertsFor(a)
  /\ pc' = IF queue' = <<>> THEN "sleep" ELSE "send"
  /\ first' = IF first = NoAddr THEN a ELSE first
  /\ change' = IF Changed(a) THEN [from |-> lastSeen, to |-> a] ELSE change
  /\ failed' = (a = NoAddr)
  /\ UNCHANGED <<delivered, restarts>>

\* check(): the answer is recorded before any of its alerts is sent.
Check(a) ==
  /\ pc = "check"
  /\ failures' = NextFailures(a)
  /\ lastSeen' = SeenAfter(a)
  /\ queue' = AlertsFor(a)
  /\ pc' = IF queue' = <<>> THEN "sleep" ELSE "send"
  /\ first' = IF first = NoAddr THEN a ELSE first
  /\ change' = IF Changed(a) THEN [from |-> lastSeen, to |-> a] ELSE change
  /\ failed' = (a = NoAddr)
  /\ UNCHANGED <<delivered, restarts>>

\* An exception of the resolver other than gaierror leaves check() unfinished.
CheckRaised ==
  /\ pc = "check"
  /\ pc' = "backoff"
  /\ UNCHANGED <<monitor, queue, delivered, restarts>>

\* send_alert returned, and its result is not looked at.
Returned(o) ==
  /\ pc = "send" /\ o \in {"sent", "failed"}
  /\ delivered' = IF o = "sent" THEN delivered \cup {Head(queue)} ELSE delivered
  /\ queue' = Tail(queue)
  /\ pc' = IF Len(queue) > 1 THEN "send" ELSE "sleep"
  /\ UNCHANGED <<monitor, restarts>>

\* An exception out of send_alert drops the remaining alerts of the check.
Raised(o) ==
  /\ pc = "send" /\ o = "raised"
  /\ pc' = "backoff"
  /\ UNCHANGED <<monitor, queue, delivered, restarts>>

Loop ==
  \/ Wake
  \/ \E a \in Addr \cup {NoAddr} : Check(a)
  \/ CheckRaised
  \/ \E o \in SendOutcome : Returned(o) \/ Raised(o)

Next == Loop \/ Restart

Spec == Init /\ [][Next]_vars

MismatchDelivered == Returned("sent") /\ Head(queue) = "mismatch"

\* The loop goes on; FairSpec adds that a mismatch alert sent again and again
\* is accepted again and again.
LoopSpec == Spec /\ WF_vars(Loop)
FairSpec == LoopSpec /\ SF_vars(MismatchDelivered)

-----------------------------------------------------------------------------
(* Properties                                                              *)

\* Every variable keeps its type; a check has at most two alerts to send.
TypeOK ==
  /\ lastSeen \in Addr \cup {NoAddr} /\ failures \in 0 .. 2
  /\ pc \in {"check", "send", "sleep", "backoff"}
  /\ queue \in Queues
  /\ first \in Addr \cup {NoAddr}
  /\ change \in [from : Addr \cup {NoAddr}, to : Addr \cup {NoAddr}]
  /\ failed \in BOOLEAN /\ delivered \subseteq Kinds
  /\ restarts \in 0 .. MaxRestarts

\* The change alerts form a chain: the last one leads to the address the
\* monitor compares with, or none was created and that is the first address,
\* whatever failures and exceptions lie in between.
ChangesAccounted ==
  lastSeen = IF change = NoChange THEN first ELSE change.to

\* A failure alert is created by a failed check exactly if the completed check
\* before it failed too.
FailureNeedsTwo ==
  [][\A a \in Addr \cup {NoAddr} :
       Check(a) => (queue' = <<"failure">> <=> failed /\ failed')]_vars

\* A mismatch that every completed check finds is reported again and again,
\* unless exceptions of the resolver or of a send keep interrupting.
MismatchInsists ==
  <>[](lastSeen \notin {Expected, NoAddr} /\ ~failed /\ pc # "backoff")
    => []<><<MismatchDelivered>>_vars
=============================================================================
