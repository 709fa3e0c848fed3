----------------------------- MODULE LocalMonitor -----------------------------
(***************************************************************************)
(* The tasks of the local monitor's event loop: the three loops, the       *)
(* syslog callback with the tasks it starts, and start(), stop() and exit. *)
(* They share _running, _recent_events, the message count and the chat.    *)
(* Which alerts a poll creates is the subject of WanAlerting; here it may  *)
(* create any number.  An action runs from one await to the next.          *)
(***************************************************************************)
EXTENDS SyslogParsing, FiniteSets

CONSTANTS
  SyslogEnabled,  \* syslog.enabled
  Traffic,        \* the messages that may reach the port
  Keep,           \* _recent_events is cut to this length: 100
  Last,           \* build_payload takes this many of them: 10
  SendOutcome,    \* how TelegramNotifier.send_alert may end
  MaxAlerts,      \* bound: alerts created in a run
  MaxMessages     \* bound: messages received in a run

ASSUME LocalMonitorAssumption ==
  /\ SyslogEnabled \in BOOLEAN /\ Traffic \subseteq Message
  /\ Keep \in Nat /\ Last \in Nat /\ Last <= Keep
  /\ MaxAlerts \in Nat /\ MaxMessages \in Nat
  /\ SendOutcome \subseteq {"sent", "failed", "raised"}

VARIABLES
  main,       \* where main() is
  running,    \* LocalMonitor._running
  listening,  \* SyslogReceiver._transport is open
  poll,       \* where _poll_loop is
  beat,       \* where _heartbeat_loop is
  status,     \* where _status_loop is
  origin,     \* who created each alert so far, in order; its index names it
  recent,     \* LocalMonitor._recent_events
  inHand,     \* the alert whose send _poll_loop awaits, or 0
  tasks,      \* alerts whose send is a task of its own
  refused,    \* alerts whose send failed or raised
  chat,       \* alerts that reached the chat, in order
  payload,    \* recent_events of the last heartbeat
  count,      \* SyslogReceiver.message_count
  logged,     \* messages that the status loop has reported
  received,   \* messages with a header received (auxiliary)
  urgent,     \* those of them about a WAN that need an alert (auxiliary)
  logins      \* those of the others that may tell of a failed login (auxiliary)

loops == <<poll, beat, status>>
events == <<origin, recent, inHand, tasks, refused, chat>>
counts == <<count, logged, received, urgent, logins>>
vars == <<main, running, listening, loops, events, payload, counts>>

Created == Len(origin)

LastOf(s, n) == SubSeq(s, IF Len(s) > n THEN Len(s) - n + 1 ELSE 1, Len(s))

-----------------------------------------------------------------------------
(* main(), start() and stop()                                              *)

Init ==
  /\ main = "starting" /\ running = TRUE /\ listening = FALSE
  /\ poll = "new" /\ beat = "new" /\ status = "new"
  /\ origin = <<>> /\ recent = <<>> /\ inHand = 0
  /\ tasks = {} /\ refused = {} /\ chat = <<>> /\ payload = <<>>
  /\ count = 0 /\ logged = 0 /\ received = 0 /\ urgent = 0 /\ logins = 0

\* create_datagram_endpoint opens the socket, and messages may come in, ...
Open ==
  /\ main = "starting"
  /\ main' = "opening" /\ listening' = SyslogEnabled
  /\ UNCHANGED <<running, loops, events, payload, counts>>

\* ... before start() resumes and knows the transport, so that a stop() in
\* between has nothing to close.
Gather ==
  /\ main = "opening"
  /\ main' = "gather"
  /\ UNCHANGED <<running, listening, loops, events, payload, counts>>

\* The port cannot be bound: start() raises, and main() runs its finally.
ListenFails ==
  /\ main = "starting" /\ SyslogEnabled
  /\ main' = "finally"
  /\ UNCHANGED <<running, listening, loops, events, payload, counts>>

\* SIGTERM or SIGINT, any number of times: a task of its own runs stop().
Stop ==
  /\ main \in {"starting", "opening", "gather"}
  /\ running' = FALSE
  /\ listening' = (listening /\ main = "opening")
  /\ UNCHANGED <<main, loops, events, payload, counts>>

LoopsEnd ==
  /\ main = "gather" /\ poll = "done" /\ beat = "done" /\ status = "done"
  /\ main' = "finally"
  /\ UNCHANGED <<running, listening, loops, events, payload, counts>>

ExitKeepsSocket ==               \* Faulty: no second stop() at the end.
  /\ main = "finally"
  /\ main' = "closed" /\ running' = FALSE
  /\ UNCHANGED <<listening, loops, events, payload, counts>>

\* finally: stop() once more, then the event loop is closed with its tasks.
Exit ==
  /\ main = "finally"
  /\ main' = "closed" /\ running' = FALSE /\ listening' = FALSE
  /\ UNCHANGED <<loops, events, payload, counts>>

-----------------------------------------------------------------------------
(* Alerts                                                                  *)

\* A new alert is appended to the recent events.
Create(who) ==
  /\ Created < MaxAlerts
  /\ origin' = Append(origin, who)
  /\ recent' = Append(recent, Created + 1)

SendEnds(a, o) ==
  /\ chat' = IF o = "sent" THEN Append(chat, a) ELSE chat
  /\ refused' = IF o = "sent" THEN refused ELSE refused \cup {a}

-----------------------------------------------------------------------------
(* _poll_loop                                                              *)

PollTest ==
  /\ main = "gather" /\ poll \in {"new", "sleep", "backoff"}
  /\ poll' = IF running THEN "snmp" ELSE "done"
  /\ UNCHANGED <<main, running, listening, beat, status, events, payload, counts>>

TrimNever(s) == s                \* Faulty: the list is not trimmed,
TrimHead(s) ==                   \* or at the wrong end.
  SubSeq(s, 1, IF Len(s) < Keep THEN Len(s) ELSE Keep)

Trim(s) == LastOf(s, Keep)

\* What remains of the iteration once the poll, or the send of an alert, has
\* returned: another alert, awaited in its turn, ...
PollAlerts ==
  /\ Create("poll")
  /\ inHand' = Created + 1 /\ poll' = "send"

\* ... or the end of the poll.
PollEnds ==
  /\ recent' = Trim(recent)
  /\ inHand' = 0 /\ poll' = "sleep"
  /\ UNCHANGED origin

PollReturnsDetached ==           \* Faulty: its sends are tasks of their own.
  /\ poll = "snmp"
  /\ \/ Create("poll") /\ tasks' = tasks \cup {Created + 1} /\ UNCHANGED <<poll, inHand>>
     \/ PollEnds /\ UNCHANGED tasks
  /\ UNCHANGED <<main, running, listening, beat, status, refused, chat, payload, counts>>

PollReturns ==
  /\ poll = "snmp"
  /\ PollAlerts \/ PollEnds
  /\ UNCHANGED <<main, running, listening, beat, status, tasks, refused, chat, payload, counts>>

\* True or False, the loop goes on.
PollSent(o) ==
  /\ poll = "send" /\ o \in {"sent", "failed"}
  /\ SendEnds(inHand, o)
  /\ PollAlerts \/ PollEnds
  /\ UNCHANGED <<main, running, listening, beat, status, tasks, payload, counts>>

PollRaisedUncaught(o) ==         \* Faulty: the exception ends the loop.
  /\ poll = "send" /\ o = "raised"
  /\ SendEnds(inHand, o)
  /\ inHand' = 0 /\ poll' = "failed"
  /\ UNCHANGED <<main, running, listening, beat, status, origin, recent, tasks, payload, counts>>

\* Any other exception: the rest of the poll, and the trim, are left out.
PollRaised(o) ==
  /\ poll = "send" /\ o = "raised"
  /\ SendEnds(inHand, o)
  /\ inHand' = 0 /\ poll' = "backoff"
  /\ UNCHANGED <<main, running, listening, beat, status, origin, recent, tasks, payload, counts>>

PollLoop ==
  PollTest \/ PollReturns \/ \E o \in SendOutcome : PollSent(o) \/ PollRaised(o)

-----------------------------------------------------------------------------
(* _heartbeat_loop                                                         *)

Beat ==
  /\ main = "gather" /\ beat \in {"new", "sleep"} /\ running
  /\ payload' = LastOf(recent, Last)
  /\ beat' = "request"
  /\ UNCHANGED <<main, running, listening, poll, status, events, counts>>

BeatEnds ==
  /\ main = "gather" /\ beat \in {"new", "sleep"} /\ ~running
  /\ beat' = "done"
  /\ UNCHANGED <<main, running, listening, poll, status, events, payload, counts>>

BeatReturns ==
  /\ beat = "request"
  /\ beat' = "sleep"
  /\ UNCHANGED <<main, running, listening, poll, status, events, payload, counts>>

HeartbeatLoop == Beat \/ BeatEnds \/ BeatReturns

-----------------------------------------------------------------------------
(* _status_loop                                                            *)

StatusStart ==
  /\ main = "gather" /\ status = "new"
  /\ status' = IF running THEN "sleep" ELSE "done"
  /\ UNCHANGED <<main, running, listening, poll, beat, events, payload, counts>>

StatusWakesAndLeaves ==          \* Faulty: after a stop, a reset without a report.
  /\ status = "sleep"
  /\ logged' = IF running THEN logged + count ELSE logged
  /\ count' = 0
  /\ status' = IF running THEN "sleep" ELSE "done"
  /\ UNCHANGED <<main, running, listening, poll, beat, events, payload, received, urgent, logins>>

\* 300 s later the count is reported and reset, stopped or not.
StatusWakes ==
  /\ status = "sleep"
  /\ logged' = logged + count /\ count' = 0
  /\ status' = IF running THEN "sleep" ELSE "done"
  /\ UNCHANGED <<main, running, listening, poll, beat, events, payload, received, urgent, logins>>

StatusLoop == StatusStart \/ StatusWakes

-----------------------------------------------------------------------------
(* The syslog callback                                                     *)

\* A message without the header of SYSLOG_PATTERN is dropped, uncounted.
Counted(m) ==
  /\ listening /\ m.header /\ received < MaxMessages
  /\ count' = count + 1 /\ received' = received + 1
  /\ urgent' = IF Urgent(m) THEN urgent + 1 ELSE urgent
  /\ logins' = IF FailedLogin(m) THEN logins + 1 ELSE logins
  /\ UNCHANGED <<main, running, listening, loops, inHand, refused, chat, payload, logged>>

DatagramAlertsUnsent(m) ==       \* Faulty: no task is started.
  /\ Counted(m) /\ Alerting(Categorize(m))
  /\ Create("syslog")
  /\ UNCHANGED tasks

\* The alert is sent by a task that nobody awaits.
DatagramAlerts(m) ==
  /\ Counted(m) /\ Alerting(Categorize(m))
  /\ Create("syslog")
  /\ tasks' = tasks \cup {Created + 1}

DatagramQuiet(m) ==
  /\ Counted(m) /\ ~Alerting(Categorize(m))
  /\ UNCHANGED <<origin, recent, tasks>>

Datagram(m) == DatagramAlerts(m) \/ DatagramQuiet(m)

\* Tasks end in any order; the exception of one is never looked at.
TaskEnds(a, o) ==
  /\ main \in {"opening", "gather", "finally"}
  /\ SendEnds(a, o)
  /\ tasks' = tasks \ {a}
  /\ UNCHANGED <<main, running, listening, loops, origin, recent, inHand, payload, counts>>

-----------------------------------------------------------------------------

Main == Open \/ Gather \/ ListenFails \/ LoopsEnd \/ Exit

Next ==
  \/ Main \/ Stop
  \/ PollLoop \/ HeartbeatLoop \/ StatusLoop
  \/ \E m \in Traffic : Datagram(m)
  \/ \E a \in tasks, o \in SendOutcome : TaskEnds(a, o)

Spec == Init /\ [][Next]_vars

\* Every await of main() and of the loops ends: requests have timeouts, sleeps
\* are finite.  Of the tasks nothing is assumed.
FairSpec ==
  /\ Spec
  /\ WF_vars(Main)
  /\ WF_vars(PollLoop) /\ WF_vars(HeartbeatLoop) /\ WF_vars(StatusLoop)

-----------------------------------------------------------------------------
(* Properties                                                              *)

\* Every variable keeps its type.
TypeOK ==
  /\ main \in {"starting", "opening", "gather", "finally", "closed"}
  /\ running \in BOOLEAN /\ listening \in BOOLEAN
  /\ poll \in {"new", "snmp", "send", "sleep", "backoff", "done"}
  /\ beat \in {"new", "request", "sleep", "done"}
  /\ status \in {"new", "sleep", "done"}
  /\ origin \in Seq({"poll", "syslog"}) /\ Created <= MaxAlerts
  /\ recent \in Seq(1 .. Created) /\ payload \in Seq(1 .. Created)
  /\ inHand \in 0 .. Created /\ tasks \subseteq 1 .. Created
  /\ refused \subseteq 1 .. Created /\ chat \in Seq(1 .. Created)
  /\ count \in Nat /\ logged \in Nat /\ received \in Nat
  /\ urgent \in Nat /\ logins \in Nat

\* A heartbeat tells of the last alerts created by either source, in order:
\* neither the trim of the poll loop, whenever it comes, nor an exception that
\* skips it takes any of them away.
HeartbeatTellsLatest ==
  [][beat # "request" /\ beat' = "request"
       => payload' = LastOf([i \in 1 .. Created |-> i], Last)]_vars

\* The alerts of the poll loop reach the chat in the order of their polls,
\* whatever the tasks of the syslog alerts do in between: what the chat shows of
\* ImplementsDelivery below.
PollOrder ==
  \A i, j \in DOMAIN chat :
    i < j /\ origin[chat[i]] = "poll" /\ origin[chat[j]] = "poll"
      => chat[i] < chat[j]

\* Every alert is in the chat once, or was refused, or is still being sent:
\* none is dropped but those whose tasks are cut off by the exit.
EachAlertOnce ==
  /\ 1 .. Created = Elements(chat) \cup refused \cup tasks \cup ({inHand} \ {0})
  /\ Created = Len(chat) + Cardinality(refused) + Cardinality(tasks)
                 + IF inHand = 0 THEN 0 ELSE 1

\* Each message is reported once by the status loop or still counted, also
\* when the loop leaves after a stop.
MessagesCounted == received = logged + count

SyslogAlerts == {a \in 1 .. Created : origin[a] = "syslog"}

\* Each message about a failover, its end or a broken link has an alert of its
\* own, whatever other words are in it; beyond these there is none but for a
\* failed login.
FailoverTold ==
  /\ urgent <= Cardinality(SyslogAlerts)
  /\ Cardinality(SyslogAlerts) <= urgent + logins

\* After a stop at any moment, during start() too, the loops leave, main()
\* ends, and the socket is closed.
StopEnds ==
  (~running \/ main = "finally") ~> (main = "closed" /\ ~listening)

Delivery == INSTANCE AlertDelivery WITH
  Source <- {"poll", "syslog"}, Waiting <- {"poll"}

\* The whole implements AlertDelivery: whatever comes in between, the poll loop
\* creates no alert before the fate of its last one is settled, and the fate of
\* an alert is settled once.
ImplementsDelivery == Delivery!Spec

\* While polls keep being completed, the recent events keep coming back to
\* their limit, however many alerts syslog adds.
EventsTrimmed ==
  []<>(poll = "snmp") /\ []<>(poll = "sleep") => []<>(Len(recent) <= Keep)
=============================================================================
