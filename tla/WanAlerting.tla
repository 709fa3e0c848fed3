----------------------------- MODULE WanAlerting -----------------------------
(***************************************************************************)
(* The local monitor's alerting on the default route: SNMPPoller.poll, the *)
(* per-WAN deduplication of AlertEngine.process_wan_state, the adaptive    *)
(* LocalMonitor._poll_loop that runs them, the snapshot that the heartbeat *)
(* loop takes between them, shutdown, and the restart by systemd.          *)
(*                                                                         *)
(* Everything runs on one asyncio event loop: a task gives way only where  *)
(* it awaits.  pc = "process" is the stretch of the poll loop between two  *)
(* awaits, so no other task may step while it holds.                       *)
(***************************************************************************)
EXTENDS Integers, FiniteSets

CONSTANTS
  NumWans,      \* entries of router.wan_gateways, numbered in file order
  Addr,         \* next-hop addresses the router may report
  Gateway,      \* router.wan_gateways: the gateway address of each WAN
  NoAnswer,     \* _get_next_hop returned None: SNMP error or timeout
  SendOutcome,  \* how TelegramNotifier.send_alert may end
  StablePolls,  \* the constant 5 of should_use_alert_interval
  Horizon,      \* bound: the clock, one tick a poll, stays there
  MayStop,      \* bound: whether SIGTERM or SIGINT is ever received
  MaxRestarts   \* bound: number of restarts

Wan == 1 .. NumWans

ASSUME WanAlertingAssumption ==
  /\ NumWans \in Nat /\ StablePolls \in Nat
  /\ Horizon \in Nat \ {0} /\ MaxRestarts \in Nat
  /\ MayStop \in BOOLEAN
  /\ Gateway \in [Wan -> Addr]
  /\ NoAnswer \notin Addr
  /\ SendOutcome \subseteq {"sent", "failed", "raised"}

VARIABLES
  now,         \* coarse clock, in polls
  running,     \* LocalMonitor._running
  pc,          \* where _poll_loop is
  interval,    \* the interval this iteration will sleep for
  hop,         \* the answer of the last poll
  lastStates,  \* SNMPPoller._last_states, which is also wan_states
  k,           \* the WAN whose turn it is in the for loop
  current,     \* AlertState.current_status
  stable,      \* AlertState.consecutive_stable
  previous,    \* AlertEngine._previous_wan
  issued,      \* the last alert created for each WAN in this process life
  even,        \* whether an even number of them was (auxiliary)
  chat,        \* the last alert about each WAN that reached the chat
  refused,     \* the WANs whose last alert of this process was not accepted
  gapped,      \* the WANs that a dropped poll left out since their last alert
               \* (auxiliary)
  payload,     \* the WAN statuses of the last heartbeat
  restarts

pollVars   == <<now, interval, hop, lastStates>>
engineVars == <<current, stable, previous, issued, even>>
chatVars   == <<chat, refused, gapped>>
vars == <<pollVars, engineVars, running, pc, k, chatVars, payload, restarts>>

NoState == [status |-> "none", since |-> 0]   \* a name absent from a dict
NoAlert == [kind |-> "none", at |-> 0, from |-> 0]

State == [status : {"none", "up", "down"}, since : 0 .. Horizon]
Alert == [kind : {"none", "DOWN", "RECOVERED"},
          at : 0 .. Horizon,      \* since when the WAN is in the new state
          from : 0 .. Horizon]    \* start of the state it left; 0: "unknown"
Point == {"start", "snmp", "process", "send", "sleep", "backoff", "done"}

-----------------------------------------------------------------------------
(* SNMPPoller                                                              *)

\* _gateway_to_wan maps a gateway shared by several WANs to the last of them.
IsActive(w, h) == Gateway[w] = h /\ \A v \in Wan : Gateway[v] = h => v <= w

StatusUnknown(w, h) ==                  \* Faulty: no answer, no status.
  IF h = NoAnswer THEN "unknown" ELSE IF IsActive(w, h) THEN "up" ELSE "down"

StatusOf(w, h) == IF IsActive(w, h) THEN "up" ELSE "down"

SinceRestamped(prev, status) == now     \* Faulty: every poll starts a new state.

\* 'since' survives a poll that sees the same status.
SinceOf(prev, status) == IF prev.status = status THEN prev.since ELSE now

Polled(h) ==
  [w \in Wan |-> [status |-> StatusOf(w, h),
                  since |-> SinceOf(lastStates[w], StatusOf(w, h))]]

(* AlertEngine                                                             *)

\* Faulty: the first UP alerts, or the first DOWN does not.
ShouldAlertFirstUp(cur, new) == new # cur
ShouldAlertNoFirst(cur, new) ==
  IF cur = "unknown" THEN FALSE ELSE new # cur

\* The first observation alerts only if it is DOWN; later ones on a change.
ShouldAlert(cur, new) ==
  IF cur = "unknown" THEN new = "down" ELSE new # cur

Kind(status) == IF status = "down" THEN "DOWN" ELSE "RECOVERED"

\* The uptime (DOWN) or downtime (RECOVERED) in the text is measured from
\* previous.since when the previous state is the opposite one.
AlertFor(state, prev) ==
  [kind |-> Kind(state.status), at |-> state.since,
   from |-> IF prev.status \in {"up", "down"} \ {state.status}
            THEN prev.since ELSE 0]

\* Faulty: a WAN that stays DOWN long enough counts as calm.
NeedsFastPollingDownIsCalm(w) ==
  /\ previous[w] # NoState
  /\ stable[w] < StablePolls

\* should_use_alert_interval looks at the WANs that have an AlertState, that
\* is those already processed once.
NeedsFastPolling(w) ==
  /\ previous[w] # NoState
  /\ current[w] = "down" \/ stable[w] < StablePolls

ChosenInterval ==
  IF \E w \in Wan : NeedsFastPolling(w) THEN "alert" ELSE "normal"

-----------------------------------------------------------------------------
(* The life of a process                                                   *)

Init ==
  /\ now = 0 /\ restarts = 0
  /\ running = TRUE /\ pc = "start" /\ interval = "normal"
  /\ hop = NoAnswer /\ k = 1
  /\ lastStates = [w \in Wan |-> NoState]
  /\ current = [w \in Wan |-> "unknown"]
  /\ stable = [w \in Wan |-> 0]
  /\ previous = [w \in Wan |-> NoState]
  /\ issued = [w \in Wan |-> NoAlert] /\ even = [w \in Wan |-> TRUE]
  /\ chat = [w \in Wan |-> "none"] /\ refused = {} /\ gapped = {}
  /\ payload = [w \in Wan |-> "none"]

\* A crash or an exit, then Restart=always: all memory is lost, what the chat
\* and the sentinel already hold is not.
Restart ==
  /\ restarts < MaxRestarts
  /\ restarts' = restarts + 1
  /\ running' = TRUE /\ pc' = "start" /\ interval' = "normal"
  /\ hop' = NoAnswer /\ k' = 1
  /\ lastStates' = [w \in Wan |-> NoState]
  /\ current' = [w \in Wan |-> "unknown"]
  /\ stable' = [w \in Wan |-> 0]
  /\ previous' = [w \in Wan |-> NoState]
  /\ issued' = [w \in Wan |-> NoAlert] /\ even' = [w \in Wan |-> TRUE]
  /\ refused' = {} /\ gapped' = {}
  /\ UNCHANGED <<now, chat, payload>>

\* The signal handler runs stop(), which only clears the flag: no sleep or
\* send in progress is cancelled.
Stop ==
  /\ MayStop /\ running /\ pc # "process"
  /\ running' = FALSE
  /\ UNCHANGED <<pollVars, engineVars, pc, k, chatVars, payload, restarts>>

-----------------------------------------------------------------------------
(* _poll_loop                                                              *)

AtLoopTest == pc \in {"start", "sleep", "backoff"}

PollStartAlways ==               \* Faulty: the loop never tests the flag.
  /\ AtLoopTest
  /\ interval' = ChosenInterval
  /\ now' = IF now < Horizon THEN now + 1 ELSE now
  /\ pc' = "snmp"
  /\ UNCHANGED <<hop, lastStates, engineVars, running, k, chatVars, payload, restarts>>

\* The interval is chosen before the poll whose result it will follow.
PollStart ==
  /\ AtLoopTest /\ running
  /\ interval' = ChosenInterval
  /\ now' = IF now < Horizon THEN now + 1 ELSE now
  /\ pc' = "snmp"
  /\ UNCHANGED <<hop, lastStates, engineVars, running, k, chatVars, payload, restarts>>

PollExit ==
  /\ AtLoopTest /\ ~running
  /\ pc' = "done"
  /\ UNCHANGED <<pollVars, engineVars, running, k, chatVars, payload, restarts>>

\* Both SNMP queries are over; h is the next hop, NoAnswer or an address.
PollReturn(h) ==
  /\ pc = "snmp"
  /\ hop' = h
  /\ lastStates' = Polled(h)
  /\ k' = 1
  /\ pc' = "process"
  /\ UNCHANGED <<now, interval, engineVars, running, chatVars, payload, restarts>>

MustAlert(w) == ShouldAlert(current[w], lastStates[w].status)

SteadyNever(n) == n              \* Faulty: the count is never incremented.

\* consecutive_stable is only compared with StablePolls, so it stops there.
Steady(n) == IF n < StablePolls THEN n + 1 ELSE n

ProcessQuietForgets ==           \* Faulty: previous recorded only with an alert.
  /\ pc = "process" /\ k \in Wan /\ ~MustAlert(k)
  /\ stable' = [stable EXCEPT ![k] = Steady(@)]
  /\ k' = k + 1
  /\ UNCHANGED <<pollVars, current, previous, issued, even, running, pc, chatVars, payload, restarts>>

\* process_wan_state(state) with nothing to report: on to the next WAN.
ProcessQuiet ==
  /\ pc = "process" /\ k \in Wan /\ ~MustAlert(k)
  /\ stable' = [stable EXCEPT ![k] = Steady(@)]
  /\ previous' = [previous EXCEPT ![k] = lastStates[k]]
  /\ k' = k + 1
  /\ UNCHANGED <<pollVars, current, issued, even, running, pc, chatVars, payload, restarts>>

ProcessAlertForgets ==           \* Faulty: returns before recording previous.
  /\ pc = "process" /\ k \in Wan /\ MustAlert(k)
  /\ current' = [current EXCEPT ![k] = lastStates[k].status]
  /\ stable' = [stable EXCEPT ![k] = 0]
  /\ issued' = [issued EXCEPT ![k] = AlertFor(lastStates[k], previous[k])]
  /\ even' = [even EXCEPT ![k] = ~@]
  /\ gapped' = gapped \ {k}
  /\ pc' = "send"
  /\ UNCHANGED <<pollVars, previous, running, k, chat, refused, payload, restarts>>

\* process_wan_state(state) with an alert, up to the await of send_alert.
ProcessAlert ==
  /\ pc = "process" /\ k \in Wan /\ MustAlert(k)
  /\ current' = [current EXCEPT ![k] = lastStates[k].status]
  /\ stable' = [stable EXCEPT ![k] = 0]
  /\ previous' = [previous EXCEPT ![k] = lastStates[k]]
  /\ issued' = [issued EXCEPT ![k] = AlertFor(lastStates[k], previous[k])]
  /\ even' = [even EXCEPT ![k] = ~@]
  /\ gapped' = gapped \ {k}
  /\ pc' = "send"
  /\ UNCHANGED <<pollVars, running, k, chat, refused, payload, restarts>>

\* send_alert returned True or False, which the loop does not look at.
SendReturned(o) ==
  /\ pc = "send" /\ o \in {"sent", "failed"}
  /\ chat' = IF o = "sent" THEN [chat EXCEPT ![k] = issued[k].kind] ELSE chat
  /\ refused' = IF o = "sent" THEN refused \ {k} ELSE refused \cup {k}
  /\ k' = k + 1
  /\ pc' = "process"
  /\ UNCHANGED <<pollVars, engineVars, running, gapped, payload, restarts>>

SendRaisedSwallowed(o) ==        \* Faulty: the poll counts as complete.
  /\ pc = "send" /\ o = "raised"
  /\ pc' = "sleep"
  /\ UNCHANGED <<pollVars, engineVars, running, k, chatVars, payload, restarts>>

\* An exception other than TelegramError: the rest of this poll is dropped.
SendRaised(o) ==
  /\ pc = "send" /\ o = "raised"
  /\ refused' = refused \cup {k}
  /\ gapped' = gapped \cup {w \in Wan : w > k}
  /\ pc' = "backoff"
  /\ UNCHANGED <<pollVars, engineVars, running, k, chat, payload, restarts>>

EndOfPoll ==
  /\ pc = "process" /\ k = NumWans + 1
  /\ pc' = "sleep"
  /\ UNCHANGED <<pollVars, engineVars, running, k, chatVars, payload, restarts>>

-----------------------------------------------------------------------------
(* _heartbeat_loop: whenever its own sleep ends and the event loop is free *)

SendHeartbeat ==
  /\ running /\ pc # "process"
  /\ payload' = [w \in Wan |-> previous[w].status]
  /\ UNCHANGED <<pollVars, engineVars, running, pc, k, chatVars, restarts>>

-----------------------------------------------------------------------------

PollLoop ==
  \/ PollStart
  \/ PollExit
  \/ \E h \in Addr \cup {NoAnswer} : PollReturn(h)
  \/ ProcessQuiet
  \/ ProcessAlert
  \/ \E o \in SendOutcome : SendReturned(o) \/ SendRaised(o)
  \/ EndOfPoll

Next == PollLoop \/ SendHeartbeat \/ Stop \/ Restart

Spec == Init /\ [][Next]_vars

\* Every await of the poll loop ends: SNMP and Telegram calls have timeouts.
FairSpec == Spec /\ WF_vars(PollLoop)

-----------------------------------------------------------------------------
(* Properties                                                              *)

\* Every variable keeps the type that the fields of the code give it.
TypeOK ==
  /\ now \in 0 .. Horizon /\ restarts \in 0 .. MaxRestarts
  /\ running \in BOOLEAN /\ pc \in Point
  /\ interval \in {"normal", "alert"} /\ hop \in Addr \cup {NoAnswer}
  /\ lastStates \in [Wan -> State] /\ k \in 1 .. NumWans + 1
  /\ current \in [Wan -> {"unknown", "up", "down"}]
  /\ stable \in [Wan -> 0 .. StablePolls]
  /\ previous \in [Wan -> State]
  /\ issued \in [Wan -> Alert] /\ even \in [Wan -> BOOLEAN]
  /\ chat \in [Wan -> {"none", "DOWN", "RECOVERED"}]
  /\ refused \subseteq Wan /\ gapped \subseteq Wan
  /\ payload \in [Wan -> {"none", "up", "down"}]

\* The deduplication memory never disagrees with what was announced, nor
\* with the states handed to the heartbeat, wherever an alert was cut short.
EngineAgrees ==
  \A w \in Wan :
    /\ current[w] = "unknown" <=> issued[w].kind = "none"
    /\ current[w] = "down" <=> issued[w].kind = "DOWN"
    /\ current[w] = "down" <=> previous[w].status = "down"

\* Whenever the loop completes a poll, the WANs announced DOWN are exactly
\* those polled down, however many alerts failed or raised on the way.
SettledReport ==
  pc = "sleep" =>
    \A w \in Wan : issued[w].kind = "DOWN" <=> lastStates[w].status = "down"

\* After every completed poll, and so after exceptions that cut earlier ones
\* short, the states that a heartbeat picks up all come from that poll, with at
\* most one WAN up.
SnapshotIsOnePoll ==
  pc = "sleep" =>
    /\ previous = lastStates
    /\ \A v, w \in Wan :
         previous[v].status = "up" /\ previous[w].status = "up" => v = w

\* A RECOVERED alert reports the downtime since the poll that its own DOWN alert
\* was about: no poll in between moved 'since', unless one was dropped before it
\* came to that WAN.
DowntimeCoversOutage ==
  [][\A w \in Wan \ gapped :
       issued[w].kind = "DOWN" /\ issued'[w].kind = "RECOVERED"
       => issued'[w].from = issued[w].at]_vars

Word == [none |-> "none", DOWN |-> "out", RECOVERED |-> "back"]
Announced == [w \in Wan |-> Word[issued[w].kind]]

Log == INSTANCE OutageLog WITH Entity <- Wan, last <- Announced

\* Each WAN's alerts alternate DOWN, RECOVERED, DOWN, ... from DOWN, without
\* repetition, whatever exceptions and restarts do to the loop.
AlertsAlternate == Log!Spec

\* After every completed poll a WAN polled down stands DOWN in the chat, through
\* exceptions that cut earlier polls short and any number of restarts, unless
\* its own last alert was refused.
OutageVisible ==
  pc = "sleep" =>
    \A w \in Wan \ refused : lastStates[w].status = "down" => chat[w] = "DOWN"

\* A WAN that the polls keep finding down (up) is known down (not down) from
\* some moment on, if exceptions do not keep cutting polls short.
EventuallyKnown ==
  \A w \in Wan :
    /\ <>[](running /\ pc # "backoff" /\ lastStates[w].status = "down")
         => <>[](current[w] = "down")
    /\ <>[](running /\ pc # "backoff" /\ lastStates[w].status = "up")
         => <>[](current[w] # "down")

\* The poll loop slows down only when every WAN known so far has been up for
\* StablePolls polls, the first of them included.
SlowsDownOnlyWhenCalm ==
  [][pc # "snmp" /\ pc' = "snmp" /\ interval' = "normal" /\ now < Horizon =>
       \A w \in Wan : previous[w] # NoState =>
         /\ previous[w].status = "up"
         /\ now - previous[w].since >= StablePolls - 1]_vars

\* With several WANs the poll loop never slows down, whatever the polls find and
\* wherever exceptions cut them short: one WAN at least is known DOWN, or the
\* count of one has just begun anew.
NeverSlowsDown ==
  [][NumWans > 1 /\ StablePolls > 0 /\ pc \in {"sleep", "backoff"} /\ pc' = "snmp"
       => interval' = "alert"]_vars

\* How many more steps the poll loop may take once it is to stop.
StepsLeft ==
  CASE pc = "snmp" -> 2 * NumWans + 3
    [] pc = "process" -> 2 * (NumWans - k) + 4
    [] pc = "send" -> 2 * (NumWans - k) + 3
    [] pc \in {"start", "sleep", "backoff"} -> 1
    [] pc = "done" -> 0

\* After a SIGTERM every step of the process brings the end of its loop nearer,
\* until it is restarted: at most the poll in progress, and no other, is completed.
StopIsNear == [][~running => running' \/ StepsLeft' < StepsLeft]_vars

\* While all WANs stay up, the poll loop settles on the normal interval.
SlowsDownEventually ==
  <>[](running /\ pc # "backoff" /\ \A w \in Wan : lastStates[w].status = "up")
    => <>[](interval = "normal")
=============================================================================
