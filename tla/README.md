# WAN router notifications in TLA+

A verification project kept beside the code of the dual-WAN monitor: TLA+ modules
of its concurrent core, TLC runs over small instances, and TLAPS proofs of the
properties that matter most. Paths without `src/` in front are relative to the
repository root.

## 1. The system

Two Python processes, each one asyncio event loop under a systemd unit with
`Restart=always`.

```
 router --SNMP--> SNMPPoller --> _poll_loop --> AlertEngine --> TelegramNotifier --> chat
        --syslog-> SyslogReceiver ------------>     |
                                       previous WAN states
                                                    v
                              _heartbeat_loop --> HeartbeatSender
                                                    |  HTTP over VPN
 - - - - - - - - - - - - - - - - - - - - - - - - - -|- - - - - - - - - - - - - - - -
                                                    v
                                 /heartbeat --> HeartbeatStore
                                                    |
   ExternalProbe <----------------- _monitor_loop --+--> RemoteAlertEngine --> chat
   DnsMonitor   <------------------ _dns_monitor_loop ----------------------> chat
```

A task gives way to another one only where it awaits. That makes every stretch
between two awaits one atomic step, and every await a place where all other
tasks may have run: this is the rule by which the modules cut the code into
actions.

### Components, their state and operations

| Component (source) | State | Operations | What makes it correct |
|---|---|---|---|
| Default-route poller (`local/snmp_poller.py`) | `_last_states`, `_gateway_to_wan` | `poll` (two queries, then one state per WAN) | at most one WAN up; `since` moves only when the status does |
| Local alert engine (`local/alert_engine.py`) | per WAN `AlertState` (status, stable count), `_previous_wan` | `process_wan_state`, `process_syslog_event` (no state), `should_use_alert_interval`, `get_current_wan_states` | each change reported once, alternating; what is deduplicated, announced and sent to the sentinel agrees |
| Local loops (`local/main.py`) | `_running`, `_recent_events` | `_poll_loop`, `_heartbeat_loop`, `_status_loop`, `_on_syslog_event`, `start`, `stop` | a poll cut short is made up for; the interval follows the situation; a stop ends the loops |
| Syslog receiver (`local/syslog_receiver.py`) | `message_count`, transport | `parse_syslog_message`, `datagram_received`, `reset_count` | each message classified once, in the intended precedence |
| Heartbeat sender (`local/heartbeat.py`) | none | `build_payload`, `send` | the payload is the situation of one moment |
| Heartbeat store and endpoint (`remote/heartbeat_receiver.py`) | `last_heartbeat`, `last_payload`, `_alerted_missing` | `record`, `is_missing`, `should_alert_missing`, `/heartbeat`, `/health` | one alert per silence |
| Sentinel loops (`remote/main.py`) | `_was_missing`, `_running` | `_monitor_loop`, `_probe_loop`, `_dns_monitor_loop`, `start` | a silence is announced within a bound; LOST and RECOVERED alternate |
| External probe (`remote/external_probe.py`) | none | `check` (HTTP, then three TCP ports) | bounded; a reachable host is found reachable |
| Remote alert engine (`remote/alert_engine.py`) | none | two alert constructors | the silence told is the one that was found |
| DNS monitor (`remote/dns_monitor.py`) | `last_seen_ip`, `consecutive_failures` | `check` | every change, every second failure and every mismatch noticed |
| Telegram notifier (`shared/telegram.py`) | the bot | `send_message`, `send_alert`, `format_*` | never blocks its caller for ever |
| Configuration, models (`shared/config.py`, `shared/models.py`) | values | validation | - |
| Deployment (`deploy/`, `scripts/`) | - | systemd restarts the processes | - |

### How they interact

* `_poll_loop` calls `poll`, then for each WAN `process_wan_state`, then *awaits*
  Telegram before the next WAN.
* `_heartbeat_loop` copies the engine's states at any such await.
* `_on_syslog_event` is a callback of the datagram protocol; it appends to
  `_recent_events` and starts a task for the send that nobody awaits.
* `POST /heartbeat` calls `HeartbeatStore.record` at any await of `_monitor_loop`,
  which reads the same store before and after its own awaits.
* The DNS check resolves synchronously: it blocks the event loop, and so delays
  every sleeper of the sentinel.

### What is hard

Interleaving at awaits (a heartbeat between two alerts of a poll; a heartbeat
received during the probe); exceptions that cut a poll or a check short after its
first effects; memory lost in a restart while the chat keeps what was said; two
flags for one fact (`_alerted_missing` in the store, `_was_missing` in the loop);
time: strict threshold, probe, send and sleep add up; heartbeats lost, late, or recorded
after their sender has died; tasks that nobody awaits, and a stop that comes while
`start` is still opening the socket. `PROJECT.json` lists each
hazard with its line and the properties aimed at it.

## 2. The modules

| Module | Models | Extends |
|---|---|---|
| `OutageLog` | abstract: what the alerts of either process promise a reader, per watched entity: outage, recovery, outage, ... | |
| `AlertDelivery` | abstract: the way of an alert into the chat: posted or refused once, and at most one pending of a source that awaits its sends | |
| `WanAlerting` | poller, alert engine for WANs, `_poll_loop`, the snapshot of `_heartbeat_loop`, stop, restart | instance of `OutageLog` per WAN |
| `SyslogParsing` | `parse_syslog_message`, `categorize_message`, `process_syslog_event` as operators on messages | |
| `LocalMonitor` | all tasks of the local process: three loops, syslog callback and its tasks, start, stop, exit | `SyslogParsing`; instance of `AlertDelivery` |
| `Sentinel` | store, endpoint, `_monitor_loop` with probe and sends, time, start order, restart | instance of `OutageLog` |
| `HeartbeatLink` | composition: `_heartbeat_loop`, sender, network and sentinel, crash of either side | `Sentinel` |
| `ExternalProbe` | composition: `ExternalProbe.check` await by await inside the sentinel's loop, services that come and go | `Sentinel` |
| `DnsMonitor` | `DnsMonitor.check` and `_dns_monitor_loop`, restart | |
| `Durations` | `format_duration` of the float that `total_seconds()` returns, with its theorems | |
| `MCWanAlerting`, `MCLocalMonitor`, `MCSentinel` | instances for TLC, and promises of the documents that the code does not keep | |
| `AlertDeliveryProofs`, `WanAlertingProofs`, `LocalMonitorProofs`, `SentinelProofs`, `HeartbeatLinkProofs`, `ExternalProbeProofs`, `DnsMonitorProofs` | theorems | |

Definitions marked *Faulty* in a module are plausible bugs. Each is a variant of the
definition below it and is used by no specification; it shows that some property
notices it (`mutants` in `PROJECT.json`).

### WanAlerting

`lastStates` is `SNMPPoller._last_states` and, since `poll` returns that very dict,
also `wan_states`. `current`, `stable` and `previous` are the engine's memory.
`issued` and `chat` stand for the alerts: the last one created in this process life,
and the last one that reached the chat. `payload` holds the statuses in the last
heartbeat. Auxiliary are `even` (whether the number of alerts about a WAN was even),
`refused` (the WANs whose last alert did not reach the chat) and `gapped` (the WANs that
a poll cut short by an exception has left out since their last alert: only their
downtimes may then be told too short).

`pc` is the place of `_poll_loop`: `PollStart` evaluates the loop test and chooses the
interval, `PollReturn` ends both SNMP queries, `ProcessQuiet` and `ProcessAlert` are
`process_wan_state` for the WAN `k` (the second one up to the await of the send),
`SendReturned` and `SendRaised` end that await, `EndOfPoll` starts the sleep. While
`pc = "process"` the loop does not await, so `SendHeartbeat` and `Stop` are disabled.

A next hop is an address; `NoAnswer` covers what `_get_next_hop` turns into `None`.
`IsActive` keeps the reverse map's habit: of several WANs with one gateway the last
one counts. The clock advances once a poll, which is all that `since` and the
downtimes distinguish, and stops at `Horizon`. The count of stable polls stops at
`StablePolls` (5 in the code), beyond which no code looks.

### LocalMonitor and SyslogParsing

A message is what the parser looks for in its text: whether `SYSLOG_PATTERN` matches,
which `WAN_PATTERNS` occur, and of which keyword lists a word occurs; all combinations
exist in the type `Message`. `Categorize` returns the first match in the order of the
code, `Severity` the WAN events that `process_syslog_event` turns into an alert.
The reference is the alert table of the repository's `README.md`, its rows from syslog:
`Urgent` for failovers, their ends and broken links (lines 216 to 218), `FailedLogin`
for failed logins (line 219). `urgent` and `logins` (auxiliary) count the messages of
either kind.

An alert is its index in `origin`, which says who created it, in the order of creation
and so of `_recent_events.append`. `inHand` is the alert whose send `_poll_loop`
awaits, `tasks` those sent by a task of `_on_syslog_event`. A poll may create any
number of alerts, as *which* ones is `WanAlerting`'s subject; the abstraction forgets
the WANs and keeps the order.

`main` follows `main()`: `starting` up to the await of the socket, `opening` while
`create_datagram_endpoint` has opened it but `start` has not resumed (`stop` finds no
transport then), `gather` while the loops run, `finally`, `closed`. `Stop` may come at
any of the first three, any number of times. The sleeps of the loops end whether or
not a stop has come, and the loops see `_running` only afterwards; `_status_loop`
still reports and resets the count on its way out.

### Sentinel

`alerted` and `wasMissing` are the two flags, `heard` and `silence` the age of
`last_heartbeat`. Clocks are relative, in ticks, so that runs are unbounded in time:
`timer` in the present await, `sinceCheck` since the last check. An await may end at
any tick up to its `StepMax`; a sleep not before `Period`, and up to `Lag` later
because the DNS check of the same event loop may block it. `ProbeMax` and `SendMax`
bound the probe and the send by their timeouts. The HTTP client's timeouts are per
phase, so the real constants may be larger than their configured number: the
theorems hold for any value.

`Elapse` is what a tick does to the clocks, `Tick` adds when one may pass, so that
`ExternalProbe` can replace the latter. `CheckMissing` is the check up to the await of
the probe; with the probe disabled it runs on to the send (`LinkCore`). `ProbeDone`
creates the alert from the store *as it is then*. `Serve` comes after the first check,
as `start` creates the task before it awaits uvicorn.

### HeartbeatLink

The sentinel of `Sentinel` with the other end: every action of `Sentinel` is kept, and
`Heartbeat`, which there may come at any time, is now the arrival of a payload.
`phase` is the place of `_heartbeat_loop`; a payload is its age since it was built,
which is what its timestamp says. `Post` builds it and begins the request, `Deliver`
is `record()` at the sentinel, `Lose` any other fate. `RequestEnds` comes with the
payload's fate or with the timeout; in the second case the payload is still on its way
and may be recorded later. The period is the interval *plus* the request. `Crash` and
`Boot` are the death of the process and systemd's restart, not before `RestartSec`, and
`SentinelRestart` forgets what was stored. Auxiliary are `orphans` (payloads whose process
has died), `missed` (losses since the last record) and `steady` (a payload of the running
process has been recorded). `RestartDelay` may be shorter than `DelayMax`, as `RestartSec`
(10 s) is shorter than the phases of one HTTP request together: a payload of a dead process
may then come after, and replace, one of its successor.

### ExternalProbe

The sentinel with its probe opened up: `ProbeStarts` is `CheckMissing`, and what ends
`check` is `ProbeDone`; between them `step` names the await (`http`, `connect`,
`close`), `turn` the port, `elapsed` the time in it, limited by that await's own
timeout and by nothing else. `answering` are the services of the target that answer
now; they change at any moment (`TargetChanges`). A request or a connection may fail only
if its service did not answer at some moment of the probe (`silent`, auxiliary). Closing a
connection may fail at any time, as a service may reset what it has accepted: the port
then counts as failed, as in the code (`reset`, auxiliary).

### Durations

The argument of `format_duration` is a number of microseconds, the resolution of a
`timedelta`; `Whole` is its `int(seconds)`, which drops the fraction toward 0, and `Parts`
the three `divmod`s, which round down. -0.5 s therefore reads `0s`, -10 s
`-1d 23h 59m 50s`.

### DnsMonitor

`check` has no await and is one action; each send of its alerts is another, and so is
the end of a sleep (`Wake`), without which a check that changes nothing would be a
stuttering step and fairness would force the address to change.
`failures` stops at 2, the only value the code compares with. `first`, `change` and
`failed` are auxiliary.

### Sends

`SendOutcome` has three values in all modules: `sent` (True), `failed` (False: a
`TelegramError`, or no bot) and `raised` (any other exception). A refused send counts
as not delivered, though a timed-out one may have arrived; no property depends on
its absence from the chat.

## 3. The runs

| Run | Instance | Shows |
|---|---|---|
| `WanCore` | 3 WANs, WAN 2 and 3 on one gateway, no answer, all send outcomes, a restart, horizon 2, fair | types; where exceptions drop part of a poll, engine, announcements and heartbeat states still agree once a later poll is completed, and that one is reported completely; downtimes cover the outage; `OutageLog` is implemented; the chat shows every outage whose own alert was not refused; the loop never returns to the normal interval; a lasting state is eventually known |
| `WanCalm` | 1 WAN, 5 stable polls, horizon 12, raising sends, a restart, SIGTERM at any moment, fair | the slow-down comes only when due, and comes; after a stop each step brings the end of the loop nearer |
| `MonitorCore` | 3 messages of every sort, 3 alerts, events cut to 2, all send outcomes, stop at any moment, fair | each alert is in the chat, refused or being sent; `AlertDelivery` is implemented, so the poll loop's alerts arrive in order; counts add up; each urgent message has an alert; heartbeats tell of the latest alerts; a stop ends everything; the events keep coming back to their limit |
| `SentinelCore` | threshold 18 ticks of 10 s (60 s x 3), probe up to 4, send up to 2, lag 1, a restart, fair | types; silences are announced in time; LOST only when due or overtaken; `OutageLog` is implemented; a loss is eventually closed |
| `LinkCore` | interval 4, threshold 12, request 1, delay 2, restart delay 1, no probe, raising sends, a crash and a sentinel restart, fair | only payloads of a dead process come out of order; a running monitor is found missing only with the losses behind it, and a silence is no longer than they explain; a RECOVERED closes a loss that the chat shows; a dead monitor is announced LOST within the longest delay and the time of a detection, and for good |
| `ProbeCore` | probe of 1 tick per await, threshold 4, reliable chat, a restart, fair | a service that answers throughout is found; the probe in full implements `Sentinel`, its liveness assumptions included; a check that reports nothing agrees with the last alert, though the loop (6 ticks) may be longer than the threshold, so that heartbeats may be missing again before the recovery is seen |
| `DnsCore` | 3 addresses, all failures, a restart, fair | changes form a chain; a failure alert needs exactly two failed checks; a mismatch insists |

The five remaining runs refute promises; see section 6.

**Bounds.** Three WANs with a shared gateway contain the dual-WAN case (WAN 2 is
shadowed by WAN 3) and let an exception hit the first, a middle or the last WAN. A
horizon of 2 polls tells the beginning of an outage from its end; polls go on when the
clock has stopped, so the state without the clock is explored completely. In
`WanCalm` the horizon exceeds twice `StablePolls`, so a count that is reset late still
completes. In `Sentinel` only the count of restarts is bounded: `silence` stops one
tick after the longest silence any guard or property distinguishes (`Cap`).
One or two restarts show every effect of one, as a restart keeps nothing but the chat.
`DnsCore` needs three addresses for a change from and to an unexpected address.
`MonitorCore` has one alert more than the list keeps, so that the trim cuts and that a
poll and syslog both have alerts pending; its messages (`TypicalTraffic`) are one of
each class the code tells apart, with words of several lists at once.
`LinkCore` keeps the proportions of the defaults with a tick of 15 s: an interval of 60 s,
a threshold three times as long, requests and delays shorter than the interval but longer
than `RestartSec` (10 s), so that a restarted sender's payload is overtaken by one of
its predecessor. That makes the hypothesis `Timely` and `DelayMax < Interval` true;
time itself is unbounded. In `ProbeCore` every path of `check`
is taken, with the longest one (four awaits of a tick) exactly at `ProbeMax`;
the silence threshold is short, as the probe does not look at it.

**Fairness.** `WF_vars(PollLoop)`: every await of the poll loop ends, since SNMP and
Telegram requests have timeouts and sleeps are finite; no particular outcome is
assumed. `WF_vars(MonitorLoop)` and `WF_vars(Tick)` say the same of the sentinel
(a tick is blocked only by an await that must be over). `LocalMonitor` assumes it of
`main()` and of each of the three loops, which asyncio runs independently, and nothing
of the syslog tasks. `HeartbeatLink` adds that the sender goes on while it runs and
that a payload has *some* fate; `ExternalProbe` assumes it of the loop with the awaits
of `check` in it, and of time. Heartbeats, arrivals, restarts, stops and answers are
never forced. `DnsMonitor` adds `SF_vars(MismatchDelivered)`: a chat to which a
mismatch is sent again and again accepts it again and again; without it nothing about
the chat can be said.

**Deadlock** is checked everywhere but in `WanCalm` and `MonitorCore`, where a stopped
process that has no restart left is at its end.

## 4. What is proved

Each invariant and each action property of a passing run, and each refinement but for
the fairness in it, is also a theorem (several in the modules composed with their own as
well, where no run checks them again), for every value of the constants that the named
assumptions allow.

For every number of WANs, gateway map, set of send outcomes and bound, from
`WanAlertingAssumption` alone (`WanAlertingProofs`):

* `Typing`: the type invariant.
* `EngineAgreement`, `Settling`, `Snapshot`, `Downtime`, `Visibility`: the invariants
  and the action property of the same subjects.
* `Alternation`: `Spec => AlertsAlternate`, the refinement of `OutageLog`.
* `CalmSlowDown`: the loop slows down only when every known WAN has been up for the
  required polls.
* `NoSlowDown`: with two WANs or more it never slows down at all once it has polled. This
  is the general form of what `WanNeverNormal` shows for two.
* `NearStop`: after a stop every step lowers `StepsLeft`, the steps the poll in progress
  may still take.

The properties are not inductive by themselves. `IInv` adds:
`PolledKnown` (while processing, each WAN has a polled status), without which an alert
about an unpolled WAN is conceivable; `Progress` (the WANs before `k` have been handed
to the engine), which carries a completed poll to `SettledReport` and, with `OneUp`, to
`SnapshotIsOnePoll`, exceptions in earlier polls or not; `OneUp`, from the
shape of the reverse map; and `Lockstep` (about each WAN that no dropped poll has left out,
the engine and the poller remember the same `since` while a status lasts), which is what
`DowntimeCoversOutage` rests on and which an exception breaks for the WANs after the one
whose send raised. `Visibility` needs `ChatFollows` too: what this
process announced and is no longer sending is what the chat shows.
`Settling` holds with exceptions, the least obvious of them: the dropped WANs keep
their old `current`, so the next completed poll finds the difference again.
`CalmSlowDown` has an invariant of its own, `CalmInv`, as a dropped poll may leave the
stable count of one WAN too high: a change that an exception hides from one WAN's count
was hidden because the send for another WAN raised, and *that* WAN's count began
anew (`HiddenByRaise`), so that the minimum over all WANs, which the loop uses, is right.
`NoSlowDown` rests on `OneUp`: a completed poll leaves a WAN known DOWN, and a poll that
an exception cut short leaves behind the WAN whose send raised, just changed and so with a
count of zero (`PollTrace`).

For every set of messages, length of the list and bound, from `LocalMonitorAssumption`
(`LocalMonitorProofs`):

* `UrgentAlerts`: over all messages, an alert exists exactly if the text tells of a
  failover, its end or a broken link, whatever else is in it. `Telling` carries it to
  the running system: there are as many alerts of syslog as such messages. (The
  documented alert of a failed login is missing, see `AuthUntold` in section 6.)
* `Typing`, `Counting`; `AlertsAccounted` (no alert lost or doubled) from the
  disjointness of chat, refused, tasks and the one in hand; `OrderOfPolls` because an
  alert in hand is newer than every alert of the poll loop in the chat.
* `FailoverCritical`: among the messages with an alert, CRITICAL is exactly that of a
  failover or its end, even if the message also tells of a broken link.
* `Delivering`: `Spec => ImplementsDelivery`. Every alert on its way is pending in the
  abstract module (`OnTheWay`), and the one in hand is the only one of the poll loop, so
  each of `PollReturns`, `PollSent`, `PollRaised`, the tasks and the callback is one of its steps.
  What it gains is `Ordered` and `Settling` (`AlertDeliveryProofs`, for any sources): alerts of a
  source that awaits its sends appear in order, none twice, none after it was refused.
* `LatestTold`: the list is always the end of the sequence of all alerts, of at least
  `Keep` if there are as many, through every trim; and `Last <= Keep`.

For every interval, threshold, period and bound on the awaits, from
`SentinelAssumption` (`SentinelProofs`):

* `Typing`, including the clocks: `sinceCheck` never exceeds `MaxGap`, by the bounds
  of the awaits already passed (`Clocks`).
* `Detection`: a silence longer than `Threshold + MaxGap + ProbeMax` has had its LOST
  alert. The argument is `FoundInTime`: unflagged, the silence is at most the threshold
  plus the time since the last check; flagged and still probing, it is at most the
  threshold plus one gap plus the probe so far.
* `LostExplained`: once a heartbeat has come, the only LOST alert about a recent one is
  the one whose probe it overtook (`ProbedFlag`).
* `LostWithoutProbe`: with the probe disabled, a LOST alert of a monitor heard before tells
  of a silence beyond the threshold. So the promise that `SentinelStale` refutes fails
  because of the probe's await and of nothing else.
* `QuietChecks`: a check that reports nothing agrees with the last alert, unless a send
  raises, whatever the timing (`LossStands`: while a loss is announced and unclosed, either
  `_was_missing` is set or the loss is still being sent). It is the safety part of
  `RecoveryFollows`.
* `RecoveryClosing`: a RECOVERED is sent only to a chat whose last word is LOST, through
  exceptions and restarts, if Telegram refuses nothing.
* `Alternation`, under `Punctual` (the longest loop is not longer than the threshold, no
  send raises): `ClearedByHeartbeat` shows that a flag cleared while a loss stands
  leaves the silence below the threshold at the next check, so the recovery branch is
  taken before a second loss can be. Both halves are needed: with a longer loop TLC
  finds two LOST in a row, and so it does with a raising send.

For all timing constants of both ends, from `LinkAssumption` (`HeartbeatLinkProofs`):

* `Watched`: the link implements `Sentinel`; `LinkDetection`, `LinkAlternation` (under
  `Punctual`), `LinkRecovery` and `LinkQuietChecks` follow from it.
* `LinkTyping`, with the bounds of the sender's clocks and of the payloads' ages.
* `OrderKept`: if no delay is as long as the interval, whatever is on its way is newer
  than what is stored, but for the payloads of a dead process. The running process builds
  its payloads an interval apart, so at most its last one is on its way, however
  early the request was given up (`Ordered`).
* `DeadFound`: a monitor dead for longer than `DelayMax` and the time of a detection has
  been announced LOST, although its payloads may be recorded after its death and the
  sends of the alerts may raise: from then on the silence is too long not to be found.
  As in all of `Sentinel`, announced means that the alert was created; after a send that
  raises, the chat may not show it.
* `LossesCounted`, under `Timely`: while the same process runs, the age of the stored
  payload is at most the cycles of the payloads lost since plus the one under way, so
  a silence beyond the threshold has `MissedThreshold - 1` losses behind it.
  `SilenceExplained` states that bound itself.
* `ShippedTiming`: with the shipped intervals (`remote/config.example.yaml` and the
  defaults of `shared/config.py`: 60 s, three missed, a check every 10 s) `Timely` follows
  if two requests and a delivery together take at most 60 s, and the loop is as short as
  `Punctual` asks if probe, send and lag together take at most 170 s. Both leave
  room for the code's timeouts of 10 s, although those of the HTTP clients are per phase.

From `ProbeAssumption` (`ExternalProbeProofs`): `SentinelImplemented` (the time spent in
the awaits of `check` so far, plus what is left of them, stays within `ProbeMax`), and by
it `ProbedDetection`, `ProbedAlternation` (under `Punctual`), `ProbedQuietChecks` and
`ProbedLost`; `SteadyServices`, as each port left behind has been silent or reset;
`ProbeTyping`.

For every set of addresses, expected address and set of outcomes (`DnsMonitorProofs`):
`ChangeChain` and `FailureTwice`, from an invariant that adds that a change alert leads
to an address (`ChangeLeadsSomewhere`) and that the counter is zero exactly after a
successful check (`Counted`); and `Typing`.

For every number of microseconds (`Durations`): `TextTellsDuration` (durations with the
same text are less than two seconds apart, on one side of 0 less than one),
`TextNotEmpty` (a text is never empty, and `0s` exactly within a second of 0),
`SetBackShowsDays` (the days are negative exactly from -1 s down, and no other unit ever
is, because the `divmod`s round down). These are about numbers and have no run.

Model-checked only: liveness, which is beyond the prover (`EventuallyKnown`,
`SlowsDownEventually`, `StopEnds`, `EventsTrimmed`, `RecoveryFollows`, `DeadAnnounced`,
`MismatchInsists`, and the fairness in `ImplementsSentinel`).

## 5. What is not modelled

* `link_up` and `wan_interfaces`, the failover wording, the diagnosis, the texts and
  `format_*` other than `format_duration`: wording of alerts.
* Timestamp, host and severity of a syslog message: no alert depends on them.
* `_probe_loop`: it only logs. `/health` and `get_last_wan_states` only read.
* The cancellation of the sentinel's tasks at its exit: the process ends with it, which
  is what `Restart` models.
* Loading and validation of the configuration (`shared/config.py`): by pydantic, before
  any loop starts; the values are CONSTANTS here, and a configuration that is rejected
  runs nothing.
* Deployment, but for `Restart=always` and `RestartSec` of the units;
  `MockSNMPPoller` and `scripts/`, which are for tests.
* HTTP connections, authentication and TLS of the heartbeat: in `HeartbeatLink` a
  rejected request is a lost payload.

## 6. Where documents and code disagree

| Run | The code | The document |
|---|---|---|
| `WanFalseDown` | a query without answer leaves no WAN active, and all are announced DOWN | `README.md:214`: "Default route failover detected" |
| `WanNeverNormal` | any WAN DOWN keeps the alert interval, and of two WANs one always is | `README.md:165`: "Seconds between SNMP polls (normal)" |
| `WanTorn` | a heartbeat during a send mixes two polls: two WANs up | `shared/models.py:26`: "Current state of a WAN interface" |
| `SentinelStale` | a heartbeat during the probe does not stop the LOST alert | `README.md:220`: "No heartbeat for 3+ minutes" |
| `AuthUntold` | `process_syslog_event` has alerts for WAN events only (`local/alert_engine.py:159`) | `README.md:219`: "Failed login attempts" of source "Syslog" |

Noticed while modelling and left without a run:

* A fresh sentinel announces LOST at its first check, whatever its uptime
  (`remote/heartbeat_receiver.py:49`).
* With `missed_threshold: 3` a monitor may be announced LOST after two lost heartbeats:
  the third is late by its own request and delay only (`LossesBehindLost` states what
  holds).
* `record()` looks at no timestamp (`remote/heartbeat_receiver.py:42`): when a monitor dies
  and is restarted at once, a late payload of the dead process may replace the one of its
  successor in `last_payload`.
* A poll that an exception cuts short before a WAN's turn moves the poller's `since` and not
  the engine's, so the downtime told of that WAN may be measured from a moment that is not
  the one its DOWN alert was about.
* Two WANs behind one gateway: only the last is ever found up
  (`local/snmp_poller.py:56`).
* A WAN that recovers during a restart is never announced RECOVERED
  (`local/alert_engine.py:33`).
* A refused alert is never sent again, as no caller looks at the result of `send_alert`;
  `_on_syslog_event`'s tasks are not kept or awaited (`local/main.py:93`), so the exit
  cuts them off.
* The sleep after a DOWN alert is still the interval chosen before the poll
  (`local/main.py:100`).
* `_status_loop` looks at `_running` every 300 s only, longer than systemd waits by
  default before it kills a stopping process.
* A clock set back makes durations negative, and `format_duration` then mixes signs
  ("-1d 23h 59m 50s" for -10 s).
* `polling.recovery_threshold`, `router.snmp_timeout` and `heartbeat.timeout` are read
  nowhere.

## 7. What could follow

The modules planned at first are all there. Of what is left, most would be gained by:

1. Composing `LocalMonitor` with `HeartbeatLink`, so that the recent events of a payload
   recorded by the sentinel can be related to the alerts of the chat.
2. A model of the two systemd units with their stop timeout, for the end of
   `_status_loop`.
3. The validation rules of `shared/config.py` as assumptions, to show which accepted
   configurations satisfy `Punctual` and `Timely`, on which theorems depend.
