---- MODULE MCLocalMonitor ----
(* LocalMonitor for TLC, and a documented promise that the code does not keep: the
   property of a run that refutes it. *)
EXTENDS LocalMonitor

Text(patterns, keywords) ==
  [header |-> TRUE, patterns |-> patterns, keywords |-> keywords]

\* A failover mentioned together with an administrator's login; a link down
\* with its online detection; a mere online detection; a failed login; firewall
\* and VPN words; none at all; and a failover without the header.
TypicalTraffic ==
  { Text({"failover_activated"}, {"auth"}),
    Text({"link_down", "online_detection"}, {}),
    Text({"online_detection"}, {"system"}),
    Text({}, {"auth"}),
    Text({}, {"firewall", "vpn"}),
    Text({}, {}),
    [header |-> FALSE, patterns |-> {"failover_deactivated"}, keywords |-> {}] }

\* A failed login: words of the auth list, and no WAN pattern.
FailedLogins == {Text({}, {"auth"})}

\* README.md:219, "Auth Failure | Warning | Syslog | Failed login attempts": a
\* failed login has an alert, as a failover has.
AuthFailureTold == Cardinality(SyslogAlerts) >= urgent + logins
=============================================================================
