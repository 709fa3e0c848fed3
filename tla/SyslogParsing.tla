----------------------------- MODULE SyslogParsing -----------------------------
(***************************************************************************)
(* What becomes of the text of a syslog message: parse_syslog_message,     *)
(* categorize_message, and the alerts of AlertEngine.process_syslog_event. *)
(*                                                                         *)
(* A message is abstracted to what these look for: whether it has the      *)
(* header of SYSLOG_PATTERN, which of WAN_PATTERNS occur in its text, and  *)
(* of which keyword lists a word does.  Any combination may occur.         *)
(***************************************************************************)
EXTENDS Integers, Sequences

\* In the order in which categorize_message tries them.
WanPatterns ==
  <<"failover_activated", "failover_deactivated", "link_down", "online_detection">>
KeywordLists == <<"auth", "firewall", "vpn", "system">>

Elements(s) == {s[i] : i \in DOMAIN s}

Message == [header : BOOLEAN,
            patterns : SUBSET Elements(WanPatterns),
            keywords : SUBSET Elements(KeywordLists)]

\* The first of a list that a message shows.
FirstShown(list, shown) ==
  list[CHOOSE i \in DOMAIN list :
         list[i] \in shown /\ \A j \in DOMAIN list : list[j] \in shown => i <= j]

CategorizeKeywordsFirst(m) ==            \* Faulty: the generic words win.
  IF m.keywords # {}
  THEN [category |-> FirstShown(KeywordLists, m.keywords), type |-> "none"]
  ELSE IF m.patterns # {}
  THEN [category |-> "wan", type |-> FirstShown(WanPatterns, m.patterns)]
  ELSE [category |-> "system", type |-> "none"]

\* The WAN patterns come first; "system" is also the default.
Categorize(m) ==
  IF m.patterns # {}
  THEN [category |-> "wan", type |-> FirstShown(WanPatterns, m.patterns)]
  ELSE IF m.keywords # {}
  THEN [category |-> FirstShown(KeywordLists, m.keywords), type |-> "none"]
  ELSE [category |-> "system", type |-> "none"]

\* Severity of the alert of each WAN event that has one: an online detection
\* only confirms, and is logged.
Severity == [failover_activated |-> "CRITICAL", failover_deactivated |-> "CRITICAL",
             link_down |-> "WARNING"]

\* process_syslog_event returns one alert or none.
Alerting(event) == event.category = "wan" /\ event.type \in DOMAIN Severity

-----------------------------------------------------------------------------
(* Reference: the rows of the alert table of README.md whose source is     *)
(* syslog                                                                  *)

\* The rows Failover Activated, Failover Ended and Physical Link Down (lines
\* 216 to 218): whatever else the message mentions.
Urgent(m) ==
  m.patterns \cap {"failover_activated", "failover_deactivated", "link_down"} # {}

\* The row Auth Failure (line 219): a message that tells of a failed login has a
\* word of the auth list, which is all that the parser looks for.
FailedLogin(m) == "auth" \in m.keywords /\ ~Urgent(m)
=============================================================================
