----------------------------- MODULE AlertDelivery -----------------------------
(***************************************************************************)
(* What the local monitor promises of the way of its alerts into the chat: *)
(* each is posted or refused once and for all, and a source that waits for *)
(* its sends has at most one on its way.  LocalMonitor implements it.      *)
(***************************************************************************)
EXTENDS Integers, Sequences

CONSTANTS
  Source,    \* who creates alerts
  Waiting    \* those of them that await each send before they go on

VARIABLES
  origin,    \* the source of each alert so far; its index names it
  refused,   \* alerts that did not reach the chat
  chat       \* alerts that did, in order

delivery == <<origin, refused, chat>>

Posted == {chat[i] : i \in DOMAIN chat}
Pending == DOMAIN origin \ (Posted \cup refused)

Init == origin = <<>> /\ refused = {} /\ chat = <<>>

\* A source that waits has none pending once the step is over but the new one.
Create(s) ==
  /\ origin' = Append(origin, s)
  /\ s \in Waiting => \A a \in Pending' : origin'[a] = s => a = Len(origin')

Post(a) == a \in Pending /\ chat' = Append(chat, a) /\ UNCHANGED refused

Refuse(a) == a \in Pending /\ refused' = refused \cup {a} /\ UNCHANGED chat

\* The end of a send may be where its source creates the next alert.
Next ==
  \/ \E s \in Source : Create(s) /\ UNCHANGED <<refused, chat>>
  \/ \E a \in Pending : (Post(a) \/ Refuse(a)) /\ UNCHANGED origin
  \/ \E a \in Pending : (Post(a) \/ Refuse(a))
                         /\ \E s \in Waiting : origin[a] = s /\ Create(s)

Spec == Init /\ [][Next]_delivery
=============================================================================
