-------------------------- MODULE AlertDeliveryProofs --------------------------
(***************************************************************************)
(* What AlertDelivery means for a reader of the chat: of a source that     *)
(* awaits its sends the alerts appear in the order of their creation, and  *)
(* no alert appears twice or after it was given up.  LocalMonitor          *)
(* implements AlertDelivery, and so has both.                              *)
(***************************************************************************)
EXTENDS AlertDelivery, TLAPS

Typed ==
  /\ origin \in Seq(Source \cup Waiting)
  /\ chat \in Seq(DOMAIN origin)
  /\ refused \subseteq DOMAIN origin

\* The chat shows the alerts of a source that waits, as the poll loop does, in the
\* order of their creation.
InOrder ==
  \A i, j \in DOMAIN chat :
    i < j /\ origin[chat[i]] \in Waiting /\ origin[chat[i]] = origin[chat[j]]
      => chat[i] < chat[j]

\* An alert is posted at most once, and never if its send was given up.
SettledOnce ==
  /\ \A i, j \in DOMAIN chat : chat[i] = chat[j] => i = j
  /\ Posted \cap refused = {}

\* Of a source that waits only its latest alert may be pending.
LatestPends ==
  \A a \in Pending, b \in DOMAIN origin :
    origin[a] \in Waiting /\ origin[a] = origin[b] => b <= a

DeliveryInv == Typed /\ InOrder /\ SettledOnce /\ LatestPends

LEMMA StepCreate ==
  ASSUME DeliveryInv, UNCHANGED <<refused, chat>>, NEW s \in Source \cup Waiting, Create(s)
  PROVE  DeliveryInv'
<1> USE DEF DeliveryInv, Typed
<1>1. /\ origin' = Append(origin, s) /\ Len(origin) \in Nat
      /\ DOMAIN origin = 1 .. Len(origin) /\ DOMAIN origin' = 1 .. Len(origin) + 1
      /\ Len(origin') = Len(origin) + 1 /\ origin'[Len(origin')] = s
      /\ \A a \in DOMAIN origin : origin'[a] = origin[a]
  BY DEF Create
<1>2. Typed'
  <2>1. chat \in Seq(DOMAIN origin')
    BY <1>1
  <2> QED BY <1>1, <2>1
<1>3. \A i \in DOMAIN chat : chat[i] \in DOMAIN origin
  OBVIOUS
<1>4. InOrder'
  BY <1>1, <1>3 DEF InOrder
<1>5. SettledOnce'
  BY DEF SettledOnce, Posted
<1>6. LatestPends'
  <2> SUFFICES ASSUME NEW a \in Pending', NEW b \in DOMAIN origin',
                      origin'[a] \in Waiting, origin'[a] = origin'[b]
               PROVE  b <= a
    BY DEF LatestPends
  <2>1. a \in DOMAIN origin' /\ a \notin Posted /\ a \notin refused
    BY DEF Pending, Posted
  <2>2. CASE origin'[a] = s
    <3>1. a = Len(origin')
      BY <2>2 DEF Create
    <3> QED BY <1>1, <3>1
  <2>3. CASE origin'[a] # s
    <3>1. a \in DOMAIN origin /\ b \in DOMAIN origin
      BY <1>1, <2>1, <2>3
    <3> QED BY <1>1, <2>1, <3>1 DEF LatestPends, Pending
  <2> QED BY <2>2, <2>3
<1> QED BY <1>2, <1>4, <1>5, <1>6

\* The end of a send, before its source goes on.
LEMMA StepSettle ==
  ASSUME DeliveryInv, NEW a \in Pending, Post(a) \/ Refuse(a)
  PROVE  /\ chat' \in Seq(DOMAIN origin) /\ refused' \subseteq DOMAIN origin
         /\ \A i, j \in DOMAIN chat' :
              i < j /\ origin[chat'[i]] \in Waiting /\ origin[chat'[i]] = origin[chat'[j]]
                => chat'[i] < chat'[j]
         /\ \A i, j \in DOMAIN chat' : chat'[i] = chat'[j] => i = j
         /\ Posted' \cap refused' = {}
         /\ Posted \subseteq Posted' /\ refused \subseteq refused'
<1> USE DEF DeliveryInv, Typed
<1>0. a \in DOMAIN origin /\ a \notin Posted /\ a \notin refused
      /\ DOMAIN chat = 1 .. Len(chat) /\ Len(chat) \in Nat
      /\ DOMAIN origin = 1 .. Len(origin) /\ Len(origin) \in Nat
      /\ \A i \in DOMAIN chat : chat[i] \in DOMAIN origin /\ chat[i] \in Posted
  BY DEF Pending, Posted
<1>1. CASE Refuse(a)
  BY <1>0, <1>1 DEF Refuse, InOrder, SettledOnce, Posted
<1>2. CASE Post(a)
  <2>1. /\ chat' = Append(chat, a) /\ refused' = refused
        /\ DOMAIN chat' = 1 .. Len(chat) + 1 /\ chat'[Len(chat) + 1] = a
        /\ \A i \in DOMAIN chat : chat'[i] = chat[i]
    BY <1>0, <1>2 DEF Post
  <2>2. chat' \in Seq(DOMAIN origin)
    BY <1>0, <2>1
  <2>3. Posted' = Posted \cup {a}
    BY <1>0, <2>1 DEF Posted
  <2>4. \A i \in DOMAIN chat :
          /\ chat[i] # a
          /\ origin[chat[i]] \in Waiting /\ origin[chat[i]] = origin[a] => chat[i] < a
    BY <1>0 DEF LatestPends
  <2>5. \A i, j \in DOMAIN chat' : chat'[i] = chat'[j] => i = j
    BY <1>0, <2>1, <2>4 DEF SettledOnce
  <2>6. \A i, j \in DOMAIN chat' :
          i < j /\ origin[chat'[i]] \in Waiting /\ origin[chat'[i]] = origin[chat'[j]]
            => chat'[i] < chat'[j]
    <3> SUFFICES ASSUME NEW i \in DOMAIN chat', NEW j \in DOMAIN chat', i < j,
                        origin[chat'[i]] \in Waiting, origin[chat'[i]] = origin[chat'[j]]
                 PROVE  chat'[i] < chat'[j]
      OBVIOUS
    <3>1. i \in DOMAIN chat
      BY <1>0, <2>1
    <3>2. CASE j \in DOMAIN chat
      BY <2>1, <3>1, <3>2 DEF InOrder
    <3>3. CASE j = Len(chat) + 1
      BY <2>1, <2>4, <3>1, <3>3
    <3> QED BY <1>0, <2>1, <3>2, <3>3
  <2> QED BY <1>0, <2>1, <2>2, <2>3, <2>5, <2>6 DEF SettledOnce
<1> QED BY <1>1, <1>2

\* Settling alone leaves the rest as it was, ...
LEMMA StepEnds ==
  ASSUME DeliveryInv, NEW a \in Pending, Post(a) \/ Refuse(a), UNCHANGED origin
  PROVE  DeliveryInv'
<1>1. Pending' \subseteq Pending
  BY StepSettle DEF Pending
<1> QED BY <1>1, StepSettle DEF DeliveryInv, Typed, InOrder, SettledOnce, LatestPends

\* ... and with the next alert of its source it is both.
LEMMA StepGoesOn ==
  ASSUME DeliveryInv, NEW a \in Pending, Post(a) \/ Refuse(a), NEW s \in Waiting, Create(s)
  PROVE  DeliveryInv'
<1>1. /\ origin' = Append(origin, s) /\ Len(origin) \in Nat
      /\ DOMAIN origin = 1 .. Len(origin) /\ DOMAIN origin' = 1 .. Len(origin) + 1
      /\ Len(origin') = Len(origin) + 1 /\ origin'[Len(origin')] = s
      /\ \A b \in DOMAIN origin : origin'[b] = origin[b]
      /\ origin' \in Seq(Source \cup Waiting)
  BY DEF DeliveryInv, Typed, Create
<1>2. Typed'
  <2>1. chat' \in Seq(DOMAIN origin')
    BY <1>1, StepSettle
  <2> QED BY <1>1, <2>1, StepSettle DEF Typed
<1>3. \A i \in DOMAIN chat' : chat'[i] \in DOMAIN origin
  BY StepSettle
<1>4. InOrder'
  BY <1>1, <1>3, StepSettle DEF InOrder
<1>5. SettledOnce'
  BY StepSettle DEF SettledOnce
<1>6. LatestPends'
  <2> SUFFICES ASSUME NEW b \in Pending', NEW c \in DOMAIN origin',
                      origin'[b] \in Waiting, origin'[b] = origin'[c]
               PROVE  c <= b
    BY DEF LatestPends
  <2>1. b \in DOMAIN origin' /\ b \notin Posted /\ b \notin refused
    BY StepSettle DEF Pending
  <2>2. CASE origin'[b] = s
    <3>1. b = Len(origin')
      BY <2>2 DEF Create
    <3> QED BY <1>1, <3>1
  <2>3. CASE origin'[b] # s
    <3>1. b \in DOMAIN origin /\ c \in DOMAIN origin
      BY <1>1, <2>1, <2>3
    <3> QED BY <1>1, <2>1, <3>1 DEF LatestPends, Pending, DeliveryInv
  <2> QED BY <2>2, <2>3
<1> QED BY <1>2, <1>4, <1>5, <1>6 DEF DeliveryInv

THEOREM DeliveryInvariance == Spec => []DeliveryInv
<1>1. Init => DeliveryInv
  BY DEF Init, DeliveryInv, Typed, InOrder, SettledOnce, LatestPends, Posted, Pending
<1>2. DeliveryInv /\ [Next]_delivery => DeliveryInv'
  <2> SUFFICES ASSUME DeliveryInv, [Next]_delivery PROVE DeliveryInv'
    OBVIOUS
  <2>1. CASE \E s \in Source : Create(s) /\ UNCHANGED <<refused, chat>>
    BY <2>1, StepCreate
  <2>2. CASE \E a \in Pending : (Post(a) \/ Refuse(a)) /\ UNCHANGED origin
    BY <2>2, StepEnds
  <2>3. CASE \E a \in Pending : (Post(a) \/ Refuse(a))
                                  /\ \E s \in Waiting : origin[a] = s /\ Create(s)
    BY <2>3, StepGoesOn
  <2>4. CASE UNCHANGED delivery
    BY <2>4 DEF delivery, DeliveryInv, Typed, InOrder, SettledOnce, LatestPends, Posted,
                Pending
  <2> QED BY <2>1, <2>2, <2>3, <2>4 DEF Next
<1> QED BY <1>1, <1>2, PTL DEF Spec

\* The alerts of a source that awaits its sends reach the chat in order.
THEOREM Ordered == Spec => []InOrder
<1>1. DeliveryInv => InOrder
  BY DEF DeliveryInv
<1> QED BY <1>1, DeliveryInvariance, PTL

\* No alert is posted twice, and none that was refused is posted.
THEOREM Settling == Spec => []SettledOnce
<1>1. DeliveryInv => SettledOnce
  BY DEF DeliveryInv
<1> QED BY <1>1, DeliveryInvariance, PTL
=============================================================================
