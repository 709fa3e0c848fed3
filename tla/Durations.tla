------------------------------ MODULE Durations ------------------------------
(***************************************************************************)
(* format_duration: how long an outage, an uptime or a silence lasted, as  *)
(* every alert states it, with the facts a reader of an alert relies on.   *)
(*                                                                         *)
(* A duration is what total_seconds() returns, a float with the resolution *)
(* of a timedelta: here its number of microseconds.  A text is a function  *)
(* from the units it shows to their numbers, as the order of the units is  *)
(* always the same.                                                        *)
(***************************************************************************)
EXTENDS Integers, TLAPS

Day == 86400
Hour == 3600
Minute == 60
Second == 1000000

Unit == {"d", "h", "m", "s"}

\* int(), which drops the fraction of a second: toward 0, on both sides of it.
Whole(us) == IF us >= 0 THEN us \div Second ELSE -((-us) \div Second)

\* The three divmods, which round down as \div and % do, below 0 as well.
Parts(seconds) ==
  LET ofDay == seconds % Day IN
  LET ofHour == ofDay % Hour IN
  [d |-> seconds \div Day, h |-> ofDay \div Hour,
   m |-> ofHour \div Minute, s |-> ofHour % Minute]

\* Units at 0 are left out, but for the seconds when nothing else is left.
Shown(parts) ==
  LET units == {u \in Unit : parts[u] # 0} IN IF units = {} THEN {"s"} ELSE units

format_duration(us) == [u \in Shown(Parts(Whole(us))) |-> Parts(Whole(us))[u]]

-----------------------------------------------------------------------------

\* What one divmod returns.
IsDivMod(x, k, q, r) ==
  q \in Int /\ r \in Int /\ 0 <= r /\ r < k /\ x = k * q + r

LEMMA DivMod ==
  ASSUME NEW x \in Int, NEW k \in Nat \ {0}
  PROVE  IsDivMod(x, k, x \div k, x % k)
BY DEF IsDivMod

\* The days, hours, minutes and seconds of x add up to x, each in its range.
AreParts(x, d, h, m, s) ==
  /\ Parts(x) = [d |-> d, h |-> h, m |-> m, s |-> s]
  /\ x = 86400 * d + 3600 * h + 60 * m + s
  /\ 0 <= h /\ h <= 23 /\ 0 <= m /\ m <= 59 /\ 0 <= s /\ s <= 59

LEMMA PartsAddUp ==
  ASSUME NEW x \in Int
  PROVE  \E d, h, m, s \in Int : AreParts(x, d, h, m, s)
<1>1. 86400 \in Nat \ {0} /\ 3600 \in Nat \ {0} /\ 60 \in Nat \ {0}
  OBVIOUS
<1>2. PICK ofDay : ofDay = x % 86400
  OBVIOUS
<1>3. PICK ofHour : ofHour = ofDay % 3600
  OBVIOUS
<1>4. IsDivMod(x, 86400, x \div 86400, ofDay)
  BY <1>1, <1>2, DivMod
<1>5. ofDay \in Int
  BY <1>4 DEF IsDivMod
<1>6. IsDivMod(ofDay, 3600, ofDay \div 3600, ofHour)
  BY <1>1, <1>3, <1>5, DivMod
<1>7. ofHour \in Int
  BY <1>6 DEF IsDivMod
<1>8. IsDivMod(ofHour, 60, ofHour \div 60, ofHour % 60)
  BY <1>1, <1>7, DivMod
<1>9. Parts(x) = [d |-> x \div 86400, h |-> ofDay \div 3600,
                    m |-> ofHour \div 60, s |-> ofHour % 60]
  BY <1>2, <1>3 DEF Parts, Day, Hour, Minute
<1>10. PICK d, h, m, s \in Int :
         d = x \div 86400 /\ h = ofDay \div 3600 /\ m = ofHour \div 60 /\ s = ofHour % 60
  BY <1>4, <1>6, <1>8 DEF IsDivMod
<1>11. x = 86400 * d + ofDay /\ 0 <= ofDay /\ ofDay < 86400
  BY <1>4, <1>10 DEF IsDivMod
<1>12. ofDay = 3600 * h + ofHour /\ 0 <= ofHour /\ ofHour < 3600
  BY <1>6, <1>10 DEF IsDivMod
<1>13. ofHour = 60 * m + s /\ 0 <= s /\ s < 60
  BY <1>8, <1>10 DEF IsDivMod
<1>14. 0 <= h /\ h <= 23
  BY <1>5, <1>7, <1>11, <1>12
<1>15. 0 <= m /\ m <= 59
  BY <1>7, <1>12, <1>13
<1>16. x = 86400 * d + 3600 * h + 60 * m + s /\ s <= 59
  BY <1>5, <1>7, <1>11, <1>12, <1>13
<1>17. Parts(x) = [d |-> d, h |-> h, m |-> m, s |-> s]
  BY <1>9, <1>10
<1>18. AreParts(x, d, h, m, s)
  BY <1>13, <1>14, <1>15, <1>16, <1>17 DEF AreParts
<1> QED BY <1>18, Zenon

LEMMA WholeSeconds ==
  ASSUME NEW us \in Int
  PROVE  /\ Whole(us) \in Int
         /\ us >= 0 => 1000000 * Whole(us) <= us /\ us < 1000000 * Whole(us) + 1000000
         /\ us < 0 => us <= 1000000 * Whole(us) /\ 1000000 * Whole(us) - 1000000 < us
<1>1. 1000000 \in Nat \ {0} /\ -us \in Int
  BY SMT
<1>2. CASE us >= 0
  <2>1. IsDivMod(us, 1000000, us \div 1000000, us % 1000000)
    BY <1>1, DivMod, SMT
  <2>2. Whole(us) = us \div 1000000
    BY <1>2, SMT DEF Whole, Second
  <2>3. PICK q, r \in Int : q = us \div 1000000 /\ us = 1000000 * q + r /\ 0 <= r /\ r < 1000000
    BY <2>1, SMT DEF IsDivMod
  <2> QED BY <1>2, <2>2, <2>3, SMT
<1>3. CASE us < 0
  <2>1. PICK n \in Int : n = -us
    BY <1>1, SMT
  <2>2. IsDivMod(n, 1000000, n \div 1000000, n % 1000000)
    BY <1>1, DivMod, SMT
  <2>3. Whole(us) = -(n \div 1000000)
    BY <1>3, <2>1, SMT DEF Whole, Second
  <2>4. PICK q, r \in Int : q = n \div 1000000 /\ n = 1000000 * q + r /\ 0 <= r /\ r < 1000000
    BY <2>2, SMT DEF IsDivMod
  <2> QED BY <1>3, <2>1, <2>3, <2>4, SMT
<1> QED BY <1>2, <1>3, SMT

LEMMA WholeInt ==
  ASSUME NEW us \in Int
  PROVE  Whole(us) \in Int
BY WholeSeconds, SMT

\* The number a text gives a unit, 0 if it leaves the unit out.
Read(text, u) == IF u \in DOMAIN text THEN text[u] ELSE 0

LEMMA ReadBack ==
  ASSUME NEW us \in Int, NEW u \in Unit
  PROVE  Read(format_duration(us), u) = Parts(Whole(us))[u]
<1>1. u \notin Shown(Parts(Whole(us))) => Parts(Whole(us))[u] = 0
  BY DEF Shown
<1> QED BY <1>1 DEF Read, format_duration

\* Although units are left out of a text, it tells the whole seconds of its
\* duration.  Durations of one text are less than a second apart, but around
\* 0, where a negative and a positive one may be almost two seconds apart.
THEOREM TextTellsDuration ==
  ASSUME NEW x \in Int, NEW y \in Int, format_duration(x) = format_duration(y)
  PROVE  /\ Whole(x) = Whole(y)
         /\ (x >= 0 <=> y >= 0) => x - y < Second
         /\ x - y < 2 * Second
<1>1. \A u \in Unit : Parts(Whole(x))[u] = Parts(Whole(y))[u]
  BY ReadBack
<1>2. /\ Parts(Whole(x)).d = Parts(Whole(y)).d /\ Parts(Whole(x)).h = Parts(Whole(y)).h
      /\ Parts(Whole(x)).m = Parts(Whole(y)).m /\ Parts(Whole(x)).s = Parts(Whole(y)).s
  BY <1>1 DEF Unit
<1>3. PICK d, h, m, s \in Int : AreParts(Whole(x), d, h, m, s)
  BY WholeInt, PartsAddUp, Zenon
<1>4. PICK e, i, n, t \in Int : AreParts(Whole(y), e, i, n, t)
  BY WholeInt, PartsAddUp, Zenon
<1>5. d = e /\ h = i /\ m = n /\ s = t
  BY <1>2, <1>3, <1>4 DEF AreParts
<1>6. Whole(x) = Whole(y)
  BY <1>3, <1>4, <1>5 DEF AreParts
<1> QED BY <1>6, WholeSeconds, SMT DEF Second

\* A text has at least one unit, and is "0s" exactly for what is less than a
\* second, before or after 0.
THEOREM TextNotEmpty ==
  ASSUME NEW us \in Int
  PROVE  /\ DOMAIN format_duration(us) # {}
         /\ format_duration(us) = [u \in {"s"} |-> 0] <=> (-Second < us /\ us < Second)
<1>1. DOMAIN format_duration(us) # {}
  BY DEF format_duration, Shown
<1>2. ASSUME NEW x \in Int, Whole(x) = 0
      PROVE  format_duration(x) = [u \in {"s"} |-> 0]
  <2>1. \A u \in Unit : Parts(0)[u] = 0
    BY DEF Parts, Unit, Day, Hour, Minute
  <2>2. Shown(Parts(0)) = {"s"}
    BY <2>1 DEF Shown
  <2> QED BY <1>2, <2>1, <2>2 DEF format_duration, Unit
<1>3. 0 \in Int /\ Whole(0) = 0
  BY WholeSeconds, SMT
<1>4. format_duration(us) = [u \in {"s"} |-> 0] <=> Whole(us) = 0
  BY <1>2, <1>3, TextTellsDuration, SMT
<1>5. Whole(us) = 0 <=> (-Second < us /\ us < Second)
  BY WholeSeconds, SMT DEF Second
<1> QED BY <1>1, <1>4, <1>5, SMT

\* After the wall clock was set back, the time since a change or a heartbeat
\* is negative, and the text mixes signs: from a whole second on its days are
\* below 0 and nothing else is, so that -10 s reads "-1d 23h 59m 50s"; less
\* than a second reads "0s".
THEOREM SetBackShowsDays ==
  ASSUME NEW us \in Int
  PROVE  /\ us <= -Second <=> Read(format_duration(us), "d") < 0
         /\ \A u \in {"h", "m", "s"} : Read(format_duration(us), u) >= 0
<1>1. \A u \in Unit : Read(format_duration(us), u) = Parts(Whole(us))[u]
  BY ReadBack
<1>2. PICK d, h, m, s \in Int : AreParts(Whole(us), d, h, m, s)
  BY WholeInt, PartsAddUp, Zenon
<1>3. (Whole(us) < 0 <=> d < 0) /\ 0 <= h /\ 0 <= m /\ 0 <= s
  BY <1>2 DEF AreParts
<1>4. /\ Parts(Whole(us)).d = d /\ Parts(Whole(us)).h = h
      /\ Parts(Whole(us)).m = m /\ Parts(Whole(us)).s = s
  BY <1>2 DEF AreParts
<1>5. /\ Read(format_duration(us), "d") = d
      /\ Read(format_duration(us), "h") = h
      /\ Read(format_duration(us), "m") = m
      /\ Read(format_duration(us), "s") = s
  BY <1>1, <1>4 DEF Unit
<1>6. us <= -Second <=> Whole(us) < 0
  BY WholeSeconds, SMT DEF Second
<1> QED BY <1>3, <1>5, <1>6, SMT
=============================================================================
