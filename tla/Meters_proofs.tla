---------------------------- MODULE Meters_proofs ----------------------------
(***************************************************************************)
(* Proofs about what the server measures by the wall clock: the token      *)
(* bucket of a key grants exactly what the sliding window grants, and the  *)
(* rolling stroke rate is the count of the events of its window, for every *)
(* configuration of the buckets, length of the window and resolution of    *)
(* the clock.                                                              *)
(***************************************************************************)
EXTENDS Meters, Folds, FiniteSetTheorems, FunctionTheorems, SequenceTheorems,
        WellFoundedInduction, TLAPS

-----------------------------------------------------------------------------
(* The token bucket against the sliding window *)

\* What the interval since an event at time g leaves at time t, with some events in it.
Left(full, r, t, g, events, T) == full + r * (t - g) - events * T

\* Tokens that are those of the tightest interval since the events at times g, or full.
Tight(full, r, t, g, tokens, T) ==
  /\ \A i \in 1..Len(g) : tokens <= Left(full, r, t, g[i], Len(g) + 1 - i, T)
  /\ \/ tokens = full
     \/ \E i \in 1..Len(g) : tokens = Left(full, r, t, g[i], Len(g) + 1 - i, T)

\* Every interval that ends with one more event has room for it.
Room(full, r, t, g, T) ==
  \A i \in 1..Len(g) : Left(full, r, t, g[i], Len(g) + 2 - i, T) >= 0

\* Time passes for an interval as it does for a bucket.
LEMMA LeftRefilled ==
  ASSUME NEW full \in Nat, NEW r \in Nat, NEW t \in Nat, NEW now \in Nat, NEW g \in Nat,
         NEW events \in Nat, NEW T \in Nat
  PROVE  /\ Left(full, r, t, g, events, T) \in Int
         /\ Left(full, r, now, g, events, T) = Left(full, r, t, g, events, T) + (now - t) * r
<1>1. r * (now - g) = r * (t - g) + (now - t) * r
  OBVIOUS
<1>2. r * (t - g) \in Int /\ events * T \in Int /\ (now - t) * r \in Int
  OBVIOUS
<1> QED BY <1>1, <1>2 DEF Left

\* One more event in an interval takes a token of it.
LEMMA LeftTaken ==
  ASSUME NEW full \in Nat, NEW r \in Nat, NEW t \in Nat, NEW g \in Nat,
         NEW events \in Nat, NEW more \in Nat, more = events + 1, NEW T \in Nat
  PROVE  Left(full, r, t, g, more, T) = Left(full, r, t, g, events, T) - T
<1>1. more * T = events * T + T
  OBVIOUS
<1>2. r * (t - g) \in Int /\ events * T \in Int
  OBVIOUS
<1> QED BY <1>1, <1>2 DEF Left

\* The interval that ends where it begins holds its event alone.
LEMMA LeftAlone ==
  ASSUME NEW full \in Nat, NEW r \in Nat, NEW t \in Nat, NEW T \in Nat
  PROVE  Left(full, r, t, t, 1, T) = full - T
<1>1. r * (t - t) = 0 /\ 1 * T = T
  OBVIOUS
<1> QED BY <1>1 DEF Left

\* A refill keeps a bucket at the tightest interval, or fills it; it then has a token for
\* one event exactly if every interval that ends with the event has room for it.
LEMMA RefillIsWindow ==
  ASSUME NEW full \in Nat, NEW r \in Nat, NEW T \in Nat \ {0}, T <= full,
         NEW t \in Nat, NEW now \in Nat, t <= now, NEW g \in Seq(Nat), NEW tokens \in Nat,
         Tight(full, r, t, g, tokens, T),
         NEW level,
         level = IF tokens + (now - t) * r <= full THEN tokens + (now - t) * r ELSE full
  PROVE  /\ level \in Nat /\ level <= full
         /\ Tight(full, r, now, g, level, T)
         /\ level >= T <=> Room(full, r, now, g, T)
<1> DEFINE Old(i) == Left(full, r, t, g[i], Len(g) + 1 - i, T)
           New(i) == Left(full, r, now, g[i], Len(g) + 1 - i, T)
           More(i) == Left(full, r, now, g[i], Len(g) + 2 - i, T)
<1>0. T \in Nat
  OBVIOUS
<1>1. PICK n \in Nat : n = Len(g)
  OBVIOUS
<1>2. PICK gain \in Nat : gain = (now - t) * r
  <2>1. PICK e \in Nat : e = now - t
    OBVIOUS
  <2>2. e * r \in Nat
    OBVIOUS
  <2> QED BY <2>1, <2>2
<1>3. \A i \in 1..n : Old(i) \in Int /\ New(i) = Old(i) + gain /\ More(i) = New(i) - T
  <2> TAKE i \in 1..n
  <2>1. g[i] \in Nat /\ n + 1 - i \in Nat
    BY <1>1
  <2>2. PICK x \in Nat, events \in Nat, more \in Nat :
               x = g[i] /\ events = n + 1 - i /\ more = events + 1
    BY <2>1
  <2>3. Len(g) + 1 - i = events /\ Len(g) + 2 - i = more
    BY <1>1, <2>2
  <2>4. /\ Left(full, r, t, x, events, T) \in Int
        /\ Left(full, r, now, x, events, T) = Left(full, r, t, x, events, T) + (now - t) * r
    BY <1>0, LeftRefilled DEF Left
  <2>5. Left(full, r, now, x, more, T) = Left(full, r, now, x, events, T) - T
    <3>1. more = events + 1
      BY <2>2
    <3> QED BY <1>0, <3>1, LeftTaken DEF Left
  <2> QED BY <1>2, <2>2, <2>3, <2>4, <2>5
<1>4. /\ \A i \in 1..n : tokens <= Old(i)
      /\ tokens = full \/ \E i \in 1..n : tokens = Old(i)
  BY <1>1 DEF Tight
<1>5. level = IF tokens + gain <= full THEN tokens + gain ELSE full
  BY <1>2
<1> HIDE DEF Old, New, More
<1>6. level \in Nat /\ level <= full
  BY <1>5
<1>7. \A i \in 1..n : level <= New(i)
  BY <1>3, <1>4, <1>5
<1>8. level = full \/ \E i \in 1..n : level = New(i)
  <2>1. CASE tokens = full
    BY <2>1, <1>5
  <2>2. ASSUME NEW i \in 1..n, tokens = Old(i) PROVE level = full \/ level = New(i)
    <3>1. New(i) = tokens + gain
      BY <2>2, <1>3
    <3> QED BY <3>1, <1>5
  <2> QED BY <2>1, <2>2, <1>4
<1>9. level >= T <=> \A i \in 1..n : More(i) >= 0
  <2>1. level >= T => \A i \in 1..n : More(i) >= 0
    BY <1>3, <1>6, <1>7
  <2>2. (\A i \in 1..n : More(i) >= 0) => level >= T
    BY <1>3, <1>6, <1>8
  <2> QED BY <2>1, <2>2
<1>10. Tight(full, r, now, g, level, T)
  BY <1>1, <1>7, <1>8 DEF New, Tight
<1>11. Room(full, r, now, g, T) <=> \A i \in 1..n : More(i) >= 0
  BY <1>1 DEF More, Room
<1> QED BY <1>6, <1>9, <1>10, <1>11

\* A granted event takes its token, and opens an interval of its own.
LEMMA GrantIsWindow ==
  ASSUME NEW full \in Nat, NEW r \in Nat, NEW T \in Nat \ {0},
         NEW t \in Nat, NEW g \in Seq(Nat), NEW level \in Nat, level <= full,
         Tight(full, r, t, g, level, T)
  PROVE  Append(g, t) \in Seq(Nat) /\ Tight(full, r, t, Append(g, t), level - T, T)
<1>1. PICK h : h = Append(g, t)
  OBVIOUS
<1> DEFINE Old(i) == Left(full, r, t, g[i], Len(g) + 1 - i, T)
           New(i) == Left(full, r, t, h[i], Len(h) + 1 - i, T)
<1>2. PICK n \in Nat : n = Len(g)
  OBVIOUS
<1>3. /\ h \in Seq(Nat) /\ Len(h) = n + 1 /\ h[n + 1] = t
      /\ \A i \in 1..n : h[i] = g[i] /\ g[i] \in Nat
  BY <1>1, <1>2, AppendProperties
<1>4. \A i \in 1..n : Old(i) \in Int /\ New(i) = Old(i) - T
  <2> TAKE i \in 1..n
  <2>1. g[i] \in Nat /\ n + 1 - i \in Nat
    BY <1>3
  <2>2. PICK x \in Nat, events \in Nat, more \in Nat :
               x = g[i] /\ events = n + 1 - i /\ more = events + 1
    BY <2>1
  <2>3. Len(g) + 1 - i = events /\ Len(h) + 1 - i = more /\ h[i] = x
    BY <1>2, <1>3, <2>2
  <2>4. /\ Left(full, r, t, x, events, T) \in Int
        /\ Left(full, r, t, x, more, T) = Left(full, r, t, x, events, T) - T
    <3>1. T \in Nat
      OBVIOUS
    <3> QED BY <2>2, <3>1, LeftRefilled, LeftTaken DEF Left
  <2> QED BY <2>2, <2>3, <2>4
<1>5. New(n + 1) = full - T
  <2>1. h[n + 1] = t /\ Len(h) + 1 - (n + 1) = 1
    BY <1>3
  <2> QED BY <2>1, LeftAlone
<1>6. /\ \A i \in 1..n : level <= Old(i)
      /\ level = full \/ \E i \in 1..n : level = Old(i)
  BY <1>2 DEF Tight
<1> HIDE DEF Old, New
<1>7. \A i \in 1..n + 1 : level - T <= New(i)
  <2> TAKE i \in 1..n + 1
  <2>1. CASE i = n + 1
    BY <2>1, <1>5
  <2>2. CASE i \in 1..n
    BY <2>2, <1>4, <1>6
  <2> QED BY <2>1, <2>2
<1>8. \E i \in 1..n + 1 : level - T = New(i)
  <2>1. CASE level = full
    BY <2>1, <1>5
  <2>2. CASE \E i \in 1..n : level = Old(i)
    BY <2>2, <1>4
  <2> QED BY <2>1, <2>2, <1>6
<1>9. Tight(full, r, t, h, level - T, T)
  BY <1>3, <1>7, <1>8 DEF New, Tight
<1> QED BY <1>1, <1>3, <1>9

\* What is left of an interval, as the reference and the invariant count it.
LEMMA ConfigTypes ==
  ASSUME NEW k \in Keys
  PROVE  /\ ConfigOf[k].capacity \in Nat \ {0} /\ ConfigOf[k].refillPerSec \in Nat \ {0}
         /\ ConfigOf[k].capacity * TicksPerSec \in Nat
         /\ TicksPerSec <= ConfigOf[k].capacity * TicksPerSec
<1>1. ConfigOf[k] \in Config
  BY MetersAssumption
<1>2. PICK c \in Nat \ {0} : c = ConfigOf[k].capacity
  BY <1>1 DEF Config
<1>3. c * TicksPerSec \in Nat /\ TicksPerSec <= c * TicksPerSec
  <2>1. (c - 1) * TicksPerSec >= 0 /\ c * TicksPerSec = (c - 1) * TicksPerSec + TicksPerSec
    BY <1>2, TicksAssumption
  <2> QED BY <2>1, TicksAssumption
<1> QED BY <1>1, <1>2, <1>3 DEF Config

\* The reference, in these terms: the interval of the event alone always has room.
LEMMA WindowsAllowRoom ==
  ASSUME NEW k \in Keys, NEW now \in Nat, granted[k] \in Seq(Nat)
  PROVE  WindowsAllow(k, now) <=>
           Room(ConfigOf[k].capacity * TicksPerSec, ConfigOf[k].refillPerSec, now, granted[k],
                TicksPerSec)
<1>1. PICK full, r, T, g : /\ full = ConfigOf[k].capacity * TicksPerSec
                           /\ r = ConfigOf[k].refillPerSec
                           /\ T = TicksPerSec /\ g = granted[k]
  OBVIOUS
<1>2. /\ full \in Nat /\ r \in Nat /\ T \in Nat \ {0} /\ T <= full /\ g \in Seq(Nat)
  BY <1>1, ConfigTypes, TicksAssumption
<1>3. PICK n \in Nat : n = Len(g)
  BY <1>2
<1> DEFINE Since(i) == IF i > n THEN now ELSE g[i]
           Fits(i) == (n + 2 - i) * T <= full + r * (now - Since(i))
<1>4. WindowsAllow(k, now) <=> \A i \in 1..n + 1 : Fits(i)
  <2>1. WindowsAllow(k, now) <=>
          \A i \in 1..Len(granted[k]) + 1 :
             (Len(granted[k]) + 2 - i) * TicksPerSec
               <= ConfigOf[k].capacity * TicksPerSec
                    + ConfigOf[k].refillPerSec
                      * (now - (IF i > Len(granted[k]) THEN now ELSE granted[k][i]))
    BY Zenon DEF WindowsAllow
  <2> QED BY <2>1, <1>1, <1>3, Zenon
<1>5. Fits(n + 1)
  <2>1. n + 2 - (n + 1) = 1 /\ Since(n + 1) = now
    BY <1>3
  <2>2. 1 * T = T /\ r * (now - now) = 0
    BY <1>2
  <2> QED BY <2>1, <2>2, <1>2
<1>6. \A i \in 1..n : Fits(i) <=> Left(full, r, now, g[i], n + 2 - i, T) >= 0
  <2> TAKE i \in 1..n
  <2>1. g[i] \in Nat /\ n + 2 - i \in Nat /\ ~(i > n) /\ Since(i) = g[i]
    BY <1>2, <1>3
  <2>2. (n + 2 - i) * T \in Int /\ r * (now - g[i]) \in Int
    BY <2>1, <1>2
  <2>3. PICK x \in Int, y \in Int : x = (n + 2 - i) * T /\ y = r * (now - g[i])
    BY <2>2
  <2>4. Fits(i) <=> x <= full + y
    BY <2>1, <2>3
  <2>5. Left(full, r, now, g[i], n + 2 - i, T) = full + y - x
    BY <2>3, Zenon DEF Left
  <2> QED BY <2>4, <2>5, <1>2
<1> HIDE DEF Fits
<1>7. (\A i \in 1..n + 1 : Fits(i)) <=> \A i \in 1..n : Fits(i)
  BY <1>5
<1>8. Room(full, r, now, g, T) <=> \A i \in 1..n : Left(full, r, now, g[i], n + 2 - i, T) >= 0
  BY <1>3 DEF Room
<1> QED BY <1>1, <1>4, <1>6, <1>7, <1>8

\* The bucket of a key, in these terms.
BucketTight(k) ==
  /\ k \notin DOMAIN buckets => granted[k] = <<>>
  /\ k \in DOMAIN buckets =>
       /\ buckets[k].lastRefill = seen[k]
       /\ Tight(ConfigOf[k].capacity * TicksPerSec, ConfigOf[k].refillPerSec, travel[k],
                granted[k], buckets[k].tokens, TicksPerSec)

\* The invariant says so of every key, before and after a step.
LEMMA WindowIsTight ==
  /\ BucketIsWindow <=> \A k \in Keys : BucketTight(k)
  /\ BucketIsWindow' <=> \A k \in Keys : BucketTight(k)'
BY Zenon DEF BucketIsWindow, BucketTight, Tight, Level, Left

\* A call for a key, granted or refused, is answered as the window answers it, and keeps
\* the bucket of the key at its tightest interval.
LEMMA TryConsumeIsWindow ==
  ASSUME MTypeOK, BucketIsWindow, NEW k \in Keys, TryConsume(k)
  PROVE  /\ LimitExact' /\ BucketIsWindow'
         /\ DOMAIN buckets' \subseteq Keys
         /\ \A j \in DOMAIN buckets' :
              /\ buckets'[j].tokens \in 0..ConfigOf[j].capacity * TicksPerSec
              /\ buckets'[j].lastRefill \in 0..MaxClock
         /\ seen' \in [Keys -> 0..MaxClock] /\ travel' \in [Keys -> Nat]
         /\ granted' \in [Keys -> Seq(Nat)] /\ exact' \in BOOLEAN
<1>1. PICK full, r, T, t, g, b :
        /\ full = ConfigOf[k].capacity * TicksPerSec /\ r = ConfigOf[k].refillPerSec
        /\ T = TicksPerSec /\ t = travel[k] /\ g = granted[k] /\ b = BucketFor(k)
  OBVIOUS
<1>2. /\ full \in Nat /\ r \in Nat /\ T \in Nat \ {0} /\ T <= full
      /\ t \in Nat /\ g \in Seq(Nat) /\ clock \in 0..MaxClock /\ MaxClock \in Nat
  BY <1>1, ConfigTypes, TicksAssumption, MetersAssumption DEF MTypeOK
<1>3. /\ b.tokens \in Nat /\ b.lastRefill \in Nat
      /\ k \in DOMAIN buckets => b.lastRefill = seen[k]
      /\ k \notin DOMAIN buckets => b.lastRefill = clock
      /\ Tight(full, r, t, g, b.tokens, T)
  <2>1. CASE k \in DOMAIN buckets
    <3>1. b = buckets[k]
      BY <1>1, <2>1 DEF BucketFor
    <3>2. b.tokens \in 0..full /\ b.lastRefill \in 0..MaxClock
      BY <1>1, <2>1, <3>1 DEF MTypeOK
    <3>3. BucketTight(k)
      BY WindowIsTight
    <3>4. b.lastRefill = seen[k] /\ Tight(full, r, t, g, b.tokens, T)
      BY <1>1, <2>1, <3>1, <3>3, Zenon DEF BucketTight
    <3> QED BY <1>2, <2>1, <3>2, <3>4
  <2>2. CASE k \notin DOMAIN buckets
    <3>1. b = [tokens |-> full, lastRefill |-> clock]
      BY <1>1, <2>2 DEF BucketFor, CreateBucket
    <3>2. g = <<>> /\ Len(g) = 0
      BY <1>1, <2>2, WindowIsTight DEF BucketTight
    <3>3. Tight(full, r, t, g, full, T)
      BY <3>2 DEF Tight
    <3> QED BY <1>2, <2>2, <3>1, <3>3
  <2> QED BY <2>1, <2>2
<1>4. PICK e \in Nat : /\ e = Elapsed(b, clock)
                       /\ e = IF k \in DOMAIN buckets /\ clock > seen[k] THEN clock - seen[k] ELSE 0
  <2>1. /\ Elapsed(b, clock) \in Nat
        /\ Elapsed(b, clock) = IF clock > b.lastRefill THEN clock - b.lastRefill ELSE 0
    BY <1>2, <1>3 DEF Elapsed
  <2> QED BY <1>2, <1>3, <2>1
<1>5. PICK now \in Nat : now = t + e /\ t <= now /\ now - t = e
  BY <1>2
<1>6. PICK level : level = IF b.tokens + e * r <= full THEN b.tokens + e * r ELSE full
  OBVIOUS
<1>7. /\ level \in Nat /\ level <= full
      /\ Tight(full, r, now, g, level, T)
      /\ level >= T <=> Room(full, r, now, g, T)
  <2>1. PICK tokens \in Nat : tokens = b.tokens
    BY <1>3
  <2>2. Tight(full, r, t, g, tokens, T)
    BY <1>3, <2>1
  <2>3. level = IF tokens + (now - t) * r <= full THEN tokens + (now - t) * r ELSE full
    BY <1>5, <1>6, <2>1
  <2>4. /\ full \in Nat /\ r \in Nat /\ T \in Nat \ {0} /\ T <= full /\ t \in Nat
        /\ now \in Nat /\ t <= now /\ g \in Seq(Nat) /\ tokens \in Nat
    BY <1>2, <1>5
  <2> QED BY <2>2, <2>3, <2>4, RefillIsWindow
<1>8. /\ Refill(ConfigOf[k], b, clock) = [tokens |-> level, lastRefill |-> clock]
      /\ Granted(ConfigOf[k], b, clock) <=> level >= T
      /\ Consume(ConfigOf[k], b, clock) =
           [tokens |-> IF level >= T THEN level - T ELSE level, lastRefill |-> clock]
  <2>1. Refill(ConfigOf[k], b, clock) = [tokens |-> level, lastRefill |-> clock]
    BY <1>1, <1>4, <1>6 DEF Refill, Capped
  <2>2. Granted(ConfigOf[k], b, clock) <=> level >= T
    BY <1>1, <2>1 DEF Granted
  <2> QED BY <1>1, <2>1, <2>2 DEF Consume
<1>9. PICK ok : ok = Granted(ConfigOf[k], b, clock)
  OBVIOUS
<1>10. (ok <=> level >= T) /\ ok \in BOOLEAN
  <2>1. ok \in BOOLEAN
    BY <1>9 DEF Granted
  <2> QED BY <1>8, <1>9, <2>1
<1>11. travel' = [travel EXCEPT ![k] = @ + e] /\ seen' = [seen EXCEPT ![k] = clock]
  BY <1>4 DEF TryConsume
<1>12. /\ travel' \in [Keys -> Nat] /\ travel'[k] = now
       /\ \A j \in Keys \ {k} : travel'[j] = travel[j]
  BY <1>1, <1>2, <1>5, <1>11 DEF MTypeOK
<1>13. /\ buckets' = [j \in DOMAIN buckets \union {k} |->
                        IF j = k THEN Consume(ConfigOf[k], b, clock) ELSE buckets[j]]
       /\ granted' = IF ok THEN [granted EXCEPT ![k] = Append(@, now)] ELSE granted
       /\ exact' = (ok <=> WindowsAllow(k, now))
  BY <1>1, <1>9, <1>12, Zenon DEF TryConsume
<1>14. WindowsAllow(k, now) <=> Room(full, r, now, g, T)
  BY <1>1, <1>2, WindowsAllowRoom
<1>15. LimitExact' /\ exact' \in BOOLEAN
  BY <1>7, <1>10, <1>13, <1>14 DEF LimitExact
<1>16. PICK h : h = IF ok THEN Append(g, now) ELSE g
  OBVIOUS
<1>17. PICK tokens : tokens = IF ok THEN level - T ELSE level
  OBVIOUS
<1>18. h \in Seq(Nat) /\ tokens \in Nat /\ tokens <= full /\ Tight(full, r, now, h, tokens, T)
  <2>1. CASE ok
    <3>1. h = Append(g, now) /\ tokens = level - T
      BY <2>1, <1>16, <1>17
    <3>2. tokens \in Nat /\ tokens <= full
      BY <2>1, <3>1, <1>2, <1>7, <1>10
    <3>3. Append(g, now) \in Seq(Nat) /\ Tight(full, r, now, Append(g, now), level - T, T)
      BY <1>2, <1>7, GrantIsWindow
    <3> QED BY <3>1, <3>2, <3>3
  <2>2. CASE ~ok
    BY <2>2, <1>2, <1>7, <1>16, <1>17
  <2> QED BY <2>1, <2>2
<1>19. /\ granted' \in [Keys -> Seq(Nat)] /\ granted'[k] = h
       /\ \A j \in Keys \ {k} : granted'[j] = granted[j]
  <2>1. granted \in [Keys -> Seq(Nat)]
    BY DEF MTypeOK
  <2>2. CASE ok
    BY <2>1, <2>2, <1>1, <1>13, <1>16, <1>18
  <2>3. CASE ~ok
    BY <2>1, <2>3, <1>1, <1>13, <1>16, <1>18
  <2> QED BY <2>2, <2>3
<1>20. /\ DOMAIN buckets' = DOMAIN buckets \union {k}
       /\ buckets'[k].tokens = tokens /\ buckets'[k].lastRefill = clock
       /\ \A j \in DOMAIN buckets \ {k} : buckets'[j] = buckets[j]
  <2>1. buckets'[k] = [tokens |-> IF level >= T THEN level - T ELSE level, lastRefill |-> clock]
    BY <1>8, <1>13
  <2> QED BY <2>1, <1>10, <1>13, <1>17
<1>21. /\ seen' \in [Keys -> 0..MaxClock] /\ seen'[k] = clock
       /\ \A j \in Keys \ {k} : seen'[j] = seen[j]
  BY <1>2, <1>11 DEF MTypeOK
<1>22. /\ DOMAIN buckets' \subseteq Keys
       /\ \A j \in DOMAIN buckets' :
            /\ buckets'[j].tokens \in 0..ConfigOf[j].capacity * TicksPerSec
            /\ buckets'[j].lastRefill \in 0..MaxClock
  <2>1. DOMAIN buckets' \subseteq Keys
    BY <1>20 DEF MTypeOK
  <2>2. ASSUME NEW j \in DOMAIN buckets'
        PROVE  /\ buckets'[j].tokens \in 0..ConfigOf[j].capacity * TicksPerSec
               /\ buckets'[j].lastRefill \in 0..MaxClock
    <3>1. CASE j = k
      <4>1. tokens \in 0..full
        BY <1>2, <1>18
      <4> QED BY <3>1, <4>1, <1>1, <1>2, <1>20
    <3>2. CASE j # k
      BY <3>2, <1>20 DEF MTypeOK
    <3> QED BY <3>1, <3>2
  <2> QED BY <2>1, <2>2
<1>23. BucketIsWindow'
  <2>1. ASSUME NEW j \in Keys, j # k PROVE BucketTight(j)'
    <3>1. BucketTight(j)
      BY WindowIsTight
    <3>2. /\ granted'[j] = granted[j] /\ travel'[j] = travel[j] /\ seen'[j] = seen[j]
          /\ (j \in DOMAIN buckets' <=> j \in DOMAIN buckets)
          /\ j \in DOMAIN buckets => buckets'[j] = buckets[j]
      BY <2>1, <1>12, <1>19, <1>20, <1>21
    <3> QED BY <3>1, <3>2, Zenon DEF BucketTight
  <2>2. BucketTight(k)'
    <3>1. /\ buckets'[k].tokens = tokens /\ buckets'[k].lastRefill = seen'[k]
          /\ k \in DOMAIN buckets' /\ granted'[k] = h /\ travel'[k] = now
      BY <1>12, <1>19, <1>20, <1>21
    <3> QED BY <1>1, <1>18, <3>1, Zenon DEF BucketTight
  <2> QED BY <2>1, <2>2, WindowIsTight
<1> QED BY <1>12, <1>15, <1>19, <1>21, <1>22, <1>23

-----------------------------------------------------------------------------
(* The clock and the slots *)

\* Seconds follow the clock: a quotient grows with its numerator, and the slots are the
\* remainders.
LEMMA QuotientOrder ==
  ASSUME NEW x \in Nat, NEW y \in Nat, x <= y, NEW n \in Nat \ {0}
  PROVE  x \div n \in Nat /\ x \div n <= y \div n
<1>1. /\ x \div n \in Int /\ n * (x \div n) <= x /\ x < n * (x \div n) + n
      /\ y \div n \in Int /\ n * (y \div n) <= y /\ y < n * (y \div n) + n
  BY Z3
<1>2. PICK a \in Int, b \in Int : a = x \div n /\ b = y \div n
  BY <1>1
<1>3. n * a < n * (b + 1) /\ 0 < n * (a + 1)
  <2>1. n * (b + 1) = n * b + n /\ n * (a + 1) = n * a + n /\ n * a \in Int /\ n * b \in Int
    BY <1>2
  <2>2. n * a <= x /\ x < n * a + n /\ y < n * b + n
    BY <1>1, <1>2
  <2> QED BY <2>1, <2>2
<1>4. \A c \in Int, d \in Int : n * c < n * d => c < d
  <2> SUFFICES ASSUME NEW c \in Int, NEW d \in Int, d <= c PROVE n * d <= n * c
    BY Z3
  <2>1. PICK e \in Nat : c = d + e
    <3>1. c - d \in Nat /\ c = d + (c - d)
      OBVIOUS
    <3> QED BY <3>1
  <2>2. n * c = n * d + n * e /\ n * e \in Nat /\ n * d \in Int
    BY <2>1
  <2> QED BY <2>2
<1>5. a < b + 1 /\ 0 < a + 1
  <2>1. n * 0 = 0
    OBVIOUS
  <2> QED BY <1>2, <1>3, <1>4, <2>1
<1> QED BY <1>2, <1>5

\* The second of the clock is one of the seconds the model counts, and has a slot.
LEMMA SecondHasSlot ==
  ASSUME NEW c \in 0..MaxClock
  PROVE  /\ c \div TicksPerSec \in Seconds
         /\ Seconds \subseteq Nat
         /\ \A s \in Nat : s % WindowSeconds \in 0..WindowSeconds - 1
<1>1. c \in Nat /\ MaxClock \in Nat /\ c <= MaxClock /\ TicksPerSec \in Nat \ {0}
  BY MetersAssumption, TicksAssumption
<1>2. c \div TicksPerSec \in Nat /\ c \div TicksPerSec <= MaxClock \div TicksPerSec
  BY <1>1, QuotientOrder
<1>3. MaxClock \div TicksPerSec \in Nat
  BY <1>1, QuotientOrder
<1>4. WindowSeconds \in Nat \ {0}
  BY MetersAssumption
<1>5. ASSUME NEW s \in Nat PROVE s % WindowSeconds \in 0..WindowSeconds - 1
  BY <1>4
<1> QED BY <1>2, <1>3, <1>5 DEF Seconds

-----------------------------------------------------------------------------
(* Types and buckets, step by step *)

\* The types and the buckets, which the rate has no part in.
BucketInv == MTypeOK /\ BucketIsWindow /\ LimitExact

LEMMA MInitBuckets == MInit => BucketInv
<1> SUFFICES ASSUME MInit PROVE BucketInv
  OBVIOUS
<1>1. MTypeOK
  <2>1. MaxClock \in Nat /\ WindowSeconds \in Nat \ {0} /\ MaxBack \in Nat
    BY MetersAssumption
  <2>2. DOMAIN buckets = {}
    BY Zenon DEF MInit
  <2>3. ring \in [0..WindowSeconds - 1 -> [second : Seconds \union {-1}, count : Nat]]
    BY DEF MInit
  <2>4. /\ seen \in [Keys -> 0..MaxClock] /\ travel \in [Keys -> Nat]
        /\ granted \in [Keys -> Seq(Nat)] /\ recorded \in [Seconds -> Nat]
    BY <2>1 DEF MInit
  <2> QED BY <2>1, <2>2, <2>3, <2>4 DEF MInit, MTypeOK
<1>2. BucketIsWindow
  BY Zenon DEF MInit, BucketIsWindow
<1>3. LimitExact
  BY DEF MInit, LimitExact
<1> QED BY <1>1, <1>2, <1>3 DEF BucketInv

\* A step that leaves the limiter alone keeps what is said of it.
LEMMA BucketsUnchanged ==
  ASSUME BucketIsWindow, LimitExact, UNCHANGED limiterVars
  PROVE  BucketIsWindow' /\ LimitExact'
<1>1. /\ buckets' = buckets /\ seen' = seen /\ travel' = travel /\ granted' = granted
      /\ exact' = exact
  BY DEF limiterVars
<1>2. BucketIsWindow'
  BY <1>1, Zenon DEF BucketIsWindow, Level
<1>3. LimitExact'
  BY <1>1 DEF LimitExact
<1> QED BY <1>2, <1>3

LEMMA RecordKeepsBuckets ==
  ASSUME BucketInv, Record
  PROVE  BucketInv'
<1>1. MTypeOK'
  <2>1. /\ EpochSecond \in Seconds /\ EpochSecond % WindowSeconds \in 0..WindowSeconds - 1
    BY SecondHasSlot DEF BucketInv, MTypeOK, EpochSecond
  <2>2. PICK slot : slot = EpochSecond % WindowSeconds
    OBVIOUS
  <2>3. /\ Reused(ring[slot]).second \in Seconds \union {-1}
        /\ Reused(ring[slot]) \in [second : Seconds \union {-1}, count : Nat]
    BY <2>1, <2>2 DEF BucketInv, MTypeOK, Reused
  <2>4. PICK new : new = Counted(ring[slot])
    OBVIOUS
  <2>5. new \in [second : Seconds \union {-1}, count : Nat]
    BY <2>3, <2>4 DEF Counted
  <2>6. ring' = [ring EXCEPT ![slot] = new]
    BY <2>2, <2>4 DEF Record
  <2>7. ring' \in [0..WindowSeconds - 1 -> [second : Seconds \union {-1}, count : Nat]]
    BY <2>1, <2>2, <2>5, <2>6 DEF BucketInv, MTypeOK
  <2>8. recorded' \in [Seconds -> Nat]
    BY <2>1 DEF Record, BucketInv, MTypeOK
  <2> QED BY <2>7, <2>8 DEF BucketInv, MTypeOK, Record, limiterVars
<1>2. BucketIsWindow' /\ LimitExact'
  BY BucketsUnchanged DEF Record, BucketInv
<1> QED BY <1>1, <1>2 DEF BucketInv

LEMMA MNextKeepsBuckets ==
  ASSUME BucketInv, [MNext]_mvars
  PROVE  BucketInv'
<1>1. ASSUME Advance PROVE BucketInv'
  <2>1. clock' \in 0..MaxClock
    BY <1>1, MetersAssumption DEF Advance, BucketInv, MTypeOK
  <2>2. MTypeOK'
    BY <1>1, <2>1 DEF Advance, BucketInv, MTypeOK, limiterVars, rateVars
  <2> QED BY <1>1, <2>2, BucketsUnchanged DEF Advance, BucketInv
<1>2. ASSUME SetBack PROVE BucketInv'
  <2>1. clock' \in 0..MaxClock /\ backs' \in 0..MaxBack
    BY <1>2, MetersAssumption DEF SetBack, BucketInv, MTypeOK
  <2>2. MTypeOK'
    BY <1>2, <2>1 DEF SetBack, BucketInv, MTypeOK, limiterVars, rateVars
  <2> QED BY <1>2, <2>2, BucketsUnchanged DEF SetBack, BucketInv
<1>3. ASSUME NEW k \in Keys, TryConsume(k) PROVE BucketInv'
  <2>1. /\ LimitExact' /\ BucketIsWindow'
        /\ DOMAIN buckets' \subseteq Keys
        /\ \A j \in DOMAIN buckets' :
             /\ buckets'[j].tokens \in 0..ConfigOf[j].capacity * TicksPerSec
             /\ buckets'[j].lastRefill \in 0..MaxClock
        /\ seen' \in [Keys -> 0..MaxClock] /\ travel' \in [Keys -> Nat]
        /\ granted' \in [Keys -> Seq(Nat)] /\ exact' \in BOOLEAN
    BY <1>3, TryConsumeIsWindow DEF BucketInv
  <2>2. clock' = clock /\ backs' = backs /\ ring' = ring /\ recorded' = recorded
    BY <1>3 DEF TryConsume, rateVars
  <2>3. MTypeOK'
    BY <2>1, <2>2, Zenon DEF BucketInv, MTypeOK, Seconds
  <2> QED BY <2>1, <2>3 DEF BucketInv
<1>4. ASSUME Record PROVE BucketInv'
  BY <1>4, RecordKeepsBuckets
<1>5. ASSUME UNCHANGED mvars PROVE BucketInv'
  <2>1. MTypeOK'
    BY <1>5 DEF mvars, BucketInv, MTypeOK, limiterVars, rateVars
  <2> QED BY <1>5, <2>1, BucketsUnchanged DEF mvars, BucketInv
<1> QED BY <1>1, <1>2, <1>3, <1>4, <1>5 DEF MNext, Over

-----------------------------------------------------------------------------
(* Sums over finite sets *)

\* The element that a sum takes next.
Pick(s) == CHOOSE x \in s : TRUE

\* The sums of f over the subsets of S, one element at a time.
IsTotal(it, f, S) ==
  /\ it \in [SUBSET S -> Nat]
  /\ it[{}] = 0
  /\ \A s \in SUBSET S : s # {} => it[s] = f[Pick(s)] + it[s \ {Pick(s)}]

\* The same, as the one function that the operators of sums define.
Sums(it, f, S) ==
  it = [s \in SUBSET S |-> IF s = {} THEN 0 ELSE f[Pick(s)] + it[s \ {Pick(s)}]]

\* A set of numbers that is not empty has a least one.
LEMMA LeastNumber ==
  ASSUME NEW numbers \in SUBSET Nat, numbers # {}
  PROVE  \E n \in numbers : \A k \in numbers : ~(k < n)
<1>1. PICK n \in numbers : \A k \in numbers : ~(<<k, n>> \in OpToRel(<, Nat))
  BY NatLessThanWellFounded, WFMin
<1> QED BY <1>1 DEF OpToRel

\* The sizes of the subsets of a finite set; an element less makes a set smaller by one.
LEMMA Sizes ==
  ASSUME NEW S, IsFiniteSet(S)
  PROVE  \A s \in SUBSET S :
           /\ Cardinality(s) \in Nat
           /\ \A x \in s : /\ s \ {x} \in SUBSET S
                           /\ Cardinality(s \ {x}) \in Nat
                           /\ Cardinality(s) = Cardinality(s \ {x}) + 1
<1> SUFFICES ASSUME NEW s \in SUBSET S
             PROVE  /\ Cardinality(s) \in Nat
                    /\ \A x \in s : /\ s \ {x} \in SUBSET S
                                    /\ Cardinality(s \ {x}) \in Nat
                                    /\ Cardinality(s) = Cardinality(s \ {x}) + 1
  OBVIOUS
<1>1. IsFiniteSet(s) /\ Cardinality(s) \in Nat
  BY FS_Subset, FS_CardinalityType
<1>2. ASSUME NEW x \in s
      PROVE  /\ Cardinality(s \ {x}) \in Nat
             /\ Cardinality(s) = Cardinality(s \ {x}) + 1
  <2>1. IsFiniteSet(s \ {x}) /\ Cardinality(s \ {x}) = Cardinality(s) - 1
    BY <1>1, <1>2, FS_RemoveElement
  <2>2. Cardinality(s \ {x}) \in Nat
    BY <2>1, FS_CardinalityType
  <2> QED BY <1>1, <2>1, <2>2
<1> QED BY <1>1, <1>2

\* There are such sums: by the size of the sets whose sum is right.
LEMMA TotalExists ==
  ASSUME NEW S, IsFiniteSet(S), NEW f \in [S -> Nat]
  PROVE  \E it : IsTotal(it, f, S)
<1> DEFINE Right(it, n) ==
             /\ it \in [SUBSET S -> Nat]
             /\ it[{}] = 0
             /\ \A s \in SUBSET S :
                  s # {} /\ Cardinality(s) <= n => it[s] = f[Pick(s)] + it[s \ {Pick(s)}]
           wrong == {n \in Nat : ~ \E it : Right(it, n)}
<1>1. \A s \in SUBSET S : s # {} => Pick(s) \in s
  BY Zenon DEF Pick
<1>2. \A s \in SUBSET S : s # {} => /\ Cardinality(s) \in Nat
                                    /\ s \ {Pick(s)} \in SUBSET S
                                    /\ Cardinality(s \ {Pick(s)}) \in Nat
                                    /\ Cardinality(s) = Cardinality(s \ {Pick(s)}) + 1
  <2> SUFFICES ASSUME NEW s \in SUBSET S, s # {}
               PROVE  /\ Cardinality(s) \in Nat
                      /\ s \ {Pick(s)} \in SUBSET S
                      /\ Cardinality(s \ {Pick(s)}) \in Nat
                      /\ Cardinality(s) = Cardinality(s \ {Pick(s)}) + 1
    BY Zenon
  <2>1. PICK p : p = Pick(s) /\ p \in s
    BY <1>1
  <2>2. /\ Cardinality(s) \in Nat /\ s \ {p} \in SUBSET S /\ Cardinality(s \ {p}) \in Nat
        /\ Cardinality(s) = Cardinality(s \ {p}) + 1
    BY <2>1, Sizes
  <2> QED BY <2>1, <2>2
<1>3. wrong = {}
  <2> SUFFICES ASSUME wrong # {} PROVE FALSE
    OBVIOUS
  <2>1. PICK m \in wrong : \A k \in wrong : ~(k < m)
    <3> HIDE DEF Right
    <3> QED BY LeastNumber
  <2>2. m # 0
    <3> SUFFICES ASSUME m = 0 PROVE FALSE
      OBVIOUS
    <3>1. PICK it : it = [s \in SUBSET S |-> 0]
      OBVIOUS
    <3>2. it \in [SUBSET S -> Nat] /\ it[{}] = 0
      BY <3>1
    <3>3. ASSUME NEW s \in SUBSET S, s # {} PROVE ~(Cardinality(s) <= 0)
      <4>1. /\ Cardinality(s) \in Nat /\ Cardinality(s \ {Pick(s)}) \in Nat
            /\ Cardinality(s) = Cardinality(s \ {Pick(s)}) + 1
        BY <1>2, <3>3, Zenon
      <4> QED BY <4>1
    <3>4. Right(it, 0)
      BY <3>2, <3>3
    <3> QED BY <3>4
  <2>3. PICK n \in Nat : m = n + 1
    <3>1. m - 1 \in Nat /\ m = (m - 1) + 1
      BY <2>2
    <3> QED BY <3>1
  <2>4. PICK it : Right(it, n)
    <3>1. n \notin wrong
      <4> HIDE DEF wrong
      <4> QED BY <2>1, <2>3
    <3> HIDE DEF Right
    <3> QED BY <3>1
  <2>5. PICK more : more = [s \in SUBSET S |->
                              IF Cardinality(s) = n + 1 THEN f[Pick(s)] + it[s \ {Pick(s)}]
                              ELSE it[s]]
    OBVIOUS
  <2>6. more[{}] = 0
    <3>1. Cardinality({}) = 0 /\ {} \in SUBSET S
      BY FS_EmptySet
    <3> QED BY <3>1, <2>4, <2>5
  <2>7. more \in [SUBSET S -> Nat]
    <3> SUFFICES ASSUME NEW s \in SUBSET S, Cardinality(s) = n + 1
                 PROVE  f[Pick(s)] + it[s \ {Pick(s)}] \in Nat
      BY <2>4, <2>5
    <3>1. s # {}
      <4>1. Cardinality({}) = 0
        BY FS_EmptySet
      <4> QED BY <4>1
    <3>2. Pick(s) \in S /\ s \ {Pick(s)} \in SUBSET S
      BY <1>1, <1>2, <3>1
    <3> QED BY <3>2, <2>4
  <2>8. ASSUME NEW s \in SUBSET S, s # {}, Cardinality(s) <= n + 1
        PROVE  more[s] = f[Pick(s)] + more[s \ {Pick(s)}]
    <3>1. /\ s \ {Pick(s)} \in SUBSET S /\ Cardinality(s \ {Pick(s)}) \in Nat
          /\ Cardinality(s) \in Nat /\ Cardinality(s) = Cardinality(s \ {Pick(s)}) + 1
      BY <1>2, <2>8
    <3>2. more[s \ {Pick(s)}] = it[s \ {Pick(s)}]
      <4>1. Cardinality(s \ {Pick(s)}) # n + 1
        BY <2>8, <3>1
      <4> QED BY <4>1, <3>1, <2>5
    <3>3. CASE Cardinality(s) = n + 1
      BY <3>2, <3>3, <2>5
    <3>4. CASE Cardinality(s) # n + 1
      <4>1. Cardinality(s) <= n
        BY <2>8, <3>1, <3>4
      <4>2. more[s] = it[s]
        BY <3>4, <2>5
      <4> QED BY <4>1, <4>2, <3>2, <2>4, <2>8
    <3> QED BY <3>3, <3>4
  <2>9. Right(more, n + 1)
    BY <2>6, <2>7, <2>8
  <2> HIDE DEF Right
  <2> QED BY <2>1, <2>3, <2>9
<1>4. Cardinality(S) \in Nat
  BY FS_CardinalityType
<1>5. PICK it : Right(it, Cardinality(S))
  <2> HIDE DEF Right
  <2> QED BY <1>3, <1>4
<1>6. \A s \in SUBSET S : Cardinality(s) <= Cardinality(S)
  BY FS_Subset
<1> QED BY <1>5, <1>6 DEF IsTotal

\* A sum does not depend on the element that is taken first.
LEMMA TotalOfAny ==
  ASSUME NEW S, IsFiniteSet(S), NEW f \in [S -> Nat], NEW it, IsTotal(it, f, S)
  PROVE  \A s \in SUBSET S : \A x \in s : it[s] = f[x] + it[s \ {x}]
<1> DEFINE Bad(s) == \E x \in s : it[s] # f[x] + it[s \ {x}]
           sizes == {Cardinality(s) : s \in {r \in SUBSET S : Bad(r)}}
<1> SUFFICES ASSUME NEW bad \in SUBSET S, Bad(bad) PROVE FALSE
  OBVIOUS
<1>1. \A s \in SUBSET S : s # {} => Pick(s) \in s
  BY Zenon DEF Pick
<1>2. sizes \in SUBSET Nat /\ sizes # {}
  <2> HIDE DEF Bad
  <2> QED BY Sizes
<1>3. PICK n \in sizes : \A k \in sizes : ~(k < n)
  <2> HIDE DEF sizes
  <2> QED BY <1>2, LeastNumber
<1>4. PICK s \in SUBSET S : Bad(s) /\ n = Cardinality(s)
  BY <1>3
<1>5. PICK x \in s : it[s] # f[x] + it[s \ {x}]
  BY <1>4
<1>6. PICK p : p = Pick(s) /\ p \in s
  BY <1>1
<1>7. it[s] = f[p] + it[s \ {p}]
  BY <1>5, <1>6, Zenon DEF IsTotal
<1>8. x # p
  BY <1>5, <1>7
<1>9. \A r \in SUBSET S : Cardinality(r) < n => \A y \in r : it[r] = f[y] + it[r \ {y}]
  <2> SUFFICES ASSUME NEW r \in SUBSET S, Cardinality(r) < n, Bad(r) PROVE FALSE
    OBVIOUS
  <2>1. Cardinality(r) \in sizes
    OBVIOUS
  <2> QED BY <2>1, <1>3
<1>10. /\ s \ {p} \in SUBSET S /\ Cardinality(s \ {p}) < n
       /\ s \ {x} \in SUBSET S /\ Cardinality(s \ {x}) < n
  BY <1>4, <1>5, <1>6, Sizes
<1>11. it[s \ {p}] = f[x] + it[(s \ {p}) \ {x}]
  BY <1>5, <1>8, <1>9, <1>10
<1>12. it[s \ {x}] = f[p] + it[(s \ {x}) \ {p}]
  BY <1>6, <1>8, <1>9, <1>10
<1>13. (s \ {x}) \ {p} = (s \ {p}) \ {x} /\ (s \ {p}) \ {x} \in SUBSET S
  OBVIOUS
<1>14. PICK rest \in Nat : rest = it[(s \ {p}) \ {x}]
  BY <1>13 DEF IsTotal
<1>15. PICK a \in Nat, b \in Nat : a = f[x] /\ b = f[p]
  BY <1>5, <1>6
<1>16. it[s] = b + (a + rest) /\ it[s \ {x}] = b + rest
  BY <1>7, <1>11, <1>12, <1>13, <1>14, <1>15, Zenon
<1>17. it[s] # a + (b + rest)
  BY <1>5, <1>15, <1>16, Zenon
<1> QED BY <1>16, <1>17

\* The sums are the only function that sums one element after the other.
LEMMA TotalUnique ==
  ASSUME NEW S, IsFiniteSet(S), NEW f \in [S -> Nat], NEW it, IsTotal(it, f, S),
         NEW other, Sums(other, f, S)
  PROVE  other = it
<1> DEFINE sizes == {Cardinality(s) : s \in {r \in SUBSET S : other[r] # it[r]}}
<1>1. \A s \in SUBSET S :
         other[s] = IF s = {} THEN 0 ELSE f[Pick(s)] + other[s \ {Pick(s)}]
  BY Zenon DEF Sums
<1>2. \A s \in SUBSET S : other[s] = it[s]
  <2> SUFFICES ASSUME NEW bad \in SUBSET S, other[bad] # it[bad] PROVE FALSE
    OBVIOUS
  <2>1. sizes \in SUBSET Nat /\ sizes # {}
    <3>1. \A s \in SUBSET S : Cardinality(s) \in Nat
      BY Sizes, Zenon
    <3>2. Cardinality(bad) \in sizes
      OBVIOUS
    <3> QED BY <3>1, <3>2
  <2>2. PICK n \in sizes : \A k \in sizes : ~(k < n)
    <3> HIDE DEF sizes
    <3> QED BY <2>1, LeastNumber
  <2>3. PICK s \in SUBSET S : other[s] # it[s] /\ n = Cardinality(s)
    BY <2>2
  <2>4. s # {}
    BY <2>3, <1>1, Zenon DEF IsTotal
  <2>5. PICK p : p = Pick(s) /\ p \in s
    BY <2>4, Zenon DEF Pick
  <2>6. other[s] = f[p] + other[s \ {p}] /\ it[s] = f[p] + it[s \ {p}]
    BY <1>1, <2>4, <2>5, Zenon DEF IsTotal
  <2>7. s \ {p} \in SUBSET S /\ Cardinality(s \ {p}) < n
    BY <2>3, <2>5, Sizes
  <2>8. other[s \ {p}] = it[s \ {p}]
    <3> SUFFICES ASSUME other[s \ {p}] # it[s \ {p}] PROVE FALSE
      OBVIOUS
    <3>1. Cardinality(s \ {p}) \in sizes
      BY <2>7
    <3> HIDE DEF sizes
    <3> QED BY <3>1, <2>2, <2>7
  <2> QED BY <2>3, <2>6, <2>8
<1>3. it = [s \in SUBSET S |-> it[s]]
  BY Zenon DEF IsTotal
<1>4. other = [s \in SUBSET S |-> other[s]]
  BY Zenon DEF Sums
<1> QED BY <1>2, <1>3, <1>4, Zenon

\* What is counted in one set is at most what is counted in another, if each of its
\* elements that counts has an element of its own there that counts as much.
LEMMA TotalDominated ==
  ASSUME NEW A, IsFiniteSet(A), NEW f \in [A -> Nat], NEW itA, IsTotal(itA, f, A),
         NEW B, IsFiniteSet(B), NEW g \in [B -> Nat], NEW itB, IsTotal(itB, g, B),
         NEW h, \A x \in A : f[x] > 0 => h[x] \in B /\ f[x] <= g[h[x]],
         \A x \in A, y \in A : f[x] > 0 /\ f[y] > 0 /\ h[x] = h[y] => x = y
  PROVE  itA[A] <= itB[B]
<1> DEFINE Into(a, b) == \A x \in a : f[x] > 0 => h[x] \in b
           Bad(a) == \E b \in SUBSET B : Into(a, b) /\ ~(itA[a] <= itB[b])
           sizes == {Cardinality(a) : a \in {r \in SUBSET A : Bad(r)}}
<1> SUFFICES ASSUME ~(itA[A] <= itB[B]) PROVE FALSE
  OBVIOUS
<1>1. Bad(A)
  OBVIOUS
<1>2. sizes \in SUBSET Nat /\ sizes # {}
  <2> HIDE DEF Bad
  <2> QED BY <1>1, Sizes
<1>3. PICK n \in sizes : \A k \in sizes : ~(k < n)
  <2> HIDE DEF sizes
  <2> QED BY <1>2, LeastNumber
<1>4. PICK a \in SUBSET A : Bad(a) /\ n = Cardinality(a)
  BY <1>3
<1>5. PICK b \in SUBSET B : Into(a, b) /\ ~(itA[a] <= itB[b])
  BY <1>4
<1>6. /\ \A s \in SUBSET A : itA[s] \in Nat
      /\ \A s \in SUBSET B : itB[s] \in Nat
      /\ itA[{}] = 0
  BY DEF IsTotal
<1>7. PICK x : x \in a
  <2> SUFFICES ASSUME a = {} PROVE FALSE
    OBVIOUS
  <2> QED BY <1>5, <1>6
<1>8. PICK rest : rest = a \ {x} /\ rest \in SUBSET A /\ Cardinality(rest) < n
  <2>1. a \ {x} \in SUBSET A /\ Cardinality(a \ {x}) < n
    <3> HIDE DEF Bad, Into, sizes
    <3>1. /\ Cardinality(a \ {x}) \in Nat
          /\ Cardinality(a) = Cardinality(a \ {x}) + 1
      BY <1>7, Sizes, Zenon
    <3> QED BY <3>1, <1>4
  <2> QED BY <2>1, Zenon
<1>9. itA[a] = f[x] + itA[rest]
  BY <1>7, <1>8, TotalOfAny
<1>10. ~Bad(rest)
  <2> SUFFICES ASSUME Bad(rest) PROVE FALSE
    OBVIOUS
  <2>1. Cardinality(rest) \in sizes
    BY <1>8
  <2> HIDE DEF sizes
  <2> QED BY <2>1, <1>3, <1>8
<1>11. f[x] \in Nat /\ itA[rest] \in Nat /\ itB[b] \in Nat
  BY <1>6, <1>7, <1>8
<1>12. CASE f[x] = 0
  <2>1. Into(rest, b)
    BY <1>5, <1>8
  <2>2. itA[rest] <= itB[b]
    BY <2>1, <1>10
  <2> QED BY <2>2, <1>5, <1>9, <1>11, <1>12
<1>13. CASE f[x] > 0
  <2>1. PICK y : y = h[x] /\ y \in b /\ f[x] <= g[y]
    BY <1>5, <1>7, <1>13
  <2>2. PICK other : other = b \ {y} /\ other \in SUBSET B
    OBVIOUS
  <2>3. itB[b] = g[y] + itB[other]
    BY <2>1, <2>2, TotalOfAny
  <2>4. Into(rest, other)
    BY <1>5, <1>7, <1>8, <1>13, <2>1, <2>2
  <2>5. itA[rest] <= itB[other]
    BY <2>2, <2>4, <1>10
  <2>6. itB[other] \in Nat /\ g[y] \in Nat
    BY <1>6, <2>1, <2>2
  <2> QED BY <1>5, <1>9, <1>11, <2>1, <2>3, <2>5, <2>6
<1> QED BY <1>11, <1>12, <1>13

-----------------------------------------------------------------------------
(* The slots of the rate, step by step *)

\* Two seconds of one window do not share a slot.
LEMMA SlotOfOne ==
  ASSUME NEW a \in Nat, NEW b \in Nat, NEW n \in Nat \ {0},
         a <= b, b - a < n, a % n = b % n
  PROVE  a = b
<1>1. /\ a \div n \in Int /\ a % n \in Int /\ a = n * (a \div n) + (a % n)
      /\ b \div n \in Int /\ b = n * (b \div n) + (b % n)
  BY Z3
<1>2. PICK c \in Int, d \in Int, m \in Int :
        /\ c = a \div n /\ d = b \div n /\ m = a % n /\ m = b % n
        /\ a = n * c + m /\ b = n * d + m
  BY <1>1
<1>3. PICK e \in Int : e = d - c
  BY <1>2
<1>4. b - a = n * e
  <2>1. n * d = n * c + n * e /\ n * c \in Int /\ n * e \in Int
    BY <1>2, <1>3
  <2> QED BY <1>2, <2>1
<1>5. e < 1
  <2> SUFFICES ASSUME e >= 1 PROVE FALSE
    BY <1>3
  <2>1. n * e = n + n * (e - 1) /\ n * (e - 1) \in Int
    OBVIOUS
  <2>2. n * (e - 1) >= 0
    <3>1. PICK i \in Nat : i = e - 1
      <4>1. e - 1 \in Nat
        OBVIOUS
      <4> QED BY <4>1
    <3>2. n * i \in Nat
      OBVIOUS
    <3> QED BY <3>1, <3>2
  <2> QED BY <1>4, <2>1, <2>2
<1>6. e > -1
  <2> SUFFICES ASSUME e <= -1 PROVE FALSE
    BY <1>3
  <2>1. PICK i \in Nat : e = -1 - i
    <3>1. -1 - e \in Nat /\ e = -1 - (-1 - e)
      OBVIOUS
    <3> QED BY <3>1
  <2>2. n * e = -n - n * i /\ n * i \in Nat
    BY <2>1
  <2> QED BY <1>4, <2>2
<1>7. e = 0
  BY <1>3, <1>5, <1>6
<1>8. n * e = 0
  BY <1>7
<1> QED BY <1>4, <1>8

LEMMA MInitSlots == MInit => SlotsCount
<1> SUFFICES ASSUME MInit PROVE SlotsCount
  OBVIOUS
<1>1. \A slot \in DOMAIN ring : ring[slot].second = -1 /\ ring[slot].count = 0
  BY DEF MInit
<1>2. \A s \in Seconds : recorded[s] = 0
  BY DEF MInit
<1> QED BY <1>1, <1>2 DEF SlotsCount

\* Time passing and time set back lose seconds from the window, and add none that has
\* been recorded in.
LEMMA ClockKeepsSlots ==
  ASSUME MTypeOK, SlotsCount, UNCHANGED rateVars, clock' \in Nat,
         \/ clock <= clock' /\ backs' = backs
         \/ backs' # 0
  PROVE  SlotsCount'
<1>1. ring' = ring /\ recorded' = recorded
  BY DEF rateVars
<1>2. \A slot \in DOMAIN ring :
         IF ring[slot].second = -1 THEN ring[slot].count = 0
         ELSE /\ ring[slot].second % WindowSeconds = slot
              /\ ring[slot].count <= recorded[ring[slot].second]
  BY Zenon DEF SlotsCount
<1>3. ASSUME backs' = 0
      PROVE  /\ \A s \in Seconds : s > EpochSecond' => recorded[s] = 0
             /\ \A slot \in DOMAIN ring :
                  ring[slot].second # -1 => /\ ring[slot].second <= EpochSecond'
                                            /\ ring[slot].count = recorded[ring[slot].second]
             /\ \A s \in Seconds :
                  InWindow(s)' /\ recorded[s] > 0 => ring[s % WindowSeconds].second = s
  <2>1. backs = 0 /\ clock <= clock' /\ clock \in Nat
    BY <1>3 DEF MTypeOK
  <2>2. /\ \A s \in Seconds : s > EpochSecond => recorded[s] = 0
        /\ \A slot \in DOMAIN ring :
             ring[slot].second # -1 => /\ ring[slot].second <= EpochSecond
                                       /\ ring[slot].count = recorded[ring[slot].second]
        /\ \A s \in Seconds :
             InWindow(s) /\ recorded[s] > 0 => ring[s % WindowSeconds].second = s
    BY <2>1, Zenon DEF SlotsCount
  <2>3. EpochSecond \in Nat /\ EpochSecond' \in Nat /\ EpochSecond <= EpochSecond'
    <3>1. PICK c \in Nat, d \in Nat : c = clock /\ d = clock' /\ c <= d
      BY <2>1
    <3>2. /\ c \div TicksPerSec \in Nat /\ d \div TicksPerSec \in Nat
          /\ c \div TicksPerSec <= d \div TicksPerSec
      <4>1. TicksPerSec \in Nat \ {0} /\ d <= d
        BY TicksAssumption
      <4> QED BY <4>1, <3>1, QuotientOrder, Zenon
    <3> QED BY <3>1, <3>2 DEF EpochSecond
  <2>4. PICK now \in Nat, next \in Nat : now = EpochSecond /\ next = EpochSecond' /\ now <= next
    BY <2>3
  <2>5. Seconds \subseteq Nat /\ WindowSeconds \in Nat
    BY MetersAssumption DEF Seconds
  <2>6. \A s \in Seconds : s > next => recorded[s] = 0
    BY <2>2, <2>4, <2>5
  <2>7. \A slot \in DOMAIN ring :
          ring[slot].second # -1 => /\ ring[slot].second <= next
                                    /\ ring[slot].count = recorded[ring[slot].second]
    <3>1. \A slot \in DOMAIN ring : ring[slot].second \in Seconds \union {-1}
      BY DEF MTypeOK
    <3> SUFFICES ASSUME NEW slot \in DOMAIN ring, ring[slot].second # -1
                 PROVE  /\ ring[slot].second <= next
                        /\ ring[slot].count = recorded[ring[slot].second]
      OBVIOUS
    <3>2. ring[slot].second <= now /\ ring[slot].count = recorded[ring[slot].second]
      BY <2>2, <2>4
    <3>3. ring[slot].second \in Nat
      BY <3>1, <2>5
    <3> QED BY <3>2, <3>3, <2>4
  <2>8. ASSUME NEW s \in Seconds, InWindow(s)', recorded[s] > 0 PROVE InWindow(s)
    <3>1. s >= next - WindowSeconds + 1 /\ s \in Nat
      BY <2>4, <2>5, <2>8 DEF InWindow, OldestInWindow
    <3>2. ~(s > now)
      BY <2>2, <2>4, <2>8
    <3>3. s >= now - WindowSeconds + 1
      <4>1. PICK w \in Nat : w = WindowSeconds
        BY <2>5
      <4>2. s >= next - w + 1
        BY <3>1, <4>1
      <4>3. s >= now - w + 1
        <5>1. s \in Nat /\ now <= next
          BY <3>1, <2>4
        <5> QED BY <5>1, <4>2
      <4> QED BY <4>1, <4>3
    <3>4. s <= now
      BY <3>1, <3>2, <2>4
    <3> QED BY <3>3, <3>4, <2>4 DEF InWindow, OldestInWindow
  <2> QED BY <2>2, <2>4, <2>6, <2>7, <2>8
<1> QED BY <1>1, <1>2, <1>3, Zenon DEF SlotsCount

\* An event counts in the slot of its second, which is its own as long as it counts.
LEMMA RecordKeepsSlots ==
  ASSUME MTypeOK, SlotsCount, Record
  PROVE  SlotsCount'
<1>1. PICK now : now = EpochSecond
  OBVIOUS
<1>2. PICK here : here = now % WindowSeconds
  OBVIOUS
<1>3. /\ now \in Seconds /\ now \in Nat /\ Seconds \subseteq Nat
      /\ here \in 0..WindowSeconds - 1 /\ WindowSeconds \in Nat \ {0}
      /\ \A s \in Nat : s % WindowSeconds \in 0..WindowSeconds - 1
  BY <1>1, <1>2, SecondHasSlot, MetersAssumption DEF MTypeOK, EpochSecond
<1>4. /\ DOMAIN ring = 0..WindowSeconds - 1
      /\ \A slot \in DOMAIN ring : /\ ring[slot].second \in Seconds \union {-1}
                                   /\ ring[slot].count \in Nat
      /\ recorded \in [Seconds -> Nat]
  BY DEF MTypeOK
<1>5. EpochSecond' = now /\ backs' = backs
  BY <1>1 DEF Record, EpochSecond
<1>6. /\ DOMAIN ring' = DOMAIN ring /\ ring'[here] = Counted(ring[here])
      /\ \A slot \in DOMAIN ring : slot # here => ring'[slot] = ring[slot]
  <2>1. ring' = [ring EXCEPT ![here] = Counted(ring[here])]
    BY <1>1, <1>2 DEF Record
  <2> QED BY <2>1, <1>3, <1>4
<1>7. /\ recorded'[now] = recorded[now] + 1
      /\ \A s \in Seconds : s # now => recorded'[s] = recorded[s]
  BY <1>1, <1>3, <1>4 DEF Record
<1>8. /\ ring'[here].second = now
      /\ ring'[here].count = IF ring[here].second = now THEN ring[here].count + 1 ELSE 1
  <2>1. CASE ring[here].second = now
    <3>1. Reused(ring[here]) = ring[here]
      BY <2>1, <1>1 DEF Reused
    <3>2. ring[here] \in [second : Seconds \union {-1}, count : Nat]
      BY <1>3 DEF MTypeOK
    <3> QED BY <2>1, <3>1, <3>2, <1>6 DEF Counted
  <2>2. CASE ring[here].second # now
    <3>1. Reused(ring[here]) = [second |-> now, count |-> 0]
      BY <2>2, <1>1 DEF Reused
    <3> QED BY <2>2, <3>1, <1>6 DEF Counted
  <2> QED BY <2>1, <2>2
<1>9. \A slot \in DOMAIN ring :
         ring[slot].second # -1 => /\ ring[slot].second % WindowSeconds = slot
                                   /\ ring[slot].count <= recorded[ring[slot].second]
  BY Zenon DEF SlotsCount
<1>10. \A slot \in DOMAIN ring : slot # here => ring[slot].second # now
  BY <1>2, <1>3, <1>9
<1>11. ASSUME NEW slot \in DOMAIN ring'
       PROVE  IF ring'[slot].second = -1 THEN ring'[slot].count = 0
              ELSE /\ ring'[slot].second % WindowSeconds = slot
                   /\ ring'[slot].count <= recorded'[ring'[slot].second]
  <2>1. CASE slot = here
    <3>1. ring'[slot].second % WindowSeconds = slot /\ ring'[slot].second # -1
      BY <2>1, <1>2, <1>3, <1>8
    <3>2. ring'[slot].count <= recorded'[now]
      <4>1. CASE ring[here].second = now
        <5>1. ring[here].count <= recorded[now] /\ recorded[now] \in Nat
          <6>1. now # -1 /\ here \in DOMAIN ring
            BY <1>3, <1>4
          <6> QED BY <4>1, <6>1, <1>3, <1>4, <1>9
        <5>2. ring[here].count \in Nat
          BY <1>3, <1>4
        <5> QED BY <2>1, <4>1, <5>1, <5>2, <1>7, <1>8
      <4>2. CASE ring[here].second # now
        <5>1. recorded[now] \in Nat
          BY <1>3, <1>4
        <5> QED BY <2>1, <4>2, <5>1, <1>7, <1>8
      <4> QED BY <4>1, <4>2
    <3> QED BY <2>1, <3>1, <3>2, <1>8
  <2>2. CASE slot # here
    <3>1. ring'[slot] = ring[slot] /\ ring[slot].second # now /\ slot \in DOMAIN ring
      BY <2>2, <1>6, <1>10
    <3>2. ring[slot].second # -1 => recorded'[ring[slot].second] = recorded[ring[slot].second]
      BY <3>1, <1>4, <1>7
    <3>3. ring[slot].second = -1 => ring[slot].count = 0
      BY <3>1, Zenon DEF SlotsCount
    <3> QED BY <3>1, <3>2, <3>3, <1>9
  <2> QED BY <2>1, <2>2
<1>12. ASSUME backs' = 0
       PROVE  /\ \A s \in Seconds : s > now => recorded'[s] = 0
              /\ \A slot \in DOMAIN ring' :
                   ring'[slot].second # -1 =>
                     /\ ring'[slot].second <= now
                     /\ ring'[slot].count = recorded'[ring'[slot].second]
              /\ \A s \in Seconds :
                   InWindow(s)' /\ recorded'[s] > 0 => ring'[s % WindowSeconds].second = s
  <2>1. /\ \A s \in Seconds : s > now => recorded[s] = 0
        /\ \A slot \in DOMAIN ring :
             ring[slot].second # -1 => /\ ring[slot].second <= now
                                       /\ ring[slot].count = recorded[ring[slot].second]
        /\ \A s \in Seconds :
             InWindow(s) /\ recorded[s] > 0 => ring[s % WindowSeconds].second = s
    BY <1>1, <1>5, <1>12, Zenon DEF SlotsCount
  <2>2. \A s \in Seconds : s > now => recorded'[s] = 0
    BY <2>1, <1>3, <1>7
  <2>3. ASSUME NEW slot \in DOMAIN ring', ring'[slot].second # -1
        PROVE  /\ ring'[slot].second <= now
               /\ ring'[slot].count = recorded'[ring'[slot].second]
    <3>1. CASE slot = here
      <4>1. CASE ring[here].second = now
        <5>1. ring[here].count = recorded[now]
          <6>1. now # -1 /\ here \in DOMAIN ring
            BY <1>3, <1>4
          <6> QED BY <4>1, <6>1, <2>1
        <5> QED BY <3>1, <4>1, <5>1, <1>3, <1>7, <1>8
      <4>2. CASE ring[here].second # now
        <5>1. InWindow(now)
          BY <1>1, <1>3 DEF InWindow, OldestInWindow
        <5>2. ~(recorded[now] > 0)
          BY <4>2, <5>1, <2>1, <1>2, <1>3
        <5>3. recorded[now] = 0
          BY <5>2, <1>3, <1>4
        <5> QED BY <3>1, <4>2, <5>3, <1>3, <1>7, <1>8
      <4> QED BY <4>1, <4>2
    <3>2. CASE slot # here
      <4>1. ring'[slot] = ring[slot] /\ ring[slot].second # now /\ slot \in DOMAIN ring
        BY <3>2, <1>6, <1>10
      <4>2. recorded'[ring[slot].second] = recorded[ring[slot].second]
        BY <4>1, <2>3, <1>4, <1>7
      <4> QED BY <4>1, <4>2, <2>1, <2>3
    <3> QED BY <3>1, <3>2
  <2>4. ASSUME NEW s \in Seconds, InWindow(s)', recorded'[s] > 0
        PROVE  ring'[s % WindowSeconds].second = s
    <3>1. /\ s <= now /\ now - s < WindowSeconds /\ s \in Nat
          /\ InWindow(s)
      BY <2>4, <1>1, <1>3, <1>5 DEF InWindow, OldestInWindow
    <3>2. CASE s = now
      BY <3>2, <1>2, <1>8
    <3>3. CASE s # now
      <4>1. ring[s % WindowSeconds].second = s
        BY <2>4, <3>1, <3>3, <2>1, <1>7
      <4>2. s % WindowSeconds # here
        BY <3>1, <3>3, <1>2, <1>3, SlotOfOne
      <4>3. s % WindowSeconds \in DOMAIN ring
        BY <3>1, <1>3, <1>4
      <4> QED BY <4>1, <4>2, <4>3, <1>6
    <3> QED BY <3>2, <3>3
  <2> QED BY <2>2, <2>3, <2>4
<1> QED BY <1>5, <1>11, <1>12, Zenon DEF SlotsCount

-----------------------------------------------------------------------------
(* The total of the window *)

\* Sums written as functions on the subsets of a set are the only ones.
LEMMA TotalAsFunction ==
  ASSUME NEW S, NEW f, NEW it, IsTotal(it, f, S)
  PROVE  Sums(it, f, S)
<1>1. \A s \in SUBSET S : it[s] = IF s = {} THEN 0 ELSE f[Pick(s)] + it[s \ {Pick(s)}]
  BY Zenon DEF IsTotal
<1>2. it = [s \in SUBSET S |-> it[s]]
  BY Zenon DEF IsTotal
<1> QED BY <1>1, <1>2, Zenon DEF Sums

\* The total of the slots in the window.
LEMMA WindowTotalIsSum ==
  ASSUME MTypeOK
  PROVE  LET A == {slot \in DOMAIN ring : InWindow(ring[slot].second)}
             f == [slot \in A |-> ring[slot].count]
         IN  /\ IsFiniteSet(A) /\ f \in [A -> Nat]
             /\ \A it : IsTotal(it, f, A) => WindowTotal = it[A]
<1> DEFINE A == {slot \in DOMAIN ring : InWindow(ring[slot].second)}
           f == [slot \in A |-> ring[slot].count]
<1>1. DOMAIN ring = 0..WindowSeconds - 1 /\ \A slot \in DOMAIN ring : ring[slot].count \in Nat
  BY DEF MTypeOK
<1>2. IsFiniteSet(A)
  <2>1. IsFiniteSet(0..WindowSeconds - 1)
    <3>1. 0 \in Int /\ WindowSeconds - 1 \in Int
      BY MetersAssumption
    <3> QED BY <3>1, FS_Interval
  <2>2. A \in SUBSET (0..WindowSeconds - 1)
    BY <1>1
  <2> HIDE DEF A
  <2> QED BY <2>1, <2>2, FS_Subset
<1>3. f \in [A -> Nat]
  BY <1>1
<1>4. ASSUME NEW it, IsTotal(it, f, A) PROVE WindowTotal = it[A]
  <2>1. Sums(it, f, A)
    <3> HIDE DEF A, f
    <3> QED BY <1>4, TotalAsFunction
  <2>2. \A s \in SUBSET A : s # {} => f[Pick(s)] = ring[Pick(s)].count
    <3> SUFFICES ASSUME NEW s \in SUBSET A, s # {} PROVE f[Pick(s)] = ring[Pick(s)].count
      OBVIOUS
    <3>1. Pick(s) \in A
      <4> HIDE DEF A, f
      <4> QED BY Zenon DEF Pick
    <3> HIDE DEF A
    <3> QED BY <3>1
  <2>3. \E other :
          /\ other = [s \in SUBSET A |->
                        IF s = {} THEN 0 ELSE ring[Pick(s)].count + other[s \ {Pick(s)}]]
          /\ WindowTotal = other[A]
    <3>1. \E other :
            other = [s \in SUBSET A |->
                       IF s = {} THEN 0 ELSE ring[Pick(s)].count + other[s \ {Pick(s)}]]
      <4> HIDE DEF A, f
      <4>1. it = [s \in SUBSET A |->
                    IF s = {} THEN 0 ELSE ring[Pick(s)].count + it[s \ {Pick(s)}]]
        BY <2>1, <2>2, Zenon DEF Sums
      <4> QED BY <4>1, Zenon
    <3> QED BY <3>1, Zenon DEF WindowTotal, MapThenSumSet, MapThenFoldSet, Pick
  <2>4. PICK other :
          /\ other = [s \in SUBSET A |->
                        IF s = {} THEN 0 ELSE ring[Pick(s)].count + other[s \ {Pick(s)}]]
          /\ WindowTotal = other[A]
    BY <2>3
  <2> HIDE DEF A, f
  <2>5. Sums(other, f, A)
    BY <2>2, <2>4, Zenon DEF Sums
  <2>6. other = it
    BY <1>2, <1>3, <1>4, <2>5, TotalUnique
  <2> QED BY <2>4, <2>6
<1> HIDE DEF A, f
<1>5. IsFiniteSet(A) /\ f \in [A -> Nat] /\ \A it : IsTotal(it, f, A) => WindowTotal = it[A]
  BY <1>2, <1>3, <1>4
<1> QED BY <1>5 DEF A, f

\* The events recorded in the seconds of the window.
LEMMA RecordedIsSum ==
  ASSUME MTypeOK, NEW B \in SUBSET Seconds
  PROVE  LET g == [s \in B |-> recorded[s]]
         IN  /\ IsFiniteSet(B) /\ g \in [B -> Nat]
             /\ \A it : IsTotal(it, g, B) => Recorded(B) = it[B]
<1> DEFINE g == [s \in B |-> recorded[s]]
<1>1. IsFiniteSet(B)
  <2>1. 0 \in Int /\ MaxClock \div TicksPerSec \in Int
    <3>1. MaxClock \in Nat /\ TicksPerSec \in Nat \ {0}
      BY MetersAssumption, TicksAssumption
    <3> QED BY <3>1, QuotientOrder
  <2>2. IsFiniteSet(Seconds)
    BY <2>1, FS_Interval DEF Seconds
  <2> QED BY <2>2, FS_Subset
<1>2. g \in [B -> Nat]
  BY DEF MTypeOK
<1>3. ASSUME NEW it, IsTotal(it, g, B) PROVE Recorded(B) = it[B]
  <2>1. Sums(it, g, B)
    <3> HIDE DEF g
    <3> QED BY <1>3, TotalAsFunction
  <2>2. \A s \in SUBSET B : s # {} => g[Pick(s)] = recorded[Pick(s)]
    <3> SUFFICES ASSUME NEW s \in SUBSET B, s # {} PROVE g[Pick(s)] = recorded[Pick(s)]
      OBVIOUS
    <3>1. Pick(s) \in B
      BY Zenon DEF Pick
    <3> QED BY <3>1
  <2> HIDE DEF g
  <2>3. \E other :
          other = [s \in SUBSET B |->
                     IF s = {} THEN 0 ELSE recorded[Pick(s)] + other[s \ {Pick(s)}]]
    <3>1. it = [s \in SUBSET B |->
                  IF s = {} THEN 0 ELSE recorded[Pick(s)] + it[s \ {Pick(s)}]]
      BY <2>1, <2>2, Zenon DEF Sums
    <3> QED BY <3>1, Zenon
  <2>4. PICK other :
          /\ other = [s \in SUBSET B |->
                        IF s = {} THEN 0 ELSE recorded[Pick(s)] + other[s \ {Pick(s)}]]
          /\ Recorded(B) = other[B]
    BY <2>3, Zenon DEF Recorded, MapThenSumSet, MapThenFoldSet, Pick
  <2>5. Sums(other, g, B)
    BY <2>2, <2>4, Zenon DEF Sums
  <2>6. other = it
    BY <1>1, <1>2, <1>3, <2>5, TotalUnique
  <2> QED BY <2>4, <2>6
<1> HIDE DEF g
<1>4. /\ IsFiniteSet(B) /\ g \in [B -> Nat]
      /\ \A it : IsTotal(it, g, B) => Recorded(B) = it[B]
  BY <1>1, <1>2, <1>3
<1> QED BY <1>4 DEF g

\* While the slots count the seconds, their total is at most what was recorded in the
\* window, and all of it as long as the clock was never set back.
LEMMA SlotsCountTotal ==
  ASSUME MTypeOK, SlotsCount
  PROVE  WindowTotalExact
<1> DEFINE A == {slot \in DOMAIN ring : InWindow(ring[slot].second)}
           f == [slot \in A |-> ring[slot].count]
           B == {s \in Seconds : s >= OldestInWindow /\ s <= EpochSecond}
           g == [s \in B |-> recorded[s]]
           held == [slot \in A |-> ring[slot].second]
           slotOf == [s \in B |-> s % WindowSeconds]
<1>1. IsFiniteSet(A) /\ f \in [A -> Nat] /\ \A it : IsTotal(it, f, A) => WindowTotal = it[A]
  BY WindowTotalIsSum
<1>2. B \in SUBSET Seconds
  OBVIOUS
<1>3. IsFiniteSet(B) /\ g \in [B -> Nat] /\ \A it : IsTotal(it, g, B) => Recorded(B) = it[B]
  <2> HIDE DEF B
  <2> QED BY <1>2, RecordedIsSum
<1>4. PICK itA : IsTotal(itA, f, A) /\ WindowTotal = itA[A]
  <2> HIDE DEF A, f
  <2> QED BY <1>1, TotalExists
<1>5. PICK itB : IsTotal(itB, g, B) /\ Recorded(B) = itB[B]
  <2> HIDE DEF B, g
  <2> QED BY <1>3, TotalExists
<1>6. /\ \A slot \in DOMAIN ring :
           IF ring[slot].second = -1 THEN ring[slot].count = 0
           ELSE /\ ring[slot].second % WindowSeconds = slot
                /\ ring[slot].count <= recorded[ring[slot].second]
      /\ DOMAIN ring = 0..WindowSeconds - 1
      /\ \A slot \in DOMAIN ring : ring[slot].second \in Seconds \union {-1}
  <2>1. /\ DOMAIN ring = 0..WindowSeconds - 1
        /\ \A slot \in DOMAIN ring : ring[slot].second \in Seconds \union {-1}
    BY DEF MTypeOK
  <2> QED BY <2>1, Zenon DEF SlotsCount
<1>7. /\ \A slot \in A : slot \in DOMAIN ring /\ InWindow(ring[slot].second)
      /\ \A slot \in A : f[slot] = ring[slot].count /\ held[slot] = ring[slot].second
      /\ \A s \in B : /\ s \in Seconds /\ s \in Nat /\ InWindow(s)
                      /\ g[s] = recorded[s] /\ slotOf[s] = s % WindowSeconds
      /\ \A s \in Seconds : InWindow(s) => s \in B
      /\ \A slot \in DOMAIN ring : InWindow(ring[slot].second) => slot \in A
  <2>1. Seconds \subseteq Nat
    BY DEF Seconds
  <2>2. \A s : s \in B <=> s \in Seconds /\ InWindow(s)
    BY Zenon DEF InWindow
  <2>3. \A slot : slot \in A <=> slot \in DOMAIN ring /\ InWindow(ring[slot].second)
    BY Zenon
  <2>4. \A slot \in A : f[slot] = ring[slot].count /\ held[slot] = ring[slot].second
    BY Zenon
  <2>5. \A s \in B : g[s] = recorded[s] /\ slotOf[s] = s % WindowSeconds
    BY Zenon
  <2> HIDE DEF A, f, B, g, held, slotOf
  <2> QED BY <2>1, <2>2, <2>3, <2>4, <2>5
<1>8. \A s \in Nat : s % WindowSeconds \in DOMAIN ring
  BY <1>6, MetersAssumption
<1> HIDE DEF A, f, B, g, held, slotOf
<1>9. itA[A] <= itB[B]
  <2>1. ASSUME NEW slot \in A, f[slot] > 0
        PROVE  held[slot] \in B /\ f[slot] <= g[held[slot]] /\ held[slot] % WindowSeconds = slot
    <3>1. slot \in DOMAIN ring /\ InWindow(ring[slot].second) /\ ring[slot].count > 0
      BY <1>7, <2>1
    <3>2. ring[slot].second # -1
      BY <1>6, <3>1
    <3>3. held[slot] \in B /\ held[slot] = ring[slot].second
      BY <1>6, <1>7, <3>1, <3>2
    <3> QED BY <1>6, <1>7, <3>1, <3>2, <3>3
  <2>2. \A x \in A : f[x] > 0 => held[x] \in B /\ f[x] <= g[held[x]]
    BY <2>1, Zenon
  <2>3. \A x \in A, y \in A : f[x] > 0 /\ f[y] > 0 /\ held[x] = held[y] => x = y
    BY <2>1, Zenon
  <2> QED BY <1>1, <1>3, <1>4, <1>5, <2>2, <2>3, TotalDominated
<1>10. ASSUME backs = 0 PROVE itB[B] <= itA[A]
  <2>1. /\ \A slot \in DOMAIN ring :
             ring[slot].second # -1 => ring[slot].count = recorded[ring[slot].second]
        /\ \A s \in Seconds :
             InWindow(s) /\ recorded[s] > 0 => ring[s % WindowSeconds].second = s
    BY <1>10, Zenon DEF SlotsCount
  <2>2. ASSUME NEW s \in B, g[s] > 0
        PROVE  slotOf[s] \in A /\ g[s] <= f[slotOf[s]] /\ ring[slotOf[s]].second = s
    <3>1. /\ s \in Seconds /\ s \in Nat /\ InWindow(s) /\ recorded[s] > 0
          /\ slotOf[s] = s % WindowSeconds /\ g[s] = recorded[s]
      BY <1>7, <2>2
    <3>2. ring[slotOf[s]].second = s /\ slotOf[s] \in DOMAIN ring
      BY <1>8, <2>1, <3>1
    <3>3. slotOf[s] \in A /\ s # -1
      BY <1>7, <3>1, <3>2
    <3>4. f[slotOf[s]] = recorded[s]
      BY <1>7, <2>1, <3>2, <3>3
    <3>5. g[s] \in Nat
      BY <1>3
    <3> QED BY <3>1, <3>2, <3>3, <3>4, <3>5
  <2>3. \A x \in B : g[x] > 0 => slotOf[x] \in A /\ g[x] <= f[slotOf[x]]
    BY <2>2, Zenon
  <2>4. \A x \in B, y \in B : g[x] > 0 /\ g[y] > 0 /\ slotOf[x] = slotOf[y] => x = y
    BY <2>2, Zenon
  <2> QED BY <1>1, <1>3, <1>4, <1>5, <2>3, <2>4, TotalDominated
<1>11. itA[A] \in Nat /\ itB[B] \in Nat
  BY <1>4, <1>5 DEF IsTotal
<1>12. WindowTotal <= Recorded(B) /\ (backs = 0 => WindowTotal = Recorded(B))
  BY <1>4, <1>5, <1>9, <1>10, <1>11
<1> QED BY <1>12, Zenon DEF WindowTotalExact, B

-----------------------------------------------------------------------------
(* The theorems *)

LEMMA MNextKeepsInv ==
  ASSUME MInv, [MNext]_mvars
  PROVE  MInv'
<1>1. BucketInv
  BY DEF MInv, BucketInv
<1>2. BucketInv'
  BY <1>1, MNextKeepsBuckets
<1>3. clock' \in Nat /\ clock \in Nat
  BY <1>1, <1>2, MetersAssumption DEF BucketInv, MTypeOK
<1>4. ASSUME Advance PROVE SlotsCount'
  BY <1>3, <1>4, ClockKeepsSlots DEF Advance, MInv
<1>5. ASSUME SetBack PROVE SlotsCount'
  <2>1. backs' # 0
    BY <1>1, <1>5, MetersAssumption DEF SetBack, BucketInv, MTypeOK
  <2> QED BY <1>3, <1>5, <2>1, ClockKeepsSlots DEF SetBack, MInv
<1>6. ASSUME NEW k \in Keys, TryConsume(k) PROVE SlotsCount'
  BY <1>3, <1>6, ClockKeepsSlots DEF TryConsume, MInv
<1>7. ASSUME Record PROVE SlotsCount'
  BY <1>7, RecordKeepsSlots DEF MInv
<1>8. ASSUME UNCHANGED mvars PROVE SlotsCount'
  BY <1>3, <1>8, ClockKeepsSlots DEF mvars, MInv
<1>9. SlotsCount'
  BY <1>4, <1>5, <1>6, <1>7, <1>8 DEF MNext, Over
<1> QED BY <1>2, <1>9 DEF MInv, BucketInv

\* Every reachable state of the meters satisfies the inductive invariant.
THEOREM MetersInvariance == MSpec => []MInv
<1>1. MInit => MInv
  BY MInitBuckets, MInitSlots DEF MInv, BucketInv
<1>2. MInv /\ [MNext]_mvars => MInv'
  BY MNextKeepsInv
<1> QED BY <1>1, <1>2, PTL DEF MSpec

\* The types of the buckets, the ring and the clock (rateLimiter.ts, metrics.ts).
THEOREM MetersTypes == MSpec => []MTypeOK
<1>1. MInv => MTypeOK
  BY DEF MInv
<1> QED BY <1>1, MetersInvariance, PTL

\* The token bucket (TokenBucketRateLimiter.tryConsume) grants an event exactly if every
\* interval that ends with it holds no more than the capacity and its refill, for every
\* capacity, rate and history of calls, and however often the clock is set back.
THEOREM BucketGrantsTheWindow == MSpec => []LimitExact
<1>1. MInv => LimitExact
  BY DEF MInv
<1> QED BY <1>1, MetersInvariance, PTL

\* The ring of RollingRate totals the events of the window, for every length of it: never
\* more than were recorded in its seconds, and all of them while time only goes forwards.
THEOREM RingTotalsTheWindow == MSpec => []WindowTotalExact
<1>1. MInv => WindowTotalExact
  BY SlotsCountTotal DEF MInv
<1> QED BY <1>1, MetersInvariance, PTL

=============================================================================
