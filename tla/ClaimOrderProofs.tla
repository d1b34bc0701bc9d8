--------------------------- MODULE ClaimOrderProofs ---------------------------
(***************************************************************************)
(* Proofs about ClaimOrder, for every value of the priority settings and   *)
(* every width of the integers.                                            *)
(***************************************************************************)
EXTENDS ClaimOrder, WellFoundedInduction, TLAPS

-----------------------------------------------------------------------------
(* The rotation of the libraries.                                          *)

(* A set of library ids that is not empty has a smallest one.              *)
LEMMA Smallest ==
  ASSUME NEW B, B \subseteq Nat, B # {}
  PROVE  \E b \in B : \A c \in B : b <= c
<1> DEFINE Less == OpToRel(<, Nat)
<1>1. IsWellFoundedOn(Less, Nat)
  BY NatLessThanWellFounded
<1>2. \A x, y \in Nat : x < y => <<x, y>> \in Less
  BY DEF OpToRel
<1> HIDE DEF Less
<1>3. PICK b \in B : \A c \in B : <<c, b>> \notin Less
  BY <1>1, WFMin
<1>4. ASSUME NEW c \in B PROVE b <= c
  <2>1. b \in Nat /\ c \in Nat
    OBVIOUS
  <2>2. ~(c < b)
    BY <1>2, <1>3, <2>1
  <2> QED
    BY <2>1, <2>2
<1> QED
  BY <1>4

(* fairnessLibraryCandidate picks a library that has a row.  If the one    *)
(* served last still has a row, no other library with a row is passed by   *)
(* on the way round; if it has none, the rotation starts over.             *)
THEOREM NextInRotation ==
  ASSUME NEW cursor \in Int, NEW buckets, buckets \subseteq Nat, buckets # {},
         NEW next, next = NextBucket(cursor, buckets)
  PROVE  /\ next \in buckets
         /\ \/ /\ cursor \in buckets /\ cursor < next
               /\ \A b \in buckets : b <= cursor \/ next <= b
            \/ /\ cursor \in buckets => \A b \in buckets : b <= cursor
               /\ \A b \in buckets : next <= b
<1> DEFINE later == {b \in buckets : cursor \in buckets /\ cursor < b}
           from == IF later = {} THEN buckets ELSE later
<1>1. from \subseteq Nat /\ from # {}
  OBVIOUS
<1>2. next = CHOOSE b \in from : \A c \in from : b <= c
  BY DEF NextBucket
<1>3. next \in from /\ \A c \in from : next <= c
  <2> HIDE DEF from
  <2> QED
    BY <1>1, <1>2, Smallest
<1>4. CASE later = {}
  <2>1. from = buckets
    BY <1>4
  <2> QED
    BY <1>3, <1>4, <2>1
<1>5. CASE later # {}
  <2>1. from = later
    BY <1>5
  <2>2. cursor \in buckets /\ cursor < next /\ next \in buckets
    BY <1>3, <2>1
  <2>3. \A b \in buckets : b <= cursor \/ next <= b
    BY <1>3, <2>1, <2>2
  <2> QED
    BY <2>2, <2>3
<1> QED
  BY <1>4, <1>5

-----------------------------------------------------------------------------
(* The arithmetic of the priorities.                                       *)

Clamp(x) == IF x > MaxInt64 THEN MaxInt64 ELSE IF x < MinInt64 THEN MinInt64 ELSE x

(* SaturatingAdd is the sum, cut at the ends of the 64-bit range: none of  *)
(* its comparisons overflows.                                              *)
THEOREM AddSaturates ==
  ASSUME NEW a \in Int64, NEW b \in Int64
  PROVE  /\ b > 0 => MaxInt64 - b \in Int64
         /\ b < 0 => MinInt64 - b \in Int64
         /\ SaturatingAdd(a, b) = Clamp(a + b)
         /\ SaturatingAdd(a, b) \in Int64
BY OrderAssumption DEF SaturatingAdd, Clamp, Int64, MinInt64

LEMMA Division ==
  ASSUME NEW x \in Nat, NEW d \in Nat \ {0}
  PROVE  /\ x \div d \in Nat
         /\ (x \div d) * d <= x
         /\ x < (x \div d) * d + d
         /\ x \div d <= x
OBVIOUS

(* saturatingMul of two numbers that are not negative is their product,    *)
(* cut at the end of the range.                                            *)
THEOREM MulSaturates ==
  ASSUME NEW a \in 0..MaxInt64, NEW b \in 0..MaxInt64
  PROVE  /\ SaturatingMul(a, b) = Clamp(a * b)
         /\ SaturatingMul(a, b) \in 0..MaxInt64
<1>0. MaxInt64 \in Nat \ {0} /\ MinInt64 \in Int /\ MinInt64 < 0
  BY OrderAssumption DEF MinInt64
<1>1. CASE a = 0 \/ b = 0
  <2>1. a * b = 0
    BY <1>1
  <2> QED
    BY <1>0, <1>1, <2>1 DEF SaturatingMul, Clamp
<1>2. CASE a # 0 /\ b # 0
  <2> DEFINE q == MaxInt64 \div b
  <2>0. a \in Nat \ {0} /\ b \in Nat \ {0}
    BY <1>0, <1>2
  <2>1. q \in Nat /\ q * b <= MaxInt64 /\ MaxInt64 < q * b + b
    BY <1>0, <2>0, Division
  <2>2. SaturatingMul(a, b) = IF a > q THEN MaxInt64 ELSE a * b
    BY <1>2 DEF SaturatingMul
  <2> HIDE DEF q
  <2>p. a * b \in Nat /\ q * b \in Nat
    BY <2>0, <2>1
  <2>3. CASE a > q
    <3>1. a * b >= (q + 1) * b
      BY <2>0, <2>1, <2>3
    <3>2. (q + 1) * b = q * b + b
      BY <2>0, <2>1
    <3>3. a * b > MaxInt64
      BY <1>0, <2>0, <2>1, <2>p, <3>1, <3>2
    <3> QED
      BY <1>0, <2>2, <2>3, <3>3 DEF Clamp
  <2>4. CASE ~(a > q)
    <3>1. a * b <= q * b
      BY <2>0, <2>1, <2>4
    <3>2. a * b <= MaxInt64
      BY <1>0, <2>1, <2>p, <3>1
    <3> QED
      BY <1>0, <2>2, <2>4, <2>p, <3>2 DEF Clamp
  <2> QED
    BY <2>3, <2>4
<1> QED
  BY <1>1, <1>2

-----------------------------------------------------------------------------
(* The order of the rows.                                                  *)

Time == 0..MaxInt64

LEMMA AgingRange ==
  ASSUME NEW available \in Nat, NEW now \in Time
  PROVE  /\ NonNegativeWaitAge(available, now) \in Time
         /\ NonNegativeWaitAge(available, now) \div AgingInterval \in Time
         /\ AgingBoost(available, now)
              = Clamp((NonNegativeWaitAge(available, now) \div AgingInterval) * AgingStep)
         /\ AgingBoost(available, now) \in Time
<1> DEFINE age == NonNegativeWaitAge(available, now)
<1>1. age \in Time
  BY OrderAssumption DEF NonNegativeWaitAge, Time
<1>2. age \div AgingInterval \in Time
  <2> HIDE DEF age
  <2>1. age \in Nat /\ AgingInterval \in Nat \ {0} /\ MaxInt64 \in Nat
    BY <1>1, OrderAssumption DEF Time
  <2>2. age \div AgingInterval \in Nat /\ age \div AgingInterval <= age
    BY <2>1, Division
  <2> QED
    BY <1>1, <2>1, <2>2 DEF Time
<1>3. AgingStep \in 0..MaxInt64
  BY OrderAssumption
<1> QED
  BY <1>1, <1>2, <1>3, MulSaturates DEF AgingBoost, Time

(* Every effective priority is a 64-bit integer, whatever the row, the     *)
(* wait and the settings are.                                              *)
THEOREM EffectivePriorityRange ==
  ASSUME NEW row \in Row, NEW now \in Time
  PROVE  EffectivePriority(row, now) \in Int64
<1>1. SaturatingAdd(row.base, row.priority) \in Int64
  BY AddSaturates DEF Row
<1>2. AgingBoost(row.available, now) \in Int64
  <2>1. row.available \in Nat
    BY DEF Row
  <2>2. AgingBoost(row.available, now) \in Time
    BY <2>1, AgingRange
  <2> QED
    BY <2>2, OrderAssumption DEF Time, Int64, MinInt64
<1>3. RunNowBoost(row, now) \in Int64
  BY OrderAssumption DEF RunNowBoost, Int64, MinInt64
<1> QED
  BY <1>1, <1>2, <1>3, AddSaturates DEF EffectivePriority

(* StableCompare orders the rows of a library totally: of two rows with    *)
(* different ids exactly one goes before the other, and there is no cycle. *)
THEOREM BeforeIsTotalOrder ==
  ASSUME NEW now \in Time
  PROVE  /\ \A r \in Row : ~Before(r, r, now)
         /\ \A r, s \in Row : r.id # s.id => (Before(r, s, now) <=> ~Before(s, r, now))
         /\ \A r, s, v \in Row :
              Before(r, s, now) /\ Before(s, v, now) => Before(r, v, now)
<1>1. \A r \in Row : EffectivePriority(r, now) \in Int
  BY EffectivePriorityRange, OrderAssumption DEF Int64, MinInt64
<1>2. \A r \in Row : r.available \in Nat /\ r.created \in Nat /\ r.id \in Nat
  BY DEF Row
<1>3. \A r \in Row : ~Before(r, r, now)
  BY <1>1, <1>2 DEF Before, Earlier
<1>4. \A r, s \in Row : r.id # s.id => (Before(r, s, now) <=> ~Before(s, r, now))
  BY <1>1, <1>2 DEF Before, Earlier
<1>5. \A r, s, v \in Row : Before(r, s, now) /\ Before(s, v, now) => Before(r, v, now)
  BY <1>1, <1>2 DEF Before, Earlier
<1> QED
  BY <1>3, <1>4, <1>5

-----------------------------------------------------------------------------
(* Aging.                                                                  *)

LEMMA AddMonotone ==
  ASSUME NEW a \in Int64, NEW b \in Int64, NEW c \in Int64, NEW d \in Int64,
         a + b <= c + d
  PROVE  SaturatingAdd(a, b) <= SaturatingAdd(c, d)
<1>1. SaturatingAdd(a, b) = Clamp(a + b) /\ SaturatingAdd(c, d) = Clamp(c + d)
  BY AddSaturates
<1>2. a + b \in Int /\ c + d \in Int
  BY OrderAssumption DEF Int64, MinInt64
<1>3. Clamp(a + b) <= Clamp(c + d)
  BY <1>2, OrderAssumption DEF Clamp, MinInt64
<1> QED
  BY <1>1, <1>3

(* The whole intervals of a sum are at least those of its parts.           *)
LEMMA IntervalsAdd ==
  ASSUME NEW x \in Nat, NEW y \in Nat, NEW d \in Nat \ {0}
  PROVE  (x \div d) + (y \div d) <= (x + y) \div d
<1>1. PICK p \in Nat : p = x \div d /\ p * d <= x
  BY Division
<1>2. PICK q \in Nat : q = y \div d /\ q * d <= y
  BY Division
<1>3. PICK r \in Nat : r = (x + y) \div d /\ x + y < r * d + d
  BY Division
<1>4. (p + q) * d = p * d + q * d /\ p * d \in Nat /\ q * d \in Nat
  BY <1>1, <1>2
<1>5. (p + q) * d < (r + 1) * d
  BY <1>1, <1>2, <1>3, <1>4
<1>6. p + q < r + 1
  BY <1>1, <1>2, <1>3, <1>5
<1> QED
  BY <1>1, <1>2, <1>3, <1>6

StaticPriority(row) == SaturatingAdd(row.base, row.priority)

(* Aging keeps a low priority from waiting for ever: a row with a static   *)
(* priority that is not negative is ahead of every row that came lead      *)
(* seconds later, once the aging steps of that lead make up for the        *)
(* difference of the static priorities; unless the later row was asked to  *)
(* run now.  Saturation does not matter.                                   *)
THEOREM AgedRowIsNotOvertaken ==
  ASSUME NEW now \in Time, NEW r \in Row, NEW s \in Row, NEW lead \in Nat \ {0},
         r.available + lead <= s.available, s.available <= now,
         s.runNow <= now,
         StaticPriority(r) >= 0,
         StaticPriority(s) - StaticPriority(r) <= (lead \div AgingInterval) * AgingStep
  PROVE  Before(r, s, now)
<1> DEFINE p == StaticPriority(r)
           q == StaticPriority(s)
           older == NonNegativeWaitAge(r.available, now)
           younger == NonNegativeWaitAge(s.available, now)
           steps == (older \div AgingInterval) * AgingStep
           fewer == (younger \div AgingInterval) * AgingStep
           gain == (lead \div AgingInterval) * AgingStep
<1>0. /\ MaxInt64 \in Nat \ {0} /\ AgingInterval \in Nat \ {0} /\ AgingStep \in Nat \ {0}
      /\ Int64 = MinInt64..MaxInt64 /\ MinInt64 = -MaxInt64 - 1
      /\ r.available \in Nat /\ s.available \in Nat /\ now \in Nat
  BY OrderAssumption DEF Int64, MinInt64, Row, Time
<1>1. p \in Int64 /\ q \in Int64
  BY AddSaturates DEF StaticPriority, Row
<1>2. older \in Nat /\ younger \in Nat /\ younger + lead <= older
  BY <1>0 DEF NonNegativeWaitAge
<1>3. steps \in Nat /\ fewer \in Nat /\ gain \in Nat /\ fewer + gain <= steps
  <2> HIDE DEF older, younger
  <2> DEFINE a == younger \div AgingInterval
             b == lead \div AgingInterval
             c == older \div AgingInterval
  <2>1. a \in Nat /\ b \in Nat /\ c \in Nat
    BY <1>0, <1>2, Division
  <2>2. a + b <= c
    <3>1. a + b <= (younger + lead) \div AgingInterval
      BY <1>0, <1>2, IntervalsAdd
    <3>2. PICK d \in Nat : d = older - (younger + lead)
      BY <1>2
    <3>3. ((younger + lead) \div AgingInterval) + (d \div AgingInterval)
             <= ((younger + lead) + d) \div AgingInterval
      <4>1. younger + lead \in Nat
        BY <1>2
      <4> QED
        BY <1>0, <3>2, <4>1, IntervalsAdd
    <3>4. (younger + lead) + d = older
      BY <1>2, <3>2
    <3>5. d \div AgingInterval \in Nat /\ (younger + lead) \div AgingInterval \in Nat
      BY <1>0, <1>2, <3>2, Division
    <3> QED
      BY <2>1, <3>1, <3>3, <3>4, <3>5
  <2> HIDE DEF a, b, c
  <2>3. (a + b) * AgingStep = a * AgingStep + b * AgingStep
    BY <1>0, <2>1
  <2>4. (a + b) * AgingStep <= c * AgingStep
    BY <1>0, <2>1, <2>2
  <2>5. a * AgingStep \in Nat /\ b * AgingStep \in Nat /\ c * AgingStep \in Nat
    BY <1>0, <2>1
  <2> QED
    BY <2>3, <2>4, <2>5 DEF a, b, c
<1>4. /\ AgingBoost(r.available, now) = Clamp(steps) /\ AgingBoost(r.available, now) \in Time
      /\ AgingBoost(s.available, now) = Clamp(fewer) /\ AgingBoost(s.available, now) \in Time
  BY <1>0, AgingRange
<1>5. p >= 0 /\ q - p <= gain
  OBVIOUS
<1> DEFINE mine == AgingBoost(r.available, now)
           theirs == AgingBoost(s.available, now)
           first == SaturatingAdd(p, mine)
           second == SaturatingAdd(q, theirs)
<1> HIDE DEF p, q, older, younger, steps, fewer, gain
<1>6. mine \in Int64 /\ theirs \in Int64
  BY <1>0, <1>4 DEF Time
<1>7. first \in Int64 /\ second \in Int64 /\ first = Clamp(p + mine) /\ second = Clamp(q + theirs)
  BY <1>1, <1>6, AddSaturates
<1>8. second <= first
  <2>1. CASE steps >= MaxInt64
    <3>1. mine = MaxInt64
      BY <1>0, <1>3, <1>4, <2>1 DEF Clamp
    <3>2. first = MaxInt64
      BY <1>0, <1>1, <1>5, <1>7, <3>1 DEF Clamp
    <3> QED
      BY <1>0, <1>7, <3>2
  <2>2. CASE steps < MaxInt64
    <3>1. mine = steps /\ theirs = fewer
      BY <1>0, <1>3, <1>4, <2>2 DEF Clamp
    <3>2. q + theirs <= p + mine
      BY <1>0, <1>1, <1>3, <1>5, <3>1
    <3> QED
      BY <1>1, <1>6, <3>2, AddMonotone
  <2> QED
    BY <1>0, <1>3, <2>1, <2>2
<1>9. EffectivePriority(r, now) = SaturatingAdd(first, RunNowBoost(r, now))
  BY DEF EffectivePriority, p, StaticPriority
<1>10. EffectivePriority(s, now) = SaturatingAdd(second, RunNowBoost(s, now))
  BY DEF EffectivePriority, q, StaticPriority
<1>11. RunNowBoost(s, now) = 0 /\ RunNowBoost(r, now) \in Int64 /\ RunNowBoost(r, now) >= 0
  <2>1. s.runNow \in Nat
    BY DEF Row
  <2>2. ~(s.runNow > now)
    BY <1>0, <2>1
  <2> QED
    BY <1>0, <2>2, OrderAssumption DEF RunNowBoost
<1>12. EffectivePriority(s, now) <= EffectivePriority(r, now)
  <2> HIDE DEF first, second
  <2>1. 0 \in Int64 /\ second + 0 <= first + RunNowBoost(r, now)
    BY <1>0, <1>7, <1>8, <1>11
  <2> QED
    BY <1>7, <1>9, <1>10, <1>11, <2>1, AddMonotone
<1>13. EffectivePriority(s, now) \in Int64 /\ EffectivePriority(r, now) \in Int64
  BY EffectivePriorityRange
<1>14. Earlier(r, s)
  BY <1>0 DEF Earlier
<1> QED
  BY <1>0, <1>12, <1>13, <1>14 DEF Before
=============================================================================
