----------------------------- MODULE ClaimOrder -----------------------------
(***************************************************************************)
(* Which waiting row a claim takes (internal/scheduler/order.go and the    *)
(* SQL of the same formulas in internal/publication/eligibility.go): the   *)
(* libraries that have a row take turns, and within the library the row    *)
(* with the highest effective priority goes first.  No state is kept here. *)
(*                                                                         *)
(* Times are seconds.  A library is its id; 0 is the bucket of the rows    *)
(* without one, which the SQL ranks before every id.                       *)
(***************************************************************************)
EXTENDS Integers

CONSTANTS
    MaxInt64,       \* 2^63 - 1; smaller for TLC
    AgingInterval,  \* Policy.AgingIntervalSec
    AgingStep,      \* Policy.AgingStep
    RunNowAmount    \* Policy.RunNowAmount

\* Policy.Validate: the priority settings are positive.
ASSUME OrderAssumption ==
    /\ MaxInt64 \in Nat \ {0}
    /\ AgingInterval \in 1..MaxInt64
    /\ AgingStep \in 1..MaxInt64
    /\ RunNowAmount \in 1..MaxInt64

MinInt64 == -MaxInt64 - 1
Int64 == MinInt64..MaxInt64

-----------------------------------------------------------------------------
(* Effective priority.                                                     *)

SaturatingAdd(a, b) ==
    IF b > 0 /\ a > MaxInt64 - b THEN MaxInt64
    ELSE IF b < 0 /\ a < MinInt64 - b THEN MinInt64
    ELSE a + b

\* The wait ages, and so the aging steps, are not negative, nor is the step.
SaturatingMul(a, b) ==
    IF a = 0 \/ b = 0 THEN 0
    ELSE IF a > MaxInt64 \div b THEN MaxInt64
    ELSE a * b

NonNegativeWaitAge(available, now) == IF available > now THEN 0 ELSE now - available

AgingBoost(available, now) ==
    SaturatingMul(NonNegativeWaitAge(available, now) \div AgingInterval, AgingStep)

\* runNow is the time the boost expires; there is none if it is in the past.
RunNowBoost(row, now) == IF row.runNow > now THEN RunNowAmount ELSE 0

EffectivePriority(row, now) ==
    SaturatingAdd(SaturatingAdd(SaturatingAdd(row.base, row.priority),
                                AgingBoost(row.available, now)),
                  RunNowBoost(row, now))

-----------------------------------------------------------------------------
(* The order of the rows of one library.                                   *)

Row == [id : Nat, base : Int64, priority : Int64,
        available : Nat, created : Nat, runNow : Nat]

\* StableCompare, with the effective priorities.
Earlier(r, s) ==
    \/ r.available < s.available
    \/ r.available = s.available /\ r.created < s.created
    \/ r.available = s.available /\ r.created = s.created /\ r.id < s.id

Before(r, s, now) ==
    \/ EffectivePriority(r, now) > EffectivePriority(s, now)
    \/ EffectivePriority(r, now) = EffectivePriority(s, now) /\ Earlier(r, s)

-----------------------------------------------------------------------------
(* The order of the libraries.                                             *)

(* Fault: the rotation always starts from the first library.               *)
FirstBucket(cursor, buckets) == CHOOSE b \in buckets : \A c \in buckets : b <= c

(* The library after the one served last, cyclically, among those with a   *)
(* row; the first one if the library served last has no row any more.      *)
NextBucket(cursor, buckets) ==
    LET later == {b \in buckets : cursor \in buckets /\ cursor < b}
    IN CHOOSE b \in (IF later = {} THEN buckets ELSE later) :
           \A c \in (IF later = {} THEN buckets ELSE later) : b <= c
=============================================================================
