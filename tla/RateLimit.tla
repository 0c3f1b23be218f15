----------------------------- MODULE RateLimit -----------------------------
(***************************************************************************)
(* Rates over time. "bucket": the token-bucket limiter (include/op_ratelimit.h),     *)
(* whose tokens are stored scaled, in 32 bits; the bucket is refilled by whole       *)
(* tokens, and last_refill moves to the time of the call whether or not a token was   *)
(* added. "window": the sliding-window meter of src/wm.c, a ring of buckets, each      *)
(* holding the count of the events of one stretch of bucket_ms.                      *)
(***************************************************************************)
EXTENDS Integers, Sequences, FiniteSets, FiniteSetsExt

CONSTANTS
    Use,         \* "bucket" or "window"
    Capacity,    \* burst size
    RatePerSec,  \* sustained rate; 0: never refilled
    Second,      \* 1000000
    Scale,       \* OP_RATELIMIT_SCALE
    Word,        \* 2^32
    Window,      \* window_ms
    NBuckets,    \* n_buckets
    Counts,      \* the n of op_ratelimit_check_n, of op_wm_add
    Steps,       \* how far the clock moves between calls (negative: it was set back)
    Start,       \* the time of the first call
    MaxTime,     \* bound: time
    MaxCalls     \* bound: grants or additions remembered

(* What the constants have to satisfy. Above a rate of Second, which op_ratelimit_init      *)
(* accepts, rate_usec is 0 and the first refill divides by it.                           *)
RateLimitAssumption ==
    /\ Use \in {"bucket", "window"}
    /\ Capacity \in Nat /\ RatePerSec \in 0..Second /\ Second \in Nat /\ Scale \in Nat \ {0}
    /\ Word \in Nat \ {0} /\ Window \in Nat /\ NBuckets \in Nat
    /\ Counts \subseteq Nat /\ Steps \subseteq Int /\ Start \in Nat /\ MaxTime \in Nat
    /\ MaxCalls \in Nat

VARIABLES
    rl,      \* the limiter, [last_refill, tokens]; the meter's buckets, from 0, [ts_ms, count]
    now,     \* the reading the next call gets
    calls,   \* ghost: what was granted or added since the last reset, as <<time, n>> (drain: n = 0)
    told     \* ghost: the time of the refusal, or the count, just told; or -1

vars == <<rl, now, calls, told>>

-----------------------------------------------------------------------------
(* The limiter.                                                             *)

Unlimited == -1                  \* UINT64_MAX as rate_usec
rate_usec == IF RatePerSec > 0 THEN Second \div RatePerSec ELSE Unlimited
capacity == (Capacity * Scale) % Word

op_ratelimit_init == rl = [last_refill |-> Start, tokens |-> capacity]

(* A bug for comparison: the bucket is not capped.                              *)
RefillUncapped(t) ==
    LET elapsed == IF t > rl.last_refill THEN t - rl.last_refill ELSE 0
        total == rl.tokens + (elapsed \div rate_usec) * Scale
    IN  IF rate_usec # Unlimited /\ elapsed > 0 THEN total % Word ELSE rl.tokens

Refill(t) ==
    LET elapsed == IF t > rl.last_refill THEN t - rl.last_refill ELSE 0
        total == rl.tokens + (elapsed \div rate_usec) * Scale
    IN  IF rate_usec # Unlimited /\ elapsed > 0 THEN Min({total, capacity}) ELSE rl.tokens

cost(n) == (n * Scale) % Word

op_ratelimit_check_n(n) ==
    LET ok == Refill(now) >= cost(n)
    IN  /\ Len(calls) < MaxCalls
        /\ rl' = [last_refill |-> now, tokens |-> Refill(now) - IF ok THEN cost(n) ELSE 0]
        /\ calls' = IF ok THEN Append(calls, <<now, n>>) ELSE calls
        /\ told' = IF ok THEN -1 ELSE now
        /\ UNCHANGED now

op_ratelimit_check == op_ratelimit_check_n(1)

op_ratelimit_reset ==
    /\ rl' = [last_refill |-> now, tokens |-> capacity]
    /\ calls' = <<>> /\ told' = -1 /\ UNCHANGED now

op_ratelimit_drain ==
    /\ Len(calls) < MaxCalls
    /\ rl' = [rl EXCEPT !.tokens = 0]
    /\ calls' = Append(calls, <<now, 0>>)
    /\ told' = -1 /\ UNCHANGED now

-----------------------------------------------------------------------------
(* The meter.                                                               *)

n_buckets == Max({NBuckets, 1})
window_ms == Max({Window, 1})
bucket_ms == Max({window_ms \div n_buckets, 1})
Empty == [ts_ms |-> 0, count |-> 0]

wm_setup == rl = [i \in 0..n_buckets - 1 |-> Empty]

advance == [i \in 0..n_buckets - 1 |-> IF now >= rl[i].ts_ms + window_ms THEN Empty ELSE rl[i]]

op_wm_add(n) ==
    LET idx == (now \div bucket_ms) % n_buckets
        epoch == (now \div bucket_ms) * bucket_ms
        held == IF advance[idx].ts_ms = epoch THEN advance[idx].count ELSE 0
    IN  /\ Len(calls) < MaxCalls
        /\ rl' = [advance EXCEPT ![idx] = [ts_ms |-> epoch, count |-> held + n]]
        /\ calls' = Append(calls, <<now, n>>)
        /\ told' = -1 /\ UNCHANGED now

op_wm_tick == rl' = advance /\ told' = -1 /\ UNCHANGED <<now, calls>>

op_wm_reset ==
    /\ rl' = [i \in 0..n_buckets - 1 |-> Empty]
    /\ calls' = <<>> /\ told' = -1 /\ UNCHANGED now

op_wm_count ==
    /\ rl' = advance
    /\ told' = MapThenSumSet(LAMBDA i : advance[i].count, 0..n_buckets - 1)
    /\ UNCHANGED <<now, calls>>

-----------------------------------------------------------------------------
(* op_current_time_usec and now_ms: the clock the next call reads.              *)
ClockMoves ==
    /\ \E d \in Steps : now + d \in 0..MaxTime /\ now' = now + d
    /\ told' = -1 /\ UNCHANGED <<rl, calls>>

Init ==
    /\ IF Use = "bucket" THEN op_ratelimit_init ELSE wm_setup
    /\ now = Start /\ calls = <<>> /\ told = -1

BucketNext ==
    \/ op_ratelimit_check
    \/ \E n \in Counts : op_ratelimit_check_n(n)
    \/ op_ratelimit_reset \/ op_ratelimit_drain

WindowNext == (\E n \in Counts : op_wm_add(n)) \/ op_wm_tick \/ op_wm_reset \/ op_wm_count

Next == (Use = "bucket" /\ BucketNext) \/ (Use = "window" /\ WindowNext) \/ ClockMoves
Spec == Init /\ [][Next]_vars

-----------------------------------------------------------------------------
(* The limiter's or the meter's state is well formed.                           *)
TypeOK ==
    /\ now \in 0..MaxTime
    /\ Use = "bucket" => rl.tokens \in 0..Word - 1 /\ rl.last_refill \in 0..MaxTime
    /\ Use = "window" => /\ DOMAIN rl = 0..n_buckets - 1
                         /\ \A i \in 0..n_buckets - 1 : rl[i].ts_ms \in 0..MaxTime

SumOf(which) == MapThenSumSet(LAMBDA k : calls[k][2], which)

Charged(which) == MapThenSumSet(LAMBDA k : cost(calls[k][2]), which)

(* Between any two grants of op_ratelimit_check_n no more is charged than a full bucket and         *)
(* what the rate adds in the time between them, however the calls are spaced, and what is            *)
(* charged is what was granted as long as n * SCALE fits 32 bits. A larger n is charged less          *)
(* and granted, though op_ratelimit.h:137 says "Returns false if fewer than n tokens are             *)
(* available".                                                                              *)
NeverOver ==
    \A i, j \in DOMAIN calls : i <= j =>
        LET room == Capacity + IF rate_usec = Unlimited THEN 0
                               ELSE Max({0, calls[j][1] - calls[i][1]}) \div rate_usec
        IN  /\ Charged(i..j) <= room * Scale
            /\ SumOf(i..j) > room => \E k \in i..j : calls[k][2] * Scale >= Word

(* The bucket refills at a constant rate: a user who has been granted nothing for the time         *)
(* one token takes is not refused one.                                                     *)
RefusedOnlyWithin ==
    told # -1 /\ calls # <<>> /\ Counts = {} /\ Capacity > 0 /\ rate_usec # Unlimited
        => told - calls[Len(calls)][1] < rate_usec

Added(test(_)) == SumOf({i \in DOMAIN calls : test(now - calls[i][1])})

(* op_wm_count counts each event once, nothing as old as the window, and everything younger        *)
(* than the buckets reach back, less the one being filled (their lengths add up to window_ms        *)
(* when n_buckets divides it), whenever expired buckets were pruned.                         *)
CountExact ==
    told # -1 =>
        /\ told <= Added(LAMBDA age : age < window_ms)
        /\ told >= Added(LAMBDA age : age <= Min({n_buckets * bucket_ms, window_ms}) - bucket_ms)

(* What each promises.                                                      *)
RatesExact == IF Use = "bucket" THEN NeverOver ELSE CountExact
=============================================================================
