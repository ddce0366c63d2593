------------------------------ MODULE RateLimiter ------------------------------
(***************************************************************************)
(* src/rate_limiter.cpp: one token bucket per client address.  is_allowed  *)
(* runs under mutex_ from beginning to end, so a call is one action.       *)
(*                                                                         *)
(* Time is counted in ticks, TicksPerMs of them to a millisecond, because  *)
(* refill_bucket truncates the elapsed time to whole milliseconds while it *)
(* moves last_refill to the exact present.  Tokens are counted in the      *)
(* amount that one request per second adds in a millisecond, so that the   *)
(* arithmetic is exact on integers: a request costs One (1000) of them and *)
(* a millisecond adds Rate (requests_per_second_).  Rounding of doubles    *)
(* is not modelled.  The setters (set_rate, set_burst_capacity,            *)
(* set_enabled) take no lock and have no caller; the limiter is enabled.   *)
(***************************************************************************)
EXTENDS Integers

CONSTANTS
  Ips,              \* client addresses without their port
  One,              \* the cost of a request
  Rate,             \* requests_per_second_
  Burst,            \* burst_capacity_
  TicksPerMs,
  CleanupInterval,  \* CLEANUP_INTERVAL_SECONDS, in ticks
  BucketExpiry,     \* BUCKET_EXPIRY_SECONDS, in ticks
  MaxTime,          \* bound: ticks a behaviour lasts
  NoBucket

ASSUME RateAssumption ==
  /\ One \in Nat \ {0} /\ Rate \in Nat /\ Burst \in Nat
  /\ TicksPerMs \in Nat \ {0}
  /\ CleanupInterval \in Nat /\ BucketExpiry \in Nat
  /\ MaxTime \in Nat
  /\ NoBucket \notin [tokens : Nat, last_refill : Nat]

VARIABLES
  buckets,       \* buckets_
  last_cleanup,  \* last_cleanup_
  now,           \* steady_clock
  waited,        \* history: ticks from a call that was refused just now back to
                 \* the call of the same address before it (a new address
                 \* counts as having waited long enough)
  since, passed  \* history: requests passed per address since some moment

limiterVars == <<buckets, last_cleanup>>
historyVars == <<waited, since, passed>>
vars == <<limiterVars, now, historyVars>>

Lesser(m, n) == IF m <= n THEN m ELSE n

\* The ticks in which one token comes in, in whole milliseconds.
TokenTime == TicksPerMs * (IF Rate = 0 THEN 0 ELSE (One + Rate - 1) \div Rate)

Init ==
  /\ buckets = [ip \in Ips |-> NoBucket]
  /\ last_cleanup = 0
  /\ now = 0
  /\ waited = 0
  /\ since = 0
  /\ passed = [ip \in Ips |-> 0]

-------------------------------------------------------------------------------
\* Mutant: a bucket may fill beyond its capacity.
refill_bucket_uncapped(b) ==
  [tokens |-> b.tokens + ((now - b.last_refill) \div TicksPerMs) * Rate,
   last_refill |-> now]

\* Mutant: the milliseconds are divided into seconds as integers (a second is
\* One milliseconds here).
refill_bucket_seconds(b) ==
  [tokens |-> Lesser(Burst, b.tokens
                       + ((now - b.last_refill) \div (TicksPerMs * One)) * One * Rate),
   last_refill |-> now]

refill_bucket(b) ==
  [tokens |-> Lesser(Burst, b.tokens + ((now - b.last_refill) \div TicksPerMs) * Rate),
   last_refill |-> now]

\* The buckets after the cleanup a call makes now and then: the ones nobody
\* has asked for lately are forgotten.
CleanupDue == now - last_cleanup >= CleanupInterval

cleanup_expired_buckets ==
  [ip \in Ips |->
     IF buckets[ip] # NoBucket /\ now - buckets[ip].last_refill >= BucketExpiry
     THEN NoBucket ELSE buckets[ip]]

\* Mutant: a fraction of a token is enough.
HasTokenFraction(b) == b.tokens > 0

HasToken(b) == b.tokens >= One

NewBucket == [tokens |-> Burst, last_refill |-> now]

is_allowed(ip) ==
  LET kept == IF CleanupDue THEN cleanup_expired_buckets ELSE buckets
      b == refill_bucket(IF kept[ip] = NoBucket THEN NewBucket ELSE kept[ip])
  IN  /\ last_cleanup' = IF CleanupDue THEN now ELSE last_cleanup
      /\ \/ /\ HasToken(b)
            /\ buckets' = [kept EXCEPT ![ip] = [b EXCEPT !.tokens = @ - One]]
            /\ passed' = [passed EXCEPT ![ip] = @ + 1]
            /\ waited' = 0
         \/ /\ ~HasToken(b)
            /\ buckets' = [kept EXCEPT ![ip] = b]
            /\ waited' = IF kept[ip] = NoBucket THEN TokenTime ELSE now - kept[ip].last_refill
            /\ UNCHANGED passed
      /\ UNCHANGED <<now, since>>

\* Time passes.
Tick ==
  /\ now < MaxTime
  /\ now' = now + 1
  /\ waited' = 0
  /\ UNCHANGED <<limiterVars, since, passed>>

\* An observer starts counting, at any moment.
StartCounting ==
  /\ since' = now
  /\ passed' = [ip \in Ips |-> 0]
  /\ UNCHANGED <<limiterVars, now, waited>>

Next == (\E ip \in Ips : is_allowed(ip)) \/ Tick \/ StartCounting

Spec == Init /\ [][Next]_vars

-------------------------------------------------------------------------------
(* Properties *)

TypeOK ==
  /\ buckets \in [Ips -> [tokens : Nat, last_refill : Nat] \cup {NoBucket}]
  /\ last_cleanup \in Nat /\ now \in Nat /\ since \in Nat
  /\ waited \in Nat
  /\ passed \in [Ips -> Nat]

\* An empty bucket is full again by the time it may be forgotten (3600 s).
RefilledBeforeExpiry == Burst <= Rate * (BucketExpiry \div TicksPerMs)

\* The limit itself: in any stretch of time an address passes no more requests
\* than its burst capacity and the rate times that time allow, although
\* buckets are forgotten and made anew.
WindowBound ==
  RefilledBeforeExpiry => \A ip \in Ips :
    passed[ip] * One * TicksPerMs <= Burst * TicksPerMs + Rate * (now - since)

\* Who gets through: the time between two calls is cut to whole milliseconds
\* (rate_limiter.cpp:58) and every call, a refused one too, starts it anew, so
\* calls in quick succession can go unpaid for ever; but whoever waits for the
\* time of one token, in whole milliseconds, after his last call is allowed.
RefusedOnlyInHaste == Rate > 0 /\ Burst >= One => waited < TokenTime
===============================================================================
