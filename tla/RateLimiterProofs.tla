--------------------------- MODULE RateLimiterProofs ---------------------------
(***************************************************************************)
(* Proofs about RateLimiter, for every rate, burst capacity, clock         *)
(* resolution and expiry, any number of addresses and any length of run.   *)
(*                                                                         *)
(* WindowBound speaks of a stretch of time that began at any moment, and   *)
(* of buckets that may have been forgotten and made anew in it.  CreditInv *)
(* carries it over a step: what an address has passed and what is left in  *)
(* its bucket have come from one full bucket and the rate, up to the last  *)
(* refill; an address without a bucket could be given a full one.          *)
(***************************************************************************)
EXTENDS RateLimiter, TLAPS

-------------------------------------------------------------------------------
(* Arithmetic *)

\* Products grow with their factors.
LEMMA TimesMonotone ==
  ASSUME NEW a \in Nat, NEW b \in Nat, NEW c \in Nat, a <= b
  PROVE  a * c <= b * c /\ c * a <= c * b /\ a * c \in Nat /\ c * a = a * c
  OBVIOUS

\* Cutting a time to whole milliseconds makes it no longer.
LEMMA WholePart ==
  ASSUME NEW n \in Nat, NEW d \in Nat \ {0}
  PROVE  n \div d \in Nat /\ (n \div d) * d <= n /\ n < (n \div d + 1) * d
  OBVIOUS

\* A whole number of milliseconds is not cut.
LEMMA WholeMilliseconds ==
  ASSUME NEW n \in Nat, NEW d \in Nat \ {0}, NEW m \in Nat, d * m <= n
  PROVE  m <= n \div d
<1>1. n \div d \in Nat /\ n < (n \div d + 1) * d
  BY WholePart
<1>2. SUFFICES ASSUME n \div d + 1 <= m PROVE FALSE
  BY <1>1
<1>3. (n \div d + 1) * d <= m * d
  BY <1>1, <1>2, TimesMonotone
<1> QED
  BY <1>1, <1>3

-------------------------------------------------------------------------------
(* The inductive invariant *)

\* A bucket holds at most a burst and was refilled in the past.
BucketInv ==
  /\ since <= now
  /\ \A ip \in Ips :
       buckets[ip] # NoBucket =>
         buckets[ip].tokens <= Burst /\ buckets[ip].last_refill <= now

\* Bucket b of an address that has passed p requests: the tokens in it and those
\* spent are covered by one burst and the rate.  An address without a bucket
\* could be given a full one.
Credit(b, p) ==
  /\ b = NoBucket => p * One * TicksPerMs <= Rate * (now - since)
  /\ b # NoBucket /\ b.last_refill < since => p = 0
  /\ b # NoBucket /\ b.last_refill >= since =>
       p * One * TicksPerMs + b.tokens * TicksPerMs
         <= Burst * TicksPerMs + Rate * (b.last_refill - since)

CreditInv == \A ip \in Ips : Credit(buckets[ip], passed[ip])

IInv ==
  /\ TypeOK /\ BucketInv
  /\ RefilledBeforeExpiry => CreditInv
  /\ RefusedOnlyInHaste

Buckets == [tokens : Nat, last_refill : Nat]

\* What a call does to a bucket that is there: the refill, which pays no more
\* than the rate, and the token that a request passed takes out.
LEMMA Refill ==
  ASSUME NEW b \in Buckets, b.tokens <= Burst, b.last_refill <= now, now \in Nat
  PROVE  LET r == refill_bucket(b)
         IN  /\ r \in Buckets /\ r.tokens <= Burst /\ r.last_refill = now
             /\ r.tokens * TicksPerMs <= b.tokens * TicksPerMs + Rate * (now - b.last_refill)
<1> DEFINE dt == now - b.last_refill
           ms == dt \div TicksPerMs
<1>1. dt \in Nat /\ TicksPerMs \in Nat \ {0} /\ Rate \in Nat /\ Burst \in Nat /\ b.tokens \in Nat
  BY RateAssumption DEF Buckets
<1>2. ms \in Nat /\ ms * TicksPerMs <= dt
  BY <1>1, WholePart
<1> HIDE DEF dt, ms
<1>3. ms * Rate \in Nat /\ Rate * (ms * TicksPerMs) <= Rate * dt
  BY <1>1, <1>2, TimesMonotone
<1>4. (b.tokens + ms * Rate) * TicksPerMs <= b.tokens * TicksPerMs + Rate * dt
  BY <1>1, <1>2, <1>3
<1>5. Lesser(Burst, b.tokens + ms * Rate) \in Nat
      /\ Lesser(Burst, b.tokens + ms * Rate) <= Burst
      /\ Lesser(Burst, b.tokens + ms * Rate) <= b.tokens + ms * Rate
  BY <1>1, <1>3 DEF Lesser
<1>6. Lesser(Burst, b.tokens + ms * Rate) * TicksPerMs <= b.tokens * TicksPerMs + Rate * dt
  BY <1>1, <1>3, <1>4, <1>5, TimesMonotone
<1>7. refill_bucket(b) = [tokens |-> Lesser(Burst, b.tokens + ms * Rate), last_refill |-> now]
  BY DEF refill_bucket, dt, ms
<1> QED
  BY <1>5, <1>6, <1>7 DEF Buckets, dt

\* A bucket that is forgotten would have been full.
LEMMA Forgotten ==
  ASSUME RefilledBeforeExpiry, now \in Nat, since \in Nat, since <= now,
         NEW b \in Buckets, b.last_refill <= now, NEW p \in Nat, Credit(b, p),
         now - b.last_refill >= BucketExpiry
  PROVE  Credit(NoBucket, p)
<1>1. /\ TicksPerMs \in Nat \ {0} /\ Rate \in Nat /\ Burst \in Nat /\ BucketExpiry \in Nat
      /\ One \in Nat /\ b.tokens \in Nat /\ b.last_refill \in Nat /\ b # NoBucket
  BY RateAssumption DEF Buckets
<1>2. BucketExpiry \div TicksPerMs \in Nat
      /\ (BucketExpiry \div TicksPerMs) * TicksPerMs <= BucketExpiry
  BY <1>1, WholePart
<1> DEFINE e == BucketExpiry \div TicksPerMs
           q == p * One * TicksPerMs
<1>3. Burst * TicksPerMs <= Rate * (now - b.last_refill)
  <2> HIDE DEF e
  <2>1. e \in Nat /\ e * TicksPerMs <= BucketExpiry /\ Burst <= Rate * e
    BY <1>2 DEF e, RefilledBeforeExpiry
  <2>2. Burst * TicksPerMs <= (Rate * e) * TicksPerMs
    BY <1>1, <2>1, TimesMonotone
  <2>3. (Rate * e) * TicksPerMs = Rate * (e * TicksPerMs)
    BY <1>1, <2>1
  <2>4. Rate * (e * TicksPerMs) <= Rate * (now - b.last_refill)
    BY <1>1, <2>1, TimesMonotone
  <2> QED
    BY <1>1, <2>1, <2>2, <2>3, <2>4
<1>4. q <= Rate * (now - since)
  <2>1. CASE b.last_refill < since
    <3>1. p = 0 /\ now - since \in Nat
      BY <1>1, <2>1 DEF Credit
    <3> QED
      BY <1>1, <3>1
  <2>2. CASE b.last_refill >= since
    <3>1. q + b.tokens * TicksPerMs <= Burst * TicksPerMs + Rate * (b.last_refill - since)
      BY <1>1, <2>2 DEF Credit
    <3>2. Rate * (now - b.last_refill) + Rate * (b.last_refill - since) = Rate * (now - since)
      BY <1>1
    <3>3. b.tokens * TicksPerMs \in Nat /\ q \in Nat
      BY <1>1
    <3> HIDE DEF q
    <3> QED
      BY <1>1, <1>3, <3>1, <3>2, <3>3
  <2> QED
    BY <1>1, <2>1, <2>2
<1> QED
  BY <1>1, <1>4 DEF Credit

\* A refill, or a new bucket, keeps to the credit.
LEMMA CreditRefilled ==
  ASSUME now \in Nat, since \in Nat, since <= now, NEW p \in Nat,
         NEW c \in Buckets \cup {NoBucket}, Credit(c, p),
         c # NoBucket => c.tokens <= Burst /\ c.last_refill <= now
  PROVE  Credit(refill_bucket(IF c = NoBucket THEN NewBucket ELSE c), p)
<1> DEFINE b == IF c = NoBucket THEN NewBucket ELSE c
           r == refill_bucket(b)
           q == p * One * TicksPerMs
<1>1. /\ TicksPerMs \in Nat \ {0} /\ Rate \in Nat /\ Burst \in Nat /\ One \in Nat
      /\ now - since \in Nat
  BY RateAssumption
<1>2. b \in Buckets /\ b.tokens <= Burst /\ b.last_refill <= now /\ b # NoBucket
  BY <1>1, RateAssumption DEF NewBucket, Buckets
<1>3. /\ r \in Buckets /\ r.tokens <= Burst /\ r.last_refill = now /\ r # NoBucket
      /\ r.tokens * TicksPerMs <= b.tokens * TicksPerMs + Rate * (now - b.last_refill)
  BY <1>2, Refill, RateAssumption DEF Buckets
<1>4. q \in Nat /\ r.tokens \in Nat /\ r.tokens * TicksPerMs \in Nat
      /\ r.tokens * TicksPerMs <= Burst * TicksPerMs /\ Rate * (now - since) \in Nat
      /\ Burst * TicksPerMs \in Nat
  <2>1. r.tokens \in Nat
    BY <1>3 DEF Buckets
  <2> HIDE DEF r
  <2> QED
    BY <1>1, <1>3, <2>1, TimesMonotone
<1>5. q + r.tokens * TicksPerMs <= Burst * TicksPerMs + Rate * (now - since)
  <2>1. CASE c = NoBucket
    <3>1. q <= Rate * (now - since)
      BY <2>1 DEF Credit
    <3> HIDE DEF q, r
    <3> QED
      BY <1>4, <3>1
  <2>2. CASE c # NoBucket /\ c.last_refill < since
    <3>1. p = 0
      BY <2>2 DEF Credit
    <3>2. q = 0
      BY <1>1, <3>1
    <3> HIDE DEF q, r
    <3> QED
      BY <1>4, <3>2
  <2>3. CASE c # NoBucket /\ c.last_refill >= since
    <3>0. b = c /\ c.last_refill \in Nat /\ c.tokens \in Nat
      BY <2>3 DEF Buckets
    <3>1. q + c.tokens * TicksPerMs <= Burst * TicksPerMs + Rate * (c.last_refill - since)
      BY <2>3 DEF Credit
    <3>2. Rate * (now - c.last_refill) + Rate * (c.last_refill - since) = Rate * (now - since)
      BY <1>1, <3>0
    <3>3. r.tokens * TicksPerMs <= c.tokens * TicksPerMs + Rate * (now - c.last_refill)
      BY <1>3, <3>0
    <3>4. Rate * (now - c.last_refill) \in Nat /\ Rate * (c.last_refill - since) \in Nat
          /\ c.tokens * TicksPerMs \in Nat
      BY <1>1, <1>2, <2>3, <3>0
    <3> HIDE DEF q, r
    <3> QED
      BY <1>4, <3>1, <3>2, <3>3, <3>4
  <2> QED
    BY <1>1, <2>1, <2>2, <2>3 DEF Buckets
<1> HIDE DEF r
<1>6. Credit(r, p)
  BY <1>1, <1>3, <1>5 DEF Credit
<1> QED
  BY <1>6 DEF r

\* A request that is passed is paid for.
LEMMA CreditPaid ==
  ASSUME now \in Nat, since \in Nat, since <= now, NEW p \in Nat, NEW r \in Buckets,
         r.last_refill = now, r.tokens >= One, Credit(r, p)
  PROVE  Credit([r EXCEPT !.tokens = @ - One], p + 1)
<1>1. TicksPerMs \in Nat /\ One \in Nat /\ r.tokens \in Nat /\ r # NoBucket
  BY RateAssumption DEF Buckets
<1>2. (p + 1) * One * TicksPerMs + (r.tokens - One) * TicksPerMs
        = p * One * TicksPerMs + r.tokens * TicksPerMs
  BY <1>1
<1>3. [r EXCEPT !.tokens = @ - One] \in Buckets
  BY <1>1 DEF Buckets
<1>4. [r EXCEPT !.tokens = @ - One] # NoBucket
  BY <1>3, RateAssumption DEF Buckets
<1>5. [r EXCEPT !.tokens = @ - One].tokens = r.tokens - One
      /\ [r EXCEPT !.tokens = @ - One].last_refill = now
  BY DEF Buckets
<1> QED
  BY <1>1, <1>2, <1>4, <1>5 DEF Credit

\* The buckets that a call finds after its cleanup.
Kept == IF CleanupDue THEN cleanup_expired_buckets ELSE buckets

\* The cleanup forgets some buckets and leaves the others alone.
LEMMA CleanupKeeps ==
  ASSUME TypeOK, BucketInv
  PROVE  /\ Kept \in [Ips -> Buckets \cup {NoBucket}]
         /\ \A j \in Ips : Kept[j] # NoBucket => Kept[j].tokens <= Burst /\ Kept[j].last_refill <= now
         /\ RefilledBeforeExpiry /\ CreditInv => \A j \in Ips : Credit(Kept[j], passed[j])
<1>1. buckets \in [Ips -> Buckets \cup {NoBucket}]
  BY DEF TypeOK, Buckets
<1>2. ASSUME NEW j \in Ips
      PROVE  \/ Kept[j] = buckets[j]
             \/ /\ Kept[j] = NoBucket /\ buckets[j] \in Buckets
                /\ now - buckets[j].last_refill >= BucketExpiry
  BY <1>1 DEF Kept, cleanup_expired_buckets
<1>3. Kept \in [Ips -> Buckets \cup {NoBucket}]
  BY <1>1 DEF Kept, cleanup_expired_buckets
<1>4. ASSUME NEW j \in Ips, Kept[j] # NoBucket
      PROVE  Kept[j].tokens <= Burst /\ Kept[j].last_refill <= now
  BY <1>2, <1>4 DEF BucketInv
<1>5. ASSUME RefilledBeforeExpiry, CreditInv, NEW j \in Ips PROVE Credit(Kept[j], passed[j])
  <2>0. Credit(buckets[j], passed[j]) /\ passed[j] \in Nat /\ now \in Nat /\ since \in Nat
        /\ since <= now
    BY <1>5 DEF CreditInv, TypeOK, BucketInv
  <2>1. CASE Kept[j] = buckets[j]
    BY <2>0, <2>1
  <2>2. CASE /\ Kept[j] = NoBucket /\ buckets[j] \in Buckets
             /\ now - buckets[j].last_refill >= BucketExpiry
    <3>1. buckets[j].last_refill <= now
      BY <2>2, RateAssumption DEF BucketInv, Buckets
    <3> QED
      BY <1>5, <2>0, <2>2, <3>1, Forgotten
  <2> QED
    BY <1>2, <2>1, <2>2
<1> QED
  BY <1>3, <1>4, <1>5

\* A bucket that was not asked for during the time of a token has one.
LEMMA WaitingPays ==
  ASSUME now \in Nat, NEW c \in Buckets, c.last_refill <= now, Rate > 0, Burst >= One,
         now - c.last_refill >= TokenTime
  PROVE  refill_bucket(c).tokens >= One
<1> DEFINE dt == now - c.last_refill
           ms == dt \div TicksPerMs
           need == (One + Rate - 1) \div Rate
<1>1. /\ dt \in Nat /\ TicksPerMs \in Nat \ {0} /\ Rate \in Nat \ {0} /\ Burst \in Nat
      /\ One \in Nat \ {0} /\ c.tokens \in Nat
  BY RateAssumption DEF Buckets
<1>2. need \in Nat /\ One + Rate - 1 < (need + 1) * Rate
  <2>1. One + Rate - 1 \in Nat
    BY <1>1
  <2> QED
    BY <1>1, <2>1, WholePart
<1>3. TicksPerMs * need <= dt
  BY <1>1 DEF TokenTime
<1>4. ms \in Nat /\ need <= ms
  BY <1>1, <1>2, <1>3, WholePart, WholeMilliseconds
<1> HIDE DEF need, ms
<1>5. need * Rate <= ms * Rate /\ need * Rate \in Nat /\ ms * Rate \in Nat
  BY <1>1, <1>2, <1>4, TimesMonotone
<1>6. (need + 1) * Rate = need * Rate + Rate
  BY <1>1, <1>2
<1>7. One <= ms * Rate
  BY <1>1, <1>2, <1>5, <1>6
<1>8. Lesser(Burst, c.tokens + ms * Rate) >= One
  BY <1>1, <1>5, <1>7 DEF Lesser
<1> QED
  BY <1>8 DEF refill_bucket, ms

-------------------------------------------------------------------------------
(* The steps *)

\* A call, allowed or refused.
LEMMA CallStep ==
  ASSUME IInv, NEW ip \in Ips, is_allowed(ip)
  PROVE  IInv'
<1> DEFINE c == Kept[ip]
           b == refill_bucket(IF c = NoBucket THEN NewBucket ELSE c)
           d == IF HasToken(b) THEN [b EXCEPT !.tokens = @ - One] ELSE b
<1>1. TypeOK /\ BucketInv /\ now \in Nat /\ since \in Nat /\ since <= now
      /\ passed \in [Ips -> Nat] /\ One \in Nat /\ Burst \in Nat
  BY RateAssumption DEF IInv, TypeOK, BucketInv
<1>2. /\ Kept \in [Ips -> Buckets \cup {NoBucket}]
      /\ \A j \in Ips : Kept[j] # NoBucket => Kept[j].tokens <= Burst /\ Kept[j].last_refill <= now
  BY <1>1, CleanupKeeps
<1>3. b \in Buckets /\ b.tokens <= Burst /\ b.last_refill = now
  <2>1. NewBucket \in Buckets /\ NewBucket.tokens <= Burst /\ NewBucket.last_refill <= now
    BY <1>1 DEF NewBucket, Buckets
  <2>2. CASE c = NoBucket
    BY <1>1, <2>1, <2>2, Refill
  <2>3. CASE c # NoBucket
    <3>1. c \in Buckets /\ c.tokens <= Burst /\ c.last_refill <= now
      BY <1>2, <2>3
    <3> HIDE DEF c
    <3> QED
      BY <1>1, <2>3, <3>1, Refill
  <2> QED
    BY <2>2, <2>3
<1>4. /\ UNCHANGED <<now, since>>
      /\ buckets' = [Kept EXCEPT ![ip] = d]
      /\ passed' = IF HasToken(b) THEN [passed EXCEPT ![ip] = @ + 1] ELSE passed
      /\ waited' = IF HasToken(b) THEN 0
                   ELSE IF c = NoBucket THEN TokenTime ELSE now - c.last_refill
      /\ last_cleanup' \in {now, last_cleanup}
  BY DEF is_allowed, Kept
<1>5. d \in Buckets /\ d.tokens <= Burst /\ d.last_refill = now
  <2> HIDE DEF b
  <2> QED
    BY <1>1, <1>3 DEF HasToken, Buckets
<1>6. BucketInv'
  <2> HIDE DEF b, d
  <2> QED
    BY <1>1, <1>2, <1>4, <1>5 DEF BucketInv
<1>7. RefilledBeforeExpiry => CreditInv'
  <2>1. SUFFICES ASSUME RefilledBeforeExpiry, NEW j \in Ips
                 PROVE  Credit(buckets[j], passed[j])'
    BY DEF CreditInv
  <2>2. CreditInv /\ Credit(Kept[j], passed[j]) /\ Credit(c, passed[ip])
    BY <1>1, <2>1, CleanupKeeps DEF IInv
  <2>3. CASE j # ip
    <3>1. buckets'[j] = Kept[j] /\ passed'[j] = passed[j]
      <4> HIDE DEF b, d
      <4> QED
        BY <1>1, <1>2, <1>4, <2>3
    <3> QED
      BY <1>4, <2>2, <3>1 DEF Credit
  <2>4. CASE j = ip
    <3>1. Credit(b, passed[ip])
      <4>1. c \in Buckets \cup {NoBucket} /\ passed[ip] \in Nat
            /\ (c # NoBucket => c.tokens <= Burst /\ c.last_refill <= now)
        BY <1>1, <1>2
      <4> HIDE DEF c
      <4> QED
        BY <1>1, <2>2, <4>1, CreditRefilled
    <3>2. Credit(d, passed'[ip])
      <4> HIDE DEF b
      <4>1. CASE HasToken(b)
        <5>1. b.tokens >= One /\ d = [b EXCEPT !.tokens = @ - One] /\ passed'[ip] = passed[ip] + 1
          BY <1>1, <1>4, <4>1 DEF HasToken
        <5>2. passed[ip] \in Nat
          BY <1>1
        <5> HIDE DEF d
        <5> QED
          BY <1>1, <1>3, <3>1, <5>1, <5>2, CreditPaid
      <4>2. CASE ~HasToken(b)
        BY <1>4, <3>1, <4>2
      <4> QED
        BY <4>1, <4>2
    <3>3. buckets'[ip] = d
      <4> HIDE DEF b, d
      <4> QED
        BY <1>2, <1>4
    <3> HIDE DEF d
    <3> QED
      BY <1>4, <2>4, <3>2, <3>3 DEF Credit
  <2> QED
    BY <2>3, <2>4
<1>8. RefusedOnlyInHaste'
  <2>1. SUFFICES ASSUME Rate > 0, Burst >= One PROVE waited' < TokenTime
    BY DEF RefusedOnlyInHaste
  <2>2. TokenTime \in Nat /\ 0 < TokenTime
    <3>1. One + Rate - 1 \in Nat /\ Rate \in Nat \ {0} /\ Rate <= One + Rate - 1
          /\ TicksPerMs \in Nat \ {0}
      BY <2>1, RateAssumption
    <3>2. 1 <= (One + Rate - 1) \div Rate /\ (One + Rate - 1) \div Rate \in Nat
      BY <3>1, WholePart, WholeMilliseconds
    <3> QED
      BY <2>1, <3>1, <3>2 DEF TokenTime
  <2>3. CASE HasToken(b)
    BY <1>4, <2>2, <2>3
  <2>4. CASE ~HasToken(b)
    <3>1. c # NoBucket
      <4>1. SUFFICES ASSUME c = NoBucket PROVE b.tokens >= One
        BY <2>4 DEF HasToken
      <4>2. b = [tokens |-> Lesser(Burst, Burst + (0 \div TicksPerMs) * Rate), last_refill |-> now]
        BY <1>1, <4>1 DEF refill_bucket, NewBucket
      <4>3. 0 \div TicksPerMs = 0
        BY RateAssumption
      <4>4. Lesser(Burst, Burst + (0 \div TicksPerMs) * Rate) = Burst
        BY <1>1, <4>3, RateAssumption DEF Lesser
      <4> QED
        BY <2>1, <4>2, <4>4
    <3>2. c \in Buckets /\ c.last_refill <= now /\ b = refill_bucket(c) /\ c.last_refill \in Nat
      BY <1>2, <3>1 DEF Buckets
    <3>3. waited' = now - c.last_refill
      BY <1>4, <2>4, <3>1
    <3>4. ~(b.tokens >= One)
      BY <2>4 DEF HasToken
    <3> HIDE DEF b, c
    <3>5. ~(now - c.last_refill >= TokenTime)
      BY <1>1, <2>1, <3>2, <3>4, WaitingPays
    <3> QED
      BY <1>1, <2>2, <3>2, <3>3, <3>5
  <2> QED
    BY <2>3, <2>4
<1>9. TypeOK'
  <2> HIDE DEF b, d
  <2>1. buckets' \in [Ips -> Buckets \cup {NoBucket}]
    BY <1>2, <1>4, <1>5
  <2>2. passed' \in [Ips -> Nat]
    BY <1>1, <1>4
  <2>3. last_cleanup' \in Nat /\ now' \in Nat /\ since' \in Nat
    BY <1>1, <1>4 DEF TypeOK
  <2>4. waited' \in Nat
    <3>1. TokenTime \in Nat
      <4>1. CASE Rate = 0
        BY <4>1, RateAssumption DEF TokenTime
      <4>2. CASE Rate # 0
        <5>1. One + Rate - 1 \in Nat /\ Rate \in Nat \ {0} /\ TicksPerMs \in Nat
          BY <4>2, RateAssumption
        <5>2. (One + Rate - 1) \div Rate \in Nat
          BY <5>1, WholePart
        <5> QED
          BY <4>2, <5>1, <5>2 DEF TokenTime
      <4> QED
        BY <4>1, <4>2
    <3>2. c # NoBucket => now - c.last_refill \in Nat
      BY <1>1, <1>2 DEF Buckets
    <3> HIDE DEF c
    <3> QED
      BY <1>4, <3>1, <3>2
  <2> QED
    BY <2>1, <2>2, <2>3, <2>4 DEF TypeOK, Buckets
<1>10. RefilledBeforeExpiry' <=> RefilledBeforeExpiry
  BY DEF RefilledBeforeExpiry
<1> QED
  BY <1>6, <1>7, <1>8, <1>9, <1>10 DEF IInv

\* Time passing widens every bound, and an observer may start at any moment.
LEMMA ClockStep ==
  ASSUME IInv, Tick \/ StartCounting
  PROVE  IInv'
<1>0. /\ TypeOK /\ BucketInv /\ RefusedOnlyInHaste
      /\ now \in Nat /\ since \in Nat /\ since <= now /\ passed \in [Ips -> Nat]
      /\ buckets \in [Ips -> Buckets \cup {NoBucket}]
      /\ One \in Nat /\ Burst \in Nat /\ Rate \in Nat /\ TicksPerMs \in Nat
  BY RateAssumption DEF IInv, TypeOK, BucketInv, Buckets
<1>1. CASE Tick
  <2>1. now' = now + 1 /\ waited' = 0 /\ UNCHANGED <<buckets, last_cleanup, since, passed>>
    BY <1>1 DEF Tick, limiterVars
  <2>2. TypeOK'
    BY <1>0, <2>1 DEF TypeOK
  <2>3. BucketInv'
    BY <1>0, <2>1 DEF BucketInv, Buckets
  <2>4. ASSUME RefilledBeforeExpiry PROVE CreditInv'
    <3>1. ASSUME NEW ip \in Ips PROVE Credit(buckets[ip], passed[ip])'
      <4>1. Credit(buckets[ip], passed[ip]) /\ passed[ip] \in Nat
        BY <1>0, <2>4 DEF IInv, CreditInv
      <4>2. Rate * (now' - since) = Rate * (now - since) + Rate
        BY <1>0, <2>1
      <4>3. /\ passed[ip] * One * TicksPerMs \in Nat
            /\ Rate * (now - since) \in Nat
        BY <1>0, <4>1
      <4>4. passed[ip] * One * TicksPerMs <= Rate * (now - since) =>
              passed[ip] * One * TicksPerMs <= Rate * (now' - since)
        BY <1>0, <4>2, <4>3
      <4> QED
        BY <2>1, <4>1, <4>4 DEF Credit
    <3> QED
      BY <3>1 DEF CreditInv
  <2>5. RefusedOnlyInHaste'
    BY <1>0, <2>1 DEF RefusedOnlyInHaste, TypeOK, TokenTime
  <2> QED
    BY <2>2, <2>3, <2>4, <2>5 DEF IInv, RefilledBeforeExpiry
<1>2. CASE StartCounting
  <2>1. since' = now /\ passed' = [ip \in Ips |-> 0]
        /\ UNCHANGED <<buckets, last_cleanup, now, waited>>
    BY <1>2 DEF StartCounting, limiterVars
  <2>2. TypeOK' /\ BucketInv' /\ RefusedOnlyInHaste'
    BY <1>0, <2>1 DEF TypeOK, BucketInv, RefusedOnlyInHaste, TokenTime
  <2>3. CreditInv'
    <3>1. ASSUME NEW ip \in Ips PROVE Credit(buckets[ip], passed[ip])'
      <4>1. passed'[ip] = 0 /\ passed'[ip] * One * TicksPerMs = 0 /\ Rate * (now - now) = 0
        BY <1>0, <2>1
      <4>2. CASE buckets[ip] = NoBucket
        BY <1>0, <2>1, <4>1, <4>2 DEF Credit
      <4>3. CASE buckets[ip] # NoBucket
        <5>1. buckets[ip].tokens \in Nat /\ buckets[ip].tokens <= Burst
              /\ buckets[ip].last_refill \in Nat /\ buckets[ip].last_refill <= now
          BY <1>0, <4>3 DEF BucketInv, Buckets
        <5>2. buckets[ip].tokens * TicksPerMs <= Burst * TicksPerMs
              /\ buckets[ip].tokens * TicksPerMs \in Nat /\ Burst * TicksPerMs \in Nat
          BY <1>0, <5>1, TimesMonotone
        <5>3. buckets[ip].last_refill >= now => buckets[ip].last_refill = now
          BY <1>0, <5>1
        <5> QED
          BY <2>1, <4>1, <4>3, <5>2, <5>3 DEF Credit
      <4> QED
        BY <4>2, <4>3
    <3> QED
      BY <3>1 DEF CreditInv
  <2> QED
    BY <2>2, <2>3 DEF IInv
<1> QED
  BY <1>1, <1>2

\* The limiter starts with no buckets and nothing counted.
LEMMA LimiterInit == Init => IInv
<1> SUFFICES ASSUME Init PROVE IInv
  OBVIOUS
<1>1. TypeOK /\ BucketInv
  BY RateAssumption DEF Init, TypeOK, BucketInv
<1>2. CreditInv
  <2>1. ASSUME NEW ip \in Ips PROVE Credit(buckets[ip], passed[ip])
    <3>1. buckets[ip] = NoBucket /\ passed[ip] = 0 /\ now = 0 /\ since = 0
      BY DEF Init
    <3>2. 0 * One * TicksPerMs = 0 /\ Rate * (0 - 0) = 0
      BY RateAssumption
    <3> QED
      BY <3>1, <3>2 DEF Credit
  <2> QED
    BY <2>1 DEF CreditInv
<1>3. RefusedOnlyInHaste
  <2>1. SUFFICES ASSUME Rate > 0, Burst >= One PROVE waited < TokenTime
    BY DEF RefusedOnlyInHaste
  <2>2. One + Rate - 1 \in Nat /\ Rate \in Nat \ {0} /\ Rate <= One + Rate - 1
        /\ TicksPerMs \in Nat \ {0}
    BY <2>1, RateAssumption
  <2>3. 1 <= (One + Rate - 1) \div Rate /\ (One + Rate - 1) \div Rate \in Nat
    BY <2>2, WholePart, WholeMilliseconds
  <2>4. 0 < TokenTime
    BY <2>1, <2>2, <2>3 DEF TokenTime
  <2> QED
    BY <2>4 DEF Init
<1> QED
  BY <1>1, <1>2, <1>3 DEF IInv

\* No step breaks the invariant.
LEMMA LimiterNext == IInv /\ [Next]_vars => IInv'
<1> SUFFICES ASSUME IInv, [Next]_vars PROVE IInv'
  OBVIOUS
<1>1. CASE UNCHANGED vars
  BY <1>1 DEF vars, limiterVars, historyVars, IInv, TypeOK, BucketInv, CreditInv, Credit,
     RefusedOnlyInHaste, RefilledBeforeExpiry, TokenTime
<1> QED
  BY <1>1, CallStep, ClockStep DEF Next

-------------------------------------------------------------------------------
(* The theorems *)

\* The inductive invariant holds in every behaviour of the limiter.
THEOREM LimiterInvariance == Spec => []IInv
  BY LimiterInit, LimiterNext, PTL DEF Spec

\* Tokens, times and counters stay natural numbers: no bucket is overdrawn.
THEOREM LimiterTypes == Spec => []TypeOK
<1>1. IInv => TypeOK
  BY DEF IInv
<1> QED
  BY <1>1, LimiterInvariance, PTL

\* Whatever the stretch of time, is_allowed passes no more requests of an
\* address than a burst and the rate allow, provided that an empty bucket would
\* be full by the time it is forgotten.
THEOREM RateIsLimited == Spec => []WindowBound
<1>1. ASSUME IInv PROVE WindowBound
  <2>1. SUFFICES ASSUME RefilledBeforeExpiry, NEW ip \in Ips
                 PROVE  passed[ip] * One * TicksPerMs
                          <= Burst * TicksPerMs + Rate * (now - since)
    BY DEF WindowBound
  <2> DEFINE q == passed[ip] * One * TicksPerMs
  <2>2. /\ Credit(buckets[ip], passed[ip]) /\ now \in Nat /\ since \in Nat /\ since <= now
        /\ passed[ip] \in Nat /\ buckets[ip] \in Buckets \cup {NoBucket}
        /\ One \in Nat /\ Burst \in Nat /\ Rate \in Nat /\ TicksPerMs \in Nat
    BY <1>1, <2>1, RateAssumption DEF IInv, CreditInv, TypeOK, BucketInv, Buckets
  <2>3. q \in Nat /\ Burst * TicksPerMs \in Nat /\ Rate * (now - since) \in Nat
    BY <2>2
  <2>4. CASE buckets[ip] = NoBucket
    <3>1. q <= Rate * (now - since)
      BY <2>2, <2>4 DEF Credit
    <3> HIDE DEF q
    <3>2. q <= Burst * TicksPerMs + Rate * (now - since)
      BY <2>3, <3>1
    <3> QED
      BY <3>2 DEF q
  <2>5. CASE buckets[ip] # NoBucket /\ buckets[ip].last_refill < since
    <3>1. passed[ip] = 0
      BY <2>2, <2>5 DEF Credit
    <3>2. q = 0
      BY <2>2, <3>1
    <3> HIDE DEF q
    <3>3. q <= Burst * TicksPerMs + Rate * (now - since)
      BY <2>3, <3>2
    <3> QED
      BY <3>3 DEF q
  <2>6. CASE buckets[ip] # NoBucket /\ buckets[ip].last_refill >= since
    <3>1. /\ buckets[ip].tokens \in Nat /\ buckets[ip].last_refill \in Nat
          /\ buckets[ip].last_refill <= now
      BY <1>1, <2>2, <2>6 DEF IInv, BucketInv, Buckets
    <3>2. q + buckets[ip].tokens * TicksPerMs
            <= Burst * TicksPerMs + Rate * (buckets[ip].last_refill - since)
      BY <2>2, <2>6 DEF Credit
    <3>3. /\ Rate * (buckets[ip].last_refill - since) <= Rate * (now - since)
          /\ Rate * (buckets[ip].last_refill - since) \in Nat
          /\ buckets[ip].tokens * TicksPerMs \in Nat
      BY <2>2, <2>6, <3>1, TimesMonotone
    <3> HIDE DEF q
    <3>4. q <= Burst * TicksPerMs + Rate * (now - since)
      BY <2>3, <3>2, <3>3
    <3> QED
      BY <3>4 DEF q
  <2> QED
    BY <2>2, <2>4, <2>5, <2>6 DEF Buckets
<1> QED
  BY <1>1, LimiterInvariance, PTL

\* Whoever has waited for the time of a token since his last call is allowed,
\* although every call cuts the elapsed time to whole milliseconds.
THEOREM PatienceIsRewarded == Spec => []RefusedOnlyInHaste
<1>1. IInv => RefusedOnlyInHaste
  BY DEF IInv
<1> QED
  BY <1>1, LimiterInvariance, PTL
===============================================================================
