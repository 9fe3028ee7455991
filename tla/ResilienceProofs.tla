-------------------------- MODULE ResilienceProofs --------------------------
(***************************************************************************)
(* What guards the agent against its peers and its peers against it.        *)
(*                                                                          *)
(* Circuit breakers, for any requests, thresholds and cooldown: what one    *)
(* opens and closes for.  Its counters never run ahead of what was really   *)
(* recorded, and are reset in a state where they are not used.              *)
(*                                                                          *)
(* Rate limiters, for any options and windows, and any history of requests: *)
(* a limiter keeps its limits and refuses only for them.  What it stores,   *)
(* tokens and two queues of times, is a function of the times it granted    *)
(* at, and no more of them has been forgotten than can matter.              *)
(*                                                                          *)
(* Requests over HTTP, for any calls, peers and tools: a caller is told     *)
(* what became of its call.  A request, a reply and an answer of one call   *)
(* never exist together.                                                    *)
(***************************************************************************)
EXTENDS Inbound, CircuitBreaker, SequenceTheorems, WellFoundedInduction, TLAPS

-----------------------------------------------------------------------------
(* Circuit breakers                                                         *)

\* A closed breaker has counted no probe, and less than it was told of failures.
ClosedCounts ==
  state = "CLOSED" =>
    /\ consecutiveSuccesses = 0
    /\ failureCount < failureThreshold
    /\ failureCount <= failures

\* One that is not closed remembers why, and its probes succeeded in a row.
OpenCounts ==
  /\ state # "CLOSED" => failureCount = failureThreshold
  /\ state = "HALF_OPEN" => consecutiveSuccesses <= successes

BreakerInv == BreakerTypeOK /\ ClosedCounts /\ OpenCounts

LEMMA Bounded ==
  ASSUME NEW bound \in Nat, NEW n \in Nat
  PROVE  /\ UpTo(bound, n) \in 0..bound
         /\ UpTo(bound, n) <= n
         /\ n <= bound => UpTo(bound, n) = n
         /\ n >= bound => UpTo(bound, n) = bound
BY DEF UpTo

USE BreakerAssumption

LEMMA SucceedsStep ==
  ASSUME BreakerInv, NEW r \in Requests, Succeeds(r)
  PROVE  BreakerInv' /\ (state # "CLOSED" /\ state' = "CLOSED" => successes' = halfOpenSuccessThreshold)
<1>1. /\ successes' \in 0..halfOpenSuccessThreshold
      /\ successes + 1 <= halfOpenSuccessThreshold => successes' = successes + 1
      /\ successes + 1 >= halfOpenSuccessThreshold => successes' = halfOpenSuccessThreshold
  BY Bounded DEF Succeeds, BreakerInv, BreakerTypeOK
<1>2. waiting' \subseteq Requests /\ sinceFailure' = sinceFailure
  BY DEF Succeeds, BreakerInv, BreakerTypeOK
<1>3. Probes \in 0..(halfOpenSuccessThreshold - 1)
      /\ (Current = "HALF_OPEN" => Probes <= successes /\ failureCount = failureThreshold)
  BY DEF BreakerInv, BreakerTypeOK, OpenCounts, Probes, Current, Cooled
<1>4. CASE Current = "HALF_OPEN" /\ Closes
  <2>1. successes' = halfOpenSuccessThreshold
    BY <1>1, <1>3, <1>4 DEF Closes, BreakerInv, BreakerTypeOK
  <2> QED
    BY <1>1, <1>2, <1>4, <2>1 DEF Closes, BreakerInv, BreakerTypeOK, ClosedCounts, OpenCounts
<1>5. CASE Current = "HALF_OPEN" /\ Probed
  BY <1>1, <1>2, <1>3, <1>5 DEF Probed, BreakerInv, BreakerTypeOK, ClosedCounts, OpenCounts
<1>6. CASE Current = "CLOSED" /\ Forgives
  <2>1. state = "CLOSED"
    BY <1>6 DEF Current
  <2> QED
    BY <1>1, <1>2, <1>6, <2>1 DEF Forgives, BreakerInv, BreakerTypeOK, ClosedCounts, OpenCounts
<1>7. CASE Current = "OPEN" /\ UNCHANGED <<breaker, failures>>
  <2>1. state = "OPEN"
    BY <1>7 DEF Current, Cooled
  <2> QED
    BY <1>1, <1>2, <1>7, <2>1 DEF breaker, BreakerInv, BreakerTypeOK, ClosedCounts, OpenCounts
<1> QED
  BY <1>4, <1>5, <1>6, <1>7 DEF Succeeds, recordSuccess

LEMMA FailsStep ==
  ASSUME BreakerInv, NEW r \in Requests, Fails(r)
  PROVE  /\ BreakerInv'
         /\ state = "CLOSED" /\ state' = "OPEN" => failures' = failureThreshold
         /\ state' = "CLOSED" => state = "CLOSED"
<1>1. /\ failures' \in 0..failureThreshold
      /\ failures + 1 <= failureThreshold => failures' = failures + 1
      /\ failures + 1 >= failureThreshold => failures' = failureThreshold
  BY Bounded DEF Fails, BreakerInv, BreakerTypeOK
<1>2. waiting' \subseteq Requests /\ sinceFailure' = 0 /\ successes' = 0
      /\ consecutiveSuccesses' = consecutiveSuccesses
  BY DEF Fails, recordFailure, BreakerInv, BreakerTypeOK
<1>3. CASE state = "CLOSED"
  <2>1. /\ failureCount' = failureCount + 1
        /\ state' = IF failureCount + 1 >= failureThreshold THEN "OPEN" ELSE "CLOSED"
    BY <1>3 DEF Fails, recordFailure
  <2> QED
    BY <1>1, <1>2, <1>3, <2>1 DEF BreakerInv, BreakerTypeOK, ClosedCounts, OpenCounts
<1>4. CASE state # "CLOSED"
  <2>1. state' = "OPEN" /\ failureCount' = failureThreshold
    BY <1>4 DEF Fails, recordFailure, BreakerInv, OpenCounts
  <2> QED
    BY <1>1, <1>2, <1>4, <2>1 DEF BreakerInv, BreakerTypeOK, ClosedCounts, OpenCounts
<1> QED BY <1>3, <1>4

\* The invariant, and what a step may do to the state of the breaker.
LEMMA BreakerStep ==
  ASSUME BreakerInv, [BreakerNext]_breakerVars
  PROVE  /\ BreakerInv'
         /\ state = "CLOSED" /\ state' = "OPEN" => failures' = failureThreshold
         /\ state # "CLOSED" /\ state' = "CLOSED" => successes' = halfOpenSuccessThreshold
<1>1. ASSUME NEW r \in Requests, Ask(r)
      PROVE  BreakerInv' /\ (state' = "CLOSED" <=> state = "CLOSED") /\ state' # "OPEN"
  BY <1>1 DEF Ask, Current, Probes, Cooled, BreakerInv, BreakerTypeOK, ClosedCounts, OpenCounts
<1>2. ASSUME NEW r \in Requests, Succeeds(r)
      PROVE  /\ BreakerInv' /\ ~(state = "CLOSED" /\ state' = "OPEN")
             /\ state # "CLOSED" /\ state' = "CLOSED" => successes' = halfOpenSuccessThreshold
  <2>1. ~(state = "CLOSED" /\ state' = "OPEN")
    BY <1>2 DEF Succeeds, recordSuccess, Closes, Probed, Forgives, Current, Cooled, breaker
  <2> QED
    BY <1>2, <2>1, SucceedsStep
<1>3. ASSUME NEW r \in Requests, Fails(r)
      PROVE  /\ BreakerInv' /\ (state' = "CLOSED" => state = "CLOSED")
             /\ state = "CLOSED" /\ state' = "OPEN" => failures' = failureThreshold
  BY <1>3, FailsStep
<1>4. ASSUME NEW r \in Requests, Throws(r)
      PROVE  BreakerInv' /\ state' = state
  BY <1>4 DEF Throws, breaker, BreakerInv, BreakerTypeOK, ClosedCounts, OpenCounts
<1>5. CASE Cools
  BY <1>5 DEF Cools, breaker, BreakerInv, BreakerTypeOK, ClosedCounts, OpenCounts
<1>6. CASE UNCHANGED breakerVars
  BY <1>6 DEF breakerVars, breaker, BreakerInv, BreakerTypeOK, ClosedCounts, OpenCounts
<1> QED
  BY <1>1, <1>2, <1>3, <1>4, <1>5, <1>6 DEF BreakerNext, Answer

LEMMA BreakerInvariant == BreakerSpec => []BreakerInv
<1>1. BreakerInit => BreakerInv
  BY DEF BreakerInit, BreakerInv, BreakerTypeOK, ClosedCounts, OpenCounts
<1>2. BreakerInv /\ [BreakerNext]_breakerVars => BreakerInv'
  BY BreakerStep
<1> QED
  BY <1>1, <1>2, PTL DEF BreakerSpec

\* The breaker is well typed, and its counters agree with what it was told.
THEOREM BreakerTypes == BreakerSpec => []BreakerTypeOK
<1>1. BreakerInv => BreakerTypeOK
  BY DEF BreakerInv
<1> QED
  BY <1>1, BreakerInvariant, PTL DEF BreakerSpec

\* A breaker opens for failureThreshold failures since it closed, never for fewer.
THEOREM TripsForCause == BreakerSpec => OpensForCause
<1>1. BreakerInv /\ [BreakerNext]_breakerVars =>
        [state = "CLOSED" /\ state' = "OPEN" => failures' = failureThreshold]_breakerVars
  BY BreakerStep
<1> QED
  BY <1>1, BreakerInvariant, PTL DEF BreakerSpec, OpensForCause

\* A breaker closes after halfOpenSuccessThreshold successes in a row, never fewer.
THEOREM RecoversInEarnest == BreakerSpec => ClosesOnRecovery
<1>1. BreakerInv /\ [BreakerNext]_breakerVars =>
        [state # "CLOSED" /\ state' = "CLOSED" => successes' = halfOpenSuccessThreshold]_breakerVars
  BY BreakerStep
<1> QED
  BY <1>1, BreakerInvariant, PTL DEF BreakerSpec, ClosesOnRecovery

HIDE BreakerAssumption

-----------------------------------------------------------------------------
(* One limiter                                                              *)

\* The grants of a limiter, in their order, up to its last refill.
Times(g, at) ==
  /\ g \in Seq(Int) /\ at \in Int
  /\ \A i \in 1..Len(g) : g[i] <= at
  /\ \A i, j \in 1..Len(g) : i <= j => g[i] <= g[j]

\* A window is the end of what was granted, and what it no longer has is too old for it.
WindowOf(window, g, oldest) ==
  /\ window \in Seq(Int)
  /\ Len(window) <= Len(g)
  /\ \A i \in 1..Len(window) : window[i] = g[Len(g) - Len(window) + i]
  /\ \A i \in 1..(Len(g) - Len(window)) : g[i] < oldest

\* The tokens there are at a time, if the bucket was full before grant i.
LeftBy(o, g, at, i) == o.bucket + o.rate * (at - g[i]) - (Len(g) - i + 1)

\* The bucket holds the least that any of the grants leaves.
BucketOf(o, tokens, g, at) ==
  /\ tokens \in 0..o.bucket
  /\ \A i \in 1..Len(g) : tokens <= LeftBy(o, g, at, i)
  /\ tokens = o.bucket \/ \E i \in 1..Len(g) : tokens = LeftBy(o, g, at, i)

\* What limiter l is after granting at the times g.
Keeps(o, l, g) ==
  /\ l \in [tokens : Int, lastRefill : Int, minute : Seq(Int), hour : Seq(Int)]
  /\ Times(g, l.lastRefill)
  /\ WindowOf(l.minute, g, l.lastRefill - Minute)
  /\ WindowOf(l.hour, g, l.lastRefill - Hour)
  /\ BucketOf(o, l.tokens, g, l.lastRefill)
  /\ WithinLimits(o, g)

LEMMA LeastNatural ==
  ASSUME NEW T, T \subseteq Nat, T # {}
  PROVE  \E x \in T : \A y \in T : x <= y
<1> DEFINE R == OpToRel(<, Nat)
<1>1. IsWellFoundedOn(R, Nat)
  BY NatLessThanWellFounded
<1>2. PICK x \in T : \A y \in T : ~ (<<y, x>> \in R)
  <2> HIDE DEF R
  <2>1. QED
    BY <1>1, WFMin
<1>3. ASSUME NEW y \in T PROVE x <= y
  <2>1. ~ (<<y, x>> \in R) /\ x \in Nat /\ y \in Nat
    BY <1>2
  <2>2. R = {s \in Nat \X Nat : s[1] < s[2]}
    BY DEF OpToRel
  <2> HIDE DEF R
  <2>3. QED
    BY <2>1, <2>2
<1>4. QED
  BY <1>3

\* The loop shifts off what is too old up to the first time that is not.
LEMMA ShiftsThePast ==
  ASSUME NEW times \in Seq(Int), NEW oldest \in Int
  PROVE  \E k \in 0..Len(times) :
           /\ Unshifted(times, oldest) \in Seq(Int)
           /\ Len(Unshifted(times, oldest)) = Len(times) - k
           /\ \A i \in 1..(Len(times) - k) : Unshifted(times, oldest)[i] = times[k + i]
           /\ \A i \in 1..k : times[i] < oldest
           /\ k < Len(times) => times[k + 1] >= oldest
<1> DEFINE n == Len(times)
           stays == {i \in 1..n : times[i] >= oldest} \cup {n + 1}
<1>1. n \in Nat /\ \A i \in 1..n : times[i] \in Int
  BY LenProperties, ElementOfSeq
<1>2. stays \subseteq 1..(n + 1) /\ stays # {}
  BY <1>1
<1>3. \E x \in stays : \A y \in stays : x <= y
  <2>1. stays \subseteq Nat /\ stays # {}
    BY <1>1, <1>2
  <2> HIDE DEF stays
  <2> QED
    BY <2>1, LeastNatural
<1>4. Min(stays) \in stays /\ \A y \in stays : Min(stays) <= y
  <2> HIDE DEF stays
  <2> QED
    BY <1>3 DEF Min
<1>5. PICK first \in 1..(n + 1) : first = Min(stays)
  BY <1>2, <1>4
<1>6. Unshifted(times, oldest) = SubSeq(times, first, n)
  BY <1>5 DEF Unshifted
<1>7. \A i \in 1..n : i < first => times[i] < oldest
  <2>1. \A i \in 1..n : i < first => i \notin stays
    <3> HIDE DEF stays
    <3> QED
      BY <1>1, <1>2, <1>4, <1>5
  <2> QED
    BY <1>1, <2>1
<1>8. first <= n => times[first] >= oldest
  BY <1>1, <1>4, <1>5
<1> HIDE DEF stays, n
<1>9. /\ SubSeq(times, first, n) \in Seq(Int)
      /\ Len(SubSeq(times, first, n)) = n - (first - 1)
      /\ \A i \in 1..(n - (first - 1)) : SubSeq(times, first, n)[i] = times[first - 1 + i]
  <2>1. \A i \in first..n : times[i] \in Int
    BY <1>1, <1>5
  <2>2. SubSeq(times, first, n) \in Seq(Int)
    BY <1>1, <1>5, SubSeqProperties DEF n
  <2>3. Len(SubSeq(times, first, n)) = n - first + 1
    BY <1>1, <1>5, SubSeqProperties DEF n
  <2>4. \A i \in 1..(n - first + 1) : SubSeq(times, first, n)[i] = times[first + i - 1]
    BY <1>1, <1>5, SubSeqProperties, SMTT(30) DEF n
  <2> QED
    BY <1>1, <1>5, <2>2, <2>3, <2>4
<1>10. first - 1 \in 0..n /\ (first - 1 < n => times[first - 1 + 1] >= oldest)
  BY <1>1, <1>5, <1>8
<1>11. \A i \in 1..(first - 1) : times[i] < oldest
  BY <1>1, <1>5, <1>7
<1> QED
  BY <1>6, <1>9, <1>10, <1>11 DEF n

\* To clean a window leaves a window, with nothing in it that is too old.
LEMMA WindowCleaned ==
  ASSUME NEW g, NEW at, Times(g, at), NEW w, NEW was \in Int, WindowOf(w, g, was),
         NEW oldest \in Int, was <= oldest
  PROVE  /\ WindowOf(Unshifted(w, oldest), g, oldest)
         /\ Len(Unshifted(w, oldest)) \in 0..Len(g)
         /\ \A i \in 1..Len(g) : i > Len(g) - Len(Unshifted(w, oldest)) => g[i] >= oldest
<1> DEFINE u == Unshifted(w, oldest)
           n == Len(g)
           m == Len(w)
<1>1. /\ n \in Nat /\ m \in Nat /\ m <= n
      /\ \A i \in 1..n : g[i] \in Int
      /\ \A i \in 1..m : w[i] = g[n - m + i]
      /\ \A i \in 1..(n - m) : g[i] < was
      /\ \A i, j \in 1..n : i <= j => g[i] <= g[j]
  BY LenProperties, ElementOfSeq DEF Times, WindowOf
<1>2. PICK k \in 0..m :
        /\ u \in Seq(Int) /\ Len(u) = m - k
        /\ \A i \in 1..(m - k) : u[i] = w[k + i]
        /\ \A i \in 1..k : w[i] < oldest
        /\ k < m => w[k + 1] >= oldest
  BY ShiftsThePast DEF WindowOf
<1> HIDE DEF u, n, m
<1>3. \A i \in 1..Len(u) : u[i] = g[n - Len(u) + i]
  <2> SUFFICES ASSUME NEW i \in 1..Len(u) PROVE u[i] = g[n - Len(u) + i]
    OBVIOUS
  <2>1. k + i \in 1..m /\ n - Len(u) + i = n - m + (k + i)
    BY <1>1, <1>2
  <2> QED
    BY <1>1, <1>2, <2>1
<1>4. \A i \in 1..(n - Len(u)) : g[i] < oldest
  <2> SUFFICES ASSUME NEW i \in 1..(n - Len(u)) PROVE g[i] < oldest
    OBVIOUS
  <2>1. CASE i <= n - m
    BY <1>1, <2>1
  <2>2. CASE i > n - m
    <3>1. i - (n - m) \in 1..k /\ i - (n - m) \in 1..m /\ n - m + (i - (n - m)) = i
      BY <1>1, <1>2, <2>2
    <3>2. w[i - (n - m)] = g[i]
      BY <1>1, <3>1
    <3> QED
      BY <1>2, <3>1, <3>2
  <2> QED
    BY <1>1, <2>1, <2>2
<1>5. \A i \in 1..n : i > n - Len(u) => g[i] >= oldest
  <2> SUFFICES ASSUME NEW i \in 1..n, i > n - Len(u) PROVE g[i] >= oldest
    OBVIOUS
  <2>1. k < m /\ k + 1 \in 1..m /\ n - m + (k + 1) \in 1..n /\ n - m + (k + 1) <= i
    BY <1>1, <1>2
  <2>2. g[n - m + (k + 1)] >= oldest
    BY <1>1, <1>2, <2>1
  <2>3. g[n - m + (k + 1)] <= g[i]
    BY <1>1, <2>1
  <2> QED
    BY <1>1, <2>1, <2>2, <2>3
<1>6. Len(u) <= n /\ Len(u) \in 0..n
  BY <1>1, <1>2
<1> QED
  BY <1>2, <1>3, <1>4, <1>5, <1>6 DEF WindowOf, u, n

LEMMA Distributes ==
  ASSUME NEW a \in Int, NEW x \in Int, NEW y \in Int, NEW z \in Int
  PROVE  a * (z - x) = a * (z - y) + a * (y - x) /\ a * (z - x) \in Int
OBVIOUS

LEMMA Flows ==
  ASSUME NEW a \in Nat, NEW x \in Int, NEW y \in Int, x <= y
  PROVE  a * (y - x) \in Nat
<1>1. y - x \in Nat
  OBVIOUS
<1>2. \A b \in Nat : a * b \in Nat
  OBVIOUS
<1> QED
  BY <1>1, <1>2

\* Tokens flow in for the time since the last refill, up to the bucket.
LEMMA BucketRefilled ==
  ASSUME NEW o \in RateLimiterOptions, NEW g, NEW at, Times(g, at), NEW tokens,
         BucketOf(o, tokens, g, at), NEW time \in Int, at <= time,
         NEW full, full = tokens + (time - at) * o.rate
  PROVE  BucketOf(o, IF full > o.bucket THEN o.bucket ELSE full, g, time)
<1>1. o.bucket \in Nat /\ o.rate \in Nat
  BY DEF RateLimiterOptions
<1>2. /\ at \in Int /\ Len(g) \in Nat /\ \A i \in 1..Len(g) : g[i] \in Int
      /\ tokens \in Nat
  BY <1>1, LenProperties, ElementOfSeq DEF Times, BucketOf
<1>3. PICK flow \in Nat : flow = o.rate * (time - at) /\ full = tokens + flow
  <2>1. (time - at) * o.rate = o.rate * (time - at)
    BY <1>1, <1>2
  <2> QED
    BY <1>1, <1>2, <2>1, Flows
<1>4. ASSUME NEW i \in 1..Len(g)
      PROVE  LeftBy(o, g, time, i) = LeftBy(o, g, at, i) + flow /\ LeftBy(o, g, at, i) \in Int
  <2>1. /\ o.rate * (time - g[i]) = o.rate * (time - at) + o.rate * (at - g[i])
        /\ o.rate * (at - g[i]) \in Int
    BY <1>1, <1>2, Distributes
  <2>2. PICK x \in Int : x = o.rate * (at - g[i])
    BY <2>1
  <2>3. LeftBy(o, g, at, i) = o.bucket + x - (Len(g) - i + 1)
    BY <2>2 DEF LeftBy
  <2>4. LeftBy(o, g, time, i) = o.bucket + (flow + x) - (Len(g) - i + 1)
    BY <1>3, <2>1, <2>2 DEF LeftBy
  <2> QED
    BY <1>1, <1>2, <2>3, <2>4, SMTT(30)
<1>5. ASSUME NEW i \in 1..Len(g)
      PROVE  /\ full <= LeftBy(o, g, time, i)
             /\ tokens = LeftBy(o, g, at, i) => full = LeftBy(o, g, time, i)
  BY <1>2, <1>3, <1>4 DEF BucketOf
<1>6. CASE full > o.bucket
  <2>1. full \in Int /\ \A i \in 1..Len(g) : LeftBy(o, g, time, i) \in Int
    BY <1>2, <1>3, <1>4
  <2>2. \A i \in 1..Len(g) : o.bucket <= LeftBy(o, g, time, i)
    BY <1>1, <1>5, <1>6, <2>1
  <2> QED
    BY <1>1, <1>6, <2>2 DEF BucketOf
<1>7. CASE ~(full > o.bucket)
  <2>1. full \in 0..o.bucket /\ \A i \in 1..Len(g) : full <= LeftBy(o, g, time, i)
    BY <1>1, <1>2, <1>3, <1>5, <1>7
  <2>2. full = o.bucket \/ \E i \in 1..Len(g) : full = LeftBy(o, g, time, i)
    BY <1>1, <1>2, <1>3, <1>5, <1>7 DEF BucketOf
  <2> QED
    BY <1>7, <2>1, <2>2 DEF BucketOf
<1> QED
  BY <1>6, <1>7

LEMMA OneMore ==
  ASSUME NEW g, NEW time, Times(g, time)
  PROVE  /\ Len(Append(g, time)) = Len(g) + 1 /\ Append(g, time)[Len(g) + 1] = time
         /\ \A i \in 1..Len(g) : Append(g, time)[i] = g[i]
         /\ Times(Append(g, time), time)
<1>1. /\ g \in Seq(Int) /\ time \in Int /\ Len(g) \in Nat
      /\ \A i \in 1..Len(g) : g[i] \in Int /\ g[i] <= time
      /\ \A i, j \in 1..Len(g) : i <= j => g[i] <= g[j]
  BY LenProperties, ElementOfSeq DEF Times
<1> DEFINE h == Append(g, time)
<1>2. /\ h \in Seq(Int) /\ Len(h) = Len(g) + 1 /\ h[Len(g) + 1] = time
      /\ \A i \in 1..Len(g) : h[i] = g[i]
  BY <1>1, AppendProperties
<1> HIDE DEF h
<1>3. ASSUME NEW i \in 1..Len(h), NEW j \in 1..Len(h), i <= j PROVE h[i] <= h[j]
  <2>1. CASE j \in 1..Len(g)
    <3>1. i \in 1..Len(g)
      BY <1>1, <1>3, <2>1
    <3> QED
      BY <1>1, <1>2, <1>3, <2>1, <3>1
  <2>2. CASE j = Len(g) + 1
    <3>1. i \in 1..Len(g) \/ i = Len(g) + 1
      BY <1>1, <1>2
    <3> QED
      BY <1>1, <1>2, <2>2, <3>1
  <2> QED
    BY <1>1, <1>2, <2>1, <2>2
<1>4. \A i \in 1..Len(h) : h[i] <= time
  <2> SUFFICES ASSUME NEW i \in 1..Len(h) PROVE h[i] <= time
    OBVIOUS
  <2>1. i \in 1..Len(g) \/ i = Len(g) + 1
    BY <1>1, <1>2
  <2> QED
    BY <1>1, <1>2, <2>1
<1> QED
  BY <1>1, <1>2, <1>3, <1>4 DEF Times, h

\* What a grant adds to a window.
LEMMA WindowGrows ==
  ASSUME NEW g, NEW time, Times(g, time), NEW w, NEW oldest \in Int, WindowOf(w, g, oldest)
  PROVE  WindowOf(Append(w, time), Append(g, time), oldest)
<1>1. /\ Len(Append(g, time)) = Len(g) + 1 /\ Append(g, time)[Len(g) + 1] = time
      /\ \A i \in 1..Len(g) : Append(g, time)[i] = g[i]
  BY OneMore
<1>2. /\ w \in Seq(Int) /\ time \in Int /\ Len(g) \in Nat /\ Len(w) \in Nat /\ Len(w) <= Len(g)
  BY LenProperties DEF Times, WindowOf
<1>3. /\ Append(w, time) \in Seq(Int)
      /\ Len(Append(w, time)) = Len(w) + 1 /\ Append(w, time)[Len(w) + 1] = time
      /\ \A i \in 1..Len(w) : Append(w, time)[i] = w[i]
  BY <1>2, AppendProperties
<1>4. ASSUME NEW i \in 1..(Len(w) + 1)
      PROVE  Append(w, time)[i] = Append(g, time)[Len(g) - Len(w) + i]
  <2>1. CASE i \in 1..Len(w)
    <3>1. Len(g) - Len(w) + i \in 1..Len(g)
      BY <1>2, <2>1
    <3> QED
      BY <1>1, <1>3, <2>1, <3>1 DEF WindowOf
  <2>2. CASE i = Len(w) + 1
    <3>1. Len(g) - Len(w) + i = Len(g) + 1
      BY <1>2, <2>2
    <3> QED
      BY <1>1, <1>3, <2>2, <3>1
  <2> QED
    BY <1>2, <2>1, <2>2
<1>5. /\ Len(Append(w, time)) <= Len(Append(g, time))
      /\ Len(Append(g, time)) - Len(Append(w, time)) = Len(g) - Len(w)
  BY <1>1, <1>2, <1>3
<1>6. \A i \in 1..(Len(g) - Len(w)) : Append(g, time)[i] < oldest
  <2>1. \A i \in 1..(Len(g) - Len(w)) : i \in 1..Len(g)
    BY <1>2
  <2> QED
    BY <1>1, <2>1 DEF WindowOf
<1> QED
  BY <1>3, <1>4, <1>5, <1>6 DEF WindowOf

\* A grant takes its token.
LEMMA BucketGrants ==
  ASSUME NEW o \in RateLimiterOptions, NEW g, NEW time, Times(g, time), NEW tokens,
         BucketOf(o, tokens, g, time), tokens >= 1
  PROVE  BucketOf(o, tokens - 1, Append(g, time), time)
<1> DEFINE h == Append(g, time)
<1>1. /\ Len(h) = Len(g) + 1 /\ h[Len(g) + 1] = time
      /\ \A i \in 1..Len(g) : h[i] = g[i]
  BY OneMore
<1> HIDE DEF h
<1>2. /\ o.bucket \in Nat /\ o.rate \in Nat /\ tokens \in 1..o.bucket
      /\ time \in Int /\ Len(g) \in Nat
      /\ \A i \in 1..Len(g) : g[i] \in Int
  BY LenProperties, ElementOfSeq DEF RateLimiterOptions, Times, BucketOf
<1>3. LeftBy(o, h, time, Len(g) + 1) = o.bucket - 1
  <2>1. time - h[Len(g) + 1] = 0 /\ Len(h) - (Len(g) + 1) + 1 = 1
    BY <1>1, <1>2
  <2>2. o.rate * 0 = 0
    BY <1>2
  <2> QED
    BY <1>2, <2>1, <2>2 DEF LeftBy
<1>4. ASSUME NEW i \in 1..Len(g)
      PROVE  LeftBy(o, h, time, i) = LeftBy(o, g, time, i) - 1 /\ LeftBy(o, g, time, i) \in Int
  <2>1. PICK x \in Int : x = o.rate * (time - g[i])
    BY <1>2, Distributes
  <2>2. LeftBy(o, g, time, i) = o.bucket + x - (Len(g) - i + 1)
    BY <2>1 DEF LeftBy
  <2>3. LeftBy(o, h, time, i) = o.bucket + x - ((Len(g) + 1) - i + 1)
    BY <1>1, <2>1 DEF LeftBy
  <2> QED
    BY <1>2, <2>2, <2>3
<1>5. ASSUME NEW i \in 1..Len(h) PROVE tokens - 1 <= LeftBy(o, h, time, i)
  <2>1. i \in 1..Len(g) \/ i = Len(g) + 1
    BY <1>1, <1>2
  <2> QED
    BY <1>2, <1>3, <1>4, <2>1 DEF BucketOf
<1>6. \E i \in 1..Len(h) : tokens - 1 = LeftBy(o, h, time, i)
  <2>1. CASE tokens = o.bucket
    BY <1>1, <1>2, <1>3, <2>1
  <2>2. ASSUME NEW i \in 1..Len(g), tokens = LeftBy(o, g, time, i)
        PROVE  tokens - 1 = LeftBy(o, h, time, i) /\ i \in 1..Len(h)
    BY <1>1, <1>2, <1>4, <2>2
  <2> QED
    BY <2>1, <2>2 DEF BucketOf
<1> QED
  BY <1>2, <1>5, <1>6 DEF BucketOf, h

\* The limiter as a request finds it.
Found(l, g, time) ==
  /\ l.lastRefill = time
  /\ Len(l.minute) \in 0..Len(g) /\ Len(l.hour) \in 0..Len(g)
  /\ \A i \in 1..Len(g) : i > Len(g) - Len(l.minute) => g[i] >= time - Minute
  /\ \A i \in 1..Len(g) : i > Len(g) - Len(l.hour) => g[i] >= time - Hour

LEMMA TimesPass ==
  ASSUME NEW g, NEW at, Times(g, at), NEW time \in Int, at <= time
  PROVE  Times(g, time)
<1>1. \A i \in 1..Len(g) : g[i] \in Int
  BY ElementOfSeq DEF Times
<1> QED
  BY <1>1 DEF Times

LEMMA FindsLimiter ==
  ASSUME NEW o \in RateLimiterOptions, NEW l, NEW g, Keeps(o, l, g),
         NEW time \in Int, l.lastRefill <= time
  PROVE  LET fresh == Cleaned(Refilled(o, l, time), time) IN
         Keeps(o, fresh, g) /\ Found(fresh, g, time)
<1> DEFINE fresh == Cleaned(Refilled(o, l, time), time)
           at == l.lastRefill
           full == l.tokens + (time - at) * o.rate
<1>1. l \in [tokens : Int, lastRefill : Int, minute : Seq(Int), hour : Seq(Int)]
  BY DEF Keeps
<1>2. at \in Int /\ Minute \in Int /\ Hour \in Int /\ Times(g, at) /\ Times(g, time)
  BY LimiterAssumption, TimesPass DEF Keeps, Times
<1>3. PICK left \in Int :
        left = (IF full > o.bucket THEN o.bucket ELSE full) /\ BucketOf(o, left, g, time)
  <2>1. BucketOf(o, l.tokens, g, at)
    BY DEF Keeps
  <2>2. BucketOf(o, IF full > o.bucket THEN o.bucket ELSE full, g, time)
    BY <1>2, <2>1, BucketRefilled
  <2>3. (IF full > o.bucket THEN o.bucket ELSE full) \in Int
    BY <2>2 DEF BucketOf, RateLimiterOptions
  <2> QED
    BY <2>2, <2>3
<1> DEFINE r == [l EXCEPT !.tokens = left, !.lastRefill = time]
<1>4. Refilled(o, l, time) = r
  BY <1>3 DEF Refilled
<1>5. /\ fresh.lastRefill = time /\ fresh.tokens = left
      /\ fresh.minute = Unshifted(l.minute, time - Minute)
      /\ fresh.hour = Unshifted(l.hour, time - Hour)
      /\ fresh = [r EXCEPT !.minute = fresh.minute, !.hour = fresh.hour]
      /\ r \in [tokens : Int, lastRefill : Int, minute : Seq(Int), hour : Seq(Int)]
  <2>1. r \in [tokens : Int, lastRefill : Int, minute : Seq(Int), hour : Seq(Int)]
        /\ r.tokens = left /\ r.lastRefill = time /\ r.minute = l.minute /\ r.hour = l.hour
    BY <1>1
  <2> HIDE DEF r
  <2>2. fresh = [r EXCEPT !.minute = Unshifted(l.minute, time - Minute),
                          !.hour = Unshifted(l.hour, time - Hour)]
    BY <1>4, <2>1 DEF Cleaned
  <2> QED
    BY <2>1, <2>2
<1> HIDE DEF fresh, full, r
<1>6. /\ WindowOf(fresh.minute, g, time - Minute) /\ Len(fresh.minute) \in 0..Len(g)
      /\ \A i \in 1..Len(g) : i > Len(g) - Len(fresh.minute) => g[i] >= time - Minute
  <2>1. PICK was \in Int : was = at - Minute
    BY <1>2
  <2>2. PICK oldest \in Int : oldest = time - Minute
    BY <1>2
  <2>3. WindowOf(l.minute, g, was) /\ was <= oldest
    BY <1>2, <2>1, <2>2 DEF Keeps
  <2>4. fresh.minute = Unshifted(l.minute, oldest)
    BY <1>5, <2>2
  <2>5. /\ WindowOf(fresh.minute, g, oldest) /\ Len(fresh.minute) \in 0..Len(g)
        /\ \A i \in 1..Len(g) : i > Len(g) - Len(fresh.minute) => g[i] >= oldest
    BY <1>2, <2>3, <2>4, WindowCleaned
  <2> QED
    BY <2>2, <2>5
<1>7. /\ WindowOf(fresh.hour, g, time - Hour) /\ Len(fresh.hour) \in 0..Len(g)
      /\ \A i \in 1..Len(g) : i > Len(g) - Len(fresh.hour) => g[i] >= time - Hour
  <2>1. PICK was \in Int : was = at - Hour
    BY <1>2
  <2>2. PICK oldest \in Int : oldest = time - Hour
    BY <1>2
  <2>3. WindowOf(l.hour, g, was) /\ was <= oldest
    BY <1>2, <2>1, <2>2 DEF Keeps
  <2>4. fresh.hour = Unshifted(l.hour, oldest)
    BY <1>5, <2>2
  <2>5. /\ WindowOf(fresh.hour, g, oldest) /\ Len(fresh.hour) \in 0..Len(g)
        /\ \A i \in 1..Len(g) : i > Len(g) - Len(fresh.hour) => g[i] >= oldest
    BY <1>2, <2>3, <2>4, WindowCleaned
  <2> QED
    BY <2>2, <2>5
<1>8. fresh \in [tokens : Int, lastRefill : Int, minute : Seq(Int), hour : Seq(Int)]
  <2>1. fresh.minute \in Seq(Int) /\ fresh.hour \in Seq(Int)
    BY <1>6, <1>7 DEF WindowOf
  <2> QED
    BY <1>5, <2>1
<1>9. WithinLimits(o, g)
  BY DEF Keeps
<1>10. Keeps(o, fresh, g)
  BY <1>2, <1>3, <1>5, <1>6, <1>7, <1>8, <1>9 DEF Keeps
<1>11. Found(fresh, g, time)
  BY <1>5, <1>6, <1>7 DEF Found
<1> QED
  BY <1>10, <1>11 DEF fresh

\* What is granted leaves every run of grants within the limits: of the windows because
\* those they hold are all that matter, of the bucket because no grant leaves less.
LEMMA GrantKeepsLimits ==
  ASSUME NEW o \in RateLimiterOptions, NEW l, NEW g, NEW time \in Int,
         Keeps(o, l, g), Found(l, g, time), Grants(o, l)
  PROVE  WithinLimits(o, Append(g, time))
<1> DEFINE h == Append(g, time)
           n == Len(g)
<1>1. Times(g, time) /\ WithinLimits(o, g)
  BY DEF Keeps, Found
<1>2. /\ Len(h) = n + 1 /\ h[n + 1] = time /\ \A i \in 1..n : h[i] = g[i]
  BY <1>1, OneMore
<1> HIDE DEF h
<1>3. /\ n \in Nat /\ Minute \in Nat /\ Hour \in Nat
      /\ o.bucket \in Nat /\ o.rate \in Nat /\ o.perMinute \in Nat /\ o.perHour \in Nat
      /\ \A i \in 1..n : g[i] \in Int
  BY <1>1, LenProperties, ElementOfSeq, LimiterAssumption DEF RateLimiterOptions, Times
<1>4. /\ l.tokens \in 1..o.bucket
      /\ Len(l.minute) \in 0..n /\ Len(l.minute) + 1 <= o.perMinute
      /\ Len(l.hour) \in 0..n /\ Len(l.hour) + 1 <= o.perHour
      /\ \A i \in 1..(n - Len(l.minute)) : g[i] < time - Minute
      /\ \A i \in 1..(n - Len(l.hour)) : g[i] < time - Hour
  BY <1>3 DEF Keeps, Found, Grants, BucketOf, WindowOf
<1>5. ASSUME NEW i \in 1..n
      PROVE  LET apart == time - g[i] IN
             /\ apart <= Minute => n + 1 - i < o.perMinute
             /\ apart <= Hour => n + 1 - i < o.perHour
             /\ n + 1 - i < o.bucket + o.rate * apart
  <2>1. time - g[i] <= Minute => i > n - Len(l.minute)
    <3>1. CASE i \in 1..(n - Len(l.minute))
      <4>1. g[i] < time - Minute /\ g[i] \in Int
        BY <1>3, <1>4, <3>1
      <4> QED
        BY <1>3, <4>1
    <3>2. CASE i \notin 1..(n - Len(l.minute))
      BY <1>3, <1>4, <3>2
    <3> QED
      BY <3>1, <3>2
  <2>2. time - g[i] <= Hour => i > n - Len(l.hour)
    <3>1. CASE i \in 1..(n - Len(l.hour))
      <4>1. g[i] < time - Hour /\ g[i] \in Int
        BY <1>3, <1>4, <3>1
      <4> QED
        BY <1>3, <4>1
    <3>2. CASE i \notin 1..(n - Len(l.hour))
      BY <1>3, <1>4, <3>2
    <3> QED
      BY <3>1, <3>2
  <2>3. PICK x \in Int : x = o.rate * (time - g[i])
    BY <1>3, Distributes
  <2>4. l.tokens <= o.bucket + x - (n - i + 1)
    <3>1. l.tokens <= LeftBy(o, g, time, i)
      BY DEF Keeps, Found, BucketOf
    <3> QED
      BY <2>3, <3>1 DEF LeftBy
  <2>5. n + 1 - i < o.bucket + x
    BY <1>3, <1>4, <2>4, SMTT(30)
  <2>6. time - g[i] <= Minute => n + 1 - i < o.perMinute
    BY <1>3, <1>4, <2>1, SMTT(30)
  <2>7. time - g[i] <= Hour => n + 1 - i < o.perHour
    BY <1>3, <1>4, <2>2, SMTT(30)
  <2> QED
    BY <2>3, <2>5, <2>6, <2>7
<1>6. /\ time - time = 0 /\ 0 < o.perMinute /\ 0 < o.perHour
      /\ 0 < o.bucket + o.rate * 0
  <2>1. o.rate * 0 = 0
    BY <1>3
  <2> QED
    BY <1>3, <1>4, <2>1
<1>7. ASSUME NEW i \in 1..Len(h), NEW j \in i..Len(h)
      PROVE  LET apart == h[j] - h[i] IN
             /\ apart <= Minute => j - i < o.perMinute
             /\ apart <= Hour => j - i < o.perHour
             /\ j - i < o.bucket + o.rate * apart
  <2>1. CASE j \in 1..n
    <3>1. i \in 1..n /\ h[i] = g[i] /\ h[j] = g[j]
      BY <1>2, <1>3, <2>1
    <3> QED
      BY <1>1, <2>1, <3>1 DEF WithinLimits
  <2>2. CASE j = n + 1 /\ i \in 1..n
    <3>1. h[i] = g[i] /\ h[j] = time
      BY <1>2, <2>2
    <3> QED
      BY <1>5, <2>2, <3>1
  <2>3. CASE j = n + 1 /\ i = n + 1
    <3>1. h[j] - h[i] = 0 /\ j - i = 0
      BY <1>2, <1>3, <1>6, <2>3
    <3> QED
      BY <1>6, <3>1
  <2> QED
    BY <1>2, <1>3, <2>1, <2>2, <2>3
<1> QED
  BY <1>7 DEF WithinLimits, h

LEMMA KeepsGranted ==
  ASSUME NEW o \in RateLimiterOptions, NEW l, NEW g, NEW time \in Int,
         Keeps(o, l, g), Found(l, g, time), Grants(o, l)
  PROVE  Keeps(o, Granted(l, time), Append(g, time)) /\ Granted(l, time).lastRefill = time
<1> DEFINE m == Granted(l, time)
<1>1. /\ l \in [tokens : Int, lastRefill : Int, minute : Seq(Int), hour : Seq(Int)]
      /\ l.lastRefill = time /\ Times(g, time) /\ l.tokens >= 1
      /\ BucketOf(o, l.tokens, g, time)
  BY DEF Keeps, Found, Grants
<1>2. PICK minuteAgo \in Int : minuteAgo = time - Minute
  BY LimiterAssumption
<1>3. PICK hourAgo \in Int : hourAgo = time - Hour
  BY LimiterAssumption
<1>4. WindowOf(l.minute, g, minuteAgo) /\ WindowOf(l.hour, g, hourAgo)
  BY <1>1, <1>2, <1>3 DEF Keeps
<1>5. /\ Append(l.minute, time) \in Seq(Int) /\ Append(l.hour, time) \in Seq(Int)
  BY <1>1, AppendProperties
<1>t. l.tokens - 1 \in Int
  BY <1>1
<1>6. /\ m \in [tokens : Int, lastRefill : Int, minute : Seq(Int), hour : Seq(Int)]
      /\ m.tokens = l.tokens - 1 /\ m.lastRefill = time
      /\ m.minute = Append(l.minute, time) /\ m.hour = Append(l.hour, time)
  BY <1>1, <1>5, <1>t DEF Granted
<1> HIDE DEF m
<1>7. WindowOf(m.minute, Append(g, time), minuteAgo) /\ WindowOf(m.hour, Append(g, time), hourAgo)
  BY <1>1, <1>4, <1>6, WindowGrows
<1>8. BucketOf(o, m.tokens, Append(g, time), time)
  BY <1>1, <1>6, BucketGrants
<1>9. Times(Append(g, time), time)
  BY <1>1, OneMore
<1>10. WithinLimits(o, Append(g, time))
  BY GrantKeepsLimits
<1>11. Keeps(o, m, Append(g, time))
  BY <1>2, <1>3, <1>6, <1>7, <1>8, <1>9, <1>10 DEF Keeps
<1> QED
  BY <1>6, <1>11 DEF m

\* What is refused would have broken a limit: the window that is full is full of grants
\* within it, and a bucket without a token has had all it holds and all that flowed in
\* taken out of it.
LEMMA RefusalHasCause ==
  ASSUME NEW o \in RateLimiterOptions, NEW l, NEW g, NEW time \in Int,
         Keeps(o, l, g), Found(l, g, time), ~Grants(o, l)
  PROVE  ~WithinLimits(o, Append(g, time))
<1> DEFINE h == Append(g, time)
           n == Len(g)
<1> SUFFICES ~WithinLimits(o, h)
  OBVIOUS
<1>1. Times(g, time)
  BY DEF Keeps, Found
<1>2. /\ Len(h) = n + 1 /\ h[n + 1] = time /\ \A i \in 1..n : h[i] = g[i]
  BY <1>1, OneMore
<1> HIDE DEF h
<1>3. /\ n \in Nat /\ Minute \in Nat /\ Hour \in Nat
      /\ o.bucket \in Nat /\ o.rate \in Nat /\ o.perMinute \in Nat /\ o.perHour \in Nat
      /\ \A i \in 1..n : g[i] \in Int
  BY <1>1, LenProperties, ElementOfSeq, LimiterAssumption DEF RateLimiterOptions, Times
<1>4. /\ l.tokens \in 0..o.bucket /\ Len(l.minute) \in 0..n /\ Len(l.hour) \in 0..n
  BY <1>3 DEF Keeps, Found, BucketOf
<1>5. ASSUME NEW i \in 1..(n + 1)
      PROVE  /\ i \in 1..Len(h) /\ n + 1 \in i..Len(h)
             /\ h[n + 1] - h[i] = time - h[i] /\ h[i] \in Int
  <2>1. i \in 1..n \/ i = n + 1
    BY <1>3
  <2>2. h[i] \in Int
    BY <1>2, <1>3, <2>1
  <2> QED
    BY <1>2, <1>3, <2>2
<1>m. ASSUME NEW i \in 1..(n + 1), time - h[i] <= Minute, n + 1 - i >= o.perMinute
      PROVE  ~WithinLimits(o, h)
  <2>1. h[n + 1] - h[i] <= Minute /\ ~(n + 1 - i < o.perMinute)
    BY <1>3, <1>5, <1>m
  <2> QED
    BY <1>5, <2>1 DEF WithinLimits
<1>h. ASSUME NEW i \in 1..(n + 1), time - h[i] <= Hour, n + 1 - i >= o.perHour
      PROVE  ~WithinLimits(o, h)
  <2>1. h[n + 1] - h[i] <= Hour /\ ~(n + 1 - i < o.perHour)
    BY <1>3, <1>5, <1>h
  <2> QED
    BY <1>5, <2>1 DEF WithinLimits
<1>b. ASSUME NEW i \in 1..(n + 1), NEW x \in Int, x = o.rate * (time - h[i]),
             n + 1 - i >= o.bucket + x
      PROVE  ~WithinLimits(o, h)
  <2>1. o.rate * (h[n + 1] - h[i]) = x
    BY <1>5, <1>b
  <2>2. ~(n + 1 - i < o.bucket + o.rate * (h[n + 1] - h[i]))
    BY <1>3, <1>b, <2>1
  <2> QED
    BY <1>5, <2>2 DEF WithinLimits
<1>6. CASE ~(l.tokens >= 1)
  <2>1. l.tokens = 0
    BY <1>3, <1>4, <1>6
  <2>2. CASE o.bucket = 0
    <3>1. PICK i \in 1..(n + 1) : i = n + 1
      BY <1>3
    <3>2. time - h[i] = 0 /\ o.rate * 0 = 0
      BY <1>2, <1>3, <3>1
    <3>3. 0 = o.rate * (time - h[i]) /\ n + 1 - i >= o.bucket + 0
      BY <1>3, <2>2, <3>1, <3>2
    <3> QED
      BY <1>b, <3>3
  <2>3. CASE o.bucket # 0
    <3>1. PICK i \in 1..n : 0 = LeftBy(o, g, time, i)
      BY <2>1, <2>3 DEF Keeps, Found, BucketOf
    <3>2. PICK x \in Int : x = o.rate * (time - g[i])
      BY <1>3, Distributes
    <3>3. 0 = o.bucket + x - (n - i + 1)
      BY <3>1, <3>2 DEF LeftBy
    <3>4. i \in 1..(n + 1) /\ n + 1 - i >= o.bucket + x
      BY <1>3, <3>3
    <3>5. x = o.rate * (time - h[i])
      <4>1. h[i] = g[i]
        BY <1>2
      <4> QED
        BY <3>2, <4>1
    <3> QED
      BY <1>b, <3>4, <3>5
  <2> QED
    BY <2>2, <2>3
<1>7. CASE ~(Len(l.minute) + 1 <= o.perMinute)
  <2>1. CASE o.perMinute = 0
    <3>1. PICK i \in 1..(n + 1) : i = n + 1
      BY <1>3
    <3>2. time - h[i] <= Minute /\ n + 1 - i >= o.perMinute
      BY <1>2, <1>3, <2>1, <3>1
    <3> QED
      BY <1>m, <3>2
  <2>2. CASE o.perMinute # 0
    <3>1. PICK i \in 1..n : i = n + 1 - o.perMinute
      <4>1. o.perMinute <= Len(l.minute) /\ o.perMinute >= 1 /\ o.perMinute <= n
        BY <1>3, <1>4, <1>7, <2>2
      <4> QED
        BY <1>3, <4>1
    <3>2. i > n - Len(l.minute)
      BY <1>3, <1>4, <1>7, <3>1
    <3>3. g[i] >= time - Minute
      BY <3>2 DEF Found
    <3>4. i \in 1..(n + 1) /\ h[i] = g[i] /\ g[i] \in Int
      BY <1>2, <1>3
    <3>5. time - h[i] <= Minute /\ n + 1 - i >= o.perMinute
      BY <1>3, <3>1, <3>3, <3>4, SMTT(30)
    <3> QED
      BY <1>m, <3>4, <3>5
  <2> QED
    BY <2>1, <2>2
<1>8. CASE ~(Len(l.hour) + 1 <= o.perHour)
  <2>1. CASE o.perHour = 0
    <3>1. PICK i \in 1..(n + 1) : i = n + 1
      BY <1>3
    <3>2. time - h[i] <= Hour /\ n + 1 - i >= o.perHour
      BY <1>2, <1>3, <2>1, <3>1
    <3> QED
      BY <1>h, <3>2
  <2>2. CASE o.perHour # 0
    <3>1. PICK i \in 1..n : i = n + 1 - o.perHour
      <4>1. o.perHour <= Len(l.hour) /\ o.perHour >= 1 /\ o.perHour <= n
        BY <1>3, <1>4, <1>8, <2>2
      <4> QED
        BY <1>3, <4>1
    <3>2. i > n - Len(l.hour)
      BY <1>3, <1>4, <1>8, <3>1
    <3>3. g[i] >= time - Hour
      BY <3>2 DEF Found
    <3>4. i \in 1..(n + 1) /\ h[i] = g[i] /\ g[i] \in Int
      BY <1>2, <1>3
    <3>5. time - h[i] <= Hour /\ n + 1 - i >= o.perHour
      BY <1>3, <3>1, <3>3, <3>4, SMTT(30)
    <3> QED
      BY <1>h, <3>4, <3>5
  <2> QED
    BY <2>1, <2>2
<1> QED
  BY <1>6, <1>7, <1>8 DEF Grants

\* A request at any later time: what was granted, this one if it is, keeps the limits, and
\* it is refused only if it would not.
LEMMA ConsumesWell ==
  ASSUME NEW o \in RateLimiterOptions, NEW l, NEW g, Keeps(o, l, g),
         NEW time \in Int, l.lastRefill <= time
  PROVE  LET asked == TryConsume(o, l, time) IN
         /\ asked.ok \in BOOLEAN /\ asked.limiter.lastRefill = time
         /\ asked.ok => Keeps(o, asked.limiter, Append(g, time))
         /\ ~asked.ok => Keeps(o, asked.limiter, g) /\ ~WithinLimits(o, Append(g, time))
<1> DEFINE fresh == Cleaned(Refilled(o, l, time), time)
<1>1. Keeps(o, fresh, g) /\ Found(fresh, g, time)
  BY FindsLimiter
<1>2. TryConsume(o, l, time) = IF Grants(o, fresh)
                               THEN [ok |-> TRUE, limiter |-> Granted(fresh, time)]
                               ELSE [ok |-> FALSE, limiter |-> fresh]
  BY DEF TryConsume
<1> HIDE DEF fresh
<1>3. CASE Grants(o, fresh)
  BY <1>1, <1>2, <1>3, KeepsGranted
<1>4. CASE ~Grants(o, fresh)
  BY <1>1, <1>2, <1>4, RefusalHasCause DEF Found
<1> QED
  BY <1>3, <1>4

\* A limiter that has granted nothing.
LEMMA KeepsNew ==
  ASSUME NEW o \in RateLimiterOptions, NEW time \in Int
  PROVE  Keeps(o, NewLimiter(o, time), <<>>) /\ NewLimiter(o, time).lastRefill = time
<1> DEFINE l == NewLimiter(o, time)
<1>1. /\ l = [tokens |-> o.bucket, lastRefill |-> time, minute |-> <<>>, hour |-> <<>>]
      /\ o.bucket \in Nat /\ <<>> \in Seq(Int) /\ Len(<<>>) = 0
  BY EmptySeq DEF NewLimiter, RateLimiterOptions
<1> HIDE DEF l
<1>2. /\ l \in [tokens : Int, lastRefill : Int, minute : Seq(Int), hour : Seq(Int)]
      /\ l.tokens = o.bucket /\ l.lastRefill = time /\ l.minute = <<>> /\ l.hour = <<>>
  BY <1>1
<1>3. Times(<<>>, time) /\ BucketOf(o, o.bucket, <<>>, time) /\ WithinLimits(o, <<>>)
  BY <1>1 DEF Times, BucketOf, WithinLimits
<1>4. \A oldest : WindowOf(<<>>, <<>>, oldest)
  BY <1>1 DEF WindowOf
<1>5. Keeps(o, l, <<>>)
  BY <1>2, <1>3, <1>4 DEF Keeps
<1> QED
  BY <1>2, <1>5 DEF l

-----------------------------------------------------------------------------
(* The tiers                                                                *)

Keeping(o, l, g) == Keeps(o, l, g) /\ l.lastRefill <= now

\* Of a limiter that is made when it is first asked for.
KeepingOnceAsked(o, known, g) ==
  IF known = <<>> THEN g = <<>> ELSE \E l : known = <<l>> /\ Keeping(o, l, g)

LimitersKeep ==
  /\ now \in Int
  /\ grants \in [Limiters -> Seq(Int)]
  /\ Keeping(Door, door, grants["door"])
  /\ Keeping(Global, global, grants["global"])
  /\ peer = [p \in Peers |-> peer[p]]
  /\ \A p \in Peers : KeepingOnceAsked(PerPeer, peer[p], grants[p])
  /\ skill = [s \in Skills |-> skill[s]]
  /\ \A s \in Skills : KeepingOnceAsked(PerSkill, skill[s], grants[s])

LEMMA Names ==
  /\ OptionsOf("door") = Door /\ OptionsOf("global") = Global
  /\ \A p \in Peers : p # "door" /\ p # "global" /\ p \notin Skills /\ OptionsOf(p) = PerPeer
  /\ \A s \in Skills : s # "door" /\ s # "global" /\ s \notin Peers /\ OptionsOf(s) = PerSkill
  /\ {Door, Global, PerPeer, PerSkill} \subseteq RateLimiterOptions
  /\ {"door", "global"} \subseteq Limiters /\ Peers \subseteq Limiters /\ Skills \subseteq Limiters
<1>1. /\ Peers \cap Skills = {} /\ {"door", "global"} \cap (Peers \cup Skills) = {}
      /\ {Door, Global, PerPeer, PerSkill} \subseteq RateLimiterOptions
  BY InboundAssumption
<1> QED
  BY <1>1 DEF OptionsOf, Limiters

LEMMA LimiterIsKept ==
  ASSUME now \in Int, NEW known, NEW x, OptionsOf(x) \in RateLimiterOptions, NEW g,
         KeepingOnceAsked(OptionsOf(x), known[x], g)
  PROVE  Keeping(OptionsOf(x), LimiterOf(known, x), g)
<1>1. CASE known[x] = <<>>
  <2>1. LimiterOf(known, x) = NewLimiter(OptionsOf(x), now) /\ g = <<>>
    BY <1>1 DEF LimiterOf, KeepingOnceAsked
  <2> QED
    BY <2>1, KeepsNew DEF Keeping
<1>2. CASE known[x] # <<>>
  <2>1. PICK l : known[x] = <<l>> /\ Keeping(OptionsOf(x), l, g)
    BY <1>2 DEF KeepingOnceAsked
  <2>2. LimiterOf(known, x) = l
    BY <1>2, <2>1 DEF LimiterOf
  <2> QED
    BY <2>1, <2>2
<1> QED
  BY <1>1, <1>2

\* What is asked keeps its limits; what it refused would have broken one.
LEMMA Asked ==
  ASSUME now \in Int, now' = now, NEW o \in RateLimiterOptions, NEW l, NEW g, Keeping(o, l, g)
  PROVE  LET asked == TryConsume(o, l, now) IN
         /\ asked.ok \in BOOLEAN
         /\ asked.ok => /\ Keeps(o, asked.limiter, Append(g, now))
                        /\ asked.limiter.lastRefill <= now
         /\ ~asked.ok => /\ Keeps(o, asked.limiter, g)
                         /\ asked.limiter.lastRefill <= now
                         /\ ~WithinLimits(o, Append(g, now))
<1> DEFINE asked == TryConsume(o, l, now)
<1>1. /\ asked.ok \in BOOLEAN /\ asked.limiter.lastRefill = now
      /\ asked.ok => Keeps(o, asked.limiter, Append(g, now))
      /\ ~asked.ok => Keeps(o, asked.limiter, g) /\ ~WithinLimits(o, Append(g, now))
  BY ConsumesWell DEF Keeping
<1>2. now <= now
  OBVIOUS
<1> QED
  BY <1>1, <1>2

\* A request leaves every tier within its limits, wherever it is refused; if an agent that
\* does not stop refuses it, one of the tiers would have been beyond them.
LEMMA TiersKeep ==
  ASSUME LimitersKeep, NEW c \in Calls, Tiers(c), now' = now
  PROVE  /\ LimitersKeep'
         /\ ~Admitted(c) /\ ~(PastDoor /\ draining) =>
              \E x \in {"door", "global", PeerOf[c], SkillOf[c]} :
                ~WithinLimits(OptionsOf(x), Append(grants[x], now))
<1> DEFINE p == PeerOf[c]
           s == SkillOf[c]
           byDoor == TryConsume(Door, door, now)
           byGlobal == TryConsume(Global, global, now)
           byPeer == TryConsume(PerPeer, LimiterOf(peer, p), now)
           bySkill == TryConsume(PerSkill, LimiterOf(skill, s), now)
           globalAsked == byDoor.ok /\ ~draining
           peerAsked == byDoor.ok /\ ~draining /\ byGlobal.ok
           skillAsked == byDoor.ok /\ ~draining /\ byGlobal.ok /\ byPeer.ok
           names == {x \in {"door"} : byDoor.ok} \cup {x \in {"global"} : globalAsked /\ byGlobal.ok}
                      \cup {x \in {p} : peerAsked /\ byPeer.ok}
                      \cup {x \in {s} : skillAsked /\ bySkill.ok}
<1>1. p \in Peers /\ s \in Skills
  BY DEF Peers, Skills
<1>2. now \in Int /\ grants \in [Limiters -> Seq(Int)]
  BY DEF LimitersKeep
<1>d. /\ byDoor.ok \in BOOLEAN /\ byDoor.limiter.lastRefill <= now
      /\ byDoor.ok => Keeps(Door, byDoor.limiter, Append(grants["door"], now))
      /\ ~byDoor.ok => /\ Keeps(Door, byDoor.limiter, grants["door"])
                       /\ ~WithinLimits(Door, Append(grants["door"], now))
  <2>1. Door \in RateLimiterOptions /\ Keeping(Door, door, grants["door"])
    BY Names DEF LimitersKeep
  <2> QED
    BY <1>2, <2>1, Asked
<1>g. /\ byGlobal.ok \in BOOLEAN /\ byGlobal.limiter.lastRefill <= now
      /\ byGlobal.ok => Keeps(Global, byGlobal.limiter, Append(grants["global"], now))
      /\ ~byGlobal.ok => /\ Keeps(Global, byGlobal.limiter, grants["global"])
                         /\ ~WithinLimits(Global, Append(grants["global"], now))
  <2>1. Global \in RateLimiterOptions /\ Keeping(Global, global, grants["global"])
    BY Names DEF LimitersKeep
  <2> QED
    BY <1>2, <2>1, Asked
<1>p. /\ byPeer.ok \in BOOLEAN /\ byPeer.limiter.lastRefill <= now
      /\ byPeer.ok => Keeps(PerPeer, byPeer.limiter, Append(grants[p], now))
      /\ ~byPeer.ok => /\ Keeps(PerPeer, byPeer.limiter, grants[p])
                       /\ ~WithinLimits(PerPeer, Append(grants[p], now))
  <2>1. PerPeer \in RateLimiterOptions /\ OptionsOf(p) = PerPeer
    BY <1>1, Names
  <2>2. KeepingOnceAsked(PerPeer, peer[p], grants[p])
    BY <1>1 DEF LimitersKeep
  <2>3. Keeping(PerPeer, LimiterOf(peer, p), grants[p])
    BY <1>2, <2>1, <2>2, LimiterIsKept
  <2> QED
    BY <1>2, <2>1, <2>3, Asked
<1>s. /\ bySkill.ok \in BOOLEAN /\ bySkill.limiter.lastRefill <= now
      /\ bySkill.ok => Keeps(PerSkill, bySkill.limiter, Append(grants[s], now))
      /\ ~bySkill.ok => /\ Keeps(PerSkill, bySkill.limiter, grants[s])
                        /\ ~WithinLimits(PerSkill, Append(grants[s], now))
  <2>1. PerSkill \in RateLimiterOptions /\ OptionsOf(s) = PerSkill
    BY <1>1, Names
  <2>2. KeepingOnceAsked(PerSkill, skill[s], grants[s])
    BY <1>1 DEF LimitersKeep
  <2>3. Keeping(PerSkill, LimiterOf(skill, s), grants[s])
    BY <1>2, <2>1, <2>2, LimiterIsKept
  <2> QED
    BY <1>2, <2>1, <2>3, Asked
<1>3. /\ door' = byDoor.limiter
      /\ global' = IF globalAsked THEN byGlobal.limiter ELSE global
      /\ peer' = IF peerAsked THEN [peer EXCEPT ![p] = <<byPeer.limiter>>] ELSE peer
      /\ skill' = IF skillAsked THEN [skill EXCEPT ![s] = <<bySkill.limiter>>] ELSE skill
      /\ grants' = [x \in Limiters |-> IF x \in names THEN Append(grants[x], now) ELSE grants[x]]
  BY DEF Tiers, Noted
<1> HIDE DEF byDoor, byGlobal, byPeer, bySkill
<1>4. /\ "door" \in names <=> byDoor.ok
      /\ "global" \in names <=> globalAsked /\ byGlobal.ok
      /\ \A q \in Peers : q \in names <=> q = p /\ peerAsked /\ byPeer.ok
      /\ \A t \in Skills : t \in names <=> t = s /\ skillAsked /\ bySkill.ok
  BY <1>1, Names
<1> HIDE DEF names
<1>5. /\ grants'["door"] = IF byDoor.ok THEN Append(grants["door"], now) ELSE grants["door"]
      /\ grants'["global"] = IF globalAsked /\ byGlobal.ok THEN Append(grants["global"], now)
                             ELSE grants["global"]
      /\ \A q \in Peers : grants'[q] = IF q = p /\ peerAsked /\ byPeer.ok
                                       THEN Append(grants[q], now) ELSE grants[q]
      /\ \A t \in Skills : grants'[t] = IF t = s /\ skillAsked /\ bySkill.ok
                                        THEN Append(grants[t], now) ELSE grants[t]
  BY <1>3, <1>4, Names
<1>6. grants' \in [Limiters -> Seq(Int)]
  <2>1. \A x \in Limiters : Append(grants[x], now) \in Seq(Int)
    BY <1>2, AppendProperties
  <2> QED
    BY <1>2, <1>3, <2>1
<1>7. Keeping(Door, door, grants["door"])'
  BY <1>3, <1>5, <1>d DEF Keeping
<1>8. Keeping(Global, global, grants["global"])'
  <2>1. CASE globalAsked
    BY <1>3, <1>5, <1>g, <2>1 DEF Keeping
  <2>2. CASE ~globalAsked
    BY <1>3, <1>5, <2>2 DEF LimitersKeep, Keeping
  <2> QED
    BY <2>1, <2>2
<1>9. ASSUME NEW q \in Peers PROVE KeepingOnceAsked(PerPeer, peer[q], grants[q])'
  <2>1. CASE q = p /\ peerAsked
    <3>1. peer'[q] = <<byPeer.limiter>>
      BY <1>3, <2>1 DEF LimitersKeep
    <3>2. Keeps(PerPeer, byPeer.limiter, grants'[q])
      BY <1>5, <1>p, <2>1
    <3> QED
      BY <1>p, <3>1, <3>2 DEF KeepingOnceAsked, Keeping
  <2>2. CASE ~(q = p /\ peerAsked)
    <3>1. peer'[q] = peer[q] /\ grants'[q] = grants[q]
      BY <1>3, <1>5, <2>2 DEF LimitersKeep
    <3> QED
      BY <3>1 DEF LimitersKeep, KeepingOnceAsked, Keeping
  <2> QED
    BY <2>1, <2>2
<1>10. ASSUME NEW t \in Skills PROVE KeepingOnceAsked(PerSkill, skill[t], grants[t])'
  <2>1. CASE t = s /\ skillAsked
    <3>1. skill'[t] = <<bySkill.limiter>>
      BY <1>3, <2>1 DEF LimitersKeep
    <3>2. Keeps(PerSkill, bySkill.limiter, grants'[t])
      BY <1>5, <1>s, <2>1
    <3> QED
      BY <1>s, <3>1, <3>2 DEF KeepingOnceAsked, Keeping
  <2>2. CASE ~(t = s /\ skillAsked)
    <3>1. skill'[t] = skill[t] /\ grants'[t] = grants[t]
      BY <1>3, <1>5, <2>2 DEF LimitersKeep
    <3> QED
      BY <3>1 DEF LimitersKeep, KeepingOnceAsked, Keeping
  <2> QED
    BY <2>1, <2>2
<1>11. peer' = [q \in Peers |-> peer'[q]] /\ skill' = [t \in Skills |-> skill'[t]]
  BY <1>3 DEF LimitersKeep
<1>12. LimitersKeep'
  BY <1>2, <1>6, <1>7, <1>8, <1>9, <1>10, <1>11 DEF LimitersKeep
<1>13. ASSUME ~Admitted(c), ~(PastDoor /\ draining)
       PROVE  \E x \in {"door", "global", PeerOf[c], SkillOf[c]} :
                ~WithinLimits(OptionsOf(x), Append(grants[x], now))
  <2>1. \A x \in Limiters : Len(grants[x]) \in Nat /\ Len(Append(grants[x], now)) = Len(grants[x]) + 1
    BY <1>2, AppendProperties, LenProperties
  <2>2. byDoor.ok => PastDoor
    BY <1>5, <2>1, Names DEF PastDoor
  <2>3. ~(skillAsked /\ bySkill.ok)
    <3>1. ASSUME skillAsked, bySkill.ok PROVE grants'[s] = Append(grants[s], now)
      BY <1>1, <1>5, <3>1
    <3>2. s \in Limiters
      BY <1>1, Names
    <3>3. ~(Len(grants'[s]) > Len(grants[s]))
      BY <1>13 DEF Admitted
    <3>4. Len(Append(grants[s], now)) > Len(grants[s])
      BY <2>1, <3>2
    <3> QED
      BY <3>1, <3>3, <3>4
  <2>4. \/ ~byDoor.ok \/ ~byGlobal.ok \/ ~byPeer.ok \/ ~bySkill.ok
    BY <1>13, <2>2, <2>3
  <2> QED
    BY <1>1, <1>d, <1>g, <1>p, <1>s, <2>4, Names
<1> QED
  BY <1>12, <1>13

-----------------------------------------------------------------------------
(* Requests over HTTP                                                       *)

\* A body with status 200 is one of success for a run that succeeded, and one that is
\* signed for a run that ended.
SaysSo(body, how) ==
  /\ body = "success" <=> how = "success"
  /\ body \in {"success", "failed"} => how \in {"success", "failed"}

\* A request under way was not run, nor answered but by giving up on it; what a reply says
\* of its call is so, and stays so.
Deliveries ==
  /\ \A r \in requests :
       /\ r.call \in Calls /\ call[r.call] # "idle" /\ run[r.call] = "none"
       /\ answer[r.call] \in {"none", "network"}
       /\ \A s \in requests : s.call = r.call => s = r
       /\ \A t \in replies : t.call # r.call
  /\ \A t \in replies :
       /\ t.call \in Calls /\ call[t.call] = "waiting" /\ answer[t.call] = "none"
       /\ run[t.call] # "running"
       /\ t.status = 200 => SaysSo(t.body, run[t.call])
       /\ t.status # 200 => run[t.call] \in {"none", "failed429", "threw"}
       /\ \A u \in replies : u.call = t.call => u = t

CallTypes ==
  /\ call \in [Calls -> {"idle", "waiting", "done"}]
  /\ answer \in [Calls -> {"none", "success", "http", "peer", "unverified", "network"}]
  /\ run \in [Calls -> {"none", "running"} \cup Outcomes]
  /\ \A c \in Calls : call[c] = "idle" => run[c] = "none"
  /\ \A c \in Calls : call[c] # "done" => answer[c] = "none"

Calling == CallTypes /\ Deliveries /\ HonestAnswers

\* The agent is through with a call, and says of it what is so.
LEMMA Told ==
  ASSUME Calling, NEW c \in Calls, UNCHANGED callers, NEW status, NEW body,
         Reply(c, status, body),
         requests' \subseteq requests, \A r \in requests' : r.call # c,
         \A t \in replies : t.call # c,
         answer[c] \in {"none", "network"},
         run' \in [Calls -> {"none", "running"} \cup Outcomes],
         \A d \in Calls : d # c => run'[d] = run[d],
         call[c] = "idle" => run'[c] = "none",
         run'[c] # "running",
         NEW shown, shown = (IF c \in Rpc THEN RpcStatus(status) ELSE status),
         shown = 200 => SaysSo(body, run'[c]),
         shown # 200 => run'[c] \in {"none", "failed429", "threw"}
  PROVE  Calling'
<1>1. PICK reply : /\ reply = [call |-> c, body |-> body, status |-> shown]
                   /\ replies' = IF call[c] = "waiting" THEN replies \cup {reply} ELSE replies
  BY DEF Reply
<1>2. reply.call = c /\ reply.body = body /\ reply.status = shown
  BY <1>1
<1>3. call' = call /\ answer' = answer
  BY DEF callers
<1>4. CallTypes'
  BY <1>3 DEF Calling, CallTypes
<1>5. HonestAnswers'
  BY <1>3 DEF Calling, HonestAnswers
<1>6. ASSUME NEW t \in replies'
      PROVE  /\ t.call \in Calls /\ call[t.call] = "waiting" /\ answer[t.call] = "none"
             /\ run'[t.call] # "running"
             /\ t.status = 200 => SaysSo(t.body, run'[t.call])
             /\ t.status # 200 => run'[t.call] \in {"none", "failed429", "threw"}
             /\ \A u \in replies' : u.call = t.call => u = t
  <2>0. \A u \in replies' : u \in replies \/ u = reply
    BY <1>1
  <2>1. CASE t \in replies
    <3>1. t.call \in Calls /\ run'[t.call] = run[t.call]
      BY <2>1 DEF Calling, Deliveries
    <3> QED
      BY <1>2, <2>0, <2>1, <3>1 DEF Calling, Deliveries
  <2>2. CASE t = reply /\ call[c] = "waiting"
    BY <1>2, <2>0, <2>2 DEF Calling, CallTypes
  <2> QED
    BY <1>1, <2>1, <2>2
<1>7. ASSUME NEW r \in requests'
      PROVE  /\ r.call \in Calls /\ call[r.call] # "idle" /\ run'[r.call] = "none"
             /\ answer[r.call] \in {"none", "network"}
             /\ \A s \in requests' : s.call = r.call => s = r
             /\ \A t \in replies' : t.call # r.call
  <2>1. r \in requests /\ r.call # c
    OBVIOUS
  <2>2. \A t \in replies' : t \in replies \/ t.call = c
    BY <1>1, <1>2
  <2> QED
    BY <2>1, <2>2 DEF Calling, Deliveries
<1>8. Deliveries'
  BY <1>3, <1>6, <1>7 DEF Deliveries
<1> QED
  BY <1>4, <1>5, <1>8 DEF Calling

LEMMA CallsStep ==
  ASSUME Calling, NEW c \in Calls, Send(c) \/ Abort(c) \/ Receive(c)
  PROVE  Calling'
<1>1. CASE Send(c)
  <2>1. /\ call[c] = "idle" /\ run[c] = "none" /\ answer[c] = "none"
        /\ \A t \in replies : t.call # c
        /\ \A r \in requests : r.call # c
    BY <1>1 DEF Send, Calling, CallTypes, Deliveries
  <2>2. PICK s : s.call = c /\ requests' = requests \cup {s}
    BY <1>1 DEF Send, Signed
  <2>3. /\ call' = [call EXCEPT ![c] = "waiting"]
        /\ answer' = answer /\ replies' = replies /\ run' = run
    BY <1>1 DEF Send
  <2>4. CallTypes' /\ HonestAnswers'
    BY <2>1, <2>3 DEF Calling, CallTypes, HonestAnswers
  <2>5. Deliveries'
    BY <2>1, <2>2, <2>3 DEF Calling, CallTypes, Deliveries
  <2> QED
    BY <2>4, <2>5 DEF Calling
<1>2. CASE Abort(c)
  <2>1. call[c] = "waiting"
    BY <1>2 DEF Abort
  <2>2. /\ call' = [call EXCEPT ![c] = "done"] /\ answer' = [answer EXCEPT ![c] = "network"]
        /\ requests' \subseteq requests /\ replies' = {t \in replies : t.call # c} /\ run' = run
    BY <1>2 DEF Abort
  <2>3. CallTypes' /\ HonestAnswers'
    BY <2>1, <2>2 DEF Calling, CallTypes, HonestAnswers
  <2>4. Deliveries'
    BY <2>2 DEF Calling, CallTypes, Deliveries
  <2> QED
    BY <2>3, <2>4 DEF Calling
<1>3. CASE Receive(c)
  <2>0. PICK t \in replies :
          /\ t.call = c /\ call[c] = "waiting"
          /\ call' = [call EXCEPT ![c] = "done"]
          /\ \E says \in Answers(t) : answer' = [answer EXCEPT ![c] = says]
          /\ replies' = replies \ {t}
    BY <1>3 DEF Receive
  <2>1. PICK says \in Answers(t) :
          /\ t.call = c /\ call[c] = "waiting"
          /\ call' = [call EXCEPT ![c] = "done"]
          /\ answer' = [answer EXCEPT ![c] = says]
          /\ replies' = replies \ {t}
    BY <2>0
  <2>2. requests' = requests /\ run' = run
    BY <1>3 DEF Receive
  <2>3. /\ run[c] # "running"
        /\ t.status = 200 => SaysSo(t.body, run[c])
        /\ t.status # 200 => run[c] \in {"none", "failed429", "threw"}
        /\ \A r \in requests : r.call # c
    BY <2>1 DEF Calling, Deliveries
  <2>4. \/ says = "http" /\ t.status # 200
        \/ says = "success" /\ t.status = 200 /\ t.body = "success"
        \/ says = "peer" /\ t.status = 200 /\ t.body # "success"
        \/ says = "unverified" /\ t.status = 200 /\ t.body \in {"success", "failed"}
    <3>1. says \in Answers(t)
      BY <2>1
    <3>2. CASE t.status # 200
      BY <3>1, <3>2 DEF Answers
    <3>3. CASE t.status = 200
      <4>1. \/ says = (IF t.body = "success" THEN "success" ELSE "peer")
            \/ says = "unverified" /\ t.body \in {"success", "failed"}
        BY <3>1, <3>3 DEF Answers
      <4> QED
        BY <3>3, <4>1
    <3> QED
      BY <3>2, <3>3
  <2>5. CallTypes' /\ HonestAnswers'
    <3>1. \A d \in Calls : d # c => answer'[d] = answer[d] /\ call'[d] = call[d]
      BY <2>1 DEF Calling, CallTypes
    <3>2. answer'[c] = says /\ call'[c] = "done"
      BY <2>1 DEF Calling, CallTypes
    <3>3. CallTypes'
      BY <2>1, <2>2, <2>4, <3>1, <3>2 DEF Calling, CallTypes
    <3>4. /\ says = "success" => run[c] = "success"
          /\ says = "http" => run[c] \in {"none", "failed429", "threw"}
          /\ says = "peer" => run[c] \notin {"running", "success"}
          /\ says = "unverified" => run[c] \in {"success", "failed"}
      BY <2>3, <2>4 DEF SaysSo
    <3>5. HonestAnswers'
      BY <2>2, <3>1, <3>2, <3>4 DEF Calling, HonestAnswers
    <3> QED
      BY <3>3, <3>5
  <2>6. Deliveries'
    <3>1. \A d \in Calls : d # c => call'[d] = call[d] /\ answer'[d] = answer[d]
      BY <2>1 DEF Calling, CallTypes
    <3>2. \A r \in requests' : r \in requests /\ r.call # c /\ r.call \in Calls
      BY <2>2, <2>3 DEF Calling, Deliveries
    <3>3. ASSUME NEW u \in replies' PROVE u \in replies /\ u.call # c
      BY <2>1 DEF Calling, Deliveries
    <3> QED
      BY <2>2, <3>1, <3>2, <3>3 DEF Calling, Deliveries
  <2> QED
    BY <2>5, <2>6 DEF Calling
<1> QED
  BY <1>1, <1>2, <1>3

\* Nobody answers a request that is under way.
LEMMA OnItsWay ==
  ASSUME Calling, NEW r \in requests
  PROVE  /\ r.call \in Calls /\ call[r.call] # "idle" /\ run[r.call] = "none"
         /\ answer[r.call] \in {"none", "network"}
         /\ \A s \in requests \ {r} : s.call # r.call
         /\ \A t \in replies : t.call # r.call
BY DEF Calling, Deliveries

LEMMA OutdatedStep ==
  ASSUME Calling, NEW r \in requests, Outdated(r)
  PROVE  Calling'
<1>1. /\ requests' = requests \ {r} /\ Reply(r.call, 401, "expired")
      /\ UNCHANGED callers /\ run' = run
  BY DEF Outdated
<1>2. PICK shown : shown = (IF r.call \in Rpc THEN RpcStatus(401) ELSE 401)
  OBVIOUS
<1>3. run \in [Calls -> {"none", "running"} \cup Outcomes]
  BY DEF Calling, CallTypes
<1>4. SaysSo("expired", run'[r.call])
  BY <1>1, OnItsWay DEF SaysSo
<1> QED
  BY <1>1, <1>2, <1>3, <1>4, OnItsWay, Told

LEMMA ArriveStep ==
  ASSUME Calling, NEW r \in requests, Arrive(r)
  PROVE  Calling'
<1> DEFINE c == r.call
<1>0. c \in Calls
  BY OnItsWay
<1>1. /\ requests' = requests \ {r} /\ UNCHANGED callers
  BY DEF Arrive
<1>2. run \in [Calls -> {"none", "running"} \cup Outcomes]
  BY DEF Calling, CallTypes
<1>3. CASE run' = run /\ Reply(c, 200, "draining")
  <2>1. PICK shown : shown = (IF c \in Rpc THEN RpcStatus(200) ELSE 200)
    OBVIOUS
  <2>2. shown = 200
    BY <2>1 DEF RpcStatus
  <2>3. SaysSo("draining", run'[c])
    BY <1>3, OnItsWay DEF SaysSo
  <2> QED
    BY <1>1, <1>2, <1>3, <2>1, <2>2, <2>3, OnItsWay, Told
<1>4. CASE run' = run /\ Reply(c, 429, "limited")
  <2>1. PICK shown : shown = (IF c \in Rpc THEN RpcStatus(429) ELSE 429)
    OBVIOUS
  <2>2. SaysSo("limited", run'[c])
    BY <1>4, OnItsWay DEF SaysSo
  <2> QED
    BY <1>1, <1>2, <1>4, <2>1, <2>2, OnItsWay, Told
<1>5. CASE run' = [run EXCEPT ![c] = "running"] /\ replies' = replies
  <2>1. call' = call /\ answer' = answer
    BY <1>1 DEF callers
  <2>2. run'[c] = "running" /\ \A d \in Calls : d # c => run'[d] = run[d]
    BY <1>0, <1>2, <1>5
  <2>3. CallTypes'
    BY <1>2, <1>5, <2>1, <2>2, OnItsWay DEF Calling, CallTypes
  <2>4. HonestAnswers'
    BY <2>1, <2>2, OnItsWay DEF Calling, HonestAnswers
  <2>5. Deliveries'
    BY <1>1, <1>5, <2>1, <2>2, OnItsWay DEF Calling, Deliveries
  <2> QED
    BY <2>3, <2>4, <2>5 DEF Calling
<1> QED
  BY <1>3, <1>4, <1>5 DEF Arrive

LEMMA FinishStep ==
  ASSUME Calling, NEW c \in Calls, NEW how \in Outcomes, Finish(c, how)
  PROVE  Calling'
<1>1. /\ run[c] = "running" /\ run' = [run EXCEPT ![c] = how]
      /\ UNCHANGED callers /\ requests' = requests
  BY DEF Finish
<1>2. /\ run' \in [Calls -> {"none", "running"} \cup Outcomes] /\ run'[c] = how
      /\ \A d \in Calls : d # c => run'[d] = run[d]
  BY <1>1 DEF Calling, CallTypes
<1>3. /\ \A r \in requests : r.call # c
      /\ \A t \in replies : t.call # c
      /\ answer[c] \in {"none", "network"} /\ call[c] # "idle" /\ how # "running"
  BY <1>1 DEF Calling, CallTypes, Deliveries, HonestAnswers, Outcomes
<1>4. ASSUME NEW status, NEW body, Reply(c, status, body),
             \/ status = 200 /\ body = "success" /\ how = "success"
             \/ status = 200 /\ body = "failed" /\ how = "failed"
             \/ status = 429 /\ body = "limited" /\ how = "failed429"
             \/ status = 500 /\ body = "error" /\ how = "threw"
      PROVE  Calling'
  <2>1. PICK shown : shown = (IF c \in Rpc THEN RpcStatus(status) ELSE status)
    OBVIOUS
  <2>2. /\ shown = 200 => SaysSo(body, how)
        /\ shown # 200 => how \in {"none", "failed429", "threw"}
    BY <1>4, <2>1 DEF RpcStatus, SaysSo
  <2> QED
    BY <1>1, <1>2, <1>3, <1>4, <2>1, <2>2, Told
<1> QED
  BY <1>4 DEF Finish

-----------------------------------------------------------------------------
InboundInv == LimitersKeep /\ Calling

LEMMA LimitersRest ==
  ASSUME LimitersKeep, UNCHANGED limiters, now' \in Int, now <= now'
  PROVE  LimitersKeep'
<1>1. UNCHANGED <<door, global, peer, skill, grants>>
  BY DEF limiters
<1>2. ASSUME NEW o, NEW l, NEW g, Keeping(o, l, g) PROVE Keeps(o, l, g) /\ l.lastRefill <= now'
  <2>1. l.lastRefill \in Int /\ now \in Int
    BY <1>2 DEF Keeping, Keeps, Times, LimitersKeep
  <2> QED
    BY <1>2, <2>1 DEF Keeping
<1>3. Keeping(Door, door, grants["door"])' /\ Keeping(Global, global, grants["global"])'
  BY <1>1, <1>2 DEF LimitersKeep, Keeping
<1>4. ASSUME NEW o, NEW known, NEW g, KeepingOnceAsked(o, known, g)
      PROVE  IF known = <<>> THEN g = <<>>
             ELSE \E l : known = <<l>> /\ Keeps(o, l, g) /\ l.lastRefill <= now'
  BY <1>2, <1>4 DEF KeepingOnceAsked
<1>5. \A p \in Peers : KeepingOnceAsked(PerPeer, peer[p], grants[p])'
  BY <1>1, <1>4 DEF LimitersKeep, KeepingOnceAsked, Keeping
<1>6. \A s \in Skills : KeepingOnceAsked(PerSkill, skill[s], grants[s])'
  BY <1>1, <1>4 DEF LimitersKeep, KeepingOnceAsked, Keeping
<1> QED
  BY <1>1, <1>3, <1>5, <1>6 DEF LimitersKeep

\* The invariant, and what a refusal is for.
LEMMA InboundStep ==
  ASSUME InboundInv, [Next]_vars
  PROVE  /\ InboundInv'
         /\ \A reply \in replies' \ replies :
              reply.status = 429 /\ run'[reply.call] = "none" =>
                \E x \in {"door", "global", PeerOf[reply.call], SkillOf[reply.call]} :
                  ~WithinLimits(OptionsOf(x), Append(grants[x], now))
<1> DEFINE Caused ==
      \A reply \in replies' \ replies :
        reply.status = 429 /\ run'[reply.call] = "none" =>
          \E x \in {"door", "global", PeerOf[reply.call], SkillOf[reply.call]} :
            ~WithinLimits(OptionsOf(x), Append(grants[x], now))
<1>0. LimitersKeep /\ Calling /\ now \in Int
  BY DEF InboundInv, LimitersKeep
<1>1. ASSUME UNCHANGED limiters, now' = now PROVE LimitersKeep'
  BY <1>0, <1>1, LimitersRest
<1>2. ASSUME NEW c \in Calls, Send(c) \/ Abort(c) \/ Receive(c) PROVE InboundInv' /\ Caused
  <2>1. UNCHANGED limiters /\ now' = now /\ replies' \subseteq replies
    BY <1>2 DEF Send, Abort, Receive
  <2> QED
    BY <1>0, <1>1, <1>2, <2>1, CallsStep DEF InboundInv
<1>3. ASSUME NEW c \in Calls, NEW how \in Outcomes, Finish(c, how) PROVE InboundInv' /\ Caused
  <2>1. UNCHANGED limiters /\ now' = now /\ run' = [run EXCEPT ![c] = how]
    BY <1>3 DEF Finish
  <2>2. \A reply \in replies' \ replies : reply.call = c
    BY <1>3 DEF Finish, Reply
  <2>3. run'[c] # "none"
    BY <1>0, <2>1 DEF Calling, CallTypes, Outcomes
  <2> QED
    BY <1>0, <1>1, <1>3, <2>1, <2>2, <2>3, FinishStep DEF InboundInv
<1>4. ASSUME NEW r \in requests, Outdated(r) PROVE InboundInv' /\ Caused
  <2>1. UNCHANGED limiters /\ now' = now
    BY <1>4 DEF Outdated
  <2>2. \A reply \in replies' \ replies : reply.status # 429
    BY <1>4 DEF Outdated, Reply, RpcStatus
  <2> QED
    BY <1>0, <1>1, <1>4, <2>1, <2>2, OutdatedStep DEF InboundInv
<1>5. ASSUME NEW r \in requests, Arrive(r) PROVE InboundInv' /\ Caused
  <2> DEFINE c == r.call
  <2>0. c \in Calls
    BY <1>0, OnItsWay
  <2>1. Tiers(c) /\ now' = now
    BY <1>5 DEF Arrive
  <2>2. /\ LimitersKeep'
        /\ ~Admitted(c) /\ ~(PastDoor /\ draining) =>
             \E x \in {"door", "global", PeerOf[c], SkillOf[c]} :
               ~WithinLimits(OptionsOf(x), Append(grants[x], now))
    BY <1>0, <2>0, <2>1, TiersKeep
  <2>3. CASE Admitted(c)
    BY <1>0, <1>5, <2>2, <2>3, ArriveStep DEF Arrive, InboundInv
  <2>4. CASE ~Admitted(c) /\ PastDoor /\ draining
    <3>1. \A reply \in replies' \ replies : reply.status # 429
      BY <1>5, <2>4 DEF Arrive, Reply, RpcStatus
    <3> QED
      BY <1>0, <1>5, <2>2, <3>1, ArriveStep DEF InboundInv
  <2>5. CASE ~Admitted(c) /\ ~(PastDoor /\ draining)
    <3>1. \A reply \in replies' \ replies : reply.call = c
      BY <1>5, <2>5 DEF Arrive, Reply
    <3> HIDE DEF c
    <3>2. Caused
      BY <2>2, <2>5, <3>1
    <3> QED
      BY <1>0, <1>5, <2>2, <3>2, ArriveStep DEF InboundInv
  <2> QED
    BY <2>3, <2>4, <2>5
<1>6. CASE Stop
  <2>1. UNCHANGED limiters /\ now' = now /\ UNCHANGED <<callers, requests, replies, run>>
    BY <1>6 DEF Stop
  <2> QED
    BY <1>0, <1>1, <2>1 DEF InboundInv, callers, Calling, CallTypes, Deliveries, HonestAnswers
<1>7. CASE Tick
  <2>1. UNCHANGED limiters /\ now' = now + 1 /\ UNCHANGED <<callers, requests, replies, run>>
    BY <1>7 DEF Tick
  <2>2. LimitersKeep'
    BY <1>0, <2>1, LimitersRest
  <2> QED
    BY <1>0, <2>1, <2>2 DEF InboundInv, callers, Calling, CallTypes, Deliveries, HonestAnswers
<1>8. CASE UNCHANGED vars
  <2>1. UNCHANGED limiters /\ now' = now /\ UNCHANGED <<callers, requests, replies, run>>
    BY <1>8 DEF vars
  <2> QED
    BY <1>0, <1>1, <2>1 DEF InboundInv, callers, Calling, CallTypes, Deliveries, HonestAnswers
<1> QED
  BY <1>2, <1>3, <1>4, <1>5, <1>6, <1>7, <1>8 DEF Next

LEMMA InboundInit == Init => InboundInv
<1> SUFFICES ASSUME Init PROVE InboundInv
  OBVIOUS
<1>1. /\ Keeps(Door, NewLimiter(Door, 0), <<>>) /\ NewLimiter(Door, 0).lastRefill = 0
      /\ Keeps(Global, NewLimiter(Global, 0), <<>>) /\ NewLimiter(Global, 0).lastRefill = 0
  <2>1. 0 \in Int /\ Door \in RateLimiterOptions /\ Global \in RateLimiterOptions
    BY Names
  <2> QED
    BY <2>1, KeepsNew
<1>2. /\ now = 0 /\ door = NewLimiter(Door, 0) /\ global = NewLimiter(Global, 0)
      /\ \A x \in Limiters : grants[x] = <<>>
      /\ peer = [p \in Peers |-> <<>>] /\ skill = [s \in Skills |-> <<>>]
  BY DEF Init
<1>3. grants \in [Limiters -> Seq(Int)]
  BY EmptySeq DEF Init
<1>4. Keeping(Door, door, grants["door"]) /\ Keeping(Global, global, grants["global"])
  BY <1>1, <1>2, Names DEF Keeping
<1>5. LimitersKeep
  BY <1>2, <1>3, <1>4, Names DEF LimitersKeep, KeepingOnceAsked
<1>6. Calling
  BY DEF Init, Calling, CallTypes, Deliveries, HonestAnswers
<1> QED
  BY <1>5, <1>6 DEF InboundInv

LEMMA InboundInvariant == Spec => []InboundInv
<1>1. InboundInv /\ [Next]_vars => InboundInv'
  BY InboundStep
<1> QED
  BY <1>1, InboundInit, PTL DEF Spec

\* Every limiter keeps its windows and its bucket, over any stretch of its life.
THEOREM LimitsAreKept == Spec => []LimitsHold
<1>1. InboundInv => LimitsHold
  <2> SUFFICES ASSUME InboundInv, NEW x \in Limiters
               PROVE  WithinLimits(OptionsOf(x), grants[x])
    BY DEF LimitsHold
  <2>1. CASE x \in {"door", "global"}
    BY <2>1, Names DEF InboundInv, LimitersKeep, Keeping, Keeps
  <2>2. CASE x \in Peers
    <3>1. KeepingOnceAsked(PerPeer, peer[x], grants[x]) /\ OptionsOf(x) = PerPeer
          /\ PerPeer \in RateLimiterOptions /\ 0 \in Int
      BY <2>2, Names DEF InboundInv, LimitersKeep
    <3>2. WithinLimits(PerPeer, <<>>)
      BY <3>1, KeepsNew DEF Keeps
    <3> QED
      BY <3>1, <3>2 DEF KeepingOnceAsked, Keeping, Keeps
  <2>3. CASE x \in Skills
    <3>1. KeepingOnceAsked(PerSkill, skill[x], grants[x]) /\ OptionsOf(x) = PerSkill
          /\ PerSkill \in RateLimiterOptions /\ 0 \in Int
      BY <2>3, Names DEF InboundInv, LimitersKeep
    <3>2. WithinLimits(PerSkill, <<>>)
      BY <3>1, KeepsNew DEF Keeps
    <3> QED
      BY <3>1, <3>2 DEF KeepingOnceAsked, Keeping, Keeps
  <2> QED
    BY <2>1, <2>2, <2>3 DEF Limiters
<1> QED
  BY <1>1, InboundInvariant, PTL

\* A request that was not run is told of a limit only if to run it would have broken one.
THEOREM RefusalsHaveCause == Spec => RefusedForCause
<1>1. InboundInv /\ [Next]_vars =>
        [\A reply \in replies' \ replies :
           reply.status = 429 /\ run'[reply.call] = "none" =>
             \E x \in {"door", "global", PeerOf[reply.call], SkillOf[reply.call]} :
               ~WithinLimits(OptionsOf(x), Append(grants[x], now))]_vars
  BY InboundStep
<1> QED
  BY <1>1, InboundInvariant, PTL DEF Spec, RefusedForCause

\* What a caller is told of its call agrees with what the agent did, unless the error
\* tells of a broken connection, a timeout or a signature.
THEOREM AnswersAreHonest == Spec => []HonestAnswers
<1>1. InboundInv => HonestAnswers
  BY DEF InboundInv, Calling
<1> QED
  BY <1>1, InboundInvariant, PTL
=============================================================================
