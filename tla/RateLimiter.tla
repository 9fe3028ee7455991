---------------------------- MODULE RateLimiter -----------------------------
(***************************************************************************)
(* core/resilience/rate-limiter.ts: a token bucket with two sliding         *)
(* windows.  The methods never await: each is an operator from a limiter    *)
(* and the time to the limiter after it.  A limiter without one of the      *)
(* windows has a limit there that is never reached.  Requests take one      *)
(* token each, as all of src's do, and a tick brings whole tokens.          *)
(***************************************************************************)
EXTENDS Integers, Sequences, SequencesExt

CONSTANTS
  Minute, Hour   \* the windows, in ticks

ASSUME LimiterAssumption == Minute \in Nat /\ Hour \in Nat

\* RateLimiterOptions: the bucket, the tokens a tick brings, the limits of the windows.
RateLimiterOptions == [bucket : Nat, rate : Nat, perMinute : Nat, perHour : Nat]

Options(bucket, rate, perMinute, perHour) ==
  [bucket |-> bucket, rate |-> rate, perMinute |-> perMinute, perHour |-> perHour]

\* The constructor, and reset.
NewLimiter(o, now) ==
  [tokens |-> o.bucket, lastRefill |-> now, minute |-> <<>>, hour |-> <<>>]

\* refill.
Refilled(o, l, now) ==
  [l EXCEPT !.tokens =
     LET full == @ + (now - l.lastRefill) * o.rate IN IF full > o.bucket THEN o.bucket ELSE full,
   !.lastRefill = now]

\* The loop that shifts off the front of a window what is older than that.
Unshifted(times, oldest) ==
  LET stays == {i \in 1..Len(times) : times[i] >= oldest} \cup {Len(times) + 1}
  IN  SubSeq(times, Min(stays), Len(times))

\* Mutant: what is exactly a window old is dropped.
CleanedEarly(l, now) ==
  [l EXCEPT !.minute = Unshifted(@, now - Minute + 1),
            !.hour = Unshifted(@, now - Hour + 1)]

\* cleanWindows: what is exactly a window old still counts.
Cleaned(l, now) ==
  [l EXCEPT !.minute = Unshifted(@, now - Minute), !.hour = Unshifted(@, now - Hour)]

Grants(o, l) ==
  /\ l.tokens >= 1
  /\ Len(l.minute) + 1 <= o.perMinute
  /\ Len(l.hour) + 1 <= o.perHour

Granted(l, now) ==
  [l EXCEPT !.tokens = @ - 1, !.minute = Append(@, now), !.hour = Append(@, now)]

\* Mutant: a request that is refused is counted as well.
TryConsumeAnyway(o, l, now) ==
  LET fresh == Cleaned(Refilled(o, l, now), now) IN
  [ok |-> Grants(o, fresh), limiter |-> Granted(fresh, now)]

\* tryConsume: whether the request is granted, and the limiter after it.
TryConsume(o, l, now) ==
  LET fresh == Cleaned(Refilled(o, l, now), now) IN
  IF Grants(o, fresh) THEN [ok |-> TRUE, limiter |-> Granted(fresh, now)]
  ELSE [ok |-> FALSE, limiter |-> fresh]

-----------------------------------------------------------------------------
(* What a limiter promises of the times it granted at, given in their order    *)

\* No window, wherever it begins, has more grants than its limit: no run of grants that
\* many lies within one.  And no burst, however long, has more than a full bucket and
\* what flowed in meanwhile.
WithinLimits(o, grants) ==
  \A i \in 1..Len(grants) : \A j \in i..Len(grants) :
    LET apart == grants[j] - grants[i] IN
    /\ apart <= Minute => j - i < o.perMinute
    /\ apart <= Hour => j - i < o.perHour
    /\ j - i < o.bucket + o.rate * apart
=============================================================================
