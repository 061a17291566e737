---------------------------- MODULE RateLimiter ----------------------------
(***************************************************************************)
(* The limits of one API key (src/src/security/rate-limit.ts): requests    *)
(* per minute and tokens per day.  Keys share no state, so one is enough,  *)
(* and a key without an entry in `usage` answers like one whose entry is   *)
(* empty.  A request is counted when it is admitted (check); its tokens    *)
(* when the upstream reports them (recordTokens), any time later.          *)
(*                                                                         *)
(* A second, a minute, an hour and a day are constants, so that TLC can    *)
(* take short ones.  The clock does not go backwards.                      *)
(***************************************************************************)
EXTENDS Integers, Sequences, Functions, FiniteSets

CONSTANTS
    Second, Minute, Hour, Day,
    Configs,    \* pairs of limits, 0 for none
    Charges,    \* the tokens of an answer
    MaxTime,    \* bound: the last moment of a run
    MaxLog,     \* bound: requests admitted by a limiter in a run
    MaxRunning  \* bound: requests under way at once

ASSUME UnitsAreOrdered ==
    /\ {Second, Minute, Hour, Day} \subseteq Nat
    /\ Second > 0 /\ Minute > 0 /\ Hour > 0 /\ Day > 0
    /\ Day % Hour = 0
ASSUME LimitsAreNumbers ==
    /\ Configs \subseteq [requests : Nat, tokens : Nat]
    /\ Charges \subseteq Nat
    /\ {MaxTime, MaxLog, MaxRunning} \subseteq Nat

VARIABLES
    limits,     \* requestLimit and tokenLimit
    now,        \* Date.now()
    times,      \* requestTimes
    hourly,     \* hourly: the tokens of each bucket, 0 where the map has none
    running,    \* admitted requests that have not ended
    log,        \* ghost: when each request was admitted
    spent       \* ghost: the tokens reported at each moment

limiterVars == <<limits, now, times, hourly, running, log, spent>>

Moments == 0 .. MaxTime
Bucket(t) == t \div Hour
Buckets == 0 .. Bucket(MaxTime)

\* get enabled()
Enabled == limits.requests > 0 \/ limits.tokens > 0

LimiterInit ==
    /\ limits \in Configs
    /\ now = 0
    /\ times = <<>>
    /\ hourly = [b \in Buckets |-> 0]
    /\ running = 0
    /\ log = <<>>
    /\ spent = [t \in Moments |-> 0]

-----------------------------------------------------------------------------
(* check, recordTokens, sweep *)

\* slip: the window ends a moment early
Younger(t) == now - t < Minute - 1
\* the filter of check: less than a minute old.  The list is in order, so what
\* it drops is the front.
Recent(t) == now - t < Minute
Stale ==
    CHOOSE k \in 0 .. Len(times) :
        \A i \in DOMAIN times : Recent(times[i]) <=> i > k
InLastMinute == SubSeq(times, Stale + 1, Len(times))

\* slip: a day's first bucket is kept for one hour more
KeptLonger(b) == b + Day \div Hour >= Bucket(now)
\* prune deletes every bucket up to the one of a day ago
Kept(b) == b + Day \div Hour > Bucket(now)
Pruned(h) == [b \in DOMAIN h |-> IF Kept(b) THEN h[b] ELSE 0]

\* totalTokens
Total(h) == SumFunction(h)

\* the two refusals of check, in its order
TooManyRequests == limits.requests > 0 /\ Len(InLastMinute) >= limits.requests
QuotaIsSpent == limits.tokens > 0 /\ Total(Pruned(hourly)) >= limits.tokens

\* slip: the fraction of a second is cut off
RoundedDown(ms) == ms \div Second
\* Math.ceil(ms / 1000)
Seconds(ms) == (ms + Second - 1) \div Second
\* the Retry-After of a refusal for requests; the list is sorted, so its first
\* element is the oldest
RetryAfter ==
    LET wait == Seconds(InLastMinute[1] + Minute - now)
    IN  IF wait > 1 THEN wait ELSE 1

\* check admits the request and counts it
Admit ==
    /\ Enabled => ~TooManyRequests /\ ~QuotaIsSpent
    /\ Len(log) < MaxLog /\ running < MaxRunning
    /\ running' = running + 1
    /\ IF Enabled
       THEN /\ times' = Append(InLastMinute, now)
            /\ hourly' = Pruned(hourly)
            /\ log' = Append(log, now)
       ELSE UNCHANGED <<times, hourly, log>>
    /\ UNCHANGED <<limits, now, spent>>

\* check refuses it: what is out of the windows goes, the rest stays
RefuseRequests ==
    /\ TooManyRequests
    /\ times' = InLastMinute
    /\ hourly' = Pruned(hourly)
    /\ UNCHANGED <<limits, now, running, log, spent>>
RefuseTokens ==
    /\ ~TooManyRequests /\ QuotaIsSpent
    /\ times' = InLastMinute
    /\ hourly' = Pruned(hourly)
    /\ UNCHANGED <<limits, now, running, log, spent>>

\* a request ends; chargeUsage calls recordTokens if its tokens are known
End(tokens) ==
    /\ running > 0
    /\ running' = running - 1
    /\ IF Enabled /\ tokens > 0
       THEN /\ hourly' = Pruned([hourly EXCEPT ![Bucket(now)] = @ + tokens])
            /\ spent' = [spent EXCEPT ![now] = @ + tokens]
       ELSE UNCHANGED <<hourly, spent>>
    /\ UNCHANGED <<limits, now, times, log>>

\* sweep, once an hour.  It prunes the buckets and not the times, and deletes
\* an entry that is empty.  main.ts sweeps a limiter of its own, which only
\* records tokens; the one that app.ts asks is never swept.
Sweep ==
    /\ hourly' = Pruned(hourly)
    /\ UNCHANGED <<limits, now, times, running, log, spent>>

TimePasses ==
    /\ Enabled
    /\ now < MaxTime
    /\ now' = now + 1
    /\ UNCHANGED <<limits, times, hourly, running, log, spent>>

LimiterNext ==
    \/ Admit \/ RefuseRequests \/ RefuseTokens \/ Sweep \/ TimePasses
    \/ \E tokens \in Charges : End(tokens)

LimiterSpec == LimiterInit /\ [][LimiterNext]_limiterVars

-----------------------------------------------------------------------------
(* Properties *)

\* The types; the times are those of the last requests admitted, in order.
LimiterTypeOK ==
    /\ limits \in Configs
    /\ now \in Moments
    /\ hourly \in [Buckets -> Nat]
    /\ running \in Nat
    /\ times \in Seq(Moments)
    /\ log \in Seq(Moments)

\* The limit of requests holds in every window of a minute, wherever it begins,
\* and not only in those a request happens to end: of requests that are `limit`
\* apart the later comes at least a minute after the earlier.
WindowRespected ==
    limits.requests > 0 =>
        \A i, j \in DOMAIN log :
            j = i + limits.requests => log[j] - log[i] >= Minute

\* the tokens reported in the last `span` units
SpentIn(span) == SumFunctionOnSet(spent, {t \in 0 .. now : now - t < span})

\* The quota is rolling though it is kept by the hour: a request is admitted
\* only if less than the quota was spent in the 23 hours before, and refused
\* only if the quota was spent in the 24 hours before.  Tokens that are reported
\* late, after other requests were admitted, count when they are reported.
QuotaIsRolling ==
    [][limits.tokens > 0 =>
          /\ Len(log') > Len(log) => SpentIn(Day - Hour) < limits.tokens
          /\ RefuseTokens => SpentIn(Day) >= limits.tokens]_limiterVars

\* The Retry-After of a refusal for requests tells the truth about the limit of
\* requests: if nobody else came, a client that waits that long is not refused for
\* requests again, and one that waits a second less is.  It says nothing of the
\* quota: tokens reported meanwhile may have spent it, and the client that waited
\* is then refused for its tokens (rate-limit.ts:78-90).
HasRoomAt(t) ==
    Cardinality({i \in DOMAIN times : t - times[i] < Minute}) < limits.requests
RetryIsExact ==
    TooManyRequests =>
        /\ HasRoomAt(now + RetryAfter * Second)
        /\ RetryAfter > 1 => ~HasRoomAt(now + (RetryAfter - 1) * Second)
=============================================================================
