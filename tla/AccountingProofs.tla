-------------------------- MODULE AccountingProofs --------------------------
(***************************************************************************)
(* The limits of a key and the request log, of the composition of the two. *)
(*                                                                         *)
(* The limits: the request limit holds in every window, the Retry-After of *)
(* a refusal is exact and the quota of tokens is rolling, for every limit, *)
(* any lengths of the units and any bounds.  For the requests the          *)
(* invariant says that the times a key's entry keeps are the last ones of  *)
(* the log and no more than the limit, and that those it dropped are a     *)
(* minute old at least.  For the tokens it says that a bucket that is kept *)
(* has what was spent in its hour; the rest is arithmetic of sums.         *)
(*                                                                         *)
(* The request log, for every backend, size of the batches and bound: no   *)
(* record is lost without a trace, written twice or out of order, and a    *)
(* shutdown without a failing write leaves nothing behind.  A record is in *)
(* one place, so the invariant says of every two places that they share    *)
(* none, and of every list that it has none twice; a new record is in none *)
(* of them because each has a number given before.  The file is in order   *)
(* because its parts are: the rotated file, the file, the queue.  For the  *)
(* drain it says whose loss the process has caused: the one record a torn  *)
(* line takes, events, and what came after the shutdown began.             *)
(***************************************************************************)
EXTENDS Accounting, SequenceTheorems, FiniteSetTheorems, WellFoundedInduction, TLAPS

-----------------------------------------------------------------------------
(* The limits of a key *)

Sorted(s) == \A i, j \in DOMAIN s : i <= j => s[i] <= s[j]

\* how many admitted requests the entry has dropped
Aged == Len(log) - Len(times)

LogType ==
    /\ limits \in Configs
    /\ now \in Nat
    /\ times \in Seq(Nat) /\ log \in Seq(Nat)

LogOrdered ==
    /\ Sorted(log)
    /\ \A i \in DOMAIN log : log[i] <= now

Suffix ==
    Enabled =>
        /\ Aged \in Nat
        /\ \A i \in DOMAIN times : times[i] = log[Aged + i]
        /\ \A i \in DOMAIN log : i <= Aged => now - log[i] >= Minute

\* the entry is never longer than the limit
Bounded == limits.requests > 0 => Len(times) <= limits.requests

IInv == LogType /\ LogOrdered /\ Suffix /\ Bounded /\ WindowRespected

-----------------------------------------------------------------------------
\* Of a sorted list the filter drops the front.
LEMMA StaleIsFront ==
    ASSUME now \in Nat, times \in Seq(Nat), Sorted(times)
    PROVE  /\ Stale \in 0 .. Len(times)
           /\ \A i \in DOMAIN times : Recent(times[i]) <=> i > Stale
  <1> DEFINE P(k) == \A i \in DOMAIN times : Recent(times[i]) <=> i > k
             R == {i \in DOMAIN times : Recent(times[i])}
  <1>1. DOMAIN times = 1 .. Len(times) /\ Len(times) \in Nat
    BY LenProperties
  <1>2. \A i \in DOMAIN times : times[i] \in Nat
    BY <1>1, ElementOfSeq
  <1>3. \E k \in 0 .. Len(times) : P(k)
    <2>1. CASE R = {}
      BY <2>1, <1>1
    <2>2. CASE R # {}
      <3>1. R \subseteq Nat
        BY <1>1
      <3>2. PICK m \in R : \A y \in R : ~(<<y, m>> \in OpToRel(<, Nat))
        BY <2>2, <3>1, NatLessThanWellFounded, WFMin
      <3>3. \A y \in R : ~(y < m)
        BY <3>1, <3>2 DEF OpToRel
      <3>4. \A i \in DOMAIN times : i >= m => Recent(times[i])
        <4> SUFFICES ASSUME NEW i \in DOMAIN times, i >= m PROVE Recent(times[i])
          OBVIOUS
        <4>1. times[m] <= times[i] /\ now - times[m] < Minute
          BY <1>1 DEF Sorted, Recent
        <4> QED BY <4>1, <1>2, UnitsAreOrdered DEF Recent
      <3>5. m - 1 \in 0 .. Len(times) /\ P(m - 1)
        BY <1>1, <3>3, <3>4
      <3> QED BY <3>5
    <2> QED BY <2>1, <2>2
  <1>4. Stale = CHOOSE k \in 0 .. Len(times) : P(k)
    BY DEF Stale
  <1> HIDE DEF P
  <1>5. Stale \in 0 .. Len(times) /\ P(Stale)
    BY <1>3, <1>4
  <1> QED BY <1>5 DEF P

\* The entry is sorted because the log is.
LEMMA TimesSorted ==
    ASSUME IInv, Enabled
    PROVE  Sorted(times)
  <1>1. /\ DOMAIN times = 1 .. Len(times) /\ DOMAIN log = 1 .. Len(log)
        /\ Len(times) \in Nat /\ Len(log) \in Nat
    BY LenProperties DEF IInv, LogType
  <1>2. \A i \in DOMAIN times : Aged + i \in DOMAIN log
    BY <1>1 DEF IInv, Suffix, Aged
  <1> QED BY <1>1, <1>2 DEF IInv, Suffix, LogOrdered, Sorted, Aged

\* What the filter leaves is again the end of the log, and what it drops is a
\* minute old.
LEMMA FilterKeepsSuffix ==
    ASSUME IInv, Enabled
    PROVE  /\ InLastMinute \in Seq(Nat)
           /\ Len(InLastMinute) \in 0 .. Len(log)
           /\ Len(InLastMinute) <= Len(times)
           /\ \A i \in DOMAIN InLastMinute : Recent(InLastMinute[i])
           /\ \A i \in DOMAIN InLastMinute :
                 InLastMinute[i] = log[Len(log) - Len(InLastMinute) + i]
           /\ \A i \in DOMAIN log :
                 i <= Len(log) - Len(InLastMinute) => now - log[i] >= Minute
  <1>1. /\ DOMAIN times = 1 .. Len(times) /\ DOMAIN log = 1 .. Len(log)
        /\ Len(times) \in Nat /\ Len(log) \in Nat
        /\ \A i \in DOMAIN times : times[i] \in Nat
        /\ \A i \in DOMAIN log : log[i] \in Nat
    BY LenProperties, ElementOfSeq DEF IInv, LogType
  <1>2. /\ Stale \in 0 .. Len(times)
        /\ \A i \in DOMAIN times : Recent(times[i]) <=> i > Stale
    BY StaleIsFront, TimesSorted DEF IInv, LogType
  <1>3. /\ InLastMinute \in Seq(Nat)
        /\ Len(InLastMinute) = Len(times) - Stale
        /\ \A i \in 1 .. Len(times) - Stale : InLastMinute[i] = times[Stale + i]
    <2>1. Stale + 1 \in Int /\ Len(times) \in Int
          /\ \A i \in Stale + 1 .. Len(times) : times[i] \in Nat
      BY <1>1, <1>2
    <2>2. /\ InLastMinute \in Seq(Nat)
          /\ Len(InLastMinute) =
                IF Stale + 1 <= Len(times) THEN Len(times) - (Stale + 1) + 1 ELSE 0
          /\ \A i \in 1 .. Len(times) - (Stale + 1) + 1 :
                InLastMinute[i] = times[Stale + 1 + i - 1]
      BY <2>1, SubSeqProperties DEF InLastMinute
    <2>3. ASSUME NEW i \in 1 .. Len(times) - Stale
          PROVE  InLastMinute[i] = times[Stale + i]
      <3>1. i \in 1 .. Len(times) - (Stale + 1) + 1 /\ Stale + 1 + i - 1 = Stale + i
        BY <1>1, <1>2
      <3> QED BY <2>2, <3>1
    <2>4. Len(InLastMinute) = Len(times) - Stale
      <3>1. Stale \in Int /\ Len(times) \in Int /\ Stale <= Len(times)
        BY <1>1, <1>2
      <3>2. Len(InLastMinute) =
              IF Stale + 1 <= Len(times) THEN Len(times) - (Stale + 1) + 1 ELSE 0
        BY <2>2
      <3>3. CASE Stale + 1 <= Len(times)
        BY <3>1, <3>2, <3>3
      <3>4. CASE ~(Stale + 1 <= Len(times))
        BY <3>1, <3>2, <3>4
      <3> QED BY <3>3, <3>4
    <2> QED BY <2>2, <2>3, <2>4
  <1>4. DOMAIN InLastMinute = 1 .. Len(InLastMinute)
    BY <1>3, LenProperties
  <1>5. Aged \in Nat /\ Len(times) <= Len(log)
    BY <1>1 DEF IInv, Suffix, Aged
  <1>6. ASSUME NEW i \in DOMAIN InLastMinute
        PROVE  InLastMinute[i] = log[Len(log) - Len(InLastMinute) + i]
    <2>1. Stale + i \in DOMAIN times /\ InLastMinute[i] = times[Stale + i]
      BY <1>1, <1>2, <1>3, <1>4
    <2>2. times[Stale + i] = log[Aged + (Stale + i)]
      BY <2>1 DEF IInv, Suffix
    <2>3. Aged + (Stale + i) = Len(log) - Len(InLastMinute) + i
      BY <1>1, <1>2, <1>3, <1>4 DEF Aged
    <2> QED BY <2>1, <2>2, <2>3
  <1>7. ASSUME NEW i \in DOMAIN log, i <= Len(log) - Len(InLastMinute)
        PROVE  now - log[i] >= Minute
    <2>1. CASE i <= Aged
      BY <2>1 DEF IInv, Suffix
    <2>2. CASE i > Aged
      <3>1. i - Aged \in DOMAIN times /\ ~(i - Aged > Stale)
        BY <1>1, <1>2, <1>3, <1>5, <1>7, <2>2 DEF Aged
      <3>2. ~Recent(times[i - Aged]) /\ times[i - Aged] = log[i]
        BY <1>1, <1>2, <1>5, <3>1 DEF IInv, Suffix
      <3> QED BY <1>1, <3>2, UnitsAreOrdered DEF Recent, IInv, LogType
    <2> QED BY <1>1, <1>5, <2>1, <2>2
  <1>8. Len(InLastMinute) \in 0 .. Len(log) /\ Len(InLastMinute) <= Len(times)
    BY <1>1, <1>2, <1>3, <1>5
  <1>9. ASSUME NEW i \in DOMAIN InLastMinute
        PROVE  Recent(InLastMinute[i])
    <2>1. Stale + i \in DOMAIN times /\ Stale + i > Stale /\ InLastMinute[i] = times[Stale + i]
      BY <1>1, <1>2, <1>3, <1>4
    <2> QED BY <1>2, <2>1
  <1> QED BY <1>3, <1>6, <1>7, <1>8, <1>9

-----------------------------------------------------------------------------
LEMMA InitKeeps == Init => IInv
  <1> SUFFICES ASSUME Init PROVE IInv
    OBVIOUS
  <1>1. /\ limits \in Configs /\ now = 0 /\ times = <<>> /\ log = <<>>
    BY DEF Init, LimiterInit
  <1>2. <<>> \in Seq(Nat) /\ Len(<<>>) = 0 /\ DOMAIN <<>> = {}
    OBVIOUS
  <1>3. limits.requests \in Nat
    BY <1>1, LimitsAreNumbers
  <1> QED BY <1>1, <1>2, <1>3 DEF IInv, LogType, LogOrdered, Sorted, Suffix, Aged, Bounded, WindowRespected

\* The request that is admitted comes a minute after the one `limit` before it:
\* either that one is dropped, or the entry would be full.
LEMMA AdmitKeeps ==
    ASSUME IInv, Admit
    PROVE  IInv'
  <1>1. /\ Len(times) \in Nat /\ Len(log) \in Nat /\ DOMAIN log = 1 .. Len(log)
        /\ DOMAIN times = 1 .. Len(times)
        /\ now \in Nat /\ limits' = limits /\ now' = now /\ Minute \in Nat
        /\ limits.requests \in Nat /\ limits.tokens \in Nat
        /\ \A i \in DOMAIN log : log[i] \in Nat
    BY LenProperties, ElementOfSeq, LimitsAreNumbers, UnitsAreOrdered DEF IInv, LogType, Admit
  <1>2. CASE ~Enabled
    <2>1. UNCHANGED <<limits, now, times, log>> /\ ~Enabled'
      BY <1>2 DEF Admit, Enabled
    <2>2. limits.requests = 0
      BY <1>1, <1>2 DEF Enabled
    <2> QED BY <2>1, <2>2 DEF IInv, LogType, LogOrdered, Sorted, Suffix, Bounded, WindowRespected
  <1>3. CASE Enabled
    <2> DEFINE kept == InLastMinute
    <2>1. /\ kept \in Seq(Nat) /\ Len(kept) \in 0 .. Len(log)
          /\ \A i \in DOMAIN kept : kept[i] = log[Len(log) - Len(kept) + i]
          /\ \A i \in DOMAIN log : i <= Len(log) - Len(kept) => now - log[i] >= Minute
      BY <1>3, FilterKeepsSuffix
    <2>2. times' = Append(kept, now) /\ log' = Append(log, now)
      BY <1>3 DEF Admit
    <2>3. limits.requests > 0 => Len(kept) < limits.requests
      <3>1. limits.requests > 0 => ~(Len(kept) >= limits.requests)
        BY <1>3 DEF Admit, TooManyRequests
      <3> QED BY <1>1, <2>1, <3>1
    <2> HIDE DEF kept
    <2>4. /\ log' \in Seq(Nat) /\ Len(log') = Len(log) + 1 /\ DOMAIN log' = 1 .. Len(log) + 1
          /\ \A i \in 1 .. Len(log) : log'[i] = log[i]
          /\ log'[Len(log) + 1] = now
      BY <1>1, <2>2, AppendProperties DEF IInv, LogType
    <2>5. /\ times' \in Seq(Nat) /\ Len(times') = Len(kept) + 1
          /\ DOMAIN times' = 1 .. Len(kept) + 1
          /\ \A i \in 1 .. Len(kept) : times'[i] = kept[i]
          /\ times'[Len(kept) + 1] = now
      BY <1>1, <2>1, <2>2, AppendProperties
    <2>6. DOMAIN kept = 1 .. Len(kept) /\ Len(kept) \in Nat
      BY <2>1, LenProperties
    <2>7. LogType'
      BY <1>1, <2>4, <2>5 DEF IInv, LogType
    <2>8. LogOrdered'
      <3>1. \A i \in DOMAIN log' : log'[i] <= now
        BY <1>1, <2>4 DEF IInv, LogOrdered
      <3>2. ASSUME NEW i \in DOMAIN log', NEW j \in DOMAIN log', i <= j
            PROVE  log'[i] <= log'[j]
        <4>1. CASE j = Len(log) + 1
          BY <2>4, <3>1, <4>1
        <4>2. CASE j # Len(log) + 1
          <5>1. i \in DOMAIN log /\ j \in DOMAIN log
            BY <1>1, <2>4, <3>2, <4>2
          <5> QED BY <1>1, <2>4, <3>2, <5>1 DEF IInv, LogOrdered, Sorted
        <4> QED BY <4>1, <4>2
      <3> QED BY <1>1, <3>1, <3>2 DEF LogOrdered, Sorted
    <2>9. Suffix'
      <3>1. Len(log') - Len(times') = Len(log) - Len(kept)
        BY <1>1, <2>4, <2>5, <2>6
      <3>2. ASSUME NEW i \in DOMAIN times' PROVE times'[i] = log'[Len(log) - Len(kept) + i]
        <4>1. CASE i = Len(kept) + 1
          <5>1. Len(log) - Len(kept) + i = Len(log) + 1
            BY <1>1, <2>6, <4>1
          <5> QED BY <2>4, <2>5, <4>1, <5>1
        <4>2. CASE i # Len(kept) + 1
          <5>1. i \in 1 .. Len(kept) /\ Len(log) - Len(kept) + i \in 1 .. Len(log)
            BY <1>1, <2>1, <2>5, <2>6, <4>2
          <5> QED BY <2>1, <2>4, <2>5, <2>6, <5>1
        <4> QED BY <4>1, <4>2
      <3>3. ASSUME NEW i \in DOMAIN log', i <= Len(log) - Len(kept)
            PROVE  now - log'[i] >= Minute
        <4>1. i \in DOMAIN log
          BY <1>1, <2>4, <2>6, <3>3
        <4> QED BY <1>1, <2>1, <2>4, <3>3, <4>1
      <3>4. Len(log) - Len(kept) \in Nat
        BY <1>1, <2>1
      <3> QED BY <1>1, <3>1, <3>2, <3>3, <3>4 DEF Suffix, Aged
    <2>10. WindowRespected'
      <3> SUFFICES ASSUME limits.requests > 0, NEW i \in DOMAIN log', NEW j \in DOMAIN log',
                          j = i + limits.requests
                   PROVE  log'[j] - log'[i] >= Minute
        BY <1>1 DEF WindowRespected
      <3>1. CASE j = Len(log) + 1
        <4>1. i \in DOMAIN log /\ i <= Len(log) - Len(kept)
          BY <1>1, <2>3, <2>4, <2>6, <3>1
        <4> QED BY <1>1, <2>1, <2>4, <3>1, <4>1
      <3>2. CASE j # Len(log) + 1
        <4>1. i \in DOMAIN log /\ j \in DOMAIN log
          BY <1>1, <2>4, <3>2
        <4>2. log[j] - log[i] >= Minute
          BY <4>1 DEF IInv, WindowRespected
        <4> QED BY <2>4, <1>1, <4>1, <4>2
      <3> QED BY <3>1, <3>2
    <2>11. Bounded'
      BY <1>1, <2>3, <2>5, <2>6 DEF Bounded
    <2> QED BY <2>7, <2>8, <2>9, <2>10, <2>11 DEF IInv
  <1> QED BY <1>2, <1>3

\* A refusal drops what is a minute old and changes nothing else.
LEMMA RefuseKeeps ==
    ASSUME IInv, RefuseRequests \/ RefuseTokens
    PROVE  IInv'
  <1>1. times' = InLastMinute /\ UNCHANGED <<limits, now, log>>
    BY DEF RefuseRequests, RefuseTokens
  <1>2. Enabled /\ Enabled' = Enabled
    BY <1>1 DEF RefuseRequests, RefuseTokens, TooManyRequests, QuotaIsSpent, Enabled
  <1>3. /\ InLastMinute \in Seq(Nat)
        /\ Len(InLastMinute) \in 0 .. Len(log)
        /\ Len(InLastMinute) <= Len(times)
        /\ \A i \in DOMAIN InLastMinute :
              InLastMinute[i] = log[Len(log) - Len(InLastMinute) + i]
        /\ \A i \in DOMAIN log :
              i <= Len(log) - Len(InLastMinute) => now - log[i] >= Minute
    BY <1>2, FilterKeepsSuffix
  <1>4. Len(log) - Len(InLastMinute) \in Nat
    BY <1>3, LenProperties DEF IInv, LogType
  <1>5. limits.requests \in Nat /\ Len(times) \in Nat /\ Len(InLastMinute) \in Nat
    BY <1>3, LenProperties, LimitsAreNumbers DEF IInv, LogType
  <1> QED BY <1>1, <1>3, <1>4, <1>5 DEF IInv, LogType, LogOrdered, Sorted, Suffix, Aged, Bounded, WindowRespected

\* Nothing else touches the times and the log, except the clock and a restart.
LEMMA OtherKeeps ==
    ASSUME IInv, UNCHANGED <<limits, times, log>>, now' \in {now, now + 1}
    PROVE  IInv'
  <1>1. /\ DOMAIN log = 1 .. Len(log) /\ Len(log) \in Nat /\ now \in Nat /\ Minute \in Nat
        /\ \A i \in DOMAIN log : log[i] \in Nat
    BY LenProperties, ElementOfSeq, UnitsAreOrdered DEF IInv, LogType
  <1>2. LogType' /\ Bounded' /\ WindowRespected'
    BY <1>1 DEF IInv, LogType, Bounded, WindowRespected
  <1>3. LogOrdered' /\ Suffix'
    BY <1>1 DEF IInv, LogOrdered, Sorted, Suffix, Aged, Enabled
  <1> QED BY <1>2, <1>3 DEF IInv

LEMMA NextKeeps == IInv /\ [Next]_vars => IInv'
  <1> SUFFICES ASSUME IInv, [Next]_vars PROVE IInv'
    OBVIOUS
  <1>1. CASE Admitted
    BY <1>1, AdmitKeeps DEF Admitted
  <1>2. CASE Rejected
    BY <1>2, RefuseKeeps DEF Rejected
  <1>3. CASE Start
    <2>1. times' = <<>> /\ log' = <<>> /\ UNCHANGED <<limits, now>>
      BY <1>3 DEF Start
    <2>2. <<>> \in Seq(Nat) /\ Len(<<>>) = 0 /\ DOMAIN <<>> = {}
      OBVIOUS
    <2>3. limits.requests \in Nat
      BY LimitsAreNumbers DEF IInv, LogType
    <2> QED BY <2>1, <2>2, <2>3 DEF IInv, LogType, LogOrdered, Sorted, Suffix, Aged, Bounded, WindowRespected
  <1>4. CASE PoolEvent \/ (\E tokens \in Charges : Ended(tokens)) \/ Background \/ Stop
    <2>1. UNCHANGED <<limits, times, log>> /\ now' \in {now, now + 1}
      BY <1>4 DEF PoolEvent, Ended, End, Background, Stop, Sweep, TimePasses, limiterVars
    <2> QED BY <2>1, OtherKeeps
  <1>5. CASE UNCHANGED vars
    BY <1>5, OtherKeeps DEF vars, limiterVars
  <1> QED BY <1>1, <1>2, <1>3, <1>4, <1>5 DEF Next

\* In no window of a minute are more requests admitted than the limit, whatever
\* the requests that were refused in between, the tokens reported, the sweeps
\* and the restarts (rate-limit.ts:64-91).
THEOREM RateIsLimited == Spec => []WindowRespected
  <1>1. IInv => WindowRespected
    BY DEF IInv
  <1> QED BY <1>1, InitKeeps, NextKeeps, PTL DEF Spec

-----------------------------------------------------------------------------
(* Retry-After *)

\* a \div b is the quotient
LEMMA Quotient ==
    ASSUME NEW a \in Nat, NEW b \in Nat, b > 0
    PROVE  a \div b \in Nat /\ (a \div b) * b <= a /\ a < (a \div b) * b + b
  OBVIOUS

\* Seconds rounds up.
LEMMA RoundsUp ==
    ASSUME NEW ms \in Nat, NEW s, s = Seconds(ms)
    PROVE  s \in Nat /\ s * Second >= ms /\ (s - 1) * Second < ms
  <1>1. Second \in Nat /\ Second > 0 /\ ms + Second - 1 \in Nat
    BY UnitsAreOrdered
  <1>2. s \in Nat /\ s * Second <= ms + Second - 1 /\ ms + Second - 1 < s * Second + Second
    BY <1>1, Quotient DEF Seconds
  <1>3. (s - 1) * Second = s * Second - Second /\ s * Second \in Int
    BY <1>1, <1>2
  <1> QED BY <1>1, <1>2, <1>3

\* A refusal for requests finds a full entry, all of it of the last minute.
LEMMA FullEntry ==
    ASSUME IInv, TooManyRequests
    PROVE  /\ limits.requests \in Nat /\ limits.requests > 0
           /\ DOMAIN times = 1 .. limits.requests
           /\ InLastMinute[1] = times[1]
           /\ \A i \in DOMAIN times : times[i] \in Nat /\ times[1] <= times[i]
           /\ Recent(times[1])
  <1>1. /\ Len(times) \in Nat /\ Len(log) \in Nat /\ DOMAIN times = 1 .. Len(times)
        /\ \A i \in DOMAIN times : times[i] \in Nat
        /\ limits.requests \in Nat /\ limits.requests > 0 /\ Enabled
    BY LenProperties, ElementOfSeq, LimitsAreNumbers DEF IInv, LogType, TooManyRequests, Enabled
  <1>2. /\ Len(InLastMinute) \in 0 .. Len(log) /\ Len(InLastMinute) <= Len(times)
        /\ InLastMinute \in Seq(Nat)
        /\ \A i \in DOMAIN InLastMinute : Recent(InLastMinute[i])
        /\ \A i \in DOMAIN InLastMinute :
              InLastMinute[i] = log[Len(log) - Len(InLastMinute) + i]
    BY <1>1, FilterKeepsSuffix
  <1>3. Len(InLastMinute) >= limits.requests /\ Len(times) <= limits.requests
    BY <1>1 DEF TooManyRequests, IInv, Bounded
  <1>4. Len(InLastMinute) = Len(times) /\ Len(times) = limits.requests
    BY <1>1, <1>2, <1>3
  <1>5. 1 \in DOMAIN InLastMinute /\ 1 \in DOMAIN times
    BY <1>1, <1>2, <1>4, LenProperties
  <1>6. times[1] = log[Len(log) - Len(times) + 1]
    BY <1>1, <1>5 DEF IInv, Suffix, Aged
  <1>7. InLastMinute[1] = times[1]
    BY <1>2, <1>4, <1>5, <1>6
  <1>8. \A i \in DOMAIN times : times[1] <= times[i]
    BY <1>1, <1>5, TimesSorted DEF Sorted
  <1> QED BY <1>1, <1>2, <1>4, <1>5, <1>7, <1>8

LEMMA RetryExact == IInv => RetryIsExact
  <1> SUFFICES ASSUME IInv, TooManyRequests
               PROVE  /\ HasRoomAt(now + RetryAfter * Second)
                      /\ RetryAfter > 1 => ~HasRoomAt(now + (RetryAfter - 1) * Second)
    BY DEF RetryIsExact
  <1> DEFINE limit == limits.requests
             left == times[1] + Minute - now
             young(t) == {i \in DOMAIN times : t - times[i] < Minute}
  <1>1. /\ limit \in Nat /\ limit > 0 /\ DOMAIN times = 1 .. limit
        /\ InLastMinute[1] = times[1] /\ times[1] \in Nat
        /\ \A i \in DOMAIN times : times[i] \in Nat /\ times[1] <= times[i]
        /\ Recent(times[1])
    BY FullEntry
  <1>2. now \in Nat /\ Minute \in Nat /\ Second \in Nat /\ Second > 0
    BY UnitsAreOrdered DEF IInv, LogType
  <1>3. left \in Nat /\ left > 0
    BY <1>1, <1>2 DEF Recent
  <1> HIDE DEF limit, left
  <1>4. PICK s : s = Seconds(left)
    OBVIOUS
  <1>5. s \in Nat /\ s * Second >= left /\ (s - 1) * Second < left
    BY <1>3, <1>4, RoundsUp
  <1>6. s > 0
    <2> SUFFICES ASSUME s = 0 PROVE FALSE
      BY <1>5
    <2> QED BY <1>2, <1>3, <1>5
  <1>7. RetryAfter = s
    <2>1. RetryAfter = IF s > 1 THEN s ELSE 1
      BY <1>1, <1>4 DEF RetryAfter, left
    <2> QED BY <1>5, <1>6, <2>1
  <1>8. Cardinality(young(now + s * Second)) < limit
    <2>1. s * Second \in Int
      BY <1>2, <1>5
    <2>2. young(now + s * Second) \subseteq 2 .. limit
      <3>1. PICK t \in Int : t = now + s * Second
        BY <1>2, <2>1
      <3>2. ~(t - times[1] < Minute)
        BY <1>1, <1>2, <1>5, <2>1, <3>1 DEF left
      <3>3. young(t) \subseteq 2 .. limit
        BY <1>1, <3>2
      <3> QED BY <3>1, <3>3
    <2>3. IsFiniteSet(2 .. limit) /\ Cardinality(2 .. limit) = limit - 1
      <3>1. /\ IsFiniteSet(2 .. limit)
            /\ Cardinality(2 .. limit) = IF 2 > limit THEN 0 ELSE limit - 2 + 1
        BY <1>1, FS_Interval
      <3>2. (IF 2 > limit THEN 0 ELSE limit - 2 + 1) = limit - 1
        BY <1>1
      <3> QED BY <3>1, <3>2
    <2> HIDE DEF young
    <2>4. /\ IsFiniteSet(young(now + s * Second))
          /\ Cardinality(young(now + s * Second)) <= Cardinality(2 .. limit)
      BY <2>2, <2>3, FS_Subset
    <2>5. Cardinality(young(now + s * Second)) \in Nat
      BY <2>4, FS_CardinalityType
    <2> QED BY <1>1, <2>3, <2>4, <2>5
  <1>9. Cardinality(young(now + (s - 1) * Second)) = limit
    <2>1. (s - 1) * Second \in Int
      BY <1>2, <1>5
    <2>2. young(now + (s - 1) * Second) = 1 .. limit
      <3>1. PICK t \in Int : t = now + (s - 1) * Second
        BY <1>2, <2>1
      <3>2. t - times[1] < Minute
        BY <1>1, <1>2, <1>5, <2>1, <3>1 DEF left
      <3>3. young(t) = 1 .. limit
        BY <1>1, <1>2, <3>2
      <3> QED BY <3>1, <3>3
    <2>3. Cardinality(1 .. limit) = limit
      BY <1>1, FS_Interval
    <2> QED BY <2>2, <2>3
  <1>10. ~(limit < limit)
    BY <1>1
  <1> QED BY <1>7, <1>8, <1>9, <1>10 DEF HasRoomAt, limit

\* The Retry-After of a refusal for requests is exact to the second as far as the
\* limit of requests goes (rate-limit.ts:60-75): if nobody else came, a client that
\* waits that long is not refused for requests again, one that waits a second less
\* is.  The entry is then full and all of it younger than a minute, so that its
\* first element decides.  The quota, which has a say of its own, is not part of it.
THEOREM RetryAfterIsExact == Spec => []RetryIsExact
  BY RetryExact, InitKeeps, NextKeeps, PTL DEF Spec

-----------------------------------------------------------------------------
(* Sums of a function over a finite set *)

\* induction, over a set of numbers
LEMMA Induction ==
    ASSUME NEW S, 0 \in S, \A n \in Nat : n \in S => n + 1 \in S
    PROVE  Nat \subseteq S
  <1> DEFINE R == Nat \ S
  <1> SUFFICES ASSUME R # {} PROVE FALSE
    OBVIOUS
  <1>1. PICK m \in R : \A y \in R : ~(<<y, m>> \in OpToRel(<, Nat))
    <2>1. R \subseteq Nat
      OBVIOUS
    <2> QED BY <2>1, NatLessThanWellFounded, WFMin
  <1>2. m \in Nat /\ m \notin S /\ m # 0
    OBVIOUS
  <1>3. m - 1 \in Nat /\ m - 1 + 1 = m
    BY <1>2
  <1>4. m - 1 \notin R
    <2>1. m - 1 < m
      BY <1>2
    <2>2. m - 1 \in R => <<m - 1, m>> \in OpToRel(<, Nat)
      BY <1>2, <1>3, <2>1 DEF OpToRel
    <2> QED BY <1>1, <2>2
  <1>5. m - 1 \in S
    BY <1>3, <1>4
  <1> QED BY <1>2, <1>3, <1>5

Pick(s) == CHOOSE x \in s : TRUE
IsTable(g, f, S) ==
    g = [s \in SUBSET S |-> IF s = {} THEN 0 ELSE f[Pick(s)] + g[s \ {Pick(s)}]]

LEMMA SumByTable ==
    ASSUME NEW f, NEW S
    PROVE  SumFunctionOnSet(f, S) = (CHOOSE g : IsTable(g, f, S))[S]
  BY DEF SumFunctionOnSet, FoldFunctionOnSet, MapThenFoldSet, IsTable, Pick

LEMMA PickIsElement ==
    ASSUME NEW s, s # {}
    PROVE  Pick(s) \in s
  BY DEF Pick

\* there is a table of sums, on the sets up to any size
LEMMA TableExists ==
    ASSUME NEW S, IsFiniteSet(S), NEW f, \A x \in S : f[x] \in Nat
    PROVE  \E g \in [SUBSET S -> Nat] : IsTable(g, f, S)
  <1> DEFINE Small(n) == {s \in SUBSET S : Cardinality(s) <= n}
             Fits(g, n) == \A s \in Small(n) :
                              g[s] = IF s = {} THEN 0 ELSE f[Pick(s)] + g[s \ {Pick(s)}]
             N == {n \in Nat : \E g \in [Small(n) -> Nat] : Fits(g, n)}
  <1>1. \A s \in SUBSET S : IsFiniteSet(s) /\ Cardinality(s) \in Nat
    BY FS_Subset, FS_CardinalityType
  <1>2. 0 \in N
    <2>1. Small(0) = {{}}
      <3>1. ASSUME NEW s \in SUBSET S, Cardinality(s) <= 0 PROVE s = {}
        BY <1>1, <3>1, FS_EmptySet
      <3>2. {} \in SUBSET S /\ Cardinality({}) <= 0
        BY FS_EmptySet
      <3> QED BY <3>1, <3>2
    <2> DEFINE g == [s \in Small(0) |-> 0]
    <2>2. g \in [Small(0) -> Nat] /\ Fits(g, 0)
      BY <2>1
    <2> QED BY <2>2
  <1>3. ASSUME NEW n \in Nat, n \in N PROVE n + 1 \in N
    <2>1. PICK g \in [Small(n) -> Nat] : Fits(g, n)
      BY <1>3
    <2> DEFINE h == [s \in Small(n + 1) |->
                       IF s = {} THEN 0 ELSE f[Pick(s)] + g[s \ {Pick(s)}]]
    <2>2. ASSUME NEW s \in Small(n + 1), s # {}
          PROVE  s \ {Pick(s)} \in Small(n) /\ Pick(s) \in S
      <3>1. Pick(s) \in s
        BY <2>2, PickIsElement
      <3>2. Cardinality(s \ {Pick(s)}) = Cardinality(s) - 1
        BY <1>1, <3>1, FS_RemoveElement
      <3> QED BY <1>1, <3>1, <3>2
    <2>3. h \in [Small(n + 1) -> Nat]
      <3> SUFFICES ASSUME NEW s \in Small(n + 1)
                   PROVE (IF s = {} THEN 0 ELSE f[Pick(s)] + g[s \ {Pick(s)}]) \in Nat
        OBVIOUS
      <3>1. CASE s # {}
        <4> HIDE DEF Small
        <4>1. f[Pick(s)] \in Nat /\ g[s \ {Pick(s)}] \in Nat
          BY <2>2, <3>1
        <4> QED BY <3>1, <4>1
      <3> QED BY <3>1
    <2>4. ASSUME NEW s \in Small(n) PROVE s \in Small(n + 1) /\ h[s] = g[s]
      <3>1. s \in Small(n + 1)
        BY <1>1
      <3>2. g[s] = IF s = {} THEN 0 ELSE f[Pick(s)] + g[s \ {Pick(s)}]
        BY <2>1
      <3> QED BY <3>1, <3>2
    <2>5. Fits(h, n + 1)
      <3> SUFFICES ASSUME NEW s \in Small(n + 1)
                   PROVE h[s] = IF s = {} THEN 0 ELSE f[Pick(s)] + h[s \ {Pick(s)}]
        OBVIOUS
      <3>1. CASE s # {}
        <4>1. s \ {Pick(s)} \in Small(n)
          BY <2>2, <3>1
        <4>2. h[s \ {Pick(s)}] = g[s \ {Pick(s)}]
          BY <2>4, <4>1
        <4> HIDE DEF Small
        <4> QED BY <3>1, <4>2
      <3> QED BY <3>1
    <2> HIDE DEF h, Fits, Small
    <2> QED BY <2>3, <2>5
  <1> HIDE DEF N
  <1>4. Cardinality(S) \in N
    BY <1>2, <1>3, <1>1, Induction
  <1>5. Small(Cardinality(S)) = SUBSET S
    BY FS_Subset
  <1>6. PICK g \in [SUBSET S -> Nat] : Fits(g, Cardinality(S))
    BY <1>4, <1>5 DEF N
  <1>7. IsTable(g, f, S)
    <2>1. g = [s \in SUBSET S |-> g[s]]
      BY <1>6
    <2>2. \A s \in SUBSET S : g[s] = IF s = {} THEN 0 ELSE f[Pick(s)] + g[s \ {Pick(s)}]
      BY <1>5, <1>6
    <2> QED BY <2>1, <2>2 DEF IsTable
  <1> QED BY <1>7

\* tables agree
LEMMA TablesAgree ==
    ASSUME NEW S, IsFiniteSet(S), NEW T \in SUBSET S, NEW f, NEW g, NEW h,
           IsTable(g, f, S), IsTable(h, f, T)
    PROVE  g[T] = h[T]
  <1> DEFINE Agree(n) == \A s \in SUBSET T : Cardinality(s) <= n => g[s] = h[s]
             N == {n \in Nat : Agree(n)}
  <1>1. \A s \in SUBSET T : IsFiniteSet(s) /\ Cardinality(s) \in Nat /\ s \in SUBSET S
    BY FS_Subset, FS_CardinalityType
  <1>2. \A s \in SUBSET T :
           /\ g[s] = IF s = {} THEN 0 ELSE f[Pick(s)] + g[s \ {Pick(s)}]
           /\ h[s] = IF s = {} THEN 0 ELSE f[Pick(s)] + h[s \ {Pick(s)}]
    BY <1>1 DEF IsTable
  <1>3. 0 \in N
    <2>1. ASSUME NEW s \in SUBSET T, Cardinality(s) <= 0 PROVE s = {}
      BY <1>1, <2>1, FS_EmptySet
    <2> QED BY <1>2, <2>1
  <1>4. ASSUME NEW n \in Nat, n \in N PROVE n + 1 \in N
    <2> SUFFICES ASSUME NEW s \in SUBSET T, Cardinality(s) <= n + 1 PROVE g[s] = h[s]
      OBVIOUS
    <2>1. CASE s # {}
      <3>1. Pick(s) \in s
        BY <2>1, PickIsElement
      <3>2. Cardinality(s \ {Pick(s)}) = Cardinality(s) - 1 /\ s \ {Pick(s)} \in SUBSET T
        BY <1>1, <3>1, FS_RemoveElement
      <3>3. g[s \ {Pick(s)}] = h[s \ {Pick(s)}]
        BY <1>1, <1>4, <3>2
      <3> QED BY <1>2, <2>1, <3>3
    <2> QED BY <1>2, <2>1
  <1> HIDE DEF N
  <1>5. Cardinality(T) \in N
    BY <1>1, <1>3, <1>4, Induction
  <1> QED BY <1>1, <1>5 DEF N

LEMMA SumInTable ==
    ASSUME NEW S, IsFiniteSet(S), NEW T \in SUBSET S, NEW f, \A x \in S : f[x] \in Nat,
           NEW g, IsTable(g, f, S)
    PROVE  SumFunctionOnSet(f, T) = g[T]
  <1>1. \E h : IsTable(h, f, T)
    BY TableExists, FS_Subset
  <1>2. IsTable(CHOOSE h : IsTable(h, f, T), f, T)
    BY <1>1
  <1> QED BY <1>2, SumByTable, TablesAgree

LEMMA SumType ==
    ASSUME NEW S, IsFiniteSet(S), NEW f, \A x \in S : f[x] \in Nat
    PROVE  /\ SumFunctionOnSet(f, S) \in Nat
           /\ SumFunctionOnSet(f, {}) = 0
           /\ S # {} => SumFunctionOnSet(f, S) = f[Pick(S)] + SumFunctionOnSet(f, S \ {Pick(S)})
  <1>1. PICK g \in [SUBSET S -> Nat] : IsTable(g, f, S)
    BY TableExists
  <1>2. \A T \in SUBSET S : SumFunctionOnSet(f, T) = g[T]
    BY <1>1, SumInTable
  <1>3. \A T \in SUBSET S : g[T] = IF T = {} THEN 0 ELSE f[Pick(T)] + g[T \ {Pick(T)}]
    BY <1>1 DEF IsTable
  <1> QED BY <1>1, <1>2, <1>3

\* a sum is any of its terms and the sum of the others
LEMMA SumSplit ==
    ASSUME NEW S, IsFiniteSet(S), NEW f, \A x \in S : f[x] \in Nat, NEW e \in S
    PROVE  SumFunctionOnSet(f, S) = f[e] + SumFunctionOnSet(f, S \ {e})
  <1> DEFINE Sum(T) == SumFunctionOnSet(f, T)
             N == {n \in Nat : \A T \in SUBSET S : Cardinality(T) <= n =>
                                  \A x \in T : Sum(T) = f[x] + Sum(T \ {x})}
  <1>1. \A T \in SUBSET S : IsFiniteSet(T) /\ Cardinality(T) \in Nat
    BY FS_Subset, FS_CardinalityType
  <1>2. \A T \in SUBSET S : /\ Sum(T) \in Nat
                            /\ T # {} => Sum(T) = f[Pick(T)] + Sum(T \ {Pick(T)})
    BY <1>1, SumType
  <1>3. 0 \in N
    <2>1. ASSUME NEW T \in SUBSET S, Cardinality(T) <= 0 PROVE T = {}
      BY <1>1, <2>1, FS_EmptySet
    <2> QED BY <2>1
  <1> HIDE DEF Sum
  <1>4. ASSUME NEW n \in Nat, n \in N PROVE n + 1 \in N
    <2> SUFFICES ASSUME NEW T \in SUBSET S, Cardinality(T) <= n + 1, NEW x \in T
                 PROVE  Sum(T) = f[x] + Sum(T \ {x})
      OBVIOUS
    <2> DEFINE p == Pick(T)
    <2>1. p \in T /\ Sum(T) = f[p] + Sum(T \ {p})
      BY <1>2, PickIsElement
    <2> HIDE DEF p
    <2>2. CASE p = x
      BY <2>1, <2>2
    <2>3. CASE p # x
      <3>1. Cardinality(T \ {p}) <= n /\ Cardinality(T \ {x}) <= n
        BY <1>1, <2>1, FS_RemoveElement
      <3>2. /\ T \ {p} \in SUBSET S /\ T \ {x} \in SUBSET S
            /\ x \in T \ {p} /\ p \in T \ {x}
        BY <2>1, <2>3
      <3>3. Sum(T \ {p}) = f[x] + Sum((T \ {p}) \ {x})
        BY <1>4, <3>1, <3>2
      <3>4. Sum(T \ {x}) = f[p] + Sum((T \ {x}) \ {p})
        BY <1>4, <3>1, <3>2
      <3>5. (T \ {p}) \ {x} = (T \ {x}) \ {p}
        OBVIOUS
      <3>6. /\ f[x] \in Nat /\ f[p] \in Nat /\ (T \ {p}) \ {x} \in SUBSET S
        BY <2>1
      <3>7. PICK k \in Nat : k = Sum((T \ {p}) \ {x})
        BY <1>2, <3>6
      <3>8. Sum(T \ {p}) = f[x] + k /\ Sum(T \ {x}) = f[p] + k
        BY <3>3, <3>4, <3>5, <3>7
      <3> QED BY <2>1, <3>6, <3>7, <3>8
    <2> QED BY <2>2, <2>3
  <1> HIDE DEF N
  <1>5. Cardinality(S) \in N
    BY <1>1, <1>3, <1>4, Induction
  <1>6. Cardinality(S) <= Cardinality(S)
    BY <1>1
  <1> QED BY <1>5, <1>6 DEF N, Sum

LEMMA SumAdd ==
    ASSUME NEW S, IsFiniteSet(S), NEW f, NEW e, e \notin S,
           \A x \in S \cup {e} : f[x] \in Nat
    PROVE  SumFunctionOnSet(f, S \cup {e}) = f[e] + SumFunctionOnSet(f, S)
  <1>1. IsFiniteSet(S \cup {e}) /\ (S \cup {e}) \ {e} = S
    BY FS_AddElement
  <1> QED BY <1>1, SumSplit

\* induction, over a set of finite sets
LEMMA SetInduction ==
    ASSUME NEW S, IsFiniteSet(S), NEW G, {} \in G,
           \A T \in SUBSET S, x \in S : T \in G /\ x \notin T => T \cup {x} \in G
    PROVE  S \in G
  <1> DEFINE N == {n \in Nat : \A T \in SUBSET S : Cardinality(T) <= n => T \in G}
  <1>1. \A T \in SUBSET S : IsFiniteSet(T) /\ Cardinality(T) \in Nat
    BY FS_Subset, FS_CardinalityType
  <1>2. 0 \in N
    <2>1. ASSUME NEW T \in SUBSET S, Cardinality(T) <= 0 PROVE T = {}
      BY <1>1, <2>1, FS_EmptySet
    <2> QED BY <2>1
  <1>3. ASSUME NEW n \in Nat, n \in N PROVE n + 1 \in N
    <2> SUFFICES ASSUME NEW T \in SUBSET S, Cardinality(T) <= n + 1 PROVE T \in G
      OBVIOUS
    <2>1. CASE T # {}
      <3>1. PICK x \in T : TRUE
        BY <2>1
      <3>2. Cardinality(T \ {x}) <= n
        BY <1>1, <3>1, FS_RemoveElement
      <3>3. T \ {x} \in G /\ (T \ {x}) \cup {x} = T
        BY <1>3, <3>1, <3>2
      <3> QED BY <3>1, <3>3
    <2> QED BY <2>1
  <1> HIDE DEF N
  <1>4. Cardinality(S) \in N
    BY <1>1, <1>2, <1>3, Induction
  <1>5. Cardinality(S) <= Cardinality(S)
    BY <1>1
  <1> QED BY <1>4, <1>5 DEF N

LEMMA SumAgrees ==
    ASSUME NEW S, IsFiniteSet(S), NEW f, NEW g,
           \A x \in S : f[x] \in Nat /\ f[x] = g[x]
    PROVE  SumFunctionOnSet(f, S) = SumFunctionOnSet(g, S)
  <1> DEFINE F(T) == SumFunctionOnSet(f, T)
             H(T) == SumFunctionOnSet(g, T)
             G == {T \in SUBSET S : F(T) = H(T)}
  <1>1. {} \in G
    BY SumType, FS_EmptySet
  <1>2. ASSUME NEW T \in SUBSET S, NEW x \in S, T \in G, x \notin T PROVE T \cup {x} \in G
    <2>1. IsFiniteSet(T)
      BY FS_Subset
    <2>2. F(T \cup {x}) = f[x] + F(T) /\ H(T \cup {x}) = g[x] + H(T)
      BY <1>2, <2>1, SumAdd
    <2> QED BY <1>2, <2>2
  <1> HIDE DEF G
  <1>3. S \in G
    BY <1>1, <1>2, SetInduction
  <1> QED BY <1>3 DEF G

LEMMA SumOfZeros ==
    ASSUME NEW S, IsFiniteSet(S), NEW f, \A x \in S : f[x] = 0
    PROVE  SumFunctionOnSet(f, S) = 0
  <1> DEFINE F(T) == SumFunctionOnSet(f, T)
             G == {T \in SUBSET S : F(T) = 0}
  <1>1. {} \in G
    BY SumType, FS_EmptySet
  <1>2. ASSUME NEW T \in SUBSET S, NEW x \in S, T \in G, x \notin T PROVE T \cup {x} \in G
    <2>1. IsFiniteSet(T)
      BY FS_Subset
    <2>2. \A y \in T \cup {x} : f[y] \in Nat
      OBVIOUS
    <2>3. F(T \cup {x}) = f[x] + F(T)
      BY <1>2, <2>1, <2>2, SumAdd
    <2> QED BY <1>2, <2>3
  <1> HIDE DEF G
  <1>3. S \in G
    BY <1>1, <1>2, SetInduction
  <1> QED BY <1>3 DEF G

LEMMA SumUnion ==
    ASSUME NEW S, NEW T, IsFiniteSet(S), IsFiniteSet(T), S \cap T = {},
           NEW f, \A x \in S \cup T : f[x] \in Nat
    PROVE  SumFunctionOnSet(f, S \cup T) = SumFunctionOnSet(f, S) + SumFunctionOnSet(f, T)
  <1> DEFINE F(U) == SumFunctionOnSet(f, U)
             G == {U \in SUBSET T : F(S \cup U) = F(S) + F(U)}
  <1>1. F(S) \in Nat /\ \A U \in SUBSET T : IsFiniteSet(U) /\ IsFiniteSet(S \cup U) /\ F(U) \in Nat
    BY SumType, FS_Subset, FS_Union
  <1>2. {} \in G
    <2>1. S \cup {} = S /\ F({}) = 0
      BY SumType
    <2> HIDE DEF F
    <2> QED BY <1>1, <2>1
  <1>3. ASSUME NEW U \in SUBSET T, NEW x \in T, U \in G, x \notin U PROVE U \cup {x} \in G
    <2>1. F(U \cup {x}) = f[x] + F(U)
      BY <1>1, <1>3, SumAdd
    <2>2. F((S \cup U) \cup {x}) = f[x] + F(S \cup U)
      BY <1>1, <1>3, SumAdd
    <2>3. (S \cup U) \cup {x} = S \cup (U \cup {x})
      OBVIOUS
    <2>4. f[x] \in Nat /\ F(S \cup U) = F(S) + F(U)
      BY <1>3
    <2> HIDE DEF F
    <2> QED BY <1>1, <1>3, <2>1, <2>2, <2>3, <2>4
  <1> HIDE DEF G
  <1>4. T \in G
    BY <1>2, <1>3, SetInduction
  <1> QED BY <1>4 DEF G

LEMMA SumMonotone ==
    ASSUME NEW S, IsFiniteSet(S), NEW T \in SUBSET S, NEW f, \A x \in S : f[x] \in Nat
    PROVE  SumFunctionOnSet(f, T) <= SumFunctionOnSet(f, S)
  <1>1. IsFiniteSet(T) /\ IsFiniteSet(S \ T) /\ T \cup (S \ T) = S /\ T \cap (S \ T) = {}
    BY FS_Subset
  <1>2. SumFunctionOnSet(f, S) = SumFunctionOnSet(f, T) + SumFunctionOnSet(f, S \ T)
    BY <1>1, SumUnion
  <1>3. SumFunctionOnSet(f, T) \in Nat /\ SumFunctionOnSet(f, S \ T) \in Nat
    BY <1>1, SumType
  <1> QED BY <1>2, <1>3

\* a sum by parts: what each part comes to, summed over the parts
LEMMA SumByParts ==
    ASSUME NEW B, IsFiniteSet(B), NEW M, IsFiniteSet(M), NEW part \in [B -> SUBSET M],
           NEW f, NEW h, \A x \in M : f[x] \in Nat,
           \A b, c \in B : b # c => part[b] \cap part[c] = {},
           \A b \in B : h[b] = SumFunctionOnSet(f, part[b]),
           NEW U, \A x : x \in U <=> \E b \in B : x \in part[b]
    PROVE  SumFunctionOnSet(h, B) = SumFunctionOnSet(f, U)
  <1> DEFINE F(S) == SumFunctionOnSet(f, S)
             H(S) == SumFunctionOnSet(h, S)
             In(S) == UNION {part[b] : b \in S}
             G == {S \in SUBSET B : H(S) = F(In(S))}
  <1>1. \A S \in SUBSET M : IsFiniteSet(S) /\ \A x \in S : f[x] \in Nat
    BY FS_Subset
  <1>2. {} \in G
    <2>1. In({}) = {}
      OBVIOUS
    <2> QED BY <2>1, SumType, FS_EmptySet
  <1>3. ASSUME NEW S \in SUBSET B, NEW b \in B, S \in G, b \notin S PROVE S \cup {b} \in G
    <2>1. IsFiniteSet(S) /\ \A c \in B : h[c] \in Nat
      <3>1. ASSUME NEW c \in B PROVE h[c] \in Nat
        <4>1. IsFiniteSet(part[c]) /\ \A x \in part[c] : f[x] \in Nat
          BY <1>1
        <4>2. SumFunctionOnSet(f, part[c]) \in Nat
          BY <4>1, SumType
        <4> QED BY <4>2
      <3> QED BY <3>1, FS_Subset
    <2>2. H(S \cup {b}) = h[b] + H(S)
      BY <1>3, <2>1, SumAdd
    <2>3. In(S \cup {b}) = In(S) \cup part[b] /\ In(S) \cap part[b] = {}
      BY <1>3
    <2>4. In(S) \subseteq M /\ part[b] \subseteq M
      OBVIOUS
    <2>5. H(S) = F(In(S)) /\ h[b] = F(part[b])
      BY <1>3
    <2> HIDE DEF In
    <2>6. F(In(S) \cup part[b]) = F(In(S)) + F(part[b])
      <3>1. IsFiniteSet(In(S)) /\ IsFiniteSet(part[b]) /\ \A x \in In(S) \cup part[b] : f[x] \in Nat
        BY <1>1, <2>4
      <3> QED BY <2>3, <3>1, SumUnion
    <2>7. F(In(S)) \in Nat /\ F(part[b]) \in Nat
      BY <1>1, <2>4, SumType
    <2>8. H(S \cup {b}) = F(In(S \cup {b}))
      <3>1. F(In(S \cup {b})) = F(In(S)) + F(part[b])
        BY <2>3, <2>6
      <3>2. PICK k \in Nat, l \in Nat : k = F(In(S)) /\ l = F(part[b])
        BY <2>7
      <3> HIDE DEF F, H
      <3>3. H(S \cup {b}) = l + k
        BY <2>2, <2>5, <3>2
      <3> QED BY <3>1, <3>2, <3>3
    <2> QED BY <2>8 DEF In
  <1>4. B \in G
    <2> HIDE DEF G
    <2> QED BY <1>2, <1>3, SetInduction
  <1>5. H(B) = F(In(B))
    <2> HIDE DEF F, H, In
    <2> QED BY <1>4
  <1>6. In(B) = U
    OBVIOUS
  <1> QED BY <1>5, <1>6

-----------------------------------------------------------------------------
(* Hours *)

HoursOfDay == Day \div Hour

LEMMA DayInHours == HoursOfDay \in Nat /\ HoursOfDay > 0 /\ Day = HoursOfDay * Hour
  <1>1. Day \in Nat /\ Hour \in Nat /\ Day > 0 /\ Hour > 0 /\ Day % Hour = 0
    BY UnitsAreOrdered
  <1>2. HoursOfDay \in Nat /\ Day = HoursOfDay * Hour + (Day % Hour)
    BY <1>1 DEF HoursOfDay
  <1>3. HoursOfDay # 0
    BY <1>1, <1>2
  <1> QED BY <1>1, <1>2, <1>3

LEMMA BucketIsHour ==
    ASSUME NEW t \in Nat
    PROVE  /\ Bucket(t) \in Nat
           /\ Bucket(t) * Hour <= t /\ t < Bucket(t) * Hour + Hour
  BY Quotient, UnitsAreOrdered DEF Bucket

\* products with a positive number compare like their factors
LEMMA ProductsCompare ==
    ASSUME NEW a \in Int, NEW b \in Int, NEW c \in Nat, a <= b
    PROVE  a * c <= b * c
  OBVIOUS

LEMMA BucketsCompare ==
    ASSUME NEW s \in Nat, NEW t \in Nat, s <= t
    PROVE  Bucket(s) <= Bucket(t)
  <1>1. /\ Bucket(s) \in Nat /\ Bucket(t) \in Nat /\ Hour \in Nat /\ Hour > 0
        /\ Bucket(s) * Hour <= s /\ t < Bucket(t) * Hour + Hour
    BY BucketIsHour, UnitsAreOrdered
  <1> SUFFICES ASSUME Bucket(t) + 1 <= Bucket(s) PROVE FALSE
    BY <1>1
  <1>2. (Bucket(t) + 1) * Hour <= Bucket(s) * Hour
    BY <1>1, ProductsCompare
  <1>3. (Bucket(t) + 1) * Hour = Bucket(t) * Hour + Hour
    BY <1>1
  <1>4. Bucket(t) * Hour \in Nat /\ Bucket(s) * Hour \in Nat
    BY <1>1
  <1> QED BY <1>1, <1>2, <1>3, <1>4

\* the buckets that are kept cover the last day less an hour, and no more than
\* the last day
LEMMA KeptWindow ==
    ASSUME now \in Nat, NEW t \in 0 .. now
    PROVE  /\ now - t < Day - Hour => Kept(Bucket(t))
           /\ Kept(Bucket(t)) => now - t < Day
  <1> DEFINE b == Bucket(t)
             c == Bucket(now)
             k == HoursOfDay
  <1>1. /\ b \in Nat /\ c \in Nat /\ k \in Nat /\ Hour \in Nat /\ Day = k * Hour
        /\ b * Hour <= t /\ t < b * Hour + Hour /\ c * Hour <= now /\ now < c * Hour + Hour
    BY BucketIsHour, DayInHours, UnitsAreOrdered
  <1>2. Kept(Bucket(t)) <=> b + k > c
    BY DEF Kept, HoursOfDay
  <1> HIDE DEF b, c, k
  <1>3. /\ (b + k) * Hour = b * Hour + k * Hour
        /\ (c + 1) * Hour = c * Hour + Hour
        /\ {b * Hour, c * Hour, k * Hour} \subseteq Nat
    BY <1>1
  <1>4. ASSUME now - t < Day - Hour, ~(b + k > c) PROVE FALSE
    <2>1. (b + k) * Hour <= c * Hour
      BY <1>1, <1>4, ProductsCompare
    <2> QED BY <1>1, <1>3, <1>4, <2>1
  <1>5. ASSUME b + k > c, ~(now - t < Day) PROVE FALSE
    <2>1. (c + 1) * Hour <= (b + k) * Hour
      BY <1>1, <1>5, ProductsCompare
    <2> QED BY <1>1, <1>3, <1>5, <2>1
  <1> QED BY <1>2, <1>4, <1>5

-----------------------------------------------------------------------------
(* The books of tokens: a bucket that is kept has what was spent in its hour *)

InHour(b) == {t \in Moments : Bucket(t) = b}

Booked ==
    /\ limits \in Configs /\ now \in Moments
    /\ spent \in [Moments -> Nat] /\ hourly \in [Buckets -> Nat]
    /\ \A t \in Moments : t > now => spent[t] = 0
    /\ \A b \in Buckets : Kept(b) => hourly[b] = SumFunctionOnSet(spent, InHour(b))

LEMMA MomentsAndBuckets ==
    /\ MaxTime \in Nat /\ Moments \subseteq Nat
    /\ IsFiniteSet(Moments) /\ IsFiniteSet(Buckets)
    /\ \A t \in Moments : Bucket(t) \in Buckets
    /\ \A b : IsFiniteSet(InHour(b))
  <1>1. MaxTime \in Nat /\ Moments \subseteq Nat /\ IsFiniteSet(Moments)
    BY LimitsAreNumbers, FS_Interval DEF Moments
  <1>2. Bucket(MaxTime) \in Nat
    BY <1>1, BucketIsHour
  <1>3. ASSUME NEW t \in Moments PROVE Bucket(t) \in Buckets
    <2>1. t \in Nat /\ t <= MaxTime
      BY <1>1 DEF Moments
    <2>2. Bucket(t) \in Nat /\ Bucket(t) <= Bucket(MaxTime)
      BY <1>1, <2>1, BucketIsHour, BucketsCompare
    <2> QED BY <1>2, <2>2 DEF Buckets
  <1>4. IsFiniteSet(Buckets)
    BY <1>2, FS_Interval DEF Buckets
  <1>5. \A b : IsFiniteSet(InHour(b))
    BY <1>1, FS_Subset DEF InHour
  <1> QED BY <1>1, <1>3, <1>4, <1>5

KeptMoments == {t \in Moments : Kept(Bucket(t))}

\* the total is what was spent in the hours that are kept
LEMMA TotalIsSpent ==
    ASSUME Booked
    PROVE  /\ Total(Pruned(hourly)) = SumFunctionOnSet(spent, KeptMoments)
           /\ Total(Pruned(hourly)) \in Nat
  <1> DEFINE p == Pruned(hourly)
             K == {b \in Buckets : Kept(b)}
             part == [b \in K |-> InHour(b)]
  <1>1. /\ DOMAIN p = Buckets
        /\ \A b \in Buckets : p[b] = IF Kept(b) THEN hourly[b] ELSE 0
    BY DEF Pruned, Booked
  <1>2. /\ IsFiniteSet(K) /\ IsFiniteSet(Buckets \ K) /\ K \cup (Buckets \ K) = Buckets
        /\ K \cap (Buckets \ K) = {}
    BY MomentsAndBuckets, FS_Subset
  <1>3. \A b \in Buckets : p[b] \in Nat
    BY <1>1 DEF Booked
  <1>4. \A b \in K : p[b] = SumFunctionOnSet(spent, part[b])
    BY <1>1 DEF Booked
  <1>5. \A t \in Moments : spent[t] \in Nat
    BY DEF Booked
  <1>6. /\ part \in [K -> SUBSET Moments]
        /\ \A b, c \in K : b # c => part[b] \cap part[c] = {}
        /\ \A t : t \in KeptMoments <=> \E b \in K : t \in part[b]
    <2>1. \A b \in K : part[b] = InHour(b)
      OBVIOUS
    <2>2. \A b : InHour(b) \subseteq Moments /\ \A t \in InHour(b) : Bucket(t) = b
      BY DEF InHour
    <2>3. \A t \in KeptMoments : Bucket(t) \in K /\ t \in InHour(Bucket(t))
      BY MomentsAndBuckets DEF KeptMoments, InHour
    <2>4. \A b \in K : \A t \in InHour(b) : t \in KeptMoments
      BY DEF KeptMoments, InHour
    <2> QED BY <2>1, <2>2, <2>3, <2>4
  <1>7. SumFunctionOnSet(p, K) = SumFunctionOnSet(spent, KeptMoments)
    <2>1. IsFiniteSet(K) /\ IsFiniteSet(Moments) /\ part \in [K -> SUBSET Moments]
      BY <1>2, <1>6, MomentsAndBuckets
    <2>2. \A b, c \in K : b # c => part[b] \cap part[c] = {}
      BY <1>6
    <2>3. \A t : t \in KeptMoments <=> \E b \in K : t \in part[b]
      BY <1>6
    <2> HIDE DEF part, p, K
    <2> QED BY <1>4, <1>5, <2>1, <2>2, <2>3, SumByParts
  <1>8. SumFunctionOnSet(p, Buckets \ K) = 0
    <2>1. \A b \in Buckets \ K : p[b] = 0
      BY <1>1
    <2> HIDE DEF p, K
    <2> QED BY <1>2, <2>1, SumOfZeros
  <1> HIDE DEF p, K
  <1>9. SumFunctionOnSet(p, Buckets)
          = SumFunctionOnSet(p, K) + SumFunctionOnSet(p, Buckets \ K)
    BY <1>2, <1>3, SumUnion
  <1>10. SumFunctionOnSet(p, K) \in Nat
    BY <1>2, <1>3, SumType
  <1>11. Total(p) = SumFunctionOnSet(p, Buckets)
    BY <1>1 DEF Total, SumFunction
  <1> QED BY <1>7, <1>8, <1>9, <1>10, <1>11 DEF p

\* the windows of the quota
LEMMA QuotaWindows ==
    ASSUME Booked
    PROVE  /\ SpentIn(Day - Hour) <= Total(Pruned(hourly))
           /\ Total(Pruned(hourly)) <= SpentIn(Day)
           /\ SpentIn(Day) \in Nat /\ SpentIn(Day - Hour) \in Nat
  <1>1. now \in Nat /\ now <= MaxTime /\ MaxTime \in Nat /\ \A t \in Moments : spent[t] \in Nat
    BY MomentsAndBuckets DEF Booked, Moments
  <1> DEFINE W == {t \in 0 .. now : now - t < Day - Hour}
             V == {t \in 0 .. now : now - t < Day}
             past == {t \in KeptMoments : t <= now}
             future == {t \in KeptMoments : t > now}
  <1>2. 0 .. now \subseteq Moments
    BY <1>1 DEF Moments
  <1>3. W \subseteq KeptMoments
    BY <1>1, <1>2, KeptWindow DEF KeptMoments
  <1>4. past \subseteq V
    <2> SUFFICES ASSUME NEW t \in past PROVE t \in 0 .. now /\ now - t < Day
      OBVIOUS
    <2>1. t \in 0 .. now /\ Kept(Bucket(t))
      BY <1>1 DEF KeptMoments, Moments
    <2> QED BY <1>1, <2>1, KeptWindow
  <1>5. /\ IsFiniteSet(KeptMoments) /\ IsFiniteSet(past) /\ IsFiniteSet(future)
        /\ IsFiniteSet(V) /\ IsFiniteSet(W)
        /\ KeptMoments = past \cup future /\ past \cap future = {}
        /\ KeptMoments \subseteq Moments /\ V \subseteq Moments /\ W \subseteq Moments
    <2>1. KeptMoments \subseteq Moments /\ V \subseteq Moments /\ W \subseteq Moments
      BY <1>2 DEF KeptMoments
    <2>2. past \subseteq Moments /\ future \subseteq Moments
      BY <2>1
    <2>3. KeptMoments = past \cup future /\ past \cap future = {}
      <3>1. \A t \in KeptMoments : t \in Nat
        BY <2>1, MomentsAndBuckets
      <3> QED BY <1>1, <3>1
    <2> HIDE DEF V, W, past, future
    <2> QED BY <2>1, <2>2, <2>3, MomentsAndBuckets, FS_Subset
  <1>6. \A t \in future : spent[t] = 0
    BY <1>5 DEF Booked
  <1>7. SpentIn(Day - Hour) = SumFunctionOnSet(spent, W) /\ SpentIn(Day) = SumFunctionOnSet(spent, V)
    BY DEF SpentIn
  <1> HIDE DEF V, W, past, future
  <1>8. SumFunctionOnSet(spent, W) <= SumFunctionOnSet(spent, KeptMoments)
    BY <1>1, <1>3, <1>5, SumMonotone
  <1>9. SumFunctionOnSet(spent, KeptMoments)
          = SumFunctionOnSet(spent, past) + SumFunctionOnSet(spent, future)
    BY <1>1, <1>5, SumUnion
  <1>10. SumFunctionOnSet(spent, future) = 0
    BY <1>5, <1>6, SumOfZeros
  <1>11. SumFunctionOnSet(spent, past) <= SumFunctionOnSet(spent, V)
    BY <1>1, <1>4, <1>5, SumMonotone
  <1>12. /\ SumFunctionOnSet(spent, past) \in Nat /\ SumFunctionOnSet(spent, V) \in Nat
         /\ SumFunctionOnSet(spent, W) \in Nat
    BY <1>1, <1>4, <1>5, SumType
  <1> QED BY <1>7, <1>8, <1>9, <1>10, <1>11, <1>12, TotalIsSpent

-----------------------------------------------------------------------------
LEMMA BookedInit == Init => Booked
  <1> SUFFICES ASSUME Init PROVE Booked
    OBVIOUS
  <1>1. /\ limits \in Configs /\ now = 0 /\ hourly = [b \in Buckets |-> 0]
        /\ spent = [t \in Moments |-> 0]
    BY DEF Init, LimiterInit
  <1>2. \A b : SumFunctionOnSet(spent, InHour(b)) = 0
    BY <1>1, MomentsAndBuckets, SumOfZeros DEF InHour
  <1>3. 0 \in Moments
    BY MomentsAndBuckets DEF Moments
  <1> QED BY <1>1, <1>2, <1>3 DEF Booked

\* to prune what is pruned when it is read changes nothing
LEMMA PruneKeeps ==
    ASSUME Booked, UNCHANGED <<limits, now, spent>>, hourly' \in {hourly, Pruned(hourly)}
    PROVE  Booked'
  <1>1. hourly' \in [Buckets -> Nat] /\ \A b \in Buckets : Kept(b) => hourly'[b] = hourly[b]
    BY DEF Booked, Pruned
  <1>2. \A b : Kept(b)' <=> Kept(b)
    BY DEF Kept
  <1> QED BY <1>1, <1>2 DEF Booked

\* an hour that is over stays as it was booked
LEMMA ClockKeeps ==
    ASSUME Booked, UNCHANGED <<limits, spent, hourly>>, now' = now + 1, now < MaxTime
    PROVE  Booked'
  <1>1. now \in Nat /\ now' \in Moments
    BY MomentsAndBuckets DEF Booked, Moments
  <1>2. ASSUME NEW b \in Buckets, Kept(b)' PROVE Kept(b)
    <2>1. Bucket(now) <= Bucket(now') /\ Bucket(now) \in Nat /\ Bucket(now') \in Nat
      BY <1>1, BucketsCompare, BucketIsHour
    <2>2. b \in Nat /\ HoursOfDay \in Nat
      BY DayInHours DEF Buckets
    <2> QED BY <1>2, <2>1, <2>2 DEF Kept, HoursOfDay
  <1>3. \A t \in Moments : t > now' => t > now
    BY <1>1 DEF Moments
  <1> QED BY <1>1, <1>2, <1>3 DEF Booked

\* the tokens are booked in the hour they are reported
LEMMA EndKeeps ==
    ASSUME Booked, NEW tokens \in Charges, End(tokens)
    PROVE  Booked'
  <1>1. UNCHANGED <<limits, now>> /\ tokens \in Nat
    BY LimitsAreNumbers DEF End
  <1>2. CASE ~(Enabled /\ tokens > 0)
    BY <1>1, <1>2, PruneKeeps DEF End
  <1>3. CASE Enabled /\ tokens > 0
    <2> DEFINE c == Bucket(now)
               h == [hourly EXCEPT ![c] = @ + tokens]
    <2>1. hourly' = Pruned(h) /\ spent' = [spent EXCEPT ![now] = @ + tokens]
      BY <1>3 DEF End
    <2>2. now \in Moments /\ c \in Buckets /\ now \in InHour(c)
      BY MomentsAndBuckets DEF Booked, InHour
    <2>3. /\ h \in [Buckets -> Nat] /\ h[c] = hourly[c] + tokens
          /\ \A b \in Buckets : b # c => h[b] = hourly[b]
      BY <1>1, <2>2 DEF Booked
    <2>4. /\ spent' \in [Moments -> Nat] /\ spent'[now] = spent[now] + tokens
          /\ \A t \in Moments : t # now => spent'[t] = spent[t]
      BY <1>1, <2>1, <2>2 DEF Booked
    <2> HIDE DEF h
    <2>5. hourly' \in [Buckets -> Nat] /\ \A b \in Buckets : Kept(b) => hourly'[b] = h[b]
      BY <2>1, <2>3 DEF Pruned
    <2>6. ASSUME NEW b \in Buckets, b # c
          PROVE  SumFunctionOnSet(spent', InHour(b)) = SumFunctionOnSet(spent, InHour(b))
      <3>1. \A t \in InHour(b) : spent[t] \in Nat /\ spent[t] = spent'[t]
        BY <2>4, <2>6 DEF InHour, Booked
      <3> QED BY <3>1, MomentsAndBuckets, SumAgrees
    <2>7. SumFunctionOnSet(spent', InHour(c)) = SumFunctionOnSet(spent, InHour(c)) + tokens
      <3> DEFINE rest == InHour(c) \ {now}
      <3>1. /\ \A t \in InHour(c) : spent[t] \in Nat /\ spent'[t] \in Nat
            /\ \A t \in rest : spent[t] \in Nat /\ spent[t] = spent'[t]
            /\ IsFiniteSet(InHour(c)) /\ IsFiniteSet(rest)
        BY <2>4, MomentsAndBuckets, FS_Subset DEF InHour, Booked
      <3>2. /\ SumFunctionOnSet(spent, InHour(c)) = spent[now] + SumFunctionOnSet(spent, rest)
            /\ SumFunctionOnSet(spent', InHour(c)) = spent'[now] + SumFunctionOnSet(spent', rest)
        BY <2>2, <3>1, SumSplit
      <3> HIDE DEF rest
      <3>3. SumFunctionOnSet(spent, rest) = SumFunctionOnSet(spent', rest)
        BY <3>1, SumAgrees
      <3>4. SumFunctionOnSet(spent, rest) \in Nat /\ spent[now] \in Nat
        BY <2>2, <3>1, SumType
      <3> QED BY <1>1, <2>4, <3>2, <3>3, <3>4
    <2>8. \A b \in Buckets : Kept(b) => hourly'[b] = SumFunctionOnSet(spent', InHour(b))
      BY <2>3, <2>5, <2>6, <2>7 DEF Booked
    <2>9. \A t \in Moments : t > now => spent'[t] = 0
      <3>1. \A t \in Moments : t > now => t # now
        BY DEF Moments, Booked
      <3> QED BY <2>4, <3>1 DEF Booked
    <2>10. \A b : Kept(b)' <=> Kept(b)
      BY <1>1 DEF Kept
    <2> QED BY <1>1, <2>4, <2>5, <2>8, <2>9, <2>10 DEF Booked
  <1> QED BY <1>2, <1>3

LEMMA BookedKeeps ==
    ASSUME Booked, [Next]_vars
    PROVE  Booked'
  <1>1. CASE Admitted \/ Rejected
    BY <1>1, PruneKeeps DEF Admitted, Rejected, Admit, RefuseRequests, RefuseTokens
  <1>2. CASE \E tokens \in Charges : Ended(tokens)
    BY <1>2, EndKeeps DEF Ended
  <1>3. CASE PoolEvent \/ Stop \/ UNCHANGED vars
    BY <1>3, PruneKeeps DEF PoolEvent, Stop, vars, limiterVars
  <1>4. CASE Background
    <2>1. CASE UNCHANGED limiterVars
      BY <2>1, PruneKeeps DEF limiterVars
    <2>2. CASE Sweep
      BY <2>2, PruneKeeps DEF Sweep
    <2>3. CASE TimePasses
      BY <2>3, ClockKeeps DEF TimePasses
    <2> QED BY <1>4, <2>1, <2>2, <2>3 DEF Background
  <1>5. CASE Start
    <2>1. /\ hourly' = [b \in Buckets |-> 0] /\ spent' = [t \in Moments |-> 0]
          /\ UNCHANGED <<limits, now>>
      BY <1>5 DEF Start
    <2>2. \A b : SumFunctionOnSet(spent', InHour(b)) = 0
      BY <2>1, MomentsAndBuckets, SumOfZeros DEF InHour
    <2> QED BY <2>1, <2>2 DEF Booked
  <1> QED BY <1>1, <1>2, <1>3, <1>4, <1>5 DEF Next

\* only an admission makes the log longer
LEMMA QuotaStep ==
    ASSUME Booked, log \in Seq(Nat), [Next]_vars, limits.tokens > 0
    PROVE  /\ Len(log') > Len(log) => SpentIn(Day - Hour) < limits.tokens
           /\ RefuseTokens => SpentIn(Day) >= limits.tokens
  <1>1. /\ limits.tokens \in Nat /\ Enabled
        /\ SpentIn(Day - Hour) <= Total(Pruned(hourly))
        /\ Total(Pruned(hourly)) <= SpentIn(Day) /\ Total(Pruned(hourly)) \in Nat
        /\ SpentIn(Day) \in Nat /\ SpentIn(Day - Hour) \in Nat
    BY QuotaWindows, TotalIsSpent, LimitsAreNumbers DEF Booked, Enabled
  <1>2. ASSUME Len(log') > Len(log) PROVE SpentIn(Day - Hour) < limits.tokens
    <2>1. CASE Admitted
      BY <1>1, <2>1 DEF Admitted, Admit, QuotaIsSpent
    <2>2. CASE ~Admitted
      <3>1. log' = log \/ log' = <<>>
        BY <2>2 DEF Next, vars, limiterVars, Rejected, RefuseRequests, RefuseTokens, PoolEvent,
                    Ended, End, Background, Sweep, TimePasses, Stop, Start
      <3>2. Len(log) \in Nat /\ Len(<<>>) = 0
        BY LenProperties
      <3> QED BY <1>2, <3>1, <3>2
    <2> QED BY <2>1, <2>2
  <1>3. ASSUME RefuseTokens PROVE SpentIn(Day) >= limits.tokens
    BY <1>1, <1>3 DEF RefuseTokens, QuotaIsSpent
  <1> QED BY <1>2, <1>3

\* The quota of tokens is rolling though the books are by the hour: whenever a
\* request is admitted, less than the quota was spent in the day but its last
\* hour, and whenever one is refused for tokens the quota was spent within a day,
\* however late the tokens were reported and whatever was pruned, swept or
\* forgotten by a restart in between (rate-limit.ts:78-91, 97-104, 130-135).
THEOREM QuotaIsKept == Spec => QuotaIsRolling
  <1> DEFINE Quota ==
        limits.tokens > 0 =>
          /\ Len(log') > Len(log) => SpentIn(Day - Hour) < limits.tokens
          /\ RefuseTokens => SpentIn(Day) >= limits.tokens
  <1>1. Booked /\ [Next]_vars => Booked'
    BY BookedKeeps
  <1>2. IInv /\ Booked /\ [Next]_vars => [Quota]_limiterVars
    BY QuotaStep DEF IInv, LogType
  <1> HIDE DEF Quota
  <1>3. Spec => [][Quota]_limiterVars
    BY <1>1, <1>2, InitKeeps, NextKeeps, BookedInit, PTL DEF Spec
  <1> QED BY <1>3 DEF QuotaIsRolling, Quota

-----------------------------------------------------------------------------
(* Lists of records: their elements, and the order of emission *)

Below(R, S) == \A r \in R, s \in S : r.n < s.n

LEMMA ListOfNone == ToSet(<<>>) = {} /\ IsInjective(<<>>) /\ InOrder(<<>>)
  BY DEF ToSet, IsInjective, InOrder

LEMMA ListIsEmpty ==
    ASSUME NEW S, NEW s \in Seq(S)
    PROVE  /\ s = <<>> <=> ToSet(s) = {}
           /\ ToSet(s) \subseteq S
  <1>1. s = <<>> <=> Len(s) = 0
    OBVIOUS
  <1>2. Len(s) \in Nat /\ DOMAIN s = 1 .. Len(s) /\ \A i \in 1 .. Len(s) : s[i] \in S
    BY LenProperties, ElementOfSeq
  <1>3. Len(s) # 0 => s[1] \in ToSet(s)
    BY <1>2 DEF ToSet
  <1>4. Len(s) = 0 => ToSet(s) = {}
    BY <1>2 DEF ToSet
  <1> QED BY <1>1, <1>2, <1>3, <1>4 DEF ToSet

LEMMA ListOfAppend ==
    ASSUME NEW S, NEW s \in Seq(S), NEW e \in S
    PROVE  /\ ToSet(Append(s, e)) = ToSet(s) \cup {e}
           /\ IsInjective(s) /\ e \notin ToSet(s) => IsInjective(Append(s, e))
  <1>1. /\ DOMAIN s = 1 .. Len(s) /\ Len(s) \in Nat
        /\ DOMAIN Append(s, e) = 1 .. Len(s) + 1
        /\ \A i \in 1 .. Len(s) : Append(s, e)[i] = s[i]
        /\ Append(s, e)[Len(s) + 1] = e
    BY LenProperties, AppendProperties
  <1>2. ToSet(Append(s, e)) = ToSet(s) \cup {e}
    <2>1. \A i \in 1 .. Len(s) + 1 : i = Len(s) + 1 \/ i \in 1 .. Len(s)
      BY <1>1
    <2>2. 1 .. Len(s) \subseteq 1 .. Len(s) + 1 /\ Len(s) + 1 \in 1 .. Len(s) + 1
      BY <1>1
    <2> QED BY <1>1, <2>1, <2>2 DEF ToSet
  <1>3. ASSUME IsInjective(s), e \notin ToSet(s),
               NEW i \in 1 .. Len(s) + 1, NEW j \in 1 .. Len(s) + 1,
               Append(s, e)[i] = Append(s, e)[j]
        PROVE  i = j
    <2>1. \A k \in 1 .. Len(s) : s[k] # e
      BY <1>1, <1>3 DEF ToSet
    <2>2. \A k \in 1 .. Len(s) + 1 : k = Len(s) + 1 \/ k \in 1 .. Len(s)
      BY <1>1
    <2> QED BY <1>1, <1>3, <2>1, <2>2 DEF IsInjective
  <1> QED BY <1>1, <1>2, <1>3 DEF IsInjective

LEMMA ListOfConcat ==
    ASSUME NEW S, NEW s \in Seq(S), NEW t \in Seq(S)
    PROVE  /\ ToSet(s \o t) = ToSet(s) \cup ToSet(t)
           /\ IsInjective(s) /\ IsInjective(t) /\ ToSet(s) \cap ToSet(t) = {} =>
                 IsInjective(s \o t)
  <1>1. /\ DOMAIN s = 1 .. Len(s) /\ Len(s) \in Nat
        /\ DOMAIN t = 1 .. Len(t) /\ Len(t) \in Nat
        /\ DOMAIN (s \o t) = 1 .. Len(s) + Len(t)
        /\ \A i \in 1 .. Len(s) + Len(t) :
              (s \o t)[i] = IF i <= Len(s) THEN s[i] ELSE t[i - Len(s)]
    BY LenProperties, ConcatProperties
  <1>2. \A i \in 1 .. Len(s) + Len(t) :
           \/ i \in 1 .. Len(s) /\ (s \o t)[i] = s[i]
           \/ i - Len(s) \in 1 .. Len(t) /\ ~(i \in 1 .. Len(s)) /\ (s \o t)[i] = t[i - Len(s)]
    BY <1>1
  <1>3. /\ \A i \in 1 .. Len(s) : i \in 1 .. Len(s) + Len(t) /\ (s \o t)[i] = s[i]
        /\ \A i \in 1 .. Len(t) :
              Len(s) + i \in 1 .. Len(s) + Len(t) /\ (s \o t)[Len(s) + i] = t[i]
    BY <1>1
  <1>4. ToSet(s \o t) = ToSet(s) \cup ToSet(t)
    <2>1. ASSUME NEW i \in DOMAIN (s \o t) PROVE (s \o t)[i] \in ToSet(s) \cup ToSet(t)
      BY <1>1, <1>2 DEF ToSet
    <2>2. ASSUME NEW i \in DOMAIN s PROVE s[i] \in ToSet(s \o t)
      BY <1>1, <1>3 DEF ToSet
    <2>3. ASSUME NEW i \in DOMAIN t PROVE t[i] \in ToSet(s \o t)
      BY <1>1, <1>3 DEF ToSet
    <2> QED BY <2>1, <2>2, <2>3 DEF ToSet
  <1>5. ASSUME IsInjective(s), IsInjective(t), ToSet(s) \cap ToSet(t) = {},
               NEW i \in 1 .. Len(s) + Len(t), NEW j \in 1 .. Len(s) + Len(t),
               (s \o t)[i] = (s \o t)[j]
        PROVE  i = j
    <2>1. \A k \in 1 .. Len(s), l \in 1 .. Len(t) : s[k] # t[l]
      BY <1>1, <1>5 DEF ToSet
    <2>2. \A k, l \in 1 .. Len(s) : s[k] = s[l] => k = l
      BY <1>1, <1>5 DEF IsInjective
    <2>3. \A k, l \in 1 .. Len(t) : t[k] = t[l] => k = l
      BY <1>1, <1>5 DEF IsInjective
    <2>4. i - Len(s) = j - Len(s) => i = j
      BY <1>1
    <2> QED BY <1>2, <1>5, <2>1, <2>2, <2>3, <2>4
  <1> QED BY <1>1, <1>4, <1>5 DEF IsInjective

LEMMA HeadAndTail ==
    ASSUME NEW s \in Seq(Record), s # <<>>
    PROVE  /\ Head(s) \in Record /\ Tail(s) \in Seq(Record)
           /\ ToSet(s) = {Head(s)} \cup ToSet(Tail(s))
           /\ InOrder(s) => InOrder(Tail(s)) /\ Below({Head(s)}, ToSet(Tail(s)))
  <1>1. /\ DOMAIN s = 1 .. Len(s) /\ Len(s) \in Nat /\ Len(s) > 0
        /\ Head(s) \in Record /\ Tail(s) \in Seq(Record) /\ Head(s) = s[1]
        /\ Len(Tail(s)) = Len(s) - 1
        /\ DOMAIN Tail(s) = 1 .. Len(s) - 1
        /\ \A i \in 1 .. Len(s) - 1 : Tail(s)[i] = s[i + 1]
    BY LenProperties, HeadTailProperties
  <1>2. ToSet(s) = {Head(s)} \cup ToSet(Tail(s))
    <2>1. ASSUME NEW i \in DOMAIN s PROVE s[i] \in {Head(s)} \cup ToSet(Tail(s))
      <3>1. i = 1 \/ (i - 1 \in DOMAIN Tail(s) /\ Tail(s)[i - 1] = s[i])
        BY <1>1
      <3> QED BY <1>1, <3>1 DEF ToSet
    <2>2. ASSUME NEW i \in DOMAIN Tail(s) PROVE Tail(s)[i] \in ToSet(s)
      <3>1. i + 1 \in DOMAIN s /\ Tail(s)[i] = s[i + 1]
        BY <1>1
      <3> QED BY <3>1 DEF ToSet
    <2>3. Head(s) \in ToSet(s)
      <3>1. 1 \in DOMAIN s
        BY <1>1
      <3> QED BY <1>1, <3>1 DEF ToSet
    <2> QED BY <2>1, <2>2, <2>3 DEF ToSet
  <1>3. ASSUME InOrder(s) PROVE InOrder(Tail(s)) /\ Below({Head(s)}, ToSet(Tail(s)))
    <2>1. \A i, j \in 1 .. Len(s) : i < j => s[i].n < s[j].n
      BY <1>1, <1>3 DEF InOrder
    <2>2. \A i \in 1 .. Len(s) - 1 : s[1].n < s[i + 1].n
      BY <1>1, <2>1
    <2>3. ASSUME NEW i \in DOMAIN Tail(s), NEW j \in DOMAIN Tail(s), i < j
          PROVE  Tail(s)[i].n < Tail(s)[j].n
      <3>1. i + 1 \in 1 .. Len(s) /\ j + 1 \in 1 .. Len(s) /\ i + 1 < j + 1
        BY <1>1, <2>3
      <3>2. Tail(s)[i] = s[i + 1] /\ Tail(s)[j] = s[j + 1]
        BY <1>1
      <3> QED BY <2>1, <3>1, <3>2
    <2>4. InOrder(Tail(s))
      BY <2>3 DEF InOrder
    <2>5. \A r \in ToSet(Tail(s)) : s[1].n < r.n
      BY <1>1, <2>2 DEF ToSet
    <2> QED BY <1>1, <2>4, <2>5 DEF Below
  <1> QED BY <1>1, <1>2, <1>3

LEMMA AppendInOrder ==
    ASSUME NEW s \in Seq(Record), NEW e \in Record, InOrder(s), Below(ToSet(s), {e})
    PROVE  InOrder(Append(s, e))
  <1>1. /\ DOMAIN s = 1 .. Len(s) /\ Len(s) \in Nat
        /\ DOMAIN Append(s, e) = 1 .. Len(s) + 1
        /\ \A i \in 1 .. Len(s) : Append(s, e)[i] = s[i]
        /\ Append(s, e)[Len(s) + 1] = e
    BY LenProperties, AppendProperties
  <1>2. \A i \in 1 .. Len(s) : s[i].n < e.n
    BY <1>1 DEF Below, ToSet
  <1>3. ASSUME NEW i \in 1 .. Len(s) + 1, NEW j \in 1 .. Len(s) + 1, i < j
        PROVE  Append(s, e)[i].n < Append(s, e)[j].n
    <2>1. i \in 1 .. Len(s) /\ (j = Len(s) + 1 \/ j \in 1 .. Len(s))
      BY <1>1, <1>3
    <2>2. CASE j = Len(s) + 1
      BY <1>1, <1>2, <2>1, <2>2
    <2>3. CASE j \in 1 .. Len(s)
      BY <1>1, <1>3, <2>1, <2>3 DEF InOrder
    <2> QED BY <2>1, <2>2, <2>3
  <1> QED BY <1>1, <1>3 DEF InOrder

LEMMA ConcatInOrder ==
    ASSUME NEW s \in Seq(Record), NEW t \in Seq(Record),
           InOrder(s), InOrder(t), Below(ToSet(s), ToSet(t))
    PROVE  InOrder(s \o t)
  <1>1. /\ DOMAIN s = 1 .. Len(s) /\ Len(s) \in Nat
        /\ DOMAIN t = 1 .. Len(t) /\ Len(t) \in Nat
        /\ DOMAIN (s \o t) = 1 .. Len(s) + Len(t)
        /\ \A i \in 1 .. Len(s) + Len(t) :
              (s \o t)[i] = IF i <= Len(s) THEN s[i] ELSE t[i - Len(s)]
    BY LenProperties, ConcatProperties
  <1>2. ASSUME NEW i \in 1 .. Len(s) + Len(t), NEW j \in 1 .. Len(s) + Len(t), i < j
        PROVE  (s \o t)[i].n < (s \o t)[j].n
    <2>1. CASE j <= Len(s)
      BY <1>1, <1>2, <2>1 DEF InOrder
    <2>2. CASE i > Len(s)
      <3>1. i - Len(s) \in DOMAIN t /\ j - Len(s) \in DOMAIN t /\ i - Len(s) < j - Len(s)
        BY <1>1, <1>2, <2>2
      <3>2. (s \o t)[i] = t[i - Len(s)] /\ (s \o t)[j] = t[j - Len(s)]
        BY <1>1, <1>2, <2>2
      <3> QED BY <3>1, <3>2 DEF InOrder
    <2>3. CASE i <= Len(s) /\ j > Len(s)
      <3>1. i \in DOMAIN s /\ j - Len(s) \in DOMAIN t
        BY <1>1, <1>2, <2>3
      <3>2. (s \o t)[i] = s[i] /\ (s \o t)[j] = t[j - Len(s)]
        BY <1>1, <2>3
      <3> QED BY <3>1, <3>2 DEF Below, ToSet
    <2> QED BY <1>1, <2>1, <2>2, <2>3
  <1> QED BY <1>1, <1>2 DEF InOrder

LEMMA OrderIsInjective ==
    ASSUME NEW s \in Seq(Record), InOrder(s)
    PROVE  IsInjective(s)
  <1>1. DOMAIN s = 1 .. Len(s) /\ Len(s) \in Nat /\ \A i \in DOMAIN s : s[i] \in Record
    BY LenProperties, ElementOfSeq
  <1>2. ASSUME NEW i \in DOMAIN s, NEW j \in DOMAIN s, i # j PROVE s[i] # s[j]
    <2>1. \A r \in Record : ~(r.n < r.n)
      BY DEF Record
    <2>2. i < j \/ j < i
      BY <1>1, <1>2
    <2> QED BY <1>1, <2>1, <2>2 DEF InOrder
  <1> QED BY <1>2 DEF IsInjective

-----------------------------------------------------------------------------
(* The records: where each of them is *)

Of(kind) == {r \in Record : r.kind = kind}

LogTyped ==
    /\ sink \in {"off", "file", "postgres"} /\ phase \in Phases
    /\ emitted \in 0 .. MaxRecords
    /\ queue \in Seq(Record) /\ stored \in Seq(Record) /\ rotated \in Seq(Record)
    /\ buffers \in [request : Seq(Of("request")), pool : Seq(Of("pool"))]
    /\ batches \subseteq [request : Seq(Of("request")), pool : Seq(Of("pool")),
                          part : Kinds, drain : BOOLEAN]
    /\ lost \subseteq Record /\ gone \subseteq Record
    /\ step \in {"idle", "append"} /\ broken \in BOOLEAN /\ torn \in BOOLEAN
    /\ born \in Nat /\ mark \in Nat /\ faults \in Nat /\ boots \in Nat

\* each backend has its own places, and a process that is over none in memory
Shape ==
    /\ sink # "postgres" => batches = {} /\ buffers = NoRecords
    /\ sink # "file" => queue = <<>> /\ rotated = <<>> /\ gone = {} /\ ~torn
    /\ sink = "off" => stored = <<>> /\ lost = {}
    /\ step = "append" => sink = "file" /\ queue # <<>> /\ phase # "down" /\ ~broken
    /\ phase = "down" => queue = <<>> /\ buffers = NoRecords /\ batches = {}

\* every number was given to a record that is somewhere
Everything == InMemory \cup ToSet(rotated) \cup ToSet(stored) \cup lost \cup gone
Counted == {r.n : r \in Everything} = 1 .. emitted

\* no list has a record twice
Once ==
    /\ IsInjective(stored)
    /\ IsInjective(buffers.request) /\ IsInjective(buffers.pool)
    /\ \A b \in batches : IsInjective(b.request) /\ IsInjective(b.pool)

\* no two places have one record
FileApart ==
    /\ ToSet(queue) \cap ToSet(stored) = {} /\ ToSet(queue) \cap ToSet(rotated) = {}
    /\ ToSet(queue) \cap (lost \cup gone) = {}
    /\ ToSet(stored) \cap ToSet(rotated) = {} /\ ToSet(stored) \cap (lost \cup gone) = {}
    /\ ToSet(rotated) \cap (lost \cup gone) = {}
    /\ lost \cap gone = {}
TablesApart ==
    /\ Buffered \cap ToSet(stored) = {} /\ Buffered \cap lost = {}
    /\ ToSet(stored) \cap lost = {}
    /\ \A b \in batches : Left(b) \cap (Buffered \cup ToSet(stored) \cup lost) = {}
    /\ \A b, c \in batches : b # c => Left(b) \cap Left(c) = {}

\* the file, and what is to be appended to it, are in the order of emission
Ordered ==
    sink = "file" =>
        /\ InOrder(rotated) /\ InOrder(stored) /\ InOrder(queue)
        /\ Below(ToSet(rotated), ToSet(stored) \cup ToSet(queue))
        /\ Below(ToSet(stored), ToSet(queue))

TInv == LogTyped /\ Shape /\ Counted /\ Once /\ FileApart /\ TablesApart /\ Ordered

-----------------------------------------------------------------------------
(* The drain: what a shutdown without a failing write may leave behind *)

Early(r) == r.n < born \/ (r.n = born /\ boots > 0)

\* file: a torn line takes the first record of the process with it
FileDrained ==
    sink = "file" /\ ~broken /\ phase # "down" =>
        /\ \A r \in lost : Early(r)
        /\ torn => /\ boots > 0
                   /\ queue = <<>> => emitted = born - 1
                   /\ queue # <<>> => Head(queue).n = born

\* tables: what is left out are events, and requests of after the shutdown began
Late(r) == r.kind = "pool" \/ (r.n > mark /\ phase # "up")
TablesDrained ==
    sink = "postgres" /\ phase # "down" =>
        /\ broken /\ phase \in {"up", "closing"} => faults > 0
        /\ (broken => faults = 0) => \A r \in lost : r.n < born \/ Late(r)
        /\ (broken => faults = 0) /\ phase # "up" => \A r \in Buffered : Late(r)

DInv == mark <= emitted /\ FileDrained /\ TablesDrained

-----------------------------------------------------------------------------
(* What the places hold *)

LEMMA PlacesAreTyped ==
    ASSUME TInv
    PROVE  /\ ToSet(queue) \subseteq Record /\ ToSet(stored) \subseteq Record
           /\ ToSet(rotated) \subseteq Record /\ Buffered \subseteq Record
           /\ \A b \in batches : Left(b) \subseteq Record
           /\ Everything \subseteq Record /\ InMemory \subseteq Record
  <1>1. /\ ToSet(queue) \subseteq Record /\ ToSet(stored) \subseteq Record
        /\ ToSet(rotated) \subseteq Record
    BY ListIsEmpty DEF TInv, LogTyped
  <1>2. ASSUME NEW s \in [request : Seq(Of("request")), pool : Seq(Of("pool"))]
        PROVE  Held(s) \subseteq Record
    <2>1. ToSet(s.request) \subseteq Of("request") /\ ToSet(s.pool) \subseteq Of("pool")
      BY ListIsEmpty
    <2> QED BY <2>1 DEF Of, Held
  <1>3. Buffered \subseteq Record
    BY <1>2 DEF Buffered, TInv, LogTyped
  <1>4. ASSUME NEW b \in batches PROVE Left(b) \subseteq Record
    <2>1. b.request \in Seq(Of("request")) /\ b.pool \in Seq(Of("pool"))
      BY DEF TInv, LogTyped
    <2>2. ToSet(b.request) \subseteq Of("request") /\ ToSet(b.pool) \subseteq Of("pool")
      BY <2>1, ListIsEmpty
    <2> QED BY <2>2 DEF Of, Left, Rows
  <1> QED BY <1>1, <1>3, <1>4 DEF Everything, InMemory, TInv, LogTyped

LEMMA NothingHeld == Held(NoRecords) = {}
  BY ListOfNone DEF Held, NoRecords

\* a record that is new is nowhere yet
LEMMA NewRecord ==
    ASSUME TInv, emitted < MaxRecords, NEW kind \in Kinds,
           NEW r, r = [n |-> emitted + 1, kind |-> kind]
    PROVE  /\ r \in Of(kind) /\ r \in Record /\ r.n = emitted + 1 /\ r.kind = kind
           /\ r \notin Everything
           /\ \A x \in Everything : x.n <= emitted
           /\ Below(Everything, {r})
           /\ {x.n : x \in Everything \cup {r}} = 1 .. emitted + 1
           /\ emitted + 1 \in 0 .. MaxRecords
  <1>1. emitted \in Nat /\ MaxRecords \in Nat /\ emitted + 1 \in 1 .. MaxRecords
    BY SizesAreNumbers DEF TInv, LogTyped
  <1>2. r \in Of(kind) /\ r \in Record /\ r.n = emitted + 1 /\ r.kind = kind
    BY <1>1 DEF Of, Record
  <1>3. \A x \in Everything : x.n \in 1 .. emitted
    BY DEF TInv, Counted
  <1>4. \A x \in Everything : x.n <= emitted /\ x.n < r.n /\ x # r
    BY <1>1, <1>2, <1>3
  <1>5. {x.n : x \in Everything \cup {r}} = {x.n : x \in Everything} \cup {r.n}
    OBVIOUS
  <1>6. {x.n : x \in Everything \cup {r}} = 1 .. emitted + 1
    BY <1>1, <1>2, <1>5 DEF TInv, Counted
  <1> QED BY <1>1, <1>2, <1>4, <1>6 DEF Below

\* what has to be shown of a step that moves no record
LEMMA StillKeeps ==
    ASSUME TInv, LogTyped',
           UNCHANGED <<sink, emitted, queue, step, stored, rotated, torn, gone,
                       buffers, batches, lost>>,
           phase' # "down",
           step = "append" => ~broken'
    PROVE  TInv'
  <1>1. Everything' = Everything /\ Buffered' = Buffered
    BY DEF Everything, InMemory, Buffered
  <1>2. Shape'
    BY DEF TInv, Shape
  <1>3. Counted' /\ Once' /\ FileApart' /\ TablesApart' /\ Ordered'
    BY <1>1 DEF TInv, Counted, Once, FileApart, TablesApart, Ordered
  <1> QED BY <1>2, <1>3 DEF TInv

LEMMA UnchangedKeeps ==
    ASSUME TInv, UNCHANGED telemetryVars
    PROVE  TInv'
  BY DEF telemetryVars, TInv, LogTyped, Shape, Counted, Once, FileApart, TablesApart, Ordered,
         Everything, InMemory, Buffered

-----------------------------------------------------------------------------
(* The steps of the file *)

\* a deployment with a file has its records in the queue and in the files
LEMMA FilePlaces ==
    ASSUME TInv, sink = "file"
    PROVE  /\ batches = {} /\ buffers = NoRecords /\ Buffered = {}
           /\ InMemory = ToSet(queue)
           /\ Everything = ToSet(queue) \cup ToSet(rotated) \cup ToSet(stored) \cup lost \cup gone
  <1>1. batches = {} /\ buffers = NoRecords /\ Buffered = {}
    BY NothingHeld DEF TInv, Shape, Buffered
  <1> QED BY <1>1 DEF InMemory, Everything

\* what has to be shown of a step that leaves the tables alone
LEMMA FileStep ==
    ASSUME TInv, sink = "file", UNCHANGED <<sink, buffers, batches>>,
           LogTyped',
           step' = "append" => queue' # <<>> /\ phase' # "down" /\ ~broken',
           phase' = "down" => queue' = <<>>,
           {r.n : r \in ToSet(queue') \cup ToSet(rotated') \cup ToSet(stored')
                           \cup lost' \cup gone'} = 1 .. emitted',
           FileApart', Ordered'
    PROVE  TInv'
  <1>1. batches' = {} /\ buffers' = NoRecords /\ Buffered' = {} /\ sink' = "file"
    BY FilePlaces, NothingHeld DEF Buffered
  <1>2. Shape'
    BY <1>1 DEF Shape
  <1>3. Counted'
    <2>1. Everything' = ToSet(queue') \cup ToSet(rotated') \cup ToSet(stored') \cup lost' \cup gone'
      BY <1>1 DEF Everything, InMemory
    <2> QED BY <2>1 DEF Counted
  <1>4. Once'
    <2>1. stored' \in Seq(Record) /\ InOrder(stored')
      BY <1>1 DEF LogTyped, Ordered
    <2>2. IsInjective(stored')
      BY <2>1, OrderIsInjective
    <2>3. IsInjective(buffers'.request) /\ IsInjective(buffers'.pool)
      BY <1>1, ListOfNone DEF NoRecords
    <2> QED BY <1>1, <2>2, <2>3 DEF Once
  <1>5. TablesApart'
    BY <1>1 DEF TablesApart, FileApart
  <1> QED BY <1>2, <1>3, <1>4, <1>5 DEF TInv

LEMMA RotateKeeps ==
    ASSUME TInv, RotateIfNeeded
    PROVE  TInv'
  <1>1. sink = "file" /\ UNCHANGED <<sink, phase, emitted, queue, buffers, batches, broken, lost>>
        /\ queue # <<>> /\ phase # "down" /\ ~broken /\ step' = "append"
    BY DEF RotateIfNeeded
  <1>2. LogTyped'
    <2>1. ToSet(rotated) \subseteq Record
      BY PlacesAreTyped
    <2>2. <<>> \in Seq(Record)
      OBVIOUS
    <2>3. torn' \in BOOLEAN
      BY DEF RotateIfNeeded, TInv, LogTyped
    <2>4. faults' \in Nat /\ UNCHANGED <<born, mark, boots>>
      BY DEF RotateIfNeeded, TInv, LogTyped
    <2>5. stored' \in Seq(Record) /\ rotated' \in Seq(Record) /\ gone' \subseteq Record
      BY <2>1, <2>2 DEF RotateIfNeeded, TInv, LogTyped
    <2> QED BY <1>1, <2>3, <2>4, <2>5 DEF TInv, LogTyped
  <1>3. CASE UNCHANGED <<stored, rotated, gone>>
    <2>1. FileApart' /\ Ordered'
      BY <1>1, <1>3 DEF TInv, FileApart, Ordered
    <2>2. {r.n : r \in ToSet(queue') \cup ToSet(rotated') \cup ToSet(stored')
                           \cup lost' \cup gone'} = 1 .. emitted'
      BY <1>1, <1>3, FilePlaces DEF TInv, Counted
    <2> QED BY <1>1, <1>2, <2>1, <2>2, FileStep
  <1>4. CASE rotated' = stored /\ stored' = <<>> /\ gone' = gone \cup ToSet(rotated)
    <2>1. ToSet(stored') = {} /\ ToSet(rotated') = ToSet(stored) /\ InOrder(stored')
      BY <1>4, ListOfNone
    <2>2. FileApart'
      BY <1>1, <1>4, <2>1 DEF TInv, FileApart
    <2>3. Ordered'
      BY <1>1, <1>4, <2>1 DEF TInv, Ordered, Below
    <2>4. ToSet(queue') \cup ToSet(rotated') \cup ToSet(stored') \cup lost' \cup gone' = Everything
      BY <1>1, <1>4, <2>1, FilePlaces
    <2>5. {r.n : r \in ToSet(queue') \cup ToSet(rotated') \cup ToSet(stored')
                           \cup lost' \cup gone'} = 1 .. emitted'
      BY <1>1, <2>4 DEF TInv, Counted
    <2> QED BY <1>1, <1>2, <2>2, <2>3, <2>5, FileStep
  <1> QED BY <1>3, <1>4 DEF RotateIfNeeded

LEMMA AppendedKeeps ==
    ASSUME TInv, Appended
    PROVE  TInv'
  <1>1. /\ sink = "file" /\ queue # <<>>
        /\ UNCHANGED <<sink, phase, emitted, buffers, batches, broken, rotated, gone, ghosts>>
        /\ queue' = Tail(queue) /\ step' = "idle" /\ torn' = FALSE /\ phase # "down"
    BY DEF Appended, TInv, Shape
  <1> DEFINE h == Head(queue)
  <1>2. /\ queue \in Seq(Record) /\ stored \in Seq(Record) /\ rotated \in Seq(Record)
        /\ InOrder(queue) /\ InOrder(stored) /\ InOrder(rotated)
    BY <1>1 DEF TInv, LogTyped, Ordered
  <1>3. /\ h \in Record /\ queue' \in Seq(Record)
        /\ ToSet(queue) = {h} \cup ToSet(queue')
        /\ InOrder(queue') /\ Below({h}, ToSet(queue'))
    BY <1>1, <1>2, HeadAndTail
  <1>4. h \notin ToSet(queue')
    BY <1>3 DEF Below, Record
  <1> HIDE DEF h
  <1>5. Below(ToSet(rotated), ToSet(stored) \cup {h} \cup ToSet(queue'))
        /\ Below(ToSet(stored), {h} \cup ToSet(queue'))
    BY <1>1, <1>3 DEF TInv, Ordered, Below
  <1>6. CASE torn
    <2>1. lost' = lost \cup {h} /\ stored' = stored
      BY <1>6 DEF Appended, h
    <2>2. LogTyped'
      BY <1>1, <1>3, <2>1 DEF TInv, LogTyped, ghosts
    <2>3. FileApart'
      BY <1>1, <1>3, <1>4, <2>1 DEF TInv, FileApart
    <2>4. Ordered'
      BY <1>1, <1>2, <1>3, <1>5, <2>1 DEF Ordered, Below
    <2>5. ToSet(queue') \cup ToSet(rotated') \cup ToSet(stored') \cup lost' \cup gone' = Everything
      BY <1>1, <1>3, <2>1, FilePlaces
    <2>6. {r.n : r \in ToSet(queue') \cup ToSet(rotated') \cup ToSet(stored')
                           \cup lost' \cup gone'} = 1 .. emitted'
      BY <1>1, <2>5 DEF TInv, Counted
    <2> QED BY <1>1, <2>2, <2>3, <2>4, <2>6, FileStep
  <1>7. CASE ~torn
    <2>1. lost' = lost /\ stored' = Append(stored, h)
      BY <1>7 DEF Appended, h
    <2>2. ToSet(stored') = ToSet(stored) \cup {h} /\ stored' \in Seq(Record)
      BY <1>2, <1>3, <2>1, ListOfAppend, AppendProperties
    <2>3. LogTyped'
      BY <1>1, <1>3, <2>1, <2>2 DEF TInv, LogTyped, ghosts
    <2>4. FileApart'
      BY <1>1, <1>3, <1>4, <2>1, <2>2 DEF TInv, FileApart
    <2>5. InOrder(stored')
      <3>1. Below(ToSet(stored), {h})
        BY <1>5 DEF Below
      <3> QED BY <1>2, <1>3, <2>1, <3>1, AppendInOrder
    <2>6. Ordered'
      BY <1>1, <1>2, <1>3, <1>5, <2>1, <2>2, <2>5 DEF Ordered, Below
    <2>7. ToSet(queue') \cup ToSet(rotated') \cup ToSet(stored') \cup lost' \cup gone' = Everything
      BY <1>1, <1>3, <2>1, <2>2, FilePlaces
    <2>8. {r.n : r \in ToSet(queue') \cup ToSet(rotated') \cup ToSet(stored')
                           \cup lost' \cup gone'} = 1 .. emitted'
      BY <1>1, <2>7 DEF TInv, Counted
    <2> QED BY <1>1, <2>3, <2>4, <2>6, <2>8, FileStep
  <1> QED BY <1>6, <1>7

LEMMA AppendFailsKeeps ==
    ASSUME TInv, AppendFails
    PROVE  TInv'
  <1>1. /\ sink = "file"
        /\ UNCHANGED <<sink, phase, emitted, buffers, batches, stored, rotated, gone>>
        /\ queue' = <<>> /\ step' = "idle" /\ lost' = lost \cup ToSet(queue)
    BY DEF AppendFails, TInv, Shape, NothingPending
  <1>2. ToSet(queue') = {} /\ InOrder(queue') /\ queue' \in Seq(Record)
    BY <1>1, ListOfNone
  <1>3. LogTyped'
    <2>1. ToSet(queue) \subseteq Record
      BY PlacesAreTyped
    <2>2. broken' \in BOOLEAN /\ torn' \in BOOLEAN
      BY DEF AppendFails, TInv, LogTyped
    <2>3. faults' \in Nat /\ UNCHANGED <<born, mark, boots>>
      BY DEF AppendFails, TInv, LogTyped
    <2>4. lost' \subseteq Record
      BY <1>1, <2>1 DEF TInv, LogTyped
    <2> QED BY <1>1, <1>2, <2>2, <2>3, <2>4 DEF TInv, LogTyped
  <1>4. FileApart'
    BY <1>1, <1>2 DEF TInv, FileApart
  <1>5. Ordered'
    BY <1>1, <1>2 DEF TInv, Ordered, Below
  <1>6. ToSet(queue') \cup ToSet(rotated') \cup ToSet(stored') \cup lost' \cup gone' = Everything
    BY <1>1, <1>2, FilePlaces
  <1>7. {r.n : r \in ToSet(queue') \cup ToSet(rotated') \cup ToSet(stored')
                         \cup lost' \cup gone'} = 1 .. emitted'
    BY <1>1, <1>6 DEF TInv, Counted
  <1> QED BY <1>1, <1>3, <1>4, <1>5, <1>7, FileStep

-----------------------------------------------------------------------------
(* The steps of the tables *)

Lists == [request : Seq(Of("request")), pool : Seq(Of("pool"))]
InBatches == UNION {Left(b) : b \in batches}

LEMMA TablePlaces ==
    ASSUME TInv, sink = "postgres"
    PROVE  /\ queue = <<>> /\ rotated = <<>> /\ gone = {} /\ torn = FALSE /\ step = "idle"
           /\ ToSet(queue) = {} /\ ToSet(rotated) = {}
           /\ InMemory = Buffered \cup InBatches
           /\ Everything = Buffered \cup InBatches \cup ToSet(stored) \cup lost
  <1>1. /\ queue = <<>> /\ rotated = <<>> /\ gone = {} /\ torn = FALSE /\ step = "idle"
    BY DEF TInv, Shape, LogTyped
  <1>2. ToSet(queue) = {} /\ ToSet(rotated) = {}
    BY <1>1, ListOfNone
  <1> QED BY <1>1, <1>2 DEF InMemory, Everything, InBatches

\* what has to be shown of a step that leaves the file alone
LEMMA TableStep ==
    ASSUME TInv, sink = "postgres", UNCHANGED <<sink, queue, rotated, gone, torn, step>>,
           LogTyped',
           phase' = "down" => buffers' = NoRecords /\ batches' = {},
           {r.n : r \in (Buffered \cup InBatches)' \cup ToSet(stored') \cup lost'} = 1 .. emitted',
           Once', TablesApart'
    PROVE  TInv'
  <1>1. /\ queue' = <<>> /\ rotated' = <<>> /\ gone' = {} /\ torn' = FALSE /\ step' = "idle"
        /\ ToSet(queue') = {} /\ ToSet(rotated') = {} /\ sink' = "postgres"
    BY TablePlaces
  <1>2. Shape' /\ Ordered'
    BY <1>1 DEF Shape, Ordered
  <1>3. Counted'
    BY <1>1 DEF Counted, Everything, InMemory, InBatches
  <1>4. FileApart'
    BY <1>1 DEF FileApart, TablesApart
  <1> QED BY <1>2, <1>3, <1>4 DEF TInv

\* a flush moves its records to a batch of their own, or loses them
LEMMA FlushMoves ==
    ASSUME TInv, sink = "postgres", NEW records \in Lists, NEW drain \in BOOLEAN,
           Flush(records, drain), UNCHANGED stored,
           IsInjective(records.request), IsInjective(records.pool),
           Held(records) \cap (ToSet(stored) \cup lost) = {},
           \A b \in batches : Left(b) \cap Held(records) = {}
    PROVE  /\ buffers' = NoRecords /\ buffers' \in Lists /\ Buffered' = {}
           /\ batches' \subseteq [request : Seq(Of("request")), pool : Seq(Of("pool")),
                                  part : Kinds, drain : BOOLEAN]
           /\ lost' \subseteq Record /\ broken' \in BOOLEAN
           /\ Once' /\ TablesApart'
           /\ InBatches' \cup lost' = InBatches \cup lost \cup Held(records)
  <1>1. buffers' = NoRecords
    BY DEF Flush, Spliced
  <1>2. Buffered' = {} /\ buffers' \in Lists
    BY <1>1, NothingHeld DEF Buffered, Lists, NoRecords
  <1>3. IsInjective(buffers'.request) /\ IsInjective(buffers'.pool)
    BY <1>1, ListOfNone DEF NoRecords
  <1>4. Held(records) \subseteq Record
    <2>1. ToSet(records.request) \subseteq Of("request") /\ ToSet(records.pool) \subseteq Of("pool")
      BY ListIsEmpty DEF Lists
    <2> QED BY <2>1 DEF Held, Of
  <1>5. CASE phase \in {"ending", "closed"}
    <2>1. broken' = TRUE /\ lost' = lost \cup Held(records) /\ batches' = batches
      BY <1>5 DEF Flush
    <2>2. TablesApart'
      BY <1>2, <2>1 DEF TInv, TablesApart
    <2>3. Once'
      BY <1>3, <2>1 DEF TInv, Once
    <2>4. InBatches' = InBatches
      BY <2>1 DEF InBatches
    <2> QED BY <1>1, <1>2, <1>4, <2>1, <2>2, <2>3, <2>4 DEF TInv, LogTyped
  <1>6. CASE ~(phase \in {"ending", "closed"})
    <2> DEFINE new == [request |-> records.request, pool |-> records.pool, drain |-> drain,
                       part |-> IF records.request # <<>> THEN "request" ELSE "pool"]
    <2>1. batches' = batches \cup {new} /\ UNCHANGED <<broken, lost>>
      BY <1>6 DEF Flush
    <2>2. Left(new) = Held(records)
      <3>1. CASE records.request # <<>>
        BY <3>1 DEF Left, Rows, Held
      <3>2. CASE records.request = <<>>
        BY <3>2, ListOfNone DEF Left, Rows, Held
      <3> QED BY <3>1, <3>2
    <2>3. new \in [request : Seq(Of("request")), pool : Seq(Of("pool")),
                   part : Kinds, drain : BOOLEAN]
      BY DEF Lists, Kinds
    <2>4. IsInjective(new.request) /\ IsInjective(new.pool)
      OBVIOUS
    <2> HIDE DEF new
    <2>5. TablesApart'
      BY <1>2, <2>1, <2>2 DEF TInv, TablesApart
    <2>6. Once'
      BY <1>3, <2>1, <2>4 DEF TInv, Once
    <2>7. InBatches' = InBatches \cup Held(records)
      BY <2>1, <2>2 DEF InBatches
    <2> QED BY <1>1, <1>2, <2>1, <2>3, <2>5, <2>6, <2>7 DEF TInv, LogTyped
  <1> QED BY <1>5, <1>6

LEMMA FlushDueKeeps ==
    ASSUME TInv, FlushDue
    PROVE  TInv'
  <1>1. /\ sink = "postgres" /\ Flush(buffers, FALSE)
        /\ UNCHANGED <<sink, phase, emitted, stored, fileVars, ghosts>> /\ phase # "down"
    BY DEF FlushDue
  <1>2. /\ buffers \in Lists /\ IsInjective(buffers.request) /\ IsInjective(buffers.pool)
        /\ Buffered \cap (ToSet(stored) \cup lost) = {}
        /\ \A b \in batches : Left(b) \cap Buffered = {}
    BY DEF TInv, LogTyped, Once, TablesApart, Lists
  <1>3. /\ buffers' \in Lists /\ Buffered' = {}
        /\ batches' \subseteq [request : Seq(Of("request")), pool : Seq(Of("pool")),
                               part : Kinds, drain : BOOLEAN]
        /\ lost' \subseteq Record /\ broken' \in BOOLEAN
        /\ Once' /\ TablesApart'
        /\ InBatches' \cup lost' = InBatches \cup lost \cup Buffered
    BY <1>1, <1>2, FlushMoves DEF Buffered
  <1>4. LogTyped'
    BY <1>1, <1>3 DEF TInv, LogTyped, Lists, fileVars, ghosts
  <1>5. (Buffered \cup InBatches)' \cup ToSet(stored') \cup lost' = Everything
    BY <1>1, <1>3, TablePlaces
  <1>6. {r.n : r \in (Buffered \cup InBatches)' \cup ToSet(stored') \cup lost'} = 1 .. emitted'
    BY <1>1, <1>5 DEF TInv, Counted
  <1> QED BY <1>1, <1>3, <1>4, <1>6, TableStep DEF fileVars

\* an insert that is done: its rows are stored, the events of the batch are its
\* next rows or are lost
LEMMA InsertedKeeps ==
    ASSUME TInv, NEW b \in batches, Inserted(b)
    PROVE  TInv'
  <1>1. /\ sink = "postgres" /\ phase # "down"
        /\ UNCHANGED <<sink, phase, emitted, buffers, fileVars, ghosts>>
        /\ stored' = stored \o Rows(b)
    BY DEF Inserted, TInv, Shape
  <1> DEFINE next == [b EXCEPT !.part = "pool"]
             more == b.part = "request" /\ b.pool # <<>>
  <1>2. /\ b.request \in Seq(Of("request")) /\ b.pool \in Seq(Of("pool"))
        /\ b.part \in Kinds /\ b.drain \in BOOLEAN
        /\ b \in [request : Seq(Of("request")), pool : Seq(Of("pool")),
                  part : Kinds, drain : BOOLEAN]
        /\ IsInjective(b.request) /\ IsInjective(b.pool)
    BY DEF TInv, LogTyped, Once
  <1>3. /\ ToSet(b.request) \subseteq Of("request") /\ ToSet(b.pool) \subseteq Of("pool")
        /\ b.pool = <<>> <=> ToSet(b.pool) = {}
    BY <1>2, ListIsEmpty
  <1>4. Rows(b) \in Seq(Record) /\ IsInjective(Rows(b))
    <2>1. Of("request") \subseteq Record /\ Of("pool") \subseteq Record
      BY DEF Of
    <2> QED BY <1>2, <2>1, SeqMonotonic DEF Rows, Kinds
  <1>5. /\ Left(b) = ToSet(Rows(b)) \cup (IF more THEN ToSet(b.pool) ELSE {})
        /\ more => ToSet(Rows(b)) \cap ToSet(b.pool) = {}
    <2>1. CASE b.part = "request"
      BY <1>3, <2>1 DEF Left, Rows, Of
    <2>2. CASE b.part = "pool"
      BY <1>3, <2>2 DEF Left, Rows
    <2> QED BY <1>2, <2>1, <2>2 DEF Kinds
  <1>6. /\ ToSet(stored') = ToSet(stored) \cup ToSet(Rows(b))
        /\ stored' \in Seq(Record) /\ IsInjective(stored')
    <2>1. stored \in Seq(Record) /\ IsInjective(stored) /\ ToSet(stored) \cap ToSet(Rows(b)) = {}
      BY <1>5 DEF TInv, LogTyped, Once, TablesApart
    <2> QED BY <1>1, <1>4, <2>1, ListOfConcat, ConcatProperties
  <1>7. /\ next.request = b.request /\ next.pool = b.pool
        /\ next \in [request : Seq(Of("request")), pool : Seq(Of("pool")),
                     part : Kinds, drain : BOOLEAN]
        /\ Left(next) = ToSet(b.pool)
    BY <1>2 DEF Left, Rows, Kinds
  <1>8. Buffered' = Buffered
    BY <1>1 DEF Buffered
  <1> HIDE DEF next
  <1>9. CASE more /\ phase # "ending"
    <2>1. batches' = (batches \ {b}) \cup {next} /\ UNCHANGED <<broken, lost>>
      BY <1>9 DEF Inserted, next
    <2>2. LogTyped'
      BY <1>1, <1>6, <1>7, <2>1 DEF TInv, LogTyped, fileVars, ghosts
    <2>3. Once'
      BY <1>1, <1>2, <1>6, <1>7, <2>1 DEF TInv, Once
    <2>4. TablesApart'
      <3>1. Left(next) \subseteq Left(b) /\ ToSet(Rows(b)) \subseteq Left(b)
            /\ Left(next) \cap ToSet(Rows(b)) = {}
        BY <1>5, <1>7, <1>9
      <3>2. \A c \in batches \ {b} : Left(c) \cap Left(b) = {}
        BY DEF TInv, TablesApart
      <3>3. /\ Left(b) \cap (Buffered \cup ToSet(stored) \cup lost) = {}
            /\ \A c \in batches \ {b} : Left(c) \cap (Buffered \cup ToSet(stored) \cup lost) = {}
            /\ \A c, d \in batches \ {b} : c # d => Left(c) \cap Left(d) = {}
            /\ Buffered \cap ToSet(stored) = {} /\ Buffered \cap lost = {}
            /\ ToSet(stored) \cap lost = {}
        BY DEF TInv, TablesApart
      <3>4. /\ Buffered \cap ToSet(stored') = {} /\ Buffered \cap lost = {}
            /\ ToSet(stored') \cap lost = {}
        BY <1>6, <3>1, <3>3
      <3>5. ASSUME NEW c \in batches' PROVE Left(c) \cap (Buffered \cup ToSet(stored') \cup lost) = {}
        BY <1>6, <2>1, <3>1, <3>2, <3>3
      <3>6. ASSUME NEW c \in batches', NEW d \in batches', c # d
            PROVE  Left(c) \cap Left(d) = {}
        BY <2>1, <3>1, <3>2, <3>3, <3>6
      <3> QED BY <1>8, <2>1, <3>4, <3>5, <3>6 DEF TablesApart
    <2>5. InBatches' \cup ToSet(Rows(b)) = InBatches
      BY <1>5, <1>7, <1>9, <2>1 DEF InBatches
    <2>6. (Buffered \cup InBatches)' \cup ToSet(stored') \cup lost' = Everything
      BY <1>1, <1>6, <1>8, <2>1, <2>5, TablePlaces
    <2>7. {r.n : r \in (Buffered \cup InBatches)' \cup ToSet(stored') \cup lost'} = 1 .. emitted'
      BY <1>1, <2>6 DEF TInv, Counted
    <2> QED BY <1>1, <2>2, <2>3, <2>4, <2>7, TableStep DEF fileVars
  <1>10. CASE ~(more /\ phase # "ending")
    <2>1. /\ batches' = batches \ {b} /\ broken' \in BOOLEAN
          /\ lost' = lost \cup (Left(b) \ ToSet(Rows(b)))
      <3>1. CASE more
        <4>1. batches' = batches \ {b} /\ broken' = TRUE /\ lost' = lost \cup ToSet(b.pool)
          BY <1>10, <3>1 DEF Inserted
        <4> QED BY <1>5, <3>1, <4>1
      <3>2. CASE ~more
        <4>1. batches' = batches \ {b} /\ UNCHANGED <<broken, lost>>
          BY <1>10, <3>2 DEF Inserted
        <4> QED BY <1>5, <3>2, <4>1 DEF TInv, LogTyped
      <3> QED BY <3>1, <3>2
    <2>2. LogTyped'
      BY <1>1, <1>6, <2>1, PlacesAreTyped DEF TInv, LogTyped, fileVars, ghosts
    <2>3. Once'
      BY <1>1, <1>6, <2>1 DEF TInv, Once
    <2>4. TablesApart'
      BY <1>5, <1>6, <1>8, <2>1 DEF TInv, TablesApart
    <2>5. InBatches' \cup Left(b) = InBatches
      BY <2>1 DEF InBatches
    <2>6. (Buffered \cup InBatches)' \cup ToSet(stored') \cup lost' = Everything
      BY <1>1, <1>5, <1>6, <1>8, <2>1, <2>5, TablePlaces
    <2>7. {r.n : r \in (Buffered \cup InBatches)' \cup ToSet(stored') \cup lost'} = 1 .. emitted'
      BY <1>1, <2>6 DEF TInv, Counted
    <2> QED BY <1>1, <2>2, <2>3, <2>4, <2>7, TableStep DEF fileVars
  <1> QED BY <1>9, <1>10

\* an insert that fails: made or not, the rest of the batch is lost
LEMMA InsertFailsKeeps ==
    ASSUME TInv, NEW b \in batches, InsertFails(b)
    PROVE  TInv'
  <1>1. /\ sink = "postgres" /\ phase # "down" /\ batches' = batches \ {b} /\ broken' = TRUE
        /\ UNCHANGED <<sink, phase, emitted, buffers, fileVars, born, mark, boots>>
        /\ faults' \in Nat
    BY DEF InsertFails, TInv, Shape, LogTyped
  <1>2. PICK made \in {<<>>, Rows(b)} :
           stored' = stored \o made /\ lost' = lost \cup (Left(b) \ ToSet(made))
    BY DEF InsertFails
  <1>3. /\ b.request \in Seq(Of("request")) /\ b.pool \in Seq(Of("pool"))
        /\ b.part \in Kinds /\ IsInjective(b.request) /\ IsInjective(b.pool)
    BY DEF TInv, LogTyped, Once
  <1>4. made \in Seq(Record) /\ IsInjective(made) /\ ToSet(made) \subseteq Left(b)
    <2>1. Of("request") \subseteq Record /\ Of("pool") \subseteq Record
      BY DEF Of
    <2>2. Rows(b) \in Seq(Record) /\ IsInjective(Rows(b)) /\ ToSet(Rows(b)) \subseteq Left(b)
      BY <1>3, <2>1, SeqMonotonic DEF Rows, Kinds, Left
    <2>3. <<>> \in Seq(Record)
      OBVIOUS
    <2> QED BY <2>2, <2>3, ListOfNone
  <1>5. /\ ToSet(stored') = ToSet(stored) \cup ToSet(made)
        /\ stored' \in Seq(Record) /\ IsInjective(stored')
    <2>1. stored \in Seq(Record) /\ IsInjective(stored) /\ ToSet(stored) \cap ToSet(made) = {}
      BY <1>4 DEF TInv, LogTyped, Once, TablesApart
    <2> QED BY <1>2, <1>4, <2>1, ListOfConcat, ConcatProperties
  <1>6. LogTyped'
    BY <1>1, <1>2, <1>5, PlacesAreTyped DEF TInv, LogTyped, fileVars
  <1>7. Once'
    BY <1>1, <1>5 DEF TInv, Once
  <1>8. Buffered' = Buffered
    BY <1>1 DEF Buffered
  <1>9. TablesApart'
    BY <1>1, <1>2, <1>4, <1>5, <1>8 DEF TInv, TablesApart
  <1>10. InBatches' \cup Left(b) = InBatches
    BY <1>1 DEF InBatches
  <1>11. (Buffered \cup InBatches)' \cup ToSet(stored') \cup lost' = Everything
    BY <1>1, <1>2, <1>4, <1>5, <1>8, <1>10, TablePlaces
  <1>12. {r.n : r \in (Buffered \cup InBatches)' \cup ToSet(stored') \cup lost'} = 1 .. emitted'
    BY <1>1, <1>11 DEF TInv, Counted
  <1> QED BY <1>1, <1>6, <1>7, <1>9, <1>12, TableStep DEF fileVars

-----------------------------------------------------------------------------
(* Emission *)

LEMMA PushedHolds ==
    ASSUME TInv, NEW kind \in Kinds, NEW r \in Of(kind), r.kind = kind, r \notin Buffered,
           NEW records, records = [buffers EXCEPT ![r.kind] = Append(@, r)]
    PROVE  /\ records \in Lists
           /\ Held(records) = Buffered \cup {r}
           /\ IsInjective(records.request) /\ IsInjective(records.pool)
  <1>1. /\ buffers \in Lists /\ buffers.request \in Seq(Of("request"))
        /\ buffers.pool \in Seq(Of("pool"))
        /\ IsInjective(buffers.request) /\ IsInjective(buffers.pool)
        /\ r \notin ToSet(buffers.request) /\ r \notin ToSet(buffers.pool)
    BY DEF TInv, LogTyped, Lists, Once, Buffered, Held
  <1>2. CASE kind = "request"
    <2>1. records = [request |-> Append(buffers.request, r), pool |-> buffers.pool]
      BY <1>1, <1>2 DEF Lists
    <2>2. Append(buffers.request, r) \in Seq(Of("request"))
      BY <1>1, <1>2, AppendProperties
    <2>3. /\ ToSet(records.request) = ToSet(buffers.request) \cup {r}
          /\ IsInjective(records.request)
      BY <1>1, <1>2, <2>1, ListOfAppend
    <2> QED BY <1>1, <2>1, <2>2, <2>3 DEF Lists, Held, Buffered
  <1>3. CASE kind = "pool"
    <2>1. records = [request |-> buffers.request, pool |-> Append(buffers.pool, r)]
      BY <1>1, <1>3 DEF Lists
    <2>2. Append(buffers.pool, r) \in Seq(Of("pool"))
      BY <1>1, <1>3, AppendProperties
    <2>3. /\ ToSet(records.pool) = ToSet(buffers.pool) \cup {r}
          /\ IsInjective(records.pool)
      BY <1>1, <1>3, <2>1, ListOfAppend
    <2> QED BY <1>1, <2>1, <2>2, <2>3 DEF Lists, Held, Buffered
  <1> QED BY <1>2, <1>3 DEF Kinds

\* a record that is new goes to one place
LEMMA EmitKeeps ==
    ASSUME TInv, NEW kind \in Kinds, Emit(kind)
    PROVE  TInv'
  <1> DEFINE r == [n |-> emitted + 1, kind |-> kind]
  <1>1. CASE sink = "off"
    <2>1. UNCHANGED telemetryVars
      BY <1>1 DEF Emit
    <2> QED BY <2>1, UnchangedKeeps
  <1>2. CASE sink # "off"
    <2>1. /\ emitted < MaxRecords /\ emitted' = r.n /\ phase # "down"
          /\ UNCHANGED <<sink, phase, stored, step, seen, rotated, torn, gone, ghosts>>
          /\ IF broken THEN Dropped(r)
             ELSE IF sink = "file" THEN Enqueued(r) ELSE Pushed(r)
      BY <1>2 DEF Emit
    <2>2. /\ r \in Of(kind) /\ r \in Record /\ r.n = emitted + 1 /\ r.kind = kind
          /\ r \notin Everything
          /\ Below(Everything, {r})
          /\ {x.n : x \in Everything \cup {r}} = 1 .. emitted + 1
          /\ emitted + 1 \in 0 .. MaxRecords
      BY <2>1, NewRecord
    <2> HIDE DEF r
    <2>3. sink = "file" \/ sink = "postgres"
      BY <1>2 DEF TInv, LogTyped
    <2>4. CASE broken
      <3>1. lost' = lost \cup {r} /\ UNCHANGED <<queue, buffers, batches, broken>>
        BY <2>1, <2>4 DEF Dropped
      <3>2. LogTyped'
        BY <2>1, <2>2, <3>1 DEF TInv, LogTyped, ghosts
      <3>3. Buffered' = Buffered /\ InBatches' = InBatches
        BY <3>1 DEF Buffered, InBatches
      <3>4. CASE sink = "file"
        <4>1. FileApart' /\ Ordered'
          BY <2>1, <2>2, <3>1, <3>4, FilePlaces DEF TInv, FileApart, Ordered
        <4>2. ToSet(queue') \cup ToSet(rotated') \cup ToSet(stored') \cup lost' \cup gone'
                 = Everything \cup {r}
          BY <2>1, <3>1, <3>4, FilePlaces
        <4>3. {x.n : x \in ToSet(queue') \cup ToSet(rotated') \cup ToSet(stored')
                             \cup lost' \cup gone'} = 1 .. emitted'
          BY <2>1, <2>2, <4>2
        <4>4. step' = "append" => queue' # <<>> /\ phase' # "down" /\ ~broken'
          BY <2>1, <3>1 DEF TInv, Shape
        <4> QED BY <2>1, <3>1, <3>2, <3>4, <4>1, <4>3, <4>4, FileStep
      <3>5. CASE sink = "postgres"
        <4>1. TablesApart'
          <5>1. r \notin Buffered /\ r \notin ToSet(stored) /\ r \notin InBatches
            BY <2>2, <3>5, TablePlaces
          <5>2. \A b \in batches : r \notin Left(b)
            BY <5>1 DEF InBatches
          <5> QED BY <2>1, <3>1, <3>3, <5>1, <5>2 DEF TInv, TablesApart
        <4>2. Once'
          BY <2>1, <3>1 DEF TInv, Once
        <4>3. (Buffered \cup InBatches)' \cup ToSet(stored') \cup lost' = Everything \cup {r}
          BY <2>1, <3>1, <3>3, <3>5, TablePlaces
        <4>4. {x.n : x \in (Buffered \cup InBatches)' \cup ToSet(stored') \cup lost'} = 1 .. emitted'
          BY <2>1, <2>2, <4>3
        <4> QED BY <2>1, <3>1, <3>2, <3>5, <4>1, <4>2, <4>4, TableStep
      <3> QED BY <2>3, <3>4, <3>5
    <2>5. CASE ~broken /\ sink = "file"
      <3>1. queue' = Append(queue, r) /\ UNCHANGED <<buffers, batches, broken, lost>>
        BY <2>1, <2>5 DEF Enqueued
      <3>2. queue \in Seq(Record) /\ InOrder(queue)
        BY <2>5 DEF TInv, LogTyped, Ordered
      <3>3. /\ ToSet(queue') = ToSet(queue) \cup {r} /\ queue' \in Seq(Record) /\ queue' # <<>>
        BY <2>2, <3>1, <3>2, ListOfAppend, AppendProperties, ListIsEmpty
      <3>4. InOrder(queue')
        <4>1. Below(ToSet(queue), {r})
          BY <2>2, <2>5, FilePlaces DEF Below
        <4> QED BY <2>2, <3>1, <3>2, <4>1, AppendInOrder
      <3>5. LogTyped'
        BY <2>1, <2>2, <3>1, <3>3 DEF TInv, LogTyped, ghosts
      <3>6. FileApart'
        BY <2>1, <2>2, <2>5, <3>1, <3>3, FilePlaces DEF TInv, FileApart
      <3>7. Ordered'
        BY <2>1, <2>2, <2>5, <3>3, <3>4, FilePlaces DEF TInv, Ordered, Below
      <3>8. ToSet(queue') \cup ToSet(rotated') \cup ToSet(stored') \cup lost' \cup gone'
               = Everything \cup {r}
        BY <2>1, <2>5, <3>1, <3>3, FilePlaces
      <3>9. {x.n : x \in ToSet(queue') \cup ToSet(rotated') \cup ToSet(stored')
                           \cup lost' \cup gone'} = 1 .. emitted'
        BY <2>1, <2>2, <3>8
      <3> QED BY <2>1, <2>5, <3>1, <3>3, <3>5, <3>6, <3>7, <3>9, FileStep
    <2>6. CASE ~broken /\ sink = "postgres"
      <3> DEFINE records == [buffers EXCEPT ![r.kind] = Append(@, r)]
      <3>1. Pushed(r)
        BY <2>1, <2>6
      <3>2. r \notin Buffered /\ r \notin ToSet(stored) \cup lost /\ r \notin InBatches
        BY <2>2, <2>6, TablePlaces
      <3>3. /\ records \in Lists /\ Held(records) = Buffered \cup {r}
            /\ IsInjective(records.request) /\ IsInjective(records.pool)
        BY <2>2, <3>2, PushedHolds
      <3>4. UNCHANGED queue /\ (Flush(records, FALSE)
                \/ (buffers' = records /\ UNCHANGED <<batches, broken, lost>>))
        BY <3>1 DEF Pushed
      <3> HIDE DEF records
      <3>5. \A b \in batches : r \notin Left(b)
        BY <3>2 DEF InBatches
      <3>6. /\ Held(records) \cap (ToSet(stored) \cup lost) = {}
            /\ \A b \in batches : Left(b) \cap Held(records) = {}
        BY <3>2, <3>3, <3>5 DEF TInv, TablesApart
      <3>7. CASE Flush(records, FALSE)
        <4>1. /\ buffers' \in Lists /\ Buffered' = {}
              /\ batches' \subseteq [request : Seq(Of("request")), pool : Seq(Of("pool")),
                                     part : Kinds, drain : BOOLEAN]
              /\ lost' \subseteq Record /\ broken' \in BOOLEAN
              /\ Once' /\ TablesApart'
              /\ InBatches' \cup lost' = InBatches \cup lost \cup Held(records)
          BY <2>1, <2>6, <3>3, <3>6, <3>7, FlushMoves
        <4>2. LogTyped'
          BY <2>1, <2>2, <3>4, <4>1 DEF TInv, LogTyped, Lists, ghosts
        <4>3. (Buffered \cup InBatches)' \cup ToSet(stored') \cup lost' = Everything \cup {r}
          BY <2>1, <2>6, <3>3, <4>1, TablePlaces
        <4>4. {x.n : x \in (Buffered \cup InBatches)' \cup ToSet(stored') \cup lost'} = 1 .. emitted'
          BY <2>1, <2>2, <4>3
        <4> QED BY <2>1, <2>6, <3>4, <4>1, <4>2, <4>4, TableStep
      <3>8. CASE buffers' = records /\ UNCHANGED <<batches, broken, lost>>
        <4>1. Buffered' = Buffered \cup {r} /\ InBatches' = InBatches
          BY <3>3, <3>8 DEF Buffered, InBatches
        <4>2. LogTyped'
          BY <2>1, <2>2, <3>3, <3>4, <3>8 DEF TInv, LogTyped, Lists, ghosts
        <4>3. Once'
          BY <2>1, <3>3, <3>8 DEF TInv, Once
        <4>4. TablesApart'
          BY <2>1, <3>2, <3>5, <3>8, <4>1 DEF TInv, TablesApart
        <4>5. (Buffered \cup InBatches)' \cup ToSet(stored') \cup lost' = Everything \cup {r}
          BY <2>1, <2>6, <3>8, <4>1, TablePlaces
        <4>6. {x.n : x \in (Buffered \cup InBatches)' \cup ToSet(stored') \cup lost'} = 1 .. emitted'
          BY <2>1, <2>2, <4>5
        <4> QED BY <2>1, <2>6, <3>4, <4>2, <4>3, <4>4, <4>6, TableStep
      <3> QED BY <3>4, <3>7, <3>8
    <2> QED BY <2>3, <2>4, <2>5, <2>6
  <1> QED BY <1>1, <1>2

-----------------------------------------------------------------------------
(* Shutdown, crash and restart *)

\* the last look at the buffers flushes them; the file only starts to wait
LEMMA ShutdownKeeps ==
    ASSUME TInv, Shutdown
    PROVE  TInv'
  <1>1. /\ UNCHANGED <<sink, emitted, queue, step, stored, rotated, torn, gone, born, faults, boots>>
        /\ phase' = "closing" /\ mark' = emitted /\ emitted \in Nat
    BY DEF Shutdown, TInv, LogTyped
  <1>2. CASE sink = "postgres" /\ ~broken /\ buffers # NoRecords
    <2>1. Flush(buffers, TRUE)
      BY <1>2 DEF Shutdown
    <2>2. /\ buffers \in Lists /\ IsInjective(buffers.request) /\ IsInjective(buffers.pool)
          /\ Buffered \cap (ToSet(stored) \cup lost) = {}
          /\ \A b \in batches : Left(b) \cap Buffered = {}
      BY DEF TInv, LogTyped, Once, TablesApart, Lists
    <2>3. /\ buffers' \in Lists /\ Buffered' = {}
          /\ batches' \subseteq [request : Seq(Of("request")), pool : Seq(Of("pool")),
                                 part : Kinds, drain : BOOLEAN]
          /\ lost' \subseteq Record /\ broken' \in BOOLEAN
          /\ Once' /\ TablesApart'
          /\ InBatches' \cup lost' = InBatches \cup lost \cup Buffered
      BY <1>1, <1>2, <2>1, <2>2, FlushMoves DEF Buffered
    <2>4. LogTyped'
      BY <1>1, <2>3 DEF TInv, LogTyped, Lists, Phases
    <2>5. (Buffered \cup InBatches)' \cup ToSet(stored') \cup lost' = Everything
      BY <1>1, <1>2, <2>3, TablePlaces
    <2>6. {r.n : r \in (Buffered \cup InBatches)' \cup ToSet(stored') \cup lost'} = 1 .. emitted'
      BY <1>1, <2>5 DEF TInv, Counted
    <2> QED BY <1>1, <1>2, <2>3, <2>4, <2>6, TableStep
  <1>3. CASE ~(sink = "postgres" /\ ~broken /\ buffers # NoRecords)
    <2>1. UNCHANGED <<buffers, batches, broken, lost>>
      BY <1>3 DEF Shutdown
    <2>2. LogTyped'
      BY <1>1, <2>1 DEF TInv, LogTyped, Phases
    <2>3. step = "append" => ~broken'
      BY <2>1 DEF TInv, Shape
    <2> QED BY <1>1, <2>1, <2>2, <2>3, StillKeeps
  <1> QED BY <1>2, <1>3

\* the end of the process loses what was in memory
LEMMA StoppedKeeps ==
    ASSUME TInv, Stopped
    PROVE  TInv'
  <1>1. /\ UNCHANGED <<sink, emitted, broken, stored, rotated, gone, ghosts>>
        /\ phase' = "down" /\ lost' = lost \cup InMemory
        /\ queue' = <<>> /\ buffers' = NoRecords /\ batches' = {} /\ step' = "idle"
        /\ torn' \in {torn, torn \/ step = "append"}
    BY DEF Stopped
  <1>2. /\ ToSet(queue') = {} /\ Buffered' = {} /\ InMemory' = {} /\ InBatches' = {}
        /\ InOrder(queue') /\ IsInjective(buffers'.request) /\ IsInjective(buffers'.pool)
    BY <1>1, ListOfNone, NothingHeld DEF Buffered, InMemory, InBatches, NoRecords
  <1>3. LogTyped'
    <2>1. queue' \in Seq(Record) /\ buffers' \in Lists
      BY <1>1 DEF NoRecords, Lists
    <2>2. torn' \in BOOLEAN
      BY <1>1 DEF TInv, LogTyped
    <2>3. lost' \subseteq Record
      BY <1>1, PlacesAreTyped DEF TInv, LogTyped
    <2> QED BY <1>1, <2>1, <2>2, <2>3 DEF TInv, LogTyped, Lists, Phases, ghosts
  <1>4. Counted'
    <2>1. Everything' = Everything
      BY <1>1, <1>2 DEF Everything
    <2> QED BY <1>1, <2>1 DEF TInv, Counted
  <1>5. Once'
    BY <1>1, <1>2 DEF TInv, Once
  <1>6. CASE sink = "file"
    <2>1. InMemory = ToSet(queue)
      BY <1>6, FilePlaces
    <2>2. FileApart'
      BY <1>1, <1>2, <2>1 DEF TInv, FileApart
    <2>3. TablesApart'
      BY <1>1, <1>2, <2>2 DEF TablesApart, FileApart
    <2>4. Ordered'
      BY <1>1, <1>2 DEF TInv, Ordered, Below
    <2>5. Shape'
      BY <1>1, <1>6 DEF Shape
    <2> QED BY <1>3, <1>4, <1>5, <2>2, <2>3, <2>4, <2>5 DEF TInv
  <1>7. CASE sink # "file"
    <2>1. queue = <<>> /\ rotated = <<>> /\ gone = {} /\ torn = FALSE /\ step # "append"
      BY <1>7 DEF TInv, Shape, LogTyped
    <2>2. ToSet(rotated') = {} /\ gone' = {} /\ torn' = FALSE
      BY <1>1, <2>1, ListOfNone
    <2>3. Ordered'
      BY <1>1, <1>7 DEF Ordered
    <2>4. InMemory \cap ToSet(stored) = {}
      <3>1. \A x \in InMemory : x \in Buffered \/ \E b \in batches : x \in Left(b)
        BY <2>1, ListOfNone DEF InMemory
      <3> QED BY <3>1 DEF TInv, TablesApart
    <2>5. TablesApart'
      BY <1>1, <1>2, <2>4 DEF TInv, TablesApart
    <2>6. FileApart'
      BY <1>1, <1>2, <2>2, <2>5 DEF FileApart, TablesApart
    <2>7. Shape'
      <3>1. sink = "off" => InMemory = {} /\ lost = {} /\ stored = <<>>
        <4> SUFFICES ASSUME sink = "off" PROVE InMemory = {} /\ lost = {} /\ stored = <<>>
          OBVIOUS
        <4>1. batches = {} /\ buffers = NoRecords /\ lost = {} /\ stored = <<>>
          BY DEF TInv, Shape
        <4> QED BY <2>1, <4>1, ListOfNone, NothingHeld DEF InMemory, Buffered
      <3> QED BY <1>1, <1>7, <2>1, <2>2, <3>1 DEF Shape
    <2> QED BY <1>3, <1>4, <1>5, <2>3, <2>5, <2>6, <2>7 DEF TInv
  <1> QED BY <1>6, <1>7

LEMMA TInvInit == Init => TInv
  <1> SUFFICES ASSUME Init PROVE TInv
    OBVIOUS
  <1>1. TelemetryInit /\ sink \in {"off", "file", "postgres"}
    BY SinksAreKnown DEF Init, TelemetryInit
  <1>2. /\ ToSet(queue) = {} /\ Buffered = {} /\ ToSet(stored) = {} /\ ToSet(rotated) = {}
        /\ batches = {} /\ lost = {} /\ gone = {}
    BY <1>1, ListOfNone, NothingHeld DEF TelemetryInit, Buffered
  <1>3. LogTyped
    <2>1. 0 \in 0 .. MaxRecords
      BY SizesAreNumbers
    <2>2. <<>> \in Seq(Record) /\ NoRecords \in Lists
      BY DEF Lists, NoRecords
    <2> QED BY <1>1, <2>1, <2>2 DEF TelemetryInit, LogTyped, Lists, Phases
  <1>4. Counted
    <2>1. Everything = {}
      BY <1>2 DEF Everything, InMemory
    <2>2. 1 .. emitted = {}
      BY <1>1 DEF TelemetryInit
    <2> QED BY <2>1, <2>2 DEF Counted
  <1>5. Once
    BY <1>1, ListOfNone DEF TelemetryInit, Once, NoRecords
  <1>6. Shape /\ FileApart /\ TablesApart
    BY <1>1, <1>2 DEF TelemetryInit, Shape, FileApart, TablesApart
  <1>7. Ordered
    BY <1>1, <1>2, ListOfNone DEF TelemetryInit, Ordered, Below
  <1> QED BY <1>3, <1>4, <1>5, <1>6, <1>7 DEF TInv

\* The steps of the log, for whatever the limiter does meanwhile.
LEMMA TInvKeeps ==
    ASSUME TInv, TelemetryStep \/ UNCHANGED telemetryVars
    PROVE  TInv'
  <1>1. CASE \E kind \in {"request", "pool"} : Emit(kind)
    BY <1>1, EmitKeeps DEF Kinds
  <1>2. CASE \E b \in batches : Inserted(b) \/ InsertFails(b)
    BY <1>2, InsertedKeeps, InsertFailsKeeps
  <1>3. CASE Flushed \/ EndPool \/ PoolEnded
    <2>1. /\ UNCHANGED <<sink, emitted, queue, step, stored, rotated, torn, gone, born, mark,
                         faults, boots, buffers, batches, broken, lost>>
          /\ phase' \in Phases /\ phase' # "down" /\ phase # "down"
      BY <1>3 DEF Flushed, EndPool, PoolEnded, fileVars, ghosts, Phases, TInv, LogTyped
    <2>2. LogTyped'
      BY <2>1 DEF TInv, LogTyped
    <2>3. step = "append" => ~broken'
      BY <2>1 DEF TInv, Shape
    <2> QED BY <2>1, <2>2, <2>3, StillKeeps
  <1>4. CASE Boot
    <2>1. /\ UNCHANGED <<sink, emitted, queue, step, stored, rotated, torn, gone, faults,
                         buffers, batches, lost>>
          /\ phase' = "up" /\ phase = "down" /\ broken' = FALSE
          /\ born' = emitted + 1 /\ mark' = emitted /\ boots' = boots + 1 /\ emitted \in Nat
      BY <1>4 DEF Boot, TInv, LogTyped
    <2>2. LogTyped'
      <3>1. born' \in Nat /\ mark' \in Nat /\ boots' \in Nat
        BY <2>1 DEF TInv, LogTyped
      <3> QED BY <2>1, <3>1 DEF TInv, LogTyped, Phases
    <2> QED BY <2>1, <2>2, StillKeeps
  <1>5. CASE Exit \/ Crash
    BY <1>5, StoppedKeeps DEF Exit, Crash
  <1>6. CASE UNCHANGED telemetryVars
    BY <1>6, UnchangedKeeps
  <1> QED BY <1>1, <1>2, <1>3, <1>4, <1>5, <1>6, RotateKeeps, AppendedKeeps, AppendFailsKeeps,
             FlushDueKeeps, ShutdownKeeps DEF TelemetryStep

LEMMA StepsOfTheLog ==
    ASSUME [Next]_vars
    PROVE  TelemetryStep \/ UNCHANGED telemetryVars
  BY DEF Next, vars, Admitted, Rejected, Ended, PoolEvent, Background, Stop, Start, TelemetryStep

LEMMA TInvAccounts == TInv => AccountedFor
  <1> SUFFICES ASSUME TInv PROVE AccountedFor
    OBVIOUS
  <1>1. rotated \in Seq(Record) /\ stored \in Seq(Record) /\ queue \in Seq(Record)
    BY DEF TInv, LogTyped
  <1>2. ToSet(History) = ToSet(rotated) \cup ToSet(stored) /\ History \in Seq(Record)
    BY <1>1, ListOfConcat, ConcatProperties DEF History
  <1>3. {r.n : r \in InMemory \cup ToSet(History) \cup lost \cup gone} = 1 .. emitted
    <2>1. InMemory \cup ToSet(History) \cup lost \cup gone = Everything
      BY <1>2 DEF Everything
    <2> QED BY <2>1 DEF TInv, Counted
  <1>4. IsInjective(History)
    <2>1. IsInjective(rotated)
      <3>1. CASE sink = "file"
        BY <1>1, <3>1, OrderIsInjective DEF TInv, Ordered
      <3>2. CASE sink # "file"
        BY <3>2, ListOfNone DEF TInv, Shape
      <3> QED BY <3>1, <3>2
    <2> QED BY <1>1, <2>1, ListOfConcat DEF History, TInv, Once, FileApart
  <1>5. /\ (InMemory \cup lost \cup gone) \cap ToSet(History) = {}
        /\ InMemory \cap (lost \cup gone) = {} /\ lost \cap gone = {}
    <2>1. CASE sink = "file"
      BY <1>2, <2>1, FilePlaces DEF TInv, FileApart
    <2>2. CASE sink # "file"
      <3>1. queue = <<>> /\ rotated = <<>> /\ gone = {}
        BY <2>2 DEF TInv, Shape
      <3>2. \A x \in InMemory : x \in Buffered \/ \E b \in batches : x \in Left(b)
        BY <3>1, ListOfNone DEF InMemory
      <3> QED BY <1>2, <3>1, <3>2, ListOfNone DEF TInv, TablesApart
    <2> QED BY <2>1, <2>2
  <1>6. sink = "file" => InOrder(History \o queue)
    <2> SUFFICES ASSUME sink = "file" PROVE InOrder(History \o queue)
      OBVIOUS
    <2>1. /\ InOrder(rotated) /\ InOrder(stored) /\ InOrder(queue)
          /\ Below(ToSet(rotated), ToSet(stored))
          /\ Below(ToSet(rotated) \cup ToSet(stored), ToSet(queue))
      BY DEF TInv, Ordered, Below
    <2>2. InOrder(History)
      BY <1>1, <2>1, ConcatInOrder DEF History
    <2> QED BY <1>1, <1>2, <2>1, <2>2, ConcatInOrder
  <1>7. \A b, c \in batches : b # c => Left(b) \cap Left(c) = {}
    BY DEF TInv, TablesApart
  <1>8. \A b \in batches : Left(b) \cap Buffered = {}
    BY DEF TInv, TablesApart
  <1> QED BY <1>3, <1>4, <1>5, <1>6, <1>7, <1>8 DEF AccountedFor

\* No record is written twice, lost without a trace or written out of order,
\* whatever flushes overlap, whatever fails and whenever the process dies
\* (telemetry.ts:183-205, postgres.ts:396-416).
THEOREM RecordsAreAccountedFor == Spec => []AccountedFor
  <1>1. TInv /\ [Next]_vars => TInv'
    BY StepsOfTheLog, TInvKeeps
  <1> QED BY <1>1, TInvInit, TInvAccounts, PTL DEF Spec

-----------------------------------------------------------------------------
(* The drain, step by step *)

LEMMA Numbers ==
    ASSUME TInv
    PROVE  /\ emitted \in Nat /\ born \in Nat /\ mark \in Nat /\ faults \in Nat /\ boots \in Nat
           /\ \A r \in Everything : r.n \in Nat /\ r.n <= emitted
           /\ lost \subseteq Everything /\ Buffered \subseteq Everything
  <1>1. \A r \in Everything : r.n \in 1 .. emitted
    BY DEF TInv, Counted
  <1>2. emitted \in Nat
    BY SizesAreNumbers DEF TInv, LogTyped
  <1> QED BY <1>1, <1>2 DEF TInv, LogTyped, Everything, InMemory

\* the events of a batch are events
LEMMA EventsAreLate ==
    ASSUME TInv, NEW b \in batches
    PROVE  \A r \in ToSet(b.pool) : r.kind = "pool"
  <1>1. ToSet(b.pool) \subseteq Of("pool")
    BY ListIsEmpty DEF TInv, LogTyped
  <1> QED BY <1>1 DEF Of

\* a flush after the shutdown began loses only what came late
LEMMA FlushDrains ==
    ASSUME TInv, DInv, sink = "postgres", ~broken, phase # "down",
           NEW records, NEW drain, Flush(records, drain),
           UNCHANGED <<sink, phase, mark, born, faults>>, emitted' \in Nat, emitted' >= emitted,
           phase # "up" => \A r \in Held(records) : Late(r)
    PROVE  DInv'
  <1>1. Buffered' = {}
    BY NothingHeld DEF Flush, Spliced, Buffered
  <1>2. mark' <= emitted'
    BY Numbers DEF DInv
  <1>3. \A r \in lost : r.n < born \/ Late(r)
    BY DEF DInv, TablesDrained
  <1>4. /\ phase \in {"up", "closing"} => ~broken'
        /\ \A r \in lost' : r \in lost \/ (r \in Held(records) /\ phase # "up")
    BY DEF Flush
  <1>5. \A r : Late(r)' <=> Late(r)
    BY DEF Late
  <1>6. TablesDrained'
    BY <1>1, <1>3, <1>4, <1>5 DEF TablesDrained
  <1> QED BY <1>2, <1>6 DEF DInv, FileDrained

LEMMA EmitDrains ==
    ASSUME TInv, DInv, NEW kind \in Kinds, Emit(kind)
    PROVE  DInv'
  <1> DEFINE r == [n |-> emitted + 1, kind |-> kind]
  <1>1. CASE sink = "off"
    BY <1>1 DEF Emit, telemetryVars, DInv, FileDrained, TablesDrained
  <1>2. CASE sink # "off"
    <2>1. /\ emitted < MaxRecords /\ emitted' = emitted + 1 /\ phase # "down"
          /\ UNCHANGED <<sink, phase, torn, born, mark, faults, boots>>
          /\ IF broken THEN Dropped(r)
             ELSE IF sink = "file" THEN Enqueued(r) ELSE Pushed(r)
      BY <1>2 DEF Emit, ghosts
    <2>2. /\ r \in Record /\ r \in Of(kind) /\ r.n = emitted + 1 /\ r.kind = kind
          /\ r \notin Everything
      BY <2>1, NewRecord
    <2>3. /\ emitted \in Nat /\ mark \in Nat /\ mark <= emitted /\ born \in Nat
      BY Numbers DEF DInv
    <2> HIDE DEF r
    <2>4. phase # "up" => Late(r)
      BY <2>2, <2>3 DEF Late
    <2>5. mark' <= emitted'
      BY <2>1, <2>3
    <2>6. sink = "file" \/ sink = "postgres"
      BY <1>2 DEF TInv, LogTyped
    <2>7. \A x : Late(x)' <=> Late(x)
      BY <2>1 DEF Late
    <2>8. CASE broken
      <3>1. lost' = lost \cup {r} /\ UNCHANGED <<queue, buffers, batches, broken>>
        BY <2>1, <2>8 DEF Dropped
      <3>2. FileDrained'
        BY <2>8, <3>1 DEF FileDrained
      <3>3. Buffered' = Buffered
        BY <3>1 DEF Buffered
      <3>4. TablesDrained'
        <4> SUFFICES ASSUME sink = "postgres" PROVE TablesDrained'
          BY <2>1 DEF TablesDrained
        <4>1. CASE faults = 0
          <5>1. phase # "up"
            BY <2>1, <2>8, <4>1 DEF DInv, TablesDrained
          <5>2. /\ \A x \in lost : x.n < born \/ Late(x)
                /\ \A x \in Buffered : Late(x)
                /\ broken /\ phase \in {"up", "closing"} => faults > 0
            BY <2>1, <4>1, <5>1 DEF DInv, TablesDrained
          <5> QED BY <2>1, <2>4, <2>7, <3>1, <3>3, <5>1, <5>2 DEF TablesDrained
        <4>2. CASE faults # 0
          <5>1. faults > 0
            BY <4>2, Numbers
          <5> QED BY <2>1, <2>8, <3>1, <4>2, <5>1 DEF TablesDrained
        <4> QED BY <4>1, <4>2
      <3> QED BY <2>5, <3>2, <3>4 DEF DInv
    <2>9. CASE ~broken /\ sink = "file"
      <3>1. queue' = Append(queue, r) /\ UNCHANGED <<broken, lost>>
        BY <2>1, <2>9 DEF Enqueued
      <3>2. queue \in Seq(Record)
        BY DEF TInv, LogTyped
      <3>3. /\ queue' # <<>>
            /\ queue = <<>> => Head(queue') = r
            /\ queue # <<>> => Head(queue') = Head(queue)
        BY <2>2, <3>1, <3>2, AppendProperties, HeadTailAppend
      <3>4. FileDrained'
        BY <2>1, <2>2, <2>3, <2>9, <3>1, <3>3 DEF DInv, FileDrained, Early
      <3> QED BY <2>1, <2>5, <2>9, <3>4 DEF DInv, TablesDrained
    <2>10. CASE ~broken /\ sink = "postgres"
      <3> DEFINE records == [buffers EXCEPT ![r.kind] = Append(@, r)]
      <3>1. r \notin Buffered
        BY <2>2, Numbers
      <3>2. Held(records) = Buffered \cup {r}
        BY <2>2, <3>1, PushedHolds
      <3>3. \/ Flush(records, FALSE)
            \/ buffers' = records /\ UNCHANGED <<batches, broken, lost>>
        BY <2>1, <2>10 DEF Pushed
      <3> HIDE DEF records
      <3>4. /\ \A x \in lost : x.n < born \/ Late(x)
            /\ phase # "up" => \A x \in Buffered : Late(x)
        BY <2>1, <2>10 DEF DInv, TablesDrained
      <3>5. CASE Flush(records, FALSE)
        <4>1. phase # "up" => \A x \in Held(records) : Late(x)
          BY <2>4, <3>2, <3>4
        <4>2. emitted' \in Nat /\ emitted' >= emitted
          BY <2>1, <2>3
        <4> QED BY <2>1, <2>10, <3>5, <4>1, <4>2, FlushDrains
      <3>6. CASE buffers' = records /\ UNCHANGED <<batches, broken, lost>>
        <4>1. Buffered' = Buffered \cup {r}
          BY <3>2, <3>6 DEF Buffered
        <4>2. TablesDrained'
          BY <2>1, <2>4, <2>7, <2>10, <3>4, <3>6, <4>1 DEF TablesDrained
        <4> QED BY <2>1, <2>5, <2>10, <4>2 DEF DInv, FileDrained
      <3> QED BY <3>3, <3>5, <3>6
    <2> QED BY <2>6, <2>8, <2>9, <2>10
  <1> QED BY <1>1, <1>2

LEMMA FileDrains ==
    ASSUME TInv, DInv, RotateIfNeeded \/ Appended \/ AppendFails
    PROVE  DInv'
  <1>1. sink = "file" /\ sink' = sink /\ phase' = phase /\ phase # "down"
        /\ UNCHANGED <<emitted, mark, born, boots>> /\ ~broken /\ queue # <<>>
    BY DEF RotateIfNeeded, Appended, AppendFails, TInv, Shape, ghosts
  <1>2. /\ \A r \in lost : Early(r)
        /\ torn => boots > 0 /\ Head(queue).n = born
    BY <1>1 DEF DInv, FileDrained
  <1>3. \A r : Early(r)' <=> Early(r)
    BY <1>1 DEF Early
  <1>4. CASE RotateIfNeeded
    <2>1. UNCHANGED <<lost, queue, broken>> /\ (torn' => torn)
      BY <1>4 DEF RotateIfNeeded
    <2> QED BY <1>1, <1>2, <1>3, <2>1 DEF DInv, FileDrained, TablesDrained
  <1>5. CASE Appended
    <2>1. torn' = FALSE /\ lost' = IF torn THEN lost \cup {Head(queue)} ELSE lost
      BY <1>5 DEF Appended
    <2>2. \A r \in lost' : Early(r)
      BY <1>2, <2>1 DEF Early
    <2> QED BY <1>1, <1>3, <2>1, <2>2 DEF DInv, FileDrained, TablesDrained
  <1>6. CASE AppendFails
    <2>1. broken' = TRUE
      BY <1>6 DEF AppendFails
    <2> QED BY <1>1, <2>1 DEF DInv, FileDrained, TablesDrained
  <1> QED BY <1>4, <1>5, <1>6

LEMMA TablesDrain ==
    ASSUME TInv, DInv, FlushDue \/ (\E b \in batches : Inserted(b) \/ InsertFails(b))
    PROVE  DInv'
  <1>1. CASE FlushDue
    <2>1. /\ sink = "postgres" /\ phase # "down" /\ ~broken /\ Flush(buffers, FALSE)
          /\ UNCHANGED <<sink, phase, emitted, mark, born, faults>>
      BY <1>1 DEF FlushDue, ghosts
    <2>2. phase # "up" => \A r \in Held(buffers) : Late(r)
      BY <2>1 DEF DInv, TablesDrained, Buffered
    <2>3. emitted' \in Nat /\ emitted' >= emitted
      BY <2>1, Numbers
    <2> QED BY <2>1, <2>2, <2>3, FlushDrains
  <1>2. ASSUME NEW b \in batches, Inserted(b) PROVE DInv'
    <2>1. /\ sink = "postgres" /\ phase # "down"
          /\ UNCHANGED <<sink, phase, emitted, buffers, mark, born, faults>>
      BY <1>2 DEF Inserted, ghosts, TInv, Shape
    <2>2. \/ UNCHANGED <<broken, lost>>
          \/ phase = "ending" /\ broken' = TRUE /\ lost' = lost \cup ToSet(b.pool)
      BY <1>2 DEF Inserted
    <2>3. \A r \in ToSet(b.pool) : Late(r)
      BY EventsAreLate DEF Late
    <2>4. \A r : Late(r)' <=> Late(r)
      BY <2>1 DEF Late
    <2>5. Buffered' = Buffered
      BY <2>1 DEF Buffered
    <2>6. CASE UNCHANGED <<broken, lost>>
      BY <2>1, <2>4, <2>5, <2>6 DEF DInv, FileDrained, TablesDrained
    <2>7. CASE phase = "ending" /\ broken' = TRUE /\ lost' = lost \cup ToSet(b.pool)
      BY <2>1, <2>3, <2>4, <2>5, <2>7 DEF DInv, FileDrained, TablesDrained
    <2> QED BY <2>2, <2>6, <2>7
  <1>3. ASSUME NEW b \in batches, InsertFails(b) PROVE DInv'
    <2>1. /\ sink = "postgres" /\ sink' = sink /\ broken' = TRUE /\ faults' = faults + 1
          /\ UNCHANGED <<emitted, mark>>
      BY <1>3 DEF InsertFails, TInv, Shape
    <2>2. faults' > 0 /\ faults' # 0
      BY <2>1, Numbers
    <2> QED BY <2>1, <2>2 DEF DInv, FileDrained, TablesDrained
  <1> QED BY <1>1, <1>2, <1>3

LEMMA ShutdownDrains ==
    ASSUME TInv, DInv, Shutdown
    PROVE  DInv'
  <1>1. /\ phase = "up" /\ phase' = "closing" /\ mark' = emitted
        /\ UNCHANGED <<sink, emitted, queue, torn, born, faults, boots>>
    BY DEF Shutdown
  <1>2. mark' <= emitted'
    BY <1>1, Numbers
  <1>3. sink = "file" => UNCHANGED <<broken, lost>>
    BY DEF Shutdown
  <1>4. FileDrained'
    BY <1>1, <1>3 DEF DInv, FileDrained, Early
  <1>5. sink = "postgres" /\ ~broken => UNCHANGED <<broken, lost>> /\ Buffered' = {}
    <2> SUFFICES ASSUME sink = "postgres", ~broken
                 PROVE  UNCHANGED <<broken, lost>> /\ Buffered' = {}
      OBVIOUS
    <2>1. CASE buffers # NoRecords
      <3>1. Flush(buffers, TRUE)
        BY <2>1 DEF Shutdown
      <3> QED BY <1>1, <3>1, NothingHeld DEF Flush, Spliced, Buffered
    <2>2. CASE buffers = NoRecords
      BY <2>2, NothingHeld DEF Shutdown, Buffered
    <2> QED BY <2>1, <2>2
  <1>6. broken => UNCHANGED broken
    BY DEF Shutdown
  <1>7. TablesDrained'
    <2>1. CASE sink = "postgres" /\ ~broken
      <3>1. \A r \in lost : r.n < born \/ r.kind = "pool"
        BY <1>1, <2>1 DEF DInv, TablesDrained, Late
      <3> QED BY <1>1, <1>5, <2>1, <3>1 DEF TablesDrained, Late
    <2>2. CASE sink = "postgres" /\ broken
      <3>1. faults > 0 /\ faults # 0
        BY <1>1, <2>2, Numbers DEF DInv, TablesDrained
      <3> QED BY <1>1, <1>6, <2>2, <3>1 DEF TablesDrained
    <2> QED BY <1>1, <2>1, <2>2 DEF TablesDrained
  <1> QED BY <1>2, <1>4, <1>7 DEF DInv

LEMMA DInvKeeps ==
    ASSUME TInv, DInv, TelemetryStep \/ UNCHANGED telemetryVars
    PROVE  DInv'
  <1>1. CASE \E kind \in {"request", "pool"} : Emit(kind)
    BY <1>1, EmitDrains DEF Kinds
  <1>2. CASE Flushed
    <2>1. /\ sink # "postgres" /\ phase # "down"
          /\ UNCHANGED <<sink, emitted, queue, broken, torn, lost, born, mark, boots>>
      BY <1>2 DEF Flushed, ghosts
    <2> QED BY <2>1 DEF DInv, FileDrained, TablesDrained, Early
  <1>3. CASE EndPool \/ PoolEnded
    <2>1. /\ phase # "up" /\ phase # "down" /\ phase' \in {"ending", "closed"}
          /\ UNCHANGED <<sink, emitted, buffers, queue, broken, torn, lost, born, mark, faults, boots>>
      BY <1>3 DEF EndPool, PoolEnded, ghosts, fileVars
    <2>2. Buffered' = Buffered
      BY <2>1 DEF Buffered
    <2> QED BY <2>1, <2>2 DEF DInv, FileDrained, TablesDrained, Early, Late
  <1>4. CASE Exit \/ Crash
    <2>1. phase' = "down" /\ UNCHANGED <<mark, emitted>>
      BY <1>4 DEF Exit, Crash, Stopped, ghosts
    <2> QED BY <2>1 DEF DInv, FileDrained, TablesDrained
  <1>5. CASE Boot
    <2>1. /\ phase = "down" /\ broken' = FALSE /\ boots' = boots + 1
          /\ born' = emitted + 1 /\ mark' = emitted
          /\ UNCHANGED <<sink, emitted, queue, buffers, lost, torn>>
      BY <1>5 DEF Boot
    <2>2. queue = <<>> /\ Buffered' = {}
      BY <2>1, NothingHeld DEF TInv, Shape, Buffered
    <2>3. /\ \A r \in lost' : r.n < born'
          /\ boots' > 0 /\ emitted' = born' - 1 /\ mark' <= emitted'
      BY <2>1, Numbers
    <2> QED BY <2>1, <2>2, <2>3 DEF DInv, FileDrained, TablesDrained, Early
  <1>6. CASE UNCHANGED telemetryVars
    BY <1>6 DEF telemetryVars, DInv, FileDrained, TablesDrained, Early, Late, Buffered
  <1> QED BY <1>1, <1>2, <1>3, <1>4, <1>5, <1>6, FileDrains, TablesDrain, ShutdownDrains
          DEF TelemetryStep

LEMMA DInvInit == Init => DInv
  <1> SUFFICES ASSUME Init PROVE DInv
    OBVIOUS
  <1>1. /\ mark = 0 /\ emitted = 0 /\ broken = FALSE /\ lost = {} /\ torn = FALSE
        /\ phase = "up"
    BY DEF Init, TelemetryInit
  <1> QED BY <1>1 DEF DInv, FileDrained, TablesDrained

OnlyTablesEnd == phase = "ending" => sink = "postgres"

LEMMA EndingKeeps ==
    ASSUME OnlyTablesEnd, TelemetryStep \/ UNCHANGED telemetryVars
    PROVE  OnlyTablesEnd'
  BY DEF OnlyTablesEnd, TelemetryStep, Emit, telemetryVars, RotateIfNeeded, Appended, AppendFails,
         FlushDue, Inserted, InsertFails, Shutdown, Flushed, EndPool, PoolEnded, Exit, Crash,
         Stopped, Boot

\* When the drain is over, what this process accepted is stored.
LEMMA DrainStep ==
    ASSUME TInv, DInv, OnlyTablesEnd, TelemetryStep,
           phase # "closed", phase' = "closed", sink # "off",
           broken' => sink = "postgres" /\ faults = 0,
           NEW r \in InMemory' \cup lost'
    PROVE  \/ r.n < born
           \/ r.n = born /\ boots > 0
           \/ sink = "postgres" /\ (r.kind = "pool" \/ r.n > mark)
  <1>1. Flushed \/ PoolEnded
    BY DEF TelemetryStep, Emit, telemetryVars, RotateIfNeeded, Appended, AppendFails, FlushDue,
           Inserted, InsertFails, Shutdown, EndPool, Exit, Crash, Stopped, Boot
  <1>2. CASE Flushed
    <2>1. /\ sink = "file" /\ queue = <<>> /\ phase = "closing"
          /\ UNCHANGED <<queue, buffers, batches, broken, lost, sink>> /\ ~broken
      BY <1>2 DEF Flushed, Changed, TInv, LogTyped
    <2>2. InMemory' = {}
      <3>1. InMemory' = InMemory
        BY <2>1 DEF InMemory, Buffered
      <3> QED BY <2>1, <3>1, FilePlaces, ListOfNone
    <2> QED BY <2>1, <2>2 DEF DInv, FileDrained, Early
  <1>3. CASE PoolEnded
    <2>1. /\ phase = "ending" /\ batches = {}
          /\ UNCHANGED <<sink, queue, buffers, batches, broken, lost>>
      BY <1>3 DEF PoolEnded, fileVars
    <2>2. CASE sink = "postgres"
      <3>1. InMemory' = Buffered
        <4>1. InMemory' = InMemory
          BY <2>1 DEF InMemory, Buffered
        <4> QED BY <2>1, <2>2, <4>1, TablePlaces DEF InBatches
      <3>2. broken => faults = 0
        BY <2>1
      <3> QED BY <2>1, <2>2, <3>1, <3>2 DEF DInv, TablesDrained, Late
    <2> QED BY <2>1, <2>2 DEF OnlyTablesEnd
  <1> QED BY <1>1, <1>2, <1>3

\* When storage.close() resolves and no write of the process failed, what was
\* accepted is written (telemetry.ts:136-147, postgres.ts:396-416, main.ts:262).
THEOREM DrainLosesNothing == Spec => DrainIsComplete
  <1>1. TInv /\ [Next]_vars => TInv'
    BY StepsOfTheLog, TInvKeeps
  <1>2. TInv /\ DInv /\ [Next]_vars => DInv'
    BY StepsOfTheLog, DInvKeeps
  <1> DEFINE Drains ==
        phase # "closed" /\ phase' = "closed" /\ sink # "off"
          /\ (broken' => sink = "postgres" /\ faults = 0) =>
          \A r \in InMemory' \cup lost' :
              \/ r.n < born
              \/ r.n = born /\ boots > 0
              \/ sink = "postgres" /\ (r.kind = "pool" \/ r.n > mark)
  <1>3. Init => OnlyTablesEnd
    BY DEF Init, TelemetryInit, OnlyTablesEnd
  <1>4. OnlyTablesEnd /\ [Next]_vars => OnlyTablesEnd'
    BY StepsOfTheLog, EndingKeeps
  <1>5. TInv /\ DInv /\ OnlyTablesEnd /\ [Next]_vars => [Drains]_telemetryVars
    <2> SUFFICES ASSUME TInv, DInv, OnlyTablesEnd, [Next]_vars PROVE [Drains]_telemetryVars
      OBVIOUS
    <2>1. CASE TelemetryStep
      BY <2>1, DrainStep
    <2>2. CASE UNCHANGED telemetryVars
      BY <2>2
    <2> QED BY <2>1, <2>2, StepsOfTheLog
  <1> HIDE DEF Drains
  <1>6. Spec => [][Drains]_telemetryVars
    BY <1>1, <1>2, <1>5, <1>3, <1>4, TInvInit, DInvInit, PTL DEF Spec
  <1> QED BY <1>6 DEF DrainIsComplete, Drains
=============================================================================
