----------------------------- MODULE Accounting -----------------------------
(***************************************************************************)
(* The books of the gateway: what a key may do and what is written down    *)
(* about it.  The hook of app.ts asks the limiter, and records a request   *)
(* it refuses; a request that was admitted charges its tokens to the       *)
(* limiter and is recorded when it ends; app.close() waits for those that  *)
(* have not ended.  A restart forgets the limits and keeps the history.    *)
(***************************************************************************)
EXTENDS RateLimiter, Telemetry

CONSTANT Deployments    \* the pairs of limits and sink that are checked

vars == <<limiterVars, telemetryVars>>

Init ==
    /\ LimiterInit /\ TelemetryInit
    /\ <<limits, sink>> \in Deployments

\* the hook: verify, then applyRateLimit
Admitted == phase # "down" /\ Admit /\ UNCHANGED telemetryVars
Rejected == (RefuseRequests \/ RefuseTokens) /\ Emit("request")

\* chargeUsage and the recorder of the route
Ended(tokens) == End(tokens) /\ Emit("request")

\* the event sink of the pool
PoolEvent == Emit("pool") /\ UNCHANGED limiterVars

\* the writers of the log, and the clock
Background ==
    \/ /\ \/ RotateIfNeeded \/ Appended \/ AppendFails
          \/ FlushDue
          \/ \E b \in batches : Inserted(b) \/ InsertFails(b)
          \/ Shutdown \/ Flushed \/ EndPool \/ PoolEnded
       /\ UNCHANGED limiterVars
    \/ (Sweep \/ TimePasses) /\ UNCHANGED telemetryVars

\* the process ends, once its requests have, or before
Stop ==
    /\ (running = 0 /\ Exit) \/ Crash
    /\ UNCHANGED limiterVars

\* a new process starts with a new limiter
Start ==
    /\ Boot
    /\ times' = <<>> /\ hourly' = [b \in Buckets |-> 0] /\ running' = 0
    /\ log' = <<>> /\ spent' = [t \in Moments |-> 0]
    /\ UNCHANGED <<limits, now>>

Next ==
    \/ Admitted \/ Rejected \/ PoolEvent
    \/ \E tokens \in Charges : Ended(tokens)
    \/ Background \/ Stop \/ Start

Spec == Init /\ [][Next]_vars
FairSpec == Spec /\ TelemetryFairness
=============================================================================
