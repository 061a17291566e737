---------------------------- MODULE MCAccounting ----------------------------
(* A small instance of Accounting for TLC. *)
EXTENDS Accounting

NoLimits == [requests |-> 0, tokens |-> 0]
Rate == [requests |-> 2, tokens |-> 0]
Quota == [requests |-> 1, tokens |-> 3]
SmallConfigs == {NoLimits, Rate, Quota}

\* the limiter and the log do not read each other: limits without a log, and
\* each log without limits
SmallDeployments ==
    {<<NoLimits, "file">>, <<NoLimits, "postgres">>, <<Rate, "off">>, <<Quota, "off">>}
=============================================================================
