------------------------------- MODULE Metrics -------------------------------
(***************************************************************************)
(* metrics.c: counters in units of Cos, with the rest of what was logged    *)
(* carried to the next time, and the two counters of open exchanges.  Each  *)
(* operation maps a table of counters to the next one; the callers are in   *)
(* module Administration.                                                   *)
(***************************************************************************)
EXTENDS Integers

CONSTANT Cos   \* how many of what is logged make one of what is shown

Metric == DOMAIN Cos

ASSUME CosAssumption ==
  /\ Cos \in [Metric -> Nat \ {0}]
  /\ {"TRAFFIC", "CONNECTIONS", "MAX_CONNECTIONS", "CLIENTS"} \subseteq Metric

MetricsStart == [m \in Metric |-> [round |-> 0, carry |-> 0]]

\* Mutant of LogUtil: the carry of the last time is replaced.
LogUtilNoCarry(pack, n, cos) ==
  [round |-> pack.round + (n \div cos), carry |-> n % cos]

\* log_util.
LogUtil(pack, n, cos) ==
  LET carry == pack.carry + (n % cos) IN
  [round |-> pack.round + (n \div cos) + (carry \div cos), carry |-> carry % cos]

\* log_metric.
LogMetric(metrics, type, n) ==
  [metrics EXCEPT ![type] = LogUtil(@, n, Cos[type])]

\* add_client: the greatest number of exchanges at one time is kept.
AddClient(metrics) ==
  LET now == metrics["CONNECTIONS"].round + 1 IN
  [metrics EXCEPT !["CONNECTIONS"].round = now,
                  !["MAX_CONNECTIONS"].round = IF @ < now THEN now ELSE @]

\* Mutant of RemoveClient: the greatest number follows the current one.
RemoveClientFromMax(metrics) ==
  LET now == metrics["CONNECTIONS"].round IN
  IF now > 0
  THEN [metrics EXCEPT !["CONNECTIONS"].round = now - 1,
                       !["MAX_CONNECTIONS"].round = now - 1]
  ELSE metrics

\* remove_client.
RemoveClient(metrics) ==
  IF metrics["CONNECTIONS"].round > 0
  THEN [metrics EXCEPT !["CONNECTIONS"].round = @ - 1]
  ELSE metrics
=============================================================================
