------------------------ MODULE MCMetricsPersistence ------------------------
(* Small instances of MetricsPersistence for TLC. *)
EXTENDS MetricsPersistence

Both == <<[type |-> "counter", id |-> "a"], [type |-> "counter", id |-> "b"]>>
One  == <<[type |-> "counter", id |-> "a"]>>
NaN  == <<[type |-> "gauge", finite |-> FALSE]>>

\* A batch of two counters, and an update of a gauge that JSON cannot carry.
AllBatches == {Both, NaN}

\* What JSON requests can carry.
FiniteBatches == {Both, One}
=============================================================================
