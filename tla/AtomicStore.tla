---------------------------- MODULE AtomicStore ----------------------------
(***************************************************************************)
(* What a MetricsStorage promises its callers: a call takes effect as a    *)
(* whole in one step, an update that reports success took effect in the    *)
(* very step in which it did, a read returns the store of one moment.  The *)
(* one thing that is not promised is that a call takes effect only once:   *)
(* an attempt may take effect and still be reported as failed.             *)
(*                                                                         *)
(* A row is a metric.  Its value is abstracted to how often each call has  *)
(* a part in it: every call for a counter, which sums deltas, only the     *)
(* last one for a gauge.  A row in which no call has a part does not exist.*)
(***************************************************************************)
EXTENDS Integers, Sequences, FiniteSets

CONSTANTS
    Calls,       \* calls of the storage, each on the goroutine of its request
    Counters,    \* rows of type counter
    Gauges,      \* rows of type gauge
    Workloads,   \* what the calls ask for, together
    MaxEffects   \* how often one call may take effect at most

Rows == Counters \cup Gauges

\* UpdateMetrics, UpdateGauge or UpdateCounter, GetGauge or GetCounter, Snapshot.
Operation == [kind : {"batch", "update", "get", "snapshot"}, rows : Seq(Rows)]

Value == [Calls -> Nat]
Zero  == [c \in Calls |-> 0]

NoRows == [r \in Rows |-> Zero]

VARIABLES
    op,       \* what each call asks for
    store,    \* the rows
    effects,  \* how often each call has taken effect
    outcome,  \* what each call has returned: "none" so far, "ok", "notFound" or "error"
    got       \* the rows each call has returned

vars == <<op, store, effects, outcome, got>>

Init ==
    /\ op \in Workloads
    /\ store = NoRows
    /\ effects = [c \in Calls |-> 0]
    /\ outcome = [c \in Calls |-> "none"]
    /\ got = [c \in Calls |-> NoRows]

IsUpdate(c) == op[c].kind \in {"batch", "update"}

\* How many metrics of the call's batch are in row r.
Occurrences(c, r) == Cardinality({i \in 1..Len(op[c].rows) : op[c].rows[i] = r})

\* The rows after call c: counters add, gauges are overwritten.
Updated(c) ==
    [r \in Rows |->
        IF Occurrences(c, r) = 0 THEN store[r]
        ELSE IF r \in Counters THEN [store[r] EXCEPT ![c] = @ + Occurrences(c, r)]
        ELSE [Zero EXCEPT ![c] = 1]]

\* Only the rows in R.
Only(rows, R) == [r \in Rows |-> IF r \in R THEN rows[r] ELSE Zero]

\* The rows an operation returns: UpdateCounter the new total, Get its row,
\* Snapshot all of them.
Returned(c, rows) ==
    CASE op[c].kind = "snapshot" -> rows
      [] op[c].kind = "get"      -> Only(rows, {op[c].rows[1]})
      [] op[c].kind = "update"   -> Only(rows, {op[c].rows[1]} \cap Counters)
      [] OTHER                   -> NoRows

\* An update takes effect; the caller learns of it, or gets an error, or the
\* call goes on.
TakeEffect(c) ==
    /\ outcome[c] = "none"
    /\ IsUpdate(c)
    /\ effects[c] < MaxEffects
    /\ store' = Updated(c)
    /\ effects' = [effects EXCEPT ![c] = @ + 1]
    /\ \/ outcome' = [outcome EXCEPT ![c] = "ok"] /\ got' = [got EXCEPT ![c] = Returned(c, store')]
       \/ outcome' = [outcome EXCEPT ![c] = "error"] /\ UNCHANGED got
       \/ UNCHANGED <<outcome, got>>
    /\ UNCHANGED op

Read(c) ==
    /\ outcome[c] = "none"
    /\ ~IsUpdate(c)
    /\ got' = [got EXCEPT ![c] = Returned(c, store)]
    /\ outcome' = [outcome EXCEPT
           ![c] = IF op[c].kind = "get" /\ got'[c] = NoRows THEN "notFound" ELSE "ok"]
    /\ UNCHANGED <<op, store, effects>>

Fail(c) ==
    /\ outcome[c] = "none"
    /\ outcome' = [outcome EXCEPT ![c] = "error"]
    /\ UNCHANGED <<op, store, effects, got>>

Next == \E c \in Calls : TakeEffect(c) \/ Read(c) \/ Fail(c)

Spec == Init /\ [][Next]_vars
=============================================================================
