-------------------------- MODULE PostgresStorage --------------------------
(***************************************************************************)
(* PostgresStorage: the update and read methods, each under                *)
(* retryDBOperation, against a PostgreSQL server at READ COMMITTED.        *)
(*                                                                         *)
(* Every call runs on the goroutine of its request; rows, values and       *)
(* operations are those of AtomicStore.  Of the server the model keeps     *)
(* what the code relies on: an upsert locks its row and waits for the      *)
(* transaction that holds it, a statement sees committed rows only, a      *)
(* cycle of waiting transactions is broken by failing one of them, and a   *)
(* connection may break before or after a statement has taken effect.      *)
(***************************************************************************)
EXTENDS Integers, Sequences, FiniteSets

CONSTANTS
    Calls, Counters, Gauges, Workloads,  \* see AtomicStore
    NoCall,                              \* owner of a free row
    Retries,                             \* len(retryDelays)
    MaxFaults                            \* bound: failures of the server or a connection

VARIABLES
    op,         \* what each call asks for
    table,      \* committed rows of the metrics table
    lock,       \* the transaction that has written a row and not ended
    version,    \* the uncommitted version of a locked row
    pc,         \* where a call is
    attempt,    \* the loop variable of retryDBOperation
    pos,        \* the next metric of the batch
    cancelled,  \* calls whose context is done: the client has gone
    outcome,    \* what a call has returned
    got,        \* the rows it has returned
    effects,    \* history: attempts that took effect
    doubt,      \* history: calls that met a failure after which the effect is unknown
    faults      \* history: failures so far

vars == <<op, table, lock, version, pc, attempt, pos, cancelled, outcome, got, effects, doubt, faults>>

\* The promise: the committed rows are the store.
Promise == INSTANCE AtomicStore WITH store <- table, MaxEffects <- Retries + 1

ASSUME CallsAssumption     == IsFiniteSet(Calls) /\ NoCall \notin Calls
ASSUME RowsAssumption      == Counters \cap Gauges = {}
ASSUME WorkloadsAssumption ==
    \A w \in Workloads : w \in [Calls -> Promise!Operation]
        /\ \A c \in Calls : w[c].kind \in {"update", "get"} => Len(w[c].rows) = 1
ASSUME PostgresAssumption  == Retries \in Nat /\ MaxFaults \in Nat

Rows   == Promise!Rows
Zero   == Promise!Zero
NoRows == Promise!NoRows

\* A PgError of class 08; a broken connection or another error of the driver;
\* any other PgError, of which the deadlock is one; ctx.Err().
Errors == {"connectionException", "connectionLost", "other", "canceled"}

TypeOK ==
    /\ op \in Workloads
    /\ table \in [Rows -> Promise!Value]
    /\ lock \in [Rows -> Calls \cup {NoCall}]
    /\ version \in [Rows -> Promise!Value]
    /\ pc \in [Calls -> {"loop", "begin", "statement", "wait", "done"}]
    /\ attempt \in [Calls -> 0..Retries]
    /\ pos \in [Calls -> Nat]
    /\ cancelled \subseteq Calls
    /\ outcome \in [Calls -> {"none", "ok", "notFound", "error"}]
    /\ got \in [Calls -> [Rows -> Promise!Value]]
    /\ effects \in [Calls -> 0..Retries + 1]
    /\ doubt \subseteq Calls
    /\ faults \in 0..MaxFaults

Init ==
    /\ op \in Workloads
    /\ table = NoRows
    /\ lock = [r \in Rows |-> NoCall]
    /\ version = NoRows
    /\ pc = [c \in Calls |-> "loop"]
    /\ attempt = [c \in Calls |-> 0]
    /\ pos = [c \in Calls |-> 1]
    /\ cancelled = {}
    /\ outcome = [c \in Calls |-> "none"]
    /\ got = [c \in Calls |-> NoRows]
    /\ effects = [c \in Calls |-> 0]
    /\ doubt = {}
    /\ faults = 0

IsBatch(c) == op[c].kind = "batch"
InBatch(c) == IsBatch(c) /\ pc[c] = "statement" /\ pos[c] <= Len(op[c].rows)
Commits(c) == IsBatch(c) /\ pc[c] = "statement" /\ pos[c] > Len(op[c].rows)
Single(c)  == op[c].kind = "update" /\ pc[c] = "statement"
Reads(c)   == op[c].kind \in {"get", "snapshot"} /\ pc[c] = "statement"

\* The row of the current statement.
Row(c) == op[c].rows[pos[c]]

-----------------------------------------------------------------------------
(* The server.                                                              *)

\* INSERT ... ON CONFLICT DO UPDATE: total = metrics.total + EXCLUDED.total, or
\* value = EXCLUDED.value.
Upsert(r, old, c) == IF r \in Counters THEN [old EXCEPT ![c] = @ + 1] ELSE [Zero EXCEPT ![c] = 1]

\* The row is free, or the call's own transaction has written it.
Available(c) == lock[Row(c)] \in {NoCall, c}

Waiting(c) == (InBatch(c) \/ Single(c)) /\ ~Available(c)

\* Every call of S waits for a call of S.
Deadlocked(S) == (\A c \in S : Waiting(c)) /\ {lock[Row(c)] : c \in S} = S

\* What c has written becomes visible.
Committed(c) == [r \in Rows |-> IF lock[r] = c THEN version[r] ELSE table[r]]

\* Mutant of EndTx: the deferred Rollback is missing, the transaction stays open.
EndTxOnCommitOnly(c) ==
    IF Commits(c)
    THEN /\ lock' = [r \in Rows |-> IF lock[r] = c THEN NoCall ELSE lock[r]]
         /\ version' = [r \in Rows |-> IF lock[r] = c THEN Zero ELSE version[r]]
    ELSE UNCHANGED <<lock, version>>

\* Commit, or the deferred Rollback: the transaction of c ends.
EndTx(c) ==
    /\ lock' = [r \in Rows |-> IF lock[r] = c THEN NoCall ELSE lock[r]]
    /\ version' = [r \in Rows |-> IF lock[r] = c THEN Zero ELSE version[r]]

-----------------------------------------------------------------------------
(* retryDBOperation.                                                        *)

Return(c, result) ==
    /\ pc' = [pc EXCEPT ![c] = "done"]
    /\ outcome' = [outcome EXCEPT ![c] = result]

\* ctx.Err() at the top of the loop, then op().
CheckContext(c) ==
    /\ pc[c] = "loop"
    /\ IF c \in cancelled
       THEN Return(c, "error")
       ELSE /\ pc' = [pc EXCEPT ![c] = IF IsBatch(c) THEN "begin" ELSE "statement"]
            /\ UNCHANGED outcome
    /\ pos' = [pos EXCEPT ![c] = 1]
    /\ UNCHANGED <<op, table, lock, version, attempt, cancelled, got, effects, doubt, faults>>

\* isRetriablePGError: errors.As PgError, and its code is of class 08.
Retriable(e) == e = "connectionException"

\* Mutant of LastAttempt: attempt <= len(retryDelays)+1.
OneAttemptTooMany(c) == attempt[c] = Retries + 1

LastAttempt(c) == attempt[c] = Retries

\* op() returned an error: the deferred Rollback has run.
AttemptFails(c, e) ==
    /\ EndTx(c)
    /\ IF ~Retriable(e) \/ LastAttempt(c)
       THEN Return(c, "error")
       ELSE pc' = [pc EXCEPT ![c] = "wait"] /\ UNCHANGED outcome

\* waitRetry: the timer.
RetryTimer(c) ==
    /\ pc[c] = "wait"
    /\ attempt' = [attempt EXCEPT ![c] = @ + 1]
    /\ pc' = [pc EXCEPT ![c] = "loop"]
    /\ UNCHANGED <<op, table, lock, version, pos, cancelled, outcome, got, effects, doubt, faults>>

\* waitRetry: ctx.Done().
WaitCancelled(c) ==
    /\ pc[c] = "wait"
    /\ c \in cancelled
    /\ Return(c, "error")
    /\ UNCHANGED <<op, table, lock, version, attempt, pos, cancelled, got, effects, doubt, faults>>

\* The client disconnects, or the server is stopped by force.
Cancel(c) ==
    /\ pc[c] # "done"
    /\ c \notin cancelled
    /\ cancelled' = cancelled \cup {c}
    /\ UNCHANGED <<op, table, lock, version, pc, attempt, pos, outcome, got, effects, doubt, faults>>

-----------------------------------------------------------------------------
(* The operations.  A statement that succeeds while the context ends is one *)
(* that succeeded just before.                                              *)

\* UpdateMetrics: BeginTx.
BeginTx(c) ==
    /\ pc[c] = "begin"
    /\ c \notin cancelled
    /\ pc' = [pc EXCEPT ![c] = "statement"]
    /\ UNCHANGED <<op, table, lock, version, attempt, pos, cancelled, outcome, got, effects, doubt, faults>>

\* Mutant of Exec: p.db.ExecContext in place of tx.ExecContext.
ExecOutsideTx(c) ==
    /\ InBatch(c) /\ Available(c)
    /\ c \notin cancelled
    /\ table' = [table EXCEPT ![Row(c)] = Upsert(Row(c), @, c)]
    /\ pos' = [pos EXCEPT ![c] = @ + 1]
    /\ UNCHANGED <<op, lock, version, pc, attempt, cancelled, outcome, got, effects, doubt, faults>>

\* UpdateMetrics: tx.ExecContext for one metric of the batch.
Exec(c) ==
    /\ InBatch(c) /\ Available(c)
    /\ c \notin cancelled
    /\ lock' = [lock EXCEPT ![Row(c)] = c]
    /\ version' = [version EXCEPT
           ![Row(c)] = Upsert(Row(c), IF lock[Row(c)] = c THEN @ ELSE table[Row(c)], c)]
    /\ pos' = [pos EXCEPT ![c] = @ + 1]
    /\ UNCHANGED <<op, table, pc, attempt, cancelled, outcome, got, effects, doubt, faults>>

\* The effect of the commit, or of a statement outside a transaction.
TakesEffect(c) ==
    /\ table' = IF IsBatch(c) THEN Committed(c)
                ELSE [table EXCEPT ![Row(c)] = Upsert(Row(c), @, c)]
    /\ effects' = [effects EXCEPT ![c] = @ + 1]

\* UpdateMetrics: tx.Commit.
Commit(c) ==
    /\ Commits(c)
    /\ c \notin cancelled
    /\ TakesEffect(c)
    /\ EndTx(c)
    /\ Return(c, "ok")
    /\ UNCHANGED <<op, attempt, pos, cancelled, got, doubt, faults>>

\* Mutant of Total: the total is read before the update.
TotalBefore(c) == Promise!Returned(c, table)

\* RETURNING total; a gauge returns nothing.
Total(c) == Promise!Returned(c, table')

\* UpdateGauge, UpdateCounter: one statement that commits by itself.
ExecSingle(c) ==
    /\ Single(c) /\ Available(c)
    /\ c \notin cancelled
    /\ TakesEffect(c)
    /\ got' = [got EXCEPT ![c] = Total(c)]
    /\ Return(c, "ok")
    /\ UNCHANGED <<op, lock, version, attempt, pos, cancelled, doubt, faults>>

\* GetGauge, GetCounter, Snapshot: one statement, and so one state of the
\* committed rows, however long the rows are read.
Query(c) ==
    /\ Reads(c)
    /\ c \notin cancelled
    /\ got' = [got EXCEPT ![c] = Promise!Returned(c, table)]
    /\ Return(c, IF op[c].kind = "get" /\ got'[c] = NoRows THEN "notFound" ELSE "ok")
    /\ UNCHANGED <<op, table, lock, version, attempt, pos, cancelled, effects, doubt, faults>>

\* After an error of the connection it is not known whether the commit, or the
\* statement that commits by itself, took effect.
MayTakeEffect(c) == Commits(c) \/ (Single(c) /\ Available(c))

ErrorWithEffect(c, e) ==
    /\ MayTakeEffect(c)
    /\ TakesEffect(c)
    /\ AttemptFails(c, e)
    /\ doubt' = doubt \cup {c}
    /\ UNCHANGED <<op, attempt, pos, cancelled, got>>

ErrorWithoutEffect(c, e) ==
    /\ pc[c] \in {"begin", "statement"}
    /\ AttemptFails(c, e)
    /\ UNCHANGED <<op, table, attempt, pos, cancelled, got, effects, doubt>>

\* Mutant of CommitFails: the error of tx.Commit is not checked.
CommitErrorIgnored(c) ==
    /\ Commits(c)
    /\ faults < MaxFaults
    /\ faults' = faults + 1
    /\ EndTx(c)
    /\ Return(c, "ok")
    /\ UNCHANGED <<op, table, attempt, pos, cancelled, got, effects, doubt>>

\* tx.Commit reports that the transaction was not committed.
CommitFails(c) ==
    /\ Commits(c)
    /\ faults < MaxFaults
    /\ faults' = faults + 1
    /\ ErrorWithoutEffect(c, "other")

\* The server or the connection fails during a statement.
StatementFails(c) ==
    /\ faults < MaxFaults
    /\ faults' = faults + 1
    /\ \E e \in {"connectionException", "connectionLost"} :
         ErrorWithEffect(c, e) \/ ErrorWithoutEffect(c, e)

\* ctx.Done() during a statement or before it: the driver gives up the
\* connection and database/sql rolls the transaction back.
Interrupted(c) ==
    /\ c \in cancelled
    /\ ErrorWithEffect(c, "canceled") \/ ErrorWithoutEffect(c, "canceled")
    /\ UNCHANGED faults

\* deadlock_detected, which is not of class 08.
DeadlockDetected(c) ==
    /\ \E S \in SUBSET Calls : c \in S /\ Deadlocked(S)
    /\ ErrorWithoutEffect(c, "other")
    /\ UNCHANGED faults

\* All calls have returned.
Quiet == (\A c \in Calls : pc[c] = "done") /\ UNCHANGED vars

-----------------------------------------------------------------------------
\* What goes on by itself: the goroutine, timers, a server that answers and
\* detects deadlocks.
Progress(c) ==
    \/ CheckContext(c) \/ BeginTx(c) \/ Exec(c) \/ Commit(c) \/ ExecSingle(c) \/ Query(c)
    \/ RetryTimer(c) \/ WaitCancelled(c) \/ Interrupted(c) \/ DeadlockDetected(c)

Next ==
    \/ \E c \in Calls : Cancel(c) \/ Progress(c) \/ StatementFails(c) \/ CommitFails(c)
    \/ Quiet

\* Neither the clients nor the failures are fair.
Spec == Init /\ [][Next]_vars /\ \A c \in Calls : WF_vars(Progress(c))

-----------------------------------------------------------------------------
(* Properties.                                                              *)

\* The totals UpdateCounter returns for one counter are a history of it: each
\* contains its own delta, and of any two one contains the other and is larger.
TotalsInOrder ==
    \A c, d \in Calls :
        /\ op[c].kind = "update" /\ op[d].kind = "update" /\ op[c].rows = op[d].rows
        /\ outcome[c] = "ok" /\ outcome[d] = "ok" /\ op[c].rows[1] \in Counters
        => LET total(x) == got[x][op[c].rows[1]]
           IN  /\ total(c)[c] > 0
               /\ c # d => total(c) # total(d)
               /\ (\A x \in Calls : total(c)[x] <= total(d)[x]) \/ (\A x \in Calls : total(d)[x] <= total(c)[x])

\* An update returns nil if and only if it has taken effect, and then once,
\* unless its connection failed after the effect (the retried class 08
\* included): neither rollback nor retry repeats or hides a commit.
EffectIffOk ==
    \A c \in Calls \ doubt : Promise!IsUpdate(c) /\ pc[c] = "done" =>
        effects[c] = IF outcome[c] = "ok" THEN 1 ELSE 0

\* Every call returns, also when two batches lock the same rows in opposite
\* order and when transactions fail while others wait for their rows.
EveryCallReturns == \A c \in Calls : (pc[c] = "loop") ~> (pc[c] = "done")

\* PostgresStorage keeps the promise of AtomicStore: each update takes effect as
\* a whole, at one moment, adding to what every earlier one left, and snapshots
\* see no half of a batch.
ImplementsAtomicStore == Promise!Spec
=============================================================================
