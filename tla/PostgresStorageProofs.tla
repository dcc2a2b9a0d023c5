------------------------ MODULE PostgresStorageProofs ------------------------
(***************************************************************************)
(* Proofs about PostgresStorage, for any calls, rows and workloads, any    *)
(* number of retries and any bound on failures.                            *)
(***************************************************************************)
EXTENDS PostgresStorage, FiniteSetTheorems, TLAPS

-----------------------------------------------------------------------------
(* The inductive invariant, in parts.                                       *)

\* Where a call is determines what it has returned, how far its batch is and
\* how many of its attempts can have taken effect.
Control(c) ==
    /\ pc[c] = "done" <=> outcome[c] # "none"
    /\ outcome[c] = "none" => got[c] = NoRows
    /\ pos[c] \in 1..Len(op[c].rows) + 1
    /\ ~IsBatch(c) => pos[c] = 1
    /\ pc[c] = "begin" => IsBatch(c) /\ pos[c] = 1
    /\ pc[c] = "wait" => attempt[c] < Retries
    /\ effects[c] <= IF pc[c] \in {"wait", "done"} THEN attempt[c] + 1 ELSE attempt[c]
    /\ c \notin doubt => effects[c] = IF Promise!IsUpdate(c) /\ outcome[c] = "ok" THEN 1 ELSE 0

\* The first n metrics of the batch of c have been applied to row r.
InPrefix(c, r, n) == \E i \in 1..n : op[c].rows[i] = r
Prefix(c, r, n)   == Cardinality({i \in 1..n : op[c].rows[i] = r})

Partial(c, r, n) ==
    IF r \in Counters THEN [table[r] EXCEPT ![c] = @ + Prefix(c, r, n)] ELSE [Zero EXCEPT ![c] = 1]

\* A call owns the rows its open transaction has written, and no others; the
\* uncommitted version of each is the committed row, which nobody else can have
\* changed since, with the prefix of the batch on top.
Owns(c) ==
    \A r \in Rows :
        /\ lock[r] = c <=> IsBatch(c) /\ pc[c] = "statement" /\ InPrefix(c, r, pos[c] - 1)
        /\ lock[r] = c => version[r] = Partial(c, r, pos[c] - 1)

\* UpdateCounter has returned a total of row r.
Totalled(c, r) == op[c].kind = "update" /\ op[c].rows[1] = r /\ outcome[c] = "ok"

\* A total that was returned contains its own delta, and everything in it is in
\* the row for good.
TotalsKept ==
    \A c \in Calls, r \in Counters : Totalled(c, r) =>
        got[c][r][c] > 0 /\ \A x \in Calls : got[c][r][x] <= table[r][x]

TotalsOrdered ==
    \A c, d \in Calls, r \in Counters : Totalled(c, r) /\ Totalled(d, r) =>
        /\ c # d => got[c][r] # got[d][r]
        /\ (\A x \in Calls : got[c][r][x] <= got[d][r][x]) \/ (\A x \in Calls : got[d][r][x] <= got[c][r][x])

IInv ==
    /\ TypeOK
    /\ \A c \in Calls : Control(c) /\ Owns(c)
    /\ TotalsKept /\ TotalsOrdered

-----------------------------------------------------------------------------
(* The operators.                                                           *)

LEMMA RowsType == Rows = Counters \cup Gauges
  BY DEF Rows, Promise!Rows

LEMMA ZeroType == Zero \in Promise!Value /\ NoRows \in [Rows -> Promise!Value]
  BY DEF Zero, NoRows, Rows, Promise!Zero, Promise!NoRows, Promise!Value

\* What the workloads say of one call.
LEMMA OpType ==
  ASSUME TypeOK, NEW c \in Calls
  PROVE  /\ op[c].kind \in {"batch", "update", "get", "snapshot"}
         /\ op[c].rows \in Seq(Rows)
         /\ op[c].kind \in {"update", "get"} => Len(op[c].rows) = 1 /\ op[c].rows[1] \in Rows
<1>1. op[c] \in Promise!Operation /\ (op[c].kind \in {"update", "get"} => Len(op[c].rows) = 1)
  BY WorkloadsAssumption DEF TypeOK
<1>2. op[c].kind \in {"batch", "update", "get", "snapshot"} /\ op[c].rows \in Seq(Rows)
  BY <1>1 DEF Promise!Operation, Rows
<1> QED BY <1>1, <1>2

LEMMA UpsertType ==
  ASSUME NEW r \in Rows, NEW old \in Promise!Value, NEW c \in Calls
  PROVE  /\ Upsert(r, old, c) \in Promise!Value
         /\ Upsert(r, old, c)[c] > 0
         /\ r \in Counters => /\ Upsert(r, old, c)[c] = old[c] + 1
                              /\ \A x \in Calls : old[x] <= Upsert(r, old, c)[x]
  BY ZeroType DEF Upsert, Promise!Value

\* One more metric of the batch.
LEMMA PrefixStep ==
  ASSUME NEW c, NEW r, NEW n \in Nat
  PROVE  /\ Prefix(c, r, n) \in Nat
         /\ Prefix(c, r, n) = 0 <=> ~InPrefix(c, r, n)
         /\ Prefix(c, r, n + 1) = Prefix(c, r, n) + (IF op[c].rows[n + 1] = r THEN 1 ELSE 0)
         /\ InPrefix(c, r, n + 1) <=> InPrefix(c, r, n) \/ op[c].rows[n + 1] = r
<1> DEFINE S(m) == {i \in 1..m : op[c].rows[i] = r}
<1>1. ASSUME NEW m \in Nat PROVE IsFiniteSet(S(m))
  <2>1. IsFiniteSet(1..m) /\ S(m) \subseteq 1..m
    BY FS_Interval
  <2> QED BY <2>1, FS_Subset
<1>2. Prefix(c, r, n) \in Nat /\ (Prefix(c, r, n) = 0 <=> S(n) = {})
  BY <1>1, FS_CardinalityType, FS_EmptySet DEF Prefix
<1>3. S(n) = {} <=> ~InPrefix(c, r, n)
  BY DEF InPrefix
<1>4. CASE op[c].rows[n + 1] = r
  <2>1. S(n + 1) = S(n) \cup {n + 1} /\ n + 1 \notin S(n)
    BY <1>4
  <2>2. Cardinality(S(n + 1)) = Cardinality(S(n)) + 1
    BY <2>1, <1>1, FS_AddElement
  <2>3. InPrefix(c, r, n + 1)
    BY <1>4 DEF InPrefix
  <2> QED BY <1>2, <1>3, <1>4, <2>2, <2>3 DEF Prefix
<1>5. CASE op[c].rows[n + 1] # r
  <2>1. S(n + 1) = S(n)
    BY <1>5
  <2>2. InPrefix(c, r, n + 1) <=> InPrefix(c, r, n)
    BY <1>5 DEF InPrefix
  <2> QED BY <1>2, <1>3, <1>5, <2>1, <2>2 DEF Prefix
<1> QED BY <1>4, <1>5

\* The whole batch: the prefix is what AtomicStore counts.
LEMMA WholePrefix ==
  ASSUME NEW c, NEW r
  PROVE  Promise!Occurrences(c, r) = Prefix(c, r, Len(op[c].rows))
  BY DEF Promise!Occurrences, Prefix, Promise!Cardinality, Cardinality

\* Rows, their owners and versions after an attempt has taken effect: the
\* commit of a batch and a single statement both add the whole call, once, to
\* what is committed.
LEMMA EffectIsUpdate ==
  ASSUME IInv, NEW c \in Calls, MayTakeEffect(c), TakesEffect(c)
  PROVE  table' = Promise!Updated(c)
<1>1. CASE IsBatch(c)
  <2>1. pc[c] = "statement" /\ pos[c] - 1 = Len(op[c].rows)
    BY <1>1, OpType DEF IInv, Control, MayTakeEffect, Commits, Single, IsBatch
  <2>2. ASSUME NEW r \in Rows
        PROVE  Committed(c)[r] = Promise!Updated(c)[r]
    <3>1. Promise!Occurrences(c, r) = Prefix(c, r, Len(op[c].rows))
      BY WholePrefix
    <3>2. Promise!Occurrences(c, r) = 0 <=> lock[r] # c
      <4>1. lock[r] = c <=> InPrefix(c, r, pos[c] - 1)
        BY <1>1, <2>1 DEF IInv, Owns
      <4>2. lock[r] = c <=> InPrefix(c, r, Len(op[c].rows))
        BY <4>1, <2>1, Zenon
      <4>3. Len(op[c].rows) \in Nat
        BY OpType DEF IInv
      <4>4. Prefix(c, r, Len(op[c].rows)) = 0 <=> ~InPrefix(c, r, Len(op[c].rows))
        BY <4>3, PrefixStep, Zenon
      <4> QED BY <3>1, <4>2, <4>4, Zenon
    <3>3. lock[r] = c => version[r] = Partial(c, r, Len(op[c].rows))
      BY <2>1 DEF IInv, Owns
    <3> QED BY <3>1, <3>2, <3>3, RowsType DEF Committed, Promise!Updated, Partial, Zero, Promise!Rows
  <2> QED BY <1>1, <2>2 DEF TakesEffect, Committed, Promise!Updated, Rows
<1>2. CASE ~IsBatch(c)
  <2>1. op[c].kind = "update" /\ pos[c] = 1 /\ Len(op[c].rows) = 1 /\ Row(c) = op[c].rows[1] /\ Row(c) \in Rows
    BY <1>2, OpType DEF IInv, Control, MayTakeEffect, Commits, Single, Row
  <2>2. ASSUME NEW r \in Rows
        PROVE  Promise!Occurrences(c, r) = IF r = Row(c) THEN 1 ELSE 0
    <3>1. Promise!Occurrences(c, r) = Prefix(c, r, 0 + 1)
      <4>1. Len(op[c].rows) = 0 + 1
        BY <2>1
      <4> QED BY <4>1, WholePrefix, Zenon
    <3>2. Prefix(c, r, 0 + 1) = Prefix(c, r, 0) + (IF op[c].rows[0 + 1] = r THEN 1 ELSE 0)
      BY PrefixStep
    <3>3. Prefix(c, r, 0) = 0
      BY PrefixStep DEF InPrefix
    <3> QED BY <2>1, <3>1, <3>2, <3>3
  <2>3. table' = [table EXCEPT ![Row(c)] = Upsert(Row(c), @, c)] /\ table \in [Rows -> Promise!Value]
    BY <1>2 DEF TakesEffect, IInv, TypeOK
  <2>4. ASSUME NEW r \in Rows
        PROVE  table'[r] = Promise!Updated(c)[r]
    <3>1. CASE r = Row(c)
      BY <3>1, <2>1, <2>2, <2>3 DEF Promise!Updated, Upsert, Zero, Rows
    <3>2. CASE r # Row(c)
      BY <3>2, <2>1, <2>2, <2>3 DEF Promise!Updated, Rows
    <3> QED BY <3>1, <3>2
  <2> QED BY <2>3, <2>4 DEF Promise!Updated, Rows
<1> QED BY <1>1, <1>2

\* The rows after an update: types are kept and counters only grow.
LEMMA UpdatedGrows ==
  ASSUME IInv, NEW c \in Calls
  PROVE  /\ Promise!Updated(c) \in [Rows -> Promise!Value]
         /\ \A r \in Counters, x \in Calls : table[r][x] <= Promise!Updated(c)[r][x]
<1>1. ASSUME NEW r \in Rows
      PROVE  Promise!Occurrences(c, r) \in Nat
  BY WholePrefix, PrefixStep, OpType DEF IInv
<1>2. ASSUME NEW r \in Rows
      PROVE  /\ Promise!Updated(c)[r] \in Promise!Value
             /\ r \in Counters => \A x \in Calls : table[r][x] <= Promise!Updated(c)[r][x]
  <2>1. table[r] \in [Calls -> Nat]
    BY DEF IInv, TypeOK, Promise!Value
  <2> QED BY <1>1, <2>1 DEF Promise!Updated, Promise!Value, Promise!Zero, Rows
<1> QED BY <1>2, RowsType DEF Promise!Updated, Rows

-----------------------------------------------------------------------------
(* A step of one call, seen from the others.                                *)

\* Nothing of another call changes.
OthersKeep(c) ==
    /\ op' = op
    /\ \A d \in Calls \ {c} :
         /\ pc'[d] = pc[d] /\ attempt'[d] = attempt[d] /\ pos'[d] = pos[d] /\ outcome'[d] = outcome[d]
         /\ got'[d] = got[d] /\ effects'[d] = effects[d] /\ (d \in doubt' <=> d \in doubt)

\* Nor do the rows they own.
OthersRowsKeep(c) ==
    \A d \in Calls \ {c}, r \in Rows :
        /\ lock'[r] = d <=> lock[r] = d
        /\ lock[r] = d => version'[r] = version[r] /\ table'[r] = table[r]

LEMMA OwnsKept ==
  ASSUME NEW d \in Calls, Owns(d), op' = op, pc'[d] = pc[d], pos'[d] = pos[d],
         \A r \in Rows : /\ lock'[r] = d <=> lock[r] = d
                         /\ lock[r] = d => version'[r] = version[r] /\ table'[r] = table[r]
  PROVE  Owns(d)'
<1>1. ASSUME NEW r \in Rows
      PROVE  /\ lock'[r] = d <=> (IsBatch(d) /\ pc[d] = "statement" /\ InPrefix(d, r, pos[d] - 1))'
             /\ lock'[r] = d => version'[r] = Partial(d, r, pos[d] - 1)'
  <2>1. /\ lock[r] = d <=> IsBatch(d) /\ pc[d] = "statement" /\ InPrefix(d, r, pos[d] - 1)
        /\ lock[r] = d => version[r] = Partial(d, r, pos[d] - 1)
    BY DEF Owns
  <2>2. (IsBatch(d) /\ pc[d] = "statement" /\ InPrefix(d, r, pos[d] - 1))'
          <=> IsBatch(d) /\ pc[d] = "statement" /\ InPrefix(d, r, pos[d] - 1)
    BY DEF IsBatch, InPrefix
  <2>3. ASSUME lock[r] = d PROVE Partial(d, r, pos[d] - 1)' = Partial(d, r, pos[d] - 1)
    BY <2>3 DEF Partial, Prefix
  <2> QED BY <2>1, <2>2, <2>3
<1> QED BY <1>1 DEF Owns

LEMMA OthersInv ==
  ASSUME IInv, NEW c \in Calls, OthersKeep(c), OthersRowsKeep(c)
  PROVE  \A d \in Calls \ {c} : Control(d)' /\ Owns(d)'
<1> SUFFICES ASSUME NEW d \in Calls \ {c} PROVE Control(d)' /\ Owns(d)'
  OBVIOUS
<1> USE DEF OthersKeep, OthersRowsKeep
<1>1. Control(d)'
  BY DEF IInv, Control, IsBatch, Promise!IsUpdate, NoRows, Promise!NoRows
<1>2. Owns(d)'
  BY OwnsKept DEF IInv
<1> QED BY <1>1, <1>2

\* Totals stay in order when counters only grow and no new total is returned.
LEMMA TotalsInv ==
  ASSUME IInv, NEW c \in Calls, OthersKeep(c),
         \A r \in Counters, x \in Calls : table[r][x] <= table'[r][x],
         table' \in [Rows -> Promise!Value],
         op[c].kind = "update" => got'[c] = got[c] /\ (outcome'[c] = "ok" => outcome[c] = "ok")
  PROVE  TotalsKept' /\ TotalsOrdered'
<1>1. ASSUME NEW d \in Calls, NEW r \in Counters, Totalled(d, r)'
      PROVE  Totalled(d, r) /\ got'[d] = got[d]
  BY <1>1 DEF Totalled, OthersKeep
<1>2. ASSUME NEW d \in Calls, NEW r \in Counters, NEW x \in Calls
      PROVE  got[d][r][x] \in Nat /\ table[r][x] \in Nat /\ table'[r][x] \in Nat
  BY RowsType DEF IInv, TypeOK, Promise!Value
<1>3. TotalsKept'
  <2> SUFFICES ASSUME NEW d \in Calls, NEW r \in Counters, Totalled(d, r)'
               PROVE  got'[d][r][d] > 0 /\ \A x \in Calls : got'[d][r][x] <= table'[r][x]
    BY DEF TotalsKept
  <2>1. got[d][r][d] > 0 /\ \A x \in Calls : got[d][r][x] <= table[r][x]
    BY <1>1 DEF IInv, TotalsKept
  <2> QED BY <1>1, <1>2, <2>1
<1>4. TotalsOrdered'
  BY <1>1 DEF IInv, TotalsOrdered
<1> QED BY <1>3, <1>4

-----------------------------------------------------------------------------
(* The invariant is inductive.                                              *)

LEMMA InitInv == Init => IInv
<1> SUFFICES ASSUME Init PROVE IInv
  OBVIOUS
<1>1. TypeOK
  BY PostgresAssumption, ZeroType DEF Init, TypeOK
<1>2. ASSUME NEW c \in Calls PROVE Control(c)
  <2>1. Len(op[c].rows) \in Nat
    BY <1>1, OpType
  <2> QED BY <2>1, PostgresAssumption DEF Init, Control
<1>3. ASSUME NEW c \in Calls PROVE Owns(c)
  BY CallsAssumption DEF Init, Owns
<1>4. TotalsKept /\ TotalsOrdered
  BY DEF Init, TotalsKept, TotalsOrdered, Totalled
<1> QED BY <1>1, <1>2, <1>3, <1>4 DEF IInv

LEMMA CancelPreserves ==
  ASSUME IInv, UNCHANGED vars \/ \E c \in Calls : Cancel(c)
  PROVE  IInv'
<1>1. /\ UNCHANGED <<op, table, lock, version, pc, attempt, pos, outcome, got, effects, doubt, faults>>
      /\ cancelled' \subseteq Calls
  BY DEF vars, Cancel, IInv, TypeOK
<1>2. TypeOK'
  BY <1>1 DEF IInv, TypeOK
<1>3. ASSUME NEW c \in Calls PROVE Control(c)' /\ Owns(c)'
  <2>1. Control(c)'
    BY <1>1 DEF IInv, Control, IsBatch, Promise!IsUpdate, NoRows, Promise!NoRows
  <2>2. Owns(c)'
    BY <1>1, OwnsKept DEF IInv
  <2> QED BY <2>1, <2>2
<1>4. TotalsKept' /\ TotalsOrdered'
  BY <1>1 DEF IInv, TotalsKept, TotalsOrdered, Totalled
<1> QED BY <1>2, <1>3, <1>4 DEF IInv

\* Steps that leave rows, owners and effects alone.
LEMMA ControlPreserves ==
  ASSUME IInv, NEW c \in Calls,
         CheckContext(c) \/ RetryTimer(c) \/ WaitCancelled(c) \/ BeginTx(c)
  PROVE  IInv'
<1> USE DEF CheckContext, RetryTimer, WaitCancelled, BeginTx, Return
<1>1. TypeOK'
  <2>1. pos' \in [Calls -> Nat]
    BY DEF IInv, TypeOK
  <2>2. attempt' \in [Calls -> 0..Retries]
    <3>1. pc[c] = "wait" => attempt[c] + 1 \in 0..Retries
      BY PostgresAssumption DEF IInv, TypeOK, Control
    <3> QED BY <3>1 DEF IInv, TypeOK
  <2>3. /\ pc' \in [Calls -> {"loop", "begin", "statement", "wait", "done"}]
        /\ outcome' \in [Calls -> {"none", "ok", "notFound", "error"}]
    BY DEF IInv, TypeOK
  <2> QED BY <2>1, <2>2, <2>3 DEF IInv, TypeOK
<1>2. OthersKeep(c) /\ OthersRowsKeep(c) /\ UNCHANGED <<op, table, lock, version, got, effects, doubt>>
  BY DEF OthersKeep, OthersRowsKeep, IInv, TypeOK
<1>3. Control(c)'
  <2>1. Len(op[c].rows) \in Nat /\ attempt[c] \in 0..Retries /\ effects[c] \in 0..Retries+1
    BY OpType DEF IInv, TypeOK
  <2>2. Control(c)
    BY DEF IInv
  <2> QED BY <1>2, <2>1, <2>2, PostgresAssumption DEF IInv, TypeOK, Control, IsBatch, Promise!IsUpdate, NoRows, Promise!NoRows
<1>4. Owns(c)'
  <2>1. ASSUME NEW r \in Rows PROVE lock[r] # c
    BY DEF IInv, Owns, Control, InPrefix
  <2>2. pc'[c] = "statement" /\ IsBatch(c) => pos'[c] = 1
    BY DEF IInv, TypeOK, Control, IsBatch
  <2> QED BY <1>2, <2>1, <2>2 DEF Owns, InPrefix, IsBatch
<1>5. TotalsKept' /\ TotalsOrdered'
  <2>1. /\ \A r \in Counters, x \in Calls : table[r][x] <= table'[r][x]
        /\ table' \in [Rows -> Promise!Value]
    BY <1>2, RowsType DEF IInv, TypeOK, Promise!Value
  <2>2. outcome'[c] = "ok" => outcome[c] = "ok"
    BY DEF IInv, TypeOK
  <2> QED BY <1>2, <2>1, <2>2, TotalsInv
<1> QED BY <1>1, <1>2, <1>3, <1>4, <1>5, OthersInv DEF IInv

\* A metric of the batch is written under the row's lock.
LEMMA ExecPreserves ==
  ASSUME IInv, NEW c \in Calls, Exec(c)
  PROVE  IInv'
<1> DEFINE k == pos[c] - 1
<1>1. /\ IsBatch(c) /\ pc[c] = "statement" /\ pos[c] \in 1..Len(op[c].rows)
      /\ Row(c) \in Rows /\ k \in Nat /\ pos[c] = k + 1
  <2>1. IsBatch(c) /\ pc[c] = "statement" /\ pos[c] \in Nat /\ pos[c] >= 1 /\ pos[c] <= Len(op[c].rows)
    BY DEF IInv, TypeOK, Control, Exec, InBatch
  <2>2. op[c].rows \in Seq(Rows)
    BY OpType DEF IInv
  <2> QED BY <2>1, <2>2 DEF Row
<1>k. k \in Nat
  BY <1>1
<1> HIDE DEF k
<1>2. /\ UNCHANGED <<op, table, pc, attempt, cancelled, outcome, got, effects, doubt, faults>>
      /\ pos' = [pos EXCEPT ![c] = @ + 1]
      /\ lock' = [lock EXCEPT ![Row(c)] = c]
      /\ version' = [version EXCEPT
           ![Row(c)] = Upsert(Row(c), IF lock[Row(c)] = c THEN @ ELSE table[Row(c)], c)]
      /\ lock[Row(c)] \in {NoCall, c}
  BY DEF Exec, Available
<1>3. TypeOK'
  <2>1. Upsert(Row(c), IF lock[Row(c)] = c THEN version[Row(c)] ELSE table[Row(c)], c) \in Promise!Value
    BY <1>1, UpsertType DEF IInv, TypeOK
  <2>2. version' \in [Rows -> Promise!Value]
    BY <1>1, <1>2, <2>1 DEF IInv, TypeOK
  <2> QED BY <1>1, <1>2, <2>2 DEF IInv, TypeOK
<1>4. OthersKeep(c) /\ OthersRowsKeep(c)
  BY <1>1, <1>2, CallsAssumption DEF IInv, TypeOK, OthersKeep, OthersRowsKeep
<1>5. Control(c)'
  <2>1. Len(op[c].rows) \in Nat /\ pos'[c] = pos[c] + 1
    BY <1>2, OpType DEF IInv, TypeOK
  <2> QED BY <1>1, <1>2, <2>1 DEF IInv, Control, IsBatch, Promise!IsUpdate, NoRows, Promise!NoRows
<1>6. Owns(c)'
  <2>1. pos'[c] - 1 = k + 1
    BY <1>1, <1>2 DEF IInv, TypeOK
  <2>2. op[c].rows[k + 1] = Row(c)
    BY <1>1 DEF Row
  <2>3. ASSUME NEW r \in Rows
        PROVE  lock'[r] = c <=> InPrefix(c, r, k + 1)
    <3>1. lock[r] = c <=> InPrefix(c, r, k)
      BY <1>1 DEF IInv, Owns, k
    <3>2. InPrefix(c, r, k + 1) <=> InPrefix(c, r, k) \/ op[c].rows[k + 1] = r
      BY <1>k, PrefixStep
    <3> QED BY <1>2, <2>2, <3>1, <3>2 DEF IInv, TypeOK
  <2>4. ASSUME NEW r \in Rows, lock'[r] = c
        PROVE  version'[r] = Partial(c, r, k + 1)
    <3>1. /\ Prefix(c, r, k) \in Nat
          /\ Prefix(c, r, k + 1) = Prefix(c, r, k) + (IF op[c].rows[k + 1] = r THEN 1 ELSE 0)
          /\ Prefix(c, r, k) = 0 <=> ~InPrefix(c, r, k)
      BY <1>k, PrefixStep
    <3>2. /\ lock[r] = c <=> InPrefix(c, r, k)
          /\ lock[r] = c => version[r] = Partial(c, r, k)
      BY <1>1 DEF IInv, Owns, k
    <3>3. table[r] \in [Calls -> Nat] /\ version[r] \in [Calls -> Nat]
      BY DEF IInv, TypeOK, Promise!Value
    <3>4. CASE r = Row(c)
      <4>1. version'[r] = Upsert(r, IF lock[r] = c THEN version[r] ELSE table[r], c)
        BY <1>1, <1>2, <3>4 DEF IInv, TypeOK
      <4>2. CASE lock[r] = c
        BY <2>2, <3>1, <3>2, <3>3, <3>4, <4>1, <4>2 DEF Upsert, Partial
      <4>3. CASE lock[r] # c
        BY <2>2, <3>1, <3>2, <3>3, <3>4, <4>1, <4>3 DEF Upsert, Partial
      <4> QED BY <4>2, <4>3
    <3>5. CASE r # Row(c)
      <4>1. version'[r] = version[r] /\ lock[r] = c
        BY <1>2, <2>4, <3>5 DEF IInv, TypeOK
      <4> QED BY <2>2, <3>1, <3>2, <3>5, <4>1 DEF Partial
    <3> QED BY <3>4, <3>5
  <2>5. ASSUME NEW r \in Rows
        PROVE  /\ Partial(c, r, pos[c] - 1)' = Partial(c, r, k + 1)
               /\ InPrefix(c, r, pos[c] - 1)' <=> InPrefix(c, r, k + 1)
    <3>1. Prefix(c, r, pos[c] - 1)' = Prefix(c, r, k + 1)
      BY <1>2, <2>1, Zenon DEF Prefix
    <3>2. InPrefix(c, r, pos[c] - 1)' <=> InPrefix(c, r, k + 1)
      BY <1>2, <2>1, Zenon DEF InPrefix
    <3> QED BY <1>2, <3>1, <3>2 DEF Partial
  <2>6. IsBatch(c)' /\ pc'[c] = "statement"
    BY <1>1, <1>2 DEF IsBatch
  <2> QED BY <2>3, <2>4, <2>5, <2>6 DEF Owns
<1>7. TotalsKept' /\ TotalsOrdered'
  <2>1. /\ \A r \in Counters, x \in Calls : table[r][x] <= table'[r][x]
        /\ table' \in [Rows -> Promise!Value]
    BY <1>2, RowsType DEF IInv, TypeOK, Promise!Value
  <2> QED BY <1>2, <1>4, <2>1, TotalsInv
<1> QED BY <1>3, <1>4, <1>5, <1>6, <1>7, OthersInv DEF IInv

\* The end of a transaction, or of a statement outside one: c owns no row, and
\* the rows of the others are as they were.
LEMMA EndRows ==
  ASSUME IInv, NEW c \in Calls,
         EndTx(c) \/ (Single(c) /\ UNCHANGED <<lock, version>>),
         UNCHANGED table \/ (MayTakeEffect(c) /\ TakesEffect(c))
  PROVE  /\ lock' \in [Rows -> Calls \cup {NoCall}] /\ version' \in [Rows -> Promise!Value]
         /\ table' \in [Rows -> Promise!Value]
         /\ \A r \in Counters, x \in Calls : table[r][x] <= table'[r][x]
         /\ \A r \in Rows : lock'[r] # c
         /\ OthersRowsKeep(c)
<1>1. lock' \in [Rows -> Calls \cup {NoCall}] /\ version' \in [Rows -> Promise!Value]
  BY ZeroType DEF EndTx, IInv, TypeOK
<1>2. /\ table' \in [Rows -> Promise!Value]
      /\ \A r \in Counters, x \in Calls : table[r][x] <= table'[r][x]
  <2>1. CASE UNCHANGED table
    BY <2>1, RowsType DEF IInv, TypeOK, Promise!Value
  <2>2. CASE MayTakeEffect(c) /\ TakesEffect(c)
    BY <2>2, EffectIsUpdate, UpdatedGrows
  <2> QED BY <2>1, <2>2
<1>3. ASSUME NEW r \in Rows PROVE lock'[r] # c
  <2>1. CASE EndTx(c)
    BY <2>1, CallsAssumption DEF EndTx
  <2>2. CASE Single(c) /\ UNCHANGED lock
    BY <2>2 DEF Single, IInv, Owns, IsBatch
  <2> QED BY <2>1, <2>2
<1>4. ASSUME NEW d \in Calls \ {c}, NEW r \in Rows
      PROVE  /\ lock'[r] = d <=> lock[r] = d
             /\ lock[r] = d => version'[r] = version[r] /\ table'[r] = table[r]
  <2>1. lock'[r] = d <=> lock[r] = d
    BY CallsAssumption DEF EndTx
  <2>2. ASSUME lock[r] = d PROVE version'[r] = version[r]
    BY <2>2 DEF EndTx
  <2>3. ASSUME lock[r] = d, MayTakeEffect(c), TakesEffect(c) PROVE table'[r] = table[r]
    <3>1. CASE IsBatch(c)
      BY <2>3, <3>1 DEF TakesEffect, Committed
    <3>2. CASE ~IsBatch(c)
      <4>1. r # Row(c)
        BY <2>3, <3>2, CallsAssumption DEF MayTakeEffect, Commits, Available
      <4> QED BY <2>3, <3>2, <4>1 DEF TakesEffect, IInv, TypeOK
    <3> QED BY <3>1, <3>2
  <2> QED BY <2>1, <2>2, <2>3
<1> QED BY <1>1, <1>2, <1>3, <1>4 DEF OthersRowsKeep

\* A call that has ended its attempt without a total keeps the invariant.
LEMMA EndPreserves ==
  ASSUME IInv, NEW c \in Calls, OthersKeep(c), TypeOK', Control(c)',
         EndTx(c) \/ (Single(c) /\ UNCHANGED <<lock, version>>),
         UNCHANGED table \/ (MayTakeEffect(c) /\ TakesEffect(c)),
         pc'[c] # "statement",
         op[c].kind = "update" => got'[c] = got[c] /\ (outcome'[c] = "ok" => outcome[c] = "ok")
  PROVE  IInv'
<1>1. OthersRowsKeep(c) /\ \A r \in Rows : lock'[r] # c
  BY EndRows
<1>2. Owns(c)'
  BY <1>1 DEF Owns
<1>3. TotalsKept' /\ TotalsOrdered'
  BY EndRows, TotalsInv
<1> QED BY <1>1, <1>2, <1>3, OthersInv DEF IInv

LEMMA CommitPreserves ==
  ASSUME IInv, NEW c \in Calls, Commit(c)
  PROVE  IInv'
<1>1. /\ IsBatch(c) /\ pc[c] = "statement" /\ MayTakeEffect(c) /\ TakesEffect(c) /\ EndTx(c)
      /\ pc' = [pc EXCEPT ![c] = "done"] /\ outcome' = [outcome EXCEPT ![c] = "ok"]
      /\ effects' = [effects EXCEPT ![c] = @ + 1]
      /\ UNCHANGED <<op, attempt, pos, cancelled, got, doubt, faults>>
  BY DEF Commit, Commits, MayTakeEffect, TakesEffect, Return
<1>2. effects[c] <= attempt[c] /\ (c \notin doubt => effects[c] = 0) /\ attempt[c] \in 0..Retries
  BY <1>1 DEF IInv, TypeOK, Control
<1>3. TypeOK'
  <2>1. effects[c] + 1 \in 0..Retries + 1
    BY <1>2, PostgresAssumption DEF IInv, TypeOK
  <2> QED BY <1>1, <2>1, EndRows DEF IInv, TypeOK
<1>4. OthersKeep(c)
  BY <1>1 DEF OthersKeep, IInv, TypeOK
<1>5. Control(c)'
  <2>1. Len(op[c].rows) \in Nat /\ pc'[c] = "done" /\ outcome'[c] = "ok" /\ effects'[c] = effects[c] + 1
    BY <1>1, OpType DEF IInv, TypeOK
  <2>2. Control(c) /\ Promise!IsUpdate(c)
    BY <1>1 DEF IInv, IsBatch, Promise!IsUpdate
  <2> QED BY <1>1, <1>2, <2>1, <2>2 DEF IInv, TypeOK, Control, IsBatch, Promise!IsUpdate
<1>6. op[c].kind # "update" /\ pc'[c] # "statement"
  BY <1>1 DEF IsBatch, IInv, TypeOK
<1> QED BY <1>1, <1>3, <1>4, <1>5, <1>6, EndPreserves

\* An attempt that fails, with or without effect, after which retryDBOperation
\* returns or waits.
LEMMA FailPreserves ==
  ASSUME IInv, NEW c \in Calls, NEW e, faults' \in 0..MaxFaults,
         ErrorWithEffect(c, e) \/ ErrorWithoutEffect(c, e)
  PROVE  IInv'
<1>1. /\ EndTx(c) /\ UNCHANGED <<op, attempt, pos, cancelled, got>>
      /\ \/ pc' = [pc EXCEPT ![c] = "done"] /\ outcome' = [outcome EXCEPT ![c] = "error"]
         \/ attempt[c] # Retries /\ pc' = [pc EXCEPT ![c] = "wait"] /\ UNCHANGED outcome
  BY DEF ErrorWithEffect, ErrorWithoutEffect, AttemptFails, Return, LastAttempt
<1>2. \/ UNCHANGED <<table, effects, doubt>>
      \/ /\ MayTakeEffect(c) /\ TakesEffect(c)
         /\ effects' = [effects EXCEPT ![c] = @ + 1] /\ doubt' = doubt \cup {c}
  BY DEF ErrorWithEffect, ErrorWithoutEffect, TakesEffect
<1>3. pc[c] \in {"begin", "statement"} /\ effects[c] <= attempt[c] /\ attempt[c] \in 0..Retries
  BY DEF ErrorWithEffect, ErrorWithoutEffect, MayTakeEffect, Commits, Single, IInv, TypeOK, Control
<1>4. effects' \in [Calls -> 0..Retries + 1] /\ effects'[c] <= attempt[c] + 1
  <2>1. effects[c] \in 0..Retries + 1 /\ effects[c] + 1 \in 0..Retries + 1
    BY <1>3, PostgresAssumption DEF IInv, TypeOK
  <2> QED BY <1>2, <1>3, <2>1 DEF IInv, TypeOK
<1>5. TypeOK'
  <2>1. /\ pc' \in [Calls -> {"loop", "begin", "statement", "wait", "done"}]
        /\ outcome' \in [Calls -> {"none", "ok", "notFound", "error"}]
    BY <1>1 DEF IInv, TypeOK
  <2>2. doubt' \subseteq Calls
    BY <1>2 DEF IInv, TypeOK
  <2> QED BY <1>1, <1>2, <1>4, <2>1, <2>2, EndRows DEF IInv, TypeOK
<1>6. OthersKeep(c)
  BY <1>1, <1>2 DEF OthersKeep, IInv, TypeOK
<1>7. Control(c)'
  <2>1. Len(op[c].rows) \in Nat /\ Control(c) /\ outcome[c] = "none"
    BY <1>3, OpType DEF IInv, Control
  <2>2. \/ pc'[c] = "done" /\ outcome'[c] = "error"
        \/ pc'[c] = "wait" /\ outcome'[c] = "none" /\ attempt[c] < Retries
    BY <1>1, <1>3, <2>1, PostgresAssumption DEF IInv, TypeOK
  <2>3. c \notin doubt' => effects'[c] = 0
    BY <1>2, <2>1 DEF Control
  <2>4. UNCHANGED <<op, attempt, pos, got>> /\ NoRows' = NoRows
    BY <1>1 DEF NoRows, Promise!NoRows
  <2> QED BY <1>3, <1>4, <2>1, <2>2, <2>3, <2>4 DEF Control, IsBatch, Promise!IsUpdate
<1>8. pc'[c] # "statement" /\ outcome'[c] # "ok"
  BY <1>1, <1>3 DEF IInv, TypeOK, Control
<1> QED BY <1>1, <1>2, <1>5, <1>6, <1>7, <1>8, EndPreserves

LEMMA QueryPreserves ==
  ASSUME IInv, NEW c \in Calls, Query(c)
  PROVE  IInv'
<1>1. /\ op[c].kind \in {"get", "snapshot"} /\ pc[c] = "statement"
      /\ got' = [got EXCEPT ![c] = Promise!Returned(c, table)]
      /\ pc' = [pc EXCEPT ![c] = "done"]
      /\ \E res \in {"ok", "notFound"} : outcome' = [outcome EXCEPT ![c] = res]
      /\ UNCHANGED <<op, table, lock, version, attempt, pos, cancelled, effects, doubt, faults>>
  BY DEF Query, Reads, Return
<1>2. TypeOK'
  <2>1. Promise!Returned(c, table) \in [Rows -> Promise!Value]
    BY ZeroType, RowsType DEF IInv, TypeOK, Promise!Returned, Promise!Only, Rows, Zero, NoRows
  <2>2. /\ pc' \in [Calls -> {"loop", "begin", "statement", "wait", "done"}]
        /\ outcome' \in [Calls -> {"none", "ok", "notFound", "error"}]
    BY <1>1 DEF IInv, TypeOK
  <2>3. got' \in [Calls -> [Rows -> Promise!Value]]
    BY <1>1, <2>1 DEF IInv, TypeOK
  <2> QED BY <1>1, <2>2, <2>3 DEF IInv, TypeOK
<1>3. OthersKeep(c) /\ OthersRowsKeep(c)
  BY <1>1 DEF OthersKeep, OthersRowsKeep, IInv, TypeOK
<1>4. Control(c)'
  <2>1. Control(c) /\ ~Promise!IsUpdate(c) /\ ~Promise!IsUpdate(c)'
    BY <1>1 DEF IInv, Promise!IsUpdate
  <2>2. pc'[c] = "done" /\ outcome'[c] # "none"
    BY <1>1 DEF IInv, TypeOK
  <2>3. effects[c] \in Nat /\ attempt[c] \in Nat
    BY DEF IInv, TypeOK
  <2> QED BY <1>1, <2>1, <2>2, <2>3 DEF Control, IsBatch
<1>5. Owns(c)'
  BY <1>1 DEF IInv, Owns, IsBatch
<1>6. TotalsKept' /\ TotalsOrdered'
  <2>1. /\ \A r \in Counters, x \in Calls : table[r][x] <= table'[r][x]
        /\ table' \in [Rows -> Promise!Value]
    BY <1>1, RowsType DEF IInv, TypeOK, Promise!Value
  <2> QED BY <1>1, <1>3, <2>1, TotalsInv
<1> QED BY <1>2, <1>3, <1>4, <1>5, <1>6, OthersInv DEF IInv

\* The statement of UpdateGauge or UpdateCounter: its total is the row as it is
\* then, so it contains every total that was returned before.
LEMMA ExecSinglePreserves ==
  ASSUME IInv, NEW c \in Calls, ExecSingle(c)
  PROVE  IInv'
<1>1. /\ op[c].kind = "update" /\ pc[c] = "statement" /\ Single(c) /\ MayTakeEffect(c) /\ TakesEffect(c)
      /\ effects' = [effects EXCEPT ![c] = @ + 1]
      /\ got' = [got EXCEPT ![c] = Total(c)]
      /\ pc' = [pc EXCEPT ![c] = "done"] /\ outcome' = [outcome EXCEPT ![c] = "ok"]
      /\ UNCHANGED <<op, lock, version, attempt, pos, cancelled, doubt, faults>>
  BY DEF ExecSingle, Single, MayTakeEffect, TakesEffect, Return
<1>2. /\ table' \in [Rows -> Promise!Value] /\ OthersRowsKeep(c)
      /\ \A r \in Counters, x \in Calls : table[r][x] <= table'[r][x]
      /\ \A r \in Rows : lock'[r] # c
  BY <1>1, EndRows
<1>3. /\ Row(c) = op[c].rows[1] /\ Row(c) \in Rows
      /\ table' = [table EXCEPT ![Row(c)] = Upsert(Row(c), @, c)]
  BY <1>1, OpType DEF IInv, Control, IsBatch, Row, TakesEffect
<1>4. Total(c) = [r \in Rows |-> IF r = Row(c) /\ r \in Counters THEN table'[r] ELSE Zero]
  BY <1>1, <1>3 DEF Total, Promise!Returned, Promise!Only, Rows, Zero
<1>5. TypeOK'
  <2>1. effects[c] + 1 \in 0..Retries + 1
    <3>1. effects[c] \in Nat /\ attempt[c] \in 0..Retries /\ effects[c] <= attempt[c]
      BY <1>1 DEF IInv, TypeOK, Control
    <3> QED BY <3>1, PostgresAssumption
  <2>2. Total(c) \in [Rows -> Promise!Value]
    BY <1>2, <1>4, ZeroType
  <2>3. got' \in [Calls -> [Rows -> Promise!Value]]
    BY <1>1, <2>2 DEF IInv, TypeOK
  <2> QED BY <1>1, <1>2, <2>1, <2>3 DEF IInv, TypeOK
<1>6. OthersKeep(c)
  BY <1>1 DEF OthersKeep, IInv, TypeOK
<1>7. Control(c)'
  <2>1. Control(c) /\ Promise!IsUpdate(c) /\ outcome[c] = "none" /\ ~IsBatch(c)
    BY <1>1 DEF IInv, Control, Promise!IsUpdate, IsBatch
  <2>2. pc'[c] = "done" /\ outcome'[c] = "ok" /\ effects'[c] = effects[c] + 1
    BY <1>1 DEF IInv, TypeOK
  <2>3. effects[c] \in Nat /\ attempt[c] \in Nat
    BY DEF IInv, TypeOK
  <2> QED BY <1>1, <2>1, <2>2, <2>3 DEF Control, IsBatch, Promise!IsUpdate
<1>8. Owns(c)'
  BY <1>1, <1>2 DEF Owns, IsBatch
<1>9. ASSUME NEW d \in Calls, NEW r \in Counters, Totalled(d, r)', d # c
      PROVE  /\ Totalled(d, r) /\ got'[d] = got[d]
             /\ got[d][r] \in [Calls -> Nat] /\ table[r] \in [Calls -> Nat] /\ table'[r] \in [Calls -> Nat]
             /\ got[d][r][d] > 0
             /\ \A x \in Calls : got[d][r][x] <= table[r][x] /\ got[d][r][x] <= table'[r][x]
  <2>1. Totalled(d, r) /\ got'[d] = got[d]
    BY <1>6, <1>9 DEF Totalled, OthersKeep
  <2>2. got[d][r] \in [Calls -> Nat] /\ table[r] \in [Calls -> Nat] /\ table'[r] \in [Calls -> Nat]
    BY <1>2, RowsType DEF IInv, TypeOK, Promise!Value
  <2>3. got[d][r][d] > 0 /\ \A x \in Calls : got[d][r][x] <= table[r][x]
    BY <2>1 DEF IInv, TotalsKept
  <2>4. \A x \in Calls : got[d][r][x] <= table'[r][x]
    BY <1>2, <2>2, <2>3
  <2> QED BY <2>1, <2>2, <2>3, <2>4
<1>10. ASSUME NEW r \in Counters, Totalled(c, r)'
       PROVE  /\ got'[c][r] = table'[r] /\ table'[r] \in [Calls -> Nat] /\ table[r] \in [Calls -> Nat]
              /\ table'[r][c] = table[r][c] + 1
  <2>1. r = Row(c) /\ r \in Rows
    BY <1>1, <1>3, <1>10, RowsType DEF Totalled
  <2>2. got'[c] = Total(c)
    BY <1>1 DEF IInv, TypeOK
  <2>3. table[r] \in Promise!Value /\ table'[r] = Upsert(r, table[r], c)
    BY <1>3, <2>1 DEF IInv, TypeOK
  <2>4. table'[r][c] = table[r][c] + 1
    BY <2>1, <2>3, UpsertType
  <2> QED BY <1>2, <1>4, <2>1, <2>2, <2>3, <2>4 DEF Promise!Value
<1>11. TotalsKept'
  <2> SUFFICES ASSUME NEW d \in Calls, NEW r \in Counters, Totalled(d, r)'
               PROVE  got'[d][r][d] > 0 /\ \A x \in Calls : got'[d][r][x] <= table'[r][x]
    BY DEF TotalsKept
  <2>1. CASE d = c
    BY <2>1, <1>10
  <2>2. CASE d # c
    BY <2>2, <1>9
  <2> QED BY <2>1, <2>2
<1>12. ASSUME NEW d \in Calls, NEW r \in Counters, Totalled(d, r)', Totalled(c, r)', d # c
       PROVE  got'[d][r] # got'[c][r] /\ \A x \in Calls : got'[d][r][x] <= got'[c][r][x]
  <2>1. got'[d][r][c] <= table[r][c] /\ got'[c][r][c] = table[r][c] + 1 /\ got'[d][r][c] \in Nat /\ table[r][c] \in Nat
    BY <1>12, <1>9, <1>10
  <2>2. got'[d][r] # got'[c][r]
    BY <2>1
  <2> QED BY <2>2, <1>12, <1>9, <1>10
<1>13. TotalsOrdered'
  <2> SUFFICES ASSUME NEW b \in Calls, NEW d \in Calls, NEW r \in Counters, Totalled(b, r)', Totalled(d, r)'
               PROVE  /\ b # d => got'[b][r] # got'[d][r]
                      /\ \/ \A x \in Calls : got'[b][r][x] <= got'[d][r][x]
                         \/ \A x \in Calls : got'[d][r][x] <= got'[b][r][x]
    BY DEF TotalsOrdered
  <2>1. CASE b # c /\ d # c
    <3>1. Totalled(b, r) /\ Totalled(d, r) /\ got'[b] = got[b] /\ got'[d] = got[d]
      BY <2>1, <1>9
    <3> QED BY <3>1 DEF IInv, TotalsOrdered
  <2>2. CASE b = c /\ d = c
    BY <2>2, <1>10
  <2>3. CASE b = c /\ d # c
    BY <2>3, <1>12
  <2>4. CASE b # c /\ d = c
    BY <2>4, <1>12
  <2> QED BY <2>1, <2>2, <2>3, <2>4
<1> QED BY <1>2, <1>5, <1>6, <1>7, <1>8, <1>11, <1>13, OthersInv DEF IInv

LEMMA NextInv == IInv /\ [Next]_vars => IInv'
<1> SUFFICES ASSUME IInv, [Next]_vars PROVE IInv'
  OBVIOUS
<1>1. CASE UNCHANGED vars \/ Quiet \/ \E c \in Calls : Cancel(c)
  BY <1>1, CancelPreserves DEF Quiet
<1>2. ASSUME NEW c \in Calls, Progress(c) \/ StatementFails(c) \/ CommitFails(c) PROVE IInv'
  <2>1. CASE CheckContext(c) \/ RetryTimer(c) \/ WaitCancelled(c) \/ BeginTx(c)
    BY <2>1, ControlPreserves
  <2>2. CASE Exec(c)
    BY <2>2, ExecPreserves
  <2>3. CASE Commit(c)
    BY <2>3, CommitPreserves
  <2>4. CASE ExecSingle(c)
    BY <2>4, ExecSinglePreserves
  <2>5. CASE Query(c)
    BY <2>5, QueryPreserves
  <2>6. CASE Interrupted(c) \/ DeadlockDetected(c) \/ StatementFails(c) \/ CommitFails(c)
    <3>1. faults' \in 0..MaxFaults
      BY <2>6, PostgresAssumption DEF Interrupted, DeadlockDetected, StatementFails, CommitFails, IInv, TypeOK
    <3>2. \E e : ErrorWithEffect(c, e) \/ ErrorWithoutEffect(c, e)
      BY <2>6 DEF Interrupted, DeadlockDetected, StatementFails, CommitFails
    <3> QED BY <3>1, <3>2, FailPreserves
  <2> QED BY <1>2, <2>1, <2>2, <2>3, <2>4, <2>5, <2>6 DEF Progress
<1> QED BY <1>1, <1>2 DEF Next

LEMMA Invariance == Spec => []IInv
  BY InitInv, NextInv, PTL DEF Spec

-----------------------------------------------------------------------------
(* What the invariant says.                                                 *)

\* Every variable of the storage keeps its type: no call makes more attempts
\* than retryDBOperation allows, nor takes effect more often than it attempts.
THEOREM TypeCorrect == Spec => []TypeOK
<1>1. IInv => TypeOK
  BY DEF IInv
<1> QED BY <1>1, Invariance, PTL

\* The totals that UpdateCounter returns for a counter are a history of it, for
\* any number of concurrent calls, batches, retries and broken connections.
THEOREM TotalsInOrderAlways == Spec => []TotalsInOrder
<1>1. IInv => TotalsInOrder
  <2> SUFFICES ASSUME IInv, NEW c \in Calls, NEW d \in Calls,
                      op[c].kind = "update", op[d].kind = "update", op[c].rows = op[d].rows,
                      outcome[c] = "ok", outcome[d] = "ok", op[c].rows[1] \in Counters
               PROVE  /\ got[c][op[c].rows[1]][c] > 0
                      /\ c # d => got[c][op[c].rows[1]] # got[d][op[c].rows[1]]
                      /\ \/ \A x \in Calls : got[c][op[c].rows[1]][x] <= got[d][op[c].rows[1]][x]
                         \/ \A x \in Calls : got[d][op[c].rows[1]][x] <= got[c][op[c].rows[1]][x]
    BY DEF TotalsInOrder
  <2>1. Totalled(c, op[c].rows[1]) /\ Totalled(d, op[c].rows[1])
    BY DEF Totalled
  <2> QED BY <2>1 DEF IInv, TotalsKept, TotalsOrdered
<1> QED BY <1>1, Invariance, PTL

\* An update returns nil exactly when it took effect, and then once, unless an
\* attempt of it failed after its effect: neither the deferred Rollback nor
\* retryDBOperation repeats or hides a commit.
THEOREM EffectIffOkAlways == Spec => []EffectIffOk
<1>1. IInv => EffectIffOk
  BY DEF IInv, Control, EffectIffOk
<1> QED BY <1>1, Invariance, PTL

-----------------------------------------------------------------------------
(* The refinement: a step of the storage is a step of AtomicStore.          *)

LEMMA AttemptStep ==
  ASSUME IInv, NEW c \in Calls, MayTakeEffect(c)
  PROVE  outcome[c] = "none" /\ got[c] = NoRows /\ Promise!IsUpdate(c) /\ effects[c] < Retries + 1
<1>1. pc[c] = "statement" /\ Promise!IsUpdate(c)
  BY DEF MayTakeEffect, Commits, Single, IsBatch, Promise!IsUpdate
<1>2. effects[c] \in Nat /\ attempt[c] \in 0..Retries
  BY DEF IInv, TypeOK
<1>3. Control(c)
  BY DEF IInv
<1>4. outcome[c] = "none" /\ got[c] = NoRows /\ effects[c] <= attempt[c]
  BY <1>1, <1>3 DEF Control
<1> QED BY <1>1, <1>2, <1>4, PostgresAssumption

LEMMA FailStep ==
  ASSUME IInv, NEW c \in Calls, NEW e, ErrorWithEffect(c, e) \/ ErrorWithoutEffect(c, e)
  PROVE  [Promise!Next]_(Promise!vars)
<1>1. /\ UNCHANGED <<op, got>>
      /\ outcome' = [outcome EXCEPT ![c] = "error"] \/ UNCHANGED outcome
  BY DEF ErrorWithEffect, ErrorWithoutEffect, AttemptFails, Return
<1>2. CASE ErrorWithEffect(c, e)
  <2>1. MayTakeEffect(c) /\ TakesEffect(c) /\ effects' = [effects EXCEPT ![c] = @ + 1]
    BY <1>2 DEF ErrorWithEffect, TakesEffect
  <2>2. Promise!TakeEffect(c)
    BY <1>1, <2>1, AttemptStep, EffectIsUpdate DEF Promise!TakeEffect
  <2> QED BY <2>2 DEF Promise!Next
<1>3. CASE ErrorWithoutEffect(c, e)
  <2>1. UNCHANGED <<table, effects>> /\ outcome[c] = "none"
    BY <1>3 DEF ErrorWithoutEffect, IInv, Control
  <2>2. Promise!Fail(c) \/ UNCHANGED Promise!vars
    BY <1>1, <2>1 DEF Promise!Fail, Promise!vars
  <2> QED BY <2>2 DEF Promise!Next
<1> QED BY <1>2, <1>3

\* PostgresStorage keeps the promise of a MetricsStorage: every update takes
\* effect as a whole at one moment and adds to what all earlier ones left, and
\* every read is of one moment, whatever transactions, retries and failures
\* come in between.
THEOREM PostgresImplementsAtomicStore == Spec => ImplementsAtomicStore
<1>1. Init => Promise!Init
  BY DEF Init, Promise!Init, NoRows
<1>2. IInv /\ [Next]_vars => [Promise!Next]_(Promise!vars)
  <2> SUFFICES ASSUME IInv, [Next]_vars PROVE [Promise!Next]_(Promise!vars)
    OBVIOUS
  <2>1. CASE UNCHANGED vars \/ Quiet \/ \E c \in Calls : Cancel(c)
    BY <2>1 DEF Quiet, Cancel, vars, Promise!vars
  <2>2. ASSUME NEW c \in Calls, Progress(c) \/ StatementFails(c) \/ CommitFails(c)
        PROVE  [Promise!Next]_(Promise!vars)
    <3>1. CASE RetryTimer(c) \/ BeginTx(c) \/ Exec(c)
      BY <3>1 DEF RetryTimer, BeginTx, Exec, Promise!vars
    <3>2. CASE CheckContext(c) \/ WaitCancelled(c)
      <4>1. outcome[c] = "none" /\ UNCHANGED <<op, table, effects, got>>
        BY <3>2 DEF CheckContext, WaitCancelled, IInv, Control
      <4>2. UNCHANGED outcome \/ outcome' = [outcome EXCEPT ![c] = "error"]
        BY <3>2 DEF CheckContext, WaitCancelled, Return
      <4> QED BY <4>1, <4>2 DEF Promise!Fail, Promise!Next, Promise!vars
    <3>3. CASE Commit(c)
      <4>1. /\ MayTakeEffect(c) /\ TakesEffect(c) /\ IsBatch(c) /\ UNCHANGED <<op, got>>
            /\ effects' = [effects EXCEPT ![c] = @ + 1] /\ outcome' = [outcome EXCEPT ![c] = "ok"]
        BY <3>3 DEF Commit, MayTakeEffect, Commits, TakesEffect, Return
      <4>2. got' = [got EXCEPT ![c] = NoRows] /\ Promise!Returned(c, table') = NoRows
        BY <4>1, AttemptStep DEF IInv, TypeOK, IsBatch, Promise!Returned, NoRows
      <4>3. Promise!TakeEffect(c)
        BY <4>1, <4>2, AttemptStep, EffectIsUpdate DEF Promise!TakeEffect
      <4> QED BY <4>3 DEF Promise!Next
    <3>4. CASE ExecSingle(c)
      <4>1. /\ MayTakeEffect(c) /\ TakesEffect(c) /\ op' = op
            /\ got' = [got EXCEPT ![c] = Promise!Returned(c, table')]
            /\ effects' = [effects EXCEPT ![c] = @ + 1] /\ outcome' = [outcome EXCEPT ![c] = "ok"]
        BY <3>4 DEF ExecSingle, MayTakeEffect, TakesEffect, Return, Total
      <4>2. Promise!TakeEffect(c)
        BY <4>1, AttemptStep, EffectIsUpdate DEF Promise!TakeEffect
      <4> QED BY <4>2 DEF Promise!Next
    <3>5. CASE Query(c)
      <4>1. outcome[c] = "none" /\ ~Promise!IsUpdate(c) /\ UNCHANGED <<op, table, effects>>
        BY <3>5 DEF Query, Reads, IInv, Control, Promise!IsUpdate
      <4>2. Promise!Read(c)
        BY <3>5, <4>1 DEF Query, Return, Promise!Read, NoRows
      <4> QED BY <4>2 DEF Promise!Next
    <3>6. CASE Interrupted(c) \/ DeadlockDetected(c) \/ StatementFails(c) \/ CommitFails(c)
      <4>1. \E e : ErrorWithEffect(c, e) \/ ErrorWithoutEffect(c, e)
        BY <3>6 DEF Interrupted, DeadlockDetected, StatementFails, CommitFails
      <4> QED BY <4>1, FailStep
    <3> QED BY <2>2, <3>1, <3>2, <3>3, <3>4, <3>5, <3>6 DEF Progress
  <2> QED BY <2>1, <2>2 DEF Next
<1> QED BY <1>1, <1>2, Invariance, PTL DEF Spec, ImplementsAtomicStore, Promise!Spec
=============================================================================
