--------------------------- MODULE DeliveryProofs ---------------------------
(***************************************************************************)
(* Proofs about Delivery, for every number of workers, retries, polls and  *)
(* reports and every set of environments: no poll is lost, how often a     *)
(* report can be counted, and the order of the gauges.                     *)
(***************************************************************************)
EXTENDS Delivery, FiniteSetTheorems, TLAPS

-----------------------------------------------------------------------------
(* The inductive invariant.                                                 *)

\* Of the requests on their way or in a handler, the attempts for one report.
OnWay(requests, r) == {m \in requests : m.id = r}

\* A report that was stored or still can be.
Live(r) == stored[r] > 0 \/ \E m \in inflight : m.id = r

\* The attempts that a worker has made to send its report.
Made(w) == IF pc[w] \in {"prepare", "attempt"} THEN attempt[w] ELSE attempt[w] + 1

\* Connections hold and the server fails only before it stores.
Calm == ~env.lossy /\ ~env.saveMayFail

\* The batches are sets of polls that were made, and requests can be counted.
Types == TypeOK /\ IsFiniteSet(inflight) /\ \A r \in Ids : batch[r] \subseteq 1..polls

\* A worker that sends has a report, and waits for a retry only if one is left.
Control ==
    \A w \in Workers :
        pc[w] # "idle" =>
            /\ w \in env.workers
            /\ report[w] \in 1..reports
            /\ pc[w] = "backoff" => attempt[w] < Retries

\* No two workers send the same report.
Apart ==
    \A v, w \in Workers :
        pc[v] # "idle" /\ pc[w] # "idle" /\ report[v] = report[w] => v = w

\* Nothing is known of a report before it is taken.
Fresh ==
    /\ \A r \in Ids : r > reports => stored[r] = 0
    /\ \A m \in inflight : m.id <= reports
    /\ gauge <= reports

\* An answer is the only one to the attempt its sender waits for, and a good
\* one is given after the batch was stored.
AnswersTrue ==
    /\ \A a \in answers :
         /\ Awaited(a.to)
         /\ a.to \notin inflight
         /\ a.is = "ok" => \A p \in batch[a.to.id] : times[p] > 0
    /\ \A a, b \in answers : a.to = b.to => a = b

\* A report is counted once per attempt that was made.
AttemptsBound ==
    /\ \A w \in Workers : pc[w] # "idle" => stored[report[w]] + Cardinality(OnWay(inflight, report[w])) <= Made(w)
    /\ \A r \in Ids : stored[r] + Cardinality(OnWay(inflight, r)) <= Retries + 1

\* If connections hold, requests are abandoned only after the deadline.
RequestsAwaited == ~env.lossy /\ ~cancelled => \A m \in inflight : Awaited(m)

\* One worker and connections that hold: one request at a time, for the newest
\* report.
Serial ==
    ~env.lossy /\ Cardinality(env.workers) = 1 =>
        /\ \A w \in Workers : pc[w] # "idle" => report[w] = reports
        /\ \A m, n \in inflight : m = n
        /\ \A m \in inflight : gauge <= m.id

\* In a calm environment a report is stored at most once ...
StoredOnce ==
    Calm => \A r \in Ids :
        /\ stored[r] <= 1
        /\ stored[r] = 1 => \A m \in inflight : m.id # r
        /\ \A m, n \in inflight : m.id = r /\ n.id = r => m = n

\* ... a poll is in at most one report that was or may be stored ...
LiveApart ==
    Calm =>
        /\ \A r, s \in Ids : Live(r) /\ Live(s) /\ r # s => batch[r] \cap batch[s] = {}
        /\ \A p \in Polls :
             times[p] <= 1 /\ (times[p] = 1 => \E r \in Ids : p \in batch[r] /\ stored[r] = 1)

\* ... and, before the deadline, what is to be sent is not in such a report
\* and is in one place.
ToSendApart ==
    Calm /\ ~cancelled =>
        /\ \A w \in Workers : pc[w] \in {"prepare", "attempt", "backoff"} => ~Live(report[w])
        /\ \A a \in answers : a.is # "ok" => ~Live(a.to.id)
        /\ \A r \in Ids : Live(r) => pending \cap batch[r] = {}
        /\ \A r \in Ids, w \in Workers :
             Live(r) /\ pc[w] # "idle" /\ r # report[w] => batch[r] \cap batch[report[w]] = {}
        /\ \A w \in Workers : pc[w] # "idle" => pending \cap batch[report[w]] = {}
        /\ \A v, w \in Workers :
             pc[v] # "idle" /\ pc[w] # "idle" /\ v # w => batch[report[v]] \cap batch[report[w]] = {}

IInv ==
    /\ Types /\ Control /\ Apart /\ Fresh /\ AnswersTrue
    /\ AttemptsBound /\ RequestsAwaited /\ Serial
    /\ StoredOnce /\ LiveApart /\ ToSendApart /\ NoPollLost

-----------------------------------------------------------------------------
(* Counting requests.                                                       *)

LEMMA OnWayFinite ==
  ASSUME IsFiniteSet(inflight), NEW r
  PROVE  IsFiniteSet(OnWay(inflight, r)) /\ Cardinality(OnWay(inflight, r)) \in Nat
  BY FS_Subset, FS_CardinalityType DEF OnWay

\* A request leaves: the number for its report goes down by one.
LEMMA RequestLeaves ==
  ASSUME IsFiniteSet(inflight), NEW m \in inflight, inflight' = inflight \ {m}, NEW r
  PROVE  /\ IsFiniteSet(inflight')
         /\ Cardinality(OnWay(inflight', r)) = Cardinality(OnWay(inflight, r)) - (IF m.id = r THEN 1 ELSE 0)
<1>1. IsFiniteSet(inflight')
  BY FS_RemoveElement
<1>2. IsFiniteSet(OnWay(inflight, r)) /\ Cardinality(OnWay(inflight, r)) \in Nat
  BY OnWayFinite
<1>3. CASE m.id = r
  <2>1. OnWay(inflight', r) = OnWay(inflight, r) \ {m} /\ m \in OnWay(inflight, r)
    BY <1>3 DEF OnWay
  <2> QED  BY <1>1, <1>2, <1>3, <2>1, FS_RemoveElement
<1>4. CASE m.id # r
  <2>1. OnWay(inflight', r) = OnWay(inflight, r)
    BY <1>4 DEF OnWay
  <2> QED  BY <1>1, <1>2, <1>4, <2>1
<1> QED  BY <1>3, <1>4

\* A request is sent: the number for its report goes up by at most one.
LEMMA RequestSent ==
  ASSUME IsFiniteSet(inflight), NEW m, inflight' = inflight \cup {m}, NEW r
  PROVE  /\ IsFiniteSet(inflight')
         /\ Cardinality(OnWay(inflight', r)) \in Nat
         /\ Cardinality(OnWay(inflight', r)) <= Cardinality(OnWay(inflight, r)) + (IF m.id = r THEN 1 ELSE 0)
<1>1. IsFiniteSet(inflight')
  BY FS_AddElement
<1>2. IsFiniteSet(OnWay(inflight, r)) /\ Cardinality(OnWay(inflight, r)) \in Nat
  BY OnWayFinite
<1>3. CASE m.id = r
  <2>1. OnWay(inflight', r) = OnWay(inflight, r) \cup {m}
    BY <1>3 DEF OnWay
  <2>2. Cardinality(OnWay(inflight', r)) \in {Cardinality(OnWay(inflight, r)), Cardinality(OnWay(inflight, r)) + 1}
    BY <1>2, <2>1, FS_AddElement
  <2> QED  BY <1>1, <1>2, <1>3, <2>2
<1>4. CASE m.id # r
  <2>1. OnWay(inflight', r) = OnWay(inflight, r)
    BY <1>4 DEF OnWay
  <2> QED  BY <1>1, <1>2, <1>4, <2>1
<1> QED  BY <1>3, <1>4

\* One worker is alone.
LEMMA OnlyWorker ==
  ASSUME Types, Cardinality(env.workers) = 1, NEW v \in env.workers, NEW w \in env.workers
  PROVE  v = w
<1>2. env.workers \in SUBSET Workers
  BY DEF Types, TypeOK, Environment
<1>3. IsFiniteSet(env.workers)
  BY <1>2, DeliveryWorkersAssumption, FS_Subset
<1>4. PICK x : env.workers = {x}
  BY <1>3, FS_Singleton
<1> QED  BY <1>4

-----------------------------------------------------------------------------
(* Steps that send nothing.                                                 *)

LEMMA InitIInv == Init => IInv
<1> SUFFICES ASSUME Init PROVE IInv
  OBVIOUS
<1> USE RetriesAssumption, EnvironmentsAssumption, DeliveryBoundsAssumption
<1>1. Types
  <2>1. env \in Environment /\ batch \in [Ids -> SUBSET Polls]
    BY DEF Init
  <2>2. times \in [Polls -> Nat] /\ stored \in [Ids -> Nat]
    BY DEF Init
  <2>3. /\ pc \in [Workers -> {"idle", "prepare", "attempt", "await", "backoff"}]
        /\ report \in [Workers -> 0..MaxReports]
        /\ attempt \in [Workers -> 0..Retries]
    BY DEF Init
  <2>4. cancelled \in BOOLEAN /\ inflight \subseteq Message /\ answers \subseteq [to : Message, is : {"ok"} \cup Errors]
    BY DEF Init
  <2>5. polls \in 0..MaxPolls /\ pending \subseteq 1..polls /\ acked \subseteq 1..polls
    BY DEF Init
  <2>6. reports \in 0..MaxReports /\ gauge \in 0..MaxReports
    BY DEF Init
  <2>7. TypeOK
    BY <2>1, <2>2, <2>3, <2>4, <2>5, <2>6 DEF TypeOK
  <2> QED  BY <2>7, FS_EmptySet DEF Init, Types, Ids
<1>2. Control /\ Apart /\ Fresh /\ AnswersTrue /\ RequestsAwaited
  BY DEF Init, Control, Apart, Fresh, AnswersTrue, RequestsAwaited
<1>3. AttemptsBound
  <2>1. \A r : OnWay(inflight, r) = {}
    BY DEF Init, OnWay
  <2>2. \A r : Cardinality(OnWay(inflight, r)) = 0
    BY <2>1, FS_EmptySet
  <2> QED  BY <2>2 DEF Init, AttemptsBound
<1>4. Serial /\ StoredOnce /\ LiveApart /\ ToSendApart
  BY DEF Init, Serial, StoredOnce, LiveApart, ToSendApart, Live
<1>5. NoPollLost
  BY DEF Init, NoPollLost
<1> QED  BY <1>1, <1>2, <1>3, <1>4, <1>5 DEF IInv

\* The server's state, the requests and the workers stay as they are.
SendKept ==
    UNCHANGED <<env, reports, batch, pc, report, attempt, inflight, answers, times, stored, gauge>>

LEMMA SendKeptIInv ==
  ASSUME IInv, SendKept
  PROVE  Control' /\ Apart' /\ Fresh' /\ AnswersTrue' /\ AttemptsBound' /\ Serial' /\ StoredOnce' /\ LiveApart'
<1> USE DEF IInv, SendKept
<1>1. Control' /\ Apart' /\ Fresh' /\ Serial' /\ StoredOnce'
  BY DEF Control, Apart, Fresh, Serial, StoredOnce, Calm
<1>2. AnswersTrue'
  BY DEF AnswersTrue, Awaited, Current
<1>3. AttemptsBound'
  BY DEF AttemptsBound, OnWay, Made
<1>4. LiveApart'
  BY DEF LiveApart, Live, Calm
<1> QED  BY <1>1, <1>2, <1>3, <1>4

LEMMA PollStep ==
  ASSUME IInv, Poll
  PROVE  IInv'
<1> USE RetriesAssumption, DeliveryBoundsAssumption
<1>1. /\ polls' = polls + 1 /\ pending' = pending \cup {polls + 1} /\ polls < MaxPolls
      /\ SendKept /\ UNCHANGED <<cancelled, acked>>
  BY DEF Poll, SendKept, senderVars, fixedVars, serverVars
<1>2. Control' /\ Apart' /\ Fresh' /\ AnswersTrue' /\ AttemptsBound' /\ Serial' /\ StoredOnce' /\ LiveApart'
  BY <1>1, SendKeptIInv
<1>3. Types'
  BY <1>1 DEF IInv, Types, TypeOK, SendKept
<1>4. RequestsAwaited'
  BY <1>1 DEF IInv, RequestsAwaited, Awaited, Current, SendKept
<1>5. ToSendApart'
  <2>1. \A r \in Ids : polls + 1 \notin batch[r]
    BY DEF IInv, Types, TypeOK
  <2>2. \A w \in Workers : pc[w] # "idle" => report[w] \in Ids
    BY DEF IInv, Types, TypeOK, Control, Ids
  <2> QED  BY <1>1, <2>1, <2>2 DEF IInv, ToSendApart, Calm, Live, SendKept
<1>6. NoPollLost'
  BY <1>1 DEF IInv, Types, TypeOK, NoPollLost, Held, Sending, SendKept
<1> QED  BY <1>2, <1>3, <1>4, <1>5, <1>6 DEF IInv

LEMMA CancelSendStep ==
  ASSUME IInv, CancelSend
  PROVE  IInv'
<1>1. cancelled' = TRUE /\ SendKept /\ UNCHANGED <<polls, pending, acked>>
  BY DEF CancelSend, SendKept, senderVars, agentVars, serverVars
<1>2. Control' /\ Apart' /\ Fresh' /\ AnswersTrue' /\ AttemptsBound' /\ Serial' /\ StoredOnce' /\ LiveApart'
  BY <1>1, SendKeptIInv
<1>3. Types'
  BY <1>1 DEF IInv, Types, TypeOK, SendKept
<1>4. RequestsAwaited' /\ ToSendApart'
  BY <1>1 DEF RequestsAwaited, ToSendApart
<1>5. NoPollLost'
  BY <1>1 DEF IInv, NoPollLost, Held, Sending, SendKept
<1> QED  BY <1>2, <1>3, <1>4, <1>5 DEF IInv

-----------------------------------------------------------------------------
(* The sender.                                                              *)

\* A report is taken: nothing of it is on its way, and its polls are nowhere else.
LEMMA TakeStep ==
  ASSUME IInv, NEW w \in Workers, Take(w)
  PROVE  IInv'
<1> USE RetriesAssumption, DeliveryBoundsAssumption
<1> DEFINE new == reports + 1
<1>1. /\ w \in env.workers /\ pc[w] = "idle" /\ ~cancelled /\ reports < MaxReports
      /\ reports' = new /\ batch' = [batch EXCEPT ![new] = pending]
      /\ report' = [report EXCEPT ![w] = new] /\ attempt' = [attempt EXCEPT ![w] = 0]
      /\ pc' = [pc EXCEPT ![w] = "prepare"] /\ pending' = {}
      /\ UNCHANGED <<env, polls, inflight, answers, cancelled, acked, times, stored, gauge>>
  BY DEF Take, SwapPolls, fixedVars, serverVars
<1>2. Types
  BY DEF IInv
<1>3. new \in Ids /\ stored[new] = 0 /\ ~Live(new) /\ \A v \in Workers : pc[v] # "idle" => report[v] \in Ids \ {new}
  BY <1>1 DEF IInv, Types, TypeOK, Control, Fresh, Ids, Live
<1>4. \A r \in Ids \ {new} : batch'[r] = batch[r]
  BY <1>1, <1>2 DEF Types, TypeOK
<1>5. batch'[new] = pending
  BY <1>1, <1>2, <1>3 DEF Types, TypeOK
<1>6. \A v \in Workers \ {w} : pc'[v] = pc[v] /\ report'[v] = report[v] /\ attempt'[v] = attempt[v]
  BY <1>1, <1>2 DEF Types, TypeOK
<1>7. pc'[w] = "prepare" /\ report'[w] = new /\ attempt'[w] = 0
  BY <1>1, <1>2 DEF Types, TypeOK
<1>8. Types'
  <2>1. batch' \in [Ids -> SUBSET Polls]
    <3>1. pending \in SUBSET Polls
      BY <1>2 DEF Types, TypeOK, Polls
    <3>2. batch \in [Ids -> SUBSET Polls]
      BY <1>2 DEF Types, TypeOK
    <3> QED  BY <1>1, <3>1, <3>2
  <2>2. /\ pc' \in [Workers -> {"idle", "prepare", "attempt", "await", "backoff"}]
        /\ report' \in [Workers -> 0..MaxReports]
        /\ attempt' \in [Workers -> 0..Retries]
        /\ reports' \in 0..MaxReports
    BY <1>1, <1>2 DEF Types, TypeOK
  <2>3. TypeOK'
    BY <1>1, <1>2, <2>1, <2>2 DEF Types, TypeOK
  <2>4. \A r \in Ids : batch'[r] \subseteq 1..polls
    BY <1>2, <1>4, <1>5 DEF Types, TypeOK
  <2> QED  BY <1>1, <1>2, <2>3, <2>4 DEF Types
<1>9. Control' /\ Apart'
  BY <1>1, <1>2, <1>3, <1>6, <1>7 DEF IInv, Types, TypeOK, Control, Apart
<1>10. Fresh'
  BY <1>1, <1>2 DEF IInv, Types, TypeOK, Fresh, Ids, Message
<1>11. \A m : Awaited(m) => Awaited(m)'
  BY <1>1, <1>6 DEF Awaited, Current
<1>12. AnswersTrue'
  <2>1. ASSUME NEW a \in answers
        PROVE  a.to.id \in Ids \ {new}
    <3>1. PICK v \in Workers : pc[v] = "await" /\ Current(v) = a.to
      BY DEF IInv, AnswersTrue, Awaited
    <3>2. a.to.id = report[v]
      BY <3>1 DEF Current
    <3> QED  BY <1>3, <3>1, <3>2
  <2> QED  BY <1>1, <1>4, <1>11, <2>1 DEF IInv, AnswersTrue
<1>13. AttemptsBound'
  <2>1. OnWay(inflight, new) = {}
    BY <1>2, <1>3 DEF OnWay, Live
  <2>2. Cardinality(OnWay(inflight, new)) = 0
    BY <2>1, FS_EmptySet
  <2> QED  BY <1>1, <1>3, <1>6, <1>7, <2>2 DEF IInv, AttemptsBound, Made
<1>14. RequestsAwaited'
  BY <1>1, <1>11 DEF IInv, RequestsAwaited
<1>15. Serial'
  <2> SUFFICES ASSUME ~env.lossy, Cardinality(env.workers) = 1
               PROVE  Serial'
    BY <1>1 DEF Serial
  <2>1. \A v \in Workers \ {w} : pc[v] = "idle"
    BY <1>1, <1>2, OnlyWorker DEF IInv, Control
  <2> QED  BY <1>1, <1>6, <1>7, <2>1 DEF IInv, Serial
<1>16. \A r : Live(r)' <=> Live(r)
  BY <1>1 DEF Live
<1>17. StoredOnce'
  BY <1>1 DEF IInv, StoredOnce, Calm
<1>18. LiveApart'
  <2>1. \A r, s \in Ids : Live(r)' /\ Live(s)' /\ r # s /\ Calm => batch'[r] \cap batch'[s] = {}
    BY <1>3, <1>4, <1>16 DEF IInv, LiveApart
  <2>2. ASSUME NEW p \in Polls, Calm
        PROVE  times'[p] <= 1 /\ (times'[p] = 1 => \E r \in Ids : p \in batch'[r] /\ stored'[r] = 1)
    BY <1>1, <1>3, <1>4, <2>2 DEF IInv, LiveApart
  <2> QED  BY <1>1, <2>1, <2>2 DEF LiveApart, Calm
<1>19. ToSendApart'
  <2> SUFFICES ASSUME Calm PROVE ToSendApart'
    BY <1>1 DEF ToSendApart, Calm
  <2> USE DEF IInv, ToSendApart
  <2>1. \A v \in Workers : pc'[v] \in {"prepare", "attempt", "backoff"} => ~Live(report'[v])
    BY <1>1, <1>3, <1>6, <1>7
  <2>2. \A r \in Ids, v \in Workers :
          Live(r) /\ pc'[v] # "idle" /\ r # report'[v] => batch'[r] \cap batch'[report'[v]] = {}
    BY <1>1, <1>3, <1>4, <1>5, <1>6, <1>7
  <2>3. \A u, v \in Workers :
          pc'[u] # "idle" /\ pc'[v] # "idle" /\ u # v => batch'[report'[u]] \cap batch'[report'[v]] = {}
    BY <1>1, <1>3, <1>4, <1>5, <1>6, <1>7
  <2>4. \A a \in answers' : a.is # "ok" => ~Live(a.to.id)
    BY <1>1
  <2>5. \A v \in Workers : Live(report[v])' <=> Live(report'[v])
    BY <1>1 DEF Live
  <2>6. \A a : Live(a.to.id)' <=> Live(a.to.id)
    BY <1>16
  <2> QED  BY <1>1, <1>16, <2>1, <2>2, <2>3, <2>4, <2>5, <2>6
<1>20. NoPollLost'
  <2>1. ASSUME NEW p \in 1..polls, times[p] = 0
        PROVE  p \in Held'
    <3>1. CASE p \in pending
      BY <1>5, <1>7, <3>1 DEF Held, Sending
    <3>2. CASE p \in Held
      <4>1. PICK v \in Workers : pc[v] # "idle" /\ p \in batch[report[v]]
        BY <3>2 DEF Held, Sending
      <4>2. v # w /\ pc'[v] # "idle" /\ p \in batch'[report'[v]]
        BY <1>1, <1>3, <1>4, <1>6, <4>1
      <4> QED  BY <4>2 DEF Held, Sending
    <3> QED  BY <2>1, <3>1, <3>2 DEF IInv, NoPollLost
  <2> QED  BY <1>1, <2>1 DEF NoPollLost
<1> QED
  BY <1>8, <1>9, <1>10, <1>12, <1>13, <1>14, <1>15, <1>17, <1>18, <1>19, <1>20 DEF IInv

\* Prepare and RetryTimer: the next attempt can be made.
LEMMA ReadyStep ==
  ASSUME IInv, NEW w \in Workers, Prepare(w) \/ RetryTimer(w)
  PROVE  IInv'
<1> USE RetriesAssumption, DeliveryBoundsAssumption
<1>1. /\ pc[w] \in {"prepare", "backoff"} /\ pc' = [pc EXCEPT ![w] = "attempt"]
      /\ \/ pc[w] = "prepare" /\ attempt' = attempt
         \/ pc[w] = "backoff" /\ attempt' = [attempt EXCEPT ![w] = attempt[w] + 1]
      /\ UNCHANGED <<env, polls, pending, reports, batch, report, inflight, answers, cancelled, acked, times, stored, gauge>>
  BY DEF Prepare, RetryTimer, agentVars, fixedVars, serverVars
<1>2. Types
  BY DEF IInv
<1>3. \A v \in Workers \ {w} : pc'[v] = pc[v] /\ attempt'[v] = attempt[v]
  BY <1>1, <1>2 DEF Types, TypeOK
<1>4. pc'[w] = "attempt" /\ attempt'[w] = Made(w)
  BY <1>1, <1>2 DEF Types, TypeOK, Made
<1>5. Types'
  <2>1. attempt' \in [Workers -> 0..Retries]
    BY <1>1, <1>2 DEF IInv, Control, Types, TypeOK
  <2>2. pc' \in [Workers -> {"idle", "prepare", "attempt", "await", "backoff"}]
    BY <1>1, <1>2 DEF Types, TypeOK
  <2> QED  BY <1>1, <1>2, <2>1, <2>2 DEF Types, TypeOK, Ids
<1>6. Control' /\ Apart' /\ Fresh'
  BY <1>1, <1>3, <1>4 DEF IInv, Control, Apart, Fresh
<1>7. \A m : Awaited(m) => Awaited(m)'
  BY <1>1, <1>3 DEF Awaited, Current
<1>8. AnswersTrue' /\ RequestsAwaited'
  BY <1>1, <1>7 DEF IInv, AnswersTrue, RequestsAwaited
<1>9. AttemptsBound'
  <2>1. \A v \in Workers : Made(v)' = Made(v) /\ (pc'[v] # "idle" => pc[v] # "idle")
    BY <1>1, <1>3, <1>4 DEF Made
  <2> QED  BY <1>1, <2>1 DEF IInv, AttemptsBound
<1>10. Serial' /\ StoredOnce'
  BY <1>1, <1>3 DEF IInv, Serial, StoredOnce, Calm
<1>11. LiveApart'
  BY <1>1 DEF IInv, LiveApart, Live, Calm
<1>12. ToSendApart'
  BY <1>1, <1>3 DEF IInv, ToSendApart, Live, Calm
<1>13. Held' = Held
  BY <1>1, <1>3, <1>4 DEF Held, Sending
<1>14. NoPollLost'
  BY <1>1, <1>13 DEF IInv, NoPollLost
<1> QED
  BY <1>5, <1>6, <1>8, <1>9, <1>10, <1>11, <1>12, <1>14 DEF IInv

\* A request is sent.  The worker's earlier attempts are accounted for, and in
\* a calm environment none of them can be stored any more.
LEMMA AttemptStep ==
  ASSUME IInv, NEW w \in Workers, Attempt(w)
  PROVE  IInv'
<1> USE RetriesAssumption, DeliveryBoundsAssumption
<1>1. /\ pc[w] = "attempt" /\ ~cancelled /\ pc' = [pc EXCEPT ![w] = "await"]
      /\ inflight' = inflight \cup {Current(w)}
      /\ UNCHANGED <<env, polls, pending, reports, batch, report, attempt, answers, cancelled, acked, times, stored, gauge>>
  BY DEF Attempt, agentVars, fixedVars, serverVars
<1>2. Types
  BY DEF IInv
<1>3. \A v \in Workers \ {w} : pc'[v] = pc[v]
  BY <1>1, <1>2 DEF Types, TypeOK
<1>4. pc'[w] = "await"
  BY <1>1, <1>2 DEF Types, TypeOK
<1>5. Current(w) \in Message /\ Current(w).id = report[w] /\ report[w] \in Ids /\ report[w] <= reports
  BY <1>1, <1>2 DEF IInv, Control, Types, TypeOK, Current, Message, Ids
<1>6. IsFiniteSet(inflight) /\ IsFiniteSet(inflight')
  BY <1>1, <1>2, FS_AddElement DEF Types
<1>7. Types'
  <2>1. inflight' \subseteq Message
    BY <1>1, <1>2, <1>5 DEF Types, TypeOK
  <2>2. pc' \in [Workers -> {"idle", "prepare", "attempt", "await", "backoff"}]
    BY <1>1, <1>2 DEF Types, TypeOK
  <2> QED  BY <1>1, <1>2, <1>6, <2>1, <2>2 DEF Types, TypeOK, Ids
<1>8. Control' /\ Apart'
  BY <1>1, <1>3, <1>4 DEF IInv, Control, Apart
<1>9. Fresh'
  BY <1>1, <1>5 DEF IInv, Fresh
<1>10. \A m : Awaited(m) => Awaited(m)'
  BY <1>1, <1>3 DEF Awaited, Current
<1>11. \A m : m = Current(w) => Awaited(m)'
  BY <1>1, <1>4 DEF Awaited, Current
<1>12. \A a \in answers : a.to.id # report[w]
  <2> SUFFICES ASSUME NEW a \in answers PROVE a.to.id # report[w]
    OBVIOUS
  <2>1. PICK v \in Workers : pc[v] = "await" /\ Current(v) = a.to
    BY DEF IInv, AnswersTrue, Awaited
  <2>2. a.to.id = report[v]
    BY <2>1 DEF Current
  <2> QED  BY <1>1, <2>1, <2>2 DEF IInv, Apart
<1>13. AnswersTrue'
  BY <1>1, <1>5, <1>10, <1>12 DEF IInv, AnswersTrue
<1>14. AttemptsBound'
  <2>1. ASSUME NEW r \in Ids
        PROVE  /\ Cardinality(OnWay(inflight, r)) \in Nat /\ Cardinality(OnWay(inflight', r)) \in Nat
               /\ Cardinality(OnWay(inflight', r)) <= Cardinality(OnWay(inflight, r)) + (IF report[w] = r THEN 1 ELSE 0)
    BY <1>1, <1>5, <1>6, OnWayFinite, RequestSent
  <2>2. \A v \in Workers : pc'[v] # "idle" => report[v] \in Ids /\ pc[v] # "idle"
    BY <1>1, <1>2, <1>3 DEF IInv, Control, Types, TypeOK, Ids
  <2>3. Made(w)' = Made(w) + 1 /\ Made(w) \in 0..Retries
    BY <1>1, <1>2, <1>4 DEF Made, Types, TypeOK
  <2>4. \A v \in Workers \ {w} : Made(v)' = Made(v) /\ Made(v) \in Nat
    BY <1>1, <1>2, <1>3 DEF Made, Types, TypeOK
  <2>5. stored[report[w]] + Cardinality(OnWay(inflight, report[w])) <= Made(w)
    BY <1>1 DEF IInv, AttemptsBound
  <2>6. ASSUME NEW v \in Workers, pc'[v] # "idle"
        PROVE  stored[report[v]] + Cardinality(OnWay(inflight', report[v])) <= Made(v)'
    <3>1. CASE v = w
      BY <1>2, <1>5, <2>1, <2>3, <2>5, <3>1 DEF Types, TypeOK
    <3>2. CASE v # w
      <4>1. report[v] # report[w] /\ pc[v] # "idle" /\ report[v] \in Ids
        BY <1>1, <2>2, <2>6, <3>2 DEF IInv, Apart
      <4>2. stored[report[v]] + Cardinality(OnWay(inflight, report[v])) <= Made(v)
        BY <4>1 DEF IInv, AttemptsBound
      <4> QED  BY <1>2, <2>1, <2>4, <3>2, <4>1, <4>2 DEF Types, TypeOK
    <3> QED  BY <3>1, <3>2
  <2>7. ASSUME NEW r \in Ids
        PROVE  stored[r] + Cardinality(OnWay(inflight', r)) <= Retries + 1
    <3>1. stored[r] \in Nat /\ stored[r] + Cardinality(OnWay(inflight, r)) <= Retries + 1
      BY <1>2 DEF IInv, AttemptsBound, Types, TypeOK
    <3>2. CASE r = report[w]
      BY <2>1, <2>3, <2>5, <3>1, <3>2
    <3>3. CASE r # report[w]
      BY <2>1, <3>1, <3>3
    <3> QED  BY <3>2, <3>3
  <2> QED  BY <1>1, <2>6, <2>7 DEF AttemptsBound
<1>15. RequestsAwaited'
  BY <1>1, <1>10, <1>11 DEF IInv, RequestsAwaited
<1>16. Serial'
  <2> SUFFICES ASSUME ~env.lossy, Cardinality(env.workers) = 1
               PROVE  Serial'
    BY <1>1 DEF Serial
  <2>1. inflight = {}
    <3> SUFFICES ASSUME NEW m \in inflight PROVE FALSE
      OBVIOUS
    <3>1. PICK v \in Workers : pc[v] = "await"
      BY <1>1 DEF IInv, RequestsAwaited, Awaited
    <3>2. v \in env.workers /\ w \in env.workers /\ v # w
      BY <1>1, <3>1 DEF IInv, Control
    <3> QED  BY <1>2, <3>2, OnlyWorker
  <2>2. report[w] = reports /\ gauge <= reports
    BY <1>1 DEF IInv, Serial, Fresh
  <2> QED  BY <1>1, <1>3, <1>5, <2>1, <2>2 DEF IInv, Serial
<1>17. ASSUME Calm PROVE ~Live(report[w])
  BY <1>1, <1>17 DEF IInv, ToSendApart
<1>18. \A r \in Ids : Live(r)' <=> Live(r) \/ r = report[w]
  BY <1>1, <1>5 DEF Live
<1>19. StoredOnce'
  BY <1>1, <1>2, <1>5, <1>17 DEF IInv, StoredOnce, Live, Calm, Types, TypeOK
<1>20. LiveApart'
  <2> SUFFICES ASSUME Calm PROVE LiveApart'
    BY <1>1 DEF LiveApart, Calm
  <2>1. ASSUME NEW r \in Ids, Live(r), r # report[w]
        PROVE  batch[r] \cap batch[report[w]] = {}
    BY <1>1, <2>1 DEF IInv, ToSendApart
  <2>2. \A r, s \in Ids : Live(r)' /\ Live(s)' /\ r # s => batch[r] \cap batch[s] = {}
    BY <1>18, <2>1 DEF IInv, LiveApart
  <2> QED  BY <1>1, <2>2 DEF IInv, LiveApart
<1>21. ToSendApart'
  <2> SUFFICES ASSUME Calm PROVE ToSendApart'
    BY <1>1 DEF ToSendApart, Calm
  <2> USE DEF IInv, ToSendApart
  <2>1. \A v \in Workers : pc'[v] \in {"prepare", "attempt", "backoff"} => v # w /\ report[v] # report[w] /\ report[v] \in Ids
    BY <1>1, <1>2, <1>3, <1>4 DEF Apart, Control, Types, TypeOK, Ids
  <2>2. \A v \in Workers : pc'[v] \in {"prepare", "attempt", "backoff"} => ~Live(report[v])'
    BY <1>1, <1>3, <1>18, <2>1
  <2>3. \A a \in answers : a.is # "ok" => ~Live(a.to.id)'
    BY <1>1, <1>2, <1>12, <1>18 DEF Types, TypeOK, Message
  <2>4. \A r \in Ids : Live(r)' => pending \cap batch[r] = {}
    BY <1>1, <1>18
  <2>5. \A r \in Ids, v \in Workers :
          Live(r)' /\ pc'[v] # "idle" /\ r # report[v] => batch[r] \cap batch[report[v]] = {}
    BY <1>1, <1>3, <1>18
  <2>6. \A v \in Workers : pc'[v] # "idle" => pc[v] # "idle"
    BY <1>1, <1>3
  <2> QED  BY <1>1, <2>2, <2>3, <2>4, <2>5, <2>6
<1>22. Held' = Held
  BY <1>1, <1>3, <1>4 DEF Held, Sending
<1>23. NoPollLost'
  BY <1>1, <1>22 DEF IInv, NoPollLost
<1> QED
  BY <1>7, <1>8, <1>9, <1>13, <1>14, <1>15, <1>16, <1>19, <1>20, <1>21, <1>23 DEF IInv

\* A worker's attempt, or all of Send, fails: PrepareFails, AttemptRefused,
\* an answer with an error, ConnectionBreaks, RequestCancelled, WaitCancelled.
\* No answer is left; if connections hold, neither is the request, and in a calm
\* environment nothing of the report is stored, unless the deadline has passed.
Fails(w) ==
    /\ pc[w] # "idle"
    /\ \/ pc' = [pc EXCEPT ![w] = "idle"] /\ pending' = pending \cup batch[report[w]]
       \/ /\ pc[w] \in {"attempt", "await"} /\ attempt[w] < Retries
          /\ pc' = [pc EXCEPT ![w] = "backoff"] /\ pending' = pending
    /\ inflight' \in {inflight, inflight \ {Current(w)}}
    /\ answers' = {a \in answers : a.to # Current(w)}
    /\ ~env.lossy => inflight' = inflight
    /\ ~env.lossy /\ ~cancelled => Current(w) \notin inflight
    /\ Calm /\ ~cancelled => ~Live(report[w])
    /\ UNCHANGED <<env, polls, reports, batch, report, attempt, cancelled, acked, times, stored, gauge>>

LEMMA FailsStep ==
  ASSUME IInv, NEW w \in Workers, Fails(w)
  PROVE  IInv'
<1> USE RetriesAssumption, DeliveryBoundsAssumption
<1>1. /\ pc[w] # "idle"
      /\ pc' = [pc EXCEPT ![w] = "idle"] \/ pc' = [pc EXCEPT ![w] = "backoff"]
      /\ UNCHANGED <<env, polls, reports, batch, report, attempt, cancelled, acked, times, stored, gauge>>
  BY DEF Fails
<1>2. Types
  BY DEF IInv
<1>3. \A v \in Workers \ {w} : pc'[v] = pc[v]
  BY <1>1, <1>2 DEF Types, TypeOK
<1>4. \/ pc'[w] = "idle" /\ pending' = pending \cup batch[report[w]]
      \/ pc[w] \in {"attempt", "await"} /\ attempt[w] < Retries /\ pc'[w] = "backoff" /\ pending' = pending
  BY <1>2 DEF Fails, Types, TypeOK
<1>5. report[w] \in Ids
  BY <1>1, <1>2 DEF IInv, Control, Types, TypeOK, Ids
<1>6. inflight' \subseteq inflight /\ IsFiniteSet(inflight')
  BY <1>2, FS_RemoveElement DEF Fails, Types
<1>7. \A v \in Workers : pc'[v] # "idle" => pc[v] # "idle"
  BY <1>1, <1>3
<1>8. Types'
  <2>1. pc' \in [Workers -> {"idle", "prepare", "attempt", "await", "backoff"}]
    BY <1>1, <1>2 DEF Types, TypeOK
  <2>2. pending' \subseteq 1..polls
    BY <1>2, <1>4, <1>5 DEF Types, TypeOK
  <2>3. answers' \subseteq answers
    BY DEF Fails
  <2> QED  BY <1>1, <1>2, <1>6, <2>1, <2>2, <2>3 DEF Types, TypeOK, Ids
<1>9. Control' /\ Apart' /\ Fresh'
  BY <1>1, <1>3, <1>4, <1>6, <1>7 DEF IInv, Control, Apart, Fresh
<1>10. \A m : Awaited(m) /\ m # Current(w) => Awaited(m)'
  BY <1>1, <1>3 DEF Awaited, Current
<1>11. AnswersTrue'
  BY <1>1, <1>6, <1>10 DEF IInv, AnswersTrue, Fails
<1>12. \A r : Cardinality(OnWay(inflight, r)) \in Nat /\ Cardinality(OnWay(inflight', r)) \in Nat
              /\ Cardinality(OnWay(inflight', r)) <= Cardinality(OnWay(inflight, r))
  <2> TAKE r
  <2>1. IsFiniteSet(OnWay(inflight, r)) /\ Cardinality(OnWay(inflight, r)) \in Nat
    BY <1>2, OnWayFinite DEF Types
  <2>2. OnWay(inflight', r) \in SUBSET OnWay(inflight, r)
    BY <1>6 DEF OnWay
  <2> QED  BY <2>1, <2>2, FS_Subset, FS_CardinalityType
<1>13. AttemptsBound'
  <2>1. \A v \in Workers : pc'[v] # "idle" => Made(v)' >= Made(v) /\ Made(v)' \in Nat /\ Made(v) \in Nat
    BY <1>1, <1>2, <1>3, <1>4 DEF Made, Types, TypeOK
  <2>2. ASSUME NEW v \in Workers, pc'[v] # "idle"
        PROVE  stored[report[v]] + Cardinality(OnWay(inflight', report[v])) <= Made(v)'
    <3>1. pc[v] # "idle" /\ report[v] \in Ids
      BY <1>2, <1>7, <2>2 DEF IInv, Control, Types, TypeOK, Ids
    <3>2. stored[report[v]] \in Nat /\ stored[report[v]] + Cardinality(OnWay(inflight, report[v])) <= Made(v)
      BY <1>2, <3>1 DEF IInv, AttemptsBound, Types, TypeOK
    <3> QED  BY <1>12, <2>1, <2>2, <3>2
  <2>3. \A r \in Ids : stored[r] + Cardinality(OnWay(inflight', r)) <= Retries + 1
    BY <1>2, <1>12 DEF IInv, AttemptsBound, Types, TypeOK
  <2> QED  BY <1>1, <2>2, <2>3 DEF AttemptsBound
<1>14. RequestsAwaited'
  BY <1>1, <1>6, <1>10 DEF IInv, RequestsAwaited, Fails
<1>15. Serial' /\ StoredOnce'
  BY <1>1, <1>6, <1>7 DEF IInv, Serial, StoredOnce, Calm
<1>16. \A r : Live(r)' => Live(r)
  BY <1>1, <1>6 DEF Live
<1>17. LiveApart'
  BY <1>1, <1>16 DEF IInv, LiveApart, Calm
<1>18. ToSendApart'
  <2> SUFFICES ASSUME Calm, ~cancelled PROVE ToSendApart'
    BY <1>1 DEF ToSendApart, Calm
  <2> USE DEF IInv, ToSendApart
  <2>1. ~Live(report[w])
    BY DEF Fails
  <2>2. \A v \in Workers : pc'[v] \in {"prepare", "attempt", "backoff"} => ~Live(report[v])
    BY <1>3, <1>4, <2>1
  <2>3. answers' \subseteq answers
    BY DEF Fails
  <2>4. \A r \in Ids : Live(r) => pending' \cap batch[r] = {}
    BY <1>1, <1>4, <2>1
  <2>5. \A v \in Workers : pc'[v] # "idle" => pending' \cap batch[report[v]] = {}
    BY <1>1, <1>3, <1>4
  <2>6. \A v \in Workers : Live(report[v])' => Live(report[v])
    BY <1>1, <1>16
  <2> QED  BY <1>1, <1>7, <1>16, <2>2, <2>3, <2>4, <2>5, <2>6
<1>19. NoPollLost'
  <2>1. pending' \cup Held' = pending \cup Held
    BY <1>1, <1>3, <1>4 DEF Held, Sending
  <2> QED  BY <1>1, <2>1 DEF IInv, NoPollLost
<1> QED
  BY <1>8, <1>9, <1>11, <1>13, <1>14, <1>15, <1>17, <1>18, <1>19 DEF IInv

\* Nobody waits for the next attempt of a worker before it is made.
LEMMA NotAwaited ==
  ASSUME IInv, NEW w \in Workers, pc[w] \notin {"idle", "await"}
  PROVE  /\ ~Awaited(Current(w))
         /\ answers = {a \in answers : a.to # Current(w)}
         /\ ~env.lossy /\ ~cancelled => Current(w) \notin inflight
<1>1. ~Awaited(Current(w))
  BY DEF IInv, Apart, Awaited, Current
<1> QED  BY <1>1 DEF IInv, AnswersTrue, RequestsAwaited

\* The outcomes of a failed attempt.
LEMMA AttemptFailsCases ==
  ASSUME Types, NEW w \in Workers, NEW e, pc[w] \in {"attempt", "await"}, AttemptFails(w, e)
  PROVE  /\ \/ pc' = [pc EXCEPT ![w] = "idle"] /\ pending' = pending \cup batch[report[w]]
            \/ attempt[w] < Retries /\ pc' = [pc EXCEPT ![w] = "backoff"] /\ pending' = pending
         /\ UNCHANGED <<polls, reports, batch, report, attempt, acked>>
  BY RetriesAssumption DEF AttemptFails, SendFails, Restore, LastAttempt, Types, TypeOK, agentVars

LEMMA SendFailsStep ==
  ASSUME IInv, NEW w \in Workers, PrepareFails(w) \/ WaitCancelled(w)
  PROVE  IInv'
<1>1. /\ pc[w] \in {"prepare", "backoff"} /\ pc' = [pc EXCEPT ![w] = "idle"]
      /\ pc[w] = "prepare" \/ cancelled
      /\ pending' = pending \cup batch[report[w]]
      /\ UNCHANGED <<env, polls, reports, batch, report, attempt, inflight, answers, cancelled, acked, times, stored, gauge>>
  BY DEF PrepareFails, WaitCancelled, SendFails, Restore, fixedVars, serverVars
<1>2. Calm /\ ~cancelled => ~Live(report[w])
  BY <1>1 DEF IInv, ToSendApart
<1>3. Fails(w)
  BY <1>1, <1>2, NotAwaited DEF Fails
<1> QED  BY <1>3, FailsStep

LEMMA AttemptRefusedStep ==
  ASSUME IInv, NEW w \in Workers, AttemptRefused(w)
  PROVE  IInv'
<1>1. /\ pc[w] = "attempt" /\ cancelled /\ AttemptFails(w, "canceled")
      /\ UNCHANGED <<env, inflight, answers, cancelled, times, stored, gauge>>
  BY DEF AttemptRefused, fixedVars, serverVars
<1>2. /\ \/ pc' = [pc EXCEPT ![w] = "idle"] /\ pending' = pending \cup batch[report[w]]
         \/ attempt[w] < Retries /\ pc' = [pc EXCEPT ![w] = "backoff"] /\ pending' = pending
      /\ UNCHANGED <<polls, reports, batch, report, attempt, acked>>
  BY <1>1, AttemptFailsCases DEF IInv
<1>3. Fails(w)
  BY <1>1, <1>2, NotAwaited DEF Fails
<1> QED  BY <1>3, FailsStep

LEMMA AbandonedStep ==
  ASSUME IInv, NEW w \in Workers, ConnectionBreaks(w) \/ RequestCancelled(w)
  PROVE  IInv'
<1>1. /\ pc[w] = "await" /\ (env.lossy \/ cancelled)
      /\ AttemptFails(w, "network") \/ AttemptFails(w, "canceled")
      /\ inflight' \in {inflight, inflight \ {Current(w)}} /\ (~env.lossy => inflight' = inflight)
      /\ answers' = {a \in answers : a.to # Current(w)}
      /\ UNCHANGED <<env, cancelled, times, stored, gauge>>
  BY DEF ConnectionBreaks, RequestCancelled, fixedVars, serverVars
<1>2. /\ \/ pc' = [pc EXCEPT ![w] = "idle"] /\ pending' = pending \cup batch[report[w]]
         \/ attempt[w] < Retries /\ pc' = [pc EXCEPT ![w] = "backoff"] /\ pending' = pending
      /\ UNCHANGED <<polls, reports, batch, report, attempt, acked>>
  BY <1>1, AttemptFailsCases DEF IInv
<1>3. Fails(w)
  BY <1>1, <1>2 DEF Fails, Calm
<1> QED  BY <1>3, FailsStep

\* A good answer: the polls of the report are on the server.
LEMMA AnsweredOkStep ==
  ASSUME IInv, NEW w \in Workers, NEW a \in answers, pc[w] = "await", a.to = Current(w), a.is = "ok",
         answers' = answers \ {a}, pc' = [pc EXCEPT ![w] = "idle"], acked' = acked \cup batch[report[w]],
         UNCHANGED <<env, polls, pending, reports, batch, report, attempt, inflight, cancelled, times, stored, gauge>>
  PROVE  IInv'
<1> USE RetriesAssumption, DeliveryBoundsAssumption
<1>1. Types
  BY DEF IInv
<1>2. pc'[w] = "idle" /\ \A v \in Workers \ {w} : pc'[v] = pc[v]
  BY <1>1 DEF Types, TypeOK
<1>3. \A v \in Workers : pc'[v] # "idle" => pc[v] # "idle" /\ pc'[v] = pc[v]
  BY <1>2
<1>4. report[w] \in Ids /\ a.to.id = report[w]
  BY <1>1 DEF IInv, Control, Types, TypeOK, Ids, Current
<1>5. Types'
  <2>1. pc' \in [Workers -> {"idle", "prepare", "attempt", "await", "backoff"}]
    BY <1>1 DEF Types, TypeOK
  <2>2. acked' \subseteq 1..polls
    BY <1>1, <1>4 DEF Types, TypeOK
  <2> QED  BY <1>1, <2>1, <2>2 DEF Types, TypeOK, Ids
<1>6. Control' /\ Apart' /\ Fresh'
  BY <1>3 DEF IInv, Control, Apart, Fresh
<1>7. \A m : Awaited(m) /\ m # Current(w) => Awaited(m)'
  BY <1>2 DEF Awaited, Current
<1>8. AnswersTrue' /\ RequestsAwaited'
  BY <1>7 DEF IInv, AnswersTrue, RequestsAwaited
<1>9. AttemptsBound'
  BY <1>3 DEF IInv, AttemptsBound, Made
<1>10. Serial' /\ StoredOnce' /\ LiveApart' /\ ToSendApart'
  BY <1>3 DEF IInv, Serial, StoredOnce, LiveApart, ToSendApart, Live, Calm
<1>11. \A p \in batch[report[w]] : times[p] > 0
  BY <1>4 DEF IInv, AnswersTrue
<1>12. NoPollLost'
  <2> SUFFICES ASSUME NEW p \in 1..polls, times[p] = 0
               PROVE  p \in pending \cup Held'
    BY DEF NoPollLost
  <2>1. p \notin batch[report[w]]
    BY <1>1, <1>11 DEF Types, TypeOK
  <2> QED  BY <1>2, <2>1 DEF IInv, NoPollLost, Held, Sending
<1> QED
  BY <1>5, <1>6, <1>8, <1>9, <1>10, <1>12 DEF IInv

LEMMA AnsweredStep ==
  ASSUME IInv, NEW w \in Workers, Answered(w)
  PROVE  IInv'
<1>1. PICK a \in answers :
        /\ a.to = Current(w) /\ answers' = answers \ {a}
        /\ IF a.is = "ok"
           THEN /\ pc' = [pc EXCEPT ![w] = "idle"]
                /\ acked' = acked \cup batch[report[w]]
                /\ UNCHANGED <<agentVars, report, attempt>>
           ELSE AttemptFails(w, a.is)
  BY DEF Answered
<1>2. pc[w] = "await" /\ UNCHANGED <<env, inflight, cancelled, times, stored, gauge>>
  BY DEF Answered, fixedVars, serverVars
<1>3. CASE a.is = "ok"
  BY <1>1, <1>2, <1>3, AnsweredOkStep DEF agentVars
<1>4. CASE a.is # "ok"
  <2>1. /\ \/ pc' = [pc EXCEPT ![w] = "idle"] /\ pending' = pending \cup batch[report[w]]
           \/ attempt[w] < Retries /\ pc' = [pc EXCEPT ![w] = "backoff"] /\ pending' = pending
        /\ UNCHANGED <<polls, reports, batch, report, attempt, acked>>
    BY <1>1, <1>2, <1>4, AttemptFailsCases DEF IInv
  <2>2. answers' = {b \in answers : b.to # Current(w)} /\ Current(w) \notin inflight
    BY <1>1 DEF IInv, AnswersTrue
  <2>3. a.to.id = report[w]
    BY <1>1 DEF Current
  <2>4. Calm /\ ~cancelled => ~Live(report[w])
    BY <1>4, <2>3 DEF IInv, ToSendApart
  <2>5. Fails(w)
    BY <1>2, <2>1, <2>2, <2>4 DEF Fails
  <2> QED  BY <2>5, FailsStep
<1> QED  BY <1>3, <1>4

-----------------------------------------------------------------------------
(* The server.                                                              *)

\* A request is handled: stored or not, and answered.  What is stored was
\* stored for an attempt that was counted already.
LEMMA HandleStep ==
  ASSUME IInv, NEW m \in inflight, Handle(m)
  PROVE  IInv'
<1> USE RetriesAssumption, DeliveryBoundsAssumption
<1>1. PICK st \in {"ok"} \cup Errors :
        /\ Answer(m, st)
        /\ \/ Store(m) /\ (st = "ok" \/ env.saveMayFail)
           \/ UNCHANGED serverVars /\ st # "ok"
  <2>1. env.rejections \subseteq Errors \ {"ok"}
    BY DEF IInv, Types, TypeOK, Environment, Errors
  <2> QED  BY <2>1 DEF Handle, Reject, Accept, AcceptThenFail, Errors
<1>2. /\ inflight' = inflight \ {m}
      /\ answers' \subseteq answers \cup {[to |-> m, is |-> st]}
      /\ [to |-> m, is |-> st] \in answers' => Awaited(m)
      /\ UNCHANGED <<env, polls, pending, reports, batch, pc, report, attempt, cancelled, acked>>
  <2>1. \A a \in answers : a.to # m
    BY DEF IInv, AnswersTrue
  <2> QED  BY <1>1, <2>1 DEF Answer, agentVars, senderVars, fixedVars
<1>3. Types
  BY DEF IInv
<1>4. m.id \in Ids /\ m.id <= reports /\ m \in Message
  BY <1>3 DEF IInv, Types, TypeOK, Message, Fresh
<1>5. times' \in [Polls -> Nat] /\ \A p \in Polls : times'[p] >= times[p] /\ times'[p] \in Nat /\ times[p] \in Nat
  BY <1>1, <1>3 DEF Store, serverVars, Types, TypeOK
<1>6. stored' \in [Ids -> Nat] /\ \A r \in Ids : stored'[r] = stored[r] \/ (r = m.id /\ stored'[r] = stored[r] + 1)
  <2>1. stored \in [Ids -> Nat]
    BY <1>3 DEF Types, TypeOK
  <2>2. CASE stored' = stored
    BY <2>1, <2>2
  <2>3. CASE stored' = [stored EXCEPT ![m.id] = @ + 1]
    BY <1>4, <2>1, <2>3
  <2> QED  BY <1>1, <2>2, <2>3 DEF Store, serverVars
<1>7. gauge' \in {gauge, m.id}
  BY <1>1 DEF Store, serverVars
<1>8. Types'
  <2>1. gauge' \in 0..MaxReports
    BY <1>3, <1>4, <1>7 DEF Types, TypeOK, Ids
  <2>2. IsFiniteSet(inflight')
    BY <1>2, <1>3, FS_RemoveElement DEF Types
  <2>3. [to |-> m, is |-> st] \in [to : Message, is : {"ok"} \cup Errors]
    BY <1>4
  <2>4. answers' \subseteq [to : Message, is : {"ok"} \cup Errors]
    BY <1>2, <1>3, <2>3 DEF Types, TypeOK
  <2> QED  BY <1>2, <1>3, <1>5, <1>6, <2>1, <2>2, <2>4 DEF Types, TypeOK, Ids
<1>9. Control' /\ Apart'
  BY <1>2 DEF IInv, Control, Apart
<1>10. Fresh'
  BY <1>2, <1>3, <1>4, <1>6, <1>7 DEF IInv, Fresh, Types, TypeOK, Ids
<1>11. \A n : Awaited(n)' <=> Awaited(n)
  BY <1>2 DEF Awaited, Current
<1>12. AnswersTrue'
  <2>1. st = "ok" => \A p \in batch[m.id] : times'[p] > 0
    BY <1>1, <1>3, <1>4, <1>5 DEF Store, serverVars, Types, TypeOK
  <2>2. \A a \in answers : a.to # m /\ Awaited(a.to) /\ a.to \notin inflight'
    BY <1>2 DEF IInv, AnswersTrue
  <2>3. ASSUME NEW a \in answers, a.is = "ok", NEW p \in batch[a.to.id]
        PROVE  times'[p] > 0
    <3>1. p \in Polls
      BY <1>3, <2>3 DEF Types, TypeOK, Message
    <3>2. times[p] > 0
      BY <2>3 DEF IInv, AnswersTrue
    <3> QED  BY <1>5, <3>1, <3>2
  <2>4. \A a, b \in answers' : a.to = b.to => a = b
    BY <1>2, <2>2 DEF IInv, AnswersTrue
  <2> QED  BY <1>2, <1>11, <2>1, <2>2, <2>3, <2>4 DEF AnswersTrue
<1>13. \A r \in Ids : /\ Cardinality(OnWay(inflight, r)) \in Nat
                      /\ stored'[r] + Cardinality(OnWay(inflight', r)) <= stored[r] + Cardinality(OnWay(inflight, r))
                      /\ stored[r] \in Nat /\ stored'[r] \in Nat /\ Cardinality(OnWay(inflight', r)) \in Int
  <2> TAKE r \in Ids
  <2>1. Cardinality(OnWay(inflight, r)) \in Nat
    BY <1>3, OnWayFinite DEF Types
  <2>2. Cardinality(OnWay(inflight', r)) = Cardinality(OnWay(inflight, r)) - (IF m.id = r THEN 1 ELSE 0)
    BY <1>2, <1>3, RequestLeaves DEF Types
  <2>3. stored[r] \in Nat
    BY <1>3 DEF Types, TypeOK
  <2> QED  BY <1>6, <2>1, <2>2, <2>3
<1>14. AttemptsBound'
  <2>1. \A r \in Ids : stored'[r] + Cardinality(OnWay(inflight', r)) <= Retries + 1
    BY <1>13 DEF IInv, AttemptsBound
  <2>2. ASSUME NEW v \in Workers, pc[v] # "idle"
        PROVE  stored'[report[v]] + Cardinality(OnWay(inflight', report[v])) <= Made(v)
    <3>1. report[v] \in Ids /\ Made(v) \in Nat
      BY <1>3, <2>2 DEF IInv, Control, Types, TypeOK, Ids, Made
    <3>2. stored[report[v]] + Cardinality(OnWay(inflight, report[v])) <= Made(v)
      BY <2>2 DEF IInv, AttemptsBound
    <3> QED  BY <1>13, <3>1, <3>2
  <2>3. \A v \in Workers : Made(v)' = Made(v)
    BY <1>2 DEF Made
  <2> QED  BY <1>2, <2>1, <2>2, <2>3 DEF AttemptsBound
<1>15. RequestsAwaited'
  BY <1>2, <1>11 DEF IInv, RequestsAwaited
<1>16. Serial'
  BY <1>2, <1>7 DEF IInv, Serial
<1>17. \A r \in Ids : Live(r)' => Live(r)
  BY <1>2, <1>6 DEF Live
<1>18. Live(m.id)
  BY DEF Live
<1>19. Calm => stored[m.id] = 0 /\ \A n \in inflight : n.id = m.id => n = m
  BY <1>3, <1>4 DEF IInv, StoredOnce, Types, TypeOK
<1>20. StoredOnce'
  BY <1>2, <1>3, <1>6, <1>19 DEF IInv, StoredOnce, Calm, Types, TypeOK
<1>21. LiveApart'
  <2> SUFFICES ASSUME Calm PROVE LiveApart'
    BY <1>2 DEF LiveApart, Calm
  <2>1. \A r, s \in Ids : Live(r)' /\ Live(s)' /\ r # s => batch[r] \cap batch[s] = {}
    BY <1>17 DEF IInv, LiveApart
  <2>2. ASSUME NEW p \in Polls
        PROVE  times'[p] <= 1 /\ (times'[p] = 1 => \E r \in Ids : p \in batch[r] /\ stored'[r] = 1)
    <3>1. times[p] \in Nat /\ times[p] <= 1 /\ (times[p] = 1 => \E r \in Ids : p \in batch[r] /\ stored[r] = 1)
      BY <1>5 DEF IInv, LiveApart
    <3>2. CASE Store(m) /\ p \in batch[m.id]
      <4>1. ASSUME NEW r \in Ids, p \in batch[r], stored[r] = 1 PROVE FALSE
        <5>1. Live(r) /\ r # m.id
          BY <1>19, <4>1 DEF Live
        <5> QED  BY <1>4, <1>18, <3>2, <4>1, <5>1 DEF IInv, LiveApart
      <4>2. times[p] = 0
        BY <3>1, <4>1
      <4>3. times'[p] = 1 /\ stored'[m.id] = 1
        BY <1>3, <1>4, <1>19, <3>2, <4>2 DEF Store, Types, TypeOK
      <4> QED  BY <1>4, <3>2, <4>3
    <3>3. CASE ~(Store(m) /\ p \in batch[m.id])
      <4>1. times'[p] = times[p]
        BY <1>1, <1>3, <3>3 DEF Store, serverVars, Types, TypeOK
      <4>2. \A r \in Ids : stored[r] = 1 => stored'[r] = 1
        BY <1>6, <1>19
      <4> QED  BY <3>1, <4>1, <4>2
    <3> QED  BY <3>2, <3>3
  <2> QED  BY <1>2, <2>1, <2>2 DEF LiveApart
<1>22. ToSendApart'
  <2> SUFFICES ASSUME Calm, ~cancelled PROVE ToSendApart'
    BY <1>2 DEF ToSendApart, Calm
  <2> USE DEF IInv, ToSendApart
  <2>1. \A v \in Workers : pc[v] # "idle" => report[v] \in Ids
    BY <1>3 DEF Control, Types, TypeOK, Ids
  <2>2. \A a \in answers : a.to.id \in Ids
    BY <1>3 DEF Types, TypeOK, Message
  <2>3. st # "ok" => ~Live(m.id)'
    BY <1>1, <1>2, <1>19 DEF Calm, Live, serverVars
  <2>4. \A a \in answers' : a.is # "ok" => ~Live(a.to.id)'
    BY <1>2, <1>17, <2>2, <2>3
  <2>5. \A v \in Workers : pc[v] \in {"prepare", "attempt", "backoff"} => ~Live(report[v])'
    BY <1>2, <1>17, <2>1
  <2> QED  BY <1>2, <1>17, <2>4, <2>5
<1>23. NoPollLost'
  <2>1. Held' = Held
    BY <1>2 DEF Held, Sending
  <2>2. \A p \in 1..polls : p \in Polls
    BY <1>3 DEF Types, TypeOK, Polls
  <2> QED  BY <1>2, <1>5, <2>1, <2>2 DEF IInv, NoPollLost
<1> QED
  BY <1>8, <1>9, <1>10, <1>12, <1>14, <1>15, <1>16, <1>20, <1>21, <1>22, <1>23 DEF IInv

-----------------------------------------------------------------------------
(* The theorems.                                                            *)

\* A stuttering step changes nothing the invariant speaks of.
LEMMA StutterStep ==
  ASSUME IInv, UNCHANGED vars
  PROVE  IInv'
<1>1. SendKept /\ UNCHANGED <<polls, pending, cancelled, acked>>
  BY DEF vars, SendKept
<1>2. Control' /\ Apart' /\ Fresh' /\ AnswersTrue' /\ AttemptsBound' /\ Serial' /\ StoredOnce' /\ LiveApart'
  BY <1>1, SendKeptIInv
<1>3. Types'
  BY <1>1 DEF IInv, Types, TypeOK, SendKept
<1>4. RequestsAwaited'
  BY <1>1 DEF IInv, RequestsAwaited, Awaited, Current, SendKept
<1>5. ToSendApart'
  BY <1>1 DEF IInv, ToSendApart, Calm, Live, SendKept
<1>6. NoPollLost'
  BY <1>1 DEF IInv, NoPollLost, Held, Sending, SendKept
<1> QED  BY <1>2, <1>3, <1>4, <1>5, <1>6 DEF IInv

LEMMA NextIInv == IInv /\ [Next]_vars => IInv'
<1> SUFFICES ASSUME IInv, [Next]_vars PROVE IInv'
  OBVIOUS
<1>1. CASE Poll
  BY <1>1, PollStep
<1>2. CASE CancelSend
  BY <1>2, CancelSendStep
<1>3. CASE \E w \in Workers : Take(w) \/ Send(w)
  <2>1. PICK w \in Workers : Take(w) \/ Send(w)
    BY <1>3
  <2>2. CASE Take(w)
    BY <2>2, TakeStep
  <2>3. CASE Prepare(w) \/ RetryTimer(w)
    BY <2>3, ReadyStep
  <2>4. CASE PrepareFails(w) \/ WaitCancelled(w)
    BY <2>4, SendFailsStep
  <2>5. CASE Attempt(w)
    BY <2>5, AttemptStep
  <2>6. CASE AttemptRefused(w)
    BY <2>6, AttemptRefusedStep
  <2>7. CASE Answered(w)
    BY <2>7, AnsweredStep
  <2>8. CASE ConnectionBreaks(w) \/ RequestCancelled(w)
    BY <2>8, AbandonedStep
  <2> QED  BY <2>1, <2>2, <2>3, <2>4, <2>5, <2>6, <2>7, <2>8 DEF Send
<1>4. CASE \E m \in inflight : Handle(m)
  BY <1>4, HandleStep
<1>5. CASE UNCHANGED vars
  BY <1>5, StutterStep
<1> QED  BY <1>1, <1>2, <1>3, <1>4, <1>5 DEF Next, Quiet

\* Every step of senders, network and server keeps the invariant, for any number
\* of workers, polls, reports and retries.
THEOREM Inductive == Spec => []IInv
  BY InitIInv, NextIInv, PTL DEF Spec

\* The state of the agent's senders, the network and the server has its type.
THEOREM TypeCorrect == Spec => []TypeOK
<1>1. IInv => TypeOK
  BY DEF IInv, Types
<1> QED  BY <1>1, Inductive, PTL

\* At least once: whatever is lost, refused, retried or cancelled, a poll the
\* server has not added is in the accumulator or in a report being sent.
THEOREM NoPollLostAlways == Spec => []NoPollLost
<1>1. IInv => NoPollLost
  BY DEF IInv
<1> QED  BY <1>1, Inductive, PTL

\* A report is counted at most once per attempt, 1 + len(retryDelays) times in
\* all, and in a calm environment the server adds each poll at most once.
THEOREM CountBoundedAlways == Spec => []CountBounded
<1>1. IInv => CountBounded
  BY DEF IInv, AttemptsBound, OnWay, LiveApart, Calm, CountBounded
<1> QED  BY <1>1, Inductive, PTL

\* With one worker and connections that hold, gauges on the server never go
\* back to an older report.
THEOREM GaugesInOrderAlways == Spec => GaugesInOrder
<1>1. ASSUME IInv, [Next]_vars, ~env.lossy, Cardinality(env.workers) = 1
      PROVE  gauge' >= gauge
  <2>1. gauge \in Nat
    BY <1>1 DEF IInv, Types, TypeOK
  <2>2. CASE gauge' = gauge
    BY <2>1, <2>2
  <2>3. CASE \E m \in inflight : Handle(m)
    <3>1. PICK m \in inflight : Handle(m)
      BY <2>3
    <3>2. m.id >= gauge /\ gauge' \in {gauge, m.id}
      BY <1>1, <3>1 DEF IInv, Serial, Handle, Reject, Accept, AcceptThenFail, Store, serverVars
    <3> QED  BY <2>1, <3>2
  <2>4. gauge' = gauge \/ \E m \in inflight : Handle(m)
    BY <1>1 DEF Next, Poll, CancelSend, Take, Send, Prepare, PrepareFails, Attempt, AttemptRefused, Answered,
                ConnectionBreaks, RequestCancelled, RetryTimer, WaitCancelled, Quiet, serverVars, vars
  <2> QED  BY <2>2, <2>3, <2>4
<1>2. IInv /\ [Next]_vars => [~env.lossy /\ Cardinality(env.workers) = 1 => gauge' >= gauge]_vars
  BY <1>1
<1> QED  BY <1>2, Inductive, PTL DEF Spec, GaugesInOrder
=============================================================================
