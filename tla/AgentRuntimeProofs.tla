------------------------- MODULE AgentRuntimeProofs -------------------------
(***************************************************************************)
(* Proofs about AgentRuntime, for any number of workers, any rate limit,   *)
(* any number of gauges and any bound on polls.                            *)
(***************************************************************************)
EXTENDS AgentRuntime, FiniteSetTheorems, TLAPS

LEMMA NoReportType == NoReport \in Report
  BY NGaugesAssumption DEF NoReport, Report, Gauges

LEMMA ReportType ==
  ASSUME NEW r \in Report
  PROVE  /\ r.PollCount \in Nat
         /\ r.polls \in SUBSET Nat
         /\ r.gauges \in [Gauges -> Nat]
  BY DEF Report

LEMMA PreparedType ==
  ASSUME TypeOK
  PROVE  /\ Swapped \in Report
         /\ \A r \in Report : Built(r) \in Report
  BY NGaugesAssumption DEF Swapped, Built, NoReport, Report, TypeOK, Gauges

\* Type correctness of the agent: every variable keeps its type and the
\* queue never exceeds its capacity, whatever the goroutines interleave.
THEOREM TypeCorrect == Spec => []TypeOK
<1>1. Init => TypeOK
  <2> SUFFICES ASSUME Init PROVE TypeOK
    OBVIOUS
  <2>1. sendQueue \in Seq(Report) /\ Len(sendQueue) <= RateLimit
    BY RateLimitAssumption DEF Init
  <2>2. written \in 0..NGauges /\ gauges \in [Gauges -> Nat]
    BY NGaugesAssumption DEF Init
  <2>3. closed \in BOOLEAN /\ ctxDone \in BOOLEAN /\ sendCancelled \in BOOLEAN /\ expired \in BOOLEAN
    BY DEF Init
  <2> QED BY <2>1, <2>2, <2>3, NoReportType DEF Init, TypeOK
<1>2. TypeOK /\ [Next]_vars => TypeOK'
  <2> SUFFICES ASSUME TypeOK, [Next]_vars PROVE TypeOK'
    OBVIOUS
  <2> USE NoReportType, PreparedType, NGaugesAssumption
  <2> USE DEF serviceVars, serverVars, runtimeVars, reportVars, queueVars, workerVars, runVars, ctxVars
  <2>t. ASSUME NEW r \in Report
        PROVE  /\ pollSinceReport + r.PollCount \in Nat
               /\ reported + r.PollCount \in Nat
               /\ unsent \cup r.polls \in SUBSET Nat
               /\ acked \cup r.polls \in SUBSET Nat
    <3>1. r.PollCount \in Nat /\ r.polls \in SUBSET Nat
      BY ReportType
    <3>2. pollSinceReport \in Nat /\ reported \in Nat /\ unsent \in SUBSET Nat /\ acked \in SUBSET Nat
      BY DEF TypeOK
    <3>3. pollSinceReport + r.PollCount \in Nat /\ reported + r.PollCount \in Nat
      BY <3>1, <3>2
    <3>4. unsent \cup r.polls \in SUBSET Nat /\ acked \cup r.polls \in SUBSET Nat
      BY <3>1, <3>2, Zenon
    <3> QED BY <3>3, <3>4
  <2>1. CASE RuntimeLoop
    <3>1. CASE RuntimeTick
      BY <3>1 DEF RuntimeTick, TypeOK
    <3>2. CASE WriteGauge
      BY <3>2 DEF WriteGauge, TypeOK, Gauges
    <3>3. CASE CountPoll
      BY <3>3 DEF CountPoll, TypeOK
    <3>4. CASE RuntimeStop
      BY <3>4 DEF RuntimeStop, TypeOK
    <3> QED BY <2>1, <3>1, <3>2, <3>3, <3>4 DEF RuntimeLoop
  <2>2. CASE SystemLoop
    <3>1. UNCHANGED <<serviceVars, runtimeVars, reportVars, queueVars, workerVars, runVars, ctxVars>>
      BY <2>2 DEF SystemLoop, InitSystemPoll, PollSystem, SystemStop, SystemLoopStep
    <3>2. systemLoop' \in {"init", "select", "memory", "cpu", "stopped"}
      BY <2>2 DEF SystemLoop, InitSystemPoll, PollSystem, SystemStop, SystemLoopStep
    <3> QED BY <3>1, <3>2 DEF TypeOK
  <2>3. CASE ReportLoop
    <3>1. CASE ReportTick
      BY <3>1 DEF ReportTick, TypeOK, Swap
    <3>2. CASE BuildReport
      BY <3>2 DEF BuildReport, TypeOK
    <3>3. CASE BuildReportFails
      BY <3>3, <2>t DEF BuildReportFails, TypeOK, Restore
    <3>4. CASE Enqueue
      <4>1. sendQueue' \in Seq(Report) /\ Len(sendQueue') = Len(sendQueue) + 1
        BY <3>4 DEF Enqueue, TypeOK
      <4>2. Len(sendQueue') <= RateLimit
        BY <3>4, <4>1, RateLimitAssumption DEF Enqueue, TypeOK, QueueHasRoom
      <4> QED BY <3>4, <4>1, <4>2 DEF Enqueue, TypeOK
    <3>5. CASE EnqueueFull
      BY <3>5, <2>t DEF EnqueueFull, TypeOK, Restore
    <3>6. CASE ReportStop
      BY <3>6 DEF ReportStop, TypeOK
    <3> QED BY <2>3, <3>1, <3>2, <3>3, <3>4, <3>5, <3>6 DEF ReportLoop
  <2>4. ASSUME NEW w \in Workers, Worker(w) PROVE TypeOK'
    <3>1. CASE WorkerReceive(w)
      <4>1. Head(sendQueue) \in Report /\ Tail(sendQueue) \in Seq(Report)
            /\ Len(Tail(sendQueue)) <= RateLimit
        BY <3>1, RateLimitAssumption DEF WorkerReceive, TypeOK
      <4> QED BY <3>1, <4>1 DEF WorkerReceive, TypeOK
    <3>2. CASE WorkerSendOk(w)
      BY <3>2, <2>t DEF WorkerSendOk, Acknowledge, TypeOK
    <3>3. CASE WorkerSendFails(w)
      BY <3>3, <2>t DEF WorkerSendFails, Restore, TypeOK
    <3>4. CASE WorkerStop(w)
      BY <3>4 DEF WorkerStop, TypeOK
    <3> QED BY <2>4, <3>1, <3>2, <3>3, <3>4 DEF Worker
  <2>5. CASE Cancel
    BY <2>5 DEF Cancel, TypeOK
  <2>6. CASE DeadlineExpires
    BY <2>6 DEF DeadlineExpires, TypeOK
  <2>7. CASE Run
    <3>1. CASE ShutdownBegins
      BY <3>1 DEF ShutdownBegins, TypeOK
    <3>2. CASE CloseQueue
      BY <3>2 DEF CloseQueue, TypeOK
    <3>3. CASE WorkersFinished
      BY <3>3, <2>t DEF WorkersFinished, TypeOK
    <3>4. CASE WaitTimesOut
      BY <3>4 DEF WaitTimesOut, TypeOK, Return
    <3>5. CASE FlushSwap
      BY <3>5, <2>t DEF FlushSwap, TypeOK, Swap
    <3>6. CASE FlushBuild
      BY <3>6, <2>t DEF FlushBuild, TypeOK
    <3>7. CASE FlushFails
      BY <3>7, <2>t DEF FlushFails, TypeOK, Restore, Return
    <3>8. CASE FlushOk
      BY <3>8, <2>t DEF FlushOk, TypeOK, Acknowledge, Return
    <3> QED BY <2>7, <3>1, <3>2, <3>3, <3>4, <3>5, <3>6, <3>7, <3>8 DEF Run
  <2>8. CASE UNCHANGED vars
    BY <2>8 DEF vars, TypeOK
  <2> QED BY <2>1, <2>2, <2>3, <2>4, <2>5, <2>6, <2>7, <2>8 DEF Next, Exited
<1> QED BY <1>1, <1>2, PTL DEF Spec
-----------------------------------------------------------------------------
(* Control of the shutdown.                                                 *)

LEMMA ControlInit == Init => Control
  BY DEF Init, Control, LoopsStopped, WorkersDone, Drained

LEMMA WorkersNonEmpty == Workers # {}
  BY WorkersAssumption, RateLimitAssumption, FS_EmptySet

LEMMA ControlStep ==
  ASSUME TypeOK, Control, [Next]_vars
  PROVE  Control'
<1> USE DEF serviceVars, serverVars, runtimeVars, reportVars, queueVars, workerVars, runVars, ctxVars
<1>1. CASE RuntimeLoop
  <2>1. CASE RuntimeTick
    BY <2>1 DEF RuntimeTick, Control, LoopsStopped, WorkersDone, Drained
  <2>2. CASE WriteGauge
    BY <2>2 DEF WriteGauge, Control, LoopsStopped, WorkersDone, Drained
  <2>3. CASE CountPoll
    BY <2>3 DEF CountPoll, Control, LoopsStopped, WorkersDone, Drained
  <2>4. CASE RuntimeStop
    BY <2>4 DEF RuntimeStop, Control, LoopsStopped, WorkersDone, Drained
  <2> QED BY <1>1, <2>1, <2>2, <2>3, <2>4 DEF RuntimeLoop
<1>2. CASE SystemLoop
  <2>1. CASE InitSystemPoll
    BY <2>1 DEF InitSystemPoll, SystemLoopStep, Control, LoopsStopped, WorkersDone, Drained
  <2>2. CASE PollSystem
    BY <2>2 DEF PollSystem, SystemLoopStep, Control, LoopsStopped, WorkersDone, Drained
  <2>3. CASE SystemStop
    BY <2>3 DEF SystemStop, SystemLoopStep, Control, LoopsStopped, WorkersDone, Drained
  <2> QED BY <1>2, <2>1, <2>2, <2>3 DEF SystemLoop
<1>3. CASE ReportLoop
  <2>1. CASE ReportTick
    BY <2>1 DEF ReportTick, Swap, Control, LoopsStopped, WorkersDone, Drained
  <2>2. CASE BuildReport
    BY <2>2 DEF BuildReport, Control, LoopsStopped, WorkersDone, Drained
  <2>3. CASE BuildReportFails
    BY <2>3 DEF BuildReportFails, Restore, Control, LoopsStopped, WorkersDone, Drained
  <2>4. CASE Enqueue
    BY <2>4 DEF Enqueue, Control, LoopsStopped, WorkersDone, Drained
  <2>5. CASE EnqueueFull
    BY <2>5 DEF EnqueueFull, Restore, Control, LoopsStopped, WorkersDone, Drained
  <2>6. CASE ReportStop
    BY <2>6 DEF ReportStop, Control, LoopsStopped, WorkersDone, Drained
  <2> QED BY <1>3, <2>1, <2>2, <2>3, <2>4, <2>5, <2>6 DEF ReportLoop
<1>4. ASSUME NEW w \in Workers, Worker(w) PROVE Control'
  <2>1. CASE WorkerReceive(w)
    BY <2>1 DEF WorkerReceive, Control, LoopsStopped, WorkersDone, Drained
  <2>2. CASE WorkerSendOk(w)
    BY <2>2 DEF WorkerSendOk, Acknowledge, Control, LoopsStopped, WorkersDone, Drained
  <2>3. CASE WorkerSendFails(w)
    BY <2>3 DEF WorkerSendFails, Restore, Control, LoopsStopped, WorkersDone, Drained
  <2>4. CASE WorkerStop(w)
    BY <2>4 DEF WorkerStop, Control, LoopsStopped, WorkersDone, Drained
  <2> QED BY <1>4, <2>1, <2>2, <2>3, <2>4 DEF Worker
<1>5. CASE Cancel
  BY <1>5 DEF Cancel, Control, LoopsStopped, WorkersDone, Drained
<1>6. CASE DeadlineExpires
  BY <1>6 DEF DeadlineExpires, Control, LoopsStopped, WorkersDone, Drained
<1>7. CASE Run
  <2>1. CASE ShutdownBegins
    BY <2>1 DEF ShutdownBegins, Control, LoopsStopped, WorkersDone, Drained
  <2>2. CASE CloseQueue
    BY <2>2 DEF CloseQueue, Control, LoopsStopped, WorkersDone, Drained
  <2>3. CASE WorkersFinished
    BY <2>3 DEF WorkersFinished, Control, LoopsStopped, WorkersDone, Drained
  <2>4. CASE WaitTimesOut
    BY <2>4 DEF WaitTimesOut, Return, Control, LoopsStopped, WorkersDone, Drained, InWaitForGroup
  <2>5. CASE FlushSwap
    BY <2>5 DEF FlushSwap, Swap, Control, LoopsStopped, WorkersDone, Drained
  <2>6. CASE FlushBuild
    BY <2>6 DEF FlushBuild, Control, LoopsStopped, WorkersDone, Drained
  <2>7. CASE FlushFails
    BY <2>7 DEF FlushFails, Restore, Return, Control, LoopsStopped, WorkersDone, Drained
  <2>8. CASE FlushOk
    BY <2>8, WorkersNonEmpty DEF FlushOk, Acknowledge, Return, Control, LoopsStopped, WorkersDone, Drained
  <2> QED BY <1>7, <2>1, <2>2, <2>3, <2>4, <2>5, <2>6, <2>7, <2>8 DEF Run
<1>8. CASE UNCHANGED vars
  BY <1>8 DEF vars, Control, LoopsStopped, WorkersDone, Drained
<1> QED BY <1>1, <1>2, <1>3, <1>4, <1>5, <1>6, <1>7, <1>8 DEF Next, Exited

LEMMA ControlCorrect == Spec => []Control
  BY TypeCorrect, ControlInit, ControlStep, PTL DEF Spec

\* The report loop never sends on the closed queue: Run closes it only after
\* the report loop has returned (agent.go, Run).
THEOREM NoSendOnClosedQueueAlways == Spec => []NoSendOnClosedQueue
<1>1. Control => NoSendOnClosedQueue
  BY DEF Control, NoSendOnClosedQueue, LoopsStopped
<1> QED BY <1>1, ControlCorrect, PTL

\* Flush runs alone, for any number of workers: loops stopped, workers done,
\* queue drained.
THEOREM FlushAloneAlways == Spec => []FlushAlone
<1>1. Control => FlushAlone
  BY WorkersNonEmpty DEF Control, FlushAlone, LoopsStopped, WorkersDone, Drained
<1> QED BY <1>1, ControlCorrect, PTL

-----------------------------------------------------------------------------
(* Who holds a report.                                                      *)

LEMMA HoldersInit == Init => HoldersIdle
  BY DEF Init, HoldersIdle

LEMMA HoldersStep ==
  ASSUME TypeOK, Control, HoldersIdle, [Next]_vars
  PROVE  HoldersIdle'
<1> USE DEF serviceVars, serverVars, runtimeVars, reportVars, queueVars, workerVars, runVars, ctxVars
<1>1. CASE RuntimeLoop
  <2>1. CASE RuntimeTick
    BY <2>1 DEF RuntimeTick, HoldersIdle
  <2>2. CASE WriteGauge
    BY <2>2 DEF WriteGauge, HoldersIdle
  <2>3. CASE CountPoll
    BY <2>3 DEF CountPoll, HoldersIdle, Control, LoopsStopped
  <2>4. CASE RuntimeStop
    BY <2>4 DEF RuntimeStop, HoldersIdle
  <2> QED BY <1>1, <2>1, <2>2, <2>3, <2>4 DEF RuntimeLoop
<1>2. CASE SystemLoop
  <2>1. CASE InitSystemPoll
    BY <2>1 DEF InitSystemPoll, SystemLoopStep, HoldersIdle
  <2>2. CASE PollSystem
    BY <2>2 DEF PollSystem, SystemLoopStep, HoldersIdle
  <2>3. CASE SystemStop
    BY <2>3 DEF SystemStop, SystemLoopStep, HoldersIdle
  <2> QED BY <1>2, <2>1, <2>2, <2>3 DEF SystemLoop
<1>3. CASE ReportLoop
  <2>1. CASE ReportTick
    BY <2>1 DEF ReportTick, Swap, HoldersIdle
  <2>2. CASE BuildReport
    BY <2>2 DEF BuildReport, HoldersIdle
  <2>3. CASE BuildReportFails
    BY <2>3 DEF BuildReportFails, Restore, HoldersIdle, Control, LoopsStopped
  <2>4. CASE Enqueue
    BY <2>4 DEF Enqueue, HoldersIdle
  <2>5. CASE EnqueueFull
    BY <2>5 DEF EnqueueFull, Restore, HoldersIdle, Control, LoopsStopped
  <2>6. CASE ReportStop
    BY <2>6 DEF ReportStop, HoldersIdle
  <2> QED BY <1>3, <2>1, <2>2, <2>3, <2>4, <2>5, <2>6 DEF ReportLoop
<1>4. ASSUME NEW w \in Workers, Worker(w) PROVE HoldersIdle'
  <2>1. CASE WorkerReceive(w)
    BY <2>1 DEF WorkerReceive, HoldersIdle, TypeOK
  <2>2. CASE WorkerSendOk(w)
    BY <2>2 DEF WorkerSendOk, Acknowledge, HoldersIdle, TypeOK
  <2>3. CASE WorkerSendFails(w)
    BY <2>3 DEF WorkerSendFails, Restore, HoldersIdle, TypeOK, Control, WorkersDone
  <2>4. CASE WorkerStop(w)
    BY <2>4 DEF WorkerStop, HoldersIdle, TypeOK
  <2> QED BY <1>4, <2>1, <2>2, <2>3, <2>4 DEF Worker
<1>5. CASE Cancel
  BY <1>5 DEF Cancel, HoldersIdle
<1>6. CASE DeadlineExpires
  BY <1>6 DEF DeadlineExpires, HoldersIdle
<1>7. CASE Run
  <2>1. CASE ShutdownBegins
    BY <2>1 DEF ShutdownBegins, HoldersIdle
  <2>2. CASE CloseQueue
    BY <2>2 DEF CloseQueue, HoldersIdle
  <2>3. CASE WorkersFinished
    BY <2>3 DEF WorkersFinished, HoldersIdle
  <2>4. CASE WaitTimesOut
    BY <2>4 DEF WaitTimesOut, Return, HoldersIdle, InWaitForGroup
  <2>5. CASE FlushSwap
    BY <2>5 DEF FlushSwap, Swap, HoldersIdle
  <2>6. CASE FlushBuild
    BY <2>6 DEF FlushBuild, HoldersIdle
  <2>7. CASE FlushFails
    BY <2>7 DEF FlushFails, Restore, Return, HoldersIdle
  <2>8. CASE FlushOk
    BY <2>8 DEF FlushOk, Acknowledge, Return, HoldersIdle
  <2> QED BY <1>7, <2>1, <2>2, <2>3, <2>4, <2>5, <2>6, <2>7, <2>8 DEF Run
<1>8. CASE UNCHANGED vars
  BY <1>8 DEF vars, HoldersIdle
<1> QED BY <1>1, <1>2, <1>3, <1>4, <1>5, <1>6, <1>7, <1>8 DEF Next, Exited

LEMMA HoldersCorrect == Spec => []HoldersIdle
  BY TypeCorrect, ControlCorrect, HoldersInit, HoldersStep, PTL DEF Spec

-----------------------------------------------------------------------------
(* Where each poll is counted.                                              *)

AtUnsent == <<"unsent", 0>>
AtAcked  == <<"acked", 0>>
AtReport == <<"report", 0>>
AtFinal  == <<"final", 0>>

Held == [a \in Places |-> PollsAt(a)]

Cover(f)    == UNION {f[a] : a \in Places}
Disjoint(f) == \A a, b \in Places : a # b => f[a] \cap f[b] = {}

LEMMA PlaceKinds ==
  /\ {AtUnsent, AtAcked, AtReport, AtFinal} \subseteq Places
  /\ \A i \in 1..RateLimit : <<"queue", i>> \in Places
  /\ \A w \in Workers : <<"worker", w>> \in Places
  /\ \A a \in Places : \/ a \in {AtUnsent, AtAcked, AtReport, AtFinal}
                       \/ \E i \in 1..RateLimit : a = <<"queue", i>>
                       \/ \E w \in Workers : a = <<"worker", w>>
  BY DEF Places, AtUnsent, AtAcked, AtReport, AtFinal

HeldValues ==
  /\ Held[AtUnsent] = unsent
  /\ Held[AtAcked] = acked
  /\ Held[AtReport] = report.polls
  /\ Held[AtFinal] = final.polls
  /\ \A i \in 1..RateLimit :
        Held[<<"queue", i>>] = IF i <= Len(sendQueue) THEN sendQueue[i].polls ELSE {}
  /\ \A w \in Workers : Held[<<"worker", w>>] = sending[w].polls

LEMMA HeldValuesHold == HeldValues
  BY PlaceKinds DEF HeldValues, Held, PollsAt, AtUnsent, AtAcked, AtReport, AtFinal

LEMMA PartitionedAsHeld == PollsPartitioned <=> Cover(Held) = 1..polls /\ Disjoint(Held)
  BY DEF PollsPartitioned, Cover, Disjoint, Held

\* g is f with everything at place x moved to place y.
Moved(f, g, x, y) ==
  /\ x \in Places /\ y \in Places /\ x # y
  /\ g[x] = {} /\ g[y] = f[x] \cup f[y]
  /\ \A a \in Places : a # x /\ a # y => g[a] = f[a]

\* Moving everything from one place to another keeps a partition.
LEMMA MovePreserves ==
  ASSUME NEW f, NEW g, NEW x, NEW y, Moved(f, g, x, y)
  PROVE  /\ Cover(g) = Cover(f)
         /\ Disjoint(f) => Disjoint(g)
<1> USE DEF Moved
<1>1. Cover(g) = Cover(f)
  <2>1. ASSUME NEW p, p \in Cover(g) PROVE p \in Cover(f)
    BY <2>1, Zenon DEF Cover
  <2>2. ASSUME NEW p, p \in Cover(f) PROVE p \in Cover(g)
    <3>1. PICK a \in Places : p \in f[a]
      BY <2>2, Zenon DEF Cover
    <3>2. CASE a = x \/ a = y
      BY <3>1, <3>2, p \in g[y], Zenon DEF Cover
    <3>3. CASE a # x /\ a # y
      BY <3>1, <3>3, p \in g[a], Zenon DEF Cover
    <3> QED BY <3>2, <3>3
  <2> QED BY <2>1, <2>2
<1>2. Disjoint(f) => Disjoint(g)
  BY SMT DEF Disjoint
<1> QED BY <1>1, <1>2

LEMMA PartitionInit == Init => PollsPartitioned
<1> SUFFICES ASSUME Init PROVE PollsPartitioned
  OBVIOUS
<1>1. \A a \in Places : Held[a] = {}
  BY HeldValuesHold, PlaceKinds DEF HeldValues, Init, NoReport
<1>2. Cover(Held) = 1..polls
  BY <1>1 DEF Cover, Init
<1> QED BY <1>1, <1>2, PartitionedAsHeld DEF Disjoint

LEMMA PartitionStep ==
  ASSUME TypeOK, Control, HoldersIdle, PollsPartitioned, [Next]_vars
  PROVE  PollsPartitioned'
<1> USE DEF serviceVars, serverVars, runtimeVars, reportVars, queueVars, workerVars, runVars, ctxVars
<1>v. HeldValues /\ HeldValues'
  BY HeldValuesHold, PTL
<1>h. /\ Cover(Held) = 1..polls /\ Disjoint(Held)
      /\ Cover(Held') = 1..polls' /\ Disjoint(Held') => PollsPartitioned'
  <2>1. (PollsPartitioned <=> Cover(Held) = 1..polls /\ Disjoint(Held))'
    BY PartitionedAsHeld, PTL
  <2> QED BY <2>1, PartitionedAsHeld DEF Cover, Disjoint
<1>p. {AtUnsent, AtAcked, AtReport, AtFinal} \subseteq Places
      /\ AtUnsent # AtAcked /\ AtUnsent # AtReport /\ AtUnsent # AtFinal /\ AtAcked # AtFinal
  BY PlaceKinds DEF AtUnsent, AtAcked, AtReport, AtFinal
<1>q. \A w \in Workers : <<"worker", w>> \in Places /\ <<"worker", w>> \notin {AtUnsent, AtAcked}
  BY PlaceKinds DEF AtUnsent, AtAcked
<1>m. ASSUME NEW x, NEW y, Moved(Held, Held', x, y), polls' = polls
      PROVE  PollsPartitioned'
  BY <1>m, <1>h, MovePreserves
<1>u. ASSUME UNCHANGED <<unsent, acked, sendQueue, sending, polls>>,
             report'.polls = report.polls, final'.polls = final.polls
      PROVE  PollsPartitioned'
  <2>1. Held' = Held
    BY <1>u DEF Held, PollsAt
  <2> QED BY <2>1, <1>u, <1>h
<1>1. CASE RuntimeLoop
  <2>1. CASE RuntimeTick
    BY <2>1, <1>u DEF RuntimeTick
  <2>2. CASE WriteGauge
    BY <2>2, <1>u DEF WriteGauge
  <2>3. CASE CountPoll
    <3>1. Held'[AtUnsent] = Held[AtUnsent] \cup {polls + 1} /\ polls' = polls + 1
      BY <2>3, <1>v DEF HeldValues, CountPoll
    <3>2. \A a \in Places : a # AtUnsent => Held'[a] = Held[a]
      BY <2>3, <1>v, PlaceKinds DEF HeldValues, CountPoll
    <3>3. \A a \in Places : Held[a] \subseteq 1..polls
      BY <1>h, Zenon DEF Cover
    <3>4. Disjoint(Held')
      BY <1>h, <3>1, <3>2, <3>3 DEF Disjoint, TypeOK
    <3>5. Cover(Held') = Cover(Held) \cup {polls + 1}
      BY <1>p, <3>1, <3>2, Zenon DEF Cover
    <3>6. Cover(Held') = 1..polls'
      BY <1>h, <3>1, <3>5 DEF TypeOK
    <3> QED BY <3>4, <3>6, <1>h
  <2>4. CASE RuntimeStop
    BY <2>4, <1>u DEF RuntimeStop
  <2> QED BY <1>1, <2>1, <2>2, <2>3, <2>4 DEF RuntimeLoop
<1>2. CASE SystemLoop
  <2>1. CASE InitSystemPoll
    BY <2>1, <1>u DEF InitSystemPoll, SystemLoopStep
  <2>2. CASE PollSystem
    BY <2>2, <1>u DEF PollSystem, SystemLoopStep
  <2>3. CASE SystemStop
    BY <2>3, <1>u DEF SystemStop, SystemLoopStep
  <2> QED BY <1>2, <2>1, <2>2, <2>3 DEF SystemLoop
<1>3. CASE ReportLoop
  <2>1. CASE ReportTick
    <3>1. Held'[AtUnsent] = {} /\ Held'[AtReport] = Held[AtUnsent] \cup Held[AtReport]
      BY <2>1, <1>v DEF HeldValues, HoldersIdle, NoReport, ReportTick, Swap, Swapped
    <3>2. \A a \in Places : a # AtUnsent /\ a # AtReport => Held'[a] = Held[a]
      BY <2>1, <1>v, PlaceKinds DEF HeldValues, ReportTick, Swap, Swapped
    <3> QED BY <2>1, <3>1, <3>2, <1>m, <1>p DEF ReportTick, Moved
  <2>2. CASE BuildReport
    BY <2>2, <1>u DEF BuildReport, Built, TypeOK, Report
  <2>3. CASE BuildReportFails
    <3>1. Held'[AtReport] = {} /\ Held'[AtUnsent] = Held[AtReport] \cup Held[AtUnsent]
      BY <2>3, <1>v DEF HeldValues, HoldersIdle, NoReport, BuildReportFails, Restore
    <3>2. \A a \in Places : a # AtReport /\ a # AtUnsent => Held'[a] = Held[a]
      BY <2>3, <1>v, PlaceKinds DEF HeldValues, BuildReportFails, Restore
    <3> QED BY <2>3, <3>1, <3>2, <1>m, <1>p DEF BuildReportFails, Moved
  <2>4. CASE Enqueue
    <3> DEFINE y == <<"queue", Len(sendQueue) + 1>>
    <3>0. Len(sendQueue) + 1 \in 1..RateLimit
      BY <2>4, RateLimitAssumption DEF Enqueue, QueueHasRoom, TypeOK
    <3>1. /\ Len(sendQueue') = Len(sendQueue) + 1
          /\ sendQueue'[Len(sendQueue) + 1] = report
          /\ \A i \in 1..Len(sendQueue) : sendQueue'[i] = sendQueue[i]
      BY <2>4 DEF Enqueue, TypeOK
    <3>2. Held'[AtReport] = {} /\ Held'[y] = Held[AtReport] \cup Held[y]
      BY <2>4, <1>v, <3>0, <3>1 DEF HeldValues, Enqueue, NoReport, TypeOK
    <3>3. \A i \in 1..RateLimit : i # Len(sendQueue) + 1 => Held'[<<"queue", i>>] = Held[<<"queue", i>>]
      BY <1>v, <3>0, <3>1 DEF HeldValues, TypeOK
    <3>4. \A a \in Places : a # AtReport /\ a # y => Held'[a] = Held[a]
      BY <2>4, <1>v, <3>3, PlaceKinds DEF HeldValues, Enqueue
    <3>5. y \in Places /\ AtReport # y
      BY <3>0, PlaceKinds DEF AtReport
    <3> QED BY <2>4, <3>2, <3>4, <3>5, <1>m, <1>p DEF Enqueue, Moved
  <2>5. CASE EnqueueFull
    <3>1. Held'[AtReport] = {} /\ Held'[AtUnsent] = Held[AtReport] \cup Held[AtUnsent]
      BY <2>5, <1>v DEF HeldValues, HoldersIdle, NoReport, EnqueueFull, Restore
    <3>2. \A a \in Places : a # AtReport /\ a # AtUnsent => Held'[a] = Held[a]
      BY <2>5, <1>v, PlaceKinds DEF HeldValues, EnqueueFull, Restore
    <3> QED BY <2>5, <3>1, <3>2, <1>m, <1>p DEF EnqueueFull, Moved
  <2>6. CASE ReportStop
    BY <2>6, <1>u DEF ReportStop
  <2> QED BY <1>3, <2>1, <2>2, <2>3, <2>4, <2>5, <2>6 DEF ReportLoop
<1>4. ASSUME NEW w \in Workers, Worker(w) PROVE PollsPartitioned'
  <2>1. CASE WorkerReceive(w)
    <3> DEFINE W == <<"worker", w>>
               n == Len(sendQueue)
    <3>0. n \in Nat /\ n >= 1 /\ n <= RateLimit /\ w \in Workers
      BY <2>1, <1>4 DEF WorkerReceive, TypeOK
    <3>1. /\ Len(sendQueue') = n - 1
          /\ \A i \in 1..(n - 1) : sendQueue'[i] = sendQueue[i + 1]
          /\ sending'[w] = sendQueue[1]
          /\ \A v \in Workers : v # w => sending'[v] = sending[v]
      BY <2>1, <3>0 DEF WorkerReceive, TypeOK
    <3>2. Held[W] = {}
      BY <2>1, <1>v, <1>4 DEF HeldValues, HoldersIdle, WorkerReceive, NoReport
    <3>3. Held'[W] = Held[<<"queue", 1>>] /\ W \in Places
      BY <1>v, <1>q, <3>0, <3>1, RateLimitAssumption DEF HeldValues
    <3>4. \A i \in 1..RateLimit : i < n => Held'[<<"queue", i>>] = Held[<<"queue", i + 1>>]
      BY <1>v, <3>0, <3>1, RateLimitAssumption DEF HeldValues
    <3>5. \A i \in 1..RateLimit : i >= n => Held'[<<"queue", i>>] = {}
      BY <1>v, <3>0, <3>1, RateLimitAssumption DEF HeldValues
    <3>6. \A v \in Workers : v # w => Held'[<<"worker", v>>] = Held[<<"worker", v>>]
      BY <1>v, <3>1 DEF HeldValues
    <3>7. \A a \in {AtUnsent, AtAcked, AtReport, AtFinal} : Held'[a] = Held[a]
      BY <2>1, <1>v DEF HeldValues, WorkerReceive
    <3> DEFINE src(a) == IF a = W THEN <<"queue", 1>>
                         ELSE IF a[1] = "queue" THEN <<"queue", a[2] + 1>> ELSE a
    <3>8. ASSUME NEW a \in Places, Held'[a] # {}
          PROVE  src(a) \in Places /\ Held'[a] = Held[src(a)]
      <4>1. CASE a = W
        BY <4>1, <3>0, <3>3, PlaceKinds, RateLimitAssumption
      <4>2. ASSUME NEW i \in 1..RateLimit, a = <<"queue", i>>
            PROVE  src(a) \in Places /\ Held'[a] = Held[src(a)]
        <5>1. i < n
          BY <3>8, <3>0, <3>5, <4>2
        <5>2. i + 1 \in 1..RateLimit /\ src(a) = <<"queue", i + 1>>
          BY <3>0, <4>2, <5>1, RateLimitAssumption
        <5> QED BY <5>1, <5>2, <3>4, <4>2, PlaceKinds
      <4>3. ASSUME NEW v \in Workers, a = <<"worker", v>>, a # W
            PROVE  src(a) \in Places /\ Held'[a] = Held[src(a)]
        BY <4>3, <3>6
      <4>4. CASE a \in {AtUnsent, AtAcked, AtReport, AtFinal}
        BY <4>4, <3>7, PlaceKinds DEF AtUnsent, AtAcked, AtReport, AtFinal
      <4> QED BY <4>1, <4>2, <4>3, <4>4, PlaceKinds
    <3>9. ASSUME NEW a \in Places, NEW b \in Places, Held'[a] # {}, Held'[b] # {}, src(a) = src(b)
          PROVE  a = b
      <4>1. a \in Places /\ b \in Places /\ src(a) = src(b)
        BY <3>9
      <4>2. ASSUME NEW c \in Places
            PROVE \/ c = W /\ src(c) = <<"queue", 1>>
                  \/ \E i \in 1..RateLimit : c = <<"queue", i>> /\ src(c) = <<"queue", i + 1>>
                  \/ c[1] # "queue" /\ src(c) = c
        BY PlaceKinds DEF AtUnsent, AtAcked, AtReport, AtFinal
      <4> QED BY <4>1, <4>2
    <3>10. ASSUME NEW b \in Places, Held[b] # {}
           PROVE  \E a \in Places : Held'[a] = Held[b]
      <4>1. ASSUME NEW i \in 1..RateLimit, b = <<"queue", i>>
            PROVE  \E a \in Places : Held'[a] = Held[b]
        <5>1. CASE i = 1
          BY <5>1, <4>1, <3>3
        <5>2. CASE i > 1
          <6>1. i <= n
            BY <3>10, <4>1, <1>v DEF HeldValues
          <6>2. i - 1 \in 1..RateLimit /\ i - 1 < n /\ (i - 1) + 1 = i
            BY <6>1, <5>2, <3>0, RateLimitAssumption
          <6> QED BY <6>2, <4>1, <3>4, PlaceKinds
        <5> QED BY <5>1, <5>2
      <4>2. ASSUME NEW v \in Workers, b = <<"worker", v>>
            PROVE  \E a \in Places : Held'[a] = Held[b]
        BY <4>2, <3>10, <3>2, <3>6
      <4>3. CASE b \in {AtUnsent, AtAcked, AtReport, AtFinal}
        BY <4>3, <3>7
      <4> QED BY <4>1, <4>2, <4>3, PlaceKinds
    <3> HIDE DEF src
    <3>11. Disjoint(Held')
      BY <1>h, <3>8, <3>9, Zenon DEF Disjoint
    <3>12. Cover(Held') = Cover(Held)
      <4>1. ASSUME NEW p, p \in Cover(Held') PROVE p \in Cover(Held)
        BY <4>1, <3>8, Zenon DEF Cover
      <4>2. ASSUME NEW p, p \in Cover(Held) PROVE p \in Cover(Held')
        BY <4>2, <3>10, Zenon DEF Cover
      <4> QED BY <4>1, <4>2
    <3> QED BY <2>1, <1>h, <3>11, <3>12 DEF WorkerReceive
  <2>2. CASE WorkerSendOk(w)
    <3>1. Held'[<<"worker", w>>] = {} /\ Held'[AtAcked] = Held[<<"worker", w>>] \cup Held[AtAcked]
      BY <2>2, <1>v, <1>4 DEF HeldValues, HoldersIdle, NoReport, WorkerSendOk, Acknowledge, TypeOK
    <3>2. \A a \in Places : a # <<"worker", w>> /\ a # AtAcked => Held'[a] = Held[a]
      BY <2>2, <1>v, PlaceKinds, <1>4 DEF HeldValues, WorkerSendOk, Acknowledge, TypeOK
    <3> QED BY <2>2, <3>1, <3>2, <1>m, <1>p, <1>q DEF WorkerSendOk, Moved
  <2>3. CASE WorkerSendFails(w)
    <3>1. Held'[<<"worker", w>>] = {} /\ Held'[AtUnsent] = Held[<<"worker", w>>] \cup Held[AtUnsent]
      BY <2>3, <1>v, <1>4 DEF HeldValues, HoldersIdle, NoReport, WorkerSendFails, Restore, TypeOK
    <3>2. \A a \in Places : a # <<"worker", w>> /\ a # AtUnsent => Held'[a] = Held[a]
      BY <2>3, <1>v, PlaceKinds, <1>4, SMTT(60) DEF HeldValues, WorkerSendFails, Restore, TypeOK
    <3> QED BY <2>3, <3>1, <3>2, <1>m, <1>p, <1>q DEF WorkerSendFails, Moved
  <2>4. CASE WorkerStop(w)
    BY <2>4, <1>u DEF WorkerStop
  <2> QED BY <1>4, <2>1, <2>2, <2>3, <2>4 DEF Worker
<1>5. CASE Cancel
  BY <1>5, <1>u DEF Cancel
<1>6. CASE DeadlineExpires
  BY <1>6, <1>u DEF DeadlineExpires
<1>7. CASE Run
  <2>1. CASE ShutdownBegins
    BY <2>1, <1>u DEF ShutdownBegins
  <2>2. CASE CloseQueue
    BY <2>2, <1>u DEF CloseQueue
  <2>3. CASE WorkersFinished
    BY <2>3, <1>u DEF WorkersFinished
  <2>4. CASE WaitTimesOut
    BY <2>4, <1>u DEF WaitTimesOut, Return
  <2>5. CASE FlushSwap
    <3>1. Held'[AtUnsent] = {} /\ Held'[AtFinal] = Held[AtUnsent] \cup Held[AtFinal]
      BY <2>5, <1>v DEF HeldValues, HoldersIdle, NoReport, FlushSwap, Swap, Swapped
    <3>2. \A a \in Places : a # AtUnsent /\ a # AtFinal => Held'[a] = Held[a]
      BY <2>5, <1>v, PlaceKinds DEF HeldValues, FlushSwap, Swap, Swapped
    <3> QED BY <2>5, <3>1, <3>2, <1>m, <1>p DEF FlushSwap, Moved
  <2>6. CASE FlushBuild
    BY <2>6, <1>u DEF FlushBuild, Built, TypeOK, Report
  <2>7. CASE FlushFails
    <3>1. Held'[AtFinal] = {} /\ Held'[AtUnsent] = Held[AtFinal] \cup Held[AtUnsent]
      BY <2>7, <1>v DEF HeldValues, HoldersIdle, NoReport, FlushFails, Restore, Return
    <3>2. \A a \in Places : a # AtFinal /\ a # AtUnsent => Held'[a] = Held[a]
      BY <2>7, <1>v, PlaceKinds DEF HeldValues, FlushFails, Restore, Return
    <3> QED BY <2>7, <3>1, <3>2, <1>m, <1>p DEF FlushFails, Moved
  <2>8. CASE FlushOk
    <3>1. Held'[AtFinal] = {} /\ Held'[AtAcked] = Held[AtFinal] \cup Held[AtAcked]
      BY <2>8, <1>v DEF HeldValues, HoldersIdle, NoReport, FlushOk, Acknowledge, Return
    <3>2. \A a \in Places : a # AtFinal /\ a # AtAcked => Held'[a] = Held[a]
      BY <2>8, <1>v, PlaceKinds DEF HeldValues, FlushOk, Acknowledge, Return
    <3> QED BY <2>8, <3>1, <3>2, <1>m, <1>p DEF FlushOk, Moved
  <2> QED BY <1>7, <2>1, <2>2, <2>3, <2>4, <2>5, <2>6, <2>7, <2>8 DEF Run
<1>8. CASE UNCHANGED vars
  BY <1>8, <1>u DEF vars
<1> QED BY <1>1, <1>2, <1>3, <1>4, <1>5, <1>6, <1>7, <1>8 DEF Next, Exited

-----------------------------------------------------------------------------
(* The numbers count what they stand for.                                   *)

LEMMA HeldInRange ==
  ASSUME PollsPartitioned, NEW a \in Places
  PROVE  Held[a] \subseteq 1..polls
  BY PartitionedAsHeld, Zenon DEF Cover

LEMMA HeldFinite ==
  ASSUME TypeOK, PollsPartitioned, NEW a \in Places
  PROVE  IsFiniteSet(Held[a])
<1>1. IsFiniteSet(1..polls)
  BY FS_Interval DEF TypeOK
<1>2. Held[a] \in SUBSET (1..polls)
  BY HeldInRange
<1> QED BY <1>1, <1>2, FS_Subset, Zenon

LEMMA MergeCounts ==
  ASSUME TypeOK, PollsPartitioned, NEW a \in Places, NEW b \in Places, a # b
  PROVE  Cardinality(Held[a] \cup Held[b]) = Cardinality(Held[a]) + Cardinality(Held[b])
<1>1. IsFiniteSet(Held[a]) /\ IsFiniteSet(Held[b])
  BY HeldFinite
<1>2. Held[a] \cap Held[b] = {}
  BY PartitionedAsHeld DEF Disjoint
<1>3. /\ Cardinality(Held[a]) \in Nat /\ Cardinality(Held[b]) \in Nat
      /\ Cardinality({}) = 0
  BY <1>1, FS_CardinalityType, FS_EmptySet
<1>4. Cardinality(Held[a] \cup Held[b])
        = Cardinality(Held[a]) + Cardinality(Held[b]) - Cardinality(Held[a] \cap Held[b])
  BY <1>1, FS_Union
<1>5. Cardinality(Held[a] \cap Held[b]) = 0
  BY <1>2, <1>3, Zenon
<1> QED BY <1>3, <1>4, <1>5

LEMMA CountsInit == Init => CountsExact
<1> SUFFICES ASSUME Init PROVE CountsExact
  OBVIOUS
<1>1. Counts(NoReport) /\ Cardinality({}) = 0
  BY FS_EmptySet DEF Counts, NoReport
<1>2. \A i \in 1..Len(sendQueue) : Counts(sendQueue[i])
  BY DEF Init
<1> QED BY <1>1, <1>2 DEF Init, CountsExact

LEMMA CountsStep ==
  ASSUME TypeOK, Control, HoldersIdle, PollsPartitioned, CountsExact, [Next]_vars
  PROVE  CountsExact'
<1> USE DEF serviceVars, serverVars, runtimeVars, reportVars, queueVars, workerVars, runVars, ctxVars
<1>e. Cardinality({}) = 0 /\ Counts(NoReport)
  BY FS_EmptySet DEF Counts, NoReport
<1>1. CASE RuntimeLoop
  <2>1. CASE RuntimeTick
    BY <2>1 DEF RuntimeTick, CountsExact, Counts
  <2>2. CASE WriteGauge
    BY <2>2 DEF WriteGauge, CountsExact, Counts
  <2>3. CASE CountPoll
    <3>1. unsent \subseteq 1..polls
      BY HeldInRange, HeldValuesHold, PlaceKinds DEF HeldValues
    <3>2. IsFiniteSet(unsent) /\ polls + 1 \notin unsent
      <4>1. IsFiniteSet(unsent)
        BY HeldFinite, HeldValuesHold, PlaceKinds DEF HeldValues
      <4>2. polls + 1 \notin unsent
        BY <3>1 DEF TypeOK
      <4> QED BY <4>1, <4>2
    <3>3. Cardinality(unsent') = Cardinality(unsent) + 1
      BY <2>3, <3>2, FS_AddElement DEF CountPoll
    <3> QED BY <2>3, <3>3 DEF CountPoll, CountsExact, Counts
  <2>4. CASE RuntimeStop
    BY <2>4 DEF RuntimeStop, CountsExact, Counts
  <2> QED BY <1>1, <2>1, <2>2, <2>3, <2>4 DEF RuntimeLoop
<1>2. CASE SystemLoop
  <2>1. CASE InitSystemPoll
    BY <2>1 DEF InitSystemPoll, SystemLoopStep, CountsExact, Counts
  <2>2. CASE PollSystem
    BY <2>2 DEF PollSystem, SystemLoopStep, CountsExact, Counts
  <2>3. CASE SystemStop
    BY <2>3 DEF SystemStop, SystemLoopStep, CountsExact, Counts
  <2> QED BY <1>2, <2>1, <2>2, <2>3 DEF SystemLoop
<1>3. CASE ReportLoop
  <2>1. CASE ReportTick
    <3>1. Counts(Swapped)
      BY DEF Swapped, Counts, NoReport, CountsExact
    <3> QED BY <2>1, <3>1, <1>e DEF ReportTick, Swap, CountsExact, Counts
  <2>2. CASE BuildReport
    BY <2>2 DEF BuildReport, CountsExact, Counts, Built, TypeOK, Report
  <2>3. CASE BuildReportFails
    <3>1. Cardinality(unsent \cup report.polls) = Cardinality(unsent) + Cardinality(report.polls)
      BY MergeCounts, HeldValuesHold, PlaceKinds DEF HeldValues, AtUnsent, AtReport
    <3> QED BY <2>3, <3>1, <1>e DEF BuildReportFails, Restore, CountsExact, Counts, TypeOK
  <2>4. CASE Enqueue
    <3>1. /\ Len(sendQueue') = Len(sendQueue) + 1
          /\ sendQueue'[Len(sendQueue) + 1] = report
          /\ \A i \in 1..Len(sendQueue) : sendQueue'[i] = sendQueue[i]
      BY <2>4 DEF Enqueue, TypeOK
    <3>2. \A i \in 1..Len(sendQueue') : Counts(sendQueue'[i])
      BY <3>1 DEF CountsExact, TypeOK
    <3> QED BY <2>4, <3>2, <1>e DEF Enqueue, CountsExact, Counts
  <2>5. CASE EnqueueFull
    <3>1. Cardinality(unsent \cup report.polls) = Cardinality(unsent) + Cardinality(report.polls)
      BY MergeCounts, HeldValuesHold, PlaceKinds DEF HeldValues, AtUnsent, AtReport
    <3> QED BY <2>5, <3>1, <1>e DEF EnqueueFull, Restore, CountsExact, Counts, TypeOK
  <2>6. CASE ReportStop
    BY <2>6 DEF ReportStop, CountsExact, Counts
  <2> QED BY <1>3, <2>1, <2>2, <2>3, <2>4, <2>5, <2>6 DEF ReportLoop
<1>4. ASSUME NEW w \in Workers, Worker(w) PROVE CountsExact'
  <2>1. CASE WorkerReceive(w)
    <3>1. /\ Len(sendQueue) >= 1 /\ Len(sendQueue') = Len(sendQueue) - 1
          /\ \A i \in 1..Len(sendQueue') : sendQueue'[i] = sendQueue[i + 1]
          /\ sending' = [sending EXCEPT ![w] = sendQueue[1]]
      BY <2>1, <1>4 DEF WorkerReceive, TypeOK
    <3>2. \A i \in 1..Len(sendQueue') : Counts(sendQueue'[i])
      BY <3>1 DEF CountsExact, TypeOK
    <3>3. \A v \in Workers : Counts(sending'[v])
      BY <3>1, <1>4 DEF CountsExact, TypeOK
    <3> QED BY <2>1, <3>2, <3>3 DEF WorkerReceive, CountsExact, Counts
  <2>2. CASE WorkerSendOk(w)
    <3>1. Cardinality(acked \cup sending[w].polls) = Cardinality(acked) + Cardinality(sending[w].polls)
      BY <1>4, MergeCounts, HeldValuesHold, PlaceKinds DEF HeldValues, AtAcked
    <3> QED BY <2>2, <1>4, <3>1, <1>e DEF WorkerSendOk, Acknowledge, CountsExact, Counts, TypeOK
  <2>3. CASE WorkerSendFails(w)
    <3>1. Cardinality(unsent \cup sending[w].polls) = Cardinality(unsent) + Cardinality(sending[w].polls)
      BY <1>4, MergeCounts, HeldValuesHold, PlaceKinds DEF HeldValues, AtUnsent
    <3> QED BY <2>3, <1>4, <3>1, <1>e DEF WorkerSendFails, Restore, CountsExact, Counts, TypeOK
  <2>4. CASE WorkerStop(w)
    BY <2>4 DEF WorkerStop, CountsExact, Counts
  <2> QED BY <1>4, <2>1, <2>2, <2>3, <2>4 DEF Worker
<1>5. CASE Cancel
  BY <1>5 DEF Cancel, CountsExact, Counts
<1>6. CASE DeadlineExpires
  BY <1>6 DEF DeadlineExpires, CountsExact, Counts
<1>7. CASE Run
  <2>1. CASE ShutdownBegins
    BY <2>1 DEF ShutdownBegins, CountsExact, Counts
  <2>2. CASE CloseQueue
    BY <2>2 DEF CloseQueue, CountsExact, Counts
  <2>3. CASE WorkersFinished
    BY <2>3 DEF WorkersFinished, CountsExact, Counts
  <2>4. CASE WaitTimesOut
    BY <2>4 DEF WaitTimesOut, Return, CountsExact, Counts
  <2>5. CASE FlushSwap
    <3>1. Counts(Swapped)
      BY DEF Swapped, Counts, NoReport, CountsExact
    <3> QED BY <2>5, <3>1, <1>e DEF FlushSwap, Swap, CountsExact, Counts
  <2>6. CASE FlushBuild
    BY <2>6 DEF FlushBuild, CountsExact, Counts, Built, TypeOK, Report
  <2>7. CASE FlushFails
    <3>1. Cardinality(unsent \cup final.polls) = Cardinality(unsent) + Cardinality(final.polls)
      BY MergeCounts, HeldValuesHold, PlaceKinds DEF HeldValues, AtUnsent, AtFinal
    <3> QED BY <2>7, <3>1, <1>e DEF FlushFails, Restore, CountsExact, Counts, TypeOK, Return
  <2>8. CASE FlushOk
    <3>1. Cardinality(acked \cup final.polls) = Cardinality(acked) + Cardinality(final.polls)
      BY MergeCounts, HeldValuesHold, PlaceKinds DEF HeldValues, AtAcked, AtFinal
    <3> QED BY <2>8, <3>1, <1>e DEF FlushOk, Acknowledge, Return, CountsExact, Counts, TypeOK
  <2> QED BY <1>7, <2>1, <2>2, <2>3, <2>4, <2>5, <2>6, <2>7, <2>8 DEF Run
<1>8. CASE UNCHANGED vars
  BY <1>8 DEF vars, CountsExact, Counts
<1> QED BY <1>1, <1>2, <1>3, <1>4, <1>5, <1>6, <1>7, <1>8 DEF Next, Exited

\* No poll is lost or counted twice by the agent, for any number of workers,
\* any queue capacity and any interleaving of Swap, Add and Restore.
THEOREM PollsConservedAlways == Spec => []PollsConserved
  BY TypeCorrect, ControlCorrect, HoldersCorrect, PartitionInit, PartitionStep,
     CountsInit, CountsStep, PTL DEF Spec, PollsConserved

-----------------------------------------------------------------------------
(* Gauges are at least as new as the polls they are reported with.          *)

LEMMA FreshInit == Init => GaugesCurrent /\ FreshGauges
<1> SUFFICES ASSUME Init PROVE GaugesCurrent /\ FreshGauges
  OBVIOUS
<1>1. GaugesCurrent
  BY DEF Init, GaugesCurrent
<1>2. \A i \in 1..Len(sendQueue) : Fresh(sendQueue[i])
  BY DEF Init
<1>3. Fresh(NoReport)
  BY DEF Fresh, NoReport
<1> QED BY <1>1, <1>2, <1>3 DEF Init, FreshGauges

LEMMA FreshStep ==
  ASSUME TypeOK, HoldersIdle, PollsPartitioned, GaugesCurrent, FreshGauges, [Next]_vars
  PROVE  GaugesCurrent' /\ FreshGauges'
<1> USE DEF serviceVars, serverVars, runtimeVars, reportVars, queueVars, workerVars, runVars, ctxVars
<1>e. Fresh(NoReport)
  BY DEF Fresh, NoReport
<1>1. CASE RuntimeLoop
  <2>1. CASE RuntimeTick
    BY <2>1 DEF RuntimeTick, GaugesCurrent, FreshGauges, Fresh
  <2>2. CASE WriteGauge
    <3>1. \A g \in Gauges : gauges'[g] = IF g = written + 1 THEN polls + 1 ELSE gauges[g]
      BY <2>2 DEF WriteGauge, TypeOK, Gauges
    <3>2. GaugesCurrent'
      BY <2>2, <3>1, NGaugesAssumption DEF WriteGauge, GaugesCurrent, TypeOK, Gauges
    <3> QED BY <2>2, <3>2 DEF WriteGauge, FreshGauges, Fresh
  <2>3. CASE CountPoll
    <3>1. GaugesCurrent'
      BY <2>3, NGaugesAssumption DEF CountPoll, GaugesWritten, GaugesCurrent, TypeOK, Gauges
    <3> QED BY <2>3, <3>1 DEF CountPoll, FreshGauges, Fresh
  <2>4. CASE RuntimeStop
    BY <2>4 DEF RuntimeStop, GaugesCurrent, FreshGauges, Fresh
  <2> QED BY <1>1, <2>1, <2>2, <2>3, <2>4 DEF RuntimeLoop
<1>2. CASE SystemLoop
  <2>1. CASE InitSystemPoll
    BY <2>1 DEF InitSystemPoll, SystemLoopStep, GaugesCurrent, FreshGauges, Fresh
  <2>2. CASE PollSystem
    BY <2>2 DEF PollSystem, SystemLoopStep, GaugesCurrent, FreshGauges, Fresh
  <2>3. CASE SystemStop
    BY <2>3 DEF SystemStop, SystemLoopStep, GaugesCurrent, FreshGauges, Fresh
  <2> QED BY <1>2, <2>1, <2>2, <2>3 DEF SystemLoop
<1>3. CASE ReportLoop
  <2>1. CASE ReportTick
    BY <2>1 DEF ReportTick, Swap, GaugesCurrent, FreshGauges, Fresh
  <2>2. CASE BuildReport
    <3>1. report.polls \subseteq 1..polls
      BY HeldInRange, HeldValuesHold, PlaceKinds DEF HeldValues
    <3>2. Fresh(Built(report))
      BY <3>1 DEF Fresh, Built, GaugesCurrent, TypeOK, Report, Gauges
    <3> QED BY <2>2, <3>2 DEF BuildReport, FreshGauges, Fresh, GaugesCurrent
  <2>3. CASE BuildReportFails
    BY <2>3 DEF BuildReportFails, Restore, GaugesCurrent, FreshGauges, Fresh
  <2>4. CASE Enqueue
    <3>1. /\ Len(sendQueue') = Len(sendQueue) + 1
          /\ sendQueue'[Len(sendQueue) + 1] = report
          /\ \A i \in 1..Len(sendQueue) : sendQueue'[i] = sendQueue[i]
      BY <2>4 DEF Enqueue, TypeOK
    <3>2. \A i \in 1..Len(sendQueue') : Fresh(sendQueue'[i])
      BY <2>4, <3>1 DEF Enqueue, FreshGauges, TypeOK
    <3> QED BY <2>4, <3>2 DEF Enqueue, FreshGauges, Fresh, GaugesCurrent
  <2>5. CASE EnqueueFull
    BY <2>5 DEF EnqueueFull, Restore, GaugesCurrent, FreshGauges, Fresh
  <2>6. CASE ReportStop
    BY <2>6 DEF ReportStop, GaugesCurrent, FreshGauges, Fresh
  <2> QED BY <1>3, <2>1, <2>2, <2>3, <2>4, <2>5, <2>6 DEF ReportLoop
<1>4. ASSUME NEW w \in Workers, Worker(w) PROVE (GaugesCurrent /\ FreshGauges)'
  <2>1. CASE WorkerReceive(w)
    <3>1. /\ Len(sendQueue) >= 1 /\ Len(sendQueue') = Len(sendQueue) - 1
          /\ \A i \in 1..Len(sendQueue') : sendQueue'[i] = sendQueue[i + 1]
          /\ sending' = [sending EXCEPT ![w] = sendQueue[1]]
      BY <2>1, <1>4 DEF WorkerReceive, TypeOK
    <3>2. \A i \in 1..Len(sendQueue') : Fresh(sendQueue'[i])
      BY <3>1 DEF FreshGauges, TypeOK
    <3>3. \A v \in Workers : Fresh(sending'[v])
      BY <3>1, <1>4 DEF FreshGauges, TypeOK
    <3> QED BY <2>1, <3>2, <3>3 DEF WorkerReceive, FreshGauges, Fresh, GaugesCurrent
  <2>2. CASE WorkerSendOk(w)
    <3>1. \A v \in Workers : Fresh(sending'[v])
      BY <2>2, <1>e, <1>4 DEF WorkerSendOk, FreshGauges, TypeOK
    <3> QED BY <2>2, <3>1 DEF WorkerSendOk, FreshGauges, Fresh, GaugesCurrent
  <2>3. CASE WorkerSendFails(w)
    <3>1. \A v \in Workers : Fresh(sending'[v])
      BY <2>3, <1>e, <1>4 DEF WorkerSendFails, FreshGauges, TypeOK
    <3> QED BY <2>3, <3>1 DEF WorkerSendFails, FreshGauges, Fresh, GaugesCurrent
  <2>4. CASE WorkerStop(w)
    BY <2>4 DEF WorkerStop, GaugesCurrent, FreshGauges, Fresh
  <2> QED BY <1>4, <2>1, <2>2, <2>3, <2>4 DEF Worker
<1>5. CASE Cancel
  BY <1>5 DEF Cancel, GaugesCurrent, FreshGauges, Fresh
<1>6. CASE DeadlineExpires
  BY <1>6 DEF DeadlineExpires, GaugesCurrent, FreshGauges, Fresh
<1>7. CASE Run
  <2>1. CASE ShutdownBegins
    BY <2>1 DEF ShutdownBegins, GaugesCurrent, FreshGauges, Fresh
  <2>2. CASE CloseQueue
    BY <2>2 DEF CloseQueue, GaugesCurrent, FreshGauges, Fresh
  <2>3. CASE WorkersFinished
    BY <2>3 DEF WorkersFinished, GaugesCurrent, FreshGauges, Fresh
  <2>4. CASE WaitTimesOut
    BY <2>4 DEF WaitTimesOut, Return, GaugesCurrent, FreshGauges, Fresh
  <2>5. CASE FlushSwap
    BY <2>5 DEF FlushSwap, Swap, GaugesCurrent, FreshGauges, Fresh
  <2>6. CASE FlushBuild
    <3>1. final.polls \subseteq 1..polls
      BY HeldInRange, HeldValuesHold, PlaceKinds DEF HeldValues
    <3>2. Fresh(Built(final))
      BY <3>1 DEF Fresh, Built, GaugesCurrent, TypeOK, Report, Gauges
    <3> QED BY <2>6, <3>2 DEF FlushBuild, FreshGauges, Fresh, GaugesCurrent
  <2>7. CASE FlushFails
    BY <2>7 DEF FlushFails, Restore, Return, GaugesCurrent, FreshGauges, Fresh
  <2>8. CASE FlushOk
    BY <2>8 DEF FlushOk, Acknowledge, Return, GaugesCurrent, FreshGauges, Fresh
  <2> QED BY <1>7, <2>1, <2>2, <2>3, <2>4, <2>5, <2>6, <2>7, <2>8 DEF Run
<1>8. CASE UNCHANGED vars
  BY <1>8 DEF vars, GaugesCurrent, FreshGauges, Fresh
<1> QED BY <1>1, <1>2, <1>3, <1>4, <1>5, <1>6, <1>7, <1>8 DEF Next, Exited

\* A report never carries a gauge older than the polls it counts, for any
\* number of gauges and any interleaving of PollRuntime with prepareReport.
THEOREM FreshGaugesAlways == Spec => []FreshGauges
  BY TypeCorrect, HoldersCorrect, PollsConservedAlways, FreshInit, FreshStep, PTL
     DEF Spec, PollsConserved

-----------------------------------------------------------------------------
(* What a nil result of Run means.                                          *)

LEMMA CleanReturnStep ==
  ASSUME TypeOK, Control, HoldersIdle, PollsPartitioned, CleanReturn, [Next]_vars
  PROVE  CleanReturn'
<1> USE DEF serviceVars, serverVars, runtimeVars, reportVars, queueVars, workerVars, runVars, ctxVars
<1>1. CASE RuntimeLoop
  <2>1. CASE RuntimeTick
    BY <2>1 DEF RuntimeTick, CleanReturn, Control, LoopsStopped, WorkersDone
  <2>2. CASE WriteGauge
    BY <2>2 DEF WriteGauge, CleanReturn, Control, LoopsStopped, WorkersDone
  <2>3. CASE CountPoll
    BY <2>3 DEF CountPoll, CleanReturn, Control, LoopsStopped, WorkersDone
  <2>4. CASE RuntimeStop
    BY <2>4 DEF RuntimeStop, CleanReturn, Control, LoopsStopped, WorkersDone
  <2> QED BY <1>1, <2>1, <2>2, <2>3, <2>4 DEF RuntimeLoop
<1>2. CASE SystemLoop
  <2>1. CASE InitSystemPoll
    BY <2>1 DEF InitSystemPoll, SystemLoopStep, CleanReturn, Control, LoopsStopped, WorkersDone
  <2>2. CASE PollSystem
    BY <2>2 DEF PollSystem, SystemLoopStep, CleanReturn, Control, LoopsStopped, WorkersDone
  <2>3. CASE SystemStop
    BY <2>3 DEF SystemStop, SystemLoopStep, CleanReturn, Control, LoopsStopped, WorkersDone
  <2> QED BY <1>2, <2>1, <2>2, <2>3 DEF SystemLoop
<1>3. CASE ReportLoop
  <2>1. CASE ReportTick
    BY <2>1 DEF ReportTick, Swap, CleanReturn, Control, LoopsStopped, WorkersDone
  <2>2. CASE BuildReport
    BY <2>2 DEF BuildReport, CleanReturn, Control, LoopsStopped, WorkersDone
  <2>3. CASE BuildReportFails
    BY <2>3 DEF BuildReportFails, Restore, CleanReturn, Control, LoopsStopped, WorkersDone
  <2>4. CASE Enqueue
    BY <2>4 DEF Enqueue, CleanReturn, Control, LoopsStopped, WorkersDone
  <2>5. CASE EnqueueFull
    BY <2>5 DEF EnqueueFull, Restore, CleanReturn, Control, LoopsStopped, WorkersDone
  <2>6. CASE ReportStop
    BY <2>6 DEF ReportStop, CleanReturn, Control, LoopsStopped, WorkersDone
  <2> QED BY <1>3, <2>1, <2>2, <2>3, <2>4, <2>5, <2>6 DEF ReportLoop
<1>4. ASSUME NEW w \in Workers, Worker(w) PROVE CleanReturn'
  <2>1. CASE WorkerReceive(w)
    BY <2>1 DEF WorkerReceive, CleanReturn, Control, LoopsStopped, WorkersDone
  <2>2. CASE WorkerSendOk(w)
    BY <2>2 DEF WorkerSendOk, Acknowledge, CleanReturn, Control, LoopsStopped, WorkersDone
  <2>3. CASE WorkerSendFails(w)
    BY <2>3 DEF WorkerSendFails, Restore, CleanReturn, Control, LoopsStopped, WorkersDone
  <2>4. CASE WorkerStop(w)
    BY <2>4 DEF WorkerStop, CleanReturn, Control, LoopsStopped, WorkersDone
  <2> QED BY <1>4, <2>1, <2>2, <2>3, <2>4 DEF Worker
<1>5. CASE Cancel
  BY <1>5 DEF Cancel, CleanReturn, Control, LoopsStopped, WorkersDone
<1>6. CASE DeadlineExpires
  BY <1>6 DEF DeadlineExpires, CleanReturn, Control, LoopsStopped, WorkersDone
<1>7. CASE Run
  <2>1. CASE ShutdownBegins
    BY <2>1 DEF ShutdownBegins, CleanReturn, Control, LoopsStopped, WorkersDone
  <2>2. CASE CloseQueue
    BY <2>2 DEF CloseQueue, CleanReturn, Control, LoopsStopped, WorkersDone
  <2>3. CASE WorkersFinished
    BY <2>3 DEF WorkersFinished, CleanReturn, Control, LoopsStopped, WorkersDone
  <2>4. CASE WaitTimesOut
    BY <2>4 DEF WaitTimesOut, Return, CleanReturn, Control, LoopsStopped, WorkersDone
  <2>5. CASE FlushSwap
    BY <2>5 DEF FlushSwap, Swap, CleanReturn, Control, LoopsStopped, WorkersDone
  <2>6. CASE FlushBuild
    BY <2>6 DEF FlushBuild, CleanReturn, Control, LoopsStopped, WorkersDone
  <2>7. CASE FlushFails
    BY <2>7 DEF FlushFails, Restore, Return, CleanReturn, Control, LoopsStopped, WorkersDone
  <2>8. CASE FlushOk
    <3>1. LoopsStopped' /\ (\A w \in Workers : worker'[w] = "done") /\ sendQueue' = <<>>
      BY <2>8, WorkersNonEmpty DEF FlushOk, Return, Control, LoopsStopped, WorkersDone, Drained
    <3>2. \A a \in Places : a \notin {AtAcked, AtFinal} => Held[a] = {}
      BY <2>8, HeldValuesHold, PlaceKinds, WorkersNonEmpty
         DEF FlushOk, HeldValues, Control, HoldersIdle, LoopsStopped, WorkersDone, Drained, NoReport
    <3>3. Cover(Held) = acked \cup final.polls
      <4>1. Held[AtAcked] = acked /\ Held[AtFinal] = final.polls /\ AtAcked \in Places /\ AtFinal \in Places
        BY HeldValuesHold, PlaceKinds DEF HeldValues
      <4> QED BY <3>2, <4>1, Zenon DEF Cover
    <3>4. acked' = 1..polls'
      BY <2>8, <3>3, PartitionedAsHeld DEF FlushOk, Acknowledge
    <3> QED BY <3>1, <3>4 DEF CleanReturn
  <2> QED BY <1>7, <2>1, <2>2, <2>3, <2>4, <2>5, <2>6, <2>7, <2>8 DEF Run
<1>8. CASE UNCHANGED vars
  BY <1>8 DEF vars, CleanReturn, Control, LoopsStopped, WorkersDone
<1> QED BY <1>1, <1>2, <1>3, <1>4, <1>5, <1>6, <1>7, <1>8 DEF Next, Exited

\* Run returns nil only when everything is stopped and every poll ever made
\* was acknowledged by the server.
THEOREM CleanReturnAlways == Spec => []CleanReturn
<1>1. Init => CleanReturn
  BY DEF Init, CleanReturn
<1> QED BY <1>1, TypeCorrect, ControlCorrect, HoldersCorrect, PollsConservedAlways,
           CleanReturnStep, PTL DEF Spec, PollsConserved

\* After Run returned nil no goroutine takes a step.
THEOREM NoGoroutineLeftAlways == Spec => NoGoroutineLeft
<1>1. Control /\ [Next]_vars => [result # "ok"]_vars
  <2> SUFFICES ASSUME Control, Next, result = "ok" PROVE UNCHANGED vars
    BY DEF vars
  <2>1. run = "returned" /\ ctxDone /\ LoopsStopped /\ WorkersDone
    BY DEF Control
  <2>2. ~RuntimeLoop
    BY <2>1 DEF LoopsStopped, RuntimeLoop, RuntimeTick, WriteGauge, CountPoll, RuntimeStop
  <2>3. ~SystemLoop
    BY <2>1 DEF LoopsStopped, SystemLoop, InitSystemPoll, PollSystem, SystemStop, SystemLoopStep
  <2>4. ~ReportLoop
    BY <2>1 DEF LoopsStopped, ReportLoop, ReportTick, BuildReport, BuildReportFails, Enqueue,
                EnqueueFull, ReportStop
  <2>5. \A w \in Workers : ~Worker(w)
    BY <2>1 DEF WorkersDone, Worker, WorkerReceive, WorkerSendOk, WorkerSendFails, WorkerStop
  <2>6. ~Run /\ ~Cancel /\ ~DeadlineExpires
    BY <2>1 DEF Run, ShutdownBegins, CloseQueue, WorkersFinished, WaitTimesOut, InWaitForGroup,
                FlushSwap, FlushBuild, FlushFails, FlushOk, Cancel, DeadlineExpires
  <2> QED BY <2>2, <2>3, <2>4, <2>5, <2>6 DEF Next, Exited
<1> QED BY <1>1, ControlCorrect, PTL DEF Spec, NoGoroutineLeft

-----------------------------------------------------------------------------
(* The agent implements the ledger.                                         *)

LEMMA LedgerStep ==
  ASSUME TypeOK, Control, PollsConserved, GaugesCurrent, PollsConserved', CleanReturn', [Next]_vars
  PROVE  [Ledger!Next]_(Ledger!vars)
<1> USE DEF serviceVars, serverVars, runtimeVars, reportVars, queueVars, workerVars, runVars, ctxVars
<1>1. CASE RuntimeLoop
  <2>1. CASE RuntimeTick
    BY <2>1 DEF RuntimeTick, Ledger!vars
  <2>2. CASE WriteGauge
    BY <2>2 DEF WriteGauge, Ledger!vars
  <2>3. CASE CountPoll
    <3>1. result # "ok"
      BY <2>3 DEF CountPoll, Control, LoopsStopped
    <3>2. Ledger!Poll
      BY <2>3, <3>1 DEF CountPoll, GaugesCurrent, Ledger!Poll
    <3> QED BY <3>2 DEF Ledger!Next
  <2>4. CASE RuntimeStop
    BY <2>4 DEF RuntimeStop, Ledger!vars
  <2> QED BY <1>1, <2>1, <2>2, <2>3, <2>4 DEF RuntimeLoop
<1>2. CASE SystemLoop
  <2>1. CASE InitSystemPoll
    BY <2>1 DEF InitSystemPoll, SystemLoopStep, Ledger!vars
  <2>2. CASE PollSystem
    BY <2>2 DEF PollSystem, SystemLoopStep, Ledger!vars
  <2>3. CASE SystemStop
    BY <2>3 DEF SystemStop, SystemLoopStep, Ledger!vars
  <2> QED BY <1>2, <2>1, <2>2, <2>3 DEF SystemLoop
<1>3. CASE ReportLoop
  <2>1. CASE ReportTick
    BY <2>1 DEF ReportTick, Swap, Ledger!vars
  <2>2. CASE BuildReport
    BY <2>2 DEF BuildReport, Ledger!vars
  <2>3. CASE BuildReportFails
    BY <2>3 DEF BuildReportFails, Restore, Ledger!vars
  <2>4. CASE Enqueue
    BY <2>4 DEF Enqueue, Ledger!vars
  <2>5. CASE EnqueueFull
    BY <2>5 DEF EnqueueFull, Restore, Ledger!vars
  <2>6. CASE ReportStop
    BY <2>6 DEF ReportStop, Ledger!vars
  <2> QED BY <1>3, <2>1, <2>2, <2>3, <2>4, <2>5, <2>6 DEF ReportLoop
<1>4. ASSUME NEW w \in Workers, Worker(w) PROVE [Ledger!Next]_(Ledger!vars)
  <2>1. CASE WorkerReceive(w)
    BY <2>1 DEF WorkerReceive, Ledger!vars
  <2>2. CASE WorkerSendOk(w)
    <3>1. result # "ok"
      BY <2>2, <1>4 DEF WorkerSendOk, Control, WorkersDone
    <3>2. sending[w].polls \subseteq (1..polls) \ acked
      <4>1. Held[<<"worker", w>>] = sending[w].polls /\ Held[AtAcked] = acked
        BY <1>4, HeldValuesHold DEF HeldValues
      <4>2. <<"worker", w>> \in Places /\ AtAcked \in Places /\ <<"worker", w>> # AtAcked
        BY <1>4, PlaceKinds DEF AtAcked
      <4> QED BY <4>1, <4>2, HeldInRange, PartitionedAsHeld DEF Disjoint, PollsConserved
    <3>3. reported' = reported + Cardinality(sending[w].polls)
      BY <2>2, <1>4 DEF WorkerSendOk, Acknowledge, PollsConserved, CountsExact, Counts
    <3>4. acked' = acked \cup sending[w].polls /\ UNCHANGED <<polls, result>>
      BY <2>2 DEF WorkerSendOk, Acknowledge
    <3>5. Ledger!Acknowledge(sending[w].polls)
      BY <3>1, <3>3, <3>4 DEF Ledger!Acknowledge, Ledger!Cardinality, Cardinality
    <3> QED BY <3>2, <3>5 DEF Ledger!Next
  <2>3. CASE WorkerSendFails(w)
    BY <2>3 DEF WorkerSendFails, Restore, Ledger!vars
  <2>4. CASE WorkerStop(w)
    BY <2>4 DEF WorkerStop, Ledger!vars
  <2> QED BY <1>4, <2>1, <2>2, <2>3, <2>4 DEF Worker
<1>5. CASE Cancel
  BY <1>5 DEF Cancel, Ledger!vars
<1>6. CASE DeadlineExpires
  BY <1>6 DEF DeadlineExpires, Ledger!vars
<1>7. CASE Run
  <2>1. CASE ShutdownBegins
    BY <2>1 DEF ShutdownBegins, Ledger!vars
  <2>2. CASE CloseQueue
    BY <2>2 DEF CloseQueue, Ledger!vars
  <2>3. CASE WorkersFinished
    BY <2>3 DEF WorkersFinished, Ledger!vars
  <2>4. CASE WaitTimesOut
    <3>1. Ledger!GiveUp
      BY <2>4 DEF WaitTimesOut, InWaitForGroup, Return, Control, Ledger!GiveUp
    <3> QED BY <3>1 DEF Ledger!Next
  <2>5. CASE FlushSwap
    BY <2>5 DEF FlushSwap, Swap, Ledger!vars
  <2>6. CASE FlushBuild
    BY <2>6 DEF FlushBuild, Ledger!vars
  <2>7. CASE FlushFails
    <3>1. Ledger!GiveUp
      BY <2>7 DEF FlushFails, Return, Control, Ledger!GiveUp
    <3> QED BY <3>1 DEF Ledger!Next
  <2>8. CASE FlushOk
    <3>1. result = "none" /\ result' = "ok" /\ polls' = polls
      BY <2>8 DEF FlushOk, Return, Control
    <3>2. acked' = 1..polls
      BY <3>1 DEF CleanReturn
    <3>3. Cardinality(1..polls) = polls
      BY FS_Interval DEF TypeOK
    <3>4. reported' = polls
      BY <3>2, <3>3 DEF PollsConserved, CountsExact
    <3>5. Ledger!Finish
      BY <3>1, <3>2, <3>4 DEF Ledger!Finish
    <3> QED BY <3>5 DEF Ledger!Next
  <2> QED BY <1>7, <2>1, <2>2, <2>3, <2>4, <2>5, <2>6, <2>7, <2>8 DEF Run
<1>8. CASE UNCHANGED vars
  BY <1>8 DEF vars, Ledger!vars
<1> QED BY <1>1, <1>2, <1>3, <1>4, <1>5, <1>6, <1>7, <1>8 DEF Next, Exited

\* With goroutines, queue, restores and shutdown hidden, every behaviour of the
\* agent is one of PollLedger: each poll is acknowledged at most once, with the
\* right PollCount, and nil is returned only when none is left.
THEOREM AgentImplementsLedger == Spec => LedgerSpec
<1>1. Init => Ledger!Init
  BY DEF Init, Ledger!Init
<1>2. Spec => []GaugesCurrent
  BY TypeCorrect, HoldersCorrect, PollsConservedAlways, FreshInit, FreshStep, PTL
     DEF Spec, PollsConserved
<1> QED BY <1>1, <1>2, TypeCorrect, ControlCorrect, PollsConservedAlways, CleanReturnAlways,
           LedgerStep, PTL DEF Spec, LedgerSpec, Ledger!Spec
=============================================================================
