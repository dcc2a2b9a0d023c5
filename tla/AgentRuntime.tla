---------------------------- MODULE AgentRuntime ----------------------------
(***************************************************************************)
(* The agent's runtime: internal/agent/agent.go and report.go driving the  *)
(* reporting service of internal/agent/service.  Run starts three loops    *)
(* (runtime poll, system poll, report) and RateLimit send workers that     *)
(* share one bounded queue, then shuts them down in a fixed order within   *)
(* one deadline and sends a final report.                                  *)
(*                                                                         *)
(* The n-th completed PollRuntime is called poll n.  The code only adds    *)
(* and subtracts numbers; next to each number the model keeps, as history, *)
(* the set of polls it stands for (unsent next to pollSinceReport, polls   *)
(* in a report next to PollCount, acked next to what was acknowledged).    *)
(* The value of a gauge is the number of the poll that wrote it.           *)
(***************************************************************************)
EXTENDS Integers, Sequences, FiniteSets

CONSTANTS
    Workers,        \* the goroutines running runSendWorker
    RateLimit,      \* AgentConfig.RateLimit: workers, and capacity of the queue
    NGauges,        \* gauges PollRuntime writes, one lock acquisition each
    SnapshotMayFail, \* whether AgentStorage.Snapshot can return an error
    MaxPolls        \* bound: PollRuntime calls that are explored

ASSUME WorkersAssumption   == IsFiniteSet(Workers) /\ Cardinality(Workers) = RateLimit
ASSUME RateLimitAssumption == RateLimit \in Nat \ {0}   \* checked by agent.New
ASSUME NGaugesAssumption   == NGauges \in Nat \ {0}
ASSUME SnapshotAssumption  == SnapshotMayFail \in BOOLEAN
ASSUME MaxPollsAssumption  == MaxPolls \in Nat

VARIABLES
    gauges,           \* MemStorage gauges written by PollRuntime
    pollSinceReport,  \* ReportingService.pollSinceReport
    runtimeLoop,      \* control point of runRuntimePollLoop
    written,          \* gauges written so far by the running PollRuntime
    systemLoop,       \* control point of runSystemPollLoop
    reportLoop,       \* control point of runReportLoop
    report,           \* the report being prepared by the report loop
    sendQueue,        \* the buffered channel sendQueue / recvQueue
    closed,           \* close(a.sendQueue) was executed
    worker,           \* control point of each runSendWorker
    sending,          \* the report each worker is sending
    run,              \* control point of Run
    final,            \* the report prepared by Flush
    result,           \* what Run returned
    ctxDone,          \* the context of Run is cancelled
    sendCancelled,    \* sendCtx is cancelled
    expired,          \* the shutdown deadline has passed
    polls,            \* history: number of completed PollRuntime calls
    unsent,           \* history: polls counted in pollSinceReport
    acked,            \* history: polls of reports the server acknowledged
    reported          \* history: the sum of their PollCounts

serverVars  == <<acked, reported>>
serviceVars == <<gauges, pollSinceReport, polls, unsent, serverVars>>
runtimeVars == <<runtimeLoop, written>>
reportVars  == <<reportLoop, report>>
queueVars   == <<sendQueue, closed>>
workerVars  == <<worker, sending>>
runVars     == <<run, final, result>>
ctxVars     == <<ctxDone, sendCancelled, expired>>
vars == <<serviceVars, runtimeVars, systemLoop, reportVars, queueVars,
          workerVars, runVars, ctxVars>>

Gauges == 1..NGauges

Report == [PollCount : Nat, gauges : [Gauges -> Nat], polls : SUBSET Nat]

\* Go's zero Report, held by a goroutine that has none.
NoReport == [PollCount |-> 0, gauges |-> [g \in Gauges |-> 0], polls |-> {}]

TypeOK ==
    /\ gauges \in [Gauges -> Nat]
    /\ pollSinceReport \in Nat
    /\ runtimeLoop \in {"select", "poll", "stopped"}
    /\ written \in 0..NGauges
    /\ systemLoop \in {"init", "select", "memory", "cpu", "stopped"}
    /\ reportLoop \in {"select", "build", "enqueue", "stopped"}
    /\ report \in Report
    /\ sendQueue \in Seq(Report)
    /\ Len(sendQueue) <= RateLimit
    /\ closed \in BOOLEAN
    /\ worker \in [Workers -> {"select", "send", "done"}]
    /\ sending \in [Workers -> Report]
    /\ run \in {"running", "waitLoops", "waitWorkers", "flush", "build", "send", "returned"}
    /\ final \in Report
    /\ result \in {"none", "ok", "error"}
    /\ ctxDone \in BOOLEAN
    /\ sendCancelled \in BOOLEAN
    /\ expired \in BOOLEAN
    /\ polls \in Nat
    /\ unsent \in SUBSET Nat
    /\ acked \in SUBSET Nat
    /\ reported \in Nat

Init ==
    /\ gauges = [g \in Gauges |-> 0]
    /\ pollSinceReport = 0
    /\ runtimeLoop = "select" /\ written = 0
    /\ systemLoop = "init"
    /\ reportLoop = "select" /\ report = NoReport
    /\ sendQueue = <<>> /\ closed = FALSE
    /\ worker = [w \in Workers |-> "select"]
    /\ sending = [w \in Workers |-> NoReport]
    /\ run = "running" /\ final = NoReport /\ result = "none"
    /\ ctxDone = FALSE /\ sendCancelled = FALSE /\ expired = FALSE
    /\ polls = 0 /\ unsent = {} /\ acked = {} /\ reported = 0

-----------------------------------------------------------------------------
(* Operations of the reporting service that several goroutines call.       *)

\* pollSinceReport.Swap(0): r becomes a report without its batch yet.
Swapped == [NoReport EXCEPT !.PollCount = pollSinceReport, !.polls = unsent]

Swap ==
    /\ pollSinceReport' = 0
    /\ unsent' = {}

\* buildMetricsBatch: one Snapshot of all gauges, under the storage's lock.
Built(r) == [r EXCEPT !.gauges = gauges]

\* Mutant of Restore: Store where the code has Add.
RestoreByStore(r) ==
    /\ pollSinceReport' = r.PollCount
    /\ unsent' = unsent \cup r.polls

\* Restore, and the error path of prepareReport: pollSinceReport.Add(PollCount).
Restore(r) ==
    /\ pollSinceReport' = pollSinceReport + r.PollCount
    /\ unsent' = unsent \cup r.polls

\* The sender returned nil: the server answered 200 OK (gRPC OK).
Acknowledge(r) ==
    /\ acked' = acked \cup r.polls
    /\ reported' = reported + r.PollCount

-----------------------------------------------------------------------------
(* runRuntimePollLoop and PollRuntime.  A select with a tick and a done     *)
(* context both ready picks either, so a tick stays possible after ctxDone. *)

RuntimeTick ==
    /\ runtimeLoop = "select"
    /\ polls < MaxPolls
    /\ runtimeLoop' = "poll"
    /\ written' = 0
    /\ UNCHANGED <<serviceVars, systemLoop, reportVars, queueVars, workerVars, runVars, ctxVars>>

\* One updateGauge call; a Snapshot may run between two of them.
WriteGauge ==
    /\ runtimeLoop = "poll"
    /\ written < NGauges
    /\ gauges' = [gauges EXCEPT ![written + 1] = polls + 1]
    /\ written' = written + 1
    /\ UNCHANGED <<pollSinceReport, polls, unsent, serverVars, runtimeLoop, systemLoop,
                   reportVars, queueVars, workerVars, runVars, ctxVars>>

\* Mutant of GaugesWritten: the poll is counted before its gauges are written.
GaugesNotAwaited == TRUE

GaugesWritten == written = NGauges

\* pollSinceReport.Add(1), the last statement of PollRuntime.
CountPoll ==
    /\ runtimeLoop = "poll"
    /\ GaugesWritten
    /\ pollSinceReport' = pollSinceReport + 1
    /\ polls' = polls + 1
    /\ unsent' = unsent \cup {polls + 1}
    /\ runtimeLoop' = "select"
    /\ UNCHANGED <<gauges, serverVars, written, systemLoop, reportVars, queueVars,
                   workerVars, runVars, ctxVars>>

RuntimeStop ==
    /\ runtimeLoop = "select"
    /\ ctxDone
    /\ runtimeLoop' = "stopped"
    /\ UNCHANGED <<serviceVars, written, systemLoop, reportVars, queueVars, workerVars,
                   runVars, ctxVars>>

-----------------------------------------------------------------------------
(* runSystemPollLoop: InitSystemPoll, then PollSystem on each tick.  Its    *)
(* gauges carry no poll and are left out; its early returns are kept.       *)

SystemLoopStep(from, to) ==
    /\ systemLoop = from
    /\ systemLoop' = to
    /\ UNCHANGED <<serviceVars, runtimeVars, reportVars, queueVars, workerVars,
                   runVars, ctxVars>>

InitSystemPoll == SystemLoopStep("init", "select")

PollSystem ==
    \/ SystemLoopStep("select", "memory")   \* tick
    \/ SystemLoopStep("memory", "cpu")      \* TotalMemory and FreeMemory written
    \/ SystemLoopStep("memory", "select")   \* mem.VirtualMemory failed
    \/ SystemLoopStep("cpu", "select")      \* CPU gauges written, or cpu.Percent failed

SystemStop == ctxDone /\ SystemLoopStep("select", "stopped")

-----------------------------------------------------------------------------
(* runReportLoop and report().                                              *)

\* Mutant of PollsPending: off by one, a single poll is never reported.
SeveralPollsPending == pollSinceReport > 1

PollsPending == pollSinceReport > 0

\* A tick with pollSinceReport = 0 swaps 0 for 0 and returns: no step.
ReportTick ==
    /\ reportLoop = "select"
    /\ PollsPending
    /\ Swap
    /\ report' = Swapped
    /\ reportLoop' = "build"
    /\ UNCHANGED <<gauges, polls, serverVars, runtimeVars, systemLoop, queueVars, workerVars,
                   runVars, ctxVars>>

BuildReport ==
    /\ reportLoop = "build"
    /\ report' = Built(report)
    /\ reportLoop' = "enqueue"
    /\ UNCHANGED <<serviceVars, runtimeVars, systemLoop, queueVars, workerVars, runVars, ctxVars>>

\* Snapshot returned an error (the AgentStorage interface allows it).
BuildReportFails ==
    /\ SnapshotMayFail
    /\ reportLoop = "build"
    /\ Restore(report)
    /\ report' = NoReport
    /\ reportLoop' = "select"
    /\ UNCHANGED <<gauges, polls, serverVars, runtimeVars, systemLoop, queueVars, workerVars,
                   runVars, ctxVars>>

\* Mutant of QueueHasRoom: the capacity is off by one.
QueueHasRoomForOneMore == Len(sendQueue) <= RateLimit

QueueHasRoom == Len(sendQueue) < RateLimit

Enqueue ==
    /\ reportLoop = "enqueue"
    /\ QueueHasRoom
    /\ sendQueue' = Append(sendQueue, report)
    /\ report' = NoReport
    /\ reportLoop' = "select"
    /\ UNCHANGED <<serviceVars, runtimeVars, systemLoop, closed, workerVars, runVars, ctxVars>>

\* The default branch of the select: the queue is full.
EnqueueFull ==
    /\ reportLoop = "enqueue"
    /\ ~QueueHasRoom
    /\ Restore(report)
    /\ report' = NoReport
    /\ reportLoop' = "select"
    /\ UNCHANGED <<gauges, polls, serverVars, runtimeVars, systemLoop, queueVars, workerVars,
                   runVars, ctxVars>>

ReportStop ==
    /\ reportLoop = "select"
    /\ ctxDone
    /\ reportLoop' = "stopped"
    /\ UNCHANGED <<serviceVars, runtimeVars, systemLoop, report, queueVars, workerVars,
                   runVars, ctxVars>>

-----------------------------------------------------------------------------
(* runSendWorker.  Whether a send succeeds is the environment's choice; a   *)
(* send that outlives sendCtx may have been answered just in time.          *)

WorkerReceive(w) ==
    /\ worker[w] = "select"
    /\ sendQueue # <<>>
    /\ sending' = [sending EXCEPT ![w] = Head(sendQueue)]
    /\ sendQueue' = Tail(sendQueue)
    /\ worker' = [worker EXCEPT ![w] = "send"]
    /\ UNCHANGED <<serviceVars, runtimeVars, systemLoop, reportVars, closed, runVars, ctxVars>>

WorkerSendOk(w) ==
    /\ worker[w] = "send"
    /\ Acknowledge(sending[w])
    /\ sending' = [sending EXCEPT ![w] = NoReport]
    /\ worker' = [worker EXCEPT ![w] = "select"]
    /\ UNCHANGED <<gauges, pollSinceReport, polls, unsent, runtimeVars, systemLoop, reportVars,
                   queueVars, runVars, ctxVars>>

WorkerSendFails(w) ==
    /\ worker[w] = "send"
    /\ Restore(sending[w])
    /\ sending' = [sending EXCEPT ![w] = NoReport]
    /\ worker' = [worker EXCEPT ![w] = "select"]
    /\ UNCHANGED <<gauges, polls, serverVars, runtimeVars, systemLoop, reportVars, queueVars,
                   runVars, ctxVars>>

\* The receive yields ok = false.
Drained == closed /\ sendQueue = <<>>

WorkerStop(w) ==
    /\ worker[w] = "select"
    /\ sendCancelled \/ Drained
    /\ worker' = [worker EXCEPT ![w] = "done"]
    /\ UNCHANGED <<serviceVars, runtimeVars, systemLoop, reportVars, queueVars, sending,
                   runVars, ctxVars>>

-----------------------------------------------------------------------------
(* Run after its goroutines are started.                                    *)

\* SIGTERM, SIGINT or SIGQUIT cancels the context given to Run.
Cancel ==
    /\ ~ctxDone
    /\ ctxDone' = TRUE
    /\ UNCHANGED <<serviceVars, runtimeVars, systemLoop, reportVars, queueVars, workerVars,
                   runVars, sendCancelled, expired>>

\* <-ctx.Done() returns and the shutdown deadline starts.
ShutdownBegins ==
    /\ run = "running"
    /\ ctxDone
    /\ run' = "waitLoops"
    /\ UNCHANGED <<serviceVars, runtimeVars, systemLoop, reportVars, queueVars, workerVars,
                   final, result, ctxVars>>

DeadlineExpires ==
    /\ run \notin {"running", "returned"}
    /\ ~expired
    /\ expired' = TRUE
    /\ UNCHANGED <<serviceVars, runtimeVars, systemLoop, reportVars, queueVars, workerVars,
                   runVars, ctxDone, sendCancelled>>

\* Mutant of LoopsStopped: the wait group misses the report loop.
PollLoopsStopped == runtimeLoop = "stopped" /\ systemLoop = "stopped"

\* pollAndReportWG is zero.
LoopsStopped == runtimeLoop = "stopped" /\ systemLoop = "stopped" /\ reportLoop = "stopped"

\* Mutant of WorkersDone: the wait group counts one worker for all.
SomeWorkerDone == \E w \in Workers : worker[w] = "done"

\* sendWG is zero.
WorkersDone == \A w \in Workers : worker[w] = "done"

\* waitForGroup(pollAndReportWG) returned nil; the queue is closed.
CloseQueue ==
    /\ run = "waitLoops"
    /\ LoopsStopped
    /\ closed' = TRUE
    /\ run' = "waitWorkers"
    /\ UNCHANGED <<serviceVars, runtimeVars, systemLoop, reportVars, sendQueue, workerVars,
                   final, result, ctxVars>>

\* waitForGroup(sendWG) returned nil.
WorkersFinished ==
    /\ run = "waitWorkers"
    /\ WorkersDone
    /\ run' = "flush"
    /\ UNCHANGED <<serviceVars, runtimeVars, systemLoop, reportVars, queueVars, workerVars,
                   final, result, ctxVars>>

\* Mutant of Return: Run drops the error and returns nil.
ReturnNil(r) ==
    /\ run' = "returned"
    /\ result' = "ok"
    /\ sendCancelled' = TRUE
    /\ UNCHANGED <<ctxDone, expired>>

\* Run returns r; the deferred cancelSend runs on every path.
Return(r) ==
    /\ run' = "returned"
    /\ result' = r
    /\ sendCancelled' = TRUE
    /\ UNCHANGED <<ctxDone, expired>>

\* Mutant of InWaitForGroup: sendWG.Wait() is called without the deadline.
WaitingForLoops == run = "waitLoops"

InWaitForGroup == run \in {"waitLoops", "waitWorkers"}

\* waitForGroup returned ctx.Err() for the loops or for the workers.
WaitTimesOut ==
    /\ InWaitForGroup
    /\ expired
    /\ Return("error")
    /\ UNCHANGED <<serviceVars, runtimeVars, systemLoop, reportVars, queueVars, workerVars, final>>

\* Flush: prepareFinalReport makes a report even of zero polls.
FlushSwap ==
    /\ run = "flush"
    /\ Swap
    /\ final' = Swapped
    /\ run' = "build"
    /\ UNCHANGED <<gauges, polls, serverVars, runtimeVars, systemLoop, reportVars, queueVars,
                   workerVars, result, ctxVars>>

FlushBuild ==
    /\ run = "build"
    /\ final' = Built(final)
    /\ run' = "send"
    /\ UNCHANGED <<serviceVars, runtimeVars, systemLoop, reportVars, queueVars, workerVars,
                   result, ctxVars>>

\* The snapshot failed, or the send failed or met the deadline.
FlushFails ==
    /\ run = "send" \/ (run = "build" /\ SnapshotMayFail)
    /\ Restore(final)
    /\ final' = NoReport
    /\ Return("error")
    /\ UNCHANGED <<gauges, polls, serverVars, runtimeVars, systemLoop, reportVars, queueVars, workerVars>>

FlushOk ==
    /\ run = "send"
    /\ Acknowledge(final)
    /\ final' = NoReport
    /\ Return("ok")
    /\ UNCHANGED <<gauges, pollSinceReport, polls, unsent, runtimeVars, systemLoop, reportVars,
                   queueVars, workerVars>>

\* After Run the process exits; goroutines that a timeout left behind may
\* still take steps until it does.
Exited == run = "returned" /\ UNCHANGED vars

-----------------------------------------------------------------------------
RuntimeLoop == RuntimeTick \/ WriteGauge \/ CountPoll \/ RuntimeStop
SystemLoop  == InitSystemPoll \/ PollSystem \/ SystemStop
ReportLoop  == ReportTick \/ BuildReport \/ BuildReportFails \/ Enqueue \/ EnqueueFull \/ ReportStop
Worker(w)   == WorkerReceive(w) \/ WorkerSendOk(w) \/ WorkerSendFails(w) \/ WorkerStop(w)
Run         == ShutdownBegins \/ CloseQueue \/ WorkersFinished \/ WaitTimesOut
               \/ FlushSwap \/ FlushBuild \/ FlushFails \/ FlushOk

Next ==
    \/ RuntimeLoop \/ SystemLoop \/ ReportLoop
    \/ \E w \in Workers : Worker(w)
    \/ Cancel \/ DeadlineExpires \/ Run \/ Exited

Spec == Init /\ [][Next]_vars

\* Run is scheduled, and its 30 s timer fires; a final send returns because
\* its context carries that deadline.  Nothing is assumed of the loops, the
\* workers or the server.
ShutdownSpec == Spec /\ WF_vars(Run) /\ WF_vars(DeadlineExpires)

-----------------------------------------------------------------------------
(* Properties.                                                              *)

\* Everywhere the count of a poll can be.
Places ==
    {<<"unsent", 0>>, <<"acked", 0>>, <<"report", 0>>, <<"final", 0>>}
    \cup ({"queue"} \X (1..RateLimit))
    \cup ({"worker"} \X Workers)

PollsAt(place) ==
    CASE place[1] = "unsent" -> unsent
      [] place[1] = "acked"  -> acked
      [] place[1] = "report" -> report.polls
      [] place[1] = "final"  -> final.polls
      [] place[1] = "queue"  -> IF place[2] <= Len(sendQueue) THEN sendQueue[place[2]].polls ELSE {}
      [] place[1] = "worker" -> sending[place[2]].polls

\* Every finished poll is in exactly one place.
PollsPartitioned ==
    /\ UNION {PollsAt(a) : a \in Places} = 1..polls
    /\ \A a, b \in Places : a # b => PollsAt(a) \cap PollsAt(b) = {}

\* Every number the code keeps counts exactly the polls it stands for.
Counts(r) == r.PollCount = Cardinality(r.polls)

CountsExact ==
    /\ pollSinceReport = Cardinality(unsent)
    /\ reported = Cardinality(acked)
    /\ Counts(report) /\ Counts(final)
    /\ \A i \in 1..Len(sendQueue) : Counts(sendQueue[i])
    /\ \A w \in Workers : Counts(sending[w])

\* No interleaving of Swap, Add and Restore, no full queue, failed snapshot,
\* failed send or shutdown loses a poll or counts it twice: PollCount
\* is returned to pollSinceReport by addition (service/report.go).
PollsConserved == PollsPartitioned /\ CountsExact

\* Run returns nil only when every loop and worker has stopped, the queue is
\* drained, and every poll ever made was acknowledged by the server
\* (agent.go: "sends the final snapshot").
CleanReturn ==
    result = "ok" =>
        /\ LoopsStopped
        /\ \A w \in Workers : worker[w] = "done"
        /\ sendQueue = <<>>
        /\ acked = 1..polls

\* The report loop never reaches its channel send once the queue is closed:
\* in Go that send panics, even in a select with a default.
NoSendOnClosedQueue == reportLoop = "enqueue" => ~closed

\* Flush runs alone: its Swap races with no poll, no report and no Restore, so
\* the final report holds everything that is left, and its request is the
\* only one in flight.
FlushAlone ==
    run \in {"flush", "build", "send"} =>
        /\ LoopsStopped
        /\ \A w \in Workers : worker[w] = "done"
        /\ sendQueue = <<>>

\* A report that counts poll n carries, for every runtime gauge, the value of
\* poll n or of a later one, however the Snapshot falls between gauge writes:
\* PollRuntime counts after writing, prepareReport swaps before reading.
Fresh(r) == \A p \in r.polls, g \in Gauges : p <= r.gauges[g]

FreshGauges ==
    /\ reportLoop = "enqueue" => Fresh(report)
    /\ run = "send" => Fresh(final)
    /\ \A i \in 1..Len(sendQueue) : Fresh(sendQueue[i])
    /\ \A w \in Workers : Fresh(sending[w])

\* After Run returned nil no goroutine of the agent takes a step any more.
NoGoroutineLeft == [][result # "ok"]_vars

\* Once the context is cancelled Run returns, whatever the loops, the workers
\* and the server do (waitForGroup and Flush share one deadline).
ShutdownCompletes == ctxDone ~> (run = "returned")

\* The report loop and the workers are scheduled, tickers keep ticking, and
\* neither the storage nor the server fails for ever: what keeps being tried
\* succeeds now and then.
DeliveryFairness ==
    /\ WF_vars(ReportTick) /\ SF_vars(BuildReport) /\ WF_vars(Enqueue \/ EnqueueFull)
    /\ WF_vars(BuildReport \/ BuildReportFails)
    /\ \A w \in Workers : WF_vars(WorkerReceive(w))
    /\ SF_vars(\E w \in Workers : WorkerSendOk(w))

\* While the agent runs, the count of each finished poll reaches the server
\* in the end, through any number of full queues, failed snapshots and sends.
EventuallyAcked ==
    DeliveryFairness => \A p \in 1..MaxPolls : (p <= polls) ~> (p \in acked \/ ctxDone)

-----------------------------------------------------------------------------
(* The inductive invariant the proofs use.                                  *)

\* How the control points constrain each other during shutdown.
Control ==
    /\ closed => LoopsStopped
    /\ run \in {"waitWorkers", "flush", "build", "send"} => closed
    /\ run \in {"flush", "build", "send"} => WorkersDone
    /\ run # "running" => ctxDone
    /\ sendCancelled => run = "returned"
    /\ result # "none" => run = "returned"
    /\ \A w \in Workers : worker[w] = "done" => sendCancelled \/ Drained
    /\ result = "ok" => closed /\ WorkersDone /\ sendQueue = <<>>

\* A goroutine holds a report only while it prepares or sends it.
HoldersIdle ==
    /\ reportLoop \in {"select", "stopped"} => report = NoReport
    /\ \A w \in Workers : worker[w] # "send" => sending[w] = NoReport
    /\ run \notin {"build", "send"} => final = NoReport
    /\ run \in {"build", "send"} => unsent = {}

\* The stored gauges are those of the last finished poll or of the running one.
GaugesCurrent ==
    /\ \A g \in Gauges : polls <= gauges[g]
    /\ runtimeLoop = "poll" => \A g \in 1..written : polls + 1 <= gauges[g]
    /\ runtimeLoop = "poll" => polls < MaxPolls

\* All of it: the control of the shutdown, who holds a report, where each
\* poll is counted, how gauges relate to polls, and what a clean return means.
IInv == TypeOK /\ Control /\ HoldersIdle /\ PollsConserved /\ GaugesCurrent /\ FreshGauges /\ CleanReturn

-----------------------------------------------------------------------------
(* Refinement.                                                              *)

Ledger == INSTANCE PollLedger

\* The agent implements PollLedger: with goroutines, queue and retries hidden,
\* it acknowledges each poll at most once, with the right PollCount, and
\* returns nil only when none is left.
LedgerSpec == Ledger!Spec
=============================================================================
