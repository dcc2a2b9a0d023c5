------------------------------ MODULE Delivery ------------------------------
(***************************************************************************)
(* One report on its way from the agent to the server: HTTPSender.Send and *)
(* GRPCSender.Send with their retries, the network between, and the batch  *)
(* handlers of the server (UpdatesJSON, UpdateMetrics) down to the storage.*)
(*                                                                         *)
(* AgentRuntime treats Send as one step that succeeds or fails.  Here it   *)
(* is opened up: an attempt is a message that may be lost, handled late or *)
(* handled while its answer is lost.  A report stands for the set of polls *)
(* in its PollCount; the server's counter for how often it added each poll.*)
(***************************************************************************)
EXTENDS Integers, FiniteSets

CONSTANTS
    Workers,      \* send workers of the agent
    Retries,      \* len(retryDelays)
    Environments, \* the transports, networks and servers to be explored
    MaxPolls,     \* bound: polls that are explored
    MaxReports    \* bound: reports that are explored

\* AgentConfig.Transport; the workers RateLimit starts; whether connections may
\* break; the errors the server may answer with before it stores a batch;
\* whether it may fail after that.
Environment ==
    [transport : {"http", "grpc"}, workers : SUBSET Workers \ {{}}, lossy : BOOLEAN,
     rejections : SUBSET {"serverError", "clientError"}, saveMayFail : BOOLEAN]

Errors == {"serverError", "clientError", "network", "canceled"}

ASSUME DeliveryWorkersAssumption == IsFiniteSet(Workers) /\ Workers # {}
ASSUME RetriesAssumption         == Retries \in Nat
ASSUME EnvironmentsAssumption    == Environments \subseteq Environment
ASSUME DeliveryBoundsAssumption  == MaxPolls \in Nat /\ MaxReports \in Nat

VARIABLES
    env,        \* the environment of this run
    polls,      \* history: polls so far
    pending,    \* pollSinceReport: polls that wait for a report
    reports,    \* history: reports so far
    batch,      \* history: the polls of each report
    pc,         \* where a worker is in Send
    report,     \* the report a worker sends
    attempt,    \* the loop variable of the retry loop
    inflight,   \* attempts on their way to the server or in its handlers
    answers,    \* answers on their way back
    cancelled,  \* sendCtx is done
    acked,      \* history: polls of reports whose Send returned nil
    times,      \* the server's PollCount: how often each poll was added
    stored,     \* history: how often each report was stored
    gauge       \* the report whose gauge values the server holds

vars == <<env, polls, pending, reports, batch, pc, report, attempt, inflight, answers, cancelled,
          acked, times, stored, gauge>>

senderVars == <<pc, report, attempt>>
serverVars == <<times, stored, gauge>>
fixedVars  == <<env, cancelled>>
agentVars  == <<polls, pending, reports, batch>>

Polls   == 1..MaxPolls
Ids     == 1..MaxReports
Message == [id : Ids, attempt : 0..Retries]

\* The message of a worker's current attempt.
Current(w) == [id |-> report[w], attempt |-> attempt[w]]

\* The workers that are inside Send.
Sending == {w \in Workers : pc[w] # "idle"}

TypeOK ==
    /\ env \in Environment
    /\ polls \in 0..MaxPolls
    /\ pending \subseteq 1..polls
    /\ reports \in 0..MaxReports
    /\ batch \in [Ids -> SUBSET Polls]
    /\ pc \in [Workers -> {"idle", "prepare", "attempt", "await", "backoff"}]
    /\ report \in [Workers -> 0..MaxReports]
    /\ attempt \in [Workers -> 0..Retries]
    /\ inflight \subseteq Message
    /\ answers \subseteq [to : Message, is : {"ok"} \cup Errors]
    /\ cancelled \in BOOLEAN
    /\ acked \subseteq 1..polls
    /\ times \in [Polls -> Nat]
    /\ stored \in [Ids -> Nat]
    /\ gauge \in 0..MaxReports

Init ==
    /\ env \in Environments
    /\ polls = 0 /\ pending = {} /\ reports = 0
    /\ batch = [r \in Ids |-> {}]
    /\ pc = [w \in Workers |-> "idle"]
    /\ report = [w \in Workers |-> 0]
    /\ attempt = [w \in Workers |-> 0]
    /\ inflight = {} /\ answers = {}
    /\ cancelled = FALSE
    /\ acked = {}
    /\ times = [p \in Polls |-> 0]
    /\ stored = [r \in Ids |-> 0]
    /\ gauge = 0

-----------------------------------------------------------------------------
(* The agent around Send.                                                   *)

\* PollRuntime counts a poll.
Poll ==
    /\ polls < MaxPolls
    /\ polls' = polls + 1
    /\ pending' = pending \cup {polls + 1}
    /\ UNCHANGED <<reports, batch, senderVars, inflight, answers, fixedVars, acked, serverVars>>

\* Mutant of SwapPolls: Load instead of Swap(0).
LoadPolls == UNCHANGED pending

\* pollSinceReport.Swap(0).
SwapPolls == pending' = {}

\* A report is prepared (the accumulator is swapped with 0) and reaches a
\* worker; AgentRuntime has the queue in between.
Take(w) ==
    /\ w \in env.workers
    /\ pc[w] = "idle"
    /\ ~cancelled
    /\ pending # {}
    /\ reports < MaxReports
    /\ reports' = reports + 1
    /\ batch' = [batch EXCEPT ![reports + 1] = pending]
    /\ report' = [report EXCEPT ![w] = reports + 1]
    /\ attempt' = [attempt EXCEPT ![w] = 0]
    /\ pc' = [pc EXCEPT ![w] = "prepare"]
    /\ SwapPolls
    /\ UNCHANGED <<polls, inflight, answers, fixedVars, acked, serverVars>>

\* Mutant of Restore: the PollCount of a failed report is dropped.
ForgetReport(w) == UNCHANGED pending

\* ReportingService.Restore.
Restore(w) == pending' = pending \cup batch[report[w]]

\* Send returned an error.
SendFails(w) ==
    /\ pc' = [pc EXCEPT ![w] = "idle"]
    /\ Restore(w)
    /\ UNCHANGED <<polls, reports, batch, report, attempt, acked>>

-----------------------------------------------------------------------------
(* The sender.                                                              *)

\* Marshalling, compressing and encrypting the batch, and LocalIP, succeed.
Prepare(w) ==
    /\ pc[w] = "prepare"
    /\ pc' = [pc EXCEPT ![w] = "attempt"]
    /\ UNCHANGED <<agentVars, report, attempt, inflight, answers, fixedVars, acked, serverVars>>

\* One of them fails: no attempt is made.
PrepareFails(w) ==
    /\ pc[w] = "prepare"
    /\ SendFails(w)
    /\ UNCHANGED <<inflight, answers, fixedVars, serverVars>>

\* sendAttempt, or the UpdateMetrics call of the gRPC client.
Attempt(w) ==
    /\ pc[w] = "attempt"
    /\ ~cancelled
    /\ pc' = [pc EXCEPT ![w] = "await"]
    /\ inflight' = inflight \cup {Current(w)}
    /\ UNCHANGED <<agentVars, report, attempt, answers, fixedVars, acked, serverVars>>

\* isRetriableSendError: 429, 5xx and every net.Error, which a cancelled
\* request is too (*url.Error).  isRetriableGRPCError: Unavailable and
\* ResourceExhausted; the server reports its own failures as Internal.
Retriable(e) ==
    IF env.transport = "http" THEN e \in {"serverError", "network", "canceled"} ELSE e = "network"

\* Mutant of LastAttempt: one retry too many.
OneRetryTooMany(w) == attempt[w] > Retries

LastAttempt(w) == attempt[w] >= Retries

\* The attempt ended with an error: give up, or wait for the next one.
AttemptFails(w, e) ==
    IF LastAttempt(w) \/ ~Retriable(e)
    THEN SendFails(w)
    ELSE /\ pc' = [pc EXCEPT ![w] = "backoff"]
         /\ UNCHANGED <<agentVars, report, attempt, acked>>

\* Both clients refuse to send a request whose context is done.
AttemptRefused(w) ==
    /\ pc[w] = "attempt"
    /\ cancelled
    /\ AttemptFails(w, "canceled")
    /\ UNCHANGED <<inflight, answers, fixedVars, serverVars>>

\* An answer arrives.
Answered(w) ==
    /\ pc[w] = "await"
    /\ \E a \in answers :
         /\ a.to = Current(w)
         /\ answers' = answers \ {a}
         /\ IF a.is = "ok"
            THEN /\ pc' = [pc EXCEPT ![w] = "idle"]
                 /\ acked' = acked \cup batch[report[w]]
                 /\ UNCHANGED <<agentVars, report, attempt>>
            ELSE AttemptFails(w, a.is)
    /\ UNCHANGED <<inflight, fixedVars, serverVars>>

\* The connection breaks.  The request was lost on the way there, or it still
\* reaches a handler, or it was handled and the answer is lost.
ConnectionBreaks(w) ==
    /\ env.lossy
    /\ pc[w] = "await"
    /\ AttemptFails(w, "network")
    /\ inflight' \in {inflight, inflight \ {Current(w)}}
    /\ answers' = {a \in answers : a.to # Current(w)}
    /\ UNCHANGED <<fixedVars, serverVars>>

\* Mutant of RequestCancelled: the request is sent without the context.
ContextIgnored(w) == pc[w] = "await" /\ FALSE

\* Mutant of RequestCancelled: the client also gives up on its own.
RequestTimesOut(w) ==
    /\ pc[w] = "await"
    /\ AttemptFails(w, "canceled")
    /\ answers' = {a \in answers : a.to # Current(w)}
    /\ UNCHANGED <<inflight, fixedVars, serverVars>>

\* The request's context ends; the server may still handle the request.
RequestCancelled(w) ==
    /\ cancelled
    /\ pc[w] = "await"
    /\ AttemptFails(w, "canceled")
    /\ answers' = {a \in answers : a.to # Current(w)}
    /\ UNCHANGED <<inflight, fixedVars, serverVars>>

\* waitRetry: the timer.
RetryTimer(w) ==
    /\ pc[w] = "backoff"
    /\ attempt' = [attempt EXCEPT ![w] = attempt[w] + 1]
    /\ pc' = [pc EXCEPT ![w] = "attempt"]
    /\ UNCHANGED <<agentVars, report, inflight, answers, fixedVars, acked, serverVars>>

\* waitRetry: ctx.Done().
WaitCancelled(w) ==
    /\ pc[w] = "backoff"
    /\ cancelled
    /\ SendFails(w)
    /\ UNCHANGED <<inflight, answers, fixedVars, serverVars>>

\* The shutdown deadline of Agent.Run.
CancelSend ==
    /\ ~cancelled
    /\ cancelled' = TRUE
    /\ UNCHANGED <<env, agentVars, senderVars, inflight, answers, acked, serverVars>>

-----------------------------------------------------------------------------
(* The server.                                                              *)

\* Whose attempt m is, if its sender still waits for it.
Awaited(m) == \E w \in Workers : pc[w] = "await" /\ Current(w) = m

\* The handler returns; nobody reads the answer to an abandoned request.
Answer(m, status) ==
    /\ inflight' = inflight \ {m}
    /\ answers' = IF Awaited(m) THEN answers \cup {[to |-> m, is |-> status]} ELSE answers
    /\ UNCHANGED <<agentVars, senderVars, fixedVars, acked>>

\* Hash, encryption, gzip, subnet and validation errors, and storage errors
\* that leave the storage as it was.
Reject(m) ==
    /\ \E e \in env.rejections : Answer(m, e)
    /\ UNCHANGED serverVars

\* UpdateMetrics of the storage: counters add, gauges are overwritten.
Store(m) ==
    /\ times' = [p \in Polls |-> IF p \in batch[m.id] THEN times[p] + 1 ELSE times[p]]
    /\ stored' = [stored EXCEPT ![m.id] = @ + 1]
    /\ gauge' = m.id

Accept(m) == Store(m) /\ Answer(m, "ok")

\* saveIfSync failed after the memory was changed, or the commit's outcome
\* was unknown: 500 or Internal although the batch is stored.
AcceptThenFail(m) == env.saveMayFail /\ Store(m) /\ Answer(m, "serverError")

Handle(m) == Reject(m) \/ Accept(m) \/ AcceptThenFail(m)

\* All reports have been sent and nothing more is polled within the bounds.
Quiet ==
    /\ Sending = {} /\ inflight = {} /\ polls = MaxPolls
    /\ reports = MaxReports \/ cancelled \/ pending = {}
    /\ UNCHANGED vars

-----------------------------------------------------------------------------
Send(w) ==
    \/ Prepare(w) \/ PrepareFails(w) \/ Attempt(w) \/ AttemptRefused(w) \/ Answered(w)
    \/ ConnectionBreaks(w) \/ RequestCancelled(w) \/ RetryTimer(w) \/ WaitCancelled(w)

Next ==
    \/ Poll \/ CancelSend
    \/ \E w \in Workers : Take(w) \/ Send(w)
    \/ \E m \in inflight : Handle(m)
    \/ Quiet

Spec == Init /\ [][Next]_vars

\* Goroutines are scheduled and timers fire.  Nothing is assumed of the
\* network or the server: neither client has a timeout of its own.
SenderSpec ==
    Spec /\ \A w \in Workers :
        /\ WF_vars(Prepare(w) \/ PrepareFails(w) \/ Attempt(w) \/ AttemptRefused(w) \/ RetryTimer(w))
        /\ WF_vars(RequestCancelled(w)) /\ WF_vars(Answered(w))

-----------------------------------------------------------------------------
(* Properties.                                                              *)

\* At least once: a poll the server has not added is still in the accumulator
\* or in a report being sent, whatever the network and the server do.
Held == UNION {batch[report[w]] : w \in Sending}

NoPollLost == \A p \in 1..polls : times[p] = 0 => p \in pending \cup Held

\* How often a report can be counted: once per attempt and at most
\* 1 + len(retryDelays) times, requests that are still to be handled included;
\* and if connections hold and the server fails only before it stores, retries
\* are harmless: the server adds each poll at most once.
CountBounded ==
    /\ \A r \in Ids : stored[r] + Cardinality({m \in inflight : m.id = r}) <= Retries + 1
    /\ ~env.lossy /\ ~env.saveMayFail => \A p \in Polls : times[p] <= 1

\* With one worker and connections that hold, reports are stored in order:
\* gauges on the server never go back to an older report (RATE_LIMIT = 1).
GaugesInOrder == [][~env.lossy /\ Cardinality(env.workers) = 1 => gauge' >= gauge]_vars

\* Once the shutdown deadline has cancelled sendCtx, every Send returns, even
\* if the server never answers: Agent.Run can be left.
CancelEndsSend == \A w \in Workers : cancelled ~> (pc[w] = "idle")

\* PollCount as documented: it grows by 1 for each poll.
CountedOnce == \A p \in Polls : times[p] <= 1
=============================================================================
