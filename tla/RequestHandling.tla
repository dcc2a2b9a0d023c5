-------------------------- MODULE RequestHandling --------------------------
(***************************************************************************)
(* Requests inside the server: each on its own goroutine passes the        *)
(* pipeline, calls the metrics service, notifies the audit observers (the  *)
(* file behind its mutex, then the remote receiver with its timeout) and   *)
(* is answered, while clients may leave and the server may be stopped,     *)
(* gracefully or by force, closes the audit file and exits.                *)
(***************************************************************************)
EXTENDS RequestPipeline

CONSTANTS
    Requests,   \* ids of requests
    Scenarios   \* settings of the server, and the requests it is sent

\* A client that is not the agent.
OtherClient == [grpc |-> FALSE, hashKey |-> "", publicKey |-> "", ip |-> "unknown"]

ASSUME RequestsAssumption  == IsFiniteSet(Requests) /\ Requests \subseteq Nat \ {0}
ASSUME NamesAssumption     ==
    "" \notin HashKeys \cup KeyPairs \cup Names /\ {"none", "gzip"} \cap KeyPairs = {}
ASSUME ScenariosAssumption ==
    \A sc \in Scenarios :
        /\ sc.server \in Server
        /\ sc.sent \in [Requests -> Request] /\ \A r \in Requests : Passed(sc.sent[r])
        /\ sc.from \in [Requests -> Agent \cup {OtherClient}]
        /\ \A r \in Requests : sc.from[r] # OtherClient =>
             LET ms == sc.sent[r].body.metrics
             IN  /\ sc.sent[r] = AgentRequest(sc.from[r], ms)
                 /\ \A i \in 1..Len(ms) : ValidateMetric(ms[i]) = "ok"

VARIABLES
    server,     \* settings
    sent,       \* the requests
    from,       \* history: who sent them
    pc,         \* where each request is
    request,    \* the request as the layers have left it
    status,     \* the status chosen for it
    response,   \* history: what went out on the wire
    stored,     \* history: requests whose metrics are in the storage, with them
    storeErr,   \* history: requests for which the storage or a save failed
    gone,       \* requests whose context is done
    writer,     \* holder of FileObserver.mu, or Nobody
    fileOpen,   \* FileObserver.file # nil
    audited,    \* history: events written or received: <<observer, request>>
    sinkErr,    \* history: observers that failed by themselves
    phase,      \* of the server process, from "running" to "exited"
    broken,     \* transports whose Serve failed
    abandoned   \* history: requests that the server does not wait for

vars == <<server, sent, from, pc, request, status, response, stored, storeErr, gone, writer, fileOpen,
          audited, sinkErr, phase, broken, abandoned>>

Nobody == 0

NoResponse == [status |-> "none", type |-> "", encoding |-> "", hash |-> NoHash, body |-> EmptyBody]

Observers == {"file", "remote"}

TypeOK ==
    /\ pc \in [Requests -> {"absent", "sent", "service", "file", "fileLock", "fileWrite",
                         "remote", "remoteWait", "respond", "done"}]
    /\ status \in [Requests -> Statuses]
    /\ DOMAIN stored \subseteq Requests
    /\ storeErr \subseteq Requests
    /\ gone \subseteq Requests
    /\ writer \in {Nobody} \cup {r \in Requests : pc[r] = "fileWrite"}
    /\ fileOpen \in BOOLEAN
    /\ audited \subseteq Observers \X Requests
    /\ sinkErr \subseteq Observers \X Requests
    /\ phase \in {"running", "draining", "forced", "stopped", "closing", "closed", "exited"}
    /\ broken \subseteq {"http", "grpc"}
    /\ abandoned \subseteq Requests

Init ==
    /\ \E sc \in Scenarios :
         /\ server = sc.server
         /\ sent = sc.sent
         /\ from = sc.from
         /\ pc = [r \in Requests |-> IF r \in sc.present THEN "sent" ELSE "absent"]
    /\ request = sent
    /\ status = [r \in Requests |-> "none"]
    /\ response = [r \in Requests |-> NoResponse]
    /\ stored = <<>> /\ storeErr = {} /\ gone = {}
    /\ writer = Nobody /\ fileOpen = server.auditFile
    /\ audited = {} /\ sinkErr = {}
    /\ phase = "running" /\ broken = {} /\ abandoned = {}

Goto(r, label) == pc' = [pc EXCEPT ![r] = label]

Running(r) == pc[r] \notin {"absent", "sent", "done"}

Transport(r) == IF sent[r].route = "grpc" THEN "grpc" ELSE "http"

-----------------------------------------------------------------------------
(* The pipeline and the service.                                            *)

\* Until the stop begins; after a failure of Serve, on the connections that are
\* open, until Close.
Served(r) ==
    \/ phase = "running"
    \/ Transport(r) \in broken /\ phase \in {"draining", "forced", "stopped"}

\* The request arrives and passes the layers, or is refused by one of them.
Admit(r) ==
    LET q == Admitted(server, sent[r])
    IN  /\ pc[r] = "sent"
        /\ Served(r)
        /\ request' = [request EXCEPT ![r] = q]
        /\ status' = [status EXCEPT ![r] = q.status]
        /\ Goto(r, IF Passed(q) THEN "service" ELSE "respond")
        /\ abandoned' = IF Transport(r) \in broken THEN abandoned \cup {r} ELSE abandoned
        /\ UNCHANGED <<server, sent, from, response, stored, storeErr, gone, writer, fileOpen, audited,
                       sinkErr, phase, broken>>

IsWrite(r) == request[r].route \in WriteRoutes
Metrics(r) == request[r].body.metrics

\* The metrics are in the storage.
Store(r) == stored' = [x \in DOMAIN stored \cup {r} |-> IF x = r THEN Metrics(r) ELSE stored[x]]

\* The service returned an error: 500, Internal or Canceled, and no event.
ServiceError(r) ==
    /\ storeErr' = storeErr \cup {r}
    /\ status' = [status EXCEPT ![r] = "serverError"]
    /\ Goto(r, "respond")

\* notifyAudit: only with an auditor and at least one metric.
AuditNext(r) ==
    IF (server.auditFile \/ server.auditURL) /\ Metrics(r) # <<>> THEN "file" ELSE "respond"

\* UpdateGauge, UpdateCounter or UpdateMetrics of the service: done; or the
\* storage failed; or saveIfSync failed after the storage was changed.
Updated(r) ==
    \/ /\ Store(r)
       /\ status' = [status EXCEPT ![r] = "ok"]
       /\ Goto(r, AuditNext(r))
       /\ UNCHANGED storeErr
    \/ ServiceError(r) /\ (Store(r) \/ UNCHANGED stored)

Update(r) ==
    /\ pc[r] = "service"
    /\ IsWrite(r)
    /\ Updated(r)
    /\ UNCHANGED <<server, sent, from, request, response, gone, writer, fileOpen, audited, sinkErr, phase, broken, abandoned>>

\* The storage has the metric that a Value request names.
Found(r) ==
    \E x \in DOMAIN stored : \E i \in 1..Len(stored[x]) :
        stored[x][i].id = Metrics(r)[1].id /\ stored[x][i].type = Metrics(r)[1].type

\* Value, ValueJSON, Index, Ping.  Any error of Get is a 404.
ReadStatus(r) ==
    IF request[r].route \in {"value", "valueJSON"}
    THEN IF Found(r) THEN {"ok", "notFound"} ELSE {"notFound"}
    ELSE {"ok", "serverError"}

Read(r) ==
    /\ pc[r] = "service"
    /\ ~IsWrite(r)
    /\ \E st \in ReadStatus(r) : status' = [status EXCEPT ![r] = st]
    /\ Goto(r, "respond")
    /\ UNCHANGED <<server, sent, from, request, response, stored, storeErr, gone, writer, fileOpen, audited,
                   sinkErr, phase, broken, abandoned>>

-----------------------------------------------------------------------------
(* Auditor.Notify: the observers in order, whatever the earlier ones return. *)

\* Mutant of AfterFile: Notify returns at the first error.
AfterFileOnlyIfOk(r, ok) == IF ok /\ server.auditURL THEN "remote" ELSE "respond"

AfterFile(r, ok) == IF server.auditURL THEN "remote" ELSE "respond"

\* FileObserver.Notify, if there is one: ctx.Done() is looked at once, before
\* the mutex.
FileCheck(r) ==
    /\ pc[r] = "file"
    /\ Goto(r, IF server.auditFile /\ r \notin gone THEN "fileLock" ELSE AfterFile(r, ~server.auditFile))
    /\ UNCHANGED <<server, sent, from, request, status, response, stored, storeErr, gone, writer, fileOpen,
                   audited, sinkErr, phase, broken, abandoned>>

FileLock(r) ==
    /\ pc[r] = "fileLock"
    /\ writer = Nobody
    /\ \/ fileOpen /\ writer' = r /\ Goto(r, "fileWrite")
       \/ ~fileOpen /\ UNCHANGED writer /\ Goto(r, AfterFile(r, FALSE))
    /\ UNCHANGED <<server, sent, from, request, status, response, stored, storeErr, gone, fileOpen, audited,
                   sinkErr, phase, broken, abandoned>>

\* Mutant of FileUnlock: the deferred Unlock is missing.
FileUnlockForgotten == UNCHANGED writer

FileUnlock == writer' = Nobody

\* encoder.Encode appends one line, or fails.
FileWrite(r) ==
    /\ pc[r] = "fileWrite"
    /\ \/ audited' = audited \cup {<<"file", r>>} /\ Goto(r, AfterFile(r, TRUE)) /\ UNCHANGED sinkErr
       \/ sinkErr' = sinkErr \cup {<<"file", r>>} /\ Goto(r, AfterFile(r, FALSE)) /\ UNCHANGED audited
    /\ FileUnlock
    /\ UNCHANGED <<server, sent, from, request, status, response, stored, storeErr, gone, fileOpen, phase, broken, abandoned>>

\* RemoteObserver.Notify: ctx.Done(), or the POST is sent.
RemoteStart(r) ==
    /\ pc[r] = "remote"
    /\ Goto(r, IF r \in gone THEN "respond" ELSE "remoteWait")
    /\ UNCHANGED <<server, sent, from, request, status, response, stored, storeErr, gone, writer, fileOpen,
                   audited, sinkErr, phase, broken, abandoned>>

\* The receiver answers 2xx.
RemoteAccepts(r) ==
    /\ pc[r] = "remoteWait"
    /\ audited' = audited \cup {<<"remote", r>>}
    /\ Goto(r, "respond")
    /\ UNCHANGED <<server, sent, from, request, status, response, stored, storeErr, gone, writer, fileOpen,
                   sinkErr, phase, broken, abandoned>>

\* Mutant of RemoteFails: a client without a timeout.
RemoteNeverTimesOut(r) == pc[r] = "remoteWait" /\ FALSE

\* Another status, a broken connection, or the client's timeout of 5 s; the
\* receiver may have got the event all the same.
RemoteFails(r) ==
    /\ pc[r] = "remoteWait"
    /\ sinkErr' = sinkErr \cup {<<"remote", r>>}
    /\ audited' \in {audited, audited \cup {<<"remote", r>>}}
    /\ Goto(r, "respond")
    /\ UNCHANGED <<server, sent, from, request, status, response, stored, storeErr, gone, writer, fileOpen,
                   phase, broken, abandoned>>

\* The request's context ends during the POST.
RemoteCancelled(r) ==
    /\ pc[r] = "remoteWait"
    /\ r \in gone
    /\ Goto(r, "respond")
    /\ UNCHANGED <<server, sent, from, request, status, response, stored, storeErr, gone, writer, fileOpen,
                   audited, sinkErr, phase, broken, abandoned>>

\* The answer leaves through gzip and hash; an audit error does not change it.
Respond(r) ==
    /\ pc[r] = "respond"
    /\ response' = [response EXCEPT ![r] = Wire(server, sent[r], request[r], status[r])]
    /\ Goto(r, "done")
    /\ UNCHANGED <<server, sent, from, request, status, stored, storeErr, gone, writer, fileOpen, audited,
                   sinkErr, phase, broken, abandoned>>

-----------------------------------------------------------------------------
(* Clients and the server's stop.                                           *)

\* The client disconnects: the request's context is cancelled.
Disconnect(r) ==
    /\ Running(r)
    /\ r \notin gone
    /\ gone' = gone \cup {r}
    /\ UNCHANGED <<server, sent, from, pc, request, status, response, stored, storeErr, writer, fileOpen,
                   audited, sinkErr, phase, broken, abandoned>>

\* Run's context ends.
Shutdown ==
    /\ phase = "running"
    /\ phase' = "draining"
    /\ UNCHANGED <<server, sent, from, pc, request, status, response, stored, storeErr, gone, writer,
                   fileOpen, audited, sinkErr, broken, abandoned>>

\* Serve of some transports fails: the others are shut down, and nobody waits
\* for the requests of these.
ServeFails(ts) ==
    /\ phase = "running"
    /\ phase' = "draining"
    /\ broken' = ts
    /\ abandoned' = {r \in Requests : Running(r) /\ Transport(r) \in ts}
    /\ UNCHANGED <<server, sent, from, pc, request, status, response, stored, storeErr, gone, writer,
                   fileOpen, audited, sinkErr>>

\* The deadline: Close and Stop cancel what still runs.  HTTP requests are left
\* to themselves, but stopGRPC goes on waiting for GracefulStop.
ForcedStop ==
    /\ phase = "draining"
    /\ phase' = "forced"
    /\ gone' = gone \cup {r \in Requests : Running(r) /\ Transport(r) \notin broken}
    /\ abandoned' = abandoned \cup {r \in Requests : Running(r) /\ Transport(r) = "http"}
    /\ UNCHANGED <<server, sent, from, pc, request, status, response, stored, storeErr, writer, fileOpen,
                   audited, sinkErr, broken>>

Drained == \A r \in Requests : Running(r) => r \in abandoned

\* Both transports have returned.
TransportsReturn ==
    /\ phase \in {"draining", "forced"}
    /\ Drained
    /\ phase' = "stopped"
    /\ UNCHANGED <<server, sent, from, pc, request, status, response, stored, storeErr, gone, writer,
                   fileOpen, audited, sinkErr, broken, abandoned>>

\* Server.Close breaks the connections that are left.
CloseServers ==
    /\ phase = "stopped"
    /\ phase' = "closing"
    /\ gone' = gone \cup {r \in Requests : Running(r)}
    /\ UNCHANGED <<server, sent, from, pc, request, status, response, stored, storeErr, writer, fileOpen,
                   audited, sinkErr, broken, abandoned>>

CloseAllowed == writer = Nobody

\* cleanupAudit: FileObserver.Close.
CloseFile ==
    /\ phase = "closing"
    /\ CloseAllowed
    /\ fileOpen' = FALSE
    /\ phase' = "closed"
    /\ UNCHANGED <<server, sent, from, pc, request, status, response, stored, storeErr, gone, writer,
                   audited, sinkErr, broken, abandoned>>

\* Close returns and main ends, with whatever still runs.
Exit ==
    /\ phase = "closed"
    /\ phase' = "exited"
    /\ UNCHANGED <<server, sent, from, pc, request, status, response, stored, storeErr, gone, writer,
                   fileOpen, audited, sinkErr, broken, abandoned>>

Alive == phase # "exited"

\* The process is gone.
Gone == ~Alive /\ UNCHANGED vars

-----------------------------------------------------------------------------
Handler(r) ==
    \/ Update(r) \/ Read(r) \/ FileCheck(r) \/ FileLock(r) \/ FileWrite(r)
    \/ RemoteStart(r) \/ RemoteFails(r) \/ RemoteCancelled(r) \/ Respond(r)

Stop ==
    \/ Shutdown \/ (\E ts \in SUBSET {"http", "grpc"} \ {{}} : ServeFails(ts))
    \/ ForcedStop \/ TransportsReturn \/ CloseServers \/ CloseFile \/ Exit

\* Handlers run until the process is gone.
Next ==
    \/ Alive /\ \E r \in Requests : Admit(r) \/ Handler(r) \/ RemoteAccepts(r) \/ Disconnect(r)
    \/ Stop \/ Gone

\* As long as the process lives: handlers run, storage and disk calls return,
\* the client of RemoteObserver gives up after its timeout; the receiver owes
\* nothing.  A request takes the mutex of the file once, so that weak fairness
\* hands it on to all that wait.
Spec ==
    /\ Init /\ [][Next]_vars
    /\ \A r \in Requests : WF_vars(Alive /\ Handler(r))

-----------------------------------------------------------------------------
(* Properties.                                                              *)

Finished(r) == pc[r] = "done"

\* What the agent sends, the server understands: with keys that belong
\* together and an address in the subnet, a report is stored as it was sent
\* and answered 200, unless the storage fails (http_sender.go against the
\* order of the router's middleware).
KeysBelong(a) ==
    a.grpc \/ /\ server.hashKey = "" \/ a.hashKey \in {"", server.hashKey}
              /\ a.publicKey \in {"", server.privateKey}

AgentUnderstood ==
    \A r \in Requests \ storeErr :
        /\ Finished(r) /\ from[r] # OtherClient
        /\ KeysBelong(from[r]) /\ (server.subnet => from[r].ip = "inside")
        => status[r] = "ok" /\ r \in DOMAIN stored /\ stored[r] = sent[r].body.metrics

\* What reaches the storage came from inside the trusted subnet, on any write
\* route of either transport, and consists of metrics with a name, a known type
\* and a value: UpdateMetrics dereferences Value and Delta without a check.
OnlyAdmissible ==
    \A r \in DOMAIN stored :
        /\ server.subnet => sent[r].realIP = "inside"
        /\ \A i \in 1..Len(stored[r]) : ValidateMetric(stored[r][i]) = "ok"

\* A client that knows the key can verify an answer by the bytes it receives,
\* and can decompress them if and only if the header says so.
AnswersVerifiable ==
    \A r \in Requests : Finished(r) /\ sent[r].route # "grpc" =>
        /\ ~HashMismatch(server, sent[r]) => response[r].hash = CalcHash(response[r].body, server.hashKey)
        /\ (response[r].encoding = "gzip") = (Outer(response[r].body) = "gzip")
        /\ response[r].encoding = "gzip" => sent[r].acceptGzip

\* An event is only recorded for an update that was stored and is reported as
\* a success.  As long as its client stays, such an update reaches every observer
\* that does not fail itself: not stopped by the failure of another one, nor by
\* a graceful stop of the server, which closes the file after the handlers.
Configured == {o \in Observers : IF o = "file" THEN server.auditFile ELSE server.auditURL}

Audited ==
    /\ \A e \in audited : e[2] \in DOMAIN stored \ storeErr /\ status[e[2]] = "ok"
    /\ \A r \in DOMAIN stored \ (storeErr \cup gone) : Finished(r) /\ stored[r] # <<>> =>
           \A o \in Configured : <<o, r>> \in audited \cup sinkErr

\* Every request that was admitted is handled to its end, also when the remote
\* receiver hangs, the file is contended, the client leaves or the server is
\* being stopped: a graceful stop waits for it, and a forced one for gRPC.
\* Excepted are requests that the stop gives up and that may die with the
\* process: HTTP at the deadline, and those of a transport whose Serve failed.
EveryRequestAnswered == \A r \in Requests : Running(r) ~> Finished(r) \/ r \in abandoned

\* Audit as documented: an event for every successful update, to every
\* observer that works.
AllSinksNotified ==
    \A r \in DOMAIN stored \ (storeErr \cup abandoned) : Finished(r) /\ stored[r] # <<>> =>
        \A o \in Configured : <<o, r>> \in audited \cup sinkErr
=============================================================================
