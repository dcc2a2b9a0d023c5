------------------------- MODULE MetricsPersistence -------------------------
(***************************************************************************)
(* In-memory metrics and their file: MemStorage, FileStore, the update     *)
(* path of MetricsService and the persistence half of the server's         *)
(* lifecycle (persistence.go, Server.Run, stopPersistence).                *)
(*                                                                         *)
(* Each update request has an id.  A counter is abstracted to the set of   *)
(* requests whose delta it contains, a gauge to whether its value can be   *)
(* written as JSON (encoding/json refuses NaN and infinities).  One gauge  *)
(* is enough: any one of them makes the whole snapshot unmarshalable.      *)
(***************************************************************************)
EXTENDS Integers, Sequences, FiniteSets

CONSTANTS
    Handlers,     \* goroutines serving HTTP and gRPC update requests
    GRPCHandlers, \* those of the gRPC server
    Counters,     \* names of counter metrics
    Batches,      \* request bodies: sequences of metrics, single updates of length 1
    Modes,        \* modes explored: "sync" (StoreIntervalInSec = 0), "periodic" (> 0)
    Restore,      \* ServerConfig.Restore
    MaxRequests,  \* bound: update requests that are explored
    MaxDiskErrors,\* bound: calls of os.WriteFile that return an error
    MaxCrashes,   \* bound: crashes of the process
    MaxBoots      \* bound: starts of the process

Metric == [type : {"counter"}, id : Counters] \cup [type : {"gauge"}, finite : BOOLEAN]

ASSUME HandlersAssumption == IsFiniteSet(Handlers) /\ Handlers # {} /\ GRPCHandlers \subseteq Handlers
ASSUME BatchesAssumption  == Batches \subseteq Seq(Metric) \ {<<>>}
ASSUME ConfigAssumption   == Modes \subseteq {"sync", "periodic"} /\ Restore \in BOOLEAN
ASSUME BoundsAssumption   == {MaxRequests, MaxDiskErrors, MaxCrashes, MaxBoots} \subseteq Nat
ASSUME SaversAssumption   == {"free", "ticker", "final"} \cap Handlers = {}

VARIABLES
    mode,      \* the configured mode, the same at every start
    mem,       \* MemStorage: counters, and whether all gauges are finite
    lock,      \* holder of MemStorage.mu for writing, or "free"
    file,      \* the file at FileStoragePath
    pc,        \* control point of every actor
    snap,      \* the snapshot an actor is saving
    request,   \* the request a handler serves
    position,  \* how far UpdateMetrics is in its batch
    phase,     \* lifecycle of the server process
    saver,     \* the goroutine of startPeriodicSave: "on", "stopping", "off"
    broken,    \* transports whose Serve failed
    serveErr,  \* why serveTransports returned an error: "serve", "deadline" or "none"
    result,    \* what Server.Run returned
    requests,  \* history: number of requests so far
    batchOf,   \* history: the batch of each request
    acked,     \* history: requests answered with success and not lost in a crash
    saved,     \* history: the file as the last Save that succeeded meant to leave it
    cut,       \* history: since then a write was cut short, by the disk or the process's end
    diskErrors,\* history: failed writes so far
    crashes,   \* history: crashes so far
    boots      \* history: starts so far

vars == <<mode, mem, lock, file, pc, snap, request, position, phase, saver, broken, serveErr,
          result, requests, batchOf, acked, saved, cut, diskErrors, crashes, boots>>

\* What is remembered of Saves.
saves == <<saved, cut>>

\* Faults and starts so far.
faults == <<diskErrors, crashes, boots>>

Ids == 1..MaxRequests

\* Everything that calls FileStore.Save: handlers in sync mode, the periodic
\* goroutine, and the shutdown function.
Actors == Handlers \cup {"ticker", "final"}

Transports == {"http", "grpc"}

TransportOf(h) == IF h \in GRPCHandlers THEN "grpc" ELSE "http"

Memory == [counters : [Counters -> SUBSET Ids], finite : BOOLEAN]

EmptyMemory == [counters |-> [c \in Counters |-> {}], finite |-> TRUE]

\* "absent", "empty" (truncated), "torn" (not JSON) or "content".
File == [kind : {"absent", "empty", "torn", "content"}, data : Memory]

NoData(kind) == [kind |-> kind, data |-> EmptyMemory]
Content(m)   == [kind |-> "content", data |-> m]

TypeOK ==
    /\ mode \in Modes
    /\ mem \in Memory
    /\ lock \in {"free"} \cup {h \in Handlers : pc[h] = "update"}
    /\ file \in File
    /\ pc \in [Actors -> {"idle", "update", "snapshot", "truncate", "write"}]
    /\ snap \in [Actors -> Memory]
    /\ request \in [Handlers -> 0..MaxRequests]
    /\ position \in [Handlers -> Nat]
    /\ phase \in {"off", "running", "draining", "stopSaver", "final", "stopped", "failed"}
    /\ saver \in {"on", "stopping", "off"}
    /\ broken \subseteq Transports
    /\ serveErr \in {"none", "serve", "deadline"}
    /\ result \in {"none", "ok", "error"}
    /\ requests \in 0..MaxRequests
    /\ batchOf \in [1..requests -> Batches]
    /\ acked \in SUBSET (1..requests)
    /\ saved \in File /\ cut \in BOOLEAN
    /\ diskErrors \in 0..MaxDiskErrors
    /\ crashes \in 0..MaxCrashes
    /\ boots \in 0..MaxBoots

Idle == [a \in Actors |-> "idle"]

\* The end of the process: no goroutines, no memory.  A write in progress, of an
\* abandoned handler or of anyone in a crash, may be cut short.
ProcessEnds ==
    /\ IF \E a \in Actors : pc[a] = "write"
       THEN file' \in {file, NoData("torn")} /\ cut' = TRUE
       ELSE UNCHANGED <<file, cut>>
    /\ mem' = EmptyMemory /\ lock' = "free"
    /\ pc' = Idle /\ snap' = [a \in Actors |-> EmptyMemory]
    /\ request' = [h \in Handlers |-> 0] /\ position' = [h \in Handlers |-> 0]
    /\ saver' = "off" /\ broken' = {} /\ serveErr' = "none"

Init ==
    /\ mode \in Modes
    /\ mem = EmptyMemory /\ lock = "free"
    /\ pc = Idle /\ snap = [a \in Actors |-> EmptyMemory]
    /\ request = [h \in Handlers |-> 0] /\ position = [h \in Handlers |-> 0]
    /\ saver = "off" /\ broken = {} /\ serveErr = "none"
    /\ file = NoData("absent") /\ saved = file /\ cut = FALSE
    /\ phase = "off" /\ result = "none"
    /\ requests = 0 /\ batchOf = <<>> /\ acked = {}
    /\ diskErrors = 0 /\ crashes = 0 /\ boots = 0

Up == phase \notin {"off", "failed"}

-----------------------------------------------------------------------------
(* MemStorage and the handlers.                                             *)

\* Connections are served until Shutdown or GracefulStop; after a failure of
\* Serve itself, those that are open are served until the process ends.
Serving(h) == phase = "running" \/ TransportOf(h) \in broken

\* A request body passed validation; repo.UpdateMetrics is about to lock.
Receive(h, b) ==
    /\ Serving(h)
    /\ pc[h] = "idle"
    /\ requests < MaxRequests
    /\ requests' = requests + 1
    /\ batchOf' = Append(batchOf, b)
    /\ request' = [request EXCEPT ![h] = requests + 1]
    /\ position' = [position EXCEPT ![h] = 0]
    /\ pc' = [pc EXCEPT ![h] = "update"]
    /\ UNCHANGED <<mode, mem, lock, file, snap, phase, saver, broken, serveErr, result, acked, saves, faults>>

\* m.mu.Lock() at the start of an update.
Lock(h) ==
    /\ pc[h] = "update"
    /\ lock = "free"
    /\ lock' = h
    /\ UNCHANGED <<mode, mem, file, pc, snap, request, position, phase, saver, broken, serveErr, result,
                   requests, batchOf, acked, saves, faults>>

\* Mutant of Apply: a counter is set to its delta instead of adding it.
ApplyOverwrites(m, metric, r) ==
    IF metric.type = "counter"
    THEN [m EXCEPT !.counters[metric.id] = {r}]
    ELSE [m EXCEPT !.finite = metric.finite]

\* One assignment to the maps: a counter adds its delta, a gauge overwrites.
Apply(m, metric, r) ==
    IF metric.type = "counter"
    THEN [m EXCEPT !.counters[metric.id] = @ \cup {r}]
    ELSE [m EXCEPT !.finite = metric.finite]

\* Mutant of Unlock: the deferred Unlock is missing.
UnlockForgotten == UNCHANGED lock

Unlock == lock' = "free"

\* The loop of UpdateMetrics; after the last metric the deferred Unlock runs,
\* and saveIfSync either saves or lets the handler answer.
ApplyMetric(h) ==
    LET b    == batchOf[request[h]]
        next == position[h] + 1
    IN  /\ pc[h] = "update"
        /\ lock = h
        /\ mem' = Apply(mem, b[next], request[h])
        /\ position' = [position EXCEPT ![h] = next]
        /\ IF next < Len(b)
           THEN UNCHANGED <<lock, pc, acked>>
           ELSE /\ Unlock
                /\ IF mode = "sync"
                   THEN pc' = [pc EXCEPT ![h] = "snapshot"] /\ UNCHANGED acked
                   ELSE pc' = [pc EXCEPT ![h] = "idle"] /\ acked' = acked \cup {request[h]}
        /\ UNCHANGED <<mode, file, snap, request, phase, saver, broken, serveErr, result, requests, batchOf,
                       saves, faults>>

-----------------------------------------------------------------------------
(* FileStore.Save, run by any actor.                                        *)

\* Save returned: a handler answers 200 or 500, the ticker loops (an error is
\* only logged), the shutdown function returns to Server.Run.
SaveReturns(a, ok) ==
    /\ pc' = [pc EXCEPT ![a] = "idle"]
    /\ acked' = IF a \in Handlers /\ ok THEN acked \cup {request[a]} ELSE acked
    /\ IF a = "final"
       THEN phase' = "stopped" /\ result' = (IF ok /\ serveErr = "none" THEN "ok" ELSE "error")
       ELSE UNCHANGED <<phase, result>>

\* Mutant of SnapshotAllowed: Snapshot copies the maps without RLock.
SnapshotUnlocked == TRUE

\* RLock: no writer holds the mutex.
SnapshotAllowed == lock = "free"

\* repo.Snapshot and json.Marshal of the copy.
SaveSnapshot(a) ==
    /\ pc[a] = "snapshot"
    /\ SnapshotAllowed
    /\ mem.finite
    /\ snap' = [snap EXCEPT ![a] = mem]
    /\ pc' = [pc EXCEPT ![a] = "truncate"]
    /\ UNCHANGED <<mode, mem, lock, file, request, position, phase, saver, broken, serveErr, result,
                   requests, batchOf, acked, saves, faults>>

\* Mutant of MarshalFailed: the file is opened before the metrics are encoded.
TruncatedFirst == file' = NoData("empty")

\* Save returns before it touches the file.
MarshalFailed == UNCHANGED file

\* json.Marshal failed on a non-finite gauge.
SaveMarshalFails(a) ==
    /\ pc[a] = "snapshot"
    /\ SnapshotAllowed
    /\ ~mem.finite
    /\ MarshalFailed
    /\ SaveReturns(a, FALSE)
    /\ UNCHANGED <<mode, mem, lock, snap, request, position, saver, broken, serveErr, requests, batchOf,
                   saves, faults>>

\* os.WriteFile opens the file with O_TRUNC.
SaveTruncate(a) ==
    /\ pc[a] = "truncate"
    /\ file' = NoData("empty")
    /\ pc' = [pc EXCEPT ![a] = "write"]
    /\ UNCHANGED <<mode, mem, lock, snap, request, position, phase, saver, broken, serveErr, result,
                   requests, batchOf, acked, saves, faults>>

\* Writing c from offset 0 over what another writer has put there since the
\* truncation: if that was longer, its tail stays and the file is not JSON.
Overwrite(f, c) ==
    IF f.kind = "empty" \/ f = c THEN {c} ELSE {c, NoData("torn")}

\* os.WriteFile writes the data and returns nil.
SaveWrite(a) ==
    /\ pc[a] = "write"
    /\ file' \in Overwrite(file, Content(snap[a]))
    /\ saved' = Content(snap[a]) /\ cut' = FALSE
    /\ SaveReturns(a, TRUE)
    /\ UNCHANGED <<mode, mem, lock, snap, request, position, saver, broken, serveErr, requests, batchOf,
                   faults>>

\* Opening failed (nothing changed), or writing failed part of the way.
SaveDiskFails(a) ==
    /\ diskErrors < MaxDiskErrors
    /\ diskErrors' = diskErrors + 1
    /\ \/ pc[a] = "truncate" /\ UNCHANGED <<file, cut>>
       \/ pc[a] = "write" /\ file' \in {file, NoData("torn")} /\ cut' = TRUE
    /\ SaveReturns(a, FALSE)
    /\ UNCHANGED <<mode, mem, lock, snap, request, position, saver, broken, serveErr, requests, batchOf,
                   saved, crashes, boots>>

Save(a) == SaveSnapshot(a) \/ SaveMarshalFails(a) \/ SaveTruncate(a) \/ SaveWrite(a) \/ SaveDiskFails(a)

-----------------------------------------------------------------------------
(* The periodic goroutine and the server's lifecycle.                       *)

\* A tick; with stopCh closed too the select may still choose the tick.
Tick ==
    /\ saver # "off"
    /\ pc["ticker"] = "idle"
    /\ pc' = [pc EXCEPT !["ticker"] = "snapshot"]
    /\ UNCHANGED <<mode, mem, lock, file, snap, request, position, phase, saver, broken, serveErr, result,
                   requests, batchOf, acked, saves, faults>>

\* Mutant of SaverDone: stopPeriodicSave does not wait for doneCh.
SaverNotAwaited == saver # "on"

\* doneCh is closed (in sync mode there is no goroutine to wait for).
SaverDone == saver = "off"

\* The goroutine receives from stopCh and returns; it is not in Save.
SaverExits ==
    /\ saver = "stopping"
    /\ pc["ticker"] = "idle"
    /\ saver' = "off"
    /\ UNCHANGED <<mode, mem, lock, file, pc, snap, request, position, phase, broken, serveErr, result,
                   requests, batchOf, acked, saves, faults>>

\* What Load puts into a new MemStorage.
Loaded(f) == IF f.kind = "content" THEN f.data ELSE EmptyMemory

\* After a stop with an error, or a crash, acknowledged requests may be gone.
Start ==
    /\ phase' = "running"
    /\ result' = "none"
    /\ saver' = IF mode = "periodic" THEN "on" ELSE "off"
    /\ mem' = IF Restore THEN Loaded(file) ELSE EmptyMemory
    /\ acked' = IF Restore /\ result = "ok" THEN acked ELSE {}

\* server.New: setupFilePersistence loads the file; Load fails on a torn one.
Boot ==
    /\ phase = "off"
    /\ boots < MaxBoots
    /\ boots' = boots + 1
    /\ IF Restore /\ file.kind = "torn"
       THEN phase' = "failed" /\ UNCHANGED <<mem, saver, result, acked>>
       ELSE Start
    /\ UNCHANGED <<mode, lock, file, pc, snap, request, position, broken, serveErr, requests, batchOf,
                   saves, diskErrors, crashes>>

\* The context is cancelled: listeners close, no new requests.
Cancel ==
    /\ phase = "running"
    /\ phase' = "draining"
    /\ UNCHANGED <<mode, mem, lock, file, pc, snap, request, position, saver, broken, serveErr, result,
                   requests, batchOf, acked, saves, faults>>

\* Serve of one transport or of both fails: the cancel of serveTransports ends
\* the other one, and nobody waits for the handlers of a broken one.
ServeFails(ts) ==
    /\ phase = "running"
    /\ phase' = "draining"
    /\ broken' = ts
    /\ UNCHANGED <<mode, mem, lock, file, pc, snap, request, position, saver, serveErr, result,
                   requests, batchOf, acked, saves, faults>>

\* Mutant of Returned: the transports are not awaited.
NotAwaited(hs) == TRUE

\* Shutdown or GracefulStop has seen these handlers return.
Returned(hs) == \A h \in hs : TransportOf(h) \in broken \/ pc[h] = "idle"

\* serveTransports returned; stopPersistence closes stopCh.
TransportsStopped(err) ==
    /\ serveErr' = err
    /\ phase' = "stopSaver"
    /\ saver' = IF saver = "on" THEN "stopping" ELSE saver
    /\ UNCHANGED <<mode, mem, lock, file, pc, snap, request, position, broken, result, requests,
                   batchOf, acked, saves, faults>>

DrainCompletes ==
    /\ phase = "draining"
    /\ Returned(Handlers)
    /\ TransportsStopped(IF broken = {} THEN "none" ELSE "serve")

\* Mutant of DrainDeadline: Shutdown of the HTTP server has no deadline.
NoDeadline == phase = "draining" /\ Returned(Handlers) /\ TransportsStopped("deadline")

\* The 30 s deadline: Close leaves the handlers of the HTTP server to
\* themselves, but after Stop stopGRPC waits for doneCh, that is for
\* GracefulStop and so for the handlers of the gRPC server.
DrainDeadline == phase = "draining" /\ Returned(GRPCHandlers) /\ TransportsStopped("deadline")

\* stopPeriodicSave returned; the final Save starts.
FinalSave ==
    /\ phase = "stopSaver"
    /\ SaverDone
    /\ phase' = "final"
    /\ pc' = [pc EXCEPT !["final"] = "snapshot"]
    /\ UNCHANGED <<mode, mem, lock, file, snap, request, position, saver, broken, serveErr, result,
                   requests, batchOf, acked, saves, faults>>

\* Run returned, Close finds persistence stopped already, main exits.
Exit ==
    /\ phase = "stopped"
    /\ phase' = "off"
    /\ ProcessEnds
    /\ UNCHANGED <<mode, result, requests, batchOf, acked, saved, faults>>

\* The process is killed.
Crash ==
    /\ Up
    /\ crashes < MaxCrashes
    /\ crashes' = crashes + 1
    /\ phase' = "off"
    /\ result' = "none"
    /\ ProcessEnds
    /\ UNCHANGED <<mode, requests, batchOf, acked, saved, diskErrors, boots>>

\* Nothing more happens within the bounds.
Ended == ~Up /\ (phase = "failed" \/ boots = MaxBoots) /\ UNCHANGED vars

-----------------------------------------------------------------------------
Handler(h) == (\E b \in Batches : Receive(h, b)) \/ Lock(h) \/ ApplyMetric(h)

Lifecycle ==
    \/ Boot \/ Cancel \/ (\E ts \in SUBSET Transports \ {{}} : ServeFails(ts))
    \/ DrainCompletes \/ DrainDeadline \/ FinalSave \/ Exit

Next ==
    \/ \E h \in Handlers : Handler(h)
    \/ \E a \in Actors : Save(a)
    \/ Tick \/ SaverExits \/ Lifecycle \/ Crash \/ Ended

Spec == Init /\ [][Next]_vars

\* Server.Run is scheduled and its deadline fires.  An HTTP handler may be slow
\* for ever, but not inside the lock.  A gRPC handler is awaited without a
\* deadline; it gets the lock and its Save returns (its audit is bounded by a
\* timeout, RequestHandling), and so do the other Saves.  Strong fairness: a
\* select that keeps finding the closed stop channel ready takes it in the end.
StopSpec ==
    /\ Spec
    /\ WF_vars(DrainCompletes \/ DrainDeadline \/ FinalSave)
    /\ WF_vars(\E h \in Handlers : ApplyMetric(h))
    /\ \A h \in GRPCHandlers : WF_vars(Lock(h)) /\ WF_vars(Save(h))
    /\ WF_vars(Save("ticker") \/ Save("final"))
    /\ SF_vars(SaverExits)

-----------------------------------------------------------------------------
(* Properties.                                                              *)

\* Requests with any of their metrics in m.
AppliedIn(m) == UNION {m.counters[c] : c \in Counters}

CounterIds(b) == {b[i].id : i \in {j \in 1..Len(b) : b[j].type = "counter"}}

\* A request that writes counters leaves a trace in memory.
Traced == {r \in 1..requests : CounterIds(batchOf[r]) # {}}

\* Server.Run returns nil only when the file holds exactly the final memory:
\* no handler and no periodic save can still change either (persistence.go).
CleanStopSavesAll == phase = "stopped" /\ result = "ok" => file = Content(mem)

\* An acknowledged update is in memory for as long as the server runs, across
\* any number of clean restarts with Restore.
AckedNotLost == Up => acked \cap Traced \subseteq AppliedIn(mem)

\* UpdateMetrics is atomic for Save: the file and every snapshot on its way
\* there contain a batch as a whole or not at all (one lock per batch).
Whole(m) ==
    \A r \in 1..requests :
        LET ids == CounterIds(batchOf[r])
        IN  (\E c \in ids : r \in m.counters[c]) => (\A c \in ids : r \in m.counters[c])

BatchesWhole == Whole(file.data) /\ \A a \in Actors : Whole(snap[a])

\* In periodic mode two Saves never overlap, so without a crash or a disk
\* error the file is always readable.
PeriodicFileReadable == mode = "periodic" /\ crashes = 0 /\ diskErrors = 0 => file.kind # "torn"

\* The counters of m are in n as well.
Within(m, n) == \A c \in Counters : m.counters[c] \subseteq n.counters[c]

\* What a Save that succeeded has put into the file is in the memory of every
\* process that starts from it, whatever crashes and disk errors come between:
\* only an end of the process or an error inside os.WriteFile, after the
\* truncation, loses it, and only until the next Save that succeeds.
SavedSurvives == Up /\ Restore /\ ~cut => Within(saved.data, mem)

\* A shutdown ends: an HTTP handler that hangs is left at the deadline, a gRPC
\* handler that is awaited beyond it comes through lock and Save, and the
\* periodic goroutine always lets go of the file.
ShutdownEnds == (phase = "draining") ~> (phase \in {"stopped", "off"})

\* Synchronous mode, as documented: after each successful update the service
\* has saved the new snapshot, so an idle server's file equals its memory.
SyncFileCurrent ==
    mode = "sync" /\ phase = "running" /\ crashes = 0 /\ acked # {}
        /\ (\A h \in Handlers : pc[h] = "idle")
    => file = Content(mem)

=============================================================================
