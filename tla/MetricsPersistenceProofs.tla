---------------------- MODULE MetricsPersistenceProofs ----------------------
(***************************************************************************)
(* Proofs about MetricsPersistence, for any handlers, counters, batches    *)
(* and modes, with and without Restore, and any bounds.                    *)
(***************************************************************************)
EXTENDS MetricsPersistence, TLAPS

Saving == {"snapshot", "truncate", "write"}

AllIdle == \A h \in Handlers : pc[h] = "idle"

-----------------------------------------------------------------------------
(* The inductive invariant, in parts.                                       *)

\* The phases of the process: which goroutines it has, and what Run returned.
Phases ==
    /\ ~Up => pc = Idle /\ lock = "free" /\ saver = "off" /\ broken = {} /\ serveErr = "none"
    /\ phase = "running" => broken = {}
    /\ phase \in {"running", "draining"} => serveErr = "none"
    /\ phase \in {"stopSaver", "final", "stopped"} /\ serveErr = "none" => broken = {}
    /\ phase \in {"running", "draining", "stopSaver", "final"} => result = "none"
    /\ phase \in {"stopSaver", "final", "stopped"} => saver # "on"
    /\ phase \in {"final", "stopped"} => saver = "off"
    /\ saver = "off" => pc["ticker"] = "idle"
    /\ pc["ticker"] # "update" /\ pc["final"] # "update"
    /\ pc["final"] # "idle" <=> phase = "final"
    /\ mode = "periodic" => \A h \in Handlers : pc[h] \notin Saving

\* After transports that ended without an error no handler is left.
NobodyLeft ==
    phase \in {"stopSaver", "final", "stopped"} /\ serveErr = "none" => lock = "free" /\ AllIdle

\* The only saver finds the file as it truncated it: in periodic mode always,
\* and the final save whenever nobody is left.
AloneAtFile ==
    /\ mode = "periodic" => \A a \in Actors : pc[a] = "write" => file = NoData("empty")
    /\ serveErr = "none" => /\ pc["final"] = "write" => file = NoData("empty")
                            /\ pc["final"] \in {"truncate", "write"} => snap["final"] = mem

\* The file that Run leaves behind when it returns nil.
CleanFile ==
    result = "ok" /\ phase \in {"stopped", "off"} =>
        /\ file.kind = "content"
        /\ phase = "stopped" => serveErr = "none" /\ file.data = mem
        /\ acked \cap Traced \subseteq AppliedIn(file.data)

\* The counters among the first n metrics of b.
IdsUpTo(b, n) == {c \in Counters : \E i \in 1..n : b[i].type = "counter" /\ b[i].id = c}

\* A request that waits for the lock is not in memory; the one that holds it is
\* there with the metrics it has applied; no two updates are of one request.
Updating(h) ==
    pc[h] = "update" =>
        /\ request[h] \in 1..requests
        /\ position[h] < Len(batchOf[request[h]])
        /\ lock # h => position[h] = 0
        /\ \A c \in Counters : request[h] \in mem.counters[c] <=> c \in IdsUpTo(batchOf[request[h]], position[h])
        /\ \A g \in Handlers \ {h} : pc[g] = "update" => request[g] # request[h]

\* Request r, of batch b, is in m as a whole or not at all.
WholeRequest(m, r, b) ==
    (\E c \in CounterIds(b) : r \in m.counters[c]) => \A c \in CounterIds(b) : r \in m.counters[c]

\* Only the holder of the lock has a part of its batch in memory.
MemoryWhole ==
    \A r \in 1..requests : (\A h \in Handlers : lock = h => request[h] # r) => WholeRequest(mem, r, batchOf[r])

\* Memory, file and snapshots know of no request to come.
KnownIn(m) == \A c \in Counters : m.counters[c] \subseteq 1..requests

NothingFromFuture == KnownIn(mem) /\ KnownIn(file.data) /\ \A a \in Actors : KnownIn(snap[a])

\* A handler that saves has its request in memory, as have acknowledged ones.
AppliedKept ==
    /\ \A h \in Handlers : pc[h] \in Saving =>
          request[h] \in 1..requests /\ (request[h] \in Traced => request[h] \in AppliedIn(mem))
    /\ Up => acked \cap Traced \subseteq AppliedIn(mem)

\* Nobody but a crash or the disk tears the file in periodic mode.
IInv ==
    /\ TypeOK /\ Phases /\ NobodyLeft /\ AloneAtFile /\ CleanFile
    /\ \A h \in Handlers : Updating(h)
    /\ MemoryWhole /\ BatchesWhole /\ NothingFromFuture /\ AppliedKept /\ PeriodicFileReadable

-----------------------------------------------------------------------------
(* The operators.                                                           *)

LEMMA EmptyMemoryType ==
  /\ EmptyMemory \in Memory
  /\ \A c \in Counters : EmptyMemory.counters[c] = {}
  /\ \A kind \in {"absent", "empty", "torn"} : NoData(kind) \in File /\ NoData(kind).data = EmptyMemory
                                             /\ NoData(kind).kind = kind
  BY DEF EmptyMemory, Memory, NoData, File

LEMMA MemoryType ==
  ASSUME NEW m \in Memory
  PROVE  /\ m.counters \in [Counters -> SUBSET Ids] /\ m.finite \in BOOLEAN
         /\ Content(m) \in File /\ Content(m).data = m /\ Content(m).kind = "content"
  BY DEF Memory, Content, File

LEMMA BatchType ==
  ASSUME NEW b \in Batches
  PROVE  b \in Seq(Metric) /\ Len(b) \in Nat \ {0}
  BY BatchesAssumption

LEMMA ApplyType ==
  ASSUME NEW m \in Memory, NEW metric \in Metric, NEW r \in Ids
  PROVE  /\ Apply(m, metric, r) \in Memory
         /\ \A c \in Counters : Apply(m, metric, r).counters[c] =
               IF metric.type = "counter" /\ metric.id = c THEN m.counters[c] \cup {r} ELSE m.counters[c]
<1>1. CASE metric.type = "counter"
  <2>1. metric.id \in Counters
    BY <1>1 DEF Metric
  <2> QED BY <1>1, <2>1 DEF Apply, Memory
<1>2. CASE metric.type # "counter"
  <2>1. metric.finite \in BOOLEAN
    BY <1>2 DEF Metric
  <2> QED BY <1>2, <2>1 DEF Apply, Memory
<1> QED BY <1>1, <1>2

\* The ids of a whole batch, and of one metric more.
LEMMA IdsOfBatch ==
  ASSUME NEW b \in Batches
  PROVE  /\ CounterIds(b) = IdsUpTo(b, Len(b))
         /\ CounterIds(b) \subseteq Counters
         /\ IdsUpTo(b, 0) = {}
<1>1. ASSUME NEW i \in 1..Len(b), b[i].type = "counter" PROVE b[i].id \in Counters
  <2>1. b[i] \in Metric
    BY BatchType
  <2> QED BY <1>1, <2>1 DEF Metric
<1>2. CounterIds(b) \subseteq IdsUpTo(b, Len(b))
  BY <1>1 DEF CounterIds, IdsUpTo
<1>3. IdsUpTo(b, Len(b)) \subseteq CounterIds(b)
  BY DEF CounterIds, IdsUpTo
<1> QED BY <1>2, <1>3 DEF IdsUpTo

LEMMA IdsStep ==
  ASSUME NEW b \in Batches, NEW n \in Nat, n < Len(b), NEW c \in Counters
  PROVE  c \in IdsUpTo(b, n + 1) <=> c \in IdsUpTo(b, n) \/ (b[n + 1].type = "counter" /\ b[n + 1].id = c)
<1>1. 1..(n + 1) = (1..n) \cup {n + 1}
  OBVIOUS
<1> QED BY <1>1 DEF IdsUpTo

LEMMA EmptyWhole ==
  ASSUME NEW r, NEW b \in Batches
  PROVE  WholeRequest(EmptyMemory, r, b)
  BY IdsOfBatch, EmptyMemoryType DEF WholeRequest

-----------------------------------------------------------------------------
(* What most steps leave alone.                                             *)

\* File and snapshots change to what they, or an unlocked memory, already hold.
LEMMA FileKept ==
  ASSUME IInv, UNCHANGED <<requests, batchOf>>,
         file'.data \in {file.data, EmptyMemory} \cup {snap[a] : a \in Actors},
         \A a \in Actors : snap'[a] \in {snap[a], EmptyMemory} \/ (lock = "free" /\ snap'[a] = mem)
  PROVE  BatchesWhole' /\ KnownIn(file.data)' /\ \A a \in Actors : KnownIn(snap[a])'
<1> DEFINE Good(m) == /\ \A r \in 1..requests : WholeRequest(m, r, batchOf[r])
                      /\ \A c \in Counters : m.counters[c] \subseteq 1..requests
<1>1. Good(file.data) /\ \A a \in Actors : Good(snap[a])
  BY DEF IInv, BatchesWhole, Whole, WholeRequest, NothingFromFuture, KnownIn
<1>2. lock = "free" => Good(mem)
  BY SaversAssumption DEF IInv, MemoryWhole, NothingFromFuture, KnownIn
<1>3. Good(EmptyMemory)
  BY EmptyWhole, EmptyMemoryType DEF IInv, TypeOK
<1>4. Good(file'.data) /\ \A a \in Actors : Good(snap'[a])
  <2> HIDE DEF Good
  <2> QED BY <1>1, <1>2, <1>3
<1> QED BY <1>4 DEF BatchesWhole, Whole, WholeRequest, KnownIn

\* Memory and the updates in progress stay as they are.
LEMMA MemoryKept ==
  ASSUME IInv, UNCHANGED <<mem, lock, request, position, requests, batchOf>>,
         \A h \in Handlers : pc'[h] = "update" <=> pc[h] = "update"
  PROVE  (\A h \in Handlers : Updating(h)') /\ MemoryWhole' /\ KnownIn(mem)'
<1>1. ASSUME NEW h \in Handlers PROVE Updating(h)'
  BY DEF IInv, Updating, IdsUpTo
<1>2. MemoryWhole' /\ KnownIn(mem)'
  BY DEF IInv, MemoryWhole, NothingFromFuture, KnownIn, WholeRequest
<1> QED BY <1>1, <1>2

-----------------------------------------------------------------------------
(* The invariant is inductive.                                              *)

LEMMA InitInv == Init => IInv
<1> SUFFICES ASSUME Init PROVE IInv
  OBVIOUS
<1>1. TypeOK
  <2>1. batchOf \in [1..requests -> Batches] /\ requests \in 0..MaxRequests
    BY BoundsAssumption DEF Init
  <2>2. diskErrors \in 0..MaxDiskErrors /\ crashes \in 0..MaxCrashes /\ boots \in 0..MaxBoots
    BY BoundsAssumption DEF Init
  <2>3. request \in [Handlers -> 0..MaxRequests] /\ position \in [Handlers -> Nat]
    BY BoundsAssumption DEF Init
  <2>4. file \in File /\ mem \in Memory /\ snap \in [Actors -> Memory]
    BY EmptyMemoryType DEF Init
  <2>5. saved \in File /\ cut \in BOOLEAN
    BY <2>4 DEF Init
  <2> QED BY <2>1, <2>2, <2>3, <2>4, <2>5 DEF Init, TypeOK, Idle
<1>2. Phases /\ NobodyLeft /\ AloneAtFile /\ CleanFile
  BY SaversAssumption DEF Init, Phases, NobodyLeft, AloneAtFile, CleanFile, Up, Idle, Actors, Saving
<1>3. \A h \in Handlers : Updating(h)
  BY DEF Init, Updating, Idle, Actors
<1>4. MemoryWhole /\ BatchesWhole /\ PeriodicFileReadable
  BY EmptyMemoryType DEF Init, MemoryWhole, BatchesWhole, Whole, PeriodicFileReadable
<1>5. NothingFromFuture
  BY EmptyMemoryType DEF Init, NothingFromFuture, KnownIn
<1>6. AppliedKept
  BY DEF Init, AppliedKept, Idle, Actors, Saving, Up
<1> QED BY <1>1, <1>2, <1>3, <1>4, <1>5, <1>6 DEF IInv

\* A new request: nothing knows of it yet.
LEMMA ReceivePreserves ==
  ASSUME IInv, NEW h \in Handlers, NEW b \in Batches, Receive(h, b)
  PROVE  IInv'
<1>1. /\ Serving(h) /\ pc[h] = "idle" /\ requests < MaxRequests /\ requests' = requests + 1
      /\ batchOf' = Append(batchOf, b)
      /\ request' = [request EXCEPT ![h] = requests + 1]
      /\ position' = [position EXCEPT ![h] = 0]
      /\ pc' = [pc EXCEPT ![h] = "update"]
      /\ UNCHANGED <<mode, mem, lock, file, snap, phase, saver, broken, serveErr, result, acked, saved, cut, diskErrors, crashes, boots>>
  BY DEF Receive, saves, faults
<1>2. requests \in Nat /\ requests + 1 \in 1..MaxRequests /\ h \in Actors /\ h \notin {"free", "ticker", "final"}
  BY <1>1, BoundsAssumption, SaversAssumption DEF IInv, TypeOK, Actors
<1>3. /\ batchOf' \in [1..(requests + 1) -> Batches]
      /\ batchOf'[requests + 1] = b
      /\ \A r \in 1..requests : batchOf'[r] = batchOf[r]
  <2>1. batchOf \in Seq(Batches) /\ Len(batchOf) = requests
    BY <1>2 DEF IInv, TypeOK
  <2>2. batchOf' \in Seq(Batches) /\ Len(batchOf') = requests + 1
    BY <1>1, <2>1
  <2>3. batchOf'[requests + 1] = b /\ \A r \in 1..requests : batchOf'[r] = batchOf[r]
    BY <1>1, <1>2, <2>1
  <2> QED BY <2>2, <2>3
<1>4. TypeOK'
  <2>1. request' \in [Handlers -> 0..MaxRequests] /\ position' \in [Handlers -> Nat]
    BY <1>1, <1>2 DEF IInv, TypeOK
  <2>2. pc' \in [Actors -> {"idle", "update", "snapshot", "truncate", "write"}]
    BY <1>1 DEF IInv, TypeOK
  <2>3. lock' \in {"free"} \cup {g \in Handlers : pc'[g] = "update"}
    BY <1>1, <1>2 DEF IInv, TypeOK, Actors
  <2>4. requests' \in 0..MaxRequests /\ acked' \in SUBSET (1..requests') /\ batchOf' \in [1..requests' -> Batches]
    BY <1>1, <1>2, <1>3 DEF IInv, TypeOK
  <2> QED BY <1>1, <2>1, <2>2, <2>3, <2>4 DEF IInv, TypeOK
<1>5. /\ pc'[h] = "update" /\ \A a \in Actors \ {h} : pc'[a] = pc[a]
      /\ pc'["ticker"] = pc["ticker"] /\ pc'["final"] = pc["final"]
  BY <1>1, <1>2 DEF IInv, TypeOK, Actors
<1>6. Phases' /\ NobodyLeft'
  <2>1. Up /\ ~(phase \in {"stopSaver", "final", "stopped"} /\ serveErr = "none")
    BY <1>1 DEF Serving, IInv, Phases, Up
  <2> QED BY <1>1, <1>2, <1>5, <2>1 DEF IInv, Phases, NobodyLeft, Up, Saving, Actors
<1>7. AloneAtFile'
  BY <1>1, <1>5 DEF IInv, AloneAtFile
<1>8. Traced' \cap (1..requests) = Traced
  <2>1. ASSUME NEW r \in 1..requests PROVE r \in Traced' <=> r \in Traced
    <3>1. CounterIds(batchOf'[r]) = CounterIds(batchOf[r]) /\ r \in 1..requests'
      BY <1>1, <1>2, <1>3
    <3> QED BY <3>1 DEF Traced
  <2> QED BY <2>1 DEF Traced
<1>9. acked \cap Traced' = acked \cap Traced
  BY <1>8 DEF IInv, TypeOK
<1>10. CleanFile'
  BY <1>1, <1>9 DEF IInv, CleanFile, AppliedIn
<1>11. AppliedKept'
  <2>1. ASSUME NEW g \in Handlers, pc'[g] \in Saving
        PROVE  request'[g] \in 1..requests' /\ (request'[g] \in Traced' => request'[g] \in AppliedIn(mem)')
    <3>1. g # h /\ pc[g] \in Saving /\ request'[g] = request[g]
      BY <1>1, <1>5, <2>1 DEF Saving, Actors, IInv, TypeOK
    <3>2. request[g] \in 1..requests /\ (request[g] \in Traced => request[g] \in AppliedIn(mem))
      BY <3>1 DEF IInv, AppliedKept
    <3> QED BY <1>1, <1>2, <1>8, <3>1, <3>2 DEF AppliedIn
  <2>2. Up' => acked' \cap Traced' \subseteq AppliedIn(mem)'
    BY <1>1, <1>9 DEF IInv, AppliedKept, Up, AppliedIn
  <2> QED BY <2>1, <2>2 DEF AppliedKept
<1>12. /\ \A c \in Counters : requests + 1 \notin mem.counters[c] /\ requests + 1 \notin file.data.counters[c]
       /\ \A a \in Actors, c \in Counters : requests + 1 \notin snap[a].counters[c]
  BY <1>2 DEF IInv, NothingFromFuture, KnownIn
<1>13. ASSUME NEW g \in Handlers PROVE Updating(g)'
  <2>1. CASE g = h
    <3>1. request'[h] = requests + 1 /\ position'[h] = 0 /\ batchOf'[request'[h]] = b /\ request'[h] \in 1..requests'
      BY <1>1, <1>2, <1>3 DEF IInv, TypeOK
    <3>2. 0 < Len(b) /\ IdsUpTo(b, 0) = {}
      BY BatchType, IdsOfBatch
    <3>3. ASSUME NEW f \in Handlers \ {h}, pc'[f] = "update" PROVE request'[f] # request'[h]
      <4>1. request'[f] = request[f] /\ pc[f] = "update"
        BY <1>1, <3>3 DEF IInv, TypeOK, Actors
      <4>2. request[f] \in 1..requests
        BY <4>1 DEF IInv, Updating
      <4> QED BY <1>2, <3>1, <4>1, <4>2
    <3>4. \A c \in Counters : request'[h] \in mem'.counters[c] <=> c \in IdsUpTo(batchOf'[request'[h]], position'[h])
      BY <1>1, <1>12, <3>1, <3>2
    <3>5. Updating(h)'
      BY <3>1, <3>2, <3>3, <3>4 DEF Updating
    <3> QED BY <2>1, <3>5
  <2>2. CASE g # h
    <3>1. request'[g] = request[g] /\ position'[g] = position[g] /\ pc'[g] = pc[g]
      BY <1>1, <2>2 DEF IInv, TypeOK, Actors
    <3> SUFFICES ASSUME pc[g] = "update" PROVE Updating(g)'
      BY <3>1 DEF Updating
    <3>2. /\ request[g] \in 1..requests
          /\ position[g] < Len(batchOf[request[g]])
          /\ lock # g => position[g] = 0
          /\ \A c \in Counters : request[g] \in mem.counters[c] <=> c \in IdsUpTo(batchOf[request[g]], position[g])
          /\ \A f \in Handlers \ {g} : pc[f] = "update" => request[f] # request[g]
      BY DEF IInv, Updating
    <3>3. batchOf'[request'[g]] = batchOf[request[g]] /\ request'[g] \in 1..requests'
      BY <1>1, <1>2, <1>3, <3>1, <3>2
    <3>4. ASSUME NEW f \in Handlers \ {g}, pc'[f] = "update" PROVE request'[f] # request'[g]
      <4>1. CASE f = h
        BY <4>1, <1>1, <1>2, <3>1, <3>2 DEF IInv, TypeOK
      <4>2. CASE f # h
        BY <4>2, <1>1, <3>1, <3>2, <3>4 DEF IInv, TypeOK, Actors
      <4> QED BY <4>1, <4>2
    <3>5. \A c \in Counters : request'[g] \in mem'.counters[c] <=> c \in IdsUpTo(batchOf'[request'[g]], position'[g])
      BY <1>1, <3>1, <3>2, <3>3
    <3> QED BY <1>1, <3>1, <3>2, <3>3, <3>4, <3>5 DEF Updating
  <2> QED BY <2>1, <2>2
<1>14. ASSUME NEW m, \A c \in Counters : requests + 1 \notin m.counters[c],
              \A r \in 1..requests : WholeRequest(m, r, batchOf[r])
       PROVE  \A r \in 1..(requests + 1) : WholeRequest(m, r, batchOf'[r])
  <2>1. WholeRequest(m, requests + 1, b)
    BY <1>14, IdsOfBatch DEF WholeRequest
  <2> QED BY <1>2, <1>3, <1>14, <2>1
<1>15. BatchesWhole'
  <2>1. /\ \A r \in 1..requests : WholeRequest(file.data, r, batchOf[r])
        /\ \A a \in Actors, r \in 1..requests : WholeRequest(snap[a], r, batchOf[r])
    BY DEF IInv, BatchesWhole, Whole, WholeRequest
  <2>2. /\ \A r \in 1..(requests + 1) : WholeRequest(file.data, r, batchOf'[r])
        /\ \A a \in Actors, r \in 1..(requests + 1) : WholeRequest(snap[a], r, batchOf'[r])
    BY <1>12, <1>14, <2>1
  <2> QED BY <1>1, <2>2 DEF BatchesWhole, Whole, WholeRequest
<1>16. MemoryWhole'
  <2> SUFFICES ASSUME NEW r \in 1..(requests + 1), \A g \in Handlers : lock = g => request'[g] # r
               PROVE  WholeRequest(mem, r, batchOf'[r])
    BY <1>1 DEF MemoryWhole, WholeRequest
  <2>1. CASE r = requests + 1
    BY <2>1, <1>3, <1>12, IdsOfBatch DEF WholeRequest
  <2>2. CASE r # requests + 1
    <3>1. r \in 1..requests
      BY <1>2, <2>2
    <3>2. ASSUME NEW g \in Handlers, lock = g PROVE request[g] # r
      <4>1. pc[g] = "update"
        BY <3>2, <1>2, SaversAssumption DEF IInv, TypeOK
      <4>2. request'[g] = request[g]
        BY <1>1, <4>1 DEF IInv, TypeOK
      <4> QED BY <3>2, <4>2
    <3> QED BY <1>3, <3>1, <3>2 DEF IInv, MemoryWhole
  <2> QED BY <2>1, <2>2
<1>17. NothingFromFuture'
  BY <1>1, <1>2 DEF IInv, NothingFromFuture, KnownIn
<1>18. PeriodicFileReadable'
  BY <1>1 DEF IInv, PeriodicFileReadable
<1> QED BY <1>4, <1>6, <1>7, <1>10, <1>11, <1>13, <1>15, <1>16, <1>17, <1>18 DEF IInv

\* While a handler is busy the process is up, has not been stopped cleanly, and
\* the final save, if it runs, is one after an error.
LEMMA BusyHandler ==
  ASSUME IInv, NEW h \in Handlers, pc[h] # "idle"
  PROVE  /\ Up
         /\ ~(phase \in {"stopSaver", "final", "stopped"} /\ serveErr = "none")
         /\ ~(result = "ok" /\ phase \in {"stopped", "off"})
         /\ h \in Actors /\ h \notin {"free", "ticker", "final"}
  BY SaversAssumption DEF IInv, Phases, NobodyLeft, CleanFile, AllIdle, Up, Idle, Actors

LEMMA LockPreserves ==
  ASSUME IInv, NEW h \in Handlers, Lock(h)
  PROVE  IInv'
<1>1. /\ pc[h] = "update" /\ lock = "free" /\ lock' = h
      /\ UNCHANGED <<mode, mem, file, pc, snap, request, position, phase, saver, broken, serveErr, result,
                     requests, batchOf, acked, saved, cut, diskErrors, crashes, boots>>
  BY DEF Lock, saves, faults
<1>2. TypeOK'
  BY <1>1 DEF IInv, TypeOK
<1>3. Phases' /\ NobodyLeft'
  BY <1>1, BusyHandler DEF IInv, Phases, NobodyLeft, Up
<1>4. AloneAtFile' /\ CleanFile' /\ PeriodicFileReadable'
  BY <1>1 DEF IInv, AloneAtFile, CleanFile, PeriodicFileReadable, Traced, AppliedIn
<1>5. AppliedKept'
  BY <1>1 DEF IInv, AppliedKept, Traced, AppliedIn, Up
<1>6. ASSUME NEW g \in Handlers PROVE Updating(g)'
  BY <1>1, SaversAssumption DEF IInv, Updating, IdsUpTo
<1>7. MemoryWhole'
  <2>1. \A r \in 1..requests : WholeRequest(mem, r, batchOf[r])
    BY <1>1, SaversAssumption DEF IInv, MemoryWhole
  <2> QED BY <1>1, <2>1 DEF MemoryWhole
<1>8. BatchesWhole' /\ NothingFromFuture'
  BY <1>1, FileKept DEF IInv, NothingFromFuture, KnownIn
<1> QED BY <1>2, <1>3, <1>4, <1>5, <1>6, <1>7, <1>8 DEF IInv

\* One metric under the lock; after the last one the request is whole.
LEMMA ApplyPreserves ==
  ASSUME IInv, NEW h \in Handlers, ApplyMetric(h)
  PROVE  IInv'
<1> DEFINE r == request[h]
           b == batchOf[request[h]]
           k == position[h] + 1
<1>1. /\ pc[h] = "update" /\ lock = h
      /\ mem' = Apply(mem, b[k], r)
      /\ position' = [position EXCEPT ![h] = k]
      /\ \/ k < Len(b) /\ UNCHANGED <<lock, pc, acked>>
         \/ /\ ~(k < Len(b)) /\ lock' = "free"
            /\ \/ mode = "sync" /\ pc' = [pc EXCEPT ![h] = "snapshot"] /\ UNCHANGED acked
               \/ mode # "sync" /\ pc' = [pc EXCEPT ![h] = "idle"] /\ acked' = acked \cup {r}
      /\ UNCHANGED <<mode, file, snap, request, phase, saver, broken, serveErr, result, requests, batchOf,
                     saved, cut, diskErrors, crashes, boots>>
  BY DEF ApplyMetric, Unlock, saves, faults
<1>2. /\ r \in 1..requests /\ r \in Ids /\ b \in Batches /\ position[h] \in Nat /\ k \in 1..Len(b)
      /\ b[k] \in Metric /\ Len(b) \in Nat
  <2>1. r \in 1..requests /\ position[h] \in Nat /\ position[h] < Len(b) /\ requests \in 0..MaxRequests
    BY <1>1 DEF IInv, Updating, TypeOK
  <2>2. b \in Batches
    BY <2>1 DEF IInv, TypeOK
  <2>3. b \in Seq(Metric) /\ Len(b) \in Nat
    BY <2>2, BatchType
  <2> QED BY <2>1, <2>2, <2>3, BoundsAssumption DEF Ids
<1>3. mem \in Memory
  BY DEF IInv, TypeOK
<1>4. /\ mem' \in Memory
      /\ \A c \in Counters : mem'.counters[c] =
            IF b[k].type = "counter" /\ b[k].id = c THEN mem.counters[c] \cup {r} ELSE mem.counters[c]
  BY <1>1, <1>2, <1>3, ApplyType
<1>5. ASSUME NEW c \in Counters
      PROVE  c \in IdsUpTo(b, k) <=> c \in IdsUpTo(b, position[h]) \/ (b[k].type = "counter" /\ b[k].id = c)
  <2>1. b \in Batches /\ position[h] \in Nat /\ position[h] < Len(b) /\ k = position[h] + 1
    BY <1>2
  <2> HIDE DEF b, k
  <2>2. c \in IdsUpTo(b, position[h] + 1)
          <=> c \in IdsUpTo(b, position[h])
                \/ (b[position[h] + 1].type = "counter" /\ b[position[h] + 1].id = c)
    BY <2>1, IdsStep, Zenon
  <2> QED BY <2>1, <2>2, Zenon
<1> HIDE DEF r, b, k
<1>6. \A c \in Counters : r \in mem'.counters[c] <=> c \in IdsUpTo(b, k)
  <2>1. \A c \in Counters : r \in mem.counters[c] <=> c \in IdsUpTo(b, position[h])
    BY <1>1 DEF IInv, Updating, r, b
  <2> QED BY <1>4, <1>5, <2>1
<1>7. \A c \in Counters, q \in 1..requests : q # r => (q \in mem'.counters[c] <=> q \in mem.counters[c])
  BY <1>4
<1>8. ~(k < Len(b)) => k = Len(b) /\ \A c \in Counters : r \in mem'.counters[c] <=> c \in CounterIds(b)
  BY <1>2, <1>6, IdsOfBatch
<1>9. /\ Up /\ ~(phase \in {"stopSaver", "final", "stopped"} /\ serveErr = "none")
      /\ ~(result = "ok" /\ phase \in {"stopped", "off"})
      /\ h \in Actors /\ h \notin {"free", "ticker", "final"}
  BY <1>1, BusyHandler
<1>10. \A a \in Actors \ {h} : pc'[a] = pc[a]
  BY <1>1 DEF IInv, TypeOK
<1>11. pc'[h] \in {"update", "snapshot", "idle"} /\ (pc'[h] = "snapshot" => mode = "sync")
       /\ (pc'[h] = "update" <=> k < Len(b))
  BY <1>1, <1>9 DEF IInv, TypeOK
<1>12. TypeOK'
  <2>1. pc' \in [Actors -> {"idle", "update", "snapshot", "truncate", "write"}] /\ acked' \in SUBSET (1..requests)
    BY <1>1, <1>2, <1>9 DEF IInv, TypeOK
  <2>2. lock' \in {"free"} \cup {g \in Handlers : pc'[g] = "update"} /\ position' \in [Handlers -> Nat]
    BY <1>1, <1>2, <1>11 DEF IInv, TypeOK
  <2> QED BY <1>1, <1>4, <2>1, <2>2 DEF IInv, TypeOK
<1>13. Phases' /\ NobodyLeft'
  <2>1. pc'["ticker"] = pc["ticker"] /\ pc'["final"] = pc["final"]
    BY <1>9, <1>10 DEF Actors
  <2>2. mode = "periodic" => \A g \in Handlers : pc'[g] \notin Saving
    BY <1>10, <1>11 DEF IInv, Phases, Saving, Actors
  <2> QED BY <1>1, <1>9, <2>1, <2>2 DEF IInv, Phases, NobodyLeft, Up
<1>14. AloneAtFile'
  <2>1. ASSUME NEW a \in Actors, pc'[a] = "write" PROVE pc[a] = "write"
    BY <1>10, <1>11, <2>1
  <2>2. serveErr = "none" => pc'["final"] = "idle"
    BY <1>9, <1>10 DEF IInv, Phases, Actors
  <2> QED BY <1>1, <2>1, <2>2 DEF IInv, AloneAtFile
<1>15. CleanFile' /\ PeriodicFileReadable'
  BY <1>1, <1>9 DEF IInv, CleanFile, PeriodicFileReadable
<1>16. ASSUME NEW g \in Handlers PROVE Updating(g)'
  <2>1. CASE g = h
    <3> SUFFICES ASSUME k < Len(b) PROVE Updating(h)'
      BY <2>1, <1>11 DEF Updating
    <3>1. request'[h] = r /\ position'[h] = k /\ batchOf'[request'[h]] = b /\ lock' = h /\ requests' = requests /\ pc' = pc
      BY <1>1 DEF IInv, TypeOK, r, b
    <3>2. \A f \in Handlers \ {h} : pc[f] = "update" => request[f] # r
      BY <1>1 DEF IInv, Updating, r
    <3>3. \A c \in Counters : request'[h] \in mem'.counters[c] <=> c \in IdsUpTo(batchOf'[request'[h]], position'[h])
      BY <1>6, <3>1
    <3> QED BY <1>1, <1>2, <3>1, <3>2, <3>3 DEF Updating
  <2>2. CASE g # h
    <3> SUFFICES ASSUME pc[g] = "update" PROVE Updating(g)'
      BY <1>10, <2>2 DEF Updating, Actors
    <3>1. /\ request[g] \in 1..requests
          /\ position[g] < Len(batchOf[request[g]])
          /\ lock # g => position[g] = 0
          /\ \A c \in Counters : request[g] \in mem.counters[c] <=> c \in IdsUpTo(batchOf[request[g]], position[g])
          /\ \A f \in Handlers \ {g} : pc[f] = "update" => request[f] # request[g]
      BY DEF IInv, Updating
    <3>2. request[g] # r
      BY <1>1, <2>2, <3>1 DEF r
    <3>3. position'[g] = position[g] /\ request' = request /\ batchOf' = batchOf /\ requests' = requests
      BY <1>1, <2>2 DEF IInv, TypeOK
    <3>4. \A c \in Counters : request'[g] \in mem'.counters[c] <=> c \in IdsUpTo(batchOf'[request'[g]], position'[g])
      BY <1>7, <3>1, <3>2, <3>3
    <3>5. \A f \in Handlers \ {g} : pc'[f] = "update" => pc[f] = "update"
      BY <1>1, <1>10 DEF Actors
    <3> QED BY <1>1, <2>2, <3>1, <3>3, <3>4, <3>5 DEF Updating
  <2> QED BY <2>1, <2>2
<1>17. MemoryWhole'
  <2> SUFFICES ASSUME NEW q \in 1..requests, \A g \in Handlers : lock' = g => request[g] # q
               PROVE  WholeRequest(mem', q, batchOf[q])
    BY <1>1 DEF MemoryWhole, WholeRequest
  <2>1. CASE q = r
    <3>1. ~(k < Len(b)) /\ batchOf[q] = b
      BY <1>1, <2>1 DEF r, b
    <3>2. CounterIds(b) \subseteq Counters
      BY <1>2, IdsOfBatch
    <3> QED BY <1>8, <2>1, <3>1, <3>2 DEF WholeRequest
  <2>2. CASE q # r
    <3>1. WholeRequest(mem, q, batchOf[q])
      BY <1>1, <2>2 DEF IInv, MemoryWhole, r
    <3>2. CounterIds(batchOf[q]) \subseteq Counters
      BY IdsOfBatch DEF IInv, TypeOK
    <3> QED BY <1>7, <2>2, <3>1, <3>2 DEF WholeRequest
  <2> QED BY <2>1, <2>2
<1>18. BatchesWhole' /\ NothingFromFuture'
  <2>1. KnownIn(mem)'
    <3>1. \A c \in Counters : mem.counters[c] \subseteq 1..requests
      BY DEF IInv, NothingFromFuture, KnownIn
    <3>2. \A c \in Counters : mem'.counters[c] \subseteq 1..requests
      BY <1>2, <1>4, <3>1
    <3> QED BY <1>1, <3>2 DEF KnownIn
  <2> QED BY <1>1, <2>1, FileKept DEF NothingFromFuture
<1>19. AppliedKept'
  <2>1. AppliedIn(mem) \subseteq AppliedIn(mem')
    <3>1. \A c \in Counters : mem.counters[c] \subseteq mem'.counters[c]
      BY <1>4
    <3> QED BY <3>1, Zenon DEF AppliedIn
  <2>2. ~(k < Len(b)) /\ r \in Traced => r \in AppliedIn(mem')
    <3> SUFFICES ASSUME ~(k < Len(b)), r \in Traced PROVE r \in AppliedIn(mem')
      OBVIOUS
    <3>1. PICK c : c \in CounterIds(b)
      BY DEF Traced, r, b
    <3>2. c \in Counters
      BY <1>2, <3>1, IdsOfBatch
    <3> QED BY <1>8, <3>1, <3>2 DEF AppliedIn
  <2>3. Traced' = Traced
    BY <1>1 DEF Traced
  <2>4. ASSUME NEW g \in Handlers, pc'[g] \in Saving
        PROVE  request[g] \in 1..requests /\ (request[g] \in Traced => request[g] \in AppliedIn(mem'))
    <3>1. CASE g = h
      BY <1>2, <1>11, <2>2, <2>4, <3>1 DEF Saving, r
    <3>2. CASE g # h
      <4>1. pc[g] \in Saving
        BY <1>10, <2>4, <3>2 DEF Actors
      <4> QED BY <2>1, <4>1 DEF IInv, AppliedKept
    <3> QED BY <3>1, <3>2
  <2>5. acked' \cap Traced \subseteq AppliedIn(mem')
    BY <1>1, <1>9, <2>1, <2>2 DEF IInv, AppliedKept
  <2> QED BY <1>1, <2>3, <2>4, <2>5 DEF AppliedKept, AppliedIn
<1> QED BY <1>12, <1>13, <1>14, <1>15, <1>16, <1>17, <1>18, <1>19 DEF IInv

\* Who can be saving at the same time as a.
LEMMA SaversAlone ==
  ASSUME IInv, NEW a \in Actors, pc[a] \in Saving
  PROVE  /\ Up /\ ~(result = "ok" /\ phase \in {"stopped", "off"})
         /\ mode = "periodic" => \A x \in Actors \ {a} : pc[x] \notin Saving
         /\ phase = "final" /\ serveErr = "none" => a = "final"
         /\ a = "final" => phase = "final"
<1>1. pc["ticker"] # "idle" => phase \notin {"final", "stopped"}
  BY DEF IInv, Phases
<1>2. pc["final"] # "idle" <=> phase = "final"
  BY DEF IInv, Phases
<1>3. Up
  BY DEF IInv, Phases, Idle, Saving
<1>4. mode = "periodic" => a \in {"ticker", "final"} /\ \A x \in Actors \ {a} : pc[x] \notin Saving
  BY <1>1, <1>2 DEF IInv, Phases, Actors, Saving
<1>5. phase \in {"final", "stopped"} /\ serveErr = "none" => a = "final"
  BY <1>1, <1>2 DEF IInv, NobodyLeft, AllIdle, Actors, Saving
<1>6. ~(result = "ok" /\ phase \in {"stopped", "off"})
  <2> SUFFICES ASSUME result = "ok", phase = "stopped" PROVE FALSE
    BY <1>3 DEF Up
  <2>1. serveErr = "none"
    BY DEF IInv, CleanFile
  <2> QED BY <1>2, <1>5, <2>1 DEF Saving
<1> QED BY <1>2, <1>3, <1>4, <1>5, <1>6 DEF Saving

LEMMA SnapshotPreserves ==
  ASSUME IInv, NEW a \in Actors, SaveSnapshot(a)
  PROVE  IInv'
<1>1. /\ pc[a] = "snapshot" /\ lock = "free" /\ mem.finite
      /\ snap' = [snap EXCEPT ![a] = mem] /\ pc' = [pc EXCEPT ![a] = "truncate"]
      /\ UNCHANGED <<mode, mem, lock, file, request, position, phase, saver, broken, serveErr, result,
                     requests, batchOf, acked, saved, cut, diskErrors, crashes, boots>>
  BY DEF SaveSnapshot, SnapshotAllowed, saves, faults
<1>2. \A x \in Actors : pc'[x] = IF x = a THEN "truncate" ELSE pc[x]
  BY <1>1 DEF IInv, TypeOK
<1>3. "final" \in Actors /\ "ticker" \in Actors /\ Handlers \subseteq Actors /\ pc[a] \in Saving
  BY <1>1 DEF Actors, Saving
<1>4. TypeOK'
  <2>1. snap' \in [Actors -> Memory] /\ pc' \in [Actors -> {"idle", "update", "snapshot", "truncate", "write"}]
    BY <1>1 DEF IInv, TypeOK
  <2> QED BY <1>1, <2>1 DEF IInv, TypeOK
<1>5. Phases'
  BY <1>1, <1>2, <1>3, SaversAlone DEF IInv, Phases, Up, Saving
<1>6. NobodyLeft'
  <2>1. a \in Handlers => ~AllIdle
    BY <1>1 DEF AllIdle
  <2> QED BY <1>1, <1>2, <1>3, <2>1 DEF IInv, NobodyLeft, AllIdle
<1>7. AloneAtFile'
  BY <1>1, <1>2, <1>3 DEF IInv, TypeOK, AloneAtFile
<1>8. CleanFile' /\ PeriodicFileReadable'
  BY <1>1 DEF IInv, CleanFile, PeriodicFileReadable, Traced
<1>9. AppliedKept'
  BY <1>1, <1>2, <1>3 DEF IInv, AppliedKept, Traced, Saving, Up
<1>10. BatchesWhole' /\ KnownIn(file.data)' /\ \A x \in Actors : KnownIn(snap[x])'
  <2>1. \A x \in Actors : snap'[x] \in {snap[x], EmptyMemory} \/ (lock = "free" /\ snap'[x] = mem)
    BY <1>1 DEF IInv, TypeOK
  <2> QED BY <1>1, <2>1, FileKept
<1>11. (\A h \in Handlers : Updating(h)') /\ MemoryWhole' /\ KnownIn(mem)'
  BY <1>1, <1>2, <1>3, MemoryKept
<1> QED BY <1>4, <1>5, <1>6, <1>7, <1>8, <1>9, <1>10, <1>11 DEF IInv, NothingFromFuture

LEMMA TruncatePreserves ==
  ASSUME IInv, NEW a \in Actors, SaveTruncate(a)
  PROVE  IInv'
<1>1. /\ pc[a] = "truncate" /\ file' = NoData("empty") /\ pc' = [pc EXCEPT ![a] = "write"]
      /\ UNCHANGED <<mode, mem, lock, snap, request, position, phase, saver, broken, serveErr, result,
                     requests, batchOf, acked, saved, cut, diskErrors, crashes, boots>>
  BY DEF SaveTruncate, saves, faults
<1>2. \A x \in Actors : pc'[x] = IF x = a THEN "write" ELSE pc[x]
  BY <1>1 DEF IInv, TypeOK
<1>3. "final" \in Actors /\ "ticker" \in Actors /\ Handlers \subseteq Actors /\ pc[a] \in Saving
  BY <1>1 DEF Actors, Saving
<1>4. TypeOK'
  BY <1>1, EmptyMemoryType DEF IInv, TypeOK
<1>5. Phases'
  BY <1>1, <1>2, <1>3, SaversAlone DEF IInv, Phases, Up, Saving
<1>6. NobodyLeft'
  <2>1. a \in Handlers => ~AllIdle
    BY <1>1 DEF AllIdle
  <2> QED BY <1>1, <1>2, <1>3, <2>1 DEF IInv, NobodyLeft, AllIdle
<1>7. AloneAtFile'
  BY <1>1, <1>2, <1>3 DEF IInv, AloneAtFile, NoData
<1>8. CleanFile' /\ PeriodicFileReadable'
  BY <1>1, <1>3, SaversAlone, EmptyMemoryType DEF IInv, CleanFile, PeriodicFileReadable
<1>9. AppliedKept'
  BY <1>1, <1>2, <1>3 DEF IInv, AppliedKept, Traced, Saving, Up
<1>10. BatchesWhole' /\ KnownIn(file.data)' /\ \A x \in Actors : KnownIn(snap[x])'
  BY <1>1, FileKept, EmptyMemoryType
<1>11. (\A h \in Handlers : Updating(h)') /\ MemoryWhole' /\ KnownIn(mem)'
  BY <1>1, <1>2, <1>3, MemoryKept
<1> QED BY <1>4, <1>5, <1>6, <1>7, <1>8, <1>9, <1>10, <1>11 DEF IInv, NothingFromFuture

\* Save returns to a handler, to the ticker loop or to Run.
LEMMA SaveReturnsPreserves ==
  ASSUME IInv, NEW a \in Actors, SaveMarshalFails(a) \/ SaveWrite(a) \/ SaveDiskFails(a)
  PROVE  IInv'
<1>1. /\ pc[a] \in Saving /\ pc' = [pc EXCEPT ![a] = "idle"]
      /\ UNCHANGED <<mode, mem, lock, snap, request, position, saver, broken, serveErr, requests, batchOf, crashes, boots>>
      /\ \/ UNCHANGED acked
         \/ a \in Handlers /\ acked' = acked \cup {request[a]}
      /\ a # "final" => UNCHANGED <<phase, result>>
      /\ a = "final" => phase' = "stopped"
  BY DEF SaveMarshalFails, MarshalFailed, SaveWrite, SaveDiskFails, SaveReturns, Saving, saves, faults
<1>2. \A x \in Actors : pc'[x] = IF x = a THEN "idle" ELSE pc[x]
  BY <1>1 DEF IInv, TypeOK
<1>3. "final" \in Actors /\ "ticker" \in Actors /\ Handlers \subseteq Actors /\ "final" \notin Handlers
  BY SaversAssumption DEF Actors
<1>4. /\ file' \in File
      /\ file'.data \in {file.data, EmptyMemory} \cup {snap[x] : x \in Actors}
  <2>1. snap[a] \in Memory /\ file \in File
    BY DEF IInv, TypeOK
  <2>2. file' \in {file, NoData("torn"), Content(snap[a])}
    BY DEF SaveMarshalFails, MarshalFailed, SaveWrite, SaveDiskFails, Overwrite
  <2>3. NoData("torn") \in File /\ NoData("torn").data = EmptyMemory /\ Content(snap[a]) \in File
        /\ Content(snap[a]).data = snap[a]
    BY <2>1, MemoryType, EmptyMemoryType
  <2> QED BY <2>1, <2>2, <2>3
<1>5. a = "final" => /\ result' \in {"ok", "error"}
                     /\ result' = "ok" => SaveWrite(a) /\ serveErr = "none"
  BY DEF SaveMarshalFails, SaveWrite, SaveDiskFails, SaveReturns
<1>6. diskErrors' \in 0..MaxDiskErrors /\ (diskErrors' = 0 => UNCHANGED diskErrors /\ (SaveWrite(a) \/ UNCHANGED file))
  <2>1. diskErrors \in 0..MaxDiskErrors /\ MaxDiskErrors \in Nat
    BY BoundsAssumption DEF IInv, TypeOK
  <2>2. CASE SaveMarshalFails(a) \/ SaveWrite(a)
    BY <2>1, <2>2 DEF SaveMarshalFails, MarshalFailed, SaveWrite, saves, faults
  <2>3. CASE SaveDiskFails(a)
    BY <2>1, <2>3 DEF SaveDiskFails
  <2> QED BY <2>2, <2>3
<1>7. Up /\ (phase = "final" <=> pc["final"] # "idle") /\ (a = "final" => phase = "final")
  BY <1>1, SaversAlone DEF IInv, Phases, Saving
<1>8. a \in Handlers => request[a] \in 1..requests /\ (request[a] \in Traced => request[a] \in AppliedIn(mem))
  BY <1>1 DEF IInv, AppliedKept
<1>9. Up => acked \cap Traced \subseteq AppliedIn(mem)
  BY DEF IInv, AppliedKept
<1>10. acked' \cap Traced \subseteq AppliedIn(mem) /\ Traced' = Traced
  BY <1>1, <1>7, <1>8, <1>9 DEF Traced
<1>11. TypeOK'
  <2>1. pc' \in [Actors -> {"idle", "update", "snapshot", "truncate", "write"}]
    BY <1>1 DEF IInv, TypeOK
  <2>2. acked' \in SUBSET (1..requests)
    BY <1>1, <1>8 DEF IInv, TypeOK
  <2>3. /\ phase' \in {"off", "running", "draining", "stopSaver", "final", "stopped", "failed"}
        /\ result' \in {"none", "ok", "error"}
    BY <1>1, <1>5 DEF IInv, TypeOK
  <2>4. lock' \in {"free"} \cup {h \in Handlers : pc'[h] = "update"}
    BY <1>1, <1>2, <1>3 DEF IInv, TypeOK, Saving
  <2>5. saved' \in File /\ cut' \in BOOLEAN
    <3>1. saved' \in {saved, Content(snap[a])} /\ cut' \in {cut, TRUE, FALSE}
      BY DEF SaveMarshalFails, SaveWrite, SaveDiskFails, saves
    <3>2. Content(snap[a]) \in File
      BY MemoryType DEF IInv, TypeOK
    <3> QED BY <3>1, <3>2 DEF IInv, TypeOK
  <2> QED BY <1>1, <1>4, <1>6, <2>1, <2>2, <2>3, <2>4, <2>5 DEF IInv, TypeOK
<1>12. Phases'
  <2>1. CASE a = "final"
    BY <2>1, <1>1, <1>2, <1>3, <1>7 DEF IInv, Phases, Up, Saving
  <2>2. CASE a # "final"
    BY <2>2, <1>1, <1>2, <1>3, <1>7 DEF IInv, Phases, Up, Saving
  <2> QED BY <2>1, <2>2
<1>13. NobodyLeft'
  BY <1>1, <1>2, <1>3, <1>7 DEF IInv, NobodyLeft, AllIdle
<1>14. AloneAtFile'
  <2>1. mode = "periodic" => \A x \in Actors : pc'[x] # "write"
    BY <1>1, <1>2, SaversAlone DEF Saving
  <2>2. serveErr = "none" => pc'["final"] = "idle"
    BY <1>1, <1>2, <1>3, <1>7, SaversAlone
  <2> QED BY <1>1, <2>1, <2>2 DEF AloneAtFile
<1>15. CleanFile'
  <2> SUFFICES ASSUME result' = "ok", phase' \in {"stopped", "off"} PROVE CleanFile'
    BY DEF CleanFile
  <2>1. a = "final" /\ phase' = "stopped"
    BY <1>1, SaversAlone
  <2>2. SaveWrite(a) /\ serveErr = "none" /\ pc["final"] = "write"
    BY <1>5, <2>1 DEF SaveWrite
  <2>3. file = NoData("empty") /\ snap["final"] = mem
    BY <2>2 DEF IInv, AloneAtFile
  <2>4. file' = Content(mem)
    BY <2>1, <2>2, <2>3, EmptyMemoryType DEF SaveWrite, Overwrite
  <2>5. file'.kind = "content" /\ file'.data = mem
    BY <2>4, MemoryType DEF IInv, TypeOK
  <2> QED BY <1>1, <1>10, <2>2, <2>5 DEF CleanFile, AppliedIn
<1>16. PeriodicFileReadable'
  <2> SUFFICES ASSUME mode = "periodic", crashes = 0, diskErrors' = 0 PROVE file'.kind # "torn"
    BY <1>1 DEF PeriodicFileReadable
  <2>1. CASE SaveWrite(a)
    <3>1. file = NoData("empty")
      BY <2>1 DEF IInv, AloneAtFile, SaveWrite
    <3>2. file' = Content(snap[a])
      BY <2>1, <3>1, EmptyMemoryType DEF SaveWrite, Overwrite
    <3> QED BY <3>2, MemoryType DEF IInv, TypeOK
  <2>2. CASE UNCHANGED file
    BY <1>6, <2>2 DEF IInv, PeriodicFileReadable
  <2> QED BY <1>6, <2>1, <2>2
<1>17. AppliedKept'
  <2>1. ASSUME NEW h \in Handlers, pc'[h] \in Saving
        PROVE  request[h] \in 1..requests /\ (request[h] \in Traced => request[h] \in AppliedIn(mem))
    BY <1>2, <1>3, <2>1 DEF IInv, AppliedKept, Saving
  <2> QED BY <1>1, <1>10, <2>1 DEF AppliedKept, AppliedIn
<1>18. BatchesWhole' /\ KnownIn(file.data)' /\ \A x \in Actors : KnownIn(snap[x])'
  BY <1>1, <1>4, FileKept
<1>19. (\A h \in Handlers : Updating(h)') /\ MemoryWhole' /\ KnownIn(mem)'
  <2>1. \A h \in Handlers : pc'[h] = "update" <=> pc[h] = "update"
    BY <1>1, <1>2, <1>3 DEF Saving
  <2> QED BY <1>1, <2>1, MemoryKept
<1> QED BY <1>11, <1>12, <1>13, <1>14, <1>15, <1>16, <1>17, <1>18, <1>19 DEF IInv, NothingFromFuture

\* The ticker goroutine and Run up to the final save: no data changes.
LEMMA LifecyclePreserves ==
  ASSUME IInv,
         \/ Tick \/ SaverExits \/ Cancel \/ (\E ts \in SUBSET Transports : ServeFails(ts))
         \/ DrainCompletes \/ DrainDeadline \/ FinalSave
  PROVE  IInv'
<1> DEFINE Begins == phase = "running" /\ phase' = "draining" /\ UNCHANGED <<pc, saver, serveErr>>
                     /\ broken' \in SUBSET Transports
           Stops  == /\ phase = "draining" /\ phase' = "stopSaver" /\ UNCHANGED <<pc, broken>>
                     /\ saver' = IF saver = "on" THEN "stopping" ELSE saver
                     /\ serveErr' \in {"none", "serve", "deadline"}
                     /\ serveErr' = "none" => broken = {} /\ AllIdle
<1>0. UNCHANGED <<mode, mem, lock, file, snap, request, position, result, requests, batchOf, acked,
                  saved, cut, diskErrors, crashes, boots>>
  BY DEF Tick, SaverExits, Cancel, ServeFails, DrainCompletes, DrainDeadline, TransportsStopped, FinalSave, saves, faults
<1>01. ASSUME Cancel \/ \E ts \in SUBSET Transports : ServeFails(ts)
       PROVE  Begins
  BY <1>01 DEF Cancel, ServeFails, IInv, TypeOK
<1>02. ASSUME DrainCompletes \/ DrainDeadline
       PROVE  Stops
  BY <1>02 DEF DrainCompletes, DrainDeadline, TransportsStopped, Returned, AllIdle
<1>1. /\ UNCHANGED <<mode, mem, lock, file, snap, request, position, result, requests, batchOf, acked,
                     saved, cut, diskErrors, crashes, boots>>
      /\ \/ Tick /\ UNCHANGED <<phase, saver, broken, serveErr>> /\ pc' = [pc EXCEPT !["ticker"] = "snapshot"]
         \/ SaverExits /\ UNCHANGED <<pc, phase, broken, serveErr>> /\ saver' = "off"
         \/ Begins
         \/ Stops
         \/ FinalSave /\ UNCHANGED <<saver, broken, serveErr>> /\ phase' = "final" /\ pc' = [pc EXCEPT !["final"] = "snapshot"]
  BY <1>0, <1>01, <1>02 DEF Tick, SaverExits, FinalSave
<1>2. "final" \in Actors /\ "ticker" \in Actors /\ Handlers \subseteq Actors
      /\ "final" \notin Handlers /\ "ticker" \notin Handlers
  BY SaversAssumption DEF Actors
<1>3. /\ \A h \in Handlers : pc'[h] = pc[h]
      /\ \A x \in Actors : pc'[x] = "write" => pc[x] = "write"
      /\ pc'["final"] # pc["final"] => pc'["final"] = "snapshot" /\ FinalSave
      /\ pc'["ticker"] # pc["ticker"] => pc'["ticker"] = "snapshot" /\ Tick
  BY <1>1, <1>2 DEF IInv, TypeOK
<1>4. TypeOK'
  <2>1. pc' \in [Actors -> {"idle", "update", "snapshot", "truncate", "write"}]
    BY <1>1, <1>2 DEF IInv, TypeOK
  <2>2. /\ phase' \in {"off", "running", "draining", "stopSaver", "final", "stopped", "failed"}
        /\ saver' \in {"on", "stopping", "off"} /\ serveErr' \in {"none", "serve", "deadline"}
        /\ broken' \subseteq Transports
    BY <1>1 DEF IInv, TypeOK
  <2>3. lock' \in {"free"} \cup {h \in Handlers : pc'[h] = "update"}
    BY <1>1, <1>3 DEF IInv, TypeOK
  <2> QED BY <1>1, <2>1, <2>2, <2>3 DEF IInv, TypeOK
<1>5. Phases'
  <2>1. CASE Tick
    <3>1. saver # "off" /\ Up /\ phase \notin {"final", "stopped"}
      BY <2>1 DEF Tick, IInv, Phases
    <3>2. UNCHANGED <<phase, saver, serveErr>> /\ pc'["final"] = pc["final"] /\ pc'["ticker"] = "snapshot"
      BY <2>1, <1>2 DEF Tick, IInv, TypeOK
    <3> QED BY <1>1, <1>3, <3>1, <3>2 DEF IInv, Phases, Up
  <2>2. CASE SaverExits
    <3>1. saver = "stopping" /\ pc["ticker"] = "idle" /\ Up /\ UNCHANGED <<pc, phase, serveErr>> /\ saver' = "off"
      BY <2>2 DEF SaverExits, IInv, Phases
    <3> QED BY <1>1, <3>1 DEF IInv, Phases, Up
  <2>3. CASE Begins
    BY <1>1, <2>3 DEF IInv, Phases, Up
  <2>4. CASE Stops
    BY <1>1, <2>4 DEF IInv, Phases, Up
  <2>5. CASE FinalSave
    <3>1. /\ phase = "stopSaver" /\ saver = "off" /\ phase' = "final" /\ UNCHANGED <<saver, serveErr>>
          /\ pc'["final"] = "snapshot" /\ pc'["ticker"] = pc["ticker"]
      BY <2>5, <1>2 DEF FinalSave, SaverDone, IInv, TypeOK
    <3> QED BY <1>1, <1>3, <3>1 DEF IInv, Phases, Up
  <2> QED BY <1>1, <2>1, <2>2, <2>3, <2>4, <2>5
<1>6. NobodyLeft'
  <2>1. ASSUME serveErr' = "none", AllIdle PROVE lock = "free" /\ AllIdle'
    BY <1>3, <2>1 DEF AllIdle, IInv, TypeOK
  <2>2. FinalSave => phase = "stopSaver"
    BY DEF FinalSave
  <2> QED BY <1>1, <1>3, <2>1, <2>2 DEF IInv, NobodyLeft, AllIdle
<1>7. AloneAtFile'
  <2>1. ASSUME serveErr' = "none", pc'["final"] \in {"truncate", "write"}
        PROVE  serveErr = "none" /\ pc["final"] = pc'["final"]
    <3>1. pc["final"] = pc'["final"] /\ phase = "final"
      BY <1>3, <2>1 DEF IInv, Phases
    <3> QED BY <1>1, <2>1, <3>1
  <2> QED BY <1>1, <1>3, <2>1 DEF IInv, AloneAtFile
<1>8. CleanFile'
  <2>1. phase' \in {"stopped", "off"} => UNCHANGED <<phase, serveErr>>
    BY <1>1
  <2> QED BY <1>1, <2>1 DEF IInv, CleanFile, Traced, AppliedIn
<1>9. PeriodicFileReadable'
  BY <1>1 DEF IInv, PeriodicFileReadable
<1>10. AppliedKept'
  <2>1. Up' => Up
    BY <1>1 DEF Up, FinalSave
  <2> QED BY <1>1, <1>3, <2>1 DEF IInv, AppliedKept, Traced, AppliedIn
<1>11. BatchesWhole' /\ KnownIn(file.data)' /\ \A x \in Actors : KnownIn(snap[x])'
  BY <1>1, FileKept
<1>12. (\A h \in Handlers : Updating(h)') /\ MemoryWhole' /\ KnownIn(mem)'
  BY <1>1, <1>3, MemoryKept
<1> QED BY <1>4, <1>5, <1>6, <1>7, <1>8, <1>9, <1>10, <1>11, <1>12 DEF IInv, NothingFromFuture

\* server.New: memory is what the file says, acknowledged requests included
\* after a clean stop.
LEMMA BootPreserves ==
  ASSUME IInv, Boot
  PROVE  IInv'
<1>1. /\ phase = "off" /\ ~Up
      /\ UNCHANGED <<mode, lock, file, pc, snap, request, position, broken, serveErr, requests, batchOf,
                     saved, cut, diskErrors, crashes>>
      /\ \/ phase' = "failed" /\ UNCHANGED <<mem, saver, result, acked>>
         \/ /\ phase' = "running" /\ result' = "none"
            /\ saver' \in {"on", "off"}
            /\ mem' = IF Restore THEN Loaded(file) ELSE EmptyMemory
            /\ acked' = IF Restore /\ result = "ok" THEN acked ELSE {}
  BY DEF Boot, Start, Up, saves
<1>2. pc = Idle /\ lock = "free" /\ saver = "off" /\ broken = {} /\ serveErr = "none"
  BY <1>1 DEF IInv, Phases
<1>3. /\ \A a \in Actors : pc'[a] = "idle"
      /\ Handlers \subseteq Actors /\ "final" \in Actors /\ "ticker" \in Actors
  BY <1>1, <1>2 DEF Idle, Actors
<1>4. mem' \in {mem, file.data, EmptyMemory} /\ mem' \in Memory
  BY <1>1, EmptyMemoryType DEF Loaded, IInv, TypeOK, File
<1>5. TypeOK'
  <2>1. boots' \in 0..MaxBoots
    BY BoundsAssumption DEF Boot, IInv, TypeOK
  <2> QED BY <1>1, <1>4, <2>1 DEF IInv, TypeOK
<1>6. Phases' /\ NobodyLeft' /\ AloneAtFile'
  BY <1>1, <1>2, <1>3 DEF Phases, NobodyLeft, AloneAtFile, Up, Saving
<1>7. CleanFile' /\ PeriodicFileReadable'
  BY <1>1 DEF IInv, CleanFile, PeriodicFileReadable
<1>8. AppliedKept'
  <2>1. Up' => acked' \cap Traced \subseteq AppliedIn(mem')
    <3> SUFFICES ASSUME Up' PROVE acked' \cap Traced \subseteq AppliedIn(mem')
      OBVIOUS
    <3>1. CASE Restore /\ result = "ok"
      <4>1. file.kind = "content" /\ acked \cap Traced \subseteq AppliedIn(file.data)
        BY <1>1, <3>1 DEF IInv, CleanFile
      <4>2. mem' = file.data /\ acked' = acked
        BY <1>1, <3>1, <4>1 DEF Loaded, Up
      <4> QED BY <4>1, <4>2
    <3>2. CASE ~(Restore /\ result = "ok")
      BY <1>1, <3>2 DEF Up
    <3> QED BY <3>1, <3>2
  <2>2. Traced' = Traced
    BY <1>1 DEF Traced
  <2> QED BY <1>3, <2>1, <2>2 DEF AppliedKept, AppliedIn, Saving
<1>9. BatchesWhole' /\ KnownIn(file.data)' /\ \A x \in Actors : KnownIn(snap[x])'
  BY <1>1, FileKept
<1>10. \A h \in Handlers : Updating(h)'
  BY <1>3 DEF Updating
<1>11. MemoryWhole' /\ KnownIn(mem)'
  <2>1. ASSUME NEW r \in 1..requests PROVE WholeRequest(mem', r, batchOf[r])
    <3>1. WholeRequest(mem, r, batchOf[r])
      BY <1>2, SaversAssumption DEF IInv, MemoryWhole
    <3>2. WholeRequest(file.data, r, batchOf[r])
      BY DEF IInv, BatchesWhole, Whole, WholeRequest
    <3>3. WholeRequest(EmptyMemory, r, batchOf[r])
      BY EmptyWhole DEF IInv, TypeOK
    <3> QED BY <1>4, <3>1, <3>2, <3>3
  <2>2. \A c \in Counters : mem'.counters[c] \subseteq 1..requests
    BY <1>4, EmptyMemoryType DEF IInv, NothingFromFuture, KnownIn
  <2> QED BY <1>1, <2>1, <2>2 DEF MemoryWhole, KnownIn, WholeRequest
<1> QED BY <1>5, <1>6, <1>7, <1>8, <1>9, <1>10, <1>11 DEF IInv, NothingFromFuture

\* The process ends, by itself or in a crash.
LEMMA EndPreserves ==
  ASSUME IInv, Exit \/ Crash
  PROVE  IInv'
<1>1. /\ phase' = "off" /\ mem' = EmptyMemory /\ lock' = "free" /\ pc' = Idle
      /\ snap' = [a \in Actors |-> EmptyMemory]
      /\ request' = [h \in Handlers |-> 0] /\ position' = [h \in Handlers |-> 0]
      /\ saver' = "off" /\ broken' = {} /\ serveErr' = "none"
      /\ UNCHANGED <<mode, requests, batchOf, acked, saved, diskErrors, boots>> /\ cut' \in {cut, TRUE}
  BY DEF Exit, Crash, ProcessEnds, saves, faults
<1>2. /\ file' \in {file, NoData("torn")}
      /\ \/ Exit /\ phase = "stopped" /\ UNCHANGED <<result, crashes>>
         \/ Crash /\ result' = "none" /\ crashes' = crashes + 1 /\ crashes < MaxCrashes
  BY DEF Exit, Crash, ProcessEnds, faults
<1>20. ASSUME Exit, mode = "periodic" \/ result = "ok"
       PROVE  UNCHANGED file
  <2>1. phase = "stopped"
    BY <1>20 DEF Exit
  <2>2. pc["ticker"] = "idle" /\ pc["final"] = "idle"
    BY <2>1 DEF IInv, Phases
  <2>3. result = "ok" => AllIdle
    BY <2>1 DEF IInv, CleanFile, NobodyLeft
  <2>4. \A a \in Actors : pc[a] # "write"
    BY <1>20, <2>2, <2>3 DEF IInv, Phases, Actors, Saving, AllIdle
  <2> QED BY <1>20, <2>4 DEF Exit, ProcessEnds
<1>3. /\ \A a \in Actors : pc'[a] = "idle"
      /\ Handlers \subseteq Actors /\ "final" \in Actors /\ "ticker" \in Actors
  BY <1>1 DEF Idle, Actors
<1>4. TypeOK'
  <2>1. crashes' \in 0..MaxCrashes
    BY <1>2, BoundsAssumption DEF IInv, TypeOK
  <2>2. file' \in File
    BY <1>2, EmptyMemoryType DEF IInv, TypeOK
  <2>3. request' \in [Handlers -> 0..MaxRequests] /\ position' \in [Handlers -> Nat]
    BY <1>1, BoundsAssumption
  <2>4. pc' \in [Actors -> {"idle", "update", "snapshot", "truncate", "write"}] /\ snap' \in [Actors -> Memory]
    BY <1>1, EmptyMemoryType DEF Idle
  <2>5. result' \in {"none", "ok", "error"}
    BY <1>2 DEF IInv, TypeOK
  <2> QED BY <1>1, <2>1, <2>2, <2>3, <2>4, <2>5, EmptyMemoryType DEF IInv, TypeOK
<1>5. Phases' /\ NobodyLeft' /\ AloneAtFile'
  BY <1>1, <1>3 DEF Phases, NobodyLeft, AloneAtFile, Up, Saving
<1>6. CleanFile'
  BY <1>1, <1>2, <1>20 DEF IInv, CleanFile, Traced, AppliedIn
<1>7. PeriodicFileReadable'
  BY <1>1, <1>2, <1>20, BoundsAssumption DEF IInv, TypeOK, PeriodicFileReadable
<1>8. AppliedKept'
  BY <1>1, <1>3 DEF AppliedKept, Up, Saving
<1>9. BatchesWhole' /\ KnownIn(file.data)' /\ \A x \in Actors : KnownIn(snap[x])'
  <2>1. file'.data \in {file.data, EmptyMemory}
    BY <1>2, EmptyMemoryType
  <2> QED BY <1>1, <2>1, FileKept
<1>10. \A h \in Handlers : Updating(h)'
  BY <1>3 DEF Updating
<1>11. MemoryWhole' /\ KnownIn(mem)'
  <2>1. \A r \in 1..requests : WholeRequest(EmptyMemory, r, batchOf[r])
    BY EmptyWhole DEF IInv, TypeOK
  <2> QED BY <1>1, <2>1, EmptyMemoryType DEF MemoryWhole, KnownIn, WholeRequest
<1> QED BY <1>4, <1>5, <1>6, <1>7, <1>8, <1>9, <1>10, <1>11 DEF IInv, NothingFromFuture

LEMMA StutterPreserves ==
  ASSUME IInv, UNCHANGED vars
  PROVE  IInv'
<1> USE DEF vars
<1>1. TypeOK'
  BY DEF IInv, TypeOK
<1>2. Phases' /\ NobodyLeft' /\ AloneAtFile' /\ PeriodicFileReadable'
  BY DEF IInv, Phases, NobodyLeft, AloneAtFile, PeriodicFileReadable, Up, AllIdle
<1>3. CleanFile' /\ AppliedKept'
  BY DEF IInv, CleanFile, AppliedKept, Traced, AppliedIn, Up
<1>4. BatchesWhole' /\ KnownIn(file.data)' /\ \A x \in Actors : KnownIn(snap[x])'
  BY FileKept
<1>5. (\A h \in Handlers : Updating(h)') /\ MemoryWhole' /\ KnownIn(mem)'
  BY MemoryKept
<1> QED BY <1>1, <1>2, <1>3, <1>4, <1>5 DEF IInv, NothingFromFuture

LEMMA Invariance == Spec => []IInv
<1>1. IInv /\ [Next]_vars => IInv'
  <2> SUFFICES ASSUME IInv, [Next]_vars PROVE IInv'
    OBVIOUS
  <2>1. ASSUME NEW h \in Handlers, Handler(h) PROVE IInv'
    BY <2>1, ReceivePreserves, LockPreserves, ApplyPreserves DEF Handler
  <2>2. ASSUME NEW a \in Actors, Save(a) PROVE IInv'
    BY <2>2, SnapshotPreserves, TruncatePreserves, SaveReturnsPreserves DEF Save
  <2>3. CASE Tick \/ SaverExits \/ Lifecycle
    BY <2>3, LifecyclePreserves, BootPreserves, EndPreserves DEF Lifecycle
  <2>4. CASE Crash
    BY <2>4, EndPreserves
  <2>5. CASE Ended \/ UNCHANGED vars
    BY <2>5, StutterPreserves DEF Ended
  <2> QED BY <2>1, <2>2, <2>3, <2>4, <2>5 DEF Next
<1> QED BY <1>1, InitInv, PTL DEF Spec

-----------------------------------------------------------------------------
(* What the last successful Save has put into the file.                     *)

\* Unless a write was cut short: the file is as the last Save left it, or torn,
\* or someone is writing it; and what that Save, and those in progress, have of
\* the counters is in memory.
KeptInv ==
    /\ cut \/ file = saved \/ file.kind = "torn" \/ \E a \in Actors : pc[a] = "write"
    /\ saved.kind = "content" \/ saved = NoData("absent")
    /\ SavedSurvives
    /\ \A a \in Actors : pc[a] \in {"truncate", "write"} => Within(snap[a], mem)

\* Steps that change nothing of this but may add to memory.
LEMMA MemoryGrows ==
  ASSUME KeptInv, UNCHANGED <<file, snap, saved, cut>>, Up' => Up, Within(mem, mem'),
         \A a \in Actors : pc'[a] \in {"truncate", "write"} => pc'[a] = pc[a],
         \A a \in Actors : pc[a] = "write" => pc'[a] = "write"
  PROVE  KeptInv'
<1>1. \A m : Within(m, mem) => Within(m, mem')
  BY DEF Within
<1>2. SavedSurvives'
  BY <1>1 DEF KeptInv, SavedSurvives, Within
<1>3. \A a \in Actors : pc'[a] \in {"truncate", "write"} => Within(snap[a], mem)'
  BY <1>1 DEF KeptInv, Within
<1> QED BY <1>2, <1>3 DEF KeptInv

LEMMA KeptStep == IInv /\ KeptInv /\ [Next]_vars => KeptInv'
<1> SUFFICES ASSUME IInv, KeptInv, [Next]_vars PROVE KeptInv'
  OBVIOUS
<1>0. pc \in [Actors -> {"idle", "update", "snapshot", "truncate", "write"}] /\ snap \in [Actors -> Memory]
      /\ Handlers \subseteq Actors /\ {"ticker", "final"} \subseteq Actors
  BY DEF IInv, TypeOK, Actors
<1>1. Within(mem, mem)
  BY DEF Within
<1>2. ASSUME NEW h \in Handlers, NEW b \in Batches, Receive(h, b) PROVE KeptInv'
  <2>1. /\ pc[h] = "idle" /\ pc' = [pc EXCEPT ![h] = "update"]
        /\ UNCHANGED <<mem, file, snap, phase, saved, cut>>
    BY <1>2 DEF Receive, saves
  <2> QED BY <1>0, <1>1, <2>1, MemoryGrows DEF Up
<1>3. ASSUME NEW h \in Handlers, Lock(h) PROVE KeptInv'
  <2>1. UNCHANGED <<pc, mem, file, snap, phase, saved, cut>>
    BY <1>3 DEF Lock, saves
  <2> QED BY <1>1, <2>1, MemoryGrows DEF Up
<1>4. ASSUME NEW h \in Handlers, ApplyMetric(h) PROVE KeptInv'
  <2> DEFINE r == request[h]
             b == batchOf[request[h]]
             k == position[h] + 1
  <2>1. /\ pc[h] = "update" /\ mem' = Apply(mem, b[k], r)
        /\ \/ UNCHANGED pc \/ pc' = [pc EXCEPT ![h] = "snapshot"] \/ pc' = [pc EXCEPT ![h] = "idle"]
        /\ UNCHANGED <<file, snap, phase, saved, cut>>
    BY <1>4 DEF ApplyMetric, saves
  <2>2. r \in Ids /\ b[k] \in Metric /\ mem \in Memory
    <3>1. r \in 1..requests /\ position[h] \in Nat /\ position[h] < Len(b) /\ requests \in 0..MaxRequests
      BY <2>1 DEF IInv, Updating, TypeOK
    <3>2. b \in Batches
      BY <3>1 DEF IInv, TypeOK
    <3>3. b \in Seq(Metric) /\ Len(b) \in Nat
      BY <3>2, BatchType
    <3> QED BY <3>1, <3>3, BoundsAssumption DEF Ids, IInv, TypeOK
  <2> HIDE DEF r, b, k
  <2>3. Within(mem, mem')
    <3>1. \A c \in Counters : Apply(mem, b[k], r).counters[c] =
            IF b[k].type = "counter" /\ b[k].id = c THEN mem.counters[c] \cup {r} ELSE mem.counters[c]
      BY <2>2, ApplyType
    <3> QED BY <2>1, <3>1 DEF Within
  <2> QED BY <1>0, <2>1, <2>3, MemoryGrows DEF Up
<1>5. ASSUME NEW a \in Actors, SaveSnapshot(a) PROVE KeptInv'
  <2>1. /\ pc[a] = "snapshot" /\ snap' = [snap EXCEPT ![a] = mem] /\ pc' = [pc EXCEPT ![a] = "truncate"]
        /\ UNCHANGED <<mem, file, phase, saved, cut>>
    BY <1>5 DEF SaveSnapshot, saves
  <2>2. \A x \in Actors : /\ pc'[x] = IF x = a THEN "truncate" ELSE pc[x]
                          /\ snap'[x] = IF x = a THEN mem ELSE snap[x]
    BY <1>0, <2>1
  <2>3. \A x \in Actors : pc'[x] \in {"truncate", "write"} => Within(snap'[x], mem)
    BY <1>1, <2>2 DEF KeptInv
  <2>4. SavedSurvives'
    BY <2>1 DEF KeptInv, SavedSurvives, Up, Within
  <2> QED BY <2>1, <2>2, <2>3, <2>4 DEF KeptInv, Within
<1>6. ASSUME NEW a \in Actors, SaveTruncate(a) PROVE KeptInv'
  <2>1. /\ pc[a] = "truncate" /\ pc' = [pc EXCEPT ![a] = "write"]
        /\ UNCHANGED <<mem, snap, phase, saved, cut>>
    BY <1>6 DEF SaveTruncate, saves
  <2>2. \A x \in Actors : pc'[x] = IF x = a THEN "write" ELSE pc[x]
    BY <1>0, <2>1
  <2>3. \A x \in Actors : pc'[x] \in {"truncate", "write"} => Within(snap'[x], mem)
    BY <2>1, <2>2 DEF KeptInv
  <2>4. SavedSurvives'
    BY <2>1 DEF KeptInv, SavedSurvives, Up, Within
  <2> QED BY <2>1, <2>2, <2>3, <2>4 DEF KeptInv, Within
<1>7. ASSUME NEW a \in Actors, SaveMarshalFails(a) \/ SaveWrite(a) \/ SaveDiskFails(a) PROVE KeptInv'
  <2>1. /\ pc[a] \in Saving /\ pc' = [pc EXCEPT ![a] = "idle"] /\ UNCHANGED <<mem, snap>>
        /\ \/ pc[a] # "write" /\ UNCHANGED <<file, saved, cut>>
           \/ pc[a] = "write" /\ cut' = TRUE /\ saved' = saved
           \/ /\ pc[a] = "write" /\ cut' = FALSE /\ saved' = Content(snap[a])
              /\ file' \in {Content(snap[a]), NoData("torn")}
    BY <1>7 DEF SaveMarshalFails, MarshalFailed, SaveWrite, SaveDiskFails, SaveReturns, Overwrite, Saving, saves, faults
  <2>2. \A x \in Actors : pc'[x] = IF x = a THEN "idle" ELSE pc[x]
    BY <1>0, <2>1
  <2>3. \A x \in Actors : pc'[x] \in {"truncate", "write"} => Within(snap'[x], mem)
    BY <2>1, <2>2 DEF KeptInv
  <2>4. Up
    BY <2>1, SaversAlone
  <2>5. SavedSurvives'
    <3>1. CASE saved' = saved /\ (cut' = cut \/ cut' = TRUE)
      BY <2>1, <2>4, <3>1 DEF KeptInv, SavedSurvives, Within
    <3>2. CASE pc[a] = "write" /\ saved' = Content(snap[a])
      <4>1. Within(snap[a], mem) /\ saved'.data = snap[a]
        BY <1>0, <3>2, MemoryType DEF KeptInv
      <4> QED BY <2>1, <4>1 DEF SavedSurvives, Within
    <3> QED BY <2>1, <3>1, <3>2
  <2>6. cut' \/ file' = saved' \/ file'.kind = "torn" \/ \E x \in Actors : pc'[x] = "write"
    BY <2>1, <2>2, EmptyMemoryType DEF KeptInv
  <2>7. saved'.kind = "content" \/ saved' = NoData("absent")
    BY <1>0, <2>1, MemoryType DEF KeptInv
  <2> QED BY <2>1, <2>3, <2>5, <2>6, <2>7 DEF KeptInv, Within
<1>8. CASE Tick \/ FinalSave
  <2>1. /\ UNCHANGED <<mem, file, snap, saved, cut>>
        /\ Up' => Up
        /\ \/ pc["ticker"] = "idle" /\ pc' = [pc EXCEPT !["ticker"] = "snapshot"]
           \/ pc["final"] = "idle" /\ pc' = [pc EXCEPT !["final"] = "snapshot"]
    BY <1>8 DEF Tick, FinalSave, Up, saves, IInv, Phases
  <2> QED BY <1>0, <1>1, <2>1, MemoryGrows
<1>9. CASE SaverExits \/ Cancel \/ (\E ts \in SUBSET Transports : ServeFails(ts)) \/ DrainCompletes \/ DrainDeadline
           \/ UNCHANGED vars
  <2>1. UNCHANGED <<pc, mem, file, snap, saved, cut>> /\ (Up' => Up)
    BY <1>9 DEF SaverExits, Cancel, ServeFails, DrainCompletes, DrainDeadline, TransportsStopped, vars, saves, Up
  <2> QED BY <1>1, <2>1, MemoryGrows
<1>10. CASE Boot
  <2>1. /\ pc = Idle /\ UNCHANGED <<file, pc, snap, saved, cut>>
        /\ Up' => /\ ~(Restore /\ file.kind = "torn")
                  /\ Restore => mem' = Loaded(file)
    BY <1>10 DEF Boot, Start, Up, saves, IInv, Phases
  <2>2. \A a \in Actors : pc[a] = "idle"
    BY <2>1 DEF Idle
  <2>3. SavedSurvives'
    <3> SUFFICES ASSUME Up', Restore, ~cut PROVE Within(saved.data, mem')
      BY <2>1 DEF SavedSurvives, Within
    <3>1. file = saved /\ mem' = Loaded(file)
      BY <2>1, <2>2 DEF KeptInv
    <3>2. CASE file.kind = "content"
      BY <3>1, <3>2 DEF Loaded, Within
    <3>3. CASE file.kind # "content"
      <4>1. saved = NoData("absent")
        BY <3>1, <3>3 DEF KeptInv
      <4> QED BY <4>1, EmptyMemoryType DEF Within
    <3> QED BY <3>2, <3>3
  <2> QED BY <2>1, <2>2, <2>3 DEF KeptInv, Within
<1>11. CASE Exit \/ Crash
  <2>1. /\ phase' = "off" /\ pc' = Idle /\ saved' = saved
        /\ cut' = TRUE \/ (UNCHANGED <<file, cut>> /\ \A a \in Actors : pc[a] # "write")
    BY <1>11 DEF Exit, Crash, ProcessEnds
  <2>2. \A a \in Actors : pc'[a] = "idle"
    BY <2>1 DEF Idle
  <2>3. SavedSurvives'
    BY <2>1 DEF SavedSurvives, Up
  <2> QED BY <2>1, <2>2, <2>3 DEF KeptInv, Within
<1> QED BY <1>2, <1>3, <1>4, <1>5, <1>6, <1>7, <1>8, <1>9, <1>10, <1>11
        DEF Next, Handler, Save, Lifecycle, Ended

-----------------------------------------------------------------------------
(* What the invariant says.                                                 *)

\* Every variable keeps its type: the mutex belongs to a handler that updates,
\* whatever handlers, periodic saves, shutdown and crashes interleave.
THEOREM TypeCorrect == Spec => []TypeOK
<1>1. IInv => TypeOK
  BY DEF IInv
<1> QED BY <1>1, Invariance, PTL

\* Server.Run returns nil only if the file holds exactly the final memory: the
\* drain, stopPeriodicSave and the final Save leave nobody to change either.
THEOREM CleanStopAlways == Spec => []CleanStopSavesAll
<1>1. IInv => CleanStopSavesAll
  <2> SUFFICES ASSUME IInv, phase = "stopped", result = "ok" PROVE file = Content(mem)
    BY DEF CleanStopSavesAll
  <2>1. file.kind = "content" /\ file.data = mem /\ file \in File
    BY DEF IInv, CleanFile, TypeOK
  <2> QED BY <2>1 DEF Content, File
<1> QED BY <1>1, Invariance, PTL

\* An acknowledged update is never lost while the server runs, nor across any
\* number of clean stops and starts with Restore.
THEOREM AckedNotLostAlways == Spec => []AckedNotLost
<1>1. IInv => AckedNotLost
  BY DEF IInv, AppliedKept, AckedNotLost
<1> QED BY <1>1, Invariance, PTL

\* The file and every snapshot contain each batch as a whole or not at all: one
\* critical section of UpdateMetrics, and Snapshot outside of it.
THEOREM BatchesWholeAlways == Spec => []BatchesWhole
<1>1. IInv => BatchesWhole
  BY DEF IInv
<1> QED BY <1>1, Invariance, PTL

\* In periodic mode Saves never overlap, so the file is readable unless a crash
\* or the disk broke it.
THEOREM PeriodicFileAlways == Spec => []PeriodicFileReadable
<1>1. IInv => PeriodicFileReadable
  BY DEF IInv
<1> QED BY <1>1, Invariance, PTL

\* What a successful Save has put into the file is never missing from a process
\* that started from it, in any number of crashes, disk errors and restarts,
\* unless a write was cut short and no Save has succeeded since.
THEOREM SavedSurvivesAlways == Spec => []SavedSurvives
<1>1. Init => KeptInv
  BY DEF Init, KeptInv, SavedSurvives, Up, Idle
<1>2. KeptInv => SavedSurvives
  BY DEF KeptInv
<1> QED BY <1>1, <1>2, KeptStep, Invariance, PTL DEF Spec
=============================================================================
