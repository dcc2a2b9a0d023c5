------------------------ MODULE ServerLifecycleProofs ------------------------
(***************************************************************************)
(* Proofs about ServerLifecycle, for any number of requests in progress    *)
(* and whether or not the file at FileStoragePath can fail to load.        *)
(***************************************************************************)
EXTENDS ServerLifecycle, TLAPS

-----------------------------------------------------------------------------
(* The inductive invariant, in parts.                                       *)

\* What holds of every variable by itself (TypeOK also ties the periodic
\* goroutine to the shutdown function, which needs NewPhase).
Types ==
    /\ cfg \in Config
    /\ main \in NewSteps \cup CloseSteps
                  \cup {"first", "second", "stopPersistence", "exited", "panicked"}
    /\ built \in BOOLEAN
    /\ open \subseteq Resources
    /\ shutdownFn \in {"noop", "save", "nil"}
    /\ cleanupFn \in {"noop", "closeFile", "nil"}
    /\ onceDone \in BOOLEAN /\ saves \in Nat
    /\ signalled \in BOOLEAN /\ cancelled \in BOOLEAN
    /\ serve \in [Transports -> {"off", "starting", "accepting", "ended"}]
    /\ serveErr \in [Transports -> {"none", "closed", "failed"}]
    /\ trans \in [Transports -> {"off", "select", "shutdown", "stop", "await", "returned"}]
    /\ transErr \in [Transports -> BOOLEAN]
    /\ closing \in [Transports -> BOOLEAN]
    /\ active \in [Transports -> 0..MaxActive]

\* While New runs there is no server, and without one nothing serves and
\* there is nothing to save.
NewPhase ==
    /\ main \in NewSteps => /\ ~built /\ ~onceDone /\ shutdownFn = "noop"
                            /\ \A t \in Transports : ~closing[t]
    /\ main \in {"first", "second", "stopPersistence"} => built
    /\ ~built => /\ shutdownFn # "save" /\ "saver" \notin open
                 /\ \A t \in Transports : serve[t] = "off" /\ trans[t] = "off"
    /\ built => \A t \in Transports : serve[t] # "off" /\ trans[t] # "off"

\* persistenceOnce: Run's call of stopPersistence comes first when there is a
\* server, and the final save and the end of the periodic goroutine come with
\* whichever call was first.
OnceSaves ==
    /\ saves = IF onceDone /\ shutdownFn = "save" THEN 1 ELSE 0
    /\ main \in {"first", "second", "stopPersistence"} => ~onceDone
    /\ main \in {"closeTransports", "closeAudit", "closeDB", "exited"} => onceDone
    /\ main = "closePersistence" => (onceDone <=> built)
    /\ main = "panicked" => shutdownFn = "nil"
    /\ shutdownFn = "nil" => BadFile /\ ~built
    /\ "saver" \in open => shutdownFn = "save" /\ ~onceDone

\* Past serveTransports both transports have returned.
RunReturned ==
    built /\ main \in CloseSteps \cup {"stopPersistence", "exited"} => BothReturned

\* Each Close step has released its own resource, and cleanupAudit is the
\* closing function whenever the audit file is open.
CloseReleases ==
    /\ main \in {"closeAudit", "closeDB", "exited"}
          => "httpListener" \notin open /\ "grpcListener" \notin open
    /\ "auditFile" \in open => cleanupFn = "closeFile" /\ main \notin {"security", "database", "audit"}
    /\ main \in {"closeDB", "exited"} => "auditFile" \notin open
    /\ main = "exited" => "db" \notin open

\* A server closes before its Serve says so, a transport in its select has not
\* begun to close, and one that left without an error has closed and drained.
Drains(t) ==
    /\ serve[t] = "ended" <=> serveErr[t] # "none"
    /\ serveErr[t] = "closed" => closing[t]
    /\ trans[t] = "select" => ~closing[t]
    /\ trans[t] \in {"shutdown", "stop", "await"} => closing[t]
    /\ trans[t] = "await" => active[t] = 0
    /\ trans[t] = "returned" /\ ~transErr[t] => closing[t] /\ active[t] = 0

IInv ==
    /\ Types /\ NewPhase /\ OnceSaves /\ RunReturned /\ CloseReleases
    /\ \A t \in Transports : Drains(t)

-----------------------------------------------------------------------------
(* The invariant is inductive.                                              *)

LEMMA InitInv == Init => IInv
<1> SUFFICES ASSUME Init PROVE IInv
  OBVIOUS
<1>1. Types
  <2>1. built \in BOOLEAN /\ onceDone \in BOOLEAN /\ signalled \in BOOLEAN /\ cancelled \in BOOLEAN
    BY DEF Init
  <2>2. transErr \in [Transports -> BOOLEAN] /\ closing \in [Transports -> BOOLEAN]
    BY DEF Init
  <2> QED BY <2>1, <2>2, MaxActiveAssumption DEF Init, Types, NewSteps
<1>2. NewPhase
  <2>1. \A t \in Transports : serve[t] = "off" /\ trans[t] = "off" /\ ~closing[t]
    BY DEF Init
  <2>2. shutdownFn = "noop" /\ main = "security" /\ ~built /\ ~onceDone /\ "saver" \notin open
    BY DEF Init
  <2> QED BY <2>1, <2>2 DEF NewPhase
<1>3. OnceSaves /\ RunReturned /\ CloseReleases
  BY DEF Init, OnceSaves, RunReturned, CloseReleases, CloseSteps
<1>4. \A t \in Transports : Drains(t)
  BY DEF Init, Drains
<1> QED BY <1>1, <1>2, <1>3, <1>4 DEF IInv

\* The steps of server.New but the last: a resource may be acquired, and main
\* goes to the next step or to Close.
LEMMA NewStepPreserves ==
  ASSUME IInv, NewSecurity \/ NewDatabase \/ NewAudit \/ NewGRPCServer
               \/ NewListen("http", "listenHTTP", "listenGRPC")
               \/ NewListen("grpc", "listenGRPC", "persistence")
  PROVE  IInv'
<1> USE DEF NewSteps, CloseSteps, saveVars, ctxVars, tranVars
<1> USE DEF NewSecurity, NewDatabase, NewAudit, NewGRPCServer, NewListen, Listener, NewContinues, NewFails
<1>1. /\ UNCHANGED <<cfg, built, shutdownFn, saveVars, ctxVars, tranVars>>
      /\ main \in NewSteps /\ main' \in (NewSteps \ {"security"}) \cup {"closePersistence"}
      /\ open' \in {open, open \cup {"db"}, open \cup {"auditFile"},
                    open \cup {"httpListener"}, open \cup {"grpcListener"}}
  OBVIOUS
<1>2. Types'
  BY <1>1 DEF IInv, Types, Resources
<1>3. NewPhase'
  BY <1>1 DEF IInv, NewPhase
<1>4. OnceSaves' /\ RunReturned'
  BY <1>1 DEF IInv, NewPhase, OnceSaves, RunReturned
<1>5. CloseReleases'
  BY DEF IInv, CloseReleases
<1>6. \A t \in Transports : Drains(t)'
  BY <1>1 DEF IInv, Drains
<1> QED BY <1>2, <1>3, <1>4, <1>5, <1>6 DEF IInv

\* setupFilePersistence, and New returning the server to Run.
LEMMA NewPersistencePreserves ==
  ASSUME IInv, NewPersistence
  PROVE  IInv'
<1> USE DEF NewSteps, CloseSteps, saveVars, ctxVars, tranVars, NewPersistence, SetupReturns, NewFails
<1>1. Types'
  <2>1. built' \in BOOLEAN
    BY DEF IInv, Types
  <2>2. shutdownFn' \in {"noop", "save", "nil"} /\ open' \in {open, open \cup {"saver"}}
    BY DEF IInv, Types
  <2>3. open' \subseteq Resources
    BY <2>2 DEF IInv, Types, Resources
  <2>4. /\ serve' \in [Transports -> {"off", "starting", "accepting", "ended"}]
        /\ trans' \in [Transports -> {"off", "select", "shutdown", "stop", "await", "returned"}]
    BY DEF IInv, Types
  <2> QED BY <2>1, <2>2, <2>3, <2>4 DEF IInv, Types
<1>2. NewPhase'
  <2>1. CASE NewFails
    BY <2>1 DEF IInv, NewPhase
  <2>2. CASE main' = "first"
    BY <2>2 DEF IInv, NewPhase
  <2> QED BY <2>1, <2>2
<1>3. OnceSaves'
  BY DEF IInv, Types, NewPhase, OnceSaves
<1>4. RunReturned' /\ CloseReleases'
  BY DEF IInv, NewPhase, RunReturned, CloseReleases
<1>5. \A t \in Transports : Drains(t)'
  BY DEF IInv, Types, NewPhase, Drains
<1> QED BY <1>1, <1>2, <1>3, <1>4, <1>5 DEF IInv

\* A step of a transport's goroutines touches only that transport, and closes
\* at most its listener.
LEMMA TransportPreserves ==
  ASSUME IInv, main \notin {"exited", "panicked"},
         NEW t \in Transports, Serve(t) \/ Request(t) \/ Transport(t)
  PROVE  IInv'
<1> USE DEF newVars, saveVars, ctxVars
<1>1. /\ UNCHANGED <<main, newVars, saveVars, ctxVars>>
      /\ open' \in {open, open \ {Listener(t)}}
      /\ \A u \in Transports \ {t} : UNCHANGED <<serve[u], serveErr[u], trans[u], transErr[u], closing[u], active[u]>>
  BY DEF Serve, Request, Transport, ServeAccepts, ServeClosed, ServeFails, ServeEnds, RequestArrives,
         RequestEnds, ReturnsWithServe, ShutdownBegins, ShutdownCompletes, ShutdownTimesOut,
         StopCompletes, AwaitServe, Returns, IInv, Types
<1>2. /\ serve[t] = "off" <=> serve'[t] = "off"
      /\ trans[t] = "off" <=> trans'[t] = "off"
      /\ trans[t] = "returned" => trans'[t] = "returned"
      /\ trans[t] = "off" => closing'[t] = closing[t]
  BY DEF Serve, Request, Transport, ServeAccepts, ServeClosed, ServeFails, ServeEnds, RequestArrives,
         RequestEnds, ReturnsWithServe, ShutdownBegins, ShutdownCompletes, ShutdownTimesOut,
         StopCompletes, AwaitServe, Returns, IInv, Types
<1>3. Types'
  <2>1. CASE Serve(t)
    BY <2>1 DEF Serve, ServeAccepts, ServeClosed, ServeFails, ServeEnds, IInv, Types
  <2>2. CASE Request(t)
    BY <2>2, MaxActiveAssumption DEF Request, RequestArrives, RequestEnds, IInv, Types
  <2>3. CASE \/ ReturnsWithServe(t) \/ StopCompletes(t) \/ AwaitServe(t)
    BY <2>3 DEF ReturnsWithServe, StopCompletes, AwaitServe, Returns, IInv, Types
  <2>4. CASE \/ ShutdownBegins(t) \/ ShutdownCompletes(t)
    BY <2>4 DEF ShutdownBegins, ShutdownCompletes, IInv, Types
  <2>5. CASE ShutdownTimesOut(t)
    BY <2>5 DEF ShutdownTimesOut, Returns, IInv, Types
  <2> QED BY <2>1, <2>2, <2>3, <2>4, <2>5 DEF Transport
<1>4. NewPhase'
  BY <1>1, <1>2 DEF IInv, NewPhase
<1>5. OnceSaves' /\ RunReturned' /\ CloseReleases'
  BY <1>1, <1>2 DEF IInv, OnceSaves, RunReturned, BothReturned, CloseReleases
<1>6. Drains(t)'
  <2> USE DEF IInv, Types, Drains
  <2>1. CASE Serve(t)
    BY <2>1 DEF Serve, ServeAccepts, ServeClosed, ServeFails, ServeEnds
  <2>2. CASE Request(t)
    BY <2>2 DEF Request, RequestArrives, RequestEnds
  <2>3. CASE ReturnsWithServe(t)
    BY <2>3 DEF ReturnsWithServe, Returns
  <2>4. CASE ShutdownBegins(t) \/ ShutdownCompletes(t)
    BY <2>4 DEF ShutdownBegins, ShutdownCompletes, RequestsDone
  <2>5. CASE ShutdownTimesOut(t) \/ StopCompletes(t)
    BY <2>5 DEF ShutdownTimesOut, StopCompletes, Returns
  <2>6. CASE AwaitServe(t)
    BY <2>6 DEF AwaitServe, Returns
  <2> QED BY <2>1, <2>2, <2>3, <2>4, <2>5, <2>6 DEF Transport
<1>7. \A u \in Transports : Drains(u)'
  BY <1>1, <1>6 DEF IInv, Drains
<1> QED BY <1>3, <1>4, <1>5, <1>7 DEF IInv

\* Server.Run and Server.Close.
LEMMA MainPreserves ==
  ASSUME IInv, \/ FirstReturns \/ SecondReturns
               \/ StopPersistence("stopPersistence", "closePersistence")
               \/ StopPersistence("closePersistence", "closeTransports")
               \/ CloseTransports \/ CloseAudit \/ CloseDB
  PROVE  IInv'
<1> USE DEF newVars, saveVars, ctxVars, tranVars
<1>1. CASE FirstReturns \/ SecondReturns
  <2> USE <1>1 DEF FirstReturns, SecondReturns, CancelOther
  <2>1. Types'
    BY DEF IInv, Types
  <2>2. NewPhase' /\ OnceSaves'
    BY DEF IInv, NewPhase, OnceSaves, NewSteps
  <2>3. RunReturned' /\ CloseReleases'
    BY DEF IInv, RunReturned, BothReturned, CloseReleases, CloseSteps
  <2>4. \A t \in Transports : Drains(t)'
    BY DEF IInv, Drains
  <2> QED BY <2>1, <2>2, <2>3, <2>4 DEF IInv
<1>2. CASE \/ StopPersistence("stopPersistence", "closePersistence")
           \/ StopPersistence("closePersistence", "closeTransports")
  <2> USE <1>2 DEF StopPersistence, FirstCall, CallShutdown
  <2>1. Types'
    <3>1. onceDone' \in BOOLEAN
      OBVIOUS
    <3>2. open' \subseteq Resources /\ saves' \in Nat
      BY DEF IInv, Types
    <3> QED BY <3>1, <3>2 DEF IInv, Types, CloseSteps
  <2>2. NewPhase'
    <3>1. main' \in {"closePersistence", "closeTransports", "panicked"} /\ open' \subseteq open
      BY DEF IInv
    <3> QED BY <3>1 DEF IInv, NewPhase, NewSteps
  <2>3. OnceSaves'
    BY DEF IInv, Types, NewPhase, OnceSaves
  <2>4. RunReturned' /\ CloseReleases'
    BY DEF IInv, RunReturned, BothReturned, CloseReleases, CloseSteps
  <2>5. \A t \in Transports : Drains(t)'
    BY DEF IInv, Drains
  <2> QED BY <2>1, <2>2, <2>3, <2>4, <2>5 DEF IInv
<1>3. CASE CloseTransports
  <2> USE <1>3 DEF CloseTransports, ListenersClosed
  <2>1. Types'
    BY DEF IInv, Types, CloseSteps
  <2>2. NewPhase' /\ OnceSaves'
    BY DEF IInv, NewPhase, OnceSaves, NewSteps
  <2>3. RunReturned' /\ CloseReleases'
    BY DEF IInv, RunReturned, BothReturned, CloseReleases, CloseSteps
  <2>4. ASSUME NEW t \in Transports PROVE Drains(t)'
    <3>1. trans[t] \in {"off", "returned"}
      BY DEF IInv, NewPhase, RunReturned, BothReturned, CloseSteps
    <3> QED BY <3>1 DEF IInv, Drains
  <2> QED BY <2>1, <2>2, <2>3, <2>4 DEF IInv
<1>4. CASE CloseAudit \/ CloseDB
  <2> USE <1>4 DEF CloseAudit, CloseDB
  <2>1. Types'
    BY DEF IInv, Types, CloseSteps
  <2>2. NewPhase' /\ OnceSaves'
    BY DEF IInv, NewPhase, OnceSaves, NewSteps
  <2>3. RunReturned' /\ CloseReleases'
    BY DEF IInv, RunReturned, BothReturned, CloseReleases, CloseSteps
  <2>4. \A t \in Transports : Drains(t)'
    BY DEF IInv, Drains
  <2> QED BY <2>1, <2>2, <2>3, <2>4 DEF IInv
<1> QED BY <1>1, <1>2, <1>3, <1>4

LEMMA SignalPreserves ==
  ASSUME IInv, Signal \/ UNCHANGED vars
  PROVE  IInv'
<1> USE DEF Signal, vars, newVars, saveVars, tranVars
<1>1. Types'
  BY DEF IInv, Types
<1>2. NewPhase' /\ OnceSaves' /\ RunReturned' /\ CloseReleases'
  BY DEF IInv, NewPhase, OnceSaves, RunReturned, BothReturned, CloseReleases
<1>3. \A t \in Transports : Drains(t)'
  BY DEF IInv, Drains
<1> QED BY <1>1, <1>2, <1>3 DEF IInv

LEMMA Invariance == Spec => []IInv
<1>1. IInv /\ [Next]_vars => IInv'
  BY NewStepPreserves, NewPersistencePreserves, TransportPreserves, MainPreserves, SignalPreserves
     DEF Next, Main, New, Gone
<1> QED BY <1>1, InitInv, PTL DEF Spec

-----------------------------------------------------------------------------
(* What the invariant says.                                                 *)

\* Every variable of the server process keeps its type, and the periodic
\* goroutine runs only while shutdownPersistence is the function that stops it.
THEOREM TypeCorrect == Spec => []TypeOK
<1>1. IInv => TypeOK
  BY DEF IInv, Types, OnceSaves, TypeOK
<1> QED BY <1>1, Invariance, PTL

\* Server.Close releases listeners, audit file, database and periodic goroutine,
\* wherever New failed and however Run ended, if the process gets to its end.
THEOREM ReleasedAtExitAlways == Spec => []ReleasedAtExit
<1>1. IInv => ReleasedAtExit
  BY DEF IInv, Types, OnceSaves, CloseReleases, Resources, ReleasedAtExit
<1> QED BY <1>1, Invariance, PTL

\* stopPersistence saves at most once although Run and Close both call it, never
\* before both transports have returned, and always when there is a file.
THEOREM SavedOnceAlways == Spec => []SavedOnceAfterTransports
<1>1. IInv => SavedOnceAfterTransports
  <2> SUFFICES ASSUME IInv PROVE SavedOnceAfterTransports
    OBVIOUS
  <2>1. saves <= 1 /\ (main = "exited" /\ built /\ shutdownFn = "save" => saves = 1)
    BY DEF IInv, OnceSaves
  <2>2. ASSUME saves = 1, built PROVE BothReturned
    BY <2>2 DEF IInv, Types, NewPhase, OnceSaves, RunReturned, NewSteps, CloseSteps
  <2> QED BY <2>1, <2>2 DEF SavedOnceAfterTransports, BothReturned
<1> QED BY <1>1, Invariance, PTL

\* When no transport returned an error, the final save and everything after it
\* find no request in progress: Shutdown and GracefulStop have drained them.
THEOREM DrainedAlways == Spec => []DrainedUnlessError
<1>1. IInv => DrainedUnlessError
  BY DEF IInv, RunReturned, BothReturned, Drains, DrainedUnlessError
<1> QED BY <1>1, Invariance, PTL

\* The nil function that setupFilePersistence returns with an error is the only
\* way to panic: while the file loads, an error of initialisation releases all
\* that New had created, as Server.Close documents.
THEOREM ReleasedUnlessBadFile ==
  ASSUME ~BadFile
  PROVE  Spec => [](main # "panicked" /\ InitErrorReleases)
<1>1. IInv => main # "panicked" /\ InitErrorReleases
  BY DEF IInv, Types, OnceSaves, CloseReleases, Resources, InitErrorReleases
<1> QED BY <1>1, Invariance, PTL
=============================================================================
