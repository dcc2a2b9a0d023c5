-------------------------- MODULE ServerLifecycle --------------------------
(***************************************************************************)
(* The life of a server process: server.New acquires resources step by     *)
(* step, Server.Run serves HTTP and gRPC until a signal or the end of one  *)
(* transport, Server.Close releases everything (server.go, grpc.go,        *)
(* persistence.go, database.go, audit_setup.go, cmd/server/main.go).       *)
(*                                                                         *)
(* Goroutines: main, serveHTTP and serveGRPC, the Serve call each of them  *)
(* starts, and request handlers.  What requests do to metrics and file is  *)
(* in MetricsPersistence; here a final save is only counted.               *)
(***************************************************************************)
EXTENDS Integers, FiniteSets

CONSTANTS
    BadFile,   \* whether the file at FileStoragePath may fail to load
    MaxActive  \* bound: requests in progress per transport

ASSUME BadFileAssumption   == BadFile \in BOOLEAN
ASSUME MaxActiveAssumption == MaxActive \in Nat

Transports == {"http", "grpc"}

\* What the process can hold: "saver" is the periodic goroutine.
Resources == {"db", "auditFile", "httpListener", "grpcListener", "saver"}

Listener(t) == IF t = "http" THEN "httpListener" ELSE "grpcListener"

\* The parts of ServerConfig that decide what New creates.  A negative store
\* interval is refused by the configuration's validation.
Config == [db : BOOLEAN, auditFile : BOOLEAN, path : BOOLEAN, restore : BOOLEAN,
           interval : {"sync", "periodic"}]

VARIABLES
    cfg,         \* ServerConfig
    main,        \* where the main goroutine is
    built,       \* New returned a server
    open,        \* resources that are held
    shutdownFn,  \* Server.shutdownPersistence: "noop", "save" or "nil"
    cleanupFn,   \* Server.cleanupAudit: "noop", "closeFile" or "nil"
    onceDone,    \* persistenceOnce has run
    saves,       \* history: final saves
    signalled,   \* the context of main is cancelled
    cancelled,   \* serveTransports has called cancel()
    serve,       \* the goroutine running Serve, per transport
    serveErr,    \* what Serve returned: "none", "closed" or "failed"
    trans,       \* serveHTTP and serveGRPC
    transErr,    \* whether they returned an error
    closing,     \* the transport's server accepts nothing any more
    active       \* requests in progress

vars == <<cfg, main, built, open, shutdownFn, cleanupFn, onceDone, saves, signalled, cancelled,
          serve, serveErr, trans, transErr, closing, active>>

newVars  == <<cfg, built, shutdownFn, cleanupFn>>
saveVars == <<onceDone, saves>>
ctxVars  == <<signalled, cancelled>>
tranVars == <<serve, serveErr, trans, transErr, closing, active>>

NewSteps   == {"security", "database", "audit", "grpcServer", "listenHTTP", "listenGRPC", "persistence"}
CloseSteps == {"closePersistence", "closeTransports", "closeAudit", "closeDB"}

TypeOK ==
    /\ cfg \in Config
    /\ main \in NewSteps \cup CloseSteps
                  \cup {"first", "second", "stopPersistence", "exited", "panicked"}
    /\ built \in BOOLEAN
    /\ open \subseteq Resources
    /\ shutdownFn \in IF "saver" \in open THEN {"save"} ELSE {"noop", "save", "nil"}
    /\ cleanupFn \in {"noop", "closeFile", "nil"}
    /\ onceDone \in BOOLEAN /\ saves \in Nat
    /\ signalled \in BOOLEAN /\ cancelled \in BOOLEAN
    /\ serve \in [Transports -> {"off", "starting", "accepting", "ended"}]
    /\ serveErr \in [Transports -> {"none", "closed", "failed"}]
    /\ trans \in [Transports -> {"off", "select", "shutdown", "stop", "await", "returned"}]
    /\ transErr \in [Transports -> BOOLEAN]
    /\ closing \in [Transports -> BOOLEAN]
    /\ active \in [Transports -> 0..MaxActive]

Init ==
    /\ cfg \in Config
    /\ main = "security" /\ built = FALSE /\ open = {}
    /\ shutdownFn = "noop" /\ cleanupFn = "noop"
    /\ onceDone = FALSE /\ saves = 0
    /\ signalled = FALSE /\ cancelled = FALSE
    /\ serve = [t \in Transports |-> "off"]
    /\ serveErr = [t \in Transports |-> "none"]
    /\ trans = [t \in Transports |-> "off"]
    /\ transErr = [t \in Transports |-> FALSE]
    /\ closing = [t \in Transports |-> FALSE]
    /\ active = [t \in Transports |-> 0]

-----------------------------------------------------------------------------
(* server.New.  A step succeeds and the next one follows, or it fails and   *)
(* the deferred function calls Close.                                       *)

NewContinues(next) == main' = next /\ UNCHANGED <<cfg, built, saveVars, ctxVars, tranVars>>

NewFails == main' = "closePersistence" /\ UNCHANGED <<cfg, built, saveVars, ctxVars, tranVars>>

\* loadPrivateKey and parseTrustedSubnet.
NewSecurity ==
    /\ main = "security"
    /\ NewContinues("database") \/ NewFails
    /\ UNCHANGED <<open, shutdownFn, cleanupFn>>

\* openDatabase; it closes the connection itself when it fails.
NewDatabase ==
    /\ main = "database"
    /\ \/ ~cfg.db /\ NewContinues("audit") /\ UNCHANGED open
       \/ cfg.db /\ NewContinues("audit") /\ open' = open \cup {"db"}
       \/ cfg.db /\ NewFails /\ UNCHANGED open
    /\ UNCHANGED <<shutdownFn, cleanupFn>>

\* setupAudit; on an error it returns a nil cleanup function.
NewAudit ==
    /\ main = "audit"
    /\ \/ /\ ~cfg.auditFile
          /\ NewContinues("grpcServer")
          /\ cleanupFn' = "noop" /\ UNCHANGED open
       \/ /\ cfg.auditFile
          /\ NewContinues("grpcServer")
          /\ cleanupFn' = "closeFile" /\ open' = open \cup {"auditFile"}
       \/ /\ cfg.auditFile
          /\ NewFails
          /\ cleanupFn' = "nil" /\ UNCHANGED open
    /\ UNCHANGED shutdownFn

\* newGRPCServer: the TLS files may be incomplete or unreadable.
NewGRPCServer ==
    /\ main = "grpcServer"
    /\ NewContinues("listenHTTP") \/ NewFails
    /\ UNCHANGED <<open, shutdownFn, cleanupFn>>

NewListen(t, step, next) ==
    /\ main = step
    /\ \/ NewContinues(next) /\ open' = open \cup {Listener(t)}
       \/ NewFails /\ UNCHANGED open
    /\ UNCHANGED <<shutdownFn, cleanupFn>>

\* Mutant of SetupReturns: the initial no-op is returned in every case.
SetupReturnsNoop(fn, resources) == shutdownFn' = "noop" /\ open' = open \cup resources

\* setupFilePersistence returns its shutdown function, and a nil one when
\* Load failed; New stores whatever it returns.
SetupReturns(fn, resources) == shutdownFn' = fn /\ open' = open \cup resources

\* The last step: on success New returns the server, and main calls Run.
NewPersistence ==
    /\ main = "persistence"
    /\ \/ /\ BadFile /\ ~cfg.db /\ cfg.path /\ cfg.restore
          /\ SetupReturns("nil", {})
          /\ NewFails
       \/ /\ IF cfg.db \/ ~cfg.path
             THEN SetupReturns("noop", {})
             ELSE SetupReturns("save", IF cfg.interval = "periodic" THEN {"saver"} ELSE {})
          /\ main' = "first" /\ built' = TRUE
          /\ serve' = [t \in Transports |-> "starting"]
          /\ trans' = [t \in Transports |-> "select"]
          /\ UNCHANGED <<cfg, saveVars, ctxVars, serveErr, transErr, closing, active>>
    /\ UNCHANGED cleanupFn

New ==
    \/ NewSecurity \/ NewDatabase \/ NewAudit \/ NewGRPCServer
    \/ NewListen("http", "listenHTTP", "listenGRPC")
    \/ NewListen("grpc", "listenGRPC", "persistence")
    \/ NewPersistence

-----------------------------------------------------------------------------
(* The transports.                                                          *)

\* runCtx of serveTransports.
RunCtxDone == signalled \/ cancelled

\* Serve returns; it closes its listener.
ServeEnds(t, err) ==
    /\ serve' = [serve EXCEPT ![t] = "ended"]
    /\ serveErr' = [serveErr EXCEPT ![t] = err]
    /\ open' = open \ {Listener(t)}
    /\ UNCHANGED <<main, newVars, saveVars, ctxVars, trans, transErr, closing, active>>

ServeAccepts(t) ==
    /\ serve[t] = "starting"
    /\ ~closing[t]
    /\ serve' = [serve EXCEPT ![t] = "accepting"]
    /\ UNCHANGED <<main, newVars, open, saveVars, ctxVars, serveErr, trans, transErr, closing, active>>

\* ErrServerClosed or ErrServerStopped, also if the shutdown came first.
ServeClosed(t) == serve[t] \in {"starting", "accepting"} /\ closing[t] /\ ServeEnds(t, "closed")

\* Accepting connections failed for good.
ServeFails(t) == serve[t] = "accepting" /\ ~closing[t] /\ ServeEnds(t, "failed")

\* On a new connection, or on one that outlives a failed Serve.
RequestArrives(t) ==
    /\ serve[t] = "accepting" \/ serveErr[t] = "failed"
    /\ ~closing[t]
    /\ active[t] < MaxActive
    /\ active' = [active EXCEPT ![t] = @ + 1]
    /\ UNCHANGED <<main, newVars, open, saveVars, ctxVars, serve, serveErr, trans, transErr, closing>>

RequestEnds(t) ==
    /\ active[t] > 0
    /\ active' = [active EXCEPT ![t] = @ - 1]
    /\ UNCHANGED <<main, newVars, open, saveVars, ctxVars, serve, serveErr, trans, transErr, closing>>

\* serveHTTP or serveGRPC returns to serveTransports.
Returns(t, err) ==
    /\ trans' = [trans EXCEPT ![t] = "returned"]
    /\ transErr' = [transErr EXCEPT ![t] = err]
    /\ UNCHANGED <<main, newVars, open, saveVars, ctxVars, serve, serveErr, active>>

\* The select takes errCh: Serve has ended by itself.
ReturnsWithServe(t) ==
    /\ trans[t] = "select"
    /\ serve[t] = "ended"
    /\ Returns(t, serveErr[t] = "failed")
    /\ UNCHANGED closing

\* The select takes ctx.Done(): Shutdown or GracefulStop begins.
ShutdownBegins(t) ==
    /\ trans[t] = "select"
    /\ RunCtxDone
    /\ trans' = [trans EXCEPT ![t] = "shutdown"]
    /\ closing' = [closing EXCEPT ![t] = TRUE]
    /\ UNCHANGED <<main, newVars, open, saveVars, ctxVars, serve, serveErr, transErr, active>>

\* Mutant of RequestsDone: requests in progress are not awaited.
RequestsAbandoned(t) == TRUE

RequestsDone(t) == active[t] = 0

\* Shutdown or GracefulStop has seen every request end.
ShutdownCompletes(t) ==
    /\ trans[t] = "shutdown"
    /\ RequestsDone(t)
    /\ trans' = [trans EXCEPT ![t] = "await"]
    /\ UNCHANGED <<main, newVars, open, saveVars, ctxVars, serve, serveErr, transErr, closing, active>>

\* Mutant of ShutdownTimesOut: the shutdown has no deadline.
NoDeadline(t) == trans[t] = "shutdown" /\ FALSE

\* shutdownTimeout: HTTP is closed and left; gRPC is stopped, which cancels
\* its requests, and GracefulStop is awaited.
ShutdownTimesOut(t) ==
    /\ trans[t] = "shutdown"
    /\ IF t = "http"
       THEN Returns(t, TRUE)
       ELSE /\ trans' = [trans EXCEPT ![t] = "stop"]
            /\ UNCHANGED <<main, newVars, open, saveVars, ctxVars, serve, serveErr, transErr, active>>
    /\ UNCHANGED closing

\* <-doneCh after Stop.
StopCompletes(t) ==
    /\ trans[t] = "stop"
    /\ RequestsDone(t)
    /\ Returns(t, TRUE)
    /\ UNCHANGED closing

\* The final <-errCh.
AwaitServe(t) ==
    /\ trans[t] = "await"
    /\ serve[t] = "ended"
    /\ Returns(t, serveErr[t] = "failed")
    /\ UNCHANGED closing

Serve(t) == ServeAccepts(t) \/ ServeClosed(t) \/ ServeFails(t)

Request(t) == RequestArrives(t) \/ RequestEnds(t)

Transport(t) ==
    \/ ReturnsWithServe(t) \/ ShutdownBegins(t) \/ ShutdownCompletes(t)
    \/ ShutdownTimesOut(t) \/ StopCompletes(t) \/ AwaitServe(t)

-----------------------------------------------------------------------------
(* Server.Run and Server.Close.                                             *)

\* SIGTERM, SIGINT or SIGQUIT.
Signal ==
    /\ ~signalled
    /\ main \notin {"exited", "panicked"}
    /\ signalled' = TRUE
    /\ UNCHANGED <<main, newVars, open, saveVars, cancelled, tranVars>>

CancelOther == cancelled' = TRUE

\* firstErr := <-errCh; cancel().
FirstReturns ==
    /\ main = "first"
    /\ \E t \in Transports : trans[t] = "returned"
    /\ main' = "second"
    /\ CancelOther
    /\ UNCHANGED <<newVars, open, saveVars, signalled, tranVars>>

BothReturned == \A t \in Transports : trans[t] = "returned"

\* secondErr := <-errCh; serveTransports returns.
SecondReturns ==
    /\ main = "second"
    /\ BothReturned
    /\ main' = "stopPersistence"
    /\ UNCHANGED <<newVars, open, saveVars, ctxVars, tranVars>>

\* Mutant of FirstCall: stopPersistence without persistenceOnce.
EveryCall == TRUE

\* persistenceOnce.Do runs its function.
FirstCall == ~onceDone

\* Calling shutdownPersistence: a nil function panics, the final one stops the
\* periodic goroutine and saves.
CallShutdown(next) ==
    /\ main' = IF shutdownFn = "nil" THEN "panicked" ELSE next
    /\ saves' = IF shutdownFn = "save" THEN saves + 1 ELSE saves
    /\ open' = IF shutdownFn = "save" THEN open \ {"saver"} ELSE open

\* stopPersistence, from Run and from Close.
StopPersistence(from, next) ==
    /\ main = from
    /\ onceDone' = TRUE
    /\ IF FirstCall THEN CallShutdown(next) ELSE main' = next /\ UNCHANGED <<saves, open>>
    /\ UNCHANGED <<newVars, ctxVars, tranVars>>

\* Mutant of ListenersClosed: only the HTTP listener is closed.
HTTPListenerClosed == open' = open \ {"httpListener"}

ListenersClosed == open' = open \ {"httpListener", "grpcListener"}

\* httpServer.Close, grpcServer.Stop and the listeners.
CloseTransports ==
    /\ main = "closeTransports"
    /\ main' = "closeAudit"
    /\ ListenersClosed
    /\ closing' = [t \in Transports |-> TRUE]
    /\ UNCHANGED <<newVars, saveVars, ctxVars, serve, serveErr, trans, transErr, active>>

\* cleanupAudit, if it is not nil.
CloseAudit ==
    /\ main = "closeAudit"
    /\ main' = "closeDB"
    /\ open' = IF cleanupFn = "closeFile" THEN open \ {"auditFile"} ELSE open
    /\ UNCHANGED <<newVars, saveVars, ctxVars, tranVars>>

\* db.Close; the process ends.
CloseDB ==
    /\ main = "closeDB"
    /\ main' = "exited"
    /\ open' = open \ {"db"}
    /\ UNCHANGED <<newVars, saveVars, ctxVars, tranVars>>

Main ==
    \/ New \/ FirstReturns \/ SecondReturns
    \/ StopPersistence("stopPersistence", "closePersistence")
    \/ StopPersistence("closePersistence", "closeTransports")
    \/ CloseTransports \/ CloseAudit \/ CloseDB

\* The process is gone.
Gone == main \in {"exited", "panicked"} /\ UNCHANGED vars

\* Goroutines run until the process is gone.
Next ==
    \/ main \notin {"exited", "panicked"} /\ \E t \in Transports : Serve(t) \/ Request(t) \/ Transport(t)
    \/ Main \/ Signal \/ Gone

Spec == Init /\ [][Next]_vars

\* Goroutines are scheduled and deadlines expire.  A request may take for
\* ever, unless Stop has cancelled its context (gRPC, after the deadline).
FairSpec ==
    /\ Spec
    /\ WF_vars(Main)
    /\ \A t \in Transports :
         /\ WF_vars(Transport(t)) /\ WF_vars(ServeAccepts(t) \/ ServeClosed(t))
         /\ WF_vars(trans[t] = "stop" /\ RequestEnds(t))

-----------------------------------------------------------------------------
(* Properties.                                                              *)

\* Close leaves nothing behind, after Run and after each failure of New that
\* it survives: listeners, audit file, database and the periodic goroutine.
ReleasedAtExit == main = "exited" => open = {}

\* As documented: after an error of initialisation the resources created so
\* far are released by Server.Close.
InitErrorReleases == ~built /\ main \in {"exited", "panicked"} => open = {}

\* Run and Close both stop persistence; the final save happens once, and only
\* after both transports have returned (persistenceOnce).
SavedOnceAfterTransports ==
    /\ saves <= 1
    /\ saves = 1 /\ built => \A t \in Transports : trans[t] = "returned"
    /\ main = "exited" /\ built /\ shutdownFn = "save" => saves = 1

\* If no transport returned an error, no request is in progress when the final
\* save starts, nor later: what a client was told is in the file.
DrainedUnlessError ==
    built /\ main \in CloseSteps \cup {"stopPersistence", "exited"}
          /\ (\A t \in Transports : ~transErr[t])
    => \A t \in Transports : active[t] = 0

\* A signal ends the process although requests may hang, and so does the end of
\* one transport, which stops the other one.
ProcessEnds ==
    /\ (signalled /\ built) ~> (main = "exited")
    /\ (\E t \in Transports : trans[t] = "returned") ~> (main = "exited")
=============================================================================
