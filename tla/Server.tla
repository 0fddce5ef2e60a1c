------------------------------- MODULE Server -------------------------------
(***************************************************************************)
(* The life of the process (cmd/app/main.go) around the requests it        *)
(* serves: opening storage and cache, serving, and after a signal stopping *)
(* the two HTTP servers and closing storage and cache, with requests on    *)
(* their way through the middleware chain and the rate limiter             *)
(* (RateLimit) at every point.                                             *)
(*                                                                         *)
(* The signal may come at any time, also before the goroutine that runs    *)
(* the server has begun to listen.  Upgraded connections are in WsHub.     *)
(***************************************************************************)
EXTENDS RateLimit

CONSTANT Procs   \* request goroutines

VARIABLES
    main,        \* where the main goroutine is
    signalled,   \* signal.NotifyContext's ctx is done
    expired,     \* shutdownCtx has passed its 30 seconds
    listener,    \* httpSrv: "new", "open", "closed", or "failed" to listen
    pprof,       \* server.pprofSrv: "nil" or "set"
    profiling,   \* a request of the pprof server is under way
    store,       \* the connection pool: "none", "open", "closing" or "closed"
    purging,     \* the rate limiter's goroutine runs
    stage, ip    \* where each request is, and the address it comes from

procVars   == <<main, signalled, expired, listener, pprof, profiling, store, purging>>
serverVars == <<vars, procVars, stage, ip>>

ServerInit ==
    /\ Init
    /\ main = "storage" /\ signalled = FALSE /\ expired = FALSE
    /\ listener = "new" /\ pprof = "nil" /\ profiling = FALSE
    /\ store = "none" /\ purging = FALSE
    /\ stage = [p \in Procs |-> "idle"]
    /\ ip \in [Procs -> Ips]

-----------------------------------------------------------------------------
(* A request: Recovery, RequestLogger, RequestID, CORS, LimitBody and the    *)
(* mux, then the rate limiter or Auth, then the handler and its statements.  *)
(* What is answered at once (a preflight, a bad token) leaves no trace.      *)

Move(p, label) == stage' = [stage EXCEPT ![p] = label]

\* The auth endpoints go through the limiter, the others straight to their
\* handler.
Accept(p) ==
    /\ listener = "open" /\ stage[p] = "idle"
    /\ Move(p, "limit") \/ Move(p, "handler")
    /\ UNCHANGED <<vars, procVars, ip>>

\* Passed on to the handler, or answered with 429.
Limit(p) ==
    /\ stage[p] = "limit"
    /\ First(ip[p]) \/ Another(ip[p])
    /\ Move(p, IF passed' = passed THEN "idle" ELSE "handler")
    /\ UNCHANGED <<procVars, ip>>

\* The handler's next statement gets a connection; from a pool that is
\* closed the error makes it answer 500.
Query(p) ==
    /\ stage[p] = "handler"
    /\ Move(p, IF store = "open" THEN "query" ELSE "idle")
    /\ UNCHANGED <<vars, procVars, ip>>

QueryEnds(p) ==
    /\ stage[p] = "query"
    /\ Move(p, "handler")
    /\ UNCHANGED <<vars, procVars, ip>>

\* The handler returns or panics; Recovery answers for it then.
Answer(p) ==
    /\ stage[p] = "handler"
    /\ Move(p, "idle")
    /\ UNCHANGED <<vars, procVars, ip>>

Idle == \A p \in Procs : stage[p] = "idle"

-----------------------------------------------------------------------------
(* The main goroutine. *)

Proceed(to) ==
    /\ main' = to
    /\ UNCHANGED <<vars, signalled, expired, profiling, purging, stage, ip>>

\* newApplication: storage.New pings the database; log.Fatal ends the process.
OpenStorage ==
    /\ main = "storage"
    /\ \/ Proceed("cache") /\ store' = "open"
       \/ Proceed("exited") /\ UNCHANGED store
    /\ UNCHANGED <<listener, pprof>>

\* cache.New; mw.RateLimit starts its goroutine; go api.Run().
OpenCache ==
    /\ main = "cache"
    /\ \/ main' = "serving" /\ purging' = TRUE
       \/ main' = "exited" /\ UNCHANGED purging
    /\ UNCHANGED <<vars, signalled, expired, listener, pprof, profiling, store, stage, ip>>

\* server.Stop begins.  It sees pprofSrv or, unsynchronised with Run, does not.
StopBegins ==
    /\ main = "serving" /\ signalled
    /\ \/ Proceed("stopPprof") /\ pprof = "set"
       \/ Proceed("stopApi")
    /\ UNCHANGED <<listener, pprof, store>>

\* Faulty variant: Shutdown without a deadline.
StopPprofWaits ==
    /\ main = "stopPprof"
    /\ ~profiling
    /\ Proceed("stopApi")
    /\ UNCHANGED <<listener, pprof, store>>

\* pprofSrv.Shutdown waits for its requests, and httpSrv goes on serving.
StopPprof ==
    /\ main = "stopPprof"
    /\ ~profiling \/ expired
    /\ Proceed("stopApi")
    /\ UNCHANGED <<listener, pprof, store>>

\* Faulty variant: a server that Run creates is not there yet for Stop to close.
StopApiEarly ==
    /\ main = "stopApi"
    /\ Proceed("draining")
    /\ listener' = IF listener = "open" THEN "closed" ELSE listener
    /\ UNCHANGED <<pprof, store>>

\* httpSrv.Shutdown closes the listener, or keeps Run from opening it.
StopApi ==
    /\ main = "stopApi"
    /\ Proceed("draining")
    /\ listener' = IF listener = "failed" THEN "failed" ELSE "closed"
    /\ UNCHANGED <<pprof, store>>

\* Faulty variant: Close, which does not wait for requests.
DrainNothing ==
    /\ main = "draining"
    /\ Proceed("close")
    /\ UNCHANGED <<listener, pprof, store>>

\* It looks for active connections until there are none or its context ends.
Drain ==
    /\ main = "draining"
    /\ Idle \/ expired
    /\ Proceed("close")
    /\ UNCHANGED <<listener, pprof, store>>

\* application.close: Storage.Close rejects new statements ...
CloseStorage ==
    /\ main = "close" /\ store = "open"
    /\ store' = "closing"
    /\ Proceed("close")
    /\ UNCHANGED <<listener, pprof>>

\* ... and waits for those under way (pgxpool).  Then the cache is closed and
\* main returns, whatever else is running.
CloseReturns ==
    /\ main = "close" /\ store = "closing"
    /\ \A p \in Procs : stage[p] # "query"
    /\ store' = "closed"
    /\ Proceed("exited")
    /\ UNCHANGED <<listener, pprof>>

Main == OpenStorage \/ OpenCache \/ StopBegins \/ StopPprof \/ StopApi \/ Drain
        \/ CloseStorage \/ CloseReturns

-----------------------------------------------------------------------------
(* The other goroutines and the surroundings. *)

\* server.Run: pprofSrv is set before the API server listens.
SetPprof ==
    /\ main \notin {"storage", "cache", "exited"} /\ listener = "new" /\ pprof = "nil"
    /\ pprof' = "set"
    /\ UNCHANGED <<vars, main, signalled, expired, listener, profiling, store, purging, stage, ip>>

\* ListenAndServe; an error is logged, and main goes on waiting for a signal.
Listen ==
    /\ main \notin {"storage", "cache", "exited"} /\ listener = "new"
    /\ listener' \in {"open", "failed"}
    /\ UNCHANGED <<vars, main, signalled, expired, pprof, profiling, store, purging, stage, ip>>

Profile ==
    /\ pprof = "set" /\ main # "exited"
    /\ profiling' = ~profiling
    /\ profiling' => main \notin {"stopPprof", "stopApi", "draining", "close"}
    /\ UNCHANGED <<vars, main, signalled, expired, listener, pprof, store, purging, stage, ip>>

Signal ==
    /\ ~signalled /\ main # "exited"
    /\ signalled' = TRUE
    /\ UNCHANGED <<vars, main, expired, listener, pprof, profiling, store, purging, stage, ip>>

Deadline ==
    /\ main \in {"stopPprof", "stopApi", "draining"} /\ ~expired
    /\ expired' = TRUE
    /\ UNCHANGED <<vars, main, signalled, listener, pprof, profiling, store, purging, stage, ip>>

\* The limiter's goroutine: the ticker, or ctx.Done.
PurgeOnce == purging /\ Purge /\ UNCHANGED <<procVars, stage, ip>>
PurgeEnds ==
    /\ purging /\ signalled
    /\ purging' = FALSE
    /\ UNCHANGED <<vars, main, signalled, expired, listener, pprof, profiling, store, stage, ip>>

Clock == main # "exited" /\ Tick /\ UNCHANGED <<procVars, stage, ip>>

Serve(p) == Accept(p) \/ Limit(p) \/ Query(p) \/ QueryEnds(p) \/ Answer(p)

ServerNext ==
    \/ main # "exited" /\ \E p \in Procs : Serve(p)
    \/ Main
    \/ SetPprof \/ Listen \/ Profile \/ Signal \/ Deadline
    \/ PurgeOnce \/ PurgeEnds \/ Clock

\* The main goroutine runs, storage.New among its steps returns, and its timer
\* fires.  Nothing is assumed of requests, of their statements or of profiles.
ServerSpec == ServerInit /\ [][ServerNext]_serverVars
              /\ WF_serverVars(Main) /\ WF_serverVars(Deadline)

-----------------------------------------------------------------------------
\* Requests are accepted only while the database can be reached: the server is
\* not listening before storage is open, nor once main has come to close it,
\* also when the signal comes before Run has begun to listen (main.go:98-121).
ServesWithStorage == listener = "open" => store = "open" /\ main # "close"

\* Storage is closed under a running request only after the 30 seconds
\* (main.go:116-119).  A profile may use them up before httpSrv.Shutdown is
\* called (main.go:80-83).
CutOffOnlyByDeadline == main \in {"close", "exited"} /\ store # "none" /\ ~Idle => expired

\* After the signal the process ends, whatever requests and profiles do, unless
\* a statement never returns, for which Storage.Close waits without a limit
\* (main.go:119, storage.go:20).
ShutdownEnds ==
    []<>(\A p \in Procs : stage[p] # "query") => (signalled ~> main = "exited")

=============================================================================
