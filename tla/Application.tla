---------------------------- MODULE Application ----------------------------
(* The life of the process: main.go, app.Run with its errgroup, the connect  *)
(* loop of NewPostgres, and HTTPServer.Start with the errgroup inside it.    *)
(* A goroutine is reduced to when it starts, uses the database, fails and    *)
(* ends; what the Kafka goroutines do with a message is OrderPipeline.       *)
EXTENDS Naturals

CONSTANTS Request,       \* HTTP requests that can be in flight at once
          ConnAttempts, BaseRetryDelay, MaxRetryDelay,   \* NewPostgres
          Failures       \* what may fail: steps of the start, and servers

ASSUME ApplicationAssumption ==
  /\ ConnAttempts \in Nat \ {0}             \* Postgres.validate
  /\ BaseRetryDelay \in Nat \ {0} /\ MaxRetryDelay \in Nat
  /\ BaseRetryDelay <= MaxRetryDelay
  /\ Failures \subseteq {"load", "settings", "database", "manager", "cache",
                         "reader", "dlq", "metrics", "listen"}

VARIABLES main,      \* where the main goroutine is
          attempt,   \* NewPostgres: attemptCount
          backoff,   \* NewPostgres: currentBackoff
          pool,      \* the connection pool
          failed,    \* Run returned an error
          code,      \* how the process ended
          ctxDone,   \* the context of main is canceled: by a signal, or by
                     \* main once Run has failed
          stop,      \* the channel of HTTPServer.Start holds a signal
          err,       \* [Group -> the first error one of its goroutines returned]
          at,        \* [Routine -> where the goroutine is]
          shutting,  \* server.Shutdown has been called
          request    \* [Request -> where it is]

connVars == <<attempt, backoff>>
endVars  == <<failed, code>>
ctxVars  == <<ctxDone, stop, err>>
goVars   == <<at, shutting, request>>
mainVars == <<main, connVars, pool, endVars>>
vars == <<mainVars, ctxVars, goVars>>

\* The goroutines of the errgroup of Run; "server" is HTTPServer.Start, which
\* has "listen" and "watcher" in an errgroup of its own.
Kafka   == {"consumer", "processor"}
HTTP    == {"listen", "watcher"}
Group   == [app |-> {"metrics", "server"} \cup Kafka, http |-> HTTP]
Routine == Group["app"] \cup Group["http"]
Cause   == {"none", "canceled", "metrics", "listen", "forced"}

Alive    == main # "exited"
Ended(g) == \A r \in Group[g] : at[r] = "ended"

\* The contexts of the two groups; the inner one derives from the outer one.
Canceled(g) == \/ ctxDone \/ err["app"] # "none"
               \/ g = "http" /\ err["http"] # "none"

Init ==
  /\ main = "load"
  /\ attempt = 1 /\ backoff = BaseRetryDelay
  /\ pool = "none"
  /\ failed = FALSE /\ code = "none"
  /\ ctxDone = FALSE /\ stop = FALSE
  /\ err = [g \in DOMAIN Group |-> "none"]
  /\ at = [r \in Routine |-> "none"]
  /\ shutting = FALSE
  /\ request = [r \in Request |-> "none"]

\* Mutant: an errgroup that keeps the last error.
RecordLast(g, c) == err' = [err EXCEPT ![g] = c]

\* errgroup keeps the first error, which cancels the group's context.
Record(g, c) == err' = IF err[g] = "none" THEN [err EXCEPT ![g] = c] ELSE err

-----------------------------------------------------------------------------
(* main and Run                                                             *)

MayFail(f) == f \in Failures

Step(l, m) == main = l /\ main' = m

Start(rs, l) == at' = [r \in Routine |-> IF r \in rs THEN l ELSE at[r]]

\* The steps after which Run just goes on.  RestoreCache may fail: logged.
After == [load |-> "metrics", manager |-> "cache", cache |-> "restore",
          restore |-> "http", reader |-> "dlq", stopcache |-> "closedb"]

Proceed ==
  /\ main \in DOMAIN After /\ main' = After[main]
  /\ UNCHANGED <<connVars, pool, endVars, ctxVars, goVars>>

\* config.Load or NewAdapter fails: os.Exit(1).
LoadFails ==
  /\ MayFail("load") /\ Step("load", "exited")
  /\ code' = "error"
  /\ UNCHANGED <<connVars, pool, failed, ctxVars, goVars>>

InitMetrics ==
  /\ Step("metrics", "database")
  /\ Start({"metrics"}, "run")
  /\ UNCHANGED <<connVars, pool, endVars, ctxVars, shutting, request>>

\* NewPostgres refuses its options or cannot parse the URL: no attempt is made.
Refuse ==
  /\ MayFail("settings") /\ attempt = 1 /\ Step("database", "return")
  /\ failed' = TRUE
  /\ UNCHANGED <<connVars, pool, code, ctxVars, goVars>>

Connect ==
  /\ Step("database", "manager")
  /\ pool' = "open"
  /\ UNCHANGED <<connVars, endVars, ctxVars, goVars>>

\* Mutant: the backoff is doubled without a limit.
ConnectFailsUncapped ==
  /\ MayFail("database") /\ main = "database"
  /\ attempt' = attempt + 1
  /\ backoff' = 2 * backoff
  /\ main' = IF attempt < ConnAttempts THEN main ELSE "return"
  /\ failed' = (attempt = ConnAttempts)
  /\ UNCHANGED <<pool, code, ctxVars, goVars>>

\* Every failed attempt, the last one too, sleeps for a random time below twice
\* the backoff, whatever happens to the context meanwhile.
ConnectFails ==
  /\ MayFail("database") /\ main = "database"
  /\ attempt' = attempt + 1
  /\ backoff' = IF 2 * backoff > MaxRetryDelay THEN MaxRetryDelay ELSE 2 * backoff
  /\ main' = IF attempt < ConnAttempts THEN main ELSE "return"
  /\ failed' = (attempt = ConnAttempts)
  /\ UNCHANGED <<pool, code, ctxVars, goVars>>

\* A later step of the start fails: Run returns through the calls deferred so
\* far, and waits for none of the goroutines it has started.
InitFails ==
  /\ main \in {"manager", "cache", "reader", "dlq"} /\ MayFail(main)
  /\ main' = IF main \in {"reader", "dlq"} THEN "stopcache" ELSE "closedb"
  /\ failed' = TRUE
  /\ UNCHANGED <<connVars, pool, code, ctxVars, goVars>>

InitHTTPServer ==
  /\ Step("http", "reader")
  /\ Start(HTTP \cup {"server"}, "run")
  /\ UNCHANGED <<connVars, pool, endVars, ctxVars, shutting, request>>

\* initKafkaComponents starts its goroutines once nothing can fail any more.
InitKafka ==
  /\ Step("dlq", "wait")
  /\ Start(Kafka, "read")
  /\ UNCHANGED <<connVars, pool, endVars, ctxVars, shutting, request>>

\* Mutant: Run returns with the first error, without waiting for the others.
WaitFirst ==
  /\ Step("wait", "stopcache")
  /\ err["app"] # "none"
  /\ failed' = TRUE
  /\ UNCHANGED <<connVars, pool, code, ctxVars, goVars>>

\* eg.Wait; no error is the one isShutdownSignal looks for.
Wait ==
  /\ Step("wait", "stopcache")
  /\ Ended("app")
  /\ failed' = (err["app"] # "none")
  /\ UNCHANGED <<connVars, pool, code, ctxVars, goVars>>

Connected == {r \in Request : request[r] = "query"} \cup {r \in Kafka : at[r] = "work"}

\* Pool.Close refuses new users at once and waits for those it has.
ClosePool ==
  /\ main = "closedb"
  /\ \/ pool = "open" /\ pool' = "closing" /\ UNCHANGED main
     \/ /\ pool = "closing" /\ Connected = {}
        /\ pool' = "closed" /\ main' = "return"
  /\ UNCHANGED <<connVars, endVars, ctxVars, goVars>>

\* Back in main: an error of Run is logged and cancels the context, which the
\* servers Run has left behind may still see.
RunReturns ==
  /\ Step("return", "leave")
  /\ ctxDone' = (ctxDone \/ failed)
  /\ UNCHANGED <<connVars, pool, endVars, stop, err, goVars>>

\* main returns.
Exit ==
  /\ Step("leave", "exited")
  /\ code' = "ok"
  /\ UNCHANGED <<connVars, pool, failed, ctxVars, goVars>>

Main == \/ Proceed \/ LoadFails \/ InitMetrics \/ Refuse \/ Connect \/ ConnectFails
        \/ InitFails \/ InitHTTPServer \/ InitKafka \/ Wait \/ ClosePool
        \/ RunReturns \/ Exit

-----------------------------------------------------------------------------
(* The goroutines                                                           *)

Goto(r, l) == at' = [at EXCEPT ![r] = l]

Returns(r, g, c) == Goto(r, "ended") /\ Record(g, c)

\* The metrics server: nothing but a failure ends it.
MetricsFails ==
  /\ MayFail("metrics") /\ at["metrics"] = "run"
  /\ Returns("metrics", "app", "metrics")
  /\ UNCHANGED <<mainVars, ctxDone, stop, shutting, request>>

Listen ==
  /\ at["listen"] = "run" /\ ~shutting
  /\ Goto("listen", "serve")
  /\ UNCHANGED <<mainVars, ctxVars, shutting, request>>

\* The port is taken, or the listener breaks.
ListenFails ==
  /\ MayFail("listen") /\ at["listen"] \in {"run", "serve"} /\ ~shutting
  /\ Returns("listen", "http", "listen")
  /\ UNCHANGED <<mainVars, ctxDone, stop, shutting, request>>

\* ErrServerClosed, which is no error.
ListenCloses ==
  /\ at["listen"] \in {"run", "serve"} /\ shutting
  /\ Goto("listen", "ended")
  /\ UNCHANGED <<mainVars, ctxVars, shutting, request>>

\* signal.Notify: earlier signals are not in the channel.
Notify ==
  /\ at["watcher"] = "run"
  /\ Goto("watcher", "watch")
  /\ UNCHANGED <<mainVars, ctxVars, shutting, request>>

\* Mutant: the requests are waited for, the listener stays open.
WatcherForgets ==
  /\ at["watcher"] = "watch" /\ stop
  /\ stop' = FALSE
  /\ Goto("watcher", "stopping")
  /\ UNCHANGED <<mainVars, ctxDone, err, shutting, request>>

\* select: a signal, which starts Shutdown, ...
WatcherStops ==
  /\ at["watcher"] = "watch" /\ stop
  /\ stop' = FALSE
  /\ shutting' = TRUE
  /\ Goto("watcher", "stopping")
  /\ UNCHANGED <<mainVars, ctxDone, err, request>>

\* Mutant: the context of Run instead of that of the inner group.
WatcherLeavesOuter ==
  /\ at["watcher"] = "watch" /\ Canceled("app")
  /\ Returns("watcher", "http", "canceled")
  /\ UNCHANGED <<mainVars, ctxDone, stop, shutting, request>>

\* ... or the context, after which nobody will call Shutdown.
WatcherLeaves ==
  /\ at["watcher"] = "watch" /\ Canceled("http")
  /\ Returns("watcher", "http", "canceled")
  /\ UNCHANGED <<mainVars, ctxDone, stop, shutting, request>>

Idle == \A r \in Request : request[r] = "none"

\* Shutdown: nil when no request is left, an error when its context has ended
\* (a child of the one the signal has canceled) and requests are left.
ShutdownEnds ==
  /\ at["watcher"] = "stopping"
  /\ \/ Idle /\ Goto("watcher", "ended") /\ UNCHANGED err
     \/ ~Idle /\ Returns("watcher", "http", "forced")
  /\ UNCHANGED <<mainVars, ctxDone, stop, shutting, request>>

\* Start returns what its errgroup returns.
ServerEnds ==
  /\ at["server"] = "run" /\ Ended("http")
  /\ IF err["http"] = "none" THEN Goto("server", "ended") /\ UNCHANGED err
                             ELSE Returns("server", "app", err["http"])
  /\ UNCHANGED <<mainVars, ctxDone, stop, shutting, request>>

\* A message is read and worked on, with a connection of the pool.
Take(r) ==
  /\ at[r] = "read" /\ ~Canceled("app")
  /\ Goto(r, "work")
  /\ UNCHANGED <<mainVars, ctxVars, shutting, request>>

Release(r) ==
  /\ at[r] = "work"
  /\ Goto(r, "read")
  /\ UNCHANGED <<mainVars, ctxVars, shutting, request>>

\* The context's error; nil when it ends the consumer's ReadMessage.
KafkaEnds(r) ==
  /\ at[r] = "read" /\ Canceled("app")
  /\ \/ Returns(r, "app", "canceled")
     \/ r = "consumer" /\ Goto(r, "ended") /\ UNCHANGED err
  /\ UNCHANGED <<mainVars, ctxDone, stop, shutting, request>>

-----------------------------------------------------------------------------
(* Requests and signals                                                     *)

Move(r, l) == request' = [request EXCEPT ![r] = l]

Accept(r) ==
  /\ at["listen"] = "serve" /\ ~shutting /\ request[r] = "none"
  /\ Move(r, "open")
  /\ UNCHANGED <<mainVars, ctxVars, at, shutting>>

Query(r) ==
  /\ request[r] = "open" /\ pool = "open"
  /\ Move(r, "query")
  /\ UNCHANGED <<mainVars, ctxVars, at, shutting>>

\* Mutant: a request without a deadline, and a database that does not answer.
AnswerUntimed(r) ==
  /\ request[r] = "open"
  /\ Move(r, "none")
  /\ UNCHANGED <<mainVars, ctxVars, at, shutting>>

\* An answer, also without the database: from the cache, after 500 ms, or
\* because the pool is closed.
Answer(r) ==
  /\ request[r] \in {"open", "query"}
  /\ Move(r, "none")
  /\ UNCHANGED <<mainVars, ctxVars, at, shutting>>

\* SIGINT or SIGTERM goes to everyone who has asked for it.
Signal ==
  /\ ctxDone' = TRUE
  /\ stop' = (stop \/ at["watcher"] = "watch")
  /\ main # "load"
  /\ UNCHANGED <<mainVars, err, goVars>>

HTTPServer == \/ Listen \/ ListenFails \/ ListenCloses
              \/ Notify \/ WatcherStops \/ WatcherLeaves \/ ShutdownEnds
              \/ ServerEnds

Next == /\ Alive
        /\ \/ Main \/ MetricsFails \/ HTTPServer \/ Signal
           \/ \E r \in Kafka : Take(r) \/ Release(r) \/ KafkaEnds(r)
           \/ \E r \in Request : Accept(r) \/ Query(r) \/ Answer(r)

\* Goroutines that can run do, and work on a message or a request ends: every
\* database call has a deadline or ends with the context.  Failures, signals,
\* messages and requests may come or not.
Fairness ==
  /\ WF_vars(Alive /\ Main)
  /\ WF_vars(Alive /\ (Listen \/ ListenCloses))
  /\ WF_vars(Alive /\ (Notify \/ WatcherStops \/ WatcherLeaves \/ ShutdownEnds))
  /\ WF_vars(Alive /\ ServerEnds)
  /\ \A r \in Kafka : WF_vars(Alive /\ Release(r)) /\ WF_vars(Alive /\ KafkaEnds(r))
  /\ \A r \in Request : WF_vars(Alive /\ Answer(r))

Spec     == Init /\ [][Next]_vars
FairSpec == Spec /\ Fairness

-----------------------------------------------------------------------------
(* Properties                                                               *)

AppTypeOK ==
  /\ main \in {"load", "metrics", "database", "manager", "cache", "restore",
               "http", "reader", "dlq", "wait", "stopcache", "closedb",
               "return", "leave", "exited"}
  /\ attempt \in 1..(ConnAttempts + 1)
  /\ backoff \in BaseRetryDelay..MaxRetryDelay  \* rand.Int64N panics at 0
  /\ pool \in {"none", "open", "closing", "closed"}
  /\ failed \in BOOLEAN /\ code \in {"none", "ok", "error"}
  /\ ctxDone \in BOOLEAN /\ stop \in BOOLEAN
  /\ err \in [DOMAIN Group -> Cause]
  /\ at \in [Routine -> {"none", "run", "serve", "watch", "stopping", "read",
                         "work", "ended"}]
  /\ shutting \in BOOLEAN
  /\ request \in [Request -> {"none", "open", "query"}]

\* The pool is open as long as a Kafka goroutine works on a message, whatever
\* makes Run return.
PoolOutlivesWork == \A r \in Kafka : at[r] = "work" => pool = "open"

\* As long as nobody cancels the context of main, which main itself does only after
\* Run has returned, Run never reports the cancellation that a failing server caused
\* in the others instead of that failure.
CauseKept == err["app"] = "canceled" => ctxDone

\* The failure of either server, or a signal, ends both Kafka goroutines, when
\* ever in the start of the process it comes.
WorkStops ==
  Canceled("http") ~> ~Alive \/ \A r \in Kafka : at[r] = "ended"

\* A Run that fails ends the process, although requests are in flight and the
\* HTTP server keeps taking new ones.
FailedEnds == failed ~> ~Alive

\* When the HTTP server gets to act on the signal it ends, although requests are
\* in flight and its Shutdown runs under a context that has ended already.
ServerStops == at["watcher"] = "stopping" ~> ~Alive \/ at["server"] = "ended"

\* A signal ends the process.
SignalEnds == ctxDone ~> ~Alive
=============================================================================
