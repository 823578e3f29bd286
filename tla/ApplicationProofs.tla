-------------------------- MODULE ApplicationProofs --------------------------
(* Theorems about Application, for any number of requests, any retry limits  *)
(* of NewPostgres and any set of failures.                                   *)
EXTENDS Application, TLAPS

LEMMA Groups ==
  /\ DOMAIN Group = {"app", "http"}
  /\ Group["app"] = {"metrics", "server", "consumer", "processor"}
  /\ Group["http"] = {"listen", "watcher"}
  /\ Routine = {"metrics", "server", "consumer", "processor", "listen", "watcher"}
BY DEF Group, Routine, Kafka, HTTP

\* Connecting goes on only while attempts are left.
ConnInv == main \in {"load", "metrics", "database"} => attempt <= ConnAttempts

\* Run holds the pool open from initDatabase to closeDB, and the Kafka
\* goroutines run only while it waits for them.
PoolInv ==
  /\ main \in {"manager", "cache", "restore", "http", "reader", "dlq", "wait",
               "stopcache"} => pool = "open"
  /\ main # "wait" => \A r \in Kafka : at[r] \in {"none", "ended"}

\* A cancellation seen by the inner group comes from the outer one.
CauseInv ==
  /\ CauseKept
  /\ err["http"] = "canceled" => ctxDone \/ err["app"] # "none"

AppInv == AppTypeOK /\ ConnInv /\ PoolInv /\ CauseInv

LEMMA AppInit == Init => AppInv
<1> SUFFICES ASSUME Init PROVE AppInv
  OBVIOUS
<1>1. AppTypeOK
  <2>1. /\ attempt \in 1..(ConnAttempts + 1)
        /\ backoff \in BaseRetryDelay..MaxRetryDelay
    BY ApplicationAssumption DEF Init
  <2>2. /\ err \in [DOMAIN Group -> Cause]
        /\ request \in [Request -> {"none", "open", "query"}]
        /\ at \in [Routine -> {"none", "run", "serve", "watch", "stopping", "read",
                               "work", "ended"}]
    BY Groups DEF Init, Cause
  <2> QED BY <2>1, <2>2 DEF Init, AppTypeOK
<1>2. ConnInv
  BY ApplicationAssumption DEF Init, ConnInv
<1>3. PoolInv
  BY Groups DEF Init, PoolInv, Kafka
<1>4. CauseInv
  BY Groups DEF Init, CauseInv, CauseKept
<1> QED BY <1>1, <1>2, <1>3, <1>4 DEF AppInv

\* The steps of main and Run, and what they return to.
LEMMA MainTypes == AppInv /\ Main => AppTypeOK'
<1> SUFFICES ASSUME AppInv, Main PROVE AppTypeOK'
  OBVIOUS
<1> USE Groups DEF AppInv, AppTypeOK, endVars, connVars, ctxVars, goVars
<1>1. CASE Proceed
  BY <1>1 DEF Proceed, After
<1>2. CASE LoadFails
  BY <1>2 DEF LoadFails, Step
<1>3. CASE InitMetrics
  BY <1>3 DEF InitMetrics, Step, Start
<1>4. CASE Connect
  BY <1>4 DEF Connect, Step
<1>5. CASE ConnectFails
  BY <1>5, ApplicationAssumption DEF ConnectFails, ConnInv
<1>6. CASE InitFails
  BY <1>6 DEF InitFails
<1>7. CASE InitHTTPServer
  BY <1>7 DEF InitHTTPServer, Step, Start
<1>8. CASE InitKafka
  BY <1>8 DEF InitKafka, Step, Start
<1>9. CASE Wait
  BY <1>9 DEF Wait, Step
<1>10. CASE ClosePool
  BY <1>10 DEF ClosePool
<1>11. CASE Exit
  BY <1>11 DEF Exit, Step
<1>12. CASE Refuse
  BY <1>12 DEF Refuse, Step
<1>13. CASE RunReturns
  <2>1. ctxDone' \in BOOLEAN
    BY <1>13, Zenon DEF RunReturns
  <2>2. main' = "leave" /\ UNCHANGED <<connVars, pool, endVars, stop, err, goVars>>
    BY <1>13 DEF RunReturns, Step
  <2> QED BY <2>1, <2>2
<1> QED BY <1>1, <1>2, <1>3, <1>4, <1>5, <1>6, <1>7, <1>8, <1>9, <1>10, <1>11, <1>12,
        <1>13
        DEF Main

LEMMA MainKeeps == AppInv /\ Main => AppInv'
<1> SUFFICES ASSUME AppInv, Main PROVE AppInv'
  OBVIOUS
<1>1. AppTypeOK'
  BY MainTypes
<1>2. err' = err /\ (ctxDone => ctxDone')
  <2>1. CASE RunReturns
    BY <2>1, Zenon DEF RunReturns
  <2>2. CASE ~RunReturns
    BY <2>2
       DEF Main, Proceed, LoadFails, InitMetrics, Refuse, Connect, ConnectFails, InitFails,
           InitHTTPServer, InitKafka, Wait, ClosePool, Exit, ctxVars
  <2> QED BY <2>1, <2>2
<1>3. CauseInv'
  BY <1>2 DEF AppInv, CauseInv, CauseKept
<1>4. ConnInv' /\ PoolInv'
  <2> USE DEF AppInv, AppTypeOK, ConnInv, PoolInv, connVars, endVars, goVars
  <2>1. CASE Proceed
    BY <2>1 DEF Proceed, After
  <2>2. CASE LoadFails
    BY <2>2 DEF LoadFails, Step
  <2>3. CASE InitMetrics
    BY <2>3, Groups DEF InitMetrics, Step, Start, Kafka
  <2>4. CASE Connect
    BY <2>4 DEF Connect, Step
  <2>5. CASE ConnectFails
    BY <2>5, ApplicationAssumption DEF ConnectFails
  <2>6. CASE InitFails
    BY <2>6 DEF InitFails
  <2>7. CASE InitHTTPServer
    BY <2>7, Groups DEF InitHTTPServer, Step, Start, Kafka, HTTP
  <2>8. CASE InitKafka
    BY <2>8 DEF InitKafka, Step
  <2>9. CASE Wait
    BY <2>9, Groups DEF Wait, Step, Ended, Kafka
  <2>10. CASE ClosePool
    BY <2>10 DEF ClosePool
  <2>11. CASE Exit
    BY <2>11 DEF Exit, Step
  <2>12. CASE Refuse \/ RunReturns
    BY <2>12 DEF Refuse, RunReturns, Step
  <2> QED BY <2>1, <2>2, <2>3, <2>4, <2>5, <2>6, <2>7, <2>8, <2>9, <2>10, <2>11, <2>12
          DEF Main
<1> QED BY <1>1, <1>3, <1>4 DEF AppInv

\* What the goroutines and requests do to the state of Run: nothing.
LEMMA RunKeeps ==
  ASSUME AppInv, UNCHANGED mainVars, AppTypeOK', CauseInv',
         \A r \in Kafka : main # "wait" => at'[r] \in {"none", "ended"}
  PROVE  AppInv'
BY DEF AppInv, ConnInv, PoolInv, mainVars, connVars

\* A goroutine returns an error: the group keeps the first one.
LEMMA RecordKeeps ==
  ASSUME AppInv, NEW g \in {"app", "http"}, NEW c \in Cause \ {"none"},
         Record(g, c), ctxDone' = ctxDone,
         c = "canceled" => Canceled(g)
  PROVE  /\ err' \in [DOMAIN Group -> Cause]
         /\ CauseInv'
<1>1. /\ err \in [{"app", "http"} -> Cause]
      /\ err' = IF err[g] = "none" THEN [err EXCEPT ![g] = c] ELSE err
  BY Groups DEF AppInv, AppTypeOK, Record
<1>2. CauseInv'
  BY <1>1 DEF AppInv, CauseInv, CauseKept, Canceled
<1> QED BY <1>1, <1>2, Groups

\* A step that leaves the errors and the signal alone keeps their causes.
LEMMA SameCause ==
  ASSUME AppInv, err' = err, ctxDone' = ctxDone \/ ctxDone' = TRUE
  PROVE  CauseInv'
BY DEF AppInv, CauseInv, CauseKept

LEMMA HTTPKeeps == AppInv /\ (MetricsFails \/ HTTPServer) => AppInv'
<1> SUFFICES ASSUME AppInv, MetricsFails \/ HTTPServer PROVE AppInv'
  OBVIOUS
<1>1. UNCHANGED mainVars /\ UNCHANGED request /\ ctxDone' = ctxDone
  BY DEF MetricsFails, HTTPServer, Listen, ListenFails, ListenCloses, Notify,
         WatcherStops, WatcherLeaves, ShutdownEnds, ServerEnds, ctxVars
<1>2. \E r \in {"metrics", "listen", "watcher", "server"},
         l \in {"serve", "watch", "stopping", "ended"} : at' = [at EXCEPT ![r] = l]
  BY DEF MetricsFails, HTTPServer, Listen, ListenFails, ListenCloses, Notify,
         WatcherStops, WatcherLeaves, ShutdownEnds, ServerEnds, Returns, Goto
<1>3. stop' \in BOOLEAN /\ shutting' \in BOOLEAN
  BY DEF AppInv, AppTypeOK, MetricsFails, HTTPServer, Listen, ListenFails, ListenCloses,
         Notify, WatcherStops, WatcherLeaves, ShutdownEnds, ServerEnds, ctxVars
<1>4. err' \in [DOMAIN Group -> Cause] /\ CauseInv'
  <2>0. ASSUME err' = err PROVE err' \in [DOMAIN Group -> Cause] /\ CauseInv'
    BY <1>1, <2>0, SameCause DEF AppInv, AppTypeOK
  <2>1. CASE MetricsFails
    BY <1>1, <2>1, RecordKeeps DEF MetricsFails, Returns, Cause
  <2>2. CASE ListenFails
    BY <1>1, <2>2, RecordKeeps DEF ListenFails, Returns, Cause
  <2>3. CASE WatcherLeaves
    BY <1>1, <2>3, RecordKeeps DEF WatcherLeaves, Returns, Cause
  <2>4. CASE ShutdownEnds
    BY <1>1, <2>0, <2>4, RecordKeeps DEF ShutdownEnds, Returns, Cause
  <2>5. CASE ServerEnds
    <3>1. err["http"] \in Cause
      BY Groups DEF AppInv, AppTypeOK
    <3>2. CASE err["http"] # "none"
      <4>1. Record("app", err["http"])
        BY <2>5, <3>2 DEF ServerEnds, Returns
      <4>2. err["http"] = "canceled" => Canceled("app")
        BY DEF AppInv, CauseInv, Canceled
      <4> QED BY <1>1, <3>1, <3>2, <4>1, <4>2, RecordKeeps
    <3> QED BY <2>0, <2>5, <3>2 DEF ServerEnds
  <2>6. CASE Listen \/ ListenCloses \/ Notify \/ WatcherStops
    BY <2>0, <2>6 DEF Listen, ListenCloses, Notify, WatcherStops, ctxVars
  <2> QED BY <2>1, <2>2, <2>3, <2>4, <2>5, <2>6 DEF HTTPServer
<1>5. AppTypeOK'
  BY <1>1, <1>2, <1>3, <1>4, Groups DEF AppInv, AppTypeOK, mainVars, connVars, endVars
<1>6. \A r \in Kafka : at'[r] = at[r]
  BY <1>2, Groups DEF AppInv, AppTypeOK, Kafka
<1> QED BY <1>1, <1>4, <1>5, <1>6, RunKeeps DEF AppInv, PoolInv

LEMMA KafkaKeeps ==
  ASSUME AppInv, NEW r \in Kafka, Take(r) \/ Release(r) \/ KafkaEnds(r)
  PROVE  AppInv'
<1>1. UNCHANGED mainVars /\ UNCHANGED <<ctxDone, stop, shutting, request>>
  BY DEF Take, Release, KafkaEnds, ctxVars
<1>2. \E l \in {"read", "work", "ended"} : at' = [at EXCEPT ![r] = l]
  BY DEF Take, Release, KafkaEnds, Returns, Goto
<1>3. at[r] \notin {"none", "ended"}
  BY DEF Take, Release, KafkaEnds
<1>4. err' \in [DOMAIN Group -> Cause] /\ CauseInv'
  <2>1. CASE err' = err
    BY <1>1, <2>1, SameCause DEF AppInv, AppTypeOK
  <2>2. CASE Record("app", "canceled") /\ Canceled("app")
    BY <1>1, <2>2, RecordKeeps DEF Cause
  <2> QED BY <2>1, <2>2 DEF Take, Release, KafkaEnds, Returns, ctxVars
<1>5. AppTypeOK'
  <2>1. at' \in [Routine -> {"none", "run", "serve", "watch", "stopping", "read",
                            "work", "ended"}]
    BY <1>2 DEF AppInv, AppTypeOK
  <2> QED BY <1>1, <1>4, <2>1, Groups DEF AppInv, AppTypeOK, mainVars, connVars, endVars
<1>6. main = "wait"
  BY <1>3 DEF AppInv, PoolInv
<1>7. \A q \in Kafka : main # "wait" => at'[q] \in {"none", "ended"}
  BY <1>6
<1> HIDE DEF Kafka
<1> QED BY <1>1, <1>4, <1>5, <1>7, RunKeeps

LEMMA OthersKeep ==
  ASSUME AppInv,
         Signal \/ \E r \in Request : Accept(r) \/ Query(r) \/ Answer(r)
  PROVE  AppInv'
<1>1. UNCHANGED mainVars /\ UNCHANGED <<err, at, shutting>>
  BY DEF Signal, Accept, Query, Answer, ctxVars, goVars
<1>2. CauseInv'
  BY <1>1, SameCause DEF Signal, Accept, Query, Answer, ctxVars
<1>3. AppTypeOK'
  <2>1. CASE Signal
    BY <1>1, <2>1 DEF Signal, AppInv, AppTypeOK, mainVars, connVars, endVars, goVars
  <2>2. ASSUME NEW r \in Request, Accept(r) \/ Query(r) \/ Answer(r) PROVE AppTypeOK'
    <3>1. /\ \E l \in {"open", "query", "none"} : request' = [request EXCEPT ![r] = l]
          /\ UNCHANGED ctxVars
      BY <2>2 DEF Accept, Query, Answer, Move
    <3> QED BY <1>1, <3>1 DEF AppInv, AppTypeOK, mainVars, connVars, endVars, ctxVars
  <2> QED BY <2>1, <2>2
<1> QED BY <1>1, <1>2, <1>3, RunKeeps DEF AppInv, PoolInv

LEMMA AppStep == AppInv /\ [Next]_vars => AppInv'
<1> SUFFICES ASSUME AppInv, [Next]_vars PROVE AppInv'
  OBVIOUS
<1>1. CASE UNCHANGED vars
  BY <1>1 DEF vars, mainVars, connVars, endVars, ctxVars, goVars, AppInv, AppTypeOK,
              ConnInv, PoolInv, CauseInv, CauseKept
<1> QED BY <1>1, MainKeeps, HTTPKeeps, KafkaKeeps, OthersKeep DEF Next

\* Every reachable state of the process is well typed; NewPostgres never
\* draws its jitter from an empty range.
THEOREM ApplicationTypes == Spec => []AppTypeOK
<1>1. AppInv => AppTypeOK
  BY DEF AppInv
<1> QED BY <1>1, AppInit, AppStep, PTL DEF Spec

\* The pool is open whenever a Kafka goroutine works on a message, on every
\* path that makes Run return.
THEOREM PoolOutlivesWorkTheorem == Spec => []PoolOutlivesWork
<1>1. AppInv => PoolOutlivesWork
  BY DEF AppInv, PoolInv, PoolOutlivesWork
<1> QED BY <1>1, AppInit, AppStep, PTL DEF Spec

\* Without a signal Run reports the failure that came first, never the
\* cancellation it caused in the two nested errgroups.
THEOREM CauseKeptTheorem == Spec => []CauseKept
<1>1. AppInv => CauseKept
  BY DEF AppInv, CauseInv
<1> QED BY <1>1, AppInit, AppStep, PTL DEF Spec
-----------------------------------------------------------------------------
(* How the process ends                                                     *)

\* The metrics server ends only by failing, so the errgroup ends only with an
\* error; every other way out of Run is a failure too.
EndInv ==
  /\ at["metrics"] = "ended" => err["app"] # "none" /\ MayFail("metrics")
  /\ main \in {"stopcache", "closedb", "return", "leave"} => failed
  /\ code = "ok" => failed
  /\ code # "none" => main = "exited"

LEMMA EndInit == Init => EndInv
BY Groups DEF Init, EndInv

LEMMA EndMain == AppInv /\ EndInv /\ Alive /\ Main => EndInv'
<1> SUFFICES ASSUME AppInv, EndInv, Alive, Main PROVE EndInv'
  OBVIOUS
<1>1. err' = err
  BY DEF Main, Proceed, LoadFails, InitMetrics, Refuse, Connect, ConnectFails, InitFails,
         InitHTTPServer, InitKafka, Wait, ClosePool, RunReturns, Exit, ctxVars
<1>2. at'["metrics"] # "ended" \/ at'["metrics"] = at["metrics"]
  BY Groups DEF Main, Proceed, LoadFails, InitMetrics, Refuse, Connect, ConnectFails,
         InitFails, InitHTTPServer, InitKafka, Wait, ClosePool, RunReturns, Exit, goVars,
         Start, Kafka, HTTP
<1>3. at'["metrics"] = "ended" => err'["app"] # "none" /\ MayFail("metrics")
  BY <1>1, <1>2 DEF EndInv
<1>4. /\ main' \in {"stopcache", "closedb", "return", "leave"} => failed'
      /\ code' = "ok" => failed'
      /\ code' # "none" => main' = "exited"
  <2> USE DEF EndInv, Alive, endVars
  <2>0. code = "none"
    OBVIOUS
  <2>1. CASE Proceed
    <3>1. /\ main' = "closedb" => main = "stopcache"
          /\ main' \notin {"stopcache", "return", "leave"}
      BY <2>1 DEF Proceed, After
    <3> QED BY <2>0, <2>1, <3>1 DEF Proceed
  <2>2. CASE LoadFails \/ InitMetrics \/ Connect \/ InitHTTPServer \/ InitKafka
    BY <2>0, <2>2
       DEF LoadFails, InitMetrics, Connect, InitHTTPServer, InitKafka, Step
  <2>3. CASE ConnectFails
    <3>1. attempt \in Nat /\ attempt <= ConnAttempts
      BY <2>3, ApplicationAssumption DEF ConnectFails, AppInv, AppTypeOK, ConnInv
    <3>2. main' = "return" => attempt = ConnAttempts
      BY <2>3, <3>1, ApplicationAssumption DEF ConnectFails
    <3>3. attempt = ConnAttempts => failed'
      BY <2>3, Zenon DEF ConnectFails
    <3>4. main' \in {"database", "return"} /\ code' = "none"
      BY <2>0, <2>3 DEF ConnectFails
    <3> QED BY <3>2, <3>3, <3>4
  <2>4. CASE InitFails \/ Refuse \/ ClosePool \/ RunReturns \/ Exit
    BY <2>0, <2>4 DEF InitFails, Refuse, ClosePool, RunReturns, Exit, Step
  <2>5. CASE Wait
    <3>1. err["app"] # "none"
      BY <2>5, Groups DEF Wait, Ended
    <3> QED BY <2>0, <2>5, <3>1 DEF Wait, Step
  <2> QED BY <2>1, <2>2, <2>3, <2>4, <2>5 DEF Main
<1> QED BY <1>3, <1>4 DEF EndInv

LEMMA EndOthers ==
  ASSUME AppInv, EndInv,
         \/ MetricsFails \/ HTTPServer \/ Signal
         \/ \E r \in Kafka : Take(r) \/ Release(r) \/ KafkaEnds(r)
         \/ \E r \in Request : Accept(r) \/ Query(r) \/ Answer(r)
  PROVE  EndInv'
<1> USE DEF ctxVars, goVars
<1>1. UNCHANGED mainVars
  BY DEF MetricsFails, HTTPServer, Listen, ListenFails, ListenCloses, Notify,
         WatcherStops, WatcherLeaves, ShutdownEnds, ServerEnds, Signal, Take, Release,
         KafkaEnds, Accept, Query, Answer
<1>2. err \in [{"app", "http"} -> Cause]
  BY Groups DEF AppInv, AppTypeOK
<1>3. ASSUME NEW g \in {"app", "http"}, NEW c \in Cause \ {"none"}, Record(g, c)
      PROVE  err["app"] # "none" => err'["app"] # "none"
  BY <1>2, <1>3 DEF Record
<1>4. err["app"] # "none" => err'["app"] # "none"
  <2>1. CASE MetricsFails \/ ListenFails \/ WatcherLeaves \/ ShutdownEnds
    BY <1>3, <2>1
       DEF MetricsFails, ListenFails, WatcherLeaves, ShutdownEnds, Returns, Cause
  <2>2. CASE ServerEnds
    BY <1>2, <1>3, <2>2 DEF ServerEnds, Returns
  <2>3. ASSUME NEW r \in Kafka, Take(r) \/ Release(r) \/ KafkaEnds(r)
        PROVE  err["app"] # "none" => err'["app"] # "none"
    BY <1>3, <2>3 DEF Take, Release, KafkaEnds, Returns, Cause
  <2>4. CASE \/ Listen \/ ListenCloses \/ Notify \/ WatcherStops \/ Signal
             \/ \E r \in Request : Accept(r) \/ Query(r) \/ Answer(r)
    BY <2>4 DEF Listen, ListenCloses, Notify, WatcherStops, Signal, Accept, Query,
                Answer
  <2> QED BY <2>1, <2>2, <2>3, <2>4 DEF HTTPServer
<1>5. CASE MetricsFails
  <2>1. err'["app"] # "none" /\ MayFail("metrics")
    BY <1>2, <1>5 DEF MetricsFails, Returns, Record
  <2> QED BY <1>1, <2>1 DEF EndInv, mainVars, endVars
<1>6. CASE ~MetricsFails
  <2>1. at'["metrics"] = at["metrics"]
    BY <1>6, Groups
       DEF AppInv, AppTypeOK, HTTPServer, Listen, ListenFails, ListenCloses, Notify,
           WatcherStops, WatcherLeaves, ShutdownEnds, ServerEnds, Signal, Take,
           Release, KafkaEnds, Accept, Query, Answer, Returns, Goto, Kafka
  <2> QED BY <1>1, <1>4, <2>1 DEF EndInv, mainVars, endVars
<1> QED BY <1>5, <1>6

LEMMA EndStep == AppInv /\ EndInv /\ [Next]_vars => EndInv'
<1> SUFFICES ASSUME AppInv, EndInv, [Next]_vars PROVE EndInv'
  OBVIOUS
<1>1. CASE UNCHANGED vars
  BY <1>1 DEF vars, mainVars, endVars, ctxVars, goVars, EndInv
<1> QED BY <1>1, EndMain, EndOthers DEF Next

LEMMA EndAlways == Spec => [](AppInv /\ EndInv)
BY AppInit, AppStep, EndInit, EndStep, PTL DEF Spec

\* Exit code 0 is never the end of a shutdown that went well.
OkHidesFailure == code = "ok" => failed

\* Whenever the process ends with exit code 0 its Run has failed (main.go logs
\* the error and returns): a supervisor that restarts on failure never sees one
\* unless the configuration or the logger fails.
THEOREM OkHidesFailureTheorem == Spec => []OkHidesFailure
<1>1. EndInv => OkHidesFailure
  BY DEF EndInv, OkHidesFailure
<1> QED BY <1>1, EndAlways, PTL

\* Unless the metrics server fails, Run never comes back from eg.Wait: SIGTERM and
\* the failure of any other component end the work but not the process, because
\* nothing tells the metrics server to stop.
THEOREM WaitsForeverTheorem ==
  ASSUME "metrics" \notin Failures
  PROVE  Spec => [][main = "wait" => main' = "wait"]_vars
<1>1. ASSUME AppInv, EndInv, [Next]_vars
      PROVE  [main = "wait" => main' = "wait"]_vars
  <2> SUFFICES ASSUME main = "wait", Next PROVE main' = "wait"
    BY <1>1
  <2>1. at["metrics"] # "ended"
    BY <1>1 DEF EndInv, MayFail
  <2>2. CASE Main
    BY <2>1, <2>2, Groups
       DEF Main, Proceed, After, LoadFails, InitMetrics, Refuse, Connect, ConnectFails,
           InitFails, InitHTTPServer, InitKafka, Wait, ClosePool, RunReturns, Exit, Step,
           Ended
  <2>3. CASE ~Main
    BY <2>3 DEF Next, MetricsFails, HTTPServer, Listen, ListenFails, ListenCloses,
         Notify, WatcherStops, WatcherLeaves, ShutdownEnds, ServerEnds, Signal, Take,
         Release, KafkaEnds, Accept, Query, Answer, mainVars
  <2> QED BY <2>2, <2>3
<1> QED BY <1>1, EndAlways, PTL DEF Spec
=============================================================================
