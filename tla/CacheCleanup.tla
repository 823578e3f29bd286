---------------------------- MODULE CacheCleanup ----------------------------
(* pkg/cache/lru.go: StartCleanup, StopCleanup and the goroutines that run   *)
(* runCleanup, around the operations of LRUCache.  The goroutine reads       *)
(* c.cleanupStop without the mutex each time it enters its select; the       *)
(* channel StartCleanup makes is named after the goroutine it starts.        *)
EXTENDS LRUCache

CONSTANTS Cleaner,   \* goroutines StartCleanup may start
          NoChannel  \* nil: a receive from it blocks forever

ASSUME CleanerAssumption == NoChannel \notin Cleaner

VARIABLES cleanupStop,  \* c.cleanupStop
          closed,       \* the channels that are closed
          at,           \* [Cleaner -> where the goroutine is]
          stop          \* [Cleaner -> the channel its select waits for]

cleanerVars == <<cleanupStop, closed, at, stop>>
allVars == <<vars, cleanerVars>>

Channel == Cleaner \cup {NoChannel}

CInit ==
  /\ Init
  /\ cleanupStop = NoChannel
  /\ closed = {}
  /\ at = [c \in Cleaner |-> "none"]
  /\ stop = [c \in Cleaner |-> NoChannel]

Close(ch) == closed' = closed \cup ({ch} \ {NoChannel})

\* Mutant: a second start leaves the first goroutine with an open channel.
StartOver(c) ==
  /\ Unlocked /\ at[c] = "none"
  /\ cleanupStop' = c
  /\ at' = [at EXCEPT ![c] = "loop"]
  /\ UNCHANGED <<vars, closed, stop>>

StartCleanup(c) ==
  /\ Unlocked /\ at[c] = "none"
  /\ Close(cleanupStop)
  /\ cleanupStop' = c
  /\ at' = [at EXCEPT ![c] = "loop"]
  /\ UNCHANGED <<vars, stop>>

\* Mutant: the closed channel stays in the field.
StopKeeps ==
  /\ Unlocked /\ cleanupStop # NoChannel
  /\ Close(cleanupStop)
  /\ UNCHANGED <<vars, cleanupStop, at, stop>>

StopCleanup ==
  /\ Unlocked /\ cleanupStop # NoChannel
  /\ Close(cleanupStop)
  /\ cleanupStop' = NoChannel
  /\ UNCHANGED <<vars, at, stop>>

Goto(c, l) == at' = [at EXCEPT ![c] = l] /\ UNCHANGED <<cleanupStop, closed, stop>>

\* The select evaluates c.cleanupStop and blocks.
Select(c) ==
  /\ at[c] = "loop"
  /\ at' = [at EXCEPT ![c] = "wait"]
  /\ stop' = [stop EXCEPT ![c] = cleanupStop]
  /\ UNCHANGED <<vars, cleanupStop, closed>>

Leave(c, l) ==
  /\ at[c] = "wait"
  /\ at' = [at EXCEPT ![c] = l]
  /\ stop' = [stop EXCEPT ![c] = NoChannel]
  /\ UNCHANGED <<vars, cleanupStop, closed>>

\* ticker.C is ready; with the channel closed too, the select takes either.
TickerFires(c) == Leave(c, "clean")
Stopped(c)     == stop[c] \in closed /\ Leave(c, "ended")

\* Mutant: the entries are collected without the mutex.
CleanupUnlocked(c) ==
  \/ /\ at[c] = "clean" /\ sweep' = {k \in Held : T!Expired(cache[k], now)}
     /\ UNCHANGED <<now, cache, lru, pending, reply, since>>
     /\ Goto(c, IF sweep' = {} THEN "loop" ELSE "sweep")
  \/ /\ at[c] = "sweep" /\ SweepOne
     /\ Goto(c, IF sweep' = {} THEN "loop" ELSE "sweep")

\* Mutant: the goroutine leaves after its first cleanup.
CleanupOnce(c) ==
  \/ /\ at[c] = "clean" /\ Collect
     /\ Goto(c, IF sweep' = {} THEN "ended" ELSE "sweep")
  \/ /\ at[c] = "sweep" /\ SweepOne
     /\ Goto(c, IF sweep' = {} THEN "ended" ELSE "sweep")

\* cleanupExpired from taking the mutex to releasing it.
CleanupExpired(c) ==
  \/ /\ at[c] = "clean" /\ Collect
     /\ Goto(c, IF sweep' = {} THEN "loop" ELSE "sweep")
  \/ /\ at[c] = "sweep" /\ SweepOne
     /\ Goto(c, IF sweep' = {} THEN "loop" ELSE "sweep")

RunCleanup(c) == Select(c) \/ TickerFires(c) \/ Stopped(c) \/ CleanupExpired(c)

\* What the other goroutines do to the cache, and time.
Use == /\ \/ \E k \in Key : \/ Get(k) \/ Has(k)
                            \/ \E v \in Value, ttl \in TTL : Put(k, v, ttl)
          \/ \E p \in Purger : Purge(p) \/ Report(p)
          \/ Tick
       /\ UNCHANGED cleanerVars

CNext == \/ Use \/ StopCleanup
         \/ \E c \in Cleaner : StartCleanup(c) \/ RunCleanup(c)

CSpec == CInit /\ [][CNext]_allVars

-----------------------------------------------------------------------------
(* Properties                                                               *)

CTypeOK ==
  /\ TypeOK
  /\ cleanupStop \in Channel
  /\ closed \subseteq Cleaner
  /\ at \in [Cleaner -> {"none", "loop", "wait", "clean", "sweep", "ended"}]
  /\ stop \in [Cleaner -> Channel]

\* Every channel ever made is either the one in the field or closed, never both:
\* no goroutine is left with a channel nobody will close, and none is closed
\* twice, which would end the process.
ChannelsTracked ==
  /\ \A c \in Cleaner : at[c] # "none" => c \in closed \cup {cleanupStop}
  /\ cleanupStop \notin closed

\* As long as the cleanup is on, the goroutine started last is alive and waits
\* for no other channel than its own, although the older ones read the field
\* too and may wait for it.
CleanerAlive ==
  cleanupStop # NoChannel =>
    /\ at[cleanupStop] \notin {"none", "ended"}
    /\ at[cleanupStop] = "wait" => stop[cleanupStop] = cleanupStop

\* One goroutine at a time sweeps, and the mutex is held exactly then.
OneSweeper ==
  /\ \A c, d \in Cleaner : at[c] = "sweep" /\ at[d] = "sweep" => c = d
  /\ (sweep # {}) <=> \E c \in Cleaner : at[c] = "sweep"

\* With its cleanup goroutines the cache does nothing LRUCache does not allow.
IsLRUCache == Spec
=============================================================================
