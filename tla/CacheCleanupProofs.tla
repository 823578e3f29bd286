------------------------- MODULE CacheCleanupProofs -------------------------
(* Theorems about CacheCleanup, for any number of goroutines: what the       *)
(* cleanup goroutines do is a behaviour of LRUCache, so that its theorems    *)
(* hold with them too, and the life of the goroutines themselves.            *)
EXTENDS CacheCleanup, LRUCacheProofs

\* A channel exists from the start of its goroutine on, a goroutine holds one
\* only while it waits, and the older goroutines never wait for a channel that
\* nobody made.
CleanupInv ==
  /\ cleanupStop \in Channel
  /\ closed \subseteq Cleaner
  /\ at \in [Cleaner -> {"none", "loop", "wait", "clean", "sweep", "ended"}]
  /\ stop \in [Cleaner -> Channel]
  /\ \A c \in Cleaner : at[c] = "none" => c \notin closed /\ c # cleanupStop
  /\ ChannelsTracked
  /\ CleanerAlive
  /\ OneSweeper

LEMMA CleanupInit == CInit => CleanupInv
BY CleanerAssumption
   DEF CInit, Init, CleanupInv, Channel, ChannelsTracked, CleanerAlive, OneSweeper

\* The other goroutines leave the sweep alone.
LEMMA UseKeepsSweep == Use => sweep' = sweep /\ UNCHANGED cleanerVars
<1> SUFFICES ASSUME Use PROVE sweep' = sweep
  BY DEF Use
<1>1. ASSUME NEW k \in Key, Get(k) PROVE sweep' = sweep
  BY <1>1 DEF Get
<1>2. ASSUME NEW k \in Key, Has(k) PROVE sweep' = sweep
  BY <1>2 DEF Has
<1>3. ASSUME NEW k \in Key, NEW v \in Value, NEW ttl \in TTL, Put(k, v, ttl)
      PROVE  sweep' = sweep
  BY <1>3 DEF Put
<1>4. ASSUME NEW p \in Purger, Purge(p) PROVE sweep' = sweep
  BY <1>4 DEF Purge
<1>5. ASSUME NEW p \in Purger, Report(p) PROVE sweep' = sweep
  BY <1>5 DEF Report
<1>6. CASE Tick
  BY <1>6 DEF Tick
<1> QED BY <1>1, <1>2, <1>3, <1>4, <1>5, <1>6 DEF Use

LEMMA CleanupStep == CleanupInv /\ [CNext]_allVars => CleanupInv'
<1> SUFFICES ASSUME CleanupInv, [CNext]_allVars PROVE CleanupInv'
  OBVIOUS
<1> USE CleanerAssumption
<1>1. ASSUME sweep' = sweep, UNCHANGED cleanerVars PROVE CleanupInv'
  BY <1>1 DEF CleanupInv, cleanerVars, Channel, ChannelsTracked, CleanerAlive, OneSweeper
<1>2. CASE UNCHANGED allVars
  BY <1>1, <1>2 DEF allVars, vars
<1>3. CASE Use
  BY <1>1, <1>3, UseKeepsSweep
<1>4. CASE StopCleanup
  <2>1. /\ closed' = closed \cup {cleanupStop} /\ cleanupStop \in Cleaner
        /\ cleanupStop' = NoChannel
        /\ UNCHANGED <<sweep, at, stop>>
    BY <1>4 DEF StopCleanup, Close, CleanupInv, Channel, vars
  <2> QED BY <2>1 DEF CleanupInv, Channel, ChannelsTracked, CleanerAlive, OneSweeper
<1>5. ASSUME NEW c \in Cleaner, StartCleanup(c) PROVE CleanupInv'
  <2>1. /\ at[c] = "none" /\ at' = [at EXCEPT ![c] = "loop"]
        /\ closed' = closed \cup ({cleanupStop} \ {NoChannel})
        /\ cleanupStop' = c
        /\ UNCHANGED <<sweep, stop>>
    BY <1>5 DEF StartCleanup, Close, vars
  <2>2. c \notin closed /\ c # cleanupStop /\ c # NoChannel
    BY <2>1 DEF CleanupInv
  <2>3. OneSweeper'
    BY <2>1 DEF CleanupInv, OneSweeper
  <2>4. ChannelsTracked' /\ CleanerAlive'
    BY <2>1, <2>2 DEF CleanupInv, Channel, ChannelsTracked, CleanerAlive
  <2> QED BY <2>1, <2>2, <2>3, <2>4 DEF CleanupInv, Channel
<1>6. ASSUME NEW c \in Cleaner, RunCleanup(c) PROVE CleanupInv'
  <2>1. CASE Select(c)
    <3>1. /\ at[c] = "loop" /\ at' = [at EXCEPT ![c] = "wait"]
          /\ stop' = [stop EXCEPT ![c] = cleanupStop]
          /\ UNCHANGED <<sweep, cleanupStop, closed>>
      BY <2>1 DEF Select, vars
    <3>2. CleanerAlive' /\ ChannelsTracked' /\ OneSweeper'
      BY <3>1 DEF CleanupInv, Channel, ChannelsTracked, CleanerAlive, OneSweeper
    <3> QED BY <3>1, <3>2 DEF CleanupInv, Channel
  <2>2. ASSUME NEW l \in {"clean", "ended"}, Leave(c, l),
               l = "ended" => stop[c] \in closed
        PROVE  CleanupInv'
    <3>1. /\ at[c] = "wait" /\ at' = [at EXCEPT ![c] = l]
          /\ stop' = [stop EXCEPT ![c] = NoChannel]
          /\ UNCHANGED <<sweep, cleanupStop, closed>>
      BY <2>2 DEF Leave, vars
    <3>2. l = "ended" => c # cleanupStop
      BY <2>2, <3>1 DEF CleanupInv, ChannelsTracked, CleanerAlive, Channel
    <3>3. CleanerAlive'
      BY <3>1, <3>2 DEF CleanupInv, CleanerAlive, Channel
    <3>4. ChannelsTracked' /\ OneSweeper'
      BY <3>1 DEF CleanupInv, ChannelsTracked, OneSweeper
    <3> QED BY <3>1, <3>3, <3>4 DEF CleanupInv, Channel
  <2>3. CASE CleanupExpired(c)
    <3>1. /\ at[c] \in {"clean", "sweep"} /\ UNCHANGED <<cleanupStop, closed, stop>>
          /\ at' = [at EXCEPT ![c] = IF sweep' = {} THEN "loop" ELSE "sweep"]
      BY <2>3 DEF CleanupExpired, Goto
    <3>2. \A d \in Cleaner : at[d] = "sweep" => d = c
      BY <2>3 DEF CleanupExpired, Collect, Unlocked, CleanupInv, OneSweeper
    <3>3. OneSweeper'
      BY <3>1, <3>2 DEF CleanupInv, OneSweeper
    <3>4. ChannelsTracked' /\ CleanerAlive'
      BY <3>1 DEF CleanupInv, Channel, ChannelsTracked, CleanerAlive
    <3> QED BY <3>1, <3>3, <3>4 DEF CleanupInv
  <2> QED BY <1>6, <2>1, <2>2, <2>3 DEF RunCleanup, TickerFires, Stopped
<1> QED BY <1>2, <1>3, <1>4, <1>5, <1>6 DEF CNext

\* The cache with its cleanup goroutines refines LRUCache: cleanupExpired is
\* Collect and SweepOne, everything else they do leaves the cache alone.
THEOREM CleanupRefines == CSpec => IsLRUCache
<1>1. CInit => Init
  BY DEF CInit
<1>2. [CNext]_allVars => [Next]_vars
  <2> SUFFICES ASSUME [CNext]_allVars PROVE [Next]_vars
    OBVIOUS
  <2>1. CASE UNCHANGED allVars
    BY <2>1 DEF allVars
  <2>2. CASE Use
    BY <2>2 DEF Use, Next
  <2>3. CASE StopCleanup
    BY <2>3 DEF StopCleanup
  <2>4. ASSUME NEW c \in Cleaner, StartCleanup(c) PROVE UNCHANGED vars
    BY <2>4 DEF StartCleanup
  <2>5. ASSUME NEW c \in Cleaner, RunCleanup(c) PROVE [Next]_vars
    BY <2>5 DEF RunCleanup, Select, TickerFires, Stopped, Leave, CleanupExpired, Next
  <2> QED BY <2>1, <2>2, <2>3, <2>4, <2>5 DEF CNext
<1> QED BY <1>1, <1>2, PTL DEF CSpec, IsLRUCache, Spec

\* Every reachable state of the cache and its goroutines is well typed.
THEOREM CleanupTypes == CSpec => []CTypeOK
<1>1. TypeOK /\ CleanupInv => CTypeOK
  BY DEF CleanupInv, CTypeOK
<1>2. CSpec => []TypeOK
  BY CleanupRefines, CacheTypes DEF IsLRUCache
<1> QED BY <1>1, <1>2, CleanupInit, CleanupStep, PTL DEF CSpec

\* With any number of cleanup goroutines, overlapping restarts included, the
\* map and the list of lru.go still hold the same entries, each once.
THEOREM CleanupCoherent == CSpec => []Coherent
BY CleanupRefines, CoherentTheorem DEF IsLRUCache

\* ... and an entry is pushed out before its time only when every other was
\* used after it.
THEOREM CleanupEvictsOldest == CSpec => EvictsOldest
BY CleanupRefines, EvictsOldestTheorem DEF IsLRUCache

\* The cache with its cleanup goroutines keeps the promise of TTLCache.
THEOREM CleanupActsAsTTLCache == CSpec => ActsAsTTLCache
BY CleanupRefines, ActsAsTTLCacheTheorem DEF IsLRUCache

\* No goroutine of StartCleanup is left with a channel nobody will close, and
\* no channel is closed twice.
THEOREM ChannelsTrackedTheorem == CSpec => []ChannelsTracked
<1>1. CleanupInv => ChannelsTracked
  BY DEF CleanupInv
<1> QED BY <1>1, CleanupInit, CleanupStep, PTL DEF CSpec

\* The goroutine started last lives until StopCleanup or another StartCleanup,
\* although it reads c.cleanupStop without the mutex on every round.
THEOREM CleanerAliveTheorem == CSpec => []CleanerAlive
<1>1. CleanupInv => CleanerAlive
  BY DEF CleanupInv
<1> QED BY <1>1, CleanupInit, CleanupStep, PTL DEF CSpec

\* The mutex keeps the sweeps of overlapping cleanup goroutines apart.
THEOREM OneSweeperTheorem == CSpec => []OneSweeper
<1>1. CleanupInv => OneSweeper
  BY DEF CleanupInv
<1> QED BY <1>1, CleanupInit, CleanupStep, PTL DEF CSpec
=============================================================================
