------------------------------ MODULE LRUCache ------------------------------
(* pkg/cache/lru.go: a map, a list of the same entries in order of use, and  *)
(* a mutex.  One action is one critical section; cleanupExpired, which       *)
(* removes its entries one by one in the order of a map iteration, keeps the *)
(* mutex over several steps.  Purge empties the cache under the mutex and    *)
(* calls onEvicted after releasing it.                                       *)
EXTENDS SequencesExt

CONSTANTS Key, Value, Capacity, TTL, MaxTime, NoEntry,
          Purger       \* goroutines that call Purge

ASSUME CacheAssumption ==
  /\ Capacity \in Nat \ {0}       \* NewLRUCache refuses the others
  /\ TTL \subseteq Nat
  /\ MaxTime \in Nat
  /\ NoEntry \notin [value : Value, expires : Nat]

VARIABLES now,       \* time.Now()
          cache,     \* [Key -> Entry \cup {NoEntry}]
          lru,       \* keys of lruList, front (last used) first
          sweep,     \* toRemove of the cleanup in progress, {} when there is none
          pending,   \* [Purger -> entries Purge has yet to pass to onEvicted]
          reply,     \* what the last call returned
          since      \* history: keys used since each key was last used

vars == <<now, cache, lru, sweep, pending, reply, since>>

T == INSTANCE TTLCache WITH content <- cache

Entry == [value : Value, expires : Nat]
Held  == {k \in Key : cache[k] # NoEntry}

Unlocked == sweep = {}

Init ==
  /\ now = 1
  /\ cache = [k \in Key |-> NoEntry]
  /\ lru = <<>>
  /\ sweep = {}
  /\ pending = [p \in Purger |-> <<>>]
  /\ reply = T!Done
  /\ since = [k \in Key |-> {}]

Touch(k) == since' = [j \in Key |-> IF j = k THEN {} ELSE since[j] \cup {k}]

MovedToFront(k) == <<k>> \o RemoveFirst(lru, k)

\* Mutant: the entry leaves the list and stays in the map.
RemoveFromList(k) ==
  /\ lru' = RemoveFirst(lru, k)
  /\ UNCHANGED cache

RemoveElement(k) ==
  /\ lru' = RemoveFirst(lru, k)
  /\ cache' = [cache EXCEPT ![k] = NoEntry]

\* Mutant: a hit does not count as use.
GetUnmoved(k) ==
  /\ Unlocked
  /\ IF cache[k] = NoEntry
     THEN reply' = T!Miss(k) /\ UNCHANGED <<cache, lru, since>>
     ELSE IF T!Expired(cache[k], now)
     THEN reply' = T!Miss(k) /\ RemoveElement(k) /\ UNCHANGED since
     ELSE /\ reply' = T!Hit(k, cache[k].value)
          /\ Touch(k)
          /\ UNCHANGED <<cache, lru>>
  /\ UNCHANGED <<now, sweep, pending>>

Get(k) ==
  /\ Unlocked
  /\ IF cache[k] = NoEntry
     THEN reply' = T!Miss(k) /\ UNCHANGED <<cache, lru, since>>
     ELSE IF T!Expired(cache[k], now)
     THEN reply' = T!Miss(k) /\ RemoveElement(k) /\ UNCHANGED since
     ELSE /\ reply' = T!Hit(k, cache[k].value)
          /\ lru' = MovedToFront(k)
          /\ Touch(k)
          /\ UNCHANGED cache
  /\ UNCHANGED <<now, sweep, pending>>

\* Overwriting keeps the element; a new key first makes room: removeOldest.
Overwrite(k, e) ==
  /\ cache[k] # NoEntry
  /\ lru' = MovedToFront(k)
  /\ cache' = [cache EXCEPT ![k] = e]

\* Mutant: the list element is pushed without its key.
InsertUnkeyed(k, e) ==
  /\ cache[k] = NoEntry
  /\ lru' = <<NoEntry>> \o (IF Len(lru) >= Capacity THEN Front(lru) ELSE lru)
  /\ cache' = [cache EXCEPT ![k] = e]

Insert(k, e) ==
  LET full == Len(lru) >= Capacity IN
  /\ cache[k] = NoEntry
  /\ lru' = <<k>> \o (IF full THEN Front(lru) ELSE lru)
  /\ cache' = [j \in Key |-> IF j = k THEN e
                             ELSE IF full /\ j = Last(lru) THEN NoEntry ELSE cache[j]]

Put(k, v, ttl) ==
  /\ Unlocked
  /\ Overwrite(k, T!NewEntry(v, ttl, now)) \/ Insert(k, T!NewEntry(v, ttl, now))
  /\ Touch(k)
  /\ reply' = T!Done
  /\ UNCHANGED <<now, sweep, pending>>

Has(k) ==
  /\ Unlocked
  /\ reply' = T!Says(k, cache[k] # NoEntry /\ T!Unexpired(cache[k], now))
  /\ UNCHANGED <<now, cache, lru, sweep, pending, since>>

\* The entries are collected in the order of a map iteration.
Purge(p) ==
  /\ Unlocked /\ pending[p] = <<>>
  /\ \E s \in SetToSeqs(Held) : pending' = [pending EXCEPT ![p] = s]
  /\ cache' = [k \in Key |-> NoEntry]
  /\ lru' = <<>>
  /\ reply' = T!Done
  /\ UNCHANGED <<now, sweep, since>>

\* onEvicted for one purged entry, without the mutex.
Report(p) ==
  /\ pending[p] # <<>>
  /\ pending' = [pending EXCEPT ![p] = Tail(@)]
  /\ UNCHANGED <<now, cache, lru, sweep, reply, since>>

\* Mutant: the cleanup forgets to ask whether an entry has a deadline.
CollectAll ==
  /\ Unlocked
  /\ sweep' = {k \in Held : now > cache[k].expires}
  /\ UNCHANGED <<now, cache, lru, pending, reply, since>>

\* cleanupExpired takes the mutex and collects what has expired.
Collect ==
  /\ Unlocked
  /\ sweep' = {k \in Held : T!Expired(cache[k], now)}
  /\ UNCHANGED <<now, cache, lru, pending, reply, since>>

\* It removes one of them, onEvicted included; after the last one it unlocks.
SweepOne ==
  /\ \E k \in sweep : RemoveElement(k) /\ sweep' = sweep \ {k}
  /\ UNCHANGED <<now, pending, reply, since>>

Tick == now < MaxTime /\ now' = now + 1
        /\ UNCHANGED <<cache, lru, sweep, pending, reply, since>>

Next ==
  \/ \E k \in Key : \/ Get(k) \/ Has(k)
                    \/ \E v \in Value, ttl \in TTL : Put(k, v, ttl)
  \/ \E p \in Purger : Purge(p) \/ Report(p)
  \/ Collect \/ SweepOne \/ Tick

Spec == Init /\ [][Next]_vars

-----------------------------------------------------------------------------
(* Properties                                                               *)

TypeOK ==
  /\ now \in Nat
  /\ cache \in [Key -> Entry \cup {NoEntry}]
  /\ lru \in Seq(Key)
  /\ sweep \in SUBSET Key
  /\ pending \in [Purger -> Seq(Key)]
  /\ since \in [Key -> SUBSET Key]

\* The map and the list hold the same entries, each once, and never more than
\* the capacity, whatever gets, puts, purges and cleanups interleave (lru.go
\* updates the two structures by separate statements in every operation).
Coherent ==
  /\ ToSet(lru) = Held
  /\ \A i, j \in DOMAIN lru : i # j => lru[i] # lru[j]
  /\ Len(lru) <= Capacity

\* An entry that a Put pushes out before its time is the least recently used
\* one: every other entry was got or put since (removeOldest).
EvictsOldest ==
  [][\A k \in Held :
       cache'[k] = NoEntry /\ ~T!Expired(cache[k], now) /\ pending' = pending =>
         Held \ {k} \subseteq since[k]]_vars

\* The cache keeps the promise of TTLCache.
ActsAsTTLCache == T!Spec

\* Purge reports the entries oldest first.
PurgesOldestFirst ==
  [][\A p \in Purger : pending[p] = <<>> /\ pending'[p] # <<>> =>
       pending'[p] = Reverse(lru)]_vars
=============================================================================
