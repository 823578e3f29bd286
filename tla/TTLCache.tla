------------------------------ MODULE TTLCache ------------------------------
(* What a user of cache.Cache may rely on: a hit is the value last put under *)
(* the key and its time has not run out; a live entry disappears only when   *)
(* another key needs its place or everything is purged.  Which entry has to  *)
(* go, and when an expired one does, is left open.                           *)
EXTENDS Naturals, FiniteSets

CONSTANTS Key, Value,
          Capacity,   \* number of entries the cache holds
          TTL,        \* the times to live users ask for; 0 for no expiry
          MaxTime,    \* bound: the clock stops here
          NoEntry

VARIABLES now,        \* time.Now()
          content,    \* [Key -> Entry \cup {NoEntry}]
          reply       \* what the last call returned

Entry == [value : Value, expires : Nat]

NewEntry(v, ttl, t) ==
  [value |-> v, expires |-> IF ttl > 0 THEN t + ttl ELSE 0]

\* !entry.expires.IsZero() && time.Now().After(entry.expires)
Expired(e, t) == e.expires # 0 /\ t > e.expires

\* entry.expires.IsZero() || time.Now().Before(entry.expires)
Unexpired(e, t) == e.expires = 0 \/ t < e.expires

Done      == [kind |-> "done", key |-> NoEntry, value |-> NoEntry]
Miss(k)   == [kind |-> "miss", key |-> k,       value |-> NoEntry]
Hit(k, v) == [kind |-> "hit",  key |-> k,       value |-> v]
Says(k, b) == [kind |-> "has",  key |-> k,       value |-> b]

Held == {k \in Key : content[k] # NoEntry}

Init == now = 1 /\ content = [k \in Key |-> NoEntry] /\ reply = Done

\* A new key in a full cache costs one other entry, nothing else costs any.
Victims(k) == IF k \notin Held /\ Cardinality(Held) = Capacity
              THEN {{j} : j \in Held} ELSE {{}}

Put(k, v, ttl) ==
  /\ \E gone \in Victims(k) :
       content' = [j \in Key |-> IF j = k THEN NewEntry(v, ttl, now)
                                 ELSE IF j \in gone THEN NoEntry ELSE content[j]]
  /\ reply' = Done
  /\ UNCHANGED now

Get(k) ==
  /\ IF k \in Held /\ ~Expired(content[k], now)
     THEN reply' = Hit(k, content[k].value) /\ UNCHANGED content
     ELSE reply' = Miss(k) /\ content' = [content EXCEPT ![k] = NoEntry]
  /\ UNCHANGED now

\* Has may call an entry expired at the very instant at which Get still hits.
Has(k) ==
  /\ \E b \in BOOLEAN :
       /\ reply' = Says(k, b)
       /\ b => k \in Held /\ ~Expired(content[k], now)
       /\ ~b /\ k \in Held => content[k].expires # 0 /\ now >= content[k].expires
  /\ UNCHANGED <<now, content>>

Forget(k) ==
  /\ k \in Held /\ Expired(content[k], now)
  /\ content' = [content EXCEPT ![k] = NoEntry]
  /\ UNCHANGED <<now, reply>>

Purge ==
  /\ content' = [k \in Key |-> NoEntry]
  /\ reply' = Done
  /\ UNCHANGED now

Tick == now < MaxTime /\ now' = now + 1 /\ UNCHANGED <<content, reply>>

Next == \/ \E k \in Key : \/ \E v \in Value, ttl \in TTL : Put(k, v, ttl)
                          \/ Get(k) \/ Has(k) \/ Forget(k)
        \/ Purge \/ Tick

Spec == Init /\ [][Next]_<<now, content, reply>>
=============================================================================
