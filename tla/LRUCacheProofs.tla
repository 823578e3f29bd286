--------------------------- MODULE LRUCacheProofs ---------------------------
(* Theorems about LRUCache, for every set of keys and values, capacity and   *)
(* number of goroutines.                                                    *)
EXTENDS LRUCache, SequenceTheorems, FiniteSetTheorems, TLAPS

Distinct(s) == \A i, j \in DOMAIN s : i # j => s[i] # s[j]

Before(s, x, y) == \E i, j \in DOMAIN s : i < j /\ s[i] = x /\ s[j] = y

\* Removing an element of a list without repetitions (container/list's Remove)
\* takes away exactly that element and keeps the order of the others.
LEMMA RemoveFirstFacts ==
  ASSUME NEW S, NEW s \in Seq(S), NEW e, Distinct(s)
  PROVE  /\ RemoveFirst(s, e) \in Seq(S)
         /\ Distinct(RemoveFirst(s, e))
         /\ ToSet(RemoveFirst(s, e)) = ToSet(s) \ {e}
         /\ Len(RemoveFirst(s, e)) = IF e \in ToSet(s) THEN Len(s) - 1 ELSE Len(s)
         /\ \A x, y : Before(RemoveFirst(s, e), x, y) => Before(s, x, y)
<1> DEFINE r == RemoveFirst(s, e)
<1>1. CASE e \in ToSet(s)
  <2>1. PICK k \in 1..Len(s) : s[k] = e
    BY <1>1 DEF ToSet
  <2>2. {i \in 1..Len(s) : s[i] = e} = {k}
    BY <2>1 DEF Distinct
  <2>3. Min({k}) = k
    BY DEF Min
  <2>4. SelectInSeq(s, LAMBDA v : v = e) = k
    BY <2>2, <2>3 DEF SelectInSeq
  <2>5. r = SubSeq(s, 1, k - 1) \o SubSeq(s, k + 1, Len(s))
    BY <2>1, <2>4 DEF RemoveFirst, RemoveAt
  <2>6. /\ r \in Seq(S)
        /\ Len(r) = Len(s) - 1
        /\ \A i \in 1..Len(r) : r[i] = IF i < k THEN s[i] ELSE s[i + 1]
    <3>1. /\ SubSeq(s, 1, k - 1) \in Seq(S)
          /\ Len(SubSeq(s, 1, k - 1)) = k - 1
          /\ \A i \in 1..(k - 1) : SubSeq(s, 1, k - 1)[i] = s[i]
      BY SubSeqProperties, ElementOfSeq
    <3>2. /\ SubSeq(s, k + 1, Len(s)) \in Seq(S)
          /\ Len(SubSeq(s, k + 1, Len(s))) = Len(s) - k
          /\ \A i \in 1..(Len(s) - k) : SubSeq(s, k + 1, Len(s))[i] = s[k + i]
      BY SubSeqProperties, ElementOfSeq
    <3> DEFINE s1 == SubSeq(s, 1, k - 1)
               s2 == SubSeq(s, k + 1, Len(s))
    <3>3. /\ r \in Seq(S)
          /\ Len(r) = Len(s1) + Len(s2)
          /\ \A i \in 1..(Len(s1) + Len(s2)) :
               r[i] = IF i <= Len(s1) THEN s1[i] ELSE s2[i - Len(s1)]
      <4> HIDE DEF r, s1, s2
      <4>1. r = s1 \o s2 /\ s1 \in Seq(S) /\ s2 \in Seq(S)
        BY <2>5, <3>1, <3>2 DEF s1, s2
      <4> QED BY <4>1, ConcatProperties
    <3>4. Len(r) = Len(s) - 1
      <4>1. Len(s) \in Nat /\ k \in 1..Len(s)
        BY <2>1
      <4>2. Len(s1) = k - 1 /\ Len(s2) = Len(s) - k /\ Len(r) = Len(s1) + Len(s2)
        BY <3>1, <3>2, <3>3
      <4> HIDE DEF r, s1, s2
      <4> QED BY <4>1, <4>2
    <3>5. ASSUME NEW i \in 1..Len(r)
          PROVE  r[i] = IF i < k THEN s[i] ELSE s[i + 1]
      <4> HIDE DEF r, s1, s2
      <4>0. Len(s1) = k - 1 /\ Len(s2) = Len(s) - k /\ Len(s) \in Nat /\ k \in 1..Len(s)
        BY <2>1, <3>1, <3>2 DEF s1, s2
      <4>1. CASE i < k
        <5>1. i \in 1..(k - 1) /\ i <= Len(s1) /\ i \in 1..(Len(s1) + Len(s2))
          BY <3>4, <4>0, <4>1
        <5>2. s1[i] = s[i]
          BY <3>1, <5>1 DEF s1
        <5>3. r[i] = s1[i]
          BY <3>3, <5>1
        <5> QED BY <4>1, <5>2, <5>3
      <4>2. CASE ~(i < k)
        <5>1. PICK j \in 1..(Len(s) - k) : j = i - (k - 1)
          BY <3>4, <4>0, <4>2
        <5>2. s2[j] = s[k + j]
          BY <3>2 DEF s2
        <5>3. k + j = i + 1 /\ j = i - Len(s1)
              /\ ~(i <= Len(s1)) /\ i \in 1..(Len(s1) + Len(s2))
          BY <3>4, <4>0, <4>2, <5>1
        <5>4. r[i] = s2[j]
          BY <3>3, <5>3
        <5> QED BY <4>2, <5>2, <5>3, <5>4
      <4> QED BY <4>1, <4>2
    <3> QED BY <3>3, <3>4, <3>5
  <2> HIDE DEF r
  <2>7. Distinct(r)
    <3> SUFFICES ASSUME NEW i \in 1..Len(r), NEW j \in 1..Len(r), i # j
                 PROVE  r[i] # r[j]
      BY <2>6 DEF Distinct
    <3> DEFINE at(n) == IF n < k THEN n ELSE n + 1
    <3>1. /\ at(i) \in 1..Len(s) /\ r[i] = s[at(i)]
          /\ at(j) \in 1..Len(s) /\ r[j] = s[at(j)]
          /\ at(i) # at(j)
      BY <2>6
    <3> HIDE DEF at
    <3> QED BY <3>1 DEF Distinct
  <2>8. ToSet(r) = ToSet(s) \ {e}
    <3>1. ASSUME NEW x \in ToSet(r) PROVE x \in ToSet(s) \ {e}
      BY <2>1, <2>6, <3>1 DEF ToSet, Distinct
    <3>2. ASSUME NEW i \in 1..Len(s), i # k PROVE s[i] \in ToSet(r)
      <4>1. CASE i < k
        BY <2>6, <4>1 DEF ToSet
      <4>2. CASE i > k
        <5>1. i - 1 \in 1..Len(r) /\ r[i - 1] = s[i]
          BY <2>6, <4>2
        <5> QED BY <5>1, <2>6 DEF ToSet
      <4> QED BY <3>2, <4>1, <4>2
    <3>3. ASSUME NEW x \in ToSet(s) \ {e} PROVE x \in ToSet(r)
      <4>1. PICK i \in 1..Len(s) : s[i] = x
        BY DEF ToSet
      <4> QED BY <2>1, <3>2, <4>1
    <3> QED BY <3>1, <3>3
  <2>9. ASSUME NEW x, NEW y, Before(r, x, y) PROVE Before(s, x, y)
    <3>1. PICK i \in 1..Len(r), j \in 1..Len(r) : i < j /\ r[i] = x /\ r[j] = y
      BY <2>6, <2>9 DEF Before
    <3> DEFINE at(n) == IF n < k THEN n ELSE n + 1
    <3>2. /\ at(i) \in 1..Len(s) /\ s[at(i)] = x
          /\ at(j) \in 1..Len(s) /\ s[at(j)] = y
          /\ at(i) < at(j)
      BY <2>6, <3>1
    <3> HIDE DEF at
    <3> QED BY <3>2 DEF Before
  <2> QED BY <1>1, <2>6, <2>7, <2>8, <2>9 DEF r
<1>2. CASE e \notin ToSet(s)
  <2>1. ~ \E i \in 1..Len(s) : s[i] = e
    BY <1>2 DEF ToSet
  <2>2. r = s
    BY <2>1 DEF RemoveFirst
  <2> HIDE DEF r
  <2>3. ToSet(s) \ {e} = ToSet(s)
    BY <1>2
  <2> QED BY <1>2, <2>2, <2>3 DEF r
<1> QED BY <1>1, <1>2

\* Pushing an element that is not in the list in front of it (PushFront).
LEMMA PushFrontFacts ==
  ASSUME NEW S, NEW s \in Seq(S), NEW e \in S, Distinct(s), e \notin ToSet(s)
  PROVE  /\ <<e>> \o s \in Seq(S)
         /\ Distinct(<<e>> \o s)
         /\ ToSet(<<e>> \o s) = ToSet(s) \cup {e}
         /\ Len(<<e>> \o s) = Len(s) + 1
         /\ \A x, y : Before(<<e>> \o s, x, y) =>
              Before(s, x, y) \/ (x = e /\ y \in ToSet(s))
<1> DEFINE r == <<e>> \o s
<1>1. /\ r \in Seq(S)
      /\ Len(r) = Len(s) + 1
      /\ r[1] = e
      /\ \A i \in 1..Len(s) : r[i + 1] = s[i]
      /\ \A i \in 2..Len(r) : i - 1 \in 1..Len(s) /\ r[i] = s[i - 1]
  <2>1. <<e>> \in Seq(S) /\ Len(<<e>>) = 1 /\ <<e>>[1] = e
    OBVIOUS
  <2> QED BY <2>1, ConcatProperties
<1> HIDE DEF r
<1>2. Distinct(r)
  <2> SUFFICES ASSUME NEW i \in 1..Len(r), NEW j \in 1..Len(r), i < j
               PROVE  r[i] # r[j]
    BY <1>1 DEF Distinct
  <2>1. r[j] = s[j - 1] /\ j - 1 \in 1..Len(s)
    BY <1>1
  <2>2. CASE i = 1
    BY <1>1, <2>1, <2>2 DEF ToSet
  <2>3. CASE i # 1
    <3>1. r[i] = s[i - 1] /\ i - 1 \in 1..Len(s)
      BY <1>1, <2>3
    <3> QED BY <2>1, <3>1 DEF Distinct
  <2> QED BY <2>2, <2>3
<1>3. ToSet(r) = ToSet(s) \cup {e}
  <2>1. ASSUME NEW x \in ToSet(r) PROVE x \in ToSet(s) \cup {e}
    <3>1. PICK i \in 1..Len(r) : r[i] = x
      BY DEF ToSet
    <3>2. CASE i = 1
      BY <1>1, <3>1, <3>2
    <3>3. CASE i # 1
      BY <1>1, <3>1, <3>3 DEF ToSet
    <3> QED BY <3>2, <3>3
  <2>2. ASSUME NEW x \in ToSet(s) PROVE x \in ToSet(r)
    <3>1. PICK i \in 1..Len(s) : s[i] = x
      BY DEF ToSet
    <3>2. i + 1 \in 1..Len(r) /\ r[i + 1] = x
      BY <1>1, <3>1
    <3> QED BY <1>1, <3>2 DEF ToSet
  <2>3. e \in ToSet(r)
    <3>1. 1 \in 1..Len(r)
      BY <1>1
    <3> QED BY <1>1, <3>1 DEF ToSet
  <2> QED BY <2>1, <2>2, <2>3
<1>4. ASSUME NEW x, NEW y, Before(r, x, y)
      PROVE  Before(s, x, y) \/ (x = e /\ y \in ToSet(s))
  <2>1. PICK i \in 1..Len(r), j \in 1..Len(r) : i < j /\ r[i] = x /\ r[j] = y
    BY <1>1, <1>4 DEF Before
  <2>2. j - 1 \in 1..Len(s) /\ s[j - 1] = y
    BY <1>1, <2>1
  <2>3. CASE i = 1
    BY <1>1, <2>1, <2>2, <2>3 DEF ToSet
  <2>4. CASE i # 1
    <3>1. i - 1 \in 1..Len(s) /\ s[i - 1] = x /\ i - 1 < j - 1
      BY <1>1, <2>1, <2>4
    <3> QED BY <2>2, <3>1 DEF Before
  <2> QED BY <2>3, <2>4
<1> QED BY <1>1, <1>2, <1>3, <1>4 DEF r

\* Removing the last element of a list without repetitions (removeOldest).
LEMMA FrontFacts ==
  ASSUME NEW S, NEW s \in Seq(S), Distinct(s), Len(s) > 0
  PROVE  /\ Front(s) \in Seq(S)
         /\ Distinct(Front(s))
         /\ ToSet(Front(s)) = ToSet(s) \ {Last(s)}
         /\ Len(Front(s)) = Len(s) - 1
         /\ Last(s) \in ToSet(s)
         /\ \A x, y : Before(Front(s), x, y) => Before(s, x, y)
         /\ \A x \in ToSet(s) \ {Last(s)} : Before(s, x, Last(s))
<1> DEFINE r == Front(s)
<1>0. Len(s) \in Nat \ {0}
  OBVIOUS
<1>1. /\ r \in Seq(S)
      /\ Len(r) = Len(s) - 1
      /\ \A i \in 1..(Len(s) - 1) : r[i] = s[i]
  <2>1. \A i \in 1..(Len(s) - 1) : s[i] \in S
    BY <1>0, ElementOfSeq
  <2>2. r = SubSeq(s, 1, Len(s) - 1)
    BY DEF Front
  <2>3. /\ SubSeq(s, 1, Len(s) - 1) \in Seq(S)
        /\ Len(SubSeq(s, 1, Len(s) - 1)) = Len(s) - 1
        /\ \A i \in 1..(Len(s) - 1) : SubSeq(s, 1, Len(s) - 1)[i] = s[i]
    <3> DEFINE n == Len(s) - 1
    <3>1. n \in Nat
      BY <1>0
    <3> HIDE DEF n
    <3>2. /\ SubSeq(s, 1, n) \in Seq(S)
          /\ Len(SubSeq(s, 1, n)) = n
          /\ \A i \in 1..n : SubSeq(s, 1, n)[i] = s[i]
      <4>1. \A i \in 1..n : s[i] \in S
        BY <2>1 DEF n
      <4> HIDE DEF r
      <4> QED BY <3>1, <4>1, SubSeqProperties
    <3> QED BY <3>2 DEF n
  <2> QED BY <2>2, <2>3
<1>2. Last(s) = s[Len(s)]
  BY DEF Last
<1> HIDE DEF r
<1>3. Distinct(r)
  BY <1>0, <1>1 DEF Distinct
<1>4. ToSet(r) = ToSet(s) \ {Last(s)}
  <2>1. ASSUME NEW x \in ToSet(r) PROVE x \in ToSet(s) \ {Last(s)}
    BY <1>0, <1>1, <1>2 DEF ToSet, Distinct
  <2>2. ASSUME NEW x \in ToSet(s) \ {Last(s)} PROVE x \in ToSet(r)
    BY <1>0, <1>1, <1>2 DEF ToSet
  <2> QED BY <2>1, <2>2
<1>5. Last(s) \in ToSet(s)
  BY <1>0, <1>2 DEF ToSet
<1>6. ASSUME NEW x, NEW y, Before(r, x, y) PROVE Before(s, x, y)
  <2>1. PICK i \in 1..(Len(s) - 1), j \in 1..(Len(s) - 1) :
          i < j /\ r[i] = x /\ r[j] = y
    BY <1>0, <1>1, <1>6 DEF Before
  <2>2. i \in 1..Len(s) /\ j \in 1..Len(s) /\ s[i] = x /\ s[j] = y
    BY <1>0, <1>1, <2>1
  <2> QED BY <2>1, <2>2 DEF Before
<1>7. ASSUME NEW x \in ToSet(s) \ {Last(s)} PROVE Before(s, x, Last(s))
  <2>1. PICK i \in 1..Len(s) : s[i] = x
    BY DEF ToSet
  <2>2. i < Len(s) /\ Len(s) \in 1..Len(s)
    BY <1>0, <1>2, <2>1
  <2> QED BY <1>2, <2>1, <2>2 DEF Before
<1> QED BY <1>1, <1>3, <1>4, <1>5, <1>6, <1>7 DEF r
-----------------------------------------------------------------------------

CacheInv ==
  /\ now \in Nat
  /\ cache \in [Key -> Entry \cup {NoEntry}]
  /\ lru \in Seq(Key)
  /\ sweep \subseteq Key
  /\ Coherent

\* removeElement and MoveToFront keep the list and the map together.
LEMMA RemoveElementKeeps ==
  ASSUME CacheInv, NEW k \in Key, RemoveElement(k)
  PROVE  /\ cache' \in [Key -> Entry \cup {NoEntry}]
         /\ lru' \in Seq(Key)
         /\ Coherent'
<1>1. lru \in Seq(Key) /\ Distinct(lru) /\ ToSet(lru) = Held /\ Len(lru) <= Capacity
  BY DEF CacheInv, Coherent, Distinct
<1>2. /\ lru' \in Seq(Key)
      /\ Distinct(lru')
      /\ ToSet(lru') = Held \ {k}
      /\ Len(lru') <= Len(lru)
  BY <1>1, RemoveFirstFacts DEF RemoveElement
<1>3. cache' \in [Key -> Entry \cup {NoEntry}] /\ Held' = Held \ {k}
  BY DEF CacheInv, RemoveElement, Held
<1>4. Len(lru') <= Capacity
  BY <1>1, <1>2, CacheAssumption
<1> QED BY <1>2, <1>3, <1>4 DEF Coherent, Distinct

LEMMA MovedToFrontKeeps ==
  ASSUME CacheInv, NEW k \in Key, cache[k] # NoEntry
  PROVE  /\ MovedToFront(k) \in Seq(Key)
         /\ Distinct(MovedToFront(k))
         /\ ToSet(MovedToFront(k)) = Held
         /\ Len(MovedToFront(k)) <= Capacity
<1> DEFINE s == RemoveFirst(lru, k)
<1>1. /\ lru \in Seq(Key) /\ Distinct(lru) /\ ToSet(lru) = Held
      /\ Len(lru) <= Capacity /\ k \in Held
  BY DEF CacheInv, Coherent, Distinct, Held
<1>2. s \in Seq(Key) /\ Distinct(s) /\ ToSet(s) = Held \ {k} /\ Len(s) = Len(lru) - 1
  BY <1>1, RemoveFirstFacts
<1> HIDE DEF s
<1>3. /\ <<k>> \o s \in Seq(Key)
      /\ Distinct(<<k>> \o s)
      /\ ToSet(<<k>> \o s) = (Held \ {k}) \cup {k}
      /\ Len(<<k>> \o s) = Len(s) + 1
  BY <1>2, PushFrontFacts
<1>4. Len(<<k>> \o s) = Len(lru)
  BY <1>1, <1>2, <1>3
<1> QED BY <1>1, <1>3, <1>4 DEF MovedToFront, s

LEMMA OverwriteKeeps ==
  ASSUME CacheInv, NEW k \in Key, NEW e \in Entry, Overwrite(k, e)
  PROVE  /\ cache' \in [Key -> Entry \cup {NoEntry}]
         /\ lru' \in Seq(Key)
         /\ Coherent'
<1>1. cache' \in [Key -> Entry \cup {NoEntry}] /\ Held' = Held
  BY CacheAssumption DEF CacheInv, Overwrite, Held, Entry
<1> QED BY <1>1, MovedToFrontKeeps DEF Overwrite, Coherent, Distinct

\* Insert with removeOldest.
LEMMA InsertKeeps ==
  ASSUME CacheInv, NEW k \in Key, NEW e \in Entry, Insert(k, e)
  PROVE  /\ cache' \in [Key -> Entry \cup {NoEntry}]
         /\ lru' \in Seq(Key)
         /\ Coherent'
<1> DEFINE full == Len(lru) >= Capacity
           s == IF full THEN Front(lru) ELSE lru
<1>1. /\ lru \in Seq(Key) /\ Distinct(lru) /\ ToSet(lru) = Held
      /\ Len(lru) <= Capacity /\ k \notin Held
  BY DEF CacheInv, Coherent, Distinct, Held, Insert
<1>2. /\ cache' = [j \in Key |-> IF j = k THEN e
                              ELSE IF full /\ j = Last(lru) THEN NoEntry ELSE cache[j]]
      /\ lru' = <<k>> \o s
  BY DEF Insert
<1>3. cache' \in [Key -> Entry \cup {NoEntry}]
  BY <1>2 DEF CacheInv
<1>4. e # NoEntry
  BY CacheAssumption DEF Entry
<1>5. /\ s \in Seq(Key) /\ Distinct(s) /\ Len(s) + 1 <= Capacity
      /\ ToSet(s) \cup {k} = Held' /\ ToSet(s) \subseteq Held
  <2>1. CASE full
    <3>1. Len(lru) > 0 /\ Len(lru) = Capacity
      BY <1>1, <2>1, CacheAssumption
    <3>2. /\ Front(lru) \in Seq(Key) /\ Distinct(Front(lru))
          /\ ToSet(Front(lru)) = Held \ {Last(lru)}
          /\ Len(Front(lru)) = Len(lru) - 1
          /\ Last(lru) \in Held
      BY <1>1, <3>1, FrontFacts
    <3>3. Held' = (Held \ {Last(lru)}) \cup {k}
      BY <1>1, <1>2, <1>4, <2>1, <3>2 DEF Held
    <3>4. s = Front(lru)
      BY <2>1
    <3> HIDE DEF s, full
    <3>5. Len(s) + 1 <= Capacity
      BY <1>1, <3>1, <3>2, <3>4
    <3> QED BY <3>2, <3>3, <3>4, <3>5
  <2>2. CASE ~full
    <3>1. Held' = Held \cup {k}
      BY <1>1, <1>2, <1>4, <2>2 DEF Held
    <3>2. s = lru /\ Len(lru) + 1 <= Capacity
      BY <1>1, <2>2, CacheAssumption
    <3> HIDE DEF s, full
    <3> QED BY <1>1, <3>1, <3>2
  <2> QED BY <2>1, <2>2
<1> HIDE DEF s, full
<1>6. /\ lru' \in Seq(Key) /\ Distinct(lru') /\ ToSet(lru') = Held'
      /\ Len(lru') = Len(s) + 1
  <2>1. k \notin ToSet(s)
    BY <1>1, <1>5
  <2> QED BY <1>2, <1>5, <2>1, PushFrontFacts
<1>7. Len(lru') <= Capacity
  BY <1>5, <1>6
<1> QED BY <1>3, <1>6, <1>7 DEF Coherent, Distinct

\* The invariant is inductive: one step per operation.
LEMMA CacheStep == CacheInv /\ [Next]_vars => CacheInv'
<1> SUFFICES ASSUME CacheInv, [Next]_vars PROVE CacheInv'
  OBVIOUS
<1>0. /\ now \in Nat /\ sweep \subseteq Key /\ lru \in Seq(Key)
      /\ cache \in [Key -> Entry \cup {NoEntry}] /\ Coherent
  BY DEF CacheInv
<1>1. CASE UNCHANGED vars
  BY <1>0, <1>1 DEF CacheInv, Coherent, Held, vars
<1>2. ASSUME UNCHANGED <<cache, lru>>, now' \in Nat, sweep' \subseteq Key
      PROVE  CacheInv'
  BY <1>0, <1>2 DEF CacheInv, Coherent, Held
<1>3. ASSUME NEW k \in Key, Get(k) PROVE CacheInv'
  <2>1. now' = now /\ sweep' = sweep
    BY <1>3 DEF Get
  <2>2. CASE UNCHANGED <<cache, lru>>
    BY <1>0, <1>2, <2>1, <2>2
  <2>3. CASE RemoveElement(k)
    BY <1>0, <2>1, <2>3, RemoveElementKeeps DEF CacheInv
  <2>4. CASE cache[k] # NoEntry /\ lru' = MovedToFront(k) /\ cache' = cache
    <3>1. Held' = Held
      BY <2>4 DEF Held
    <3> QED BY <1>0, <2>1, <2>4, <3>1, MovedToFrontKeeps DEF CacheInv, Coherent, Distinct
  <2> QED BY <1>3, <2>2, <2>3, <2>4 DEF Get
<1>4. ASSUME NEW k \in Key, Has(k) PROVE CacheInv'
  BY <1>0, <1>2, <1>4 DEF Has
<1>5. ASSUME NEW k \in Key, NEW v \in Value, NEW ttl \in TTL, Put(k, v, ttl)
      PROVE  CacheInv'
  <2>1. now' = now /\ sweep' = sweep
    BY <1>5 DEF Put
  <2>2. T!NewEntry(v, ttl, now) \in Entry
    BY <1>0, CacheAssumption DEF T!NewEntry, Entry
  <2> QED BY <1>0, <1>5, <2>1, <2>2, OverwriteKeeps, InsertKeeps DEF Put, CacheInv
<1>6. ASSUME NEW p \in Purger, Purge(p) PROVE CacheInv'
  <2>1. /\ now' = now /\ sweep' = sweep /\ lru' = <<>>
        /\ cache' = [k \in Key |-> NoEntry]
    BY <1>6 DEF Purge
  <2>2. ToSet(lru') = {} /\ Held' = {} /\ Len(lru') = 0 /\ lru' \in Seq(Key)
    BY <2>1 DEF ToSet, Held
  <2>3. Coherent'
    BY <2>1, <2>2, CacheAssumption DEF Coherent
  <2> QED BY <1>0, <2>1, <2>2, <2>3 DEF CacheInv
<1>7. ASSUME NEW p \in Purger, Report(p) PROVE CacheInv'
  BY <1>0, <1>2, <1>7 DEF Report
<1>8. CASE Collect
  BY <1>0, <1>2, <1>8 DEF Collect, Held
<1>9. CASE SweepOne
  <2>1. PICK k \in sweep : RemoveElement(k) /\ sweep' = sweep \ {k}
    BY <1>9 DEF SweepOne
  <2> QED BY <1>0, <1>9, <2>1, RemoveElementKeeps DEF SweepOne, CacheInv
<1>10. CASE Tick
  BY <1>0, <1>2, <1>10 DEF Tick
<1> QED BY <1>1, <1>3, <1>4, <1>5, <1>6, <1>7, <1>8, <1>9, <1>10 DEF Next

-----------------------------------------------------------------------------

\* What holds of the order of the list, and of a sweep in progress: a key is
\* behind those used since its own last use, and what is to be removed has expired.
OrderInv ==
  /\ since \in [Key -> SUBSET Key]
  /\ \A x, y \in Key : Before(lru, x, y) => x \in since[y]
  /\ \A k \in sweep \cap Held : T!Expired(cache[k], now)
  /\ pending \in [Purger -> Seq(Key)]

\* The collection of Purge yields one key per entry, and none only from an
\* empty cache: the list is finite, hence so is the map.
LEMMA PurgedKeys ==
  ASSUME CacheInv, NEW s \in SetToSeqs(Held)
  PROVE  s \in Seq(Key) /\ (Held # {} => s # <<>>)
<1>1. IsFiniteSet(Held)
  <2>1. lru \in Seq(Key) /\ ToSet(lru) = Held
    BY DEF CacheInv, Coherent
  <2>2. lru \in Surjection(1..Len(lru), Held)
    BY <2>1 DEF Surjection, ToSet
  <2>3. IsFiniteSet(1..Len(lru))
    BY <2>1, FS_Interval
  <2> QED BY <2>2, <2>3, FS_Surjection
<1>2. Cardinality(Held) \in Nat
  BY <1>1, FS_CardinalityType
<1>3. s \in [1..Cardinality(Held) -> Held]
  BY DEF SetToSeqs
<1>4. Held \subseteq Key
  BY DEF Held
<1>5. s \in Seq(Key)
  BY <1>2, <1>3, <1>4
<1>6. ASSUME Held # {} PROVE s # <<>>
  <2>1. Cardinality(Held) # 0
    BY <1>1, <1>6, FS_EmptySet
  <2>2. Len(s) = Cardinality(Held)
    BY <1>2, <1>3
  <2> QED BY <1>2, <2>1, <2>2
<1> QED BY <1>5, <1>6

\* A key that goes to the front goes before those it now counts as used since.
LEMMA MovedToFrontOrders ==
  ASSUME CacheInv, OrderInv, NEW k \in Key, cache[k] # NoEntry,
         lru' = MovedToFront(k), Touch(k)
  PROVE  \A x, y \in Key : Before(lru', x, y) => x \in since'[y]
<1> DEFINE s == RemoveFirst(lru, k)
<1>1. lru \in Seq(Key) /\ Distinct(lru)
  BY DEF CacheInv, Coherent, Distinct
<1>2. /\ s \in Seq(Key) /\ Distinct(s) /\ ToSet(s) = ToSet(lru) \ {k}
      /\ \A x, y : Before(s, x, y) => Before(lru, x, y)
  BY <1>1, RemoveFirstFacts
<1>3. lru' = <<k>> \o s
  BY DEF MovedToFront
<1> HIDE DEF s
<1> SUFFICES ASSUME NEW x \in Key, NEW y \in Key, Before(lru', x, y)
             PROVE  x \in since'[y]
  OBVIOUS
<1>4. Before(s, x, y) \/ (x = k /\ y \in ToSet(s))
  BY <1>2, <1>3, PushFrontFacts
<1>5. y \in ToSet(s)
  BY <1>4 DEF Before, ToSet
<1>6. y # k
  BY <1>2, <1>5
<1>7. since'[y] = since[y] \cup {k}
  BY <1>6 DEF Touch
<1> QED BY <1>2, <1>4, <1>7 DEF OrderInv

LEMMA InsertOrders ==
  ASSUME CacheInv, OrderInv, NEW k \in Key, NEW e \in Entry, Insert(k, e), Touch(k)
  PROVE  \A x, y \in Key : Before(lru', x, y) => x \in since'[y]
<1> DEFINE full == Len(lru) >= Capacity
           s == IF full THEN Front(lru) ELSE lru
<1>1. /\ lru \in Seq(Key) /\ Distinct(lru) /\ ToSet(lru) = Held
      /\ Len(lru) <= Capacity /\ k \notin Held
  BY DEF CacheInv, Coherent, Distinct, Held, Insert
<1>2. /\ s \in Seq(Key) /\ Distinct(s) /\ ToSet(s) \subseteq Held
      /\ \A x, y : Before(s, x, y) => Before(lru, x, y)
  <2>1. CASE full
    <3>1. Len(lru) > 0
      BY <1>1, <2>1, CacheAssumption
    <3> QED BY <1>1, <2>1, <3>1, FrontFacts
  <2>2. CASE ~full
    BY <1>1, <2>2
  <2> QED BY <2>1, <2>2
<1>3. lru' = <<k>> \o s
  BY DEF Insert
<1> HIDE DEF s, full
<1> SUFFICES ASSUME NEW x \in Key, NEW y \in Key, Before(lru', x, y)
             PROVE  x \in since'[y]
  OBVIOUS
<1>4. k \notin ToSet(s)
  BY <1>1, <1>2
<1>5. Before(s, x, y) \/ (x = k /\ y \in ToSet(s))
  BY <1>2, <1>3, <1>4, PushFrontFacts
<1>6. y \in ToSet(s)
  BY <1>5 DEF Before, ToSet
<1>7. since'[y] = since[y] \cup {k}
  BY <1>4, <1>6 DEF Touch
<1> QED BY <1>2, <1>5, <1>7 DEF OrderInv

LEMMA OrderStep == CacheInv /\ OrderInv /\ [Next]_vars => OrderInv'
<1> SUFFICES ASSUME CacheInv, OrderInv, [Next]_vars PROVE OrderInv'
  OBVIOUS
<1>0. /\ since \in [Key -> SUBSET Key]
      /\ \A x, y \in Key : Before(lru, x, y) => x \in since[y]
      /\ \A k \in sweep \cap Held : T!Expired(cache[k], now)
      /\ pending \in [Purger -> Seq(Key)]
      /\ now \in Nat /\ cache \in [Key -> Entry \cup {NoEntry}]
  BY DEF CacheInv, OrderInv
<1>1. ASSUME NEW k \in Key, Touch(k) PROVE since' \in [Key -> SUBSET Key]
  BY <1>0, <1>1 DEF Touch
<1>2. ASSUME NEW k \in Key, RemoveElement(k)
      PROVE  /\ \A x, y \in Key : Before(lru', x, y) => x \in since[y]
             /\ Held' \subseteq Held
             /\ \A j \in Held' : cache'[j] = cache[j]
  <2>1. lru \in Seq(Key) /\ Distinct(lru)
    BY DEF CacheInv, Coherent, Distinct
  <2>2. \A x, y : Before(lru', x, y) => Before(lru, x, y)
    BY <1>2, <2>1, RemoveFirstFacts DEF RemoveElement
  <2>3. Held' \subseteq Held /\ \A j \in Held' : cache'[j] = cache[j]
    BY <1>0, <1>2 DEF RemoveElement, Held
  <2> QED BY <1>0, <2>2, <2>3
<1>3. CASE UNCHANGED vars
  BY <1>0, <1>3 DEF OrderInv, Held, T!Expired, vars
<1>4. ASSUME NEW k \in Key, Get(k) PROVE OrderInv'
  <2>1. now' = now /\ sweep' = {} /\ pending' = pending
    BY <1>4 DEF Get, Unlocked
  <2>2. CASE UNCHANGED <<lru, since>>
    BY <1>0, <2>1, <2>2 DEF OrderInv
  <2>3. CASE RemoveElement(k) /\ since' = since
    BY <1>0, <1>2, <2>1, <2>3 DEF OrderInv
  <2>4. CASE cache[k] # NoEntry /\ lru' = MovedToFront(k) /\ Touch(k)
    BY <1>0, <1>1, <2>1, <2>4, MovedToFrontOrders DEF OrderInv
  <2> QED BY <1>4, <2>2, <2>3, <2>4 DEF Get
<1>5. ASSUME NEW k \in Key, Has(k) PROVE OrderInv'
  BY <1>0, <1>5 DEF Has, OrderInv, Held, T!Expired
<1>6. ASSUME NEW k \in Key, NEW v \in Value, NEW ttl \in TTL, Put(k, v, ttl)
      PROVE  OrderInv'
  <2> DEFINE e == T!NewEntry(v, ttl, now)
  <2>1. now' = now /\ sweep' = {} /\ pending' = pending /\ Touch(k)
    BY <1>6 DEF Put, Unlocked
  <2>2. e \in Entry
    BY <1>0, CacheAssumption DEF T!NewEntry, Entry
  <2>3. Overwrite(k, e) \/ Insert(k, e)
    BY <1>6 DEF Put
  <2> HIDE DEF e
  <2>4. \A x, y \in Key : Before(lru', x, y) => x \in since'[y]
    BY <2>1, <2>2, <2>3, MovedToFrontOrders, InsertOrders DEF Overwrite
  <2> QED BY <1>0, <1>1, <2>1, <2>4 DEF OrderInv
<1>7. ASSUME NEW p \in Purger, Purge(p) PROVE OrderInv'
  <2>1. PICK s \in SetToSeqs(Held) : pending' = [pending EXCEPT ![p] = s]
    BY <1>7 DEF Purge
  <2>2. pending' \in [Purger -> Seq(Key)]
    BY <1>0, <2>1, PurgedKeys
  <2>3. lru' = <<>> /\ since' = since /\ sweep' = {}
    BY <1>7 DEF Purge, Unlocked
  <2>4. \A x, y : ~Before(lru', x, y)
    BY <2>3 DEF Before
  <2> QED BY <1>0, <2>2, <2>3, <2>4 DEF OrderInv
<1>8. ASSUME NEW p \in Purger, Report(p) PROVE OrderInv'
  <2>1. /\ pending' = [pending EXCEPT ![p] = Tail(@)] /\ pending[p] # <<>>
        /\ UNCHANGED <<now, cache, lru, sweep, since>>
    BY <1>8 DEF Report
  <2>2. pending[p] \in Seq(Key)
    BY <1>0
  <2>3. Tail(pending[p]) \in Seq(Key)
    BY <2>1, <2>2, HeadTailProperties
  <2>4. pending' \in [Purger -> Seq(Key)]
    BY <1>0, <2>1, <2>3
  <2> QED BY <1>0, <2>1, <2>4 DEF OrderInv, Held, T!Expired
<1>9. CASE Collect
  BY <1>0, <1>9 DEF Collect, OrderInv, Held, T!Expired
<1>10. CASE SweepOne
  <2>1. PICK k \in sweep : RemoveElement(k) /\ sweep' = sweep \ {k}
    BY <1>10 DEF SweepOne
  <2>2. k \in Key
    BY <2>1 DEF CacheInv
  <2>3. UNCHANGED <<now, pending, since>>
    BY <1>10 DEF SweepOne
  <2> QED BY <1>0, <1>2, <2>1, <2>2, <2>3 DEF OrderInv
<1>11. CASE Tick
  <2>1. now' = now + 1 /\ UNCHANGED <<cache, lru, sweep, pending, since>>
    BY <1>11 DEF Tick
  <2>2. \A k \in Held : cache[k].expires \in Nat
    BY <1>0 DEF Held, Entry
  <2> QED BY <1>0, <2>1, <2>2 DEF OrderInv, Held, T!Expired
<1> QED BY <1>3, <1>4, <1>5, <1>6, <1>7, <1>8, <1>9, <1>10, <1>11 DEF Next

\* The formula EvictsOldest asserts of every step.
Evicts ==
  \A k \in Held :
    cache'[k] = NoEntry /\ ~T!Expired(cache[k], now) /\ pending' = pending =>
      Held \ {k} \subseteq since[k]

\* Only Insert takes an entry before its time, and what it takes is the last of
\* the list, behind all the others.
LEMMA EvictStep == CacheInv /\ OrderInv /\ [Next]_vars => [Evicts]_vars
<1> SUFFICES ASSUME CacheInv, OrderInv, Next,
                    NEW k \in Held, cache'[k] = NoEntry,
                    ~T!Expired(cache[k], now), pending' = pending
             PROVE  Held \ {k} \subseteq since[k]
  BY DEF Evicts
<1>0. k \in Key /\ cache[k] # NoEntry
  BY DEF Held
<1>1. ASSUME cache' = cache PROVE FALSE
  BY <1>0, <1>1
<1>2. ASSUME NEW j \in Key, RemoveElement(j), T!Expired(cache[j], now) PROVE FALSE
  <2>1. j # k
    BY <1>2
  <2> QED BY <1>0, <1>2, <2>1 DEF RemoveElement, CacheInv
<1>3. ASSUME NEW j \in Key, Get(j) PROVE FALSE
  BY <1>1, <1>2, <1>3 DEF Get
<1>4. ASSUME NEW j \in Key, Has(j) PROVE FALSE
  BY <1>1, <1>4 DEF Has
<1>5. ASSUME NEW j \in Key, NEW v \in Value, NEW ttl \in TTL, Put(j, v, ttl)
      PROVE  Held \ {k} \subseteq since[k]
  <2> DEFINE e == T!NewEntry(v, ttl, now)
  <2>1. e \in Entry
    BY CacheAssumption DEF T!NewEntry, Entry, CacheInv
  <2>2. e # NoEntry
    BY <2>1, CacheAssumption DEF Entry
  <2>3. Overwrite(j, e) \/ Insert(j, e)
    BY <1>5 DEF Put
  <2> HIDE DEF e
  <2>4. CASE Overwrite(j, e)
    BY <1>0, <2>2, <2>4 DEF Overwrite, CacheInv
  <2>5. CASE Insert(j, e)
    <3>1. Len(lru) >= Capacity /\ k = Last(lru)
      BY <1>0, <2>2, <2>5 DEF Insert
    <3>2. lru \in Seq(Key) /\ Distinct(lru) /\ ToSet(lru) = Held
      BY DEF CacheInv, Coherent, Distinct
    <3>3. Len(lru) > 0
      BY <3>1, <3>2, CacheAssumption
    <3>4. \A x \in Held \ {k} : Before(lru, x, k)
      BY <3>1, <3>2, <3>3, FrontFacts
    <3> QED BY <1>0, <3>4 DEF OrderInv, Held
  <2> QED BY <2>3, <2>4, <2>5
<1>6. ASSUME NEW p \in Purger, Purge(p) PROVE FALSE
  <2>1. PICK s \in SetToSeqs(Held) : pending' = [pending EXCEPT ![p] = s]
    BY <1>6 DEF Purge
  <2>2. s # <<>>
    BY PurgedKeys
  <2>3. pending[p] = <<>> /\ pending'[p] = s
    BY <1>6, <2>1 DEF Purge, OrderInv
  <2> QED BY <2>2, <2>3
<1>7. ASSUME NEW p \in Purger, Report(p) PROVE FALSE
  BY <1>1, <1>7 DEF Report
<1>8. CASE Collect
  BY <1>1, <1>8 DEF Collect
<1>9. CASE SweepOne
  <2>1. PICK j \in sweep : RemoveElement(j)
    BY <1>9 DEF SweepOne
  <2>2. j = k
    BY <1>0, <2>1 DEF RemoveElement, CacheInv
  <2>3. T!Expired(cache[k], now)
    BY <2>1, <2>2 DEF OrderInv
  <2> QED BY <2>3
<1>10. CASE Tick
  BY <1>1, <1>10 DEF Tick
<1> QED BY <1>3, <1>4, <1>5, <1>6, <1>7, <1>8, <1>9, <1>10 DEF Next

LEMMA CacheInit == Init => CacheInv /\ OrderInv
<1> SUFFICES ASSUME Init PROVE CacheInv /\ OrderInv
  OBVIOUS
<1>1. /\ lru = <<>> /\ cache = [k \in Key |-> NoEntry] /\ now = 1 /\ sweep = {}
      /\ pending = [p \in Purger |-> <<>>] /\ since = [k \in Key |-> {}]
  BY DEF Init
<1>2. ToSet(lru) = {} /\ Held = {} /\ Len(lru) = 0 /\ lru \in Seq(Key)
  BY <1>1 DEF ToSet, Held
<1>3. \A x, y : ~Before(lru, x, y)
  BY <1>1 DEF Before
<1>4. pending \in [Purger -> Seq(Key)] /\ since \in [Key -> SUBSET Key]
  BY <1>1
<1> QED BY <1>1, <1>2, <1>3, <1>4, CacheAssumption DEF CacheInv, Coherent, OrderInv

\* Every reachable state of the cache is well typed.
THEOREM CacheTypes == Spec => []TypeOK
<1>1. CacheInv /\ OrderInv => TypeOK
  BY DEF CacheInv, OrderInv, TypeOK
<1> QED BY <1>1, CacheInit, CacheStep, OrderStep, PTL DEF Spec

\* In every reachable state the map and the list of lru.go hold the same
\* entries, each once, and no more than the capacity: for any keys, values,
\* capacity, times to live and number of goroutines.
THEOREM CoherentTheorem == Spec => []Coherent
<1>1. CacheInv => Coherent
  BY DEF CacheInv
<1> QED BY <1>1, CacheInit, CacheStep, PTL DEF Spec

\* removeOldest: an entry is pushed out before its time only when every other
\* entry was used after it.
THEOREM EvictsOldestTheorem == Spec => EvictsOldest
<1>1. [Evicts]_vars =>
        [\A k \in Held :
           cache'[k] = NoEntry /\ ~T!Expired(cache[k], now) /\ pending' = pending =>
             Held \ {k} \subseteq since[k]]_vars
  BY DEF Evicts
<1> QED BY <1>1, CacheInit, CacheStep, OrderStep, EvictStep, PTL DEF Spec, EvictsOldest

-----------------------------------------------------------------------------

\* The list is as long as the map has entries, so that len(lru) >= capacity is
\* a question about the map.
LEMMA HeldCount == CacheInv => Cardinality(Held) = Len(lru)
<1> SUFFICES ASSUME CacheInv PROVE Cardinality(Held) = Len(lru)
  OBVIOUS
<1>1. lru \in Seq(Key) /\ Distinct(lru) /\ ToSet(lru) = Held
  BY DEF CacheInv, Coherent, Distinct
<1>2. lru \in Bijection(1..Len(lru), Held)
  BY <1>1 DEF Bijection, Injection, Surjection, IsInjective, ToSet, Distinct
<1>3. IsFiniteSet(1..Len(lru)) /\ Cardinality(1..Len(lru)) = Len(lru)
  <2>1. Len(lru) \in Nat
    BY <1>1
  <2>2. /\ IsFiniteSet(1..Len(lru))
        /\ Cardinality(1..Len(lru)) = IF 1 > Len(lru) THEN 0 ELSE Len(lru) - 1 + 1
    BY <2>1, FS_Interval
  <2> QED BY <2>1, <2>2
<1>4. ExistsBijection(1..Len(lru), Held)
  BY <1>2 DEF ExistsBijection
<1> QED BY <1>3, <1>4, FS_Bijection

\* TTLCache counts the same way.
LEMMA SameCount == ASSUME NEW S PROVE T!Cardinality(S) = Cardinality(S)
BY DEF T!Cardinality, Cardinality

LEMMA PutRefines ==
  ASSUME NEW k, NEW v, NEW ttl, NEW gone \in T!Victims(k),
         cache' = [j \in Key |-> IF j = k THEN T!NewEntry(v, ttl, now)
                                 ELSE IF j \in gone THEN NoEntry ELSE cache[j]],
         reply' = T!Done, now' = now
  PROVE  T!Put(k, v, ttl)
BY DEF T!Put

\* Making room: Insert drops what TTLCache allows to be dropped.
LEMMA InsertRefines ==
  ASSUME CacheInv, NEW k \in Key, NEW v \in Value, NEW ttl \in TTL,
         Insert(k, T!NewEntry(v, ttl, now)), reply' = T!Done, now' = now
  PROVE  T!Put(k, v, ttl)
<1> DEFINE e == T!NewEntry(v, ttl, now)
<1>1. /\ lru \in Seq(Key) /\ ToSet(lru) = Held /\ Distinct(lru)
      /\ Len(lru) <= Capacity /\ Cardinality(Held) = Len(lru) /\ Len(lru) \in Nat
  BY HeldCount DEF CacheInv, Coherent, Distinct
<1>2. cache[k] = NoEntry /\ k \notin T!Held
  BY DEF Insert, T!Held
<1>3. Held = T!Held
  BY DEF Held, T!Held
<1> HIDE DEF e
<1>4. CASE Len(lru) >= Capacity
  <2>1. T!Cardinality(T!Held) = Capacity
    BY <1>1, <1>3, <1>4, CacheAssumption, SameCount
  <2>2. Len(lru) \in 1..Len(lru) /\ Last(lru) = lru[Len(lru)]
    BY <1>1, <1>4, CacheAssumption DEF Last
  <2>3. Last(lru) \in Held
    BY <1>1, <2>2 DEF ToSet
  <2>4. {Last(lru)} \in T!Victims(k)
    BY <1>2, <1>3, <2>1, <2>3 DEF T!Victims
  <2>5. cache' = [j \in Key |-> IF j = k THEN e
                                ELSE IF j \in {Last(lru)} THEN NoEntry ELSE cache[j]]
    BY <1>4 DEF Insert, e
  <2> QED BY <2>4, <2>5, PutRefines DEF e
<1>5. CASE ~(Len(lru) >= Capacity)
  <2>1. T!Cardinality(T!Held) # Capacity
    BY <1>1, <1>3, <1>5, CacheAssumption, SameCount
  <2>2. {} \in T!Victims(k)
    BY <2>1 DEF T!Victims
  <2>3. cache' = [j \in Key |-> IF j = k THEN e
                                ELSE IF j \in {} THEN NoEntry ELSE cache[j]]
    BY <1>5 DEF Insert, e
  <2> QED BY <2>2, <2>3, PutRefines DEF e
<1> QED BY <1>4, <1>5

\* Every critical section of lru.go is an operation of TTLCache, or changes
\* nothing its users see.
LEMMA RefineStep ==
  CacheInv /\ OrderInv /\ [Next]_vars => [T!Next]_<<now, cache, reply>>
<1> SUFFICES ASSUME CacheInv, OrderInv, [Next]_vars
             PROVE  T!Next \/ UNCHANGED <<now, cache, reply>>
  OBVIOUS
<1>0. /\ cache \in [Key -> Entry \cup {NoEntry}] /\ Held = T!Held
      /\ \A k \in Key : k \in Held <=> cache[k] # NoEntry
  BY DEF CacheInv, Held, T!Held
<1>1. CASE UNCHANGED vars
  BY <1>1 DEF vars
<1>2. ASSUME NEW k \in Key, Get(k) PROVE T!Get(k)
  <2>1. now' = now
    BY <1>2 DEF Get
  <2>2. CASE cache[k] = NoEntry
    BY <1>0, <1>2, <2>1, <2>2 DEF Get, T!Get
  <2>3. CASE cache[k] # NoEntry /\ T!Expired(cache[k], now)
    BY <1>0, <1>2, <2>1, <2>3 DEF Get, T!Get, RemoveElement
  <2>4. CASE cache[k] # NoEntry /\ ~T!Expired(cache[k], now)
    BY <1>0, <1>2, <2>1, <2>4 DEF Get, T!Get
  <2> QED BY <2>2, <2>3, <2>4
<1>3. ASSUME NEW k \in Key, Has(k) PROVE T!Has(k)
  <2> DEFINE b == cache[k] # NoEntry /\ T!Unexpired(cache[k], now)
  <2>1. b \in BOOLEAN /\ reply' = T!Says(k, b) /\ UNCHANGED <<now, cache>>
    BY <1>3 DEF Has
  <2>2. cache[k] # NoEntry => cache[k].expires \in Nat /\ now \in Nat
    BY <1>0 DEF Entry, CacheInv
  <2>3. b => k \in T!Held /\ ~T!Expired(cache[k], now)
    BY <1>0, <2>2 DEF T!Unexpired, T!Expired
  <2>4. ~b /\ k \in T!Held => cache[k].expires # 0 /\ now >= cache[k].expires
    BY <1>0, <2>2 DEF T!Unexpired
  <2> HIDE DEF b
  <2> QED BY <2>1, <2>3, <2>4 DEF T!Has
<1>4. ASSUME NEW k \in Key, NEW v \in Value, NEW ttl \in TTL, Put(k, v, ttl)
      PROVE  T!Put(k, v, ttl)
  <2>1. reply' = T!Done /\ now' = now
    BY <1>4 DEF Put
  <2>2. CASE Overwrite(k, T!NewEntry(v, ttl, now))
    <3>1. {} \in T!Victims(k)
      BY <1>0, <2>2 DEF Overwrite, T!Victims
    <3>2. cache' = [j \in Key |-> IF j = k THEN T!NewEntry(v, ttl, now)
                                  ELSE IF j \in {} THEN NoEntry ELSE cache[j]]
      BY <1>0, <2>2 DEF Overwrite
    <3> QED BY <2>1, <3>1, <3>2 DEF T!Put
  <2>3. CASE Insert(k, T!NewEntry(v, ttl, now))
    BY <2>1, <2>3, InsertRefines
  <2> QED BY <1>4, <2>2, <2>3 DEF Put
<1>5. ASSUME NEW p \in Purger, Purge(p) PROVE T!Purge
  BY <1>5 DEF Purge, T!Purge
<1>6. ASSUME NEW p \in Purger, Report(p) PROVE UNCHANGED <<now, cache, reply>>
  BY <1>6 DEF Report
<1>7. CASE Collect
  BY <1>7 DEF Collect
<1>8. CASE SweepOne
  <2>1. PICK k \in sweep : RemoveElement(k)
    BY <1>8 DEF SweepOne
  <2>2. k \in Key /\ UNCHANGED <<now, reply>>
    BY <1>8, <2>1 DEF SweepOne, CacheInv
  <2>3. CASE k \in Held
    <3>1. T!Forget(k)
      BY <1>0, <2>1, <2>2, <2>3 DEF OrderInv, RemoveElement, T!Forget
    <3> QED BY <2>2, <3>1 DEF T!Next
  <2>4. CASE k \notin Held
    BY <1>0, <2>1, <2>2, <2>4 DEF RemoveElement
  <2> QED BY <2>3, <2>4
<1>9. CASE Tick
  BY <1>9 DEF Tick, T!Tick, T!Next
<1> QED BY <1>1, <1>2, <1>3, <1>4, <1>5, <1>6, <1>7, <1>8, <1>9 DEF Next, T!Next

\* The LRU cache, with its list, its capacity and its sweeps that release
\* nothing in between, implements what TTLCache promises the service.
THEOREM ActsAsTTLCacheTheorem == Spec => ActsAsTTLCache
<1>1. Init => T!Init
  BY DEF Init, T!Init
<1> QED BY <1>1, CacheInit, CacheStep, OrderStep, RefineStep, PTL
        DEF Spec, ActsAsTTLCache, T!Spec
=============================================================================
