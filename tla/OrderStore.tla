----------------------------- MODULE OrderStore -----------------------------
(* What the order service promises its callers, whatever happens inside:    *)
(* orders are stored whole, once, without sharing a unique key; every call  *)
(* gets at most one answer, and the answer is true of the store.  It knows  *)
(* nothing of transactions, caches, retries or restarts.                    *)
EXTENDS Orders

CONSTANT Caller

VARIABLES store,   \* [Uid -> Order \cup {NoOrder}]
          asked,   \* [Caller -> [uid, there]]: the key of the call, and
                   \* whether it was stored when the call was made
          answer   \* [Caller -> [kind, view]]

vars == <<store, asked, answer>>

Silence     == [kind |-> "none",     view |-> Bare(NoOrder)]
Stored      == [kind |-> "ack",      view |-> Bare(NoOrder)]
NotFound    == [kind |-> "notfound", view |-> Bare(NoOrder)]
Failure     == [kind |-> "error",    view |-> Bare(NoOrder)]
Found(v)    == [kind |-> "order",    view |-> v]

\* Before a caller's first call its record has any uid.
NothingAsked == [Caller -> [uid : Uid, there : {FALSE}]]

Init ==
  /\ store = [u \in Uid |-> NoOrder]
  /\ asked \in NothingAsked
  /\ answer = [c \in Caller |-> Silence]

Ask(c, u) ==
  /\ asked' = [asked EXCEPT ![c] = [uid |-> u, there |-> store[u] # NoOrder]]
  /\ answer' = [answer EXCEPT ![c] = Silence]
  /\ UNCHANGED store

\* A valid order whose unique keys are free, its uid among them.
Savable(o) ==
  /\ ValidOrder(o)
  /\ \A u \in Uid, t \in Table :
       store[u] # NoOrder => UniqueKeys(store[u], t) \cap UniqueKeys(o, t) = {}

Save(o) ==
  /\ Savable(o)
  /\ store' = [store EXCEPT ![o.uid] = o]
  /\ UNCHANGED <<asked, answer>>

\* The answers that are true when they are given; failing is always allowed.
Truthful(c) ==
  LET o == store[asked[c].uid] IN
  {Failure} \cup (IF o = NoOrder THEN {} ELSE {Stored, Found(Whole(o))})
            \cup (IF asked[c].there THEN {} ELSE {NotFound})

Answer(c) ==
  /\ answer[c] = Silence
  /\ \E r \in Truthful(c) : answer' = [answer EXCEPT ![c] = r]
  /\ UNCHANGED <<store, asked>>

\* The service dies: its calls are forgotten unanswered, the store stays.
Vanish ==
  /\ asked' \in NothingAsked
  /\ answer' = [c \in Caller |-> Silence]
  /\ UNCHANGED store

Next == \/ \E c \in Caller : Answer(c) \/ \E u \in Uid : Ask(c, u)
        \/ \E o \in Order : Save(o)
        \/ Vanish

Spec == Init /\ [][Next]_vars
=============================================================================
