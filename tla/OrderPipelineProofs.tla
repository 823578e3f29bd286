------------------------ MODULE OrderPipelineProofs ------------------------
(* Theorems about OrderPipeline, for every content of the topic, all retry   *)
(* limits and all hazards.                                                  *)
EXTENDS OrderPipeline, TLAPS

\* Where a goroutine has no message in hand.
Idle == {"loop", "read", "done"}

\* Every message up to k has been fetched.
Seen(k) == \A n \in 1..k : \E p \in Proc : n \in fetched[p]

\* A goroutine has a message in hand exactly between Fetch and Release; the
\* reader is past that message, or a rebalance has taken it back; it is past no
\* message without a goroutine fetching it, the same holds of the offset a
\* commit would set, and no two goroutines hold the same but after a rebalance.
\* What goes into the transaction is an order.
HandInv ==
  /\ \A p \in Proc : hand[p] = 0 <=> pc[p] \in Idle
  /\ \A p \in Proc : hand[p] < pos \/ hand[p] \in again
  /\ \A p \in Proc : Seen(hand[p])
  /\ Seen(pos - 1) /\ Seen(committed - 1)
  /\ NeverShared
  /\ \A p \in Proc : pc[p] = "insert" => Wanted(p) # NoOrder

Inv == TypeOK /\ HandInv

LEMMA TopicFacts ==
  ASSUME topic \in Topics
  PROVE  /\ topic \in Seq(Message)
         /\ Len(topic) \in Nat
         /\ \A n \in Offset : n \in Nat \ {0} /\ topic[n] \in Message
BY PipelineAssumption DEF Offset

LEMMA InvInit == Init => Inv
<1> SUFFICES ASSUME Init PROVE Inv
  OBVIOUS
<1> USE PipelineAssumption DEF Init
<1>1. TypeOK
  <2>1. Len(topic) \in Nat
    BY TopicFacts
  <2>2. unsent \in Offset \cup {0} /\ again \subseteq Offset
    OBVIOUS
  <2>3. attempt \in [Proc -> Nat] /\ attempt["consumer"] = 0 /\ attempt["processor"] = 0
    BY DEF Proc
  <2>4. pos \in 1..(Len(topic) + 1) /\ committed \in 1..(Len(topic) + 1)
    BY <2>1
  <2>5. /\ pc \in [Proc -> Labels]
        /\ hand \in [Proc -> Offset \cup {0}]
        /\ fetched \in [Proc -> SUBSET Offset]
    BY DEF Labels
  <2>6. canceled \in BOOLEAN
    OBVIOUS
  <2>7. attempt["consumer"] <= MaxAttempts /\ attempt["processor"] <= 3
    BY <2>3
  <2>8. /\ store \in [Uid -> Order \cup {NoOrder}] /\ struck \subseteq Offset
        /\ dlq \subseteq [msg : Offset, retry : Nat]
        /\ topic \in Topics
    OBVIOUS
  <2> HIDE DEF Init
  <2> QED BY <2>2, <2>3, <2>4, <2>5, <2>6, <2>7, <2>8 DEF TypeOK, Sends
<1>2. HandInv
  BY DEF HandInv, NeverShared, Proc, Idle, Seen
<1> QED BY <1>1, <1>2 DEF Inv

LEMMA RetryType ==
  ASSUME topic \in Topics, NEW n \in Offset
  PROVE  topic[n].retry + 1 \in Nat
<1>1. topic[n] \in Message
  BY TopicFacts
<1> QED BY <1>1 DEF Message

\* What a step of p that fetches nothing does to the shared state.
Works(p) ==
  /\ UNCHANGED <<topic, pos, fetched, again>>
  /\ canceled' \in BOOLEAN
  /\ struck' \subseteq Offset
  /\ \/ committed' = committed
     \/ hand[p] # 0 /\ committed' = hand[p] + 1
  /\ store' \in [Uid -> Order \cup {NoOrder}]
  /\ dlq' \subseteq [msg : Offset, retry : Nat]
  /\ unsent' \in Offset \cup {0}

\* How p itself may move: on with the message in hand, or to a release of it.
Moves(p) ==
  \/ \E l \in Labels, n \in Nat :
       /\ pc' = [pc EXCEPT ![p] = l]
       /\ l \in Idle <=> pc[p] \in Idle
       /\ l = "insert" => Wanted(p) # NoOrder
       /\ attempt' \in {attempt, [attempt EXCEPT ![p] = n]}
       /\ p = "consumer" => n <= MaxAttempts
       /\ p = "processor" => n <= Sends
       /\ hand' = hand
  \/ Release(p)

LEMMA WorkKeeps ==
  ASSUME Inv, NEW p \in Proc, Works(p), Moves(p)
  PROVE  Inv'
<1>1. /\ \A q \in Proc : hand'[q] \in {0, hand[q]}
      /\ \A q \in Proc : hand'[q] = 0 <=> pc'[q] \in Idle
  BY DEF Inv, TypeOK, HandInv, Moves, Release, Proc, Labels, Idle
<1>2. TypeOK'
  <2>1. committed' \in 1..(Len(topic) + 1)
    <3>1. Len(topic) \in Nat /\ hand[p] \in Offset \cup {0}
      BY TopicFacts DEF Inv, TypeOK
    <3>2. hand[p] # 0 => hand[p] + 1 \in 1..(Len(topic) + 1)
      BY <3>1 DEF Offset
    <3> QED BY <3>2 DEF Works, Inv, TypeOK
  <2> USE PipelineAssumption, TopicFacts
          DEF Inv, TypeOK, HandInv, Works, Moves, Release, Offset, Proc, Labels, Sends
  <2>2. CASE Release(p)
    <3>1. /\ attempt' \in [Proc -> Nat]
          /\ attempt'["consumer"] <= MaxAttempts
          /\ attempt'["processor"] <= Sends
      BY <2>2
    <3>2. hand' \in [Proc -> Offset \cup {0}] /\ pc' \in [Proc -> Labels]
      BY <2>2
    <3> HIDE DEF Moves, Release
    <3> QED BY <2>1, <3>1, <3>2
  <2>3. ASSUME NEW l \in Labels, NEW n \in Nat, pc' = [pc EXCEPT ![p] = l],
               attempt' \in {attempt, [attempt EXCEPT ![p] = n]},
               p = "consumer" => n <= MaxAttempts, p = "processor" => n <= Sends,
               hand' = hand
        PROVE  TypeOK'
    <3>1. /\ attempt' \in [Proc -> Nat]
          /\ attempt'["consumer"] <= MaxAttempts
          /\ attempt'["processor"] <= Sends
      BY <2>3
    <3> QED BY <2>1, <2>3, <3>1
  <2> QED BY <2>2, <2>3
<1>3. HandInv'
  <2>1. \A q \in Proc : hand'[q] < pos' \/ hand'[q] \in again'
    <3>1. 0 < pos /\ pos' = pos /\ again' = again
      BY TopicFacts DEF Inv, TypeOK, Works
    <3>2. \A q \in Proc : hand[q] < pos \/ hand[q] \in again
      BY DEF Inv, HandInv
    <3> QED BY <1>1, <3>1, <3>2
  <2>2. \A k : Seen(k) => Seen(k)'
    BY DEF Seen, Works
  <2>3. Seen(0)
    BY DEF Seen
  <2>4. \A q \in Proc : Seen(hand[q])'
    BY <1>1, <2>2, <2>3 DEF Inv, HandInv, Seen, Works
  <2>5. (Seen(pos - 1) /\ Seen(committed - 1))'
    <3>1. hand[p] # 0 => (hand[p] + 1) - 1 = hand[p]
      BY TopicFacts DEF Inv, TypeOK
    <3>2. Seen(pos - 1) /\ Seen(committed' - 1)
      BY <3>1 DEF Inv, HandInv, Works
    <3> QED BY <3>2 DEF Seen, Works
  <2>6. NeverShared'
    BY <1>1 DEF Inv, HandInv, NeverShared, Works, Proc
  <2>7. \A q \in Proc : pc'[q] = "insert" => Wanted(q)' # NoOrder
    <3>1. topic' = topic
      BY DEF Works
    <3>2. ASSUME NEW q \in Proc, pc'[q] = "insert" PROVE Wanted(q) # NoOrder
      BY <3>2 DEF Inv, TypeOK, HandInv, Moves, Release
    <3>3. ASSUME NEW q \in Proc, pc'[q] = "insert" PROVE hand'[q] = hand[q]
      BY <3>3 DEF Inv, TypeOK, Moves, Release, Idle, HandInv
    <3> QED BY <3>1, <3>2, <3>3 DEF Wanted, Decoded
  <2> QED BY <1>1, <2>1, <2>4, <2>5, <2>6, <2>7 DEF HandInv
<1> QED BY <1>2, <1>3 DEF Inv

\* Fetch hands out the reader's position and moves past it.
LEMMA FetchKeeps ==
  ASSUME Inv, NEW p \in Proc, Fetch(p)
  PROVE  Inv'
<1> USE PipelineAssumption, TopicFacts DEF Inv, Fetch, Proc
<1>1. TypeOK'
  <2>1. again' \subseteq Offset /\ UNCHANGED <<topic, attempt, store, dlq>>
    BY DEF TypeOK
  <2>2. fetched' \in [Proc -> SUBSET Offset] /\ struck' \subseteq Offset
    BY DEF TypeOK
  <2>3. /\ hand' \in [Proc -> Offset \cup {0}] /\ pc' \in [Proc -> Labels]
        /\ pos' \in 1..(Len(topic) + 1)
    BY DEF TypeOK, Labels, Offset
  <2>4. UNCHANGED <<committed, canceled, unsent>>
    OBVIOUS
  <2> HIDE DEF Fetch
  <2> QED BY <2>1, <2>2, <2>3, <2>4 DEF TypeOK, Offset
<1>2. HandInv'
  <2>1. pos \in Nat \ {0} /\ pos' = pos + 1 /\ pos' - 1 = pos
    BY DEF TypeOK, Offset
  <2>2. \A q \in Proc : hand'[q] = IF q = p THEN pos ELSE hand[q]
    BY DEF TypeOK
  <2>3. \A q \in Proc : hand[q] \in Nat
    BY DEF TypeOK, Offset
  <2>4. \A q \in Proc : hand'[q] = 0 <=> pc'[q] \in Idle
    BY <2>1, <2>2 DEF TypeOK, HandInv, Idle
  <2>14. \A q \in Proc : hand[q] < pos \/ hand[q] \in again'
    <3>1. \A q \in Proc : hand[q] # 0 => hand[q] \in InHand
      BY DEF InHand
    <3> QED BY <2>1, <3>1 DEF HandInv
  <2>5. \A q \in Proc : hand'[q] < pos' \/ hand'[q] \in again'
    BY <2>1, <2>2, <2>3, <2>14
  <2>6. \A n, q : q \in Proc /\ n \in fetched[q] => n \in fetched'[q]
    BY DEF TypeOK
  <2>7. pos \in fetched'[p]
    BY DEF TypeOK
  <2> DEFINE Covers(k) == \A n \in 1..k : \E q \in Proc : n \in fetched'[q]
  <2>8. \A k : Seen(k) => Covers(k)
    BY <2>6 DEF Seen
  <2>9. Covers(pos)
    <3> SUFFICES ASSUME NEW n \in 1..pos PROVE \E q \in Proc : n \in fetched'[q]
      OBVIOUS
    <3>1. CASE n = pos
      BY <2>7, <3>1
    <3>2. CASE n # pos
      <4>1. n \in 1..(pos - 1)
        BY <2>1, <3>2
      <4> QED BY <4>1, <2>8 DEF HandInv
    <3> QED BY <3>1, <3>2
  <2>10. \A q \in Proc : Covers(hand'[q])
    BY <2>2, <2>8, <2>9 DEF HandInv
  <2>11. Covers(pos' - 1) /\ Covers(committed' - 1)
    BY <2>1, <2>8, <2>9 DEF HandInv
  <2>13. /\ \A q \in Proc : Seen(hand[q])'
         /\ (Seen(pos - 1) /\ Seen(committed - 1))'
    BY <2>10, <2>11 DEF Seen
  <2>12. NeverShared'
    <3>1. hand[p] = 0
      BY DEF HandInv, Idle
    <3>2. ASSUME NEW q \in Proc, hand[q] = pos PROVE pos \in again'
      BY <2>3, <2>14, <3>2
    <3> QED BY <2>1, <2>2, <3>1, <3>2 DEF NeverShared
  <2>15. \A q \in Proc : pc'[q] = "insert" => Wanted(q)' # NoOrder
    BY <2>2 DEF TypeOK, HandInv, Wanted, Decoded
  <2> HIDE DEF Fetch, Covers
  <2> QED BY <2>4, <2>5, <2>12, <2>13, <2>15 DEF HandInv
<1> QED BY <1>1, <1>2

LEMMA HeldInTopic ==
  ASSUME Inv
  PROVE  InHand \subseteq Offset
BY DEF Inv, TypeOK, InHand

\* A restart moves the reader back, and every hand is empty.
LEMMA CrashKeeps ==
  ASSUME Inv, Crash
  PROVE  Inv'
<1>0. struck' \subseteq Offset
  BY HeldInTopic DEF Inv, TypeOK, Crash
<1> USE PipelineAssumption DEF Inv, TypeOK, Crash, Offset
<1>1. TypeOK'
  <2>1. Len(topic) \in Nat
    BY TopicFacts
  <2>2. committed \in 1..(Len(topic) + 1)
    BY <2>1
  <2>3. /\ attempt' \in [Proc -> Nat]
        /\ attempt'["consumer"] <= MaxAttempts /\ attempt'["processor"] <= Sends
    BY DEF Proc, Sends
  <2>4. pc' \in [Proc -> Labels] /\ hand' \in [Proc -> Offset \cup {0}]
    BY DEF Labels
  <2>5. pos' = committed /\ committed' = committed /\ canceled' = FALSE
    OBVIOUS
  <2>6. UNCHANGED <<topic, store, dlq, fetched, again>> /\ unsent' = 0
    OBVIOUS
  <2>7. canceled' \in BOOLEAN
    BY <2>5, Zenon
  <2> HIDE DEF Crash
  <2> QED BY <1>0, <2>2, <2>3, <2>4, <2>5, <2>6, <2>7
<1>2. HandInv'
  BY DEF HandInv, NeverShared, Idle, Proc, Seen
<1> QED BY <1>1, <1>2

\* A rebalance takes the reader back, and notes whatever is in hand from there on.
LEMMA RebalanceKeeps ==
  ASSUME Inv, Rebalance
  PROVE  Inv'
<1>1. again' \subseteq Offset /\ again \subseteq again'
  BY HeldInTopic DEF Inv, TypeOK, Rebalance
<1>2. TypeOK'
  BY <1>1 DEF Inv, TypeOK, Rebalance, Offset
<1>3. HandInv'
  <2>1. \A q \in Proc : hand[q] < committed \/ hand[q] \in again'
    <3> SUFFICES ASSUME NEW q \in Proc, ~(hand[q] < committed)
                 PROVE  hand[q] \in again'
      OBVIOUS
    <3>1. hand[q] # 0 /\ hand[q] >= committed
      BY TopicFacts DEF Inv, TypeOK, Offset
    <3> QED BY <3>1 DEF Rebalance, InHand
  <2>2. NeverShared'
    BY <1>1 DEF Inv, HandInv, NeverShared, Rebalance
  <2> QED BY <2>1, <2>2 DEF Inv, HandInv, Rebalance, Seen, Wanted, Decoded
<1> QED BY <1>2, <1>3 DEF Inv

\* The steps of both goroutines after Fetch.
LEMMA CommitWorks ==
  ASSUME Inv, NEW p \in Proc, Commit(p) \/ CommitFails(p)
  PROVE  Works(p) /\ Moves(p)
<1> USE DEF Inv, TypeOK, Idle, Proc
<1>1. pc[p] = "commit"
  BY DEF Commit, CommitFails
<1>2. hand[p] \in Offset /\ hand[p] # 0
  BY <1>1, TopicFacts DEF HandInv
<1>3. CASE Commit(p)
  <2>1. Works(p)
    BY <1>2, <1>3 DEF Commit, Loop, Works, history
  <2>2. PICK l \in {"create", "decode"} :
          /\ pc' = [pc EXCEPT ![p] = l]
          /\ attempt' = [attempt EXCEPT ![p] = 1]
          /\ hand' = hand
    BY <1>3 DEF Commit, Loop
  <2>3. 1 <= MaxAttempts /\ 1 <= Sends
    BY PipelineAssumption DEF Sends
  <2>4. Moves(p)
    BY <1>1, <2>2, <2>3 DEF Moves, Labels
  <2> QED BY <2>1, <2>4
<1>4. CASE CommitFails(p)
  BY <1>2, <1>4 DEF CommitFails, Works, Moves, Release
<1> QED BY <1>3, <1>4

\* What is known stays known.
StoreGrows == \A u \in Uid : store[u] # NoOrder => store'[u] # NoOrder

\* A step of CreateOrder either goes on with the message in hand, or releases it
\* with an order stored under its uid.
LEMMA CreateFacts ==
  ASSUME Inv, NEW p \in Proc, Create(p)
  PROVE  /\ pc[p] \in {"create", "insert"} /\ hand[p] \in Offset
         /\ store' \in [Uid -> Order \cup {NoOrder}] /\ StoreGrows
         /\ UNCHANGED <<topic, pos, committed, canceled, dlq, history>>
         /\ \/ /\ Release(p)
               /\ Wanted(p) # NoOrder /\ store'[Wanted(p).uid] # NoOrder
            \/ \E l \in {"create", "insert", "send"}, n \in Nat :
                 /\ pc' = [pc EXCEPT ![p] = l]
                 /\ attempt' \in {attempt, [attempt EXCEPT ![p] = n]}
                 /\ p = "consumer" => n <= MaxAttempts
                 /\ p = "processor" => n <= Sends
                 /\ hand' = hand
                 /\ l = "insert" => Wanted(p) # NoOrder
<1>1. pc[p] \in {"create", "insert"}
  BY DEF Create, CheckDuplicate, Insert
<1>2. hand[p] \in Offset
  BY <1>1 DEF Inv, TypeOK, HandInv, Idle
<1> DEFINE o == Wanted(p)
<1>3. o \in Order \cup {NoOrder} /\ (o # NoOrder => o.uid \in Uid)
  <2>1. topic[hand[p]] \in Message
    BY <1>2, TopicFacts DEF Inv, TypeOK
  <2>2. topic[hand[p]].order \in Order \cup {NoOrder}
    BY <2>1 DEF Message
  <2> QED BY <2>2, PipelineAssumption DEF Wanted, Decoded, Uid
<1>4. UNCHANGED <<topic, pos, committed, canceled, dlq, history>>
  BY DEF Create, CheckDuplicate, Insert
<1>5. ASSUME Failed(p)
      PROVE  \E l \in {"create", "insert", "send"}, n \in Nat :
               /\ pc' = [pc EXCEPT ![p] = l]
               /\ attempt' \in {attempt, [attempt EXCEPT ![p] = n]}
               /\ p = "consumer" => n <= MaxAttempts
               /\ p = "processor" => n <= Sends
               /\ hand' = hand
               /\ l # "insert"
  <2>1. CASE p = "consumer" /\ attempt[p] < MaxAttempts
    <3>1. Loop(p, "create", attempt[p] + 1)
      BY <1>5, <2>1 DEF Failed
    <3>2. attempt[p] + 1 \in Nat /\ attempt[p] + 1 <= MaxAttempts
      BY <2>1, PipelineAssumption DEF Inv, TypeOK
    <3> QED BY <2>1, <3>1, <3>2 DEF Loop
  <2>2. CASE ~(p = "consumer" /\ attempt[p] < MaxAttempts)
    <3>1. Goto(p, "send")
      BY <1>5, <2>2 DEF Failed
    <3> QED BY <3>1, PipelineAssumption DEF Goto, Sends
  <2> QED BY <2>1, <2>2
<1>6. CASE CheckDuplicate(p)
  <2>1. store' = store
    BY <1>6 DEF CheckDuplicate
  <2>2. \/ Release(p) /\ o # NoOrder /\ store[o.uid] # NoOrder
        \/ o # NoOrder /\ Goto(p, "insert")
        \/ Failed(p)
    BY <1>6 DEF CheckDuplicate, Known
  <2>3. ASSUME o # NoOrder, Goto(p, "insert")
        PROVE  \E l \in {"create", "insert", "send"}, n \in Nat :
                 /\ pc' = [pc EXCEPT ![p] = l]
                 /\ attempt' \in {attempt, [attempt EXCEPT ![p] = n]}
                 /\ p = "consumer" => n <= MaxAttempts
                 /\ p = "processor" => n <= Sends
                 /\ hand' = hand
                 /\ l = "insert" => o # NoOrder
    BY <2>3, PipelineAssumption DEF Goto, Sends
  <2> HIDE DEF o
  <2> QED BY <1>1, <1>2, <1>4, <1>5, <2>1, <2>2, <2>3 DEF Inv, TypeOK, StoreGrows, o
<1>7. CASE Insert(p)
  <2>1. o # NoOrder
    BY <1>7 DEF Insert, Inv, HandInv
  <2>2. ASSUME Service!Save(o)
        PROVE  /\ store' \in [Uid -> Order \cup {NoOrder}] /\ StoreGrows
               /\ store'[o.uid] # NoOrder
    <3>1. store' = [store EXCEPT ![o.uid] = o]
      BY <2>2 DEF Service!Save
    <3> QED BY <1>3, <2>1, <3>1 DEF Inv, TypeOK, StoreGrows
  <2>3. ASSUME store' = store
        PROVE  store' \in [Uid -> Order \cup {NoOrder}] /\ StoreGrows
    BY <2>3 DEF Inv, TypeOK, StoreGrows
  <2>4. \/ Service!Save(o) /\ Release(p)
        \/ (Service!Save(o) \/ store' = store) /\ Failed(p)
    BY <1>7 DEF Insert
  <2> HIDE DEF o
  <2> QED BY <1>1, <1>2, <1>4, <1>5, <2>1, <2>2, <2>3, <2>4 DEF o
<1> QED BY <1>6, <1>7 DEF Create

\* Both goroutines call CreateOrder in the same way.
LEMMA CreateWorks ==
  ASSUME Inv, NEW p \in Proc, Create(p)
  PROVE  Works(p) /\ Moves(p)
<1>1. Works(p)
  BY CreateFacts DEF Works, Inv, TypeOK, history
<1>2. CASE Release(p)
  BY <1>1, <1>2 DEF Moves
<1>3. CASE ~Release(p)
  <2>1. PICK l \in {"create", "insert", "send"}, n \in Nat :
          /\ pc' = [pc EXCEPT ![p] = l]
          /\ attempt' \in {attempt, [attempt EXCEPT ![p] = n]}
          /\ p = "consumer" => n <= MaxAttempts
          /\ p = "processor" => n <= Sends
          /\ hand' = hand
          /\ l = "insert" => Wanted(p) # NoOrder
    BY <1>3, CreateFacts
  <2>2. pc[p] \notin Idle /\ l \notin Idle /\ l \in Labels
    BY CreateFacts DEF Idle, Labels
  <2> QED BY <1>1, <2>1, <2>2 DEF Moves
<1> QED BY <1>2, <1>3

LEMMA SendType ==
  ASSUME Inv, NEW p \in Proc, pc[p] \notin Idle, NEW n \in Nat,
         SendOK(p, n) \/ SendFails(p, n)
  PROVE  /\ hand[p] \in Offset
         /\ dlq' \subseteq [msg : Offset, retry : Nat] /\ dlq \subseteq dlq'
<1>1. hand[p] \in Offset
  BY DEF Inv, TypeOK, HandInv
<1>2. Entry(p, n) \in [msg : Offset, retry : Nat]
  BY <1>1 DEF Entry
<1>3. dlq' \subseteq [msg : Offset, retry : Nat] /\ dlq \subseteq dlq'
  BY <1>2 DEF Inv, TypeOK, SendOK, SendFails
<1> QED BY <1>1, <1>3

LEMMA ConsumerWorks ==
  ASSUME Inv,
         \/ ConsumerLoop \/ ConsumerReadEnds \/ Create("consumer")
         \/ HandleCanceled \/ Send \/ Resend
  PROVE  Works("consumer") /\ Moves("consumer")
<1> USE PipelineAssumption DEF Inv, TypeOK, Idle, history, Proc
<1>1. CASE ConsumerLoop \/ ConsumerReadEnds \/ HandleCanceled
  BY <1>1 DEF ConsumerLoop, ConsumerReadEnds, HandleCanceled, Goto, Works, Moves, Labels
<1>2. CASE Create("consumer")
  BY <1>2, CreateWorks
<1>3. CASE Send \/ Resend
  <2>1. pc["consumer"] \in {"send", "resend"}
        /\ (SendOK("consumer", MaxAttempts) \/ SendFails("consumer", MaxAttempts))
    BY <1>3 DEF Send, Resend
  <2>2. Works("consumer")
    BY <1>3, <2>1, SendType DEF Send, Resend, Works
  <2>3. Moves("consumer")
    BY <1>3 DEF Send, Resend, Goto, Moves, Labels
  <2> QED BY <2>2, <2>3
<1> QED BY <1>1, <1>2, <1>3

LEMMA ProcessorWorks ==
  ASSUME Inv,
         \/ ProcessorTick \/ ProcessorStops \/ ProcessorReadEnds \/ Decode
         \/ LookUp \/ Create("processor") \/ ProcessorSend
  PROVE  Works("processor") /\ Moves("processor")
<1> USE PipelineAssumption DEF Inv, TypeOK, Idle, history, Proc, Sends
<1>1. CASE ProcessorTick \/ ProcessorStops \/ ProcessorReadEnds
  BY <1>1 DEF ProcessorTick, ProcessorStops, ProcessorReadEnds, Goto, Works, Moves, Labels
<1>2. CASE Decode \/ LookUp
  BY <1>2 DEF Decode, LookUp, Goto, Works, Moves, Labels
<1>3. CASE Create("processor")
  BY <1>3, CreateWorks
<1>4. CASE ProcessorSend
  <2> DEFINE n == topic[hand["processor"]].retry + 1
  <2>1. pc["processor"] = "send" /\ (SendOK("processor", n) \/ SendFails("processor", n))
    BY <1>4 DEF ProcessorSend
  <2>2. hand["processor"] \in Offset
    BY <2>1 DEF HandInv
  <2>3. n \in Nat
    BY <2>2, RetryType
  <2>4. Works("processor")
    BY <1>4, <2>1, <2>3, SendType DEF ProcessorSend, Works
  <2>5. Moves("processor")
    BY <1>4 DEF ProcessorSend, Loop, Moves, Labels
  <2> QED BY <2>4, <2>5
<1> QED BY <1>1, <1>2, <1>3, <1>4

LEMMA CancelKeeps ==
  ASSUME Inv, Cancel
  PROVE  Inv'
BY HeldInTopic DEF Inv, TypeOK, HandInv, NeverShared, Seen, Cancel, Offset, Wanted,
                   Decoded

LEMMA InvStep == Inv /\ [Next]_vars => Inv'
<1> SUFFICES ASSUME Inv, [Next]_vars PROVE Inv'
  OBVIOUS
<1>1. ASSUME NEW p \in Proc, Read(p) PROVE Inv'
  BY <1>1, FetchKeeps, CommitWorks, WorkKeeps DEF Read
<1>2. CASE Consumer
  BY <1>1, <1>2, ConsumerWorks, WorkKeeps DEF Consumer, Proc
<1>3. CASE Processor
  BY <1>1, <1>3, ProcessorWorks, WorkKeeps DEF Processor, Proc
<1>4. CASE UNCHANGED vars
  BY <1>4 DEF vars, history, Inv, TypeOK, HandInv, NeverShared, Seen, Offset,
              Wanted, Decoded
<1> QED BY <1>2, <1>3, <1>4, CancelKeeps, CrashKeeps, RebalanceKeeps DEF Next

LEMMA InvAlways == Spec => []Inv
BY InvInit, InvStep, PTL DEF Spec

\* Every variable keeps its type (TypeOK): the attempts stay within their limits
\* and the committed offset behind the reader.
THEOREM PipelineTypes == Spec => []TypeOK
BY InvAlways, PTL DEF Inv

\* Consumer and DLQ processor work on the same message only if a rebalance took
\* the reader back before it (NeverShared), although they call ReadMessage on the
\* same reader concurrently, commit in any order and restarts move it back.
THEOREM SharedTheorem == Spec => []NeverShared
<1>1. Inv => NeverShared
  BY DEF Inv, HandInv
<1> QED BY <1>1, InvAlways, PTL

\* The committed offset never passes a message no goroutine has fetched (NoGap),
\* in whatever order the two goroutines commit and wherever the reader is.
THEOREM GapTheorem == Spec => []NoGap
<1>1. Inv => NoGap
  BY DEF Inv, HandInv, Seen, NoGap
<1> QED BY <1>1, InvAlways, PTL

-----------------------------------------------------------------------------
(* The consumer's account of its messages                                   *)

Settled(n) ==
  \/ Known(Decoded(topic[n]))
  \/ InDLQ(n)
  \/ n \in struck

\* ConsumerAccounts made inductive: before its second write to the DLQ the
\* consumer has failed once or lost its context, and with the context canceled
\* whatever is in hand is struck.
AccountInv ==
  /\ \A n \in fetched["consumer"] : n = hand["consumer"] \/ Settled(n)
  /\ pc["consumer"] = "resend" =>
       hand["consumer"] \in struck \/ unsent = hand["consumer"]
  /\ canceled => \A p \in Proc : hand[p] # 0 => hand[p] \in struck

\* Nothing that settles a message is ever taken back.
Grows ==
  /\ topic' = topic
  /\ StoreGrows /\ dlq \subseteq dlq' /\ struck \subseteq struck'

LEMMA KnownStays ==
  ASSUME Inv, StoreGrows, NEW n \in Offset, NEW o, o \in {topic[n].order, Blank},
         Known(o)
  PROVE  o # NoOrder /\ store'[o.uid] # NoOrder
<1>1. topic[n] \in Message
  BY TopicFacts DEF Inv, TypeOK
<1>2. o \in Order /\ o.uid \in Uid
  BY <1>1, PipelineAssumption DEF Message, Known, Uid
<1> QED BY <1>2 DEF StoreGrows, Known

LEMMA SettledStays ==
  ASSUME Inv, Grows, NEW n \in Offset, Settled(n)
  PROVE  Settled(n)'
<1>1. CASE Known(Decoded(topic[n]))
  <2>1. Decoded(topic[n]) \in {topic[n].order, Blank}
    BY DEF Decoded
  <2>2. Decoded(topic[n]) # NoOrder /\ store'[Decoded(topic[n]).uid] # NoOrder
    BY <1>1, <2>1, KnownStays DEF Grows
  <2>3. topic' = topic
    BY DEF Grows
  <2> QED BY <2>2, <2>3 DEF Settled, Known, Decoded
<1> QED BY <1>1 DEF Settled, Grows, InDLQ

\* A step after which each goroutine holds its message or none keeps the
\* account, if a message the consumer lays down is settled.
LEMMA AccountFrame ==
  ASSUME Inv, AccountInv, Inv', Grows, fetched' = fetched, canceled' = canceled,
         \A p \in Proc : hand'[p] \in {0, hand[p]},
         \A n : n = hand["consumer"] /\ n # 0 /\ hand'["consumer"] = 0 => Settled(n)',
         pc'["consumer"] = "resend" =>
           \/ hand'["consumer"] \in struck'
           \/ unsent' = hand'["consumer"]
  PROVE  AccountInv'
<1>1. ASSUME NEW n \in fetched'["consumer"]
      PROVE  n = hand'["consumer"] \/ Settled(n)'
  <2>1. n \in Offset
    BY DEF Inv, TypeOK, Proc
  <2>2. CASE n = hand["consumer"]
    <3>1. n # 0
      BY <2>1, TopicFacts DEF Inv, TypeOK
    <3> QED BY <2>2, <3>1 DEF Proc
  <2>3. CASE n # hand["consumer"]
    BY <2>1, <2>3, SettledStays DEF AccountInv
  <2> QED BY <2>2, <2>3
<1>2. canceled' => \A p \in Proc : hand'[p] # 0 => hand'[p] \in struck'
  BY DEF AccountInv, Grows
<1> QED BY <1>1, <1>2 DEF AccountInv

LEMMA AccountInit == Init => AccountInv
BY DEF Init, AccountInv, Proc

\* The steps of reading: a fetched message is in hand, and struck if the context
\* is canceled; one whose commit failed is struck.
LEMMA AccountRead ==
  ASSUME Inv, AccountInv, Inv', NEW p \in Proc, Read(p)
  PROVE  AccountInv'
<1>1. CASE Fetch(p)
  <2>1. hand[p] = 0 /\ pos # 0
    BY <1>1, TopicFacts DEF Inv, HandInv, Idle, Fetch, TypeOK
  <2>2. Grows /\ unsent' = unsent /\ topic' = topic
    BY <1>1 DEF Fetch, Grows, StoreGrows
  <2>3. ASSUME NEW n \in fetched'["consumer"], n # hand'["consumer"]
        PROVE  Settled(n)'
    <3>1. n \in fetched["consumer"] /\ n \in Offset
      BY <1>1, <2>3 DEF Fetch, Inv, TypeOK, Proc
    <3>2. n # hand["consumer"]
      BY <1>1, <2>1, <2>3, <3>1, TopicFacts DEF Fetch, Inv, TypeOK, Proc
    <3> QED BY <2>2, <3>1, <3>2, SettledStays DEF AccountInv
  <2>4. pc'["consumer"] = "resend" =>
          hand'["consumer"] \in struck' \/ unsent' = hand'["consumer"]
    BY <1>1, <2>2 DEF Fetch, Inv, TypeOK, AccountInv, Proc
  <2>5. canceled' => \A q \in Proc : hand'[q] # 0 => hand'[q] \in struck'
    BY <1>1 DEF Fetch, Inv, TypeOK, AccountInv
  <2> QED BY <2>3, <2>4, <2>5 DEF AccountInv
<1>2. CASE Commit(p)
  <2>1. Grows
    BY <1>2 DEF Commit, Loop, history, Grows, StoreGrows
  <2> QED BY <1>2, <2>1, AccountFrame
          DEF Commit, Loop, history, Inv, TypeOK, AccountInv, Proc
<1>3. CASE CommitFails(p)
  <2>1. Grows
    BY <1>3 DEF CommitFails, Grows, StoreGrows
  <2>2. \A n : n = hand["consumer"] /\ n # 0 /\ hand'["consumer"] = 0 => Settled(n)'
    BY <1>3 DEF CommitFails, Release, Settled, Inv, TypeOK, Proc, HandInv, Idle
  <2>3. pc'["consumer"] = "resend" =>
          hand'["consumer"] \in struck' \/ unsent' = hand'["consumer"]
    BY <1>3 DEF CommitFails, Release, Inv, TypeOK, AccountInv, Proc
  <2> QED BY <1>3, <2>1, <2>2, <2>3, AccountFrame
          DEF CommitFails, Release, Inv, TypeOK, Proc
<1> QED BY <1>1, <1>2, <1>3 DEF Read

LEMMA AccountConsumer ==
  ASSUME Inv, AccountInv, Inv',
         \/ ConsumerLoop \/ ConsumerReadEnds \/ Create("consumer")
         \/ HandleCanceled \/ Send \/ Resend
  PROVE  AccountInv'
<1> USE DEF history, Proc
<1>1. CASE ConsumerLoop \/ ConsumerReadEnds
  BY <1>1, AccountFrame
     DEF ConsumerLoop, ConsumerReadEnds, Goto, Grows, StoreGrows, Inv, TypeOK
<1>2. CASE Create("consumer")
  <2> PICK m : m = hand["consumer"]
    OBVIOUS
  <2>1. Grows /\ UNCHANGED <<canceled, fetched, unsent>>
    BY <1>2, CreateFacts DEF Grows
  <2>2. pc'["consumer"] # "resend" /\ hand'["consumer"] \in {0, hand["consumer"]}
    BY <1>2, CreateFacts DEF Release, Inv, TypeOK
  <2>3. hand'["processor"] = hand["processor"]
    BY <1>2, CreateFacts DEF Release, Inv, TypeOK
  <2>4. m # 0 /\ hand'["consumer"] = 0 => Settled(m)'
    <3> SUFFICES ASSUME m # 0, hand'["consumer"] = 0 PROVE Settled(m)'
      OBVIOUS
    <3>1. Wanted("consumer") # NoOrder /\ store'[Wanted("consumer").uid] # NoOrder
      BY <1>2, CreateFacts
    <3>2. topic' = topic /\ Wanted("consumer") = Decoded(topic[m])
      BY <2>1 DEF Grows, Wanted
    <3> QED BY <3>1, <3>2 DEF Settled, Known, Decoded
  <2> QED BY <2>1, <2>2, <2>3, <2>4, AccountFrame
<1>3. CASE HandleCanceled
  <2>1. hand["consumer"] \in struck
    BY <1>3 DEF HandleCanceled, AccountInv, Inv, HandInv, Idle
  <2> QED BY <1>3, <2>1, AccountFrame
          DEF HandleCanceled, Goto, Grows, StoreGrows, Inv, TypeOK
<1>4. CASE Send \/ Resend
  <2> PICK m : m = hand["consumer"]
    OBVIOUS
  <2>1. pc["consumer"] \in {"send", "resend"}
        /\ (SendOK("consumer", MaxAttempts) \/ SendFails("consumer", MaxAttempts))
    BY <1>4 DEF Send, Resend
  <2>2. m \in Offset /\ Grows
    BY <1>4, <2>1, SendType, PipelineAssumption
       DEF Send, Resend, Grows, StoreGrows, Idle, Inv, TypeOK
  <2>3. SendOK("consumer", MaxAttempts) => InDLQ(m)'
    <3> SUFFICES ASSUME SendOK("consumer", MaxAttempts) PROVE InDLQ(m)'
      OBVIOUS
    <3>1. Entry("consumer", MaxAttempts) \in dlq' /\ Entry("consumer", MaxAttempts).msg = m
      BY DEF SendOK, Entry
    <3> QED BY <3>1 DEF InDLQ
  <2>4. CASE Release("consumer")
    <3>1. Settled(m)'
      <4>1. CASE SendOK("consumer", MaxAttempts)
        BY <2>3, <4>1 DEF Settled
      <4>2. CASE ~SendOK("consumer", MaxAttempts)
        <5>1. pc'["consumer"] = "loop"
          BY <2>4 DEF Release, Inv, TypeOK
        <5>2. Resend
          BY <1>4, <4>2, <5>1 DEF Send, Goto, Inv, TypeOK
        <5>3. m \in struck \/ unsent = m
          BY <5>2 DEF Resend, AccountInv
        <5>4. m \in struck'
          BY <2>2, <4>2, <5>2, <5>3 DEF Resend, Offset
        <5> QED BY <5>4 DEF Settled
      <4> QED BY <4>1, <4>2
    <3> QED BY <1>4, <2>2, <2>4, <3>1, AccountFrame
            DEF Send, Resend, Release, Inv, TypeOK
  <2>5. CASE Send /\ Goto("consumer", "resend")
    <3>1. unsent' = hand["consumer"]
      BY <2>5 DEF Send, Goto, Release, Inv, TypeOK
    <3> QED BY <2>2, <2>5, <3>1, AccountFrame DEF Send, Goto, Inv, TypeOK
  <2> QED BY <1>4, <2>4, <2>5 DEF Send, Resend
<1> QED BY <1>1, <1>2, <1>3, <1>4

LEMMA AccountProcessor ==
  ASSUME Inv, AccountInv, Inv',
         \/ ProcessorTick \/ ProcessorStops \/ ProcessorReadEnds \/ Decode
         \/ LookUp \/ Create("processor") \/ ProcessorSend
  PROVE  AccountInv'
<1>1. Works("processor") /\ Moves("processor")
  BY ProcessorWorks
<1>2. Grows /\ canceled' = canceled /\ unsent' = unsent
  <2>1. CASE ProcessorTick \/ ProcessorStops \/ ProcessorReadEnds \/ Decode \/ LookUp
    BY <2>1
       DEF ProcessorTick, ProcessorStops, ProcessorReadEnds, Decode, LookUp, history,
           Grows, StoreGrows
  <2>2. CASE Create("processor")
    BY <2>2, CreateFacts DEF history, Grows, Proc
  <2>3. CASE ProcessorSend
    <3> DEFINE n == topic[hand["processor"]].retry + 1
    <3>1. pc["processor"] = "send"
          /\ (SendOK("processor", n) \/ SendFails("processor", n))
      BY <2>3 DEF ProcessorSend
    <3>2. hand["processor"] \in Offset
      BY <3>1 DEF Inv, TypeOK, HandInv, Idle, Proc
    <3>3. n \in Nat
      BY <3>2, RetryType DEF Inv, TypeOK
    <3> QED BY <2>3, <3>1, <3>3, SendType DEF ProcessorSend, Grows, StoreGrows, history, Idle, Proc
  <2> QED BY <2>1, <2>2, <2>3
<1>3. /\ hand'["consumer"] = hand["consumer"] /\ pc'["consumer"] = pc["consumer"]
      /\ hand'["processor"] \in {0, hand["processor"]}
  BY <1>1 DEF Moves, Release, Inv, TypeOK, Proc
<1>4. pc'["consumer"] = "resend" =>
        hand'["consumer"] \in struck' \/ unsent' = hand'["consumer"]
  BY <1>2, <1>3 DEF AccountInv, Grows
<1> QED BY <1>1, <1>2, <1>3, <1>4, AccountFrame DEF Works, Proc

LEMMA AccountStep == Inv /\ AccountInv /\ Inv' /\ [Next]_vars => AccountInv'
<1> SUFFICES ASSUME Inv, AccountInv, Inv', [Next]_vars PROVE AccountInv'
  OBVIOUS
<1>1. CASE Consumer
  BY <1>1, AccountRead, AccountConsumer DEF Consumer, Proc
<1>2. CASE Processor
  BY <1>2, AccountRead, AccountProcessor DEF Processor, Proc
<1>3. CASE Cancel \/ Crash
  <2>1. Grows /\ InHand \subseteq struck' /\ fetched' = fetched
    BY <1>3 DEF Cancel, Crash, Grows, StoreGrows, Inv, TypeOK
  <2>2. ASSUME NEW n \in fetched'["consumer"]
        PROVE  n = hand'["consumer"] \/ Settled(n)'
    <3>1. n \in Offset
      BY <2>1 DEF Inv, TypeOK, Proc
    <3>2. CASE n = hand["consumer"]
      <4>1. n \in InHand
        BY <3>1, <3>2, TopicFacts DEF InHand, Proc, Inv, TypeOK
      <4> QED BY <2>1, <4>1 DEF Settled
    <3>3. CASE n # hand["consumer"]
      BY <2>1, <3>1, <3>3, SettledStays DEF AccountInv
    <3> QED BY <3>2, <3>3
  <2>3. pc'["consumer"] = "resend" =>
          hand'["consumer"] \in struck' \/ unsent' = hand'["consumer"]
    BY <1>3, <2>1 DEF Cancel, Crash, AccountInv, Grows, Proc
  <2>4. canceled' => \A p \in Proc : hand'[p] # 0 => hand'[p] \in struck'
    BY <1>3, <2>1 DEF Cancel, Crash, InHand
  <2> QED BY <2>2, <2>3, <2>4 DEF AccountInv
<1>4. CASE Rebalance
  <2>1. Grows
    BY <1>4 DEF Rebalance, Grows, StoreGrows
  <2> QED BY <1>4, <2>1, AccountFrame DEF Rebalance, AccountInv
<1>5. CASE UNCHANGED vars
  BY <1>5 DEF vars, history, AccountInv, Settled, Known, Decoded, InDLQ
<1> QED BY <1>1, <1>2, <1>3, <1>4, <1>5 DEF Next

\* A message the consumer has taken and laid down is in the DLQ or the database
\* has an order under its uid, except for the mishaps ConsumerAccounts names: no
\* other order of failures, retries, restarts and rebalances loses one.  Under a
\* uid that two orders share, the stored one may be the other: OwnOrderTheorem.
THEOREM AccountTheorem == Spec => []ConsumerAccounts
<1>1. Inv /\ AccountInv => ConsumerAccounts
  BY DEF AccountInv, ConsumerAccounts, Settled
<1> QED BY <1>1, InvAlways, AccountInit, AccountStep, PTL DEF Spec

-----------------------------------------------------------------------------
(* The processor's account of its messages                                  *)

Saved(n) ==
  Retriable(topic[n]) => \/ Known(topic[n].order)
                         \/ InDLQ(n)
                         \/ n \in struck

LEMMA SavedStays ==
  ASSUME Inv, Grows, NEW n \in Offset, Saved(n)
  PROVE  Saved(n)'
<1>1. CASE Known(topic[n].order)
  <2>1. topic[n].order # NoOrder /\ store'[topic[n].order.uid] # NoOrder
    BY <1>1, KnownStays DEF Grows
  <2>2. topic' = topic
    BY DEF Grows
  <2> QED BY <2>1, <2>2 DEF Saved, Known
<1> QED BY <1>1 DEF Saved, Grows, InDLQ, Retriable

\* What goes into the DLQ is the message in hand.
LEMMA SentIsThere ==
  ASSUME NEW p \in Proc, NEW n, SendOK(p, n), NEW m, m = hand[p]
  PROVE  InDLQ(m)'
<1>1. Entry(p, n) \in dlq' /\ Entry(p, n).msg = m
  BY DEF SendOK, Entry
<1> QED BY <1>1 DEF InDLQ

\* No step takes a message out of the database, the DLQ or the record.
LEMMA NothingTakenBack ==
  ASSUME Inv, [Next]_vars
  PROVE  Grows
<1> USE DEF Grows, StoreGrows, history
<1>1. ASSUME NEW p \in Proc, Read(p) PROVE Grows
  BY <1>1 DEF Read, Fetch, Commit, CommitFails
<1>3. ASSUME NEW p \in Proc, Create(p) PROVE Grows
  BY <1>3, CreateFacts
<1>4. CASE Send \/ Resend \/ ProcessorSend
  BY <1>4 DEF Send, Resend, ProcessorSend, SendOK, SendFails
<1>5. CASE \/ ConsumerLoop \/ ConsumerReadEnds \/ HandleCanceled
           \/ ProcessorTick \/ ProcessorStops \/ ProcessorReadEnds \/ Decode \/ LookUp
  BY <1>5 DEF ConsumerLoop, ConsumerReadEnds, HandleCanceled, ProcessorTick,
              ProcessorStops, ProcessorReadEnds, Decode, LookUp
<1>6. CASE Cancel \/ Crash \/ Rebalance
  BY <1>6 DEF Cancel, Crash, Rebalance
<1>7. CASE UNCHANGED vars
  BY <1>7 DEF vars
<1> QED BY <1>1, <1>3, <1>4, <1>5, <1>6, <1>7 DEF Next, Consumer, Processor, Proc

\* The processor keeps the message it has in hand, or leaves it saved.
LaysDownSaved ==
  \A m : m = hand["processor"] =>
    m = 0 \/ m = hand'["processor"] \/ Saved(m)'

\* A step keeps the processor's account if it fetches nothing but what the
\* processor then holds, and leaves saved what the processor lays down.
LEMMA SavedFrame ==
  ASSUME Inv, ProcessorAccounts, Inv', Grows, LaysDownSaved,
         fetched'["processor"] \subseteq fetched["processor"] \cup {hand'["processor"]}
  PROVE  ProcessorAccounts'
<1>1. ASSUME NEW n \in fetched'["processor"] \ {hand'["processor"]}
      PROVE  Saved(n)'
  <2>1. n \in fetched["processor"] /\ n # 0 /\ n \in Offset
    BY <1>1, TopicFacts DEF Inv, TypeOK, Proc, Offset
  <2>2. CASE n = hand["processor"]
    BY <1>1, <2>1, <2>2 DEF LaysDownSaved
  <2>3. CASE n # hand["processor"]
    <3>1. Saved(n)
      BY <2>1, <2>3 DEF ProcessorAccounts, Saved
    <3> QED BY <2>1, <3>1, SavedStays
  <2> QED BY <2>2, <2>3
<1> QED BY <1>1 DEF ProcessorAccounts, Saved

\* The processor lays a message down only when it has no retries left or holds
\* no order, when its order is stored or in the DLQ, or after the last try.
LEMMA ProcessorSaves ==
  ASSUME Inv, Grows, Decode \/ LookUp \/ Create("processor") \/ ProcessorSend
  PROVE  LaysDownSaved
<1> SUFFICES ASSUME NEW m, m = hand["processor"], m # hand'["processor"]
             PROVE  Saved(m)'
  BY DEF LaysDownSaved
<1>1. topic' = topic /\ StoreGrows
  BY DEF Grows
<1>2. CASE Decode
  BY <1>1, <1>2 DEF Decode, Goto, Saved
<1>3. CASE LookUp
  <2>1. Known(topic[m].order)
    BY <1>3 DEF LookUp, Goto, Wanted
  <2>2. m \in Offset
    BY <1>3 DEF LookUp, Inv, TypeOK, HandInv, Idle, Proc
  <2>3. topic[m].order # NoOrder /\ store'[topic[m].order.uid] # NoOrder
    BY <1>1, <2>1, <2>2, KnownStays
  <2> QED BY <1>1, <2>3 DEF Saved, Known
<1>4. CASE Create("processor")
  <2>1. topic[m].order # NoOrder /\ store'[topic[m].order.uid] # NoOrder
    BY <1>4, CreateFacts DEF Wanted, Proc
  <2> QED BY <1>1, <2>1 DEF Saved, Known
<1>5. CASE ProcessorSend
  <2>1. ASSUME NEW n, SendOK("processor", n) PROVE Saved(m)'
    BY <2>1, SentIsThere DEF Saved, Proc
  <2>2. CASE struck' = struck \cup {m}
    BY <2>2 DEF Saved
  <2> QED BY <1>5, <2>1, <2>2 DEF ProcessorSend, Loop
<1> QED BY <1>2, <1>3, <1>4, <1>5

LEMMA SavedStep == Inv /\ ProcessorAccounts /\ Inv' /\ [Next]_vars => ProcessorAccounts'
<1> SUFFICES ASSUME Inv, ProcessorAccounts, Inv', [Next]_vars PROVE ProcessorAccounts'
  OBVIOUS
<1>0. Grows
  BY NothingTakenBack
<1>1. CASE Consumer
  <2>1. UNCHANGED <<fetched["processor"], hand["processor"]>>
    <3>1. CASE Read("consumer")
      BY <3>1 DEF Read, Fetch, Commit, CommitFails, Loop, Release, history,
                  Inv, TypeOK, Proc
    <3>2. CASE \/ ConsumerLoop \/ ConsumerReadEnds \/ Create("consumer")
               \/ HandleCanceled \/ Send \/ Resend
      BY <3>2, ConsumerWorks DEF Works, Moves, Release, Inv, TypeOK, Proc
    <3> QED BY <1>1, <3>1, <3>2 DEF Consumer
  <2> QED BY <1>0, <2>1, SavedFrame DEF LaysDownSaved
<1>2. CASE Fetch("processor")
  <2>1. hand["processor"] = 0
    BY <1>2 DEF Fetch, Inv, HandInv, Idle, Proc
  <2>2. fetched'["processor"] = fetched["processor"] \cup {hand'["processor"]}
    BY <1>2 DEF Fetch, Inv, TypeOK, Proc
  <2> QED BY <1>0, <2>1, <2>2, SavedFrame DEF LaysDownSaved
<1>3. CASE Commit("processor")
  BY <1>0, <1>3, SavedFrame DEF Commit, Loop, history, LaysDownSaved
<1>4. CASE CommitFails("processor")
  <2>1. \A m : m = hand["processor"] => Saved(m)'
    BY <1>4 DEF CommitFails, Saved
  <2> QED BY <1>0, <1>4, <2>1, SavedFrame DEF CommitFails, LaysDownSaved
<1>5. CASE ProcessorTick \/ ProcessorStops \/ ProcessorReadEnds
  BY <1>0, <1>5, SavedFrame
     DEF ProcessorTick, ProcessorStops, ProcessorReadEnds, Goto, history, LaysDownSaved
<1>6. CASE Decode \/ LookUp \/ Create("processor") \/ ProcessorSend
  <2>1. fetched' = fetched
    BY <1>6, ProcessorWorks DEF Works
  <2> QED BY <1>0, <1>6, <2>1, ProcessorSaves, SavedFrame
<1>7. CASE Cancel \/ Rebalance
  BY <1>0, <1>7, SavedFrame DEF Cancel, Rebalance, LaysDownSaved
<1>8. CASE Crash
  <2>1. \A m : m = hand["processor"] => m = 0 \/ m \in struck'
    BY <1>8 DEF Crash, InHand, Proc
  <2>2. LaysDownSaved
    BY <2>1 DEF LaysDownSaved, Saved
  <2>3. fetched' = fetched
    BY <1>8 DEF Crash
  <2> QED BY <1>0, <2>2, <2>3, SavedFrame
<1>9. CASE UNCHANGED vars
  BY <1>0, <1>9, SavedFrame DEF vars, history, LaysDownSaved
<1> QED BY <1>1, <1>2, <1>3, <1>4, <1>5, <1>6, <1>7, <1>8, <1>9
        DEF Next, Processor, Read

\* An envelope with retries left that the DLQ processor has taken and laid down
\* is in the DLQ again, or the database has an order under its uid, this one or
\* another (OwnOrderTheorem), with the exceptions ProcessorAccounts names.
THEOREM ProcessorAccountTheorem == Spec => []ProcessorAccounts
<1>1. Init => ProcessorAccounts
  BY DEF Init, ProcessorAccounts, Proc
<1> QED BY <1>1, SavedStep, InvAlways, PTL DEF Spec

-----------------------------------------------------------------------------
(* Which order the database has under a uid                                 *)

\* A stored order is valid, under its own uid, and from a message of the topic.
FromTopic(u) == /\ store[u].uid = u /\ ValidOrder(store[u])
                /\ \E n \in Offset : store[u] = topic[n].order

StoreInv == \A u \in Uid : store[u] # NoOrder => FromTopic(u)

\* CreateOrder stores the order p works on, or nothing; never the Blank the
\* consumer decodes from an envelope, which is not valid.
LEMMA CreateSaves ==
  ASSUME Inv, NEW p \in Proc, Create(p), store' # store
  PROVE  LET o == topic[hand[p]].order IN
         /\ hand[p] \in Offset /\ o \in Order /\ ValidOrder(o)
         /\ store' = [store EXCEPT ![o.uid] = o]
<1>1. Service!Save(Wanted(p)) /\ Wanted(p) # NoOrder
  BY DEF Create, CheckDuplicate, Insert, Inv, HandInv
<1>2. ValidOrder(Wanted(p)) /\ store' = [store EXCEPT ![Wanted(p).uid] = Wanted(p)]
  BY <1>1 DEF Service!Save, Service!Savable, Service!ValidOrder, ValidOrder
<1>3. hand[p] \in Offset
  BY CreateFacts
<1>4. Wanted(p) # Blank
  BY <1>2, PipelineAssumption DEF ValidOrder
<1>5. Wanted(p) = topic[hand[p]].order
  BY <1>4 DEF Wanted, Decoded
<1>6. topic[hand[p]] \in Message
  BY <1>3, TopicFacts DEF Inv, TypeOK
<1> QED BY <1>1, <1>2, <1>3, <1>5, <1>6 DEF Message

LEMMA StoreInvStep == Inv /\ StoreInv /\ [Next]_vars => StoreInv'
<1> SUFFICES ASSUME Inv, StoreInv, [Next]_vars PROVE StoreInv'
  OBVIOUS
<1>1. topic' = topic
  BY NothingTakenBack DEF Grows
<1>2. CASE store' = store
  BY <1>1, <1>2 DEF StoreInv, FromTopic, Offset
<1>3. CASE store' # store
  <2>1. PICK p \in Proc : Create(p)
    BY <1>3 DEF Next, Consumer, Processor, Read, Fetch, Commit, CommitFails,
                ConsumerLoop, ConsumerReadEnds, HandleCanceled, Send, Resend,
                ProcessorTick, ProcessorStops, ProcessorReadEnds, Decode, LookUp,
                ProcessorSend, Cancel, Crash, Rebalance, vars, Proc
  <2> DEFINE k == hand[p]
             o == topic[k].order
  <2>2. k \in Offset /\ ValidOrder(o) /\ store' = [store EXCEPT ![o.uid] = o]
    BY <1>3, <2>1, CreateSaves
  <2> SUFFICES ASSUME NEW u \in Uid, store'[u] # NoOrder PROVE FromTopic(u)'
    BY DEF StoreInv
  <2>3. CASE u = o.uid
    <3>1. store'[u] = o
      BY <2>2, <2>3 DEF Inv, TypeOK
    <3> HIDE DEF k
    <3> QED BY <1>1, <2>2, <2>3, <3>1 DEF FromTopic, Offset
  <2>4. CASE u # o.uid
    <3>1. store'[u] = store[u]
      BY <2>2, <2>4 DEF Inv, TypeOK
    <3>2. FromTopic(u)
      BY <3>1 DEF StoreInv
    <3> QED BY <1>1, <3>1, <3>2 DEF FromTopic, Offset
  <2> QED BY <2>3, <2>4
<1> QED BY <1>2, <1>3

LEMMA StoreInvAlways == Spec => []StoreInv
<1>1. Init => StoreInv
  BY DEF Init, StoreInv
<1> QED BY <1>1, StoreInvStep, InvAlways, PTL DEF Spec

\* No two messages of a topic carry different orders under one uid.
OneOrderPerUid ==
  \A t \in Topics : \A m, n \in 1..Len(t) :
    LET o == t[m].order
        other == t[n].order IN
    o # NoOrder /\ other # NoOrder /\ o.uid = other.uid => o = other

\* The order itself is in the database.
IsStored(o) == o # NoOrder /\ store[o.uid] = o

\* Then what is known is the order itself, and what an envelope decodes to for the
\* consumer is never known.
LEMMA KnownIsStored ==
  ASSUME OneOrderPerUid, Inv, StoreInv, NEW n \in Offset
  PROVE  /\ Known(topic[n].order) => IsStored(topic[n].order)
         /\ Known(Decoded(topic[n])) => IsStored(Decoded(topic[n]))
<1>1. topic \in Topics /\ topic[n] \in Message
  BY TopicFacts DEF Inv, TypeOK
<1>2. ASSUME NEW o, o = topic[n].order, Known(o) PROVE IsStored(o)
  <2>1. o \in Order /\ o.uid \in Uid
    BY <1>1, <1>2 DEF Message, Known, Uid
  <2>2. FromTopic(o.uid)
    BY <1>2, <2>1 DEF StoreInv, Known
  <2>3. PICK m \in Offset : store[o.uid] = topic[m].order
    BY <2>2 DEF FromTopic
  <2>4. topic[m].order # NoOrder /\ o # NoOrder /\ topic[m].order.uid = o.uid
    BY <1>2, <2>2, <2>3 DEF FromTopic, Known
  <2>5. topic[m].order = o
    BY <1>1, <1>2, <2>4 DEF OneOrderPerUid, Offset
  <2> QED BY <2>3, <2>4, <2>5 DEF IsStored
<1>3. ~Known(Blank)
  <2>1. Blank.uid \in Uid /\ Blank.uid = NilUid
    BY PipelineAssumption DEF Uid
  <2> QED BY <2>1 DEF Known, StoreInv, FromTopic, ValidOrder
<1>4. Decoded(topic[n]) \in {topic[n].order, Blank}
  BY DEF Decoded
<1> QED BY <1>2, <1>3, <1>4

\* Both accounts, of the order itself.
OwnAccounts ==
  /\ \A n \in fetched["consumer"] \ {hand["consumer"]} :
       IsStored(Decoded(topic[n])) \/ InDLQ(n) \/ n \in struck
  /\ \A n \in fetched["processor"] \ {hand["processor"]} :
       Retriable(topic[n]) =>
         IsStored(topic[n].order) \/ InDLQ(n) \/ n \in struck

\* If the topic never carries two different orders under one uid, the order that
\* either goroutine has taken and laid down is itself in the database, or its
\* message is in the DLQ, or one of the mishaps has struck it: neither the answer
\* of the duplicate check nor the processor's GetOrder, which look at the uid
\* alone, then stands for another order.
THEOREM OwnOrderTheorem ==
  ASSUME OneOrderPerUid
  PROVE  Spec => []OwnAccounts
<1>1. Inv /\ StoreInv /\ ConsumerAccounts /\ ProcessorAccounts => OwnAccounts
  <2> SUFFICES ASSUME Inv, StoreInv, ConsumerAccounts, ProcessorAccounts
               PROVE  OwnAccounts
    OBVIOUS
  <2>1. \A p \in Proc : fetched[p] \subseteq Offset
    BY DEF Inv, TypeOK
  <2>2. \A n \in Offset :
          /\ Known(topic[n].order) => IsStored(topic[n].order)
          /\ Known(Decoded(topic[n])) => IsStored(Decoded(topic[n]))
    BY KnownIsStored
  <2> QED BY <2>1, <2>2 DEF OwnAccounts, ConsumerAccounts, ProcessorAccounts, Proc
<1> QED BY <1>1, InvAlways, StoreInvAlways, AccountTheorem, ProcessorAccountTheorem, PTL
-----------------------------------------------------------------------------
(* What the DLQ holds                                                       *)

\* Entries come from the consumer, with the retry count MaxAttempts, or from the
\* processor, which retries only an envelope with retries left and counts on.
DLQInv ==
  /\ pc["processor"] \in {"lookup", "create", "insert", "send"} =>
       Retriable(topic[hand["processor"]])
  /\ \A e \in dlq : \/ e.retry = MaxAttempts
                    \/ /\ Retriable(topic[e.msg])
                       /\ e.retry = topic[e.msg].retry + 1

LEMMA DLQInvInit == Init => DLQInv
BY DEF Init, DLQInv, Proc

\* A send adds at most the entry of the message in hand.
LEMMA SendAdds ==
  ASSUME NEW p \in Proc, NEW n, SendOK(p, n) \/ SendFails(p, n)
  PROVE  \A e \in dlq' : e \in dlq \/ (e.msg = hand[p] /\ e.retry = n)
BY DEF SendOK, SendFails, Entry

LEMMA DLQInvStep == Inv /\ DLQInv /\ [Next]_vars => DLQInv'
<1> SUFFICES ASSUME Inv, DLQInv, [Next]_vars PROVE DLQInv'
  OBVIOUS
<1>0. topic' = topic
  BY NothingTakenBack DEF Grows
<1> DEFINE Retrying == pc["processor"] \in {"lookup", "create", "insert", "send"}
<1> USE DEF Inv, TypeOK, Proc, history
<1>1. CASE Consumer
  <2>1. UNCHANGED <<pc["processor"], hand["processor"]>>
    <3>1. CASE Read("consumer")
      BY <3>1 DEF Read, Fetch, Commit, CommitFails, Loop, Release
    <3>2. CASE \/ ConsumerLoop \/ ConsumerReadEnds \/ Create("consumer")
               \/ HandleCanceled \/ Send \/ Resend
      BY <3>2, ConsumerWorks DEF Moves, Release
    <3> QED BY <1>1, <3>1, <3>2 DEF Consumer
  <2>2. \A e \in dlq' : e \in dlq \/ e.retry = MaxAttempts
    <3>1. CASE Send \/ Resend
      BY <3>1, SendAdds DEF Send, Resend
    <3>2. CASE ~(Send \/ Resend)
      BY <1>1, <3>2, CreateFacts
         DEF Consumer, Read, Fetch, Commit, CommitFails, ConsumerLoop,
             ConsumerReadEnds, HandleCanceled
    <3> QED BY <3>1, <3>2
  <2> QED BY <1>0, <2>1, <2>2 DEF DLQInv, Retriable
<1>2. CASE Read("processor")
  <2>1. dlq' = dlq /\ ~Retrying'
    BY <1>2 DEF Read, Fetch, Commit, CommitFails, Loop, Release
  <2> QED BY <1>0, <2>1 DEF DLQInv, Retriable
<1>3. CASE ProcessorTick \/ ProcessorStops \/ ProcessorReadEnds
  <2>1. dlq' = dlq /\ ~Retrying'
    BY <1>3 DEF ProcessorTick, ProcessorStops, ProcessorReadEnds, Goto
  <2> QED BY <1>0, <2>1 DEF DLQInv, Retriable
<1>4. CASE Decode
  <2>1. dlq' = dlq
    BY <1>4 DEF Decode
  <2>2. Retrying' => Retriable(topic[hand["processor"]])'
    BY <1>0, <1>4 DEF Decode, Goto, Release, Retriable
  <2> QED BY <1>0, <2>1, <2>2 DEF DLQInv, Retriable
<1>5. CASE LookUp \/ Create("processor")
  <2>1. dlq' = dlq
    BY <1>5, CreateFacts DEF LookUp
  <2>2. Retrying /\ (Retrying' => hand'["processor"] = hand["processor"])
    BY <1>5, CreateFacts DEF LookUp, Goto, Release
  <2> QED BY <1>0, <2>1, <2>2 DEF DLQInv, Retriable
<1>6. CASE ProcessorSend
  <2> DEFINE m == hand["processor"]
             n == topic[m].retry + 1
  <2>1. Retriable(topic[m])
    BY <1>6 DEF ProcessorSend, DLQInv
  <2>2. \A e \in dlq' : e \in dlq \/ (e.msg = m /\ e.retry = n)
    BY <1>6, SendAdds DEF ProcessorSend
  <2>3. Retrying' => hand'["processor"] = m
    BY <1>6 DEF ProcessorSend, Loop, Release
  <2> HIDE DEF m
  <2> QED BY <1>0, <2>1, <2>2, <2>3 DEF DLQInv, Retriable, m
<1>7. CASE Cancel \/ Rebalance \/ UNCHANGED vars
  BY <1>7 DEF Cancel, Rebalance, vars, DLQInv, Retriable
<1>8. CASE Crash
  <2>1. dlq' = dlq /\ ~Retrying'
    BY <1>8 DEF Crash
  <2> QED BY <1>0, <2>1 DEF DLQInv, Retriable
<1> QED BY <1>1, <1>2, <1>3, <1>4, <1>5, <1>6, <1>7, <1>8 DEF Next, Processor

LEMMA DLQInvAlways == Spec => []DLQInv
BY InvAlways, DLQInvInit, DLQInvStep, PTL DEF Spec

\* A message without an envelope goes into the DLQ with its retries used up.
UsedUp == \A e \in dlq : topic[e.msg].kind # "envelope" => e.retry >= MaxRetryCount

\* No envelope counts further than the larger of the two limits.
RetriesBounded == \A e \in dlq : e.retry <= MaxAttempts \/ e.retry <= MaxRetryCount

\* When the processor's limit is at most the attempts of the consumer (10 against
\* 2 to 5 in the shipped configurations), nothing the consumer puts into the DLQ is
\* ever tried again, whatever fails: DLQRetriable is false by construction.
THEOREM NeverRetriedTheorem ==
  ASSUME MaxRetryCount <= MaxAttempts
  PROVE  Spec => []UsedUp
<1>1. Inv /\ DLQInv => UsedUp
  <2> SUFFICES ASSUME Inv, DLQInv, NEW e \in dlq, topic[e.msg].kind # "envelope"
               PROVE  e.retry >= MaxRetryCount
    BY DEF UsedUp
  <2>1. e.retry = MaxAttempts
    BY DEF DLQInv, Retriable
  <2> QED BY <2>1, PipelineAssumption
<1> QED BY <1>1, InvAlways, DLQInvAlways, PTL

\* The retry count of an envelope stays within the limits, although envelopes are
\* read again after restarts and rebalances and sent up to three times each.
THEOREM RetriesBoundedTheorem == Spec => []RetriesBounded
<1>1. Inv /\ DLQInv => RetriesBounded
  <2> SUFFICES ASSUME Inv, DLQInv, NEW e \in dlq
               PROVE  e.retry <= MaxAttempts \/ e.retry <= MaxRetryCount
    BY DEF RetriesBounded
  <2>1. e.msg \in Offset
    BY DEF Inv, TypeOK
  <2>2. topic[e.msg] \in Message
    BY <2>1, TopicFacts DEF Inv, TypeOK
  <2>3. topic[e.msg].retry \in Nat
    BY <2>2 DEF Message
  <2> QED BY <2>3, PipelineAssumption DEF DLQInv, Retriable
<1> QED BY <1>1, InvAlways, DLQInvAlways, PTL

-----------------------------------------------------------------------------
(* Without restarts, shutdowns, failed commits and an unreachable DLQ        *)

Kept(n) == Known(Decoded(topic[n])) \/ InDLQ(n)

\* ConsumerAccounts without its exceptions.
NoneStruck == \A n \in fetched["consumer"] \ {hand["consumer"]} : Kept(n)

CalmInv == NoneStruck /\ ~canceled /\ pc["consumer"] # "resend"

LEMMA KeptStays ==
  ASSUME Inv, Grows, NEW n \in Offset, Kept(n)
  PROVE  Kept(n)'
<1>1. CASE Known(Decoded(topic[n]))
  <2>1. Decoded(topic[n]) \in {topic[n].order, Blank}
    BY DEF Decoded
  <2>2. Decoded(topic[n]) # NoOrder /\ store'[Decoded(topic[n]).uid] # NoOrder
    BY <1>1, <2>1, KnownStays DEF Grows
  <2>3. topic' = topic
    BY DEF Grows
  <2> QED BY <2>2, <2>3 DEF Kept, Known, Decoded
<1> QED BY <1>1 DEF Kept, Grows, InDLQ

LEMMA KeptFrame ==
  ASSUME Inv, NoneStruck, Grows,
         fetched'["consumer"] \subseteq fetched["consumer"] \cup {hand'["consumer"]},
         \A m : m = hand["consumer"] => m = 0 \/ m = hand'["consumer"] \/ Kept(m)'
  PROVE  NoneStruck'
<1>1. ASSUME NEW n \in fetched'["consumer"] \ {hand'["consumer"]}
      PROVE  Kept(n)'
  <2>1. n \in fetched["consumer"] /\ n # 0 /\ n \in Offset
    BY <1>1, TopicFacts DEF Inv, TypeOK, Proc, Offset
  <2>2. CASE n # hand["consumer"]
    BY <2>1, <2>2, KeptStays DEF NoneStruck
  <2> QED BY <1>1, <2>1, <2>2
<1> QED BY <1>1 DEF NoneStruck

LEMMA CalmStep ==
  ASSUME Hazards \subseteq {"db", "rebalance"}, Inv, CalmInv, [Next]_vars
  PROVE  CalmInv'
<1>0. Grows
  BY NothingTakenBack
<1>1. ~MayFail("dlq") /\ ~MayFail("commit")
  BY DEF MayFail, CalmInv
<1> USE DEF Inv, TypeOK, Proc, CalmInv, history
<1>2. CASE Fetch("consumer")
  <2>1. hand["consumer"] = 0
    BY <1>2 DEF Fetch, HandInv, Idle
  <2>2. fetched'["consumer"] = fetched["consumer"] \cup {hand'["consumer"]}
    BY <1>2 DEF Fetch
  <2>3. ~canceled' /\ pc'["consumer"] # "resend"
    BY <1>2 DEF Fetch
  <2> QED BY <1>0, <2>1, <2>2, <2>3, KeptFrame
<1>3. CASE Commit("consumer") \/ ConsumerLoop \/ ConsumerReadEnds
  <2>1. /\ UNCHANGED <<fetched, hand, canceled>>
        /\ pc'["consumer"] # "resend"
    BY <1>3 DEF Commit, ConsumerLoop, ConsumerReadEnds, Loop, Goto
  <2> QED BY <1>0, <2>1, KeptFrame
<1>4. CASE Create("consumer")
  <2>1. \A m : m = hand["consumer"] => m = hand'["consumer"] \/ Kept(m)'
    <3> SUFFICES ASSUME NEW m, m = hand["consumer"], m # hand'["consumer"]
                 PROVE  Kept(m)'
      OBVIOUS
    <3>1. Wanted("consumer") # NoOrder /\ store'[Wanted("consumer").uid] # NoOrder
      BY <1>4, CreateFacts
    <3>2. topic' = topic /\ Wanted("consumer") = Decoded(topic[m])
      BY <1>0 DEF Grows, Wanted
    <3> QED BY <3>1, <3>2 DEF Kept, Known, Decoded
  <2>2. UNCHANGED <<fetched, canceled>> /\ pc'["consumer"] # "resend"
    BY <1>4, CreateFacts DEF Release
  <2> QED BY <1>0, <2>1, <2>2, KeptFrame
<1>5. CASE Send
  <2>1. SendOK("consumer", MaxAttempts) /\ Release("consumer")
    BY <1>1, <1>5 DEF Send, SendFails
  <2>2. \A m : m = hand["consumer"] => Kept(m)'
    BY <2>1, SentIsThere DEF Kept
  <2>3. UNCHANGED <<fetched, canceled>> /\ pc'["consumer"] # "resend"
    BY <1>5, <2>1 DEF Send, Release
  <2> QED BY <1>0, <2>2, <2>3, KeptFrame
<1>6. CASE CommitFails("consumer") \/ HandleCanceled \/ Resend \/ Crash \/ Cancel
  BY <1>1, <1>6 DEF CommitFails, HandleCanceled, Resend, Crash, Cancel
<1>7. CASE Processor
  <2>1. /\ UNCHANGED <<fetched["consumer"], hand["consumer"], canceled>>
        /\ pc'["consumer"] = pc["consumer"]
    <3>1. CASE Read("processor")
      BY <3>1 DEF Read, Fetch, Commit, CommitFails, Loop, Release
    <3>2. CASE ProcessorTick \/ ProcessorStops \/ ProcessorReadEnds \/ Decode \/ LookUp
      BY <3>2 DEF ProcessorTick, ProcessorStops, ProcessorReadEnds, Decode, LookUp,
                  Goto, Release
    <3>3. CASE Create("processor") \/ ProcessorSend
      BY <3>3, CreateFacts DEF ProcessorSend, Loop, Release
    <3> QED BY <1>7, <3>1, <3>2, <3>3 DEF Processor
  <2> QED BY <1>0, <2>1, KeptFrame
<1>8. CASE Rebalance \/ UNCHANGED vars
  <2>1. UNCHANGED <<fetched, hand, pc, canceled>>
    BY <1>8 DEF Rebalance, vars
  <2> QED BY <1>0, <2>1, KeptFrame
<1> QED BY <1>2, <1>3, <1>4, <1>5, <1>6, <1>7, <1>8 DEF Next, Consumer, Read

\* Every message the consumer has laid down: its own order is stored, or it is in
\* the DLQ.
NothingLost ==
  \A n \in fetched["consumer"] \ {hand["consumer"]} :
    IsStored(Decoded(topic[n])) \/ InDLQ(n)

\* As long as only the database fails and the group rebalances, and no two orders
\* of the topic share a uid, every order the consumer lays down is itself stored or
\* its message is in the DLQ, without exception: retries that run out, a lost
\* COMMIT answer before the duplicate check of the next attempt, a commit overtaken
\* by the processor's and messages read twice lose nothing.
THEOREM NothingLostTheorem ==
  ASSUME Hazards \subseteq {"db", "rebalance"}, OneOrderPerUid
  PROVE  Spec => []NothingLost
<1>1. Init => CalmInv
  BY DEF Init, CalmInv, NoneStruck, Proc
<1>2. Inv /\ CalmInv /\ [Next]_vars => CalmInv'
  BY CalmStep
<1>3. Inv /\ StoreInv /\ CalmInv => NothingLost
  <2> SUFFICES ASSUME Inv, StoreInv, CalmInv PROVE NothingLost
    OBVIOUS
  <2>1. fetched["consumer"] \subseteq Offset
    BY DEF Inv, TypeOK, Proc
  <2>2. \A n \in Offset :
          Known(Decoded(topic[n])) => IsStored(Decoded(topic[n]))
    BY KnownIsStored
  <2> QED BY <2>1, <2>2 DEF CalmInv, NoneStruck, Kept, NothingLost
<1> QED BY <1>1, <1>2, <1>3, InvAlways, StoreInvAlways, PTL DEF Spec
=============================================================================
