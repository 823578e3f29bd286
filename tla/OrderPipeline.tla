--------------------------- MODULE OrderPipeline ---------------------------
(* How order messages leave Kafka: the consumer (order_consumer.go), the DLQ *)
(* processor (dlq_processor.go), the retry loop and the DLQ writer (dlq.go), *)
(* around the order service, which is here what OrderStore promises.  The    *)
(* two goroutines share one reader of the orders topic (app.go).             *)
EXTENDS Orders, Sequences, FiniteSets

CONSTANTS Blank,          \* JSON that decodes to an order without any field
          Topics,         \* the possible contents of the orders topic
          MaxAttempts,    \* dlq.MaxAttempts
          MaxRetryCount,  \* cfg.DLQ.MaxRetryCount
          Hazards         \* what may fail: "db", "dlq", "commit", "crash",
                          \* "cancel", "rebalance"

Proc == {"consumer", "processor"}
Sends == 3              \* tries of the processor to write to the DLQ

\* An order, bytes that are not JSON (NoOrder), or an envelope as dlq.Send writes
\* it: around an order, around such bytes, or around another envelope (Blank).
Message ==
       [kind : {"order"},    order : Order,             retry : {0}]
  \cup [kind : {"garbage"},  order : {NoOrder},         retry : {0}]
  \cup [kind : {"envelope"}, order : Order \cup {NoOrder}, retry : Nat]

ASSUME PipelineAssumption ==
  /\ Blank \in Order /\ Blank.uid = NilUid
  /\ Topics \subseteq Seq(Message)
  /\ MaxAttempts \in Nat \ {0}
  /\ MaxRetryCount \in Nat \ {0}
  /\ Hazards \subseteq {"db", "dlq", "commit", "crash", "cancel", "rebalance"}

VARIABLES topic,      \* the messages of the orders topic
          pos,        \* the reader's position: the next message it fetches
          committed,  \* the consumer group's offset, where a restart resumes
          canceled,   \* the application context is canceled
          pc,         \* where each goroutine is
          hand,       \* the message it works on, 0 for none
          attempt,    \* its loop counter
          store,      \* the database: [Uid -> Order \cup {NoOrder}]
          dlq,        \* what the DLQ topic holds, duplicates folded
          fetched,    \* history: messages each goroutine has fetched
          struck,     \* history: messages in hand at a crash, at a shutdown, at
                      \* a failed commit, or when each write to the DLQ failed
          unsent,     \* history: the message whose first write to the DLQ by
                      \* the consumer has failed, 0 for none
          again       \* history: messages in hand when a rebalance took the
                      \* reader back before them, dropped once nobody holds them

history == <<fetched, struck, unsent, again>>
vars == <<topic, pos, committed, canceled, pc, hand, attempt, store, dlq, history>>

Offset == 1..Len(topic)

Init ==
  /\ topic \in Topics
  /\ pos = 1 /\ committed = 1
  /\ canceled = FALSE
  /\ pc = [p \in Proc |-> "loop"]
  /\ hand = [p \in Proc |-> 0]
  /\ attempt = [p \in Proc |-> 0]
  /\ store = [u \in Uid |-> NoOrder]
  /\ dlq = {}
  /\ fetched = [p \in Proc |-> {}]
  /\ struck = {}
  /\ unsent = 0
  /\ again = {}

MayFail(h) == h \in Hazards \/ canceled

Goto(p, l) == pc' = [pc EXCEPT ![p] = l] /\ UNCHANGED <<hand, attempt>>

\* The loop goes round (or is entered) with its counter at n.
Loop(p, l, n) == /\ pc' = [pc EXCEPT ![p] = l]
                 /\ attempt' = [attempt EXCEPT ![p] = n]
                 /\ UNCHANGED hand

Release(p) == /\ pc' = [pc EXCEPT ![p] = "loop"]
              /\ hand' = [hand EXCEPT ![p] = 0]
              /\ attempt' = [attempt EXCEPT ![p] = 0]

InHand == {hand[p] : p \in Proc} \ {0}

-----------------------------------------------------------------------------
(* ReadMessage: fetch from the reader both share, then commit the offset     *)

\* Mutant: each caller reads the message without advancing the reader.
FetchSame(p) ==
  /\ pc[p] = "read" /\ pos \in Offset
  /\ hand' = [hand EXCEPT ![p] = pos]
  /\ pc' = [pc EXCEPT ![p] = "commit"]
  /\ fetched' = [fetched EXCEPT ![p] = @ \cup {pos}]
  /\ UNCHANGED <<topic, pos, committed, canceled, attempt, store, dlq, struck,
                 unsent, again>>

Fetch(p) ==
  /\ pc[p] = "read" /\ pos \in Offset
  /\ pos' = pos + 1
  /\ hand' = [hand EXCEPT ![p] = pos]
  /\ pc' = [pc EXCEPT ![p] = "commit"]
  /\ fetched' = [fetched EXCEPT ![p] = @ \cup {pos}]
  /\ struck' = IF canceled THEN struck \cup {pos} ELSE struck
  /\ again' = again \cap InHand
  /\ UNCHANGED <<topic, committed, canceled, attempt, store, dlq, unsent>>

\* Mutant: the offset is committed one message too far.
CommitAhead(p) ==
  /\ pc[p] = "commit"
  /\ committed' = hand[p] + 2
  /\ Loop(p, IF p = "consumer" THEN "create" ELSE "decode", 1)
  /\ UNCHANGED <<topic, pos, canceled, store, dlq, history>>

\* The last request wins, also when it commits a lower offset.
Commit(p) ==
  /\ pc[p] = "commit"
  /\ committed' = hand[p] + 1
  /\ Loop(p, IF p = "consumer" THEN "create" ELSE "decode", 1)
  /\ UNCHANGED <<topic, pos, canceled, store, dlq, history>>

\* ReadMessage returns the error of the commit, and not the message; the broker
\* may have taken the offset all the same.
CommitFails(p) ==
  /\ pc[p] = "commit" /\ MayFail("commit")
  /\ committed' \in {committed, hand[p] + 1}
  /\ Release(p)
  /\ struck' = struck \cup {hand[p]}
  /\ UNCHANGED <<topic, pos, canceled, store, dlq, fetched, unsent, again>>

-----------------------------------------------------------------------------
(* The order service and the DLQ writer                                     *)

\* What handleMessage decodes: an envelope has none of an order's fields.
Decoded(m) == IF m.kind = "envelope" THEN Blank ELSE m.order

\* The order p hands to CreateOrder: the processor takes it out of the envelope.
Wanted(p) == LET m == topic[hand[p]] IN
             IF p = "consumer" THEN Decoded(m) ELSE m.order

\* The database has an order under the uid of o: o, or another that came first.
Known(o) == o # NoOrder /\ store[o.uid] # NoOrder

\* OrderStore seen from here: the calls and their answers are the steps below.
Service == INSTANCE OrderStore WITH
  Caller <- Proc,
  asked  <- [p \in Proc |-> [uid |-> NilUid, there |-> FALSE]],
  answer <- [p \in Proc |-> [kind |-> "none", view |-> Bare(NoOrder)]]

\* Mutants: one attempt too many; no limit.
FailedOnceMore(p) ==
  IF p = "consumer" /\ attempt[p] <= MaxAttempts
  THEN Loop(p, "create", attempt[p] + 1) ELSE Goto(p, "send")

FailedForever(p) == Goto(p, IF p = "consumer" THEN "create" ELSE "send")

\* CreateOrder has failed: the next attempt of ProcessWithRetry, if one is left,
\* or on to the DLQ.
Failed(p) ==
  IF p = "consumer" /\ attempt[p] < MaxAttempts
  THEN Loop(p, "create", attempt[p] + 1) ELSE Goto(p, "send")

\* The duplicate check of CreateOrder, before any validation, looks at the uid
\* alone: whatever order is stored under it is the answer.  Bytes that are no
\* order do not get as far.
CheckDuplicate(p) ==
  /\ pc[p] = "create"
  /\ \/ Known(Wanted(p)) /\ Release(p)
     \/ Wanted(p) # NoOrder /\ ~Known(Wanted(p)) /\ Goto(p, "insert")
     \/ (Wanted(p) = NoOrder \/ MayFail("db")) /\ Failed(p)
  /\ UNCHANGED <<topic, pos, committed, canceled, store, dlq, history>>

\* The rest of CreateOrder: it stores the order, or fails because the order is
\* invalid, one of its keys has been taken (the uid too, since the check) or the
\* database did not answer; a COMMIT without an answer may have stored it.
Insert(p) ==
  /\ pc[p] = "insert"
  /\ \/ Service!Save(Wanted(p)) /\ Release(p)
     \/ MayFail("db") /\ Service!Save(Wanted(p)) /\ Failed(p)
     \/ /\ ~Service!Savable(Wanted(p)) \/ MayFail("db")
        /\ UNCHANGED store /\ Failed(p)
  /\ UNCHANGED <<topic, pos, committed, canceled, dlq, history>>

Entry(p, n) == [msg |-> hand[p], retry |-> n]

\* dlq.Send; WriteMessages may fail although the message is written.  The
\* processor's has what CreateOrder has left of the 2 s of handleCtx: after a
\* database that did not answer, nothing.
SendOK(p, n)    == dlq' = dlq \cup {Entry(p, n)}
SendFails(p, n) == /\ MayFail("dlq") \/ (p = "processor" /\ MayFail("db"))
                   /\ dlq' \in {dlq, dlq \cup {Entry(p, n)}}

-----------------------------------------------------------------------------
(* The consumer                                                             *)

\* The loop of run: leave when the context is canceled, else read.
ConsumerLoop ==
  /\ pc["consumer"] = "loop"
  /\ Goto("consumer", IF canceled THEN "done" ELSE "read")
  /\ UNCHANGED <<topic, pos, committed, canceled, store, dlq, history>>

\* Mutant: a read that ends with the context is tried again.
ReadAgain ==
  /\ pc["consumer"] = "read" /\ canceled
  /\ UNCHANGED vars

\* ReadMessage ends with the context, or fails: logged, and read again.
ConsumerReadEnds ==
  /\ pc["consumer"] = "read" /\ canceled
  /\ Goto("consumer", "done")
  /\ UNCHANGED <<topic, pos, committed, canceled, store, dlq, history>>

\* The context ends before an attempt: straight to processMessage's own Send.
HandleCanceled ==
  /\ pc["consumer"] = "create" /\ canceled
  /\ Goto("consumer", "resend")
  /\ UNCHANGED <<topic, pos, committed, canceled, store, dlq, history>>

\* Mutant: processMessage does not send what ProcessWithRetry could not send.
SendOnce ==
  /\ pc["consumer"] = "send"
  /\ SendOK("consumer", MaxAttempts) \/ SendFails("consumer", MaxAttempts)
  /\ Release("consumer")
  /\ UNCHANGED <<topic, pos, committed, canceled, store, history>>

\* ProcessWithRetry ends with dlq.Send.
Send ==
  /\ pc["consumer"] = "send"
  /\ \/ /\ SendOK("consumer", MaxAttempts) /\ Release("consumer")
        /\ UNCHANGED unsent
     \/ /\ SendFails("consumer", MaxAttempts) /\ Goto("consumer", "resend")
        /\ unsent' = hand["consumer"]
  /\ UNCHANGED <<topic, pos, committed, canceled, store, fetched, struck,
                 again>>

\* processMessage sends once more; after that the message is only logged.
Resend ==
  /\ pc["consumer"] = "resend"
  /\ \/ SendOK("consumer", MaxAttempts) /\ UNCHANGED struck
     \/ /\ SendFails("consumer", MaxAttempts)
        /\ struck' = struck \cup ({unsent} \ {0})
  /\ Release("consumer")
  /\ unsent' = 0
  /\ UNCHANGED <<topic, pos, committed, canceled, store, fetched, again>>

-----------------------------------------------------------------------------
(* The DLQ processor                                                        *)

\* select: the ticker fires, or the context is done.
ProcessorTick ==
  /\ pc["processor"] = "loop"
  /\ Goto("processor", "read")
  /\ UNCHANGED <<topic, pos, committed, canceled, store, dlq, history>>

ProcessorStops ==
  /\ pc["processor"] = "loop" /\ canceled
  /\ Goto("processor", "done")
  /\ UNCHANGED <<topic, pos, committed, canceled, store, dlq, history>>

\* Nothing within the 30 s of processCtx, or the context ends.
ProcessorReadEnds ==
  /\ pc["processor"] = "read"
  /\ Goto("processor", "loop")
  /\ UNCHANGED <<topic, pos, committed, canceled, store, dlq, history>>

\* What is not an envelope, has used up its retries or holds no JSON is logged
\* and dropped.
Retriable(m) ==
  m.kind = "envelope" /\ m.retry < MaxRetryCount /\ m.order # NoOrder

Decode ==
  /\ pc["processor"] = "decode"
  /\ IF Retriable(topic[hand["processor"]])
     THEN Goto("processor", "lookup") ELSE Release("processor")
  /\ UNCHANGED <<topic, pos, committed, canceled, store, dlq, history>>

\* GetOrder: an order under that uid, whichever, is skipped; any error leads to
\* CreateOrder.
LookUp ==
  /\ pc["processor"] = "lookup"
  /\ \/ Known(Wanted("processor")) /\ Release("processor")
     \/ /\ ~Known(Wanted("processor")) \/ MayFail("db")
        /\ Goto("processor", "create")
  /\ UNCHANGED <<topic, pos, committed, canceled, store, dlq, history>>

\* Mutant: a write that fails is not tried again.
ProcessorSendOnce ==
  LET n == topic[hand["processor"]].retry + 1 IN
  /\ pc["processor"] = "send"
  /\ SendOK("processor", n) \/ SendFails("processor", n)
  /\ Release("processor")
  /\ UNCHANGED <<topic, pos, committed, canceled, store, history>>

\* Three tries, then the order is only logged.
ProcessorSend ==
  LET n == topic[hand["processor"]].retry + 1
      i == attempt["processor"] IN
  /\ pc["processor"] = "send"
  /\ \/ SendOK("processor", n) /\ Release("processor") /\ UNCHANGED struck
     \/ /\ SendFails("processor", n) /\ i < Sends
        /\ Loop("processor", "send", i + 1) /\ UNCHANGED struck
     \/ /\ SendFails("processor", n) /\ i = Sends
        /\ Release("processor")
        /\ struck' = struck \cup {hand["processor"]}
  /\ UNCHANGED <<topic, pos, committed, canceled, store, fetched, unsent, again>>

-----------------------------------------------------------------------------
(* The environment                                                          *)

\* SIGTERM, or another component of the errgroup fails.
Cancel ==
  /\ "cancel" \in Hazards /\ ~canceled
  /\ canceled' = TRUE
  /\ struck' = struck \cup InHand
  /\ UNCHANGED <<topic, pos, committed, pc, hand, attempt, store, dlq, fetched,
                 unsent, again>>

\* The process dies and starts again from the committed offset.
Crash ==
  /\ "crash" \in Hazards
  /\ struck' = struck \cup InHand
  /\ pos' = committed
  /\ canceled' = FALSE
  /\ pc' = [p \in Proc |-> "loop"]
  /\ hand' = [p \in Proc |-> 0]
  /\ attempt' = [p \in Proc |-> 0]
  /\ unsent' = 0
  /\ UNCHANGED <<topic, committed, store, dlq, fetched, again>>

\* The group forms anew while the process runs: the reader starts over from the
\* committed offset, the goroutines keep what they have in hand.
Rebalance ==
  /\ "rebalance" \in Hazards
  /\ pos' = committed
  /\ again' = again \cup {n \in InHand : n >= committed}
  /\ UNCHANGED <<topic, committed, canceled, pc, hand, attempt, store, dlq,
                 fetched, struck, unsent>>

Read(p)   == Fetch(p) \/ Commit(p) \/ CommitFails(p)
Create(p) == CheckDuplicate(p) \/ Insert(p)
Consumer  == \/ Read("consumer") \/ ConsumerLoop \/ ConsumerReadEnds
             \/ Create("consumer") \/ HandleCanceled \/ Send \/ Resend
Processor == \/ Read("processor")
             \/ ProcessorTick \/ ProcessorStops \/ ProcessorReadEnds
             \/ Decode \/ LookUp \/ Create("processor") \/ ProcessorSend

Next == Consumer \/ Processor \/ Cancel \/ Crash \/ Rebalance

\* Each goroutine keeps running; the broker and the database answer, if only
\* with an error.  The processor's select does not prefer a canceled context
\* to the ticker, but takes it eventually.
Fairness == /\ WF_vars(Consumer) /\ WF_vars(Processor)
            /\ SF_vars(ProcessorStops)

Spec     == Init /\ [][Next]_vars
FairSpec == Spec /\ Fairness

-----------------------------------------------------------------------------
(* Properties                                                               *)

Labels == {"loop", "read", "commit", "create", "insert", "send", "resend",
           "decode", "lookup", "done"}

TypeOK ==
  /\ topic \in Topics
  /\ pos \in 1..(Len(topic) + 1)
  /\ committed \in 1..(Len(topic) + 1)
  /\ canceled \in BOOLEAN
  /\ pc \in [Proc -> Labels]
  /\ hand \in [Proc -> Offset \cup {0}]
  /\ attempt \in [Proc -> Nat]
  /\ attempt["consumer"] <= MaxAttempts
  /\ attempt["processor"] <= Sends
  /\ store \in [Uid -> Order \cup {NoOrder}]
  /\ dlq \subseteq [msg : Offset, retry : Nat]
  /\ fetched \in [Proc -> SUBSET Offset]
  /\ struck \subseteq Offset
  /\ unsent \in Offset \cup {0}
  /\ again \subseteq Offset

InDLQ(n) == \E e \in dlq : e.msg = n

\* A message the consumer has taken and released is in the DLQ, or the database
\* has an order under its uid, unless the process died, was shut down or could
\* not commit while it was in hand, or two writes to the DLQ failed: one failure
\* loses nothing.  The order stored may be another one that came first under the
\* uid: CreateOrder acknowledges that too, and the later one is gone.
ConsumerAccounts ==
  \A n \in fetched["consumer"] \ {hand["consumer"]} :
    Known(Decoded(topic[n])) \/ InDLQ(n) \/ n \in struck

\* The processor likewise: an envelope with retries left, once taken and
\* released, has its uid in the database or is in the DLQ again, unless the same
\* hazards struck it or three writes to the DLQ failed.
ProcessorAccounts ==
  \A n \in fetched["processor"] \ {hand["processor"]} :
    Retriable(topic[n]) =>
      Known(topic[n].order) \/ InDLQ(n) \/ n \in struck

\* The committed offset never passes a message that no goroutine has fetched,
\* although two of them commit in any order, and restarts and rebalances move the
\* reader back, also behind the offset a goroutine then commits.
NoGap == 1..(committed - 1) \subseteq UNION {fetched[p] : p \in Proc}

\* Two goroutines work on the same message only if a rebalance has taken the
\* reader back before it while one of them had it in hand: never because of the
\* reader they share, the order of their commits or a restart.
NeverShared ==
  hand["consumer"] = hand["processor"] => hand["consumer"] \in again \cup {0}

\* Once the process no longer dies and the group is stable, every message of the
\* topic is taken and released, also those read again, unless the context ends.
Drains ==
  <>[][~Crash /\ ~Rebalance]_vars =>
    <>(canceled \/ (pos = Len(topic) + 1 /\ \A p \in Proc : hand[p] = 0))

\* After the context is canceled both goroutines end, unless the process dies.
Stops == canceled ~> ~canceled \/ \A p \in Proc : pc[p] = "done"

\* An order that was read is stored or in the DLQ once it is released.
OrdersKept ==
  \A p \in Proc : \A n \in fetched[p] \ {hand[p]} :
    topic[n].kind = "order" => Known(topic[n].order) \/ InDLQ(n)

\* An order in the DLQ can be processed again: its envelope has retries left.
DLQRetriable ==
  \A e \in dlq : LET o == Decoded(topic[e.msg]) IN
    o # NoOrder /\ ValidOrder(o) => e.retry < MaxRetryCount

\* When both goroutines have ended, every order that was read is stored, in the
\* DLQ, or read again by the next process.
ShutdownKeeps ==
  (\A p \in Proc : pc[p] = "done") =>
    \A n \in fetched["consumer"] :
      topic[n].kind = "order" =>
        Known(topic[n].order) \/ InDLQ(n) \/ n >= committed
=============================================================================
