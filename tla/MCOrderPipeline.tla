-------------------------- MODULE MCOrderPipeline --------------------------
(* Small instances of OrderPipeline for TLC.                                *)
EXTENDS OrderPipeline

CONSTANTS u1, u2, a, b

MkOrder(u, k, n) == [uid |-> u, track |-> k, txn |-> k, req |-> k,
                     delivery |-> TRUE, payment |-> TRUE, items |-> n]

\* An order; another; a different one under the uid of the first; one under that uid
\* which validation refuses; what decodes from JSON without an order's fields.
First    == MkOrder(u1, a, 1)
Second   == MkOrder(u2, b, 1)
Rival    == MkOrder(u1, b, 1)
Invalid  == MkOrder(u1, b, 0)
NoFields == [MkOrder(NilUid, NilUid, 0) EXCEPT !.delivery = FALSE, !.payment = FALSE]

SomeOrders == {First, Second, Rival, Invalid, NoFields}

Raw(o)         == [kind |-> "order",    order |-> o,       retry |-> 0]
Envelope(o, n) == [kind |-> "envelope", order |-> o,       retry |-> n]
Garbage        == [kind |-> "garbage",  order |-> NoOrder, retry |-> 0]

\* Two orders under one uid, one raw and one in an envelope, so that either may be
\* the first; and each way in which a single message can fail to be an order.
ShortTopics == {<<Raw(First), Envelope(Rival, 0)>>,
                <<Raw(Invalid)>>, <<Garbage>>, <<Envelope(First, 1)>>,
                <<Envelope(NoFields, 0)>>, <<Envelope(NoOrder, 0)>>}

OneTopic == {<<Raw(First)>>}
TwoOrders == {<<Raw(First), Raw(Second)>>}

AnyFault == {"db", "dlq", "commit", "crash", "cancel", "rebalance"}
DbOnly   == {"db"}
ShutdownOnly == {"cancel"}
NoFault  == {}
=============================================================================
