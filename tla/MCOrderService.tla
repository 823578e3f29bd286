--------------------------- MODULE MCOrderService ---------------------------
(* Small instances of OrderService for TLC.                                 *)
EXTENDS OrderAPI, TLC

CONSTANTS u1, u2, noUid, a, b

MkOrder(u, k, r, del, pay, n) ==
  [uid |-> u, track |-> k, txn |-> k, req |-> r, delivery |-> del,
   payment |-> pay, items |-> n]

\* Two orders that can live side by side, and one that collides with either:
\* it has the uid of the second and, as both leave request_id out, the zero
\* request id of the first.
MixedOrders == {MkOrder(u1, a, a, TRUE, TRUE, 2), MkOrder(u2, b, b, TRUE, TRUE, 1),
                MkOrder(u2, b, a, TRUE, TRUE, 1)}

\* Two submissions for one uid that differ; one of another uid, which waits for
\* the payment of the first; one that validateOrder refuses.
RivalOrders == {MkOrder(u1, a, a, TRUE, TRUE, 1), MkOrder(u1, b, b, TRUE, TRUE, 2),
                MkOrder(u2, b, a, TRUE, TRUE, 1), MkOrder(u1, b, b, TRUE, TRUE, 0)}

OneOrder == {MkOrder(u1, a, a, TRUE, TRUE, 2)}

Callers == Permutations(Caller)

Serialization == PgError("40001")
TxFaults == {Serialization}
ContextFaults == {Sentinel("deadline"), Sentinel("canceled")}
NoFaults == {}
CrashOnly == {"crash"}
CutOnly == {"cut"}
Calm == {}
=============================================================================
