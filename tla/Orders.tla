------------------------------- MODULE Orders -------------------------------
(* The data the order service handles: orders as they are submitted, the    *)
(* unique keys the migrations put on each table, and the shapes in which an *)
(* *entity.Order travels (bare row, or row with its components).            *)
EXTENDS Naturals

CONSTANTS Order,     \* the orders that may be submitted (records, see OrderRecord)
          NoOrder,   \* "no row" / "no such value"
          NilUid     \* uuid.Nil

Uid == {o.uid : o \in Order}

\* The four tables, in the order in which the transaction writes them.
Table == {"orders", "delivery", "payment", "items"}

\* entity.Order: identity, the columns under a UNIQUE constraint, whether the
\* delivery and payment pointers are non-nil, and the number of items.
IsOrder(o) ==
  /\ o = [uid |-> o.uid, track |-> o.track, txn |-> o.txn, req |-> o.req,
          delivery |-> o.delivery, payment |-> o.payment, items |-> o.items]
  /\ o.delivery \in BOOLEAN
  /\ o.payment \in BOOLEAN
  /\ o.items \in Nat

ASSUME OrderAssumption ==
  /\ \A o \in Order : IsOrder(o)
  /\ NoOrder \notin Order
  /\ Order # {}

\* validateOrder: what CreateOrder refuses before it opens a transaction.
ValidOrder(o) == o.uid # NilUid /\ o.delivery /\ o.payment /\ o.items > 0

\* The unique keys that inserting o into table t claims.  items rows get fresh
\* uuids and claim nothing.
UniqueKeys(o, t) ==
  CASE t = "orders"   -> {<<"order_uid", o.uid>>, <<"track_number", o.track>>}
    [] t = "delivery" -> {<<"order_uid", o.uid>>}
    [] t = "payment"  -> {<<"order_uid", o.uid>>, <<"transaction", o.txn>>,
                          <<"request_id", o.req>>}
    [] OTHER          -> {}

\* An *entity.Order in memory: the row it was scanned from, the delivery and
\* payment rows attached to it (NoOrder for a nil pointer), the number of items.
View == [row : Order \cup {NoOrder}, delivery : Order \cup {NoOrder},
         payment : Order \cup {NoOrder}, items : Nat]

AnOrder(r, d, p, n) == [row |-> r, delivery |-> d, payment |-> p, items |-> n]

\* What the INSERT ... RETURNING and the SELECT on orders yield: no components.
Bare(o) == AnOrder(o, NoOrder, NoOrder, 0)

\* The order with everything that was stored for it.
Whole(o) == AnOrder(o, o, o, o.items)

\* Mutant: any cached order is good enough.
CompleteAny(v) == v.row # NoOrder

\* Delivery != nil && Payment != nil && len(Items) > 0
Complete(v) == v.delivery # NoOrder /\ v.payment # NoOrder /\ v.items > 0
=============================================================================
