------------------------------ MODULE OrderAPI ------------------------------
(* internal/transport/http/handlers.go and error_handling.go: what a client  *)
(* of GET /orders/:order_uid is told.  The handler keeps no state: a request *)
(* with a well-formed uid is a call of GetOrder whose context ends after     *)
(* 500 ms ("deadline") or with the connection ("canceled").  The others are  *)
(* answered 400 without a call.                                              *)
EXTENDS OrderService

\* Mutant: whatever GetOrder cannot find for a reason of its own is "not found".
StatusOfBlurred(r) ==
  CASE r.kind = "order"       -> 200
    [] r.err.is = "invalid"   -> 400
    [] r.err.is = "deadline"  -> 504
    [] OTHER                  -> 404

\* getOrderHandler and handleServiceError: errors.Is in this order.
StatusOf(r) ==
  CASE r.kind = "order"       -> 200
    [] r.err.is = "invalid"   -> 400
    [] r.kind = "notfound"    -> 404
    [] r.err.is = "deadline"  -> 504
    [] OTHER                  -> 500

\* The goroutine's last call was a GetOrder, and has returned.
Answered(c) == arg[c] = NoOrder /\ reply[c].kind # "none"

\* 404 is only said of an order that was not stored when the request came, not
\* of one the database failed to deliver; 200 comes with all that was stored;
\* a request whose time ran out is not blamed on anything else.
StatusHonest ==
  \A c \in Caller : Answered(c) =>
    LET status == StatusOf(reply[c]) IN
    /\ status = 404 => ~known[c]
    /\ status = 200 => reply[c].view = Whole(db["orders"][uid[c]])
    /\ reply[c].err.is = "deadline" <=> status = 504
=============================================================================
