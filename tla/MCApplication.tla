--------------------------- MODULE MCApplication ---------------------------
(* A small instance of Application for TLC.                                 *)
EXTENDS Application

\* What the shipped configuration can meet; the manager, the cache and the
\* dead letter queue fail only for options config.go refuses.
AnyFailure == {"load", "settings", "database", "reader", "metrics", "listen"}
NoFailure  == {}
=============================================================================
