------------------------------ MODULE TxErrors ------------------------------
(* Errors as the service sees them, and the code that classifies them.  A   *)
(* Go error chain is abstracted to what errors.As and errors.Is can find in *)
(* it: the package of the PgError type it holds, that PgError's SQLSTATE,   *)
(* and one sentinel.                                                        *)

\* go.mod requires both packages; the driver (pgx v5) builds errors of its own
\* pgconn, the repositories and the transaction manager look for the other.
DriverPkg   == "github.com/jackc/pgx/v5/pgconn"
ExpectedPkg == "github.com/jackc/pgconn"

\* deadlock, serialization failure and the connection exceptions
RetryableCodes == {"40P01", "40001", "08000", "08003", "08006", "08001",
                   "08004", "08007", "08P01"}

\* SQLSTATEs the code tells apart (unique and foreign key violation), and one
\* for all the others.
Codes  == RetryableCodes \cup {"none", "23505", "23503", "other"}
Causes == {"none", "deadline", "canceled", "txclosed", "txtimeout", "conflict",
           "invalid"}
Error  == [pkg : {"none", DriverPkg, ExpectedPkg}, code : Codes, is : Causes]

NoErr       == [pkg |-> "none", code |-> "none", is |-> "none"]
PgError(c)  == [pkg |-> DriverPkg, code |-> c, is |-> "none"]
Sentinel(s) == [pkg |-> "none", code |-> "none", is |-> s]

\* A transient failure reported by PostgreSQL, whatever the code makes of it.
Transient(e) == e.pkg = DriverPkg /\ e.code \in RetryableCodes

\* var pgErr *pgconn.PgError; errors.As(err, &pgErr)
AsPgError(e) == e.pkg = ExpectedPkg

\* Mutant: every error of the server is taken for a unique violation.
RepoErrorAny(e) == IF e.pkg = DriverPkg THEN Sentinel("conflict") ELSE e

\* The repositories' Create methods.
RepoError(e) ==
  IF AsPgError(e) /\ e.code = "23505" THEN Sentinel("conflict") ELSE e

\* transaction.HandleError; the branches that only reword the message and keep
\* the chain (%w) fall under OTHER.
HandleError(e) ==
  CASE e.is = "deadline"                   -> Sentinel("txtimeout")
    [] e.is = "canceled"                   -> e
    [] AsPgError(e) /\ e.code = "23505"    -> Sentinel("conflict")
    [] AsPgError(e) /\ e.code = "23503"    -> Sentinel("invalid")
    [] OTHER                               -> e

\* What an error of a statement inside the transaction becomes: the repository
\* wraps it, createOrderWithTransaction's closure handles it, and
\* ExecuteInTransaction handles it again.
StatementError(e) == HandleError(HandleError(RepoError(e)))

\* isRetryableError; with one sentinel in the chain, its explicit "false" for
\* deadline and cancellation is the negation of the second disjunct.
IsRetryable(e) ==
  \/ AsPgError(e) /\ e.code \in RetryableCodes
  \/ e.is = "txclosed"
=============================================================================
