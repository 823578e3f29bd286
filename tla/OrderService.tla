---------------------------- MODULE OrderService ----------------------------
(* internal/service/service.go over the repositories, the transaction       *)
(* manager and PostgreSQL.  Callers (the Kafka consumer, the DLQ processor,  *)
(* HTTP handlers) run CreateOrder and GetOrder concurrently; Main runs       *)
(* RestoreCache before any of them, and again after every restart.  One     *)
(* step is one call that leaves the process (a statement, a commit) or one  *)
(* access to the cache.                                                     *)
EXTENDS Orders, TxErrors, FiniteSets

CONSTANTS Caller,       \* goroutines that call the service
          Main,         \* the goroutine of main, which restores the cache
          FaultErrors,  \* the errors a database call may fail with
          Hazards       \* further faults that may happen: "cut", "crash"

MaxAttempts == 3        \* _defaultMaxAttempts
Proc == Caller \cup {Main}

ASSUME ServiceAssumption ==
  /\ Main \notin Caller
  /\ Hazards \subseteq {"cut", "crash"}
  /\ FaultErrors \subseteq Error
  /\ \A e \in FaultErrors :
       /\ e.pkg # ExpectedPkg   \* nothing builds the other PgError
       /\ e.is # "txclosed"     \* the tx is never used after its end

VARIABLES db,       \* committed rows: [Table -> [Uid -> Order \cup {NoOrder}]]
          wrote,    \* tables the caller's open transaction has inserted into
          pc,       \* where each goroutine is
          uid,      \* the order_uid it works on
          arg,      \* the order a CreateOrder call was given
          attempt,  \* withRetry's attempt, from 1; 0 before
          view,     \* the order fetchOrderFromDB is assembling
          left,     \* the component reads still running under the errgroup
          broken,   \* whether one of them has failed
          cache,    \* uid -> cached *entity.Order, Miss when absent
          todo,     \* uids RestoreCache has yet to fetch
          reply,    \* what the caller's last call returned
          known,    \* history: uid was stored when the call was made
          acked     \* history: uids whose creation was ever acknowledged

fetchVars == <<view, left, broken>>
callVars  == <<uid, arg, known>>
vars == <<db, wrote, pc, callVars, attempt, fetchVars, cache, todo, reply, acked>>

Miss    == Bare(NoOrder)
Part    == Table \ {"orders"}
Serving == pc[Main] = "off"
SomeUid == CHOOSE u \in Uid : TRUE   \* before a goroutine's first call

Reply == [kind : {"none", "ack", "order", "notfound", "error"}, view : View,
          err : Error]

NoReply   == [kind |-> "none",     view |-> Miss, err |-> NoErr]
Ack(v)    == [kind |-> "ack",      view |-> v,    err |-> NoErr]
Served(v) == [kind |-> "order",    view |-> v,    err |-> NoErr]
NotFound  == [kind |-> "notfound", view |-> Miss, err |-> NoErr]
Failed(e) == [kind |-> "error",    view |-> Miss, err |-> e]

\* Mutants: the closure returns before createItems; the transaction is never
\* committed.
AfterNoItems  == [orders |-> "delivery", delivery |-> "payment",
                  payment |-> "commit", items |-> "commit"]
AfterNoCommit == [orders |-> "delivery", delivery |-> "payment",
                  payment |-> "items", items |-> "created"]

\* The statement after each insert of createOrderWithTransaction's closure.
After == [orders |-> "delivery", delivery |-> "payment", payment |-> "items",
          items |-> "commit"]

Init ==
  /\ db = [t \in Table |-> [u \in Uid |-> NoOrder]]
  /\ wrote = [c \in Caller |-> {}]
  /\ pc = [p \in Proc |-> IF p = Main THEN "list" ELSE "idle"]
  /\ uid = [p \in Proc |-> SomeUid]
  /\ arg = [c \in Caller |-> NoOrder]
  /\ attempt = [c \in Caller |-> 0]
  /\ view = [p \in Proc |-> Miss]
  /\ left = [p \in Proc |-> {}]
  /\ broken = [p \in Proc |-> FALSE]
  /\ cache = [u \in Uid |-> Miss]
  /\ todo = {}
  /\ reply = [c \in Caller |-> NoReply]
  /\ known = [c \in Caller |-> FALSE]
  /\ acked = {}

\* A call returns r to its caller; RestoreCache goes on to its next uid.
Return(p, r) ==
  IF p = Main
  THEN pc' = [pc EXCEPT ![p] = "next"] /\ UNCHANGED <<reply, acked>>
  ELSE /\ pc' = [pc EXCEPT ![p] = "idle"]
       /\ reply' = [reply EXCEPT ![p] = r]
       /\ acked' = IF r.kind = "ack" THEN acked \cup {uid[p]} ELSE acked

Goto(p, l) == pc' = [pc EXCEPT ![p] = l] /\ UNCHANGED <<reply, acked>>

-----------------------------------------------------------------------------
(* CreateOrder                                                              *)

Call(c, u, l, o) ==
  /\ Serving /\ pc[c] = "idle"
  /\ pc' = [pc EXCEPT ![c] = l]
  /\ uid' = [uid EXCEPT ![c] = u]
  /\ arg' = [arg EXCEPT ![c] = o]
  /\ known' = [known EXCEPT ![c] = db["orders"][u] # NoOrder]
  /\ attempt' = [attempt EXCEPT ![c] = 0]
  /\ reply' = [reply EXCEPT ![c] = NoReply]
  /\ UNCHANGED <<db, wrote, fetchVars, cache, todo, acked>>

CreateOrder(c, o) == Call(c, o.uid, "duplicate", o)

\* Mutant: the order is stored without validateOrder.
CheckDuplicateOnly(c) ==
  LET found == db["orders"][uid[c]] IN
  /\ pc[c] = "duplicate"
  /\ IF found # NoOrder
     THEN Return(c, Ack(Bare(found))) /\ UNCHANGED attempt
     ELSE Goto(c, "wait") /\ attempt' = [attempt EXCEPT ![c] = 1]
  /\ UNCHANGED <<db, wrote, callVars, fetchVars, cache, todo>>

\* GetByOrderUID for the duplicate check, then validateOrder.  A duplicate is
\* acknowledged with the row as it was scanned.
CheckDuplicate(c) ==
  LET found == db["orders"][uid[c]] IN
  /\ pc[c] = "duplicate"
  /\ IF found # NoOrder
     THEN Return(c, Ack(Bare(found))) /\ UNCHANGED attempt
     ELSE IF ~ValidOrder(arg[c])
     THEN Return(c, Failed(Sentinel("invalid"))) /\ UNCHANGED attempt
     ELSE Goto(c, "wait") /\ attempt' = [attempt EXCEPT ![c] = 1]
  /\ UNCHANGED <<db, wrote, callVars, fetchVars, cache, todo>>

\* withRetry sleeps before every attempt, the first one included; then BEGIN.
Begin(c) ==
  /\ pc[c] = "wait"
  /\ Goto(c, "orders")
  /\ UNCHANGED <<db, wrote, callVars, attempt, fetchVars, cache, todo>>

\* The context ends during the sleep: withRetry returns without an attempt.
WaitCanceled(c) ==
  /\ pc[c] = "wait"
  /\ \E e \in FaultErrors :
       e.is \in {"canceled", "deadline"} /\ Return(c, Failed(e))
  /\ UNCHANGED <<db, wrote, callVars, attempt, fetchVars, cache, todo>>

\* Mutants: retrying without a limit; retrying without counting.
AttemptFailsForever(c, e) ==
  /\ wrote' = [wrote EXCEPT ![c] = {}]
  /\ Goto(c, "wait") /\ attempt' = [attempt EXCEPT ![c] = @ + 1]
  /\ UNCHANGED <<db, callVars, fetchVars, cache, todo>>

AttemptFailsUncounted(c, e) ==
  /\ wrote' = [wrote EXCEPT ![c] = {}]
  /\ Goto(c, "wait")
  /\ UNCHANGED <<db, callVars, attempt, fetchVars, cache, todo>>

\* Mutant: the transaction is left open.
AttemptFailsLocked(c, e) ==
  /\ IF IsRetryable(e) /\ attempt[c] < MaxAttempts
     THEN Goto(c, "wait") /\ attempt' = [attempt EXCEPT ![c] = @ + 1]
     ELSE Return(c, Failed(e)) /\ UNCHANGED attempt
  /\ UNCHANGED <<db, wrote, callVars, fetchVars, cache, todo>>

\* One attempt fails with e: rollback, then withRetry decides.
AttemptFails(c, e) ==
  /\ wrote' = [wrote EXCEPT ![c] = {}]
  /\ IF IsRetryable(e) /\ attempt[c] < MaxAttempts
     THEN Goto(c, "wait") /\ attempt' = [attempt EXCEPT ![c] = @ + 1]
     ELSE Return(c, Failed(e)) /\ UNCHANGED attempt
  /\ UNCHANGED <<db, callVars, fetchVars, cache, todo>>

\* PostgreSQL makes an insert wait while another open transaction has inserted
\* the same unique key, and refuses it when a committed row has it.
Blocked(c, t) ==
  \E d \in Caller \ {c} :
    t \in wrote[d] /\ UniqueKeys(arg[d], t) \cap UniqueKeys(arg[c], t) # {}

\* Mutants: only the primary key is declared; the insert is an upsert.
ConflictsByUid(o, t) == db[t][o.uid] # NoOrder
ConflictsNever(o, t) == FALSE

Conflicts(o, t) ==
  \E u \in Uid :
    db[t][u] # NoOrder /\ UniqueKeys(db[t][u], t) \cap UniqueKeys(o, t) # {}

Insert(c) ==
  LET t == pc[c] IN
  /\ t \in Table
  /\ ~Blocked(c, t)
  /\ IF Conflicts(arg[c], t)
     THEN AttemptFails(c, StatementError(PgError("23505")))
     ELSE /\ wrote' = [wrote EXCEPT ![c] = @ \cup {t}]
          /\ Goto(c, After[t])
          /\ UNCHANGED <<db, callVars, attempt, fetchVars, cache, todo>>

\* COMMIT is executed by the server; the caller has yet to hear of it.
Commit(c) ==
  /\ pc[c] = "commit"
  /\ db' = [t \in Table |-> IF t \in wrote[c]
                            THEN [db[t] EXCEPT ![uid[c]] = arg[c]] ELSE db[t]]
  /\ wrote' = [wrote EXCEPT ![c] = {}]
  /\ Goto(c, "created")
  /\ UNCHANGED <<callVars, attempt, fetchVars, cache, todo>>

\* cache.Put(createdOrder): the row INSERT ... RETURNING yielded, without the
\* components, overwrites whatever is cached.
PutCreated(c) ==
  /\ pc[c] = "created"
  /\ cache' = [cache EXCEPT ![uid[c]] = Bare(arg[c])]
  /\ Return(c, Ack(Bare(arg[c])))
  /\ UNCHANGED <<db, wrote, callVars, attempt, fetchVars, todo>>

\* Mutant: the error of COMMIT is not looked at.
CreateFailsUnseen(c) ==
  \E e \in FaultErrors :
    \/ /\ pc[c] = "commit"
       /\ Goto(c, "created") /\ wrote' = [wrote EXCEPT ![c] = {}]
       /\ UNCHANGED <<db, callVars, attempt, fetchVars, cache, todo>>
    \/ pc[c] \in Table /\ AttemptFails(c, StatementError(e))

\* A call on the database fails: the duplicate check, BEGIN, an insert (also
\* one that waits for a lock), COMMIT before it took effect, COMMIT after it.
CreateFails(c) ==
  \E e \in FaultErrors :
    \/ /\ pc[c] = "duplicate"
       /\ Return(c, Failed(e))
       /\ UNCHANGED <<db, wrote, callVars, attempt, fetchVars, cache, todo>>
    \/ pc[c] \in {"wait", "commit", "created"} /\ AttemptFails(c, e)
    \/ pc[c] \in Table /\ AttemptFails(c, StatementError(e))

-----------------------------------------------------------------------------
(* GetOrder, and fetchOrderFromDB which RestoreCache shares                 *)

GetOrder(c, u) == Call(c, u, "lookup", NoOrder)

Lookup(c) ==
  /\ pc[c] = "lookup"
  /\ IF Complete(cache[uid[c]]) THEN Return(c, Served(cache[uid[c]]))
                                ELSE Goto(c, "row")
  /\ UNCHANGED <<db, wrote, callVars, attempt, fetchVars, cache, todo>>

ReadRow(p) ==
  LET row == db["orders"][uid[p]] IN
  /\ pc[p] = "row"
  /\ IF row = NoOrder
     THEN Return(p, NotFound) /\ UNCHANGED fetchVars
     ELSE /\ Goto(p, "parts")
          /\ view' = [view EXCEPT ![p] = Bare(row)]
          /\ left' = [left EXCEPT ![p] = Part]
          /\ broken' = [broken EXCEPT ![p] = FALSE]
  /\ UNCHANGED <<db, wrote, callVars, attempt, cache, todo>>

ReadRowFails(p) ==
  /\ pc[p] = "row"
  /\ \E e \in FaultErrors : Return(p, Failed(e))
  /\ UNCHANGED <<db, wrote, callVars, attempt, fetchVars, cache, todo>>

\* Each goroutine reads one component; "no rows" leaves it nil.  A connection
\* lost while the item rows arrive ends rows.Next() early, and rows.Err() is
\* not looked at: any shorter list is returned as the whole one ("cut").
ReadPart(p, t) ==
  LET row == db[t][uid[p]]
      v   == view[p]
      Attach(w) == view' = [view EXCEPT ![p] = w]
      Arrived == IF row = NoOrder THEN {0}
                 ELSE IF "cut" \in Hazards THEN 0..row.items ELSE {row.items}
  IN
  /\ pc[p] = "parts" /\ t \in left[p]
  /\ left' = [left EXCEPT ![p] = @ \ {t}]
  /\ \/ t = "delivery" /\ Attach(AnOrder(v.row, row, v.payment, v.items))
     \/ t = "payment"  /\ Attach(AnOrder(v.row, v.delivery, row, v.items))
     \/ t = "items"    /\ \E n \in Arrived :
                            Attach(AnOrder(v.row, v.delivery, v.payment, n))
  /\ UNCHANGED <<db, wrote, pc, callVars, attempt, broken, cache, todo, reply,
                 acked>>

\* A component read fails; the others are canceled through gCtx, if they are
\* still running.
ReadPartFails(p, t) ==
  /\ pc[p] = "parts" /\ t \in left[p]
  /\ FaultErrors # {}
  /\ left' = [left EXCEPT ![p] = @ \ {t}]
  /\ broken' = [broken EXCEPT ![p] = TRUE]
  /\ UNCHANGED <<db, wrote, pc, callVars, attempt, view, cache, todo, reply,
                 acked>>

\* Mutant: the error g.Wait() returns is not looked at.
JoinUnseen(p) ==
  /\ pc[p] = "parts" /\ left[p] = {}
  /\ IF ~Complete(view[p])
     THEN Return(p, NotFound) /\ UNCHANGED cache
     ELSE /\ cache' = [cache EXCEPT ![uid[p]] = view[p]]
          /\ Return(p, Served(view[p]))
  /\ view' = [view EXCEPT ![p] = Miss]
  /\ broken' = [broken EXCEPT ![p] = FALSE]
  /\ UNCHANGED <<db, wrote, callVars, attempt, left, todo>>

\* g.Wait() returns: an error, "not found" for an incomplete order, or the
\* order, which is cached and returned.
Join(p) ==
  /\ pc[p] = "parts" /\ left[p] = {}
  /\ IF broken[p]
     THEN (\E e \in FaultErrors : Return(p, Failed(e))) /\ UNCHANGED cache
     ELSE IF ~Complete(view[p])
     THEN Return(p, NotFound) /\ UNCHANGED cache
     ELSE /\ cache' = [cache EXCEPT ![uid[p]] = view[p]]
          /\ Return(p, Served(view[p]))
  /\ view' = [view EXCEPT ![p] = Miss]      \* the locals of the call end
  /\ broken' = [broken EXCEPT ![p] = FALSE]
  /\ UNCHANGED <<db, wrote, callVars, attempt, left, todo>>

-----------------------------------------------------------------------------
(* RestoreCache, run by Main before the transports start                    *)

ListUids ==
  /\ pc[Main] = "list"
  /\ Goto(Main, "next")
  /\ todo' = {u \in Uid : db["orders"][u] # NoOrder}
  /\ UNCHANGED <<db, wrote, callVars, attempt, fetchVars, cache>>

\* The error is logged and the service starts with an empty cache.
ListFails ==
  /\ pc[Main] = "list" /\ FaultErrors # {}
  /\ Goto(Main, "off")
  /\ UNCHANGED <<db, wrote, callVars, attempt, fetchVars, cache, todo>>

RestoreNext ==
  /\ pc[Main] = "next"
  /\ IF todo = {}
     THEN Goto(Main, "off") /\ UNCHANGED <<uid, todo>>
     ELSE /\ Goto(Main, "row")
          /\ \E u \in todo : uid' = [uid EXCEPT ![Main] = u] /\ todo' = todo \ {u}
  /\ UNCHANGED <<db, wrote, arg, known, attempt, fetchVars, cache>>

-----------------------------------------------------------------------------
(* The environment                                                          *)

\* The cache drops an entry: eviction, expiry or cleanup (see LRUCache).
Forget(u) ==
  /\ cache[u] # Miss
  /\ cache' = [cache EXCEPT ![u] = Miss]
  /\ UNCHANGED <<db, wrote, pc, callVars, attempt, fetchVars, todo, reply, acked>>

\* A new process: nothing that was in memory is left.
Fresh ==
  /\ pc' = [p \in Proc |-> IF p = Main THEN "list" ELSE "idle"]
  /\ uid' = [p \in Proc |-> SomeUid]
  /\ arg' = [c \in Caller |-> NoOrder]
  /\ attempt' = [c \in Caller |-> 0]
  /\ view' = [p \in Proc |-> Miss]
  /\ left' = [p \in Proc |-> {}]
  /\ broken' = [p \in Proc |-> FALSE]
  /\ cache' = [u \in Uid |-> Miss]
  /\ todo' = {}
  /\ reply' = [c \in Caller |-> NoReply]
  /\ known' = [c \in Caller |-> FALSE]

\* The process dies and starts again; the server rolls open transactions back.
Crash ==
  /\ "crash" \in Hazards
  /\ Fresh
  /\ wrote' = [c \in Caller |-> {}]
  /\ UNCHANGED <<db, acked>>

Create(c) == \/ CheckDuplicate(c) \/ Begin(c) \/ Insert(c) \/ Commit(c)
             \/ PutCreated(c)
Fetch(p)  == ReadRow(p) \/ (\E t \in Part : ReadPart(p, t)) \/ Join(p)
Restore   == ListUids \/ RestoreNext
Fault(c)  == WaitCanceled(c) \/ CreateFails(c)
FetchFault(p) == ReadRowFails(p) \/ \E t \in Part : ReadPartFails(p, t)

Next ==
  \/ \E c \in Caller : \/ \E o \in Order : CreateOrder(c, o)
                       \/ \E u \in Uid : GetOrder(c, u)
                       \/ Create(c) \/ Lookup(c) \/ Fault(c)
  \/ \E p \in Proc : Fetch(p) \/ FetchFault(p)
  \/ Restore \/ ListFails
  \/ \E u \in Uid : Forget(u)
  \/ Crash

\* A goroutine that can run does run, and a database call that can be answered
\* is answered.  An insert that waits for a lock is enabled and disabled as
\* others come and go; PostgreSQL queues the waiters, hence SF.
Fairness ==
  /\ \A c \in Caller : WF_vars(Create(c) \/ Lookup(c)) /\ SF_vars(Insert(c))
  /\ \A p \in Proc : WF_vars(Fetch(p))
  /\ WF_vars(Restore)

Spec     == Init /\ [][Next]_vars
FairSpec == Spec /\ Fairness

-----------------------------------------------------------------------------
(* Properties                                                               *)

Labels == {"idle", "duplicate", "wait", "commit", "created", "lookup",
           "row", "parts", "list", "next", "off"} \cup Table

TypeOK ==
  /\ db \in [Table -> [Uid -> Order \cup {NoOrder}]]
  /\ wrote \in [Caller -> SUBSET Table]
  /\ pc \in [Proc -> Labels]
  /\ uid \in [Proc -> Uid]
  /\ arg \in [Caller -> Order \cup {NoOrder}]
  /\ attempt \in [Caller -> 0..MaxAttempts]
  /\ view \in [Proc -> View]
  /\ left \in [Proc -> SUBSET Part]
  /\ broken \in [Proc -> BOOLEAN]
  /\ cache \in [Uid -> View]
  /\ todo \in SUBSET Uid
  /\ known \in [Caller -> BOOLEAN]
  /\ acked \in SUBSET Uid
  /\ reply \in [Caller -> Reply]

\* An order is in all four tables or in none, with the same content: no reader
\* and no crash ever meets part of a CreateOrder (createOrderWithTransaction).
OrderAtomic == \A t \in Table, u \in Uid : db[t][u] = db["orders"][u]

\* Concurrent creations never leave two orders that share a track number, a
\* transaction or a request id, and a row lies under its own uid.
KeysUnique ==
  \A t \in Table, u, v \in Uid :
    db[t][u] # NoOrder =>
      /\ db[t][u].uid = u
      /\ ValidOrder(db[t][u])
      /\ u # v /\ db[t][v] # NoOrder =>
           UniqueKeys(db[t][u], t) \cap UniqueKeys(db[t][v], t) = {}

\* What is cached for a uid is the stored order, either as the bare row or
\* whole; never an order the database does not have, so a rolled back creation
\* leaves no trace in the cache.
CacheMirrorsDB ==
  \A u \in Uid : cache[u] # Miss =>
    /\ db["orders"][u] # NoOrder
    /\ cache[u] \in {Bare(db["orders"][u]), Whole(db["orders"][u])}

\* An acknowledged creation is in the database from then on, whatever crashes,
\* retries or concurrent creations follow.
AckedStored == \A u \in acked : db["orders"][u] # NoOrder

\* GetOrder never answers with a bare or partly read order although CreateOrder
\* caches bare ones: what it returns is all that was stored.
ServedWhole ==
  \A c \in Caller : reply[c].kind = "order" =>
    /\ db["orders"][uid[c]] # NoOrder
    /\ reply[c].view = Whole(db["orders"][uid[c]])

\* An order that was stored when GetOrder was called is never "not found".
FoundIfKnown == \A c \in Caller : reply[c].kind = "notfound" => ~known[c]

\* CreateOrder reports a conflict, as PostgreSQL's error or as the sentinel, only
\* when an order that is really stored holds one of its keys: never because of
\* a transaction that rolled back after making it wait, or of another failure.
ConflictReal ==
  \A c \in Caller : reply[c].err.code = "23505" \/ reply[c].err.is = "conflict" =>
    \E t \in Table : Conflicts(arg[c], t)

\* Inserts that wait for each other's keys never wait in a circle, nor for a
\* transaction nobody ends: a caller that holds keys can go on, because every
\* transaction claims its keys table by table in the same order.
LocksResolve ==
  LET Waits(c) == pc[c] \in Table /\ Blocked(c, pc[c]) IN
  (\E c \in Caller : Waits(c)) =>
    \E d \in Caller : /\ wrote[d] # {} /\ ~Waits(d)
                      /\ pc[d] \in Table \cup {"commit"}

\* A stored order is never changed or removed, by any step of any caller.
StoredForever ==
  [][\A u \in Uid : db["orders"][u] # NoOrder =>
       db'["orders"][u] = db["orders"][u]]_vars

\* Every call returns, although inserts wait for each other's locks.
Responds == \A c \in Caller : pc[c] # "idle" ~> pc[c] = "idle"

\* A transient database failure (serialization, deadlock, lost connection)
\* reaches the caller only after withRetry has used all its attempts.
RetriesTransient ==
  \A c \in Caller : Transient(reply[c].err) /\ attempt[c] > 0 =>
    attempt[c] = MaxAttempts

\* The service implements what OrderStore promises.
Promise == INSTANCE OrderStore WITH
  store  <- db["orders"],
  asked  <- [c \in Caller |-> [uid |-> uid[c], there |-> known[c]]],
  answer <- [c \in Caller |->
               [kind |-> reply[c].kind,
                view |-> IF reply[c].kind = "order" THEN reply[c].view ELSE Miss]]
KeepsPromise == Promise!Spec
=============================================================================
