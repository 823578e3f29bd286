------------------------- MODULE OrderServiceProofs -------------------------
(* Theorems about OrderService, for every set of orders, callers and errors. *)
EXTENDS OrderService, TLAPS

LEMMA UidFacts ==
  /\ SomeUid \in Uid
  /\ \A o \in Order : o.uid \in Uid /\ o # NoOrder
BY OrderAssumption DEF SomeUid, Uid

LEMMA ViewFacts ==
  /\ Miss \in View
  /\ \A o \in Order : Bare(o) \in View /\ Whole(o) \in View
BY OrderAssumption DEF Miss, View, Bare, Whole, AnOrder, IsOrder

LEMMA ErrorFacts ==
  /\ NoErr \in Error
  /\ \A c \in Codes : PgError(c) \in Error
  /\ \A s \in Causes : Sentinel(s) \in Error
  /\ "23505" \in Codes /\ {"conflict", "invalid", "txtimeout"} \subseteq Causes
BY DEF Error, NoErr, PgError, Sentinel, Codes, Causes

LEMMA ReplyFacts ==
  /\ NoReply \in Reply /\ NotFound \in Reply
  /\ \A v \in View : Ack(v) \in Reply /\ Served(v) \in Reply
  /\ \A e \in Error : Failed(e) \in Reply
BY ViewFacts, ErrorFacts DEF Reply, NoReply, NotFound, Ack, Served, Failed

LEMMA StatementErrorType ==
  ASSUME NEW e \in Error PROVE StatementError(e) \in Error
<1>1. \A f \in Error : HandleError(f) \in Error
  BY ErrorFacts DEF HandleError
<1>2. RepoError(e) \in Error
  BY ErrorFacts DEF RepoError
<1> QED BY <1>1, <1>2 DEF StatementError

\* Every variable keeps its type (TypeOK): in particular the attempt counter
\* never passes _defaultMaxAttempts and no goroutine reaches an unknown label.
LEMMA TypeInit == Init => TypeOK
BY UidFacts, ViewFacts, ReplyFacts, ServiceAssumption
   DEF Init, TypeOK, Labels, Table, Part, MaxAttempts, Proc

LEMMA ReturnType ==
  ASSUME TypeOK, NEW p \in Proc, NEW r \in Reply, Return(p, r)
  PROVE  /\ pc' \in [Proc -> Labels]
         /\ reply' \in [Caller -> Reply]
         /\ acked' \in SUBSET Uid
BY DEF Return, TypeOK, Labels, Proc

LEMMA GotoType ==
  ASSUME TypeOK, NEW p \in Proc, NEW l \in Labels, Goto(p, l)
  PROVE  /\ pc' \in [Proc -> Labels]
         /\ reply' \in [Caller -> Reply]
         /\ acked' \in SUBSET Uid
BY DEF Goto, TypeOK

LEMMA TypeStep == TypeOK /\ [Next]_vars => TypeOK'
<1> SUFFICES ASSUME TypeOK, [Next]_vars PROVE TypeOK'
  OBVIOUS
<1> USE ServiceAssumption, UidFacts, ViewFacts, ReplyFacts
<1> USE DEF TypeOK, fetchVars, callVars
<1>0. /\ Caller \subseteq Proc /\ Main \in Proc
      /\ {"wait", "next", "off", "row", "parts", "created", "commit"} \subseteq Labels
      /\ Table \subseteq Labels
  BY DEF Proc, Labels
<1>1. ASSUME NEW c \in Caller, NEW o \in Order, CreateOrder(c, o) PROVE TypeOK'
  BY <1>1, <1>0 DEF CreateOrder, Call, Labels, MaxAttempts
<1>2. ASSUME NEW c \in Caller, NEW u \in Uid, GetOrder(c, u) PROVE TypeOK'
  BY <1>2, <1>0 DEF GetOrder, Call, Labels, MaxAttempts
<1>3. ASSUME NEW c \in Caller, CheckDuplicate(c) PROVE TypeOK'
  <2> DEFINE found == db["orders"][uid[c]]
  <2>1. found \in Order \cup {NoOrder}
    BY <1>0 DEF Table
  <2>2. CASE found # NoOrder
    BY <1>3, <2>1, <2>2, <1>0, ReturnType DEF CheckDuplicate
  <2>3. CASE found = NoOrder /\ ~ValidOrder(arg[c])
    <3>1. Failed(Sentinel("invalid")) \in Reply
      BY ErrorFacts
    <3> QED BY <1>3, <2>3, <1>0, <3>1, ReturnType DEF CheckDuplicate
  <2>4. CASE found = NoOrder /\ ValidOrder(arg[c])
    BY <1>3, <2>4, <1>0, GotoType DEF CheckDuplicate, MaxAttempts
  <2> QED BY <2>2, <2>3, <2>4
<1>4. ASSUME NEW c \in Caller, Begin(c) PROVE TypeOK'
  BY <1>4, <1>0, GotoType DEF Begin, Table
<1>5. ASSUME NEW c \in Caller, NEW e \in Error, AttemptFails(c, e) PROVE TypeOK'
  <2>1. CASE IsRetryable(e) /\ attempt[c] < MaxAttempts
    <3>1. attempt' \in [Caller -> 0..MaxAttempts]
      BY <1>5, <2>1 DEF AttemptFails, MaxAttempts
    <3> QED BY <1>5, <2>1, <1>0, <3>1, GotoType DEF AttemptFails
  <2>2. CASE ~(IsRetryable(e) /\ attempt[c] < MaxAttempts)
    BY <1>5, <2>2, <1>0, ReturnType DEF AttemptFails
  <2> QED BY <2>1, <2>2
<1>6. ASSUME NEW c \in Caller, Insert(c) PROVE TypeOK'
  <2>1. CASE Conflicts(arg[c], pc[c])
    <3>1. StatementError(PgError("23505")) \in Error
      BY ErrorFacts, StatementErrorType
    <3>2. AttemptFails(c, StatementError(PgError("23505")))
      BY <1>6, <2>1 DEF Insert
    <3> QED BY <3>1, <3>2, <1>5
  <2>2. CASE ~Conflicts(arg[c], pc[c])
    <3>1. After[pc[c]] \in Labels
      BY <1>6 DEF Insert, After, Table, Labels
    <3> QED BY <1>6, <2>2, <1>0, <3>1, GotoType DEF Insert
  <2> QED BY <2>1, <2>2
<1>7. ASSUME NEW c \in Caller, Commit(c) PROVE TypeOK'
  <2>1. db' \in [Table -> [Uid -> Order \cup {NoOrder}]]
    BY <1>7 DEF Commit
  <2> QED BY <1>7, <2>1, <1>0, GotoType DEF Commit
<1>8. ASSUME NEW c \in Caller, PutCreated(c) PROVE TypeOK'
  <2>1. Bare(arg[c]) \in View
    BY DEF Miss
  <2> QED BY <1>8, <2>1, <1>0, ReturnType DEF PutCreated
<1>9. ASSUME NEW c \in Caller, Lookup(c) PROVE TypeOK'
  <2>1. cache[uid[c]] \in View
    BY <1>0
  <2> QED BY <1>9, <2>1, <1>0, ReturnType, GotoType DEF Lookup
<1>10. ASSUME NEW c \in Caller, Fault(c) PROVE TypeOK'
  <2>1. CASE WaitCanceled(c)
    BY <2>1, <1>0, ReturnType DEF WaitCanceled
  <2>2. CASE CreateFails(c)
    BY <2>2, <1>5, <1>0, ReturnType, StatementErrorType DEF CreateFails
  <2> QED BY <1>10, <2>1, <2>2 DEF Fault
<1>11. ASSUME NEW p \in Proc, ReadRow(p) PROVE TypeOK'
  <2> DEFINE row == db["orders"][uid[p]]
  <2>1. row \in Order \cup {NoOrder} /\ Bare(row) \in View
    BY <1>0 DEF Table, Miss
  <2>2. CASE row = NoOrder
    BY <1>11, <2>2, ReturnType DEF ReadRow
  <2>3. CASE row # NoOrder
    <3>1. /\ Goto(p, "parts")
          /\ view' = [view EXCEPT ![p] = Bare(row)]
          /\ left' = [left EXCEPT ![p] = Part]
          /\ broken' = [broken EXCEPT ![p] = FALSE]
          /\ UNCHANGED <<db, wrote, callVars, attempt, cache, todo>>
      BY <1>11, <2>3 DEF ReadRow
    <3> QED BY <3>1, <2>1, <1>0, GotoType
  <2> QED BY <2>2, <2>3
<1>12. ASSUME NEW p \in Proc, NEW t \in Part, ReadPart(p, t) PROVE TypeOK'
  <2> DEFINE row == db[t][uid[p]]
             Arrived == IF row = NoOrder THEN {0}
                        ELSE IF "cut" \in Hazards THEN 0..row.items ELSE {row.items}
  <2>1. t \in Table /\ row \in Order \cup {NoOrder}
    BY DEF Part
  <2>2. Arrived \subseteq Nat
    BY <2>1, OrderAssumption DEF IsOrder
  <2>3. view' \in [Proc -> View]
    <3>1. CASE t = "delivery"
      BY <1>12, <3>1, <2>1 DEF ReadPart, View, AnOrder
    <3>2. CASE t = "payment"
      BY <1>12, <3>2, <2>1 DEF ReadPart, View, AnOrder
    <3>3. CASE t = "items"
      <4>1. PICK n \in Arrived :
              view' = [view EXCEPT ![p] = AnOrder(view[p].row, view[p].delivery,
                                                  view[p].payment, n)]
        BY <1>12, <3>3 DEF ReadPart
      <4> QED BY <4>1, <2>2 DEF View, AnOrder
    <3> QED BY <3>1, <3>2, <3>3 DEF Part, Table
  <2> QED BY <1>12, <2>3 DEF ReadPart, callVars
<1>13. ASSUME NEW p \in Proc, Join(p) PROVE TypeOK'
  BY <1>13, ReturnType DEF Join
<1>14. ASSUME NEW p \in Proc, FetchFault(p) PROVE TypeOK'
  <2>1. CASE ReadRowFails(p)
    BY <2>1, ReturnType DEF ReadRowFails
  <2>2. ASSUME NEW t \in Part, ReadPartFails(p, t) PROVE TypeOK'
    BY <2>2 DEF ReadPartFails
  <2> QED BY <1>14, <2>1, <2>2 DEF FetchFault
<1>15. ASSUME Restore \/ ListFails PROVE TypeOK'
  <2>1. CASE ListUids
    BY <2>1, <1>0, GotoType DEF ListUids
  <2>2. CASE RestoreNext
    BY <2>2, <1>0, GotoType DEF RestoreNext
  <2>3. CASE ListFails
    BY <2>3, <1>0, GotoType DEF ListFails
  <2> QED BY <1>15, <2>1, <2>2, <2>3 DEF Restore
<1>16. ASSUME NEW u \in Uid, Forget(u) PROVE TypeOK'
  BY <1>16 DEF Forget
<1>17. ASSUME Crash PROVE TypeOK'
  BY <1>17, <1>0 DEF Crash, Fresh, Labels, MaxAttempts
<1>18. CASE UNCHANGED vars
  BY <1>18 DEF vars
<1> QED
  BY <1>1, <1>2, <1>3, <1>4, <1>6, <1>7, <1>8, <1>9, <1>10, <1>11, <1>12, <1>13,
     <1>14, <1>15, <1>16, <1>17, <1>18 DEF Next, Create, Fetch

THEOREM TypeCorrect == Spec => []TypeOK
BY TypeInit, TypeStep, PTL DEF Spec

-----------------------------------------------------------------------------
(* What is stored.  The invariants OrderAtomic, KeysUnique and AckedStored  *)
(* are not inductive: a commit keeps them because of what the transaction   *)
(* has inserted by then (TxInv) and because the unique indexes keep others  *)
(* away from its keys until it ends (LockInv).                              *)

InTx == Table \cup {"commit"}

TxInv(c) ==
  /\ pc[c] \notin InTx => wrote[c] = {}
  /\ pc[c] = "orders"   => wrote[c] = {}
  /\ pc[c] = "delivery" => wrote[c] = {"orders"}
  /\ pc[c] = "payment"  => wrote[c] = {"orders", "delivery"}
  /\ pc[c] = "items"    => wrote[c] = {"orders", "delivery", "payment"}
  /\ pc[c] = "commit"   => wrote[c] = Table
  /\ pc[c] \in InTx \cup {"duplicate", "wait", "created"} =>
       arg[c] \in Order /\ arg[c].uid = uid[c]
  /\ pc[c] \in InTx \cup {"wait", "created"} => ValidOrder(arg[c])
  /\ pc[c] = "created"  => db["orders"][uid[c]] = arg[c]

Apart(o1, o2, t) == UniqueKeys(o1, t) \cap UniqueKeys(o2, t) = {}

LockInv ==
  \A c \in Caller, t \in Table : t \in wrote[c] =>
    /\ \A u \in Uid : db[t][u] # NoOrder => Apart(db[t][u], arg[c], t)
    /\ \A d \in Caller : d # c /\ t \in wrote[d] => Apart(arg[d], arg[c], t)

StoreInv == /\ OrderAtomic /\ KeysUnique /\ AckedStored
            /\ \A c \in Caller : TxInv(c)
            /\ LockInv

LEMMA UidKey ==
  ASSUME NEW o1, NEW o2, o1.uid = o2.uid
  PROVE  ~Apart(o1, o2, "orders")
BY DEF Apart, UniqueKeys

LEMMA StoreInit == Init => StoreInv
BY ServiceAssumption
   DEF Init, StoreInv, OrderAtomic, KeysUnique, AckedStored, TxInv, LockInv, InTx,
       Table, Proc

\* A step that leaves rows, locks and arguments alone keeps the invariant if it
\* keeps each caller's part of it and acknowledges only what is stored.
LEMMA StoreFrame ==
  ASSUME TypeOK, StoreInv, UNCHANGED <<db, wrote, arg>>,
         \A u \in acked' : u \in acked \/ db["orders"][u] # NoOrder,
         \A c \in Caller : TxInv(c)'
  PROVE  StoreInv'
BY DEF StoreInv, OrderAtomic, KeysUnique, AckedStored, LockInv, TypeOK

\* A goroutine outside the transaction stays there, or returns or moves to a
\* label outside it.
QuietStep(p) ==
  /\ UNCHANGED <<db, wrote, arg>>
  /\ pc[p] \notin InTx
  /\ \/ \E l \in {"idle", "next", "row", "parts", "off"} : pc' = [pc EXCEPT ![p] = l]
     \/ pc' = pc
  /\ \/ uid' = uid
     \/ p = Main /\ \E u \in Uid : uid' = [uid EXCEPT ![Main] = u]
  /\ \A u \in acked' : u \in acked \/ db["orders"][u] # NoOrder

LEMMA StoreQuiet ==
  ASSUME TypeOK, StoreInv, NEW p \in Proc, QuietStep(p)
  PROVE  StoreInv'
<1> USE DEF QuietStep
<1> \A c \in Caller : TxInv(c)'
  BY ServiceAssumption DEF TypeOK, StoreInv, TxInv, Proc, InTx, Table
<1> QED BY StoreFrame

LEMMA RowsKept ==
  ASSUME StoreInv, db' = db, acked' = acked
  PROVE  OrderAtomic' /\ KeysUnique' /\ AckedStored'
BY DEF StoreInv, OrderAtomic, KeysUnique, AckedStored

LEMMA StoreCall ==
  ASSUME TypeOK, StoreInv, NEW c \in Caller, NEW u \in Uid, NEW l, NEW o,
         Call(c, u, l, o),
         \/ l = "duplicate" /\ o \in Order /\ o.uid = u
         \/ l = "lookup"
  PROVE  StoreInv'
<1> USE ServiceAssumption DEF TypeOK, fetchVars
<1>0. c \in Proc /\ c # Main
  BY DEF Proc
<1>1. /\ pc[c] = "idle" /\ pc' = [pc EXCEPT ![c] = l]
      /\ uid' = [uid EXCEPT ![c] = u] /\ arg' = [arg EXCEPT ![c] = o]
      /\ db' = db /\ wrote' = wrote /\ acked' = acked
  BY DEF Call
<1>2. wrote[c] = {}
  BY <1>1 DEF StoreInv, TxInv, InTx, Table
<1>3. \A d \in Caller : TxInv(d)'
  <2> SUFFICES ASSUME NEW d \in Caller PROVE TxInv(d)'
    OBVIOUS
  <2>1. CASE d = c
    BY <2>1, <1>0, <1>1, <1>2 DEF TxInv, InTx, Table
  <2>2. CASE d # c
    BY <2>2, <1>0, <1>1 DEF TxInv, StoreInv, Proc
  <2> QED BY <2>1, <2>2
<1>4. LockInv'
  BY <1>1, <1>2 DEF LockInv, StoreInv
<1> QED BY <1>1, <1>3, <1>4, RowsKept DEF StoreInv

\* Rolling back releases the caller's keys and touches no row.
LEMMA StoreRollback ==
  ASSUME TypeOK, StoreInv, NEW c \in Caller, NEW e, AttemptFails(c, e),
         pc[c] \in InTx \cup {"wait", "created"}
  PROVE  StoreInv'
<1> USE ServiceAssumption DEF TypeOK, callVars
<1>0. c \in Proc /\ c # Main
  BY DEF Proc
<1>1. /\ wrote' = [wrote EXCEPT ![c] = {}] /\ db' = db
      /\ uid' = uid /\ arg' = arg /\ acked' = acked
      /\ \E l \in {"wait", "idle"} : pc' = [pc EXCEPT ![c] = l]
  BY <1>0 DEF AttemptFails, Return, Goto, Failed
<1>2. \A d \in Caller : TxInv(d)'
  <2> SUFFICES ASSUME NEW d \in Caller PROVE TxInv(d)'
    OBVIOUS
  <2>1. CASE d = c
    BY <2>1, <1>0, <1>1 DEF StoreInv, TxInv, InTx, Table
  <2>2. CASE d # c
    BY <2>2, <1>0, <1>1 DEF TxInv, StoreInv, Proc
  <2> QED BY <2>1, <2>2
<1>3. LockInv'
  BY <1>1 DEF LockInv, StoreInv
<1> QED BY <1>1, <1>2, <1>3, RowsKept DEF StoreInv

\* An insert is granted only when no open transaction holds one of its keys and
\* no row has it.
LEMMA StoreInsert ==
  ASSUME TypeOK, StoreInv, NEW c \in Caller, Insert(c)
  PROVE  StoreInv'
<1> USE ServiceAssumption DEF TypeOK, callVars
<1> DEFINE t == pc[c]
<1>0. c \in Proc /\ c # Main /\ t \in Table /\ ~Blocked(c, t)
  BY DEF Proc, Insert
<1>1. CASE Conflicts(arg[c], t)
  BY <1>0, <1>1, StoreRollback DEF Insert, InTx
<1>2. CASE ~Conflicts(arg[c], t)
  <2>1. /\ wrote' = [wrote EXCEPT ![c] = @ \cup {t}]
        /\ pc' = [pc EXCEPT ![c] = After[t]]
        /\ db' = db /\ uid' = uid /\ arg' = arg /\ acked' = acked
    BY <1>2 DEF Insert, Goto
  <2>2. TxInv(c)'
    <3>1. CASE t = "orders"
      BY <3>1, <2>1, <1>0 DEF StoreInv, TxInv, InTx, Table, After
    <3>2. CASE t = "delivery"
      BY <3>2, <2>1, <1>0 DEF StoreInv, TxInv, InTx, Table, After
    <3>3. CASE t = "payment"
      BY <3>3, <2>1, <1>0 DEF StoreInv, TxInv, InTx, Table, After
    <3>4. CASE t = "items"
      BY <3>4, <2>1, <1>0 DEF StoreInv, TxInv, InTx, Table, After
    <3> QED BY <3>1, <3>2, <3>3, <3>4, <1>0 DEF Table
  <2>3. \A d \in Caller : d # c => TxInv(d)'
    BY <1>0, <2>1 DEF StoreInv, TxInv, Proc
  <2>4. LockInv'
    <3> SUFFICES ASSUME NEW d \in Caller, NEW s \in Table, s \in wrote'[d]
                 PROVE  /\ \A u \in Uid : db[s][u] # NoOrder => Apart(db[s][u], arg[d], s)
                        /\ \A x \in Caller : x # d /\ s \in wrote'[x] => Apart(arg[x], arg[d], s)
      BY <2>1 DEF LockInv
    <3>1. \A u \in Uid : db[t][u] # NoOrder => Apart(db[t][u], arg[c], t)
      BY <1>2 DEF Conflicts, Apart
    <3>2. \A x \in Caller : x # c /\ t \in wrote[x] =>
            Apart(arg[x], arg[c], t) /\ Apart(arg[c], arg[x], t)
      BY <1>0 DEF Blocked, Apart
    <3>3. CASE s \in wrote[d]
      BY <3>3, <2>1, <3>2 DEF StoreInv, LockInv
    <3>4. CASE s \notin wrote[d]
      <4>1. d = c /\ s = t
        BY <3>4, <2>1
      <4> QED BY <4>1, <2>1, <3>1, <3>2
    <3> QED BY <3>3, <3>4
  <2> QED BY <2>1, <2>2, <2>3, <2>4, RowsKept DEF StoreInv
<1> QED BY <1>1, <1>2

\* A commit turns the keys of the transaction into rows of all four tables.
LEMMA StoreCommit ==
  ASSUME TypeOK, StoreInv, NEW c \in Caller, Commit(c)
  PROVE  /\ StoreInv'
         /\ db["orders"][uid[c]] = NoOrder
         /\ \A t \in Table : db'[t] = [db[t] EXCEPT ![uid[c]] = arg[c]]
<1> USE ServiceAssumption DEF TypeOK, callVars
<1>0. c \in Proc /\ c # Main
  BY DEF Proc
<1>1. /\ pc[c] = "commit" /\ wrote[c] = Table /\ uid[c] \in Uid
      /\ arg[c] \in Order /\ arg[c] # NoOrder /\ arg[c].uid = uid[c]
      /\ ValidOrder(arg[c])
  BY <1>0, OrderAssumption DEF Commit, StoreInv, TxInv, InTx
<1>2. /\ wrote' = [wrote EXCEPT ![c] = {}]
      /\ pc' = [pc EXCEPT ![c] = "created"]
      /\ uid' = uid /\ arg' = arg /\ acked' = acked
  BY DEF Commit, Goto
<1>3. \A t \in Table : db'[t] = [db[t] EXCEPT ![uid[c]] = arg[c]]
  BY <1>1 DEF Commit
<1>4. \A t \in Table, u \in Uid :
        db'[t][u] = IF u = uid[c] THEN arg[c] ELSE db[t][u]
  <2> TAKE t \in Table, u \in Uid
  <2>1. db[t] \in [Uid -> Order \cup {NoOrder}]
    OBVIOUS
  <2> QED BY <2>1, <1>1, <1>3
<1>5. "orders" \in Table
  BY DEF Table
<1>6. db["orders"][uid[c]] = NoOrder
  <2> SUFFICES ASSUME db["orders"][uid[c]] # NoOrder PROVE FALSE
    OBVIOUS
  <2>1. db["orders"][uid[c]].uid = arg[c].uid
    BY <1>1, <1>5 DEF StoreInv, KeysUnique
  <2>2. Apart(db["orders"][uid[c]], arg[c], "orders")
    BY <1>1, <1>5 DEF StoreInv, LockInv
  <2> QED BY <2>1, <2>2, UidKey
<1>7. OrderAtomic'
  BY <1>4, <1>5 DEF StoreInv, OrderAtomic
<1>8. KeysUnique'
  <2> SUFFICES ASSUME NEW t \in Table, NEW u \in Uid, NEW v \in Uid,
                      db'[t][u] # NoOrder
               PROVE  /\ db'[t][u].uid = u /\ ValidOrder(db'[t][u])
                      /\ u # v /\ db'[t][v] # NoOrder =>
                           UniqueKeys(db'[t][u], t) \cap UniqueKeys(db'[t][v], t) = {}
    BY DEF KeysUnique
  <2>1. \A w \in Uid : db[t][w] # NoOrder =>
          UniqueKeys(db[t][w], t) \cap UniqueKeys(arg[c], t) = {}
    BY <1>1 DEF StoreInv, LockInv, Apart
  <2>2. CASE u = uid[c]
    BY <2>1, <2>2, <1>1, <1>4
  <2>3. CASE u # uid[c]
    <3>1. db'[t][u] = db[t][u] /\ db[t][u].uid = u /\ ValidOrder(db[t][u])
      BY <2>3, <1>4 DEF StoreInv, KeysUnique
    <3>2. CASE v = uid[c]
      BY <3>1, <3>2, <2>1, <1>4
    <3>3. CASE v # uid[c]
      <4>1. db'[t][v] = db[t][v] /\ db[t][u] # NoOrder
        BY <3>1, <3>3, <1>4
      <4>2. u # v /\ db[t][v] # NoOrder =>
              UniqueKeys(db[t][u], t) \cap UniqueKeys(db[t][v], t) = {}
        BY <4>1 DEF StoreInv, KeysUnique
      <4> QED BY <3>1, <4>1, <4>2
    <3> QED BY <3>1, <3>2, <3>3
  <2> QED BY <2>2, <2>3
<1>9. AckedStored'
  BY <1>1, <1>2, <1>4, <1>5 DEF StoreInv, AckedStored
<1>10. \A d \in Caller : TxInv(d)'
  <2> SUFFICES ASSUME NEW d \in Caller PROVE TxInv(d)'
    OBVIOUS
  <2>1. CASE d = c
    BY <2>1, <1>0, <1>1, <1>2, <1>4, <1>5 DEF TxInv, InTx, Table
  <2>2. CASE d # c
    <3>1. pc[d] = "created" => db'["orders"][uid[d]] = arg[d]
      <4> SUFFICES ASSUME pc[d] = "created" PROVE db'["orders"][uid[d]] = arg[d]
        OBVIOUS
      <4>1. db["orders"][uid[d]] = arg[d] /\ arg[d] \in Order /\ uid[d] \in Uid
        BY DEF StoreInv, TxInv, Proc
      <4>2. uid[d] # uid[c]
        BY <4>1, <1>6, OrderAssumption
      <4> QED BY <4>1, <4>2, <1>4, <1>5
    <3> QED BY <2>2, <3>1, <1>0, <1>2 DEF TxInv, StoreInv, Proc
  <2> QED BY <2>1, <2>2
<1>11. LockInv'
  <2> SUFFICES ASSUME NEW d \in Caller, NEW t \in Table, t \in wrote'[d]
               PROVE  /\ \A u \in Uid : db'[t][u] # NoOrder => Apart(db'[t][u], arg[d], t)
                      /\ \A x \in Caller : x # d /\ t \in wrote'[x] => Apart(arg[x], arg[d], t)
    BY <1>2 DEF LockInv
  <2>1. d # c /\ t \in wrote[d]
    BY <1>2
  <2>2. Apart(arg[c], arg[d], t)
    BY <2>1, <1>1 DEF StoreInv, LockInv
  <2>3. \A u \in Uid : db[t][u] # NoOrder => Apart(db[t][u], arg[d], t)
    BY <2>1 DEF StoreInv, LockInv
  <2>4. \A x \in Caller : x # d /\ t \in wrote[x] => Apart(arg[x], arg[d], t)
    BY <2>1 DEF StoreInv, LockInv
  <2> QED BY <2>2, <2>3, <2>4, <1>2, <1>4
<1> QED BY <1>3, <1>6, <1>7, <1>8, <1>9, <1>10, <1>11 DEF StoreInv

LEMMA StoreStep == TypeOK /\ StoreInv /\ [Next]_vars => StoreInv'
<1> SUFFICES ASSUME TypeOK, StoreInv, [Next]_vars PROVE StoreInv'
  OBVIOUS
<1> USE ServiceAssumption DEF fetchVars, callVars
<1>0. /\ Caller \subseteq Proc /\ Main \in Proc /\ \A c \in Caller : c # Main
      /\ uid \in [Proc -> Uid] /\ pc \in [Proc -> Labels]
  BY DEF TypeOK, Proc
<1>1. ASSUME NEW c \in Caller, NEW o \in Order, CreateOrder(c, o) PROVE StoreInv'
  BY <1>1, UidFacts, StoreCall DEF CreateOrder
<1>2. ASSUME NEW c \in Caller, NEW u \in Uid, GetOrder(c, u) PROVE StoreInv'
  BY <1>2, StoreCall DEF GetOrder
<1>3. ASSUME NEW c \in Caller, CheckDuplicate(c) PROVE StoreInv'
  <2>1. /\ pc[c] = "duplicate" /\ UNCHANGED <<db, wrote, arg, uid>>
        /\ \A u \in acked' : u \in acked \/ db["orders"][u] # NoOrder
        /\ \/ pc' = [pc EXCEPT ![c] = "idle"]
           \/ pc' = [pc EXCEPT ![c] = "wait"] /\ ValidOrder(arg[c])
    BY <1>3, <1>0 DEF CheckDuplicate, Return, Goto, Ack, Failed
  <2>2. \A d \in Caller : TxInv(d)'
    BY <2>1, <1>0 DEF StoreInv, TxInv, InTx, Table
  <2> QED BY <2>1, <2>2, StoreFrame
<1>4. ASSUME NEW c \in Caller, Begin(c) PROVE StoreInv'
  <2>1. /\ pc[c] = "wait" /\ UNCHANGED <<db, wrote, arg, uid, acked>>
        /\ pc' = [pc EXCEPT ![c] = "orders"]
    BY <1>4 DEF Begin, Goto
  <2>2. \A d \in Caller : TxInv(d)'
    BY <2>1, <1>0 DEF StoreInv, TxInv, InTx, Table
  <2> QED BY <2>1, <2>2, StoreFrame
<1>5. ASSUME NEW c \in Caller, Insert(c) PROVE StoreInv'
  BY <1>5, StoreInsert
<1>6. ASSUME NEW c \in Caller, Commit(c) PROVE StoreInv'
  BY <1>6, StoreCommit
<1>7. ASSUME NEW c \in Caller, PutCreated(c) PROVE StoreInv'
  <2>1. /\ pc[c] = "created" /\ UNCHANGED <<db, wrote, arg, uid>>
        /\ acked' = acked \cup {uid[c]} /\ pc' = [pc EXCEPT ![c] = "idle"]
    BY <1>7, <1>0 DEF PutCreated, Return, Ack
  <2>2. db["orders"][uid[c]] # NoOrder
    BY <2>1, OrderAssumption DEF StoreInv, TxInv
  <2>3. \A d \in Caller : TxInv(d)'
    BY <2>1, <1>0 DEF StoreInv, TxInv, InTx, Table
  <2> QED BY <2>1, <2>2, <2>3, StoreFrame
<1>8. ASSUME NEW c \in Caller, Lookup(c) PROVE StoreInv'
  <2>1. /\ pc[c] = "lookup" /\ UNCHANGED <<db, wrote, arg, uid, acked>>
        /\ \E l \in {"idle", "row"} : pc' = [pc EXCEPT ![c] = l]
    BY <1>8, <1>0 DEF Lookup, Return, Goto, Served
  <2>2. c \in Proc /\ QuietStep(c)
    BY <2>1, <1>0 DEF QuietStep, InTx, Table
  <2> QED BY <2>2, StoreQuiet
<1>9. ASSUME NEW c \in Caller, Fault(c) PROVE StoreInv'
  <2>1. ASSUME UNCHANGED <<db, wrote, arg, uid, acked>>,
               pc' = [pc EXCEPT ![c] = "idle"], pc[c] \in {"wait", "duplicate"}
        PROVE  StoreInv'
    <3>1. \A d \in Caller : TxInv(d)'
      BY <2>1, <1>0 DEF StoreInv, TxInv, InTx, Table
    <3> QED BY <2>1, <3>1, StoreFrame
  <2>2. CASE WaitCanceled(c)
    BY <2>1, <2>2, <1>0 DEF WaitCanceled, Return, Failed
  <2>3. CASE CreateFails(c)
    <3>1. PICK e \in FaultErrors :
            \/ /\ pc[c] = "duplicate" /\ Return(c, Failed(e))
               /\ UNCHANGED <<db, wrote, callVars, attempt, fetchVars, cache, todo>>
            \/ pc[c] \in {"wait", "commit", "created"} /\ AttemptFails(c, e)
            \/ pc[c] \in Table /\ AttemptFails(c, StatementError(e))
      BY <2>3 DEF CreateFails
    <3>2. CASE pc[c] = "duplicate" /\ Return(c, Failed(e))
               /\ UNCHANGED <<db, wrote, callVars, attempt, fetchVars, cache, todo>>
      BY <2>1, <3>2, <1>0 DEF Return, Failed
    <3>3. CASE pc[c] \in {"wait", "commit", "created"} /\ AttemptFails(c, e)
      BY <3>3, StoreRollback DEF InTx
    <3>4. CASE pc[c] \in Table /\ AttemptFails(c, StatementError(e))
      BY <3>4, StoreRollback DEF InTx
    <3> QED BY <3>1, <3>2, <3>3, <3>4
  <2> QED BY <1>9, <2>2, <2>3 DEF Fault
<1>10. ASSUME NEW p \in Proc, Fetch(p) \/ FetchFault(p) PROVE StoreInv'
  <2>1. /\ pc[p] \in {"row", "parts"} /\ UNCHANGED <<db, wrote, arg, uid, acked>>
        /\ \/ \E l \in {"idle", "next", "parts"} : pc' = [pc EXCEPT ![p] = l]
           \/ pc' = pc
    <3>1. CASE ReadRow(p)
      BY <3>1, <1>0 DEF ReadRow, Return, Goto, NotFound
    <3>2. ASSUME NEW t \in Part, ReadPart(p, t) \/ ReadPartFails(p, t)
          PROVE  /\ pc[p] \in {"row", "parts"} /\ pc' = pc
                 /\ UNCHANGED <<db, wrote, arg, uid, acked>>
      BY <3>2 DEF ReadPart, ReadPartFails
    <3>3. CASE Join(p)
      BY <3>3 DEF Join, Return, NotFound, Failed, Served
    <3>4. CASE ReadRowFails(p)
      BY <3>4 DEF ReadRowFails, Return, Failed
    <3> QED BY <1>10, <3>1, <3>2, <3>3, <3>4 DEF Fetch, FetchFault
  <2>2. QuietStep(p)
    BY <2>1, <1>0 DEF QuietStep, InTx, Table
  <2> QED BY <2>2, <1>0, StoreQuiet
<1>11. ASSUME Restore \/ ListFails PROVE StoreInv'
  <2>1. /\ pc[Main] \in {"list", "next"} /\ UNCHANGED <<db, wrote, arg, acked>>
        /\ \E l \in {"next", "row", "off"} : pc' = [pc EXCEPT ![Main] = l]
        /\ uid' = uid \/ \E u \in Uid : uid' = [uid EXCEPT ![Main] = u]
    <3>1. CASE ListUids \/ ListFails
      BY <3>1 DEF ListUids, ListFails, Goto
    <3>2. CASE RestoreNext
      BY <3>2 DEF RestoreNext, Goto, TypeOK
    <3> QED BY <1>11, <3>1, <3>2 DEF Restore
  <2>2. QuietStep(Main)
    BY <2>1, <1>0 DEF QuietStep, InTx, Table
  <2> QED BY <2>2, <1>0, StoreQuiet
<1>12. ASSUME NEW u \in Uid, Forget(u) PROVE StoreInv'
  <2>1. UNCHANGED <<db, wrote, arg, uid, pc, acked>>
    BY <1>12 DEF Forget
  <2>2. \A d \in Caller : TxInv(d)'
    BY <2>1 DEF StoreInv, TxInv
  <2> QED BY <2>1, <2>2, StoreFrame
<1>13. ASSUME Crash PROVE StoreInv'
  <2>1. /\ db' = db /\ acked' = acked /\ wrote' = [c \in Caller |-> {}]
        /\ \A c \in Caller : pc'[c] = "idle"
    BY <1>13, <1>0 DEF Crash, Fresh
  <2>2. \A d \in Caller : TxInv(d)'
    BY <2>1, <1>0 DEF TxInv, InTx, Table
  <2>3. LockInv'
    BY <2>1 DEF LockInv
  <2> QED BY <2>1, <2>2, <2>3, RowsKept DEF StoreInv
<1>14. CASE UNCHANGED vars
  <2>1. UNCHANGED <<db, wrote, arg, uid, pc, acked>>
    BY <1>14 DEF vars
  <2>2. \A d \in Caller : TxInv(d)'
    BY <2>1 DEF StoreInv, TxInv
  <2> QED BY <2>1, <2>2, StoreFrame
<1> QED
  BY <1>1, <1>2, <1>3, <1>4, <1>5, <1>6, <1>7, <1>8, <1>9, <1>10, <1>11, <1>12,
     <1>13, <1>14 DEF Next, Create

LEMMA StoreCorrect == Spec => [](TypeOK /\ StoreInv)
<1>1. Init => TypeOK /\ StoreInv
  BY TypeInit, StoreInit
<1>2. TypeOK /\ StoreInv /\ [Next]_vars => (TypeOK /\ StoreInv)'
  BY TypeStep, StoreStep
<1> QED BY <1>1, <1>2, PTL DEF Spec

\* An order is in all four tables or in none, whatever interleaving, failure or
\* crash CreateOrder meets.
THEOREM AtomicTheorem == Spec => []OrderAtomic
<1>1. StoreInv => OrderAtomic
  BY DEF StoreInv
<1> QED BY <1>1, StoreCorrect, PTL

\* No two stored orders share a uid, track number, transaction or request id.
THEOREM UniqueTheorem == Spec => []KeysUnique
<1>1. StoreInv => KeysUnique
  BY DEF StoreInv
<1> QED BY <1>1, StoreCorrect, PTL

\* What CreateOrder acknowledged stays in the database.
THEOREM AckTheorem == Spec => []AckedStored
<1>1. StoreInv => AckedStored
  BY DEF StoreInv
<1> QED BY <1>1, StoreCorrect, PTL

\* The only step that writes rows is a commit.
LEMMA OnlyCommitWrites ==
  ASSUME [Next]_vars
  PROVE  db' = db \/ \E c \in Caller : Commit(c)
<1>1. ASSUME NEW c \in Caller, Create(c), ~Commit(c) PROVE db' = db
  <2>1. ASSUME NEW e, AttemptFails(c, e) PROVE db' = db
    BY <2>1 DEF AttemptFails
  <2> QED BY <1>1, <2>1 DEF Create, CheckDuplicate, Begin, Insert, PutCreated
<1>2. ASSUME NEW c \in Caller, Fault(c) PROVE db' = db
  BY <1>2 DEF Fault, WaitCanceled, CreateFails, AttemptFails
<1>3. ASSUME NEW p \in Proc, Fetch(p) \/ FetchFault(p) PROVE db' = db
  BY <1>3 DEF Fetch, FetchFault, ReadRow, ReadRowFails, ReadPart, ReadPartFails, Join
<1>4. ASSUME Restore \/ ListFails \/ Crash PROVE db' = db
  BY <1>4 DEF Restore, ListUids, RestoreNext, ListFails, Crash
<1>5. ASSUME NEW c \in Caller,
             Lookup(c) \/ (\E o \in Order : CreateOrder(c, o))
               \/ (\E u \in Uid : GetOrder(c, u))
      PROVE  db' = db
  BY <1>5 DEF Lookup, CreateOrder, GetOrder, Call
<1>6. ASSUME NEW u \in Uid, Forget(u) PROVE db' = db
  BY <1>6 DEF Forget
<1> QED BY <1>1, <1>2, <1>3, <1>4, <1>5, <1>6 DEF Next, vars

\* No step of the service changes or removes an order once it is stored.
THEOREM StoredForeverTheorem == Spec => StoredForever
<1>1. ASSUME TypeOK, StoreInv, [Next]_vars
      PROVE  [\A u \in Uid : db["orders"][u] # NoOrder =>
                db'["orders"][u] = db["orders"][u]]_vars
  <2>1. ASSUME NEW c \in Caller, Commit(c), NEW u \in Uid, db["orders"][u] # NoOrder
        PROVE  db'["orders"][u] = db["orders"][u]
    <3>1. u # uid[c] /\ "orders" \in Table
      BY <2>1, <1>1, StoreCommit DEF Table
    <3>2. db'["orders"] = [db["orders"] EXCEPT ![uid[c]] = arg[c]]
      BY <2>1, <1>1, <3>1, StoreCommit
    <3>3. db["orders"] \in [Uid -> Order \cup {NoOrder}]
      BY <1>1, <3>1 DEF TypeOK
    <3> QED BY <3>1, <3>2, <3>3
  <2> QED BY <1>1, <2>1, OnlyCommitWrites
<1> QED BY <1>1, StoreCorrect, PTL DEF Spec, StoredForever

-----------------------------------------------------------------------------
(* Waiting for locks                                                        *)

\* A transaction that holds a key of table t has left t behind.
LEMMA HolderIsAhead ==
  ASSUME StoreInv, NEW d \in Caller, NEW t \in Table, t \in wrote[d]
  PROVE  /\ pc[d] \in InTx
         /\ t = "orders"   => pc[d] \in {"delivery", "payment", "items", "commit"}
         /\ t = "delivery" => pc[d] \in {"payment", "items", "commit"}
         /\ t = "payment"  => pc[d] \in {"items", "commit"}
BY DEF StoreInv, TxInv, InTx, Table

\* Nobody waits for the items, which claim no key, and any insert that waits has
\* a holder ahead of it.
LEMMA WaitsForHolder ==
  ASSUME StoreInv, NEW c \in Caller, NEW t \in Table, Blocked(c, t)
  PROVE  /\ t # "items"
         /\ \E d \in Caller : t \in wrote[d]
BY DEF Blocked, UniqueKeys, Table

LEMMA LocksResolveInv == StoreInv => LocksResolve
<1> SUFFICES ASSUME StoreInv, NEW c \in Caller, pc[c] \in Table, Blocked(c, pc[c])
             PROVE  LocksResolve
  BY DEF LocksResolve
<1> DEFINE Waits(x) == pc[x] \in Table /\ Blocked(x, pc[x])
           Goes(x)  == /\ wrote[x] # {} /\ ~Waits(x)
                       /\ pc[x] \in Table \cup {"commit"}
<1>1. ASSUME NEW d \in Caller, pc[d] \in {"items", "commit"} PROVE Goes(d)
  BY <1>1, WaitsForHolder DEF StoreInv, TxInv, Table
<1>2. ASSUME NEW x \in Caller, Waits(x), pc[x] = "payment"
      PROVE  \E d \in Caller : Goes(d)
  <2>1. PICK d \in Caller : "payment" \in wrote[d]
    BY <1>2, WaitsForHolder
  <2> QED BY <1>1, <2>1, HolderIsAhead DEF Table
<1>3. ASSUME NEW x \in Caller, Waits(x), pc[x] = "delivery"
      PROVE  \E d \in Caller : Goes(d)
  <2>1. PICK d \in Caller : "delivery" \in wrote[d]
    BY <1>3, WaitsForHolder
  <2>2. pc[d] \in {"payment", "items", "commit"}
    BY <2>1, HolderIsAhead DEF Table
  <2> QED BY <1>1, <1>2, <2>1, <2>2 DEF Table
<1>4. ASSUME NEW x \in Caller, Waits(x), pc[x] = "orders"
      PROVE  \E d \in Caller : Goes(d)
  <2>1. PICK d \in Caller : "orders" \in wrote[d]
    BY <1>4, WaitsForHolder
  <2>2. pc[d] \in {"delivery", "payment", "items", "commit"}
    BY <2>1, HolderIsAhead DEF Table
  <2> QED BY <1>1, <1>2, <1>3, <2>1, <2>2 DEF Table
<1>5. \E d \in Caller : Goes(d)
  BY <1>2, <1>3, <1>4, WaitsForHolder DEF Table
<1> QED BY <1>5 DEF LocksResolve

\* For any number of callers and any orders, an insert never waits for ever on
\* account of the locks alone: among the transactions that hold keys, one can
\* always take its next step or commit.
THEOREM LocksTheorem == Spec => []LocksResolve
BY LocksResolveInv, StoreCorrect, PTL

-----------------------------------------------------------------------------
(* Retries                                                                  *)

\* The three layers between a statement and withRetry look for a PgError type the
\* driver never builds: they keep every error but a deadline.
LEMMA LayersKeep ==
  ASSUME NEW e \in Error, e.pkg # ExpectedPkg
  PROVE  StatementError(e) \in {e, Sentinel("txtimeout")}
<1>1. RepoError(e) = e
  BY DEF RepoError, AsPgError
<1>2. HandleError(e) \in {e, Sentinel("txtimeout")}
  BY DEF HandleError, AsPgError
<1>3. HandleError(Sentinel("txtimeout")) = Sentinel("txtimeout")
  BY DEF HandleError, AsPgError, Sentinel, ExpectedPkg
<1> QED BY <1>1, <1>2, <1>3 DEF StatementError

LEMMA NoneRetryable ==
  /\ \A e \in FaultErrors : ~IsRetryable(e) /\ ~IsRetryable(StatementError(e))
  /\ ~IsRetryable(StatementError(PgError("23505")))
<1>1. ASSUME NEW e \in Error, e.pkg # ExpectedPkg, e.is # "txclosed"
      PROVE  ~IsRetryable(e) /\ ~IsRetryable(StatementError(e))
  <2>1. ~IsRetryable(e)
    BY <1>1 DEF IsRetryable, AsPgError
  <2>2. ~IsRetryable(Sentinel("txtimeout"))
    BY DEF IsRetryable, AsPgError, Sentinel, ExpectedPkg
  <2>3. StatementError(e) \in {e, Sentinel("txtimeout")}
    BY <1>1, LayersKeep
  <2> QED BY <2>1, <2>2, <2>3
<1>2. /\ PgError("23505") \in Error /\ PgError("23505").pkg # ExpectedPkg
      /\ PgError("23505").is # "txclosed"
  BY ErrorFacts DEF PgError, DriverPkg, ExpectedPkg
<1> QED BY <1>1, <1>2, ServiceAssumption

\* No call gets a second attempt: RetriesTransient is false for every error a
\* database can report, not only for those of the run.
OneAttempt == \A c \in Caller : attempt[c] <= 1

\* withRetry never retries: whatever PostgreSQL, the connection or the context
\* reports, CreateOrder makes one attempt (isRetryableError asks for the PgError of
\* a package the driver does not use).
THEOREM OneAttemptTheorem == Spec => []OneAttempt
<1>1. Init => OneAttempt
  BY DEF Init, OneAttempt
<1>2. TypeOK /\ OneAttempt /\ [Next]_vars => OneAttempt'
  <2> SUFFICES ASSUME TypeOK, OneAttempt, [Next]_vars PROVE OneAttempt'
    OBVIOUS
  <2> USE DEF OneAttempt, TypeOK
  <2>1. ASSUME attempt' = attempt PROVE OneAttempt'
    BY <2>1
  <2>2. ASSUME NEW c \in Caller, NEW e, ~IsRetryable(e), AttemptFails(c, e)
        PROVE  OneAttempt'
    BY <2>2 DEF AttemptFails
  <2>3. ASSUME NEW c \in Caller, CheckDuplicate(c) PROVE OneAttempt'
    BY <2>3 DEF CheckDuplicate
  <2>4. ASSUME NEW c \in Caller, Insert(c) PROVE OneAttempt'
    BY <2>1, <2>2, <2>4, NoneRetryable DEF Insert
  <2>5. ASSUME NEW c \in Caller, Fault(c) PROVE OneAttempt'
    BY <2>1, <2>2, <2>5, NoneRetryable DEF Fault, WaitCanceled, CreateFails
  <2>6. ASSUME NEW c \in Caller, Begin(c) \/ Commit(c) \/ PutCreated(c) \/ Lookup(c)
        PROVE  OneAttempt'
    BY <2>6 DEF Begin, Commit, PutCreated, Lookup
  <2>7. ASSUME NEW c \in Caller, (\E o \in Order : CreateOrder(c, o))
                 \/ (\E u \in Uid : GetOrder(c, u))
        PROVE  OneAttempt'
    <3>1. attempt' = [attempt EXCEPT ![c] = 0]
      BY <2>7 DEF CreateOrder, GetOrder, Call
    <3> QED BY <3>1
  <2>8. ASSUME NEW p \in Proc, Fetch(p) \/ FetchFault(p) PROVE OneAttempt'
    BY <2>8 DEF Fetch, FetchFault, ReadRow, ReadRowFails, ReadPart, ReadPartFails, Join
  <2>9. CASE Restore \/ ListFails \/ (\E u \in Uid : Forget(u)) \/ UNCHANGED vars
    BY <2>9 DEF Restore, ListUids, RestoreNext, ListFails, Forget, vars
  <2>10. CASE Crash
    BY <2>10 DEF Crash, Fresh
  <2> QED BY <2>3, <2>4, <2>5, <2>6, <2>7, <2>8, <2>9, <2>10 DEF Next, Create
<1> QED BY <1>1, <1>2, TypeCorrect, PTL DEF Spec

-----------------------------------------------------------------------------
(* What is cached and answered: parts of one stored order, and all of them  *)
(* unless an interrupted read of the items ends early ("cut" \in Hazards).  *)

\* The numbers of items a read of o may end with, and the orders fetchOrderFromDB
\* may then make of o: never parts of two orders, never one without items.
Arrives(o)  == IF "cut" \in Hazards THEN 0..o.items ELSE {o.items}
Readable(o) == {AnOrder(o, o, o, n) : n \in Arrives(o) \ {0}}

\* CacheMirrorsDB and ServedWhole, as far as they hold with such reads.
CacheOfStored ==
  \A u \in Uid : cache[u] # Miss =>
    /\ db["orders"][u] # NoOrder
    /\ cache[u] \in {Bare(db["orders"][u])} \cup Readable(db["orders"][u])

ServedOfStored ==
  \A c \in Caller : reply[c].kind = "order" =>
    /\ db["orders"][uid[c]] # NoOrder
    /\ reply[c].view \in Readable(db["orders"][uid[c]])

Grows == \A u \in Uid : db["orders"][u] # NoOrder =>
            db'["orders"][u] = db["orders"][u]

\* While the components are read, what has been attached so far is what is
\* stored, unless one of the reads has failed.
ViewOK(p) ==
  LET row == db["orders"][uid[p]] IN
  pc[p] = "parts" =>
    /\ row # NoOrder
    /\ view[p].row = row
    /\ ~broken[p] =>
         /\ "delivery" \notin left[p] => view[p].delivery = row
         /\ "payment" \notin left[p] => view[p].payment = row
         /\ "items" \notin left[p] => view[p].items \in Arrives(row)

ReplyOK(c) ==
  /\ known[c] => db["orders"][uid[c]] # NoOrder
  /\ reply[c].kind = "order" =>
       /\ db["orders"][uid[c]] # NoOrder
       /\ reply[c].view \in Readable(db["orders"][uid[c]])
  /\ reply[c].kind = "notfound" => ~known[c] \/ "cut" \in Hazards

ReadInv == /\ CacheOfStored
           /\ \A c \in Caller : ReplyOK(c)
           /\ \A p \in Proc : ViewOK(p)

\* A step of p changes nothing of what the other goroutines hold.
OnlyActs(p) ==
  /\ \A q \in Proc \ {p} :
       /\ pc'[q] = pc[q] /\ uid'[q] = uid[q]
       /\ view'[q] = view[q] /\ left'[q] = left[q] /\ broken'[q] = broken[q]
  /\ \A c \in Caller \ {p} : reply'[c] = reply[c] /\ known'[c] = known[c]

LEMMA ReadInit == Init => ReadInv
BY ServiceAssumption, UidFacts
   DEF Init, ReadInv, CacheOfStored, ReplyOK, ViewOK, NoReply, Proc

LEMMA ReadFrame ==
  ASSUME TypeOK, ReadInv, Grows, CacheOfStored', NEW p \in Proc, OnlyActs(p),
         ViewOK(p)', p \in Caller => ReplyOK(p)'
  PROVE  ReadInv'
<1>1. ASSUME NEW c \in Caller, c # p PROVE ReplyOK(c)'
  BY <1>1 DEF TypeOK, ReadInv, ReplyOK, Grows, OnlyActs, Proc
<1>2. ASSUME NEW q \in Proc, q # p PROVE ViewOK(q)'
  BY <1>2 DEF TypeOK, ReadInv, ViewOK, Grows, OnlyActs
<1> QED BY <1>1, <1>2 DEF ReadInv

LEMMA CacheKept ==
  ASSUME TypeOK, ReadInv, Grows, cache' = cache PROVE CacheOfStored'
BY DEF TypeOK, ReadInv, CacheOfStored, Grows

LEMMA ReadableFacts ==
  ASSUME NEW o \in Order
  PROVE  ~Complete(Bare(o)) /\ ~Complete(Miss) /\ o # NoOrder
<1>1. o # NoOrder
  BY OrderAssumption
<1> QED BY <1>1 DEF Complete, Bare, Miss, AnOrder

\* Without interrupted reads there is one way to read an order: whole.
LEMMA Uncut ==
  ASSUME "cut" \notin Hazards, NEW o
  PROVE  Readable(o) \subseteq {Whole(o)}
BY DEF Readable, Arrives, Whole

\* A call that gets no order and is not told "not found" has nothing to be
\* wrong about.
LEMMA MuteReply ==
  ASSUME TypeOK, ReadInv, Grows, NEW c \in Caller, uid'[c] = uid[c],
         known'[c] = known[c],
         reply'[c] = reply[c] \/ reply'[c].kind \notin {"order", "notfound"}
  PROVE  ReplyOK(c)'
BY DEF TypeOK, ReadInv, ReplyOK, Grows, Proc

\* A step of a caller that is not reading and answers without an order.
NoOrderAnswer(c) ==
  /\ UNCHANGED <<uid, known, view, left, broken>>
  /\ \E l \in Labels \ {"parts"} : pc' = [pc EXCEPT ![c] = l]
  /\ \/ reply' = reply
     \/ \E r \in Reply : /\ r.kind \notin {"order", "notfound"}
                         /\ reply' = [reply EXCEPT ![c] = r]

LEMMA ReadNoOrder ==
  ASSUME TypeOK, ReadInv, Grows, CacheOfStored', NEW c \in Caller, NoOrderAnswer(c)
  PROVE  ReadInv'
<1>0. c \in Proc
  BY DEF Proc
<1>1. OnlyActs(c)
  BY DEF OnlyActs, NoOrderAnswer, TypeOK
<1>2. ViewOK(c)'
  BY <1>0 DEF ViewOK, NoOrderAnswer, TypeOK
<1>3. ReplyOK(c)'
  <2>1. reply'[c] = reply[c] \/ reply'[c].kind \notin {"order", "notfound"}
    BY DEF NoOrderAnswer, TypeOK
  <2> QED BY <2>1, MuteReply DEF NoOrderAnswer
<1> QED BY <1>0, <1>1, <1>2, <1>3, ReadFrame

LEMMA ReturnNoOrder ==
  ASSUME NEW c \in Caller, NEW r \in Reply, r.kind \notin {"order", "notfound"},
         Return(c, r), UNCHANGED <<callVars, fetchVars>>
  PROVE  NoOrderAnswer(c)
BY ServiceAssumption DEF NoOrderAnswer, Return, callVars, fetchVars, Labels

LEMMA GotoNoOrder ==
  ASSUME NEW c \in Caller, NEW l \in Labels \ {"parts"}, Goto(c, l),
         UNCHANGED <<callVars, fetchVars>>
  PROVE  NoOrderAnswer(c)
BY DEF NoOrderAnswer, Goto, callVars, fetchVars

LEMMA ErrorReply ==
  ASSUME NEW e \in Error
  PROVE  Failed(e) \in Reply /\ Failed(e).kind \notin {"order", "notfound"}
BY ReplyFacts DEF Failed

LEMMA AckReply ==
  ASSUME NEW o \in Order
  PROVE  Ack(Bare(o)) \in Reply /\ Ack(Bare(o)).kind \notin {"order", "notfound"}
BY ReplyFacts, ViewFacts DEF Ack

LEMMA FailureNoOrder ==
  ASSUME NEW c \in Caller, NEW e \in Error, AttemptFails(c, e)
  PROVE  NoOrderAnswer(c) /\ cache' = cache
<1>1. CASE IsRetryable(e) /\ attempt[c] < MaxAttempts
  <2>1. Goto(c, "wait") /\ "wait" \in Labels \ {"parts"}
    BY <1>1 DEF AttemptFails, Labels
  <2> QED BY <2>1, GotoNoOrder DEF AttemptFails
<1>2. CASE ~(IsRetryable(e) /\ attempt[c] < MaxAttempts)
  <2>1. Return(c, Failed(e))
    BY <1>2 DEF AttemptFails
  <2> QED BY <2>1, ErrorReply, ReturnNoOrder DEF AttemptFails
<1> QED BY <1>1, <1>2

LEMMA ReadCreate ==
  ASSUME TypeOK, StoreInv, ReadInv, Grows, NEW c \in Caller, Create(c) \/ Fault(c)
  PROVE  ReadInv'
<1> USE ServiceAssumption
<1>1. {"wait", "created", "orders", "delivery", "payment", "items", "commit"}
        \subseteq Labels \ {"parts"}
  BY DEF Labels, Table
<1>2. FaultErrors \subseteq Error /\ Sentinel("invalid") \in Error
      /\ StatementError(PgError("23505")) \in Error
      /\ \A e \in FaultErrors : StatementError(e) \in Error
  <2>1. FaultErrors \subseteq Error /\ PgError("23505") \in Error
    BY ErrorFacts
  <2> QED BY <2>1, ErrorFacts, StatementErrorType
<1>3. CASE CheckDuplicate(c)
  <2>1. NoOrderAnswer(c)
    <3>1. CASE db["orders"][uid[c]] # NoOrder
      <4>1. db["orders"][uid[c]] \in Order
        BY <3>1 DEF TypeOK, Table, Proc
      <4> QED BY <1>3, <3>1, <4>1, AckReply, ReturnNoOrder DEF CheckDuplicate
    <3>2. CASE db["orders"][uid[c]] = NoOrder /\ ~ValidOrder(arg[c])
      BY <1>2, <1>3, <3>2, ErrorReply, ReturnNoOrder DEF CheckDuplicate
    <3>3. CASE db["orders"][uid[c]] = NoOrder /\ ValidOrder(arg[c])
      BY <1>1, <1>3, <3>3, GotoNoOrder DEF CheckDuplicate
    <3> QED BY <3>1, <3>2, <3>3
  <2> QED BY <1>3, <2>1, CacheKept, ReadNoOrder DEF CheckDuplicate
<1>4. CASE Begin(c)
  BY <1>1, <1>4, GotoNoOrder, CacheKept, ReadNoOrder DEF Begin
<1>5. CASE Insert(c)
  <2>1. CASE Conflicts(arg[c], pc[c])
    <3>1. AttemptFails(c, StatementError(PgError("23505")))
      BY <1>5, <2>1 DEF Insert
    <3> QED BY <3>1, <1>2, FailureNoOrder, CacheKept, ReadNoOrder
  <2>2. CASE ~Conflicts(arg[c], pc[c])
    <3>1. Goto(c, After[pc[c]]) /\ UNCHANGED <<callVars, fetchVars>> /\ cache' = cache
      BY <1>5, <2>2 DEF Insert
    <3>2. After[pc[c]] \in Labels \ {"parts"}
      BY <1>5 DEF Insert, Table, After, Labels
    <3> QED BY <3>1, <3>2, GotoNoOrder, CacheKept, ReadNoOrder
  <2> QED BY <2>1, <2>2
<1>6. CASE Commit(c)
  BY <1>1, <1>6, GotoNoOrder, CacheKept, ReadNoOrder DEF Commit
<1>7. CASE PutCreated(c)
  <2>1. /\ arg[c] \in Order /\ arg[c] # NoOrder /\ uid[c] \in Uid
        /\ db["orders"][uid[c]] = arg[c] /\ db' = db
    BY <1>7, UidFacts DEF PutCreated, StoreInv, TxInv, TypeOK, Proc
  <2>2. NoOrderAnswer(c)
    BY <1>7, <2>1, AckReply, ReturnNoOrder DEF PutCreated
  <2>3. CacheOfStored'
    BY <1>7, <2>1 DEF PutCreated, ReadInv, CacheOfStored, TypeOK
  <2> QED BY <2>2, <2>3, ReadNoOrder
<1>8. CASE WaitCanceled(c)
  BY <1>2, <1>8, ErrorReply, ReturnNoOrder, CacheKept, ReadNoOrder DEF WaitCanceled
<1>9. CASE CreateFails(c)
  <2>1. NoOrderAnswer(c) /\ cache' = cache
    BY <1>2, <1>9, FailureNoOrder, ErrorReply, ReturnNoOrder DEF CreateFails
  <2> QED BY <2>1, CacheKept, ReadNoOrder
<1> QED BY <1>3, <1>4, <1>5, <1>6, <1>7, <1>8, <1>9 DEF Create, Fault

\* When all reads have ended without failure, what they assembled is the stored
\* order, as far as it arrived; it is incomplete only if items were cut off.
LEMMA JoinedReadable ==
  ASSUME TypeOK, StoreInv, ReadInv, NEW p \in Proc, pc[p] = "parts", left[p] = {},
         ~broken[p]
  PROVE  /\ db["orders"][uid[p]] \in Order
         /\ Complete(view[p]) => view[p] \in Readable(db["orders"][uid[p]])
         /\ ~Complete(view[p]) => "cut" \in Hazards
<1> DEFINE row == db["orders"][uid[p]]
<1>1. /\ row # NoOrder /\ view[p].row = row /\ view[p].delivery = row
      /\ view[p].payment = row /\ view[p].items \in Arrives(row)
  <2>1. ViewOK(p)
    BY DEF ReadInv
  <2>2. "delivery" \notin left[p] /\ "payment" \notin left[p] /\ "items" \notin left[p]
    OBVIOUS
  <2> QED BY <2>1, <2>2 DEF ViewOK
<1>2. uid[p] \in Uid /\ "orders" \in Table /\ view[p] \in View
  BY DEF TypeOK, Table
<1>3. row \in Order /\ ValidOrder(row)
  BY <1>1, <1>2 DEF TypeOK, StoreInv, KeysUnique
<1>4. view[p] = AnOrder(row, row, row, view[p].items)
  BY <1>1, <1>2 DEF View, AnOrder
<1>5. Complete(view[p]) => view[p] \in Readable(row)
  BY <1>1, <1>4 DEF Complete, Readable
<1>6. ~Complete(view[p]) => "cut" \in Hazards
  BY <1>1, <1>3 DEF Complete, ValidOrder, Arrives
<1> QED BY <1>3, <1>5, <1>6

\* A fetch that ends with r: it caches the stored order or nothing, and answers
\* with the stored order, with a justified "not found", or with an error.
FetchEnds(p, r) ==
  /\ Return(p, r)
  /\ cache' = cache \/ CacheOfStored'
  /\ \/ UNCHANGED fetchVars
     \/ /\ view' = [view EXCEPT ![p] = Miss] /\ left' = left
        /\ broken' = [broken EXCEPT ![p] = FALSE]
  /\ p \in Caller /\ r.kind = "order" =>
       /\ db["orders"][uid[p]] # NoOrder
       /\ r.view \in Readable(db["orders"][uid[p]])
  /\ p \in Caller /\ r.kind = "notfound" => ~known[p] \/ "cut" \in Hazards

LEMMA ReadFetch ==
  ASSUME TypeOK, StoreInv, ReadInv, NEW p \in Proc,
         Fetch(p) \/ FetchFault(p)
  PROVE  ReadInv'
<1> USE ServiceAssumption DEF callVars, fetchVars
<1>0. /\ db' = db /\ uid' = uid /\ known' = known /\ Grows
      /\ uid[p] \in Uid /\ "orders" \in Table
  BY DEF Fetch, FetchFault, ReadRow, ReadRowFails, ReadPart, ReadPartFails, Join,
         Grows, TypeOK, Table
<1>1. ASSUME NEW r \in Reply, FetchEnds(p, r) PROVE ReadInv'
  <2>1. OnlyActs(p)
    BY <1>0, <1>1 DEF FetchEnds, OnlyActs, Return, TypeOK
  <2>2. ViewOK(p)'
    BY <1>1 DEF FetchEnds, ViewOK, Return, TypeOK
  <2>3. ASSUME p \in Caller PROVE ReplyOK(p)'
    BY <1>0, <1>1, <2>3 DEF FetchEnds, ReplyOK, Return, TypeOK, ReadInv
  <2> QED BY <1>0, <1>1, <2>1, <2>2, <2>3, CacheKept, ReadFrame DEF FetchEnds
<1>2. ASSUME ReadRow(p) PROVE ReadInv'
  <2> DEFINE row == db["orders"][uid[p]]
  <2>1. CASE row = NoOrder
    <3>1. p \in Caller => ~known[p]
      BY <2>1 DEF ReadInv, ReplyOK
    <3>2. FetchEnds(p, NotFound)
      BY <1>2, <2>1, <3>1 DEF ReadRow, FetchEnds, NotFound
    <3> QED BY <1>1, <3>2, ReplyFacts
  <2>2. CASE row # NoOrder
    <3>1. /\ pc' = [pc EXCEPT ![p] = "parts"] /\ UNCHANGED <<reply, cache>>
          /\ view' = [view EXCEPT ![p] = Bare(row)]
          /\ left' = [left EXCEPT ![p] = Part]
          /\ broken' = [broken EXCEPT ![p] = FALSE]
      BY <1>2, <2>2 DEF ReadRow, Goto
    <3>2. OnlyActs(p)
      BY <1>0, <3>1 DEF OnlyActs, TypeOK
    <3>3. ViewOK(p)'
      BY <1>0, <2>2, <3>1 DEF ViewOK, Part, Table, Bare, AnOrder, TypeOK
    <3>4. p \in Caller => ReplyOK(p)'
      BY <1>0, <3>1, MuteReply
    <3> QED BY <1>0, <3>1, <3>2, <3>3, <3>4, CacheKept, ReadFrame
  <2> QED BY <2>1, <2>2
<1>3. ASSUME NEW t \in Part, ReadPart(p, t) PROVE ReadInv'
  <2> DEFINE row == db["orders"][uid[p]]
             v == view[p]
  <2>1. /\ pc[p] = "parts" /\ UNCHANGED <<pc, broken, reply, cache>> /\ t \in left[p]
        /\ left' = [left EXCEPT ![p] = @ \ {t}]
        /\ row \in Order /\ row # NoOrder /\ db[t][uid[p]] = row /\ v \in View
    <3>1. t \in Table /\ pc[p] = "parts" /\ row # NoOrder
      BY <1>3 DEF Part, ReadPart, ReadInv, ViewOK
    <3> QED BY <1>0, <1>3, <3>1 DEF ReadPart, StoreInv, OrderAtomic, TypeOK
  <2>2. PICK n \in Arrives(row) :
          view' = [view EXCEPT ![p] =
            CASE t = "delivery" -> AnOrder(v.row, row, v.payment, v.items)
              [] t = "payment"  -> AnOrder(v.row, v.delivery, row, v.items)
              [] OTHER          -> AnOrder(v.row, v.delivery, v.payment, n)]
    <3>1. row.items \in Arrives(row)
      BY <2>1, OrderAssumption DEF Arrives, IsOrder
    <3>2. CASE t = "items"
      <4>1. PICK n \in Arrives(row) :
              view' = [view EXCEPT ![p] = AnOrder(v.row, v.delivery, v.payment, n)]
        BY <1>3, <2>1, <3>2 DEF ReadPart, Arrives
      <4> QED BY <3>2, <4>1
    <3>3. CASE t # "items"
      BY <1>3, <2>1, <3>1, <3>3 DEF ReadPart, Part, Table
    <3> QED BY <3>2, <3>3
  <2>3. OnlyActs(p)
    BY <1>0, <2>1, <2>2 DEF OnlyActs, TypeOK
  <2>4. ViewOK(p)'
    <3>1. /\ v.row = row
          /\ ~broken[p] =>
               /\ "delivery" \notin left[p] => v.delivery = row
               /\ "payment" \notin left[p] => v.payment = row
               /\ "items" \notin left[p] => v.items \in Arrives(row)
      BY <2>1 DEF ReadInv, ViewOK
    <3>2. left'[p] = left[p] \ {t} /\ t \in {"delivery", "payment", "items"}
      BY <2>1 DEF TypeOK, Part, Table
    <3>3. CASE t = "delivery"
      <4>1. view'[p] = AnOrder(v.row, row, v.payment, v.items)
        BY <2>2, <3>3 DEF TypeOK
      <4>2. /\ view'[p].row = row /\ view'[p].delivery = row
            /\ view'[p].payment = v.payment /\ view'[p].items = v.items
        BY <3>1, <4>1 DEF AnOrder
      <4>3. \A s \in {"payment", "items"} : s \notin left'[p] => s \notin left[p]
        BY <3>2, <3>3
      <4> QED BY <1>0, <2>1, <3>1, <4>2, <4>3 DEF ViewOK
    <3>4. CASE t = "payment"
      <4>1. view'[p] = AnOrder(v.row, v.delivery, row, v.items)
        BY <2>2, <3>4 DEF TypeOK
      <4>2. /\ view'[p].row = row /\ view'[p].payment = row
            /\ view'[p].delivery = v.delivery /\ view'[p].items = v.items
        BY <3>1, <4>1 DEF AnOrder
      <4>3. \A s \in {"delivery", "items"} : s \notin left'[p] => s \notin left[p]
        BY <3>2, <3>4
      <4> QED BY <1>0, <2>1, <3>1, <4>2, <4>3 DEF ViewOK
    <3>5. CASE t = "items"
      <4>1. view'[p] = AnOrder(v.row, v.delivery, v.payment, n)
        BY <2>2, <3>5 DEF TypeOK
      <4> QED BY <1>0, <2>1, <3>1, <3>2, <3>5, <4>1 DEF ViewOK, AnOrder
    <3> QED BY <3>2, <3>3, <3>4, <3>5
  <2>5. p \in Caller => ReplyOK(p)'
    BY <1>0, <2>1, MuteReply
  <2> QED BY <1>0, <2>1, <2>3, <2>4, <2>5, CacheKept, ReadFrame
<1>4. ASSUME NEW t \in Part, ReadPartFails(p, t) PROVE ReadInv'
  <2>1. /\ UNCHANGED <<pc, view, reply, cache>>
        /\ left' = [left EXCEPT ![p] = @ \ {t}]
        /\ broken' = [broken EXCEPT ![p] = TRUE]
    BY <1>4 DEF ReadPartFails
  <2>2. OnlyActs(p) /\ ViewOK(p)'
    BY <1>0, <2>1 DEF OnlyActs, ReadInv, ViewOK, TypeOK
  <2>3. p \in Caller => ReplyOK(p)'
    BY <1>0, <2>1, MuteReply
  <2> QED BY <1>0, <2>1, <2>2, <2>3, CacheKept, ReadFrame
<1>5. ASSUME ReadRowFails(p) PROVE ReadInv'
  <2>1. PICK e \in FaultErrors : Return(p, Failed(e))
    BY <1>5 DEF ReadRowFails
  <2>2. FetchEnds(p, Failed(e))
    BY <1>5, <2>1 DEF ReadRowFails, FetchEnds, Failed
  <2> QED BY <1>1, <2>2, ErrorReply
<1>6. ASSUME Join(p) PROVE ReadInv'
  <2>1. CASE broken[p]
    <3>1. PICK e \in FaultErrors : Return(p, Failed(e))
      BY <1>6, <2>1 DEF Join
    <3>2. FetchEnds(p, Failed(e))
      BY <1>6, <2>1, <3>1 DEF Join, FetchEnds, Failed
    <3> QED BY <1>1, <3>2, ErrorReply
  <2>2. CASE ~broken[p] /\ ~Complete(view[p])
    <3>1. "cut" \in Hazards
      BY <1>6, <2>2, JoinedReadable DEF Join
    <3>2. FetchEnds(p, NotFound)
      BY <1>6, <2>2, <3>1 DEF Join, FetchEnds, NotFound
    <3> QED BY <1>1, <3>2, ReplyFacts
  <2>3. CASE ~broken[p] /\ Complete(view[p])
    <3> DEFINE row == db["orders"][uid[p]]
    <3>1. row \in Order /\ view[p] \in Readable(row) /\ row # NoOrder
      BY <1>6, <2>3, JoinedReadable, UidFacts DEF Join
    <3>2. cache' = [cache EXCEPT ![uid[p]] = view[p]] /\ Return(p, Served(view[p]))
      BY <1>6, <2>3 DEF Join
    <3>3. CacheOfStored'
      BY <1>0, <3>1, <3>2 DEF ReadInv, CacheOfStored, TypeOK
    <3>4. Served(view[p]) \in Reply /\ Served(view[p]).kind = "order"
          /\ Served(view[p]).view = view[p]
      BY ReplyFacts DEF Served, TypeOK
    <3>5. FetchEnds(p, Served(view[p]))
      BY <1>6, <2>3, <3>1, <3>2, <3>3, <3>4 DEF Join, FetchEnds
    <3> QED BY <1>1, <3>4, <3>5
  <2> QED BY <2>1, <2>2, <2>3
<1> QED BY <1>2, <1>3, <1>4, <1>5, <1>6 DEF Fetch, FetchFault

LEMMA GrowsStep ==
  ASSUME TypeOK, StoreInv, [Next]_vars PROVE Grows
<1>1. ASSUME NEW c \in Caller, Commit(c), NEW u \in Uid, db["orders"][u] # NoOrder
      PROVE  db'["orders"][u] = db["orders"][u]
  <2>1. u # uid[c] /\ "orders" \in Table
    BY <1>1, StoreCommit DEF Table
  <2>2. db'["orders"] = [db["orders"] EXCEPT ![uid[c]] = arg[c]]
    BY <1>1, <2>1, StoreCommit
  <2>3. db["orders"] \in [Uid -> Order \cup {NoOrder}]
    BY <2>1 DEF TypeOK
  <2> QED BY <2>1, <2>2, <2>3
<1> QED BY <1>1, OnlyCommitWrites DEF Grows

LEMMA ReadCall ==
  ASSUME TypeOK, ReadInv, Grows, NEW c \in Caller, NEW u \in Uid,
         NEW l \in {"duplicate", "lookup"}, NEW o, Call(c, u, l, o)
  PROVE  ReadInv'
<1> USE DEF TypeOK, fetchVars
<1>0. c \in Proc
  BY DEF Proc
<1>1. /\ pc' = [pc EXCEPT ![c] = l] /\ uid' = [uid EXCEPT ![c] = u]
      /\ known' = [known EXCEPT ![c] = db["orders"][u] # NoOrder]
      /\ reply' = [reply EXCEPT ![c] = NoReply]
      /\ UNCHANGED <<db, fetchVars, cache>>
  BY DEF Call
<1>2. OnlyActs(c)
  BY <1>1 DEF OnlyActs
<1>3. ViewOK(c)'
  BY <1>0, <1>1 DEF ViewOK
<1>4. ReplyOK(c)'
  BY <1>0, <1>1 DEF ReplyOK, NoReply
<1> QED BY <1>0, <1>1, <1>2, <1>3, <1>4, CacheKept, ReadFrame

\* A hit is served only when it is complete, and then it is a read of the order.
LEMMA ReadLookup ==
  ASSUME TypeOK, StoreInv, ReadInv, Grows, NEW c \in Caller, Lookup(c)
  PROVE  ReadInv'
<1> USE ServiceAssumption DEF TypeOK, callVars, fetchVars
<1>0. c \in Proc /\ c # Main /\ uid[c] \in Uid /\ "orders" \in Table
  BY DEF Proc, Table
<1> DEFINE row == db["orders"][uid[c]]
           hit == cache[uid[c]]
<1>1. UNCHANGED <<db, uid, known, view, left, broken, cache>>
  BY DEF Lookup
<1>2. CASE ~Complete(hit)
  <2>1. pc' = [pc EXCEPT ![c] = "row"] /\ reply' = reply
    BY <1>2 DEF Lookup, Goto
  <2>2. NoOrderAnswer(c)
    BY <1>1, <2>1 DEF NoOrderAnswer, Labels
  <2>3. CacheOfStored'
    BY <1>1, CacheKept
  <2> QED BY <2>2, <2>3, ReadNoOrder
<1>3. CASE Complete(hit)
  <2>1. hit # Miss
    BY <1>3 DEF Complete, Miss, Bare, AnOrder
  <2>2. row \in Order /\ row # NoOrder /\ hit \in {Bare(row)} \cup Readable(row)
    BY <1>0, <2>1 DEF ReadInv, CacheOfStored
  <2>3. hit \in Readable(row)
    BY <1>3, <2>2, ReadableFacts
  <2>4. pc' = [pc EXCEPT ![c] = "idle"] /\ reply' = [reply EXCEPT ![c] = Served(hit)]
    BY <1>0, <1>3 DEF Lookup, Return
  <2>5. OnlyActs(c) /\ ViewOK(c)'
    BY <1>0, <1>1, <2>4 DEF OnlyActs, ViewOK
  <2>6. ReplyOK(c)'
    BY <1>0, <1>1, <2>2, <2>3, <2>4 DEF ReadInv, ReplyOK, Served
  <2> QED BY <1>0, <1>1, <2>5, <2>6, CacheKept, ReadFrame
<1> QED BY <1>2, <1>3

LEMMA ReadStep ==
  ASSUME TypeOK, StoreInv, ReadInv, [Next]_vars
  PROVE  ReadInv'
<1> USE ServiceAssumption DEF fetchVars, callVars
<1>0. Grows /\ Main \in Proc /\ Main \notin Caller
  BY GrowsStep DEF Proc
<1>1. ASSUME NEW c \in Caller, (\E o \in Order : CreateOrder(c, o))
               \/ (\E u \in Uid : GetOrder(c, u))
      PROVE  ReadInv'
  BY <1>0, <1>1, UidFacts, ReadCall DEF CreateOrder, GetOrder
<1>2. ASSUME Restore \/ ListFails PROVE ReadInv'
  <2>1. /\ UNCHANGED <<db, view, left, broken, cache, reply, known>>
        /\ \E l \in {"next", "row", "off"} : pc' = [pc EXCEPT ![Main] = l]
        /\ uid' = uid \/ \E u \in Uid : uid' = [uid EXCEPT ![Main] = u]
    <3>1. CASE ListUids \/ ListFails
      BY <3>1 DEF ListUids, ListFails, Goto
    <3>2. CASE RestoreNext
      BY <3>2 DEF RestoreNext, Goto, TypeOK
    <3> QED BY <1>2, <3>1, <3>2 DEF Restore
  <2>2. OnlyActs(Main) /\ ViewOK(Main)'
    BY <1>0, <2>1 DEF OnlyActs, ViewOK, TypeOK
  <2> QED BY <1>0, <2>1, <2>2, CacheKept, ReadFrame
<1>3. ASSUME UNCHANGED <<db, pc, uid, known, view, left, broken, reply>>, CacheOfStored'
      PROVE  ReadInv'
  BY <1>3 DEF ReadInv, ReplyOK, ViewOK
<1>4. ASSUME NEW u \in Uid, Forget(u) PROVE ReadInv'
  <2>1. CacheOfStored'
    BY <1>4 DEF Forget, ReadInv, CacheOfStored, TypeOK
  <2> QED BY <1>3, <1>4, <2>1 DEF Forget
<1>5. ASSUME Crash PROVE ReadInv'
  BY <1>5, UidFacts DEF Crash, Fresh, ReadInv, CacheOfStored, ReplyOK, ViewOK,
     NoReply, Proc
<1>6. CASE UNCHANGED vars
  BY <1>0, <1>3, <1>6, CacheKept DEF vars
<1> QED
  BY <1>0, <1>1, <1>2, <1>4, <1>5, <1>6, ReadCreate, ReadFetch, ReadLookup DEF Next

LEMMA ReadCorrect == Spec => []ReadInv
<1>1. Init => ReadInv
  BY ReadInit
<1>2. TypeOK /\ StoreInv /\ ReadInv /\ [Next]_vars => ReadInv'
  BY ReadStep
<1> QED BY <1>1, <1>2, StoreCorrect, PTL DEF Spec

\* Under all hazards, what is cached for a uid is made of the stored order alone:
\* bare, or with its own delivery, payment and at least one of its items.
THEOREM CacheOfStoredTheorem == Spec => []CacheOfStored
<1>1. ReadInv => CacheOfStored
  BY DEF ReadInv
<1> QED BY <1>1, ReadCorrect, PTL

\* Under all hazards, GetOrder answers with parts of one stored order: at worst
\* with fewer items than were stored, and only if a read of the items was cut.
THEOREM ServedOfStoredTheorem == Spec => []ServedOfStored
<1>1. ReadInv => ServedOfStored
  BY DEF ReadInv, ReplyOK, ServedOfStored
<1> QED BY <1>1, ReadCorrect, PTL

\* The cache holds nothing but stored orders, bare or whole.
THEOREM CacheTheorem ==
  ASSUME "cut" \notin Hazards PROVE Spec => []CacheMirrorsDB
<1>1. ReadInv => CacheMirrorsDB
  BY Uncut DEF ReadInv, CacheOfStored, CacheMirrorsDB
<1> QED BY <1>1, ReadCorrect, PTL

\* GetOrder answers with all that was stored for the order, or not with an order.
THEOREM ServedTheorem ==
  ASSUME "cut" \notin Hazards PROVE Spec => []ServedWhole
<1>1. ReadInv => ServedWhole
  BY Uncut DEF ReadInv, ReplyOK, ServedWhole
<1> QED BY <1>1, ReadCorrect, PTL

\* GetOrder never denies an order that was stored when it was called.
THEOREM FoundTheorem ==
  ASSUME "cut" \notin Hazards PROVE Spec => []FoundIfKnown
<1>1. ReadInv => FoundIfKnown
  BY DEF ReadInv, ReplyOK, FoundIfKnown
<1> QED BY <1>1, ReadCorrect, PTL
=============================================================================
