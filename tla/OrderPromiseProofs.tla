------------------------- MODULE OrderPromiseProofs -------------------------
(* What the callers of OrderService are told: the conflicts it reports, the  *)
(* statuses of OrderAPI, and the refinement of OrderStore, for every set of  *)
(* orders and callers.                                                       *)
EXTENDS OrderServiceProofs, OrderAPI

-----------------------------------------------------------------------------
(* The steps as a caller sees them.                                         *)

\* What a call may return, and what is then true of the database.
Outcome(c, r) ==
  \/ /\ \E v : r = Ack(v)
     /\ db["orders"][uid[c]] # NoOrder
  \/ r = NotFound
  \/ \E v : r = Served(v)
  \/ r = Failed(Sentinel("invalid"))
  \/ \E e \in FaultErrors : r \in {Failed(e), Failed(StatementError(e))}
  \/ /\ r = Failed(StatementError(PgError("23505")))
     /\ \E t \in Table : Conflicts(arg[c], t)

Answers(c) ==
  /\ pc[c] # "idle" /\ pc' = [pc EXCEPT ![c] = "idle"]
  /\ \E r : Outcome(c, r) /\ reply' = [reply EXCEPT ![c] = r]
  /\ UNCHANGED <<db, callVars>>

\* Nothing a caller can notice.
Silent ==
  /\ UNCHANGED <<db, arg, known, reply>>
  /\ \A c \in Caller : uid'[c] = uid[c] /\ (pc'[c] # "idle" => pc[c] # "idle")

Asks == \E c \in Caller, u \in Uid :
          \/ \E o \in Order : o.uid = u /\ Call(c, u, "duplicate", o)
          \/ Call(c, u, "lookup", NoOrder)

LEMMA SilentGoto ==
  ASSUME TypeOK, NEW c \in Caller, pc[c] # "idle", NEW l, Goto(c, l),
         UNCHANGED <<db, callVars>>
  PROVE  Silent
BY DEF Silent, Goto, callVars, TypeOK, Proc

LEMMA ReturnAnswers ==
  ASSUME NEW c \in Caller, pc[c] # "idle", NEW r, Return(c, r), Outcome(c, r),
         UNCHANGED <<db, callVars>>
  PROVE  Answers(c)
BY ServiceAssumption DEF Answers, Return

LEMMA FailingAnswers ==
  ASSUME TypeOK, NEW c \in Caller, pc[c] # "idle", NEW e, AttemptFails(c, e),
         Outcome(c, Failed(e))
  PROVE  Silent \/ Answers(c)
<1>1. CASE IsRetryable(e) /\ attempt[c] < MaxAttempts
  BY <1>1, SilentGoto DEF AttemptFails
<1>2. CASE ~(IsRetryable(e) /\ attempt[c] < MaxAttempts)
  BY <1>2, ReturnAnswers DEF AttemptFails
<1> QED BY <1>1, <1>2

LEMMA CreateKinds ==
  ASSUME TypeOK, StoreInv, NEW c \in Caller, Create(c) \/ Fault(c)
  PROVE  Silent \/ Answers(c) \/ Commit(c)
<1>1. CASE CheckDuplicate(c)
  <2>0. pc[c] # "idle" /\ UNCHANGED <<db, callVars>>
    BY <1>1 DEF CheckDuplicate
  <2>1. CASE db["orders"][uid[c]] # NoOrder
    <3>1. Outcome(c, Ack(Bare(db["orders"][uid[c]])))
      BY <2>1 DEF Outcome
    <3> QED BY <1>1, <2>0, <2>1, <3>1, ReturnAnswers DEF CheckDuplicate
  <2>2. CASE db["orders"][uid[c]] = NoOrder /\ ~ValidOrder(arg[c])
    <3>1. Outcome(c, Failed(Sentinel("invalid")))
      BY DEF Outcome
    <3> QED BY <1>1, <2>0, <2>2, <3>1, ReturnAnswers DEF CheckDuplicate
  <2>3. CASE db["orders"][uid[c]] = NoOrder /\ ValidOrder(arg[c])
    BY <1>1, <2>0, <2>3, SilentGoto DEF CheckDuplicate
  <2> QED BY <2>1, <2>2, <2>3
<1>2. CASE Begin(c)
  BY <1>2, SilentGoto DEF Begin
<1>3. CASE Insert(c)
  <2>1. pc[c] \in Table /\ pc[c] # "idle"
    BY <1>3 DEF Insert, Table
  <2>2. CASE Conflicts(arg[c], pc[c])
    <3>1. AttemptFails(c, StatementError(PgError("23505")))
      BY <1>3, <2>2 DEF Insert
    <3>2. Outcome(c, Failed(StatementError(PgError("23505"))))
      BY <2>1, <2>2 DEF Outcome
    <3> QED BY <2>1, <3>1, <3>2, FailingAnswers
  <2>3. CASE ~Conflicts(arg[c], pc[c])
    <3>1. Goto(c, After[pc[c]]) /\ UNCHANGED <<db, callVars>>
      BY <1>3, <2>3 DEF Insert
    <3> QED BY <2>1, <3>1, SilentGoto
  <2> QED BY <2>2, <2>3
<1>4. CASE PutCreated(c)
  <2>1. pc[c] = "created" /\ UNCHANGED <<db, callVars>> /\ Return(c, Ack(Bare(arg[c])))
    BY <1>4 DEF PutCreated
  <2>2. db["orders"][uid[c]] # NoOrder
    BY <2>1, UidFacts DEF StoreInv, TxInv
  <2>3. Outcome(c, Ack(Bare(arg[c])))
    BY <2>2 DEF Outcome
  <2> QED BY <2>1, <2>3, ReturnAnswers
<1>5. CASE WaitCanceled(c)
  <2>1. PICK e \in FaultErrors : Return(c, Failed(e))
    BY <1>5 DEF WaitCanceled
  <2>2. Outcome(c, Failed(e))
    BY DEF Outcome
  <2> QED BY <1>5, <2>1, <2>2, ReturnAnswers DEF WaitCanceled
<1>6. CASE CreateFails(c)
  <2>1. PICK e \in FaultErrors :
          \/ /\ pc[c] = "duplicate" /\ Return(c, Failed(e))
             /\ UNCHANGED <<db, wrote, callVars, attempt, fetchVars, cache, todo>>
          \/ pc[c] \in {"wait", "commit", "created"} /\ AttemptFails(c, e)
          \/ pc[c] \in Table /\ AttemptFails(c, StatementError(e))
    BY <1>6 DEF CreateFails
  <2>2. Outcome(c, Failed(e)) /\ Outcome(c, Failed(StatementError(e)))
    BY DEF Outcome
  <2>3. CASE /\ pc[c] = "duplicate" /\ Return(c, Failed(e))
             /\ UNCHANGED <<db, wrote, callVars, attempt, fetchVars, cache, todo>>
    BY <2>2, <2>3, ReturnAnswers
  <2>4. CASE pc[c] \in {"wait", "commit", "created"} /\ AttemptFails(c, e)
    BY <2>2, <2>4, FailingAnswers
  <2>5. CASE pc[c] \in Table /\ AttemptFails(c, StatementError(e))
    <3>1. pc[c] # "idle"
      BY <2>5 DEF Table
    <3> QED BY <2>2, <2>5, <3>1, FailingAnswers
  <2> QED BY <2>1, <2>3, <2>4, <2>5
<1> QED BY <1>1, <1>2, <1>3, <1>4, <1>5, <1>6 DEF Create, Fault

\* A fetch of RestoreCache answers nobody, one of GetOrder its caller.
LEMMA FetchKinds ==
  ASSUME TypeOK, NEW p \in Proc, Fetch(p) \/ FetchFault(p)
  PROVE  Silent \/ (p \in Caller /\ Answers(p))
<1> USE ServiceAssumption
<1>0. /\ pc[p] # "idle" /\ UNCHANGED <<db, callVars>>
  BY DEF Fetch, FetchFault, ReadRow, ReadRowFails, ReadPart, ReadPartFails, Join
<1>1. ASSUME NEW r, Return(p, r), Outcome(p, r)
      PROVE  Silent \/ (p \in Caller /\ Answers(p))
  <2>1. CASE p \in Caller
    BY <1>0, <1>1, <2>1, ReturnAnswers
  <2>2. CASE p = Main
    BY <1>0, <1>1, <2>2 DEF Silent, Return, callVars, TypeOK, Proc
  <2> QED BY <2>1, <2>2 DEF Proc
<1>2. ASSUME NEW l, l # "idle", Goto(p, l) PROVE Silent
  BY <1>0, <1>2 DEF Silent, Goto, callVars, TypeOK, Proc
<1>3. Outcome(p, NotFound)
  BY DEF Outcome
<1>4. CASE ReadRow(p)
  BY <1>1, <1>2, <1>3, <1>4 DEF ReadRow
<1>5. ASSUME NEW t \in Part, ReadPart(p, t) \/ ReadPartFails(p, t) PROVE Silent
  BY <1>0, <1>5 DEF ReadPart, ReadPartFails, Silent, callVars
<1>6. CASE ReadRowFails(p)
  <2>1. PICK e \in FaultErrors : Return(p, Failed(e))
    BY <1>6 DEF ReadRowFails
  <2>2. Outcome(p, Failed(e))
    BY DEF Outcome
  <2> QED BY <1>1, <2>1, <2>2
<1>7. CASE Join(p)
  <2>1. CASE \E e \in FaultErrors : Return(p, Failed(e))
    <3>1. PICK e \in FaultErrors : Return(p, Failed(e))
      BY <2>1
    <3>2. Outcome(p, Failed(e))
      BY DEF Outcome
    <3> QED BY <1>1, <3>1, <3>2
  <2>2. CASE Return(p, NotFound)
    BY <1>1, <1>3, <2>2
  <2>3. CASE Return(p, Served(view[p]))
    <3>1. Outcome(p, Served(view[p]))
      BY DEF Outcome
    <3> QED BY <1>1, <2>3, <3>1
  <2> QED BY <1>7, <2>1, <2>2, <2>3 DEF Join
<1> QED BY <1>4, <1>5, <1>6, <1>7 DEF Fetch, FetchFault

LEMMA StepKinds ==
  ASSUME TypeOK, StoreInv, [Next]_vars
  PROVE  Asks \/ Crash \/ Silent \/ \E c \in Caller : Answers(c) \/ Commit(c)
<1> USE ServiceAssumption
<1>1. ASSUME NEW c \in Caller, NEW o \in Order, CreateOrder(c, o) PROVE Asks
  BY <1>1, UidFacts DEF CreateOrder, Asks
<1>2. ASSUME NEW c \in Caller, NEW u \in Uid, GetOrder(c, u) PROVE Asks
  BY <1>2 DEF GetOrder, Asks
<1>3. ASSUME NEW c \in Caller, Lookup(c) PROVE Silent \/ Answers(c)
  <2>1. Outcome(c, Served(cache[uid[c]]))
    BY DEF Outcome
  <2> QED BY <1>3, <2>1, SilentGoto, ReturnAnswers DEF Lookup
<1>4. CASE Restore \/ ListFails
  BY <1>4 DEF Restore, ListUids, RestoreNext, ListFails, Goto, Silent, callVars,
              TypeOK, Proc
<1>5. ASSUME NEW u \in Uid, Forget(u) PROVE Silent
  BY <1>5 DEF Forget, Silent, callVars
<1>6. CASE UNCHANGED vars
  BY <1>6 DEF vars, callVars, Silent
<1> QED BY <1>1, <1>2, <1>3, <1>4, <1>5, <1>6, CreateKinds, FetchKinds DEF Next

-----------------------------------------------------------------------------
(* The answers.                                                             *)

\* A call that runs has not been answered, and only a failure carries an error.
AnswerInv ==
  \A c \in Caller : /\ pc[c] # "idle" => reply[c] = NoReply
                    /\ reply[c].kind # "error" => reply[c].err = NoErr

LEMMA AnswerInit == Init => AnswerInv
BY ServiceAssumption DEF Init, AnswerInv, Proc, NoReply

LEMMA OutcomeShape ==
  ASSUME NEW c \in Caller, NEW r, Outcome(c, r)
  PROVE  /\ r.kind \in {"ack", "notfound", "order", "error"}
         /\ r.kind # "error" => r.err = NoErr
BY DEF Outcome, Ack, NotFound, Served, Failed

LEMMA AnswerStep == TypeOK /\ StoreInv /\ AnswerInv /\ [Next]_vars => AnswerInv'
<1> SUFFICES ASSUME TypeOK, StoreInv, AnswerInv, [Next]_vars PROVE AnswerInv'
  OBVIOUS
<1> USE ServiceAssumption
<1>0. pc \in [Proc -> Labels] /\ Caller \subseteq Proc /\ reply \in [Caller -> Reply]
  BY DEF TypeOK, Proc
<1>1. CASE Asks
  <2>1. PICK c \in Caller, l \in {"duplicate", "lookup"} :
          /\ pc' = [pc EXCEPT ![c] = l]
          /\ reply' = [reply EXCEPT ![c] = NoReply]
    BY <1>1 DEF Asks, Call
  <2> QED BY <1>0, <2>1 DEF AnswerInv, NoReply
<1>2. CASE Crash
  BY <1>0, <1>2 DEF Crash, Fresh, AnswerInv, NoReply
<1>3. CASE Silent
  BY <1>3 DEF Silent, AnswerInv
<1>4. ASSUME NEW c \in Caller, Answers(c) PROVE AnswerInv'
  BY <1>0, <1>4, OutcomeShape DEF Answers, AnswerInv
<1>5. ASSUME NEW c \in Caller, Commit(c) PROVE AnswerInv'
  <2>1. pc[c] # "idle" /\ pc' = [pc EXCEPT ![c] = "created"] /\ reply' = reply
    BY <1>5 DEF Commit, Goto
  <2> QED BY <1>0, <2>1 DEF AnswerInv
<1> QED BY <1>1, <1>2, <1>3, <1>4, <1>5, StepKinds

LEMMA AnswerCorrect == Spec => []AnswerInv
BY AnswerInit, AnswerStep, StoreCorrect, PTL DEF Spec

-----------------------------------------------------------------------------
(* Conflicts.  No fault imitates one: FaultErrors are failures of the        *)
(* connection, of the context or of the server, not unique violations.       *)

NoFakeConflict == \A e \in FaultErrors : e.code # "23505" /\ e.is # "conflict"

\* The three layers between a statement and the caller make no conflict of
\* another error.
LEMMA ErrorsKept ==
  ASSUME NoFakeConflict, NEW e \in FaultErrors
  PROVE  StatementError(e).code # "23505" /\ StatementError(e).is # "conflict"
<1>1. e.pkg # ExpectedPkg /\ e.code # "23505" /\ e.is # "conflict" /\ e \in Error
  BY ServiceAssumption DEF NoFakeConflict
<1> QED BY <1>1, LayersKeep DEF Sentinel

\* Rows stay, so a key that was taken remains taken.
LEMMA ConflictsStay ==
  ASSUME TypeOK, StoreInv, StoreInv', [Next]_vars, NEW c \in Caller, NEW t \in Table,
         Conflicts(arg[c], t), arg'[c] = arg[c]
  PROVE  Conflicts(arg[c], t)'
<1>1. PICK u \in Uid : /\ db[t][u] # NoOrder
                       /\ UniqueKeys(db[t][u], t) \cap UniqueKeys(arg[c], t) # {}
  BY DEF Conflicts
<1>2. db[t][u] = db["orders"][u] /\ db'[t][u] = db'["orders"][u]
  BY DEF StoreInv, OrderAtomic
<1>3. db'[t][u] = db[t][u]
  BY <1>1, <1>2, GrowsStep DEF Grows
<1> QED BY <1>1, <1>3 DEF Conflicts

LEMMA ConflictStep ==
  ASSUME NoFakeConflict, TypeOK, StoreInv, StoreInv', ConflictReal, [Next]_vars
  PROVE  ConflictReal'
<1> USE ServiceAssumption
<1> DEFINE Told(r) == r.err.code = "23505" \/ r.err.is = "conflict"
<1>0. reply \in [Caller -> Reply] /\ arg \in [Caller -> Order \cup {NoOrder}]
  BY DEF TypeOK
<1>1. ASSUME NEW d \in Caller, reply'[d] = reply[d], arg'[d] = arg[d], Told(reply'[d])
      PROVE  \E t \in Table : Conflicts(arg[d], t)'
  <2>1. PICK t \in Table : Conflicts(arg[d], t)
    BY <1>1 DEF ConflictReal
  <2> QED BY <1>1, <2>1, ConflictsStay
<1>2. ~Told(NoReply)
  BY DEF NoReply, NoErr
<1> SUFFICES ASSUME NEW d \in Caller, Told(reply'[d])
             PROVE  \E t \in Table : Conflicts(arg[d], t)'
  BY DEF ConflictReal
<1>3. CASE Asks
  <2>1. PICK c \in Caller : /\ reply' = [reply EXCEPT ![c] = NoReply]
                            /\ \E o : arg' = [arg EXCEPT ![c] = o]
    BY <1>3 DEF Asks, Call
  <2>2. d # c
    BY <1>0, <1>2, <2>1
  <2> QED BY <1>0, <1>1, <2>1, <2>2
<1>4. CASE Crash
  BY <1>2, <1>4 DEF Crash, Fresh
<1>5. CASE Silent
  BY <1>1, <1>5 DEF Silent
<1>6. ASSUME NEW c \in Caller, Answers(c)
      PROVE  \E t \in Table : Conflicts(arg[d], t)'
  <2>1. PICK r : Outcome(c, r) /\ reply' = [reply EXCEPT ![c] = r]
    BY <1>6 DEF Answers
  <2>2. arg' = arg
    BY <1>6 DEF Answers, callVars
  <2>3. CASE d # c
    BY <1>0, <1>1, <2>1, <2>2, <2>3
  <2>4. CASE d = c
    <3>1. Told(r)
      BY <1>0, <2>1, <2>4
    <3>2. \A v : ~Told(Ack(v)) /\ ~Told(Served(v)) /\ ~Told(NotFound)
      BY DEF Ack, Served, NotFound, NoErr
    <3>3. ~Told(Failed(Sentinel("invalid")))
      BY DEF Failed, Sentinel
    <3>4. \A e \in FaultErrors : ~Told(Failed(e)) /\ ~Told(Failed(StatementError(e)))
      BY ErrorsKept DEF Failed, NoFakeConflict
    <3>5. \E t \in Table : Conflicts(arg[c], t)
      <4> HIDE DEF Told
      <4> QED BY <2>1, <3>1, <3>2, <3>3, <3>4 DEF Outcome
    <3> QED BY <2>2, <2>4, <3>5, ConflictsStay
  <2> QED BY <2>3, <2>4
<1>7. ASSUME NEW c \in Caller, Commit(c) PROVE \E t \in Table : Conflicts(arg[d], t)'
  BY <1>1, <1>7 DEF Commit, Goto, callVars
<1> QED BY <1>3, <1>4, <1>5, <1>6, <1>7, StepKinds

\* CreateOrder reports a unique violation only when a stored order holds one of
\* the keys, whatever the transactions it waited for did.
THEOREM ConflictTheorem ==
  ASSUME NoFakeConflict PROVE Spec => []ConflictReal
<1>1. Init => ConflictReal
  BY DEF Init, ConflictReal, NoReply, NoErr
<1>2. TypeOK /\ StoreInv /\ StoreInv' /\ ConflictReal /\ [Next]_vars => ConflictReal'
  BY ConflictStep
<1> QED BY <1>1, <1>2, StoreCorrect, PTL DEF Spec

-----------------------------------------------------------------------------
(* OrderAPI.                                                                *)

\* The status of GET /orders/:order_uid: 404 is never said of an order that was
\* stored when the request came, 200 comes with the whole order, and a timeout
\* is called a timeout.
THEOREM StatusTheorem ==
  ASSUME "cut" \notin Hazards PROVE Spec => []StatusHonest
<1>1. ReadInv /\ AnswerInv => StatusHonest
  <2> SUFFICES ASSUME ReadInv, AnswerInv, NEW c \in Caller
               PROVE  LET status == StatusOf(reply[c]) IN
                      /\ status = 404 => ~known[c]
                      /\ status = 200 => reply[c].view = Whole(db["orders"][uid[c]])
                      /\ reply[c].err.is = "deadline" <=> status = 504
    BY DEF StatusHonest
  <2> DEFINE r == reply[c]
  <2>1. ReplyOK(c)
    BY DEF ReadInv
  <2>2. r.kind # "error" => r.err.is = "none"
    BY DEF AnswerInv, NoErr
  <2>3. /\ StatusOf(r) = 404 => r.kind = "notfound"
        /\ StatusOf(r) = 200 => r.kind = "order"
        /\ r.kind = "error" => (StatusOf(r) = 504 <=> r.err.is = "deadline")
        /\ r.kind # "error" /\ r.err.is = "none" => StatusOf(r) # 504
    BY DEF StatusOf
  <2> QED BY <2>1, <2>2, <2>3, Uncut DEF ReplyOK
<1> QED BY <1>1, ReadCorrect, AnswerCorrect, PTL

-----------------------------------------------------------------------------
(* The refinement of OrderStore.                                            *)

Asked == [c \in Caller |-> [uid |-> uid[c], there |-> known[c]]]

Shown(r) == [kind |-> r.kind, view |-> IF r.kind = "order" THEN r.view ELSE Miss]
Told == [c \in Caller |-> Shown(reply[c])]

promiseVars == <<db["orders"], Asked, Told>>

\* The two modules speak of the same data.
LEMMA SameData ==
  /\ Promise!Uid = Uid /\ Promise!Table = Table
  /\ \A o : Promise!ValidOrder(o) <=> ValidOrder(o)
  /\ \A o, t : Promise!UniqueKeys(o, t) = UniqueKeys(o, t)
  /\ \A o : Promise!Whole(o) = Whole(o)
  /\ Promise!Bare(NoOrder) = Miss
BY DEF Promise!Uid, Uid, Promise!Table, Table, Promise!ValidOrder, ValidOrder,
       Promise!UniqueKeys, UniqueKeys, Promise!Whole, Whole, Promise!Bare, Bare, Miss,
       Promise!AnOrder, AnOrder

LEMMA PromiseInit == Init => Promise!Init
<1> SUFFICES ASSUME Init PROVE Promise!Init
  OBVIOUS
<1>1. db["orders"] = [u \in Promise!Uid |-> NoOrder]
  BY SameData DEF Init, Table
<1>2. Asked \in Promise!NothingAsked
  BY SameData, UidFacts DEF Init, Asked, Promise!NothingAsked, Proc
<1>3. Told = [c \in Caller |-> Promise!Silence]
  BY SameData DEF Init, Told, Shown, NoReply, Promise!Silence
<1> QED BY <1>1, <1>2, <1>3 DEF Promise!Init, Asked, Told, Shown

LEMMA PromiseAsk ==
  ASSUME TypeOK, Asks
  PROVE  \E c \in Caller, u \in Promise!Uid : Promise!Ask(c, u)
<1>1. PICK c \in Caller, u \in Uid :
        /\ uid' = [uid EXCEPT ![c] = u]
        /\ known' = [known EXCEPT ![c] = db["orders"][u] # NoOrder]
        /\ reply' = [reply EXCEPT ![c] = NoReply]
        /\ db' = db
  BY DEF Asks, Call
<1>2. Asked' = [Asked EXCEPT ![c] = [uid |-> u, there |-> db["orders"][u] # NoOrder]]
  BY <1>1 DEF Asked, TypeOK, Proc
<1>3. Told' = [Told EXCEPT ![c] = Promise!Silence]
  BY <1>1, SameData DEF Told, Shown, NoReply, Promise!Silence, TypeOK
<1>4. Promise!Ask(c, u)
  BY <1>1, <1>2, <1>3 DEF Promise!Ask, Asked, Told, Shown
<1> QED BY <1>4, SameData

LEMMA PromiseSave ==
  ASSUME TypeOK, StoreInv, NEW c \in Caller, Commit(c)
  PROVE  \E o \in Order : Promise!Save(o)
<1>1. /\ arg[c] \in Order /\ arg[c].uid = uid[c] /\ ValidOrder(arg[c])
      /\ wrote[c] = Table
  BY DEF Commit, StoreInv, TxInv, InTx
<1>2. ASSUME NEW u \in Uid, NEW t \in Table, db["orders"][u] # NoOrder
      PROVE  UniqueKeys(db["orders"][u], t) \cap UniqueKeys(arg[c], t) = {}
  <2>1. db[t][u] = db["orders"][u]
    BY DEF StoreInv, OrderAtomic
  <2> QED BY <1>1, <1>2, <2>1 DEF StoreInv, LockInv, Apart
<1>3. db'["orders"] = [db["orders"] EXCEPT ![arg[c].uid] = arg[c]]
  BY <1>1, StoreCommit DEF Table
<1>4. Asked' = Asked /\ Told' = Told
  BY DEF Commit, Goto, callVars, Asked, Told, Shown
<1>5. Promise!Save(arg[c])
  BY <1>1, <1>2, <1>3, <1>4, SameData DEF Promise!Save, Promise!Savable, Asked, Told, Shown
<1> QED BY <1>1, <1>5

\* An answer is true when it is given: by Outcome for acknowledgements, by
\* ReadInv for orders and "not found".
LEMMA PromiseAnswer ==
  ASSUME "cut" \notin Hazards, TypeOK, ReadInv', AnswerInv,
         NEW c \in Caller, Answers(c)
  PROVE  Promise!Answer(c)
<1> USE ServiceAssumption
<1> DEFINE o == db["orders"][uid[c]]
<1>1. PICK r : Outcome(c, r) /\ reply' = [reply EXCEPT ![c] = r]
  BY DEF Answers
<1>2. /\ reply'[c] = r /\ UNCHANGED <<db, callVars>> /\ reply[c] = NoReply
      /\ reply \in [Caller -> Reply]
  BY <1>1 DEF Answers, AnswerInv, TypeOK
<1>3. /\ r.kind = "order" => o # NoOrder /\ r.view = Whole(o)
      /\ r.kind = "notfound" => ~known[c]
  BY <1>2, Uncut DEF ReadInv, ReplyOK, callVars
<1>4. \/ r.kind = "ack" /\ o # NoOrder
      \/ r.kind \in {"notfound", "order", "error"}
  BY <1>1 DEF Outcome, Ack, NotFound, Served, Failed
<1>5. Asked[c].uid = uid[c] /\ Asked[c].there = known[c]
  BY DEF Asked
<1>6. Shown(r) \in {Promise!Failure}
                 \cup (IF o = NoOrder THEN {} ELSE {Promise!Stored, Promise!Found(Whole(o))})
                 \cup (IF known[c] THEN {} ELSE {Promise!NotFound})
  BY <1>3, <1>4, SameData
     DEF Shown, Promise!Failure, Promise!Stored, Promise!Found, Promise!NotFound
<1>7. Shown(r) \in Promise!Truthful(c)
  BY <1>5, <1>6, SameData DEF Promise!Truthful, Asked
<1>8. Told' = [Told EXCEPT ![c] = Shown(r)] /\ Asked' = Asked
  BY <1>1, <1>2 DEF Told, Asked, callVars
<1>9. Told[c] = Promise!Silence
  BY <1>2, SameData DEF Told, Shown, NoReply, Promise!Silence
<1> QED BY <1>2, <1>7, <1>8, <1>9 DEF Promise!Answer, Told, Asked, Shown

LEMMA PromiseVanish == TypeOK /\ Crash => Promise!Vanish
<1> SUFFICES ASSUME Crash PROVE Promise!Vanish
  OBVIOUS
<1>1. Asked' \in Promise!NothingAsked
  BY SameData, UidFacts DEF Crash, Fresh, Asked, Promise!NothingAsked, Proc
<1>2. Told' = [c \in Caller |-> Promise!Silence]
  BY SameData DEF Crash, Fresh, Told, Shown, NoReply, Promise!Silence
<1> QED BY <1>1, <1>2 DEF Promise!Vanish, Crash, Asked, Told, Shown

LEMMA PromiseStep ==
  ASSUME "cut" \notin Hazards, TypeOK, StoreInv, ReadInv', AnswerInv, [Next]_vars
  PROVE  Promise!Next \/ UNCHANGED promiseVars
<1>1. CASE Asks
  BY <1>1, PromiseAsk DEF Promise!Next
<1>2. CASE Crash
  BY <1>2, PromiseVanish DEF Promise!Next
<1>3. CASE Silent
  <2>1. Asked' = Asked /\ Told' = Told
    BY <1>3 DEF Silent, Asked, Told, Shown
  <2> QED BY <1>3, <2>1 DEF Silent, promiseVars
<1>4. ASSUME NEW c \in Caller, Answers(c) PROVE Promise!Next
  BY <1>4, PromiseAnswer DEF Promise!Next
<1>5. ASSUME NEW c \in Caller, Commit(c) PROVE Promise!Next
  BY <1>5, PromiseSave DEF Promise!Next
<1> QED BY <1>1, <1>2, <1>3, <1>4, <1>5, StepKinds

\* The service, with its transactions, retries, cache, concurrent callers and
\* restarts, implements OrderStore.
THEOREM KeepsPromiseTheorem ==
  ASSUME "cut" \notin Hazards PROVE Spec => KeepsPromise
<1>1. TypeOK /\ StoreInv /\ ReadInv' /\ AnswerInv /\ [Next]_vars =>
        [Promise!Next]_Promise!vars
  BY PromiseStep DEF promiseVars, Promise!vars, Asked, Told, Shown
<1> QED BY <1>1, PromiseInit, StoreCorrect, ReadCorrect, AnswerCorrect, PTL
        DEF Spec, KeepsPromise, Promise!Spec
=============================================================================
