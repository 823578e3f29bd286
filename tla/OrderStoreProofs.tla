-------------------------- MODULE OrderStoreProofs --------------------------
(* What the promise of the order service is worth to its callers: the       *)
(* consequences of OrderStore for every set of orders and callers.  Through *)
(* KeepsPromiseTheorem they are consequences of OrderService.               *)
EXTENDS OrderStore, TLAPS

-----------------------------------------------------------------------------
(* The store: keyed by uid, valid orders only, no unique key twice.         *)

Apart(o, p) == \A t \in Table : UniqueKeys(o, t) \cap UniqueKeys(p, t) = {}

Sound ==
  /\ store \in [Uid -> Order \cup {NoOrder}]
  /\ \A u \in Uid : store[u] # NoOrder =>
       /\ store[u].uid = u
       /\ ValidOrder(store[u])
  /\ \A u, v \in Uid : u # v /\ store[u] # NoOrder /\ store[v] # NoOrder =>
       Apart(store[u], store[v])

LEMMA OrderFacts ==
  /\ NoOrder \notin Order
  /\ \A o \in Order : o.uid \in Uid /\ o # NoOrder
BY OrderAssumption DEF Uid

\* Two orders with one uid claim the same key of the table orders.
LEMMA SameUid == \A o, p : o.uid = p.uid => ~Apart(o, p)
BY DEF Apart, UniqueKeys, Table

\* A valid order is saved only where there is none yet.
LEMMA SaveFresh ==
  ASSUME Sound, NEW o \in Order, Save(o)
  PROVE  store[o.uid] = NoOrder
BY SameUid, OrderFacts DEF Sound, Save, Savable, Apart

LEMMA ApartSym == \A o, p : Apart(o, p) <=> Apart(p, o)
BY DEF Apart

LEMMA SoundStep == Sound /\ [Next]_vars => Sound'
<1> SUFFICES ASSUME Sound, [Next]_vars PROVE Sound'
  OBVIOUS
<1>1. CASE UNCHANGED store
  BY <1>1 DEF Sound
<1>2. ASSUME NEW o \in Order, Save(o) PROVE Sound'
  <2>1. store' = [store EXCEPT ![o.uid] = o] /\ ValidOrder(o)
    BY <1>2 DEF Save, Savable
  <2>2. \A u \in Uid : store[u] # NoOrder => Apart(store[u], o)
    BY <1>2 DEF Save, Savable, Apart
  <2>3. \A u \in Uid : store'[u] = IF u = o.uid THEN o ELSE store[u]
    BY <2>1 DEF Sound
  <2>4. store' \in [Uid -> Order \cup {NoOrder}]
    BY <2>1, OrderFacts DEF Sound
  <2> QED BY <2>1, <2>2, <2>3, <2>4, ApartSym, OrderFacts DEF Sound
<1> QED BY <1>1, <1>2 DEF Next, Answer, Ask, Vanish, vars

LEMMA SoundInit == Init => Sound
BY OrderFacts DEF Init, Sound

\* The store of the service never holds an order that CreateOrder refuses, nor
\* one under another uid, nor two orders with a common unique key: whoever
\* relies on OrderStore only need not know of transactions or constraints.
THEOREM StoreSound == Spec => []Sound
BY SoundInit, SoundStep, PTL DEF Spec

\* A saved order is never changed and never goes.
Kept == [][\A u \in Uid : store[u] # NoOrder => store'[u] = store[u]]_store

LEMMA KeptStep ==
  ASSUME Sound, [Next]_vars, NEW u \in Uid, store[u] # NoOrder
  PROVE  store'[u] = store[u]
<1>1. CASE UNCHANGED store
  BY <1>1
<1>2. ASSUME NEW o \in Order, Save(o) PROVE store'[u] = store[u]
  BY <1>2, SaveFresh DEF Save, Sound
<1> QED BY <1>1, <1>2 DEF Next, Answer, Ask, Vanish, vars

\* What a caller of the service has once seen stored it may take for stored, as
\* it was, for ever: restarts, failing calls and other callers included.
THEOREM StoreKept == Spec => Kept
<1>1. Sound /\ [Next]_vars =>
        [\A u \in Uid : store[u] # NoOrder => store'[u] = store[u]]_store
  BY KeptStep
<1> QED BY <1>1, StoreSound, PTL DEF Spec, Kept

-----------------------------------------------------------------------------
(* The answers.                                                             *)

Told == {Silence, Stored, NotFound, Failure} \cup {Found(Whole(o)) : o \in Order}

\* An answer was true when it was given; here it is still true whenever the
\* caller looks at it, however much has happened since.
StillTrue ==
  \A c \in Caller : LET o == store[asked[c].uid] IN
    /\ answer[c].kind = "ack" => o # NoOrder
    /\ answer[c].kind = "order" => o # NoOrder /\ answer[c].view = Whole(o)
    /\ answer[c].kind = "notfound" => ~asked[c].there
    /\ asked[c].there => o # NoOrder

AskedType ==
  /\ asked \in [Caller -> [uid : Uid, there : BOOLEAN]]
  /\ answer \in [Caller -> Told]

AnswersInv == Sound /\ AskedType /\ StillTrue

LEMMA NobodyKnows ==
  ASSUME NEW f \in NothingAsked
  PROVE  /\ f \in [Caller -> [uid : Uid, there : BOOLEAN]]
         /\ \A c \in Caller : f[c].there = FALSE
<1>1. \A c \in Caller : f[c] \in [uid : Uid, there : {FALSE}]
  BY DEF NothingAsked
<1>2. f \in [Caller -> [uid : Uid, there : {FALSE}]]
  BY DEF NothingAsked
<1> QED BY <1>1, <1>2

LEMMA AnswersInit == Init => AnswersInv
<1> SUFFICES ASSUME Init PROVE AnswersInv
  OBVIOUS
<1>1. asked \in NothingAsked /\ answer = [c \in Caller |-> Silence]
  BY DEF Init
<1>2. AskedType
  BY <1>1, NobodyKnows DEF AskedType, Told
<1>3. StillTrue
  BY <1>1, NobodyKnows DEF StillTrue, Silence
<1> QED BY SoundInit, <1>2, <1>3 DEF AnswersInv

LEMMA AnswersStep == AnswersInv /\ [Next]_vars => AnswersInv'
<1> SUFFICES ASSUME AnswersInv, [Next]_vars PROVE AnswersInv'
  OBVIOUS
<1> USE DEF AnswersInv
<1>0. Sound'
  BY SoundStep
<1>1. ASSUME NEW c \in Caller, NEW u \in Uid, Ask(c, u)
      PROVE  AskedType' /\ StillTrue'
  BY <1>1 DEF Ask, AskedType, StillTrue, Told, Silence
<1>2. ASSUME NEW c \in Caller, Answer(c) PROVE AskedType' /\ StillTrue'
  <2> DEFINE o == store[asked[c].uid]
  <2>1. PICK r \in Truthful(c) : answer' = [answer EXCEPT ![c] = r]
    BY <1>2 DEF Answer
  <2>2. UNCHANGED <<store, asked>>
    BY <1>2 DEF Answer
  <2>3. o \in Order \cup {NoOrder}
    BY DEF Sound, AskedType
  <2>4. r \in Told
    BY <2>1, <2>3 DEF Truthful, Told
  <2>5. /\ r.kind = "ack" => o # NoOrder
        /\ r.kind = "order" => o # NoOrder /\ r.view = Whole(o)
        /\ r.kind = "notfound" => ~asked[c].there
    BY <2>1 DEF Truthful, Failure, Stored, Found, NotFound
  <2> QED BY <2>1, <2>2, <2>4, <2>5 DEF AskedType, StillTrue
<1>3. ASSUME NEW o \in Order, Save(o) PROVE AskedType' /\ StillTrue'
  <2>1. UNCHANGED <<asked, answer>>
    BY <1>3 DEF Save
  <2>2. \A c \in Caller : asked[c].uid \in Uid
    BY DEF AskedType
  <2>3. \A u \in Uid : store[u] # NoOrder => store'[u] = store[u]
    BY KeptStep
  <2>4. StillTrue'
    BY <2>1, <2>2, <2>3 DEF StillTrue
  <2> QED BY <2>1, <2>4 DEF AskedType
<1>4. CASE Vanish
  <2>1. asked' \in NothingAsked /\ answer' = [c \in Caller |-> Silence]
    BY <1>4 DEF Vanish
  <2> QED BY <1>0, <2>1, NobodyKnows DEF AskedType, StillTrue, Told, Silence
<1>5. CASE UNCHANGED vars
  BY <1>0, <1>5 DEF vars, AskedType, StillTrue
<1> QED BY <1>0, <1>1, <1>2, <1>3, <1>4, <1>5 DEF Next

\* An acknowledged order is stored, a served one is everything that is stored
\* under its uid, and one reported missing was missing when it was asked for:
\* not only when the call returns but as long as its caller uses the answer.
THEOREM AnswersStayTrue == Spec => []StillTrue
<1>1. AnswersInv => StillTrue
  BY DEF AnswersInv
<1> QED BY AnswersInit, AnswersStep, <1>1, PTL DEF Spec
=============================================================================
