---------------------------- MODULE LoggerPromise ----------------------------
(***************************************************************************)
(* The traffic logger implements TrafficLog, and no store pays for the     *)
(* failures of another, for every configuration and set of failures.       *)
(***************************************************************************)
EXTENDS LoggerProofs

-----------------------------------------------------------------------------
(* The refinement *)

LEMMA EntriesOf ==
  ASSUME NEW docs \in Seq(Document)
  PROVE  /\ Entries(docs) \in Seq(T!Entry)
         /\ Len(Entries(docs)) = Len(docs)
         /\ DOMAIN Entries(docs) = 1..Len(docs)
         /\ \A i \in 1..Len(docs) : Entries(docs)[i] = EntryOf(docs[i])
<1>1. Len(docs) \in Nat /\ \A i \in 1..Len(docs) : docs[i] \in Document
  BY LenProperties, ElementOfSeq
<1>2. \A i \in 1..Len(docs) : EntryOf(docs[i]) \in T!Entry
  BY <1>1 DEF EntryOf, T!Entry, Document
<1>3. [i \in 1..Len(docs) |-> EntryOf(docs[i])] \in Seq(T!Entry)
  BY <1>1, <1>2
<1> QED BY <1>1, <1>3 DEF Entries

LEMMA EntriesConcat ==
  ASSUME NEW s \in Seq(Document), NEW t \in Seq(Document)
  PROVE  Entries(s \o t) = Entries(s) \o Entries(t)
<1>1. s \o t \in Seq(Document) /\ Len(s \o t) = Len(s) + Len(t)
      /\ Len(s) \in Nat /\ Len(t) \in Nat
      /\ \A i \in 1..(Len(s) + Len(t)) : (s \o t)[i] = IF i <= Len(s) THEN s[i] ELSE t[i - Len(s)]
  BY ConcatProperties, LenProperties
<1>2. /\ Entries(s) \in Seq(T!Entry) /\ Len(Entries(s)) = Len(s)
      /\ \A i \in 1..Len(s) : Entries(s)[i] = EntryOf(s[i])
  BY EntriesOf
<1>3. /\ Entries(t) \in Seq(T!Entry) /\ Len(Entries(t)) = Len(t)
      /\ \A i \in 1..Len(t) : Entries(t)[i] = EntryOf(t[i])
  BY EntriesOf
<1>4. /\ Entries(s \o t) \in Seq(T!Entry) /\ Len(Entries(s \o t)) = Len(s) + Len(t)
      /\ \A i \in 1..(Len(s) + Len(t)) : Entries(s \o t)[i] = EntryOf((s \o t)[i])
  BY <1>1, EntriesOf
<1> DEFINE u == Entries(s) \o Entries(t)
<1>5. /\ u \in Seq(T!Entry) /\ Len(u) = Len(s) + Len(t)
      /\ \A i \in 1..(Len(s) + Len(t)) :
           u[i] = IF i <= Len(s) THEN Entries(s)[i] ELSE Entries(t)[i - Len(s)]
  <2>1. /\ u \in Seq(T!Entry) /\ Len(u) = Len(Entries(s)) + Len(Entries(t))
        /\ \A i \in 1..(Len(Entries(s)) + Len(Entries(t))) :
             u[i] = IF i <= Len(Entries(s)) THEN Entries(s)[i] ELSE Entries(t)[i - Len(Entries(s))]
    <3> DEFINE v == Entries(s)
               w == Entries(t)
    <3>1. v \in Seq(T!Entry) /\ w \in Seq(T!Entry)
      BY <1>2, <1>3
    <3> HIDE DEF v, w
    <3>2. /\ v \o w \in Seq(T!Entry) /\ Len(v \o w) = Len(v) + Len(w)
          /\ \A i \in 1..(Len(v) + Len(w)) :
               (v \o w)[i] = IF i <= Len(v) THEN v[i] ELSE w[i - Len(v)]
      BY <3>1, ConcatProperties
    <3> QED BY <3>2 DEF v, w
  <2> QED BY <1>2, <1>3, <2>1
<1>6. ASSUME NEW i \in 1..(Len(s) + Len(t))
      PROVE  Entries(s \o t)[i] = u[i]
  <2>1. CASE i <= Len(s)
    <3>1. i \in 1..Len(s) /\ (s \o t)[i] = s[i] /\ u[i] = Entries(s)[i]
      BY <1>1, <1>5, <2>1
    <3> QED BY <1>2, <1>4, <3>1
  <2>2. CASE ~(i <= Len(s))
    <3>1. i - Len(s) \in 1..Len(t) /\ (s \o t)[i] = t[i - Len(s)] /\ u[i] = Entries(t)[i - Len(s)]
      BY <1>1, <1>5, <2>2
    <3> QED BY <1>3, <1>4, <3>1
  <2> QED BY <2>1, <2>2
<1> HIDE DEF u
<1>7. Entries(s \o t) = u
  BY <1>4, <1>5, <1>6, SeqEqual
<1> QED BY <1>7 DEF u

\* The state function that the refinement substitutes for the abstract log.
Log == [d \in Targets |-> Entries(saved[d])]

\* A write that adds nothing leaves the abstract log alone; one that adds documents
\* delivers to its target.
LEMMA WriteRefines ==
  ASSUME TypeOK, OneLog, WriteStructured \/ Save \/ SaveFails
  PROVE  Log' = Log \/ \E d \in Targets : T!Deliver(d)
<1>0. PICK docs \in Additions(Head(todo)) : Done(docs)
  BY WritesAreDone
<1> DEFINE e == Head(todo).to
<1>1. /\ todo \in Seq(Write) /\ todo # <<>> /\ Head(todo) \in Write
      /\ saved \in [Targets -> Seq(Document)] /\ e \in Targets
  BY WritesAreDone DEF TypeOK, Write
<1>2. Len(todo) \in Nat \ {0} /\ 1 \in DOMAIN todo /\ Head(todo) = todo[1]
  BY <1>1, EmptySeq, LenProperties
<1>3. /\ docs \in Seq(Document) /\ Len(docs) \in Nat /\ DOMAIN docs = 1..Len(docs)
      /\ \A i \in DOMAIN docs : docs[i].seq = todo[1].doc.seq /\ docs[i].part = todo[1].doc.part
      /\ Len(docs) <= IF e = "kafka" THEN 2 ELSE 1
  BY <1>0, <1>2, LenProperties DEF Additions, SameHeading
<1>4. /\ saved' = [saved EXCEPT ![e] = @ \o docs]
      /\ UNCHANGED <<asyncqueue, nsent>>
  BY <1>0 DEF Done
<1>5. Received' = Received /\ nsent' = nsent
  BY <1>4 DEF Received
<1>6. Log' = [Log EXCEPT ![e] = Entries(saved[e]) \o Entries(docs)]
  <2>1. Log' = [d \in Targets |-> Entries(saved'[d])]
    BY DEF Log, Entries, EntryOf
  <2>2. saved'[e] = saved[e] \o docs /\ \A d \in Targets : d # e => saved'[d] = saved[d]
    BY <1>1, <1>4
  <2>3. Entries(saved'[e]) = Entries(saved[e]) \o Entries(docs)
    BY <1>1, <1>3, <2>2, EntriesConcat
  <2> HIDE DEF e
  <2> QED BY <1>1, <2>1, <2>2, <2>3 DEF Log
<1>7. CASE docs = <<>>
  <2>1. saved[e] \o docs = saved[e]
    BY <1>1, <1>7, ConcatEmptySeq
  <2>2. saved' = saved
    BY <1>1, <1>4, <2>1
  <2> QED BY <2>2 DEF Log, Entries, EntryOf
<1>8. CASE docs # <<>>
  <2> DEFINE n == Len(docs)
             r == todo[1].doc.part = "response"
             f == [seq |-> Received, response |-> r]
  <2>1. n \in 1..(IF e \in {"kafka"} THEN 2 ELSE 1)
    BY <1>3, <1>8, EmptySeq
  <2>2. todo[1].doc.seq = Received
    BY <1>2 DEF OneLog, TodoIsCurrent
  <2>3. /\ Entries(docs) \in Seq(T!Entry) /\ Len(Entries(docs)) = n
        /\ DOMAIN Entries(docs) = 1..n
        /\ \A i \in 1..n : Entries(docs)[i] = EntryOf(docs[i])
    BY <1>3, EntriesOf
  <2>4. \A i \in 1..n : EntryOf(docs[i]) = f
    BY <1>3, <2>2 DEF EntryOf
  <2>5. Entries(docs) = [i \in 1..n |-> f]
    BY <2>4 DEF Entries
  <2>6. Log[e] = Entries(saved[e]) /\ DOMAIN Log[e] = 1..Len(saved[e])
        /\ \A i \in 1..Len(saved[e]) : Log[e][i] = EntryOf(saved[e][i])
    BY <1>1, EntriesOf DEF Log
  <2>7. \A i \in DOMAIN Log[e] : T!Before(Log[e][i], f)
    <3> SUFFICES ASSUME NEW i \in 1..Len(saved[e])
                 PROVE  T!Before(EntryOf(saved[e][i]), f)
      BY <2>6
    <3>1. saved[e][i] \in Document /\ i \in DOMAIN saved[e]
      BY <1>1, ElementOfSeq, LenProperties
    <3>2. Rank(saved[e][i]) < Rank(todo[1].doc)
      BY <1>1, <1>2, <3>1 DEF OneLog, SavedIsOlder
    <3>3. saved[e][i].seq \in Nat /\ Received \in Nat
      BY <1>2, <1>1, <2>2, <3>1, ElementOfSeq DEF Document, Write
    <3>4. \/ saved[e][i].seq < Received
          \/ saved[e][i].seq = Received /\ saved[e][i].part # "response" /\ r
      BY <2>2, <3>2, <3>3 DEF Rank
    <3> QED BY <3>4 DEF T!Before, EntryOf
  <2>8. Log' = [Log EXCEPT ![e] = @ \o [i \in 1..n |-> f]]
    BY <1>6, <1>1, <2>5, <2>6
  <2>9. T!Deliver(e)
    <3> HIDE DEF e, n, f
    <3>1. r \in BOOLEAN /\ f = [seq |-> Received, response |-> r]
      BY DEF f
    <3> HIDE DEF r
    <3> QED BY <1>5, <2>1, <2>7, <2>8, <3>1 DEF T!Deliver, Log
  <2> QED BY <1>1, <2>9
<1> QED BY <1>7, <1>8

\* Every other step of the logger accepts a transaction, takes one, or changes nothing
\* that the promise speaks about.
LEMMA StepRefines ==
  ASSUME TypeOK, OneLog, [Next]_vars
  PROVE  [T!TNext]_(T!tvars)
<1>1. CASE UNCHANGED <<asyncqueue, nsent, saved>>
  BY <1>1 DEF T!tvars, Received, Entries, EntryOf
<1>2. ASSUME NEW t, Send(t)
      PROVE  T!Accept
  <2>1. asyncqueue \in Seq(Transaction) /\ nsent \in Nat
    BY DEF TypeOK
  <2>2. Len(asyncqueue') = Len(asyncqueue) + 1 /\ Len(asyncqueue) \in Nat
    BY <1>2, <2>1 DEF Send
  <2>3. nsent' = nsent + 1 /\ saved' = saved
    BY <1>2 DEF Send
  <2>4. Received' = Received
    BY <2>1, <2>2, <2>3 DEF Received
  <2> QED BY <2>3, <2>4 DEF T!Accept, Entries, EntryOf
<1>3. CASE Receive
  <2>1. asyncqueue \in Seq(Transaction) /\ asyncqueue # <<>> /\ nsent \in Nat
    BY <1>3 DEF Receive, TypeOK
  <2>2. Len(asyncqueue') = Len(asyncqueue) - 1 /\ Len(asyncqueue) \in Nat \ {0}
    BY <1>3, <2>1, HeadTailProperties, EmptySeq DEF Receive
  <2>3. nsent' = nsent /\ saved' = saved
    BY <1>3 DEF Receive
  <2>4. Received' = Received + 1 /\ Received < nsent
    BY <2>1, <2>2, <2>3 DEF Received
  <2>5. T!Take
    BY <2>3, <2>4 DEF T!Take, Entries, EntryOf
  <2> QED BY <2>5 DEF T!TNext
<1>4. CASE WriteStructured \/ Save \/ SaveFails
  <2>1. UNCHANGED <<asyncqueue, nsent>>
    BY <1>4, WritesAreDone DEF Done
  <2>2. Log' = Log \/ \E d \in Targets : T!Deliver(d)
    BY <1>4, WriteRefines
  <2> QED BY <2>1, <2>2 DEF T!TNext, T!tvars, Log, Received
<1>5. CASE Next /\ ~UNCHANGED <<asyncqueue, nsent, saved>>
  <2>1. (\E t : Send(t)) \/ Receive \/ WriteStructured \/ Save \/ SaveFails
    BY <1>5 DEF Next, Caller, LogRequest, LogResponse, SendOnClosed, CloseWriter, CloseQueue,
                Halt, AsyncWrite, AsyncWriteReturns
  <2>2. T!Accept => [T!TNext]_(T!tvars)
    BY DEF T!TNext
  <2> QED BY <1>2, <1>3, <1>4, <2>1, <2>2
<1> QED BY <1>1, <1>5 DEF vars

\* The logger keeps the promise of TrafficLog, for every configuration, capacity and
\* set of failures: what a target holds grows only by the next parts of the
\* transaction received last.
THEOREM LoggerKeepsThePromise == Spec => KeepsThePromise
<1>1. Init => T!TInit
  <2> SUFFICES ASSUME Init PROVE T!TInit
    OBVIOUS
  <2>1. nsent = 0 /\ asyncqueue = <<>> /\ saved = [d \in Targets |-> <<>>]
    BY DEF Init, NewLogger
  <2>2. Received = 0
    <3>1. Len(asyncqueue) = 0
      BY <2>1
    <3>2. nsent = 0
      BY <2>1
    <3>3. nsent - Len(asyncqueue) = 0
      BY <3>1, <3>2
    <3> QED BY <3>3 DEF Received
  <2>3. <<>> \in Seq(Document)
    OBVIOUS
  <2>4. Entries(<<>>) \in Seq(T!Entry) /\ Len(Entries(<<>>)) = 0
    BY <2>3, EntriesOf
  <2>5. Entries(<<>>) = <<>>
    BY <2>4, EmptySeq
  <2> QED BY <2>1, <2>2, <2>5 DEF T!TInit
<1>2. TypeOK /\ OneLog /\ [Next]_vars => [T!TNext]_(T!tvars)
  BY StepRefines
<1>3. Spec => []TypeOK
  BY TypeCorrect
<1>4. Spec => []OneLog
  BY LogIsOne
<1> QED BY <1>1, <1>2, <1>3, <1>4, PTL DEF Spec, KeepsThePromise, T!TSpec

-----------------------------------------------------------------------------
(* The stores take turns *)

Stores == Len(Store)

\* How many of the writes in w are calls of a store.
Due(w) == IF w # <<>> /\ Head(w).to = "swriter" THEN Len(w) - 1 ELSE Len(w)

\* The store to be called when m more calls follow: the loop over the stores runs for
\* the request and then for the response.
Turn(m) == IF m < Stores THEN Stores - m ELSE Stores + Stores - m

\* How many of the last n calls go to the i-th store.
CallsTo(i, n) ==
  (IF n >= Stores - i + 1 THEN 1 ELSE 0) + (IF n >= Stores + Stores - i + 1 THEN 1 ELSE 0)

GoesRound(w) ==
  /\ Due(w) <= Stores + Stores
  /\ \A m \in 0..(Due(w) - 1) : w[Len(w) - m].to = Store[Turn(m)]

\* What was tried and what is still due is the same for every store.
Balanced ==
  \A i, j \in DOMAIN Store :
    tried[Store[i]] + CallsTo(i, Due(todo)) = tried[Store[j]] + CallsTo(j, Due(todo))

TakesTurns == GoesRound(todo) /\ Balanced

LEMMA storeWriterLen ==
  ASSUME NEW t, NEW part, NEW dump, Store \in Seq(StoreNames)
  PROVE  Len(storeWriter(t, part, dump)) \in {0, Stores}
<1>1. Stores \in Nat
  BY LenProperties DEF Stores
<1>2. CASE Selected(part)
  <2>1. storeWriter(t, part, dump) =
          [i \in 1..Stores |-> [to |-> Store[i], doc |-> StoreDocument(t, part, dump)]]
    BY <1>2 DEF storeWriter, Stores
  <2> QED BY <1>1, <2>1
<1>3. CASE ~Selected(part)
  BY <1>3 DEF storeWriter
<1> QED BY <1>2, <1>3

\* Entries of the structured file, then the stores in their order, once or twice.
LEMMA ConcatGoesRound ==
  ASSUME NEW A \in Seq(Write), NEW B \in Seq(Write), NEW C \in Seq(Write),
         Store \in Seq(StoreNames),
         Len(A) \in {0, 1}, \A i \in DOMAIN A : A[i].to = "swriter",
         Len(B) \in {0, Stores}, \A i \in DOMAIN B : B[i].to = Store[i],
         Len(C) \in {0, Stores}, \A i \in DOMAIN C : C[i].to = Store[i]
  PROVE  GoesRound((A \o B) \o C) /\ Due((A \o B) \o C) \in {0, Stores, Stores + Stores}
<1> DEFINE w == (A \o B) \o C
           a == Len(A)
           b == Len(B)
           c == Len(C)
<1>1. /\ a \in Nat /\ b \in Nat /\ c \in Nat /\ Stores \in Nat
      /\ DOMAIN A = 1..a /\ DOMAIN B = 1..b /\ DOMAIN C = 1..c /\ DOMAIN Store = 1..Stores
  BY LenProperties DEF Stores
<1>2. /\ A \o B \in Seq(Write) /\ Len(A \o B) = a + b
      /\ \A i \in 1..(a + b) : (A \o B)[i] = IF i <= a THEN A[i] ELSE B[i - a]
  BY ConcatProperties
<1>3. /\ w \in Seq(Write) /\ Len(w) = a + b + c
      /\ \A i \in 1..(a + b + c) : w[i] = IF i <= a + b THEN (A \o B)[i] ELSE C[i - (a + b)]
  BY <1>2, ConcatProperties
<1> HIDE DEF w, a, b, c
<1>4. \A i \in 1..(a + b + c) :
        w[i].to = IF i <= a THEN "swriter"
                  ELSE IF i <= a + b THEN Store[i - a] ELSE Store[i - (a + b)]
  <2> TAKE i \in 1..(a + b + c)
  <2>1. CASE i <= a
    BY <1>1, <1>2, <1>3, <2>1
  <2>2. CASE ~(i <= a) /\ i <= a + b
    <3>1. i - a \in DOMAIN B /\ w[i] = B[i - a]
      <4>1. i \in 1..(a + b) /\ i - a \in 1..b
        BY <1>1, <2>2
      <4>2. w[i] = (A \o B)[i]
        BY <1>3, <2>2
      <4>3. (A \o B)[i] = B[i - a]
        BY <1>2, <2>2, <4>1
      <4> QED BY <1>1, <4>1, <4>2, <4>3
    <3> QED BY <1>1, <2>2, <3>1
  <2>3. CASE ~(i <= a) /\ ~(i <= a + b)
    <3>1. i - (a + b) \in DOMAIN C /\ w[i] = C[i - (a + b)]
      BY <1>1, <1>3, <2>3
    <3> QED BY <1>1, <2>3, <3>1
  <2> QED BY <2>1, <2>2, <2>3
<1>5. a \in {0, 1} /\ b \in {0, Stores} /\ c \in {0, Stores}
  BY DEF a, b, c
<1>6. "swriter" \notin StoreNames /\ \A i \in 1..Stores : Store[i] \in StoreNames
  BY ElementOfSeq DEF StoreNames, Stores
<1>7. Due(w) = b + c
  <2>1. CASE a + b + c = 0
    <3>1. w = <<>>
      BY <1>3, <2>1, EmptySeq
    <3> QED BY <1>1, <1>3, <2>1, <3>1 DEF Due
  <2>2. CASE a + b + c # 0
    <3>1. w # <<>> /\ Head(w) = w[1] /\ 1 \in 1..(a + b + c)
      BY <1>1, <1>3, <2>2, EmptySeq
    <3>2. CASE a = 1
      <4>1. Head(w).to = "swriter"
        BY <1>1, <1>4, <3>1, <3>2
      <4> QED BY <1>1, <1>3, <3>1, <3>2, <4>1 DEF Due
    <3>3. CASE a = 0
      <4>1. \E i \in 1..Stores : Head(w).to = Store[i]
        BY <1>1, <1>4, <1>5, <2>2, <3>1, <3>3
      <4>2. Head(w).to # "swriter"
        BY <1>6, <4>1
      <4> QED BY <1>1, <1>3, <3>1, <3>3, <4>2 DEF Due
    <3> QED BY <1>5, <3>2, <3>3
  <2> QED BY <2>1, <2>2
<1>8. Due(w) \in {0, Stores, Stores + Stores} /\ Due(w) <= Stores + Stores
  BY <1>1, <1>5, <1>7
<1>9. ASSUME NEW m \in 0..(Due(w) - 1)
      PROVE  w[Len(w) - m].to = Store[Turn(m)]
  <2> DEFINE i == Len(w) - m
  <2>1. i \in 1..(a + b + c) /\ ~(i <= a) /\ i = a + b + c - m /\ m \in Nat
    BY <1>1, <1>3, <1>5, <1>7
  <2> HIDE DEF i
  <2>2. CASE i <= a + b
    <3>1. w[i].to = Store[i - a] /\ m >= c /\ b # 0
      BY <1>1, <1>4, <2>1, <2>2
    <3>2. b = Stores /\ m < b + c /\ i - a = b + c - m
      BY <1>1, <1>5, <2>1, <3>1
    <3>3. ASSUME c = 0 PROVE i - a = Turn(m)
      BY <1>1, <2>1, <3>2, <3>3 DEF Turn
    <3>4. ASSUME c = Stores PROVE i - a = Turn(m)
      <4>1. ~(m < Stores)
        BY <1>1, <2>1, <3>1, <3>4
      <4> QED BY <1>1, <2>1, <3>2, <3>4, <4>1 DEF Turn
    <3>5. i - a = Turn(m)
      BY <1>5, <3>3, <3>4
    <3> QED BY <3>1, <3>5 DEF i
  <2>3. CASE ~(i <= a + b)
    <3>1. w[i].to = Store[i - (a + b)] /\ m < c
      BY <1>1, <1>4, <2>1, <2>3
    <3>2. i - (a + b) = Turn(m)
      BY <1>1, <1>5, <2>1, <2>3, <3>1 DEF Turn
    <3> QED BY <3>1, <3>2 DEF i
  <2> QED BY <2>2, <2>3
<1>10. GoesRound(w) /\ Due(w) \in {0, Stores, Stores + Stores}
  BY <1>8, <1>9 DEF GoesRound
<1> QED BY <1>10 DEF w

LEMMA WritesGoRound ==
  ASSUME NEW t \in Transaction, Store \in Seq(StoreNames),
         NEW dumped \in BOOLEAN, NEW filled \in BOOLEAN, NEW readable \in BOOLEAN
  PROVE  /\ GoesRound(Writes(t, dumped, filled, readable))
         /\ Due(Writes(t, dumped, filled, readable)) \in {0, Stores, Stores + Stores}
<1> DEFINE A == structuredWrite(t, filled, readable)
           dump == Dump(dumped)
           dump2 == Dump(TRUE)
           B == storeWriter(t, "request", dump)
           R == storeWriter(t, "response", dump2)
           C == IF filled THEN R ELSE <<>>
<1>1. A \in Seq(Write) /\ Len(A) \in {0, 1} /\ \A i \in DOMAIN A : A[i].to = "swriter"
  BY structuredWriteWrites
<1>2. dump \in Seq(Tokens) /\ dump2 \in Seq(Tokens)
  BY DumpType
<1>3. Writes(t, dumped, filled, readable) = (A \o B) \o C
  BY DEF Writes
<1> HIDE DEF A, dump, dump2
<1>4. /\ B \in Seq(Write) /\ Len(B) \in {0, Stores}
      /\ \A i \in DOMAIN B : B[i].to = Store[i]
  BY <1>2, storeWriterWrites, storeWriterLen
<1>5. /\ R \in Seq(Write) /\ Len(R) \in {0, Stores}
      /\ \A i \in DOMAIN R : R[i].to = Store[i]
  BY <1>2, storeWriterWrites, storeWriterLen
<1> HIDE DEF B, R
<1>6. /\ C \in Seq(Write) /\ Len(C) \in {0, Stores}
      /\ \A i \in DOMAIN C : C[i].to = Store[i]
  <2>1. CASE filled
    BY <1>5, <2>1
  <2>2. CASE ~filled
    BY <2>2
  <2> QED BY <2>1, <2>2
<1> HIDE DEF C
<1>7. /\ GoesRound((A \o B) \o C)
      /\ Due((A \o B) \o C) \in {0, Stores, Stores + Stores}
  BY <1>1, <1>4, <1>6, ConcatGoesRound
<1> QED BY <1>3, <1>7, Zenon

\* A call is due to the store whose turn it is, and then to the one after it.
LEMMA CallsStep ==
  ASSUME Stores \in Nat, NEW n \in 1..(Stores + Stores), NEW i \in 1..Stores
  PROVE  CallsTo(i, n) = CallsTo(i, n - 1) + IF i = Turn(n - 1) THEN 1 ELSE 0
<1>1. CASE n <= Stores
  BY <1>1 DEF CallsTo, Turn
<1>2. CASE ~(n <= Stores)
  BY <1>2 DEF CallsTo, Turn
<1> QED BY <1>1, <1>2

LEMMA ReceiveTurns ==
  ASSUME TypeOK, TakesTurns, Receive
  PROVE  TakesTurns'
<1> DEFINE t == Head(asyncqueue)
<1>1. /\ todo = <<>> /\ Store \in Seq(StoreNames) /\ tried \in [StoreNames -> Nat]
      /\ UNCHANGED <<Store, tried>>
      /\ asyncqueue \in Seq(Transaction) /\ asyncqueue # <<>>
  BY DEF Receive, TypeOK
<1>2. t \in Transaction
  BY <1>1, HeadTailProperties
<1>3. Stores \in Nat /\ DOMAIN Store = 1..Stores /\ \A i \in 1..Stores : Store[i] \in StoreNames
  BY <1>1, LenProperties, ElementOfSeq DEF Stores
<1>4. GoesRound(todo') /\ Due(todo') \in {0, Stores, Stores + Stores}
  <2>1. CASE todo' = <<>>
    BY <1>3, <2>1 DEF GoesRound, Due
  <2>2. ASSUME NEW d \in Fails("dump"), NEW f \in Fails("fill"), NEW r \in Fails("dump"),
               todo' = Writes(t, ~d, t.response /\ ~f, ~r)
        PROVE  GoesRound(todo') /\ Due(todo') \in {0, Stores, Stores + Stores}
    <3>1. (~d) \in BOOLEAN /\ (t.response /\ ~f) \in BOOLEAN /\ (~r) \in BOOLEAN
      OBVIOUS
    <3> HIDE DEF t
    <3>2. /\ GoesRound(Writes(t, ~d, t.response /\ ~f, ~r))
          /\ Due(Writes(t, ~d, t.response /\ ~f, ~r)) \in {0, Stores, Stores + Stores}
      BY <1>1, <1>2, <3>1, WritesGoRound, Zenon
    <3> QED BY <2>2, <3>2, Zenon
  <2>3. \/ todo' = <<>>
        \/ \E d \in Fails("dump"), f \in Fails("fill"), r \in Fails("dump") :
             todo' = Writes(t, ~d, t.response /\ ~f, ~r)
    BY DEF Receive
  <2> QED BY <2>1, <2>2, <2>3
<1>5. \A i, j \in 1..Stores : tried[Store[i]] = tried[Store[j]]
  <2>1. Due(todo) = 0
    BY <1>1 DEF Due
  <2>2. \A i \in 1..Stores : CallsTo(i, 0) = 0 /\ tried[Store[i]] \in Nat
    BY <1>1, <1>3 DEF CallsTo
  <2> QED BY <1>3, <2>1, <2>2 DEF TakesTurns, Balanced
<1>6. \A i, j \in 1..Stores : CallsTo(i, Due(todo')) = CallsTo(j, Due(todo'))
  <2> DEFINE n == Due(todo')
  <2>1. n \in {0, Stores, Stores + Stores}
    BY <1>4
  <2> HIDE DEF n
  <2>2. \A i, j \in 1..Stores : CallsTo(i, n) = CallsTo(j, n)
    BY <1>3, <2>1 DEF CallsTo
  <2> QED BY <2>2 DEF n
<1>7. Stores' = Stores /\ \A i, n : CallsTo(i, n)' = CallsTo(i, n)
  BY <1>1 DEF Stores, CallsTo
<1>8. GoesRound(todo)'
  BY <1>1, <1>4 DEF GoesRound, Due, Turn, Stores
<1>9. Balanced'
  <2>1. Due(todo)' = Due(todo')
    BY DEF Due
  <2> SUFFICES ASSUME NEW i \in 1..Stores, NEW j \in 1..Stores
               PROVE  tried[Store[i]] + CallsTo(i, Due(todo')) = tried[Store[j]] + CallsTo(j, Due(todo'))
    <3>1. Len(Store') = Stores /\ DOMAIN Store' = 1..Stores
      BY <1>1, <1>3 DEF Stores
    <3>2. \A k \in 1..Stores : CallsTo(k, Due(todo))' = CallsTo(k, Due(todo'))
      BY <1>7, <2>1 DEF CallsTo
    <3>3. Balanced' <=> \A k, l \in DOMAIN Store' :
            tried'[Store'[k]] + CallsTo(k, Due(todo))' = tried'[Store'[l]] + CallsTo(l, Due(todo))'
      BY DEF Balanced
    <3> QED BY <1>1, <3>1, <3>2, <3>3
  <2>2. \A k \in 1..Stores : tried[Store[k]] \in Nat /\ CallsTo(k, Due(todo')) \in Nat
    BY <1>1, <1>3 DEF CallsTo
  <2> QED BY <1>5, <1>6, <2>2
<1> QED BY <1>8, <1>9 DEF TakesTurns

LEMMA WriteTurns ==
  ASSUME TypeOK, TakesTurns, WriteStructured \/ Save \/ SaveFails,
         \A i, j \in DOMAIN Store : i # j => Store[i] # Store[j]
  PROVE  TakesTurns'
<1> DEFINE n == Len(todo)
           q == Due(todo)
<1>1. /\ todo \in Seq(Write) /\ todo # <<>> /\ todo' = Tail(todo)
      /\ Store \in Seq(StoreNames) /\ tried \in [StoreNames -> Nat]
      /\ UNCHANGED Store
  BY WritesAreDone DEF TypeOK, Done
<1>2. /\ n \in Nat \ {0} /\ Head(todo) = todo[1]
      /\ todo' \in Seq(Write) /\ Len(todo') = n - 1
      /\ \A i \in 1..(n - 1) : todo'[i] = todo[i + 1]
  BY <1>1, HeadTailProperties, EmptySeq
<1>3. Stores \in Nat /\ DOMAIN Store = 1..Stores /\ \A i \in 1..Stores : Store[i] \in StoreNames
  BY <1>1, LenProperties, ElementOfSeq DEF Stores
<1>4. q = (IF todo[1].to = "swriter" THEN n - 1 ELSE n)
  BY <1>1, <1>2 DEF Due
<1>5. /\ q <= Stores + Stores
      /\ \A m \in 0..(q - 1) : todo[n - m].to = Store[Turn(m)]
  BY DEF TakesTurns, GoesRound
<1>6. "swriter" \notin StoreNames /\ \A m \in 0..(Stores + Stores - 1) : Turn(m) \in 1..Stores
  BY <1>3 DEF StoreNames, Turn
<1> HIDE DEF n, q
<1>7. Due(todo') = n - 1
  <2>1. CASE n = 1
    BY <1>2, <2>1, EmptySeq DEF Due
  <2>2. CASE n > 1
    <3>1. todo' # <<>> /\ Head(todo') = todo'[1] /\ todo'[1] = todo[2]
      BY <1>2, <2>2, EmptySeq
    <3>2. todo[2].to = Store[Turn(n - 2)]
      <4>1. n - 2 \in 0..(q - 1) /\ n - (n - 2) = 2
        BY <1>2, <1>4, <2>2
      <4> QED BY <1>5, <4>1
    <3>3. todo[2].to \in StoreNames
      <4>1. n - 2 \in 0..(Stores + Stores - 1)
        BY <1>2, <1>3, <1>4, <1>5, <2>2
      <4> QED BY <1>3, <1>6, <3>2, <4>1
    <3> QED BY <1>2, <1>6, <3>1, <3>3 DEF Due
  <2> QED BY <1>2, <2>1, <2>2
<1>8. GoesRound(todo')
  <2>1. n - 1 <= Stores + Stores
    BY <1>2, <1>3, <1>4, <1>5
  <2>2. ASSUME NEW m \in 0..(n - 2)
        PROVE  todo'[(n - 1) - m].to = Store[Turn(m)]
    <3>1. (n - 1) - m \in 1..(n - 1) /\ ((n - 1) - m) + 1 = n - m /\ m \in 0..(q - 1)
      BY <1>2, <1>4
    <3>2. todo'[(n - 1) - m] = todo[((n - 1) - m) + 1]
      BY <1>2, <3>1
    <3> QED BY <1>5, <3>1, <3>2
  <2> QED BY <1>2, <1>7, <2>1, <2>2 DEF GoesRound
<1>9. Stores' = Stores /\ \A i, k : CallsTo(i, k)' = CallsTo(i, k)
  BY <1>1 DEF Stores, CallsTo
<1>10. GoesRound(todo)'
  BY <1>1, <1>8 DEF GoesRound, Due, Turn, Stores
<1>11. \A i, j \in 1..Stores : tried[Store[i]] + CallsTo(i, q) = tried[Store[j]] + CallsTo(j, q)
  BY <1>3 DEF TakesTurns, Balanced, q
<1>12. \A i, j \in 1..Stores :
         tried'[Store[i]] + CallsTo(i, n - 1) = tried'[Store[j]] + CallsTo(j, n - 1)
  <2>1. CASE WriteStructured
    <3>1. tried' = tried /\ q = n - 1
      BY <1>2, <1>4, <2>1, WritesAreDone DEF WriteStructured
    <3> QED BY <1>11, <3>1
  <2>2. CASE Save \/ SaveFails
    <3>1. todo[1].to \in StoreNames /\ tried' = [tried EXCEPT ![todo[1].to] = @ + 1]
      BY <1>2, <2>2, WritesAreDone
    <3>2. q = n /\ n \in 1..(Stores + Stores) /\ n - 1 \in 0..(q - 1)
      BY <1>2, <1>3, <1>4, <1>5, <1>6, <3>1
    <3>3. todo[1].to = Store[Turn(n - 1)] /\ Turn(n - 1) \in 1..Stores
      <4>1. n - (n - 1) = 1 /\ n - 1 \in 0..(Stores + Stores - 1)
        BY <1>2, <1>3, <3>2
      <4> QED BY <1>5, <1>6, <3>2, <4>1
    <3>4. \A i \in 1..Stores : /\ tried[Store[i]] \in Nat
                               /\ tried'[Store[i]] = tried[Store[i]] + IF i = Turn(n - 1) THEN 1 ELSE 0
      <4> DEFINE x == todo[1].to
                 m == Turn(n - 1)
      <4>1. x = Store[m] /\ m \in 1..Stores /\ x \in StoreNames /\ tried' = [tried EXCEPT ![x] = @ + 1]
        BY <3>1, <3>3
      <4> HIDE DEF x, m
      <4>2. ASSUME NEW i \in 1..Stores
            PROVE  /\ tried[Store[i]] \in Nat
                   /\ tried'[Store[i]] = tried[Store[i]] + IF i = m THEN 1 ELSE 0
        <5>1. Store[i] \in StoreNames /\ tried[Store[i]] \in Nat
          BY <1>1, <1>3
        <5>2. CASE i = m
          BY <1>1, <4>1, <5>1, <5>2
        <5>3. CASE i # m
          <6>1. Store[i] # x
            BY <1>3, <4>1, <5>3
          <6> QED BY <1>1, <4>1, <5>1, <5>3, <6>1
        <5> QED BY <5>2, <5>3
      <4> QED BY <4>2 DEF m
    <3>5. \A i \in 1..Stores : /\ CallsTo(i, n) = CallsTo(i, n - 1) + IF i = Turn(n - 1) THEN 1 ELSE 0
                               /\ CallsTo(i, n - 1) \in Nat
      BY <1>3, <3>2, CallsStep DEF CallsTo
    <3>6. \A i \in 1..Stores : tried'[Store[i]] + CallsTo(i, n - 1) = tried[Store[i]] + CallsTo(i, q)
      BY <3>2, <3>4, <3>5
    <3> QED BY <1>11, <3>6
  <2> QED BY <2>1, <2>2
<1>13. Balanced'
  <2>1. Due(todo)' = n - 1
    BY <1>7 DEF Due
  <2>2. Len(Store') = Stores /\ DOMAIN Store' = 1..Stores
    BY <1>1, <1>3 DEF Stores
  <2> SUFFICES ASSUME NEW i \in 1..Stores, NEW j \in 1..Stores
               PROVE  tried'[Store[i]] + CallsTo(i, n - 1) = tried'[Store[j]] + CallsTo(j, n - 1)
    <3>1. \A k \in 1..Stores : CallsTo(k, Due(todo))' = CallsTo(k, n - 1)
      BY <1>9, <2>1 DEF CallsTo
    <3>2. Balanced' <=> \A k, l \in DOMAIN Store' :
            tried'[Store'[k]] + CallsTo(k, Due(todo))' = tried'[Store'[l]] + CallsTo(l, Due(todo))'
      BY DEF Balanced
    <3> QED BY <1>1, <2>2, <3>1, <3>2
  <2> QED BY <1>12
<1> QED BY <1>10, <1>13 DEF TakesTurns

\* A store that fails does not cost the others a document: at every moment the loop
\* has called all stores equally often, but for the document it goes round with.
THEOREM StoresAreEven == Spec => []EvenHanded
<1>1. Init => TypeOK /\ TakesTurns
  <2> SUFFICES ASSUME Init, TypeOK PROVE TakesTurns
    BY InitType
  <2>1. todo = <<>> /\ tried = [s \in StoreNames |-> 0] /\ Store \in Seq(StoreNames)
    BY DEF Init, NewLogger, TypeOK
  <2>2. Due(todo) = 0 /\ \A i \in DOMAIN Store : tried[Store[i]] = 0
    BY <2>1, ElementOfSeq DEF Due
  <2>3. Stores \in Nat /\ DOMAIN Store = 1..Stores
    BY <2>1, LenProperties DEF Stores
  <2>4. \A i \in DOMAIN Store : CallsTo(i, 0) = 0
    BY <2>3 DEF CallsTo
  <2> QED BY <2>2, <2>3, <2>4 DEF TakesTurns, GoesRound, Balanced
<1>2. TypeOK /\ OneLog /\ TakesTurns /\ [Next]_vars => TakesTurns'
  <2> SUFFICES ASSUME TypeOK, OneLog, TakesTurns, [Next]_vars PROVE TakesTurns'
    OBVIOUS
  <2>1. CASE UNCHANGED <<Store, todo, tried>>
    BY <2>1 DEF TakesTurns, GoesRound, Balanced, Due, Turn, CallsTo, Stores
  <2>2. CASE Receive
    BY <2>2, ReceiveTurns
  <2>3. CASE WriteStructured \/ Save \/ SaveFails
    <3>1. \A i, j \in DOMAIN Store : i # j => Store[i] # Store[j]
      BY DEF OneLog, StoresDistinct
    <3> QED BY <2>3, <3>1, WriteTurns
  <2> QED BY <2>1, <2>2, <2>3 DEF Next, vars, Caller, LogRequest, LogResponse, Send, SendOnClosed,
             CloseWriter, CloseQueue, Halt, AsyncWrite, AsyncWriteReturns
<1>3. TypeOK /\ TakesTurns => EvenHanded
  <2> SUFFICES ASSUME TypeOK, TakesTurns, NEW i \in DOMAIN Store, NEW j \in DOMAIN Store, i < j
               PROVE  /\ tried[Store[i]] - tried[Store[j]] \in {0, 1}
                      /\ todo = <<>> => tried[Store[i]] = tried[Store[j]]
    BY DEF EvenHanded
  <2> DEFINE n == Due(todo)
  <2>1. /\ Store \in Seq(StoreNames) /\ tried \in [StoreNames -> Nat]
        /\ todo \in Seq(Write)
    BY DEF TypeOK, Write
  <2>2. Stores \in Nat /\ DOMAIN Store = 1..Stores /\ i \in 1..Stores /\ j \in 1..Stores
    BY <2>1, LenProperties DEF Stores
  <2>3. tried[Store[i]] \in Nat /\ tried[Store[j]] \in Nat
    BY <2>1, <2>2, ElementOfSeq DEF Stores
  <2>4. tried[Store[i]] + CallsTo(i, n) = tried[Store[j]] + CallsTo(j, n)
    BY DEF TakesTurns, Balanced
  <2>5. n \in Int /\ n <= Stores + Stores
    BY <2>1, LenProperties DEF TakesTurns, GoesRound, Due
  <2>6. todo = <<>> => n = 0
    BY DEF Due
  <2> HIDE DEF n
  <2>7. CallsTo(j, n) - CallsTo(i, n) \in {0, 1} /\ CallsTo(i, n) \in Nat /\ CallsTo(j, n) \in Nat
    BY <2>2, <2>5 DEF CallsTo
  <2>8. n = 0 => CallsTo(i, n) = CallsTo(j, n)
    BY <2>2 DEF CallsTo
  <2>9. tried[Store[i]] - tried[Store[j]] = CallsTo(j, n) - CallsTo(i, n)
    BY <2>3, <2>4, <2>7
  <2> QED BY <2>3, <2>4, <2>6, <2>7, <2>8, <2>9
<1>4. Spec => []TypeOK
  BY TypeCorrect
<1>5. Spec => []OneLog
  BY LogIsOne
<1> QED BY <1>1, <1>2, <1>3, <1>4, <1>5, PTL DEF Spec

=============================================================================
