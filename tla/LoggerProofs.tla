---------------------------- MODULE LoggerProofs ----------------------------
(***************************************************************************)
(* Proofs about the traffic logger, for every configuration, capacity,     *)
(* number of transactions and set of failures: its type invariant, and     *)
(* that each target gets the documents in the order of submission.         *)
(***************************************************************************)
EXTENDS Logger, SequenceTheorems, TLAPS

-----------------------------------------------------------------------------
(* What AsyncWrite owes: types and contents of the writes *)

Write == [to : Targets, doc : Document]

LEMMA TruncateType ==
  ASSUME NEW s \in Seq(Tokens)
  PROVE  Truncate(s) \in Seq(Tokens)
<1>1. CASE MaxSize > 0 /\ Len(s) > MaxSize
  <2>1. MaxSize \in Int /\ \A i \in 1..MaxSize : s[i] \in Tokens
    BY <1>1, LoggerAssumption
  <2>2. SubSeq(s, 1, MaxSize) \in Seq(Tokens)
    BY <2>1, SubSeqProperties
  <2> QED BY <1>1, <2>2 DEF Truncate
<1>2. CASE ~(MaxSize > 0 /\ Len(s) > MaxSize)
  BY <1>2 DEF Truncate
<1> QED BY <1>1, <1>2

LEMMA PairIsSeq == ASSUME NEW S, NEW a \in S, NEW b \in S PROVE <<a, b>> \in Seq(S)
OBVIOUS

LEMMA DumpType ==
  /\ <<"head", "body">> \in Seq(Tokens)
  /\ \A ok \in BOOLEAN : Dump(ok) \in Seq(Tokens)
<1>1. <<"head", "body">> \in Seq(Tokens)
  <2>1. "head" \in Tokens /\ "body" \in Tokens
    BY DEF Tokens
  <2> QED BY <2>1, PairIsSeq
<1>2. <<>> \in Seq(Tokens)
  OBVIOUS
<1> QED BY <1>1, <1>2 DEF Dump

LEMMA StoreDocumentType ==
  ASSUME NEW t \in Transaction, NEW part \in {"request", "response"}, NEW dump \in Seq(Tokens)
  PROVE  /\ StoreDocument(t, part, dump) \in Document
         /\ StoreDocument(t, part, dump).seq = t.seq
         /\ StoreDocument(t, part, dump).part = part
<1>1. StoreName(t, part) \in Name
  BY DEF StoreName, Name, Transaction
<1>2. <<"nl">> \in Seq(Tokens) /\ <<>> \in Seq(Tokens)
  BY DEF Tokens
<1>3. (IF part = "response" THEN <<"nl">> ELSE <<>>) \in Seq(Tokens)
  BY <1>2
<1>4. ((IF part = "response" THEN <<"nl">> ELSE <<>>) \o dump) \o <<"nl">> \in Seq(Tokens)
  BY <1>2, <1>3, ConcatProperties
<1>5. Truncate(((IF part = "response" THEN <<"nl">> ELSE <<>>) \o dump) \o <<"nl">>) \in Seq(Tokens)
  BY <1>4, TruncateType
<1>6. Truncate(<<"nl">>) \in Seq(Tokens)
  BY <1>2, TruncateType
<1>7. t.seq \in Nat /\ t.id \in Ids /\ t.match \in Verdicts /\ part \in Parts
  BY DEF Transaction, Parts
<1> QED BY <1>1, <1>5, <1>6, <1>7 DEF StoreDocument, Document

LEMMA storeWriterWrites ==
  ASSUME NEW t \in Transaction, NEW part \in {"request", "response"}, NEW dump \in Seq(Tokens),
         Store \in Seq(StoreNames)
  PROVE  /\ storeWriter(t, part, dump) \in Seq(Write)
         /\ \A i \in DOMAIN storeWriter(t, part, dump) :
              /\ i \in DOMAIN Store
              /\ storeWriter(t, part, dump)[i].to = Store[i]
              /\ storeWriter(t, part, dump)[i].doc.seq = t.seq
              /\ storeWriter(t, part, dump)[i].doc.part = part
<1> DEFINE D == StoreDocument(t, part, dump)
           W == [i \in 1..Len(Store) |-> [to |-> Store[i], doc |-> D]]
<1>1. D \in Document /\ D.seq = t.seq /\ D.part = part
  BY StoreDocumentType
<1> HIDE DEF D
<1>2. \A i \in 1..Len(Store) : [to |-> Store[i], doc |-> D] \in Write
  BY <1>1 DEF Write, Targets
<1>3. W \in Seq(Write)
  BY <1>2
<1>4. CASE Selected(part)
  <2>1. storeWriter(t, part, dump) = W
    BY <1>4 DEF storeWriter, D
  <2>2. \A i \in 1..Len(Store) : W[i].to = Store[i] /\ W[i].doc = D
    OBVIOUS
  <2> QED BY <1>1, <1>3, <2>1, <2>2
<1>5. CASE ~Selected(part)
  BY <1>5 DEF storeWriter
<1> QED BY <1>4, <1>5

LEMMA structuredWriteWrites ==
  ASSUME NEW t \in Transaction, NEW filled \in BOOLEAN, NEW readable \in BOOLEAN
  PROVE  /\ structuredWrite(t, filled, readable) \in Seq(Write)
         /\ Len(structuredWrite(t, filled, readable)) \in {0, 1}
         /\ \A i \in DOMAIN structuredWrite(t, filled, readable) :
              /\ structuredWrite(t, filled, readable)[i].to = "swriter"
              /\ structuredWrite(t, filled, readable)[i].doc.seq = t.seq
<1> DEFINE d == [seq |-> t.seq, id |-> t.id, match |-> t.match, part |-> "pair",
                 name |-> [id |-> t.id, suffix |-> "", match |-> FALSE],
                 raw |-> <<>>, data |-> <<"head", "body">>]
           w == [to |-> "swriter", doc |-> d]
<1>1. [id |-> t.id, suffix |-> "", match |-> FALSE] \in Name
  BY DEF Name, Transaction
<1>2. <<>> \in Seq(Tokens) /\ <<"head", "body">> \in Seq(Tokens)
  BY DumpType
<1>3. d \in Document /\ d.seq = t.seq
  BY <1>1, <1>2 DEF Document, Transaction, Parts
<1> HIDE DEF d
<1>4. w \in Write /\ w.to = "swriter" /\ w.doc.seq = t.seq
  BY <1>3 DEF Write, Targets
<1>5. structuredWrite(t, filled, readable) \in {<<w>>, <<>>}
  BY DEF structuredWrite, d
<1> HIDE DEF w
<1>6. CASE structuredWrite(t, filled, readable) = <<w>>
  <2>1. <<w>> \in Seq(Write) /\ Len(<<w>>) = 1 /\ DOMAIN <<w>> = {1} /\ <<w>>[1] = w
    BY <1>4
  <2> QED BY <1>4, <1>6, <2>1
<1>7. CASE structuredWrite(t, filled, readable) = <<>>
  BY <1>7
<1> QED BY <1>5, <1>6, <1>7

\* In a sequence of writes, a target gets at most a request and then a response.
RequestFirst(w) ==
  \A i, j \in DOMAIN w : (i < j /\ w[i].to = w[j].to) =>
    w[i].doc.part # "response" /\ w[j].doc.part = "response"

LEMMA RequestFirstConcat ==
  ASSUME NEW v \in Seq(Write), NEW w \in Seq(Write), RequestFirst(v), RequestFirst(w),
         \A i \in DOMAIN v, j \in DOMAIN w :
           v[i].to = w[j].to => v[i].doc.part # "response" /\ w[j].doc.part = "response"
  PROVE  RequestFirst(v \o w)
<1>1. DOMAIN (v \o w) = 1..(Len(v) + Len(w))
  BY ConcatProperties, LenProperties
<1>2. \A i \in 1..(Len(v) + Len(w)) :
        (v \o w)[i] = IF i <= Len(v) THEN v[i] ELSE w[i - Len(v)]
  BY ConcatProperties
<1>3. Len(v) \in Nat /\ Len(w) \in Nat /\ DOMAIN v = 1..Len(v) /\ DOMAIN w = 1..Len(w)
  BY LenProperties
<1>4. SUFFICES ASSUME NEW i \in 1..(Len(v) + Len(w)), NEW j \in 1..(Len(v) + Len(w)),
                      i < j, (v \o w)[i].to = (v \o w)[j].to
               PROVE  (v \o w)[i].doc.part # "response" /\ (v \o w)[j].doc.part = "response"
  BY <1>1 DEF RequestFirst
<1>5. CASE j <= Len(v)
  <2>1. i \in DOMAIN v /\ j \in DOMAIN v /\ (v \o w)[i] = v[i] /\ (v \o w)[j] = v[j]
    BY <1>2, <1>3, <1>4, <1>5
  <2> QED BY <1>4, <2>1 DEF RequestFirst
<1>6. CASE i <= Len(v) /\ ~(j <= Len(v))
  <2>1. i \in DOMAIN v /\ j - Len(v) \in DOMAIN w
        /\ (v \o w)[i] = v[i] /\ (v \o w)[j] = w[j - Len(v)]
    BY <1>2, <1>3, <1>4, <1>6
  <2> QED BY <1>4, <2>1
<1>7. CASE ~(i <= Len(v)) /\ ~(j <= Len(v))
  <2>1. i - Len(v) \in DOMAIN w /\ j - Len(v) \in DOMAIN w /\ i - Len(v) < j - Len(v)
        /\ (v \o w)[i] = w[i - Len(v)] /\ (v \o w)[j] = w[j - Len(v)]
    BY <1>2, <1>3, <1>4, <1>7
  <2> QED BY <1>4, <2>1 DEF RequestFirst
<1> QED BY <1>3, <1>4, <1>5, <1>6, <1>7

LEMMA WritesType ==
  ASSUME NEW t \in Transaction, Store \in Seq(StoreNames),
         NEW dumped \in BOOLEAN, NEW filled \in BOOLEAN, NEW readable \in BOOLEAN
  PROVE  /\ Writes(t, dumped, filled, readable) \in Seq(Write)
         /\ \A i \in DOMAIN Writes(t, dumped, filled, readable) :
              Writes(t, dumped, filled, readable)[i].doc.seq = t.seq
         /\ StoresDistinct => RequestFirst(Writes(t, dumped, filled, readable))
<1> DEFINE A == structuredWrite(t, filled, readable)
           B == storeWriter(t, "request", Dump(dumped))
           R == storeWriter(t, "response", Dump(TRUE))
           C == IF filled THEN R ELSE <<>>
<1>1. /\ A \in Seq(Write) /\ Len(A) \in {0, 1}
      /\ \A i \in DOMAIN A : A[i].to = "swriter" /\ A[i].doc.seq = t.seq
  BY structuredWriteWrites
<1>2. Dump(dumped) \in Seq(Tokens) /\ Dump(TRUE) \in Seq(Tokens)
  BY DumpType
<1>3. /\ B \in Seq(Write)
      /\ \A i \in DOMAIN B : /\ i \in DOMAIN Store /\ B[i].to = Store[i]
                             /\ B[i].doc.seq = t.seq /\ B[i].doc.part = "request"
  BY <1>2, storeWriterWrites
<1>R. /\ R \in Seq(Write)
      /\ \A i \in DOMAIN R : /\ i \in DOMAIN Store /\ R[i].to = Store[i]
                             /\ R[i].doc.seq = t.seq /\ R[i].doc.part = "response"
  <2> DEFINE dump == Dump(TRUE)
  <2>1. dump \in Seq(Tokens)
    BY <1>2
  <2> DEFINE W(x) == storeWriter(t, "response", x)
  <2>2. ASSUME NEW x \in Seq(Tokens)
        PROVE  /\ W(x) \in Seq(Write)
               /\ \A i \in DOMAIN W(x) : /\ i \in DOMAIN Store /\ W(x)[i].to = Store[i]
                                         /\ W(x)[i].doc.seq = t.seq
                                         /\ W(x)[i].doc.part = "response"
    BY storeWriterWrites
  <2> HIDE DEF W
  <2>3. R = W(dump)
    BY DEF W
  <2> HIDE DEF dump, R
  <2> QED BY <2>1, <2>2, <2>3
<1>4. /\ C \in Seq(Write)
      /\ \A i \in DOMAIN C : /\ i \in DOMAIN Store /\ C[i].to = Store[i]
                             /\ C[i].doc.seq = t.seq /\ C[i].doc.part = "response"
  <2> HIDE DEF R
  <2>1. CASE filled
    BY <1>R, <2>1
  <2>2. CASE ~filled
    BY <2>2
  <2> QED BY <2>1, <2>2
<1>5. Writes(t, dumped, filled, readable) = (A \o B) \o C
  BY DEF Writes
<1> HIDE DEF A, B, C, R
<1>6. A \o B \in Seq(Write) /\ (A \o B) \o C \in Seq(Write)
  BY <1>1, <1>3, <1>4, ConcatProperties
<1>7. \A i \in DOMAIN (A \o B) :
        \/ (A \o B)[i].to = "swriter" /\ (A \o B)[i].doc.seq = t.seq
        \/ \E k \in DOMAIN B : (A \o B)[i] = B[k]
  <2>1. DOMAIN (A \o B) = 1..(Len(A) + Len(B)) /\ Len(A) \in Nat /\ Len(B) \in Nat
        /\ DOMAIN A = 1..Len(A) /\ DOMAIN B = 1..Len(B)
    BY <1>1, <1>3, <1>6, ConcatProperties, LenProperties
  <2>2. \A i \in 1..(Len(A) + Len(B)) :
          (A \o B)[i] = IF i <= Len(A) THEN A[i] ELSE B[i - Len(A)]
    BY <1>1, <1>3, ConcatProperties
  <2> TAKE i \in DOMAIN (A \o B)
  <2>3. CASE i <= Len(A)
    BY <1>1, <2>1, <2>2, <2>3
  <2>4. CASE ~(i <= Len(A))
    <3>1. i - Len(A) \in DOMAIN B /\ (A \o B)[i] = B[i - Len(A)]
      BY <2>1, <2>2, <2>4
    <3> QED BY <3>1
  <2> QED BY <2>3, <2>4
<1>8. \A i \in DOMAIN ((A \o B) \o C) : ((A \o B) \o C)[i].doc.seq = t.seq
  <2>1. DOMAIN ((A \o B) \o C) = 1..(Len(A \o B) + Len(C)) /\ Len(A \o B) \in Nat
        /\ Len(C) \in Nat /\ DOMAIN (A \o B) = 1..Len(A \o B) /\ DOMAIN C = 1..Len(C)
    BY <1>4, <1>6, ConcatProperties, LenProperties
  <2>2. \A i \in 1..(Len(A \o B) + Len(C)) :
          ((A \o B) \o C)[i] = IF i <= Len(A \o B) THEN (A \o B)[i] ELSE C[i - Len(A \o B)]
    BY <1>4, <1>6, ConcatProperties
  <2>3. \A i \in DOMAIN (A \o B) : (A \o B)[i].doc.seq = t.seq
    BY <1>3, <1>7
  <2> TAKE i \in DOMAIN ((A \o B) \o C)
  <2>4. CASE i <= Len(A \o B)
    BY <2>1, <2>2, <2>3, <2>4
  <2>5. CASE ~(i <= Len(A \o B))
    <3>1. i - Len(A \o B) \in DOMAIN C /\ ((A \o B) \o C)[i] = C[i - Len(A \o B)]
      BY <2>1, <2>2, <2>5
    <3> QED BY <1>4, <3>1
  <2> QED BY <2>4, <2>5
<1>9. ASSUME StoresDistinct
      PROVE  RequestFirst((A \o B) \o C)
  <2>1. RequestFirst(A)
    BY <1>1, LenProperties DEF RequestFirst
  <2>2. RequestFirst(B) /\ RequestFirst(C)
    <3>1. \A i, j \in DOMAIN Store : i < j => Store[i] # Store[j]
      BY <1>9, LenProperties DEF StoresDistinct
    <3> QED BY <1>3, <1>4, <3>1 DEF RequestFirst
  <2>3. "swriter" \notin StoreNames /\ \A i \in DOMAIN Store : Store[i] \in StoreNames
    BY LenProperties DEF StoreNames
  <2>4. \A i \in DOMAIN A, j \in DOMAIN B : A[i].to # B[j].to
    BY <1>1, <1>3, <2>3
  <2>5. RequestFirst(A \o B)
    BY <1>1, <1>3, <2>1, <2>2, <2>4, RequestFirstConcat
  <2>6. \A i \in DOMAIN (A \o B), j \in DOMAIN C : (A \o B)[i].to = C[j].to =>
          (A \o B)[i].doc.part # "response" /\ C[j].doc.part = "response"
    BY <1>3, <1>4, <1>7, <2>3
  <2> QED BY <1>4, <1>6, <2>2, <2>5, <2>6, RequestFirstConcat
<1> QED BY <1>5, <1>6, <1>8, <1>9

LEMMA ConcatAt ==
  ASSUME NEW S, NEW v \in Seq(S), NEW w \in Seq(S)
  PROVE  /\ \A i \in DOMAIN v : i \in DOMAIN (v \o w) /\ (v \o w)[i] = v[i]
         /\ \A i \in DOMAIN w : Len(v) + i \in DOMAIN (v \o w) /\ (v \o w)[Len(v) + i] = w[i]
         /\ \A i \in DOMAIN (v \o w) :
              \/ i \in DOMAIN v
              \/ i - Len(v) \in DOMAIN w /\ i = Len(v) + (i - Len(v))
<1>1. /\ DOMAIN (v \o w) = 1..(Len(v) + Len(w)) /\ Len(v) \in Nat /\ Len(w) \in Nat
      /\ DOMAIN v = 1..Len(v) /\ DOMAIN w = 1..Len(w)
      /\ \A i \in 1..(Len(v) + Len(w)) :
           (v \o w)[i] = IF i <= Len(v) THEN v[i] ELSE w[i - Len(v)]
  BY ConcatProperties, LenProperties
<1>2. \A i \in DOMAIN w : Len(v) + i \in DOMAIN (v \o w) /\ (v \o w)[Len(v) + i] = w[i]
  <2> TAKE i \in DOMAIN w
  <2>1. i \in Nat /\ i > 0 /\ Len(v) + i \in 1..(Len(v) + Len(w)) /\ (Len(v) + i) - Len(v) = i
    BY <1>1
  <2> QED BY <1>1, <2>1
<1>3. \A i \in DOMAIN (v \o w) :
        \/ i \in DOMAIN v
        \/ i - Len(v) \in DOMAIN w /\ i = Len(v) + (i - Len(v))
  BY <1>1
<1>4. \A i \in DOMAIN v : i \in DOMAIN (v \o w) /\ (v \o w)[i] = v[i]
  BY <1>1
<1> QED BY <1>2, <1>3, <1>4

\* What a write says of the transaction it was made for.
Tells(w, t, filled) ==
  /\ w.doc.id = t.id /\ w.doc.match = t.match
  /\ w.to = "swriter" => w.doc.part = "pair" /\ t.match # "false"
  /\ w.to = "swriter" \/ w.doc.part = "response" => filled
  /\ w.to # "swriter" => w.doc.name = StoreName(w.doc, w.doc.part)

LEMMA storeWriterTells ==
  ASSUME NEW t \in Transaction, NEW part \in {"request", "response"}, NEW dump,
         NEW filled \in BOOLEAN, part = "response" => filled, Store \in Seq(StoreNames)
  PROVE  \A i \in DOMAIN storeWriter(t, part, dump) :
           Tells(storeWriter(t, part, dump)[i], t, filled)
<1> DEFINE D == StoreDocument(t, part, dump)
<1>1. D.id = t.id /\ D.match = t.match /\ D.part = part /\ D.name = StoreName(t, part)
  BY DEF StoreDocument
<1> HIDE DEF D
<1>2. StoreName(D, D.part) = StoreName(t, part)
  BY <1>1 DEF StoreName
<1>3. CASE Selected(part)
  <2>1. storeWriter(t, part, dump) = [i \in 1..Len(Store) |-> [to |-> Store[i], doc |-> D]]
    BY <1>3 DEF storeWriter, D
  <2>2. \A i \in 1..Len(Store) : Store[i] # "swriter"
    BY ElementOfSeq DEF StoreNames
  <2>3. ASSUME NEW i \in 1..Len(Store)
        PROVE  Tells([to |-> Store[i], doc |-> D], t, filled)
    <3>1. Store[i] # "swriter"
      BY <2>2
    <3> HIDE DEF D
    <3> QED BY <1>1, <1>2, <3>1 DEF Tells
  <2> QED BY <2>1, <2>3
<1>4. CASE ~Selected(part)
  BY <1>4 DEF storeWriter
<1> QED BY <1>3, <1>4

LEMMA structuredWriteTells ==
  ASSUME NEW t \in Transaction, NEW filled \in BOOLEAN, NEW readable \in BOOLEAN
  PROVE  /\ \A i \in DOMAIN structuredWrite(t, filled, readable) :
              Tells(structuredWrite(t, filled, readable)[i], t, filled)
         /\ (sWriter # "nil" /\ t.match # "false" /\ filled /\ readable) =>
              1 \in DOMAIN structuredWrite(t, filled, readable)
<1> DEFINE d == [seq |-> t.seq, id |-> t.id, match |-> t.match, part |-> "pair",
                 name |-> [id |-> t.id, suffix |-> "", match |-> FALSE],
                 raw |-> <<>>, data |-> <<"head", "body">>]
           w == [to |-> "swriter", doc |-> d]
           goes == sWriter # "nil" /\ t.match # "false" /\ filled /\ readable
<1>1. d.id = t.id /\ d.match = t.match /\ d.part = "pair"
  OBVIOUS
<1>2. structuredWrite(t, filled, readable) = IF goes THEN <<w>> ELSE <<>>
  BY DEF structuredWrite
<1> HIDE DEF d
<1>3. goes => Tells(w, t, filled)
  BY <1>1 DEF Tells
<1> HIDE DEF w
<1>4. DOMAIN <<w>> = {1} /\ <<w>>[1] = w
  OBVIOUS
<1>5. CASE goes
  BY <1>2, <1>3, <1>4, <1>5
<1>6. CASE ~goes
  BY <1>2, <1>6
<1> QED BY <1>5, <1>6

\* The writes for a transaction tell nothing but what it says; the structured entry
\* is there when it is due, and without a dump flag the request goes to a store
\* before the response does.
LEMMA WritesTell ==
  ASSUME NEW t \in Transaction, Store \in Seq(StoreNames),
         NEW dumped \in BOOLEAN, NEW filled \in BOOLEAN, NEW readable \in BOOLEAN
  PROVE  LET W == Writes(t, dumped, filled, readable) IN
         /\ \A i \in DOMAIN W : Tells(W[i], t, filled)
         /\ (sWriter # "nil" /\ t.match # "false" /\ filled /\ readable) =>
              \E i \in DOMAIN W : W[i].to = "swriter"
         /\ (~DumpRequest /\ ~DumpResponse) =>
              \A i \in DOMAIN W : W[i].doc.part = "response" =>
                \E j \in DOMAIN W : j < i /\ W[j].to = W[i].to /\ W[j].doc.part = "request"
<1> DEFINE A == structuredWrite(t, filled, readable)
           B == storeWriter(t, "request", Dump(dumped))
           R == storeWriter(t, "response", Dump(TRUE))
           C == IF filled THEN R ELSE <<>>
           due == sWriter # "nil" /\ t.match # "false" /\ filled /\ readable
           plain == ~DumpRequest /\ ~DumpResponse
<1>1. /\ A \in Seq(Write)
      /\ \A i \in DOMAIN A : A[i].to = "swriter" /\ Tells(A[i], t, filled)
      /\ due => 1 \in DOMAIN A
  BY structuredWriteWrites, structuredWriteTells
<1>2. Dump(dumped) \in Seq(Tokens) /\ Dump(TRUE) \in Seq(Tokens)
  BY DumpType
<1>3. ASSUME NEW part \in {"request", "response"}, NEW dump \in Seq(Tokens)
      PROVE  /\ storeWriter(t, part, dump) \in Seq(Write)
             /\ \A i \in DOMAIN storeWriter(t, part, dump) :
                  /\ i \in DOMAIN Store
                  /\ storeWriter(t, part, dump)[i].to = Store[i]
                  /\ storeWriter(t, part, dump)[i].doc.part = part
                  /\ (part = "response" /\ filled) =>
                       Tells(storeWriter(t, part, dump)[i], t, filled)
                  /\ part = "request" => Tells(storeWriter(t, part, dump)[i], t, filled)
             /\ plain => DOMAIN storeWriter(t, part, dump) = DOMAIN Store
  <2> DEFINE W == storeWriter(t, part, dump)
  <2>1. /\ W \in Seq(Write)
        /\ \A i \in DOMAIN W : i \in DOMAIN Store /\ W[i].to = Store[i] /\ W[i].doc.part = part
    BY storeWriterWrites
  <2>2. (part = "response" => filled) => \A i \in DOMAIN W : Tells(W[i], t, filled)
    BY storeWriterTells
  <2>3. plain => DOMAIN W = DOMAIN Store
    BY LenProperties DEF storeWriter, Selected
  <2> HIDE DEF W
  <2>4. \A i \in DOMAIN W : /\ (part = "response" /\ filled) => Tells(W[i], t, filled)
                            /\ part = "request" => Tells(W[i], t, filled)
    BY <2>2
  <2> QED BY <2>1, <2>3, <2>4 DEF W
<1>4. /\ B \in Seq(Write)
      /\ \A i \in DOMAIN B : /\ i \in DOMAIN Store /\ B[i].to = Store[i]
                             /\ B[i].doc.part = "request" /\ Tells(B[i], t, filled)
      /\ plain => DOMAIN B = DOMAIN Store
  <2> DEFINE x == Dump(dumped)
  <2>1. x \in Seq(Tokens)
    BY <1>2
  <2> HIDE DEF x
  <2>2. "request" \in {"request", "response"}
    OBVIOUS
  <2>3. /\ storeWriter(t, "request", x) \in Seq(Write)
        /\ \A i \in DOMAIN storeWriter(t, "request", x) :
                  /\ i \in DOMAIN Store
                  /\ storeWriter(t, "request", x)[i].to = Store[i]
                  /\ storeWriter(t, "request", x)[i].doc.part = "request"
                  /\ Tells(storeWriter(t, "request", x)[i], t, filled)
        /\ plain => DOMAIN storeWriter(t, "request", x) = DOMAIN Store
    BY <1>3, <2>1, <2>2
  <2> QED BY <2>3 DEF x
<1>5. /\ C \in Seq(Write)
      /\ \A i \in DOMAIN C : /\ i \in DOMAIN Store /\ C[i].to = Store[i]
                             /\ C[i].doc.part = "response" /\ Tells(C[i], t, filled)
  <2>1. CASE filled
    <3> DEFINE x == Dump(TRUE)
    <3>1. x \in Seq(Tokens)
      BY <1>2
    <3> HIDE DEF x
    <3>2. "response" \in {"request", "response"}
      OBVIOUS
    <3>3. /\ storeWriter(t, "response", x) \in Seq(Write)
          /\ \A i \in DOMAIN storeWriter(t, "response", x) :
                  /\ i \in DOMAIN Store
                  /\ storeWriter(t, "response", x)[i].to = Store[i]
                  /\ storeWriter(t, "response", x)[i].doc.part = "response"
                  /\ Tells(storeWriter(t, "response", x)[i], t, filled)
      BY <1>3, <2>1, <3>1, <3>2
    <3>4. C = storeWriter(t, "response", x)
      BY <2>1 DEF x
    <3> HIDE DEF C
    <3> QED BY <3>3, <3>4
  <2>2. CASE ~filled
    BY <2>2
  <2> QED BY <2>1, <2>2
<1>6. Writes(t, dumped, filled, readable) = (A \o B) \o C
  BY DEF Writes
<1> HIDE DEF A, B, C, R
<1> DEFINE W == (A \o B) \o C
           m == Len(A)
           n == Len(A \o B)
<1>7. A \o B \in Seq(Write) /\ n \in Nat /\ m \in Nat
  BY <1>1, <1>4, ConcatProperties, LenProperties
<1>8. /\ \A i \in DOMAIN A : i \in DOMAIN W /\ W[i] = A[i]
      /\ \A i \in DOMAIN B : /\ m + i \in DOMAIN W /\ W[m + i] = B[i]
                             /\ m + i \in DOMAIN (A \o B)
      /\ \A i \in DOMAIN C : n + i \in DOMAIN W /\ W[n + i] = C[i]
  <2> DEFINE V == A \o B
  <2>1. /\ \A i \in DOMAIN A : i \in DOMAIN V /\ V[i] = A[i]
        /\ \A i \in DOMAIN B : m + i \in DOMAIN V /\ V[m + i] = B[i]
    BY <1>1, <1>4, ConcatAt
  <2>2. V \in Seq(Write) /\ W = V \o C /\ n = Len(V)
    BY <1>7
  <2> HIDE DEF V, W, m, n
  <2>3. /\ \A i \in DOMAIN V : i \in DOMAIN W /\ W[i] = V[i]
        /\ \A i \in DOMAIN C : n + i \in DOMAIN W /\ W[n + i] = C[i]
    BY <1>5, <2>2, ConcatAt
  <2>4. \A i \in DOMAIN B : m + i \in DOMAIN V /\ W[m + i] = B[i]
    BY <2>1, <2>3
  <2> QED BY <2>1, <2>3, <2>4 DEF V
<1>9. \A i \in DOMAIN W : \/ i \in DOMAIN A
                          \/ i - m \in DOMAIN B /\ i = m + (i - m)
                          \/ i - n \in DOMAIN C /\ i = n + (i - n)
  BY <1>1, <1>4, <1>5, <1>7, ConcatAt
<1>10. \A i \in DOMAIN (A \o B) : i <= n
  BY <1>7, LenProperties
<1>11. \A i \in DOMAIN Store : i \in Nat /\ i > 0
  BY LenProperties
<1> HIDE DEF W, m, n
<1>12. \A i \in DOMAIN W : Tells(W[i], t, filled)
  <2> TAKE i \in DOMAIN W
  <2>1. CASE i \in DOMAIN A
    BY <1>1, <1>8, <2>1
  <2>2. CASE i - m \in DOMAIN B /\ i = m + (i - m)
    BY <1>4, <1>8, <2>2
  <2>3. CASE i - n \in DOMAIN C /\ i = n + (i - n)
    BY <1>5, <1>8, <2>3
  <2> QED BY <1>9, <2>1, <2>2, <2>3
<1>13. due => \E i \in DOMAIN W : W[i].to = "swriter"
  BY <1>1, <1>8
<1>14. ASSUME plain, NEW i \in DOMAIN W, W[i].doc.part = "response"
       PROVE  \E j \in DOMAIN W : j < i /\ W[j].to = W[i].to /\ W[j].doc.part = "request"
  <2>1. CASE i \in DOMAIN A
    <3>1. W[i].to = "swriter" /\ Tells(W[i], t, filled)
      BY <1>1, <1>8, <2>1
    <3> QED BY <1>14, <3>1 DEF Tells
  <2>2. CASE i - m \in DOMAIN B /\ i = m + (i - m)
    BY <1>4, <1>8, <1>14, <2>2
  <2>3. CASE i - n \in DOMAIN C /\ i = n + (i - n)
    <3> DEFINE k == i - n
    <3>1. k \in DOMAIN C /\ W[i] = C[k] /\ k \in DOMAIN Store /\ C[k].to = Store[k] /\ i = n + k
      BY <1>5, <1>8, <2>3
    <3> HIDE DEF k
    <3>2. k \in DOMAIN B /\ m + k \in DOMAIN W /\ W[m + k] = B[k] /\ m + k <= n
      BY <1>4, <1>8, <1>10, <1>14, <3>1
    <3>3. m + k < i
      BY <1>7, <1>11, <3>1, <3>2
    <3> QED BY <1>4, <3>1, <3>2, <3>3
  <2> QED BY <1>9, <2>1, <2>2, <2>3
<1> QED BY <1>6, <1>12, <1>13, <1>14 DEF W
-----------------------------------------------------------------------------
(* Type correctness *)

LEMMA FailsIsBoolean == \A kind : Fails(kind) \subseteq BOOLEAN
BY DEF Fails

LEMMA InitType == Init => TypeOK
<1> SUFFICES ASSUME Init PROVE TypeOK
  OBVIOUS
<1> USE DEF Init, NewLogger
<1>1. PICK e, k, f \in Fails("new") :
        Store = (IF ElasticAddr /\ ~e THEN <<"elastic">> ELSE <<>>)
                  \o (IF KafkaAddr /\ ~k THEN <<"kafka">> ELSE <<>>)
                  \o (IF ~f THEN <<"file">> ELSE <<>>)
  OBVIOUS
<1>2. Store \in Seq(StoreNames)
  <2> DEFINE E == IF ElasticAddr /\ ~e THEN <<"elastic">> ELSE <<>>
             K == IF KafkaAddr /\ ~k THEN <<"kafka">> ELSE <<>>
             F == IF ~f THEN <<"file">> ELSE <<>>
  <2>1. <<>> \in Seq(StoreNames) /\ <<"elastic">> \in Seq(StoreNames)
        /\ <<"kafka">> \in Seq(StoreNames) /\ <<"file">> \in Seq(StoreNames)
    BY DEF StoreNames
  <2>2. E \in Seq(StoreNames) /\ K \in Seq(StoreNames) /\ F \in Seq(StoreNames)
    BY <2>1
  <2>3. Store = (E \o K) \o F
    BY <1>1
  <2> HIDE DEF E, K, F
  <2>4. E \o K \in Seq(StoreNames)
    BY <2>2, ConcatProperties
  <2>5. (E \o K) \o F \in Seq(StoreNames)
    BY <2>2, <2>4, ConcatProperties
  <2> QED BY <2>3, <2>5
<1>3. sWriter \in {"nil", "open", "closed"}
  OBVIOUS
<1>4. asyncqueue \in Seq(Transaction) /\ Len(asyncqueue) <= QueueCap
  BY LoggerAssumption
<1>5. todo \in Seq([to : Targets, doc : Document]) /\ saved \in [Targets -> Seq(Document)]
  OBVIOUS
<1>6. closing \in {"open", "closing", "closed"} /\ running \in BOOLEAN /\ alive \in BOOLEAN
      /\ nsent \in Nat /\ tried \in [StoreNames -> Nat]
  OBVIOUS
<1> QED BY <1>2, <1>3, <1>4, <1>5, <1>6 DEF TypeOK

LEMMA SendType ==
  ASSUME TypeOK, NEW t \in Transaction, Send(t)
  PROVE  TypeOK'
<1>0. nsent + 1 \in Nat
  BY DEF TypeOK
<1>1. [t EXCEPT !.seq = nsent + 1] \in Transaction
  BY <1>0 DEF Transaction
<1> USE DEF Send
<1>2. asyncqueue' \in Seq(Transaction) /\ Len(asyncqueue') = Len(asyncqueue) + 1
  BY <1>1 DEF TypeOK
<1>3. Len(asyncqueue') <= QueueCap
  BY <1>2, LoggerAssumption, LenProperties DEF TypeOK
<1> QED BY <1>2, <1>3 DEF TypeOK

LEMMA ReceiveType ==
  ASSUME TypeOK, Receive
  PROVE  TypeOK'
<1> USE DEF Receive
<1>1. /\ Head(asyncqueue) \in Transaction
      /\ asyncqueue' \in Seq(Transaction)
      /\ Len(asyncqueue') = Len(asyncqueue) - 1
  BY HeadTailProperties DEF TypeOK
<1>2. Len(asyncqueue') <= QueueCap
  BY <1>1, LoggerAssumption, LenProperties DEF TypeOK
<1>3. todo' \in Seq(Write)
  <2>1. CASE todo' = <<>>
    BY <2>1
  <2>2. ASSUME NEW d \in Fails("dump"), NEW f \in Fails("fill"), NEW r \in Fails("dump"),
               todo' = Writes(Head(asyncqueue), ~d, Head(asyncqueue).response /\ ~f, ~r)
        PROVE  todo' \in Seq(Write)
    <3>1. (~d) \in BOOLEAN /\ (Head(asyncqueue).response /\ ~f) \in BOOLEAN /\ (~r) \in BOOLEAN
      OBVIOUS
    <3>2. Store \in Seq(StoreNames)
      BY DEF TypeOK
    <3> QED BY <1>1, <2>2, <3>1, <3>2, WritesType
  <2> QED BY <2>1, <2>2
<1> QED BY <1>1, <1>2, <1>3 DEF TypeOK, Write

\* Two documents that differ at most in their text.
SameHeading(doc, other) ==
  /\ doc.seq = other.seq /\ doc.part = other.part
  /\ doc.id = other.id /\ doc.match = other.match /\ doc.name = other.name

\* What Done may add to the target of the write w: its own document, perhaps torn,
\* at most once unless the target is Kafka.
Additions(w) ==
  {docs \in Seq(Document) :
     /\ \A i \in DOMAIN docs : SameHeading(docs[i], w.doc)
     /\ Len(docs) <= IF w.to = "kafka" THEN 2 ELSE 1}

\* A part of a document's text is a document's text.
LEMMA TornDocument ==
  ASSUME NEW doc \in Document, NEW n \in 0..Len(doc.raw)
  PROVE  /\ [doc EXCEPT !.raw = SubSeq(@, 1, n)] \in Document
         /\ SameHeading([doc EXCEPT !.raw = SubSeq(@, 1, n)], doc)
<1>1. doc.raw \in Seq(Tokens)
  BY DEF Document
<1>2. n \in Int /\ \A i \in 1..n : doc.raw[i] \in Tokens
  BY <1>1, LenProperties
<1>3. SubSeq(doc.raw, 1, n) \in Seq(Tokens)
  BY <1>2, SubSeqProperties
<1> QED BY <1>3 DEF Document, SameHeading

LEMMA AdditionsNone == ASSUME NEW w \in Write PROVE <<>> \in Additions(w)
BY DEF Additions

LEMMA AdditionsOne ==
  ASSUME NEW w \in Write, NEW doc \in Document, SameHeading(doc, w.doc)
  PROVE  <<doc>> \in Additions(w)
<1>1. <<doc>> \in Seq(Document) /\ Len(<<doc>>) = 1 /\ DOMAIN <<doc>> = {1} /\ <<doc>>[1] = doc
  OBVIOUS
<1> QED BY <1>1 DEF Additions

LEMMA AdditionsTwo ==
  ASSUME NEW w \in Write, w.to = "kafka"
  PROVE  <<w.doc, w.doc>> \in Additions(w)
<1> DEFINE doc == w.doc
<1>1. doc \in Document
  BY DEF Write
<1> HIDE DEF doc
<1>2. <<doc, doc>> \in Seq(Document) /\ DOMAIN <<doc, doc>> = {1, 2} /\ Len(<<doc, doc>>) = 2
      /\ <<doc, doc>>[1] = doc /\ <<doc, doc>>[2] = doc
  BY <1>1, PairIsSeq
<1>3. <<doc, doc>> \in Additions(w)
  BY <1>2 DEF Additions, SameHeading, doc
<1> QED BY <1>3 DEF doc

LEMMA storeSaveAdds ==
  ASSUME NEW w \in Write, w.to \in StoreNames, NEW ok \in BOOLEAN
  PROVE  storeSave(w.to, w.doc, ok) \subseteq Additions(w)
<1>1. w.doc \in Document
  BY DEF Write
<1>2. <<>> \in Additions(w) /\ <<w.doc>> \in Additions(w)
  BY <1>1, AdditionsNone, AdditionsOne DEF SameHeading
<1>3. CASE w.to = "elastic"
  BY <1>2, <1>3 DEF storeSave, elasticSave
<1>4. CASE w.to = "kafka"
  <2>1. <<w.doc, w.doc>> \in Additions(w)
    BY <1>4, AdditionsTwo
  <2>2. storeSave(w.to, w.doc, ok) \subseteq {<<>>, <<w.doc>>, <<w.doc, w.doc>>}
    BY <1>4 DEF storeSave, kafkaSave
  <2> QED BY <1>2, <2>1, <2>2
<1>5. CASE w.to = "file"
  <2>1. \A n \in 0..Len(w.doc.raw) :
          <<[w.doc EXCEPT !.raw = SubSeq(@, 1, n)]>> \in Additions(w)
    <3> TAKE n \in 0..Len(w.doc.raw)
    <3> DEFINE torn == [w.doc EXCEPT !.raw = SubSeq(@, 1, n)]
    <3>1. torn \in Document /\ SameHeading(torn, w.doc)
      BY <1>1, TornDocument
    <3> HIDE DEF torn
    <3>2. <<torn>> \in Additions(w)
      BY <3>1, AdditionsOne
    <3> QED BY <3>2 DEF torn
  <2>2. storeSave(w.to, w.doc, ok) = fileSave(w.doc, ok)
    BY <1>5 DEF storeSave
  <2> QED BY <1>2, <2>1, <2>2 DEF fileSave
<1> QED BY <1>3, <1>4, <1>5 DEF StoreNames

LEMMA sWriterWriteAdds ==
  ASSUME NEW w \in Write
  PROVE  sWriterWrite(w.doc) \subseteq Additions(w)
<1>1. w.doc \in Document
  BY DEF Write
<1>2. <<>> \in Additions(w) /\ <<w.doc>> \in Additions(w)
  BY <1>1, AdditionsNone, AdditionsOne DEF SameHeading
<1> QED BY <1>2 DEF sWriterWrite

\* The three actions that do the write that is due.
LEMMA WritesAreDone ==
  ASSUME TypeOK, WriteStructured \/ Save \/ SaveFails
  PROVE  /\ todo \in Seq(Write) /\ todo # <<>> /\ Head(todo) \in Write
         /\ \E docs \in Additions(Head(todo)) : Done(docs)
         /\ WriteStructured => UNCHANGED tried
         /\ Save \/ SaveFails =>
              /\ Head(todo).to \in StoreNames
              /\ tried' = [tried EXCEPT ![Head(todo).to] = @ + 1]
<1>1. todo \in Seq(Write) /\ todo # <<>>
  BY DEF WriteStructured, Save, SaveFails, TypeOK, Write
<1>2. Head(todo) \in Write
  BY <1>1, HeadTailProperties
<1>3. ASSUME NEW ok \in BOOLEAN, Head(todo).to \in StoreNames
      PROVE  storeSave(Head(todo).to, Head(todo).doc, ok) \subseteq Additions(Head(todo))
  BY <1>2, <1>3, storeSaveAdds
<1>4. sWriterWrite(Head(todo).doc) \subseteq Additions(Head(todo))
  BY <1>2, sWriterWriteAdds
<1>5. \/ \E docs \in sWriterWrite(Head(todo).doc) : Done(docs)
      \/ /\ Head(todo).to \in StoreNames
         /\ \E ok \in BOOLEAN : \E docs \in storeSave(Head(todo).to, Head(todo).doc, ok) : Done(docs)
  BY DEF WriteStructured, Save, SaveFails
<1>6. \E docs \in Additions(Head(todo)) : Done(docs)
  BY <1>3, <1>4, <1>5
<1>7. WriteStructured => UNCHANGED tried
  BY DEF WriteStructured
<1>8. Save \/ SaveFails => /\ Head(todo).to \in StoreNames
                          /\ tried' = [tried EXCEPT ![Head(todo).to] = @ + 1]
  BY DEF Save, SaveFails
<1> QED BY <1>1, <1>2, <1>6, <1>7, <1>8

\* When nothing fails, the file of structured entries and the dump directory get
\* the whole document; without an output folder nothing is filed.
LEMMA WritesInFull ==
  ASSUME WriteStructured \/ Save \/ SaveFails, Faults = {},
         \/ Head(todo).to = "swriter" /\ sWriter = "open"
         \/ Head(todo).to = "file" /\ OutputFolder
  PROVE  Done(<<Head(todo).doc>>)
<1> DEFINE doc == Head(todo).doc
<1>1. CASE WriteStructured
  <2>1. Head(todo).to = "swriter" /\ "marshal" \notin Faults
    BY <1>1 DEF WriteStructured
  <2>2. sWriterWrite(doc) = {<<doc>>}
    BY <2>1 DEF sWriterWrite
  <2>3. PICK docs \in sWriterWrite(doc) : Done(docs)
    BY <1>1 DEF WriteStructured
  <2> QED BY <2>2, <2>3
<1>2. CASE Save
  <2>1. Head(todo).to = "file" /\ OutputFolder
    BY <1>2 DEF Save, StoreNames
  <2>2. storeSave(Head(todo).to, doc, TRUE) = {<<doc>>}
    BY <2>1 DEF storeSave, fileSave
  <2>3. PICK docs \in storeSave(Head(todo).to, doc, TRUE) : Done(docs)
    BY <1>2 DEF Save
  <2> QED BY <2>2, <2>3
<1>3. CASE SaveFails
  BY <1>3 DEF SaveFails
<1> QED BY <1>1, <1>2, <1>3

LEMMA NothingIsFiled ==
  ASSUME WriteStructured \/ Save \/ SaveFails, ~OutputFolder, Head(todo).to = "file"
  PROVE  Done(<<>>)
<1>1. Save
  BY DEF WriteStructured, SaveFails
<1>2. storeSave(Head(todo).to, Head(todo).doc, TRUE) = {<<>>}
  BY DEF storeSave, fileSave
<1>3. PICK docs \in storeSave(Head(todo).to, Head(todo).doc, TRUE) : Done(docs)
  BY <1>1 DEF Save
<1> QED BY <1>2, <1>3

LEMMA WriteType ==
  ASSUME TypeOK, WriteStructured \/ Save \/ SaveFails
  PROVE  TypeOK'
<1>1. /\ todo \in Seq(Write) /\ todo # <<>> /\ Head(todo) \in Write
      /\ \E docs \in Additions(Head(todo)) : Done(docs)
      /\ WriteStructured => UNCHANGED tried
      /\ Save \/ SaveFails =>
           /\ Head(todo).to \in StoreNames
           /\ tried' = [tried EXCEPT ![Head(todo).to] = @ + 1]
  BY WritesAreDone
<1>2. PICK docs \in Additions(Head(todo)) : Done(docs)
  BY <1>1
<1>3. todo' \in Seq(Write)
  BY <1>1, <1>2, HeadTailProperties DEF Done
<1>4. saved' \in [Targets -> Seq(Document)]
  <2>1. saved \in [Targets -> Seq(Document)] /\ Head(todo).to \in Targets
        /\ docs \in Seq(Document)
    BY <1>1 DEF TypeOK, Write, Additions
  <2>2. saved[Head(todo).to] \o docs \in Seq(Document)
    BY <2>1, ConcatProperties
  <2> QED BY <1>2, <2>1, <2>2 DEF Done
<1>5. tried' \in [StoreNames -> Nat]
  BY <1>1 DEF TypeOK
<1> QED BY <1>2, <1>3, <1>4, <1>5 DEF Done, TypeOK, Write

LEMMA AsyncWriteType ==
  ASSUME TypeOK, AsyncWrite
  PROVE  TypeOK'
<1>1. CASE Receive
  BY <1>1, ReceiveType
<1>2. CASE WriteStructured \/ Save \/ SaveFails
  BY <1>2, WriteType
<1>3. CASE AsyncWriteReturns
  BY <1>3 DEF AsyncWriteReturns, TypeOK
<1> QED BY <1>1, <1>2, <1>3 DEF AsyncWrite

LEMMA StepType == TypeOK /\ [Next]_vars => TypeOK'
<1> SUFFICES ASSUME TypeOK, [Next]_vars PROVE TypeOK'
  OBVIOUS
<1>1. ASSUME NEW id \in Ids, NEW m \in Verdicts, LogRequest(id, m)
      PROVE  TypeOK'
  <2>1. [seq |-> 0, id |-> id, match |-> m, request |-> TRUE, response |-> FALSE] \in Transaction
    BY DEF Transaction
  <2> QED BY <1>1, <2>1, SendType DEF LogRequest
<1>2. ASSUME NEW id \in Ids, NEW m \in Verdicts, NEW r \in BOOLEAN, LogResponse(id, m, r)
      PROVE  TypeOK'
  <2>1. [seq |-> 0, id |-> id, match |-> m, request |-> r, response |-> TRUE] \in Transaction
    BY DEF Transaction
  <2> QED BY <1>2, <2>1, SendType DEF LogResponse
<1>3. CASE SendOnClosed
  BY <1>3 DEF SendOnClosed, TypeOK
<1>4. CASE CloseWriter
  BY <1>4 DEF CloseWriter, TypeOK
<1>5. CASE CloseQueue
  BY <1>5 DEF CloseQueue, TypeOK
<1>6. CASE AsyncWrite
  BY <1>6, AsyncWriteType
<1>7. CASE Halt
  BY <1>7 DEF Halt, TypeOK
<1>8. CASE UNCHANGED vars
  BY <1>8 DEF vars, TypeOK
<1> QED BY <1>1, <1>2, <1>3, <1>4, <1>5, <1>6, <1>7, <1>8 DEF Next, Caller

\* The state of the logger keeps its types, and asyncqueue never holds more than
\* its capacity (NewLogger, LogRequest, LogResponse, AsyncWrite, Close).
THEOREM TypeCorrect == Spec => []TypeOK
<1>1. Init => TypeOK
  BY InitType
<1>2. TypeOK /\ [Next]_vars => TypeOK'
  BY StepType
<1> QED BY <1>1, <1>2, PTL DEF Spec
-----------------------------------------------------------------------------
(* The order of the documents *)

\* Sequences without repetition.
Distinct(s) == \A i, j \in DOMAIN s : i # j => s[i] # s[j]

LEMMA DistinctConcat ==
  ASSUME NEW S, NEW v \in Seq(S), NEW w \in Seq(S), Distinct(v), Distinct(w),
         \A i \in DOMAIN v, j \in DOMAIN w : v[i] # w[j]
  PROVE  /\ Distinct(v \o w)
         /\ \A i \in DOMAIN (v \o w) :
              (\E j \in DOMAIN v : (v \o w)[i] = v[j]) \/ (\E j \in DOMAIN w : (v \o w)[i] = w[j])
<1>1. /\ DOMAIN (v \o w) = 1..(Len(v) + Len(w)) /\ Len(v) \in Nat /\ Len(w) \in Nat
      /\ DOMAIN v = 1..Len(v) /\ DOMAIN w = 1..Len(w)
      /\ \A i \in 1..(Len(v) + Len(w)) :
           (v \o w)[i] = IF i <= Len(v) THEN v[i] ELSE w[i - Len(v)]
  BY ConcatProperties, LenProperties
<1>2. \A i \in DOMAIN (v \o w) :
        \/ i \in DOMAIN v /\ (v \o w)[i] = v[i]
        \/ i - Len(v) \in DOMAIN w /\ (v \o w)[i] = w[i - Len(v)]
  BY <1>1
<1>3. ASSUME NEW i \in DOMAIN (v \o w), NEW j \in DOMAIN (v \o w), i # j
      PROVE  (v \o w)[i] # (v \o w)[j]
  <2>1. i - Len(v) # j - Len(v)
    BY <1>1, <1>3
  <2> QED BY <1>2, <1>3, <2>1 DEF Distinct
<1> QED BY <1>2, <1>3 DEF Distinct

LEMMA AtMostOne ==
  ASSUME NEW S, NEW a \in S, NEW s \in {<<a>>, <<>>}
  PROVE  s \in Seq(S) /\ Distinct(s) /\ \A i \in DOMAIN s : s[i] = a
<1>1. CASE s = <<>>
  BY <1>1 DEF Distinct
<1>2. CASE s = <<a>>
  <2>1. DOMAIN s = {1} /\ s[1] = a /\ s \in Seq(S)
    BY <1>2
  <2> QED BY <2>1 DEF Distinct
<1> QED BY <1>1, <1>2

LEMMA InitLog == Init => OneLog
<1> SUFFICES ASSUME Init PROVE OneLog
  OBVIOUS
<1>1. StoresDistinct
  <2>1. PICK e, k, f \in Fails("new") :
          Store = (IF ElasticAddr /\ ~e THEN <<"elastic">> ELSE <<>>)
                    \o (IF KafkaAddr /\ ~k THEN <<"kafka">> ELSE <<>>)
                    \o (IF ~f THEN <<"file">> ELSE <<>>)
    BY DEF Init, NewLogger
  <2> DEFINE E == IF ElasticAddr /\ ~e THEN <<"elastic">> ELSE <<>>
             K == IF KafkaAddr /\ ~k THEN <<"kafka">> ELSE <<>>
             F == IF ~f THEN <<"file">> ELSE <<>>
  <2>2. E \in {<<"elastic">>, <<>>} /\ K \in {<<"kafka">>, <<>>} /\ F \in {<<"file">>, <<>>}
    OBVIOUS
  <2>3. Store = (E \o K) \o F
    BY <2>1
  <2> HIDE DEF E, K, F
  <2>4. /\ E \in Seq(StoreNames) /\ Distinct(E) /\ \A i \in DOMAIN E : E[i] = "elastic"
        /\ K \in Seq(StoreNames) /\ Distinct(K) /\ \A i \in DOMAIN K : K[i] = "kafka"
        /\ F \in Seq(StoreNames) /\ Distinct(F) /\ \A i \in DOMAIN F : F[i] = "file"
    BY <2>2, AtMostOne DEF StoreNames
  <2>5. /\ Distinct(E \o K) /\ E \o K \in Seq(StoreNames)
        /\ \A i \in DOMAIN (E \o K) : (E \o K)[i] \in {"elastic", "kafka"}
    BY <2>4, DistinctConcat, ConcatProperties
  <2>6. Distinct((E \o K) \o F)
    BY <2>4, <2>5, DistinctConcat
  <2> QED BY <2>3, <2>6 DEF StoresDistinct, Distinct
<1>2. QueueNumbered
  BY DEF Init, NewLogger, QueueNumbered
<1>3. TodoInOrder /\ TodoIsCurrent
  BY DEF Init, NewLogger, TodoInOrder, TodoIsCurrent
<1>4. SavedIsOlder /\ InSubmissionOrder
  BY DEF Init, NewLogger, SavedIsOlder, InSubmissionOrder
<1> QED BY <1>1, <1>2, <1>3, <1>4 DEF OneLog

LEMMA SendLog ==
  ASSUME TypeOK, OneLog, NEW t \in Transaction, Send(t)
  PROVE  OneLog'
<1> DEFINE u == [t EXCEPT !.seq = nsent + 1]
<1>1. nsent \in Nat /\ asyncqueue \in Seq(Transaction)
  BY DEF TypeOK
<1>2. u \in Transaction /\ u.seq = nsent + 1
  BY <1>1 DEF Transaction
<1>3. asyncqueue' = Append(asyncqueue, u) /\ nsent' = nsent + 1
      /\ UNCHANGED <<Store, todo, saved>>
  BY DEF Send
<1> HIDE DEF u
<1>4. /\ Len(asyncqueue') = Len(asyncqueue) + 1 /\ Len(asyncqueue) \in Nat
      /\ \A i \in 1..Len(asyncqueue) : asyncqueue'[i] = asyncqueue[i]
      /\ asyncqueue'[Len(asyncqueue) + 1] = u
      /\ DOMAIN asyncqueue = 1..Len(asyncqueue)
      /\ DOMAIN asyncqueue' = 1..(Len(asyncqueue) + 1)
  BY <1>1, <1>2, <1>3, AppendProperties, LenProperties
<1>5. Received' = Received
  BY <1>1, <1>3, <1>4 DEF Received
<1>6. QueueNumbered'
  <2>1. Received + (Len(asyncqueue) + 1) = nsent + 1
    BY <1>1, <1>4 DEF Received
  <2>2. \A i \in 1..(Len(asyncqueue) + 1) : asyncqueue'[i].seq = Received + i
    <3> TAKE i \in 1..(Len(asyncqueue) + 1)
    <3>1. CASE i = Len(asyncqueue) + 1
      BY <1>2, <1>4, <2>1, <3>1
    <3>2. CASE i # Len(asyncqueue) + 1
      <4>1. i \in 1..Len(asyncqueue)
        BY <1>4, <3>2
      <4> QED BY <1>4, <4>1 DEF OneLog, QueueNumbered
    <3> QED BY <3>1, <3>2
  <2>3. Len(asyncqueue') <= nsent'
    BY <1>1, <1>3, <1>4 DEF OneLog, QueueNumbered
  <2> QED BY <1>4, <1>5, <2>2, <2>3 DEF QueueNumbered
<1>7. StoresDistinct' /\ TodoInOrder' /\ InSubmissionOrder'
  BY <1>3 DEF OneLog, StoresDistinct, TodoInOrder, InSubmissionOrder, Rank
<1>8. TodoIsCurrent' /\ SavedIsOlder'
  BY <1>3, <1>5 DEF OneLog, TodoIsCurrent, SavedIsOlder, Rank
<1> QED BY <1>6, <1>7, <1>8 DEF OneLog

LEMMA ReceiveLog ==
  ASSUME TypeOK, OneLog, Receive
  PROVE  OneLog'
<1> DEFINE t == Head(asyncqueue)
<1>1. /\ nsent \in Nat /\ asyncqueue \in Seq(Transaction) /\ asyncqueue # <<>>
      /\ todo = <<>> /\ Store \in Seq(StoreNames)
      /\ UNCHANGED <<Store, saved, nsent>> /\ asyncqueue' = Tail(asyncqueue)
  BY DEF Receive, TypeOK
<1>2. /\ t \in Transaction /\ t = asyncqueue[1]
      /\ Len(asyncqueue') = Len(asyncqueue) - 1 /\ Len(asyncqueue) \in Nat \ {0}
      /\ \A i \in 1..(Len(asyncqueue) - 1) : asyncqueue'[i] = asyncqueue[i + 1]
      /\ DOMAIN asyncqueue = 1..Len(asyncqueue)
      /\ DOMAIN asyncqueue' = 1..(Len(asyncqueue) - 1)
  BY <1>1, HeadTailProperties, LenProperties
<1>3. Received \in Int /\ Received' = Received + 1
  BY <1>1, <1>2 DEF Received
<1>4. t.seq = Received'
  BY <1>2, <1>3 DEF OneLog, QueueNumbered
<1> DEFINE Owed(w) == /\ \A i \in DOMAIN w : w[i].doc.seq = t.seq
                      /\ RequestFirst(w)
                      /\ w \in Seq(Write)
<1>5. Owed(todo')
  <2>1. CASE todo' = <<>>
    BY <2>1 DEF RequestFirst
  <2>2. ASSUME NEW x \in BOOLEAN, NEW y \in BOOLEAN, NEW z \in BOOLEAN
        PROVE  Owed(Writes(t, x, y, z))
    <3>1. StoresDistinct
      BY DEF OneLog
    <3>2. t \in Transaction /\ Store \in Seq(StoreNames)
      BY <1>1, <1>2
    <3> HIDE DEF t
    <3>3. /\ Writes(t, x, y, z) \in Seq(Write)
          /\ \A i \in DOMAIN Writes(t, x, y, z) : Writes(t, x, y, z)[i].doc.seq = t.seq
          /\ StoresDistinct => RequestFirst(Writes(t, x, y, z))
      <4>1. Writes(t, x, y, z) \in Seq(Write)
        BY <3>2, WritesType, SMT
      <4>2. \A i \in DOMAIN Writes(t, x, y, z) : Writes(t, x, y, z)[i].doc.seq = t.seq
        BY <3>2, WritesType, SMT
      <4>3. StoresDistinct => RequestFirst(Writes(t, x, y, z))
        BY <3>2, WritesType, SMT
      <4> QED BY <4>1, <4>2, <4>3
    <3> QED BY <3>1, <3>3, Zenon
  <2>3. ASSUME NEW d \in Fails("dump"), NEW f \in Fails("fill"), NEW r \in Fails("dump"),
               todo' = Writes(t, ~d, t.response /\ ~f, ~r)
        PROVE  Owed(todo')
    <3>1. (~d) \in BOOLEAN /\ (t.response /\ ~f) \in BOOLEAN /\ (~r) \in BOOLEAN
      OBVIOUS
    <3> HIDE DEF t, Owed
    <3>2. Owed(Writes(t, ~d, t.response /\ ~f, ~r))
      BY <2>2, <3>1, Zenon
    <3> QED BY <2>3, <3>2
  <2>4. \/ todo' = <<>>
        \/ \E d \in Fails("dump"), f \in Fails("fill"), r \in Fails("dump") :
             todo' = Writes(t, ~d, t.response /\ ~f, ~r)
    BY DEF Receive
  <2> HIDE DEF t, Owed
  <2> QED BY <2>1, <2>3, <2>4
<1> HIDE DEF t
<1>6. QueueNumbered'
  <2>1. \A i \in 1..(Len(asyncqueue) - 1) : asyncqueue'[i].seq = Received' + i
    <3> TAKE i \in 1..(Len(asyncqueue) - 1)
    <3>1. i + 1 \in DOMAIN asyncqueue
      BY <1>2
    <3>2. asyncqueue[i + 1].seq = Received + (i + 1)
      BY <3>1 DEF OneLog, QueueNumbered
    <3> QED BY <1>2, <1>3, <3>2
  <2>2. Len(asyncqueue') <= nsent'
    BY <1>1, <1>2 DEF OneLog, QueueNumbered
  <2> QED BY <1>2, <2>1, <2>2 DEF QueueNumbered
<1>7. TodoIsCurrent'
  BY <1>4, <1>5 DEF TodoIsCurrent
<1>8. TodoInOrder'
  <2> SUFFICES ASSUME NEW i \in DOMAIN todo', NEW j \in DOMAIN todo',
                      i < j, todo'[i].to = todo'[j].to
               PROVE  Rank(todo'[i].doc) < Rank(todo'[j].doc)
    BY DEF TodoInOrder, Rank
  <2>1. todo'[i].doc.part # "response" /\ todo'[j].doc.part = "response"
    BY <1>5 DEF RequestFirst
  <2>2. todo'[i].doc.seq = todo'[j].doc.seq /\ todo'[j].doc.seq \in Int
    BY <1>3, <1>4, <1>5
  <2> QED BY <2>1, <2>2 DEF Rank
<1>9. SavedIsOlder'
  <2> SUFFICES ASSUME NEW d \in Targets, NEW i \in DOMAIN saved[d]
               PROVE  /\ saved[d][i].seq <= Received'
                      /\ \A j \in DOMAIN todo' : Rank(saved[d][i]) < Rank(todo'[j].doc)
    BY <1>1 DEF SavedIsOlder, Rank
  <2>1. saved[d][i].seq \in Nat /\ saved[d][i].seq <= Received
    <3>1. saved[d] \in Seq(Document)
      BY DEF TypeOK
    <3>2. saved[d][i] \in Document
      BY <3>1, LenProperties
    <3> QED BY <3>2 DEF Document, OneLog, SavedIsOlder
  <2>2. \A j \in DOMAIN todo' : todo'[j].doc.seq = Received + 1
    BY <1>3, <1>4, <1>5
  <2> QED BY <1>3, <2>1, <2>2 DEF Rank
<1>10. StoresDistinct' /\ InSubmissionOrder'
  BY <1>1 DEF OneLog, StoresDistinct, InSubmissionOrder, Rank
<1> QED BY <1>6, <1>7, <1>8, <1>9, <1>10 DEF OneLog

\* The write that is due is done, whatever that adds to its target: the order of
\* the log is kept.
LEMMA WriteLog ==
  ASSUME TypeOK, OneLog, WriteStructured \/ Save \/ SaveFails
  PROVE  OneLog'
<1>0. PICK docs \in Additions(Head(todo)) : Done(docs)
  BY WritesAreDone
<1>a. todo # <<>> /\ todo' = Tail(todo) /\ UNCHANGED <<Store, asyncqueue, nsent>>
  BY <1>0, WritesAreDone DEF Done
<1>1. /\ todo \in Seq(Write) /\ saved \in [Targets -> Seq(Document)] /\ nsent \in Nat
      /\ Head(todo) = todo[1] /\ todo[1] \in Write
      /\ Len(todo) \in Nat \ {0} /\ Len(todo') = Len(todo) - 1
      /\ DOMAIN todo = 1..Len(todo) /\ DOMAIN todo' = 1..(Len(todo) - 1)
      /\ \A i \in 1..(Len(todo) - 1) : todo'[i] = todo[i + 1] /\ todo[i + 1] \in Write
  <2>1. todo \in Seq(Write) /\ saved \in [Targets -> Seq(Document)] /\ nsent \in Nat
    BY DEF TypeOK, Write
  <2>2. \A i \in 1..Len(todo) : todo[i] \in Write
    BY <2>1, ElementOfSeq
  <2>3. Len(todo) \in Nat \ {0} /\ Head(todo) = todo[1]
    BY <1>a, <2>1, EmptySeq
  <2>4. todo' \in Seq(Write) /\ Len(todo') = Len(todo) - 1
        /\ \A i \in 1..(Len(todo) - 1) : todo'[i] = todo[i + 1]
    BY <1>a, <2>1, HeadTailProperties
  <2> QED BY <2>1, <2>2, <2>3, <2>4, LenProperties
<1>2. Received' = Received
  BY <1>a DEF Received
<1>3. StoresDistinct' /\ QueueNumbered'
  BY <1>2, <1>a DEF OneLog, StoresDistinct, QueueNumbered
<1>4. TodoIsCurrent'
  BY <1>1, <1>2, <1>a DEF OneLog, TodoIsCurrent
<1>5. TodoInOrder'
  <2> SUFFICES ASSUME NEW i \in DOMAIN todo', NEW j \in DOMAIN todo',
                      i < j, todo'[i].to = todo'[j].to
               PROVE  Rank(todo'[i].doc) < Rank(todo'[j].doc)
    BY DEF TodoInOrder, Rank
  <2>1. i + 1 \in DOMAIN todo /\ j + 1 \in DOMAIN todo /\ i + 1 < j + 1
        /\ todo'[i] = todo[i + 1] /\ todo'[j] = todo[j + 1]
    BY <1>1
  <2> QED BY <2>1 DEF OneLog, TodoInOrder
<1> DEFINE e == todo[1].to
           n == Len(saved[e])
<1>6. /\ e \in Targets /\ saved[e] \in Seq(Document) /\ n \in Nat
      /\ DOMAIN saved[e] = 1..n
  BY <1>1, LenProperties DEF Write
<1>7. /\ docs \in Seq(Document) /\ Len(docs) \in Nat /\ DOMAIN docs = 1..Len(docs)
      /\ \A i \in DOMAIN docs : docs[i].seq = todo[1].doc.seq /\ docs[i].part = todo[1].doc.part
      /\ e # "kafka" => Len(docs) <= 1
  BY <1>0, <1>1, LenProperties DEF Additions, SameHeading
<1>8. /\ saved'[e] = saved[e] \o docs
      /\ \A d \in Targets : d # e => saved'[d] = saved[d]
  BY <1>0, <1>1, <1>6 DEF Done
<1> HIDE DEF e
<1>9. /\ DOMAIN saved'[e] = 1..(n + Len(docs))
      /\ \A i \in 1..(n + Len(docs)) :
           \/ i \in 1..n /\ saved'[e][i] = saved[e][i]
           \/ i - n \in DOMAIN docs /\ i > n /\ saved'[e][i] = docs[i - n]
  BY <1>6, <1>7, <1>8, ConcatProperties, LenProperties
<1> HIDE DEF n
<1>10. \A i \in DOMAIN docs : Rank(docs[i]) = Rank(todo[1].doc) /\ docs[i].seq = Received
  BY <1>1, <1>7 DEF Rank, OneLog, TodoIsCurrent
<1>11. \A i \in 1..n : Rank(saved[e][i]) < Rank(todo[1].doc) /\ saved[e][i].seq <= Received
  <2> SUFFICES ASSUME NEW i \in 1..n
               PROVE  Rank(saved[e][i]) < Rank(todo[1].doc) /\ saved[e][i].seq <= Received
    OBVIOUS
  <2>1. i \in DOMAIN saved[e] /\ e \in Targets
    BY <1>6
  <2>2. 1 \in DOMAIN todo /\ todo[1].to = e
    BY <1>1 DEF e
  <2>3. SavedIsOlder
    BY DEF OneLog
  <2> QED BY <2>1, <2>2, <2>3, Zenon DEF SavedIsOlder
<1>12. \A j \in DOMAIN todo' : todo'[j].to = e => Rank(todo[1].doc) < Rank(todo'[j].doc)
  <2> SUFFICES ASSUME NEW j \in DOMAIN todo', todo'[j].to = e
               PROVE  Rank(todo[1].doc) < Rank(todo'[j].doc)
    OBVIOUS
  <2>1. 1 \in DOMAIN todo /\ j + 1 \in DOMAIN todo /\ 1 < j + 1 /\ todo'[j] = todo[j + 1]
    BY <1>1
  <2> QED BY <2>1 DEF e, OneLog, TodoInOrder
<1>13. InSubmissionOrder'
  <2> SUFFICES ASSUME NEW d \in Targets, NEW i \in DOMAIN saved'[d], NEW j \in DOMAIN saved'[d],
                      i < j
               PROVE  \/ Rank(saved'[d][i]) < Rank(saved'[d][j])
                      \/ d = "kafka" /\ Rank(saved'[d][i]) = Rank(saved'[d][j])
    BY DEF InSubmissionOrder, Rank
  <2>1. CASE d # e
    BY <1>8, <2>1 DEF OneLog, InSubmissionOrder
  <2>2. CASE d = e /\ j \in 1..n
    <3>1. i \in 1..n /\ saved'[d][i] = saved[e][i] /\ saved'[d][j] = saved[e][j]
      BY <1>6, <1>9, <2>2
    <3> QED BY <1>6, <2>2, <3>1 DEF OneLog, InSubmissionOrder
  <2>3. CASE d = e /\ i \in 1..n /\ j \notin 1..n
    <3>1. saved'[d][i] = saved[e][i] /\ j - n \in DOMAIN docs /\ saved'[d][j] = docs[j - n]
      BY <1>6, <1>9, <2>3
    <3> QED BY <1>10, <1>11, <2>3, <3>1
  <2>4. CASE d = e /\ i \notin 1..n /\ j \notin 1..n
    <3>1. i - n \in DOMAIN docs /\ saved'[d][i] = docs[i - n]
          /\ j - n \in DOMAIN docs /\ saved'[d][j] = docs[j - n] /\ i - n < j - n
      BY <1>6, <1>9, <2>4
    <3>2. e = "kafka"
      BY <1>7, <3>1
    <3>3. Rank(saved'[d][i]) = Rank(saved'[d][j])
      BY <1>10, <3>1
    <3> QED BY <2>4, <3>2, <3>3
  <2>5. CASE d = e /\ i \notin 1..n /\ j \in 1..n
    BY <1>6, <1>9, <2>5
  <2> QED BY <2>1, <2>2, <2>3, <2>4, <2>5
<1>14. SavedIsOlder'
  <2> SUFFICES ASSUME NEW d \in Targets, NEW i \in DOMAIN saved'[d]
               PROVE  /\ saved'[d][i].seq <= Received
                      /\ \A j \in DOMAIN todo' :
                           todo'[j].to = d => Rank(saved'[d][i]) < Rank(todo'[j].doc)
    BY <1>2 DEF SavedIsOlder, Rank
  <2>1. \A j \in DOMAIN todo' : j + 1 \in DOMAIN todo /\ todo'[j] = todo[j + 1]
    BY <1>1
  <2>2. CASE d # e
    BY <1>8, <2>1, <2>2 DEF OneLog, SavedIsOlder
  <2>3. CASE d = e /\ i \in 1..n
    <3>1. saved'[d][i] = saved[e][i]
      BY <1>6, <1>9, <2>3
    <3> QED BY <1>6, <2>1, <2>3, <3>1 DEF OneLog, SavedIsOlder
  <2>4. CASE d = e /\ i \notin 1..n
    <3>1. i - n \in DOMAIN docs /\ saved'[d][i] = docs[i - n]
      BY <1>9, <2>4
    <3>2. docs[i - n] \in Document
      BY <1>7, <3>1, ElementOfSeq
    <3>3. docs[i - n].seq \in Nat
      BY <3>2 DEF Document
    <3> QED BY <1>10, <1>12, <2>4, <3>1, <3>3
  <2> QED BY <2>2, <2>3, <2>4
<1> QED BY <1>3, <1>4, <1>5, <1>13, <1>14 DEF OneLog

LEMMA AsyncWriteLog ==
  ASSUME TypeOK, OneLog, AsyncWrite
  PROVE  OneLog'
<1>1. CASE Receive
  BY <1>1, ReceiveLog
<1>2. CASE WriteStructured \/ Save \/ SaveFails
  BY <1>2, WriteLog
<1>3. CASE AsyncWriteReturns
  BY <1>3 DEF AsyncWriteReturns, OneLog, StoresDistinct, QueueNumbered, TodoInOrder,
              TodoIsCurrent, SavedIsOlder, InSubmissionOrder, Received, Rank
<1> QED BY <1>1, <1>2, <1>3 DEF AsyncWrite

LEMMA StepLog == TypeOK /\ OneLog /\ [Next]_vars => OneLog'
<1> SUFFICES ASSUME TypeOK, OneLog, [Next]_vars PROVE OneLog'
  OBVIOUS
<1>1. ASSUME NEW id \in Ids, NEW m \in Verdicts, LogRequest(id, m)
      PROVE  OneLog'
  <2>1. [seq |-> 0, id |-> id, match |-> m, request |-> TRUE, response |-> FALSE] \in Transaction
    BY DEF Transaction
  <2> QED BY <1>1, <2>1, SendLog DEF LogRequest
<1>2. ASSUME NEW id \in Ids, NEW m \in Verdicts, NEW r \in BOOLEAN, LogResponse(id, m, r)
      PROVE  OneLog'
  <2>1. [seq |-> 0, id |-> id, match |-> m, request |-> r, response |-> TRUE] \in Transaction
    BY DEF Transaction
  <2> QED BY <1>2, <2>1, SendLog DEF LogResponse
<1>3. CASE AsyncWrite
  BY <1>3, AsyncWriteLog
<1>4. CASE SendOnClosed \/ CloseWriter \/ CloseQueue \/ Halt \/ UNCHANGED vars
  <2>1. UNCHANGED <<Store, asyncqueue, todo, saved, nsent>>
    BY <1>4 DEF SendOnClosed, CloseWriter, CloseQueue, Halt, vars
  <2> QED BY <2>1 DEF OneLog, StoresDistinct, QueueNumbered, TodoInOrder,
              TodoIsCurrent, SavedIsOlder, InSubmissionOrder, Received, Rank
<1> QED BY <1>1, <1>2, <1>3, <1>4 DEF Next, Caller

\* The channel, the writes that AsyncWrite owes and the documents written form one
\* ordered log: the inductive invariant of LogRequest, LogResponse and AsyncWrite.
THEOREM LogIsOne == Spec => []OneLog
<1>1. Init => TypeOK /\ OneLog
  BY InitType, InitLog
<1>2. TypeOK /\ OneLog /\ [Next]_vars => (TypeOK /\ OneLog)'
  BY StepType, StepLog
<1> QED BY <1>1, <1>2, PTL DEF Spec

\* Every target gets the documents in the order of submission, a request before
\* its response and none twice, whatever fails and wherever the process ends.
THEOREM OrderIsKept == Spec => []InSubmissionOrder
<1>1. OneLog => InSubmissionOrder
  BY DEF OneLog
<1> QED BY <1>1, LogIsOne, PTL

-----------------------------------------------------------------------------
(* The structured file *)

\* Once Close has closed the file, sWriter is no longer open.
WriterClosed == closing # "open" => sWriter # "open"

\* Nothing is added to the structured file once Close has begun, though AsyncWrite
\* goes on draining the channel.
THEOREM FrozenAfterClose == Spec => StructuredFrozen
<1>1. Init => TypeOK /\ WriterClosed
  BY InitType DEF Init, NewLogger, WriterClosed
<1>2. TypeOK /\ WriterClosed /\ [Next]_vars => WriterClosed'
  BY DEF WriterClosed, Next, vars, Caller, LogRequest, LogResponse, Send, SendOnClosed,
         CloseWriter, CloseQueue, Halt, AsyncWrite, Receive, WriteStructured, Save, SaveFails,
         Done, AsyncWriteReturns
<1>3. TypeOK /\ WriterClosed /\ [Next]_vars =>
        [closing # "open" => saved'["swriter"] = saved["swriter"]]_vars
  <2> SUFFICES ASSUME TypeOK, WriterClosed, Next, closing # "open"
               PROVE  saved'["swriter"] = saved["swriter"]
    BY DEF vars
  <2>1. CASE saved' = saved
    BY <2>1
  <2>2. CASE Save \/ SaveFails
    <3>1. Head(todo).to # "swriter"
      BY <2>2, WritesAreDone DEF StoreNames
    <3>2. PICK docs : saved' = [saved EXCEPT ![Head(todo).to] = @ \o docs]
      BY <2>2, WritesAreDone DEF Done
    <3>3. saved \in [Targets -> Seq(Document)] /\ "swriter" \in Targets
      BY DEF TypeOK, Targets
    <3> QED BY <3>1, <3>2, <3>3
  <2>3. CASE WriteStructured
    <3>1. sWriterWrite(Head(todo).doc) = {<<>>}
      BY DEF WriterClosed, sWriterWrite
    <3>2. saved' = [saved EXCEPT !["swriter"] = @ \o <<>>]
      BY <2>3, <3>1 DEF WriteStructured, Done
    <3>3. saved \in [Targets -> Seq(Document)] /\ "swriter" \in Targets
      BY DEF TypeOK, Targets
    <3>4. saved["swriter"] \o <<>> = saved["swriter"]
      BY <3>3, ConcatEmptySeq
    <3> QED BY <3>2, <3>3, <3>4
  <2> QED BY <2>1, <2>2, <2>3 DEF Next, Caller, LogRequest, LogResponse, Send, SendOnClosed,
             CloseWriter, CloseQueue, Halt, AsyncWrite, Receive, AsyncWriteReturns
<1>4. TypeOK /\ WriterClosed /\ [Next]_vars => TypeOK'
  BY StepType
<1> QED BY <1>1, <1>2, <1>3, <1>4, PTL DEF Spec, StructuredFrozen
=============================================================================
