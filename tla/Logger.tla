------------------------------- MODULE Logger -------------------------------
(***************************************************************************)
(* The traffic logger of pkg/logger: the handlers of the proxy send        *)
(* transactions into the bounded channel asyncqueue, one goroutine         *)
(* (AsyncWrite) takes them out and writes each one to the structured file  *)
(* and to every configured store.  A transaction is what the exporters     *)
(* tell apart: the ID of its user data, the verdict of the filters, and    *)
(* whether it carries a request and a response.  The field seq is a ghost: *)
(* the position at which the transaction entered the channel.              *)
(***************************************************************************)
EXTENDS Integers, Sequences, FiniteSets

CONSTANTS
  Ids,           \* user-data IDs (with the host they name the dump files)
  QueueCap,      \* capacity of asyncqueue (1000 in the code)
  MaxSent,       \* bound: transactions logged in one behaviour
  ElasticAddr,   \* options.Elastic.Addr # ""
  KafkaAddr,     \* options.Kafka.Addr # ""
  OutputFolder,  \* options.OutputFolder # ""
  OutputFormat,  \* options.OutputFormat
  DumpRequest,   \* options.DumpRequest
  DumpResponse,  \* options.DumpResponse
  MaxSize,       \* options.MaxSize, counted in tokens of a dump
  Faults         \* which of the failures below the environment may cause

StoreNames == {"elastic", "kafka", "file"}
Targets    == StoreNames \cup {"swriter"}
Parts      == {"request", "response", "pair"}
Verdicts   == {"nil", "true", "false"}        \* UserData.Match, a *bool
FaultKinds == {"new", "dump", "fill", "marshal", "save", "retry", "halt"}

ASSUME LoggerAssumption ==
  /\ QueueCap \in Nat \ {0}
  /\ MaxSent \in Nat
  /\ MaxSize \in Int
  /\ {ElasticAddr, KafkaAddr, OutputFolder, DumpRequest, DumpResponse} \subseteq BOOLEAN
  /\ Faults \subseteq FaultKinds

VARIABLES
  Store,       \* Logger.Store: the stores that NewLogger could create
  sWriter,     \* Logger.sWriter: "nil", "open" or "closed"
  asyncqueue,  \* Logger.asyncqueue
  closing,     \* how far Logger.Close has come: "open", "closing", "closed"
  running,     \* the AsyncWrite goroutine has not returned
  todo,        \* the writes AsyncWrite still owes the transaction it received
  saved,       \* per target, the documents it holds, oldest first
  alive,       \* the process has neither exited nor panicked
  nsent,       \* ghost: transactions accepted by asyncqueue
  tried        \* ghost: Save calls made on each store

vars == <<Store, sWriter, asyncqueue, closing, running, todo, saved, alive, nsent, tried>>

-----------------------------------------------------------------------------
(* Documents *)

Transaction == [seq : Nat, id : Ids, match : Verdicts, request : BOOLEAN, response : BOOLEAN]

Name == [id : Ids, suffix : {"", "request", "response"}, match : BOOLEAN]

Tokens == {"nl", "head", "body"}

Document == [seq : Nat, id : Ids, match : Verdicts, part : Parts, name : Name,
             raw : Seq(Tokens), data : Seq(Tokens)]

\* A dump is its head and its body; a dump that failed is empty.
Dump(ok) == IF ok THEN <<"head", "body">> ELSE <<>>

Truncate(s) == IF MaxSize > 0 /\ Len(s) > MaxSize THEN SubSeq(s, 1, MaxSize) ELSE s

\* The file name: the suffix of the part, and .match for a matching response.
StoreName(t, part) ==
  [id     |-> t.id,
   suffix |-> IF DumpRequest \/ DumpResponse THEN part ELSE "",
   match  |-> /\ part = "response"
              /\ ~DumpRequest /\ ~DumpResponse
              /\ t.match = "true"]

\* RawData is the dump with a newline after it, and one before a response.
\* DataString formats Data, which nobody assigns: it is a lone newline.
StoreDocument(t, part, dump) ==
  [seq |-> t.seq, id |-> t.id, match |-> t.match, part |-> part,
   name |-> StoreName(t, part),
   raw  |-> Truncate((IF part = "response" THEN <<"nl">> ELSE <<>>) \o dump \o <<"nl">>),
   data |-> Truncate(<<"nl">>)]

\* The early return of storeWriter: with a dump flag set, the other part is skipped.
Selected(part) ==
  \/ ~DumpRequest /\ ~DumpResponse
  \/ DumpRequest /\ part = "request"
  \/ DumpResponse /\ part = "response"

\* storeWriter: one Save per store, in the order of Logger.Store.
storeWriter(t, part, dump) ==
  IF Selected(part)
  THEN [i \in 1..Len(Store) |-> [to |-> Store[i], doc |-> StoreDocument(t, part, dump)]]
  ELSE <<>>

\* Mutant of structuredWrite: an entry is written without a response, too.
structuredWriteAlways(t, filled, readable) ==
  IF sWriter # "nil" /\ t.match # "false" /\ readable
  THEN <<[to  |-> "swriter",
          doc |-> [seq |-> t.seq, id |-> t.id, match |-> t.match, part |-> "pair",
                   name |-> [id |-> t.id, suffix |-> "", match |-> FALSE],
                   raw |-> <<>>, data |-> <<"head", "body">>]]>>
  ELSE <<>>

\* The structured entry of a pair; it is written only when there is a response,
\* and only when the filters did not reject the transaction.
structuredWrite(t, filled, readable) ==
  IF sWriter # "nil" /\ t.match # "false" /\ filled /\ readable
  THEN <<[to  |-> "swriter",
          doc |-> [seq |-> t.seq, id |-> t.id, match |-> t.match, part |-> "pair",
                   name |-> [id |-> t.id, suffix |-> "", match |-> FALSE],
                   raw |-> <<>>, data |-> <<"head", "body">>]]>>
  ELSE <<>>

-----------------------------------------------------------------------------
(* Construction *)

Fails(kind) == IF kind \in Faults THEN BOOLEAN ELSE {FALSE}

\* Every constructor that fails is reported and left out of Logger.Store.
NewLogger ==
  /\ \E e, k, f \in Fails("new") :
       Store = (IF ElasticAddr /\ ~e THEN <<"elastic">> ELSE <<>>)
                 \o (IF KafkaAddr /\ ~k THEN <<"kafka">> ELSE <<>>)
                 \o (IF ~f THEN <<"file">> ELSE <<>>)
  /\ \E w \in Fails("new") :
       sWriter = IF OutputFormat \in {"jsonl", "yaml"} /\ ~w THEN "open" ELSE "nil"
  /\ asyncqueue = <<>>
  /\ closing = "open"
  /\ running = TRUE
  /\ todo = <<>>
  /\ saved = [d \in Targets |-> <<>>]
  /\ alive = TRUE
  /\ nsent = 0
  /\ tried = [s \in StoreNames |-> 0]

-----------------------------------------------------------------------------
(* The callers' side *)

\* Mutant of Send: the send does not wait for room in the channel.
SendUnbounded(t) ==
  /\ alive
  /\ closing # "closed"
  /\ nsent < MaxSent
  /\ asyncqueue' = Append(asyncqueue, [t EXCEPT !.seq = nsent + 1])
  /\ nsent' = nsent + 1
  /\ UNCHANGED <<Store, sWriter, closing, running, todo, saved, alive, tried>>

\* A send on the channel: it blocks while the channel is full.
Send(t) ==
  /\ alive
  /\ closing # "closed"
  /\ Len(asyncqueue) < QueueCap
  /\ nsent < MaxSent
  /\ asyncqueue' = Append(asyncqueue, [t EXCEPT !.seq = nsent + 1])
  /\ nsent' = nsent + 1
  /\ UNCHANGED <<Store, sWriter, closing, running, todo, saved, alive, tried>>

\* (A nil request is not logged: the call returns without a step.)
LogRequest(id, match) ==
  Send([seq |-> 0, id |-> id, match |-> match, request |-> TRUE, response |-> FALSE])

\* hasRequest: resp.Request is not nil.
LogResponse(id, match, hasRequest) ==
  Send([seq |-> 0, id |-> id, match |-> match, request |-> hasRequest, response |-> TRUE])

\* Sending on the closed channel panics, a caller that is already blocked included.
SendOnClosed ==
  /\ alive
  /\ closing = "closed"
  /\ alive' = FALSE
  /\ UNCHANGED <<Store, sWriter, asyncqueue, closing, running, todo, saved, nsent, tried>>

\* Mutant of CloseWriter: Close forgets the structured file.
CloseWriterForgets ==
  /\ alive
  /\ closing = "open"
  /\ closing' = "closing"
  /\ UNCHANGED <<Store, sWriter, asyncqueue, running, todo, saved, alive, nsent, tried>>

\* Close, first statement: the structured file is closed.
CloseWriter ==
  /\ alive
  /\ closing = "open"
  /\ closing' = "closing"
  /\ sWriter' = IF sWriter = "nil" THEN "nil" ELSE "closed"
  /\ UNCHANGED <<Store, asyncqueue, running, todo, saved, alive, nsent, tried>>

\* Close, second statement: the channel is closed.
CloseQueue ==
  /\ alive
  /\ closing = "closing"
  /\ closing' = "closed"
  /\ UNCHANGED <<Store, sWriter, asyncqueue, running, todo, saved, alive, nsent, tried>>

\* The process ends at an arbitrary point: a signal, a fatal error, a crash.
Halt ==
  /\ alive
  /\ "halt" \in Faults
  /\ alive' = FALSE
  /\ UNCHANGED <<Store, sWriter, asyncqueue, closing, running, todo, saved, nsent, tried>>

-----------------------------------------------------------------------------
(* The AsyncWrite goroutine *)

\* Mutant of Writes: the response is stored before the request.
WritesResponseFirst(t, dumped, filled, readable) ==
  structuredWrite(t, filled, readable)
    \o (IF filled THEN storeWriter(t, "response", Dump(TRUE)) ELSE <<>>)
    \o storeWriter(t, "request", Dump(dumped))

\* Everything AsyncWrite will write for t, in the order in which it writes it:
\* the structured entry, the request to every store, the response to every store.
Writes(t, dumped, filled, readable) ==
  structuredWrite(t, filled, readable)
    \o storeWriter(t, "request", Dump(dumped))
    \o (IF filled THEN storeWriter(t, "response", Dump(TRUE)) ELSE <<>>)

\* Mutant of Receive: "return" where the code goes on, for a transaction without
\* a request and for a dump that failed.
ReceiveReturns ==
  /\ alive
  /\ running
  /\ todo = <<>>
  /\ asyncqueue # <<>>
  /\ asyncqueue' = Tail(asyncqueue)
  /\ LET t == Head(asyncqueue) IN
       \E d \in Fails("dump"), f \in Fails("fill") :
         /\ todo' = IF t.request /\ ~d THEN Writes(t, TRUE, t.response /\ ~f, TRUE) ELSE <<>>
         /\ running' = (t.request /\ ~d)
  /\ UNCHANGED <<Store, sWriter, closing, saved, alive, nsent, tried>>

\* The head of the loop: take a transaction and dump it.  A transaction without
\* a request is skipped.  A failing dump is reported and the loop goes on.
Receive ==
  /\ alive
  /\ running
  /\ todo = <<>>
  /\ asyncqueue # <<>>
  /\ asyncqueue' = Tail(asyncqueue)
  /\ LET t == Head(asyncqueue) IN
       \/ /\ ~t.request
          /\ todo' = <<>>
       \/ /\ t.request
          /\ \E d \in Fails("dump"), f \in Fails("fill"), r \in Fails("dump") :
               todo' = Writes(t, ~d, t.response /\ ~f, ~r)
  /\ UNCHANGED <<Store, sWriter, closing, running, saved, alive, nsent, tried>>

\* What a call may add to its target, as a set of sequences of documents.
\* sWriter.Write: a write to the closed file is lost, and so is a value that cannot
\* be marshalled.
sWriterWrite(doc) ==
  (IF sWriter = "open" THEN {<<doc>>} ELSE {<<>>})
    \cup (IF "marshal" \in Faults THEN {<<>>} ELSE {})

\* Elasticsearch: an upsert, which may have been made when the call fails.
elasticSave(doc, ok) == IF ok THEN {<<doc>>} ELSE {<<>>, <<doc>>}

\* Kafka: the producer is not idempotent and sends a message again when the
\* acknowledgement is lost (up to ten times; here once).
kafkaSave(doc, ok) ==
  {<<doc>>} \cup (IF "retry" \in Faults THEN {<<doc, doc>>} ELSE {})
            \cup (IF ok THEN {} ELSE {<<>>})

\* A file of that name: its text is appended, or as much of it as was written when
\* the error came (all of it, when Close fails).
fileSave(doc, ok) ==
  IF ~OutputFolder THEN {<<>>}
  ELSE IF ok THEN {<<doc>>}
  ELSE {<<>>} \cup {<<[doc EXCEPT !.raw = SubSeq(@, 1, n)]>> : n \in 0..Len(doc.raw)}

storeSave(store, doc, ok) ==
  IF store = "elastic" THEN elasticSave(doc, ok)
  ELSE IF store = "kafka" THEN kafkaSave(doc, ok)
  ELSE fileSave(doc, ok)

\* The write that is due is done, and its target holds docs in addition.
Done(docs) ==
  /\ todo' = Tail(todo)
  /\ saved' = [saved EXCEPT ![Head(todo).to] = @ \o docs]
  /\ UNCHANGED <<Store, sWriter, asyncqueue, closing, running, alive, nsent>>

\* An error of sWriter.Write is reported and the loop goes on.
WriteStructured ==
  /\ alive
  /\ todo # <<>>
  /\ Head(todo).to = "swriter"
  /\ \E docs \in sWriterWrite(Head(todo).doc) : Done(docs)
  /\ UNCHANGED tried

Save ==
  /\ alive
  /\ todo # <<>>
  /\ Head(todo).to \in StoreNames
  /\ \E docs \in storeSave(Head(todo).to, Head(todo).doc, TRUE) : Done(docs)
  /\ tried' = [tried EXCEPT ![Head(todo).to] = @ + 1]

\* Mutant of SaveFails: storeWriter returns at the first store that fails.
SaveFailsReturns ==
  /\ alive
  /\ "save" \in Faults
  /\ todo # <<>>
  /\ Head(todo).to \in StoreNames
  /\ todo' = SelectSeq(Tail(todo), LAMBDA w : w.doc.part # Head(todo).doc.part)
  /\ tried' = [tried EXCEPT ![Head(todo).to] = @ + 1]
  /\ UNCHANGED <<Store, sWriter, asyncqueue, closing, running, saved, alive, nsent>>

\* Mutant of SaveFails: the document that could not be saved is tried again later.
SaveFailsRequeues ==
  /\ alive
  /\ "save" \in Faults
  /\ todo # <<>>
  /\ Head(todo).to \in StoreNames
  /\ todo' = Append(Tail(todo), Head(todo))
  /\ UNCHANGED <<Store, sWriter, asyncqueue, closing, running, saved, alive, nsent, tried>>

\* store.Save returns an error: it is reported and the next store is tried.
SaveFails ==
  /\ alive
  /\ "save" \in Faults
  /\ todo # <<>>
  /\ Head(todo).to \in StoreNames
  /\ Head(todo).to = "file" => OutputFolder
  /\ \E docs \in storeSave(Head(todo).to, Head(todo).doc, FALSE) : Done(docs)
  /\ tried' = [tried EXCEPT ![Head(todo).to] = @ + 1]

\* Mutant of AsyncWriteReturns: the goroutine stops when it sees the channel closed.
AsyncWriteReturnsEarly ==
  /\ alive
  /\ running
  /\ todo = <<>>
  /\ closing = "closed"
  /\ running' = FALSE
  /\ UNCHANGED <<Store, sWriter, asyncqueue, closing, todo, saved, alive, nsent, tried>>

\* The range over the closed channel ends once the channel is empty.
AsyncWriteReturns ==
  /\ alive
  /\ running
  /\ todo = <<>>
  /\ closing = "closed"
  /\ asyncqueue = <<>>
  /\ running' = FALSE
  /\ UNCHANGED <<Store, sWriter, asyncqueue, closing, todo, saved, alive, nsent, tried>>

AsyncWrite == Receive \/ WriteStructured \/ Save \/ SaveFails \/ AsyncWriteReturns

-----------------------------------------------------------------------------
(* Specification *)

Init == NewLogger

Caller ==
  \/ \E id \in Ids, m \in Verdicts : LogRequest(id, m)
  \/ \E id \in Ids, m \in Verdicts, r \in BOOLEAN : LogResponse(id, m, r)
  \/ SendOnClosed
  \/ CloseWriter
  \/ CloseQueue

Next == Caller \/ AsyncWrite \/ Halt

Spec == Init /\ [][Next]_vars

\* The scheduler runs the goroutine and every Save returns; Close, once called, ends.
FairSpec == Spec /\ WF_vars(AsyncWrite) /\ WF_vars(CloseQueue)

-----------------------------------------------------------------------------
(* Properties *)

\* Transactions that AsyncWrite has taken out of the channel, and those it is done with.
Received == nsent - Len(asyncqueue)
Exported == IF todo = <<>> THEN Received ELSE Received - 1

\* Types; the channel never holds more than its capacity.
TypeOK ==
  /\ Store \in Seq(StoreNames)
  /\ sWriter \in {"nil", "open", "closed"}
  /\ asyncqueue \in Seq(Transaction)
  /\ Len(asyncqueue) <= QueueCap
  /\ closing \in {"open", "closing", "closed"}
  /\ running \in BOOLEAN
  /\ todo \in Seq([to : Targets, doc : Document])
  /\ saved \in [Targets -> Seq(Document)]
  /\ alive \in BOOLEAN
  /\ nsent \in Nat
  /\ tried \in [StoreNames -> Nat]

\* The place of a document in the log: by submission, a request before its response.
Rank(doc) == 2 * doc.seq + (IF doc.part = "response" THEN 1 ELSE 0)

\* Why the order holds: the channel is numbered without a gap; what is still to be
\* written belongs to the last transaction received, the request part before the
\* response part; what is already written ranks below all of it.
StoresDistinct == \A i, j \in DOMAIN Store : i # j => Store[i] # Store[j]

QueueNumbered ==
  /\ Len(asyncqueue) <= nsent
  /\ \A i \in DOMAIN asyncqueue : asyncqueue[i].seq = Received + i

TodoInOrder ==
  \A i, j \in DOMAIN todo :
    (i < j /\ todo[i].to = todo[j].to) => Rank(todo[i].doc) < Rank(todo[j].doc)

TodoIsCurrent == \A i \in DOMAIN todo : todo[i].doc.seq = Received

SavedIsOlder ==
  \A d \in Targets : \A i \in DOMAIN saved[d] :
    /\ saved[d][i].seq <= Received
    /\ \A j \in DOMAIN todo : todo[j].to = d => Rank(saved[d][i]) < Rank(todo[j].doc)

\* Every target receives the documents in the order in which the handlers logged
\* the transactions, the request of a transaction before its response, and no
\* document twice (a message that Kafka is sent again excepted, and it comes right
\* after the first) - whichever saves fail and wherever the process stops.
InSubmissionOrder ==
  \A d \in Targets : \A i, j \in DOMAIN saved[d] :
    i < j => \/ Rank(saved[d][i]) < Rank(saved[d][j])
             \/ d = "kafka" /\ Rank(saved[d][i]) = Rank(saved[d][j])

\* The inductive invariant behind InSubmissionOrder: the transactions in the channel,
\* the writes that are owed and the documents written form one ordered log.
OneLog ==
  /\ StoresDistinct
  /\ QueueNumbered
  /\ TodoInOrder
  /\ TodoIsCurrent
  /\ SavedIsOlder
  /\ InSubmissionOrder

\* A store that fails does not cost the other stores a document: the loop of
\* storeWriter has called Save equally often on all of them, but for the document
\* it is just going round with.
EvenHanded ==
  \A i, j \in DOMAIN Store : i < j =>
    /\ tried[Store[i]] - tried[Store[j]] \in {0, 1}
    /\ todo = <<>> => tried[Store[i]] = tried[Store[j]]

\* Once Close has begun, nothing is added to the structured file any more, though
\* AsyncWrite still drains the channel.
StructuredFrozen ==
  [][closing # "open" => saved'["swriter"] = saved["swriter"]]_vars

\* A transaction that the channel accepted is eventually exported, unless the
\* process ends: no failing dump, marshal or save stops the loop of AsyncWrite.
ExportedEventually ==
  \A n \in 1..MaxSent : (nsent >= n) ~> (~alive \/ Exported >= n)

\* What HTTPTransaction is documented to carry ("it contains data of every
\* request/response obtained from proxy"): a message sent to Kafka or Elasticsearch
\* holds the dump.  The run that checks it shows that DataString is a lone newline.
ExportsCarryData ==
  \A d \in {"kafka", "elastic"} : \A i \in DOMAIN saved[d] :
    \E k \in DOMAIN saved[d][i].data : saved[d][i].data[k] # "nl"

\* The logger implements the promise of TrafficLog: what a target holds, with each
\* document reduced to its transaction and part, grows only by the next parts of the
\* transaction received last, whichever faults happen and however Close falls.
EntryOf(doc) == [seq |-> doc.seq, response |-> doc.part = "response"]
Entries(docs) == [i \in 1..Len(docs) |-> EntryOf(docs[i])]

T == INSTANCE TrafficLog WITH
       Resends  <- {"kafka"},
       Copies   <- 2,
       accepted <- nsent,
       taken    <- Received,
       log      <- [d \in Targets |-> Entries(saved[d])]

KeepsThePromise == T!TSpec

\* After Close the goroutine returns, and only when everything that was in the
\* channel has been exported (unless a caller logs after Close and panics).
CloseDrains ==
  (closing = "closed") ~> (~alive \/ (~running /\ Exported = nsent))

=============================================================================
