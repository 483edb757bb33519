-------------------------------- MODULE Bodies --------------------------------
(***************************************************************************)
(* The body of one request, which the handler's goroutine and the logger's *)
(* read at the same time: ModifyRequest reads it for the filters and       *)
(* rebuilds it for match-and-replace, LogRequest hands the very request to *)
(* AsyncWrite, and while the round trip sends req.Body, AsyncWrite reads   *)
(* and replaces it - once for the request, once more for the response.     *)
(* ContentLength is -1: a body that is cut short is not noticed upstream.  *)
(* Reading fails where a client stops sending before the end of its body,  *)
(* and where a replacement made the text shorter than its Content-Length.  *)
(***************************************************************************)
EXTENDS Integers, Sequences, SequencesExt

CONSTANT Chunks   \* the pieces in which a body is read

ASSUME ChunksAssumption == Chunks \in Nat \ {0}

Whole == [i \in 1..Chunks |-> i]
Nil   == 0

\* http.body is a stream: read once, and an error once it is closed; a buffer is read
\* once too, closing it does nothing; a ReusableReadCloser starts again after its end.
Kinds == {"stream", "buffer", "reusable"}

\* What reading reports behind the last chunk: the end; that fewer bytes came than the
\* Content-Length says, once, and the end from then on; or an error, each time.
Ends == {"eof", "short", "error"}

\* -vv, and whether there is a structured writer that takes this exchange.
OptionsType == [{"RequestDSL", "RequestMatchReplaceDSL", "VeryVerbose", "sWriter"} -> BOOLEAN]

VARIABLES
  options,
  readers,   \* the readers made so far: kind, contents, what is left, end, whether closed
  body,      \* req.Body: one of them, or Nil
  handler,   \* where the handler's goroutine is
  taken,     \* the reader that the round trip sends
  sent,      \* what the upstream got
  answered,  \* whether LogResponse has been called
  queue,     \* asyncqueue
  writer,    \* where AsyncWrite is
  entry,     \* the entry it handles
  call,      \* who called DumpRequest: AsyncWrite or NewHttpRequestData
  saved,     \* DumpRequest's save
  buf,       \* what the present reading got
  dump,      \* the first dump of the request; Torn before it
  record,    \* the body in the structured log; Torn before it
  touched,   \* ghost: the readers that AsyncWrite read of, or read the end of
  cut        \* ghost: who cut the body short: no one, the client, or the replacement

handlerVars == <<handler, taken, sent, answered>>
writerVars  == <<writer, entry, call, saved, buf, dump, record, touched>>
vars == <<options, readers, body, queue, handlerVars, writerVars, cut>>

NotYet == <<Nil>>

-----------------------------------------------------------------------------
(* Readers *)

Reader(kind, chunks, end) ==
  [kind |-> kind, all |-> chunks, left |-> chunks, end |-> end, closed |-> FALSE]
Buffer(chunks) == Reader("buffer", chunks, "eof")

\* Reading a reader yields the next chunk, or its end, or fails.
HasNext(r) == ~readers[r].closed /\ readers[r].left # <<>>
AtEnd(r)   == ~readers[r].closed /\ readers[r].left = <<>> /\ readers[r].end = "eof"
Fails(r)   == readers[r].closed \/ (readers[r].left = <<>> /\ readers[r].end # "eof")
Next1(r)   == Head(readers[r].left)

AfterNext(r) == [readers EXCEPT ![r].left = Tail(@)]
AfterEnd(r)  == [readers EXCEPT ![r].left = IF readers[r].kind = "reusable"
                                            THEN readers[r].all ELSE @]
AfterFailure(r) == [readers EXCEPT ![r].end = IF @ = "short" THEN "eof" ELSE @]
Closed(rs, r) == [rs EXCEPT ![r].closed = rs[r].kind = "stream"]

\* The reader r once it has been read up to a failure, by one who has it to himself.
Drained(r) == [AfterFailure(r) EXCEPT ![r].left = <<>>]

Init ==
  /\ options \in OptionsType
  /\ \/ readers = <<Reader("reusable", Whole, "eof")>>
     \/ \E end \in Ends : readers = <<Reader("stream", Whole, end)>>
  /\ cut = IF readers[1].end = "eof" THEN "no" ELSE "client"
  /\ body = 1
  /\ handler = "filter"
  /\ taken = Nil
  /\ sent = <<>>
  /\ answered = FALSE
  /\ queue = <<>>
  /\ writer = "idle"
  /\ entry = "request"
  /\ call = "store"
  /\ saved = Nil
  /\ buf = <<>>
  /\ dump = NotYet
  /\ record = NotYet
  /\ touched = {}

-----------------------------------------------------------------------------
(* The handler's goroutine *)

\* Mutant of HTTPRequestToMap: the body that was read is not put back.
HTTPRequestToMapDrains ==
  /\ handler = "filter"
  /\ handler' = "replace"
  /\ readers' = IF options.RequestDSL
                THEN [readers EXCEPT ![body].left = <<>>]
                ELSE readers
  /\ UNCHANGED <<options, body, queue, taken, sent, answered, writerVars, cut>>

\* For every filter: the body is read and put back as a buffer.  Nobody else has the
\* request yet, and a second filter finds and leaves what the first one left.  If reading
\* fails, the body stays as it is, drained: a second filter may find an empty one.
HTTPRequestToMap ==
  /\ handler = "filter"
  /\ handler' = "replace"
  /\ \/ /\ ~options.RequestDSL
        /\ UNCHANGED <<readers, body>>
     \/ /\ options.RequestDSL
        /\ readers[body].end = "eof"
        /\ readers' = Append(readers, Buffer(readers[body].left))
        /\ body' = Len(readers')
     \/ /\ options.RequestDSL
        /\ readers[body].end # "eof"
        /\ \/ readers' = Drained(body) /\ UNCHANGED body
           \/ /\ readers[body].end = "short"
              /\ readers' = Append(Drained(body), Buffer(<<>>))
              /\ body' = Len(readers')
  /\ UNCHANGED <<options, queue, taken, sent, answered, writerVars, cut>>

\* Mutant of MatchReplaceRequest: an expression that fails leaves the body as read.
MatchReplaceRequestDrains ==
  /\ handler = "replace"
  /\ handler' = "log"
  /\ readers' = IF options.RequestMatchReplaceDSL
                THEN [readers EXCEPT ![body].left = <<>>]
                ELSE readers
  /\ UNCHANGED <<options, body, queue, taken, sent, answered, writerVars, cut>>

\* The request is dumped, which leaves a buffer.  If the expressions evaluate and the
\* result parses, its body is that of the request parsed: as much of the new text as the
\* Content-Length among its headers says, or an error where the text ends before that.
Parsed(text) ==
  \E n \in 0..Len(text), end \in Ends :
    /\ readers' = Append(readers, Reader("stream", SubSeq(text, 1, n), end))
    /\ cut' = IF n = Len(text) /\ end = "eof" THEN cut
              ELSE IF cut = "no" THEN "replaced" ELSE cut

MatchReplaceRequest ==
  /\ handler = "replace"
  /\ handler' = "log"
  /\ \/ /\ ~options.RequestMatchReplaceDSL
        /\ UNCHANGED <<readers, body, cut>>
     \/ /\ options.RequestMatchReplaceDSL
        /\ readers[body].end = "eof"
        /\ \/ readers' = Append(readers, Buffer(readers[body].left)) /\ UNCHANGED cut
           \/ Parsed(readers[body].left)
        /\ body' = Len(readers')
     \/ /\ options.RequestMatchReplaceDSL
        /\ readers[body].end # "eof"
        /\ readers' = Drained(body)
        /\ UNCHANGED <<body, cut>>
  /\ UNCHANGED <<options, queue, taken, sent, answered, writerVars>>

\* LogRequest; the handler and the logger have the request from now on.
LogRequest ==
  /\ handler = "log"
  /\ handler' = "roundtrip"
  /\ queue' = Append(queue, "request")
  /\ UNCHANGED <<options, readers, body, taken, sent, answered, writerVars, cut>>

\* The round trip begins: the transport keeps req.Body as it is at this moment.
RoundTrip ==
  /\ handler = "roundtrip"
  /\ taken' = body
  /\ handler' = IF body = Nil THEN "sent" ELSE "send"
  /\ UNCHANGED <<options, readers, body, queue, sent, answered, writerVars, cut>>

\* The body is sent up to its end, or until reading it fails, and closed.
Send ==
  /\ handler = "send"
  /\ \/ /\ HasNext(taken)
        /\ sent' = Append(sent, Next1(taken))
        /\ readers' = AfterNext(taken)
        /\ UNCHANGED handler
     \/ /\ AtEnd(taken)
        /\ readers' = Closed(AfterEnd(taken), taken)
        /\ handler' = "sent"
        /\ UNCHANGED sent
     \/ /\ Fails(taken)
        /\ readers' = Closed(AfterFailure(taken), taken)
        /\ handler' = "sent"
        /\ UNCHANGED sent
  /\ UNCHANGED <<options, body, queue, taken, answered, writerVars, cut>>

\* LogResponse, with resp.Request: an upstream may answer before it has the whole body.
LogResponse ==
  /\ handler \in {"send", "sent"}
  /\ ~answered
  /\ answered' = TRUE
  /\ queue' = Append(queue, "response")
  /\ UNCHANGED <<options, readers, body, handler, taken, sent, writerVars, cut>>

-----------------------------------------------------------------------------
(* AsyncWrite *)

Receive ==
  /\ writer = "idle"
  /\ queue # <<>>
  /\ entry' = Head(queue)
  /\ queue' = Tail(queue)
  /\ call' = "store"
  /\ buf' = <<>>
  /\ writer' = "drain"
  /\ UNCHANGED <<options, readers, body, saved, dump, record, touched, cut, handlerVars>>

\* AsyncWrite reads on in req.Body.
ReadOn ==
  /\ HasNext(body)
  /\ buf' = Append(buf, Next1(body))
  /\ readers' = AfterNext(body)
  /\ touched' = touched \cup {body}

\* What follows the dump: -vv, then the structured writer.
AfterDump ==
  IF call = "store" /\ options.VeryVerbose THEN "debug"
  ELSE IF call = "store" /\ options.sWriter THEN "data" ELSE "idle"

Dumped(chunks) ==
  dump' = IF entry = "request" /\ call = "store" THEN chunks ELSE dump

\* DumpRequest reads the body and closes it, keeps what it read in save, and in
\* req.Body to be dumped; if reading fails, at once or on the way, nothing is dumped and
\* req.Body stays as far as it was read.
DrainBody ==
  /\ writer = "drain"
  /\ \/ /\ ReadOn
        /\ UNCHANGED <<writer, dump, body, saved>>
     \/ /\ AtEnd(body)
        /\ readers' = Closed(AfterEnd(body), body)
                        \o <<Buffer(buf), Buffer(buf)>>
        /\ saved' = Len(readers) + 1
        /\ body' = Len(readers) + 2
        /\ buf' = <<>>
        /\ writer' = "copy"
        /\ touched' = touched \cup {body}
        /\ UNCHANGED dump
     \/ /\ Fails(body)
        /\ readers' = AfterFailure(body)
        /\ Dumped(<<>>)
        /\ writer' = AfterDump
        /\ buf' = <<>>
        /\ touched' = touched \cup {body}
        /\ UNCHANGED <<body, saved>>
  /\ UNCHANGED <<options, queue, handlerVars, entry, call, record, cut>>

\* ... copies req.Body to the dump, and puts save back.
CopyBody ==
  /\ writer = "copy"
  /\ \/ /\ ReadOn
        /\ UNCHANGED <<writer, dump, body>>
     \/ /\ AtEnd(body)
        /\ Dumped(buf)
        /\ body' = saved
        /\ writer' = AfterDump
        /\ buf' = <<>>
        /\ touched' = touched \cup {body}
        /\ UNCHANGED readers
  /\ UNCHANGED <<options, queue, handlerVars, entry, call, saved, record, cut>>

AfterDebug == IF options.sWriter THEN "data" ELSE "idle"

\* Mutant of debugLogRequest: without the body, req.Body is not put back.
debugLogRequestNil ==
  /\ \/ /\ writer = "debug"
        /\ ReadOn
        /\ UNCHANGED <<writer, body, saved>>
     \/ /\ writer = "debug"
        /\ ~HasNext(body)
        /\ saved' = body
        /\ body' = Nil
        /\ writer' = "headers"
        /\ UNCHANGED <<readers, touched, buf>>
     \/ /\ writer = "headers"
        /\ buf' = <<>>
        /\ writer' = "idle"
        /\ UNCHANGED <<readers, touched, body, saved>>
  /\ UNCHANGED <<options, queue, handlerVars, entry, call, dump, record, cut>>

\* -vv reads the body, up to its end or a failure that it ignores, and does not put it
\* back; if it is not printable (an empty one is),
\* the request is dumped again without it, and req.Body is nil meanwhile.
debugLogRequest ==
  /\ \/ /\ writer = "debug"
        /\ ReadOn
        /\ UNCHANGED <<writer, body, saved>>
     \/ /\ writer = "debug"
        /\ ~HasNext(body)
        /\ saved' = body
        /\ \/ buf # <<>> /\ body' = Nil /\ writer' = "headers"
           \/ body' = body /\ writer' = AfterDebug
        /\ buf' = <<>>
        /\ readers' = AfterFailure(body)
        /\ UNCHANGED touched
     \/ /\ writer = "headers"
        /\ body' = saved
        /\ writer' = AfterDebug
        /\ UNCHANGED <<readers, touched, buf, saved>>
  /\ UNCHANGED <<options, queue, handlerVars, entry, call, dump, record, cut>>

\* Mutant of NewHttpRequestData: the body that was read is not put back.
NewHttpRequestDataDrains ==
  /\ writer = "data"
  /\ \/ /\ ReadOn
        /\ UNCHANGED <<writer, call, body, record>>
     \/ /\ ~HasNext(body)
        /\ record' = IF entry = "response" THEN buf ELSE record
        /\ buf' = <<>>
        /\ writer' = "idle"
        /\ UNCHANGED <<readers, touched, body, call>>
  /\ UNCHANGED <<options, queue, handlerVars, entry, saved, dump, cut>>

\* The body is read and put back as a buffer, and dumped; without a response the data
\* are not written.  If reading fails, nothing is.
NewHttpRequestData ==
  /\ writer = "data"
  /\ \/ /\ ReadOn
        /\ UNCHANGED <<writer, call, body, record>>
     \/ /\ AtEnd(body)
        /\ readers' = Append(AfterEnd(body), Buffer(buf))
        /\ body' = Len(readers')
        /\ record' = IF entry = "response" THEN buf ELSE record
        /\ buf' = <<>>
        /\ call' = "data"
        /\ writer' = "drain"
        /\ touched' = touched \cup {body}
     \/ /\ Fails(body)
        /\ readers' = AfterFailure(body)
        /\ buf' = <<>>
        /\ writer' = "idle"
        /\ touched' = touched \cup {body}
        /\ UNCHANGED <<body, call, record>>
  /\ UNCHANGED <<options, queue, handlerVars, entry, saved, dump, cut>>

Next ==
  \/ HTTPRequestToMap \/ MatchReplaceRequest \/ LogRequest \/ RoundTrip \/ Send \/ LogResponse
  \/ Receive \/ DrainBody \/ CopyBody \/ debugLogRequest \/ NewHttpRequestData

Spec == Init /\ [][Next]_vars

-----------------------------------------------------------------------------
(* Properties *)

ChunkSeq == Seq(1..Chunks)

\* Types; req.Body is nil exactly while -vv dumps the request without its body.
TypeOK ==
  /\ options \in OptionsType
  /\ \A r \in DOMAIN readers :
       /\ readers[r].kind \in Kinds
       /\ readers[r].all \in ChunkSeq /\ IsSuffix(readers[r].left, readers[r].all)
       /\ readers[r].end \in Ends
       /\ readers[r].closed \/ readers[r].end # "eof" => readers[r].kind = "stream"
  /\ {body, taken, saved} \subseteq DOMAIN readers \cup {Nil}
  /\ body = Nil <=> writer = "headers"
  /\ handler \in {"filter", "replace", "log", "roundtrip", "send", "sent"}
  /\ {sent, buf} \subseteq ChunkSeq
  /\ {dump, record} \subseteq ChunkSeq \cup {NotYet}
  /\ answered \in BOOLEAN
  /\ queue \in Seq({"request", "response"})
  /\ writer \in {"idle", "drain", "copy", "debug", "headers", "data"}
  /\ entry \in {"request", "response"}
  /\ call \in {"store", "data"}
  /\ touched \subseteq DOMAIN readers
  /\ cut \in {"no", "client", "replaced"}

\* Without -vv the logger leaves a body that nobody cut as it found it: whenever
\* AsyncWrite is between two entries and the round trip has not begun, req.Body is whole,
\* whatever filters, match-and-replace, the dump and the structured data made of it, and
\* so is the dump.
LeftAsFound ==
  (/\ ~options.VeryVerbose /\ cut = "no"
   /\ writer = "idle" /\ handler \in {"filter", "replace", "log", "roundtrip"})
    => /\ ~readers[body].closed /\ readers[body].left = Whole
       /\ dump \in {NotYet, Whole}

\* Without -vv, a body that nobody cut and only the round trip has read reaches the
\* upstream whole, whenever during the dumps of the logger the round trip took it.
AloneIsWhole ==
  (~options.VeryVerbose /\ cut = "no" /\ handler = "sent" /\ taken \notin touched)
    => sent = Whole

\* When both read the same body, each may miss chunks, but a chunk that the upstream
\* missed of a body that nobody cut is in the log - unless it is the connection's stream,
\* whose reading fails for the second when the first closes it.
NotLostTwice ==
  (/\ handler = "sent" /\ dump # NotYet /\ cut = "no"
   /\ taken = Nil \/ readers[taken].kind # "stream")
    => 1..Chunks \subseteq ToSet(sent) \cup ToSet(dump)

=============================================================================
