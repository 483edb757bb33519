----------------------------- MODULE BodiesProofs -----------------------------
(***************************************************************************)
(* Proofs about the shared body, for any number of chunks and any kind of  *)
(* body, of a body that neither the client nor match-and-replace cut:      *)
(* without -vv, the logger leaves it as it found it until the round trip   *)
(* begins, and if the round trip has it to itself it reaches the upstream  *)
(* whole; with -vv or without, what the upstream missed of it is in the    *)
(* log, unless the body is the connection's stream.                        *)
(***************************************************************************)
EXTENDS Bodies, TLAPS

-----------------------------------------------------------------------------
(* What was read of a body, and what is left of it *)

Parts(b, l) ==
  /\ b \in Seq(Nat) /\ l \in Seq(Nat)
  /\ Len(b) + Len(l) = Chunks
  /\ \A i \in 1..Len(b) : b[i] = i
  /\ \A i \in 1..Len(l) : l[i] = Len(b) + i

LEMMA PartsRead ==
  ASSUME NEW b, NEW l, Parts(b, l), l # <<>>
  PROVE  Parts(Append(b, Head(l)), Tail(l))
<1>1. Len(l) > 0
  BY DEF Parts
<1>2. Head(l) = Len(b) + 1 /\ Head(l) \in Nat
  BY <1>1 DEF Parts
<1>3. /\ Append(b, Head(l)) \in Seq(Nat) /\ Tail(l) \in Seq(Nat)
      /\ Len(Append(b, Head(l))) = Len(b) + 1 /\ Len(Tail(l)) = Len(l) - 1
  BY <1>1, <1>2 DEF Parts
<1>4. \A i \in 1..(Len(b) + 1) : Append(b, Head(l))[i] = i
  BY <1>2 DEF Parts
<1>5. \A i \in 1..(Len(l) - 1) : Tail(l)[i] = Len(b) + 1 + i
  BY <1>1 DEF Parts
<1> QED BY <1>1, <1>3, <1>4, <1>5 DEF Parts

LEMMA WholeSeq == Whole \in Seq(Nat) /\ Len(Whole) = Chunks /\ \A i \in 1..Chunks : Whole[i] = i
BY ChunksAssumption DEF Whole

LEMMA PartsAll == Parts(<<>>, Whole)
<1>1. <<>> \in Seq(Nat) /\ Len(<<>>) = 0
  OBVIOUS
<1> QED BY <1>1, WholeSeq, ChunksAssumption DEF Parts

LEMMA PartsLeft ==
  ASSUME NEW l, Parts(<<>>, l)
  PROVE  l = Whole
<1>1. l \in Seq(Nat) /\ Len(l) = Chunks /\ \A i \in 1..Chunks : l[i] = i
  BY DEF Parts
<1>2. l = [i \in 1..Len(l) |-> l[i]]
  BY <1>1
<1> QED BY <1>1, <1>2 DEF Whole

LEMMA PartsDone ==
  ASSUME NEW b, Parts(b, <<>>)
  PROVE  b = Whole
<1>1. b \in Seq(Nat) /\ Len(b) = Chunks /\ \A i \in 1..Chunks : b[i] = i
  BY ChunksAssumption DEF Parts
<1>2. b = [i \in 1..Len(b) |-> b[i]]
  BY <1>1
<1> QED BY <1>1, <1>2 DEF Whole

-----------------------------------------------------------------------------
(* Readers *)

Readers == [kind : Kinds, all : Seq(Nat), left : Seq(Nat), end : Ends, closed : BOOLEAN]

ReadersOK == readers \in Seq(Readers)

\* rs and readers have the same readers up to the end of readers, but for r.
SameBut(rs, r) ==
  /\ rs \in Seq(Readers)
  /\ Len(rs) >= Len(readers)
  /\ \A k \in 1..Len(readers) : k # r => rs[k] = readers[k]

LEMMA NextReaders ==
  ASSUME ReadersOK, NEW r \in DOMAIN readers, HasNext(r)
  PROVE  /\ SameBut(AfterNext(r), r) /\ Len(AfterNext(r)) = Len(readers)
         /\ AfterNext(r)[r].left = Tail(readers[r].left) /\ ~AfterNext(r)[r].closed
         /\ AfterNext(r)[r].end = readers[r].end
<1>1. readers[r] \in Readers
  BY DEF ReadersOK
<1>2. readers[r].left # <<>> /\ ~readers[r].closed
  BY DEF HasNext
<1>3. Tail(readers[r].left) \in Seq(Nat)
  BY <1>1, <1>2 DEF Readers
<1>4. [readers[r] EXCEPT !.left = Tail(readers[r].left)] \in Readers
  BY <1>1, <1>3 DEF Readers
<1>5. AfterNext(r) = [readers EXCEPT ![r] = [readers[r] EXCEPT !.left = Tail(readers[r].left)]]
  BY DEF AfterNext
<1>6. AfterNext(r) \in Seq(Readers) /\ Len(AfterNext(r)) = Len(readers)
  BY <1>4, <1>5 DEF ReadersOK
<1>7. AfterNext(r)[r] = [readers[r] EXCEPT !.left = Tail(readers[r].left)]
  BY <1>5
<1>8. /\ AfterNext(r)[r].left = Tail(readers[r].left) /\ ~AfterNext(r)[r].closed
      /\ AfterNext(r)[r].end = readers[r].end
  BY <1>1, <1>2, <1>7 DEF Readers
<1>9. \A k \in 1..Len(readers) : k # r => AfterNext(r)[k] = readers[k]
  BY <1>5 DEF ReadersOK
<1>10. Len(readers) \in Nat
  BY DEF ReadersOK
<1> QED BY <1>6, <1>8, <1>9, <1>10 DEF SameBut

LEMMA TwoMore ==
  ASSUME NEW S, NEW s \in Seq(S), NEW g \in S
  PROVE  /\ s \o <<g, g>> \in Seq(S) /\ Len(s \o <<g, g>>) = Len(s) + 2
         /\ (s \o <<g, g>>)[Len(s) + 1] = g /\ (s \o <<g, g>>)[Len(s) + 2] = g
         /\ \A k \in 1..Len(s) : (s \o <<g, g>>)[k] = s[k]
OBVIOUS

\* A reader is closed.
LEMMA CloseReader ==
  ASSUME NEW rs \in Seq(Readers), NEW r \in DOMAIN rs
  PROVE  /\ Closed(rs, r) \in Seq(Readers) /\ Len(Closed(rs, r)) = Len(rs)
         /\ \A k \in 1..Len(rs) : k # r => Closed(rs, r)[k] = rs[k]
<1>1. PICK g : g = [rs[r] EXCEPT !.closed = rs[r].kind = "stream"]
  OBVIOUS
<1>2. rs[r] \in Readers
  OBVIOUS
<1>3. g \in Readers
  BY <1>1, <1>2 DEF Readers
<1>4. Closed(rs, r) = [rs EXCEPT ![r] = g]
  BY <1>1 DEF Closed
<1>5. Closed(rs, r) \in Seq(Readers) /\ Len(Closed(rs, r)) = Len(rs)
  BY <1>3, <1>4
<1>6. \A k \in 1..Len(rs) : k # r => Closed(rs, r)[k] = rs[k]
  BY <1>4
<1> QED BY <1>5, <1>6

\* A reader is replaced by what became of it, and perhaps closed.
LEMMA ChangeReader ==
  ASSUME ReadersOK, NEW r \in DOMAIN readers, NEW one \in Readers,
         NEW rs, rs = [readers EXCEPT ![r] = one]
  PROVE  /\ SameBut(rs, r) /\ Len(rs) = Len(readers)
         /\ SameBut(Closed(rs, r), r) /\ Len(Closed(rs, r)) = Len(readers)
<1>1. /\ rs \in Seq(Readers) /\ Len(rs) = Len(readers)
      /\ \A k \in 1..Len(readers) : k # r => rs[k] = readers[k]
      /\ r \in DOMAIN rs
  BY DEF ReadersOK
<1>2. Len(readers) \in Nat
  BY DEF ReadersOK
<1>3. PICK cl : cl = Closed(rs, r)
  OBVIOUS
<1>4. cl \in Seq(Readers) /\ Len(cl) = Len(rs) /\ \A k \in 1..Len(rs) : k # r => cl[k] = rs[k]
  BY <1>1, <1>3, CloseReader
<1>5. SameBut(rs, r)
  BY <1>1, <1>2 DEF SameBut
<1>6. SameBut(cl, r)
  BY <1>1, <1>2, <1>4 DEF SameBut
<1> QED BY <1>1, <1>3, <1>4, <1>5, <1>6

LEMMA EndReaders ==
  ASSUME ReadersOK, NEW r \in DOMAIN readers
  PROVE  /\ SameBut(AfterEnd(r), r) /\ Len(AfterEnd(r)) = Len(readers)
         /\ SameBut(Closed(AfterEnd(r), r), r) /\ Len(Closed(AfterEnd(r), r)) = Len(readers)
<1>1. PICK left : left = IF readers[r].kind = "reusable" THEN readers[r].all ELSE readers[r].left
  OBVIOUS
<1>2. PICK one : one = [readers[r] EXCEPT !.left = left]
  OBVIOUS
<1>3. readers[r] \in Readers
  BY DEF ReadersOK
<1>4. left \in Seq(Nat)
  BY <1>1, <1>3 DEF Readers
<1>5. one \in Readers
  BY <1>2, <1>3, <1>4 DEF Readers
<1>6. PICK rs : rs = AfterEnd(r)
  OBVIOUS
<1>7. rs = [readers EXCEPT ![r] = one]
  BY <1>1, <1>2, <1>6 DEF AfterEnd
<1>8. /\ SameBut(rs, r) /\ Len(rs) = Len(readers)
      /\ SameBut(Closed(rs, r), r) /\ Len(Closed(rs, r)) = Len(readers)
  BY <1>5, <1>7, ChangeReader
<1> QED BY <1>6, <1>8

LEMMA FailReaders ==
  ASSUME ReadersOK, NEW r \in DOMAIN readers
  PROVE  /\ SameBut(AfterFailure(r), r) /\ Len(AfterFailure(r)) = Len(readers)
         /\ SameBut(Closed(AfterFailure(r), r), r) /\ Len(Closed(AfterFailure(r), r)) = Len(readers)
<1>1. PICK end : end = IF readers[r].end = "short" THEN "eof" ELSE readers[r].end
  OBVIOUS
<1>2. PICK one : one = [readers[r] EXCEPT !.end = end]
  OBVIOUS
<1>3. readers[r] \in Readers
  BY DEF ReadersOK
<1>4. end \in Ends
  BY <1>1, <1>3 DEF Readers, Ends
<1>5. one \in Readers
  BY <1>2, <1>3, <1>4 DEF Readers
<1>6. PICK rs : rs = AfterFailure(r)
  OBVIOUS
<1>7. rs = [readers EXCEPT ![r] = one]
  BY <1>1, <1>2, <1>6 DEF AfterFailure
<1>8. /\ SameBut(rs, r) /\ Len(rs) = Len(readers)
      /\ SameBut(Closed(rs, r), r) /\ Len(Closed(rs, r)) = Len(readers)
  BY <1>5, <1>7, ChangeReader
<1> QED BY <1>6, <1>8

LEMMA AddReader ==
  ASSUME NEW rs \in Seq(Readers), NEW kind \in Kinds, NEW c \in Seq(Nat)
  PROVE  /\ Append(rs, Reader(kind, c, "eof")) \in Seq(Readers)
         /\ Len(Append(rs, Reader(kind, c, "eof"))) = Len(rs) + 1
         /\ Append(rs, Reader(kind, c, "eof"))[Len(rs) + 1] = Reader(kind, c, "eof")
         /\ \A k \in 1..Len(rs) : Append(rs, Reader(kind, c, "eof"))[k] = rs[k]
<1>1. Reader(kind, c, "eof") \in Readers
  BY DEF Reader, Readers, Ends
<1> QED BY <1>1

-----------------------------------------------------------------------------
(* The inductive invariant.  It says nothing once -vv has drained the body, *)
(* and nothing of a body that was cut.                                     *)

Early == handler \in {"filter", "replace", "log", "roundtrip"}

\* Of reader r of rs, b has been read, and the rest is left in it, up to its end.
ReadOf(rs, r, b) == ~rs[r].closed /\ rs[r].end = "eof" /\ Parts(b, rs[r].left)

Places ==
  /\ ReadersOK
  /\ handler \in {"filter", "replace", "log", "roundtrip", "send", "sent"}
  /\ writer \in {"idle", "drain", "copy", "data"}
  /\ body \in DOMAIN readers
  /\ writer = "copy" => saved \in DOMAIN readers
  /\ touched \subseteq DOMAIN readers
  /\ buf \in Seq(Nat)

\* Until the round trip begins the logger has the body to itself: what it has read
\* and what it has not are the whole, and in the end it puts a fresh one back.
Keeps ==
  Early =>
    /\ handler # "roundtrip" => writer = "idle" /\ queue = <<>>
    /\ queue \in {<<>>, <<"request">>}
    /\ writer = "idle" => ReadOf(readers, body, <<>>)
    /\ writer # "idle" => ReadOf(readers, body, buf)
    /\ writer # "idle" /\ body \notin touched => buf = <<>>
    /\ writer = "copy" => saved # body /\ ReadOf(readers, saved, <<>>)
    /\ dump \in {NotYet, Whole}
    /\ sent = <<>>

\* From then on, a reader that the logger has not touched is read by the round trip only.
Sends ==
  ~Early =>
    /\ taken \in DOMAIN readers
    /\ taken \notin touched /\ handler = "send" => ReadOf(readers, taken, sent)
    /\ taken \notin touched /\ handler = "sent" => sent = Whole

BodyInv == ~options.VeryVerbose /\ cut = "no" => Places /\ Keeps /\ Sends

LEMMA InitBody == Init => BodyInv
<1> SUFFICES ASSUME Init, cut = "no" PROVE BodyInv
  BY DEF BodyInv
<1>1. PICK kind \in Kinds, end \in Ends : readers = <<Reader(kind, Whole, end)>>
  BY DEF Init, Kinds, Ends
<1>2. Reader(kind, Whole, end) \in Readers
  BY WholeSeq DEF Reader, Readers
<1>3. readers[1] = Reader(kind, Whole, end)
  BY <1>1
<1>4. end = "eof"
  BY <1>3 DEF Init, Reader
<1>5. ReadersOK /\ 1 \in DOMAIN readers
  BY <1>1, <1>2 DEF ReadersOK
<1>6. ReadOf(readers, 1, <<>>)
  BY <1>3, <1>4, PartsAll DEF ReadOf, Reader
<1> QED BY <1>5, <1>6 DEF Init, BodyInv, Places, Keeps, Sends, Early

-----------------------------------------------------------------------------
(* The steps of the handler *)

\* A body that is put back in place of the one read is as fresh as that.
LEMMA PutBack ==
  ASSUME ReadersOK, body \in DOMAIN readers, NEW kind \in Kinds, NEW b,
         ReadOf(readers, body, b)
  PROVE  LET rs == Append(readers, Reader(kind, readers[body].left, "eof"))
         IN  /\ rs \in Seq(Readers) /\ Len(rs) = Len(readers) + 1
             /\ ReadOf(rs, Len(rs), b)
<1> DEFINE c  == readers[body].left
           rs == Append(readers, Reader(kind, c, "eof"))
<1>1. c \in Seq(Nat)
  BY DEF ReadOf, Parts
<1>2. /\ rs \in Seq(Readers) /\ Len(rs) = Len(readers) + 1
      /\ rs[Len(readers) + 1] = Reader(kind, c, "eof")
  BY <1>1, AddReader DEF ReadersOK
<1>3. /\ ~Reader(kind, c, "eof").closed /\ Reader(kind, c, "eof").left = c
      /\ Reader(kind, c, "eof").end = "eof"
  BY DEF Reader
<1> QED BY <1>2, <1>3 DEF ReadOf

\* A body that is whole is put back by HTTPRequestToMap and MatchReplaceRequest.
LEMMA RebuildBody ==
  ASSUME Places, Keeps, handler \in {"filter", "replace"}, handler' \in {"replace", "log"},
         UNCHANGED <<options, queue, taken, sent, answered, writerVars>>,
         \/ UNCHANGED <<readers, body>>
         \/ \E kind \in Kinds : /\ readers' = Append(readers, Reader(kind, readers[body].left, "eof"))
                                /\ body' = Len(readers')
  PROVE  Places' /\ Keeps' /\ Sends'
<1>1. Early /\ Early' /\ writer = "idle" /\ queue = <<>> /\ ReadOf(readers, body, <<>>)
  BY DEF Keeps, Early
<1>2. UNCHANGED <<queue, sent, writer, saved, buf, dump, touched>>
  BY DEF writerVars
<1>3. /\ readers' \in Seq(Readers) /\ Len(readers') >= Len(readers) /\ body' \in DOMAIN readers'
      /\ ReadOf(readers', body', <<>>)
  <2>1. CASE UNCHANGED <<readers, body>>
    BY <2>1, <1>1 DEF Places, ReadersOK
  <2>2. CASE \E kind \in Kinds : /\ readers' = Append(readers, Reader(kind, readers[body].left, "eof"))
                                 /\ body' = Len(readers')
    <3>1. PICK kind \in Kinds : /\ readers' = Append(readers, Reader(kind, readers[body].left, "eof"))
                                /\ body' = Len(readers')
      BY <2>2
    <3>2. /\ readers' \in Seq(Readers) /\ Len(readers') = Len(readers) + 1
          /\ ReadOf(readers', Len(readers'), <<>>)
      BY <1>1, <3>1, PutBack DEF Places
    <3>3. Len(readers) \in Nat
      BY DEF Places, ReadersOK
    <3> QED BY <3>1, <3>2, <3>3
  <2> QED BY <2>1, <2>2
<1>4. Places'
  BY <1>1, <1>2, <1>3 DEF Places, ReadersOK
<1>5. Keeps'
  BY <1>1, <1>2, <1>3 DEF Keeps
<1>6. Sends'
  BY <1>1 DEF Sends
<1> QED BY <1>4, <1>5, <1>6

LEMMA MapBody ==
  ASSUME Places, Keeps, HTTPRequestToMap
  PROVE  Places' /\ Keeps' /\ Sends'
<1>1. /\ handler = "filter" /\ handler' = "replace"
      /\ UNCHANGED <<options, queue, taken, sent, answered, writerVars>>
  BY DEF HTTPRequestToMap
<1>2. readers[body].end = "eof"
  BY <1>1 DEF Keeps, Early, ReadOf
<1>3. \/ UNCHANGED <<readers, body>>
      \/ /\ readers' = Append(readers, Reader("buffer", readers[body].left, "eof"))
         /\ body' = Len(readers')
  BY <1>2 DEF HTTPRequestToMap, Buffer
<1> QED BY <1>1, <1>3, RebuildBody DEF Kinds

\* The text of a body that match-and-replace did not cut is the whole of it.
LEMMA ReplaceBody ==
  ASSUME Places, Keeps, MatchReplaceRequest, cut' = "no"
  PROVE  Places' /\ Keeps' /\ Sends'
<1>1. /\ handler = "replace" /\ handler' = "log"
      /\ UNCHANGED <<options, queue, taken, sent, answered, writerVars>>
  BY DEF MatchReplaceRequest
<1>2. readers[body].end = "eof" /\ readers[body].left \in Seq(Nat)
  BY <1>1 DEF Keeps, Early, ReadOf, Parts
<1>3. CASE UNCHANGED <<readers, body>>
  BY <1>1, <1>3, RebuildBody
<1>4. CASE readers' = Append(readers, Buffer(readers[body].left)) /\ body' = Len(readers')
  BY <1>1, <1>4, RebuildBody DEF Kinds, Buffer
<1>5. CASE Parsed(readers[body].left) /\ body' = Len(readers')
  <2>1. PICK text : text = readers[body].left
    OBVIOUS
  <2>2. PICK n \in 0..Len(text), end \in Ends :
          /\ readers' = Append(readers, Reader("stream", SubSeq(text, 1, n), end))
          /\ cut' = IF n = Len(text) /\ end = "eof" THEN cut
                    ELSE IF cut = "no" THEN "replaced" ELSE cut
    BY <1>5, <2>1 DEF Parsed
  <2>3. n = Len(text) /\ end = "eof"
    BY <2>2
  <2>4. SubSeq(text, 1, Len(text)) = text
    BY <1>2, <2>1
  <2>5. readers' = Append(readers, Reader("stream", readers[body].left, "eof"))
    BY <2>1, <2>2, <2>3, <2>4
  <2> QED BY <1>1, <1>5, <2>5, RebuildBody DEF Kinds
<1> QED BY <1>2, <1>3, <1>4, <1>5 DEF MatchReplaceRequest

LEMMA HandlerBody ==
  ASSUME Places, Keeps, Sends, cut' = "no",
         HTTPRequestToMap \/ MatchReplaceRequest \/ LogRequest \/ RoundTrip \/ LogResponse
  PROVE  Places' /\ Keeps' /\ Sends'
<1>1. CASE HTTPRequestToMap
  BY <1>1, MapBody
<1>2. CASE MatchReplaceRequest
  BY <1>2, ReplaceBody
<1>3. CASE LogRequest
  <2>1. queue = <<>> /\ queue' = <<"request">>
    BY <1>3 DEF LogRequest, Keeps, Early
  <2>2. handler = "log" /\ handler' = "roundtrip"
        /\ UNCHANGED <<readers, body, sent, writer, saved, buf, dump, touched>>
    BY <1>3 DEF LogRequest, writerVars
  <2>3. Places' /\ Sends'
    BY <2>2 DEF Places, ReadersOK, Sends, Early
  <2>4. Keeps'
    BY <2>1, <2>2 DEF Keeps, Early
  <2> QED BY <2>3, <2>4
<1>4. CASE RoundTrip
  <2>1. /\ handler = "roundtrip" /\ taken' = body
        /\ handler' = IF body = Nil THEN "sent" ELSE "send"
        /\ UNCHANGED <<readers, body, sent, writer, saved, buf, touched>>
    BY <1>4 DEF RoundTrip, writerVars
  <2>2. handler' = "send"
    BY <2>1 DEF Places, ReadersOK, Nil
  <2>3. Places' /\ Keeps'
    BY <2>1, <2>2 DEF Places, ReadersOK, Keeps, Early
  <2>4. body \notin touched => ReadOf(readers, body, sent)
    BY <2>1 DEF Keeps, Early
  <2>5. Sends'
    BY <2>1, <2>2, <2>4 DEF Places, Sends, Early
  <2> QED BY <2>3, <2>5
<1>5. CASE LogResponse
  <2>1. ~Early /\ ~Early' /\ UNCHANGED <<readers, body, handler, taken, sent, writer, saved, buf, touched>>
    BY <1>5 DEF LogResponse, writerVars, Early
  <2> QED BY <2>1 DEF Places, ReadersOK, Keeps, Sends
<1> QED BY <1>1, <1>2, <1>3, <1>4, <1>5

\* Send reads the reader of the round trip and no other.
LEMMA SendBody ==
  ASSUME Places, Keeps, Sends, Send
  PROVE  Places' /\ Keeps' /\ Sends'
<1>1. /\ handler = "send" /\ ~Early /\ taken \in DOMAIN readers
      /\ handler' \in {"send", "sent"} /\ ~Early'
      /\ UNCHANGED <<body, taken, writer, saved, buf, touched>>
  BY DEF Send, Sends, Early, writerVars
<1>2. /\ readers' \in Seq(Readers) /\ Len(readers') = Len(readers)
      /\ taken \notin touched /\ handler' = "send" => ReadOf(readers', taken, sent')
      /\ taken \notin touched /\ handler' = "sent" => sent' = Whole
  <2>1. taken \notin touched => ReadOf(readers, taken, sent)
    BY <1>1 DEF Sends
  <2>2. CASE /\ HasNext(taken)
             /\ sent' = Append(sent, Next1(taken))
             /\ readers' = AfterNext(taken)
             /\ UNCHANGED handler
    <3>1. /\ SameBut(readers', taken) /\ Len(readers') = Len(readers)
          /\ readers'[taken].left = Tail(readers[taken].left) /\ ~readers'[taken].closed
          /\ readers'[taken].end = readers[taken].end
      BY <1>1, <2>2, NextReaders DEF Places
    <3>2. readers[taken].left # <<>> /\ sent' = Append(sent, Head(readers[taken].left))
      BY <2>2 DEF HasNext, Next1
    <3>3. taken \notin touched => ReadOf(readers', taken, sent')
      BY <2>1, <3>1, <3>2, PartsRead DEF ReadOf
    <3> QED BY <1>1, <2>2, <3>1, <3>3 DEF SameBut
  <2>3. CASE /\ AtEnd(taken)
             /\ readers' = Closed(AfterEnd(taken), taken)
             /\ handler' = "sent"
             /\ UNCHANGED sent
    <3>1. SameBut(readers', taken) /\ Len(readers') = Len(readers)
      BY <1>1, <2>3, EndReaders DEF Places
    <3>2. taken \notin touched => sent' = Whole
      BY <2>1, <2>3, PartsDone DEF AtEnd, ReadOf
    <3> QED BY <2>3, <3>1, <3>2 DEF SameBut
  <2>4. CASE /\ Fails(taken)
             /\ readers' = Closed(AfterFailure(taken), taken)
             /\ handler' = "sent"
             /\ UNCHANGED sent
    <3>1. SameBut(readers', taken) /\ Len(readers') = Len(readers)
      BY <1>1, <2>4, FailReaders DEF Places
    <3>2. taken \in touched
      BY <2>1, <2>4 DEF Fails, ReadOf
    <3> QED BY <2>4, <3>1, <3>2 DEF SameBut
  <2> QED BY <2>2, <2>3, <2>4 DEF Send
<1>3. DOMAIN readers' = DOMAIN readers
  BY <1>2 DEF Places, ReadersOK
<1>4. Places'
  BY <1>1, <1>2, <1>3 DEF Places, ReadersOK
<1>5. Sends'
  BY <1>1, <1>2, <1>3 DEF Sends
<1> QED BY <1>1, <1>4, <1>5 DEF Keeps

-----------------------------------------------------------------------------
(* The steps of AsyncWrite *)

\* A reader that the logger does not read stays as the round trip has it.
LEMMA SendsStay ==
  ASSUME Places, Sends, SameBut(readers', body), touched' = touched \cup {body},
         UNCHANGED handlerVars
  PROVE  Sends'
<1>1. UNCHANGED <<handler, taken, sent>> /\ Early' = Early
  BY DEF handlerVars, Early
<1> SUFFICES ASSUME ~Early
             PROVE  /\ taken \in DOMAIN readers'
                    /\ taken \notin touched' /\ handler = "send" => ReadOf(readers', taken, sent)
                    /\ taken \notin touched' /\ handler = "sent" => sent = Whole
  BY <1>1 DEF Sends
<1>2. taken \in DOMAIN readers /\ Len(readers) \in Nat /\ DOMAIN readers = 1..Len(readers)
  BY DEF Sends, Places, ReadersOK
<1>3. taken \in DOMAIN readers'
  BY <1>2 DEF SameBut
<1>4. taken \notin touched' => taken \notin touched /\ readers'[taken] = readers[taken]
  BY <1>2 DEF SameBut
<1> QED BY <1>3, <1>4 DEF Sends, ReadOf

\* The step in which AsyncWrite has read the next chunk.
LEMMA ReadOnBody ==
  ASSUME Places, Keeps, Sends, ReadOn, writer # "idle",
         UNCHANGED <<queue, handlerVars, writer, body, saved, dump>>
  PROVE  Places' /\ Keeps' /\ Sends'
<1>1. /\ SameBut(readers', body) /\ Len(readers') = Len(readers)
      /\ readers'[body].left = Tail(readers[body].left) /\ ~readers'[body].closed
      /\ readers'[body].end = readers[body].end
  BY NextReaders DEF ReadOn, Places
<1>2. /\ readers[body].left # <<>> /\ buf' = Append(buf, Head(readers[body].left))
      /\ touched' = touched \cup {body}
  BY DEF ReadOn, HasNext, Next1
<1>3. DOMAIN readers = 1..Len(readers) /\ DOMAIN readers' = DOMAIN readers
  BY <1>1 DEF SameBut, Places, ReadersOK
<1>4. Places'
  <2>1. readers[body].left \in Seq(Nat)
    <3>1. readers[body] \in Readers
      BY DEF Places, ReadersOK
    <3> QED BY <3>1 DEF Readers
  <2>2. buf' \in Seq(Nat)
    BY <1>2, <2>1 DEF Places
  <2> QED BY <1>1, <1>2, <1>3, <2>2 DEF SameBut, Places, ReadersOK, handlerVars
<1>5. Sends'
  BY <1>1, <1>2, SendsStay
<1>6. UNCHANGED <<handler, sent>> /\ Early' = Early
  BY DEF handlerVars, Early
<1>7. ASSUME Early PROVE Keeps'
  <2>1. ReadOf(readers', body, buf')
    BY <1>1, <1>2, <1>7, PartsRead DEF Keeps, ReadOf
  <2>2. writer = "copy" => ReadOf(readers', saved, <<>>)
    <3> SUFFICES ASSUME writer = "copy" PROVE ReadOf(readers', saved, <<>>)
      OBVIOUS
    <3>1. saved # body /\ ReadOf(readers, saved, <<>>) /\ saved \in 1..Len(readers)
      BY <1>3, <1>7 DEF Keeps, Places
    <3>2. readers'[saved] = readers[saved]
      BY <1>1, <3>1 DEF SameBut
    <3> QED BY <3>1, <3>2 DEF ReadOf
  <2> QED BY <1>2, <1>6, <1>7, <2>1, <2>2 DEF Keeps
<1>8. ASSUME ~Early PROVE Keeps'
  BY <1>6, <1>8 DEF Keeps
<1> QED BY <1>4, <1>5, <1>7, <1>8

LEMMA ReceiveBody ==
  ASSUME Places, Keeps, Sends, Receive
  PROVE  Places' /\ Keeps' /\ Sends'
<1>1. /\ UNCHANGED <<readers, body, saved, dump, touched, handler, taken, sent>>
      /\ writer = "idle" /\ writer' = "drain" /\ buf' = <<>>
      /\ queue # <<>> /\ queue' = Tail(queue)
  BY DEF Receive, handlerVars
<1>2. Places' /\ Sends'
  BY <1>1 DEF Places, ReadersOK, Sends, Early
<1>3. ASSUME Early PROVE handler = "roundtrip" /\ queue' = <<>>
  <2>1. handler = "roundtrip"
    BY <1>1, <1>3 DEF Keeps, Early
  <2>2. queue = <<"request">>
    BY <1>1, <1>3 DEF Keeps
  <2>3. Tail(<<"request">>) = <<>>
    OBVIOUS
  <2> QED BY <1>1, <2>1, <2>2, <2>3
<1>4. Keeps'
  BY <1>1, <1>3 DEF Keeps, Early
<1> QED BY <1>2, <1>4

\* A body that AsyncWrite has read to its end is the whole, if it had it to itself.
LEMMA ReadUp ==
  ASSUME Keeps, Early, writer # "idle", AtEnd(body)
  PROVE  buf = Whole
<1>1. Parts(buf, <<>>)
  BY DEF Keeps, ReadOf, AtEnd
<1> QED BY <1>1, PartsDone

LEMMA DrainBodyBody ==
  ASSUME Places, Keeps, Sends, ~options.VeryVerbose, DrainBody
  PROVE  Places' /\ Keeps' /\ Sends'
<1>1. /\ writer = "drain" /\ UNCHANGED <<queue, handler, taken, sent>> /\ Early' = Early
      /\ UNCHANGED handlerVars
  BY DEF DrainBody, handlerVars, Early
<1>2. AfterDump \in {"data", "idle"}
  BY DEF AfterDump
<1>3. DOMAIN readers = 1..Len(readers) /\ Len(readers) \in Nat
  BY DEF Places, ReadersOK
<1>4. CASE ReadOn /\ UNCHANGED <<writer, dump, body, saved>>
  BY <1>1, <1>4, ReadOnBody
<1>5. CASE /\ AtEnd(body)
           /\ readers' = Closed(AfterEnd(body), body)
                           \o <<Buffer(buf), Buffer(buf)>>
           /\ saved' = Len(readers) + 1
           /\ body' = Len(readers) + 2
           /\ buf' = <<>>
           /\ writer' = "copy"
           /\ touched' = touched \cup {body}
           /\ UNCHANGED dump
  <2> DEFINE rs == Closed(AfterEnd(body), body)
             r  == Buffer(buf)
  <2>1. SameBut(rs, body) /\ Len(rs) = Len(readers) /\ rs \in Seq(Readers)
    BY EndReaders DEF Places, SameBut
  <2>2. r \in Readers /\ r.left = buf /\ ~r.closed /\ r.end = "eof"
    <3>1. buf \in Seq(Nat)
      BY DEF Places
    <3> QED BY <3>1 DEF Buffer, Reader, Readers, Kinds, Ends
  <2>3. readers' = rs \o <<r, r>>
    BY <1>5
  <2>4. /\ readers' \in Seq(Readers) /\ Len(readers') = Len(readers) + 2
        /\ readers'[Len(readers) + 1] = r /\ readers'[Len(readers) + 2] = r
        /\ \A k \in 1..Len(readers) : readers'[k] = rs[k]
    <3>1. PICK t, g : t = rs /\ g = r
      OBVIOUS
    <3>2. t \in Seq(Readers) /\ g \in Readers /\ readers' = t \o <<g, g>> /\ Len(t) = Len(readers)
      BY <2>1, <2>2, <2>3, <3>1
    <3>3. /\ t \o <<g, g>> \in Seq(Readers) /\ Len(t \o <<g, g>>) = Len(t) + 2
          /\ (t \o <<g, g>>)[Len(t) + 1] = g /\ (t \o <<g, g>>)[Len(t) + 2] = g
          /\ \A k \in 1..Len(t) : (t \o <<g, g>>)[k] = t[k]
      BY <3>2, TwoMore
    <3> QED BY <3>1, <3>2, <3>3
  <2>5. SameBut(readers', body)
    BY <1>3, <2>1, <2>4 DEF SameBut
  <2>6. Sends'
    BY <1>1, <1>5, <2>5, SendsStay
  <2>7. Places'
    <3> HIDE DEF r
    <3> QED BY <1>1, <1>3, <1>5, <2>4 DEF Places, ReadersOK
  <2>8. ASSUME Early PROVE ReadOf(readers', saved', <<>>) /\ ReadOf(readers', body', <<>>)
    BY <1>1, <1>5, <2>2, <2>4, <2>8, ReadUp, PartsAll DEF ReadOf
  <2>9. Keeps'
    <3> SUFFICES ASSUME Early PROVE Keeps'
      BY <1>1 DEF Keeps
    <3>1. saved' # body' /\ writer' = "copy" /\ buf' = <<>> /\ UNCHANGED <<dump, sent, queue, handler>>
      BY <1>1, <1>3, <1>5
    <3>2. handler = "roundtrip" /\ dump \in {NotYet, Whole} /\ sent = <<>> /\ queue \in {<<>>, <<"request">>}
      BY <1>1 DEF Keeps
    <3> QED BY <2>8, <3>1, <3>2 DEF Keeps
  <2> QED BY <2>6, <2>7, <2>9
<1>6. CASE /\ Fails(body)
           /\ readers' = AfterFailure(body)
           /\ Dumped(<<>>)
           /\ writer' = AfterDump
           /\ buf' = <<>>
           /\ touched' = touched \cup {body}
           /\ UNCHANGED <<body, saved>>
  <2>1. ~Early
    BY <1>1, <1>6 DEF Keeps, ReadOf, Fails
  <2>2. SameBut(readers', body) /\ Len(readers') = Len(readers)
    BY <1>6, FailReaders DEF Places
  <2>3. Sends'
    BY <1>1, <1>6, <2>2, SendsStay
  <2>4. Places'
    BY <1>1, <1>2, <1>3, <1>6, <2>2 DEF Places, ReadersOK, SameBut
  <2> QED BY <1>1, <2>1, <2>3, <2>4 DEF Keeps
<1> QED BY <1>4, <1>5, <1>6 DEF DrainBody

LEMMA CopyBodyBody ==
  ASSUME Places, Keeps, Sends, ~options.VeryVerbose, CopyBody
  PROVE  Places' /\ Keeps' /\ Sends'
<1>1. /\ writer = "copy" /\ UNCHANGED <<queue, handler, taken, sent, saved>> /\ Early' = Early
      /\ UNCHANGED handlerVars
  BY DEF CopyBody, handlerVars, Early
<1>2. AfterDump \in {"data", "idle"}
  BY DEF AfterDump
<1>3. CASE ReadOn /\ UNCHANGED <<writer, dump, body>>
  BY <1>1, <1>3, ReadOnBody
<1>4. CASE /\ AtEnd(body)
           /\ Dumped(buf)
           /\ body' = saved
           /\ writer' = AfterDump
           /\ buf' = <<>>
           /\ touched' = touched \cup {body}
           /\ UNCHANGED readers
  <2>1. SameBut(readers', body)
    BY <1>4 DEF SameBut, Places, ReadersOK
  <2>2. Sends'
    BY <1>1, <1>4, <2>1, SendsStay
  <2>3. Places'
    BY <1>1, <1>2, <1>4 DEF Places, ReadersOK
  <2>4. ASSUME Early PROVE dump' \in {NotYet, Whole} /\ ReadOf(readers, saved, <<>>)
    BY <1>1, <1>4, <2>4, ReadUp DEF Keeps, Dumped
  <2>5. Keeps'
    <3> SUFFICES ASSUME Early PROVE Keeps'
      BY <1>1 DEF Keeps
    <3>1. handler = "roundtrip" /\ sent = <<>> /\ queue \in {<<>>, <<"request">>}
      BY <1>1 DEF Keeps
    <3> QED BY <1>1, <1>2, <1>4, <2>4, <3>1 DEF Keeps
  <2> QED BY <2>2, <2>3, <2>5
<1> QED BY <1>3, <1>4 DEF CopyBody

LEMMA DataBody ==
  ASSUME Places, Keeps, Sends, NewHttpRequestData
  PROVE  Places' /\ Keeps' /\ Sends'
<1>1. /\ writer = "data" /\ UNCHANGED <<queue, handler, taken, sent, saved, dump>>
      /\ Early' = Early /\ UNCHANGED handlerVars
  BY DEF NewHttpRequestData, handlerVars, Early
<1>2. CASE ReadOn /\ UNCHANGED <<writer, call, body, record>>
  BY <1>1, <1>2, ReadOnBody
<1>3. CASE /\ AtEnd(body)
           /\ readers' = Append(AfterEnd(body), Buffer(buf))
           /\ body' = Len(readers')
           /\ buf' = <<>>
           /\ writer' = "drain"
           /\ touched' = touched \cup {body}
  <2> DEFINE rs == AfterEnd(body)
             r  == Buffer(buf)
  <2>1. SameBut(rs, body) /\ Len(rs) = Len(readers) /\ rs \in Seq(Readers)
    BY EndReaders DEF Places, SameBut
  <2>2. /\ readers' \in Seq(Readers) /\ Len(readers') = Len(readers) + 1
        /\ readers'[Len(readers) + 1] = r
        /\ \A k \in 1..Len(readers) : readers'[k] = rs[k]
    <3>1. /\ buf \in Seq(Nat) /\ "buffer" \in Kinds /\ readers' = Append(rs, r)
          /\ r = Reader("buffer", buf, "eof")
      BY <1>3 DEF Places, Kinds, Buffer
    <3> QED BY <2>1, <3>1, AddReader
  <2>3. r.left = buf /\ ~r.closed /\ r.end = "eof"
    BY DEF Buffer, Reader
  <2>4. DOMAIN readers = 1..Len(readers) /\ Len(readers) \in Nat
    BY DEF Places, ReadersOK
  <2>5. SameBut(readers', body)
    BY <2>1, <2>2, <2>4 DEF SameBut
  <2>6. Sends'
    BY <1>1, <1>3, <2>5, SendsStay
  <2>7. Places'
    <3> HIDE DEF r
    <3> QED BY <1>1, <1>3, <2>2, <2>4 DEF Places, ReadersOK
  <2>8. ASSUME Early PROVE ReadOf(readers', body', <<>>)
    BY <1>1, <1>3, <2>2, <2>3, <2>8, ReadUp, PartsAll DEF ReadOf
  <2>9. Keeps'
    <3> SUFFICES ASSUME Early PROVE Keeps'
      BY <1>1 DEF Keeps
    <3>1. /\ handler = "roundtrip" /\ sent = <<>> /\ queue \in {<<>>, <<"request">>}
          /\ dump \in {NotYet, Whole}
      BY <1>1 DEF Keeps
    <3> QED BY <1>1, <1>3, <2>8, <3>1 DEF Keeps
  <2> QED BY <2>6, <2>7, <2>9
<1>4. CASE /\ Fails(body)
           /\ readers' = AfterFailure(body)
           /\ buf' = <<>>
           /\ writer' = "idle"
           /\ touched' = touched \cup {body}
           /\ UNCHANGED <<body, call, record>>
  <2>1. ~Early
    BY <1>1, <1>4 DEF Keeps, ReadOf, Fails
  <2>2. SameBut(readers', body) /\ Len(readers') = Len(readers)
    BY <1>4, FailReaders DEF Places
  <2>3. Sends'
    BY <1>1, <1>4, <2>2, SendsStay
  <2>4. Places'
    BY <1>1, <1>4, <2>2 DEF Places, ReadersOK, SameBut
  <2> QED BY <1>1, <2>1, <2>3, <2>4 DEF Keeps
<1> QED BY <1>2, <1>3, <1>4 DEF NewHttpRequestData

-----------------------------------------------------------------------------
(* The theorems *)

\* A body that has been cut stays so.
LEMMA CutOnce ==
  ASSUME [Next]_vars, cut' = "no"
  PROVE  cut = "no"
<1>1. CASE MatchReplaceRequest
  <2>1. CASE Parsed(readers[body].left)
    BY <2>1 DEF Parsed
  <2> QED BY <1>1, <2>1 DEF MatchReplaceRequest
<1>2. CASE ~MatchReplaceRequest
  BY <1>2 DEF Next, vars, HTTPRequestToMap, LogRequest, RoundTrip, Send,
              LogResponse, Receive, DrainBody, CopyBody, debugLogRequest, NewHttpRequestData
<1> QED BY <1>1, <1>2

LEMMA NextBody == BodyInv /\ [Next]_vars => BodyInv'
<1> SUFFICES ASSUME BodyInv, [Next]_vars, ~options'.VeryVerbose, cut' = "no"
             PROVE  Places' /\ Keeps' /\ Sends'
  BY DEF BodyInv
<1>1. options' = options /\ cut = "no"
  <2>1. options' = options
    BY DEF Next, vars, HTTPRequestToMap, MatchReplaceRequest, LogRequest, RoundTrip, Send,
           LogResponse, Receive, DrainBody, CopyBody, debugLogRequest, NewHttpRequestData
  <2> QED BY <2>1, CutOnce
<1>2. ~options.VeryVerbose /\ Places /\ Keeps /\ Sends
  BY <1>1 DEF BodyInv
<1>3. CASE HTTPRequestToMap \/ MatchReplaceRequest \/ LogRequest \/ RoundTrip \/ LogResponse
  BY <1>2, <1>3, HandlerBody
<1>4. CASE Send
  BY <1>2, <1>4, SendBody
<1>5. CASE Receive
  BY <1>2, <1>5, ReceiveBody
<1>6. CASE DrainBody
  BY <1>2, <1>6, DrainBodyBody
<1>7. CASE CopyBody
  BY <1>2, <1>7, CopyBodyBody
<1>8. CASE debugLogRequest
  BY <1>2, <1>8 DEF debugLogRequest, Places
<1>9. CASE NewHttpRequestData
  BY <1>2, <1>9, DataBody
<1>10. CASE UNCHANGED vars
  BY <1>2, <1>10 DEF vars, handlerVars, writerVars, Places, ReadersOK, Keeps, Sends, Early
<1> QED BY <1>3, <1>4, <1>5, <1>6, <1>7, <1>8, <1>9, <1>10 DEF Next

\* Without -vv, whatever the filters, match-and-replace, the dump and the structured data
\* do with a body that the client sent whole and no replacement cut, between two entries
\* it is whole until the round trip begins, and so is the dump.
THEOREM LeftWhole == Spec => []LeftAsFound
<1>1. BodyInv => LeftAsFound
  <2> SUFFICES ASSUME BodyInv, ~options.VeryVerbose, cut = "no", writer = "idle", Early
               PROVE  /\ ~readers[body].closed /\ readers[body].left = Whole
                      /\ dump \in {NotYet, Whole}
    BY DEF LeftAsFound, Early
  <2>1. ReadOf(readers, body, <<>>) /\ dump \in {NotYet, Whole}
    BY DEF BodyInv, Keeps
  <2> QED BY <2>1, PartsLeft DEF ReadOf
<1> QED BY <1>1, InitBody, NextBody, PTL DEF Spec

\* Without -vv, a body that the client sent whole, no replacement cut, and the logger did
\* not read besides the round trip reaches the upstream whole, for any number of chunks.
THEOREM SentWhole == Spec => []AloneIsWhole
<1>1. BodyInv => AloneIsWhole
  BY DEF BodyInv, Sends, Early, AloneIsWhole
<1> QED BY <1>1, InitBody, NextBody, PTL DEF Spec

-----------------------------------------------------------------------------
(* Types, and what the first dump has.  Here with -vv, too. *)

\* A reader as TypeOK has it.
Goods ==
  {g \in [kind : Kinds, all : ChunkSeq, left : ChunkSeq, end : Ends, closed : BOOLEAN] :
     IsSuffix(g.left, g.all) /\ (g.closed \/ g.end # "eof" => g.kind = "stream")}

\* new is a later state of the readers old: they keep their kind, others may follow.
Later(old, new) ==
  /\ new \in Seq(Goods)
  /\ Len(new) >= Len(old)
  /\ \A k \in 1..Len(old) : new[k].kind = old[k].kind

LEMMA SuffixSelf ==
  ASSUME NEW s \in ChunkSeq
  PROVE  IsSuffix(s, s)
BY DEF ChunkSeq, IsSuffix, IsPrefix, Reverse

LEMMA SuffixNone ==
  ASSUME NEW s \in ChunkSeq
  PROVE  <<>> \in ChunkSeq /\ IsSuffix(<<>>, s)
BY DEF ChunkSeq, IsSuffix, IsPrefix, Reverse

LEMMA SuffixTail ==
  ASSUME NEW s \in ChunkSeq, NEW t \in ChunkSeq, s # <<>>, IsSuffix(s, t)
  PROVE  IsSuffix(Tail(s), t)
<1> DEFINE u == Tail(s)
           R(q) == [i \in 1..Len(q) |-> q[(Len(q) - i) + 1]]
<1>1. /\ u \in Seq(1..Chunks) /\ Len(u) = Len(s) - 1 /\ Len(s) \in Nat \ {0} /\ Len(t) \in Nat
      /\ \A i \in 1..Len(u) : u[i] = s[i + 1]
  BY DEF ChunkSeq
<1>2. Len(R(s)) = Len(s) /\ Len(R(t)) = Len(t) /\ Len(R(u)) = Len(u)
  <2> HIDE DEF u
  <2> QED BY <1>1
<1>3. Len(s) <= Len(t) /\ SubSeq(R(s), 1, Len(s)) = SubSeq(R(t), 1, Len(s))
  BY <1>2 DEF IsSuffix, IsPrefix, Reverse
<1>4. \A i \in 1..Len(s) : R(s)[i] = R(t)[i]
  <2> SUFFICES ASSUME NEW i \in 1..Len(s) PROVE R(s)[i] = R(t)[i]
    OBVIOUS
  <2> HIDE DEF R
  <2>1. SubSeq(R(s), 1, Len(s))[i] = R(s)[i] /\ SubSeq(R(t), 1, Len(s))[i] = R(t)[i]
    BY <1>1
  <2> QED BY <1>3, <2>1
<1>5. \A i \in 1..Len(u) : R(u)[i] = R(s)[i]
  <2> SUFFICES ASSUME NEW i \in 1..Len(u) PROVE R(u)[i] = R(s)[i]
    OBVIOUS
  <2>1. (Len(u) - i) + 1 \in 1..Len(u) /\ ((Len(u) - i) + 1) + 1 = (Len(s) - i) + 1 /\ i \in 1..Len(s)
    <3> HIDE DEF u
    <3> QED BY <1>1
  <2>2. R(u)[i] = u[(Len(u) - i) + 1] /\ R(s)[i] = s[(Len(s) - i) + 1]
    <3> HIDE DEF u
    <3> QED BY <2>1
  <2> QED BY <1>1, <2>1, <2>2
<1>6. \A i \in 1..Len(u) : R(u)[i] = R(t)[i]
  <2> HIDE DEF u, R
  <2> QED BY <1>1, <1>4, <1>5
<1>7. SubSeq(R(u), 1, Len(u)) = SubSeq(R(t), 1, Len(u))
  <2> HIDE DEF u, R
  <2> QED BY <1>1, <1>2, <1>3, <1>6
<1>8. Len(u) <= Len(t)
  BY <1>1, <1>3
<1> QED BY <1>2, <1>7, <1>8 DEF IsSuffix, IsPrefix, Reverse

LEMMA ChunkAppend ==
  ASSUME NEW s \in ChunkSeq, NEW x \in 1..Chunks
  PROVE  Append(s, x) \in ChunkSeq /\ ToSet(Append(s, x)) = ToSet(s) \cup {x}
<1>1. s \in Seq(1..Chunks) /\ Append(s, x) \in Seq(1..Chunks)
  BY DEF ChunkSeq
<1>2. /\ DOMAIN Append(s, x) = DOMAIN s \cup {Len(s) + 1}
      /\ \A i \in DOMAIN s : Append(s, x)[i] = s[i]
      /\ Append(s, x)[Len(s) + 1] = x
  BY <1>1
<1>3. ToSet(Append(s, x)) = ToSet(s) \cup {x}
  BY <1>2 DEF ToSet
<1> QED BY <1>1, <1>3 DEF ChunkSeq

LEMMA SetOfHead ==
  ASSUME NEW S, NEW s \in Seq(S), s # <<>>
  PROVE  Head(s) \in S /\ Tail(s) \in Seq(S) /\ ToSet(s) = {Head(s)} \cup ToSet(Tail(s))
<1>1. /\ Len(s) \in Nat \ {0} /\ Head(s) = s[1] /\ Tail(s) \in Seq(S) /\ DOMAIN s = 1..Len(s)
      /\ DOMAIN Tail(s) = 1..(Len(s) - 1)
      /\ \A i \in 1..(Len(s) - 1) : Tail(s)[i] = s[i + 1]
  OBVIOUS
<1>2. \A i \in 1..Len(s) : i = 1 \/ (i - 1 \in 1..(Len(s) - 1) /\ s[i] = Tail(s)[i - 1])
  <2> SUFFICES ASSUME NEW i \in 1..Len(s), i # 1
               PROVE  i - 1 \in 1..(Len(s) - 1) /\ s[i] = Tail(s)[i - 1]
    OBVIOUS
  <2> DEFINE j == i - 1
  <2>1. j \in 1..(Len(s) - 1) /\ j + 1 = i
    BY <1>1
  <2>2. Tail(s)[j] = s[j + 1]
    <3> HIDE DEF j
    <3> QED BY <1>1, <2>1
  <2> QED BY <2>1, <2>2
<1>3. ToSet(s) \subseteq {Head(s)} \cup ToSet(Tail(s))
  <2> SUFFICES ASSUME NEW i \in 1..Len(s) PROVE s[i] = Head(s) \/ s[i] \in ToSet(Tail(s))
    BY <1>1 DEF ToSet
  <2>1. CASE i = 1
    BY <1>1, <2>1
  <2>2. CASE i # 1
    <3>1. i - 1 \in DOMAIN Tail(s) /\ s[i] = Tail(s)[i - 1]
      BY <1>1, <1>2, <2>2
    <3> QED BY <3>1 DEF ToSet
  <2> QED BY <2>1, <2>2
<1>4. {Head(s)} \cup ToSet(Tail(s)) \subseteq ToSet(s)
  <2>1. \A i \in 1..(Len(s) - 1) : i + 1 \in 1..Len(s)
    BY <1>1
  <2> QED BY <1>1, <2>1 DEF ToSet
<1>5. Head(s) \in S
  BY <1>1
<1> QED BY <1>1, <1>3, <1>4, <1>5

LEMMA GoodFresh ==
  ASSUME NEW c \in ChunkSeq
  PROVE  /\ \A kind \in Kinds : Reader(kind, c, "eof") \in Goods
         /\ \A end \in Ends : Reader("stream", c, end) \in Goods
         /\ \A kind, end : /\ ~Reader(kind, c, end).closed /\ Reader(kind, c, end).left = c
                           /\ Reader(kind, c, end).end = end
<1>1. \A kind, end : /\ ~Reader(kind, c, end).closed /\ Reader(kind, c, end).left = c
                     /\ Reader(kind, c, end).end = end
  BY DEF Reader
<1>2. IsSuffix(c, c)
  BY SuffixSelf
<1>3. \A kind \in Kinds : Reader(kind, c, "eof") \in Goods
  BY <1>2 DEF Goods, Reader, Ends
<1>4. \A end \in Ends : Reader("stream", c, end) \in Goods
  BY <1>2 DEF Goods, Reader, Kinds
<1> QED BY <1>1, <1>3, <1>4

LEMMA GoodBuffer ==
  ASSUME NEW c \in ChunkSeq
  PROVE  /\ Buffer(c) \in Goods /\ ~Buffer(c).closed /\ Buffer(c).left = c
         /\ Buffer(c).end = "eof"
<1>1. "buffer" \in Kinds
  BY DEF Kinds
<1> QED BY <1>1, GoodFresh DEF Buffer

LEMMA LaterSelf ==
  ASSUME readers \in Seq(Goods)
  PROVE  Later(readers, readers)
<1>1. Len(readers) \in Nat
  OBVIOUS
<1> QED BY <1>1 DEF Later

\* Readers are added.
LEMMA LaterAppend ==
  ASSUME NEW rs \in Seq(Goods), Later(readers, rs), readers \in Seq(Goods), NEW g \in Goods
  PROVE  /\ Later(readers, Append(rs, g)) /\ Append(rs, g) \in Seq(Goods)
         /\ Len(Append(rs, g)) = Len(rs) + 1
         /\ Append(rs, g)[Len(rs) + 1] = g
         /\ \A k \in 1..Len(rs) : Append(rs, g)[k] = rs[k]
<1>1. /\ Append(rs, g) \in Seq(Goods) /\ Len(Append(rs, g)) = Len(rs) + 1
      /\ Append(rs, g)[Len(rs) + 1] = g
      /\ \A k \in 1..Len(rs) : Append(rs, g)[k] = rs[k]
  OBVIOUS
<1>2. Len(readers) \in Nat /\ Len(rs) \in Nat /\ Len(rs) >= Len(readers)
  BY DEF Later
<1>3. \A k \in 1..Len(readers) : k \in 1..Len(rs)
  BY <1>2
<1>4. Later(readers, Append(rs, g))
  BY <1>1, <1>2, <1>3 DEF Later
<1> QED BY <1>1, <1>4

\* The next chunk is read.
LEMMA GoodNext ==
  ASSUME readers \in Seq(Goods), NEW r \in DOMAIN readers, HasNext(r),
         NEW new, new = AfterNext(r)
  PROVE  /\ Later(readers, new) /\ Len(new) = Len(readers)
         /\ ~new[r].closed /\ new[r].end = readers[r].end
         /\ Next1(r) \in 1..Chunks
         /\ ToSet(readers[r].left) = {Next1(r)} \cup ToSet(new[r].left)
         /\ \A k \in DOMAIN readers : k # r => new[k] = readers[k]
<1>0. PICK g : g = [readers[r] EXCEPT !.left = Tail(readers[r].left)]
  OBVIOUS
<1>1. /\ readers[r] \in Goods
      /\ readers[r] \in [kind : Kinds, all : ChunkSeq, left : ChunkSeq, end : Ends, closed : BOOLEAN]
      /\ IsSuffix(readers[r].left, readers[r].all)
      /\ readers[r].end # "eof" => readers[r].kind = "stream"
      /\ readers[r].left # <<>> /\ ~readers[r].closed
  <2>1. readers[r] \in Goods
    OBVIOUS
  <2> QED BY <2>1 DEF Goods, HasNext
<1>2. readers[r].left \in ChunkSeq /\ readers[r].all \in ChunkSeq
  BY <1>1
<1>3. /\ Next1(r) \in 1..Chunks /\ Tail(readers[r].left) \in ChunkSeq
      /\ ToSet(readers[r].left) = {Next1(r)} \cup ToSet(Tail(readers[r].left))
  BY <1>1, <1>2, SetOfHead DEF Next1, ChunkSeq
<1>4. IsSuffix(Tail(readers[r].left), readers[r].all)
  BY <1>1, <1>2, SuffixTail
<1>5. /\ g \in [kind : Kinds, all : ChunkSeq, left : ChunkSeq, end : Ends, closed : BOOLEAN]
      /\ g.left = Tail(readers[r].left) /\ g.all = readers[r].all
      /\ g.closed = readers[r].closed /\ g.kind = readers[r].kind /\ g.end = readers[r].end
  BY <1>0, <1>1, <1>3
<1>6. g \in Goods
  BY <1>1, <1>4, <1>5 DEF Goods
<1>7. new = [readers EXCEPT ![r] = g]
  BY <1>0 DEF AfterNext
<1>8. /\ Later(readers, new) /\ Len(new) = Len(readers) /\ new[r] = g
      /\ \A k \in DOMAIN readers : k # r => new[k] = readers[k]
  <2>1. /\ new \in Seq(Goods) /\ Len(new) = Len(readers) /\ new[r] = g /\ Len(readers) \in Nat
        /\ \A k \in DOMAIN readers : k # r => new[k] = readers[k]
    BY <1>6, <1>7
  <2> QED BY <1>5, <2>1 DEF Later
<1> QED BY <1>1, <1>3, <1>5, <1>8

\* one is what readers become when r becomes f.
Becomes(one, r, f) ==
  /\ one \in Seq(Goods) /\ Len(one) = Len(readers) /\ one[r] = f
  /\ \A k \in DOMAIN readers : k # r => one[k] = readers[k]

LEMMA GoodClose ==
  ASSUME NEW rs \in Seq(Goods), NEW r \in DOMAIN rs, NEW two, two = Closed(rs, r)
  PROVE  /\ two \in Seq(Goods) /\ Len(two) = Len(rs)
         /\ (rs[r].kind # "stream" => ~two[r].closed)
         /\ two[r].end = rs[r].end /\ two[r].kind = rs[r].kind
         /\ \A k \in DOMAIN rs : k # r => two[k] = rs[k]
<1>f. PICK f : f = rs[r]
  OBVIOUS
<1>g. PICK g : g = [f EXCEPT !.closed = (f.kind = "stream")]
  OBVIOUS
<1>1. /\ f \in [kind : Kinds, all : ChunkSeq, left : ChunkSeq, end : Ends, closed : BOOLEAN]
      /\ IsSuffix(f.left, f.all) /\ (f.end # "eof" => f.kind = "stream")
  <2>1. f \in Goods
    BY <1>f
  <2> QED BY <2>1 DEF Goods
<1>2. /\ g \in [kind : Kinds, all : ChunkSeq, left : ChunkSeq, end : Ends, closed : BOOLEAN]
      /\ g.left = f.left /\ g.all = f.all /\ g.end = f.end
      /\ g.kind = f.kind
      /\ g.closed <=> f.kind = "stream"
  BY <1>g, <1>1
<1>3. g \in Goods
  BY <1>1, <1>2 DEF Goods
<1>4. two = [rs EXCEPT ![r] = g]
  BY <1>f, <1>g DEF Closed
<1>5. /\ two \in Seq(Goods) /\ Len(two) = Len(rs) /\ two[r] = g
      /\ \A k \in DOMAIN rs : k # r => two[k] = rs[k]
  BY <1>3, <1>4
<1> QED BY <1>f, <1>2, <1>5

\* A reader becomes f, and is perhaps closed.
LEMMA GoodChange ==
  ASSUME readers \in Seq(Goods), NEW r \in DOMAIN readers,
         NEW f, f.kind = readers[r].kind,
         NEW one, Becomes(one, r, f), NEW two, two = Closed(one, r)
  PROVE  /\ Later(readers, one) /\ Len(one) = Len(readers)
         /\ Later(readers, two) /\ Len(two) = Len(readers)
         /\ (f.kind # "stream" => ~two[r].closed) /\ two[r].end = f.end
         /\ \A k \in DOMAIN readers : k # r => two[k] = readers[k]
<1>1. /\ one \in Seq(Goods) /\ Len(one) = Len(readers) /\ one[r] = f /\ Len(readers) \in Nat
      /\ DOMAIN readers = 1..Len(readers) /\ DOMAIN one = DOMAIN readers
      /\ \A k \in DOMAIN readers : k # r => one[k] = readers[k]
  BY DEF Becomes
<1>2. /\ two \in Seq(Goods) /\ Len(two) = Len(one)
      /\ (f.kind # "stream" => ~two[r].closed)
      /\ two[r].end = f.end /\ two[r].kind = f.kind
      /\ \A k \in DOMAIN readers : k # r => two[k] = one[k]
  BY <1>1, GoodClose
<1>3. Later(readers, one)
  BY <1>1 DEF Later
<1>4. Later(readers, two)
  BY <1>1, <1>2 DEF Later
<1> QED BY <1>1, <1>2, <1>3, <1>4

\* The end is read, and the reader perhaps closed.
LEMMA GoodEnd ==
  ASSUME readers \in Seq(Goods), NEW r \in DOMAIN readers, AtEnd(r),
         NEW one, one = AfterEnd(r), NEW two, two = Closed(one, r)
  PROVE  /\ Later(readers, one) /\ Len(one) = Len(readers)
         /\ Later(readers, two) /\ Len(two) = Len(readers)
         /\ (readers[r].kind # "stream" => ~two[r].closed) /\ two[r].end = "eof"
         /\ \A k \in DOMAIN readers : k # r => two[k] = readers[k]
<1> DEFINE left == IF readers[r].kind = "reusable" THEN readers[r].all ELSE readers[r].left
<1>f. PICK f : f = [readers[r] EXCEPT !.left = left]
  OBVIOUS
<1>1. /\ readers[r] \in [kind : Kinds, all : ChunkSeq, left : ChunkSeq, end : Ends, closed : BOOLEAN]
      /\ IsSuffix(readers[r].left, readers[r].all)
      /\ ~readers[r].closed /\ readers[r].end = "eof"
  <2>1. readers[r] \in Goods
    OBVIOUS
  <2> QED BY <2>1 DEF Goods, AtEnd
<1>2. left \in ChunkSeq /\ IsSuffix(left, readers[r].all)
  BY <1>1, SuffixSelf
<1>3. /\ f \in [kind : Kinds, all : ChunkSeq, left : ChunkSeq, end : Ends, closed : BOOLEAN]
      /\ f.left = left /\ f.all = readers[r].all /\ f.end = "eof"
      /\ ~f.closed /\ f.kind = readers[r].kind
  <2> HIDE DEF left
  <2> QED BY <1>f, <1>1, <1>2
<1>4. f \in Goods
  <2> HIDE DEF left
  <2> QED BY <1>2, <1>3 DEF Goods
<1>5. one = [readers EXCEPT ![r] = f]
  BY <1>f DEF AfterEnd
<1> HIDE DEF left
<1>6. Becomes(one, r, f)
  BY <1>4, <1>5 DEF Becomes
<1> QED BY <1>3, <1>6, GoodChange

\* Reading fails, and the reader is perhaps closed.
LEMMA GoodFail ==
  ASSUME readers \in Seq(Goods), NEW r \in DOMAIN readers,
         NEW one, one = AfterFailure(r), NEW two, two = Closed(one, r)
  PROVE  /\ Later(readers, one) /\ Len(one) = Len(readers)
         /\ Later(readers, two) /\ Len(two) = Len(readers)
         /\ \A k \in DOMAIN readers : k # r => two[k] = readers[k]
         /\ one[r] \in Goods /\ one[r].all = readers[r].all
<1>e. PICK end : end = IF readers[r].end = "short" THEN "eof" ELSE readers[r].end
  OBVIOUS
<1>f. PICK f : f = [readers[r] EXCEPT !.end = end]
  OBVIOUS
<1>1. /\ readers[r] \in [kind : Kinds, all : ChunkSeq, left : ChunkSeq, end : Ends, closed : BOOLEAN]
      /\ IsSuffix(readers[r].left, readers[r].all)
      /\ readers[r].closed \/ readers[r].end # "eof" => readers[r].kind = "stream"
  <2>1. readers[r] \in Goods
    OBVIOUS
  <2> QED BY <2>1 DEF Goods
<1>2. end \in Ends /\ (end # "eof" => readers[r].end # "eof")
  BY <1>e, <1>1 DEF Ends
<1>3. /\ f \in [kind : Kinds, all : ChunkSeq, left : ChunkSeq, end : Ends, closed : BOOLEAN]
      /\ f.left = readers[r].left /\ f.all = readers[r].all /\ f.end = end
      /\ f.closed = readers[r].closed /\ f.kind = readers[r].kind
  BY <1>f, <1>1, <1>2
<1>4. f \in Goods
  BY <1>1, <1>2, <1>3 DEF Goods
<1>5. one = [readers EXCEPT ![r] = f]
  BY <1>e, <1>f DEF AfterFailure
<1>6. Becomes(one, r, f) /\ one[r] = f
  BY <1>4, <1>5 DEF Becomes
<1>7. /\ Later(readers, one) /\ Len(one) = Len(readers)
      /\ Later(readers, two) /\ Len(two) = Len(readers)
      /\ \A k \in DOMAIN readers : k # r => two[k] = readers[k]
  BY <1>3, <1>6, GoodChange
<1> QED BY <1>3, <1>4, <1>6, <1>7

\* A reader that was read up to a failure.
LEMMA GoodDrained ==
  ASSUME readers \in Seq(Goods), NEW r \in DOMAIN readers, NEW new, new = Drained(r)
  PROVE  Later(readers, new) /\ Len(new) = Len(readers)
<1>1. PICK one, two : one = AfterFailure(r) /\ two = Closed(one, r)
  OBVIOUS
<1>2. Later(readers, one) /\ Len(one) = Len(readers) /\ one[r] \in Goods
  BY <1>1, GoodFail
<1>3. PICK f : f = [one[r] EXCEPT !.left = <<>>]
  OBVIOUS
<1>4. one[r] \in [kind : Kinds, all : ChunkSeq, left : ChunkSeq, end : Ends, closed : BOOLEAN]
  BY <1>2 DEF Goods
<1>5. <<>> \in ChunkSeq /\ IsSuffix(<<>>, one[r].all)
  BY <1>4, SuffixNone
<1>6. /\ f \in [kind : Kinds, all : ChunkSeq, left : ChunkSeq, end : Ends, closed : BOOLEAN]
      /\ f.left = <<>> /\ f.all = one[r].all /\ f.end = one[r].end
      /\ f.closed = one[r].closed /\ f.kind = one[r].kind
  BY <1>3, <1>4, <1>5
<1>7. f \in Goods
  BY <1>2, <1>5, <1>6 DEF Goods
<1>8. new = [one EXCEPT ![r] = f]
  BY <1>1, <1>3 DEF Drained
<1>9. one \in Seq(Goods) /\ r \in DOMAIN one /\ Len(readers) \in Nat
  BY <1>2 DEF Later
<1>10. /\ new \in Seq(Goods) /\ Len(new) = Len(one) /\ new[r] = f
       /\ \A k \in DOMAIN one : k # r => new[k] = one[k]
  BY <1>7, <1>8, <1>9
<1> QED BY <1>2, <1>6, <1>9, <1>10 DEF Later

\* The types of TypeOK.
Typed ==
  /\ options \in OptionsType
  /\ readers \in Seq(Goods)
  /\ body \in DOMAIN readers \cup {Nil}
  /\ taken \in DOMAIN readers \cup {Nil}
  /\ saved \in DOMAIN readers \cup {Nil}
  /\ body = Nil <=> writer = "headers"
  /\ handler \in {"filter", "replace", "log", "roundtrip", "send", "sent"}
  /\ sent \in ChunkSeq
  /\ buf \in ChunkSeq
  /\ dump \in ChunkSeq \cup {NotYet}
  /\ record \in ChunkSeq \cup {NotYet}
  /\ answered \in BOOLEAN
  /\ queue \in Seq({"request", "response"})
  /\ writer \in {"idle", "drain", "copy", "debug", "headers", "data"}
  /\ entry \in {"request", "response"}
  /\ call \in {"store", "data"}
  /\ touched \subseteq DOMAIN readers
  /\ cut \in {"no", "client", "replaced"}

\* Whoever is about to read has a reader; the logger has the request only once it is logged.
Unlogged == handler \in {"filter", "replace", "log"}

Turns ==
  /\ writer \in {"copy", "headers"} => saved # Nil
  /\ handler = "send" => taken # Nil
  /\ Unlogged => writer = "idle" /\ queue = <<>> /\ dump = NotYet

Responses(q) == \A i \in DOMAIN q : q[i] = "response"

\* The request is the first entry, and the first time it is dumped is the only one that counts.
DumpedOnce ==
  /\ dump = NotYet =>
       /\ writer \in {"idle", "drain", "copy"}
       /\ writer = "idle" => buf = <<>>
       /\ writer = "idle" /\ ~Unlogged =>
            queue # <<>> /\ Head(queue) = "request" /\ Responses(Tail(queue))
       /\ writer # "idle" => entry = "request" /\ call = "store" /\ Responses(queue)
  /\ dump # NotYet =>
       /\ writer \in {"drain", "copy"} => entry = "response" \/ call = "data"
       /\ Responses(queue)

\* The round trip reads the connection's stream, which it closes.
Hidden == handler \in {"send", "sent"} /\ taken # Nil /\ readers[taken].kind = "stream"

\* Until the first dump is there, each chunk has been sent, or AsyncWrite has it, or it is
\* still in the body that AsyncWrite reads; from then on it has been sent or dumped.
Somewhere ==
  /\ dump = NotYet =>
       /\ ~readers[body].closed /\ readers[body].end = "eof"
       /\ 1..Chunks \subseteq ToSet(sent) \cup ToSet(buf) \cup ToSet(readers[body].left)
  /\ dump # NotYet => 1..Chunks \subseteq ToSet(sent) \cup ToSet(dump)

DumpInv == Typed /\ Turns /\ DumpedOnce /\ (~Hidden /\ cut = "no" => Somewhere)

\* A reader stays one.
LEMMA LaterDomain ==
  ASSUME Later(readers, readers'), readers \in Seq(Goods)
  PROVE  /\ readers' \in Seq(Goods) /\ DOMAIN readers \subseteq DOMAIN readers'
         /\ Len(readers) \in Nat /\ Len(readers') \in Nat
         /\ DOMAIN readers = 1..Len(readers) /\ DOMAIN readers' = 1..Len(readers')
BY DEF Later

LEMMA HiddenStays ==
  ASSUME Typed, Later(readers, readers'), taken' = taken, Hidden, handler' \in {"send", "sent"}
  PROVE  Hidden'
<1>1. DOMAIN readers = 1..Len(readers)
  BY DEF Typed
<1>2. taken \in 1..Len(readers)
  BY <1>1 DEF Typed, Hidden
<1> QED BY <1>2 DEF Hidden, Later

LEMMA NotYetIsNone == NotYet \notin ChunkSeq
BY DEF NotYet, Nil, ChunkSeq

LEMMA InitDump == Init => DumpInv
<1> SUFFICES ASSUME Init PROVE DumpInv
  OBVIOUS
<1>1. Whole \in ChunkSeq /\ ToSet(Whole) = 1..Chunks /\ <<>> \in ChunkSeq
  BY ChunksAssumption DEF Whole, ChunkSeq, ToSet
<1>2. PICK g : /\ readers = <<g>>
               /\ \/ g = Reader("reusable", Whole, "eof")
                  \/ \E end \in Ends : g = Reader("stream", Whole, end)
  BY DEF Init
<1>3. g \in Goods /\ ~g.closed /\ g.left = Whole
  <2>1. "reusable" \in Kinds
    BY DEF Kinds
  <2> QED BY <1>1, <1>2, <2>1, GoodFresh
<1>4. readers \in Seq(Goods) /\ DOMAIN readers = {1} /\ readers[1] = g
  BY <1>2, <1>3
<1>5. Typed
  <2>1. /\ body \in DOMAIN readers /\ {taken, saved} = {Nil} /\ body # Nil /\ writer # "headers"
    BY <1>4 DEF Init, Nil
  <2>2. /\ sent \in ChunkSeq /\ buf \in ChunkSeq /\ dump = NotYet /\ record = NotYet
        /\ queue \in Seq({"request", "response"})
    BY <1>1 DEF Init
  <2>3. cut \in {"no", "client", "replaced"}
    BY DEF Init
  <2> QED BY <1>4, <2>1, <2>2, <2>3 DEF Init, Typed
<1>6. Turns /\ DumpedOnce
  BY DEF Init, Turns, DumpedOnce, Unlogged
<1>7. cut = "no" => Somewhere
  BY <1>1, <1>3, <1>4 DEF Init, Somewhere
<1> QED BY <1>5, <1>6, <1>7 DEF DumpInv

-----------------------------------------------------------------------------
(* The steps preserve it: the handler's *)

\* HTTPRequestToMap and MatchReplaceRequest keep a whole body whole, if no one cuts it.
LEMMA RebuildDump ==
  ASSUME DumpInv, handler \in {"filter", "replace"}, handler' \in {"replace", "log"},
         UNCHANGED <<options, queue, taken, sent, answered, writerVars>>,
         Later(readers, readers'), body' \in DOMAIN readers',
         cut' \in {"no", "client", "replaced"},
         cut' = "no" => /\ cut = "no"
                        /\ ~readers'[body'].closed /\ readers'[body'].end = "eof"
                        /\ readers'[body'].left = readers[body].left
  PROVE  DumpInv'
<1>1. /\ Typed /\ Turns /\ DumpedOnce /\ Unlogged /\ Unlogged'
      /\ writer = "idle" /\ queue = <<>> /\ dump = NotYet
  BY DEF DumpInv, Turns, Unlogged
<1>2. ~Hidden /\ ~Hidden' /\ (cut = "no" => Somewhere)
  BY DEF Hidden, DumpInv
<1>3. UNCHANGED <<queue, sent, writer, entry, call, saved, buf, dump, record, touched>>
  BY DEF writerVars
<1>4. Typed'
  <2>1. readers' \in Seq(Goods) /\ DOMAIN readers \subseteq DOMAIN readers' /\ body' # Nil
    <3>1. readers \in Seq(Goods)
      BY <1>1 DEF Typed
    <3>2. /\ readers' \in Seq(Goods) /\ DOMAIN readers \subseteq DOMAIN readers'
          /\ DOMAIN readers' = 1..Len(readers') /\ Len(readers') \in Nat
      BY <3>1, LaterDomain
    <3>3. body' \in 1..Len(readers') /\ Len(readers') \in Nat
      BY <3>2, Zenon
    <3>4. body' # Nil
      BY <3>3 DEF Nil
    <3> QED BY <3>2, <3>4
  <2> QED BY <1>1, <1>3, <2>1 DEF Typed
<1>5. Turns' /\ DumpedOnce'
  BY <1>1, <1>3 DEF Turns, DumpedOnce, Unlogged
<1>6. cut' = "no" => Somewhere'
  BY <1>1, <1>2, <1>3 DEF Somewhere
<1> QED BY <1>4, <1>5, <1>6 DEF DumpInv

\* A reader is added, and is the body from now on.
LEMMA NewBody ==
  ASSUME readers \in Seq(Goods), NEW rs \in Seq(Goods), Later(readers, rs), NEW g \in Goods,
         readers' = Append(rs, g), body' = Len(readers')
  PROVE  Later(readers, readers') /\ body' \in DOMAIN readers' /\ readers'[body'] = g
<1>1. /\ Later(readers, readers') /\ Len(readers') = Len(rs) + 1
      /\ readers'[Len(rs) + 1] = g
  BY LaterAppend
<1>2. Len(rs) \in Nat /\ body' = Len(rs) + 1 /\ DOMAIN readers' = 1..Len(readers')
  BY <1>1 DEF Later
<1> QED BY <1>1, <1>2

LEMMA PrefixIn ==
  ASSUME NEW S, NEW s \in Seq(S), NEW n \in Nat, n <= Len(s)
  PROVE  SubSeq(s, 1, n) \in Seq(S)
<1>1. \A i \in 1..n : s[i] \in S
  OBVIOUS
<1>2. SubSeq(s, 1, n) = [i \in 1..n |-> s[i]]
  OBVIOUS
<1> QED BY <1>1, <1>2

LEMMA MapDump ==
  ASSUME DumpInv, HTTPRequestToMap
  PROVE  DumpInv'
<1>1. /\ handler = "filter" /\ handler' = "replace" /\ cut' = cut
      /\ UNCHANGED <<options, queue, taken, sent, answered, writerVars>>
  BY DEF HTTPRequestToMap
<1>2. /\ readers \in Seq(Goods) /\ body \in DOMAIN readers /\ Later(readers, readers)
      /\ cut \in {"no", "client", "replaced"} /\ writer = "idle" /\ dump = NotYet
  BY <1>1, LaterSelf DEF DumpInv, Typed, Turns, Unlogged
<1>3. readers[body].left \in ChunkSeq /\ <<>> \in ChunkSeq
  <2>1. readers[body] \in Goods
    BY <1>2
  <2> QED BY <2>1, SuffixNone DEF Goods
<1>4. cut = "no" => ~readers[body].closed /\ readers[body].end = "eof"
  BY <1>1, <1>2 DEF DumpInv, Hidden, Somewhere
<1>5. CASE UNCHANGED <<readers, body>>
  BY <1>1, <1>2, <1>4, <1>5, RebuildDump
<1>6. CASE readers' = Append(readers, Buffer(readers[body].left)) /\ body' = Len(readers')
  <2>1. PICK g : g = Buffer(readers[body].left)
    OBVIOUS
  <2>2. g \in Goods /\ ~g.closed /\ g.left = readers[body].left /\ g.end = "eof"
    BY <1>3, <2>1, GoodBuffer
  <2>3. Later(readers, readers') /\ body' \in DOMAIN readers' /\ readers'[body'] = g
    BY <1>2, <1>6, <2>1, <2>2, NewBody
  <2> QED BY <1>1, <1>2, <2>2, <2>3, RebuildDump
<1>7. CASE readers[body].end # "eof" /\ readers' = Drained(body) /\ UNCHANGED body
  <2>1. Later(readers, readers') /\ body' \in DOMAIN readers'
    <3>1. Later(readers, readers')
      BY <1>2, <1>7, GoodDrained
    <3> QED BY <1>2, <1>7, <3>1, LaterDomain
  <2> QED BY <1>1, <1>2, <1>4, <1>7, <2>1, RebuildDump
<1>8. CASE /\ readers[body].end # "eof"
           /\ readers' = Append(Drained(body), Buffer(<<>>)) /\ body' = Len(readers')
  <2>1. PICK rs, g : rs = Drained(body) /\ g = Buffer(<<>>)
    OBVIOUS
  <2>2. g \in Goods
    BY <1>3, <2>1, GoodBuffer
  <2>3. Later(readers, rs) /\ rs \in Seq(Goods)
    <3>1. Later(readers, rs)
      BY <1>2, <2>1, GoodDrained
    <3> QED BY <3>1 DEF Later
  <2>4. Later(readers, readers') /\ body' \in DOMAIN readers'
    BY <1>2, <1>8, <2>1, <2>2, <2>3, NewBody
  <2> QED BY <1>1, <1>2, <1>4, <1>8, <2>4, RebuildDump
<1> QED BY <1>5, <1>6, <1>7, <1>8 DEF HTTPRequestToMap

LEMMA ReplaceDump ==
  ASSUME DumpInv, MatchReplaceRequest
  PROVE  DumpInv'
<1>1. /\ handler = "replace" /\ handler' = "log"
      /\ UNCHANGED <<options, queue, taken, sent, answered, writerVars>>
  BY DEF MatchReplaceRequest
<1>2. /\ readers \in Seq(Goods) /\ body \in DOMAIN readers /\ Later(readers, readers)
      /\ cut \in {"no", "client", "replaced"} /\ writer = "idle" /\ dump = NotYet
  BY <1>1, LaterSelf DEF DumpInv, Typed, Turns, Unlogged
<1>3. readers[body].left \in ChunkSeq
  <2>1. readers[body] \in Goods
    BY <1>2
  <2> QED BY <2>1 DEF Goods
<1>4. cut = "no" => ~readers[body].closed /\ readers[body].end = "eof"
  BY <1>1, <1>2 DEF DumpInv, Hidden, Somewhere
<1>5. CASE UNCHANGED <<readers, body, cut>>
  BY <1>1, <1>2, <1>4, <1>5, RebuildDump
<1>6. CASE /\ readers' = Append(readers, Buffer(readers[body].left)) /\ body' = Len(readers')
           /\ UNCHANGED cut
  <2>1. PICK g : g = Buffer(readers[body].left)
    OBVIOUS
  <2>2. g \in Goods /\ ~g.closed /\ g.left = readers[body].left /\ g.end = "eof"
    BY <1>3, <2>1, GoodBuffer
  <2>3. Later(readers, readers') /\ body' \in DOMAIN readers' /\ readers'[body'] = g
    BY <1>2, <1>6, <2>1, <2>2, NewBody
  <2> QED BY <1>1, <1>2, <1>6, <2>2, <2>3, RebuildDump
<1>7. CASE Parsed(readers[body].left) /\ body' = Len(readers')
  <2>1. PICK text : text = readers[body].left
    OBVIOUS
  <2>2. PICK n \in 0..Len(text), end \in Ends :
          /\ readers' = Append(readers, Reader("stream", SubSeq(text, 1, n), end))
          /\ cut' = IF n = Len(text) /\ end = "eof" THEN cut
                    ELSE IF cut = "no" THEN "replaced" ELSE cut
    BY <1>7, <2>1 DEF Parsed
  <2>3. SubSeq(text, 1, n) \in ChunkSeq /\ SubSeq(text, 1, Len(text)) = text
    <3>1. text \in Seq(1..Chunks) /\ Len(text) \in Nat /\ n \in Nat /\ n <= Len(text)
      BY <1>3, <2>1 DEF ChunkSeq
    <3>2. SubSeq(text, 1, n) \in Seq(1..Chunks)
      BY <3>1, PrefixIn
    <3>3. SubSeq(text, 1, Len(text)) = text
      BY <3>1
    <3> QED BY <3>2, <3>3 DEF ChunkSeq
  <2>4. PICK g : g = Reader("stream", SubSeq(text, 1, n), end)
    OBVIOUS
  <2>5. g \in Goods /\ ~g.closed /\ g.left = SubSeq(text, 1, n) /\ g.end = end
    <3>1. PICK c : c = SubSeq(text, 1, n)
      OBVIOUS
    <3>2. c \in ChunkSeq /\ g = Reader("stream", c, end) /\ end \in Ends
      BY <2>3, <2>4, <3>1
    <3>3. g \in Goods /\ ~g.closed /\ g.left = c /\ g.end = end
      BY <3>2, GoodFresh
    <3> QED BY <3>1, <3>3
  <2>6. Later(readers, readers') /\ body' \in DOMAIN readers' /\ readers'[body'] = g
    BY <1>2, <1>7, <2>2, <2>4, <2>5, NewBody
  <2>7. cut' \in {"no", "client", "replaced"}
    BY <1>2, <2>2
  <2>8. cut' = "no" => cut = "no" /\ g.end = "eof" /\ g.left = readers[body].left
    BY <2>1, <2>2, <2>3, <2>5
  <2> QED BY <1>1, <2>5, <2>6, <2>7, <2>8, RebuildDump
<1>8. CASE /\ readers[body].end # "eof" /\ readers' = Drained(body)
           /\ UNCHANGED <<body, cut>>
  <2>1. Later(readers, readers') /\ body' \in DOMAIN readers'
    <3>1. Later(readers, readers')
      BY <1>2, <1>8, GoodDrained
    <3> QED BY <1>2, <1>8, <3>1, LaterDomain
  <2> QED BY <1>1, <1>2, <1>4, <1>8, <2>1, RebuildDump
<1> QED BY <1>5, <1>6, <1>7, <1>8 DEF MatchReplaceRequest

LEMMA HandlerDump ==
  ASSUME DumpInv,
         HTTPRequestToMap \/ MatchReplaceRequest \/ LogRequest \/ RoundTrip \/ LogResponse
  PROVE  DumpInv'
<1>0. Typed /\ Turns /\ DumpedOnce
  BY DEF DumpInv
<1>1. CASE HTTPRequestToMap
  BY <1>1, MapDump
<1>2. CASE MatchReplaceRequest
  BY <1>2, ReplaceDump
<1>3. CASE LogRequest
  <2>1. queue = <<>> /\ queue' = <<"request">> /\ writer = "idle" /\ dump = NotYet
    BY <1>0, <1>3 DEF LogRequest, Turns, Unlogged
  <2>2. /\ handler = "log" /\ handler' = "roundtrip"
        /\ UNCHANGED <<options, readers, body, taken, sent, answered, cut,
                       writer, entry, call, saved, buf, dump, record, touched>>
    BY <1>3 DEF LogRequest, writerVars
  <2>3. Typed'
    <3>1. queue' \in Seq({"request", "response"})
      BY <2>1
    <3> QED BY <1>0, <2>2, <3>1 DEF Typed
  <2>4. Turns' /\ DumpedOnce'
    BY <1>0, <2>1, <2>2 DEF Turns, DumpedOnce, Unlogged, Responses
  <2>5. cut' = "no" => Somewhere'
    BY <2>2 DEF Somewhere, DumpInv, Hidden
  <2> QED BY <2>3, <2>4, <2>5 DEF DumpInv
<1>4. CASE RoundTrip
  <2>1. /\ handler = "roundtrip" /\ taken' = body
        /\ handler' = IF body = Nil THEN "sent" ELSE "send"
        /\ UNCHANGED <<options, readers, body, queue, sent, answered, cut,
                       writer, entry, call, saved, buf, dump, record, touched>>
    BY <1>4 DEF RoundTrip, writerVars
  <2>2. Typed'
    BY <1>0, <2>1 DEF Typed
  <2>3. Turns' /\ DumpedOnce'
    BY <1>0, <2>1 DEF Turns, DumpedOnce, Unlogged
  <2>4. cut' = "no" => Somewhere'
    BY <2>1 DEF Somewhere, DumpInv, Hidden
  <2> QED BY <2>2, <2>3, <2>4 DEF DumpInv
<1>5. CASE LogResponse
  <2>1. /\ handler \in {"send", "sent"} /\ queue' = Append(queue, "response") /\ answered' = TRUE
        /\ UNCHANGED <<options, readers, body, handler, taken, sent, cut,
                       writer, entry, call, saved, buf, dump, record, touched>>
    BY <1>5 DEF LogResponse, writerVars
  <2>2. queue \in Seq({"request", "response"})
    BY <1>0 DEF Typed
  <2>3. Typed'
    <3>1. queue' \in Seq({"request", "response"})
      BY <2>1, <2>2
    <3> QED BY <1>0, <2>1, <3>1 DEF Typed
  <2>4. Responses(queue) => Responses(queue')
    BY <2>1, <2>2 DEF Responses
  <2>5. queue # <<>> /\ Head(queue) = "request" /\ Responses(Tail(queue))
          => queue' # <<>> /\ Head(queue') = "request" /\ Responses(Tail(queue'))
    <3> SUFFICES ASSUME queue # <<>>, Head(queue) = "request", Responses(Tail(queue))
                 PROVE  queue' # <<>> /\ Head(queue') = "request" /\ Responses(Tail(queue'))
      OBVIOUS
    <3>1. queue' # <<>> /\ Head(queue') = "request" /\ Tail(queue') = Append(Tail(queue), "response")
      BY <2>1, <2>2
    <3>2. Tail(queue) \in Seq({"request", "response"})
      BY <2>2
    <3> QED BY <3>1, <3>2 DEF Responses
  <2>6. Turns' /\ DumpedOnce'
    BY <1>0, <2>1, <2>4, <2>5 DEF Turns, DumpedOnce, Unlogged
  <2>7. ~Hidden' /\ cut' = "no" => Somewhere'
    BY <2>1 DEF Somewhere, DumpInv, Hidden
  <2> QED BY <2>3, <2>6, <2>7 DEF DumpInv
<1> QED BY <1>1, <1>2, <1>3, <1>4, <1>5

LEMMA SendDump ==
  ASSUME DumpInv, Send
  PROVE  DumpInv'
<1>0. Typed /\ Turns /\ DumpedOnce
  BY DEF DumpInv
<1>1. /\ handler = "send" /\ handler' \in {"send", "sent"} /\ taken \in DOMAIN readers
      /\ UNCHANGED <<options, body, queue, taken, answered, cut,
                     writer, entry, call, saved, buf, dump, record, touched>>
  BY <1>0 DEF Send, writerVars, Turns, Typed
<1>2. readers \in Seq(Goods) /\ sent \in ChunkSeq /\ (dump = NotYet => body \in DOMAIN readers)
  BY <1>0 DEF Typed, DumpedOnce
<1>3. CASE /\ HasNext(taken)
           /\ sent' = Append(sent, Next1(taken))
           /\ readers' = AfterNext(taken)
           /\ UNCHANGED handler
  <2>1. /\ Later(readers, readers') /\ ~readers'[taken].closed
        /\ readers'[taken].end = readers[taken].end /\ Next1(taken) \in 1..Chunks
        /\ ToSet(readers[taken].left) = {Next1(taken)} \cup ToSet(readers'[taken].left)
        /\ \A k \in DOMAIN readers : k # taken => readers'[k] = readers[k]
    <3>1. /\ Later(readers, readers') /\ ~readers'[taken].closed
          /\ readers'[taken].end = readers[taken].end
      BY <1>1, <1>2, <1>3, GoodNext
    <3>2. Next1(taken) \in 1..Chunks
      BY <1>1, <1>2, <1>3, GoodNext
    <3>3. ToSet(readers[taken].left) = {Next1(taken)} \cup ToSet(readers'[taken].left)
      BY <1>1, <1>2, <1>3, GoodNext
    <3>4. \A k \in DOMAIN readers : k # taken => readers'[k] = readers[k]
      BY <1>1, <1>2, <1>3, GoodNext
    <3> QED BY <3>1, <3>2, <3>3, <3>4
  <2>2. sent' \in ChunkSeq /\ ToSet(sent') = ToSet(sent) \cup {Next1(taken)}
    <3>1. PICK x : x = Next1(taken)
      OBVIOUS
    <3>2. x \in 1..Chunks /\ sent' = Append(sent, x)
      BY <1>3, <2>1, <3>1
    <3>3. Append(sent, x) \in ChunkSeq /\ ToSet(Append(sent, x)) = ToSet(sent) \cup {x}
      BY <1>2, <3>2, ChunkAppend
    <3> QED BY <3>1, <3>2, <3>3
  <2>3. Typed'
    <3>1. readers' \in Seq(Goods) /\ DOMAIN readers \subseteq DOMAIN readers'
      BY <1>2, <2>1, LaterDomain
    <3> QED BY <1>0, <1>1, <2>2, <3>1 DEF Typed
  <2>4. Turns' /\ DumpedOnce'
    BY <1>0, <1>1 DEF Turns, DumpedOnce, Unlogged
  <2>5. ~Hidden' => ~Hidden
    BY <1>0, <1>1, <2>1, HiddenStays
  <2>6. Somewhere => Somewhere'
    <3>1. CASE dump # NotYet
      BY <1>1, <2>2, <3>1 DEF Somewhere
    <3>2. CASE dump = NotYet /\ body = taken
      BY <1>1, <2>1, <2>2, <3>2 DEF Somewhere
    <3>3. CASE dump = NotYet /\ body # taken
      BY <1>1, <1>2, <2>1, <2>2, <3>3 DEF Somewhere
    <3> QED BY <3>1, <3>2, <3>3
  <2> QED BY <1>1, <2>3, <2>4, <2>5, <2>6 DEF DumpInv
<1>4. CASE /\ AtEnd(taken)
           /\ readers' = Closed(AfterEnd(taken), taken)
           /\ handler' = "sent"
           /\ UNCHANGED sent
  <2>1. /\ Later(readers, readers')
        /\ (readers[taken].kind # "stream" => ~readers'[taken].closed)
        /\ readers'[taken].end = "eof"
        /\ \A k \in DOMAIN readers : k # taken => readers'[k] = readers[k]
    BY <1>1, <1>2, <1>4, GoodEnd
  <2>2. readers[taken].left = <<>>
    BY <1>4 DEF AtEnd
  <2>3. Typed'
    <3>1. readers' \in Seq(Goods) /\ DOMAIN readers \subseteq DOMAIN readers'
      BY <1>2, <2>1, LaterDomain
    <3> QED BY <1>0, <1>1, <1>4, <3>1 DEF Typed
  <2>4. Turns' /\ DumpedOnce'
    BY <1>0, <1>1 DEF Turns, DumpedOnce, Unlogged
  <2>5. ~Hidden' => ~Hidden /\ readers[taken].kind # "stream"
    <3>1. ~Hidden' => ~Hidden
      BY <1>0, <1>1, <2>1, HiddenStays
    <3>2. ~Hidden => readers[taken].kind # "stream"
      BY <1>0, <1>1 DEF Hidden, Turns
    <3> QED BY <3>1, <3>2
  <2>6. Somewhere /\ readers[taken].kind # "stream" => Somewhere'
    <3> SUFFICES ASSUME Somewhere, readers[taken].kind # "stream" PROVE Somewhere'
      OBVIOUS
    <3>1. CASE dump # NotYet
      BY <1>1, <1>4, <3>1 DEF Somewhere
    <3>2. CASE dump = NotYet /\ body = taken
      <4>1. ToSet(readers[body].left) = {}
        BY <2>2, <3>2 DEF ToSet
      <4> QED BY <1>1, <1>4, <2>1, <3>2, <4>1 DEF Somewhere
    <3>3. CASE dump = NotYet /\ body # taken
      BY <1>1, <1>2, <1>4, <2>1, <3>3 DEF Somewhere
    <3> QED BY <3>1, <3>2, <3>3
  <2> QED BY <1>1, <2>3, <2>4, <2>5, <2>6 DEF DumpInv
<1>5. CASE /\ Fails(taken)
           /\ readers' = Closed(AfterFailure(taken), taken)
           /\ handler' = "sent"
           /\ UNCHANGED sent
  <2>1. /\ Later(readers, readers')
        /\ \A k \in DOMAIN readers : k # taken => readers'[k] = readers[k]
    BY <1>1, <1>2, <1>5, GoodFail
  <2>2. Typed'
    <3>1. readers' \in Seq(Goods) /\ DOMAIN readers \subseteq DOMAIN readers'
      BY <1>2, <2>1, LaterDomain
    <3> QED BY <1>0, <1>1, <1>5, <3>1 DEF Typed
  <2>3. Turns' /\ DumpedOnce'
    BY <1>0, <1>1 DEF Turns, DumpedOnce, Unlogged
  <2>4. ~Hidden' => ~Hidden
    BY <1>0, <1>1, <2>1, HiddenStays
  <2>5. Somewhere => Somewhere'
    <3> SUFFICES ASSUME Somewhere PROVE Somewhere'
      OBVIOUS
    <3>1. CASE dump # NotYet
      BY <1>1, <1>5, <3>1 DEF Somewhere
    <3>2. CASE dump = NotYet /\ body # taken
      BY <1>1, <1>2, <1>5, <2>1, <3>2 DEF Somewhere
    <3>3. CASE dump = NotYet /\ body = taken
      BY <1>5, <3>3 DEF Somewhere, Fails
    <3> QED BY <3>1, <3>2, <3>3
  <2> QED BY <1>1, <2>2, <2>3, <2>4, <2>5 DEF DumpInv
<1> QED BY <1>3, <1>4, <1>5 DEF Send

-----------------------------------------------------------------------------
(* ... and AsyncWrite's *)

\* AsyncWrite reads on: a chunk moves from the body to what it has got.
LEMMA ReadOnDump ==
  ASSUME DumpInv, ReadOn, writer \in {"drain", "copy", "debug", "data"},
         UNCHANGED <<options, queue, handlerVars, writer, entry, call, body, saved, dump, record,
                     cut>>
  PROVE  DumpInv'
<1>0. Typed /\ Turns /\ DumpedOnce
  BY DEF DumpInv
<1>1. UNCHANGED <<options, queue, handler, taken, sent, answered, writer, entry, call, body,
                  saved, dump, record, cut>>
  BY DEF handlerVars
<1>2. body \in DOMAIN readers /\ readers \in Seq(Goods) /\ buf \in ChunkSeq
  BY <1>0 DEF Typed
<1>3. PICK x : x = Next1(body)
  OBVIOUS
<1>4. HasNext(body) /\ readers' = AfterNext(body) /\ buf' = Append(buf, x)
      /\ touched' = touched \cup {body}
  BY <1>3 DEF ReadOn
<1>5. /\ Later(readers, readers') /\ ~readers'[body].closed
      /\ readers'[body].end = readers[body].end
  BY <1>2, <1>4, GoodNext
<1>6. x \in 1..Chunks
  BY <1>2, <1>3, <1>4, GoodNext
<1>7. ToSet(readers[body].left) = {x} \cup ToSet(readers'[body].left)
  BY <1>2, <1>3, <1>4, GoodNext
<1>8. buf' \in ChunkSeq /\ ToSet(buf') = ToSet(buf) \cup {x}
  BY <1>2, <1>4, <1>6, ChunkAppend
<1>9. Typed'
  <2>1. readers' \in Seq(Goods) /\ DOMAIN readers \subseteq DOMAIN readers'
    BY <1>2, <1>5, LaterDomain
  <2>2. touched' \subseteq DOMAIN readers'
    BY <1>0, <1>2, <1>4, <2>1 DEF Typed
  <2> QED BY <1>0, <1>1, <1>8, <2>1, <2>2 DEF Typed
<1>10. Turns' /\ DumpedOnce'
  BY <1>0, <1>1 DEF Turns, DumpedOnce, Unlogged
<1>11. ~Hidden' => ~Hidden
  <2>1. Hidden => Hidden'
    BY <1>0, <1>1, <1>5, HiddenStays DEF Hidden
  <2> QED BY <2>1
<1>12. Somewhere => Somewhere'
  BY <1>1, <1>5, <1>7, <1>8 DEF Somewhere
<1> QED BY <1>1, <1>9, <1>10, <1>11, <1>12 DEF DumpInv

LEMMA ReceiveDump ==
  ASSUME DumpInv, Receive
  PROVE  DumpInv'
<1>0. Typed /\ Turns /\ DumpedOnce
  BY DEF DumpInv
<1>1. /\ writer = "idle" /\ writer' = "drain" /\ call' = "store" /\ buf' = <<>>
      /\ queue # <<>> /\ entry' = Head(queue) /\ queue' = Tail(queue)
      /\ UNCHANGED <<options, readers, body, handler, taken, sent, answered, saved, dump,
                     record, touched, cut>>
  BY DEF Receive, handlerVars
<1>2. /\ queue \in Seq({"request", "response"})
      /\ entry' \in {"request", "response"} /\ queue' \in Seq({"request", "response"})
  <2>1. queue \in Seq({"request", "response"})
    BY <1>0 DEF Typed
  <2> QED BY <1>1, <2>1
<1>3. Typed'
  <2>1. <<>> \in ChunkSeq
    BY DEF ChunkSeq
  <2> QED BY <1>0, <1>1, <1>2, <2>1 DEF Typed
<1>4. ~Unlogged
  BY <1>0, <1>1 DEF Turns
<1>5. Responses(queue) => entry' = "response" /\ Responses(queue')
  <2> SUFFICES ASSUME Responses(queue) PROVE entry' = "response" /\ Responses(queue')
    OBVIOUS
  <2>1. /\ DOMAIN queue = 1..Len(queue) /\ Len(queue) \in Nat \ {0} /\ entry' = queue[1]
        /\ DOMAIN queue' = 1..(Len(queue) - 1)
        /\ \A i \in 1..(Len(queue) - 1) : queue'[i] = queue[i + 1]
    BY <1>1, <1>2
  <2>2. entry' = "response"
    BY <2>1 DEF Responses
  <2>3. \A i \in 1..(Len(queue) - 1) : i + 1 \in 1..Len(queue)
    BY <2>1
  <2> QED BY <2>1, <2>2, <2>3 DEF Responses
<1>6. DumpedOnce'
  <2>1. CASE dump = NotYet
    BY <1>0, <1>1, <1>4, <2>1 DEF DumpedOnce
  <2>2. CASE dump # NotYet
    BY <1>0, <1>1, <1>5, <2>2 DEF DumpedOnce
  <2> QED BY <2>1, <2>2
<1>7. Turns'
  BY <1>0, <1>1, <1>4 DEF Turns, Unlogged
<1>8. ~Hidden' /\ cut' = "no" => Somewhere'
  <2>1. CASE dump = NotYet
    <3>1. buf = buf'
      BY <1>0, <1>1, <2>1 DEF DumpedOnce
    <3> QED BY <1>1, <3>1 DEF Somewhere, DumpInv, Hidden
  <2>2. CASE dump # NotYet
    BY <1>1, <2>2 DEF Somewhere, DumpInv, Hidden
  <2> QED BY <2>1, <2>2
<1> QED BY <1>3, <1>6, <1>7, <1>8 DEF DumpInv

LEMMA CopyBodyDump ==
  ASSUME DumpInv, CopyBody
  PROVE  DumpInv'
<1>0. Typed /\ Turns /\ DumpedOnce
  BY DEF DumpInv
<1>1. /\ writer = "copy"
      /\ UNCHANGED <<options, queue, handler, taken, sent, answered, handlerVars, entry, call,
                     saved, record, cut>>
  BY DEF CopyBody, handlerVars
<1>2. CASE ReadOn /\ UNCHANGED <<writer, dump, body>>
  BY <1>1, <1>2, ReadOnDump
<1>3. CASE /\ AtEnd(body)
           /\ Dumped(buf)
           /\ body' = saved
           /\ writer' = AfterDump
           /\ buf' = <<>>
           /\ touched' = touched \cup {body}
           /\ UNCHANGED readers
  <2>1. /\ body \in DOMAIN readers /\ saved \in DOMAIN readers /\ saved # Nil
        /\ buf \in ChunkSeq /\ <<>> \in ChunkSeq
    BY <1>0, <1>1 DEF Typed, Turns, ChunkSeq
  <2>2. AfterDump \in {"debug", "data", "idle"}
    BY DEF AfterDump
  <2>3. dump' = IF entry = "request" /\ call = "store" THEN buf ELSE dump
    BY <1>3 DEF Dumped
  <2>4. dump' # NotYet /\ dump' \in ChunkSeq
    BY <1>0, <1>1, <2>1, <2>3, NotYetIsNone DEF DumpedOnce, Typed
  <2>5. Typed'
    BY <1>0, <1>1, <1>3, <2>1, <2>2, <2>4 DEF Typed
  <2>6. Turns'
    BY <1>0, <1>1, <1>3, <2>2 DEF Turns, Unlogged
  <2>7. DumpedOnce'
    BY <1>0, <1>1, <1>3, <2>2, <2>4 DEF DumpedOnce
  <2>8. ~Hidden' /\ cut' = "no" => Somewhere'
    <3> SUFFICES ASSUME Somewhere PROVE Somewhere'
      BY <1>1, <1>3 DEF Hidden, DumpInv
    <3>1. CASE dump = NotYet
      <4>1. dump' = buf
        BY <1>0, <1>1, <2>3, <3>1 DEF DumpedOnce
      <4>2. ToSet(readers[body].left) = {}
        BY <1>3 DEF AtEnd, ToSet
      <4> QED BY <1>1, <2>4, <3>1, <4>1, <4>2 DEF Somewhere
    <3>2. CASE dump # NotYet
      <4>1. dump' = dump
        BY <1>0, <1>1, <2>3, <3>2 DEF DumpedOnce
      <4> QED BY <1>1, <3>2, <4>1 DEF Somewhere
    <3> QED BY <3>1, <3>2
  <2> QED BY <2>5, <2>6, <2>7, <2>8 DEF DumpInv
<1> QED BY <1>2, <1>3 DEF CopyBody

LEMMA DrainBodyDump ==
  ASSUME DumpInv, DrainBody
  PROVE  DumpInv'
<1>0. Typed /\ Turns /\ DumpedOnce
  BY DEF DumpInv
<1>1. /\ writer = "drain"
      /\ UNCHANGED <<options, queue, handler, taken, sent, answered, handlerVars, entry, call,
                     record, cut>>
  BY DEF DrainBody, handlerVars
<1>2. /\ body \in DOMAIN readers /\ readers \in Seq(Goods)
      /\ buf \in ChunkSeq /\ <<>> \in ChunkSeq /\ ~Unlogged
  BY <1>0, <1>1 DEF Typed, Turns, ChunkSeq
<1>3. CASE ReadOn /\ UNCHANGED <<writer, dump, body, saved>>
  BY <1>1, <1>3, ReadOnDump
<1>4. CASE /\ AtEnd(body)
           /\ readers' = Closed(AfterEnd(body), body)
                           \o <<Buffer(buf), Buffer(buf)>>
           /\ saved' = Len(readers) + 1
           /\ body' = Len(readers) + 2
           /\ buf' = <<>>
           /\ writer' = "copy"
           /\ touched' = touched \cup {body}
           /\ UNCHANGED dump
  <2>1. PICK rs, g : rs = Closed(AfterEnd(body), body) /\ g = Buffer(buf)
    OBVIOUS
  <2>2. Later(readers, rs) /\ Len(rs) = Len(readers)
    BY <1>2, <1>4, <2>1, GoodEnd
  <2>3. g \in Goods /\ ~g.closed /\ g.left = buf /\ g.end = "eof"
    BY <1>2, <2>1, GoodBuffer
  <2>4. readers' = rs \o <<g, g>> /\ rs \in Seq(Goods) /\ Len(readers) \in Nat
    BY <1>2, <1>4, <2>1, <2>2 DEF Later
  <2>5. /\ readers' \in Seq(Goods) /\ Len(readers') = Len(readers) + 2
        /\ readers'[Len(readers) + 1] = g /\ readers'[Len(readers) + 2] = g
        /\ \A k \in 1..Len(readers) : readers'[k] = rs[k]
    <3>1. g \in Goods /\ rs \in Seq(Goods) /\ Len(rs) = Len(readers) /\ readers' = rs \o <<g, g>>
      BY <2>2, <2>3, <2>4
    <3>2. /\ rs \o <<g, g>> \in Seq(Goods) /\ Len(rs \o <<g, g>>) = Len(rs) + 2
          /\ (rs \o <<g, g>>)[Len(rs) + 1] = g /\ (rs \o <<g, g>>)[Len(rs) + 2] = g
          /\ \A k \in 1..Len(rs) : (rs \o <<g, g>>)[k] = rs[k]
      BY <3>1, TwoMore
    <3> QED BY <3>1, <3>2
  <2>6. Later(readers, readers')
    BY <2>2, <2>4, <2>5 DEF Later
  <2>7. /\ DOMAIN readers \subseteq DOMAIN readers'
        /\ body' \in DOMAIN readers' /\ saved' \in DOMAIN readers'
        /\ body' # Nil /\ saved' # Nil
    <3>1. DOMAIN readers \subseteq DOMAIN readers' /\ DOMAIN readers' = 1..Len(readers')
      BY <1>2, <2>6, LaterDomain
    <3> QED BY <1>4, <2>4, <2>5, <3>1 DEF Nil
  <2>8. Typed'
    <3>1. touched' \subseteq DOMAIN readers'
      BY <1>0, <1>2, <1>4, <2>7 DEF Typed
    <3> QED BY <1>0, <1>1, <1>2, <1>4, <2>5, <2>7, <3>1 DEF Typed
  <2>9. Turns' /\ DumpedOnce'
    BY <1>0, <1>1, <1>2, <1>4, <2>7 DEF Turns, DumpedOnce, Unlogged
  <2>10. ~Hidden' => ~Hidden
    <3>1. Hidden => Hidden'
      BY <1>0, <1>1, <2>6, HiddenStays DEF Hidden
    <3> QED BY <3>1
  <2>11. Somewhere => Somewhere'
    <3> SUFFICES ASSUME Somewhere PROVE Somewhere'
      OBVIOUS
    <3>1. CASE dump = NotYet
      <4>1. ToSet(readers[body].left) = {}
        BY <1>4 DEF AtEnd, ToSet
      <4>2. readers'[body'] = g
        BY <1>4, <2>5
      <4>3. /\ ToSet(readers'[body'].left) = ToSet(buf) /\ ~readers'[body'].closed
            /\ readers'[body'].end = "eof"
        BY <2>3, <4>2
      <4>4. 1..Chunks \subseteq ToSet(sent) \cup ToSet(buf)
        BY <3>1, <4>1 DEF Somewhere
      <4> QED BY <1>1, <1>4, <3>1, <4>3, <4>4 DEF Somewhere
    <3>2. CASE dump # NotYet
      BY <1>1, <1>4, <3>2 DEF Somewhere
    <3> QED BY <3>1, <3>2
  <2> QED BY <1>1, <2>8, <2>9, <2>10, <2>11 DEF DumpInv
<1>5. CASE /\ Fails(body)
           /\ readers' = AfterFailure(body)
           /\ Dumped(<<>>)
           /\ writer' = AfterDump
           /\ buf' = <<>>
           /\ touched' = touched \cup {body}
           /\ UNCHANGED <<body, saved>>
  <2>1. AfterDump \in {"debug", "data", "idle"}
    BY DEF AfterDump
  <2>2. dump' = IF entry = "request" /\ call = "store" THEN <<>> ELSE dump
    BY <1>5 DEF Dumped
  <2>3. dump' # NotYet /\ dump' \in ChunkSeq
    BY <1>0, <1>1, <1>2, <2>2, NotYetIsNone DEF DumpedOnce, Typed
  <2>4. Later(readers, readers') /\ readers' \in Seq(Goods) /\ DOMAIN readers \subseteq DOMAIN readers'
    <3>1. Later(readers, readers')
      BY <1>2, <1>5, GoodFail
    <3> QED BY <1>2, <3>1, LaterDomain
  <2>5. Typed'
    BY <1>0, <1>1, <1>2, <1>5, <2>1, <2>3, <2>4 DEF Typed
  <2>6. Turns'
    BY <1>0, <1>1, <1>2, <1>5, <2>1 DEF Turns, Unlogged
  <2>7. DumpedOnce'
    BY <1>0, <1>1, <1>5, <2>1, <2>3 DEF DumpedOnce
  <2>8. ~Hidden' /\ cut' = "no" => Somewhere'
    <3>1. Hidden => Hidden'
      BY <1>0, <1>1, <2>4, HiddenStays DEF Hidden
    <3> SUFFICES ASSUME Somewhere PROVE Somewhere'
      BY <1>1, <3>1 DEF DumpInv
    <3>2. dump # NotYet
      BY <1>5 DEF Somewhere, Fails
    <3>3. dump' = dump
      BY <1>0, <1>1, <2>2, <3>2 DEF DumpedOnce
    <3> QED BY <1>1, <3>2, <3>3 DEF Somewhere
  <2> QED BY <2>5, <2>6, <2>7, <2>8 DEF DumpInv
<1> QED BY <1>3, <1>4, <1>5 DEF DrainBody

\* A step of AsyncWrite after the first dump, which changes neither what was sent nor it.
LEMMA DumpedStays ==
  ASSUME Typed, dump # NotYet, ~Hidden /\ cut = "no" => Somewhere, Later(readers, readers'),
         UNCHANGED <<handler, taken, sent, dump, cut>>
  PROVE  ~Hidden' /\ cut' = "no" => Somewhere'
<1>1. Hidden => Hidden'
  BY HiddenStays DEF Hidden
<1>2. Somewhere => Somewhere'
  BY DEF Somewhere
<1> QED BY <1>1, <1>2

LEMMA DebugDump ==
  ASSUME DumpInv, debugLogRequest
  PROVE  DumpInv'
<1>0. Typed /\ Turns /\ DumpedOnce /\ readers \in Seq(Goods) /\ <<>> \in ChunkSeq
  BY DEF DumpInv, Typed, ChunkSeq
<1>1. /\ writer \in {"debug", "headers"}
      /\ UNCHANGED <<options, queue, handler, taken, sent, answered, handlerVars, entry, call,
                     dump, record, cut>>
  BY DEF debugLogRequest, handlerVars
<1>2. dump # NotYet /\ ~Unlogged /\ AfterDebug \in {"data", "idle"}
  BY <1>0, <1>1 DEF DumpedOnce, Turns, AfterDebug
<1>3. CASE /\ writer = "debug"
           /\ ReadOn
           /\ UNCHANGED <<writer, body, saved>>
  BY <1>1, <1>3, ReadOnDump
<1>4. CASE /\ writer = "debug"
           /\ ~HasNext(body)
           /\ saved' = body
           /\ \/ buf # <<>> /\ body' = Nil /\ writer' = "headers"
              \/ body' = body /\ writer' = AfterDebug
           /\ buf' = <<>>
           /\ readers' = AfterFailure(body)
           /\ UNCHANGED touched
  <2>1. body \in DOMAIN readers /\ body # Nil
    BY <1>0, <1>4 DEF Typed
  <2>0. Later(readers, readers') /\ readers' \in Seq(Goods) /\ DOMAIN readers \subseteq DOMAIN readers'
    <3>1. Later(readers, readers')
      BY <1>0, <1>4, <2>1, GoodFail
    <3> QED BY <1>0, <3>1, LaterDomain
  <2>2. Typed'
    BY <1>0, <1>1, <1>2, <1>4, <2>0, <2>1 DEF Typed
  <2>3. Turns' /\ DumpedOnce'
    BY <1>0, <1>1, <1>2, <1>4, <2>1 DEF Turns, DumpedOnce, Unlogged
  <2>4. ~Hidden' /\ cut' = "no" => Somewhere'
    BY <1>0, <1>1, <1>2, <2>0, DumpedStays DEF DumpInv
  <2> QED BY <2>2, <2>3, <2>4 DEF DumpInv
<1>5. CASE /\ writer = "headers"
           /\ body' = saved
           /\ writer' = AfterDebug
           /\ UNCHANGED <<readers, touched, buf, saved>>
  <2>1. saved \in DOMAIN readers /\ saved # Nil
    BY <1>0, <1>5 DEF Typed, Turns
  <2>2. Typed'
    BY <1>0, <1>1, <1>2, <1>5, <2>1 DEF Typed
  <2>3. Turns' /\ DumpedOnce'
    BY <1>0, <1>1, <1>2, <1>5, <2>1 DEF Turns, DumpedOnce, Unlogged
  <2>4. ~Hidden' /\ cut' = "no" => Somewhere'
    <3>1. Later(readers, readers')
      BY <1>0, <1>5, LaterSelf
    <3> QED BY <1>0, <1>1, <1>2, <3>1, DumpedStays DEF DumpInv
  <2> QED BY <2>2, <2>3, <2>4 DEF DumpInv
<1> QED BY <1>3, <1>4, <1>5 DEF debugLogRequest

LEMMA DataDump ==
  ASSUME DumpInv, NewHttpRequestData
  PROVE  DumpInv'
<1>0. /\ Typed /\ Turns /\ DumpedOnce /\ readers \in Seq(Goods) /\ <<>> \in ChunkSeq
      /\ buf \in ChunkSeq
  BY DEF DumpInv, Typed, ChunkSeq
<1>1. /\ writer = "data"
      /\ UNCHANGED <<options, queue, handler, taken, sent, answered, handlerVars, entry, saved,
                     dump, cut>>
  BY DEF NewHttpRequestData, handlerVars
<1>2. dump # NotYet /\ ~Unlogged /\ body \in DOMAIN readers
  BY <1>0, <1>1 DEF DumpedOnce, Turns, Typed
<1>3. CASE ReadOn /\ UNCHANGED <<writer, call, body, record>>
  BY <1>1, <1>3, ReadOnDump
<1>4. CASE /\ AtEnd(body)
           /\ readers' = Append(AfterEnd(body), Buffer(buf))
           /\ body' = Len(readers')
           /\ record' = IF entry = "response" THEN buf ELSE record
           /\ buf' = <<>>
           /\ call' = "data"
           /\ writer' = "drain"
           /\ touched' = touched \cup {body}
  <2>1. PICK rs, g : rs = AfterEnd(body) /\ g = Buffer(buf)
    OBVIOUS
  <2>2. Later(readers, rs) /\ Len(rs) = Len(readers)
    BY <1>0, <1>2, <1>4, <2>1, GoodEnd
  <2>3. g \in Goods
    BY <1>0, <2>1, GoodBuffer
  <2>4. readers' = Append(rs, g) /\ rs \in Seq(Goods)
    BY <1>4, <2>1, <2>2 DEF Later
  <2>5. Later(readers, readers') /\ Len(readers') = Len(readers) + 1
    BY <1>0, <2>2, <2>3, <2>4, LaterAppend
  <2>6. /\ readers' \in Seq(Goods) /\ DOMAIN readers \subseteq DOMAIN readers'
        /\ body' \in DOMAIN readers' /\ body' # Nil
    <3>1. /\ readers' \in Seq(Goods) /\ DOMAIN readers \subseteq DOMAIN readers'
          /\ DOMAIN readers' = 1..Len(readers') /\ Len(readers) \in Nat
      BY <1>0, <2>5, LaterDomain
    <3> QED BY <1>4, <2>5, <3>1 DEF Nil
  <2>7. Typed'
    <3>1. touched' \subseteq DOMAIN readers'
      BY <1>0, <1>2, <1>4, <2>6 DEF Typed
    <3>2. record' \in ChunkSeq \cup {NotYet}
      BY <1>0, <1>4 DEF Typed
    <3> QED BY <1>0, <1>1, <1>4, <2>6, <3>1, <3>2 DEF Typed
  <2>8. Turns' /\ DumpedOnce'
    BY <1>0, <1>1, <1>2, <1>4 DEF Turns, DumpedOnce, Unlogged
  <2>9. ~Hidden' /\ cut' = "no" => Somewhere'
    BY <1>0, <1>1, <1>2, <2>5, DumpedStays DEF DumpInv
  <2> QED BY <2>7, <2>8, <2>9 DEF DumpInv
<1>5. CASE /\ Fails(body)
           /\ readers' = AfterFailure(body)
           /\ buf' = <<>>
           /\ writer' = "idle"
           /\ touched' = touched \cup {body}
           /\ UNCHANGED <<body, call, record>>
  <2>1. Later(readers, readers') /\ readers' \in Seq(Goods) /\ DOMAIN readers \subseteq DOMAIN readers'
    <3>1. Later(readers, readers')
      BY <1>0, <1>2, <1>5, GoodFail
    <3> QED BY <1>0, <3>1, LaterDomain
  <2>2. Typed'
    BY <1>0, <1>1, <1>2, <1>5, <2>1 DEF Typed
  <2>3. Turns' /\ DumpedOnce'
    BY <1>0, <1>1, <1>2, <1>5 DEF Turns, DumpedOnce, Unlogged
  <2>4. ~Hidden' /\ cut' = "no" => Somewhere'
    BY <1>0, <1>1, <1>2, <2>1, DumpedStays DEF DumpInv
  <2> QED BY <2>2, <2>3, <2>4 DEF DumpInv
<1> QED BY <1>3, <1>4, <1>5 DEF NewHttpRequestData

LEMMA NextDump == DumpInv /\ [Next]_vars => DumpInv'
<1> SUFFICES ASSUME DumpInv, [Next]_vars PROVE DumpInv'
  OBVIOUS
<1>1. CASE HTTPRequestToMap \/ MatchReplaceRequest \/ LogRequest \/ RoundTrip \/ LogResponse
  BY <1>1, HandlerDump
<1>2. CASE Send
  BY <1>2, SendDump
<1>3. CASE Receive
  BY <1>3, ReceiveDump
<1>4. CASE DrainBody
  BY <1>4, DrainBodyDump
<1>5. CASE CopyBody
  BY <1>5, CopyBodyDump
<1>6. CASE debugLogRequest
  BY <1>6, DebugDump
<1>7. CASE NewHttpRequestData
  BY <1>7, DataDump
<1>8. CASE UNCHANGED vars
  BY <1>8 DEF vars, handlerVars, writerVars, DumpInv, Typed, Turns, Unlogged, DumpedOnce,
              Hidden, Somewhere
<1> QED BY <1>1, <1>2, <1>3, <1>4, <1>5, <1>6, <1>7, <1>8 DEF Next

\* The invariant of the shared body, with -vv as without it.
THEOREM DumpIsKept == Spec => []DumpInv
BY InitDump, NextDump, PTL DEF Spec

\* Every variable keeps its type, of a body that was cut, too: what is left of a reader is
\* always the end of what it holds, only a stream is ever closed or fails, and req.Body is
\* nil only inside debugLogRequest.
THEOREM BodyTyped == Spec => []TypeOK
<1>1. DumpInv => TypeOK
  <2> SUFFICES ASSUME Typed PROVE TypeOK
    BY DEF DumpInv
  <2>1. ASSUME NEW r \in DOMAIN readers
        PROVE  /\ readers[r].kind \in Kinds
               /\ readers[r].all \in ChunkSeq /\ IsSuffix(readers[r].left, readers[r].all)
               /\ readers[r].end \in Ends
               /\ readers[r].closed \/ readers[r].end # "eof" => readers[r].kind = "stream"
    <3>1. readers[r] \in Goods
      BY <2>1 DEF Typed
    <3> QED BY <3>1 DEF Goods
  <2>2. {body, taken, saved} \subseteq DOMAIN readers \cup {Nil} /\ (body = Nil <=> writer = "headers")
    BY DEF Typed
  <2>3. {sent, buf} \subseteq ChunkSeq /\ {dump, record} \subseteq ChunkSeq \cup {NotYet}
    BY DEF Typed
  <2> QED BY <2>1, <2>2, <2>3 DEF Typed, TypeOK
<1> QED BY <1>1, DumpIsKept, PTL

\* A chunk of a whole body that the upstream missed, since the logger read it, is in the
\* log, unless it is the connection's stream: for any number of chunks, with -vv or without.
THEOREM MissedIsDumped == Spec => []NotLostTwice
<1>1. DumpInv => NotLostTwice
  BY DEF DumpInv, Hidden, Somewhere, NotLostTwice
<1> QED BY <1>1, DumpIsKept, PTL

=============================================================================
