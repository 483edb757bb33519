---------------------------- MODULE SocketProofs ----------------------------
(***************************************************************************)
(* Proofs about the socket relay, for any number of chunks, any options    *)
(* and any outcome of the expressions: each peer receives a faithful       *)
(* stream, the final log line is sound, and at most one pipe stays behind. *)
(***************************************************************************)
EXTENDS SocketProxy, FiniteSetTheorems, SequenceTheorems, TLAPS

-----------------------------------------------------------------------------
(* The inductive invariant *)

Chunk == [chunk : 1..MaxChunks, whole : BOOLEAN]

AllWhole(s) == \A i \in DOMAIN delivered[s] : delivered[s][i].whole

\* A pipe that still runs has written all that it read, but for the chunk in hand;
\* only a pipe that is about to end has torn a chunk, its last one.
StreamKept(s) ==
  /\ \A i \in DOMAIN delivered[s] :
       /\ delivered[s][i].chunk = i
       /\ i < Len(delivered[s]) => delivered[s][i].whole
  /\ pipe[s] \in {"none", "read"} => AllWhole(s) /\ nread[s] = Len(delivered[s])
  /\ pipe[s] \in {"transform", "post", "write"} =>
       AllWhole(s) /\ nread[s] = Len(delivered[s]) + 1
  /\ nread[s] - Len(delivered[s]) \in {0, 1}
  /\ AllWhole(s) => count[s] = Len(delivered[s])
  /\ ~AllWhole(s) => count[s] = Len(delivered[s]) - 1

\* Proxy leaves fullduplex only by receiving the signal of a pipe, which then runs
\* to its end without another signal.
EndedByFirst ==
  /\ main \in {"accept", "dial", "start"} => \A s \in Sides : pipe[s] = "none"
  /\ main \in {"accept", "dial", "start", "armlocal", "armremote", "wait"} => first = "none"
  /\ main = "log" => first # "none"
  /\ main \in {"closeremote", "closelocal", "done"} /\ first = "none" =>
       \A s \in Sides : pipe[s] = "none"
  /\ first # "none" => pipe[first] \in {"mark", "done"}

\* The counter of the pipe that ended the connection does not move any more; that of
\* the other one only grows.
ReportKept ==
  main \in {"closeremote", "closelocal", "done"} /\ first # "none" =>
    \A s \in Sides : report[s] <= count[s] /\ (s = first => report[s] = count[s])

RelayInv ==
  /\ TypeOK
  /\ \A s \in Sides : StreamKept(s)
  /\ EndedByFirst
  /\ ReportKept

-----------------------------------------------------------------------------
LEMMA InitInv == Init => RelayInv
<1> SUFFICES ASSUME Init PROVE RelayInv
  OBVIOUS
<1>1. TypeOK
  <2>1. <<>> \in Seq(Chunk) /\ 0 \in 0..MaxChunks
    BY SocketAssumption
  <2>2. delivered \in [Sides -> Seq(Chunk)]
    BY <2>1 DEF Init
  <2> QED BY <2>1, <2>2 DEF Init, TypeOK, Sides, Chunk
<1>2. \A s \in Sides : StreamKept(s)
  BY DEF Init, StreamKept, AllWhole, Sides
<1>3. EndedByFirst /\ ReportKept
  BY DEF Init, EndedByFirst, ReportKept, Sides
<1> QED BY <1>1, <1>2, <1>3 DEF RelayInv

\* What a step leaves alone keeps the stream of a side as it is.
LEMMA SameStream ==
  ASSUME NEW s \in Sides, StreamKept(s), UNCHANGED <<nread[s], delivered[s], count[s]>>,
         \/ pipe'[s] = pipe[s]
         \/ pipe[s] \in {"none", "read"} /\ pipe'[s] \in {"read", "check"}
         \/ pipe[s] \in {"transform", "post", "write"} /\ pipe'[s] \in {"post", "write"}
         \/ pipe'[s] \in {"check", "signal", "mark", "done"}
  PROVE  StreamKept(s)'
BY DEF StreamKept, AllWhole

\* What Append does to the chunks that were delivered.
LEMMA Delivered ==
  ASSUME TypeOK, NEW s \in Sides, NEW c \in Chunk,
         delivered' = [delivered EXCEPT ![s] = Append(@, c)]
  PROVE  /\ delivered' \in [Sides -> Seq(Chunk)]
         /\ \A t \in Sides : t # s => delivered'[t] = delivered[t]
         /\ Len(delivered[s]) \in Nat /\ Len(delivered'[s]) = Len(delivered[s]) + 1
         /\ DOMAIN delivered[s] = 1..Len(delivered[s])
         /\ DOMAIN delivered'[s] = 1..(Len(delivered[s]) + 1)
         /\ \A i \in 1..Len(delivered[s]) : delivered'[s][i] = delivered[s][i]
         /\ delivered'[s][Len(delivered[s]) + 1] = c
<1>1. delivered \in [Sides -> Seq(Chunk)] /\ delivered[s] \in Seq(Chunk)
  BY DEF TypeOK, Chunk
<1>2. delivered'[s] = Append(delivered[s], c) /\ \A t \in Sides : t # s => delivered'[t] = delivered[t]
  BY <1>1
<1>3. delivered'[s] \in Seq(Chunk) /\ Len(delivered'[s]) = Len(delivered[s]) + 1
  BY <1>1, <1>2, AppendProperties
<1>4. \A i \in 1..Len(delivered[s]) : delivered'[s][i] = delivered[s][i]
  BY <1>1, <1>2, AppendProperties
<1>5. delivered'[s][Len(delivered[s]) + 1] = c
  BY <1>1, <1>2, AppendProperties
<1>6. delivered' \in [Sides -> Seq(Chunk)]
  BY <1>1, <1>2, <1>3
<1> QED BY <1>1, <1>2, <1>3, <1>4, <1>5, <1>6, LenProperties

\* The steps of the goroutine of Proxy and of the environment.
LEMMA MainStep ==
  ASSUME RelayInv,
         \/ (Accept \/ Dial \/ Proxy) /\ UNCHANGED alive
         \/ \E s \in Sides : PeerSends(s) \/ PeerLeaves(s) \/ Expire(s)
         \/ UNCHANGED vars
  PROVE  RelayInv'
<1> USE SocketAssumption DEF RelayInv
<1>1. UNCHANGED <<nread, delivered, count>> /\ \A s \in Sides :
        pipe'[s] = pipe[s] \/ (pipe[s] = "none" /\ pipe'[s] = "read")
  BY DEF Accept, Dial, Proxy, fullduplex, LogClosed, SetDeadline, CloseConn, PeerSends, PeerLeaves,
         Expire, vars, pipeVars, connVars, EndedByFirst, TypeOK
<1>2. \A s \in Sides : StreamKept(s)'
  BY <1>1, SameStream
<1>3. TypeOK' /\ EndedByFirst' /\ ReportKept'
  <2> USE DEF TypeOK, EndedByFirst, ReportKept, pipeVars, connVars, Sides, Other
  <2>1. CASE Accept /\ UNCHANGED alive
    BY <2>1 DEF Accept
  <2>2. CASE Dial /\ UNCHANGED alive
    BY <2>2 DEF Dial
  <2>3. CASE fullduplex /\ UNCHANGED alive
    BY <2>3 DEF fullduplex
  <2>4. CASE LogClosed /\ UNCHANGED alive
    BY <2>4 DEF LogClosed
  <2>5. ASSUME NEW s \in Sides, SetDeadline(s) \/ CloseConn(s), UNCHANGED alive
        PROVE  TypeOK' /\ EndedByFirst' /\ ReportKept'
    BY <2>5 DEF SetDeadline, CloseConn
  <2>6. ASSUME NEW s \in Sides, PeerSends(s) \/ PeerLeaves(s) \/ Expire(s)
        PROVE  TypeOK' /\ EndedByFirst' /\ ReportKept'
    <3>1. CASE PeerSends(s)
      <4>1. sent' = [sent EXCEPT ![s] = @ + 1] /\ sent[s] + 1 \in 0..MaxChunks
        BY <3>1 DEF PeerSends
      <4> QED BY <3>1, <4>1 DEF PeerSends
    <3>2. CASE PeerLeaves(s)
      BY <3>2 DEF PeerLeaves
    <3>3. CASE Expire(s)
      BY <3>3 DEF Expire
    <3> QED BY <2>6, <3>1, <3>2, <3>3
  <2>7. CASE UNCHANGED vars
    BY <2>7 DEF vars
  <2> QED BY <2>1, <2>2, <2>3, <2>4, <2>5, <2>6, <2>7 DEF Proxy
<1> QED BY <1>2, <1>3

\* The steps of a pipe that write nothing.
LEMMA PipeStep ==
  ASSUME RelayInv, NEW s \in Sides, PipeRuns(s) \/ ReadReset(s) \/ Post(s)
  PROVE  RelayInv'
<1> USE SocketAssumption DEF RelayInv
<1>1. pipe \in [Sides -> {"none", "read", "transform", "post", "write", "check", "signal",
                          "mark", "done"}]
  BY DEF TypeOK
<1>2. TypeOK' /\ EndedByFirst' /\ ReportKept'
  <2> USE DEF TypeOK, EndedByFirst, ReportKept, connVars, PipeGoto, Sides
  <2>1. CASE Read(s)
    BY <2>1 DEF Read, Readable
  <2>2. CASE ReadReset(s)
    BY <2>2 DEF ReadReset
  <2>3. CASE Transform(s)
    BY <2>3 DEF Transform
  <2>4. CASE Post(s)
    BY <2>4 DEF Post
  <2>5. CASE Check(s)
    BY <2>5 DEF Check
  <2>6. CASE Signal(s)
    BY <2>6 DEF Signal
  <2>7. CASE Mark(s)
    BY <2>7 DEF Mark
  <2> QED BY <2>1, <2>2, <2>3, <2>4, <2>5, <2>6, <2>7 DEF PipeRuns
<1>3. \A t \in Sides : StreamKept(t)'
  <2>1. CASE Read(s) /\ Readable(s)
    <3>1. UNCHANGED <<delivered, count>> /\ \A t \in Sides \ {s} : UNCHANGED <<nread[t], pipe[t]>>
      BY <2>1, <1>1 DEF Read, PipeGoto, TypeOK
    <3>2. CASE pipe'[s] = "transform" /\ nread'[s] = nread[s] + 1
      <4>1. StreamKept(s)'
        BY <2>1, <3>1, <3>2 DEF Read, StreamKept, AllWhole, TypeOK
      <4> QED BY <3>1, <4>1, SameStream
    <3>3. CASE pipe'[s] = "check" /\ nread'[s] = nread[s]
      BY <3>1, <3>3, SameStream
    <3> QED BY <2>1, <1>1, <3>2, <3>3 DEF Read, PipeGoto, TypeOK
  <2>2. CASE ~(Read(s) /\ Readable(s))
    <3>1. UNCHANGED <<nread, delivered, count>> /\ \A t \in Sides \ {s} : pipe'[t] = pipe[t]
      BY <2>2, <1>1 DEF PipeRuns, Read, ReadReset, Transform, Post, Check, Signal, Mark, PipeGoto
    <3>2. \/ pipe[s] \in {"transform", "post"} /\ pipe'[s] \in {"post", "write"}
          \/ pipe'[s] \in {"check", "signal", "mark", "done"}
      BY <2>2, <1>1 DEF PipeRuns, Read, ReadReset, Transform, Post, Check, Signal, Mark, PipeGoto
    <3> QED BY <3>1, <3>2, SameStream
  <2> QED BY <2>1, <2>2
<1> QED BY <1>2, <1>3

\* A write, and one that fails with nothing or a part of the chunk written.
LEMMA WriteStep ==
  ASSUME RelayInv, NEW s \in Sides, Write(s) \/ WriteFails(s)
  PROVE  RelayInv'
<1> USE SocketAssumption DEF RelayInv
<1>1. /\ pipe[s] = "write" /\ nread[s] \in 0..MaxChunks /\ Len(delivered[s]) \in Nat
      /\ AllWhole(s) /\ nread[s] = Len(delivered[s]) + 1 /\ count[s] = Len(delivered[s])
      /\ UNCHANGED <<main, nread, first, report, connVars, erred, alive>>
      /\ \A t \in Sides \ {s} : UNCHANGED <<pipe[t], count[t], delivered[t]>>
  BY LenProperties DEF Write, WriteFails, TypeOK, StreamKept, PipeGoto
<1>a. /\ DOMAIN delivered[s] = 1..Len(delivered[s])
      /\ \A i \in 1..Len(delivered[s]) : delivered[s][i].chunk = i /\ delivered[s][i].whole
  <2>1. DOMAIN delivered[s] = 1..Len(delivered[s])
    BY LenProperties DEF TypeOK
  <2> QED BY <1>1, <2>1 DEF StreamKept, AllWhole
<1>2. /\ pipe'[s] \in {"read", "check"}
      /\ pipe' \in [Sides -> {"none", "read", "transform", "post", "write", "check", "signal",
                              "mark", "done"}]
  BY DEF Write, WriteFails, TypeOK, PipeGoto
<1> DEFINE c(w) == [chunk |-> nread[s], whole |-> w]
<1>3. \A w \in BOOLEAN : c(w) \in Chunk
  BY <1>1 DEF Chunk
<1>4. CASE Write(s)
  <2>1. /\ delivered' = [delivered EXCEPT ![s] = Append(@, c(TRUE))]
        /\ count'[s] = count[s] + 1 /\ count' \in [Sides -> Nat] /\ pipe'[s] = "read"
    BY <1>4 DEF Write, TypeOK, PipeGoto
  <2>2. c(TRUE) \in Chunk /\ c(TRUE).chunk = nread[s] /\ c(TRUE).whole
    BY <1>3
  <2> HIDE DEF c
  <2>3. /\ delivered' \in [Sides -> Seq(Chunk)]
        /\ Len(delivered'[s]) = Len(delivered[s]) + 1
        /\ DOMAIN delivered[s] = 1..Len(delivered[s])
        /\ DOMAIN delivered'[s] = 1..(Len(delivered[s]) + 1)
        /\ \A i \in 1..Len(delivered[s]) : delivered'[s][i] = delivered[s][i]
        /\ delivered'[s][Len(delivered[s]) + 1] = c(TRUE)
    BY <2>1, <2>2, Delivered
  <2>4. StreamKept(s)'
    <3>1. \A i \in 1..Len(delivered[s]) : delivered'[s][i].chunk = i /\ delivered'[s][i].whole
      BY <1>a, <2>3
    <3>2. \A i \in DOMAIN delivered'[s] : delivered'[s][i].chunk = i /\ delivered'[s][i].whole
      <4> SUFFICES ASSUME NEW i \in DOMAIN delivered'[s]
                   PROVE  delivered'[s][i].chunk = i /\ delivered'[s][i].whole
        OBVIOUS
      <4>1. i \in 1..Len(delivered[s]) \/ i = nread[s]
        BY <1>1, <2>3
      <4>2. CASE i = nread[s]
        <5>1. delivered'[s][i] = c(TRUE)
          BY <1>1, <2>3, <4>2
        <5> QED BY <2>2, <4>2, <5>1
      <4> QED BY <3>1, <4>1, <4>2
    <3>3. AllWhole(s)'
      BY <3>2 DEF AllWhole
    <3>4. /\ nread'[s] = Len(delivered'[s]) /\ nread'[s] - Len(delivered'[s]) = 0
          /\ count'[s] = Len(delivered'[s]) /\ pipe'[s] = "read"
      BY <1>1, <2>1, <2>3
    <3> QED BY <3>2, <3>3, <3>4 DEF StreamKept
  <2>5. \A t \in Sides \ {s} : StreamKept(t)'
    BY <1>1, SameStream
  <2>6. TypeOK'
    <3>1. count' \in [Sides -> 0..MaxChunks]
      BY <1>1, <1>4, <2>1 DEF Write, TypeOK
    <3> QED BY <1>1, <1>2, <2>3, <3>1 DEF TypeOK, Chunk, connVars
  <2>7. EndedByFirst' /\ ReportKept'
    BY <1>1, <2>1 DEF EndedByFirst, ReportKept, TypeOK
  <2> QED BY <2>4, <2>5, <2>6, <2>7
<1>5. CASE WriteFails(s)
  <2>1. UNCHANGED count /\ pipe'[s] = "check"
    BY <1>5 DEF WriteFails, TypeOK, PipeGoto
  <2>2. EndedByFirst' /\ ReportKept'
    BY <1>1, <2>1 DEF EndedByFirst, ReportKept, TypeOK
  <2>3. \A t \in Sides \ {s} : StreamKept(t)'
    BY <1>1, SameStream
  <2>4. CASE delivered' = delivered
    <3>1. StreamKept(s)'
      BY <1>1, <2>1, <2>4, SameStream
    <3>2. TypeOK'
      BY <1>1, <1>2, <2>1, <2>4 DEF TypeOK, connVars
    <3> QED BY <2>2, <2>3, <3>1, <3>2
  <2>5. CASE delivered' = [delivered EXCEPT ![s] = Append(@, c(FALSE))]
    <3>1. c(FALSE) \in Chunk /\ c(FALSE).chunk = nread[s] /\ ~c(FALSE).whole
      BY <1>3
    <3> HIDE DEF c
    <3>2. /\ delivered' \in [Sides -> Seq(Chunk)]
          /\ Len(delivered'[s]) = Len(delivered[s]) + 1
          /\ DOMAIN delivered[s] = 1..Len(delivered[s])
          /\ DOMAIN delivered'[s] = 1..(Len(delivered[s]) + 1)
          /\ \A i \in 1..Len(delivered[s]) : delivered'[s][i] = delivered[s][i]
          /\ delivered'[s][Len(delivered[s]) + 1] = c(FALSE)
      BY <2>5, <3>1, Delivered
    <3>3. StreamKept(s)'
      <4>1. \A i \in 1..Len(delivered[s]) : delivered'[s][i].chunk = i /\ delivered'[s][i].whole
        BY <1>a, <3>2
      <4>2. \A i \in DOMAIN delivered'[s] :
              delivered'[s][i].chunk = i /\ (i < Len(delivered'[s]) => delivered'[s][i].whole)
        <5> SUFFICES ASSUME NEW i \in DOMAIN delivered'[s]
                     PROVE  /\ delivered'[s][i].chunk = i
                            /\ i < Len(delivered'[s]) => delivered'[s][i].whole
          OBVIOUS
        <5>1. i \in 1..Len(delivered[s]) \/ (i = nread[s] /\ i = Len(delivered'[s]))
          BY <1>1, <3>2
        <5>2. CASE i = nread[s] /\ i = Len(delivered'[s])
          <6>1. delivered'[s][i] = c(FALSE)
            BY <1>1, <3>2, <5>2
          <6>2. ~(i < Len(delivered'[s]))
            BY <1>1, <3>2, <5>2
          <6>3. delivered'[s][i].chunk = i
            BY <3>1, <5>2, <6>1, Zenon
          <6> QED BY <6>2, <6>3
        <5> QED BY <4>1, <5>1, <5>2
      <4>3. ~AllWhole(s)'
        <5>1. Len(delivered[s]) + 1 \in DOMAIN delivered'[s]
          BY <1>1, <3>2
        <5>2. ~delivered'[s][Len(delivered[s]) + 1].whole
          BY <3>1, <3>2, Zenon
        <5>3. ~(\A i \in DOMAIN delivered'[s] : delivered'[s][i].whole)
          BY <5>1, <5>2, Zenon
        <5> QED BY <5>3 DEF AllWhole
      <4> QED BY <1>1, <2>1, <3>2, <4>2, <4>3 DEF StreamKept
    <3>4. TypeOK'
      BY <1>1, <1>2, <2>1, <3>2 DEF TypeOK, Chunk, connVars
    <3> QED BY <2>2, <2>3, <3>3, <3>4
  <2> QED BY <1>5, <2>4, <2>5 DEF WriteFails
<1> QED BY <1>4, <1>5

LEMMA StepInv == RelayInv /\ [Next]_vars => RelayInv'
BY MainStep, PipeStep, WriteStep DEF Next

\* The invariant of the relay, whose first conjunct is TypeOK.
THEOREM RelayIsKept == Spec => []RelayInv
BY InitInv, StepInv, PTL DEF Spec

-----------------------------------------------------------------------------
(* What it implies *)

\* Every variable of a relayed connection keeps its type: what a pipe counts and reports
\* is never more than a peer can have sent.
THEOREM RelayTyped == Spec => []TypeOK
<1>1. RelayInv => TypeOK
  BY DEF RelayInv
<1> QED BY <1>1, RelayIsKept, PTL

\* The counters count the chunks that were written whole.
LEMMA CountIsWhole ==
  ASSUME TypeOK, NEW s \in Sides, StreamKept(s)
  PROVE  count[s] = Cardinality({i \in DOMAIN delivered[s] : delivered[s][i].whole})
<1> DEFINE n == Len(delivered[s])
           W == {i \in DOMAIN delivered[s] : delivered[s][i].whole}
<1>1. n \in Nat /\ DOMAIN delivered[s] = 1..n
  BY LenProperties DEF TypeOK
<1>2. CASE AllWhole(s)
  <2>1. W = 1..n /\ count[s] = n
    BY <1>1, <1>2 DEF AllWhole, StreamKept
  <2>2. Cardinality(1..n) = n
    <3> HIDE DEF n
    <3>1. 1 \in Int /\ n \in Int
      BY <1>1
    <3>2. Cardinality(1..n) = IF 1 > n THEN 0 ELSE n - 1 + 1
      BY <3>1, FS_Interval, Zenon
    <3> QED BY <1>1, <3>2
  <2> QED BY <2>1, <2>2
<1>3. CASE ~AllWhole(s)
  <2>1. PICK i \in 1..n : ~delivered[s][i].whole
    BY <1>1, <1>3 DEF AllWhole
  <2>2. i = n
    BY <1>1, <2>1 DEF StreamKept
  <2>3. W = 1..(n - 1) /\ count[s] = n - 1
    BY <1>1, <1>3, <2>1, <2>2 DEF StreamKept
  <2>4. Cardinality(1..(n - 1)) = n - 1
    <3> HIDE DEF n
    <3>1. n \in Nat \ {0} /\ 1 \in Int /\ n - 1 \in Int
      BY <1>1, <2>1
    <3>2. Cardinality(1..(n - 1)) = IF 1 > n - 1 THEN 0 ELSE (n - 1) - 1 + 1
      BY <3>1, FS_Interval, Zenon
    <3> QED BY <3>1, <3>2
  <2> QED BY <2>3, <2>4
<1> QED BY <1>2, <1>3

\* Each peer receives what the other one sent: in order, without gaps, nothing
\* twice and nothing after a torn chunk.
THEOREM StreamIsFaithful == Spec => []FaithfulStream
<1>1. RelayInv => FaithfulStream
  BY DEF RelayInv, StreamKept, FaithfulStream
<1> QED BY <1>1, RelayIsKept, PTL

\* The final log line never claims more than was delivered, and is exact for the
\* direction that ended the connection.
THEOREM LogLineIsSound == Spec => []ReportIsSound
<1>1. RelayInv => ReportIsSound
  BY CountIsWhole DEF RelayInv, ReportKept, ReportIsSound
<1> QED BY <1>1, RelayIsKept, PTL

\* Of the two pipes at most one waits on errsig after Proxy has received from it.
THEOREM OneLeaks == Spec => []AtMostOneLeaks
<1>1. RelayInv => AtMostOneLeaks
  BY DEF RelayInv, TypeOK, EndedByFirst, AtMostOneLeaks, Sides
<1> QED BY <1>1, RelayIsKept, PTL
=============================================================================
