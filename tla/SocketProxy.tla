----------------------------- MODULE SocketProxy -----------------------------
(***************************************************************************)
(* The raw TCP relay of socket.go: the accept loop, and one connection of  *)
(* it (connections share nothing).  Proxy dials the destination, starts    *)
(* two goroutines (pipe) that copy in the two directions, waits for the    *)
(* first of them to report an error on the unbuffered channel errsig, and  *)
(* closes both sockets.  A pipe is named after the side it reads from.     *)
(* The peers, the network and the HTTP client are the environment.         *)
(***************************************************************************)
EXTENDS Integers, Sequences, FiniteSets

CONSTANTS
  MaxChunks,   \* bound: chunks that each peer sends
  Timeout,     \* SocketProxyOptions.Timeout (0 is no timeout)
  HTTPProxy,   \* SocketProxyOptions.HTTPProxy # ""
  Cloned,      \* the options went through Clone, as cmd/mitmrelay does per relay
  Results      \* what the expressions evaluate to: of "bytes", "error", "other"

ASSUME SocketAssumption ==
  /\ MaxChunks \in Nat
  /\ Timeout \in Nat
  /\ HTTPProxy \in BOOLEAN
  /\ Cloned \in BOOLEAN
  /\ Results \subseteq {"bytes", "error", "other"}

Sides == {"local", "remote"}                  \* lconn and rconn
Other(s) == IF s = "local" THEN "remote" ELSE "local"

VARIABLES
  main,       \* where Run and Proxy are
  conn,       \* lconn and rconn: "none", "open" or "closed"
  deadline,   \* of each socket: "none", "armed" or "expired"
  gone,       \* the peer on that side has closed or reset the connection
  sent,       \* chunks that the peer on that side has sent
  nread,      \* chunks that were read from that side
  pipe,       \* where the goroutine that reads that side is
  delivered,  \* the chunks written out, by the side they were read from
  count,      \* sentBytes ("local") and receivedBytes ("remote"), in chunks
  erred,      \* SocketConn.erred
  first,      \* ghost: the pipe whose signal was received
  report,     \* ghost: the counts in the final log line
  alive       \* no goroutine has panicked

vars == <<main, conn, deadline, gone, sent, nread, pipe, delivered, count, erred,
          first, report, alive>>

connVars == <<conn, deadline, gone, sent>>
pipeVars == <<nread, pipe, delivered, count>>

-----------------------------------------------------------------------------
(* Options *)

\* Clone copies the options field by field, without Timeout.
Clone(options) == [options EXCEPT !.Timeout = 0]

options ==
  LET given == [Timeout |-> Timeout, HTTPProxy |-> HTTPProxy]
  IN IF Cloned THEN Clone(given) ELSE given

-----------------------------------------------------------------------------
(* Run and Proxy *)

Init ==
  /\ main = "accept"
  /\ conn = [s \in Sides |-> "none"]
  /\ deadline = [s \in Sides |-> "none"]
  /\ gone = [s \in Sides |-> FALSE]
  /\ sent = [s \in Sides |-> 0]
  /\ nread = [s \in Sides |-> 0]
  /\ pipe = [s \in Sides |-> "none"]
  /\ delivered = [s \in Sides |-> <<>>]
  /\ count = [s \in Sides |-> 0]
  /\ erred = FALSE
  /\ first = "none"
  /\ report = [s \in Sides |-> 0]
  /\ alive = TRUE

\* The accept loop starts Proxy on a connection; an error ends Run.
Accept ==
  /\ main = "accept"
  /\ \/ /\ main' = "dial"
        /\ conn' = [conn EXCEPT !["local"] = "open"]
     \/ /\ main' = "done"
        /\ UNCHANGED conn
  /\ UNCHANGED <<deadline, gone, sent, pipeVars, erred, first, report>>

\* A failing dial, or an HTTPProxy that is no URL, ends Proxy; lconn is closed,
\* and so is rconn if it was dialled.
Dial ==
  /\ main = "dial"
  /\ \/ /\ main' = "start"
        /\ conn' = [conn EXCEPT !["remote"] = "open"]
     \/ /\ main' = "closelocal"
        /\ UNCHANGED conn
     \/ /\ options.HTTPProxy
        /\ main' = "closeremote"
        /\ conn' = [conn EXCEPT !["remote"] = "open"]
  /\ UNCHANGED <<deadline, gone, sent, pipeVars, erred, first, report>>

\* fullduplex: both pipes are started before the deadlines are set.
fullduplex ==
  /\ main = "start"
  /\ main' = IF options.Timeout > 0 THEN "armlocal" ELSE "wait"
  /\ pipe' = [s \in Sides |-> "read"]
  /\ UNCHANGED <<connVars, nread, delivered, count, erred, first, report>>

\* Mutant of SetDeadline: only lconn gets a deadline.
SetDeadlineLocal(s) ==
  /\ s = "local"
  /\ main = "armlocal"
  /\ main' = "wait"
  /\ deadline' = [deadline EXCEPT ![s] = "armed"]
  /\ UNCHANGED <<conn, gone, sent, pipeVars, erred, first, report>>

SetDeadline(s) ==
  /\ main = (IF s = "local" THEN "armlocal" ELSE "armremote")
  /\ main' = (IF s = "local" THEN "armremote" ELSE "wait")
  /\ deadline' = [deadline EXCEPT ![s] = "armed"]
  /\ UNCHANGED <<conn, gone, sent, pipeVars, erred, first, report>>

\* The final log line.  The counter of the pipe that signalled is read after its
\* last write; the other one is read while its pipe may still be writing it.
LogClosed ==
  /\ main = "log"
  /\ main' = "closeremote"
  /\ \E n \in 0..count[Other(first)] :
       report' = [report EXCEPT ![first] = count[first], ![Other(first)] = n]
  /\ UNCHANGED <<connVars, pipeVars, erred, first>>

\* The deferred calls, the last one first.
CloseConn(s) ==
  /\ main = (IF s = "remote" THEN "closeremote" ELSE "closelocal")
  /\ main' = (IF s = "remote" THEN "closelocal" ELSE "done")
  /\ conn' = [conn EXCEPT ![s] = "closed"]
  /\ UNCHANGED <<deadline, gone, sent, pipeVars, erred, first, report>>

\* Mutant of Proxy: fullduplex also returns when the deadline has passed.
ProxySelects ==
  \/ fullduplex \/ LogClosed
  \/ \E s \in Sides : SetDeadline(s) \/ CloseConn(s)
  \/ /\ main = "wait"
     /\ deadline["local"] = "expired"
     /\ main' = "closeremote"
     /\ UNCHANGED <<connVars, pipeVars, erred, first, report>>

\* What Proxy does by itself once the destination is dialled.
Proxy ==
  \/ fullduplex \/ LogClosed
  \/ \E s \in Sides : SetDeadline(s) \/ CloseConn(s)

-----------------------------------------------------------------------------
(* pipe, by the side it reads from *)

PipeGoto(s, label) == pipe' = [pipe EXCEPT ![s] = label]

\* Mutant of Readable: a read returns what is in the buffer, new or not.
ReadableAgain(s) == conn[s] = "open" /\ deadline[s] # "expired" /\ sent[s] > 0

Readable(s)   == conn[s] = "open" /\ deadline[s] # "expired" /\ nread[s] < sent[s]
ReadError(s)  == conn[s] = "closed" \/ deadline[s] = "expired" \/ (gone[s] /\ nread[s] = sent[s])
WriteError(s) == conn[s] = "closed" \/ deadline[s] = "expired"

\* src.Read
Read(s) ==
  /\ pipe[s] = "read"
  /\ \/ /\ Readable(s)
        /\ nread' = [nread EXCEPT ![s] = @ + 1]
        /\ PipeGoto(s, "transform")
     \/ /\ ReadError(s)
        /\ PipeGoto(s, "check")
        /\ UNCHANGED nread
  /\ UNCHANGED <<main, connVars, delivered, count, erred, first, report, alive>>

\* A peer that reset the connection may make the read fail with data unread.
ReadReset(s) ==
  /\ pipe[s] = "read"
  /\ gone[s]
  /\ PipeGoto(s, "check")
  /\ UNCHANGED <<main, connVars, nread, delivered, count, erred, first, report, alive>>

\* The expressions and the callback: an expression that fails leaves the chunk as
\* it is; one that does not evaluate to bytes makes the type assertion panic.
Transform(s) ==
  /\ pipe[s] = "transform"
  /\ \E r \in Results :
       /\ alive' = (r # "other")
       /\ PipeGoto(s, IF options.HTTPProxy THEN "post" ELSE "write")
  /\ UNCHANGED <<main, connVars, nread, delivered, count, erred, first, report>>

\* httpclient.Post returns, with a body to use instead or with an error.  The
\* client has no timeout.
Post(s) ==
  /\ pipe[s] = "post"
  /\ PipeGoto(s, "write")
  /\ UNCHANGED <<main, connVars, nread, delivered, count, erred, first, report, alive>>

\* dst.Write succeeds and the counter goes up.
Write(s) ==
  /\ pipe[s] = "write"
  /\ ~WriteError(Other(s))
  /\ delivered' = [delivered EXCEPT ![s] = Append(@, [chunk |-> nread[s], whole |-> TRUE])]
  /\ count' = [count EXCEPT ![s] = @ + 1]
  /\ PipeGoto(s, "read")
  /\ UNCHANGED <<main, connVars, nread, erred, first, report, alive>>

\* Mutant of WriteFails: the pipe reads on after a failed write.
WriteFailsGoesOn(s) ==
  /\ pipe[s] = "write"
  /\ WriteError(Other(s)) \/ gone[Other(s)]
  /\ \/ UNCHANGED delivered
     \/ delivered' = [delivered EXCEPT ![s] = Append(@, [chunk |-> nread[s], whole |-> FALSE])]
  /\ PipeGoto(s, "read")
  /\ UNCHANGED <<main, connVars, nread, count, erred, first, report, alive>>

\* Mutant of WriteFails: the counter goes up before the error is looked at.
WriteFailsCounts(s) ==
  /\ pipe[s] = "write"
  /\ WriteError(Other(s)) \/ gone[Other(s)]
  /\ \/ UNCHANGED delivered
     \/ delivered' = [delivered EXCEPT ![s] = Append(@, [chunk |-> nread[s], whole |-> FALSE])]
  /\ count' = [count EXCEPT ![s] = @ + 1]
  /\ PipeGoto(s, "check")
  /\ UNCHANGED <<main, connVars, nread, erred, first, report, alive>>

\* dst.Write fails, nothing or a part of the chunk written; that is not counted.
WriteFails(s) ==
  /\ pipe[s] = "write"
  /\ WriteError(Other(s)) \/ gone[Other(s)]
  /\ \/ UNCHANGED delivered
     \/ delivered' = [delivered EXCEPT ![s] = Append(@, [chunk |-> nread[s], whole |-> FALSE])]
  /\ PipeGoto(s, "check")
  /\ UNCHANGED <<main, connVars, nread, count, erred, first, report, alive>>

\* Mutant of Check: the flag is set before it is tested.
CheckSetsFirst(s) ==
  /\ pipe[s] = "check"
  /\ erred' = TRUE
  /\ PipeGoto(s, "done")
  /\ UNCHANGED <<main, connVars, nread, delivered, count, first, report, alive>>

\* err, the test of erred.  The read is not synchronised with the write of the
\* other pipe: it may miss it.
Check(s) ==
  /\ pipe[s] = "check"
  /\ \/ erred /\ PipeGoto(s, "done")
     \/ PipeGoto(s, "signal")
  /\ UNCHANGED <<main, connVars, nread, delivered, count, erred, first, report, alive>>

\* err, the send on errsig: it takes place when Proxy receives, and only then.
Signal(s) ==
  /\ pipe[s] = "signal"
  /\ main = "wait"
  /\ PipeGoto(s, "mark")
  /\ main' = "log"
  /\ first' = s
  /\ UNCHANGED <<connVars, nread, delivered, count, erred, report, alive>>

\* err, the last statement; the pipe returns.
Mark(s) ==
  /\ pipe[s] = "mark"
  /\ erred' = TRUE
  /\ PipeGoto(s, "done")
  /\ UNCHANGED <<main, connVars, nread, delivered, count, first, report, alive>>

\* The steps of a pipe that only the scheduler can delay.
PipeRuns(s) == Read(s) \/ Transform(s) \/ Check(s) \/ Signal(s) \/ Mark(s)

-----------------------------------------------------------------------------
(* The environment *)

\* A peer sends another chunk.
PeerSends(s) ==
  /\ conn[s] = "open"
  /\ ~gone[s]
  /\ sent[s] < MaxChunks
  /\ sent' = [sent EXCEPT ![s] = @ + 1]
  /\ UNCHANGED <<main, conn, deadline, gone, pipeVars, erred, first, report, alive>>

\* A peer closes or resets its connection.
PeerLeaves(s) ==
  /\ conn[s] = "open"
  /\ ~gone[s]
  /\ gone' = [gone EXCEPT ![s] = TRUE]
  /\ UNCHANGED <<main, conn, deadline, sent, pipeVars, erred, first, report, alive>>

\* The deadline of a socket passes.
Expire(s) ==
  /\ deadline[s] = "armed"
  /\ deadline' = [deadline EXCEPT ![s] = "expired"]
  /\ UNCHANGED <<main, conn, gone, sent, pipeVars, erred, first, report, alive>>

-----------------------------------------------------------------------------
(* Specification *)

Next ==
  /\ alive
  /\ \/ (Accept \/ Dial \/ Proxy) /\ UNCHANGED alive
     \/ \E s \in Sides :
          \/ PipeRuns(s) \/ ReadReset(s) \/ Post(s) \/ Write(s) \/ WriteFails(s)
          \/ PeerSends(s) \/ PeerLeaves(s) \/ Expire(s)

Spec == Init /\ [][Next]_vars

\* The goroutines are scheduled, time passes, and a write to a socket that is
\* closed or past its deadline returns.  Nothing makes a peer read or send, a
\* write to it return, or Post come back.
FairSpec ==
  /\ Spec
  /\ WF_vars(alive /\ Proxy /\ UNCHANGED alive)
  /\ \A s \in Sides :
       /\ WF_vars(alive /\ PipeRuns(s))
       /\ WF_vars(alive /\ WriteError(Other(s)) /\ WriteFails(s))
       /\ WF_vars(alive /\ Expire(s))

-----------------------------------------------------------------------------
(* Properties *)

TypeOK ==
  /\ main \in {"accept", "dial", "start", "armlocal", "armremote", "wait", "log",
               "closeremote", "closelocal", "done"}
  /\ conn \in [Sides -> {"none", "open", "closed"}]
  /\ deadline \in [Sides -> {"none", "armed", "expired"}]
  /\ gone \in [Sides -> BOOLEAN]
  /\ sent \in [Sides -> 0..MaxChunks]
  /\ nread \in [Sides -> 0..MaxChunks]
  /\ pipe \in [Sides -> {"none", "read", "transform", "post", "write", "check", "signal",
                         "mark", "done"}]
  /\ delivered \in [Sides -> Seq([chunk : 1..MaxChunks, whole : BOOLEAN])]
  /\ count \in [Sides -> 0..MaxChunks]
  /\ erred \in BOOLEAN
  /\ first \in Sides \cup {"none"}
  /\ report \in [Sides -> 0..MaxChunks]
  /\ alive \in BOOLEAN

\* What a peer receives is what the other one sent: in order, nothing twice, no
\* gap, nothing after a chunk that was torn by a failed write - and of what was
\* read, at most the chunk in hand is lost when the connection is torn down.
FaithfulStream ==
  \A s \in Sides :
    /\ \A i \in DOMAIN delivered[s] :
         /\ delivered[s][i].chunk = i
         /\ i < Len(delivered[s]) => delivered[s][i].whole
    /\ nread[s] - Len(delivered[s]) \in {0, 1}

\* The counts in the log line: never more than was delivered whole, and exact for
\* the direction that ended the connection.
ReportIsSound ==
  main \in {"closeremote", "closelocal", "done"} /\ first # "none" =>
    \A s \in Sides :
      LET whole == Cardinality({i \in DOMAIN delivered[s] : delivered[s][i].whole})
      IN report[s] <= whole /\ (s = first => report[s] = whole)

\* Both pipes can pass the test of erred; the second one then waits on errsig for
\* ever.  But never both: one of them was received, which is what ended Proxy.
AtMostOneLeaks ==
  main \in {"log", "closeremote", "closelocal", "done"} =>
    ~(pipe["local"] = "signal" /\ pipe["remote"] = "signal")

\* An error in one direction ends the connection in both: the two sockets are
\* closed, however the other pipe is blocked.
ErrorClosesBoth ==
  \A s \in Sides :
    (pipe[s] = "check") ~> (~alive \/ \A t \in Sides : conn[t] = "closed")

\* A connection with a timeout does not outlive it ("Connection Timeout In
\* Seconds", says the flag of cmd/mitmrelay), however silent or stuck the peers,
\* unless both pipes are caught in the HTTP client, which has no timeout.
TimeoutCloses ==
  (Timeout > 0 /\ main = "wait")
    ~> (~alive \/ main = "done" \/ [](\A s \in Sides : pipe[s] = "post"))

=============================================================================
