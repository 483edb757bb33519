-------------------------------- MODULE Proxy --------------------------------
(***************************************************************************)
(* The HTTP proxy of proxy.go: the sessions (client connections) that      *)
(* martian serves concurrently, each one request after the other, and the  *)
(* hooks ModifyRequest and ModifyResponse that martian calls, composed     *)
(* with the traffic logger they feed.  martian itself is external: it      *)
(* reads a request, calls ModifyRequest, makes the round trip (an upstream *)
(* error becomes a response too), calls ModifyResponse and answers.        *)
(* A hook is split where it may block: at the send into the logger.        *)
(***************************************************************************)
EXTENDS Integers, Sequences, FiniteSets

CONSTANTS
  Sessions,             \* client connections
  MaxRequests,          \* bound: requests read, on all sessions together
  Options,              \* the configurations to consider
  Encodings,            \* what clients may put into Accept-Encoding
  QueueCap, MaxSent, ElasticAddr, KafkaAddr, OutputFolder, OutputFormat,
  DumpRequest, DumpResponse, MaxSize, Faults        \* of the logger

VARIABLES
  options,  \* Proxy.options, what concerns the hooks; it never changes
  pc,       \* where the goroutine of the session is
  nth,      \* how many requests the session has read
  kind,     \* of the current request: "http", "connect", or "self" (proxify's own page)
  accept,   \* the Accept-Encoding header of the current request, as a set
  ctx,      \* the "user-data" entry of the martian context
  data,     \* the local variable userData of the hook that runs
  evals,    \* ghost: the filter results of every exchange
  owner,    \* ghost: the exchange behind every transaction, by its seq
  Store, sWriter, asyncqueue, closing, running, todo, saved, alive, nsent, tried

sessionVars == <<options, pc, nth, kind, accept, ctx, data, evals, owner>>
loggerVars  == <<Store, sWriter, asyncqueue, closing, running, todo, saved, alive, nsent, tried>>
vars        == <<sessionVars, loggerVars>>

Exchanges == Sessions \X (1..MaxRequests)
NoId      == <<"", 0>>                      \* the ID of an empty UserData

OptionsType ==
  [RequestDSL         : Nat,      \* number of request filters
   ResponseDSL        : Nat,      \* number of response filters
   MatchReplace       : BOOLEAN,  \* RequestMatchReplaceDSL is not empty
   PassThrough        : Nat,      \* number of pass-through expressions
   OnRequestCallback  : BOOLEAN,  \* the library user set OnRequestCallback
   OnResponseCallback : BOOLEAN]  \* the library user set OnResponseCallback

ASSUME ProxyAssumption ==
  /\ MaxRequests \in Nat
  /\ Options \subseteq OptionsType
  /\ MaxSent \in Nat /\ MaxSent >= 2 * MaxRequests
  /\ QueueCap \in Nat \ {0}
  /\ MaxSize \in Int
  /\ {ElasticAddr, KafkaAddr, OutputFolder, DumpRequest, DumpResponse} \subseteq BOOLEAN
  /\ Faults \subseteq {"new", "dump", "fill", "marshal", "save", "retry", "halt"}

L == INSTANCE Logger WITH Ids <- Exchanges \cup {NoId}

UserData == [id : Exchanges \cup {NoId}, match : {"nil", "true", "false"}]
Empty    == [id |-> NoId, match |-> "nil"]  \* types.UserData{}
Absent   == [id |-> NoId, match |-> "absent"]

Exchange(s) == <<s, nth[s]>>

Goto(s, label) == pc' = [pc EXCEPT ![s] = label]

-----------------------------------------------------------------------------
(* Helpers of pkg/util *)

EvalBoolSlice(slice) == slice # <<>> /\ \A i \in DOMAIN slice : slice[i]

\* An expression that does not compile counts as one that does not match.
MatchAnyRegex(results) == \E i \in DOMAIN results : results[i] = "match"

AsMatch(b) == IF b THEN "true" ELSE "false"

-----------------------------------------------------------------------------
(* The hooks, and martian around them *)

Init ==
  /\ options \in Options
  /\ pc = [s \in Sessions |-> "read"]
  /\ nth = [s \in Sessions |-> 0]
  /\ kind = [s \in Sessions |-> "http"]
  /\ accept = [s \in Sessions |-> {}]
  /\ ctx = [s \in Sessions |-> Absent]
  /\ data = [s \in Sessions |-> Empty]
  /\ evals = [e \in Exchanges |-> <<>>]
  /\ owner = <<>>
  /\ L!NewLogger

Begun == {e \in Exchanges : e[2] <= nth[e[1]]}

\* martian reads the next request and gives it a fresh context.
ReadRequest(s) ==
  /\ alive
  /\ pc[s] = "read"
  /\ Cardinality(Begun) < MaxRequests
  /\ nth' = [nth EXCEPT ![s] = @ + 1]
  /\ \E k \in {"http", "connect", "self"} :
       /\ k = "connect" => nth[s] = 0
       /\ kind' = [kind EXCEPT ![s] = k]
  /\ \E h \in SUBSET Encodings : accept' = [accept EXCEPT ![s] = h]
  /\ ctx' = [ctx EXCEPT ![s] = Absent]
  /\ Goto(s, "modreq")
  /\ UNCHANGED <<options, data, evals, owner, loggerVars>>

\* The client closes an idle connection.
Disconnect(s) ==
  /\ alive
  /\ pc[s] = "read"
  /\ Goto(s, "closed")
  /\ UNCHANGED <<options, nth, kind, accept, ctx, data, evals, owner, loggerVars>>

\* hijackNServe: proxify's own pages are served on the hijacked connection,
\* which is then closed; nothing is recorded.
hijackNServe(s) ==
  /\ kind[s] = "self"
  /\ Goto(s, "closed")
  /\ UNCHANGED <<ctx, data, accept, evals>>

\* A callback replaces the rest of the hook.
RequestCallback(s) ==
  /\ kind[s] # "self"
  /\ options.OnRequestCallback
  /\ Goto(s, "roundtrip")
  /\ UNCHANGED <<ctx, data, accept, evals>>

\* MatchReplaceRequest: the headers it may leave behind.  The whole request is
\* rewritten, or left alone on any error.
MatchReplaceRequest(header) ==
  IF options.MatchReplace THEN {header} \cup SUBSET Encodings ELSE {header}

\* PruneEqual drops the items equal to "br", not those that carry a weight.
removeBrEncoding(header) == header \ {"br"}

\* First the rewriting, then the pruning.
RewriteRequest(s) ==
  \E header \in MatchReplaceRequest(accept[s]) :
    accept' = [accept EXCEPT ![s] = removeBrEncoding(header)]

\* Mutant of FilterRequest: the user data is kept in one field of the proxy that
\* all sessions share, not in the context of the request.
FilterRequestShared(s) ==
  /\ kind[s] # "self"
  /\ ~options.OnRequestCallback
  /\ \E slice \in [1..options.RequestDSL -> BOOLEAN] :
       LET userData == [id    |-> Exchange(s),
                        match |-> IF slice = <<>> THEN "nil" ELSE AsMatch(EvalBoolSlice(slice))]
       IN /\ ctx' = [t \in Sessions |-> userData]
          /\ data' = [data EXCEPT ![s] = userData]
          /\ evals' = [evals EXCEPT ![Exchange(s)] = slice]
  /\ RewriteRequest(s)
  /\ Goto(s, "logreq")

\* Mutant of FilterRequest: the ID is the session's, not the request's.
FilterRequestSession(s) ==
  /\ kind[s] # "self"
  /\ ~options.OnRequestCallback
  /\ \E slice \in [1..options.RequestDSL -> BOOLEAN] :
       LET userData == [id    |-> <<s, 1>>,
                        match |-> IF slice = <<>> THEN "nil" ELSE AsMatch(EvalBoolSlice(slice))]
       IN /\ ctx' = [ctx EXCEPT ![s] = userData]
          /\ data' = [data EXCEPT ![s] = userData]
          /\ evals' = [evals EXCEPT ![Exchange(s)] = slice]
  /\ RewriteRequest(s)
  /\ Goto(s, "logreq")

\* The filters run, their verdict goes into the context, the request is rewritten.
FilterRequest(s) ==
  /\ kind[s] # "self"
  /\ ~options.OnRequestCallback
  /\ \E slice \in [1..options.RequestDSL -> BOOLEAN] :
       LET userData == [id    |-> Exchange(s),
                        match |-> IF slice = <<>> THEN "nil" ELSE AsMatch(EvalBoolSlice(slice))]
       IN /\ ctx' = [ctx EXCEPT ![s] = userData]
          /\ data' = [data EXCEPT ![s] = userData]
          /\ evals' = [evals EXCEPT ![Exchange(s)] = slice]
  /\ RewriteRequest(s)
  /\ Goto(s, "logreq")

ModifyRequest(s) ==
  /\ alive
  /\ pc[s] = "modreq"
  /\ hijackNServe(s) \/ RequestCallback(s) \/ FilterRequest(s)
  /\ UNCHANGED <<options, nth, kind, owner, loggerVars>>

\* The last statement of ModifyRequest, which may block.
LogRequest(s) ==
  /\ pc[s] = "logreq"
  /\ L!LogRequest(data[s].id, data[s].match)
  /\ owner' = Append(owner, [exchange |-> Exchange(s), response |-> FALSE])
  /\ Goto(s, "roundtrip")
  /\ UNCHANGED <<options, nth, kind, accept, ctx, data, evals>>

\* martian has a response: the upstream's, or the 502 it makes of an error.
RoundTrip(s) ==
  /\ alive
  /\ pc[s] = "roundtrip"
  /\ Goto(s, "modresp")
  /\ UNCHANGED <<options, nth, kind, accept, ctx, data, evals, owner, loggerVars>>

\* What the session does after an answer: a redirect to another host closes it
\* (resp.Close), a CONNECT to a pass-through host turns it into a tunnel, any
\* other session goes on with the next request (inside TLS after a CONNECT).
Answer(s, redirected) ==
  \/ redirected /\ Goto(s, "closed")
  \/ /\ ~redirected
     /\ kind[s] = "connect"
     /\ \E results \in [1..options.PassThrough -> {"match", "nomatch", "error"}] :
          Goto(s, IF MatchAnyRegex(results) THEN "tunnel" ELSE "read")
  \/ /\ ~redirected
     /\ kind[s] # "connect"
     /\ Goto(s, "read")

\* A callback replaces the rest of the hook, the treatment of redirects included.
ResponseCallback(s) ==
  /\ options.OnResponseCallback
  /\ Answer(s, FALSE)
  /\ UNCHANGED <<data, evals>>

\* Mutant of FilterResponse: the response filters overwrite the request's verdict.
FilterResponseAlone(s) ==
  /\ ~options.OnResponseCallback
  /\ \E slice \in [1..options.ResponseDSL -> BOOLEAN] :
       LET userData == IF ctx[s] = Absent THEN Empty ELSE ctx[s]
       IN /\ data' = [data EXCEPT ![s] = [userData EXCEPT
                        !.match = IF slice = <<>> THEN @ ELSE AsMatch(EvalBoolSlice(slice))]]
          /\ evals' = [evals EXCEPT ![Exchange(s)] = @ \o slice]
  /\ Goto(s, "logresp")

\* Mutant of FilterResponse: without user data in the context, those of the
\* session's previous exchange are used.
FilterResponseStale(s) ==
  /\ ~options.OnResponseCallback
  /\ \E slice \in [1..options.ResponseDSL -> BOOLEAN] :
       LET userData == IF ctx[s] = Absent THEN data[s] ELSE ctx[s]
           tmp      == EvalBoolSlice(slice) /\ userData.match # "false"
       IN /\ data' = [data EXCEPT ![s] = [userData EXCEPT
                        !.match = IF slice = <<>> THEN @ ELSE AsMatch(tmp)]]
          /\ evals' = [evals EXCEPT ![Exchange(s)] = @ \o slice]
  /\ Goto(s, "logresp")

\* The response filters are joined with the verdict of the request's.  Without
\* user data in the context an empty one is used.
FilterResponse(s) ==
  /\ ~options.OnResponseCallback
  /\ \E slice \in [1..options.ResponseDSL -> BOOLEAN] :
       LET userData == IF ctx[s] = Absent THEN Empty ELSE ctx[s]
           tmp      == EvalBoolSlice(slice) /\ userData.match # "false"
       IN /\ data' = [data EXCEPT ![s] = [userData EXCEPT
                        !.match = IF slice = <<>> THEN @ ELSE AsMatch(tmp)]]
          /\ evals' = [evals EXCEPT ![Exchange(s)] = @ \o slice]
  /\ Goto(s, "logresp")

ModifyResponse(s) ==
  /\ alive
  /\ pc[s] = "modresp"
  /\ ResponseCallback(s) \/ FilterResponse(s)
  /\ UNCHANGED <<options, nth, kind, accept, ctx, owner, loggerVars>>

\* The rest of ModifyResponse: the send, which may block, and the redirect check.
LogResponse(s) ==
  /\ pc[s] = "logresp"
  /\ L!LogResponse(data[s].id, data[s].match, TRUE)
  /\ owner' = Append(owner, [exchange |-> Exchange(s), response |-> TRUE])
  /\ \E redirected \in BOOLEAN : Answer(s, redirected)
  /\ UNCHANGED <<options, nth, kind, accept, ctx, data, evals>>

\* The signal handler: Close calls Proxy.Stop, which does nothing, and the
\* process exits with whatever is still queued.
Exit == L!Halt /\ UNCHANGED sessionVars

AsyncWrite ==
  /\ L!Receive \/ L!WriteStructured \/ L!Save \/ L!SaveFails
  /\ UNCHANGED sessionVars

Session(s) ==
  \/ ReadRequest(s) \/ Disconnect(s)
  \/ ModifyRequest(s) \/ LogRequest(s)
  \/ RoundTrip(s)
  \/ ModifyResponse(s) \/ LogResponse(s)

Next == (\E s \in Sessions : Session(s)) \/ AsyncWrite \/ Exit

Spec == Init /\ [][Next]_vars

\* The goroutines of the logger and of the hooks are scheduled, every Save
\* returns, and a sender that the channel can take is not passed over for ever.
FairSpec ==
  /\ Spec
  /\ WF_vars(AsyncWrite)
  /\ \A s \in Sessions :
       WF_vars(ModifyRequest(s) \/ LogRequest(s) \/ ModifyResponse(s) \/ LogResponse(s))

-----------------------------------------------------------------------------
(* Properties *)

TypeOK ==
  /\ options \in Options
  /\ pc \in [Sessions -> {"read", "modreq", "logreq", "roundtrip", "modresp", "logresp",
                          "closed", "tunnel"}]
  /\ nth \in [Sessions -> 0..MaxRequests]
  /\ kind \in [Sessions -> {"http", "connect", "self"}]
  /\ accept \in [Sessions -> SUBSET Encodings]
  /\ ctx \in [Sessions -> UserData \cup {Absent}]
  /\ data \in [Sessions -> UserData]
  /\ evals \in [Exchanges -> Seq(BOOLEAN)]
  /\ owner \in Seq([exchange : Exchanges, response : BOOLEAN])
  /\ L!TypeOK

\* What the filters said of an exchange: the conjunction of all of them.
Verdict(e) ==
  IF evals[e] = <<>> THEN "nil" ELSE AsMatch(\A i \in DOMAIN evals[e] : evals[e][i])

Quiet == asyncqueue = <<>> /\ todo = <<>>

\* A response on its way to the exporters carries the verdict of ITS exchange, made of
\* what its own request and response filters said, however the sessions interleave and
\* whatever the context of the connection held before; so does an entry that is let
\* into the structured file.  (The code joins the filters with "and"; that the README
\* joins them with "or" is what TaggedIfEither is about.)
VerdictOfItsExchange ==
  /\ \A i \in DOMAIN asyncqueue :
       asyncqueue[i].response =>
         asyncqueue[i].match = Verdict(owner[asyncqueue[i].seq].exchange)
  /\ \A i \in DOMAIN saved["swriter"] :
       Verdict(owner[saved["swriter"][i].seq].exchange) \in {"nil", "true"}

\* README.md: "If the request or response match the filters the dump is tagged with
\* .match.txt suffix".  Of the parts of a dump only the response's name has the tag.
TaggedIfEither ==
  LET file == saved["file"] IN
  \A i \in DOMAIN file :
    LET said == evals[owner[file[i].seq].exchange] IN
    (file[i].part = "response" /\ \E k \in DOMAIN said : said[k]) => file[i].name.match

\* Every document is filed under the exchange it belongs to; only an exchange
\* whose user data was never set (a request callback) is filed under the empty ID.
FiledUnderItsExchange ==
  \A d \in L!Targets : \A i \in DOMAIN saved[d] :
    \/ saved[d][i].id = owner[saved[d][i].seq].exchange
    \/ options.OnRequestCallback /\ saved[d][i].id = NoId

\* Behind the hooks, too, every target - the dump files among them, which a failed save
\* leaves with a part of a document - holds the documents in the order in which the
\* sessions' hooks were let into the channel, the request of a transaction first.
DumpsInOrder == L!InSubmissionOrder

\* When the logger has caught up and nothing failed, the structured file has
\* exactly one entry for every logged response that the filters let through.
PairsLogged ==
  (Faults = {} /\ Quiet /\ sWriter = "open") =>
    \A k \in DOMAIN owner :
      LET e == owner[k].exchange IN
      (owner[k].response /\ Verdict(e) # "false") =>
        Cardinality({i \in DOMAIN saved["swriter"] :
                       owner[saved["swriter"][i].seq].exchange = e}) = 1

\* In the dump directory nothing is ever appended to a file after the response,
\* and a response without a request before it is in a file of its own (.match,
\* or a part file): the request of an exchange is logged before its response is.
ResponseClosesFile ==
  LET file == saved["file"] IN
  \A i \in DOMAIN file : (file[i].part = "response" /\ file[i].id # NoId) =>
    /\ \A j \in DOMAIN file : j > i => file[j].name # file[i].name
    /\ (Faults = {} /\ file[i].name.suffix = "" /\ ~file[i].name.match) =>
         \E j \in DOMAIN file : j < i /\ file[j].name = file[i].name

\* A hook always returns: a full channel holds it up, never for ever.
HooksReturn ==
  \A s \in Sessions :
    (pc[s] \in {"modreq", "logreq", "modresp", "logresp"}) ~>
      (~alive \/ pc[s] \in {"roundtrip", "read", "closed", "tunnel"})

=============================================================================
