---------------------------- MODULE ProxyProofs ----------------------------
(***************************************************************************)
(* Proofs about the HTTP proxy, for every number of sessions and requests, *)
(* every configuration and every set of failures of the logger: that its   *)
(* sessions use the logger as the logger's own specification allows, and   *)
(* that whatever the logger holds, owes and has written belongs to the     *)
(* exchange it was logged for.  The logger's theorems are used through P.  *)
(***************************************************************************)
EXTENDS Proxy, FiniteSetTheorems, SequenceTheorems, TLAPS

P == INSTANCE LoggerProofs WITH Ids <- Exchanges \cup {NoId}

-----------------------------------------------------------------------------
(* The logger of the proxy is the logger of LoggerProofs *)

\* The logger's own assumption holds of the proxy's constants.
LEMMA LoggerSetting ==
  /\ QueueCap \in Nat \ {0}
  /\ MaxSent \in Nat
  /\ MaxSize \in Int
  /\ {ElasticAddr, KafkaAddr, OutputFolder, DumpRequest, DumpResponse} \subseteq BOOLEAN
  /\ Faults \subseteq P!FaultKinds
BY ProxyAssumption DEF P!FaultKinds

LEMMA SameSend == \A t : L!Send(t) <=> P!Send(t)
BY DEF L!Send, P!Send

LEMMA SameLogRequest == \A id, m : L!LogRequest(id, m) <=> P!LogRequest(id, m)
BY SameSend DEF L!LogRequest, P!LogRequest

LEMMA SameLogResponse == \A id, m, r : L!LogResponse(id, m, r) <=> P!LogResponse(id, m, r)
BY SameSend DEF L!LogResponse, P!LogResponse

LEMMA SameReceive == L!Receive <=> P!Receive
<1>1. \A t, x, y, z : L!Writes(t, x, y, z) = P!Writes(t, x, y, z)
  <2>1. \A t, part, dump : L!StoreDocument(t, part, dump) = P!StoreDocument(t, part, dump)
    BY DEF L!StoreDocument, P!StoreDocument, L!StoreName, P!StoreName, L!Truncate, P!Truncate
  <2>2. \A t, part, dump : L!storeWriter(t, part, dump) = P!storeWriter(t, part, dump)
    BY <2>1 DEF L!storeWriter, P!storeWriter, L!Selected, P!Selected
  <2>3. \A t, y, z : L!structuredWrite(t, y, z) = P!structuredWrite(t, y, z)
    BY DEF L!structuredWrite, P!structuredWrite
  <2>4. \A ok : L!Dump(ok) = P!Dump(ok)
    BY DEF L!Dump, P!Dump
  <2> QED BY <2>2, <2>3, <2>4 DEF L!Writes, P!Writes
<1>2. \A k : L!Fails(k) = P!Fails(k)
  BY DEF L!Fails, P!Fails
<1> DEFINE LW(t, d, f, r) == L!Writes(t, ~d, t.response /\ ~f, ~r)
           PW(t, d, f, r) == P!Writes(t, ~d, t.response /\ ~f, ~r)
<1>3. \A t, d, f, r : LW(t, d, f, r) = PW(t, d, f, r)
  BY <1>1, Zenon
<1>4. L!Receive <=>
        /\ alive /\ running /\ todo = <<>> /\ asyncqueue # <<>> /\ asyncqueue' = Tail(asyncqueue)
        /\ \/ ~Head(asyncqueue).request /\ todo' = <<>>
           \/ /\ Head(asyncqueue).request
              /\ \E d \in L!Fails("dump"), f \in L!Fails("fill"), r \in L!Fails("dump") :
                   todo' = LW(Head(asyncqueue), d, f, r)
        /\ UNCHANGED <<Store, sWriter, closing, running, saved, alive, nsent, tried>>
  BY Zenon DEF L!Receive
<1>5. P!Receive <=>
        /\ alive /\ running /\ todo = <<>> /\ asyncqueue # <<>> /\ asyncqueue' = Tail(asyncqueue)
        /\ \/ ~Head(asyncqueue).request /\ todo' = <<>>
           \/ /\ Head(asyncqueue).request
              /\ \E d \in P!Fails("dump"), f \in P!Fails("fill"), r \in P!Fails("dump") :
                   todo' = PW(Head(asyncqueue), d, f, r)
        /\ UNCHANGED <<Store, sWriter, closing, running, saved, alive, nsent, tried>>
  BY Zenon DEF P!Receive
<1> HIDE DEF LW, PW
<1> QED BY <1>2, <1>3, <1>4, <1>5

LEMMA SameWrites ==
  /\ L!WriteStructured <=> P!WriteStructured
  /\ L!Save <=> P!Save
  /\ L!SaveFails <=> P!SaveFails
<1>1. \A docs : L!Done(docs) <=> P!Done(docs)
  BY DEF L!Done, P!Done
<1>2. \A doc : L!sWriterWrite(doc) = P!sWriterWrite(doc)
  BY DEF L!sWriterWrite, P!sWriterWrite
<1>3. \A store, doc, ok : L!storeSave(store, doc, ok) = P!storeSave(store, doc, ok)
  BY DEF L!storeSave, P!storeSave, L!elasticSave, P!elasticSave, L!kafkaSave, P!kafkaSave,
         L!fileSave, P!fileSave
<1>4. L!StoreNames = P!StoreNames
  BY DEF L!StoreNames, P!StoreNames
<1>5. L!WriteStructured <=> P!WriteStructured
  BY <1>1, <1>2 DEF L!WriteStructured, P!WriteStructured
<1>6. L!Save <=> P!Save
  BY <1>1, <1>3, <1>4, Zenon DEF L!Save, P!Save
<1>7. L!SaveFails <=> P!SaveFails
  BY <1>1, <1>3, <1>4, Zenon DEF L!SaveFails, P!SaveFails
<1> QED BY <1>5, <1>6, <1>7

LEMMA SameRest ==
  /\ L!NewLogger <=> P!NewLogger
  /\ L!Halt <=> P!Halt
  /\ L!TypeOK <=> P!TypeOK
<1>1. \A k : L!Fails(k) = P!Fails(k)
  BY DEF L!Fails, P!Fails
<1>2. L!NewLogger <=> P!NewLogger
  BY <1>1, Zenon DEF L!NewLogger, P!NewLogger, L!Targets, P!Targets, L!StoreNames, P!StoreNames
<1>3. L!Halt <=> P!Halt
  BY DEF L!Halt, P!Halt
<1>4. L!TypeOK <=> P!TypeOK
  BY DEF L!TypeOK, P!TypeOK, L!StoreNames, P!StoreNames, L!Transaction, P!Transaction,
         L!Targets, P!Targets, L!Document, P!Document, L!Name, P!Name, L!Parts, P!Parts,
         L!Verdicts, P!Verdicts, L!Tokens, P!Tokens
<1> QED BY <1>2, <1>3, <1>4

-----------------------------------------------------------------------------
(* The sessions: types *)

\* The part of TypeOK that is not the logger's; only finitely many exchanges have
\* begun, which is why the bound on their number bounds nth.
SessionTyped ==
  /\ options \in Options
  /\ pc \in [Sessions -> {"read", "modreq", "logreq", "roundtrip", "modresp", "logresp",
                          "closed", "tunnel"}]
  /\ nth \in [Sessions -> 0..MaxRequests]
  /\ kind \in [Sessions -> {"http", "connect", "self"}]
  /\ accept \in [Sessions -> SUBSET Encodings]
  /\ ctx \in [Sessions -> UserData \cup {Absent}]
  /\ data \in [Sessions -> UserData]
  /\ evals \in [Exchanges -> Seq(BOOLEAN)]
  /\ owner \in Seq([exchange : Exchanges, response : BOOLEAN])
  /\ IsFiniteSet(Begun)

LEMMA OptionsTyped ==
  ASSUME options \in Options
  PROVE  /\ options.RequestDSL \in Nat /\ options.ResponseDSL \in Nat
         /\ options.OnRequestCallback \in BOOLEAN
BY ProxyAssumption DEF OptionsType

LEMMA BoundedExchange ==
  ASSUME SessionTyped, NEW s \in Sessions, nth[s] # 0
  PROVE  Exchange(s) \in Exchanges
BY ProxyAssumption DEF SessionTyped, Exchange, Exchanges

LEMMA OwnerIsExchange ==
  ASSUME SessionTyped, NEW k \in DOMAIN owner
  PROVE  owner[k].exchange \in Exchanges /\ owner[k].response \in BOOLEAN
<1>1. owner \in Seq([exchange : Exchanges, response : BOOLEAN])
  BY DEF SessionTyped
<1>2. owner[k] \in [exchange : Exchanges, response : BOOLEAN]
  BY <1>1, LenProperties
<1> QED BY <1>2

LEMMA SessionInit == Init => SessionTyped
<1> SUFFICES ASSUME Init PROVE SessionTyped
  OBVIOUS
<1>1. options \in Options /\ nth = [s \in Sessions |-> 0]
  BY DEF Init
<1>2. Begun = {}
  BY <1>1, ProxyAssumption DEF Begun, Exchanges
<1>3. nth \in [Sessions -> 0..MaxRequests]
  BY <1>1, ProxyAssumption
<1>4. /\ accept \in [Sessions -> SUBSET Encodings]
      /\ ctx \in [Sessions -> UserData \cup {Absent}]
      /\ data \in [Sessions -> UserData]
      /\ evals \in [Exchanges -> Seq(BOOLEAN)]
      /\ owner \in Seq([exchange : Exchanges, response : BOOLEAN])
  BY DEF Init, UserData, Empty
<1>5. /\ pc \in [Sessions -> {"read", "modreq", "logreq", "roundtrip", "modresp", "logresp",
                              "closed", "tunnel"}]
      /\ kind \in [Sessions -> {"http", "connect", "self"}]
  BY DEF Init
<1>6. IsFiniteSet(Begun)
  BY <1>2, FS_EmptySet
<1> QED BY <1>1, <1>3, <1>4, <1>5, <1>6 DEF SessionTyped

\* Reading a request: the exchange that begins is within the bound, since a session
\* that has read n requests has begun n exchanges.
LEMMA ReadWithinBound ==
  ASSUME SessionTyped, NEW s \in Sessions, Cardinality(Begun) < MaxRequests,
         nth' = [nth EXCEPT ![s] = @ + 1]
  PROVE  nth' \in [Sessions -> 0..MaxRequests] /\ IsFiniteSet(Begun')
<1>1. nth[s] \in 0..MaxRequests /\ MaxRequests \in Nat /\ IsFiniteSet(Begun)
  BY ProxyAssumption DEF SessionTyped
<1> DEFINE n == nth[s]
           Mine == {<<s, k>> : k \in 1..n}
           f == [k \in 1..n |-> <<s, k>>]
<1>2. Mine \subseteq Begun
  BY <1>1 DEF Begun, Exchanges
<1>3. f \in Bijection(1..n, Mine)
  BY DEF Bijection, Injection, Surjection, IsInjective
<1>4. IsFiniteSet(1..n) /\ Cardinality(1..n) = n
  <2>1. 1 \in Int /\ n \in Int /\ n >= 0
    BY <1>1
  <2> HIDE DEF n
  <2>2. IsFiniteSet(1..n) /\ Cardinality(1..n) = IF 1 > n THEN 0 ELSE n - 1 + 1
    BY <2>1, FS_Interval
  <2> QED BY <2>1, <2>2
<1>5. IsFiniteSet(Mine) /\ Cardinality(Mine) = n
  <2> HIDE DEF f, Mine, n
  <2> QED BY <1>3, <1>4, FS_Bijection DEF ExistsBijection
<1>6. Cardinality(Mine) <= Cardinality(Begun) /\ Cardinality(Begun) \in Nat
  BY <1>1, <1>2, FS_Subset, FS_CardinalityType
<1>7. n < MaxRequests
  <2> HIDE DEF Mine, f
  <2> QED BY <1>1, <1>5, <1>6
<1>8. nth' \in [Sessions -> 0..MaxRequests]
  BY <1>1, <1>7 DEF SessionTyped
<1>9. Begun' \subseteq Begun \cup {<<s, n + 1>>}
  BY <1>1 DEF SessionTyped, Begun, Exchanges
<1>10. IsFiniteSet(Begun \cup {<<s, n + 1>>})
  BY <1>1, FS_AddElement
<1> QED BY <1>8, <1>9, <1>10, FS_Subset

-----------------------------------------------------------------------------
(* The sessions: what the user data in the context and in the hooks belong to *)

VerdictOf(slice) == IF slice = <<>> THEN "nil" ELSE AsMatch(\A i \in DOMAIN slice : slice[i])

\* The exchange of a session is its own from the time ModifyRequest has seen it.
After == {"logreq", "roundtrip", "modresp", "logresp"}
Over  == {"read", "closed", "tunnel"}

\* The user data of a session, in the context and in the hook that runs, are those of
\* its current exchange; a request callback leaves none.
ContextOf(s) ==
  /\ pc[s] = "modreq" => ctx[s] = Absent
  /\ (pc[s] \in After /\ options.OnRequestCallback) => ctx[s] = Absent
  /\ (pc[s] \in After /\ ~options.OnRequestCallback) =>
       ctx[s] \in UserData /\ ctx[s].id = Exchange(s)
  /\ (pc[s] \in After \ {"logresp"} /\ options.OnRequestCallback) => evals[Exchange(s)] = <<>>
  /\ (pc[s] \in After \ {"logresp"} /\ ~options.OnRequestCallback) =>
       ctx[s].match = VerdictOf(evals[Exchange(s)])
  /\ pc[s] = "logreq" => ~options.OnRequestCallback /\ data[s].id = Exchange(s)
  /\ pc[s] = "logresp" =>
       /\ data[s].id = IF options.OnRequestCallback THEN NoId ELSE Exchange(s)
       /\ data[s].match = VerdictOf(evals[Exchange(s)])
  /\ (pc[s] \in {"logreq", "roundtrip"} /\ ~options.OnRequestCallback) => "br" \notin accept[s]
  /\ pc[s] \notin {"read", "closed"} => nth[s] # 0

ContextKept == \A s \in Sessions : ContextOf(s)

\* An exchange that no hook has seen has no filter results.
Unborn ==
  \A e \in Exchanges :
    (e[2] > nth[e[1]] \/ (e[2] = nth[e[1]] /\ pc[e[1]] = "modreq")) => evals[e] = <<>>

\* What was logged was logged by an exchange that is over, or that still waits for
\* its response to be logged.
OwnerBegan(k) ==
  LET s == owner[k].exchange[1]
      n == owner[k].exchange[2]
  IN /\ n <= nth[s]
     /\ n = nth[s] => \/ pc[s] \in Over
                      \/ ~owner[k].response /\ pc[s] \in {"roundtrip", "modresp", "logresp"}

\* The response of an exchange is the last that is logged of it.
ResponseLast ==
  \A k, l \in DOMAIN owner :
    (owner[k].response /\ owner[l].exchange = owner[k].exchange) => l <= k

OwnersKept ==
  /\ Len(owner) = nsent
  /\ \A k \in DOMAIN owner : OwnerBegan(k)
  /\ ResponseLast

SessionInv == SessionTyped /\ ContextKept /\ Unborn /\ OwnersKept

LEMMA SessionInvInit == Init => SessionInv
<1> SUFFICES ASSUME Init PROVE SessionInv
  OBVIOUS
<1>1. ContextKept
  <2> SUFFICES ASSUME NEW s \in Sessions PROVE ContextOf(s)
    BY DEF ContextKept
  <2>1. pc[s] = "read"
    BY DEF Init
  <2> QED BY <2>1 DEF ContextOf, After
<1>2. Unborn
  BY DEF Init, Unborn
<1>3. OwnersKept
  BY SameRest DEF Init, OwnersKept, OwnerBegan, ResponseLast, P!NewLogger
<1> QED BY <1>1, <1>2, <1>3, SessionInit DEF SessionInv

\* A step of session s leaves the other sessions and all other exchanges alone.
OnlySession(s) ==
  /\ options' = options
  /\ \A r \in Sessions \ {s} :
       /\ pc'[r] = pc[r] /\ nth'[r] = nth[r]
       /\ ctx'[r] = ctx[r] /\ data'[r] = data[r] /\ accept'[r] = accept[r]
  /\ \A e \in Exchanges : e # Exchange(s) => evals'[e] = evals[e]

LEMMA OthersKept ==
  ASSUME SessionTyped, ContextKept, NEW s \in Sessions, OnlySession(s), ContextOf(s)'
  PROVE  ContextKept'
<1> SUFFICES ASSUME NEW r \in Sessions, r # s PROVE ContextOf(r)'
  BY DEF ContextKept
<1>1. ContextOf(r)
  BY DEF ContextKept
<1>2. /\ options' = options /\ pc'[r] = pc[r] /\ nth'[r] = nth[r]
      /\ ctx'[r] = ctx[r] /\ data'[r] = data[r] /\ accept'[r] = accept[r]
  BY DEF OnlySession
<1>3. Exchange(r)' = Exchange(r)
  BY <1>2 DEF Exchange
<1>4. nth[r] # 0 => evals'[Exchange(r)] = evals[Exchange(r)]
  <2>1. Exchange(r) # Exchange(s)
    BY DEF Exchange
  <2> QED BY <2>1, BoundedExchange DEF OnlySession
<1>5. CASE pc[r] \in {"read", "closed"}
  BY <1>2, <1>5 DEF ContextOf, After
<1>6. CASE pc[r] \notin {"read", "closed"}
  <2>1. evals'[Exchange(r)] = evals[Exchange(r)]
    BY <1>1, <1>4, <1>6 DEF ContextOf
  <2> QED BY <1>1, <1>2, <1>3, <2>1 DEF ContextOf
<1> QED BY <1>5, <1>6

\* Exchanges that have not begun still have no filter results.
LEMMA UnbornKept ==
  ASSUME SessionTyped, Unborn, NEW s \in Sessions, OnlySession(s), nth' = nth,
         pc'[s] # "modreq"
  PROVE  Unborn'
<1> SUFFICES ASSUME NEW e \in Exchanges,
                    e[2] > nth[e[1]] \/ (e[2] = nth[e[1]] /\ pc'[e[1]] = "modreq")
             PROVE  evals'[e] = <<>>
  BY DEF Unborn
<1>1. e[1] \in Sessions /\ e = <<e[1], e[2]>>
  BY DEF Exchanges
<1>2. e # Exchange(s)
  BY <1>1 DEF SessionTyped, Exchange
<1>3. evals'[e] = evals[e]
  BY <1>2 DEF OnlySession
<1>4. e[1] # s => pc'[e[1]] = pc[e[1]]
  BY <1>1 DEF OnlySession
<1>5. CASE e[1] = s
  BY <1>3, <1>5 DEF Unborn
<1>6. CASE e[1] # s
  BY <1>3, <1>4, <1>6 DEF Unborn
<1> QED BY <1>5, <1>6

\* Nothing is logged, and the session goes on in the course of its exchange.
Onward(s) ==
  \/ pc'[s] \in Over
  \/ pc[s] \in {"modreq", "logreq"}
  \/ /\ pc[s] \in {"roundtrip", "modresp", "logresp"}
     /\ pc'[s] \in {"roundtrip", "modresp", "logresp"}

LEMMA OwnersStay ==
  ASSUME SessionTyped, OwnersKept, NEW s \in Sessions, OnlySession(s), nth' = nth, Onward(s),
         owner' = owner, nsent' = nsent
  PROVE  OwnersKept'
<1>1. ASSUME NEW k \in DOMAIN owner
      PROVE  OwnerBegan(k)'
  <2> DEFINE r == owner[k].exchange[1]
  <2>1. r \in Sessions
    BY OwnerIsExchange DEF Exchanges
  <2>2. OwnerBegan(k)
    BY DEF OwnersKept
  <2>3. CASE r # s
    BY <2>1, <2>2, <2>3 DEF OwnerBegan, OnlySession
  <2>4. CASE r = s
    BY <2>2, <2>4 DEF OwnerBegan, Onward, Over
  <2> QED BY <2>3, <2>4
<1>2. ResponseLast'
  BY DEF OwnersKept, ResponseLast
<1> QED BY <1>1, <1>2 DEF OwnersKept

LEMMA SessionMoves ==
  ASSUME SessionInv, NEW s \in Sessions, OnlySession(s), nth' = nth, SessionTyped',
         ContextOf(s)', pc'[s] # "modreq", Onward(s), owner' = owner, nsent' = nsent
  PROVE  SessionInv'
BY UnbornKept, OwnersStay, OthersKept DEF SessionInv

LEMMA VerdictIs == \A e : Verdict(e) = VerdictOf(evals[e])
BY DEF Verdict, VerdictOf

LEMMA VerdictType == \A slice : VerdictOf(slice) \in {"nil", "true", "false"}
BY DEF VerdictOf, AsMatch

LEMMA FirstVerdict ==
  ASSUME NEW n \in Nat, NEW slice \in [1..n -> BOOLEAN]
  PROVE  /\ slice \in Seq(BOOLEAN)
         /\ (IF slice = <<>> THEN "nil" ELSE AsMatch(EvalBoolSlice(slice))) = VerdictOf(slice)
<1>1. slice \in Seq(BOOLEAN)
  OBVIOUS
<1>2. slice # <<>> => (EvalBoolSlice(slice) <=> \A i \in DOMAIN slice : slice[i])
  BY DEF EvalBoolSlice
<1> QED BY <1>1, <1>2, Zenon DEF VerdictOf, AsMatch

\* The conjunction with an earlier verdict is the verdict over all the filters.
LEMMA JoinedVerdict ==
  ASSUME NEW old \in Seq(BOOLEAN), NEW slice \in Seq(BOOLEAN)
  PROVE  VerdictOf(old \o slice) =
           IF slice = <<>> THEN VerdictOf(old)
           ELSE AsMatch(EvalBoolSlice(slice) /\ VerdictOf(old) # "false")
<1> DEFINE All(x) == \A i \in DOMAIN x : x[i]
<1>1. CASE slice = <<>>
  <2>1. old \o slice = old
    BY <1>1, ConcatEmptySeq
  <2> QED BY <1>1, <2>1
<1>2. CASE slice # <<>>
  <2>1. /\ \A i \in DOMAIN old : i \in DOMAIN (old \o slice) /\ (old \o slice)[i] = old[i]
        /\ \A i \in DOMAIN slice : /\ Len(old) + i \in DOMAIN (old \o slice)
                                   /\ (old \o slice)[Len(old) + i] = slice[i]
        /\ \A i \in DOMAIN (old \o slice) :
             \/ i \in DOMAIN old
             \/ i - Len(old) \in DOMAIN slice /\ i = Len(old) + (i - Len(old))
    BY LoggerSetting, P!ConcatAt
  <2>2. All(old \o slice) <=> All(old) /\ All(slice)
    BY <2>1
  <2>3. \E i : i \in DOMAIN slice
    <3>1. Len(slice) \in Nat /\ Len(slice) # 0 /\ DOMAIN slice = 1..Len(slice)
      BY <1>2, EmptySeq, LenProperties
    <3>2. 1 \in DOMAIN slice
      BY <3>1
    <3> QED BY <3>2
  <2>4. old \o slice # <<>>
    <3>1. DOMAIN (old \o slice) # {}
      BY <2>1, <2>3
    <3> QED BY <3>1
  <2>5. VerdictOf(old) # "false" <=> All(old)
    BY DEF VerdictOf, AsMatch
  <2>6. EvalBoolSlice(slice) <=> All(slice)
    BY <1>2 DEF EvalBoolSlice
  <2>7. VerdictOf(old \o slice) = AsMatch(All(old \o slice))
    BY <2>4 DEF VerdictOf
  <2> HIDE DEF All
  <2> QED BY <1>2, <2>2, <2>5, <2>6, <2>7 DEF AsMatch
<1> QED BY <1>1, <1>2

-----------------------------------------------------------------------------
(* The sessions: every step keeps their invariant *)

LEMMA ReadRequestSession ==
  ASSUME SessionInv, NEW s \in Sessions, ReadRequest(s)
  PROVE  SessionInv'
<1>1. SessionTyped /\ ContextKept /\ Unborn /\ OwnersKept
  BY DEF SessionInv
<1>2. /\ Cardinality(Begun) < MaxRequests /\ nth' = [nth EXCEPT ![s] = @ + 1]
      /\ pc' = [pc EXCEPT ![s] = "modreq"] /\ ctx' = [ctx EXCEPT ![s] = Absent]
      /\ pc[s] = "read"
      /\ \E k \in {"http", "connect", "self"} : kind' = [kind EXCEPT ![s] = k]
      /\ \E h \in SUBSET Encodings : accept' = [accept EXCEPT ![s] = h]
      /\ UNCHANGED <<options, data, evals, owner, nsent>>
  BY DEF ReadRequest, Goto, loggerVars
<1>3. nth' \in [Sessions -> 0..MaxRequests] /\ IsFiniteSet(Begun')
  BY <1>1, <1>2, ReadWithinBound
<1>4. SessionTyped'
  BY <1>1, <1>2, <1>3 DEF SessionTyped
<1>5. /\ nth[s] \in Nat /\ nth'[s] = nth[s] + 1 /\ pc'[s] = "modreq" /\ ctx'[s] = Absent
      /\ \A r \in Sessions \ {s} :
           /\ pc'[r] = pc[r] /\ nth'[r] = nth[r]
           /\ ctx'[r] = ctx[r] /\ data'[r] = data[r] /\ accept'[r] = accept[r]
  BY <1>1, <1>2 DEF SessionTyped
<1>6. ContextKept'
  <2>1. ContextOf(s)'
    BY <1>5 DEF ContextOf, After
  <2>2. OnlySession(s)
    BY <1>2, <1>5 DEF OnlySession
  <2> QED BY <1>1, <2>1, <2>2, OthersKept
<1>7. Unborn'
  <2> SUFFICES ASSUME NEW e \in Exchanges,
                      e[2] > nth'[e[1]] \/ (e[2] = nth'[e[1]] /\ pc'[e[1]] = "modreq")
               PROVE  evals[e] = <<>>
    BY <1>2 DEF Unborn
  <2>1. e[1] \in Sessions /\ e[2] \in Nat
    BY ProxyAssumption DEF Exchanges
  <2>2. CASE e[1] = s
    BY <1>1, <1>5, <2>1, <2>2 DEF Unborn
  <2>3. CASE e[1] # s
    BY <1>1, <1>5, <2>1, <2>3 DEF Unborn
  <2> QED BY <2>2, <2>3
<1>8. OwnersKept'
  <2>1. ASSUME NEW k \in DOMAIN owner
        PROVE  OwnerBegan(k)'
    <3> DEFINE r == owner[k].exchange[1]
    <3>1. r \in Sessions /\ owner[k].exchange[2] \in Nat
      BY <1>1, OwnerIsExchange, ProxyAssumption DEF Exchanges
    <3>2. OwnerBegan(k)
      BY <1>1 DEF OwnersKept
    <3>3. CASE r # s
      BY <1>2, <1>5, <3>1, <3>2, <3>3 DEF OwnerBegan
    <3>4. CASE r = s
      BY <1>2, <1>5, <3>1, <3>2, <3>4 DEF OwnerBegan
    <3> QED BY <3>3, <3>4
  <2> QED BY <1>1, <1>2, <2>1 DEF OwnersKept, ResponseLast
<1> QED BY <1>4, <1>6, <1>7, <1>8 DEF SessionInv

LEMMA DisconnectSession ==
  ASSUME SessionInv, NEW s \in Sessions, Disconnect(s)
  PROVE  SessionInv'
<1>1. SessionTyped
  BY DEF SessionInv
<1>2. /\ pc' = [pc EXCEPT ![s] = "closed"]
      /\ UNCHANGED <<options, nth, kind, accept, ctx, data, evals, owner, nsent>>
  BY DEF Disconnect, Goto, loggerVars
<1>3. pc'[s] = "closed" /\ \A r \in Sessions \ {s} : pc'[r] = pc[r]
  BY <1>1, <1>2 DEF SessionTyped
<1>4. SessionTyped'
  BY <1>1, <1>2 DEF SessionTyped, Begun
<1>5. ContextOf(s)'
  BY <1>3 DEF ContextOf, After
<1>6. OnlySession(s) /\ Onward(s)
  BY <1>2, <1>3 DEF OnlySession, Onward, Over
<1> QED BY <1>2, <1>3, <1>4, <1>5, <1>6, SessionMoves

LEMMA ModifyRequestSession ==
  ASSUME SessionInv, NEW s \in Sessions, ModifyRequest(s)
  PROVE  SessionInv'
<1>1. SessionTyped /\ ContextKept /\ Unborn
  BY DEF SessionInv
<1>2. pc[s] = "modreq" /\ UNCHANGED <<options, nth, kind, owner, nsent>>
  BY DEF ModifyRequest, loggerVars
<1>3. ContextOf(s)
  BY <1>1 DEF ContextKept
<1>4. ctx[s] = Absent /\ nth[s] # 0
  BY <1>2, <1>3 DEF ContextOf
<1>5. Exchange(s) \in Exchanges /\ Exchange(s)[1] = s /\ Exchange(s)[2] = nth[s]
  BY <1>1, <1>4, BoundedExchange DEF Exchange
<1>6. evals[Exchange(s)] = <<>>
  BY <1>1, <1>2, <1>5 DEF Unborn
<1>7. CASE hijackNServe(s) \/ RequestCallback(s)
  <2>1. UNCHANGED <<ctx, data, accept, evals>>
    BY <1>7 DEF hijackNServe, RequestCallback
  <2>2. \/ pc' = [pc EXCEPT ![s] = "closed"]
        \/ pc' = [pc EXCEPT ![s] = "roundtrip"] /\ options.OnRequestCallback
    BY <1>7 DEF hijackNServe, RequestCallback, Goto
  <2>3. /\ pc'[s] = "closed" \/ (pc'[s] = "roundtrip" /\ options.OnRequestCallback)
        /\ \A r \in Sessions \ {s} : pc'[r] = pc[r]
    BY <1>1, <2>2 DEF SessionTyped
  <2>4. SessionTyped'
    BY <1>1, <1>2, <2>1, <2>2 DEF SessionTyped, Begun
  <2>5. ContextOf(s)'
    BY <1>2, <1>4, <1>6, <2>1, <2>3 DEF ContextOf, After, Exchange
  <2>6. OnlySession(s) /\ Onward(s)
    BY <1>2, <2>1, <2>3 DEF OnlySession, Onward, Over
  <2> QED BY <1>2, <2>3, <2>4, <2>5, <2>6, SessionMoves
<1>8. CASE FilterRequest(s)
  <2> DEFINE verdict(slice) == IF slice = <<>> THEN "nil" ELSE AsMatch(EvalBoolSlice(slice))
  <2>1. PICK slice \in [1..options.RequestDSL -> BOOLEAN] :
          LET userData == [id |-> Exchange(s), match |-> verdict(slice)]
          IN /\ ctx' = [ctx EXCEPT ![s] = userData]
             /\ data' = [data EXCEPT ![s] = userData]
             /\ evals' = [evals EXCEPT ![Exchange(s)] = slice]
    BY <1>8 DEF FilterRequest
  <2>2. options.RequestDSL \in Nat
    BY <1>1, OptionsTyped DEF SessionTyped
  <2>3. slice \in Seq(BOOLEAN) /\ verdict(slice) = VerdictOf(slice)
    BY <2>2, FirstVerdict
  <2> HIDE DEF verdict
  <2> DEFINE userData == [id |-> Exchange(s), match |-> VerdictOf(slice)]
  <2>4. /\ ctx' = [ctx EXCEPT ![s] = userData]
        /\ data' = [data EXCEPT ![s] = userData]
        /\ evals' = [evals EXCEPT ![Exchange(s)] = slice]
    BY <2>1, <2>3
  <2>5. userData \in UserData /\ userData.id = Exchange(s) /\ userData.match = VerdictOf(slice)
    BY <1>5, VerdictType DEF UserData
  <2>6. PICK header \in SUBSET Encodings : accept' = [accept EXCEPT ![s] = header \ {"br"}]
    <3>1. accept[s] \in SUBSET Encodings
      BY <1>1 DEF SessionTyped
    <3> QED BY <1>8, <3>1 DEF FilterRequest, RewriteRequest, MatchReplaceRequest, removeBrEncoding
  <2>7. pc' = [pc EXCEPT ![s] = "logreq"] /\ ~options.OnRequestCallback
    BY <1>8 DEF FilterRequest, Goto
  <2> HIDE DEF userData
  <2>8. /\ pc'[s] = "logreq" /\ ctx'[s] = userData /\ data'[s] = userData
        /\ evals'[Exchange(s)] = slice /\ "br" \notin accept'[s]
        /\ \A r \in Sessions \ {s} :
             pc'[r] = pc[r] /\ ctx'[r] = ctx[r] /\ data'[r] = data[r] /\ accept'[r] = accept[r]
        /\ \A e \in Exchanges : e # Exchange(s) => evals'[e] = evals[e]
    BY <1>1, <1>5, <2>4, <2>6, <2>7 DEF SessionTyped
  <2>9. SessionTyped'
    BY <1>1, <1>2, <1>5, <2>3, <2>4, <2>5, <2>6, <2>7 DEF SessionTyped, Begun
  <2>10. ContextOf(s)'
    BY <1>2, <1>4, <2>5, <2>7, <2>8 DEF ContextOf, After, Exchange
  <2>11. OnlySession(s) /\ Onward(s)
    BY <1>2, <2>8 DEF OnlySession, Onward
  <2> QED BY <1>2, <2>8, <2>9, <2>10, <2>11, SessionMoves
<1> QED BY <1>7, <1>8 DEF ModifyRequest

LEMMA RoundTripSession ==
  ASSUME SessionInv, NEW s \in Sessions, RoundTrip(s)
  PROVE  SessionInv'
<1>1. SessionTyped /\ ContextOf(s)
  BY DEF SessionInv, ContextKept
<1>2. /\ pc' = [pc EXCEPT ![s] = "modresp"] /\ pc[s] = "roundtrip"
      /\ UNCHANGED <<options, nth, kind, accept, ctx, data, evals, owner, nsent>>
  BY DEF RoundTrip, Goto, loggerVars
<1>3. pc'[s] = "modresp" /\ \A r \in Sessions \ {s} : pc'[r] = pc[r]
  BY <1>1, <1>2 DEF SessionTyped
<1>4. SessionTyped'
  BY <1>1, <1>2 DEF SessionTyped, Begun
<1>5. ContextOf(s)'
  BY <1>1, <1>2, <1>3 DEF ContextOf, After, Exchange
<1>6. OnlySession(s) /\ Onward(s)
  BY <1>2, <1>3 DEF OnlySession, Onward, Over
<1> QED BY <1>2, <1>3, <1>4, <1>5, <1>6, SessionMoves

LEMMA AnswerEnds ==
  ASSUME NEW s, NEW redirected, Answer(s, redirected)
  PROVE  \E label \in Over : pc' = [pc EXCEPT ![s] = label]
BY DEF Answer, Goto, Over

LEMMA ModifyResponseSession ==
  ASSUME SessionInv, NEW s \in Sessions, ModifyResponse(s)
  PROVE  SessionInv'
<1>1. SessionTyped /\ ContextOf(s)
  BY DEF SessionInv, ContextKept
<1>2. pc[s] = "modresp" /\ UNCHANGED <<options, nth, kind, accept, ctx, owner, nsent>>
  BY DEF ModifyResponse, loggerVars
<1>3. nth[s] # 0 /\ Exchange(s) \in Exchanges
  BY <1>1, <1>2, BoundedExchange DEF ContextOf
<1>4. CASE ResponseCallback(s)
  <2>1. UNCHANGED <<data, evals>> /\ Answer(s, FALSE)
    BY <1>4 DEF ResponseCallback
  <2>2. PICK label \in Over : pc' = [pc EXCEPT ![s] = label]
    BY <2>1, AnswerEnds
  <2>3. pc'[s] \in Over /\ \A r \in Sessions \ {s} : pc'[r] = pc[r]
    BY <1>1, <2>2 DEF SessionTyped
  <2>4. SessionTyped'
    BY <1>1, <1>2, <2>1, <2>2 DEF SessionTyped, Begun, Over
  <2>5. ContextOf(s)'
    BY <1>2, <1>3, <2>3 DEF ContextOf, After, Over
  <2>6. OnlySession(s) /\ Onward(s) /\ pc'[s] # "modreq"
    BY <1>2, <2>1, <2>3 DEF OnlySession, Onward, Over
  <2> QED BY <1>2, <2>4, <2>5, <2>6, SessionMoves
<1>5. CASE FilterResponse(s)
  <2> DEFINE old == evals[Exchange(s)]
             userData == IF ctx[s] = Absent THEN Empty ELSE ctx[s]
             joined(slice) == IF slice = <<>> THEN userData.match
                              ELSE AsMatch(EvalBoolSlice(slice) /\ userData.match # "false")
             id == IF options.OnRequestCallback THEN NoId ELSE Exchange(s)
  <2>1. PICK slice \in [1..options.ResponseDSL -> BOOLEAN] :
          /\ data' = [data EXCEPT ![s] = [userData EXCEPT !.match = joined(slice)]]
          /\ evals' = [evals EXCEPT ![Exchange(s)] = @ \o slice]
    BY <1>5 DEF FilterResponse
  <2>2. old \in Seq(BOOLEAN) /\ slice \in Seq(BOOLEAN) /\ options.OnRequestCallback \in BOOLEAN
    BY <1>1, <1>3, OptionsTyped, FirstVerdict DEF SessionTyped
  <2>3. userData \in UserData /\ userData.id = id /\ userData.match = VerdictOf(old)
    <3>1. CASE options.OnRequestCallback
      <4>1. ctx[s] = Absent /\ old = <<>>
        BY <1>1, <1>2, <3>1 DEF ContextOf, After
      <4> QED BY <3>1, <4>1 DEF Empty, UserData, VerdictOf
    <3>2. CASE ~options.OnRequestCallback
      <4>1. ctx[s] \in UserData /\ ctx[s].id = Exchange(s) /\ ctx[s].match = VerdictOf(old)
        BY <1>1, <1>2, <3>2 DEF ContextOf, After
      <4>2. ctx[s] # Absent
        BY <4>1 DEF UserData, Absent
      <4> QED BY <3>2, <4>1, <4>2
    <3> QED BY <2>2, <3>1, <3>2
  <2>4. joined(slice) = VerdictOf(old \o slice)
    <3> HIDE DEF userData, old
    <3> QED BY <2>2, <2>3, JoinedVerdict
  <2> DEFINE new == [userData EXCEPT !.match = joined(slice)]
  <2>5. /\ data' = [data EXCEPT ![s] = new]
        /\ evals' = [evals EXCEPT ![Exchange(s)] = old \o slice]
    BY <2>1
  <2>6. old \o slice \in Seq(BOOLEAN)
    BY <2>2, ConcatProperties
  <2> HIDE DEF joined, userData
  <2>7. new \in UserData /\ new.id = id /\ new.match = VerdictOf(old \o slice)
    BY <2>3, <2>4, VerdictType DEF UserData
  <2> HIDE DEF new, id
  <2>8. pc' = [pc EXCEPT ![s] = "logresp"]
    BY <1>5 DEF FilterResponse, Goto
  <2>9. /\ pc'[s] = "logresp" /\ data'[s] = new /\ evals'[Exchange(s)] = old \o slice
        /\ \A r \in Sessions \ {s} : pc'[r] = pc[r] /\ data'[r] = data[r]
        /\ \A e \in Exchanges : e # Exchange(s) => evals'[e] = evals[e]
    BY <1>1, <1>3, <2>5, <2>8 DEF SessionTyped
  <2>10. SessionTyped'
    BY <1>1, <1>2, <1>3, <2>5, <2>6, <2>7, <2>8 DEF SessionTyped, Begun
  <2>11. ContextOf(s)'
    <3>1. /\ pc'[s] = "logresp" /\ ctx'[s] = ctx[s] /\ options' = options
          /\ nth'[s] = nth[s] /\ Exchange(s)' = Exchange(s)
          /\ data'[s].id = id /\ data'[s].match = VerdictOf(evals'[Exchange(s)])
      BY <1>2, <2>7, <2>9 DEF Exchange
    <3>2. /\ options.OnRequestCallback => ctx[s] = Absent
          /\ ~options.OnRequestCallback => ctx[s] \in UserData /\ ctx[s].id = Exchange(s)
      BY <1>1, <1>2 DEF ContextOf, After
    <3> QED BY <1>3, <3>1, <3>2 DEF ContextOf, After, id
  <2>12. OnlySession(s) /\ Onward(s)
    BY <1>2, <2>9 DEF OnlySession, Onward, Over
  <2> QED BY <1>2, <2>9, <2>10, <2>11, <2>12, SessionMoves
<1> QED BY <1>4, <1>5 DEF ModifyResponse

\* A hook logs a transaction of its exchange.
LEMMA SessionLogs ==
  ASSUME SessionInv, NEW s \in Sessions, NEW resp \in BOOLEAN, OnlySession(s), nth' = nth,
         SessionTyped', ContextOf(s)',
         owner' = Append(owner, [exchange |-> Exchange(s), response |-> resp]),
         nsent' = nsent + 1,
         IF resp THEN pc[s] = "logresp" /\ pc'[s] \in Over
                 ELSE pc[s] = "logreq" /\ pc'[s] = "roundtrip"
  PROVE  SessionInv'
<1>1. SessionTyped /\ ContextKept /\ Unborn /\ OwnersKept
  BY DEF SessionInv
<1>2. nth[s] # 0
  BY <1>1 DEF ContextKept, ContextOf
<1> DEFINE new == [exchange |-> Exchange(s), response |-> resp]
           n == Len(owner)
<1>3. /\ new \in [exchange : Exchanges, response : BOOLEAN]
      /\ new.exchange = Exchange(s) /\ new.response = resp
      /\ Exchange(s)[1] = s /\ Exchange(s)[2] = nth[s]
  BY <1>1, <1>2, BoundedExchange DEF Exchange
<1>4. owner \in Seq([exchange : Exchanges, response : BOOLEAN]) /\ owner' = Append(owner, new)
  BY <1>1 DEF SessionTyped
<1> HIDE DEF new
<1>5. /\ n \in Nat /\ Len(owner') = n + 1 /\ DOMAIN owner = 1..n /\ DOMAIN owner' = 1..(n + 1)
      /\ \A k \in 1..n : owner'[k] = owner[k]
      /\ owner'[n + 1] = new
  BY <1>3, <1>4, AppendProperties, LenProperties
<1> HIDE DEF n
<1>6. \A k \in DOMAIN owner : ~(owner[k].response /\ owner[k].exchange = Exchange(s))
  BY <1>1, <1>3 DEF OwnersKept, OwnerBegan, Over
<1>7. ASSUME NEW k \in DOMAIN owner'
      PROVE  OwnerBegan(k)'
  <2>1. CASE k = n + 1
    <3>1. owner'[k] = new /\ nth'[s] = nth[s] /\ nth[s] \in Nat
      BY <1>1, <1>5, <2>1 DEF SessionTyped
    <3> QED BY <1>3, <3>1 DEF OwnerBegan, Over
  <2>2. CASE k \in 1..n
    <3> DEFINE r == owner[k].exchange[1]
    <3>1. owner'[k] = owner[k] /\ k \in DOMAIN owner
      BY <1>5, <2>2
    <3>2. r \in Sessions /\ owner[k].exchange = <<r, owner[k].exchange[2]>>
      BY <1>1, <3>1, OwnerIsExchange DEF Exchanges
    <3>3. OwnerBegan(k)
      BY <1>1, <3>1 DEF OwnersKept
    <3>4. CASE r # s
      BY <3>1, <3>2, <3>3, <3>4 DEF OwnerBegan, OnlySession
    <3>5. CASE r = s
      <4>1. owner[k].exchange[2] = nth[s] => ~owner[k].response
        BY <1>6, <3>1, <3>2, <3>5 DEF Exchange
      <4>2. owner[k].exchange[2] = nth[s] => resp
        BY <3>3, <3>5 DEF OwnerBegan, Over
      <4> QED BY <3>1, <3>3, <3>5, <4>1, <4>2 DEF OwnerBegan
    <3> QED BY <3>4, <3>5
  <2> QED BY <1>5, <2>1, <2>2
<1>8. ResponseLast'
  <2> SUFFICES ASSUME NEW k \in DOMAIN owner', NEW l \in DOMAIN owner', owner'[k].response,
                      owner'[l].exchange = owner'[k].exchange
               PROVE  l <= k
    BY DEF ResponseLast
  <2>1. CASE l = n + 1 /\ k \in 1..n
    BY <1>3, <1>5, <1>6, <2>1
  <2>2. CASE l \in 1..n /\ k \in 1..n
    BY <1>1, <1>5, <2>2 DEF OwnersKept, ResponseLast
  <2>3. CASE k = n + 1
    BY <1>5, <2>3
  <2> QED BY <1>5, <2>1, <2>2, <2>3
<1>9. OwnersKept'
  BY <1>1, <1>5, <1>7, <1>8 DEF OwnersKept, n
<1>10. pc'[s] # "modreq"
  BY DEF Over
<1> QED BY <1>1, <1>9, <1>10, UnbornKept, OthersKept DEF SessionInv

LEMMA LogRequestSession ==
  ASSUME SessionInv, NEW s \in Sessions, LogRequest(s)
  PROVE  SessionInv'
<1>1. SessionTyped /\ ContextOf(s)
  BY DEF SessionInv, ContextKept
<1>2. /\ pc[s] = "logreq" /\ pc' = [pc EXCEPT ![s] = "roundtrip"]
      /\ owner' = Append(owner, [exchange |-> Exchange(s), response |-> FALSE])
      /\ nsent' = nsent + 1
      /\ UNCHANGED <<options, nth, kind, accept, ctx, data, evals>>
  BY DEF LogRequest, Goto, L!LogRequest, L!Send
<1>3. pc'[s] = "roundtrip" /\ \A r \in Sessions \ {s} : pc'[r] = pc[r]
  BY <1>1, <1>2 DEF SessionTyped
<1>4. Exchange(s) \in Exchanges
  BY <1>1, <1>2, BoundedExchange DEF ContextOf
<1>5. SessionTyped'
  <2>1. owner' \in Seq([exchange : Exchanges, response : BOOLEAN])
    BY <1>1, <1>2, <1>4, AppendProperties DEF SessionTyped
  <2> QED BY <1>1, <1>2, <2>1 DEF SessionTyped, Begun
<1>6. ContextOf(s)'
  BY <1>1, <1>2, <1>3 DEF ContextOf, After, Exchange
<1>7. OnlySession(s)
  BY <1>2, <1>3 DEF OnlySession
<1> QED BY <1>2, <1>3, <1>5, <1>6, <1>7, SessionLogs

LEMMA LogResponseSession ==
  ASSUME SessionInv, NEW s \in Sessions, LogResponse(s)
  PROVE  SessionInv'
<1>1. SessionTyped /\ ContextOf(s)
  BY DEF SessionInv, ContextKept
<1>2. /\ pc[s] = "logresp"
      /\ owner' = Append(owner, [exchange |-> Exchange(s), response |-> TRUE])
      /\ nsent' = nsent + 1
      /\ UNCHANGED <<options, nth, kind, accept, ctx, data, evals>>
  BY DEF LogResponse, L!LogResponse, L!Send
<1>3. PICK label \in Over : pc' = [pc EXCEPT ![s] = label]
  BY AnswerEnds DEF LogResponse
<1>4. pc'[s] \in Over /\ \A r \in Sessions \ {s} : pc'[r] = pc[r]
  BY <1>1, <1>3 DEF SessionTyped
<1>5. Exchange(s) \in Exchanges /\ nth[s] # 0
  BY <1>1, <1>2, BoundedExchange DEF ContextOf
<1>6. SessionTyped'
  <2>1. owner' \in Seq([exchange : Exchanges, response : BOOLEAN])
    BY <1>1, <1>2, <1>5, AppendProperties DEF SessionTyped
  <2> QED BY <1>1, <1>2, <1>3, <2>1 DEF SessionTyped, Begun, Over
<1>7. ContextOf(s)'
  BY <1>2, <1>4, <1>5 DEF ContextOf, After, Over
<1>8. OnlySession(s)
  BY <1>2, <1>4 DEF OnlySession
<1> QED BY <1>2, <1>4, <1>6, <1>7, <1>8, SessionLogs

LEMMA LoggerStepSession ==
  ASSUME SessionInv, UNCHANGED sessionVars, nsent' = nsent
  PROVE  SessionInv'
<1>1. UNCHANGED <<options, pc, nth, kind, accept, ctx, data, evals, owner>>
  BY DEF sessionVars
<1>2. SessionTyped'
  BY <1>1 DEF SessionInv, SessionTyped, Begun
<1>3. ASSUME NEW s \in Sessions PROVE ContextOf(s)'
  BY <1>1 DEF SessionInv, ContextKept, ContextOf, Exchange
<1>4. Unborn'
  BY <1>1 DEF SessionInv, Unborn
<1>5. OwnersKept'
  BY <1>1 DEF SessionInv, OwnersKept, OwnerBegan, ResponseLast
<1> QED BY <1>2, <1>3, <1>4, <1>5 DEF SessionInv, ContextKept

\* The writes of the logger's goroutine, in the words of LoggerProofs.
LEMMA AsyncWriteIs ==
  ASSUME AsyncWrite
  PROVE  /\ P!Receive \/ P!WriteStructured \/ P!Save \/ P!SaveFails
         /\ UNCHANGED sessionVars /\ nsent' = nsent
<1>1. P!Receive \/ P!WriteStructured \/ P!Save \/ P!SaveFails
  BY SameReceive, SameWrites DEF AsyncWrite
<1>2. nsent' = nsent
  BY <1>1 DEF P!Receive, P!WriteStructured, P!Save, P!SaveFails, P!Done
<1> QED BY <1>1, <1>2 DEF AsyncWrite

LEMMA SessionStep ==
  ASSUME SessionInv, [Next]_vars
  PROVE  SessionInv'
<1>1. ASSUME NEW s \in Sessions, Session(s)
      PROVE  SessionInv'
  BY <1>1, ReadRequestSession, DisconnectSession, ModifyRequestSession, LogRequestSession,
     RoundTripSession, ModifyResponseSession, LogResponseSession DEF Session
<1>2. CASE AsyncWrite
  BY <1>2, AsyncWriteIs, LoggerStepSession
<1>3. CASE Exit
  BY <1>3, LoggerStepSession DEF Exit, L!Halt
<1>4. CASE UNCHANGED vars
  BY <1>4, LoggerStepSession DEF vars, loggerVars
<1> QED BY <1>1, <1>2, <1>3, <1>4 DEF Next

\* The sessions keep their types and their user data: every hook finds in the
\* context what it left there for this exchange, whatever the other sessions do.
THEOREM SessionsKept == Spec => []SessionInv
<1>1. Init => SessionInv
  BY SessionInvInit
<1>2. SessionInv /\ [Next]_vars => SessionInv'
  BY SessionStep
<1> QED BY <1>1, <1>2, PTL DEF Spec

-----------------------------------------------------------------------------
(* The sessions use the logger as it allows *)

LEMMA DataLogged ==
  ASSUME SessionTyped, NEW s \in Sessions
  PROVE  data[s].id \in Exchanges \cup {NoId} /\ data[s].match \in {"nil", "true", "false"}
BY DEF SessionTyped, UserData

\* A step of the proxy is a step of the logger, or leaves the logger alone.
LEMMA StepOfLogger ==
  ASSUME SessionTyped, [Next]_vars
  PROVE  [P!Next]_(P!vars)
<1>1. ASSUME NEW s \in Sessions, Session(s)
      PROVE  [P!Next]_(P!vars)
  <2>1. data[s].id \in Exchanges \cup {NoId} /\ data[s].match \in {"nil", "true", "false"}
    BY DataLogged
  <2>2. CASE LogRequest(s)
    <3>1. L!LogRequest(data[s].id, data[s].match) /\ P!LogRequest(data[s].id, data[s].match)
      BY <2>2, SameLogRequest DEF LogRequest
    <3> QED BY <2>1, <3>1 DEF L!Next, L!Caller, L!Verdicts, P!Next, P!Caller, P!Verdicts
  <2>3. CASE LogResponse(s)
    <3>1. /\ L!LogResponse(data[s].id, data[s].match, TRUE)
          /\ P!LogResponse(data[s].id, data[s].match, TRUE)
      BY <2>3, SameLogResponse DEF LogResponse
    <3> QED BY <2>1, <3>1 DEF L!Next, L!Caller, L!Verdicts, P!Next, P!Caller, P!Verdicts
  <2>4. CASE ~LogRequest(s) /\ ~LogResponse(s)
    <3>1. UNCHANGED loggerVars
      BY <1>1, <2>4 DEF Session, ReadRequest, Disconnect, ModifyRequest, RoundTrip, ModifyResponse
    <3> QED BY <3>1 DEF loggerVars, L!vars, P!vars
  <2> QED BY <2>2, <2>3, <2>4
<1>2. CASE AsyncWrite
  BY <1>2, AsyncWriteIs DEF AsyncWrite, L!Next, L!AsyncWrite, P!Next, P!AsyncWrite
<1>3. CASE Exit
  BY <1>3, SameRest DEF Exit, L!Next, P!Next
<1>4. CASE UNCHANGED vars
  BY <1>4 DEF vars, loggerVars, L!vars, P!vars
<1> QED BY <1>1, <1>2, <1>3, <1>4 DEF Next

\* The logger's types and the order of its log, as LoggerProofs proves them.
LoggerInv == P!TypeOK /\ P!OneLog

LEMMA LoggerInvInit == Init => LoggerInv
<1>1. Init => P!Init
  BY SameRest DEF Init, P!Init
<1>2. P!Init => P!TypeOK
  BY LoggerSetting, P!InitType
<1>3. P!Init => P!OneLog
  BY LoggerSetting, P!InitLog
<1> QED BY <1>1, <1>2, <1>3 DEF LoggerInv

LEMMA LoggerInvStep ==
  ASSUME SessionTyped, LoggerInv, [Next]_vars
  PROVE  LoggerInv'
<1>1. [P!Next]_(P!vars)
  BY StepOfLogger
<1>2. P!TypeOK /\ P!OneLog
  BY DEF LoggerInv
<1>3. P!TypeOK'
  BY <1>1, <1>2, LoggerSetting, P!StepType
<1>4. P!OneLog'
  BY <1>1, <1>2, LoggerSetting, P!StepLog
<1> QED BY <1>3, <1>4 DEF LoggerInv

\* The proxy keeps its types, those of the logger it feeds included: asyncqueue never
\* holds more than its capacity, and no session reads more requests than the bound.
THEOREM ProxyTypeCorrect == Spec => []TypeOK
<1>1. Init => LoggerInv
  BY LoggerInvInit
<1>2. SessionInv /\ LoggerInv /\ [Next]_vars => LoggerInv'
  BY LoggerInvStep DEF SessionInv
<1>3. SessionInv /\ LoggerInv => TypeOK
  BY SameRest DEF SessionInv, SessionTyped, LoggerInv, TypeOK
<1> QED BY <1>1, <1>2, <1>3, SessionsKept, PTL DEF Spec

-----------------------------------------------------------------------------
(* Whose a transaction is: provenance through the channel to the targets *)

\* What is known of the transactions logged: the ID they carry, whether they are
\* responses, and what the filters say of their exchange.
Known ==
  [k \in DOMAIN owner |->
     [id       |-> IF options.OnRequestCallback THEN NoId ELSE owner[k].exchange,
      response |-> owner[k].response,
      verdict  |-> VerdictOf(evals[owner[k].exchange])]]

\* Later knowledge adds transactions and takes nothing back; the verdict on an
\* exchange is final once its response is logged.
Extends(K, K2) ==
  \A k \in DOMAIN K :
    /\ k \in DOMAIN K2
    /\ K2[k].id = K[k].id /\ K2[k].response = K[k].response
    /\ K[k].response => K2[k].verdict = K[k].verdict

\* A transaction in the channel carries the data of the exchange it was logged for.
Carries(K, q) ==
  /\ q.seq \in DOMAIN K /\ q.request
  /\ q.id = K[q.seq].id /\ q.response = K[q.seq].response
  /\ q.response => q.match = K[q.seq].verdict

\* A document for, or in, target d belongs to the exchange it was logged for, and is
\* in the structured file only as the response the filters let through.
Belongs(K, d, doc) ==
  /\ doc.seq \in DOMAIN K
  /\ doc.id = K[doc.seq].id
  /\ (d = "swriter" \/ doc.part = "response") => K[doc.seq].response
  /\ d = "swriter" => doc.part = "pair" /\ K[doc.seq].verdict # "false"
  /\ d # "swriter" => doc.name = P!StoreName(doc, doc.part)

Provenance ==
  /\ \A i \in DOMAIN asyncqueue : Carries(Known, asyncqueue[i])
  /\ \A i \in DOMAIN todo : Belongs(Known, todo[i].to, todo[i].doc)
  /\ \A d \in P!Targets : \A i \in DOMAIN saved[d] : Belongs(Known, d, saved[d][i])

LEMMA CarriesExtends ==
  ASSUME NEW K, NEW K2, Extends(K, K2), NEW q, Carries(K, q)
  PROVE  Carries(K2, q)
BY DEF Extends, Carries

LEMMA BelongsExtends ==
  ASSUME NEW K, NEW K2, Extends(K, K2), NEW d, NEW doc, Belongs(K, d, doc)
  PROVE  Belongs(K2, d, doc)
BY DEF Extends, Belongs

LEMMA BelongsHeading ==
  ASSUME NEW K, NEW d, NEW doc, NEW other, Belongs(K, d, other), P!SameHeading(doc, other)
  PROVE  Belongs(K, d, doc)
<1>1. /\ doc.seq = other.seq /\ doc.part = other.part /\ doc.id = other.id
      /\ doc.match = other.match /\ doc.name = other.name
  BY DEF P!SameHeading
<1>2. P!StoreName(doc, doc.part) = P!StoreName(other, other.part)
  BY <1>1 DEF P!StoreName
<1> QED BY <1>1, <1>2 DEF Belongs

\* A write that tells what its transaction says belongs where the transaction does.
LEMMA TellsBelongs ==
  ASSUME NEW K, NEW q, Carries(K, q), NEW filled, filled => q.response,
         NEW w, w.doc.seq = q.seq, P!Tells(w, q, filled)
  PROVE  Belongs(K, w.to, w.doc)
BY DEF Carries, Belongs, P!Tells

LEMMA KnownIs ==
  /\ DOMAIN Known = DOMAIN owner
  /\ \A k \in DOMAIN owner :
       /\ Known[k].id = IF options.OnRequestCallback THEN NoId ELSE owner[k].exchange
       /\ Known[k].response = owner[k].response
       /\ Known[k].verdict = VerdictOf(evals[owner[k].exchange])
BY DEF Known

LEMMA KnownIsPrime ==
  /\ DOMAIN Known' = DOMAIN owner'
  /\ \A k \in DOMAIN owner' :
       /\ Known'[k].id = IF options'.OnRequestCallback THEN NoId ELSE owner'[k].exchange
       /\ Known'[k].response = owner'[k].response
       /\ Known'[k].verdict = VerdictOf(evals'[owner'[k].exchange])
BY DEF Known

\* The filters of an exchange run before its transactions are logged: those of the
\* response before the response is, so that a logged response's verdict is final.
LEMMA VerdictFinal ==
  ASSUME SessionInv, [Next]_vars, NEW k \in DOMAIN owner, owner[k].response
  PROVE  evals'[owner[k].exchange] = evals[owner[k].exchange]
<1>1. SessionTyped /\ OwnerBegan(k) /\ owner[k].exchange \in Exchanges
  BY OwnerIsExchange DEF SessionInv, OwnersKept
<1>2. ASSUME NEW s \in Sessions, FilterRequest(s) \/ FilterResponse(s),
             pc[s] \in {"modreq", "modresp"}
      PROVE  evals'[owner[k].exchange] = evals[owner[k].exchange]
  <2>1. owner[k].exchange # Exchange(s)
    BY <1>1, <1>2 DEF OwnerBegan, Over, Exchange
  <2>2. \E x : evals' = [evals EXCEPT ![Exchange(s)] = x]
    BY <1>2 DEF FilterRequest, FilterResponse
  <2> QED BY <1>1, <2>1, <2>2 DEF SessionTyped
<1>3. ASSUME NEW s \in Sessions, Session(s)
      PROVE  evals'[owner[k].exchange] = evals[owner[k].exchange]
  <2>1. CASE ModifyRequest(s)
    BY <1>2, <2>1 DEF ModifyRequest, hijackNServe, RequestCallback
  <2>2. CASE ModifyResponse(s)
    BY <1>2, <2>2 DEF ModifyResponse, ResponseCallback
  <2>3. CASE ~ModifyRequest(s) /\ ~ModifyResponse(s)
    BY <1>3, <2>3 DEF Session, ReadRequest, Disconnect, LogRequest, RoundTrip, LogResponse
  <2> QED BY <2>1, <2>2, <2>3
<1>4. CASE AsyncWrite \/ Exit \/ UNCHANGED vars
  BY <1>4 DEF AsyncWrite, Exit, vars, sessionVars
<1> QED BY <1>3, <1>4 DEF Next

\* owner only grows.
LEMMA OwnerGrows ==
  ASSUME SessionInv, [Next]_vars
  PROVE  \A k \in DOMAIN owner : k \in DOMAIN owner' /\ owner'[k] = owner[k]
<1>1. owner \in Seq([exchange : Exchanges, response : BOOLEAN])
  BY DEF SessionInv, SessionTyped
<1>2. ASSUME NEW s \in Sessions, NEW resp \in BOOLEAN,
             owner' = Append(owner, [exchange |-> Exchange(s), response |-> resp]),
             nth[s] # 0
      PROVE  \A k \in DOMAIN owner : k \in DOMAIN owner' /\ owner'[k] = owner[k]
  <2>1. [exchange |-> Exchange(s), response |-> resp] \in [exchange : Exchanges, response : BOOLEAN]
    BY <1>2, BoundedExchange DEF SessionInv
  <2> QED BY <1>1, <1>2, <2>1, AppendProperties, LenProperties
<1>3. ASSUME NEW s \in Sessions, Session(s)
      PROVE  \A k \in DOMAIN owner : k \in DOMAIN owner' /\ owner'[k] = owner[k]
  <2>1. CASE LogRequest(s)
    <3>1. nth[s] # 0
      BY <2>1 DEF LogRequest, SessionInv, ContextKept, ContextOf
    <3> QED BY <1>2, <2>1, <3>1 DEF LogRequest
  <2>2. CASE LogResponse(s)
    <3>1. nth[s] # 0
      BY <2>2 DEF LogResponse, SessionInv, ContextKept, ContextOf
    <3> QED BY <1>2, <2>2, <3>1 DEF LogResponse
  <2>3. CASE ~LogRequest(s) /\ ~LogResponse(s)
    BY <1>3, <2>3 DEF Session, ReadRequest, Disconnect, ModifyRequest, RoundTrip, ModifyResponse
  <2> QED BY <2>1, <2>2, <2>3
<1>4. CASE AsyncWrite \/ Exit \/ UNCHANGED vars
  BY <1>4 DEF AsyncWrite, Exit, vars, sessionVars
<1> QED BY <1>3, <1>4 DEF Next

LEMMA OptionsFixed ==
  ASSUME [Next]_vars
  PROVE  options' = options
<1>1. ASSUME NEW s \in Sessions, Session(s)
      PROVE  options' = options
  BY <1>1 DEF Session, ReadRequest, Disconnect, ModifyRequest, LogRequest, RoundTrip,
              ModifyResponse, LogResponse
<1>2. CASE AsyncWrite \/ Exit \/ UNCHANGED vars
  BY <1>2 DEF AsyncWrite, Exit, vars, sessionVars
<1> QED BY <1>1, <1>2 DEF Next

LEMMA KnownExtends ==
  ASSUME SessionInv, [Next]_vars
  PROVE  Extends(Known, Known')
<1>1. \A k \in DOMAIN owner : k \in DOMAIN owner' /\ owner'[k] = owner[k]
  BY OwnerGrows
<1>2. \A k \in DOMAIN owner :
        owner[k].response => evals'[owner[k].exchange] = evals[owner[k].exchange]
  BY VerdictFinal
<1>3. options' = options
  BY OptionsFixed
<1> QED BY <1>1, <1>2, <1>3, KnownIs, KnownIsPrime DEF Extends

\* A step of the proxy, as the logger sees it.
Sends ==
  \E s \in Sessions : LogRequest(s) \/ LogResponse(s)

Writes == (P!WriteStructured \/ P!Save \/ P!SaveFails) /\ UNCHANGED sessionVars

LoggerQuiet == UNCHANGED <<Store, sWriter, asyncqueue, todo, saved, nsent>>

LEMMA LoggerSteps ==
  ASSUME [Next]_vars
  PROVE  Sends \/ (P!Receive /\ UNCHANGED sessionVars) \/ Writes \/ LoggerQuiet
<1>1. ASSUME NEW s \in Sessions, Session(s)
      PROVE  Sends \/ LoggerQuiet
  BY <1>1 DEF Session, ReadRequest, Disconnect, ModifyRequest, RoundTrip, ModifyResponse,
              loggerVars, LoggerQuiet, Sends
<1>2. CASE AsyncWrite
  BY <1>2, AsyncWriteIs DEF Writes
<1>3. CASE Exit \/ UNCHANGED vars
  BY <1>3 DEF Exit, L!Halt, vars, loggerVars, LoggerQuiet
<1> QED BY <1>1, <1>2, <1>3 DEF Next

\* What a hook sends into the channel carries the data of its exchange.
LEMMA SendCarries ==
  ASSUME SessionInv, LoggerInv, [Next]_vars, Sends
  PROVE  /\ \E q : asyncqueue' = Append(asyncqueue, q) /\ Carries(Known', q)
                   /\ q \in P!Transaction
         /\ UNCHANGED <<todo, saved, sWriter, Store>> /\ nsent' = nsent + 1
<1>1. SessionTyped /\ ContextKept /\ Len(owner) = nsent /\ nsent \in Nat
  BY DEF SessionInv, OwnersKept, LoggerInv, P!TypeOK
<1>2. ASSUME NEW s \in Sessions, NEW resp \in BOOLEAN, NEW t,
             IF resp THEN pc[s] = "logresp" ELSE pc[s] = "logreq",
             t = [seq |-> 0, id |-> data[s].id, match |-> data[s].match,
                  request |-> TRUE, response |-> resp],
             P!Send(t),
             owner' = Append(owner, [exchange |-> Exchange(s), response |-> resp]),
             UNCHANGED <<evals, options, data>>
      PROVE  /\ \E q : asyncqueue' = Append(asyncqueue, q) /\ Carries(Known', q)
                       /\ q \in P!Transaction
             /\ UNCHANGED <<todo, saved, sWriter, Store>> /\ nsent' = nsent + 1
  <2> DEFINE q == [t EXCEPT !.seq = nsent + 1]
             new == [exchange |-> Exchange(s), response |-> resp]
  <2>1. asyncqueue' = Append(asyncqueue, q) /\ nsent' = nsent + 1
        /\ UNCHANGED <<todo, saved, sWriter, Store>>
    BY <1>2 DEF P!Send
  <2>2. /\ q.seq = nsent + 1 /\ q.id = data[s].id /\ q.match = data[s].match
        /\ q.request = TRUE /\ q.response = resp
    BY <1>2
  <2>3. q \in P!Transaction
    <3>1. data[s].id \in Exchanges \cup {NoId} /\ data[s].match \in {"nil", "true", "false"}
      BY <1>1, DataLogged
    <3>2. t \in P!Transaction
      BY <1>2, <3>1, Zenon DEF P!Transaction, P!Verdicts
    <3>3. nsent + 1 \in Nat
      BY <1>1
    <3> QED BY <3>2, <3>3 DEF P!Transaction
  <2> HIDE DEF q
  <2>4. ContextOf(s) /\ Exchange(s) \in Exchanges
    BY <1>1, <1>2, BoundedExchange DEF ContextKept, ContextOf
  <2>5. new \in [exchange : Exchanges, response : BOOLEAN]
    BY <2>4
  <2>6. nsent + 1 \in DOMAIN owner' /\ owner'[nsent + 1] = new
    <3>1. owner \in Seq([exchange : Exchanges, response : BOOLEAN]) /\ owner' = Append(owner, new)
      BY <1>1, <1>2 DEF SessionTyped
    <3> HIDE DEF new
    <3>2. Len(owner') = Len(owner) + 1 /\ owner'[Len(owner) + 1] = new
          /\ DOMAIN owner' = 1..(Len(owner) + 1)
      BY <2>5, <3>1, AppendProperties, LenProperties
    <3> QED BY <1>1, <3>2
  <2>7. /\ nsent + 1 \in DOMAIN Known'
        /\ Known'[nsent + 1].id = IF options.OnRequestCallback THEN NoId ELSE Exchange(s)
        /\ Known'[nsent + 1].response = resp
        /\ Known'[nsent + 1].verdict = VerdictOf(evals[Exchange(s)])
    BY <1>2, <2>6, KnownIsPrime
  <2>8. /\ data[s].id = IF options.OnRequestCallback THEN NoId ELSE Exchange(s)
        /\ resp => data[s].match = VerdictOf(evals[Exchange(s)])
    BY <1>2, <2>4 DEF ContextOf
  <2>9. Carries(Known', q)
    BY <2>2, <2>7, <2>8 DEF Carries
  <2> QED BY <2>1, <2>3, <2>9
<1>3. PICK s \in Sessions : LogRequest(s) \/ LogResponse(s)
  BY DEF Sends
<1>4. CASE LogRequest(s)
  <2>1. P!LogRequest(data[s].id, data[s].match)
    BY <1>4, SameLogRequest DEF LogRequest
  <2> QED BY <1>2, <1>4, <2>1 DEF LogRequest, P!LogRequest
<1>5. CASE LogResponse(s)
  <2>1. P!LogResponse(data[s].id, data[s].match, TRUE)
    BY <1>5, SameLogResponse DEF LogResponse
  <2> QED BY <1>2, <1>5, <2>1 DEF LogResponse, P!LogResponse
<1> QED BY <1>3, <1>4, <1>5

LEMMA ProvenanceInit == Init => Provenance
BY SameRest DEF Init, P!NewLogger, Provenance

LEMMA SendProvenance ==
  ASSUME SessionInv, LoggerInv, Provenance, [Next]_vars, Sends
  PROVE  Provenance'
<1>1. PICK q : /\ asyncqueue' = Append(asyncqueue, q) /\ Carries(Known', q)
               /\ q \in P!Transaction
  BY SendCarries
<1>2. UNCHANGED <<todo, saved>> /\ Extends(Known, Known')
  BY SendCarries, KnownExtends
<1>3. asyncqueue \in Seq(P!Transaction)
  BY DEF LoggerInv, P!TypeOK
<1> DEFINE n == Len(asyncqueue)
<1>4. /\ DOMAIN asyncqueue' = 1..(n + 1) /\ n \in Nat /\ DOMAIN asyncqueue = 1..n
      /\ asyncqueue'[n + 1] = q /\ \A i \in 1..n : asyncqueue'[i] = asyncqueue[i]
  BY <1>1, <1>3, AppendProperties, LenProperties
<1>5. ASSUME NEW i \in DOMAIN asyncqueue'
      PROVE  Carries(Known', asyncqueue'[i])
  <2>1. CASE i = n + 1
    BY <1>1, <1>4, <2>1
  <2>2. CASE i # n + 1
    <3>1. i \in DOMAIN asyncqueue /\ asyncqueue'[i] = asyncqueue[i]
      BY <1>4, <2>2
    <3>2. Carries(Known, asyncqueue[i])
      BY <3>1 DEF Provenance
    <3> QED BY <1>2, <3>1, <3>2, CarriesExtends
  <2> QED BY <2>1, <2>2
<1>6. ASSUME NEW i \in DOMAIN todo
      PROVE  Belongs(Known', todo[i].to, todo[i].doc)
  BY <1>2, BelongsExtends DEF Provenance
<1>7. ASSUME NEW d \in P!Targets, NEW i \in DOMAIN saved[d]
      PROVE  Belongs(Known', d, saved[d][i])
  BY <1>2, BelongsExtends DEF Provenance
<1> QED BY <1>2, <1>5, <1>6, <1>7 DEF Provenance

LEMMA QuietProvenance ==
  ASSUME SessionInv, Provenance, [Next]_vars, LoggerQuiet
  PROVE  Provenance'
<1>1. UNCHANGED <<asyncqueue, todo, saved>> /\ Extends(Known, Known')
  BY KnownExtends DEF LoggerQuiet
<1>2. ASSUME NEW i \in DOMAIN asyncqueue
      PROVE  Carries(Known', asyncqueue[i])
  BY <1>1, CarriesExtends DEF Provenance
<1>3. ASSUME NEW i \in DOMAIN todo
      PROVE  Belongs(Known', todo[i].to, todo[i].doc)
  BY <1>1, BelongsExtends DEF Provenance
<1>4. ASSUME NEW d \in P!Targets, NEW i \in DOMAIN saved[d]
      PROVE  Belongs(Known', d, saved[d][i])
  BY <1>1, BelongsExtends DEF Provenance
<1> QED BY <1>1, <1>2, <1>3, <1>4 DEF Provenance

\* The head of the queue, and what AsyncWrite owes for it.
LEMMA ReceiveOwes ==
  ASSUME LoggerInv, Provenance, P!Receive
  PROVE  LET q == asyncqueue[1] IN
         /\ q \in P!Transaction /\ Carries(Known, q) /\ q.seq = P!Received + 1
         /\ \E d \in P!Fails("dump"), f \in P!Fails("fill"), r \in P!Fails("dump") :
              todo' = P!Writes(q, ~d, q.response /\ ~f, ~r)
         /\ \A i \in DOMAIN asyncqueue' :
              i + 1 \in DOMAIN asyncqueue /\ asyncqueue'[i] = asyncqueue[i + 1]
         /\ P!Received' = P!Received + 1
         /\ todo = <<>> /\ UNCHANGED <<saved, nsent, sWriter, Store>>
<1>1. /\ asyncqueue \in Seq(P!Transaction) /\ asyncqueue # <<>> /\ nsent \in Nat
      /\ asyncqueue' = Tail(asyncqueue) /\ UNCHANGED <<saved, nsent, sWriter, Store>>
      /\ todo = <<>>
  BY DEF LoggerInv, P!TypeOK, P!Receive
<1>2. /\ Head(asyncqueue) = asyncqueue[1] /\ asyncqueue[1] \in P!Transaction
      /\ 1 \in DOMAIN asyncqueue
      /\ Len(asyncqueue') = Len(asyncqueue) - 1 /\ Len(asyncqueue) \in Nat
      /\ \A i \in DOMAIN asyncqueue' :
           i + 1 \in DOMAIN asyncqueue /\ asyncqueue'[i] = asyncqueue[i + 1]
  BY <1>1, HeadTailProperties, LenProperties
<1>3. Carries(Known, asyncqueue[1])
  BY <1>2 DEF Provenance
<1>4. asyncqueue[1].seq = P!Received + 1
  BY <1>2 DEF LoggerInv, P!OneLog, P!QueueNumbered
<1>5. P!Received' = P!Received + 1
  BY <1>1, <1>2 DEF P!Received
<1>6. asyncqueue[1].request
  BY <1>3 DEF Carries
<1>7. \E d \in P!Fails("dump"), f \in P!Fails("fill"), r \in P!Fails("dump") :
        todo' = P!Writes(asyncqueue[1], ~d, asyncqueue[1].response /\ ~f, ~r)
  <2>1. Head(asyncqueue).request
    BY <1>2, <1>6
  <2> DEFINE Owes(q) ==
        \E d \in P!Fails("dump"), f \in P!Fails("fill"), r \in P!Fails("dump") :
          todo' = P!Writes(q, ~d, q.response /\ ~f, ~r)
  <2>2. Owes(Head(asyncqueue))
    BY <2>1, Zenon DEF P!Receive
  <2>3. Owes(asyncqueue[1])
    <3> HIDE DEF Owes
    <3> QED BY <1>2, <2>2
  <2> QED BY <2>3
<1> QED BY <1>1, <1>2, <1>3, <1>4, <1>5, <1>7

LEMMA ReceiveProvenance ==
  ASSUME SessionInv, LoggerInv, Provenance, P!Receive, UNCHANGED sessionVars
  PROVE  Provenance'
<1> DEFINE q == asyncqueue[1]
<1>1. /\ q \in P!Transaction /\ Carries(Known, q)
      /\ \E d \in P!Fails("dump"), f \in P!Fails("fill"), r \in P!Fails("dump") :
           todo' = P!Writes(q, ~d, q.response /\ ~f, ~r)
      /\ \A i \in DOMAIN asyncqueue' :
           i + 1 \in DOMAIN asyncqueue /\ asyncqueue'[i] = asyncqueue[i + 1]
      /\ saved' = saved
  BY ReceiveOwes
<1>2. Known' = Known
  BY DEF Known, sessionVars
<1>3. Store \in Seq(P!StoreNames)
  BY DEF LoggerInv, P!TypeOK
<1>4. PICK d \in P!Fails("dump"), f \in P!Fails("fill"), r \in P!Fails("dump") :
        todo' = P!Writes(q, ~d, q.response /\ ~f, ~r)
  BY <1>1
<1>5. /\ (~d) \in BOOLEAN /\ (q.response /\ ~f) \in BOOLEAN /\ (~r) \in BOOLEAN
      /\ (q.response /\ ~f) => q.response
  OBVIOUS
<1> HIDE DEF q
<1>6. ASSUME NEW x \in BOOLEAN, NEW y \in BOOLEAN, NEW z \in BOOLEAN, y => q.response
      PROVE  \A i \in DOMAIN P!Writes(q, x, y, z) :
               Belongs(Known, P!Writes(q, x, y, z)[i].to, P!Writes(q, x, y, z)[i].doc)
  <2>1. \A i \in DOMAIN P!Writes(q, x, y, z) : P!Writes(q, x, y, z)[i].doc.seq = q.seq
    BY <1>1, <1>3, LoggerSetting, P!WritesType
  <2>2. \A i \in DOMAIN P!Writes(q, x, y, z) : P!Tells(P!Writes(q, x, y, z)[i], q, y)
    BY <1>1, <1>3, LoggerSetting, P!WritesTell
  <2> QED BY <1>1, <1>6, <2>1, <2>2, TellsBelongs
<1>7. \A i \in DOMAIN todo' : Belongs(Known, todo'[i].to, todo'[i].doc)
  <2> DEFINE y == q.response /\ ~f
  <2>1. todo' = P!Writes(q, ~d, y, ~r) /\ y \in BOOLEAN /\ (y => q.response)
    BY <1>4
  <2> HIDE DEF y
  <2> QED BY <1>5, <1>6, <2>1
<1>8. \A i \in DOMAIN asyncqueue' : Carries(Known, asyncqueue'[i])
  BY <1>1 DEF Provenance
<1> QED BY <1>1, <1>2, <1>7, <1>8 DEF Provenance

\* The write that is due, and what its target holds afterwards: what it held, and
\* then documents that differ from the one due at most in their text.
LEMMA WriteAdds ==
  ASSUME LoggerInv, Writes
  PROVE  /\ todo # <<>> /\ 1 \in DOMAIN todo /\ todo[1].to \in P!Targets
         /\ \A i \in DOMAIN todo' :
              i \in Nat /\ i + 1 \in DOMAIN todo /\ todo'[i] = todo[i + 1]
         /\ \A i \in DOMAIN todo : i # 1 => i - 1 \in DOMAIN todo' /\ i \in Nat
         /\ \A d \in P!Targets \ {todo[1].to} : saved'[d] = saved[d]
         /\ LET e == todo[1].to IN
            /\ \A i \in DOMAIN saved[e] : i \in DOMAIN saved'[e] /\ saved'[e][i] = saved[e][i]
            /\ \A i \in DOMAIN saved'[e] \ DOMAIN saved[e] :
                 P!SameHeading(saved'[e][i], todo[1].doc)
         /\ UNCHANGED <<asyncqueue, nsent, sWriter>> /\ Known' = Known
<1>1. P!TypeOK /\ (P!WriteStructured \/ P!Save \/ P!SaveFails)
  BY DEF LoggerInv, Writes
<1>2. /\ todo \in Seq(P!Write) /\ todo # <<>>
      /\ \E docs \in P!Additions(Head(todo)) : P!Done(docs)
  BY <1>1, LoggerSetting, P!WritesAreDone
<1>3. PICK docs \in P!Additions(Head(todo)) : P!Done(docs)
  BY <1>2
<1>4. /\ todo' = Tail(todo) /\ saved' = [saved EXCEPT ![Head(todo).to] = @ \o docs]
      /\ UNCHANGED <<asyncqueue, nsent, sWriter>>
  BY <1>3 DEF P!Done
<1>5. /\ Head(todo) = todo[1] /\ 1 \in DOMAIN todo /\ todo[1] \in P!Write
      /\ \A i \in DOMAIN todo' :
           i \in Nat /\ i + 1 \in DOMAIN todo /\ todo'[i] = todo[i + 1]
      /\ \A i \in DOMAIN todo : i # 1 => i - 1 \in DOMAIN todo' /\ i \in Nat
  <2>1. Head(todo) = todo[1] /\ Len(todo) \in Nat /\ Len(todo) # 0 /\ DOMAIN todo = 1..Len(todo)
    BY <1>2, EmptySeq, LenProperties
  <2>2. DOMAIN todo' = 1..(Len(todo) - 1) /\ \A i \in 1..(Len(todo) - 1) : todo'[i] = todo[i + 1]
    BY <1>2, <1>4, HeadTailProperties, LenProperties
  <2>3. todo[1] \in P!Write
    BY <1>2, <2>1, ElementOfSeq
  <2> QED BY <2>1, <2>2, <2>3
<1> DEFINE e == todo[1].to
<1>6. /\ e \in P!Targets /\ saved \in [P!Targets -> Seq(P!Document)]
      /\ docs \in Seq(P!Document) /\ \A i \in DOMAIN docs : P!SameHeading(docs[i], todo[1].doc)
  BY <1>1, <1>3, <1>5 DEF P!TypeOK, P!Write, P!Additions
<1>7. saved'[e] = saved[e] \o docs /\ \A d \in P!Targets \ {e} : saved'[d] = saved[d]
  BY <1>4, <1>5, <1>6
<1>8. /\ \A i \in DOMAIN saved[e] : i \in DOMAIN saved'[e] /\ saved'[e][i] = saved[e][i]
      /\ \A i \in DOMAIN saved'[e] \ DOMAIN saved[e] :
           \E j \in DOMAIN docs : saved'[e][i] = docs[j]
  <2> DEFINE v == saved[e]
  <2>1. v \in Seq(P!Document) /\ saved'[e] = v \o docs
    BY <1>6, <1>7
  <2> HIDE DEF v
  <2>2. /\ \A i \in DOMAIN v : i \in DOMAIN (v \o docs) /\ (v \o docs)[i] = v[i]
        /\ \A i \in DOMAIN docs : Len(v) + i \in DOMAIN (v \o docs)
                                  /\ (v \o docs)[Len(v) + i] = docs[i]
        /\ \A i \in DOMAIN (v \o docs) :
             \/ i \in DOMAIN v
             \/ i - Len(v) \in DOMAIN docs /\ i = Len(v) + (i - Len(v))
    BY <1>6, <2>1, LoggerSetting, P!ConcatAt
  <2>3. \A i \in DOMAIN (v \o docs) \ DOMAIN v : \E j \in DOMAIN docs : (v \o docs)[i] = docs[j]
    BY <2>2
  <2> QED BY <2>1, <2>2, <2>3 DEF v
<1>9. \A i \in DOMAIN saved'[e] \ DOMAIN saved[e] : P!SameHeading(saved'[e][i], todo[1].doc)
  BY <1>6, <1>8
<1>10. Known' = Known
  BY DEF Writes, Known, sessionVars
<1> QED BY <1>2, <1>4, <1>5, <1>6, <1>7, <1>8, <1>9, <1>10

LEMMA WriteProvenance ==
  ASSUME LoggerInv, Provenance, Writes
  PROVE  Provenance'
<1> DEFINE e == todo[1].to
<1>1. /\ 1 \in DOMAIN todo
      /\ \A i \in DOMAIN todo' : i + 1 \in DOMAIN todo /\ todo'[i] = todo[i + 1]
      /\ \A d \in P!Targets \ {e} : saved'[d] = saved[d]
      /\ \A i \in DOMAIN saved[e] : i \in DOMAIN saved'[e] /\ saved'[e][i] = saved[e][i]
      /\ \A i \in DOMAIN saved'[e] \ DOMAIN saved[e] : P!SameHeading(saved'[e][i], todo[1].doc)
      /\ asyncqueue' = asyncqueue /\ Known' = Known
  BY WriteAdds
<1>2. \A i \in DOMAIN todo' : Belongs(Known', todo'[i].to, todo'[i].doc)
  BY <1>1 DEF Provenance
<1>3. Belongs(Known, e, todo[1].doc)
  BY <1>1 DEF Provenance
<1>4. ASSUME NEW d \in P!Targets, NEW i \in DOMAIN saved'[d]
      PROVE  Belongs(Known, d, saved'[d][i])
  <2>1. CASE d # e
    BY <1>1, <1>4, <2>1 DEF Provenance
  <2>2. CASE d = e /\ i \in DOMAIN saved[e]
    BY <1>1, <1>4, <2>2 DEF Provenance
  <2>3. CASE d = e /\ i \notin DOMAIN saved[e]
    BY <1>1, <1>3, <1>4, <2>3, BelongsHeading
  <2> QED BY <2>1, <2>2, <2>3
<1> QED BY <1>1, <1>2, <1>4 DEF Provenance

LEMMA ProvenanceStep ==
  ASSUME SessionInv, LoggerInv, Provenance, [Next]_vars
  PROVE  Provenance'
BY LoggerSteps, SendProvenance, ReceiveProvenance, WriteProvenance, QuietProvenance

-----------------------------------------------------------------------------
(* What is owed when nothing fails *)

\* The structured entry of transaction k is written, or will be written next.
PairSeen(k) ==
  \/ \E i \in DOMAIN todo : todo[i].to = "swriter" /\ todo[i].doc.seq = k
  \/ \E i \in DOMAIN saved["swriter"] : saved["swriter"][i].seq = k

PairsOwed ==
  (Faults = {} /\ sWriter = "open") =>
    \A k \in 1..P!Received :
      (Known[k].response /\ Known[k].verdict # "false") => PairSeen(k)

\* A response goes to the dump directory only after its request.
ResponsesFollow ==
  (Faults = {} /\ OutputFolder /\ ~DumpRequest /\ ~DumpResponse) =>
    /\ \A i \in DOMAIN todo : (todo[i].to = "file" /\ todo[i].doc.part = "response") =>
         \/ \E j \in DOMAIN todo : j < i /\ todo[j].to = "file" /\ todo[j].doc.part = "request"
         \/ \E j \in DOMAIN saved["file"] : /\ saved["file"][j].part = "request"
                                            /\ saved["file"][j].seq = todo[i].doc.seq
    /\ \A i \in DOMAIN saved["file"] : saved["file"][i].part = "response" =>
         \E j \in DOMAIN saved["file"] : /\ j < i
                                         /\ saved["file"][j].part = "request"
                                         /\ saved["file"][j].seq = saved["file"][i].seq

NoFolder == ~OutputFolder => saved["file"] = <<>>

LEMMA OwedInit == Init => PairsOwed /\ ResponsesFollow /\ NoFolder
<1> SUFFICES ASSUME Init PROVE PairsOwed /\ ResponsesFollow /\ NoFolder
  OBVIOUS
<1>1. /\ asyncqueue = <<>> /\ todo = <<>> /\ nsent = 0
      /\ saved["file"] = <<>>
  BY SameRest DEF Init, P!NewLogger, P!Targets, P!StoreNames
<1>2. 1..P!Received = {}
  BY <1>1 DEF P!Received
<1> QED BY <1>1, <1>2 DEF PairsOwed, ResponsesFollow, NoFolder

LEMMA ReceivedType ==
  ASSUME SessionInv, LoggerInv
  PROVE  P!Received \in Int /\ \A k \in 1..P!Received : k \in DOMAIN owner
<1>1. /\ asyncqueue \in Seq(P!Transaction) /\ nsent \in Nat /\ Len(owner) = nsent
      /\ owner \in Seq([exchange : Exchanges, response : BOOLEAN])
  BY DEF SessionInv, OwnersKept, SessionTyped, LoggerInv, P!TypeOK
<1>2. Len(asyncqueue) \in Nat /\ DOMAIN owner = 1..nsent
  BY <1>1, LenProperties
<1> QED BY <1>1, <1>2 DEF P!Received

\* A write that goes through adds its document at the end.
LEMMA WriteAppends ==
  ASSUME LoggerInv, Writes, Faults = {},
         \/ todo[1].to = "swriter" /\ sWriter = "open"
         \/ todo[1].to = "file" /\ OutputFolder
  PROVE  LET e == todo[1].to
             n == Len(saved[e]) + 1
         IN /\ n \in DOMAIN saved'[e] /\ saved'[e][n] = todo[1].doc
            /\ \A i \in DOMAIN saved'[e] : i = n \/ i \in DOMAIN saved[e]
            /\ \A i \in DOMAIN saved[e] : i < n
<1>1. /\ todo \in Seq(P!Write) /\ todo # <<>> /\ saved \in [P!Targets -> Seq(P!Document)]
  BY WriteAdds DEF LoggerInv, P!TypeOK, P!Write
<1>2. Head(todo) = todo[1] /\ todo[1] \in P!Write
  BY <1>1, HeadTailProperties
<1> DEFINE e == todo[1].to
           doc == todo[1].doc
           v == saved[e]
<1>3. P!Done(<<doc>>)
  BY <1>2, LoggerSetting, P!WritesInFull DEF Writes
<1>4. e \in P!Targets /\ v \in Seq(P!Document) /\ doc \in P!Document
  BY <1>1, <1>2 DEF P!Write
<1>5. saved'[e] = v \o <<doc>>
  BY <1>1, <1>2, <1>3, <1>4 DEF P!Done
<1> HIDE DEF v, doc
<1>6. /\ Len(v) \in Nat /\ DOMAIN v = 1..Len(v) /\ DOMAIN (v \o <<doc>>) = 1..(Len(v) + 1)
      /\ (v \o <<doc>>)[Len(v) + 1] = doc
  BY <1>4, ConcatProperties, LenProperties
<1> QED BY <1>5, <1>6 DEF v, doc

LEMMA PairsOwedStep ==
  ASSUME SessionInv, LoggerInv, Provenance, PairsOwed, [Next]_vars
  PROVE  PairsOwed'
<1> SUFFICES ASSUME Faults = {}, sWriter' = "open", NEW k \in 1..P!Received',
                    Known'[k].response, Known'[k].verdict # "false"
             PROVE  PairSeen(k)'
  BY DEF PairsOwed
<1>1. /\ P!Received \in Int /\ \A l \in 1..P!Received : l \in DOMAIN Known
      /\ Extends(Known, Known')
  BY ReceivedType, KnownExtends, KnownIs
<1>2. ASSUME sWriter = "open", k \in 1..P!Received
      PROVE  PairSeen(k)
  BY <1>1, <1>2 DEF Extends, PairsOwed
<1>3. CASE LoggerQuiet
  <2>1. P!Received' = P!Received /\ UNCHANGED <<todo, saved, sWriter>>
    BY <1>3 DEF LoggerQuiet, P!Received
  <2> QED BY <1>2, <2>1 DEF PairSeen
<1>4. CASE Sends
  <2>1. /\ UNCHANGED <<todo, saved, sWriter>> /\ nsent' = nsent + 1
        /\ \E q : asyncqueue' = Append(asyncqueue, q) /\ q \in P!Transaction
    BY <1>4, SendCarries
  <2>2. asyncqueue \in Seq(P!Transaction) /\ nsent \in Nat
    BY DEF LoggerInv, P!TypeOK
  <2>3. Len(asyncqueue') = Len(asyncqueue) + 1 /\ Len(asyncqueue) \in Nat
    BY <2>1, <2>2, AppendProperties, LenProperties
  <2>4. P!Received' = P!Received
    BY <2>1, <2>2, <2>3 DEF P!Received
  <2> QED BY <1>2, <2>1, <2>4 DEF PairSeen
<1>5. CASE P!Receive /\ UNCHANGED sessionVars
  <2> DEFINE q == asyncqueue[1]
  <2>1. /\ q \in P!Transaction /\ Carries(Known, q) /\ q.seq = P!Received + 1
        /\ P!Received' = P!Received + 1
        /\ todo = <<>> /\ UNCHANGED <<saved, sWriter>>
        /\ \E d \in P!Fails("dump"), f \in P!Fails("fill"), r \in P!Fails("dump") :
             todo' = P!Writes(q, ~d, q.response /\ ~f, ~r)
    BY <1>5, ReceiveOwes
  <2>2. CASE k \in 1..P!Received
    <3>1. PairSeen(k)
      BY <1>2, <2>1, <2>2
    <3> QED BY <2>1, <3>1 DEF PairSeen
  <2>3. CASE k = P!Received + 1
    <3>1. Known' = Known
      BY <1>5 DEF Known, sessionVars
    <3>2. q.response = TRUE /\ q.match # "false"
      BY <2>1, <2>3, <3>1 DEF Carries, P!Transaction
    <3>3. P!Fails("dump") = {FALSE} /\ P!Fails("fill") = {FALSE}
      BY DEF P!Fails
    <3>4. todo' = P!Writes(q, TRUE, TRUE, TRUE)
      <4>1. todo' = P!Writes(q, ~FALSE, q.response /\ ~FALSE, ~FALSE)
        BY <2>1, <3>3
      <4>2. (~FALSE) = TRUE /\ (q.response /\ ~FALSE) = TRUE
        BY <3>2
      <4> HIDE DEF q
      <4> QED BY <4>1, <4>2
    <3>5. Store \in Seq(P!StoreNames) /\ sWriter # "nil"
      BY <2>1 DEF LoggerInv, P!TypeOK
    <3> HIDE DEF q
    <3>6. \A i \in DOMAIN P!Writes(q, TRUE, TRUE, TRUE) :
            P!Writes(q, TRUE, TRUE, TRUE)[i].doc.seq = q.seq
      BY <2>1, <3>5, LoggerSetting, P!WritesType
    <3>7. \E i \in DOMAIN P!Writes(q, TRUE, TRUE, TRUE) :
            P!Writes(q, TRUE, TRUE, TRUE)[i].to = "swriter"
      BY <2>1, <3>2, <3>5, LoggerSetting, P!WritesTell
    <3> QED BY <2>1, <2>3, <3>4, <3>6, <3>7 DEF PairSeen
  <2> QED BY <1>1, <2>1, <2>2, <2>3
<1>6. CASE Writes
  <2> DEFINE e == todo[1].to
  <2>1. /\ 1 \in DOMAIN todo /\ UNCHANGED <<asyncqueue, nsent, sWriter>>
        /\ \A i \in DOMAIN todo' : i + 1 \in DOMAIN todo /\ todo'[i] = todo[i + 1]
        /\ \A i \in DOMAIN todo : i # 1 => i - 1 \in DOMAIN todo' /\ i \in Nat
        /\ \A d \in P!Targets \ {e} : saved'[d] = saved[d]
        /\ \A i \in DOMAIN saved[e] : i \in DOMAIN saved'[e] /\ saved'[e][i] = saved[e][i]
    BY <1>6, WriteAdds
  <2>2. P!Received' = P!Received
    BY <2>1 DEF P!Received
  <2>3. PairSeen(k)
    BY <1>2, <2>1, <2>2
  <2>4. \A i \in DOMAIN saved["swriter"] :
          i \in DOMAIN saved'["swriter"] /\ saved'["swriter"][i] = saved["swriter"][i]
    BY <2>1 DEF P!Targets
  <2>5. CASE \E i \in DOMAIN saved["swriter"] : saved["swriter"][i].seq = k
    BY <2>4, <2>5 DEF PairSeen
  <2>6. ASSUME NEW i \in DOMAIN todo, todo[i].to = "swriter", todo[i].doc.seq = k
        PROVE  PairSeen(k)'
    <3>1. CASE i = 1
      <4>1. /\ Len(saved["swriter"]) + 1 \in DOMAIN saved'["swriter"]
            /\ saved'["swriter"][Len(saved["swriter"]) + 1] = todo[1].doc
        BY <1>6, <2>1, <2>6, <3>1, WriteAppends
      <4> QED BY <2>6, <3>1, <4>1 DEF PairSeen
    <3>2. CASE i # 1
      <4>1. i - 1 \in DOMAIN todo' /\ todo'[i - 1] = todo[i]
        BY <2>1, <3>2
      <4> QED BY <2>6, <4>1 DEF PairSeen
    <3> QED BY <3>1, <3>2
  <2> QED BY <2>3, <2>5, <2>6 DEF PairSeen
<1> QED BY <1>3, <1>4, <1>5, <1>6, LoggerSteps

LEMMA ResponsesFollowStep ==
  ASSUME SessionInv, LoggerInv, Provenance, ResponsesFollow, [Next]_vars
  PROVE  ResponsesFollow'
<1> SUFFICES ASSUME Faults = {}, OutputFolder, ~DumpRequest, ~DumpResponse
             PROVE  ResponsesFollow'
  BY DEF ResponsesFollow
<1> DEFINE file == saved["file"]
<1>1. /\ \A i \in DOMAIN todo : (todo[i].to = "file" /\ todo[i].doc.part = "response") =>
           \/ \E j \in DOMAIN todo : j < i /\ todo[j].to = "file" /\ todo[j].doc.part = "request"
           \/ \E j \in DOMAIN file : file[j].part = "request" /\ file[j].seq = todo[i].doc.seq
      /\ \A i \in DOMAIN file : file[i].part = "response" =>
           \E j \in DOMAIN file : j < i /\ file[j].part = "request" /\ file[j].seq = file[i].seq
  BY DEF ResponsesFollow
<1>2. CASE LoggerQuiet \/ Sends
  <2>1. UNCHANGED <<todo, saved>>
    BY <1>2, SendCarries DEF LoggerQuiet
  <2> QED BY <2>1 DEF ResponsesFollow
<1>3. CASE P!Receive /\ UNCHANGED sessionVars
  <2> DEFINE q == asyncqueue[1]
  <2>1. /\ q \in P!Transaction /\ UNCHANGED saved
        /\ \E d \in P!Fails("dump"), f \in P!Fails("fill"), r \in P!Fails("dump") :
             todo' = P!Writes(q, ~d, q.response /\ ~f, ~r)
    BY <1>3, ReceiveOwes
  <2>2. Store \in Seq(P!StoreNames)
    BY DEF LoggerInv, P!TypeOK
  <2>3. PICK d \in P!Fails("dump"), f \in P!Fails("fill"), r \in P!Fails("dump") :
          todo' = P!Writes(q, ~d, q.response /\ ~f, ~r)
    BY <2>1
  <2> DEFINE y == q.response /\ ~f
  <2>4. todo' = P!Writes(q, ~d, y, ~r) /\ y \in BOOLEAN
    BY <2>3
  <2> HIDE DEF q, y
  <2> DEFINE Follows(w) ==
        \A i \in DOMAIN w : w[i].doc.part = "response" =>
          \E j \in DOMAIN w : j < i /\ w[j].to = w[i].to /\ w[j].doc.part = "request"
  <2>5. ASSUME NEW x \in BOOLEAN, NEW b \in BOOLEAN, NEW z \in BOOLEAN
        PROVE  Follows(P!Writes(q, x, b, z))
    BY <2>1, <2>2, LoggerSetting, P!WritesTell
  <2>6. Follows(todo')
    <3>1. (~d) \in BOOLEAN /\ (~r) \in BOOLEAN
      OBVIOUS
    <3> HIDE DEF Follows
    <3>2. Follows(P!Writes(q, ~d, y, ~r))
      BY <2>4, <2>5, <3>1, Zenon
    <3> QED BY <2>4, <3>2
  <2> QED BY <1>1, <2>1, <2>6 DEF ResponsesFollow
<1>4. CASE Writes
  <2> DEFINE e == todo[1].to
             n == Len(file) + 1
  <2>1. /\ 1 \in DOMAIN todo /\ e \in P!Targets
        /\ \A i \in DOMAIN todo' :
             i \in Nat /\ i + 1 \in DOMAIN todo /\ todo'[i] = todo[i + 1]
        /\ \A i \in DOMAIN todo : i # 1 => i - 1 \in DOMAIN todo' /\ i \in Nat
        /\ \A d \in P!Targets \ {e} : saved'[d] = saved[d]
        /\ \A i \in DOMAIN saved[e] : i \in DOMAIN saved'[e] /\ saved'[e][i] = saved[e][i]
    BY <1>4, WriteAdds
  <2>2. "file" \in P!Targets
    BY DEF P!Targets, P!StoreNames
  <2>3. \A i \in DOMAIN file : i \in DOMAIN saved'["file"] /\ saved'["file"][i] = file[i]
    BY <2>1, <2>2
  <2>4. e = "file" => /\ n \in DOMAIN saved'["file"] /\ saved'["file"][n] = todo[1].doc
                      /\ \A i \in DOMAIN saved'["file"] : i = n \/ i \in DOMAIN file
                      /\ \A i \in DOMAIN file : i < n
    <3> SUFFICES ASSUME e = "file"
                 PROVE  /\ n \in DOMAIN saved'["file"] /\ saved'["file"][n] = todo[1].doc
                        /\ \A i \in DOMAIN saved'["file"] : i = n \/ i \in DOMAIN file
                        /\ \A i \in DOMAIN file : i < n
      OBVIOUS
    <3>1. /\ n \in DOMAIN saved'[e] /\ saved'[e][n] = todo[1].doc
          /\ \A i \in DOMAIN saved'[e] : i = n \/ i \in DOMAIN saved[e]
          /\ \A i \in DOMAIN saved[e] : i < n
      BY <1>4, WriteAppends
    <3> QED BY <3>1
  <2>5. e # "file" => saved'["file"] = file
    BY <2>1, <2>2
  <2>6. \A i \in DOMAIN todo : todo[i].doc.seq = P!Received
    BY DEF LoggerInv, P!OneLog, P!TodoIsCurrent
  <2> HIDE DEF file, n, e
  <2>7. ASSUME NEW i \in DOMAIN todo', todo'[i].to = "file", todo'[i].doc.part = "response"
        PROVE  \/ \E j \in DOMAIN todo' :
                    j < i /\ todo'[j].to = "file" /\ todo'[j].doc.part = "request"
               \/ \E j \in DOMAIN saved'["file"] :
                    /\ saved'["file"][j].part = "request"
                    /\ saved'["file"][j].seq = todo'[i].doc.seq
    <3>1. i \in Nat /\ i + 1 \in DOMAIN todo /\ todo'[i] = todo[i + 1]
      BY <2>1
    <3>2. CASE \E j \in DOMAIN file :
                 file[j].part = "request" /\ file[j].seq = todo[i + 1].doc.seq
      BY <2>3, <3>1, <3>2
    <3>3. ASSUME NEW j \in DOMAIN todo, j < i + 1, todo[j].to = "file",
                 todo[j].doc.part = "request"
          PROVE  \/ \E l \in DOMAIN todo' :
                      l < i /\ todo'[l].to = "file" /\ todo'[l].doc.part = "request"
                 \/ \E l \in DOMAIN saved'["file"] :
                      /\ saved'["file"][l].part = "request"
                      /\ saved'["file"][l].seq = todo'[i].doc.seq
      <4>1. CASE j = 1
        <5>1. n \in DOMAIN saved'["file"] /\ saved'["file"][n] = todo[1].doc
          BY <2>4, <3>3, <4>1 DEF e
        <5>2. todo[1].doc.part = "request" /\ todo[1].doc.seq = todo'[i].doc.seq
          BY <2>1, <2>6, <3>1, <3>3, <4>1
        <5> QED BY <5>1, <5>2
      <4>2. CASE j # 1
        <5>1. j - 1 \in DOMAIN todo' /\ j \in Nat /\ j - 1 < i
          BY <2>1, <3>1, <3>3, <4>2
        <5>2. todo'[j - 1] = todo[j]
          BY <2>1, <5>1
        <5> QED BY <3>3, <5>1, <5>2
      <4> QED BY <4>1, <4>2
    <3> QED BY <1>1, <2>7, <3>1, <3>2, <3>3
  <2>8. ASSUME NEW i \in DOMAIN saved'["file"], saved'["file"][i].part = "response"
        PROVE  \E j \in DOMAIN saved'["file"] : /\ j < i
                                                /\ saved'["file"][j].part = "request"
                                                /\ saved'["file"][j].seq = saved'["file"][i].seq
    <3>1. CASE i \in DOMAIN file
      BY <1>1, <2>3, <2>8, <3>1
    <3>2. CASE i \notin DOMAIN file
      <4>1. e = "file"
        BY <2>5, <3>2
      <4>2. i = n /\ saved'["file"][i] = todo[1].doc
        BY <2>4, <2>8, <3>2, <4>1
      <4>3. todo[1].to = "file" /\ todo[1].doc.part = "response"
        BY <2>8, <4>1, <4>2 DEF e
      <4>4. \A j \in DOMAIN todo : ~(j < 1)
        BY <2>1
      <4>5. PICK j \in DOMAIN file : file[j].part = "request" /\ file[j].seq = todo[1].doc.seq
        BY <1>1, <2>1, <4>3, <4>4
      <4> QED BY <2>3, <2>4, <4>1, <4>2, <4>5
    <3> QED BY <3>1, <3>2
  <2> QED BY <2>7, <2>8 DEF ResponsesFollow
<1> QED BY <1>2, <1>3, <1>4, LoggerSteps

LEMMA NoFolderStep ==
  ASSUME SessionInv, LoggerInv, Provenance, NoFolder, [Next]_vars
  PROVE  NoFolder'
<1> SUFFICES ASSUME ~OutputFolder, saved["file"] = <<>>
             PROVE  saved'["file"] = <<>>
  BY DEF NoFolder
<1>1. CASE LoggerQuiet \/ Sends \/ (P!Receive /\ UNCHANGED sessionVars)
  BY <1>1, SendCarries, ReceiveOwes DEF LoggerQuiet
<1>2. CASE Writes
  <2>1. "file" \in P!Targets
    BY DEF P!Targets, P!StoreNames
  <2>2. CASE todo[1].to # "file"
    BY <1>2, <2>1, <2>2, WriteAdds
  <2>3. CASE todo[1].to = "file"
    <3>1. todo \in Seq(P!Write) /\ todo # <<>> /\ saved \in [P!Targets -> Seq(P!Document)]
      BY <1>2, WriteAdds DEF LoggerInv, P!TypeOK, P!Write
    <3>2. Head(todo) = todo[1]
      BY <3>1, HeadTailProperties
    <3>3. P!Done(<<>>)
      BY <1>2, <2>3, <3>2, LoggerSetting, P!NothingIsFiled DEF Writes
    <3>4. saved'["file"] = saved["file"] \o <<>>
      BY <2>1, <2>3, <3>1, <3>2, <3>3 DEF P!Done
    <3> QED BY <3>4
  <2> QED BY <2>2, <2>3
<1> QED BY <1>1, <1>2, LoggerSteps

-----------------------------------------------------------------------------
(* The theorems about what the targets hold *)

IInv ==
  SessionInv /\ LoggerInv /\ Provenance /\ PairsOwed /\ ResponsesFollow /\ NoFolder

\* The inductive invariant of the proxy and its logger together.
THEOREM ProxyInvariant == Spec => []IInv
<1>1. Init => IInv
  BY SessionInvInit, LoggerInvInit, ProvenanceInit, OwedInit DEF IInv
<1>2. IInv /\ [Next]_vars => IInv'
  <2> SUFFICES ASSUME IInv, [Next]_vars PROVE IInv'
    OBVIOUS
  <2>1. SessionInv /\ LoggerInv /\ Provenance /\ PairsOwed /\ ResponsesFollow /\ NoFolder
    BY DEF IInv
  <2>2. SessionInv'
    BY <2>1, SessionStep
  <2>3. LoggerInv'
    BY <2>1, LoggerInvStep DEF SessionInv
  <2>4. Provenance'
    BY <2>1, ProvenanceStep
  <2>5. PairsOwed' /\ ResponsesFollow' /\ NoFolder'
    BY <2>1, PairsOwedStep, ResponsesFollowStep, NoFolderStep
  <2> QED BY <2>2, <2>3, <2>4, <2>5 DEF IInv
<1> QED BY <1>1, <1>2, PTL DEF Spec

LEMMA SavedBelongs ==
  ASSUME IInv, NEW d \in P!Targets, NEW i \in DOMAIN saved[d]
  PROVE  /\ saved[d][i].seq \in DOMAIN owner
         /\ saved[d][i].id = IF options.OnRequestCallback THEN NoId
                             ELSE owner[saved[d][i].seq].exchange
         /\ (d = "swriter" \/ saved[d][i].part = "response") => owner[saved[d][i].seq].response
         /\ d = "swriter" => /\ saved[d][i].part = "pair"
                             /\ VerdictOf(evals[owner[saved[d][i].seq].exchange]) # "false"
         /\ d # "swriter" => saved[d][i].name = P!StoreName(saved[d][i], saved[d][i].part)
<1>1. Belongs(Known, d, saved[d][i])
  BY DEF IInv, Provenance
<1> QED BY <1>1, KnownIs DEF Belongs

\* Every document is filed under the exchange it was logged for, however the sessions
\* interleave and whatever fails in the logger.
THEOREM FiledRight == Spec => []FiledUnderItsExchange
<1>1. IInv => FiledUnderItsExchange
  <2>1. L!Targets = P!Targets
    BY DEF L!Targets, P!Targets, L!StoreNames, P!StoreNames
  <2> QED BY <2>1, SavedBelongs DEF FiledUnderItsExchange
<1> QED BY <1>1, ProxyInvariant, PTL

\* A response that waits for the exporters carries the verdict of its own exchange, and
\* only exchanges that it lets through are in the structured file.
THEOREM MatchIsRight == Spec => []VerdictOfItsExchange
<1>1. IInv => VerdictOfItsExchange
  <2> SUFFICES ASSUME IInv PROVE VerdictOfItsExchange
    OBVIOUS
  <2>1. ASSUME NEW i \in DOMAIN asyncqueue, asyncqueue[i].response
        PROVE  asyncqueue[i].match = Verdict(owner[asyncqueue[i].seq].exchange)
    <3>1. Carries(Known, asyncqueue[i])
      BY DEF IInv, Provenance
    <3> QED BY <2>1, <3>1, KnownIs, VerdictIs DEF Carries
  <2>2. ASSUME NEW i \in DOMAIN saved["swriter"]
        PROVE  Verdict(owner[saved["swriter"][i].seq].exchange) \in {"nil", "true"}
    <3>1. "swriter" \in P!Targets
      BY DEF P!Targets
    <3> QED BY <3>1, SavedBelongs, VerdictIs, VerdictType
  <2> QED BY <2>1, <2>2 DEF VerdictOfItsExchange
<1> QED BY <1>1, ProxyInvariant, PTL

LEMMA SavedType ==
  ASSUME IInv, NEW d \in P!Targets
  PROVE  /\ \A i \in DOMAIN saved[d] : i \in Int /\ saved[d][i] \in P!Document
                                       /\ saved[d][i].seq \in Nat
         /\ \A i, j \in DOMAIN saved[d] : (d # "kafka" /\ i < j) =>
              P!Rank(saved[d][i]) < P!Rank(saved[d][j])
<1>1. saved[d] \in Seq(P!Document)
  BY DEF IInv, LoggerInv, P!TypeOK
<1>2. \A i \in DOMAIN saved[d] : i \in Int /\ saved[d][i] \in P!Document
                                 /\ saved[d][i].seq \in Nat
  <2>1. DOMAIN saved[d] = 1..Len(saved[d])
    BY <1>1, LenProperties
  <2>2. \A i \in DOMAIN saved[d] : saved[d][i] \in P!Document
    BY <1>1, <2>1, ElementOfSeq
  <2>3. \A doc \in P!Document : doc.seq \in Nat
    BY DEF P!Document
  <2> QED BY <2>1, <2>2, <2>3
<1>3. P!InSubmissionOrder
  BY DEF IInv, LoggerInv, P!OneLog
<1> QED BY <1>2, <1>3 DEF P!InSubmissionOrder

\* Whatever the sessions do and whichever saves fail, every target holds the documents in
\* the order in which the hooks were let into the channel.
THEOREM DumpsAreInOrder == Spec => []DumpsInOrder
<1>1. IInv => DumpsInOrder
  <2> SUFFICES ASSUME IInv PROVE DumpsInOrder
    OBVIOUS
  <2>1. P!InSubmissionOrder
    BY DEF IInv, LoggerInv, P!OneLog
  <2>2. L!Targets = P!Targets /\ \A doc : L!Rank(doc) = P!Rank(doc)
    BY DEF L!Targets, P!Targets, L!StoreNames, P!StoreNames, L!Rank, P!Rank
  <2> QED BY <2>1, <2>2 DEF DumpsInOrder, L!InSubmissionOrder, P!InSubmissionOrder
<1> QED BY <1>1, ProxyInvariant, PTL

\* When the logger has caught up and nothing failed, the structured file has exactly
\* one entry for every logged response that the filters let through.
THEOREM PairsAreLogged == Spec => []PairsLogged
<1>1. IInv => PairsLogged
  <2> SUFFICES ASSUME IInv, Faults = {}, Quiet, sWriter = "open", NEW k \in DOMAIN owner,
                      owner[k].response, Verdict(owner[k].exchange) # "false"
               PROVE  Cardinality({i \in DOMAIN saved["swriter"] :
                        owner[saved["swriter"][i].seq].exchange = owner[k].exchange}) = 1
    BY DEF PairsLogged
  <2> DEFINE e == owner[k].exchange
             entries == {i \in DOMAIN saved["swriter"] :
                           owner[saved["swriter"][i].seq].exchange = e}
  <2>1. "swriter" \in P!Targets /\ "swriter" # "kafka"
    BY DEF P!Targets
  <2>2. k \in 1..P!Received
    <3>1. asyncqueue = <<>> /\ nsent \in Nat /\ Len(owner) = nsent
          /\ owner \in Seq([exchange : Exchanges, response : BOOLEAN])
      BY DEF IInv, SessionInv, OwnersKept, SessionTyped, LoggerInv, P!TypeOK, Quiet
    <3>2. DOMAIN owner = 1..nsent /\ Len(asyncqueue) = 0
      BY <3>1, LenProperties
    <3> QED BY <3>1, <3>2 DEF P!Received
  <2>3. PairSeen(k)
    BY <2>2, KnownIs, VerdictIs DEF IInv, PairsOwed
  <2>4. PICK n \in DOMAIN saved["swriter"] : saved["swriter"][n].seq = k
    BY <2>3 DEF PairSeen, Quiet
  <2>5. ASSUME NEW i \in entries
        PROVE  i = n
    <3>1. /\ saved["swriter"][i].seq \in DOMAIN owner
          /\ owner[saved["swriter"][i].seq].response
          /\ saved["swriter"][i].part = "pair" /\ saved["swriter"][n].part = "pair"
      BY <2>1, <2>4, SavedBelongs
    <3>2. saved["swriter"][i].seq = k
      <4>1. /\ saved["swriter"][i].seq \in Nat /\ saved["swriter"][n].seq \in Nat
        BY <2>1, SavedType
      <4>2. ResponseLast
        BY DEF IInv, SessionInv, OwnersKept
      <4>3. saved["swriter"][i].seq <= k /\ k <= saved["swriter"][i].seq
        BY <3>1, <4>2 DEF ResponseLast
      <4> QED BY <2>4, <4>1, <4>3
    <3>3. P!Rank(saved["swriter"][i]) = P!Rank(saved["swriter"][n])
      BY <2>4, <3>1, <3>2 DEF P!Rank
    <3>4. i \in Int /\ n \in Int /\ P!Rank(saved["swriter"][i]) \in Int
      BY <2>1, <2>4, SavedType DEF P!Rank
    <3>5. ~(i < n) /\ ~(n < i)
      BY <2>1, <2>4, <3>3, <3>4, SavedType
    <3> QED BY <3>4, <3>5
  <2>6. entries = {n}
    BY <2>4, <2>5
  <2> HIDE DEF entries
  <2>7. Cardinality(entries) = 1
    BY <2>6, FS_Singleton
  <2> QED BY <2>7 DEF entries
<1> QED BY <1>1, ProxyInvariant, PTL

LEMMA StoreNameId == \A t, part : P!StoreName(t, part).id = t.id
BY DEF P!StoreName

LEMMA StoreNamePlain ==
  ASSUME NEW t, P!StoreName(t, "response").suffix = ""
  PROVE  ~DumpRequest /\ ~DumpResponse
BY DEF P!StoreName

\* Without a dump flag or a verdict, a response has the file of its request.
LEMMA StoreNameShared ==
  ASSUME NEW t, NEW u, t.id = u.id, ~DumpRequest, ~DumpResponse,
         ~P!StoreName(t, "response").match
  PROVE  P!StoreName(t, "response") = P!StoreName(u, "request")
<1> DEFINE m(v, part) == part = "response" /\ ~DumpRequest /\ ~DumpResponse /\ v.match = "true"
<1>1. \A v, part : P!StoreName(v, part) =
        [id |-> v.id, suffix |-> IF DumpRequest \/ DumpResponse THEN part ELSE "",
         match |-> m(v, part)]
  BY Zenon DEF P!StoreName
<1>2. ~m(t, "response")
  <2> HIDE DEF m
  <2> QED BY <1>1
<1>3. m(t, "response") = m(u, "request")
  BY <1>2, Zenon
<1> HIDE DEF m
<1> QED BY <1>1, <1>3

\* In the dump directory nothing is appended to the file of an exchange after its
\* response, and without a dump flag or a verdict its request is there before it.
THEOREM ResponseIsLast == Spec => []ResponseClosesFile
<1>1. IInv => ResponseClosesFile
  <2> DEFINE file == saved["file"]
  <2> SUFFICES ASSUME IInv, NEW i \in DOMAIN file, file[i].part = "response", file[i].id # NoId
               PROVE  /\ \A j \in DOMAIN file : j > i => file[j].name # file[i].name
                      /\ (Faults = {} /\ file[i].name.suffix = "" /\ ~file[i].name.match) =>
                           \E j \in DOMAIN file : j < i /\ file[j].name = file[i].name
    BY DEF ResponseClosesFile
  <2>1. "file" \in P!Targets /\ "file" # "swriter" /\ "file" # "kafka"
    BY DEF P!Targets, P!StoreNames
  <2>2. \A j \in DOMAIN file :
          /\ j \in Int /\ file[j].seq \in Nat /\ file[j].seq \in DOMAIN owner
          /\ file[j].id = IF options.OnRequestCallback THEN NoId ELSE owner[file[j].seq].exchange
          /\ file[j].part = "response" => owner[file[j].seq].response
          /\ file[j].name = P!StoreName(file[j], file[j].part)
    BY <2>1, SavedBelongs, SavedType
  <2>3. ~options.OnRequestCallback /\ owner[file[i].seq].response
        /\ file[i].id = owner[file[i].seq].exchange
    BY <2>2
  <2>4. ASSUME NEW j \in DOMAIN file, j > i, file[j].name = file[i].name
        PROVE  FALSE
    <3>1. file[j].id = file[i].id
      <4>1. file[j].name.id = file[j].id /\ file[i].name.id = file[i].id
        <5>1. /\ file[j].name = P!StoreName(file[j], file[j].part)
              /\ file[i].name = P!StoreName(file[i], file[i].part)
          BY <2>2
        <5> QED BY <5>1, StoreNameId
      <4> QED BY <2>4, <4>1
    <3>2. owner[file[j].seq].exchange = owner[file[i].seq].exchange
      BY <2>2, <2>3, <3>1
    <3>3. file[j].seq <= file[i].seq
      BY <2>2, <2>3, <3>2 DEF IInv, SessionInv, OwnersKept, ResponseLast
    <3>4. P!Rank(file[i]) < P!Rank(file[j])
      BY <2>1, <2>2, <2>4, SavedType
    <3> QED BY <2>2, <3>3, <3>4 DEF P!Rank
  <2>5. ASSUME Faults = {}, file[i].name.suffix = "", ~file[i].name.match
        PROVE  \E j \in DOMAIN file : j < i /\ file[j].name = file[i].name
    <3>1. file[i].name = P!StoreName(file[i], "response")
      BY <2>2
    <3>2. ~DumpRequest /\ ~DumpResponse
      BY <2>5, <3>1, StoreNamePlain
    <3>3. OutputFolder
      BY DEF IInv, NoFolder
    <3>4. PICK j \in DOMAIN file : /\ j < i /\ file[j].part = "request"
                                   /\ file[j].seq = file[i].seq
      BY <2>5, <3>2, <3>3 DEF IInv, ResponsesFollow
    <3>5. file[j].id = file[i].id /\ file[j].name = P!StoreName(file[j], "request")
      BY <2>2, <3>4
    <3>6. P!StoreName(file[i], "response") = P!StoreName(file[j], "request")
      BY <2>5, <3>1, <3>2, <3>5, StoreNameShared
    <3> QED BY <3>1, <3>4, <3>5, <3>6
  <2> QED BY <2>4, <2>5
<1> QED BY <1>1, ProxyInvariant, PTL

============================================================================
