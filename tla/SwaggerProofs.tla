---------------------------- MODULE SwaggerProofs ----------------------------
(***************************************************************************)
(* Proofs about swaggergen, for any number of files, exchanges, hosts and  *)
(* runs: the document is the sum of the runs that ended well, and a run    *)
(* panics for the reasons named and no others.                             *)
(***************************************************************************)
EXTENDS Swaggergen, TLAPS

-----------------------------------------------------------------------------
(* What a document says of a history *)

\* i is the newest of S.
IsNewest(i, S) == i \in S /\ \A k \in S : k <= i

OfType(h, p, m, s, c) == {i \in OfStatus(h, p, m, s) : h[i].entry.x.ctype = c}

\* What Documents says of a response, of a method and of the document; here the newest
\* entries are known to exist.
SaysResponse(r, h, p, m, s) ==
  /\ DOMAIN r = {h[i].entry.x.ctype : i \in OfStatus(h, p, m, s)}
  /\ \A c \in DOMAIN r :
       \E i \in OfType(h, p, m, s, c) :
         IsNewest(i, OfType(h, p, m, s, c)) /\ r[c] = h[i].entry.x.schema

Answered(h, p, m) == {i \in OfMethod(h, p, m) : h[i].entry.response}

SaysResponses(R, h, p, m) ==
  /\ DOMAIN R = {h[i].entry.x.status : i \in Answered(h, p, m)}
  /\ \A s \in DOMAIN R : SaysResponse(R[s], h, p, m, s)

SaysMethod(d, h, p, m) ==
  /\ d = [made |-> d.made, responses |-> d.responses, params |-> d.params]
  /\ \E i \in OfMethod(h, p, m) :
       IsNewest(i, OfMethod(h, p, m)) /\ d.params = h[i].entry.x.params
  /\ SaysResponses(d.responses, h, p, m)

SaysPath(f, h, p) ==
  /\ DOMAIN f = {h[i].entry.x.method : i \in OfPath(h, p)}
  /\ \A m \in DOMAIN f : SaysMethod(f[m], h, p, m)

Says(doc, h) ==
  /\ doc = [titles |-> doc.titles, servers |-> doc.servers, paths |-> doc.paths]
  /\ DOMAIN doc.paths = {h[i].entry.x.path : i \in Added(h)}
  /\ \A p \in DOMAIN doc.paths : SaysPath(doc.paths[p], h, p)

History == [entry : Entry, api : Apis]

LEMMA AddedIsIn ==
  ASSUME NEW h \in Seq(History)
  PROVE  Len(h) \in Nat /\ DOMAIN h = 1..Len(h) /\ Added(h) \subseteq 1..Len(h)
BY DEF Added

LEMMA NewestIsOne ==
  ASSUME NEW S, S \subseteq Int, NEW i \in S, IsNewest(i, S)
  PROVE  Newest(S) = i
<1>1. \A j \in S : IsNewest(j, S) => j = i
  <2> SUFFICES ASSUME NEW j \in S, IsNewest(j, S) PROVE j = i
    OBVIOUS
  <2>1. i <= j /\ j <= i /\ i \in Int /\ j \in Int
    BY DEF IsNewest
  <2> QED BY <2>1
<1>2. Newest(S) \in S /\ \A k \in S : k <= Newest(S)
  BY DEF IsNewest, Newest
<1> QED BY <1>1, <1>2 DEF IsNewest

\* The newest entries are those that the property names.
LEMMA SaysDocuments ==
  ASSUME NEW doc, NEW h \in Seq(History), Says(doc, h)
  PROVE  Documents(doc, h)
<1>0. Added(h) \subseteq Int
  BY AddedIsIn
<1> SUFFICES ASSUME NEW p \in DOMAIN doc.paths
             PROVE  /\ DOMAIN doc.paths[p] = {h[i].entry.x.method : i \in OfPath(h, p)}
                    /\ \A m \in DOMAIN doc.paths[p] :
                         LET d == doc.paths[p][m]
                             I == OfMethod(h, p, m)
                         IN /\ d.params = h[Newest(I)].entry.x.params
                            /\ DOMAIN d.responses
                                 = {h[i].entry.x.status : i \in {k \in I : h[k].entry.response}}
                            /\ \A s \in DOMAIN d.responses :
                                 LET A == OfStatus(h, p, m, s) IN
                                 /\ DOMAIN d.responses[s] = {h[i].entry.x.ctype : i \in A}
                                 /\ \A c \in DOMAIN d.responses[s] :
                                      d.responses[s][c] =
                                        h[Newest({i \in A : h[i].entry.x.ctype = c})].entry.x.schema
  BY DEF Says, Documents
<1>1. SaysPath(doc.paths[p], h, p)
  BY DEF Says
<1>2. DOMAIN doc.paths[p] = {h[i].entry.x.method : i \in OfPath(h, p)}
  BY <1>1 DEF SaysPath
<1>3. ASSUME NEW m \in DOMAIN doc.paths[p]
      PROVE  /\ doc.paths[p][m].params = h[Newest(OfMethod(h, p, m))].entry.x.params
             /\ DOMAIN doc.paths[p][m].responses = {h[i].entry.x.status : i \in Answered(h, p, m)}
  <2>1. SaysMethod(doc.paths[p][m], h, p, m)
    BY <1>1, <1>3 DEF SaysPath
  <2>2. PICK i \in OfMethod(h, p, m) :
          IsNewest(i, OfMethod(h, p, m)) /\ doc.paths[p][m].params = h[i].entry.x.params
    BY <2>1 DEF SaysMethod, SaysResponses
  <2>3. OfMethod(h, p, m) \subseteq Int
    BY <1>0 DEF OfMethod, OfPath
  <2>4. Newest(OfMethod(h, p, m)) = i
    BY <2>2, <2>3, NewestIsOne
  <2> QED BY <2>1, <2>2, <2>4 DEF SaysMethod, SaysResponses
<1>4. ASSUME NEW m \in DOMAIN doc.paths[p], NEW s \in DOMAIN doc.paths[p][m].responses
      PROVE  /\ DOMAIN doc.paths[p][m].responses[s]
                  = {h[i].entry.x.ctype : i \in OfStatus(h, p, m, s)}
             /\ \A c \in DOMAIN doc.paths[p][m].responses[s] :
                  doc.paths[p][m].responses[s][c]
                    = h[Newest(OfType(h, p, m, s, c))].entry.x.schema
  <2> DEFINE r == doc.paths[p][m].responses[s]
  <2>1. SaysResponse(r, h, p, m, s)
    BY <1>1, <1>4 DEF SaysPath, SaysMethod, SaysResponses
  <2>2. ASSUME NEW c \in DOMAIN r
        PROVE  r[c] = h[Newest(OfType(h, p, m, s, c))].entry.x.schema
    <3>1. PICK i \in OfType(h, p, m, s, c) :
            IsNewest(i, OfType(h, p, m, s, c)) /\ r[c] = h[i].entry.x.schema
      BY <2>1, <2>2 DEF SaysResponse
    <3>2. OfType(h, p, m, s, c) \subseteq Int
      BY <1>0 DEF OfType, OfStatus, OfMethod, OfPath
    <3>3. Newest(OfType(h, p, m, s, c)) = i
      BY <3>1, <3>2, NewestIsOne
    <3> QED BY <3>1, <3>3
  <2>3. DOMAIN r = {h[i].entry.x.ctype : i \in OfStatus(h, p, m, s)}
    BY <2>1 DEF SaysResponse
  <2> QED BY <2>2, <2>3
<1> QED BY <1>2, <1>3, <1>4 DEF Answered, OfType

-----------------------------------------------------------------------------
(* One more entry *)

\* g is h and one entry more, x, at n.
OneMore(h, x, g, n) ==
  h \in Seq(History) /\ x \in History /\ g = Append(h, x) /\ n = Len(h) + 1

LEMMA OneMoreEntry ==
  ASSUME NEW h, NEW x, NEW g, NEW n, OneMore(h, x, g, n)
  PROVE  /\ n \in DOMAIN g /\ g[n] = x
         /\ \A i \in DOMAIN h : i \in DOMAIN g /\ g[i] = h[i]
         /\ \A i \in DOMAIN g : i \in DOMAIN h \/ i = n
         /\ n \notin DOMAIN h
         /\ \A i \in DOMAIN h : i <= n
         /\ n \in Int
BY DEF OneMore

\* It changes the sets that it belongs to and no others.
OnPath(x, p) == x.entry.x.host = x.api /\ x.entry.x.path = p
OnMethod(x, p, m) == OnPath(x, p) /\ x.entry.x.method = m
OnStatus(x, p, m, s) == OnMethod(x, p, m) /\ x.entry.response /\ x.entry.x.status = s
OnType(x, p, m, s, c) == OnStatus(x, p, m, s) /\ x.entry.x.ctype = c

LEMMA OneMoreAdded ==
  ASSUME NEW h, NEW x, NEW g, NEW n, OneMore(h, x, g, n)
  PROVE  \A i : i \in Added(g) <=> i \in Added(h) \/ (i = n /\ x.entry.x.host = x.api)
BY OneMoreEntry DEF Added

LEMMA OneMorePath ==
  ASSUME NEW h, NEW x, NEW g, NEW n, OneMore(h, x, g, n), NEW p
  PROVE  \A i : i \in OfPath(g, p) <=> i \in OfPath(h, p) \/ (i = n /\ OnPath(x, p))
<1>1. \A i \in Added(h) : i \in DOMAIN h
  BY DEF Added
<1>2. g[n] = x /\ n \notin DOMAIN h /\ \A i \in DOMAIN h : g[i] = h[i]
  BY OneMoreEntry
<1>3. \A i : i \in Added(g) <=> i \in Added(h) \/ (i = n /\ x.entry.x.host = x.api)
  BY OneMoreAdded
<1> QED BY <1>1, <1>2, <1>3 DEF OfPath, OnPath

LEMMA OneMoreMethod ==
  ASSUME NEW h, NEW x, NEW g, NEW n, OneMore(h, x, g, n), NEW p, NEW m
  PROVE  \A i : i \in OfMethod(g, p, m) <=> i \in OfMethod(h, p, m) \/ (i = n /\ OnMethod(x, p, m))
<1>1. \A i \in OfPath(h, p) : i \in DOMAIN h
  BY DEF Added, OfPath
<1>2. g[n] = x /\ n \notin DOMAIN h /\ \A i \in DOMAIN h : g[i] = h[i]
  BY OneMoreEntry
<1>3. \A i : i \in OfPath(g, p) <=> i \in OfPath(h, p) \/ (i = n /\ OnPath(x, p))
  BY OneMorePath
<1> QED BY <1>1, <1>2, <1>3 DEF OfMethod, OnMethod

LEMMA OneMoreStatus ==
  ASSUME NEW h, NEW x, NEW g, NEW n, OneMore(h, x, g, n), NEW p, NEW m, NEW s
  PROVE  \A i : i \in OfStatus(g, p, m, s)
                  <=> i \in OfStatus(h, p, m, s) \/ (i = n /\ OnStatus(x, p, m, s))
<1>1. \A i \in OfMethod(h, p, m) : i \in DOMAIN h
  BY DEF Added, OfPath, OfMethod
<1>2. g[n] = x /\ n \notin DOMAIN h /\ \A i \in DOMAIN h : g[i] = h[i]
  BY OneMoreEntry
<1>3. \A i : i \in OfMethod(g, p, m) <=> i \in OfMethod(h, p, m) \/ (i = n /\ OnMethod(x, p, m))
  BY OneMoreMethod
<1> QED BY <1>1, <1>2, <1>3 DEF OfStatus, OnStatus

LEMMA OneMoreType ==
  ASSUME NEW h, NEW x, NEW g, NEW n, OneMore(h, x, g, n), NEW p, NEW m, NEW s, NEW c
  PROVE  \A i : i \in OfType(g, p, m, s, c)
                  <=> i \in OfType(h, p, m, s, c) \/ (i = n /\ OnType(x, p, m, s, c))
<1>1. \A i \in OfStatus(h, p, m, s) : i \in DOMAIN h
  BY DEF Added, OfPath, OfMethod, OfStatus
<1>2. g[n] = x /\ n \notin DOMAIN h /\ \A i \in DOMAIN h : g[i] = h[i]
  BY OneMoreEntry
<1>3. \A i : i \in OfStatus(g, p, m, s)
               <=> i \in OfStatus(h, p, m, s) \/ (i = n /\ OnStatus(x, p, m, s))
  BY OneMoreStatus
<1> QED BY <1>1, <1>2, <1>3 DEF OfType, OnType

\* The entries of a set keep their place.
Stays(S, h, g, n) == \A i \in S : g[i] = h[i] /\ i <= n /\ i # n

LEMMA SetsStay ==
  ASSUME NEW h, NEW x, NEW g, NEW n, OneMore(h, x, g, n)
  PROVE  /\ g[n] = x /\ n <= n
         /\ \A S : S \subseteq DOMAIN h => Stays(S, h, g, n)
<1>1. \A i \in DOMAIN h : g[i] = h[i] /\ i <= n /\ i # n
  BY OneMoreEntry
<1>2. g[n] = x /\ n <= n
  BY OneMoreEntry
<1> QED BY <1>1, <1>2 DEF Stays

LEMMA SetsAreIn ==
  ASSUME NEW h, NEW p, NEW m, NEW s, NEW c
  PROVE  /\ Added(h) \subseteq DOMAIN h
         /\ OfPath(h, p) \subseteq DOMAIN h
         /\ OfMethod(h, p, m) \subseteq DOMAIN h
         /\ Answered(h, p, m) \subseteq DOMAIN h
         /\ OfStatus(h, p, m, s) \subseteq DOMAIN h
         /\ OfType(h, p, m, s, c) \subseteq DOMAIN h
BY DEF Added, OfPath, OfMethod, Answered, OfStatus, OfType

\* What the entry is not about is as before.
LEMMA SameResponse ==
  ASSUME NEW h, NEW x, NEW g, NEW n, OneMore(h, x, g, n), NEW p, NEW m, NEW s, NEW r,
         SaysResponse(r, h, p, m, s), ~OnStatus(x, p, m, s)
  PROVE  SaysResponse(r, g, p, m, s)
<1>1. OfStatus(g, p, m, s) = OfStatus(h, p, m, s)
  BY OneMoreStatus
<1>2. \A i \in OfStatus(h, p, m, s) : g[i] = h[i]
  <2>1. OfStatus(h, p, m, s) \subseteq DOMAIN h
    BY SetsAreIn
  <2> QED BY <2>1, SetsStay DEF Stays
<1>3. DOMAIN r = {g[i].entry.x.ctype : i \in OfStatus(g, p, m, s)}
  BY <1>1, <1>2 DEF SaysResponse
<1>4. ASSUME NEW c \in DOMAIN r
      PROVE  \E i \in OfType(g, p, m, s, c) :
               IsNewest(i, OfType(g, p, m, s, c)) /\ r[c] = g[i].entry.x.schema
  <2>1. OfType(g, p, m, s, c) = OfType(h, p, m, s, c)
    <3>1. \A i : i \in OfType(g, p, m, s, c)
                   <=> i \in OfType(h, p, m, s, c) \/ (i = n /\ OnType(x, p, m, s, c))
      BY OneMoreType
    <3> QED BY <3>1 DEF OnType
  <2>2. PICK i \in OfType(h, p, m, s, c) :
          IsNewest(i, OfType(h, p, m, s, c)) /\ r[c] = h[i].entry.x.schema
    BY <1>4 DEF SaysResponse
  <2>3. g[i] = h[i]
    BY <1>2, <2>2 DEF OfType
  <2> QED BY <2>1, <2>2, <2>3
<1> QED BY <1>3, <1>4 DEF SaysResponse

LEMMA OneMoreAnswered ==
  ASSUME NEW h, NEW x, NEW g, NEW n, OneMore(h, x, g, n), NEW p, NEW m
  PROVE  \A i : i \in Answered(g, p, m)
                  <=> i \in Answered(h, p, m) \/ (i = n /\ OnMethod(x, p, m) /\ x.entry.response)
<1>1. \A i \in OfMethod(h, p, m) : i \in DOMAIN h
  BY DEF Added, OfPath, OfMethod
<1>2. g[n] = x /\ n \notin DOMAIN h /\ \A i \in DOMAIN h : g[i] = h[i]
  BY OneMoreEntry
<1>3. \A i : i \in OfMethod(g, p, m) <=> i \in OfMethod(h, p, m) \/ (i = n /\ OnMethod(x, p, m))
  BY OneMoreMethod
<1> QED BY <1>1, <1>2, <1>3 DEF Answered

LEMMA SameMethod ==
  ASSUME NEW h, NEW x, NEW g, NEW n, OneMore(h, x, g, n), NEW p, NEW m, NEW d,
         SaysMethod(d, h, p, m), ~OnMethod(x, p, m)
  PROVE  SaysMethod(d, g, p, m)
<1>1. OfMethod(g, p, m) = OfMethod(h, p, m) 
  BY OneMoreMethod
<1>2. Answered(g, p, m) = Answered(h, p, m)
  BY OneMoreAnswered
<1>3. \A i \in OfMethod(h, p, m) : g[i] = h[i]
  <2>1. OfMethod(h, p, m) \subseteq DOMAIN h
    BY DEF Added, OfPath, OfMethod
  <2> QED BY <2>1, SetsStay DEF Stays
<1>4. \A i \in Answered(h, p, m) : g[i] = h[i]
  BY <1>3 DEF Answered
<1>5. \E i \in OfMethod(g, p, m) :
        IsNewest(i, OfMethod(g, p, m)) /\ d.params = g[i].entry.x.params
  <2>1. PICK i \in OfMethod(h, p, m) :
          IsNewest(i, OfMethod(h, p, m)) /\ d.params = h[i].entry.x.params
    BY DEF SaysMethod, SaysResponses
  <2> QED BY <1>1, <1>3, <2>1
<1>6. DOMAIN d.responses = {g[i].entry.x.status : i \in Answered(g, p, m)}
  BY <1>2, <1>4 DEF SaysMethod, SaysResponses
<1>7. \A s \in DOMAIN d.responses : SaysResponse(d.responses[s], g, p, m, s)
  BY SameResponse DEF SaysMethod, SaysResponses, OnStatus
<1>8. d = [made |-> d.made, responses |-> d.responses, params |-> d.params]
  BY DEF SaysMethod, SaysResponses
<1> QED BY <1>5, <1>6, <1>7, <1>8 DEF SaysMethod, SaysResponses

LEMMA SamePath ==
  ASSUME NEW h, NEW x, NEW g, NEW n, OneMore(h, x, g, n), NEW p, NEW f,
         SaysPath(f, h, p), ~OnPath(x, p)
  PROVE  SaysPath(f, g, p)
<1>1. OfPath(g, p) = OfPath(h, p)
  BY OneMorePath
<1>2. \A i \in OfPath(h, p) : g[i] = h[i]
  <2>1. OfPath(h, p) \subseteq DOMAIN h
    BY DEF Added, OfPath
  <2> QED BY <2>1, SetsStay DEF Stays
<1>3. DOMAIN f = {g[i].entry.x.method : i \in OfPath(g, p)}
  BY <1>1, <1>2 DEF SaysPath
<1>4. \A m \in DOMAIN f : SaysMethod(f[m], g, p, m)
  BY SameMethod DEF SaysPath, OnMethod
<1> QED BY <1>3, <1>4 DEF SaysPath

LEMMA SameDocument ==
  ASSUME NEW h, NEW x, NEW g, NEW n, OneMore(h, x, g, n), NEW doc,
         Says(doc, h), x.entry.x.host # x.api
  PROVE  Says(doc, g)
<1>1. Added(g) = Added(h)
  BY OneMoreAdded
<1>2. \A i \in Added(h) : g[i] = h[i]
  <2>1. Added(h) \subseteq DOMAIN h
    BY DEF Added
  <2> QED BY <2>1, SetsStay DEF Stays
<1>3. DOMAIN doc.paths = {g[i].entry.x.path : i \in Added(g)}
  BY <1>1, <1>2 DEF Says
<1>4. \A p \in DOMAIN doc.paths : SaysPath(doc.paths[p], g, p)
  BY SamePath DEF Says, OnPath
<1>5. doc = [titles |-> doc.titles, servers |-> doc.servers, paths |-> doc.paths]
  BY DEF Says
<1> QED BY <1>3, <1>4, <1>5 DEF Says

\* What it is about is merged.
LEMMA AddsResponse ==
  ASSUME NEW h, NEW x, NEW g, NEW n, OneMore(h, x, g, n), NEW p, NEW m, NEW s, NEW r,
         SaysResponse(r, h, p, m, s), OnStatus(x, p, m, s)
  PROVE  SaysResponse(UpdateResponse(r, x.entry), g, p, m, s)
<1> DEFINE t == x.entry.x.ctype
<1>1. PICK q : q = UpdateResponse(r, x.entry)
  OBVIOUS
<1>2. /\ DOMAIN q = DOMAIN r \cup {t} /\ q[t] = x.entry.x.schema
      /\ \A c \in DOMAIN r : c # t => q[c] = r[c]
  <2>1. q = Put(r, t, x.entry.x.schema)
    BY <1>1 DEF UpdateResponse, NewContent
  <2> QED BY <2>1 DEF Put
<1>3. \A i : i \in OfStatus(g, p, m, s) <=> i \in OfStatus(h, p, m, s) \/ i = n
  BY OneMoreStatus
<1>4. /\ g[n] = x /\ n <= n
      /\ \A i \in OfStatus(h, p, m, s) : g[i] = h[i] /\ i <= n
  <2>1. OfStatus(h, p, m, s) \subseteq DOMAIN h
    BY SetsAreIn
  <2> QED BY <2>1, SetsStay DEF Stays
<1>5. DOMAIN q = {g[i].entry.x.ctype : i \in OfStatus(g, p, m, s)}
  BY <1>2, <1>3, <1>4 DEF SaysResponse
<1>6. ASSUME NEW c \in DOMAIN q
      PROVE  \E i \in OfType(g, p, m, s, c) :
               IsNewest(i, OfType(g, p, m, s, c)) /\ q[c] = g[i].entry.x.schema
  <2>1. CASE c = t
    <3>1. \A i : i \in OfType(g, p, m, s, c) <=> i \in OfType(h, p, m, s, c) \/ i = n
      BY <2>1, OneMoreType DEF OnType
    <3>2. \A i \in OfType(h, p, m, s, c) : i <= n
      BY <1>4 DEF OfType
    <3>3. n \in OfType(g, p, m, s, c) /\ IsNewest(n, OfType(g, p, m, s, c))
      BY <1>4, <3>1, <3>2 DEF IsNewest
    <3> QED BY <1>2, <1>4, <2>1, <3>3
  <2>2. CASE c # t
    <3>1. OfType(g, p, m, s, c) = OfType(h, p, m, s, c)
      <4>1. \A i : i \in OfType(g, p, m, s, c)
                     <=> i \in OfType(h, p, m, s, c) \/ (i = n /\ OnType(x, p, m, s, c))
        BY OneMoreType
      <4> QED BY <2>2, <4>1 DEF OnType
    <3>2. c \in DOMAIN r /\ q[c] = r[c]
      BY <1>2, <1>6, <2>2
    <3>3. PICK i \in OfType(h, p, m, s, c) :
            IsNewest(i, OfType(h, p, m, s, c)) /\ r[c] = h[i].entry.x.schema
      BY <3>2 DEF SaysResponse
    <3>4. g[i] = h[i]
      BY <1>4, <3>3 DEF OfType
    <3> QED BY <3>1, <3>2, <3>3, <3>4
  <2> QED BY <2>1, <2>2
<1> QED BY <1>1, <1>5, <1>6 DEF SaysResponse

LEMMA EmptyResponse ==
  ASSUME NEW h, NEW p, NEW m, NEW s, OfStatus(h, p, m, s) = {}
  PROVE  SaysResponse(Empty, h, p, m, s)
BY DEF SaysResponse, Empty

\* With the entry's response, if it has one, the responses of the method say one entry
\* more: it is merged into that of its status, or is the first of it.
AddResponse(R, e) ==
  IF ~e.response THEN R
  ELSE Put(R, e.x.status, IF e.x.status \in DOMAIN R THEN UpdateResponse(R[e.x.status], e)
                                                   ELSE NewResponse(e))

LEMMA AddsToResponses ==
  ASSUME NEW h, NEW x, NEW g, NEW n, OneMore(h, x, g, n), NEW p, NEW m, NEW R,
         SaysResponses(R, h, p, m), OnMethod(x, p, m)
  PROVE  SaysResponses(AddResponse(R, x.entry), g, p, m)
<1> DEFINE t == x.entry.x.status
<1>1. \A i : i \in Answered(g, p, m) <=> i \in Answered(h, p, m) \/ (i = n /\ x.entry.response)
  BY OneMoreAnswered
<1>2. /\ g[n] = x
      /\ \A i \in Answered(h, p, m) : g[i] = h[i]
  <2>1. Answered(h, p, m) \subseteq DOMAIN h
    BY SetsAreIn
  <2> QED BY <2>1, SetsStay DEF Stays
<1>3. CASE ~x.entry.response
  <2>1. Answered(g, p, m) = Answered(h, p, m)
    BY <1>1, <1>3
  <2>2. DOMAIN R = {g[i].entry.x.status : i \in Answered(g, p, m)}
    BY <1>2, <2>1 DEF SaysResponses
  <2>3. \A s \in DOMAIN R : SaysResponse(R[s], g, p, m, s)
    BY <1>3, SameResponse DEF SaysResponses, OnStatus
  <2> QED BY <1>3, <2>2, <2>3 DEF SaysResponses, AddResponse
<1>4. CASE x.entry.response
  <2>1. PICK q : q = AddResponse(R, x.entry)
    OBVIOUS
  <2>2. PICK v : v = IF t \in DOMAIN R THEN UpdateResponse(R[t], x.entry) ELSE NewResponse(x.entry)
    OBVIOUS
  <2>3. q = Put(R, t, v)
    BY <1>4, <2>1, <2>2 DEF AddResponse
  <2>4. /\ DOMAIN q = DOMAIN R \cup {t} /\ q[t] = v
        /\ \A s \in DOMAIN R : s # t => q[s] = R[s]
    BY <2>3 DEF Put
  <2>5. DOMAIN q = {g[i].entry.x.status : i \in Answered(g, p, m)}
    BY <1>1, <1>2, <1>4, <2>4 DEF SaysResponses
  <2>6. SaysResponse(v, g, p, m, t)
    <3>1. OnStatus(x, p, m, t)
      BY <1>4 DEF OnStatus
    <3>2. CASE t \in DOMAIN R
      <4>1. SaysResponse(R[t], h, p, m, t)
        BY <3>2 DEF SaysResponses
      <4> QED BY <2>2, <3>1, <3>2, <4>1, AddsResponse
    <3>3. CASE t \notin DOMAIN R
      <4>1. OfStatus(h, p, m, t) = {}
        BY <3>3 DEF SaysResponses, Answered, OfStatus
      <4>2. SaysResponse(UpdateResponse(Empty, x.entry), g, p, m, t)
        BY <3>1, <4>1, EmptyResponse, AddsResponse
      <4> QED BY <2>2, <3>3, <4>2 DEF UpdateResponse, NewResponse
    <3> QED BY <3>2, <3>3
  <2>7. ASSUME NEW s \in DOMAIN R, s # t
        PROVE  SaysResponse(R[s], g, p, m, s)
    <3>1. SaysResponse(R[s], h, p, m, s)
      BY <2>7 DEF SaysResponses
    <3>2. ~OnStatus(x, p, m, s)
      BY <2>7 DEF OnStatus
    <3> QED BY <3>1, <3>2, SameResponse
  <2> QED BY <2>1, <2>4, <2>5, <2>6, <2>7 DEF SaysResponses
<1> QED BY <1>3, <1>4

LEMMA EmptyResponses ==
  ASSUME NEW h, NEW p, NEW m, OfMethod(h, p, m) = {}
  PROVE  SaysResponses(Empty, h, p, m)
BY DEF SaysResponses, Empty, Answered

\* A method whose parameters are the entry's and whose responses are merged so.
LEMMA AddsToMethod ==
  ASSUME NEW h, NEW x, NEW g, NEW n, OneMore(h, x, g, n), NEW p, NEW m, NEW R,
         SaysResponses(R, h, p, m), OnMethod(x, p, m), NEW b
  PROVE  SaysMethod([made |-> b, responses |-> AddResponse(R, x.entry),
                     params |-> x.entry.x.params], g, p, m)
<1>1. PICK d : d = [made |-> b, responses |-> AddResponse(R, x.entry),
                    params |-> x.entry.x.params]
  OBVIOUS
<1>2. /\ d = [made |-> d.made, responses |-> d.responses, params |-> d.params]
      /\ d.responses = AddResponse(R, x.entry) /\ d.params = x.entry.x.params
  BY <1>1
<1>3. SaysResponses(d.responses, g, p, m)
  BY <1>2, AddsToResponses
<1>4. n \in OfMethod(g, p, m) /\ IsNewest(n, OfMethod(g, p, m)) /\ g[n] = x
  <2>1. \A i : i \in OfMethod(g, p, m) <=> i \in OfMethod(h, p, m) \/ i = n
    BY OneMoreMethod
  <2>2. OfMethod(h, p, m) \subseteq DOMAIN h
    BY DEF Added, OfPath, OfMethod
  <2>3. \A i \in OfMethod(h, p, m) : i <= n
    BY <2>2, SetsStay DEF Stays
  <2>4. n <= n /\ g[n] = x
    BY SetsStay
  <2> QED BY <2>1, <2>3, <2>4 DEF IsNewest
<1>5. SaysMethod(d, g, p, m)
  BY <1>2, <1>3, <1>4 DEF SaysMethod
<1> QED BY <1>1, <1>5

LEMMA AddsNewMethod ==
  ASSUME NEW h, NEW x, NEW g, NEW n, OneMore(h, x, g, n), NEW p, NEW m,
         OfMethod(h, p, m) = {}, OnMethod(x, p, m)
  PROVE  SaysMethod(NewMethod(x.entry), g, p, m)
<1>1. SaysResponses(Empty, h, p, m)
  BY EmptyResponses
<1>2. SaysMethod([made |-> TRUE, responses |-> AddResponse(Empty, x.entry),
                  params |-> x.entry.x.params], g, p, m)
  BY <1>1, AddsToMethod
<1>3. AddResponse(Empty, x.entry)
        = IF x.entry.response THEN Put(Empty, x.entry.x.status, NewResponse(x.entry)) ELSE Empty
  BY DEF AddResponse, Empty
<1> QED BY <1>2, <1>3 DEF NewMethod, NewParameters

LEMMA UpdatedMethod ==
  ASSUME NEW d, d = [made |-> d.made, responses |-> d.responses, params |-> d.params], NEW e
  PROVE  UpdateMethod(d, e) = [made |-> d.made, responses |-> AddResponse(d.responses, e),
                               params |-> e.x.params]
<1>1. UpdateMethod(d, e)
        = [d EXCEPT !.responses = AddResponse(d.responses, e), !.params = e.x.params]
  BY Zenon DEF UpdateMethod, AddResponse, NewParameters
<1>2. PICK R : R = AddResponse(d.responses, e)
  OBVIOUS
<1>3. PICK q : q = e.x.params
  OBVIOUS
<1>4. PICK w : w = [d EXCEPT !.responses = R]
  OBVIOUS
<1>5. w = [made |-> d.made, responses |-> R, params |-> d.params]
  BY <1>4
<1>6. [w EXCEPT !.params = q] = [made |-> d.made, responses |-> R, params |-> q]
  BY <1>5
<1>7. [d EXCEPT !.responses = R, !.params = q] = [w EXCEPT !.params = q]
  BY <1>4
<1> QED BY <1>1, <1>2, <1>3, <1>6, <1>7

LEMMA AddsToOldMethod ==
  ASSUME NEW h, NEW x, NEW g, NEW n, OneMore(h, x, g, n), NEW p, NEW m, NEW d,
         SaysMethod(d, h, p, m), OnMethod(x, p, m)
  PROVE  SaysMethod(UpdateMethod(d, x.entry), g, p, m)
<1>1. SaysResponses(d.responses, h, p, m)
  BY DEF SaysMethod
<1>2. SaysMethod([made |-> d.made, responses |-> AddResponse(d.responses, x.entry),
                  params |-> x.entry.x.params], g, p, m)
  BY <1>1, AddsToMethod
<1>3. d = [made |-> d.made, responses |-> d.responses, params |-> d.params]
  BY DEF SaysMethod
<1>4. UpdateMethod(d, x.entry) = [made |-> d.made, responses |-> AddResponse(d.responses, x.entry),
                                  params |-> x.entry.x.params]
  BY <1>3, UpdatedMethod
<1> QED BY <1>2, <1>4

\* So for a path, and for the document.
LEMMA AddsToPath ==
  ASSUME NEW h, NEW x, NEW g, NEW n, OneMore(h, x, g, n), NEW p, NEW f,
         SaysPath(f, h, p), OnPath(x, p)
  PROVE  SaysPath(UpdatePath(f, x.entry), g, p)
<1> DEFINE t == x.entry.x.method
<1>1. \A i : i \in OfPath(g, p) <=> i \in OfPath(h, p) \/ i = n
  BY OneMorePath
<1>2. /\ g[n] = x
      /\ \A i \in OfPath(h, p) : g[i] = h[i]
  <2>1. OfPath(h, p) \subseteq DOMAIN h
    BY SetsAreIn
  <2> QED BY <2>1, SetsStay DEF Stays
<1>3. PICK q : q = UpdatePath(f, x.entry)
  OBVIOUS
<1>4. PICK v : v = IF t \in DOMAIN f THEN UpdateMethod(f[t], x.entry) ELSE NewMethod(x.entry)
  OBVIOUS
<1>5. q = Put(f, t, v)
  BY <1>3, <1>4 DEF UpdatePath
<1>6. /\ DOMAIN q = DOMAIN f \cup {t} /\ q[t] = v
      /\ \A m \in DOMAIN f : m # t => q[m] = f[m]
  BY <1>5 DEF Put
<1>7. DOMAIN q = {g[i].entry.x.method : i \in OfPath(g, p)}
  BY <1>1, <1>2, <1>6 DEF SaysPath
<1>8. SaysMethod(v, g, p, t)
  <2>1. OnMethod(x, p, t)
    BY DEF OnMethod
  <2>2. CASE t \in DOMAIN f
    <3>1. SaysMethod(f[t], h, p, t)
      BY <2>2 DEF SaysPath
    <3> QED BY <1>4, <2>1, <2>2, <3>1, AddsToOldMethod
  <2>3. CASE t \notin DOMAIN f
    <3>1. OfMethod(h, p, t) = {}
      BY <2>3 DEF SaysPath, OfMethod
    <3> QED BY <1>4, <2>1, <2>3, <3>1, AddsNewMethod
  <2> QED BY <2>2, <2>3
<1>9. ASSUME NEW m \in DOMAIN f, m # t
      PROVE  SaysMethod(f[m], g, p, m)
  <2>1. SaysMethod(f[m], h, p, m)
    BY <1>9 DEF SaysPath
  <2>2. ~OnMethod(x, p, m)
    BY <1>9 DEF OnMethod
  <2> QED BY <2>1, <2>2, SameMethod
<1> QED BY <1>3, <1>6, <1>7, <1>8, <1>9 DEF SaysPath

LEMMA AddsNewPath ==
  ASSUME NEW h, NEW x, NEW g, NEW n, OneMore(h, x, g, n), NEW p,
         OfPath(h, p) = {}, OnPath(x, p)
  PROVE  SaysPath(NewPath(x.entry), g, p)
<1>1. SaysPath(Empty, h, p)
  BY DEF SaysPath, Empty
<1>2. SaysPath(UpdatePath(Empty, x.entry), g, p)
  BY <1>1, AddsToPath
<1>3. UpdatePath(Empty, x.entry) = NewPath(x.entry)
  BY DEF UpdatePath, NewPath, Empty
<1> QED BY <1>2, <1>3

LEMMA AddsToDocument ==
  ASSUME NEW h, NEW x, NEW g, NEW n, OneMore(h, x, g, n), NEW doc,
         Says(doc, h), x.entry.x.host = x.api
  PROVE  Says(AddPath(doc, x.entry), g)
<1> DEFINE t == x.entry.x.path
<1>1. \A i : i \in Added(g) <=> i \in Added(h) \/ i = n
  BY OneMoreAdded
<1>2. /\ g[n] = x
      /\ \A i \in Added(h) : g[i] = h[i]
  <2>1. Added(h) \subseteq DOMAIN h
    BY SetsAreIn
  <2> QED BY <2>1, SetsStay DEF Stays
<1>3. PICK f : f = doc.paths
  OBVIOUS
<1>4. PICK v : v = IF t \in DOMAIN f THEN UpdatePath(f[t], x.entry) ELSE NewPath(x.entry)
  OBVIOUS
<1>5. PICK q : q = Put(f, t, v)
  OBVIOUS
<1>6. AddPath(doc, x.entry) = [titles |-> doc.titles, servers |-> doc.servers, paths |-> q]
  <2>1. AddPath(doc, x.entry) = [doc EXCEPT !.paths = q]
    BY <1>3, <1>4, <1>5, Zenon DEF AddPath
  <2> QED BY <2>1 DEF Says
<1>7. /\ DOMAIN q = DOMAIN f \cup {t} /\ q[t] = v
      /\ \A p \in DOMAIN f : p # t => q[p] = f[p]
  BY <1>5 DEF Put
<1>8. DOMAIN q = {g[i].entry.x.path : i \in Added(g)}
  BY <1>1, <1>2, <1>3, <1>7 DEF Says
<1>9. SaysPath(v, g, t)
  <2>1. OnPath(x, t)
    BY DEF OnPath
  <2>2. CASE t \in DOMAIN f
    <3>1. SaysPath(f[t], h, t)
      BY <1>3, <2>2 DEF Says
    <3> QED BY <1>4, <2>1, <2>2, <3>1, AddsToPath
  <2>3. CASE t \notin DOMAIN f
    <3>1. OfPath(h, t) = {}
      BY <1>3, <2>3 DEF Says, OfPath
    <3> QED BY <1>4, <2>1, <2>3, <3>1, AddsNewPath
  <2> QED BY <2>2, <2>3
<1>10. ASSUME NEW p \in DOMAIN f, p # t
       PROVE  SaysPath(f[p], g, p)
  <2>1. SaysPath(f[p], h, p)
    BY <1>3, <1>10 DEF Says
  <2>2. ~OnPath(x, p)
    BY <1>10 DEF OnPath
  <2> QED BY <2>1, <2>2, SamePath
<1> QED BY <1>6, <1>7, <1>8, <1>9, <1>10 DEF Says

\* A document without paths says the empty history; the title and the servers do not
\* matter, nor does what the decoder makes of an empty map.
LEMMA NothingSaid ==
  ASSUME NEW a
  PROVE  Says(NewSpec(a), <<>>) /\ NewSpec(a).paths = Empty
BY DEF Says, NewSpec, Empty, Added

LEMMA UpdatedSays ==
  ASSUME NEW doc, NEW h, Says(doc, h), NEW a
  PROVE  Says(UpdateSpec(doc, a), h) /\ UpdateSpec(doc, a).paths = doc.paths
<1>1. PICK b : b = IF a \in Range(doc.servers) THEN doc.servers ELSE Append(doc.servers, a)
  OBVIOUS
<1>2. doc = [titles |-> doc.titles, servers |-> doc.servers, paths |-> doc.paths]
  BY DEF Says
<1>3. UpdateSpec(doc, a) = [doc EXCEPT !.titles = doc.titles + 1, !.servers = b]
  BY <1>1, Zenon DEF UpdateSpec
<1>4. UpdateSpec(doc, a) = [titles |-> doc.titles + 1, servers |-> b, paths |-> doc.paths]
  BY <1>2, <1>3
<1> QED BY <1>4 DEF Says

\* What the decoder makes of a method.
DecodedMethod(d) == [d EXCEPT !.made = d.responses # Empty]

LEMMA DecodedMethodSays ==
  ASSUME NEW d, NEW h, NEW p, NEW m, SaysMethod(d, h, p, m)
  PROVE  /\ SaysMethod(DecodedMethod(d), h, p, m)
         /\ ~DecodedMethod(d).made => Answered(h, p, m) = {}
<1>1. d = [made |-> d.made, responses |-> d.responses, params |-> d.params]
  BY DEF SaysMethod
<1>2. PICK b : b = (d.responses # Empty)
  OBVIOUS
<1>3. PICK v : v = DecodedMethod(d)
  OBVIOUS
<1>4. v = [d EXCEPT !.made = b]
  BY <1>2, <1>3, Zenon DEF DecodedMethod
<1>5. v = [made |-> b, responses |-> d.responses, params |-> d.params]
  BY <1>1, <1>4
<1>6. SaysMethod(v, h, p, m)
  BY <1>5 DEF SaysMethod
<1>7. ~v.made => d.responses = Empty
  BY <1>2, <1>5
<1>8. ~v.made => Answered(h, p, m) = {}
  BY <1>7 DEF SaysMethod, SaysResponses, Empty
<1> QED BY <1>3, <1>6, <1>8

LEMMA DecodedPaths ==
  ASSUME NEW doc, doc = [titles |-> doc.titles, servers |-> doc.servers, paths |-> doc.paths]
  PROVE  /\ Decoded(doc) = [titles |-> doc.titles, servers |-> doc.servers,
                            paths |-> Decoded(doc).paths]
         /\ DOMAIN Decoded(doc).paths = DOMAIN doc.paths
         /\ \A p \in DOMAIN doc.paths :
              /\ DOMAIN Decoded(doc).paths[p] = DOMAIN doc.paths[p]
              /\ \A m \in DOMAIN doc.paths[p] :
                   Decoded(doc).paths[p][m] = DecodedMethod(doc.paths[p][m])
<1>1. PICK q : q = [p \in DOMAIN doc.paths |-> [m \in DOMAIN doc.paths[p] |->
                      DecodedMethod(doc.paths[p][m])]]
  OBVIOUS
<1>2. Decoded(doc) = [doc EXCEPT !.paths = q]
  BY <1>1, Zenon DEF Decoded, DecodedMethod
<1>4. Decoded(doc) = [titles |-> doc.titles, servers |-> doc.servers, paths |-> q]
  BY <1>2
<1>5. /\ DOMAIN q = DOMAIN doc.paths
      /\ \A p \in DOMAIN doc.paths :
           /\ DOMAIN q[p] = DOMAIN doc.paths[p]
           /\ \A m \in DOMAIN doc.paths[p] : q[p][m] = DecodedMethod(doc.paths[p][m])
  BY <1>1
<1>6. Decoded(doc).paths = q
  BY <1>4
<1> QED BY <1>4, <1>5, <1>6

\* The method was documented, but never with a response; the maps that are nil.
Unanswered(h, p, m) ==
  OfMethod(h, p, m) # {} /\ \A i \in OfMethod(h, p, m) : ~h[i].entry.response
NilMaps(doc, h) ==
  \A p \in DOMAIN doc.paths :
    \A m \in DOMAIN doc.paths[p] : doc.paths[p][m].made \/ Unanswered(h, p, m)

\* The decoder leaves a map nil only where no response was documented.
LEMMA DecodedSays ==
  ASSUME NEW doc, NEW h, Says(doc, h)
  PROVE  Says(Decoded(doc), h) /\ NilMaps(Decoded(doc), h)
<1>1. PICK b : b = Decoded(doc)
  OBVIOUS
<1>2. /\ b = [titles |-> doc.titles, servers |-> doc.servers, paths |-> b.paths]
      /\ DOMAIN b.paths = DOMAIN doc.paths
      /\ \A p \in DOMAIN doc.paths :
           /\ DOMAIN b.paths[p] = DOMAIN doc.paths[p]
           /\ \A m \in DOMAIN doc.paths[p] : b.paths[p][m] = DecodedMethod(doc.paths[p][m])
  BY <1>1, DecodedPaths DEF Says
<1>3. ASSUME NEW p \in DOMAIN b.paths, NEW m \in DOMAIN b.paths[p]
      PROVE  /\ SaysMethod(b.paths[p][m], h, p, m)
             /\ b.paths[p][m].made \/ Unanswered(h, p, m)
  <2>1. p \in DOMAIN doc.paths /\ m \in DOMAIN doc.paths[p]
    BY <1>2, <1>3
  <2>2. SaysMethod(doc.paths[p][m], h, p, m)
    BY <2>1 DEF Says, SaysPath
  <2>3. b.paths[p][m] = DecodedMethod(doc.paths[p][m])
    BY <1>2, <2>1
  <2>4. /\ SaysMethod(b.paths[p][m], h, p, m)
        /\ ~b.paths[p][m].made => Answered(h, p, m) = {}
    BY <2>2, <2>3, DecodedMethodSays
  <2>5. Answered(h, p, m) = {} => Unanswered(h, p, m)
    BY <2>2 DEF SaysMethod, Answered, Unanswered
  <2> QED BY <2>4, <2>5
<1>4. ASSUME NEW p \in DOMAIN b.paths
      PROVE  SaysPath(b.paths[p], h, p)
  <2>1. DOMAIN b.paths[p] = {h[i].entry.x.method : i \in OfPath(h, p)}
    BY <1>2, <1>4 DEF Says, SaysPath
  <2> QED BY <1>3, <2>1 DEF SaysPath
<1>5. DOMAIN b.paths = {h[i].entry.x.path : i \in Added(h)}
  BY <1>2 DEF Says
<1>6. b = [titles |-> b.titles, servers |-> b.servers, paths |-> b.paths]
  BY <1>2
<1>7. Says(b, h)
  BY <1>4, <1>5, <1>6 DEF Says
<1>8. NilMaps(b, h)
  BY <1>3 DEF NilMaps
<1> QED BY <1>1, <1>7, <1>8

\* A method that is added has its map of responses.
LEMMA AddedMaps ==
  ASSUME NEW doc, NEW k, Says(doc, k), NEW h, NilMaps(doc, h), NEW e
  PROVE  NilMaps(AddPath(doc, e), h)
<1> DEFINE t == e.x.path
           w == e.x.method
<1>1. PICK f : f = doc.paths
  OBVIOUS
<1>2. PICK v : v = IF t \in DOMAIN f THEN UpdatePath(f[t], e) ELSE NewPath(e)
  OBVIOUS
<1>3. PICK q : q = Put(f, t, v)
  OBVIOUS
<1>4. AddPath(doc, e).paths = q
  <2>1. AddPath(doc, e) = [doc EXCEPT !.paths = q]
    BY <1>1, <1>2, <1>3, Zenon DEF AddPath
  <2> QED BY <2>1 DEF Says
<1>5. /\ DOMAIN q = DOMAIN f \cup {t} /\ q[t] = v
      /\ \A p \in DOMAIN f : p # t => q[p] = f[p]
  BY <1>3 DEF Put
<1>6. ASSUME NEW m \in DOMAIN v
      PROVE  v[m].made \/ Unanswered(h, t, m)
  <2>0. NewMethod(e).made
    BY DEF NewMethod
  <2>1. CASE t \notin DOMAIN f
    <3>1. v = Put(Empty, w, NewMethod(e))
      BY <1>2, <2>1 DEF NewPath
    <3>2. m = w /\ v[m] = NewMethod(e)
      BY <1>6, <3>1 DEF Put, Empty
    <3> QED BY <2>0, <3>2
  <2>2. CASE t \in DOMAIN f
    <3>1. PICK r : r = f[t]
      OBVIOUS
    <3>2. PICK z : z = IF w \in DOMAIN r THEN UpdateMethod(r[w], e) ELSE NewMethod(e)
      OBVIOUS
    <3>3. v = Put(r, w, z)
      BY <1>2, <2>2, <3>1, <3>2 DEF UpdatePath
    <3>4. \A y \in DOMAIN r : r[y].made \/ Unanswered(h, t, y)
      BY <1>1, <2>2, <3>1 DEF NilMaps
    <3>5. z.made \/ Unanswered(h, t, w)
      <4>1. CASE w \in DOMAIN r
        <5>1. SaysMethod(r[w], k, t, w)
          BY <1>1, <2>2, <3>1, <4>1 DEF Says, SaysPath
        <5>2. r[w] = [made |-> r[w].made, responses |-> r[w].responses, params |-> r[w].params]
          BY <5>1 DEF SaysMethod
        <5>3. UpdateMethod(r[w], e).made = r[w].made
          BY <5>2 DEF UpdateMethod
        <5> QED BY <3>2, <3>4, <4>1, <5>3
      <4>2. CASE w \notin DOMAIN r
        BY <2>0, <3>2, <4>2
      <4> QED BY <4>1, <4>2
    <3>6. (m = w /\ v[m] = z) \/ (m \in DOMAIN r /\ v[m] = r[m])
      BY <1>6, <3>3 DEF Put
    <3> QED BY <3>4, <3>5, <3>6
  <2> QED BY <2>1, <2>2
<1>7. ASSUME NEW p \in DOMAIN q, NEW m \in DOMAIN q[p]
      PROVE  q[p][m].made \/ Unanswered(h, p, m)
  BY <1>1, <1>5, <1>6, <1>7 DEF NilMaps
<1> QED BY <1>4, <1>7 DEF NilMaps

-----------------------------------------------------------------------------
(* The types of a document *)

LEMMA EntryParts ==
  ASSUME NEW e \in Entry
  PROVE  /\ e.x.path \in {x.path : x \in Exchanges} /\ e.x.method \in {x.method : x \in Exchanges}
         /\ e.x.params \in {x.params : x \in Exchanges} /\ e.x.status \in {x.status : x \in Exchanges}
         /\ e.x.ctype \in {x.ctype : x \in Exchanges} /\ e.x.schema \in {x.schema : x \in Exchanges}
<1>1. e.x \in Exchanges
  BY DEF Entry
<1> QED BY <1>1

LEMMA ResponseTyped ==
  ASSUME NEW r, ResponseOK(r), NEW e \in Entry
  PROVE  ResponseOK(UpdateResponse(r, e))
<1>1. PICK q : q = UpdateResponse(r, e)
  OBVIOUS
<1>2. q = Put(r, e.x.ctype, e.x.schema)
  BY <1>1 DEF UpdateResponse, NewContent
<1>3. /\ DOMAIN q = DOMAIN r \cup {e.x.ctype}
      /\ \A y \in DOMAIN q : q[y] = e.x.schema \/ (y \in DOMAIN r /\ q[y] = r[y])
  BY <1>2 DEF Put
<1>4. ResponseOK(q)
  BY <1>3, EntryParts DEF ResponseOK
<1> QED BY <1>1, <1>4

LEMMA NewResponseTyped ==
  ASSUME NEW e \in Entry
  PROVE  ResponseOK(NewResponse(e))
<1>1. ResponseOK(Empty)
  BY DEF ResponseOK, Empty
<1> QED BY <1>1, ResponseTyped DEF UpdateResponse, NewResponse

ResponsesOK(R) ==
  /\ DOMAIN R \subseteq {x.status : x \in Exchanges}
  /\ \A k \in DOMAIN R : ResponseOK(R[k])

LEMMA ResponsesTyped ==
  ASSUME NEW R, ResponsesOK(R), NEW e \in Entry
  PROVE  ResponsesOK(AddResponse(R, e))
<1> DEFINE t == e.x.status
<1>1. PICK q : q = AddResponse(R, e)
  OBVIOUS
<1>2. CASE ~e.response
  BY <1>1, <1>2 DEF AddResponse
<1>3. CASE e.response
  <2>1. PICK v : v = IF t \in DOMAIN R THEN UpdateResponse(R[t], e) ELSE NewResponse(e)
    OBVIOUS
  <2>2. q = Put(R, t, v)
    BY <1>1, <1>3, <2>1 DEF AddResponse
  <2>3. ResponseOK(v)
    BY <2>1, ResponseTyped, NewResponseTyped DEF ResponsesOK
  <2>4. /\ DOMAIN q = DOMAIN R \cup {t}
        /\ \A y \in DOMAIN q : q[y] = v \/ (y \in DOMAIN R /\ q[y] = R[y])
    BY <2>2 DEF Put
  <2>5. ResponsesOK(q)
    BY <2>3, <2>4, EntryParts DEF ResponsesOK
  <2> QED BY <1>1, <2>5
<1> QED BY <1>2, <1>3

LEMMA MethodTyped ==
  ASSUME NEW b \in BOOLEAN, NEW R, ResponsesOK(R), NEW e \in Entry
  PROVE  MethodOK([made |-> b, responses |-> AddResponse(R, e), params |-> e.x.params])
<1>1. PICK d : d = [made |-> b, responses |-> AddResponse(R, e), params |-> e.x.params]
  OBVIOUS
<1>2. /\ d = [made |-> d.made, responses |-> d.responses, params |-> d.params]
      /\ d.made = b /\ d.responses = AddResponse(R, e) /\ d.params = e.x.params
  BY <1>1
<1>3. ResponsesOK(d.responses)
  BY <1>2, ResponsesTyped
<1>4. MethodOK(d)
  BY <1>2, <1>3, EntryParts DEF MethodOK, ResponsesOK
<1> QED BY <1>1, <1>4

LEMMA NewMethodTyped ==
  ASSUME NEW e \in Entry
  PROVE  MethodOK(NewMethod(e))
<1>1. ResponsesOK(Empty)
  BY DEF ResponsesOK, Empty
<1>2. MethodOK([made |-> TRUE, responses |-> AddResponse(Empty, e), params |-> e.x.params])
  BY <1>1, MethodTyped
<1>3. AddResponse(Empty, e) = IF e.response THEN Put(Empty, e.x.status, NewResponse(e)) ELSE Empty
  BY DEF AddResponse, Empty
<1> QED BY <1>2, <1>3 DEF NewMethod, NewParameters

LEMMA UpdateMethodTyped ==
  ASSUME NEW d, MethodOK(d), NEW e \in Entry
  PROVE  MethodOK(UpdateMethod(d, e))
<1>1. d = [made |-> d.made, responses |-> d.responses, params |-> d.params] /\ d.made \in BOOLEAN
  BY DEF MethodOK
<1>2. ResponsesOK(d.responses)
  BY DEF MethodOK, ResponsesOK
<1>3. MethodOK([made |-> d.made, responses |-> AddResponse(d.responses, e), params |-> e.x.params])
  BY <1>1, <1>2, MethodTyped
<1> QED BY <1>1, <1>3, UpdatedMethod

LEMMA PathTyped ==
  ASSUME NEW f, PathOK(f), NEW e \in Entry
  PROVE  PathOK(UpdatePath(f, e))
<1> DEFINE t == e.x.method
<1>1. PICK q : q = UpdatePath(f, e)
  OBVIOUS
<1>2. PICK v : v = IF t \in DOMAIN f THEN UpdateMethod(f[t], e) ELSE NewMethod(e)
  OBVIOUS
<1>3. q = Put(f, t, v)
  BY <1>1, <1>2 DEF UpdatePath
<1>4. MethodOK(v)
  BY <1>2, UpdateMethodTyped, NewMethodTyped DEF PathOK
<1>5. /\ DOMAIN q = DOMAIN f \cup {t}
      /\ \A y \in DOMAIN q : q[y] = v \/ (y \in DOMAIN f /\ q[y] = f[y])
  BY <1>3 DEF Put
<1>6. PathOK(q)
  BY <1>4, <1>5, EntryParts DEF PathOK
<1> QED BY <1>1, <1>6

LEMMA NewPathTyped ==
  ASSUME NEW e \in Entry
  PROVE  PathOK(NewPath(e))
<1>1. PathOK(Empty)
  BY DEF PathOK, Empty
<1>2. PathOK(UpdatePath(Empty, e))
  BY <1>1, PathTyped
<1>3. UpdatePath(Empty, e) = NewPath(e)
  BY DEF UpdatePath, NewPath, Empty
<1> QED BY <1>2, <1>3

LEMMA DocumentTyped ==
  ASSUME NEW doc, DocumentOK(doc), NEW e \in Entry
  PROVE  DocumentOK(AddPath(doc, e))
<1> DEFINE t == e.x.path
<1>1. PICK f : f = doc.paths
  OBVIOUS
<1>2. PICK v : v = IF t \in DOMAIN f THEN UpdatePath(f[t], e) ELSE NewPath(e)
  OBVIOUS
<1>3. PICK q : q = Put(f, t, v)
  OBVIOUS
<1>4. PICK b : b = AddPath(doc, e)
  OBVIOUS
<1>5. b = [titles |-> doc.titles, servers |-> doc.servers, paths |-> q]
  <2>1. b = [doc EXCEPT !.paths = q]
    BY <1>1, <1>2, <1>3, <1>4, Zenon DEF AddPath
  <2>2. doc = [titles |-> doc.titles, servers |-> doc.servers, paths |-> doc.paths]
    BY DEF DocumentOK
  <2> QED BY <2>1, <2>2
<1>6. PathOK(v)
  BY <1>1, <1>2, PathTyped, NewPathTyped DEF DocumentOK
<1>7. /\ DOMAIN q = DOMAIN f \cup {t}
      /\ \A y \in DOMAIN q : q[y] = v \/ (y \in DOMAIN f /\ q[y] = f[y])
  BY <1>3 DEF Put
<1>8. /\ DOMAIN q \subseteq {x.path : x \in Exchanges}
      /\ \A p \in DOMAIN q : PathOK(q[p])
  BY <1>1, <1>6, <1>7, EntryParts DEF DocumentOK
<1>9. DocumentOK(b)
  BY <1>5, <1>8 DEF DocumentOK
<1> QED BY <1>4, <1>9

LEMMA UpdatedTyped ==
  ASSUME NEW doc, DocumentOK(doc), NEW a \in Apis
  PROVE  DocumentOK(UpdateSpec(doc, a))
<1>1. PICK b : b = IF a \in Range(doc.servers) THEN doc.servers ELSE Append(doc.servers, a)
  OBVIOUS
<1>2. doc = [titles |-> doc.titles, servers |-> doc.servers, paths |-> doc.paths]
  BY DEF DocumentOK
<1>3. UpdateSpec(doc, a) = [doc EXCEPT !.titles = doc.titles + 1, !.servers = b]
  BY <1>1, Zenon DEF UpdateSpec
<1>4. UpdateSpec(doc, a) = [titles |-> doc.titles + 1, servers |-> b, paths |-> doc.paths]
  BY <1>2, <1>3
<1>5. b \in Seq(Apis) /\ doc.titles + 1 \in Nat
  BY <1>1 DEF DocumentOK
<1> QED BY <1>4, <1>5 DEF DocumentOK

LEMMA DecodedTyped ==
  ASSUME NEW doc, DocumentOK(doc)
  PROVE  DocumentOK(Decoded(doc))
<1>1. PICK b : b = Decoded(doc)
  OBVIOUS
<1>2. /\ b = [titles |-> doc.titles, servers |-> doc.servers, paths |-> b.paths]
      /\ DOMAIN b.paths = DOMAIN doc.paths
      /\ \A p \in DOMAIN doc.paths :
           /\ DOMAIN b.paths[p] = DOMAIN doc.paths[p]
           /\ \A m \in DOMAIN doc.paths[p] : b.paths[p][m] = DecodedMethod(doc.paths[p][m])
  BY <1>1, DecodedPaths DEF DocumentOK
<1>3. ASSUME NEW d, MethodOK(d)
      PROVE  MethodOK(DecodedMethod(d))
  <2>1. d = [made |-> d.made, responses |-> d.responses, params |-> d.params]
    BY <1>3 DEF MethodOK
  <2>2. PICK c : c = (d.responses # Empty)
    OBVIOUS
  <2>3. DecodedMethod(d) = [d EXCEPT !.made = c]
    BY <2>2, Zenon DEF DecodedMethod
  <2>4. DecodedMethod(d) = [made |-> c, responses |-> d.responses, params |-> d.params]
    BY <2>1, <2>3
  <2>5. c \in BOOLEAN
    BY <2>2
  <2> QED BY <1>3, <2>4, <2>5 DEF MethodOK
<1>4. \A p \in DOMAIN b.paths : PathOK(b.paths[p])
  <2> SUFFICES ASSUME NEW p \in DOMAIN b.paths PROVE PathOK(b.paths[p])
    OBVIOUS
  <2>1. PathOK(doc.paths[p])
    BY <1>2 DEF DocumentOK
  <2> QED BY <1>2, <1>3, <2>1 DEF PathOK
<1>5. DocumentOK(b)
  BY <1>2, <1>4 DEF DocumentOK
<1> QED BY <1>1, <1>5

\* What is left of a document without some of its paths.
LEMMA RestrictedTyped ==
  ASSUME NEW doc, DocumentOK(doc), NEW P, P \subseteq DOMAIN doc.paths
  PROVE  DocumentOK([doc EXCEPT !.paths = Restrict(@, P)])
<1>1. PICK q : q = Restrict(doc.paths, P)
  OBVIOUS
<1>2. DOMAIN q = P /\ \A p \in P : q[p] = doc.paths[p]
  BY <1>1 DEF Restrict
<1>3. doc = [titles |-> doc.titles, servers |-> doc.servers, paths |-> doc.paths]
  BY DEF DocumentOK
<1>4. [doc EXCEPT !.paths = Restrict(@, P)] = [titles |-> doc.titles, servers |-> doc.servers,
                                               paths |-> q]
  BY <1>1, <1>3
<1> QED BY <1>2, <1>4 DEF DocumentOK

-----------------------------------------------------------------------------
(* The inductive invariant *)

\* What the runs have given, with the entries that the present one has added.
Past == given \o [i \in 1..at |-> [entry |-> list[i], api |-> api]]

\* How far a run has come; a file that it has listed is there, or was removed since.
Reading ==
  /\ pc # "idle" => result = "none"
  /\ pc = "read" => at = 0
  /\ pc = "add" => \A i \in 1..at : list[i].request
  /\ ~file.exists => given = <<>>
  /\ todo \subseteq DOMAIN dir \cup vanished

\* The file says what the runs have given, the document of a run what it has added, too.
Summed ==
  sound =>
    /\ file.exists /\ ~file.cut => Says(file.doc, given)
    /\ pc = "add" => Says(spec, Past) /\ NilMaps(spec, given)

IInv == TypeOK /\ Reading /\ Summed /\ PanicExplained

LEMMA NoSpecTyped == DocumentOK(NoSpec)
<1>1. /\ NoSpec = [titles |-> 0, servers |-> <<>>, paths |-> Empty]
      /\ DOMAIN Empty = {}
  BY DEF NoSpec, Empty
<1>2. /\ NoSpec.titles = 0 /\ NoSpec.servers = <<>> /\ NoSpec.paths = Empty
  BY <1>1
<1> QED BY <1>1, <1>2 DEF DocumentOK

LEMMA NewSpecTyped == \A a \in Apis : DocumentOK(NewSpec(a))
<1> SUFFICES ASSUME NEW a \in Apis PROVE DocumentOK(NewSpec(a))
  OBVIOUS
<1>1. PICK d : d = NewSpec(a)
  OBVIOUS
<1>2. /\ d = [titles |-> 1, servers |-> <<a>>, paths |-> Empty]
      /\ DOMAIN Empty = {}
  BY <1>1 DEF NewSpec, Empty
<1>3. d.titles = 1 /\ d.servers = <<a>> /\ d.paths = Empty
  BY <1>2
<1>4. DocumentOK(d)
  BY <1>2, <1>3 DEF DocumentOK
<1> QED BY <1>1, <1>4

LEMMA InitInv == Init => IInv
<1> SUFFICES ASSUME Init PROVE IInv
  OBVIOUS
<1>1. /\ dir = Empty /\ pc = "idle" /\ api \in Apis /\ todo = {} /\ list = <<>> /\ at = 0
      /\ runs = 0 /\ result = "none" /\ given = <<>> /\ sound = TRUE /\ vanished = {}
  BY DEF Init
<1>2. /\ file = [exists |-> FALSE, doc |-> NoSpec, tail |-> FALSE, cut |-> FALSE]
      /\ spec = NoSpec
  BY DEF Init
<1>3. MaxRuns \in Nat
  BY SwaggergenAssumption
<1>4. DOMAIN dir = {}
  BY <1>1 DEF Empty
<1>5. TypeOK
  <2>1. list \in Seq(Entry) /\ DOMAIN list = {} /\ at \in 0..Len(list)
    BY <1>1
  <2>2. given \in Seq([entry : Entry, api : Apis]) /\ runs \in 0..MaxRuns
    BY <1>1, <1>3
  <2>3. PICK d : d = NoSpec
    OBVIOUS
  <2>4. file = [exists |-> FALSE, doc |-> d, tail |-> FALSE, cut |-> FALSE] /\ DocumentOK(d)
    BY <1>2, <2>3, NoSpecTyped
  <2>5. /\ file = [exists |-> file.exists, doc |-> file.doc, tail |-> file.tail, cut |-> file.cut]
        /\ file.exists \in BOOLEAN /\ file.tail \in BOOLEAN /\ file.cut \in BOOLEAN
        /\ DocumentOK(file.doc)
    BY <2>4
  <2>6. DocumentOK(spec)
    BY <1>2, NoSpecTyped
  <2> QED BY <1>1, <1>4, <2>1, <2>2, <2>5, <2>6 DEF TypeOK
<1>6. Reading /\ Summed /\ PanicExplained
  <2>1. ~file.exists
    BY <1>2
  <2>2. Reading
    BY <1>1 DEF Reading
  <2>3. Summed
    BY <1>1, <2>1 DEF Summed
  <2>4. PanicExplained
    BY <1>1 DEF PanicExplained
  <2> QED BY <2>2, <2>3, <2>4
<1> QED BY <1>5, <1>6 DEF IInv

\* Types, action by action.
LEMMA EntryMade ==
  ASSUME NEW k, NEW x \in Exchanges
  PROVE  [request |-> k = "request", response |-> k = "response", x |-> x] \in Entry
BY DEF Entry

\* A step that changes the directory alone.
LEMMA TypeDirectory ==
  ASSUME TypeOK, UNCHANGED <<file, pc, api, todo, list, at, spec, runs, result, given, sound>>,
         DOMAIN dir' \subseteq Files, \A n \in DOMAIN dir' : dir'[n] \in Entry,
         vanished' \subseteq Files
  PROVE  TypeOK'
BY DEF TypeOK

LEMMA TypeLogFile ==
  ASSUME TypeOK, NEW n \in Files, NEW k, NEW x \in Exchanges, LogFile(n, k, x)
  PROVE  TypeOK'
<1>1. PICK e : e = [request |-> k = "request", response |-> k = "response", x |-> x]
  OBVIOUS
<1>2. e \in Entry
  BY <1>1, EntryMade
<1>3. dir' = Put(dir, n, e) /\ vanished' = vanished
      /\ UNCHANGED <<file, pc, api, todo, list, at, spec, runs, result, given, sound>>
  BY <1>1 DEF LogFile
<1>4. DOMAIN dir' \subseteq Files /\ \A y \in DOMAIN dir' : dir'[y] \in Entry
  BY <1>2, <1>3 DEF Put, TypeOK
<1> QED BY <1>3, <1>4, TypeDirectory DEF TypeOK

LEMMA TypeLogResponse ==
  ASSUME TypeOK, NEW n \in Files, LogResponse(n)
  PROVE  TypeOK'
<1>1. dir' = [dir EXCEPT ![n].response = TRUE] /\ n \in DOMAIN dir /\ dir[n] \in Entry
      /\ vanished' = vanished
      /\ UNCHANGED <<file, pc, api, todo, list, at, spec, runs, result, given, sound>>
  BY DEF LogResponse, TypeOK
<1>2. [dir[n] EXCEPT !.response = TRUE] \in Entry
  BY <1>1 DEF Entry
<1>3. DOMAIN dir' \subseteq Files /\ \A y \in DOMAIN dir' : dir'[y] \in Entry
  BY <1>1, <1>2 DEF TypeOK
<1> QED BY <1>1, <1>3, TypeDirectory DEF TypeOK

LEMMA TypeVanish ==
  ASSUME TypeOK, NEW n \in Files, Vanish(n)
  PROVE  TypeOK'
<1>1. dir' = Restrict(dir, DOMAIN dir \ {n}) /\ vanished' = vanished \cup {n}
      /\ UNCHANGED <<file, pc, api, todo, list, at, spec, runs, result, given, sound>>
  BY DEF Vanish
<1>2. DOMAIN dir' \subseteq Files /\ \A y \in DOMAIN dir' : dir'[y] \in Entry
  BY <1>1 DEF Restrict, TypeOK
<1>3. vanished' \subseteq Files
  BY <1>1 DEF TypeOK
<1> QED BY <1>1, <1>2, <1>3, TypeDirectory

LEMMA TypeStart ==
  ASSUME TypeOK, NEW a \in Apis, Start(a)
  PROVE  TypeOK'
<1>1. /\ pc' = "read" /\ api' = a /\ todo' = DOMAIN dir /\ list' = <<>> /\ at' = 0
      /\ runs < MaxRuns /\ runs' = runs + 1 /\ result' = "none" /\ spec' = NoSpec
      /\ dir' = dir /\ file' = file /\ given' = given /\ sound' = sound /\ vanished' = vanished
  BY DEF Start
<1>2. MaxRuns \in Nat
  BY SwaggergenAssumption
<1>3. list' \in Seq(Entry) /\ DOMAIN list' = {} /\ at' \in 0..Len(list')
  BY <1>1
<1>4. runs' \in 0..MaxRuns
  <2>1. runs \in 0..MaxRuns
    BY DEF TypeOK
  <2> QED BY <1>1, <1>2, <2>1
<1>5. DocumentOK(spec')
  BY <1>1, NoSpecTyped
<1> QED BY <1>1, <1>3, <1>4, <1>5 DEF TypeOK

\* A step of a run that leaves these alone.
LEMMA TypeFrame ==
  ASSUME TypeOK, UNCHANGED <<dir, file, api, runs, given, vanished>>,
         pc' \in {"idle", "read", "add"}, result' \in {"none", "ok", "fatal", "panic"},
         todo' \subseteq todo, sound' \in BOOLEAN, DocumentOK(spec'),
         list' \in Seq(Entry), \A i \in DOMAIN list' : list'[i].request \/ list'[i].response,
         at' \in 0..Len(list')
  PROVE  TypeOK'
BY DEF TypeOK

LEMMA TypeReadLog ==
  ASSUME TypeOK, ReadLog
  PROVE  TypeOK'
<1>1. /\ UNCHANGED <<dir, file, api, runs, given, vanished>>
      /\ spec' = spec /\ at' = at /\ sound' = sound /\ pc = "read"
  BY DEF ReadLog
<1>2. PICK n \in todo :
        \/ /\ n \in DOMAIN dir
           /\ dir[n].request \/ dir[n].response
           /\ list' = Append(list, dir[n])
           /\ todo' = todo \ {n}
           /\ UNCHANGED <<pc, result>>
        \/ /\ \E r \in {"fatal", "panic"} : Ends(r)
           /\ UNCHANGED <<list, todo>>
  BY DEF ReadLog
<1>3. /\ list \in Seq(Entry) /\ at \in 0..Len(list) /\ DocumentOK(spec)
      /\ \A i \in DOMAIN list : list[i].request \/ list[i].response
      /\ result \in {"none", "ok", "fatal", "panic"} /\ sound \in BOOLEAN
      /\ \A y \in DOMAIN dir : dir[y] \in Entry
  BY DEF TypeOK
<1>4. CASE /\ n \in DOMAIN dir
           /\ dir[n].request \/ dir[n].response
           /\ list' = Append(list, dir[n])
           /\ todo' = todo \ {n}
           /\ UNCHANGED <<pc, result>>
  <2>1. PICK e \in Entry : e = dir[n]
    BY <1>3, <1>4
  <2>2. list' = Append(list, e) /\ (e.request \/ e.response)
    BY <1>4, <2>1
  <2>3. list' \in Seq(Entry) /\ Len(list') = Len(list) + 1 /\ Len(list) \in Nat
    BY <1>3, <2>2
  <2>4. \A i \in DOMAIN list' : (i \in DOMAIN list /\ list'[i] = list[i]) \/ list'[i] = e
    BY <1>3, <2>2
  <2>5. at \in 0..Len(list')
    BY <1>3, <2>3
  <2>6. \A i \in DOMAIN list' : list'[i].request \/ list'[i].response
    BY <1>3, <2>2, <2>4
  <2>7. todo' \subseteq todo /\ pc' = pc /\ result' = result
    BY <1>4
  <2> QED BY <1>1, <1>3, <2>3, <2>5, <2>6, <2>7, TypeFrame
<1>5. CASE (\E r \in {"fatal", "panic"} : Ends(r)) /\ UNCHANGED <<list, todo>>
  <2>1. pc' = "idle" /\ result' \in {"fatal", "panic"} /\ list' = list /\ todo' = todo
    BY <1>5 DEF Ends
  <2> QED BY <1>1, <1>3, <2>1, TypeFrame
<1> QED BY <1>2, <1>4, <1>5

LEMMA TypeCreateSpec ==
  ASSUME TypeOK, CreateSpec
  PROVE  TypeOK'
<1>1. /\ UNCHANGED <<dir, file, api, runs, given, vanished>> /\ UNCHANGED <<todo, list, at>>
      /\ pc' \in {"idle", "add"} /\ result' \in {result, "fatal", "panic"}
      /\ sound' \in {sound, FALSE}
  BY DEF CreateSpec, Ends
<1>2. /\ list \in Seq(Entry) /\ at \in 0..Len(list) /\ api \in Apis
      /\ \A i \in DOMAIN list : list[i].request \/ list[i].response
      /\ result \in {"none", "ok", "fatal", "panic"} /\ sound \in BOOLEAN
      /\ DocumentOK(spec) /\ DocumentOK(file.doc)
  BY DEF TypeOK
<1>3. PICK d : d = Decoded(file.doc)
  OBVIOUS
<1>4. DocumentOK(d) /\ DOMAIN d.paths = DOMAIN file.doc.paths
  BY <1>2, <1>3, DecodedTyped, DecodedPaths DEF DocumentOK
<1>5. \/ spec' = spec
      \/ spec' = NewSpec(api)
      \/ spec' = UpdateSpec(d, api)
      \/ \E P \in SUBSET DOMAIN file.doc.paths :
           spec' = UpdateSpec([d EXCEPT !.paths = Restrict(@, P)], api)
  BY <1>3, Zenon DEF CreateSpec
<1>6. DocumentOK(spec')
  <2>1. CASE \E P \in SUBSET DOMAIN file.doc.paths :
               spec' = UpdateSpec([d EXCEPT !.paths = Restrict(@, P)], api)
    <3>1. PICK P \in SUBSET DOMAIN d.paths : spec' = UpdateSpec([d EXCEPT !.paths = Restrict(@, P)], api)
      BY <1>4, <2>1, Zenon
    <3>2. DocumentOK([d EXCEPT !.paths = Restrict(@, P)])
      BY <1>4, RestrictedTyped
    <3> QED BY <1>2, <3>1, <3>2, UpdatedTyped
  <2> QED BY <1>2, <1>4, <1>5, <2>1, NewSpecTyped, UpdatedTyped
<1> QED BY <1>1, <1>2, <1>6, TypeFrame

LEMMA TypeCreateSpecLoop ==
  ASSUME TypeOK, CreateSpecLoop
  PROVE  TypeOK'
<1>1. /\ UNCHANGED <<dir, file, api, runs, given, vanished>> /\ UNCHANGED <<todo, list, sound>>
      /\ pc' \in {"idle", pc} /\ result' \in {result, "panic"}
      /\ at < Len(list) /\ at' = at + 1
      /\ spec' = spec \/ spec' = AddPath(spec, list[at + 1])
  BY DEF CreateSpecLoop, Ends
<1>2. /\ list \in Seq(Entry) /\ at \in 0..Len(list)
      /\ \A i \in DOMAIN list : list[i].request \/ list[i].response
      /\ result \in {"none", "ok", "fatal", "panic"} /\ sound \in BOOLEAN
      /\ pc \in {"idle", "read", "add"} /\ DocumentOK(spec)
  BY DEF TypeOK
<1>3. at' \in 0..Len(list') /\ list[at + 1] \in Entry
  <2>1. Len(list) \in Nat /\ list' = list
    BY <1>1, <1>2
  <2> QED BY <1>1, <1>2, <2>1
<1>4. DocumentOK(spec')
  BY <1>1, <1>2, <1>3, DocumentTyped
<1> QED BY <1>1, <1>2, <1>3, <1>4, TypeFrame

\* The types of the file once a run has written to it.
LEMMA TypeWritten ==
  ASSUME TypeOK, NEW t \in BOOLEAN, NEW c \in BOOLEAN,
         file' = [exists |-> TRUE, doc |-> spec, tail |-> t, cut |-> c]
  PROVE  /\ file' = [exists |-> file'.exists, doc |-> file'.doc, tail |-> file'.tail,
                     cut |-> file'.cut]
         /\ file'.exists \in BOOLEAN /\ file'.tail \in BOOLEAN /\ file'.cut \in BOOLEAN
         /\ DocumentOK(file'.doc)
<1>1. DocumentOK(spec)
  BY DEF TypeOK
<1> QED BY <1>1

LEMMA TypeWriteSpec ==
  ASSUME TypeOK, WriteSpec
  PROVE  TypeOK'
<1>1. PICK s : s = [i \in DOMAIN list |-> [entry |-> list[i], api |-> api]]
  OBVIOUS
<1>2. given \in Seq(History) /\ list \in Seq(Entry) /\ api \in Apis
  BY DEF TypeOK, History
<1>3. s \in Seq(History)
  <2>1. \A i \in DOMAIN list : [entry |-> list[i], api |-> api] \in History
    BY <1>2 DEF History
  <2>2. DOMAIN list = 1..Len(list) /\ Len(list) \in Nat
    BY <1>2
  <2> QED BY <1>1, <2>1, <2>2
<1>4. given' = given \o s
  BY <1>1 DEF WriteSpec
<1>5. given' \in Seq(History)
  BY <1>2, <1>3, <1>4
<1>6. /\ pc' = "idle" /\ result' = "ok"
      /\ UNCHANGED <<dir, api, todo, list, at, spec, runs, sound, vanished>>
      /\ \E t \in BOOLEAN : file' = [exists |-> TRUE, doc |-> spec, tail |-> t, cut |-> FALSE]
  BY DEF WriteSpec, Ends
<1>7. /\ file' = [exists |-> file'.exists, doc |-> file'.doc, tail |-> file'.tail,
                   cut |-> file'.cut]
      /\ file'.exists \in BOOLEAN /\ file'.tail \in BOOLEAN /\ file'.cut \in BOOLEAN
      /\ DocumentOK(file'.doc)
  BY <1>6, TypeWritten
<1> QED BY <1>5, <1>6, <1>7 DEF TypeOK, History

LEMMA TypeStopped ==
  ASSUME TypeOK, WriteSpecFails \/ Killed
  PROVE  TypeOK'
<1>1. /\ pc' = "idle" /\ result' = "fatal"
      /\ UNCHANGED <<dir, api, todo, list, at, spec, runs, given, sound, vanished>>
      /\ \/ file' = file
         \/ \E t \in BOOLEAN : file' = [exists |-> TRUE, doc |-> spec, tail |-> t, cut |-> TRUE]
  BY DEF WriteSpecFails, Killed, Ends
<1>2. CASE file' = file
  BY <1>1, <1>2 DEF TypeOK
<1>3. CASE \E t \in BOOLEAN : file' = [exists |-> TRUE, doc |-> spec, tail |-> t, cut |-> TRUE]
  <2>1. /\ file' = [exists |-> file'.exists, doc |-> file'.doc, tail |-> file'.tail,
                     cut |-> file'.cut]
        /\ file'.exists \in BOOLEAN /\ file'.tail \in BOOLEAN /\ file'.cut \in BOOLEAN
        /\ DocumentOK(file'.doc)
    BY <1>3, TypeWritten
  <2> QED BY <1>1, <2>1 DEF TypeOK
<1> QED BY <1>1, <1>2, <1>3

LEMMA TypeStep == TypeOK /\ [Next]_vars => TypeOK'
<1> SUFFICES ASSUME TypeOK, [Next]_vars PROVE TypeOK'
  OBVIOUS
<1>1. CASE UNCHANGED vars
  BY <1>1 DEF vars, TypeOK
<1>2. CASE \E n \in Files, k \in {"request", "response", "other"}, x \in Exchanges : LogFile(n, k, x)
  BY <1>2, TypeLogFile
<1>3. CASE \E n \in Files : LogResponse(n) \/ Vanish(n)
  BY <1>3, TypeLogResponse, TypeVanish
<1>4. CASE \E a \in Apis : Start(a)
  BY <1>4, TypeStart
<1>5. CASE Generate
  BY <1>5, TypeReadLog, TypeCreateSpec, TypeCreateSpecLoop, TypeWriteSpec, TypeStopped DEF Generate
<1> QED BY <1>1, <1>2, <1>3, <1>4, <1>5 DEF Next

\* The history and the document of a run move together.
LEMMA PastIsGiven ==
  ASSUME TypeOK, at = 0
  PROVE  Past = given
<1>1. [i \in 1..at |-> [entry |-> list[i], api |-> api]] = <<>>
  OBVIOUS
<1>2. given \in Seq(History)
  BY DEF TypeOK, History
<1> QED BY <1>1, <1>2 DEF Past

LEMMA PastGrows ==
  ASSUME TypeOK, at < Len(list), at' = at + 1, UNCHANGED <<given, list, api>>,
         NEW x, x = [entry |-> list[at + 1], api |-> api]
  PROVE  OneMore(Past, x, Past', Len(Past) + 1)
<1>1. PICK s : s = [i \in 1..at |-> [entry |-> list[i], api |-> api]]
  OBVIOUS
<1>2. PICK r : r = [i \in 1..(at + 1) |-> [entry |-> list[i], api |-> api]]
  OBVIOUS
<1>3. Past = given \o s /\ Past' = given \o r
  BY <1>1, <1>2 DEF Past
<1>4. /\ given \in Seq(History) /\ list \in Seq(Entry) /\ at \in 0..Len(list) /\ api \in Apis
      /\ Len(list) \in Nat /\ DOMAIN list = 1..Len(list)
  BY DEF TypeOK, History
<1>5. \A i \in 1..(at + 1) : [entry |-> list[i], api |-> api] \in History
  <2>1. \A i \in 1..(at + 1) : list[i] \in Entry
    BY <1>4
  <2> QED BY <1>4, <2>1 DEF History
<1>6. at \in Nat /\ at + 1 \in Nat
  BY <1>4
<1>7. s \in Seq(History) /\ r \in Seq(History) /\ x \in History
  BY <1>1, <1>2, <1>5, <1>6
<1>8. r = Append(s, x)
  <2>1. Len(s) = at /\ Len(r) = at + 1
    BY <1>1, <1>2, <1>6
  <2>2. \A i \in 1..at : r[i] = s[i]
    BY <1>1, <1>2, <1>6
  <2>3. r[at + 1] = x
    BY <1>2, <1>6
  <2>4. Len(Append(s, x)) = at + 1 /\ Append(s, x) \in Seq(History)
    BY <1>7, <2>1
  <2>5. \A i \in 1..at + 1 : r[i] = Append(s, x)[i]
    BY <1>6, <1>7, <2>1, <2>2, <2>3
  <2> QED BY <1>7, <2>1, <2>4, <2>5
<1>9. Past' = Append(Past, x) /\ Past \in Seq(History)
  BY <1>3, <1>4, <1>7, <1>8
<1> QED BY <1>7, <1>9 DEF OneMore

LEMMA PastIsWhole ==
  ASSUME TypeOK, at = Len(list)
  PROVE  Past = given \o [i \in DOMAIN list |-> [entry |-> list[i], api |-> api]]
<1>1. DOMAIN list = 1..at
  BY DEF TypeOK
<1> QED BY <1>1 DEF Past

\* What does not touch a run, or ends it without writing.
LEMMA PanicStays ==
  ASSUME PanicExplained, UNCHANGED <<file, todo, list, at, given>>, vanished \subseteq vanished',
         sound' = sound \/ sound' = FALSE, result' = result \/ result' # "panic"
  PROVE  PanicExplained'
BY DEF PanicExplained, OfMethod, OfPath, Added

LEMMA LoggedInv ==
  ASSUME IInv, UNCHANGED <<file, pc, api, todo, list, at, spec, runs, result, given, sound>>,
         DOMAIN dir \cup vanished \subseteq DOMAIN dir' \cup vanished', vanished \subseteq vanished'
  PROVE  (Reading /\ Summed /\ PanicExplained)'
<1>1. Past' = Past /\ (NilMaps(spec, given))' = NilMaps(spec, given)
  BY DEF Past, NilMaps, Unanswered, OfMethod, OfPath, Added
<1>2. Reading'
  BY DEF IInv, Reading
<1>3. Summed'
  BY <1>1 DEF IInv, Summed
<1>4. PanicExplained'
  BY PanicStays DEF IInv
<1> QED BY <1>2, <1>3, <1>4

LEMMA StartInv ==
  ASSUME IInv, NEW a \in Apis, Start(a)
  PROVE  (Reading /\ Summed /\ PanicExplained)'
<1>1. /\ pc' = "read" /\ list' = <<>> /\ at' = 0 /\ result' = "none" /\ todo' = DOMAIN dir
      /\ UNCHANGED <<dir, file, given, sound>>
  BY DEF Start
<1>2. Reading'
  BY <1>1 DEF IInv, Reading
<1>3. Summed'
  BY <1>1 DEF IInv, Summed
<1>4. PanicExplained'
  BY <1>1 DEF PanicExplained
<1> QED BY <1>2, <1>3, <1>4

LEMMA ReadLogInv ==
  ASSUME IInv, ReadLog
  PROVE  (Reading /\ Summed /\ PanicExplained)'
<1>1. pc = "read" /\ UNCHANGED <<dir, file, api, at, spec, runs, given, sound, vanished>>
  BY DEF ReadLog
<1>2. PICK n \in todo :
        /\ \A k \in todo : n <= k
        /\ \/ n \in DOMAIN dir /\ todo' = todo \ {n} /\ UNCHANGED <<pc, result>>
           \/ n \in DOMAIN dir /\ Ends("fatal") /\ UNCHANGED todo
           \/ /\ n \notin DOMAIN dir
              /\ \E r \in {"fatal", "panic"} : Ends(r)
              /\ UNCHANGED todo
  BY DEF ReadLog
<1>3. result = "none" /\ todo \subseteq DOMAIN dir \cup vanished
  BY <1>1 DEF IInv, Reading
<1>4. /\ pc' \in {"read", "idle"} /\ todo' \subseteq todo
      /\ pc' # "idle" => result' = "none"
      /\ result' = "panic" => n \notin DOMAIN dir /\ todo' = todo
  BY <1>1, <1>2, <1>3 DEF Ends
<1>5. Reading'
  BY <1>1, <1>3, <1>4 DEF IInv, Reading
<1>6. Summed'
  BY <1>1, <1>4 DEF IInv, Summed
<1>7. PanicExplained'
  <2> SUFFICES ASSUME result' = "panic" PROVE \E y \in todo' \cap vanished' : \A k \in todo' : y <= k
    BY DEF PanicExplained
  <2>1. n \in todo' \cap vanished' /\ \A k \in todo' : n <= k
    BY <1>1, <1>2, <1>3, <1>4
  <2> QED BY <2>1
<1> QED BY <1>5, <1>6, <1>7

LEMMA CreateSpecInv ==
  ASSUME IInv, CreateSpec
  PROVE  (Reading /\ Summed /\ PanicExplained)'
<1>1. /\ pc = "read" /\ at = 0 /\ TypeOK /\ result = "none"
      /\ UNCHANGED <<dir, file, api, todo, list, at, runs, given, vanished>>
  BY DEF CreateSpec, IInv, Reading
<1>3. \A i \in 1..at' : list'[i].request
  BY <1>1
<1>4. Reading'
  <2>1. pc' # "read" /\ (pc' # "idle" => result' = result)
    BY DEF CreateSpec, Ends
  <2> QED BY <1>1, <1>3, <2>1 DEF IInv, Reading
<1>5. Past' = given
  <2>1. PICK s : s = [i \in 1..at' |-> [entry |-> list'[i], api |-> api']]
    OBVIOUS
  <2>2. s = <<>>
    BY <1>1, <2>1
  <2>3. given \in Seq(History)
    BY <1>1 DEF TypeOK, History
  <2>4. Past' = given \o s
    BY <1>1, <2>1, Zenon DEF Past
  <2> QED BY <2>2, <2>3, <2>4
<1>6. NilMaps(spec, given)' <=> NilMaps(spec', given)
  BY <1>1 DEF NilMaps, Unanswered, OfMethod, OfPath, Added
<1>7. CASE ~file.exists /\ spec' = NewSpec(api) /\ pc' = "add" /\ UNCHANGED <<result, sound>>
  <2>1. given = <<>>
    BY <1>7 DEF IInv, Reading
  <2>2. Says(spec', given) /\ spec'.paths = Empty
    BY <1>7, <2>1, NothingSaid
  <2>3. NilMaps(spec', given)
    BY <2>2 DEF NilMaps, Empty
  <2>4. Summed'
    BY <1>1, <1>5, <1>6, <1>7, <2>2, <2>3 DEF Summed
  <2> QED BY <1>1, <1>4, <1>7, <2>4, PanicStays DEF IInv
<1>8. CASE file.exists /\ ~Damaged /\ spec' = UpdateSpec(Decoded(file.doc), api) /\ pc' = "add"
           /\ UNCHANGED <<result, sound>>
  <2>1. CASE sound
    <3>1. Says(file.doc, given)
      BY <1>8, <2>1 DEF IInv, Summed, Damaged
    <3>2. Says(Decoded(file.doc), given) /\ NilMaps(Decoded(file.doc), given)
      BY <3>1, DecodedSays
    <3>3. Says(spec', given) /\ spec'.paths = Decoded(file.doc).paths
      BY <1>8, <3>2, UpdatedSays
    <3>4. NilMaps(spec', given)
      BY <3>2, <3>3 DEF NilMaps
    <3>5. (file.exists /\ ~file.cut => Says(file.doc, given))'
      BY <1>1, <3>1
    <3>6. Summed'
      BY <1>5, <1>6, <3>3, <3>4, <3>5 DEF Summed
    <3> QED BY <1>1, <1>4, <1>8, <3>6, PanicStays DEF IInv
  <2>2. CASE ~sound
    BY <1>1, <1>4, <1>8, <2>2, PanicStays DEF IInv, Summed
  <2> QED BY <2>1, <2>2
<1>9. CASE \E r \in {"fatal"} \cup (IF file.cut THEN {"panic"} ELSE {}) :
             Ends(r) /\ UNCHANGED <<spec, sound>>
  <2>1. pc' = "idle" /\ sound' = sound /\ (result' = "fatal" \/ file.cut)
    BY <1>9 DEF Ends
  <2>2. Summed'
    BY <1>1, <2>1 DEF IInv, Summed
  <2>3. PanicExplained'
    BY <1>1, <2>1 DEF PanicExplained
  <2> QED BY <1>4, <2>2, <2>3
<1>10. CASE pc' = "add" /\ sound' = FALSE /\ UNCHANGED result
  BY <1>1, <1>4, <1>10, PanicStays DEF IInv, Summed
<1>11. \/ ~file.exists /\ spec' = NewSpec(api) /\ pc' = "add" /\ UNCHANGED <<result, sound>>
       \/ file.exists /\ ~Damaged /\ spec' = UpdateSpec(Decoded(file.doc), api) /\ pc' = "add"
           /\ UNCHANGED <<result, sound>>
       \/ \E r \in {"fatal"} \cup (IF file.cut THEN {"panic"} ELSE {}) :
             Ends(r) /\ UNCHANGED <<spec, sound>>
       \/ pc' = "add" /\ sound' = FALSE /\ UNCHANGED result
  BY Zenon DEF CreateSpec
<1> QED BY <1>7, <1>8, <1>9, <1>10, <1>11

LEMMA CreateSpecLoopInv ==
  ASSUME IInv, CreateSpecLoop
  PROVE  (Reading /\ Summed /\ PanicExplained)'
<1>1. /\ pc = "add" /\ at < Len(list) /\ at' = at + 1 /\ TypeOK /\ result = "none"
      /\ UNCHANGED <<dir, file, api, todo, list, runs, given, sound, vanished>>
  BY DEF CreateSpecLoop, IInv, Reading
<1>3. PICK e : e = list[at + 1]
  OBVIOUS
<1>4. \/ /\ e.request => e.x.host = api /\ AssignsToNilMap(spec, e)
         /\ Ends("panic") /\ UNCHANGED spec
      \/ /\ e.request /\ UNCHANGED <<pc, result>>
         /\ spec' = IF e.x.host = api THEN AddPath(spec, e) ELSE spec
  BY <1>3 DEF CreateSpecLoop
<1>5. /\ at \in 0..Len(list) /\ Len(list) \in Nat /\ DOMAIN list = 1..Len(list)
      /\ list \in Seq(Entry)
  BY <1>1 DEF TypeOK
<1>6. at + 1 \in DOMAIN list
  BY <1>1, <1>5
<1>7. (file.exists /\ ~file.cut /\ sound => Says(file.doc, given))'
  BY <1>1 DEF IInv, Summed
<1>8. CASE /\ e.request => e.x.host = api /\ AssignsToNilMap(spec, e)
           /\ Ends("panic") /\ UNCHANGED spec
  <2>1. pc' = "idle" /\ result' = "panic"
    BY <1>8 DEF Ends
  <2>2. Reading'
    BY <1>1, <2>1 DEF IInv, Reading
  <2>3. Summed'
    BY <1>7, <2>1 DEF Summed
  <2>4. at' \in DOMAIN list' /\ list'[at'] = e
    BY <1>1, <1>3, <1>6
  <2>5. CASE ~e.request
    <3>1. PanicExplained'
      BY <2>4, <2>5 DEF PanicExplained
    <3> QED BY <2>2, <2>3, <3>1
  <2>6. CASE e.request
    <3>1. sound => NilMaps(spec, given)
      BY <1>1 DEF IInv, Summed
    <3>2. e.response /\ (sound => Unanswered(given, e.x.path, e.x.method))
      BY <1>8, <2>6, <3>1 DEF AssignsToNilMap, NilMaps
    <3>3. sound' => /\ OfMethod(given, e.x.path, e.x.method)' # {}
                    /\ \A i \in OfMethod(given, e.x.path, e.x.method)' : ~given'[i].entry.response
      BY <1>1, <3>2 DEF Unanswered, OfMethod, OfPath, Added
    <3>4. PanicExplained'
      BY <2>4, <3>2, <3>3 DEF PanicExplained
    <3> QED BY <2>2, <2>3, <3>4
  <2> QED BY <2>5, <2>6
<1>9. CASE /\ e.request /\ UNCHANGED <<pc, result>>
           /\ spec' = IF e.x.host = api THEN AddPath(spec, e) ELSE spec
  <2>1. Reading'
    <3>1. \A i \in 1..at' : i \in 1..at \/ i = at + 1
      BY <1>1, <1>5
    <3>2. \A i \in 1..at' : list'[i].request
      BY <1>1, <1>3, <1>9, <3>1 DEF IInv, Reading
    <3> QED BY <1>1, <1>9, <3>2 DEF IInv, Reading
  <2>2. PanicExplained'
    BY <1>1, <1>9 DEF PanicExplained
  <2>3. CASE ~sound
    BY <1>1, <2>1, <2>2, <2>3 DEF Summed
  <2>4. CASE sound
    <3>1. PICK x : x = [entry |-> e, api |-> api]
      OBVIOUS
    <3>2. OneMore(Past, x, Past', Len(Past) + 1)
      BY <1>1, <1>3, <3>1, PastGrows
    <3>3. Says(spec, Past) /\ NilMaps(spec, given)
      BY <1>1, <2>4 DEF IInv, Summed
    <3>4. NilMaps(spec', given) /\ Says(spec', Past')
      <4>1. x.entry = e /\ x.api = api
        BY <3>1
      <4>2. CASE e.x.host = api
        <5>1. spec' = AddPath(spec, e)
          BY <1>9, <4>2
        <5>2. NilMaps(AddPath(spec, e), given)
          BY <3>3, AddedMaps
        <5>3. Says(AddPath(spec, x.entry), Past')
          BY <3>2, <3>3, <4>1, <4>2, AddsToDocument
        <5> QED BY <4>1, <5>1, <5>2, <5>3
      <4>3. CASE e.x.host # api
        <5>1. spec' = spec
          BY <1>9, <4>3
        <5>2. Says(spec, Past')
          BY <3>2, <3>3, <4>1, <4>3, SameDocument
        <5> QED BY <3>3, <5>1, <5>2
      <4> QED BY <4>2, <4>3
    <3>5. NilMaps(spec, given)' <=> NilMaps(spec', given)
      BY <1>1 DEF NilMaps, Unanswered, OfMethod, OfPath, Added
    <3>6. Summed'
      BY <1>7, <3>4, <3>5 DEF Summed
    <3> QED BY <2>1, <2>2, <3>6
  <2> QED BY <2>3, <2>4
<1> QED BY <1>4, <1>8, <1>9

LEMMA WriteSpecInv ==
  ASSUME IInv, WriteSpec
  PROVE  (Reading /\ Summed /\ PanicExplained)'
<1>1. /\ pc = "add" /\ at = Len(list) /\ TypeOK
      /\ pc' = "idle" /\ result' = "ok"
      /\ UNCHANGED <<dir, api, todo, list, at, spec, runs, sound, vanished>>
  BY DEF WriteSpec, Ends, IInv
<1>2. file'.exists = TRUE /\ file'.doc = spec
  BY DEF WriteSpec
<1>3. given' = Past
  BY <1>1, PastIsWhole DEF WriteSpec
<1>5. Reading'
  BY <1>1, <1>2 DEF IInv, Reading
<1>6. Summed'
  <2>1. sound => Says(file'.doc, given')
    BY <1>1, <1>2, <1>3 DEF IInv, Summed
  <2> QED BY <1>1, <2>1 DEF Summed
<1>7. PanicExplained'
  BY <1>1 DEF PanicExplained
<1> QED BY <1>5, <1>6, <1>7

LEMMA StoppedInv ==
  ASSUME IInv, WriteSpecFails \/ Killed
  PROVE  (Reading /\ Summed /\ PanicExplained)'
<1>1. /\ pc' = "idle" /\ result' = "fatal"
      /\ UNCHANGED <<dir, api, todo, list, at, spec, runs, given, sound, vanished>>
  BY DEF WriteSpecFails, Killed, Ends
<1>2. file' = file \/ (file'.exists = TRUE /\ file'.cut = TRUE)
  BY DEF WriteSpecFails, Killed
<1>4. Reading'
  BY <1>1, <1>2 DEF IInv, Reading
<1>5. Summed'
  BY <1>1, <1>2 DEF IInv, Summed
<1>6. PanicExplained'
  BY <1>1 DEF PanicExplained
<1> QED BY <1>4, <1>5, <1>6

LEMMA StepInv == IInv /\ [Next]_vars => IInv'
<1> SUFFICES ASSUME IInv, [Next]_vars PROVE IInv'
  OBVIOUS
<1>0. TypeOK'
  BY TypeStep DEF IInv
<1>1. CASE UNCHANGED vars
  BY <1>0, <1>1, LoggedInv DEF IInv, vars
<1>2. ASSUME NEW n \in Files, NEW k \in {"request", "response", "other"}, NEW x \in Exchanges,
             LogFile(n, k, x)
      PROVE  IInv'
  <2>1. /\ UNCHANGED <<file, pc, api, todo, list, at, spec, runs, result, given, sound>>
        /\ DOMAIN dir' = DOMAIN dir \cup {n} /\ vanished' = vanished
    BY <1>2 DEF LogFile, Put
  <2> QED BY <1>0, <2>1, LoggedInv DEF IInv
<1>3. ASSUME NEW n \in Files, LogResponse(n) \/ Vanish(n)
      PROVE  IInv'
  <2>1. /\ UNCHANGED <<file, pc, api, todo, list, at, spec, runs, result, given, sound>>
        /\ DOMAIN dir \cup vanished \subseteq DOMAIN dir' \cup vanished'
        /\ vanished \subseteq vanished'
    BY <1>3 DEF LogResponse, Vanish, Restrict
  <2> QED BY <1>0, <2>1, LoggedInv DEF IInv
<1>4. ASSUME NEW a \in Apis, Start(a)
      PROVE  IInv'
  BY <1>0, <1>4, StartInv DEF IInv
<1>5. CASE Generate
  BY <1>0, <1>5, ReadLogInv, CreateSpecInv, CreateSpecLoopInv, WriteSpecInv, StoppedInv
     DEF Generate, IInv
<1> QED BY <1>1, <1>2, <1>3, <1>4, <1>5 DEF Next

-----------------------------------------------------------------------------
(* The theorems *)

\* The invariant, for any number of files, entries and runs, and any exchanges.
THEOREM SwaggerInvariant == Spec => []IInv
<1> QED BY InitInv, StepInv, PTL DEF Spec

\* Every variable keeps its type, the output file and the document among them; an entry that
\* was read holds a request or a response.
THEOREM SwaggerTyped == Spec => []TypeOK
<1>1. IInv => TypeOK
  BY DEF IInv
<1> QED BY <1>1, SwaggerInvariant, PTL

\* A document that is whole is the sum of the runs that ended well, whatever they read and
\* however the others failed (AddPath, UpdatePath, UpdateMethod, UpdateResponse, UpdateContent).
THEOREM DocumentIsSum == Spec => []SumOfTheRuns
<1>1. IInv => SumOfTheRuns
  <2> SUFFICES ASSUME IInv, file.exists, sound, ~Damaged PROVE Documents(file.doc, given)
    BY DEF SumOfTheRuns
  <2>1. Says(file.doc, given)
    BY DEF IInv, Summed, Damaged
  <2>2. given \in Seq(History)
    BY DEF IInv, TypeOK, History
  <2> QED BY <2>1, <2>2, SaysDocuments
<1> QED BY <1>1, SwaggerInvariant, PTL

\* A run panics for the four reasons named only, in ReadLog, CreateSpec and AddPath.
THEOREM PanicsAreExplained == Spec => []PanicExplained
<1>1. IInv => PanicExplained
  BY DEF IInv
<1> QED BY <1>1, SwaggerInvariant, PTL

=============================================================================
