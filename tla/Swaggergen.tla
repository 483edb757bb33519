------------------------------ MODULE Swaggergen ------------------------------
(***************************************************************************)
(* cmd/swaggergen and pkg/swaggergen: one run reads every file of the log  *)
(* directory, merges what it reads into the OpenAPI document it finds in   *)
(* the output file, and writes the document back over it.  The proxy may   *)
(* be logging into the directory meanwhile, its files may be removed, and  *)
(* the command is run again and again on the same two.  A file of the      *)
(* directory is told apart by what parses in it; an exchange by what the   *)
(* document keeps of it.                                                   *)
(***************************************************************************)
EXTENDS Integers, Sequences, Functions

CONSTANTS
  NFiles,     \* bound: files in the log directory
  Exchanges,  \* the exchanges that the proxy may log
  Apis,       \* the values given to -api-host
  MaxRuns,    \* bound: runs of the command
  Kill,       \* a run may be killed, or find no room on the disk
  Removes     \* files of the log directory may be removed

Files == 1..NFiles    \* in the order of the walk

ASSUME SwaggergenAssumption ==
  /\ NFiles \in Nat
  /\ MaxRuns \in Nat
  /\ Kill \in BOOLEAN
  /\ Removes \in BOOLEAN
  /\ \A x \in Exchanges : DOMAIN x = {"host", "path", "method", "params",
                                      "status", "ctype", "schema"}

VARIABLES
  dir,     \* the log directory: what parses in each of its files
  file,    \* the output file
  pc,      \* where the run is: "idle", "read" or "add"
  api,     \* options.api
  todo,    \* the files that the walk has still to visit
  list,    \* Generator.RequestResponseList
  at,      \* the entries of it that CreateSpec is done with
  spec,    \* Generator.Spec
  runs,    \* runs started
  result,  \* how the last run ended: "none" so far, "ok", "fatal" or "panic"
  given,   \* ghost: the entries of the runs that ended well, each with the run's api
  sound,   \* ghost: no run has gone on from a damaged file
  vanished \* ghost: the files that were removed

vars == <<dir, file, pc, api, todo, list, at, spec, runs, result, given, sound, vanished>>

-----------------------------------------------------------------------------
(* The document.  A map of the code is a function whose domain is its keys. *)

Put(f, k, v) == [x \in DOMAIN f \cup {k} |-> IF x = k THEN v ELSE f[x]]
Empty == [k \in {} |-> k]

\* The entry of a pair, or of a request that has no response (yet).
NewParameters(e) == e.x.params
NewContent(e) == e.x.schema
NewResponse(e) == Put(Empty, e.x.ctype, NewContent(e))

\* UpdateContent replaces the schema by the one of the latest body.
UpdateResponse(r, e) == Put(r, e.x.ctype, NewContent(e))

\* Mutant of NewMethod: the map of responses is made with the first response.
NewMethodLazy(e) ==
  [made |-> e.response,
   responses |-> IF e.response THEN Put(Empty, e.x.status, NewResponse(e)) ELSE Empty,
   params |-> NewParameters(e)]

\* made: the map Responses is not nil.
NewMethod(e) ==
  [made |-> TRUE,
   responses |-> IF e.response THEN Put(Empty, e.x.status, NewResponse(e)) ELSE Empty,
   params |-> NewParameters(e)]

\* Mutant of UpdateMethod: the parameters of all requests are collected.
UpdateMethodCollects(m, e) ==
  [m EXCEPT !.responses = IF ~e.response THEN @
                          ELSE Put(@, e.x.status,
                                   IF e.x.status \in DOMAIN @ THEN UpdateResponse(@[e.x.status], e)
                                                              ELSE NewResponse(e)),
            !.params = @ \cup NewParameters(e)]

\* The responses are merged, the parameters are those of the latest request.
UpdateMethod(m, e) ==
  [m EXCEPT !.responses = IF ~e.response THEN @
                          ELSE Put(@, e.x.status,
                                   IF e.x.status \in DOMAIN @ THEN UpdateResponse(@[e.x.status], e)
                                                              ELSE NewResponse(e)),
            !.params = NewParameters(e)]

NewPath(e) == Put(Empty, e.x.method, NewMethod(e))

UpdatePath(p, e) ==
  Put(p, e.x.method, IF e.x.method \in DOMAIN p THEN UpdateMethod(p[e.x.method], e)
                                                ELSE NewMethod(e))

AddPath(s, e) ==
  [s EXCEPT !.paths = Put(@, e.x.path, IF e.x.path \in DOMAIN @ THEN UpdatePath(@[e.x.path], e)
                                                                ELSE NewPath(e))]

\* A response is assigned into the map Responses of a method that has none: the
\* decoder leaves the map nil when the encoder has omitted it as empty.
AssignsToNilMap(s, e) ==
  /\ e.response
  /\ e.x.path \in DOMAIN s.paths
  /\ e.x.method \in DOMAIN s.paths[e.x.path]
  /\ ~s.paths[e.x.path][e.x.method].made

NoSpec == [titles |-> 0, servers |-> <<>>, paths |-> Empty]

\* titles: how many directory names Info.Title lists.
NewSpec(a) == [titles |-> 1, servers |-> <<a>>, paths |-> Empty]

UpdateSpec(s, a) ==
  [s EXCEPT !.titles = @ + 1,
            !.servers = IF a \in Range(@) THEN @ ELSE Append(@, a)]

\* What yaml makes of a document that it has written: a map that is empty is left
\* out of the text, and is nil when the text is read.
Decoded(doc) ==
  [doc EXCEPT !.paths = [p \in DOMAIN @ |-> [m \in DOMAIN @[p] |->
                           [@[p][m] EXCEPT !.made = doc.paths[p][m].responses # Empty]]]]

\* A parameter or a schema of the old document stands with another value in the new one,
\* and the value may have the shorter text.  All else of a document only ever grows.
Replaces(old, new) ==
  \E p \in DOMAIN old.paths \cap DOMAIN new.paths :
    \E m \in DOMAIN old.paths[p] \cap DOMAIN new.paths[p] :
      LET o == old.paths[p][m]
          d == new.paths[p][m]
      IN \/ o.params # d.params
         \/ \E k \in DOMAIN o.responses \cap DOMAIN d.responses :
              \E c \in DOMAIN o.responses[k] \cap DOMAIN d.responses[k] :
                o.responses[k][c] # d.responses[k][c]

-----------------------------------------------------------------------------
(* The log directory *)

\* A file of the proxy's appears: with a request, whose response may follow; with a
\* response alone (.match, -dump-resp); or with text that is neither.  Its name has the ID
\* of the exchange: none comes back once it is gone.
LogFile(n, k, x) ==
  /\ n \notin DOMAIN dir \cup vanished
  /\ dir' = Put(dir, n, [request |-> k = "request", response |-> k = "response", x |-> x])
  /\ UNCHANGED <<file, pc, api, todo, list, at, spec, runs, result, given, sound, vanished>>

LogResponse(n) ==
  /\ n \in DOMAIN dir
  /\ dir[n].request
  /\ dir' = [dir EXCEPT ![n].response = TRUE]
  /\ UNCHANGED <<file, pc, api, todo, list, at, spec, runs, result, given, sound, vanished>>

\* A file is deleted or moved away.
Vanish(n) ==
  /\ Removes
  /\ n \in DOMAIN dir
  /\ dir' = Restrict(dir, DOMAIN dir \ {n})
  /\ vanished' = vanished \cup {n}
  /\ UNCHANGED <<file, pc, api, todo, list, at, spec, runs, result, given, sound>>

-----------------------------------------------------------------------------
(* A run *)

Init ==
  /\ dir = Empty
  /\ file = [exists |-> FALSE, doc |-> NoSpec, tail |-> FALSE, cut |-> FALSE]
  /\ pc = "idle"
  /\ api \in Apis
  /\ todo = {}
  /\ list = <<>>
  /\ at = 0
  /\ spec = NoSpec
  /\ runs = 0
  /\ result = "none"
  /\ given = <<>>
  /\ sound = TRUE
  /\ vanished = {}

\* NewGenerator, and the walk lists the directory.
Start(a) ==
  /\ pc = "idle"
  /\ runs < MaxRuns
  /\ runs' = runs + 1
  /\ api' = a
  /\ pc' = "read"
  /\ todo' = DOMAIN dir
  /\ list' = <<>>
  /\ at' = 0
  /\ spec' = NoSpec
  /\ result' = "none"
  /\ UNCHANGED <<dir, file, given, sound, vanished>>

Ends(r) == pc' = "idle" /\ result' = r

\* Mutant of ReadLog: what does not parse is kept, too.
ReadLogKeeps ==
  /\ pc = "read"
  /\ \E n \in todo :
       /\ \A k \in todo : n <= k
       /\ \/ /\ n \in DOMAIN dir
             /\ list' = Append(list, dir[n])
             /\ todo' = todo \ {n}
             /\ UNCHANGED <<pc, result>>
          \/ /\ n \notin DOMAIN dir
             /\ \E r \in {"fatal", "panic"} : Ends(r)
             /\ UNCHANGED <<list, todo>>
  /\ UNCHANGED <<dir, file, api, at, spec, runs, given, sound, vanished>>

\* The function that the walk calls with each file: it must hold a request or a response.
\* A file that the walk has listed and no longer finds comes with no FileInfo, which is
\* used all the same; one that is gone only when it is opened is an error.
ReadLog ==
  /\ pc = "read"
  /\ \E n \in todo :
       /\ \A k \in todo : n <= k
       /\ \/ /\ n \in DOMAIN dir
             /\ dir[n].request \/ dir[n].response
             /\ list' = Append(list, dir[n])
             /\ todo' = todo \ {n}
             /\ UNCHANGED <<pc, result>>
          \/ /\ n \in DOMAIN dir
             /\ ~dir[n].request /\ ~dir[n].response
             /\ Ends("fatal")
             /\ UNCHANGED <<list, todo>>
          \/ /\ n \notin DOMAIN dir
             /\ \E r \in {"fatal", "panic"} : Ends(r)
             /\ UNCHANGED <<list, todo>>
  /\ UNCHANGED <<dir, file, api, at, spec, runs, given, sound, vanished>>

\* A file that is not what one run wrote, from its first byte to its last: a run was
\* stopped while it wrote, or the end of an older and longer text is left.
Damaged == file.cut \/ file.tail

\* CreateSpec, first part.  A damaged file is read as well as it can be: the decoder
\* may refuse it, what it finds may lack the parts that are then dereferenced, or it
\* finds the document, without some of its paths if the text was cut.  What else a
\* damaged text may be read as is left out: sound is FALSE from there on.
CreateSpec ==
  /\ pc = "read"
  /\ todo = {}
  /\ \/ /\ ~file.exists
        /\ spec' = NewSpec(api)
        /\ pc' = "add"
        /\ UNCHANGED <<result, sound>>
     \/ /\ file.exists
        /\ ~Damaged
        /\ spec' = UpdateSpec(Decoded(file.doc), api)
        /\ pc' = "add"
        /\ UNCHANGED <<result, sound>>
     \/ /\ file.exists
        /\ Damaged
        /\ \/ /\ \E r \in {"fatal"} \cup (IF file.cut THEN {"panic"} ELSE {}) : Ends(r)
              /\ UNCHANGED <<spec, sound>>
           \/ /\ \E P \in SUBSET DOMAIN file.doc.paths :
                   /\ ~file.cut => P = DOMAIN file.doc.paths
                   /\ spec' = UpdateSpec([Decoded(file.doc) EXCEPT !.paths = Restrict(@, P)], api)
              /\ pc' = "add"
              /\ sound' = FALSE
              /\ UNCHANGED result
  /\ UNCHANGED <<dir, file, api, todo, list, at, runs, given, vanished>>

\* CreateSpec, one round of its loop: the entries of the host are added.  An entry
\* without a request is dereferenced all the same.
CreateSpecLoop ==
  /\ pc = "add"
  /\ at < Len(list)
  /\ at' = at + 1
  /\ LET e == list[at + 1] IN
       \/ /\ e.request => e.x.host = api /\ AssignsToNilMap(spec, e)
          /\ Ends("panic")
          /\ UNCHANGED spec
       \/ /\ e.request
          /\ e.x.host = api => ~AssignsToNilMap(spec, e)
          /\ spec' = IF e.x.host = api THEN AddPath(spec, e) ELSE spec
          /\ UNCHANGED <<pc, result>>
  /\ UNCHANGED <<dir, file, api, todo, list, runs, given, sound, vanished>>

\* WriteSpec: the file is opened without truncation and written from its start.  Of an
\* older text the end is left if the new one is shorter.
WriteSpec ==
  /\ pc = "add"
  /\ at = Len(list)
  /\ \E t \in BOOLEAN :
       /\ t => file.exists /\ (Damaged \/ Replaces(file.doc, spec))
       /\ file' = [exists |-> TRUE, doc |-> spec, tail |-> t, cut |-> FALSE]
  /\ given' = given \o [i \in DOMAIN list |-> [entry |-> list[i], api |-> api]]
  /\ Ends("ok")
  /\ UNCHANGED <<dir, api, todo, list, at, spec, runs, sound, vanished>>

\* The write fails or the run is killed after a part of the text, be it empty.
WriteSpecFails ==
  /\ Kill
  /\ pc = "add"
  /\ at = Len(list)
  /\ \E t \in BOOLEAN :
       /\ t => file.exists
       /\ file' = [exists |-> TRUE, doc |-> spec, tail |-> t, cut |-> TRUE]
  /\ Ends("fatal")
  /\ UNCHANGED <<dir, api, todo, list, at, spec, runs, given, sound, vanished>>

\* The run is killed at any other moment.
Killed ==
  /\ Kill
  /\ pc # "idle"
  /\ Ends("fatal")
  /\ UNCHANGED <<dir, file, api, todo, list, at, spec, runs, given, sound, vanished>>

Generate == ReadLog \/ CreateSpec \/ CreateSpecLoop \/ WriteSpec \/ WriteSpecFails \/ Killed

Next ==
  \/ \E n \in Files, k \in {"request", "response", "other"}, x \in Exchanges : LogFile(n, k, x)
  \/ \E n \in Files : LogResponse(n) \/ Vanish(n)
  \/ \E a \in Apis : Start(a)
  \/ Generate

Spec == Init /\ [][Next]_vars

-----------------------------------------------------------------------------
(* Properties *)

Entry == [request : BOOLEAN, response : BOOLEAN, x : Exchanges]

\* A document is made of what is in the exchanges.
ResponseOK(r) ==
  /\ DOMAIN r \subseteq {x.ctype : x \in Exchanges}
  /\ \A c \in DOMAIN r : r[c] \in {x.schema : x \in Exchanges}
MethodOK(d) ==
  /\ d = [made |-> d.made, responses |-> d.responses, params |-> d.params]
  /\ d.made \in BOOLEAN
  /\ DOMAIN d.responses \subseteq {x.status : x \in Exchanges}
  /\ \A k \in DOMAIN d.responses : ResponseOK(d.responses[k])
  /\ d.params \in {x.params : x \in Exchanges}
PathOK(f) ==
  /\ DOMAIN f \subseteq {x.method : x \in Exchanges}
  /\ \A m \in DOMAIN f : MethodOK(f[m])
DocumentOK(doc) ==
  /\ doc = [titles |-> doc.titles, servers |-> doc.servers, paths |-> doc.paths]
  /\ doc.titles \in Nat
  /\ doc.servers \in Seq(Apis)
  /\ DOMAIN doc.paths \subseteq {x.path : x \in Exchanges}
  /\ \A p \in DOMAIN doc.paths : PathOK(doc.paths[p])

\* Types; an entry of the list holds a request or a response.
TypeOK ==
  /\ DOMAIN dir \subseteq Files /\ \A n \in DOMAIN dir : dir[n] \in Entry
  /\ file = [exists |-> file.exists, doc |-> file.doc, tail |-> file.tail, cut |-> file.cut]
  /\ file.exists \in BOOLEAN /\ file.tail \in BOOLEAN /\ file.cut \in BOOLEAN
  /\ DocumentOK(file.doc)
  /\ DocumentOK(spec)
  /\ pc \in {"idle", "read", "add"}
  /\ api \in Apis
  /\ todo \subseteq Files
  /\ list \in Seq(Entry) /\ \A i \in DOMAIN list : list[i].request \/ list[i].response
  /\ runs \in 0..MaxRuns
  /\ result \in {"none", "ok", "fatal", "panic"}
  /\ at \in 0..Len(list)
  /\ given \in Seq([entry : Entry, api : Apis])
  /\ sound \in BOOLEAN
  /\ vanished \subseteq Files

\* Of the history h: the entries that are added, those of a path, those of a method of
\* it, and the responses with a status among those.
Added(h) == {i \in DOMAIN h : h[i].entry.x.host = h[i].api}
OfPath(h, p) == {i \in Added(h) : h[i].entry.x.path = p}
OfMethod(h, p, m) == {i \in OfPath(h, p) : h[i].entry.x.method = m}
OfStatus(h, p, m, s) ==
  {i \in OfMethod(h, p, m) : h[i].entry.response /\ h[i].entry.x.status = s}
Newest(S) == CHOOSE i \in S : \A k \in S : k <= i

\* doc says what the history h says: it lists the paths, methods, statuses and content
\* types that h has, and no others; the parameters and schemas are the newest ones.
Documents(doc, h) ==
  /\ DOMAIN doc.paths = {h[i].entry.x.path : i \in Added(h)}
  /\ \A p \in DOMAIN doc.paths :
       /\ DOMAIN doc.paths[p] = {h[i].entry.x.method : i \in OfPath(h, p)}
       /\ \A m \in DOMAIN doc.paths[p] :
            LET d == doc.paths[p][m]
                I == OfMethod(h, p, m)
            IN /\ d.params = h[Newest(I)].entry.x.params
               /\ DOMAIN d.responses = {h[i].entry.x.status : i \in {k \in I : h[k].entry.response}}
               /\ \A s \in DOMAIN d.responses :
                    LET A == OfStatus(h, p, m, s) IN
                    /\ DOMAIN d.responses[s] = {h[i].entry.x.ctype : i \in A}
                    /\ \A c \in DOMAIN d.responses[s] :
                         d.responses[s][c] =
                           h[Newest({i \in A : h[i].entry.x.ctype = c})].entry.x.schema

\* A document that runs have written whole, none of them from a damaged file, is the sum
\* of the runs that ended well, as if one run had read all that they have read, in that
\* order: no run forgets what an earlier one has documented, and nothing is documented
\* that was not in a log.
SumOfTheRuns == (file.exists /\ sound /\ ~Damaged) => Documents(file.doc, given)

\* A run panics for one of four reasons only: the file that the walk comes to was removed
\* since it was listed; the entry that CreateSpec comes to is a response without a request;
\* the entry has a response and its method was documented before, but never with one; or
\* an earlier run was stopped while it wrote.
PanicExplained ==
  result = "panic" =>
    \/ \E n \in todo \cap vanished : \A k \in todo : n <= k
    \/ at \in DOMAIN list /\ ~list[at].request
    \/ /\ at \in DOMAIN list
       /\ list[at].response
       /\ LET I == OfMethod(given, list[at].x.path, list[at].x.method)
          IN I # {} /\ \A i \in I : ~given[i].entry.response
    \/ file.cut
    \/ ~sound

=============================================================================
