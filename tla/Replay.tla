-------------------------------- MODULE Replay --------------------------------
(***************************************************************************)
(* cmd/replay: main walks over the dump files and, for each one, puts the  *)
(* response into the map responses, sends the request to an intercepting   *)
(* proxy ("burp", external) and waits for the answer.  The proxy forwards  *)
(* the request to the HTTP server of the same process, whose handler runs  *)
(* in a goroutine of its own, takes the response out of the map and copies *)
(* it - its body straight from the dump file that visit has opened.  The   *)
(* map has no lock.  A file is told apart by how its text parses; its      *)
(* position in the walk stands for its ID.                                 *)
(***************************************************************************)
EXTENDS Integers, Sequences

CONSTANTS
  NFiles,    \* bound: files in the output folder
  Kinds,     \* the kinds of file that may be there
  MaxHops    \* bound: requests made for one file, redirects included

ASSUME ReplayAssumption ==
  /\ NFiles \in Nat
  /\ MaxHops \in Nat \ {0}
  /\ Kinds \subseteq {"pair", "dump", "request", "match", "other"}

Files    == 1..NFiles
Handlers == Files \X (1..MaxHops)      \* one goroutine per request that is made

VARIABLES
  kind,        \* what the files are
  pos,         \* the file that visit is called for, or called for next
  main,        \* where visit is
  hop,         \* requests made for that file so far
  open,        \* the files that visit has open
  responses,   \* the map, by ID: the file whose response it holds, or 0
  handler,     \* where the handler goroutines are
  response,    \* the local variable of each handler
  recorded     \* what burp has recorded for each file: "none", "cut" or "whole"

vars == <<kind, pos, main, hop, open, responses, handler, response, recorded>>

-----------------------------------------------------------------------------
(* Dump files *)

\* The text of a file: a pair as the documentation describes it, and what the file
\* store of pkg/logger writes - the request twice, newlines in between; a request
\* alone; a matching response in a file of its own.
Text(k) ==
  CASE k = "pair"    -> <<"request", "response">>
    [] k = "dump"    -> <<"request", "nl", "request", "nl", "nl", "response", "nl">>
    [] k = "request" -> <<"request", "nl">>
    [] k = "match"   -> <<"nl", "response", "nl">>

\* http.ReadRequest takes the head of the request, http.ReadResponse must find the
\* response right behind it.
Parses(text) == Len(text) > 1 /\ text[1] = "request" /\ text[2] = "response"

-----------------------------------------------------------------------------
(* main and visit *)

Init ==
  /\ kind \in [Files -> Kinds]
  /\ pos = 1
  /\ main = "walk"
  /\ hop = 0
  /\ open = {}
  /\ responses = [i \in Files |-> 0]
  /\ handler = [h \in Handlers |-> "idle"]
  /\ response = [h \in Handlers |-> 0]
  /\ recorded = [i \in Files |-> "none"]

\* Mutant of visit: the file is closed once it is parsed.
visitCloses ==
  /\ main = "walk"
  /\ pos \in Files
  /\ IF kind[pos] = "other"
     THEN pos' = pos + 1 /\ UNCHANGED main
     ELSE /\ main' = IF Parses(Text(kind[pos])) THEN "store" ELSE "fatal"
          /\ UNCHANGED pos
  /\ UNCHANGED <<kind, hop, open, responses, handler, response, recorded>>

\* A name without .txt is skipped; a file that does not parse ends the walk, and
\* log.Fatal the process; otherwise the response is about to go into the map.
visit ==
  /\ main = "walk"
  /\ pos \in Files
  /\ IF kind[pos] = "other"
     THEN pos' = pos + 1 /\ UNCHANGED <<main, open>>
     ELSE /\ main' = IF Parses(Text(kind[pos])) THEN "store" ELSE "fatal"
          /\ open' = {pos}
          /\ UNCHANGED pos
  /\ UNCHANGED <<kind, hop, responses, handler, response, recorded>>

\* responses[id] = response
StoreResponse ==
  /\ main = "store"
  /\ main' = "do"
  /\ responses' = [responses EXCEPT ![pos] = pos]
  /\ UNCHANGED <<kind, pos, hop, open, handler, response, recorded>>

\* httpclient.Do: burp forwards the request to the handler, or the call fails and the
\* process ends.  The client follows redirects, with the header that carries the ID.
Do ==
  /\ main = "do"
  /\ \/ /\ hop' = hop + 1
        /\ handler' = [handler EXCEPT ![<<pos, hop'>>] = "lookup"]
        /\ main' = "wait"
     \/ /\ main' = "fatal"
        /\ UNCHANGED <<hop, handler>>
  /\ UNCHANGED <<kind, pos, open, responses, response, recorded>>

\* Mutant of Answered: visit does not wait for the answer.
AnsweredAtOnce == handler[<<pos, hop>>] # "idle"

\* burp has an answer to pass on for the last request made: the whole one, its own
\* if the handler broke off, or one that it is still receiving.
Answered == handler[<<pos, hop>>] \in {"copy", "done", "panicked"}

\* Mutant of Return: the redirects are counted on for the next file.
ReturnCountsOn ==
  /\ main = "wait"
  /\ Answered
  /\ \/ /\ main' = "walk"
        /\ pos' = pos + 1
        /\ open' = {}
        /\ UNCHANGED hop
     \/ /\ handler[<<pos, hop>>] # "panicked"
        /\ hop < MaxHops
        /\ main' = "do"
        /\ UNCHANGED <<pos, hop, open>>
     \/ /\ main' = "fatal"
        /\ UNCHANGED <<pos, hop, open>>
  /\ UNCHANGED <<kind, responses, handler, response, recorded>>

\* Do returns; visit returns, which closes the file, and the walk goes on.  Before
\* that, an answer that is a redirect makes Do send another request.
Return ==
  /\ main = "wait"
  /\ Answered
  /\ \/ /\ main' = "walk"
        /\ pos' = pos + 1
        /\ hop' = 0
        /\ open' = {}
     \/ /\ handler[<<pos, hop>>] # "panicked"
        /\ hop < MaxHops
        /\ main' = "do"
        /\ UNCHANGED <<pos, hop, open>>
     \/ /\ main' = "fatal"
        /\ UNCHANGED <<pos, hop, open>>
  /\ UNCHANGED <<kind, responses, handler, response, recorded>>

-----------------------------------------------------------------------------
(* The handler of the HTTP server *)

\* response := responses[key]
Lookup(h) ==
  /\ handler[h] = "lookup"
  /\ handler' = [handler EXCEPT ![h] = "delete"]
  /\ response' = [response EXCEPT ![h] = responses[h[1]]]
  /\ UNCHANGED <<kind, pos, main, hop, open, responses, recorded>>

\* Mutant of Delete: the entry stays in the map.
DeleteNot(h) ==
  /\ handler[h] = "delete"
  /\ handler' = [handler EXCEPT ![h] = IF response[h] = 0 THEN "panicked" ELSE "copy"]
  /\ UNCHANGED <<kind, pos, main, hop, open, responses, response, recorded>>

\* delete(responses, key), and the first use of response, which panics if the key was
\* not there; net/http recovers and breaks the connection off.
Delete(h) ==
  /\ handler[h] = "delete"
  /\ handler' = [handler EXCEPT ![h] = IF response[h] = 0 THEN "panicked" ELSE "copy"]
  /\ responses' = [responses EXCEPT ![h[1]] = 0]
  /\ UNCHANGED <<kind, pos, main, hop, open, response, recorded>>

\* io.Copy reads the body from the file: what is not yet buffered is lost when visit
\* has closed it.
Copy(h) ==
  /\ handler[h] = "copy"
  /\ handler' = [handler EXCEPT ![h] = "done"]
  /\ \E r \in IF response[h] \in open THEN {"whole"} ELSE {"whole", "cut"} :
       recorded' = [recorded EXCEPT ![h[1]] = r]
  /\ UNCHANGED <<kind, pos, main, hop, open, responses, response>>

Handle(h) == Lookup(h) \/ Delete(h) \/ Copy(h)

\* The process ends with main.
Next ==
  /\ main # "fatal"
  /\ pos \in Files
  /\ visit \/ StoreResponse \/ Do \/ Return \/ \E h \in Handlers : Handle(h)

Spec == Init /\ [][Next]_vars

-----------------------------------------------------------------------------
(* Properties *)

TypeOK ==
  /\ kind \in [Files -> Kinds]
  /\ pos \in 1..(NFiles + 1)
  /\ main \in {"walk", "store", "do", "wait", "fatal"}
  /\ hop \in 0..MaxHops
  /\ open \subseteq Files
  /\ responses \in [Files -> 0..NFiles]
  /\ handler \in [Handlers -> {"idle", "lookup", "delete", "copy", "done", "panicked"}]
  /\ response \in [Handlers -> 0..NFiles]
  /\ recorded \in [Files -> {"none", "cut", "whole"}]

\* visit and the handlers use the map without a lock: no two of them are ever about
\* to touch it at the same time, because visit waits for the answer to each request
\* and an answer only begins after the handler is done with the map.
NoMapRace ==
  LET Touching == {h \in Handlers : handler[h] \in {"lookup", "delete"}} IN
  /\ main \in {"walk", "store"} => Touching = {}
  /\ \A g, h \in Touching : g = h

\* The first request for a file is answered with the response of that very file, and
\* a response is given out once: the request that follows a redirect finds nothing.
AnsweredOnce ==
  \A h \in Handlers : handler[h] \in {"delete", "copy", "done", "panicked"} =>
    response[h] = (IF h[2] = 1 THEN h[1] ELSE 0)

\* The body of a response goes to burp straight from the file, which visit closes: as long
\* as visit is there, waiting for an answer or sending the request that a redirect asks
\* for, nothing of it is lost.  Only an answer that burp passes on before it has all of it
\* can end visit too early, and be recorded with its rest missing.
WholeWhileOpen == \A i \in Files : recorded[i] = "cut" => i < pos

\* "Replay all the dumped requests/responses" (README.md): no dump file ends the walk.
\* The run that checks it shows that every file that the logger writes does.
DumpsReplayed == main = "fatal" => Parses(Text(kind[pos]))

=============================================================================
