---------------------------- MODULE ReplayProofs ----------------------------
(***************************************************************************)
(* Proofs about cmd/replay, for any number of files of any kind and any    *)
(* number of redirects, and a proxy in between that passes answers on      *)
(* while it receives them: the map is never touched by two goroutines at a *)
(* time, and each response is given out once, for its own request.         *)
(***************************************************************************)
EXTENDS Replay, TLAPS

-----------------------------------------------------------------------------
(* The inductive invariant *)

Touches(h) == handler[h] \in {"lookup", "delete"}

\* Handlers exist for the requests made so far, and only the last of them, whose
\* answer visit is waiting for, can be about to touch the map.
OneAtATime ==
  /\ \A h \in Handlers :
       handler[h] # "idle" => h[1] < pos \/ (h[1] = pos /\ h[2] <= hop)
  /\ \A h \in Handlers : Touches(h) => main = "wait" /\ h[1] = pos /\ h[2] = hop
  /\ main \in {"walk", "store"} => hop = 0
  /\ main = "do" => hop < MaxHops
  /\ main = "wait" => hop # 0 /\ handler[<<pos, hop>>] # "idle"
  /\ main # "walk" => pos \in Files

\* The response of the current file is in the map until the handler of its first
\* request takes it out.
InTheMap ==
  main \in {"do", "wait"} =>
    responses[pos] = (IF hop = 0 \/ Touches(<<pos, 1>>) THEN pos ELSE 0)

ReplayInv == TypeOK /\ OneAtATime /\ InTheMap /\ AnsweredOnce

-----------------------------------------------------------------------------
LEMMA HandlerOf ==
  ASSUME NEW p \in Files, NEW k \in 1..MaxHops
  PROVE  <<p, k>> \in Handlers /\ <<p, k>>[1] = p /\ <<p, k>>[2] = k
BY DEF Handlers

LEMMA Components ==
  ASSUME NEW h \in Handlers
  PROVE  h[1] \in Files /\ h[2] \in 1..MaxHops /\ h = <<h[1], h[2]>>
BY DEF Handlers

LEMMA InitInv == Init => ReplayInv
BY ReplayAssumption DEF Init, ReplayInv, TypeOK, OneAtATime, InTheMap, AnsweredOnce, Touches, Files

\* The steps of main, which leave the handlers alone unless a request is made.
LEMMA MainStep ==
  ASSUME ReplayInv, main # "fatal", pos \in Files, visit \/ StoreResponse \/ Do \/ Return
  PROVE  ReplayInv'
<1> USE ReplayAssumption DEF ReplayInv, TypeOK, Files
<1>1. CASE visit
  <2>1. UNCHANGED <<kind, hop, responses, handler, response, recorded>> /\ main = "walk"
    BY <1>1 DEF visit
  <2>2. \/ pos' = pos + 1 /\ UNCHANGED <<main, open>>
        \/ main' \in {"store", "fatal"} /\ open' = {pos} /\ UNCHANGED pos
    BY <1>1 DEF visit
  <2>3. TypeOK' /\ OneAtATime'
    BY <2>1, <2>2, Components DEF OneAtATime, Touches
  <2>4. InTheMap' /\ AnsweredOnce'
    BY <2>1, <2>2 DEF InTheMap, AnsweredOnce
  <2> QED BY <2>3, <2>4
<1>2. CASE StoreResponse
  BY <1>2, Components DEF StoreResponse, OneAtATime, InTheMap, AnsweredOnce, Touches
<1>3. CASE Do
  <2>1. /\ UNCHANGED <<kind, pos, open, responses, response, recorded>> /\ main = "do"
        /\ hop \in Nat /\ hop < MaxHops /\ MaxHops \in Nat
    BY <1>3 DEF Do, OneAtATime
  <2>2. CASE main' = "fatal" /\ UNCHANGED <<hop, handler>>
    BY <2>1, <2>2 DEF OneAtATime, InTheMap, AnsweredOnce, Touches
  <2>3. CASE /\ hop' = hop + 1 /\ main' = "wait"
             /\ handler' = [handler EXCEPT ![<<pos, hop'>>] = "lookup"]
    <3> DEFINE n == <<pos, hop'>>
    <3>1. n \in Handlers /\ n[1] = pos /\ n[2] = hop + 1
      BY <2>1, <2>3, HandlerOf
    <3>2. handler'[n] = "lookup" /\ \A h \in Handlers : h # n => handler'[h] = handler[h]
      BY <2>3, <3>1
    <3>3. TypeOK'
      <4>1. hop' \in 0..MaxHops
        BY <2>1, <2>3
      <4>2. handler' = [handler EXCEPT ![n] = "lookup"]
        BY <2>3
      <4> HIDE DEF n
      <4> QED BY <2>1, <2>3, <4>1, <4>2
    <3>4. \A h \in Handlers : Touches(h)' => h = n
      BY <2>1, <3>2 DEF OneAtATime, Touches
    <3>5. OneAtATime'
      BY <2>1, <2>3, <3>1, <3>2, <3>4, Components DEF OneAtATime
    <3>6. AnsweredOnce'
      BY <2>1, <3>2 DEF AnsweredOnce
    <3>7. InTheMap'
      <4>1. CASE hop = 0
        BY <2>1, <2>3, <3>2, <4>1 DEF InTheMap, Touches
      <4>2. CASE hop # 0
        <5>1. <<pos, 1>> \in Handlers /\ <<pos, 1>> # n
          BY <2>1, <2>3, <3>1, <4>2, HandlerOf
        <5>2. ~Touches(<<pos, 1>>) /\ ~Touches(<<pos, 1>>)'
          BY <2>1, <2>3, <3>4, <5>1 DEF OneAtATime, Touches
        <5> QED BY <2>1, <2>3, <4>2, <5>2 DEF InTheMap
      <4> QED BY <4>1, <4>2
    <3> QED BY <3>3, <3>5, <3>6, <3>7
  <2> QED BY <1>3, <2>2, <2>3 DEF Do
<1>4. CASE Return
  <2>1. /\ UNCHANGED <<kind, responses, handler, response, recorded>> /\ main = "wait"
        /\ hop \in 1..MaxHops
    BY <1>4 DEF Return, OneAtATime
  <2>2. <<pos, hop>> \in Handlers /\ ~Touches(<<pos, hop>>)
    BY <1>4, <2>1, HandlerOf DEF Return, Answered, Touches
  <2>3. \A h \in Handlers : ~Touches(h)
    BY <2>2, Components DEF OneAtATime
  <2>4. AnsweredOnce'
    BY <2>1 DEF AnsweredOnce
  <2>5. CASE main' = "walk" /\ pos' = pos + 1 /\ hop' = 0 /\ open' = {}
    <3>1. TypeOK' /\ InTheMap'
      BY <2>1, <2>5 DEF InTheMap
    <3>2. \A h \in Handlers : handler'[h] # "idle" => h[1] < pos'
      <4> SUFFICES ASSUME NEW h \in Handlers, handler[h] # "idle" PROVE h[1] < pos + 1
        BY <2>1, <2>5
      <4>1. h[1] \in Nat /\ pos \in Nat
        BY Components
      <4>2. h[1] < pos \/ h[1] = pos
        BY DEF OneAtATime
      <4> QED BY <4>1, <4>2
    <3>3. \A h \in Handlers : ~Touches(h)'
      BY <2>1, <2>3 DEF Touches
    <3>4. OneAtATime'
      BY <2>1, <2>5, <3>2, <3>3 DEF OneAtATime
    <3> QED BY <2>4, <3>1, <3>4
  <2>6. CASE /\ main' \in {"do", "fatal"} /\ UNCHANGED <<pos, hop, open>>
             /\ main' = "do" => hop < MaxHops
    BY <2>1, <2>3, <2>4, <2>6 DEF OneAtATime, InTheMap, Touches
  <2> QED BY <1>4, <2>5, <2>6 DEF Return
<1> QED BY <1>1, <1>2, <1>3, <1>4

\* The steps of a handler.
LEMMA HandlerStep ==
  ASSUME ReplayInv, main # "fatal", pos \in Files, NEW g \in Handlers, Handle(g)
  PROVE  ReplayInv'
<1> USE ReplayAssumption DEF ReplayInv, TypeOK
<1>1. /\ UNCHANGED <<kind, pos, main, hop, open>> /\ g[1] \in Files /\ g[2] \in 1..MaxHops
      /\ handler[g] # "idle" /\ handler'[g] # "idle"
      /\ \A h \in Handlers : h # g => handler'[h] = handler[h] /\ response'[h] = response[h]
  BY Components DEF Handle, Lookup, Delete, Copy
<1>2. OneAtATime'
  <2>1. Touches(g)' => Touches(g)
    BY DEF Handle, Lookup, Delete, Copy, Touches
  <2>2. main = "wait" => handler'[<<pos, hop>>] # "idle"
    BY <1>1, HandlerOf DEF OneAtATime
  <2> QED BY <1>1, <2>1, <2>2 DEF OneAtATime, Touches
<1>3. CASE Lookup(g)
  <2>1. main = "wait" /\ g[1] = pos /\ g[2] = hop /\ Touches(g)
    BY <1>3 DEF Lookup, OneAtATime, Touches
  <2>2. response' = [response EXCEPT ![g] = responses[pos]] /\ handler'[g] = "delete"
        /\ handler[g] = "lookup" /\ UNCHANGED <<responses, recorded>>
    BY <1>3, <2>1 DEF Lookup
  <2>3. TypeOK'
    BY <1>3, <2>2 DEF Lookup, Files
  <2>4. <<pos, 1>> \in Handlers /\ (Touches(<<pos, 1>>) <=> hop = 1)
        /\ (Touches(<<pos, 1>>)' <=> hop = 1)
    <3>1. <<pos, 1>> \in Handlers /\ g = <<pos, hop>>
      <4>1. g = <<pos, hop>>
        BY <2>1, Components
      <4>2. <<pos, 1>> \in Handlers
        BY <1>1, <2>1, HandlerOf
      <4> QED BY <4>1, <4>2
    <3>2. CASE hop = 1
      <4>1. <<pos, 1>> = g
        BY <3>1, <3>2
      <4>2. handler[<<pos, 1>>] = "lookup" /\ handler'[<<pos, 1>>] = "delete"
        BY <2>2, <4>1, Zenon
      <4> QED BY <1>1, <3>1, <3>2, <4>2 DEF Touches
    <3>3. CASE hop # 1
      <4>1. <<pos, 1>> # g
        BY <3>1, <3>3
      <4>2. ~Touches(<<pos, 1>>)
        BY <3>1, <3>3 DEF OneAtATime
      <4> QED BY <1>1, <3>1, <3>3, <4>1, <4>2 DEF Touches
    <3> QED BY <3>2, <3>3
  <2>5. InTheMap'
    BY <1>1, <2>1, <2>2, <2>4 DEF InTheMap
  <2>6. response'[g] = (IF g[2] = 1 THEN g[1] ELSE 0)
    BY <1>1, <2>1, <2>2, <2>4 DEF InTheMap
  <2>7. AnsweredOnce'
    BY <1>1, <2>6 DEF AnsweredOnce
  <2> QED BY <1>2, <2>3, <2>5, <2>7
<1>4. CASE Delete(g)
  <2>1. main = "wait" /\ g[1] = pos /\ g[2] = hop /\ g = <<pos, hop>>
    BY <1>4, Components DEF Delete, OneAtATime, Touches
  <2>2. /\ handler[g] = "delete" /\ handler'[g] \in {"panicked", "copy"}
        /\ responses' = [responses EXCEPT ![pos] = 0] /\ UNCHANGED <<response, recorded>>
    BY <1>4, <2>1 DEF Delete
  <2>3. TypeOK'
    <3>1. responses' \in [Files -> 0..NFiles]
      BY <2>2
    <3>2. handler' = [handler EXCEPT ![g] = handler'[g]]
      BY <1>4 DEF Delete
    <3>3. handler' \in [Handlers -> {"idle", "lookup", "delete", "copy", "done", "panicked"}]
      BY <2>2, <3>2
    <3> QED BY <1>1, <2>2, <3>1, <3>3
  <2>4. ~Touches(<<pos, 1>>)' /\ hop # 0
    <3>1. <<pos, 1>> \in Handlers
      BY <1>1, HandlerOf
    <3>2. CASE hop = 1
      <4>1. <<pos, 1>> = g
        BY <2>1, <3>2
      <4>2. handler'[<<pos, 1>>] \in {"panicked", "copy"}
        BY <2>2, <4>1, Zenon
      <4> QED BY <1>1, <3>2, <4>2 DEF Touches
    <3>3. CASE hop # 1
      BY <1>1, <2>1, <3>1, <3>3 DEF OneAtATime, Touches
    <3> QED BY <1>1, <2>1, <3>2, <3>3
  <2>5. InTheMap'
    BY <1>1, <2>2, <2>4 DEF InTheMap
  <2>6. AnsweredOnce'
    BY <1>1, <2>2 DEF AnsweredOnce
  <2> QED BY <1>2, <2>3, <2>5, <2>6
<1>5. CASE Copy(g)
  <2>1. handler[g] = "copy" /\ handler'[g] = "done" /\ UNCHANGED <<responses, response>>
    BY <1>5 DEF Copy
  <2>2. TypeOK'
    BY <1>5, <1>1 DEF Copy
  <2>3. \A h \in Handlers : Touches(h)' <=> Touches(h)
    BY <1>1, <2>1 DEF Touches
  <2>4. <<pos, 1>> \in Handlers
    BY <1>1, HandlerOf
  <2>5. InTheMap'
    BY <1>1, <2>1, <2>3, <2>4 DEF InTheMap
  <2>6. AnsweredOnce'
    BY <1>1, <2>1 DEF AnsweredOnce
  <2> QED BY <1>2, <2>2, <2>5, <2>6
<1> QED BY <1>3, <1>4, <1>5 DEF Handle

LEMMA StepInv == ReplayInv /\ [Next]_vars => ReplayInv'
<1> SUFFICES ASSUME ReplayInv, [Next]_vars PROVE ReplayInv'
  OBVIOUS
<1>1. CASE Next
  BY <1>1, MainStep, HandlerStep DEF Next
<1>2. CASE UNCHANGED vars
  BY <1>2 DEF vars, ReplayInv, TypeOK, OneAtATime, InTheMap, AnsweredOnce, Touches
<1> QED BY <1>1, <1>2

\* The invariant of the walk.
THEOREM WalkIsKept == Spec => []ReplayInv
BY InitInv, StepInv, PTL DEF Spec

-----------------------------------------------------------------------------
\* Every variable of the walk and of its handlers keeps its type.
THEOREM WalkTyped == Spec => []TypeOK
<1>1. ReplayInv => TypeOK
  BY DEF ReplayInv
<1> QED BY <1>1, WalkIsKept, PTL

\* No two goroutines are ever about to touch the map without a lock.
THEOREM MapIsSafe == Spec => []NoMapRace
<1>1. ReplayInv => NoMapRace
  <2> SUFFICES ASSUME ReplayInv PROVE NoMapRace
    OBVIOUS
  <2>1. \A h \in Handlers : Touches(h) => main = "wait" /\ h = <<pos, hop>>
    BY Components DEF ReplayInv, OneAtATime
  <2> QED BY <2>1 DEF NoMapRace, Touches
<1> QED BY <1>1, WalkIsKept, PTL

\* The first request for a file gets the response of that file, no other request
\* gets one.
THEOREM GivenOutOnce == Spec => []AnsweredOnce
<1>1. ReplayInv => AnsweredOnce
  BY DEF ReplayInv
<1> QED BY <1>1, WalkIsKept, PTL

-----------------------------------------------------------------------------
\* A handler copies the response of the first request for its file, which visit has open
\* as long as it is there.
CopiesFromOpen ==
  /\ main \in {"store", "do", "wait"} => pos \in open
  /\ \A h \in Handlers : handler[h] = "copy" => response[h] = h[1]

RestInv == CopiesFromOpen /\ WholeWhileOpen

LEMMA MainKeepsOpen ==
  ASSUME ReplayInv, RestInv, visit \/ StoreResponse \/ Do \/ Return
  PROVE  RestInv'
<1> USE ReplayAssumption DEF RestInv, CopiesFromOpen, WholeWhileOpen
<1>1. pos \in Nat /\ Files \subseteq Nat
  BY DEF ReplayInv, TypeOK, Files
<1>2. UNCHANGED <<response, recorded>> /\ pos' \in {pos, pos + 1}
  BY DEF visit, StoreResponse, Do, Return
<1>3. WholeWhileOpen'
  BY <1>1, <1>2
<1>4. \A h \in Handlers : handler'[h] = "copy" => handler[h] = "copy"
  BY DEF visit, StoreResponse, Do, Return, ReplayInv, TypeOK
<1>5. main' \in {"store", "do", "wait"} => pos' \in open'
  BY DEF visit, StoreResponse, Do, Return
<1> QED BY <1>2, <1>3, <1>4, <1>5

LEMMA HandlersKeepOpen ==
  ASSUME ReplayInv, RestInv, NEW g \in Handlers, Handle(g), main # "fatal"
  PROVE  RestInv'
<1> USE ReplayAssumption DEF RestInv, CopiesFromOpen, WholeWhileOpen
<1>1. UNCHANGED <<pos, main, open>> /\ \A h \in Handlers : h # g =>
        handler'[h] = handler[h] /\ response'[h] = response[h]
  BY DEF Handle, Lookup, Delete, Copy, ReplayInv, TypeOK
<1>2. CASE Lookup(g)
  <2>1. handler'[g] = "delete" /\ UNCHANGED recorded
    BY <1>2 DEF Lookup, ReplayInv, TypeOK
  <2> QED BY <1>1, <2>1
<1>3. CASE Delete(g)
  <2>1. handler[g] = "delete" /\ UNCHANGED <<response, recorded>>
        /\ (handler'[g] = "copy" => response[g] # 0)
    BY <1>3 DEF Delete, ReplayInv, TypeOK
  <2>2. response[g] \in {g[1], 0}
    BY <2>1 DEF ReplayInv, AnsweredOnce
  <2> QED BY <1>1, <2>1, <2>2
<1>4. CASE Copy(g)
  <2>1. handler[g] = "copy" /\ handler'[g] = "done" /\ UNCHANGED response
    BY <1>4 DEF Copy, ReplayInv, TypeOK
  <2>2. PICK r : /\ r = "cut" => g[1] \notin open
                 /\ recorded' = [recorded EXCEPT ![g[1]] = r]
    BY <1>4, <2>1 DEF Copy
  <2>3. r = "cut" => g[1] < pos
    <3>1. main \in {"walk", "store"} => g[1] < pos
      <4>1. g[1] < pos \/ (g[1] = pos /\ g[2] <= hop)
        BY <2>1 DEF ReplayInv, OneAtATime
      <4>2. main \in {"walk", "store"} => hop = 0
        BY DEF ReplayInv, OneAtATime
      <4>3. g[2] \in Nat /\ g[2] # 0
        BY Components
      <4> QED BY <4>1, <4>2, <4>3
    <3>2. main \in {"do", "wait"} => g[1] < pos \/ g[1] \in open
      BY <2>1 DEF ReplayInv, OneAtATime
    <3> QED BY <2>2, <3>1, <3>2 DEF ReplayInv, TypeOK
  <2>4. WholeWhileOpen'
    BY <1>1, <2>2, <2>3 DEF ReplayInv, TypeOK
  <2> QED BY <1>1, <2>1, <2>4
<1> QED BY <1>2, <1>3, <1>4 DEF Handle

\* Nothing of a response is lost before visit has returned from its file, for any files
\* and redirects, whether burp passes an answer on as a whole or while it receives it.
THEOREM RestIsKept == Spec => []WholeWhileOpen
<1>1. Init => RestInv
  BY DEF Init, RestInv, CopiesFromOpen, WholeWhileOpen
<1>2. ReplayInv /\ RestInv /\ [Next]_vars => RestInv'
  <2> SUFFICES ASSUME ReplayInv, RestInv, [Next]_vars PROVE RestInv'
    OBVIOUS
  <2>1. CASE Next
    BY <2>1, MainKeepsOpen, HandlersKeepOpen DEF Next
  <2>2. CASE UNCHANGED vars
    BY <2>2 DEF vars, RestInv, CopiesFromOpen, WholeWhileOpen
  <2> QED BY <2>1, <2>2
<1>3. RestInv => WholeWhileOpen
  BY DEF RestInv
<1> QED BY <1>1, <1>2, <1>3, WalkIsKept, PTL DEF Spec

=============================================================================
