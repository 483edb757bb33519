----------------------------- MODULE TrafficLog -----------------------------
(***************************************************************************)
(* What the traffic logger promises to those who read its targets (the     *)
(* structured file, the dump files, the index, the topic): transactions    *)
(* are numbered as they are accepted, they are taken one after the other,  *)
(* and the log of a target only ever grows, by parts of the transaction    *)
(* that was taken last, in ascending order.  A part may be missing from a  *)
(* target; it is never early, late or there again, but for the copies that *)
(* a target which resends holds next to one another.  Logger implements    *)
(* this specification; nothing here depends on stores, failures or Close.  *)
(***************************************************************************)
EXTENDS Naturals, Sequences

CONSTANTS
  Targets,   \* everything that receives documents
  Resends,   \* those of them that may be sent a document more than once
  Copies     \* and how often at most

VARIABLES
  accepted,  \* how many transactions were accepted
  taken,     \* how many of them were taken so far
  log        \* per target, the entries it holds

tvars == <<accepted, taken, log>>

Entry == [seq : Nat, response : BOOLEAN]

\* By submission, the request (or the pair) of a transaction before its response.
Before(e, f) == e.seq < f.seq \/ (e.seq = f.seq /\ ~e.response /\ f.response)

TInit ==
  /\ accepted = 0
  /\ taken = 0
  /\ log = [d \in Targets |-> <<>>]

Accept ==
  /\ accepted' = accepted + 1
  /\ UNCHANGED <<taken, log>>

Take ==
  /\ taken < accepted
  /\ taken' = taken + 1
  /\ UNCHANGED <<accepted, log>>

Deliver(d) ==
  \E r \in BOOLEAN, n \in 1..(IF d \in Resends THEN Copies ELSE 1) :
    LET e == [seq |-> taken, response |-> r] IN
    /\ \A i \in DOMAIN log[d] : Before(log[d][i], e)
    /\ log' = [log EXCEPT ![d] = @ \o [i \in 1..n |-> e]]
    /\ UNCHANGED <<accepted, taken>>

TNext == Accept \/ Take \/ \E d \in Targets : Deliver(d)

TSpec == TInit /\ [][TNext]_tvars

=============================================================================
