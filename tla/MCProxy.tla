------------------------------- MODULE MCProxy -------------------------------
(* Instances of Proxy for TLC; the other constants get their values in the cfg. *)
EXTENDS Proxy, TLC

\* No filter, no callback: proxify as it starts without flags.
Plain ==
  [RequestDSL |-> 0, ResponseDSL |-> 0, MatchReplace |-> FALSE, PassThrough |-> 0,
   OnRequestCallback |-> FALSE, OnResponseCallback |-> FALSE]

\* Filters in both hooks; a rewriting and a pass-through list; a request callback,
\* which leaves the response hook without user data.
SafetyOptions ==
  {[Plain EXCEPT !.RequestDSL = 1, !.ResponseDSL = 1],
   [Plain EXCEPT !.ResponseDSL = 2, !.OnRequestCallback = TRUE],
   [Plain EXCEPT !.MatchReplace = TRUE, !.PassThrough = 1]}

\* One filter in each hook, so that they can disagree.
FilterOptions == {[Plain EXCEPT !.RequestDSL = 1, !.ResponseDSL = 1]}

\* One configuration in which both hooks log, one whose response hook is replaced.
LiveOptions ==
  {Plain, [Plain EXCEPT !.PassThrough = 1, !.OnResponseCallback = TRUE]}

\* Sessions are interchangeable in safety runs.
SessionSymmetry == Permutations(Sessions)
=============================================================================
