---------------------------- MODULE MCSwaggergen ----------------------------
(* Instances of Swaggergen for TLC; the other constants get their values in the cfg. *)
EXTENDS Swaggergen

Exchange(h, p, m, q, s, c, d) ==
  [host |-> h, path |-> p, method |-> m, params |-> q, status |-> s, ctype |-> c, schema |-> d]

\* Three exchanges of one method - two that differ in parameters and schema, one of another
\* status and type -, one of another path and method, and one of another host.
SomeExchanges ==
  {Exchange("h1", "p1", "get", {"q"}, 200, "json", {"id"}),
   Exchange("h1", "p1", "get", {}, 200, "json", {}),
   Exchange("h1", "p1", "get", {}, 404, "html", {}),
   Exchange("h1", "p2", "post", {}, 200, "json", {}),
   Exchange("h2", "p2", "get", {}, 200, "json", {})}
=============================================================================
