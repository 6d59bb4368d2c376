---------------------------- MODULE MCHttpServer ----------------------------
(* Small instances of HttpServer. *)
EXTENDS HttpServer, TLC

MCSymmetry == Permutations(Servers) \cup Permutations(Stoppers) \cup Permutations(Requests)
=============================================================================
