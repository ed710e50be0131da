--------------------------- MODULE MCHttpServer ---------------------------
(* Small instances of HttpServer for TLC.                                  *)
EXTENDS HttpServer, TLC

(* The workers run the same code, and any free descriptor may be accepted. *)
Symmetry == Permutations(Workers) \cup Permutations(Fds)
=============================================================================
