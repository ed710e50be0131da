---------------------------- MODULE MCHttpRequest ----------------------------
(* HttpRequest on the instances of its configurations.                     *)
EXTENDS HttpRequest
=============================================================================
