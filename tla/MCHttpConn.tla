----------------------------- MODULE MCHttpConn -----------------------------
(* Small instances of HttpConn for TLC: the cfg files give the values.     *)
EXTENDS HttpConn
=============================================================================
