---------------------------- MODULE MCThreadPool ----------------------------
(* Small instances of ThreadPool for TLC: the cfg files give the values.       *)
EXTENDS ThreadPool
=============================================================================
