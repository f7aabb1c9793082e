---------------------------- MODULE MCEslClient -----------------------------
(* Two goroutines and the keeper share the connection. *)
EXTENDS EslClient
=============================================================================
