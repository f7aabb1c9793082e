------------------------------ MODULE MCUsers ------------------------------
(* Users with a few model values. *)
EXTENDS Users
=============================================================================
