---------------------------- MODULE MCConnection ----------------------------
(* A small instance of Connection for TLC: model values for the identities. *)
EXTENDS Connection
=============================================================================
