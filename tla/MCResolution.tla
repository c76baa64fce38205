----------------------------- MODULE MCResolution -----------------------------
(* Small instances of NameResolution for TLC. *)
EXTENDS NameResolution
===============================================================================
