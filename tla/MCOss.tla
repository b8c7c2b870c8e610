------------------------------- MODULE MCOss -------------------------------
(* Finite instances of Oss for TLC. *)
EXTENDS Oss

(* The symbols of the interface are in the last NRO but for one. *)
MCHome == <<5, 4, 5>>
=============================================================================
