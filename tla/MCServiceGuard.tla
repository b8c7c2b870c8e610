--------------------------- MODULE MCServiceGuard ---------------------------
(* A finite instance of ServiceGuard for TLC. *)
EXTENDS ServiceGuard
=============================================================================
