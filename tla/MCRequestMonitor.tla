--------------------------- MODULE MCRequestMonitor ---------------------------
(* The monitor up to a small count of requests, for TLC. *)
EXTENDS RequestMonitor
=============================================================================
