----------------------------- MODULE MCAutoClose -----------------------------
(* A small instance of AutoClose for TLC. *)
EXTENDS AutoClose
CONSTANTS s1, c1
RunsValue == {c1, AutoCloser, Worker}
EitherKind == BOOLEAN
=============================================================================
