-------------------------- MODULE MCSourceLifecycle --------------------------
(* SourceLifecycle on small instances. *)
EXTENDS SerialLifecycle

CONSTANTS h1, v1, v2
=============================================================================
