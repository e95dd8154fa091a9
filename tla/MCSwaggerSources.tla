--------------------------- MODULE MCSwaggerSources ---------------------------
(* A source behind a user name and a password, after one behind a token that nobody touches; two runs. *)
EXTENDS SwaggerSources, TLC
CONSTANTS orders, stock, r1, r2, r3
MCSources == <<stock, orders>>
MCAuth == (orders :> "basic") @@ (stock :> "bearer")
AnyRun == Permutations(Runs)
=============================================================================
