------------------------------ MODULE MCNoteTx -------------------------------
(* Two writes and a list on at most three connections, and another program.  *)
EXTENDS NoteTx, TLC

CONSTANTS shell, s1, s2, s3, t1

Owners == [c \in {s1, s2, s3} |-> server] @@ (t1 :> shell)
==============================================================================
