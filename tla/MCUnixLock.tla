----------------------------- MODULE MCUnixLock ------------------------------
(* Two processes: the server with three connections and one with two.        *)
EXTENDS UnixLock, TLC

CONSTANTS server, shell, s1, s2, s3, t1, t2

Owners == [h \in {s1, s2, s3} |-> server] @@ [h \in {t1, t2} |-> shell]

SameProcess == Permutations({s1, s2, s3}) \cup Permutations({t1, t2})
==============================================================================
