-------------------------- MODULE MCRollbackJournal --------------------------
(* Two processes with a connection each, or one with two.                    *)
EXTENDS RollbackJournal, TLC

CONSTANTS server, shell, s1, s2, t1, a, b

OneEach == (s1 :> server) @@ (t1 :> shell)
BothServers == (s1 :> server) @@ (s2 :> server)

\* A process has no state of its own, so that connections may be exchanged.
Interchangeable == Permutations({s1, t1}) \cup Permutations({a, b})

Empty == [p \in Pages |-> Absent]
Seeded(v) == [p \in Pages |-> IF p = 1 THEN 1 ELSE IF p = 2 THEN v ELSE Absent]

\* A database that is there already meets every fault, a new one only the death
\* of processes; see README.
SeededOrNew == {[file |-> Seeded(v), faults |-> {"io", "power"}] : v \in {a, b}}
                    \cup {[file |-> Empty, faults |-> {}]}
SeededOnly == {[file |-> Seeded(a), faults |-> {}]}
==============================================================================
