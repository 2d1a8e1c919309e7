------------------------------ MODULE FileLock -------------------------------
(***************************************************************************)
(* The locks on a database file as the rest of SQLite relies on them: what *)
(* a connection holds is one of five levels, a level is reached in one     *)
(* step, and the levels of two connections exclude each other whatever     *)
(* threads they belong to.                                                 *)
(*                                                                         *)
(* A connection that rolls back the journal of a dead writer reaches       *)
(* PENDING without RESERVED, while another one may be RESERVED: who holds  *)
(* the reservation is therefore kept beside the levels.                    *)
(***************************************************************************)
EXTENDS Naturals

CONSTANTS
    Conns,      \* connections, of all processes
    pid         \* pid[c]: the process of connection c

VARIABLES
    level,      \* level[c]: the level connection c holds
    reserver    \* the connections (one at most) that hold the reservation

lockVars == <<level, reserver>>

NO_LOCK        == 0
SHARED_LOCK    == 1
RESERVED_LOCK  == 2
PENDING_LOCK   == 3
EXCLUSIVE_LOCK == 4
LockLevels == NO_LOCK .. EXCLUSIVE_LOCK

LockInit ==
    /\ level = [c \in Conns |-> NO_LOCK]
    /\ reserver = {}

Others(c) == Conns \ {c}

Fellows(c) == {d \in Others(c) : pid[d] = pid[c]}

\* A connection that waits to write keeps new readers out, except those of a
\* process that reads already and does not wait itself.
Sharable(c) ==
    /\ level[c] = NO_LOCK
    /\ \A d \in Others(c) : level[d] < EXCLUSIVE_LOCK
    /\ \A d \in Fellows(c) : level[d] < PENDING_LOCK
    /\ \/ \A d \in Others(c) : level[d] < PENDING_LOCK
       \/ \E d \in Fellows(c) : level[d] >= SHARED_LOCK

Share(c) ==
    /\ Sharable(c)
    /\ level' = [level EXCEPT ![c] = SHARED_LOCK]
    /\ UNCHANGED reserver

\* One reader at a time prepares to write.
Reserve(c) ==
    /\ level[c] = SHARED_LOCK
    /\ reserver = {}
    /\ level' = [level EXCEPT ![c] = RESERVED_LOCK]
    /\ reserver' = {c}

\* It waits for the other readers to leave...
Pend(c) ==
    /\ level[c] \in {SHARED_LOCK, RESERVED_LOCK}
    /\ \A d \in Others(c) : level[d] < PENDING_LOCK
    /\ level' = [level EXCEPT ![c] = PENDING_LOCK]
    /\ UNCHANGED reserver

\* ... and is alone.
Exclude(c) ==
    /\ level[c] \in SHARED_LOCK .. PENDING_LOCK
    /\ \A d \in Others(c) : level[d] = NO_LOCK
    /\ level' = [level EXCEPT ![c] = EXCLUSIVE_LOCK]
    /\ UNCHANGED reserver

Lower(c, l) ==
    /\ l \in {NO_LOCK, SHARED_LOCK} /\ l < level[c]
    /\ level' = [level EXCEPT ![c] = l]
    /\ reserver' = reserver \ {c}

\* The process of these connections dies.
Drop(cs) ==
    /\ level' = [c \in Conns |-> IF c \in cs THEN NO_LOCK ELSE level[c]]
    /\ reserver' = reserver \ cs

LockNext ==
    \/ \E c \in Conns :
        \/ Share(c) \/ Reserve(c) \/ Pend(c) \/ Exclude(c)
        \/ \E l \in {NO_LOCK, SHARED_LOCK} : Lower(c, l)
    \/ \E cs \in SUBSET Conns : Drop(cs)

(* The promise of the locks, as a behaviour.                                 *)
LockSpec == LockInit /\ [][LockNext]_lockVars
==============================================================================
