----------------------------- MODULE AtomicFile ------------------------------
(***************************************************************************)
(* What SQLite promises about a database file: transactions see one        *)
(* content and change it as a whole, whatever processes die on the way.    *)
(* A loss of power may take back the last transaction, and no other.       *)
(***************************************************************************)
CONSTANTS
    Users,      \* connections
    Images      \* contents a file can have

VARIABLES
    db,         \* the content committed last
    settled,    \* the content a loss of power may fall back to: db, or the one before
    tx          \* tx[c]: the transaction of connection c

fileVars == <<db, settled, tx>>

NoTx == [mode |-> "none"]
Reading(i) == [mode |-> "read", image |-> i]
Writing(i) == [mode |-> "write", image |-> i]

FileInit ==
    /\ db \in Images
    /\ settled = db
    /\ tx = [c \in Users |-> NoTx]

InWrite(c) == tx[c].mode = "write"

Begin(c) ==
    /\ tx[c] = NoTx
    /\ tx' = [tx EXCEPT ![c] = Reading(db)]
    /\ UNCHANGED <<db, settled>>

BeginToWrite(c) ==
    /\ tx[c].mode = "read"
    /\ \A d \in Users : ~ InWrite(d)
    /\ tx' = [tx EXCEPT ![c].mode = "write"]
    /\ UNCHANGED <<db, settled>>

Change(c) ==
    /\ InWrite(c)
    /\ tx'[c] \in [mode : {"write"}, image : Images]
    /\ tx' = [tx EXCEPT ![c] = tx'[c]]
    /\ UNCHANGED <<db, settled>>

\* Nobody else reads; what was committed before is settled.
Commit(c) ==
    /\ InWrite(c)
    /\ \A d \in Users \ {c} : tx[d] = NoTx
    /\ settled = db
    /\ db' = tx[c].image
    /\ settled' \in {settled, db'}
    /\ tx' = [tx EXCEPT ![c] = Reading(db')]

Undo(c) ==
    /\ InWrite(c)
    /\ tx' = [tx EXCEPT ![c] = Reading(db)]
    /\ UNCHANGED <<db, settled>>

\* One connection ends, or all of a process that dies.
End(cs) ==
    /\ tx' = [c \in Users |-> IF c \in cs THEN NoTx ELSE tx[c]]
    /\ UNCHANGED <<db, settled>>

Settle ==
    /\ settled' = db
    /\ UNCHANGED <<db, tx>>

PowerCut ==
    /\ db' \in {db, settled}
    /\ settled' = db'
    /\ tx' = [c \in Users |-> NoTx]

FileNext ==
    \/ \E c \in Users :
        Begin(c) \/ BeginToWrite(c) \/ Change(c) \/ Commit(c) \/ Undo(c)
    \/ \E cs \in SUBSET Users : End(cs)
    \/ Settle
    \/ PowerCut

(* The promise of the file, as a behaviour.                                  *)
FileSpec == FileInit /\ [][FileNext]_fileVars
==============================================================================
