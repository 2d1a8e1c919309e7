------------------------------- MODULE NoteTx --------------------------------
(***************************************************************************)
(* The inside of Open, AddNote, UpdateNote, DeleteNote and LoadNotes       *)
(* (DatabaseManager.go): requests on connections of the pool of            *)
(* database/sql, each call a statement of SQLite on sndb.db.               *)
(*                                                                         *)
(* The locks are those of FileLock, and what is committed is there at once *)
(* and for good, as in AtomicFile.  A lock that is refused is asked for    *)
(* again until the busy timeout of the driver has passed (5 s); a step     *)
(* named ...Busy is the end of that wait.  The errors of Commit and of the *)
(* rows of a query are ignored by the code, and an early return leaves its *)
(* transaction neither committed nor rolled back.                          *)
(***************************************************************************)
EXTENDS FileLock, FiniteSets

CONSTANTS
    server,         \* the process of the web server
    Writes,         \* requests that add, change or delete a note
    Lists,          \* requests that list notes
    MaxIdle,        \* free connections the pool keeps
    None            \* no connection

Requests == Writes \cup Lists
Own == {c \in Conns : pid[c] = server}

ASSUME RequestsDiffer == Writes \cap Lists = {}

VARIABLES
    phase,          \* the server: "check", "rebuild", "serving"
    table,          \* the table of notes exists
    db,             \* the writes that are committed
    opened,         \* connections of the server that are open
    pool,           \* those no request uses
    schema,         \* those that know the table
    autoCommit,     \* autoCommit[c]: no BEGIN is in effect
    pending,        \* pending[c]: the writes c has made and not committed
    pc,             \* pc[r]: where request r stands
    conn,           \* conn[r]: its connection
    answer,         \* answer[r]: "saved" or "listed", "failed", or none yet
    shown           \* shown[r]: the writes list r shows

vars ==
    <<phase, table, db, opened, pool, schema, autoCommit, pending,
      pc, conn, answer, shown, lockVars>>
file == <<phase, table, db>>
session == <<autoCommit, pending>>

Init ==
    /\ phase = "check" /\ table \in BOOLEAN /\ db = {}
    /\ opened = {} /\ pool = {} /\ schema = {}
    /\ autoCommit = [c \in Own |-> TRUE]
    /\ pending = [c \in Own |-> {}]
    /\ pc = [r \in Requests |-> "start"]
    /\ conn = [r \in Requests |-> None]
    /\ answer = [r \in Requests |-> "none"]
    /\ shown = [r \in Lists |-> {}]
    /\ LockInit

Go(r, from, to) == phase = "serving" /\ pc[r] = from /\ pc' = [pc EXCEPT ![r] = to]
Answer(r, a) ==
    /\ pc' = [pc EXCEPT ![r] = "done"]
    /\ answer' = [answer EXCEPT ![r] = a]

Show(r, notes) ==
    /\ Answer(r, "listed")
    /\ shown' = [shown EXCEPT ![r] = notes]

------------------------------------------------------------------------------
(* The pool of database/sql                                                  *)

\* A free connection if there is one, else a new one.
MayTake(c) == c \in IF pool # {} THEN pool ELSE Own \ opened

\* (mutant) the connection is taken and stays free
TakeShared(r, c) ==
    /\ MayTake(c)
    /\ opened' = opened \cup {c}
    /\ UNCHANGED pool
    /\ conn' = [conn EXCEPT ![r] = c]

Take(r, c) ==
    /\ MayTake(c)
    /\ opened' = opened \cup {c}
    /\ pool' = pool \ {c}
    /\ conn' = [conn EXCEPT ![r] = c]

Keeps == Cardinality(pool) < MaxIdle

\* Back to the pool, with all that was begun on it...
Keep(c) ==
    /\ Keeps
    /\ pool' = pool \cup {c}
    /\ UNCHANGED <<opened, schema, conn>>

\* ... or closed, which rolls back (sqlite3_close_v2).
Close(c) ==
    /\ ~ Keeps
    /\ opened' = opened \ {c}
    /\ schema' = schema \ {c}
    /\ UNCHANGED <<pool, conn>>

Ended(c) ==
    /\ autoCommit' = [autoCommit EXCEPT ![c] = TRUE]
    /\ pending' = [pending EXCEPT ![c] = {}]

Unlock(c) ==
    IF level[c] = NO_LOCK THEN UNCHANGED lockVars ELSE Lower(c, NO_LOCK)

\* The connection goes back after its transaction has ended,
GiveBack(c) == (Keep(c) \/ Close(c)) /\ Ended(c) /\ Unlock(c)

\* or while it is open.
GiveBackOpen(c) ==
    \/ Keep(c) /\ UNCHANGED <<session, lockVars>>
    \/ Close(c) /\ Ended(c) /\ Unlock(c)

------------------------------------------------------------------------------
(* Open, before the first request                                            *)

Serve(c, knows) ==
    /\ phase' = "serving"
    /\ opened' = {c} /\ pool' = {c}
    /\ schema' = IF knows THEN {c} ELSE {}
    /\ UNCHANGED <<session, pc, conn, answer, shown, lockVars>>

\* checkDBValidity
OpenValid(c) ==
    /\ phase = "check"
    /\ table /\ Sharable(c)
    /\ Serve(c, TRUE)
    /\ UNCHANGED <<table, db>>

\* The query fails: for want of the table, or of a lock, or by an I/O error.
OpenInvalid ==
    /\ phase = "check"
    /\ phase' = "rebuild"
    /\ UNCHANGED <<table, db, opened, pool, schema, session, pc, conn, answer, shown, lockVars>>

\* (mutant) the file that is removed is the database
InitializeRemoved(c) ==
    /\ phase = "rebuild"
    /\ table' = TRUE /\ db' = {}
    /\ Serve(c, TRUE)

\* initializeDB, which removes ./foo.db: the table is created,
InitializeDB(c) ==
    /\ phase = "rebuild"
    /\ ~ table /\ \A d \in Conns : level[d] = NO_LOCK
    /\ table' = TRUE
    /\ Serve(c, TRUE)
    /\ UNCHANGED db

\* or it is there, or a lock is not to be had, or an I/O error: the error is
\* ignored.
InitializeFails(c) ==
    /\ phase = "rebuild"
    /\ \E knows \in BOOLEAN : Serve(c, knows)
    /\ UNCHANGED <<table, db>>

------------------------------------------------------------------------------
(* AddNote, UpdateNote, DeleteNote                                           *)

\* (mutant) BEGIN is taken for done if a transaction is open already
BeginAnyway(r, c) ==
    /\ r \in Writes /\ Go(r, "start", "prepare")
    /\ Take(r, c)
    /\ autoCommit' = [autoCommit EXCEPT ![c] = FALSE]
    /\ UNCHANGED <<file, schema, pending, answer, shown, lockVars>>

\* BEGIN, which is deferred: no lock is taken.
Begin(r, c) ==
    /\ r \in Writes /\ Go(r, "start", "prepare")
    /\ Take(r, c)
    /\ autoCommit[c]
    /\ autoCommit' = [autoCommit EXCEPT ![c] = FALSE]
    /\ UNCHANGED <<file, schema, pending, answer, shown, lockVars>>

\* "cannot start a transaction within a transaction"
BeginRefused(r, c) ==
    /\ r \in Writes /\ pc[r] = "start" /\ phase = "serving"
    /\ MayTake(c) /\ ~ autoCommit[c]
    /\ Answer(r, "failed")
    /\ UNCHANGED <<file, opened, pool, schema, session, conn, shown, lockVars>>

\* A connection reads the schema before its first statement; there has to be
\* a table in it.
Knows(c) == table /\ (c \in schema \/ Sharable(c))

Prepare(r) ==
    LET c == conn[r] IN
    /\ Go(r, "prepare", "exec")
    /\ Knows(c)
    /\ schema' = schema \cup {c}
    /\ UNCHANGED <<file, opened, pool, session, conn, answer, shown, lockVars>>

\* The transaction is left as it is, and its connection never given back.
PrepareFails(r) ==
    /\ pc[r] = "prepare"
    /\ ~ Knows(conn[r])
    /\ Answer(r, "failed")
    /\ UNCHANGED <<file, opened, pool, schema, session, conn, shown, lockVars>>

\* An open transaction has its locks already.
GetShared(c) == IF level[c] = NO_LOCK THEN Share(c) ELSE UNCHANGED lockVars
NoShared(c) == level[c] = NO_LOCK /\ ~ Sharable(c)

GetReserved(c) ==
    IF level[c] >= RESERVED_LOCK THEN UNCHANGED lockVars ELSE Reserve(c)

\* sqlite3BtreeBeginTrans: SHARED, then RESERVED.
ExecShared(r) ==
    /\ Go(r, "exec", "reserve")
    /\ GetShared(conn[r])
    /\ UNCHANGED <<file, opened, pool, schema, session, conn, answer, shown>>

ExecReserved(r) ==
    LET c == conn[r] IN
    /\ Go(r, "reserve", "commit")
    /\ GetReserved(c)
    /\ pending' = [pending EXCEPT ![c] = @ \cup {r}]
    /\ UNCHANGED <<file, opened, pool, schema, autoCommit, conn, answer, shown>>

\* Another writer is at work: SHARED is dropped before the next attempt.
ExecAgain(r) ==
    /\ Go(r, "reserve", "exec")
    /\ reserver \ {conn[r]} # {}
    /\ Lower(conn[r], NO_LOCK)
    /\ UNCHANGED <<file, opened, pool, schema, session, conn, answer, shown>>

\* (mutant) SHARED is kept when RESERVED is refused
ExecBusyShared(r) ==
    /\ \/ pc[r] = "exec" /\ NoShared(conn[r])
       \/ pc[r] = "reserve" /\ reserver \ {conn[r]} # {}
    /\ Answer(r, "failed")
    /\ UNCHANGED <<file, opened, pool, schema, session, conn, shown, lockVars>>

\* (mutant) an attempt is repeated without end
ExecBusyNever(r) == FALSE /\ UNCHANGED vars

ExecBusy(r) ==
    /\ \/ pc[r] = "exec" /\ NoShared(conn[r])
       \/ pc[r] = "reserve" /\ reserver \ {conn[r]} # {}
    /\ Answer(r, "failed")
    /\ Unlock(conn[r])
    /\ UNCHANGED <<file, opened, pool, schema, session, conn, shown>>

\* (mutant) a failure does not end the transaction
ExecFailsOpen(r) ==
    LET c == conn[r] IN
    /\ pc[r] = "reserve"
    /\ Answer(r, "failed")
    /\ Reserve(c)
    /\ pending' = [pending EXCEPT ![c] = {r}]
    /\ UNCHANGED <<file, opened, pool, schema, autoCommit, conn, shown>>

\* An I/O error ends the whole transaction (sqlite3VdbeHalt).
ExecFails(r) ==
    /\ pc[r] = "reserve"
    /\ Answer(r, "failed")
    /\ Ended(conn[r])
    /\ Unlock(conn[r])
    /\ UNCHANGED <<file, opened, pool, schema, conn, shown>>

CommitWait(r) ==
    /\ pc[r] = "commit"
    /\ Pend(conn[r])
    /\ UNCHANGED <<file, opened, pool, schema, session, pc, conn, answer, shown>>

CommitAlone(r) ==
    /\ Go(r, "commit", "write")
    /\ Exclude(conn[r])
    /\ UNCHANGED <<file, opened, pool, schema, session, conn, answer, shown>>

Commit(r) ==
    /\ pc[r] = "write"
    /\ Answer(r, "saved")
    /\ db' = db \cup pending[conn[r]]
    /\ GiveBack(conn[r])
    /\ UNCHANGED <<phase, table, shown>>

\* Readers are left: the transaction stays open, the answer is the same.
CommitBusy(r) ==
    /\ pc[r] = "commit"
    /\ \E d \in Others(conn[r]) : level[d] # NO_LOCK
    /\ Answer(r, "saved")
    /\ GiveBackOpen(conn[r])
    /\ UNCHANGED <<file, shown>>

\* An I/O error, a full disk: it is rolled back, the answer is the same.
CommitFails(r) ==
    /\ pc[r] \in {"commit", "write"}
    /\ Answer(r, "saved")
    /\ GiveBack(conn[r])
    /\ UNCHANGED <<file, shown>>

------------------------------------------------------------------------------
(* LoadNotes                                                                 *)

Query(r, c) ==
    /\ r \in Lists /\ Go(r, "start", "rows")
    /\ Take(r, c)
    /\ Knows(c)
    /\ schema' = schema \cup {c}
    /\ UNCHANGED <<file, session, answer, shown, lockVars>>

\* The error of Query is looked at.
QueryFails(r, c) ==
    /\ r \in Lists /\ pc[r] = "start" /\ phase = "serving"
    /\ MayTake(c) /\ ~ Knows(c)
    /\ Answer(r, "failed")
    /\ opened' = opened \cup {c}
    /\ pool' = pool \cup {c}
    /\ UNCHANGED <<file, schema, session, conn, shown, lockVars>>

\* The first row takes the lock, unless a transaction is open and has it.
FirstRow(r) ==
    /\ Go(r, "rows", "reading")
    /\ GetShared(conn[r])
    /\ UNCHANGED <<file, opened, pool, schema, session, conn, answer, shown>>

\* The error of the rows is not: an empty list is shown.
RowsBusy(r) ==
    /\ pc[r] = "rows"
    /\ NoShared(conn[r])
    /\ Show(r, {})
    /\ GiveBackOpen(conn[r])
    /\ UNCHANGED file

\* A connection sees what it has not committed.
View(c) == db \cup pending[c]

LastRow(r) ==
    LET c == conn[r] IN
    /\ pc[r] = "reading"
    /\ Show(r, View(c))
    /\ IF autoCommit[c] THEN GiveBack(c) ELSE GiveBackOpen(c)
    /\ UNCHANGED file

\* An I/O error cuts the list short, and ends an open transaction.
RowFails(r) ==
    /\ pc[r] = "reading"
    /\ \E s \in SUBSET View(conn[r]) : Show(r, s)
    /\ GiveBack(conn[r])
    /\ UNCHANGED file

------------------------------------------------------------------------------
(* Other processes, and the end of this one                                  *)

\* Somebody reads the file with another program.
ReadElsewhere(c) ==
    /\ c \notin Own
    /\ Share(c)
    /\ UNCHANGED <<file, opened, pool, schema, session, pc, conn, answer, shown>>

ReadElsewhereEnds(c) ==
    /\ c \notin Own
    /\ Lower(c, NO_LOCK)
    /\ UNCHANGED <<file, opened, pool, schema, session, pc, conn, answer, shown>>

Crash ==
    /\ phase' = "check"
    /\ opened' = {} /\ pool' = {} /\ schema' = {}
    /\ autoCommit' = [c \in Own |-> TRUE]
    /\ pending' = [c \in Own |-> {}]
    /\ pc' = [r \in Requests |-> IF pc[r] = "start" THEN "start" ELSE "done"]
    /\ conn' = [r \in Requests |-> None]
    /\ Drop(Own)
    /\ UNCHANGED <<table, db, answer, shown>>

Start(c) == OpenValid(c) \/ InitializeDB(c) \/ InitializeFails(c)

Step(r) ==
    \/ \E c \in Own :
        Begin(r, c) \/ BeginRefused(r, c) \/ Query(r, c) \/ QueryFails(r, c)
    \/ Prepare(r) \/ PrepareFails(r)
    \/ ExecShared(r) \/ ExecReserved(r) \/ ExecAgain(r) \/ ExecBusy(r)
    \/ CommitWait(r) \/ CommitAlone(r) \/ Commit(r) \/ CommitBusy(r)
    \/ FirstRow(r) \/ RowsBusy(r) \/ LastRow(r)

Fault(r) == ExecFails(r) \/ CommitFails(r) \/ RowFails(r)

Next ==
    \/ \E r \in Requests : Step(r) \/ Fault(r)
    \/ \E c \in Own : Start(c)
    \/ OpenInvalid
    \/ \E c \in Conns : ReadElsewhere(c) \/ ReadElsewhereEnds(c)
    \/ Crash

Spec == Init /\ [][Next]_vars

(* Every goroutine goes on, and the attempts to get RESERVED come to an end:  *)
(* by getting it, or with the busy timeout.  No fault has to happen.         *)
FairSpec ==
    /\ Spec
    /\ \A r \in Requests :
        /\ WF_vars(Step(r))
        /\ SF_vars(ExecReserved(r) \/ ExecBusy(r))

------------------------------------------------------------------------------
(* Properties                                                                *)

Uses(r, c) == pc[r] \notin {"start", "done"} /\ conn[r] = c

TypeOK ==
    /\ phase \in {"check", "rebuild", "serving"} /\ table \in BOOLEAN
    /\ db \subseteq Writes
    /\ pool \subseteq opened /\ opened \subseteq Own /\ schema \subseteq opened
    /\ autoCommit \in [Own -> BOOLEAN] /\ pending \in [Own -> SUBSET Writes]
    /\ \A c \in Own, r, s \in Requests : Uses(r, c) /\ Uses(s, c) => r = s
    /\ \A r \in Requests, c \in Own : Uses(r, c) => c \in opened \ pool

(* A connection that an early return has lost to the pool, its transaction   *)
(* still open, keeps no lock and no change: it bars nobody.                  *)
LostHoldsNothing ==
    \A c \in opened \ pool :
        (\A r \in Requests : ~ Uses(r, c)) => level[c] = NO_LOCK /\ pending[c] = {}

(* What a call to the database manager changes, it changes at once and by    *)
(* itself: no commit carries along what an earlier request left on the same  *)
(* connection of the pool, and no restart that takes a database in use for   *)
(* an invalid one loses notes.                                               *)
CommitsOwnWrite ==
    [][db' # db => \E r \in Writes : pc[r] = "write" /\ db' = db \cup {r}]_vars

(* A write whose request was told that it failed never comes into effect and *)
(* is in no list, whatever later requests do with its connection.            *)
FailedLeavesNothing ==
    \A r \in Writes : answer[r] = "failed" =>
        /\ r \notin db
        /\ \A c \in Own : r \notin pending[c]
        /\ \A l \in Lists : r \notin shown[l]

(* Every request is answered or dies with the server, whoever holds locks    *)
(* for however long, if only the server comes up for good at some time.      *)
Served == <>[](phase = "serving") => \A r \in Requests : <>(pc[r] = "done")

(* A write whose request was told that it was saved is saved: newNoteHandler *)
(* and saveNoteHandler answer an error if there was one, and redirect only   *)
(* otherwise.                                                                *)
SavedIsKept == \A r \in Writes : answer[r] = "saved" => r \in db
==============================================================================
