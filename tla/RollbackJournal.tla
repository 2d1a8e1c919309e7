--------------------------- MODULE RollbackJournal ---------------------------
(***************************************************************************)
(* How SQLite reads and writes sndb.db through its rollback journal        *)
(* sndb.db-journal (sqlite3-binding.c, pager.c, journal_mode=DELETE and    *)
(* synchronous=FULL, which are the defaults nobody changes here).          *)
(*                                                                         *)
(* A writer copies each page to the journal before it changes it, makes    *)
(* the journal durable, writes the pages to the file, makes the file       *)
(* durable and unlinks the journal: that commits.  A journal whose writer  *)
(* is gone is hot, and who reads next restores the file from it.           *)
(*                                                                         *)
(* Connections of several processes act between any two system calls; a    *)
(* process may die between any two; a loss of power leaves of the writes   *)
(* that were not synced what it likes.  Locks are those of FileLock, which *)
(* UnixLock implements.                                                    *)
(***************************************************************************)
EXTENDS FileLock, FiniteSetsExt, Sequences

CONSTANTS
    Values,         \* contents of a page other than the first
    MaxPage,        \* pages the file may grow to
    MaxCounter,     \* bound: no transaction writes at this change counter
    Absent, Junk,   \* no such page (or zeros); a page written by halves
    Starts          \* the files to begin with, and the faults each may meet

Pages == 1 .. MaxPage
Counters == 0 .. MaxCounter
\* Of page 1 only the change counter matters.
Contents == Counters \cup Values \cup {Absent, Junk}

ASSUME BoundsAssumption == MaxPage \in Nat \ {0} /\ MaxCounter \in Nat

ASSUME AbsentIsNone == Absent \notin Counters \cup Values \cup {Junk}

\* A file has a first page or none.  A new one meets no fault but the death of
\* processes: its journal, which says that there was nothing, is deleted as a
\* remnant before what a rollback took from the file is durable.
ASSUME StartsAssumption ==
    \A s \in Starts :
        /\ s.file \in [Pages -> Contents] /\ s.faults \subseteq {"io", "power"}
        /\ \/ s.file[1] \in Counters
           \/ s.file = [p \in Pages |-> Absent] /\ s.faults = {}

VARIABLES
    cur, disk,      \* the file as processes see it, and what is durable of it
    jcur, jdisk,    \* the journal, likewise
    linked,         \* the directory names jcur durably
    at,             \* at[c]: where connection c stands
    cache,          \* cache[c]: the pages c has in memory
    dirty,          \* dirty[c]: those it has changed
    dbFileVers,     \* dbFileVers[c]: the change counter c read or wrote last
    todo,           \* todo[c]: the journal record c restores next
    faults          \* "io": a write, sync or unlink may fail; "power" may be lost

files == <<cur, disk, jcur, jdisk, linked>>
locals == <<cache, dirty, dbFileVers, todo>>
vars == <<files, locals, at, faults, lockVars>>

NPages(f) == Max({0} \cup {p \in Pages : f[p] # Absent})
Version(f) == IF f[1] = Absent THEN 0 ELSE f[1]

NoFile == [hdr |-> "none"]
\* The header holds zeros until the records are durable.
Journal(hdr, size, recs) == [hdr |-> hdr, size |-> size, recs |-> recs]
Valid(j) == j.hdr = "valid"
Saved(j, p) == \E i \in DOMAIN j.recs : j.recs[i].pgno = p
Original(j, p) == (CHOOSE r \in {j.recs[i] : i \in DOMAIN j.recs} : r.pgno = p).data

Init ==
    /\ \E s \in Starts : cur = s.file /\ faults = s.faults
    /\ disk = cur
    /\ jcur = NoFile /\ jdisk = NoFile /\ linked = FALSE
    /\ at = [c \in Conns |-> "open"]
    /\ cache = [c \in Conns |-> << >>]
    /\ dirty = [c \in Conns |-> {}]
    /\ dbFileVers = [c \in Conns |-> 0]
    /\ todo = [c \in Conns |-> 0]
    /\ LockInit

Go(c, from, to) == at[c] = from /\ at' = [at EXCEPT ![c] = to]

KeepFile == UNCHANGED <<cur, disk>>
KeepJournal == UNCHANGED <<jcur, jdisk, linked>>
KeepFiles == UNCHANGED files

\* Other than by unlinking, which alone the directory need not learn of.
Unlink == jcur' = NoFile /\ linked' = FALSE /\ UNCHANGED jdisk

SetCache(c, pages) == cache' = [cache EXCEPT ![c] = pages]

------------------------------------------------------------------------------
(* sqlite3PagerSharedLock: the lock, then the search for a hot journal       *)

GetShared(c) ==
    /\ Go(c, "open", "exists")
    /\ Share(c)
    /\ KeepFiles /\ UNCHANGED <<locals, faults>>

\* hasHotJournal asks four questions, and the answers may change in between.
FindJournal(c) ==
    /\ Go(c, "exists", IF jcur = NoFile THEN "validate" ELSE "reserved")
    /\ KeepFiles /\ UNCHANGED <<locals, faults, lockVars>>

\* unixCheckReservedLock
ReservedLock(c) == reserver # {} \/ \E d \in Fellows(c) : level[d] > SHARED_LOCK

CheckReserved(c) ==
    /\ Go(c, "reserved", IF ReservedLock(c) THEN "validate" ELSE "size")
    /\ KeepFiles /\ UNCHANGED <<locals, faults, lockVars>>

CheckSize(c) ==
    /\ Go(c, "size", IF NPages(cur) = 0 THEN "remnant" ELSE "first")
    /\ KeepFiles /\ UNCHANGED <<locals, faults, lockVars>>

\* (mutant) it is deleted without the lock
DeleteUnreserved(c) ==
    /\ Go(c, "remnant", "validate")
    /\ Unlink
    /\ KeepFile /\ UNCHANGED <<locals, faults, lockVars>>

\* The journal of an empty database is deleted, under RESERVED...
ReserveRemnant(c) ==
    /\ Go(c, "remnant", "delete")
    /\ Reserve(c)
    /\ KeepFiles /\ UNCHANGED <<locals, faults>>

\* ... if that is to be had.
LeaveRemnant(c) ==
    /\ Go(c, "remnant", "validate")
    /\ ReservedLock(c)
    /\ KeepFiles /\ UNCHANGED <<locals, faults, lockVars>>

DeleteRemnant(c) ==
    /\ Go(c, "delete", "validate")
    /\ Unlink
    /\ Lower(c, SHARED_LOCK)
    /\ KeepFile /\ UNCHANGED <<locals, faults>>

\* A journal that cannot be opened any more counts as hot.
ReadFirstByte(c) ==
    /\ Go(c, "first", IF jcur = NoFile \/ Valid(jcur) THEN "hot" ELSE "validate")
    /\ KeepFiles /\ UNCHANGED <<locals, faults, lockVars>>

------------------------------------------------------------------------------
(* The hot journal is rolled back under an EXCLUSIVE lock                    *)

LockHot(c) ==
    /\ Go(c, "hot", "reopen")
    /\ Exclude(c)
    /\ KeepFiles /\ UNCHANGED <<locals, faults>>

HotPending(c) ==
    /\ Go(c, "hot", "give_up")
    /\ Pend(c)
    /\ KeepFiles /\ UNCHANGED <<locals, faults>>

\* The lock is not to be had: SQLITE_BUSY, and pager_unlock.
HotBusy(c) ==
    /\ at[c] \in {"hot", "give_up"} /\ at' = [at EXCEPT ![c] = "open"]
    /\ Lower(c, NO_LOCK)
    /\ KeepFiles /\ UNCHANGED <<locals, faults>>

\* Somebody else has rolled it back by now.
HotGone(c) ==
    /\ Go(c, "reopen", "validate")
    /\ jcur = NoFile
    /\ Lower(c, SHARED_LOCK)
    /\ KeepFiles /\ UNCHANGED <<locals, faults>>

SyncHotJournal(c) ==
    /\ Go(c, "reopen", "playback")
    /\ jcur # NoFile
    /\ jdisk' = IF linked THEN jcur ELSE jdisk
    /\ SetCache(c, << >>)
    /\ KeepFile
    /\ UNCHANGED <<jcur, linked, dirty, dbFileVers, todo, faults, lockVars>>

\* pager_playback: without a header there is nothing to restore, else the file
\* gets its size back...
Truncate(c) ==
    /\ Go(c, "playback", "restore")
    /\ cur' = IF Valid(jcur)
              THEN [p \in Pages |-> IF p <= jcur.size THEN cur[p] ELSE Absent]
              ELSE cur
    /\ todo' = [todo EXCEPT ![c] = 1]
    /\ UNCHANGED <<disk, jcur, jdisk, linked, cache, dirty, dbFileVers, faults, lockVars>>

HasRecord(c) == Valid(jcur) /\ todo[c] <= Len(jcur.recs)

\* ... and its pages, one by one.
RestorePage(c) ==
    LET r == jcur.recs[todo[c]] IN
    /\ at[c] = "restore" /\ HasRecord(c)
    /\ cur' = [cur EXCEPT ![r.pgno] = r.data]
    /\ todo' = [todo EXCEPT ![c] = @ + 1]
    /\ UNCHANGED <<disk, jcur, jdisk, linked, cache, dirty, dbFileVers, faults>>
    /\ UNCHANGED <<at, lockVars>>

SyncRestored(c) ==
    /\ Go(c, "restore", "restored")
    /\ ~ HasRecord(c)
    /\ disk' = cur
    /\ todo' = [todo EXCEPT ![c] = 0]
    /\ UNCHANGED <<cur, cache, dirty, dbFileVers, faults, lockVars>> /\ KeepJournal

\* pager_end_transaction.  A connection that rolled back its own transaction
\* goes on reading, one that met a hot journal looks at its cache first.
EndPlayback(c) ==
    /\ Go(c, "restored", IF c \in reserver THEN "reader" ELSE "validate")
    /\ Unlink
    /\ Lower(c, SHARED_LOCK)
    /\ KeepFile /\ UNCHANGED <<locals, faults>>

------------------------------------------------------------------------------
(* The cache is kept between transactions if the change counter is the same  *)

\* lockBtree gets page 1 and keeps it; if there is none, zeros.
FirstPage(c, pages) ==
    IF 1 \in DOMAIN pages THEN pages ELSE [p \in DOMAIN pages \cup {1} |->
                                            IF p = 1 THEN cur[1] ELSE pages[p]]

ValidateCache(c) ==
    LET fresh == dbFileVers[c] = Version(cur)
        kept == IF fresh THEN cache[c] ELSE << >>
        read == 1 \notin DOMAIN kept /\ NPages(cur) > 0
    IN
    /\ Go(c, "validate", "reader")
    /\ SetCache(c, FirstPage(c, kept))
    /\ dbFileVers' = [dbFileVers EXCEPT ![c] = IF read THEN cur[1] ELSE @]
    /\ KeepFiles /\ UNCHANGED <<dirty, todo, faults, lockVars>>

InTx(c) == at[c] \in {"reader", "locked", "cachemod", "counted"}

\* readDbPage
ReadPage(c, p) ==
    /\ InTx(c)
    /\ p \in 2 .. NPages(cur) /\ p \notin DOMAIN cache[c]
    /\ SetCache(c, [q \in DOMAIN cache[c] \cup {p} |->
                        IF q = p THEN cur[p] ELSE cache[c][q]])
    /\ KeepFiles /\ UNCHANGED <<at, dirty, dbFileVers, todo, faults, lockVars>>

\* unlockBtreeIfUnused, pager_unlock: the cache stays.
EndRead(c) ==
    /\ Go(c, "reader", "open")
    /\ Lower(c, NO_LOCK)
    /\ KeepFiles /\ UNCHANGED <<locals, faults>>

------------------------------------------------------------------------------
(* A transaction that writes                                                 *)

\* sqlite3PagerBegin
BeginWrite(c) ==
    /\ Go(c, "reader", "locked")
    /\ dbFileVers[c] < MaxCounter
    /\ Reserve(c)
    /\ KeepFiles /\ UNCHANGED <<locals, faults>>

\* It may end without having written.
EndUnwritten(c) ==
    /\ Go(c, "locked", "reader")
    /\ Lower(c, SHARED_LOCK)
    /\ KeepFiles /\ UNCHANGED <<locals, faults>>

\* pager_write: the first one opens the journal; a page the file had before the
\* transaction is copied to the journal before it is changed.
Put(c, p, v) ==
    LET opened == IF at[c] = "locked"
                  THEN Journal("zero", NPages(cur), << >>)
                  ELSE jcur
        copied == p <= opened.size /\ ~ Saved(opened, p)
    IN
    /\ jcur' = IF copied
               THEN [opened EXCEPT !.recs = Append(@, [pgno |-> p, data |-> cache[c][p]])]
               ELSE opened
    /\ SetCache(c, [q \in DOMAIN cache[c] \cup {p} |-> IF q = p THEN v ELSE cache[c][q]])
    /\ dirty' = [dirty EXCEPT ![c] = @ \cup {p}]
    /\ KeepFile
    /\ UNCHANGED <<jdisk, linked, dbFileVers, todo, faults, lockVars>>

\* The pages a connection sees, and how many.
View(c) == [p \in Pages |-> IF p \in DOMAIN cache[c] THEN cache[c][p] ELSE cur[p]]

\* newDatabase
CreateDatabase(c) ==
    /\ Go(c, "locked", "cachemod")
    /\ NPages(cur) = 0
    /\ Put(c, 1, 0)

WritePage(c, p, v) ==
    /\ at[c] \in {"locked", "cachemod", "counted"}
    /\ at' = [at EXCEPT ![c] = IF @ = "locked" THEN "cachemod" ELSE @]
    /\ p > 1 /\ p <= NPages(View(c)) + 1 /\ NPages(View(c)) > 0
    /\ p <= NPages(View(c)) => p \in DOMAIN cache[c]
    /\ Put(c, p, v)

\* (mutant) a commit leaves the change counter alone
LeaveChangeCounter(c) ==
    /\ Go(c, "cachemod", "counted")
    /\ Put(c, 1, cache[c][1])

\* sqlite3PagerCommitPhaseOne begins with the counter...
IncrChangeCounter(c) ==
    /\ Go(c, "cachemod", "counted")
    /\ Put(c, 1, dbFileVers[c] + 1)

\* ... and the EXCLUSIVE lock.
LockForCommit(c) ==
    /\ Go(c, "counted", "sync_records")
    /\ Exclude(c)
    /\ KeepFiles /\ UNCHANGED <<locals, faults>>

\* Readers are left: SQLITE_BUSY, and the transaction stays open.
CommitBusy(c) ==
    /\ at[c] = "counted"
    /\ Pend(c)
    /\ KeepFiles /\ UNCHANGED <<at, locals, faults>>

\* syncJournal: the records and the name of the journal become durable...
SyncRecords(c) ==
    /\ Go(c, "sync_records", "header")
    /\ jdisk' = jcur /\ linked' = TRUE
    /\ KeepFile /\ UNCHANGED <<jcur, locals, faults, lockVars>>

\* ... then their number is written to the header...
WriteHeader(c) ==
    /\ Go(c, "header", "sync_header")
    /\ jcur' = [jcur EXCEPT !.hdr = "valid"]
    /\ KeepFile /\ UNCHANGED <<jdisk, linked, locals, faults, lockVars>>

\* (mutant) the header is not synced before the file is written
SkipSync(c) ==
    /\ Go(c, "sync_header", "dbmod")
    /\ KeepFiles /\ UNCHANGED <<locals, faults, lockVars>>

\* ... which becomes durable in turn.
SyncHeader(c) ==
    /\ Go(c, "sync_header", "dbmod")
    /\ jdisk' = jcur
    /\ KeepFile /\ UNCHANGED <<jcur, linked, locals, faults, lockVars>>

\* pager_write_pagelist
StorePage(c) ==
    LET p == Min(dirty[c]) IN
    /\ at[c] = "dbmod" /\ dirty[c] # {}
    /\ cur' = [cur EXCEPT ![p] = cache[c][p]]
    /\ dirty' = [dirty EXCEPT ![c] = @ \ {p}]
    /\ dbFileVers' = [dbFileVers EXCEPT ![c] = IF p = 1 THEN cache[c][1] ELSE @]
    /\ UNCHANGED <<disk, at, cache, todo, faults, lockVars>> /\ KeepJournal

\* sqlite3PagerSync
SyncFile(c) ==
    /\ Go(c, "dbmod", "finished")
    /\ dirty[c] = {}
    /\ disk' = cur
    /\ UNCHANGED <<cur, locals, faults, lockVars>> /\ KeepJournal

\* sqlite3PagerCommitPhaseTwo
Finish(c) ==
    /\ Go(c, "finished", "reader")
    /\ Unlink
    /\ Lower(c, SHARED_LOCK)
    /\ KeepFile /\ UNCHANGED <<locals, faults>>

------------------------------------------------------------------------------
(* sqlite3PagerRollback                                                      *)

Unwritten == {"cachemod", "counted", "sync_records", "header", "sync_header"}
Written == {"dbmod", "finished"}

\* Pages in memory are restored from the journal; page 1 is held, and zeroed
\* if the file had none.
Restored(c) ==
    [p \in {q \in DOMAIN cache[c] : q <= jcur.size \/ q = 1} |->
        IF Saved(jcur, p) THEN Original(jcur, p)
        ELSE IF p > jcur.size THEN Absent
        ELSE cache[c][p]]

\* (mutant) pages stay marked as changed
RestoreDirty(c) ==
    /\ SetCache(c, Restored(c))
    /\ dbFileVers' = [dbFileVers EXCEPT ![c] =
                        IF Saved(jcur, 1) THEN Original(jcur, 1) ELSE @]
    /\ UNCHANGED <<dirty, todo, faults>>

RestoreCache(c) ==
    /\ SetCache(c, Restored(c))
    /\ dirty' = [dirty EXCEPT ![c] = {}]
    /\ dbFileVers' = [dbFileVers EXCEPT ![c] =
                        IF Saved(jcur, 1) THEN Original(jcur, 1) ELSE @]
    /\ UNCHANGED <<todo, faults>>

\* On request as long as the commit has not begun, on a failure later.
MayRollback(c) == at[c] \in {"cachemod", "counted"} \/ "io" \in faults

\* As long as the file was not written, the journal is only deleted.
RollbackMemory(c) ==
    /\ at[c] \in Unwritten /\ at' = [at EXCEPT ![c] = "reader"]
    /\ MayRollback(c)
    /\ RestoreCache(c)
    /\ Unlink
    /\ Lower(c, SHARED_LOCK)
    /\ KeepFile

RollbackFile(c) ==
    /\ at[c] \in Written /\ at' = [at EXCEPT ![c] = "playback"]
    /\ "io" \in faults
    /\ RestoreCache(c)
    /\ KeepFiles /\ UNCHANGED lockVars

\* The deletion fails: the lock is lowered all the same, and pager_error.
UnlinkFails(c) ==
    /\ at[c] \in {"restored", "finished"} \cup Unwritten
    /\ at' = [at EXCEPT ![c] = "error"]
    /\ "io" \in faults
    /\ Lower(c, SHARED_LOCK)
    /\ KeepFiles /\ UNCHANGED <<locals, faults>>

\* The rollback itself fails.
RollbackFails(c) ==
    /\ at[c] \in {"playback", "restore"} \cup Unwritten
    /\ at' = [at EXCEPT ![c] = "error"]
    /\ "io" \in faults
    /\ KeepFiles /\ UNCHANGED <<locals, faults, lockVars>>

\* pager_unlock in the error state: the cache cannot be trusted.
ClearError(c) ==
    /\ Go(c, "error", "open")
    /\ Lower(c, NO_LOCK)
    /\ SetCache(c, << >>)
    /\ dirty' = [dirty EXCEPT ![c] = {}]
    /\ todo' = [todo EXCEPT ![c] = 0]
    /\ KeepFiles /\ UNCHANGED <<dbFileVers, faults>>

------------------------------------------------------------------------------
(* Crashes                                                                   *)

Forget(cs) ==
    /\ at' = [c \in Conns |-> IF c \in cs THEN "open" ELSE at[c]]
    /\ cache' = [c \in Conns |-> IF c \in cs THEN << >> ELSE cache[c]]
    /\ dirty' = [c \in Conns |-> IF c \in cs THEN {} ELSE dirty[c]]
    /\ dbFileVers' = [c \in Conns |-> IF c \in cs THEN 0 ELSE dbFileVers[c]]
    /\ todo' = [c \in Conns |-> IF c \in cs THEN 0 ELSE todo[c]]
    /\ Drop(cs)
    /\ UNCHANGED faults

\* A process dies.
Kill(p) ==
    /\ Forget({c \in Conns : pid[c] = p})
    /\ KeepFiles

\* Of each page not synced, the old or the new content or neither is there.
FilesLeft ==
    {f \in [Pages -> Contents] :
        \A p \in Pages :
            /\ f[p] \in IF cur[p] = disk[p] THEN {cur[p]} ELSE {cur[p], disk[p], Junk}
            /\ f[p] = Absent => NPages(f) < p}

\* Of the journal, the old or the new header, and no record for sure that was
\* not synced; and its last unlinking may not have reached the directory.
\* What follows a header of zeros is never looked at.
JournalsLeft ==
    LET left == {jdisk} \cup (IF linked THEN {jcur} ELSE {NoFile})
                       \cup (IF linked /\ jdisk.recs # jcur.recs
                             THEN {[jcur EXCEPT !.recs = << >>]} ELSE {})
    IN  {IF j.hdr = "zero" THEN Journal("zero", 0, << >>) ELSE j : j \in left}

PowerLoss ==
    /\ "power" \in faults
    /\ cur' \in FilesLeft
    /\ jcur' \in JournalsLeft
    /\ disk' = cur' /\ jdisk' = jcur' /\ linked' = (jcur' # NoFile)
    /\ Forget(Conns)

------------------------------------------------------------------------------
Next ==
    \/ \E c \in Conns :
        \/ GetShared(c) \/ FindJournal(c) \/ CheckReserved(c) \/ CheckSize(c)
        \/ ReserveRemnant(c) \/ LeaveRemnant(c) \/ DeleteRemnant(c)
        \/ ReadFirstByte(c) \/ LockHot(c) \/ HotPending(c) \/ HotBusy(c)
        \/ HotGone(c) \/ SyncHotJournal(c)
        \/ Truncate(c) \/ RestorePage(c) \/ SyncRestored(c) \/ EndPlayback(c)
        \/ ValidateCache(c) \/ EndRead(c)
        \/ BeginWrite(c) \/ EndUnwritten(c) \/ CreateDatabase(c)
        \/ \E p \in Pages : ReadPage(c, p) \/ \E v \in Values : WritePage(c, p, v)
        \/ IncrChangeCounter(c) \/ LockForCommit(c) \/ CommitBusy(c)
        \/ SyncRecords(c) \/ WriteHeader(c) \/ SyncHeader(c)
        \/ StorePage(c) \/ SyncFile(c) \/ Finish(c)
        \/ RollbackMemory(c) \/ RollbackFile(c)
        \/ UnlinkFails(c) \/ RollbackFails(c) \/ ClearError(c)
    \/ \E p \in {pid[c] : c \in Conns} : Kill(p)
    \/ PowerLoss

Spec == Init /\ [][Next]_vars

------------------------------------------------------------------------------
(* Properties                                                                *)

\* The file a recovery would make of f and j.
Recovered(f, j) ==
    IF ~ Valid(j) THEN f
    ELSE [p \in Pages |-> IF p > j.size THEN Absent
                          ELSE IF Saved(j, p) THEN Original(j, p)
                          ELSE f[p]]

Committed == Recovered(cur, jcur)

Writers == {c \in Conns : at[c] \in {"locked"} \cup Unwritten \cup Written}

Tx(c) == IF at[c] = "reader" THEN [mode |-> "read", image |-> View(c)]
         ELSE IF c \in Writers THEN [mode |-> "write", image |-> View(c)]
         ELSE [mode |-> "none"]

Durable == IF "power" \in faults THEN Recovered(disk, jdisk) ELSE Committed

File == INSTANCE AtomicFile
    WITH Users <- Conns, Images <- [Pages -> Contents],
         db <- Committed, settled <- Durable, tx <- [c \in Conns |-> Tx(c)]

(* Transactions on the file are atomic, isolated and survive the death of    *)
(* processes: whatever steps connections take between each other, whatever   *)
(* fails, whoever dies, every reader sees the one content committed last,    *)
(* and what a dead or failed writer left undone is undone.  A loss of power  *)
(* leaves the content committed last or the one before, never a mixture.     *)
ImplementsAtomicFile == File!FileSpec

(* The journal of a transaction is there as long as it may be needed, and    *)
(* has the committed content of every page the transaction has changed: no   *)
(* other connection takes it for a hot one, or for a remnant.                *)
JournalCoversChanges ==
    \A c \in Conns : at[c] \in Unwritten \cup Written =>
        /\ jcur # NoFile
        /\ \A p \in dirty[c] : p <= jcur.size =>
            Saved(jcur, p) /\ Original(jcur, p) = Committed[p]

(* A cache kept between two transactions whose change counter is still that  *)
(* of the file holds the content of the file, also after rollbacks of other  *)
(* connections and of its own (dbFileVers, sqlite3PagerSharedLock).          *)
CacheCurrent ==
    \A c \in Conns :
        at[c] = "open" /\ dbFileVers[c] = Version(Committed) =>
            \A p \in DOMAIN cache[c] : cache[c][p] = Committed[p]

TypeOK ==
    /\ cur \in [Pages -> Contents] /\ disk \in [Pages -> Contents]
    /\ \A c \in Conns :
        /\ DOMAIN cache[c] \subseteq Pages
        /\ dirty[c] \subseteq DOMAIN cache[c]
        /\ dbFileVers[c] \in Counters
        /\ level[c] \in LockLevels
        /\ at[c] \in Unwritten \cup Written => reserver = {c}

\* Connection c asks whether the hot journal belongs to somebody alive, and is
\* about to take the wait of another one of its process for a reservation.
Ignores(c) ==
    at[c] = "reserved" /\ Valid(jcur) /\ \E d \in Fellows(c) : at[d] = "give_up"

(* No hot journal is taken for that of a live writer: what                   *)
(* unixCheckReservedLock would have to tell apart, and the theorems assume.  *)
NoneIgnored == \A c \in Conns : ~ Ignores(c)

(* A reader sees the content committed last, although the file may hold what *)
(* a dead writer left: after the SHARED lock "the file-system is checked for *)
(* a hot-journal, which is played back if present" (the comment before       *)
(* sqlite3PagerSharedLock).                                                  *)
ReadersSeeCommitted ==
    \A c \in Conns : at[c] = "reader" => View(c) = Committed
==============================================================================
