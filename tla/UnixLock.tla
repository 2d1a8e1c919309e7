------------------------------ MODULE UnixLock -------------------------------
(***************************************************************************)
(* The locks SQLite takes on sndb.db (sqlite3-binding.c, unix VFS).        *)
(*                                                                         *)
(* The operating system grants advisory locks per process and byte, not    *)
(* per connection, and drops all locks of a process on a file when the     *)
(* process closes any descriptor of it.  SQLite therefore counts, in one   *)
(* unixInodeInfo per process, what its connections hold, and puts off      *)
(* closing descriptors while one of them holds a lock.                     *)
(*                                                                         *)
(* unixEnterMutex lets one connection of a process through at a time; the  *)
(* connections of other processes act between any two calls of fcntl.  One *)
(* action is one such call, with what the code does around it before the   *)
(* next.  A call refused at once changes nothing and is no step.           *)
(***************************************************************************)
EXTENDS Naturals, FiniteSets

CONSTANTS
    Procs,      \* processes
    Handles,    \* the unixFile structures connections open the database with
    pid         \* pid[h]: the process handle h belongs to

ASSUME PidAssumption == pid \in [Handles -> Procs]

VARIABLES
    unixFile,   \* unixFile[h]: is it open, and the level it holds
    inode,      \* inode[p]: the unixInodeInfo of process p
    posix,      \* posix[p][b]: what the system granted to p at byte b
    call        \* call[p]: the call of unixLock or posixUnlock p is in

vars == <<unixFile, inode, posix, call>>

NO_LOCK        == 0
SHARED_LOCK    == 1
RESERVED_LOCK  == 2
PENDING_LOCK   == 3
EXCLUSIVE_LOCK == 4
LockLevels == NO_LOCK .. EXCLUSIVE_LOCK

\* The shared range is always locked as a whole.
Bytes == {"PENDING_BYTE", "RESERVED_BYTE", "SHARED_RANGE"}
PosixLocks == {"F_UNLCK", "F_RDLCK", "F_WRLCK"}

\* Where in a call a process stands: the next thing it does.
Points == {"read range", "drop pending", "give up", "write range", "lower", "release"}
Idle == [at |-> "idle"]
Call(h, at) == [at |-> at, h |-> h]

Init ==
    /\ unixFile = [h \in Handles |-> [open |-> FALSE, eFileLock |-> NO_LOCK]]
    /\ inode = [p \in Procs |-> [nRef |-> 0, nShared |-> 0, nLock |-> 0,
                                 eFileLock |-> NO_LOCK, pUnused |-> 0]]
    /\ posix = [p \in Procs |-> [b \in Bytes |-> "F_UNLCK"]]
    /\ call = [p \in Procs |-> Idle]

------------------------------------------------------------------------------
(* fcntl                                                                     *)

\* No other process stands in the way.
Grantable(p, b, type) ==
    \A q \in Procs \ {p} :
        \/ posix[q][b] = "F_UNLCK"
        \/ posix[q][b] = "F_RDLCK" /\ type = "F_RDLCK"

SetLock(p, b, type) ==
    /\ Grantable(p, b, type)
    /\ posix' = [posix EXCEPT ![p][b] = type]

\* PENDING_BYTE and RESERVED_BYTE are neighbours and dropped by one call.
Unlocked(p, bs) == [b \in Bytes |-> IF b \in bs THEN "F_UNLCK" ELSE posix[p][b]]

\* F_GETLK at the reserved byte: somebody else holds it.
ReservedElsewhere(p) == ~ Grantable(p, "RESERVED_BYTE", "F_WRLCK")

\* unixCheckReservedLock, which decides whether a journal is hot.
CheckReservedLock(h) ==
    inode[pid[h]].eFileLock > SHARED_LOCK \/ ReservedElsewhere(pid[h])

Free(h) == call[pid[h]] = Idle /\ unixFile[h].open

SetLevel(h, l) == unixFile' = [unixFile EXCEPT ![h].eFileLock = l]

Enter(h, at) == call' = [call EXCEPT ![pid[h]] = Call(h, at)]
Leave(p) == call' = [call EXCEPT ![p] = Idle]

\* The call process p is in is about to do this.
At(p, at) == call[p].at = at

------------------------------------------------------------------------------
(* unixOpen and unixClose                                                    *)

\* (mutant) one is taken to be there when there is none
OpenReused(h) ==
    LET p == pid[h] IN
    /\ call[p] = Idle
    /\ ~ unixFile[h].open
    /\ unixFile' = [unixFile EXCEPT ![h].open = TRUE]
    /\ inode' = [inode EXCEPT ![p].nRef = @ + 1, ![p].pUnused = @ - 1]
    /\ UNCHANGED <<posix, call>>

\* A descriptor whose closing was put off is used again.
Open(h) ==
    LET p == pid[h] IN
    /\ call[p] = Idle
    /\ ~ unixFile[h].open
    /\ unixFile' = [unixFile EXCEPT ![h].open = TRUE]
    /\ inode' = [inode EXCEPT ![p].nRef = @ + 1,
                              ![p].pUnused = IF @ > 0 THEN @ - 1 ELSE 0]
    /\ UNCHANGED <<posix, call>>

\* What closing descriptors leaves to process p at the system: nothing at all.
AfterClose(p, closed) == IF closed THEN Unlocked(p, Bytes) ELSE posix[p]

\* (mutant) the descriptor is closed without regard to the other connections
CloseAtOnce(h) ==
    LET p == pid[h] IN
    /\ Free(h) /\ unixFile[h].eFileLock = NO_LOCK
    /\ unixFile' = [unixFile EXCEPT ![h].open = FALSE]
    /\ inode' = [inode EXCEPT ![p].nRef = @ - 1]
    /\ posix' = [posix EXCEPT ![p] = AfterClose(p, TRUE)]
    /\ UNCHANGED call

\* While the process holds a lock, the descriptor is kept.  (unixClose calls
\* posixUnlock first; a connection that closes has released its lock.)
Close(h) ==
    LET p == pid[h]
        putOff == inode[p].nLock > 0
    IN
    /\ Free(h) /\ unixFile[h].eFileLock = NO_LOCK
    /\ unixFile' = [unixFile EXCEPT ![h].open = FALSE]
    /\ inode' = [inode EXCEPT
                    ![p].nRef = @ - 1,
                    ![p].pUnused = IF putOff THEN @ + 1
                                   ELSE IF inode[p].nRef = 1 THEN 0 ELSE @]
    /\ posix' = [posix EXCEPT ![p] = AfterClose(p, ~ putOff)]
    /\ UNCHANGED call

------------------------------------------------------------------------------
(* unixLock                                                                  *)

\* Another connection of the process holds what precludes the request.
Precluded(h, l) ==
    LET here == inode[pid[h]].eFileLock IN
    /\ unixFile[h].eFileLock # here
    /\ here >= PENDING_LOCK \/ l > SHARED_LOCK

\* The process has its read lock already: only the counts change.
JoinShared(h) ==
    LET p == pid[h] IN
    /\ Free(h) /\ unixFile[h].eFileLock = NO_LOCK
    /\ ~ Precluded(h, SHARED_LOCK)
    /\ inode[p].eFileLock \in {SHARED_LOCK, RESERVED_LOCK}
    /\ SetLevel(h, SHARED_LOCK)
    /\ inode' = [inode EXCEPT ![p].nShared = @ + 1, ![p].nLock = @ + 1]
    /\ UNCHANGED <<posix, call>>

\* (mutant) the read lock on the pending byte is left out
ShareUngated(h) ==
    LET p == pid[h] IN
    /\ Free(h) /\ unixFile[h].eFileLock = NO_LOCK
    /\ ~ Precluded(h, SHARED_LOCK)
    /\ inode[p].eFileLock = NO_LOCK
    /\ Enter(h, "read range")
    /\ UNCHANGED <<unixFile, inode, posix>>

\* Else the pending byte is read-locked, which a waiting writer prevents.
BeginShared(h) ==
    LET p == pid[h] IN
    /\ Free(h) /\ unixFile[h].eFileLock = NO_LOCK
    /\ ~ Precluded(h, SHARED_LOCK)
    /\ inode[p].eFileLock = NO_LOCK
    /\ SetLock(p, "PENDING_BYTE", "F_RDLCK")
    /\ Enter(h, "read range")
    /\ UNCHANGED <<unixFile, inode>>

\* Then the shared range; the lock on the pending byte is temporary.
ReadRange(p) ==
    /\ At(p, "read range")
    /\ SetLock(p, "SHARED_RANGE", "F_RDLCK")
    /\ Enter(call[p].h, "drop pending")
    /\ UNCHANGED <<unixFile, inode>>

EndShared(p) ==
    /\ At(p, "drop pending")
    /\ posix' = [posix EXCEPT ![p] = Unlocked(p, {"PENDING_BYTE"})]
    /\ SetLevel(call[p].h, SHARED_LOCK)
    /\ inode' = [inode EXCEPT ![p].nShared = 1, ![p].nLock = @ + 1,
                              ![p].eFileLock = SHARED_LOCK]
    /\ Leave(p)

\* fcntl fails, on a conflict or for a reason of its own.
RangeDenied(p) ==
    /\ At(p, "read range")
    /\ Enter(call[p].h, "give up")
    /\ UNCHANGED <<unixFile, inode, posix>>

GiveUpShared(p) ==
    /\ At(p, "give up")
    /\ posix' = [posix EXCEPT ![p] = Unlocked(p, {"PENDING_BYTE"})]
    /\ Leave(p)
    /\ UNCHANGED <<unixFile, inode>>

\* (mutant) RESERVED is granted beside another one of the same process
LockReservedTwice(h) ==
    LET p == pid[h] IN
    /\ Free(h) /\ unixFile[h].eFileLock = SHARED_LOCK
    /\ SetLock(p, "RESERVED_BYTE", "F_WRLCK")
    /\ SetLevel(h, RESERVED_LOCK)
    /\ inode' = [inode EXCEPT ![p].eFileLock = RESERVED_LOCK]
    /\ UNCHANGED call

LockReserved(h) ==
    LET p == pid[h] IN
    /\ Free(h) /\ unixFile[h].eFileLock = SHARED_LOCK
    /\ ~ Precluded(h, RESERVED_LOCK)
    /\ SetLock(p, "RESERVED_BYTE", "F_WRLCK")
    /\ SetLevel(h, RESERVED_LOCK)
    /\ inode' = [inode EXCEPT ![p].eFileLock = RESERVED_LOCK]
    /\ UNCHANGED call

\* Below PENDING, the pending byte is write-locked: nobody new may read.
BeginExclusive(h) ==
    /\ Free(h) /\ unixFile[h].eFileLock \in {SHARED_LOCK, RESERVED_LOCK}
    /\ ~ Precluded(h, EXCLUSIVE_LOCK)
    /\ SetLock(pid[h], "PENDING_BYTE", "F_WRLCK")
    /\ Enter(h, "write range")
    /\ UNCHANGED <<unixFile, inode>>

\* At PENDING, the same call tries the shared range again.
RetryExclusive(h) ==
    /\ Free(h) /\ unixFile[h].eFileLock = PENDING_LOCK
    /\ ~ Precluded(h, EXCLUSIVE_LOCK)
    /\ Enter(h, "write range")
    /\ UNCHANGED <<unixFile, inode, posix>>

WriteRange(p) ==
    /\ At(p, "write range")
    /\ inode[p].nShared <= 1
    /\ SetLock(p, "SHARED_RANGE", "F_WRLCK")
    /\ SetLevel(call[p].h, EXCLUSIVE_LOCK)
    /\ inode' = [inode EXCEPT ![p].eFileLock = EXCLUSIVE_LOCK]
    /\ Leave(p)

\* A reader is left, here or elsewhere, or fcntl fails: the lock stays PENDING.
StayPending(p) ==
    /\ At(p, "write range")
    /\ SetLevel(call[p].h, PENDING_LOCK)
    /\ inode' = [inode EXCEPT ![p].eFileLock = PENDING_LOCK]
    /\ Leave(p)
    /\ UNCHANGED posix

------------------------------------------------------------------------------
(* posixUnlock                                                               *)

\* To SHARED: first the shared range is read-locked again, if it was written.
Downgrade(h) ==
    /\ Free(h) /\ unixFile[h].eFileLock > SHARED_LOCK
    /\ SetLock(pid[h], "SHARED_RANGE", "F_RDLCK")
    /\ Enter(h, "lower")
    /\ UNCHANGED <<unixFile, inode>>

EndDowngrade(p) ==
    /\ At(p, "lower")
    /\ posix' = [posix EXCEPT ![p] = Unlocked(p, {"PENDING_BYTE", "RESERVED_BYTE"})]
    /\ SetLevel(call[p].h, SHARED_LOCK)
    /\ inode' = [inode EXCEPT ![p].eFileLock = SHARED_LOCK]
    /\ Leave(p)

\* To NO_LOCK: the two bytes first.
BeginRelease(h) ==
    LET p == pid[h] IN
    /\ Free(h) /\ unixFile[h].eFileLock > SHARED_LOCK
    /\ posix' = [posix EXCEPT ![p] = Unlocked(p, {"PENDING_BYTE", "RESERVED_BYTE"})]
    /\ inode' = [inode EXCEPT ![p].eFileLock = SHARED_LOCK]
    /\ Enter(h, "release")
    /\ UNCHANGED unixFile

\* (mutant) the last connection to unlock leaves the read lock in place
ReleaseKept(h) ==
    LET p == pid[h] IN
    /\ SetLevel(h, NO_LOCK)
    /\ inode' = [inode EXCEPT ![p].nShared = @ - 1, ![p].nLock = @ - 1]
    /\ UNCHANGED posix

\* The system's lock is dropped with the last connection's; then descriptors
\* whose closing was put off are closed.
ReleaseShared(h) ==
    LET p == pid[h]
        last == inode[p].nShared = 1
    IN
    /\ SetLevel(h, NO_LOCK)
    /\ inode' = [inode EXCEPT
                    ![p].nShared = @ - 1,
                    ![p].nLock = @ - 1,
                    ![p].eFileLock = IF last THEN NO_LOCK ELSE @,
                    ![p].pUnused = IF inode[p].nLock = 1 THEN 0 ELSE @]
    /\ posix' = [posix EXCEPT ![p] =
                    AfterClose(p, last \/ (inode[p].nLock = 1 /\ inode[p].pUnused > 0))]

Release(h) ==
    /\ Free(h) /\ unixFile[h].eFileLock = SHARED_LOCK
    /\ ReleaseShared(h)
    /\ UNCHANGED call

EndRelease(p) ==
    /\ At(p, "release")
    /\ ReleaseShared(call[p].h)
    /\ Leave(p)

------------------------------------------------------------------------------
\* A process dies; the system closes its descriptors.
Kill(p) ==
    /\ unixFile' = [h \in Handles |->
                        IF pid[h] = p THEN [open |-> FALSE, eFileLock |-> NO_LOCK]
                        ELSE unixFile[h]]
    /\ inode' = [inode EXCEPT ![p] = [nRef |-> 0, nShared |-> 0, nLock |-> 0,
                                      eFileLock |-> NO_LOCK, pUnused |-> 0]]
    /\ posix' = [posix EXCEPT ![p] = Unlocked(p, Bytes)]
    /\ Leave(p)

Next ==
    \/ \E h \in Handles :
        \/ Open(h) \/ Close(h)
        \/ JoinShared(h) \/ BeginShared(h) \/ LockReserved(h)
        \/ BeginExclusive(h) \/ RetryExclusive(h)
        \/ Downgrade(h) \/ BeginRelease(h) \/ Release(h)
    \/ \E p \in Procs :
        \/ ReadRange(p) \/ EndShared(p) \/ RangeDenied(p) \/ GiveUpShared(p)
        \/ WriteRange(p) \/ StayPending(p)
        \/ EndDowngrade(p) \/ EndRelease(p)
        \/ Kill(p)

Spec == Init /\ [][Next]_vars

------------------------------------------------------------------------------
(* Type invariant: counts are counts, and a process is in a call of one of   *)
(* its own open connections.                                                 *)
TypeOK ==
    /\ unixFile \in [Handles -> [open : BOOLEAN, eFileLock : LockLevels]]
    /\ inode \in [Procs -> [nRef : Nat, nShared : Nat, nLock : Nat,
                            eFileLock : LockLevels, pUnused : Nat]]
    /\ posix \in [Procs -> [Bytes -> PosixLocks]]
    /\ call \in [Procs -> {Idle} \cup [at : Points, h : Handles]]
    /\ \A p \in Procs : call[p] # Idle => /\ pid[call[p].h] = p
                                          /\ unixFile[call[p].h].open

Busy(h, at) == At(pid[h], at) /\ call[pid[h]].h = h

\* A connection that goes to NO_LOCK gives up what is above SHARED first.
Level(h) == IF Busy(h, "release") THEN SHARED_LOCK ELSE unixFile[h].eFileLock

Reservers ==
    {h \in Handles : /\ Level(h) > SHARED_LOCK
                     /\ posix[pid[h]]["RESERVED_BYTE"] = "F_WRLCK"}

Locks == INSTANCE FileLock
            WITH Conns <- Handles, level <- [h \in Handles |-> Level(h)],
                 reserver <- Reservers

(* What the connections of all processes hold follows FileLock: threads that *)
(* share one system lock through the counts of unixInodeInfo, and processes  *)
(* that interleave their calls of fcntl, exclude each other as if every      *)
(* request were one step (unixLock, posixUnlock).                            *)
ImplementsFileLock == Locks!LockSpec

(* What a connection believes it holds and is not giving up, its process     *)
(* holds at the operating system, although other connections of the process  *)
(* lock, unlock, open and close the same file (nShared, nLock, pUnused).     *)
HeldAtSystem ==
    \A h \in Handles :
        LET held == posix[pid[h]] IN
        /\ Level(h) >= SHARED_LOCK => held["SHARED_RANGE"] # "F_UNLCK"
        /\ Level(h) = RESERVED_LOCK => held["RESERVED_BYTE"] = "F_WRLCK"
        /\ Level(h) >= PENDING_LOCK => held["PENDING_BYTE"] = "F_WRLCK"
        /\ Level(h) = EXCLUSIVE_LOCK /\ ~ Busy(h, "lower")
                => held["SHARED_RANGE"] = "F_WRLCK"

(* The assertions of unixLock and posixUnlock hold, and so does the comment  *)
(* that the read lock of a downgrade cannot be refused: whoever is above     *)
(* SHARED is at the level recorded for its process, and no other process     *)
(* stands in the way of its way back.                                        *)
AssertionsHold ==
    /\ \A h \in Handles :
        unixFile[h].eFileLock > SHARED_LOCK /\ ~ Busy(h, "release") /\ ~ Busy(h, "lower")
            => /\ inode[pid[h]].eFileLock = unixFile[h].eFileLock
               /\ inode[pid[h]].nShared # 0
               /\ Grantable(pid[h], "SHARED_RANGE", "F_RDLCK")
    /\ \A p \in Procs :
        At(p, "read range") => inode[p].nShared = 0 /\ inode[p].eFileLock = NO_LOCK

(* Descriptors whose closing was put off do not pile up: none is left once   *)
(* no connection of the process holds a lock (closePendingFds).              *)
NoneLeftOpen ==
    \A p \in Procs : inode[p].nLock = 0 => inode[p].pUnused = 0
==============================================================================
