---------------------------- MODULE UnixLockProofs ----------------------------
(***************************************************************************)
(* Proofs about the locks on the database file: for any number of          *)
(* processes and connections, the calls of fcntl on locks that belong to   *)
(* processes implement locks that belong to connections.                   *)
(*                                                                         *)
(* The invariant has one part per process.  It relates what the process's  *)
(* connections believe to hold, what unixInodeInfo counts, and what the    *)
(* system granted; a step of one process changes nothing of it for         *)
(* another.  Between processes there is only the system's rule for its     *)
(* locks, and the way back from EXCLUSIVE.                                 *)
(***************************************************************************)
EXTENDS UnixLock, FiniteSetTheorems, TLAPS

------------------------------------------------------------------------------
(* The invariant                                                             *)

Of(p) == {h \in Handles : pid[h] = p}
Opened(p) == {h \in Of(p) : unixFile[h].open}
Holders(p) == {h \in Of(p) : unixFile[h].eFileLock # NO_LOCK}
Writers(p) == {h \in Of(p) : unixFile[h].eFileLock > SHARED_LOCK}

\* The counts of unixInodeInfo count.
Counted(p) ==
    /\ IsFiniteSet(Opened(p)) /\ inode[p].nRef = Cardinality(Opened(p))
    /\ IsFiniteSet(Holders(p)) /\ inode[p].nShared = Cardinality(Holders(p))
    /\ inode[p].nLock = inode[p].nShared
    /\ inode[p].nLock = 0 => inode[p].pUnused = 0
    /\ Holders(p) \subseteq Opened(p)

\* The level recorded for the process is that of its connections; at most one
\* of them is above SHARED.
Recorded(p) ==
    /\ inode[p].eFileLock = NO_LOCK <=> Holders(p) = {}
    /\ \A h \in Writers(p) :
        ~ At(p, "release") => inode[p].eFileLock = unixFile[h].eFileLock
    /\ \A g, h \in Writers(p) : g = h

\* What the connections of the process hold, it holds at the system.
Granted(p) ==
    /\ Holders(p) # {} => posix[p]["SHARED_RANGE"] # "F_UNLCK"
    /\ inode[p].eFileLock <= SHARED_LOCK => posix[p]["RESERVED_BYTE"] = "F_UNLCK"
    /\ \A h \in Writers(p) : ~ At(p, "release") =>
        /\ unixFile[h].eFileLock = RESERVED_LOCK => posix[p]["RESERVED_BYTE"] = "F_WRLCK"
        /\ unixFile[h].eFileLock >= PENDING_LOCK => posix[p]["PENDING_BYTE"] = "F_WRLCK"
        /\ unixFile[h].eFileLock = EXCLUSIVE_LOCK /\ ~ At(p, "lower")
                => posix[p]["SHARED_RANGE"] = "F_WRLCK"

\* What has been done in the call the process is in.
InCall(p) ==
    /\ At(p, "read range") \/ At(p, "drop pending") =>
        Holders(p) = {} /\ posix[p]["PENDING_BYTE"] = "F_RDLCK"
    /\ At(p, "drop pending") => posix[p]["SHARED_RANGE"] = "F_RDLCK"
    /\ At(p, "give up") => Holders(p) = {}
    /\ At(p, "write range") =>
        /\ call[p].h \in Holders(p) /\ unixFile[call[p].h].eFileLock # EXCLUSIVE_LOCK
        /\ inode[p].eFileLock = unixFile[call[p].h].eFileLock
        /\ posix[p]["PENDING_BYTE"] = "F_WRLCK"
    /\ At(p, "lower") \/ At(p, "release") => call[p].h \in Writers(p)
    /\ At(p, "release") => inode[p].eFileLock = SHARED_LOCK

ProcInv(p) == Counted(p) /\ Recorded(p) /\ Granted(p) /\ InCall(p)

\* Between processes: the system grants no two locks that conflict, and nobody
\* reads while a writer lowers its lock.
Compatible ==
    \A p \in Procs, q \in Procs, b \in Bytes :
        p # q /\ posix[p][b] = "F_WRLCK" => posix[q][b] = "F_UNLCK"

Alone ==
    \A p \in Procs, q \in Procs :
        p # q /\ At(p, "lower") /\ inode[p].eFileLock = EXCLUSIVE_LOCK
            => posix[q]["SHARED_RANGE"] = "F_UNLCK"

IInv ==
    /\ TypeOK
    /\ \A p \in Procs : ProcInv(p)
    /\ Compatible
    /\ Alone

------------------------------------------------------------------------------
(* Steps of one process                                                      *)

Local(p) ==
    /\ \A q \in Procs \ {p} :
        inode'[q] = inode[q] /\ posix'[q] = posix[q] /\ call'[q] = call[q]
    /\ \A h \in Handles \ Of(p) : unixFile'[h] = unixFile[h]

LEMMA Init_IInv == Init => IInv
<1> SUFFICES ASSUME Init PROVE IInv
  OBVIOUS
<1>1. ASSUME NEW p \in Procs
      PROVE  ProcInv(p)
  <2>1. Opened(p) = {} /\ Holders(p) = {} /\ Writers(p) = {}
    BY DEF Init, Opened, Holders, Writers, Of, NO_LOCK, SHARED_LOCK
  <2>2. Cardinality({}) = 0 /\ IsFiniteSet({})
    BY FS_EmptySet
  <2>3. call[p].at = "idle"
    BY DEF Init, Idle
  <2> QED  BY <2>1, <2>2, <2>3 DEF Init, ProcInv, Counted, Recorded, Granted, InCall, At, Bytes
<1>2. TypeOK
  BY DEF Init, TypeOK, LockLevels, NO_LOCK, EXCLUSIVE_LOCK, PosixLocks
<1>3. Compatible /\ Alone
  BY DEF Init, Compatible, Alone, At, Idle
<1> QED  BY <1>1, <1>2, <1>3 DEF IInv

LEMMA OthersKeep ==
    ASSUME NEW p \in Procs, NEW q \in Procs \ {p}, Local(p), ProcInv(q)
    PROVE  ProcInv(q)'
<1>1. \A h \in Of(q) : unixFile'[h] = unixFile[h]
  BY DEF Local, Of
<1>2. Opened(q)' = Opened(q) /\ Holders(q)' = Holders(q) /\ Writers(q)' = Writers(q)
  BY <1>1 DEF Opened, Holders, Writers, Of
<1>3. inode'[q] = inode[q] /\ posix'[q] = posix[q] /\ call'[q] = call[q]
  BY DEF Local
<1>4. \A h \in Writers(q) : unixFile'[h] = unixFile[h]
  BY <1>1 DEF Writers
<1>5. Counted(q)' /\ Recorded(q)' /\ Granted(q)'
  BY <1>2, <1>3, <1>4 DEF ProcInv, Counted, Recorded, Granted, At
<1>6. \A h \in Holders(q) : unixFile'[h] = unixFile[h]
  BY <1>1 DEF Holders
<1>7. InCall(q)'
  BY <1>2, <1>3, <1>6 DEF ProcInv, InCall, At
<1> QED  BY <1>5, <1>7 DEF ProcInv

LEMMA LocalStep ==
    ASSUME IInv, NEW p \in Procs, Local(p), TypeOK', ProcInv(p)', Compatible', Alone'
    PROVE  IInv'
BY OthersKeep DEF IInv

LEMMA HandleFacts ==
    ASSUME TypeOK
    PROVE  /\ \A h \in Handles : pid[h] \in Procs /\ h \in Of(pid[h])
           /\ \A h \in Handles : /\ unixFile[h].eFileLock \in LockLevels
                                 /\ unixFile[h].open \in BOOLEAN
           /\ \A p \in Procs : /\ inode[p].nRef \in Nat /\ inode[p].nShared \in Nat
                               /\ inode[p].nLock \in Nat /\ inode[p].pUnused \in Nat
                               /\ inode[p].eFileLock \in LockLevels
           /\ \A p \in Procs : call[p] # Idle =>
                /\ call[p].h \in Of(p) /\ unixFile[call[p].h].open /\ call[p].at \in Points
                /\ call[p] = [at |-> call[p].at, h |-> call[p].h]
BY PidAssumption DEF TypeOK, Of

\* A lock the system grants fits the others it has granted.
LEMMA LockFits ==
    ASSUME TypeOK, Compatible, NEW p \in Procs, NEW b, NEW type,
           b \in Bytes, type \in PosixLocks, SetLock(p, b, type)
    PROVE  /\ posix' \in [Procs -> [Bytes -> PosixLocks]]
           /\ posix'[p][b] = type
           /\ \A c \in Bytes \ {b} : posix'[p][c] = posix[p][c]
           /\ \A q \in Procs \ {p} : posix'[q] = posix[q]
           /\ \A q \in Procs \ {p} : \/ posix[q][b] = "F_UNLCK"
                                     \/ posix[q][b] = "F_RDLCK" /\ type = "F_RDLCK"
           /\ Compatible'
<1>1. /\ posix' \in [Procs -> [Bytes -> PosixLocks]]
      /\ posix'[p][b] = type
      /\ \A c \in Bytes \ {b} : posix'[p][c] = posix[p][c]
      /\ \A q \in Procs \ {p} : posix'[q] = posix[q]
  BY DEF TypeOK, SetLock
<1>2. \A q \in Procs \ {p} : \/ posix[q][b] = "F_UNLCK"
                             \/ posix[q][b] = "F_RDLCK" /\ type = "F_RDLCK"
  BY DEF SetLock, Grantable
<1>3. Compatible'
  BY <1>1, <1>2 DEF Compatible
<1> QED  BY <1>1, <1>2, <1>3

LEMMA UnlockFits ==
    ASSUME Compatible, NEW p \in Procs,
           \A b \in Bytes : posix'[p][b] \in {"F_UNLCK", posix[p][b]},
           \A q \in Procs \ {p} : posix'[q] = posix[q]
    PROVE  Compatible'
BY DEF Compatible

\* Nobody takes a lock on the shared range while a writer lowers its own.
LEMMA StaysAlone ==
    ASSUME Alone, NEW p \in Procs, Local(p),
           At(p, "lower")' /\ inode'[p].eFileLock = EXCLUSIVE_LOCK
               => \A q \in Procs \ {p} : posix[q]["SHARED_RANGE"] = "F_UNLCK",
           \/ posix'[p]["SHARED_RANGE"] \in {"F_UNLCK", posix[p]["SHARED_RANGE"]}
           \/ \A q \in Procs \ {p} : ~ (At(q, "lower") /\ inode[q].eFileLock = EXCLUSIVE_LOCK)
    PROVE  Alone'
<1> SUFFICES ASSUME NEW q \in Procs, NEW r \in Procs, q # r,
                    At(q, "lower")', inode'[q].eFileLock = EXCLUSIVE_LOCK
             PROVE  posix'[r]["SHARED_RANGE"] = "F_UNLCK"
  BY DEF Alone
<1>1. CASE q = p
  BY <1>1 DEF Local
<1>2. CASE q # p
  BY <1>2 DEF Local, Alone, At
<1> QED  BY <1>1, <1>2

\* One connection changes its level.
LEMMA LevelSet ==
    ASSUME TypeOK, NEW p \in Procs, NEW h \in Of(p), NEW l, l \in LockLevels, SetLevel(h, l)
    PROVE  /\ unixFile' \in [Handles -> [open : BOOLEAN, eFileLock : LockLevels]]
           /\ unixFile'[h].eFileLock = l /\ unixFile'[h].open = unixFile[h].open
           /\ \A g \in Handles \ {h} : unixFile'[g] = unixFile[g]
           /\ Opened(p)' = Opened(p)
           /\ l = NO_LOCK => Holders(p)' = Holders(p) \ {h}
           /\ l # NO_LOCK => Holders(p)' = Holders(p) \cup {h}
           /\ l <= SHARED_LOCK => Writers(p)' = Writers(p) \ {h}
           /\ l > SHARED_LOCK => Writers(p)' = Writers(p) \cup {h}
<1>1. h \in Handles
  BY DEF Of
<1>2. /\ unixFile' \in [Handles -> [open : BOOLEAN, eFileLock : LockLevels]]
      /\ unixFile'[h].eFileLock = l /\ unixFile'[h].open = unixFile[h].open
      /\ \A g \in Handles \ {h} : unixFile'[g] = unixFile[g]
  BY <1>1 DEF TypeOK, SetLevel
<1>3. \A g \in Handles : unixFile'[g].open = unixFile[g].open
  BY <1>2
<1>4. Opened(p)' = Opened(p)
  BY <1>3 DEF Opened, Of
<1>5. \A g \in Of(p) : /\ g \in Holders(p) <=> unixFile[g].eFileLock # NO_LOCK
                       /\ g \in Holders(p)' <=> unixFile'[g].eFileLock # NO_LOCK
                       /\ g \in Writers(p) <=> unixFile[g].eFileLock > SHARED_LOCK
                       /\ g \in Writers(p)' <=> unixFile'[g].eFileLock > SHARED_LOCK
  BY DEF Holders, Writers, Of
<1>6. /\ Of(p) \subseteq Handles
      /\ Holders(p) \subseteq Of(p) /\ Holders(p)' \subseteq Of(p)
      /\ Writers(p) \subseteq Of(p) /\ Writers(p)' \subseteq Of(p)
  BY DEF Holders, Writers, Of
<1>7. /\ l = NO_LOCK => Holders(p)' = Holders(p) \ {h}
      /\ l # NO_LOCK => Holders(p)' = Holders(p) \cup {h}
  BY <1>2, <1>5, <1>6
<1>8. /\ l <= SHARED_LOCK => Writers(p)' = Writers(p) \ {h}
      /\ l > SHARED_LOCK => Writers(p)' = Writers(p) \cup {h}
  BY <1>2, <1>5, <1>6 DEF SHARED_LOCK, LockLevels, NO_LOCK, EXCLUSIVE_LOCK
<1> QED  BY <1>2, <1>4, <1>7, <1>8

LEMMA NoLevelSet ==
    ASSUME NEW p, UNCHANGED unixFile
    PROVE  Opened(p)' = Opened(p) /\ Holders(p)' = Holders(p) /\ Writers(p)' = Writers(p)
BY DEF Opened, Holders, Writers, Of

\* A call begins, goes on or ends.
LEMMA CallSet ==
    ASSUME TypeOK, NEW p \in Procs, NEW h \in Of(p), NEW at, at \in Points \cup {"idle"},
           \/ at # "idle" /\ unixFile'[h].open /\ call' = [call EXCEPT ![p] = Call(h, at)]
           \/ at = "idle" /\ Leave(p),
           \A g \in Handles : unixFile'[g].open = unixFile[g].open
    PROVE  /\ call' \in [Procs -> {Idle} \cup [at : Points, h : Handles]]
           /\ call'[p].at = at
           /\ at # "idle" => call'[p].h = h
           /\ \A q \in Procs \ {p} : call'[q] = call[q]
           /\ \A q \in Procs : call'[q] # Idle => /\ pid[call'[q].h] = q
                                                  /\ unixFile'[call'[q].h].open
<1>1. /\ call \in [Procs -> {Idle} \cup [at : Points, h : Handles]] /\ h \in Handles /\ pid[h] = p
      /\ \A q \in Procs : call[q] # Idle => /\ pid[call[q].h] = q /\ call[q].h \in Handles
                                            /\ unixFile[call[q].h].open
  BY HandleFacts DEF TypeOK, Of
<1>2. CASE at = "idle"
  <2>1. call' = [call EXCEPT ![p] = Idle]
    BY <1>2 DEF Leave, Points
  <2>2. /\ call' \in [Procs -> {Idle} \cup [at : Points, h : Handles]]
        /\ call'[p] = Idle /\ \A q \in Procs \ {p} : call'[q] = call[q]
    BY <1>1, <2>1
  <2>3. Idle.at = "idle"
    BY DEF Idle
  <2> QED  BY <1>1, <1>2, <2>2, <2>3
<1>3. CASE at # "idle"
  BY <1>1, <1>3 DEF Call, Idle
<1> QED  BY <1>2, <1>3

LEMMA InodeType ==
    ASSUME TypeOK
    PROVE  inode \in [Procs -> [nRef : Nat, nShared : Nat, nLock : Nat,
                                eFileLock : LockLevels, pUnused : Nat]]
BY DEF TypeOK

\* A connection opens or closes its handle.
LEMMA OpenSet ==
    ASSUME TypeOK, NEW h \in Handles, NEW open \in BOOLEAN,
           unixFile' = [unixFile EXCEPT ![h].open = open]
    PROVE  /\ unixFile' \in [Handles -> [open : BOOLEAN, eFileLock : LockLevels]]
           /\ unixFile'[h].open = open
           /\ \A g \in Handles \ {h} : unixFile'[g] = unixFile[g]
           /\ \A g \in Handles : unixFile'[g].eFileLock = unixFile[g].eFileLock
BY DEF TypeOK

\* Counts of a set that gains or loses one member.
LEMMA OneMore ==
    ASSUME NEW S, NEW x, IsFiniteSet(S), x \notin S
    PROVE  IsFiniteSet(S \cup {x}) /\ Cardinality(S \cup {x}) = Cardinality(S) + 1
BY FS_AddElement

LEMMA OneLess ==
    ASSUME NEW S, NEW x \in S, IsFiniteSet(S)
    PROVE  /\ IsFiniteSet(S \ {x}) /\ Cardinality(S \ {x}) = Cardinality(S) - 1
           /\ Cardinality(S) \in Nat
           /\ Cardinality(S) = 1 <=> S = {x}
<1>1. /\ IsFiniteSet(S \ {x}) /\ Cardinality(S \ {x}) = Cardinality(S) - 1
      /\ Cardinality(S) \in Nat
  BY FS_RemoveElement, FS_CardinalityType
<1>2. Cardinality(S \ {x}) = 0 <=> S \ {x} = {}
  BY <1>1, FS_EmptySet
<1> QED  BY <1>1, <1>2

LEMMA NoneCounted ==
    ASSUME NEW S, IsFiniteSet(S)
    PROVE  Cardinality(S) \in Nat /\ (Cardinality(S) = 0 <=> S = {})
BY FS_EmptySet, FS_CardinalityType

------------------------------------------------------------------------------
(* Steps of a connection                                                     *)

LEMMA AtRest ==
    ASSUME IInv, NEW h \in Handles
    PROVE  /\ pid[h] \in Procs /\ h \in Of(pid[h]) /\ TypeOK /\ Compatible /\ Alone
           /\ ProcInv(pid[h])
           /\ Free(h) => call[pid[h]] = Idle /\ call[pid[h]].at = "idle" /\ unixFile[h].open
           /\ call[pid[h]] = Idle => call[pid[h]].at = "idle"
BY HandleFacts DEF IInv, Free, Idle

\* A process between calls.
LEMMA IdleInCall ==
    ASSUME NEW p \in Procs, call[p].at = "idle"
    PROVE  InCall(p)
BY DEF InCall, At

LEMMA OpenStep ==
    ASSUME IInv, NEW h \in Handles, Open(h)
    PROVE  IInv'
<1> DEFINE p == pid[h]
<1>1. /\ p \in Procs /\ h \in Of(p) /\ TypeOK /\ Compatible /\ Alone /\ ProcInv(p)
      /\ call[p].at = "idle" /\ UNCHANGED <<posix, call>>
  BY AtRest DEF Open
<1>2. /\ unixFile' = [unixFile EXCEPT ![h].open = TRUE]
      /\ ~ unixFile[h].open
  BY DEF Open
<1>3. /\ unixFile' \in [Handles -> [open : BOOLEAN, eFileLock : LockLevels]]
      /\ unixFile'[h].open /\ unixFile'[h].eFileLock = unixFile[h].eFileLock
      /\ \A g \in Handles \ {h} : unixFile'[g] = unixFile[g]
  BY <1>1, <1>2, OpenSet
<1>4. /\ inode' \in [Procs -> [nRef : Nat, nShared : Nat, nLock : Nat,
                               eFileLock : LockLevels, pUnused : Nat]]
      /\ inode'[p].nRef = inode[p].nRef + 1 /\ inode'[p].nShared = inode[p].nShared
      /\ inode'[p].nLock = inode[p].nLock /\ inode'[p].eFileLock = inode[p].eFileLock
      /\ inode[p].pUnused = 0 => inode'[p].pUnused = 0
      /\ \A q \in Procs \ {p} : inode'[q] = inode[q]
  <2> DEFINE i == inode[p]
             refs == i.nRef + 1
             unused == IF i.pUnused > 0 THEN i.pUnused - 1 ELSE 0
  <2>1. inode' = [inode EXCEPT ![p].nRef = refs, ![p].pUnused = unused]
    BY DEF Open
  <2>2. refs \in Nat /\ unused \in Nat /\ (i.pUnused = 0 => unused = 0)
    BY <1>1, HandleFacts
  <2> HIDE DEF refs, unused
  <2>3. /\ inode' \in [Procs -> [nRef : Nat, nShared : Nat, nLock : Nat,
                                 eFileLock : LockLevels, pUnused : Nat]]
        /\ inode'[p].nRef = refs /\ inode'[p].nShared = i.nShared
        /\ inode'[p].nLock = i.nLock /\ inode'[p].eFileLock = i.eFileLock
        /\ inode'[p].pUnused = unused
        /\ \A q \in Procs \ {p} : inode'[q] = inode[q]
    BY <1>1, <2>1, <2>2, InodeType
  <2> QED  BY <2>2, <2>3 DEF refs
<1>5. TypeOK'
  BY <1>1, <1>3, <1>4 DEF TypeOK
<1>6. /\ Opened(p)' = Opened(p) \cup {h} /\ h \notin Opened(p)
      /\ Holders(p)' = Holders(p) /\ Writers(p)' = Writers(p)
  <2>1. \A g \in Handles : unixFile'[g].eFileLock = unixFile[g].eFileLock
    BY <1>3
  <2> QED  BY <1>1, <1>2, <1>3, <2>1 DEF Opened, Holders, Writers, Of
<1>7. Counted(p)'
  BY <1>1, <1>4, <1>6, OneMore DEF ProcInv, Counted
<1>8. \A g \in Handles : unixFile'[g].eFileLock = unixFile[g].eFileLock
  BY <1>3
<1>9. Recorded(p)' /\ Granted(p)'
  BY <1>1, <1>4, <1>6, <1>8 DEF ProcInv, Recorded, Granted, At, Writers, Of
<1>10. InCall(p)'
  BY <1>1, IdleInCall DEF InCall, At
<1>11. Compatible' /\ Alone'
  BY <1>1, <1>4 DEF Compatible, Alone, At
<1>12. Local(p)
  BY <1>1, <1>3, <1>4 DEF Local
<1> QED  BY <1>1, <1>5, <1>7, <1>9, <1>10, <1>11, <1>12, LocalStep DEF ProcInv

LEMMA CloseStep ==
    ASSUME IInv, NEW h \in Handles, Close(h)
    PROVE  IInv'
<1> DEFINE p == pid[h]
<1>1. /\ p \in Procs /\ h \in Of(p) /\ TypeOK /\ Compatible /\ Alone /\ ProcInv(p)
      /\ call[p].at = "idle" /\ call[p] = Idle /\ unixFile[h].open
      /\ unixFile[h].eFileLock = NO_LOCK /\ UNCHANGED call
  BY AtRest DEF Close
<1>2. /\ unixFile' = [unixFile EXCEPT ![h].open = FALSE]
      /\ posix' = [posix EXCEPT ![p] = AfterClose(p, ~ (inode[p].nLock > 0))]
  BY DEF Close
<1>3. /\ unixFile' \in [Handles -> [open : BOOLEAN, eFileLock : LockLevels]]
      /\ ~ unixFile'[h].open
      /\ \A g \in Handles \ {h} : unixFile'[g] = unixFile[g]
      /\ \A g \in Handles : unixFile'[g].eFileLock = unixFile[g].eFileLock
  BY <1>1, <1>2, OpenSet
<1>4. /\ Opened(p)' = Opened(p) \ {h} /\ h \in Opened(p) \ Holders(p)
      /\ Holders(p)' = Holders(p) /\ Writers(p)' = Writers(p)
  BY <1>1, <1>3 DEF Opened, Holders, Writers, Of
<1>5. inode[p].nRef \in Nat \ {0}
  BY <1>1, <1>4, OneLess, NoneCounted, HandleFacts DEF ProcInv, Counted
<1>6. /\ inode' \in [Procs -> [nRef : Nat, nShared : Nat, nLock : Nat,
                               eFileLock : LockLevels, pUnused : Nat]]
      /\ inode'[p].nRef = inode[p].nRef - 1 /\ inode'[p].nShared = inode[p].nShared
      /\ inode'[p].nLock = inode[p].nLock /\ inode'[p].eFileLock = inode[p].eFileLock
      /\ inode[p].pUnused = 0 /\ inode[p].nLock = 0 => inode'[p].pUnused = 0
      /\ \A q \in Procs \ {p} : inode'[q] = inode[q]
  <2> DEFINE i == inode[p]
             refs == i.nRef - 1
             unused == IF i.nLock > 0 THEN i.pUnused + 1
                       ELSE IF i.nRef = 1 THEN 0 ELSE i.pUnused
  <2>1. inode' = [inode EXCEPT ![p].nRef = refs, ![p].pUnused = unused]
    BY DEF Close
  <2>2. /\ refs \in Nat /\ unused \in Nat
        /\ i.pUnused = 0 /\ i.nLock = 0 => unused = 0
    BY <1>1, <1>5, HandleFacts
  <2> HIDE DEF refs, unused
  <2>3. /\ inode' \in [Procs -> [nRef : Nat, nShared : Nat, nLock : Nat,
                                 eFileLock : LockLevels, pUnused : Nat]]
        /\ inode'[p].nRef = refs /\ inode'[p].nShared = i.nShared
        /\ inode'[p].nLock = i.nLock /\ inode'[p].eFileLock = i.eFileLock
        /\ inode'[p].pUnused = unused
        /\ \A q \in Procs \ {p} : inode'[q] = inode[q]
    BY <1>1, <2>1, <2>2, InodeType
  <2> QED  BY <2>2, <2>3 DEF refs
<1>7. /\ posix' \in [Procs -> [Bytes -> PosixLocks]] /\ Compatible'
      /\ \A q \in Procs \ {p} : posix'[q] = posix[q]
      /\ Holders(p) # {} => posix' = posix
      /\ \A b \in Bytes : posix'[p][b] \in {"F_UNLCK", posix[p][b]}
  <2>1. CASE inode[p].nLock > 0
    <3>1. posix' = posix
      BY <1>1, <1>2, <2>1 DEF AfterClose, TypeOK
    <3> QED  BY <1>1, <3>1 DEF TypeOK, Compatible
  <2>2. CASE ~ (inode[p].nLock > 0)
    <3>1. posix' = [posix EXCEPT ![p] = Unlocked(p, Bytes)]
      BY <1>2, <2>2 DEF AfterClose
    <3>2. Holders(p) = {}
      BY <1>1, <2>2, NoneCounted, HandleFacts DEF ProcInv, Counted
    <3>3. /\ posix' \in [Procs -> [Bytes -> PosixLocks]]
          /\ \A q \in Procs \ {p} : posix'[q] = posix[q]
          /\ \A b \in Bytes : posix'[p][b] = "F_UNLCK"
      BY <1>1, <3>1 DEF TypeOK, Unlocked, PosixLocks
    <3> QED  BY <1>1, <3>2, <3>3, UnlockFits
  <2> QED  BY <2>1, <2>2
<1>8. TypeOK'
  BY <1>1, <1>3, <1>6, <1>7, ZenonT(60) DEF TypeOK
<1>9. Counted(p)'
  BY <1>1, <1>4, <1>6, OneLess DEF ProcInv, Counted
<1>10. Recorded(p)'
  BY <1>1, <1>3, <1>4, <1>6 DEF ProcInv, Recorded, At, Writers, Of
<1>11. Granted(p)'
  <2>1. Writers(p) \subseteq Holders(p)
    BY DEF Writers, Holders, Of, SHARED_LOCK, NO_LOCK
  <2> QED  BY <1>1, <1>3, <1>4, <1>6, <1>7, <2>1 DEF ProcInv, Granted, At, Writers, Of, Bytes
<1>12. InCall(p)'
  BY <1>1, IdleInCall DEF InCall, At
<1>13. Local(p)
  BY <1>1, <1>3, <1>6, <1>7 DEF Local
<1>14. Alone'
  BY <1>1, <1>7, <1>13, StaysAlone DEF At, Bytes
<1> QED  BY <1>1, <1>7, <1>8, <1>9, <1>10, <1>11, <1>12, <1>13, <1>14, LocalStep DEF ProcInv

\* A call begins or goes on, and nothing is recorded yet.
LEMMA QuietStep ==
    ASSUME IInv, NEW p \in Procs, NEW h \in Of(p), NEW at \in (Points \ {"release"}) \cup {"idle"},
           ~ At(p, "release"), unixFile[h].open, UNCHANGED <<unixFile, inode>>,
           \/ at # "idle" /\ Enter(h, at)
           \/ at = "idle" /\ Leave(p),
           posix' \in [Procs -> [Bytes -> PosixLocks]],
           \A q \in Procs \ {p} : posix'[q] = posix[q],
           Compatible',
           at = "lower" /\ inode[p].eFileLock = EXCLUSIVE_LOCK
               => \A q \in Procs \ {p} : posix[q]["SHARED_RANGE"] = "F_UNLCK",
           \/ posix'[p]["SHARED_RANGE"] \in {"F_UNLCK", posix[p]["SHARED_RANGE"]}
           \/ \A q \in Procs \ {p} : ~ (At(q, "lower") /\ inode[q].eFileLock = EXCLUSIVE_LOCK),
           call'[p].at = at /\ (at # "idle" => call'[p].h = h) => Granted(p)' /\ InCall(p)'
    PROVE  IInv'
<1>1. TypeOK /\ ProcInv(p) /\ Alone /\ pid[h] = p
  BY DEF IInv, Of
<1>2. /\ call' \in [Procs -> {Idle} \cup [at : Points, h : Handles]]
      /\ call'[p].at = at
      /\ at # "idle" => call'[p].h = h
      /\ \A q \in Procs \ {p} : call'[q] = call[q]
      /\ \A q \in Procs : call'[q] # Idle => /\ pid[call'[q].h] = q
                                             /\ unixFile'[call'[q].h].open
  BY <1>1, CallSet, SMTT(30) DEF Enter
<1>3. TypeOK'
  BY <1>1, <1>2 DEF TypeOK
<1>4. Counted(p)' /\ Recorded(p)'
  BY <1>1, <1>2, NoLevelSet DEF ProcInv, Counted, Recorded, At, Writers
<1>5. Local(p)
  BY <1>2 DEF Local
<1>6. Alone'
  BY <1>1, <1>2, <1>5, StaysAlone DEF At
<1> QED  BY <1>2, <1>3, <1>4, <1>5, <1>6, LocalStep DEF ProcInv

\* A process that waits before it lowers a lock has the pending byte to itself.
LEMMA NobodyLowers ==
    ASSUME IInv, NEW p \in Procs, posix[p]["PENDING_BYTE"] # "F_UNLCK"
    PROVE  \A q \in Procs \ {p} : ~ (At(q, "lower") /\ inode[q].eFileLock = EXCLUSIVE_LOCK)
<1> SUFFICES ASSUME NEW q \in Procs \ {p}, At(q, "lower"), inode[q].eFileLock = EXCLUSIVE_LOCK
             PROVE  FALSE
  OBVIOUS
<1>1. call[q].h \in Writers(q) /\ ~ At(q, "release")
  BY DEF IInv, ProcInv, InCall, At
<1>2. unixFile[call[q].h].eFileLock = EXCLUSIVE_LOCK
  BY <1>1 DEF IInv, ProcInv, Recorded
<1>3. posix[q]["PENDING_BYTE"] = "F_WRLCK"
  BY <1>1, <1>2 DEF IInv, ProcInv, Granted, EXCLUSIVE_LOCK, PENDING_LOCK
<1> QED  BY <1>3 DEF IInv, Compatible, Bytes

\* A process that writes reads as well.
LEMMA HoldersRead ==
    ASSUME IInv, NEW p \in Procs
    PROVE  /\ Writers(p) \subseteq Holders(p)
           /\ Holders(p) # {} => posix[p]["SHARED_RANGE"] # "F_UNLCK"
           /\ Holders(p) = {} <=> inode[p].nShared = 0
           /\ Holders(p) = {} <=> inode[p].eFileLock = NO_LOCK
           /\ inode[p].nLock = inode[p].nShared
<1>1. Writers(p) \subseteq Holders(p)
  BY DEF Writers, Holders, NO_LOCK, SHARED_LOCK
<1> QED  BY <1>1, NoneCounted DEF IInv, ProcInv, Granted, Counted, Recorded

LEMMA Names ==
    /\ {"PENDING_BYTE", "RESERVED_BYTE", "SHARED_RANGE"} = Bytes
    /\ {"F_UNLCK", "F_RDLCK", "F_WRLCK"} = PosixLocks
    /\ {"read range", "drop pending", "give up", "write range", "lower"} \subseteq
            Points \ {"release"}
BY DEF Bytes, PosixLocks, Points

LEMMA Order ==
    /\ LockLevels = {NO_LOCK, SHARED_LOCK, RESERVED_LOCK, PENDING_LOCK, EXCLUSIVE_LOCK}
    /\ LockLevels \subseteq Nat
    /\ NO_LOCK < SHARED_LOCK /\ SHARED_LOCK < RESERVED_LOCK
    /\ RESERVED_LOCK < PENDING_LOCK /\ PENDING_LOCK < EXCLUSIVE_LOCK
    /\ EXCLUSIVE_LOCK > SHARED_LOCK
    /\ NO_LOCK # SHARED_LOCK /\ NO_LOCK # RESERVED_LOCK
    /\ EXCLUSIVE_LOCK # SHARED_LOCK /\ EXCLUSIVE_LOCK # RESERVED_LOCK
BY DEF LockLevels, NO_LOCK, SHARED_LOCK, RESERVED_LOCK, PENDING_LOCK, EXCLUSIVE_LOCK

\* The read lock on the pending byte is temporary.
LEMMA PendingDropped ==
    ASSUME TypeOK, Compatible, NEW p \in Procs,
           posix' = [posix EXCEPT ![p] = Unlocked(p, {"PENDING_BYTE"})]
    PROVE  /\ posix' \in [Procs -> [Bytes -> PosixLocks]] /\ Compatible'
           /\ posix'[p]["RESERVED_BYTE"] = posix[p]["RESERVED_BYTE"]
           /\ posix'[p]["SHARED_RANGE"] = posix[p]["SHARED_RANGE"]
           /\ \A q \in Procs \ {p} : posix'[q] = posix[q]
<1>1. posix \in [Procs -> [Bytes -> PosixLocks]]
  BY DEF TypeOK
<1>2. Unlocked(p, {"PENDING_BYTE"}) \in [Bytes -> PosixLocks]
  BY <1>1 DEF Unlocked, PosixLocks
<1>3. posix' \in [Procs -> [Bytes -> PosixLocks]] /\ \A q \in Procs \ {p} : posix'[q] = posix[q]
  BY <1>1, <1>2
<1>4. \A b \in Bytes : posix'[p][b] = IF b = "PENDING_BYTE" THEN "F_UNLCK" ELSE posix[p][b]
  BY <1>1 DEF Unlocked
<1>5. /\ posix'[p]["RESERVED_BYTE"] = posix[p]["RESERVED_BYTE"]
      /\ posix'[p]["SHARED_RANGE"] = posix[p]["SHARED_RANGE"]
  BY <1>4, Names
<1> QED  BY <1>3, <1>4, <1>5, UnlockFits

LEMMA BeginSharedStep ==
    ASSUME IInv, NEW h \in Handles, BeginShared(h)
    PROVE  IInv'
<1> DEFINE p == pid[h]
<1>1. /\ p \in Procs /\ h \in Of(p) /\ TypeOK /\ Compatible /\ ProcInv(p)
      /\ call[p].at = "idle" /\ unixFile[h].open /\ UNCHANGED <<unixFile, inode>>
      /\ inode[p].eFileLock = NO_LOCK /\ Enter(h, "read range")
      /\ SetLock(p, "PENDING_BYTE", "F_RDLCK")
  BY AtRest DEF BeginShared
<1>2. /\ posix' \in [Procs -> [Bytes -> PosixLocks]] /\ Compatible'
      /\ posix'[p]["PENDING_BYTE"] = "F_RDLCK"
      /\ posix'[p]["SHARED_RANGE"] = posix[p]["SHARED_RANGE"]
      /\ posix'[p]["RESERVED_BYTE"] = posix[p]["RESERVED_BYTE"]
      /\ \A q \in Procs \ {p} : posix'[q] = posix[q]
  <2>1. "PENDING_BYTE" \in Bytes /\ "F_RDLCK" \in PosixLocks
    BY Names
  <2>2. SetLock(p, "PENDING_BYTE", "F_RDLCK") /\ p \in Procs /\ TypeOK /\ Compatible
    BY <1>1
  <2>3. /\ posix' \in [Procs -> [Bytes -> PosixLocks]] /\ Compatible'
        /\ posix'[p]["PENDING_BYTE"] = "F_RDLCK"
        /\ \A c \in Bytes \ {"PENDING_BYTE"} : posix'[p][c] = posix[p][c]
        /\ \A q \in Procs \ {p} : posix'[q] = posix[q]
    BY <2>1, <2>2, LockFits
  <2> QED  BY <2>3, Names
<1>3. Holders(p) = {} /\ Writers(p) = {}
  BY <1>1, HoldersRead
<1>4. ASSUME call'[p].at = "read range"
      PROVE  Granted(p)' /\ InCall(p)'
  BY <1>1, <1>2, <1>3, <1>4, NoLevelSet DEF ProcInv, Granted, InCall, At
<1> QED  BY <1>1, <1>2, <1>4, QuietStep, Names DEF At

\* One connection reaches another level above NO_LOCK, and its call ends.
LEMMA LevelStep ==
    ASSUME IInv, NEW p \in Procs, NEW h \in Holders(p), Writers(p) \subseteq {h},
           NEW l \in LockLevels \ {NO_LOCK}, SetLevel(h, l),
           inode' = [inode EXCEPT ![p].eFileLock = l], Leave(p),
           posix' \in [Procs -> [Bytes -> PosixLocks]],
           \A q \in Procs \ {p} : posix'[q] = posix[q],
           Compatible',
           \/ posix'[p]["SHARED_RANGE"] \in {"F_UNLCK", posix[p]["SHARED_RANGE"]}
           \/ \A q \in Procs \ {p} : ~ (At(q, "lower") /\ inode[q].eFileLock = EXCLUSIVE_LOCK),
           posix'[p]["SHARED_RANGE"] # "F_UNLCK",
           l <= SHARED_LOCK => posix'[p]["RESERVED_BYTE"] = "F_UNLCK",
           l = RESERVED_LOCK => posix'[p]["RESERVED_BYTE"] = "F_WRLCK",
           l >= PENDING_LOCK => posix'[p]["PENDING_BYTE"] = "F_WRLCK",
           l = EXCLUSIVE_LOCK => posix'[p]["SHARED_RANGE"] = "F_WRLCK"
    PROVE  IInv'
<1>1. TypeOK /\ ProcInv(p) /\ Alone /\ h \in Of(p) /\ h \in Handles
  BY DEF IInv, Holders, Of
<1>2. /\ unixFile' \in [Handles -> [open : BOOLEAN, eFileLock : LockLevels]]
      /\ unixFile'[h].eFileLock = l /\ unixFile'[h].open = unixFile[h].open
      /\ \A g \in Handles \ {h} : unixFile'[g] = unixFile[g]
      /\ Opened(p)' = Opened(p) /\ Holders(p)' = Holders(p)
      /\ l <= SHARED_LOCK => Writers(p)' = {}
      /\ Writers(p)' \subseteq {h}
  <2>1. l \in LockLevels /\ l # NO_LOCK /\ (l <= SHARED_LOCK \/ l > SHARED_LOCK)
    BY DEF LockLevels, NO_LOCK, SHARED_LOCK, EXCLUSIVE_LOCK
  <2>2. TypeOK /\ p \in Procs /\ h \in Of(p) /\ SetLevel(h, l)
    BY <1>1
  <2>3. /\ unixFile' \in [Handles -> [open : BOOLEAN, eFileLock : LockLevels]]
        /\ unixFile'[h].eFileLock = l /\ unixFile'[h].open = unixFile[h].open
        /\ \A g \in Handles \ {h} : unixFile'[g] = unixFile[g]
        /\ Opened(p)' = Opened(p) /\ Holders(p)' = Holders(p) \cup {h}
        /\ l <= SHARED_LOCK => Writers(p)' = Writers(p) \ {h}
        /\ l > SHARED_LOCK => Writers(p)' = Writers(p) \cup {h}
    BY <2>1, <2>2, LevelSet
  <2> QED  BY <2>1, <2>3
<1>3. /\ call' \in [Procs -> {Idle} \cup [at : Points, h : Handles]]
      /\ call'[p].at = "idle"
      /\ \A q \in Procs \ {p} : call'[q] = call[q]
      /\ \A q \in Procs : call'[q] # Idle => /\ pid[call'[q].h] = q
                                             /\ unixFile'[call'[q].h].open
  <2>1. \A g \in Handles : unixFile'[g].open = unixFile[g].open
    BY <1>2
  <2> QED  BY <1>1, <2>1, CallSet
<1>4. /\ inode' \in [Procs -> [nRef : Nat, nShared : Nat, nLock : Nat,
                               eFileLock : LockLevels, pUnused : Nat]]
      /\ inode'[p].nRef = inode[p].nRef /\ inode'[p].nShared = inode[p].nShared
      /\ inode'[p].nLock = inode[p].nLock /\ inode'[p].pUnused = inode[p].pUnused
      /\ inode'[p].eFileLock = l
      /\ \A q \in Procs \ {p} : inode'[q] = inode[q]
  BY <1>1, InodeType
<1>5. TypeOK'
  BY <1>2, <1>3, <1>4 DEF TypeOK
<1>6. Counted(p)'
  BY <1>1, <1>2, <1>4 DEF ProcInv, Counted
<1>7. Recorded(p)'
  BY <1>2, <1>4 DEF Recorded
<1>8. Granted(p)'
  BY <1>2, <1>3, <1>4 DEF Granted
<1>9. InCall(p)'
  BY <1>3 DEF InCall, At
<1>10. Local(p)
  BY <1>1, <1>2, <1>3, <1>4 DEF Local
<1>11. Alone'
  BY <1>1, <1>3, <1>10, StaysAlone DEF At
<1> QED  BY <1>5, <1>6, <1>7, <1>8, <1>9, <1>10, <1>11, LocalStep DEF ProcInv

LEMMA AtLeast ==
    ASSUME IInv, NEW h \in Handles
    PROVE  /\ unixFile[h].eFileLock # NO_LOCK => h \in Holders(pid[h])
           /\ unixFile[h].eFileLock > SHARED_LOCK <=> h \in Writers(pid[h])
           /\ \A g \in Holders(pid[h]) : g \in Handles /\ unixFile[g].open /\ pid[g] = pid[h]
BY AtRest DEF Holders, Writers, Of, Opened, ProcInv, Counted

LEMMA LockReservedStep ==
    ASSUME IInv, NEW h \in Handles, LockReserved(h)
    PROVE  IInv'
<1> DEFINE p == pid[h]
<1>1. /\ p \in Procs /\ h \in Of(p) /\ TypeOK /\ Compatible /\ ProcInv(p)
      /\ call[p].at = "idle" /\ call[p] = Idle /\ UNCHANGED call
      /\ unixFile[h].eFileLock = SHARED_LOCK /\ inode[p].eFileLock = SHARED_LOCK
      /\ SetLock(p, "RESERVED_BYTE", "F_WRLCK") /\ SetLevel(h, RESERVED_LOCK)
      /\ inode' = [inode EXCEPT ![p].eFileLock = RESERVED_LOCK]
  BY AtRest DEF LockReserved, Precluded, SHARED_LOCK, RESERVED_LOCK
<1>2. /\ posix' \in [Procs -> [Bytes -> PosixLocks]] /\ Compatible'
      /\ posix'[p]["RESERVED_BYTE"] = "F_WRLCK"
      /\ \A c \in Bytes \ {"RESERVED_BYTE"} : posix'[p][c] = posix[p][c]
      /\ \A q \in Procs \ {p} : posix'[q] = posix[q]
  <2>1. "RESERVED_BYTE" \in Bytes /\ "F_WRLCK" \in PosixLocks
    BY Names
  <2>2. SetLock(p, "RESERVED_BYTE", "F_WRLCK") /\ p \in Procs /\ TypeOK /\ Compatible
    BY <1>1
  <2> QED  BY <2>1, <2>2, LockFits
<1>3. h \in Holders(p) /\ Writers(p) = {}
  <2>1. h \in Holders(p)
    BY <1>1, AtLeast DEF SHARED_LOCK, NO_LOCK
  <2>2. \A g \in Writers(p) : unixFile[g].eFileLock = SHARED_LOCK
    BY <1>1 DEF ProcInv, Recorded, At
  <2> QED  BY <2>1, <2>2 DEF Writers, SHARED_LOCK
<1>4. Leave(p)
  BY <1>1 DEF Leave, TypeOK
<1>5. /\ RESERVED_LOCK \in LockLevels \ {NO_LOCK}
      /\ ~ (RESERVED_LOCK <= SHARED_LOCK) /\ ~ (RESERVED_LOCK >= PENDING_LOCK)
      /\ RESERVED_LOCK # EXCLUSIVE_LOCK
  BY DEF RESERVED_LOCK, SHARED_LOCK, PENDING_LOCK, EXCLUSIVE_LOCK, LockLevels, NO_LOCK
<1>6. posix'[p]["SHARED_RANGE"] = posix[p]["SHARED_RANGE"] /\ posix[p]["SHARED_RANGE"] # "F_UNLCK"
  BY <1>1, <1>2, <1>3, HoldersRead, Names
<1> QED  BY <1>1, <1>2, <1>3, <1>4, <1>5, <1>6, LevelStep

LEMMA BeginExclusiveStep ==
    ASSUME IInv, NEW h \in Handles, BeginExclusive(h)
    PROVE  IInv'
<1> DEFINE p == pid[h]
<1>1. /\ p \in Procs /\ h \in Of(p) /\ TypeOK /\ Compatible /\ ProcInv(p)
      /\ call[p].at = "idle" /\ unixFile[h].open /\ UNCHANGED <<unixFile, inode>>
      /\ unixFile[h].eFileLock \in {SHARED_LOCK, RESERVED_LOCK}
      /\ inode[p].eFileLock = unixFile[h].eFileLock
      /\ SetLock(p, "PENDING_BYTE", "F_WRLCK") /\ Enter(h, "write range")
  <2>1. /\ Free(h) /\ ~ Precluded(h, EXCLUSIVE_LOCK)
        /\ unixFile[h].eFileLock \in {SHARED_LOCK, RESERVED_LOCK}
        /\ SetLock(p, "PENDING_BYTE", "F_WRLCK") /\ Enter(h, "write range")
        /\ UNCHANGED <<unixFile, inode>>
    BY DEF BeginExclusive
  <2>2. inode[p].eFileLock = unixFile[h].eFileLock
    BY <2>1, Order DEF Precluded
  <2> QED  BY <2>1, <2>2, AtRest
<1>2. /\ posix' \in [Procs -> [Bytes -> PosixLocks]] /\ Compatible'
      /\ posix'[p]["PENDING_BYTE"] = "F_WRLCK"
      /\ \A c \in Bytes \ {"PENDING_BYTE"} : posix'[p][c] = posix[p][c]
      /\ \A q \in Procs \ {p} : posix'[q] = posix[q]
  <2>1. "PENDING_BYTE" \in Bytes /\ "F_WRLCK" \in PosixLocks
    BY Names
  <2>2. SetLock(p, "PENDING_BYTE", "F_WRLCK") /\ p \in Procs /\ TypeOK /\ Compatible
    BY <1>1
  <2> QED  BY <2>1, <2>2, LockFits
<1>3. h \in Holders(p) /\ unixFile[h].eFileLock # EXCLUSIVE_LOCK
  <2>1. unixFile[h].eFileLock # NO_LOCK /\ unixFile[h].eFileLock # EXCLUSIVE_LOCK
    BY <1>1, Order
  <2> QED  BY <2>1, AtLeast
<1>4. /\ posix'[p]["RESERVED_BYTE"] = posix[p]["RESERVED_BYTE"]
      /\ posix'[p]["SHARED_RANGE"] = posix[p]["SHARED_RANGE"]
  BY <1>2, Names
<1>5. ASSUME call'[p].at = "write range", call'[p].h = h
      PROVE  Granted(p)' /\ InCall(p)'
  <2>1. Granted(p)'
    BY <1>1, <1>2, <1>4, <1>5, NoLevelSet DEF ProcInv, Granted, At, Writers
  <2>2. InCall(p)'
    BY <1>1, <1>2, <1>3, <1>5, NoLevelSet DEF InCall, At
  <2> QED  BY <2>1, <2>2
<1> QED  BY <1>1, <1>2, <1>4, <1>5, QuietStep, Names DEF At

LEMMA RetryExclusiveStep ==
    ASSUME IInv, NEW h \in Handles, RetryExclusive(h)
    PROVE  IInv'
<1> DEFINE p == pid[h]
<1>1. /\ p \in Procs /\ h \in Of(p) /\ TypeOK /\ Compatible /\ ProcInv(p)
      /\ call[p].at = "idle" /\ unixFile[h].open /\ UNCHANGED <<unixFile, inode, posix>>
      /\ unixFile[h].eFileLock = PENDING_LOCK /\ Enter(h, "write range")
  BY AtRest DEF RetryExclusive
<1>2. h \in Writers(p) /\ h \in Holders(p) /\ PENDING_LOCK # EXCLUSIVE_LOCK
  <2>1. PENDING_LOCK > SHARED_LOCK /\ PENDING_LOCK # EXCLUSIVE_LOCK
    BY DEF PENDING_LOCK, SHARED_LOCK, EXCLUSIVE_LOCK
  <2>2. h \in Writers(p)
    BY <1>1, <2>1 DEF Writers
  <2> QED  BY <1>1, <2>1, <2>2, HoldersRead
<1>3. inode[p].eFileLock = PENDING_LOCK /\ posix[p]["PENDING_BYTE"] = "F_WRLCK"
  <2>1. PENDING_LOCK >= PENDING_LOCK
    BY DEF PENDING_LOCK
  <2> QED  BY <1>1, <1>2, <2>1 DEF ProcInv, Recorded, Granted, At
<1>4. posix' \in [Procs -> [Bytes -> PosixLocks]] /\ Compatible'
  <2>1. posix' = posix
    BY <1>1
  <2>2. posix \in [Procs -> [Bytes -> PosixLocks]] /\ Compatible
    BY <1>1 DEF TypeOK
  <2>3. Compatible'
    BY <2>1, <2>2 DEF Compatible
  <2> QED  BY <2>1, <2>2, <2>3
<1>5. ASSUME call'[p].at = "write range", call'[p].h = h
      PROVE  Granted(p)' /\ InCall(p)'
  <2>1. Granted(p)'
    BY <1>1, <1>5, NoLevelSet DEF ProcInv, Granted, At, Writers
  <2>2. InCall(p)'
    BY <1>1, <1>2, <1>3, <1>5, NoLevelSet DEF InCall, At
  <2> QED  BY <2>1, <2>2
<1> QED  BY <1>1, <1>4, <1>5, QuietStep, Names DEF At

LEMMA DowngradeStep ==
    ASSUME IInv, NEW h \in Handles, Downgrade(h)
    PROVE  IInv'
<1> DEFINE p == pid[h]
<1>1. /\ p \in Procs /\ h \in Of(p) /\ TypeOK /\ Compatible /\ Alone /\ ProcInv(p)
      /\ call[p].at = "idle" /\ unixFile[h].open /\ UNCHANGED <<unixFile, inode>>
      /\ unixFile[h].eFileLock > SHARED_LOCK /\ Enter(h, "lower")
      /\ SetLock(p, "SHARED_RANGE", "F_RDLCK")
  BY AtRest DEF Downgrade
<1>2. /\ posix' \in [Procs -> [Bytes -> PosixLocks]] /\ Compatible'
      /\ posix'[p]["SHARED_RANGE"] = "F_RDLCK"
      /\ \A c \in Bytes \ {"SHARED_RANGE"} : posix'[p][c] = posix[p][c]
      /\ \A q \in Procs \ {p} : posix'[q] = posix[q]
  <2>1. "SHARED_RANGE" \in Bytes /\ "F_RDLCK" \in PosixLocks
    BY Names
  <2>2. SetLock(p, "SHARED_RANGE", "F_RDLCK") /\ p \in Procs /\ TypeOK /\ Compatible
    BY <1>1
  <2> QED  BY <2>1, <2>2, LockFits
<1>3. h \in Writers(p) /\ posix[p]["SHARED_RANGE"] # "F_UNLCK"
      /\ inode[p].eFileLock = unixFile[h].eFileLock
  BY <1>1, AtLeast, HoldersRead DEF ProcInv, Recorded, At
<1>4. /\ posix'[p]["RESERVED_BYTE"] = posix[p]["RESERVED_BYTE"]
      /\ posix'[p]["PENDING_BYTE"] = posix[p]["PENDING_BYTE"]
  BY <1>2, Names
<1>5. ASSUME call'[p].at = "lower", call'[p].h = h
      PROVE  Granted(p)' /\ InCall(p)'
  <2>1. Granted(p)'
    BY <1>1, <1>2, <1>4, <1>5, NoLevelSet DEF ProcInv, Granted, At, Writers
  <2>2. InCall(p)'
    BY <1>1, <1>3, <1>5, NoLevelSet DEF InCall, At
  <2> QED  BY <2>1, <2>2
<1>6. ASSUME inode[p].eFileLock = EXCLUSIVE_LOCK
      PROVE  \A q \in Procs \ {p} : posix[q]["SHARED_RANGE"] = "F_UNLCK"
  <2>1. posix[p]["SHARED_RANGE"] = "F_WRLCK"
    BY <1>1, <1>3, <1>6 DEF ProcInv, Granted, At
  <2> QED  BY <1>1, <2>1, Names DEF Compatible
<1>7. \A q \in Procs \ {p} : ~ (At(q, "lower") /\ inode[q].eFileLock = EXCLUSIVE_LOCK)
  BY <1>1, <1>3 DEF Alone
<1> QED  BY <1>1, <1>2, <1>5, <1>6, <1>7, QuietStep, Names DEF At

LEMMA JoinSharedStep ==
    ASSUME IInv, NEW h \in Handles, JoinShared(h)
    PROVE  IInv'
<1> DEFINE p == pid[h]
<1>1. /\ p \in Procs /\ h \in Of(p) /\ TypeOK /\ Compatible /\ Alone /\ ProcInv(p)
      /\ call[p].at = "idle" /\ unixFile[h].open /\ UNCHANGED <<posix, call>>
      /\ unixFile[h].eFileLock = NO_LOCK /\ SetLevel(h, SHARED_LOCK)
      /\ inode[p].eFileLock \in {SHARED_LOCK, RESERVED_LOCK}
  BY AtRest DEF JoinShared
<1>2. /\ unixFile' \in [Handles -> [open : BOOLEAN, eFileLock : LockLevels]]
      /\ unixFile'[h].eFileLock = SHARED_LOCK /\ unixFile'[h].open = unixFile[h].open
      /\ \A g \in Handles \ {h} : unixFile'[g] = unixFile[g]
      /\ Opened(p)' = Opened(p) /\ Holders(p)' = Holders(p) \cup {h}
      /\ Writers(p)' = Writers(p) \ {h}
  <2>1. SHARED_LOCK \in LockLevels /\ SHARED_LOCK # NO_LOCK /\ SHARED_LOCK <= SHARED_LOCK
    BY DEF LockLevels, NO_LOCK, SHARED_LOCK, EXCLUSIVE_LOCK
  <2> QED  BY <1>1, <2>1, LevelSet
<1>3. h \notin Holders(p) /\ h \notin Writers(p) /\ Holders(p) # {} /\ h \in Opened(p)
  <2>1. inode[p].eFileLock # NO_LOCK
    BY <1>1, Order
  <2>2. Holders(p) # {} /\ h \notin Holders(p)
    BY <1>1, <2>1, HoldersRead DEF Holders
  <2> QED  BY <1>1, <2>2, HoldersRead DEF Opened
<1>4. /\ inode' \in [Procs -> [nRef : Nat, nShared : Nat, nLock : Nat,
                               eFileLock : LockLevels, pUnused : Nat]]
      /\ inode'[p].nShared = inode[p].nShared + 1 /\ inode'[p].nLock = inode[p].nLock + 1
      /\ inode'[p].nRef = inode[p].nRef /\ inode'[p].pUnused = inode[p].pUnused
      /\ inode'[p].eFileLock = inode[p].eFileLock
      /\ \A q \in Procs \ {p} : inode'[q] = inode[q]
  <2> DEFINE shared == inode[p].nShared + 1
             locks == inode[p].nLock + 1
  <2>1. inode' = [inode EXCEPT ![p].nShared = shared, ![p].nLock = locks]
    BY DEF JoinShared
  <2>2. shared \in Nat /\ locks \in Nat
    BY <1>1, HandleFacts
  <2> HIDE DEF shared, locks
  <2>3. /\ inode' \in [Procs -> [nRef : Nat, nShared : Nat, nLock : Nat,
                                 eFileLock : LockLevels, pUnused : Nat]]
        /\ inode'[p].nShared = shared /\ inode'[p].nLock = locks
        /\ inode'[p].nRef = inode[p].nRef /\ inode'[p].pUnused = inode[p].pUnused
        /\ inode'[p].eFileLock = inode[p].eFileLock
        /\ \A q \in Procs \ {p} : inode'[q] = inode[q]
    BY <1>1, <2>1, <2>2, InodeType
  <2> QED  BY <2>3 DEF shared, locks
<1>5. TypeOK'
  <2>1. \A g \in Handles : unixFile'[g].open = unixFile[g].open
    BY <1>2
  <2>2. \A q \in Procs : call[q] # Idle => /\ call[q].h \in Handles /\ pid[call[q].h] = q
                                           /\ unixFile[call[q].h].open
    BY <1>1, HandleFacts DEF Of
  <2> QED  BY <1>1, <1>2, <1>4, <2>1, <2>2 DEF TypeOK
<1>6. Counted(p)'
  <2>1. inode[p].nShared \in Nat /\ inode[p].nLock = inode[p].nShared
    BY <1>1, HandleFacts DEF ProcInv, Counted
  <2>2. inode[p].nLock + 1 # 0 /\ inode[p].nShared + 1 = inode[p].nLock + 1
    BY <2>1
  <2> QED  BY <1>1, <1>2, <1>3, <1>4, <2>2, OneMore DEF ProcInv, Counted
<1>7. Recorded(p)' /\ Granted(p)'
  <2>1. Writers(p)' = Writers(p) /\ \A g \in Writers(p) : unixFile'[g] = unixFile[g]
    BY <1>2, <1>3 DEF Writers, Of
  <2>2. Holders(p)' # {}
    BY <1>2
  <2> QED  BY <1>1, <1>2, <1>3, <1>4, <2>1, <2>2 DEF ProcInv, Recorded, Granted, At
<1>8. InCall(p)'
  BY <1>1 DEF InCall, At
<1>9. Local(p)
  BY <1>1, <1>2, <1>4 DEF Local
<1>10. Compatible' /\ Alone'
  BY <1>1, <1>4 DEF Compatible, Alone, At
<1> QED  BY <1>1, <1>5, <1>6, <1>7, <1>8, <1>9, <1>10, LocalStep DEF ProcInv

LEMMA BeginReleaseStep ==
    ASSUME IInv, NEW h \in Handles, BeginRelease(h)
    PROVE  IInv'
<1> DEFINE p == pid[h]
<1>1. /\ p \in Procs /\ h \in Of(p) /\ TypeOK /\ Compatible /\ Alone /\ ProcInv(p)
      /\ call[p].at = "idle" /\ unixFile[h].open /\ UNCHANGED unixFile
      /\ unixFile[h].eFileLock > SHARED_LOCK /\ Enter(h, "release")
      /\ posix' = [posix EXCEPT ![p] = Unlocked(p, {"PENDING_BYTE", "RESERVED_BYTE"})]
      /\ inode' = [inode EXCEPT ![p].eFileLock = SHARED_LOCK]
  BY AtRest DEF BeginRelease
<1>2. /\ posix' \in [Procs -> [Bytes -> PosixLocks]] /\ Compatible'
      /\ posix'[p]["RESERVED_BYTE"] = "F_UNLCK"
      /\ posix'[p]["SHARED_RANGE"] = posix[p]["SHARED_RANGE"]
      /\ \A q \in Procs \ {p} : posix'[q] = posix[q]
  <2>1. /\ posix' \in [Procs -> [Bytes -> PosixLocks]]
        /\ posix'[p]["RESERVED_BYTE"] = "F_UNLCK" /\ posix'[p]["PENDING_BYTE"] = "F_UNLCK"
        /\ posix'[p]["SHARED_RANGE"] = posix[p]["SHARED_RANGE"]
        /\ \A q \in Procs \ {p} : posix'[q] = posix[q]
    BY <1>1 DEF TypeOK, Unlocked, Bytes, PosixLocks
  <2> QED  BY <1>1, <2>1, UnlockFits, Names
<1>3. /\ call' \in [Procs -> {Idle} \cup [at : Points, h : Handles]]
      /\ call'[p].at = "release" /\ call'[p].h = h
      /\ \A q \in Procs \ {p} : call'[q] = call[q]
      /\ \A q \in Procs : call'[q] # Idle => /\ pid[call'[q].h] = q
                                             /\ unixFile'[call'[q].h].open
  <2>1. call' = [call EXCEPT ![p] = [at |-> "release", h |-> h]] /\ unixFile' = unixFile
    BY <1>1 DEF Enter, Call
  <2>2. [at |-> "release", h |-> h] \in [at : Points, h : Handles]
    BY DEF Points
  <2>3. /\ call \in [Procs -> {Idle} \cup [at : Points, h : Handles]]
        /\ \A q \in Procs : call[q] # Idle => /\ pid[call[q].h] = q
                                              /\ unixFile[call[q].h].open
    BY <1>1 DEF TypeOK
  <2> QED  BY <1>1, <2>1, <2>2, <2>3
<1>4. /\ inode' \in [Procs -> [nRef : Nat, nShared : Nat, nLock : Nat,
                               eFileLock : LockLevels, pUnused : Nat]]
      /\ inode'[p].nRef = inode[p].nRef /\ inode'[p].nShared = inode[p].nShared
      /\ inode'[p].nLock = inode[p].nLock /\ inode'[p].pUnused = inode[p].pUnused
      /\ inode'[p].eFileLock = SHARED_LOCK
      /\ \A q \in Procs \ {p} : inode'[q] = inode[q]
  <2>1. SHARED_LOCK \in LockLevels
    BY Order
  <2> QED  BY <1>1, <2>1, InodeType
<1>5. TypeOK'
  BY <1>1, <1>2, <1>3, <1>4 DEF TypeOK
<1>6. /\ Opened(p)' = Opened(p) /\ Holders(p)' = Holders(p) /\ Writers(p)' = Writers(p)
      /\ h \in Writers(p) /\ h \in Holders(p)
  BY <1>1, NoLevelSet, AtLeast, HoldersRead
<1>7. Counted(p)'
  BY <1>1, <1>4, <1>6 DEF ProcInv, Counted
<1>8. Recorded(p)'
  <2>1. SHARED_LOCK # NO_LOCK
    BY Order
  <2> QED  BY <1>1, <1>3, <1>4, <1>6, <2>1 DEF ProcInv, Recorded, At
<1>9. Granted(p)'
  BY <1>1, <1>2, <1>3, <1>6 DEF ProcInv, Granted, At
<1>10. InCall(p)'
  BY <1>3, <1>4, <1>6 DEF InCall, At
<1>11. Local(p)
  BY <1>1, <1>2, <1>3, <1>4 DEF Local
<1>12. Alone'
  BY <1>1, <1>2, <1>3, <1>11, StaysAlone DEF At
<1> QED  BY <1>1, <1>2, <1>5, <1>7, <1>8, <1>9, <1>10, <1>11, <1>12, LocalStep DEF ProcInv

------------------------------------------------------------------------------
(* Steps of the call a process is in                                         *)

LEMMA InTheCall ==
    ASSUME IInv, NEW p \in Procs, NEW at \in Points, At(p, at)
    PROVE  /\ TypeOK /\ Compatible /\ Alone /\ ProcInv(p)
           /\ call[p].h \in Of(p) /\ call[p].h \in Handles /\ pid[call[p].h] = p
           /\ unixFile[call[p].h].open
<1>1. call[p] # Idle
  <2>1. Idle.at = "idle" /\ "idle" \notin Points
    BY DEF Idle, Points
  <2> QED  BY <2>1 DEF At
<1> QED  BY <1>1, HandleFacts DEF IInv, Of

LEMMA ReadRangeStep ==
    ASSUME IInv, NEW p \in Procs, ReadRange(p)
    PROVE  IInv'
<1> DEFINE h == call[p].h
<1>1. /\ TypeOK /\ Compatible /\ ProcInv(p) /\ h \in Of(p) /\ unixFile[h].open /\ pid[h] = p
      /\ UNCHANGED <<unixFile, inode>> /\ call[p].at = "read range"
      /\ Enter(h, "drop pending") /\ SetLock(p, "SHARED_RANGE", "F_RDLCK")
  BY InTheCall, Names DEF ReadRange, At
<1>2. /\ posix' \in [Procs -> [Bytes -> PosixLocks]] /\ Compatible'
      /\ posix'[p]["SHARED_RANGE"] = "F_RDLCK"
      /\ \A c \in Bytes \ {"SHARED_RANGE"} : posix'[p][c] = posix[p][c]
      /\ \A q \in Procs \ {p} : posix'[q] = posix[q]
  <2>1. "SHARED_RANGE" \in Bytes /\ "F_RDLCK" \in PosixLocks
    BY Names
  <2>2. SetLock(p, "SHARED_RANGE", "F_RDLCK") /\ p \in Procs /\ TypeOK /\ Compatible
    BY <1>1
  <2> QED  BY <2>1, <2>2, LockFits
<1>3. /\ Holders(p) = {} /\ Writers(p) = {} /\ posix[p]["PENDING_BYTE"] = "F_RDLCK"
      /\ posix'[p]["PENDING_BYTE"] = posix[p]["PENDING_BYTE"]
      /\ posix'[p]["RESERVED_BYTE"] = posix[p]["RESERVED_BYTE"]
  BY <1>1, <1>2, HoldersRead, Names DEF ProcInv, InCall, At
<1>4. ASSUME call'[p].at = "drop pending"
      PROVE  Granted(p)' /\ InCall(p)'
  BY <1>1, <1>2, <1>3, <1>4, NoLevelSet DEF ProcInv, Granted, InCall, At
<1>5. \A q \in Procs \ {p} : ~ (At(q, "lower") /\ inode[q].eFileLock = EXCLUSIVE_LOCK)
  BY <1>3, NobodyLowers
<1> QED  BY <1>1, <1>2, <1>4, <1>5, QuietStep, Names DEF At

LEMMA RangeDeniedStep ==
    ASSUME IInv, NEW p \in Procs, RangeDenied(p)
    PROVE  IInv'
<1> DEFINE h == call[p].h
<1>1. /\ TypeOK /\ Compatible /\ ProcInv(p) /\ h \in Of(p) /\ unixFile[h].open /\ pid[h] = p
      /\ UNCHANGED <<unixFile, inode>> /\ posix' = posix /\ call[p].at = "read range"
      /\ Enter(h, "give up")
  BY InTheCall, Names DEF RangeDenied, At
<1>2. Holders(p) = {} /\ Writers(p) = {}
  BY <1>1, HoldersRead DEF ProcInv, InCall, At
<1>3. posix' \in [Procs -> [Bytes -> PosixLocks]]
  BY <1>1 DEF TypeOK
<1>4. Compatible'
  BY <1>1 DEF Compatible
<1>5. ASSUME call'[p].at = "give up"
      PROVE  Granted(p)' /\ InCall(p)'
  BY <1>1, <1>2, <1>5, NoLevelSet DEF ProcInv, Granted, InCall, At
<1> QED  BY <1>1, <1>3, <1>4, <1>5, QuietStep, Names DEF At

LEMMA GiveUpSharedStep ==
    ASSUME IInv, NEW p \in Procs, GiveUpShared(p)
    PROVE  IInv'
<1> DEFINE h == call[p].h
<1>1. /\ TypeOK /\ Compatible /\ ProcInv(p) /\ h \in Of(p) /\ unixFile[h].open /\ pid[h] = p
      /\ UNCHANGED <<unixFile, inode>> /\ call[p].at = "give up" /\ Leave(p)
      /\ posix' = [posix EXCEPT ![p] = Unlocked(p, {"PENDING_BYTE"})]
  BY InTheCall, Names DEF GiveUpShared, At
<1>2. /\ posix' \in [Procs -> [Bytes -> PosixLocks]] /\ Compatible'
      /\ posix'[p]["RESERVED_BYTE"] = posix[p]["RESERVED_BYTE"]
      /\ posix'[p]["SHARED_RANGE"] = posix[p]["SHARED_RANGE"]
      /\ \A q \in Procs \ {p} : posix'[q] = posix[q]
  BY <1>1, PendingDropped
<1>3. Holders(p) = {} /\ Writers(p) = {}
  BY <1>1, HoldersRead DEF ProcInv, InCall, At
<1>4. ASSUME call'[p].at = "idle"
      PROVE  Granted(p)' /\ InCall(p)'
  <2>1. Holders(p)' = {} /\ Writers(p)' = {} /\ inode' = inode
    BY <1>1, <1>3, NoLevelSet
  <2>2. Granted(p)'
    BY <1>1, <1>2, <2>1 DEF ProcInv, Granted
  <2>3. InCall(p)'
    BY <1>4 DEF InCall, At
  <2> QED  BY <2>2, <2>3
<1> QED  BY <1>1, <1>2, <1>4, QuietStep DEF At

LEMMA EndSharedStep ==
    ASSUME IInv, NEW p \in Procs, EndShared(p)
    PROVE  IInv'
<1> DEFINE h == call[p].h
<1>1. /\ TypeOK /\ Compatible /\ Alone /\ ProcInv(p) /\ h \in Of(p) /\ h \in Handles
      /\ unixFile[h].open /\ pid[h] = p
      /\ call[p].at = "drop pending" /\ Leave(p) /\ SetLevel(h, SHARED_LOCK)
      /\ posix' = [posix EXCEPT ![p] = Unlocked(p, {"PENDING_BYTE"})]
  BY InTheCall, Names DEF EndShared, At
<1>2. /\ posix' \in [Procs -> [Bytes -> PosixLocks]] /\ Compatible'
      /\ posix'[p]["RESERVED_BYTE"] = posix[p]["RESERVED_BYTE"]
      /\ posix'[p]["SHARED_RANGE"] = posix[p]["SHARED_RANGE"]
      /\ \A q \in Procs \ {p} : posix'[q] = posix[q]
  BY <1>1, PendingDropped
<1>3. /\ Holders(p) = {} /\ Writers(p) = {} /\ h \in Opened(p)
      /\ posix[p]["SHARED_RANGE"] = "F_RDLCK" /\ posix[p]["RESERVED_BYTE"] = "F_UNLCK"
  <2>1. Holders(p) = {} /\ posix[p]["SHARED_RANGE"] = "F_RDLCK"
    BY <1>1 DEF ProcInv, InCall, At
  <2>2. inode[p].eFileLock <= SHARED_LOCK
    BY <2>1, HoldersRead DEF NO_LOCK, SHARED_LOCK
  <2> QED  BY <1>1, <2>1, <2>2, HoldersRead DEF ProcInv, Granted, Opened
<1>4. /\ unixFile' \in [Handles -> [open : BOOLEAN, eFileLock : LockLevels]]
      /\ \A g \in Handles : unixFile'[g].open = unixFile[g].open
      /\ \A g \in Handles \ {h} : unixFile'[g] = unixFile[g]
      /\ Opened(p)' = Opened(p) /\ Holders(p)' = {h} /\ Writers(p)' = {}
  <2>1. SHARED_LOCK \in LockLevels /\ SHARED_LOCK # NO_LOCK /\ SHARED_LOCK <= SHARED_LOCK
    BY DEF LockLevels, NO_LOCK, SHARED_LOCK, EXCLUSIVE_LOCK
  <2>2. /\ unixFile' \in [Handles -> [open : BOOLEAN, eFileLock : LockLevels]]
        /\ unixFile'[h].open = unixFile[h].open
        /\ \A g \in Handles \ {h} : unixFile'[g] = unixFile[g]
        /\ Opened(p)' = Opened(p) /\ Holders(p)' = Holders(p) \cup {h}
        /\ Writers(p)' = Writers(p) \ {h}
    <3>1. TypeOK /\ h \in Of(p) /\ SetLevel(h, SHARED_LOCK)
      BY <1>1
    <3> QED  BY <2>1, <3>1, LevelSet
  <2> QED  BY <1>3, <2>2
<1>5. /\ inode' \in [Procs -> [nRef : Nat, nShared : Nat, nLock : Nat,
                               eFileLock : LockLevels, pUnused : Nat]]
      /\ inode'[p].nShared = 1 /\ inode'[p].nLock = 1
      /\ inode'[p].nRef = inode[p].nRef /\ inode'[p].eFileLock = SHARED_LOCK
      /\ \A q \in Procs \ {p} : inode'[q] = inode[q]
  <2> DEFINE locks == inode[p].nLock + 1
  <2>1. inode' = [inode EXCEPT ![p].nShared = 1, ![p].nLock = locks,
                               ![p].eFileLock = SHARED_LOCK]
    BY DEF EndShared
  <2>2. locks = 1
    BY <1>3, HoldersRead
  <2>3. SHARED_LOCK \in LockLevels
    BY Order
  <2> HIDE DEF locks
  <2> QED  BY <2>1, <2>2, <2>3, <1>1, InodeType, ZenonT(60)
<1>6. /\ call' \in [Procs -> {Idle} \cup [at : Points, h : Handles]]
      /\ call'[p].at = "idle"
      /\ \A q \in Procs \ {p} : call'[q] = call[q]
      /\ \A q \in Procs : call'[q] # Idle => /\ pid[call'[q].h] = q
                                             /\ unixFile'[call'[q].h].open
  BY <1>1, <1>4, CallSet, ZenonT(60)
<1>7. TypeOK'
  BY <1>2, <1>4, <1>5, <1>6 DEF TypeOK
<1>8. Counted(p)'
  <2>1. IsFiniteSet({h}) /\ Cardinality({h}) = 1
    BY FS_Singleton
  <2>2. Holders(p)' \subseteq Opened(p)'
    BY <1>3, <1>4
  <2>3. IsFiniteSet(Opened(p)) /\ inode[p].nRef = Cardinality(Opened(p))
    BY <1>1 DEF ProcInv, Counted
  <2> QED  BY <1>4, <1>5, <2>1, <2>2, <2>3 DEF Counted
<1>9. Recorded(p)'
  BY <1>4, <1>5, Order DEF Recorded
<1>10. Granted(p)'
  BY <1>2, <1>3, <1>4 DEF Granted
<1>11. InCall(p)'
  BY <1>6 DEF InCall, At
<1>12. Local(p)
  BY <1>1, <1>2, <1>4, <1>5, <1>6 DEF Local
<1>13. Alone'
  BY <1>1, <1>2, <1>6, <1>12, StaysAlone DEF At
<1> QED  BY <1>2, <1>7, <1>8, <1>9, <1>10, <1>11, <1>12, <1>13, LocalStep DEF ProcInv

\* Where an upgrade or a downgrade of one connection stands.
LEMMA Upgrading ==
    ASSUME IInv, NEW p \in Procs, At(p, "write range")
    PROVE  /\ call[p].h \in Holders(p) /\ unixFile[call[p].h].eFileLock # EXCLUSIVE_LOCK
           /\ inode[p].eFileLock = unixFile[call[p].h].eFileLock
           /\ posix[p]["PENDING_BYTE"] = "F_WRLCK" /\ posix[p]["SHARED_RANGE"] # "F_UNLCK"
           /\ Writers(p) \subseteq {call[p].h}
<1>1. /\ call[p].h \in Holders(p) /\ unixFile[call[p].h].eFileLock # EXCLUSIVE_LOCK
      /\ inode[p].eFileLock = unixFile[call[p].h].eFileLock
      /\ posix[p]["PENDING_BYTE"] = "F_WRLCK"
  BY DEF IInv, ProcInv, InCall
<1>2. \A g \in Writers(p) : unixFile[g].eFileLock = unixFile[call[p].h].eFileLock
  BY <1>1 DEF IInv, ProcInv, Recorded, At
<1>3. ASSUME NEW g \in Writers(p)
      PROVE  g = call[p].h
  <2>1. unixFile[call[p].h].eFileLock > SHARED_LOCK
    BY <1>2 DEF Writers
  <2>2. call[p].h \in Writers(p)
    BY <1>1, <2>1 DEF Writers, Holders
  <2> QED  BY <2>2 DEF IInv, ProcInv, Recorded
<1> QED  BY <1>1, <1>3, HoldersRead

LEMMA WriteRangeStep ==
    ASSUME IInv, NEW p \in Procs, WriteRange(p)
    PROVE  IInv'
<1> DEFINE h == call[p].h
<1>1. /\ TypeOK /\ Compatible /\ At(p, "write range")
      /\ SetLock(p, "SHARED_RANGE", "F_WRLCK") /\ SetLevel(h, EXCLUSIVE_LOCK) /\ Leave(p)
      /\ inode' = [inode EXCEPT ![p].eFileLock = EXCLUSIVE_LOCK]
  BY DEF WriteRange, IInv
<1>2. /\ posix' \in [Procs -> [Bytes -> PosixLocks]] /\ Compatible'
      /\ posix'[p]["SHARED_RANGE"] = "F_WRLCK"
      /\ \A c \in Bytes \ {"SHARED_RANGE"} : posix'[p][c] = posix[p][c]
      /\ \A q \in Procs \ {p} : posix'[q] = posix[q]
  <2>1. "SHARED_RANGE" \in Bytes /\ "F_WRLCK" \in PosixLocks
    BY Names
  <2>2. SetLock(p, "SHARED_RANGE", "F_WRLCK") /\ p \in Procs /\ TypeOK /\ Compatible
    BY <1>1
  <2> QED  BY <2>1, <2>2, LockFits
<1>3. /\ h \in Holders(p) /\ Writers(p) \subseteq {h}
      /\ posix'[p]["PENDING_BYTE"] = "F_WRLCK" /\ posix[p]["PENDING_BYTE"] = "F_WRLCK"
  BY <1>1, <1>2, Upgrading, Names
<1>4. /\ EXCLUSIVE_LOCK \in LockLevels \ {NO_LOCK}
      /\ ~ (EXCLUSIVE_LOCK <= SHARED_LOCK) /\ EXCLUSIVE_LOCK # RESERVED_LOCK
  BY DEF EXCLUSIVE_LOCK, RESERVED_LOCK, SHARED_LOCK, NO_LOCK, LockLevels
<1>5. \A q \in Procs \ {p} : ~ (At(q, "lower") /\ inode[q].eFileLock = EXCLUSIVE_LOCK)
  BY <1>3, NobodyLowers
<1> QED  BY <1>1, <1>2, <1>3, <1>4, <1>5, LevelStep

LEMMA StayPendingStep ==
    ASSUME IInv, NEW p \in Procs, StayPending(p)
    PROVE  IInv'
<1> DEFINE h == call[p].h
<1>1. /\ TypeOK /\ Compatible /\ At(p, "write range")
      /\ SetLevel(h, PENDING_LOCK) /\ Leave(p) /\ posix' = posix
      /\ inode' = [inode EXCEPT ![p].eFileLock = PENDING_LOCK]
  BY DEF StayPending, IInv
<1>2. posix' \in [Procs -> [Bytes -> PosixLocks]] /\ Compatible'
  <2>1. posix' \in [Procs -> [Bytes -> PosixLocks]]
    BY <1>1 DEF TypeOK
  <2> QED  BY <1>1, <2>1 DEF Compatible
<1>3. /\ h \in Holders(p) /\ Writers(p) \subseteq {h}
      /\ posix[p]["PENDING_BYTE"] = "F_WRLCK" /\ posix[p]["SHARED_RANGE"] # "F_UNLCK"
  BY <1>1, Upgrading
<1>4. /\ PENDING_LOCK \in LockLevels \ {NO_LOCK} /\ PENDING_LOCK # EXCLUSIVE_LOCK
      /\ ~ (PENDING_LOCK <= SHARED_LOCK) /\ PENDING_LOCK # RESERVED_LOCK
  BY DEF EXCLUSIVE_LOCK, PENDING_LOCK, RESERVED_LOCK, SHARED_LOCK, NO_LOCK, LockLevels
<1> QED  BY <1>1, <1>2, <1>3, <1>4, LevelStep

LEMMA EndDowngradeStep ==
    ASSUME IInv, NEW p \in Procs, EndDowngrade(p)
    PROVE  IInv'
<1> DEFINE h == call[p].h
<1>1. /\ TypeOK /\ Compatible /\ ProcInv(p) /\ At(p, "lower")
      /\ SetLevel(h, SHARED_LOCK) /\ Leave(p)
      /\ posix' = [posix EXCEPT ![p] = Unlocked(p, {"PENDING_BYTE", "RESERVED_BYTE"})]
      /\ inode' = [inode EXCEPT ![p].eFileLock = SHARED_LOCK]
  BY DEF EndDowngrade, IInv
<1>2. /\ posix' \in [Procs -> [Bytes -> PosixLocks]] /\ Compatible'
      /\ posix'[p]["RESERVED_BYTE"] = "F_UNLCK"
      /\ posix'[p]["SHARED_RANGE"] = posix[p]["SHARED_RANGE"]
      /\ \A q \in Procs \ {p} : posix'[q] = posix[q]
  <2>1. /\ posix' \in [Procs -> [Bytes -> PosixLocks]]
        /\ posix'[p]["RESERVED_BYTE"] = "F_UNLCK" /\ posix'[p]["PENDING_BYTE"] = "F_UNLCK"
        /\ posix'[p]["SHARED_RANGE"] = posix[p]["SHARED_RANGE"]
        /\ \A q \in Procs \ {p} : posix'[q] = posix[q]
    BY <1>1 DEF TypeOK, Unlocked, Bytes, PosixLocks
  <2> QED  BY <1>1, <2>1, UnlockFits, Names
<1>3. /\ h \in Holders(p) /\ Writers(p) \subseteq {h} /\ posix[p]["SHARED_RANGE"] # "F_UNLCK"
  <2>1. h \in Writers(p)
    BY <1>1 DEF ProcInv, InCall, At
  <2> QED  BY <1>1, <2>1, HoldersRead DEF ProcInv, Recorded
<1>4. /\ SHARED_LOCK \in LockLevels \ {NO_LOCK} /\ SHARED_LOCK # EXCLUSIVE_LOCK
      /\ SHARED_LOCK # RESERVED_LOCK /\ ~ (SHARED_LOCK >= PENDING_LOCK)
  BY DEF EXCLUSIVE_LOCK, PENDING_LOCK, RESERVED_LOCK, SHARED_LOCK, NO_LOCK, LockLevels
<1> QED  BY <1>1, <1>2, <1>3, <1>4, LevelStep

\* A connection gives up its read lock, and with the last one the process does.
LEMMA ReleaseSharedStep ==
    ASSUME IInv, NEW p \in Procs, NEW h \in Holders(p), ReleaseShared(h), Leave(p),
           ~ At(p, "lower"), At(p, "release") => call[p].h = h
    PROVE  IInv'
<1> DEFINE last == inode[p].nShared = 1
<1>1. /\ TypeOK /\ Compatible /\ Alone /\ ProcInv(p)
      /\ h \in Of(p) /\ h \in Handles /\ pid[h] = p
  BY DEF IInv, Holders, Of
<1>2. SetLevel(h, NO_LOCK) /\ posix' = [posix EXCEPT ![p] = AfterClose(p, last)]
  <2>1. last <=> inode[p].nLock = 1
    BY HoldersRead
  <2> QED  BY <1>1, <2>1 DEF ReleaseShared
<1>3. /\ unixFile' \in [Handles -> [open : BOOLEAN, eFileLock : LockLevels]]
      /\ \A g \in Handles : unixFile'[g].open = unixFile[g].open
      /\ \A g \in Handles \ {h} : unixFile'[g] = unixFile[g]
      /\ Opened(p)' = Opened(p) /\ Holders(p)' = Holders(p) \ {h}
      /\ Writers(p)' = Writers(p) \ {h}
  <2>1. NO_LOCK \in LockLevels /\ NO_LOCK <= SHARED_LOCK
    BY DEF LockLevels, NO_LOCK, SHARED_LOCK, EXCLUSIVE_LOCK
  <2>2. TypeOK /\ h \in Of(p) /\ SetLevel(h, NO_LOCK)
    BY <1>1, <1>2
  <2>3. /\ unixFile' \in [Handles -> [open : BOOLEAN, eFileLock : LockLevels]]
        /\ unixFile'[h].open = unixFile[h].open
        /\ \A g \in Handles \ {h} : unixFile'[g] = unixFile[g]
        /\ Opened(p)' = Opened(p) /\ Holders(p)' = Holders(p) \ {h}
        /\ Writers(p)' = Writers(p) \ {h}
    BY <2>1, <2>2, LevelSet
  <2> QED  BY <2>3
<1>4. /\ call' \in [Procs -> {Idle} \cup [at : Points, h : Handles]]
      /\ call'[p].at = "idle"
      /\ \A q \in Procs \ {p} : call'[q] = call[q]
      /\ \A q \in Procs : call'[q] # Idle => /\ pid[call'[q].h] = q
                                             /\ unixFile'[call'[q].h].open
  BY <1>1, <1>3, CallSet
<1>5. /\ inode[p].nShared \in Nat \ {0} /\ inode[p].nLock = inode[p].nShared
      /\ last <=> Holders(p) = {h}
      /\ IsFiniteSet(Holders(p) \ {h}) /\ Cardinality(Holders(p) \ {h}) = inode[p].nShared - 1
  <2>1. /\ IsFiniteSet(Holders(p)) /\ inode[p].nShared = Cardinality(Holders(p))
        /\ inode[p].nLock = inode[p].nShared
    BY <1>1 DEF ProcInv, Counted
  <2> QED  BY <2>1, OneLess, NoneCounted
<1>6. /\ inode' \in [Procs -> [nRef : Nat, nShared : Nat, nLock : Nat,
                               eFileLock : LockLevels, pUnused : Nat]]
      /\ inode'[p].nShared = inode[p].nShared - 1 /\ inode'[p].nLock = inode[p].nLock - 1
      /\ inode'[p].nRef = inode[p].nRef
      /\ last => inode'[p].eFileLock = NO_LOCK /\ inode'[p].pUnused = 0
      /\ ~ last => inode'[p].eFileLock = inode[p].eFileLock
      /\ \A q \in Procs \ {p} : inode'[q] = inode[q]
  <2> DEFINE shared == inode[p].nShared - 1
             locks == inode[p].nLock - 1
             l == IF inode[p].nShared = 1 THEN NO_LOCK ELSE inode[p].eFileLock
             unused == IF inode[p].nLock = 1 THEN 0 ELSE inode[p].pUnused
  <2>1. inode' = [inode EXCEPT ![p].nShared = shared, ![p].nLock = locks,
                               ![p].eFileLock = l, ![p].pUnused = unused]
    BY <1>1 DEF ReleaseShared
  <2>2. /\ shared \in Nat /\ locks \in Nat /\ l \in LockLevels /\ unused \in Nat
        /\ shared = inode[p].nShared - 1 /\ locks = inode[p].nLock - 1
        /\ last => l = NO_LOCK /\ unused = 0
        /\ ~ last => l = inode[p].eFileLock
    <3>1. /\ inode[p].eFileLock \in LockLevels /\ NO_LOCK \in LockLevels
          /\ inode[p].pUnused \in Nat
      BY <1>1, HandleFacts, Order
    <3> QED  BY <1>5, <3>1
  <2> HIDE DEF shared, locks, l, unused
  <2>3. /\ inode' \in [Procs -> [nRef : Nat, nShared : Nat, nLock : Nat,
                                 eFileLock : LockLevels, pUnused : Nat]]
        /\ inode'[p].nShared = shared /\ inode'[p].nLock = locks
        /\ inode'[p].nRef = inode[p].nRef /\ inode'[p].pUnused = unused
        /\ inode'[p].eFileLock = l
        /\ \A q \in Procs \ {p} : inode'[q] = inode[q]
    BY <1>1, <2>1, <2>2, InodeType
  <2> QED  BY <2>2, <2>3
<1>7. /\ posix' \in [Procs -> [Bytes -> PosixLocks]] /\ Compatible'
      /\ \A q \in Procs \ {p} : posix'[q] = posix[q]
      /\ posix'[p]["SHARED_RANGE"] \in {"F_UNLCK", posix[p]["SHARED_RANGE"]}
      /\ last => posix'[p]["RESERVED_BYTE"] = "F_UNLCK"
      /\ ~ last => posix'[p] = posix[p]
  <2>1. posix \in [Procs -> [Bytes -> PosixLocks]]
    BY <1>1 DEF TypeOK
  <2>2. CASE last
    <3>1. posix' = [posix EXCEPT ![p] = Unlocked(p, Bytes)]
      BY <1>2, <2>2 DEF AfterClose
    <3>2. /\ posix' \in [Procs -> [Bytes -> PosixLocks]]
          /\ \A q \in Procs \ {p} : posix'[q] = posix[q]
          /\ \A b \in Bytes : posix'[p][b] = "F_UNLCK"
      BY <2>1, <3>1 DEF Unlocked, PosixLocks
    <3> QED  BY <1>1, <2>2, <3>2, UnlockFits, Names
  <2>3. CASE ~ last
    <3>1. posix' = posix
      BY <1>2, <2>1, <2>3 DEF AfterClose
    <3>2. Compatible'
      BY <1>1, <3>1 DEF Compatible
    <3> QED  BY <2>1, <2>3, <3>1, <3>2
  <2> QED  BY <2>2, <2>3
<1>8. TypeOK'
  BY <1>3, <1>4, <1>6, <1>7 DEF TypeOK
<1>9. Counted(p)'
  <2>1. inode'[p].nLock = 0 => inode'[p].pUnused = 0
    BY <1>5, <1>6
  <2>2. IsFiniteSet(Opened(p)) /\ inode[p].nRef = Cardinality(Opened(p))
        /\ Holders(p) \subseteq Opened(p)
    BY <1>1 DEF ProcInv, Counted
  <2> QED  BY <1>3, <1>5, <1>6, <2>1, <2>2 DEF Counted
<1>10. ASSUME last PROVE Recorded(p)' /\ Granted(p)'
  <2>1. Holders(p)' = {} /\ Writers(p)' = {}
    BY <1>3, <1>5, <1>10, HoldersRead
  <2>2. Recorded(p)' /\ Granted(p)'
    BY <1>6, <1>7, <1>10, <2>1 DEF Recorded, Granted
  <2> QED  BY <2>2
<1>11. ASSUME ~ last PROVE Recorded(p)' /\ Granted(p)'
  <2>1. /\ Holders(p) # {} /\ Holders(p)' # {} /\ inode'[p].eFileLock = inode[p].eFileLock
        /\ posix'[p] = posix[p]
    BY <1>3, <1>5, <1>6, <1>7, <1>11
  <2>2. \A g \in Writers(p)' : g \in Writers(p) /\ unixFile'[g] = unixFile[g]
    BY <1>3 DEF Writers, Of
  <2>3. \A g \in Writers(p)' : ~ At(p, "release")
    <3> SUFFICES ASSUME NEW g \in Writers(p)', At(p, "release")
                 PROVE  FALSE
      OBVIOUS
    <3>1. h \in Writers(p)
      BY <1>1 DEF ProcInv, InCall
    <3> QED  BY <1>1, <1>3, <3>1 DEF ProcInv, Recorded
  <2>4. Recorded(p)'
    BY <1>1, <2>1, <2>2, <2>3 DEF ProcInv, Recorded
  <2>5. Granted(p)'
    BY <1>1, <2>1, <2>2, <2>3 DEF ProcInv, Granted
  <2> QED  BY <2>4, <2>5
<1>12. InCall(p)'
  BY <1>4 DEF InCall, At
<1>13. Local(p)
  BY <1>1, <1>3, <1>4, <1>6, <1>7 DEF Local
<1>14. Alone'
  BY <1>1, <1>4, <1>7, <1>13, StaysAlone DEF At
<1> QED  BY <1>7, <1>8, <1>9, <1>10, <1>11, <1>12, <1>13, <1>14, LocalStep DEF ProcInv

LEMMA ReleaseStep ==
    ASSUME IInv, NEW h \in Handles, Release(h)
    PROVE  IInv'
<1> DEFINE p == pid[h]
<1>1. /\ p \in Procs /\ TypeOK /\ call[p].at = "idle" /\ call[p] = Idle /\ call' = call
      /\ unixFile[h].eFileLock = SHARED_LOCK /\ ReleaseShared(h)
  BY AtRest DEF Release
<1>2. h \in Holders(p)
  BY <1>1, AtLeast, Order
<1>3. Leave(p)
  BY <1>1 DEF Leave, TypeOK
<1> QED  BY <1>1, <1>2, <1>3, ReleaseSharedStep DEF At

LEMMA EndReleaseStep ==
    ASSUME IInv, NEW p \in Procs, EndRelease(p)
    PROVE  IInv'
<1> DEFINE h == call[p].h
<1>1. ProcInv(p) /\ At(p, "release") /\ ReleaseShared(h) /\ Leave(p)
  BY DEF EndRelease, IInv
<1>2. h \in Holders(p)
  BY <1>1, HoldersRead DEF ProcInv, InCall
<1> QED  BY <1>1, <1>2, ReleaseSharedStep DEF At

LEMMA KillStep ==
    ASSUME IInv, NEW p \in Procs, Kill(p)
    PROVE  IInv'
<1>1. TypeOK /\ Compatible /\ Alone
  BY DEF IInv
<1>2. /\ unixFile' \in [Handles -> [open : BOOLEAN, eFileLock : LockLevels]]
      /\ \A h \in Handles : pid[h] = p =>
            ~ unixFile'[h].open /\ unixFile'[h].eFileLock = NO_LOCK
      /\ \A h \in Handles : pid[h] # p => unixFile'[h] = unixFile[h]
  <2>1. [open |-> FALSE, eFileLock |-> NO_LOCK] \in [open : BOOLEAN, eFileLock : LockLevels]
    BY Order
  <2>2. unixFile \in [Handles -> [open : BOOLEAN, eFileLock : LockLevels]]
    BY <1>1 DEF TypeOK
  <2> QED  BY <2>1, <2>2 DEF Kill
<1>3. Opened(p)' = {} /\ Holders(p)' = {} /\ Writers(p)' = {}
  BY <1>2 DEF Opened, Holders, Writers, Of, NO_LOCK, SHARED_LOCK
<1>4. /\ inode' \in [Procs -> [nRef : Nat, nShared : Nat, nLock : Nat,
                               eFileLock : LockLevels, pUnused : Nat]]
      /\ inode'[p].nRef = 0 /\ inode'[p].nShared = 0 /\ inode'[p].nLock = 0
      /\ inode'[p].eFileLock = NO_LOCK /\ inode'[p].pUnused = 0
      /\ \A q \in Procs \ {p} : inode'[q] = inode[q]
  BY <1>1, InodeType, Order DEF Kill
<1>5. /\ posix' \in [Procs -> [Bytes -> PosixLocks]]
      /\ \A q \in Procs \ {p} : posix'[q] = posix[q]
      /\ \A b \in Bytes : posix'[p][b] = "F_UNLCK"
  <2>1. posix \in [Procs -> [Bytes -> PosixLocks]]
    BY <1>1 DEF TypeOK
  <2> QED  BY <2>1 DEF Kill, Unlocked, PosixLocks
<1>6. /\ call' \in [Procs -> {Idle} \cup [at : Points, h : Handles]]
      /\ call'[p] = Idle /\ call'[p].at = "idle"
      /\ \A q \in Procs \ {p} : call'[q] = call[q]
  <2>1. call \in [Procs -> {Idle} \cup [at : Points, h : Handles]]
    BY <1>1 DEF TypeOK
  <2>2. call' = [call EXCEPT ![p] = Idle] /\ Idle.at = "idle"
    BY DEF Kill, Leave, Idle
  <2> QED  BY <2>1, <2>2
<1>7. TypeOK'
  <2>1. ASSUME NEW q \in Procs, call'[q] # Idle
        PROVE  pid[call'[q].h] = q /\ unixFile'[call'[q].h].open
    <3>1. q # p /\ call'[q] = call[q] /\ call[q] # Idle
      BY <1>6, <2>1
    <3>2. call[q].h \in Handles /\ pid[call[q].h] = q /\ unixFile[call[q].h].open
      BY <1>1, <3>1, HandleFacts DEF Of
    <3>3. unixFile'[call[q].h] = unixFile[call[q].h]
      BY <1>2, <3>1, <3>2
    <3> QED  BY <3>1, <3>2, <3>3
  <2> QED  BY <1>2, <1>4, <1>5, <1>6, <2>1 DEF TypeOK
<1>8. Counted(p)'
  BY <1>3, <1>4, FS_EmptySet DEF Counted
<1>9. Recorded(p)' /\ Granted(p)'
  BY <1>3, <1>4, <1>5, Names DEF Recorded, Granted
<1>10. InCall(p)'
  BY <1>6 DEF InCall, At
<1>11. Local(p)
  BY <1>2, <1>4, <1>5, <1>6 DEF Local, Of
<1>12. Compatible'
  BY <1>1, <1>5, UnlockFits
<1>13. Alone'
  BY <1>1, <1>5, <1>6, <1>11, StaysAlone, Names DEF At
<1> QED  BY <1>7, <1>8, <1>9, <1>10, <1>11, <1>12, <1>13, LocalStep DEF ProcInv

LEMMA Next_IInv == IInv /\ [Next]_vars => IInv'
<1> SUFFICES ASSUME IInv, [Next]_vars
             PROVE  IInv'
  OBVIOUS
<1>1. ASSUME NEW h \in Handles,
             \/ Open(h) \/ Close(h)
             \/ JoinShared(h) \/ BeginShared(h) \/ LockReserved(h)
             \/ BeginExclusive(h) \/ RetryExclusive(h)
             \/ Downgrade(h) \/ BeginRelease(h) \/ Release(h)
      PROVE  IInv'
  BY <1>1, OpenStep, CloseStep, JoinSharedStep, BeginSharedStep, LockReservedStep,
     BeginExclusiveStep, RetryExclusiveStep, DowngradeStep, BeginReleaseStep, ReleaseStep
<1>2. ASSUME NEW p \in Procs,
             \/ ReadRange(p) \/ EndShared(p) \/ RangeDenied(p) \/ GiveUpShared(p)
             \/ WriteRange(p) \/ StayPending(p)
             \/ EndDowngrade(p) \/ EndRelease(p)
             \/ Kill(p)
      PROVE  IInv'
  BY <1>2, ReadRangeStep, EndSharedStep, RangeDeniedStep, GiveUpSharedStep, WriteRangeStep,
     StayPendingStep, EndDowngradeStep, EndReleaseStep, KillStep
<1>3. CASE UNCHANGED vars
  <2>1. UNCHANGED <<unixFile, inode, posix, call>>
    BY <1>3 DEF vars
  <2>2. ASSUME NEW p \in Procs PROVE ProcInv(p)'
    <3>1. ProcInv(p) /\ Opened(p)' = Opened(p) /\ Holders(p)' = Holders(p)
          /\ Writers(p)' = Writers(p)
      BY <2>1, NoLevelSet DEF IInv
    <3>2. Counted(p)' /\ Recorded(p)'
      BY <2>1, <3>1 DEF ProcInv, Counted, Recorded, At
    <3>3. Granted(p)' /\ InCall(p)'
      BY <2>1, <3>1 DEF ProcInv, Granted, InCall, At
    <3> QED  BY <3>2, <3>3 DEF ProcInv
  <2>3. TypeOK' /\ Compatible' /\ Alone'
    BY <2>1 DEF IInv, TypeOK, Compatible, Alone, At
  <2> QED  BY <2>2, <2>3 DEF IInv
<1> QED  BY <1>1, <1>2, <1>3 DEF Next

LEMMA Invariance == Spec => []IInv
<1>1. Init => IInv
  BY Init_IInv
<1>2. IInv /\ [Next]_vars => IInv'
  BY Next_IInv
<1> QED  BY <1>1, <1>2, PTL DEF Spec

------------------------------------------------------------------------------
(* What follows from the invariant                                           *)

\* The level a connection stands at, while it may be giving it up.
LEMMA Levels ==
    ASSUME IInv, NEW h \in Handles
    PROVE  /\ Level(h) \in LockLevels
           /\ Level(h) # NO_LOCK <=> h \in Holders(pid[h])
           /\ Level(h) > SHARED_LOCK <=> h \in Writers(pid[h]) /\ ~ At(pid[h], "release")
           /\ ~ At(pid[h], "release") => Level(h) = unixFile[h].eFileLock
           /\ h \notin Writers(pid[h]) => Level(h) = unixFile[h].eFileLock
           /\ At(pid[h], "release") /\ h \in Writers(pid[h])
                => Level(h) = SHARED_LOCK /\ call[pid[h]].h = h
           /\ At(pid[h], "lower") /\ h \in Writers(pid[h]) => call[pid[h]].h = h
<1> DEFINE p == pid[h]
<1>1. /\ p \in Procs /\ h \in Of(p) /\ TypeOK /\ ProcInv(p) /\ unixFile[h].eFileLock \in LockLevels
  BY AtRest, HandleFacts
<1>2. /\ h \in Holders(p) <=> unixFile[h].eFileLock # NO_LOCK
      /\ h \in Writers(p) <=> unixFile[h].eFileLock > SHARED_LOCK
      /\ h \in Writers(p) => h \in Holders(p)
  BY <1>1, HoldersRead DEF Holders, Writers
<1>3. At(p, "lower") \/ At(p, "release") =>
        call[p].h \in Writers(p) /\ (h \in Writers(p) => call[p].h = h)
  BY <1>1 DEF ProcInv, InCall, Recorded
<1>4. Busy(h, "release") <=> At(p, "release") /\ call[p].h = h
  BY DEF Busy
<1>5. CASE Busy(h, "release")
  <2>1. h \in Writers(p) /\ At(p, "release") /\ Level(h) = SHARED_LOCK
    BY <1>3, <1>4, <1>5 DEF Level
  <2>2. SHARED_LOCK \in LockLevels /\ SHARED_LOCK # NO_LOCK /\ ~ (SHARED_LOCK > SHARED_LOCK)
    BY DEF LockLevels, SHARED_LOCK, NO_LOCK, EXCLUSIVE_LOCK
  <2> QED  BY <1>2, <1>3, <2>1, <2>2
<1>6. CASE ~ Busy(h, "release")
  <2>1. Level(h) = unixFile[h].eFileLock
    BY <1>6 DEF Level
  <2> QED  BY <1>1, <1>2, <1>3, <1>4, <1>6, <2>1
<1> QED  BY <1>5, <1>6

LEMMA HeldBySystem ==
    ASSUME IInv, NEW h \in Handles
    PROVE  /\ Level(h) >= SHARED_LOCK => posix[pid[h]]["SHARED_RANGE"] # "F_UNLCK"
           /\ Level(h) = RESERVED_LOCK => posix[pid[h]]["RESERVED_BYTE"] = "F_WRLCK"
           /\ Level(h) >= PENDING_LOCK => posix[pid[h]]["PENDING_BYTE"] = "F_WRLCK"
           /\ Level(h) = EXCLUSIVE_LOCK /\ ~ At(pid[h], "lower")
                => posix[pid[h]]["SHARED_RANGE"] = "F_WRLCK"
           /\ Level(h) > SHARED_LOCK => inode[pid[h]].eFileLock = Level(h)
<1> DEFINE p == pid[h]
<1>1. p \in Procs /\ ProcInv(p) /\ Level(h) \in LockLevels
  BY AtRest, Levels
<1>2. /\ Level(h) >= SHARED_LOCK => Level(h) # NO_LOCK
      /\ Level(h) = RESERVED_LOCK => Level(h) > SHARED_LOCK
      /\ Level(h) >= PENDING_LOCK => Level(h) > SHARED_LOCK
      /\ Level(h) = EXCLUSIVE_LOCK => Level(h) > SHARED_LOCK
  BY <1>1 DEF LockLevels, NO_LOCK, SHARED_LOCK, RESERVED_LOCK, PENDING_LOCK, EXCLUSIVE_LOCK
<1>3. Level(h) >= SHARED_LOCK => posix[p]["SHARED_RANGE"] # "F_UNLCK"
  BY <1>1, <1>2, Levels DEF ProcInv, Granted
<1>4. ASSUME Level(h) > SHARED_LOCK
      PROVE  h \in Writers(p) /\ ~ At(p, "release") /\ unixFile[h].eFileLock = Level(h)
  BY <1>4, Levels
<1> QED  BY <1>1, <1>2, <1>3, <1>4 DEF ProcInv, Granted, Recorded

(* unixLock, posixUnlock, unixClose: every state of the locks is of its type. *)
THEOREM LockTyping == Spec => []TypeOK
<1>1. IInv => TypeOK
  BY DEF IInv
<1> QED  BY <1>1, Invariance, PTL

(* Whatever other connections of its process do, a connection that believes   *)
(* to hold a lock holds it at the operating system (nShared, nLock, pUnused). *)
THEOREM HeldAtTheSystem == Spec => []HeldAtSystem
<1>1. ASSUME IInv, NEW h \in Handles
      PROVE  Level(h) = EXCLUSIVE_LOCK /\ ~ Busy(h, "lower") => ~ At(pid[h], "lower")
  <2>1. Level(h) = EXCLUSIVE_LOCK => h \in Writers(pid[h])
    BY <1>1, Levels, Order
  <2> QED  BY <1>1, <2>1, Levels DEF Busy
<1>2. IInv => HeldAtSystem
  BY <1>1, HeldBySystem DEF HeldAtSystem
<1> QED  BY <1>2, Invariance, PTL

(* The assertions in unixLock and posixUnlock hold, and the way back to       *)
(* SHARED is never barred by another process.                                 *)
THEOREM LockAssertions == Spec => []AssertionsHold
<1>1. ASSUME IInv, NEW h \in Handles, unixFile[h].eFileLock > SHARED_LOCK,
             ~ Busy(h, "release"), ~ Busy(h, "lower")
      PROVE  /\ inode[pid[h]].eFileLock = unixFile[h].eFileLock
             /\ inode[pid[h]].nShared # 0
             /\ Grantable(pid[h], "SHARED_RANGE", "F_RDLCK")
  <2> DEFINE p == pid[h]
  <2>1. /\ p \in Procs /\ TypeOK /\ Compatible /\ h \in Writers(p) /\ ~ At(p, "release")
        /\ ProcInv(p)
    BY <1>1, AtRest, AtLeast, Levels DEF Busy
  <2>2. h \in Holders(p) /\ inode[p].nShared # 0 /\ posix[p]["SHARED_RANGE"] # "F_UNLCK"
    BY <1>1, <2>1, HoldersRead
  <2>3. inode[p].eFileLock = unixFile[h].eFileLock
    BY <2>1 DEF ProcInv, Recorded
  <2>4. \A q \in Procs \ {p} : posix[q]["SHARED_RANGE"] \in {"F_UNLCK", "F_RDLCK"}
    <3>1. \A q \in Procs : posix[q]["SHARED_RANGE"] \in PosixLocks
      <4>1. posix \in [Procs -> [Bytes -> PosixLocks]] /\ "SHARED_RANGE" \in Bytes
        BY <2>1, Names DEF TypeOK
      <4> QED  BY <4>1
    <3> QED  BY <2>1, <2>2, <3>1, Names DEF Compatible
  <2> QED  BY <2>2, <2>3, <2>4 DEF Grantable
<1>2. ASSUME IInv, NEW p \in Procs, At(p, "read range")
      PROVE  inode[p].nShared = 0 /\ inode[p].eFileLock = NO_LOCK
  BY <1>2, HoldersRead DEF IInv, ProcInv, InCall
<1>3. IInv => AssertionsHold
  BY <1>1, <1>2 DEF AssertionsHold
<1> QED  BY <1>3, Invariance, PTL

(* Descriptors whose closing was put off are closed with the process's last   *)
(* lock (closePendingFds).                                                    *)
THEOREM NoDescriptorLeft == Spec => []NoneLeftOpen
<1>1. IInv => NoneLeftOpen
  BY DEF IInv, ProcInv, Counted, NoneLeftOpen
<1> QED  BY <1>1, Invariance, PTL

------------------------------------------------------------------------------
(* The refinement                                                            *)

\* FileLock's level.
lev == [h \in Handles |-> Level(h)]

\* What the connections of other processes hold, seen from process p.
LEMMA SeenFrom ==
    ASSUME IInv, NEW p \in Procs, NEW g \in Handles, pid[g] # p
    PROVE  /\ Level(g) >= PENDING_LOCK => posix[p]["PENDING_BYTE"] = "F_UNLCK"
           /\ Level(g) = EXCLUSIVE_LOCK => posix[p]["SHARED_RANGE"] = "F_UNLCK"
           /\ g \in Reservers => posix[p]["RESERVED_BYTE"] = "F_UNLCK"
<1> DEFINE q == pid[g]
<1>1. q \in Procs /\ q # p /\ Compatible /\ Alone
  BY AtRest DEF IInv
<1>2. Level(g) >= PENDING_LOCK => posix[p]["PENDING_BYTE"] = "F_UNLCK"
  BY <1>1, HeldBySystem, Names DEF Compatible
<1>3. g \in Reservers => posix[p]["RESERVED_BYTE"] = "F_UNLCK"
  BY <1>1, Names DEF Compatible, Reservers
<1>4. ASSUME Level(g) = EXCLUSIVE_LOCK
      PROVE  posix[p]["SHARED_RANGE"] = "F_UNLCK"
  <2>1. CASE At(q, "lower")
    <3>1. inode[q].eFileLock = EXCLUSIVE_LOCK
      BY <1>4, HeldBySystem, Order
    <3> QED  BY <1>1, <2>1, <3>1 DEF Alone
  <2>2. CASE ~ At(q, "lower")
    BY <1>1, <1>4, <2>2, HeldBySystem, Names DEF Compatible
  <2> QED  BY <2>1, <2>2
<1> QED  BY <1>2, <1>3, <1>4

LEMMA ElsewhereSame ==
    ASSUME TypeOK, NEW p \in Procs, Local(p), NEW g \in Handles, pid[g] # p
    PROVE  Level(g)' = Level(g) /\ (g \in Reservers' <=> g \in Reservers)
<1>1. /\ pid[g] \in Procs \ {p} /\ unixFile'[g] = unixFile[g]
      /\ posix'[pid[g]] = posix[pid[g]] /\ call'[pid[g]] = call[pid[g]]
  BY PidAssumption DEF Local, Of
<1>2. Level(g)' = Level(g)
  BY <1>1 DEF Level, Busy, At
<1> QED  BY <1>1, <1>2 DEF Reservers

\* A step that moves no level.
LEMMA LevelsStay ==
    ASSUME IInv, NEW p \in Procs, Local(p),
           \A g \in Of(p) : unixFile'[g].eFileLock = unixFile[g].eFileLock,
           ~ At(p, "release"), ~ At(p, "release")',
           posix'[p]["RESERVED_BYTE"] = posix[p]["RESERVED_BYTE"] \/ Holders(p) = {}
    PROVE  UNCHANGED <<lev, Reservers>>
<1>1. ASSUME NEW g \in Handles
      PROVE  Level(g)' = Level(g) /\ (g \in Reservers' <=> g \in Reservers)
  <2>1. CASE pid[g] # p
    BY <2>1, ElsewhereSame DEF IInv
  <2>2. CASE pid[g] = p
    <3>1. Level(g) = unixFile[g].eFileLock /\ Level(g)' = unixFile'[g].eFileLock
      BY <2>2 DEF Level, Busy
    <3>2. Level(g)' = Level(g)
      BY <2>2, <3>1 DEF Of
    <3>3. Holders(p) = {} => ~ (Level(g) > SHARED_LOCK)
      BY <2>2, Levels, HoldersRead
    <3> QED  BY <2>2, <3>2, <3>3 DEF Reservers
  <2> QED  BY <2>1, <2>2
<1>2. Reservers' = Reservers
  <2>1. Reservers \subseteq Handles /\ Reservers' \subseteq Handles
    BY DEF Reservers
  <2> QED  BY <1>1, <2>1
<1>3. lev' = lev
  BY <1>1 DEF lev
<1> QED  BY <1>2, <1>3

\* A step that moves the level of one connection.
LEMMA LevelMoves ==
    ASSUME IInv, NEW p \in Procs, Local(p), NEW h \in Of(p), NEW l,
           Level(h)' = l, \A g \in Of(p) \ {h} : Level(g)' = Level(g)
    PROVE  lev' = [lev EXCEPT ![h] = l]
<1>1. ASSUME NEW g \in Handles, g # h
      PROVE  Level(g)' = Level(g)
  BY <1>1, ElsewhereSame DEF IInv, Of
<1> QED  BY <1>1 DEF Of, lev

\* The reservations of other processes stay.
LEMMA ReservationMoves ==
    ASSUME IInv, NEW p \in Procs, Local(p), NEW R \in SUBSET Handles,
           \A g \in Of(p) : g \in Reservers' <=> g \in R,
           \A g \in Handles \ Of(p) : g \in R <=> g \in Reservers
    PROVE  Reservers' = R
<1>1. Reservers' \subseteq Handles
  BY DEF Reservers
<1>2. ASSUME NEW g \in Handles
      PROVE  g \in Reservers' <=> g \in R
  BY ElsewhereSame DEF IInv, Of
<1> QED  BY <1>1, <1>2

LEMMA SameConstants ==
    /\ Locks!NO_LOCK = NO_LOCK /\ Locks!SHARED_LOCK = SHARED_LOCK
    /\ Locks!RESERVED_LOCK = RESERVED_LOCK /\ Locks!PENDING_LOCK = PENDING_LOCK
    /\ Locks!EXCLUSIVE_LOCK = EXCLUSIVE_LOCK
BY DEF Locks!NO_LOCK, Locks!SHARED_LOCK, Locks!RESERVED_LOCK, Locks!PENDING_LOCK,
       Locks!EXCLUSIVE_LOCK, NO_LOCK, SHARED_LOCK, RESERVED_LOCK, PENDING_LOCK, EXCLUSIVE_LOCK

LEMMA Shares ==
    ASSUME NEW h \in Handles, Level(h) = NO_LOCK,
           \A g \in Handles \ {h} : Level(g) < EXCLUSIVE_LOCK,
           \A g \in Handles \ {h} : pid[g] = pid[h] => Level(g) < PENDING_LOCK,
           \/ \A g \in Handles \ {h} : Level(g) < PENDING_LOCK
           \/ \E g \in Handles \ {h} : pid[g] = pid[h] /\ Level(g) >= SHARED_LOCK,
           lev' = [lev EXCEPT ![h] = SHARED_LOCK], Reservers' = Reservers
    PROVE  Locks!Share(h)
<1>1. Locks!Sharable(h)
  BY SameConstants DEF Locks!Sharable, Locks!Others, Locks!Fellows
<1> QED  BY <1>1, SameConstants DEF Locks!Share, lev

LEMMA Reserves ==
    ASSUME NEW h \in Handles, Level(h) = SHARED_LOCK, Reservers = {},
           lev' = [lev EXCEPT ![h] = RESERVED_LOCK], Reservers' = {h}
    PROVE  Locks!Reserve(h)
BY SameConstants DEF Locks!Reserve, lev

LEMMA Pends ==
    ASSUME NEW h \in Handles, Level(h) \in {SHARED_LOCK, RESERVED_LOCK},
           \A g \in Handles \ {h} : Level(g) < PENDING_LOCK,
           lev' = [lev EXCEPT ![h] = PENDING_LOCK], Reservers' = Reservers
    PROVE  Locks!Pend(h)
BY SameConstants DEF Locks!Pend, Locks!Others, lev

LEMMA Excludes ==
    ASSUME NEW h \in Handles, Level(h) \in SHARED_LOCK .. PENDING_LOCK,
           \A g \in Handles \ {h} : Level(g) = NO_LOCK,
           lev' = [lev EXCEPT ![h] = EXCLUSIVE_LOCK], Reservers' = Reservers
    PROVE  Locks!Exclude(h)
BY SameConstants DEF Locks!Exclude, Locks!Others, lev

LEMMA Lowers ==
    ASSUME NEW h \in Handles, NEW l, l \in {NO_LOCK, SHARED_LOCK}, l < Level(h),
           lev' = [lev EXCEPT ![h] = l], Reservers' = Reservers \ {h}
    PROVE  \E k \in {Locks!NO_LOCK, Locks!SHARED_LOCK} : Locks!Lower(h, k)
<1>1. Locks!Lower(h, l)
  BY SameConstants DEF Locks!Lower, lev
<1> QED  BY <1>1, SameConstants

LEMMA Drops ==
    ASSUME NEW p \in Procs,
           lev' = [h \in Handles |-> IF h \in Of(p) THEN NO_LOCK ELSE lev[h]],
           Reservers' = Reservers \ Of(p)
    PROVE  \E cs \in SUBSET Handles : Locks!Drop(cs)
<1>1. Locks!Drop(Of(p))
  BY SameConstants DEF Locks!Drop, lev
<1> QED  BY <1>1 DEF Of

LEMMA HandleLocal ==
    ASSUME TypeOK, NEW h \in Handles,
           \/ Open(h) \/ Close(h)
           \/ JoinShared(h) \/ BeginShared(h) \/ LockReserved(h)
           \/ BeginExclusive(h) \/ RetryExclusive(h)
           \/ Downgrade(h) \/ BeginRelease(h) \/ Release(h)
    PROVE  Local(pid[h])
<1> DEFINE p == pid[h]
<1>1. p \in Procs /\ h \in Of(p)
  BY HandleFacts
<1>2. \A q \in Procs \ {p} : call'[q] = call[q]
  BY <1>1 DEF TypeOK, Open, Close, JoinShared, BeginShared, LockReserved, BeginExclusive,
     RetryExclusive, Downgrade, BeginRelease, Release, Enter
<1>3. \A q \in Procs \ {p} : posix'[q] = posix[q]
  BY <1>1, ZenonT(60) DEF TypeOK, Open, Close, JoinShared, BeginShared, LockReserved, BeginExclusive,
     RetryExclusive, Downgrade, BeginRelease, Release, SetLock, ReleaseShared
<1>4. \A q \in Procs \ {p} : inode'[q] = inode[q]
  BY <1>1, ZenonT(60) DEF TypeOK, Open, Close, JoinShared, BeginShared, LockReserved, BeginExclusive,
     RetryExclusive, Downgrade, BeginRelease, Release, ReleaseShared
<1>5. \A g \in Handles \ Of(p) : unixFile'[g] = unixFile[g]
  BY <1>1, ZenonT(60) DEF TypeOK, Open, Close, JoinShared, BeginShared, LockReserved, BeginExclusive,
     RetryExclusive, Downgrade, BeginRelease, Release, ReleaseShared, SetLevel
<1> QED  BY <1>2, <1>3, <1>4, <1>5 DEF Local

LEMMA ProcLocal ==
    ASSUME TypeOK, NEW p \in Procs,
           \/ ReadRange(p) \/ EndShared(p) \/ RangeDenied(p) \/ GiveUpShared(p)
           \/ WriteRange(p) \/ StayPending(p)
           \/ EndDowngrade(p) \/ EndRelease(p)
    PROVE  Local(p)
<1> DEFINE h == call[p].h
<1>1. call[p].at # "idle"
  BY DEF ReadRange, EndShared, RangeDenied, GiveUpShared, WriteRange, StayPending,
     EndDowngrade, EndRelease, At
<1>2. h \in Of(p) /\ pid[h] = p
  <2>1. call[p] # Idle
    BY <1>1 DEF Idle
  <2> QED  BY <2>1, HandleFacts DEF Of
<1>3. \A q \in Procs \ {p} : call'[q] = call[q]
  BY <1>2 DEF TypeOK, ReadRange, EndShared, RangeDenied, GiveUpShared, WriteRange, StayPending,
     EndDowngrade, EndRelease, Enter, Leave
<1>4. \A q \in Procs \ {p} : posix'[q] = posix[q]
  BY <1>2 DEF TypeOK, ReadRange, EndShared, RangeDenied, GiveUpShared, WriteRange, StayPending,
     EndDowngrade, EndRelease, SetLock, ReleaseShared
<1>5. \A q \in Procs \ {p} : inode'[q] = inode[q]
  BY <1>2 DEF TypeOK, ReadRange, EndShared, RangeDenied, GiveUpShared, WriteRange, StayPending,
     EndDowngrade, EndRelease, ReleaseShared
<1>6. \A g \in Handles \ Of(p) : unixFile'[g] = unixFile[g]
  BY <1>2, ZenonT(60) DEF TypeOK, ReadRange, EndShared, RangeDenied, GiveUpShared, WriteRange, StayPending,
     EndDowngrade, EndRelease, SetLevel, ReleaseShared
<1> QED  BY <1>3, <1>4, <1>5, <1>6 DEF Local

LEMMA Entered ==
    ASSUME TypeOK, NEW p \in Procs
    PROVE  /\ \A h \in Handles : pid[h] = p =>
                /\ Enter(h, "read range") => call'[p].at = "read range"
                /\ Enter(h, "drop pending") => call'[p].at = "drop pending"
                /\ Enter(h, "give up") => call'[p].at = "give up"
                /\ Enter(h, "write range") => call'[p].at = "write range"
                /\ Enter(h, "lower") => call'[p].at = "lower"
                /\ Enter(h, "release") => call'[p].at = "release" /\ call'[p].h = h
           /\ Leave(p) => call'[p].at = "idle"
<1>1. call \in [Procs -> {Idle} \cup [at : Points, h : Handles]]
  BY DEF TypeOK
<1>2. Leave(p) => call'[p].at = "idle"
  BY <1>1 DEF Leave, Idle
<1>3. ASSUME NEW h \in Handles, pid[h] = p
      PROVE  /\ Enter(h, "read range") => call'[p].at = "read range"
             /\ Enter(h, "drop pending") => call'[p].at = "drop pending"
             /\ Enter(h, "give up") => call'[p].at = "give up"
             /\ Enter(h, "write range") => call'[p].at = "write range"
             /\ Enter(h, "lower") => call'[p].at = "lower"
             /\ Enter(h, "release") => call'[p].at = "release" /\ call'[p].h = h
  <2>1. ASSUME NEW at, Enter(h, at)
        PROVE  call'[p].at = at /\ call'[p].h = h
    <3>1. call' = [call EXCEPT ![p] = [at |-> at, h |-> h]]
      BY <1>3, <2>1 DEF Enter, Call
    <3>2. call'[p] = [at |-> at, h |-> h]
      BY <1>1, <3>1
    <3> QED  BY <3>2
  <2> QED  BY <2>1
<1> QED  BY <1>2, <1>3

\* Between the calls that move no level.
LEMMA QuietMapped ==
    ASSUME IInv, NEW h \in Handles,
           \/ Open(h) \/ Close(h) \/ BeginShared(h) \/ BeginExclusive(h)
           \/ RetryExclusive(h) \/ Downgrade(h)
    PROVE  UNCHANGED <<lev, Reservers>>
<1> DEFINE p == pid[h]
<1>1. p \in Procs /\ h \in Of(p) /\ TypeOK /\ Local(p)
  BY AtRest, HandleLocal
<1>2. ~ At(p, "release")
  BY AtRest DEF Open, Close, BeginShared, BeginExclusive, RetryExclusive, Downgrade, At
<1>3. \A g \in Of(p) : unixFile'[g].eFileLock = unixFile[g].eFileLock
  <2>1. CASE Open(h) \/ Close(h)
    BY <1>1, <2>1, OpenSet DEF Open, Close, Of
  <2>2. CASE BeginShared(h) \/ BeginExclusive(h) \/ RetryExclusive(h) \/ Downgrade(h)
    BY <2>2 DEF BeginShared, BeginExclusive, RetryExclusive, Downgrade
  <2> QED  BY <2>1, <2>2
<1>4. ~ At(p, "release")'
  <2>1. CASE Open(h) \/ Close(h)
    BY <1>2, <2>1 DEF Open, Close, At
  <2>2. CASE BeginShared(h) \/ BeginExclusive(h) \/ RetryExclusive(h) \/ Downgrade(h)
    <3>1. Enter(h, "read range") \/ Enter(h, "write range") \/ Enter(h, "lower")
      BY <2>2 DEF BeginShared, BeginExclusive, RetryExclusive, Downgrade
    <3> QED  BY <1>1, <3>1, Entered DEF At
  <2> QED  BY <2>1, <2>2
<1>5. posix'[p]["RESERVED_BYTE"] = posix[p]["RESERVED_BYTE"] \/ Holders(p) = {}
  <2>1. posix \in [Procs -> [Bytes -> PosixLocks]]
    BY <1>1 DEF TypeOK
  <2>2. CASE Close(h)
    <3>1. CASE inode[p].nLock > 0
      BY <1>1, <2>1, <2>2, <3>1 DEF Close, AfterClose
    <3>2. CASE ~ (inode[p].nLock > 0)
      BY <1>1, <3>2, HoldersRead, HandleFacts
    <3> QED  BY <3>1, <3>2
  <2>3. CASE Open(h) \/ RetryExclusive(h)
    BY <2>3 DEF Open, RetryExclusive
  <2>4. CASE BeginShared(h) \/ BeginExclusive(h) \/ Downgrade(h)
    <3>1. PICK b \in Bytes \ {"RESERVED_BYTE"}, type \in PosixLocks : SetLock(p, b, type)
      <4>1. CASE BeginShared(h)
        BY <4>1, Names DEF BeginShared
      <4>2. CASE BeginExclusive(h)
        BY <4>2, Names DEF BeginExclusive
      <4>3. CASE Downgrade(h)
        BY <4>3, Names DEF Downgrade
      <4> QED  BY <2>4, <4>1, <4>2, <4>3
    <3>2. posix' = [posix EXCEPT ![p][b] = type]
      BY <3>1 DEF SetLock
    <3> QED  BY <1>1, <2>1, <3>1, <3>2, Names
  <2> QED  BY <2>2, <2>3, <2>4
<1> QED  BY <1>1, <1>2, <1>3, <1>4, <1>5, LevelsStay

LEMMA CallMapped ==
    ASSUME IInv, NEW p \in Procs, ReadRange(p) \/ RangeDenied(p) \/ GiveUpShared(p)
    PROVE  UNCHANGED <<lev, Reservers>>
<1>1. TypeOK /\ Local(p) /\ ProcInv(p)
  BY ProcLocal DEF IInv
<1>2. ~ At(p, "release") /\ (At(p, "read range") \/ At(p, "give up"))
  BY DEF ReadRange, RangeDenied, GiveUpShared, At
<1>3. Holders(p) = {}
  BY <1>1, <1>2 DEF ProcInv, InCall
<1>4. \A g \in Of(p) : unixFile'[g].eFileLock = unixFile[g].eFileLock
  BY DEF ReadRange, RangeDenied, GiveUpShared
<1>5. ~ At(p, "release")'
  <2>1. call[p].h \in Handles /\ pid[call[p].h] = p
    BY <1>2, InTheCall, Names
  <2>2. Enter(call[p].h, "drop pending") \/ Enter(call[p].h, "give up") \/ Leave(p)
    BY DEF ReadRange, RangeDenied, GiveUpShared
  <2> QED  BY <1>1, <2>1, <2>2, Entered DEF At
<1> QED  BY <1>1, <1>2, <1>3, <1>4, <1>5, LevelsStay

LEMMA JoinSharedMapped ==
    ASSUME IInv, IInv', NEW h \in Handles, JoinShared(h)
    PROVE  Locks!Share(h)
<1> DEFINE p == pid[h]
<1>1. /\ p \in Procs /\ h \in Of(p) /\ TypeOK /\ Local(p) /\ call[p].at = "idle"
      /\ unixFile[h].eFileLock = NO_LOCK /\ SetLevel(h, SHARED_LOCK)
      /\ inode[p].eFileLock \in {SHARED_LOCK, RESERVED_LOCK} /\ UNCHANGED <<posix, call>>
  BY AtRest, HandleLocal DEF JoinShared
<1>2. /\ unixFile'[h].eFileLock = SHARED_LOCK
      /\ \A g \in Handles \ {h} : unixFile'[g] = unixFile[g]
  <2>1. SHARED_LOCK \in LockLevels
    BY Order
  <2> QED  BY <1>1, <2>1, LevelSet
<1>3. /\ Level(h) = NO_LOCK /\ Level(h)' = SHARED_LOCK
      /\ \A g \in Of(p) \ {h} : Level(g)' = Level(g)
  BY <1>1, <1>2 DEF Level, Busy, At, Of
<1>4. lev' = [lev EXCEPT ![h] = SHARED_LOCK]
  BY <1>1, <1>3, LevelMoves
<1>5. Reservers' = Reservers
  <2>1. ~ (SHARED_LOCK > SHARED_LOCK) /\ ~ (NO_LOCK > SHARED_LOCK)
    BY DEF SHARED_LOCK, NO_LOCK
  <2>2. \A g \in Of(p) : g \in Reservers' <=> g \in Reservers
    BY <1>1, <1>3, <2>1 DEF Reservers
  <2> QED  BY <1>1, <2>2, ReservationMoves DEF Reservers
<1>6. Holders(p) # {} /\ posix[p]["SHARED_RANGE"] # "F_UNLCK"
  BY <1>1, HoldersRead, Order
<1>7. ASSUME NEW g \in Handles \ {h}
      PROVE  /\ Level(g) < EXCLUSIVE_LOCK
             /\ pid[g] = p => Level(g) < PENDING_LOCK
  <2>1. Level(g) \in LockLevels
    BY Levels
  <2>2. ASSUME pid[g] = p
        PROVE  Level(g) < PENDING_LOCK
    <3>1. Level(g) > SHARED_LOCK => Level(g) = RESERVED_LOCK
      BY <1>1, <2>2, HeldBySystem, Order
    <3> QED  BY <2>1, <3>1 DEF LockLevels, SHARED_LOCK, RESERVED_LOCK, PENDING_LOCK
  <2>3. CASE pid[g] = p
    BY <2>1, <2>2, <2>3 DEF LockLevels, NO_LOCK, PENDING_LOCK, EXCLUSIVE_LOCK
  <2>4. CASE pid[g] # p
    <3>1. Level(g) # EXCLUSIVE_LOCK
      BY <1>1, <1>6, <2>4, SeenFrom
    <3> QED  BY <2>1, <2>4, <3>1 DEF LockLevels, NO_LOCK, EXCLUSIVE_LOCK
  <2> QED  BY <2>3, <2>4
<1>8. \E g \in Handles \ {h} : pid[g] = p /\ Level(g) >= SHARED_LOCK
  <2>1. PICK g \in Holders(p) : TRUE
    BY <1>6
  <2>2. g \in Handles /\ pid[g] = p /\ Level(g) # NO_LOCK /\ Level(g) \in LockLevels
    BY <2>1, Levels DEF Holders, Of
  <2>3. Level(g) >= SHARED_LOCK
    BY <2>2 DEF LockLevels, NO_LOCK, SHARED_LOCK, EXCLUSIVE_LOCK
  <2> QED  BY <1>3, <2>2, <2>3
<1> QED  BY <1>3, <1>4, <1>5, <1>7, <1>8, Shares

\* A connection moves to a level, and its call, if any, is over.
LEMMA LevelSetMoves ==
    ASSUME IInv, NEW p \in Procs, Local(p), NEW h \in Of(p), NEW l, l \in LockLevels,
           SetLevel(h, l), At(p, "release") => call[p].h = h, ~ At(p, "release")'
    PROVE  /\ Level(h)' = l /\ \A g \in Of(p) \ {h} : Level(g)' = Level(g)
           /\ lev' = [lev EXCEPT ![h] = l]
<1>1. /\ unixFile'[h].eFileLock = l
      /\ \A g \in Handles \ {h} : unixFile'[g] = unixFile[g]
  <2>1. TypeOK
    BY DEF IInv
  <2> QED  BY <2>1, LevelSet
<1>2. Level(h)' = l
  BY <1>1 DEF Level, Busy, Of
<1>3. ASSUME NEW g \in Of(p) \ {h}
      PROVE  Level(g)' = Level(g)
  <2>1. g \in Handles /\ pid[g] = p /\ ~ Busy(g, "release") /\ ~ Busy(g, "release")'
    BY DEF Of, Busy
  <2> QED  BY <1>1, <2>1 DEF Level
<1> QED  BY <1>2, <1>3, LevelMoves

\* A step that leaves alone who is above SHARED, or is none of the reserved.
LEMMA ReservationsStay ==
    ASSUME IInv, NEW p \in Procs, Local(p),
           posix'[p]["RESERVED_BYTE"] = posix[p]["RESERVED_BYTE"],
           \/ posix[p]["RESERVED_BYTE"] # "F_WRLCK"
           \/ \A g \in Of(p) : Level(g)' > SHARED_LOCK <=> Level(g) > SHARED_LOCK
    PROVE  Reservers' = Reservers
<1>1. ASSUME NEW g \in Of(p)
      PROVE  g \in Reservers' <=> g \in Reservers
  BY DEF Reservers, Of
<1>2. Reservers \in SUBSET Handles
  BY DEF Reservers
<1> QED  BY <1>1, <1>2, ReservationMoves

\* The levels of connections that are not above SHARED, or hold nothing.
LEMMA LowLevels ==
    ASSUME IInv, NEW p \in Procs, NEW g \in Of(p)
    PROVE  /\ g \notin Holders(p) => Level(g) = NO_LOCK
           /\ g \notin Writers(p) => Level(g) < RESERVED_LOCK /\ Level(g) < PENDING_LOCK
                                     /\ Level(g) < EXCLUSIVE_LOCK
<1>1. g \in Handles /\ pid[g] = p
  BY DEF Of
<1>2. g \notin Writers(p) => ~ (Level(g) > SHARED_LOCK)
  BY <1>1, Levels
<1>3. Level(g) \in LockLevels
  BY <1>1, Levels
<1>4. ~ (Level(g) > SHARED_LOCK) => Level(g) < RESERVED_LOCK /\ Level(g) < PENDING_LOCK
                                    /\ Level(g) < EXCLUSIVE_LOCK
  BY <1>3 DEF LockLevels, NO_LOCK, SHARED_LOCK, RESERVED_LOCK, PENDING_LOCK, EXCLUSIVE_LOCK
<1>5. g \notin Holders(p) => Level(g) = NO_LOCK
  BY <1>1, Levels
<1> QED  BY <1>2, <1>4, <1>5

\* Who has locked the pending byte keeps the others below PENDING.
LEMMA KeptBelow ==
    ASSUME IInv, NEW p \in Procs, posix[p]["PENDING_BYTE"] # "F_UNLCK",
           NEW g \in Handles, pid[g] # p
    PROVE  Level(g) < PENDING_LOCK /\ Level(g) < EXCLUSIVE_LOCK
<1>1. ~ (Level(g) >= PENDING_LOCK) /\ Level(g) \in LockLevels
  BY SeenFrom, Levels
<1> QED  BY <1>1 DEF LockLevels, NO_LOCK, PENDING_LOCK, EXCLUSIVE_LOCK

LEMMA EndSharedMapped ==
    ASSUME IInv, NEW p \in Procs, EndShared(p)
    PROVE  Locks!Share(call[p].h)
<1> DEFINE h == call[p].h
<1>1. /\ TypeOK /\ Compatible /\ Local(p) /\ h \in Of(p) /\ h \in Handles /\ pid[h] = p
      /\ At(p, "drop pending") /\ ~ At(p, "release") /\ Leave(p) /\ SetLevel(h, SHARED_LOCK)
      /\ posix' = [posix EXCEPT ![p] = Unlocked(p, {"PENDING_BYTE"})] /\ ProcInv(p)
  BY InTheCall, Names, ProcLocal DEF EndShared, At
<1>2. ~ At(p, "release")'
  BY <1>1, Entered DEF At
<1>3. Holders(p) = {} /\ posix[p]["PENDING_BYTE"] = "F_RDLCK"
      /\ posix[p]["RESERVED_BYTE"] = "F_UNLCK"
  <2>1. Holders(p) = {} /\ posix[p]["PENDING_BYTE"] = "F_RDLCK"
    BY <1>1 DEF ProcInv, InCall
  <2>2. inode[p].eFileLock <= SHARED_LOCK
    BY <2>1, HoldersRead DEF NO_LOCK, SHARED_LOCK
  <2> QED  BY <1>1, <2>1, <2>2 DEF ProcInv, Granted
<1>4. lev' = [lev EXCEPT ![h] = SHARED_LOCK]
  BY <1>1, <1>2, LevelSetMoves, Order
<1>5. Reservers' = Reservers
  <2>1. posix'[p]["RESERVED_BYTE"] = posix[p]["RESERVED_BYTE"]
    BY <1>1, PendingDropped
  <2> QED  BY <1>1, <1>3, <2>1, ReservationsStay
<1>6. Level(h) = NO_LOCK
  BY <1>1, <1>3, LowLevels
<1>7. ASSUME NEW g \in Handles \ {h}
      PROVE  Level(g) < PENDING_LOCK /\ Level(g) < EXCLUSIVE_LOCK
  <2>1. CASE pid[g] = p
    <3>1. g \in Of(p) /\ g \notin Writers(p)
      BY <1>3, <2>1, HoldersRead DEF Of
    <3> QED  BY <3>1, LowLevels
  <2>2. CASE pid[g] # p
    BY <1>3, <2>2, KeptBelow
  <2> QED  BY <2>1, <2>2
<1> QED  BY <1>1, <1>4, <1>5, <1>6, <1>7, Shares

LEMMA LockReservedMapped ==
    ASSUME IInv, NEW h \in Handles, LockReserved(h)
    PROVE  Locks!Reserve(h)
<1> DEFINE p == pid[h]
<1>1. /\ p \in Procs /\ h \in Of(p) /\ TypeOK /\ Compatible /\ ProcInv(p)
      /\ call[p].at = "idle" /\ call[p] = Idle /\ UNCHANGED call
      /\ unixFile[h].eFileLock = SHARED_LOCK /\ inode[p].eFileLock = SHARED_LOCK
      /\ SetLock(p, "RESERVED_BYTE", "F_WRLCK") /\ SetLevel(h, RESERVED_LOCK)
  BY AtRest DEF LockReserved, Precluded, SHARED_LOCK, RESERVED_LOCK
<1>2. Local(p)
  BY <1>1, HandleLocal
<1>3. ~ At(p, "release") /\ ~ At(p, "release")'
  BY <1>1 DEF At
<1>4. /\ Level(h)' = RESERVED_LOCK /\ \A g \in Of(p) \ {h} : Level(g)' = Level(g)
      /\ lev' = [lev EXCEPT ![h] = RESERVED_LOCK]
  BY <1>1, <1>3, <1>2, LevelSetMoves, Order
<1>5. Level(h) = SHARED_LOCK
  BY <1>1, <1>3, Levels
<1>6. /\ posix'[p]["RESERVED_BYTE"] = "F_WRLCK"
      /\ \A q \in Procs \ {p} : posix[q]["RESERVED_BYTE"] # "F_WRLCK"
  <2>1. "RESERVED_BYTE" \in Bytes /\ "F_WRLCK" \in PosixLocks
    BY Names
  <2>2. SetLock(p, "RESERVED_BYTE", "F_WRLCK") /\ p \in Procs /\ TypeOK /\ Compatible
    BY <1>1
  <2> QED  BY <2>1, <2>2, LockFits
<1>7. \A g \in Of(p) : ~ (Level(g) > SHARED_LOCK)
  <2>1. \A g \in Writers(p) : unixFile[g].eFileLock = SHARED_LOCK
    BY <1>1, <1>3 DEF ProcInv, Recorded
  <2>2. Writers(p) = {}
    BY <2>1 DEF Writers, SHARED_LOCK
  <2> QED  BY <2>2, Levels DEF Of
<1>8. Reservers = {}
  <2>1. ASSUME NEW g \in Reservers PROVE FALSE
    <3>1. g \in Handles /\ Level(g) > SHARED_LOCK /\ posix[pid[g]]["RESERVED_BYTE"] = "F_WRLCK"
      BY DEF Reservers
    <3>2. pid[g] = p
      BY <1>6, <3>1, PidAssumption
    <3> QED  BY <1>7, <3>1, <3>2 DEF Of
  <2> QED  BY <2>1
<1>9. Reservers' = {h}
  <2>1. RESERVED_LOCK > SHARED_LOCK
    BY DEF RESERVED_LOCK, SHARED_LOCK
  <2>2. ASSUME NEW g \in Of(p)
        PROVE  g \in Reservers' <=> g \in {h}
    BY <1>4, <1>6, <1>7, <2>1 DEF Reservers, Of
  <2>3. ASSUME NEW g \in Handles, pid[g] # p
        PROVE  g \notin Reservers'
    BY <1>1, <1>2, <1>8, <2>3, ElsewhereSame
  <2>4. \A g \in Handles : g \in Reservers' <=> g = h
    BY <1>1, <2>2, <2>3 DEF Of
  <2>5. Reservers' \subseteq Handles
    BY DEF Reservers
  <2> QED  BY <2>4, <2>5
<1> QED  BY <1>4, <1>5, <1>8, <1>9, Reserves

\* What an upgrade that has the pending byte finds.
LEMMA UpgradeSeen ==
    ASSUME IInv, NEW p \in Procs, WriteRange(p) \/ StayPending(p)
    PROVE  /\ TypeOK /\ Compatible /\ ProcInv(p) /\ At(p, "write range") /\ Local(p)
           /\ call[p].h \in Handles /\ pid[call[p].h] = p /\ call[p].h \in Of(p)
           /\ ~ At(p, "release") /\ ~ At(p, "release")'
           /\ Level(call[p].h) \in {SHARED_LOCK, RESERVED_LOCK, PENDING_LOCK}
           /\ \A g \in Handles \ {call[p].h} : Level(g) < PENDING_LOCK
           /\ \A g \in Of(p) \ {call[p].h} : ~ (Level(g) > SHARED_LOCK)
           /\ Level(call[p].h) = SHARED_LOCK => posix[p]["RESERVED_BYTE"] # "F_WRLCK"
<1> DEFINE h == call[p].h
<1>1. /\ TypeOK /\ Compatible /\ ProcInv(p) /\ At(p, "write range")
      /\ h \in Handles /\ pid[h] = p /\ h \in Of(p) /\ Leave(p)
  <2>1. At(p, "write range") /\ Leave(p)
    BY DEF WriteRange, StayPending
  <2> QED  BY <2>1, InTheCall, Names
<1>2. Local(p)
  BY <1>1, ProcLocal
<1>3. ~ At(p, "release") /\ ~ At(p, "release")'
  BY <1>1, Entered DEF At
<1>4. /\ h \in Holders(p) /\ unixFile[h].eFileLock # EXCLUSIVE_LOCK
      /\ inode[p].eFileLock = unixFile[h].eFileLock
      /\ posix[p]["PENDING_BYTE"] = "F_WRLCK" /\ Writers(p) \subseteq {h}
  BY <1>1, Upgrading
<1>5. Level(h) = unixFile[h].eFileLock
  BY <1>1, <1>3, Levels
<1>6. Level(h) \in {SHARED_LOCK, RESERVED_LOCK, PENDING_LOCK}
  <2>1. Level(h) \in LockLevels /\ Level(h) # NO_LOCK
    BY <1>1, <1>4, Levels
  <2> QED  BY <1>4, <1>5, <2>1, Order
<1>7. ASSUME NEW g \in Of(p) \ {h}
      PROVE  ~ (Level(g) > SHARED_LOCK)
  BY <1>4, Levels DEF Of
<1>8. ASSUME NEW g \in Handles \ {h}
      PROVE  Level(g) < PENDING_LOCK
  <2>1. CASE pid[g] = p
    <3>1. g \in Of(p) /\ g \notin Writers(p)
      BY <1>4, <2>1 DEF Of
    <3> QED  BY <3>1, LowLevels
  <2>2. CASE pid[g] # p
    BY <1>4, <2>2, KeptBelow
  <2> QED  BY <2>1, <2>2
<1>9. Level(h) = SHARED_LOCK => posix[p]["RESERVED_BYTE"] # "F_WRLCK"
  <2>1. SHARED_LOCK <= SHARED_LOCK
    BY DEF SHARED_LOCK
  <2> QED  BY <1>1, <1>4, <1>5, <2>1 DEF ProcInv, Granted
<1> QED  BY <1>1, <1>2, <1>3, <1>6, <1>7, <1>8, <1>9

\* An upgrade takes or leaves the reservation as it is.
LEMMA UpgradeReservation ==
    ASSUME IInv, NEW p \in Procs, WriteRange(p) \/ StayPending(p),
           NEW h, h = call[p].h,
           NEW l, l \in {PENDING_LOCK, EXCLUSIVE_LOCK}, SetLevel(h, l),
           posix'[p]["RESERVED_BYTE"] = posix[p]["RESERVED_BYTE"]
    PROVE  /\ lev' = [lev EXCEPT ![h] = l]
           /\ Reservers' = Reservers
<1>1. /\ TypeOK /\ Local(p) /\ h \in Of(p) /\ ~ At(p, "release") /\ ~ At(p, "release")'
      /\ Level(h) \in {SHARED_LOCK, RESERVED_LOCK, PENDING_LOCK}
      /\ Level(h) = SHARED_LOCK => posix[p]["RESERVED_BYTE"] # "F_WRLCK"
  BY UpgradeSeen
<1>2. l \in LockLevels /\ l > SHARED_LOCK
  BY DEF LockLevels, NO_LOCK, SHARED_LOCK, PENDING_LOCK, EXCLUSIVE_LOCK
<1>3. /\ Level(h)' = l /\ \A g \in Of(p) \ {h} : Level(g)' = Level(g)
      /\ lev' = [lev EXCEPT ![h] = l]
  <2>1. SetLevel(h, l) /\ l \in LockLevels /\ ~ At(p, "release") /\ ~ At(p, "release")'
    BY <1>1, <1>2
  <2> QED  BY <1>1, <2>1, LevelSetMoves
<1>4. CASE Level(h) = SHARED_LOCK
  BY <1>1, <1>3, <1>4, ReservationsStay
<1>5. CASE Level(h) # SHARED_LOCK
  <2>1. Level(h) > SHARED_LOCK
    BY <1>1, <1>5 DEF SHARED_LOCK, RESERVED_LOCK, PENDING_LOCK
  <2>2. ASSUME NEW g \in Of(p)
        PROVE  Level(g)' > SHARED_LOCK <=> Level(g) > SHARED_LOCK
    <3>1. CASE g = h
      BY <1>2, <1>3, <2>1, <3>1
    <3>2. CASE g # h
      BY <1>3, <3>2
    <3> QED  BY <3>1, <3>2
  <2> QED  BY <1>1, <1>3, <2>2, ReservationsStay
<1> QED  BY <1>4, <1>5

LEMMA WriteRangeMapped ==
    ASSUME IInv, NEW p \in Procs, WriteRange(p)
    PROVE  Locks!Exclude(call[p].h)
<1> DEFINE h == call[p].h
<1>1. /\ TypeOK /\ Compatible /\ ProcInv(p) /\ At(p, "write range") /\ Local(p)
      /\ h \in Handles /\ pid[h] = p /\ h \in Of(p)
      /\ Level(h) \in {SHARED_LOCK, RESERVED_LOCK, PENDING_LOCK}
      /\ SetLock(p, "SHARED_RANGE", "F_WRLCK") /\ SetLevel(h, EXCLUSIVE_LOCK)
      /\ inode[p].nShared <= 1
  BY UpgradeSeen DEF WriteRange
<1>2. /\ posix'[p]["RESERVED_BYTE"] = posix[p]["RESERVED_BYTE"]
      /\ \A q \in Procs \ {p} : posix[q]["SHARED_RANGE"] = "F_UNLCK"
  <2>1. "SHARED_RANGE" \in Bytes /\ "F_WRLCK" \in PosixLocks
    BY Names
  <2>2. SetLock(p, "SHARED_RANGE", "F_WRLCK") /\ p \in Procs /\ TypeOK /\ Compatible
    BY <1>1
  <2>3. /\ \A c \in Bytes \ {"SHARED_RANGE"} : posix'[p][c] = posix[p][c]
        /\ \A q \in Procs \ {p} : posix[q]["SHARED_RANGE"] = "F_UNLCK"
    BY <2>1, <2>2, LockFits
  <2> QED  BY <2>3, Names
<1>3. lev' = [lev EXCEPT ![h] = EXCLUSIVE_LOCK] /\ Reservers' = Reservers
  BY <1>1, <1>2, UpgradeReservation
<1>4. Holders(p) = {h}
  <2>1. h \in Holders(p)
    BY <1>1, Upgrading
  <2>2. IsFiniteSet(Holders(p)) /\ inode[p].nShared = Cardinality(Holders(p))
    BY <1>1 DEF ProcInv, Counted
  <2>3. Cardinality(Holders(p)) \in Nat /\ Cardinality(Holders(p)) # 0
    BY <2>1, <2>2, NoneCounted
  <2>4. Cardinality(Holders(p)) = 1
    <3>1. \A n \in Nat : n # 0 /\ n <= 1 => n = 1
      OBVIOUS
    <3>2. Cardinality(Holders(p)) <= 1
      BY <1>1, <2>2
    <3> QED  BY <2>3, <3>1, <3>2
  <2> QED  BY <2>1, <2>2, <2>4, OneLess
<1>5. ASSUME NEW g \in Handles \ {h}
      PROVE  Level(g) = NO_LOCK
  <2>1. CASE pid[g] = p
    BY <1>4, <2>1, LowLevels DEF Of
  <2>2. CASE pid[g] # p
    <3>1. ~ (Level(g) >= SHARED_LOCK)
      BY <1>2, <2>2, HeldBySystem, PidAssumption
    <3>2. Level(g) \in LockLevels
      BY Levels
    <3> QED  BY <3>1, <3>2 DEF LockLevels, NO_LOCK, SHARED_LOCK, EXCLUSIVE_LOCK
  <2> QED  BY <2>1, <2>2
<1>6. Level(h) \in SHARED_LOCK .. PENDING_LOCK
  <2>1. {SHARED_LOCK, RESERVED_LOCK, PENDING_LOCK} \subseteq SHARED_LOCK .. PENDING_LOCK
    BY DEF SHARED_LOCK, RESERVED_LOCK, PENDING_LOCK
  <2> QED  BY <1>1, <2>1
<1> QED  BY <1>1, <1>3, <1>5, <1>6, Excludes

LEMMA StayPendingMapped ==
    ASSUME IInv, NEW p \in Procs, StayPending(p)
    PROVE  Locks!Pend(call[p].h) \/ UNCHANGED <<lev, Reservers>>
<1> DEFINE h == call[p].h
<1>1. /\ h \in Handles /\ SetLevel(h, PENDING_LOCK) /\ UNCHANGED posix
      /\ Level(h) \in {SHARED_LOCK, RESERVED_LOCK, PENDING_LOCK}
      /\ \A g \in Handles \ {h} : Level(g) < PENDING_LOCK
  BY UpgradeSeen DEF StayPending
<1>2. lev' = [lev EXCEPT ![h] = PENDING_LOCK] /\ Reservers' = Reservers
  BY <1>1, UpgradeReservation
<1>3. CASE Level(h) = PENDING_LOCK
  BY <1>2, <1>3 DEF lev
<1>4. CASE Level(h) # PENDING_LOCK
  BY <1>1, <1>2, <1>4, Pends
<1> QED  BY <1>3, <1>4

\* The connection that held the reservation, if any, gives it up.
LEMMA ReservationGone ==
    ASSUME IInv, NEW p \in Procs, Local(p), NEW h \in Of(p),
           \A g \in Of(p) \ {h} : ~ (Level(g) > SHARED_LOCK),
           \A g \in Of(p) : g \notin Reservers'
    PROVE  Reservers' = Reservers \ {h}
<1>1. ASSUME NEW g \in Handles
      PROVE  g \in Reservers' <=> g \in Reservers /\ g # h
  <2>1. CASE pid[g] = p
    BY <2>1 DEF Of, Reservers
  <2>2. CASE pid[g] # p
    BY <2>2, ElsewhereSame DEF IInv, Of
  <2> QED  BY <2>1, <2>2
<1>2. Reservers \subseteq Handles /\ Reservers' \subseteq Handles
  BY DEF Reservers
<1> QED  BY <1>1, <1>2

LEMMA BytesDropped ==
    ASSUME TypeOK, NEW p \in Procs,
           posix' = [posix EXCEPT ![p] = Unlocked(p, {"PENDING_BYTE", "RESERVED_BYTE"})]
    PROVE  \A g \in Of(p) : g \notin Reservers'
<1>1. posix'[p]["RESERVED_BYTE"] = "F_UNLCK"
  BY DEF TypeOK, Unlocked, Bytes
<1> QED  BY <1>1 DEF Of, Reservers

LEMMA EndDowngradeMapped ==
    ASSUME IInv, NEW p \in Procs, NEW h, h = call[p].h, EndDowngrade(p)
    PROVE  \E k \in {Locks!NO_LOCK, Locks!SHARED_LOCK} : Locks!Lower(h, k)
<1>1. At(p, "lower") /\ Leave(p) /\ SetLevel(h, SHARED_LOCK)
      /\ posix' = [posix EXCEPT ![p] = Unlocked(p, {"PENDING_BYTE", "RESERVED_BYTE"})]
  BY DEF EndDowngrade
<1>2. TypeOK /\ ProcInv(p) /\ h \in Of(p) /\ h \in Handles /\ pid[h] = p /\ Local(p)
  BY <1>1, InTheCall, ProcLocal, Names
<1>3. ~ At(p, "release") /\ ~ At(p, "release")'
  BY <1>1, <1>2, Entered DEF At
<1>4. h \in Writers(p) /\ \A g \in Writers(p) : g = h
  BY <1>1, <1>2 DEF ProcInv, InCall, Recorded
<1>5. SHARED_LOCK < Level(h) /\ \A g \in Of(p) \ {h} : ~ (Level(g) > SHARED_LOCK)
  <2>1. Level(h) > SHARED_LOCK
    BY <1>2, <1>3, <1>4, Levels
  <2>2. \A g \in Of(p) \ {h} : g \in Handles /\ pid[g] = p
    BY DEF Of
  <2>3. Level(h) \in LockLevels
    BY <1>2, Levels
  <2> QED  BY <1>4, <2>1, <2>2, <2>3, Levels, Order DEF SHARED_LOCK
<1>6. lev' = [lev EXCEPT ![h] = SHARED_LOCK]
  BY <1>1, <1>2, <1>3, LevelSetMoves, Order
<1>7. Reservers' = Reservers \ {h}
  BY <1>1, <1>2, <1>5, BytesDropped, ReservationGone
<1> QED  BY <1>2, <1>5, <1>6, <1>7, Lowers

LEMMA BeginReleaseMapped ==
    ASSUME IInv, NEW h \in Handles, BeginRelease(h)
    PROVE  \E k \in {Locks!NO_LOCK, Locks!SHARED_LOCK} : Locks!Lower(h, k)
<1> DEFINE p == pid[h]
<1>1. /\ p \in Procs /\ h \in Of(p) /\ TypeOK /\ ProcInv(p) /\ call[p].at = "idle"
      /\ unixFile[h].eFileLock > SHARED_LOCK /\ UNCHANGED unixFile /\ Enter(h, "release")
      /\ posix' = [posix EXCEPT ![p] = Unlocked(p, {"PENDING_BYTE", "RESERVED_BYTE"})]
  BY AtRest DEF BeginRelease
<1>2. Local(p)
  BY <1>1, HandleLocal
<1>3. ~ At(p, "release") /\ call'[p].at = "release" /\ call'[p].h = h
  BY <1>1, Entered DEF At
<1>4. h \in Writers(p) /\ \A g \in Writers(p) : g = h
  BY <1>1, AtLeast DEF ProcInv, Recorded
<1>5. SHARED_LOCK < Level(h) /\ \A g \in Of(p) \ {h} : ~ (Level(g) > SHARED_LOCK)
  <2>1. Level(h) > SHARED_LOCK
    BY <1>1, <1>3, <1>4, Levels
  <2>2. \A g \in Of(p) \ {h} : g \in Handles /\ pid[g] = p
    BY DEF Of
  <2>3. Level(h) \in LockLevels
    BY Levels
  <2> QED  BY <1>4, <2>1, <2>2, <2>3, Levels, Order DEF SHARED_LOCK
<1>6. lev' = [lev EXCEPT ![h] = SHARED_LOCK]
  <2>1. Level(h)' = SHARED_LOCK
    BY <1>3 DEF Level, Busy, At
  <2>2. \A g \in Of(p) \ {h} : Level(g)' = Level(g)
    BY <1>1, <1>3 DEF Level, Busy, At, Of
  <2> QED  BY <1>1, <1>2, <2>1, <2>2, LevelMoves
<1>7. Reservers' = Reservers \ {h}
  BY <1>1, <1>2, <1>5, BytesDropped, ReservationGone
<1> QED  BY <1>5, <1>6, <1>7, Lowers

LEMMA ReleaseSharedMapped ==
    ASSUME IInv, NEW p \in Procs, Local(p), NEW h \in Holders(p), ReleaseShared(h), Leave(p),
           Level(h) = SHARED_LOCK, At(p, "release") => call[p].h = h
    PROVE  \E k \in {Locks!NO_LOCK, Locks!SHARED_LOCK} : Locks!Lower(h, k)
<1>1. TypeOK /\ ProcInv(p) /\ h \in Of(p) /\ h \in Handles /\ pid[h] = p
  BY DEF IInv, Holders, Of
<1>2. ~ At(p, "release")'
  BY <1>1, Entered DEF At
<1>3. SetLevel(h, NO_LOCK) /\ NO_LOCK \in LockLevels /\ NO_LOCK < Level(h)
      /\ ~ (SHARED_LOCK > SHARED_LOCK) /\ ~ (NO_LOCK > SHARED_LOCK)
  BY DEF ReleaseShared, LockLevels, NO_LOCK, SHARED_LOCK, EXCLUSIVE_LOCK
<1>4. /\ Level(h)' = NO_LOCK /\ \A g \in Of(p) \ {h} : Level(g)' = Level(g)
      /\ lev' = [lev EXCEPT ![h] = NO_LOCK]
  BY <1>1, <1>2, <1>3, LevelSetMoves
<1>5. posix'[p]["RESERVED_BYTE"] = posix[p]["RESERVED_BYTE"] \/ Holders(p) = {h}
  <2>1. inode[p].nLock = inode[p].nShared
    BY HoldersRead
  <2>2. posix' = [posix EXCEPT ![p] = AfterClose(p, inode[p].nShared = 1)]
    BY <1>1, <2>1 DEF ReleaseShared
  <2>3. CASE inode[p].nShared = 1
    <3>1. IsFiniteSet(Holders(p)) /\ Cardinality(Holders(p)) = 1
      BY <1>1, <2>3 DEF ProcInv, Counted
    <3> QED  BY <3>1, OneLess
  <2>4. CASE inode[p].nShared # 1
    BY <1>1, <2>2, <2>4 DEF AfterClose, TypeOK
  <2> QED  BY <2>3, <2>4
<1>6. ASSUME NEW g \in Of(p)
      PROVE  g \in Reservers' <=> g \in Reservers \ {h}
  <2>1. CASE g = h
    BY <1>3, <1>4, <2>1 DEF Reservers
  <2>2. CASE g # h /\ Holders(p) = {h}
    <3>1. Level(g) = NO_LOCK
      BY <2>2, LowLevels
    <3> QED  BY <1>3, <1>4, <2>2, <3>1 DEF Reservers
  <2>3. CASE g # h /\ posix'[p]["RESERVED_BYTE"] = posix[p]["RESERVED_BYTE"]
    BY <1>4, <2>3 DEF Reservers, Of
  <2> QED  BY <1>5, <2>1, <2>2, <2>3
<1>7. Reservers' = Reservers \ {h}
  <2>1. ASSUME NEW g \in Handles, pid[g] # p
        PROVE  g \in Reservers' <=> g \in Reservers
    BY <1>1, <2>1, ElsewhereSame
  <2>2. \A g \in Handles : g \in Reservers' <=> g \in Reservers \ {h}
    BY <1>1, <1>6, <2>1 DEF Of
  <2>3. Reservers \subseteq Handles /\ Reservers' \subseteq Handles
    BY DEF Reservers
  <2> QED  BY <2>2, <2>3
<1> QED  BY <1>1, <1>3, <1>4, <1>7, Lowers

LEMMA ReleaseMapped ==
    ASSUME IInv, NEW h \in Handles, Release(h)
    PROVE  \E k \in {Locks!NO_LOCK, Locks!SHARED_LOCK} : Locks!Lower(h, k)
<1> DEFINE p == pid[h]
<1>1. /\ p \in Procs /\ TypeOK /\ call[p] = Idle /\ call[p].at = "idle"
      /\ unixFile[h].eFileLock = SHARED_LOCK /\ UNCHANGED call /\ ReleaseShared(h)
  BY AtRest DEF Release
<1>2. Local(p)
  BY <1>1, HandleLocal
<1>3. h \in Holders(p)
  BY <1>1, AtLeast, Order
<1>4. Level(h) = SHARED_LOCK /\ ~ At(p, "release")
  BY <1>1, Levels DEF At
<1>5. Leave(p)
  BY <1>1 DEF Leave, TypeOK
<1> QED  BY <1>1, <1>2, <1>3, <1>4, <1>5, ReleaseSharedMapped

LEMMA EndReleaseMapped ==
    ASSUME IInv, NEW p \in Procs, NEW h, h = call[p].h, EndRelease(p)
    PROVE  \E k \in {Locks!NO_LOCK, Locks!SHARED_LOCK} : Locks!Lower(h, k)
<1>1. At(p, "release") /\ Leave(p) /\ ReleaseShared(h)
  BY DEF EndRelease
<1>2. h \in Writers(p) /\ h \in Holders(p) /\ TypeOK
  BY <1>1, HoldersRead DEF IInv, ProcInv, InCall
<1>3. Local(p)
  BY <1>2, ProcLocal
<1>4. Level(h) = SHARED_LOCK
  <2>1. h \in Handles /\ pid[h] = p
    BY <1>2 DEF Writers, Of
  <2> QED  BY <1>1, <1>2, <2>1, Levels
<1> QED  BY <1>1, <1>2, <1>3, <1>4, ReleaseSharedMapped

LEMMA KillMapped ==
    ASSUME IInv, NEW p \in Procs, Kill(p)
    PROVE  \E cs \in SUBSET Handles : Locks!Drop(cs)
<1>1. TypeOK
  BY DEF IInv
<1>2. /\ \A h \in Of(p) : unixFile'[h].eFileLock = NO_LOCK
      /\ \A h \in Handles \ Of(p) : unixFile'[h] = unixFile[h]
  BY <1>1 DEF Kill, Of
<1>3. call'[p].at = "idle"
  BY <1>1, Entered DEF Kill
<1>4. Local(p)
  <2>1. \A q \in Procs \ {p} : inode'[q] = inode[q] /\ posix'[q] = posix[q]
    BY <1>1 DEF Kill, TypeOK
  <2>2. \A q \in Procs \ {p} : call'[q] = call[q]
    BY <1>1 DEF Kill, Leave, TypeOK
  <2> QED  BY <1>2, <2>1, <2>2 DEF Local
<1>5. \A h \in Of(p) : Level(h)' = NO_LOCK
  BY <1>2, <1>3 DEF Level, Busy, At, Of
<1>6. ASSUME NEW h \in Handles, h \notin Of(p)
      PROVE  Level(h)' = Level(h) /\ (h \in Reservers' <=> h \in Reservers)
  BY <1>1, <1>4, <1>6, ElsewhereSame DEF Of
<1>7. lev' = [h \in Handles |-> IF h \in Of(p) THEN NO_LOCK ELSE lev[h]]
  BY <1>5, <1>6 DEF lev
<1>8. Reservers' = Reservers \ Of(p)
  <2>1. ~ (NO_LOCK > SHARED_LOCK)
    BY DEF NO_LOCK, SHARED_LOCK
  <2>2. \A h \in Of(p) : h \notin Reservers'
    BY <1>5, <2>1 DEF Reservers
  <2>3. Reservers \subseteq Handles /\ Reservers' \subseteq Handles
    BY DEF Reservers
  <2> QED  BY <1>6, <2>2, <2>3
<1> QED  BY <1>7, <1>8, Drops

LEMMA InitMapped == Init => Locks!LockInit
<1> SUFFICES ASSUME Init PROVE Locks!LockInit
  OBVIOUS
<1>1. ASSUME NEW h \in Handles
      PROVE  Level(h) = NO_LOCK
  <2>1. call[pid[h]].at = "idle"
    BY PidAssumption DEF Init, Idle
  <2> QED  BY <2>1 DEF Init, Level, Busy, At
<1>2. Reservers = {}
  BY <1>1 DEF Reservers, NO_LOCK, SHARED_LOCK
<1>3. [h \in Handles |-> Level(h)] = [h \in Handles |-> Locks!NO_LOCK]
  BY <1>1, SameConstants
<1> QED  BY <1>2, <1>3 DEF Locks!LockInit

LEMMA StepMapped ==
    ASSUME IInv, IInv', [Next]_vars
    PROVE  [Locks!LockNext]_(Locks!lockVars)
<1>1. ASSUME NEW h \in Handles,
             \/ Open(h) \/ Close(h) \/ BeginShared(h) \/ BeginExclusive(h)
             \/ RetryExclusive(h) \/ Downgrade(h)
      PROVE  UNCHANGED Locks!lockVars
  BY <1>1, QuietMapped DEF Locks!lockVars, lev
<1>2. ASSUME NEW h \in Handles,
             JoinShared(h) \/ LockReserved(h) \/ BeginRelease(h) \/ Release(h)
      PROVE  Locks!LockNext
  BY <1>2, JoinSharedMapped, LockReservedMapped, BeginReleaseMapped, ReleaseMapped
     DEF Locks!LockNext
<1>3. ASSUME NEW p \in Procs, ReadRange(p) \/ RangeDenied(p) \/ GiveUpShared(p)
      PROVE  UNCHANGED Locks!lockVars
  BY <1>3, CallMapped DEF Locks!lockVars, lev
<1>4. ASSUME NEW p \in Procs,
             EndShared(p) \/ WriteRange(p) \/ StayPending(p) \/ EndDowngrade(p) \/ EndRelease(p)
      PROVE  Locks!LockNext \/ UNCHANGED Locks!lockVars
  <2>1. PICK at \in Points : At(p, at)
    BY <1>4, Names DEF EndShared, WriteRange, StayPending, EndDowngrade, EndRelease, Points
  <2>2. call[p].h \in Handles
    BY <2>1, InTheCall
  <2>3. CASE EndShared(p)
    BY <2>2, <2>3, EndSharedMapped DEF Locks!LockNext
  <2>4. CASE WriteRange(p)
    BY <2>2, <2>4, WriteRangeMapped DEF Locks!LockNext
  <2>5. CASE StayPending(p)
    BY <2>2, <2>5, StayPendingMapped DEF Locks!LockNext, Locks!lockVars, lev
  <2>6. CASE EndDowngrade(p)
    BY <2>2, <2>6, EndDowngradeMapped DEF Locks!LockNext
  <2>7. CASE EndRelease(p)
    BY <2>2, <2>7, EndReleaseMapped DEF Locks!LockNext
  <2> QED  BY <1>4, <2>3, <2>4, <2>5, <2>6, <2>7
<1>5. ASSUME NEW p \in Procs, Kill(p)
      PROVE  Locks!LockNext
  BY <1>5, KillMapped DEF Locks!LockNext
<1>6. CASE UNCHANGED vars
  BY <1>6 DEF vars, Locks!lockVars, Level, Busy, At, Reservers
<1> QED  BY <1>1, <1>2, <1>3, <1>4, <1>5, <1>6 DEF Next

(* The locks of the operating system, which belong to processes and bytes,    *)
(* and the counts of unixInodeInfo implement locks that belong to connections *)
(* and are reached in one step (unixLock, posixUnlock, unixClose).            *)
THEOREM ConnectionsLock == Spec => ImplementsFileLock
<1>1. Init => Locks!LockInit
  BY InitMapped
<1>2. IInv /\ IInv' /\ [Next]_vars => [Locks!LockNext]_(Locks!lockVars)
  BY StepMapped
<1> QED  BY <1>1, <1>2, Invariance, PTL DEF Spec, ImplementsFileLock, Locks!LockSpec
==============================================================================
