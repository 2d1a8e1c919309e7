------------------------ MODULE RollbackJournalProofs ------------------------
(***************************************************************************)
(* Proofs about the rollback journal: for any number of processes and      *)
(* connections, any number of pages and any order of steps, deaths,        *)
(* failures and losses of power, transactions on the file are atomic, as   *)
(* long as no connection takes a hot journal for that of a live writer.    *)
(* It never does if each process has one connection, or if nothing fails.  *)
(*                                                                         *)
(* The invariant says what the file and the journal are worth together     *)
(* (Committed), which changes at one place only; what of that a connection *)
(* may rely on at the place where it stands; and what the durable parts    *)
(* are worth at the same time, so that no mixture of them and the current  *)
(* ones is worth something else.                                           *)
(***************************************************************************)
EXTENDS RollbackJournal, FiniteSetTheorems, SequenceTheorems, TLAPS

------------------------------------------------------------------------------
(* The invariant                                                             *)

Journals == {NoFile} \cup [hdr : {"zero", "valid"}, size : 0 .. MaxPage,
                           recs : Seq([pgno : Pages, data : Contents])]

Caches == UNION {[D -> Contents] : D \in SUBSET Pages}

Looking == {"exists", "reserved", "size", "remnant", "delete", "first",
            "hot", "give_up", "reopen", "validate"}
Playing == {"playback", "restore", "restored"}
Changing == Unwritten \cup Written
Points == {"open", "reader", "locked", "error"} \cup Looking \cup Playing \cup Changing

TypeInv ==
    /\ cur \in [Pages -> Contents] /\ disk \in [Pages -> Contents]
    /\ jcur \in Journals /\ jdisk \in Journals /\ linked \in BOOLEAN
    /\ at \in [Conns -> Points]
    /\ cache \in [Conns -> Caches]
    /\ dirty \in [Conns -> SUBSET Pages]
    /\ \A c \in Conns : dirty[c] \subseteq DOMAIN cache[c]
    /\ dbFileVers \in [Conns -> Counters]
    /\ todo \in [Conns -> Nat]
    /\ faults \subseteq {"io", "power"}
    /\ level \in [Conns -> LockLevels] /\ reserver \subseteq Conns

\* The place of a connection says which lock it holds.
SharedAt == {"exists", "reserved", "size", "remnant", "first", "hot", "validate", "reader"}
ReservedAt == {"delete", "locked", "cachemod"}
ExclusiveAt == {"reopen", "sync_records", "header", "sync_header"} \cup Playing \cup Written

HeldAt(c) ==
    /\ level[c] = NO_LOCK <=> at[c] = "open"
    /\ at[c] \in SharedAt => level[c] = SHARED_LOCK
    /\ at[c] \in ReservedAt => level[c] = RESERVED_LOCK
    /\ at[c] = "counted" => level[c] \in {RESERVED_LOCK, PENDING_LOCK}
    /\ at[c] = "give_up" => level[c] = PENDING_LOCK
    /\ at[c] \in ExclusiveAt => level[c] = EXCLUSIVE_LOCK
    /\ at[c] = "error" /\ c \notin reserver => level[c] \in {SHARED_LOCK, EXCLUSIVE_LOCK}
    /\ at[c] \in {"delete", "locked"} \cup Changing => c \in reserver
    /\ c \in reserver => /\ at[c] \in {"delete", "locked", "error"} \cup Changing \cup Playing
                         /\ level[c] >= RESERVED_LOCK

LockInv ==
    /\ \A c \in Conns : HeldAt(c)
    /\ \A c, d \in reserver : c = d
    /\ \A c, d \in Conns : level[c] = EXCLUSIVE_LOCK /\ c # d => level[d] = NO_LOCK

\* A page has one record at most.
WellFormed(j) ==
    j # NoFile => \A i, k \in DOMAIN j.recs :
        /\ j.recs[i].pgno <= j.size
        /\ j.recs[i].pgno = j.recs[k].pgno => i = k

\* There is nothing to restore.
Cold == ~ Valid(jcur) \/ (jcur.size = 0 /\ cur[1] = Absent)

\* A content is empty or begins with page 1.
Rooted(f) == f[1] = Absent => f = [p \in Pages |-> Absent]

FileInv ==
    /\ WellFormed(jcur) /\ WellFormed(jdisk)
    /\ Rooted(cur) /\ Rooted(Committed) /\ Committed[1] \in Counters \cup {Absent}
    /\ Valid(jcur) /\ jcur.size > 0 => cur[1] # Absent /\ Committed[1] # Absent
    /\ faults # {} => cur[1] # Absent /\ Committed[1] # Absent
    /\ \A c \in reserver : level[c] < EXCLUSIVE_LOCK => Cold

\* What a connection in memory agrees with.
Agrees(c, f) == \A p \in DOMAIN cache[c] : cache[c][p] = f[p]

\* Between transactions: the content with the counter it read last, if any.
Kept(c) ==
    /\ dirty[c] = {}
    /\ \/ DOMAIN cache[c] = {}
       \/ dbFileVers[c] < Version(Committed)
       \/ dbFileVers[c] = Version(Committed) /\ Agrees(c, Committed)
    /\ faults = {} /\ Committed[1] = Absent => dbFileVers[c] = 0

Current(c) ==
    /\ dirty[c] = {} /\ 1 \in DOMAIN cache[c]
    /\ dbFileVers[c] = Version(Committed) /\ Agrees(c, Committed)

\* Pages to be written differ from the file, and those it had are in the journal.
Covered(c) ==
    /\ 1 \in DOMAIN cache[c] /\ cache[c][1] \in Counters
    /\ \A p \in DOMAIN cache[c] :
        IF p \in dirty[c]
        THEN /\ cache[c][p] \in Counters \cup Values
             /\ p <= jcur.size => Saved(jcur, p)
        ELSE cache[c][p] = cur[p]

\* The file is as it was, and so are the records.
Untouched(c) ==
    /\ jcur.size = NPages(cur) /\ dbFileVers[c] = Version(cur)
    /\ \A i \in DOMAIN jcur.recs : jcur.recs[i].data = cur[jcur.recs[i].pgno]

\* The commit has begun.
Numbered(c) ==
    /\ cache[c][1] = Version(Committed) + 1
    /\ jcur.size > 0 => Saved(jcur, 1)
    /\ 1 \notin dirty[c] => at[c] \in Written /\ dbFileVers[c] = cache[c][1]

Replayed(c) ==
    /\ todo[c] > 0
    /\ Valid(jcur) =>
        /\ \A p \in Pages : p > jcur.size => cur[p] = Absent
        /\ \A i \in DOMAIN jcur.recs : i < todo[c] => cur[jcur.recs[i].pgno] = jcur.recs[i].data

\* What connection c may rely on at its place.
ConnInv(c) ==
    /\ at[c] \in {"open"} \cup Looking => Kept(c)
    /\ at[c] \in {"remnant", "delete"} => cur[1] = Absent
    /\ at[c] \in {"validate", "reader", "locked"} => Cold
    /\ at[c] \in {"reader", "locked"} => Current(c)
    /\ at[c] \in {"locked", "cachemod"} => dbFileVers[c] < MaxCounter
    /\ at[c] \in Changing =>
        /\ jcur.hdr = IF at[c] \in {"sync_header"} \cup Written THEN "valid" ELSE "zero"
        /\ Covered(c)
    /\ at[c] \in Unwritten => Untouched(c)
    /\ at[c] \in Changing \ {"cachemod"} => Numbered(c)
    /\ at[c] = "finished" => dirty[c] = {}
    /\ at[c] \in Playing => IF c \in reserver THEN Current(c) /\ Valid(jcur)
                            ELSE DOMAIN cache[c] = {} /\ Kept(c)
    /\ at[c] \in Playing /\ c \in reserver => "io" \in faults
    /\ at[c] = "error" => "io" \in faults
    /\ at[c] = "restore" => Replayed(c)
    /\ at[c] = "restored" => cur = Committed

\* What a loss of power may leave.
Settled == Recovered(disk, jdisk)

DiskInv ==
    /\ disk[1] # Absent /\ Settled[1] \in Counters
    /\ ~ Valid(jcur) => cur = disk
    /\ Valid(jcur) => linked /\ jdisk = [jcur EXCEPT !.hdr = jdisk.hdr]
    /\ linked => jcur # NoFile /\ jdisk # NoFile
    /\ linked /\ Valid(jdisk) => jcur = jdisk
    /\ Valid(jdisk) => \A p \in Pages :
        p <= jdisk.size /\ ~ Saved(jdisk, p) => cur[p] = disk[p]
    /\ ~ Valid(jdisk) => cur = disk

DurableAt(c) ==
    /\ at[c] \in {"finished", "restored"} => cur = disk
    /\ at[c] = "header" => linked /\ jdisk = jcur
    /\ at[c] \in Written \cup Playing /\ Valid(jcur) => jdisk = jcur
    /\ at[c] = "sync_header" => ~ Valid(jdisk)

DurableInv == DiskInv /\ \A c \in Conns : DurableAt(c)

IInv ==
    /\ TypeInv /\ LockInv /\ FileInv
    /\ \A c \in Conns : ConnInv(c)
    /\ "power" \in faults => DurableInv
------------------------------------------------------------------------------
(* Pages, journals and caches                                                *)

\* A set of numbers up to n has a greatest one: else adding 1 would map the
\* numbers below one of them to fewer.
LEMMA Greatest ==
    ASSUME NEW n \in Nat, NEW S \in SUBSET (0 .. n), S # {}
    PROVE  \E x \in S : \A y \in S : x >= y
<1> SUFFICES ASSUME \A x \in S : \E y \in S : y > x
             PROVE  FALSE
  <2>1. ASSUME NEW x \in S, NEW y \in S
        PROVE  x >= y <=> ~ (y > x)
    OBVIOUS
  <2> QED  BY <2>1
<1> DEFINE below == {x \in 0 .. n : \E y \in S : y >= x}
           f == [x \in below |-> x + 1]
<1>1. 0 \in below
  <2>1. PICK y \in S : y \in 0 .. n
    OBVIOUS
  <2>2. y >= 0 /\ 0 \in 0 .. n
    BY <2>1
  <2> QED  BY <2>2
<1>2. f \in [below -> below \ {0}]
  <2> SUFFICES ASSUME NEW x \in below
               PROVE  x + 1 \in below \ {0}
    OBVIOUS
  <2>1. PICK y \in S : y >= x
    OBVIOUS
  <2>2. PICK z \in S : z > y
    OBVIOUS
  <2>3. z >= x + 1
    BY <2>1, <2>2
  <2> QED  BY <2>3
<1>3. IsFiniteSet(below)
  <2>1. IsFiniteSet(0 .. n)
    BY FS_Interval
  <2> QED  BY <2>1, FS_Subset
<1>4. /\ IsFiniteSet(below \ {0})
      /\ Cardinality(below \ {0}) = Cardinality(below) - 1
      /\ Cardinality(below) \in Nat
  BY <1>1, <1>3, FS_RemoveElement, FS_CardinalityType
<1>5. \E x, y \in below : x # y /\ f[x] = f[y]
  <2> HIDE DEF f, below
  <2> QED  BY <1>2, <1>3, <1>4, FS_PigeonHole
<1> QED  BY <1>5

LEMMA PageCount ==
    ASSUME NEW f \in [Pages -> Contents]
    PROVE  /\ NPages(f) \in 0 .. MaxPage
           /\ \A p \in Pages : p > NPages(f) => f[p] = Absent
           /\ NPages(f) > 0 => f[NPages(f)] # Absent
<1> DEFINE S == {0} \cup {p \in Pages : f[p] # Absent}
<1>1. MaxPage \in Nat /\ S \in SUBSET (0 .. MaxPage) /\ S # {}
  BY BoundsAssumption DEF Pages
<1>2. \E x \in S : \A y \in S : x >= y
  <2> HIDE DEF S
  <2> QED  BY <1>1, Greatest
<1>3. NPages(f) \in S /\ \A y \in S : NPages(f) >= y
  <2> HIDE DEF S
  <2>1. Max(S) \in S /\ \A y \in S : Max(S) >= y
    BY <1>2 DEF Max
  <2> QED  BY <2>1 DEF S, NPages
<1> HIDE DEF S
<1>4. NPages(f) \in 0 .. MaxPage
  BY <1>1, <1>3
<1>5. ASSUME NEW p \in Pages, p > NPages(f), f[p] # Absent
      PROVE  FALSE
  <2>1. p \in S
    BY <1>5 DEF S
  <2> QED  BY <1>3, <1>4, <1>5, <2>1 DEF Pages
<1> QED  BY <1>3, <1>4, <1>5 DEF S

LEMMA FirstPageCounts ==
    ASSUME NEW f \in [Pages -> Contents], Rooted(f)
    PROVE  /\ NPages(f) = 0 <=> f[1] = Absent
           /\ 1 \in Pages
<1>1. 1 \in Pages
  BY BoundsAssumption DEF Pages
<1>2. CASE f[1] = Absent
  <2>1. \A p \in Pages : f[p] = Absent
    BY <1>2 DEF Rooted
  <2>2. NPages(f) \in Pages => f[NPages(f)] = Absent
    BY <2>1
  <2>3. NPages(f) \in Pages \/ NPages(f) = 0
    BY PageCount, BoundsAssumption DEF Pages
  <2>4. NPages(f) > 0 => f[NPages(f)] # Absent
    BY PageCount
  <2>5. NPages(f) \in Pages => NPages(f) > 0
    BY BoundsAssumption DEF Pages
  <2> QED  BY <1>1, <1>2, <2>2, <2>3, <2>4, <2>5
<1>3. CASE f[1] # Absent
  BY <1>1, <1>3, PageCount
<1> QED  BY <1>1, <1>2, <1>3

LEMMA LeastPage ==
    ASSUME NEW S \in SUBSET Pages, S # {}
    PROVE  Min(S) \in S /\ \A p \in S : Min(S) <= p
<1> DEFINE T == {MaxPage - p : p \in S}
<1>1. MaxPage \in Nat /\ T \in SUBSET (0 .. MaxPage) /\ T # {}
  <2>1. MaxPage \in Nat
    BY BoundsAssumption
  <2>2. ASSUME NEW p \in S
        PROVE  MaxPage - p \in 0 .. MaxPage
    BY <2>1 DEF Pages
  <2> QED  BY <2>1, <2>2
<1>2. PICK x \in T : \A y \in T : x >= y
  <2> HIDE DEF T
  <2> QED  BY <1>1, Greatest
<1>3. PICK p \in S : x = MaxPage - p
  OBVIOUS
<1>4. ASSUME NEW q \in S
      PROVE  p <= q
  <2>1. MaxPage - p >= MaxPage - q
    BY <1>2, <1>3
  <2> QED  BY <1>1, <2>1 DEF Pages
<1> QED  BY <1>4 DEF Min

LEMMA CacheType ==
    ASSUME NEW x
    PROVE  x \in Caches <=> x \in [DOMAIN x -> Contents] /\ DOMAIN x \subseteq Pages
  BY DEF Caches

LEMMA JournalFields ==
    ASSUME NEW j \in Journals
    PROVE  /\ j = NoFile <=> j.hdr = "none"
           /\ Valid(j) => j # NoFile
           /\ j # NoFile => /\ j \in [hdr : {"zero", "valid"}, size : 0 .. MaxPage,
                                      recs : Seq([pgno : Pages, data : Contents])]
                            /\ j.hdr \in {"zero", "valid"} /\ j.size \in 0 .. MaxPage
                            /\ j.recs \in Seq([pgno : Pages, data : Contents])
                            /\ \A i \in DOMAIN j.recs : /\ j.recs[i].pgno \in Pages
                                                        /\ j.recs[i].data \in Contents
<1>1. CASE j = NoFile
  BY <1>1 DEF NoFile, Valid
<1>2. CASE j # NoFile
  <2>1. j \in [hdr : {"zero", "valid"}, size : 0 .. MaxPage,
               recs : Seq([pgno : Pages, data : Contents])]
    BY <1>2 DEF Journals
  <2>2. j.hdr \in {"zero", "valid"} /\ j.size \in 0 .. MaxPage
        /\ j.recs \in Seq([pgno : Pages, data : Contents])
    BY <2>1
  <2>3. ASSUME NEW i \in DOMAIN j.recs
        PROVE  j.recs[i] \in [pgno : Pages, data : Contents]
    BY <2>2, ElementOfSeq, LenProperties
  <2> QED  BY <1>2, <2>1, <2>2, <2>3
<1> QED  BY <1>1, <1>2

\* The content saved for a page is that of its record.
LEMMA SavedIsRecord ==
    ASSUME NEW j \in Journals, j # NoFile, WellFormed(j), NEW i \in DOMAIN j.recs
    PROVE  Saved(j, j.recs[i].pgno) /\ Original(j, j.recs[i].pgno) = j.recs[i].data
<1> DEFINE R == {j.recs[k] : k \in DOMAIN j.recs}
           r == CHOOSE r \in R : r.pgno = j.recs[i].pgno
<1>1. \E x \in R : x.pgno = j.recs[i].pgno
  OBVIOUS
<1>2. r \in R /\ r.pgno = j.recs[i].pgno
  <2> HIDE DEF R
  <2> QED  BY <1>1
<1>3. r = j.recs[i]
  <2> HIDE DEF r
  <2> QED  BY <1>2 DEF WellFormed
<1> QED  BY <1>3 DEF Saved, Original

LEMMA RecordOfSaved ==
    ASSUME NEW j \in Journals, j # NoFile, WellFormed(j), NEW p, Saved(j, p)
    PROVE  \E i \in DOMAIN j.recs : j.recs[i].pgno = p /\ Original(j, p) = j.recs[i].data
  BY SavedIsRecord DEF Saved

LEMMA RecoveredType ==
    ASSUME NEW f \in [Pages -> Contents], NEW j \in Journals, WellFormed(j)
    PROVE  Recovered(f, j) \in [Pages -> Contents]
<1>1. CASE ~ Valid(j)
  BY <1>1 DEF Recovered
<1>2. CASE Valid(j)
  <2>1. j # NoFile
    BY <1>2, JournalFields
  <2>2. ASSUME NEW p \in Pages
        PROVE  (IF p > j.size THEN Absent
                ELSE IF Saved(j, p) THEN Original(j, p) ELSE f[p]) \in Contents
    <3>1. Saved(j, p) => Original(j, p) \in Contents
      BY <2>1, RecordOfSaved, JournalFields
    <3> QED  BY <3>1 DEF Contents
  <2> QED  BY <1>2, <2>2 DEF Recovered
<1> QED  BY <1>1, <1>2

\* What page p of a valid journal is worth.
LEMMA RecoveredPage ==
    ASSUME NEW f, NEW j, NEW p \in Pages, Valid(j)
    PROVE  Recovered(f, j)[p] = IF p > j.size THEN Absent
                                ELSE IF Saved(j, p) THEN Original(j, p)
                                ELSE f[p]
  BY DEF Recovered

\* Of the file, only the pages count that it had and that are not saved.
LEMMA SameRecovered ==
    ASSUME NEW f, NEW g, NEW j, Valid(j),
           \A p \in Pages : ~ (p > j.size) /\ ~ Saved(j, p) => f[p] = g[p]
    PROVE  Recovered(f, j) = Recovered(g, j)
  BY DEF Recovered

\* The header alone does not change what the records are worth.
LEMMA SameRecords ==
    ASSUME NEW j, NEW k, j.recs = k.recs
    PROVE  \A p : (Saved(j, p) <=> Saved(k, p)) /\ Original(j, p) = Original(k, p)
  BY DEF Saved, Original

------------------------------------------------------------------------------
(* Consequences of the invariant                                             *)

LEMMA Facts ==
    ASSUME IInv
    PROVE  /\ Committed \in [Pages -> Contents] /\ cur \in [Pages -> Contents]
           /\ jcur \in Journals /\ WellFormed(jcur)
           /\ 1 \in Pages /\ MaxPage \in Nat /\ MaxCounter \in Nat
           /\ Version(Committed) \in Counters
           /\ ~ Valid(jcur) => Committed = cur
           /\ Cold => Committed = cur
<1>1. /\ cur \in [Pages -> Contents] /\ jcur \in Journals /\ WellFormed(jcur)
      /\ Rooted(cur) /\ Committed[1] \in Counters \cup {Absent}
  BY DEF IInv, TypeInv, FileInv
<1>2. 1 \in Pages /\ MaxPage \in Nat /\ MaxCounter \in Nat
  BY BoundsAssumption DEF Pages
<1>3. Committed \in [Pages -> Contents]
  BY <1>1, RecoveredType DEF Committed
<1>4. Version(Committed) \in Counters
  BY <1>1, <1>2 DEF Version, Counters
<1>5. ~ Valid(jcur) => Committed = cur
  BY DEF Committed, Recovered
<1>6. ASSUME Valid(jcur), jcur.size = 0, cur[1] = Absent
      PROVE  Committed = cur
  <2>1. cur = [p \in Pages |-> Absent]
    BY <1>1, <1>6 DEF Rooted
  <2>2. Committed = [p \in Pages |-> Absent]
    BY <1>6 DEF Committed, Recovered, Pages
  <2> QED  BY <2>1, <2>2
<1> QED  BY <1>1, <1>2, <1>3, <1>4, <1>5, <1>6 DEF Cold

LEMMA ConnFacts ==
    ASSUME IInv, NEW c \in Conns
    PROVE  /\ HeldAt(c) /\ ConnInv(c) /\ at[c] \in Points
           /\ cache[c] \in [DOMAIN cache[c] -> Contents] /\ DOMAIN cache[c] \subseteq Pages
           /\ dirty[c] \subseteq DOMAIN cache[c]
           /\ dbFileVers[c] \in Counters /\ todo[c] \in Nat /\ level[c] \in LockLevels
           /\ level[c] = EXCLUSIVE_LOCK => \A d \in Conns \ {c} : level[d] = NO_LOCK /\ at[d] = "open"
<1>1. TypeInv /\ LockInv /\ HeldAt(c) /\ ConnInv(c)
  BY DEF IInv, LockInv
<1>2. cache[c] \in [DOMAIN cache[c] -> Contents] /\ DOMAIN cache[c] \subseteq Pages
  BY <1>1, CacheType DEF TypeInv
<1> QED  BY <1>1, <1>2 DEF TypeInv, LockInv, HeldAt

------------------------------------------------------------------------------
(* What a step of one connection leaves alone                                *)

\* Steps that move the connection on and change its lock at most.
Passing(c) ==
    \/ GetShared(c) \/ FindJournal(c) \/ CheckReserved(c) \/ CheckSize(c)
    \/ ReserveRemnant(c) \/ LeaveRemnant(c) \/ ReadFirstByte(c)
    \/ LockHot(c) \/ HotPending(c) \/ HotBusy(c) \/ HotGone(c)
    \/ EndRead(c) \/ BeginWrite(c) \/ EndUnwritten(c)
    \/ LockForCommit(c) \/ CommitBusy(c) \/ UnlinkFails(c) \/ RollbackFails(c)

\* Steps that change what the connection has in memory.
Caching(c) ==
    \/ ValidateCache(c) \/ (\E p \in Pages : ReadPage(c, p))
    \/ RollbackFile(c) \/ ClearError(c)

\* Steps that change the file or the journal.
Writing(c) ==
    \/ DeleteRemnant(c) \/ SyncHotJournal(c) \/ Truncate(c) \/ RestorePage(c)
    \/ SyncRestored(c) \/ EndPlayback(c) \/ CreateDatabase(c)
    \/ (\E p \in Pages, v \in Values : WritePage(c, p, v))
    \/ IncrChangeCounter(c) \/ SyncRecords(c) \/ WriteHeader(c) \/ SyncHeader(c)
    \/ StorePage(c) \/ SyncFile(c) \/ Finish(c) \/ RollbackMemory(c)

LEMMA NextIs ==
    Next <=> \/ \E c \in Conns : Passing(c) \/ Caching(c) \/ Writing(c)
             \/ \E p \in {pid[c] : c \in Conns} : Kill(p)
             \/ PowerLoss
  BY DEF Next, Passing, Caching, Writing

\* Other connections stay where they are, with the locks and the pages they have.
Moved(c) ==
    /\ \A d \in Conns \ {c} :
        /\ at'[d] = at[d] /\ level'[d] = level[d] /\ (d \in reserver' <=> d \in reserver)
        /\ cache'[d] = cache[d] /\ dirty'[d] = dirty[d]
        /\ dbFileVers'[d] = dbFileVers[d] /\ todo'[d] = todo[d]
    /\ faults' = faults
    /\ at' \in [Conns -> Points] /\ todo' \in [Conns -> Nat]
    /\ level' \in [Conns -> LockLevels] /\ reserver' \subseteq Conns

LEMMA LockMoves ==
    ASSUME TypeInv, NEW c \in Conns,
           \/ Share(c) \/ Reserve(c) \/ Pend(c) \/ Exclude(c)
           \/ Lower(c, NO_LOCK) \/ Lower(c, SHARED_LOCK) \/ UNCHANGED lockVars
    PROVE  /\ level' \in [Conns -> LockLevels] /\ reserver' \subseteq Conns
           /\ \A d \in Conns \ {c} : level'[d] = level[d] /\ (d \in reserver' <=> d \in reserver)
<1> USE DEF TypeInv, LockLevels, NO_LOCK, SHARED_LOCK, RESERVED_LOCK, PENDING_LOCK, EXCLUSIVE_LOCK
<1>1. CASE Share(c)
  BY <1>1 DEF Share
<1>2. CASE Reserve(c)
  BY <1>2 DEF Reserve
<1>3. CASE Pend(c)
  BY <1>3 DEF Pend
<1>4. CASE Exclude(c)
  BY <1>4 DEF Exclude
<1>5. CASE Lower(c, NO_LOCK) \/ Lower(c, SHARED_LOCK)
  BY <1>5 DEF Lower
<1>6. CASE UNCHANGED lockVars
  BY <1>6 DEF lockVars
<1> QED  BY <1>1, <1>2, <1>3, <1>4, <1>5, <1>6

LEMMA PassingMoves ==
    ASSUME TypeInv, NEW c \in Conns, Passing(c)
    PROVE  /\ Moved(c) /\ UNCHANGED <<files, locals, faults>>
           /\ \/ Share(c) \/ Reserve(c) \/ Pend(c) \/ Exclude(c)
              \/ Lower(c, NO_LOCK) \/ Lower(c, SHARED_LOCK) \/ UNCHANGED lockVars
<1>1. \E t \in Points : at' = [at EXCEPT ![c] = t]
  <2> USE DEF Points, Looking, Playing, Changing, Unwritten, Written, Go
  <2>1. CASE GetShared(c) \/ FindJournal(c) \/ CheckReserved(c) \/ CheckSize(c)
    BY <2>1 DEF GetShared, FindJournal, CheckReserved, CheckSize
  <2>2. CASE ReserveRemnant(c) \/ LeaveRemnant(c) \/ ReadFirstByte(c)
    BY <2>2 DEF ReserveRemnant, LeaveRemnant, ReadFirstByte
  <2>3. CASE LockHot(c) \/ HotPending(c) \/ HotBusy(c) \/ HotGone(c)
    BY <2>3 DEF LockHot, HotPending, HotBusy, HotGone
  <2>4. CASE EndRead(c) \/ BeginWrite(c) \/ EndUnwritten(c) \/ LockForCommit(c)
    BY <2>4 DEF EndRead, BeginWrite, EndUnwritten, LockForCommit
  <2>5. CASE UnlinkFails(c) \/ RollbackFails(c)
    BY <2>5 DEF UnlinkFails, RollbackFails
  <2>6. CASE CommitBusy(c)
    <3>1. at' = [at EXCEPT ![c] = at[c]] /\ at[c] \in Points
      BY <2>6 DEF CommitBusy, TypeInv
    <3> QED  BY <3>1
  <2> QED  BY <2>1, <2>2, <2>3, <2>4, <2>5, <2>6 DEF Passing
<1>2. UNCHANGED <<files, locals, faults>>
  BY DEF Passing, GetShared, FindJournal, CheckReserved, CheckSize, ReserveRemnant, LeaveRemnant,
     ReadFirstByte, LockHot, HotPending, HotBusy, HotGone, EndRead, BeginWrite, EndUnwritten,
     LockForCommit, CommitBusy, UnlinkFails, RollbackFails, KeepFiles
<1>3. \/ Share(c) \/ Reserve(c) \/ Pend(c) \/ Exclude(c)
      \/ Lower(c, NO_LOCK) \/ Lower(c, SHARED_LOCK) \/ UNCHANGED lockVars
  BY DEF Passing, GetShared, FindJournal, CheckReserved, CheckSize, ReserveRemnant, LeaveRemnant,
     ReadFirstByte, LockHot, HotPending, HotBusy, HotGone, EndRead, BeginWrite, EndUnwritten,
     LockForCommit, CommitBusy, UnlinkFails, RollbackFails
<1> QED  BY <1>1, <1>2, <1>3, LockMoves DEF Moved, TypeInv, locals

LEMMA CachingMoves ==
    ASSUME TypeInv, NEW c \in Conns, Caching(c)
    PROVE  /\ Moved(c) /\ UNCHANGED <<files, faults>>
           /\ Lower(c, NO_LOCK) \/ UNCHANGED lockVars
<1>1. CASE ValidateCache(c)
  <2>1. /\ at' = [at EXCEPT ![c] = "reader"]
        /\ \A d \in Conns \ {c} : cache'[d] = cache[d] /\ dbFileVers'[d] = dbFileVers[d]
    BY <1>1 DEF ValidateCache, Go, SetCache, TypeInv
  <2> QED  BY <1>1, <2>1, LockMoves
           DEF ValidateCache, KeepFiles, Moved, TypeInv, Points
<1>2. ASSUME NEW p \in Pages, ReadPage(c, p)
      PROVE  Moved(c) /\ UNCHANGED <<files, faults, lockVars>>
  BY <1>2, LockMoves DEF ReadPage, SetCache, KeepFiles, Moved, TypeInv
<1>3. CASE RollbackFile(c)
  <2>1. /\ at' = [at EXCEPT ![c] = "playback"]
        /\ \A d \in Conns \ {c} : /\ cache'[d] = cache[d] /\ dbFileVers'[d] = dbFileVers[d]
                                  /\ dirty'[d] = dirty[d]
    BY <1>3 DEF RollbackFile, RestoreCache, SetCache, TypeInv
  <2> QED  BY <1>3, <2>1, LockMoves
           DEF RollbackFile, RestoreCache, KeepFiles, Moved, TypeInv, Points, Playing
<1>4. CASE ClearError(c)
  <2>1. at' = [at EXCEPT ![c] = "open"]
    BY <1>4 DEF ClearError, Go
  <2>2. \A d \in Conns \ {c} : cache'[d] = cache[d] /\ todo'[d] = todo[d] /\ dirty'[d] = dirty[d]
    BY <1>4 DEF ClearError, SetCache, TypeInv
  <2> QED  BY <1>4, <2>1, <2>2, LockMoves
           DEF ClearError, KeepFiles, Moved, TypeInv, Points
<1> QED  BY <1>1, <1>2, <1>3, <1>4 DEF Caching

LEMMA WritingMoves ==
    ASSUME TypeInv, NEW c \in Conns, Writing(c)
    PROVE  /\ Moved(c)
           /\ Lower(c, SHARED_LOCK) \/ UNCHANGED lockVars
<1>1. \E t \in Points : at' = [at EXCEPT ![c] = t]
  <2> USE DEF Points, Looking, Playing, Changing, Unwritten, Written, Go
  <2>1. CASE DeleteRemnant(c) \/ SyncHotJournal(c) \/ Truncate(c) \/ SyncRestored(c) \/ EndPlayback(c)
    BY <2>1 DEF DeleteRemnant, SyncHotJournal, Truncate, SyncRestored, EndPlayback
  <2>2. CASE RestorePage(c) \/ StorePage(c)
    <3>1. at' = [at EXCEPT ![c] = at[c]] /\ at[c] \in Points
      BY <2>2 DEF RestorePage, StorePage, TypeInv
    <3> QED  BY <3>1
  <2>3. CASE CreateDatabase(c) \/ IncrChangeCounter(c)
    BY <2>3 DEF CreateDatabase, IncrChangeCounter
  <2>4. ASSUME NEW p \in Pages, NEW v \in Values, WritePage(c, p, v)
        PROVE  \E t \in Points : at' = [at EXCEPT ![c] = t]
    <3>1. \/ at' = [at EXCEPT ![c] = "cachemod"]
          \/ at' = [at EXCEPT ![c] = at[c]] /\ at[c] \in Points
      BY <2>4 DEF WritePage, TypeInv
    <3> QED  BY <3>1
  <2>5. CASE SyncRecords(c) \/ WriteHeader(c) \/ SyncHeader(c) \/ SyncFile(c) \/ Finish(c)
    BY <2>5 DEF SyncRecords, WriteHeader, SyncHeader, SyncFile, Finish
  <2>6. CASE RollbackMemory(c)
    BY <2>6 DEF RollbackMemory
  <2> QED  BY <2>1, <2>2, <2>3, <2>4, <2>5, <2>6 DEF Writing
<1>2. Lower(c, SHARED_LOCK) \/ UNCHANGED lockVars
  BY DEF Writing, DeleteRemnant, SyncHotJournal, Truncate, RestorePage, SyncRestored, EndPlayback,
     CreateDatabase, WritePage, IncrChangeCounter, Put, SyncRecords, WriteHeader, SyncHeader,
     StorePage, SyncFile, Finish, RollbackMemory
<1>3. UNCHANGED faults /\ todo' \in [Conns -> Nat]
  <2>1. CASE Truncate(c) \/ SyncRestored(c) \/ RestorePage(c)
    BY <2>1 DEF Truncate, SyncRestored, RestorePage, TypeInv
  <2>2. CASE ~ (Truncate(c) \/ SyncRestored(c) \/ RestorePage(c))
    BY <2>2 DEF TypeInv, Writing, DeleteRemnant, SyncHotJournal, EndPlayback,
       CreateDatabase, WritePage, IncrChangeCounter, Put, SyncRecords, WriteHeader, SyncHeader,
       StorePage, SyncFile, Finish, RollbackMemory, RestoreCache, locals
  <2> QED  BY <2>1, <2>2
<1>4. \A d \in Conns \ {c} : /\ cache'[d] = cache[d] /\ dirty'[d] = dirty[d]
                             /\ dbFileVers'[d] = dbFileVers[d] /\ todo'[d] = todo[d]
  <2>1. CASE Truncate(c) \/ SyncRestored(c) \/ RestorePage(c) \/ StorePage(c) \/ RollbackMemory(c)
    BY <2>1 DEF Truncate, SyncRestored, RestorePage, StorePage, RollbackMemory, RestoreCache,
       SetCache, TypeInv
  <2>2. CASE DeleteRemnant(c) \/ SyncHotJournal(c) \/ EndPlayback(c) \/ SyncRecords(c)
             \/ WriteHeader(c) \/ SyncHeader(c) \/ SyncFile(c) \/ Finish(c)
    BY <2>2 DEF DeleteRemnant, SyncHotJournal, EndPlayback, SyncRecords, WriteHeader, SyncHeader,
       SyncFile, Finish, SetCache, TypeInv, locals
  <2>3. ASSUME NEW p \in Pages, NEW v, Put(c, p, v)
        PROVE  \A d \in Conns \ {c} : /\ cache'[d] = cache[d] /\ dirty'[d] = dirty[d]
                                      /\ dbFileVers'[d] = dbFileVers[d] /\ todo'[d] = todo[d]
    BY <2>3 DEF Put, SetCache, TypeInv
  <2>4. 1 \in Pages
    BY BoundsAssumption DEF Pages
  <2> QED  BY <2>1, <2>2, <2>3, <2>4 DEF Writing, CreateDatabase, WritePage, IncrChangeCounter
<1>5. at' \in [Conns -> Points] /\ \A d \in Conns \ {c} : at'[d] = at[d]
  BY <1>1 DEF TypeInv
<1>6. /\ level' \in [Conns -> LockLevels] /\ reserver' \subseteq Conns
      /\ \A d \in Conns \ {c} : level'[d] = level[d] /\ (d \in reserver' <=> d \in reserver)
  BY <1>2, LockMoves
<1> QED  BY <1>2, <1>3, <1>4, <1>5, <1>6 DEF Moved

------------------------------------------------------------------------------
(* Places and locks                                                          *)

LEMMA Exclusion ==
    ASSUME TypeInv, LockInv, NEW c \in Conns, Moved(c),
           \/ Share(c) \/ Reserve(c) \/ Pend(c) \/ Exclude(c)
           \/ Lower(c, NO_LOCK) \/ Lower(c, SHARED_LOCK) \/ UNCHANGED lockVars,
           HeldAt(c)'
    PROVE  LockInv'
<1> USE DEF TypeInv, LockLevels, NO_LOCK, SHARED_LOCK, RESERVED_LOCK, PENDING_LOCK, EXCLUSIVE_LOCK
<1>1. ASSUME NEW d \in Conns
      PROVE  HeldAt(d)'
  <2>1. CASE d = c
    BY <2>1
  <2>2. CASE d # c
    <3>1. HeldAt(d) /\ at'[d] = at[d] /\ level'[d] = level[d] /\ (d \in reserver' <=> d \in reserver)
      BY <2>2 DEF LockInv, Moved
    <3> QED  BY <3>1 DEF HeldAt
  <2> QED  BY <2>1, <2>2
<1>2. \A d, e \in reserver' : d = e
  BY DEF LockInv, Share, Reserve, Pend, Exclude, Lower, lockVars
<1>3. ASSUME NEW d \in Conns, NEW e \in Conns, level'[d] = EXCLUSIVE_LOCK, d # e
      PROVE  level'[e] = NO_LOCK
  <2>1. \A x, y \in Conns : level[x] = EXCLUSIVE_LOCK /\ x # y => level[y] = NO_LOCK
    BY DEF LockInv
  <2>2. CASE Share(c)
    BY <1>3, <2>1, <2>2 DEF Share, Sharable, Others, Moved
  <2>3. CASE Exclude(c)
    BY <1>3, <2>1, <2>3 DEF Exclude, Others, Moved
  <2>4. CASE Reserve(c) \/ Pend(c)
    BY <1>3, <2>1, <2>4 DEF Reserve, Pend, Moved
  <2>5. CASE Lower(c, NO_LOCK) \/ Lower(c, SHARED_LOCK)
    BY <1>3, <2>1, <2>5 DEF Lower, Moved
  <2>6. CASE UNCHANGED lockVars
    BY <1>3, <2>1, <2>6 DEF lockVars
  <2> QED  BY <2>2, <2>3, <2>4, <2>5, <2>6
<1> QED  BY <1>1, <1>2, <1>3 DEF LockInv

LEMMA LockStep ==
    ASSUME IInv, NEW c \in Conns, Passing(c) \/ Caching(c) \/ Writing(c)
    PROVE  LockInv' /\ HeldAt(c)'
<1>1. TypeInv /\ LockInv /\ HeldAt(c)
  BY DEF IInv, LockInv
<1>2. HeldAt(c)'
  <2> USE <1>1 DEF TypeInv, HeldAt, SharedAt, ReservedAt, ExclusiveAt, Playing, Changing, Unwritten,
          Written, LockLevels, NO_LOCK, SHARED_LOCK, RESERVED_LOCK, PENDING_LOCK, EXCLUSIVE_LOCK,
          Go, lockVars
  <2>1. CASE Passing(c)
    <3>1. CASE GetShared(c) \/ FindJournal(c) \/ CheckReserved(c) \/ CheckSize(c) \/ EndRead(c)
      BY <3>1 DEF GetShared, FindJournal, CheckReserved, CheckSize, EndRead, Share, Sharable, Lower
    <3>2. CASE ReserveRemnant(c) \/ LeaveRemnant(c) \/ ReadFirstByte(c) \/ BeginWrite(c)
      BY <3>2 DEF ReserveRemnant, LeaveRemnant, ReadFirstByte, BeginWrite, Reserve
    <3>3. CASE LockHot(c) \/ HotPending(c) \/ HotBusy(c) \/ HotGone(c)
      BY <3>3 DEF LockHot, HotPending, HotBusy, HotGone, Exclude, Pend, Lower
    <3>4. CASE EndUnwritten(c) \/ LockForCommit(c) \/ CommitBusy(c)
      BY <3>4 DEF EndUnwritten, LockForCommit, CommitBusy, Exclude, Pend, Lower
    <3>5. CASE UnlinkFails(c) \/ RollbackFails(c)
      BY <3>5 DEF UnlinkFails, RollbackFails, Lower
    <3> QED  BY <2>1, <3>1, <3>2, <3>3, <3>4, <3>5 DEF Passing
  <2>2. CASE Caching(c)
    <3>1. \/ /\ level' = level /\ reserver' = reserver
             /\ \/ at[c] = "validate" /\ at'[c] = "reader"
                \/ at[c] \in Written /\ at'[c] = "playback"
                \/ at'[c] = at[c]
          \/ at'[c] = "open" /\ Lower(c, NO_LOCK)
      BY <2>2 DEF Caching, ValidateCache, ReadPage, RollbackFile, ClearError
    <3> QED  BY <3>1 DEF Lower
  <2>3. CASE DeleteRemnant(c) \/ SyncHotJournal(c) \/ Truncate(c) \/ RestorePage(c)
             \/ SyncRestored(c) \/ EndPlayback(c)
    BY <2>3 DEF DeleteRemnant, SyncHotJournal, Truncate, RestorePage, SyncRestored, EndPlayback,
       Lower
  <2>4. CASE \/ CreateDatabase(c) \/ IncrChangeCounter(c)
             \/ \E p \in Pages, v \in Values : WritePage(c, p, v)
    <3>1. /\ level' = level /\ reserver' = reserver
          /\ \/ at[c] \in {"locked", "cachemod"} /\ at'[c] = "cachemod"
             \/ at[c] = "cachemod" /\ at'[c] = "counted"
             \/ at'[c] = at[c]
      BY <2>4 DEF CreateDatabase, IncrChangeCounter, WritePage, Put
    <3> QED  BY <3>1
  <2>5. CASE SyncRecords(c) \/ WriteHeader(c) \/ SyncHeader(c) \/ StorePage(c) \/ SyncFile(c)
             \/ Finish(c) \/ RollbackMemory(c)
    BY <2>5 DEF SyncRecords, WriteHeader, SyncHeader, StorePage, SyncFile, Finish,
       RollbackMemory, Lower
  <2> QED  BY <2>1, <2>2, <2>3, <2>4, <2>5 DEF Writing
<1> QED  BY <1>1, <1>2, PassingMoves, CachingMoves, WritingMoves, Exclusion

------------------------------------------------------------------------------
(* What a step of connection c leaves to the others                          *)

LEMMA FilesSame ==
    ASSUME cur' = cur, jcur' = jcur
    PROVE  Committed' = Committed /\ (Cold' <=> Cold)
  BY DEF Committed, Cold

\* The file and the journal stay.
LEMMA AsBefore ==
    ASSUME IInv, NEW d \in Conns, cur' = cur, jcur' = jcur,
           at'[d] = at[d], d \in reserver' <=> d \in reserver, faults' = faults,
           cache'[d] = cache[d], dirty'[d] = dirty[d],
           dbFileVers'[d] = dbFileVers[d], todo'[d] = todo[d]
    PROVE  ConnInv(d)'
<1>1. Committed' = Committed /\ (Cold' <=> Cold)
  BY FilesSame
<1>2. (Kept(d)' <=> Kept(d)) /\ (Current(d)' <=> Current(d))
  BY <1>1 DEF Kept, Current, Agrees
<1>3. (Covered(d)' <=> Covered(d)) /\ (Untouched(d)' <=> Untouched(d))
  BY DEF Covered, Untouched
<1>4. (Numbered(d)' <=> Numbered(d)) /\ (Replayed(d)' <=> Replayed(d))
  BY <1>1 DEF Numbered, Replayed
<1>5. ConnInv(d)
  BY DEF IInv
<1> QED  BY <1>1, <1>2, <1>3, <1>4, <1>5 DEF ConnInv

LEMMA OthersAsBefore ==
    ASSUME IInv, NEW c \in Conns, Moved(c), cur' = cur, jcur' = jcur,
           NEW d \in Conns, d # c
    PROVE  ConnInv(d)'
  BY AsBefore DEF Moved

\* The journal of the connection with the reservation, or alone, comes or goes.
LEMMA OthersKeepReading ==
    ASSUME IInv, NEW c \in Conns, Moved(c), cur' = cur, Committed' = Committed, Cold',
           c \in reserver \/ level[c] = EXCLUSIVE_LOCK,
           NEW d \in Conns, d # c
    PROVE  ConnInv(d)'
<1>1. /\ at'[d] = at[d] /\ (d \in reserver' <=> d \in reserver) /\ faults' = faults
      /\ cache'[d] = cache[d] /\ dirty'[d] = dirty[d]
      /\ dbFileVers'[d] = dbFileVers[d] /\ todo'[d] = todo[d]
  BY DEF Moved
<1>2. (Kept(d)' <=> Kept(d)) /\ (Current(d)' <=> Current(d))
  BY <1>1 DEF Kept, Current, Agrees
<1>3. ConnInv(d) /\ HeldAt(d) /\ HeldAt(c) /\ at[d] \in Points
  BY ConnFacts
<1>4. at[d] \notin Changing \cup Playing
  <2>1. CASE level[c] = EXCLUSIVE_LOCK
    BY <2>1, ConnFacts DEF Changing, Playing, Unwritten, Written
  <2>2. CASE c \in reserver
    <3>1. d \notin reserver
      BY <2>2 DEF IInv, LockInv
    <3>2. level[d] = EXCLUSIVE_LOCK => level[c] = NO_LOCK
      BY DEF IInv, LockInv
    <3> QED  BY <1>3, <2>2, <3>1, <3>2
             DEF HeldAt, ExclusiveAt, NO_LOCK, RESERVED_LOCK, EXCLUSIVE_LOCK
  <2> QED  BY <2>1, <2>2
<1> QED  BY <1>1, <1>2, <1>3, <1>4 DEF ConnInv, Points, Looking, Changing, Playing, Unwritten

\* The connection is alone: of the others only caches are left.
LEMMA OthersOutside ==
    ASSUME IInv, NEW c \in Conns, Moved(c), level[c] = EXCLUSIVE_LOCK,
           \/ Committed' = Committed
           \/ Version(Committed') > Version(Committed) /\ Version(Committed') \in Counters
              /\ Committed'[1] # Absent,
           NEW d \in Conns, d # c
    PROVE  ConnInv(d)'
<1>1. /\ at'[d] = at[d] /\ faults' = faults
      /\ cache'[d] = cache[d] /\ dirty'[d] = dirty[d] /\ dbFileVers'[d] = dbFileVers[d]
  BY DEF Moved
<1>2. ConnInv(d) /\ at[d] = "open" /\ dbFileVers[d] \in Counters
  BY ConnFacts
<1>3. Kept(d) /\ Version(Committed) \in Counters
  BY <1>2, Facts DEF ConnInv
<1>4. Kept(d)'
  <2>1. CASE Committed' = Committed
    BY <1>1, <1>3, <2>1 DEF Kept, Agrees
  <2>2. CASE Committed' # Committed
    BY <1>1, <1>2, <1>3, <2>2, BoundsAssumption DEF Kept, Counters
  <2> QED  BY <2>1, <2>2
<1> QED  BY <1>1, <1>2, <1>4 DEF ConnInv, Looking, Changing, Unwritten, Written, Playing

------------------------------------------------------------------------------
(* Steps that move a connection on                                           *)

\* What a connection knows of the content, it also knows between transactions.
LEMMA CurrentIsKept ==
    ASSUME NEW c \in Conns, Current(c)
    PROVE  Kept(c)
  BY DEF Current, Kept, Version

\* An empty file has nothing to restore.
LEMMA EmptyIsCold ==
    ASSUME FileInv, jcur \in Journals, cur[1] = Absent
    PROVE  Cold
  BY JournalFields DEF FileInv, Cold

\* Who sees the reservation of another process sees a file that is whole.
LEMMA ReservedIsCold ==
    ASSUME IInv, NoneIgnored, NEW c \in Conns, at[c] = "reserved", ReservedLock(c)
    PROVE  Cold
<1>1. HeldAt(c) /\ at[c] \in Points /\ \A d \in reserver : d \in Conns
  BY DEF IInv, LockInv, TypeInv
<1>2. level[c] = SHARED_LOCK
  BY <1>1 DEF HeldAt, SharedAt
<1>3. ASSUME NEW d \in Conns, c # d
      PROVE  level[d] # EXCLUSIVE_LOCK /\ level[d] \in LockLevels /\ HeldAt(d) /\ at[d] \in Points
  BY <1>2, <1>3, ConnFacts DEF IInv, LockInv, TypeInv, NO_LOCK, SHARED_LOCK
<1>4. CASE reserver # {}
  <2>1. PICK d \in reserver : d \in Conns
    BY <1>1, <1>4
  <2>2. c # d
    BY <1>1, <1>2, <2>1 DEF HeldAt, SHARED_LOCK, RESERVED_LOCK
  <2> QED  BY <1>3, <2>1, <2>2 DEF IInv, FileInv, LockLevels, NO_LOCK, EXCLUSIVE_LOCK
<1>5. CASE reserver = {}
  <2>1. PICK d \in Fellows(c) : level[d] > SHARED_LOCK
    BY <1>5 DEF ReservedLock
  <2>2. d \in Conns /\ c # d
    BY DEF Fellows, Others
  <2>3. at[d] = "give_up"
    BY <1>3, <1>5, <2>1, <2>2
       DEF HeldAt, SharedAt, ReservedAt, ExclusiveAt, Points, Looking, Playing, Changing, Unwritten,
           Written, LockLevels, NO_LOCK, SHARED_LOCK, RESERVED_LOCK, PENDING_LOCK, EXCLUSIVE_LOCK
  <2>4. ~ Valid(jcur)
    BY <2>3 DEF NoneIgnored, Ignores
  <2> QED  BY <2>4 DEF Cold
<1> QED  BY <1>4, <1>5

LEMMA PassingConn ==
    ASSUME IInv, NoneIgnored, NEW c \in Conns, Passing(c)
    PROVE  ConnInv(c)'
<1>1. /\ Moved(c) /\ at \in [Conns -> Points]
      /\ cur' = cur /\ jcur' = jcur /\ Committed' = Committed /\ (Cold' <=> Cold)
      /\ cache' = cache /\ dirty' = dirty /\ dbFileVers' = dbFileVers
      /\ todo' = todo /\ faults' = faults
  BY PassingMoves, FilesSame DEF IInv, TypeInv, locals, files
<1>2. (Kept(c)' <=> Kept(c)) /\ (Current(c)' <=> Current(c))
  BY <1>1 DEF Kept, Current, Agrees
<1>3. (Covered(c)' <=> Covered(c)) /\ (Untouched(c)' <=> Untouched(c))
  BY <1>1 DEF Covered, Untouched
<1>4. ConnInv(c) /\ HeldAt(c)
  BY ConnFacts
<1> USE DEF Looking, Changing, Unwritten, Written, Playing, Go
<1>5. CASE \/ GetShared(c) \/ FindJournal(c) \/ CheckReserved(c) \/ CheckSize(c)
           \/ ReserveRemnant(c) \/ LeaveRemnant(c) \/ ReadFirstByte(c)
           \/ LockHot(c) \/ HotPending(c) \/ HotBusy(c) \/ HotGone(c) \/ EndRead(c)
  <2>1. Kept(c)'
    BY <1>2, <1>4, <1>5, CurrentIsKept
       DEF ConnInv, GetShared, FindJournal, CheckReserved, CheckSize,
       ReserveRemnant, LeaveRemnant, ReadFirstByte, LockHot, HotPending, HotBusy, HotGone, EndRead
  <2>2. at'[c] \in {"open"} \cup Looking
    BY <1>1, <1>5
       DEF GetShared, FindJournal, CheckReserved, CheckSize,
       ReserveRemnant, LeaveRemnant, ReadFirstByte, LockHot, HotPending, HotBusy, HotGone, EndRead
  <2>3. at'[c] \in {"remnant", "delete"} => cur'[1] = Absent
    <3>1. NPages(cur) = 0 => cur[1] = Absent
      BY FirstPageCounts DEF IInv, TypeInv, FileInv
    <3> QED  BY <1>1, <1>4, <1>5, <3>1
         DEF ConnInv, GetShared, FindJournal, CheckReserved, CheckSize,
         ReserveRemnant, LeaveRemnant, ReadFirstByte, LockHot, HotPending, HotBusy, HotGone, EndRead
  <2>4. at'[c] = "validate" => Cold'
    <3>1. CASE FindJournal(c) \/ HotGone(c) \/ ReadFirstByte(c)
      BY <1>1, <3>1, JournalFields DEF FindJournal, HotGone, ReadFirstByte, Cold, IInv, TypeInv
    <3>2. CASE CheckReserved(c)
      BY <1>1, <3>2, ReservedIsCold DEF CheckReserved
    <3>3. CASE LeaveRemnant(c)
      BY <1>1, <1>4, <3>3, EmptyIsCold DEF LeaveRemnant, ConnInv, IInv, TypeInv
    <3> QED  BY <1>1, <1>5, <3>1, <3>2, <3>3
         DEF GetShared, CheckSize, ReserveRemnant, LockHot, HotPending, HotBusy, EndRead
  <2> QED  BY <2>1, <2>2, <2>3, <2>4 DEF ConnInv
<1>6. CASE BeginWrite(c) \/ EndUnwritten(c)
  BY <1>1, <1>2, <1>4, <1>6 DEF ConnInv, BeginWrite, EndUnwritten
<1>7. CASE LockForCommit(c) \/ CommitBusy(c)
  <2>1. Numbered(c)'
    BY <1>1, <1>4, <1>7 DEF ConnInv, Numbered, LockForCommit, CommitBusy
  <2> QED  BY <1>1, <1>3, <1>4, <1>7, <2>1 DEF ConnInv, LockForCommit, CommitBusy
<1>8. CASE UnlinkFails(c) \/ RollbackFails(c)
  BY <1>1, <1>8 DEF ConnInv, UnlinkFails, RollbackFails
<1> QED  BY <1>5, <1>6, <1>7, <1>8 DEF Passing

LEMMA PassingKeeps ==
    ASSUME IInv, NoneIgnored, NEW c \in Conns, Passing(c)
    PROVE  IInv'
<1>1. /\ Moved(c) /\ TypeInv /\ FileInv /\ LockInv /\ at \in [Conns -> Points]
      /\ UNCHANGED <<files, locals, faults>>
      /\ cur' = cur /\ jcur' = jcur /\ disk' = disk /\ jdisk' = jdisk /\ linked' = linked
      /\ Committed' = Committed /\ (Cold' <=> Cold)
  BY PassingMoves, FilesSame DEF IInv, TypeInv, files
<1>1a. \/ Share(c) \/ Reserve(c) \/ Pend(c) \/ Exclude(c)
      \/ Lower(c, NO_LOCK) \/ Lower(c, SHARED_LOCK) \/ UNCHANGED lockVars
  BY <1>1, PassingMoves
<1>2. TypeInv'
  BY <1>1 DEF TypeInv, Moved, files, locals
<1>3. LockInv' /\ ConnInv(c)'
  BY LockStep, PassingConn
<1>4. \A d \in Conns : ConnInv(d)'
  BY <1>1, <1>3, OthersAsBefore
<1>5. FileInv'
  <2>1. ASSUME NEW d \in reserver', level'[d] < EXCLUSIVE_LOCK
        PROVE  Cold'
    <3>1. CASE d \in reserver
      <4>1. level[d] < EXCLUSIVE_LOCK
        BY <1>1a, <1>1, <2>1, <3>1
           DEF Share, Sharable, Reserve, Pend, Exclude, Lower, lockVars, Moved, TypeInv, LockLevels,
               NO_LOCK, SHARED_LOCK, RESERVED_LOCK, PENDING_LOCK, EXCLUSIVE_LOCK
      <4> QED  BY <1>1, <3>1, <4>1 DEF FileInv
    <3>2. CASE d \notin reserver
      <4>1. Reserve(c)
        BY <1>1a, <2>1, <3>2 DEF Share, Pend, Exclude, Lower, lockVars
      <4>2. BeginWrite(c) \/ ReserveRemnant(c)
        BY <1>1, <4>1
           DEF TypeInv, Reserve, Passing, GetShared, FindJournal, CheckReserved, CheckSize,
           LeaveRemnant, ReadFirstByte, LockHot, HotPending, HotBusy, HotGone, EndRead,
           EndUnwritten, LockForCommit, CommitBusy, UnlinkFails, RollbackFails,
           Share, Pend, Exclude, Lower, lockVars, LockLevels,
           NO_LOCK, SHARED_LOCK, RESERVED_LOCK, PENDING_LOCK, EXCLUSIVE_LOCK
      <4>3. ConnInv(c)
        BY ConnFacts
      <4> QED  BY <1>1, <4>2, <4>3, EmptyIsCold
               DEF BeginWrite, ReserveRemnant, Go, ConnInv, TypeInv
    <3> QED  BY <3>1, <3>2
  <2> QED  BY <1>1, <2>1 DEF FileInv, Cold
<1>6. ASSUME "power" \in faults'
      PROVE  DurableInv'
  <2>1. DiskInv /\ \A d \in Conns : DurableAt(d)
    BY <1>1, <1>6 DEF IInv, DurableInv
  <2>2. DiskInv'
    BY <1>1, <2>1 DEF DiskInv, Settled
  <2>3. DurableAt(c)'
    BY <1>1, <2>1
       DEF DurableAt, Written, Playing, Unwritten, Go, Passing, GetShared, FindJournal, CheckReserved,
       CheckSize, ReserveRemnant, LeaveRemnant, ReadFirstByte, LockHot, HotPending, HotBusy, HotGone,
       EndRead, BeginWrite, EndUnwritten, LockForCommit, CommitBusy, UnlinkFails, RollbackFails
  <2>4. ASSUME NEW d \in Conns \ {c}
        PROVE  DurableAt(d)'
    BY <1>1, <2>1 DEF DurableAt, Moved
  <2> QED  BY <2>2, <2>3, <2>4 DEF DurableInv
<1> QED  BY <1>2, <1>3, <1>4, <1>5, <1>6 DEF IInv

------------------------------------------------------------------------------
(* Steps that change what a connection has in memory                         *)

\* Records of what the file still has restore nothing.
LEMMA NothingToRestore ==
    ASSUME NEW f \in [Pages -> Contents], NEW j \in Journals, j # NoFile, WellFormed(j),
           j.size = NPages(f), \A i \in DOMAIN j.recs : j.recs[i].data = f[j.recs[i].pgno]
    PROVE  Recovered(f, j) = f
<1>1. CASE ~ Valid(j)
  BY <1>1 DEF Recovered
<1>2. CASE Valid(j)
  <2>1. \A p \in Pages : Saved(j, p) => Original(j, p) = f[p]
    BY RecordOfSaved
  <2>2. \A p \in Pages : p > j.size => f[p] = Absent
    BY PageCount
  <2>3. \A p \in Pages : Recovered(f, j)[p] = f[p]
    BY <1>2, <2>1, <2>2, RecoveredPage
  <2>4. Recovered(f, j) \in [Pages -> Contents]
    BY RecoveredType
  <2> QED  BY <2>3, <2>4
<1> QED  BY <1>1, <1>2

\* As long as the file is not written, it is what was committed.
LEMMA UnwrittenIsCommitted ==
    ASSUME IInv, NEW c \in Conns, at[c] \in Unwritten
    PROVE  Committed = cur /\ jcur # NoFile /\ Untouched(c) /\ Covered(c)
<1>1. ConnInv(c) /\ jcur \in Journals /\ WellFormed(jcur) /\ cur \in [Pages -> Contents]
  BY ConnFacts, Facts
<1>2. jcur # NoFile /\ Untouched(c) /\ Covered(c)
  BY <1>1, JournalFields DEF ConnInv, Changing
<1> QED  BY <1>1, <1>2, NothingToRestore DEF Untouched, Committed

\* What a rollback puts back into the cache is what was committed.
LEMMA RestoredAgrees ==
    ASSUME IInv, NEW c \in Conns, at[c] \in Changing, at[c] \in Written => faults # {}
    PROVE  /\ Restored(c) \in Caches /\ 1 \in DOMAIN Restored(c)
           /\ \A p \in DOMAIN Restored(c) : Restored(c)[p] = Committed[p]
           /\ (IF Saved(jcur, 1) THEN Original(jcur, 1) ELSE dbFileVers[c]) = Version(Committed)
<1>1. /\ ConnInv(c) /\ TypeInv /\ FileInv
      /\ cache[c] \in [DOMAIN cache[c] -> Contents] /\ DOMAIN cache[c] \subseteq Pages
      /\ jcur \in Journals /\ WellFormed(jcur) /\ 1 \in Pages
      /\ cur \in [Pages -> Contents] /\ Committed \in [Pages -> Contents]
  BY ConnFacts, Facts DEF IInv
<1>2. jcur # NoFile /\ Covered(c) /\ jcur.size \in Nat
  BY <1>1, JournalFields DEF ConnInv, Changing
<1>3. \A p \in Pages : Saved(jcur, p) => ~ (p > jcur.size)
  <2>1. \A p \in Pages : Saved(jcur, p) => p <= jcur.size
    BY <1>1, <1>2, RecordOfSaved DEF WellFormed
  <2> QED  BY <1>2, <2>1 DEF Pages
<1>4. \A p \in Pages : /\ Saved(jcur, p) => Original(jcur, p) = Committed[p]
                       /\ p > jcur.size => Committed[p] = Absent
                       /\ ~ (p > jcur.size) /\ ~ Saved(jcur, p) => Committed[p] = cur[p]
  <2>1. CASE at[c] \in Unwritten
    <3>1. Committed = cur /\ Untouched(c)
      BY <2>1, UnwrittenIsCommitted
    <3> QED  BY <1>1, <1>2, <3>1, RecordOfSaved, PageCount DEF Untouched
  <2>2. CASE at[c] \in Written
    <3>1. Valid(jcur)
      BY <1>1, <2>2 DEF ConnInv, Changing, Valid
    <3> QED  BY <1>3, <3>1, RecoveredPage DEF Committed
  <2> QED  BY <2>1, <2>2 DEF Changing
<1>5. \A p \in DOMAIN cache[c] : ~ (p > jcur.size) /\ ~ Saved(jcur, p) => cache[c][p] = cur[p]
  <2>1. \A p \in Pages : ~ (p > jcur.size) => p <= jcur.size
    BY <1>2 DEF Pages
  <2> QED  BY <1>1, <1>2, <2>1 DEF Covered
<1>6. ASSUME NEW p \in DOMAIN cache[c]
      PROVE  (IF Saved(jcur, p) THEN Original(jcur, p)
              ELSE IF p > jcur.size THEN Absent ELSE cache[c][p]) = Committed[p]
  BY <1>1, <1>4, <1>5
<1>7. /\ DOMAIN Restored(c) \subseteq DOMAIN cache[c] /\ 1 \in DOMAIN Restored(c)
      /\ \A p \in DOMAIN Restored(c) : Restored(c)[p] = Committed[p]
  BY <1>2, <1>6 DEF Restored, Covered
<1>8. Restored(c) \in Caches
  <2>1. Restored(c) \in [DOMAIN Restored(c) -> Contents]
    <3>1. Restored(c) = [p \in DOMAIN Restored(c) |-> Restored(c)[p]]
      BY DEF Restored
    <3> QED  BY <1>1, <1>7, <3>1
  <2> QED  BY <1>1, <1>7, <2>1, CacheType
<1>9. (IF Saved(jcur, 1) THEN Original(jcur, 1) ELSE dbFileVers[c]) = Version(Committed)
  <2>1. CASE at[c] \in Unwritten
    <3>1. Committed = cur /\ Untouched(c) /\ Rooted(cur)
      BY <1>1, <2>1, UnwrittenIsCommitted DEF FileInv
    <3>2. Saved(jcur, 1) => cur[1] # Absent /\ Original(jcur, 1) = cur[1]
      <4>1. Saved(jcur, 1) => NPages(cur) # 0
        BY <1>1, <1>3, <3>1 DEF Untouched
      <4> QED  BY <1>1, <1>4, <3>1, <4>1, FirstPageCounts
    <3> QED  BY <3>1, <3>2 DEF Untouched, Version
  <2>2. CASE at[c] \in Written
    <3>1. Numbered(c) /\ Committed[1] # Absent
      BY <1>1, <2>2 DEF ConnInv, Changing, Written, FileInv
    <3>2. ~ (1 > jcur.size)
      BY <1>1, <1>4, <3>1
    <3>3. Saved(jcur, 1)
      BY <1>2, <3>1, <3>2 DEF Numbered
    <3> QED  BY <1>1, <1>4, <3>1, <3>3 DEF Version
  <2> QED  BY <2>1, <2>2 DEF Changing
<1> QED  BY <1>7, <1>8, <1>9

LEMMA CachingConn ==
    ASSUME IInv, NEW c \in Conns, Caching(c)
    PROVE  ConnInv(c)'
<1>1. /\ Moved(c) /\ TypeInv /\ FileInv /\ at \in [Conns -> Points]
      /\ cur' = cur /\ jcur' = jcur /\ Committed' = Committed /\ (Cold' <=> Cold) /\ faults' = faults
  BY CachingMoves, FilesSame DEF IInv, TypeInv, files
<1>2. /\ ConnInv(c) /\ HeldAt(c) /\ dirty[c] \subseteq DOMAIN cache[c] /\ DOMAIN cache[c] \subseteq Pages
      /\ 1 \in Pages /\ (Cold => Committed = cur)
  BY ConnFacts, Facts
<1>3. cache \in [Conns -> Caches] /\ dirty \in [Conns -> SUBSET Pages]
      /\ dbFileVers \in [Conns -> Counters] /\ todo \in [Conns -> Nat]
  BY <1>1 DEF TypeInv
<1> USE DEF Looking, Changing, Unwritten, Written, Playing, Go
<1>4. CASE ValidateCache(c)
  <2>1. /\ at[c] = "validate" /\ at'[c] = "reader" /\ dirty' = dirty
        /\ Kept(c) /\ Cold /\ Committed = cur
    BY <1>1, <1>2, <1>4 DEF ValidateCache, ConnInv
  <2> DEFINE kept == IF dbFileVers[c] = Version(cur) THEN cache[c] ELSE << >>
  <2>2. /\ cache'[c] = FirstPage(c, kept)
        /\ dbFileVers'[c] = IF 1 \notin DOMAIN kept /\ NPages(cur) > 0 THEN cur[1] ELSE dbFileVers[c]
    BY <1>3, <1>4 DEF ValidateCache, SetCache
  <2>3. DOMAIN << >> = {}
    OBVIOUS
  <2>4. \A p \in DOMAIN kept : kept[p] = cur[p]
    BY <2>1, <2>3, Facts, ConnFacts DEF Kept, Agrees, Counters
  <2>5. 1 \in DOMAIN cache'[c] /\ \A p \in DOMAIN cache'[c] : cache'[c][p] = cur[p]
    <3> HIDE DEF kept
    <3> QED  BY <2>2, <2>4 DEF FirstPage
  <2>6. dbFileVers'[c] = Version(cur)
    <3>1. NPages(cur) = 0 <=> cur[1] = Absent
      BY <1>1, FirstPageCounts DEF TypeInv, FileInv
    <3>2. NPages(cur) \in 0 .. MaxPage /\ MaxPage \in Nat
      BY <1>1, PageCount, BoundsAssumption DEF TypeInv
    <3>3. CASE 1 \in DOMAIN kept
      BY <2>2, <2>3, <3>3
    <3>4. CASE 1 \notin DOMAIN kept /\ NPages(cur) > 0
      BY <2>2, <3>1, <3>2, <3>4 DEF Version
    <3>5. CASE 1 \notin DOMAIN kept /\ NPages(cur) = 0
      <4>1. dbFileVers'[c] = dbFileVers[c] /\ cur[1] = Absent
        BY <2>2, <3>1, <3>5
      <4>2. faults = {}
        BY <1>1, <4>1 DEF FileInv
      <4> QED  BY <2>1, <4>1, <4>2 DEF Kept, Version
    <3> QED  BY <3>2, <3>3, <3>4, <3>5
  <2> HIDE DEF kept
  <2>7. Current(c)'
    BY <1>1, <2>1, <2>5, <2>6 DEF Current, Kept, Agrees, Version
  <2> QED  BY <1>1, <2>1, <2>7 DEF ConnInv
<1>5. ASSUME NEW q \in Pages, ReadPage(c, q)
      PROVE  ConnInv(c)'
  <2>1. /\ q # 1 /\ q \notin DOMAIN cache[c] /\ InTx(c)
        /\ DOMAIN cache'[c] = DOMAIN cache[c] \cup {q}
        /\ \A p \in DOMAIN cache[c] \cup {q} : cache'[c][p] = IF p = q THEN cur[q] ELSE cache[c][p]
        /\ at' = at /\ dirty' = dirty /\ dbFileVers' = dbFileVers /\ reserver' = reserver
    BY <1>3, <1>5 DEF ReadPage, SetCache, lockVars
  <2>2. Current(c) /\ Committed = cur => Current(c)'
    BY <1>1, <2>1 DEF Current, Agrees
  <2>3. Covered(c) => Covered(c)'
    BY <1>1, <1>2, <2>1 DEF Covered
  <2>4. Untouched(c) <=> Untouched(c)'
    BY <1>1, <2>1 DEF Untouched
  <2>5. Covered(c) /\ Numbered(c) => Numbered(c)'
    BY <1>1, <2>1 DEF Covered, Numbered
  <2> QED  BY <1>1, <1>2, <2>1, <2>2, <2>3, <2>4, <2>5 DEF ConnInv, InTx
<1>6. CASE RollbackFile(c)
  <2>1. /\ at[c] \in Written /\ at'[c] = "playback" /\ faults # {} /\ reserver' = reserver
        /\ "io" \in faults /\ cache'[c] = Restored(c) /\ dirty'[c] = {}
        /\ dbFileVers'[c] = IF Saved(jcur, 1) THEN Original(jcur, 1) ELSE dbFileVers[c]
    BY <1>1, <1>3, <1>6 DEF RollbackFile, RestoreCache, SetCache, lockVars
  <2>2. c \in reserver /\ Valid(jcur)
    BY <1>2, <2>1 DEF ConnInv, HeldAt, Valid
  <2>3. 1 \in DOMAIN cache'[c] /\ \A p \in DOMAIN cache'[c] : cache'[c][p] = Committed[p]
    BY <2>1, RestoredAgrees
  <2>4. dbFileVers'[c] = Version(Committed)
    BY <2>1, RestoredAgrees
  <2>5. Current(c)'
    BY <1>1, <2>1, <2>3, <2>4 DEF Current, Agrees, Version
  <2> QED  BY <1>1, <2>1, <2>2, <2>5 DEF ConnInv, Valid
<1>7. CASE ClearError(c)
  <2>1. /\ at[c] = "error" /\ at'[c] = "open" /\ cache'[c] = << >> /\ dirty'[c] = {}
        /\ DOMAIN << >> = {}
    BY <1>1, <1>3, <1>7 DEF ClearError, SetCache
  <2>2. faults' # {}
    BY <1>1, <1>2, <2>1 DEF ConnInv
  <2>3. Kept(c)'
    BY <2>1, <2>2 DEF Kept
  <2> QED  BY <2>1, <2>3 DEF ConnInv
<1> QED  BY <1>4, <1>5, <1>6, <1>7 DEF Caching

LEMMA CachingKeeps ==
    ASSUME IInv, NEW c \in Conns, Caching(c)
    PROVE  IInv'
<1>1. /\ Moved(c) /\ TypeInv /\ FileInv /\ LockInv /\ at \in [Conns -> Points]
      /\ cur' = cur /\ jcur' = jcur /\ disk' = disk /\ jdisk' = jdisk /\ linked' = linked
      /\ Committed' = Committed /\ (Cold' <=> Cold) /\ faults' = faults
      /\ Lower(c, NO_LOCK) \/ UNCHANGED lockVars
  BY CachingMoves, FilesSame DEF IInv, TypeInv, files
<1>2. /\ ConnInv(c) /\ dirty[c] \subseteq DOMAIN cache[c]
      /\ cache[c] \in [DOMAIN cache[c] -> Contents] /\ DOMAIN cache[c] \subseteq Pages
      /\ 1 \in Pages /\ cur \in [Pages -> Contents] /\ Version(Committed) \in Counters
  BY ConnFacts, Facts
<1>3. LockInv' /\ ConnInv(c)'
  BY LockStep, CachingConn
<1>4. \A d \in Conns : ConnInv(d)'
  BY <1>1, <1>3, OthersAsBefore
<1>5. TypeInv'
  <2>1. DOMAIN << >> = {} /\ << >> \in Caches
    <3>1. DOMAIN << >> = {} /\ << >> = [p \in {} |-> p]
      OBVIOUS
    <3> QED  BY <3>1, CacheType
  <2>2. CASE ValidateCache(c)
    <3> DEFINE kept == IF dbFileVers[c] = Version(cur) THEN cache[c] ELSE << >>
    <3>1. /\ cache' = [cache EXCEPT ![c] = FirstPage(c, kept)]
          /\ \/ dbFileVers' = dbFileVers
             \/ NPages(cur) > 0 /\ dbFileVers' = [dbFileVers EXCEPT ![c] = cur[1]]
          /\ dirty' = dirty /\ dirty[c] = {} /\ todo' = todo /\ Cold
      BY <1>1, <1>2, <2>2 DEF ValidateCache, SetCache, Go, ConnInv, Kept, Looking, TypeInv
    <3>2. kept \in [DOMAIN kept -> Contents] /\ DOMAIN kept \subseteq Pages
      BY <1>2, <2>1, CacheType
    <3>3. FirstPage(c, kept) \in Caches
      <4> HIDE DEF kept
      <4>1. DOMAIN FirstPage(c, kept) \subseteq Pages
            /\ FirstPage(c, kept) \in [DOMAIN FirstPage(c, kept) -> Contents]
        BY <1>2, <3>2 DEF FirstPage
      <4> QED  BY <4>1, CacheType
    <3>4. dbFileVers' \in [Conns -> Counters]
      <4>1. NPages(cur) = 0 <=> cur[1] = Absent
        BY <1>1, FirstPageCounts DEF TypeInv, FileInv
      <4>2. NPages(cur) > 0 => cur[1] = Version(Committed)
        BY <1>2, <3>1, <4>1, Facts, PageCount DEF Version
      <4> QED  BY <1>1, <1>2, <3>1, <4>2 DEF TypeInv
    <3> HIDE DEF kept
    <3> QED  BY <1>1, <3>1, <3>3, <3>4 DEF TypeInv, Moved
  <2>3. ASSUME NEW q \in Pages, ReadPage(c, q)
        PROVE  TypeInv'
    <3> DEFINE pages == [p \in DOMAIN cache[c] \cup {q} |-> IF p = q THEN cur[q] ELSE cache[c][p]]
    <3>1. cache' = [cache EXCEPT ![c] = pages]
          /\ dirty' = dirty /\ dbFileVers' = dbFileVers /\ todo' = todo
      BY <2>3 DEF ReadPage, SetCache
    <3>2. pages \in [DOMAIN pages -> Contents] /\ DOMAIN pages = DOMAIN cache[c] \cup {q}
      BY <1>2
    <3>3. pages \in Caches
      <4> HIDE DEF pages
      <4> QED  BY <1>2, <3>2, CacheType
    <3> HIDE DEF pages
    <3> QED  BY <1>1, <1>2, <3>1, <3>2, <3>3 DEF TypeInv, Moved
  <2>4. CASE RollbackFile(c)
    <3> DEFINE vers == IF Saved(jcur, 1) THEN Original(jcur, 1) ELSE dbFileVers[c]
    <3>1. /\ cache' = [cache EXCEPT ![c] = Restored(c)] /\ dirty' = [dirty EXCEPT ![c] = {}]
          /\ dbFileVers' = [dbFileVers EXCEPT ![c] = vers] /\ todo' = todo
          /\ at[c] \in Changing /\ faults # {}
      BY <2>4 DEF RollbackFile, RestoreCache, SetCache, Changing
    <3>2. Restored(c) \in Caches /\ vers \in Counters
      BY <1>2, <3>1, RestoredAgrees
    <3> HIDE DEF vers
    <3> QED  BY <1>1, <3>1, <3>2 DEF TypeInv, Moved
  <2>5. CASE ClearError(c)
    <3>1. /\ cache' = [cache EXCEPT ![c] = << >>] /\ dirty' = [dirty EXCEPT ![c] = {}]
          /\ dbFileVers' = dbFileVers
      BY <2>5 DEF ClearError, SetCache
    <3> QED  BY <1>1, <2>1, <3>1 DEF TypeInv, Moved
  <2> QED  BY <2>2, <2>3, <2>4, <2>5 DEF Caching
<1>6. FileInv'
  BY <1>1 DEF FileInv, Cold, Lower, lockVars, TypeInv
<1>7. ASSUME "power" \in faults'
      PROVE  DurableInv'
  <2>1. DiskInv /\ \A d \in Conns : DurableAt(d)
    BY <1>1, <1>7 DEF IInv, DurableInv
  <2>2. DiskInv'
    BY <1>1, <2>1 DEF DiskInv, Settled
  <2>3. DurableAt(c)'
    BY <1>1, <2>1 DEF DurableAt, Written, Playing, Go, InTx,
       Caching, ValidateCache, ReadPage, RollbackFile, ClearError
  <2>4. ASSUME NEW d \in Conns \ {c}
        PROVE  DurableAt(d)'
    BY <1>1, <2>1 DEF DurableAt, Moved
  <2> QED  BY <2>2, <2>3, <2>4 DEF DurableInv
<1> QED  BY <1>3, <1>4, <1>5, <1>6, <1>7 DEF IInv

------------------------------------------------------------------------------
(* Steps that delete the journal                                             *)

LEMMA Unlinked ==
    ASSUME IInv, NEW c \in Conns, Moved(c), Unlink, KeepFile, Lower(c, SHARED_LOCK),
           at'[c] \in {"validate", "reader"}, cur[1] \in Counters \cup {Absent},
           "power" \in faults => cur = disk
    PROVE  /\ Committed' = cur /\ Cold' /\ FileInv'
           /\ "power" \in faults' => DurableInv'
<1>1. /\ TypeInv /\ FileInv /\ HeldAt(c) /\ faults' = faults /\ cur' = cur /\ disk' = disk
      /\ jcur' = NoFile /\ linked' = FALSE /\ jdisk' = jdisk
  BY ConnFacts DEF IInv, Moved, Unlink, KeepFile
<1>2. ~ Valid(jcur)' /\ ~ Valid(NoFile) /\ WellFormed(NoFile)
  BY <1>1 DEF Valid, NoFile, WellFormed
<1>3. Committed' = cur /\ Cold'
  BY <1>1, <1>2 DEF Committed, Recovered, Cold
<1>4. FileInv'
  BY <1>1, <1>2, <1>3 DEF FileInv
<1>5. ASSUME "power" \in faults'
      PROVE  DurableInv'
  <2>1. DiskInv /\ (\A d \in Conns : DurableAt(d)) /\ cur = disk
    BY <1>1, <1>5 DEF IInv, DurableInv
  <2>2. DiskInv'
    BY <1>1, <1>2, <2>1 DEF DiskInv, Settled
  <2>3. DurableAt(c)'
    BY DEF DurableAt, Written, Playing
  <2>4. ASSUME NEW d \in Conns \ {c}
        PROVE  DurableAt(d)'
    <3>1. at'[d] # "header"
      <4>1. level[c] # NO_LOCK
        BY DEF Lower, NO_LOCK, SHARED_LOCK
      <4>2. level[d] # EXCLUSIVE_LOCK /\ HeldAt(d)
        BY <4>1 DEF IInv, LockInv
      <4> QED  BY <4>2 DEF Moved, HeldAt, ExclusiveAt
    <3> QED  BY <1>1, <1>2, <2>1, <3>1 DEF DurableAt, Moved, Valid
  <2> QED  BY <2>2, <2>3, <2>4 DEF DurableInv
<1> QED  BY <1>3, <1>4, <1>5

\* The journal is gone, memory is as before.
LEMMA UnlinkedType ==
    ASSUME TypeInv, NEW c \in Conns, Moved(c), Unlink, KeepFile, UNCHANGED locals
    PROVE  TypeInv'
  BY DEF TypeInv, Moved, Unlink, KeepFile, locals, Journals

LEMMA DeleteRemnantKeeps ==
    ASSUME IInv, NEW c \in Conns, DeleteRemnant(c)
    PROVE  IInv'
<1>1. /\ Moved(c) /\ TypeInv /\ FileInv /\ ConnInv(c) /\ HeldAt(c) /\ at \in [Conns -> Points]
      /\ at[c] = "delete" /\ at'[c] = "validate" /\ cur' = cur /\ jcur \in Journals
      /\ Unlink /\ KeepFile /\ Lower(c, SHARED_LOCK) /\ UNCHANGED locals
  BY WritingMoves, ConnFacts DEF IInv, TypeInv, Writing, DeleteRemnant, Go, KeepFile
<1>2. cur[1] = Absent /\ faults = {} /\ c \in reserver /\ Kept(c)
  BY <1>1 DEF ConnInv, FileInv, HeldAt, Looking
<1>3. Committed = cur
  BY <1>1, <1>2, EmptyIsCold, Facts
<1>4. Committed' = cur /\ Cold' /\ FileInv' /\ ("power" \in faults' => DurableInv')
  BY <1>1, <1>2, Unlinked
<1>5. Kept(c)'
  BY <1>1, <1>2, <1>3, <1>4 DEF Kept, Agrees, locals, Moved
<1>6. ConnInv(c)'
  BY <1>1, <1>4, <1>5 DEF ConnInv, Looking, Changing, Unwritten, Written, Playing
<1>7. \A d \in Conns : ConnInv(d)'
  BY <1>1, <1>2, <1>3, <1>4, <1>6, OthersKeepReading
<1>8. TypeInv' /\ LockInv'
  BY <1>1, UnlinkedType, LockStep DEF Writing
<1> QED  BY <1>4, <1>7, <1>8 DEF IInv

LEMMA EndPlaybackKeeps ==
    ASSUME IInv, NEW c \in Conns, EndPlayback(c)
    PROVE  IInv'
<1>1. /\ Moved(c) /\ TypeInv /\ FileInv /\ ConnInv(c) /\ HeldAt(c) /\ at \in [Conns -> Points]
      /\ at[c] = "restored" /\ at'[c] = (IF c \in reserver THEN "reader" ELSE "validate")
      /\ cur' = cur /\ Unlink /\ KeepFile /\ Lower(c, SHARED_LOCK) /\ UNCHANGED locals
  BY WritingMoves, ConnFacts DEF IInv, TypeInv, Writing, EndPlayback, Go, KeepFile
<1>2. cur = Committed /\ level[c] = EXCLUSIVE_LOCK
      /\ IF c \in reserver THEN Current(c) ELSE Kept(c)
  BY <1>1 DEF ConnInv, HeldAt, ExclusiveAt, Playing
<1>3. "power" \in faults => cur = disk
  BY <1>1 DEF IInv, DurableInv, DurableAt
<1>4. Committed' = cur /\ Cold' /\ FileInv' /\ ("power" \in faults' => DurableInv')
  BY <1>1, <1>2, <1>3, Unlinked DEF FileInv
<1>5. IF c \in reserver THEN Current(c)' ELSE Kept(c)'
  BY <1>1, <1>2, <1>4 DEF Current, Kept, Agrees, locals, Moved
<1>6. ConnInv(c)'
  BY <1>1, <1>4, <1>5 DEF ConnInv, Looking, Changing, Unwritten, Written, Playing
<1>7. \A d \in Conns : ConnInv(d)'
  BY <1>1, <1>2, <1>4, <1>6, OthersOutside
<1>8. TypeInv' /\ LockInv'
  BY <1>1, UnlinkedType, LockStep DEF Writing
<1> QED  BY <1>4, <1>7, <1>8 DEF IInv

\* The content that was written is the one committed last.
LEMMA FinishCommits ==
    ASSUME IInv, NEW c \in Conns, at[c] = "finished"
    PROVE  /\ Version(cur) = Version(Committed) + 1 /\ cur[1] \in Counters /\ cur[1] # Absent
           /\ dbFileVers[c] = Version(cur) /\ 1 \in DOMAIN cache[c] /\ dirty[c] = {}
           /\ \A p \in DOMAIN cache[c] : cache[c][p] = cur[p]
<1>1. /\ dirty[c] = {} /\ Covered(c) /\ Numbered(c)
  BY ConnFacts DEF ConnInv, Changing, Written
<1>2. /\ cache[c][1] = Version(Committed) + 1 /\ dbFileVers[c] = cache[c][1]
      /\ cache[c][1] = cur[1] /\ cur[1] \in Counters
      /\ 1 \in DOMAIN cache[c] /\ \A p \in DOMAIN cache[c] : cache[c][p] = cur[p]
  BY <1>1 DEF Covered, Numbered
<1>3. cur[1] # Absent
  BY <1>2, AbsentIsNone
<1> QED  BY <1>1, <1>2, <1>3 DEF Version

LEMMA FinishKeeps ==
    ASSUME IInv, NEW c \in Conns, Finish(c)
    PROVE  IInv'
<1>1. /\ Moved(c) /\ TypeInv /\ FileInv /\ HeldAt(c) /\ at \in [Conns -> Points]
      /\ at[c] = "finished" /\ at'[c] = "reader"
      /\ cur' = cur /\ Unlink /\ KeepFile /\ Lower(c, SHARED_LOCK) /\ UNCHANGED locals
  BY WritingMoves, ConnFacts DEF IInv, TypeInv, Writing, Finish, Go, KeepFile
<1>2. "power" \in faults => cur = disk
  BY <1>1 DEF IInv, DurableInv, DurableAt
<1>3. Committed' = cur /\ Cold' /\ FileInv' /\ ("power" \in faults' => DurableInv')
  BY <1>1, <1>2, Unlinked, FinishCommits
<1>4. Current(c)'
  BY <1>1, <1>3, FinishCommits DEF Current, Agrees, Version, locals
<1>5. ConnInv(c)'
  BY <1>1, <1>3, <1>4 DEF ConnInv, Looking, Changing, Unwritten, Written, Playing
<1>6. Version(Committed') > Version(Committed) /\ Version(Committed') \in Counters
  BY <1>1, <1>3, FinishCommits, Facts DEF Version, Counters
<1>7. level[c] = EXCLUSIVE_LOCK
  BY <1>1 DEF HeldAt, ExclusiveAt, Written
<1>8. \A d \in Conns : ConnInv(d)'
  BY <1>1, <1>3, <1>5, <1>6, <1>7, FinishCommits, OthersOutside
<1>9. TypeInv' /\ LockInv'
  BY <1>1, UnlinkedType, LockStep DEF Writing
<1> QED  BY <1>3, <1>8, <1>9 DEF IInv

LEMMA RollbackMemoryKeeps ==
    ASSUME IInv, NEW c \in Conns, RollbackMemory(c)
    PROVE  IInv'
<1>1. /\ Moved(c) /\ TypeInv /\ FileInv /\ HeldAt(c) /\ at \in [Conns -> Points]
      /\ at[c] \in Unwritten /\ at'[c] = "reader" /\ at[c] \in Changing /\ at[c] \notin Written
      /\ cur' = cur /\ Unlink /\ KeepFile /\ Lower(c, SHARED_LOCK)
  BY WritingMoves, ConnFacts
     DEF IInv, TypeInv, Writing, RollbackMemory, KeepFile, Changing, Unwritten, Written
<1> DEFINE vers == IF Saved(jcur, 1) THEN Original(jcur, 1) ELSE dbFileVers[c]
<1>2. /\ cache' = [cache EXCEPT ![c] = Restored(c)] /\ dirty' = [dirty EXCEPT ![c] = {}]
      /\ dbFileVers' = [dbFileVers EXCEPT ![c] = vers] /\ todo' = todo
  BY DEF RollbackMemory, RestoreCache, SetCache
<1>3. /\ Restored(c) \in Caches /\ 1 \in DOMAIN Restored(c)
      /\ \A p \in DOMAIN Restored(c) : Restored(c)[p] = Committed[p]
      /\ vers = Version(Committed) /\ vers \in Counters
  BY <1>1, RestoredAgrees, Facts
<1> HIDE DEF vers
<1>4. Committed = cur /\ c \in reserver
  BY <1>1, UnwrittenIsCommitted DEF HeldAt
<1>5. "power" \in faults => cur = disk
  <2>1. CASE at[c] = "sync_header"
    BY <2>1 DEF IInv, DurableInv, DurableAt, DiskInv
  <2>2. CASE at[c] # "sync_header"
    <3>1. jcur.hdr = "zero"
      BY <1>1, <2>2, ConnFacts DEF ConnInv
    <3> QED  BY <3>1 DEF IInv, DurableInv, DiskInv, Valid
  <2> QED  BY <2>1, <2>2
<1>6. Committed' = cur /\ Cold' /\ FileInv' /\ ("power" \in faults' => DurableInv')
  BY <1>1, <1>4, <1>5, Unlinked DEF FileInv
<1>7. Current(c)'
  <2>1. cache'[c] = Restored(c) /\ dirty'[c] = {} /\ dbFileVers'[c] = vers
    BY <1>1, <1>2 DEF TypeInv
  <2> QED  BY <1>3, <1>4, <1>6, <2>1 DEF Current, Agrees, Version
<1>8. ConnInv(c)'
  BY <1>1, <1>6, <1>7 DEF ConnInv, Looking, Changing, Unwritten, Written, Playing
<1>9. \A d \in Conns : ConnInv(d)'
  BY <1>1, <1>4, <1>6, <1>8, OthersKeepReading
<1>10. TypeInv' /\ LockInv'
  <2>1. cache' \in [Conns -> Caches] /\ dirty' \in [Conns -> SUBSET Pages]
        /\ dbFileVers' \in [Conns -> Counters]
    BY <1>1, <1>2, <1>3 DEF TypeInv
  <2>2. \A d \in Conns : dirty'[d] \subseteq DOMAIN cache'[d]
    BY <1>1, <1>2 DEF TypeInv
  <2>3. TypeInv'
    BY <1>1, <1>2, <2>1, <2>2 DEF TypeInv, Moved, Unlink, KeepFile, Journals
  <2> QED  BY <2>3, LockStep DEF Writing
<1> QED  BY <1>6, <1>9, <1>10 DEF IInv

------------------------------------------------------------------------------
(* Steps that change a page in memory                                        *)

\* The journal a page is copied to: that of the transaction, or a new one.
Opened(c) == IF at[c] = "locked" THEN Journal("zero", NPages(cur), << >>) ELSE jcur

\* Before the change.
LEMMA OpenedFacts ==
    ASSUME IInv, NEW c \in Conns, at[c] \in {"locked", "cachemod", "counted"}
    PROVE  /\ Opened(c) \in [hdr : {"zero", "valid"}, size : 0 .. MaxPage,
                             recs : Seq([pgno : Pages, data : Contents])]
           /\ Opened(c).hdr = "zero" /\ Opened(c).size = NPages(cur) /\ WellFormed(Opened(c))
           /\ \A i \in DOMAIN Opened(c).recs :
                Opened(c).recs[i].data = cur[Opened(c).recs[i].pgno]
           /\ at[c] # "locked" => Opened(c) = jcur
           /\ Committed = cur /\ dbFileVers[c] = Version(cur)
           /\ c \in reserver /\ 1 \in DOMAIN cache[c] /\ ("power" \in faults => ~ Valid(jcur))
           /\ \A q \in DOMAIN cache[c] :
                IF q \in dirty[c]
                THEN /\ at[c] # "locked" /\ cache[c][q] \in Counters \cup Values
                     /\ q <= Opened(c).size => Saved(Opened(c), q)
                ELSE cache[c][q] = cur[q]
<1>1. /\ ConnInv(c) /\ HeldAt(c) /\ TypeInv /\ FileInv /\ cur \in [Pages -> Contents]
      /\ jcur \in Journals /\ WellFormed(jcur)
  BY ConnFacts, Facts DEF IInv
<1>2. c \in reserver
  BY <1>1 DEF HeldAt, Changing, Unwritten
<1>3. CASE at[c] = "locked"
  <2>1. Cold /\ Current(c) /\ Committed = cur
    BY <1>1, <1>3, Facts DEF ConnInv
  <2>2. /\ Opened(c) = [hdr |-> "zero", size |-> NPages(cur), recs |-> << >>]
        /\ << >> \in Seq([pgno : Pages, data : Contents]) /\ DOMAIN << >> = {}
    BY <1>3 DEF Opened, Journal
  <2>3. NPages(cur) \in 0 .. MaxPage
    BY <1>1, PageCount
  <2>4. "power" \in faults => ~ Valid(jcur)
    BY <1>1, <2>1 DEF Cold, FileInv
  <2>5. WellFormed(Opened(c))
    BY <2>2 DEF WellFormed
  <2> QED  BY <1>2, <1>3, <2>1, <2>2, <2>3, <2>4, <2>5 DEF Current, Agrees
<1>4. CASE at[c] \in {"cachemod", "counted"}
  <2>1. Opened(c) = jcur /\ Committed = cur /\ jcur # NoFile /\ Untouched(c) /\ Covered(c)
    BY <1>4, UnwrittenIsCommitted DEF Opened, Unwritten
  <2>2. jcur.hdr = "zero"
    BY <1>1, <1>4 DEF ConnInv, Changing, Unwritten, Written
  <2> QED  BY <1>1, <1>2, <1>4, <2>1, <2>2, JournalFields DEF Untouched, Covered, Valid
<1> QED  BY <1>3, <1>4

LEMMA PutJournal ==
    ASSUME IInv, NEW c \in Conns, at[c] \in {"locked", "cachemod", "counted"},
           NEW p \in Pages, NEW v, Put(c, p, v), p <= NPages(cur) => p \in DOMAIN cache[c]
    PROVE  /\ jcur' \in [hdr : {"zero", "valid"}, size : 0 .. MaxPage,
                         recs : Seq([pgno : Pages, data : Contents])]
           /\ jcur'.hdr = "zero" /\ jcur'.size = NPages(cur) /\ WellFormed(jcur')
           /\ \A i \in DOMAIN jcur'.recs : jcur'.recs[i].data = cur[jcur'.recs[i].pgno]
           /\ p <= jcur'.size => Saved(jcur', p)
           /\ \A q : Saved(Opened(c), q) => Saved(jcur', q)
<1> DEFINE j == Opened(c)
           r == [pgno |-> p, data |-> cache[c][p]]
           copied == p <= j.size /\ ~ Saved(j, p)
<1>1. /\ j \in [hdr : {"zero", "valid"}, size : 0 .. MaxPage,
                recs : Seq([pgno : Pages, data : Contents])]
      /\ j.hdr = "zero" /\ j.size = NPages(cur) /\ WellFormed(j)
      /\ \A i \in DOMAIN j.recs : j.recs[i].data = cur[j.recs[i].pgno]
  BY OpenedFacts
<1>2. jcur' = IF copied THEN [j EXCEPT !.recs = Append(@, r)] ELSE j
  BY DEF Put, Opened
<1>3. CASE ~ copied
  BY <1>1, <1>2, <1>3
<1>4. CASE copied
  <2>1. p \in DOMAIN cache[c] /\ p \notin dirty[c] /\ cache[c][p] = cur[p]
    BY <1>1, <1>4, OpenedFacts
  <2>2. r \in [pgno : Pages, data : Contents] /\ cur \in [Pages -> Contents]
    BY <2>1, Facts
  <2>3. /\ jcur' = [j EXCEPT !.recs = Append(j.recs, r)]
        /\ Append(j.recs, r) \in Seq([pgno : Pages, data : Contents])
        /\ Len(j.recs) \in Nat /\ DOMAIN j.recs = 1 .. Len(j.recs)
        /\ DOMAIN Append(j.recs, r) = 1 .. (Len(j.recs) + 1)
        /\ Append(j.recs, r)[Len(j.recs) + 1] = r
        /\ \A i \in 1 .. Len(j.recs) : Append(j.recs, r)[i] = j.recs[i]
    <3> HIDE DEF r, j
    <3> QED  BY <1>1, <1>2, <1>4, <2>2, AppendProperties, LenProperties
  <2>4. /\ jcur'.recs = Append(j.recs, r) /\ jcur'.size = j.size /\ jcur'.hdr = j.hdr
        /\ jcur' \in [hdr : {"zero", "valid"}, size : 0 .. MaxPage,
                      recs : Seq([pgno : Pages, data : Contents])]
    BY <1>1, <2>3
  <2>5. /\ \A i \in 1 .. Len(j.recs) : jcur'.recs[i] = j.recs[i]
        /\ jcur'.recs[Len(j.recs) + 1] = r /\ DOMAIN jcur'.recs = 1 .. (Len(j.recs) + 1)
    BY <2>3, <2>4
  <2>6. \A i \in DOMAIN jcur'.recs : i \in 1 .. Len(j.recs) \/ i = Len(j.recs) + 1
    BY <2>3, <2>5
  <2>7. \A i \in 1 .. Len(j.recs) : j.recs[i].pgno # p
    BY <1>4, <2>3 DEF Saved
  <2>8. j # NoFile
    BY <1>1 DEF NoFile
  <2>9. WellFormed(jcur')
    <3>1. \A i \in DOMAIN jcur'.recs : jcur'.recs[i].pgno <= jcur'.size
      BY <1>1, <1>4, <2>3, <2>4, <2>5, <2>6, <2>8 DEF WellFormed
    <3>2. \A i, k \in 1 .. Len(j.recs) : j.recs[i].pgno = j.recs[k].pgno => i = k
      BY <1>1, <2>3, <2>8 DEF WellFormed
    <3>3. ASSUME NEW i \in DOMAIN jcur'.recs, NEW k \in DOMAIN jcur'.recs,
                 jcur'.recs[i].pgno = jcur'.recs[k].pgno
          PROVE  i = k
      <4>1. jcur'.recs[Len(j.recs) + 1].pgno = p
        BY <2>5
      <4>2. CASE i \in 1 .. Len(j.recs) /\ k \in 1 .. Len(j.recs)
        BY <2>5, <3>2, <3>3, <4>2
      <4>3. CASE i \in 1 .. Len(j.recs) /\ k = Len(j.recs) + 1
        BY <2>5, <2>7, <3>3, <4>1, <4>3
      <4>4. CASE i = Len(j.recs) + 1 /\ k \in 1 .. Len(j.recs)
        BY <2>5, <2>7, <3>3, <4>1, <4>4
      <4> QED  BY <2>6, <4>2, <4>3, <4>4
    <3> QED  BY <3>1, <3>3 DEF WellFormed
  <2>10. \A i \in DOMAIN jcur'.recs : jcur'.recs[i].data = cur[jcur'.recs[i].pgno]
    BY <1>1, <2>1, <2>3, <2>5, <2>6
  <2>11. Saved(jcur', p) /\ \A q : Saved(j, q) => Saved(jcur', q)
    <3>1. Len(j.recs) + 1 \in DOMAIN jcur'.recs /\ 1 .. Len(j.recs) \subseteq DOMAIN jcur'.recs
      BY <2>3, <2>5
    <3> QED  BY <2>3, <2>5, <3>1 DEF Saved
  <2> QED  BY <1>1, <2>4, <2>9, <2>10, <2>11
<1> QED  BY <1>3, <1>4

\* After the change, wherever the connection goes.
LEMMA PutChanges ==
    ASSUME IInv, NEW c \in Conns, at[c] \in {"locked", "cachemod", "counted"}, Moved(c),
           NEW p \in Pages, NEW v \in Counters \cup Values, Put(c, p, v),
           p <= NPages(cur) => p \in DOMAIN cache[c],
           p = 1 => v \in Counters, p # 1 => cache[c][1] \in Counters,
           at'[c] \in {"cachemod", "counted"}
    PROVE  /\ TypeInv' /\ FileInv' /\ ("power" \in faults' => DurableInv')
           /\ jcur'.hdr = "zero" /\ Covered(c)' /\ Untouched(c)'
           /\ dirty'[c] = dirty[c] \cup {p} /\ dbFileVers' = dbFileVers
           /\ cache'[c][1] = (IF p = 1 THEN v ELSE cache[c][1])
           /\ cur' = cur /\ Committed = cur /\ Committed' = cur
           /\ at[c] # "locked" => \A q : Saved(jcur, q) => Saved(jcur', q)
           /\ \A d \in Conns \ {c} : ConnInv(d)'
<1> DEFINE j == jcur'
           pages == [q \in DOMAIN cache[c] \cup {p} |-> IF q = p THEN v ELSE cache[c][q]]
<1>1. /\ TypeInv /\ FileInv /\ HeldAt(c) /\ Committed = cur /\ c \in reserver
      /\ 1 \in DOMAIN cache[c] /\ dirty[c] \subseteq DOMAIN cache[c] /\ DOMAIN cache[c] \subseteq Pages
      /\ cache[c] \in [DOMAIN cache[c] -> Contents] /\ dbFileVers[c] = Version(cur)
      /\ ("power" \in faults => ~ Valid(jcur))
  BY ConnFacts, OpenedFacts DEF IInv
<1>2. /\ j \in [hdr : {"zero", "valid"}, size : 0 .. MaxPage,
                recs : Seq([pgno : Pages, data : Contents])]
      /\ j.hdr = "zero" /\ j.size = NPages(cur) /\ WellFormed(j)
      /\ \A i \in DOMAIN j.recs : j.recs[i].data = cur[j.recs[i].pgno]
      /\ p <= j.size => Saved(j, p)
      /\ \A q : Saved(Opened(c), q) => Saved(j, q)
  BY PutJournal
<1>3. /\ cur' = cur /\ disk' = disk /\ jdisk' = jdisk /\ linked' = linked
      /\ dbFileVers' = dbFileVers /\ todo' = todo /\ lockVars' = lockVars
      /\ cache' = [cache EXCEPT ![c] = pages]
      /\ dirty' = [dirty EXCEPT ![c] = dirty[c] \cup {p}]
  BY DEF Put, SetCache, KeepFile
<1>4. /\ cache'[c] = pages /\ dirty'[c] = dirty[c] \cup {p} /\ faults' = faults
      /\ DOMAIN pages = DOMAIN cache[c] \cup {p} /\ pages[p] = v
      /\ \A q \in DOMAIN cache[c] \ {p} : pages[q] = cache[c][q]
  BY <1>1, <1>3 DEF TypeInv, Moved
<1>5. pages \in Caches
  <2>1. pages \in [DOMAIN pages -> Contents]
    BY <1>1 DEF Contents
  <2> HIDE DEF pages
  <2> QED  BY <1>1, <1>4, <2>1, CacheType
<1> HIDE DEF pages, j
<1>6. ~ Valid(j) /\ Committed' = cur /\ Cold'
  BY <1>2, <1>3 DEF j, Valid, Committed, Recovered, Cold
<1>7. TypeInv'
  <2>1. j \in Journals
    BY <1>2 DEF Journals
  <2>2. cache' \in [Conns -> Caches] /\ dirty' \in [Conns -> SUBSET Pages]
    BY <1>1, <1>3, <1>5 DEF TypeInv
  <2>3. \A d \in Conns : dirty'[d] \subseteq DOMAIN cache'[d]
    BY <1>1, <1>3, <1>4 DEF TypeInv
  <2> QED  BY <1>1, <1>3, <1>4, <2>1, <2>2, <2>3 DEF TypeInv, Moved, j
<1>8. FileInv'
  BY <1>1, <1>2, <1>3, <1>4, <1>6 DEF FileInv, j, Valid
<1>9. Covered(c)'
  <2>1. pages[1] \in Counters
    BY <1>1, <1>4
  <2>2. ASSUME NEW q \in DOMAIN pages
        PROVE  IF q \in dirty[c] \cup {p}
               THEN pages[q] \in Counters \cup Values /\ (q <= j.size => Saved(j, q))
               ELSE pages[q] = cur[q]
    <3>1. CASE q = p
      BY <1>2, <1>4, <3>1
    <3>2. CASE q # p
      <4>1. q \in DOMAIN cache[c] /\ pages[q] = cache[c][q] /\ j.size = Opened(c).size
        BY <1>2, <1>4, <2>2, <3>2, OpenedFacts
      <4> QED  BY <1>2, <3>2, <4>1, OpenedFacts
    <3> QED  BY <3>1, <3>2
  <2> QED  BY <1>1, <1>3, <1>4, <2>1, <2>2 DEF Covered, j
<1>10. Untouched(c)'
  BY <1>1, <1>2, <1>3 DEF Untouched, j, Version, NPages
<1>11. ASSUME "power" \in faults'
       PROVE  DurableInv'
  <2>1. DiskInv /\ \A d \in Conns : DurableAt(d)
    BY <1>4, <1>11 DEF IInv, DurableInv
  <2>2. ~ Valid(jcur) /\ j # NoFile
    BY <1>1, <1>2, <1>4, <1>11 DEF NoFile
  <2>3. DiskInv'
    BY <1>3, <1>6, <2>1, <2>2 DEF DiskInv, Settled, j, Valid
  <2>4. DurableAt(c)'
    BY DEF DurableAt, Written, Playing
  <2>5. ASSUME NEW d \in Conns \ {c}
        PROVE  DurableAt(d)'
    <3>1. level[c] # NO_LOCK
      BY <1>1 DEF HeldAt
    <3>2. level[d] # EXCLUSIVE_LOCK /\ HeldAt(d)
      BY <3>1 DEF IInv, LockInv
    <3>3. at'[d] # "header" /\ at'[d] = at[d]
      BY <3>2 DEF Moved, HeldAt, ExclusiveAt
    <3> QED  BY <1>3, <1>6, <2>1, <3>3 DEF DurableAt, j, Valid
  <2> QED  BY <2>3, <2>4, <2>5 DEF DurableInv
<1>12. \A d \in Conns \ {c} : ConnInv(d)'
  BY <1>1, <1>3, <1>6, OthersKeepReading
<1>13. cache'[c][1] = IF p = 1 THEN v ELSE cache[c][1]
  BY <1>1, <1>4
<1>14. at[c] # "locked" => \A q : Saved(jcur, q) => Saved(jcur', q)
  BY <1>2, OpenedFacts DEF j
<1> QED  BY <1>1, <1>2, <1>3, <1>4, <1>6, <1>7, <1>8, <1>9, <1>10, <1>11, <1>12, <1>13, <1>14 DEF j

LEMMA CreateDatabaseKeeps ==
    ASSUME IInv, NEW c \in Conns, CreateDatabase(c)
    PROVE  IInv' /\ Committed' = Committed
<1>1. /\ Moved(c) /\ ConnInv(c) /\ at \in [Conns -> Points] /\ 1 \in Pages /\ 0 \in Counters
      /\ at[c] = "locked" /\ at'[c] = "cachemod" /\ NPages(cur) = 0 /\ Put(c, 1, 0)
  <2>1. Moved(c) /\ ConnInv(c) /\ at \in [Conns -> Points] /\ 1 \in Pages /\ MaxCounter \in Nat
    BY WritingMoves, ConnFacts, Facts DEF IInv, TypeInv, Writing
  <2> QED  BY <2>1 DEF CreateDatabase, Go, Counters
<1>2. 1 <= NPages(cur) => 1 \in DOMAIN cache[c]
  BY <1>1
<1>3. /\ TypeInv' /\ FileInv' /\ ("power" \in faults' => DurableInv')
      /\ jcur'.hdr = "zero" /\ Covered(c)' /\ Untouched(c)'
      /\ dbFileVers' = dbFileVers /\ Committed' = Committed /\ (\A d \in Conns \ {c} : ConnInv(d)')
  BY <1>1, <1>2, PutChanges
<1>4. ConnInv(c)'
  BY <1>1, <1>3 DEF ConnInv, Looking, Changing, Unwritten, Written, Playing
<1>5. LockInv'
  BY LockStep DEF Writing
<1> QED  BY <1>3, <1>4, <1>5 DEF IInv

\* A page of the file is a page the connection sees.
LEMMA ViewCounts ==
    ASSUME IInv, NEW c \in Conns, at[c] \in {"locked", "cachemod", "counted"}
    PROVE  /\ View(c) \in [Pages -> Contents] /\ NPages(View(c)) \in 0 .. MaxPage
           /\ NPages(cur) <= NPages(View(c))
           /\ NPages(View(c)) > 0 => cache[c][1] \in Counters
<1>1. /\ cur \in [Pages -> Contents] /\ MaxPage \in Nat /\ 1 \in Pages
      /\ cache[c] \in [DOMAIN cache[c] -> Contents] /\ ConnInv(c) /\ FileInv
      /\ NPages(cur) \in 0 .. MaxPage /\ (NPages(cur) > 0 => cur[NPages(cur)] # Absent)
  BY Facts, ConnFacts, PageCount DEF IInv
<1>2. View(c) \in [Pages -> Contents]
  BY <1>1 DEF View
<1>3. /\ NPages(View(c)) \in 0 .. MaxPage
      /\ \A p \in Pages : p > NPages(View(c)) => View(c)[p] = Absent
  BY <1>2, PageCount
<1>4. NPages(cur) <= NPages(View(c))
  <2>1. SUFFICES ASSUME NPages(cur) > NPages(View(c))
                 PROVE  FALSE
    BY <1>1, <1>3
  <2>2. NPages(cur) \in Pages /\ NPages(cur) > 0
    BY <1>1, <1>3, <2>1 DEF Pages
  <2>3. View(c)[NPages(cur)] # Absent
    BY <1>1, <2>2, OpenedFacts, AbsentIsNone DEF View
  <2> QED  BY <1>3, <2>1, <2>2, <2>3
<1>5. ASSUME NPages(View(c)) > 0
      PROVE  cache[c][1] \in Counters
  <2>1. CASE at[c] # "locked"
    BY <1>1, <2>1 DEF ConnInv, Changing, Unwritten, Covered
  <2>2. CASE at[c] = "locked"
    <3>1. View(c) = cur /\ cache[c][1] = cur[1]
      BY <1>1, <2>2, OpenedFacts DEF View
    <3>2. cur[1] # Absent
      BY <1>1, <1>5, <3>1, FirstPageCounts DEF FileInv
    <3> QED  BY <1>1, <3>1, <3>2, OpenedFacts DEF FileInv
  <2> QED  BY <2>1, <2>2
<1> QED  BY <1>2, <1>3, <1>4, <1>5

LEMMA WritePageKeeps ==
    ASSUME IInv, NEW c \in Conns, NEW p \in Pages, NEW v \in Values, WritePage(c, p, v)
    PROVE  IInv' /\ Committed' = Committed
<1>1. /\ Moved(c) /\ ConnInv(c) /\ at \in [Conns -> Points] /\ MaxPage \in Nat
      /\ at[c] \in {"locked", "cachemod", "counted"} /\ Put(c, p, v) /\ p # 1
      /\ at'[c] = (IF at[c] = "locked" THEN "cachemod" ELSE at[c])
      /\ (p <= NPages(View(c)) => p \in DOMAIN cache[c]) /\ NPages(View(c)) > 0
      /\ dbFileVers[c] \in Counters
  <2>1. Moved(c) /\ ConnInv(c) /\ at \in [Conns -> Points] /\ MaxPage \in Nat
        /\ dbFileVers[c] \in Counters
    BY WritingMoves, ConnFacts, Facts DEF IInv, TypeInv, Writing
  <2> QED  BY <2>1 DEF WritePage, Pages
<1>2. (p <= NPages(cur) => p \in DOMAIN cache[c]) /\ cache[c][1] \in Counters
  BY <1>1, ViewCounts, PageCount, Facts DEF Pages
<1>3. /\ TypeInv' /\ FileInv' /\ ("power" \in faults' => DurableInv')
      /\ jcur'.hdr = "zero" /\ Covered(c)' /\ Untouched(c)'
      /\ dirty'[c] = dirty[c] \cup {p} /\ dbFileVers' = dbFileVers
      /\ cache'[c][1] = cache[c][1] /\ cur' = cur /\ Committed' = Committed
      /\ at[c] # "locked" => \A q : Saved(jcur, q) => Saved(jcur', q)
      /\ \A d \in Conns \ {c} : ConnInv(d)'
  BY <1>1, <1>2, PutChanges
<1>4. at[c] = "counted" => Numbered(c)'
  <2>1. at[c] = "counted" => Numbered(c) /\ jcur # NoFile /\ Untouched(c) /\ Untouched(c)'
    BY <1>1, <1>3, UnwrittenIsCommitted DEF ConnInv, Changing, Unwritten
  <2>2. at[c] = "counted" => jcur.size = jcur'.size
    BY <1>3, <2>1 DEF Untouched
  <2> QED  BY <1>1, <1>3, <2>1, <2>2 DEF Numbered, Version, Written
<1>5. ConnInv(c)'
  BY <1>1, <1>3, <1>4 DEF ConnInv, Looking, Changing, Unwritten, Written, Playing
<1>6. LockInv'
  BY LockStep DEF Writing
<1> QED  BY <1>3, <1>5, <1>6 DEF IInv

LEMMA IncrChangeCounterKeeps ==
    ASSUME IInv, NEW c \in Conns, IncrChangeCounter(c)
    PROVE  IInv' /\ Committed' = Committed
<1>1. /\ Moved(c) /\ ConnInv(c) /\ at \in [Conns -> Points] /\ 1 \in Pages
      /\ at[c] = "cachemod" /\ at'[c] = "counted" /\ Put(c, 1, dbFileVers[c] + 1)
      /\ dbFileVers[c] \in Counters /\ MaxCounter \in Nat
  BY WritingMoves, ConnFacts, Facts DEF IInv, TypeInv, Writing, IncrChangeCounter, Go
<1>2. 1 \in DOMAIN cache[c] /\ dbFileVers[c] + 1 \in Counters
  BY <1>1, OpenedFacts DEF ConnInv, Counters
<1>3. /\ TypeInv' /\ FileInv' /\ ("power" \in faults' => DurableInv')
      /\ jcur'.hdr = "zero" /\ Covered(c)' /\ Untouched(c)'
      /\ dirty'[c] = dirty[c] \cup {1} /\ dbFileVers' = dbFileVers
      /\ cache'[c][1] = dbFileVers[c] + 1 /\ cur' = cur /\ Committed = cur /\ Committed' = cur
      /\ \A d \in Conns \ {c} : ConnInv(d)'
  BY <1>1, <1>2, PutChanges
<1>4. Numbered(c)'
  <2>1. dbFileVers[c] = Version(cur)
    BY <1>1, OpenedFacts
  <2>2. jcur'.size > 0 => Saved(jcur', 1)
    <3>1. jcur'.size = NPages(cur) /\ (1 <= jcur'.size => Saved(jcur', 1)) /\ NPages(cur) \in 0 .. MaxPage
      BY <1>1, <1>2, PutJournal, PageCount, Facts
    <3> QED  BY <1>1, <3>1
  <2> QED  BY <1>3, <2>1, <2>2 DEF Numbered, Version
<1>5. ConnInv(c)'
  BY <1>1, <1>3, <1>4 DEF ConnInv, Looking, Changing, Unwritten, Written, Playing
<1>6. LockInv'
  BY LockStep DEF Writing
<1> QED  BY <1>3, <1>5, <1>6 DEF IInv

------------------------------------------------------------------------------
(* Steps of a connection that is alone                                       *)

LEMMA AloneKeeps ==
    ASSUME IInv, NEW c \in Conns, Writing(c), level[c] = EXCLUSIVE_LOCK, lockVars' = lockVars,
           Committed' = Committed, TypeInv', ConnInv(c)',
           WellFormed(jcur'), WellFormed(jdisk'), Rooted(cur'),
           Valid(jcur') /\ jcur'.size > 0 => cur'[1] # Absent /\ Committed[1] # Absent,
           faults # {} => cur'[1] # Absent,
           "power" \in faults => DiskInv' /\ DurableAt(c)'
    PROVE  IInv'
<1>1. /\ Moved(c) /\ faults' = faults /\ FileInv /\ TypeInv
      /\ level' = level /\ reserver' = reserver
  BY WritingMoves DEF IInv, Moved, lockVars
<1>2. LockInv' /\ \A d \in Conns : ConnInv(d)'
  BY <1>1, LockStep, OthersOutside
<1>3. \A d \in reserver : ~ (level[d] < EXCLUSIVE_LOCK)
  <2>1. \A d \in reserver : HeldAt(d) /\ (d # c => level[d] = NO_LOCK)
    BY <1>1, ConnFacts DEF TypeInv
  <2> QED  BY <2>1 DEF HeldAt, NO_LOCK, RESERVED_LOCK, EXCLUSIVE_LOCK
<1>4. FileInv'
  BY <1>1, <1>3 DEF FileInv, Valid
<1>5. ASSUME "power" \in faults'
      PROVE  DurableInv'
  <2>1. ASSUME NEW d \in Conns \ {c}
        PROVE  DurableAt(d)'
    <3>1. at'[d] = "open"
      BY <1>1, ConnFacts DEF Moved
    <3> QED  BY <3>1 DEF DurableAt, Written, Playing
  <2> QED  BY <1>1, <1>5, <2>1 DEF DurableInv
<1> QED  BY <1>2, <1>4, <1>5 DEF IInv

\* What a connection that is alone knows before its step.
LEMMA AloneFacts ==
    ASSUME IInv, NEW c \in Conns, Writing(c), at[c] \in ExclusiveAt
    PROVE  /\ Moved(c) /\ level[c] = EXCLUSIVE_LOCK /\ ConnInv(c) /\ TypeInv /\ FileInv
           /\ at \in [Conns -> Points] /\ cur \in [Pages -> Contents]
           /\ Committed \in [Pages -> Contents] /\ 1 \in Pages
           /\ jcur \in Journals /\ WellFormed(jcur) /\ WellFormed(jdisk)
           /\ Rooted(cur) /\ Rooted(Committed) /\ Committed[1] \in Counters \cup {Absent}
           /\ Valid(jcur) /\ jcur.size > 0 => cur[1] # Absent /\ Committed[1] # Absent
           /\ faults # {} => cur[1] # Absent /\ Committed[1] # Absent
           /\ "power" \in faults => DiskInv /\ DurableAt(c)
           /\ (c \in reserver => at[c] # "reopen")
  BY ConnFacts, Facts, WritingMoves
     DEF IInv, DurableInv, FileInv, TypeInv, HeldAt, Changing, Unwritten, Written, Playing

\* Memory and locks stay; only files change.
LEMMA FilesType ==
    ASSUME TypeInv, NEW c \in Conns, Moved(c),
           cache' = cache, dirty' = dirty, dbFileVers' = dbFileVers,
           cur' \in [Pages -> Contents], disk' \in [Pages -> Contents],
           jcur' \in Journals, jdisk' \in Journals, linked' \in BOOLEAN
    PROVE  TypeInv'
  BY DEF TypeInv, Moved

LEMMA SyncRecordsKeeps ==
    ASSUME IInv, NEW c \in Conns, SyncRecords(c)
    PROVE  IInv'
<1>1. /\ at[c] = "sync_records" /\ Writing(c) /\ at[c] \in ExclusiveAt /\ at[c] \in Unwritten
      /\ jdisk' = jcur /\ linked' = TRUE /\ cur' = cur /\ disk' = disk /\ jcur' = jcur
      /\ lockVars' = lockVars
      /\ cache' = cache /\ dirty' = dirty /\ dbFileVers' = dbFileVers
  BY DEF SyncRecords, Go, Writing, ExclusiveAt, Unwritten, KeepFile, locals
<1>2. /\ ConnInv(c) /\ Committed = cur /\ jcur # NoFile /\ jcur.hdr = "zero"
      /\ Untouched(c) /\ Covered(c) /\ Numbered(c)
      /\ at \in [Conns -> Points] /\ at'[c] = "header" /\ Committed' = Committed
  BY <1>1, AloneFacts, UnwrittenIsCommitted, FilesSame
     DEF ConnInv, Changing, Unwritten, Written, SyncRecords, Go
<1>3. TypeInv'
  BY <1>1, AloneFacts, FilesType DEF TypeInv
<1>4. ConnInv(c)'
  <2>1. Covered(c)' /\ Untouched(c)' /\ Numbered(c)'
    BY <1>1, <1>2 DEF Covered, Untouched, Numbered, Written
  <2> QED  BY <1>1, <1>2, <2>1 DEF ConnInv, Changing, Unwritten, Written, Playing, Looking
<1>5. ASSUME "power" \in faults
      PROVE  DiskInv' /\ DurableAt(c)'
  <2>1. DiskInv /\ cur[1] # Absent /\ cur[1] \in Counters \cup {Absent}
    BY <1>1, <1>2, <1>5, AloneFacts
  <2>2. ~ Valid(jcur) /\ cur = disk /\ Recovered(disk, jcur) = disk
    BY <1>2, <2>1 DEF DiskInv, Valid, Recovered
  <2>3. DiskInv'
    BY <1>1, <1>2, <2>1, <2>2 DEF DiskInv, Settled
  <2> QED  BY <1>1, <1>2, <2>3 DEF DurableAt, Written, Playing
<1> QED  BY <1>1, <1>2, <1>3, <1>4, <1>5, AloneFacts, AloneKeeps

LEMMA WriteHeaderKeeps ==
    ASSUME IInv, NEW c \in Conns, WriteHeader(c)
    PROVE  IInv' /\ Committed' = Committed
<1>1. /\ at[c] = "header" /\ Writing(c) /\ at[c] \in ExclusiveAt /\ at[c] \in Unwritten
      /\ jcur' = [jcur EXCEPT !.hdr = "valid"] /\ jdisk' = jdisk /\ linked' = linked
      /\ cur' = cur /\ disk' = disk /\ lockVars' = lockVars
      /\ cache' = cache /\ dirty' = dirty /\ dbFileVers' = dbFileVers
  BY DEF WriteHeader, Go, Writing, ExclusiveAt, Unwritten, KeepFile, locals
<1>2. /\ ConnInv(c) /\ Committed = cur /\ jcur # NoFile /\ jcur.hdr = "zero"
      /\ Untouched(c) /\ Covered(c) /\ Numbered(c)
      /\ at \in [Conns -> Points] /\ at'[c] = "sync_header"
  BY <1>1, AloneFacts, UnwrittenIsCommitted
     DEF ConnInv, Changing, Unwritten, Written, WriteHeader, Go
<1>3. /\ jcur \in [hdr : {"zero", "valid"}, size : 0 .. MaxPage,
                   recs : Seq([pgno : Pages, data : Contents])]
      /\ jcur' \in [hdr : {"zero", "valid"}, size : 0 .. MaxPage,
                    recs : Seq([pgno : Pages, data : Contents])]
      /\ jcur'.hdr = "valid" /\ jcur'.size = jcur.size /\ jcur'.recs = jcur.recs
      /\ jcur = [jcur' EXCEPT !.hdr = jcur.hdr]
  BY <1>1, <1>2, AloneFacts, JournalFields
<1>4. /\ jcur' \in Journals /\ jcur' # NoFile /\ WellFormed(jcur') /\ Valid(jcur')
      /\ \A p : Saved(jcur', p) <=> Saved(jcur, p)
  BY <1>1, <1>2, <1>3, AloneFacts, SameRecords DEF Journals, NoFile, WellFormed, Valid
<1>5. Committed' = Committed
  <2>1. /\ jcur'.size = NPages(cur)
        /\ \A i \in DOMAIN jcur'.recs : jcur'.recs[i].data = cur[jcur'.recs[i].pgno]
    BY <1>2, <1>3 DEF Untouched
  <2> QED  BY <1>1, <1>2, <1>4, <2>1, AloneFacts, NothingToRestore DEF Committed
<1>6. TypeInv'
  BY <1>1, <1>4, AloneFacts, FilesType DEF TypeInv
<1>7. ConnInv(c)'
  <2>1. Covered(c)' /\ Untouched(c)' /\ Numbered(c)'
    BY <1>1, <1>2, <1>3, <1>4, <1>5 DEF Covered, Untouched, Numbered, Written
  <2> QED  BY <1>1, <1>2, <1>3, <2>1 DEF ConnInv, Changing, Unwritten, Written, Playing, Looking
<1>8. jcur'.size > 0 => cur'[1] # Absent
  <2>1. jcur'.size = NPages(cur) /\ NPages(cur) \in 0 .. MaxPage /\ MaxPage \in Nat
    BY <1>1, <1>2, <1>3, AloneFacts, PageCount, Facts DEF Untouched
  <2> QED  BY <1>1, <2>1, AloneFacts, FirstPageCounts
<1>9. ASSUME "power" \in faults
      PROVE  DiskInv' /\ DurableAt(c)'
  <2>1. DiskInv /\ linked /\ jdisk = jcur /\ ~ Valid(jcur)
    BY <1>1, <1>2, <1>9, AloneFacts DEF DurableAt, Valid
  <2>2. DiskInv'
    BY <1>1, <1>2, <1>3, <1>4, <2>1 DEF DiskInv, Settled
  <2> QED  BY <1>1, <1>2, <2>1, <2>2 DEF DurableAt, Written, Playing
<1> QED  BY <1>1, <1>2, <1>4, <1>5, <1>6, <1>7, <1>8, <1>9, AloneFacts, AloneKeeps

LEMMA SyncHeaderKeeps ==
    ASSUME IInv, NEW c \in Conns, SyncHeader(c)
    PROVE  IInv'
<1>1. /\ at[c] = "sync_header" /\ Writing(c) /\ at[c] \in ExclusiveAt /\ at[c] \in Unwritten
      /\ jdisk' = jcur /\ linked' = linked /\ jcur' = jcur /\ cur' = cur /\ disk' = disk
      /\ lockVars' = lockVars
      /\ cache' = cache /\ dirty' = dirty /\ dbFileVers' = dbFileVers
  BY DEF SyncHeader, Go, Writing, ExclusiveAt, Unwritten, KeepFile, locals
<1>2. /\ ConnInv(c) /\ Committed = cur /\ jcur # NoFile /\ Valid(jcur) /\ jcur.hdr = "valid"
      /\ Covered(c) /\ Numbered(c) /\ Committed' = Committed
      /\ at \in [Conns -> Points] /\ at'[c] = "dbmod"
  BY <1>1, AloneFacts, UnwrittenIsCommitted, FilesSame
     DEF ConnInv, Changing, Unwritten, Written, SyncHeader, Go, Valid
<1>3. TypeInv'
  BY <1>1, AloneFacts, FilesType DEF TypeInv
<1>4. ConnInv(c)'
  <2>1. Covered(c)' /\ Numbered(c)'
    BY <1>1, <1>2 DEF Covered, Numbered, Written
  <2> QED  BY <1>1, <1>2, <2>1 DEF ConnInv, Changing, Unwritten, Written, Playing, Looking
<1>5. ASSUME "power" \in faults
      PROVE  DiskInv' /\ DurableAt(c)'
  <2>1. DiskInv /\ ~ Valid(jdisk) /\ cur = disk /\ linked
        /\ Committed[1] \in Counters /\ cur[1] # Absent
    BY <1>1, <1>2, <1>5, AloneFacts DEF DurableAt, DiskInv
  <2>2. Recovered(disk, jcur) = Committed
    BY <2>1 DEF Committed
  <2>3. jcur = [jcur EXCEPT !.hdr = jcur.hdr]
    <3>1. jcur \in [hdr : {"zero", "valid"}, size : 0 .. MaxPage,
                   recs : Seq([pgno : Pages, data : Contents])]
      BY <1>1, <1>2, AloneFacts, JournalFields
    <3> QED  BY <3>1
  <2>4. DiskInv'
    BY <1>1, <1>2, <2>1, <2>2, <2>3 DEF DiskInv, Settled
  <2> QED  BY <1>1, <1>2, <2>4 DEF DurableAt, Written, Playing
<1> QED  BY <1>1, <1>2, <1>3, <1>4, <1>5, AloneFacts, AloneKeeps

LEMMA StorePageKeeps ==
    ASSUME IInv, NEW c \in Conns, StorePage(c)
    PROVE  IInv' /\ Committed' = Committed
<1> DEFINE p == Min(dirty[c])
           vers == IF p = 1 THEN cache[c][1] ELSE dbFileVers[c]
<1>1. /\ at[c] = "dbmod" /\ Writing(c) /\ at[c] \in ExclusiveAt /\ dirty[c] # {}
      /\ cur' = [cur EXCEPT ![p] = cache[c][p]] /\ dirty' = [dirty EXCEPT ![c] = dirty[c] \ {p}]
      /\ dbFileVers' = [dbFileVers EXCEPT ![c] = vers]
      /\ jdisk' = jdisk /\ linked' = linked /\ jcur' = jcur /\ disk' = disk
      /\ lockVars' = lockVars /\ at' = at /\ cache' = cache
  BY DEF StorePage, Writing, ExclusiveAt, Written, KeepJournal
<1>2. /\ ConnInv(c) /\ Valid(jcur) /\ jcur.hdr = "valid" /\ Covered(c) /\ Numbered(c)
      /\ dirty[c] \subseteq DOMAIN cache[c] /\ DOMAIN cache[c] \subseteq Pages
      /\ cache[c] \in [DOMAIN cache[c] -> Contents]
  BY <1>1, AloneFacts, ConnFacts DEF ConnInv, Changing, Written, Valid
<1>3. p \in dirty[c] /\ p \in Pages /\ p \in DOMAIN cache[c] /\ \A q \in dirty[c] : p <= q
  BY <1>1, <1>2, LeastPage
<1> HIDE DEF p
<1>4. /\ cur' \in [Pages -> Contents] /\ cur'[p] = cache[c][p]
      /\ \A q \in Pages \ {p} : cur'[q] = cur[q]
  BY <1>1, <1>2, <1>3, AloneFacts
<1>5. jcur.size \in Nat /\ jcur # NoFile /\ (~ (p > jcur.size) => Saved(jcur, p))
  <2>1. jcur.size \in Nat /\ jcur # NoFile /\ (p <= jcur.size => Saved(jcur, p))
    BY <1>1, <1>2, <1>3, AloneFacts, JournalFields DEF Covered
  <2> QED  BY <1>3, <2>1 DEF Pages
<1>6. Committed' = Committed
  <2>1. \A q \in Pages : ~ (q > jcur.size) /\ ~ Saved(jcur, q) => cur[q] = cur'[q]
    BY <1>4, <1>5
  <2>2. Recovered(cur, jcur) = Recovered(cur', jcur)
    BY <1>2, <2>1, SameRecovered
  <2> QED  BY <1>1, <2>2 DEF Committed
<1>7. cur'[1] = cache[c][1] /\ cur'[1] # Absent
  <2>1. p = 1 \/ 1 \notin dirty[c]
    BY <1>2, <1>3 DEF Pages
  <2>2. cache[c][1] \in Counters /\ 1 \in DOMAIN cache[c]
        /\ (1 \notin dirty[c] => cache[c][1] = cur[1])
    BY <1>2 DEF Covered
  <2>3. cur'[1] = cache[c][1]
    BY <1>2, <1>4, <2>1, <2>2, <1>3
  <2> QED  BY <2>2, <2>3, AbsentIsNone
<1>8. dbFileVers'[c] = vers /\ dirty'[c] = dirty[c] \ {p} /\ vers \in Counters
  BY <1>1, <1>2, AloneFacts DEF TypeInv, Covered
<1>9. TypeInv'
  <2>1. dirty' \in [Conns -> SUBSET Pages] /\ dbFileVers' \in [Conns -> Counters]
        /\ \A d \in Conns : dirty'[d] \subseteq DOMAIN cache'[d]
    BY <1>1, <1>8, AloneFacts DEF TypeInv
  <2> HIDE DEF vers
  <2> QED  BY <1>1, <1>4, <2>1, AloneFacts DEF TypeInv, Moved
<1>10. ConnInv(c)'
  <2>1. Covered(c)'
    <3>1. \A q \in DOMAIN cache[c] :
             IF q \in dirty[c] \ {p}
             THEN cache[c][q] \in Counters \cup Values /\ (q <= jcur.size => Saved(jcur, q))
             ELSE cache[c][q] = cur'[q]
      BY <1>2, <1>4 DEF Covered
    <3> QED  BY <1>1, <1>2, <1>8, <3>1 DEF Covered
  <2>2. Numbered(c)'
    BY <1>1, <1>2, <1>6, <1>8 DEF Numbered, Written
  <2> QED  BY <1>1, <1>2, <2>1, <2>2 DEF ConnInv, Changing, Unwritten, Written, Playing, Looking
<1>11. ASSUME "power" \in faults
      PROVE  DiskInv' /\ DurableAt(c)'
  <2>1. DiskInv /\ jdisk = jcur /\ DurableAt(c)
    BY <1>1, <1>2, <1>11, AloneFacts DEF DurableAt, Written
  <2>2. \A q \in Pages : q <= jdisk.size /\ ~ Saved(jdisk, q) => cur'[q] = disk[q]
    <3>1. \A q \in Pages : q <= jcur.size => ~ (q > jcur.size)
      BY <1>5 DEF Pages
    <3> QED  BY <1>2, <1>4, <1>5, <2>1, <3>1 DEF DiskInv
  <2>3. DiskInv'
    BY <1>1, <1>2, <2>1, <2>2 DEF DiskInv, Settled
  <2> QED  BY <1>1, <2>1, <2>3 DEF DurableAt
<1>12. Rooted(cur')
  BY <1>7 DEF Rooted
<1> HIDE DEF vers
<1> QED  BY <1>1, <1>6, <1>7, <1>9, <1>10, <1>11, <1>12, AloneFacts, AloneKeeps

LEMMA SyncFileKeeps ==
    ASSUME IInv, NEW c \in Conns, SyncFile(c)
    PROVE  IInv'
<1>1. /\ at[c] = "dbmod" /\ Writing(c) /\ at[c] \in ExclusiveAt /\ dirty[c] = {}
      /\ disk' = cur /\ jdisk' = jdisk /\ linked' = linked /\ jcur' = jcur /\ cur' = cur
      /\ lockVars' = lockVars
      /\ cache' = cache /\ dirty' = dirty /\ dbFileVers' = dbFileVers
  BY DEF SyncFile, Go, Writing, ExclusiveAt, Written, KeepJournal, locals
<1>2. /\ ConnInv(c) /\ Valid(jcur) /\ jcur.hdr = "valid" /\ Covered(c) /\ Numbered(c)
      /\ at \in [Conns -> Points] /\ at'[c] = "finished" /\ Committed' = Committed
  BY <1>1, AloneFacts, FilesSame DEF ConnInv, Changing, Written, Valid, SyncFile, Go
<1>3. TypeInv'
  BY <1>1, AloneFacts, FilesType DEF TypeInv
<1>4. ConnInv(c)'
  <2>1. Covered(c)' /\ Numbered(c)'
    BY <1>1, <1>2 DEF Covered, Numbered, Written
  <2> QED  BY <1>1, <1>2, <2>1 DEF ConnInv, Changing, Unwritten, Written, Playing, Looking
<1>5. ASSUME "power" \in faults
      PROVE  DiskInv' /\ DurableAt(c)'
  <2>1. DiskInv /\ jdisk = jcur /\ Committed[1] \in Counters /\ cur[1] # Absent
    BY <1>1, <1>2, <1>5, AloneFacts DEF DurableAt, Written
  <2>2. DiskInv'
    BY <1>1, <1>2, <2>1 DEF DiskInv, Settled, Committed
  <2> QED  BY <1>1, <1>2, <2>1, <2>2 DEF DurableAt, Written, Playing
<1> QED  BY <1>1, <1>2, <1>3, <1>4, <1>5, AloneFacts, AloneKeeps

------------------------------------------------------------------------------
(* Steps that roll a journal back                                            *)

LEMMA SyncHotJournalKeeps ==
    ASSUME IInv, NEW c \in Conns, SyncHotJournal(c)
    PROVE  IInv'
<1>1. /\ at[c] = "reopen" /\ Writing(c) /\ at[c] \in ExclusiveAt /\ jcur # NoFile
      /\ jdisk' = (IF linked THEN jcur ELSE jdisk) /\ linked' = linked /\ jcur' = jcur
      /\ cur' = cur /\ disk' = disk /\ lockVars' = lockVars /\ reserver' = reserver
      /\ cache' = [cache EXCEPT ![c] = << >>] /\ dirty' = dirty /\ dbFileVers' = dbFileVers
  BY DEF SyncHotJournal, Go, Writing, ExclusiveAt, KeepFile, SetCache, lockVars
<1>2. /\ ConnInv(c) /\ Kept(c) /\ Committed' = Committed /\ c \notin reserver
      /\ at \in [Conns -> Points] /\ at'[c] = "playback" /\ faults' = faults
      /\ cache'[c] = << >> /\ DOMAIN << >> = {} /\ dirty[c] = {}
  <2>1. ConnInv(c) /\ c \notin reserver /\ at \in [Conns -> Points] /\ faults' = faults
        /\ cache \in [Conns -> Caches]
    BY <1>1, AloneFacts DEF TypeInv, Moved
  <2>2. Kept(c)
    BY <1>1, <2>1 DEF ConnInv, Looking
  <2>3. Committed' = Committed
    BY <1>1, FilesSame
  <2> QED  BY <1>1, <2>1, <2>2, <2>3 DEF SyncHotJournal, Go, Kept
<1>3. TypeInv'
  <2>1. << >> \in Caches
    <3>1. << >> = [p \in {} |-> p]
      OBVIOUS
    <3> QED  BY <1>2, <3>1, CacheType
  <2>2. cache' \in [Conns -> Caches] /\ \A d \in Conns : dirty'[d] \subseteq DOMAIN cache'[d]
    BY <1>1, <1>2, <2>1, AloneFacts DEF TypeInv
  <2> QED  BY <1>1, <2>2, AloneFacts DEF TypeInv, Moved
<1>4. ConnInv(c)'
  <2>1. DOMAIN cache'[c] = {} /\ Kept(c)'
    BY <1>1, <1>2 DEF Kept
  <2> QED  BY <1>1, <1>2, <2>1 DEF ConnInv, Changing, Unwritten, Written, Playing, Looking
<1>5. ASSUME "power" \in faults
      PROVE  DiskInv' /\ DurableAt(c)'
  <2>1. DiskInv /\ Committed[1] \in Counters /\ cur[1] # Absent
    BY <1>1, <1>5, AloneFacts
  <2>2. CASE ~ linked
    <3>1. jdisk' = jdisk /\ ~ Valid(jcur)
      BY <1>1, <2>1, <2>2 DEF DiskInv
    <3>2. DiskInv'
      BY <1>1, <2>1, <3>1 DEF DiskInv, Settled
    <3> QED  BY <1>1, <1>2, <3>1, <3>2 DEF DurableAt, Written, Playing, Valid
  <2>3. CASE linked
    <3>1. jdisk' = jcur
      BY <1>1, <2>3
    <3>2. jcur = [jcur EXCEPT !.hdr = jcur.hdr]
      <4>1. jcur \in [hdr : {"zero", "valid"}, size : 0 .. MaxPage,
                     recs : Seq([pgno : Pages, data : Contents])]
        BY <1>1, AloneFacts, JournalFields
      <4> QED  BY <4>1
    <3>3. Recovered(disk, jcur)[1] \in Counters
      <4>1. CASE Valid(jdisk)
        BY <2>1, <2>3, <4>1 DEF DiskInv, Settled
      <4>2. CASE ~ Valid(jdisk)
        BY <2>1, <4>2 DEF DiskInv, Committed
      <4> QED  BY <4>1, <4>2
    <3>4. Valid(jcur) => \A p \in Pages : p <= jcur.size /\ ~ Saved(jcur, p) => cur[p] = disk[p]
      <4>1. CASE Valid(jdisk)
        BY <2>1, <2>3, <4>1 DEF DiskInv
      <4>2. CASE ~ Valid(jdisk)
        BY <2>1, <4>2 DEF DiskInv
      <4> QED  BY <4>1, <4>2
    <3>5. DiskInv'
      BY <1>1, <2>1, <2>3, <3>1, <3>2, <3>3, <3>4 DEF DiskInv, Settled
    <3> QED  BY <1>1, <1>2, <3>1, <3>5 DEF DurableAt, Written, Playing
  <2> QED  BY <2>2, <2>3
<1>6. WellFormed(jdisk')
  BY <1>1, AloneFacts
<1> QED  BY <1>1, <1>2, <1>3, <1>4, <1>5, <1>6, AloneFacts, AloneKeeps

\* A playback changes only pages of the file that the journal restores.
LEMMA PlaybackKeeps ==
    ASSUME IInv, NEW c \in Conns, Writing(c), at[c] \in {"playback", "restore"}, at'[c] = "restore",
           UNCHANGED <<disk, jcur, jdisk, linked, cache, dirty, dbFileVers, lockVars>>,
           cur' \in [Pages -> Contents], cur' = cur \/ Valid(jcur),
           Valid(jcur) => \A p \in Pages : ~ (p > jcur.size) /\ ~ Saved(jcur, p) => cur'[p] = cur[p],
           Rooted(cur'),
           Valid(jcur) /\ jcur.size > 0 => cur'[1] # Absent,
           Replayed(c)'
    PROVE  IInv' /\ Committed' = Committed
<1>1. /\ ConnInv(c) /\ Moved(c) /\ faults' = faults /\ reserver' = reserver
      /\ at[c] \in ExclusiveAt /\ at[c] \in Playing /\ jcur' = jcur /\ jdisk' = jdisk
      /\ linked' = linked /\ disk' = disk /\ lockVars' = lockVars
      /\ cache' = cache /\ dirty' = dirty /\ dbFileVers' = dbFileVers
  BY AloneFacts DEF Moved, lockVars, ExclusiveAt, Playing
<1>2. Committed' = Committed
  <2>1. CASE Valid(jcur)
    <3>1. Recovered(cur, jcur) = Recovered(cur', jcur)
      BY <2>1, SameRecovered
    <3> QED  BY <1>1, <3>1 DEF Committed
  <2>2. CASE ~ Valid(jcur)
    BY <1>1, <2>2, FilesSame
  <2> QED  BY <2>1, <2>2
<1>3. TypeInv'
  BY <1>1, AloneFacts, FilesType DEF TypeInv
<1>4. ConnInv(c)'
  <2>1. (Current(c)' <=> Current(c)) /\ (Kept(c)' <=> Kept(c))
    BY <1>1, <1>2 DEF Current, Kept, Agrees
  <2> QED  BY <1>1, <2>1 DEF ConnInv, Changing, Unwritten, Written, Playing, Looking
<1>5. faults # {} => cur'[1] # Absent
  <2>1. ASSUME Valid(jcur), faults # {}
        PROVE  jcur.size > 0
    <3>1. jcur.size \in Nat /\ MaxPage \in Nat
      BY <2>1, Facts, JournalFields
    <3>2. ~ (1 > jcur.size)
      BY <1>1, <2>1, AloneFacts, RecoveredPage DEF Committed
    <3> QED  BY <3>1, <3>2
  <2> QED  BY <1>1, <2>1, AloneFacts
<1>6. ASSUME "power" \in faults
      PROVE  DiskInv' /\ DurableAt(c)'
  <2>1. DiskInv /\ (Valid(jcur) => jdisk = jcur)
    BY <1>1, <1>6, AloneFacts DEF DurableAt
  <2>2. CASE Valid(jcur)
    <3>1. jcur.size \in Nat
      BY <2>2, Facts, JournalFields
    <3>2. \A p \in Pages : p <= jcur.size => ~ (p > jcur.size)
      BY <3>1 DEF Pages
    <3>3. DiskInv'
      BY <1>1, <2>1, <2>2, <3>2 DEF DiskInv, Settled
    <3> QED  BY <1>1, <2>1, <3>3 DEF DurableAt, Written, Playing
  <2>3. CASE ~ Valid(jcur)
    <3>1. DiskInv'
      BY <1>1, <2>1, <2>3 DEF DiskInv, Settled
    <3> QED  BY <1>1, <2>3, <3>1 DEF DurableAt, Written, Playing, Valid
  <2> QED  BY <2>2, <2>3
<1> QED  BY <1>1, <1>2, <1>3, <1>4, <1>5, <1>6, AloneFacts, AloneKeeps

LEMMA TruncateKeeps ==
    ASSUME IInv, NEW c \in Conns, Truncate(c)
    PROVE  IInv' /\ Committed' = Committed
<1> DEFINE f == [p \in Pages |-> IF p <= jcur.size THEN cur[p] ELSE Absent]
<1>1. /\ at[c] = "playback" /\ Writing(c) /\ at[c] \in ExclusiveAt
      /\ cur' = (IF Valid(jcur) THEN f ELSE cur) /\ todo' = [todo EXCEPT ![c] = 1]
      /\ UNCHANGED <<disk, jcur, jdisk, linked, cache, dirty, dbFileVers, lockVars>>
  BY DEF Truncate, Go, Writing, ExclusiveAt, Playing
<1>2. at'[c] = "restore" /\ todo'[c] = 1
  BY <1>1, AloneFacts DEF Truncate, Go, TypeInv
<1>3. Valid(jcur) => /\ jcur.size \in Nat /\ jcur # NoFile
                     /\ \A p \in Pages : p <= jcur.size <=> ~ (p > jcur.size)
  BY Facts, JournalFields DEF Pages
<1>4. cur' \in [Pages -> Contents]
  BY <1>1, AloneFacts DEF Contents
<1>5. Valid(jcur) => /\ \A p \in Pages : ~ (p > jcur.size) => cur'[p] = cur[p]
                     /\ \A p \in Pages : p > jcur.size => cur'[p] = Absent
  BY <1>1, <1>3
<1>6. Valid(jcur) /\ jcur.size > 0 => cur'[1] # Absent
  <2>1. Valid(jcur) /\ jcur.size > 0 => ~ (1 > jcur.size)
    BY <1>3
  <2> QED  BY <1>1, <1>5, <2>1, AloneFacts
<1>7. Rooted(cur')
  <2>1. CASE ~ Valid(jcur) \/ jcur.size > 0
    BY <1>1, <1>6, <2>1, AloneFacts DEF Rooted
  <2>2. CASE Valid(jcur) /\ ~ (jcur.size > 0)
    <3>1. \A p \in Pages : p > jcur.size
      BY <1>3, <2>2 DEF Pages
    <3>2. \A p \in Pages : cur'[p] = Absent
      BY <1>5, <2>2, <3>1
    <3> QED  BY <1>4, <3>2 DEF Rooted
  <2> QED  BY <2>1, <2>2
<1>8. Replayed(c)'
  <2>1. \A i \in DOMAIN jcur.recs : Valid(jcur) => ~ (i < 1)
    BY Facts, JournalFields, LenProperties
  <2> QED  BY <1>1, <1>2, <1>5, <2>1 DEF Replayed, Valid
<1> HIDE DEF f
<1> QED  BY <1>1, <1>2, <1>4, <1>5, <1>6, <1>7, <1>8, PlaybackKeeps

LEMMA RestorePageKeeps ==
    ASSUME IInv, NEW c \in Conns, RestorePage(c)
    PROVE  IInv' /\ Committed' = Committed
<1> DEFINE t == todo[c]
           r == jcur.recs[t]
<1>1. /\ at[c] = "restore" /\ Writing(c) /\ at[c] \in ExclusiveAt /\ at' = at
      /\ Valid(jcur) /\ t <= Len(jcur.recs)
      /\ cur' = [cur EXCEPT ![r.pgno] = r.data] /\ todo' = [todo EXCEPT ![c] = t + 1]
      /\ UNCHANGED <<disk, jcur, jdisk, linked, cache, dirty, dbFileVers, lockVars>>
  BY DEF RestorePage, HasRecord, Writing, ExclusiveAt, Playing
<1>2. Replayed(c) /\ t \in Nat /\ t > 0 /\ todo'[c] = t + 1
  BY <1>1, AloneFacts DEF ConnInv, Replayed, TypeInv
<1>3. /\ jcur # NoFile /\ jcur.size \in Nat /\ Len(jcur.recs) \in Nat
      /\ DOMAIN jcur.recs = 1 .. Len(jcur.recs)
      /\ \A i \in DOMAIN jcur.recs : jcur.recs[i].pgno \in Pages /\ jcur.recs[i].data \in Contents
  BY <1>1, Facts, JournalFields, LenProperties
<1>4. t \in DOMAIN jcur.recs /\ r.pgno \in Pages /\ r.data \in Contents
  BY <1>1, <1>2, <1>3
<1>5. /\ Saved(jcur, r.pgno) /\ Original(jcur, r.pgno) = r.data /\ r.pgno <= jcur.size
      /\ \A i \in DOMAIN jcur.recs : jcur.recs[i].pgno <= jcur.size
      /\ \A i \in DOMAIN jcur.recs : jcur.recs[i].pgno = r.pgno => i = t
  BY <1>3, <1>4, Facts, SavedIsRecord DEF WellFormed
<1> HIDE DEF r
<1>6. /\ cur' \in [Pages -> Contents] /\ cur'[r.pgno] = r.data
      /\ \A p \in Pages \ {r.pgno} : cur'[p] = cur[p]
  BY <1>1, <1>4, AloneFacts
<1>7. \A p \in Pages : ~ (p > jcur.size) /\ ~ Saved(jcur, p) => cur'[p] = cur[p]
  BY <1>5, <1>6
<1>8. cur'[1] # Absent
  <2>1. ~ (r.pgno > jcur.size) /\ jcur.size > 0
    BY <1>3, <1>4, <1>5 DEF Pages
  <2>2. cur[1] # Absent /\ Committed[1] # Absent /\ 1 \in Pages
    BY <1>1, <2>1, AloneFacts
  <2>3. Committed[r.pgno] = r.data
    BY <1>1, <1>4, <1>5, <2>1, RecoveredPage DEF Committed
  <2> QED  BY <1>6, <2>2, <2>3
<1>9. Replayed(c)'
  <2>1. \A p \in Pages : p > jcur.size => cur'[p] = Absent
    <3>1. \A p \in Pages : p > jcur.size => p # r.pgno
      BY <1>3, <1>4, <1>5 DEF Pages
    <3> QED  BY <1>1, <1>2, <1>6, <3>1 DEF Replayed
  <2>2. ASSUME NEW i \in DOMAIN jcur.recs, i < t + 1
        PROVE  cur'[jcur.recs[i].pgno] = jcur.recs[i].data
    <3>1. CASE i = t
      BY <1>6, <3>1 DEF r
    <3>2. CASE i # t
      <4>1. i < t
        BY <1>2, <1>3, <2>2, <3>2
      <4>2. jcur.recs[i].pgno # r.pgno /\ jcur.recs[i].pgno \in Pages
        BY <1>3, <1>5, <3>2
      <4> QED  BY <1>1, <1>2, <1>6, <4>1, <4>2 DEF Replayed
    <3> QED  BY <3>1, <3>2
  <2> QED  BY <1>1, <1>2, <2>1, <2>2 DEF Replayed, Valid
<1>10. Rooted(cur')
  BY <1>8 DEF Rooted
<1> QED  BY <1>1, <1>6, <1>7, <1>8, <1>9, <1>10, PlaybackKeeps

\* When every record is restored, the file is as it was committed.
LEMMA ReplayedIsCommitted ==
    ASSUME IInv, NEW c \in Conns, at[c] = "restore", ~ HasRecord(c)
    PROVE  cur = Committed
<1>1. /\ Replayed(c) /\ todo[c] \in Nat /\ jcur \in Journals /\ WellFormed(jcur)
      /\ cur \in [Pages -> Contents] /\ Committed \in [Pages -> Contents]
  BY ConnFacts, Facts DEF ConnInv
<1>2. CASE ~ Valid(jcur)
  BY <1>2, Facts
<1>3. CASE Valid(jcur)
  <2>1. jcur # NoFile /\ DOMAIN jcur.recs = 1 .. Len(jcur.recs) /\ Len(jcur.recs) \in Nat
    BY <1>1, <1>3, JournalFields, LenProperties
  <2>2. \A i \in DOMAIN jcur.recs : i < todo[c]
    BY <1>1, <1>3, <2>1 DEF HasRecord
  <2>3. \A p \in Pages : Saved(jcur, p) => Original(jcur, p) = cur[p]
    BY <1>1, <1>3, <2>1, <2>2, RecordOfSaved DEF Replayed
  <2>4. \A p \in Pages : Committed[p] = cur[p]
    BY <1>1, <1>3, <2>3, RecoveredPage DEF Committed, Replayed
  <2> QED  BY <1>1, <2>4
<1> QED  BY <1>2, <1>3

LEMMA SyncRestoredKeeps ==
    ASSUME IInv, NEW c \in Conns, SyncRestored(c)
    PROVE  IInv'
<1>1. /\ at[c] = "restore" /\ Writing(c) /\ at[c] \in ExclusiveAt /\ ~ HasRecord(c)
      /\ disk' = cur /\ jdisk' = jdisk /\ linked' = linked /\ jcur' = jcur /\ cur' = cur
      /\ lockVars' = lockVars /\ reserver' = reserver
      /\ cache' = cache /\ dirty' = dirty /\ dbFileVers' = dbFileVers
  BY DEF SyncRestored, Go, Writing, ExclusiveAt, Playing, KeepJournal, lockVars
<1>2. /\ ConnInv(c) /\ at \in [Conns -> Points] /\ at'[c] = "restored" /\ faults' = faults
      /\ cur = Committed /\ Committed' = Committed
  BY <1>1, AloneFacts, ReplayedIsCommitted, FilesSame DEF SyncRestored, Go, Moved
<1>3. TypeInv'
  BY <1>1, AloneFacts, FilesType DEF TypeInv
<1>4. ConnInv(c)'
  <2>1. (Current(c)' <=> Current(c)) /\ (Kept(c)' <=> Kept(c))
    BY <1>1, <1>2 DEF Current, Kept, Agrees
  <2> QED  BY <1>1, <1>2, <2>1 DEF ConnInv, Changing, Unwritten, Written, Playing, Looking
<1>5. ASSUME "power" \in faults
      PROVE  DiskInv' /\ DurableAt(c)'
  <2>1. /\ DiskInv /\ (Valid(jcur) => jdisk = jcur)
        /\ Committed[1] \in Counters /\ cur[1] # Absent
    BY <1>1, <1>5, AloneFacts DEF DurableAt, Playing
  <2>2. Recovered(cur, jdisk)[1] \in Counters
    <3>1. CASE Valid(jcur)
      BY <2>1, <3>1 DEF Committed
    <3>2. CASE ~ Valid(jcur)
      BY <2>1, <3>2 DEF DiskInv, Settled
    <3> QED  BY <3>1, <3>2
  <2>3. DiskInv'
    BY <1>1, <2>1, <2>2 DEF DiskInv, Settled
  <2> QED  BY <1>1, <1>2, <2>1, <2>3 DEF DurableAt, Written, Playing
<1> QED  BY <1>1, <1>2, <1>3, <1>4, <1>5, AloneFacts, AloneKeeps

LEMMA WritingKeeps ==
    ASSUME IInv, NEW c \in Conns, Writing(c)
    PROVE  IInv'
  BY DeleteRemnantKeeps, SyncHotJournalKeeps, TruncateKeeps, RestorePageKeeps, SyncRestoredKeeps,
     EndPlaybackKeeps, CreateDatabaseKeeps, WritePageKeeps, IncrChangeCounterKeeps, SyncRecordsKeeps,
     WriteHeaderKeeps, SyncHeaderKeeps, StorePageKeeps, SyncFileKeeps, FinishKeeps,
     RollbackMemoryKeeps DEF Writing

------------------------------------------------------------------------------
(* Crashes                                                                   *)

LEMMA ForgetMoves ==
    ASSUME TypeInv, NEW cs \in SUBSET Conns, Forget(cs)
    PROVE  /\ at' \in [Conns -> Points] /\ cache' \in [Conns -> Caches]
           /\ dirty' \in [Conns -> SUBSET Pages] /\ dbFileVers' \in [Conns -> Counters]
           /\ todo' \in [Conns -> Nat] /\ level' \in [Conns -> LockLevels]
           /\ reserver' = reserver \ cs /\ faults' = faults
           /\ \A d \in cs : /\ at'[d] = "open" /\ dirty'[d] = {} /\ DOMAIN cache'[d] = {}
                           /\ dbFileVers'[d] = 0 /\ level'[d] = NO_LOCK
           /\ \A d \in Conns \ cs :
                /\ at'[d] = at[d] /\ level'[d] = level[d] /\ cache'[d] = cache[d]
                /\ dirty'[d] = dirty[d] /\ dbFileVers'[d] = dbFileVers[d] /\ todo'[d] = todo[d]
<1>1. << >> \in Caches /\ DOMAIN << >> = {} /\ 0 \in Counters
  <2>1. DOMAIN << >> = {} /\ << >> = [p \in {} |-> p]
    OBVIOUS
  <2>2. 0 \in Counters
    BY BoundsAssumption DEF Counters
  <2> QED  BY <2>1, <2>2, CacheType
<1> QED  BY <1>1 DEF Forget, Drop, TypeInv, Points, LockLevels, NO_LOCK, EXCLUSIVE_LOCK

LEMMA ForgetLocks ==
    ASSUME IInv, NEW cs \in SUBSET Conns, Forget(cs)
    PROVE  LockInv'
<1>1. /\ LockInv /\ reserver' = reserver \ cs
      /\ \A d \in cs : at'[d] = "open" /\ level'[d] = NO_LOCK
      /\ \A d \in Conns \ cs : at'[d] = at[d] /\ level'[d] = level[d]
  BY ForgetMoves DEF IInv
<1>2. ASSUME NEW d \in Conns
      PROVE  HeldAt(d)'
  <2>1. CASE d \in cs
    BY <1>1, <2>1
       DEF HeldAt, SharedAt, ReservedAt, ExclusiveAt, Playing, Changing, Unwritten, Written
  <2>2. CASE d \notin cs
    BY <1>1, <2>2 DEF HeldAt, LockInv
  <2> QED  BY <2>1, <2>2
<1> QED  BY <1>1, <1>2 DEF LockInv, NO_LOCK, EXCLUSIVE_LOCK

LEMMA KillKeeps ==
    ASSUME IInv, NEW p, Kill(p)
    PROVE  IInv'
<1> DEFINE cs == {c \in Conns : pid[c] = p}
<1>1. /\ Forget(cs) /\ cs \in SUBSET Conns /\ TypeInv /\ FileInv
      /\ cur' = cur /\ jcur' = jcur /\ disk' = disk /\ jdisk' = jdisk /\ linked' = linked
  BY DEF Kill, KeepFiles, files, IInv
<1> HIDE DEF cs
<1>2. /\ at' \in [Conns -> Points] /\ cache' \in [Conns -> Caches]
      /\ dirty' \in [Conns -> SUBSET Pages] /\ dbFileVers' \in [Conns -> Counters]
      /\ todo' \in [Conns -> Nat] /\ level' \in [Conns -> LockLevels]
      /\ reserver' = reserver \ cs /\ faults' = faults
      /\ \A d \in cs : /\ at'[d] = "open" /\ dirty'[d] = {} /\ DOMAIN cache'[d] = {}
                      /\ dbFileVers'[d] = 0 /\ level'[d] = NO_LOCK
      /\ \A d \in Conns \ cs :
            /\ at'[d] = at[d] /\ level'[d] = level[d] /\ cache'[d] = cache[d]
            /\ dirty'[d] = dirty[d] /\ dbFileVers'[d] = dbFileVers[d] /\ todo'[d] = todo[d]
  BY <1>1, ForgetMoves
<1>3. TypeInv'
  BY <1>1, <1>2 DEF TypeInv
<1>4. LockInv'
  BY <1>1, ForgetLocks
<1>5. FileInv'
  BY <1>1, <1>2, FilesSame DEF FileInv, TypeInv
<1>6. ASSUME NEW d \in Conns
      PROVE  ConnInv(d)'
  <2>1. CASE d \in cs
    <3>1. Kept(d)'
      BY <1>2, <2>1 DEF Kept
    <3> QED  BY <1>2, <2>1, <3>1 DEF ConnInv, Looking, Changing, Unwritten, Written, Playing
  <2>2. CASE d \notin cs
    BY <1>1, <1>2, <2>2, AsBefore
  <2> QED  BY <2>1, <2>2
<1>7. ASSUME "power" \in faults'
      PROVE  DurableInv'
  <2>1. DiskInv /\ \A d \in Conns : DurableAt(d)
    BY <1>2, <1>7 DEF IInv, DurableInv
  <2>2. DiskInv'
    BY <1>1, <2>1 DEF DiskInv, Settled
  <2>3. ASSUME NEW d \in Conns
        PROVE  DurableAt(d)'
    <3>1. at'[d] = "open" \/ at'[d] = at[d]
      BY <1>2
    <3> QED  BY <1>1, <2>1, <3>1 DEF DurableAt, Written, Playing
  <2> QED  BY <2>2, <2>3 DEF DurableInv
<1> QED  BY <1>3, <1>4, <1>5, <1>6, <1>7 DEF IInv

\* A loss of power leaves the content committed last or the settled one.
LEMMA PowerLeaves ==
    ASSUME IInv, "power" \in faults, NEW f \in FilesLeft, NEW j \in JournalsLeft
    PROVE  /\ f \in [Pages -> Contents] /\ f[1] # Absent
           /\ j \in Journals /\ WellFormed(j)
           /\ Recovered(f, j) \in {Committed, Settled}
<1>1. /\ DiskInv /\ TypeInv /\ FileInv /\ 1 \in Pages /\ MaxPage \in Nat
      /\ jcur \in Journals /\ jdisk \in Journals /\ WellFormed(jcur) /\ WellFormed(jdisk)
      /\ cur[1] # Absent /\ disk[1] # Absent
  BY Facts DEF IInv, TypeInv, FileInv, DurableInv, DiskInv
<1>2. /\ f \in [Pages -> Contents]
      /\ \A p \in Pages : f[p] \in IF cur[p] = disk[p] THEN {cur[p]} ELSE {cur[p], disk[p], Junk}
  BY DEF FilesLeft
<1>3. f[1] # Absent
  BY <1>1, <1>2, AbsentIsNone
<1>4. ~ Valid(jcur) \/ ~ Valid(jdisk) => f = cur /\ cur = disk
  <2>1. ~ Valid(jcur) \/ ~ Valid(jdisk) => cur = disk
    BY <1>1 DEF DiskInv
  <2> QED  BY <1>1, <1>2, <2>1 DEF TypeInv
<1> DEFINE zero == Journal("zero", 0, << >>)
           bare == [jcur EXCEPT !.recs = << >>]
<1>5. zero \in Journals /\ WellFormed(zero) /\ ~ Valid(zero) /\ ~ Valid(NoFile) /\ WellFormed(NoFile)
  <2>1. << >> \in Seq([pgno : Pages, data : Contents]) /\ DOMAIN << >> = {}
    OBVIOUS
  <2> QED  BY <1>1, <2>1 DEF Journal, Journals, WellFormed, Valid, NoFile
<1>6. \/ j = zero
      \/ j = jdisk /\ j.hdr # "zero"
      \/ linked /\ j = jcur /\ j.hdr # "zero"
      \/ ~ linked /\ j = NoFile
      \/ linked /\ jdisk.recs # jcur.recs /\ j = bare /\ j.hdr # "zero"
  <2> HIDE DEF zero, bare
  <2> QED  BY DEF JournalsLeft, zero, bare
<1>7. linked => jcur # NoFile /\ jdisk # NoFile
  BY <1>1 DEF DiskInv
<1>8. ~ (linked /\ jdisk.recs # jcur.recs /\ j = bare /\ j.hdr # "zero")
  <2>1. SUFFICES ASSUME linked, jdisk.recs # jcur.recs, j = bare, j.hdr # "zero"
                 PROVE  FALSE
    OBVIOUS
  <2>2. jcur \in [hdr : {"zero", "valid"}, size : 0 .. MaxPage,
                 recs : Seq([pgno : Pages, data : Contents])]
    BY <1>1, <1>7, <2>1, JournalFields
  <2>3. jcur.hdr = "valid"
    BY <2>1, <2>2
  <2>4. jdisk = [jcur EXCEPT !.hdr = jdisk.hdr]
    BY <1>1, <2>3 DEF DiskInv, Valid
  <2>5. jdisk.recs = jcur.recs
    BY <2>2, <2>4
  <2> QED  BY <2>1, <2>5
<1>9. j \in Journals /\ WellFormed(j)
  <2> HIDE DEF zero, bare
  <2> QED  BY <1>1, <1>5, <1>6, <1>8 DEF Journals
<1>10. Recovered(f, j) \in {Committed, Settled}
  <2> HIDE DEF zero, bare
  <2>1. CASE Valid(jcur) /\ Valid(jdisk)
    <3>1. linked /\ jcur = jdisk
      BY <1>1, <2>1 DEF DiskInv
    <3>2. jdisk.hdr = "valid" /\ jdisk # NoFile /\ jdisk.size \in Nat
      BY <1>1, <2>1, JournalFields DEF Valid
    <3>3. CASE j = jdisk
      <4>1. \A p \in Pages : ~ (p > jdisk.size) => p <= jdisk.size
        BY <3>2 DEF Pages
      <4>2. \A p \in Pages : ~ (p > jdisk.size) /\ ~ Saved(jdisk, p) => f[p] = disk[p]
        BY <1>1, <1>2, <2>1, <4>1 DEF DiskInv
      <4>3. Recovered(f, jdisk) = Recovered(disk, jdisk)
        BY <2>1, <4>2, SameRecovered
      <4> QED  BY <3>3, <4>3 DEF Settled
    <3>4. j # zero
      <4>1. SUFFICES ASSUME j = zero
                     PROVE  FALSE
        OBVIOUS
      <4> QED  BY <1>8, <2>1, <3>1, <3>2, <4>1 DEF JournalsLeft, zero, Journal
    <3> QED  BY <1>6, <1>8, <3>1, <3>3, <3>4
  <2>2. CASE ~ Valid(jcur) \/ ~ Valid(jdisk)
    <3>1. f = cur /\ cur = disk
      BY <1>4, <2>2
    <3>2. CASE ~ Valid(j)
      <4>1. Recovered(f, j) = cur
        BY <3>1, <3>2 DEF Recovered
      <4> QED  BY <2>2, <3>1, <4>1 DEF Committed, Settled, Recovered
    <3>3. CASE Valid(j)
      <4>1. j = jdisk \/ j = jcur
        BY <1>5, <1>6, <1>8, <3>3
      <4> QED  BY <3>1, <4>1 DEF Committed, Settled
    <3> QED  BY <3>2, <3>3
  <2> QED  BY <2>1, <2>2
<1> QED  BY <1>2, <1>3, <1>9, <1>10

LEMMA PowerLossKeeps ==
    ASSUME IInv, PowerLoss
    PROVE  IInv'
<1>1. /\ "power" \in faults /\ cur' \in FilesLeft /\ jcur' \in JournalsLeft
      /\ disk' = cur' /\ jdisk' = jcur' /\ linked' = (jcur' # NoFile)
      /\ Forget(Conns) /\ TypeInv /\ FileInv /\ DiskInv
  BY DEF PowerLoss, IInv, DurableInv
<1>2. /\ at' \in [Conns -> Points] /\ cache' \in [Conns -> Caches]
      /\ dirty' \in [Conns -> SUBSET Pages] /\ dbFileVers' \in [Conns -> Counters]
      /\ todo' \in [Conns -> Nat] /\ level' \in [Conns -> LockLevels]
      /\ reserver' = {} /\ faults' = faults
      /\ \A d \in Conns : /\ at'[d] = "open" /\ dirty'[d] = {} /\ DOMAIN cache'[d] = {}
                         /\ dbFileVers'[d] = 0
  BY <1>1, ForgetMoves DEF TypeInv
<1>3. /\ cur' \in [Pages -> Contents] /\ cur'[1] # Absent
      /\ jcur' \in Journals /\ WellFormed(jcur')
      /\ Committed' \in {Committed, Settled}
  BY <1>1, PowerLeaves DEF Committed
<1>4. Committed'[1] \in Counters /\ Committed'[1] # Absent
  BY <1>1, <1>3, AbsentIsNone DEF FileInv, DiskInv
<1>5. TypeInv'
  BY <1>1, <1>2, <1>3 DEF TypeInv
<1>6. LockInv'
  BY <1>1, ForgetLocks
<1>7. FileInv'
  BY <1>1, <1>2, <1>3, <1>4 DEF FileInv, Rooted
<1>8. ASSUME NEW d \in Conns
      PROVE  ConnInv(d)'
  <2>1. Kept(d)'
    BY <1>2 DEF Kept
  <2> QED  BY <1>2, <2>1 DEF ConnInv, Looking, Changing, Unwritten, Written, Playing
<1>9. DurableInv'
  <2>1. Settled' = Committed'
    BY <1>1 DEF Settled, Committed
  <2>2. Valid(jcur') => jcur' # NoFile /\ jcur' = [jcur' EXCEPT !.hdr = jcur'.hdr]
    <3>1. Valid(jcur') => jcur' \in [hdr : {"zero", "valid"}, size : 0 .. MaxPage,
                                    recs : Seq([pgno : Pages, data : Contents])]
      BY <1>3, JournalFields
    <3> QED  BY <1>3, <3>1, JournalFields
  <2>3. DiskInv'
    BY <1>1, <1>3, <1>4, <2>1, <2>2 DEF DiskInv, Valid
  <2>4. \A d \in Conns : DurableAt(d)'
    BY <1>2 DEF DurableAt, Written, Playing
  <2> QED  BY <2>3, <2>4 DEF DurableInv
<1> QED  BY <1>5, <1>6, <1>7, <1>8, <1>9 DEF IInv

------------------------------------------------------------------------------
(* The invariant holds                                                       *)

LEMMA InitIInv ==
    ASSUME Init
    PROVE  IInv
<1>1. PICK s \in Starts : cur = s.file /\ faults = s.faults
  BY DEF Init
<1>2. /\ cur \in [Pages -> Contents] /\ faults \subseteq {"io", "power"}
      /\ \/ cur[1] \in Counters
         \/ cur = [p \in Pages |-> Absent] /\ faults = {}
      /\ 1 \in Pages /\ 0 \in Counters
  BY <1>1, StartsAssumption, BoundsAssumption DEF Pages, Counters
<1>3. /\ disk = cur /\ jcur = NoFile /\ jdisk = NoFile /\ linked = FALSE
      /\ at = [c \in Conns |-> "open"] /\ cache = [c \in Conns |-> << >>]
      /\ dirty = [c \in Conns |-> {}] /\ dbFileVers = [c \in Conns |-> 0]
      /\ todo = [c \in Conns |-> 0]
      /\ level = [c \in Conns |-> NO_LOCK] /\ reserver = {}
  BY DEF Init, LockInit
<1>4. ~ Valid(NoFile) /\ WellFormed(NoFile) /\ NoFile \in Journals
  BY DEF Valid, NoFile, WellFormed, Journals
<1>5. Committed = cur /\ Settled = cur
  BY <1>3, <1>4 DEF Committed, Settled, Recovered
<1>6. TypeInv
  <2>1. << >> \in Caches /\ DOMAIN << >> = {}
    <3>1. DOMAIN << >> = {} /\ << >> = [p \in {} |-> p]
      OBVIOUS
    <3> QED  BY <3>1, CacheType
  <2>2. at \in [Conns -> Points] /\ level \in [Conns -> LockLevels]
    BY <1>3 DEF Points, LockLevels, NO_LOCK, EXCLUSIVE_LOCK
  <2>3. cache \in [Conns -> Caches] /\ dirty \in [Conns -> SUBSET Pages]
        /\ \A c \in Conns : dirty[c] \subseteq DOMAIN cache[c]
    BY <1>3, <2>1
  <2>4. dbFileVers \in [Conns -> Counters] /\ todo \in [Conns -> Nat]
    BY <1>2, <1>3
  <2> QED  BY <1>2, <1>3, <1>4, <2>2, <2>3, <2>4 DEF TypeInv
<1>7. LockInv
  BY <1>3 DEF LockInv, HeldAt, SharedAt, ReservedAt, ExclusiveAt, Playing, Changing, Unwritten,
              Written, NO_LOCK, EXCLUSIVE_LOCK
<1>8. FileInv
  <2>1. Rooted(cur)
    BY <1>2, AbsentIsNone DEF Rooted
  <2> QED  BY <1>2, <1>3, <1>4, <1>5, <2>1, AbsentIsNone DEF FileInv
<1>9. ASSUME NEW c \in Conns
      PROVE  ConnInv(c)
  <2>1. DOMAIN cache[c] = {} /\ dirty[c] = {} /\ dbFileVers[c] = 0 /\ at[c] = "open"
    BY <1>3
  <2> QED  BY <2>1 DEF ConnInv, Kept, Looking, Changing, Unwritten, Written, Playing
<1>10. "power" \in faults => DurableInv
  BY <1>2, <1>3, <1>4, <1>5, AbsentIsNone DEF DurableInv, DiskInv, DurableAt, Written, Playing
<1> QED  BY <1>6, <1>7, <1>8, <1>9, <1>10 DEF IInv

LEMMA StutterKeeps ==
    ASSUME IInv, UNCHANGED vars
    PROVE  IInv'
<1>1. /\ cur' = cur /\ disk' = disk /\ jcur' = jcur /\ jdisk' = jdisk /\ linked' = linked
      /\ cache' = cache /\ dirty' = dirty /\ dbFileVers' = dbFileVers /\ todo' = todo
      /\ at' = at /\ faults' = faults /\ level' = level /\ reserver' = reserver
  BY DEF vars, files, locals, lockVars
<1>2. TypeInv' /\ LockInv'
  BY <1>1 DEF IInv, TypeInv, LockInv, HeldAt
<1>3. FileInv'
  BY <1>1, FilesSame DEF IInv, FileInv
<1>4. \A c \in Conns : ConnInv(c)'
  BY <1>1, AsBefore
<1>5. "power" \in faults' => DurableInv'
  BY <1>1 DEF IInv, DurableInv, DiskInv, DurableAt, Settled
<1> QED  BY <1>2, <1>3, <1>4, <1>5 DEF IInv

LEMMA NextKeeps ==
    ASSUME IInv, NoneIgnored, [Next]_vars
    PROVE  IInv'
  BY NextIs, PassingKeeps, CachingKeeps, WritingKeeps, KillKeeps, PowerLossKeeps, StutterKeeps

(* The invariant of the journal: whatever steps connections take between     *)
(* each other and whatever fails, file and journal are together worth one    *)
(* content, connections know of it what their place needs, and so do the     *)
(* parts that survive a loss of power.  The hypothesis excludes the one      *)
(* mistake of unixCheckReservedLock that HotIgnored.cfg finds.               *)
THEOREM JournalInvariant == Spec /\ []NoneIgnored => []IInv
<1>1. Init => IInv
  BY InitIInv
<1>2. IInv /\ NoneIgnored /\ [Next]_vars => IInv'
  BY NextKeeps
<1> QED  BY <1>1, <1>2, PTL DEF Spec

------------------------------------------------------------------------------
(* When no hot journal is ignored                                            *)

OneConnectionEach == \A c, d \in Conns : pid[c] = pid[d] => c = d

(* A connection never takes the wait of another one for a reservation if it  *)
(* has its process to itself (unixCheckReservedLock).                        *)
THEOREM NoneIgnoredApart == OneConnectionEach /\ Spec => []NoneIgnored
<1>1. OneConnectionEach => NoneIgnored
  BY DEF OneConnectionEach, NoneIgnored, Ignores, Fellows, Others
<1>2. OneConnectionEach /\ [Next]_vars => OneConnectionEach'
  BY DEF OneConnectionEach
<1> QED  BY <1>1, <1>2, PTL DEF Spec

Death == PowerLoss \/ \E p \in {pid[c] : c \in Conns} : Kill(p)

\* A journal that says how to go back is that of a writer at work.
Attended ==
    /\ "io" \notin faults
    /\ Valid(jcur) => \E w \in Conns : at[w] \in {"sync_header"} \cup Written

LEMMA AttendedStep ==
    ASSUME IInv, Attended, [Next]_vars, [~ Death]_vars
    PROVE  Attended'
<1>1. /\ at \in [Conns -> Points] /\ jcur \in Journals /\ ~ Valid(NoFile)
      /\ \A size, recs : ~ Valid(Journal("zero", size, recs))
  BY DEF IInv, TypeInv, Valid, NoFile, Journal
<1>2. ASSUME NEW c \in Conns, Passing(c) \/ Caching(c)
      PROVE  Attended'
  <2>1. jcur' = jcur /\ faults' = faults
    BY <1>2, PassingMoves, CachingMoves DEF IInv, files, Moved
  <2>2. ASSUME NEW w \in Conns, at[w] \in {"sync_header"} \cup Written
        PROVE  at'[w] = at[w]
    <3>1. CASE w # c
      BY <1>2, <3>1, PassingMoves, CachingMoves DEF IInv, Moved
    <3>2. CASE w = c
      BY <1>1, <1>2, <2>2, <3>2
         DEF Attended, Written, Unwritten, Go, Passing, Caching, GetShared, FindJournal,
             CheckReserved, CheckSize, ReserveRemnant, LeaveRemnant, ReadFirstByte, LockHot,
             HotPending, HotBusy, HotGone, EndRead, BeginWrite, EndUnwritten, LockForCommit,
             CommitBusy, UnlinkFails, RollbackFails, ValidateCache, ReadPage, RollbackFile, ClearError
    <3> QED  BY <3>1, <3>2
  <2> QED  BY <2>1, <2>2 DEF Attended, Valid
<1>3. ASSUME NEW c \in Conns, Writing(c)
      PROVE  Attended'
  <2>1. at[c] # "open" /\ faults' = faults
    BY <1>3, WritingMoves
       DEF IInv, Moved, Go, Written, Unwritten, Writing, DeleteRemnant, SyncHotJournal, Truncate,
           RestorePage, SyncRestored, EndPlayback, CreateDatabase, WritePage, IncrChangeCounter,
           SyncRecords, WriteHeader, SyncHeader, StorePage, SyncFile, Finish, RollbackMemory
  <2>2. Valid(jcur) => at[c] \in {"sync_header"} \cup Written
    <3>1. ASSUME NEW w \in Conns, at[w] \in {"sync_header"} \cup Written, w # c
          PROVE  FALSE
      <4>1. level[w] = EXCLUSIVE_LOCK
        BY <3>1, ConnFacts DEF HeldAt, ExclusiveAt
      <4> QED  BY <2>1, <3>1, <4>1, ConnFacts
    <3> QED  BY <3>1 DEF Attended
  <2>3. CASE DeleteRemnant(c) \/ EndPlayback(c) \/ Finish(c) \/ RollbackMemory(c)
    BY <1>1, <2>1, <2>3 DEF Attended, DeleteRemnant, EndPlayback, Finish, RollbackMemory, Unlink
  <2>4. CASE SyncHotJournal(c) \/ Truncate(c) \/ RestorePage(c) \/ SyncRestored(c) \/ SyncRecords(c)
    BY <2>1, <2>2, <2>4
       DEF Attended, Written, Go, SyncHotJournal, Truncate, RestorePage, SyncRestored, SyncRecords,
           KeepJournal
  <2>5. CASE WriteHeader(c) \/ SyncHeader(c) \/ StorePage(c) \/ SyncFile(c)
    BY <1>1, <2>1, <2>5
       DEF Attended, Written, Go, WriteHeader, SyncHeader, StorePage, SyncFile, KeepJournal
  <2>6. ASSUME NEW p, NEW v, Put(c, p, v), at[c] \in {"locked", "cachemod", "counted"}
        PROVE  Attended'
    <3>1. ~ Valid(jcur)
      BY <2>2, <2>6 DEF Written
    <3>2. jcur # NoFile \/ at[c] = "locked"
      BY <2>6, ConnFacts DEF ConnInv, Changing, Unwritten, Written, NoFile
    <3>3. ~ Valid(jcur')
      <4> DEFINE opened == IF at[c] = "locked" THEN Journal("zero", NPages(cur), << >>) ELSE jcur
      <4>1. opened.hdr # "valid"
        BY <3>1 DEF Journal, Valid
      <4>2. opened = [hdr |-> opened.hdr, size |-> opened.size, recs |-> opened.recs]
        BY <1>1, <3>2, JournalFields DEF Journal
      <4>3. \A recs : [opened EXCEPT !.recs = recs].hdr = opened.hdr
        <5> HIDE DEF opened
        <5> QED  BY <4>2
      <4>4. jcur' = opened \/ \E recs : jcur' = [opened EXCEPT !.recs = recs]
        BY <2>6 DEF Put
      <4> HIDE DEF opened
      <4> QED  BY <4>1, <4>3, <4>4 DEF Valid
    <3> QED  BY <2>1, <3>3 DEF Attended
  <2>7. CASE \/ CreateDatabase(c) \/ IncrChangeCounter(c)
             \/ \E p \in Pages, v \in Values : WritePage(c, p, v)
    BY <2>6, <2>7 DEF CreateDatabase, IncrChangeCounter, WritePage, Go
  <2> QED  BY <1>3, <2>3, <2>4, <2>5, <2>7 DEF Writing
<1>4. CASE UNCHANGED vars
  BY <1>4 DEF vars, files, locals, Attended, Valid
<1>5. CASE UNCHANGED vars \/ \E c \in Conns : Passing(c) \/ Caching(c) \/ Writing(c)
  BY <1>2, <1>3, <1>4, <1>5
<1> QED  BY <1>4, <1>5, NextIs DEF Death

LEMMA AttendedHeeded ==
    ASSUME IInv, Attended
    PROVE  NoneIgnored
<1> SUFFICES ASSUME NEW c \in Conns, at[c] = "reserved", Valid(jcur)
             PROVE  FALSE
  BY DEF NoneIgnored, Ignores
<1>1. PICK w \in Conns : at[w] \in {"sync_header"} \cup Written
  BY DEF Attended
<1>2. level[w] = EXCLUSIVE_LOCK /\ w # c
  BY <1>1, ConnFacts DEF HeldAt, ExclusiveAt, Written
<1> QED  BY <1>2, ConnFacts

(* Nor does it as long as no process dies, power lasts and no write, sync or *)
(* unlinking fails, however many connections a process has: a journal that   *)
(* says how to go back then belongs to a writer that holds EXCLUSIVE         *)
(* (hasHotJournal).                                                          *)
THEOREM NoneIgnoredInPeace ==
    Spec /\ "io" \notin faults /\ [][~ Death]_vars => []NoneIgnored
<1>1. Init /\ "io" \notin faults => IInv /\ Attended
  <2>1. Init => ~ Valid(jcur)
    BY DEF Init, Valid, NoFile
  <2> QED  BY <2>1, InitIInv DEF Attended
<1>2. IInv /\ Attended /\ [Next]_vars /\ [~ Death]_vars => IInv' /\ Attended'
  BY NextKeeps, AttendedStep, AttendedHeeded
<1>3. IInv /\ Attended => NoneIgnored
  BY AttendedHeeded
<1> QED  BY <1>1, <1>2, <1>3, PTL DEF Spec

------------------------------------------------------------------------------
(* What the runs check                                                       *)

\* The records are what was committed.
LEMMA SavedIsCommitted ==
    ASSUME IInv, NEW c \in Conns, at[c] \in Changing
    PROVE  /\ jcur # NoFile /\ Covered(c)
           /\ \A p \in Pages : p <= jcur.size /\ Saved(jcur, p) => Original(jcur, p) = Committed[p]
<1>1. ConnInv(c) /\ jcur \in Journals /\ WellFormed(jcur)
  BY ConnFacts, Facts
<1>2. jcur # NoFile /\ Covered(c) /\ jcur.size \in Nat
  BY <1>1, JournalFields DEF ConnInv
<1>3. CASE at[c] \in Unwritten
  BY <1>1, <1>2, <1>3, UnwrittenIsCommitted, RecordOfSaved DEF Untouched
<1>4. CASE at[c] \in Written
  <2>1. Valid(jcur)
    BY <1>1, <1>4 DEF ConnInv, Changing, Valid
  <2>2. \A p \in Pages : p <= jcur.size => ~ (p > jcur.size)
    BY <1>2 DEF Pages
  <2> QED  BY <1>2, <2>1, <2>2, RecoveredPage DEF Committed
<1> QED  BY <1>3, <1>4 DEF Changing

\* Who knows the content sees it.
LEMMA CurrentView ==
    ASSUME NEW c \in Conns, Current(c), Committed = cur, cur \in [Pages -> Contents]
    PROVE  View(c) = Committed
  BY DEF View, Current, Agrees

LEMMA ReaderView ==
    ASSUME IInv, NEW c \in Conns, at[c] \in {"reader", "locked"}
    PROVE  View(c) = Committed /\ Committed = cur
  BY ConnFacts, Facts, CurrentView DEF ConnInv

LEMMA Consequences ==
    ASSUME IInv
    PROVE  TypeOK /\ JournalCoversChanges /\ CacheCurrent /\ ReadersSeeCommitted
<1>1. TypeOK
  <2>1. TypeInv /\ LockInv
    BY DEF IInv
  <2>2. ASSUME NEW c \in Conns
        PROVE  /\ DOMAIN cache[c] \subseteq Pages /\ dirty[c] \subseteq DOMAIN cache[c]
               /\ dbFileVers[c] \in Counters /\ level[c] \in LockLevels
               /\ at[c] \in Unwritten \cup Written => reserver = {c}
    <3>1. at[c] \in Unwritten \cup Written => c \in reserver
      BY ConnFacts DEF HeldAt, Changing
    <3> QED  BY <2>1, <3>1, ConnFacts DEF LockInv
  <2> QED  BY <2>1, <2>2 DEF TypeOK, TypeInv
<1>2. JournalCoversChanges
  <2>1. ASSUME NEW c \in Conns, at[c] \in Unwritten \cup Written, NEW p \in dirty[c], p <= jcur.size
        PROVE  Saved(jcur, p) /\ Original(jcur, p) = Committed[p]
    <3>1. Covered(c) /\ p \in DOMAIN cache[c] /\ p \in Pages
      BY <2>1, SavedIsCommitted, ConnFacts DEF Changing
    <3> QED  BY <2>1, <3>1, SavedIsCommitted DEF Changing, Covered
  <2> QED  BY <2>1, SavedIsCommitted DEF JournalCoversChanges, Changing
<1>3. CacheCurrent
  <2>1. ASSUME NEW c \in Conns, at[c] = "open", dbFileVers[c] = Version(Committed)
        PROVE  \A p \in DOMAIN cache[c] : cache[c][p] = Committed[p]
    <3>1. Kept(c) /\ dbFileVers[c] \in Counters /\ MaxCounter \in Nat
      BY <2>1, ConnFacts, Facts DEF ConnInv
    <3> QED  BY <2>1, <3>1 DEF Kept, Agrees, Counters
  <2> QED  BY <2>1 DEF CacheCurrent
<1>4. ReadersSeeCommitted
  BY ReaderView DEF ReadersSeeCommitted
<1> QED  BY <1>1, <1>2, <1>3, <1>4

(* The file, the caches and the locks keep their types, and who writes holds *)
(* the reservation, alone (pagerLockDb, pager_write).                        *)
THEOREM JournalTyping == Spec /\ []NoneIgnored => []TypeOK
  BY JournalInvariant, Consequences, PTL

(* A transaction never loses the way back: as long as it has changed a page, *)
(* the journal is there with the committed content of that page, up to the   *)
(* unlinking that commits (pager_write, pagerAddPageToRollbackJournal).      *)
THEOREM JournalCovers == Spec /\ []NoneIgnored => []JournalCoversChanges
  BY JournalInvariant, Consequences, PTL

(* The change counter tells whether a kept cache is stale: no two committed  *)
(* contents share one, whoever rolled back or died between them              *)
(* (sqlite3PagerSharedLock, pager_incr_changecounter).                       *)
THEOREM CachesCurrent == Spec /\ []NoneIgnored => []CacheCurrent
  BY JournalInvariant, Consequences, PTL

(* The search for a hot journal is enough: unless one is mistaken for that of *)
(* a live writer, every reader sees the content committed last               *)
(* (sqlite3PagerSharedLock).                                                 *)
THEOREM ReadersCurrent == Spec /\ []NoneIgnored => []ReadersSeeCommitted
  BY JournalInvariant, Consequences, PTL

------------------------------------------------------------------------------
(* The journal implements a file that is changed as a whole                  *)

Txs == [c \in Conns |-> Tx(c)]

\* The connection writes, in the sense of AtomicFile.
InWriting(c) == at[c] \in {"locked"} \cup Changing

LEMMA TxIs ==
    ASSUME NEW c \in Conns
    PROVE  /\ Txs[c] = Tx(c)
           /\ at[c] = "reader" => Tx(c) = [mode |-> "read", image |-> View(c)]
           /\ InWriting(c) => Tx(c) = [mode |-> "write", image |-> View(c)]
           /\ at[c] # "reader" /\ ~ InWriting(c) => Tx(c) = [mode |-> "none"]
<1>1. c \in Writers <=> InWriting(c)
  BY DEF Writers, InWriting, Changing
<1>2. InWriting(c) => at[c] # "reader"
  BY DEF InWriting, Changing, Unwritten, Written
<1> QED  BY <1>1, <1>2 DEF Txs, Tx

\* The same, after a step.
LEMMA TxWillBe ==
    ASSUME NEW c \in Conns
    PROVE  /\ Txs'[c] = Tx(c)'
           /\ at'[c] = "reader" => Tx(c)' = [mode |-> "read", image |-> View(c)']
           /\ InWriting(c)' => Tx(c)' = [mode |-> "write", image |-> View(c)']
           /\ at'[c] # "reader" /\ ~ InWriting(c)' => Tx(c)' = [mode |-> "none"]
<1>1. (c \in Writers)' <=> InWriting(c)'
  BY DEF Writers, InWriting, Changing
<1>2. InWriting(c)' => at'[c] # "reader"
  BY DEF InWriting, Changing, Unwritten, Written
<1> QED  BY <1>1, <1>2 DEF Txs, Tx

LEMMA OthersTx ==
    ASSUME IInv, NEW c \in Conns, Moved(c), cur' = cur \/ level[c] = EXCLUSIVE_LOCK
    PROVE  \A d \in Conns \ {c} : Txs'[d] = Txs[d]
<1> SUFFICES ASSUME NEW d \in Conns \ {c}
             PROVE  Txs'[d] = Txs[d]
  OBVIOUS
<1>1. at'[d] = at[d] /\ cache'[d] = cache[d] /\ (InWriting(d)' <=> InWriting(d))
  BY DEF Moved, InWriting
<1>2. CASE cur' = cur
  <2>1. View(d)' = View(d)
    BY <1>1, <1>2 DEF View
  <2> QED  BY <1>1, <2>1, TxIs, TxWillBe
<1>3. CASE level[c] = EXCLUSIVE_LOCK
  <2>1. at[d] = "open"
    BY <1>3, ConnFacts
  <2>2. ~ InWriting(d) /\ at[d] # "reader"
    BY <2>1 DEF InWriting, Changing, Unwritten, Written
  <2> QED  BY <1>1, <2>2, TxIs, TxWillBe
<1> QED  BY <1>2, <1>3

\* The transactions after a step that changes that of c at most.
LEMMA TxsUpdate ==
    ASSUME NEW c \in Conns, \A d \in Conns \ {c} : Txs'[d] = Txs[d]
    PROVE  /\ Txs' = [Txs EXCEPT ![c] = Txs'[c]]
           /\ Txs'[c] = Txs[c] => Txs' = Txs
<1>1. Txs = [d \in Conns |-> Txs[d]] /\ Txs' = [d \in Conns |-> Txs'[d]]
  BY DEF Txs
<1> QED  BY <1>1

LEMMA FilesSettled ==
    ASSUME disk' = disk, jdisk' = jdisk, Committed' = Committed, faults' = faults
    PROVE  Durable' = Durable
  BY DEF Durable, Settled, Committed

(* Steps of the file, in terms of what stands for it                         *)

LEMMA Begins ==
    ASSUME NEW c \in Conns, Txs[c] = [mode |-> "none"], UNCHANGED <<Committed, Durable>>,
           Txs' = [Txs EXCEPT ![c] = [mode |-> "read", image |-> Committed]]
    PROVE  File!FileNext
<1>1. File!Begin(c)
  BY DEF File!Begin, File!NoTx, File!Reading, Txs
<1> QED  BY <1>1 DEF File!FileNext

LEMMA BeginsToWrite ==
    ASSUME NEW c \in Conns, NEW i, Txs[c] = [mode |-> "read", image |-> i],
           \A d \in Conns : Txs[d].mode # "write", UNCHANGED <<Committed, Durable>>,
           Txs' = [Txs EXCEPT ![c] = [mode |-> "write", image |-> i]]
    PROVE  File!FileNext
<1>1. Txs' = [Txs EXCEPT ![c].mode = "write"]
  <2>1. [Txs[c] EXCEPT !.mode = "write"] = [mode |-> "write", image |-> i]
    OBVIOUS
  <2>2. [Txs EXCEPT ![c].mode = "write"] = [Txs EXCEPT ![c] = [Txs[c] EXCEPT !.mode = "write"]]
    OBVIOUS
  <2> QED  BY <2>1, <2>2
<1>2. File!BeginToWrite(c)
  BY <1>1 DEF File!BeginToWrite, File!InWrite, Txs
<1> QED  BY <1>2 DEF File!FileNext

LEMMA Changes ==
    ASSUME NEW c \in Conns, Txs[c].mode = "write", UNCHANGED <<Committed, Durable>>,
           NEW i \in [Pages -> Contents], Txs'[c] = [mode |-> "write", image |-> i],
           Txs' = [Txs EXCEPT ![c] = Txs'[c]]
    PROVE  File!FileNext
<1>1. File!Change(c)
  BY DEF File!Change, File!InWrite, Txs
<1> QED  BY <1>1 DEF File!FileNext

LEMMA Commits ==
    ASSUME NEW c \in Conns, Txs[c] = [mode |-> "write", image |-> Committed'],
           \A d \in Conns \ {c} : Txs[d] = [mode |-> "none"],
           Durable = Committed, Durable' \in {Durable, Committed'},
           Txs' = [Txs EXCEPT ![c] = [mode |-> "read", image |-> Committed']]
    PROVE  File!FileNext
<1>1. File!Commit(c)
  BY DEF File!Commit, File!InWrite, File!NoTx, File!Reading, Txs
<1> QED  BY <1>1 DEF File!FileNext

LEMMA Undoes ==
    ASSUME NEW c \in Conns, Txs[c].mode = "write", UNCHANGED <<Committed, Durable>>,
           Txs' = [Txs EXCEPT ![c] = [mode |-> "read", image |-> Committed]]
    PROVE  File!FileNext
<1>1. File!Undo(c)
  BY DEF File!Undo, File!InWrite, File!Reading, Txs
<1> QED  BY <1>1 DEF File!FileNext

LEMMA Ends ==
    ASSUME NEW cs \in SUBSET Conns, UNCHANGED <<Committed, Durable>>,
           Txs' = [d \in Conns |-> IF d \in cs THEN [mode |-> "none"] ELSE Txs[d]]
    PROVE  File!FileNext
<1>1. File!End(cs)
  BY DEF File!End, File!NoTx, Txs
<1> QED  BY <1>1 DEF File!FileNext

LEMMA EndsOne ==
    ASSUME NEW c \in Conns, UNCHANGED <<Committed, Durable>>,
           Txs'[c] = [mode |-> "none"], \A d \in Conns \ {c} : Txs'[d] = Txs[d]
    PROVE  File!FileNext
<1>1. {c} \in SUBSET Conns
  OBVIOUS
<1>2. Txs' = [d \in Conns |-> IF d \in {c} THEN [mode |-> "none"] ELSE Txs[d]]
  BY DEF Txs
<1> QED  BY <1>1, <1>2, Ends

LEMMA Settles ==
    ASSUME Durable' = Committed, UNCHANGED <<Committed, Txs>>
    PROVE  File!FileNext
<1>1. File!Settle
  BY DEF File!Settle, Txs
<1> QED  BY <1>1 DEF File!FileNext

LEMMA PowerCuts ==
    ASSUME Committed' \in {Committed, Durable}, Durable' = Committed',
           Txs' = [d \in Conns |-> [mode |-> "none"]]
    PROVE  File!FileNext
<1>1. File!PowerCut
  BY DEF File!PowerCut, File!NoTx, Txs
<1> QED  BY <1>1 DEF File!FileNext

------------------------------------------------------------------------------
(* Steps of the journal, mapped to those                                     *)

Mapped == File!FileNext \/ UNCHANGED <<Committed, Durable, Txs>>

LEMMA PassingMapped ==
    ASSUME IInv, IInv', NEW c \in Conns, Passing(c)
    PROVE  Mapped
<1>1. /\ Moved(c) /\ at \in [Conns -> Points] /\ cur' = cur /\ jcur' = jcur /\ cache' = cache
      /\ Committed' = Committed /\ Durable' = Durable
      /\ View(c)' = View(c) /\ \A d \in Conns \ {c} : Txs'[d] = Txs[d]
  <2>1. /\ Moved(c) /\ at \in [Conns -> Points] /\ cur' = cur /\ jcur' = jcur /\ cache' = cache
        /\ disk' = disk /\ jdisk' = jdisk /\ faults' = faults
    BY PassingMoves DEF IInv, TypeInv, files, locals
  <2> QED  BY <2>1, FilesSame, FilesSettled, OthersTx DEF View
<1> USE DEF InWriting, Looking, Changing, Unwritten, Written, Playing, Go
<1>2. CASE \/ GetShared(c) \/ FindJournal(c) \/ CheckReserved(c) \/ CheckSize(c)
           \/ ReserveRemnant(c) \/ LeaveRemnant(c) \/ ReadFirstByte(c)
           \/ LockHot(c) \/ HotPending(c) \/ HotBusy(c) \/ HotGone(c)
           \/ LockForCommit(c) \/ CommitBusy(c)
  <2>1. /\ at[c] # "reader" /\ at'[c] # "reader" /\ (InWriting(c)' <=> InWriting(c))
    BY <1>1, <1>2
       DEF GetShared, FindJournal, CheckReserved, CheckSize,
       ReserveRemnant, LeaveRemnant, ReadFirstByte, LockHot, HotPending, HotBusy, HotGone,
       LockForCommit, CommitBusy
  <2>2. Txs'[c] = Txs[c]
    BY <1>1, <2>1, TxIs, TxWillBe
  <2> QED  BY <1>1, <2>2, TxsUpdate DEF Mapped
<1>3. CASE EndRead(c) \/ UnlinkFails(c) \/ RollbackFails(c)
  <2>1. at'[c] # "reader" /\ ~ InWriting(c)'
    BY <1>1, <1>3 DEF EndRead, UnlinkFails, RollbackFails
  <2>2. Txs'[c] = [mode |-> "none"]
    BY <2>1, TxWillBe
  <2> QED  BY <1>1, <2>2, EndsOne DEF Mapped
<1>4. CASE BeginWrite(c)
  <2>1. at[c] = "reader" /\ at'[c] = "locked" /\ InWriting(c)' /\ reserver = {}
    BY <1>1, <1>4 DEF BeginWrite, Reserve
  <2>2. \A d \in Conns : Txs[d].mode # "write"
    <3>1. \A d \in Conns : ~ InWriting(d)
      BY <2>1, ConnFacts DEF HeldAt
    <3> QED  BY <3>1, TxIs
  <2>3. Txs[c] = [mode |-> "read", image |-> View(c)] /\ Txs'[c] = [mode |-> "write", image |-> View(c)]
    BY <1>1, <2>1, TxIs, TxWillBe
  <2> QED  BY <1>1, <2>2, <2>3, TxsUpdate, BeginsToWrite DEF Mapped
<1>5. CASE EndUnwritten(c)
  <2>1. at[c] = "locked" /\ at'[c] = "reader" /\ View(c) = Committed
    BY <1>1, <1>5, ReaderView DEF EndUnwritten
  <2>2. Txs[c].mode = "write" /\ Txs'[c] = [mode |-> "read", image |-> Committed]
    BY <1>1, <2>1, TxIs, TxWillBe
  <2> QED  BY <1>1, <2>2, TxsUpdate, Undoes DEF Mapped
<1> QED  BY <1>2, <1>3, <1>4, <1>5 DEF Passing

LEMMA CachingMapped ==
    ASSUME IInv, IInv', NEW c \in Conns, Caching(c)
    PROVE  Mapped
<1>1. /\ Moved(c) /\ at \in [Conns -> Points] /\ cache \in [Conns -> Caches]
      /\ cur' = cur /\ jcur' = jcur /\ cur \in [Pages -> Contents]
      /\ Committed' = Committed /\ Durable' = Durable
      /\ \A d \in Conns \ {c} : Txs'[d] = Txs[d]
  <2>1. /\ Moved(c) /\ at \in [Conns -> Points] /\ cache \in [Conns -> Caches]
        /\ cur' = cur /\ jcur' = jcur /\ cur \in [Pages -> Contents]
        /\ disk' = disk /\ jdisk' = jdisk /\ faults' = faults
    BY CachingMoves DEF IInv, TypeInv, files
  <2> QED  BY <2>1, FilesSame, FilesSettled, OthersTx
<1> USE DEF InWriting, Looking, Changing, Unwritten, Written, Playing, Go
<1>2. CASE ValidateCache(c)
  <2>1. at[c] = "validate" /\ at'[c] = "reader"
    BY <1>1, <1>2 DEF ValidateCache
  <2>2. View(c)' = Committed'
    <3>1. Current(c)' /\ Committed = cur
      <4>1. ConnInv(c)' /\ Cold
        BY <2>1, ConnFacts DEF IInv, ConnInv
      <4> QED  BY <2>1, <4>1, Facts DEF ConnInv
    <3>2. cur' \in [Pages -> Contents] /\ Committed' = cur'
      BY <1>1, <3>1
    <3> QED  BY <3>1, <3>2 DEF View, Current, Agrees
  <2>3. Txs[c] = [mode |-> "none"] /\ Txs'[c] = [mode |-> "read", image |-> Committed]
    BY <1>1, <2>1, <2>2, TxIs, TxWillBe
  <2> QED  BY <1>1, <2>3, TxsUpdate, Begins DEF Mapped
<1>3. ASSUME NEW q \in Pages, ReadPage(c, q)
      PROVE  Mapped
  <2>1. at' = at /\ View(c)' = View(c)
    <3>1. /\ q \notin DOMAIN cache[c] /\ DOMAIN cache'[c] = DOMAIN cache[c] \cup {q}
          /\ \A p \in DOMAIN cache[c] \cup {q} : cache'[c][p] = IF p = q THEN cur[q] ELSE cache[c][p]
      BY <1>1, <1>3 DEF ReadPage, SetCache
    <3> QED  BY <1>1, <1>3, <3>1 DEF View, ReadPage
  <2>2. Txs'[c] = Txs[c]
    BY <2>1, TxIs, TxWillBe
  <2> QED  BY <1>1, <2>2, TxsUpdate DEF Mapped
<1>4. CASE RollbackFile(c) \/ ClearError(c)
  <2>1. at'[c] # "reader" /\ ~ InWriting(c)'
    BY <1>1, <1>4 DEF RollbackFile, ClearError
  <2>2. Txs'[c] = [mode |-> "none"]
    BY <2>1, TxWillBe
  <2> QED  BY <1>1, <2>2, EndsOne DEF Mapped
<1> QED  BY <1>2, <1>3, <1>4 DEF Caching

\* A sync settles what was committed, or nothing new.
LEMMA SyncSettles ==
    ASSUME IInv, NEW c \in Conns,
           SyncRecords(c) \/ SyncHeader(c) \/ SyncFile(c) \/ SyncHotJournal(c) \/ SyncRestored(c)
    PROVE  Committed' = Committed /\ Durable' \in {Durable, Committed}
<1>1. /\ cur' = cur /\ jcur' = jcur /\ faults' = faults
      /\ at[c] \in ExclusiveAt /\ Writing(c)
  BY DEF SyncRecords, SyncHeader, SyncFile, SyncHotJournal, SyncRestored, Go, KeepFile, KeepJournal,
         Writing, ExclusiveAt, Unwritten, Written, Playing
<1>2. Committed' = Committed
  BY <1>1, FilesSame
<1>3. CASE "power" \notin faults
  BY <1>1, <1>2, <1>3 DEF Durable
<1>4. CASE "power" \in faults
  <2>1. DiskInv /\ DurableAt(c) /\ ConnInv(c)
    BY <1>1, <1>4, AloneFacts
  <2>2. SUFFICES Settled' \in {Settled, Committed}
    BY <1>1, <1>2, <1>4 DEF Durable, Settled
  <2>3. CASE SyncRecords(c)
    <3>1. jcur.hdr = "zero" /\ disk' = disk /\ jdisk' = jcur
      BY <2>1, <2>3 DEF SyncRecords, Go, ConnInv, Changing, Unwritten, Written, KeepFile
    <3>2. cur = disk /\ ~ Valid(jcur)
      BY <2>1, <3>1 DEF DiskInv, Valid
    <3> QED  BY <3>1, <3>2 DEF Settled, Committed
  <2>4. CASE SyncHeader(c)
    <3>1. cur = disk /\ disk' = disk /\ jdisk' = jcur
      BY <2>1, <2>4 DEF SyncHeader, Go, DurableAt, DiskInv, KeepFile
    <3> QED  BY <3>1 DEF Settled, Committed
  <2>5. CASE SyncFile(c)
    <3>1. jcur.hdr = "valid" /\ disk' = cur /\ jdisk' = jdisk
      BY <2>1, <2>5 DEF SyncFile, Go, ConnInv, Changing, Written, KeepJournal
    <3>2. jdisk = jcur
      BY <2>1, <2>5, <3>1 DEF SyncFile, Go, DurableAt, Written, Valid
    <3> QED  BY <3>1, <3>2 DEF Settled, Committed
  <2>6. CASE SyncHotJournal(c)
    <3>1. disk' = disk /\ jdisk' = IF linked THEN jcur ELSE jdisk
      BY <2>6 DEF SyncHotJournal, KeepFile
    <3>2. CASE linked /\ ~ Valid(jdisk)
      <4>1. cur = disk
        BY <2>1, <3>2 DEF DiskInv
      <4> QED  BY <3>1, <3>2, <4>1 DEF Settled, Committed
    <3>3. CASE ~ linked \/ Valid(jdisk)
      <4>1. jdisk' = jdisk
        BY <2>1, <3>1, <3>3 DEF DiskInv
      <4> QED  BY <3>1, <4>1 DEF Settled
    <3> QED  BY <3>2, <3>3
  <2>7. CASE SyncRestored(c)
    <3>1. disk' = cur /\ jdisk' = jdisk /\ at[c] = "restore"
      BY <2>7 DEF SyncRestored, KeepJournal, Go
    <3>2. CASE Valid(jcur)
      <4>1. jdisk = jcur
        BY <2>1, <3>1, <3>2 DEF DurableAt, Playing
      <4> QED  BY <3>1, <4>1 DEF Settled, Committed
    <3>3. CASE ~ Valid(jcur)
      <4>1. cur = disk
        BY <2>1, <3>3 DEF DiskInv
      <4> QED  BY <3>1, <4>1 DEF Settled
    <3> QED  BY <3>2, <3>3
  <2> QED  BY <2>3, <2>4, <2>5, <2>6, <2>7
<1> QED  BY <1>2, <1>3, <1>4

\* Steps between two places of the same kind.
LEMMA QuietMapped ==
    ASSUME IInv, NEW c \in Conns, Writing(c), Committed' = Committed,
           Durable' \in {Durable, Committed}, cur' = cur \/ level[c] = EXCLUSIVE_LOCK,
           at[c] # "reader", at'[c] # "reader", InWriting(c)' <=> InWriting(c),
           InWriting(c) => View(c)' = View(c)
    PROVE  Mapped
<1>1. Txs'[c] = Txs[c] /\ \A d \in Conns \ {c} : Txs'[d] = Txs[d]
  BY WritingMoves, OthersTx, TxIs, TxWillBe DEF IInv
<1>2. Txs' = Txs
  BY <1>1, TxsUpdate
<1>3. CASE Durable' = Durable
  BY <1>2, <1>3 DEF Mapped
<1>4. CASE Durable' = Committed
  BY <1>2, <1>4, Settles DEF Mapped
<1> QED  BY <1>3, <1>4

LEMMA SyncMapped ==
    ASSUME IInv, NEW c \in Conns,
           SyncRecords(c) \/ SyncHeader(c) \/ SyncFile(c) \/ SyncHotJournal(c) \/ SyncRestored(c)
    PROVE  Mapped
<1>1. Committed' = Committed /\ Durable' \in {Durable, Committed} /\ at \in [Conns -> Points]
  BY SyncSettles DEF IInv, TypeInv
<1>2. /\ cur' = cur /\ Writing(c)
      /\ at[c] # "reader" /\ at'[c] # "reader" /\ (InWriting(c)' <=> InWriting(c))
  BY <1>1 DEF SyncRecords, SyncHeader, SyncFile, SyncHotJournal, SyncRestored, Go, KeepFile, KeepJournal,
         Writing, InWriting, Changing, Unwritten, Written
<1>3. InWriting(c) => View(c)' = View(c)
  BY <1>2 DEF SyncRecords, SyncHeader, SyncFile, SyncHotJournal, SyncRestored, Go, locals,
         InWriting, Changing, Unwritten, Written, View
<1> QED  BY <1>1, <1>2, <1>3, QuietMapped

LEMMA PutMapped ==
    ASSUME IInv, IInv', NEW c \in Conns,
           \/ CreateDatabase(c) \/ IncrChangeCounter(c)
           \/ \E p \in Pages, v \in Values : WritePage(c, p, v)
    PROVE  Mapped
<1>1. /\ Committed' = Committed /\ Writing(c) /\ at \in [Conns -> Points]
  BY CreateDatabaseKeeps, IncrChangeCounterKeeps, WritePageKeeps DEF IInv, TypeInv, Writing
<1>2. /\ cur' = cur /\ disk' = disk /\ jdisk' = jdisk /\ faults' = faults
      /\ at[c] \in {"locked", "cachemod", "counted"} /\ at'[c] \in {"cachemod", "counted"}
  BY <1>1 DEF CreateDatabase, IncrChangeCounter, WritePage, Put, KeepFile, Go
<1>3. Durable' = Durable
  BY <1>1, <1>2, FilesSettled
<1>4. InWriting(c) /\ InWriting(c)'
  BY <1>2 DEF InWriting, Changing, Unwritten
<1>5. View(c)' \in [Pages -> Contents]
  <2>1. cache'[c] \in Caches /\ cur' \in [Pages -> Contents]
    BY DEF IInv, TypeInv
  <2>2. cache'[c] \in [DOMAIN cache'[c] -> Contents]
    BY <2>1, CacheType
  <2> QED  BY <2>1, <2>2 DEF View
<1>6. Txs[c].mode = "write" /\ Txs'[c] = [mode |-> "write", image |-> View(c)']
  BY <1>4, TxIs, TxWillBe
<1>7. Txs' = [Txs EXCEPT ![c] = Txs'[c]]
  BY <1>1, <1>2, WritingMoves, OthersTx, TxsUpdate DEF IInv
<1> QED  BY <1>1, <1>3, <1>5, <1>6, <1>7, Changes DEF Mapped

\* Steps under an EXCLUSIVE lock that change nothing of the promise.
LEMMA RestoreMapped ==
    ASSUME IInv, NEW c \in Conns,
           \/ Truncate(c) \/ RestorePage(c) \/ WriteHeader(c) \/ StorePage(c)
    PROVE  Mapped
<1>1. Committed' = Committed /\ Writing(c) /\ at \in [Conns -> Points] /\ at[c] \in ExclusiveAt
  BY TruncateKeeps, RestorePageKeeps, WriteHeaderKeeps, StorePageKeeps
     DEF IInv, TypeInv, Writing, Truncate, RestorePage, WriteHeader, StorePage, Go,
         ExclusiveAt, Playing, Written
<1>2. /\ disk' = disk /\ jdisk' = jdisk /\ faults' = faults
      /\ at[c] # "reader" /\ at'[c] # "reader" /\ (InWriting(c)' <=> InWriting(c))
  BY <1>1 DEF Truncate, RestorePage, WriteHeader, StorePage, Go, KeepFile, KeepJournal,
         InWriting, Changing, Unwritten, Written
<1>3. Durable' = Durable /\ level[c] = EXCLUSIVE_LOCK
  BY <1>1, <1>2, FilesSettled, AloneFacts
<1>4. InWriting(c) => View(c)' = View(c)
  <2>1. CASE Truncate(c) \/ RestorePage(c)
    BY <2>1 DEF Truncate, RestorePage, Go, InWriting, Changing, Unwritten, Written
  <2>2. CASE WriteHeader(c)
    BY <2>2 DEF WriteHeader, KeepFile, locals, View
  <2>3. CASE StorePage(c)
    <3>1. dirty[c] # {} /\ dirty[c] \subseteq DOMAIN cache[c] /\ DOMAIN cache[c] \subseteq Pages
          /\ cur \in [Pages -> Contents]
      BY <2>3, ConnFacts, Facts DEF StorePage
    <3>2. Min(dirty[c]) \in DOMAIN cache[c]
      BY <3>1, LeastPage
    <3>3. /\ cache' = cache
          /\ \A p \in Pages : p \notin DOMAIN cache[c] => cur'[p] = cur[p]
      BY <2>3, <3>1, <3>2 DEF StorePage
    <3> QED  BY <3>3 DEF View
  <2> QED  BY <2>1, <2>2, <2>3
<1> QED  BY <1>1, <1>2, <1>3, <1>4, QuietMapped

\* Steps that delete the journal.
LEMMA UnlinkMapped ==
    ASSUME IInv, IInv', NEW c \in Conns,
           DeleteRemnant(c) \/ EndPlayback(c) \/ RollbackMemory(c) \/ Finish(c)
    PROVE  Mapped
<1>1. /\ Moved(c) /\ Writing(c) /\ at \in [Conns -> Points] /\ cur' = cur /\ disk' = disk
      /\ jdisk' = jdisk /\ jcur' = NoFile /\ faults' = faults /\ cur \in [Pages -> Contents]
      /\ Txs' = [Txs EXCEPT ![c] = Txs'[c]] /\ \A d \in Conns \ {c} : Txs'[d] = Txs[d]
  <2>1. Writing(c) /\ cur' = cur /\ disk' = disk /\ jdisk' = jdisk /\ jcur' = NoFile
    BY DEF Writing, DeleteRemnant, EndPlayback, RollbackMemory, Finish, KeepFile, Unlink
  <2>2. Moved(c) /\ at \in [Conns -> Points] /\ faults' = faults /\ cur \in [Pages -> Contents]
    BY <2>1, WritingMoves DEF IInv, TypeInv, Moved
  <2> QED  BY <2>1, <2>2, OthersTx, TxsUpdate
<1>2. Committed' = cur
  BY <1>1 DEF Committed, Recovered, Valid, NoFile
<1>3. /\ at'[c] = "reader" => Txs'[c] = [mode |-> "read", image |-> Committed']
  <2>1. ASSUME at'[c] = "reader"
        PROVE  View(c)' = Committed'
    <3>1. ConnInv(c)'
      BY DEF IInv
    <3>2. Current(c)'
      BY <2>1, <3>1 DEF ConnInv
    <3> QED  BY <1>1, <1>2, <3>2 DEF View, Current, Agrees
  <2> QED  BY <2>1, TxWillBe
<1> USE DEF InWriting, Looking, Changing, Unwritten, Written, Playing, Go
<1>4. CASE DeleteRemnant(c)
  <2>1. at[c] = "delete" /\ at'[c] = "validate" /\ Committed = cur
    <3>1. at[c] = "delete" /\ at'[c] = "validate"
      BY <1>1, <1>4 DEF DeleteRemnant
    <3>2. cur[1] = Absent
      BY <3>1, ConnFacts DEF ConnInv
    <3> QED  BY <3>1, <3>2, EmptyIsCold, Facts DEF IInv
  <2>2. Durable' = Durable
    BY <1>1, <1>2, <2>1, FilesSettled
  <2> QED  BY <1>1, <1>2, <2>1, <2>2, QuietMapped
<1>5. CASE EndPlayback(c)
  <2>1. /\ at[c] = "restored" /\ at'[c] \in {"reader", "validate"} /\ Committed = cur
    <3>1. at[c] = "restored" /\ at'[c] \in {"reader", "validate"}
      BY <1>1, <1>5 DEF EndPlayback
    <3> QED  BY <3>1, ConnFacts DEF ConnInv
  <2>2. Durable' = Durable
    BY <1>1, <1>2, <2>1, FilesSettled
  <2>3. CASE at'[c] = "validate"
    BY <1>1, <1>2, <2>1, <2>2, <2>3, QuietMapped
  <2>4. CASE at'[c] = "reader"
    <3>1. Txs[c] = [mode |-> "none"]
      BY <2>1, TxIs
    <3> QED  BY <1>1, <1>2, <1>3, <2>1, <2>2, <2>4, <3>1, Begins DEF Mapped
  <2> QED  BY <2>1, <2>3, <2>4
<1>6. CASE RollbackMemory(c)
  <2>1. at[c] \in Unwritten /\ at'[c] = "reader" /\ Committed = cur
    BY <1>1, <1>6, UnwrittenIsCommitted DEF RollbackMemory
  <2>2. Durable' = Durable /\ Txs[c].mode = "write"
    BY <1>1, <1>2, <2>1, FilesSettled, TxIs
  <2> QED  BY <1>1, <1>2, <1>3, <2>1, <2>2, Undoes DEF Mapped
<1>7. CASE Finish(c)
  <2>1. at[c] = "finished" /\ at'[c] = "reader"
    BY <1>1, <1>7 DEF Finish
  <2>2. View(c) = cur
    BY <1>1, <2>1, FinishCommits DEF View
  <2>3. Txs[c] = [mode |-> "write", image |-> Committed']
    BY <1>2, <2>1, <2>2, TxIs
  <2>4. \A d \in Conns \ {c} : Txs[d] = [mode |-> "none"]
    <3>1. level[c] = EXCLUSIVE_LOCK
      BY <2>1, ConnFacts DEF HeldAt, ExclusiveAt
    <3>2. \A d \in Conns \ {c} : at[d] # "reader" /\ ~ InWriting(d)
      BY <3>1, ConnFacts
    <3> QED  BY <3>2, TxIs
  <2>5. Durable = Committed /\ Durable' \in {Durable, Committed'}
    <3>1. CASE "power" \notin faults
      BY <1>1, <3>1 DEF Durable
    <3>2. CASE "power" \in faults
      <4>1. Valid(jcur) /\ DurableAt(c)
        BY <2>1, <3>2, ConnFacts DEF IInv, DurableInv, ConnInv, Valid
      <4>2. cur = disk /\ jdisk = jcur
        BY <2>1, <4>1 DEF DurableAt
      <4>3. Settled = Committed /\ Settled' = Settled
        BY <1>1, <4>2 DEF Settled, Committed
      <4> QED  BY <1>1, <3>2, <4>3 DEF Durable, Settled
    <3> QED  BY <3>1, <3>2
  <2> QED  BY <1>1, <1>3, <2>1, <2>3, <2>4, <2>5, Commits DEF Mapped
<1> QED  BY <1>4, <1>5, <1>6, <1>7

LEMMA CrashMapped ==
    ASSUME IInv, (\E p \in {pid[c] : c \in Conns} : Kill(p)) \/ PowerLoss
    PROVE  Mapped
<1>1. ASSUME NEW p, Kill(p)
      PROVE  Mapped
  <2> DEFINE cs == {c \in Conns : pid[c] = p}
  <2>1. /\ Forget(cs) /\ cs \in SUBSET Conns /\ TypeInv
        /\ cur' = cur /\ jcur' = jcur /\ disk' = disk /\ jdisk' = jdisk
    BY <1>1 DEF Kill, KeepFiles, files, IInv
  <2> HIDE DEF cs
  <2>2. /\ faults' = faults /\ \A d \in cs : at'[d] = "open"
        /\ \A d \in Conns \ cs : at'[d] = at[d] /\ cache'[d] = cache[d]
    BY <2>1, ForgetMoves
  <2>3. Committed' = Committed /\ Durable' = Durable
    BY <2>1, <2>2, FilesSame, FilesSettled
  <2>4. ASSUME NEW d \in Conns
        PROVE  Txs'[d] = IF d \in cs THEN [mode |-> "none"] ELSE Txs[d]
    <3>1. CASE d \in cs
      <4>1. at'[d] # "reader" /\ ~ InWriting(d)'
        BY <2>2, <3>1 DEF InWriting, Changing, Unwritten, Written
      <4> QED  BY <3>1, <4>1, TxWillBe
    <3>2. CASE d \notin cs
      <4>1. at'[d] = at[d] /\ View(d)' = View(d) /\ (InWriting(d)' <=> InWriting(d))
        BY <2>1, <2>2, <3>2 DEF View, InWriting
      <4> QED  BY <3>2, <4>1, TxIs, TxWillBe
    <3> QED  BY <3>1, <3>2
  <2>5. Txs' = [d \in Conns |-> IF d \in cs THEN [mode |-> "none"] ELSE Txs[d]]
    BY <2>4 DEF Txs
  <2> QED  BY <2>1, <2>3, <2>5, Ends DEF Mapped
<1>2. CASE PowerLoss
  <2>1. /\ "power" \in faults /\ cur' \in FilesLeft /\ jcur' \in JournalsLeft
        /\ disk' = cur' /\ jdisk' = jcur' /\ Forget(Conns) /\ TypeInv
    BY <1>2 DEF PowerLoss, IInv
  <2>2. faults' = faults /\ \A d \in Conns : at'[d] = "open"
    BY <2>1, ForgetMoves
  <2>3. Committed' \in {Committed, Settled} /\ Settled' = Committed'
    BY <2>1, PowerLeaves DEF Committed, Settled
  <2>4. Committed' \in {Committed, Durable} /\ Durable' = Committed'
    BY <2>1, <2>2, <2>3 DEF Durable, Settled
  <2>5. ASSUME NEW d \in Conns
        PROVE  Txs'[d] = [mode |-> "none"]
    <3>1. at'[d] # "reader" /\ ~ InWriting(d)'
      BY <2>2 DEF InWriting, Changing, Unwritten, Written
    <3> QED  BY <3>1, TxWillBe
  <2>6. Txs' = [d \in Conns |-> [mode |-> "none"]]
    BY <2>5 DEF Txs
  <2> QED  BY <2>4, <2>6, PowerCuts DEF Mapped
<1> QED  BY <1>1, <1>2

LEMMA InitMapped ==
    ASSUME Init
    PROVE  File!FileInit
<1>1. IInv
  BY InitIInv
<1>2. Committed \in [Pages -> Contents] /\ Committed = cur /\ Settled = cur
  <2>1. ~ Valid(jcur) /\ ~ Valid(jdisk) /\ disk = cur
    BY DEF Init, NoFile, Valid
  <2> QED  BY <1>1, <2>1, Facts DEF Settled, Recovered
<1>3. Durable = Committed
  BY <1>2 DEF Durable, Settled
<1>4. \A c \in Conns : Tx(c) = [mode |-> "none"]
  <2>1. \A c \in Conns : at[c] = "open"
    BY DEF Init
  <2>2. \A c \in Conns : at[c] # "reader" /\ ~ InWriting(c)
    BY <2>1 DEF InWriting, Changing, Unwritten, Written
  <2> QED  BY <2>2, TxIs
<1> QED  BY <1>2, <1>3, <1>4 DEF File!FileInit, File!NoTx

LEMMA StepMapped ==
    ASSUME IInv, IInv', [Next]_vars
    PROVE  [File!FileNext]_(File!fileVars)
<1>1. ASSUME Mapped
      PROVE  [File!FileNext]_(File!fileVars)
  BY <1>1 DEF Mapped, File!fileVars, Txs
<1>2. ASSUME NEW c \in Conns, Passing(c) \/ Caching(c) \/ Writing(c)
      PROVE  Mapped
  <2>1. CASE Passing(c) \/ Caching(c)
    BY <2>1, PassingMapped, CachingMapped
  <2>2. CASE Writing(c)
    BY <2>2, SyncMapped, PutMapped, RestoreMapped, UnlinkMapped DEF Writing
  <2> QED  BY <1>2, <2>1, <2>2
<1>3. CASE (\E p \in {pid[c] : c \in Conns} : Kill(p)) \/ PowerLoss
  BY <1>1, <1>3, CrashMapped
<1>4. CASE UNCHANGED vars
  <2>1. UNCHANGED <<cur, jcur, disk, jdisk, at, cache, faults>>
    BY <1>4 DEF vars, files, locals
  <2>2. Committed' = Committed /\ Durable' = Durable
    BY <2>1, FilesSame, FilesSettled
  <2>3. Txs' = Txs
    BY <2>1 DEF Txs, Tx, View, Writers
  <2> QED  BY <1>1, <2>2, <2>3 DEF Mapped
<1> QED  BY <1>1, <1>2, <1>3, <1>4, NextIs

(* Transactions on the file are atomic and isolated: whatever steps          *)
(* connections take between each other, whatever fails and whoever dies, the *)
(* journal implements a file whose content is replaced as a whole by a       *)
(* commit, and of which a loss of power takes back the last commit at most   *)
(* (pager_playback, sqlite3PagerCommitPhaseOne, sqlite3PagerCommitPhaseTwo). *)
THEOREM JournalIsAtomic == Spec /\ []NoneIgnored => ImplementsAtomicFile
<1>1. Init => File!FileInit
  BY InitMapped
<1>2. IInv /\ IInv' /\ [Next]_vars => [File!FileNext]_(File!fileVars)
  BY StepMapped
<1> QED  BY <1>1, <1>2, JournalInvariant, PTL DEF Spec, ImplementsAtomicFile, File!FileSpec
=============================================================================
