---------------------------- MODULE NoteTxProofs -----------------------------
(***************************************************************************)
(* Proofs about NoteTx, for any requests, connections and processes.       *)
(***************************************************************************)
EXTENDS NoteTx, TLAPS

Labels ==
    {"start", "prepare", "exec", "reserve", "commit", "write", "rows", "reading", "done"}
Writing == {"prepare", "exec", "reserve", "commit", "write"}
Listing == {"rows", "reading"}
Answers == {"none", "saved", "listed", "failed"}

PoolTypes == pool \subseteq opened /\ opened \subseteq Own /\ schema \subseteq opened

SessionTypes ==
    /\ autoCommit \in [Own -> BOOLEAN] /\ pending \in [Own -> SUBSET Writes]
    /\ level \in [Conns -> LockLevels]

Types ==
    /\ phase \in {"check", "rebuild", "serving"} /\ table \in BOOLEAN
    /\ db \subseteq Writes /\ shown \in [Lists -> SUBSET Writes]
    /\ PoolTypes /\ SessionTypes
    /\ pc \in [Requests -> Labels] /\ answer \in [Requests -> Answers]
    /\ conn \in [Requests -> Own \cup {None}]

Clean(c) == level[c] = NO_LOCK /\ pending[c] = {}

\* What its place says of the connection of a request.
Place(r, c) ==
    /\ c \in opened \ pool
    /\ pc[r] = "prepare" => Clean(c)
    /\ pc[r] \in {"exec", "reserve"} => pending[c] = {}
    /\ pc[r] \in {"commit", "write"} => pending[c] = {r}
    /\ pc[r] \in Writing => ~ autoCommit[c]
    /\ pc[r] \in Listing /\ autoCommit[c] => pending[c] = {}

\* Only a connection in the pool may hold something that no request answers
\* for, and then it is of requests that were told they were saved.
ConnInv(c) ==
    /\ \A r \in Requests : Uses(r, c) => Place(r, c)
    /\ \A r, s \in Requests : Uses(r, c) /\ Uses(s, c) => r = s
    /\ (\A r \in Requests : ~ Uses(r, c)) /\ (c \in pool => autoCommit[c]) => Clean(c)
    /\ \A w \in pending[c] :
        \/ answer[w] = "saved"
        \/ pc[w] \in {"commit", "write"} /\ conn[w] = c

ReqInv ==
    /\ \A r \in Requests :
        /\ pc[r] \notin {"start", "done"} => conn[r] \in Own
        /\ answer[r] # "none" => pc[r] = "done"
        /\ pc[r] \in Writing => r \in Writes
        /\ pc[r] \in Listing => r \in Lists
        /\ phase # "serving" => pc[r] \in {"start", "done"}
    /\ phase # "serving" => opened = {}
    /\ \A w \in db : answer[w] = "saved"
    /\ \A l \in Lists : \A w \in shown[l] : answer[w] = "saved"

IInv == Types /\ ReqInv /\ \A c \in Own : ConnInv(c)

LEMMA Init_IInv ==
    Init => IInv
<1> SUFFICES ASSUME Init PROVE IInv
  OBVIOUS
<1>1. /\ phase = "check" /\ table \in BOOLEAN /\ db = {} /\ opened = {} /\ pool = {} /\ schema = {}
      /\ autoCommit = [c \in Own |-> TRUE] /\ pending = [c \in Own |-> {}]
      /\ pc = [r \in Requests |-> "start"] /\ conn = [r \in Requests |-> None]
      /\ answer = [r \in Requests |-> "none"] /\ shown = [r \in Lists |-> {}]
      /\ level = [c \in Conns |-> NO_LOCK]
  BY DEF Init, LockInit
<1>2. Types
  BY <1>1 DEF Types, PoolTypes, SessionTypes, Labels, Answers, LockLevels, NO_LOCK, EXCLUSIVE_LOCK
<1>3. ReqInv
  BY <1>1 DEF ReqInv, Writing, Listing
<1>4. ASSUME NEW c \in Own PROVE ConnInv(c)
  <2>1. Clean(c)
    BY <1>1 DEF Clean, Own
  <2>2. \A r \in Requests : ~ Uses(r, c)
    BY <1>1 DEF Uses
  <2>3. pending[c] = {}
    BY <1>1
  <2> QED  BY <2>1, <2>2, <2>3 DEF ConnInv
<1> QED  BY <1>2, <1>3, <1>4 DEF IInv

------------------------------------------------------------------------------
(* Locks and the pool                                                        *)

LEMMA LockMoves ==
    ASSUME level \in [Conns -> LockLevels], NEW c \in Conns,
           \/ Share(c) \/ Reserve(c) \/ Pend(c) \/ Exclude(c)
           \/ Lower(c, NO_LOCK) \/ Lower(c, SHARED_LOCK) \/ UNCHANGED level
    PROVE  /\ level' \in [Conns -> LockLevels]
           /\ \A d \in Conns \ {c} : level'[d] = level[d]
<1>1. {NO_LOCK, SHARED_LOCK, RESERVED_LOCK, PENDING_LOCK, EXCLUSIVE_LOCK} \subseteq LockLevels
  BY DEF LockLevels, NO_LOCK, SHARED_LOCK, RESERVED_LOCK, PENDING_LOCK, EXCLUSIVE_LOCK
<1>2. ASSUME NEW l \in LockLevels, level' = [level EXCEPT ![c] = l]
      PROVE  /\ level' \in [Conns -> LockLevels]
             /\ \A d \in Conns \ {c} : level'[d] = level[d]
  BY <1>2
<1> QED  BY <1>1, <1>2 DEF Share, Reserve, Pend, Exclude, Lower

LEMMA Unlocks ==
    ASSUME level \in [Conns -> LockLevels], NEW c \in Conns, Unlock(c)
    PROVE  /\ level' \in [Conns -> LockLevels] /\ level'[c] = NO_LOCK
           /\ \A d \in Conns \ {c} : level'[d] = level[d]
<1>1. CASE level[c] = NO_LOCK
  BY <1>1 DEF Unlock, lockVars
<1>2. CASE level[c] # NO_LOCK
  <2>1. Lower(c, NO_LOCK)
    BY <1>2 DEF Unlock
  <2>2. level'[c] = NO_LOCK
    BY <2>1 DEF Lower
  <2> QED  BY <2>1, <2>2, LockMoves
<1> QED  BY <1>1, <1>2

LEMMA OwnAreConns ==
    Own \subseteq Conns
  BY DEF Own

\* A step leaves connection d alone.
Spares(d) ==
    /\ level'[d] = level[d] /\ pending'[d] = pending[d] /\ autoCommit'[d] = autoCommit[d]
    /\ d \in opened' <=> d \in opened
    /\ d \in pool' <=> d \in pool

Elsewhere(c) == \A d \in Own \ {c} : Spares(d)

LEMMA EndsSession ==
    ASSUME SessionTypes, NEW c \in Own, Ended(c), Unlock(c)
    PROVE  /\ SessionTypes' /\ Clean(c)'
           /\ \A d \in Own \ {c} : /\ level'[d] = level[d] /\ pending'[d] = pending[d]
                                   /\ autoCommit'[d] = autoCommit[d]
<1>1. /\ level' \in [Conns -> LockLevels] /\ level'[c] = NO_LOCK
      /\ \A d \in Own \ {c} : level'[d] = level[d]
  BY OwnAreConns, Unlocks DEF SessionTypes
<1>2. /\ autoCommit' \in [Own -> BOOLEAN] /\ pending' \in [Own -> SUBSET Writes]
      /\ pending'[c] = {}
      /\ \A d \in Own \ {c} : pending'[d] = pending[d] /\ autoCommit'[d] = autoCommit[d]
  BY DEF SessionTypes, Ended
<1> QED  BY <1>1, <1>2 DEF SessionTypes, Clean

LEMMA KeepsOrCloses ==
    ASSUME PoolTypes, NEW c \in Own, c \in opened \ pool, Keep(c) \/ Close(c)
    PROVE  /\ PoolTypes' /\ conn' = conn
           /\ \A d \in Own \ {c} : (d \in opened' <=> d \in opened) /\ (d \in pool' <=> d \in pool)
           /\ Keep(c) => c \in pool'
<1>1. CASE Keep(c)
  BY <1>1 DEF PoolTypes, Keep
<1>2. CASE Close(c)
  <2>1. ~ Keep(c)
    BY <1>2 DEF Keep, Close
  <2> QED  BY <1>2, <2>1 DEF PoolTypes, Close
<1> QED  BY <1>1, <1>2

LEMMA GivesBack ==
    ASSUME PoolTypes, SessionTypes, NEW c \in Own, c \in opened \ pool, GiveBack(c)
    PROVE  PoolTypes' /\ SessionTypes' /\ Elsewhere(c) /\ Clean(c)' /\ conn' = conn
  BY EndsSession, KeepsOrCloses DEF GiveBack, Elsewhere, Spares

LEMMA GivesBackOpen ==
    ASSUME PoolTypes, SessionTypes, NEW c \in Own, c \in opened \ pool, GiveBackOpen(c)
    PROVE  /\ PoolTypes' /\ SessionTypes' /\ Elsewhere(c) /\ conn' = conn
           /\ Clean(c)' \/ (c \in pool' /\ UNCHANGED <<level, pending, autoCommit>>)
<1>1. CASE Keep(c) /\ UNCHANGED <<session, lockVars>>
  <2>1. UNCHANGED <<level, pending, autoCommit>>
    BY <1>1 DEF session, lockVars
  <2> QED  BY <1>1, <2>1, KeepsOrCloses DEF Elsewhere, Spares, SessionTypes
<1>2. CASE Close(c) /\ Ended(c) /\ Unlock(c)
  BY <1>2, EndsSession, KeepsOrCloses DEF Elsewhere, Spares
<1> QED  BY <1>1, <1>2 DEF GiveBackOpen

------------------------------------------------------------------------------
(* One request and the connection it has, or takes                           *)

Has(r, c) == Uses(r, c) \/ (pc[r] = "start" /\ MayTake(c))

LEMMA OnlyUser ==
    ASSUME IInv, NEW r \in Requests, NEW c \in Own, Has(r, c)
    PROVE  /\ pc[r] # "done" /\ answer[r] = "none"
           /\ \A q \in Requests \ {r} : ~ Uses(q, c)
           /\ \A w \in pending[c] : \/ w # r /\ answer[w] = "saved"
                                    \/ w = r /\ pc[r] \in {"commit", "write"}
           /\ \A w \in db : w # r
           /\ \A d \in Own \ {c} : ~ Uses(r, d)
           /\ Uses(r, c) => Place(r, c)
           /\ ~ Uses(r, c) => /\ c \in pool \/ c \notin opened
                              /\ (c \in pool => autoCommit[c]) => Clean(c)
<1>1. pc[r] # "done"
  BY DEF Has, Uses
<1>2. answer[r] = "none"
  BY <1>1 DEF IInv, ReqInv
<1>3. ConnInv(c)
  BY DEF IInv
<1>4. ASSUME ~ Uses(r, c)
      PROVE  (c \in pool \/ c \notin opened) /\ \A q \in Requests : ~ Uses(q, c)
  <2>1. MayTake(c)
    BY <1>4 DEF Has
  <2>2. c \in pool \/ c \notin opened
    BY <2>1 DEF MayTake
  <2> QED  BY <1>3, <2>2 DEF ConnInv, Place
<1>5. \A q \in Requests \ {r} : ~ Uses(q, c)
  BY <1>3, <1>4 DEF ConnInv
<1>6. \A w \in db : w # r
  BY <1>2 DEF IInv, ReqInv
<1>7. \A d \in Own \ {c} : ~ Uses(r, d)
  BY DEF Has, Uses
<1>8. ASSUME NEW w \in pending[c]
      PROVE  \/ w # r /\ answer[w] = "saved"
             \/ w = r /\ pc[r] \in {"commit", "write"}
  <2>1. CASE answer[w] = "saved"
    BY <1>2, <2>1
  <2>2. CASE pc[w] \in {"commit", "write"} /\ conn[w] = c
    <3>1. w \in Requests
      BY DEF IInv, Types, SessionTypes, Requests
    <3>2. w = r
      BY <1>5, <2>2, <3>1 DEF Uses
    <3> QED  BY <2>2, <3>2
  <2> QED  BY <1>3, <2>1, <2>2 DEF ConnInv
<1>9. Uses(r, c) => Place(r, c)
  BY <1>3 DEF ConnInv
<1>10. ~ Uses(r, c) => ((c \in pool => autoCommit[c]) => Clean(c))
  BY <1>3, <1>4 DEF ConnInv
<1> QED  BY <1>1, <1>2, <1>4, <1>5, <1>6, <1>7, <1>8, <1>9, <1>10

(* A step of request r on connection c keeps the invariant if it leaves r    *)
(* and c as they have to be.                                                 *)
LEMMA StepEnds ==
    ASSUME IInv, NEW r \in Requests, NEW c \in Own, Has(r, c),
           NEW l \in Labels \ {"start"}, NEW a \in Answers, a # "none" => l = "done",
           phase = "serving", UNCHANGED <<phase, table>>,
           pc' = [pc EXCEPT ![r] = l],
           answer' \in [Requests -> Answers], answer'[r] = a,
           \A q \in Requests \ {r} : answer'[q] = answer[q],
           conn' \in [Requests -> Own \cup {None}],
           \A q \in Requests \ {r} : conn'[q] = conn[q],
           l # "done" => conn'[r] = c,
           l \in Writing => r \in Writes, l \in Listing => r \in Lists,
           Elsewhere(c), PoolTypes', SessionTypes',
           l # "done" => Place(r, c)',
           l = "done" => Clean(c)' \/ (c \in pool' /\ ~ autoCommit'[c]),
           \A w \in pending'[c] :
               \/ w # r /\ answer[w] = "saved"
               \/ w = r /\ (a = "saved" \/ l \in {"commit", "write"}),
           db' \subseteq Writes, \A w \in db' : answer'[w] = "saved",
           shown' \in [Lists -> SUBSET Writes],
           \A x \in Lists : \A w \in shown'[x] : answer'[w] = "saved"
    PROVE  IInv'
<1>1. /\ pc'[r] = l /\ answer'[r] = a
      /\ \A q \in Requests \ {r} :
            pc'[q] = pc[q] /\ answer'[q] = answer[q] /\ conn'[q] = conn[q]
      /\ pc' \in [Requests -> Labels] /\ answer' \in [Requests -> Answers]
  BY DEF IInv, Types
<1>2. Types'
  <2>1. phase' \in {"check", "rebuild", "serving"} /\ table' \in BOOLEAN
    BY DEF IInv, Types
  <2> QED  BY <1>1, <2>1 DEF Types
<1>3. ReqInv'
  <2>1. ASSUME NEW q \in Requests
        PROVE  /\ pc'[q] \notin {"start", "done"} => conn'[q] \in Own
               /\ answer'[q] # "none" => pc'[q] = "done"
               /\ pc'[q] \in Writing => q \in Writes
               /\ pc'[q] \in Listing => q \in Lists
    BY <1>1 DEF IInv, ReqInv
  <2>2. phase' = "serving"
    OBVIOUS
  <2> QED  BY <2>1, <2>2 DEF ReqInv
<1>4. ConnInv(c)'
  <2>1. \A q \in Requests \ {r} : ~ Uses(q, c)'
    BY <1>1, OnlyUser DEF Uses
  <2>2. Uses(r, c)' => Place(r, c)'
    BY <1>1 DEF Uses
  <2>3. l # "done" => Uses(r, c)'
    BY <1>1 DEF Uses
  <2>4. (\A q \in Requests : ~ Uses(q, c)') /\ (c \in pool' => autoCommit'[c]) => Clean(c)'
    BY <2>3
  <2>5. ASSUME NEW w \in pending'[c]
        PROVE  answer'[w] = "saved" \/ (pc'[w] \in {"commit", "write"} /\ conn'[w] = c)
    <3>1. w \in Requests
      BY <1>2 DEF Types, SessionTypes, Requests
    <3>2. CASE w = r
      <4>1. l \in {"commit", "write"} => conn'[r] = c
        OBVIOUS
      <4> QED  BY <1>1, <3>2, <4>1
    <3>3. CASE w # r
      BY <1>1, <3>1, <3>3
    <3> QED  BY <3>2, <3>3
  <2> QED  BY <2>1, <2>2, <2>4, <2>5 DEF ConnInv
<1>5. ASSUME NEW d \in Own, d # c PROVE ConnInv(d)'
  <2>1. Spares(d) /\ ConnInv(d)
    BY <1>5 DEF Elsewhere, IInv
  <2>2. ~ Uses(r, d) /\ ~ Uses(r, d)'
    BY <1>1, <1>5, OnlyUser DEF Uses
  <2>3. ASSUME NEW q \in Requests PROVE Uses(q, d)' <=> Uses(q, d)
    BY <1>1, <2>2 DEF Uses
  <2>4. ASSUME NEW q \in Requests, Uses(q, d)' PROVE Place(q, d)'
    <3>1. Place(q, d) /\ pc'[q] = pc[q]
      BY <1>1, <2>1, <2>2, <2>3, <2>4 DEF ConnInv
    <3> QED  BY <2>1, <3>1 DEF Place, Spares, Clean
  <2>5. \A q, s \in Requests : Uses(q, d)' /\ Uses(s, d)' => q = s
    BY <2>1, <2>3 DEF ConnInv
  <2>6. (\A q \in Requests : ~ Uses(q, d)') /\ (d \in pool' => autoCommit'[d]) => Clean(d)'
    BY <2>1, <2>3 DEF ConnInv, Spares, Clean
  <2>7. ASSUME NEW w \in pending'[d]
        PROVE  answer'[w] = "saved" \/ (pc'[w] \in {"commit", "write"} /\ conn'[w] = d)
    <3>1. w \in pending[d] /\ w \in Requests
      BY <1>2, <2>1 DEF Spares, Types, SessionTypes, Requests
    <3>2. w # r
      BY <2>1, <2>2, <3>1, OnlyUser DEF ConnInv, Uses
    <3> QED  BY <1>1, <2>1, <3>1, <3>2 DEF ConnInv
  <2> QED  BY <2>4, <2>5, <2>6, <2>7 DEF ConnInv
<1> QED  BY <1>2, <1>3, <1>4, <1>5 DEF IInv

\* The request goes on with its connection.
LEMMA GoesOn ==
    ASSUME IInv, NEW r \in Requests, NEW c \in Own, Has(r, c),
           NEW l \in Labels \ {"start", "done"},
           phase = "serving", UNCHANGED <<phase, table, db, answer, shown>>,
           pc' = [pc EXCEPT ![r] = l],
           conn' \in [Requests -> Own \cup {None}], conn'[r] = c,
           \A q \in Requests \ {r} : conn'[q] = conn[q],
           l \in Writing => r \in Writes, l \in Listing => r \in Lists,
           Elsewhere(c), PoolTypes', SessionTypes',
           Place(r, c)',
           pending'[c] \in {{}, pending[c]} \/ (l \in {"commit", "write"} /\ pending'[c] = {r}),
           pc[r] \in {"commit", "write"} => l \in {"commit", "write"}
    PROVE  IInv'
<1>1. answer[r] = "none" /\ answer \in [Requests -> Answers] /\ "none" \in Answers
  BY OnlyUser DEF IInv, Types, Answers
<1>2. /\ answer' \in [Requests -> Answers] /\ answer'[r] = "none"
      /\ \A q \in Requests \ {r} : answer'[q] = answer[q]
  BY <1>1
<1>4. \A w \in pending'[c] : \/ w # r /\ answer[w] = "saved"
                             \/ w = r /\ l \in {"commit", "write"}
  BY OnlyUser
<1>5. /\ db' \subseteq Writes /\ \A w \in db' : answer'[w] = "saved"
      /\ shown' \in [Lists -> SUBSET Writes]
      /\ \A x \in Lists : \A w \in shown'[x] : answer'[w] = "saved"
  BY DEF IInv, Types, ReqInv
<1>6. /\ l \in Labels \ {"start"} /\ l # "done" /\ ~ ("none" # "none")
      /\ UNCHANGED <<phase, table>>
  OBVIOUS
<1>7. \A w \in pending'[c] : \/ w # r /\ answer[w] = "saved"
                             \/ w = r /\ ("none" = "saved" \/ l \in {"commit", "write"})
  BY <1>4
<1> QED  BY <1>1, <1>2, <1>5, <1>6, <1>7, StepEnds

\* The request is answered.
LEMMA IsAnswered ==
    ASSUME IInv, NEW r \in Requests, NEW c \in Own, Has(r, c),
           NEW a \in {"saved", "listed", "failed"},
           phase = "serving", UNCHANGED <<phase, table, conn>>, Answer(r, a),
           db' = db \/ (a = "saved" /\ db' \subseteq db \cup pending[c]),
           \/ shown' = shown
           \/ \E s \in SUBSET View(c) : r \in Lists /\ shown' = [shown EXCEPT ![r] = s],
           pc[r] \in {"commit", "write"} => a = "saved",
           Elsewhere(c), PoolTypes', SessionTypes',
           Clean(c)' \/ (c \in pool' /\ ~ autoCommit'[c]),
           pending'[c] \in {{}, pending[c]}
    PROVE  IInv'
<1>1. /\ pc' = [pc EXCEPT ![r] = "done"] /\ answer' = [answer EXCEPT ![r] = a]
      /\ "done" \in Labels \ {"start"} /\ a \in Answers
  BY DEF Answer, Labels, Answers
<1>2. conn' \in [Requests -> Own \cup {None}]
  BY DEF IInv, Types
<1>3. /\ \A w \in pending[c] : \/ w # r /\ answer[w] = "saved"
                               \/ w = r /\ a = "saved"
      /\ answer[r] = "none"
  BY OnlyUser
<1>4. /\ answer' \in [Requests -> Answers] /\ answer'[r] = a
       /\ \A q \in Requests \ {r} : answer'[q] = answer[q]
  BY <1>1 DEF IInv, Types
<1>5. \A w \in Requests : answer[w] = "saved" \/ (w = r /\ a = "saved") => answer'[w] = "saved"
  BY <1>1, <1>3 DEF IInv, Types
<1>6. /\ db \subseteq Writes /\ pending[c] \subseteq Writes /\ Writes \subseteq Requests
      /\ shown \in [Lists -> SUBSET Writes]
      /\ (\A w \in db : answer[w] = "saved")
      /\ \A x \in Lists : \A w \in shown[x] : answer[w] = "saved"
  BY DEF IInv, Types, SessionTypes, Requests, ReqInv
<1>7. View(c) \subseteq Writes /\ \A w \in View(c) : answer'[w] = "saved"
  BY <1>3, <1>5, <1>6 DEF View
<1>8. db' \subseteq Writes /\ \A w \in db' : answer'[w] = "saved"
  BY <1>6, <1>7, <1>5 DEF View
<1>9. /\ shown' \in [Lists -> SUBSET Writes]
      /\ \A x \in Lists : \A w \in shown'[x] : answer'[w] = "saved"
  BY <1>5, <1>6, <1>7
<1>10. ~ ("done" \in Writing) /\ ~ ("done" \in Listing)
  BY DEF Writing, Listing
<1> QED  BY <1>1, <1>2, <1>3, <1>8, <1>9, <1>10, <1>4, StepEnds

\* The locks of one connection move.
LEMMA LevelMoves ==
    ASSUME PoolTypes, SessionTypes, NEW c \in Own,
           UNCHANGED <<opened, pool, autoCommit>>, schema' \subseteq opened,
           \/ Share(c) \/ Reserve(c) \/ Pend(c) \/ Exclude(c)
           \/ Lower(c, NO_LOCK) \/ UNCHANGED level,
           \/ UNCHANGED pending
           \/ \E r \in Writes : pending' = [pending EXCEPT ![c] = @ \cup {r}]
    PROVE  PoolTypes' /\ SessionTypes' /\ Elsewhere(c)
<1>1. /\ level' \in [Conns -> LockLevels] /\ \A d \in Own \ {c} : level'[d] = level[d]
  BY LockMoves, OwnAreConns DEF SessionTypes
<1>2. pending' \in [Own -> SUBSET Writes] /\ \A d \in Own \ {c} : pending'[d] = pending[d]
  BY DEF SessionTypes
<1> QED  BY <1>1, <1>2 DEF PoolTypes, SessionTypes, Elsewhere, Spares

------------------------------------------------------------------------------
(* The actions                                                               *)

LEMMA AtWork ==
    ASSUME IInv, NEW r \in Requests, pc[r] \notin {"start", "done"}
    PROVE  /\ conn[r] \in Own /\ conn[r] \in opened \ pool
           /\ Uses(r, conn[r]) /\ Has(r, conn[r]) /\ Place(r, conn[r])
           /\ phase = "serving"
<1>1. conn[r] \in Own /\ phase = "serving"
  BY DEF IInv, ReqInv
<1>2. Uses(r, conn[r])
  BY DEF Uses
<1>3. Place(r, conn[r])
  BY <1>1, <1>2 DEF IInv, ConnInv
<1> QED  BY <1>1, <1>2, <1>3 DEF Has, Place

LEMMA TypesHold ==
    ASSUME IInv
    PROVE  /\ PoolTypes /\ SessionTypes /\ pc \in [Requests -> Labels]
           /\ conn \in [Requests -> Own \cup {None}]
           /\ autoCommit \in [Own -> BOOLEAN] /\ pending \in [Own -> SUBSET Writes]
           /\ level \in [Conns -> LockLevels]
  BY DEF IInv, Types, SessionTypes

LEMMA BeginStep ==
    ASSUME IInv, NEW r \in Requests, NEW c \in Own, Begin(r, c)
    PROVE  IInv'
<1>1. /\ r \in Writes /\ phase = "serving" /\ pc[r] = "start"
      /\ pc' = [pc EXCEPT ![r] = "prepare"] /\ MayTake(c) /\ autoCommit[c]
      /\ opened' = opened \cup {c} /\ pool' = pool \ {c} /\ conn' = [conn EXCEPT ![r] = c]
      /\ autoCommit' = [autoCommit EXCEPT ![c] = FALSE]
      /\ UNCHANGED <<phase, table, db, schema, pending, answer, shown, level>>
  BY DEF Begin, Go, Take, file, lockVars
<1>2. Has(r, c) /\ ~ Uses(r, c)
  BY <1>1 DEF Has, Uses
<1>3. Clean(c)
  BY <1>1, <1>2, OnlyUser
<1>4. PoolTypes' /\ SessionTypes' /\ Elsewhere(c)
  BY <1>1, TypesHold DEF PoolTypes, SessionTypes, Elsewhere, Spares
<1>5. ~ autoCommit'[c] /\ pc'[r] = "prepare" /\ c \in opened' \ pool' /\ Clean(c)'
  BY <1>1, <1>3, TypesHold DEF Clean
<1>6. Place(r, c)'
  BY <1>5 DEF Place
<1>7. "prepare" \in Labels \ {"start", "done"} /\ "prepare" \notin Listing
  BY DEF Labels, Listing
<1>8. /\ conn' \in [Requests -> Own \cup {None}] /\ conn'[r] = c
      /\ \A q \in Requests \ {r} : conn'[q] = conn[q]
  BY <1>1, TypesHold
<1> QED  BY <1>1, <1>2, <1>4, <1>6, <1>7, <1>8, GoesOn

LEMMA QueryStep ==
    ASSUME IInv, NEW r \in Requests, NEW c \in Own, Query(r, c)
    PROVE  IInv'
<1>1. /\ r \in Lists /\ phase = "serving" /\ pc[r] = "start"
      /\ pc' = [pc EXCEPT ![r] = "rows"] /\ MayTake(c) /\ schema' = schema \cup {c}
      /\ opened' = opened \cup {c} /\ pool' = pool \ {c} /\ conn' = [conn EXCEPT ![r] = c]
      /\ UNCHANGED <<phase, table, db, autoCommit, pending, answer, shown, level>>
  BY DEF Query, Go, Take, file, session, lockVars
<1>2. Has(r, c) /\ ~ Uses(r, c)
  BY <1>1 DEF Has, Uses
<1>3. autoCommit[c] => Clean(c)
  BY <1>1, <1>2, OnlyUser
<1>4. PoolTypes' /\ SessionTypes' /\ Elsewhere(c)
  BY <1>1, TypesHold DEF PoolTypes, SessionTypes, Elsewhere, Spares
<1>5. pc'[r] = "rows" /\ c \in opened' \ pool' /\ (autoCommit'[c] => pending'[c] = {})
  BY <1>1, <1>3, TypesHold DEF Clean
<1>6. Place(r, c)'
  BY <1>5 DEF Place, Writing
<1>7. "rows" \in Labels \ {"start", "done"} /\ "rows" \notin Writing
  BY DEF Labels, Writing
<1>8. /\ conn' \in [Requests -> Own \cup {None}] /\ conn'[r] = c
      /\ \A q \in Requests \ {r} : conn'[q] = conn[q]
  BY <1>1, TypesHold
<1> QED  BY <1>1, <1>2, <1>4, <1>6, <1>7, <1>8, GoesOn

LEMMA RefusedSteps ==
    ASSUME IInv, NEW r \in Requests, NEW c \in Own, BeginRefused(r, c) \/ QueryFails(r, c)
    PROVE  IInv'
<1>1. /\ phase = "serving" /\ pc[r] = "start" /\ MayTake(c) /\ Answer(r, "failed")
      /\ UNCHANGED <<phase, table, db, schema, autoCommit, pending, conn, shown, level>>
  BY DEF BeginRefused, QueryFails, file, session, lockVars
<1>2. Has(r, c) /\ ~ Uses(r, c)
  BY <1>1 DEF Has, Uses
<1>3. (c \in pool \/ c \notin opened) /\ ((c \in pool => autoCommit[c]) => Clean(c))
  BY <1>2, OnlyUser
<1>4. CASE BeginRefused(r, c)
  <2>1. ~ autoCommit[c] /\ UNCHANGED <<opened, pool>>
    BY <1>4 DEF BeginRefused
  <2>2. PoolTypes' /\ SessionTypes' /\ Elsewhere(c)
    BY <1>1, <2>1, TypesHold DEF PoolTypes, SessionTypes, Elsewhere, Spares
  <2>3. Clean(c)' \/ (c \in pool' /\ ~ autoCommit'[c])
    BY <1>1, <1>3, <2>1 DEF Clean
  <2> QED  BY <1>1, <1>2, <2>2, <2>3, IsAnswered
<1>5. CASE QueryFails(r, c)
  <2>1. opened' = opened \cup {c} /\ pool' = pool \cup {c}
    BY <1>5 DEF QueryFails
  <2>2. PoolTypes' /\ SessionTypes' /\ Elsewhere(c)
    BY <1>1, <2>1, TypesHold DEF PoolTypes, SessionTypes, Elsewhere, Spares
  <2>3. Clean(c)' \/ (c \in pool' /\ ~ autoCommit'[c])
    BY <1>1, <1>3, <2>1 DEF Clean
  <2> QED  BY <1>1, <1>2, <2>2, <2>3, IsAnswered
<1> QED  BY <1>4, <1>5

LEMMA WriteSteps ==
    ASSUME IInv, NEW r \in Requests,
           \/ Prepare(r) \/ ExecShared(r) \/ ExecReserved(r) \/ ExecAgain(r)
           \/ CommitWait(r) \/ CommitAlone(r)
    PROVE  IInv'
<1>1. pc[r] \in Writing /\ pc[r] \notin {"start", "done"} /\ phase = "serving" /\ r \in Writes
  <2>1. pc[r] \in Writing
    BY DEF Prepare, ExecShared, ExecReserved, ExecAgain, CommitWait, CommitAlone, Go, Writing
  <2>2. pc[r] \notin {"start", "done"}
    BY <2>1 DEF Writing
  <2> QED  BY <2>1, <2>2, AtWork DEF IInv, ReqInv
<1>2. PICK c \in Own : c = conn[r]
  BY <1>1, AtWork
<1>3. /\ c \in Own /\ c \in opened \ pool /\ Uses(r, c) /\ Has(r, c) /\ Place(r, c)
      /\ ~ autoCommit[c]
  BY <1>1, <1>2, AtWork DEF Place
<1>4. Writing \subseteq Labels \ {"start", "done"} /\ Writing \cap Listing = {}
  BY DEF Writing, Listing, Labels
<1>5. /\ UNCHANGED <<phase, table, db, answer, shown, conn, opened, pool, autoCommit>>
      /\ PoolTypes /\ SessionTypes /\ c \in Conns
  BY <1>3, TypesHold, OwnAreConns DEF Prepare, ExecShared, ExecReserved, ExecAgain, CommitWait,
      CommitAlone, file, session
\* What is left to show of each.
<1>6. ASSUME NEW l \in Writing, pc' = [pc EXCEPT ![r] = l], schema' \subseteq opened,
             \/ Share(c) \/ Reserve(c) \/ Pend(c) \/ Exclude(c)
             \/ Lower(c, NO_LOCK) \/ UNCHANGED level,
             l # "prepare",
             \/ l \in {"exec", "reserve"} /\ UNCHANGED pending /\ pending[c] = {}
             \/ l \in {"commit", "write"} /\ UNCHANGED pending /\ pending[c] = {r}
             \/ l = "commit" /\ pending[c] = {} /\ pending' = [pending EXCEPT ![c] = @ \cup {r}],
             pc[r] \in {"commit", "write"} => l \in {"commit", "write"}
      PROVE  IInv'
  <2>1. PoolTypes' /\ SessionTypes' /\ Elsewhere(c)
    BY <1>1, <1>3, <1>5, <1>6, LevelMoves
  <2>2. pc'[r] = l
    BY <1>6, TypesHold
  <2>3. /\ l \in {"exec", "reserve"} => pending'[c] = {}
        /\ l \in {"commit", "write"} => pending'[c] = {r}
    BY <1>3, <1>6, TypesHold
  <2>4. Place(r, c)'
    BY <1>3, <1>4, <1>5, <1>6, <2>2, <2>3 DEF Place
  <2>5. pending'[c] \in {{}, pending[c]} \/ (l \in {"commit", "write"} /\ pending'[c] = {r})
    BY <1>6, <2>3
  <2>6. l \in Labels \ {"start", "done"} /\ (l \in Listing => r \in Lists)
    BY <1>4, <1>6
  <2>7. /\ conn' \in [Requests -> Own \cup {None}] /\ conn'[r] = c
        /\ \A q \in Requests \ {r} : conn'[q] = conn[q]
    BY <1>5, <1>2, TypesHold
  <2>8. /\ pc' = [pc EXCEPT ![r] = l]
        /\ pc[r] \in {"commit", "write"} => l \in {"commit", "write"}
    BY <1>6
  <2>9. UNCHANGED <<phase, table, db, answer, shown>>
    BY <1>5
  <2>10. l \in Writing => r \in Writes
    BY <1>1
  <2> QED  BY <1>1, <1>3, <2>1, <2>4, <2>5, <2>6, <2>7, <2>8, <2>9, <2>10, GoesOn
<1>7. CASE Prepare(r)
  <2>1. /\ pc[r] = "prepare" /\ pc' = [pc EXCEPT ![r] = "exec"] /\ schema' = schema \cup {c}
        /\ UNCHANGED <<level, pending>>
    BY <1>7, <1>2 DEF Prepare, Go, session, lockVars
  <2>2. schema' \subseteq opened /\ pending[c] = {}
    BY <1>3, <1>5, <2>1 DEF PoolTypes, Place, Clean
  <2> QED  BY <1>6, <2>1, <2>2 DEF Writing
<1>8. CASE ExecShared(r)
  <2>1. /\ pc[r] = "exec" /\ pc' = [pc EXCEPT ![r] = "reserve"] /\ UNCHANGED <<schema, pending>>
        /\ Share(c) \/ UNCHANGED level
    BY <1>8, <1>2 DEF ExecShared, Go, session, lockVars, GetShared
  <2>2. schema' \subseteq opened /\ pending[c] = {}
    BY <1>3, <1>5, <2>1 DEF PoolTypes, Place
  <2> QED  BY <1>6, <2>1, <2>2 DEF Writing
<1>9. CASE ExecReserved(r)
  <2>1. /\ pc[r] = "reserve" /\ pc' = [pc EXCEPT ![r] = "commit"] /\ UNCHANGED schema
        /\ pending' = [pending EXCEPT ![c] = @ \cup {r}]
        /\ Reserve(c) \/ UNCHANGED level
    BY <1>9, <1>2 DEF ExecReserved, Go, lockVars, GetReserved
  <2>2. schema' \subseteq opened /\ pending[c] = {}
    BY <1>3, <1>5, <2>1 DEF PoolTypes, Place
  <2> QED  BY <1>6, <2>1, <2>2 DEF Writing
<1>10. CASE ExecAgain(r)
  <2>1. /\ pc[r] = "reserve" /\ pc' = [pc EXCEPT ![r] = "exec"] /\ UNCHANGED <<schema, pending>>
        /\ Lower(c, NO_LOCK)
    BY <1>10, <1>2 DEF ExecAgain, Go, session
  <2>2. schema' \subseteq opened /\ pending[c] = {}
    BY <1>3, <1>5, <2>1 DEF PoolTypes, Place
  <2> QED  BY <1>6, <2>1, <2>2 DEF Writing
<1>11. CASE CommitWait(r)
  <2>1. pc[r] = "commit" /\ UNCHANGED <<pc, schema, pending>> /\ Pend(c)
    BY <1>11, <1>2 DEF CommitWait, session
  <2>2. schema' \subseteq opened /\ pending[c] = {r} /\ pc' = [pc EXCEPT ![r] = "commit"]
    BY <1>3, <1>5, <2>1, TypesHold DEF PoolTypes, Place
  <2> QED  BY <1>6, <2>1, <2>2 DEF Writing
<1>12. CASE CommitAlone(r)
  <2>1. /\ pc[r] = "commit" /\ pc' = [pc EXCEPT ![r] = "write"] /\ UNCHANGED <<schema, pending>>
        /\ Exclude(c)
    BY <1>12, <1>2 DEF CommitAlone, Go, session
  <2>2. schema' \subseteq opened /\ pending[c] = {r}
    BY <1>3, <1>5, <2>1 DEF PoolTypes, Place
  <2> QED  BY <1>6, <2>1, <2>2 DEF Writing
<1> QED  BY <1>7, <1>8, <1>9, <1>10, <1>11, <1>12

LEMMA FirstRowStep ==
    ASSUME IInv, NEW r \in Requests, FirstRow(r)
    PROVE  IInv'
<1>1. pc[r] = "rows" /\ phase = "serving" /\ r \in Lists
  BY DEF FirstRow, Go, IInv, ReqInv, Listing
<1>2. PICK c \in Own : c = conn[r]
  BY <1>1, AtWork
<1>3. c \in opened \ pool /\ Uses(r, c) /\ Has(r, c) /\ Place(r, c)
  BY <1>1, <1>2, AtWork
<1>4. /\ pc' = [pc EXCEPT ![r] = "reading"]
      /\ Share(c) \/ UNCHANGED level
      /\ UNCHANGED <<phase, table, db, answer, shown, conn, opened, pool, schema,
                     autoCommit, pending>>
  BY <1>2 DEF FirstRow, Go, GetShared, file, session, lockVars
<1>5. PoolTypes' /\ SessionTypes' /\ Elsewhere(c)
  BY <1>4, TypesHold, LevelMoves DEF PoolTypes
<1>6. pc'[r] = "reading"
  BY <1>4, TypesHold
<1>7. Place(r, c)'
  BY <1>1, <1>3, <1>4, <1>6 DEF Place, Writing, Listing
<1>8. /\ conn' \in [Requests -> Own \cup {None}] /\ conn'[r] = c
      /\ \A q \in Requests \ {r} : conn'[q] = conn[q]
  BY <1>2, <1>4, TypesHold
<1>9. "reading" \in Labels \ {"start", "done"} /\ "reading" \notin Writing
  BY DEF Labels, Writing
<1>10. UNCHANGED <<phase, table, db, answer, shown>> /\ pending'[c] \in {{}, pending[c]}
  BY <1>4
<1>11. pc' = [pc EXCEPT ![r] = "reading"] /\ pc[r] \notin {"commit", "write"}
  BY <1>1, <1>4
<1> QED  BY <1>1, <1>3, <1>5, <1>7, <1>8, <1>9, <1>10, <1>11, GoesOn

\* The request keeps its connection from the pool for good.
LEMMA LosingSteps ==
    ASSUME IInv, NEW r \in Requests, PrepareFails(r) \/ ExecBusy(r) \/ ExecFails(r)
    PROVE  IInv'
<1>1. pc[r] \in {"prepare", "exec", "reserve"}
  BY DEF PrepareFails, ExecBusy, ExecFails
<1>2. PICK c \in Own : c = conn[r]
  BY <1>1, AtWork
<1>3. c \in opened \ pool /\ Has(r, c) /\ Place(r, c) /\ phase = "serving" /\ c \in Conns
  BY <1>1, <1>2, AtWork, OwnAreConns
<1>4. /\ Answer(r, "failed")
      /\ UNCHANGED <<phase, table, db, shown, conn, opened, pool, schema>>
  BY DEF PrepareFails, ExecBusy, ExecFails, file
<1>5. ASSUME PoolTypes', SessionTypes', Elsewhere(c), Clean(c)' PROVE IInv'
  <2>1. pending'[c] \in {{}, pending[c]}
    BY <1>5 DEF Clean
  <2> QED  BY <1>1, <1>3, <1>4, <1>5, <2>1, IsAnswered
<1>6. CASE PrepareFails(r)
  <2>1. UNCHANGED <<level, pending, autoCommit>> /\ Clean(c)
    BY <1>3, <1>6 DEF PrepareFails, session, lockVars, Place
  <2> QED  BY <1>4, <1>5, <2>1, TypesHold DEF PoolTypes, SessionTypes, Elsewhere, Spares, Clean
<1>7. CASE ExecBusy(r)
  <2>1. UNCHANGED <<pending, autoCommit>> /\ Unlock(c) /\ pending[c] = {}
    BY <1>1, <1>2, <1>3, <1>7 DEF ExecBusy, session, Place
  <2>2. /\ level' \in [Conns -> LockLevels] /\ level'[c] = NO_LOCK
        /\ \A d \in Own \ {c} : level'[d] = level[d]
    BY <1>3, <2>1, Unlocks, TypesHold, OwnAreConns
  <2> QED  BY <1>4, <1>5, <2>1, <2>2, TypesHold DEF PoolTypes, SessionTypes, Elsewhere, Spares, Clean
<1>8. CASE ExecFails(r)
  <2>1. Ended(c) /\ Unlock(c)
    BY <1>2, <1>8 DEF ExecFails
  <2>2. /\ SessionTypes' /\ Clean(c)'
        /\ \A d \in Own \ {c} : /\ level'[d] = level[d] /\ pending'[d] = pending[d]
                                /\ autoCommit'[d] = autoCommit[d]
    BY <2>1, EndsSession, TypesHold
  <2> QED  BY <1>4, <1>5, <2>2, TypesHold DEF PoolTypes, Elsewhere, Spares
<1> QED  BY <1>6, <1>7, <1>8

\* The request returns its connection.
LEMMA ReturningSteps ==
    ASSUME IInv, NEW r \in Requests,
           \/ Commit(r) \/ CommitBusy(r) \/ CommitFails(r)
           \/ RowsBusy(r) \/ LastRow(r) \/ RowFails(r)
    PROVE  IInv'
<1>1. /\ pc[r] \in {"commit", "write", "rows", "reading"}
      /\ pc[r] \in {"rows", "reading"} => r \in Lists
  BY DEF Commit, CommitBusy, CommitFails, RowsBusy, LastRow, RowFails, IInv, ReqInv, Listing
<1>2. PICK c \in Own : c = conn[r]
  BY <1>1, AtWork
<1>3. c \in opened \ pool /\ Has(r, c) /\ Place(r, c) /\ phase = "serving"
  BY <1>1, <1>2, AtWork
<1>4. ASSUME NEW a \in {"saved", "listed"}, Answer(r, a), UNCHANGED <<phase, table>>,
             db' = db \/ (a = "saved" /\ db' \subseteq db \cup pending[c]),
             \/ shown' = shown
             \/ \E s \in SUBSET View(c) : r \in Lists /\ shown' = [shown EXCEPT ![r] = s],
             pc[r] \in {"commit", "write"} => a = "saved",
             \/ GiveBack(c)
             \/ GiveBackOpen(c) /\ (autoCommit[c] => Clean(c))
      PROVE  IInv'
  <2>1. CASE GiveBack(c)
    <3>1. PoolTypes' /\ SessionTypes' /\ Elsewhere(c) /\ Clean(c)' /\ conn' = conn
      BY <1>3, <2>1, GivesBack, TypesHold
    <3>2. pending'[c] \in {{}, pending[c]}
      BY <3>1 DEF Clean
    <3> QED  BY <1>3, <1>4, <3>1, <3>2, IsAnswered
  <2>2. CASE GiveBackOpen(c) /\ (autoCommit[c] => Clean(c))
    <3>1. /\ PoolTypes' /\ SessionTypes' /\ Elsewhere(c) /\ conn' = conn
          /\ Clean(c)' \/ (c \in pool' /\ UNCHANGED <<level, pending, autoCommit>>)
      BY <1>3, <2>2, GivesBackOpen, TypesHold
    <3>2. Clean(c)' \/ (c \in pool' /\ ~ autoCommit'[c])
      BY <2>2, <3>1 DEF Clean
    <3>3. pending'[c] \in {{}, pending[c]}
      BY <3>1 DEF Clean
    <3> QED  BY <1>3, <1>4, <3>1, <3>2, <3>3, IsAnswered
  <2> QED  BY <1>4, <2>1, <2>2
<1>5. CASE Commit(r)
  BY <1>2, <1>4, <1>5 DEF Commit
<1>6. CASE CommitBusy(r)
  <2>1. ~ autoCommit[c]
    BY <1>3, <1>6 DEF CommitBusy, Place, Writing
  <2> QED  BY <1>2, <1>4, <1>6, <2>1 DEF CommitBusy, file
<1>7. CASE CommitFails(r)
  BY <1>2, <1>4, <1>7 DEF CommitFails, file
<1>8. CASE RowsBusy(r)
  <2>1. r \in Lists /\ Answer(r, "listed") /\ shown' = [shown EXCEPT ![r] = {}]
        /\ GiveBackOpen(c) /\ UNCHANGED <<phase, table, db>>
    BY <1>1, <1>2, <1>8 DEF RowsBusy, Show, file
  <2>2. autoCommit[c] => Clean(c)
    BY <1>2, <1>3, <1>8 DEF RowsBusy, NoShared, Place, Listing, Clean
  <2> QED  BY <1>4, <1>8, <2>1, <2>2 DEF RowsBusy
<1>9. CASE LastRow(r)
  <2>1. r \in Lists /\ Answer(r, "listed") /\ shown' = [shown EXCEPT ![r] = View(c)]
        /\ UNCHANGED <<phase, table, db>> /\ pc[r] = "reading"
    BY <1>1, <1>2, <1>9 DEF LastRow, Show, file
  <2>2. GiveBack(c) \/ (GiveBackOpen(c) /\ ~ autoCommit[c])
    BY <1>2, <1>9 DEF LastRow
  <2> QED  BY <1>4, <2>1, <2>2
<1>10. CASE RowFails(r)
  <2>1. r \in Lists /\ Answer(r, "listed") /\ GiveBack(c) /\ pc[r] = "reading"
        /\ (\E s \in SUBSET View(c) : shown' = [shown EXCEPT ![r] = s])
        /\ UNCHANGED <<phase, table, db>>
    BY <1>1, <1>2, <1>10 DEF RowFails, Show, file
  <2> QED  BY <1>4, <2>1
<1> QED  BY <1>5, <1>6, <1>7, <1>8, <1>9, <1>10

------------------------------------------------------------------------------
(* Opening the database, other processes, and the end of this one            *)

LEMMA AllClean ==
    ASSUME IInv, phase # "serving", NEW c \in Own
    PROVE  Clean(c) /\ \A r \in Requests : ~ Uses(r, c)
<1>1. \A r \in Requests : ~ Uses(r, c)
  BY DEF IInv, ReqInv, Uses
<1>2. c \notin pool
  BY DEF IInv, ReqInv, Types, PoolTypes
<1> QED  BY <1>1, <1>2 DEF IInv, ConnInv

\* Where no request is at work, it is enough that the connections are clean.
LEMMA AtRest ==
    ASSUME Types', \A r \in Requests : pc'[r] \in {"start", "done"},
           \A r \in Requests : answer'[r] # "none" => pc'[r] = "done",
           phase' # "serving" => opened' = {},
           \A w \in db' : answer'[w] = "saved",
           \A l \in Lists : \A w \in shown'[l] : answer'[w] = "saved",
           \A c \in Own : Clean(c)'
    PROVE  IInv'
<1>1. ReqInv'
  BY DEF ReqInv, Writing, Listing
<1>2. ASSUME NEW c \in Own PROVE ConnInv(c)'
  <2>1. \A r \in Requests : ~ Uses(r, c)'
    BY DEF Uses
  <2>2. pending'[c] = {} /\ Clean(c)'
    BY DEF Clean
  <2> QED  BY <2>1, <2>2 DEF ConnInv
<1> QED  BY <1>1, <1>2 DEF IInv

LEMMA OpeningSteps ==
    ASSUME IInv, OpenInvalid \/ \E c \in Own : Start(c)
    PROVE  IInv'
<1>1. phase # "serving"
  BY DEF OpenInvalid, Start, OpenValid, InitializeDB, InitializeFails
<1>2. UNCHANGED <<db, autoCommit, pending, pc, conn, answer, shown, level>>
  BY DEF OpenInvalid, Start, OpenValid, InitializeDB, InitializeFails, Serve, session, lockVars
<1>3. \A c \in Own : Clean(c)'
  BY <1>1, <1>2, AllClean DEF Clean
<1>4. table' \in BOOLEAN
  BY DEF OpenInvalid, Start, OpenValid, InitializeDB, InitializeFails, IInv, Types
<1>5. /\ phase' \in {"check", "rebuild", "serving"} /\ PoolTypes'
      /\ phase' # "serving" => opened' = {}
  <2>1. CASE OpenInvalid
    BY <1>1, <2>1 DEF OpenInvalid, IInv, Types, PoolTypes, ReqInv
  <2>2. CASE \E c \in Own : Start(c)
    <3>1. PICK c \in Own, knows \in BOOLEAN : Serve(c, knows)
      BY <2>2 DEF Start, OpenValid, InitializeDB, InitializeFails
    <3> QED  BY <3>1 DEF Serve, PoolTypes
  <2> QED  BY <2>1, <2>2
<1>6. Types'
  BY <1>2, <1>4, <1>5 DEF IInv, Types, SessionTypes
<1>7. /\ \A r \in Requests : pc'[r] \in {"start", "done"}
      /\ \A r \in Requests : answer'[r] # "none" => pc'[r] = "done"
      /\ \A w \in db' : answer'[w] = "saved"
      /\ \A l \in Lists : \A w \in shown'[l] : answer'[w] = "saved"
  BY <1>1, <1>2 DEF IInv, ReqInv
<1> QED  BY <1>3, <1>5, <1>6, <1>7, AtRest

LEMMA ElsewhereSteps ==
    ASSUME IInv, NEW c \in Conns, ReadElsewhere(c) \/ ReadElsewhereEnds(c)
    PROVE  IInv'
<1>1. /\ c \notin Own
      /\ Share(c) \/ Lower(c, NO_LOCK)
      /\ UNCHANGED <<phase, table, db, opened, pool, schema, autoCommit, pending,
                     pc, conn, answer, shown>>
  BY DEF ReadElsewhere, ReadElsewhereEnds, file, session
<1>2. level' \in [Conns -> LockLevels] /\ \A d \in Own : level'[d] = level[d]
  BY <1>1, TypesHold, LockMoves, OwnAreConns
<1>3. Types' /\ ReqInv'
  BY <1>1, <1>2 DEF IInv, Types, PoolTypes, SessionTypes, ReqInv
<1>4. ASSUME NEW d \in Own PROVE ConnInv(d)'
  <2>1. ConnInv(d) /\ level'[d] = level[d]
    BY <1>2 DEF IInv
  <2> QED  BY <1>1, <2>1 DEF ConnInv, Uses, Place, Clean
<1> QED  BY <1>3, <1>4 DEF IInv

LEMMA CrashStep ==
    ASSUME IInv, Crash
    PROVE  IInv'
<1>1. /\ phase' = "check" /\ opened' = {} /\ pool' = {} /\ schema' = {}
      /\ autoCommit' = [c \in Own |-> TRUE] /\ pending' = [c \in Own |-> {}]
      /\ pc' = [r \in Requests |-> IF pc[r] = "start" THEN "start" ELSE "done"]
      /\ conn' = [r \in Requests |-> None]
      /\ level' = [c \in Conns |-> IF c \in Own THEN NO_LOCK ELSE level[c]]
      /\ UNCHANGED <<table, db, answer, shown>>
  BY DEF Crash, Drop
<1>2. Types'
  BY <1>1 DEF IInv, Types, PoolTypes, SessionTypes, Labels, LockLevels, NO_LOCK, EXCLUSIVE_LOCK
<1>3. \A c \in Own : Clean(c)'
  BY <1>1, OwnAreConns DEF Clean
<1>4. /\ \A r \in Requests : pc'[r] \in {"start", "done"}
      /\ \A r \in Requests : answer'[r] # "none" => pc'[r] = "done"
      /\ \A w \in db' : answer'[w] = "saved"
      /\ \A l \in Lists : \A w \in shown'[l] : answer'[w] = "saved"
  BY <1>1 DEF IInv, ReqInv
<1> QED  BY <1>1, <1>2, <1>3, <1>4, AtRest

LEMMA Next_IInv ==
    IInv /\ [Next]_vars => IInv'
<1> SUFFICES ASSUME IInv, [Next]_vars PROVE IInv'
  OBVIOUS
<1>1. ASSUME NEW r \in Requests, Step(r) \/ Fault(r) PROVE IInv'
  BY <1>1, BeginStep, QueryStep, RefusedSteps, WriteSteps, FirstRowStep, LosingSteps,
     ReturningSteps DEF Step, Fault
<1>2. CASE UNCHANGED vars
  BY <1>2 DEF vars, lockVars, IInv, Types, PoolTypes, SessionTypes, ReqInv, ConnInv, Uses,
      Place, Clean
<1> QED  BY <1>1, <1>2, OpeningSteps, ElsewhereSteps, CrashStep DEF Next

------------------------------------------------------------------------------
(* Types and places: no two requests ever share a connection of the pool.    *)
THEOREM TxTyping == Spec => []TypeOK
<1>1. IInv => TypeOK
  <2> SUFFICES ASSUME IInv PROVE TypeOK
    OBVIOUS
  <2>1. \A c \in Own, r, s \in Requests : Uses(r, c) /\ Uses(s, c) => r = s
    BY DEF IInv, ConnInv
  <2>2. \A r \in Requests, c \in Own : Uses(r, c) => c \in opened \ pool
    BY DEF IInv, ConnInv, Place
  <2> QED  BY <2>1, <2>2 DEF TypeOK, IInv, Types, PoolTypes, SessionTypes
<1> QED  BY <1>1, Init_IInv, Next_IInv, PTL DEF Spec

(* Whatever early returns lose to the pool holds neither a lock nor a change *)
(* that is not committed (AddNote, UpdateNote, DeleteNote).                  *)
THEOREM LostHoldNothing == Spec => []LostHoldsNothing
<1>1. IInv => LostHoldsNothing
  <2> SUFFICES ASSUME IInv, NEW c \in opened \ pool, \A r \in Requests : ~ Uses(r, c)
               PROVE  level[c] = NO_LOCK /\ pending[c] = {}
    BY DEF LostHoldsNothing
  <2>1. c \in Own
    BY DEF IInv, Types, PoolTypes
  <2> QED  BY <2>1 DEF IInv, ConnInv, Clean
<1> QED  BY <1>1, Init_IInv, Next_IInv, PTL DEF Spec

(* No write that was reported as failed comes into effect or is listed.      *)
THEOREM FailedLeaveNothing == Spec => []FailedLeavesNothing
<1>1. IInv => FailedLeavesNothing
  <2> SUFFICES ASSUME IInv, NEW r \in Writes, answer[r] = "failed"
               PROVE  /\ r \notin db
                      /\ \A c \in Own : r \notin pending[c]
                      /\ \A l \in Lists : r \notin shown[l]
    BY DEF FailedLeavesNothing
  <2>1. pc[r] = "done"
    BY DEF IInv, ReqInv, Requests
  <2> QED  BY <2>1 DEF IInv, ReqInv, ConnInv
<1> QED  BY <1>1, Init_IInv, Next_IInv, PTL DEF Spec

(* Each change of the database is the one write of the request that commits. *)
THEOREM CommitOwnWrite == Spec => CommitsOwnWrite
<1>1. IInv /\ [Next]_vars =>
        [db' # db => \E r \in Writes : pc[r] = "write" /\ db' = db \cup {r}]_vars
  <2> SUFFICES ASSUME IInv, Next, db' # db
               PROVE  \E r \in Writes : pc[r] = "write" /\ db' = db \cup {r}
    OBVIOUS
  <2>1. PICK r \in Requests : Commit(r)
    BY ZenonT(60) DEF Next, Step, Fault, Start, OpenInvalid, OpenValid, InitializeDB, InitializeFails,
        Begin, BeginRefused, Query, QueryFails, Prepare, PrepareFails, ExecShared,
        ExecReserved, ExecAgain, ExecBusy, ExecFails, CommitWait, CommitAlone, CommitBusy,
        CommitFails, FirstRow, RowsBusy, LastRow, RowFails, ReadElsewhere,
        ReadElsewhereEnds, Crash, file
  <2>2. pc[r] = "write" /\ db' = db \cup pending[conn[r]]
    BY <2>1 DEF Commit
  <2>3. r \in Writes /\ pending[conn[r]] = {r}
    BY <2>2, AtWork DEF IInv, ReqInv, Writing, Place
  <2> QED  BY <2>2, <2>3
<1> QED  BY <1>1, Init_IInv, Next_IInv, PTL DEF Spec, CommitsOwnWrite
==============================================================================
