---------------------------- MODULE SessionTokens ----------------------------
(***************************************************************************)
(* sessionIDManager of src/shareNotes.go: the token that every form page   *)
(* carries and every POST must present.                                    *)
(*                                                                         *)
(* net/http runs each request on a goroutine of its own, and none of       *)
(* sidManager, its map and the random source is guarded by a lock, so      *)
(* generateSynchronizedToken is split at each access to memory that        *)
(* another goroutine may touch.                                            *)
(*                                                                         *)
(* What a data race leaves open is a choice here.  Two goroutines inside   *)
(* rand.Source at once may panic (an index leaves its table; net/http      *)
(* recovers, and that request alone is lost).  Two goroutines inside the   *)
(* map at once may lose the insertion or make a lookup miss its entry; or  *)
(* the runtime aborts the process, and that outcome is a Restart.          *)
(***************************************************************************)
EXTENDS Naturals, FiniteSets

CONSTANT Handlers    \* the goroutines that serve requests

VARIABLES
    currentID,       \* sidm.currentID
    sessionTokens,   \* sidm.sessionTokens, a partial function from IDs to strings
    drawn,           \* how many random strings were ever produced
    gen,             \* gen[h]: where h stands in generateSynchronizedToken
    tok,             \* tok[h]: its local sessionToken
    loaded,          \* loaded[h]: what currentID++ read before it adds one
    boot,            \* (history) drawn when this process was started
    overlapped,      \* (history) handlers whose generation met another one
    issued,          \* (history) the tokens this process has returned
    alone            \* (history) those of them whose generation met no other

tokenVars == <<currentID, sessionTokens, drawn, gen, tok, loaded,
               boot, overlapped, issued, alone>>

------------------------------------------------------------------------------
(* A token string is 100 random letters and the source is seeded with the    *)
(* time, so a string never repeats, not even in a later process: the n-th    *)
(* string drawn is the number n.  EmptyString is Go's zero value, which a    *)
(* map lookup returns for a missing key.                                     *)
EmptyString == 0

synchronizedToken == [ID : Nat, TokenString : Nat]

NoToken == [ID |-> 0, TokenString |-> EmptyString]

NoTokens == [i \in {} |-> EmptyString]

\* (mutant) only the newest entry is kept
AssignOnly(m, k, v) == [i \in {k} |-> v]

\* m[k] = v
Assign(m, k, v) == [i \in DOMAIN m \cup {k} |-> IF i = k THEN v ELSE m[i]]

\* m[k]
Lookup(m, k) == IF k \in DOMAIN m THEN m[k] ELSE EmptyString

\* (mutant) any token whose ID is known will do
KnownID(token) == token.ID \in DOMAIN sessionTokens

synchronizedTokenIsValid(token) ==
    Lookup(sessionTokens, token.ID) = token.TokenString

Generating == {h \in Handlers : gen[h] # "off"}

\* Another goroutine is at the map assignment while h uses the map.
MapRace(h) == \E g \in Handlers \ {h} : gen[g] = "store"

------------------------------------------------------------------------------
TokenInit ==
    /\ currentID = 0
    /\ sessionTokens = NoTokens
    /\ drawn = 0
    /\ gen = [h \in Handlers |-> "off"]
    /\ tok = [h \in Handlers |-> NoToken]
    /\ loaded = [h \in Handlers |-> 0]
    /\ boot = 0
    /\ overlapped = {}
    /\ issued = {}
    /\ alone = {}

\* A handler calls generateSynchronizedToken.
Begin(h) ==
    /\ gen[h] = "off"
    /\ gen' = [gen EXCEPT ![h] = "draw"]
    /\ overlapped' = IF Generating = {} THEN overlapped
                     ELSE overlapped \cup Generating \cup {h}
    /\ UNCHANGED <<currentID, sessionTokens, drawn, tok, loaded, boot, issued, alone>>

\* The struct literal: a random string and the current ID.  Go fixes no order
\* between the call and the load of currentID; the call touches nothing shared
\* but the random source, so that one step stands for both orders.
Draw(h) ==
    /\ gen[h] = "draw"
    /\ drawn' = drawn + 1
    /\ tok' = [tok EXCEPT ![h] = [ID |-> currentID, TokenString |-> drawn + 1]]
    /\ gen' = [gen EXCEPT ![h] = "store"]
    /\ UNCHANGED <<currentID, sessionTokens, loaded, boot, overlapped, issued, alone>>

\* Another goroutine is inside src.Int63() too, and h's call panics.
DrawPanics(h) ==
    /\ gen[h] = "draw"
    /\ \E g \in Handlers \ {h} : gen[g] = "draw"
    /\ gen' = [gen EXCEPT ![h] = "off"]
    /\ overlapped' = overlapped \ {h}
    /\ UNCHANGED <<currentID, sessionTokens, drawn, tok, loaded, boot, issued, alone>>

\* sidm.sessionTokens[sessionToken.ID] = sessionToken.TokenString
StoreToken(h) ==
    /\ gen[h] = "store"
    /\ \/ sessionTokens' = Assign(sessionTokens, tok[h].ID, tok[h].TokenString)
       \/ MapRace(h) /\ UNCHANGED sessionTokens
    /\ gen' = [gen EXCEPT ![h] = "load"]
    /\ UNCHANGED <<currentID, drawn, tok, loaded, boot, overlapped, issued, alone>>

\* sidm.currentID++, the load
LoadID(h) ==
    /\ gen[h] = "load"
    /\ loaded' = [loaded EXCEPT ![h] = currentID]
    /\ gen' = [gen EXCEPT ![h] = "incr"]
    /\ UNCHANGED <<currentID, sessionTokens, drawn, tok, boot, overlapped, issued, alone>>

\* (mutant) the increment forgotten
NotIncremented(id) == id

Incremented(id) == id + 1

\* sidm.currentID++, the store; then the token is returned.
StoreID(h) ==
    /\ gen[h] = "incr"
    /\ currentID' = Incremented(loaded[h])
    /\ issued' = issued \cup {tok[h]}
    /\ alone' = IF h \in overlapped THEN alone ELSE alone \cup {tok[h]}
    /\ overlapped' = overlapped \ {h}
    /\ gen' = [gen EXCEPT ![h] = "off"]
    /\ tok' = [tok EXCEPT ![h] = NoToken]
    /\ loaded' = [loaded EXCEPT ![h] = 0]
    /\ UNCHANGED <<sessionTokens, drawn, boot>>

\* The process ends, for whatever reason, and is started again: sidManager is
\* a package variable and lives in memory only.
Restart ==
    /\ currentID' = 0
    /\ sessionTokens' = NoTokens
    /\ gen' = [h \in Handlers |-> "off"]
    /\ tok' = [h \in Handlers |-> NoToken]
    /\ loaded' = [h \in Handlers |-> 0]
    /\ boot' = drawn
    /\ overlapped' = {}
    /\ issued' = {}
    /\ alone' = {}
    /\ UNCHANGED drawn

\* The steps of a generation that has begun.
Generate(h) ==
    \/ Draw(h)
    \/ DrawPanics(h)
    \/ StoreToken(h)
    \/ LoadID(h)
    \/ StoreID(h)

TokenNext ==
    \/ \E h \in Handlers : Begin(h) \/ Generate(h)
    \/ Restart

TokenSpec == TokenInit /\ [][TokenNext]_tokenVars

------------------------------------------------------------------------------
(* Type invariant of the manager and of every generation in progress: a      *)
(* handler holds a token from the moment it has drawn one until it returns.  *)
TokenTypeOK ==
    /\ currentID \in Nat
    /\ DOMAIN sessionTokens \subseteq Nat
    /\ sessionTokens \in [DOMAIN sessionTokens -> Nat]
    /\ drawn \in Nat
    /\ gen \in [Handlers -> {"off", "draw", "store", "load", "incr"}]
    /\ tok \in [Handlers -> synchronizedToken]
    /\ loaded \in [Handlers -> Nat]
    /\ boot \in Nat
    /\ overlapped \subseteq Generating
    /\ issued \subseteq synchronizedToken
    /\ alone \subseteq issued

(* A token whose generation met no other one is accepted for as long as the  *)
(* process lives, however many generations race with one another afterwards: *)
(* no later one may come back to its ID.  (generateSynchronizedToken against *)
(* synchronizedTokenIsValid.)                                                *)
LoneTokenValid == \A t \in alone : synchronizedTokenIsValid(t)

(* A token on a page served by an earlier process is refused, although IDs   *)
(* start again at 0 and such a token's ID is soon in the map again.  Tokens  *)
(* of earlier processes are those with a string drawn before boot.           *)
StaleTokenRefused ==
    \A id \in DOMAIN sessionTokens, s \in 1..boot :
        ~ synchronizedTokenIsValid([ID |-> id, TokenString |-> s])
==============================================================================
