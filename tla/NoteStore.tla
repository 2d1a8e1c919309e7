------------------------------ MODULE NoteStore ------------------------------
(***************************************************************************)
(* What the table of notes promises, whatever requests, browsers, restarts *)
(* and identifiers it is made of: notes come into being one at a time,     *)
(* under an identifier no living note has; a note keeps its identifier and *)
(* the date it was added for life, and its title and text are always two   *)
(* that were sent together; and a note ends only by being deleted.         *)
(*                                                                         *)
(* A note is known here by its number: the n-th note ever added is n.      *)
(***************************************************************************)
EXTENDS Naturals

CONSTANT Contents    \* what users may send: records of a title and a text

VARIABLES
    live,    \* live[n]: note n, for every note that was not deleted
    born     \* how many notes were ever added

storeVars == <<live, born>>

WellFormed(n) ==
    [title |-> n.title, text |-> n.text] \in Contents

StoreInit ==
    /\ live = [n \in {} |-> 0]
    /\ born = 0

Insert ==
    /\ born' = born + 1
    /\ DOMAIN live' = DOMAIN live \cup {born'}
    /\ \A n \in DOMAIN live : /\ live'[n] = live[n]
                              /\ live'[n].noteID # live'[born'].noteID
    /\ WellFormed(live'[born'])

Update ==
    /\ UNCHANGED born
    /\ DOMAIN live' = DOMAIN live
    /\ \E n \in DOMAIN live :
        /\ live'[n].noteID = live[n].noteID
        /\ live'[n].addDate = live[n].addDate
        /\ WellFormed(live'[n])
        /\ \A m \in DOMAIN live \ {n} : live'[m] = live[m]

Delete ==
    /\ UNCHANGED born
    /\ \E n \in DOMAIN live : live' = [m \in DOMAIN live \ {n} |-> live[m]]

StoreNext == Insert \/ Update \/ Delete

(* The promise of the table, as a behaviour.                                 *)
StoreSpec == StoreInit /\ [][StoreNext]_storeVars
==============================================================================
