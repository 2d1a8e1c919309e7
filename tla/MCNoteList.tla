----------------------------- MODULE MCNoteList ------------------------------
(* The whole list and two filters, of three notes; at most MaxAtOnce of them *)
(* are under way at a time.                                                  *)
EXTENDS NoteList, FiniteSets

CONSTANTS MaxAtOnce, all, some, one, n1, n2, n3

Selected ==
    [r \in {all, some, one} |->
        CASE r = all  -> <<n1, n2, n3>>
          [] r = some -> <<n2, n3>>
          [] r = one  -> <<n1>>]

UnderWay == {r \in Requests : pc[r] \notin {"start", "done"}}

MCNext == Next /\ Cardinality(UnderWay') <= MaxAtOnce

MCSpec == Init /\ [][MCNext]_vars
==============================================================================
