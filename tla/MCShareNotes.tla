---------------------------- MODULE MCShareNotes -----------------------------
(* Small instances of ShareNotes.  A request is admitted only while the      *)
(* bounds leave room for what it will use up; once admitted it runs as in    *)
(* the specification.                                                        *)
EXTENDS ShareNotes, TLC

CONSTANTS
    MaxTokens,      \* token strings ever drawn
    MaxAdds,        \* rows ever inserted
    MaxTime,        \* seconds that pass
    Asked,          \* the forms for a note that users ask for
    Typed,          \* the forms of POSTs that come from no page
    CrashAnytime,   \* FALSE: the process dies only when all else is used up
    a, b            \* what titles and texts are made of

\* Title and text always differ together, so a mixed row would be noticed.
TwoContents == {[title |-> a, text |-> a], [title |-> b, text |-> b]}

\* POSTs that come from no page, without the string of their token.  Their ID is
\* free until a process has drawn two tokens.
TypedPosts ==
    [form : Typed, noteID : {1}, key : {0},
     token : {[ID |-> 1, TokenString |-> EmptyString]}]

WillDraw == {h \in Handlers : pc[h] = "find" \/ gen[h] = "draw"}
WillAdd == {h \in Handlers : pc[h] \in {"check", "compose", "write"} /\ req[h].form = "AddNote"}

TokensLeft == drawn + Cardinality(WillDraw) < MaxTokens
AddsLeft == adds + Cardinality(WillAdd) < MaxAdds

MCBrowse(c, h) ==
    /\ TokensLeft
    /\ Browse(c, h)
    /\ req'[h].form \in Asked \cup {"AddNote"}

MCSubmit(c, h) ==
    /\ Submit(c, h)
    /\ req'[h].form = "AddNote" => AddsLeft

MCCrash ==
    /\ \/ CrashAnytime
       \/ drawn = MaxTokens /\ \A h \in Handlers : pc[h] = "idle"
    /\ Crash

MCNext ==
    \/ clock < MaxTime /\ Tick
    \/ MCCrash
    \/ \E h \in Handlers : Step(h) \/ CurlEnds(h)
    \/ \E c \in Clients, h \in Handlers : MCBrowse(c, h) \/ MCSubmit(c, h)

MCSpec == Init /\ [][MCNext]_vars

MCFairSpec == MCSpec /\ \A h \in Handlers : WF_vars(Step(h))

(* States that differ in the history of the tokens alone behave alike.       *)
NoTokenHistory ==
    <<serverVars, currentID, sessionTokens, drawn, gen, tok, loaded, boot>>

ServerSymmetry == Permutations(Handlers) \cup Permutations(Clients)

\* Sound where Contents is TwoContents.
ContentSymmetry == ServerSymmetry \cup Permutations({a, b})
==============================================================================
