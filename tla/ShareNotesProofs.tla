-------------------------- MODULE ShareNotesProofs ---------------------------
(***************************************************************************)
(* Proofs about the token manager and the server around it, for any        *)
(* handlers, windows and contents, any number of notes, tokens and         *)
(* crashes: first what holds of every behaviour of the manager             *)
(* (SessionTokens), then that the server uses it so, then the server.      *)
(*                                                                         *)
(* Neither property of the manager is inductive.  That a lone token stays  *)
(* valid rests on what the handlers still in flight are about to write:    *)
(* none of them may be about to store under the token's ID, or to set      *)
(* currentID back to it, and a generation that met no other one finds the  *)
(* manager at its last step as it was at its first.                        *)
(***************************************************************************)
EXTENDS ShareNotes, TLAPS

(* A generation not marked as overlapped is the only one. *)
OnlyOne == \A h \in Generating \ overlapped : Generating = {h}

(* What the only generation knows holds of the manager until it is done. *)
Undisturbed(h) ==
    /\ gen[h] \in {"store", "load", "incr"} => tok[h].ID = currentID
    /\ gen[h] \in {"load", "incr"} =>
           /\ tok[h].ID \in DOMAIN sessionTokens
           /\ sessionTokens[tok[h].ID] = tok[h].TokenString
    /\ gen[h] = "incr" => loaded[h] = currentID

(* A token that is stored, and below every ID still to be written. *)
Settled(t) ==
    /\ t.ID < currentID
    /\ t.ID \in DOMAIN sessionTokens
    /\ sessionTokens[t.ID] = t.TokenString
    /\ \A h \in Handlers : /\ gen[h] = "store" => t.ID < tok[h].ID
                           /\ gen[h] = "incr" => t.ID < loaded[h]

LoneInv ==
    /\ OnlyOne
    /\ \A h \in Handlers \ overlapped : Undisturbed(h)
    /\ \A t \in alone : Settled(t)

(* Every string in the map, or on its way there or to a page, was drawn by   *)
(* this process.                                                             *)
FreshInv ==
    /\ boot <= drawn
    /\ \A id \in DOMAIN sessionTokens : boot < sessionTokens[id]
    /\ \A h \in Handlers :
        gen[h] \in {"store", "load", "incr"} => boot < tok[h].TokenString

TokenInv == TokenTypeOK /\ LoneInv /\ FreshInv

------------------------------------------------------------------------------
LEMMA TokenTypingStep ==
    ASSUME TokenTypeOK, [TokenNext]_tokenVars PROVE TokenTypeOK'
<1> USE DEF TokenTypeOK, Generating
<1>1. ASSUME NEW h \in Handlers, Begin(h)
      PROVE  TokenTypeOK'
  BY <1>1 DEF Begin
<1>2. ASSUME NEW h \in Handlers, Draw(h)
      PROVE  TokenTypeOK'
  BY <1>2 DEF Draw, synchronizedToken
<1>3. ASSUME NEW h \in Handlers, DrawPanics(h)
      PROVE  TokenTypeOK'
  BY <1>3 DEF DrawPanics
<1>4. ASSUME NEW h \in Handlers, StoreToken(h)
      PROVE  TokenTypeOK'
  BY <1>4 DEF StoreToken, Assign, synchronizedToken
<1>5. ASSUME NEW h \in Handlers, LoadID(h)
      PROVE  TokenTypeOK'
  BY <1>5 DEF LoadID
<1>6. ASSUME NEW h \in Handlers, StoreID(h)
      PROVE  TokenTypeOK'
  BY <1>6 DEF StoreID, Incremented, NoToken, EmptyString, synchronizedToken
<1>7. CASE Restart
  BY <1>7 DEF Restart, NoTokens, NoToken, EmptyString, synchronizedToken
<1>8. CASE UNCHANGED tokenVars
  BY <1>8 DEF tokenVars
<1> QED
  BY <1>1, <1>2, <1>3, <1>4, <1>5, <1>6, <1>7, <1>8 DEF TokenNext, Generate

(* Type correctness of the manager: no step of a generation, no panic and no *)
(* restart takes it or a handler's local token out of its type.              *)
THEOREM TokenTyping == TokenSpec => []TokenTypeOK
<1>1. TokenInit => TokenTypeOK
  BY DEF TokenInit, TokenTypeOK, NoTokens, NoToken, EmptyString,
         synchronizedToken, Generating
<1> QED  BY <1>1, TokenTypingStep, PTL DEF TokenSpec

------------------------------------------------------------------------------
(* The step of one handler keeps the invariant of the lone tokens.  StoreID  *)
(* is the step that adds to alone: by OnlyOne nobody else is generating.     *)
LEMMA LoneStep ==
    ASSUME TokenTypeOK, LoneInv, NEW g \in Handlers, Begin(g) \/ Generate(g)
    PROVE  LoneInv'
<1> USE DEF TokenTypeOK, LoneInv, OnlyOne, Undisturbed, Settled, Generating,
            synchronizedToken
<1>1. CASE Begin(g)
  BY <1>1 DEF Begin
<1>2. CASE Draw(g)
  BY <1>2 DEF Draw
<1>3. CASE DrawPanics(g)
  BY <1>3 DEF DrawPanics
<1>4. CASE StoreToken(g)
  BY <1>4 DEF StoreToken, Assign, MapRace
<1>5. CASE LoadID(g)
  BY <1>5 DEF LoadID
<1>6. CASE StoreID(g)
  BY <1>6 DEF StoreID, Incremented
<1> QED
  BY <1>1, <1>2, <1>3, <1>4, <1>5, <1>6 DEF Generate

(* The step of one handler puts no string of an earlier process in the map.  *)
LEMMA FreshStep ==
    ASSUME TokenTypeOK, FreshInv, NEW g \in Handlers, Begin(g) \/ Generate(g)
    PROVE  FreshInv'
<1> USE DEF TokenTypeOK, FreshInv, synchronizedToken
<1>1. CASE Begin(g)
  BY <1>1 DEF Begin
<1>2. CASE Draw(g)
  BY <1>2 DEF Draw
<1>3. CASE DrawPanics(g)
  BY <1>3 DEF DrawPanics
<1>4. CASE StoreToken(g)
  BY <1>4 DEF StoreToken, Assign
<1>5. CASE LoadID(g)
  BY <1>5 DEF LoadID
<1>6. CASE StoreID(g)
  BY <1>6 DEF StoreID
<1> QED
  BY <1>1, <1>2, <1>3, <1>4, <1>5, <1>6 DEF Generate

(* The inductive invariant: what the two theorems below follow from.         *)
THEOREM TokenInvariance == TokenSpec => []TokenInv
<1>1. TokenInit => LoneInv /\ FreshInv
  BY DEF TokenInit, LoneInv, OnlyOne, Undisturbed, Settled, FreshInv, Generating,
         NoTokens, NoToken, EmptyString
<1>2. TokenTypeOK /\ LoneInv /\ FreshInv /\ [TokenNext]_tokenVars
        => LoneInv' /\ FreshInv'
  <2> SUFFICES ASSUME TokenTypeOK, LoneInv, FreshInv, [TokenNext]_tokenVars
               PROVE  LoneInv' /\ FreshInv'
    OBVIOUS
  <2>1. CASE \E h \in Handlers : Begin(h) \/ Generate(h)
    BY <2>1, LoneStep, FreshStep
  <2>2. CASE Restart
    BY <2>2 DEF Restart, LoneInv, OnlyOne, Undisturbed, Settled, FreshInv,
                Generating, NoTokens, TokenTypeOK
  <2>3. CASE UNCHANGED tokenVars
    BY <2>3 DEF tokenVars, LoneInv, OnlyOne, Undisturbed, Settled, FreshInv, Generating
  <2> QED
    BY <2>1, <2>2, <2>3 DEF TokenNext
<1> QED  BY <1>1, <1>2, TokenTyping, PTL DEF TokenSpec, TokenInv

(* A token generated alone is accepted until the process ends, whatever      *)
(* races later generations run into.                                         *)
THEOREM LoneTokensValid == TokenSpec => []LoneTokenValid
<1>1. LoneInv => LoneTokenValid
  BY DEF LoneInv, Settled, LoneTokenValid, synchronizedTokenIsValid, Lookup
<1> QED  BY <1>1, TokenInvariance, PTL DEF TokenInv

(* A token on a page that an earlier process served is refused.              *)
THEOREM StaleTokensRefused == TokenSpec => []StaleTokenRefused
<1>1. TokenTypeOK /\ FreshInv => StaleTokenRefused
  BY DEF FreshInv, TokenTypeOK, StaleTokenRefused, synchronizedTokenIsValid, Lookup
<1> QED  BY <1>1, TokenInvariance, PTL DEF TokenInv
------------------------------------------------------------------------------

(* Each step of the server is a step of the token manager or leaves it be.   *)
LEMMA ServerStepIsTokenStep ==
    ASSUME [Next]_vars PROVE [TokenNext]_tokenVars
<1>1. CASE Tick
  BY <1>1 DEF Tick
<1>2. CASE Crash
  BY <1>2 DEF Crash, TokenNext
<1>3. ASSUME NEW h \in Handlers, Step(h) \/ CurlEnds(h)
      PROVE  [TokenNext]_tokenVars
  <2>1. CASE FindNote(h)
    BY <2>1 DEF FindNote, TokenNext
  <2>2. CASE ServeToken(h)
    BY <2>2 DEF ServeToken, TokenNext, Generate
  <2>3. CASE ServePanics(h)
    BY <2>3 DEF ServePanics, TokenNext, Generate
  <2>4. CASE ServePage(h)
    BY <2>4 DEF ServePage, TokenNext, Generate
  <2>5. CASE \/ FindFails(h) \/ ReadNote(h) \/ ReadFails(h)
             \/ TokenAccepted(h) \/ TokenRefused(h)
             \/ ComposeNew(h) \/ ComposeEdit(h) \/ NothingToSave(h)
             \/ AddNote(h) \/ UpdateNote(h) \/ DeleteNote(h) \/ WriteFails(h)
             \/ FetchNote(h) \/ FetchFails(h) \/ CurlEnds(h)
    BY <2>5 DEF FindFails, ReadNote, ReadFails, TokenAccepted, TokenRefused,
                ComposeNew, ComposeEdit, NothingToSave, AddNote, UpdateNote,
                DeleteNote, WriteFails, FetchNote, FetchFails, CurlEnds
  <2> QED
    BY <1>3, <2>1, <2>2, <2>3, <2>4, <2>5 DEF Step
<1>4. ASSUME NEW c \in Clients, NEW h \in Handlers, Browse(c, h) \/ Submit(c, h)
      PROVE  [TokenNext]_tokenVars
  BY <1>4 DEF Browse, GetAddNote, GetForm, Submit, TokenNext
<1>5. CASE UNCHANGED vars
  BY <1>5 DEF vars
<1> QED
  BY <1>1, <1>2, <1>3, <1>4, <1>5 DEF Next

(* The server uses the token manager as SessionTokens describes it: whatever *)
(* holds of every behaviour of TokenSpec holds of the server.                *)
THEOREM ServerImplementsTokens == Spec => TokenSpec
<1>1. Init => TokenInit
  BY DEF Init
<1>2. [Next]_vars => [TokenNext]_tokenVars
  BY ServerStepIsTokenStep
<1> QED  BY <1>1, <1>2, PTL DEF Spec, TokenSpec

------------------------------------------------------------------------------
LEMMA TypingInit == Init => TypeOK
  BY DEF Init, TypeOK, TokenInit, TokenTypeOK, Coherent, Labels, NoTokens, NoToken,
     EmptyString, synchronizedToken, Generating

(* A step of handler h changes the entries of h alone, so that only h has to *)
(* be looked at again.                                                       *)
LEMMA OthersCoherent ==
    ASSUME NEW h \in Handlers, \A g \in Handlers : Coherent(g), Coherent(h)',
           \A g \in Handlers \ {h} : /\ pc'[g] = pc[g] /\ req'[g] = req[g]
                                     /\ held'[g] = held[g] /\ gen'[g] = gen[g]
    PROVE  \A g \in Handlers : Coherent(g)'
BY DEF Coherent

LEMMA AskedForIsRequest ==
    ASSUME NEW c \in Clients, NEW form \in Forms, NEW i \in Nat
    PROVE  AskedFor(c, form, i) \in Request
BY DEF AskedFor, Request, NoToken, EmptyString, synchronizedToken

LEMMA TypingBrowse ==
    ASSUME TypeOK, TokenTypeOK', NEW c \in Clients, NEW h \in Handlers, Browse(c, h)
    PROVE  TypeOK'
<1> USE DEF Labels, Goto
<1>1. CASE GetAddNote(c, h)
  <2> USE <1>1 DEF GetAddNote, Begin
  <2>1. req' \in [Handlers -> Request \cup {NoRequest}]
    BY AskedForIsRequest DEF TypeOK, Forms
  <2>2. Coherent(h)'
    BY <2>1, NullsAreNulls, AskedForIsRequest DEF TypeOK, TokenTypeOK, Coherent, Forms, NoteForms, NullsAreNulls, AskedFor
  <2>3. \A g \in Handlers : Coherent(g)'
    BY <2>2, OthersCoherent DEF TypeOK, TokenTypeOK
  <2> QED  BY <2>1, <2>3 DEF TypeOK
<1>2. ASSUME NEW form \in NoteForms, NEW i \in DOMAIN notes, GetForm(c, h, form, i)
      PROVE  TypeOK'
  <2> USE <1>2 DEF GetForm, tokenVars
  <2>1. req' \in [Handlers -> Request \cup {NoRequest}]
    BY AskedForIsRequest DEF TypeOK, Forms
  <2>2. Coherent(h)'
    BY <2>1, NullsAreNulls, AskedForIsRequest DEF TypeOK, TokenTypeOK, Coherent, Forms, NoteForms, NullsAreNulls, AskedFor
  <2>3. \A g \in Handlers : Coherent(g)'
    BY <2>2, OthersCoherent DEF TypeOK, TokenTypeOK
  <2> QED  BY <2>1, <2>3 DEF TypeOK
<1> QED  BY <1>1, <1>2 DEF Browse

(* A POST carries the form values of the page its window shows, or others.   *)
LEMMA SubmitPicks ==
    ASSUME TypeOK, NEW c \in Clients, NEW h \in Handlers, Submit(c, h)
    PROVE  \E p \in Page, content \in Contents \cup {NoContent} :
               /\ p = page[c] \/ p.key = 0
               /\ p.form \in {"AddNote", "EditNote"} => content \in Contents
               /\ req' = [req EXCEPT ![h] = SubmittedFrom(c, p, content)]
               /\ Goto(h, IF p.form = "EditNote" THEN "read" ELSE "check")
<1>1. PICK p \in ({page[c]} \ {NoPage}) \cup OtherPosts :
        /\ \E content \in IF p.form \in {"AddNote", "EditNote"}
                          THEN Contents ELSE {NoContent} :
                req' = [req EXCEPT ![h] = SubmittedFrom(c, p, content)]
        /\ Goto(h, IF p.form = "EditNote" THEN "read" ELSE "check")
  BY DEF Submit
<1>2. p \in Page /\ (p = page[c] \/ p.key = 0)
  BY OtherPostsAssumption DEF OtherPostsAssumption, TypeOK
<1> QED  BY <1>1, <1>2, Zenon

(* What is submitted is a request for the form it names.                     *)
LEMMA TypingSubmit ==
    ASSUME TypeOK, TokenTypeOK', NEW c \in Clients, NEW h \in Handlers, Submit(c, h)
    PROVE  TypeOK'
<1> USE DEF Goto, Labels
<1>1. PICK p \in Page, content \in Contents \cup {NoContent} :
        /\ p.form \in {"AddNote", "EditNote"} => content \in Contents
        /\ req' = [req EXCEPT ![h] = SubmittedFrom(c, p, content)]
        /\ Goto(h, IF p.form = "EditNote" THEN "read" ELSE "check")
  BY SubmitPicks, Zenon
<1>2. /\ pc[h] = "idle"
      /\ UNCHANGED <<notes, adds, clock, page, held, gen>>
  BY DEF Submit, tokenVars
<1>3. SubmittedFrom(c, p, content) \in Request
  BY DEF SubmittedFrom, Page, Request
<1>4. req' \in [Handlers -> Request \cup {NoRequest}]
  BY <1>1, <1>3 DEF TypeOK
<1>5. Coherent(h)'
  BY <1>1, <1>2, <1>3, NullsAreNulls
     DEF TypeOK, TokenTypeOK, Coherent, NullsAreNulls, SubmittedFrom, Page, Forms, NoteForms
<1>6. \A g \in Handlers : Coherent(g)'
  BY <1>1, <1>2, <1>5, OthersCoherent DEF TypeOK
<1> QED  BY <1>1, <1>2, <1>4, <1>6 DEF TypeOK

(* What every step that ends a request has in common.                        *)
LEMMA TypingFinish ==
    ASSUME TypeOK, TokenTypeOK', NEW h \in Handlers, Finish(h), gen'[h] = "off",
           \A g \in Handlers \ {h} : gen'[g] = gen[g],
           DOMAIN notes' \subseteq Nat \ {0}, notes' \in [DOMAIN notes' -> row],
           adds' \in Nat, clock' \in Nat, page' \in [Clients -> Page \cup {NoPage}]
    PROVE  TypeOK'
<1> USE DEF Finish, Labels
<1>1. Coherent(h)'
  BY DEF TypeOK, Coherent
<1>2. \A g \in Handlers : Coherent(g)'
  BY <1>1, OthersCoherent DEF TypeOK
<1> QED  BY <1>2 DEF TypeOK

(* And every step that leaves the table, the windows and the request alone.  *)
LEMMA TypingLocal ==
    ASSUME TypeOK, TokenTypeOK', NEW h \in Handlers,
           UNCHANGED <<notes, adds, clock, page, req>>,
           pc' \in [Handlers -> Labels], held' \in [Handlers -> Note \cup {NoNote}],
           \A g \in Handlers \ {h} :
               pc'[g] = pc[g] /\ held'[g] = held[g] /\ gen'[g] = gen[g],
           Coherent(h)'
    PROVE  TypeOK'
<1>1. \A g \in Handlers : Coherent(g)'
  BY OthersCoherent DEF TypeOK
<1> QED  BY <1>1 DEF TypeOK

(* A select yields a note.                                                   *)
LEMMA GetNoteTyping ==
    ASSUME TypeOK, NEW h \in Handlers, GetNote(h)
    PROVE  /\ held' \in [Handlers -> Note \cup {NoNote}]
           /\ held'[h] # NoNote
           /\ \A g \in Handlers \ {h} : held'[g] = held[g]
<1>1. NewLocal(req[h].noteID) \in Note
  BY DEF TypeOK, GetNote, NewLocal, row, Note
<1> QED  BY <1>1, NullsAreNulls DEF TypeOK, GetNote, NullsAreNulls

LEMMA TypingStep ==
    ASSUME TypeOK, TokenTypeOK', NEW h \in Handlers, Step(h) \/ CurlEnds(h)
    PROVE  TypeOK'
<1> USE DEF Labels, Goto
<1>1. req[h] # NoRequest => req[h] \in Request
  BY DEF TypeOK
<1>2. pc[h] # "idle" => req[h] \in Request
  BY <1>1 DEF TypeOK, Coherent
<1>3. CASE FindNote(h)
  BY <1>3, GetNoteTyping, TypingLocal DEF FindNote, Begin, TypeOK, TokenTypeOK, Coherent, NoteForms
<1>4. CASE ServeToken(h)
  <2>1. /\ pc[h] = "serve" /\ gen'[h] # "off"
        /\ \A g \in Handlers \ {h} : gen'[g] = gen[g]
    BY <1>4 DEF ServeToken, Draw, StoreToken, LoadID, TypeOK, TokenTypeOK
  <2>2. Coherent(h)'
    BY <1>4, <2>1 DEF ServeToken, serverVars, TypeOK, Coherent
  <2> QED  BY <1>4, <2>1, <2>2, TypingLocal DEF ServeToken, serverVars, TypeOK
<1>5. CASE ServePanics(h)
  BY <1>5, TypingFinish DEF ServePanics, DrawPanics, TypeOK, TokenTypeOK
<1>6. CASE ServePage(h)
  <2>1. Form(h) \in Page
    BY <1>2, <1>6 DEF ServePage, Form, Page, Request, Note, TypeOK, TokenTypeOK
  <2>2. page' \in [Clients -> Page \cup {NoPage}]
    BY <1>2, <1>6, <2>1 DEF ServePage, TypeOK, Request
  <2> QED
    BY <1>6, <2>2, TypingFinish DEF ServePage, StoreID, TypeOK, TokenTypeOK
<1>7. CASE ReadNote(h)
  BY <1>7, GetNoteTyping, TypingLocal DEF ReadNote, tokenVars, TypeOK, TokenTypeOK, Coherent
<1>8. CASE TokenAccepted(h)
  <2>1. AfterCheck(req[h].form) =
          IF req[h].form \in {"AddNote", "EditNote"} THEN "compose"
          ELSE IF req[h].form = "DeleteNote" THEN "write" ELSE "fetch"
    BY <1>2, <1>8 DEF TokenAccepted, AfterCheck, Request, Forms, NoteForms
  <2>2. Coherent(h)'
    BY <1>2, <1>8, <2>1 DEF TokenAccepted, tokenVars, TypeOK, Coherent, Request, Forms, NoteForms
  <2> QED  BY <1>8, <2>1, <2>2, TypingLocal DEF TokenAccepted, tokenVars, TypeOK
<1>9. CASE ComposeNew(h)
  <2>1. New(req[h].content) \in Note
    BY <1>9 DEF ComposeNew, New, Note, TypeOK, Coherent
  <2>2. Coherent(h)'
    BY <1>9, <2>1, NullsAreNulls DEF ComposeNew, tokenVars, TypeOK, Coherent, NullsAreNulls
  <2> QED  BY <1>9, <2>1, <2>2, TypingLocal DEF ComposeNew, tokenVars, TypeOK
<1>10. CASE ComposeEdit(h)
  <2>1. held[h] \in Note /\ req[h].content \in Contents /\ clock \in Nat
    BY <1>10 DEF ComposeEdit, TypeOK, Coherent
  <2>2. SetFields(held[h], req[h].content) \in Note
    BY <2>1 DEF SetFields, Note
  <2>3. Coherent(h)'
    BY <1>10, <2>2, NullsAreNulls DEF ComposeEdit, tokenVars, TypeOK, Coherent, NullsAreNulls
  <2> QED  BY <1>10, <2>2, <2>3, TypingLocal DEF ComposeEdit, tokenVars, TypeOK
<1>11. CASE FetchNote(h)
  BY <1>11, GetNoteTyping, TypingLocal DEF FetchNote, tokenVars, TypeOK, TokenTypeOK, Coherent
<1>12. CASE AddNote(h)
  <2>1. held[h] \in Note
    BY <1>12 DEF AddNote, TypeOK, Coherent
  <2>2. PICK i \in NewNoteID :
          notes' = [j \in DOMAIN notes \cup {i} |->
                    IF j = i
                    THEN [key |-> adds + 1, savedFrom |-> adds + 1,
                          title |-> held[h].title, text |-> held[h].text,
                          addDate |-> held[h].addDate,
                          changeDate |-> held[h].changeDate]
                    ELSE notes[j]]
    BY <1>12 DEF AddNote
  <2>3. i \in Nat \ {0}
    BY DEF NewNoteID, TypeOK
  <2>4. DOMAIN notes' \subseteq Nat \ {0} /\ notes' \in [DOMAIN notes' -> row]
    BY <2>1, <2>2, <2>3 DEF TypeOK, Note, row
  <2>5. /\ pc[h] = "write" /\ Finish(h) /\ adds' = adds + 1
        /\ UNCHANGED <<clock, page, gen>>
    BY <1>12 DEF AddNote, tokenVars
  <2> QED
    BY <2>4, <2>5, TypingFinish DEF TypeOK, TokenTypeOK, Coherent
<1>13. CASE UpdateNote(h)
  <2>1. held[h] \in Note
    BY <1>13 DEF UpdateNote, TypeOK, Coherent
  <2>2. ASSUME NEW r \in row PROVE Overwrite(r, held[h]) \in row
    BY <2>1 DEF Overwrite, Note, row
  <2>3. DOMAIN notes' \subseteq Nat \ {0} /\ notes' \in [DOMAIN notes' -> row]
    BY <1>13, <2>2, Zenon DEF UpdateNote, TypeOK
  <2> QED
    BY <1>13, <2>3, TypingFinish DEF UpdateNote, tokenVars, TypeOK, TokenTypeOK, Coherent
<1>14. CASE DeleteNote(h)
  <2>1. DOMAIN notes' \subseteq Nat \ {0} /\ notes' \in [DOMAIN notes' -> row]
    BY <1>14 DEF DeleteNote, TypeOK
  <2> QED
    BY <1>14, <2>1, TypingFinish DEF DeleteNote, tokenVars, TypeOK, TokenTypeOK, Coherent
<1>15. CASE \/ FindFails(h) \/ ReadFails(h) \/ TokenRefused(h) \/ NothingToSave(h)
            \/ WriteFails(h) \/ FetchFails(h) \/ CurlEnds(h)
  <2>1. /\ pc[h] \notin {"idle", "serve"} /\ Finish(h)
        /\ UNCHANGED <<notes, adds, clock, page, gen>>
    BY <1>15 DEF FindFails, ReadFails, TokenRefused, NothingToSave, WriteFails,
                FetchFails, CurlEnds, tokenVars
  <2> QED  BY <2>1, TypingFinish DEF TypeOK, TokenTypeOK, Coherent
<1> QED
  BY <1>3, <1>4, <1>5, <1>6, <1>7, <1>8, <1>9, <1>10, <1>11, <1>12, <1>13, <1>14,
     <1>15 DEF Step

(* Type correctness of the server, with what each handler holds at each      *)
(* label: no handler writes a note it never read or composed.                *)
THEOREM ServerTyping == Spec => []TypeOK
<1>1. TypeOK /\ [Next]_vars => TypeOK'
  <2> SUFFICES ASSUME TypeOK, [Next]_vars PROVE TypeOK'
    OBVIOUS
  <2>1. TokenTypeOK'
    BY ServerStepIsTokenStep, TokenTypingStep DEF TypeOK
  <2>2. CASE Tick
    BY <2>1, <2>2 DEF Tick, TypeOK, Coherent, tokenVars
  <2>3. CASE Crash
    BY <2>1, <2>3 DEF Crash, Restart, TypeOK, Coherent, Labels
  <2>4. CASE UNCHANGED vars
    BY <2>1, <2>4 DEF vars, serverVars, tokenVars, TypeOK, Coherent
  <2> QED
    BY <2>1, <2>2, <2>3, <2>4, TypingStep, TypingBrowse, TypingSubmit DEF Next
<1> QED  BY <1>1, TypingInit, PTL DEF Spec

------------------------------------------------------------------------------
(* A string that is not empty passes the check only if it is in the map, and *)
(* what is in the map was drawn by this process.  Pages get their tokens     *)
(* from generateSynchronizedToken, which never returns one without a string. *)
LEMMA OwnOrEmptyStep ==
    ASSUME TypeOK, FreshInv, ActsOnOwnOrEmptyToken,
           NEW h \in Handlers, Step(h) \/ CurlEnds(h)
    PROVE  ActsOnOwnOrEmptyToken'
<1> USE DEF ActsOnOwnOrEmptyToken, PastCheck, Goto
<1>1. CASE FindNote(h)
  BY <1>1 DEF FindNote, Begin, TypeOK
<1>2. CASE ServeToken(h)
  BY <1>2 DEF ServeToken, serverVars, Draw, StoreToken, LoadID
<1>3. CASE ServePage(h)
  <2>1. Form(h).token.TokenString # EmptyString
    BY <1>3 DEF ServePage, StoreID, Form, FreshInv, TypeOK, TokenTypeOK,
                synchronizedToken, EmptyString
  <2>2. \A c \in Clients : page'[c] # NoPage => page'[c].token.TokenString # EmptyString
    BY <1>3, <2>1 DEF ServePage, TypeOK
  <2> QED  BY <1>3, <2>2 DEF ServePage, StoreID, Finish, TypeOK
<1>4. CASE ReadNote(h)
  BY <1>4 DEF ReadNote, tokenVars, TypeOK
<1>5. CASE TokenAccepted(h)
  <2>1. \/ boot < req[h].token.TokenString
        \/ req[h].token.TokenString = EmptyString
    BY <1>5 DEF TokenAccepted, synchronizedTokenIsValid, Lookup, FreshInv
  <2> QED  BY <1>5, <2>1 DEF TokenAccepted, tokenVars, TypeOK, AfterCheck
<1>6. CASE ComposeNew(h) \/ ComposeEdit(h) \/ FetchNote(h)
  BY <1>6 DEF ComposeNew, ComposeEdit, FetchNote, tokenVars, TypeOK
<1>7. CASE \/ FindFails(h) \/ ReadFails(h) \/ TokenRefused(h) \/ NothingToSave(h)
           \/ WriteFails(h) \/ FetchFails(h) \/ CurlEnds(h) \/ ServePanics(h)
           \/ AddNote(h) \/ UpdateNote(h) \/ DeleteNote(h)
  <2>1. Finish(h) /\ UNCHANGED <<page, boot>>
    BY <1>7 DEF FindFails, ReadFails, TokenRefused, NothingToSave, WriteFails, FetchFails,
                CurlEnds, ServePanics, DrawPanics, AddNote, UpdateNote, DeleteNote, tokenVars
  <2> QED  BY <2>1 DEF Finish, TypeOK
<1> QED
  BY <1>1, <1>2, <1>3, <1>4, <1>5, <1>6, <1>7 DEF Step

(* A new request is not past the check, whatever its form values are.        *)
LEMMA OwnOrEmptyRequest ==
    ASSUME TypeOK, ActsOnOwnOrEmptyToken, NEW c \in Clients, NEW h \in Handlers,
           Browse(c, h) \/ Submit(c, h)
    PROVE  ActsOnOwnOrEmptyToken'
<1> USE DEF ActsOnOwnOrEmptyToken, PastCheck, Goto
<1>1. CASE Browse(c, h)
  BY <1>1 DEF Browse, GetAddNote, GetForm, Begin, tokenVars, TypeOK
<1>2. CASE Submit(c, h)
  BY <1>2 DEF Submit, tokenVars, TypeOK
<1> QED  BY <1>1, <1>2

(* A note is added, changed, deleted or sent off only on a token whose       *)
(* string the running process drew, or on one without a string, which no     *)
(* page carries.  This holds for POSTs with whatever form values.            *)
THEOREM ActsOnOwnOrEmptyTokens == Spec => []ActsOnOwnOrEmptyToken
<1>1. Init => ActsOnOwnOrEmptyToken
  BY DEF Init, ActsOnOwnOrEmptyToken, PastCheck
<1>2. TypeOK /\ FreshInv /\ ActsOnOwnOrEmptyToken /\ [Next]_vars
        => ActsOnOwnOrEmptyToken'
  <2> SUFFICES ASSUME TypeOK, FreshInv, ActsOnOwnOrEmptyToken, [Next]_vars
               PROVE  ActsOnOwnOrEmptyToken'
    OBVIOUS
  <2> USE DEF ActsOnOwnOrEmptyToken, PastCheck
  <2>1. CASE Tick
    BY <2>1 DEF Tick, tokenVars
  <2>2. CASE Crash
    BY <2>2 DEF Crash
  <2>3. CASE UNCHANGED vars
    BY <2>3 DEF vars, serverVars, tokenVars
  <2> QED
    BY <2>1, <2>2, <2>3, OwnOrEmptyStep, OwnOrEmptyRequest DEF Next
<1>3. Spec => []FreshInv
  BY ServerImplementsTokens, TokenInvariance, PTL DEF TokenInv
<1> QED  BY <1>1, <1>2, <1>3, ServerTyping, PTL DEF Spec

(* A POST with a token that was generated alone is refused only while        *)
(* another goroutine is at the map assignment.                               *)
THEOREM RefusalsOnlyInRace == Spec => RefusedOnlyInRace
<1>1. LoneTokenValid =>
        [\A h \in Handlers :
            TokenRefused(h) /\ req[h].token \in alone => MapRace(h)]_vars
  BY DEF LoneTokenValid, TokenRefused
<1>2. Spec => []LoneTokenValid
  BY ServerImplementsTokens, LoneTokensValid, PTL
<1> QED  BY <1>1, <1>2, PTL DEF RefusedOnlyInRace
==============================================================================
