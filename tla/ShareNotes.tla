----------------------------- MODULE ShareNotes ------------------------------
(***************************************************************************)
(* The server: browsers that fetch form pages and submit them, the         *)
(* handlers of src/shareNotes.go that serve them, each on a goroutine of   *)
(* its own, the table of notes behind DatabaseManager, and the tokens of   *)
(* SessionTokens, which every form page carries.                           *)
(*                                                                         *)
(* A handler is split where another one can act in between: at each call   *)
(* to the database, at each step of generateSynchronizedToken, at the      *)
(* token check and where it reads the clock.  One call to DatabaseManager  *)
(* is one step: SQLite makes it atomic, it may fail, and a failure to      *)
(* commit is ignored by the code, so that a write may also quietly leave   *)
(* no trace.  Notes survive a restart; what handlers and sidManager hold   *)
(* does not, and open pages stay open.                                     *)
(*                                                                         *)
(* The rate limiter and the routing in front of the handlers only turn     *)
(* requests away, as the handlers do if a token's ID is not a number; a    *)
(* request turned away is no step.  Pages that show notes without a form   *)
(* change nothing and are left out.                                        *)
(***************************************************************************)
EXTENDS SessionTokens

CONSTANTS
    Clients,     \* browser windows
    Contents,    \* the pairs of title and text users send
    NoContent,   \* what a form without these fields sends
    OtherPosts,  \* form values of POSTs that come from no page
    NoNote, NoPage, NoRequest

VARIABLES
    notes,   \* the table: a partial function from noteID to row
    adds,    \* (history) how many rows were ever inserted
    clock,   \* the time in seconds
    page,    \* page[c]: the form page that window c shows
    pc,      \* pc[h]: where handler h stands
    req,     \* req[h]: the request it serves
    held     \* held[h]: its copy of a note, foundNote or the note to be added

serverVars == <<notes, adds, clock, page, pc, req, held>>
vars == <<serverVars, tokenVars>>

NoteForms == {"EditNote", "DeleteNote", "PasteBinNote"}
Forms == NoteForms \cup {"AddNote"}

(* Three fields are history.  key tells notes apart that had the same noteID *)
(* one after the other: the n-th row inserted has key n.  In a row,          *)
(* savedFrom is the key of the note whose copy was last written there.       *)
row == [key : Nat, savedFrom : Nat, title : {c.title : c \in Contents},
        text : {c.text : c \in Contents}, addDate : Nat, changeDate : Nat]

Note == [noteID : Nat, key : Nat, title : {c.title : c \in Contents},
         text : {c.text : c \in Contents}, addDate : Nat, changeDate : Nat]

Page == [form : Forms, noteID : Nat, key : Nat, token : synchronizedToken]

Request == [client : Clients, form : Forms, noteID : Nat, key : Nat,
            token : synchronizedToken, content : Contents \cup {NoContent}]

ASSUME ContentsAssumption ==
    /\ \A c \in Contents : c = [title |-> c.title, text |-> c.text]
    /\ NoContent \notin Contents

(* The handlers read whatever the path and the form values say: any noteID,  *)
(* any token, and EmptyString where the token's string is left out.          *)
ASSUME OtherPostsAssumption ==
    OtherPosts \subseteq Page /\ \A p \in OtherPosts : p.key = 0

ASSUME NullsAreNulls ==
    NoNote \notin Note /\ NoPage \notin Page /\ NoRequest \notin Request

------------------------------------------------------------------------------
Init ==
    /\ notes = [i \in {} |-> NoNote]
    /\ adds = 0
    /\ clock = 0
    /\ page = [c \in Clients |-> NoPage]
    /\ pc = [h \in Handlers |-> "idle"]
    /\ req = [h \in Handlers |-> NoRequest]
    /\ held = [h \in Handlers |-> NoNote]
    /\ TokenInit

\* The handler returns, with whatever answer.
Finish(h) ==
    /\ pc' = [pc EXCEPT ![h] = "idle"]
    /\ req' = [req EXCEPT ![h] = NoRequest]
    /\ held' = [held EXCEPT ![h] = NoNote]

\* It goes on at label l.
Goto(h, l) == pc' = [pc EXCEPT ![h] = l]

Tick ==
    /\ clock' = clock + 1
    /\ UNCHANGED <<notes, adds, page, pc, req, held, tokenVars>>

\* NewLocal: what a select makes of the row at noteID i.
NewLocal(i) ==
    [noteID |-> i, key |-> notes[i].key, title |-> notes[i].title,
     text |-> notes[i].text, addDate |-> notes[i].addDate,
     changeDate |-> notes[i].changeDate]

\* GetNote finds the row the request asks for.
GetNote(h) ==
    /\ req[h].noteID \in DOMAIN notes
    /\ held' = [held EXCEPT ![h] = NewLocal(req[h].noteID)]

------------------------------------------------------------------------------
(* The pages that carry a form: addNoteHandler and preparePostHandler.       *)

AskedFor(c, form, i) ==
    [client |-> c, form |-> form, noteID |-> i, key |-> 0,
     token |-> NoToken, content |-> NoContent]

\* addNoteHandler generates a token at once.
GetAddNote(c, h) ==
    /\ pc[h] = "idle"
    /\ req' = [req EXCEPT ![h] = AskedFor(c, "AddNote", 0)]
    /\ Begin(h)
    /\ Goto(h, "serve")
    /\ UNCHANGED <<notes, adds, clock, page, held>>

GetForm(c, h, form, i) ==
    /\ pc[h] = "idle"
    /\ req' = [req EXCEPT ![h] = AskedFor(c, form, i)]
    /\ Goto(h, "find")
    /\ UNCHANGED <<notes, adds, clock, page, held, tokenVars>>

\* preparePostHandler looks the note up, then generates a token.
FindNote(h) ==
    /\ pc[h] = "find"
    /\ GetNote(h)
    /\ Begin(h)
    /\ Goto(h, "serve")
    /\ UNCHANGED <<notes, adds, clock, page, req>>

\* (mutant) an error of GetNote is answered by asking again
FindRetries(h) == pc[h] = "find" /\ UNCHANGED vars

\* There is no such note, or the query fails.
FindFails(h) ==
    /\ pc[h] = "find"
    /\ Finish(h)
    /\ UNCHANGED <<notes, adds, clock, page, tokenVars>>

\* A step of the generation that is not its last.
ServeToken(h) ==
    /\ pc[h] = "serve"
    /\ Draw(h) \/ StoreToken(h) \/ LoadID(h)
    /\ UNCHANGED serverVars

\* net/http recovers the panic and closes the connection.
ServePanics(h) ==
    /\ pc[h] = "serve"
    /\ DrawPanics(h)
    /\ Finish(h)
    /\ UNCHANGED <<notes, adds, clock, page>>

\* The form on the page: it names the note that was found, if there is one.
Form(h) ==
    [form |-> req[h].form,
     noteID |-> IF held[h] = NoNote THEN 0 ELSE held[h].noteID,
     key |-> IF held[h] = NoNote THEN 0 ELSE held[h].key,
     token |-> tok[h]]

\* The token is there and the template is executed; the page replaces the one
\* the window showed, unless the answer is lost.
ServePage(h) ==
    /\ pc[h] = "serve"
    /\ StoreID(h)
    /\ Finish(h)
    /\ \/ page' = [page EXCEPT ![req[h].client] = Form(h)]
       \/ UNCHANGED page
    /\ UNCHANGED <<notes, adds, clock>>

------------------------------------------------------------------------------
(* The four POSTs.  A page stays with the window after it was submitted: a   *)
(* double click or the back button submits it again.  A POST need not come   *)
(* from a page; one that does not has been shown no note, so its key is 0.   *)

SubmittedFrom(c, p, content) ==
    [client |-> c, form |-> p.form, noteID |-> p.noteID,
     key |-> p.key, token |-> p.token, content |-> content]

Submit(c, h) ==
    /\ pc[h] = "idle"
    /\ \E p \in ({page[c]} \ {NoPage}) \cup OtherPosts :
        /\ \E content \in IF p.form \in {"AddNote", "EditNote"}
                          THEN Contents ELSE {NoContent} :
                req' = [req EXCEPT ![h] = SubmittedFrom(c, p, content)]
        /\ Goto(h, IF p.form = "EditNote" THEN "read" ELSE "check")
    /\ UNCHANGED <<notes, adds, clock, page, held, tokenVars>>

\* saveNoteHandler reads the note before it checks the token.
ReadNote(h) ==
    /\ pc[h] = "read"
    /\ GetNote(h)
    /\ Goto(h, "check")
    /\ UNCHANGED <<notes, adds, clock, page, req, tokenVars>>

ReadFails(h) ==
    /\ pc[h] = "read"
    /\ Finish(h)
    /\ UNCHANGED <<notes, adds, clock, page, tokenVars>>

\* (mutant) newNoteHandler goes on without making the note
AfterCheckBare(form) ==
    CASE form = "AddNote"      -> "write"
      [] form = "EditNote"     -> "compose"
      [] form = "DeleteNote"   -> "write"
      [] form = "PasteBinNote" -> "fetch"

AfterCheck(form) ==
    CASE form = "AddNote"      -> "compose"
      [] form = "EditNote"     -> "compose"
      [] form = "DeleteNote"   -> "write"
      [] form = "PasteBinNote" -> "fetch"

TokenAccepted(h) ==
    /\ pc[h] = "check"
    /\ synchronizedTokenIsValid(req[h].token)
    /\ Goto(h, AfterCheck(req[h].form))
    /\ UNCHANGED <<notes, adds, clock, page, req, held, tokenVars>>

TokenRefused(h) ==
    /\ pc[h] = "check"
    /\ \/ ~ synchronizedTokenIsValid(req[h].token)
       \/ MapRace(h)
    /\ Finish(h)
    /\ UNCHANGED <<notes, adds, clock, page, tokenVars>>

\* (mutant) changeDate left out of the struct literal
NewUnchanged(content) ==
    [noteID |-> 0, key |-> 0, title |-> content.title, text |-> content.text,
     addDate |-> clock, changeDate |-> 0]

\* note.New: its two calls of time.Now() are taken to fall in one second.  The
\* note has no key before it is a row.
New(content) ==
    [noteID |-> 0, key |-> 0, title |-> content.title, text |-> content.text,
     addDate |-> clock, changeDate |-> clock]

ComposeNew(h) ==
    /\ pc[h] = "compose" /\ req[h].form = "AddNote"
    /\ held' = [held EXCEPT ![h] = New(req[h].content)]
    /\ Goto(h, "write")
    /\ UNCHANGED <<notes, adds, clock, page, req, tokenVars>>

dirtyBit(n, content) == n.title # content.title \/ n.text # content.text

\* (mutant) SetText is not called
SetTitleOnly(n, content) == [n EXCEPT !.title = content.title, !.changeDate = clock]

\* SetTitle and SetText, each where its field differs.
SetFields(n, content) ==
    [n EXCEPT !.title = content.title, !.text = content.text, !.changeDate = clock]

ComposeEdit(h) ==
    /\ pc[h] = "compose" /\ req[h].form = "EditNote"
    /\ dirtyBit(held[h], req[h].content)
    /\ held' = [held EXCEPT ![h] = SetFields(held[h], req[h].content)]
    /\ Goto(h, "write")
    /\ UNCHANGED <<notes, adds, clock, page, req, tokenVars>>

\* Nothing differs from the note as it was read: nothing is written.
NothingToSave(h) ==
    /\ pc[h] = "compose" /\ req[h].form = "EditNote"
    /\ ~ dirtyBit(held[h], req[h].content)
    /\ Finish(h)
    /\ UNCHANGED <<notes, adds, clock, page, tokenVars>>

------------------------------------------------------------------------------
(* The three statements that change the table.                               *)

\* The noteID SQLite gives to a row inserted without one: 1 in an empty table,
\* else one more than the largest, which may be that of a row deleted before.
NewNoteID ==
    {i \in {j + 1 : j \in DOMAIN notes \cup {0}} : \A j \in DOMAIN notes : j < i}

AddNote(h) ==
    /\ pc[h] = "write" /\ req[h].form = "AddNote"
    /\ \E i \in NewNoteID :
        notes' = [j \in DOMAIN notes \cup {i} |->
                    IF j = i
                    THEN [key |-> adds + 1, savedFrom |-> adds + 1,
                          title |-> held[h].title, text |-> held[h].text,
                          addDate |-> held[h].addDate,
                          changeDate |-> held[h].changeDate]
                    ELSE notes[j]]
    /\ adds' = adds + 1
    /\ Finish(h)
    /\ UNCHANGED <<clock, page, tokenVars>>

\* set title = ?, text = ?, changeDate = ?
Overwrite(r, n) ==
    [key |-> r.key, savedFrom |-> n.key, title |-> n.title, text |-> n.text,
     addDate |-> r.addDate, changeDate |-> n.changeDate]

\* (mutant) the row is written anew, under a new noteID
ReplaceNote(h) ==
    /\ pc[h] = "write" /\ req[h].form = "EditNote"
    /\ \E i \in NewNoteID, old \in DOMAIN notes :
        /\ old = held[h].noteID
        /\ notes' = [j \in (DOMAIN notes \ {old}) \cup {i} |->
                        IF j = i THEN Overwrite(notes[old], held[h]) ELSE notes[j]]
    /\ Finish(h)
    /\ UNCHANGED <<adds, clock, page, tokenVars>>

\* An update of a row that is gone changes no row and is no error.
UpdateNote(h) ==
    /\ pc[h] = "write" /\ req[h].form = "EditNote"
    /\ notes' = [i \in DOMAIN notes |->
                    IF i = held[h].noteID THEN Overwrite(notes[i], held[h])
                    ELSE notes[i]]
    /\ Finish(h)
    /\ UNCHANGED <<adds, clock, page, tokenVars>>

DeleteNote(h) ==
    /\ pc[h] = "write" /\ req[h].form = "DeleteNote"
    /\ notes' = [i \in DOMAIN notes \ {req[h].noteID} |-> notes[i]]
    /\ Finish(h)
    /\ UNCHANGED <<adds, clock, page, tokenVars>>

\* The transaction fails, and that is reported, or its commit does and it is not.
WriteFails(h) ==
    /\ pc[h] = "write"
    /\ Finish(h)
    /\ UNCHANGED <<notes, adds, clock, page, tokenVars>>

------------------------------------------------------------------------------
(* pasteBinNoteHandler reads the note after the check and runs curl.         *)

FetchNote(h) ==
    /\ pc[h] = "fetch"
    /\ GetNote(h)
    /\ Goto(h, "curl")
    /\ UNCHANGED <<notes, adds, clock, page, req, tokenVars>>

FetchFails(h) ==
    /\ pc[h] = "fetch"
    /\ Finish(h)
    /\ UNCHANGED <<notes, adds, clock, page, tokenVars>>

\* curl ends, well or not; nothing bounds how long it takes.
CurlEnds(h) ==
    /\ pc[h] = "curl"
    /\ Finish(h)
    /\ UNCHANGED <<notes, adds, clock, page, tokenVars>>

------------------------------------------------------------------------------
\* The process dies and is started again.
Crash ==
    /\ Restart
    /\ pc' = [h \in Handlers |-> "idle"]
    /\ req' = [h \in Handlers |-> NoRequest]
    /\ held' = [h \in Handlers |-> NoNote]
    /\ UNCHANGED <<notes, adds, clock, page>>

\* What a handler does of itself, curl's answer excepted.
Step(h) ==
    \/ FindNote(h) \/ FindFails(h)
    \/ ServeToken(h) \/ ServePanics(h) \/ ServePage(h)
    \/ ReadNote(h) \/ ReadFails(h)
    \/ TokenAccepted(h) \/ TokenRefused(h)
    \/ ComposeNew(h) \/ ComposeEdit(h) \/ NothingToSave(h)
    \/ AddNote(h) \/ UpdateNote(h) \/ DeleteNote(h) \/ WriteFails(h)
    \/ FetchNote(h) \/ FetchFails(h)

\* A note's form is fetched by a link to a note in the table.
Browse(c, h) ==
    \/ GetAddNote(c, h)
    \/ \E form \in NoteForms, i \in DOMAIN notes : GetForm(c, h, form, i)

Next ==
    \/ Tick
    \/ Crash
    \/ \E h \in Handlers : Step(h) \/ CurlEnds(h)
    \/ \E c \in Clients, h \in Handlers : Browse(c, h) \/ Submit(c, h)

Spec == Init /\ [][Next]_vars

\* The handlers run on: each request gets on until it is answered.  Users and
\* crashes owe nothing, and neither does curl, which has no time limit.
FairSpec == Spec /\ \A h \in Handlers : WF_vars(Step(h))

------------------------------------------------------------------------------
Labels == {"idle", "find", "serve", "read", "check", "compose", "write", "fetch", "curl"}

(* A handler at a label serves a request of the kind that gets there and     *)
(* holds a note exactly where the code has one in a local variable.          *)
Coherent(h) ==
    /\ pc[h] = "idle" <=> req[h] = NoRequest
    /\ pc[h] = "serve" <=> gen[h] # "off"
    /\ held[h] # NoNote <=>
        \/ pc[h] = "serve" /\ req[h].form # "AddNote"
        \/ pc[h] \in {"check", "compose"} /\ req[h].form = "EditNote"
        \/ pc[h] = "write" /\ req[h].form # "DeleteNote"
        \/ pc[h] = "curl"
    /\ pc[h] = "find" => req[h].form \in NoteForms
    /\ pc[h] = "read" => req[h].form = "EditNote"
    /\ pc[h] = "compose" => req[h].form \in {"AddNote", "EditNote"}
    /\ pc[h] = "write" => req[h].form # "PasteBinNote"
    /\ pc[h] \in {"fetch", "curl"} => req[h].form = "PasteBinNote"
    /\ pc[h] \in {"read", "check", "compose"} /\ req[h].form \in {"AddNote", "EditNote"}
        => req[h].content \in Contents

(* Type invariant of the server: every variable has its type, and every      *)
(* handler's locals fit the place in shareNotes.go where it stands.          *)
TypeOK ==
    /\ TokenTypeOK
    /\ DOMAIN notes \subseteq Nat \ {0}
    /\ notes \in [DOMAIN notes -> row]
    /\ adds \in Nat
    /\ clock \in Nat
    /\ page \in [Clients -> Page \cup {NoPage}]
    /\ pc \in [Handlers -> Labels]
    /\ req \in [Handlers -> Request \cup {NoRequest}]
    /\ held \in [Handlers -> Note \cup {NoNote}]
    /\ \A h \in Handlers : Coherent(h)

PastCheck == {"compose", "write", "fetch", "curl"}

(* Past the check a handler acts on a token whose string this process drew,  *)
(* or on one without a string: a Go map gives "" for an ID that is not in    *)
(* it, so that any unused ID passes with a string left out.  No page carries *)
(* such a token.  A page left open across a restart therefore never changes  *)
(* a note and never reaches the paste bin, although its token's ID is in use *)
(* again.  (synchronizedTokenIsValid, called by the four POST handlers.)     *)
ActsOnOwnOrEmptyToken ==
    /\ \A h \in Handlers :
        pc[h] \in PastCheck =>
            \/ boot < req[h].token.TokenString
            \/ req[h].token.TokenString = EmptyString
    /\ \A c \in Clients :
        page[c] # NoPage => page[c].token.TokenString # EmptyString

(* A POST with a token that was generated alone in this process is refused   *)
(* only while another goroutine stores a token: the lookup without a lock    *)
(* may then miss the entry, and nothing else may make it.                    *)
(* (generateSynchronizedToken against synchronizedTokenIsValid.)             *)
RefusedOnlyInRace ==
    [][\A h \in Handlers :
        TokenRefused(h) /\ req[h].token \in alone => MapRace(h)]_vars

Keys == {notes[i].key : i \in DOMAIN notes}

(* A deletion never misses: while the note its page showed is in the table,  *)
(* it is the one the statement deletes, whatever was added, edited and       *)
(* deleted since.  (deleteNoteHandler, which only knows the noteID.)         *)
DeletesShownNote ==
    [][\A h \in Handlers :
        DeleteNote(h) /\ req[h].key \in Keys => req[h].key \notin Keys']_vars

(* A note was not changed before it was added, as long as the last one to    *)
(* save it had read that same note and not an earlier one with its noteID.   *)
(* (New, SetTitle and SetText set the date, UpdateNote writes it later.)     *)
AddedBeforeChanged ==
    \A i \in DOMAIN notes :
        notes[i].savedFrom = notes[i].key => notes[i].addDate <= notes[i].changeDate

NoteByKey(k) == LET i == CHOOSE j \in DOMAIN notes : notes[j].key = k
                IN  NewLocal(i)

Store == INSTANCE NoteStore WITH live <- [k \in Keys |-> NoteByKey(k)], born <- adds

(* The table keeps the promises of NoteStore, through requests, copies held  *)
(* in handlers, noteIDs used again and restarts (the three exec statements   *)
(* of DatabaseManager).                                                      *)
ImplementsStore == Store!StoreSpec

(* Every request is answered, unless it waits for curl: no handler waits for *)
(* another one, and each return path of shareNotes.go ends it.               *)
Answered ==
    \A h \in Handlers : pc[h] # "idle" ~> pc[h] \in {"idle", "curl"}
==============================================================================
