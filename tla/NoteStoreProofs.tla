--------------------------- MODULE NoteStoreProofs ---------------------------
(***************************************************************************)
(* The server implements NoteStore, deletes the note it showed and orders  *)
(* the dates of a note, for any handlers, windows and contents.            *)
(*                                                                         *)
(* All three rest on one fact about copies: rows, pages, requests and the  *)
(* notes handlers hold all carry a key, and as long as the note with that  *)
(* key is in the table it is at the noteID that the copy carries.          *)
(***************************************************************************)
EXTENDS ShareNotesProofs

------------------------------------------------------------------------------
(* Which steps change what.                                                  *)

Quiet(h) ==
    \/ FindFails(h) \/ ReadFails(h) \/ TokenRefused(h) \/ NothingToSave(h)
    \/ WriteFails(h) \/ FetchFails(h) \/ CurlEnds(h) \/ ServePanics(h)

Write(h) == AddNote(h) \/ UpdateNote(h) \/ DeleteNote(h)

LEMMA QuietEnds ==
    ASSUME NEW h \in Handlers, Quiet(h)
    PROVE  Finish(h) /\ UNCHANGED <<notes, adds, clock, page>>
BY DEF Quiet, FindFails, ReadFails, TokenRefused, NothingToSave, WriteFails, FetchFails,
       CurlEnds, ServePanics

LEMMA WriteEnds ==
    ASSUME NEW h \in Handlers, Write(h)
    PROVE  Finish(h) /\ UNCHANGED <<clock, page>>
BY DEF Write, AddNote, UpdateNote, DeleteNote

LEMMA WhatChangesTheTable ==
    ASSUME [Next]_vars
    PROVE  (\E h \in Handlers : Write(h)) \/ UNCHANGED <<notes, adds>>
BY QuietEnds
   DEF Next, Step, Write, Quiet, Tick, Crash, Browse, Submit, GetAddNote, GetForm, FindNote,
       ServeToken, ServePage, ReadNote, TokenAccepted, ComposeNew, ComposeEdit, FetchNote,
       vars, serverVars

LEMMA WhatChangesThePages ==
    ASSUME [Next]_vars
    PROVE  (\E h \in Handlers : ServePage(h)) \/ UNCHANGED page
BY QuietEnds, WriteEnds
   DEF Next, Step, Write, Quiet, Tick, Crash, Browse, Submit, GetAddNote, GetForm, FindNote,
       ServeToken, ReadNote, TokenAccepted, ComposeNew, ComposeEdit, FetchNote, vars,
       serverVars

LEMMA WhatChangesRequests ==
    ASSUME TypeOK, [Next]_vars, NEW h \in Handlers
    PROVE  \/ req'[h] \in {req[h], NoRequest}
           \/ \E c \in Clients : Browse(c, h) \/ Submit(c, h)
<1>1. ASSUME NEW g \in Handlers, Step(g) \/ CurlEnds(g)
      PROVE  req'[h] \in {req[h], NoRequest}
  <2>1. CASE Finish(g)
    BY <2>1 DEF Finish, TypeOK
  <2>2. CASE ~ Finish(g)
    BY <1>1, <2>2, QuietEnds, WriteEnds
       DEF Step, Write, Quiet, FindNote, ServeToken, ServePage, ReadNote, TokenAccepted,
           ComposeNew, ComposeEdit, FetchNote, serverVars
  <2> QED  BY <2>1, <2>2
<1>2. ASSUME NEW c \in Clients, NEW g \in Handlers \ {h}, Browse(c, g) \/ Submit(c, g)
      PROVE  req'[h] = req[h]
  BY <1>2 DEF Browse, GetAddNote, GetForm, Submit, TypeOK
<1>3. CASE Tick \/ Crash \/ UNCHANGED vars
  BY <1>3 DEF Tick, Crash, vars, serverVars
<1> QED  BY <1>1, <1>2, <1>3 DEF Next

LEMMA WhatChangesCopies ==
    ASSUME TypeOK, [Next]_vars, NEW h \in Handlers
    PROVE  \/ held'[h] \in {held[h], NoNote}
           \/ /\ GetNote(h) \/ ComposeNew(h) \/ ComposeEdit(h)
              /\ UNCHANGED <<notes, adds, clock>>
<1>1. ASSUME NEW g \in Handlers, Step(g) \/ CurlEnds(g)
      PROVE  \/ held'[h] \in {held[h], NoNote}
             \/ /\ GetNote(h) \/ ComposeNew(h) \/ ComposeEdit(h)
                /\ UNCHANGED <<notes, adds, clock>>
  <2>1. CASE Finish(g)
    BY <2>1 DEF Finish, TypeOK
  <2>2. CASE g # h /\ ~ Finish(g)
    BY <1>1, <2>2, QuietEnds, WriteEnds
       DEF Step, Write, Quiet, FindNote, ServeToken, ServePage, ReadNote, TokenAccepted,
           ComposeNew, ComposeEdit, FetchNote, GetNote, serverVars, TypeOK
  <2>3. CASE g = h /\ ~ Finish(g)
    BY <1>1, <2>3, QuietEnds, WriteEnds
       DEF Step, Write, Quiet, FindNote, ServeToken, ServePage, ReadNote, TokenAccepted,
           ComposeNew, ComposeEdit, FetchNote, serverVars
  <2> QED  BY <2>1, <2>2, <2>3
<1>2. CASE \E c \in Clients, g \in Handlers : Browse(c, g) \/ Submit(c, g)
  BY <1>2 DEF Browse, GetAddNote, GetForm, Submit
<1>3. CASE Tick \/ Crash \/ UNCHANGED vars
  BY <1>3 DEF Tick, Crash, vars, serverVars
<1> QED  BY <1>1, <1>2, <1>3 DEF Next

LEMMA WhatLeadsToWrite ==
    ASSUME TypeOK, [Next]_vars, NEW h \in Handlers, pc'[h] = "write", held'[h] # NoNote
    PROVE  \/ pc[h] = "write" /\ held'[h] = held[h]
           \/ ComposeNew(h) \/ ComposeEdit(h)
<1>1. ASSUME NEW g \in Handlers, Step(g) \/ CurlEnds(g)
      PROVE  \/ pc[h] = "write" /\ held'[h] = held[h]
             \/ ComposeNew(h) \/ ComposeEdit(h)
  <2>1. CASE Finish(g)
    BY <2>1 DEF Finish, TypeOK
  <2>2. CASE g # h /\ ~ Finish(g)
    BY <1>1, <2>2, QuietEnds, WriteEnds
       DEF Step, Write, Quiet, FindNote, ServeToken, ServePage, ReadNote, TokenAccepted,
           ComposeNew, ComposeEdit, FetchNote, GetNote, Goto, serverVars, TypeOK
  <2>3. CASE g = h /\ ~ Finish(g)
    <3>1. ~ FindNote(h) /\ ~ ReadNote(h) /\ ~ FetchNote(h)
      BY DEF FindNote, ReadNote, FetchNote, Goto, TypeOK
    <3>2. ASSUME TokenAccepted(h) PROVE FALSE
      BY <3>2 DEF TokenAccepted, TypeOK, Coherent, AfterCheck, Goto, Forms, NoteForms, Request
    <3> QED
      BY <1>1, <2>3, <3>1, <3>2, QuietEnds, WriteEnds
         DEF Step, Write, Quiet, ServeToken, ServePage, serverVars
  <2> QED  BY <2>1, <2>2, <2>3
<1>2. CASE \E c \in Clients, g \in Handlers : Browse(c, g) \/ Submit(c, g)
  BY <1>2 DEF Browse, GetAddNote, GetForm, Submit, Goto, TypeOK
<1>3. CASE Tick \/ Crash \/ UNCHANGED vars
  BY <1>3 DEF Tick, Crash, vars, serverVars
<1> QED  BY <1>1, <1>2, <1>3 DEF Next

------------------------------------------------------------------------------
(* What the steps do to the table.                                           *)

LEMMA Inserted ==
    ASSUME TypeOK, NEW h \in Handlers, AddNote(h)
    PROVE  /\ adds' = adds + 1
           /\ held[h] \in Note
           /\ \E i \in Nat \ DOMAIN notes :
                /\ DOMAIN notes' = DOMAIN notes \cup {i}
                /\ \A j \in DOMAIN notes : notes'[j] = notes[j]
                /\ notes'[i].key = adds + 1 /\ notes'[i].savedFrom = adds + 1
                /\ notes'[i].title = held[h].title /\ notes'[i].text = held[h].text
                /\ notes'[i].addDate = held[h].addDate
                /\ notes'[i].changeDate = held[h].changeDate
<1>1. held[h] \in Note
  BY DEF AddNote, TypeOK, Coherent
<1>2. \A i \in NewNoteID : i \in Nat \ DOMAIN notes
  BY DEF NewNoteID, TypeOK
<1> QED  BY <1>1, <1>2 DEF AddNote

(* Title, text and date of the copy go into the row at its noteID, if there  *)
(* is one; key and addDate of the row stay.                                  *)
LEMMA Updated ==
    ASSUME TypeOK, NEW h \in Handlers, UpdateNote(h)
    PROVE  /\ adds' = adds
           /\ held[h] \in Note
           /\ DOMAIN notes' = DOMAIN notes
           /\ \A i \in DOMAIN notes \ {held[h].noteID} : notes'[i] = notes[i]
           /\ \A i \in DOMAIN notes :
                notes'[i].key = notes[i].key /\ notes'[i].addDate = notes[i].addDate
           /\ \A i \in DOMAIN notes : i = held[h].noteID =>
                /\ notes'[i].savedFrom = held[h].key
                /\ notes'[i].title = held[h].title /\ notes'[i].text = held[h].text
                /\ notes'[i].changeDate = held[h].changeDate
<1>1. held[h] \in Note
  BY DEF UpdateNote, TypeOK, Coherent
<1> QED  BY <1>1 DEF UpdateNote, Overwrite

LEMMA Deleted ==
    ASSUME TypeOK, NEW h \in Handlers, DeleteNote(h)
    PROVE  /\ adds' = adds
           /\ DOMAIN notes' = DOMAIN notes \ {req[h].noteID}
           /\ \A i \in DOMAIN notes' : notes'[i] = notes[i]
           /\ req[h] \in Request
BY DEF DeleteNote, TypeOK, Coherent

LEMMA Selected ==
    ASSUME TypeOK, NEW h \in Handlers, GetNote(h)
    PROVE  \E i \in DOMAIN notes :
             /\ held'[h].noteID = i /\ held'[h].key = notes[i].key
             /\ held'[h].title = notes[i].title /\ held'[h].text = notes[i].text
             /\ held'[h].addDate = notes[i].addDate
             /\ held'[h].changeDate = notes[i].changeDate
<1>1. held'[h] = NewLocal(req[h].noteID) /\ req[h].noteID \in DOMAIN notes
  BY DEF TypeOK, GetNote
<1> QED  BY <1>1 DEF NewLocal

------------------------------------------------------------------------------
(* A copy with this key and noteID does not point at another note while its  *)
(* own is in the table, and no note to come will have its key.               *)
PointsTo(key, i) ==
    /\ key <= adds
    /\ \A j \in DOMAIN notes : notes[j].key = key => j = i

RowKeys == \A i \in DOMAIN notes : 0 < notes[i].key /\ PointsTo(notes[i].key, i)

PageKeys == \A c \in Clients : page[c] # NoPage => PointsTo(page[c].key, page[c].noteID)

RequestKeys == \A h \in Handlers : req[h] # NoRequest => PointsTo(req[h].key, req[h].noteID)

HeldKeys == \A h \in Handlers : held[h] # NoNote => PointsTo(held[h].key, held[h].noteID)

KeyInv == RowKeys /\ PageKeys /\ RequestKeys /\ HeldKeys

(* No step makes a copy point elsewhere.                                     *)
LEMMA PointsToStable ==
    ASSUME TypeOK, [Next]_vars, NEW key \in Nat, NEW i \in Nat, PointsTo(key, i)
    PROVE  PointsTo(key, i)'
<1>1. ASSUME NEW h \in Handlers, AddNote(h)
      PROVE  PointsTo(key, i)'
  <2>1. PICK new \in Nat \ DOMAIN notes :
          /\ DOMAIN notes' = DOMAIN notes \cup {new}
          /\ \A j \in DOMAIN notes : notes'[j] = notes[j]
          /\ notes'[new].key = adds + 1
    BY <1>1, Inserted
  <2>2. adds' = adds + 1 /\ adds \in Nat
    BY <1>1, Inserted DEF TypeOK
  <2> QED  BY <2>1, <2>2 DEF PointsTo
<1>2. ASSUME NEW h \in Handlers, UpdateNote(h)
      PROVE  PointsTo(key, i)'
  <2>1. /\ adds' = adds /\ DOMAIN notes' = DOMAIN notes
        /\ \A j \in DOMAIN notes : notes'[j].key = notes[j].key
    BY <1>2, Updated
  <2> QED  BY <2>1 DEF PointsTo
<1>3. ASSUME NEW h \in Handlers, DeleteNote(h)
      PROVE  PointsTo(key, i)'
  BY <1>3, Deleted DEF PointsTo
<1>4. CASE UNCHANGED <<notes, adds>>
  BY <1>4 DEF PointsTo
<1> QED  BY <1>1, <1>2, <1>3, <1>4, WhatChangesTheTable DEF Write

(* A row that was in the table has kept its key; a new one has a new key.    *)
LEMMA RowsKeepKeys ==
    ASSUME TypeOK, [Next]_vars
    PROVE  \A i \in DOMAIN notes' :
             \/ i \in DOMAIN notes /\ notes'[i].key = notes[i].key
             \/ /\ i \notin DOMAIN notes /\ notes'[i].key = adds + 1 /\ adds' = adds + 1
                /\ \A j \in DOMAIN notes' \ {i} : j \in DOMAIN notes /\ notes'[j] = notes[j]
<1>1. ASSUME NEW h \in Handlers, AddNote(h)
      PROVE  \E i \in Nat \ DOMAIN notes :
               /\ DOMAIN notes' = DOMAIN notes \cup {i}
               /\ \A j \in DOMAIN notes : notes'[j] = notes[j]
               /\ notes'[i].key = adds + 1 /\ adds' = adds + 1
  BY <1>1, Inserted
<1>2. ASSUME NEW h \in Handlers, UpdateNote(h)
      PROVE  \A i \in DOMAIN notes' : i \in DOMAIN notes /\ notes'[i].key = notes[i].key
  BY <1>2, Updated
<1>3. ASSUME NEW h \in Handlers, DeleteNote(h)
      PROVE  \A i \in DOMAIN notes' : i \in DOMAIN notes /\ notes'[i].key = notes[i].key
  BY <1>3, Deleted
<1> QED  BY <1>1, <1>2, <1>3, WhatChangesTheTable DEF Write

LEMMA RowKeysStep ==
    ASSUME TypeOK, RowKeys, [Next]_vars PROVE RowKeys'
<1> SUFFICES ASSUME NEW i \in DOMAIN notes'
             PROVE  0 < notes'[i].key /\ notes'[i].key <= adds'
                    /\ \A j \in DOMAIN notes' : notes'[j].key = notes'[i].key => j = i
  BY DEF RowKeys, PointsTo
<1>1. CASE i \in DOMAIN notes /\ notes'[i].key = notes[i].key
  <2>1. PICK k \in Nat, n \in Nat : k = notes[i].key /\ n = i
    BY <1>1 DEF TypeOK, row
  <2>2. 0 < k /\ PointsTo(k, n)
    BY <1>1, <2>1 DEF RowKeys
  <2>3. PointsTo(k, n)'
    BY <2>2, PointsToStable
  <2> QED  BY <1>1, <2>1, <2>2, <2>3 DEF PointsTo
<1>2. CASE /\ i \notin DOMAIN notes /\ notes'[i].key = adds + 1 /\ adds' = adds + 1
           /\ \A j \in DOMAIN notes' \ {i} : j \in DOMAIN notes /\ notes'[j] = notes[j]
  <2>1. \A j \in DOMAIN notes : notes[j].key <= adds /\ notes[j].key \in Nat
    BY DEF RowKeys, PointsTo, TypeOK, row
  <2> QED  BY <1>2, <2>1 DEF TypeOK
<1> QED  BY <1>1, <1>2, RowsKeepKeys

LEMMA PageKeysStep ==
    ASSUME TypeOK, KeyInv, [Next]_vars PROVE PageKeys'
<1> SUFFICES ASSUME NEW c \in Clients, page'[c] # NoPage
             PROVE  PointsTo(page[c].key, page[c].noteID)'
  BY DEF PageKeys
<1>1. CASE page'[c] = page[c]
  <2>1. PICK k \in Nat, i \in Nat : k = page[c].key /\ i = page[c].noteID
    BY <1>1 DEF TypeOK, Page
  <2>2. PointsTo(k, i)
    BY <1>1, <2>1 DEF KeyInv, PageKeys
  <2> QED  BY <1>1, <2>1, <2>2, PointsToStable
<1>2. CASE page'[c] # page[c]
  <2>1. PICK h \in Handlers : ServePage(h) /\ page'[c] = Form(h)
    BY <1>2, WhatChangesThePages DEF ServePage, TypeOK
  <2>2. req[h] \in Request /\ (held[h] = NoNote \/ held[h] \in Note)
    BY <2>1 DEF ServePage, TypeOK, Coherent
  <2>3. PICK k \in Nat, i \in Nat : k = Form(h).key /\ i = Form(h).noteID
    BY <2>2 DEF Form, Request, Note
  <2>4. PointsTo(k, i)
    BY <2>1, <2>2, <2>3
       DEF Form, ServePage, KeyInv, HeldKeys, RowKeys, PointsTo, TypeOK
  <2> QED  BY <2>1, <2>3, <2>4, PointsToStable
<1> QED  BY <1>1, <1>2

LEMMA RequestKeysStep ==
    ASSUME TypeOK, KeyInv, [Next]_vars PROVE RequestKeys'
<1> SUFFICES ASSUME NEW h \in Handlers, req'[h] # NoRequest
             PROVE  PointsTo(req[h].key, req[h].noteID)'
  BY DEF RequestKeys
<1>1. CASE req'[h] = req[h]
  <2>1. PICK k \in Nat, i \in Nat : k = req[h].key /\ i = req[h].noteID
    BY <1>1 DEF TypeOK, Request
  <2>2. PointsTo(k, i)
    BY <1>1, <2>1 DEF KeyInv, RequestKeys
  <2> QED  BY <1>1, <2>1, <2>2, PointsToStable
<1>2. ASSUME NEW c \in Clients, Browse(c, h)
      PROVE  PointsTo(req[h].key, req[h].noteID)'
  BY <1>2 DEF Browse, GetAddNote, GetForm, AskedFor, KeyInv, RowKeys, PointsTo, TypeOK
<1>3. ASSUME NEW c \in Clients, Submit(c, h)
      PROVE  PointsTo(req[h].key, req[h].noteID)'
  <2>1. PICK p \in Page : /\ p = page[c] \/ p.key = 0
                         /\ req'[h].key = p.key /\ req'[h].noteID = p.noteID
    BY <1>3, SubmitPicks DEF SubmittedFrom, TypeOK
  <2>2. PICK k \in Nat, i \in Nat : k = p.key /\ i = p.noteID
    BY DEF Page
  <2>3. PointsTo(k, i)
    <3>1. CASE k = 0
      BY <3>1 DEF KeyInv, RowKeys, PointsTo, TypeOK
    <3>2. CASE k # 0
      BY <2>1, <2>2, <3>2, NullsAreNulls DEF KeyInv, PageKeys, NullsAreNulls
    <3> QED  BY <3>1, <3>2
  <2> QED  BY <2>1, <2>2, <2>3, PointsToStable
<1> QED  BY <1>1, <1>2, <1>3, WhatChangesRequests

LEMMA SetFieldsKeeps ==
    ASSUME NEW n \in Note, NEW content
    PROVE  /\ SetFields(n, content).key = n.key
           /\ SetFields(n, content).noteID = n.noteID
           /\ SetFields(n, content).addDate = n.addDate
           /\ SetFields(n, content).changeDate = clock
           /\ SetFields(n, content).title = content.title
           /\ SetFields(n, content).text = content.text
BY DEF SetFields, Note

LEMMA HeldKeysStep ==
    ASSUME TypeOK, KeyInv, [Next]_vars PROVE HeldKeys'
<1> SUFFICES ASSUME NEW h \in Handlers, held'[h] # NoNote
             PROVE  PointsTo(held[h].key, held[h].noteID)'
  BY DEF HeldKeys
<1>1. CASE held'[h] = held[h]
  <2>1. PICK k \in Nat, i \in Nat : k = held[h].key /\ i = held[h].noteID
    BY <1>1 DEF TypeOK, Note
  <2>2. PointsTo(k, i)
    BY <1>1, <2>1 DEF KeyInv, HeldKeys
  <2> QED  BY <1>1, <2>1, <2>2, PointsToStable
<1>2. CASE GetNote(h) /\ UNCHANGED <<notes, adds>>
  <2>1. PICK i \in DOMAIN notes : held'[h].key = notes[i].key /\ held'[h].noteID = i
    BY <1>2, Selected
  <2> QED  BY <1>2, <2>1 DEF KeyInv, RowKeys, PointsTo
<1>3. CASE ComposeNew(h) /\ UNCHANGED <<notes, adds>>
  BY <1>3 DEF ComposeNew, New, KeyInv, RowKeys, PointsTo, TypeOK
<1>4. CASE ComposeEdit(h) /\ UNCHANGED <<notes, adds>>
  <2>1. held[h] \in Note
    BY <1>4 DEF ComposeEdit, TypeOK, Coherent
  <2>2. held'[h].key = held[h].key /\ held'[h].noteID = held[h].noteID
    BY <1>4, <2>1, SetFieldsKeeps DEF ComposeEdit, TypeOK
  <2>3. held[h] # NoNote
    BY <2>1, NullsAreNulls DEF NullsAreNulls
  <2> QED  BY <1>4, <2>2, <2>3 DEF KeyInv, HeldKeys, PointsTo
<1> QED  BY <1>1, <1>2, <1>3, <1>4, WhatChangesCopies

LEMMA KeyStep == KeyInv /\ TypeOK /\ [Next]_vars => KeyInv'
BY RowKeysStep, PageKeysStep, RequestKeysStep, HeldKeysStep DEF KeyInv

THEOREM CopiesPointToTheirNotes == Spec => []KeyInv
<1>1. Init => KeyInv
  BY DEF Init, KeyInv, RowKeys, PageKeys, RequestKeys, HeldKeys
<1> QED  BY <1>1, KeyStep, ServerTyping, PTL DEF Spec

(* A deletion hits the note its page showed, if that note is still there.    *)
THEOREM DeletesShownNotes == Spec => DeletesShownNote
<1>1. TypeOK /\ KeyInv /\ [Next]_vars
        => [\A h \in Handlers :
              DeleteNote(h) /\ req[h].key \in Keys => req[h].key \notin Keys']_vars
  <2> SUFFICES ASSUME TypeOK, KeyInv, NEW h \in Handlers, DeleteNote(h),
                      req[h].key \in Keys
               PROVE  req[h].key \notin Keys'
    OBVIOUS
  <2>1. req[h] # NoRequest
    BY DEF DeleteNote, TypeOK, Coherent
  <2>2. \A i \in DOMAIN notes : notes[i].key = req[h].key => i = req[h].noteID
    BY <2>1 DEF KeyInv, RequestKeys, PointsTo
  <2>3. \A i \in DOMAIN notes' : notes'[i].key # req[h].key
    BY <2>2, Deleted
  <2> QED  BY <2>3 DEF Keys
<1> QED  BY <1>1, CopiesPointToTheirNotes, ServerTyping, PTL DEF Spec, DeletesShownNote

------------------------------------------------------------------------------
(* Dates.  A copy that has the key of a row has its addDate too.             *)
SameAddDate(key, date) ==
    /\ date <= clock
    /\ \A i \in DOMAIN notes : notes[i].key = key => notes[i].addDate = date

DateInv ==
    /\ \A i \in DOMAIN notes : SameAddDate(notes[i].key, notes[i].addDate)
    /\ \A h \in Handlers : held[h] # NoNote => SameAddDate(held[h].key, held[h].addDate)
    /\ \A h \in Handlers : pc[h] = "write" /\ held[h] # NoNote
                              => held[h].addDate <= held[h].changeDate

LEMMA SameAddDateStable ==
    ASSUME TypeOK, KeyInv, [Next]_vars, NEW key \in Nat, NEW date \in Nat,
           key <= adds, SameAddDate(key, date)
    PROVE  SameAddDate(key, date)'
<1>1. clock <= clock' /\ clock \in Nat /\ clock' \in Nat
  BY QuietEnds, WriteEnds
     DEF TypeOK, Next, Step, Write, Quiet, Tick, Crash, Browse, Submit, GetAddNote, GetForm,
         FindNote, ServeToken, ServePage, ReadNote, TokenAccepted, ComposeNew, ComposeEdit,
         FetchNote, vars, serverVars
<1>2. ASSUME NEW h \in Handlers, AddNote(h)
      PROVE  SameAddDate(key, date)'
  <2>1. PICK new \in Nat \ DOMAIN notes :
          /\ DOMAIN notes' = DOMAIN notes \cup {new}
          /\ \A j \in DOMAIN notes : notes'[j] = notes[j]
          /\ notes'[new].key = adds + 1
    BY <1>2, Inserted
  <2>2. adds \in Nat
    BY DEF TypeOK
  <2> QED  BY <1>1, <2>1, <2>2 DEF SameAddDate
<1>3. ASSUME NEW h \in Handlers, UpdateNote(h)
      PROVE  SameAddDate(key, date)'
  <2>1. /\ DOMAIN notes' = DOMAIN notes
        /\ \A j \in DOMAIN notes :
              notes'[j].key = notes[j].key /\ notes'[j].addDate = notes[j].addDate
    BY <1>3, Updated
  <2> QED  BY <1>1, <2>1 DEF SameAddDate
<1>4. ASSUME NEW h \in Handlers, DeleteNote(h)
      PROVE  SameAddDate(key, date)'
  <2>1. \A j \in DOMAIN notes' : j \in DOMAIN notes /\ notes'[j] = notes[j]
    BY <1>4, Deleted
  <2> QED  BY <1>1, <2>1 DEF SameAddDate
<1>5. CASE UNCHANGED <<notes, adds>>
  BY <1>1, <1>5 DEF SameAddDate
<1> QED  BY <1>2, <1>3, <1>4, <1>5, WhatChangesTheTable DEF Write

LEMMA NewRowsCarryHeldDate ==
    ASSUME TypeOK, KeyInv, DateInv, [Next]_vars, NEW i \in DOMAIN notes'
    PROVE  \/ /\ i \in DOMAIN notes
              /\ notes'[i].key = notes[i].key /\ notes'[i].addDate = notes[i].addDate
           \/ /\ notes'[i].key = adds + 1 /\ adds' = adds + 1
              /\ \A j \in DOMAIN notes' \ {i} : j \in DOMAIN notes /\ notes'[j] = notes[j]
              /\ notes'[i].addDate <= clock' /\ notes'[i].addDate <= notes'[i].changeDate
<1>1. ASSUME NEW h \in Handlers, AddNote(h)
      PROVE  \/ i \in DOMAIN notes /\ notes'[i] = notes[i]
             \/ /\ notes'[i].key = adds + 1 /\ adds' = adds + 1
                /\ \A j \in DOMAIN notes' \ {i} : j \in DOMAIN notes /\ notes'[j] = notes[j]
                /\ notes'[i].addDate <= clock' /\ notes'[i].addDate <= notes'[i].changeDate
  <2>1. PICK new \in Nat \ DOMAIN notes :
          /\ DOMAIN notes' = DOMAIN notes \cup {new}
          /\ \A j \in DOMAIN notes : notes'[j] = notes[j]
          /\ notes'[new].key = adds + 1 /\ adds' = adds + 1
          /\ notes'[new].addDate = held[h].addDate
          /\ notes'[new].changeDate = held[h].changeDate
    BY <1>1, Inserted
  <2>2. held[h].addDate <= clock /\ held[h].addDate <= held[h].changeDate
    BY <1>1 DEF AddNote, TypeOK, Coherent, DateInv, SameAddDate
  <2>3. clock' = clock
    BY <1>1, WriteEnds DEF Write
  <2> QED  BY <2>1, <2>2, <2>3
<1>2. ASSUME NEW h \in Handlers, UpdateNote(h)
      PROVE  /\ i \in DOMAIN notes
             /\ notes'[i].key = notes[i].key /\ notes'[i].addDate = notes[i].addDate
  BY <1>2, Updated
<1>3. ASSUME NEW h \in Handlers, DeleteNote(h)
      PROVE  i \in DOMAIN notes /\ notes'[i] = notes[i]
  BY <1>3, Deleted
<1> QED  BY <1>1, <1>2, <1>3, WhatChangesTheTable DEF Write

LEMMA DateStepRows ==
    ASSUME TypeOK, KeyInv, DateInv, [Next]_vars, NEW i \in DOMAIN notes'
    PROVE  SameAddDate(notes[i].key, notes[i].addDate)'
<1>1. CASE /\ i \in DOMAIN notes
           /\ notes'[i].key = notes[i].key /\ notes'[i].addDate = notes[i].addDate
  <2>1. PICK k \in Nat, d \in Nat : k = notes[i].key /\ d = notes[i].addDate
    BY <1>1 DEF TypeOK, row
  <2>2. k <= adds /\ SameAddDate(k, d)
    BY <1>1, <2>1 DEF DateInv, KeyInv, RowKeys, PointsTo
  <2> QED  BY <1>1, <2>1, <2>2, SameAddDateStable
<1>2. CASE /\ notes'[i].key = adds + 1 /\ adds' = adds + 1
           /\ \A j \in DOMAIN notes' \ {i} : j \in DOMAIN notes /\ notes'[j] = notes[j]
           /\ notes'[i].addDate <= clock'
  <2>1. adds \in Nat /\ \A j \in DOMAIN notes : notes[j].key \in Nat /\ notes[j].key <= adds
    BY DEF KeyInv, RowKeys, PointsTo, TypeOK, row
  <2> QED  BY <1>2, <2>1 DEF SameAddDate
<1> QED  BY <1>1, <1>2, NewRowsCarryHeldDate

LEMMA DateStepHeld ==
    ASSUME TypeOK, KeyInv, DateInv, [Next]_vars, NEW h \in Handlers, held'[h] # NoNote
    PROVE  SameAddDate(held[h].key, held[h].addDate)'
<1>1. CASE held'[h] = held[h]
  <2>1. PICK k \in Nat, d \in Nat : k = held[h].key /\ d = held[h].addDate
    BY <1>1 DEF TypeOK, Note
  <2>2. k <= adds /\ SameAddDate(k, d)
    BY <1>1, <2>1 DEF DateInv, KeyInv, HeldKeys, PointsTo
  <2> QED  BY <1>1, <2>1, <2>2, SameAddDateStable
<1>2. CASE GetNote(h) /\ UNCHANGED <<notes, adds, clock>>
  <2>1. PICK i \in DOMAIN notes :
          held'[h].key = notes[i].key /\ held'[h].addDate = notes[i].addDate
    BY <1>2, Selected
  <2> QED  BY <1>2, <2>1 DEF DateInv, SameAddDate
<1>3. CASE ComposeNew(h) /\ UNCHANGED <<notes, adds, clock>>
  BY <1>3 DEF ComposeNew, New, KeyInv, RowKeys, SameAddDate, TypeOK
<1>4. CASE ComposeEdit(h) /\ UNCHANGED <<notes, adds, clock>>
  <2>1. held[h] \in Note /\ held[h] # NoNote
    BY <1>4, NullsAreNulls DEF ComposeEdit, TypeOK, Coherent, NullsAreNulls
  <2>2. held'[h].key = held[h].key /\ held'[h].addDate = held[h].addDate
    BY <1>4, <2>1, SetFieldsKeeps DEF ComposeEdit, TypeOK
  <2> QED  BY <1>4, <2>1, <2>2 DEF DateInv, SameAddDate
<1> QED  BY <1>1, <1>2, <1>3, <1>4, WhatChangesCopies

(* A copy about to be written was dated when it was composed.                *)
LEMMA DateStepWrite ==
    ASSUME TypeOK, DateInv, [Next]_vars, NEW h \in Handlers,
           pc'[h] = "write", held'[h] # NoNote
    PROVE  held'[h].addDate <= held'[h].changeDate
<1>1. CASE ComposeNew(h)
  BY <1>1 DEF ComposeNew, New, TypeOK
<1>2. CASE ComposeEdit(h)
  <2>1. held[h] \in Note /\ held[h] # NoNote
    BY <1>2, NullsAreNulls DEF ComposeEdit, TypeOK, Coherent, NullsAreNulls
  <2>2. held'[h].addDate = held[h].addDate /\ held'[h].changeDate = clock
    BY <1>2, <2>1, SetFieldsKeeps DEF ComposeEdit, TypeOK
  <2> QED  BY <2>1, <2>2 DEF DateInv, SameAddDate
<1>3. CASE ~ ComposeNew(h) /\ ~ ComposeEdit(h)
  <2>1. pc[h] = "write" /\ held'[h] = held[h]
    BY <1>3, WhatLeadsToWrite
  <2> QED  BY <2>1 DEF DateInv
<1> QED  BY <1>1, <1>2, <1>3

LEMMA DateStep == DateInv /\ TypeOK /\ KeyInv /\ [Next]_vars => DateInv'
<1> SUFFICES ASSUME DateInv, TypeOK, KeyInv, [Next]_vars PROVE DateInv'
  OBVIOUS
<1>1. \A i \in DOMAIN notes' : SameAddDate(notes[i].key, notes[i].addDate)'
  BY DateStepRows
<1>2. \A h \in Handlers :
        held'[h] # NoNote => SameAddDate(held[h].key, held[h].addDate)'
  BY DateStepHeld
<1>3. \A h \in Handlers :
        pc'[h] = "write" /\ held'[h] # NoNote => held'[h].addDate <= held'[h].changeDate
  BY DateStepWrite
<1> QED  BY <1>1, <1>2, <1>3 DEF DateInv

LEMMA AddedStep ==
    AddedBeforeChanged /\ DateInv /\ TypeOK /\ KeyInv /\ [Next]_vars => AddedBeforeChanged'
<1> SUFFICES ASSUME AddedBeforeChanged, DateInv, TypeOK, KeyInv, [Next]_vars,
                    NEW i \in DOMAIN notes', notes'[i].savedFrom = notes'[i].key
             PROVE  notes'[i].addDate <= notes'[i].changeDate
  BY DEF AddedBeforeChanged
<1>1. ASSUME NEW h \in Handlers, UpdateNote(h), i = held[h].noteID
      PROVE  notes'[i].addDate <= notes'[i].changeDate
  <2>1. /\ i \in DOMAIN notes /\ notes'[i].addDate = notes[i].addDate
        /\ notes[i].key = held[h].key /\ notes'[i].changeDate = held[h].changeDate
    BY <1>1, Updated
  <2>2. held[h].addDate <= held[h].changeDate /\ notes[i].addDate = held[h].addDate
    BY <1>1, <2>1 DEF UpdateNote, TypeOK, Coherent, DateInv, SameAddDate
  <2> QED  BY <2>1, <2>2
<1>2. ASSUME NEW h \in Handlers, UpdateNote(h), i # held[h].noteID
      PROVE  i \in DOMAIN notes /\ notes'[i] = notes[i]
  BY <1>2, Updated
<1>3. ASSUME NEW h \in Handlers, AddNote(h), i \in DOMAIN notes
      PROVE  notes'[i] = notes[i]
  BY <1>3, Inserted
<1>4. ASSUME NEW h \in Handlers, AddNote(h), i \notin DOMAIN notes
      PROVE  notes'[i].addDate <= notes'[i].changeDate
  BY <1>4, NewRowsCarryHeldDate
<1>5. ASSUME NEW h \in Handlers, DeleteNote(h)
      PROVE  i \in DOMAIN notes /\ notes'[i] = notes[i]
  BY <1>5, Deleted
<1>6. i \in DOMAIN notes /\ notes'[i] = notes[i] => notes'[i].addDate <= notes'[i].changeDate
  BY DEF AddedBeforeChanged
<1> QED
  BY <1>1, <1>2, <1>3, <1>4, <1>5, <1>6, WhatChangesTheTable DEF Write

(* A note was not changed before it was added, unless it was last saved from *)
(* the copy of an earlier note with its noteID.                              *)
THEOREM DatesInOrder == Spec => []AddedBeforeChanged
<1>1. Init => DateInv /\ AddedBeforeChanged
  BY DEF Init, DateInv, AddedBeforeChanged
<1> QED
  BY <1>1, DateStep, AddedStep, CopiesPointToTheirNotes, ServerTyping, PTL DEF Spec

------------------------------------------------------------------------------
(* Titles and texts.  What rows and copies hold was sent together.           *)
SentTogether(n) == [title |-> n.title, text |-> n.text] \in Contents

ContentInv ==
    /\ \A i \in DOMAIN notes : SentTogether(notes[i])
    /\ \A h \in Handlers : held[h] # NoNote => SentTogether(held[h])

LEMMA ContentIsSent ==
    ASSUME NEW n, NEW content \in Contents, n.title = content.title, n.text = content.text
    PROVE  SentTogether(n)
BY ContentsAssumption DEF ContentsAssumption, SentTogether

LEMMA ContentStep == ContentInv /\ TypeOK /\ [Next]_vars => ContentInv'
<1> SUFFICES ASSUME ContentInv, TypeOK, [Next]_vars PROVE ContentInv'
  OBVIOUS
<1>1. ASSUME NEW i \in DOMAIN notes' PROVE SentTogether(notes'[i])
  <2>1. ASSUME NEW h \in Handlers, AddNote(h)
        PROVE  \/ i \in DOMAIN notes /\ notes'[i] = notes[i]
               \/ notes'[i].title = held[h].title /\ notes'[i].text = held[h].text
    BY <2>1, Inserted
  <2>2. ASSUME NEW h \in Handlers, UpdateNote(h)
        PROVE  \/ i \in DOMAIN notes /\ notes'[i] = notes[i]
               \/ notes'[i].title = held[h].title /\ notes'[i].text = held[h].text
    BY <2>2, Updated
  <2>3. ASSUME NEW h \in Handlers, DeleteNote(h)
        PROVE  i \in DOMAIN notes /\ notes'[i] = notes[i]
    BY <2>3, Deleted
  <2>4. ASSUME NEW h \in Handlers, AddNote(h) \/ UpdateNote(h)
        PROVE  SentTogether(held[h])
    BY <2>4 DEF AddNote, UpdateNote, TypeOK, Coherent, ContentInv
  <2>5. i \in DOMAIN notes => SentTogether(notes[i])
    BY DEF ContentInv
  <2> QED
    BY <2>1, <2>2, <2>3, <2>4, <2>5, WhatChangesTheTable DEF Write, SentTogether
<1>2. ASSUME NEW h \in Handlers, held'[h] # NoNote PROVE SentTogether(held'[h])
  <2>1. CASE held'[h] = held[h]
    BY <1>2, <2>1 DEF ContentInv
  <2>2. CASE GetNote(h)
    BY <2>2, Selected DEF ContentInv, SentTogether
  <2>3. CASE ComposeNew(h)
    <3>1. req[h].content \in Contents
      BY <2>3 DEF ComposeNew, TypeOK, Coherent
    <3>2. held'[h].title = req[h].content.title /\ held'[h].text = req[h].content.text
      BY <2>3 DEF ComposeNew, New, TypeOK
    <3> QED  BY <3>1, <3>2, ContentIsSent
  <2>4. CASE ComposeEdit(h)
    <3>1. req[h].content \in Contents /\ held[h] \in Note
      BY <2>4 DEF ComposeEdit, TypeOK, Coherent
    <3>2. held'[h].title = req[h].content.title /\ held'[h].text = req[h].content.text
      BY <2>4, <3>1, SetFieldsKeeps DEF ComposeEdit, TypeOK
    <3> QED  BY <3>1, <3>2, ContentIsSent
  <2> QED  BY <1>2, <2>1, <2>2, <2>3, <2>4, WhatChangesCopies
<1> QED  BY <1>1, <1>2 DEF ContentInv, SentTogether

------------------------------------------------------------------------------
(* The refinement.  Live is what Store's live stands for.                    *)
Live == [k \in Keys |-> NoteByKey(k)]

LEMMA LiveNotes ==
    TypeOK /\ KeyInv =>
      /\ DOMAIN Live = Keys
      /\ \A i \in DOMAIN notes : /\ notes[i].key \in Keys
                                 /\ Live[notes[i].key] = NewLocal(i)
<1> SUFFICES ASSUME TypeOK, KeyInv, NEW i \in DOMAIN notes
             PROVE  notes[i].key \in Keys /\ NoteByKey(notes[i].key) = NewLocal(i)
  BY DEF Live
<1>1. \A j \in DOMAIN notes : notes[j].key = notes[i].key => j = i
  BY DEF KeyInv, RowKeys, PointsTo
<1>2. (CHOOSE j \in DOMAIN notes : notes[j].key = notes[i].key) = i
  BY <1>1
<1> QED  BY <1>2 DEF NoteByKey, Keys

LEMMA LiveNotesNext ==
    ASSUME TypeOK', KeyInv', NEW i \in DOMAIN notes'
    PROVE  notes'[i].key \in Keys' /\ Live'[notes'[i].key] = NewLocal(i)'
<1>1. \A j \in DOMAIN notes' : notes'[j].key = notes'[i].key => j = i
  BY DEF KeyInv, RowKeys, PointsTo
<1>2. PICK k : k = notes'[i].key
  OBVIOUS
<1>3. (CHOOSE j \in DOMAIN notes' : notes'[j].key = k) = i
  BY <1>1, <1>2
<1>4. NoteByKey(k)' = NewLocal(i)'
  BY <1>3 DEF NoteByKey
<1>5. k \in Keys'
  BY <1>2 DEF Keys
<1> QED  BY <1>2, <1>4, <1>5 DEF Live

LEMMA InsertRefined ==
    ASSUME TypeOK, KeyInv, ContentInv', TypeOK', KeyInv', NEW h \in Handlers, AddNote(h)
    PROVE  Store!Insert
<1>1. PICK new \in Nat \ DOMAIN notes :
        /\ DOMAIN notes' = DOMAIN notes \cup {new}
        /\ \A j \in DOMAIN notes : notes'[j] = notes[j]
        /\ notes'[new].key = adds + 1 /\ adds' = adds + 1
  BY Inserted
<1>2. Keys' = Keys \cup {adds'}
  BY <1>1 DEF Keys
<1>3. Live'[adds'] = NewLocal(new)'
  BY <1>1, LiveNotesNext
<1>4. ASSUME NEW k \in Keys
      PROVE  Live'[k] = Live[k] /\ Live'[k].noteID # Live'[adds'].noteID
  <2>1. PICK i \in DOMAIN notes : k = notes[i].key
    BY DEF Keys
  <2>2. i \in DOMAIN notes' /\ notes'[i] = notes[i] /\ i # new
    BY <1>1
  <2>3. Live[k] = NewLocal(i)
    BY <2>1, LiveNotes
  <2>4. Live'[k] = NewLocal(i)'
    BY <2>1, <2>2, LiveNotesNext
  <2>5. NewLocal(i)' = NewLocal(i)
    BY <2>2 DEF NewLocal
  <2>6. NewLocal(i)'.noteID = i /\ NewLocal(new)'.noteID = new
    BY DEF NewLocal
  <2> QED  BY <1>3, <2>2, <2>3, <2>4, <2>5, <2>6
<1>5. [title |-> Live'[adds'].title, text |-> Live'[adds'].text] \in Contents
  <2>1. SentTogether(notes'[new])
    BY <1>1 DEF ContentInv, SentTogether
  <2>2. /\ Live'[adds'].title = notes'[new].title
        /\ Live'[adds'].text = notes'[new].text
    BY <1>3 DEF NewLocal
  <2> QED  BY <2>1, <2>2 DEF SentTogether
<1> QED
  BY <1>1, <1>2, <1>4, <1>5, LiveNotes DEF Store!Insert, Store!WellFormed, Live

LEMMA UpdateRefined ==
    ASSUME TypeOK, KeyInv, ContentInv', TypeOK', KeyInv', NEW h \in Handlers, UpdateNote(h)
    PROVE  Store!Update \/ UNCHANGED <<Live, adds>>
<1>1. /\ adds' = adds /\ DOMAIN notes' = DOMAIN notes
      /\ \A i \in DOMAIN notes \ {held[h].noteID} : notes'[i] = notes[i]
      /\ \A i \in DOMAIN notes :
           notes'[i].key = notes[i].key /\ notes'[i].addDate = notes[i].addDate
  BY Updated
<1>2. Keys' = Keys
  BY <1>1 DEF Keys
<1>3. ASSUME NEW i \in DOMAIN notes
      PROVE  Live[notes[i].key] = NewLocal(i) /\ Live'[notes[i].key] = NewLocal(i)'
  <2>1. i \in DOMAIN notes' /\ notes'[i].key = notes[i].key
    BY <1>1
  <2> QED  BY <2>1, LiveNotes, LiveNotesNext
<1>4. CASE held[h].noteID \in DOMAIN notes
  <2>1. PICK i \in DOMAIN notes : i = held[h].noteID
    BY <1>4
  <2>2. PICK n \in Keys : n = notes[i].key
    BY DEF Keys
  <2>3. Live[n] = NewLocal(i) /\ Live'[n] = NewLocal(i)'
    BY <1>3, <2>2
  <2>4. Live'[n].noteID = Live[n].noteID /\ Live'[n].addDate = Live[n].addDate
    BY <1>1, <2>3 DEF NewLocal
  <2>5. [title |-> Live'[n].title, text |-> Live'[n].text] \in Contents
    <3>1. SentTogether(notes'[i])
      BY <1>1 DEF ContentInv, SentTogether
    <3>2. Live'[n].title = notes'[i].title /\ Live'[n].text = notes'[i].text
      BY <2>3 DEF NewLocal
    <3> QED  BY <3>1, <3>2 DEF SentTogether
  <2>6. ASSUME NEW m \in Keys \ {n} PROVE Live'[m] = Live[m]
    <3>1. PICK j \in DOMAIN notes : m = notes[j].key
      BY DEF Keys
    <3>2. notes'[j] = notes[j]
      BY <1>1, <2>1, <2>2, <2>6, <3>1
    <3>3. NewLocal(j)' = NewLocal(j)
      BY <3>2 DEF NewLocal
    <3> QED  BY <1>3, <3>1, <3>3
  <2> QED
    BY <1>1, <1>2, <2>4, <2>5, <2>6 DEF Store!Update, Store!WellFormed, Live
<1>5. CASE held[h].noteID \notin DOMAIN notes
  <2>1. ASSUME NEW m \in Keys PROVE Live'[m] = Live[m]
    <3>1. PICK j \in DOMAIN notes : m = notes[j].key
      BY DEF Keys
    <3>2. NewLocal(j)' = NewLocal(j)
      BY <1>1, <1>5 DEF NewLocal
    <3> QED  BY <1>3, <3>1, <3>2
  <2> QED  BY <1>1, <1>2, <2>1 DEF Live
<1> QED  BY <1>4, <1>5

LEMMA DeleteRefined ==
    ASSUME TypeOK, KeyInv, TypeOK', KeyInv', NEW h \in Handlers, DeleteNote(h)
    PROVE  Store!Delete \/ UNCHANGED <<Live, adds>>
<1>1. /\ adds' = adds /\ DOMAIN notes' = DOMAIN notes \ {req[h].noteID}
      /\ \A i \in DOMAIN notes' : notes'[i] = notes[i]
  BY Deleted
<1>2. Keys' \subseteq Keys
  BY <1>1 DEF Keys
<1>3. ASSUME NEW m \in Keys' PROVE Live'[m] = Live[m]
  <2>1. PICK j \in DOMAIN notes' : m = notes'[j].key
    BY DEF Keys
  <2>2. j \in DOMAIN notes /\ notes'[j] = notes[j]
    BY <1>1
  <2>3. NewLocal(j)' = NewLocal(j)
    BY <2>2 DEF NewLocal
  <2>4. Live[m] = NewLocal(j)
    BY <2>1, <2>2, LiveNotes
  <2> QED  BY <2>1, <2>3, <2>4, LiveNotesNext
<1>4. CASE req[h].noteID \in DOMAIN notes
  <2>1. PICK i \in DOMAIN notes : i = req[h].noteID
    BY <1>4
  <2>2. PICK n \in Keys : n = notes[i].key
    BY DEF Keys
  <2>3. Keys' = Keys \ {n}
    <3>1. \A j \in DOMAIN notes : notes[j].key = n => j = i
      BY <2>2 DEF KeyInv, RowKeys, PointsTo
    <3> QED  BY <1>1, <2>1, <2>2, <3>1 DEF Keys
  <2>4. Live' = [m \in Keys \ {n} |-> Live[m]]
    BY <1>3, <2>3 DEF Live
  <2> QED  BY <1>1, <2>4 DEF Store!Delete, Live
<1>5. CASE req[h].noteID \notin DOMAIN notes
  <2>1. Keys' = Keys
    BY <1>1, <1>5 DEF Keys
  <2> QED  BY <1>1, <1>3, <2>1 DEF Live
<1> QED  BY <1>4, <1>5

LEMMA StepRefined ==
    /\ TypeOK /\ KeyInv /\ TypeOK' /\ KeyInv' /\ ContentInv' /\ [Next]_vars
    => [Store!StoreNext]_<<Live, adds>>
<1> SUFFICES ASSUME TypeOK, KeyInv, TypeOK', KeyInv', ContentInv', [Next]_vars
             PROVE  Store!StoreNext \/ UNCHANGED <<Live, adds>>
  OBVIOUS
<1>1. ASSUME NEW h \in Handlers, Write(h)
      PROVE  Store!StoreNext \/ UNCHANGED <<Live, adds>>
  BY <1>1, InsertRefined, UpdateRefined, DeleteRefined DEF Write, Store!StoreNext
<1>2. CASE UNCHANGED <<notes, adds>>
  BY <1>2 DEF Live, Keys, NoteByKey, NewLocal
<1> QED  BY <1>1, <1>2, WhatChangesTheTable

(* The server, with its handlers that interleave and crash and its table     *)
(* that uses noteIDs again, keeps every promise of NoteStore.                *)
THEOREM ServerImplementsStore == Spec => ImplementsStore
<1>1. Init => Store!StoreInit
  BY DEF Init, Store!StoreInit, Keys
<1>2. Init => ContentInv
  BY DEF Init, ContentInv
<1>3. [Store!StoreNext]_<<Live, adds>> <=> [Store!StoreNext]_(Store!storeVars)
  BY DEF Live, Store!storeVars
<1> QED
  BY <1>1, <1>2, <1>3, StepRefined, ContentStep, CopiesPointToTheirNotes, ServerTyping, PTL
     DEF Spec, ImplementsStore, Store!StoreSpec
==============================================================================
