# ShareNotes: specification and proofs

ShareNotes is a small web server, written in Go, for notes shared between
devices. It serves HTML forms that add, edit, delete and export notes, and
keeps the notes in one SQLite table. `net/http` runs every request on its own
goroutine, and nothing in the program takes a lock; what order there is comes
from SQLite, whose source is vendored with the program. What the server
promises therefore depends on how requests come between each other, on what
handlers and open browser pages remember of a note, on what a restart forgets,
and on the locks and the journal of the database file. This directory models
those parts in TLA+, checks them with TLC on small instances, and proves the
main results with TLAPS for all instances.

Line numbers refer to `src/src/shareNotes.go` (S),
`src/src/database/manager/DatabaseManager.go` (D), `src/src/note/Note.go` (N)
and `src/src/github.com/mattn/go-sqlite3/code/sqlite3-binding.c` (B), the SQLite
amalgamation.

## The system

| Component | State it keeps | Operations | What makes it correct |
|---|---|---|---|
| Session tokens, S 21-74 | `sidManager.currentID`, the map `sessionTokens`, the random source | `generateSynchronizedToken`, `synchronizedTokenIsValid` | a token on a served page is accepted while the process lives; no string of an earlier process ever is |
| Form handlers, S 181-187 and 241-256 | locals only: the note found, the token | `addNoteHandler`, `preparePostHandler` | the page carries the note that was found and a token for its POST |
| POST handlers, S 189-215 and 258-371 | locals only: the form's fields, the note found | `newNoteHandler`, `saveNoteHandler`, `deleteNoteHandler`, `pasteBinNoteHandler` | they act on a valid token and on the note the page showed; every request is answered |
| Table of notes, D 135-209 and 270-292, N | table `notes` in `sndb.db` | `AddNote`, `UpdateNote`, `DeleteNote`, `GetNote`, `note.New`, `SetTitle`, `SetText` | notes are never mixed up, lost or half changed; their dates are in order |
| Transactions and pool, D 135-209 | connections of `database/sql`, open transactions | Begin, Prepare, Exec, Commit | a failure leaves nothing behind; what is reported as saved is saved |
| Opening the database, D 73-129 | the file and its table | `Open`, `checkDBValidity`, `initializeDB` | the server starts with a usable table and keeps the notes it had |
| Lists and filters, S 152-175 and 373-408, D 211-268 | the slice `dbm.notes`, shared by all requests | `LoadNotes`, `LoadNotesWhere`, the loops of the two handlers | a list shows rows of its own query, completely |
| Link rendering, S 89-137 | locals only | `partialHtmlParser` | it returns, shows the whole text and wraps each link |
| Request limiter, S 485-496 | `lastRequestTime` | `tooManyRequests` | it refuses only hasty requests, and admits no two hasty ones |
| Locks on the file, B 25076-25883 and 29393-29433 | `unixFile`, `unixInodeInfo`, the system's locks | `unixOpen`, `unixClose`, `unixLock`, `posixUnlock`, `unixCheckReservedLock` | connections of all processes exclude each other by their levels |
| Rollback journal, B 41234-46228 | the file, the journal, the page cache, `dbFileVers` | lock and recovery, read, write, commit, rollback | transactions are atomic, isolated and durable |
| Routing, S 410-483 and 498-514 | none | path expressions and wrappers | a path reaches its handler with its noteID |
| Templates, `src/html/` | none | six pages | the form posts the noteID and token it was given |
| Random strings, S 35-61 | the random source | `randomStringLength` | 100 letters, different each time |

Handlers call the token manager and the database manager directly. Browsers
connect the requests: a GET yields a page with a noteID and a token, and the
page can be submitted at any later time, any number of times. Handlers share
`sidManager`, `src`, `dbManager` and `lastRequestTime` as unguarded package
variables. The database manager runs SQL on connections that `database/sql`
pools; each connection is one of SQLite's, with its own cache, and they meet, as
do other programs, at the locks on `sndb.db`. The table survives a restart, and
so do pages open in browsers; nothing else does.

What is hard here:

* **Interleaving without locks.** Two generations of tokens, a lookup during an
  assignment to the map, two passes through the limiter, two loads that fill the
  one slice.
* **Copies that grow stale.** A page, a submitted request and a handler's
  `foundNote` all name a note by its noteID, and SQLite uses the noteID of a
  deleted last note again. A list reads the array which the next load
  overwrites. A connection keeps its page cache between transactions.
* **Restarts, deaths and power.** Token IDs begin again at 0 while old pages are
  still open; a process may die between any two writes to the file.
* **Failures that are not reported.** The errors of `Commit`, of the rows and of
  `initializeDB` are ignored, and early returns skip `Rollback`.
* **Locks that belong to somebody else.** POSIX locks belong to processes, SQLite
  needs them to belong to connections.
* **Loops over text.** `partialHtmlParser` looks for links by content.
* **The wall clock.** It dates notes and drives the limiter.

`PROJECT.json` lists each hazard with its line and the properties that watch it.

## Modules

| Module | Models | Used with |
|---|---|---|
| `SessionTokens` | the token manager, each access to shared memory a step | extended by `ShareNotes` |
| `ShareNotes` | browsers, form and POST handlers, table, restarts | `MCShareNotes`: `Requests.cfg`, `Edits.cfg` |
| `NoteStore` | abstract specification of the table: insert, update, delete | refined by `ShareNotes` (`ImplementsStore`) |
| `NoteTx` | start-up, writes and lists on pooled connections; extends `FileLock` | `MCNoteTx`: `Transactions.cfg`, `SavedLost.cfg` |
| `NoteList` | the lists on the shared slice, each store a step | `MCNoteList`: `Lists.cfg`, `ListsMixed.cfg` |
| `LinkParser` | `partialHtmlParser`, one iteration a step | `MCLinkParser`: `Links.cfg`, `LinksTouch.cfg` |
| `RequestLimiter` | `tooManyRequests`, each access to `lastRequestTime` a step | `MCRequestLimiter`: `Limiter.cfg` |
| `FileLock` | abstract specification of the locks: five levels per connection | refined by `UnixLock` (`ImplementsFileLock`), used by `NoteTx` and `RollbackJournal` |
| `UnixLock` | the unix VFS, one call of `fcntl` a step | `MCUnixLock`: `Locks.cfg` |
| `AtomicFile` | abstract specification of transactions on a file | refined by `RollbackJournal` (`ImplementsAtomicFile`) |
| `RollbackJournal` | the pager, one system call a step; extends `FileLock` | `MCRollbackJournal`: `Journal.cfg`, `HotIgnored.cfg` |
| `ShareNotesProofs` (with the theorems about `SessionTokens`), `NoteStoreProofs`, `LinkParserProofs`, `RequestLimiterProofs`, `NoteListProofs`, `NoteTxProofs`, `UnixLockProofs`, `RollbackJournalProofs` | theorems | TLAPS |

The modules form a stack. `UnixLock` implements the locks that `RollbackJournal`
and `NoteTx` take in one step. `RollbackJournal` implements transactions that
are atomic, and `NoteTx` commits in one step. `ShareNotes` calls the database
manager in one step, with an alternative that does nothing; `NoteTx` is the
inside of such a call, and its properties say how far that step is justified.

### SessionTokens

`gen[h]` is where goroutine `h` stands in `generateSynchronizedToken`:
`Begin` (the call), `Draw` (the struct literal: random string and load of
`currentID`), `StoreToken` (the map assignment), `LoadID` and `StoreID` (the two
halves of `currentID++`). `synchronizedTokenIsValid` is an operator; a Go map
returns the empty string for a missing key, and `Lookup` does too.

A data race is a choice over its outcomes. Two goroutines in the random source
may make one of them panic (`DrawPanics`); net/http recovers it. Two in the map
may lose the new insertion, or make a lookup miss; an entry stored before the
race is not lost. If the runtime notices and aborts the process, that is
`Restart`. A token string is the number of its drawing. This says that strings
never repeat, also across restarts, which 100 letters from a source seeded with
the time in nanoseconds justify.

`boot`, `overlapped`, `issued` and `alone` are history variables. No guard reads
them.

### ShareNotes

`pc[h]` is where handler `h` stands, `req[h]` its request, `held[h]` its
`foundNote` or new note, and `page[c]` the form shown by window `c`. Steps are
cut where another goroutine can come between:

* GET of a form: `GetForm`, `FindNote`, the token's steps, `ServePage`.
  `GetAddNote` skips the lookup.
* Save: `Submit`, `ReadNote`, `TokenAccepted`, `ComposeEdit`, `UpdateNote`. The
  order is the code's: the note is read before the token is checked.
* New: `Submit`, `TokenAccepted`, `ComposeNew`, `AddNote`.
* Delete: `Submit`, `TokenAccepted`, `DeleteNote`.
* Paste: `Submit`, `TokenAccepted`, `FetchNote`, `CurlEnds`.

The four POST handlers act on whatever the path and the form values say. `Submit`
therefore takes either the page that the window shows, or any member of the
constant `OtherPosts`: POSTs that come from no page, with any form, noteID and
token. A token's string that is left out of the form values is the empty string,
`EmptyString`. Such a POST has been shown no note, so the history field `key` of
its request is 0.

Each lookup and write has a failing alternative (`FindFails`, `ReadFails`,
`FetchFails`, `WriteFails`); `WriteFails` also stands for a commit whose error
the code ignores. `Crash` ends the process at any step.

What is abstracted:

* One call to `DatabaseManager` is one step, and a failed or lost one leaves no
  trace. What an open transaction on a pooled connection does to later calls is
  the subject of `NoteTx`.
* The calls of `time.Now()` within one handler's step fall in one second, the
  resolution of the stored dates, and this clock does not go back.
* Titles and texts are members of `Contents`. A POST whose token ID is not a number
  is answered with an error before it changes anything; it is no step.
* A refused or unrouted request is no step.

`key` tells apart notes that had the same noteID; `savedFrom` says whose copy
was last written to a row. Both are history, as is `adds`.

### NoteStore

Notes are numbered in the order they were added. `Insert` gives a new note a
noteID no living note has, `Update` changes one note's title, text and
changeDate to contents that were sent together, and keeps noteID and addDate,
`Delete` removes one note. The refinement maps `live` to the rows by key.

### NoteTx

A request takes a free connection of the pool or opens one (`Take`), and runs
the calls of `AddNote`, `UpdateNote`, `DeleteNote` (`Begin`, `Prepare`, the two
halves of `Exec`, the three of `Commit`) or of `LoadNotes` (`Query`,
`FirstRow`, `LastRow`). What each call needs of the file's locks is a step of
`FileLock`. Where a lock is refused, SQLite's busy handler asks again for up to
5 s, the driver's default; the end of that wait is a step of its own
(`ExecBusy`, `CommitBusy`, `RowsBusy`). The fault steps `ExecFails`,
`CommitFails` and `RowFails` are I/O errors. `Start` and `OpenInvalid` are
`Open` with `checkDBValidity` and `initializeDB`, before the first request and
after each `Crash`. Another program may read the file at any time.

What is abstracted: `db` is the set of writes that are committed, and two
writes never touch the same row here. `GetNote` is a list of one row.

Three things the code does, and the model shows, have no property against them:

* After `CommitBusy` the connection goes back to the pool with its transaction
  open and its RESERVED or PENDING lock in place, while the user was told that
  the note is saved. Every later write that happens on this connection is
  answered with "cannot start a transaction within a transaction", and other
  writers find the reservation taken, until the pool closes the connection or a
  read error ends the transaction.
* `ExecBusy` and `PrepareFails` lose a connection of the pool for good. It holds
  no lock (`LostHoldsNothing`), only a file descriptor.
* `initializeDB` removes `./foo.db`, not the file it opens, and its error is
  dropped: a server that could not create the table serves without one until it
  is started again. The slip also means that no notes are lost, which
  `CommitsOwnWrite` watches.

### NoteList

`notes` is `dbm.notes`, a slice of three words (array, length, capacity), and
`heap` the arrays. A request truncates (`Truncate`), then, for each row and for
the truncation itself, stores the new slice in two steps (`StoreArray`,
`StoreBounds`), since the words are not written at once. `append` writes in
place or moves to an array of twice the room (`AppendInPlace`, `AppendGrow`).
`ShowNote` is one round of the handler's loop, out of the array the load
returned. Reads of the three words are one step; a torn read gives what a torn
store left. The error of the rows is not looked at: `RowFails` is a normal
return with fewer rows. If a list touches memory outside an array the model
ends there, because Go leaves open what follows. `quiet` and `raced` are
history.

### LinkParser

`found` is what xurls found. xurls is vendored and external, so any list of
disjoint matches is allowed, in order. Such matches can touch: in
`foo.com:bar.com`, `xurls.Relaxed` finds `foo.com:` (a port of no digits,
followed by a word boundary) and `bar.com`. `shown` and `anchors` stand for
`newText`; the choice between the two ways to spell an anchor is left out. As
in the code, a link is recognised by its content, so it may be wrapped where
xurls saw none.

### RequestLimiter

`now` is true time, `clock` what `time.Now()` returns, which `SetClock` may
move. `ReadClock`, then the comparison (`Refuse` or `Pass`), then `Admit`.

### FileLock and UnixLock

`FileLock` is what the rest of SQLite relies on. `level[c]` is one of NO_LOCK,
SHARED, RESERVED, PENDING and EXCLUSIVE. The reservation is kept apart
(`reserver`), because a connection that rolls back a hot journal reaches
PENDING without having been RESERVED. `Sharable` states when SHARED is to be had.
It has a clause for which the comments of the code leave no room: a connection
whose process reads already joins in without a look at the pending byte
(`JoinShared`), so a waiting writer of another process does not keep it out,
and may wait as long as readers keep coming. The comment on PENDING (B 25430)
says that no new SHARED locks can be obtained then.

`UnixLock` has the state of the code: `unixFile[h]`, `inode[p]` (the counts
`nRef`, `nShared`, `nLock`, the level recorded for the process and the
descriptors whose closing was put off, `pUnused`), what the system granted to
each process and byte (`posix`), and the call a process is in (`call`).
`unixEnterMutex` lets one connection of a process through at a time, so
connections of one process interleave only between calls, and those of other
processes between any two calls of `fcntl`. SHARED takes three (pending byte,
shared range, pending byte dropped), EXCLUSIVE two, the way back up to two.
`Kill` is the death of a process. The levels of `FileLock` are `unixFile`'s,
except that a connection on the way to NO_LOCK counts as SHARED from its first
call on.

Abstracted: the 510 bytes of the shared range are locked as a whole, as the code
does; a refused `fcntl` that changes nothing is no step; the other locking styles
(dot-file, flock, AFP, proxy) are not compiled into this build.

### AtomicFile and RollbackJournal

`AtomicFile` says what a file promises: a transaction reads one content and
changes it as a whole, one at a time, and nobody reads during a commit. `settled`
is the content to which a loss of power may fall back: `db`, or the one before.
It is there because SQLite does not sync the directory after it unlinks the
journal (B 41840), although the transaction is said to be "irrevocably
committed" at that point (B 46117): a journal that comes back with the old
directory undoes the last transaction.

`RollbackJournal` is the pager with `journal_mode=DELETE` and
`synchronous=FULL`. `cur` and `disk` are the file as processes see it and what of
it is durable, `jcur`, `jdisk` and `linked` the same of the journal. `at[c]`
is where connection `c` stands: taking SHARED and asking the four questions of
`hasHotJournal`, rolling a hot journal back, validating its cache by the change
counter, reading, writing to memory and journal, and the steps of a commit
(journal records, sync, header, sync, pages, sync, unlink). Every write, sync and
unlink may fail (`RollbackMemory`, `RollbackFile`, `UnlinkFails`,
`RollbackFails`), a process may die (`Kill`), power may be lost (`PowerLoss`): then
of each page not synced the old or the new content or garbage is left, and of
the journal what was durable or more.

Abstracted: a page is its number and a value, page 1 its change counter. The
checksums and the nonce of the journal are taken to tell a torn record from a
whole one. Savepoints, WAL, the spilling of a full cache and master journals
are not used by the program.

## Runs

Passing runs:

| Run | Instance | Shows |
|---|---|---|
| `requests` | 2 handlers, 1 window, 3 tokens, 1 note, saves that come from no page, crash at any step, weak fairness | `TypeOK`: types, and each handler's locals fit its place. `ActsOnOwnOrEmptyToken`: past the check a handler acts on a token whose string this process drew, or on one without a string, which no page carries. `LoneTokenValid`: a token generated without overlap is accepted while the process lives, however others race later. `StaleTokenRefused`: no token of an earlier process is accepted. `RefusedOnlyInRace`: a token generated without overlap is refused only while another goroutine is at the map assignment. `Answered`: every request is answered or waits for curl |
| `edits` | 2 handlers, 2 windows, 3 tokens, 2 notes, 2 seconds, deletions that come from no page | `ImplementsStore`, `DeletesShownNote` (a deletion hits the note its page showed, if still there), `AddedBeforeChanged` (a note last saved from its own copy was not changed before it was added) |
| `transactions` | 2 writes, 1 list, 3 connections, another program, crashes | `LostHoldsNothing`, `FailedLeavesNothing`, `CommitsOwnWrite`, `Served` |
| `lists` | lists of 3, 2 and 1 rows, two at a time | `QuietShowsOwn`: a list that no load comes into shows its own rows. `SoundUnlessRaced`: it takes two loads at once to bring the slice out of order |
| `links` | all texts of at most 6 characters of 2 kinds, all matches | `ShownThenRest`, `NotPastNextLink`, `ApartReturns` |
| `limiter` | 2 goroutines, 5 ticks, clock set once back and once forth | `RefusedInHaste`, `AloneAdmittedApart` |
| `locks` | 3 connections of one process, 2 of another | `ImplementsFileLock`, `HeldAtSystem`, `AssertionsHold` (the assertions of the code), `NoneLeftOpen` |
| `journal` | 2 connections of different processes, 2 pages, two commits and any number of rollbacks | `ImplementsAtomicFile`, `JournalCoversChanges`, `CacheCurrent`, `ReadersSeeCommitted` |

Runs that end in a counterexample, each a finding in `PROJECT.json`:

| Run | Property | What happens |
|---|---|---|
| `links_touch` | `Returns` | two matches touch, the second is never at the front of `restText`, and the loop does not end |
| `lists_mixed` | `ShowsMatching` | two loads overlap, and the page of a filter shows notes that do not match |
| `saved_lost` | `SavedIsKept` | `Commit` fails, the user is sent to the index as after a success, and the note is not in the table |
| `hot_ignored` | `ReadersSeeCommitted` | a connection waits at PENDING to roll back a hot journal; a second one of the same process takes that for a live writer (`unixCheckReservedLock`, B 25298) and reads what the dead writer left |

Some things that go wrong have no run of their own, because a passing property
states exactly when:

* A POST with a token ID that is not in the map and without
  `share_note_token_string` passes the check: a Go map gives the empty string for
  a missing key, and the comparison at S 73 then holds. Such a POST adds,
  changes, deletes or exports a note although no page was served for it.
  `ActsOnOwnOrEmptyToken` names this as the only exception; `OtherPosts` contains
  such POSTs, and the run `requests` has them both accepted (the ID is free) and
  refused (it is in use).
* A lookup that meets an assignment to the map may miss a valid token; the POST
  is refused. `RefusedOnlyInRace`: that is the only way.
* Two overlapping generations may give one ID to two tokens; the first page's
  POST is then refused. `LoneTokenValid` has the condition: no overlap.
* A delete page whose note was deleted meanwhile deletes the note that was
  given its noteID. `DeletesShownNote`: if the shown note is still there.
* A save that is overtaken by a deletion and an insertion under the same noteID
  overwrites the new note, which `ImplementsStore` allows as an update, and can give the new note a change date before its creation. `AddedBeforeChanged`:
  a note last saved from its own copy.
* Text behind the last link is dropped after one character. `ShownThenRest`
  speaks of the loop, which ends with the last link.
* Two requests that compare before either stores both pass the limiter, and once
  the clock was set back it refuses requests without a recent one.
  `AloneAdmittedApart` and `RefusedInHaste` exclude that.

### Bounds

`MaxTokens`, `MaxAdds` and `MaxTime` bound the three counters of `ShareNotes`
that only grow. `MCShareNotes` admits a request only while they leave room for
what it uses up, and never stops an admitted one. Three tokens are enough for a
page to outlive a restart, and for an add, an edit and a delete page to be open
together. Pages are submitted any number of times. Two notes let a noteID be
used again or stand beside another. Two handlers interleave at each step; no
step of one handler waits for another, and a conflict is between two. One
second apart is enough to tell a date from an earlier one. `Edits.cfg` leaves
out crashes before the tokens are used up, and uses the view `NoTokenHistory`,
which hides history variables that neither steps nor the properties of that run
read. Handlers, windows and the letters `a` and `b` are interchangeable there.
`OtherPosts` is small in the runs: POSTs for note 1 without a string and with ID 1,
which a process takes into its map with the second token it generates, so that
they come before and after that. `Typed` gives their form: a save in `requests`,
because it reads the note before the check, and a deletion in `edits`. The check is
the same for all forms, and the proofs take any `OtherPosts`.

For transactions, `MaxIdle` is the 2 of `database/sql`; with three connections
the pool can be full, empty and past its limit, and a connection can be lost
while another is left over. Two writes conflict, and a list stands for readers
before, between and behind them; the other program can hold SHARED for ever.
With three requests a later one finds what an earlier one left on a connection.

For lists, arrays grow from no room to one, two and four, so that a list of
three finds every case of `append`, and one of two or one row finds room that an
earlier list left. `MaxAtOnce` bounds the lists under way to two; the third
starts when one has ended, and finds the slice and arrays they left.

For links, six characters fit two matches that are apart, with text before,
between and behind them, and also contents that recur. The limiter's span is one
tick, so that gaps below, at and above it occur.

For locks, three connections of one process are one that writes, one that reads
and one that comes or goes; two of another process are enough for counts above
one on both sides.

For the journal, `MaxPage` 2 gives page 1, which carries the counter, and one
that carries data and may be appended; `MaxCounter` 3 lets a seeded file be
committed twice and rolled back between. Two connections of different
processes: a process of two connections is what `hot_ignored` is about, and the
proofs cover the rest of what it does. A file that is already a database meets
every fault. One that is still empty meets only the death of processes, because two corners of its creation are known not to
keep the promise: if the process dies while a recovery truncates it back to
nothing, a journal that is deleted as a remnant leaves the pages that were not
yet cut off, should power fail as well; and a creation that failed leaves page 1
of zeros in the cache with a change counter of 1, which makes that cache look
current once another process has created the database. Both need the first
start of the server to fail.

`CHECK_DEADLOCK FALSE` is set for `LinkParser`, whose function returns, and for
`NoteList`, where each request is made once, and which ends when memory
outside an array was touched.

### Fairness

`FairSpec` of `ShareNotes` (`MCFairSpec` in the run) has weak fairness of
`Step(h)` for each handler: the Go scheduler runs each goroutine that can run,
and database calls return. Users, the clock and crashes have none, and neither
has curl: `exec.Command(...).Run()` has no time limit (S 362), so `Answered`
leaves a handler that waits for curl alone.

That database calls return is what `Served` shows. `FairSpec` of `NoteTx` has
weak fairness of each request's steps, the wait for a lock included, and strong
fairness of `ExecReserved(r) \/ ExecBusy(r)`: a writer that finds the reservation
taken drops SHARED and tries again, and the busy handler counts the time of all
tries together and ends them after 5 s. No fault has to happen, other programs
need not release anything, and the premise of `Served` is that the server
finally stays up.

`LinkParser` has weak fairness of its only thread of control.

## Proofs

All theorems hold for every value of the constants. The assumptions: contents
are records of a title and a text (`ContentsAssumption`), POSTs that come from no page have the
fields of one (`OtherPostsAssumption`), the null values are
none of the values they stand beside (`NullsAreNulls`), texts are sequences of
characters (`TextsAssumption`), a query gives a sequence of notes
(`RowsAssumption`), writes and lists are different requests (`RequestsDiffer`),
each handle belongs to a process (`PidAssumption`), the limiter's span is a
number, and, for the journal, a file has room for a page, an absent page is no
content, and a file starts with a change counter on page 1 or empty, in which
case it meets the death of processes only (`BoundsAssumption`, `AbsentIsNone`,
`StartsAssumption`; the reason is given under Bounds).

**Tokens.** `TokenTyping`, then `LoneTokensValid` and `StaleTokensRefused` from
the invariant `TokenInv`. `LoneTokenValid` is not inductive: it needs that a
token stays in the map once a lone generation put it there, hence that no later
generation can come back to its ID. `currentID` can step back, because a
late `StoreID` overwrites it with its own `loaded + 1`. The invariant
bounds that from below: every ID in use by a generation in progress is above
the ID of each lone token already returned. Two more parts carry it: a
generation not marked overlapped is the only one in progress (`OnlyOne`), and
what it has read of the manager is still so (`Undisturbed`).

**Server.** `ServerTyping` proves `TypeOK` with `Coherent`, which ties the place
of a handler to what its locals hold. `ServerImplementsTokens` shows that each
step of `ShareNotes` is a step of `SessionTokens` or leaves the tokens alone, so
that the theorems about tokens hold in the server. `ActsOnOwnOrEmptyTokens`
holds for every value of `OtherPosts`: a string that is not empty passes the check
only if it is in the map, and `FreshInv` says that the map holds only strings
drawn since boot; the tokens of pages come from `generateSynchronizedToken`, so
their strings are not empty. `RefusalsOnlyInRace` follows from
`LoneTokensValid`.

**Table.** `CopiesPointToTheirNotes` is the inductive invariant: every row, page,
request and held note has a key at most `adds`, and if a row with that key is in
the table it is at the noteID the copy carries. It holds because `UpdateNote`
keeps the noteID, and no row gets an old key. `DeletesShownNotes`
follows from it. `DatesInOrder` adds that all copies of one note agree on
addDate and that a copy about to be written was changed at or after it.
`ServerImplementsStore` maps each step to an insertion, an update, a deletion
or a stutter of `NoteStore`; it needs the invariant for the map from keys to
rows to be well defined, and `ContentInv`, which says that title and text in
rows and copies were sent together.

**Transactions.** The invariant has one part per connection (`ConnInv`). A
connection that a request uses holds what the request's place says (`Place`); a
connection of the pool may hold locks and changes only if it has an open
transaction, and then only changes of requests that were told "saved"; any other
holds nothing (`Clean`). `ReqInv` says that what is committed or shown was answered
with "saved". A step changes one connection and leaves the others as
they were (`Spares`), except a restart, which cleans all. `LostHoldNothing` and
`FailedLeaveNothing` follow. For `CommitOwnWrite` the point is that `Begin`
refuses a connection with an open transaction, so that whoever commits began on
a connection without changes.

**Lists.** `ListTyping` from `TypeInv`. `SoundWithoutRace` from `RaceInv`: as long
as no two loads have met, one request at most is loading (`Alone`), and the
words of every slice somebody holds fit its array, as do those of `dbm.notes`
between the two stores together with the slice about to be stored (`FitInv`).
`QuietListsOwn` from `QuietInv`: while the load of `r` is watched and nobody came
into it, the first rows of its slice are the first rows of its query, and the
array they are in is the one it shows from (`Watched`).

**Links.** `NothingLostInTheLoop` from the typing of the loop's sequences, and
`NoLinkIsPassed` from the order of `links` against `found`: what is left begins
at or before the next match, and at its first character the prefix test
succeeds.

**Limiter.** `RefusalsInHaste` follows from `HasteInv`: while the clock is not
set back, how far it is ahead of true time (`Drift`) does not shrink, so whoever
stored `lastRequestTime` had less lead than whoever compares with it later.
`AdmissionsApart` is the mirror image under a clock that is not set forth, with
requests that pass alone.

**Locks.** The invariant has one part per process, `ProcInv`: the counts count
(`Counted`), the level recorded is that of the connections and one at most is
above SHARED (`Recorded`), what they hold is granted (`Granted`), and what has
been done in the call the process is in (`InCall`). Between processes there is
the system's rule (`Compatible`), and `Alone`: while a connection goes back
from EXCLUSIVE, its write lock on the shared range is already a read lock, and
yet nobody else may have one, because its level is still EXCLUSIVE. It holds
because newcomers need the pending byte first, which the writer gives up last.
A step is local to a process (`Local`), so each action is shown to keep
`ProcInv` of its own process, and `LocalStep` does the rest. `HeldAtTheSystem`,
`LockAssertions` and `NoDescriptorLeft` follow.

`ConnectionsLock` is the refinement: what processes hold at bytes, in several
calls and under counts, implements what connections hold at levels in one step.
`SeenFrom` says what the locks of a connection of another process mean for
one's own bytes; from it each guard of `FileLock` follows from the answer of
`fcntl` (other processes) and the level recorded (the same process). SHARED is
reached at the last of its calls, EXCLUSIVE at the write lock on the range, and
a connection loses what it holds above SHARED at the first call of its way back
to NO_LOCK and at the last one of its way back to SHARED.

**Journal.** Any number of processes, connections, pages and commits is allowed,
with every fault for a file that is already a database. `hot_ignored` shows that
the promise does not hold as it stands, and `NoneIgnored` is the weakest
hypothesis found under which it does: no connection asks whether a valid journal
has a live writer at a moment when another one of its process waits at PENDING
to roll that journal back. All other theorems about the journal have the form
`Spec /\ []NoneIgnored => ...`. Two theorems say when the hypothesis
is met: `NoneIgnoredApart`, if each process has one connection
(`OneConnectionEach`), and `NoneIgnoredInPeace`, if no process dies, power lasts
and no write, sync or unlinking fails, because a valid journal then belongs to a
writer that holds EXCLUSIVE (`Attended`). What remains is the pool of a server
that starts again after a death in the middle of a commit, or one of whose
rollbacks failed.

Everything is said in terms of `Committed`, what the file is worth together
with the journal: the file if the journal has no valid header, and otherwise the
file cut to its old size with the recorded pages put back. `JournalInvariant`
proves `IInv`, which has four layers.

* `TypeInv` and `LockInv`: the place of a connection says which lock it holds
  (`HeldAt`), at most one holds the reservation, and beside EXCLUSIVE there is no
  other lock at all. So who writes is alone, and a reader that finds the
  reservation taken knows that its holder has not written yet.
* `FileInv`: a page has one record, a content is empty or begins with page 1,
  and while a holder of the reservation is below EXCLUSIVE there is nothing to
  restore (`Cold`). This gives `hasHotJournal` the right to ignore a journal
  with a reservation beside it. It is what two connections of one process
  break, and the only step of the proof that uses `NoneIgnored`
  (`ReservedIsCold`): while one waits at PENDING to roll back, without the
  reservation, the other takes that level for a reservation.
* `ConnInv`, one part per connection: what it may rely on at its place. Between
  transactions its cache agrees with `Committed` or carries an older counter
  (`Kept`). While it changes pages, each page that differs from the file has a
  record if the file had it (`Covered`); up to the header the file is untouched
  and the records restore nothing (`Untouched`); once the commit has begun the
  counter in its cache is one above the committed one (`Numbered`). During a
  playback the records before `todo` are back in the file (`Replayed`).
* `DurableInv`, if power may fail: what is durable of the file and of the journal
  is worth a content, and agrees with the current file wherever the durable
  journal has no record. From it follows that every mixture of old, new and
  torn pages a loss of power leaves is worth what is committed, or what a lost
  unlinking falls back to (`PowerLeaves`); the mixtures themselves need not be
  described. The syncs establish it (`SyncRecordsKeeps`, `SyncHeaderKeeps`,
  `SyncFileKeeps`).

`Committed` changes at two places only: at the unlinking that ends a commit
(`Finish`), and at a loss of power, which may bring back the journal of the last
transaction. At the first, every other connection is without a lock, and its
cache becomes older by one count; at the second, no connection is left. At all
other steps the parts of the connections that do not move stay as they are, if
the files do (`OthersAsBefore`), and if not, because the one that moves is alone
or the others only read (`OthersKeepReading`, `OthersOutside`).

`JournalCovers`, `CachesCurrent` and `ReadersCurrent` are consequences
(`Consequences`). `JournalIsAtomic` is the refinement: reading begins where the
cache has been validated (`Begins`), each page written in memory is a change of the
transaction's image (`Changes`), the unlinking is the commit (`Commits`), a
rollback restores the image (`Undoes`), the end of a transaction and the death of
a process end it (`Ends`), and a loss of power is one (`PowerCuts`). Reads, locks,
syncs, the writes to file and journal, hot journals and their playback are
stutters, or settle the content a loss of power may fall back to (`Settles`).
`StepMapped` takes the invariant before and after the step.

Only model-checked: the liveness properties (`Answered`, `ApartReturns`,
`Served`), since fairness is out of the prover's reach. Not proved either are the
four properties of the runs that end in a counterexample, but for
`ReadersSeeCommitted` under `NoneIgnored`.

## Not modelled

* **Routing**: no state; each request is matched against fixed expressions.
* **Single characters of random strings**: that they differ is a matter of
  probability. Layout of templates, logging, the makefile.
* **xurls**: vendored; any matches are allowed.
* **The rest of SQLite**: parser, code generator, virtual machine, B-trees, and
  what the program does not use (WAL, savepoints, spilling of the cache,
  virtual tables, full-text search, the other locking styles). The vendored C
  code has 157 000 lines, most of them computing what a statement means; the
  program relies on five simple statements and on the parts modelled here:
  locks, rollback journal, cache validation, and the locks and errors of a
  statement's transaction. They are a few thousand lines, so the share of the C
  code that is modelled stays small. The Go program itself is modelled but for
  the items above.
* **Example extensions of the driver**, which are not built.

Known limits of what is modelled: `ShareNotes` does not share a connection pool
with `NoteTx`, so a failed call has no consequence for later ones there beyond
that they, too, may fail; for two connections of one process `RollbackJournal`
keeps its promise only up to the mistake that `hot_ignored` shows, and what a
server does after it is not examined.
