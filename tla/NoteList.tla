------------------------------ MODULE NoteList -------------------------------
(***************************************************************************)
(* The pages that list notes: indexHandler and filteredIndexHandler        *)
(* (shareNotes.go) with LoadNotes and LoadNotesWhere (DatabaseManager.go). *)
(*                                                                         *)
(* All requests fill and return one slice, dbm.notes.  A slice is three    *)
(* words, the array, the length and the capacity; append writes into the   *)
(* array while there is room, else moves to a new one.  No lock is held:   *)
(* requests on other goroutines act between any two accesses, and between  *)
(* the two stores that replace the slice.  A request shows the notes after *)
(* it has returned from the load, out of the same array.                   *)
(*                                                                         *)
(* What happens after memory outside an array was touched is left open:    *)
(* the model ends there.                                                   *)
(***************************************************************************)
EXTENDS Naturals, Sequences

CONSTANTS
    Requests,       \* requests for a list, each made once
    Notes,          \* the notes
    Rows            \* Rows[r]: the notes that the query of r selects

ASSUME RowsAssumption == Rows \in [Requests -> Seq(Notes)]

VARIABLES
    notes,          \* dbm.notes
    heap,           \* the arrays: heap[a] holds as many notes as it has room for
    pc,             \* pc[r]: where request r stands
    slice,          \* slice[r]: the slice it is about to store, or was returned
    next,           \* next[r]: the rows it has read
    shown,          \* shown[r]: the notes it has put on the page
    strayed,        \* requests that touched memory outside an array
    quiet,          \* (history) requests whose load nobody else came into
    raced           \* (history) two loads have met

vars == <<notes, heap, pc, slice, next, shown, strayed, quiet, raced>>

Labels == {"start", "store array", "store bounds", "rows", "show", "done"}
Loading(r) == pc[r] \in {"store array", "store bounds", "rows"}

nil == [array |-> 0, len |-> 0, cap |-> 0]
Slices == [array : Nat, len : Nat, cap : Nat]

Room(a) == IF a = 0 THEN 0 ELSE Len(heap[a])

\* The words of a slice fit together.
Sound(s) == s.cap = Room(s.array) /\ s.len <= s.cap

Init ==
    /\ notes = nil
    /\ heap = << >>
    /\ pc = [r \in Requests |-> "start"]
    /\ slice = [r \in Requests |-> nil]
    /\ next = [r \in Requests |-> 0]
    /\ shown = [r \in Requests |-> << >>]
    /\ strayed = {}
    /\ quiet = {}
    /\ raced = FALSE

Go(r, from, to) ==
    /\ strayed = {}
    /\ pc[r] = from
    /\ pc' = [pc EXCEPT ![r] = to]

\* What r does to the slice and its array, the others may notice.
Disturb(r) ==
    /\ quiet' = quiet \cap {r}
    /\ raced' = (raced \/ \E q \in Requests \ {r} : Loading(q))

Stray(r) == strayed' = {r} /\ UNCHANGED <<heap, slice, next, shown>>

------------------------------------------------------------------------------
(* LoadNotes and LoadNotesWhere                                              *)

\* (mutant) the rows of the last list are kept
KeepRows(s) == s

\* dbm.notes[0:0] keeps the array.
Truncated(s) == [s EXCEPT !.len = 0]

Truncate(r) ==
    /\ Go(r, "start", "store array")
    /\ slice' = [slice EXCEPT ![r] = Truncated(notes)]
    /\ quiet' = IF Sound(notes) THEN {r} ELSE {}
    /\ raced' = (raced \/ \E q \in Requests \ {r} : Loading(q))
    /\ UNCHANGED <<notes, heap, next, shown, strayed>>

StoreArray(r) ==
    /\ Go(r, "store array", "store bounds")
    /\ notes' = [notes EXCEPT !.array = slice[r].array]
    /\ Disturb(r)
    /\ UNCHANGED <<heap, slice, next, shown, strayed>>

\* (mutant) the capacity is not stored with the rest
StoreLength(r) ==
    /\ Go(r, "store bounds", "rows")
    /\ notes' = [notes EXCEPT !.len = slice[r].len]
    /\ Disturb(r)
    /\ UNCHANGED <<heap, slice, next, shown, strayed>>

StoreBounds(r) ==
    /\ Go(r, "store bounds", "rows")
    /\ notes' = [notes EXCEPT !.len = slice[r].len, !.cap = slice[r].cap]
    /\ Disturb(r)
    /\ UNCHANGED <<heap, slice, next, shown, strayed>>

\* The query, or its preparation, fails; that error is answered.
QueryFails(r) ==
    /\ next[r] = 0
    /\ Go(r, "rows", "done")
    /\ slice' = [slice EXCEPT ![r] = nil]
    /\ UNCHANGED <<notes, heap, next, shown, strayed, quiet, raced>>

MoreRows(r) == next[r] < Len(Rows[r])
Row(r) == Rows[r][next[r] + 1]

\* append finds room in the array,
AppendInPlace(r) ==
    /\ notes.len < notes.cap
    /\ IF notes.len < Room(notes.array)
       THEN /\ heap' = [heap EXCEPT ![notes.array][notes.len + 1] = Row(r)]
            /\ slice' = [slice EXCEPT ![r] = [notes EXCEPT !.len = @ + 1]]
            /\ next' = [next EXCEPT ![r] = @ + 1]
            /\ UNCHANGED <<shown, strayed>>
       ELSE Stray(r)

\* (mutant) the new array has room for the rows so far and no more
NoNewCap(cap) == cap

NewCap(cap) == IF cap = 0 THEN 1 ELSE 2 * cap

\* or moves to an array with twice the room.
AppendGrow(r) ==
    /\ notes.len >= notes.cap
    /\ IF notes.len = notes.cap /\ notes.len <= Room(notes.array)
       THEN LET old(i) == heap[notes.array][i]
                cap == NewCap(notes.cap)
            IN
            /\ heap' = Append(heap, [i \in 1 .. cap |->
                                        IF i <= notes.len THEN old(i) ELSE Row(r)])
            /\ slice' = [slice EXCEPT ![r] = [array |-> Len(heap) + 1,
                                              len |-> notes.len + 1, cap |-> cap]]
            /\ next' = [next EXCEPT ![r] = @ + 1]
            /\ UNCHANGED <<shown, strayed>>
       ELSE Stray(r)

LoadRow(r) ==
    /\ MoreRows(r)
    /\ Go(r, "rows", "store array")
    /\ AppendInPlace(r) \/ AppendGrow(r)
    /\ Disturb(r)
    /\ UNCHANGED notes

Return(r) ==
    /\ Go(r, "rows", "show")
    /\ slice' = [slice EXCEPT ![r] = notes]
    /\ UNCHANGED <<notes, heap, next, shown, strayed, quiet, raced>>

EndRows(r) == ~ MoreRows(r) /\ Return(r)

\* A row cannot be read: rows.Err is not looked at.
RowFails(r) == MoreRows(r) /\ Return(r)

------------------------------------------------------------------------------
(* The loop of indexHandler and filteredIndexHandler                         *)

ShowNote(r) ==
    LET i == Len(shown[r]) + 1 IN
    /\ Go(r, "show", "show")
    /\ i <= slice[r].len
    /\ IF i <= Room(slice[r].array)
       THEN /\ shown' = [shown EXCEPT ![r] = Append(@, heap[slice[r].array][i])]
            /\ UNCHANGED <<heap, slice, next, strayed>>
       ELSE Stray(r)
    /\ UNCHANGED <<notes, quiet, raced>>

EndShow(r) ==
    /\ Go(r, "show", "done")
    /\ Len(shown[r]) = slice[r].len
    /\ slice' = [slice EXCEPT ![r] = nil]
    /\ UNCHANGED <<notes, heap, next, shown, strayed, quiet, raced>>

Next ==
    \E r \in Requests :
        \/ Truncate(r) \/ StoreArray(r) \/ StoreBounds(r)
        \/ QueryFails(r) \/ LoadRow(r) \/ EndRows(r) \/ RowFails(r)
        \/ ShowNote(r) \/ EndShow(r)

Spec == Init /\ [][Next]_vars

------------------------------------------------------------------------------
(* Properties                                                                *)

TypeOK ==
    /\ notes \in Slices /\ slice \in [Requests -> Slices]
    /\ notes.array <= Len(heap) /\ \A r \in Requests : slice[r].array <= Len(heap)
    /\ pc \in [Requests -> Labels]
    /\ \A a \in DOMAIN heap : heap[a] \in Seq(Notes)
    /\ next \in [Requests -> Nat] /\ \A r \in Requests : next[r] <= Len(Rows[r])
    /\ \A r \in Requests : slice[r].len > slice[r].cap => pc[r] = "show"
    /\ shown \in [Requests -> Seq(Notes)]
    /\ strayed \subseteq Requests /\ quiet \subseteq Requests /\ raced \in BOOLEAN

(* A list shows the rows its own query gave, in their order and from the     *)
(* first, whatever earlier requests left in the slice and in its arrays,     *)
(* if no other load comes between the start of the load and the end of the   *)
(* page and the slice was in order before: then no memory is touched that    *)
(* is not the slice's, either.                                               *)
QuietShowsOwn ==
    /\ \A r \in quiet : pc[r] = "done" /\ shown[r] # << >> =>
            shown[r] = SubSeq(Rows[r], 1, next[r])
    /\ quiet \cap strayed = {}

(* A list that is in no load's way leaves the slice in order, also when      *)
(* pages that were loaded before are still being shown: it takes two loads   *)
(* at once to have the array of one and the capacity of another.             *)
SoundUnlessRaced ==
    ~ raced =>
        /\ strayed = {}
        /\ (\A r \in Requests : pc[r] # "store bounds") => Sound(notes)

(* The page of a filter shows notes that match the filter.                   *)
ShowsMatching ==
    \A r \in Requests : \A i \in DOMAIN shown[r] :
        \E j \in DOMAIN Rows[r] : shown[r][i] = Rows[r][j]
==============================================================================
