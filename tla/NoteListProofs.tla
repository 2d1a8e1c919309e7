--------------------------- MODULE NoteListProofs ----------------------------
(***************************************************************************)
(* Proofs about NoteList, for any requests, notes and rows.                *)
(***************************************************************************)
EXTENDS NoteList, SequenceTheorems, TLAPS

LEMMA Replaced ==
    ASSUME NEW T, NEW s \in Seq(T), NEW j \in 1 .. Len(s), NEW x \in T,
           NEW u, u = [s EXCEPT ![j] = x]
    PROVE  /\ u \in Seq(T) /\ Len(u) = Len(s)
           /\ \A b \in 1 .. Len(s) : u[b] = IF b = j THEN x ELSE s[b]
  OBVIOUS

LEMMA ReplacedArray ==
    ASSUME NEW h \in Seq(Seq(Notes)), NEW a \in 1 .. Len(h), NEW w \in Seq(Notes),
           NEW g, g = [h EXCEPT ![a] = w]
    PROVE  /\ g \in Seq(Seq(Notes)) /\ Len(g) = Len(h)
           /\ \A b \in 1 .. Len(h) : g[b] = IF b = a THEN w ELSE h[b]
  BY Replaced

(* An array keeps its size when a note is written into it, and a new array   *)
(* leaves the others alone.                                                  *)
LEMMA WriteInPlace ==
    ASSUME NEW h \in Seq(Seq(Notes)), NEW a \in 1 .. Len(h), NEW i \in 1 .. Len(h[a]),
           NEW n \in Notes,
           NEW w, w = [h[a] EXCEPT ![i] = n], NEW g, g = [h EXCEPT ![a] = w]
    PROVE  /\ g \in Seq(Seq(Notes)) /\ Len(g) = Len(h)
           /\ \A b \in 1 .. Len(h) : Len(g[b]) = Len(h[b])
           /\ \A b \in 1 .. Len(h), j \in Nat : b # a \/ j # i => g[b][j] = h[b][j]
           /\ g[a][i] = n
<1>1. h[a] \in Seq(Notes)
  BY ElementOfSeq
<1>2. /\ w \in Seq(Notes) /\ Len(w) = Len(h[a])
      /\ w[i] = n /\ \A j \in Nat : j # i => w[j] = h[a][j]
  <2>1. w \in Seq(Notes) /\ Len(w) = Len(h[a]) /\ w[i] = n
    BY <1>1, Replaced
  <2>2. ASSUME NEW j \in Nat, j # i PROVE w[j] = h[a][j]
    BY <2>2, <1>1
  <2> QED  BY <2>1, <2>2
<1>3. /\ g \in Seq(Seq(Notes)) /\ Len(g) = Len(h)
      /\ \A b \in 1 .. Len(h) : g[b] = IF b = a THEN w ELSE h[b]
  BY <1>2, ReplacedArray
<1>4. \A b \in 1 .. Len(h) : Len(g[b]) = Len(h[b])
  BY <1>2, <1>3
<1>5. ASSUME NEW b \in 1 .. Len(h), NEW j \in Nat, b # a \/ j # i
      PROVE  g[b][j] = h[b][j]
  BY <1>2, <1>3, <1>5
<1>6. g[a][i] = n
  BY <1>2, <1>3
<1> QED  BY <1>3, <1>4, <1>5, <1>6

LEMMA FunctionIsSeq ==
    ASSUME NEW T, NEW n \in Nat, NEW w \in [1 .. n -> T]
    PROVE  w \in Seq(T) /\ Len(w) = n
  OBVIOUS

LEMMA NewArray ==
    ASSUME NEW h \in Seq(Seq(Notes)), NEW w \in Seq(Notes), NEW g, g = Append(h, w)
    PROVE  /\ g \in Seq(Seq(Notes)) /\ Len(g) = Len(h) + 1
           /\ \A b \in 1 .. Len(h) : g[b] = h[b]
           /\ g[Len(h) + 1] = w
  BY AppendProperties

------------------------------------------------------------------------------
TypeInv == heap \in Seq(Seq(Notes)) /\ TypeOK

(* What append does to the heap and to the slice of r, if it stays inside    *)
(* the array.                                                                *)
Appended(r) ==
    /\ heap' \in Seq(Seq(Notes)) /\ Len(heap) <= Len(heap')
    /\ \A a \in 1 .. Len(heap) : Len(heap'[a]) = Len(heap[a])
    /\ slice'[r] \in Slices /\ slice'[r].array \in 1 .. Len(heap')
    /\ slice'[r].len = notes.len + 1 /\ slice'[r].len <= slice'[r].cap
    /\ Sound(notes) => slice'[r].cap = Len(heap'[slice'[r].array])
    /\ \A i \in 1 .. notes.len :
        heap'[slice'[r].array][i] = heap[notes.array][i]
    /\ heap'[slice'[r].array][notes.len + 1] = Row(r)
    /\ slice' = [slice EXCEPT ![r] = slice'[r]]
    /\ next' = [next EXCEPT ![r] = @ + 1]
    /\ UNCHANGED <<shown, strayed>>

LEMMA RowIsNote ==
    ASSUME TypeInv, NEW r \in Requests, MoreRows(r)
    PROVE  Row(r) \in Notes /\ next[r] + 1 \in 1 .. Len(Rows[r]) /\ Rows[r] \in Seq(Notes)
<1>1. next[r] \in Nat
  BY DEF TypeInv, TypeOK
<1> QED  BY <1>1, RowsAssumption DEF MoreRows, Row

LEMMA InPlaceAppends ==
    ASSUME TypeInv, NEW r \in Requests, MoreRows(r), AppendInPlace(r)
    PROVE  Appended(r) \/ (Stray(r) /\ ~ Sound(notes))
<1> USE DEF TypeInv, TypeOK, Slices
<1>1. CASE ~ (notes.len < Room(notes.array))
  BY <1>1 DEF AppendInPlace, Sound
<1>2. CASE notes.len < Room(notes.array)
  <2> DEFINE a == notes.array
             w == [heap[a] EXCEPT ![notes.len + 1] = Row(r)]
  <2>1. a \in 1 .. Len(heap) /\ notes.len + 1 \in 1 .. Len(heap[a])
    BY <1>2 DEF Room
  <2>2. heap' = [heap EXCEPT ![a] = w]
    BY <1>2 DEF AppendInPlace
  <2>12. Row(r) \in Notes
    BY RowIsNote
  <2>3. /\ heap' \in Seq(Seq(Notes)) /\ Len(heap') = Len(heap)
        /\ \A b \in 1 .. Len(heap) : Len(heap'[b]) = Len(heap[b])
        /\ \A b \in 1 .. Len(heap), j \in Nat :
            b # a \/ j # notes.len + 1 => heap'[b][j] = heap[b][j]
        /\ heap'[a][notes.len + 1] = Row(r)
    BY <2>1, <2>2, <2>12, WriteInPlace, SMTT(30)
  <2>4. /\ slice' = [slice EXCEPT ![r] = [notes EXCEPT !.len = @ + 1]]
        /\ next' = [next EXCEPT ![r] = @ + 1]
        /\ UNCHANGED <<shown, strayed>>
        /\ notes.len < notes.cap
    BY <1>2 DEF AppendInPlace
  <2>5. slice'[r] = [array |-> a, len |-> notes.len + 1, cap |-> notes.cap]
    BY <2>4
  <2> HIDE DEF a, w
  <2>6. a = notes.array
    BY DEF a
  <2>7. /\ slice'[r] \in Slices /\ slice'[r].array \in 1 .. Len(heap')
        /\ slice'[r].len = notes.len + 1 /\ slice'[r].len <= slice'[r].cap
        /\ slice' = [slice EXCEPT ![r] = slice'[r]]
    <3>1. notes.len + 1 \in Nat /\ notes.cap \in Nat /\ a \in Nat /\ notes.len < notes.cap
      BY <2>1, <2>4
    <3>2. slice' = [slice EXCEPT ![r] = slice'[r]]
      BY <2>4
    <3>3. slice'[r].array \in 1 .. Len(heap')
      BY <2>1, <2>3, <2>5
    <3>4. slice'[r] \in Slices /\ slice'[r].len = notes.len + 1 /\ slice'[r].len <= slice'[r].cap
      BY <2>5, <3>1
    <3> QED  BY <3>2, <3>3, <3>4
  <2>8. Sound(notes) => slice'[r].cap = Len(heap'[slice'[r].array])
    BY <2>1, <2>3, <2>5, <2>6, SMTT(30) DEF Sound, Room
  <2>9. \A i \in 1 .. notes.len : heap'[slice'[r].array][i] = heap[notes.array][i]
    <3>1. slice'[r].array = notes.array
      BY <2>5, <2>6
    <3>2. notes.len \in Nat
      OBVIOUS
    <3>3. ASSUME NEW i \in 1 .. notes.len PROVE heap'[a][i] = heap[a][i]
      <4>1. i \in Nat /\ i # notes.len + 1
        BY <3>2
      <4> QED  BY <2>1, <2>3, <4>1
    <3>4. \A i \in 1 .. notes.len : heap'[notes.array][i] = heap[notes.array][i]
      BY <2>6, <3>3
    <3> QED  BY <3>1, <3>4, Zenon
  <2>10. heap'[slice'[r].array][notes.len + 1] = Row(r)
    BY <2>3, <2>5
  <2> QED  BY <2>3, <2>4, <2>7, <2>8, <2>9, <2>10 DEF Appended
<1> QED  BY <1>1, <1>2

LEMMA GrowAppends ==
    ASSUME TypeInv, NEW r \in Requests, MoreRows(r), AppendGrow(r)
    PROVE  Appended(r) \/ (Stray(r) /\ ~ Sound(notes))
<1> USE DEF TypeInv, TypeOK, Slices
<1>1. CASE ~ (notes.len = notes.cap /\ notes.len <= Room(notes.array))
  BY <1>1 DEF AppendGrow, Sound
<1>2. CASE notes.len = notes.cap /\ notes.len <= Room(notes.array)
  <2> DEFINE cap == NewCap(notes.cap)
             w == [i \in 1 .. cap |-> IF i <= notes.len THEN heap[notes.array][i] ELSE Row(r)]
  <2>1. cap \in Nat /\ notes.len + 1 <= cap
    BY <1>2 DEF NewCap
  <2>2. \A i \in 1 .. notes.len : heap[notes.array][i] \in Notes
    BY <1>2 DEF Room
  <2>3. w \in Seq(Notes) /\ Len(w) = cap
    <3>1. ASSUME NEW i \in 1 .. cap PROVE (IF i <= notes.len THEN heap[notes.array][i] ELSE Row(r)) \in Notes
      BY <2>1, <2>2, RowIsNote, SMTT(30)
    <3>2. w \in [1 .. cap -> Notes]
      BY <3>1
    <3> HIDE DEF w, cap
    <3> QED  BY <2>1, <3>2, FunctionIsSeq
  <2>4. heap' = Append(heap, w)
    BY <1>2 DEF AppendGrow
  <2>5. /\ slice' = [slice EXCEPT ![r] = [array |-> Len(heap) + 1,
                                         len |-> notes.len + 1, cap |-> cap]]
        /\ next' = [next EXCEPT ![r] = @ + 1]
        /\ UNCHANGED <<shown, strayed>>
    BY <1>2 DEF AppendGrow
  <2>6. slice'[r] = [array |-> Len(heap) + 1, len |-> notes.len + 1, cap |-> cap]
    BY <2>5
  <2>7. (\A i \in 1 .. notes.len : w[i] = heap[notes.array][i]) /\ w[notes.len + 1] = Row(r)
    BY <2>1
  <2> HIDE DEF cap, w
  <2>8. /\ heap' \in Seq(Seq(Notes)) /\ Len(heap') = Len(heap) + 1
        /\ \A b \in 1 .. Len(heap) : heap'[b] = heap[b]
        /\ heap'[Len(heap) + 1] = w
    BY <2>3, <2>4, NewArray
  <2>9. /\ slice'[r] \in Slices /\ slice'[r].array \in 1 .. Len(heap')
        /\ slice'[r].len = notes.len + 1 /\ slice'[r].len <= slice'[r].cap
        /\ slice' = [slice EXCEPT ![r] = slice'[r]]
    BY <2>1, <2>5, <2>6, <2>8, SMTT(30)
  <2>10. slice'[r].cap = Len(heap'[slice'[r].array])
    BY <2>3, <2>6, <2>8
  <2>11. /\ \A i \in 1 .. notes.len : heap'[slice'[r].array][i] = heap[notes.array][i]
         /\ heap'[slice'[r].array][notes.len + 1] = Row(r)
    <3>1. heap'[slice'[r].array] = w
      BY <2>6, <2>8
    <3> QED  BY <2>7, <3>1
  <2>12. \A b \in 1 .. Len(heap) : Len(heap'[b]) = Len(heap[b])
    BY <2>8
  <2>13. Len(heap) <= Len(heap')
    BY <2>8
  <2> QED  BY <2>5, <2>8, <2>9, <2>10, <2>11, <2>12, <2>13 DEF Appended
<1> QED  BY <1>1, <1>2

(* A row is appended within the array, unless the slice was out of order.    *)
LEMMA LoadsRow ==
    ASSUME TypeInv, NEW r \in Requests, LoadRow(r)
    PROVE  Appended(r) \/ (Stray(r) /\ ~ Sound(notes))
  BY InPlaceAppends, GrowAppends DEF LoadRow

------------------------------------------------------------------------------
(* Type correctness                                                          *)

LEMMA TypeInit ==
    Init => TypeInv
<1> SUFFICES ASSUME Init PROVE TypeInv
  OBVIOUS
<1>1. heap = << >> /\ heap \in Seq(Seq(Notes)) /\ Len(heap) = 0 /\ DOMAIN heap = {}
  BY DEF Init
<1>2. nil \in Slices /\ nil.array = 0 /\ nil.len = 0 /\ nil.cap = 0
  BY DEF nil, Slices
<1>3. /\ notes = nil /\ slice = [r \in Requests |-> nil]
      /\ pc = [r \in Requests |-> "start"] /\ next = [r \in Requests |-> 0]
      /\ shown = [r \in Requests |-> << >>] /\ strayed = {} /\ quiet = {} /\ raced = FALSE
  BY DEF Init
<1>4. pc \in [Requests -> Labels] /\ shown \in [Requests -> Seq(Notes)]
  BY <1>3 DEF Labels
<1>5. next \in [Requests -> Nat] /\ \A r \in Requests : next[r] <= Len(Rows[r])
  BY <1>3, RowsAssumption
<1>6. slice \in [Requests -> Slices] /\ \A r \in Requests : slice[r] = nil
  BY <1>2, <1>3
<1>7. ASSUME NEW r \in Requests
      PROVE  slice[r].array <= Len(heap) /\ (slice[r].len > slice[r].cap => pc[r] = "show")
  <2>1. slice[r].array = 0 /\ slice[r].len = 0 /\ slice[r].cap = 0
    BY <1>2, <1>6
  <2> QED  BY <1>1, <2>1
<1>8. notes \in Slices /\ notes.array <= Len(heap) /\ \A a \in DOMAIN heap : heap[a] \in Seq(Notes)
  BY <1>1, <1>2, <1>3
<1> QED  BY <1>1, <1>3, <1>4, <1>5, <1>6, <1>7, <1>8 DEF TypeInv, TypeOK

\* Only LoadRow touches the heap.
LEMMA HeapGrows ==
    ASSUME TypeInv, [Next]_vars
    PROVE  /\ heap' \in Seq(Seq(Notes)) /\ Len(heap) <= Len(heap')
           /\ \A a \in 1 .. Len(heap) : Len(heap'[a]) = Len(heap[a])
<1>1. CASE UNCHANGED heap
  BY <1>1 DEF TypeInv
<1>2. CASE \E r \in Requests : LoadRow(r)
  <2>1. PICK r \in Requests : LoadRow(r)
    BY <1>2
  <2>2. CASE Appended(r)
    BY <2>2 DEF Appended
  <2>3. CASE Stray(r)
    BY <1>1, <2>3 DEF Stray
  <2> QED  BY <2>1, <2>2, <2>3, LoadsRow
<1> QED
  BY <1>1, <1>2 DEF Next, vars, Truncate, StoreArray, StoreBounds, QueryFails,
      EndRows, RowFails, Return, ShowNote, Stray, EndShow

SliceTyped(r) ==
    /\ slice[r] \in Slices /\ slice[r].array <= Len(heap)
    /\ slice[r].len > slice[r].cap => pc[r] = "show"

\* One request goes on, with a slice of its own.
LEMMA OneGoesOn ==
    ASSUME TypeInv, [Next]_vars, NEW r \in Requests, NEW s \in Slices, NEW l \in Labels,
           s.array <= Len(heap'), s.len > s.cap => l = "show",
           slice' = [slice EXCEPT ![r] = s], pc' = [pc EXCEPT ![r] = l]
    PROVE  /\ pc' \in [Requests -> Labels] /\ slice' \in [Requests -> Slices]
           /\ \A q \in Requests : /\ slice'[q].array <= Len(heap')
                                  /\ slice'[q].len > slice'[q].cap => pc'[q] = "show"
<1>1. /\ Len(heap) \in Nat /\ Len(heap') \in Nat /\ Len(heap) <= Len(heap')
  BY HeapGrows DEF TypeInv
<1>2. slice \in [Requests -> Slices] /\ pc \in [Requests -> Labels]
  BY DEF TypeInv, TypeOK
<1>3. slice'[r] = s /\ pc'[r] = l
  BY <1>2
<1>4. ASSUME NEW q \in Requests
      PROVE  /\ slice'[q].array <= Len(heap')
             /\ slice'[q].len > slice'[q].cap => pc'[q] = "show"
  <2>1. CASE q = r
    BY <1>3, <2>1
  <2>2. CASE q # r
    <3>1. slice'[q] = slice[q] /\ pc'[q] = pc[q] /\ slice[q].array \in Nat
      BY <1>2, <2>2 DEF Slices
    <3>2. /\ slice[q].array <= Len(heap)
          /\ slice[q].len > slice[q].cap => pc[q] = "show"
      BY DEF TypeInv, TypeOK
    <3> QED  BY <1>1, <3>1, <3>2
  <2> QED  BY <2>1, <2>2
<1> QED  BY <1>2, <1>4

LEMMA TypeStep ==
    TypeInv /\ [Next]_vars => TypeInv'
<1> SUFFICES ASSUME TypeInv, [Next]_vars PROVE TypeInv'
  OBVIOUS
<1>1. /\ Len(heap) \in Nat /\ Len(heap') \in Nat /\ Len(heap) <= Len(heap')
      /\ heap' \in Seq(Seq(Notes)) /\ \A a \in DOMAIN heap' : heap'[a] \in Seq(Notes)
  BY HeapGrows DEF TypeInv
<1>2. /\ notes \in Slices /\ notes.array <= Len(heap) /\ notes.array \in Nat
      /\ slice \in [Requests -> Slices] /\ pc \in [Requests -> Labels]
      /\ next \in [Requests -> Nat] /\ shown \in [Requests -> Seq(Notes)]
      /\ strayed \subseteq Requests /\ quiet \subseteq Requests
      /\ \A r \in Requests : SliceTyped(r) /\ next[r] <= Len(Rows[r])
  BY DEF TypeInv, TypeOK, Slices, SliceTyped
<1>3. raced \in BOOLEAN
  BY DEF TypeInv, TypeOK
<1> DEFINE Moved == /\ pc' \in [Requests -> Labels] /\ slice' \in [Requests -> Slices]
                    /\ \A q \in Requests : /\ slice'[q].array <= Len(heap')
                                           /\ slice'[q].len > slice'[q].cap => pc'[q] = "show"
           Kept == UNCHANGED notes \/ (notes' \in Slices /\ notes'.array <= Len(heap'))
           Marks == raced' \in BOOLEAN /\ quiet' \subseteq Requests /\ strayed' \subseteq Requests
           Read == next' \in [Requests -> Nat] /\ \A q \in Requests : next'[q] <= Len(Rows[q])
<1>4. ASSUME Moved, Kept, Marks, Read, shown' \in [Requests -> Seq(Notes)] PROVE TypeInv'
  <2>1. notes' \in Slices /\ notes'.array <= Len(heap')
    BY <1>1, <1>2, <1>4
  <2> QED  BY <1>1, <1>4, <2>1 DEF TypeInv, TypeOK
<1>5. ASSUME NEW r \in Requests, Disturb(r) PROVE raced' \in BOOLEAN /\ quiet' \subseteq Requests
  <2>1. raced' \in BOOLEAN
    BY <1>5, Zenon DEF Disturb
  <2> QED  BY <1>2, <1>5, <2>1 DEF Disturb
<1>6. UNCHANGED next => Read
  BY <1>2
<1>7. UNCHANGED <<quiet, raced>> /\ strayed' \subseteq Requests => Marks
  BY <1>2, <1>3
<1>8. ASSUME NEW r \in Requests, NEW l \in Labels, UNCHANGED slice,
             pc' = [pc EXCEPT ![r] = l], pc[r] = "show" => l = "show"
      PROVE  Moved
  <2>1. /\ slice' = [slice EXCEPT ![r] = slice[r]] /\ slice[r].array \in Nat
        /\ slice[r] \in Slices /\ slice[r].array <= Len(heap')
        /\ slice[r].len > slice[r].cap => l = "show"
    BY <1>1, <1>2, <1>8 DEF SliceTyped, Slices
  <2> QED  BY <1>8, <2>1, OneGoesOn
<1> HIDE DEF Moved, Kept, Marks, Read
<1>9. ASSUME NEW r \in Requests, Truncate(r) PROVE TypeInv'
  <2>1. Truncated(notes) \in Slices /\ Truncated(notes).array = notes.array
        /\ Truncated(notes).len = 0 /\ Truncated(notes).cap \in Nat
    BY <1>2 DEF Truncated, Slices
  <2>2. Moved
    <3>1. /\ slice' = [slice EXCEPT ![r] = Truncated(notes)]
          /\ pc' = [pc EXCEPT ![r] = "store array"]
      BY <1>9 DEF Truncate, Go
    <3>2. /\ Truncated(notes).array <= Len(heap')
          /\ ~ (Truncated(notes).len > Truncated(notes).cap)
      BY <1>1, <1>2, <2>1
    <3> QED  BY <2>1, <3>1, <3>2, OneGoesOn DEF Labels, Moved
  <2>3. raced' \in BOOLEAN
    BY <1>9, Zenon DEF Truncate
  <2>4. Marks
    BY <1>2, <1>9, <2>3 DEF Truncate, Marks
  <2>5. Kept /\ Read /\ shown' \in [Requests -> Seq(Notes)]
    BY <1>2, <1>6, <1>9 DEF Truncate, Kept
  <2> QED  BY <1>4, <2>2, <2>4, <2>5
<1>10. ASSUME NEW r \in Requests, StoreArray(r) PROVE TypeInv'
  <2>1. Moved
    BY <1>8, <1>10 DEF StoreArray, Go, Labels
  <2>2. notes' \in Slices /\ notes'.array <= Len(heap')
    BY <1>1, <1>2, <1>10 DEF StoreArray, Slices, SliceTyped
  <2>3. Marks /\ Read /\ shown' \in [Requests -> Seq(Notes)]
    BY <1>2, <1>5, <1>6, <1>10 DEF StoreArray, Marks
  <2> QED  BY <1>4, <2>1, <2>2, <2>3 DEF Kept
<1>11. ASSUME NEW r \in Requests, StoreBounds(r) PROVE TypeInv'
  <2>1. Moved
    BY <1>8, <1>11 DEF StoreBounds, Go, Labels
  <2>2. notes' \in Slices /\ notes'.array <= Len(heap')
    BY <1>1, <1>2, <1>11 DEF StoreBounds, Slices
  <2>3. Marks /\ Read /\ shown' \in [Requests -> Seq(Notes)]
    BY <1>2, <1>5, <1>6, <1>11 DEF StoreBounds, Marks
  <2> QED  BY <1>4, <2>1, <2>2, <2>3 DEF Kept
<1>12. nil \in Slices /\ nil.array <= Len(heap') /\ ~ (nil.len > nil.cap)
  BY <1>1 DEF nil, Slices
<1>13. ASSUME NEW r \in Requests, QueryFails(r) PROVE TypeInv'
  <2>1. Moved
    BY <1>12, <1>13, OneGoesOn DEF QueryFails, Go, Labels, Moved
  <2>2. Kept /\ Marks /\ Read /\ shown' \in [Requests -> Seq(Notes)]
    BY <1>2, <1>6, <1>7, <1>13 DEF QueryFails, Kept
  <2> QED  BY <1>4, <2>1, <2>2
<1>14. ASSUME NEW r \in Requests, LoadRow(r) PROVE TypeInv'
  <2>1. /\ notes' = notes /\ pc' = [pc EXCEPT ![r] = "store array"] /\ MoreRows(r)
        /\ pc[r] = "rows" /\ raced' \in BOOLEAN /\ quiet' \subseteq Requests
    BY <1>5, <1>14 DEF LoadRow, Go
  <2>2. CASE Appended(r)
    <3>1. /\ slice'[r] \in Slices /\ slice'[r].array \in 1 .. Len(heap')
          /\ slice'[r].len <= slice'[r].cap
          /\ slice' = [slice EXCEPT ![r] = slice'[r]]
          /\ next' = [next EXCEPT ![r] = @ + 1]
          /\ UNCHANGED <<shown, strayed>>
      BY <2>2 DEF Appended
    <3>2. Read
      <4>1. next[r] + 1 \in 1 .. Len(Rows[r])
        BY <2>1, RowIsNote
      <4> QED  BY <1>2, <3>1, <4>1 DEF Read
    <3>3. Moved
      <4>1. slice'[r].array <= Len(heap') /\ ~ (slice'[r].len > slice'[r].cap)
        BY <1>1, <3>1 DEF Slices
      <4> QED  BY <2>1, <3>1, <4>1, OneGoesOn DEF Labels, Moved
    <3> QED  BY <1>2, <1>4, <2>1, <3>1, <3>2, <3>3 DEF Kept, Marks
  <2>3. CASE Stray(r)
    <3>1. Moved
      BY <1>8, <2>1, <2>3 DEF Stray, Labels
    <3>2. Marks /\ Read /\ Kept /\ shown' \in [Requests -> Seq(Notes)]
      BY <1>2, <1>6, <2>1, <2>3 DEF Stray, Marks, Kept
    <3> QED  BY <1>4, <3>1, <3>2
  <2> QED  BY <1>14, <2>2, <2>3, LoadsRow
<1>15. ASSUME NEW r \in Requests, Return(r) PROVE TypeInv'
  <2>1. Moved
    <3>1. /\ slice' = [slice EXCEPT ![r] = notes] /\ pc' = [pc EXCEPT ![r] = "show"]
          /\ notes.array <= Len(heap')
      BY <1>1, <1>2, <1>15 DEF Return, Go
    <3> QED  BY <1>2, <3>1, OneGoesOn DEF Labels, Moved
  <2>2. Kept /\ Marks /\ Read /\ shown' \in [Requests -> Seq(Notes)]
    BY <1>2, <1>6, <1>7, <1>15 DEF Return, Kept
  <2> QED  BY <1>4, <2>1, <2>2
<1>16. ASSUME NEW r \in Requests, ShowNote(r) PROVE TypeInv'
  <2>1. pc' = [pc EXCEPT ![r] = "show"] /\ UNCHANGED <<notes, quiet, raced>>
    BY <1>16 DEF ShowNote, Go
  <2>2. CASE Stray(r)
    <3>1. Moved
      BY <1>8, <2>1, <2>2 DEF Stray, Labels
    <3>2. Marks /\ Read /\ Kept /\ shown' \in [Requests -> Seq(Notes)]
      BY <1>2, <1>6, <1>7, <2>1, <2>2 DEF Stray, Kept
    <3> QED  BY <1>4, <3>1, <3>2
  <2>3. CASE ~ Stray(r)
    <3> DEFINE i == Len(shown[r]) + 1
    <3>1. /\ i <= Room(slice[r].array)
          /\ shown' = [shown EXCEPT ![r] = Append(@, heap[slice[r].array][i])]
          /\ UNCHANGED <<heap, slice, next, strayed>>
      BY <1>16, <2>3 DEF ShowNote
    <3>2. heap[slice[r].array][i] \in Notes
      <4>1. slice[r].array \in Nat /\ slice[r].array <= Len(heap) /\ i \in Nat \ {0}
        BY <1>2 DEF Slices, SliceTyped
      <4>2. slice[r].array \in 1 .. Len(heap) /\ i \in 1 .. Len(heap[slice[r].array])
        BY <1>1, <3>1, <4>1 DEF Room
      <4>3. heap[slice[r].array] \in Seq(Notes)
        BY <4>2, ElementOfSeq DEF TypeInv
      <4> QED  BY <4>2, <4>3
    <3>3. shown' \in [Requests -> Seq(Notes)]
      BY <1>2, <3>1, <3>2
    <3>4. Moved
      BY <1>8, <2>1, <3>1 DEF Labels
    <3>5. Marks /\ Read /\ Kept
      BY <1>2, <1>6, <1>7, <2>1, <3>1 DEF Kept
    <3> QED  BY <1>4, <3>3, <3>4, <3>5
  <2> QED  BY <2>2, <2>3
<1>17. ASSUME NEW r \in Requests, EndShow(r) PROVE TypeInv'
  <2>1. Moved
    BY <1>12, <1>17, OneGoesOn DEF EndShow, Go, Labels, Moved
  <2>2. Kept /\ Marks /\ Read /\ shown' \in [Requests -> Seq(Notes)]
    BY <1>2, <1>6, <1>7, <1>17 DEF EndShow, Kept
  <2> QED  BY <1>4, <2>1, <2>2
<1>18. CASE UNCHANGED vars
  BY <1>18 DEF vars, TypeInv, TypeOK
<1> QED
  BY <1>9, <1>10, <1>11, <1>13, <1>14, <1>15, <1>16, <1>17, <1>18 DEF Next, EndRows, RowFails

(* The slices and arrays of the lists stay slices and arrays of notes, also  *)
(* when loads meet (LoadNotes, LoadNotesWhere, indexHandler).                *)
THEOREM ListTyping == Spec => []TypeOK
<1>1. TypeInv => TypeOK
  BY DEF TypeInv
<1> QED  BY <1>1, TypeInit, TypeStep, PTL DEF Spec

------------------------------------------------------------------------------
(* Loads that do not meet                                                    *)

\* The words of slice s fit together when the heap is h.
Fits(s, h) ==
    /\ s.cap = IF s.array = 0 THEN 0 ELSE Len(h[s.array])
    /\ s.len <= s.cap

LEMMA SoundIsFits ==
    \A s : Sound(s) <=> Fits(s, heap)
  BY DEF Sound, Fits, Room

\* Arrays keep their size.
LEMMA FitsStill ==
    ASSUME TypeInv, [Next]_vars, NEW s \in Slices, s.array <= Len(heap), Fits(s, heap)
    PROVE  Fits(s, heap')
<1>1. s.array \in Nat /\ Len(heap) \in Nat
  BY DEF Slices, TypeInv
<1>2. s.array # 0 => Len(heap'[s.array]) = Len(heap[s.array])
  BY <1>1, HeapGrows
<1> QED  BY <1>2 DEF Fits

Alone == \A r, q \in Requests : Loading(r) /\ Loading(q) => r = q

FitInv ==
    /\ \A r \in Requests :
        /\ pc[r] \in {"store array", "store bounds", "show"} => Fits(slice[r], heap)
        /\ pc[r] = "store bounds" => notes.array = slice[r].array
    /\ (\A r \in Requests : pc[r] # "store bounds") => Fits(notes, heap)

RaceInv == ~ raced => strayed = {} /\ Alone /\ FitInv

LEMMA RaceInit ==
    Init => RaceInv
<1> SUFFICES ASSUME Init PROVE RaceInv
  OBVIOUS
<1>1. notes = nil /\ strayed = {} /\ \A r \in Requests : pc[r] = "start"
  BY DEF Init
<1>2. Fits(nil, heap)
  BY DEF Fits, nil
<1>3. Alone
  BY <1>1 DEF Alone, Loading
<1>4. FitInv
  BY <1>1, <1>2 DEF FitInv
<1> QED  BY <1>1, <1>3, <1>4 DEF RaceInv

LEMMA RaceStep ==
    TypeInv /\ RaceInv /\ [Next]_vars => RaceInv'
<1> SUFFICES ASSUME TypeInv, RaceInv, [Next]_vars, ~ raced'
             PROVE  strayed' = {} /\ Alone' /\ FitInv'
  BY DEF RaceInv
<1>1. /\ pc \in [Requests -> Labels] /\ slice \in [Requests -> Slices]
      /\ notes \in Slices /\ notes.array <= Len(heap)
      /\ \A r \in Requests : slice[r].array <= Len(heap)
  BY DEF TypeInv, TypeOK
<1>2. ASSUME NEW s \in Slices, s.array <= Len(heap), Fits(s, heap) PROVE Fits(s, heap')
  BY <1>2, FitsStill
\* The part of the others, and what is left to show of the one that steps.
<1>3. ASSUME NEW r \in Requests, NEW l, strayed = {} /\ Alone /\ FitInv,
             pc' = [pc EXCEPT ![r] = l],
             \A q \in Requests \ {r} : slice'[q] = slice[q],
             UNCHANGED notes \/ \A q \in Requests \ {r} : ~ Loading(q),
             l \in {"store array", "store bounds", "show"} => Fits(slice'[r], heap'),
             l = "store bounds" => notes'.array = slice'[r].array,
             (\A q \in Requests : pc'[q] # "store bounds") => Fits(notes', heap')
      PROVE  FitInv'
  <2>1. ASSUME NEW q \in Requests
        PROVE  /\ pc'[q] \in {"store array", "store bounds", "show"} => Fits(slice'[q], heap')
               /\ pc'[q] = "store bounds" => notes'.array = slice'[q].array
    <3>1. CASE q = r
      BY <1>1, <1>3, <3>1
    <3>2. CASE q # r
      <4>1. pc'[q] = pc[q] /\ slice'[q] = slice[q] /\ slice[q] \in Slices
        BY <1>1, <1>3, <3>2
      <4>2. pc'[q] \in {"store array", "store bounds", "show"} => Fits(slice'[q], heap')
        BY <1>1, <1>2, <1>3, <4>1 DEF FitInv
      <4>3. pc'[q] = "store bounds" => notes'.array = slice'[q].array
        BY <1>3, <3>2, <4>1 DEF FitInv, Loading
      <4> QED  BY <4>2, <4>3
    <3> QED  BY <3>1, <3>2
  <2> QED  BY <1>3, <2>1 DEF FitInv
<1>4. ASSUME NEW r \in Requests, NEW l, Alone, pc' = [pc EXCEPT ![r] = l],
             Loading(r) \/ (\A q \in Requests \ {r} : ~ Loading(q))
                \/ l \notin {"store array", "store bounds", "rows"}
      PROVE  Alone'
  <2>1. ASSUME NEW q \in Requests, NEW p \in Requests, Loading(q)', Loading(p)'
        PROVE  q = p
    BY <1>1, <1>4, <2>1 DEF Alone, Loading
  <2> QED  BY <2>1 DEF Alone
<1>5. ASSUME NEW r \in Requests, Disturb(r)
      PROVE  ~ raced /\ \A q \in Requests \ {r} : ~ Loading(q)
  BY <1>5, Zenon DEF Disturb
<1>6. ~ raced => strayed = {} /\ Alone /\ FitInv
  BY DEF RaceInv
\* The slice of the manager, as long as nobody is about to store its bounds.
<1>7. ASSUME FitInv, \A q \in Requests : pc[q] # "store bounds"
      PROVE  Fits(notes, heap) /\ Fits(notes, heap')
  BY <1>1, <1>2, <1>7 DEF FitInv
<1>8. ASSUME NEW r \in Requests, Truncate(r) PROVE strayed' = {} /\ Alone' /\ FitInv'
  <2>1. ~ raced /\ \A q \in Requests \ {r} : ~ Loading(q)
    BY <1>8, Zenon DEF Truncate
  <2>2. /\ pc' = [pc EXCEPT ![r] = "store array"] /\ pc[r] = "start"
        /\ slice' = [slice EXCEPT ![r] = Truncated(notes)]
        /\ UNCHANGED <<notes, strayed>>
    BY <1>8 DEF Truncate, Go
  <2>3. Fits(notes, heap) /\ Fits(notes, heap')
    <3>1. \A q \in Requests : pc[q] # "store bounds"
      BY <2>1, <2>2 DEF Loading
    <3> QED  BY <1>6, <1>7, <2>1, <3>1
  <2>4. Fits(slice'[r], heap')
    <3>1. slice'[r] = [array |-> notes.array, len |-> 0, cap |-> notes.cap]
      BY <1>1, <2>2 DEF Truncated, Slices
    <3>2. notes.len \in Nat /\ notes.cap \in Nat
      BY <1>1 DEF Slices
    <3> QED  BY <2>3, <3>1, <3>2 DEF Fits
  <2>5. FitInv'
    BY <1>1, <1>3, <1>6, <2>1, <2>2, <2>3, <2>4
  <2> QED  BY <1>4, <1>6, <2>1, <2>2, <2>5
<1>9. ASSUME NEW r \in Requests, StoreArray(r) PROVE strayed' = {} /\ Alone' /\ FitInv'
  <2>1. ~ raced /\ \A q \in Requests \ {r} : ~ Loading(q)
    BY <1>5, <1>9 DEF StoreArray
  <2>2. /\ pc' = [pc EXCEPT ![r] = "store bounds"] /\ pc[r] = "store array"
        /\ notes' = [notes EXCEPT !.array = slice[r].array]
        /\ UNCHANGED <<slice, strayed>>
    BY <1>9 DEF StoreArray, Go
  <2>3. Fits(slice'[r], heap') /\ notes'.array = slice'[r].array
    <3>1. Fits(slice[r], heap)
      BY <1>6, <2>1, <2>2 DEF FitInv
    <3>2. Fits(slice[r], heap')
      BY <1>1, <1>2, <3>1
    <3>3. notes'.array = slice[r].array
      BY <1>1, <2>2 DEF Slices
    <3> QED  BY <2>2, <3>2, <3>3
  <2>4. pc'[r] = "store bounds"
    BY <1>1, <2>2
  <2>5. FitInv'
    BY <1>3, <1>6, <2>1, <2>2, <2>3, <2>4
  <2> QED  BY <1>4, <1>6, <2>1, <2>2, <2>5
<1>10. ASSUME NEW r \in Requests, StoreBounds(r) PROVE strayed' = {} /\ Alone' /\ FitInv'
  <2>1. ~ raced /\ \A q \in Requests \ {r} : ~ Loading(q)
    BY <1>5, <1>10 DEF StoreBounds
  <2>2. /\ pc' = [pc EXCEPT ![r] = "rows"] /\ pc[r] = "store bounds"
        /\ notes' = [notes EXCEPT !.len = slice[r].len, !.cap = slice[r].cap]
        /\ UNCHANGED <<slice, strayed>>
    BY <1>10 DEF StoreBounds, Go
  <2>3. Fits(notes', heap')
    <3>1. Fits(slice[r], heap) /\ notes.array = slice[r].array
      BY <1>6, <2>1, <2>2 DEF FitInv
    <3>2. Fits(slice[r], heap')
      BY <1>1, <1>2, <3>1
    <3>3. notes' = slice[r]
      <4>1. notes' = [array |-> notes.array, len |-> slice[r].len, cap |-> slice[r].cap]
        BY <1>1, <2>2 DEF Slices
      <4>2. slice[r] = [array |-> slice[r].array, len |-> slice[r].len, cap |-> slice[r].cap]
        BY <1>1 DEF Slices
      <4> QED  BY <3>1, <4>1, <4>2
    <3> QED  BY <3>2, <3>3
  <2>4. FitInv'
    BY <1>3, <1>6, <2>1, <2>2, <2>3
  <2> QED  BY <1>4, <1>6, <2>1, <2>2, <2>4, Zenon DEF Loading
\* Steps that leave the manager's slice alone.
<1>11. ASSUME NEW r \in Requests, NEW l \in {"show", "done"}, UNCHANGED <<notes, strayed, raced>>,
              pc' = [pc EXCEPT ![r] = l], pc[r] # "store bounds",
              \A q \in Requests \ {r} : slice'[q] = slice[q],
              l = "show" => Fits(slice'[r], heap')
       PROVE  strayed' = {} /\ Alone' /\ FitInv'
  <2>1. strayed = {} /\ Alone /\ FitInv
    BY <1>6, <1>11
  <2>2. ASSUME \A q \in Requests : pc'[q] # "store bounds" PROVE Fits(notes', heap')
    <3>1. \A q \in Requests : pc[q] # "store bounds"
      BY <1>1, <1>11, <2>2
    <3> QED  BY <1>7, <1>11, <2>1, <3>1
  <2>3. FitInv'
    BY <1>3, <1>11, <2>1, <2>2
  <2> QED  BY <1>4, <1>11, <2>1, <2>3
<1>12. ASSUME NEW r \in Requests, QueryFails(r) PROVE strayed' = {} /\ Alone' /\ FitInv'
  <2>1. /\ pc' = [pc EXCEPT ![r] = "done"] /\ pc[r] = "rows"
        /\ \A q \in Requests \ {r} : slice'[q] = slice[q]
        /\ UNCHANGED <<notes, strayed, raced>>
    BY <1>1, <1>12 DEF QueryFails, Go
  <2> QED  BY <1>11, <2>1
<1>13. ASSUME NEW r \in Requests, LoadRow(r) PROVE strayed' = {} /\ Alone' /\ FitInv'
  <2>1. ~ raced /\ \A q \in Requests \ {r} : ~ Loading(q)
    BY <1>5, <1>13 DEF LoadRow
  <2>2. /\ pc' = [pc EXCEPT ![r] = "store array"] /\ pc[r] = "rows" /\ UNCHANGED notes
    BY <1>13 DEF LoadRow, Go
  <2>3. Fits(notes, heap) /\ Fits(notes, heap')
    <3>1. \A q \in Requests : pc[q] # "store bounds"
      BY <2>1, <2>2 DEF Loading
    <3> QED  BY <1>6, <1>7, <2>1, <3>1
  <2>4. Appended(r)
    BY <1>13, <2>3, LoadsRow, SoundIsFits
  <2>5. /\ slice'[r] \in Slices /\ slice'[r].array \in 1 .. Len(heap')
        /\ slice'[r].len <= slice'[r].cap /\ slice'[r].cap = Len(heap'[slice'[r].array])
        /\ slice' = [slice EXCEPT ![r] = slice'[r]] /\ UNCHANGED strayed
    BY <2>3, <2>4, SoundIsFits DEF Appended
  <2>6. Fits(slice'[r], heap')
    BY <2>5 DEF Fits
  <2>7. \A q \in Requests \ {r} : slice'[q] = slice[q]
    BY <1>1, <2>5
  <2>8. FitInv'
    BY <1>3, <1>6, <2>1, <2>2, <2>3, <2>6, <2>7
  <2> QED  BY <1>4, <1>6, <2>1, <2>2, <2>5, <2>8
<1>14. ASSUME NEW r \in Requests, Return(r) PROVE strayed' = {} /\ Alone' /\ FitInv'
  <2>1. /\ pc' = [pc EXCEPT ![r] = "show"] /\ pc[r] = "rows"
        /\ slice' = [slice EXCEPT ![r] = notes] /\ UNCHANGED <<notes, strayed, raced>>
    BY <1>14 DEF Return, Go
  <2>2. \A q \in Requests : pc[q] # "store bounds"
    BY <1>6, <2>1 DEF Alone, Loading
  <2>3. Fits(notes, heap')
    BY <1>6, <1>7, <2>1, <2>2
  <2>4. slice'[r] = notes /\ \A q \in Requests \ {r} : slice'[q] = slice[q]
    BY <1>1, <2>1
  <2> QED  BY <1>11, <2>1, <2>3, <2>4
<1>15. ASSUME NEW r \in Requests, ShowNote(r) PROVE strayed' = {} /\ Alone' /\ FitInv'
  <2>1. /\ pc' = [pc EXCEPT ![r] = "show"] /\ pc[r] = "show"
        /\ UNCHANGED <<notes, raced, slice>>
    BY <1>15 DEF ShowNote, Go, Stray
  <2>2. Fits(slice[r], heap)
    BY <1>6, <2>1 DEF FitInv
  <2>3. Len(shown[r]) + 1 <= Room(slice[r].array)
    <3>1. Len(shown[r]) + 1 <= slice[r].len /\ Len(shown[r]) \in Nat
      BY <1>15 DEF ShowNote, TypeInv, TypeOK
    <3>2. slice[r].len \in Nat /\ slice[r].cap \in Nat
      BY <1>1 DEF Slices
    <3> QED  BY <2>2, <3>1, <3>2 DEF Fits, Room
  <2>4. UNCHANGED strayed
    BY <1>15, <2>3 DEF ShowNote
  <2>5. Fits(slice'[r], heap')
    BY <1>1, <1>2, <2>1, <2>2
  <2> QED  BY <1>11, <2>1, <2>4, <2>5
<1>16. ASSUME NEW r \in Requests, EndShow(r) PROVE strayed' = {} /\ Alone' /\ FitInv'
  <2>1. /\ pc' = [pc EXCEPT ![r] = "done"] /\ pc[r] = "show"
        /\ \A q \in Requests \ {r} : slice'[q] = slice[q]
        /\ UNCHANGED <<notes, strayed, raced>>
    BY <1>1, <1>16 DEF EndShow, Go
  <2> QED  BY <1>11, <2>1
<1>17. CASE UNCHANGED vars
  BY <1>6, <1>17 DEF vars, Alone, FitInv, Loading
<1> QED
  BY <1>8, <1>9, <1>10, <1>12, <1>13, <1>14, <1>15, <1>16, <1>17 DEF Next, EndRows, RowFails

(* As long as no two loads have met, no list touches memory outside its      *)
(* array, and the slice of the manager is in order between the stores of     *)
(* LoadNotes and LoadNotesWhere, however many pages are still being made.    *)
THEOREM SoundWithoutRace == Spec => []SoundUnlessRaced
<1>1. RaceInv => SoundUnlessRaced
  BY SoundIsFits DEF RaceInv, FitInv, SoundUnlessRaced
<1>2. TypeInv /\ RaceInv /\ [Next]_vars => TypeInv' /\ RaceInv'
  BY TypeStep, RaceStep
<1> QED  BY <1>1, <1>2, TypeInit, RaceInit, PTL DEF Spec

------------------------------------------------------------------------------
(* A load that nobody comes into                                             *)

\* Slice s holds the first n rows of request r, when the heap is h.
Holds(r, s, h, n) ==
    /\ Fits(s, h) /\ s.len = n
    /\ \A i \in 1 .. n : h[s.array][i] = Rows[r][i]

Watched(r) ==
    /\ pc[r] # "start" /\ r \notin strayed
    /\ pc[r] \in {"store array", "store bounds", "show"} =>
            Holds(r, slice[r], heap, next[r])
    /\ pc[r] = "store bounds" => notes.array = slice[r].array
    /\ pc[r] = "rows" => Holds(r, notes, heap, next[r])
    /\ pc[r] \notin {"show", "done"} => shown[r] = << >>
    /\ Len(shown[r]) <= next[r]
    /\ \A i \in 1 .. Len(shown[r]) : shown[r][i] = Rows[r][i]
    /\ pc[r] = "done" /\ shown[r] # << >> => Len(shown[r]) = next[r]

QuietInv ==
    /\ \A r \in quiet : quiet \subseteq {r} /\ Watched(r)
    /\ \A r \in Requests : pc[r] = "start" => next[r] = 0 /\ shown[r] = << >>

LEMMA QuietStep ==
    TypeInv /\ QuietInv /\ [Next]_vars => QuietInv'
<1> SUFFICES ASSUME TypeInv, QuietInv, [Next]_vars PROVE QuietInv'
  OBVIOUS
<1>1. /\ pc \in [Requests -> Labels] /\ slice \in [Requests -> Slices]
      /\ notes \in Slices /\ notes.array <= Len(heap) /\ heap \in Seq(Seq(Notes))
      /\ next \in [Requests -> Nat] /\ shown \in [Requests -> Seq(Notes)]
      /\ quiet \subseteq Requests
      /\ \A r \in Requests : slice[r].array <= Len(heap)
  BY DEF TypeInv, TypeOK
<1>2. \A r \in quiet : Watched(r)
  BY DEF QuietInv
\* The others leave it all alone.
<1>3. ASSUME NEW q \in Requests, NEW l, pc' = [pc EXCEPT ![q] = l],
             NEW r \in quiet, r # q, r \notin strayed',
             UNCHANGED <<notes, heap>>,
             slice'[r] = slice[r], next'[r] = next[r], shown'[r] = shown[r]
      PROVE  Watched(r)'
  <2>1. pc'[r] = pc[r]
    BY <1>1, <1>3
  <2>2. Watched(r)
    BY <1>2
  <2> QED  BY <1>3, <2>1, <2>2 DEF Watched
<1>4. ASSUME NEW q \in Requests, Disturb(q), NEW r \in quiet'
      PROVE  r = q /\ r \in quiet
  BY <1>4 DEF Disturb
\* Nothing is shown before the load has returned.
<1>5. ASSUME NEW r \in Requests, pc'[r] = "store array", r \notin strayed',
              shown'[r] = << >>, next'[r] \in Nat, Holds(r, slice'[r], heap', next'[r])
       PROVE  Watched(r)'
  <2> DEFINE w == shown'[r]
  <2>1. Len(w) = 0
    <3>1. w = << >>
      BY <1>5
    <3> QED  BY <3>1, EmptySeq
  <2> HIDE DEF w
  <2>2. \A i \in 1 .. Len(w) : w[i] = Rows[r][i]
    BY <2>1
  <2>3. Len(w) <= next'[r]
    <3>1. next'[r] \in Nat
      BY <1>5
    <3> QED  BY <2>1, <3>1
  <2> USE DEF w
  <2> QED  BY <1>5, <2>2, <2>3 DEF Watched
\* What each action does to the requests it leaves quiet.
<1>6. ASSUME NEW q \in Requests, Truncate(q), NEW r \in quiet' PROVE quiet' \subseteq {r} /\ Watched(r)'
  <2>1. r = q /\ quiet' \subseteq {r} /\ Sound(notes)
    BY <1>6 DEF Truncate
  <2>2. /\ pc[r] = "start" /\ pc'[r] = "store array" /\ slice'[r] = Truncated(notes)
        /\ UNCHANGED <<heap, next, shown>> /\ strayed' = {}
    BY <1>1, <1>6, <2>1 DEF Truncate, Go
  <2>3. next'[r] = 0 /\ shown'[r] = << >>
    BY <2>1, <2>2 DEF QuietInv
  <2>4. Holds(r, slice'[r], heap', next'[r])
    <3>1. slice'[r] = [array |-> notes.array, len |-> 0, cap |-> notes.cap]
      BY <1>1, <2>2 DEF Truncated, Slices
    <3>2. Fits(notes, heap') /\ notes.cap \in Nat /\ notes.len \in Nat
      BY <1>1, <2>1, <2>2, SoundIsFits DEF Slices
    <3>3. Fits(slice'[r], heap')
      BY <3>1, <3>2 DEF Fits
    <3> QED  BY <2>3, <3>1, <3>3 DEF Holds
  <2>5. r \notin strayed' /\ next'[r] \in Nat
    <3>1. next'[r] \in Nat
      BY <2>3
    <3> QED  BY <2>2, <3>1
  <2> QED  BY <1>6, <1>5, <2>1, <2>2, <2>3, <2>4, <2>5
<1>7. ASSUME NEW q \in Requests, StoreArray(q), NEW r \in quiet' PROVE Watched(r)'
  <2>1. r = q /\ Watched(r)
    BY <1>2, <1>4, <1>7 DEF StoreArray
  <2>2. /\ pc[r] = "store array" /\ pc'[r] = "store bounds" /\ notes'.array = slice[r].array
        /\ UNCHANGED <<heap, slice, next, shown, strayed>>
    BY <1>1, <1>7, <2>1 DEF StoreArray, Go, Slices
  <2> QED  BY <2>1, <2>2 DEF Watched
<1>8. ASSUME NEW q \in Requests, StoreBounds(q), NEW r \in quiet' PROVE Watched(r)'
  <2>1. r = q /\ Watched(r)
    BY <1>2, <1>4, <1>8 DEF StoreBounds
  <2>2. /\ pc[r] = "store bounds" /\ pc'[r] = "rows"
        /\ notes' = [notes EXCEPT !.len = slice[r].len, !.cap = slice[r].cap]
        /\ UNCHANGED <<heap, slice, next, shown, strayed>>
    BY <1>1, <1>8, <2>1 DEF StoreBounds, Go
  <2>3. notes' = slice[r]
    <3>1. slice[r] \in Slices /\ notes.array = slice[r].array
      BY <1>1, <1>8, <2>1, <2>2 DEF Watched
    <3>2. notes' = [array |-> notes.array, len |-> slice[r].len, cap |-> slice[r].cap]
      BY <1>1, <2>2 DEF Slices
    <3>3. slice[r] = [array |-> slice[r].array, len |-> slice[r].len, cap |-> slice[r].cap]
      BY <3>1 DEF Slices
    <3> QED  BY <3>1, <3>2, <3>3
  <2> QED  BY <2>1, <2>2, <2>3 DEF Watched
<1>9. ASSUME NEW q \in Requests, QueryFails(q), NEW r \in quiet' PROVE Watched(r)'
  <2>1. /\ pc[q] = "rows" /\ pc' = [pc EXCEPT ![q] = "done"] /\ strayed' = {}
        /\ UNCHANGED <<notes, heap, next, shown, quiet>>
        /\ \A p \in Requests \ {q} : slice'[p] = slice[p]
    BY <1>1, <1>9 DEF QueryFails, Go
  <2>2. CASE r # q
    BY <1>1, <1>3, <1>9, <2>1, <2>2
  <2>3. CASE r = q
    BY <1>1, <1>2, <1>9, <2>1, <2>3 DEF Watched
  <2> QED  BY <2>2, <2>3
<1>10. ASSUME NEW q \in Requests, LoadRow(q), NEW r \in quiet' PROVE Watched(r)'
  <2>1. r = q /\ r \in Requests /\ Watched(r)
    BY <1>1, <1>2, <1>4, <1>10 DEF LoadRow
  <2>2. pc[r] = "rows" /\ pc'[r] = "store array" /\ MoreRows(r)
    BY <1>1, <1>10, <2>1 DEF LoadRow, Go
  <2>3. Holds(r, notes, heap, next[r]) /\ shown[r] = << >> /\ r \notin strayed
    BY <2>1, <2>2 DEF Watched
  <2>4. Appended(r)
    BY <1>10, <2>1, <2>3, LoadsRow, SoundIsFits DEF Holds
  <2>5. /\ next[r] \in Nat /\ next'[r] = next[r] + 1 /\ notes.len = next[r]
        /\ UNCHANGED <<shown, strayed>>
    BY <1>1, <2>1, <2>3, <2>4 DEF Appended, Holds
  <2>6. Fits(slice'[r], heap')
    <3>1. /\ slice'[r].array \in 1 .. Len(heap') /\ slice'[r].len <= slice'[r].cap
          /\ slice'[r].cap = Len(heap'[slice'[r].array])
      BY <2>3, <2>4, SoundIsFits DEF Appended, Holds
    <3> QED  BY <3>1 DEF Fits
  <2>7. ASSUME NEW i \in 1 .. next'[r] PROVE heap'[slice'[r].array][i] = Rows[r][i]
    <3>1. CASE i \in 1 .. next[r]
      <4>1. heap'[slice'[r].array][i] = heap[notes.array][i]
        BY <2>4, <2>5, <3>1 DEF Appended
      <4> QED  BY <2>3, <3>1, <4>1 DEF Holds
    <3>2. CASE i = next[r] + 1
      BY <2>4, <2>5, <3>2 DEF Appended, Row
    <3> QED  BY <2>5, <3>1, <3>2
  <2>8. Holds(r, slice'[r], heap', next'[r])
    BY <2>4, <2>5, <2>6, <2>7 DEF Appended, Holds
  <2>9. shown'[r] = << >> /\ next'[r] \in Nat /\ r \notin strayed'
    BY <2>3, <2>5
  <2> QED  BY <1>5, <2>1, <2>2, <2>8, <2>9
<1>11. ASSUME NEW q \in Requests, Return(q), NEW r \in quiet' PROVE Watched(r)'
  <2>1. /\ pc[q] = "rows" /\ pc' = [pc EXCEPT ![q] = "show"] /\ strayed' = {}
        /\ UNCHANGED <<notes, heap, next, shown, quiet>>
        /\ slice' = [slice EXCEPT ![q] = notes]
    BY <1>11 DEF Return, Go
  <2>2. CASE r # q
    BY <1>1, <1>3, <1>11, <2>1, <2>2
  <2>3. CASE r = q
    <3>1. Watched(r) /\ pc'[r] = "show" /\ slice'[r] = notes
      BY <1>1, <1>2, <1>11, <2>1, <2>3
    <3> QED  BY <2>1, <2>3, <3>1 DEF Watched
  <2> QED  BY <2>2, <2>3
<1>12. ASSUME NEW q \in Requests, ShowNote(q), NEW r \in quiet' PROVE Watched(r)'
  <2>1. /\ pc[q] = "show" /\ pc' = [pc EXCEPT ![q] = "show"] /\ strayed = {}
        /\ strayed' \subseteq {q}
        /\ UNCHANGED <<notes, heap, next, quiet, slice>>
        /\ \A p \in Requests \ {q} : shown'[p] = shown[p]
    BY <1>1, <1>12 DEF ShowNote, Go, Stray
  <2>2. CASE r # q
    BY <1>1, <1>3, <1>12, <2>1, <2>2
  <2>3. CASE r = q
    <3> DEFINE i == Len(shown[r]) + 1
    <3>1. Watched(r) /\ r \in Requests /\ pc'[r] = "show" /\ shown[r] \in Seq(Notes)
      BY <1>1, <1>2, <1>12, <2>1, <2>3
    <3>2. Holds(r, slice[r], heap, next[r])
      BY <2>1, <2>3, <3>1 DEF Watched
    <3>3. i \in 1 .. next[r] /\ i <= Room(slice[r].array)
      <4>1. i <= slice[r].len /\ Len(shown[r]) \in Nat /\ next[r] \in Nat
        BY <1>1, <1>12, <2>3, <3>1 DEF ShowNote
      <4>2. slice[r].len = next[r] /\ slice[r].len <= Room(slice[r].array) /\ Room(slice[r].array) \in Nat
        BY <1>1, <3>1, <3>2 DEF Holds, Fits, Room, Slices
      <4> QED  BY <4>1, <4>2
    <3>4. strayed' = {} /\ shown' = [shown EXCEPT ![r] = Append(@, heap[slice[r].array][i])]
      BY <1>12, <2>1, <2>3, <3>3 DEF ShowNote
    <3>5. shown'[r] = Append(shown[r], Rows[r][i])
      BY <1>1, <3>1, <3>2, <3>3, <3>4 DEF Holds
    <3>6. Len(shown'[r]) = i /\ \A j \in 1 .. i : shown'[r][j] = IF j = i THEN Rows[r][i] ELSE shown[r][j]
      BY <3>1, <3>5
    <3>7. \A j \in 1 .. Len(shown'[r]) : shown'[r][j] = Rows[r][j]
      <4>1. Len(shown[r]) \in Nat
        BY <3>1
      <4>2. \A j \in 1 .. Len(shown[r]) : shown[r][j] = Rows[r][j]
        BY <3>1 DEF Watched
      <4> QED  BY <3>6, <4>1, <4>2
    <3>8. Len(shown'[r]) <= next'[r]
      BY <2>1, <3>3, <3>6
    <3>9. Holds(r, slice'[r], heap', next'[r])
      BY <2>1, <3>2
    <3> QED  BY <3>1, <3>4, <3>7, <3>8, <3>9 DEF Watched
  <2> QED  BY <2>2, <2>3
<1>13. ASSUME NEW q \in Requests, EndShow(q), NEW r \in quiet' PROVE Watched(r)'
  <2>1. /\ pc[q] = "show" /\ pc' = [pc EXCEPT ![q] = "done"] /\ strayed' = {}
        /\ UNCHANGED <<notes, heap, next, shown, quiet>>
        /\ \A p \in Requests \ {q} : slice'[p] = slice[p]
        /\ Len(shown[q]) = slice[q].len
    BY <1>1, <1>13 DEF EndShow, Go
  <2>2. CASE r # q
    BY <1>1, <1>3, <1>13, <2>1, <2>2
  <2>3. CASE r = q
    <3>1. Watched(r) /\ pc'[r] = "done"
      BY <1>1, <1>2, <1>13, <2>1, <2>3
    <3>2. Len(shown[r]) = next[r]
      BY <2>1, <2>3, <3>1 DEF Watched, Holds
    <3> QED  BY <2>1, <3>1, <3>2 DEF Watched
  <2> QED  BY <2>2, <2>3
<1>14. CASE UNCHANGED vars
  BY <1>14 DEF vars, QuietInv, Watched
\* Nobody else becomes quiet, and nobody goes back to the start.
<1>15. ASSUME NEW q \in Requests, Disturb(q) \/ UNCHANGED quiet, NEW r \in quiet'
       PROVE  quiet' \subseteq {r}
  BY <1>4, <1>15 DEF QuietInv, Disturb
<1>16. ASSUME NEW q \in Requests, NEW l \in Labels \ {"start"}, pc' = [pc EXCEPT ![q] = l],
              \A p \in Requests \ {q} : next'[p] = next[p] /\ shown'[p] = shown[p]
       PROVE  \A r \in Requests : pc'[r] = "start" => next'[r] = 0 /\ shown'[r] = << >>
  <2>1. ASSUME NEW r \in Requests, pc'[r] = "start" PROVE next'[r] = 0 /\ shown'[r] = << >>
    <3>1. r # q /\ pc[r] = "start"
      BY <1>1, <1>16, <2>1
    <3> QED  BY <1>16, <3>1 DEF QuietInv
  <2> QED  BY <2>1
<1>17. ASSUME NEW q \in Requests,
              \/ Truncate(q) \/ StoreArray(q) \/ StoreBounds(q) \/ QueryFails(q)
              \/ LoadRow(q) \/ Return(q) \/ ShowNote(q) \/ EndShow(q)
       PROVE  \A r \in Requests : pc'[r] = "start" => next'[r] = 0 /\ shown'[r] = << >>
  <2>1. PICK l \in Labels \ {"start"} : pc' = [pc EXCEPT ![q] = l]
    BY <1>17 DEF Truncate, StoreArray, StoreBounds, QueryFails, LoadRow, Return,
        ShowNote, EndShow, Go, Labels
  <2>2. LoadRow(q) => \A p \in Requests \ {q} : next'[p] = next[p] /\ shown'[p] = shown[p]
    BY <1>1, LoadsRow DEF Appended, Stray
  <2>3. ~ LoadRow(q) => \A p \in Requests \ {q} : next'[p] = next[p] /\ shown'[p] = shown[p]
    BY <1>1, <1>17 DEF Truncate, StoreArray, StoreBounds, QueryFails, Return,
        ShowNote, EndShow, Stray
  <2> QED  BY <1>16, <2>1, <2>2, <2>3
<1>18. ASSUME NEW q \in Requests,
              \/ Truncate(q) \/ StoreArray(q) \/ StoreBounds(q) \/ QueryFails(q)
              \/ LoadRow(q) \/ Return(q) \/ ShowNote(q) \/ EndShow(q)
       PROVE  QuietInv'
  <2>1. ASSUME NEW r \in quiet' PROVE Watched(r)'
    BY <1>6, <1>7, <1>8, <1>9, <1>10, <1>11, <1>12, <1>13, <1>18
  <2>2. ASSUME NEW r \in quiet' PROVE quiet' \subseteq {r}
    <3>1. Truncate(q) \/ Disturb(q) \/ UNCHANGED quiet
      BY <1>18 DEF StoreArray, StoreBounds, QueryFails, LoadRow, Return, ShowNote, EndShow
    <3> QED  BY <1>6, <1>15, <3>1
  <2> QED  BY <1>17, <1>18, <2>1, <2>2 DEF QuietInv
<1> QED
  BY <1>14, <1>18 DEF Next, EndRows, RowFails

(* A list that no other load comes into shows the rows of its own query,     *)
(* from the first and in order, for any number of rows and whatever the      *)
(* requests before it left in the slice (LoadNotes, indexHandler).           *)
THEOREM QuietListsOwn == Spec => []QuietShowsOwn
<1>1. Init => QuietInv
  BY DEF Init, QuietInv
<1>2. TypeInv /\ QuietInv => QuietShowsOwn
  <2> SUFFICES ASSUME TypeInv, QuietInv PROVE QuietShowsOwn
    OBVIOUS
  <2>1. ASSUME NEW r \in quiet, pc[r] = "done", shown[r] # << >>
        PROVE  shown[r] = SubSeq(Rows[r], 1, next[r])
    <3>1. /\ r \in Requests /\ next[r] \in Nat /\ next[r] <= Len(Rows[r])
          /\ shown[r] \in Seq(Notes) /\ Rows[r] \in Seq(Notes)
      BY RowsAssumption DEF TypeInv, TypeOK
    <3>2. Len(shown[r]) = next[r] /\ \A i \in 1 .. next[r] : shown[r][i] = Rows[r][i]
      BY <2>1 DEF QuietInv, Watched
    <3>3. /\ SubSeq(Rows[r], 1, next[r]) \in Seq(Notes)
          /\ Len(SubSeq(Rows[r], 1, next[r])) = next[r]
          /\ \A i \in 1 .. next[r] : SubSeq(Rows[r], 1, next[r])[i] = Rows[r][i]
      BY <3>1
    <3> QED  BY <3>1, <3>2, <3>3, SeqEqual
  <2>2. quiet \cap strayed = {}
    BY DEF QuietInv, Watched
  <2> QED  BY <2>1, <2>2 DEF QuietShowsOwn
<1>3. TypeInv /\ QuietInv /\ [Next]_vars => TypeInv' /\ QuietInv'
  BY TypeStep, QuietStep
<1> QED  BY <1>1, <1>2, <1>3, TypeInit, PTL DEF Spec
==============================================================================
