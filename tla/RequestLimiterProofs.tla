------------------------ MODULE RequestLimiterProofs -------------------------
(***************************************************************************)
(* Proofs about RequestLimiter, for any number of handlers, any span and   *)
(* any movement of the clock.                                              *)
(***************************************************************************)
EXTENDS RequestLimiter, TLAPS

InThere(h) == at[h] # "out"

TypeInv ==
    /\ now \in Nat /\ clock \in Nat
    /\ lastRequestTime \in Nat \cup {MinTime}
    /\ at \in [Handlers -> {"out", "compare", "store"}]
    /\ currentTime \in [Handlers -> Nat]
    /\ came \in [Handlers -> Nat]
    /\ admitted \subseteq Nat
    /\ overlapped \in BOOLEAN
    /\ clockSet \subseteq {"back", "forth"}

(* How far the clock was from true time when h read it.                      *)
Drift(h) == currentTime[h] - came[h]

(* The request that stored lastRequestTime came at a; while the clock is not *)
(* set back, the clock has not lost time since, so that whoever came after   *)
(* it by true time came after it by the clock at least as long.              *)
NotBehind(a) ==
    /\ lastRequestTime - a <= clock - now
    /\ \A h \in Handlers :
        InThere(h) => came[h] <= a \/ lastRequestTime - a <= Drift(h)

HasteInv ==
    "back" \notin clockSet =>
        /\ \A h \in Handlers :
            InThere(h) => came[h] <= now /\ Drift(h) <= clock - now
        /\ \A g, h \in Handlers :
            InThere(g) /\ InThere(h) => came[h] <= came[g] \/ Drift(g) <= Drift(h)
        /\ lastRequestTime # MinTime => \E a \in admitted : NotBehind(a)

(* While requests come one at a time and the clock is not set forth, the     *)
(* clock has gained no time on any admitted request.                         *)
ApartInv ==
    /\ lastRequestTime = MinTime => admitted = {}
    /\ ~ overlapped => \A g, h \in Handlers : InThere(g) /\ InThere(h) => g = h
    /\ ~ overlapped /\ "forth" \notin clockSet =>
        /\ \A a \in admitted : clock - now <= lastRequestTime - a
        /\ \A h \in Handlers : InThere(h) =>
            /\ clock - now <= Drift(h)
            /\ \A a \in admitted : Drift(h) <= lastRequestTime - a
        /\ \A h \in Handlers : at[h] = "store" => ~ OneCameShortlyBefore(h)

------------------------------------------------------------------------------
LEMMA TypeInvInit == Init => TypeInv
<1> SUFFICES ASSUME Init PROVE TypeInv
  OBVIOUS
<1>1. overlapped \in BOOLEAN /\ clockSet \subseteq {"back", "forth"}
  BY Zenon DEF Init
<1>2. /\ at \in [Handlers -> {"out", "compare", "store"}]
      /\ currentTime \in [Handlers -> Nat]
      /\ came \in [Handlers -> Nat]
  BY DEF Init
<1> QED  BY <1>1, <1>2 DEF Init, TypeInv

LEMMA TypeInvStep == TypeInv /\ [Next]_vars => TypeInv'
<1> SUFFICES ASSUME TypeInv, [Next]_vars PROVE TypeInv'
  OBVIOUS
<1> USE DEF TypeInv, MinTime
<1>1. CASE Tick
  BY <1>1 DEF Tick
<1>2. ASSUME NEW time \in Nat, SetClock(time) PROVE TypeInv'
  BY <1>2 DEF SetClock
<1>3. ASSUME NEW h \in Handlers, ReadClock(h) PROVE TypeInv'
  BY <1>3 DEF ReadClock
<1>4. ASSUME NEW h \in Handlers, Refuse(h) PROVE TypeInv'
  BY <1>4 DEF Refuse, Leave
<1>5. ASSUME NEW h \in Handlers, Pass(h) PROVE TypeInv'
  BY <1>5 DEF Pass
<1>6. ASSUME NEW h \in Handlers, Admit(h) PROVE TypeInv'
  BY <1>6 DEF Admit, Leave
<1>7. CASE UNCHANGED vars
  BY <1>7 DEF vars
<1> QED  BY <1>1, <1>2, <1>3, <1>4, <1>5, <1>6, <1>7 DEF Next, tooManyRequests

------------------------------------------------------------------------------
LEMMA HasteInit == Init => HasteInv
  BY DEF Init, HasteInv, InThere

LEMMA HasteStep == TypeInv /\ HasteInv /\ [Next]_vars => HasteInv'
<1> SUFFICES ASSUME TypeInv, HasteInv, [Next]_vars, "back" \notin clockSet'
             PROVE  HasteInv'
  BY DEF HasteInv
<1> USE DEF TypeInv, HasteInv, InThere, Drift, NotBehind, MinTime
<1>1. CASE Tick
  BY <1>1 DEF Tick
<1>2. ASSUME NEW time \in Nat, SetClock(time) PROVE HasteInv'
  <2>1. "back" \notin clockSet /\ time > clock
    BY <1>2 DEF SetClock
  <2> QED  BY <1>2, <2>1 DEF SetClock
<1>3. ASSUME NEW h \in Handlers, ReadClock(h) PROVE HasteInv'
  BY <1>3 DEF ReadClock
<1>4. ASSUME NEW h \in Handlers, Refuse(h) PROVE HasteInv'
  BY <1>4 DEF Refuse, Leave
<1>5. ASSUME NEW h \in Handlers, Pass(h) PROVE HasteInv'
  BY <1>5 DEF Pass
<1>6. ASSUME NEW h \in Handlers, Admit(h) PROVE HasteInv'
  <2>1. /\ came[h] \in admitted'
        /\ lastRequestTime' - came[h] = Drift(h)
        /\ clock' - now' = clock - now
        /\ "back" \notin clockSet
    BY <1>6 DEF Admit, Leave
  <2>2. ASSUME NEW g \in Handlers, InThere(g)'
        PROVE  g # h /\ InThere(g) /\ came'[g] = came[g] /\ Drift(g)' = Drift(g)
    BY <1>6, <2>2 DEF Admit, Leave
  <2>3. ASSUME NEW g \in Handlers, InThere(g)'
        PROVE  came'[g] <= came[h] \/ lastRequestTime' - came[h] <= Drift(g)'
    BY <1>6, <2>1, <2>2, <2>3 DEF Admit
  <2>4. lastRequestTime' - came[h] <= clock' - now'
    BY <1>6, <2>1 DEF Admit
  <2> QED  BY <1>6, <2>1, <2>2, <2>3, <2>4 DEF Admit, Leave
<1>7. CASE UNCHANGED vars
  BY <1>7 DEF vars
<1> QED  BY <1>1, <1>2, <1>3, <1>4, <1>5, <1>6, <1>7 DEF Next, tooManyRequests

(* While the clock is not set back, a request is turned away only when one   *)
(* was admitted that came within Span before it or later, whatever races.    *)
THEOREM RefusalsInHaste == Spec => RefusedInHaste
<1>1. TypeInv /\ HasteInv /\ [Next]_vars =>
        [\A h \in Handlers :
            Refuse(h) /\ "back" \notin clockSet => OneCameShortlyBefore(h)]_vars
  <2> SUFFICES ASSUME TypeInv, HasteInv, NEW h \in Handlers, Refuse(h),
                      "back" \notin clockSet
               PROVE  OneCameShortlyBefore(h)
    OBVIOUS
  <2>1. PICK a \in admitted : NotBehind(a)
    BY DEF HasteInv, Refuse, TooSoon, MinTime, TypeInv
  <2>2. came[h] <= a \/ lastRequestTime - a <= Drift(h)
    BY <2>1 DEF NotBehind, InThere, Refuse
  <2>3. came[h] - a <= Span
    BY <2>2, SpanAssumption DEF TypeInv, Refuse, TooSoon, MinTime, Drift
  <2> QED  BY <2>3 DEF OneCameShortlyBefore
<1> QED
  BY TypeInvInit, TypeInvStep, HasteInit, HasteStep, <1>1, PTL DEF Spec, RefusedInHaste

------------------------------------------------------------------------------
LEMMA ApartInit == Init => ApartInv
  BY DEF Init, ApartInv, InThere

LEMMA ApartStep == TypeInv /\ ApartInv /\ [Next]_vars => ApartInv'
<1> SUFFICES ASSUME TypeInv, ApartInv, [Next]_vars PROVE ApartInv'
  OBVIOUS
<1> USE SpanAssumption DEF TypeInv, ApartInv, InThere, Drift, MinTime, OneCameShortlyBefore
<1>1. CASE Tick
  BY <1>1 DEF Tick
<1>2. ASSUME NEW time \in Nat, SetClock(time) PROVE ApartInv'
  <2>1. "forth" \notin clockSet' => "forth" \notin clockSet /\ time < clock
    BY <1>2 DEF SetClock
  <2> QED  BY <1>2, <2>1 DEF SetClock
<1>3. ASSUME NEW h \in Handlers, ReadClock(h) PROVE ApartInv'
  <2>1. ~ overlapped' => ~ overlapped /\ \A g \in Handlers : ~ InThere(g)
    BY <1>3, Zenon DEF ReadClock
  <2>2. \A g \in Handlers : g # h => at'[g] = at[g]
    BY <1>3 DEF ReadClock
  <2>3. ASSUME ~ overlapped' PROVE \A f, g \in Handlers : InThere(f)' /\ InThere(g)' => f = g
    BY <2>1, <2>2, <2>3
  <2>4. ASSUME ~ overlapped', "forth" \notin clockSet'
        PROVE  /\ Drift(h)' = clock - now /\ at'[h] = "compare"
               /\ \A a \in admitted : clock - now <= lastRequestTime - a
    BY <1>3, <2>1, <2>4 DEF ReadClock
  <2> QED  BY <1>3, <2>1, <2>2, <2>3, <2>4 DEF ReadClock
<1>4. ASSUME NEW h \in Handlers, Refuse(h) PROVE ApartInv'
  BY <1>4 DEF Refuse, Leave
<1>5. ASSUME NEW h \in Handlers, Pass(h) PROVE ApartInv'
  BY <1>5 DEF Pass, TooSoon
<1>6. ASSUME NEW h \in Handlers, Admit(h) PROVE ApartInv'
  BY <1>6 DEF Admit, Leave
<1>7. CASE UNCHANGED vars
  BY <1>7 DEF vars
<1> QED  BY <1>1, <1>2, <1>3, <1>4, <1>5, <1>6, <1>7 DEF Next, tooManyRequests

(* As long as requests come one after the other and the clock is not set     *)
(* forth, an admitted request came more than Span after all the others.      *)
THEOREM AdmissionsApart == Spec => AloneAdmittedApart
<1>1. ApartInv /\ [Next]_vars =>
        [\A h \in Handlers :
            Admit(h) /\ ~ overlapped /\ "forth" \notin clockSet
                => ~ OneCameShortlyBefore(h)]_vars
  BY DEF ApartInv, Admit
<1> QED
  BY TypeInvInit, TypeInvStep, ApartInit, ApartStep, <1>1, PTL DEF Spec, AloneAdmittedApart
==============================================================================
