--------------------------- MODULE RequestLimiter ----------------------------
(***************************************************************************)
(* tooManyRequests of src/shareNotes.go, which every handler asks first:   *)
(* a request is turned away when another one was admitted within the last  *)
(* TOO_MANY_REQUEST_TIME_SPAN_IN_NS.                                       *)
(*                                                                         *)
(* lastRequestTime is shared by all goroutines without a lock: a request   *)
(* reads the clock, compares, and stores, and others come between.  The    *)
(* two reads of lastRequestTime in the comparison are one step: it never   *)
(* becomes math.MinInt64 again.                                            *)
(*                                                                         *)
(* time.Now() is the system's clock, which may be set while the server     *)
(* runs; now is the time that really passed.                               *)
(***************************************************************************)
EXTENDS Integers

CONSTANTS
    Handlers,    \* the goroutines that serve requests
    Span         \* TOO_MANY_REQUEST_TIME_SPAN_IN_NS

ASSUME SpanAssumption == Span \in Nat

VARIABLES
    now,               \* (history) the time that passed
    clock,             \* what time.Now() returns
    lastRequestTime,
    at,                \* at[h]: where handler h stands in tooManyRequests
    currentTime,       \* currentTime[h]: its local variable
    came,              \* (history) came[h]: when it read the clock, in true time
    admitted,          \* (history) when the admitted requests came
    overlapped,        \* (history) two requests were once in here together
    clockSet           \* (history) how the clock was set, if it was

vars == <<now, clock, lastRequestTime, at, currentTime, came, admitted,
          overlapped, clockSet>>

\* math.MinInt64, which is less than any time of the clock.
MinTime == -1

------------------------------------------------------------------------------
Init ==
    /\ now = 0
    /\ clock \in Nat
    /\ lastRequestTime = MinTime
    /\ at = [h \in Handlers |-> "out"]
    /\ currentTime = [h \in Handlers |-> 0]
    /\ came = [h \in Handlers |-> 0]
    /\ admitted = {}
    /\ overlapped = FALSE
    /\ clockSet = {}

Tick ==
    /\ now' = now + 1
    /\ clock' = clock + 1
    /\ UNCHANGED <<lastRequestTime, at, currentTime, came, admitted, overlapped, clockSet>>

SetClock(time) ==
    /\ time # clock
    /\ clock' = time
    /\ clockSet' = clockSet \cup {IF time < clock THEN "back" ELSE "forth"}
    /\ UNCHANGED <<now, lastRequestTime, at, currentTime, came, admitted, overlapped>>

ReadClock(h) ==
    /\ at[h] = "out"
    /\ currentTime' = [currentTime EXCEPT ![h] = clock]
    /\ came' = [came EXCEPT ![h] = now]
    /\ at' = [at EXCEPT ![h] = "compare"]
    /\ overlapped' = (overlapped \/ \E g \in Handlers : at[g] # "out")
    /\ UNCHANGED <<now, clock, lastRequestTime, admitted, clockSet>>

\* The function returns; its local variable is gone.
Leave(h) ==
    /\ at' = [at EXCEPT ![h] = "out"]
    /\ currentTime' = [currentTime EXCEPT ![h] = 0]
    /\ came' = [came EXCEPT ![h] = 0]

\* (mutant) the span itself is no longer too soon
SpanExcluded(h) ==
    lastRequestTime > MinTime /\ currentTime[h] - lastRequestTime < Span

TooSoon(h) ==
    lastRequestTime > MinTime /\ currentTime[h] - lastRequestTime <= Span

\* (mutant) a request that is turned away counts as the last one
RefuseAndRecord(h) ==
    /\ at[h] = "compare"
    /\ TooSoon(h)
    /\ Leave(h)
    /\ lastRequestTime' = currentTime[h]
    /\ UNCHANGED <<now, clock, admitted, overlapped, clockSet>>

\* The answer is 429.
Refuse(h) ==
    /\ at[h] = "compare"
    /\ TooSoon(h)
    /\ Leave(h)
    /\ UNCHANGED <<now, clock, lastRequestTime, admitted, overlapped, clockSet>>

Pass(h) ==
    /\ at[h] = "compare"
    /\ ~ TooSoon(h)
    /\ at' = [at EXCEPT ![h] = "store"]
    /\ UNCHANGED <<now, clock, lastRequestTime, currentTime, came, admitted, overlapped,
                   clockSet>>

Admit(h) ==
    /\ at[h] = "store"
    /\ lastRequestTime' = currentTime[h]
    /\ admitted' = admitted \cup {came[h]}
    /\ Leave(h)
    /\ UNCHANGED <<now, clock, overlapped, clockSet>>

tooManyRequests(h) == ReadClock(h) \/ Refuse(h) \/ Pass(h) \/ Admit(h)

Next ==
    \/ Tick
    \/ \E time \in Nat : SetClock(time)
    \/ \E h \in Handlers : tooManyRequests(h)

Spec == Init /\ [][Next]_vars

------------------------------------------------------------------------------
\* Some request was admitted that came no longer than Span before h, or since.
OneCameShortlyBefore(h) == \E a \in admitted : came[h] - a <= Span

(* While the clock is not set back, a request is turned away only when one   *)
(* was admitted that came within Span before it or later: requests that are  *)
(* turned away never keep others out, whatever races.  (tooManyRequests      *)
(* stores the time of admitted requests only.)                               *)
RefusedInHaste ==
    [][\A h \in Handlers :
        Refuse(h) /\ "back" \notin clockSet => OneCameShortlyBefore(h)]_vars

(* As long as requests come one after the other and the clock is not set     *)
(* forward, an admitted request came more than Span after all the others.    *)
AloneAdmittedApart ==
    [][\A h \in Handlers :
        Admit(h) /\ ~ overlapped /\ "forth" \notin clockSet => ~ OneCameShortlyBefore(h)]_vars
==============================================================================
