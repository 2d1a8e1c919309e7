-------------------------- MODULE MCRequestLimiter ---------------------------
(* Small instances of RequestLimiter: the time that passes is bounded, and   *)
(* the clock is set at most once in each direction.                          *)
EXTENDS RequestLimiter, TLC

CONSTANTS
    MaxTime,     \* how long the server is watched
    StartTime,   \* what the clock shows at first
    ClockMoves   \* the directions in which the clock may be set

MCInit == clock = StartTime /\ Init

MCSetClock(time) ==
    /\ SetClock(time)
    /\ clockSet' # clockSet
    /\ clockSet' \subseteq ClockMoves

MCNext ==
    \/ now < MaxTime /\ Tick
    \/ \E time \in 0 .. StartTime + MaxTime : MCSetClock(time)
    \/ \E h \in Handlers : tooManyRequests(h)

MCSpec == MCInit /\ [][MCNext]_vars

HandlerSymmetry == Permutations(Handlers)
==============================================================================
