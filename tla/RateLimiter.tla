----------------------------- MODULE RateLimiter -----------------------------
(***************************************************************************)
(* Flood protection of the comment endpoint (SlidingWindowRateLimiter in   *)
(* backend/comments/service.py): one deque per user, in the memory of the  *)
(* process.  A comment asks before anything of it is validated, so one     *)
(* that is refused later has spent its place all the same.                 *)
(*                                                                         *)
(* Time is the monotonic clock, in ticks; any number of calls may fall in  *)
(* one tick.                                                               *)
(***************************************************************************)
EXTENDS Integers, Sequences, FiniteSets

CONSTANTS
    Users,
    max_events,
    window_s

ASSUME LimitsAssumption == max_events \in Nat \ {0} /\ window_s \in Nat

VARIABLES
    now,        \* time.monotonic()
    events,     \* _events: user -> deque
    admitted    \* history: when each user's comments were let in by this process

limiter_vars == <<now, events, admitted>>

NoEvents == [u \in Users |-> <<>>]

LimiterInit == now = 0 /\ events = NoEvents /\ admitted = NoEvents

\* Variants whose window is a tick too short, and too long.
fresh_briefly(at) == now - at < window_s
fresh_long(at) == now - at <= window_s + 1

fresh(at) == now - at <= window_s

\* The loop at the head of allow() takes comments off the old end of a deque
\* for as long as there is one there that is not fresh: this many.
dropped(q) ==
    CHOOSE n \in 0 .. Len(q) : /\ \A i \in 1 .. n : ~fresh(q[i])
                               /\ n < Len(q) => fresh(q[n + 1])

pruned(u) == SubSeq(events[u], dropped(events[u]) + 1, Len(events[u]))

full(q) == Len(q) >= max_events

\* allow() says no: 429.
rejects(u) ==
    /\ full(pruned(u))
    /\ events' = [events EXCEPT ![u] = pruned(u)]
    /\ UNCHANGED <<now, admitted>>

\* allow() says yes.
allows(u) ==
    /\ ~full(pruned(u))
    /\ events' = [events EXCEPT ![u] = Append(pruned(u), now)]
    /\ admitted' = [admitted EXCEPT ![u] = Append(@, now)]
    /\ UNCHANGED now

tick ==
    /\ now' = now + 1
    /\ UNCHANGED <<events, admitted>>

\* The memory of a process that has died.
forgotten ==
    /\ events' = NoEvents
    /\ admitted' = NoEvents
    /\ UNCHANGED now

LimiterNext == tick \/ forgotten \/ \E u \in Users : rejects(u) \/ allows(u)

LimiterSpec == LimiterInit /\ [][LimiterNext]_limiter_vars

-----------------------------------------------------------------------------
(* Properties. *)

\* The limit holds in every window of a process's life, wherever it starts: of
\* max_events + 1 comments of a user in a row, the last comes more than
\* window_s after the first.
WindowHolds ==
    \A u \in Users : \A i \in 1 .. Len(admitted[u]) - max_events :
        admitted[u][i + max_events] - admitted[u][i] > window_s

\* Nobody is refused who did not have max_events comments let in during the
\* last window_s, whatever the others post.
RefusalsAreEarned ==
    \A u \in Users :
        full(pruned(u)) =>
            Cardinality({i \in 1 .. Len(admitted[u]) :
                            now - admitted[u][i] <= window_s}) >= max_events
=============================================================================
