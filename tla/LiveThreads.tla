---------------------------- MODULE LiveThreads ----------------------------
(***************************************************************************)
(* How one open page follows the threads: the broker, the SSE endpoint     *)
(* (backend/routes/events.py), the browser's EventSource, and the hook     *)
(* that merges the stream with REST refreshes (frontend/hooks/useThreads,  *)
(* frontend/lib/api.ts).                                                   *)
(*                                                                         *)
(* Threads change on the server; most changes are published in the same    *)
(* turn of the loop, some (the compare-and-swap of an approval) are not.   *)
(* Frames travel in order on a connection and are lost with it.  A refresh *)
(* is answered outside the loop, by a thread of the server's pool: it      *)
(* reads which threads there are, then one thread after the other, while   *)
(* they go on changing, and two refreshes may answer in any order.         *)
(***************************************************************************)
EXTENDS StatusBroker, FiniteSets

CONSTANTS
    Threads,
    RelevantFrom,   \* the version from which a thread concerns this page: 1
                    \* for the page's own, later for the page of a preview
    Fetches,        \* the REST refreshes the page may have under way
    MaxChanges,     \* bounds: changes of threads
    MaxLosses,      \*         lost connections and failed refreshes
    MaxRestarts     \*         restarts of the backend

ASSUME RelevantAssumption == RelevantFrom \in [Threads -> Nat \ {0}]
ASSUME BoundsAssumption == {MaxChanges, MaxLosses, MaxRestarts} \subseteq Nat

VARIABLES
    versions,   \* versions[t]: how often the thread changed; 0: not created
    broker,     \* StatusBroker
    conn,       \* the server's side of the page's stream
    wire,       \* frames under way to the browser
    page,       \* the browser: the last event id and the threads shown
    fetches,    \* the refreshes under way
    log,        \* history: every event published
    seen,       \* history: what the page can count on having seen
    used        \* how much of the bounds is used up

vars == <<versions, broker, conn, wire, page, fetches, log, seen, used>>

NoId == 0

\* The threads a list for this page holds, with the version it shows.
relevant(t, version) == version >= RelevantFrom[t]
listed(vs) == [t \in Threads |-> IF relevant(t, vs[t]) THEN vs[t] ELSE 0]

NoConn == [stage |-> "none", last_id |-> NoId, sent_until |-> 0, queue |-> <<>>]

\* A refresh: not under way, requested, or being answered: the threads that
\* are still to be read, and the versions read.
IdleFetch == [stage |-> "idle", unread |-> {}, list |-> [t \in Threads |-> 0]]
SentFetch == [IdleFetch EXCEPT !.stage = "sent"]
answered(f) == fetches[f].stage = "listing" /\ fetches[f].unread = {}

\* Frames.
OpenFrame == [kind |-> "open", ev |-> <<>>]
ResetFrame == [kind |-> "reset", ev |-> <<>>]
EventFrame(ev) == [kind |-> "event", ev |-> ev]

\* The page has yet to see its first event, or was told to resync.
Afresh == [epoch |-> 0, id |-> 0]

Init ==
    /\ versions = [t \in Threads |-> 0]
    /\ broker = NewBroker
    /\ conn = NoConn
    /\ wire = <<>>
    /\ page = [last_id |-> NoId, threads |-> [t \in Threads |-> 0]]
    /\ fetches = [f \in Fetches |-> IdleFetch]
    /\ log = {}
    /\ seen = Afresh
    /\ used = [changes |-> 0, losses |-> 0, restarts |-> 0]

-----------------------------------------------------------------------------
(* The server. *)

changes(t) ==
    /\ used.changes < MaxChanges
    /\ versions' = [versions EXCEPT ![t] = @ + 1]
    /\ used' = [used EXCEPT !.changes = @ + 1]

\* publish_state: the change and its event in one turn.
publishes(t) ==
    /\ changes(t)
    /\ LET ev == [id |-> broker.next_id, epoch |-> used.restarts,
                  thread |-> t, version |-> versions[t] + 1]
       IN /\ broker' = publish(broker, ev)
          /\ conn' = IF conn.stage = "none" THEN conn
                     ELSE [conn EXCEPT !.queue = Append(@, ev)]
          /\ log' = log \cup {ev}
    /\ UNCHANGED <<wire, page, fetches, seen>>

\* AgentRunner.approve: the status changes, no event tells.
changes_silently(t) ==
    /\ changes(t)
    /\ versions[t] > 0
    /\ UNCHANGED <<broker, conn, wire, page, fetches, log, seen>>

\* The endpoint, entered by the browser's GET: it subscribes.
connects ==
    /\ conn.stage = "none"
    /\ conn' = [NoConn EXCEPT !.stage = "accepted", !.last_id = page.last_id]
    /\ UNCHANGED <<versions, broker, wire, page, fetches, log, seen, used>>

\* The frames of those of the events that concern the page.
Frames(events) ==
    LET Concerns(ev) == relevant(ev.thread, ev.version)
        for_page == SelectSeq(events, Concerns)
    IN [i \in 1 .. Len(for_page) |-> EventFrame(for_page[i])]

\* stream(): the generator's first stretch, up to its wait for the queue.
begins_stream ==
    /\ conn.stage = "accepted"
    /\ LET answer == replay_since(broker, conn.last_id)
           replays == conn.last_id # NoId
           missed == IF replays THEN answer.events ELSE <<>>
       IN /\ wire' = wire \o <<OpenFrame>>
                     \o (IF replays /\ answer.resync THEN <<ResetFrame>> ELSE <<>>)
                     \o Frames(missed)
          /\ conn' = [conn EXCEPT !.stage = "streaming",
                                  !.sent_until = IF missed = <<>> THEN 0
                                                 ELSE missed[Len(missed)].id]
    /\ UNCHANGED <<versions, broker, page, fetches, log, seen, used>>

\* "already covered by the replay"
covered(ev) == ev.id <= conn.sent_until

\* One event off the queue.
streams ==
    /\ conn.stage = "streaming" /\ conn.queue # <<>>
    /\ LET ev == Head(conn.queue) IN
        IF covered(ev)
        THEN /\ conn' = [conn EXCEPT !.queue = Tail(@)]
             /\ UNCHANGED wire
        ELSE /\ conn' = [conn EXCEPT !.queue = Tail(@), !.sent_until = ev.id]
             /\ wire' = wire \o Frames(<<ev>>)
    /\ UNCHANGED <<versions, broker, page, fetches, log, seen, used>>

\* The process is replaced: ring, ids and connections are gone.
restarts ==
    /\ used.restarts < MaxRestarts
    /\ used' = [used EXCEPT !.restarts = @ + 1]
    /\ broker' = NewBroker
    /\ conn' = NoConn
    /\ wire' = <<>>
    /\ fetches' = [f \in Fetches |->
                    IF answered(f) THEN fetches[f] ELSE IdleFetch]
    /\ UNCHANGED <<versions, page, log, seen>>

-----------------------------------------------------------------------------
(* The network and the browser. *)

loses_connection ==
    /\ used.losses < MaxLosses
    /\ conn.stage # "none"
    /\ used' = [used EXCEPT !.losses = @ + 1]
    /\ conn' = NoConn
    /\ wire' = <<>>
    /\ UNCHANGED <<versions, broker, page, fetches, log, seen>>

\* refresh(), on mount, onopen, on a reset, and every 15 s.
requested(f) == [fetches EXCEPT ![f] = SentFetch]
IdleFetches == {f \in Fetches : fetches[f].stage = "idle"}

\* onopen, and the listener of "reset".
resyncs ==
    /\ wire # <<>> /\ Head(wire).kind \in {"open", "reset"}
    /\ \E f \in IdleFetches : fetches' = requested(f)
    /\ wire' = Tail(wire)
    /\ seen' = IF Head(wire).kind = "reset" THEN Afresh ELSE seen
    /\ UNCHANGED <<versions, broker, conn, page, log, used>>

\* onmessage
receives ==
    /\ wire # <<>> /\ Head(wire).kind = "event"
    /\ LET ev == Head(wire).ev IN
        /\ page' = [last_id |-> ev.id, threads |-> [page.threads EXCEPT ![ev.thread] = ev.version]]
        /\ seen' = [epoch |-> ev.epoch, id |-> ev.id]
    /\ wire' = Tail(wire)
    /\ UNCHANGED <<versions, broker, conn, fetches, log, used>>

\* Variant without the slow poll.
polls_never(f) == FALSE /\ UNCHANGED vars

polls(f) ==
    /\ f \in IdleFetches
    /\ fetches' = requested(f)
    /\ UNCHANGED <<versions, broker, conn, wire, page, log, seen, used>>

\* GET /api/threads: the ids.
existing(vs) == {t \in Threads : vs[t] > 0}

lists(f) ==
    /\ fetches[f].stage = "sent"
    /\ fetches' = [fetches EXCEPT ![f].stage = "listing", ![f].unread = existing(versions)]
    /\ UNCHANGED <<versions, broker, conn, wire, page, log, seen, used>>

\* The thread of one id.
reads(f) ==
    /\ fetches[f].stage = "listing"
    /\ \E t \in fetches[f].unread :
        fetches' = [fetches EXCEPT ![f].unread = @ \ {t},
                                   ![f].list[t] = listed(versions)[t]]
    /\ UNCHANGED <<versions, broker, conn, wire, page, log, seen, used>>

\* setThreads, once every thread is read and the answer is here.
shows(f) ==
    /\ answered(f)
    /\ page' = [page EXCEPT !.threads = fetches[f].list]
    /\ fetches' = [fetches EXCEPT ![f] = IdleFetch]
    /\ UNCHANGED <<versions, broker, conn, wire, log, seen, used>>

\* catch(() => {})
fetch_fails(f) ==
    /\ used.losses < MaxLosses
    /\ fetches[f].stage # "idle"
    /\ fetches' = [fetches EXCEPT ![f] = IdleFetch]
    /\ used' = [used EXCEPT !.losses = @ + 1]
    /\ UNCHANGED <<versions, broker, conn, wire, page, log, seen>>

-----------------------------------------------------------------------------
Next ==
    \/ \E t \in Threads : publishes(t) \/ changes_silently(t)
    \/ connects \/ begins_stream \/ streams \/ restarts
    \/ loses_connection \/ resyncs \/ receives
    \/ \E f \in Fetches : polls(f) \/ lists(f) \/ reads(f) \/ shows(f) \/ fetch_fails(f)

Spec == Init /\ [][Next]_vars

\* The loop serves, the browser handles what arrives, the poll's timer fires,
\* a refresh is answered.  Nothing is assumed of the event stream.
Fairness ==
    /\ WF_vars(begins_stream) /\ WF_vars(streams)
    /\ WF_vars(resyncs) /\ WF_vars(receives)
    /\ WF_vars(\E f \in Fetches : polls(f))
    /\ \A f \in Fetches : WF_vars(lists(f) \/ reads(f) \/ shows(f))

FairSpec == Spec /\ Fairness

-----------------------------------------------------------------------------
(* Properties. *)

\* The events that concern the page and fall between what it has seen and ev.
Between(ev) ==
    {e \in log : /\ relevant(e.thread, e.version)
                 /\ e.epoch = ev.epoch /\ e.id < ev.id
                 /\ e.epoch = seen.epoch => e.id > seen.id}

Receiving == receives /\ seen # Afresh

\* "nothing published in between is lost", and nothing comes twice: from one
\* event to the next, over lost connections, replays and the overlap of a
\* replay with the queue, the page sees every event, once, unless it is told
\* to resync.
NothingSkipped ==
    [][Receiving =>
        LET ev == Head(wire).ev IN
        ev.epoch = seen.epoch => ev.id > seen.id /\ Between(ev) = {}]_vars

\* The same over a restart of the backend: the gap "can't be verified", so
\* the page must have been told to resync.  (It is not when the new process
\* has published already.)
NothingSkippedAfterRestart ==
    [][Receiving => Between(Head(wire).ev) = {}]_vars

\* "never wedge stale": once the threads rest, the page comes to show them as
\* they are, for good, even if the stream never does its part.
EventuallyCurrent == <>[](page.threads = listed(versions))
=============================================================================
