---------------------------- MODULE StatusBroker ----------------------------
(***************************************************************************)
(* The in-process broker of thread updates (backend/pubsub.py): numbered   *)
(* events, the last History of them in a ring for clients that reconnect.  *)
(*                                                                         *)
(* An event carries the thread as it was when it was published; the model  *)
(* keeps the thread's name and the number of that version.                 *)
(***************************************************************************)
EXTENDS Integers, Sequences

CONSTANT History

ASSUME HistoryAssumption == History \in Nat \ {0}

NewBroker == [events |-> <<>>, next_id |-> 1]

\* deque(maxlen=History)
push(ring, ev) == LET all == Append(ring, ev)
                  IN IF Len(all) > History THEN Tail(all) ELSE all

publish(b, ev) ==
    [events |-> push(b.events, [ev EXCEPT !.id = b.next_id]), next_id |-> b.next_id + 1]

\* replay_since answers with events, or asks the client to resync.
Resync == [resync |-> TRUE, events |-> <<>>]
Missed(events) == [resync |-> FALSE, events |-> events]

\* Variant that overlooks one evicted event.
replay_since_late(b, last_id) ==
    LET Newer(ev) == ev.id > last_id IN
    IF b.events = <<>>
    THEN IF last_id > 0 THEN Resync ELSE Missed(<<>>)
    ELSE IF last_id + 2 < Head(b.events).id
         THEN Resync
         ELSE Missed(SelectSeq(b.events, Newer))

replay_since(b, last_id) ==
    LET Newer(ev) == ev.id > last_id IN
    IF b.events = <<>>
    THEN IF last_id > 0 THEN Resync ELSE Missed(<<>>)
    ELSE IF last_id + 1 < Head(b.events).id
         THEN Resync
         ELSE Missed(SelectSeq(b.events, Newer))
=============================================================================
