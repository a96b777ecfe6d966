------------------------------- MODULE EventStore -------------------------------
(***************************************************************************)
(* EventStore (src/include/mcp/transport/http_server.hpp): the last events   *)
(* of a session, kept so that a client which lost its stream can ask for     *)
(* what it missed.  An event is its number; a store is a value.              *)
(***************************************************************************)
EXTENDS Naturals, Sequences

EmptyStore == [events |-> <<>>, next |-> 0]

\* events_.size() > capacity_
TooMany(events, capacity) == Len(events) > capacity

\* append: the next id, and the oldest events dropped while there are too many.
AppendEvent(store, capacity) ==
    LET events == Append(store.events, store.next + 1)
    IN [events |-> IF TooMany(events, capacity)
                   THEN SubSeq(events, Len(events) - capacity + 1, Len(events)) ELSE events,
        next |-> store.next + 1]

\* Mutant: an id that was evicted counts as the oldest one kept.
EventsFromOldest(store, last) ==
    {SelectSeq(store.events, LAMBDA event : event > last)}

\* events_after, a std::optional: what is stored behind the id, {} for an id that is
\* not, or no longer, stored.
EventsAfter(store, last) ==
    IF store.events = <<>> THEN {<<>>}
    ELSE {SubSeq(store.events, i + 1, Len(store.events)) :
              i \in {j \in DOMAIN store.events : store.events[j] = last}}

\* The events a client that last saw `last` has missed.
Missed(store, last) == [i \in 1..(store.next - last) |-> last + i]
=============================================================================
