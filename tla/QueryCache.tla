----------------------------- MODULE QueryCache -----------------------------
(***************************************************************************)
(* The manager's cache of server data: the entries of React Query, by key, *)
(* as lib/queries uses them.  A key is <<name, number>>: invalidation goes *)
(* by the name, the number is what the hook adds to it.                    *)
(***************************************************************************)
EXTENDS Naturals, FiniteSets, TLC

VARIABLE cache  \* the entries: a function whose domain is the keys that have one

\* data and answer are <<>> or <<value>>; a fetch that is replaced by another one is dropped.
Absent == [data |-> <<>>, stale |-> FALSE, fetch |-> "idle", answer |-> <<>>, arg |-> 0]
At(c, key) == IF key \in DOMAIN c THEN c[key] ELSE Absent
Loading(entry) == entry.data = <<>> /\ entry.fetch # "idle"
InFlight == {key \in DOMAIN cache : cache[key].fetch # "idle"}

\* A request of the query's function for arg. A first load that is under way is joined; another
\* one is cancelled.
Fetch(entry, arg) ==
    IF Loading(entry) THEN entry
    ELSE [entry EXCEPT !.fetch = "sent", !.answer = <<>>, !.arg = arg]

\* useQuery, when it starts to observe an entry.
Observe(c, keys, arg) ==
    [key \in keys |->
        LET e == At(c, key)
        IN IF e.fetch = "idle" /\ (e.data = <<>> \/ e.stale) THEN Fetch(e, arg) ELSE e] @@ c

\* refetch() of a component, whether or not it is still there.
Refetch(c, key, arg) == (key :> Fetch(At(c, key), arg)) @@ c

\* invalidateQueries: what is observed is fetched at once, the rest when it is next observed.
Invalidate(c, names, observed, arg) ==
    [key \in {k \in DOMAIN c : k[1] \in names} |->
        LET e == [c[key] EXCEPT !.stale = TRUE]
        IN IF key \in observed THEN Fetch(e, arg) ELSE e] @@ c

Served(entry, value) == [entry EXCEPT !.fetch = "answered", !.answer = <<value>>]

Settle(entry) == [entry EXCEPT !.data = entry.answer, !.stale = FALSE, !.fetch = "idle", !.answer = <<>>]

\* Three retries have failed, too: the data and the mark stay.
GiveUp(entry) == [entry EXCEPT !.fetch = "idle", !.answer = <<>>]
=============================================================================
