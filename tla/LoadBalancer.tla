---------------------------- MODULE LoadBalancer ----------------------------
(***************************************************************************)
(* The GlobalRequestLoadBalancer actor: requests go to the server their    *)
(* conversation used before, or else to a least-loaded one.  The actor     *)
(* runs one call at a time, so each operation is a function from one state *)
(* of the balancer to the next.  Its state is a record:                    *)
(*   inflight   requests charged to each server; its domain is the pool    *)
(*   route      the cached server of a conversation                        *)
(*   age        how many other conversations used the cache since this one *)
(***************************************************************************)
EXTENDS Integers, Functions

CONSTANT CacheSize     \* max_cache_size of the routing cache

ASSUME CacheSizeAssumption == CacheSize \in Nat \ {0}

Balancer(pool) == [inflight |-> [s \in pool |-> 0],
                   route |-> [r \in {} |-> 0],
                   age |-> [r \in {} |-> 0]]

Pool(b) == DOMAIN b.inflight

Sticky(b, r) == r \in DOMAIN b.route /\ b.route[r] \in Pool(b)

LeastLoaded(b) ==
    {s \in Pool(b) : \A t \in Pool(b) : b.inflight[s] <= b.inflight[t]}

\* The servers acquire_server may return.  Which of several least-loaded ones
\* it takes depends on the insertion order of a dict and is left open.
Candidates(b, r) == IF Sticky(b, r) THEN {b.route[r]} ELSE LeastLoaded(b)

\* LRUCache: reading or writing an entry makes it the most recent one, and a
\* new entry in a full cache evicts the least recent one.
Remember(b, r, s) ==
    LET Aged(x) == IF r \in DOMAIN b.age /\ b.age[r] < b.age[x] THEN b.age[x]
                   ELSE b.age[x] + 1
        kept    == {x \in DOMAIN b.age \ {r} : Aged(x) < CacheSize}
    IN  [b EXCEPT !.age = [x \in kept \cup {r} |-> IF x = r THEN 0 ELSE Aged(x)],
                  !.route = [x \in kept \cup {r} |-> IF x = r THEN s ELSE b.route[x]]]

AcquireServer(b, r, s) ==
    Remember([b EXCEPT !.inflight[s] = @ + 1], r, s)

\* Fault: the release of the request's server is lost.
ReleaseServerLost(b, s) == b

\* The count of a server that left and came back may be lower than the number
\* of releases still to come, hence the floor.
ReleaseServer(b, s) ==
    IF s \in Pool(b) /\ b.inflight[s] > 0
      THEN [b EXCEPT !.inflight[s] = @ - 1]
      ELSE b

\* A server that is added starts at zero whatever it is still working on.
AddServers(b, S) ==
    [b EXCEPT !.inflight = [s \in Pool(b) \cup S |->
                                IF s \in S THEN 0 ELSE b.inflight[s]]]

RemoveServers(b, S) ==
    [b EXCEPT !.inflight = [s \in Pool(b) \ S |-> b.inflight[s]]]
=============================================================================
