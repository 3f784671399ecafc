--------------------------- MODULE MCRateLimiter ---------------------------
(* RateLimiter for TLC.  The views leave out what no later step and no      *)
(* property can read: objects no request and no cache entry refers to, and  *)
(* what is left of requests that are over.                                  *)
EXTENDS RateLimiter, TLC

Symmetry == Permutations(Requests) \cup Permutations(Ids)

InFlight(r) == pc[r] \in Live \cup {"idle"}

Reachable(o) == \/ \E id \in Ids : local[id] = o
                \/ \E r \in Requests : pc[r] \in Live /\ ref[r] = o
                \/ pc[o] = "loaded"

\* The requests the history properties speak of; Verdicts is the set of
\* verdicts they look at.
Counts(r, Verdicts) == /\ pc[r] \in {"checked", "done"} /\ serial[rid[r]]
                       /\ result[r].allowed \in Verdicts

ViewOf(Verdicts) ==
  <<now, redisUp, local, order, redis, serial,
    [r \in Requests |->
       <<IF Reachable(r) THEN heap[r] ELSE Nil,
         IF InFlight(r) \/ Counts(r, Verdicts) THEN <<pc[r], rid[r]>> ELSE Nil,
         IF pc[r] \in Live THEN <<ref[r], orphan[r]>> ELSE Nil,
         IF Counts(r, Verdicts) THEN result[r] ELSE Nil>>]>>

\* Past the point where no identifier is serial the properties that speak of
\* serial identifiers say nothing.
SomeSerial == \E id \in Ids : serial[id]

WindowView == ViewOf({TRUE})
BucketView == ViewOf({TRUE, FALSE})
=============================================================================
