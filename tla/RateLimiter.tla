----------------------------- MODULE RateLimiter -----------------------------
(***************************************************************************)
(* The API's sliding-window rate limiter (api/deps.py, RateLimiter and     *)
(* rate_limit).  Every key, a path with a client, has a deque of the times *)
(* of its accepted requests; expired ones are popped when the key is       *)
(* checked, and every CleanEvery accepted requests the keys with nothing   *)
(* left are deleted.  A deleted key is an empty deque.                     *)
(***************************************************************************)
EXTENDS Naturals, Sequences, FiniteSets

CONSTANTS
  Keys,
  Limit,        \* max_requests of each key: 30 for the auth paths, 60 otherwise
  Window,       \* window_seconds
  CleanEvery,   \* 1000
  MaxTime       \* bound on the clock

ASSUME LimiterAssumption ==
  /\ Limit \in [Keys -> Nat \ {0}]
  /\ Window \in Nat \ {0} /\ CleanEvery \in Nat \ {0} /\ MaxTime \in Nat

VARIABLES
  rNow,     \* the monotonic clock
  rHits,    \* _hits
  rCount,   \* _check_count, modulo CleanEvery
  rLog      \* history: the times of all accepted requests

rVars == <<rNow, rHits, rCount, rLog>>

LimiterInit ==
  /\ rNow = 0
  /\ rHits = [k \in Keys |-> <<>>]
  /\ rCount = 0
  /\ rLog = [k \in Keys |-> <<>>]

Expired(t) == t + Window <= rNow

\* What is left of a deque when hits[0] has been popped as long as it had expired.
Popped(hits) ==
  CHOOSE n \in 0 .. Len(hits) : /\ \A i \in 1 .. n : Expired(hits[i])
                                /\ n < Len(hits) => ~Expired(hits[n + 1])
Current(hits) == SubSeq(hits, Popped(hits) + 1, Len(hits))

\* _cleanup: keys whose last hit has expired.
Stale(hits) == hits = <<>> \/ Expired(hits[Len(hits)])

Cleaned(all) == [k \in Keys |-> IF Stale(all[k]) THEN <<>> ELSE all[k]]

CheckAccepts(k) ==
  /\ Len(Current(rHits[k])) < Limit[k]
  /\ LET hits == [rHits EXCEPT ![k] = Append(Current(@), rNow)]
     IN  rHits' = IF rCount + 1 = CleanEvery THEN Cleaned(hits) ELSE hits
  /\ rCount' = (rCount + 1) % CleanEvery
  /\ rLog' = [rLog EXCEPT ![k] = Append(@, rNow)]
  /\ UNCHANGED rNow

CheckRefuses(k) ==
  /\ Len(Current(rHits[k])) >= Limit[k]
  /\ rHits' = [rHits EXCEPT ![k] = Current(@)]
  /\ UNCHANGED <<rNow, rCount, rLog>>

LimiterTick ==
  /\ rNow < MaxTime
  /\ rNow' = rNow + 1
  /\ UNCHANGED <<rHits, rCount, rLog>>

LimiterNext == LimiterTick \/ \E k \in Keys : CheckAccepts(k) \/ CheckRefuses(k)

LimiterSpec == LimiterInit /\ [][LimiterNext]_rVars

-----------------------------------------------------------------------------
\* The limiter neither forgets a request inside the window nor counts an expired
\* one, whichever keys the clean-up of another key's request deletes: it counts
\* for a key as many requests as were accepted within the window, and these never
\* exceed the key's limit (RateLimiter.check, _cleanup).
AcceptedInWindow(k) == {i \in DOMAIN rLog[k] : ~Expired(rLog[k][i])}
WindowExact ==
  \A k \in Keys : /\ Len(Current(rHits[k])) = Cardinality(AcceptedInWindow(k))
                  /\ Cardinality(AcceptedInWindow(k)) <= Limit[k]
=============================================================================
