---------------------------- MODULE RateLimiter ----------------------------
(***************************************************************************)
(* The limit on requests kept in memory (pkg/utils/ratelimit/in_memory.go, *)
(* middleware/rate-limit.go): of each address and each kind of request the *)
(* times of the last that passed, in whole seconds, and a cleaner that     *)
(* forgets who has been quiet for long.                                    *)
(*                                                                         *)
(* Request and cleaner hold the mutex from beginning to end, so each is a  *)
(* step.  The limiter in Redis, which asks and pushes in separate calls,   *)
(* is not modelled.                                                        *)
(***************************************************************************)
EXTENDS Integers, Sequences

CONSTANTS
  LimitKeys,      \* kinds of requests of addresses
  maxRequestNum,  \* key -> requests that may pass
  duration,       \* key -> in so many seconds
  expiration,     \* expirationDuration, RateLimitKeyExpirationDuration
  MaxPassed,      \* bound: requests that pass, of a key
  MaxSeconds      \* bound: the clock

\* What the constants are: assumed where they get their values.  That no duration is larger
\* than the expiration is asked for in pkg/common/constants.go:92 and checked when a duration
\* is set (service/option.go:189).
RateLimiterAssumption ==
  /\ maxRequestNum \in [LimitKeys -> Nat \ {0}]
  /\ duration \in [LimitKeys -> Nat] /\ expiration \in Nat
  /\ \A k \in LimitKeys : duration[k] <= expiration
  /\ MaxPassed \in Nat /\ MaxSeconds \in Nat

VARIABLES
  now,      \* time.Now().Unix()
  store,    \* key -> the queue of the last times; <<>> where there is no queue
  passed    \* history: key -> the times of all requests that passed

limiterVars == <<now, store, passed>>

RateLimiterInit ==
  /\ now = 0
  /\ store = [k \in LimitKeys |-> <<>>] /\ passed = [k \in LimitKeys |-> <<>>]

\* A request of key passes: it is queued.
Pass(key, queue) ==
  /\ Len(passed[key]) < MaxPassed
  /\ store' = [store EXCEPT ![key] = Append(queue, now)]
  /\ passed' = [passed EXCEPT ![key] = Append(@, now)]
  /\ UNCHANGED now

\* Mutant: a full queue loses its oldest time whatever the time is.
Request_Slides(key) ==
  \/ Len(store[key]) < maxRequestNum[key] /\ Pass(key, store[key])
  \/ Len(store[key]) >= maxRequestNum[key] /\ Pass(key, Tail(store[key]))

\* Request, where it returns true; a refused one changes nothing.
Request(key) ==
  \/ Len(store[key]) < maxRequestNum[key] /\ Pass(key, store[key])
  \/ /\ Len(store[key]) >= maxRequestNum[key]
     /\ now - Head(store[key]) >= duration[key]
     /\ Pass(key, Tail(store[key]))

\* clearExpiredItems: it wakes up every expiration, whenever its last sleep began.
Quiet(key) == store[key] # <<>> /\ now - store[key][Len(store[key])] > expiration
clearExpiredItems ==
  /\ \E k \in LimitKeys : Quiet(k)
  /\ store' = [k \in LimitKeys |-> IF Quiet(k) THEN <<>> ELSE store[k]]
  /\ UNCHANGED <<now, passed>>

Second == now < MaxSeconds /\ now' = now + 1 /\ UNCHANGED <<store, passed>>

RateLimiterNext == (\E k \in LimitKeys : Request(k)) \/ clearExpiredItems \/ Second
RateLimiterSpec == RateLimiterInit /\ [][RateLimiterNext]_limiterVars

-----------------------------------------------------------------------------
RateLimiterTypeOK ==
  /\ now \in Nat
  /\ store \in [LimitKeys -> Seq(Nat)] /\ passed \in [LimitKeys -> Seq(Nat)]

(* Of any maxRequestNum + 1 requests of a key that pass one after the other, the last is at  *)
(* least duration seconds after the first, although the queue of a key that was quiet for    *)
(* long is forgotten and a new one begins empty (in_memory.go:31-66).                        *)
LimitKept ==
  \A k \in LimitKeys : \A i \in DOMAIN passed[k] :
    i + maxRequestNum[k] \in DOMAIN passed[k]
      => passed[k][i + maxRequestNum[k]] - passed[k][i] >= duration[k]
=============================================================================
