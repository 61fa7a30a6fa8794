----------------------------- MODULE RateLimit -----------------------------
(***************************************************************************)
(* The request limiter of the middleware (rate_limiter.py, main.py): a     *)
(* sliding window in Redis when REDIS_URL is set, else a fixed window in   *)
(* the process.  One identifier and one path; time is counted in ticks.    *)
(***************************************************************************)
EXTENDS Integers, FiniteSets

CONSTANTS
  Limit,    \* max_requests of the path
  Window,   \* window_seconds, in ticks
  MaxBurst, \* bound: requests Redis counts in a tick
  Horizon   \* bound: the last tick

ASSUME LimitAssumption == Limit \in Nat \ {0} /\ Window \in Nat \ {0} /\ Horizon \in Nat

VARIABLES
  store,    \* "redis" or "memory"
  now,      \* time.time()
  seen,     \* redis: the sorted set, of pairs of a time and a member
  bucket,   \* memory: requests counted and the start of the window
  link,     \* redis client: "none", "up" or "stuck" (made, but its ping failed)
  redisUp,  \* whether the server answers
  let,      \* counted requests let through, in such pairs (history)
  open      \* states of the server when a request was let through uncounted

rlVars == <<store, now, seen, bucket, link, redisUp, let, open>>

Ticks == 0 .. Horizon

RlInit ==
  /\ store \in {"redis", "memory"}
  /\ now = 0 /\ seen = {} /\ bucket = [count |-> 0, start |-> -1]
  /\ link = "none" /\ redisUp \in BOOLEAN /\ let = {} /\ open = {}

At(S, t) == {e \in S : e[1] = t}
\* The request that arrives; its member (a uuid) is no other request's.
New(S) == <<now, Cardinality(At(S, now)) + 1>>
Let(e) == let' = let \cup {e}
LetOpen == open' = open \cup {redisUp} /\ UNCHANGED <<seen, let>>
CountsShort(e) == e[1] > now - Window + 1
Counts(e) == e[1] > now - Window

\* is_allowed with Redis: old entries go, the entries are counted, and the
\* request is added whether or not it is let through.
Slide ==
  LET recent == {e \in seen : Counts(e)} IN
  /\ seen' = recent \cup {New(seen)}
  /\ IF Cardinality(recent) < Limit THEN Let(New(seen)) ELSE UNCHANGED let

\* _get_redis makes a client when there is none; one whose first ping fails
\* stays, and is never pinged again.  An error in the pipeline drops the client.
AskRedis ==
  /\ store = "redis"
  /\ \/ /\ link \in {"none", "up"} /\ redisUp
        /\ link' = "up" /\ Slide /\ UNCHANGED open
     \/ /\ link # "up" /\ (link = "none" => ~redisUp)
        /\ link' = "stuck" /\ LetOpen
     \/ /\ link = "up" /\ ~redisUp
        /\ link' = "none" /\ LetOpen
  /\ UNCHANGED <<store, now, bucket, redisUp>>

\* is_allowed in the process: a window begins with the first request after the
\* last window has passed; a full one turns requests away.
AskMemory ==
  /\ store = "memory"
  /\ \/ /\ bucket.start < 0 \/ now - bucket.start > Window
        /\ bucket' = [count |-> 1, start |-> now] /\ Let(New(let))
     \/ /\ bucket.start >= 0 /\ now - bucket.start <= Window
        /\ bucket.count < Limit
        /\ bucket' = [bucket EXCEPT !.count = @ + 1] /\ Let(New(let))
     \/ /\ bucket.start >= 0 /\ now - bucket.start <= Window
        /\ bucket.count >= Limit
        /\ UNCHANGED <<bucket, let>>
  /\ UNCHANGED <<store, now, seen, link, redisUp, open>>

\* Bound: MaxBurst requests in a tick are counted.
Request == Cardinality(At(seen, now)) < MaxBurst /\ (AskRedis \/ AskMemory)

Tick ==
  /\ now < Horizon /\ now' = now + 1
  /\ UNCHANGED <<store, seen, bucket, link, redisUp, let, open>>
\* Redis stops or comes back; its data survive.
Toggle ==
  /\ store = "redis" /\ redisUp' = ~redisUp
  /\ UNCHANGED <<store, now, seen, bucket, link, let, open>>

RlNext == Request \/ Tick \/ Toggle
RlSpec == RlInit /\ [][RlNext]_rlVars

RlTypeOK ==
  /\ now \in Ticks /\ store \in {"redis", "memory"} /\ link \in {"none", "up", "stuck"}
  /\ seen \subseteq Ticks \X (Nat \ {0}) /\ let \subseteq Ticks \X (Nat \ {0})
  /\ bucket \in [count : 0 .. Limit, start : Ticks \cup {-1}]

(***************************************************************************)
(* However requests fall, no span of Window ticks has more than Limit of     *)
(* those Redis counted, nor more than twice Limit with the fixed windows of  *)
(* the process, whose seam a burst may straddle (rate_limiter.py:21-36,    *)
(* 75-100).                                                                *)
(***************************************************************************)
Span(S, t) == {e \in S : t <= e[1] /\ e[1] < t + Window}
WindowBound ==
  \A t \in Ticks : Cardinality(Span(let, t)) <= IF store = "redis" THEN Limit ELSE 2 * Limit

(***************************************************************************)
(* The limiter lets a request through uncounted only when Redis is         *)
(* unavailable (RedisRateLimiter's docstring, rate_limiter.py:46-51).      *)
(***************************************************************************)
OpenOnlyWhileDown == TRUE \notin open
=============================================================================
