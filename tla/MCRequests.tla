----------------------------- MODULE MCRequests -----------------------------
(***************************************************************************)
(* The components around a request: the session of a browser, the limiter, *)
(* the accounts, the second factors.  They share no state, so a behaviour  *)
(* is one of a single part: TLC examines the sum of the state spaces.      *)
(* Model values are shared between the parts, which keeps the symmetry     *)
(* group small: c1, c2 are calls of every part.                            *)
(***************************************************************************)
EXTENDS Sessions, RateLimit, Accounts, Factors, TLC

CONSTANTS c1, c2, p1, p2, i1, i2
Symmetry == Permutations({c1, c2}) \cup Permutations({p1, p2}) \cup Permutations({i1, i2})

VARIABLE part
reqVars == <<ssVars, rlVars, acVars, fcVars, part>>

Frozen(name) ==
  /\ name # "sessions" => factor = "none"
  /\ name # "limiter" => store = "memory" /\ ~redisUp
RequestsInit ==
  /\ SsInit /\ RlInit /\ AcInit /\ FcInit
  /\ part \in {"sessions", "limiter", "accounts", "factors"} /\ Frozen(part)
RequestsNext ==
  \/ part = "sessions" /\ SsNext /\ UNCHANGED <<rlVars, acVars, fcVars, part>>
  \/ part = "limiter" /\ RlNext /\ UNCHANGED <<ssVars, acVars, fcVars, part>>
  \/ part = "accounts" /\ AcNext /\ UNCHANGED <<ssVars, rlVars, fcVars, part>>
  \/ part = "factors" /\ FcNext /\ UNCHANGED <<ssVars, rlVars, acVars, part>>
RequestsSpec == RequestsInit /\ [][RequestsNext]_reqVars

RequestsTypeOK == SsTypeOK /\ RlTypeOK /\ AcTypeOK /\ FcTypeOK
=============================================================================
