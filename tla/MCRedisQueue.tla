---------------------------- MODULE MCRedisQueue ----------------------------
(* TLC instances of RedisQueue: two users, two task types, the manual and   *)
(* the scheduled sync of one user (one idempotency key, two priorities).    *)
EXTENDS RedisQueue, TLC

CONSTANTS u1, u2, p1

Manual(u)    == [type |-> "sync", user |-> u, prio |-> "high", delayed |-> FALSE]
Scheduled(u) == [type |-> "sync", user |-> u, prio |-> "medium", delayed |-> TRUE]
Recompute(u) == [type |-> "recompute", user |-> u, prio |-> "high", delayed |-> FALSE]

MCTypes    == {"sync", "recompute"}
SyncOnly   == {"sync"}
MCTypeRank == [t \in MCTypes |-> IF t = "sync" THEN 0 ELSE 1]
SyncRank   == [t \in SyncOnly |-> 0]

TwoUsers == {Manual(u1), Manual(u2), Scheduled(u1), Recompute(u1)}
TwoSyncs == {Manual(u1), Manual(u2)}
OneUser  == {Manual(u1), Scheduled(u1)}
OneSync  == {Manual(u1)}

Symmetry == Permutations(Workers) \cup Permutations(Enqueuers)

OneProcess   == [w \in Workers |-> p1]
OwnProcesses == [w \in Workers |-> w]
=============================================================================
