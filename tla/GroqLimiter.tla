---------------------------- MODULE GroqLimiter ----------------------------
(***************************************************************************)
(* The limiter in front of Groq (classifier/groq_rate_limiter.py): one     *)
(* bucket of a model, filled by the calls of a user and emptied by a       *)
(* thread that looks at the clock every half a minute.  Time is counted in *)
(* ticks of 30 s, the sleep of the thread and the timeout of a call.       *)
(***************************************************************************)
EXTENDS Integers

CONSTANTS
  Askers,                \* coroutines that classify
  MaxEstimate,            \* a call asks for 1 .. MaxEstimate tokens
  Rpm, Tpm, Rpd, Tpd,     \* limits of the model; 0 for no daily limit
  Minute, Day,            \* 60 s and 86400 s in ticks
  Patience,               \* timeout of acquire()
  LastTick                \* bound

ASSUME GroqAssumption ==
  /\ Rpm \in Nat /\ Tpm \in Nat /\ Rpd \in Nat /\ Tpd \in Nat
  /\ Minute \in Nat \ {0} /\ Day \in Nat \ {0} /\ Patience \in Nat
  /\ MaxEstimate \in Nat \ {0} /\ LastTick \in Nat

VARIABLES
  clock,     \* time.time()
  used,      \* the bucket: requests and tokens of the minute and of the day
  began,     \* _minute_start and _day_start
  asking,    \* of each caller: the tokens it waits for (0: none) and since when
  granted    \* requests and tokens let through before each tick (history)

glVars == <<clock, used, began, asking, granted>>

Instants == 0 .. LastTick
Edges == 0 .. LastTick + 1
Estimates == 1 .. MaxEstimate
NotAsking == [tokens |-> 0, since |-> 0]
GlInit ==
  /\ clock = 0
  /\ used = [rpm |-> 0, tpm |-> 0, rpd |-> 0, tpd |-> 0]
  /\ began = [minute |-> 0, day |-> 0]
  /\ asking = [c \in Askers |-> NotAsking]
  /\ granted = [requests |-> [t \in Edges |-> 0], tokens |-> [t \in Edges |-> 0]]

(* The test and the booking are one step under the lock.  The daily tokens  *)
(* are tested before the estimate is added.                                 *)
Free(n) ==
  /\ used.rpm < Rpm /\ used.tpm + n <= Tpm
  /\ Rpd = 0 \/ used.rpd < Rpd
  /\ Tpd = 0 \/ used.tpd < Tpd
Booked(n) == [rpm |-> used.rpm + 1, tpm |-> used.tpm + n,
              rpd |-> IF Rpd > 0 THEN used.rpd + 1 ELSE used.rpd,
              tpd |-> IF Tpd > 0 THEN used.tpd + n ELSE used.tpd]
Raised(sums, n) == [t \in Edges |-> IF t > clock THEN sums[t] + n ELSE sums[t]]
Book(n) ==
  /\ Free(n) /\ used' = Booked(n)
  /\ granted' = [requests |-> Raised(granted.requests, 1), tokens |-> Raised(granted.tokens, n)]
Acquire(c) == \E n \in Estimates :
  /\ asking[c].tokens = 0
  /\ \/ Book(n) /\ UNCHANGED asking
     \/ /\ ~Free(n) /\ asking' = [asking EXCEPT ![c] = [tokens |-> n, since |-> clock]]
        /\ UNCHANGED <<used, granted>>
  /\ UNCHANGED <<clock, began>>

(* acquire() looks again every second and answers False after its timeout.  *)
Grant(c) ==
  /\ asking[c].tokens > 0 /\ Book(asking[c].tokens)
  /\ asking' = [asking EXCEPT ![c] = NotAsking]
  /\ UNCHANGED <<clock, began>>
GiveUp(c) ==
  /\ asking[c].tokens > 0 /\ ~Free(asking[c].tokens)
  /\ clock - asking[c].since >= Patience
  /\ asking' = [asking EXCEPT ![c] = NotAsking]
  /\ UNCHANGED <<clock, used, began, granted>>

(* _maybe_reset_buckets(), when the thread wakes: late by as much as it is. *)
OnSchedule(start, length) == start + length           \* mutant of Restarted
Restarted(start, length) == clock
ResetLoop ==
  LET minute == clock - began.minute >= Minute
      day == clock - began.day >= Day
  IN /\ minute \/ day
     /\ used' = [rpm |-> IF minute THEN 0 ELSE used.rpm, tpm |-> IF minute THEN 0 ELSE used.tpm,
                 rpd |-> IF day THEN 0 ELSE used.rpd, tpd |-> IF day THEN 0 ELSE used.tpd]
     /\ began' = [minute |-> IF minute THEN Restarted(began.minute, Minute) ELSE began.minute,
                  day |-> IF day THEN Restarted(began.day, Day) ELSE began.day]
     /\ UNCHANGED <<clock, asking, granted>>

Pass == clock < LastTick /\ clock' = clock + 1 /\ UNCHANGED <<used, began, asking, granted>>

GlNext == \/ \E c \in Askers : Acquire(c) \/ Grant(c) \/ GiveUp(c)
          \/ ResetLoop \/ Pass
GlSpec == GlInit /\ [][GlNext]_glVars

-----------------------------------------------------------------------------
GlTypeOK ==
  /\ clock \in Instants /\ began.minute \in 0..clock /\ began.day \in 0..clock
  /\ used.rpm \in 0..Rpm /\ used.tpm \in 0..Tpm
  /\ Rpd > 0 => used.rpd \in 0..Rpd
  /\ \A c \in Askers : asking[c].tokens \in Estimates \cup {0}

(* However late the thread is and however calls fall, no minute has more    *)
(* than two buckets of requests or tokens (its seam may lie in the middle   *)
(* of a burst), and no day more than two of the day's, but for the last     *)
(* call's tokens, which are not weighed against the day's limit.            *)
AtMost(sums, length, most) ==
  \A t, u \in Edges : u - t <= length => sums[u] - sums[t] <= most
GroqWithinLimits ==
  /\ AtMost(granted.requests, Minute, 2 * Rpm)
  /\ AtMost(granted.tokens, Minute, 2 * Tpm)
  /\ Rpd > 0 => AtMost(granted.requests, Day, 2 * Rpd)
  /\ Tpd > 0 => AtMost(granted.tokens, Day, 2 * (Tpd + MaxEstimate - 1))
=============================================================================
