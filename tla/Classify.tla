------------------------------ MODULE Classify ------------------------------
(***************************************************************************)
(* Classification of the e-mails of an import (classifier/classifier.py,   *)
(* classifier/llm): rules first, then batches through the provider, then   *)
(* what is left one by one, with rules for the rest.  Runs of one user     *)
(* overlap: they share the provider's back-off, the process's daily budget *)
(* and the day's spend row of the database.  A client has one provider, as *)
(* every client that is built; what an answer says is left open.           *)
(***************************************************************************)
EXTENDS Naturals, Sequences, FiniteSets

CONSTANTS
  Runs,         \* classification runs, each with a database session
  MailsOf,      \* how many e-mails a run has
  LlmBatch,    \* LLM_BATCH_SIZE
  DailyBudget,  \* answers the process may get in a day
  UserBudget,   \* answers the user may have recorded in a day
  Clients,      \* clients, each with its provider
  ClientOf,     \* the client of a run
  NoRun

ASSUME ClassifyAssumption ==
  /\ LlmBatch \in Nat \ {0} /\ DailyBudget \in Nat /\ UserBudget \in Nat
  /\ IsFiniteSet(Runs) /\ Runs # {} /\ \A r \in Runs : ClientOf[r] \in Clients

VARIABLES
  result,   \* of each mail: "none", "rule" or "llm"
  run,      \* where each run is
  limited,  \* clients whose provider is backing off
  spent,    \* _llm_spend_tracker: answers of the day
  day       \* LLMSpendTracker row: committed calls (0: no row), writer, its calls

clVars == <<result, run, limited, spent, day>>

Mails(r) == 1 .. MailsOf[r]
Phases == {"start", "batch", "judge", "fix", "single", "refix", "commit", "done"}
CallStates == {"no", "first", "second", "read", "flush"}

ClInit ==
  /\ result = [r \in Runs |-> [m \in Mails(r) |-> "none"]]
  /\ run = [r \in Runs |-> [phase |-> "start", todo |-> <<>>, at |-> 1, pos |-> 1,
                            call |-> "no", seen |-> 0, broken |-> FALSE]]
  /\ limited = {} /\ spent = 0
  /\ day = [calls |-> 0, writer |-> NoRun, pending |-> 0]

\* The fields that change, and the others.
Over(new, old) == [f \in DOMAIN old |-> IF f \in DOMAIN new THEN new[f] ELSE old[f]]
Set(r, fields) == run' = [run EXCEPT ![r] = Over(fields, @)]
Judged(r) == run[r].todo[run[r].pos]
Give(r, ms, method) ==
  result' = [result EXCEPT ![r] = [m \in Mails(r) |-> IF m \in ms THEN method ELSE @[m]]]

\* check_llm_budget: the committed row, or the run's own; a broken session is no limit.
SpendSeen(r) == IF day.writer = r THEN day.pending ELSE day.calls
UserWithin(r) == run[r].broken \/ SpendSeen(r) < UserBudget

\* Phase 1: the mails the rules discard are done; a user over the budget gets
\* rules for all, and the others wait for the provider.
Begin(r) ==
  /\ run[r].phase = "start"
  /\ \E ruled \in SUBSET Mails(r) :
       LET ms == IF UserWithin(r) THEN ruled ELSE Mails(r) IN
       /\ Give(r, ms, "rule")
       /\ Set(r, [phase |-> "batch",
                  todo |-> SelectSeq([i \in Mails(r) |-> i], LAMBDA m : m \notin ms)])
  /\ UNCHANGED <<limited, spent, day>>

(***************************************************************************)
(* Where a call leads when it fails, or ends.                              *)
(***************************************************************************)
\* The pause between batches is for an available provider that is backing off,
\* and there is none: no run pauses.
NextBatch(r) == Set(r, [phase |-> "batch", at |-> run[r].at + LlmBatch, call |-> "no"])
NextSingle(r) == Set(r, [phase |-> "single", at |-> run[r].at + 1, call |-> "no"])
NextJudged(r) == Set(r, [phase |-> "judge", pos |-> run[r].pos + 1, call |-> "no"])

\* A correction that fails leaves the answer it was to correct.
Gives(r) ==
  \/ run[r].phase = "batch" /\ NextBatch(r) /\ UNCHANGED result
  \/ run[r].phase = "fix" /\ Give(r, {Judged(r)}, "llm") /\ NextJudged(r)
  \/ run[r].phase = "single" /\ Give(r, {run[r].at}, "rule") /\ NextSingle(r)
  \/ run[r].phase = "refix" /\ Give(r, {run[r].at}, "llm") /\ NextSingle(r)

\* A run that wants to ask, in its phase; the singles without a result are
\* asked one by one, while the user's budget lasts.
Asks(r) ==
  /\ run[r].call = "no"
  /\ \/ run[r].phase = "batch" /\ run[r].at <= Len(run[r].todo)
     \/ run[r].phase \in {"fix", "refix"}
     \/ /\ run[r].phase = "single" /\ run[r].at \in Mails(r)
        /\ result[r][run[r].at] = "none" /\ ~run[r].broken /\ UserWithin(r)

AtMostBudget == spent <= DailyBudget
WithinBudget == spent < DailyBudget
Available(r) == ClientOf[r] \notin limited /\ WithinBudget

Call(r) ==
  /\ Asks(r)
  /\ \/ /\ Available(r)
        /\ Set(r, [call |-> "first"]) /\ UNCHANGED result
     \/ /\ ~Available(r)
        /\ Gives(r)
  /\ UNCHANGED <<limited, spent, day>>

(***************************************************************************)
(* _call_with_retry and what is done with the answer.                      *)
(***************************************************************************)
Asking(r) == run[r].call \in {"first", "second"}

\* An answer is paid for before it is parsed.  The spend of an answer is
\* recorded, except a correction's in a batch and one that is not accepted.
Answer(r) ==
  /\ Asking(r)
  /\ spent' = spent + 1
  /\ \/ /\ run[r].phase # "fix"
        /\ Set(r, [call |-> "read"]) /\ UNCHANGED result
     \/ Gives(r)
  /\ UNCHANGED <<limited, day>>

\* The first 429 waits and asks again, the second backs off.  Groq's own
\* limiter backs off at once, and is asked again as well.
TooMany(r) ==
  /\ Asking(r)
  /\ \/ /\ run[r].call = "first"
        /\ limited' \in {limited, limited \cup {ClientOf[r]}}
        /\ Set(r, [call |-> "second"]) /\ UNCHANGED result
     \/ /\ run[r].call = "second"
        /\ limited' = limited \cup {ClientOf[r]}
        /\ Gives(r)
  /\ UNCHANGED <<spent, day>>

CallFails(r) ==
  /\ Asking(r)
  /\ Gives(r)
  /\ UNCHANGED <<limited, spent, day>>

\* record_llm_spend reads the row, then writes it: the flush waits for another
\* writer, loses to one that has made the row meanwhile, and overwrites one
\* that has changed it.
AfterRecord(r) ==
  IF run[r].phase = "batch" THEN [phase |-> "judge", pos |-> run[r].at, call |-> "no"]
  ELSE IF run[r].phase = "refix" THEN [phase |-> "single", at |-> run[r].at + 1, call |-> "no"]
  ELSE [phase |-> "judge", pos |-> 0, call |-> "no"]
Kept(r) == IF run[r].phase = "refix" THEN Give(r, {run[r].at}, "llm") ELSE UNCHANGED result
ReadSpend(r) ==
  /\ run[r].call = "read"
  /\ \/ /\ ~run[r].broken
        /\ Set(r, [call |-> "flush", seen |-> SpendSeen(r)]) /\ UNCHANGED result
     \/ /\ run[r].broken
        /\ Set(r, AfterRecord(r)) /\ Kept(r)
  /\ UNCHANGED <<limited, spent, day>>
FlushSpend(r) ==
  /\ run[r].call = "flush" /\ day.writer \in {NoRun, r}
  /\ LET loses == run[r].seen = 0 /\ day.calls > 0 IN
     /\ day' = IF loses THEN day ELSE [day EXCEPT !.writer = r, !.pending = run[r].seen + 1]
     /\ run' = [run EXCEPT ![r] = [Over(AfterRecord(r), @) EXCEPT !.broken = loses]]
  /\ Kept(r)
  /\ UNCHANGED <<limited, spent>>

\* The mails of a batch are at .. at + LlmBatch - 1, and there may be fewer.
LastOfRun(r) == run[r].pos > Len(run[r].todo)
LastOfBatch(r) == run[r].pos > Len(run[r].todo) \/ run[r].pos = run[r].at + LlmBatch

\* The answers of a batch are judged in order: one that breaks the checks is
\* corrected by a call of its own, and one that is malformed leaves itself and
\* the ones after it to the singles.
JudgeBatch(r) ==
  /\ run[r].phase = "judge" /\ run[r].pos > 0
  /\ LET last == LastOfBatch(r) IN
     \/ last /\ NextBatch(r) /\ UNCHANGED result
     \/ ~last /\ Give(r, {Judged(r)}, "llm") /\ NextJudged(r)
     \/ ~last /\ Set(r, [phase |-> "fix"]) /\ UNCHANGED result
     \/ ~last /\ NextBatch(r) /\ UNCHANGED result
  /\ UNCHANGED <<limited, spent, day>>
JudgeSingle(r) ==
  /\ run[r].phase = "judge" /\ run[r].pos = 0
  /\ \/ Give(r, {run[r].at}, "llm") /\ NextSingle(r)
     \/ Set(r, [phase |-> "refix"]) /\ UNCHANGED result
     \/ Give(r, {run[r].at}, "rule") /\ NextSingle(r)
  /\ UNCHANGED <<limited, spent, day>>

\* Phase 3, for the mails the batches left.
ToSingles(r) ==
  /\ run[r].phase = "batch" /\ run[r].call = "no" /\ run[r].at > Len(run[r].todo)
  /\ Set(r, [phase |-> "single", at |-> 1])
  /\ UNCHANGED <<result, limited, spent, day>>
\* A mail without a result is asked for, or gets rules: the user is over the
\* budget, the session is broken, or a rule discards it that phase 1 left out.
AtSingle(r) == run[r].phase = "single" /\ run[r].call = "no" /\ run[r].at \in Mails(r)
SkipsOver(r) == AtSingle(r) /\ NextSingle(r) /\ UNCHANGED <<result, limited, spent, day>>
SkipSingle(r) ==
  /\ AtSingle(r)
  /\ Give(r, IF result[r][run[r].at] = "none" THEN {run[r].at} ELSE {}, "rule")
  /\ NextSingle(r)
  /\ UNCHANGED <<limited, spent, day>>
LastDone(r) ==
  /\ run[r].phase = "single" /\ run[r].call = "no" /\ run[r].at \notin Mails(r)
  /\ Set(r, [phase |-> "commit"])
  /\ UNCHANGED <<result, limited, spent, day>>

\* The import commits, or fails; with a broken session it fails.
CommitRun(r) ==
  /\ run[r].phase = "commit"
  /\ Set(r, [phase |-> "done"])
  /\ LET free == [day EXCEPT !.writer = NoRun, !.pending = 0] IN
     IF day.writer # r THEN UNCHANGED day ELSE day' \in {free, [free EXCEPT !.calls = day.pending]}
  /\ UNCHANGED <<result, limited, spent>>

Relent(c) ==
  /\ c \in limited
  /\ limited' = limited \ {c}
  /\ UNCHANGED <<result, run, spent, day>>

RunStep(r) ==
  \/ Begin(r) \/ Call(r) \/ Answer(r) \/ TooMany(r) \/ CallFails(r) \/ ReadSpend(r) \/ FlushSpend(r)
  \/ JudgeBatch(r) \/ JudgeSingle(r) \/ ToSingles(r) \/ SkipSingle(r) \/ LastDone(r) \/ CommitRun(r)
ClNext == (\E r \in Runs : RunStep(r)) \/ (\E c \in Clients : Relent(c))
\* A call ends: the HTTP client has a timeout.
ClFair == \A r \in Runs : WF_clVars(RunStep(r))
ClSpec == ClInit /\ [][ClNext]_clVars /\ ClFair

ClTypeOK ==
  /\ \A r \in Runs : /\ run[r].phase \in Phases /\ run[r].call \in CallStates
                     /\ run[r].at \in Nat \ {0}
                     /\ run[r].phase \in {"judge", "fix"} => run[r].pos \in 0 .. run[r].at + LlmBatch
                     /\ \A m \in Mails(r) : result[r][m] \in {"none", "rule", "llm"}
  /\ limited \subseteq Clients /\ spent \in Nat /\ day.writer \in Runs \cup {NoRun}

(***************************************************************************)
(* However runs overlap, the answers of a day are at most the budget and   *)
(* one for every other run: each asks for the budget before it calls, and  *)
(* pays when the answer is there (llm/client.py:63-72, 378, 393-400).      *)
(***************************************************************************)
DailySpendBounded == spent < DailyBudget + Cardinality(Runs)

(***************************************************************************)
(* Every run ends with a result for every mail, whatever the provider      *)
(* answers or fails to, wherever a batch breaks off, and though flushes    *)
(* wait for each other (classifier.py:884-989).                            *)
(***************************************************************************)
EveryMailClassified ==
  \A r \in Runs : <>(run[r].phase = "done" /\ \A m \in Mails(r) : result[r][m] # "none")
=============================================================================
