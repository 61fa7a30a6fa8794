----------------------------- MODULE MCClassify -----------------------------
(***************************************************************************)
(* Two runs of a user through one LLM client (an import of three e-mails   *)
(* and a backfill that finds one while it goes on), and, apart from them,  *)
(* the limiter in front of Groq.                                           *)
(***************************************************************************)
EXTENDS Classify, GroqLimiter, TLC

CONSTANTS import, backfill, proxy
OneClient == (import :> proxy) @@ (backfill :> proxy)
ThreeAndOne == (import :> 3) @@ (backfill :> 1)

VARIABLE part
callVars == <<clVars, glVars, part>>
(* Apart from the runs each of them has ended: its rules judged each mail.  *)
AllJudged ==
  /\ result = [r \in Runs |-> [m \in Mails(r) |-> "rule"]]
  /\ run = [r \in Runs |-> [phase |-> "done", todo |-> <<>>, at |-> 1, pos |-> 1,
                            call |-> "no", seen |-> 0, broken |-> FALSE]]
  /\ limited = {} /\ spent = 0 /\ day = [calls |-> 0, writer |-> NoRun, pending |-> 0]
CallsInit ==
  /\ GlInit
  /\ \/ ClInit /\ part = "classify"
     \/ AllJudged /\ part = "groq"
CallsNext ==
  \/ part = "classify" /\ ClNext /\ UNCHANGED <<glVars, part>>
  \/ part = "groq" /\ GlNext /\ UNCHANGED <<clVars, part>>
CallsSpec == CallsInit /\ [][CallsNext]_callVars /\ ClFair

CallsTypeOK == ClTypeOK /\ GlTypeOK
=============================================================================
