---------------------------- MODULE MCBackground ----------------------------
(***************************************************************************)
(* Background work that lives in the process: the in-memory queue of       *)
(* LOCAL_MODE, the export tasks and the backfill loops.  They share no     *)
(* state, so a behaviour is one of a single part, and TLC examines the sum *)
(* of the state spaces instead of their product.                           *)
(***************************************************************************)
EXTENDS MemQueue, Exports, Backfill, TLC

CONSTANTS k1, k2, k3, u1, u2
KeyUsers == (k1 :> u1) @@ (k2 :> u1) @@ (k3 :> u2)
TxUser == (1 :> u1) @@ (2 :> u2) @@ (3 :> u1) @@ (4 :> u1)

VARIABLE part
NoWork == body = [e \in Emails |-> "absent"] /\ loop = [NewLoop("paged") EXCEPT !.pc = "done"]

BackgroundInit ==
  /\ MqInit
  /\ \/ part = "queue" /\ ExInit /\ txs = {} /\ NoWork
     \/ part = "exports" /\ ExInit /\ NoWork
     \/ part = "backfill" /\ ExInit /\ txs = {} /\ BfInit
BackgroundNext ==
  \/ part = "queue" /\ MqNext /\ UNCHANGED <<exVars, bfVars, part>>
  \/ part = "exports" /\ ExNext /\ UNCHANGED <<mqVars, bfVars, part>>
  \/ part = "backfill" /\ BfNext /\ UNCHANGED <<mqVars, exVars, part>>
BackgroundSpec ==
  /\ BackgroundInit
  /\ [][BackgroundNext]_<<mqVars, exVars, bfVars, part>>
  /\ MqFair /\ ExFair /\ BfFair

BackgroundTypeOK == MqTypeOK /\ ExTypeOK /\ BfTypeOK

(* Background work comes to an end: a task that waits is executed, an       *)
(* export is completed or failed, a backfill loop stops, each but for what  *)
(* its own module excepts.                                                  *)
BackgroundEnds == EveryTaskEnds /\ ExportEnds /\ BackfillEnds
=============================================================================
