----------------------------- MODULE MCPipeline -----------------------------
(* Pipeline with two API processes and three transactions, two of which share
   the first characters of their hash and so the id of their alert. *)
EXTENDS Pipeline

CONSTANTS t1, t2, t3

MCAlertId == [t \in Txs |-> IF t = t3 THEN "alert-3" ELSE "alert-12"]
=============================================================================
