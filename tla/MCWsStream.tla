----------------------------- MODULE MCWsStream -----------------------------
(* One connection to each endpoint, queues of two transactions and of one
   alert, replays of two, and buffers of two. *)
EXTENDS WsStream

QueueSizes == [ch \in Channels |-> IF ch = "tx" THEN 2 ELSE 1]
Sizes2 == [ch \in Channels |-> 2]
=============================================================================
