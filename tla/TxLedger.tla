------------------------------ MODULE TxLedger ------------------------------
(***************************************************************************)
(* What the transactions and alerts tables promise, whoever writes them:   *)
(* each transaction hash is recorded at most once, in one step, with its   *)
(* final verdict, and a record never changes afterwards.  A record is      *)
(*   "clean"    an unflagged transaction row,                              *)
(*   "alerted"  a flagged transaction row together with its alert row,     *)
(*   "scored"   a row of the stand-alone worker, which stores no alert.    *)
(***************************************************************************)
EXTENDS Sequences

CONSTANT Txs

VARIABLE ledger

Verdicts == {"clean", "alerted", "scored"}

Init == ledger = [t \in Txs |-> <<>>]

Record(t, v) ==
  /\ ledger[t] = <<>>
  /\ ledger' = [ledger EXCEPT ![t] = <<v>>]

Next == \E t \in Txs, v \in Verdicts : Record(t, v)

Spec == Init /\ [][Next]_ledger
=============================================================================
