----------------------------- MODULE LossyFifo -----------------------------
(***************************************************************************)
(* What a topic of the broker promises its subscriber: the messages in the *)
(* order of their publication, each at most once, any of them missing.     *)
(* Messages are numbered by publication.                                   *)
(***************************************************************************)
EXTENDS Naturals, Sequences

VARIABLES
  published, \* messages published so far
  received   \* the numbers the subscriber was given, in order

Init == published = 0 /\ received = <<>>

Publish == published' = published + 1 /\ UNCHANGED received

Receive ==
  /\ \E n \in 1..published :
       /\ \A i \in 1..Len(received) : received[i] < n
       /\ received' = Append(received, n)
  /\ UNCHANGED published

Spec == Init /\ [][Publish \/ Receive]_<<published, received>>
=============================================================================
