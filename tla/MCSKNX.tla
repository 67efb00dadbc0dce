------------------------------ MODULE MCSKNX ------------------------------
(***************************************************************************)
(* Instances of SKNX for TLC.                                              *)
(***************************************************************************)
EXTENDS SKNX

\* Distinct secrets, none of which makes an intermediate point zero.
MCSecret == [n \in Node |-> 2 * n + 1]

(***************************************************************************)
(* A node that has begun an update() ends it before anything else happens. *)
(* What follows Pump in an update() touches only the node's own state, so  *)
(* it commutes with the steps of the others and of the network.            *)
(***************************************************************************)
Busy == {n \in Node : busy[n]}

WholeNext == IF Busy = {} THEN Next ELSE \E n \in Busy : Update(n)

WholeFairSpec == Init /\ [][WholeNext]_vars /\ Fairness
=============================================================================
