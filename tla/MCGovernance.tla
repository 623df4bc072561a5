---------------------------- MODULE MCGovernance ----------------------------
(* An instance of Governance for TLC. *)
EXTENDS Governance

TheNeo == [c \in Contracts |-> IF c = 0 THEN 2 ELSE 1]
OfEach == [c \in Contracts |-> 2]

(* One list replaces a member; the other names one candidate only.         *)
TheLists == {<<1, 2, 3>>, <<3>>}

(* Epochs 1 and 5 are <<1>> and <<1, 1>> to the base 4.                     *)
ThePeers == {<<3, 3>>}
=============================================================================
