------------------------------ MODULE MCNeoFS ------------------------------
(* Instances of NeoFS for TLC. *)
EXTENDS NeoFS, TLC

CONSTANTS n1, n2, n3, n4, u1

(* Four nodes that vote, of which one may come late, with no GAS to move;  *)
(* two nodes and a user who has some, with and without a notary service.   *)
Voting == [alphabet |-> <<n1, n2, n3, n4>>, notaryDisabled |-> TRUE,
           config |-> [k \in ConfigKeys |-> 1], gas |-> [u \in Users |-> 0]]
Paying(disabled) ==
    [alphabet |-> <<n1, n2>>, notaryDisabled |-> disabled,
     config |-> [k \in ConfigKeys |-> 2], gas |-> [u \in Users |-> 2]]
Uses == {Voting, Paying(TRUE), Paying(FALSE)}
Smaller == {<<n4, n1>>}

(* One decision is executed again, another one once meanwhile. *)
TwiceAndOnce == [id \in Ids |-> IF id = 1 THEN 2 ELSE 1]

(* One node at a time; the first one signs together with the user and with *)
(* the committee, for the decisions of a chain with a notary service.      *)
OneByOne == {{n1, u1, Alphabet}, {n2}, {n3}, {n4}}
=============================================================================
