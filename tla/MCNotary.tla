----------------------------- MODULE MCNotary ------------------------------
(* An instance of NotaryDesignation for TLC. *)
EXTENDS NotaryDesignation

(* Alone; two; three, of which one is away that the leader needs or does    *)
(* not need; four, of which the two that the leader reads have another     *)
(* transaction.                                                            *)
Settings == {<<1, {}, {}>>, <<2, {}, {}>>, <<3, {1}, {}>>, <<3, {2}, {}>>,
             <<4, {3}, {1, 2}>>}
Once == [size \in 1..4 |-> IF size < 4 THEN 1 ELSE 0]
=============================================================================
