------------------------------ MODULE MCBalance -----------------------------
(* Instances of Balance for TLC. *)
EXTENDS Balance, TLC

CONSTANTS u1, u2, l1, l2

(* One lock account comes before its parents in the storage, the other     *)
(* after them.                                                             *)
KeyOrder == <<l1, u1, u2, l2>>

(* A node u with load 1 that has not changed for long, a node whose load   *)
(* grew in the current epoch, one that reported in the paid epoch, and one *)
(* whose average is negative.                                              *)
Stat(a, latest, previous, size) ==
    [account |-> a, reported |-> TRUE, online |-> TRUE,
     stat |-> [latestEpoch |-> latest, latestSize |-> size,
               latestAverage |-> 2 * size, previousEpoch |-> previous,
               previousSize |-> 0, previousAverage |-> size]]
Loads == {<<Stat(u1, 0, 0, 1), Stat(u2, 1, 0, 1)>>,
          <<Stat(u2, 2, 1, 1)>>,
          <<[Stat(u1, 0, 0, 1) EXCEPT !.online = FALSE], Stat(u2, 0, 0, 1)>>,
          <<Stat(u1, 1, 0, 1), Stat(u2, 1, 0, -1)>>}
Witnesses == {{u1}, {Alphabet}}
=============================================================================
