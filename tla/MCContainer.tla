---------------------------- MODULE MCContainer -----------------------------
(* Instances of Container for TLC. *)
EXTENDS Container, TLC

CONSTANTS u1, u2, ir, c1, c2, c3, d1, n1, n2

(* Two containers of two users that ask for the same domain, and one that  *)
(* is locked from the beginning.                                           *)
Named == (c1 :> [owner |-> u1, lock |-> 0, name |-> d1]) @@
         (c2 :> [owner |-> u2, lock |-> 0, name |-> d1]) @@
         (c3 :> [owner |-> u1, lock |-> 1, name |-> NoName])
Plain == [c \in Cids |-> [owner |-> u1, lock |-> 0, name |-> NoName]]

(* Two Alphabet nodes are paid for each container; u1 can pay for one with *)
(* a domain and one without, u2 for one.                                   *)
Purses == [a \in Accounts |-> IF a = u1 THEN 6 ELSE IF a = u2 THEN 4 ELSE 0]
NoFunds == [a \in Accounts |-> 0]

(* The owners of containers, the Alphabet alone, and with all who may own a *)
(* domain.                                                                 *)
WithOwners == {{u1, u2}, {Alphabet}, {Alphabet, Committee, u2}}
Written == {{}, {c2}}
WithNodes == {{Alphabet}, {u1, u2, n1, n2}}
NoReplicas == {<<>>}
OneVector == {<<1>>}
(* Bound: what no other operation reads, extended ACLs, quotas and         *)
(* attributes, comes one at a time and before any domain is asked for.     *)
Extras == Cardinality(eacls) + Cardinality(DOMAIN quotas) + Cardinality(DOMAIN userQuotas)
          + Cardinality({c \in DOMAIN info : info[c].attrs # {}})
ExtrasApart == Extras = 0 \/ (Extras = 1 /\ \A d \in Names : domains[d].until = 0)
(* Which node is which matters to nobody. *)
NodeSymmetry == Permutations(Nodes)
NoneOrOne == {<<>>, <<1>>}
=============================================================================
