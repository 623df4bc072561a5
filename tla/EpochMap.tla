------------------------------ MODULE EpochMap ------------------------------
(***************************************************************************)
(* What the Netmap contract promises to the storage nodes, the balance and *)
(* the container contracts: between two epoch ticks the network map does   *)
(* not move, and a tick replaces it by the candidates, whole, no matter    *)
(* how the contract stores it.  There is no version, no flag, no snapshot  *)
(* and no cleanup rule here: contracts/netmap/contract.go adds those, and  *)
(* Netmap.tla shows that they cannot be seen through ListNodes.            *)
(***************************************************************************)
EXTENDS Naturals

CONSTANTS Nodes,       \* storage nodes, by public key
          NodeInfo     \* what a network map says of a node: state, attributes

VARIABLES epoch,       \* current epoch
          proposed,    \* node -> what the next map will say of it
          current      \* node -> what the map in force says of it

vars == <<epoch, proposed, current>>

(* A network map: some of the nodes, each with its description.            *)
Maps == UNION {[S -> NodeInfo] : S \in SUBSET Nodes}

TypeOK == epoch \in Nat /\ proposed \in Maps /\ current \in Maps

Init == /\ epoch = 0
        /\ proposed \in [{} -> NodeInfo]
        /\ current = proposed

(* Candidates come, change and go; nobody sees it before the next tick.    *)
Propose == /\ proposed' \in Maps
           /\ UNCHANGED <<epoch, current>>

(* A tick.  It may forget candidates and, when it is part of the           *)
(* transaction that adds the node, also take one in; the map in force is   *)
(* exactly what is proposed afterwards.                                    *)
Tick == /\ epoch' \in Nat /\ epoch' > epoch
        /\ proposed' \in Maps
        /\ current' = proposed'

Next == Propose \/ Tick

Spec == Init /\ [][Next]_vars
=============================================================================
