------------------------------ MODULE MCNetmap ------------------------------
(* Instances of Netmap for TLC. *)
EXTENDS Netmap, TLC

(* All witnesses that some action asks for, or all but the Alphabet.       *)
All == {Nodes \cup {Alphabet}, Nodes}

(* Nodes, attributes and contracts are interchangeable.  The Alphabet signs  *)
(* every call that can succeed, so it is kept apart.                        *)
Symmetry == Permutations(Nodes) \cup Permutations(Attributes) \cup Permutations(Contracts)

(* Bound: while contracts are subscribed, the settings that no subscriber   *)
(* reads stay as they are; the two do not touch each other.                 *)
SettingsApart == subscribers = {} \/ (config = {} /\ cleanupThreshold = DefaultCleanupThreshold)
=============================================================================
