--------------------------- MODULE MCDeployment ---------------------------
EXTENDS Deployment

TheServices == <<"netmap", "balance", "reputation", "container">>
TheAlphabets == <<"az", "buky", "vedi">>

(* A committee of two gets less GAS than it needs; one of three has an     *)
(* account other than that of the validators.                              *)
TheFunds == [k \in Sizes |-> [gas |-> CASE k = 1 -> 40000 [] k = 2 -> 13010 [] k = 3 -> 35010,
                              neo |-> 2 * k - 1]]
TheStarts == [k \in Sizes |-> IF k < 3 THEN {"fresh", "bare", "older"} ELSE {"fresh", "older"}]
FreshStarts == [k \in Sizes |-> {"fresh"}]
TheMishaps == [k \in Sizes |-> IF k < 3 THEN 2 ELSE 1]
OneMishap == [k \in Sizes |-> 1]
=============================================================================
