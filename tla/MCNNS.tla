------------------------------- MODULE MCNNS -------------------------------
(* Instances of NNS for TLC. *)
EXTENDS NNS, TLC

CONSTANTS o1, o2, d, e

Com == <<"com">>
A == <<"a", "com">>
YA == <<"y", "a", "com">>
XYA == <<"x", "y", "a", "com">>
XyA == <<"xy", "a", "com">>

NoTLDs == {}
ComOnly == {Com}
Tree == {Com, A, YA, XYA}
Registered == {Com, A, YA}
Aliases == {A}
Ends == {<<"xy", "y">>}

EachAlone == {{o1}, {o2}, {Committee}}
Symmetry == Permutations({o1, o2})
=============================================================================
