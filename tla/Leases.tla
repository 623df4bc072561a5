------------------------------- MODULE Leases -------------------------------
(***************************************************************************)
(* What the name service promises to those who register domains: a thing   *)
(* is leased by whoever comes first, for a time; nobody else gets it in    *)
(* that time unless it is handed over, and the term can only be extended.  *)
(* The holder may name a deputy, who goes when the holder does.            *)
(* contracts/nns/contract.go adds trees of names, administrators, records  *)
(* and indexes; NNS.tla shows that it keeps the promise.                   *)
(***************************************************************************)
EXTENDS Integers

CONSTANTS Things, Holders, Nobody, Free

VARIABLES lease, clock

Terms == [holder : Holders, deputy : Holders, until : Int]
Leased(n) == lease[n] # Free /\ clock < lease[n].until

Init == /\ lease \in [Things -> {Free} \cup Terms]
        /\ clock = 0

(* The thing n and no other gets a new lease. *)
Changed(n) == /\ lease' = [lease EXCEPT ![n] = lease'[n]]
              /\ lease'[n] \in Terms
              /\ UNCHANGED clock

Take(n) == ~Leased(n) /\ Changed(n)
Hand(n) == /\ Leased(n) /\ Changed(n)
           /\ lease'[n] = [holder |-> lease'[n].holder, deputy |-> Nobody,
                           until |-> lease[n].until]
Extend(n) == /\ Leased(n) /\ Changed(n)
             /\ lease'[n] = [lease[n] EXCEPT !.until = lease'[n].until]
             /\ lease'[n].until >= lease[n].until
Depute(n) == /\ Leased(n) /\ Changed(n)
             /\ lease'[n] = [lease[n] EXCEPT !.deputy = lease'[n].deputy]

Pass == /\ clock' \in Int /\ clock' > clock
        /\ UNCHANGED lease

Next == Pass \/ \E n \in Things : Take(n) \/ Hand(n) \/ Extend(n) \/ Depute(n)

Spec == Init /\ [][Next]_<<lease, clock>>
=============================================================================
