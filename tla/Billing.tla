------------------------------ MODULE Billing -------------------------------
(* What the Container contract's billing statistics and the Balance        *)
(* contract's settlement share: the statistics of a node in a container    *)
(* and the reading of them that is paid.                                   *)
EXTENDS Integers

(* EpochBillingStat (without the account, which is its key). *)
EpochBillingStat ==
    [latestEpoch : Nat, latestSize : Int, latestAverage : Int,
     previousEpoch : Nat, previousSize : Int, previousAverage : Int]

(* The load of a node in the epoch before "now", as far as its reports     *)
(* tell.                                                                   *)
BilledSize(r, now) ==
    IF r.latestEpoch < now - 1 THEN r.latestSize
    ELSE IF r.latestEpoch = now
         THEN IF r.previousEpoch = now - 1 THEN r.previousAverage
              ELSE r.previousSize
    ELSE IF r.latestEpoch = now - 1 THEN r.latestAverage
    ELSE 0

(* Division of the Neo VM, which rounds towards zero. *)
Quotient(a, b) == IF a >= 0 THEN a \div b ELSE -((-a) \div b)
=============================================================================
