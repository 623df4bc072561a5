-------------------------- MODULE DeploymentProofs --------------------------
(***************************************************************************)
(* What Deployment promises, proved for every committee, every order of    *)
(* transactions and any number of mishaps.  Every property follows from an *)
(* inductive invariant on top of the types:                                *)
(*   NeoInv     where the NEO is, and what is on its way (EvenShares)      *)
(*   GoalInv    stages that were left behind (GoalsBehind; uses NeoInv)    *)
(*   RecInv     records (Settled; uses NeoInv)                             *)
(*   PayInv, FundInv   what is paid to members (FundedOnce)                *)
(***************************************************************************)
EXTENDS Deployment, Sums, TLAPS

(* The goals of the stages are one-line facts about the chain. *)
USE DEF NNSDeployed, Prefilled, ProxyFunded, AllCandidates, NNSUpdated, Synchronized, Distributed

(* The shares of n members add up to what is shared. *)
LEMMA SharesAddUp ==
    ASSUME NEW k \in Nat \ {0}, NEW amount \in Nat, NEW w,
           \A i \in 0..(k - 1) : w[i] = amount \div k + IF i < amount % k THEN 1 ELSE 0
    PROVE  SumFunctionOnSet(w, 0..(k - 1)) = amount
<1> DEFINE q == amount \div k
           r == amount % k
           So(j) == q * j + IF j < r THEN j ELSE r
           Good == {j \in Nat : j <= k => SumFunctionOnSet(w, 0..(j - 1)) = So(j)}
<1>1. q \in Nat /\ r \in 0..(k - 1) /\ amount = k * q + r
  OBVIOUS
<1>2. \A i \in 0..(k - 1) : w[i] = q + IF i < r THEN 1 ELSE 0
  OBVIOUS
<1> HIDE DEF q, r
<1>3. 0 \in Good
  <2>1. 0..(0 - 1) = {}
    OBVIOUS
  <2>2. So(0) = 0
    BY <1>1
  <2> QED BY <2>1, <2>2, SumEmpty
<1>4. ASSUME NEW j \in Good PROVE j + 1 \in Good
  <2> SUFFICES ASSUME j + 1 <= k
               PROVE  SumFunctionOnSet(w, 0..((j + 1) - 1)) = So(j + 1)
    OBVIOUS
  <2>1. j \in Nat /\ 0..((j + 1) - 1) = (0..(j - 1)) \cup {j} /\ j \notin 0..(j - 1)
    OBVIOUS
  <2>2. IsFiniteSet(0..(j - 1))
    BY <2>1, FS_Interval
  <2>3. \A x \in (0..(j - 1)) \cup {j} : w[x] \in Int
    <3>1. (0..(j - 1)) \cup {j} \subseteq 0..(k - 1)
      BY <2>1
    <3>2. \A x \in 0..(k - 1) : w[x] \in Int
      BY <1>1, <1>2
    <3> QED BY <3>1, <3>2
  <2>4. SumFunctionOnSet(w, (0..(j - 1)) \cup {j}) = w[j] + SumFunctionOnSet(w, 0..(j - 1))
    BY <2>1, <2>2, <2>3, SumAdd
  <2>5. SumFunctionOnSet(w, 0..(j - 1)) = So(j)
    BY <2>1
  <2>6. q * (j + 1) = q * j + q /\ q * j \in Nat
    BY <1>1, <2>1
  <2>7. w[j] = q + IF j < r THEN 1 ELSE 0
    BY <1>2, <2>1
  <2> DEFINE p == q * j
             p1 == q * (j + 1)
  <2>8. p \in Nat /\ p1 = p + q
    BY <2>6
  <2>9. So(j) = p + (IF j < r THEN j ELSE r) /\ So(j + 1) = p1 + IF j + 1 < r THEN j + 1 ELSE r
    OBVIOUS
  <2> HIDE DEF p, p1, So
  <2>10. So(j + 1) = w[j] + So(j)
    BY <1>1, <2>1, <2>7, <2>8, <2>9
  <2> QED BY <2>1, <2>4, <2>5, <2>10
<1>5. Good = Nat
  <2> HIDE DEF Good
  <2>1. Good \in SUBSET Nat
    BY DEF Good
  <2> QED BY <2>1, <1>3, <1>4, NatInductive
<1>6. SumFunctionOnSet(w, 0..(k - 1)) = So(k)
  <2>1. k \in Good
    BY <1>5
  <2> QED BY <2>1
<1>7. So(k) = amount
  BY <1>1
<1> QED BY <1>6, <1>7

(* The smaller and the greater of two integers. *)
LEMMA LeastOfTwo ==
    \A a, b \in Int : Min({a, b}) = IF a <= b THEN a ELSE b
<1> SUFFICES ASSUME NEW a \in Int, NEW b \in Int PROVE Min({a, b}) = IF a <= b THEN a ELSE b
  OBVIOUS
<1> DEFINE m == IF a <= b THEN a ELSE b
<1>1. m \in {a, b} /\ \A y \in {a, b} : m <= y
  OBVIOUS
<1>2. Min({a, b}) \in {a, b} /\ \A y \in {a, b} : Min({a, b}) <= y
  BY <1>1 DEF Min
<1> QED BY <1>1, <1>2

LEMMA GreatestOfTwo ==
    \A a, b \in Int : Max({a, b}) = IF a >= b THEN a ELSE b
<1> SUFFICES ASSUME NEW a \in Int, NEW b \in Int PROVE Max({a, b}) = IF a >= b THEN a ELSE b
  OBVIOUS
<1> DEFINE m == IF a >= b THEN a ELSE b
<1>1. m \in {a, b} /\ \A y \in {a, b} : m >= y
  OBVIOUS
<1>2. Max({a, b}) \in {a, b} /\ \A y \in {a, b} : Max({a, b}) >= y
  BY <1>1 DEF Max
<1> QED BY <1>1, <1>2

Below(S, i) == {j \in S : j < i}

(* How many of some numbers are smaller than i. *)
LEMMA CountBelow ==
    ASSUME NEW S \in SUBSET Nat, NEW i \in Nat
    PROVE  /\ Cardinality(Below(S, i)) \in Nat
           /\ Cardinality(Below(S, 0)) = 0
           /\ Cardinality(Below(S, i + 1))
                = Cardinality(Below(S, i)) + IF i \in S THEN 1 ELSE 0
<1> USE DEF Below
<1> DEFINE B == {j \in S : j < i}
           C == {j \in S : j < i + 1}
           Z == {j \in S : j < 0}
<1>1. B \in SUBSET Nat /\ C \in SUBSET Nat /\ Z \in SUBSET Nat
  OBVIOUS
<1>2. \A j \in Nat : /\ j \in B <=> j \in S /\ j < i
                     /\ j \in C <=> j \in S /\ j < i + 1
                     /\ j \in Z <=> j \in S /\ j < 0
  OBVIOUS
<1> HIDE DEF B, C, Z
<1>3. Z = {}
  BY <1>1, <1>2
<1>4. IsFiniteSet(B)
  <2>1. \A s \in B : s <= i
    BY <1>1, <1>2
  <2> QED BY <1>1, <2>1, FS_BoundedSetOfNaturals
<1>5. \A j \in Nat : j < i + 1 <=> (j < i \/ j = i)
  OBVIOUS
<1>6. i \notin B
  BY <1>2
<1>7. CASE i \in S
  <2>1. C = B \cup {i}
    BY <1>1, <1>2, <1>5, <1>7
  <2>2. Cardinality(B \cup {i}) = Cardinality(B) + 1
    BY <1>4, <1>6, FS_AddElement
  <2> QED BY <1>3, <1>4, <1>7, <2>1, <2>2, FS_CardinalityType, FS_EmptySet DEF B, C, Z
<1>8. CASE i \notin S
  <2>1. C = B
    BY <1>1, <1>2, <1>5, <1>8
  <2>2. Cardinality(B) \in Nat
    BY <1>4, FS_CardinalityType
  <2> QED BY <1>3, <1>8, <2>1, <2>2, FS_EmptySet DEF B, C, Z
<1> QED BY <1>7, <1>8

(* Those of S among 0, 1, ... k - 1 are given the amount A in turn, until  *)
(* the rest of G is given.                                                 *)
InTurn(w, S, A, G, k) ==
    \A i \in 0..(k - 1) : w[i] =
        IF i \in S THEN Max({0, Min({A, G - A * Cardinality(Below(S, i))})}) ELSE 0

(* Then all that is needed is given, or all there is.                      *)
Given(w, S, A, G, k) ==
    /\ \A i \in 0..(k - 1) : w[i] \in 0..A
    /\ SumFunctionOnSet(w, 0..(k - 1)) =
         IF A * Cardinality(Below(S, k)) <= G THEN A * Cardinality(Below(S, k)) ELSE G
    /\ (\A i \in 0..(k - 1) : w[i] \in {0, A}) \/ SumFunctionOnSet(w, 0..(k - 1)) = G

(* Giving in turn gives all that is needed, or all there is. *)
LEMMA GivenInTurn ==
    ASSUME NEW S \in SUBSET Nat, NEW A \in Nat, NEW G \in Nat, NEW k \in Nat, NEW w,
           InTurn(w, S, A, G, k)
    PROVE  Given(w, S, A, G, k)
<1> USE DEF InTurn, Given
<1> DEFINE c == [i \in Nat |-> Cardinality(Below(S, i))]
           p == [i \in Nat |-> A * c[i]]
           Part(i) == IF p[i] <= G THEN p[i] ELSE G
           Good == {i \in Nat : i <= k => SumFunctionOnSet(w, 0..(i - 1)) = Part(i)}
<1>1. ASSUME NEW i \in Nat
      PROVE  c[i] \in Nat /\ c[0] = 0 /\ c[i + 1] = c[i] + IF i \in S THEN 1 ELSE 0
  <2>1. /\ c[i] = Cardinality(Below(S, i)) /\ c[0] = Cardinality(Below(S, 0))
        /\ c[i + 1] = Cardinality(Below(S, i + 1))
    OBVIOUS
  <2> HIDE DEF c
  <2> QED BY <2>1, CountBelow
<1>2. c[0] = 0
  BY <1>1
<1>3. \A i \in Nat : c[i + 1] = c[i] + IF i \in S THEN 1 ELSE 0
  BY <1>1
<1>4. p[0] = 0 /\ \A i \in Nat : p[i] \in Nat /\ p[i + 1] = p[i] + IF i \in S THEN A ELSE 0
  <2>1. p[0] = 0
    BY <1>2
  <2>2. ASSUME NEW i \in Nat PROVE p[i] \in Nat /\ p[i + 1] = p[i] + IF i \in S THEN A ELSE 0
    <3>1. c[i] \in Nat /\ c[i + 1] = c[i] + IF i \in S THEN 1 ELSE 0
      BY <1>1, <1>3
    <3>2. p[i] = A * c[i] /\ p[i + 1] = A * c[i + 1]
      OBVIOUS
    <3> HIDE DEF c, p
    <3>3. CASE i \in S
      BY <3>1, <3>2, <3>3
    <3>4. CASE i \notin S
      BY <3>1, <3>2, <3>4
    <3> QED BY <3>3, <3>4
  <2> QED BY <2>1, <2>2
<1>5. \A i \in 0..(k - 1) : w[i] = IF i \in S THEN Max({0, Min({A, G - p[i]})}) ELSE 0
  OBVIOUS
<1>6. k \in Nat /\ A * Cardinality(Below(S, k)) = p[k]
  OBVIOUS
<1> HIDE DEF c, p
<1>7. \A i \in 0..(k - 1) : w[i] =
        IF i \notin S \/ p[i] >= G THEN 0 ELSE IF p[i] + A <= G THEN A ELSE G - p[i]
  <2> SUFFICES ASSUME NEW i \in 0..(k - 1), i \in S
               PROVE  w[i] = IF p[i] >= G THEN 0 ELSE IF p[i] + A <= G THEN A ELSE G - p[i]
    BY <1>5
  <2>1. i \in Nat /\ p[i] \in Nat
    BY <1>4
  <2>2. Min({A, G - p[i]}) = IF A <= G - p[i] THEN A ELSE G - p[i]
    BY <2>1, LeastOfTwo
  <2> DEFINE m == Min({A, G - p[i]})
  <2>3. m \in Int
    BY <2>1, <2>2
  <2>4. w[i] = Max({0, m})
    BY <1>5
  <2> HIDE DEF m
  <2>5. w[i] = IF 0 >= m THEN 0 ELSE m
    BY <2>3, <2>4, GreatestOfTwo
  <2> QED BY <2>1, <2>2, <2>5 DEF m
<1>8. \A i \in 0..(k - 1) : w[i] \in 0..A /\ w[i] \in Int
  BY <1>4, <1>7
<1>9. 0 \in Good
  <2>1. 0..(0 - 1) = {}
    OBVIOUS
  <2> QED BY <2>1, <1>4, SumEmpty
<1>10. ASSUME NEW j \in Good PROVE j + 1 \in Good
  <2> SUFFICES ASSUME j + 1 <= k
               PROVE  SumFunctionOnSet(w, 0..((j + 1) - 1)) = Part(j + 1)
    OBVIOUS
  <2>1. j \in Nat /\ 0..((j + 1) - 1) = (0..(j - 1)) \cup {j} /\ j \notin 0..(j - 1)
    OBVIOUS
  <2>2. IsFiniteSet(0..(j - 1))
    BY <2>1, FS_Interval
  <2>3. \A x \in (0..(j - 1)) \cup {j} : w[x] \in Int
    <3>1. (0..(j - 1)) \cup {j} \subseteq 0..(k - 1)
      BY <2>1
    <3> QED BY <3>1, <1>8
  <2>4. SumFunctionOnSet(w, (0..(j - 1)) \cup {j}) = w[j] + SumFunctionOnSet(w, 0..(j - 1))
    BY <2>1, <2>2, <2>3, SumAdd
  <2>5. SumFunctionOnSet(w, 0..(j - 1)) = Part(j)
    BY <2>1
  <2>6. p[j] \in Nat /\ p[j + 1] = p[j] + (IF j \in S THEN A ELSE 0)
    BY <1>4, <2>1
  <2>7. w[j] = IF j \notin S \/ p[j] >= G THEN 0 ELSE IF p[j] + A <= G THEN A ELSE G - p[j]
    BY <1>7, <2>1
  <2>8. Part(j + 1) = w[j] + Part(j)
    <3>1. CASE j \in S
      BY <3>1, <2>6, <2>7
    <3>2. CASE j \notin S
      BY <3>2, <2>6, <2>7
    <3> QED BY <3>1, <3>2
  <2> QED BY <2>1, <2>4, <2>5, <2>8
<1>11. Good = Nat
  <2> HIDE DEF Good
  <2>1. Good \in SUBSET Nat
    BY DEF Good
  <2> QED BY <2>1, <1>9, <1>10, NatInductive
<1>12. SumFunctionOnSet(w, 0..(k - 1)) = Part(k)
  <2>1. k \in Good
    BY <1>11
  <2> QED BY <2>1
<1>13. ASSUME NEW i \in 0..(k - 1), w[i] \notin {0, A} PROVE Part(k) = G
  <2>1. p[i] < G /\ p[i] + A > G /\ i \in S
    BY <1>4, <1>7, <1>13
  <2> DEFINE Later == {j \in Nat : j > i => p[j] >= p[i + 1]}
  <2>2. 0 \in Later
    OBVIOUS
  <2>3. ASSUME NEW j \in Later PROVE j + 1 \in Later
    <3>1. p[j + 1] \in Nat /\ p[j] \in Nat /\ p[i + 1] \in Nat /\ p[j + 1] >= p[j]
      BY <1>4
    <3> QED BY <3>1
  <2>4. Later = Nat
    <3> HIDE DEF Later
    <3>1. Later \in SUBSET Nat
      BY DEF Later
    <3> QED BY <3>1, <2>2, <2>3, NatInductive
  <2>5. k \in Later
    BY <2>4
  <2>6. p[k] \in Nat /\ p[i + 1] = p[i] + A
    BY <1>4, <2>1
  <2> QED BY <2>1, <2>5, <2>6, <1>4
<1> QED BY <1>6, <1>8, <1>12, <1>13

-----------------------------------------------------------------------------
Ops == {"deploy", "update", "record", "tld", "designate", "transfer", "refill", "register",
        "distribute"}
Tx == [by : Members, op : Ops, about : Contracts, pay : [Members -> Nat], rest : Nat,
       neo : Nat, cands : SUBSET Members, signed : SUBSET Members, tracked : BOOLEAN]
Chains == [contracts : [Contracts -> {Missing, Old, New}], recorded : SUBSET Contracts,
           tld : BOOLEAN, notary : BOOLEAN, alphabet : BOOLEAN, candidates : SUBSET Members,
           gas : [{"validators", "committee", "proxy"} -> Nat],
           neo : [{"validators", "committee"} -> Nat],
           purse : [Members -> Nat], share : [Members -> Nat]]

TypeOK ==
    /\ n \in Sizes
    /\ chain \in Chains
    /\ txs \subseteq Tx /\ IsFiniteSet(txs)
    /\ deposited \subseteq Members
    /\ todo \in [Members -> Seq(Stages)]
    /\ tolerant \subseteq Members /\ stopped \subseteq Members
    /\ mishaps \in Nat

(* What the assumptions on the constants say for one size of the           *)
(* committee.                                                              *)
LEMMA CommitteeFacts ==
    ASSUME n \in Sizes
    PROVE  /\ n \in Nat \ {0} /\ Leader \in Members /\ Members \subseteq Nat
           /\ IsFiniteSet(Members) /\ Vault \in {"validators", "committee"}
           /\ Funds[n].gas \in Nat /\ Funds[n].neo \in Nat
           /\ AlphabetGAS \in Nat /\ GASThreshold \in Nat
           /\ {"nns", "proxy"} \subseteq Contracts
           /\ Contracts \cap CommonStages = {}
<1>1. n \in Nat \ {0}
  BY DeploymentAssumption
<1>2. IsFiniteSet(Members)
  BY <1>1, FS_Interval DEF Members
<1>3. Leader \in Members /\ Members \subseteq Nat
  BY <1>1 DEF Leader, Members
<1>4. Funds[n] \in [gas : Nat, neo : Nat]
  BY DeploymentAssumption
<1>5. Contracts \cap CommonStages = {}
  <2>1. AlphabetContracts \subseteq ToSet(Alphabets)
    <3>1. \A i \in Members : i + 1 \in DOMAIN Alphabets
      BY <1>1, DeploymentAssumption DEF Members
    <3> QED BY <3>1 DEF AlphabetContracts, ToSet
  <2>2. ToSet(Services) \subseteq {"netmap", "balance", "reputation", "container"}
    BY DeploymentAssumption DEF ToSet
  <2> QED BY <2>1, <2>2, DeploymentAssumption DEF Contracts, CommonStages
<1> QED BY <1>1, <1>2, <1>3, <1>4, <1>5, DeploymentAssumption DEF Vault, Contracts

(* A share is a number. *)
LEMMA ShareType ==
    ASSUME n \in Sizes, NEW amount \in Nat, NEW i \in Members
    PROVE  Share(amount, i) \in Nat
<1>1. n \in Nat \ {0} /\ i \in Nat
  BY CommitteeFacts
<1> QED BY <1>1 DEF Share

-----------------------------------------------------------------------------
(* What accepted transactions do. *)

Works == {"deploy", "update", "record", "tld", "designate", "register"}

(* What is reached by work is never undone. *)
Grows(before, after) ==
    /\ \A c \in Contracts : /\ before.contracts[c] = New => after.contracts[c] = New
                            /\ before.contracts[c] # Missing => after.contracts[c] # Missing
    /\ before.recorded \subseteq after.recorded
    /\ before.candidates \subseteq after.candidates
    /\ before.tld => after.tld
    /\ before.alphabet => after.alphabet
    /\ before.notary => after.notary

SameFunds(before, after) ==
    /\ before.gas = after.gas /\ before.neo = after.neo
    /\ before.purse = after.purse /\ before.share = after.share

(* Work moves no funds and undoes nothing. *)
LEMMA ExecuteWork ==
    ASSUME TypeOK, NEW t \in Tx, t.op \in Works, Execute(t)
    PROVE  chain' \in Chains /\ SameFunds(chain, chain') /\ Grows(chain, chain')
<1> USE DEF TypeOK, Tx, Chains, Grows, SameFunds
<1>1. CASE t.op = "deploy"
  <2>1. chain' = [chain EXCEPT !.contracts[t.about] = New, !.tld = @ \/ t.about = "nns"]
    BY <1>1 DEF Execute
  <2> QED BY <2>1 DEF Missing, New
<1>2. CASE t.op = "update"
  <2>1. chain' = [chain EXCEPT !.contracts[t.about] = New]
    BY <1>2 DEF Execute
  <2> QED BY <2>1 DEF Missing, New
<1>3. CASE t.op = "record"
  <2>1. chain' = [chain EXCEPT !.recorded = @ \cup {t.about}]
    BY <1>3 DEF Execute
  <2> QED BY <2>1
<1>4. CASE t.op = "tld"
  <2>1. chain' = [chain EXCEPT !.tld = TRUE]
    BY <1>4 DEF Execute
  <2> QED BY <2>1
<1>5. CASE t.op = "designate"
  <2>1. chain' = [chain EXCEPT !.alphabet = TRUE]
    BY <1>5 DEF Execute
  <2> QED BY <2>1
<1>6. CASE t.op = "register"
  <2>1. chain' = [chain EXCEPT !.candidates = @ \cup t.cands]
    BY <1>6 DEF Execute
  <2> QED BY <2>1
<1> QED BY <1>1, <1>2, <1>3, <1>4, <1>5, <1>6 DEF Works

(* Everything but GAS and NEO stays. *)
SameWork(before, after) ==
    /\ before.contracts = after.contracts /\ before.recorded = after.recorded
    /\ before.tld = after.tld /\ before.notary = after.notary
    /\ before.alphabet = after.alphabet /\ before.candidates = after.candidates

(* What a transaction pays is a number. *)
LEMMA PaidType ==
    ASSUME n \in Sizes, NEW t \in Tx
    PROVE  SumFunction(t.pay) \in Nat /\ Paid(t) = SumFunction(t.pay) + t.rest
<1>1. DOMAIN t.pay = Members /\ IsFiniteSet(Members)
  BY CommitteeFacts DEF Tx
<1>2. \A i \in Members : t.pay[i] \in Nat
  BY DEF Tx
<1>3. SumFunctionOnSet(t.pay, Members) \in Nat
  BY <1>1, <1>2, SumNat
<1> QED BY <1>1, <1>3 DEF SumFunction, Paid

(* The initial transfer: where its GAS and its NEO come from and go to. *)
LEMMA ExecuteTransfer ==
    ASSUME TypeOK, NEW t \in Tx, t.op = "transfer", Executable(t), Execute(t)
    PROVE  /\ chain' \in Chains /\ SameWork(chain, chain')
           /\ Paid(t) <= chain.gas[Vault]
           /\ Vault = "validators" =>
                 /\ chain'.gas["validators"] = chain.gas["validators"] - Paid(t)
                 /\ chain'.neo["validators"] = chain.neo["validators"] - t.neo
                 /\ chain'.neo["committee"] = chain.neo["committee"] + t.neo
                 /\ t.neo <= chain.neo["validators"]
           /\ Vault = "committee" =>
                 /\ chain'.gas["committee"] = chain.gas["committee"] - SumFunction(t.pay)
                 /\ chain'.neo = chain.neo
           /\ chain'.purse = [i \in Members |-> chain.purse[i] + t.pay[i]]
           /\ chain'.share = chain.share
<1> DEFINE s == SumFunction(t.pay)
<1>1. s \in Nat /\ t.rest \in Nat /\ t.neo \in Nat /\ Paid(t) = s + t.rest
  BY PaidType DEF TypeOK, Tx
<1>2. s + t.rest <= chain.gas[Vault] /\ t.neo <= chain.neo[Vault]
  BY <1>1 DEF Executable
<1> DEFINE g == [Moved(chain.gas, Vault, "committee", t.rest) EXCEPT ![Vault] = @ - s]
           e == Moved(chain.neo, Vault, "committee", t.neo)
           p == [i \in Members |-> chain.purse[i] + t.pay[i]]
<1>9. chain' = [chain EXCEPT !.gas = g, !.neo = e, !.purse = p]
  BY DEF Execute
<1> HIDE DEF s
<1>4. chain.gas \in [{"validators", "committee", "proxy"} -> Nat]
      /\ chain.neo \in [{"validators", "committee"} -> Nat] /\ chain.purse \in [Members -> Nat]
      /\ t.pay \in [Members -> Nat]
  BY DEF TypeOK, Chains, Tx
<1>5. Vault \in {"validators", "committee"}
  BY CommitteeFacts DEF TypeOK
<1>6. /\ g \in [{"validators", "committee", "proxy"} -> Nat]
      /\ Vault = "validators" => g["validators"] = chain.gas["validators"] - Paid(t)
      /\ Vault = "committee" => g["committee"] = chain.gas["committee"] - s
  <2>1. CASE Vault = "validators"
    BY <1>1, <1>2, <1>4, <2>1 DEF Moved
  <2>2. CASE Vault = "committee"
    BY <1>1, <1>2, <1>4, <2>2 DEF Moved
  <2> QED BY <1>5, <2>1, <2>2
<1>7. /\ e \in [{"validators", "committee"} -> Nat]
      /\ Vault = "validators" => /\ e["validators"] = chain.neo["validators"] - t.neo
                                 /\ e["committee"] = chain.neo["committee"] + t.neo
      /\ Vault = "committee" => e = chain.neo
  <2>1. CASE Vault = "validators"
    BY <1>1, <1>2, <1>4, <2>1 DEF Moved
  <2>2. CASE Vault = "committee"
    BY <1>1, <1>2, <1>4, <2>2 DEF Moved
  <2> QED BY <1>5, <2>1, <2>2
<1>8. p \in [Members -> Nat]
  BY <1>4
<1> HIDE DEF g, e, p
<1>10. /\ chain' \in Chains /\ SameWork(chain, chain')
       /\ chain'.gas = g /\ chain'.neo = e /\ chain'.purse = p /\ chain'.share = chain.share
  BY <1>6, <1>7, <1>8, <1>9 DEF TypeOK, Chains, SameWork
<1> QED BY <1>1, <1>2, <1>6, <1>7, <1>10 DEF p, s

(* A refill moves GAS from the committee to Proxy. *)
LEMMA ExecuteRefill ==
    ASSUME TypeOK, NEW t \in Tx, t.op = "refill", Executable(t), Execute(t)
    PROVE  /\ chain' \in Chains /\ SameWork(chain, chain')
           /\ chain'.gas["validators"] = chain.gas["validators"]
           /\ chain'.gas["committee"] <= chain.gas["committee"]
           /\ chain.gas["proxy"] <= chain'.gas["proxy"]
           /\ chain'.neo = chain.neo /\ chain'.purse = chain.purse /\ chain'.share = chain.share
<1>1. t.rest \in Nat /\ t.rest <= chain.gas["committee"]
  BY DEF Executable, Tx
<1> DEFINE g == Moved(chain.gas, "committee", "proxy", t.rest)
<1>2. chain.gas \in [{"validators", "committee", "proxy"} -> Nat]
  BY DEF TypeOK, Chains
<1>3. g \in [{"validators", "committee", "proxy"} -> Nat]
      /\ g["validators"] = chain.gas["validators"] /\ g["committee"] <= chain.gas["committee"]
      /\ chain.gas["proxy"] <= g["proxy"]
  BY <1>1, <1>2 DEF Moved
<1>4. chain' = [chain EXCEPT !.gas = g]
  BY DEF Execute
<1> HIDE DEF g
<1> QED BY <1>3, <1>4 DEF TypeOK, Chains, SameWork

(* A distribution divides the NEO of the committee. *)
LEMMA ExecuteDistribute ==
    ASSUME TypeOK, NEW t \in Tx, t.op = "distribute", Executable(t), Execute(t)
    PROVE  /\ chain' \in Chains /\ SameWork(chain, chain')
           /\ t.neo <= chain.neo["committee"]
           /\ chain'.neo["validators"] = chain.neo["validators"]
           /\ chain'.neo["committee"] = chain.neo["committee"] - t.neo
           /\ chain'.gas = chain.gas /\ chain'.purse = chain.purse
           /\ chain'.share = [i \in Members |-> chain.share[i] + Share(t.neo, i)]
<1>1. t.neo \in Nat /\ t.neo <= chain.neo["committee"]
  BY DEF Executable, Tx
<1> DEFINE e == [chain.neo EXCEPT !["committee"] = @ - t.neo]
           s == [i \in Members |-> chain.share[i] + Share(t.neo, i)]
<1>2. chain.neo \in [{"validators", "committee"} -> Nat] /\ chain.share \in [Members -> Nat]
  BY DEF TypeOK, Chains
<1>3. e \in [{"validators", "committee"} -> Nat] /\ e["validators"] = chain.neo["validators"]
      /\ e["committee"] = chain.neo["committee"] - t.neo
  BY <1>1, <1>2
<1>4. s \in [Members -> Nat]
  <2>1. \A i \in Members : Share(t.neo, i) \in Nat
    BY <1>1, ShareType DEF TypeOK
  <2> QED BY <1>2, <2>1
<1>5. chain' = [chain EXCEPT !.neo = e, !.share = s]
  <2>1. chain' = [chain EXCEPT !.neo["committee"] = @ - t.neo,
                               !.share = [i \in Members |-> @[i] + Share(t.neo, i)]]
    BY DEF Execute
  <2> QED BY <2>1
<1> HIDE DEF e, s
<1>6. /\ chain' \in Chains /\ SameWork(chain, chain') /\ chain'.neo = e
      /\ chain'.gas = chain.gas /\ chain'.purse = chain.purse /\ chain'.share = s
  BY <1>3, <1>4, <1>5 DEF TypeOK, Chains, SameWork
<1> QED BY <1>1, <1>3, <1>6 DEF s

(* An image has at most as many members. *)
LEMMA ImageFinite ==
    ASSUME NEW S, IsFiniteSet(S), NEW f
    PROVE  IsFiniteSet({f[x] : x \in S}) /\ Cardinality({f[x] : x \in S}) <= Cardinality(S)
<1> DEFINE T == {f[x] : x \in S}
           g == [x \in S |-> f[x]]
<1>1. g \in Surjection(S, T)
  BY DEF Surjection
<1> HIDE DEF g, T
<1>2. IsFiniteSet(T) /\ Cardinality(T) <= Cardinality(S)
  BY <1>1, FS_Surjection
<1> QED BY <1>2 DEF T

(* What the leader sends: all that is needed, or all there is to spare. *)
LEMMA TransferIs ==
    ASSUME TypeOK, Spare > 0
    PROVE  /\ Transfer \in Tx
           /\ Payment \in [Members -> Nat] /\ \A i \in Members : Payment[i] \in 0..AlphabetGAS
           /\ SumFunction(Payment) \in Nat
           /\ SumFunction(Payment) = 0 => Needy = {}
           /\ Needy = {} => SumFunction(Payment) = 0
           /\ (\A i \in Members : Payment[i] \in {0, AlphabetGAS}) \/ SumFunction(Payment) = Spare
           /\ Transfer.by = Leader /\ Transfer.op = "transfer" /\ Transfer.pay = Payment
           /\ Transfer.tracked /\ Transfer.about = "nns"
           /\ Vault = "committee" => Transfer.rest = 0 /\ Transfer.neo = 0
           /\ Vault = "validators" => /\ Transfer.rest = Spare - SumFunction(Payment)
                                      /\ Transfer.neo = chain.neo["validators"]
<1> DEFINE A == AlphabetGAS
           S == Needy
           G == Spare
           w == Payment
           s == SumFunctionOnSet(Payment, Members)
<1>0. A \in Nat /\ n \in Nat \ {0} /\ Members = 0..(n - 1) /\ Members \subseteq Nat
  BY CommitteeFacts DEF TypeOK, Members
<1>1. S \in SUBSET Members /\ S \in SUBSET Nat
  BY <1>0 DEF Needy
<1>2. G \in Nat \ {0} /\ Vault \in {"validators", "committee"}
  <2>1. Vault \in {"validators", "committee"}
    BY CommitteeFacts DEF TypeOK
  <2>2. chain.gas[Vault] \in Nat /\ GASThreshold \in Nat
    BY <2>1, CommitteeFacts DEF TypeOK, Chains
  <2> QED BY <2>1, <2>2 DEF Spare
<1>3. \A i \in Members : w[i] =
        IF i \in S THEN Max({0, Min({A, G - A * Cardinality(Below(S, i))})}) ELSE 0
  BY DEF Payment, Below
<1>4. w = [i \in Members |-> w[i]]
  BY DEF Payment
<1>5. Below(S, n) = S
  <2>1. \A j \in S : j < n
    BY <1>0, <1>1
  <2> QED BY <2>1 DEF Below
<1> HIDE DEF A, S, G, w
<1>6. Given(w, S, A, G, n)
  <2>1. InTurn(w, S, A, G, n)
    BY <1>0, <1>3 DEF InTurn
  <2>2. G \in Nat /\ n \in Nat
    BY <1>0, <1>2
  <2> QED BY <1>0, <1>1, <2>1, <2>2, GivenInTurn
<1> DEFINE c == Cardinality(S)
           need == A * c
<1>7. c \in Nat /\ (c = 0 => S = {}) /\ (S = {} => c = 0)
  BY <1>1, CommitteeFacts, FS_Subset, FS_CardinalityType, FS_EmptySet DEF TypeOK
<1>8. s = IF need <= G THEN need ELSE G
  BY <1>0, <1>5, <1>6 DEF w, Given
<1>9. S # {} => A > 0
  <2> SUFFICES ASSUME NEW i \in S PROVE A > 0
    OBVIOUS
  <2>1. chain.purse[i] \in Nat /\ chain.purse[i] < A \div 2
    BY <1>1 DEF S, A, Needy, TypeOK, Chains
  <2> QED BY <1>0, <2>1
<1> HIDE DEF c
<1>10. need \in Nat /\ (need = 0 => A = 0 \/ c = 0) /\ (c = 0 => need = 0)
  BY <1>0, <1>7
<1> HIDE DEF need
<1>11. /\ s \in Nat /\ s <= G /\ (s = 0 => S = {}) /\ (S = {} => s = 0)
       /\ (\A i \in Members : w[i] \in {0, A}) \/ s = G
       /\ \A i \in Members : w[i] \in 0..A
  BY <1>0, <1>2, <1>6, <1>7, <1>8, <1>9, <1>10 DEF w, Given
<1>12. w \in [Members -> Nat]
  <2>1. \A i \in Members : w[i] \in Nat
    BY <1>0, <1>11
  <2> QED BY <1>4, <2>1
<1>13. SumFunction(Payment) = s
  BY <1>4 DEF SumFunction, w
<1> HIDE DEF s
<1>14. /\ Transfer.by = Leader /\ Transfer.op = "transfer" /\ Transfer.pay = w /\ Transfer.tracked
       /\ Transfer.about = "nns"
       /\ Transfer.rest = IF Vault = "committee" THEN 0 ELSE G - s
       /\ Transfer.neo = IF Vault = "committee" THEN 0 ELSE chain.neo[Vault]
       /\ Transfer.cands = {} /\ Transfer.signed = {Leader}
       /\ Transfer = [by |-> Transfer.by, op |-> Transfer.op, about |-> Transfer.about,
                      pay |-> Transfer.pay, rest |-> Transfer.rest, neo |-> Transfer.neo,
                      cands |-> Transfer.cands, signed |-> Transfer.signed,
                      tracked |-> Transfer.tracked]
  <2> DEFINE r == IF Vault = "committee" THEN 0 ELSE G - s
             e == IF Vault = "committee" THEN 0 ELSE chain.neo[Vault]
  <2>1. Transfer = [Transaction(Leader, "transfer", "nns") EXCEPT !.pay = w, !.rest = r, !.neo = e]
    BY <1>13 DEF Transfer, G, w
  <2> HIDE DEF r, e
  <2>2. Transfer = [by |-> Leader, op |-> "transfer", about |-> "nns", pay |-> w, rest |-> r,
                    neo |-> e, cands |-> {}, signed |-> {Leader}, tracked |-> TRUE]
    BY <2>1 DEF Transaction
  <2> QED BY <2>2 DEF r, e
<1>15. Transfer.rest \in Nat
  BY <1>2, <1>11, <1>14
<1>16. Transfer.neo \in Nat
  BY <1>2, <1>14 DEF TypeOK, Chains
<1>17. Leader \in Members /\ "nns" \in Contracts
  BY CommitteeFacts DEF TypeOK
<1>18. Transfer \in Tx
  BY <1>12, <1>14, <1>15, <1>16, <1>17 DEF Tx, Ops
<1> QED BY <1>2, <1>11, <1>12, <1>13, <1>14, <1>18 DEF w, A, S, G

(* What is left to be transferred, in plain words.                         *)
LEMMA TransferredIs ==
    ASSUME TypeOK
    PROVE  Transferred <=> Spare <= 0 \/ (Vault = "committee" /\ Needy = {})
<1>1. Spare \in Int /\ Vault \in {"validators", "committee"}
  <2>1. Vault \in {"validators", "committee"}
    BY CommitteeFacts DEF TypeOK
  <2>2. chain.gas[Vault] \in Nat /\ GASThreshold \in Nat
    BY <2>1, CommitteeFacts DEF TypeOK, Chains
  <2> QED BY <2>1, <2>2 DEF Spare
<1>2. CASE Spare <= 0
  BY <1>2 DEF Transferred
<1>3. CASE Spare > 0
  <2>1. SumFunction(Payment) \in Nat /\ Transfer \in Tx /\ Transfer.pay = Payment
        /\ (SumFunction(Payment) = 0 => Needy = {}) /\ (Needy = {} => SumFunction(Payment) = 0)
    BY <1>3, TransferIs
  <2>2. Paid(Transfer) = SumFunction(Payment) + Transfer.rest
        /\ Transfer.rest \in Nat /\ Transfer.neo \in Nat
    BY <2>1, PaidType DEF TypeOK, Tx
  <2>3. CASE Vault = "committee"
    <3>1. Transfer.rest = 0 /\ Transfer.neo = 0
      BY <1>3, <2>3, TransferIs
    <3> QED BY <1>1, <1>3, <2>1, <2>2, <2>3, <3>1 DEF Transferred
  <2>4. CASE Vault = "validators"
    <3>1. Transfer.rest = Spare - SumFunction(Payment)
      BY <1>3, <2>4, TransferIs
    <3>2. Paid(Transfer) + Transfer.neo > 0
      BY <1>1, <1>3, <2>1, <2>2, <3>1
    <3> QED BY <1>1, <1>3, <2>4, <3>2 DEF Transferred
  <2> QED BY <1>1, <2>3, <2>4
<1> QED BY <1>1, <1>2, <1>3

-----------------------------------------------------------------------------
(* What members send. *)

Sendable(t) ==
    /\ t.tracked /\ Executable(t)
    /\ IF t.op = "transfer"
       THEN /\ t.by = Leader /\ Stage(Leader) = "transfer" /\ ~Pending(Leader, "transfer")
            /\ Spare > 0 /\ ~Transferred
            /\ t.pay = Payment /\ t.rest = Transfer.rest /\ t.neo = Transfer.neo
       ELSE t.pay = Nothing
    /\ t.op = "distribute" => t.neo = chain.neo["committee"] /\ t.neo > 0
    /\ t.op = "record" => t.about # "nns"
    /\ \E s \in Stages : ~Reached(s)

(* Transactions as the stages make them. *)
LEMMA TransactionType ==
    ASSUME NEW m \in Members, NEW op \in Ops, NEW c \in Contracts
    PROVE  /\ Transaction(m, op, c) \in Tx
           /\ Transaction(m, op, c).by = m /\ Transaction(m, op, c).op = op
           /\ Transaction(m, op, c).about = c /\ Transaction(m, op, c).pay = Nothing
           /\ Transaction(m, op, c).tracked
  BY DEF Transaction, Tx, Nothing

(* Signatures do not matter for what a transaction does.                   *)
LEMMA SignedSendable ==
    ASSUME NEW t \in Tx, NEW s \in SUBSET Members, Sendable(t)
    PROVE  /\ [t EXCEPT !.signed = s] \in Tx
           /\ Sendable([t EXCEPT !.signed = s])
<1> DEFINE u == [t EXCEPT !.signed = s]
<1>1. u \in Tx
  BY DEF Tx
<1>2. /\ u.by = t.by /\ u.op = t.op /\ u.about = t.about /\ u.pay = t.pay /\ u.rest = t.rest
      /\ u.neo = t.neo /\ u.cands = t.cands /\ u.tracked = t.tracked
  BY DEF Tx
<1> HIDE DEF u
<1>3. Useless(u, chain) = Useless(t, chain)
  BY <1>2 DEF Useless
<1>4. Paid(u) = Paid(t)
  BY <1>2 DEF Paid
<1>5. Executable(u) = Executable(t)
  BY <1>2, <1>3, <1>4 DEF Executable
<1>6. Sendable(u)
  BY <1>2, <1>5 DEF Sendable
<1> QED BY <1>1, <1>6 DEF u

(* One transaction is sent, and maybe a signature goes astray.             *)
Submitted(t) ==
    /\ Sendable(t) /\ Sent(t)
    /\ mishaps' \in Nat /\ mishaps' >= mishaps

(* Sending, with the signatures of others or without. *)
LEMMA SimpleSends ==
    ASSUME TypeOK, NEW t \in Tx, Sendable(t), Simple(t)
    PROVE  \E u \in Tx : Submitted(u)
  BY DEF Simple, Submitted, TypeOK

LEMMA RequestSends ==
    ASSUME TypeOK, NEW t \in Tx, Sendable(t), Request(t)
    PROVE  \E u \in Tx : Submitted(u)
<1> DEFINE signers == (deposited \cap Listening) \cup {t.by}
<1>1. signers \subseteq Members
  BY DEF Tx, TypeOK
<1>2. \/ Sent([t EXCEPT !.signed = signers]) /\ UNCHANGED mishaps
      \/ \E missed \in SUBSET (signers \ {t.by}) :
            Sent([t EXCEPT !.signed = signers \ missed]) /\ Mishap
  BY DEF Request
<1> HIDE DEF signers
<1>3. PICK s \in SUBSET Members :
        Sent([t EXCEPT !.signed = s]) /\ (UNCHANGED mishaps \/ Mishap)
  BY <1>1, <1>2
<1>4. mishaps' \in Nat /\ mishaps' >= mishaps
  BY <1>3 DEF Mishap, TypeOK
<1>5. [t EXCEPT !.signed = s] \in Tx /\ Sendable([t EXCEPT !.signed = s])
  BY SignedSendable
<1> QED BY <1>3, <1>4, <1>5 DEF Submitted

(* A contract or a stage whose goal is missing: something is left to do.   *)
LEMMA StageFacts ==
    ASSUME TypeOK, NEW c \in Contracts, c # "nns"
    PROVE  /\ c \notin CommonStages /\ c \in Stages
           /\ Reached(c) <=> chain.contracts[c] = New /\ c \in chain.recorded
<1>1. c \notin CommonStages
  BY CommitteeFacts DEF TypeOK
<1> QED BY <1>1 DEF CommonStages, Stages, Reached

(* Each stage sends what it may send, and only while its goal is not       *)
(* reached.                                                                *)
LEMMA SendsTransfer ==
    ASSUME TypeOK, NEW m \in Members, TransferFunds(m)
    PROVE  \E u \in Tx : Submitted(u)
<1>1. m = Leader /\ Stage(Leader) = "transfer" /\ ~Pending(Leader, "transfer")
      /\ ~Transferred /\ Request(Transfer)
  BY DEF TransferFunds
<1>2. Spare > 0
  <2>1. Spare \in Int
    BY CommitteeFacts DEF TypeOK, Chains, Spare
  <2> QED BY <1>1, <2>1 DEF Transferred
<1>3. Transfer \in Tx /\ Transfer.op = "transfer" /\ Transfer.by = Leader
      /\ Transfer.pay = Payment /\ Transfer.tracked
  BY <1>2, TransferIs
<1>4. "transfer" \in Stages /\ ~Reached("transfer")
  BY <1>1 DEF Stages, CommonStages, Reached
<1>5. Executable(Transfer)
  BY <1>1 DEF Request
<1>6. Sendable(Transfer)
  BY <1>1, <1>2, <1>3, <1>4, <1>5 DEF Sendable
<1> QED BY <1>1, <1>3, <1>6, RequestSends

LEMMA SendsRecord ==
    ASSUME TypeOK, NEW m \in Members, NEW c \in Contracts, c # "nns",
           \E s \in Stages : ~Reached(s), SetRecord(m, c)
    PROVE  \E u \in Tx : Submitted(u)
<1>1. CASE chain.tld
  <2> DEFINE t == Transaction(m, "record", c)
  <2>1. Simple(t)
    BY <1>1 DEF SetRecord
  <2>2. t \in Tx /\ t.op = "record" /\ t.about = c /\ t.pay = Nothing /\ t.tracked
    BY TransactionType DEF Ops
  <2> HIDE DEF t
  <2>3. Sendable(t)
    BY <2>1, <2>2 DEF Simple, Sendable
  <2> QED BY <2>1, <2>2, <2>3, SimpleSends
<1>2. CASE ~chain.tld
  <2> DEFINE t == Transaction(m, "tld", "nns")
  <2>1. Request(t)
    BY <1>2 DEF SetRecord
  <2>2. t \in Tx /\ t.op = "tld" /\ t.pay = Nothing /\ t.tracked
    BY TransactionType, CommitteeFacts DEF Ops, TypeOK
  <2> HIDE DEF t
  <2>3. Sendable(t)
    BY <2>1, <2>2 DEF Request, Sendable
  <2> QED BY <2>1, <2>2, <2>3, RequestSends
<1> QED BY <1>1, <1>2

(* Requests and simple transactions without funds.                         *)
LEMMA SendsWork ==
    ASSUME TypeOK, NEW t \in Tx, t.op \notin {"transfer", "distribute", "record"},
           t.pay = Nothing, t.tracked, \E s \in Stages : ~Reached(s),
           Request(t) \/ Simple(t)
    PROVE  \E u \in Tx : Submitted(u)
<1>1. Executable(t)
  BY DEF Request, Simple
<1>2. Sendable(t)
  BY <1>1 DEF Sendable
<1> QED BY <1>2, RequestSends, SimpleSends

LEMMA SendsPlainWork ==
    ASSUME TypeOK, NEW m \in Members, NEW c \in Contracts, NEW op \in Ops,
           op \notin {"transfer", "distribute", "record"}, \E s \in Stages : ~Reached(s),
           Request(Transaction(m, op, c)) \/ Simple(Transaction(m, op, c))
    PROVE  \E u \in Tx : Submitted(u)
<1> DEFINE t == Transaction(m, op, c)
<1>1. t \in Tx /\ t.op = op /\ t.pay = Nothing /\ t.tracked
  BY TransactionType
<1>2. Request(t) \/ Simple(t)
  OBVIOUS
<1> HIDE DEF t
<1> QED BY <1>1, <1>2, SendsWork

LEMMA SendsDistribute ==
    ASSUME TypeOK, NEW m \in Members, Distribute(m)
    PROVE  \E u \in Tx : Submitted(u)
<1> DEFINE a == chain.neo["committee"]
           t == [Transaction(m, "distribute", "nns") EXCEPT !.neo = a]
<1>1. a \in Nat /\ a > 0
  BY DEF Distribute, TypeOK, Chains
<1>2. Request(t)
  BY DEF Distribute
<1>3. ~Reached("distribute") /\ "distribute" \in Stages
  BY <1>1 DEF Reached, Stages, CommonStages
<1> HIDE DEF a
<1>4. t \in Tx /\ t.op = "distribute" /\ t.pay = Nothing /\ t.tracked /\ t.neo = a
  <2>1. Transaction(m, "distribute", "nns") \in Tx
        /\ Transaction(m, "distribute", "nns").op = "distribute"
        /\ Transaction(m, "distribute", "nns").pay = Nothing
        /\ Transaction(m, "distribute", "nns").tracked
    BY TransactionType, CommitteeFacts DEF Ops, TypeOK
  <2> QED BY <1>1, <2>1 DEF Tx
<1> HIDE DEF t
<1>5. Sendable(t)
  BY <1>1, <1>2, <1>3, <1>4 DEF Request, Sendable, a
<1> QED BY <1>2, <1>4, <1>5, RequestSends

(* So does every step of a member that sends something. *)
LEMMA StepSends ==
    ASSUME TypeOK, NEW m \in Members, Send(m) \/ SendDeployment(m)
    PROVE  /\ \E u \in Tx : Submitted(u)
           /\ UNCHANGED <<n, chain, deposited, todo, stopped>>
           /\ tolerant' \subseteq tolerant
<1>1. UNCHANGED <<n, chain, deposited, todo, stopped>> /\ tolerant' \subseteq tolerant
  BY DEF Send, SendDeployment
<1> SUFFICES \E u \in Tx : Submitted(u)
  BY <1>1
<1>2. {"nns", "proxy"} \subseteq Contracts /\ Leader \in Members
  BY CommitteeFacts DEF TypeOK
<1>3. CASE TransferFunds(m)
  BY <1>3, SendsTransfer
<1>4. CASE DeployNNS(m)
  <2>1. "nns" \in Stages /\ ~Reached("nns")
    BY <1>2, <1>4 DEF DeployNNS, Stages, Reached
  <2>2. Simple(Transaction(m, "deploy", "nns"))
    BY <1>4 DEF DeployNNS
  <2> QED BY <1>2, <2>1, <2>2, SendsPlainWork DEF Ops
<1>5. CASE DesignateAlphabet(m)
  <2>1. "alphabet role" \in Stages /\ ~Reached("alphabet role")
    BY <1>5 DEF DesignateAlphabet, Stages, CommonStages, Reached
  <2>2. Request(Transaction(m, "designate", "nns"))
    BY <1>5 DEF DesignateAlphabet
  <2> QED BY <1>2, <2>1, <2>2, SendsPlainWork DEF Ops
<1>6. CASE PrefillNNS(m)
  <2>1. "prefill" \in Stages /\ ~Reached("prefill") /\ "container" \in Contracts
    BY <1>6 DEF PrefillNNS, Stages, CommonStages, Reached
  <2>2. SetRecord(m, "container")
    BY <1>6 DEF PrefillNNS
  <2> QED BY <2>1, <2>2, SendsRecord
<1>7. CASE RefillProxy(m)
  <2>1. "refill" \in Stages /\ ~Reached("refill")
    <3>1. chain.gas["proxy"] = 0
      BY <1>7 DEF RefillProxy
    <3> QED BY <3>1 DEF Stages, CommonStages, Reached
  <2>2. Refill \in Tx /\ Refill.op = "refill" /\ Refill.pay = Nothing /\ Refill.tracked
    <3> DEFINE r == (chain.gas["committee"] * InitialProxyGASPercent) \div 100
    <3>1. r \in Nat
      BY DEF InitialProxyGASPercent, TypeOK, Chains
    <3>2. Refill = [Transaction(Leader, "refill", "proxy") EXCEPT !.rest = r]
      BY DEF Refill
    <3> HIDE DEF r
    <3>3. Transaction(Leader, "refill", "proxy") \in Tx
          /\ Transaction(Leader, "refill", "proxy").op = "refill"
          /\ Transaction(Leader, "refill", "proxy").pay = Nothing
          /\ Transaction(Leader, "refill", "proxy").tracked
      BY <1>2, TransactionType DEF Ops
    <3> QED BY <3>1, <3>2, <3>3 DEF Tx
  <2>3. Request(Refill)
    BY <1>7 DEF RefillProxy
  <2> QED BY <2>1, <2>2, <2>3, SendsWork
<1>8. CASE RegisterCandidates(m)
  <2>1. "candidates" \in Stages /\ ~Reached("candidates")
    BY <1>8 DEF RegisterCandidates, Stages, CommonStages, Reached
  <2> DEFINE x == Members \ chain.candidates
             t == [Transaction(m, "register", "nns") EXCEPT !.cands = x]
  <2>2. Request(t) /\ x \in SUBSET Members
    BY <1>8 DEF RegisterCandidates
  <2> HIDE DEF x
  <2>3. t \in Tx /\ t.op = "register" /\ t.pay = Nothing /\ t.tracked
    <3>1. Transaction(m, "register", "nns") \in Tx
          /\ Transaction(m, "register", "nns").op = "register"
          /\ Transaction(m, "register", "nns").pay = Nothing
          /\ Transaction(m, "register", "nns").tracked
      BY <1>2, TransactionType DEF Ops
    <3> QED BY <2>2, <3>1 DEF Tx
  <2> HIDE DEF t
  <2> QED BY <2>1, <2>2, <2>3, SendsWork
<1>9. CASE UpdateNNS(m)
  <2>1. "update nns" \in Stages /\ ~Reached("update nns")
    BY <1>9 DEF UpdateNNS, Update, Stages, CommonStages, Reached, Old, New
  <2>2. Request(Transaction(m, "update", "nns"))
    BY <1>9 DEF UpdateNNS, Update
  <2> QED BY <1>2, <2>1, <2>2, SendsPlainWork DEF Ops
<1>10. CASE Distribute(m)
  BY <1>10, SendsDistribute
<1>11. ASSUME NEW c \in Contracts, UpdateContract(m, c) PROVE \E u \in Tx : Submitted(u)
  <2>1. c # "nns" /\ chain.contracts[c] = Old /\ Request(Transaction(m, "update", c))
    BY <1>11 DEF UpdateContract, Update
  <2>2. c \in Stages /\ ~Reached(c)
    BY <2>1, StageFacts DEF Old, New
  <2> QED BY <2>1, <2>2, SendsPlainWork DEF Ops
<1>12. ASSUME NEW c \in Contracts, RecordContract(m, c) PROVE \E u \in Tx : Submitted(u)
  <2>1. c # "nns" /\ c \notin chain.recorded /\ SetRecord(m, c)
    BY <1>12 DEF RecordContract
  <2>2. c \in Stages /\ ~Reached(c)
    BY <2>1, StageFacts
  <2> QED BY <2>1, <2>2, SendsRecord
<1>13. ASSUME NEW c \in Contracts, DeployContract(m, c) PROVE \E u \in Tx : Submitted(u)
  <2>1. c # "nns" /\ chain.contracts[c] = Missing
    BY <1>13 DEF DeployContract
  <2>2. c \in Stages /\ ~Reached(c)
    BY <2>1, StageFacts DEF Missing, New
  <2>3. Request(Transaction(m, "deploy", c)) \/ Simple(Transaction(m, "deploy", c))
    BY <1>13 DEF DeployContract
  <2> QED BY <2>2, <2>3, SendsPlainWork DEF Ops
<1> QED BY <1>1, <1>3, <1>4, <1>5, <1>6, <1>7, <1>8, <1>9, <1>10, <1>11, <1>12, <1>13
        DEF Send, SendDeployment

-----------------------------------------------------------------------------
(* Types. *)

(* The same transaction, but for its signatures and who waits for it.      *)
Alike(u, t) ==
    /\ u.by = t.by /\ u.op = t.op /\ u.about = t.about /\ u.pay = t.pay
    /\ u.rest = t.rest /\ u.neo = t.neo /\ u.cands = t.cands
    /\ u.tracked => t.tracked

(* Sending adds one transaction; one that is equal is not waited for any   *)
(* more.                                                                   *)
LEMMA SentTypes ==
    ASSUME TypeOK, NEW t \in Tx, Sent(t)
    PROVE  /\ txs' \subseteq Tx /\ IsFiniteSet(txs')
           /\ \A u \in txs' : u = t \/ \E v \in txs : Alike(u, v) /\ (u.tracked => u = v)
<1> DEFINE f == [u \in txs |-> IF u = t THEN [u EXCEPT !.tracked = FALSE] ELSE u]
           old == {f[u] : u \in txs}
<1>1. txs' = old \cup {t}
  BY DEF Sent
<1>2. \A u \in txs : f[u] \in Tx /\ Alike(f[u], u) /\ (f[u].tracked => f[u] = u)
  <2> SUFFICES ASSUME NEW u \in txs
               PROVE  f[u] \in Tx /\ Alike(f[u], u) /\ (f[u].tracked => f[u] = u)
    OBVIOUS
  <2>1. u \in Tx
    BY DEF TypeOK
  <2>2. CASE u = t
    BY <2>1, <2>2 DEF Tx, Alike
  <2>3. CASE u # t
    BY <2>1, <2>3 DEF Tx, Alike
  <2> QED BY <2>2, <2>3
<1> HIDE DEF f
<1>3. IsFiniteSet(old)
  BY ImageFinite DEF TypeOK
<1>4. IsFiniteSet(old \cup {t})
  BY <1>3, FS_AddElement
<1> QED BY <1>1, <1>2, <1>4

(* The monitors of a member end. *)
LEMMA ForgottenTypes ==
    ASSUME TypeOK, NEW m
    PROVE  /\ Forgotten(m) \subseteq Tx /\ IsFiniteSet(Forgotten(m))
           /\ Cardinality(Forgotten(m)) <= Cardinality(txs)
           /\ \A u \in Forgotten(m) :
                 (u.tracked => u.by # m) /\ \E v \in txs : Alike(u, v) /\ (u.tracked => u = v)
<1> DEFINE f == [t \in txs |-> IF t.by = m THEN [t EXCEPT !.tracked = FALSE] ELSE t]
<1>1. Forgotten(m) = {f[u] : u \in txs}
  BY DEF Forgotten
<1>2. \A u \in txs : /\ f[u] \in Tx /\ Alike(f[u], u)
                     /\ f[u].tracked => f[u] = u /\ f[u].by # m
  <2> SUFFICES ASSUME NEW u \in txs
               PROVE  /\ f[u] \in Tx /\ Alike(f[u], u)
                      /\ f[u].tracked => f[u] = u /\ f[u].by # m
    OBVIOUS
  <2>1. u \in Tx
    BY DEF TypeOK
  <2>2. CASE u.by = m
    BY <2>1, <2>2 DEF Tx, Alike
  <2>3. CASE u.by # m
    BY <2>1, <2>3 DEF Tx, Alike
  <2> QED BY <2>2, <2>3
<1> HIDE DEF f
<1>3. IsFiniteSet({f[u] : u \in txs}) /\ Cardinality({f[u] : u \in txs}) <= Cardinality(txs)
  BY ImageFinite DEF TypeOK
<1> QED BY <1>1, <1>2, <1>3

(* What is left of the transactions when member m stops.                   *)
Abandoned(m, unsigned) ==
    {[t EXCEPT !.tracked = @ /\ t.by # m,
               !.signed = @ \ IF t \in unsigned THEN {m} ELSE {}] : t \in txs}

(* A member stops. *)
LEMMA AbandonedTypes ==
    ASSUME TypeOK, NEW m, NEW unsigned
    PROVE  /\ Abandoned(m, unsigned) \subseteq Tx /\ IsFiniteSet(Abandoned(m, unsigned))
           /\ Cardinality(Abandoned(m, unsigned)) <= Cardinality(txs)
           /\ \A u \in Abandoned(m, unsigned) :
                 (u.tracked => u.by # m) /\ \E v \in txs : Alike(u, v)
<1> DEFINE f == [t \in txs |-> [t EXCEPT !.tracked = @ /\ t.by # m,
                                         !.signed = @ \ IF t \in unsigned THEN {m} ELSE {}]]
<1>1. Abandoned(m, unsigned) = {f[u] : u \in txs}
  BY DEF Abandoned
<1>2. \A u \in txs : f[u] \in Tx /\ Alike(f[u], u) /\ (f[u].tracked => f[u].by # m)
  <2> SUFFICES ASSUME NEW u \in txs
               PROVE  f[u] \in Tx /\ Alike(f[u], u) /\ (f[u].tracked => f[u].by # m)
    OBVIOUS
  <2>1. u \in Tx
    BY DEF TypeOK
  <2> DEFINE a == (u.tracked /\ u.by # m)
             b == u.signed \ IF u \in unsigned THEN {m} ELSE {}
  <2>2. f[u] = [u EXCEPT !.tracked = a, !.signed = b] /\ a \in BOOLEAN /\ b \in SUBSET Members
    BY <2>1 DEF Tx
  <2>3. a => u.tracked /\ u.by # m
    OBVIOUS
  <2> HIDE DEF a, b, f
  <2> QED BY <2>1, <2>2, <2>3 DEF Tx, Alike
<1> HIDE DEF f
<1>3. IsFiniteSet({f[u] : u \in txs}) /\ Cardinality({f[u] : u \in txs}) <= Cardinality(txs)
  BY ImageFinite DEF TypeOK
<1> QED BY <1>1, <1>2, <1>3

(* Sequences of stages. *)
LEMMA ToSetOf ==
    ASSUME NEW X, NEW s \in Seq(X), NEW t \in Seq(X)
    PROVE  /\ s \o t \in Seq(X) /\ ToSet(s \o t) = ToSet(s) \cup ToSet(t)
<1>1. s \o t \in Seq(X) /\ Len(s \o t) = Len(s) + Len(t)
  OBVIOUS
<1>2. \A i \in 1..Len(s) : (s \o t)[i] = s[i]
  OBVIOUS
<1>3. \A i \in 1..Len(t) : (s \o t)[Len(s) + i] = t[i]
  OBVIOUS
<1>4. \A i \in 1..(Len(s) + Len(t)) : (s \o t)[i] = IF i <= Len(s) THEN s[i] ELSE t[i - Len(s)]
  OBVIOUS
<1>5. \A x : x \in ToSet(s \o t) <=> \E i \in 1..(Len(s) + Len(t)) : (s \o t)[i] = x
  BY <1>1 DEF ToSet
<1>6. \A x : x \in ToSet(s) <=> \E i \in 1..Len(s) : s[i] = x
  BY DEF ToSet
<1>7. \A x : x \in ToSet(t) <=> \E i \in 1..Len(t) : t[i] = x
  BY DEF ToSet
<1>8. Len(s) \in Nat /\ Len(t) \in Nat
  OBVIOUS
<1>9. ASSUME NEW x \in ToSet(s) PROVE x \in ToSet(s \o t)
  <2>1. PICK i \in 1..Len(s) : s[i] = x
    BY <1>6
  <2>2. i \in 1..(Len(s) + Len(t)) /\ (s \o t)[i] = x
    BY <1>2, <1>8, <2>1
  <2> QED BY <1>5, <2>2
<1>10. ASSUME NEW x \in ToSet(t) PROVE x \in ToSet(s \o t)
  <2>1. PICK i \in 1..Len(t) : t[i] = x
    BY <1>7
  <2>2. Len(s) + i \in 1..(Len(s) + Len(t)) /\ (s \o t)[Len(s) + i] = x
    BY <1>3, <1>8, <2>1
  <2> QED BY <1>5, <2>2
<1>11. ASSUME NEW x \in ToSet(s \o t) PROVE x \in ToSet(s) \cup ToSet(t)
  <2>1. PICK i \in 1..(Len(s) + Len(t)) : (s \o t)[i] = x
    BY <1>5
  <2>2. CASE i <= Len(s)
    <3>1. i \in 1..Len(s) /\ s[i] = x
      BY <1>4, <1>8, <2>1, <2>2
    <3> QED BY <1>6, <3>1
  <2>3. CASE ~(i <= Len(s))
    <3>1. i - Len(s) \in 1..Len(t) /\ t[i - Len(s)] = x
      BY <1>4, <1>8, <2>1, <2>3
    <3> QED BY <1>7, <3>1
  <2> QED BY <2>2, <2>3
<1> QED BY <1>1, <1>9, <1>10, <1>11

LEMMA LastOf ==
    ASSUME NEW X, NEW s \in Seq(X), NEW x \in X
    PROVE  /\ Len(s \o <<x>>) = Len(s) + 1 /\ Len(s) \in Nat
           /\ (s \o <<x>>)[Len(s) + 1] = x
  OBVIOUS

LEMMA OneStage ==
    ASSUME NEW X, NEW a \in X
    PROVE  <<a>> \in Seq(X)
  OBVIOUS

LEMMA FiveStages ==
    ASSUME NEW X, NEW a \in X, NEW b \in X, NEW c \in X, NEW d \in X, NEW e \in X
    PROVE  <<a, b, c, d, e>> \in Seq(X)
  OBVIOUS

(* A plan holds all the goals there are, and ends with the distribution.   *)
LEMMA PlanFacts ==
    ASSUME TypeOK
    PROVE  /\ Plan \in Seq(Stages) /\ Plan # <<>>
           /\ Contracts \cup {"transfer", "distribute", "prefill", "candidates", "update nns"}
                 \subseteq ToSet(Plan)
           /\ Plan[Len(Plan)] = "distribute"
<1>1. Services \in Seq(Contracts) /\ ToSet(Services) \subseteq Contracts
  BY DeploymentAssumption DEF Contracts, ToSet
<1>2. AlphabetStages \in Seq(AlphabetContracts) /\ ToSet(AlphabetStages) = AlphabetContracts
  <2>1. n \in Nat \ {0} /\ Members = 0..(n - 1)
    BY CommitteeFacts DEF TypeOK, Members
  <2>2. AlphabetStages \in Seq(AlphabetContracts) /\ Len(AlphabetStages) = n
    <3>1. \A i \in 1..n : Alphabets[i] \in AlphabetContracts
      <4> SUFFICES ASSUME NEW i \in 1..n PROVE Alphabets[i] \in AlphabetContracts
        OBVIOUS
      <4>1. i - 1 \in Members /\ (i - 1) + 1 = i
        BY <2>1
      <4> QED BY <4>1 DEF AlphabetContracts
    <3> QED BY <2>1, <3>1 DEF AlphabetStages
  <2>3. ToSet(AlphabetStages) = {Alphabets[i] : i \in 1..n}
    BY <2>1 DEF AlphabetStages, ToSet
  <2>4. \A i \in Members : i + 1 \in 1..n
    BY <2>1
  <2>5. \A i \in 1..n : i - 1 \in Members /\ (i - 1) + 1 = i
    BY <2>1
  <2>6. {Alphabets[i] : i \in 1..n} = AlphabetContracts
    BY <2>4, <2>5 DEF AlphabetContracts
  <2> QED BY <2>2, <2>3, <2>6
<1>3. AlphabetContracts \subseteq Contracts /\ Contracts \subseteq Stages /\ "nns" \in Contracts
      /\ "proxy" \in Contracts
  BY DEF Contracts, Stages
<1>4. Services \in Seq(Stages) /\ AlphabetStages \in Seq(Stages)
  BY <1>1, <1>2, <1>3
<1> DEFINE last == <<"distribute">>
<1>5. FirstStages \in Seq(Stages) /\ {"nns", "transfer"} \subseteq ToSet(FirstStages)
  <2>1. CASE chain.notary
    <3>1. FirstStages = <<"transfer", "nns">>
      BY <2>1 DEF FirstStages
    <3>2. "transfer" \in Stages /\ "nns" \in Stages
      BY <1>3 DEF Stages, CommonStages
    <3>3. FirstStages[1] = "transfer" /\ FirstStages[2] = "nns" /\ DOMAIN FirstStages = {1, 2}
      BY <3>1
    <3> QED BY <3>1, <3>2, <3>3 DEF ToSet
  <2>2. CASE ~chain.notary
    <3>1. FirstStages = <<"nns", "notary", "transfer">>
      BY <2>2 DEF FirstStages
    <3>2. "transfer" \in Stages /\ "nns" \in Stages /\ "notary" \in Stages
      BY <1>3 DEF Stages, CommonStages
    <3>3. FirstStages[3] = "transfer" /\ FirstStages[1] = "nns" /\ DOMAIN FirstStages = {1, 2, 3}
      BY <3>1
    <3> QED BY <3>1, <3>2, <3>3 DEF ToSet
  <2> QED BY <2>1, <2>2
<1>6. RoleStage \in Seq(Stages)
  <2>1. "alphabet role" \in Stages
    BY DEF Stages, CommonStages
  <2>2. CASE chain.alphabet
    BY <2>2 DEF RoleStage
  <2>3. CASE ~chain.alphabet
    <3>1. RoleStage = <<"alphabet role">>
      BY <2>3 DEF RoleStage
    <3> QED BY <2>1, <3>1, OneStage
  <2> QED BY <2>2, <2>3
<1>7. ProxyStages \in Seq(Stages)
      /\ {"prefill", "proxy", "candidates", "update nns"} \subseteq ToSet(ProxyStages)
  <2>1. "prefill" \in Stages /\ "proxy" \in Stages /\ "refill" \in Stages
        /\ "candidates" \in Stages /\ "update nns" \in Stages
    BY <1>3 DEF Stages, CommonStages
  <2>2. DOMAIN ProxyStages = 1..5 /\ ProxyStages[1] = "prefill" /\ ProxyStages[2] = "proxy"
        /\ ProxyStages[4] = "candidates" /\ ProxyStages[5] = "update nns"
    BY DEF ProxyStages
  <2>3. ProxyStages \in Seq(Stages)
    BY <2>1, FiveStages DEF ProxyStages
  <2>4. \A i \in 1..5 : ProxyStages[i] \in ToSet(ProxyStages)
    BY <2>2 DEF ToSet
  <2>5. 1 \in 1..5 /\ 2 \in 1..5 /\ 4 \in 1..5 /\ 5 \in 1..5
    OBVIOUS
  <2> QED BY <2>2, <2>3, <2>4, <2>5
<1>8. last \in Seq(Stages) /\ ToSet(last) = {"distribute"} /\ Len(last) = 1 /\ last[1] = "distribute"
  <2>1. last \in Seq(Stages) /\ Len(last) = 1 /\ last[1] = "distribute" /\ DOMAIN last = {1}
    BY DEF Stages, CommonStages
  <2> QED BY <2>1 DEF ToSet
<1> HIDE DEF last
<1> DEFINE p1 == FirstStages \o RoleStage
           p2 == p1 \o ProxyStages
           p3 == p2 \o Services
           p4 == p3 \o AlphabetStages
<1>9. p1 \in Seq(Stages) /\ ToSet(p1) = ToSet(FirstStages) \cup ToSet(RoleStage)
  BY <1>5, <1>6, ToSetOf
<1> HIDE DEF p1
<1>10. p2 \in Seq(Stages) /\ ToSet(p2) = ToSet(p1) \cup ToSet(ProxyStages)
  <2>1. p1 \in Seq(Stages) /\ ProxyStages \in Seq(Stages)
    BY <1>7, <1>9
  <2> QED BY <2>1, ToSetOf
<1> HIDE DEF p2
<1>11. p3 \in Seq(Stages) /\ ToSet(p3) = ToSet(p2) \cup ToSet(Services)
  BY <1>4, <1>10, ToSetOf
<1> HIDE DEF p3
<1>12. p4 \in Seq(Stages) /\ ToSet(p4) = ToSet(p3) \cup ToSet(AlphabetStages)
  BY <1>4, <1>11, ToSetOf
<1> HIDE DEF p4
<1>13. p4 \o last \in Seq(Stages) /\ ToSet(p4 \o last) = ToSet(p4) \cup ToSet(last)
  BY <1>8, <1>12, ToSetOf
<1>14. Plan = p4 \o last
  BY DEF Plan, p1, p2, p3, p4, last
<1>15. Len(p4 \o last) = Len(p4) + 1 /\ Len(p4) \in Nat
       /\ (p4 \o last)[Len(p4) + 1] = "distribute"
  <2>1. "distribute" \in Stages
    BY DEF Stages, CommonStages
  <2> QED BY <1>12, <2>1, LastOf DEF last
<1>16. p4 \o last # <<>>
  BY <1>13, <1>15
<1>17. Plan # <<>> /\ Plan[Len(Plan)] = "distribute"
  BY <1>8, <1>13, <1>14, <1>15, <1>16
<1>18. ASSUME NEW c \in Contracts PROVE c \in ToSet(Plan)
  BY <1>2, <1>5, <1>7, <1>9, <1>10, <1>11, <1>12, <1>13, <1>14 DEF Contracts
<1> QED BY <1>5, <1>7, <1>8, <1>9, <1>10, <1>11, <1>12, <1>13, <1>14, <1>17, <1>18

(* What depends on the size of the committee only.                         *)
LEMMA SizeStays ==
    ASSUME n' = n
    PROVE  /\ Members' = Members /\ AlphabetContracts' = AlphabetContracts
           /\ Contracts' = Contracts /\ Stages' = Stages /\ Vault' = Vault
           /\ Chains' = Chains /\ Tx' = Tx /\ Nothing' = Nothing
<1>1. Members' = Members
  BY DEF Members
<1>2. AlphabetContracts' = AlphabetContracts
  BY <1>1 DEF AlphabetContracts
<1>3. Contracts' = Contracts
  BY <1>2 DEF Contracts
<1> QED BY <1>1, <1>2, <1>3 DEF Stages, Vault, Honest, Majority, Chains, Tx, Nothing

(* The stage that is under way is the first one ahead. *)
LEMMA StageType ==
    ASSUME TypeOK, NEW m \in Members, Stage(m) # "none"
    PROVE  /\ m \in Running /\ m \notin stopped /\ todo[m] \in Seq(Stages) /\ todo[m] # <<>>
           /\ Stage(m) = Head(todo[m]) /\ Stage(m) = todo[m][1]
           /\ Tail(todo[m]) \in Seq(Stages)
           /\ Len(todo[m]) \in Nat \ {0} /\ Len(Tail(todo[m])) = Len(todo[m]) - 1
           /\ \A i \in 1..Len(Tail(todo[m])) : Tail(todo[m])[i] = todo[m][i + 1]
<1>1. m \in Running /\ todo[m] # <<>> /\ Stage(m) = Head(todo[m])
  BY DEF Stage
<1>2. todo[m] \in Seq(Stages)
  BY DEF TypeOK
<1> QED BY <1>1, <1>2 DEF Running

(* A transaction that is accepted changes what it is for, or nothing.      *)
LEMMA AcceptTypes ==
    ASSUME TypeOK, NEW t \in txs, Accept(t)
    PROVE  /\ t \in Tx
           /\ chain' \in Chains
           /\ chain' = chain \/ (Executable(t) /\ Execute(t))
           /\ txs' \subseteq txs \ {t}
<1>1. t \in Tx
  BY DEF TypeOK
<1>2. CASE Executable(t) /\ Execute(t)
  <2>1. t.op \in Works \cup {"transfer", "refill", "distribute"}
    BY <1>1 DEF Tx, Ops, Works
  <2>2. chain' \in Chains
    BY <1>1, <1>2, <2>1, ExecuteWork, ExecuteTransfer, ExecuteRefill, ExecuteDistribute
  <2> QED BY <1>1, <1>2, <2>2 DEF Accept
<1>3. CASE ~Executable(t)
  BY <1>1, <1>3 DEF Accept, TypeOK
<1> QED BY <1>2, <1>3 DEF Accept

(* The types after a step, with the sets of before.                        *)
NextTypes ==
    /\ n' = n
    /\ chain' \in Chains
    /\ txs' \subseteq Tx /\ IsFiniteSet(txs')
    /\ deposited' \subseteq Members
    /\ todo' \in [Members -> Seq(Stages)]
    /\ tolerant' \subseteq Members /\ stopped' \subseteq Members
    /\ mishaps' \in Nat

(* Types after the steps of members. *)
LEMMA SendTypes ==
    ASSUME TypeOK, NEW m \in Members, Send(m) \/ SendDeployment(m)
    PROVE  NextTypes
<1>1. PICK u \in Tx : Submitted(u)
  BY StepSends
<1>2. txs' \subseteq Tx /\ IsFiniteSet(txs') /\ mishaps' \in Nat
  BY <1>1, SentTypes DEF Submitted
<1>3. UNCHANGED <<n, chain, deposited, todo, stopped>> /\ tolerant' \subseteq tolerant
  BY StepSends
<1> QED BY <1>2, <1>3 DEF NextTypes, TypeOK

LEMMA AdvanceTypes ==
    ASSUME TypeOK, NEW m \in Members, Advance(m)
    PROVE  NextTypes
<1>1. txs' \subseteq Tx /\ IsFiniteSet(txs')
  BY ForgottenTypes DEF Advance
<1>2. Tail(todo[m]) \in Seq(Stages)
  BY StageType DEF Advance
<1>3. todo' \in [Members -> Seq(Stages)]
  BY <1>2 DEF Advance, TypeOK
<1>4. tolerant' \subseteq Members
  BY DEF Advance, TypeOK
<1> QED BY <1>1, <1>3, <1>4 DEF Advance, NextTypes, TypeOK

LEMMA StopTypes ==
    ASSUME TypeOK, NEW m \in Members, Stop(m)
    PROVE  NextTypes /\ \E unsigned : txs' = Abandoned(m, unsigned)
<1>1. PICK unsigned : txs' = Abandoned(m, unsigned)
  BY DEF Stop, Abandoned
<1>2. txs' \subseteq Tx /\ IsFiniteSet(txs')
  BY <1>1, AbandonedTypes
<1>3. <<>> \in Seq(Stages)
  OBVIOUS
<1>4. todo' \in [Members -> Seq(Stages)]
  BY <1>3 DEF Stop, TypeOK
<1>5. mishaps' \in Nat
  <2>1. Mishap
    BY DEF Stop
  <2> QED BY <2>1 DEF Mishap, TypeOK
<1> QED BY <1>1, <1>2, <1>4, <1>5 DEF Stop, NextTypes, TypeOK

(* Types after every step. *)
LEMMA NextTyped ==
    ASSUME TypeOK, [Next]_vars
    PROVE  NextTypes
<1>1. ASSUME NEW m \in Members, Step(m) \/ Replenish(m) \/ Drain(m) \/ Stop(m) \/ Start(m)
      PROVE  NextTypes
  <2>1. CASE Send(m) \/ SendDeployment(m)
    BY <2>1, SendTypes
  <2>2. CASE Advance(m)
    BY <2>2, AdvanceTypes
  <2>3. CASE Replenish(m)
    BY <2>3 DEF Replenish, Listening, Running, NextTypes, TypeOK
  <2>4. CASE Drain(m)
    BY <2>4 DEF Drain, Mishap, NextTypes, TypeOK
  <2>5. CASE Stop(m)
    BY <2>5, StopTypes
  <2>6. CASE Start(m)
    <3>1. todo' \in [Members -> Seq(Stages)]
      BY <2>6, PlanFacts DEF Start, TypeOK
    <3> QED BY <2>6, <3>1 DEF Start, NextTypes, TypeOK
  <2> QED BY <1>1, <2>1, <2>2, <2>3, <2>4, <2>5, <2>6 DEF Step
<1>2. ASSUME NEW t \in txs, Accept(t) PROVE NextTypes
  <2>1. txs' \in SUBSET txs /\ chain' \in Chains
    BY <1>2, AcceptTypes
  <2>2. IsFiniteSet(txs')
    BY <2>1, FS_Subset DEF TypeOK
  <2> QED BY <1>2, <2>1, <2>2 DEF Accept, NextTypes, TypeOK
<1>3. ASSUME NEW t \in txs, Lose(t) PROVE NextTypes
  <2>1. txs' \in SUBSET txs
    BY <1>3 DEF Lose
  <2>2. IsFiniteSet(txs')
    BY <2>1, FS_Subset DEF TypeOK
  <2>3. mishaps' \in Nat
    BY <1>3 DEF Lose, Mishap, TypeOK
  <2> QED BY <1>3, <2>1, <2>2, <2>3 DEF Lose, NextTypes, TypeOK
<1>4. CASE DesignateNotary
  <2>1. chain' = [chain EXCEPT !.notary = TRUE]
    BY <1>4 DEF DesignateNotary
  <2>2. chain' \in Chains
    BY <2>1 DEF TypeOK, Chains
  <2> QED BY <1>4, <2>2 DEF DesignateNotary, NextTypes, TypeOK
<1>5. CASE UNCHANGED vars
  BY <1>5 DEF vars, NextTypes, TypeOK
<1> QED BY <1>1, <1>2, <1>3, <1>4, <1>5 DEF Next

(* TypeOK is inductive: it holds after every step, and at first. *)
LEMMA TypeNext == TypeOK /\ [Next]_vars => TypeOK'
<1> SUFFICES ASSUME TypeOK, [Next]_vars PROVE TypeOK'
  OBVIOUS
<1>1. NextTypes
  BY NextTyped
<1>2. /\ Members' = Members /\ Stages' = Stages /\ Chains' = Chains /\ Tx' = Tx
  BY <1>1, SizeStays DEF NextTypes
<1> QED BY <1>1, <1>2 DEF NextTypes, TypeOK

(* The chains to start with. *)
LEMMA StartTypes ==
    ASSUME n \in Sizes
    PROVE  Fresh \in Chains /\ Bare \in Chains /\ Older \in Chains
<1>1. /\ n \in Nat \ {0} /\ Vault \in {"validators", "committee"} /\ Funds[n].gas \in Nat
      /\ Funds[n].neo \in Nat /\ AlphabetGAS \in Nat /\ "nns" \in Contracts
  BY CommitteeFacts
<1> DEFINE g == [a \in {"validators", "committee", "proxy"} |-> IF a = Vault THEN Funds[n].gas ELSE 0]
           e == [a \in {"validators", "committee"} |-> IF a = Vault THEN Funds[n].neo ELSE 0]
<1>2. g \in [{"validators", "committee", "proxy"} -> Nat] /\ e \in [{"validators", "committee"} -> Nat]
      /\ Nothing \in [Members -> Nat]
  BY <1>1 DEF Nothing
<1>3. Fresh = [contracts |-> [c \in Contracts |-> Missing], recorded |-> {}, tld |-> FALSE,
               notary |-> FALSE, alphabet |-> FALSE, candidates |-> {},
               gas |-> g, neo |-> e, purse |-> Nothing, share |-> Nothing]
  BY DEF Fresh
<1> DEFINE g2 == [g EXCEPT ![Vault] = 0, !["proxy"] = 1]
           e2 == [e EXCEPT ![Vault] = 0]
           p2 == [i \in Members |-> AlphabetGAS]
           s2 == [i \in Members |-> Share(Funds[n].neo, i)]
<1>4. g2 \in [{"validators", "committee", "proxy"} -> Nat] /\ e2 \in [{"validators", "committee"} -> Nat]
  BY <1>1, <1>2
<1>5. p2 \in [Members -> Nat] /\ s2 \in [Members -> Nat]
  <2>1. \A i \in Members : Share(Funds[n].neo, i) \in Nat
    BY <1>1, ShareType
  <2> QED BY <1>1, <2>1
<1> HIDE DEF g, e
<1>6. Fresh \in Chains
  BY <1>2, <1>3 DEF Chains
<1>7. Bare \in Chains
  <2>1. Bare = [Fresh EXCEPT !.contracts["nns"] = Old, !.notary = TRUE, !.alphabet = TRUE]
    BY DEF Bare
  <2> QED BY <1>1, <1>6, <2>1 DEF Chains
<1>8. Older \in Chains
  <2>1. Fresh.gas = g /\ Fresh.neo = e
    BY <1>3
  <2>2. Older = [Fresh EXCEPT !.contracts = [c \in Contracts |-> Old], !.recorded = Contracts \ {"nns"},
                       !.tld = TRUE, !.notary = TRUE, !.alphabet = TRUE, !.candidates = Members,
                       !.gas = g2, !.neo = e2, !.purse = p2, !.share = s2]
    BY <2>1 DEF Older
  <2> HIDE DEF g2, e2, p2, s2
  <2> QED BY <1>4, <1>5, <1>6, <2>2 DEF Chains
<1> QED BY <1>6, <1>7, <1>8

LEMMA TypeInit == Init => TypeOK
<1> SUFFICES ASSUME Init PROVE TypeOK
  OBVIOUS
<1>1. chain \in {Fresh, Bare, Older}
  BY DeploymentAssumption DEF Init
<1>2. chain \in Chains
  BY <1>1, StartTypes DEF Init
<1>3. IsFiniteSet(txs)
  BY FS_EmptySet DEF Init
<1>4. todo \in [Members -> Seq(Stages)]
  <2>1. <<>> \in Seq(Stages)
    OBVIOUS
  <2> QED BY <2>1 DEF Init
<1> QED BY <1>2, <1>3, <1>4 DEF Init, TypeOK

(* Types, for every size of the committee and any mishaps.                 *)
THEOREM TypeCorrect == Spec => []TypeOK
<1> QED BY TypeInit, TypeNext, PTL DEF Spec

-----------------------------------------------------------------------------
(* Where the NEO is. *)

Total == Funds[n].neo
Shared == [i \in Members |-> Share(Total, i)]

(* It moves from the vault to the committee, if these are two, and from    *)
(* there to the Alphabet contracts, always as a whole.                     *)
NeoPlaced ==
    \/ /\ Vault = "validators"
       /\ chain.neo["validators"] = Total /\ chain.neo["committee"] = 0 /\ chain.share = Nothing
    \/ chain.neo["validators"] = 0 /\ chain.neo["committee"] = Total /\ chain.share = Nothing
    \/ chain.neo["validators"] = 0 /\ chain.neo["committee"] = 0 /\ chain.share = Shared

(* What is on its way takes all of it or comes too late.                   *)
NeoSent(t) ==
    /\ t.op = "distribute" => t.neo = Total /\ Total > 0
    /\ t.op = "transfer" =>
         /\ Vault = "validators" => t.neo = Total \/ (t.neo = 0 /\ chain.neo["validators"] = 0)
         /\ Funds[n].gas > GASThreshold

(* As long as NEO is at the validators' account so is all their GAS: the   *)
(* first transfer takes both.                                              *)
VaultFull ==
    /\ chain.gas[Vault] <= Funds[n].gas
    /\ Vault = "validators" /\ chain.neo["validators"] # 0
          => chain.gas["validators"] = Funds[n].gas

NeoInv == NeoPlaced /\ (\A t \in txs : NeoSent(t)) /\ VaultFull

(* The amounts of funds are numbers. *)
LEMMA Amounts ==
    ASSUME TypeOK
    PROVE  /\ Total \in Nat /\ Funds[n].gas \in Nat /\ GASThreshold \in Nat /\ AlphabetGAS \in Nat
           /\ Vault \in {"validators", "committee"} /\ Spare \in Int
           /\ Spare = chain.gas[Vault] - GASThreshold /\ chain.gas[Vault] \in Nat
           /\ chain.neo["validators"] \in Nat /\ chain.neo["committee"] \in Nat
           /\ chain.gas["validators"] \in Nat /\ chain.gas["committee"] \in Nat
           /\ chain.gas["proxy"] \in Nat
<1>1. Funds[n].neo \in Nat /\ Funds[n].gas \in Nat /\ GASThreshold \in Nat /\ AlphabetGAS \in Nat
      /\ Vault \in {"validators", "committee"}
  BY CommitteeFacts DEF TypeOK
<1>2. /\ chain.gas[Vault] \in Nat
      /\ chain.neo["validators"] \in Nat /\ chain.neo["committee"] \in Nat
      /\ chain.gas["validators"] \in Nat /\ chain.gas["committee"] \in Nat
      /\ chain.gas["proxy"] \in Nat
  BY <1>1 DEF TypeOK, Chains
<1> QED BY <1>1, <1>2 DEF Total, Spare

(* NeoInv holds at first. *)
LEMMA NeoInit == Init => NeoInv
<1> SUFFICES ASSUME Init PROVE NeoInv
  OBVIOUS
<1>1. TypeOK
  BY TypeInit
<1>2. chain \in {Fresh, Bare, Older} /\ txs = {}
  BY DeploymentAssumption DEF Init
<1>3. Vault \in {"validators", "committee"} /\ Total \in Nat /\ Funds[n].gas \in Nat
  BY <1>1, Amounts
<1>4. CASE chain \in {Fresh, Bare}
  <2>1. /\ chain.gas[Vault] = Funds[n].gas
        /\ \A a \in {"validators", "committee"} :
              chain.neo[a] = IF a = Vault THEN Total ELSE 0
        /\ chain.share = Nothing
    <3>1. chain.gas = Fresh.gas /\ chain.neo = Fresh.neo /\ chain.share = Fresh.share
      <4>1. DOMAIN Fresh = {"contracts", "recorded", "tld", "notary", "alphabet", "candidates",
                            "gas", "neo", "purse", "share"}
        BY DEF Fresh
      <4> QED BY <1>4, <4>1 DEF Bare
    <3>2. /\ Fresh.gas = [a \in {"validators", "committee", "proxy"} |-> IF a = Vault THEN Funds[n].gas ELSE 0]
          /\ Fresh.neo = [a \in {"validators", "committee"} |-> IF a = Vault THEN Funds[n].neo ELSE 0]
          /\ Fresh.share = Nothing
      BY DEF Fresh
    <3> QED BY <1>3, <3>1, <3>2 DEF Total
  <2> QED BY <1>2, <1>3, <2>1 DEF NeoInv, NeoPlaced, VaultFull
<1>5. CASE chain = Older
  <2>1. /\ chain.gas = [Fresh.gas EXCEPT ![Vault] = 0, !["proxy"] = 1]
        /\ chain.neo = [Fresh.neo EXCEPT ![Vault] = 0] /\ chain.share = Shared
    BY <1>5 DEF Older, Fresh, Shared, Total
  <2>2. /\ Fresh.gas = [a \in {"validators", "committee", "proxy"} |-> IF a = Vault THEN Funds[n].gas ELSE 0]
        /\ Fresh.neo = [a \in {"validators", "committee"} |-> IF a = Vault THEN Funds[n].neo ELSE 0]
    BY DEF Fresh
  <2>3. chain.gas[Vault] = 0 /\ chain.neo["validators"] = 0 /\ chain.neo["committee"] = 0
    BY <1>3, <2>1, <2>2
  <2> QED BY <1>2, <1>3, <2>1, <2>3 DEF NeoInv, NeoPlaced, VaultFull
<1> QED BY <1>2, <1>4, <1>5

(* What is sent has its amounts from the chain.                            *)
LEMMA NeoSentNow ==
    ASSUME TypeOK, NeoInv, NEW t \in Tx, Sendable(t)
    PROVE  NeoSent(t)
<1>1. t.op = "distribute" => t.neo = Total /\ Total > 0
  BY Amounts DEF Sendable, NeoInv, NeoPlaced
<1>2. ASSUME t.op = "transfer" PROVE /\ Vault = "validators" => t.neo = chain.neo["validators"]
                                     /\ Spare > 0
  BY <1>2, TransferIs DEF Sendable
<1>3. t.op = "transfer" => Funds[n].gas > GASThreshold
  BY <1>2, Amounts DEF NeoInv, VaultFull
<1>4. chain.neo["validators"] \in {0, Total}
  BY DEF NeoInv, NeoPlaced
<1> QED BY <1>1, <1>2, <1>3, <1>4 DEF NeoSent

(* If the accounts stay as they are, so does what was sent.                *)
LEMMA NeoKept ==
    ASSUME TypeOK, NeoInv, n' = n, SameFunds(chain, chain'),
           \A u \in txs' : (u \in Tx /\ Sendable(u)) \/ \E v \in txs : Alike(u, v)
    PROVE  NeoInv'
<1>1. Vault' = Vault /\ Nothing' = Nothing /\ Members' = Members
  BY SizeStays
<1>2. Total' = Total /\ Shared' = Shared
  BY <1>1 DEF Total, Shared, Share
<1>3. \A u \in txs' : NeoSent(u)
  <2> SUFFICES ASSUME NEW u \in txs' PROVE NeoSent(u)
    OBVIOUS
  <2>1. CASE u \in Tx /\ Sendable(u)
    BY <2>1, NeoSentNow
  <2>2. ASSUME NEW v \in txs, Alike(u, v) PROVE NeoSent(u)
    BY <2>2 DEF NeoInv, NeoSent, Alike
  <2> QED BY <2>1, <2>2
<1>4. \A u : NeoSent(u) => NeoSent(u)'
  BY <1>1, <1>2 DEF NeoSent, SameFunds
<1>5. NeoPlaced' /\ VaultFull'
  BY <1>1, <1>2 DEF NeoInv, NeoPlaced, VaultFull, SameFunds
<1> QED BY <1>3, <1>4, <1>5 DEF NeoInv

(* A transaction that is executed moves the NEO as a whole. *)
LEMMA NeoAccepted ==
    ASSUME TypeOK, NeoInv, n' = n, NEW t \in Tx, t \in txs, txs' \subseteq txs,
           Executable(t), Execute(t)
    PROVE  NeoInv'
<1>1. Vault' = Vault /\ Nothing' = Nothing /\ Members' = Members
  BY SizeStays
<1>2. Total' = Total /\ Shared' = Shared
  BY <1>1 DEF Total, Shared, Share
<1>3. NeoSent(t) /\ t.neo \in Nat
  BY DEF NeoInv, Tx
<1>4. t.op \in Works \cup {"transfer", "refill", "distribute"}
  BY DEF Tx, Ops, Works
<1>5. chain'.neo["validators"] <= chain.neo["validators"]
      /\ chain'.neo["validators"] \in Nat => \A u \in txs' : NeoSent(u)'
  BY <1>1, <1>2, Amounts DEF NeoInv, NeoSent
<1>6. CASE t.op \in Works
  <2>1. SameFunds(chain, chain')
    BY <1>6, ExecuteWork
  <2>2. \A u \in txs' : u \in txs /\ Alike(u, u)
    BY DEF Alike
  <2> QED BY <2>1, <2>2, NeoKept
<1>7. CASE t.op = "refill"
  <2>1. /\ chain'.gas["validators"] = chain.gas["validators"] /\ chain'.gas["committee"] <= chain.gas["committee"]
        /\ chain'.neo = chain.neo /\ chain'.share = chain.share /\ chain' \in Chains
    BY <1>7, ExecuteRefill
  <2>2. NeoPlaced'
    BY <1>1, <1>2, <2>1 DEF NeoInv, NeoPlaced
  <2>3. VaultFull'
    <3>1. chain'.gas["committee"] \in Nat
      BY <2>1 DEF Chains
    <3> QED BY <1>1, <2>1, <3>1, Amounts DEF NeoInv, VaultFull
  <2>4. \A u \in txs' : NeoSent(u)'
    BY <1>5, <2>1, Amounts
  <2> QED BY <2>2, <2>3, <2>4 DEF NeoInv
<1>8. CASE t.op = "transfer"
  <2>1. /\ chain' \in Chains /\ Paid(t) <= chain.gas[Vault]
        /\ Vault = "validators" =>
             /\ chain'.gas["validators"] = chain.gas["validators"] - Paid(t)
             /\ chain'.neo["validators"] = chain.neo["validators"] - t.neo
             /\ chain'.neo["committee"] = chain.neo["committee"] + t.neo
             /\ t.neo <= chain.neo["validators"]
        /\ Vault = "committee" =>
             /\ chain'.gas["committee"] = chain.gas["committee"] - SumFunction(t.pay)
             /\ chain'.neo = chain.neo
        /\ chain'.share = chain.share
    BY <1>8, ExecuteTransfer
  <2>2. Paid(t) \in Nat /\ SumFunction(t.pay) \in Nat
    <3>1. SumFunction(t.pay) \in Nat /\ Paid(t) = SumFunction(t.pay) + t.rest
      BY PaidType DEF TypeOK
    <3>2. t.rest \in Nat
      BY DEF Tx
    <3> QED BY <3>1, <3>2
  <2>3. CASE Vault = "committee"
    <3>1. NeoPlaced'
      BY <1>1, <1>2, <2>1, <2>3 DEF NeoInv, NeoPlaced
    <3>2. VaultFull'
      BY <1>1, <2>1, <2>2, <2>3, Amounts DEF NeoInv, VaultFull
    <3>3. \A u \in txs' : NeoSent(u)'
      BY <1>5, <2>1, <2>3, Amounts
    <3> QED BY <3>1, <3>2, <3>3 DEF NeoInv
  <2>4. CASE Vault = "validators"
    <3>1. t.neo = Total \/ (t.neo = 0 /\ chain.neo["validators"] = 0)
      BY <1>3, <1>8, <2>4 DEF NeoSent
    <3>2. chain'.neo["validators"] = 0 /\ NeoPlaced'
      <4>1. CASE chain.neo["validators"] = 0
        <5>1. t.neo = 0
          BY <1>3, <2>1, <2>4, <4>1
        <5>2. chain'.neo["validators"] = 0 /\ chain'.neo["committee"] = chain.neo["committee"]
          BY <2>1, <2>4, <4>1, <5>1, Amounts
        <5> QED BY <1>1, <1>2, <2>1, <4>1, <5>2 DEF NeoInv, NeoPlaced
      <4>2. CASE chain.neo["validators"] # 0
        <5>1. chain.neo["validators"] = Total /\ chain.neo["committee"] = 0 /\ chain.share = Nothing
          BY <4>2 DEF NeoInv, NeoPlaced
        <5>2. t.neo = Total
          BY <3>1, <4>2
        <5>3. chain'.neo["validators"] = 0 /\ chain'.neo["committee"] = Total
          BY <2>1, <2>4, <5>1, <5>2, Amounts
        <5> QED BY <1>1, <1>2, <2>1, <5>1, <5>3 DEF NeoPlaced
      <4> QED BY <4>1, <4>2
    <3>3. NeoPlaced'
      BY <3>2
    <3>4. VaultFull'
      BY <1>1, <2>1, <2>2, <2>4, <3>2, Amounts DEF NeoInv, VaultFull
    <3>5. \A u \in txs' : NeoSent(u)'
      BY <1>5, <3>2, Amounts
    <3> QED BY <3>3, <3>4, <3>5 DEF NeoInv
  <2> QED BY <2>3, <2>4, Amounts
<1>9. CASE t.op = "distribute"
  <2>1. /\ chain' \in Chains /\ t.neo <= chain.neo["committee"]
        /\ chain'.neo["validators"] = chain.neo["validators"]
        /\ chain'.neo["committee"] = chain.neo["committee"] - t.neo
        /\ chain'.gas = chain.gas
        /\ chain'.share = [i \in Members |-> chain.share[i] + Share(t.neo, i)]
    BY <1>9, ExecuteDistribute
  <2>2. t.neo = Total /\ Total > 0
    BY <1>3, <1>9 DEF NeoSent
  <2>3. /\ chain.neo["validators"] = 0 /\ chain.neo["committee"] = Total /\ chain.share = Nothing
    BY <2>1, <2>2, Amounts DEF NeoInv, NeoPlaced
  <2>4. chain'.share = Shared
    <3>1. \A i \in Members : Nothing[i] = 0 /\ Share(Total, i) \in Nat
      BY Amounts, ShareType DEF Nothing, TypeOK
    <3> QED BY <2>1, <2>2, <2>3, <3>1 DEF Shared
  <2>5. NeoPlaced'
    BY <1>1, <1>2, <2>1, <2>2, <2>3, <2>4, Amounts DEF NeoPlaced
  <2>6. VaultFull'
    BY <1>1, <2>1 DEF NeoInv, VaultFull
  <2>7. \A u \in txs' : NeoSent(u)'
    BY <1>5, <2>1, Amounts
  <2> QED BY <2>5, <2>6, <2>7 DEF NeoInv
<1> QED BY <1>4, <1>6, <1>7, <1>8, <1>9

(* Every transaction there is was there before or is sent just now, and    *)
(* only an accepted one or the designation of the notary changes the chain. *)
LEMMA Origins ==
    ASSUME TypeOK, [Next]_vars
    PROVE  \/ \E t \in txs : /\ t \in Tx /\ txs' \subseteq txs \ {t}
                             /\ Executable(t) /\ Execute(t)
           \/ /\ SameFunds(chain, chain') /\ Grows(chain, chain')
              /\ chain' = chain \/ DesignateNotary
              /\ \A u \in txs' : (u \in Tx /\ Sendable(u)) \/ \E v \in txs : Alike(u, v)
<1> DEFINE Same == \A u \in txs' : (u \in Tx /\ Sendable(u)) \/ \E v \in txs : Alike(u, v)
<1>1. SameFunds(chain, chain) /\ Grows(chain, chain)
  BY DEF SameFunds, Grows
<1>2. txs' \subseteq txs => Same
  BY DEF Alike
<1>3. ASSUME NEW m \in Members, Step(m) \/ Replenish(m) \/ Drain(m) \/ Stop(m) \/ Start(m)
      PROVE  chain' = chain /\ Same
  <2>1. CASE Send(m) \/ SendDeployment(m)
    <3>1. PICK t \in Tx : Submitted(t)
      BY <2>1, StepSends
    <3>2. \A u \in txs' : u = t \/ \E v \in txs : Alike(u, v)
      BY <3>1, SentTypes DEF Submitted
    <3>3. chain' = chain
      BY <2>1, StepSends
    <3> QED BY <3>1, <3>2, <3>3 DEF Submitted
  <2>2. CASE Advance(m)
    BY <2>2, ForgottenTypes DEF Advance
  <2>3. CASE Replenish(m) \/ Drain(m) \/ Start(m)
    BY <1>2, <2>3 DEF Replenish, Drain, Start
  <2>4. CASE Stop(m)
    <3>1. PICK unsigned : txs' = Abandoned(m, unsigned)
      BY <2>4, StopTypes
    <3> QED BY <2>4, <3>1, AbandonedTypes DEF Stop
  <2> QED BY <1>3, <2>1, <2>2, <2>3, <2>4 DEF Step
<1>4. ASSUME NEW t \in txs, Accept(t)
      PROVE  (chain' = chain /\ Same) \/ (t \in Tx /\ txs' \subseteq txs \ {t} /\ Executable(t) /\ Execute(t))
  <2>1. /\ t \in Tx /\ txs' \subseteq txs \ {t}
        /\ chain' = chain \/ (Executable(t) /\ Execute(t))
    BY <1>4, AcceptTypes
  <2> QED BY <1>2, <2>1
<1>5. ASSUME NEW t \in txs, Lose(t) PROVE chain' = chain /\ Same
  BY <1>2, <1>5 DEF Lose
<1>6. ASSUME DesignateNotary
      PROVE  SameFunds(chain, chain') /\ Grows(chain, chain') /\ Same
  <2>1. chain' = [chain EXCEPT !.notary = TRUE] /\ txs' = txs
    BY <1>6 DEF DesignateNotary
  <2>2. SameFunds(chain, chain') /\ Grows(chain, chain')
    BY <2>1 DEF TypeOK, Chains, SameFunds, Grows
  <2> QED BY <1>2, <2>1, <2>2
<1>7. CASE UNCHANGED vars
  BY <1>1, <1>2, <1>7 DEF vars
<1> HIDE DEF Same
<1>8. CASE \E m \in Members : Step(m) \/ Replenish(m) \/ Drain(m) \/ Stop(m) \/ Start(m)
  <2>1. chain' = chain /\ Same
    BY <1>3, <1>8
  <2> QED BY <1>1, <2>1 DEF Same
<1>9. CASE \E t \in txs : Accept(t)
  <2>1. PICK t \in txs : Accept(t)
    BY <1>9
  <2>2. (chain' = chain /\ Same) \/ (t \in Tx /\ txs' \subseteq txs \ {t} /\ Executable(t) /\ Execute(t))
    BY <1>4, <2>1
  <2> QED BY <1>1, <2>2 DEF Same
<1>10. CASE \E t \in txs : Lose(t)
  <2>1. chain' = chain /\ Same
    BY <1>5, <1>10
  <2> QED BY <1>1, <2>1 DEF Same
<1>11. CASE DesignateNotary
  BY <1>6, <1>11 DEF Same
<1> QED BY <1>7, <1>8, <1>9, <1>10, <1>11 DEF Next

(* NeoInv is inductive. *)
LEMMA NeoNext == TypeOK /\ NeoInv /\ [Next]_vars => NeoInv'
<1> SUFFICES ASSUME TypeOK, NeoInv, [Next]_vars PROVE NeoInv'
  OBVIOUS
<1>1. n' = n
  BY NextTyped DEF NextTypes
<1>2. CASE \E t \in txs : /\ t \in Tx /\ txs' \subseteq txs \ {t} /\ Executable(t) /\ Execute(t)
  <2>1. PICK t \in txs : t \in Tx /\ txs' \subseteq txs \ {t} /\ Executable(t) /\ Execute(t)
    BY <1>2
  <2>2. txs' \subseteq txs
    BY <2>1
  <2> QED BY <1>1, <2>1, <2>2, NeoAccepted
<1>3. CASE /\ SameFunds(chain, chain')
           /\ \A u \in txs' : (u \in Tx /\ Sendable(u)) \/ \E v \in txs : Alike(u, v)
  BY <1>1, <1>3, NeoKept
<1> QED BY <1>2, <1>3, Origins

(* NeoInv is more than EvenShares: the NEO is in one place. *)
LEMMA SharesEven == TypeOK /\ NeoInv => EvenShares
<1> SUFFICES ASSUME TypeOK, NeoInv PROVE EvenShares
  OBVIOUS
<1>1. n \in Nat \ {0} /\ Members = 0..(n - 1)
  BY CommitteeFacts DEF TypeOK, Members
<1>2. DOMAIN chain.share = Members
  BY DEF TypeOK, Chains
<1>3. SumFunction(chain.share) = SumFunctionOnSet(chain.share, 0..(n - 1))
  BY <1>1, <1>2 DEF SumFunction
<1>4. CASE chain.share = Nothing /\ chain.neo["validators"] + chain.neo["committee"] = Total
  <2>1. \A i \in 0..(n - 1) : chain.share[i] = 0
    BY <1>1, <1>4 DEF Nothing
  <2>2. 0 \div n = 0 /\ 0 % n = 0
    BY <1>1
  <2>3. \A i \in 0..(n - 1) : chain.share[i] = 0 \div n + IF i < 0 % n THEN 1 ELSE 0
    BY <2>1, <2>2
  <2>4. SumFunctionOnSet(chain.share, 0..(n - 1)) = 0
    BY <1>1, <2>3, SharesAddUp
  <2> QED BY <1>1, <1>3, <1>4, <2>1, <2>4, Amounts DEF EvenShares, Total
<1>5. CASE chain.share = Shared /\ chain.neo["validators"] = 0 /\ chain.neo["committee"] = 0
  <2>1. \A i \in 0..(n - 1) : chain.share[i] = Total \div n + IF i < Total % n THEN 1 ELSE 0
    BY <1>1, <1>5 DEF Shared, Share
  <2>2. SumFunctionOnSet(chain.share, 0..(n - 1)) = Total
    BY <1>1, <2>1, Amounts, SharesAddUp
  <2>3. Total \div n \in Nat
    BY <1>1, Amounts
  <2>4. \A i, j \in Members : chain.share[i] <= chain.share[j] + 1
    BY <1>1, <2>1, <2>3
  <2> QED BY <1>3, <1>5, <2>2, <2>4, Amounts DEF EvenShares, Total
<1> QED BY <1>4, <1>5, Amounts DEF NeoInv, NeoPlaced

(* No NEO is lost, and the Alphabet contracts get equal shares up to one,  *)
(* however many distributions are sent, repeated or accepted late.         *)
THEOREM SharesAreEven == Spec => []EvenShares
<1>1. Init => TypeOK /\ NeoInv
  BY TypeInit, NeoInit
<1>2. (TypeOK /\ NeoInv) /\ [Next]_vars => (TypeOK /\ NeoInv)'
  BY TypeNext, NeoNext
<1> QED BY <1>1, <1>2, SharesEven, PTL DEF Spec

-----------------------------------------------------------------------------
(* Goals that stay reached. *)

LEMMA ChainGrows ==
    ASSUME TypeOK, [Next]_vars
    PROVE  /\ Grows(chain, chain')
           /\ chain'.gas[Vault] <= chain.gas[Vault]
           /\ \A i \in Members : chain.purse[i] <= chain'.purse[i]
<1>1. /\ chain.gas[Vault] \in Nat /\ chain.gas["committee"] \in Nat
      /\ chain.gas["validators"] \in Nat /\ Vault \in {"validators", "committee"}
  BY Amounts
<1>2. \A i \in Members : chain.purse[i] \in Nat
  BY DEF TypeOK, Chains
<1>3. CASE SameFunds(chain, chain') /\ Grows(chain, chain')
  BY <1>1, <1>2, <1>3 DEF SameFunds
<1>4. ASSUME NEW t \in Tx, Executable(t), Execute(t)
      PROVE  /\ Grows(chain, chain') /\ chain'.gas[Vault] <= chain.gas[Vault]
             /\ \A i \in Members : chain.purse[i] <= chain'.purse[i]
  <2>1. CASE t.op \in Works
    BY <1>1, <1>2, <1>4, <2>1, ExecuteWork DEF SameFunds
  <2>2. CASE t.op = "refill"
    BY <1>1, <1>2, <1>4, <2>2, ExecuteRefill DEF SameWork, Grows
  <2>3. CASE t.op = "distribute"
    <3>1. SameWork(chain, chain') /\ chain'.gas = chain.gas /\ chain'.purse = chain.purse
      BY <1>4, <2>3, ExecuteDistribute
    <3>2. Grows(chain, chain')
      BY <3>1 DEF SameWork, Grows
    <3> QED BY <1>1, <1>2, <3>1, <3>2
  <2>4. CASE t.op = "transfer"
    <3>1. /\ SameWork(chain, chain')
          /\ Vault = "validators" => chain'.gas["validators"] = chain.gas["validators"] - Paid(t)
          /\ Vault = "committee" => chain'.gas["committee"] = chain.gas["committee"] - SumFunction(t.pay)
          /\ chain'.purse = [i \in Members |-> chain.purse[i] + t.pay[i]]
      BY <1>4, <2>4, ExecuteTransfer
    <3>2. SumFunction(t.pay) \in Nat /\ Paid(t) \in Nat
      BY PaidType DEF TypeOK, Tx
    <3>3. chain'.gas[Vault] <= chain.gas[Vault]
      BY <1>1, <3>1, <3>2
    <3>4. \A i \in Members : t.pay[i] \in Nat
      BY DEF Tx
    <3>5. \A i \in Members : chain.purse[i] <= chain'.purse[i]
      BY <1>2, <3>1, <3>4
    <3> QED BY <3>1, <3>3, <3>5 DEF SameWork, Grows
  <2> QED BY <2>1, <2>2, <2>3, <2>4 DEF Tx, Ops, Works
<1> QED BY <1>3, <1>4, Origins

(* Nobody is in need again, and nothing comes back to the vault.           *)
LEMMA TransferredStays ==
    ASSUME TypeOK, [Next]_vars, Transferred
    PROVE  Transferred'
<1>1. n' = n /\ TypeOK'
  BY NextTyped, TypeNext DEF NextTypes
<1>2. Vault' = Vault /\ Members' = Members
  BY <1>1, SizeStays
<1>3. (Transferred <=> Spare <= 0 \/ (Vault = "committee" /\ Needy = {}))'
  BY <1>1, TransferredIs, PTL
<1>4. Spare <= 0 \/ (Vault = "committee" /\ Needy = {})
  BY TransferredIs
<1>5. chain'.gas[Vault] <= chain.gas[Vault] /\ \A i \in Members : chain.purse[i] <= chain'.purse[i]
  BY ChainGrows
<1>6. Spare \in Int /\ Spare = chain.gas[Vault] - GASThreshold /\ chain.gas[Vault] \in Nat
      /\ GASThreshold \in Nat /\ AlphabetGAS \in Nat
  BY Amounts
<1>7. chain' \in Chains /\ Vault \in {"validators", "committee"}
  BY Amounts, NextTyped DEF NextTypes
<1>8. Spare' = chain'.gas[Vault] - GASThreshold /\ chain'.gas[Vault] \in Nat
  BY <1>2, <1>7 DEF Spare, Chains
<1>9. CASE Spare <= 0
  <2>1. Spare' <= 0
    BY <1>5, <1>6, <1>8, <1>9
  <2> QED BY <1>3, <2>1
<1>10. CASE Vault = "committee" /\ Needy = {}
  <2>1. \A i \in Members : chain'.purse[i] \in Nat /\ chain.purse[i] \in Nat
    BY <1>7 DEF Chains, TypeOK
  <2>2. \A i \in Members : ~(chain.purse[i] < AlphabetGAS \div 2)
    BY <1>10 DEF Needy
  <2>3. AlphabetGAS \div 2 \in Nat
    BY <1>6
  <2>4. \A i \in Members : ~(chain'.purse[i] < AlphabetGAS \div 2)
    BY <1>5, <2>1, <2>2, <2>3
  <2>5. Needy' = {}
    BY <1>2, <2>4 DEF Needy
  <2> QED BY <1>2, <1>3, <1>10, <2>5
<1> QED BY <1>4, <1>9, <1>10

(* After the initial transfer what is accepted late moves no NEO into the  *)
(* committee's account.                                                    *)
LEMMA NoLateNEO ==
    ASSUME TypeOK, NeoInv, Transferred, NEW t \in txs, t \in Tx, t.op = "transfer",
           Executable(t), Execute(t)
    PROVE  /\ chain'.neo["committee"] = chain.neo["committee"]
           /\ chain'.neo["validators"] = chain.neo["validators"]
<1>1. /\ Vault = "validators" =>
           /\ chain'.neo["validators"] = chain.neo["validators"] - t.neo
           /\ chain'.neo["committee"] = chain.neo["committee"] + t.neo
           /\ t.neo <= chain.neo["validators"]
      /\ Vault = "committee" => chain'.neo = chain.neo
  BY ExecuteTransfer
<1>2. CASE Vault = "committee"
  BY <1>1, <1>2
<1>3. CASE Vault = "validators"
  <2>1. Spare <= 0
    BY <1>3, TransferredIs
  <2>2. Funds[n].gas > GASThreshold
    BY DEF NeoInv, NeoSent
  <2>3. chain.neo["validators"] = 0
    <3> SUFFICES ASSUME chain.neo["validators"] # 0 PROVE FALSE
      OBVIOUS
    <3>1. chain.gas["validators"] = Funds[n].gas
      BY <1>3 DEF NeoInv, VaultFull
    <3>2. Spare = Funds[n].gas - GASThreshold
      BY <1>3, <3>1, Amounts
    <3> QED BY <2>1, <2>2, <3>2, Amounts
  <2>4. t.neo = 0
    <3>1. t.neo \in Nat /\ t.neo <= 0
      BY <1>1, <1>3, <2>3 DEF Tx
    <3> QED BY <3>1
  <2> QED BY <1>1, <1>3, <2>4, Amounts
<1> QED BY <1>2, <1>3, Amounts

(* The NEO that is distributed stays distributed. *)
LEMMA DistributedStays ==
    ASSUME TypeOK, NeoInv, [Next]_vars, Transferred, chain.neo["committee"] = 0
    PROVE  chain'.neo["committee"] = 0
<1>1. CASE SameFunds(chain, chain')
  BY <1>1 DEF SameFunds
<1>2. ASSUME NEW t \in txs, t \in Tx, Executable(t), Execute(t)
      PROVE  chain'.neo["committee"] = 0
  <2>1. CASE t.op \in Works
    BY <1>2, <2>1, ExecuteWork DEF SameFunds
  <2>2. CASE t.op = "refill"
    BY <1>2, <2>2, ExecuteRefill
  <2>3. CASE t.op = "transfer"
    BY <1>2, <2>3, NoLateNEO
  <2>4. CASE t.op = "distribute"
    <3>1. t.neo <= chain.neo["committee"] /\ t.neo \in Nat
          /\ chain'.neo["committee"] = chain.neo["committee"] - t.neo
      BY <1>2, <2>4, ExecuteDistribute DEF Tx
    <3> QED BY <3>1
  <2> QED BY <1>2, <2>1, <2>2, <2>3, <2>4 DEF Tx, Ops, Works
<1> QED BY <1>1, <1>2, Origins

-----------------------------------------------------------------------------
(* Stages that are left behind. *)

Goals == BuildStages \cup {"transfer", "distribute"}

(* Whoever has something ahead has the distribution ahead.                 *)
EndsWithDistribution ==
    \A m \in Members : todo[m] # <<>> => todo[m][Len(todo[m])] = "distribute"

GoalInv == EndsWithDistribution /\ GoalsBehind

(* Goals are stages of every plan. *)
LEMMA GoalFacts ==
    ASSUME TypeOK
    PROVE  /\ Goals \subseteq Stages /\ Goals \subseteq ToSet(Plan)
           /\ "refill" \notin Goals /\ "none" \notin CommonStages
           /\ \A s \in Goals : s \in Contracts \/ s \in {"prefill", "candidates", "update nns",
                                                         "transfer", "distribute"}
<1>1. Contracts \cap CommonStages = {}
  BY CommitteeFacts DEF TypeOK
<1>2. Contracts \cup {"transfer", "distribute", "prefill", "candidates", "update nns"}
          \subseteq ToSet(Plan)
  BY PlanFacts
<1> QED BY <1>1, <1>2 DEF Goals, BuildStages, Stages, CommonStages

(* A goal that is reached stays reached; the distribution after the        *)
(* transfer.                                                               *)
LEMMA GoalStays ==
    ASSUME TypeOK, NeoInv, [Next]_vars, NEW s \in Goals, Reached(s),
           s = "distribute" => Transferred
    PROVE  Reached(s)'
<1>1. n' = n /\ chain' \in Chains
  BY NextTyped DEF NextTypes
<1>2. Members' = Members /\ Contracts' = Contracts
  BY <1>1, SizeStays
<1>3. Grows(chain, chain')
  BY ChainGrows
<1>4. "nns" \in Contracts /\ Contracts \cap CommonStages = {}
  BY CommitteeFacts DEF TypeOK
<1>5. CASE s = "transfer"
  BY <1>5, TransferredStays DEF Reached
<1>6. CASE s = "distribute"
  BY <1>6, DistributedStays DEF Reached
<1>7. CASE s = "prefill"
  BY <1>2, <1>3, <1>7 DEF Reached, Grows
<1>8. CASE s = "candidates"
  <2>1. chain'.candidates \subseteq Members
    BY <1>1 DEF Chains
  <2>2. chain.candidates = Members
    BY <1>8 DEF Reached
  <2>3. chain'.candidates = Members'
    BY <1>2, <1>3, <2>1, <2>2 DEF Grows
  <2> QED BY <1>8, <2>3 DEF Reached
<1>9. CASE s = "update nns"
  BY <1>3, <1>4, <1>9 DEF Reached, Grows
<1>10. CASE s = "nns"
  BY <1>3, <1>4, <1>10 DEF Reached, Grows
<1>11. CASE s \in Contracts /\ s # "nns"
  <2>1. s \notin CommonStages
    BY <1>4, <1>11
  <2>2. chain.contracts[s] = New /\ s \in chain.recorded
    BY <1>11, <2>1 DEF Reached, CommonStages
  <2>3. chain'.contracts[s] = New /\ s \in chain'.recorded
    BY <1>3, <1>11, <2>2 DEF Grows
  <2> QED BY <1>11, <2>1, <2>3 DEF Reached, CommonStages
<1> QED BY <1>5, <1>6, <1>7, <1>8, <1>9, <1>10, <1>11, GoalFacts

(* Only a member whose stage returns leaves a goal behind.                 *)
LEMMA LeftBehind ==
    ASSUME TypeOK, [Next]_vars, NEW m \in Members, NEW s \in Goals,
           s \in Ahead(m), ~(s \in Ahead(m))'
    PROVE  Reached(s) /\ chain' = chain
<1>1. n' = n
  BY NextTyped DEF NextTypes
<1>2. Members' = Members /\ Stages' = Stages
  BY <1>1, SizeStays
<1>3. s \in Stages /\ s \in ToSet(Plan) /\ s # "refill"
  BY GoalFacts
<1>4. m \notin stopped' /\ s \notin ToSet(todo'[m])
  BY <1>2, <1>3 DEF Ahead
<1>5. ASSUME NEW k \in Members, Advance(k) PROVE Reached(s) /\ chain' = chain
  <2>1. Stage(k) # "none" /\ Returns(k) /\ todo' = [todo EXCEPT ![k] = Tail(@)]
        /\ stopped' = stopped /\ chain' = chain
    BY <1>5 DEF Advance
  <2>2. s \in ToSet(todo[m])
    BY <1>4, <2>1 DEF Ahead
  <2>3. m = k
    BY <1>4, <2>1, <2>2 DEF TypeOK
  <2>4. todo'[m] = Tail(todo[m])
    BY <2>1, <2>3 DEF TypeOK
  <2>5. PICK i \in DOMAIN todo[m] : todo[m][i] = s
    BY <2>2 DEF ToSet
  <2>6. /\ todo[m] \in Seq(Stages) /\ Stage(m) = todo[m][1] /\ Len(todo[m]) \in Nat \ {0}
        /\ Tail(todo[m]) \in Seq(Stages) /\ Len(Tail(todo[m])) = Len(todo[m]) - 1
        /\ \A j \in 1..Len(Tail(todo[m])) : Tail(todo[m])[j] = todo[m][j + 1]
    BY <2>1, <2>3, StageType
  <2>7. i = 1
    <3> SUFFICES ASSUME i # 1 PROVE FALSE
      OBVIOUS
    <3>1. i \in 1..Len(todo[m])
      BY <2>5, <2>6
    <3>2. i - 1 \in 1..Len(Tail(todo[m])) /\ (i - 1) + 1 = i
      BY <2>6, <3>1
    <3>3. Tail(todo[m])[i - 1] = s
      BY <2>5, <2>6, <3>2
    <3>4. DOMAIN Tail(todo[m]) = 1..Len(Tail(todo[m]))
      BY <2>6
    <3>5. s \in ToSet(Tail(todo[m]))
      BY <3>2, <3>3, <3>4 DEF ToSet
    <3> QED BY <1>4, <2>4, <3>5
  <2>8. Stage(m) = s
    BY <2>5, <2>6, <2>7
  <2>9. Reached(s)
    BY <1>3, <2>1, <2>3, <2>8 DEF Returns
  <2> QED BY <2>1, <2>9
<1>6. ASSUME NEW k \in Members, Start(k) PROVE FALSE
  <2>1. CASE m = k
    <3>1. todo'[m] = Plan
      BY <1>6, <2>1 DEF Start, TypeOK
    <3> QED BY <1>3, <1>4, <3>1
  <2>2. CASE m # k
    BY <1>4, <1>6, <2>2 DEF Start, TypeOK, Ahead
  <2> QED BY <2>1, <2>2
<1>7. ASSUME NEW k \in Members, Stop(k) PROVE FALSE
  <2>1. m # k /\ m \notin stopped
    BY <1>4, <1>7 DEF Stop
  <2>2. todo'[m] = todo[m]
    BY <1>7, <2>1 DEF Stop, TypeOK
  <2> QED BY <1>4, <2>1, <2>2 DEF Ahead
<1>8. ASSUME stopped' = stopped, todo' = todo PROVE FALSE
  BY <1>4, <1>8 DEF Ahead
<1>9. ASSUME NEW k \in Members, Send(k) \/ SendDeployment(k) PROVE FALSE
  BY <1>8, <1>9, StepSends
<1>10. ASSUME NEW k \in Members, Replenish(k) \/ Drain(k) PROVE FALSE
  BY <1>8, <1>10 DEF Replenish, Drain
<1>11. ASSUME NEW t \in txs, Accept(t) \/ Lose(t) PROVE FALSE
  BY <1>8, <1>11 DEF Accept, Lose
<1>12. CASE DesignateNotary
  BY <1>8, <1>12 DEF DesignateNotary
<1>13. CASE UNCHANGED vars
  BY <1>8, <1>13 DEF vars
<1> QED BY <1>5, <1>6, <1>7, <1>9, <1>10, <1>11, <1>12, <1>13 DEF Next, Step

(* A sequence that is not empty has a last element. *)
LEMMA NonEmpty ==
    ASSUME NEW X, NEW s \in Seq(X), s # <<>>
    PROVE  Len(s) \in 1..Len(s)
  OBVIOUS

(* Members keep the distribution as their last stage. *)
LEMMA EndsNext ==
    ASSUME TypeOK, EndsWithDistribution, [Next]_vars
    PROVE  EndsWithDistribution'
<1>1. n' = n
  BY NextTyped DEF NextTypes
<1>2. Members' = Members
  BY <1>1, SizeStays
<1> SUFFICES ASSUME NEW m \in Members, todo'[m] # <<>>
             PROVE  todo'[m][Len(todo'[m])] = "distribute"
  BY <1>2 DEF EndsWithDistribution
<1>3. CASE todo'[m] = todo[m]
  BY <1>3 DEF EndsWithDistribution
<1>4. ASSUME NEW k \in Members, Advance(k) PROVE todo'[m][Len(todo'[m])] = "distribute"
  <2>1. Stage(k) # "none" /\ todo' = [todo EXCEPT ![k] = Tail(@)]
    BY <1>4 DEF Advance
  <2>2. CASE m # k
    BY <1>3, <2>1, <2>2 DEF TypeOK
  <2>3. CASE m = k
    <3>1. /\ todo[m] \in Seq(Stages) /\ todo[m] # <<>> /\ Len(todo[m]) \in Nat \ {0}
          /\ Tail(todo[m]) \in Seq(Stages) /\ Len(Tail(todo[m])) = Len(todo[m]) - 1
          /\ \A j \in 1..Len(Tail(todo[m])) : Tail(todo[m])[j] = todo[m][j + 1]
      BY <2>1, <2>3, StageType
    <3>2. todo'[m] = Tail(todo[m])
      BY <2>1, <2>3 DEF TypeOK
    <3>3. Tail(todo[m]) # <<>>
      BY <3>2
    <3>4. Len(Tail(todo[m])) \in 1..Len(Tail(todo[m]))
          /\ Len(Tail(todo[m])) + 1 = Len(todo[m])
      <4>1. Len(Tail(todo[m])) \in 1..Len(Tail(todo[m]))
        BY <3>1, <3>3, NonEmpty
      <4> QED BY <3>1, <4>1
    <3>5. Tail(todo[m])[Len(Tail(todo[m]))] = todo[m][Len(todo[m])]
      BY <3>1, <3>4
    <3> QED BY <3>1, <3>2, <3>5 DEF EndsWithDistribution
  <2> QED BY <2>2, <2>3
<1>5. ASSUME NEW k \in Members, Start(k) PROVE todo'[m][Len(todo'[m])] = "distribute"
  <2>1. todo' = [todo EXCEPT ![k] = Plan]
    BY <1>5 DEF Start
  <2>2. CASE m # k
    BY <1>3, <2>1, <2>2 DEF TypeOK
  <2>3. CASE m = k
    BY <2>1, <2>3, PlanFacts DEF TypeOK
  <2> QED BY <2>2, <2>3
<1>6. ASSUME NEW k \in Members, Stop(k) PROVE todo'[m] = todo[m]
  <2>1. todo' = [todo EXCEPT ![k] = <<>>]
    BY <1>6 DEF Stop
  <2> QED BY <2>1 DEF TypeOK
<1>7. ASSUME NEW k \in Members, Send(k) \/ SendDeployment(k) PROVE todo'[m] = todo[m]
  BY <1>7, StepSends
<1>8. ASSUME NEW k \in Members, Replenish(k) \/ Drain(k) PROVE todo'[m] = todo[m]
  BY <1>8 DEF Replenish, Drain
<1>9. ASSUME NEW t \in txs, Accept(t) \/ Lose(t) PROVE todo'[m] = todo[m]
  BY <1>9 DEF Accept, Lose
<1>10. CASE DesignateNotary
  BY <1>3, <1>10 DEF DesignateNotary
<1>11. CASE UNCHANGED vars
  BY <1>3, <1>11 DEF vars
<1> QED BY <1>3, <1>4, <1>5, <1>6, <1>7, <1>8, <1>9, <1>10, <1>11 DEF Next, Step

(* GoalInv is inductive, relative to NeoInv. *)
LEMMA GoalNext == TypeOK /\ NeoInv /\ GoalInv /\ [Next]_vars => GoalInv'
<1> SUFFICES ASSUME TypeOK, NeoInv, GoalInv, [Next]_vars PROVE GoalInv'
  OBVIOUS
<1>1. n' = n
  BY NextTyped DEF NextTypes
<1>2. Members' = Members /\ Contracts' = Contracts
  BY <1>1, SizeStays
<1>3. Goals' = Goals
  BY <1>2 DEF Goals, BuildStages
<1>4. ASSUME NEW m \in Members, NEW s \in Goals, ~(s \in Ahead(m))' PROVE Reached(s)'
  <2>1. CASE s \in Ahead(m)
    <3>1. Reached(s) /\ chain' = chain
      BY <1>4, <2>1, LeftBehind
    <3>2. CASE s # "distribute"
      BY <3>1, <3>2, GoalStays
    <3>3. CASE s = "distribute"
      BY <3>1, <3>3 DEF Reached
    <3> QED BY <3>2, <3>3
  <2>2. CASE s \notin Ahead(m)
    <3>1. Reached(s)
      BY <2>2 DEF GoalInv, GoalsBehind, Goals
    <3>2. s = "distribute" => Transferred
      <4> SUFFICES ASSUME s = "distribute" PROVE Transferred
        OBVIOUS
      <4>1. m \notin stopped /\ s \notin ToSet(todo[m])
        BY <2>2, GoalFacts DEF Ahead
      <4>2. todo[m] = <<>>
        <5> SUFFICES ASSUME todo[m] # <<>> PROVE FALSE
          OBVIOUS
        <5>1. todo[m][Len(todo[m])] = s
          BY DEF GoalInv, EndsWithDistribution
        <5>2. Len(todo[m]) \in DOMAIN todo[m]
          BY DEF TypeOK
        <5> QED BY <4>1, <5>1, <5>2 DEF ToSet
      <4>3. "transfer" \notin Ahead(m)
        BY <4>1, <4>2 DEF Ahead, ToSet
      <4> QED BY <4>3 DEF GoalInv, GoalsBehind, Reached
    <3> QED BY <3>1, <3>2, GoalStays
  <2> QED BY <2>1, <2>2
<1>5. GoalsBehind'
  BY <1>2, <1>3, <1>4 DEF GoalsBehind, Goals
<1>6. EndsWithDistribution'
  BY EndsNext DEF GoalInv
<1> QED BY <1>5, <1>6 DEF GoalInv

(* At first all is ahead. *)
LEMMA GoalInit == Init => GoalInv
<1> SUFFICES ASSUME Init PROVE GoalInv
  OBVIOUS
<1>1. TypeOK
  BY TypeInit
<1>2. Goals \subseteq Stages
  BY <1>1, GoalFacts
<1>3. \A m \in Members : Ahead(m) = Stages /\ todo[m] = <<>>
  BY DEF Init, Ahead
<1> QED BY <1>2, <1>3 DEF GoalInv, EndsWithDistribution, GoalsBehind, Goals

(* A stage that a member has left behind has its goal reached ever after,  *)
(* whoever did the work and whatever is accepted late, twice or not at     *)
(* all.                                                                    *)
THEOREM GoalsStayReached == Spec => []GoalsBehind
<1>1. Init => TypeOK /\ NeoInv /\ GoalInv
  BY TypeInit, NeoInit, GoalInit
<1>2. (TypeOK /\ NeoInv /\ GoalInv) /\ [Next]_vars => (TypeOK /\ NeoInv /\ GoalInv)'
  BY TypeNext, NeoNext, GoalNext
<1>3. TypeOK /\ NeoInv /\ GoalInv => GoalsBehind
  BY DEF GoalInv
<1> QED BY <1>1, <1>2, <1>3, PTL DEF Spec

-----------------------------------------------------------------------------
(* Nothing is left to do. *)

(* A record is in the domain neofs, and never that of the NNS contract,    *)
(* which others find without it.                                           *)
RecInv ==
    /\ \A t \in txs : t.op = "record" => t.about # "nns"
    /\ chain.recorded # {} => chain.tld

(* RecInv holds at first, and after every step. *)
LEMMA RecInit == Init => RecInv
<1> SUFFICES ASSUME Init PROVE RecInv
  OBVIOUS
<1>1. chain \in {Fresh, Bare, Older} /\ txs = {}
  BY DeploymentAssumption DEF Init
<1>2. DOMAIN Fresh = {"contracts", "recorded", "tld", "notary", "alphabet", "candidates",
                      "gas", "neo", "purse", "share"} /\ Fresh.recorded = {}
  BY DEF Fresh
<1>3. Bare.recorded = {}
  BY <1>2 DEF Bare
<1>4. Older.tld
  BY <1>2 DEF Older
<1> QED BY <1>1, <1>2, <1>3, <1>4 DEF RecInv

LEMMA RecNext == TypeOK /\ RecInv /\ [Next]_vars => RecInv'
<1> SUFFICES ASSUME TypeOK, RecInv, [Next]_vars PROVE RecInv'
  OBVIOUS
<1>1. CASE \E t \in txs : /\ t \in Tx /\ txs' \subseteq txs \ {t} /\ Executable(t) /\ Execute(t)
  <2>1. PICK t \in txs : t \in Tx /\ txs' \subseteq txs \ {t} /\ Executable(t) /\ Execute(t)
    BY <1>1
  <2>2. chain'.recorded = chain.recorded \/ chain.tld
    <3>1. CASE t.op = "record"
      BY <2>1, <3>1 DEF Executable
    <3>2. CASE t.op \in Works /\ t.op # "record"
      BY <2>1, <3>2 DEF Works, Execute, TypeOK, Chains
    <3>3. CASE t.op = "transfer"
      BY <2>1, <3>3, ExecuteTransfer DEF SameWork
    <3>4. CASE t.op = "refill"
      BY <2>1, <3>4, ExecuteRefill DEF SameWork
    <3>5. CASE t.op = "distribute"
      BY <2>1, <3>5, ExecuteDistribute DEF SameWork
    <3> QED BY <2>1, <3>1, <3>2, <3>3, <3>4, <3>5 DEF Tx, Ops, Works
  <2>3. chain.tld => chain'.tld
    BY ChainGrows DEF Grows
  <2> QED BY <2>1, <2>2, <2>3 DEF RecInv
<1>2. CASE /\ chain' = chain \/ DesignateNotary
           /\ \A u \in txs' : (u \in Tx /\ Sendable(u)) \/ \E v \in txs : Alike(u, v)
  <2>1. chain'.recorded = chain.recorded /\ chain'.tld = chain.tld
    BY <1>2 DEF DesignateNotary, TypeOK, Chains
  <2>2. \A u \in txs' : u.op = "record" => u.about # "nns"
    BY <1>2 DEF RecInv, Sendable, Alike
  <2> QED BY <2>1, <2>2 DEF RecInv
<1> QED BY <1>1, <1>2, Origins

AllReached == \A s \in Stages : Reached(s)

(* The chain when the goals of all stages are reached. *)
LEMMA DoneIs ==
    ASSUME TypeOK, RecInv, AllReached
    PROVE  /\ \A c \in Contracts : chain.contracts[c] = New
           /\ \A c \in Contracts : c # "nns" => c \in chain.recorded
           /\ chain.tld /\ chain.notary /\ chain.alphabet /\ chain.candidates = Members
           /\ chain.neo["committee"] = 0 /\ Transferred
<1>1. CommonStages \subseteq Stages /\ {"nns", "proxy"} \subseteq Contracts
      /\ Contracts \cap CommonStages = {}
  BY CommitteeFacts DEF Stages, TypeOK
<1>2. ASSUME NEW c \in Contracts, c # "nns"
      PROVE  chain.contracts[c] = New /\ c \in chain.recorded
  BY <1>2, StageFacts DEF AllReached
<1>3. /\ chain.contracts["nns"] = New /\ chain.notary /\ chain.alphabet
      /\ chain.candidates = Members /\ chain.neo["committee"] = 0 /\ Transferred
  <2>1. Reached("update nns") /\ Reached("notary") /\ Reached("alphabet role")
        /\ Reached("candidates") /\ Reached("distribute") /\ Reached("transfer")
    BY <1>1 DEF AllReached, CommonStages
  <2> QED BY <2>1 DEF Reached
<1>4. chain.tld
  BY <1>1, <1>2 DEF RecInv
<1> QED BY <1>2, <1>3, <1>4

SameButGAS(before, after) == [after EXCEPT !.gas = before.gas, !.purse = before.purse] = before

(* Late transactions move GAS, or fault.                                   *)
LEMMA DoneAccepted ==
    ASSUME TypeOK, NeoInv, RecInv, AllReached, NEW t \in txs, t \in Tx,
           Executable(t), Execute(t)
    PROVE  SameButGAS(chain, chain')
<1>1. t.about \in Contracts /\ t.cands \subseteq Members /\ t.neo \in Nat
  BY DEF Tx
<1>2. New # Old /\ New # Missing
  BY DEF New, Old, Missing
<1>3. ~Useless(t, chain)
  BY DEF Executable
<1>4. CASE t.op = "deploy"
  BY <1>1, <1>2, <1>3, <1>4, DoneIs DEF Useless
<1>5. CASE t.op = "update"
  BY <1>1, <1>3, <1>5, DoneIs DEF Useless
<1>6. CASE t.op = "record"
  BY <1>1, <1>3, <1>6, DoneIs DEF Useless, RecInv
<1>7. CASE t.op = "tld"
  BY <1>3, <1>7, DoneIs DEF Useless
<1>8. CASE t.op = "designate"
  BY <1>3, <1>8, DoneIs DEF Useless
<1>9. CASE t.op = "register"
  BY <1>1, <1>3, <1>9, DoneIs DEF Useless
<1>10. CASE t.op = "distribute"
  <2>1. t.neo = Total /\ Total > 0 /\ t.neo <= chain.neo["committee"]
    BY <1>10, ExecuteDistribute DEF NeoInv, NeoSent
  <2>2. chain.neo["committee"] = 0
    BY DoneIs
  <2> QED BY <2>1, <2>2, Amounts
<1>11. CASE t.op = "transfer"
  <2>1. chain' \in Chains /\ SameWork(chain, chain') /\ chain'.share = chain.share
    BY <1>11, ExecuteTransfer
  <2>2. /\ chain'.neo["committee"] = chain.neo["committee"]
        /\ chain'.neo["validators"] = chain.neo["validators"]
    BY <1>11, DoneIs, NoLateNEO
  <2>3. chain'.neo = chain.neo
    <3>1. chain.neo \in [{"validators", "committee"} -> Nat]
          /\ chain'.neo \in [{"validators", "committee"} -> Nat]
      BY <2>1 DEF TypeOK, Chains
    <3>2. \A a \in {"validators", "committee"} : chain'.neo[a] = chain.neo[a]
      BY <2>2
    <3> QED BY <3>1, <3>2
  <2> QED BY <2>1, <2>3 DEF SameButGAS, SameWork, TypeOK, Chains
<1>12. CASE t.op = "refill"
  <2>1. /\ chain' \in Chains /\ SameWork(chain, chain') /\ chain'.share = chain.share
        /\ chain'.neo = chain.neo
    BY <1>12, ExecuteRefill
  <2> QED BY <2>1 DEF SameButGAS, SameWork, TypeOK, Chains
<1> QED BY <1>4, <1>5, <1>6, <1>7, <1>8, <1>9, <1>10, <1>11, <1>12 DEF Tx, Ops

(* Some of the transactions are not more of them. *)
LEMMA Fewer ==
    ASSUME TypeOK, txs' \subseteq txs
    PROVE  Cardinality(txs') <= Cardinality(txs)
<1>1. txs' \in SUBSET txs
  OBVIOUS
<1> QED BY <1>1, FS_Subset DEF TypeOK

(* What a step does when all goals are reached. *)
LEMMA SettledStep ==
    ASSUME TypeOK, NeoInv, RecInv, [Next]_vars, AllReached
    PROVE  /\ txs # {} \/ txs' = {}
           /\ Cardinality(txs') <= Cardinality(txs)
           /\ SameButGAS(chain, chain')
<1>1. SameButGAS(chain, chain)
  BY DEF SameButGAS, TypeOK, Chains
<1>2. \A m \in Members : ~(Send(m) \/ SendDeployment(m))
  BY StepSends DEF Submitted, Sendable, AllReached
<1>3. Cardinality(txs') <= Cardinality(txs) /\ SameButGAS(chain, chain')
  <2>1. ASSUME NEW m \in Members, Step(m)
        PROVE  Cardinality(txs') <= Cardinality(txs) /\ chain' = chain
    <3>1. Advance(m)
      BY <1>2, <2>1 DEF Step
    <3> QED BY <3>1, ForgottenTypes DEF Advance
  <2>2. ASSUME NEW m \in Members, Replenish(m) \/ Drain(m) \/ Start(m)
        PROVE  Cardinality(txs') <= Cardinality(txs) /\ chain' = chain
    BY <2>2, Fewer DEF Replenish, Drain, Start
  <2>3. ASSUME NEW m \in Members, Stop(m)
        PROVE  Cardinality(txs') <= Cardinality(txs) /\ chain' = chain
    <3>1. PICK unsigned : txs' = Abandoned(m, unsigned)
      BY <2>3, StopTypes
    <3> QED BY <2>3, <3>1, AbandonedTypes DEF Stop
  <2>4. ASSUME NEW t \in txs, Accept(t)
        PROVE  Cardinality(txs') <= Cardinality(txs) /\ SameButGAS(chain, chain')
    <3>1. /\ t \in Tx /\ txs' \subseteq txs
          /\ chain' = chain \/ (Executable(t) /\ Execute(t))
      BY <2>4, AcceptTypes
    <3> QED BY <1>1, <3>1, Fewer, DoneAccepted
  <2>5. ASSUME NEW t \in txs, Lose(t)
        PROVE  Cardinality(txs') <= Cardinality(txs) /\ chain' = chain
    BY <2>5, Fewer DEF Lose
  <2>6. ~DesignateNotary
    BY DoneIs DEF DesignateNotary
  <2>7. CASE UNCHANGED vars
    BY <1>1, <2>7, Fewer DEF vars
  <2> QED BY <1>1, <2>1, <2>2, <2>3, <2>4, <2>5, <2>6, <2>7 DEF Next
<1>4. txs = {} => txs' = {}
  <2> SUFFICES ASSUME txs = {} PROVE txs' = {}
    OBVIOUS
  <2>1. IsFiniteSet(txs')
    BY NextTyped DEF NextTypes
  <2>2. Cardinality(txs') \in Nat /\ Cardinality(txs) = 0
    BY <2>1, FS_CardinalityType, FS_EmptySet
  <2>3. Cardinality(txs') = 0
    BY <1>3, <2>2
  <2> QED BY <2>1, <2>3, FS_EmptySet
<1> QED BY <1>3, <1>4

(* Once all goals are reached, the procedure is over: no member sends      *)
(* anything more, and what is accepted late moves GAS at most.             *)
THEOREM NothingLeft == Spec => Settled
<1>1. Init => TypeOK /\ NeoInv /\ RecInv
  BY TypeInit, NeoInit, RecInit
<1>2. (TypeOK /\ NeoInv /\ RecInv) /\ [Next]_vars => (TypeOK /\ NeoInv /\ RecInv)'
  BY TypeNext, NeoNext, RecNext
<1>3. TypeOK /\ NeoInv /\ RecInv /\ [Next]_vars =>
        [(\A s \in Stages : Reached(s)) =>
          /\ txs # {} \/ txs' = {}
          /\ Cardinality(txs') <= Cardinality(txs)
          /\ [chain' EXCEPT !.gas = chain.gas, !.purse = chain.purse] = chain]_vars
  BY SettledStep DEF AllReached, SameButGAS
<1> QED BY <1>1, <1>2, <1>3, PTL DEF Spec, Settled

-----------------------------------------------------------------------------
(* What members are given. *)

IsTransfer(t) == t.op = "transfer"
Tracked(t) == IsTransfer(t) /\ t.tracked

(* The transfers in T to member i that nobody waits for, whether somebody  *)
(* waits for one, and that there is one of those at most.                  *)
Late(T, i) == {t \in T : IsTransfer(t) /\ ~t.tracked /\ t.pay[i] # 0}
Awaited(T, i) == \E t \in T : Tracked(t) /\ t.pay[i] # 0
OneTracked(T) == \A t, u \in T : Tracked(t) /\ Tracked(u) => t = u

(* There are finitely many late transfers, and less of them among fewer    *)
(* transactions.                                                           *)
LEMMA LateFinite ==
    ASSUME NEW T, IsFiniteSet(T), NEW i
    PROVE  IsFiniteSet(Late(T, i)) /\ Cardinality(Late(T, i)) \in Nat
<1>1. Late(T, i) \in SUBSET T
  BY DEF Late
<1> QED BY <1>1, FS_Subset, FS_CardinalityType

LEMMA LateShrinks ==
    ASSUME NEW S, IsFiniteSet(S), NEW T, T \subseteq S, NEW i, OneTracked(S)
    PROVE  /\ Cardinality(Late(T, i)) <= Cardinality(Late(S, i))
           /\ Awaited(T, i) => Awaited(S, i)
           /\ OneTracked(T)
<1>1. Late(T, i) \in SUBSET Late(S, i)
  BY DEF Late
<1>2. Cardinality(Late(T, i)) <= Cardinality(Late(S, i))
  BY <1>1, LateFinite, FS_Subset
<1> QED BY <1>2 DEF Awaited, OneTracked

(* A late transfer is gone.                                                *)
LEMMA LateGone ==
    ASSUME NEW S, IsFiniteSet(S), NEW t \in S, NEW T, T \subseteq S \ {t}, NEW i,
           IsTransfer(t), ~t.tracked, t.pay[i] # 0
    PROVE  Cardinality(Late(T, i)) + 1 <= Cardinality(Late(S, i))
<1> DEFINE L == Late(S, i)
<1>1. t \in L /\ Late(T, i) \in SUBSET (L \ {t})
  BY DEF Late
<1>2. IsFiniteSet(L) /\ Cardinality(L) \in Nat
  BY LateFinite
<1> HIDE DEF L
<1>3. IsFiniteSet(L \ {t}) /\ Cardinality(L \ {t}) = Cardinality(L) - 1
  BY <1>1, <1>2, FS_RemoveElement
<1>4. Cardinality(Late(T, i)) <= Cardinality(L \ {t}) /\ Cardinality(Late(T, i)) \in Nat
  BY <1>1, <1>3, FS_Subset, FS_CardinalityType
<1>5. Cardinality(Late(T, i)) + 1 <= Cardinality(L)
  BY <1>2, <1>3, <1>4
<1> QED BY <1>5 DEF L

(* Member m forgets its transactions.                                      *)
Relabels(f, m) ==
    \A x \in txs : /\ Alike(f[x], x)
                   /\ f[x].tracked => x.tracked /\ x.by # m
                   /\ x.tracked /\ x.by # m => f[x].tracked

(* Its transfers come to be late; if it leads, that is one at most. *)
LEMMA Relabelled ==
    ASSUME TypeOK, NEW f, NEW m \in Members, Relabels(f, m), OneTracked(txs),
           \A t \in txs : IsTransfer(t) => t.by = Leader, NEW T, T = {f[x] : x \in txs}
    PROVE  /\ OneTracked(T)
           /\ m = Leader => \A u \in T : ~Tracked(u)
           /\ \A i \in Members :
                 /\ Awaited(T, i) => Awaited(txs, i)
                 /\ Cardinality(Late(T, i)) <= Cardinality(Late(txs, i))
                      + IF m = Leader /\ Awaited(txs, i) THEN 1 ELSE 0
<1>1. \A u \in T : \E x \in txs : u = f[x]
  OBVIOUS
<1>2. \A x \in txs : Tracked(f[x]) => Tracked(x) /\ m # Leader
  BY DEF Relabels, Alike, Tracked, IsTransfer
<1>3. OneTracked(T)
  <2> SUFFICES ASSUME NEW t \in T, NEW u \in T, Tracked(t), Tracked(u) PROVE t = u
    BY DEF OneTracked
  <2>1. PICK x \in txs : t = f[x]
    BY <1>1
  <2>2. PICK y \in txs : u = f[y]
    BY <1>1
  <2>3. x = y
    BY <1>2, <2>1, <2>2 DEF OneTracked
  <2> QED BY <2>1, <2>2, <2>3
<1>4. m = Leader => \A u \in T : ~Tracked(u)
  BY <1>1, <1>2
<1>5. ASSUME NEW i \in Members
      PROVE  /\ Awaited(T, i) => Awaited(txs, i)
             /\ Cardinality(Late(T, i)) <= Cardinality(Late(txs, i))
                  + IF m = Leader /\ Awaited(txs, i) THEN 1 ELSE 0
  <2>1. Awaited(T, i) => Awaited(txs, i)
    <3> SUFFICES ASSUME NEW u \in T, Tracked(u), u.pay[i] # 0 PROVE Awaited(txs, i)
      BY DEF Awaited
    <3>1. PICK x \in txs : u = f[x]
      BY <1>1
    <3>2. Tracked(x) /\ x.pay[i] # 0
      BY <1>2, <3>1 DEF Relabels, Alike
    <3> QED BY <3>2 DEF Awaited
  <2> DEFINE L == Late(txs, i)
             A == {x \in txs : Tracked(x) /\ x.pay[i] # 0 /\ m = Leader}
             F == {f[x] : x \in L \cup A}
  <2>2. IsFiniteSet(L) /\ Cardinality(L) \in Nat
    BY LateFinite DEF TypeOK
  <2>3. Late(T, i) \subseteq F
    <3> SUFFICES ASSUME NEW u \in Late(T, i) PROVE u \in F
      OBVIOUS
    <3>1. u \in T /\ IsTransfer(u) /\ ~u.tracked /\ u.pay[i] # 0
      BY DEF Late
    <3>2. PICK x \in txs : u = f[x]
      BY <1>1, <3>1
    <3>3. IsTransfer(x) /\ x.pay[i] # 0 /\ (x.tracked => x.by = m)
      BY <3>1, <3>2 DEF Relabels, Alike, IsTransfer
    <3>4. x \in L \cup A
      BY <3>3 DEF Late, Tracked
    <3> QED BY <3>2, <3>4
  <2>4. IsFiniteSet(A) /\ Cardinality(A) <= IF m = Leader /\ Awaited(txs, i) THEN 1 ELSE 0
    <3>1. CASE A = {}
      <4>1. IsFiniteSet(A) /\ Cardinality(A) = 0
        BY <3>1, FS_EmptySet
      <4> QED BY <4>1
    <3>2. CASE A # {}
      <4>1. PICK x \in A : TRUE
        BY <3>2
      <4>2. A = {x}
        BY <4>1 DEF OneTracked
      <4>3. m = Leader /\ Awaited(txs, i)
        BY <4>1 DEF Awaited
      <4>4. IsFiniteSet(A) /\ Cardinality(A) = 1
        BY <4>2, FS_Singleton
      <4> QED BY <4>3, <4>4
    <3> QED BY <3>1, <3>2
  <2> HIDE DEF L, A
  <2>5. IsFiniteSet(L \cup A) /\ Cardinality(L \cup A) <= Cardinality(L) + Cardinality(A)
        /\ Cardinality(L \cup A) \in Nat /\ Cardinality(A) \in Nat
    <3>1. IsFiniteSet(L \cup A) /\ IsFiniteSet(L \cap A)
      BY <2>2, <2>4, FS_Union, FS_Intersection
    <3>2. Cardinality(L \cup A) = Cardinality(L) + Cardinality(A) - Cardinality(L \cap A)
      BY <2>2, <2>4, FS_Union
    <3>3. Cardinality(L \cap A) \in Nat /\ Cardinality(L \cup A) \in Nat /\ Cardinality(A) \in Nat
      BY <2>4, <3>1, FS_CardinalityType
    <3> QED BY <2>2, <3>1, <3>2, <3>3
  <2>6. IsFiniteSet(F) /\ Cardinality(F) <= Cardinality(L \cup A)
    BY <2>5, ImageFinite
  <2> HIDE DEF F
  <2>7. Late(T, i) \in SUBSET F
    BY <2>3
  <2>8. Cardinality(Late(T, i)) <= Cardinality(F) /\ Cardinality(Late(T, i)) \in Nat
        /\ Cardinality(F) \in Nat
    BY <2>6, <2>7, FS_Subset, FS_CardinalityType
  <2>9. Cardinality(Late(T, i)) <= Cardinality(L) + IF m = Leader /\ Awaited(txs, i) THEN 1 ELSE 0
    BY <2>2, <2>4, <2>5, <2>6, <2>8
  <2> QED BY <2>1, <2>9 DEF L
<1> QED BY <1>3, <1>4, <1>5

(* That is what happens when a stage ends and when the member stops. *)
LEMMA ForgottenRelabels ==
    ASSUME TypeOK, NEW m
    PROVE  \E f : Relabels(f, m) /\ Forgotten(m) = {f[x] : x \in txs}
<1> DEFINE f == [t \in txs |-> IF t.by = m THEN [t EXCEPT !.tracked = FALSE] ELSE t]
<1>1. Forgotten(m) = {f[u] : u \in txs}
  BY DEF Forgotten
<1>2. Relabels(f, m)
  <2> SUFFICES ASSUME NEW u \in txs
               PROVE  /\ Alike(f[u], u)
                      /\ f[u].tracked => u.tracked /\ u.by # m
                      /\ u.tracked /\ u.by # m => f[u].tracked
    BY DEF Relabels
  <2>1. u \in Tx
    BY DEF TypeOK
  <2>2. CASE u.by = m
    BY <2>1, <2>2 DEF Tx, Alike
  <2>3. CASE u.by # m
    BY <2>1, <2>3 DEF Tx, Alike
  <2> QED BY <2>2, <2>3
<1> QED BY <1>1, <1>2

LEMMA AbandonedRelabels ==
    ASSUME TypeOK, NEW m, NEW unsigned
    PROVE  \E f : Relabels(f, m) /\ Abandoned(m, unsigned) = {f[x] : x \in txs}
<1> DEFINE f == [t \in txs |-> [t EXCEPT !.tracked = @ /\ t.by # m,
                                         !.signed = @ \ IF t \in unsigned THEN {m} ELSE {}]]
<1>1. Abandoned(m, unsigned) = {f[u] : u \in txs}
  BY DEF Abandoned
<1>2. Relabels(f, m)
  <2> SUFFICES ASSUME NEW u \in txs
               PROVE  /\ Alike(f[u], u)
                      /\ f[u].tracked => u.tracked /\ u.by # m
                      /\ u.tracked /\ u.by # m => f[u].tracked
    BY DEF Relabels
  <2>1. u \in Tx
    BY DEF TypeOK
  <2> DEFINE a == (u.tracked /\ u.by # m)
             b == u.signed \ IF u \in unsigned THEN {m} ELSE {}
  <2>2. f[u] = [u EXCEPT !.tracked = a, !.signed = b] /\ a \in BOOLEAN
    BY <2>1 DEF Tx
  <2>3. a <=> u.tracked /\ u.by # m
    OBVIOUS
  <2> HIDE DEF a, b, f
  <2>4. f[u].tracked = a
    BY <2>1, <2>2 DEF Tx
  <2>5. Alike(f[u], u)
    BY <2>1, <2>2, <2>3, <2>4 DEF Tx, Alike
  <2> QED BY <2>2, <2>3, <2>4, <2>5
<1> QED BY <1>1, <1>2

(* The products that bound what members are given.                         *)
LEMMA Scaled ==
    ASSUME NEW A \in Nat, NEW p \in Nat, NEW p1 \in Nat, NEW x \in Nat, NEW x1 \in Nat,
           NEW y \in Nat, NEW y1 \in Nat, NEW e \in {0, 1},
           p + A * x <= A * y, p1 <= p + A * e, x1 + e + y <= x + y1
    PROVE  p1 + A * x1 <= A * y1
<1> DEFINE d == x + y1 - (x1 + e + y)
<1>1. d \in Nat /\ x + y1 = d + x1 + e + y
  OBVIOUS
<1> HIDE DEF d
<1>2. A * (x + y1) = A * x + A * y1 /\ A * x \in Nat /\ A * y1 \in Nat /\ A * x1 \in Nat /\ A * y \in Nat
      /\ A * e \in Nat /\ A * d \in Nat
  BY <1>1
<1>3. A * (d + x1 + e + y) = A * d + A * x1 + A * e + A * y
  BY <1>1
<1> DEFINE ax == A * x
           ay == A * y
           ax1 == A * x1
           ay1 == A * y1
           ae == A * e
           ad == A * d
<1>4. ax + ay1 = ad + ax1 + ae + ay
  BY <1>1, <1>2, <1>3
<1>5. ax \in Nat /\ ay1 \in Nat /\ ad \in Nat /\ ax1 \in Nat /\ ae \in Nat /\ ay \in Nat
      /\ p + ax <= ay /\ p1 <= p + ae
  BY <1>2
<1> HIDE DEF ax, ay, ax1, ay1, ae, ad
<1>6. p1 + ax1 <= ay1
  BY <1>4, <1>5
<1> QED BY <1>6 DEF ax1, ay1

(* A transfer gives whole amounts, unless it takes all there is.           *)
PayFacts(t) ==
    IsTransfer(t) => /\ t.by = Leader
                     /\ \A i \in Members : t.pay[i] \in 0..AlphabetGAS
                     /\ \/ \A i \in Members : t.pay[i] \in {0, AlphabetGAS}
                        \/ Spare <= SumFunction(t.pay)

(* So as long as there is something to give, members have nothing or a     *)
(* whole amount.  The leader waits for one transfer at most.               *)
PayInv ==
    /\ \A t \in txs : PayFacts(t)
    /\ \A t \in txs : Tracked(t) => Stage(Leader) = "transfer"
    /\ OneTracked(txs)
    /\ Spare > 0 => \A i \in Members : chain.purse[i] = 0 \/ chain.purse[i] >= AlphabetGAS

(* Has member i to be given an amount, by a transfer that is waited for or *)
(* still to come?                                                          *)
Due(i) == IF (chain.purse[i] = 0 /\ ~Transferred) \/ Awaited(txs, i) THEN 1 ELSE 0

FundInv ==
    \A i \in Members :
        chain.purse[i] + AlphabetGAS * (Cardinality(Late(txs, i)) + Due(i))
            <= AlphabetGAS * (1 + mishaps)

(* What a step may do for member i: its purse grows by one amount at most, *)
(* if e is 1, for which there is one transfer less or one mishap more.     *)
Grants(i, e) ==
    /\ chain'.purse[i] <= chain.purse[i] + AlphabetGAS * e
    /\ Cardinality(Late(txs', i)) + Due(i)' + e + mishaps
           <= Cardinality(Late(txs, i)) + Due(i) + mishaps'

(* The terms of FundInv are numbers. *)
LEMMA FundFacts ==
    ASSUME TypeOK, NEW i \in Members
    PROVE  /\ AlphabetGAS \in Nat /\ chain.purse[i] \in Nat /\ mishaps \in Nat
           /\ Cardinality(Late(txs, i)) \in Nat /\ Due(i) \in {0, 1}
<1>1. IsFiniteSet(txs) /\ AlphabetGAS \in Nat
  BY Amounts DEF TypeOK
<1> QED BY <1>1, LateFinite DEF TypeOK, Chains, Due

(* Steps that grant one amount at most, for which there is a reason, keep  *)
(* FundInv.                                                                *)
LEMMA FundStep ==
    ASSUME TypeOK, TypeOK', n' = n, FundInv,
           \A i \in Members : \E e \in {0, 1} : Grants(i, e)
    PROVE  FundInv'
<1>1. Members' = Members
  BY SizeStays
<1> SUFFICES ASSUME NEW i \in Members
             PROVE  chain'.purse[i] + AlphabetGAS * (Cardinality(Late(txs', i)) + Due(i)')
                        <= AlphabetGAS * (1 + mishaps')
  BY <1>1 DEF FundInv
<1>2. PICK e \in {0, 1} : Grants(i, e)
  OBVIOUS
<1>3. /\ AlphabetGAS \in Nat /\ chain.purse[i] \in Nat /\ mishaps \in Nat
      /\ Cardinality(Late(txs, i)) \in Nat /\ Due(i) \in {0, 1}
  BY FundFacts
<1>4. chain'.purse[i] \in Nat /\ mishaps' \in Nat /\ IsFiniteSet(txs')
  BY <1>1 DEF TypeOK, Chains
<1>5. Cardinality(Late(txs', i)) \in Nat /\ Due(i)' \in {0, 1}
  BY <1>4, LateFinite DEF Due
<1> DEFINE p == chain.purse[i]
           p1 == chain'.purse[i]
           x == Cardinality(Late(txs, i)) + Due(i)
           x1 == Cardinality(Late(txs', i)) + Due(i)'
           y == 1 + mishaps
           y1 == 1 + mishaps'
<1>6. p \in Nat /\ p1 \in Nat /\ x \in Nat /\ x1 \in Nat /\ y \in Nat /\ y1 \in Nat
  <2>1. p \in Nat /\ p1 \in Nat
    BY <1>3, <1>4
  <2>2. x \in Nat
    BY <1>3
  <2>3. x1 \in Nat
    BY <1>5
  <2>4. y \in Nat
    BY <1>3
  <2>5. y1 \in Nat
    <3> DEFINE m1 == mishaps'
    <3>1. m1 \in Nat
      BY <1>4
    <3> HIDE DEF m1
    <3>2. 1 + m1 \in Nat
      BY <3>1
    <3> QED BY <3>2 DEF m1
  <2> QED BY <2>1, <2>2, <2>3, <2>4, <2>5
<1>7. p + AlphabetGAS * x <= AlphabetGAS * y
  BY DEF FundInv
<1>8. p1 <= p + AlphabetGAS * e
  BY <1>2 DEF Grants
<1>9. x1 + e + y <= x + y1
  BY <1>2, <1>3, <1>4, <1>5 DEF Grants
<1> HIDE DEF p, p1, x, x1, y, y1
<1>10. p1 + AlphabetGAS * x1 <= AlphabetGAS * y1
  BY <1>3, <1>6, <1>7, <1>8, <1>9, Scaled
<1> QED BY <1>10 DEF p1, x1, y1

(* Nobody becomes needy: what is due is so already.                        *)
LEMMA DueStays ==
    ASSUME TypeOK, [Next]_vars, NEW i \in Members, Awaited(txs', i) => Awaited(txs, i)
    PROVE  Due(i)' <= Due(i) /\ Due(i) \in {0, 1} /\ Due(i)' \in {0, 1}
<1>1. Transferred => Transferred'
  BY TransferredStays
<1>2. chain.purse[i] <= chain'.purse[i] /\ chain.purse[i] \in Nat /\ chain'.purse[i] \in Nat
  BY ChainGrows, NextTyped DEF TypeOK, NextTypes, Chains
<1>3. chain'.purse[i] = 0 => chain.purse[i] = 0
  BY <1>2
<1> QED BY <1>1, <1>3 DEF Due

(* A step that leaves transfers and purses alone, or drops some.           *)
LEMMA QuietGrants ==
    ASSUME TypeOK, PayInv, [Next]_vars, NEW i \in Members, mishaps' \in Nat, mishaps <= mishaps',
           chain'.purse[i] = chain.purse[i],
           Awaited(txs', i) => Awaited(txs, i),
           Cardinality(Late(txs', i)) <= Cardinality(Late(txs, i))
    PROVE  Grants(i, 0)
<1>1. Due(i)' <= Due(i) /\ Due(i) \in {0, 1} /\ Due(i)' \in {0, 1}
  BY DueStays
<1>2. /\ AlphabetGAS \in Nat /\ chain.purse[i] \in Nat /\ mishaps \in Nat
      /\ Cardinality(Late(txs, i)) \in Nat
  BY FundFacts
<1>3. Cardinality(Late(txs', i)) \in Nat
  BY LateFinite, NextTyped DEF NextTypes
<1>4. chain'.purse[i] <= chain.purse[i] + AlphabetGAS * 0
  BY <1>2
<1> QED BY <1>1, <1>2, <1>3, <1>4 DEF Grants

(* What holds of all transfers holds of those after a step.                *)
LEMMA PayFactsNext ==
    ASSUME TypeOK, PayInv, [Next]_vars
    PROVE  \A t \in txs' : PayFacts(t)'
<1>1. n' = n /\ Members' = Members
  BY NextTyped, SizeStays DEF NextTypes
<1>2. chain'.gas[Vault] <= chain.gas[Vault] /\ Vault' = Vault
  BY <1>1, ChainGrows, SizeStays
<1>3. Spare' <= Spare /\ Spare' \in Int /\ Spare \in Int
  <2>1. Spare = chain.gas[Vault] - GASThreshold /\ chain.gas[Vault] \in Nat /\ GASThreshold \in Nat
        /\ Spare \in Int
    BY Amounts
  <2>2. chain'.gas[Vault] \in Nat
    BY Amounts, NextTyped DEF NextTypes, Chains
  <2>3. Spare' = chain'.gas[Vault] - GASThreshold
    BY <1>2 DEF Spare
  <2> QED BY <1>2, <2>1, <2>2, <2>3
<1>4. ASSUME NEW t, t \in Tx, PayFacts(t) PROVE PayFacts(t)'
  <2>1. SumFunction(t.pay) \in Nat
    BY <1>4, PaidType DEF TypeOK
  <2>2. Spare <= SumFunction(t.pay) => Spare' <= SumFunction(t.pay)
    BY <1>3, <2>1
  <2> QED BY <1>1, <1>4, <2>2 DEF PayFacts
<1>5. ASSUME NEW t \in Tx, Sendable(t) PROVE PayFacts(t)
  <2> SUFFICES ASSUME t.op = "transfer" PROVE PayFacts(t)
    BY DEF PayFacts, IsTransfer
  <2>1. t.by = Leader /\ t.pay = Payment /\ Spare > 0
    BY <1>5 DEF Sendable
  <2>2. /\ \A i \in Members : Payment[i] \in 0..AlphabetGAS
        /\ (\A i \in Members : Payment[i] \in {0, AlphabetGAS}) \/ SumFunction(Payment) = Spare
    BY <2>1, TransferIs
  <2> QED BY <1>3, <2>1, <2>2 DEF PayFacts
<1>6. \A t \in txs : t \in Tx /\ PayFacts(t)
  BY DEF PayInv, TypeOK
<1>7. \A t \in txs' : t \in Tx
  BY NextTyped DEF NextTypes
<1>8. ASSUME NEW t, NEW u, Alike(t, u), PayFacts(u) PROVE PayFacts(t)
  BY <1>8 DEF Alike, PayFacts, IsTransfer
<1> QED BY <1>4, <1>5, <1>6, <1>7, <1>8, Origins

(* The stage of the leader stays when others take steps. *)
LEMMA StageKept ==
    ASSUME n' = n, todo'[Leader] = todo[Leader], Leader \in stopped' <=> Leader \in stopped
    PROVE  Stage(Leader)' = Stage(Leader)
<1>1. Members' = Members
  BY SizeStays
<1>2. Leader \in Running' <=> Leader \in Running
  BY <1>1 DEF Running
<1> QED BY <1>2 DEF Stage

(* The leader sends a transfer only if it waits for none. *)
LEMMA SentTransfers ==
    ASSUME TypeOK, PayInv, NEW t \in Tx, Submitted(t)
    PROVE  /\ OneTracked(txs')
           /\ \A u \in txs' : Tracked(u) => Stage(Leader) = "transfer"
           /\ \A i \in Members :
                 /\ Cardinality(Late(txs', i)) <= Cardinality(Late(txs, i))
                 /\ Awaited(txs', i) => Awaited(txs, i) \/ (IsTransfer(t) /\ t.pay[i] # 0)
<1>1. txs' = {IF u = t THEN [u EXCEPT !.tracked = FALSE] ELSE u : u \in txs} \cup {t}
  BY DEF Submitted, Sent
<1>2. CASE ~IsTransfer(t)
  <2>1. \A u \in txs' : IsTransfer(u) => u \in txs
    <3> SUFFICES ASSUME NEW u \in txs', IsTransfer(u) PROVE u \in txs
      OBVIOUS
    <3>1. u # t
      BY <1>2
    <3>2. PICK v \in txs : u = IF v = t THEN [v EXCEPT !.tracked = FALSE] ELSE v
      BY <1>1, <3>1
    <3>3. v # t
      BY <1>2, <3>2 DEF IsTransfer, Tx
    <3> QED BY <3>2, <3>3
  <2>2. \A u \in txs' : Tracked(u) => u \in txs
    BY <2>1 DEF Tracked
  <2>3. \A i \in Members : Awaited(txs', i) => Awaited(txs, i)
    BY <2>2 DEF Awaited
  <2>4. ASSUME NEW i \in Members
        PROVE  Cardinality(Late(txs', i)) <= Cardinality(Late(txs, i))
    <3>1. Late(txs', i) \in SUBSET Late(txs, i)
      BY <2>1 DEF Late
    <3> QED BY <3>1, LateFinite, FS_Subset DEF TypeOK
  <2> QED BY <2>2, <2>3, <2>4 DEF PayInv, OneTracked
<1>3. CASE IsTransfer(t)
  <2>1. t.tracked /\ t.by = Leader /\ Stage(Leader) = "transfer" /\ ~Pending(Leader, "transfer")
    BY <1>3 DEF Submitted, Sendable, IsTransfer
  <2>2. \A u \in txs : ~Tracked(u)
    BY <2>1 DEF Pending, Tracked, PayInv, PayFacts, IsTransfer
  <2>3. t \notin txs
    BY <1>3, <2>1, <2>2 DEF Tracked
  <2>4. txs' = txs \cup {t}
    BY <1>1, <2>3
  <2>5. OneTracked(txs')
    BY <2>2, <2>4 DEF OneTracked
  <2>6. \A i \in Members : Late(txs', i) = Late(txs, i)
    BY <2>1, <2>4 DEF Late
  <2>7. \A i \in Members : Awaited(txs', i) => Awaited(txs, i) \/ (IsTransfer(t) /\ t.pay[i] # 0)
    BY <1>3, <2>4 DEF Awaited
  <2>8. \A i \in Members : Cardinality(Late(txs, i)) <= Cardinality(Late(txs, i))
    BY FundFacts
  <2> QED BY <2>1, <2>5, <2>6, <2>7, <2>8
<1> QED BY <1>2, <1>3

(* What a step does to transfers and purses.                               *)
FundedStep ==
    /\ OneTracked(txs')
    /\ \A u \in txs' : Tracked(u) => Stage(Leader)' = "transfer"
    /\ \A i \in Members : \E e \in {0, 1} : Grants(i, e)

(* Members that are paid by a new transfer had their amount due. *)
LEMMA SendFunds ==
    ASSUME TypeOK, PayInv, [Next]_vars, NEW m \in Members, Send(m) \/ SendDeployment(m)
    PROVE  FundedStep
<1>1. PICK t \in Tx : Submitted(t)
  BY StepSends
<1>2. UNCHANGED <<n, chain, deposited, todo, stopped>>
  BY StepSends
<1>3. /\ OneTracked(txs')
      /\ \A u \in txs' : Tracked(u) => Stage(Leader) = "transfer"
      /\ \A i \in Members :
            /\ Cardinality(Late(txs', i)) <= Cardinality(Late(txs, i))
            /\ Awaited(txs', i) => Awaited(txs, i) \/ (IsTransfer(t) /\ t.pay[i] # 0)
  BY <1>1, SentTransfers
<1>4. Stage(Leader)' = Stage(Leader)
  BY <1>2, StageKept
<1>5. mishaps' \in Nat /\ mishaps <= mishaps'
  BY <1>1 DEF Submitted, TypeOK
<1>6. ASSUME NEW i \in Members PROVE Grants(i, 0)
  <2>1. CASE Awaited(txs', i) => Awaited(txs, i)
    BY <1>2, <1>3, <1>5, <2>1, QuietGrants
  <2>2. CASE IsTransfer(t) /\ t.pay[i] # 0
    <3>1. Spare > 0 /\ ~Transferred /\ t.pay = Payment
      BY <1>1, <2>2 DEF Submitted, Sendable, IsTransfer
    <3>2. chain.purse[i] < AlphabetGAS \div 2
      BY <2>2, <3>1 DEF Payment, Needy
    <3>3. chain.purse[i] = 0
      <4>1. chain.purse[i] = 0 \/ chain.purse[i] >= AlphabetGAS
        BY <3>1 DEF PayInv
      <4>2. chain.purse[i] \in Nat /\ AlphabetGAS \in Nat
        BY FundFacts
      <4> QED BY <3>2, <4>1, <4>2
    <3>4. Due(i) = 1
      BY <3>1, <3>3 DEF Due
    <3> DEFINE D == Due(i)'
               M == mishaps'
               L == Cardinality(Late(txs', i))
    <3>5. D \in {0, 1}
      BY DEF Due
    <3>6. L <= Cardinality(Late(txs, i)) /\ L \in Nat /\ M \in Nat /\ mishaps <= M
      BY <1>3, <1>5, LateFinite, NextTyped DEF NextTypes
    <3>7. /\ AlphabetGAS \in Nat /\ chain.purse[i] \in Nat /\ mishaps \in Nat
          /\ Cardinality(Late(txs, i)) \in Nat
      BY FundFacts
    <3> HIDE DEF D, M, L
    <3>8. L + D + 0 + mishaps <= Cardinality(Late(txs, i)) + Due(i) + M
      BY <3>4, <3>5, <3>6, <3>7
    <3>9. chain'.purse[i] <= chain.purse[i] + AlphabetGAS * 0
      BY <1>2, <3>7
    <3> QED BY <3>8, <3>9 DEF Grants, D, M, L
  <2> QED BY <1>3, <2>1, <2>2
<1> QED BY <1>3, <1>4, <1>6 DEF FundedStep

(* Member m forgets its transactions: one transfer comes to be late that   *)
(* was waited for, if m leads, and then either the initial transfer is     *)
(* over or this is a mishap.                                               *)
LEMMA RelabelFunds ==
    ASSUME TypeOK, PayInv, [Next]_vars, NEW m \in Members, NEW f, Relabels(f, m),
           txs' = {f[x] : x \in txs}, chain' = chain, n' = n,
           m # Leader => todo'[Leader] = todo[Leader] /\ (Leader \in stopped' <=> Leader \in stopped),
           NEW M, M = mishaps', M \in {mishaps, mishaps + 1},
           m = Leader /\ (\E t \in txs : Tracked(t)) => M = mishaps + 1 \/ Transferred
    PROVE  FundedStep
<1>1. \A t \in txs : IsTransfer(t) => t.by = Leader
  BY DEF PayInv, PayFacts
<1>2. /\ OneTracked(txs')
      /\ m = Leader => \A u \in txs' : ~Tracked(u)
      /\ \A i \in Members :
            /\ Awaited(txs', i) => Awaited(txs, i)
            /\ Cardinality(Late(txs', i)) <= Cardinality(Late(txs, i))
                 + IF m = Leader /\ Awaited(txs, i) THEN 1 ELSE 0
  BY <1>1, Relabelled DEF PayInv
<1>3. \A u \in txs' : Tracked(u) => Stage(Leader)' = "transfer"
  <2>1. CASE m = Leader
    BY <1>2, <2>1
  <2>2. CASE m # Leader
    <3>1. Stage(Leader)' = Stage(Leader)
      BY <2>2, StageKept
    <3>2. ASSUME NEW u \in txs', Tracked(u) PROVE Stage(Leader) = "transfer"
      <4>1. PICK x \in txs : u = f[x]
        BY <3>2
      <4>2. Tracked(x)
        BY <3>2, <4>1 DEF Relabels, Alike, Tracked, IsTransfer
      <4> QED BY <4>2 DEF PayInv
    <3> QED BY <3>1, <3>2
  <2> QED BY <2>1, <2>2
<1>4. mishaps \in Nat /\ M \in Nat /\ mishaps <= M
  BY DEF TypeOK
<1>5. ASSUME NEW i \in Members PROVE Grants(i, 0)
  <2>1. CASE ~(m = Leader /\ Awaited(txs, i))
    <3>1. Cardinality(Late(txs', i)) <= Cardinality(Late(txs, i)) + 0
      BY <1>2, <2>1
    <3>2. Cardinality(Late(txs', i)) <= Cardinality(Late(txs, i))
      BY <3>1, FundFacts
    <3> QED BY <1>2, <1>4, <3>2, QuietGrants
  <2>2. CASE m = Leader /\ Awaited(txs, i)
    <3> DEFINE D == Due(i)'
               L == Cardinality(Late(txs', i))
    <3>1. Due(i) = 1
      BY <2>2 DEF Due
    <3>2. D <= 1 /\ D \in {0, 1}
      BY DEF Due
    <3>3. Transferred => D = 0
      <4> SUFFICES ASSUME Transferred PROVE D = 0
        OBVIOUS
      <4>1. Transferred'
        BY TransferredStays
      <4>2. ~Awaited(txs', i)
        BY <1>2, <2>2 DEF Awaited
      <4> QED BY <4>1, <4>2 DEF Due
    <3>4. L <= Cardinality(Late(txs, i)) + 1 /\ L \in Nat
      BY <1>2, <2>2, LateFinite, NextTyped DEF NextTypes
    <3>5. M = mishaps + 1 \/ Transferred
      BY <2>2 DEF Awaited
    <3>6. /\ AlphabetGAS \in Nat /\ chain.purse[i] \in Nat /\ mishaps \in Nat
          /\ Cardinality(Late(txs, i)) \in Nat
      BY FundFacts
    <3> HIDE DEF D, L
    <3>7. L + D + 0 + mishaps <= Cardinality(Late(txs, i)) + Due(i) + M
      BY <1>4, <3>1, <3>2, <3>3, <3>4, <3>5, <3>6
    <3>8. chain'.purse[i] <= chain.purse[i] + AlphabetGAS * 0
      BY <3>6
    <3> QED BY <3>7, <3>8 DEF Grants, D, L
  <2> QED BY <2>1, <2>2
<1> QED BY <1>2, <1>3, <1>5 DEF FundedStep

(* A stage ends, or the member stops. *)
LEMMA AdvanceFunds ==
    ASSUME TypeOK, PayInv, [Next]_vars, NEW m \in Members, Advance(m)
    PROVE  FundedStep
<1>1. PICK f : Relabels(f, m) /\ Forgotten(m) = {f[x] : x \in txs}
  BY ForgottenRelabels
<1>2. /\ Stage(m) # "none" /\ Returns(m) /\ todo' = [todo EXCEPT ![m] = Tail(@)]
      /\ txs' = Forgotten(m) /\ UNCHANGED <<n, chain, deposited, stopped, mishaps>>
  BY DEF Advance
<1>3. m # Leader => todo'[Leader] = todo[Leader]
  BY <1>2, CommitteeFacts DEF TypeOK
<1>4. m = Leader /\ (\E t \in txs : Tracked(t)) => Transferred
  <2> SUFFICES ASSUME m = Leader, \E t \in txs : Tracked(t) PROVE Transferred
    OBVIOUS
  <2>1. Stage(m) = "transfer"
    BY DEF PayInv
  <2> QED BY <1>2, <2>1 DEF Returns, Reached
<1> DEFINE M == mishaps'
<1>5. M = mishaps' /\ M = mishaps
  BY <1>2
<1> HIDE DEF M
<1>6. txs' = {f[x] : x \in txs} /\ chain' = chain /\ n' = n /\ (Leader \in stopped' <=> Leader \in stopped)
  BY <1>1, <1>2
<1> QED BY <1>1, <1>3, <1>4, <1>5, <1>6, RelabelFunds

LEMMA StopFunds ==
    ASSUME TypeOK, PayInv, [Next]_vars, NEW m \in Members, Stop(m)
    PROVE  FundedStep
<1>1. PICK unsigned : txs' = Abandoned(m, unsigned)
  BY StopTypes
<1>2. PICK f : Relabels(f, m) /\ Abandoned(m, unsigned) = {f[x] : x \in txs}
  BY AbandonedRelabels
<1>3. /\ todo' = [todo EXCEPT ![m] = <<>>] /\ stopped' = stopped \cup {m}
      /\ n' = n /\ chain' = chain /\ mishaps' = mishaps + 1
  BY DEF Stop, Mishap
<1>4. m # Leader => todo'[Leader] = todo[Leader] /\ (Leader \in stopped' <=> Leader \in stopped)
  BY <1>3, CommitteeFacts DEF TypeOK
<1> DEFINE M == mishaps'
<1>5. M = mishaps' /\ M = mishaps + 1
  BY <1>3
<1> HIDE DEF M
<1>6. txs' = {f[x] : x \in txs}
  BY <1>1, <1>2
<1> QED BY <1>2, <1>3, <1>4, <1>5, <1>6, RelabelFunds

(* Steps that add no transaction and move nothing.                         *)
LEMMA DropFunds ==
    ASSUME TypeOK, PayInv, [Next]_vars, txs' \subseteq txs, n' = n,
           mishaps' \in Nat, mishaps <= mishaps', chain'.purse = chain.purse,
           \/ todo'[Leader] = todo[Leader] /\ (Leader \in stopped' <=> Leader \in stopped)
           \/ Leader \in stopped
    PROVE  FundedStep
<1>1. ASSUME NEW i \in Members
      PROVE  /\ Cardinality(Late(txs', i)) <= Cardinality(Late(txs, i))
             /\ Awaited(txs', i) => Awaited(txs, i)
             /\ OneTracked(txs')
  BY LateShrinks DEF TypeOK, PayInv
<1>2. OneTracked(txs')
  BY DEF PayInv, OneTracked
<1>3. \A u \in txs' : Tracked(u) => Stage(Leader)' = "transfer"
  <2>1. CASE todo'[Leader] = todo[Leader] /\ (Leader \in stopped' <=> Leader \in stopped)
    BY <2>1, StageKept DEF PayInv
  <2>2. CASE Leader \in stopped
    <3>1. Stage(Leader) = "none"
      BY <2>2 DEF Stage, Running
    <3> QED BY <3>1 DEF PayInv
  <2> QED BY <2>1, <2>2
<1>4. ASSUME NEW i \in Members PROVE Grants(i, 0)
  <2>1. chain'.purse[i] = chain.purse[i]
    OBVIOUS
  <2> QED BY <1>1, <2>1, QuietGrants
<1> QED BY <1>2, <1>3, <1>4 DEF FundedStep

(* An accepted transfer gives what was late or due. *)
LEMMA AcceptFunds ==
    ASSUME TypeOK, PayInv, [Next]_vars, NEW t \in txs, Accept(t)
    PROVE  FundedStep
<1>1. /\ t \in Tx /\ txs' \subseteq txs \ {t} /\ txs' \subseteq txs
      /\ chain' = chain \/ (Executable(t) /\ Execute(t))
      /\ UNCHANGED <<n, deposited, todo, tolerant, stopped, mishaps>>
  BY AcceptTypes DEF Accept
<1>2. mishaps' \in Nat /\ mishaps <= mishaps'
  BY <1>1 DEF TypeOK
<1>3. CASE chain' = chain
  BY <1>1, <1>2, <1>3, DropFunds
<1>4. CASE Executable(t) /\ Execute(t) /\ ~IsTransfer(t)
  <2>1. CASE t.op \in Works
    BY <1>1, <1>2, <1>4, <2>1, ExecuteWork, DropFunds DEF SameFunds
  <2>2. CASE t.op = "refill"
    BY <1>1, <1>2, <1>4, <2>2, ExecuteRefill, DropFunds
  <2>3. CASE t.op = "distribute"
    BY <1>1, <1>2, <1>4, <2>3, ExecuteDistribute, DropFunds
  <2> QED BY <1>1, <1>4, <2>1, <2>2, <2>3 DEF Tx, Ops, Works, IsTransfer
<1>5. CASE Executable(t) /\ Execute(t) /\ IsTransfer(t)
  <2>1. chain'.purse = [i \in Members |-> chain.purse[i] + t.pay[i]]
    BY <1>1, <1>5, ExecuteTransfer DEF IsTransfer
  <2>2. OneTracked(txs') /\ \A u \in txs' : Tracked(u) => Stage(Leader) = "transfer"
    BY <1>1 DEF PayInv, OneTracked
  <2>3. Stage(Leader)' = Stage(Leader)
    BY <1>1, StageKept
  <2>4. ASSUME NEW i \in Members PROVE \E e \in {0, 1} : Grants(i, e)
    <3>1. t.pay[i] \in 0..AlphabetGAS
      BY <1>5 DEF PayInv, PayFacts
    <3>2. /\ Cardinality(Late(txs', i)) <= Cardinality(Late(txs, i))
          /\ Awaited(txs', i) => Awaited(txs, i)
      BY <1>1, LateShrinks DEF TypeOK, PayInv
    <3>3. /\ AlphabetGAS \in Nat /\ chain.purse[i] \in Nat /\ mishaps \in Nat
          /\ Cardinality(Late(txs, i)) \in Nat
      BY FundFacts
    <3>4. chain'.purse[i] = chain.purse[i] + t.pay[i]
      BY <2>1
    <3>5. CASE t.pay[i] = 0
      <4>1. chain'.purse[i] = chain.purse[i]
        BY <3>3, <3>4, <3>5
      <4> QED BY <1>2, <3>2, <4>1, QuietGrants
    <3>6. CASE t.pay[i] # 0
      <4> DEFINE D == Due(i)'
                 M == mishaps'
                 L == Cardinality(Late(txs', i))
      <4>1. D <= Due(i) /\ D \in {0, 1} /\ Due(i) \in {0, 1}
        BY <3>2, DueStays
      <4>2. L \in Nat /\ M = mishaps
        BY <1>1, LateFinite, NextTyped DEF NextTypes
      <4>3. ~t.tracked => L + 1 <= Cardinality(Late(txs, i))
        BY <1>1, <1>5, <3>6, LateGone DEF TypeOK
      <4>4. t.tracked => D = 0 /\ Due(i) = 1
        <5> SUFFICES ASSUME t.tracked PROVE D = 0 /\ Due(i) = 1
          OBVIOUS
        <5>1. Tracked(t)
          BY <1>5 DEF Tracked
        <5>2. Due(i) = 1
          BY <3>6, <5>1 DEF Due, Awaited
        <5>3. ~Awaited(txs', i)
          BY <1>1, <5>1 DEF Awaited, PayInv, OneTracked
        <5>4. chain'.purse[i] # 0
          BY <3>1, <3>3, <3>4, <3>6
        <5> QED BY <5>2, <5>3, <5>4 DEF Due
      <4>5. L <= Cardinality(Late(txs, i))
        BY <3>2
      <4> HIDE DEF D, M, L
      <4>6. L + D + 1 + mishaps <= Cardinality(Late(txs, i)) + Due(i) + M
        <5>1. CASE t.tracked
          BY <3>3, <4>2, <4>4, <4>5, <5>1
        <5>2. CASE ~t.tracked
          BY <3>3, <4>1, <4>2, <4>3, <5>2
        <5> QED BY <5>1, <5>2
      <4>7. chain'.purse[i] <= chain.purse[i] + AlphabetGAS * 1
        BY <3>1, <3>3, <3>4
      <4>8. Grants(i, 1)
        BY <4>6, <4>7 DEF Grants, D, M, L
      <4> QED BY <4>8
    <3> QED BY <3>5, <3>6
  <2> QED BY <2>2, <2>3, <2>4 DEF FundedStep
<1> QED BY <1>1, <1>3, <1>4, <1>5

(* Every step grants one amount at most. *)
LEMMA FundsMoved ==
    ASSUME TypeOK, PayInv, [Next]_vars
    PROVE  FundedStep
<1>1. n' = n /\ mishaps' \in Nat /\ mishaps \in Nat
  BY NextTyped DEF NextTypes, TypeOK
<1>2. mishaps <= mishaps
  BY <1>1
<1>3. Mishap => mishaps' = mishaps + 1
  BY DEF Mishap
<1>4. Mishap => mishaps <= mishaps'
  BY <1>1, <1>3
<1>5. ASSUME NEW m \in Members, Step(m)
      PROVE  FundedStep
  BY <1>5, SendFunds, AdvanceFunds DEF Step
<1>6. ASSUME NEW m \in Members, Replenish(m) PROVE FundedStep
  BY <1>1, <1>2, <1>6, DropFunds DEF Replenish
<1>7. ASSUME NEW m \in Members, Drain(m) PROVE FundedStep
  BY <1>1, <1>4, <1>7, DropFunds DEF Drain
<1>8. ASSUME NEW m \in Members, Start(m) PROVE FundedStep
  <2>1. \/ todo'[Leader] = todo[Leader] /\ (Leader \in stopped' <=> Leader \in stopped)
        \/ Leader \in stopped
    BY <1>8, CommitteeFacts DEF Start, TypeOK
  <2>2. txs' = txs /\ chain' = chain /\ mishaps' = mishaps
    BY <1>8 DEF Start
  <2> QED BY <1>1, <1>2, <2>1, <2>2, DropFunds
<1>9. ASSUME NEW t \in txs, Lose(t) PROVE FundedStep
  <2>1. mishaps <= mishaps'
    BY <1>2, <1>4, <1>9 DEF Lose
  <2> QED BY <1>1, <1>9, <2>1, DropFunds DEF Lose
<1>10. CASE DesignateNotary
  <2>1. chain'.purse = chain.purse
    BY <1>10 DEF DesignateNotary, TypeOK, Chains
  <2> QED BY <1>1, <1>2, <1>10, <2>1, DropFunds DEF DesignateNotary
<1>11. CASE UNCHANGED vars
  BY <1>1, <1>2, <1>11, DropFunds DEF vars
<1> QED BY <1>5, <1>6, <1>7, <1>8, <1>9, <1>10, <1>11, StopFunds, AcceptFunds DEF Next

(* Members have nothing or a whole amount while there is something left.   *)
LEMMA PursesNext ==
    ASSUME TypeOK, PayInv, [Next]_vars, Spare' > 0, NEW i \in Members
    PROVE  chain'.purse[i] = 0 \/ chain'.purse[i] >= AlphabetGAS
<1>1. n' = n
  BY NextTyped DEF NextTypes
<1>2. /\ AlphabetGAS \in Nat /\ GASThreshold \in Nat /\ chain.gas[Vault] \in Nat
      /\ chain.purse[i] \in Nat /\ Spare \in Int /\ Spare = chain.gas[Vault] - GASThreshold
      /\ Vault \in {"validators", "committee"}
  BY Amounts, FundFacts
<1>3. chain'.gas[Vault] > GASThreshold /\ chain'.gas[Vault] \in Nat
  <2>1. Spare' = chain'.gas[Vault] - GASThreshold
    BY <1>1, SizeStays DEF Spare
  <2>2. chain'.gas[Vault] \in Nat
    BY <1>2, NextTyped DEF NextTypes, Chains
  <2> QED BY <1>2, <2>1, <2>2
<1>4. chain'.gas[Vault] <= chain.gas[Vault]
  BY ChainGrows
<1>5. Spare > 0
  BY <1>2, <1>3, <1>4
<1>6. chain.purse[i] = 0 \/ chain.purse[i] >= AlphabetGAS
  BY <1>5 DEF PayInv
<1>7. CASE chain'.purse = chain.purse
  BY <1>6, <1>7
<1>8. ASSUME NEW t \in txs, t \in Tx, Executable(t), Execute(t), t.op = "transfer"
      PROVE  chain'.purse[i] = 0 \/ chain'.purse[i] >= AlphabetGAS
  <2>1. /\ Vault = "validators" => chain'.gas["validators"] = chain.gas["validators"] - Paid(t)
        /\ Vault = "committee" => chain'.gas["committee"] = chain.gas["committee"] - SumFunction(t.pay)
        /\ chain'.purse[i] = chain.purse[i] + t.pay[i]
    BY <1>8, ExecuteTransfer
  <2>2. SumFunction(t.pay) \in Nat /\ Paid(t) \in Nat /\ SumFunction(t.pay) <= Paid(t)
    <3>1. SumFunction(t.pay) \in Nat /\ Paid(t) = SumFunction(t.pay) + t.rest /\ t.rest \in Nat
      BY <1>8, PaidType DEF TypeOK, Tx
    <3> QED BY <3>1
  <2>3. SumFunction(t.pay) <= chain.gas[Vault] - chain'.gas[Vault]
    BY <1>2, <1>3, <2>1, <2>2
  <2>4. ~(Spare <= SumFunction(t.pay))
    BY <1>2, <1>3, <2>2, <2>3
  <2>5. t.pay[i] \in {0, AlphabetGAS}
    BY <1>8, <2>4 DEF PayInv, PayFacts, IsTransfer
  <2> QED BY <1>2, <1>6, <2>1, <2>5
<1>9. ASSUME NEW t \in txs, t \in Tx, Executable(t), Execute(t), t.op # "transfer"
      PROVE  chain'.purse = chain.purse
  <2>1. CASE t.op \in Works
    BY <1>9, <2>1, ExecuteWork DEF SameFunds
  <2>2. CASE t.op = "refill"
    BY <1>9, <2>2, ExecuteRefill
  <2>3. CASE t.op = "distribute"
    BY <1>9, <2>3, ExecuteDistribute
  <2> QED BY <1>9, <2>1, <2>2, <2>3 DEF Tx, Ops, Works
<1> QED BY <1>7, <1>8, <1>9, Origins DEF SameFunds

(* PayInv and FundInv are inductive, and hold at first. *)
LEMMA PayNext == TypeOK /\ PayInv /\ FundInv /\ [Next]_vars => PayInv' /\ FundInv'
<1> SUFFICES ASSUME TypeOK, PayInv, FundInv, [Next]_vars PROVE PayInv' /\ FundInv'
  OBVIOUS
<1>1. n' = n /\ TypeOK'
  BY NextTyped, TypeNext DEF NextTypes
<1>2. Members' = Members
  BY <1>1, SizeStays
<1>3. FundedStep
  BY FundsMoved
<1>4. FundInv'
  BY <1>1, <1>3, FundStep DEF FundedStep
<1>5. \A t \in txs' : PayFacts(t)'
  BY PayFactsNext
<1>6. Spare' > 0 => \A i \in Members' : chain'.purse[i] = 0 \/ chain'.purse[i] >= AlphabetGAS
  BY <1>2, PursesNext
<1>7. /\ \A t \in txs' : Tracked(t) => Stage(Leader)' = "transfer"
      /\ OneTracked(txs')
  BY <1>3 DEF FundedStep
<1> QED BY <1>4, <1>5, <1>6, <1>7 DEF PayInv

LEMMA PayInit == Init => PayInv /\ FundInv
<1> SUFFICES ASSUME Init PROVE PayInv /\ FundInv
  OBVIOUS
<1>1. TypeOK /\ txs = {} /\ mishaps = 0
  BY TypeInit DEF Init
<1>2. chain \in {Fresh, Bare, Older}
  BY DeploymentAssumption DEF Init
<1>3. AlphabetGAS \in Nat
  BY <1>1, Amounts
<1>4. \A i \in Members : chain.purse[i] \in {0, AlphabetGAS}
  <2>1. DOMAIN Fresh = {"contracts", "recorded", "tld", "notary", "alphabet", "candidates",
                        "gas", "neo", "purse", "share"} /\ Fresh.purse = Nothing
    BY DEF Fresh
  <2>2. Bare.purse = Nothing
    BY <2>1 DEF Bare
  <2>3. Older.purse = [i \in Members |-> AlphabetGAS]
    BY <2>1 DEF Older
  <2> QED BY <1>2, <2>1, <2>2, <2>3 DEF Nothing
<1>5. PayInv
  BY <1>1, <1>3, <1>4 DEF PayInv, OneTracked
<1>6. \A i \in Members : Late(txs, i) = {} /\ ~Awaited(txs, i)
  BY <1>1 DEF Late, Awaited
<1>7. ASSUME NEW i \in Members
      PROVE  chain.purse[i] + AlphabetGAS * (Cardinality(Late(txs, i)) + Due(i))
                <= AlphabetGAS * (1 + mishaps)
  <2>1. Cardinality(Late(txs, i)) = 0
    BY <1>6, FS_EmptySet
  <2>2. AlphabetGAS * (1 + 0) = AlphabetGAS /\ AlphabetGAS * (0 + 0) = 0 /\ AlphabetGAS * (0 + 1) = AlphabetGAS
    BY <1>3
  <2>3. CASE chain.purse[i] = 0
    <3>1. Due(i) \in {0, 1}
      BY DEF Due
    <3> QED BY <1>1, <1>3, <2>1, <2>2, <2>3, <3>1
  <2>4. CASE chain.purse[i] # 0
    <3>1. Due(i) = 0 /\ chain.purse[i] = AlphabetGAS
      BY <1>4, <1>6, <2>4 DEF Due
    <3> QED BY <1>1, <1>3, <2>1, <2>2, <3>1
  <2> QED BY <2>3, <2>4
<1> QED BY <1>5, <1>7 DEF FundInv

(* What is late or due is not negative. *)
LEMMA FundedEnough == TypeOK /\ FundInv => FundedOnce
<1> SUFFICES ASSUME TypeOK, FundInv, NEW i \in Members
             PROVE  chain.purse[i] <= AlphabetGAS * (1 + mishaps)
  BY DEF FundedOnce
<1>1. /\ AlphabetGAS \in Nat /\ chain.purse[i] \in Nat /\ mishaps \in Nat
      /\ Cardinality(Late(txs, i)) \in Nat /\ Due(i) \in {0, 1}
  BY FundFacts
<1> DEFINE x == Cardinality(Late(txs, i)) + Due(i)
           y == 1 + mishaps
           p == AlphabetGAS * x
           q == AlphabetGAS * y
<1>2. x \in Nat /\ y \in Nat
  BY <1>1
<1>3. chain.purse[i] + p <= q
  BY DEF FundInv
<1> HIDE DEF x, y
<1>4. p \in Nat /\ q \in Nat
  BY <1>1, <1>2
<1> HIDE DEF p, q
<1>5. chain.purse[i] <= q
  BY <1>1, <1>3, <1>4
<1> QED BY <1>5 DEF q, y

(* No member is given more than one amount, but for one more each time the *)
(* procedure is interrupted: transfers are repeated by a leader that       *)
(* starts again, while the one before may still be accepted.               *)
THEOREM NobodyIsPaidTwice == Spec => []FundedOnce
<1>1. Init => TypeOK /\ PayInv /\ FundInv
  BY TypeInit, PayInit
<1>2. (TypeOK /\ PayInv /\ FundInv) /\ [Next]_vars => (TypeOK /\ PayInv /\ FundInv)'
  BY TypeNext, PayNext
<1>3. TypeOK /\ FundInv => FundedOnce
  BY FundedEnough
<1> QED BY <1>1, <1>2, <1>3, PTL DEF Spec
=============================================================================
