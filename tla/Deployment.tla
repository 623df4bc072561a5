----------------------------- MODULE Deployment -----------------------------
(***************************************************************************)
(* How the committee of a new chain, or of one with contracts of an older  *)
(* version, brings it to the state NeoFS needs (deploy/deploy.go, Deploy). *)
(* Every member runs the same stages in the same order.  A stage looks at  *)
(* the chain; it returns when its goal is reached, whoever reached it, and *)
(* otherwise sends a transaction or waits for others to do so.             *)
(*                                                                         *)
(* Most transactions need signatures of the committee.  They are sent as   *)
(* requests to the notary service, which shows them to the other members;  *)
(* their listeners sign each request once.  A member pays for its requests *)
(* by a deposit, the Proxy contract for the transactions of later stages.  *)
(* The notary stage is that of NotaryDesignation; here it is one step.     *)
(*                                                                         *)
(* A turn that does nothing (it waits, or a call fails and is repeated     *)
(* after the next block) is a stuttering step.  Fees are left out.         *)
(***************************************************************************)
EXTENDS Integers, Sequences, FiniteSets, SequencesExt, FiniteSetsExt

CONSTANTS
    Sizes,         \* sizes of the committee; member 0 leads
    Services,      \* bound: the contracts between Proxy and Alphabet, in order
    Alphabets,     \* names of the Alphabet contracts of members 0, 1, ...
    Starts,        \* chains to start with, by size, of "fresh", "bare", "older"
    AlphabetGAS, GASThreshold, \* initialAlphabetGASAmount, validatorLowerGASThreshold
    Funds,         \* GAS and NEO, by size, of a chain without contracts
    MaxMishaps     \* bound, by size: transactions and signatures lost,
                   \* deposits used up, members stopped

(* The stages that are not about one contract. *)
CommonStages == {"transfer", "notary", "alphabet role", "prefill", "refill", "candidates",
                 "update nns", "distribute"}

Missing == "missing"
Old == "old"
New == "new"

ASSUME DeploymentAssumption ==
    /\ Sizes \subseteq Nat \ {0}
    /\ Starts \in [Sizes -> SUBSET {"fresh", "bare", "older"}]
    /\ Services \in Seq({"netmap", "balance", "reputation", "container"})
    /\ Alphabets \in Seq(STRING) /\ IsInjective(Services) /\ IsInjective(Alphabets)
    /\ ToSet(Alphabets) \cap (ToSet(Services) \cup {"nns", "proxy"} \cup CommonStages) = {}
    /\ \A k \in Sizes : k <= Len(Alphabets)
    /\ {AlphabetGAS, GASThreshold} \subseteq Nat
    /\ Funds \in [Sizes -> [gas : Nat, neo : Nat]] /\ MaxMishaps \in [Sizes -> Nat]

VARIABLES
    n,        \* len(committee)
    chain,    \* what the stages read of the chain, see below
    txs,      \* transactions that are sent and neither accepted nor lost
    deposited,\* members with enough GAS at the Notary contract
    todo,     \* the stages a member has ahead, the first one is under way
    tolerant, \* members with nnsRecordWithoutContractIsOK
    stopped,  \* members that do not run the procedure (yet)
    mishaps   \* how many so far

vars == <<n, chain, txs, deposited, todo, tolerant, stopped, mishaps>>

Members == 0..(n - 1)
Leader == 0
Running == Members \ stopped

AlphabetContracts == {Alphabets[i + 1] : i \in Members}
Contracts == {"nns", "proxy"} \cup ToSet(Services) \cup AlphabetContracts
Deployer(c) == IF c \in AlphabetContracts THEN CHOOSE i \in Members : Alphabets[i + 1] = c
               ELSE Leader

(* smartcontract.GetMajorityHonestNodeCount, GetDefaultHonestNodeCount: the *)
(* thresholds of the committee's and of the validators' multi-signature.   *)
Majority == n - (n - 1) \div 2
Honest == n - (n - 1) \div 3

(* The account of the validators is that of the committee when they need   *)
(* as many signatures.                                                     *)
Vault == IF Honest = Majority THEN "committee" ELSE "validators"

(* The chain is a record:                                                  *)
(*   contracts    their versions: Missing, Old or New                      *)
(*   recorded     those with a record in the domain neofs                  *)
(*   tld          is there the domain neofs?                               *)
(*   notary, alphabet   are the roles designated?                          *)
(*   candidates   to validators                                            *)
(*   gas          of "validators", "committee" and "proxy"                 *)
(*   neo          of "validators" and "committee"                          *)
(*   purse, share GAS of the members, NEO of their Alphabet contracts      *)
(*                                                                         *)
(* A transaction: what it does ("op") to which contract ("about"); the GAS *)
(* it moves to members ("pay") and to the next account ("rest"), and the   *)
(* NEO ("neo"); the candidates it registers ("cands"); who has signed it;  *)
(* whether its sender waits for it ("tracked").                            *)
Nothing == [i \in Members |-> 0]
Transaction(m, op, c) ==
    [by |-> m, op |-> op, about |-> c, pay |-> Nothing, rest |-> 0, neo |-> 0,
     cands |-> {}, signed |-> {m}, tracked |-> TRUE]

-----------------------------------------------------------------------------
(* The stages of Deploy.  A contract's name is the stage that brings it to *)
(* the local version, but "nns" waits for its first deployment only.       *)

(* Funds are distributed first if the notary service is there already.     *)
FirstStages == IF chain.notary THEN <<"transfer", "nns">> ELSE <<"nns", "notary", "transfer">>
RoleStage == IF chain.alphabet THEN <<>> ELSE <<"alphabet role">>
ProxyStages == <<"prefill", "proxy", "refill", "candidates", "update nns">>
AlphabetStages == [i \in 1..n |-> Alphabets[i]]
Plan == FirstStages \o RoleStage \o ProxyStages \o Services \o AlphabetStages \o <<"distribute">>

Stages == CommonStages \cup Contracts

Stage(m) == IF m \in Running /\ todo[m] # <<>> THEN Head(todo[m]) ELSE "none"

(* Members that sign requests: the listener lives as long as Deploy does.  *)
Listening == {m \in Running : todo[m] # <<>>}

Pending(m, op) == \E t \in txs : t.by = m /\ t.tracked /\ t.op = op

-----------------------------------------------------------------------------
(* Transactions on the chain.                                              *)

ByValidators(c) == c \in {"balance", "container"}       \* deployWitness is set

(* Contracts whose records the code of _deploy resolves.                   *)
Needs(c) == CASE c = "balance" -> {"netmap"}
              [] c = "container" -> {"netmap", "balance"}
              [] c \in AlphabetContracts -> {"netmap", "proxy"}
              [] OTHER -> {}

PaidByProxy(t) == t.op \in {"update", "register", "distribute"}

(* The witnesses of a transaction are complete, and somebody pays for it.  *)
Enough(t) ==
    /\ PaidByProxy(t) => chain.contracts["proxy"] # Missing /\ chain.gas["proxy"] > 0
    /\ t.op \in {"update", "tld", "designate", "refill", "register", "distribute"}
          => Cardinality(t.signed) >= Majority
    /\ (t.op = "transfer" \/ (t.op \in {"deploy", "update"} /\ ByValidators(t.about)))
          => Cardinality(t.signed) >= Honest
    /\ t.cands \subseteq t.signed

Paid(t) == SumFunction(t.pay) + t.rest

(* What it is for has been done already, and is never undone: its script   *)
(* faults from now on, or changes nothing.                                 *)
Useless(t, c) ==
    CASE t.op = "deploy" -> c.contracts[t.about] # Missing
      [] t.op = "update" -> c.contracts[t.about] = New
      [] t.op = "record" -> t.about \in c.recorded
      [] t.op = "tld" -> c.tld
      [] t.op = "designate" -> c.alphabet
      [] t.op = "register" -> t.cands \subseteq c.candidates
      [] OTHER -> FALSE

(* common.CheckVersion: no update to the version that is there.            *)
Updatable(c) == chain.contracts[c] = Old

(* Does the script end without a fault, and change something?              *)
Executable(t) ==
    /\ ~Useless(t, chain)
    /\ CASE t.op = "deploy" -> Needs(t.about) \cap Contracts \subseteq chain.recorded
         [] t.op = "update" -> Updatable(t.about)
         [] t.op = "record" -> chain.tld
         [] t.op = "transfer" -> Paid(t) <= chain.gas[Vault] /\ t.neo <= chain.neo[Vault]
         [] t.op = "refill" -> t.rest <= chain.gas["committee"]
         [] t.op = "distribute" -> t.neo <= chain.neo["committee"]
         [] OTHER -> TRUE

(* Mutant: one member too many gets what is left of the division. *)
ShareMutant(amount, i) == amount \div n + IF i <= amount % n THEN 1 ELSE 0

(* divideFundsEvenly: the first members get what is left of the division.  *)
Share(amount, i) == amount \div n + IF i < amount % n THEN 1 ELSE 0

Moved(account, from, to, amount) == [account EXCEPT ![from] = @ - amount, ![to] = @ + amount]

Execute(t) ==
    chain' =
      CASE t.op = "deploy" -> [chain EXCEPT !.contracts[t.about] = New,
                                            !.tld = @ \/ t.about = "nns"]
        [] t.op = "update" -> [chain EXCEPT !.contracts[t.about] = New]
        [] t.op = "record" -> [chain EXCEPT !.recorded = @ \cup {t.about}]
        [] t.op = "tld" -> [chain EXCEPT !.tld = TRUE]
        [] t.op = "designate" -> [chain EXCEPT !.alphabet = TRUE]
        [] t.op = "transfer" ->
             [chain EXCEPT !.gas = [Moved(chain.gas, Vault, "committee", t.rest)
                                      EXCEPT ![Vault] = @ - SumFunction(t.pay)],
                           !.neo = Moved(@, Vault, "committee", t.neo),
                           !.purse = [i \in Members |-> @[i] + t.pay[i]]]
        [] t.op = "refill" -> [chain EXCEPT !.gas = Moved(@, "committee", "proxy", t.rest)]
        [] t.op = "register" -> [chain EXCEPT !.candidates = @ \cup t.cands]
        [] t.op = "distribute" ->
             [chain EXCEPT !.neo["committee"] = @ - t.neo,
                           !.share = [i \in Members |-> @[i] + Share(t.neo, i)]]

(* A block accepts a transaction; one that faults changes nothing, and     *)
(* those that are useless after it are forgotten.                          *)
Accept(t) ==
    /\ Enough(t)
    /\ IF Executable(t) THEN Execute(t) ELSE UNCHANGED chain
    /\ txs' = {u \in txs \ {t} : ~Useless(u, chain')}
    /\ UNCHANGED <<n, deposited, todo, tolerant, stopped, mishaps>>

Mishap == mishaps < MaxMishaps[n] /\ mishaps' = mishaps + 1

(* Its lifetime ends before it is accepted, as it has to for a request     *)
(* that lacks signatures.                                                  *)
Lose(t) ==
    /\ IF Enough(t) THEN Mishap ELSE UNCHANGED mishaps
    /\ txs' = txs \ {t}
    /\ UNCHANGED <<n, chain, deposited, todo, tolerant, stopped>>

Expire(t) == ~Enough(t) /\ Lose(t)

-----------------------------------------------------------------------------
(* Sending.  The script is tried first, and not sent if it would fault.    *)

Sent(t) == txs' = {IF u = t THEN [u EXCEPT !.tracked = FALSE] ELSE u : u \in txs} \cup {t}

Simple(t) == Executable(t) /\ Sent(t) /\ UNCHANGED mishaps

(* A notary request.  Every listener signs it that has the GAS for its own *)
(* request; one that fails to will not see the request again.              *)
Request(t) ==
    LET signers == (deposited \cap Listening) \cup {t.by}
    IN  /\ t.by \in deposited
        /\ Executable(t)
        /\ \/ Sent([t EXCEPT !.signed = signers]) /\ UNCHANGED mishaps
           \/ \E missed \in SUBSET (signers \ {t.by}) :
                 /\ missed # {}
                 /\ Sent([t EXCEPT !.signed = signers \ missed]) /\ Mishap

-----------------------------------------------------------------------------
(* makeInitialTransferToCommittee                                          *)

(* Mutant: members are topped up that have less than a whole amount. *)
NeedyMutant == {i \in Members : chain.purse[i] <= AlphabetGAS}

Needy == {i \in Members : chain.purse[i] < AlphabetGAS \div 2}

Spare == chain.gas[Vault] - GASThreshold

(* Members get the amount in order, while there is something left.         *)
Payment == [i \in Members |->
    IF i \in Needy
    THEN LET left == Spare - AlphabetGAS * Cardinality({j \in Needy : j < i})
         IN  Max({0, Min({AlphabetGAS, left})})
    ELSE 0]

Transfer ==
    [Transaction(Leader, "transfer", "nns") EXCEPT
        !.pay = Payment,
        !.rest = IF Vault = "committee" THEN 0 ELSE Spare - SumFunction(Payment),
        !.neo = IF Vault = "committee" THEN 0 ELSE chain.neo[Vault]]

Transferred == Spare <= 0 \/ Paid(Transfer) + Transfer.neo = 0

TransferFunds(m) ==
    /\ Stage(m) = "transfer" /\ ~Transferred
    /\ m = Leader /\ ~Pending(m, "transfer")
    /\ Request(Transfer)

(* initNNSContract: deployed without signatures of others.                 *)
DeployNNS(m) ==
    /\ Stage(m) = "nns" /\ chain.contracts["nns"] = Missing
    /\ m = Leader /\ ~Pending(m, "deploy")
    /\ Simple(Transaction(m, "deploy", "nns"))

(* designateNeoFSAlphabet                                                  *)
DesignateAlphabet(m) ==
    /\ Stage(m) = "alphabet role" /\ ~chain.alphabet
    /\ ~Pending(m, "designate")
    /\ Request(Transaction(m, "designate", "nns"))

(* setNeoFSContractDomainRecord: the domain of the contract is taken and   *)
(* the record added in one transaction, unless the domain above is missing. *)
SetRecord(m, c) ==
    IF chain.tld THEN Simple(Transaction(m, "record", c))
    ELSE Request(Transaction(m, "tld", "nns"))

(* prefillNNS: the leader records the address the Container contract will  *)
(* have.  Its monitors are new in every turn: nothing is waited for.  (A   *)
(* lookup that fails ends Deploy here, which is a Stop.)                   *)
PrefillNNS(m) ==
    /\ Stage(m) = "prefill" /\ "container" \in Contracts \ chain.recorded
    /\ m = Leader
    /\ SetRecord(m, "container")

(* transferGASToProxy: 90% of what the committee has, when Proxy has none. *)
InitialProxyGASPercent == 90
Refill == [Transaction(Leader, "refill", "proxy")
             EXCEPT !.rest = (chain.gas["committee"] * InitialProxyGASPercent) \div 100]

RefillProxy(m) ==
    /\ Stage(m) = "refill" /\ chain.gas["proxy"] = 0
    /\ m = Leader /\ Refill.rest > 0 /\ ~Pending(m, "refill")
    /\ Request(Refill)

(* initVoteForAlphabet: all members that are not candidates are registered *)
(* in one transaction, which each of them has to sign.                     *)
RegisterCandidates(m) ==
    /\ Stage(m) = "candidates" /\ chain.candidates # Members
    /\ ~Pending(m, "register")
    /\ Request([Transaction(m, "register", "nns") EXCEPT !.cands = Members \ chain.candidates])

(* Every member requests an update.  updateNNSContract has its own stage,  *)
(* as Proxy pays for it.  (Equal requests of members, which are in fact    *)
(* one transaction, are not merged.)                                       *)
Update(m, c) ==
    /\ chain.contracts[c] = Old /\ ~Pending(m, "update")
    /\ Request(Transaction(m, "update", c))

UpdateNNS(m) == Stage(m) = "update nns" /\ Update(m, "nns")

UpdateContract(m, c) == Stage(m) = c /\ c # "nns" /\ Update(m, c)

(* syncNeoFSContract looks a contract up by its record, then at the address *)
(* it gets from its deployer, which the others know of Alphabet's only.    *)
Known(m, c) == c \in chain.recorded \/ m = Deployer(c) \/ c \in AlphabetContracts

(* A contract that is missing is deployed by one member.  If it is recorded *)
(* all the same, that is left to others, but for the first deployment of   *)
(* the Container contract, whose record was made in advance.               *)
DeployContract(m, c) ==
    /\ Stage(m) = c /\ c # "nns" /\ chain.contracts[c] = Missing
    /\ m = Deployer(c) /\ ~Pending(m, "deploy")
    /\ c \in chain.recorded => m \in tolerant
    /\ IF ByValidators(c) THEN Request(Transaction(m, "deploy", c))
       ELSE Simple(Transaction(m, "deploy", c))

RecordContract(m, c) ==
    /\ Stage(m) = c /\ c # "nns" /\ chain.contracts[c] = New
    /\ Known(m, c) /\ c \notin chain.recorded
    /\ ~Pending(m, "record") /\ (chain.tld \/ ~Pending(m, "tld"))
    /\ SetRecord(m, c)

(* Mutant: a distribution of nothing is sent as well. *)
DistributeMutant(m) ==
    /\ Stage(m) = "distribute"
    /\ Request([Transaction(m, "distribute", "nns") EXCEPT !.neo = chain.neo["committee"]])

(* distributeNEOToAlphabetContracts: sent again in every turn, pending or  *)
(* not.  Of equal requests of a member two at most are told apart.         *)
Distribute(m) ==
    /\ Stage(m) = "distribute" /\ chain.neo["committee"] > 0
    /\ Request([Transaction(m, "distribute", "nns") EXCEPT !.neo = chain.neo["committee"]])

Send(m) ==
    /\ \/ TransferFunds(m) \/ DeployNNS(m) \/ DesignateAlphabet(m) \/ PrefillNNS(m)
       \/ RefillProxy(m) \/ RegisterCandidates(m) \/ UpdateNNS(m) \/ Distribute(m)
       \/ \E c \in {Stage(m)} \cap Contracts : UpdateContract(m, c) \/ RecordContract(m, c)
    /\ UNCHANGED <<n, chain, deposited, todo, tolerant, stopped>>

(* nnsRecordWithoutContractIsOK ends with the first deployment sent.       *)
SendDeployment(m) ==
    /\ \E c \in {Stage(m)} \cap Contracts : DeployContract(m, c)
    /\ tolerant' = tolerant \ {m}
    /\ UNCHANGED <<n, chain, deposited, todo, stopped>>

-----------------------------------------------------------------------------
(* Progress of a member.                                                   *)

(* What a stage finds on the chain when it returns; Transferred is above.  *)
NNSDeployed == chain.contracts["nns"] # Missing
Prefilled == "container" \in Contracts => "container" \in chain.recorded
ProxyFunded == chain.gas["proxy"] > 0
AllCandidates == chain.candidates = Members
NNSUpdated == chain.contracts["nns"] = New
Synchronized(c) == chain.contracts[c] = New /\ c \in chain.recorded
Distributed == chain.neo["committee"] = 0

(* The two stages about roles look for all members among those designated. *)
Reached(s) ==
    CASE s = "transfer" -> Transferred
      [] s = "nns" -> NNSDeployed
      [] s = "notary" -> chain.notary
      [] s = "alphabet role" -> chain.alphabet
      [] s = "prefill" -> Prefilled
      [] s = "refill" -> ProxyFunded
      [] s = "candidates" -> AllCandidates
      [] s = "update nns" -> NNSUpdated
      [] s = "distribute" -> Distributed
      [] OTHER -> Synchronized(s)

(* Mutant: a contract of the local version is enough, without a record. *)
ReturnsMutant(m) ==
    \/ Reached(Stage(m)) \/ (Stage(m) \in ToSet(Services) /\ chain.contracts[Stage(m)] = New)
    \/ (Stage(m) = "refill" /\ m = Leader /\ Refill.rest = 0)

(* The leader does not wait for GAS it does not have.                      *)
Returns(m) ==
    \/ Reached(Stage(m))
    \/ (Stage(m) = "refill" /\ m = Leader /\ Refill.rest = 0)

(* The monitors of a stage end with it, or with the program.               *)
Forgotten(m) == {IF t.by = m THEN [t EXCEPT !.tracked = FALSE] ELSE t : t \in txs}

Advance(m) ==
    /\ Stage(m) # "none" /\ Returns(m)
    /\ todo' = [todo EXCEPT ![m] = Tail(@)]
    /\ tolerant' = IF m = Leader /\ Len(todo[m]) > 1 /\ todo[m][2] = "container"
                   THEN tolerant \cup {m} ELSE tolerant \ {m}
    /\ txs' = Forgotten(m)
    /\ UNCHANGED <<n, chain, deposited, stopped, mishaps>>

(* enableNotary: the leader designates the role when it has signatures of  *)
(* enough members from 1 to n - 2, the last one being left out.  The whole *)
(* of NotaryDesignation is one step, without the designation that is lost. *)
DesignateNotary ==
    /\ ~chain.notary /\ Stage(Leader) = "notary"
    /\ Cardinality({m \in 1..(n - 2) : Stage(m) = "notary"}) >= Majority - 1
    /\ chain' = [chain EXCEPT !.notary = TRUE]
    /\ UNCHANGED <<n, txs, deposited, todo, tolerant, stopped, mishaps>>

(* Mutant: deposits are replenished only after the initial transfer. *)
ReplenishMutant(m) ==
    /\ m \in Listening \ deposited /\ "transfer" \notin ToSet(todo[m])
    /\ deposited' = deposited \cup {m}
    /\ UNCHANGED <<n, chain, txs, todo, tolerant, stopped, mishaps>>

(* autoReplenishNotaryBalance, which runs beside the stages: a transfer    *)
(* that is lost is sent again.                                             *)
Replenish(m) ==
    /\ m \in Listening \ deposited
    /\ deposited' = deposited \cup {m}
    /\ UNCHANGED <<n, chain, txs, todo, tolerant, stopped, mishaps>>

(* Fallback transactions use the deposit up.                               *)
Drain(m) ==
    /\ m \in deposited /\ Mishap
    /\ deposited' = deposited \ {m}
    /\ UNCHANGED <<n, chain, txs, todo, tolerant, stopped>>

(* The application stops, maybe before it has signed what it could sign;   *)
(* started again it has only the chain to go by.                           *)
Stop(m) ==
    /\ m \in Running /\ Mishap
    /\ stopped' = stopped \cup {m}
    /\ todo' = [todo EXCEPT ![m] = <<>>]
    /\ tolerant' = tolerant \ {m}
    /\ \E unsigned \in SUBSET {t \in txs : t.by # m /\ m \in t.signed} :
          txs' = {[t EXCEPT !.tracked = @ /\ t.by # m,
                            !.signed = @ \ IF t \in unsigned THEN {m} ELSE {}] : t \in txs}
    /\ UNCHANGED <<n, chain, deposited>>

Start(m) ==
    /\ m \in stopped
    /\ stopped' = stopped \ {m}
    /\ todo' = [todo EXCEPT ![m] = Plan]
    /\ UNCHANGED <<n, chain, txs, deposited, tolerant, mishaps>>

-----------------------------------------------------------------------------
(* All funds are in the vault.                                             *)
Fresh == [contracts |-> [c \in Contracts |-> Missing], recorded |-> {}, tld |-> FALSE,
          notary |-> FALSE, alphabet |-> FALSE, candidates |-> {},
          gas |-> [a \in {"validators", "committee", "proxy"} |-> IF a = Vault THEN Funds[n].gas ELSE 0],
          neo |-> [a \in {"validators", "committee"} |-> IF a = Vault THEN Funds[n].neo ELSE 0],
          purse |-> Nothing, share |-> Nothing]

(* An NNS contract without the domain neofs, the roles designated by hand. *)
Bare == [Fresh EXCEPT !.contracts["nns"] = Old, !.notary = TRUE, !.alphabet = TRUE]

(* The previous version of all contracts, its funds distributed.           *)
Older == [Fresh EXCEPT !.contracts = [c \in Contracts |-> Old], !.recorded = Contracts \ {"nns"},
                       !.tld = TRUE, !.notary = TRUE, !.alphabet = TRUE, !.candidates = Members,
                       !.gas = [@ EXCEPT ![Vault] = 0, !["proxy"] = 1],
                       !.neo = [@ EXCEPT ![Vault] = 0],
                       !.purse = [i \in Members |-> AlphabetGAS],
                       !.share = [i \in Members |-> Share(Funds[n].neo, i)]]

(* Members start the procedure at different times, without deposits.       *)
Init ==
    /\ n \in Sizes
    /\ \E s \in Starts[n] :
          chain = CASE s = "fresh" -> Fresh [] s = "bare" -> Bare [] s = "older" -> Older
    /\ txs = {} /\ deposited = {} /\ tolerant = {} /\ mishaps = 0
    /\ todo = [m \in Members |-> <<>>]
    /\ stopped = Members

Step(m) == Send(m) \/ SendDeployment(m) \/ Advance(m)

Next ==
    \/ \E m \in Members : Step(m) \/ Replenish(m) \/ Drain(m) \/ Stop(m) \/ Start(m)
    \/ \E t \in txs : Accept(t) \/ Lose(t)
    \/ DesignateNotary

AnyMember == 0..(Max(Sizes) - 1)

(* Every member takes its turns after new blocks; members that stopped are *)
(* started again, deposits replenished, and transactions are accepted or   *)
(* expire at some time.                                                    *)
Fairness ==
    /\ \A m \in AnyMember : WF_vars(m \in Members /\ Step(m))
    /\ WF_vars(\E m \in Members : Replenish(m))
    /\ WF_vars(\E m \in Members : Start(m))
    /\ WF_vars(\E t \in txs : Accept(t) \/ Expire(t))
    /\ WF_vars(DesignateNotary)

Spec == Init /\ [][Next]_vars /\ Fairness

-----------------------------------------------------------------------------
(* A member that has left a stage behind finds its goal reached on the     *)
(* chain ever after, whatever is accepted late, twice, or not at all, and  *)
(* whoever did the work: that is what lets Deploy skip or repeat stages.   *)
(* (The leader may leave "refill" with empty hands.)                       *)
BuildStages == Contracts \cup {"prefill", "candidates", "update nns"}
Ahead(m) == IF m \in stopped THEN Stages ELSE ToSet(todo[m])
GoalsBehind ==
    \A m \in Members : \A s \in BuildStages \cup {"transfer", "distribute"} :
        s \notin Ahead(m) => Reached(s)

Finished == \A m \in Members : m \notin stopped /\ todo[m] = <<>>

(* A member is never given more than one amount, unless the leader stopped *)
(* while its transfer was under way and repeated it.                       *)
FundedOnce == \A i \in Members : chain.purse[i] <= AlphabetGAS * (1 + mishaps)

(* No NEO is lost on the way to Alphabet contracts, and they get equal     *)
(* shares up to one, although every member sends the distribution, again   *)
(* and again, whatever the requests before it came to.                     *)
EvenShares ==
    /\ chain.neo["validators"] + chain.neo["committee"] + SumFunction(chain.share) = Funds[n].neo
    /\ \A i, j \in Members : chain.share[i] <= chain.share[j] + 1

(* Once the goals of all stages are reached, nothing is sent any more, by  *)
(* members that are late or that run Deploy again, and what is accepted    *)
(* late moves GAS at most.                                                 *)
Settled ==
    [][(\A s \in Stages : Reached(s)) =>
          /\ txs # {} \/ txs' = {}
          /\ Cardinality(txs') <= Cardinality(txs)
          /\ [chain' EXCEPT !.gas = chain.gas, !.purse = chain.purse] = chain]_vars

(* The Container contract is recorded and missing, and its deployment was  *)
(* sent and is over: nobody deploys it any more.                           *)
Stranded ==
    /\ "container" \in chain.recorded /\ chain.contracts["container"] = Missing
    /\ Stage(Leader) = "container" /\ Leader \notin tolerant
    /\ ~\E t \in txs : t.op = "deploy" /\ t.about = "container"

(* A committee of two never has the signature that enableNotary waits for. *)
NotaryOutOfReach == n = 2 /\ ~chain.notary

(* Whatever is lost and whoever stops, all members finish the procedure,   *)
(* unless they wait for a Container contract whose deployment was lost, or *)
(* they are two on a chain without the Notary role.                        *)
DeployedOrStranded == ~NotaryOutOfReach => <>(Finished \/ Stranded)

(* deploy/contracts.go:70-74: a contract that is missing on the chain is    *)
(* deployed, and that it is recorded all the same is a normal situation.   *)
Deployed == <>Finished
=============================================================================
