-------------------------------- MODULE NeoFS --------------------------------
(***************************************************************************)
(* The NeoFS contract of the main chain (contracts/neofs/contract.go):     *)
(* deposits and withdrawals of GAS, and the decisions of the Alphabet.     *)
(* Without a notary service every Alphabet node calls the contract for     *)
(* itself, and the call that completes the votes for an ID is executed;    *)
(* with one, a call carries the Alphabet's multi-signature.                *)
(*                                                                         *)
(* One action is one transaction, a panic is a disabled action.  Accounts  *)
(* of Alphabet nodes are their keys.  The contract identifies a decision   *)
(* by its ID alone.                                                        *)
(***************************************************************************)
EXTENDS Ballots, FiniteSets

CONSTANTS Nodes,          \* keys that are or may become Alphabet nodes
          Users,          \* accounts of the main chain
          Contract,       \* the account of this contract
          Processing,     \* the account of the Processing contract
          Nobody,         \* the nil key
          Alphabet,       \* multi-signature account of the committee
          Ids,            \* IDs of decisions
          ConfigKeys, ConfigValues,
          WithdrawFee,    \* the key of the withdrawal fee
          Deployments,    \* what the contract may be deployed with, see DeployArgs
          Signers,        \* bound: sets of witnesses of a transaction
          Lists,          \* bound: arguments of AlphabetUpdate
          Amounts,        \* bound: amounts of GAS
          MaxBalanceAmount,
          MaxHeight,      \* bound: highest block
          MaxDecisions,   \* bound, by ID: executions of a decision
          MaxDeposits     \* bound: GAS ever deposited

Accounts == Nodes \cup Users \cup {Contract, Processing}

(* The arguments of _deploy, whose list is not empty, and the GAS of users. *)
DeployArgs == [alphabet : Seq(Nodes) \ {<<>>}, notaryDisabled : BOOLEAN,
               config : [ConfigKeys -> Nat], gas : [Users -> Nat]]

(* Fees are numbers; nobody has the nil key or the account of a contract.  *)
ASSUME NeoFSAssumption ==
    /\ Nobody \notin Nodes
    /\ Contract # Processing
    /\ {Contract, Processing} \cap (Nodes \cup Users) = {}
    /\ BlockDiff \in Nat /\ MaxHeight \in Nat /\ MaxDecisions \in [Ids -> Nat] /\ MaxDeposits \in Nat
    /\ Deployments \subseteq DeployArgs
    /\ Lists \subseteq Seq(Nodes)
    /\ WithdrawFee \in ConfigKeys /\ ConfigValues \subseteq Nat
    /\ Amounts \subseteq Nat /\ MaxBalanceAmount \in Nat

VARIABLES
    alphabet,        \* 'alphabet'
    notaryDisabled,  \* 'notary'
    config,          \* 'config'
    ballots,         \* 'ballots'
    gas,             \* external: balances of the native GAS contract
    height,          \* external: the current block
    past,            \* history variable: the votes for each ID, see Voted
    notified,        \* history variable: GAS of Deposit and Cheque events
    changed          \* history variable: the Alphabet list was updated

stored == <<alphabet, notaryDisabled, config, ballots>>
vars == <<stored, gas, height, past, notified, changed>>

Voters == Nodes \cup {Nobody}
Ballot == [id : Ids, voters : Seq(Voters), height : Nat]
Past == [voted : SUBSET Voters,   \* ever, by a counted vote
         recent : SUBSET Voters,  \* since the last decision or lapse
         last : Nat,              \* height of the last counted vote
         again : BOOLEAN,         \* some node's vote counted twice
         decided : Nat,           \* executions
         by : SUBSET Voters,      \* who decided the last one
         of : Nat]                \* length of the Alphabet then

Init ==
    /\ \E d \in Deployments :
          /\ alphabet = d.alphabet
          /\ notaryDisabled = d.notaryDisabled
          /\ config = d.config
          /\ gas = [a \in Accounts |-> IF a \in Users THEN d.gas[a] ELSE 0]
    /\ ballots = {}
    /\ height = 0
    /\ past = [id \in Ids |-> [voted |-> {}, recent |-> {}, last |-> 0,
                               again |-> FALSE, decided |-> 0, by |-> {}, of |-> 0]]
    /\ notified = [deposits |-> 0, ignored |-> 0, cheques |-> 0]
    /\ changed = FALSE

-----------------------------------------------------------------------------
(* Decisions. *)

ThresholdMutant == Len(alphabet) \div 3 + 1
Threshold == (Len(alphabet) * 2) \div 3 + 1

(* common.InnerRingInvoker: the first node of the list that signed. *)
InnerRingInvoker(signers) ==
    LET signed == {i \in DOMAIN alphabet : alphabet[i] \in signers}
    IN  IF signed = {} THEN Nobody
        ELSE alphabet[CHOOSE i \in signed : \A j \in signed : i <= j]

(* The check that Cheque and AlphabetUpdate make of their invoker. *)
ByAlphabet(signers) ==
    IF notaryDisabled THEN InnerRingInvoker(signers) # Nobody
                      ELSE Alphabet \in signers

Reached(id, node) ==
    notaryDisabled => Count(ballots, id, node, height) >= Threshold

(* The history of votes, written without the ballots.  A vote of a node     *)
(* that voted since the last decision and lapse is a repetition.           *)
Counted(id) ==
    IF height - past[id].last > BlockDiff THEN {} ELSE past[id].recent
Noted(id, node) ==
    IF node \in Counted(id) THEN past[id]
    ELSE [past[id] EXCEPT !.voted = @ \cup {node},
                          !.recent = Counted(id) \cup {node},
                          !.last = height,
                          !.again = @ \/ node \in past[id].voted]
Decided(p) ==
    [p EXCEPT !.decided = @ + 1, !.recent = {}, !.by = p.recent, !.of = Len(alphabet)]

(* A call of a method with the given ID: the vote, and what it leaves when  *)
(* it is the last one needed.                                              *)
Collect(id, node) ==
    IF notaryDisabled
    THEN LET after == Vote(ballots, id, node, height)
         IN  /\ past[id].decided < MaxDecisions[id]
             /\ IF Reached(id, node)
                THEN /\ ballots' = RemoveVotes(after, id)
                     /\ past' = [past EXCEPT ![id] = Decided(Noted(id, node))]
                ELSE /\ ballots' = after
                     /\ past' = [past EXCEPT ![id] = Noted(id, node)]
    ELSE UNCHANGED <<ballots, past>>

Moved(g, from, to, amount) ==
    LET debited == [g EXCEPT ![from] = @ - amount]
    IN  [debited EXCEPT ![to] = @ + amount]

(* Mutant: a cheque that cannot be paid is announced all the same. *)
ChequeMutant(signers, id, user, amount) ==
    LET node == InnerRingInvoker(signers)
    IN  /\ ByAlphabet(signers)
        /\ Collect(id, node)
        /\ IF Reached(id, node)
           THEN /\ gas' = IF gas[Contract] >= amount
                          THEN Moved(gas, Contract, user, amount) ELSE gas
                /\ notified' = [notified EXCEPT !.cheques = @ + amount]
           ELSE UNCHANGED <<gas, notified>>
        /\ UNCHANGED <<alphabet, notaryDisabled, config, height, changed>>
Cheque(signers, id, user, amount) ==
    LET node == InnerRingInvoker(signers)
    IN  /\ ByAlphabet(signers)
        /\ Collect(id, node)
        /\ IF Reached(id, node)
           THEN /\ gas[Contract] >= amount
                /\ gas' = Moved(gas, Contract, user, amount)
                /\ notified' = [notified EXCEPT !.cheques = @ + amount]
           ELSE UNCHANGED <<gas, notified>>
        /\ UNCHANGED <<alphabet, notaryDisabled, config, height, changed>>

AlphabetUpdate(signers, id, list) ==
    LET node == InnerRingInvoker(signers)
    IN  /\ Len(list) > 0
        /\ ByAlphabet(signers)
        /\ Collect(id, node)
        /\ IF Reached(id, node)
           THEN alphabet' = list /\ changed' = TRUE
           ELSE UNCHANGED <<alphabet, changed>>
        /\ UNCHANGED <<notaryDisabled, config, gas, height, notified>>

(* The invoker is computed but not checked: the check looks at the key of   *)
(* the setting.  Whoever is not an Alphabet node votes as nobody.          *)
SetConfig(signers, id, key, val) ==
    LET node == InnerRingInvoker(signers)
    IN  /\ ~notaryDisabled => Alphabet \in signers
        /\ Collect(id, node)
        /\ config' = IF Reached(id, node) THEN [config EXCEPT ![key] = val]
                                          ELSE config
        /\ UNCHANGED <<alphabet, notaryDisabled, gas, height, notified, changed>>

-----------------------------------------------------------------------------
(* GAS. *)

(* A transfer to the contract, which OnNEP17Payment accepts.  "ignored" is  *)
(* the data that makes it accept without a notification.                   *)
Deposit(signers, from, amount, ignored) ==
    /\ from \in signers
    /\ gas[from] >= amount
    /\ notified.deposits + notified.ignored + amount <= MaxDeposits
    /\ ~ignored => amount > 0 /\ amount <= MaxBalanceAmount
    /\ gas' = Moved(gas, from, Contract, amount)
    /\ notified' = IF ignored THEN [notified EXCEPT !.ignored = @ + amount]
                              ELSE [notified EXCEPT !.deposits = @ + amount]
    /\ UNCHANGED <<stored, height, past, changed>>

Fee == config[WithdrawFee]

(* Who is paid the fee of a withdrawal, one transfer each. *)
Payees == IF notaryDisabled THEN alphabet ELSE <<Processing>>
FeesTo(a) == Fee * Cardinality({i \in DOMAIN Payees : Payees[i] = a})

(* One transfer that fails is a panic, so the user can pay them all.        *)
Withdraw(signers, user, amount) ==
    /\ user \in signers
    /\ amount <= MaxBalanceAmount
    /\ gas[user] >= Fee * Len(Payees)
    /\ gas' = [a \in DOMAIN gas |->
                 gas[a] + FeesTo(a) - IF a = user THEN Fee * Len(Payees) ELSE 0]
    /\ UNCHANGED <<stored, height, past, notified, changed>>

Block ==
    /\ height < MaxHeight
    /\ height' = height + 1
    /\ UNCHANGED <<stored, gas, past, notified, changed>>

Next ==
    \/ \E signers \in Signers, id \in Ids :
          \/ \E user \in Users, amount \in Amounts : Cheque(signers, id, user, amount)
          \/ \E list \in Lists : AlphabetUpdate(signers, id, list)
          \/ \E key \in ConfigKeys, val \in ConfigValues :
                SetConfig(signers, id, key, val)
    \/ \E signers \in Signers, user \in Users, amount \in Amounts :
          \/ Withdraw(signers, user, amount)
          \/ \E ignored \in BOOLEAN : Deposit(signers, user, amount, ignored)
    \/ Block

Spec == Init /\ [][Next]_vars

-----------------------------------------------------------------------------
(* Properties. *)

TypeOK ==
    /\ alphabet \in Seq(Nodes) \ {<<>>}
    /\ notaryDisabled \in BOOLEAN
    /\ config \in [ConfigKeys -> Nat]
    /\ ballots \subseteq Ballot
    /\ gas \in [Accounts -> Nat]
    /\ height \in Nat
    /\ past \in [Ids -> Past]
    /\ notified \in [deposits : Nat, ignored : Nat, cheques : Nat]
    /\ changed \in BOOLEAN

(* No two ballots are about one decision, and none lists a voter twice, so  *)
(* that the length of a ballot is a number of nodes.                       *)
BallotsDistinct ==
    /\ \A b, c \in ballots : b.id = c.id => b = c
    /\ \A b \in ballots : Len(b.voters) = Cardinality(Range(b.voters))

(* What is executed was voted for by more than two thirds of the Alphabet,  *)
(* by different nodes, since its last execution, and never with a pause of *)
(* more than BlockDiff blocks: whatever was repeated, lapsed or removed in *)
(* between.                                                                *)
DecidedByQuorum ==
    \A id \in Ids : past[id].decided > 0 =>
        3 * Cardinality(past[id].by) > 2 * past[id].of

(* A decision is executed once, although votes keep coming after it was     *)
(* executed and may be repeated: while no node's vote is counted twice and *)
(* the Alphabet stays, the late votes never suffice for another execution. *)
DecidedOnce ==
    \A id \in Ids : ~changed /\ ~past[id].again /\ Nobody \notin past[id].voted
                        => past[id].decided <= 1

(* A vote or an execution touches no ballot of another decision, as long as *)
(* that ballot has not lapsed.                                             *)
OthersBallotsKept ==
    [][\A b \in ballots :
          height - b.height <= BlockDiff
              => b \in ballots' \/ past'[b.id] # past[b.id]]_vars

(* The events that the Inner Ring acts on account for the GAS that the      *)
(* contract holds, but for what it took without a notification.            *)
EventsMatchFunds ==
    gas[Contract] = notified.deposits + notified.ignored - notified.cheques

(* Withdrawals have paid the Alphabet nodes alike, one fee for each time    *)
(* that a node is listed (users move GAS of their own).                    *)
Listed(a) == Cardinality({i \in DOMAIN alphabet : alphabet[i] = a})
NodesPaidAlike ==
    ~changed => \A a, b \in Range(alphabet) \ Users :
        Listed(a) = Listed(b) => gas[a] = gas[b]

(* Both, whatever step of a withdrawal, a cheque or a deposit fails.        *)
FundsAccounted == EventsMatchFunds /\ NodesPaidAlike
=============================================================================
