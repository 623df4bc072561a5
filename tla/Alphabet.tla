------------------------------- MODULE Alphabet -------------------------------
(***************************************************************************)
(* The Alphabet contracts (contracts/alphabet/contract.go): they hold the  *)
(* NEO of the chain, turn the GAS it produces over to the Proxy contract   *)
(* and to the Inner Ring, and vote for the committee.  With them the       *)
(* witnesses all contracts ask for (common/ir.go), and what the native     *)
(* contracts do with the votes.                                            *)
(*                                                                         *)
(* One action is one transaction, a panic is a disabled action.  A key is  *)
(* a number: the committee is sorted by key.  A contract is named by the   *)
(* key of its deployer, a member of the first committee.                   *)
(***************************************************************************)
EXTENDS Integers, Sequences, FiniteSets, SequencesExt, FiniteSetsExt

CONSTANTS Keys,          \* keys of nodes
          Standby,       \* the first committee
          Nobody,        \* no key
          InnerRing,     \* nodes with the role NeoFSAlphabet
          Neo,           \* NEO of each contract
          Produced,      \* bound: GAS a contract's NEO produces between calls
          InitialGas,    \* GAS of each contract
          MaxProxyGas,   \* bound: GAS of the Proxy contract
          MaxEpoch       \* bound: highest epoch

Contracts == Standby

(* The role NeoFSAlphabet is designated before these contracts exist       *)
(* (deploy.go: the stage before Proxy).                                    *)
ASSUME AlphabetAssumption ==
    /\ Keys \subseteq Nat /\ IsFiniteSet(Keys) /\ Nobody \notin Keys
    /\ Standby \subseteq Keys /\ Standby # {}
    /\ InnerRing \subseteq Keys /\ InnerRing # {}
    /\ Neo \in [Contracts -> Nat] /\ InitialGas \in [Contracts -> Nat]
    /\ Produced \subseteq Nat /\ MaxProxyGas \in Nat /\ MaxEpoch \in Nat

VARIABLES
    epoch,       \* external: of the Netmap contract
    committee,   \* external: of the native NEO contract
    registered,  \* external: its candidates
    votes,       \* external: the candidate each contract votes for
    gas,         \* external: GAS of the contracts
    proxyGas     \* external: GAS of the Proxy contract

-----------------------------------------------------------------------------
(* Witnesses. *)

Sorted(keys) == [i \in 1..Cardinality(keys) |->
    CHOOSE k \in keys : Cardinality({l \in keys : l < k}) = i - 1]
AlphabetNodes == Sorted(committee)

(* A multi-signature account is its threshold and its keys: two with one    *)
(* threshold are one.                                                      *)
Multiaddress(keys, isCommittee) ==
    [m |-> IF isCommittee THEN Cardinality(keys) \div 2 + 1
                          ELSE (Cardinality(keys) * 2) \div 3 + 1,
     keys |-> keys]
AlphabetAddress == Multiaddress(committee, FALSE)
CommitteeAddress == Multiaddress(committee, TRUE)

(* Proxy.Verify: who may have the Proxy contract pay for a transaction.    *)
Verify(signer) == signer \in {AlphabetAddress, CommitteeAddress}

-----------------------------------------------------------------------------
(* A contract keeps the place its deployer had in the committee, whoever    *)
(* has that place later.                                                   *)
Index(c) == Cardinality({k \in Standby : k < c})

(* The node that may call Emit of a contract. *)
CheckPermission(c, key) ==
    Index(c) < Len(AlphabetNodes) /\ AlphabetNodes[Index(c) + 1] = key

(* A transfer of NEO to oneself claims the GAS it has produced.  Of a       *)
(* sixteenth 14 go to Proxy, one is divided evenly among the Inner Ring,   *)
(* one stays with the remainders.                                          *)
Emit(c, key, produced) ==
    LET balance == gas[c] + produced
        divided == balance \div 16
        perNode == divided \div Cardinality(InnerRing)
    IN  /\ CheckPermission(c, key)
        /\ divided > 0
        /\ proxyGas + 14 * divided <= MaxProxyGas
        /\ proxyGas' = proxyGas + 14 * divided
        /\ gas' = [gas EXCEPT ![c] = balance - 14 * divided
                                     - perNode * Cardinality(InnerRing)]
        /\ UNCHANGED <<epoch, committee, registered, votes>>

(* Mutant: all contracts vote for the first of the list. *)
VoteOfMutant(c, list) == list[1]
VoteOf(c, list) == list[(Index(c) % Len(list)) + 1]

(* Would Vote panic?  Mutant: a list of an earlier epoch will do.          *)
VotableMutant(signer, e, list) == signer = AlphabetAddress /\ list # <<>>
Votable(signer, e, list) == signer = AlphabetAddress /\ e = epoch /\ list # <<>>

(* A vote for a key that is not a candidate fails, which is only logged.    *)
Vote(c, list) ==
    votes' = IF VoteOf(c, list) \in registered
             THEN [votes EXCEPT ![c] = VoteOf(c, list)] ELSE votes

-----------------------------------------------------------------------------
(* The native NEO contract. *)

VotesFor(k) == MapThenSumSet(LAMBDA c : Neo[c], {c \in Contracts : votes[c] = k})
Turnout == MapThenSumSet(LAMBDA c : Neo[c], {c \in Contracts : votes[c] # Nobody})
Supply == MapThenSumSet(LAMBDA c : Neo[c], Contracts)

(* The candidates with the most votes, and of those with as many the ones   *)
(* with the smaller keys; the first committee while less than a fifth of   *)
(* the NEO votes.                                                          *)
Elected ==
    LET size == Cardinality(Standby)
        first(k, l) == VotesFor(k) > VotesFor(l) \/ (VotesFor(k) = VotesFor(l) /\ k < l)
    IN  IF Turnout * 5 < Supply \/ Cardinality(registered) < size THEN Standby
        ELSE {k \in registered : Cardinality({l \in registered : first(l, k)}) < size}

Election ==
    /\ committee # Elected
    /\ committee' = Elected
    /\ UNCHANGED <<epoch, registered, votes, gas, proxyGas>>

Register(k) ==
    /\ k \notin registered
    /\ registered' = registered \cup {k}
    /\ UNCHANGED <<epoch, committee, votes, gas, proxyGas>>

(* NewEpoch of the Netmap contract. *)
Tick ==
    /\ epoch < MaxEpoch
    /\ epoch' = epoch + 1
    /\ UNCHANGED <<committee, registered, votes, gas, proxyGas>>

(* All members of the first committee are candidates (deploy/alphabet.go). *)
AlphabetInit ==
    /\ epoch = 0
    /\ committee = Standby
    /\ registered = Standby
    /\ votes = [c \in Contracts |-> Nobody]
    /\ gas = InitialGas
    /\ proxyGas = 0

alphabetVars == <<epoch, committee, registered, votes, gas, proxyGas>>
=============================================================================
