# Verification of the NeoFS contracts

This directory holds TLA+ models of the NeoFS smart contracts
(`src/contracts`), the TLC configurations that check them on small instances,
and proofs that TLAPS checks for instances of every size.  `PROJECT.json` lists
the runs, the mutants that show that each property can fail, the lines each
definition stands for, the hazards and the findings.

## 1. The system

NeoFS is a storage network.  Its FS chain is a Neo blockchain on which the
contracts of this repository run; the committee of the chain is the
*Alphabet* of the *Inner Ring*.  Users own containers, storage nodes hold
objects in containers and report their load, and the Alphabet approves nearly
every operation with its multi-signature.  The NeoFS and Processing contracts
run on the main chain and exchange its GAS for balances of the FS chain.

| Part | State | Operations |
| --- | --- | --- |
| **Netmap** `contracts/netmap` | epoch, candidates, versioned network maps, index of versions by epoch, changed flag, history length, cleanup threshold, blocks of ticks, subscribers, configuration | addNode, updateState, deleteNode, newEpoch, updateSnapshotCount, setCleanupThreshold, setConfig, subscribeForNewEpoch, unsubscribeFromNewEpoch, readers |
| **Balance** `contracts/balance` | accounts with lock time and parent, supply, paid and unpaid marks of containers | transfer, transferX, lock, newEpoch, mint, burn, settleContainerPayment, readers |
| **Container** `contracts/container` | containers with owner, revision, attributes; owner index, removal marks, extended ACLs, aliases, quotas, node lists of this and the next epoch, replica numbers, reports, summaries, space taken by users, billing statistics | createV2, remove, transfer, putEACL, setAttribute, removeAttribute, quotas, addNextEpochNodes, commitContainerListUpdate, putReport, verifyPlacementSignatures, readers |
| **NeoFS** `contracts/neofs`, `common/vote.go` | Alphabet list, configuration, ballots of undecided votes, GAS of the contract | onNEP17Payment (deposit), withdraw, cheque, alphabetUpdate, setConfig |
| **NNS** `contracts/nns` | domains with owner, administrator, expiry; records; balances; roots; price | register, registerTLD, renew, transfer, setAdmin, setPrice, updateSOA, addRecord, setRecord, deleteRecords, addNeoRecord, deleteNeoRecord, readers |
| **Reputation** `contracts/reputation` | trust values per epoch and peer, counters | put, readers |
| **Alphabet** `contracts/alphabet` | index, GAS and NEO of one Alphabet node's contract | emit, vote |
| **Proxy**, **Processing** | none but GAS | verify |
| **Deployment** `deploy` | local to each committee member: transactions in preparation, transactions awaited; shared: NNS records, notary requests | Deploy and its stages |
| `rpc`, `internal/proto`, `cmd/dump`, `scripts` | none | generated bindings, decoding, tools |

How they interact:

* `Netmap.newEpoch` calls `newEpoch` of each subscriber (Balance, Container and
  others) in the same transaction.  A panic anywhere rolls back all of it.
* `Netmap.addNode` asks Container for the number of containers and, while there
  is none, ticks the epoch itself.
* `Container.createV2` reads fees from Netmap's configuration, moves tokens with
  `Balance.transferX`, registers a domain and adds a record in NNS; `remove`
  deletes the records of the domain.
* `Container.putReport` reads the epoch, its duration and the time of the last
  tick from Netmap.
* `Balance.settleContainerPayment` reads owner, statistics and reports from
  Container, and rate, epoch and node states *of the epoch before* from Netmap.
* The Inner Ring nodes (another repository) turn notifications of one contract
  into calls of another: a deposit into a mint, a withdrawal into a lock, a
  cheque, a burn.  They retry, race one another, and may be late.

Hard behaviours.  The virtual machine runs transactions one at a time and rolls
a panicking one back, so there is no interleaving inside a transaction, except
that a loop over the storage sees the writes of its own rounds.  What is hard
is the order *between* transactions: epoch ticks in the middle of anything,
jumps of the epoch number, approvals that come twice or late, nodes that leave
and return, statistics that are shifted at one time and read at another,
three clocks (blocks, milliseconds, epochs) with different comparisons, partial
payments, and containers that change hands while nodes report.

Correctness of each part, in words:

* Netmap: between ticks the map does not move, a tick makes it the candidates;
  history is truthful as far back as it is kept; the epoch before the current
  one is always answered.
* Balance: tokens are neither made nor lost but by mint and burn; a lock comes
  back to its parent at its time; a container is paid once an epoch, and marks
  of payment never contradict each other.
* Container: the owner index, the aliases, the summaries and the space taken
  are what they are derived from; removal is final; a lock holds; a node is
  billed its average load.
* NeoFS: what is executed was voted for by enough of the Alphabet, once.
* NNS: a domain is a lease: it changes hands by transfer or after it expired,
  its term only grows, and its records are its owner's; the indexes of tokens
  follow the owners; records can be found as long as they are there.
* Reputation and Alphabet: values that were put are found again under their
  epoch and peer; the list of nodes decided upon last becomes the committee, and
  no vote by an older list counts.
* Deployment: if enough members run, every stage ends, for all of them; funds
  are given out once and in equal shares.
* Together: whoever served a container in an epoch is paid for that epoch,
  whatever changes before the settlement.

## 2. The modules

| Module | Models | Theorems in |
| --- | --- | --- |
| `EpochMap` | what Netmap promises to its users: an abstract network map | |
| `Netmap` | the Netmap contract | `NetmapProofs` |
| `Billing` | the billing statistics that Container writes and Balance reads | |
| `Balance` | the Balance contract | `BalanceProofs` |
| `Container` | the Container contract | `ContainerProofs` |
| `Ballots` | the collection of votes of `common/vote.go` | |
| `NeoFS` | the NeoFS contract, with `Ballots` | `NeoFSProofs` |
| `Leases` | what NNS promises: things held for a term | |
| `NNS` | the name service contract | `NNSProofs` |
| `Chain` | Netmap, Balance and Container on one chain, and their calls of one another | `BalanceProofs` |
| `NotaryDesignation` | how the committee gets its Notary role (`deploy/notary.go`) | `CommitteeProofs` |
| `Deployment` | all stages of `Deploy` (`deploy/*.go`), the notary stage as one step | `DeploymentProofs` |
| `Alphabet` | the Alphabet contracts, the accounts of the committee (`common/ir.go`), Proxy | |
| `Reputation` | the Reputation contract, with the bytes of its keys | `CommitteeProofs` |
| `Governance` | `Alphabet` and `Reputation` together: calls on their way while epochs, lists and committees change | `CommitteeProofs` |
| `MCNetmap`, `MCBalance`, `MCContainer`, `MCChain`, `MCNeoFS`, `MCNNS`, `MCNotary`, `MCDeployment`, `MCGovernance` | instances for TLC | |
| `Sums` | nothing of the code: lemmas on sums and folds over finite sets, induction over numbers and finite sets, and recursive functions | `Sums` |

Conventions.  One action is one transaction.  A panic, a call that returns
false and a call that changes nothing are disabled actions: the virtual machine
undoes them.  `signers` is the set of witnesses of a transaction; `Alphabet`
in it stands for the multi-signature that `common.CheckAlphabetWitness` asks
for.  A storage prefix is a set or a partial function, `Put` and `Without` are
`storage.LocalPut` and `storage.LocalDelete`.  Notifications, logs and the
forms of arguments (lengths of hashes and keys) are left out.  Variables whose
comment says *history variable* are not in the code: they remember what a
property needs.

### Netmap

Each exported method that writes is an action with its name.  `Tick` is
`NewEpoch` from the check of the number on, with `updateNetmap`,
`incNetmapVersion` and `dropNetmaps`; `AddNode` contains it too.  A block stands
for its height and its time, which grow together; `GetEpochBlockByTime` is the
binary search as it is written, as a recursive function.  A version without
nodes has no key in the storage; the model keeps an empty map, which every
reader answers alike.  `IsStorageNodeStatus` and `ListNodesEpoch` are the
operators that Balance depends on.

### Balance

`Moved` is `Token.transfer`: debit, then credit, each reading the account at its
time.  `Released` is the loop of `NewEpoch`: the keys are those found at the
start, in storage order (`AccountOrder`), and each round reads the account after
the earlier ones.  `Settlement` folds `Charge` over the statistics of a container
and stops where the code breaks.  What is read from other contracts (owner,
rate, statistics, whether a node reported and was online) is an input that the
action takes from small sets.  The epoch moves only with the tick.

### Container

A container ID is a hash of what the container was created with, so `Content`
is a constant function of IDs.  Locks are seconds, the clock is in units of
which `SECOND` make a second (milliseconds in the code).  Attributes that may
change are a set of present keys, but for the lock, whose value matters.
Removing a lock and setting one are actions of their own because their guards
differ; all others share `SetAttribute` and `RemoveAttribute`.  Balance is the
function `funds`, Netmap the variables `epoch` and `lastTick`; `Block` and
`NewEpoch` are their external steps.

NNS is there as far as containers depend on it: `domains` has the owner and the
term of each domain, `records` what its TXT records name.  A domain whose term is over
has `Lapsed`; its records stay.  `TakeName` is the part of `CreateV2` about the
domain, with `checkNiceNameAvailable` (`NameAvailable`) and the calls of `register`
and `addRecord`; `LeaveName` is `deleteNNSRecords` with its `recover`: a
lapsed domain is no reason to fail, one that somebody else owns is.  What others do is
`RegisterDomain`, `GiveDomain` and `WriteRecords`: anybody registers a domain that
lapsed, its owner gives it away (to the contract even) or changes its records.  A domain is of the second
level, and the zone above it is taken to be kept by the committee.

`disturbed`, `promised`, `reborn` and `skewed` are history variables, each for one
property: domains that ran out with records in them or that others wrote to,
the latest lock of a container since it was created, containers created again while
somebody else owned them, and whether a container with reports changed hands.
`AsInteger` is what `convert.ToInteger` makes of the serialized summary: a
number whose digits are tags, lengths and fields (`HEADER`, `BASE`).
`area` is a history variable: the integral of the reported load over time, in
this and in the last epoch.

### NeoFS

`Ballots` is `common/vote.go` as operators on a set of ballots (a slice in the
code, whose order matters only in `RemoveVotes`); voters are a sequence, since
its length is the count.  `Collect` is the part that `Cheque`, `AlphabetUpdate`
and `SetConfig` share: vote, and remove the ballot when the threshold is
reached.  `SetConfig` has its own guard, as in the code: with no notary service
it lets anybody through, who then votes as `Nobody`.  `Deployments` are the
arguments of `_deploy` that an instance allows (Alphabet list, with or without
a notary service, settings), with the GAS of the users.  `past` is a history variable: who voted for an
ID since its last execution or lapse, written from the calls alone and never
read by the actions.

### NNS

A name is the sequence of its labels, and `Path[n]` the name with all domains
above it, whether they are registered or not.  `names` holds a `NameState` for
every name that was ever registered; nothing deletes one, an expired domain is
just not `Live`.  `ParentsLive` is `parentExpired`, `Usable` is
`getNameState`, and `TokenOf` is `tokenIDFromName`: the deepest live domain on
the path, under which records of the name are kept *at that time*.  Records are
a set; `SameKey` tells which share a storage key, so `StoreRecord` overwrites as
`storeRecord` does.  The type `"A"` stands for A, TXT and AAAA.  Of a SOA only
the serial is kept, which is the time.  `TextEndsWith` is the search for the
suffix in `getParentConflictingRecord`, which compares texts and not labels:
`LabelEnds` names the labels that end with others.  `MoveToken` is the pair of
`updateBalance` calls of `Register` and `Transfer`; the callback of the receiver
comes after all writes.  `Tick` is the time of the next block.

### Chain

`Chain` extends `Balance`; `NM` and `CT` are instances of `Netmap` and `Container` that
share its `epoch`, `now` and the time of the last tick.  An action is a transaction: the action of
the contract that is called and the actions of those it calls.  `TickSeen` is
the loop of `cleanup` over subscribers.  `SettlePayment` passes to
Balance what the other two answer in this state: the owner, the statistics in
storage order (`BillingStats`), whether a report is there (`HasReport`), whether the
node was online in the epoch that is paid (`WasOnline`).  Nothing of what
`balance` takes from small sets is chosen here.

`ChainInit` is a chain in the middle of its life: nodes that were registered one after the
other with a tick each, and a container of which all are members.  For two nodes TLC found
this state to be reachable from the initial states of the three contracts by
their own actions; starting there leaves the bounds to what follows.
Fees and transfers between users are not part of the composition; ticks go up by one.
History variables: `owed`, the integral of each node's load in the epoch that
ended last, as the tick found it; `gone`, the nodes that left the container since; `moves`,
which counts for the bound.

### NotaryDesignation

The members are the indices of the code, in the sorted committee, and 0 is the
leader.  A turn is one round of the loop of `enableNotary`: `Return` if the role
is there, `FailedTurn` if it cannot be looked up, else the tick function of a
committee of one (`SoloTurn`), of the leader (`LeaderTurn`) or of a signer
(`SignerTurn`).  `woken` are the members that have seen a block since their
last turn (`waitForNextBlock`).  What a turn reads of the chain does not change
while it runs.  `leader` are the variables the leader's closure keeps; those of
the signers are derived from what they read, but for their monitors.

`pending` is the flag of each `transactionGroupMonitor`.  The goroutine that
waits for a transaction is two steps: the transaction leaves the pool
(`Settle`), and later the flag is reset (`Notice`), by when the member may have
started to track another one.  `Accept`, `Lose`, `Block`, `Age` and `Restart`
are the world: a transaction enters a block or never does, blocks come, shared
data expires, an application is started again with fresh variables.  A
restarted member no longer waits for what it has sent; the chain still has it.

`Data` is what the leader shares; a signature is the data of the transaction it
signs, so that it is valid when that is the data at hand, which abstracts the
checksum.  `Collected` has the indices of the loop as they are in the code.
`Finalized` chooses the order in which the map gives the signatures when there
is more than one.  In `NewData` the random number is one that is not in use.

A behaviour has one setting, which never changes: the size of the committee, the members
that do not run the procedure (`absent`), and those whose transaction comes out
otherwise from the same data (`faulty`), for instance as their node runs another
version.  What a faulty member signs is not valid for the leader, which makes new
data when there are too many of those (`TooManyInvalid`).

### Deployment

`todo[m]` is the list of stages that member `m` has ahead (`Plan`, from what it finds
on the chain when it starts); the stage under way is the first.  One action is
one turn of a stage's loop that sends something (`TransferFunds`,
`DeployNNS`, `DesignateAlphabet`, `PrefillNNS`, `RefillProxy`,
`RegisterCandidates`, `UpdateNNS`, `UpdateContract`, `DeployContract`,
`RecordContract`, `Distribute`) or that returns (`Advance`, when `Reached` or,
for the leader without GAS, in `Returns`).  A turn that waits is a stuttering step.
`chain` is what stages read of the chain, whoever brought it about; `txs` are
transactions on their way, with the signatures they have.  `Pending` is what
monitors know: they belong to a stage and are `Forgotten` with it.  `tolerant`
is `nnsRecordWithoutContractIsOK`, which is set for the Container contract and
dropped when its deployment is sent.

`Request` is the way of a notary request: `listenCommitteeNotaryRequests` of
every member that runs and has a deposit adds a signature, once.
`Accept`, `Lose`, `Expire`, `Drain`, `Stop` and `Start` are the world: blocks, lost
transactions, deposits used up by fallbacks, applications that stop and start
over with nothing but the chain.  `Executable` says when native contracts and
NNS do not fault, `Useless` when a transaction can never change anything again;
such transactions are forgotten, which only shortens behaviours, since they fault or
change nothing.  `DesignateNotary` stands for the whole of `NotaryDesignation`: the
leader is in that stage, and so are as many of the members 1 to n - 2 as it needs
signatures of.  It leaves out the designation that is not accepted in its lifetime,
after which `NotaryDesignation` never gets the role (below).

### Alphabet, Reputation, Governance

A key is a number, so that the committee is sorted.  `Multiaddress` is the
account of a threshold and a set of keys, which is all `common/ir.go` needs.
`Emit` keeps the arithmetic of the division; the native NEO contract is
`Election`, `Register` and `Elected` (candidates by votes, then by key).

Keys of Reputation are sequences of digits: `ToBytes` is `convert.ToBytes` to the
base `Base`, sign bit included (`Digits` is a recursive function, so that it can be
proved about), and `Find` the search by prefix in the order
of bytes.  With base 4 numbers of two bytes occur after a few values.  A key has no
separators: `storageID` is the bytes of the epoch, as many as it takes, and the key of
the peer.  The code relies on two things that `ReputationAssumption` names, and
checks neither.  Keys of peers are equally long; they are public keys of 33 bytes.
And no peer's key begins with the last bytes of an epoch followed by the beginning of a
peer's key.  A public key is a 2 or 3 and a coordinate of 32 bytes, so that this would be a point
whose coordinate is given: by an epoch and the key of another node.  Nobody finds one.

In `Governance` a call carries the account that signed it and the arguments
it was made with, and is accepted later, in another epoch or under another
committee, lost, or never.  Proxy pays while it has GAS.  What the Inner Ring nodes do
(`Decide`, `SendVote`, `SendPut`) is not in this repository: a list may be
decided upon at any time, and nodes send votes until it is the committee.

## 3. What the runs check

In NNS and `NotaryDesignation` there is always a step.  In the runs of the other
contracts epochs, blocks, revisions or supply reach their bounds, and the
deployment procedure ends: there the configurations say `CHECK_DEADLOCK FALSE`.

Fairness is assumed in `NotaryDesignation`, `Deployment` and `Governance` only: the
contracts are passive, nothing in the code obliges anybody to call them.

In `NotaryDesignation` blocks keep coming, and each member that runs takes its turn,
since its loop does nothing but wait for the next block; the goroutines that wait for a
transaction run.  Of the transactions on their way some is accepted, and so is some
designation, unless there is none that could be; no single transaction is promised to be.  All
of it is weak fairness.  Losses, faults, restarts and the aging of shared data
are not fair, and `MaxMishaps` and `MaxTime` bound them: liveness speaks of what
happens after the last of them.  A designation may expire before it is accepted, and
`NotaryEnabled` says what becomes of the leader then (`Stuck`).

In `Deployment` each member takes its turns (each stage's loop waits for nothing but
blocks).  Deposits are replenished (the routine beside the stages repeats
it), applications that stopped are started again, and transactions are accepted or
expire, one or another at a time.  All of it is weak fairness.  Mishaps
are not fair and are bounded.  In `Governance` votes go to all contracts in every
round of the nodes, so that a contract whose vote can be sent again and again gets
one: strong fairness, because Proxy's GAS, which others use too, comes and goes.
The rest is weak: blocks take up calls, nodes register, contracts emit, the native
contract elects.

| Run | Instance | Shows |
| --- | --- | --- |
| `netmap` | 2 nodes, 1 attribute, 2 subscribers, history length 1, then 0 or 1, cleanup threshold 1, then 0, epochs to 3 with jumps of 2, blocks to 2 | the flag is accurate (`FlagAccurate`), every retained epoch is answered with its map (`HistoryFaithful`), retained versions are an unbroken run (`RetentionRun`), a tick keeps the epoch before (`TickKeepsPrevious`), the search by time is right while no epoch was skipped (`BlockByTimeWithoutJumps`), a tick calls the contracts as was last asked for each, although numbers are used again (`CallsAsAsked`), the contract implements `EpochMap`.  Other settings change only while nobody is subscribed (`SettingsApart`) |
| `balance` | 2 users, 2 lock addresses, one before and one after its parents in key order, 3 tokens, 3 epochs | supply is backed and no account owes (`SupplyBacked`), expired locks come back (`TickPaysParents`), payments are made once (`PaidOncePerAttempt`, `MarksOrdered`) |
| `container` | 3 containers of 2 users, two want one domain, locks at 2 times, 2 Alphabet nodes to pay, time to 4 (2 a second), a domain that lapses after a second and is registered by the committee or by a user, with other records then; extended ACLs, quotas and attributes come one at a time and before any domain is taken (`ExtrasApart`), as nothing else reads them | owners are indexed (`OwnersIndexed`), a domain names one container (`AliasesNameOne`), locks hold (`LockHolds`), nobody pays what he has not (`TypeOK`), with containers that are created again |
| `container_load` | 2 interchangeable nodes (symmetry), 3 epochs of any length to 3 time units, 2 reports an epoch, 2 sizes, lists with and without REP numbers | summaries and space taken are sums of reports (`LoadAddsUp`); removal is final for them too; settlement bills the average load of the epoch before |
| `chain` | 2 nodes, of which one changes its state, its membership and its reports, 2 sizes, epochs 2 to 4 of two time units or any other length, 3 tokens | a settled container has paid who served it, the right amount, and nobody else (`ServedArePaid`) |
| `neofs` | 4 Alphabet nodes without GAS; 2 nodes and a user with GAS, with and without notary service; 2 decisions, of which one may be executed twice, ballots lapse after 1 block of 2, the list may be replaced by one of 2 nodes | ballots are distinct, executions have a quorum and happen once, other ballots stay; GAS held and events agree, and fees reach all nodes alike (`FundsAccounted`) |
| `nns` | 2 interchangeable accounts (symmetry) and the committee, the names `com`, `a.com`, `y.a.com`, `x.y.a.com`, of which the first three may be registered for no time or one unit, 2 records, time and renewals to 2 units | indexes follow owners, live domains have a SOA, no record is shadowed and numbers have no gaps (`RecordsInPlace`), dead branches are frozen, serials tell changes, the contract implements `Leases` |
| `notary` | committees of 1; 2; 3 with member 1 or member 2 absent; 4 with member 3 absent and 1 and 2 faulty; data that expires up to twice, one mishap (a lost transaction, a failing call or a restart) at any time, neither in the committee of 4; one transaction of a member in flight besides designations | everybody returns with the role, unless a designation came to nothing, and nobody gets it where too few run whose signatures are read (`NotaryEnabled`); the leader has one designation on the way (`OneDesignation`) |
| `deployment` | committees of 1, 2 and 3, a fresh chain, one with a bare NNS contract (not for 3) and one with all contracts of the previous version; two mishaps in committees of 1 and 2, one in that of 3 | what a member has left behind stays reached (`GoalsBehind`), initial funds are given once (`FundedOnce`), NEO evenly and to the last one (`EvenShares`), late members and second runs change nothing (`Settled`), everybody finishes but for one trap, and but for a committee of two without the Notary role (`DeployedOrStranded`) |
| `deploy_container` | a committee of 1, a fresh chain, one mishap | the trap: a violation of `Deployed` (below) |
| `container_transfer` | 2 containers, 2 nodes, a container that changes hands after a report | a violation of `TakenSpaceAlwaysSum` (below) |
| `governance` | 4 keys, a committee of 3, NEO of 2, 1 and 1, 3 lists to decide upon, 2 epochs, one call lost, work of 4 (a value is 1, a decision 2) | the list decided upon last makes the committee (`TargetElected`), no vote by an outdated list (`VotesCurrent`), values are found (`ReputationKept`) |

The bounds are the smallest at which the interesting cases occur together.  Two
nodes are needed for one to be stale while the other is not; three epochs for a
version that is neither the first nor the last; jumps of two for an epoch that
never came.  Two lock addresses make a lock whose parent is a lock, in both
visiting orders.  Four voting nodes are the least of which one may vote late
(three of three are needed, three of four).  Three epochs of billing are the current one, the paid one and
the one before, which is all `BilledSize` distinguishes.
A committee of three is the least in which the leader looks for the signature that it
needs: of member 1, but never of member 2, so that it makes a difference which one is
absent.  One of four has two signatures to read, which both have to be valid.  Two
expirations let data expire before and after it is signed; eight nonces are
more than a behaviour uses.
A term of one second, of four half seconds in all, lets a domain lapse before, with and after
the lock of a container, be taken again, and lapse a second time.
Three levels of domains and a name below them are the least at which a domain
may be registered between a name and the domain that keeps its records; a
duration of none and one of one unit make domains that expire before, with and
after those above them.
A committee of two is the least whose members wait for each other (it gets through where
the chain has the Notary role), one of three
the least that gets the role by its own, and whose account is not that of the validators; funds are such that
the committee of two gets less than it needs and the NEO does not divide evenly.
In `governance` one list replaces one member and one names a single candidate,
so that a contract's place is beyond the list; the epochs 1 and 5 are digits of
which one begins with the other.  In `chain` two moves are a node that leaves and one
that changes its state, before or after the tick, before or after the settlement.
Each property has a
mutant of the code, listed in `PROJECT.json`, that violates it under the same
bounds.

### Disagreements between the code and its documentation

Two are runs that TLC ends with a counterexample.

* `container_transfer`: `Transfer` reads the serialized summary as an integer,
  so the space taken is moved by a wrong amount.
* `deploy_container`: the record of the Container contract is made before the
  contract.  That a record without a contract is in order is forgotten when the
  deployment is sent (`contracts.go:423`).  If that transaction is not accepted
  in its lifetime, the leader takes the contract for one that others will fix
  (`contracts.go:338`), and everybody waits for ever.  The parameter's doc
  (`contracts.go:70-74`) says that a missing contract is deployed.

Others have no run of their own.

* `SetConfig` of NeoFS tests the length of `key`, not of the Alphabet key it has just
  looked up (`neofs/contract.go:334`): without a notary service a call by anybody is
  counted as a vote of the nil key, although its comment says that only Alphabet
  nodes can invoke it.
* The leader of `enableNotary` looks for signatures of the members 0 to n - 2
  (`notary.go:390`), while signers have the indices 1 to n - 1.  A committee of two
  waits for ever for the one signature it needs, and one of three when member 1 is
  away: the second half of `NotaryEnabled` says so, and `DeployedOrStranded` excepts
  a committee of two on a chain without the role.
* The average load is negative when a node reports after the planned end of an
  epoch, as `BilledSize` of `Billing` shows with an epoch longer than `Duration`;
  settlement then panics and the container is neither paid nor marked unpaid.
* `GetRecords` of NNS checks the parents of the name it is given, where writers and
  `Resolve` check those of the domain that keeps its records.  For a name two
  levels below its domain, which `AddRecord` accepts, it panics.
* `triedDesignateRoleTx` is set when a designation is sent and never reset.  If
  that transaction is not accepted before it expires, the leader remakes and
  shares data for ever and sends no designation: `Stuck`, which `NotaryEnabled` excepts.
* Before it sends another designation the leader asks the monitor of the
  registration (`registerDomainTxMonitor`) whether the last one is pending, while
  the text it then logs, and the monitor that tracks it, are about the
  designation.  While a designation is on the way it thus shares new data,
  which does no harm only because of the flag above.
* Signatures are put into the transaction in the order of a Go map, while a
  multi-signature needs that of the keys; with two remote signatures or more
  the transaction may be refused, and is then remade (`Finalized`).
* `GetEpochBlockByTime` promises the block of the latest epoch that came by a
  time, 0 only if the time precedes any known epoch.  Its binary search goes
  right at a missing epoch; after a tick that skips numbers it answers 0 although
  a known epoch precedes the time.  `BlockByTimeWithoutJumps` therefore speaks of
  unbroken numbers only.
* `CreateV2` does not ask whether the container exists.  Creating it again gives it
  back to its creator, with the lock, the attributes and the revision of a new one, for the fee of a new one; after
  a transfer it is then in the index of two owners, and `BalanceOf` counts it
  for the wrong one even when it is removed.  `OwnersIndexed` excepts such containers (`reborn`), and the
  promise of `LockHolds` begins anew.  If it has a domain, it cannot be created again
  while its record is there: the name is taken, or the record exists already.
* A domain whose term is over is available, with its old TXT record still in it.  The
  next container to ask for it registers it again and adds its own record beside the old
  one.  Both containers have it as their alias, and whichever is removed first deletes
  the records of both.  `AliasesNameOne` excepts domains that ran out with records in them
  (`disturbed`).
* A container whose domain ran out and was registered by somebody else can be removed
  only if that one signs as well, or when his term is over too: `deleteNNSRecords` lets an
  expired or missing domain pass, but not "not witnessed by admin".  (The changelog
  lists "Outdated NNS record preventing container deletion" as fixed in general,
  `CHANGELOG.md:236`.)
* `RemoveAttribute` promises that a lock is removed only later than its time,
  while its guard lets it go at that very time, when `checkLock` still holds it.
* `VerifyPlacementSignatures` counts signatures, not the nodes that made them;
  it returns true when no REP numbers are stored, and for a REP of 0 it wants a
  signature that is not valid.
* A container that is removed before its settlement is not paid for its last
  epoch any more, since its owner is not found; if it was unpaid, `IterateUnpaid`
  lists it for ever.
* A node that leaves a container after a tick loses its report, and with it the
  payment for the epoch it served; `ServedArePaid` excepts it (`gone`).
* The leader leaves the stage that fills Proxy when the committee has nothing to
  transfer (`funds.go:314`), while the others wait until Proxy has GAS, which
  then has to come from outside the procedure.
* `syncNeoFSContract` waits for the next block only if a transaction of its own is
  pending (`contracts.go:323-330`); a member that waits for others goes round
  without a pause.
* `ListByEpoch` of Reputation finds the IDs of all epochs whose bytes begin
  with those of the epoch asked for: those of 257 for 1, all for 0.  `Get` gives
  values in the order of the bytes of their numbers, which is theirs only up to
  255.
* `Emit` divides by the number of Inner Ring nodes (`alphabet/contract.go:184`)
  and panics while no role is designated.
* A Neo record is stored without a value.  The readers that deserialize what they
  find panic on it (`Iterable`): while the domain has one, no domain below it
  can be registered and its other records cannot be resolved.

## 4. What is proved

The proofs hold for every value of the constants that satisfies the named
assumptions (`NetmapAssumption`, `BalanceAssumption`, `ContainerAssumption`,
`NeoFSAssumption`, `NNSAssumption`, `UnregisteredAssumption`,
`LeaseAssumption`, `NotaryAssumption`, `DeploymentAssumption`,
`AlphabetAssumption`, `ReputationAssumption`, `GovernanceAssumption`, `ChainAssumption`).
They say what the code or its environment says: that `AccountOrder` lists the accounts,
which are thus finitely many, and in `Chain` each of them once, that the Alphabet is finite, that the contracts of
Alphabet nodes have names of their own (Glagolitic letters) and are enough for
the committee, and that amounts are numbers.

An invariant is proved the same way everywhere: it holds at first, each action keeps
it, and it is more than the property.  What follows names the
invariants, and what makes them necessary.

**Sums.**  The library's induction theorems take an operator as a parameter,
which no installed prover can instantiate.  `NatInductive` and `SetInductive` say
the same of *sets*: a set of numbers that has 0 and all successors, and a set of
finite subsets that has the empty one and is closed under adding an element,
are everything (a least counterexample has a predecessor).  From them follow that the
folds of the community modules are what their recursive definitions say (`FoldExists`,
`SumDef`), and what happens to a sum when one term or one member changes
(`SumUpdate`, `SumPut`, `SumRemove`, `SumDisjoint`, `SumSplit`).

**Netmap.**  `Inv` is `TypeOK`, `RetentionRun`, `FlagAccurate` and `IndexInv`
together.  No part is inductive alone: a tick that emits no version is right only
because the flag is down only while candidates and map agree; the flag speaks
of the current version, which must still be stored; and an old epoch is answered
by the greatest index key not above it, of which `IndexInv` says that it exists
and names that epoch's map.  From `InvHolds` follow `TypeCorrect`,
`FlagIsAccurate`, `RetentionIsRun`, `HistoryIsFaithful`, `PreviousEpochIsKept`
and the refinement `NetmapImplementsEpochMap`.  `TicksCallAsAsked` rests on
a lemma that a contract is in one entry at most.  For `BlockByTimeIsRight`, `ItemsInv` says that ticks lie in
the order of their epochs, and `SearchDef` that the recursive function of
the binary search exists: an answer that is defined without recursion
satisfies its equation, and nothing else does.

**Balance.**  `MarkInv` strengthens `MarksOrdered` and `PaidOncePerAttempt` with
the bound that ties payments received in the epoch to failures and the paid
mark.  From it follow `MarksAreOrdered` and `NoDoublePayment`.  `LedgerInv` is
about the accounts: none owes, and what they hold and what was lost with
overwritten locks is the supply.  A self-transfer, an account that a debit has
just deleted, and each round of the loops of `NewEpoch` and
`SettleContainerPayment` keep it (`SupplyIsBacked`).  `TicksPayParents` follows the
release loop key by key: `PaidTo` is what the keys visited so far have paid to a parent.

**Chain** (in `BalanceProofs`).  A step of `Chain` is a step of Netmap, Container and
Balance, or leaves them alone (`NetmapSteps`, `ContainerSteps`, `TokensStep`), so
the invariants of the three hold on the chain as well; `NMP` and `CTP` are the instances that
name their theorems.  `ChainInv` adds what joins them.  `MapInv`: Netmap answers for the
last epoch with the map it had (even with a history of one version).  `OwedInv`:
a node that did not leave since the tick has a report, and the load that its statistics will
be billed for is the one it was owed when the epoch ended; a node that left and
reported again counts from zero.  `StatsRuns` and `BillingRows` say what the loop over
statistics makes (one row for each node that has any), `SettlementPays` what a
settlement that succeeds has paid to each row, by induction over the rows, and
`PaymentStep` joins them.  From this and `StatsFit` (below) follow
`ServedArePaidClosely`, where a node is paid for its average load up to less than one unit
for each report, and `ServedArePaidExactly` for loads that divide evenly, as they
do in the run `chain`.

**Container.**  `Removal` strengthens `RemovedForGood`: reports and statistics
only exist where a container exists.  `Domains` adds to `AliasesNameOne` that a
container's alias is the domain it was created with, so that a creation that takes a
domain can only be of a container without one or with this very one; what others do in
NNS (`Outside`), and a term that ends, disagree with it only for domains that become
`disturbed`.  `Promises` relates each lock to the latest lock since the container
was created: either it is still set, or its time has passed.  `OwnersIndexed` is
inductive with the types.  None of them assumes anything about who creates what again.
`LoadInv` is `SummaryIsSum` and `TakenSpaceIsSum` with their types.  The space
taken by a user is a sum of sums of what is not negative, and a summary's container
exists; therefore the branch of `AddSpace` that stops at zero is never taken
and the code's bookkeeping by differences stays exact (`LoadIsSummed`).
`TypeInv` adds the accounts and the statistics (`TypeCorrect`).  `StatsFit`
says what a statistic means by the epoch of its last report: in the current epoch
it is ahead of the integral of the load by what the latest load will add until
the planned end, and shifted when one epoch or more have passed.
From it follow `BillingIsExact`, for loads that divide evenly, and
`BillingIsClose`, for all: every report rounds once, by less than a unit.

**NeoFS.**  `Ledger` says that the ballots are what the history of votes makes
them: a ballot lists exactly who voted since the last execution or lapse, and
where there is none, nobody did, or too long ago.  `VoteFacts` describes what
`Vote` does to a set of ballots, `VoteNoted` compares it with the history, and
`CollectLedger` is the one step that matters.  `BallotsAreDistinct`,
`QuorumDecides` and `OtherBallotsStay` follow.  `DecisionsAreSingle` needs more:
`Once` says that whoever votes after an execution took no part in it, and
`QuorumsMeet` that two sets of more than two thirds of a list share a node.
`FundsAreAccounted` is inductive with the types; a withdrawal pays each node of
the list the same fee, which is a sum over the members of a sequence.

**NNS.**  The first part of `NNSProofs` is about the registry.  `Registry` types it and says that
every domain but a TLD has an owner; with it `IndexesAgree` is inductive, since
a registration of an expired domain and a transfer move the token from whom the
domain state names.  `LeasesImplemented` maps each action to a step of `Leases`
or none.  The second part is about records.  `RecordTypes` and `LiveHasSoa`
are inductive together.  The argument needs two facts about names: `TokenFacts`
says that `TokenOf` is a domain of the path, live unless it is the name itself,
and `SaveDomainEffect` that the SOA of a domain registered just now lands under its
own token unless its lease is over already.  From this follow `TypeCorrect`,
`SoaOfTheLive`, `SerialIsTold` and `BranchesFrozen`.  `RecordsStayInPlace` needs
`LiveSeesAll`: no live domain lies between a record's name and its token, *whether
or not* the token is live, since a TLD that is registered again brings a whole
branch back to life.  `AllInOrder` is the numbering; a record that is removed
takes those of the same name and type with it.

**NotaryDesignation** (in `CommitteeProofs`).  `TypeCorrect` follows the turns: `SentTypes` is what a turn
may send and `IsLeader` what the leader may keep, and each operator of the
leader has a lemma about both.  `DesignatedOnce` needs `Remembered`: a designation
on the way that was not made before a restart is one that the leader knows it
has tried.  Every step but three is `Steady`, that is, it sends no designation
and does not touch that flag; `SendDesignation` raises it, `Restart` forgets it,
which `mishaps` counts, and `SoloTurn` always sends the same transaction.

**Governance** (in `CommitteeProofs`).  `VotesAreCurrent` follows from `Dated`: a call of `Vote` bears an
epoch that is not later than the current one, and if it is the current one, its
list was in force in this epoch; a new epoch is later than every call on its
way.

**Reputation** (in `CommitteeProofs`).  `ReputationIsKept` rests on three facts about keys.
`BytesInjective`: numbers have bytes of their own; a recursive function is what its
definition says only if one exists, which `RecursionExists` (in `Sums`) shows.
`PrefixFree`: an ID begins with another, or with another and a number, only if epoch and
peer are the same; where the bytes of the epochs differ in length, the longer has a tail
that the assumption excludes.  And `Before` is a strict total order (`BeforeIrreflexive`,
`BeforeTransitive`, `BeforeTotal`), so that by `Ranked` the ranks in a finite set are the numbers from
0, and `Find` gives each key once, at the place of its rank (`FindIs`).  `AllKept` is
then inductive: what is found under an ID is numbered from 1 to its counter, which
is how many values were put for its peer and epoch, and number `i` is the `i`th of them.
`NumberedInOrder` compares first bytes, which is why the order holds up to `Base`.

**Deployment.**  Five invariants, each with the types (`TypeCorrect`).  `NeoInv`: the NEO is in one
place as a whole (with the validators, with the committee, or divided among the Alphabet
contracts), and a transfer or distribution on its way either takes all of it or
comes too late; `VaultFull` ties GAS and NEO of the validators' account, so
that a late transfer of GAS is one of nothing.  `SharesAreEven` follows.
`GoalInv` adds to `GoalsBehind` that every plan ends with the distribution: the one
goal that can be undone is that of the distribution, by the transfer that
brings the NEO, and no member is past its last stage before that (`GoalsStayReached`).
`RecInv` is what a finished deployment has recorded, for `NothingLeft`.
`PayInv` and `FundInv` are for `NobodyIsPaidTwice`: members have nothing or a whole amount
while there is something to spare, the leader waits for one transfer at most, and only in
that stage; then what a member has, what it is due, and what late transfers
(those the leader forgot when it was restarted) would still give it is bounded by one amount
and one for each mishap.

The type invariants of Netmap, NeoFS, NNS, NotaryDesignation, Container and Deployment are
theorems; where TLC would add nothing they are not part of the runs.  `SetConfig` by nobody (section 3) is an
action of the model and of the proofs, but not of the run `neofs`, where the
user and the Alphabet sign together with the first node.

Checked by TLC only:

* `NotaryEnabled`, `DeployedOrStranded` and `TargetElected`: liveness under
  fairness (and `ENABLED`, in terms of which it is defined) is out of the prover's reach.
* What the violation runs refute is not to be proved: `TakenSpaceAlwaysSum` and `Deployed`.

## 5. What is not modelled

* Contract updates and storage migrations.
* `VerifyPlacementSignatures`, a reader, and the form of CORS and S3 attributes.
* Callbacks of receiving contracts (`onNEP11Payment`, `onNEP17Payment`): a
  receiver that panics only rolls its transfer back.
* Empty script hashes in `transferX`, `lock`, `mint` and `burn`: no caller
  passes one.
* A call of `Balance.newEpoch` by the Alphabet outside a tick.
* In Container: renewals of domains, administrators of domains, the limit of 16 records,
  a zone that expires or changes hands.
* In NNS: the form of names, addresses and texts (`checkFragment`, `checkIPv4`,
  `checkIPv6`), burnt GAS, and `ResolveNeoIterator`.
* The readers of NNS, which change nothing.
* Settings read from Netmap by other contracts are constants there (but for the
  rate, which `Chain` reads).
* In `Deployment`: fees, the scopes of witnesses, `Contract` (the routine for contracts
  of users), a connection that is lost, records that do not decode.
* In `Governance`: what makes nodes decide upon a list; Proxy's GAS from other
  sources than `Emit`.
* In `Chain`: fees of `CreateV2`, locks, epochs that are skipped, subscribers that
  panic.  Such a subscriber rolls back every tick: a disabled action.
* The contracts listed as not modelled in `PROJECT.json`.

## 6. Plan

Done: all contracts with state, their composition for payments, the
deployment procedure, and the governance of the committee; every safety property
that a passing run checks is a theorem.  To come, in this order:

1. `Chain` with `CreateV2`, its fees paid by `Balance`, and locks released by ticks.
2. Container's aliases over `NNS` instead of `domains` and `records`, with renewals and the
   expiry of the zone.
3. `VerifyPlacementSignatures` against a definition that counts nodes.
