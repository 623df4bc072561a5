----------------------------- MODULE Container ------------------------------
(***************************************************************************)
(* The Container contract (contracts/container/contract.go): containers as *)
(* non-fungible tokens with a revision, a lock and a domain, their member  *)
(* nodes, the load reports of the nodes, and what is derived from those:   *)
(* summaries, space taken by users, billing statistics.                    *)
(*                                                                         *)
(* One action is one transaction; a panic, a call that returns false and a *)
(* call that changes nothing are disabled actions.  "signers" are the      *)
(* witnesses of the transaction.  A container ID is the checksum of what   *)
(* it was created with, so its content is a constant of the ID.            *)
(*                                                                         *)
(* External, as far as the contract uses them: the clock of the chain, the *)
(* epoch and the time of its tick (Netmap), NEOs of the users (Balance),   *)
(* the domains with their owners, terms and TXT records (NNS).  A domain   *)
(* is of the second level; the zone above it is the committee's and kept.  *)
(***************************************************************************)
EXTENDS Billing, Sequences, FiniteSets, Functions

CONSTANTS Cids,            \* container IDs
          Content,         \* what each of them was created with
          Accounts,        \* users and Alphabet nodes
          Nodes,           \* storage nodes, by account
          Names,           \* domains
          NoName,          \* no domain requested
          Keys,            \* attributes that may change, but for the lock
          Contract,        \* this contract's account
          Alphabet,        \* the Alphabet multi-signature account
          Committee,       \* the committee's, with another threshold
          AlphabetNodes,   \* its members
          ContainerFee, AliasFee,    \* settings of the Netmap contract
          EpochDuration,   \* the same, in seconds
          SECOND,          \* time units (milliseconds) in a second
          ObjectSize,      \* objectBillingSize
          MaxReports,      \* maxNumberOfReportsPerEpoch
          HEADER, BASE,    \* see AsInteger
          Expire,          \* defaultExpire: term of a domain, in seconds
          Strangers,       \* bound: who else registers domains
          RecordSets,      \* bound: what owners of domains write to them
          EACLs,           \* bound: do creations put an extended ACL?
          Signers,         \* bound: witnesses of a transaction
          Receivers,       \* bound: new owners of containers
          Locks,           \* bound: times locks are set to, in seconds
          Vectors,         \* bound: placement vectors
          ReplicaLists,    \* bound: REP numbers, one per vector
          Sizes, Objects,  \* bound: sizes and object numbers of reports
          Limits,          \* bound: quotas
          QuotaUsers,      \* bound: users who get a quota
          Funds,           \* bound: tokens of each user at the beginning
          MaxRevision,     \* bound: highest revision
          MaxTime,         \* bound: latest time
          MaxEpoch         \* bound: highest epoch

ASSUME ContainerAssumption ==
    /\ Content \in [Cids -> [owner : Accounts, lock : Nat,
                             name : Names \cup {NoName}]]
    /\ NoName \notin Names
    /\ Expire \in Nat \ {0} /\ Strangers \subseteq Accounts
    /\ Contract \notin Accounts \cup {Committee} /\ RecordSets \subseteq SUBSET Cids
    /\ SECOND \in Nat \ {0} /\ EpochDuration \in Nat \ {0}
    /\ ObjectSize \in Nat /\ MaxReports \in Nat \ {0}
    /\ HEADER \in Nat \ {0} /\ BASE \in Nat \ {0}
    /\ ContainerFee \in Nat /\ AliasFee \in Nat
    /\ AlphabetNodes \subseteq Accounts /\ IsFiniteSet(AlphabetNodes)
    /\ Receivers \subseteq Accounts /\ Locks \subseteq Nat /\ MaxTime \in Nat
    /\ Vectors \subseteq Nat
    /\ ReplicaLists \subseteq Seq(Nat)
    /\ Sizes \subseteq Nat /\ Objects \subseteq Nat
    /\ QuotaUsers \subseteq Accounts /\ Limits \subseteq Int
    /\ Funds \in [Accounts -> Nat]

Info == [owner : Accounts, revision : Nat, lock : Nat, attrs : SUBSET Keys]
Quota == [soft : Int, hard : Int]
NodeReport == [size : Nat, objs : Nat, count : Nat, epoch : Nat]
NodeReportSummary == [size : Int, objs : Int]
Domain == [owner : Accounts \cup {Contract, Committee}, until : Nat]

VARIABLES
    info,         \* 0x00: container -> Info, a partial function
    index,        \* 'o': pairs of an owner and a container
    deleted,      \* 'd': containers that were removed
    eacls,        \* 'eACL': containers with an extended ACL
    alias,        \* 'nnsHasAlias': container -> domain, a partial function
    quotas,       \* 'a': container -> Quota, a partial function
    userQuotas,   \* 'b': user -> Quota, a partial function
    nodes,        \* 'n': container -> pairs of a vector and a node
    nextNodes,    \* 'u': the same, for the next list
    replicas,     \* 'r': container -> REP numbers
    reports,      \* 'i': <<container, node>> -> NodeReport, partial
    stats,        \* 'f': <<container, node>> -> EpochBillingStat, partial
    summary,      \* 's': container -> NodeReportSummary, partial
    taken,        \* 'e': user -> space taken
    domains,      \* external: domain -> Domain
    records,      \* external: domain -> containers its TXT records name
    funds,        \* external: tokens of the accounts
    now,          \* external: time of the block
    epoch,        \* external: current epoch
    lastTick,     \* external: when it began
    disturbed,    \* history variable: domains that ran out with records in
                  \* them, or that somebody else wrote records to
    promised,     \* history variable: latest lock of a container since it
                  \* was created
    reborn,       \* history variable: containers created again while
                  \* somebody else owned them
    skewed,       \* history variable: has a container with reports changed
                  \* hands?
    area,         \* history variable: <<container, node>> -> the integral of
                  \* the reported load over the last and over this epoch
    lastSpan      \* history variable: how long the last epoch was

aliases == <<alias, domains, records, disturbed>>
registry == <<info, index, deleted, eacls, aliases, funds, promised, reborn>>
limits == <<quotas, userQuotas>>
members == <<nodes, nextNodes, replicas>>
load == <<reports, stats, summary, taken, skewed, area>>
clock == <<now, epoch, lastTick, lastSpan>>
vars == <<registry, limits, members, load, clock>>

-----------------------------------------------------------------------------
Put(f, k, v) == [x \in DOMAIN f \cup {k} |-> IF x = k THEN v ELSE f[x]]
Without(f, k) == [x \in DOMAIN f \ {k} |-> f[x]]
Empty == [x \in {} |-> x]

OwnerOf(c) == info[c].owner
BalanceOf(u) == Cardinality({c \in Cids : <<u, c>> \in index})

(* updateUserTakenSpace: a value that is not positive is deleted.          *)
AddSpace(t, u, diff) ==
    [t EXCEPT ![u] = IF @ + diff > 0 THEN @ + diff ELSE 0]

(* nodeFromContainer *)
IsMember(c, n) == \E v \in Vectors : <<v, n>> \in nodes[c]

(* What is left of a function on pairs without the container or one of its *)
(* nodes.  The mutant takes all nodes of the container.                    *)
DropNodesMutant(f, c, N) == [p \in {q \in DOMAIN f : q[1] # c} |-> f[p]]
DropNodes(f, c, N) ==
    [p \in {q \in DOMAIN f : ~(q[1] = c /\ q[2] \in N)} |-> f[p]]

-----------------------------------------------------------------------------
Init ==
    /\ info = Empty /\ index = {} /\ deleted = {} /\ eacls = {}
    /\ alias = Empty /\ quotas = Empty /\ userQuotas = Empty
    /\ nodes = [c \in Cids |-> {}] /\ nextNodes = [c \in Cids |-> {}]
    /\ replicas = [c \in Cids |-> <<>>]
    /\ reports = Empty /\ stats = Empty /\ summary = Empty
    /\ taken = [a \in Accounts |-> 0]
    /\ domains = [d \in Names |-> [owner |-> Committee, until |-> 0]]
    /\ records = [d \in Names |-> {}] /\ disturbed = {}
    /\ funds = Funds
    /\ now = 0 /\ epoch = 0 /\ lastTick = 0
    /\ promised = [c \in Cids |-> 0] /\ reborn = {}
    /\ skewed = FALSE /\ area = Empty /\ lastSpan = 0

(* The life of a container. *)

Fee(c) == ContainerFee + IF Content[c].name = NoName THEN 0 ELSE AliasFee

(* Mutant: a removed container may be created again. *)
RemovedMutant(c) == c \in deleted \cap DOMAIN info
Removed(c) == c \in deleted

(* The term of the domain is over, or it was never registered.  Its         *)
(* records stay.                                                           *)
Lapsed(d) == now >= domains[d].until
Registered(who) == [owner |-> who, until |-> now + Expire * SECOND]

(* The records of the domain may be changed (checkAdmin): this contract is  *)
(* a witness of its own calls.                                             *)
MayWrite(d, signers) == ~Lapsed(d) /\ domains[d].owner \in signers \cup {Contract}

(* checkNiceNameAvailable.  The mutant takes domains with records.         *)
NameAvailableMutant(d) == Lapsed(d) \/ domains[d].owner \in {Committee, Contract}
NameAvailable(d) ==
    \/ Lapsed(d)
    \/ domains[d].owner \in {Committee, Contract} /\ records[d] = {}

(* A domain that is not registered is; then its record is added, which may  *)
(* not be there yet, although others may be.                               *)
TakeName(signers, c, d) ==
    /\ NameAvailable(d)
    /\ domains' = IF Lapsed(d) THEN [domains EXCEPT ![d] = Registered(Contract)]
                  ELSE domains
    /\ domains'[d].owner \in signers \cup {Contract}
    /\ c \notin records[d]
    /\ records' = [records EXCEPT ![d] = @ \cup {c}]
    /\ alias' = Put(alias, c, d)
    /\ UNCHANGED disturbed

(* deleteNNSRecords: that the domain has lapsed is no reason to fail, that  *)
(* somebody else has it is.  The mutant fails for neither.                 *)
LeaveNameMutant(signers, c) ==
    /\ alias' = Without(alias, c)
    /\ records' = IF c \in DOMAIN alias /\ MayWrite(alias[c], signers)
                  THEN [records EXCEPT ![alias[c]] = {}] ELSE records
    /\ UNCHANGED <<domains, disturbed>>
LeaveName(signers, c) ==
    /\ alias' = Without(alias, c)
    /\ \/ /\ c \in DOMAIN alias => Lapsed(alias[c])
          /\ UNCHANGED records
       \/ /\ c \in DOMAIN alias /\ MayWrite(alias[c], signers)
          /\ records' = [records EXCEPT ![alias[c]] = {}]
    /\ UNCHANGED <<domains, disturbed>>

(* The owner must be able to pay the fee to each Alphabet node; the mutant  *)
(* asks for one.                                                           *)
AffordableMutant(c) == funds[Content[c].owner] >= Fee(c)
Affordable(c) ==
    funds[Content[c].owner] >= Fee(c) * Cardinality(AlphabetNodes)

(* Nothing asks whether the container exists: one that does is made anew,  *)
(* as its creator's, and stays in the index of its owner.  With "eacl" the *)
(* same transaction puts an extended ACL, which then leaves the revision   *)
(* alone.                                                                  *)
Create(signers, c, eacl) ==
    LET cnr == Content[c]
        total == Fee(c) * Cardinality(AlphabetNodes)
    IN
    /\ Alphabet \in signers
    /\ ~Removed(c)
    /\ cnr.lock # 0 => cnr.lock * SECOND > now
    /\ Affordable(c)
    /\ info' = Put(info, c, [owner |-> cnr.owner, revision |-> 1,
                             lock |-> cnr.lock, attrs |-> {}])
    /\ index' = index \cup {<<cnr.owner, c>>}
    /\ IF cnr.name = NoName THEN UNCHANGED aliases
       ELSE TakeName(signers, c, cnr.name)
    /\ funds' = [a \in Accounts |->
                    funds[a] - (IF a = cnr.owner THEN total ELSE 0)
                             + (IF a \in AlphabetNodes THEN Fee(c) ELSE 0)]
    /\ eacls' = IF eacl THEN eacls \cup {c} ELSE eacls
    /\ promised' = [promised EXCEPT ![c] = cnr.lock]
    /\ reborn' = IF c \in DOMAIN info /\ OwnerOf(c) # cnr.owner THEN reborn \cup {c}
                 ELSE reborn
    /\ skewed' = (skewed \/ (c \in DOMAIN summary /\ OwnerOf(c) # cnr.owner))
    /\ UNCHANGED <<deleted, limits, members, reports, stats, summary, taken,
                   area, clock>>

(* checkLock *)
Locked(c) == info[c].lock # 0 /\ now <= info[c].lock * SECOND

Remove(signers, c) ==
    /\ Alphabet \in signers
    /\ c \in DOMAIN info
    /\ ~Locked(c)
    /\ taken' = IF c \in DOMAIN summary
                THEN AddSpace(taken, OwnerOf(c), -summary[c].size) ELSE taken
    /\ index' = index \ {<<OwnerOf(c), c>>}
    /\ nodes' = [nodes EXCEPT ![c] = {}]
    /\ nextNodes' = [nextNodes EXCEPT ![c] = {}]
    /\ replicas' = [replicas EXCEPT ![c] = <<>>]
    /\ reports' = DropNodes(reports, c, Nodes)
    /\ stats' = DropNodes(stats, c, Nodes)
    /\ area' = DropNodes(area, c, Nodes)
    /\ quotas' = Without(quotas, c)
    /\ summary' = Without(summary, c)
    /\ info' = Without(info, c)
    /\ eacls' = eacls \ {c}
    /\ deleted' = deleted \cup {c}
    /\ LeaveName(signers, c)
    /\ UNCHANGED <<userQuotas, funds, promised, reborn, skewed, clock>>
-----------------------------------------------------------------------------
(* Changes of a container.  Each but a transfer to oneself makes a new     *)
(* revision.                                                               *)

Revised(c, new) ==
    /\ info[c].revision < MaxRevision
    /\ info' = [info EXCEPT ![c] = [new EXCEPT !.revision = @ + 1]]

PutEACL(signers, c) ==
    /\ Alphabet \in signers
    /\ c \in DOMAIN info
    /\ eacls' = eacls \cup {c}
    /\ Revised(c, info[c])
    /\ UNCHANGED <<index, deleted, aliases, funds, promised, reborn, limits,
                   members, load, clock>>

(* convert.ToInteger of the serialized summary: its bytes, type tags and   *)
(* lengths first, read as the digits of a number.  BASE stands for the     *)
(* weight of a field, HEADER for the tags and lengths.                     *)
AsInteger(s) == HEADER + BASE * (s.size + BASE * s.objs)

(* The index after a transfer.  The mutant forgets the old owner. *)
ReindexedMutant(c, from, to) == index \cup {<<to, c>>}
Reindexed(c, from, to) == (index \ {<<from, c>>}) \cup {<<to, c>>}

Transfer(signers, c, to) ==
    LET from == OwnerOf(c) IN
    /\ c \in DOMAIN info
    /\ from \in signers /\ to \in signers
    /\ from # to
    /\ Revised(c, [info[c] EXCEPT !.owner = to])
    /\ index' = Reindexed(c, from, to)
    /\ IF c \in DOMAIN summary
       THEN /\ taken' = AddSpace(AddSpace(taken, from, -AsInteger(summary[c])),
                                 to, AsInteger(summary[c]))
            /\ skewed' = TRUE
       ELSE UNCHANGED <<taken, skewed>>
    /\ UNCHANGED <<deleted, eacls, aliases, funds, promised, reborn, limits,
                   members, reports, stats, summary, area, clock>>

(* SetAttribute and RemoveAttribute of the lock. *)
SetLock(signers, c, until, validUntil) ==
    /\ Alphabet \in signers
    /\ now <= validUntil * SECOND
    /\ c \in DOMAIN info
    /\ until > 0 /\ until * SECOND > now
    /\ info[c].lock # 0 => until > info[c].lock
    /\ Revised(c, [info[c] EXCEPT !.lock = until])
    /\ promised' = [promised EXCEPT ![c] = IF until > @ THEN until ELSE @]
    /\ UNCHANGED <<index, deleted, eacls, aliases, funds, reborn, limits,
                   members, load, clock>>

(* Mutant: a lock may be removed early. *)
RemoveLockMutant(signers, c, validUntil) ==
    /\ Alphabet \in signers
    /\ now <= validUntil * SECOND
    /\ c \in DOMAIN info
    /\ info[c].lock # 0
    /\ Revised(c, [info[c] EXCEPT !.lock = 0])
    /\ UNCHANGED <<index, deleted, eacls, aliases, funds, promised, reborn,
                   limits, members, load, clock>>
RemoveLock(signers, c, validUntil) ==
    /\ Alphabet \in signers
    /\ now <= validUntil * SECOND
    /\ c \in DOMAIN info
    /\ info[c].lock # 0
    /\ info[c].lock * SECOND <= now
    /\ Revised(c, [info[c] EXCEPT !.lock = 0])
    /\ UNCHANGED <<index, deleted, eacls, aliases, funds, promised, reborn,
                   limits, members, load, clock>>

(* The same for the attributes whose values are only checked for form. *)
SetAttribute(signers, c, key, validUntil) ==
    /\ Alphabet \in signers
    /\ now <= validUntil * SECOND
    /\ c \in DOMAIN info
    /\ Revised(c, [info[c] EXCEPT !.attrs = @ \cup {key}])
    /\ UNCHANGED <<index, deleted, eacls, aliases, funds, promised, reborn,
                   limits, members, load, clock>>

RemoveAttribute(signers, c, key, validUntil) ==
    /\ Alphabet \in signers
    /\ now <= validUntil * SECOND
    /\ c \in DOMAIN info
    /\ key \in info[c].attrs
    /\ Revised(c, [info[c] EXCEPT !.attrs = @ \ {key}])
    /\ UNCHANGED <<index, deleted, eacls, aliases, funds, promised, reborn,
                   limits, members, load, clock>>

(* checkQuotaSigner: "managed" is a setting of the Netmap contract. *)
MaySetQuota(signers, user, managed) ==
    IF managed THEN Alphabet \in signers ELSE user \in signers

NewQuota(q, k, size, hard) ==
    LET old == IF k \in DOMAIN q THEN q[k] ELSE [soft |-> 0, hard |-> 0]
    IN  Put(q, k, IF hard THEN [old EXCEPT !.hard = size]
                  ELSE [old EXCEPT !.soft = size])

SetContainerQuota(signers, c, size, hard, managed) ==
    /\ c \in DOMAIN info
    /\ MaySetQuota(signers, OwnerOf(c), managed)
    /\ quotas' = NewQuota(quotas, c, size, hard)
    /\ UNCHANGED <<registry, userQuotas, members, load, clock>>

SetUserQuota(signers, user, size, hard, managed) ==
    /\ MaySetQuota(signers, user, managed)
    /\ userQuotas' = NewQuota(userQuotas, user, size, hard)
    /\ UNCHANGED <<registry, quotas, members, load, clock>>
-----------------------------------------------------------------------------
(* Member nodes.  Neither operation asks whether the container exists. *)

AddNextEpochNodes(signers, c, v, N) ==
    /\ Alphabet \in signers
    /\ v = 0 \/ \E n \in Nodes : <<v - 1, n>> \in nextNodes[c]
    /\ nextNodes' = [nextNodes EXCEPT ![c] = @ \cup {<<v, n>> : n \in N}]
    /\ UNCHANGED <<registry, limits, nodes, replicas, load, clock>>

(* The reports of a container, and what they tell. *)
ReportsOf(c) == {p \in DOMAIN reports : p[1] = c}
SizeOf == [p \in DOMAIN reports |-> reports[p].size]
ObjectsOf == [p \in DOMAIN reports |-> reports[p].objs]

(* Nodes that were in the list and are in no vector of the next one that   *)
(* has a REP number: their reports go, and their share of what is derived  *)
(* from them; their billing statistics stay.                               *)
Leavers(c, reps) ==
    {n \in Nodes : IsMember(c, n) /\
                   \A v \in Vectors : <<v, n>> \in nextNodes[c] => v >= Len(reps)}

CommitContainerListUpdate(signers, c, reps) ==
    LET out == {p \in ReportsOf(c) : p[2] \in Leavers(c, reps)}
        size == SumFunctionOnSet(SizeOf, out)
        objs == SumFunctionOnSet(ObjectsOf, out)
    IN
    /\ Alphabet \in signers
    /\ nodes' = [nodes EXCEPT ![c] = nextNodes[c]]
    /\ nextNodes' = [nextNodes EXCEPT ![c] = {}]
    /\ replicas' = [replicas EXCEPT ![c] = reps]
    /\ reports' = DropNodes(reports, c, Leavers(c, reps))
    /\ area' = DropNodes(area, c, Leavers(c, reps))
    /\ IF size = 0 /\ objs = 0 THEN UNCHANGED <<summary, taken>>
       ELSE /\ c \in DOMAIN summary /\ c \in DOMAIN info
            /\ summary' = [summary EXCEPT ![c] = [size |-> @.size - size,
                                                  objs |-> @.objs - objs]]
            /\ taken' = AddSpace(taken, OwnerOf(c), -size)
    /\ UNCHANGED <<registry, limits, stats, skewed, clock>>
-----------------------------------------------------------------------------
(* Load reports. *)

Load(size, objs) == size + objs * ObjectSize
Duration == EpochDuration * SECOND

(* Negative when the epoch lasts longer than it should. *)
EpochRest == lastTick + Duration - now

FirstStat(new) ==
    [latestEpoch |-> epoch, latestSize |-> new, latestAverage |-> new,
     previousEpoch |-> 0, previousSize |-> 0, previousAverage |-> 0]
StatOfSameEpoch(s, old, new) ==
    [s EXCEPT !.latestAverage = @ + Quotient((new - old) * EpochRest, Duration),
              !.latestSize = new]
(* Mutant: the last epoch is closed with the size at its end. *)
StatOfNewEpochMutant(s, old, new) ==
    [latestEpoch |-> epoch, latestSize |-> new,
     latestAverage |-> Quotient(old * (now - lastTick) + new * EpochRest,
                                Duration),
     previousEpoch |-> s.latestEpoch, previousSize |-> s.latestSize,
     previousAverage |-> s.latestSize]
StatOfNewEpoch(s, old, new) ==
    [latestEpoch |-> epoch, latestSize |-> new,
     latestAverage |-> Quotient(old * (now - lastTick) + new * EpochRest,
                                Duration),
     previousEpoch |-> s.latestEpoch, previousSize |-> s.latestSize,
     previousAverage |-> s.latestAverage]

PutReport(signers, c, n, size, objs) ==
    LET p == <<c, n>>
        first == p \notin DOMAIN reports
        old == IF first THEN [size |-> 0, objs |-> 0, count |-> 0,
                              epoch |-> epoch]
               ELSE reports[p]
        sum == IF c \in DOMAIN summary THEN summary[c]
               ELSE [size |-> 0, objs |-> 0]
    IN
    /\ n \in signers
    /\ c \in DOMAIN info
    /\ IsMember(c, n)
    /\ ~first /\ old.epoch = epoch => old.count # MaxReports
    /\ reports' = Put(reports, p,
           [size |-> size, objs |-> objs, epoch |-> epoch,
            count |-> IF old.epoch = epoch THEN old.count + 1 ELSE 1])
    /\ stats' = Put(stats, p,
           IF first THEN FirstStat(Load(size, objs))
           ELSE IF old.epoch = epoch
                THEN StatOfSameEpoch(stats[p], Load(old.size, old.objs),
                                     Load(size, objs))
                ELSE StatOfNewEpoch(stats[p], Load(old.size, old.objs),
                                    Load(size, objs)))
    /\ summary' = Put(summary, c, [size |-> sum.size - old.size + size,
                                   objs |-> sum.objs - old.objs + objs])
    /\ taken' = AddSpace(taken, OwnerOf(c), size - old.size)
    /\ area' = IF first
               THEN Put(area, p, [last |-> 0,
                                  this |-> Load(size, objs) * (now - lastTick)])
               ELSE area
    /\ UNCHANGED <<registry, limits, members, skewed, clock>>
-----------------------------------------------------------------------------
(* External: the next block, and the tick of the Netmap contract in a      *)
(* block.                                                                  *)

Block(t) ==
    /\ now < t
    /\ now' = t
    /\ area' = [p \in DOMAIN area |->
                  [area[p] EXCEPT !.this =
                     @ + Load(reports[p].size, reports[p].objs) * (t - now)]]
    /\ disturbed' = disturbed \cup {d \in Names : records[d] # {} /\ domains[d].until <= t}
    /\ UNCHANGED <<info, index, deleted, eacls, alias, domains, records, funds,
                   promised, reborn, limits, members, reports, stats, summary,
                   taken, skewed, epoch, lastTick, lastSpan>>

NewEpoch ==
    /\ epoch < MaxEpoch
    /\ epoch' = epoch + 1
    /\ lastTick' = now
    /\ lastSpan' = now - lastTick
    /\ area' = [p \in DOMAIN area |-> [last |-> area[p].this, this |-> 0]]
    /\ UNCHANGED <<registry, limits, members, reports, stats, summary, taken,
                   skewed, now>>

(* External: what others do in NNS.  Whoever comes first registers a domain *)
(* that has lapsed; who has one, gives it away or writes records.          *)
RegisterDomain(d, who) ==
    /\ Lapsed(d)
    /\ domains' = [domains EXCEPT ![d] = Registered(who)]
    /\ UNCHANGED <<info, index, deleted, eacls, alias, records, disturbed, funds,
                   promised, reborn, limits, members, load, clock>>

GiveDomain(d, who) ==
    /\ ~Lapsed(d) /\ domains[d].owner # Contract
    /\ domains' = [domains EXCEPT ![d].owner = who]
    /\ UNCHANGED <<info, index, deleted, eacls, alias, records, disturbed, funds,
                   promised, reborn, limits, members, load, clock>>

WriteRecords(d, written) ==
    /\ ~Lapsed(d) /\ domains[d].owner # Contract
    /\ records' = [records EXCEPT ![d] = written]
    /\ disturbed' = disturbed \cup {d}
    /\ UNCHANGED <<info, index, deleted, eacls, alias, domains, funds, promised,
                   reborn, limits, members, load, clock>>

Times == 0..MaxTime

Next ==
    \/ \E signers \in Signers, c \in Cids, eacl \in EACLs :
          Create(signers, c, eacl)
    \/ \E signers \in Signers, c \in Cids :
          \/ Remove(signers, c)
          \/ PutEACL(signers, c)
          \/ \E to \in Receivers : Transfer(signers, c, to)
          \/ \E until \in Locks, validUntil \in Times :
                SetLock(signers, c, until, validUntil)
          \/ \E validUntil \in Times : RemoveLock(signers, c, validUntil)
          \/ \E key \in Keys, validUntil \in Times :
                \/ SetAttribute(signers, c, key, validUntil)
                \/ RemoveAttribute(signers, c, key, validUntil)
          \/ \E size \in Limits, hard, managed \in BOOLEAN :
                SetContainerQuota(signers, c, size, hard, managed)
          \/ \E v \in Vectors, N \in SUBSET Nodes :
                AddNextEpochNodes(signers, c, v, N)
          \/ \E reps \in ReplicaLists : CommitContainerListUpdate(signers, c, reps)
          \/ \E n \in Nodes, size \in Sizes, objs \in Objects :
                PutReport(signers, c, n, size, objs)
    \/ \E signers \in Signers, user \in QuotaUsers, size \in Limits,
          hard, managed \in BOOLEAN :
          SetUserQuota(signers, user, size, hard, managed)
    \/ \E d \in Names : \/ \E who \in Strangers \cup {Committee} : RegisterDomain(d, who)
                        \/ \E who \in Strangers \cup {Committee, Contract} :
                              GiveDomain(d, who)
                        \/ \E written \in RecordSets : WriteRecords(d, written)
    \/ \E t \in Times : Block(t)
    \/ NewEpoch

Spec == Init /\ [][Next]_vars

-----------------------------------------------------------------------------
(* Properties. *)

Partial(f, D, R) == DOMAIN f \subseteq D /\ f \in [DOMAIN f -> R]

RegistryTypeOK ==
    /\ Partial(info, Cids, Info)
    /\ Partial(alias, Cids, Names)
    /\ domains \in [Names -> Domain]
    /\ records \in [Names -> SUBSET Cids] /\ disturbed \subseteq Names
    /\ promised \in [Cids -> Nat] /\ reborn \subseteq Cids
    /\ now \in Nat
TypeOK ==
    /\ RegistryTypeOK
    /\ index \subseteq Accounts \X Cids
    /\ deleted \subseteq Cids /\ eacls \subseteq Cids
    /\ Partial(quotas, Cids, Quota) /\ Partial(userQuotas, Accounts, Quota)
    /\ nodes \in [Cids -> SUBSET (Vectors \X Nodes)]
    /\ nextNodes \in [Cids -> SUBSET (Vectors \X Nodes)]
    /\ replicas \in [Cids -> Seq(Nat)]
    /\ Partial(reports, Cids \X Nodes, NodeReport)
    /\ Partial(stats, Cids \X Nodes, EpochBillingStat)
    /\ Partial(summary, Cids, NodeReportSummary)
    /\ taken \in [Accounts -> Nat] /\ funds \in [Accounts -> Nat]
    /\ epoch \in Nat /\ lastTick \in Nat /\ lastSpan \in Nat
    /\ skewed \in BOOLEAN
    /\ Partial(area, Cids \X Nodes, [last : Int, this : Int])

(* "Containers are additionally indexed by their owners": the index behind *)
(* BalanceOf and TokensOf lists each container under its owner, and under  *)
(* nobody else and never after its removal, whatever creations, transfers  *)
(* and removals came; but for containers that were created again while     *)
(* somebody else than their creator owned them (CreateV2 does not ask).    *)
OwnersIndexed ==
    /\ \A c \in DOMAIN info : <<OwnerOf(c), c>> \in index
    /\ \A p \in index : p[2] \in reborn \/ (p[2] \in DOMAIN info /\ p[1] = OwnerOf(p[2]))

(* A removed container never comes back, and leaves nothing behind that a  *)
(* later call could find or pay for, in whatever order approvals, reports, *)
(* quotas and removals come.  (Its next nodes may: nothing asks whether    *)
(* the container exists.)                                                  *)
RemovedForGood ==
    \A c \in deleted :
        /\ c \notin DOMAIN info \cup DOMAIN alias \cup DOMAIN quotas
                    \cup DOMAIN summary \cup eacls
        /\ \A n \in Nodes : <<c, n>> \notin DOMAIN reports \cup DOMAIN stats

(* A lock holds: whatever is done to the attributes and the owner, a       *)
(* container is not removed before the latest time it was locked until     *)
(* since it was created.  (To create it again is to begin anew, with the   *)
(* lock it was created with.)                                              *)
LockHolds ==
    [][\A c \in DOMAIN info \ DOMAIN info' : now >= promised[c] * SECOND]_vars

(* A domain names one container, the one that has it as its alias, and     *)
(* this as long as that exists: no two containers share a domain, and none *)
(* keeps an alias that leads to another or nowhere.  So for domains that   *)
(* never lapsed while they had records and whose records nobody else       *)
(* wrote; a lapsed domain is free again with its old records in it.        *)
AliasesNameOne ==
    \A d \in Names \ disturbed :
        LET holders == {c \in DOMAIN alias : alias[c] = d}
        IN  /\ records[d] = holders
            /\ \A b, c \in holders : b = c
            /\ holders # {} => ~Lapsed(d)

(* The summary of a container is the sum of its reports: what is left when *)
(* nodes come, report, leave and come back.                                *)
SummaryIsSum ==
    /\ \A p \in DOMAIN reports : p[1] \in DOMAIN summary
    /\ \A c \in DOMAIN summary :
         summary[c] = [size |-> SumFunctionOnSet(SizeOf, ReportsOf(c)),
                       objs |-> SumFunctionOnSet(ObjectsOf, ReportsOf(c))]

(* The space taken by a user is the sum of the summaries of the containers *)
(* that he owns, as long as no container with reports changed hands.       *)
SpaceOf(u) ==
    SumFunctionOnSet([c \in DOMAIN summary |-> summary[c].size],
                     {c \in DOMAIN summary \cap DOMAIN info : OwnerOf(c) = u})
TakenSpaceIsSum == ~skewed => \A u \in Accounts : taken[u] = SpaceOf(u)

(* Both, in any order of reports, memberships and removals.                 *)
LoadAddsUp == SummaryIsSum /\ TakenSpaceIsSum

(* The same without the condition, as the doc comment of                   *)
(* GetTakenSpaceByUser says.                                               *)
TakenSpaceAlwaysSum == \A u \in Accounts : taken[u] = SpaceOf(u)

(* What settlement will bill a node for the epoch before the current one   *)
(* is its average load in that epoch, weighted by time, if the epoch was   *)
(* as long as it should be: whether the node reported in that epoch, since *)
(* then, both or neither, and however often.                               *)
BilledIsAverage ==
    epoch > 0 /\ lastSpan = Duration =>
        \A p \in DOMAIN reports :
            BilledSize(stats[p], epoch) * Duration = area[p].last
=============================================================================
