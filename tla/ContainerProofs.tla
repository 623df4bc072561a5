--------------------------- MODULE ContainerProofs --------------------------
(* Theorems about Container, for all containers, users, domains, nodes and *)
(* times: its registry (removals, domains, index and locks), then the sums *)
(* that it keeps of the reports of nodes, then what settlement bills from  *)
(* their statistics.                                                       *)
EXTENDS Container, Sums, TLAPS

(* A container that is gone or was never there. *)
Traceless(c) ==
    /\ c \notin DOMAIN info
    /\ c \notin DOMAIN alias
    /\ c \notin DOMAIN quotas
    /\ c \notin DOMAIN summary
    /\ c \notin eacls
    /\ \A n \in Nodes : <<c, n>> \notin DOMAIN reports /\ <<c, n>> \notin DOMAIN stats

(* Removed containers are traceless; a transaction puts traces only of     *)
(* containers in info, and into info only what is not in deleted.          *)
Removal == \A c \in deleted : Traceless(c)

(* The domain of a container is the one it was created with. *)
Domains ==
    /\ \A c \in DOMAIN alias : alias[c] = Content[c].name /\ alias[c] \in Names
    /\ AliasesNameOne

(* A lock that was promised and is not set any more is over. *)
Promises ==
    \A c \in DOMAIN info : promised[c] # info[c].lock => promised[c] * SECOND <= now

(* What others do in NNS. *)
Outside(d) ==
    \/ \E who \in Strangers \cup {Committee} : RegisterDomain(d, who)
    \/ \E who \in Strangers \cup {Committee, Contract} : GiveDomain(d, who)
    \/ \E written \in RecordSets : WriteRecords(d, written)

LEMMA OutsideKeeps ==
    ASSUME NEW d, Outside(d)
    PROVE  UNCHANGED <<info, index, deleted, eacls, alias, funds, promised, reborn,
                       limits, members, load, clock>>
  BY DEF Outside, RegisterDomain, GiveDomain, WriteRecords

-----------------------------------------------------------------------------
LEMMA RemovalInit == Init => Removal
  BY DEF Init, Removal

LEMMA RemovalStep == Removal /\ [Next]_vars => Removal'
<1> SUFFICES ASSUME Removal, [Next]_vars PROVE Removal'
    OBVIOUS
<1> USE DEF Removal, Traceless
<1>1. CASE UNCHANGED vars
    BY <1>1 DEF vars, registry, aliases, limits, members, load
<1>2. ASSUME NEW signers \in Signers, NEW c \in Cids, NEW eacl \in EACLs,
             Create(signers, c, eacl)
      PROVE Removal'
  <2>1. /\ c \notin deleted
        /\ DOMAIN info' = DOMAIN info \cup {c}
        /\ eacls' \subseteq eacls \cup {c}
        /\ UNCHANGED <<deleted, limits, reports, stats, summary>>
      BY <1>2 DEF Create, Removed, Put
  <2>2. DOMAIN alias' \subseteq DOMAIN alias \cup {c}
      BY <1>2 DEF Create, TakeName, Put, aliases
  <2> QED BY <2>1, <2>2 DEF limits
<1>3. ASSUME NEW signers \in Signers, NEW c \in Cids, Remove(signers, c)
      PROVE Removal'
  <2> SUFFICES ASSUME NEW d \in deleted' PROVE Traceless(d)'
      OBVIOUS
  <2>1. d = c \/ d \in deleted
      BY <1>3 DEF Remove
  <2>2. /\ DOMAIN info' = DOMAIN info \ {c}
        /\ DOMAIN alias' = DOMAIN alias \ {c}
        /\ DOMAIN quotas' = DOMAIN quotas \ {c}
        /\ DOMAIN summary' = DOMAIN summary \ {c}
        /\ eacls' = eacls \ {c}
      BY <1>3 DEF Remove, LeaveName, Without
  <2>3. /\ DOMAIN reports' = {q \in DOMAIN reports : ~(q[1] = c /\ q[2] \in Nodes)}
        /\ DOMAIN stats' = {q \in DOMAIN stats : ~(q[1] = c /\ q[2] \in Nodes)}
      BY <1>3 DEF Remove, DropNodes
  <2> QED BY <2>1, <2>2, <2>3
<1>4. ASSUME NEW signers \in Signers, NEW c \in Cids,
             \/ PutEACL(signers, c)
             \/ \E to \in Receivers : Transfer(signers, c, to)
             \/ \E until \in Locks, validUntil \in Times :
                   SetLock(signers, c, until, validUntil)
             \/ \E validUntil \in Times : RemoveLock(signers, c, validUntil)
             \/ \E key \in Keys, validUntil \in Times :
                   \/ SetAttribute(signers, c, key, validUntil)
                   \/ RemoveAttribute(signers, c, key, validUntil)
      PROVE Removal'
  <2>1. /\ DOMAIN info' = DOMAIN info
        /\ c \in DOMAIN info
        /\ eacls' \subseteq eacls \cup {c}
        /\ UNCHANGED <<alias, deleted, quotas, summary, reports, stats>>
      BY <1>4 DEF PutEACL, Transfer, SetLock, RemoveLock, SetAttribute,
                  RemoveAttribute, Revised, aliases, limits, load, OwnerOf
  <2> QED BY <2>1
<1>5. ASSUME NEW signers \in Signers, NEW c \in Cids, NEW size \in Limits,
             NEW hard \in BOOLEAN, NEW managed \in BOOLEAN,
             SetContainerQuota(signers, c, size, hard, managed)
      PROVE Removal'
  <2>1. DOMAIN quotas' = DOMAIN quotas \cup {c}
      BY <1>5 DEF SetContainerQuota, NewQuota, Put
  <2> QED BY <1>5, <2>1 DEF SetContainerQuota, registry, aliases, load
<1>6. ASSUME NEW signers \in Signers, NEW c \in Cids, NEW v \in Vectors,
             NEW N \in SUBSET Nodes, AddNextEpochNodes(signers, c, v, N)
      PROVE Removal'
    BY <1>6 DEF AddNextEpochNodes, registry, aliases, limits, load
<1>7. ASSUME NEW signers \in Signers, NEW c \in Cids, NEW reps \in ReplicaLists,
             CommitContainerListUpdate(signers, c, reps)
      PROVE Removal'
  <2>1. DOMAIN reports' \subseteq DOMAIN reports /\ DOMAIN summary' = DOMAIN summary
      BY <1>7 DEF CommitContainerListUpdate, DropNodes
  <2>2. UNCHANGED <<registry, limits, stats>>
      BY <1>7 DEF CommitContainerListUpdate
  <2> QED BY <2>1, <2>2 DEF registry, aliases, limits
<1>8. ASSUME NEW signers \in Signers, NEW c \in Cids, NEW n \in Nodes,
             NEW size \in Sizes, NEW objs \in Objects,
             PutReport(signers, c, n, size, objs)
      PROVE Removal'
  <2>1. /\ c \in DOMAIN info
        /\ DOMAIN reports' = DOMAIN reports \cup {<<c, n>>}
        /\ DOMAIN stats' = DOMAIN stats \cup {<<c, n>>}
        /\ DOMAIN summary' = DOMAIN summary \cup {c}
        /\ UNCHANGED <<registry, limits>>
      BY <1>8 DEF PutReport, Put
  <2> QED BY <2>1 DEF registry, aliases, limits
<1>9. ASSUME \/ \E signers \in Signers, user \in QuotaUsers, size \in Limits,
                   hard, managed \in BOOLEAN :
                   SetUserQuota(signers, user, size, hard, managed)
             \/ \E t \in Times : Block(t)
             \/ NewEpoch
      PROVE Removal'
    BY <1>9 DEF SetUserQuota, Block, NewEpoch, registry, aliases, limits, load
<1>10. ASSUME NEW d \in Names, Outside(d) PROVE Removal'
    BY <1>10, OutsideKeeps DEF limits, load
<1> QED BY <1>1, <1>2, <1>3, <1>4, <1>5, <1>6, <1>7, <1>8, <1>9, <1>10
        DEF Next, Outside

(* A removed container never comes back and nothing of it stays in the     *)
(* state that later calls read or pay for.                                 *)
THEOREM RemovalIsFinal == Spec => []RemovedForGood
<1>1. Removal => RemovedForGood
    BY DEF Removal, Traceless, RemovedForGood
<1> QED BY RemovalInit, RemovalStep, <1>1, PTL DEF Spec

-----------------------------------------------------------------------------
(* The transactions that do not touch what the rest is about.              *)
RegistryKept == UNCHANGED <<info, index, deleted, aliases, promised, reborn, now>>

(* A step is a creation, a removal, a change of one container that exists, *)
(* a step of others in NNS, a block, or leaves the registry alone.         *)
Changes(c) ==
    \/ \E signers \in Signers :
          \/ PutEACL(signers, c)
          \/ \E key \in Keys, validUntil \in Times :
                \/ SetAttribute(signers, c, key, validUntil)
                \/ RemoveAttribute(signers, c, key, validUntil)
Relocks(c) ==
    \E signers \in Signers :
          \/ \E until \in Locks, validUntil \in Times :
                SetLock(signers, c, until, validUntil)
          \/ \E validUntil \in Times : RemoveLock(signers, c, validUntil)

LEMMA StepKinds ==
    ASSUME [Next]_vars
    PROVE  \/ \E signers \in Signers, c \in Cids, eacl \in EACLs :
                Create(signers, c, eacl)
           \/ \E signers \in Signers, c \in Cids : Remove(signers, c)
           \/ \E signers \in Signers, c \in Cids, to \in Receivers :
                Transfer(signers, c, to)
           \/ \E c \in Cids : Changes(c)
           \/ \E c \in Cids : Relocks(c)
           \/ \E d \in Names : Outside(d)
           \/ \E t \in Times : Block(t)
           \/ RegistryKept
<1>1. ASSUME NEW signers \in Signers, NEW c \in Cids,
             \/ \E size \in Limits, hard, managed \in BOOLEAN :
                   SetContainerQuota(signers, c, size, hard, managed)
             \/ \E v \in Vectors, N \in SUBSET Nodes :
                   AddNextEpochNodes(signers, c, v, N)
             \/ \E reps \in ReplicaLists :
                   CommitContainerListUpdate(signers, c, reps)
             \/ \E n \in Nodes, size \in Sizes, objs \in Objects :
                   PutReport(signers, c, n, size, objs)
      PROVE RegistryKept
    BY <1>1 DEF SetContainerQuota, AddNextEpochNodes, CommitContainerListUpdate,
                PutReport, RegistryKept, registry, clock
<1>2. ASSUME \/ \E signers \in Signers, user \in QuotaUsers, size \in Limits,
                   hard, managed \in BOOLEAN :
                   SetUserQuota(signers, user, size, hard, managed)
             \/ NewEpoch
             \/ UNCHANGED vars
      PROVE RegistryKept
    BY <1>2 DEF SetUserQuota, NewEpoch, RegistryKept, registry, clock, vars
<1> QED BY <1>1, <1>2 DEF Next, Changes, Relocks, Outside

-----------------------------------------------------------------------------
(* What changing a container does to the map of containers. *)
LEMMA RevisedInfo ==
    ASSUME RegistryTypeOK, NEW c \in DOMAIN info, NEW new \in Info, Revised(c, new)
    PROVE  /\ DOMAIN info' = DOMAIN info
           /\ info'[c] \in Info
           /\ info'[c].owner = new.owner /\ info'[c].lock = new.lock
           /\ \A x \in DOMAIN info \ {c} : info'[x] = info[x]
           /\ Partial(info', Cids, Info)
<1>1. info' = [info EXCEPT ![c] = [new EXCEPT !.revision = @ + 1]]
    BY DEF Revised
<1>2. /\ [new EXCEPT !.revision = @ + 1] \in Info
      /\ [new EXCEPT !.revision = @ + 1].owner = new.owner
      /\ [new EXCEPT !.revision = @ + 1].lock = new.lock
    BY DEF Info
<1>3. info \in [DOMAIN info -> Info] /\ DOMAIN info \subseteq Cids
    BY DEF RegistryTypeOK, Partial
<1> QED BY <1>1, <1>2, <1>3 DEF Partial

LEMMA NewInfo ==
    ASSUME RegistryTypeOK, NEW signers, NEW c \in Cids, NEW eacl,
           Create(signers, c, eacl)
    PROVE  /\ DOMAIN info' = DOMAIN info \cup {c}
           /\ info'[c] \in Info
           /\ info'[c].owner = Content[c].owner /\ info'[c].lock = Content[c].lock
           /\ \A x \in DOMAIN info \ {c} : info'[x] = info[x]
           /\ Partial(info', Cids, Info)
<1> DEFINE new == [owner |-> Content[c].owner, revision |-> 1,
                   lock |-> Content[c].lock, attrs |-> {}]
<1>1. info' = Put(info, c, new)
    BY DEF Create
<1>2. new \in Info
    BY ContainerAssumption DEF ContainerAssumption, Info
<1>3. info \in [DOMAIN info -> Info] /\ DOMAIN info \subseteq Cids
    BY DEF RegistryTypeOK, Partial
<1> QED BY <1>1, <1>2, <1>3 DEF Put, Partial

LEMMA RegistryInit == Init => RegistryTypeOK
<1> SUFFICES ASSUME Init PROVE RegistryTypeOK
    OBVIOUS
<1>1. Partial(info, Cids, Info) /\ Partial(alias, Cids, Names)
    BY DEF Init, Partial, Empty
<1>2. domains \in [Names -> Domain]
    BY DEF Init, Domain
<1> QED BY <1>1, <1>2 DEF Init, RegistryTypeOK

(* The part of the types that is about domains. *)
AliasTypes ==
    /\ Partial(alias, Cids, Names)
    /\ domains \in [Names -> Domain]
    /\ records \in [Names -> SUBSET Cids] /\ disturbed \subseteq Names

LEMMA AliasesKept ==
    ASSUME RegistryTypeOK, UNCHANGED aliases
    PROVE  AliasTypes'
  BY DEF RegistryTypeOK, AliasTypes, aliases, Partial

(* A registration is good for some time. *)
LEMMA RegisteredDomain ==
    ASSUME now \in Nat, NEW who \in Accounts \cup {Contract, Committee}
    PROVE  /\ Registered(who) \in Domain
           /\ ~(now >= Registered(who).until)
<1>1. Expire \in Nat \ {0} /\ SECOND \in Nat \ {0}
    BY ContainerAssumption DEF ContainerAssumption
<1> DEFINE term == Expire * SECOND
<1>2. term \in Nat /\ term > 0
    BY <1>1
<1>3. Registered(who) = [owner |-> who, until |-> now + term]
    BY DEF Registered
<1> HIDE DEF term
<1>4. now + term \in Nat /\ ~(now >= now + term)
    BY <1>2
<1> QED BY <1>3, <1>4 DEF Domain

LEMMA TakeNameTypes ==
    ASSUME RegistryTypeOK, NEW signers, NEW c \in Cids, NEW d \in Names,
           TakeName(signers, c, d)
    PROVE  AliasTypes'
<1>1. now \in Nat /\ domains \in [Names -> Domain]
    BY DEF RegistryTypeOK
<1>2. domains' \in [Names -> Domain]
  <2>1. Registered(Contract) \in Domain
      BY <1>1, RegisteredDomain
  <2> QED BY <1>1, <2>1 DEF TakeName
<1>3. Partial(alias', Cids, Names)
    BY DEF TakeName, Put, RegistryTypeOK, Partial
<1>4. records' \in [Names -> SUBSET Cids] /\ disturbed' \subseteq Names
    BY DEF TakeName, RegistryTypeOK
<1> QED BY <1>2, <1>3, <1>4 DEF AliasTypes, Partial

LEMMA OutsideTypes ==
    ASSUME RegistryTypeOK, NEW d \in Names, Outside(d)
    PROVE  AliasTypes'
<1>1. now \in Nat /\ domains \in [Names -> Domain] /\ Partial(alias, Cids, Names)
      /\ records \in [Names -> SUBSET Cids] /\ disturbed \subseteq Names
    BY DEF RegistryTypeOK
<1>2. UNCHANGED alias
    BY OutsideKeeps
<1>3. Strangers \subseteq Accounts /\ RecordSets \subseteq SUBSET Cids
    BY ContainerAssumption DEF ContainerAssumption
<1>4. ASSUME NEW who \in Strangers \cup {Committee}, RegisterDomain(d, who)
      PROVE AliasTypes'
  <2>1. Registered(who) \in Domain
      BY <1>1, <1>3, RegisteredDomain
  <2> QED BY <1>1, <1>2, <1>4, <2>1 DEF RegisterDomain, AliasTypes, Partial
<1>5. ASSUME NEW who \in Strangers \cup {Committee, Contract}, GiveDomain(d, who)
      PROVE AliasTypes'
  <2>1. [domains[d] EXCEPT !.owner = who] \in Domain
      BY <1>1, <1>3 DEF Domain
  <2> QED BY <1>1, <1>2, <1>5, <2>1 DEF GiveDomain, AliasTypes, Partial
<1>6. ASSUME NEW written \in RecordSets, WriteRecords(d, written)
      PROVE AliasTypes'
    BY <1>1, <1>2, <1>3, <1>6 DEF WriteRecords, AliasTypes, Partial
<1> QED BY <1>4, <1>5, <1>6 DEF Outside

LEMMA RegistryStep == RegistryTypeOK /\ [Next]_vars => RegistryTypeOK'
<1> SUFFICES ASSUME RegistryTypeOK, [Next]_vars PROVE RegistryTypeOK'
    OBVIOUS
<1>1. ASSUME NEW signers \in Signers, NEW c \in Cids, NEW eacl \in EACLs,
             Create(signers, c, eacl)
      PROVE RegistryTypeOK'
  <2>1. c \in Cids /\ Content[c].name \in Names \cup {NoName} /\ Content[c].lock \in Nat
      BY ContainerAssumption DEF ContainerAssumption
  <2>2. Partial(info', Cids, Info)
      BY <1>1, <2>1, NewInfo
  <2>3. promised' \in [Cids -> Nat]
      BY <1>1, <2>1 DEF Create, RegistryTypeOK
  <2>4. AliasTypes'
    <3>1. CASE Content[c].name = NoName
        BY <1>1, <3>1, AliasesKept DEF Create
    <3>2. CASE Content[c].name # NoName
      <4> DEFINE d == Content[c].name
      <4>1. TakeName(signers, c, d) /\ d \in Names
          BY <1>1, <3>2, <2>1 DEF Create
      <4> QED BY <2>1, <4>1, TakeNameTypes
    <3> QED BY <3>1, <3>2
  <2>5. UNCHANGED now /\ reborn' \subseteq Cids
      BY <1>1 DEF Create, clock, RegistryTypeOK
  <2> QED BY <2>2, <2>3, <2>4, <2>5 DEF RegistryTypeOK, AliasTypes, Partial
<1>2. ASSUME NEW signers \in Signers, NEW c \in Cids, Remove(signers, c)
      PROVE RegistryTypeOK'
  <2>1. LeaveName(signers, c) /\ info' = Without(info, c)
        /\ UNCHANGED <<promised, reborn, now>>
      BY <1>2 DEF Remove, clock
  <2>2. AliasTypes'
      BY <2>1 DEF LeaveName, Without, RegistryTypeOK, AliasTypes, Partial
  <2> QED BY <2>1, <2>2 DEF Without, RegistryTypeOK, AliasTypes, Partial
<1>3. ASSUME NEW signers \in Signers, NEW c \in Cids, NEW to \in Receivers,
             Transfer(signers, c, to)
      PROVE RegistryTypeOK'
  <2>1. /\ c \in DOMAIN info
        /\ Revised(c, [info[c] EXCEPT !.owner = to])
        /\ UNCHANGED <<aliases, promised, reborn, now>>
      BY <1>3 DEF Transfer, clock
  <2>2. [info[c] EXCEPT !.owner = to] \in Info
    <3>1. to \in Accounts
        BY ContainerAssumption DEF ContainerAssumption
    <3> QED BY <2>1, <3>1 DEF RegistryTypeOK, Partial, Info
  <2> QED BY <2>1, <2>2, RevisedInfo DEF RegistryTypeOK, Partial, aliases
<1>4. ASSUME NEW c \in Cids, Changes(c)
      PROVE RegistryTypeOK'
  <2>1. PICK new \in Info : /\ c \in DOMAIN info
                            /\ Revised(c, new)
                            /\ UNCHANGED <<aliases, promised, reborn, now>>
    <3>1. CASE \E signers \in Signers : PutEACL(signers, c)
        BY <3>1 DEF PutEACL, clock, RegistryTypeOK, Partial
    <3>2. ASSUME NEW signers, NEW key \in Keys, NEW validUntil,
                 \/ SetAttribute(signers, c, key, validUntil)
                 \/ RemoveAttribute(signers, c, key, validUntil)
          PROVE \E new \in Info : /\ c \in DOMAIN info
                                   /\ Revised(c, new)
                                   /\ UNCHANGED <<aliases, promised, reborn, now>>
      <4>1. /\ [info[c] EXCEPT !.attrs = @ \cup {key}] \in Info
            /\ [info[c] EXCEPT !.attrs = @ \ {key}] \in Info
            /\ c \in DOMAIN info
          BY <3>2 DEF SetAttribute, RemoveAttribute, RegistryTypeOK, Partial, Info
      <4> QED BY <3>2, <4>1 DEF SetAttribute, RemoveAttribute, clock
    <3> QED BY <1>4, <3>1, <3>2 DEF Changes
  <2> QED BY <2>1, RevisedInfo DEF RegistryTypeOK, Partial, aliases
<1>5. ASSUME NEW signers \in Signers, NEW c \in Cids, NEW until \in Locks,
             NEW validUntil \in Times, SetLock(signers, c, until, validUntil)
      PROVE RegistryTypeOK'
  <2>1. /\ c \in DOMAIN info
        /\ Revised(c, [info[c] EXCEPT !.lock = until])
        /\ promised' \in [Cids -> Nat]
        /\ UNCHANGED <<aliases, reborn, now>>
      BY <1>5, ContainerAssumption
         DEF ContainerAssumption, SetLock, clock, RegistryTypeOK
  <2>2. [info[c] EXCEPT !.lock = until] \in Info
    <3>1. until \in Nat
        BY ContainerAssumption DEF ContainerAssumption
    <3> QED BY <2>1, <3>1 DEF RegistryTypeOK, Partial, Info
  <2> QED BY <2>1, <2>2, RevisedInfo DEF RegistryTypeOK, Partial, aliases
<1>6. ASSUME NEW signers \in Signers, NEW c \in Cids, NEW validUntil \in Times,
             RemoveLock(signers, c, validUntil)
      PROVE RegistryTypeOK'
  <2>1. /\ c \in DOMAIN info
        /\ Revised(c, [info[c] EXCEPT !.lock = 0])
        /\ UNCHANGED <<aliases, promised, reborn, now>>
      BY <1>6 DEF RemoveLock, clock
  <2>2. [info[c] EXCEPT !.lock = 0] \in Info
      BY <2>1 DEF RegistryTypeOK, Partial, Info
  <2> QED BY <2>1, <2>2, RevisedInfo DEF RegistryTypeOK, Partial, aliases
<1>7. ASSUME NEW t \in Times, Block(t)
      PROVE RegistryTypeOK'
    BY <1>7, ContainerAssumption
       DEF ContainerAssumption, Block, Times, RegistryTypeOK, Partial
<1>8. CASE RegistryKept
    BY <1>8 DEF RegistryKept, RegistryTypeOK, Partial, aliases
<1>9. ASSUME NEW d \in Names, Outside(d)
      PROVE RegistryTypeOK'
  <2>1. UNCHANGED <<info, alias, promised, reborn, now>>
      BY <1>9, OutsideKeeps DEF clock
  <2>2. AliasTypes'
      BY <1>9, OutsideTypes
  <2> QED BY <2>1, <2>2 DEF RegistryTypeOK, AliasTypes, Partial
<1> QED BY <1>1, <1>2, <1>3, <1>4, <1>5, <1>6, <1>7, <1>8, <1>9, StepKinds DEF Relocks

-----------------------------------------------------------------------------
LEMMA DomainsInit == Init => Domains
  BY DEF Init, Domains, AliasesNameOne, Empty

(* The containers that have a domain as their alias, and what is to hold   *)
(* of it.                                                                  *)
Holders(d) == {c \in DOMAIN alias : alias[c] = d}
NamesOne(d) ==
    /\ records[d] = Holders(d)
    /\ \A b, c \in Holders(d) : b = c
    /\ Holders(d) # {} => ~Lapsed(d)

LEMMA AliasesAreHolders == AliasesNameOne <=> \A d \in Names \ disturbed : NamesOne(d)
  BY DEF AliasesNameOne, NamesOne, Holders

(* What does not change about a domain. *)
LEMMA NameKept ==
    ASSUME NEW d \in Names, NamesOne(d), Holders(d)' = Holders(d),
           records'[d] = records[d], domains'[d].until = domains[d].until,
           UNCHANGED now
    PROVE  NamesOne(d)'
  BY DEF NamesOne, Lapsed

LEMMA TakeNameStep ==
    ASSUME RegistryTypeOK, Domains, NEW signers, NEW c \in Cids, NEW d \in Names,
           d = Content[c].name, TakeName(signers, c, d), UNCHANGED now
    PROVE  Domains'
<1>1. /\ NameAvailable(d) /\ c \notin records[d]
      /\ domains' = IF Lapsed(d) THEN [domains EXCEPT ![d] = Registered(Contract)]
                    ELSE domains
      /\ records' = [records EXCEPT ![d] = @ \cup {c}]
      /\ alias' = Put(alias, c, d)
      /\ UNCHANGED disturbed
    BY DEF TakeName
<1>2. /\ now \in Nat /\ DOMAIN domains = Names /\ DOMAIN records = Names
    BY DEF RegistryTypeOK
<1>3. \A x \in DOMAIN alias : alias[x] = Content[x].name /\ alias[x] \in Names
    BY DEF Domains
<1>4. /\ DOMAIN alias' = DOMAIN alias \cup {c} /\ alias'[c] = d
      /\ \A x \in DOMAIN alias \ {c} : alias'[x] = alias[x]
    BY <1>1 DEF Put
<1>5. \A x \in DOMAIN alias' : alias'[x] = Content[x].name /\ alias'[x] \in Names
    BY <1>3, <1>4
<1>6. ASSUME NEW e \in Names \ disturbed' PROVE NamesOne(e)'
  <2>1. NamesOne(e)
      BY <1>1, <1>6, AliasesAreHolders DEF Domains
  <2>2. CASE e # d
    <3>1. Holders(e)' = Holders(e)
        BY <1>3, <1>4, <2>2 DEF Holders
    <3>2. records'[e] = records[e] /\ domains'[e] = domains[e]
        BY <1>1, <1>2, <2>2
    <3> QED BY <2>1, <3>1, <3>2, NameKept
  <2>3. CASE e = d
    <3>1. Holders(d) = {} /\ records[d] = {}
        BY <1>1, <2>1, <2>3 DEF NameAvailable, NamesOne
    <3>2. Holders(d)' = {c}
        BY <1>4, <3>1 DEF Holders
    <3>3. records'[d] = {c}
        BY <1>1, <1>2, <3>1
    <3>4. ~Lapsed(d)'
      <4>1. CASE Lapsed(d)
        <5>1. domains'[d] = Registered(Contract)
            BY <1>1, <1>2, <4>1
        <5>2. ~(now >= Registered(Contract).until)
            BY <1>2, RegisteredDomain
        <5> QED BY <5>1, <5>2 DEF Lapsed
      <4>2. CASE ~Lapsed(d)
          BY <1>1, <4>2 DEF Lapsed
      <4> QED BY <4>1, <4>2
    <3> QED BY <2>3, <3>2, <3>3, <3>4 DEF NamesOne
  <2> QED BY <2>2, <2>3
<1>7. AliasesNameOne'
  <2>1. (\A e \in Names \ disturbed : NamesOne(e))' => AliasesNameOne'
      BY DEF AliasesNameOne, NamesOne, Holders
  <2> QED BY <1>6, <2>1
<1> QED BY <1>5, <1>7 DEF Domains

LEMMA LeaveNameStep ==
    ASSUME RegistryTypeOK, Domains, NEW signers, NEW c, LeaveName(signers, c),
           UNCHANGED now
    PROVE  Domains'
<1>1. /\ DOMAIN alias' = DOMAIN alias \ {c}
      /\ \A x \in DOMAIN alias \ {c} : alias'[x] = alias[x]
      /\ UNCHANGED <<domains, disturbed>>
    BY DEF LeaveName, Without
<1>2. \A x \in DOMAIN alias' : alias'[x] = Content[x].name /\ alias'[x] \in Names
    BY <1>1 DEF Domains
<1>3. ASSUME NEW e \in Names \ disturbed' PROVE NamesOne(e)'
  <2>1. NamesOne(e) /\ DOMAIN records = Names
      BY <1>1, <1>3, AliasesAreHolders DEF Domains, RegistryTypeOK
  <2>2. CASE c \in DOMAIN alias /\ alias[c] = e
    <3>1. Holders(e) = {c} /\ ~Lapsed(e)
        BY <2>1, <2>2 DEF NamesOne, Holders
    <3>2. Holders(e)' = {}
        BY <1>1, <3>1 DEF Holders
    <3>3. records'[e] = {}
        BY <2>1, <2>2, <3>1 DEF LeaveName
    <3> QED BY <3>2, <3>3 DEF NamesOne
  <2>3. CASE ~(c \in DOMAIN alias /\ alias[c] = e)
    <3>1. Holders(e)' = Holders(e)
        BY <1>1, <2>3 DEF Holders
    <3>2. records'[e] = records[e]
        BY <2>1, <2>3 DEF LeaveName
    <3> QED BY <1>1, <2>1, <3>1, <3>2, NameKept
  <2> QED BY <2>2, <2>3
<1>4. AliasesNameOne'
  <2>1. (\A e \in Names \ disturbed : NamesOne(e))' => AliasesNameOne'
      BY DEF AliasesNameOne, NamesOne, Holders
  <2> QED BY <1>3, <2>1
<1> QED BY <1>2, <1>4 DEF Domains

LEMMA OutsideStep ==
    ASSUME RegistryTypeOK, Domains, NEW d \in Names, Outside(d)
    PROVE  Domains'
<1>1. UNCHANGED <<alias, now>>
    BY OutsideKeeps DEF clock
<1>2. DOMAIN records = Names /\ DOMAIN domains = Names
    BY DEF RegistryTypeOK
<1>3. disturbed \subseteq disturbed'
    BY DEF Outside, RegisterDomain, GiveDomain, WriteRecords
<1>4. ASSUME NEW e \in Names \ disturbed' PROVE NamesOne(e)'
  <2>1. NamesOne(e)
      BY <1>3, <1>4, AliasesAreHolders DEF Domains
  <2>2. Holders(e)' = Holders(e)
      BY <1>1 DEF Holders
  <2>3. UNCHANGED records
        \/ (e # d /\ records'[e] = records[e])
      BY <1>2, <1>4 DEF Outside, RegisterDomain, GiveDomain, WriteRecords
  <2>4. CASE e = d /\ Lapsed(d)
    <3>1. Holders(e) = {}
        BY <2>1, <2>4 DEF NamesOne
    <3> QED BY <2>1, <2>2, <2>3, <2>4, <3>1 DEF NamesOne
  <2>5. CASE e # d \/ ~Lapsed(d)
    <3>1. domains'[e].until = domains[e].until
      <4>1. domains[e] \in Domain
          BY DEF RegistryTypeOK
      <4>2. ASSUME NEW who, GiveDomain(d, who)
            PROVE domains'[e].until = domains[e].until
          BY <1>2, <4>1, <4>2 DEF GiveDomain, Domain
      <4>3. ASSUME NEW who, RegisterDomain(d, who)
            PROVE domains'[e].until = domains[e].until
          BY <1>2, <2>5, <4>3 DEF RegisterDomain
      <4>4. ASSUME NEW written, WriteRecords(d, written)
            PROVE domains'[e].until = domains[e].until
          BY <4>4 DEF WriteRecords
      <4> QED BY <4>2, <4>3, <4>4 DEF Outside
    <3> QED BY <1>1, <2>1, <2>2, <2>3, <3>1, NameKept
  <2> QED BY <2>4, <2>5
<1>5. AliasesNameOne'
  <2>1. (\A e \in Names \ disturbed : NamesOne(e))' => AliasesNameOne'
      BY DEF AliasesNameOne, NamesOne, Holders
  <2> QED BY <1>4, <2>1
<1> QED BY <1>1, <1>5 DEF Domains

LEMMA BlockDomains ==
    ASSUME Domains, NEW t \in Times, Block(t)
    PROVE  Domains'
<1>1. /\ UNCHANGED <<alias, domains, records>> /\ now' = t
      /\ disturbed' = disturbed \cup {d \in Names : records[d] # {} /\ domains[d].until <= t}
    BY DEF Block
<1>2. ASSUME NEW e \in Names \ disturbed' PROVE NamesOne(e)'
  <2>1. NamesOne(e)
      BY <1>1, <1>2, AliasesAreHolders DEF Domains
  <2>2. Holders(e)' = Holders(e)
      BY <1>1 DEF Holders
  <2>3. Holders(e) # {} => ~(domains[e].until <= t)
      BY <1>1, <1>2, <2>1 DEF NamesOne
  <2>4. Holders(e) # {} => ~(now' >= domains'[e].until)
      BY <1>1, <2>3
  <2> QED BY <1>1, <2>1, <2>2, <2>4 DEF NamesOne, Lapsed
<1>3. AliasesNameOne'
  <2>1. (\A e \in Names \ disturbed : NamesOne(e))' => AliasesNameOne'
      BY DEF AliasesNameOne, NamesOne, Holders
  <2> QED BY <1>2, <2>1
<1> QED BY <1>1, <1>3 DEF Domains

LEMMA DomainsStep == RegistryTypeOK /\ Domains /\ [Next]_vars => Domains'
<1> SUFFICES ASSUME RegistryTypeOK, Domains, [Next]_vars PROVE Domains'
    OBVIOUS
<1>1. ASSUME UNCHANGED <<aliases, now>> PROVE Domains'
    BY <1>1 DEF Domains, AliasesNameOne, Lapsed, aliases
<1>2. ASSUME NEW signers \in Signers, NEW c \in Cids, NEW eacl \in EACLs,
             Create(signers, c, eacl)
      PROVE Domains'
  <2>1. UNCHANGED now
      BY <1>2 DEF Create, clock
  <2>2. CASE Content[c].name = NoName
      BY <1>1, <1>2, <2>1, <2>2 DEF Create
  <2>3. CASE Content[c].name # NoName
    <3> DEFINE d == Content[c].name
    <3>1. TakeName(signers, c, d)
        BY <1>2, <2>3 DEF Create
    <3>2. d \in Names
        BY <2>3, ContainerAssumption DEF ContainerAssumption
    <3> QED BY <2>1, <3>1, <3>2, TakeNameStep
  <2> QED BY <2>2, <2>3
<1>3. ASSUME NEW signers \in Signers, NEW c \in Cids, Remove(signers, c)
      PROVE Domains'
  <2>1. LeaveName(signers, c) /\ UNCHANGED now
      BY <1>3 DEF Remove, clock
  <2> QED BY <2>1, LeaveNameStep
<1>4. ASSUME NEW c \in Cids, \/ Changes(c) \/ Relocks(c)
                             \/ \E signers \in Signers, to \in Receivers :
                                   Transfer(signers, c, to)
      PROVE UNCHANGED <<aliases, now>>
    BY <1>4 DEF Changes, Relocks, PutEACL, SetAttribute, RemoveAttribute,
                SetLock, RemoveLock, Transfer, clock
<1>5. RegistryKept => UNCHANGED <<aliases, now>>
    BY DEF RegistryKept
<1> QED BY <1>1, <1>2, <1>3, <1>4, <1>5, OutsideStep, BlockDomains, StepKinds

(* A domain names one container, the one that has it as its alias, through *)
(* creations, removals and attempts to take a domain that is in use: any   *)
(* domain that never lapsed while it had records and whose records nobody  *)
(* else wrote, whoever else registers domains and gives them away.         *)
THEOREM AliasesAreExact == Spec => []AliasesNameOne
<1>1. Domains => AliasesNameOne
    BY DEF Domains
<1>2. RegistryTypeOK /\ Domains /\ [Next]_vars => (RegistryTypeOK /\ Domains)'
    BY RegistryStep, DomainsStep
<1> QED BY RegistryInit, DomainsInit, <1>1, <1>2, PTL DEF Spec

-----------------------------------------------------------------------------
(* Attributes and ACLs change neither owners nor locks. *)
LEMMA ChangesKeepOwnersAndLocks ==
    ASSUME RegistryTypeOK, NEW c \in Cids, Changes(c)
    PROVE  /\ DOMAIN info' = DOMAIN info
           /\ \A x \in DOMAIN info : /\ info'[x].owner = info[x].owner
                                     /\ info'[x].lock = info[x].lock
           /\ UNCHANGED <<index, deleted, promised, reborn, now>>
<1>1. PICK new \in Info : /\ c \in DOMAIN info
                          /\ new.owner = info[c].owner /\ new.lock = info[c].lock
                          /\ Revised(c, new)
                          /\ UNCHANGED <<index, deleted, promised, reborn, now>>
  <2>1. CASE \E signers \in Signers : PutEACL(signers, c)
      BY <2>1 DEF PutEACL, clock, RegistryTypeOK, Partial
  <2>2. ASSUME NEW signers, NEW key \in Keys, NEW validUntil,
               \/ SetAttribute(signers, c, key, validUntil)
               \/ RemoveAttribute(signers, c, key, validUntil)
        PROVE \E new \in Info : /\ c \in DOMAIN info
                                 /\ new.owner = info[c].owner
                                 /\ new.lock = info[c].lock
                                 /\ Revised(c, new)
                                 /\ UNCHANGED <<index, deleted, promised, reborn, now>>
    <3> DEFINE more == [info[c] EXCEPT !.attrs = @ \cup {key}]
               less == [info[c] EXCEPT !.attrs = @ \ {key}]
    <3>1. /\ more \in Info /\ more.owner = info[c].owner /\ more.lock = info[c].lock
          /\ less \in Info /\ less.owner = info[c].owner /\ less.lock = info[c].lock
          /\ c \in DOMAIN info
        BY <2>2 DEF SetAttribute, RemoveAttribute, RegistryTypeOK, Partial, Info
    <3>2. /\ Revised(c, more) \/ Revised(c, less)
          /\ UNCHANGED <<index, deleted, promised, reborn, now>>
        BY <2>2 DEF SetAttribute, RemoveAttribute, clock
    <3>3. PICK new \in {more, less} : Revised(c, new)
        BY <3>2
    <3> HIDE DEF more, less
    <3>4. new \in Info /\ new.owner = info[c].owner /\ new.lock = info[c].lock
        BY <3>1, <3>3
    <3> QED BY <3>1, <3>2, <3>3, <3>4
  <2> QED BY <2>1, <2>2 DEF Changes
<1> QED BY <1>1, RevisedInfo

(* The index lists pairs, and the right ones. *)
Indexed == index \subseteq Accounts \X Cids /\ OwnersIndexed

LEMMA IndexStep ==
    ASSUME RegistryTypeOK, Indexed, [Next]_vars
    PROVE  Indexed'
<1> USE DEF Indexed, OwnersIndexed, OwnerOf
<1>1. ASSUME NEW signers \in Signers, NEW c \in Cids, NEW eacl \in EACLs,
             Create(signers, c, eacl)
      PROVE Indexed'
  <2>1. index' = index \cup {<<Content[c].owner, c>>} /\ Content[c].owner \in Accounts
      BY <1>1, ContainerAssumption DEF ContainerAssumption, Create
  <2>2. /\ DOMAIN info' = DOMAIN info \cup {c}
        /\ info'[c].owner = Content[c].owner
        /\ \A x \in DOMAIN info \ {c} : info'[x] = info[x]
      BY <1>1, NewInfo
  <2>3. reborn' = IF c \in DOMAIN info /\ info[c].owner # Content[c].owner
                  THEN reborn \cup {c} ELSE reborn
      BY <1>1 DEF Create
  <2>4. ASSUME NEW p \in index'
        PROVE p[2] \in reborn' \/ (p[2] \in DOMAIN info' /\ p[1] = info'[p[2]].owner)
    <3>1. CASE p = <<Content[c].owner, c>>
        BY <2>2, <3>1
    <3>2. CASE p \in index
        BY <2>2, <2>3, <3>2
    <3> QED BY <2>1, <3>1, <3>2
  <2> QED BY <2>1, <2>2, <2>4
<1>2. ASSUME NEW signers \in Signers, NEW c \in Cids, Remove(signers, c)
      PROVE Indexed'
    BY <1>2 DEF Remove, Without
<1>3. ASSUME NEW signers \in Signers, NEW c \in Cids, NEW to \in Receivers,
             Transfer(signers, c, to)
      PROVE Indexed'
  <2>1. /\ c \in DOMAIN info /\ to \in Accounts
        /\ Revised(c, [info[c] EXCEPT !.owner = to])
        /\ index' = (index \ {<<info[c].owner, c>>}) \cup {<<to, c>>}
        /\ UNCHANGED reborn
      BY <1>3, ContainerAssumption DEF ContainerAssumption, Transfer, Reindexed
  <2>2. /\ [info[c] EXCEPT !.owner = to] \in Info
        /\ [info[c] EXCEPT !.owner = to].owner = to
      BY <2>1 DEF RegistryTypeOK, Partial, Info
  <2>3. /\ DOMAIN info' = DOMAIN info /\ info'[c].owner = to
        /\ \A x \in DOMAIN info \ {c} : info'[x] = info[x]
      BY <2>1, <2>2, RevisedInfo
  <2> QED BY <2>1, <2>3
<1>4. ASSUME NEW c \in Cids, Changes(c)
      PROVE Indexed'
    BY <1>4, ChangesKeepOwnersAndLocks
<1>5. ASSUME NEW signers \in Signers, NEW c \in Cids, NEW lock \in Nat,
             c \in DOMAIN info, Revised(c, [info[c] EXCEPT !.lock = lock]),
             UNCHANGED <<index, reborn>>
      PROVE Indexed'
  <2>1. /\ [info[c] EXCEPT !.lock = lock] \in Info
        /\ [info[c] EXCEPT !.lock = lock].owner = info[c].owner
      BY <1>5 DEF RegistryTypeOK, Partial, Info
  <2>2. /\ DOMAIN info' = DOMAIN info
        /\ \A x \in DOMAIN info : info'[x].owner = info[x].owner
      BY <1>5, <2>1, RevisedInfo
  <2> QED BY <1>5, <2>2
<1>6. ASSUME NEW c \in Cids, Relocks(c)
      PROVE Indexed'
  <2>1. Locks \subseteq Nat
      BY ContainerAssumption DEF ContainerAssumption
  <2> QED BY <1>5, <1>6, <2>1 DEF Relocks, SetLock, RemoveLock
<1>7. (\E t \in Times : Block(t)) \/ RegistryKept => UNCHANGED <<info, index, reborn>>
    BY DEF Block, RegistryKept
<1>8. ASSUME NEW d \in Names, Outside(d)
      PROVE Indexed'
    BY <1>8, OutsideKeeps
<1> QED BY <1>1, <1>2, <1>3, <1>4, <1>6, <1>7, <1>8, StepKinds

(* The index behind BalanceOf and TokensOf lists each container under its  *)
(* owner, and under nobody else, unless it was created again while         *)
(* somebody else than its creator owned it, which CreateV2 lets happen.    *)
THEOREM OwnersAreIndexed == Spec => []OwnersIndexed
<1>1. Init => RegistryTypeOK /\ Indexed
    BY RegistryInit DEF Init, Indexed, OwnersIndexed, Empty
<1>2. RegistryTypeOK /\ Indexed /\ [Next]_vars => (RegistryTypeOK /\ Indexed)'
    BY RegistryStep, IndexStep
<1>3. Indexed => OwnersIndexed
    BY DEF Indexed
<1> QED BY <1>1, <1>2, <1>3, PTL DEF Spec

-----------------------------------------------------------------------------
LEMMA LaterLock ==
    ASSUME NEW a \in Nat, NEW b \in Nat, a <= b
    PROVE  a * SECOND <= b * SECOND
<1>1. SECOND \in Nat
    BY ContainerAssumption DEF ContainerAssumption
<1>2. PICK d \in Nat : b = a + d
    BY b - a \in Nat
<1>3. b * SECOND = a * SECOND + d * SECOND /\ d * SECOND \in Nat /\ a * SECOND \in Nat
    BY <1>1, <1>2
<1> QED BY <1>3

LEMMA PromisesStep ==
    ASSUME RegistryTypeOK, Promises, [Next]_vars
    PROVE  Promises'
<1> USE DEF Promises
<1>a. SECOND \in Nat /\ Locks \subseteq Nat /\ \A c \in Cids : Content[c].lock \in Nat
    BY ContainerAssumption DEF ContainerAssumption
<1>b. /\ DOMAIN info \subseteq Cids
      /\ \A c \in DOMAIN info : info[c].lock \in Nat
      /\ promised \in [Cids -> Nat] /\ now \in Nat
    BY DEF RegistryTypeOK, Partial, Info
<1>1. ASSUME NEW signers \in Signers, NEW c \in Cids, NEW eacl \in EACLs,
             Create(signers, c, eacl)
      PROVE Promises'
  <2>1. /\ DOMAIN info' = DOMAIN info \cup {c}
        /\ info'[c].lock = Content[c].lock
        /\ \A x \in DOMAIN info \ {c} : info'[x] = info[x]
      BY <1>1, NewInfo
  <2>2. promised' = [promised EXCEPT ![c] = Content[c].lock] /\ UNCHANGED now
      BY <1>1 DEF Create, clock
  <2> QED BY <2>1, <2>2, <1>b
<1>2. ASSUME NEW signers \in Signers, NEW c \in Cids, Remove(signers, c)
      PROVE Promises'
  <2>1. /\ DOMAIN info' = DOMAIN info \ {c}
        /\ \A x \in DOMAIN info' : info'[x] = info[x]
        /\ UNCHANGED <<promised, now>>
      BY <1>2 DEF Remove, Without, clock
  <2> QED BY <2>1
<1>3. ASSUME NEW signers \in Signers, NEW c \in Cids, NEW to \in Receivers,
             Transfer(signers, c, to)
      PROVE Promises'
  <2>1. /\ c \in DOMAIN info
        /\ Revised(c, [info[c] EXCEPT !.owner = to])
        /\ UNCHANGED <<promised, now>>
      BY <1>3 DEF Transfer, clock
  <2>2. /\ [info[c] EXCEPT !.owner = to] \in Info
        /\ [info[c] EXCEPT !.owner = to].lock = info[c].lock
    <3>1. to \in Accounts
        BY ContainerAssumption DEF ContainerAssumption
    <3> QED BY <2>1, <3>1 DEF RegistryTypeOK, Partial, Info
  <2>3. /\ DOMAIN info' = DOMAIN info
        /\ \A x \in DOMAIN info : info'[x].lock = info[x].lock
      BY <2>1, <2>2, RevisedInfo
  <2> QED BY <2>1, <2>3
<1>4. ASSUME NEW c \in Cids, Changes(c)
      PROVE Promises'
    BY <1>4, ChangesKeepOwnersAndLocks
<1>5. ASSUME NEW signers \in Signers, NEW c \in Cids, NEW until \in Locks,
             NEW validUntil \in Times, SetLock(signers, c, until, validUntil)
      PROVE Promises'
  <2>1. /\ c \in DOMAIN info /\ until \in Nat /\ until > 0 /\ until * SECOND > now
        /\ info[c].lock # 0 => until > info[c].lock
        /\ Revised(c, [info[c] EXCEPT !.lock = until])
        /\ promised' = [promised EXCEPT ![c] = IF until > @ THEN until ELSE @]
        /\ UNCHANGED now
      BY <1>5, <1>a DEF SetLock, clock
  <2>2. until > promised[c]
    <3>1. SUFFICES ASSUME until <= promised[c] PROVE FALSE
        BY <2>1, <1>b
    <3>2. promised[c] * SECOND > now
      <4>1. promised[c] \in Nat
          BY <1>b
      <4>2. until * SECOND <= promised[c] * SECOND
          BY <3>1, <2>1, <4>1, LaterLock
      <4>3. until * SECOND \in Nat /\ promised[c] * SECOND \in Nat
          BY <2>1, <4>1, <1>a
      <4> QED BY <4>2, <4>3, <2>1, <1>b
    <3>3. promised[c] = info[c].lock
      <4>1. promised[c] * SECOND \in Nat
          BY <1>a, <1>b
      <4>2. ~(promised[c] * SECOND <= now)
          BY <4>1, <3>2, <1>b
      <4> QED BY <4>2, <2>1
    <3> QED BY <3>1, <3>3, <2>1, <1>b
  <2>3. /\ [info[c] EXCEPT !.lock = until] \in Info
        /\ [info[c] EXCEPT !.lock = until].lock = until
      BY <2>1 DEF RegistryTypeOK, Partial, Info
  <2>4. /\ DOMAIN info' = DOMAIN info /\ info'[c].lock = until
        /\ \A x \in DOMAIN info \ {c} : info'[x] = info[x]
      BY <2>1, <2>3, RevisedInfo
  <2>5. promised'[c] = until /\ \A x \in Cids \ {c} : promised'[x] = promised[x]
      BY <2>1, <2>2, <1>b
  <2> QED BY <2>1, <2>4, <2>5, <1>b
<1>6. ASSUME NEW signers \in Signers, NEW c \in Cids, NEW validUntil \in Times,
             RemoveLock(signers, c, validUntil)
      PROVE Promises'
  <2>1. /\ c \in DOMAIN info /\ info[c].lock * SECOND <= now
        /\ Revised(c, [info[c] EXCEPT !.lock = 0])
        /\ UNCHANGED <<promised, now>>
      BY <1>6 DEF RemoveLock, clock
  <2>2. [info[c] EXCEPT !.lock = 0] \in Info
      BY <2>1 DEF RegistryTypeOK, Partial, Info
  <2>3. /\ DOMAIN info' = DOMAIN info
        /\ \A x \in DOMAIN info \ {c} : info'[x] = info[x]
      BY <2>1, <2>2, RevisedInfo
  <2>4. promised[c] * SECOND <= now
      BY <2>1
  <2> QED BY <2>1, <2>3, <2>4
<1>7. ASSUME NEW t \in Times, Block(t)
      PROVE Promises'
  <2>1. /\ UNCHANGED <<info, promised>>
        /\ t \in Nat /\ now' = t /\ now < t
      BY <1>7, ContainerAssumption DEF ContainerAssumption, Block, Times
  <2>2. ASSUME NEW c \in DOMAIN info, promised[c] # info[c].lock
        PROVE promised[c] * SECOND <= t
    <3>1. promised[c] * SECOND <= now /\ promised[c] * SECOND \in Nat
        BY <2>2, <1>a, <1>b
    <3> QED BY <3>1, <2>1, <1>b
  <2> QED BY <2>1, <2>2
<1>8. CASE RegistryKept
    BY <1>8 DEF RegistryKept
<1>9. ASSUME NEW d \in Names, Outside(d)
      PROVE Promises'
    BY <1>9, OutsideKeeps DEF clock
<1> QED BY <1>1, <1>2, <1>3, <1>4, <1>5, <1>6, <1>7, <1>8, <1>9, StepKinds DEF Relocks

LEMMA OnlyRemoveRemoves ==
    ASSUME RegistryTypeOK, [Next]_vars,
           NEW c \in DOMAIN info \ DOMAIN info'
    PROVE  ~Locked(c)
<1>1. ASSUME NEW signers \in Signers, NEW d \in Cids, NEW eacl \in EACLs,
             Create(signers, d, eacl)
      PROVE FALSE
    BY <1>1, NewInfo
<1>2. ASSUME NEW signers \in Signers, NEW d \in Cids, Remove(signers, d)
      PROVE ~Locked(c)
    BY <1>2 DEF Remove, Without
<1>3. ASSUME NEW d \in Cids, \/ Changes(d) \/ Relocks(d)
                             \/ \E signers \in Signers, to \in Receivers :
                                   Transfer(signers, d, to)
      PROVE FALSE
  <2>1. DOMAIN info' = DOMAIN info
      BY <1>3 DEF Changes, Relocks, PutEACL, SetAttribute, RemoveAttribute,
                  SetLock, RemoveLock, Transfer, Revised
  <2> QED BY <2>1
<1>4. CASE (\E t \in Times : Block(t)) \/ RegistryKept \/ \E d \in Names : Outside(d)
    BY <1>4, OutsideKeeps DEF Block, RegistryKept
<1> QED BY <1>1, <1>2, <1>3, <1>4, StepKinds

(* A container is not removed before the latest time it was locked until   *)
(* since it was created, or created again, whatever is done to its         *)
(* attributes and its owner.                                               *)
THEOREM LocksHold == Spec => LockHolds
<1>1. Init => RegistryTypeOK /\ Promises
    BY RegistryInit DEF Init, Promises, Empty
<1>2. RegistryTypeOK /\ Promises /\ [Next]_vars => (RegistryTypeOK /\ Promises)'
    BY RegistryStep, PromisesStep
<1>3. RegistryTypeOK /\ Promises /\ [Next]_vars
        => [\A c \in DOMAIN info \ DOMAIN info' : now >= promised[c] * SECOND]_vars
  <2> SUFFICES ASSUME RegistryTypeOK, Promises, [Next]_vars,
                      NEW c \in DOMAIN info \ DOMAIN info'
               PROVE  now >= promised[c] * SECOND
      OBVIOUS
  <2>1. ~Locked(c)
      BY OnlyRemoveRemoves
  <2>2. /\ info[c].lock \in Nat /\ c \in Cids /\ promised[c] \in Nat
        /\ now \in Nat /\ SECOND \in Nat /\ promised[c] * SECOND \in Nat
      BY ContainerAssumption DEF ContainerAssumption, RegistryTypeOK, Partial, Info
  <2>3. CASE promised[c] # info[c].lock
      BY <2>2, <2>3 DEF Promises
  <2>4. CASE promised[c] = info[c].lock
      BY <2>1, <2>2, <2>4 DEF Locked
  <2> QED BY <2>3, <2>4
<1> QED BY <1>1, <1>2, <1>3, PTL DEF Spec, LockHolds

-----------------------------------------------------------------------------
(* What the sums are about: finitely many reports and summaries, the       *)
(* summaries of containers that exist.                                     *)
LoadTypes ==
    /\ Partial(reports, Cids \X Nodes, NodeReport)
    /\ Partial(summary, Cids, NodeReportSummary)
    /\ taken \in [Accounts -> Nat]
    /\ IsFiniteSet(DOMAIN reports) /\ IsFiniteSet(DOMAIN summary)
    /\ DOMAIN summary \subseteq DOMAIN info
LoadInv == RegistryTypeOK /\ LoadTypes /\ SummaryIsSum /\ TakenSpaceIsSum

(* The containers whose summaries make up the space of a user. *)
Owned(u) == {c \in DOMAIN summary \cap DOMAIN info : OwnerOf(c) = u}
SummedSize == [c \in DOMAIN summary |-> summary[c].size]

LEMMA LoadInit == Init => LoadInv
<1> SUFFICES ASSUME Init PROVE LoadInv
    OBVIOUS
<1>1. /\ info = Empty /\ reports = Empty /\ summary = Empty
      /\ taken = [a \in Accounts |-> 0]
    BY DEF Init
<1>2. DOMAIN Empty = {} /\ IsFiniteSet({})
    BY FS_EmptySet DEF Empty
<1>3. LoadTypes
    BY <1>1, <1>2 DEF LoadTypes, Partial, Empty
<1>4. SummaryIsSum
    BY <1>1, <1>2 DEF SummaryIsSum
<1>5. ASSUME NEW u \in Accounts PROVE taken[u] = SpaceOf(u)
  <2>1. Owned(u) = {}
      BY <1>1, <1>2 DEF Owned
  <2>2. SpaceOf(u) = 0
      BY <2>1, SumEmpty DEF SpaceOf, Owned
  <2> QED BY <1>1, <2>2
<1> QED BY <1>3, <1>4, <1>5, RegistryInit DEF LoadInv, TakenSpaceIsSum

(* The reports of a container are finitely many, and they tell numbers.    *)
LEMMA ReportFacts ==
    ASSUME LoadTypes, NEW c
    PROVE  /\ IsFiniteSet(ReportsOf(c))
           /\ \A p \in DOMAIN reports : /\ SizeOf[p] = reports[p].size
                                        /\ SizeOf[p] \in Nat
                                        /\ ObjectsOf[p] = reports[p].objs
                                        /\ ObjectsOf[p] \in Nat
           /\ SumFunctionOnSet(SizeOf, ReportsOf(c)) \in Nat
           /\ SumFunctionOnSet(ObjectsOf, ReportsOf(c)) \in Nat
<1>1. ReportsOf(c) \subseteq DOMAIN reports
    BY DEF ReportsOf
<1>2. IsFiniteSet(ReportsOf(c))
    BY <1>1, FS_Subset DEF LoadTypes
<1>3. \A p \in DOMAIN reports : reports[p] \in NodeReport
    BY DEF LoadTypes, Partial
<1>4. \A p \in DOMAIN reports : /\ SizeOf[p] = reports[p].size
                                /\ SizeOf[p] \in Nat
                                /\ ObjectsOf[p] = reports[p].objs
                                /\ ObjectsOf[p] \in Nat
    BY <1>3 DEF SizeOf, ObjectsOf, NodeReport
<1>5. /\ SumFunctionOnSet(SizeOf, ReportsOf(c)) \in Nat
      /\ SumFunctionOnSet(ObjectsOf, ReportsOf(c)) \in Nat
    BY <1>1, <1>2, <1>4, SumNat
<1> QED BY <1>2, <1>4, <1>5

(* Summaries are never negative, nor is what they add up to.               *)
SpaceFacts ==
    /\ \A c \in DOMAIN summary : /\ SummedSize[c] = summary[c].size
                                 /\ SummedSize[c] \in Nat
    /\ \A u : /\ IsFiniteSet(Owned(u)) /\ Owned(u) \subseteq DOMAIN summary
              /\ SpaceOf(u) = SumFunctionOnSet(SummedSize, Owned(u))
              /\ SpaceOf(u) \in Nat

LEMMA SpaceIsNat == LoadTypes /\ SummaryIsSum => SpaceFacts
<1> SUFFICES ASSUME LoadTypes, SummaryIsSum PROVE SpaceFacts
    OBVIOUS
<1>1. ASSUME NEW c \in DOMAIN summary
      PROVE  SummedSize[c] = summary[c].size /\ SummedSize[c] \in Nat
  <2>1. summary[c].size = SumFunctionOnSet(SizeOf, ReportsOf(c))
      BY DEF SummaryIsSum
  <2> QED BY <2>1, ReportFacts DEF SummedSize
<1>2. ASSUME NEW u
      PROVE  /\ IsFiniteSet(Owned(u)) /\ Owned(u) \subseteq DOMAIN summary
             /\ SpaceOf(u) = SumFunctionOnSet(SummedSize, Owned(u))
             /\ SpaceOf(u) \in Nat
  <2>1. Owned(u) \subseteq DOMAIN summary
      BY DEF Owned
  <2>2. IsFiniteSet(Owned(u))
      BY <2>1, FS_Subset DEF LoadTypes
  <2>3. SpaceOf(u) = SumFunctionOnSet(SummedSize, Owned(u))
      BY DEF SpaceOf, SummedSize, Owned
  <2>4. SumFunctionOnSet(SummedSize, Owned(u)) \in Nat
      BY <1>1, <2>1, <2>2, SumNat
  <2> QED BY <2>1, <2>2, <2>3, <2>4
<1> QED BY <1>1, <1>2 DEF SpaceFacts

(* Adding to the space of a user what keeps it from being negative.        *)
LEMMA AddSpaceType ==
    ASSUME NEW t \in [Accounts -> Nat], NEW u \in Accounts, NEW diff \in Int
    PROVE  AddSpace(t, u, diff) \in [Accounts -> Nat]
  BY DEF AddSpace

LEMMA AddSpaceExact ==
    ASSUME NEW t \in [Accounts -> Nat], NEW u, NEW diff \in Int, NEW a \in Accounts
    PROVE  /\ a # u => AddSpace(t, u, diff)[a] = t[a]
           /\ a = u /\ t[u] + diff >= 0 => AddSpace(t, u, diff)[a] = t[u] + diff
  BY DEF AddSpace

-----------------------------------------------------------------------------
(* Steps that leave reports, summaries and the owners of the summed ones.  *)
LEMMA LoadKept ==
    ASSUME LoadInv, RegistryTypeOK', UNCHANGED <<reports, summary, taken>>,
           DOMAIN summary \subseteq DOMAIN info',
           ~skewed' => /\ ~skewed
                       /\ \A c \in DOMAIN summary : info'[c].owner = info[c].owner
    PROVE  LoadInv'
<1> USE DEF LoadInv
<1>1. LoadTypes'
    BY DEF LoadTypes, Partial
<1>2. SummaryIsSum'
    BY DEF SummaryIsSum, SizeOf, ObjectsOf, ReportsOf
<1>3. ASSUME ~skewed', NEW u \in Accounts PROVE taken'[u] = SpaceOf(u)'
  <2>1. Owned(u)' = Owned(u)
      BY <1>3 DEF Owned, OwnerOf, LoadTypes
  <2>2. SummedSize' = SummedSize
      BY DEF SummedSize
  <2>3. SpaceOf(u)' = SumFunctionOnSet(SummedSize', Owned(u)')
      BY DEF SpaceOf, SummedSize, Owned
  <2>4. SpaceOf(u) = SumFunctionOnSet(SummedSize, Owned(u))
      BY DEF SpaceOf, SummedSize, Owned
  <2>5. taken[u] = SpaceOf(u)
      BY <1>3 DEF TakenSpaceIsSum
  <2> QED BY <2>1, <2>2, <2>3, <2>4, <2>5
<1> QED BY <1>1, <1>2, <1>3 DEF TakenSpaceIsSum

(* A summary that changes with the space of the owner.                     *)
LEMMA SpaceFollows ==
    ASSUME LoadInv, LoadTypes', SummaryIsSum', NEW c \in DOMAIN info,
           UNCHANGED <<info, skewed>>,
           NEW new, summary' = Put(summary, c, new), NEW diff \in Int,
           new.size = (IF c \in DOMAIN summary THEN summary[c].size ELSE 0) + diff,
           taken' = AddSpace(taken, OwnerOf(c), diff)
    PROVE  TakenSpaceIsSum'
<1>1. SUFFICES ASSUME ~skewed, NEW u \in Accounts
               PROVE  taken'[u] = SpaceOf(u)'
    BY DEF TakenSpaceIsSum
<1> DEFINE w == SummedSize
           v == SummedSize'
           S == Owned(u)
           o == OwnerOf(c)
<1>1a. SpaceFacts
    BY SpaceIsNat DEF LoadInv
<1>1b. SpaceFacts'
  <2>1. (LoadTypes /\ SummaryIsSum => SpaceFacts)'
      BY SpaceIsNat, PTL
  <2> QED BY <2>1
<1>2. /\ \A x \in DOMAIN summary : w[x] = summary[x].size /\ w[x] \in Nat
      /\ IsFiniteSet(S) /\ S \subseteq DOMAIN summary
      /\ SpaceOf(u) = SumFunctionOnSet(w, S) /\ SpaceOf(u) \in Nat
    BY <1>1a DEF SpaceFacts
<1>3. /\ \A x \in DOMAIN summary' : v[x] = summary'[x].size /\ v[x] \in Nat
      /\ SpaceOf(u)' = SumFunctionOnSet(v, Owned(u)') /\ SpaceOf(u)' \in Nat
    BY <1>1b DEF SpaceFacts
<1>4. /\ DOMAIN summary' = DOMAIN summary \cup {c}
      /\ summary'[c] = new
      /\ \A x \in DOMAIN summary \ {c} : summary'[x] = summary[x]
    BY DEF Put
<1>5. o \in Accounts /\ taken \in [Accounts -> Nat] /\ taken[u] = SpaceOf(u)
    BY <1>1 DEF LoadInv, LoadTypes, TakenSpaceIsSum, RegistryTypeOK, Partial, Info,
                OwnerOf
<1>6. \A x \in S : w[x] \in Int
    BY <1>2
<1>7. \A x \in DOMAIN summary \ {c} : v[x] = w[x]
    BY <1>2, <1>3, <1>4
<1>8. CASE u # o
  <2>1. Owned(u)' = S /\ c \notin S
      BY <1>4, <1>8 DEF Owned, OwnerOf
  <2>2. \A x \in S : v[x] = w[x]
      BY <1>2, <1>7, <2>1
  <2>3. SumFunctionOnSet(v, S) = SumFunctionOnSet(w, S)
      BY <1>2, <1>6, <2>2, SumAgree
  <2>4. taken'[u] = taken[u]
      BY <1>5, <1>8, AddSpaceExact
  <2> QED BY <1>2, <1>3, <1>5, <2>1, <2>3, <2>4
<1>9. CASE u = o
  <2>1. Owned(u)' = S \cup {c} /\ (c \in S <=> c \in DOMAIN summary)
      BY <1>4, <1>9 DEF Owned, OwnerOf, LoadInv, LoadTypes
  <2>2. v[c] = new.size /\ v[c] \in Int
      BY <1>3, <1>4
  <2>3. \A x \in S \ {c} : v[x] = w[x]
      BY <1>2, <1>7
  <2>4. SumFunctionOnSet(v, S \cup {c})
           = SumFunctionOnSet(w, S) + v[c] - (IF c \in S THEN w[c] ELSE 0)
    <3>1. IsFiniteSet(S)
        BY <1>2
    <3>2. v[c] \in Int
        BY <2>2
    <3> HIDE DEF v, w, S
    <3> QED BY <3>1, <3>2, <1>6, <2>3, SumPut
  <2>5. v[c] = (IF c \in S THEN w[c] ELSE 0) + diff
      BY <1>2, <2>1, <2>2
  <2>6. (IF c \in S THEN w[c] ELSE 0) \in Int
      BY <1>6
  <2>7. SpaceOf(u)' = SpaceOf(u) + diff
      BY <1>2, <1>3, <2>1, <2>2, <2>4, <2>5, <2>6
  <2>8. taken[u] + diff >= 0
      BY <1>3, <1>5, <2>7
  <2>9. taken'[u] = taken[u] + diff
      BY <1>5, <1>9, <2>8, AddSpaceExact
  <2> QED BY <1>5, <2>7, <2>9
<1> QED BY <1>8, <1>9

(* Reports of other containers do not matter.                              *)
LEMMA OtherReports ==
    ASSUME LoadTypes, NEW c,
           \A p : p[1] = c => /\ p \in DOMAIN reports' <=> p \in DOMAIN reports
                              /\ p \in DOMAIN reports => reports'[p] = reports[p]
    PROVE  /\ ReportsOf(c)' = ReportsOf(c)
           /\ SumFunctionOnSet(SizeOf, ReportsOf(c))' = SumFunctionOnSet(SizeOf, ReportsOf(c))
           /\ SumFunctionOnSet(ObjectsOf, ReportsOf(c))'
                 = SumFunctionOnSet(ObjectsOf, ReportsOf(c))
<1>1. ReportsOf(c)' = ReportsOf(c)
    BY DEF ReportsOf
<1> DEFINE S == ReportsOf(c)
<1>2. IsFiniteSet(S)
    BY ReportFacts
<1>3. \A p \in S : SizeOf[p] \in Int /\ ObjectsOf[p] \in Int
  <2>1. \A p \in DOMAIN reports : SizeOf[p] \in Nat /\ ObjectsOf[p] \in Nat
      BY ReportFacts
  <2> QED BY <2>1 DEF ReportsOf
<1>4. \A p \in S : SizeOf'[p] = SizeOf[p] /\ ObjectsOf'[p] = ObjectsOf[p]
    BY DEF ReportsOf, SizeOf, ObjectsOf
<1>5. /\ SumFunctionOnSet(SizeOf', S) = SumFunctionOnSet(SizeOf, S)
      /\ SumFunctionOnSet(ObjectsOf', S) = SumFunctionOnSet(ObjectsOf, S)
  <2> HIDE DEF S
  <2>1. SumFunctionOnSet(SizeOf', S) = SumFunctionOnSet(SizeOf, S)
      BY <1>2, <1>3, <1>4, SumAgree
  <2>2. SumFunctionOnSet(ObjectsOf', S) = SumFunctionOnSet(ObjectsOf, S)
      BY <1>2, <1>3, <1>4, SumAgree
  <2> QED BY <2>1, <2>2
<1> QED BY <1>1, <1>5

LEMMA RemoveLoad ==
    ASSUME LoadInv, RegistryTypeOK', NEW signers, NEW c \in Cids, Remove(signers, c)
    PROVE  LoadInv'
<1> USE DEF LoadInv
<1> DEFINE o == OwnerOf(c)
<1>1. /\ c \in DOMAIN info /\ o \in Accounts
      /\ taken' = IF c \in DOMAIN summary
                  THEN AddSpace(taken, o, -summary[c].size) ELSE taken
      /\ DOMAIN info' = DOMAIN info \ {c}
      /\ \A x \in DOMAIN info' : info'[x] = info[x]
      /\ DOMAIN summary' = DOMAIN summary \ {c}
      /\ \A x \in DOMAIN summary' : summary'[x] = summary[x]
      /\ summary' = [x \in DOMAIN summary \ {c} |-> summary[x]]
      /\ DOMAIN reports' = {q \in DOMAIN reports : ~(q[1] = c /\ q[2] \in Nodes)}
      /\ \A q \in DOMAIN reports' : reports'[q] = reports[q]
      /\ reports' = [q \in DOMAIN reports' |-> reports[q]]
      /\ UNCHANGED skewed
    BY DEF Remove, Without, DropNodes, RegistryTypeOK, Partial, Info, OwnerOf
<1>2. SpaceFacts
    BY SpaceIsNat
<1>3. LoadTypes'
  <2>1. Partial(reports, Cids \X Nodes, NodeReport)'
      BY <1>1 DEF LoadTypes, Partial
  <2>2. Partial(summary, Cids, NodeReportSummary)'
      BY <1>1 DEF LoadTypes, Partial
  <2>3. taken' \in [Accounts -> Nat]
    <3>1. c \in DOMAIN summary => -summary[c].size \in Int
        BY <1>2 DEF SpaceFacts
    <3> QED BY <1>1, <3>1, AddSpaceType DEF LoadTypes
  <2>4. DOMAIN reports' \subseteq DOMAIN reports /\ DOMAIN summary' \subseteq DOMAIN summary
      BY <1>1
  <2>5. IsFiniteSet(DOMAIN reports') /\ IsFiniteSet(DOMAIN summary')
      BY <2>4, FS_Subset DEF LoadTypes
  <2> QED BY <1>1, <2>1, <2>2, <2>3, <2>5 DEF LoadTypes
<1>4. ASSUME NEW d, d # c
      PROVE  /\ SumFunctionOnSet(SizeOf, ReportsOf(d))' = SumFunctionOnSet(SizeOf, ReportsOf(d))
             /\ SumFunctionOnSet(ObjectsOf, ReportsOf(d))'
                   = SumFunctionOnSet(ObjectsOf, ReportsOf(d))
  <2>1. \A p : p[1] = d => /\ p \in DOMAIN reports' <=> p \in DOMAIN reports
                           /\ p \in DOMAIN reports => reports'[p] = reports[p]
      BY <1>1, <1>4
  <2> QED BY <2>1, OtherReports
<1>5. SummaryIsSum'
  <2>1. ASSUME NEW p \in DOMAIN reports' PROVE p[1] \in DOMAIN summary'
    <3>1. p \in DOMAIN reports /\ ~(p[1] = c /\ p[2] \in Nodes) /\ p[2] \in Nodes
        BY <1>1 DEF LoadTypes, Partial
    <3> QED BY <1>1, <3>1 DEF SummaryIsSum
  <2>2. ASSUME NEW d \in DOMAIN summary'
        PROVE  summary'[d] = [size |-> SumFunctionOnSet(SizeOf, ReportsOf(d))',
                              objs |-> SumFunctionOnSet(ObjectsOf, ReportsOf(d))']
      BY <1>1, <1>4 DEF SummaryIsSum
  <2> QED BY <2>1, <2>2 DEF SummaryIsSum
<1>6. ASSUME ~skewed', NEW u \in Accounts PROVE taken'[u] = SpaceOf(u)'
  <2>1. (LoadTypes /\ SummaryIsSum => SpaceFacts)'
      BY SpaceIsNat, PTL
  <2>2. SpaceFacts'
      BY <1>3, <1>5, <2>1
  <2> DEFINE w == SummedSize
             v == SummedSize'
             S == Owned(u)
  <2>3. /\ \A x \in DOMAIN summary : w[x] = summary[x].size /\ w[x] \in Nat
        /\ S \subseteq DOMAIN summary
        /\ SpaceOf(u) = SumFunctionOnSet(w, S) /\ SpaceOf(u) \in Nat
      BY <1>2 DEF SpaceFacts
  <2>4. IsFiniteSet(S)
      BY <1>2 DEF SpaceFacts
  <2>5. /\ \A x \in DOMAIN summary' : v[x] = summary'[x].size
        /\ SpaceOf(u)' = SumFunctionOnSet(v, Owned(u)') /\ SpaceOf(u)' \in Nat
      BY <2>2 DEF SpaceFacts
  <2>6. taken \in [Accounts -> Nat] /\ taken[u] = SpaceOf(u)
      BY <1>1, <1>6 DEF LoadTypes, TakenSpaceIsSum
  <2>7. Owned(u)' = S \ {c}
      BY <1>1 DEF Owned, OwnerOf
  <2>8. \A x \in S \ {c} : v[x] = w[x]
      BY <1>1, <2>3, <2>5
  <2>9. \A x \in S : w[x] \in Int
      BY <2>3
  <2>10. IsFiniteSet(S \ {c}) /\ \A x \in S \ {c} : w[x] \in Int
      BY <2>4, <2>9, FS_RemoveElement
  <2>11. SpaceOf(u)' = SumFunctionOnSet(w, S \ {c})
    <3> HIDE DEF v, w, S
    <3>1. IsFiniteSet(S \ {c})
        BY <2>10
    <3>2. SumFunctionOnSet(v, S \ {c}) = SumFunctionOnSet(w, S \ {c})
        BY <3>1, <2>8, <2>10, SumAgree
    <3> QED BY <2>5, <2>7, <3>2
  <2>12. CASE c \in S
    <3>1. SumFunctionOnSet(w, S) = w[c] + SumFunctionOnSet(w, S \ {c})
      <4> HIDE DEF w, S
      <4> QED BY <2>4, <2>9, <2>12, SumRemove
    <3>2. c \in DOMAIN summary /\ u = o
        BY <2>12 DEF Owned
    <3>3. w[c] = summary[c].size /\ w[c] \in Nat
        BY <2>3, <3>2
    <3>4. SpaceOf(u)' = taken[u] + (-summary[c].size)
      <4> HIDE DEF w, S
      <4> QED BY <2>3, <2>5, <2>6, <2>11, <3>1, <3>3
    <3>5. taken'[u] = taken[u] + (-summary[c].size)
      <4>1. taken' = AddSpace(taken, u, -summary[c].size)
          BY <1>1, <3>2
      <4>2. taken[u] + (-summary[c].size) >= 0 /\ -summary[c].size \in Int
          BY <2>5, <3>3, <3>4
      <4> QED BY <2>6, <4>1, <4>2, AddSpaceExact
    <3> QED BY <3>4, <3>5
  <2>13. CASE c \notin S
    <3>1. S \ {c} = S
        BY <2>13
    <3>2. SpaceOf(u)' = SpaceOf(u)
        BY <2>3, <2>11, <3>1
    <3>3. taken'[u] = taken[u]
      <4>1. CASE c \notin DOMAIN summary
          BY <1>1, <4>1
      <4>2. CASE c \in DOMAIN summary
        <5>1. u # o
            BY <1>1, <2>13, <4>2 DEF Owned
        <5>2. -summary[c].size \in Int
            BY <2>3, <4>2
        <5> QED BY <1>1, <2>6, <4>2, <5>1, <5>2, AddSpaceExact
      <4> QED BY <4>1, <4>2
    <3> QED BY <2>6, <3>2, <3>3
  <2> QED BY <2>12, <2>13
<1> QED BY <1>3, <1>5, <1>6 DEF TakenSpaceIsSum

LEMMA PutReportLoad ==
    ASSUME LoadInv, RegistryTypeOK', NEW signers, NEW c \in Cids, NEW n \in Nodes,
           NEW size \in Sizes, NEW objs \in Objects, epoch \in Nat,
           PutReport(signers, c, n, size, objs)
    PROVE  LoadInv'
<1> USE DEF LoadInv
<1> DEFINE p == <<c, n>>
           first == p \notin DOMAIN reports
           old == IF first THEN [size |-> 0, objs |-> 0, count |-> 0, epoch |-> epoch]
                  ELSE reports[p]
           sum == IF c \in DOMAIN summary THEN summary[c]
                  ELSE [size |-> 0, objs |-> 0]
           rep == [size |-> size, objs |-> objs, epoch |-> epoch,
                   count |-> IF old.epoch = epoch THEN old.count + 1 ELSE 1]
           new == [size |-> sum.size - old.size + size,
                   objs |-> sum.objs - old.objs + objs]
           o == OwnerOf(c)
           R == ReportsOf(c)
<1>1. /\ c \in DOMAIN info
      /\ reports' = Put(reports, p, rep)
      /\ summary' = Put(summary, c, new)
      /\ taken' = AddSpace(taken, o, size - old.size)
      /\ UNCHANGED <<info, skewed>>
    BY DEF PutReport, registry
<1>2. size \in Nat /\ objs \in Nat
    BY ContainerAssumption DEF ContainerAssumption
<1>3. /\ old.size \in Nat /\ old.objs \in Nat /\ old.count \in Nat
      /\ rep \in NodeReport /\ rep.size = size /\ rep.objs = objs
  <2>1. old \in NodeReport
      BY DEF LoadTypes, Partial, NodeReport
  <2> QED BY <1>2, <2>1 DEF NodeReport
<1>4. /\ DOMAIN reports' = DOMAIN reports \cup {p}
      /\ reports'[p] = rep
      /\ \A q \in DOMAIN reports \ {p} : reports'[q] = reports[q]
      /\ reports' \in [DOMAIN reports' -> NodeReport]
    BY <1>1, <1>3 DEF Put, LoadTypes, Partial
<1>5. R \subseteq DOMAIN reports /\ IsFiniteSet(R)
    BY ReportFacts DEF ReportsOf
<1>6. /\ sum.size = SumFunctionOnSet(SizeOf, R)
      /\ sum.objs = SumFunctionOnSet(ObjectsOf, R)
  <2>1. CASE c \in DOMAIN summary
      BY <2>1 DEF SummaryIsSum
  <2>2. CASE c \notin DOMAIN summary
    <3>1. R = {}
        BY <2>2 DEF SummaryIsSum, ReportsOf
    <3> QED BY <2>2, <3>1, SumEmpty
  <2> QED BY <2>1, <2>2
<1>7. sum.size \in Nat /\ sum.objs \in Nat
    BY <1>6, ReportFacts
<1>8. /\ DOMAIN summary' = DOMAIN summary \cup {c}
      /\ summary'[c] = new
      /\ \A x \in DOMAIN summary \ {c} : summary'[x] = summary[x]
      /\ new \in NodeReportSummary
      /\ summary' \in [DOMAIN summary' -> NodeReportSummary]
  <2>1. new \in NodeReportSummary
    <3> HIDE DEF sum, old
    <3> QED BY <1>2, <1>3, <1>7 DEF NodeReportSummary
  <2> HIDE DEF new
  <2> QED BY <1>1, <2>1 DEF Put, LoadTypes, Partial
<1>9. o \in Accounts /\ size - old.size \in Int
    BY <1>1, <1>2, <1>3 DEF RegistryTypeOK, Partial, Info, OwnerOf
<1>10. LoadTypes'
  <2>1. p \in Cids \X Nodes
      OBVIOUS
  <2>2. Partial(reports', Cids \X Nodes, NodeReport)
      BY <1>4, <2>1 DEF LoadTypes, Partial
  <2>3. Partial(summary', Cids, NodeReportSummary)
      BY <1>8 DEF LoadTypes, Partial
  <2>4. taken' \in [Accounts -> Nat]
      BY <1>1, <1>9, AddSpaceType DEF LoadTypes
  <2>5. IsFiniteSet(DOMAIN reports') /\ IsFiniteSet(DOMAIN summary')
    <3>1. IsFiniteSet(DOMAIN reports) /\ IsFiniteSet(DOMAIN summary)
        BY DEF LoadTypes
    <3>2. IsFiniteSet(DOMAIN reports \cup {p}) /\ IsFiniteSet(DOMAIN summary \cup {c})
        BY <3>1, FS_AddElement
    <3> QED BY <1>4, <1>8, <3>2
  <2> QED BY <1>1, <1>8, <2>2, <2>3, <2>4, <2>5 DEF LoadTypes
<1>11. R' = R \cup {p} /\ (p \in R <=> ~first)
    BY <1>4 DEF ReportsOf
<1>12. /\ \A q \in DOMAIN reports : SizeOf[q] \in Int /\ ObjectsOf[q] \in Int
       /\ \A q \in DOMAIN reports \ {p} : SizeOf'[q] = SizeOf[q] /\ ObjectsOf'[q] = ObjectsOf[q]
       /\ SizeOf'[p] = size /\ ObjectsOf'[p] = objs
       /\ ~first => SizeOf[p] = old.size /\ ObjectsOf[p] = old.objs
  <2>1. \A q \in DOMAIN reports : SizeOf[q] \in Int /\ ObjectsOf[q] \in Int
      BY ReportFacts
  <2>2. /\ \A q \in DOMAIN reports \ {p} : SizeOf'[q] = SizeOf[q] /\ ObjectsOf'[q] = ObjectsOf[q]
        /\ SizeOf'[p] = size /\ ObjectsOf'[p] = objs
      BY <1>3, <1>4 DEF SizeOf, ObjectsOf
  <2>3. ~first => SizeOf[p] = old.size /\ ObjectsOf[p] = old.objs
      BY DEF SizeOf, ObjectsOf
  <2> QED BY <2>1, <2>2, <2>3
<1>13. SumFunctionOnSet(SizeOf', R') = new.size
  <2>1. \A q \in R : SizeOf[q] \in Int
      BY <1>5, <1>12
  <2>2. \A q \in R \ {p} : SizeOf'[q] = SizeOf[q]
      BY <1>5, <1>12
  <2>3. SizeOf'[p] \in Int
      BY <1>2, <1>12
  <2>4. IsFiniteSet(R)
      BY <1>5
  <2>5. SumFunctionOnSet(SizeOf', R \cup {p})
           = SumFunctionOnSet(SizeOf, R) + SizeOf'[p] - (IF p \in R THEN SizeOf[p] ELSE 0)
    <3> HIDE DEF R, p
    <3> QED BY <2>1, <2>2, <2>3, <2>4, SumPut
  <2>6. (IF p \in R THEN SizeOf[p] ELSE 0) = old.size
      BY <1>11, <1>12
  <2>7. SumFunctionOnSet(SizeOf', R') = sum.size + size - old.size
      BY <1>6, <1>11, <1>12, <2>5, <2>6
  <2> HIDE DEF R, p, old, sum
  <2> QED BY <2>7, <1>2, <1>3, <1>7
<1>14. SumFunctionOnSet(ObjectsOf', R') = new.objs
  <2>1. \A q \in R : ObjectsOf[q] \in Int
      BY <1>5, <1>12
  <2>2. \A q \in R \ {p} : ObjectsOf'[q] = ObjectsOf[q]
      BY <1>5, <1>12
  <2>3. ObjectsOf'[p] \in Int
      BY <1>2, <1>12
  <2>4. IsFiniteSet(R)
      BY <1>5
  <2>5. SumFunctionOnSet(ObjectsOf', R \cup {p})
           = SumFunctionOnSet(ObjectsOf, R) + ObjectsOf'[p]
               - (IF p \in R THEN ObjectsOf[p] ELSE 0)
    <3> HIDE DEF R, p
    <3> QED BY <2>1, <2>2, <2>3, <2>4, SumPut
  <2>6. (IF p \in R THEN ObjectsOf[p] ELSE 0) = old.objs
      BY <1>11, <1>12
  <2>7. SumFunctionOnSet(ObjectsOf', R') = sum.objs + objs - old.objs
      BY <1>6, <1>11, <1>12, <2>5, <2>6
  <2> HIDE DEF R, p, old, sum
  <2> QED BY <2>7, <1>2, <1>3, <1>7
<1>15. SummaryIsSum'
  <2>1. ASSUME NEW q \in DOMAIN reports' PROVE q[1] \in DOMAIN summary'
      BY <1>4, <1>8 DEF SummaryIsSum
  <2>2. ASSUME NEW d \in DOMAIN summary'
        PROVE  summary'[d] = [size |-> SumFunctionOnSet(SizeOf', ReportsOf(d)'),
                              objs |-> SumFunctionOnSet(ObjectsOf', ReportsOf(d)')]
    <3>1. CASE d = c
        BY <1>8, <1>13, <1>14, <3>1
    <3>2. CASE d # c
      <4>1. \A q : q[1] = d => /\ q \in DOMAIN reports' <=> q \in DOMAIN reports
                               /\ q \in DOMAIN reports => reports'[q] = reports[q]
          BY <1>4, <3>2
      <4>2. /\ SumFunctionOnSet(SizeOf', ReportsOf(d)') = SumFunctionOnSet(SizeOf, ReportsOf(d))
            /\ SumFunctionOnSet(ObjectsOf', ReportsOf(d)')
                  = SumFunctionOnSet(ObjectsOf, ReportsOf(d))
          BY <4>1, OtherReports
      <4> QED BY <1>8, <3>2, <4>2 DEF SummaryIsSum
    <3> QED BY <3>1, <3>2
  <2> QED BY <2>1, <2>2 DEF SummaryIsSum
<1>16. TakenSpaceIsSum'
  <2>1. new.size = (IF c \in DOMAIN summary THEN summary[c].size ELSE 0) + (size - old.size)
    <3>1. sum.size = IF c \in DOMAIN summary THEN summary[c].size ELSE 0
        OBVIOUS
    <3>2. new.size = sum.size + (size - old.size)
      <4> HIDE DEF sum, old
      <4> QED BY <1>2, <1>3, <1>7
    <3> QED BY <3>1, <3>2
  <2> HIDE DEF new, old, o
  <2>2. taken' = AddSpace(taken, OwnerOf(c), size - old.size)
      BY <1>1 DEF o
  <2> QED BY <1>1, <1>9, <1>10, <1>15, <2>1, <2>2, SpaceFollows
<1> QED BY <1>10, <1>15, <1>16

LEMMA CommitLoad ==
    ASSUME LoadInv, RegistryTypeOK', NEW signers, NEW c \in Cids, NEW reps,
           CommitContainerListUpdate(signers, c, reps)
    PROVE  LoadInv'
<1> USE DEF LoadInv
<1> DEFINE R == ReportsOf(c)
           L == Leavers(c, reps)
           out == {p \in R : p[2] \in L}
           size == SumFunctionOnSet(SizeOf, out)
           objs == SumFunctionOnSet(ObjectsOf, out)
           o == OwnerOf(c)
           new == [size |-> summary[c].size - size, objs |-> summary[c].objs - objs]
<1>1. /\ DOMAIN reports' = {q \in DOMAIN reports : ~(q[1] = c /\ q[2] \in L)}
      /\ \A q \in DOMAIN reports' : reports'[q] = reports[q]
      /\ reports' = [q \in DOMAIN reports' |-> reports[q]]
      /\ UNCHANGED <<info, skewed>>
  <2>1. reports' = DropNodes(reports, c, L) /\ UNCHANGED <<info, skewed>>
      BY DEF CommitContainerListUpdate, registry
  <2> HIDE DEF L
  <2> QED BY <2>1 DEF DropNodes
<1>2. \/ size = 0 /\ objs = 0 /\ UNCHANGED <<summary, taken>>
      \/ /\ c \in DOMAIN summary /\ c \in DOMAIN info
         /\ summary' = [summary EXCEPT ![c] = [size |-> @.size - size,
                                               objs |-> @.objs - objs]]
         /\ taken' = AddSpace(taken, o, -size)
    BY DEF CommitContainerListUpdate
<1>3. R \subseteq DOMAIN reports /\ IsFiniteSet(R) /\ out \in SUBSET R /\ IsFiniteSet(out)
  <2>1. R \subseteq DOMAIN reports /\ IsFiniteSet(R)
      BY ReportFacts DEF ReportsOf
  <2>2. out \in SUBSET R
      OBVIOUS
  <2>3. IsFiniteSet(out)
      BY <2>1, <2>2, FS_Subset
  <2> QED BY <2>1, <2>2, <2>3
<1>4. /\ \A q \in R : SizeOf[q] \in Nat /\ ObjectsOf[q] \in Nat
      /\ \A q \in R \ out : SizeOf'[q] = SizeOf[q] /\ ObjectsOf'[q] = ObjectsOf[q]
  <2>1. \A q \in R : SizeOf[q] \in Nat /\ ObjectsOf[q] \in Nat
      BY <1>3, ReportFacts
  <2>2. ASSUME NEW q \in R \ out
        PROVE  SizeOf'[q] = SizeOf[q] /\ ObjectsOf'[q] = ObjectsOf[q]
    <3>1. q \in DOMAIN reports /\ q \in DOMAIN reports'
      <4> HIDE DEF L
      <4> QED BY <1>1 DEF ReportsOf
    <3> QED BY <1>1, <3>1 DEF SizeOf, ObjectsOf
  <2> QED BY <2>1, <2>2
<1>5. R' = R \ out
  <2> HIDE DEF L
  <2> QED BY <1>1 DEF ReportsOf
<1> HIDE DEF L, out
<1>6. size \in Nat /\ objs \in Nat
    BY <1>3, <1>4, SumNat
<1>7. /\ SumFunctionOnSet(SizeOf', R') = SumFunctionOnSet(SizeOf, R) - size
      /\ SumFunctionOnSet(ObjectsOf', R') = SumFunctionOnSet(ObjectsOf, R) - objs
  <2>1. IsFiniteSet(R) /\ out \in SUBSET R
      BY <1>3
  <2>2. \A q \in R : SizeOf[q] \in Int /\ ObjectsOf[q] \in Int
      BY <1>4
  <2>3. /\ SumFunctionOnSet(SizeOf', R \ out) = SumFunctionOnSet(SizeOf, R) - size
        /\ SumFunctionOnSet(ObjectsOf', R \ out) = SumFunctionOnSet(ObjectsOf, R) - objs
    <3> HIDE DEF R
    <3>a. IsFiniteSet(R)
        BY <2>1
    <3>b. \A q \in R : SizeOf[q] \in Int
        BY <2>2
    <3>c. \A q \in R : ObjectsOf[q] \in Int
        BY <2>2
    <3>1. SumFunctionOnSet(SizeOf', R \ out) = SumFunctionOnSet(SizeOf, R) - size
        BY <3>a, <2>1, <3>b, <1>4, SumSplit
    <3>2. SumFunctionOnSet(ObjectsOf', R \ out) = SumFunctionOnSet(ObjectsOf, R) - objs
        BY <3>a, <2>1, <3>c, <1>4, SumSplit
    <3> QED BY <3>1, <3>2
  <2> QED BY <1>5, <2>3
<1>8. c \in DOMAIN summary =>
         /\ summary[c].size = SumFunctionOnSet(SizeOf, R)
         /\ summary[c].objs = SumFunctionOnSet(ObjectsOf, R)
         /\ summary[c].size \in Nat /\ summary[c].objs \in Nat
    BY ReportFacts DEF SummaryIsSum
<1>9. /\ DOMAIN summary' = DOMAIN summary
      /\ \A x \in DOMAIN summary \ {c} : summary'[x] = summary[x]
      /\ summary' \in [DOMAIN summary -> NodeReportSummary]
      /\ c \in DOMAIN summary => summary'[c] = new
      /\ new.size = summary[c].size - size /\ new.objs = summary[c].objs - objs
  <2>1. summary \in [DOMAIN summary -> NodeReportSummary]
      BY DEF LoadTypes, Partial
  <2>2. c \in DOMAIN summary => new \in NodeReportSummary
    <3> HIDE DEF size, objs
    <3> QED BY <1>6, <1>8 DEF NodeReportSummary
  <2>3. CASE size = 0 /\ objs = 0 /\ UNCHANGED <<summary, taken>>
    <3>1. c \in DOMAIN summary => summary[c] = new
      <4>1. c \in DOMAIN summary => summary[c] \in NodeReportSummary
          BY <2>1
      <4> HIDE DEF size, objs
      <4> QED BY <4>1, <2>3 DEF NodeReportSummary
    <3> HIDE DEF new
    <3> QED BY <2>1, <2>3, <3>1 DEF new
  <2>4. CASE /\ c \in DOMAIN summary
             /\ summary' = [summary EXCEPT ![c] = [size |-> @.size - size,
                                                   objs |-> @.objs - objs]]
    <3>1. summary' = [summary EXCEPT ![c] = new] /\ c \in DOMAIN summary
        BY <2>4
    <3>2. new.size = summary[c].size - size /\ new.objs = summary[c].objs - objs
        OBVIOUS
    <3> HIDE DEF new
    <3> QED BY <2>1, <2>2, <3>1, <3>2
  <2> QED BY <1>2, <2>3, <2>4
<1>10. LoadTypes'
  <2>1. Partial(reports', Cids \X Nodes, NodeReport)
      BY <1>1 DEF LoadTypes, Partial
  <2>2. Partial(summary', Cids, NodeReportSummary)
      BY <1>9 DEF LoadTypes, Partial
  <2>3. taken' \in [Accounts -> Nat]
    <3>1. CASE UNCHANGED taken
        BY <3>1 DEF LoadTypes
    <3>2. CASE c \in DOMAIN info /\ taken' = AddSpace(taken, o, -size)
      <4>1. o \in Accounts
          BY <3>2 DEF RegistryTypeOK, Partial, Info, OwnerOf
      <4>2. -size \in Int
          BY <1>6
      <4> HIDE DEF size, o
      <4> QED BY <3>2, <4>1, <4>2, AddSpaceType DEF LoadTypes
    <3> QED BY <1>2, <3>1, <3>2
  <2>4. DOMAIN reports' \subseteq DOMAIN reports
      BY <1>1
  <2>5. IsFiniteSet(DOMAIN reports') /\ IsFiniteSet(DOMAIN summary')
      BY <1>9, <2>4, FS_Subset DEF LoadTypes
  <2> QED BY <1>1, <1>9, <2>1, <2>2, <2>3, <2>5 DEF LoadTypes
<1>11. SummaryIsSum'
  <2>1. ASSUME NEW q \in DOMAIN reports' PROVE q[1] \in DOMAIN summary'
      BY <1>1, <1>9 DEF SummaryIsSum
  <2>2. ASSUME NEW d \in DOMAIN summary'
        PROVE  summary'[d] = [size |-> SumFunctionOnSet(SizeOf', ReportsOf(d)'),
                              objs |-> SumFunctionOnSet(ObjectsOf', ReportsOf(d)')]
    <3>1. CASE d = c
      <4>1. /\ summary'[c] = new /\ c \in DOMAIN summary
            BY <1>9, <3>1
      <4>2. /\ SumFunctionOnSet(SizeOf', R') = summary[c].size - size
            /\ SumFunctionOnSet(ObjectsOf', R') = summary[c].objs - objs
          BY <1>7, <1>8, <4>1
      <4> QED BY <3>1, <4>1, <4>2
    <3>2. CASE d # c
      <4>1. \A q : q[1] = d => /\ q \in DOMAIN reports' <=> q \in DOMAIN reports
                               /\ q \in DOMAIN reports => reports'[q] = reports[q]
          BY <1>1, <3>2
      <4>2. /\ SumFunctionOnSet(SizeOf', ReportsOf(d)') = SumFunctionOnSet(SizeOf, ReportsOf(d))
            /\ SumFunctionOnSet(ObjectsOf', ReportsOf(d)')
                  = SumFunctionOnSet(ObjectsOf, ReportsOf(d))
          BY <4>1, OtherReports
      <4> QED BY <1>9, <3>2, <4>2 DEF SummaryIsSum
    <3> QED BY <3>1, <3>2
  <2> QED BY <2>1, <2>2 DEF SummaryIsSum
<1>12. TakenSpaceIsSum'
  <2>1. CASE UNCHANGED <<summary, taken>>
      BY <1>1, <2>1 DEF TakenSpaceIsSum, SpaceOf, OwnerOf
  <2>2. CASE /\ c \in DOMAIN summary /\ c \in DOMAIN info
             /\ taken' = AddSpace(taken, o, -size)
    <3>1. summary' = Put(summary, c, new)
      <4> HIDE DEF new
      <4>1. summary' \in [DOMAIN summary -> NodeReportSummary]
          BY <1>9
      <4>2. DOMAIN summary \cup {c} = DOMAIN summary
          BY <2>2
      <4> QED BY <1>9, <2>2, <4>1, <4>2 DEF Put
    <3>2. new.size = (IF c \in DOMAIN summary THEN summary[c].size ELSE 0) + (-size)
      <4>1. new.size = summary[c].size - size
          BY <1>9
      <4>2. summary[c].size \in Nat
          BY <1>8, <2>2
      <4> HIDE DEF size, new
      <4> QED BY <1>6, <2>2, <4>1, <4>2
    <3>3. -size \in Int
        BY <1>6
    <3>4. taken' = AddSpace(taken, OwnerOf(c), -size)
        BY <2>2
    <3> HIDE DEF new, size, o
    <3> QED BY <1>1, <1>10, <1>11, <2>2, <3>1, <3>2, <3>3, <3>4, SpaceFollows
  <2> QED BY <1>2, <2>1, <2>2
<1> QED BY <1>10, <1>11, <1>12

(* A step of a container that has a summary hands it over or keeps its     *)
(* owner.                                                                  *)
LEMMA CreateLoad ==
    ASSUME LoadInv, RegistryTypeOK', NEW signers, NEW c \in Cids, NEW eacl,
           Create(signers, c, eacl)
    PROVE  LoadInv'
<1>1. /\ DOMAIN info' = DOMAIN info \cup {c}
      /\ info'[c].owner = Content[c].owner
      /\ \A x \in DOMAIN info \ {c} : info'[x] = info[x]
    BY NewInfo DEF LoadInv
<1>2. /\ UNCHANGED <<reports, summary, taken>>
      /\ skewed' = (skewed \/ (c \in DOMAIN summary /\ OwnerOf(c) # Content[c].owner))
    BY DEF Create
<1>3. DOMAIN summary \subseteq DOMAIN info
    BY DEF LoadInv, LoadTypes
<1>4. CASE c \in DOMAIN summary /\ OwnerOf(c) # Content[c].owner
    BY <1>1, <1>2, <1>3, <1>4, LoadKept
<1>5. CASE ~(c \in DOMAIN summary /\ OwnerOf(c) # Content[c].owner)
  <2>1. \A x \in DOMAIN summary : info'[x].owner = info[x].owner
      BY <1>1, <1>3, <1>5 DEF OwnerOf
  <2>2. ~skewed' => ~skewed
      BY <1>2, <1>5
  <2> QED BY <1>1, <1>2, <1>3, <2>1, <2>2, LoadKept
<1> QED BY <1>4, <1>5

LEMMA TransferLoad ==
    ASSUME LoadInv, RegistryTypeOK', NEW signers, NEW c \in Cids,
           NEW to \in Receivers, Transfer(signers, c, to)
    PROVE  LoadInv'
<1> USE DEF LoadInv
<1>1. /\ c \in DOMAIN info /\ DOMAIN info' = DOMAIN info
      /\ \A x \in DOMAIN info \ {c} : info'[x] = info[x]
      /\ UNCHANGED <<reports, summary>>
    BY DEF Transfer, Revised
<1>2. DOMAIN summary \subseteq DOMAIN info
    BY DEF LoadTypes
<1>3. CASE c \notin DOMAIN summary
  <2>1. UNCHANGED <<taken, skewed>>
      BY <1>3 DEF Transfer
  <2>2. \A x \in DOMAIN summary : info'[x].owner = info[x].owner
      BY <1>1, <1>2, <1>3
  <2> QED BY <1>1, <1>2, <2>1, <2>2, LoadKept
<1>4. CASE c \in DOMAIN summary
  <2> DEFINE from == OwnerOf(c)
             n == AsInteger(summary[c])
  <2>1. /\ skewed' = TRUE
        /\ taken' = AddSpace(AddSpace(taken, from, -n), to, n)
      BY <1>4 DEF Transfer
  <2>2. n \in Int /\ -n \in Int
    <3>1. summary[c].size \in Int /\ summary[c].objs \in Int
        BY <1>4 DEF LoadTypes, Partial, NodeReportSummary
    <3>2. HEADER \in Nat /\ BASE \in Nat
        BY ContainerAssumption DEF ContainerAssumption
    <3>3. BASE * summary[c].objs \in Int
        BY <3>1, <3>2
    <3>4. summary[c].size + BASE * summary[c].objs \in Int
        BY <3>1, <3>3
    <3>5. BASE * (summary[c].size + BASE * summary[c].objs) \in Int
        BY <3>2, <3>4
    <3> QED BY <3>2, <3>5 DEF AsInteger
  <2>3. from \in Accounts /\ to \in Accounts
      BY <1>1, ContainerAssumption
         DEF ContainerAssumption, RegistryTypeOK, Partial, Info, OwnerOf
  <2> HIDE DEF n, from
  <2>4. AddSpace(taken, from, -n) \in [Accounts -> Nat]
      BY <2>2, <2>3, AddSpaceType DEF LoadTypes
  <2>5. taken' \in [Accounts -> Nat]
      BY <2>1, <2>2, <2>3, <2>4, AddSpaceType
  <2>6. LoadTypes'
      BY <1>1, <2>5 DEF LoadTypes, Partial
  <2>7. SummaryIsSum'
      BY <1>1 DEF SummaryIsSum, SizeOf, ObjectsOf, ReportsOf
  <2> QED BY <2>1, <2>6, <2>7 DEF TakenSpaceIsSum
<1> QED BY <1>3, <1>4

LEMMA LoadStep ==
    ASSUME LoadInv, epoch \in Nat, [Next]_vars PROVE LoadInv'
<1>1. RegistryTypeOK /\ RegistryTypeOK' /\ DOMAIN summary \subseteq DOMAIN info
    BY RegistryStep DEF LoadInv, LoadTypes
<1>2. ASSUME NEW signers \in Signers, NEW c \in Cids, NEW eacl \in EACLs,
             Create(signers, c, eacl)
      PROVE LoadInv'
    BY <1>1, <1>2, CreateLoad
<1>3. ASSUME NEW signers \in Signers, NEW c \in Cids, Remove(signers, c)
      PROVE LoadInv'
    BY <1>1, <1>3, RemoveLoad
<1>4. ASSUME NEW signers \in Signers, NEW c \in Cids, NEW to \in Receivers,
             Transfer(signers, c, to)
      PROVE LoadInv'
    BY <1>1, <1>4, TransferLoad
<1>5. ASSUME NEW c \in Cids, Changes(c)
      PROVE LoadInv'
  <2>1. UNCHANGED <<reports, summary, taken, skewed>>
      BY <1>5 DEF Changes, PutEACL, SetAttribute, RemoveAttribute, load
  <2> QED BY <1>1, <1>5, <2>1, ChangesKeepOwnersAndLocks, LoadKept
<1>6. ASSUME NEW c \in Cids, Relocks(c)
      PROVE LoadInv'
  <2>1. UNCHANGED <<reports, summary, taken, skewed>>
      BY <1>6 DEF Relocks, SetLock, RemoveLock, load
  <2>2. PICK lock \in Nat : c \in DOMAIN info /\ Revised(c, [info[c] EXCEPT !.lock = lock])
      BY <1>6, ContainerAssumption DEF ContainerAssumption, Relocks, SetLock, RemoveLock
  <2>3. /\ [info[c] EXCEPT !.lock = lock] \in Info
        /\ [info[c] EXCEPT !.lock = lock].owner = info[c].owner
      BY <1>1, <2>2 DEF RegistryTypeOK, Partial, Info
  <2>4. /\ DOMAIN info' = DOMAIN info
        /\ \A x \in DOMAIN info : info'[x].owner = info[x].owner
      BY <1>1, <2>2, <2>3, RevisedInfo
  <2> QED BY <1>1, <2>1, <2>4, LoadKept
<1>7. ASSUME NEW signers \in Signers, NEW c \in Cids, NEW n \in Nodes,
             NEW size \in Sizes, NEW objs \in Objects,
             PutReport(signers, c, n, size, objs)
      PROVE LoadInv'
    BY <1>1, <1>7, PutReportLoad
<1>8. ASSUME NEW signers \in Signers, NEW c \in Cids, NEW reps \in ReplicaLists,
             CommitContainerListUpdate(signers, c, reps)
      PROVE LoadInv'
    BY <1>1, <1>8, CommitLoad
<1>9. ASSUME UNCHANGED <<info, reports, summary, taken, skewed>>
      PROVE LoadInv'
    BY <1>1, <1>9, LoadKept
<1>10. ASSUME NEW signers \in Signers, NEW c \in Cids,
             \/ \E size \in Limits, hard, managed \in BOOLEAN :
                   SetContainerQuota(signers, c, size, hard, managed)
             \/ \E v \in Vectors, N \in SUBSET Nodes :
                   AddNextEpochNodes(signers, c, v, N)
      PROVE UNCHANGED <<info, reports, summary, taken, skewed>>
    BY <1>10 DEF SetContainerQuota, AddNextEpochNodes, registry, load
<1>11. ASSUME \/ \E signers \in Signers, user \in QuotaUsers, size \in Limits,
                   hard, managed \in BOOLEAN :
                   SetUserQuota(signers, user, size, hard, managed)
              \/ \E d \in Names : Outside(d)
              \/ \E t \in Times : Block(t)
              \/ NewEpoch
              \/ UNCHANGED vars
      PROVE UNCHANGED <<info, reports, summary, taken, skewed>>
    BY <1>11, OutsideKeeps DEF SetUserQuota, Block, NewEpoch, registry, load, vars
<1> QED BY <1>2, <1>3, <1>4, <1>5, <1>6, <1>7, <1>8, <1>9, <1>10, <1>11
        DEF Next, Changes, Relocks, Outside

-----------------------------------------------------------------------------
(* The rest of the state. *)
BookTypes ==
    /\ index \subseteq Accounts \X Cids
    /\ deleted \subseteq Cids /\ eacls \subseteq Cids
    /\ Partial(quotas, Cids, Quota) /\ Partial(userQuotas, Accounts, Quota)
    /\ nodes \in [Cids -> SUBSET (Vectors \X Nodes)]
    /\ nextNodes \in [Cids -> SUBSET (Vectors \X Nodes)]
    /\ replicas \in [Cids -> Seq(Nat)]
    /\ funds \in [Accounts -> Nat]
    /\ skewed \in BOOLEAN

(* Every report has its statistics and its history; the epoch began in the *)
(* past.                                                                   *)
StatTypes ==
    /\ epoch \in Nat /\ lastTick \in Nat /\ lastSpan \in Nat /\ lastTick <= now
    /\ Partial(stats, Cids \X Nodes, EpochBillingStat)
    /\ Partial(area, Cids \X Nodes, [last : Int, this : Int])
    /\ DOMAIN area = DOMAIN reports /\ DOMAIN reports \subseteq DOMAIN stats
TypeInv == LoadInv /\ BookTypes /\ StatTypes

LEMMA TypeInit == Init => TypeInv
<1> SUFFICES ASSUME Init PROVE TypeInv
    OBVIOUS
<1>1. BookTypes
  <2>1. <<>> \in Seq(Nat)
      OBVIOUS
  <2>2. /\ Partial(Empty, Cids, Quota) /\ Partial(Empty, Accounts, Quota)
        /\ Funds \in [Accounts -> Nat]
      BY ContainerAssumption DEF ContainerAssumption, Partial, Empty
  <2> QED BY <2>1, <2>2 DEF Init, BookTypes
<1>2. StatTypes
    BY DEF Init, StatTypes, Partial, Empty
<1> QED BY <1>1, <1>2, LoadInit DEF TypeInv

LEMMA CreateBooks ==
    ASSUME TypeInv, NEW signers, NEW c \in Cids, NEW eacl, Create(signers, c, eacl)
    PROVE  BookTypes'
<1> DEFINE o == Content[c].owner
           total == Fee(c) * Cardinality(AlphabetNodes)
<1>1. o \in Accounts /\ AlphabetNodes \subseteq Accounts
    BY ContainerAssumption DEF ContainerAssumption
<1>2. Fee(c) \in Nat /\ Cardinality(AlphabetNodes) \in Nat /\ total \in Nat
  <2>1. Fee(c) \in Nat
      BY ContainerAssumption DEF ContainerAssumption, Fee
  <2>2. Cardinality(AlphabetNodes) \in Nat
      BY ContainerAssumption, FS_CardinalityType DEF ContainerAssumption
  <2> QED BY <2>1, <2>2
<1>3. /\ funds[o] >= total
      /\ funds' = [a \in Accounts |->
                      funds[a] - (IF a = o THEN total ELSE 0)
                               + (IF a \in AlphabetNodes THEN Fee(c) ELSE 0)]
    BY DEF Create, Affordable
<1>4. funds' \in [Accounts -> Nat]
  <2> HIDE DEF total, o
  <2> QED BY <1>2, <1>3 DEF TypeInv, BookTypes
<1>5. /\ index' \subseteq Accounts \X Cids
      /\ eacls' \subseteq Cids
      /\ UNCHANGED <<deleted, quotas, userQuotas, nodes, nextNodes, replicas>>
    BY <1>1 DEF Create, TypeInv, BookTypes, limits, members
<1>6. skewed' \in BOOLEAN
    BY DEF Create
<1> QED BY <1>4, <1>5, <1>6 DEF TypeInv, BookTypes, Partial

LEMMA NewQuotaType ==
    ASSUME NEW D, NEW q, Partial(q, D, Quota), NEW k \in D, NEW size \in Int,
           NEW hard \in BOOLEAN
    PROVE  Partial(NewQuota(q, k, size, hard), D, Quota)
<1> DEFINE old == IF k \in DOMAIN q THEN q[k] ELSE [soft |-> 0, hard |-> 0]
           new == IF hard THEN [old EXCEPT !.hard = size] ELSE [old EXCEPT !.soft = size]
<1>1. old \in Quota
    BY DEF Partial, Quota
<1>2. new \in Quota
  <2> HIDE DEF old
  <2> QED BY <1>1 DEF Quota
<1>3. NewQuota(q, k, size, hard) = Put(q, k, new)
    BY DEF NewQuota
<1> HIDE DEF new
<1> QED BY <1>2, <1>3 DEF Put, Partial

LEMMA BooksStep ==
    ASSUME TypeInv, [Next]_vars PROVE BookTypes'
<1>1. ASSUME NEW signers \in Signers, NEW c \in Cids, NEW eacl \in EACLs,
             Create(signers, c, eacl)
      PROVE BookTypes'
    BY <1>1, CreateBooks
<1>2. ASSUME NEW signers \in Signers, NEW c \in Cids, Remove(signers, c)
      PROVE BookTypes'
  <2>1. /\ index' \subseteq index /\ deleted' = deleted \cup {c} /\ eacls' \subseteq eacls
        /\ quotas' = Without(quotas, c)
        /\ nodes' = [nodes EXCEPT ![c] = {}]
        /\ nextNodes' = [nextNodes EXCEPT ![c] = {}]
        /\ replicas' = [replicas EXCEPT ![c] = <<>>]
        /\ UNCHANGED <<userQuotas, funds, skewed>>
      BY <1>2 DEF Remove
  <2>2. Partial(quotas', Cids, Quota)
      BY <2>1 DEF Without, Partial, TypeInv, BookTypes
  <2>3. <<>> \in Seq(Nat)
      OBVIOUS
  <2> QED BY <2>1, <2>2, <2>3 DEF TypeInv, BookTypes, Partial
<1>3. ASSUME NEW signers \in Signers, NEW c \in Cids, NEW to \in Receivers,
             Transfer(signers, c, to)
      PROVE BookTypes'
  <2>1. /\ index' \subseteq index \cup {<<to, c>>} /\ to \in Accounts
        /\ skewed' \in BOOLEAN
        /\ UNCHANGED <<deleted, eacls, funds, limits, members>>
      BY <1>3, ContainerAssumption
         DEF ContainerAssumption, Transfer, Reindexed, TypeInv, BookTypes
  <2> QED BY <2>1 DEF TypeInv, BookTypes, Partial, limits, members
<1>4. ASSUME NEW c \in Cids, Changes(c) \/ Relocks(c)
      PROVE BookTypes'
  <2>1. /\ eacls' \subseteq eacls \cup {c}
        /\ UNCHANGED <<index, deleted, funds, limits, members, skewed>>
      BY <1>4 DEF Changes, Relocks, PutEACL, SetAttribute, RemoveAttribute, SetLock,
                  RemoveLock, load
  <2> QED BY <2>1 DEF TypeInv, BookTypes, Partial, limits, members
<1>5. ASSUME NEW signers \in Signers, NEW c \in Cids, NEW size \in Limits,
             NEW hard \in BOOLEAN, NEW managed \in BOOLEAN,
             SetContainerQuota(signers, c, size, hard, managed)
      PROVE BookTypes'
  <2>1. /\ quotas' = NewQuota(quotas, c, size, hard) /\ size \in Int
        /\ UNCHANGED <<index, deleted, eacls, userQuotas, nodes, nextNodes, replicas,
                       funds, skewed>>
      BY <1>5, ContainerAssumption
         DEF ContainerAssumption, SetContainerQuota, registry, members, load
  <2>2. Partial(quotas, Cids, Quota)
      BY DEF TypeInv, BookTypes
  <2>3. Partial(quotas', Cids, Quota)
      BY <2>1, <2>2, NewQuotaType
  <2> QED BY <2>1, <2>3 DEF TypeInv, BookTypes, Partial
<1>6. ASSUME NEW signers \in Signers, NEW c \in Cids, NEW v \in Vectors,
             NEW N \in SUBSET Nodes, AddNextEpochNodes(signers, c, v, N)
      PROVE BookTypes'
    BY <1>6 DEF AddNextEpochNodes, registry, limits, load, TypeInv, BookTypes, Partial
<1>7. ASSUME NEW signers \in Signers, NEW c \in Cids, NEW reps \in ReplicaLists,
             CommitContainerListUpdate(signers, c, reps)
      PROVE BookTypes'
  <2>1. /\ nodes' = [nodes EXCEPT ![c] = nextNodes[c]]
        /\ nextNodes' = [nextNodes EXCEPT ![c] = {}]
        /\ replicas' = [replicas EXCEPT ![c] = reps] /\ reps \in Seq(Nat)
        /\ UNCHANGED <<registry, limits, skewed>>
      BY <1>7, ContainerAssumption DEF ContainerAssumption, CommitContainerListUpdate
  <2> QED BY <2>1 DEF TypeInv, BookTypes, Partial, registry, limits
<1>8. ASSUME NEW signers \in Signers, NEW c \in Cids, NEW n \in Nodes,
             NEW size \in Sizes, NEW objs \in Objects,
             PutReport(signers, c, n, size, objs)
      PROVE BookTypes'
  <2>1. UNCHANGED <<registry, limits, members, skewed>>
      BY <1>8 DEF PutReport
  <2> QED BY <2>1 DEF TypeInv, BookTypes, Partial, registry, limits, members
<1>9. ASSUME NEW signers \in Signers, NEW user \in QuotaUsers, NEW size \in Limits,
             NEW hard \in BOOLEAN, NEW managed \in BOOLEAN,
             SetUserQuota(signers, user, size, hard, managed)
      PROVE BookTypes'
  <2>1. /\ userQuotas' = NewQuota(userQuotas, user, size, hard)
        /\ user \in Accounts /\ size \in Int
        /\ UNCHANGED <<registry, quotas, members, skewed>>
      BY <1>9, ContainerAssumption DEF ContainerAssumption, SetUserQuota, load
  <2>2. Partial(userQuotas, Accounts, Quota)
      BY DEF TypeInv, BookTypes
  <2>3. Partial(userQuotas', Accounts, Quota)
      BY <2>1, <2>2, NewQuotaType
  <2> QED BY <2>1, <2>3 DEF TypeInv, BookTypes, Partial, registry, members
<1>10. CASE \/ \E d \in Names : Outside(d)
            \/ \E t \in Times : Block(t)
            \/ NewEpoch
            \/ UNCHANGED vars
  <2>1. UNCHANGED <<index, deleted, eacls, funds, limits, members, skewed>>
      BY <1>10, OutsideKeeps DEF Block, NewEpoch, vars, registry, load
  <2> QED BY <2>1 DEF TypeInv, BookTypes, Partial, limits, members
<1> QED BY <1>1, <1>2, <1>3, <1>4, <1>5, <1>6, <1>7, <1>8, <1>9, <1>10
        DEF Next, Changes, Relocks, Outside

-----------------------------------------------------------------------------
LEMMA DurationType == Duration \in Nat \ {0}
<1> EpochDuration \in Nat \ {0} /\ SECOND \in Nat \ {0}
    BY ContainerAssumption DEF ContainerAssumption
<1> QED BY DEF Duration

LEMMA LoadType ==
    ASSUME NEW size \in Nat, NEW objs \in Nat
    PROVE  Load(size, objs) \in Nat
<1>1. ObjectSize \in Nat
    BY ContainerAssumption DEF ContainerAssumption
<1> QED BY <1>1 DEF Load

LEMMA QuotientType ==
    ASSUME NEW a \in Int, NEW b \in Nat \ {0}
    PROVE  Quotient(a, b) \in Int
<1>1. a \div b \in Int /\ (-a) \div b \in Int
    OBVIOUS
<1> QED BY <1>1 DEF Quotient

(* What a report makes of the statistics of its node. *)
NewStat(p, size, objs) ==
    IF p \notin DOMAIN reports THEN FirstStat(Load(size, objs))
    ELSE IF reports[p].epoch = epoch
         THEN StatOfSameEpoch(stats[p], Load(reports[p].size, reports[p].objs),
                              Load(size, objs))
         ELSE StatOfNewEpoch(stats[p], Load(reports[p].size, reports[p].objs),
                             Load(size, objs))

LEMMA NewStatType ==
    ASSUME TypeInv, NEW p, NEW size \in Nat, NEW objs \in Nat
    PROVE  NewStat(p, size, objs) \in EpochBillingStat
<1> DEFINE new == Load(size, objs)
           old == Load(reports[p].size, reports[p].objs)
<1>1. new \in Nat
    BY LoadType
<1>2. /\ epoch \in Nat /\ now \in Nat /\ lastTick \in Nat
      /\ Duration \in Nat \ {0} /\ EpochRest \in Int
    BY DurationType DEF TypeInv, LoadInv, RegistryTypeOK, StatTypes, EpochRest
<1>3. CASE p \notin DOMAIN reports
  <2> HIDE DEF new
  <2> QED BY <1>1, <1>2, <1>3 DEF NewStat, FirstStat, EpochBillingStat, new
<1>4. CASE p \in DOMAIN reports
  <2>1. old \in Nat /\ stats[p] \in EpochBillingStat
    <3>1. reports[p] \in NodeReport /\ p \in DOMAIN stats
        BY <1>4 DEF TypeInv, LoadInv, LoadTypes, StatTypes, Partial
    <3>2. stats[p] \in EpochBillingStat
        BY <3>1 DEF TypeInv, StatTypes, Partial
    <3> QED BY <3>1, <3>2, LoadType DEF NodeReport
  <2> HIDE DEF new, old
  <2>2. Quotient((new - old) * EpochRest, Duration) \in Int
      BY <1>1, <1>2, <2>1, QuotientType
  <2>3. Quotient(old * (now - lastTick) + new * EpochRest, Duration) \in Int
    <3>1. old * (now - lastTick) \in Int /\ new * EpochRest \in Int
        BY <1>1, <1>2, <2>1
    <3> QED BY <1>2, <3>1, QuotientType
  <2>4. StatOfSameEpoch(stats[p], old, new) \in EpochBillingStat
    <3> DEFINE q == Quotient((new - old) * EpochRest, Duration)
               a == stats[p].latestAverage + q
    <3>1. a \in Int
        BY <2>1, <2>2 DEF EpochBillingStat
    <3>2. StatOfSameEpoch(stats[p], old, new)
             = [stats[p] EXCEPT !.latestAverage = a, !.latestSize = new]
        BY DEF StatOfSameEpoch
    <3> HIDE DEF a
    <3>3. \A s \in EpochBillingStat :
             [s EXCEPT !.latestAverage = a, !.latestSize = new] \in EpochBillingStat
      <4> SUFFICES ASSUME NEW s \in EpochBillingStat
                   PROVE  [s EXCEPT !.latestAverage = a, !.latestSize = new]
                             \in EpochBillingStat
          OBVIOUS
      <4>1. new \in Int
          BY <1>1
      <4> QED BY <3>1, <4>1 DEF EpochBillingStat
    <3> QED BY <2>1, <3>2, <3>3
  <2>5. StatOfNewEpoch(stats[p], old, new) \in EpochBillingStat
      BY <1>1, <1>2, <2>1, <2>3 DEF StatOfNewEpoch, EpochBillingStat
  <2> QED BY <1>4, <2>4, <2>5 DEF NewStat, new, old
<1> QED BY <1>3, <1>4

LEMMA StatsStep ==
    ASSUME TypeInv, BookTypes', [Next]_vars PROVE StatTypes'
<1>a. /\ epoch \in Nat /\ lastTick \in Nat /\ lastSpan \in Nat /\ lastTick <= now
      /\ now \in Nat
      /\ Partial(stats, Cids \X Nodes, EpochBillingStat)
      /\ Partial(area, Cids \X Nodes, [last : Int, this : Int])
      /\ DOMAIN area = DOMAIN reports /\ DOMAIN reports \subseteq DOMAIN stats
    BY DEF TypeInv, StatTypes, LoadInv, RegistryTypeOK
<1>1. ASSUME UNCHANGED <<stats, area, reports, clock>>
      PROVE StatTypes'
    BY <1>1, <1>a DEF StatTypes, Partial, clock
<1>2. ASSUME NEW signers \in Signers, NEW c \in Cids, Remove(signers, c)
      PROVE StatTypes'
  <2>1. /\ DOMAIN reports' = {q \in DOMAIN reports : ~(q[1] = c /\ q[2] \in Nodes)}
        /\ stats' = [q \in {q \in DOMAIN stats : ~(q[1] = c /\ q[2] \in Nodes)} |-> stats[q]]
        /\ area' = [q \in {q \in DOMAIN area : ~(q[1] = c /\ q[2] \in Nodes)} |-> area[q]]
        /\ UNCHANGED clock
      BY <1>2 DEF Remove, DropNodes
  <2>2. Partial(stats', Cids \X Nodes, EpochBillingStat)
      BY <1>a, <2>1 DEF Partial
  <2>3. Partial(area', Cids \X Nodes, [last : Int, this : Int])
      BY <1>a, <2>1 DEF Partial
  <2>4. DOMAIN area' = DOMAIN reports' /\ DOMAIN reports' \subseteq DOMAIN stats'
      BY <1>a, <2>1
  <2> QED BY <1>a, <2>1, <2>2, <2>3, <2>4 DEF StatTypes, clock
<1>3. ASSUME NEW signers \in Signers, NEW c \in Cids, NEW reps \in ReplicaLists,
             CommitContainerListUpdate(signers, c, reps)
      PROVE StatTypes'
  <2> DEFINE L == Leavers(c, reps)
  <2>0. /\ reports' = DropNodes(reports, c, L) /\ area' = DropNodes(area, c, L)
        /\ UNCHANGED <<stats, clock>>
      BY <1>3 DEF CommitContainerListUpdate
  <2> HIDE DEF L
  <2>1. /\ DOMAIN reports' = {q \in DOMAIN reports : ~(q[1] = c /\ q[2] \in L)}
        /\ area' = [q \in {q \in DOMAIN area : ~(q[1] = c /\ q[2] \in L)} |-> area[q]]
      BY <2>0 DEF DropNodes
  <2>2. Partial(area', Cids \X Nodes, [last : Int, this : Int])
      BY <1>a, <2>1 DEF Partial
  <2>3. DOMAIN area' = DOMAIN reports' /\ DOMAIN reports' \subseteq DOMAIN stats'
      BY <1>a, <2>0, <2>1
  <2> QED BY <1>a, <2>0, <2>2, <2>3 DEF StatTypes, clock, Partial
<1>4. ASSUME NEW signers \in Signers, NEW c \in Cids, NEW n \in Nodes,
             NEW size \in Sizes, NEW objs \in Objects,
             PutReport(signers, c, n, size, objs)
      PROVE StatTypes'
  <2> DEFINE p == <<c, n>>
             x == Load(size, objs) * (now - lastTick)
             st == NewStat(p, size, objs)
  <2>1. /\ DOMAIN reports' = DOMAIN reports \cup {p}
        /\ stats' = Put(stats, p, st)
        /\ area' = IF p \notin DOMAIN reports THEN Put(area, p, [last |-> 0, this |-> x])
                   ELSE area
        /\ UNCHANGED clock
    <3>1. DOMAIN reports' = DOMAIN reports \cup {p}
        BY <1>4 DEF PutReport, Put
    <3>2. stats' = Put(stats, p, st)
        BY <1>4 DEF PutReport, NewStat
    <3>3. /\ area' = IF p \notin DOMAIN reports THEN Put(area, p, [last |-> 0, this |-> x])
                     ELSE area
          /\ UNCHANGED clock
        BY <1>4 DEF PutReport
    <3> QED BY <3>1, <3>2, <3>3
  <2>2. size \in Nat /\ objs \in Nat
      BY ContainerAssumption DEF ContainerAssumption
  <2>3. st \in EpochBillingStat
      BY <2>2, NewStatType
  <2>4. x \in Int
    <3>1. Load(size, objs) \in Nat
        BY <2>2, LoadType
    <3> QED BY <1>a, <3>1
  <2> HIDE DEF x, st
  <2>5. Partial(stats', Cids \X Nodes, EpochBillingStat)
    <3>1. p \in Cids \X Nodes
        OBVIOUS
    <3> HIDE DEF p
    <3> QED BY <1>a, <2>1, <2>3, <3>1 DEF Partial, Put
  <2>6. Partial(area', Cids \X Nodes, [last : Int, this : Int])
    <3>1. p \in Cids \X Nodes
        OBVIOUS
    <3>2. [last |-> 0, this |-> x] \in [last : Int, this : Int]
        BY <2>4
    <3> HIDE DEF p
    <3> QED BY <1>a, <2>1, <3>1, <3>2 DEF Partial, Put
  <2>7. DOMAIN area' = DOMAIN reports' /\ DOMAIN reports' \subseteq DOMAIN stats'
      BY <1>a, <2>1 DEF Put
  <2> QED BY <1>a, <2>1, <2>5, <2>6, <2>7 DEF StatTypes, clock
<1>5. ASSUME NEW t \in Times, Block(t)
      PROVE StatTypes'
  <2>1. /\ t \in Nat /\ now < t /\ now' = t
        /\ area' = [p \in DOMAIN area |->
                      [area[p] EXCEPT !.this =
                         @ + Load(reports[p].size, reports[p].objs) * (t - now)]]
        /\ UNCHANGED <<reports, stats, epoch, lastTick, lastSpan>>
      BY <1>5, ContainerAssumption DEF ContainerAssumption, Block, Times
  <2>2. ASSUME NEW p \in DOMAIN area
        PROVE  [area[p] EXCEPT !.this =
                  @ + Load(reports[p].size, reports[p].objs) * (t - now)]
                  \in [last : Int, this : Int]
    <3> DEFINE l == Load(reports[p].size, reports[p].objs)
    <3>1. l \in Nat
      <4>1. reports[p] \in NodeReport
          BY <1>a DEF TypeInv, LoadInv, LoadTypes, Partial
      <4> QED BY <4>1, LoadType DEF NodeReport
    <3> HIDE DEF l
    <3>2. l * (t - now) \in Int
        BY <1>a, <2>1, <3>1
    <3>3. [area[p] EXCEPT !.this = @ + l * (t - now)] \in [last : Int, this : Int]
        BY <1>a, <3>2 DEF Partial
    <3> QED BY <3>3 DEF l
  <2>3. Partial(area', Cids \X Nodes, [last : Int, this : Int]) /\ DOMAIN area' = DOMAIN area
    <3>1. area' \in [DOMAIN area -> [last : Int, this : Int]]
        BY <2>1, <2>2
    <3> QED BY <1>a, <3>1 DEF Partial
  <2> QED BY <1>a, <2>1, <2>3 DEF StatTypes, Partial
<1>6. CASE NewEpoch
  <2>1. /\ epoch' = epoch + 1 /\ lastTick' = now /\ lastSpan' = now - lastTick
        /\ area' = [p \in DOMAIN area |-> [last |-> area[p].this, this |-> 0]]
        /\ UNCHANGED <<reports, stats, now>>
      BY <1>6 DEF NewEpoch
  <2>2. Partial(area', Cids \X Nodes, [last : Int, this : Int]) /\ DOMAIN area' = DOMAIN area
      BY <1>a, <2>1 DEF Partial
  <2> QED BY <1>a, <2>1, <2>2 DEF StatTypes, Partial
<1>7. ASSUME NEW signers \in Signers, NEW c \in Cids,
             \/ \E eacl \in EACLs : Create(signers, c, eacl)
             \/ \E to \in Receivers : Transfer(signers, c, to)
             \/ \E size \in Limits, hard, managed \in BOOLEAN :
                   SetContainerQuota(signers, c, size, hard, managed)
             \/ \E v \in Vectors, N \in SUBSET Nodes :
                   AddNextEpochNodes(signers, c, v, N)
      PROVE UNCHANGED <<stats, area, reports, clock>>
    BY <1>7 DEF Create, Transfer, SetContainerQuota, AddNextEpochNodes, load
<1>8. ASSUME NEW c \in Cids, Changes(c) \/ Relocks(c)
      PROVE UNCHANGED <<stats, area, reports, clock>>
    BY <1>8 DEF Changes, Relocks, PutEACL, SetAttribute, RemoveAttribute, SetLock,
                RemoveLock, load
<1>9. (\E signers \in Signers, user \in QuotaUsers, size \in Limits,
          hard, managed \in BOOLEAN : SetUserQuota(signers, user, size, hard, managed))
      \/ (\E d \in Names : Outside(d)) \/ UNCHANGED vars => UNCHANGED <<stats, area, reports, clock>>
    BY OutsideKeeps DEF SetUserQuota, vars, load
<1> QED BY <1>1, <1>2, <1>3, <1>4, <1>5, <1>6, <1>7, <1>8, <1>9
        DEF Next, Changes, Relocks, Outside

LEMMA TypeStep == TypeInv /\ [Next]_vars => TypeInv'
<1> SUFFICES ASSUME TypeInv, [Next]_vars PROVE TypeInv'
    OBVIOUS
<1>1. LoadInv'
    BY LoadStep DEF TypeInv, StatTypes
<1>2. BookTypes'
    BY BooksStep
<1> QED BY <1>1, <1>2, StatsStep DEF TypeInv

(* Every variable has its type, for all containers, nodes, users and       *)
(* times; no fee is taken that the owner of a container does not have.     *)
THEOREM TypeCorrect == Spec => []TypeOK
<1>1. TypeInv => TypeOK
    BY DEF TypeInv, LoadInv, LoadTypes, BookTypes, StatTypes, TypeOK
<1> QED BY TypeInit, TypeStep, <1>1, PTL DEF Spec

(* The summary of a container is the sum of its reports, and what a user   *)
(* takes is the sum of the summaries of his containers as long as no       *)
(* container with reports changed hands, in any order of reports,          *)
(* memberships and removals.                                               *)
THEOREM LoadIsSummed == Spec => []LoadAddsUp
<1>1. TypeInv => LoadAddsUp
    BY DEF TypeInv, LoadInv, LoadAddsUp
<1> QED BY TypeInit, TypeStep, <1>1, PTL DEF Spec

-----------------------------------------------------------------------------
(* Settlement is exact up to the roundings of the averages: none if every  *)
(* load is a multiple of the epoch's duration, else less than one unit for *)
(* each report of an epoch.                                                *)
Divides(x) == \E k \in Int : x = k * Duration
LoadsDivide == \A size \in Sizes, objs \in Objects : Divides(Load(size, objs))
RoundOff == IF LoadsDivide THEN 0 ELSE Duration - 1
Near(x, y, n) == x - y <= n * RoundOff /\ y - x <= n * RoundOff

LEMMA RoundOffType == RoundOff \in Nat /\ RoundOff < Duration
  BY DurationType DEF RoundOff

LEMMA NearSum ==
    ASSUME NEW x \in Int, NEW y \in Int, NEW u \in Int, NEW v \in Int,
           NEW m \in Nat, NEW n \in Nat, Near(x, y, m), Near(u, v, n)
    PROVE  Near(x + u, y + v, m + n)
<1>1. RoundOff \in Nat
    BY RoundOffType
<1>2. (m + n) * RoundOff = m * RoundOff + n * RoundOff
      /\ m * RoundOff \in Nat /\ n * RoundOff \in Nat
    BY <1>1
<1> DEFINE M == m * RoundOff
           N == n * RoundOff
           T == (m + n) * RoundOff
<1>3. M \in Nat /\ N \in Nat /\ T = M + N
    BY <1>2
<1>4. x - y <= M /\ y - x <= M /\ u - v <= N /\ v - u <= N
    BY DEF Near
<1> HIDE DEF M, N, T
<1>5. (x + u) - (y + v) <= T /\ (y + v) - (x + u) <= T
    BY <1>3, <1>4
<1> QED BY <1>5 DEF Near, T

LEMMA NearMore ==
    ASSUME NEW x \in Int, NEW y \in Int, NEW m \in Nat, NEW n \in Nat, m <= n,
           Near(x, y, m)
    PROVE  Near(x, y, n)
<1>1. RoundOff \in Nat
    BY RoundOffType
<1>2. PICK d \in Nat : n = m + d
    BY n - m \in Nat
<1>3. /\ n * RoundOff = m * RoundOff + d * RoundOff
      /\ m * RoundOff \in Nat /\ d * RoundOff \in Nat
    BY <1>1, <1>2
<1> DEFINE M == m * RoundOff
           D == d * RoundOff
           N == n * RoundOff
<1>4. x - y <= M /\ y - x <= M /\ M \in Nat /\ D \in Nat /\ N = M + D
    BY <1>3 DEF Near
<1> HIDE DEF M, D, N
<1>5. x - y <= N /\ y - x <= N
    BY <1>4
<1> QED BY <1>5 DEF Near, N

LEMMA NearSame ==
    ASSUME NEW x \in Int, NEW n \in Nat PROVE Near(x, x, n)
<1>1. n * RoundOff \in Nat
    BY RoundOffType
<1> QED BY <1>1 DEF Near

(* Division by a positive number, and back.                                *)
LEMMA DivBounds ==
    ASSUME NEW x \in Nat, NEW d \in Nat \ {0}
    PROVE  (x \div d) \in Int /\ (x \div d) * d <= x /\ x < (x \div d) * d + d
<1>1. (x \div d) \in Int
    OBVIOUS
<1>2. x = d * (x \div d) + (x % d) /\ 0 <= x % d /\ x % d < d
    OBVIOUS
<1> QED BY <1>1, <1>2

LEMMA DivExact ==
    ASSUME NEW k \in Int, NEW d \in Nat \ {0}, NEW q \in Int,
           q * d <= k * d, k * d < q * d + d
    PROVE  q = k
<1>1. CASE k < q
  <2>1. PICK e \in Nat : q = k + 1 + e
      BY <1>1, q - k - 1 \in Nat
  <2>2. q * d = k * d + d + e * d /\ k * d \in Int /\ e * d \in Nat /\ q * d \in Int
      BY <2>1
  <2> QED BY <2>2
<1>2. CASE q < k
  <2>1. PICK e \in Nat : k = q + 1 + e
      BY <1>2, k - q - 1 \in Nat
  <2>2. k * d = q * d + d + e * d /\ k * d \in Int /\ e * d \in Nat /\ q * d \in Int
      BY <2>1
  <2> QED BY <2>2
<1> QED BY <1>1, <1>2

LEMMA QuotientNear ==
    ASSUME NEW x \in Int, LoadsDivide => Divides(x)
    PROVE  Near(Quotient(x, Duration) * Duration, x, 1)
<1> DEFINE D == Duration
<1>1. D \in Nat \ {0} /\ RoundOff \in Nat
    BY DurationType, RoundOffType
<1> HIDE DEF D
<1>2. ASSUME NEW y \in Nat, LoadsDivide => Divides(y)
      PROVE  (y \div D) * D - y <= RoundOff /\ y - (y \div D) * D <= RoundOff
  <2> DEFINE q == y \div D
  <2>1. q \in Int /\ q * D <= y /\ y < q * D + D
      BY <1>1, DivBounds
  <2> HIDE DEF q
  <2>2. q * D \in Int
      BY <1>1, <2>1
  <2>3. CASE LoadsDivide
    <3>1. PICK k \in Int : y = k * D
        BY <1>2, <2>3 DEF Divides, D
    <3>2. q = k
        BY <1>1, <2>1, <3>1, DivExact
    <3>3. q * D = y
        BY <3>1, <3>2
    <3>4. q * D - y = 0 /\ y - q * D = 0
        BY <2>2, <3>3
    <3> QED BY <1>1, <3>4 DEF q
  <2>4. CASE ~LoadsDivide
    <3>1. RoundOff = D - 1
        BY <2>4 DEF RoundOff, D
    <3> DEFINE z == q * D
    <3>2. z \in Int /\ z <= y /\ y < z + D
        BY <2>1, <2>2
    <3> HIDE DEF z
    <3>3. z - y <= RoundOff /\ y - z <= RoundOff
        BY <1>1, <3>1, <3>2
    <3> QED BY <3>3 DEF z, q
  <2> QED BY <2>3, <2>4
<1>3. 1 * RoundOff = RoundOff
    BY <1>1
<1>4. CASE x >= 0
  <2>1. x \in Nat
      BY <1>4
  <2>2. (x \div D) * D - x <= RoundOff /\ x - (x \div D) * D <= RoundOff
      BY <1>2, <2>1
  <2>3. Quotient(x, Duration) = x \div D
      BY <1>4 DEF Quotient, D
  <2> QED BY <1>3, <2>2, <2>3 DEF Near, D
<1>5. CASE x < 0
  <2>1. -x \in Nat
      BY <1>5
  <2>2. ASSUME LoadsDivide PROVE Divides(-x)
    <3>1. PICK k \in Int : x = k * D
        BY <2>2 DEF Divides, D
    <3>2. -x = (-k) * D /\ -k \in Int
        BY <1>1, <3>1
    <3> QED BY <3>2 DEF Divides, D
  <2> DEFINE q == (-x) \div D
  <2>3. q * D - (-x) <= RoundOff /\ (-x) - q * D <= RoundOff
      BY <1>2, <2>1, <2>2
  <2>4. q \in Int
      BY <1>1, <2>1
  <2>5. Quotient(x, Duration) = -q
      BY <1>5 DEF Quotient, D
  <2> HIDE DEF q
  <2>6. (-q) * D = -(q * D) /\ q * D \in Int
      BY <1>1, <2>4
  <2> DEFINE z == q * D
  <2>7. z \in Int /\ z - (-x) <= RoundOff /\ (-x) - z <= RoundOff
      BY <2>3, <2>6
  <2> HIDE DEF z
  <2>8. (-z) - x <= RoundOff /\ x - (-z) <= RoundOff
      BY <1>1, <2>7
  <2>9. Quotient(x, Duration) * Duration = -z
      BY <2>5, <2>6 DEF z, D
  <2> QED BY <1>3, <2>8, <2>9 DEF Near
<1> QED BY <1>4, <1>5

(* A report r, the statistics s of its node and the history a of its load  *)
(* at time n of epoch e, which began at t after an epoch that took d: for  *)
(* each epoch in which the node may have reported last.  In this epoch the *)
(* average counts on the load staying as it is until the end.              *)
LoadOf(r) == Load(r.size, r.objs)
ForEpochBefore(s, e) ==
    IF s.previousEpoch = e - 1 THEN s.previousAverage ELSE s.previousSize
Fits(r, s, a, e, n, t, d) ==
    /\ r.size \in Sizes /\ r.objs \in Objects /\ r.count \in 1..MaxReports
    /\ r.epoch = s.latestEpoch /\ r.epoch <= e
    /\ s.latestSize = LoadOf(r)
    /\ r.epoch = e => Near(s.latestAverage * Duration,
                           a.this + LoadOf(r) * (t + Duration - n), r.count)
    /\ r.epoch = e /\ d = Duration =>
          Near(ForEpochBefore(s, e) * Duration, a.last, MaxReports)
    /\ r.epoch < e => a.this = LoadOf(r) * (n - t)
    /\ r.epoch = e - 1 /\ d = Duration =>
          Near(s.latestAverage * Duration, a.last, MaxReports)
    /\ r.epoch < e - 1 => a.last = LoadOf(r) * d
StatsFit ==
    \A p \in DOMAIN reports :
        Fits(reports[p], stats[p], area[p], epoch, now, lastTick, lastSpan)

History == [last : Int, this : Int]

LEMMA FitTypes ==
    ASSUME TypeInv
    PROVE  /\ epoch \in Nat /\ now \in Nat /\ lastTick \in Nat /\ lastSpan \in Nat
           /\ lastTick <= now
           /\ \A p \in DOMAIN reports : /\ reports[p] \in NodeReport
                                        /\ stats[p] \in EpochBillingStat
                                        /\ area[p] \in History
           /\ DOMAIN area = DOMAIN reports
  BY DEF TypeInv, LoadInv, RegistryTypeOK, LoadTypes, StatTypes, Partial, History

(* Time passes: the load stays what it was reported to be.                 *)
LEMMA BlockFits ==
    ASSUME NEW r \in NodeReport, NEW s \in EpochBillingStat, NEW a \in History,
           NEW e \in Nat, NEW n \in Nat, NEW m \in Nat, NEW t \in Nat, NEW d \in Nat,
           NEW b \in History,
           b.last = a.last, b.this = a.this + LoadOf(r) * (m - n),
           Fits(r, s, a, e, n, t, d)
    PROVE  Fits(r, s, b, e, m, t, d)
<1> DEFINE l == LoadOf(r)
           D == Duration
<1>1. l \in Nat /\ D \in Nat
    BY LoadType, DurationType DEF LoadOf, NodeReport
<1>2. b.this = a.this + l * (m - n) /\ a.this \in Int
    BY DEF History
<1> HIDE DEF l, D
<1>3. b.this + l * (t + D - m) = a.this + l * (t + D - n)
  <2>1. l * (m - n) + l * (t + D - m) = l * (t + D - n)
      BY <1>1
  <2>2. l * (m - n) \in Int /\ l * (t + D - m) \in Int /\ l * (t + D - n) \in Int
      BY <1>1
  <2> QED BY <1>2, <2>1, <2>2
<1>4. a.this = l * (n - t) => b.this = l * (m - t)
  <2>1. l * (n - t) + l * (m - n) = l * (m - t)
      BY <1>1
  <2> QED BY <1>2, <2>1
<1> QED BY <1>3, <1>4 DEF Fits, l, D

(* An epoch ends.                                                          *)
LEMMA NewEpochFits ==
    ASSUME NEW r \in NodeReport, NEW s \in EpochBillingStat, NEW a \in History,
           NEW e \in Nat, NEW n \in Nat, NEW t \in Nat, NEW d \in Nat,
           NEW b \in History, b.last = a.this, b.this = 0,
           Fits(r, s, a, e, n, t, d)
    PROVE  Fits(r, s, b, e + 1, n, n, n - t)
<1> DEFINE l == LoadOf(r)
           D == Duration
<1>1. l \in Nat /\ D \in Nat \ {0} /\ MaxReports \in Nat
    BY LoadType, DurationType, ContainerAssumption DEF ContainerAssumption, LoadOf, NodeReport
<1>2. a.this \in Int /\ r.epoch \in Nat /\ s.latestAverage \in Int
    BY DEF NodeReport, EpochBillingStat, History
<1>3. r.epoch <= e /\ r.count \in 1..MaxReports
    BY DEF Fits
<1>4. r.epoch < e + 1 /\ r.epoch # e + 1 /\ r.epoch <= e + 1
    BY <1>2, <1>3
<1> HIDE DEF l, D
<1>5. b.this = l * (n - n)
    BY <1>1
<1>6. ASSUME r.epoch = e + 1 - 1, n - t = D
      PROVE  Near(s.latestAverage * D, b.last, MaxReports)
  <2>1. r.epoch = e
      BY <1>2, <1>6
  <2>2. Near(s.latestAverage * D, a.this + l * (t + D - n), r.count)
      BY <2>1 DEF Fits, l, D
  <2>3. t + D - n = 0
      BY <1>1, <1>6
  <2>4. a.this + l * (t + D - n) = a.this
      BY <1>1, <1>2, <2>3
  <2>5. s.latestAverage * D \in Int
      BY <1>1, <1>2
  <2>6. r.count \in Nat /\ r.count <= MaxReports
      BY <1>1, <1>3
  <2>7. Near(s.latestAverage * D, a.this, r.count)
      BY <2>2, <2>4
  <2> QED BY <1>1, <1>2, <2>5, <2>6, <2>7, NearMore
<1>7. ASSUME r.epoch < e + 1 - 1
      PROVE  b.last = l * (n - t)
  <2>1. r.epoch < e
      BY <1>2, <1>7
  <2> QED BY <2>1 DEF Fits, l
<1> QED BY <1>3, <1>4, <1>5, <1>6, <1>7 DEF Fits, l, D

LEMMA DividesMore ==
    ASSUME NEW x \in Int, Divides(x), NEW y \in Int
    PROVE  Divides(x * y)
<1>1. Duration \in Int
    BY DurationType
<1> DEFINE D == Duration
<1>2. PICK k \in Int : x = k * D
    BY DEF Divides
<1> HIDE DEF D
<1>3. x * y = (k * y) * D /\ k * y \in Int
    BY <1>1, <1>2 DEF D
<1> QED BY <1>3 DEF Divides, D

LEMMA DividesSum ==
    ASSUME NEW x \in Int, Divides(x), NEW y \in Int, Divides(y)
    PROVE  Divides(x + y) /\ Divides(x - y)
<1>1. Duration \in Int
    BY DurationType
<1> DEFINE D == Duration
<1>2. PICK j \in Int : x = j * D
    BY DEF Divides
<1>3. PICK k \in Int : y = k * D
    BY DEF Divides
<1> HIDE DEF D
<1>4. x + y = (j + k) * D /\ x - y = (j - k) * D /\ j + k \in Int /\ j - k \in Int
    BY <1>1, <1>2, <1>3 DEF D
<1> QED BY <1>4 DEF Divides, D

(* The first report of a node. *)
LEMMA FirstFits ==
    ASSUME NEW size \in Sizes, NEW objs \in Objects,
           NEW e \in Nat, NEW n \in Nat, NEW t \in Nat, NEW d \in Nat,
           NEW r \in NodeReport, r.size = size, r.objs = objs, r.epoch = e, r.count = 1,
           NEW s \in EpochBillingStat, s.latestEpoch = e,
           s.latestSize = Load(size, objs), s.latestAverage = Load(size, objs),
           s.previousSize = 0, s.previousAverage = 0,
           NEW a \in History, a.last = 0, a.this = Load(size, objs) * (n - t)
    PROVE  Fits(r, s, a, e, n, t, d)
<1> DEFINE l == LoadOf(r)
           D == Duration
<1>1. l \in Nat /\ D \in Nat \ {0} /\ MaxReports \in Nat \ {0}
    BY LoadType, DurationType, ContainerAssumption DEF ContainerAssumption, LoadOf, NodeReport
<1>2. l = Load(size, objs)
    BY DEF LoadOf
<1> HIDE DEF l, D
<1>3. s.latestAverage * D = a.this + l * (t + D - n) /\ s.latestAverage * D \in Int
  <2>1. l * D = l * (n - t) + l * (t + D - n) /\ l * D \in Int
      BY <1>1
  <2> QED BY <1>2, <2>1
<1>4. Near(s.latestAverage * D, a.this + l * (t + D - n), r.count)
    BY <1>3, NearSame
<1>5. ForEpochBefore(s, e) * D = 0
  <2>1. ForEpochBefore(s, e) = 0 /\ 0 * D = 0
      BY <1>1 DEF ForEpochBefore
  <2> QED BY <2>1
<1>6. Near(ForEpochBefore(s, e) * D, a.last, MaxReports)
    BY <1>1, <1>5, NearSame
<1>7. r.count \in 1..MaxReports
    BY <1>1
<1> QED BY <1>2, <1>4, <1>6, <1>7 DEF Fits, l, D

(* Another report in the same epoch. *)
LEMMA SameEpochFits ==
    ASSUME NEW size \in Sizes, NEW objs \in Objects,
           NEW e \in Nat, NEW n \in Nat, NEW t \in Nat, NEW d \in Nat,
           NEW r \in NodeReport, NEW s \in EpochBillingStat, NEW a \in History,
           Fits(r, s, a, e, n, t, d), r.epoch = e, r.count # MaxReports,
           NEW r2 \in NodeReport, r2.size = size, r2.objs = objs, r2.epoch = e,
           r2.count = r.count + 1,
           NEW s2 \in EpochBillingStat, s2.latestEpoch = s.latestEpoch,
           s2.latestSize = Load(size, objs),
           s2.latestAverage = s.latestAverage
              + Quotient((Load(size, objs) - LoadOf(r)) * (t + Duration - n), Duration),
           s2.previousEpoch = s.previousEpoch, s2.previousSize = s.previousSize,
           s2.previousAverage = s.previousAverage
    PROVE  Fits(r2, s2, a, e, n, t, d)
<1> DEFINE l == LoadOf(r)
           k == Load(size, objs)
           D == Duration
           x == (k - l) * (t + D - n)
           q == Quotient(x, D)
<1>1. l \in Nat /\ k \in Nat /\ D \in Nat \ {0} /\ MaxReports \in Nat \ {0}
    BY LoadType, DurationType, ContainerAssumption DEF ContainerAssumption, LoadOf, NodeReport
<1>2. LoadsDivide => Divides(k) /\ Divides(l)
    BY DEF LoadsDivide, LoadOf, Fits
<1>3. LoadOf(r2) = k
    BY DEF LoadOf
<1> HIDE DEF l, k
<1>4. k - l \in Int /\ t + D - n \in Int /\ x \in Int
    BY <1>1
<1>5. LoadsDivide => Divides(x)
  <2>1. LoadsDivide => Divides(k - l)
      BY <1>1, <1>2, DividesSum
  <2> HIDE DEF D
  <2> QED BY <1>4, <2>1, DividesMore
<1>6. Near(q * D, x, 1)
  <2> HIDE DEF x
  <2> QED BY <1>4, <1>5, QuotientNear
<1>7. q \in Int /\ q * D \in Int
  <2>1. q \in Int
    <3> HIDE DEF x, D
    <3> QED BY <1>1, <1>4, QuotientType
  <2> HIDE DEF q
  <2> QED BY <1>1, <2>1
<1>8. s2.latestAverage = s.latestAverage + q
    BY DEF k, l
<1> HIDE DEF q
<1>9. Near(s.latestAverage * D, a.this + l * (t + D - n), r.count)
    BY DEF Fits, l
<1>10. r.count \in Nat /\ r.count + 1 \in 1..MaxReports
  <2>1. r.count \in 1..MaxReports
      BY DEF Fits
  <2> QED BY <1>1, <2>1
<1>11. Near(s2.latestAverage * D, a.this + k * (t + D - n), r.count + 1)
  <2> DEFINE y == l * (t + D - n)
             z == k * (t + D - n)
  <2>1. s.latestAverage \in Int /\ a.this \in Int
      BY DEF EpochBillingStat, History
  <2>2. y \in Int /\ z \in Int /\ y + x = z
      BY <1>1
  <2>3. s2.latestAverage * D = s.latestAverage * D + q * D /\ s.latestAverage * D \in Int
      BY <1>1, <1>7, <1>8, <2>1
  <2> HIDE DEF x, D
  <2>4. Near(s.latestAverage * D, a.this + y, r.count)
      BY <1>9
  <2> HIDE DEF y, z
  <2>5. a.this + y \in Int /\ (a.this + y) + x = a.this + z
      BY <1>4, <2>1, <2>2
  <2> DEFINE u == a.this + y
             v == s.latestAverage * D
             w == q * D
  <2>6. u \in Int /\ v \in Int /\ w \in Int /\ Near(v, u, r.count) /\ Near(w, x, 1)
      BY <1>6, <1>7, <2>3, <2>4, <2>5
  <2>7. Near(v + w, u + x, r.count + 1)
    <3> HIDE DEF u, v, w
    <3> QED BY <1>4, <1>10, <2>6, NearSum
  <2>8. Near(s2.latestAverage * D, a.this + z, r.count + 1)
      BY <2>3, <2>5, <2>7
  <2> QED BY <2>8 DEF z
<1>12. ForEpochBefore(s2, e) = ForEpochBefore(s, e)
    BY DEF ForEpochBefore
<1>13. d = D => Near(ForEpochBefore(s2, e) * D, a.last, MaxReports)
    BY <1>12 DEF Fits
<1>14. r2.epoch = s2.latestEpoch
    BY DEF Fits
<1> HIDE DEF D
<1> QED BY <1>3, <1>10, <1>11, <1>13, <1>14 DEF Fits, D, k

(* The first report in a later epoch. *)
LEMMA LaterEpochFits ==
    ASSUME NEW size \in Sizes, NEW objs \in Objects,
           NEW e \in Nat, NEW n \in Nat, NEW t \in Nat, NEW d \in Nat,
           NEW r \in NodeReport, NEW s \in EpochBillingStat, NEW a \in History,
           Fits(r, s, a, e, n, t, d), r.epoch # e,
           NEW r2 \in NodeReport, r2.size = size, r2.objs = objs, r2.epoch = e,
           r2.count = 1,
           NEW s2 \in EpochBillingStat, s2.latestEpoch = e,
           s2.latestSize = Load(size, objs),
           s2.latestAverage
              = Quotient(LoadOf(r) * (n - t) + Load(size, objs) * (t + Duration - n),
                         Duration),
           s2.previousEpoch = s.latestEpoch, s2.previousSize = s.latestSize,
           s2.previousAverage = s.latestAverage
    PROVE  Fits(r2, s2, a, e, n, t, d)
<1> DEFINE l == LoadOf(r)
           k == Load(size, objs)
           D == Duration
           x == l * (n - t) + k * (t + D - n)
           q == Quotient(x, D)
<1>1. l \in Nat /\ k \in Nat /\ D \in Nat \ {0} /\ MaxReports \in Nat \ {0}
    BY LoadType, DurationType, ContainerAssumption DEF ContainerAssumption, LoadOf, NodeReport
<1>2. LoadsDivide => Divides(k) /\ Divides(l)
    BY DEF LoadsDivide, LoadOf, Fits
<1>3. LoadOf(r2) = k
    BY DEF LoadOf
<1>4. r.epoch < e /\ r.epoch \in Nat
    BY DEF Fits, NodeReport
<1>5. s2.latestAverage = q
    BY DEF k, l
<1> HIDE DEF l, k
<1>6. n - t \in Int /\ t + D - n \in Int /\ l * (n - t) \in Int /\ k * (t + D - n) \in Int
    BY <1>1
<1>7. LoadsDivide => Divides(x)
  <2>1. LoadsDivide => Divides(l * (n - t)) /\ Divides(k * (t + D - n))
    <3>1. SUFFICES ASSUME LoadsDivide
                   PROVE  Divides(l * (n - t)) /\ Divides(k * (t + D - n))
        OBVIOUS
    <3>2. Divides(l) /\ l \in Int /\ n - t \in Int
        BY <1>1, <1>2, <1>6, <3>1
    <3>3. Divides(k) /\ k \in Int /\ t + D - n \in Int
        BY <1>1, <1>2, <1>6, <3>1
    <3>4. Divides(l * (n - t))
        BY <3>2, DividesMore
    <3>5. Divides(k * (t + D - n))
      <4> DEFINE y == t + D - n
      <4>1. y \in Int
          BY <3>3
      <4> HIDE DEF y
      <4>2. Divides(k * y)
          BY <3>3, <4>1, DividesMore
      <4> QED BY <4>2 DEF y
    <3> QED BY <3>4, <3>5
  <2> DEFINE y == l * (n - t)
             z == k * (t + D - n)
  <2>2. y \in Int /\ z \in Int /\ (LoadsDivide => Divides(y) /\ Divides(z))
      BY <1>6, <2>1
  <2>3. LoadsDivide => Divides(y + z)
    <3> HIDE DEF y, z
    <3> QED BY <2>2, DividesSum
  <2> QED BY <2>3
<1>8. Near(q * D, x, 1)
  <2>1. x \in Int
      BY <1>6
  <2> HIDE DEF x
  <2> QED BY <1>7, <2>1, QuotientNear
<1>9. x = a.this + k * (t + D - n)
    BY <1>4 DEF Fits, l
<1>10. Near(s2.latestAverage * D, a.this + k * (t + D - n), r2.count)
    BY <1>5, <1>8, <1>9
<1>11. ASSUME d = D PROVE Near(ForEpochBefore(s2, e) * D, a.last, MaxReports)
  <2>1. r.epoch = s.latestEpoch /\ s.latestSize = l
      BY DEF Fits, l
  <2>2. CASE r.epoch = e - 1
    <3>1. ForEpochBefore(s2, e) = s.latestAverage
        BY <2>1, <2>2 DEF ForEpochBefore
    <3>2. Near(s.latestAverage * D, a.last, MaxReports)
        BY <1>11, <2>2 DEF Fits
    <3> QED BY <3>1, <3>2
  <2>3. CASE r.epoch # e - 1
    <3>1. r.epoch < e - 1
        BY <1>4, <2>3
    <3>2. ForEpochBefore(s2, e) = l
        BY <2>1, <2>3 DEF ForEpochBefore
    <3>3. a.last = l * D
        BY <1>11, <3>1 DEF Fits, l
    <3>4. l * D \in Int
        BY <1>1
    <3>5. Near(l * D, l * D, MaxReports)
      <4> HIDE DEF D
      <4> QED BY <1>1, <3>4, NearSame
    <3> QED BY <3>2, <3>3, <3>5
  <2> QED BY <2>2, <2>3
<1>12. r2.count \in 1..MaxReports
    BY <1>1
<1> HIDE DEF D, x, q
<1> QED BY <1>3, <1>10, <1>11, <1>12 DEF Fits, D, k

LEMMA PutReportFits ==
    ASSUME TypeInv, TypeInv', StatsFit, NEW signers, NEW c \in Cids, NEW n \in Nodes,
           NEW size \in Sizes, NEW objs \in Objects,
           PutReport(signers, c, n, size, objs)
    PROVE  StatsFit'
<1> DEFINE p == <<c, n>>
           l == Load(size, objs)
<1>1. /\ epoch \in Nat /\ now \in Nat /\ lastTick \in Nat /\ lastSpan \in Nat
      /\ \A q \in DOMAIN reports : /\ reports[q] \in NodeReport
                                   /\ stats[q] \in EpochBillingStat
                                   /\ area[q] \in History
      /\ DOMAIN area = DOMAIN reports /\ DOMAIN reports \subseteq DOMAIN stats
    BY FitTypes DEF TypeInv, StatTypes
<1>2. /\ UNCHANGED <<epoch, now, lastTick, lastSpan>>
      /\ p \in DOMAIN reports /\ reports[p].epoch = epoch => reports[p].count # MaxReports
      /\ reports' = Put(reports, p,
             [size |-> size, objs |-> objs, epoch |-> epoch,
              count |-> IF p \notin DOMAIN reports THEN 1
                        ELSE IF reports[p].epoch = epoch THEN reports[p].count + 1 ELSE 1])
      /\ stats' = Put(stats, p, NewStat(p, size, objs))
      /\ area' = IF p \notin DOMAIN reports
                 THEN Put(area, p, [last |-> 0, this |-> l * (now - lastTick)])
                 ELSE area
    BY DEF PutReport, NewStat, clock
<1> DEFINE r2 == reports'[p]
           s2 == stats'[p]
           a2 == area'[p]
<1>3. /\ DOMAIN reports' = DOMAIN reports \cup {p}
      /\ \A q \in DOMAIN reports \ {p} : /\ reports'[q] = reports[q]
                                         /\ stats'[q] = stats[q]
                                         /\ area'[q] = area[q]
      /\ r2 = [size |-> size, objs |-> objs, epoch |-> epoch,
               count |-> IF p \notin DOMAIN reports THEN 1
                         ELSE IF reports[p].epoch = epoch THEN reports[p].count + 1 ELSE 1]
      /\ s2 = NewStat(p, size, objs)
      /\ a2 = IF p \notin DOMAIN reports
              THEN [last |-> 0, this |-> l * (now - lastTick)] ELSE area[p]
  <2> HIDE DEF p, l
  <2> QED BY <1>1, <1>2 DEF Put
<1>4. r2 \in NodeReport /\ s2 \in EpochBillingStat /\ a2 \in History
  <2>1. Partial(reports', Cids \X Nodes, NodeReport)
        /\ Partial(stats', Cids \X Nodes, EpochBillingStat)
        /\ Partial(area', Cids \X Nodes, History)
        /\ DOMAIN area' = DOMAIN reports' /\ DOMAIN reports' \subseteq DOMAIN stats'
      BY DEF TypeInv, LoadInv, LoadTypes, StatTypes, History
  <2> QED BY <1>3, <2>1 DEF Partial
<1>5. /\ r2.size = size /\ r2.objs = objs /\ r2.epoch = epoch
      /\ r2.count = IF p \notin DOMAIN reports THEN 1
                    ELSE IF reports[p].epoch = epoch THEN reports[p].count + 1 ELSE 1
    BY <1>3
<1> HIDE DEF r2, s2, a2, l
<1>6. Fits(r2, s2, a2, epoch, now, lastTick, lastSpan)
  <2>1. CASE p \notin DOMAIN reports
    <3>1. s2 = [latestEpoch |-> epoch, latestSize |-> l, latestAverage |-> l,
                previousEpoch |-> 0, previousSize |-> 0, previousAverage |-> 0]
        BY <1>3, <2>1 DEF NewStat, FirstStat, l
    <3>2. a2.last = 0 /\ a2.this = l * (now - lastTick) /\ r2.count = 1
        BY <1>3, <1>5, <2>1
    <3>3. /\ s2.latestEpoch = epoch /\ s2.latestSize = l /\ s2.latestAverage = l
          /\ s2.previousSize = 0 /\ s2.previousAverage = 0
        BY <3>1
    <3> QED BY <1>1, <1>4, <1>5, <3>2, <3>3, FirstFits DEF l
  <2>2. CASE p \in DOMAIN reports
    <3> DEFINE r == reports[p]
               s == stats[p]
               a == area[p]
    <3>1. /\ r \in NodeReport /\ s \in EpochBillingStat /\ a \in History
          /\ Fits(r, s, a, epoch, now, lastTick, lastSpan)
        BY <1>1, <2>2 DEF StatsFit
    <3>2. a2 = a
        BY <1>3, <2>2
    <3>3. s2 = IF r.epoch = epoch THEN StatOfSameEpoch(s, LoadOf(r), l)
               ELSE StatOfNewEpoch(s, LoadOf(r), l)
        BY <1>3, <2>2 DEF NewStat, LoadOf, l
    <3>4. r2.count = IF r.epoch = epoch THEN r.count + 1 ELSE 1
        BY <1>5, <2>2
    <3>5. r.epoch = epoch => r.count # MaxReports
        BY <1>2, <2>2
    <3>6. EpochRest = lastTick + Duration - now
        BY DEF EpochRest
    <3> HIDE DEF r, s, a
    <3>7. CASE r.epoch = epoch
      <4>1. s2 = StatOfSameEpoch(s, LoadOf(r), l)
          BY <3>3, <3>7
      <4> DEFINE x == s.latestAverage + Quotient((l - LoadOf(r)) * EpochRest, Duration)
      <4>2. s2 = [s EXCEPT !.latestAverage = x, !.latestSize = l]
          BY <4>1 DEF StatOfSameEpoch
      <4> HIDE DEF x
      <4>3. /\ s2.latestEpoch = s.latestEpoch /\ s2.latestSize = l /\ s2.latestAverage = x
            /\ s2.previousEpoch = s.previousEpoch /\ s2.previousSize = s.previousSize
            /\ s2.previousAverage = s.previousAverage
          BY <3>1, <4>2 DEF EpochBillingStat
      <4>4. x = s.latestAverage
               + Quotient((l - LoadOf(r)) * (lastTick + Duration - now), Duration)
          BY <3>6 DEF x
      <4>5. r2.count = r.count + 1
          BY <3>4, <3>7
      <4> QED BY <1>1, <1>4, <1>5, <3>1, <3>2, <3>5, <3>7, <4>3, <4>4, <4>5,
                 SameEpochFits DEF l
    <3>8. CASE r.epoch # epoch
      <4>1. s2 = StatOfNewEpoch(s, LoadOf(r), l)
          BY <3>3, <3>8
      <4> DEFINE x == Quotient(LoadOf(r) * (now - lastTick) + l * EpochRest, Duration)
      <4>2. s2 = [latestEpoch |-> epoch, latestSize |-> l, latestAverage |-> x,
                  previousEpoch |-> s.latestEpoch, previousSize |-> s.latestSize,
                  previousAverage |-> s.latestAverage]
          BY <4>1 DEF StatOfNewEpoch
      <4> HIDE DEF x
      <4>3. /\ s2.latestEpoch = epoch /\ s2.latestSize = l /\ s2.latestAverage = x
            /\ s2.previousEpoch = s.latestEpoch /\ s2.previousSize = s.latestSize
            /\ s2.previousAverage = s.latestAverage
          BY <4>2
      <4>4. x = Quotient(LoadOf(r) * (now - lastTick)
                         + l * (lastTick + Duration - now), Duration)
          BY <3>6 DEF x
      <4>5. r2.count = 1
          BY <3>4, <3>8
      <4> QED BY <1>1, <1>4, <1>5, <3>1, <3>2, <3>8, <4>3, <4>4, <4>5,
                 LaterEpochFits DEF l
    <3> QED BY <3>7, <3>8
  <2> QED BY <2>1, <2>2
<1> HIDE DEF p
<1> QED BY <1>2, <1>3, <1>6 DEF StatsFit, r2, s2, a2

LEMMA StatsFitStep == TypeInv /\ StatsFit /\ [Next]_vars => StatsFit'
<1> SUFFICES ASSUME TypeInv, StatsFit, [Next]_vars PROVE StatsFit'
    OBVIOUS
<1>a. TypeInv'
    BY TypeStep
<1>b. /\ epoch \in Nat /\ now \in Nat /\ lastTick \in Nat /\ lastSpan \in Nat
      /\ \A p \in DOMAIN reports : /\ reports[p] \in NodeReport
                                   /\ stats[p] \in EpochBillingStat
                                   /\ area[p] \in History
      /\ DOMAIN area = DOMAIN reports /\ DOMAIN reports \subseteq DOMAIN stats
    BY FitTypes DEF TypeInv, StatTypes
<1>1. ASSUME DOMAIN reports' \subseteq DOMAIN reports, UNCHANGED clock,
             \A p \in DOMAIN reports' : /\ reports'[p] = reports[p]
                                        /\ stats'[p] = stats[p]
                                        /\ area'[p] = area[p]
      PROVE StatsFit'
    BY <1>1 DEF StatsFit, clock
<1>2. ASSUME NEW signers \in Signers, NEW c \in Cids, Remove(signers, c)
      PROVE StatsFit'
  <2> DEFINE out(q) == q[1] = c /\ q[2] \in Nodes
  <2>1. /\ reports' = [q \in {q \in DOMAIN reports : ~out(q)} |-> reports[q]]
        /\ stats' = [q \in {q \in DOMAIN stats : ~out(q)} |-> stats[q]]
        /\ area' = [q \in {q \in DOMAIN area : ~out(q)} |-> area[q]]
        /\ UNCHANGED clock
      BY <1>2 DEF Remove, DropNodes
  <2> HIDE DEF out
  <2> QED BY <1>b, <1>1, <2>1
<1>3. ASSUME NEW signers \in Signers, NEW c \in Cids, NEW reps \in ReplicaLists,
             CommitContainerListUpdate(signers, c, reps)
      PROVE StatsFit'
  <2> DEFINE out(q) == q[1] = c /\ q[2] \in Leavers(c, reps)
  <2>1. /\ reports' = [q \in {q \in DOMAIN reports : ~out(q)} |-> reports[q]]
        /\ area' = [q \in {q \in DOMAIN area : ~out(q)} |-> area[q]]
        /\ UNCHANGED <<stats, clock>>
      BY <1>3 DEF CommitContainerListUpdate, DropNodes
  <2> HIDE DEF out
  <2> QED BY <1>b, <1>1, <2>1
<1>4. ASSUME NEW signers \in Signers, NEW c \in Cids, NEW n \in Nodes,
             NEW size \in Sizes, NEW objs \in Objects,
             PutReport(signers, c, n, size, objs)
      PROVE StatsFit'
    BY <1>a, <1>4, PutReportFits
<1>5. ASSUME NEW t \in Times, Block(t)
      PROVE StatsFit'
  <2>1. /\ t \in Nat /\ now' = t
        /\ area' = [p \in DOMAIN area |->
                      [area[p] EXCEPT !.this =
                         @ + Load(reports[p].size, reports[p].objs) * (t - now)]]
        /\ UNCHANGED <<reports, stats, epoch, lastTick, lastSpan>>
      BY <1>5, ContainerAssumption DEF ContainerAssumption, Block, Times
  <2>2. ASSUME NEW p \in DOMAIN reports
        PROVE  Fits(reports[p], stats[p], area'[p], epoch, t, lastTick, lastSpan)
    <3> DEFINE r == reports[p]
               s == stats[p]
               a == area[p]
               b == area'[p]
    <3>1. /\ r \in NodeReport /\ s \in EpochBillingStat /\ a \in History
          /\ Fits(r, s, a, epoch, now, lastTick, lastSpan)
        BY <1>b DEF StatsFit
    <3>2. b = [a EXCEPT !.this = @ + LoadOf(r) * (t - now)]
        BY <1>b, <2>1 DEF LoadOf
    <3>3. b \in History
        BY <1>a, <1>b, <2>1 DEF TypeInv, StatTypes, Partial, History
    <3> HIDE DEF r, s, a, b
    <3> DEFINE x == a.this + LoadOf(r) * (t - now)
    <3>4. b = [a EXCEPT !.this = x]
        BY <3>2
    <3> HIDE DEF x
    <3>5. b.last = a.last /\ b.this = x
        BY <3>1, <3>4 DEF History
    <3>6. b.this = a.this + LoadOf(r) * (t - now)
        BY <3>5 DEF x
    <3>7. Fits(r, s, b, epoch, t, lastTick, lastSpan)
        BY <1>b, <2>1, <3>1, <3>3, <3>5, <3>6, BlockFits
    <3> QED BY <3>7 DEF r, s, b
  <2> QED BY <2>1, <2>2 DEF StatsFit
<1>6. CASE NewEpoch
  <2>1. /\ epoch' = epoch + 1 /\ lastTick' = now /\ lastSpan' = now - lastTick
        /\ area' = [p \in DOMAIN area |-> [last |-> area[p].this, this |-> 0]]
        /\ UNCHANGED <<reports, stats, now>>
      BY <1>6 DEF NewEpoch
  <2>2. ASSUME NEW p \in DOMAIN reports
        PROVE  Fits(reports[p], stats[p], area'[p], epoch + 1, now, now, now - lastTick)
    <3>1. /\ reports[p] \in NodeReport /\ stats[p] \in EpochBillingStat
          /\ area[p] \in History
          /\ Fits(reports[p], stats[p], area[p], epoch, now, lastTick, lastSpan)
        BY <1>b DEF StatsFit
    <3>2. area'[p].last = area[p].this /\ area'[p].this = 0
        BY <1>b, <2>1
    <3>3. area'[p] \in History
        BY <1>a, <1>b, <2>1 DEF TypeInv, StatTypes, Partial, History
    <3> QED BY <1>b, <3>1, <3>2, <3>3, NewEpochFits
  <2> QED BY <2>1, <2>2 DEF StatsFit
<1>7. ASSUME UNCHANGED <<stats, area, reports, clock>>
      PROVE StatsFit'
    BY <1>7 DEF StatsFit, clock
<1>8. ASSUME NEW signers \in Signers, NEW c \in Cids,
             \/ \E eacl \in EACLs : Create(signers, c, eacl)
             \/ \E to \in Receivers : Transfer(signers, c, to)
             \/ \E size \in Limits, hard, managed \in BOOLEAN :
                   SetContainerQuota(signers, c, size, hard, managed)
             \/ \E v \in Vectors, N \in SUBSET Nodes :
                   AddNextEpochNodes(signers, c, v, N)
      PROVE UNCHANGED <<stats, area, reports, clock>>
    BY <1>8 DEF Create, Transfer, SetContainerQuota, AddNextEpochNodes, load
<1>9. ASSUME NEW c \in Cids, Changes(c) \/ Relocks(c)
      PROVE UNCHANGED <<stats, area, reports, clock>>
    BY <1>9 DEF Changes, Relocks, PutEACL, SetAttribute, RemoveAttribute, SetLock,
                RemoveLock, load
<1>10. (\E signers \in Signers, user \in QuotaUsers, size \in Limits,
          hard, managed \in BOOLEAN : SetUserQuota(signers, user, size, hard, managed))
       \/ (\E d \in Names : Outside(d)) \/ UNCHANGED vars => UNCHANGED <<stats, area, reports, clock>>
    BY OutsideKeeps DEF SetUserQuota, vars, load
<1> QED BY <1>2, <1>3, <1>4, <1>5, <1>6, <1>7, <1>8, <1>9, <1>10
        DEF Next, Changes, Relocks, Outside

-----------------------------------------------------------------------------
(* What settlement will bill for the epoch before the current one is the   *)
(* average load in that epoch up to the roundings of the reports of one    *)
(* epoch.                                                                  *)
BilledNearAverage ==
    epoch > 0 /\ lastSpan = Duration =>
        \A p \in DOMAIN reports :
            Near(BilledSize(stats[p], epoch) * Duration, area[p].last, MaxReports)

LEMMA FitsBill == TypeInv /\ StatsFit => BilledNearAverage
<1> SUFFICES ASSUME TypeInv, StatsFit, lastSpan = Duration, NEW p \in DOMAIN reports
             PROVE  Near(BilledSize(stats[p], epoch) * Duration, area[p].last, MaxReports)
    BY DEF BilledNearAverage
<1> DEFINE r == reports[p]
           s == stats[p]
           a == area[p]
           D == Duration
<1>1. /\ r \in NodeReport /\ s \in EpochBillingStat /\ a \in History /\ epoch \in Nat
      /\ Fits(r, s, a, epoch, now, lastTick, lastSpan)
    BY FitTypes DEF StatsFit
<1>2. r.epoch \in Nat /\ r.epoch = s.latestEpoch /\ r.epoch <= epoch
    BY <1>1 DEF NodeReport, Fits
<1> HIDE DEF r, s, a, D
<1>3. CASE r.epoch = epoch
  <2>1. BilledSize(s, epoch) = ForEpochBefore(s, epoch)
      BY <1>1, <1>2, <1>3 DEF BilledSize, ForEpochBefore
  <2> QED BY <1>1, <1>3, <2>1 DEF Fits, s, a
<1>4. CASE r.epoch = epoch - 1
  <2>1. BilledSize(s, epoch) = s.latestAverage
      BY <1>1, <1>2, <1>4 DEF BilledSize
  <2> QED BY <1>1, <1>4, <2>1 DEF Fits, s, a
<1>5. CASE r.epoch < epoch - 1
  <2>1. BilledSize(s, epoch) = s.latestSize
      BY <1>1, <1>2, <1>5 DEF BilledSize
  <2>2. s.latestSize = LoadOf(r) /\ a.last = LoadOf(r) * Duration
      BY <1>1, <1>5 DEF Fits
  <2>3. LoadOf(r) * Duration \in Int /\ MaxReports \in Nat
    <3>1. LoadOf(r) \in Nat
        BY <1>1, LoadType DEF LoadOf, NodeReport
    <3> QED BY <3>1, DurationType, ContainerAssumption DEF ContainerAssumption
  <2>4. BilledSize(s, epoch) * Duration = LoadOf(r) * Duration
      BY <2>1, <2>2
  <2>5. Near(LoadOf(r) * Duration, LoadOf(r) * Duration, MaxReports)
      BY <2>3, NearSame
  <2> QED BY <2>2, <2>4, <2>5 DEF s, a
<1> QED BY <1>1, <1>2, <1>3, <1>4, <1>5

LEMMA FitsInit == Init => StatsFit
  BY DEF Init, StatsFit, Empty

(* A node is billed for its average load, weighted by time, up to less     *)
(* than one unit for each report that it may make in an epoch: whether it  *)
(* reported in the last epoch, since then, both or neither.                *)
THEOREM BillingIsClose == Spec => []BilledNearAverage
<1>1. TypeInv /\ StatsFit /\ [Next]_vars => (TypeInv /\ StatsFit)'
    BY TypeStep, StatsFitStep
<1> QED BY TypeInit, FitsInit, FitsBill, <1>1, PTL DEF Spec

LEMMA NearIsExact ==
    ASSUME LoadsDivide, BilledNearAverage, TypeInv
    PROVE  BilledIsAverage
<1> SUFFICES ASSUME epoch > 0, lastSpan = Duration,
                    NEW p \in DOMAIN reports
             PROVE  BilledSize(stats[p], epoch) * Duration = area[p].last
    BY DEF BilledIsAverage
<1>1. RoundOff = 0
    BY DEF RoundOff
<1>2. MaxReports * RoundOff = 0
    BY <1>1, ContainerAssumption DEF ContainerAssumption
<1>3. stats[p] \in EpochBillingStat /\ area[p] \in History
    BY FitTypes
<1>4. BilledSize(stats[p], epoch) \in Int
    BY <1>3 DEF BilledSize, EpochBillingStat
<1> DEFINE x == BilledSize(stats[p], epoch) * Duration
           y == area[p].last
<1>5. x \in Int /\ y \in Int
    BY <1>3, <1>4, DurationType DEF History
<1>6. x - y <= 0 /\ y - x <= 0
    BY <1>2 DEF BilledNearAverage, Near
<1> HIDE DEF x, y
<1>7. x = y
    BY <1>5, <1>6
<1> QED BY <1>7 DEF x, y

(* For exactly its average load if no average is ever rounded.             *)
THEOREM BillingIsExact ==
    ASSUME LoadsDivide
    PROVE  Spec => []BilledIsAverage
<1>1. BilledNearAverage /\ TypeInv => BilledIsAverage
    BY NearIsExact
<1>2. TypeInv /\ StatsFit /\ [Next]_vars => (TypeInv /\ StatsFit)'
    BY TypeStep, StatsFitStep
<1> QED BY TypeInit, FitsInit, FitsBill, <1>1, <1>2, PTL DEF Spec
=============================================================================
