------------------------------- MODULE Netmap -------------------------------
(***************************************************************************)
(* The Netmap contract (contracts/netmap/contract.go): the epoch counter,  *)
(* the storage node candidates, the versioned network maps with their      *)
(* limited history, and the subscribers of epoch ticks.                    *)
(*                                                                         *)
(* One action is one transaction.  The VM runs transactions one by one and *)
(* rolls a panicking one back, so a panic is a disabled action.  "signers" *)
(* are the accounts that witness the transaction.                          *)
(*                                                                         *)
(* Node addresses and attributes are one abstract value.  A stored version *)
(* with no node in it leaves no key in the storage; here it is a version   *)
(* mapped to the empty function, which every reader answers in the same    *)
(* way as a missing version.                                               *)
(***************************************************************************)
EXTENDS Integers, FiniteSets

CONSTANTS Nodes,             \* public keys of storage nodes
          Attributes,        \* values of Node2.Addresses and Node2.Attributes
          Contracts,         \* contracts with a newEpoch method
          Alphabet,          \* the Alphabet multi-signature account
          Signers,           \* bound: sets of witnesses of a transaction
          ConfigKeys,        \* keys of the network configuration ...
          ConfigValues,      \* ... and values
          DefaultSnapshotCount,
          DefaultCleanupThreshold,
          MaxEpoch,          \* bound: highest epoch number
          MaxJump,           \* bound: epochs one tick may skip, plus one
          MaxBlock,          \* bound: highest block
          SnapshotCounts,    \* bound: arguments of UpdateSnapshotCount
          Thresholds         \* bound: arguments of SetCleanupThreshold

(* The Alphabet account is a multi-signature script hash, never a node     *)
(* key; the rest bounds the exploration.                                   *)
ASSUME NetmapAssumption ==
    /\ Alphabet \notin Nodes
    /\ DefaultSnapshotCount \in Nat
    /\ DefaultCleanupThreshold \in Nat
    /\ MaxEpoch \in Nat
    /\ MaxJump \in Nat
    /\ MaxBlock \in Nat
    /\ SnapshotCounts \subseteq Int
    /\ Thresholds \subseteq Int

Online == "online"
Offline == "offline"
Maintenance == "maintenance"
StateType == {Online, Offline, Maintenance}

(* Offline nodes are deleted, never stored. *)
Node2 == [state : {Online, Maintenance}, attributes : Attributes]
Candidate == [state : {Online, Maintenance}, attributes : Attributes,
              lastActiveEpoch : Nat]

VARIABLES
    epoch,                 \* 'snapshotEpoch'
    candidates,            \* '2': node -> Candidate
    netmapVersion,         \* 'j'
    netmaps,               \* 'p': version -> node -> Node2
    epochToNetmapVersion,  \* 'k': epoch -> version
    netmapChanged,         \* 'l'
    snapshotCount,         \* 'snapshotCount'
    cleanupThreshold,      \* 't'
    epochItems,            \* 'i': epoch -> block of its tick
    subscribers,           \* 'e': {<<counter, contract>>}
    config,                \* 'config': set of <<key, value>>, a partial map
    history                \* history variable: epoch that came -> the
                           \* candidates its tick made the network map

vars == <<epoch, candidates, netmapVersion, netmaps, epochToNetmapVersion,
          netmapChanged, snapshotCount, cleanupThreshold, epochItems,
          subscribers, config, history>>

(* What only a tick or a change of the history length writes. *)
mapVars == <<netmapVersion, netmaps, epochToNetmapVersion, epochItems, history>>
settings == <<snapshotCount, cleanupThreshold, subscribers, config>>

-----------------------------------------------------------------------------
(* Storage helpers. *)
Empty == [x \in {} |-> x]
Put(f, k, v) == [x \in DOMAIN f \cup {k} |-> IF x = k THEN v ELSE f[x]]
Without(f, k) == [x \in DOMAIN f \ {k} |-> f[x]]

(* The Node2 part of every candidate. *)
View(c) == [k \in DOMAIN c |-> [state |-> c[k].state,
                               attributes |-> c[k].attributes]]

Epoch == epoch
NetworkMapVersion == netmapVersion

(* ListNodesVersion: a version that is not stored lists no node. *)
ListNodesVersion(v) == IF v \in DOMAIN netmaps THEN netmaps[v] ELSE Empty
ListNodes == ListNodesVersion(NetworkMapVersion)

(* nmVersionForEpoch scans epochToNetmapVersion backwards. *)
LatestKey(k, e) ==
    /\ k <= e
    /\ \A j \in DOMAIN epochToNetmapVersion : j <= e => j <= k
NmVersionForEpoch(e) ==
    epochToNetmapVersion[CHOOSE k \in DOMAIN epochToNetmapVersion :
                            LatestKey(k, e)]

ListNodesEpoch(e) == ListNodesVersion(NmVersionForEpoch(e))

IsStorageNodeStatus(k, e, status) ==
    /\ e <= Epoch
    /\ LET map == ListNodesEpoch(e) IN
       IF k \in DOMAIN map THEN map[k].state = status ELSE status = Offline

(* Block and time of the tick of an epoch, 0 when the epoch is missing. A  *)
(* block stands for its time too: both grow together.                      *)
GetEpochTime(e) == IF e \in DOMAIN epochItems THEN epochItems[e] ELSE 0
LastEpochTime == GetEpochTime(Epoch)

(* The binary search of GetEpochBlockByTime.  A hit at mid is kept unless  *)
(* the search to its right hits too.  The mutant misses an epoch that came *)
(* at the very time.                                                       *)
GetEpochBlockByTimeMutant(ts) ==
    LET search[range \in (0..(Epoch + 1)) \X ((-1)..Epoch)] ==
          LET lo == range[1]
              hi == range[2]
              mid == (lo + hi) \div 2
              t == GetEpochTime(mid)
              right == search[<<mid + 1, hi>>]
          IN  IF lo > hi THEN 0
              ELSE IF t = 0 THEN right
              ELSE IF t >= ts THEN search[<<lo, mid - 1>>]
              ELSE IF right = 0 THEN t ELSE right
    IN  search[<<0, Epoch>>]
GetEpochBlockByTime(ts) ==
    LET search[range \in (0..(Epoch + 1)) \X ((-1)..Epoch)] ==
          LET lo == range[1]
              hi == range[2]
              mid == (lo + hi) \div 2
              t == GetEpochTime(mid)
              right == search[<<mid + 1, hi>>]
          IN  IF lo > hi THEN 0
              ELSE IF t = 0 THEN right
              ELSE IF t > ts THEN search[<<lo, mid - 1>>]
              ELSE IF right = 0 THEN t ELSE right
    IN  search[<<0, Epoch>>]

-----------------------------------------------------------------------------
Init ==
    /\ epoch = 0
    /\ candidates = Empty
    /\ netmapVersion = 0
    /\ netmaps = Empty
    /\ epochToNetmapVersion = [e \in {0} |-> 0]
    /\ netmapChanged = FALSE
    /\ snapshotCount = DefaultSnapshotCount
    /\ cleanupThreshold = DefaultCleanupThreshold
    /\ epochItems = Empty
    /\ subscribers = {}
    /\ config = {}
    /\ history = [e \in {0} |-> Empty]

(* Candidates that the cleanup of updateNetmap keeps at the tick to n. *)
NotStale(c, n) ==
    [k \in {k \in DOMAIN c : \/ cleanupThreshold <= 0
                             \/ c[k].lastActiveEpoch >= n - cleanupThreshold}
        |-> c[k]]

(* Versions that dropNetmaps leaves.  The mutant drops one too many. *)
DropNetmapsMutant(maps, version, count) ==
    [v \in {v \in DOMAIN maps : v > version - count} |-> maps[v]]
DropNetmaps(maps, version, count) ==
    [v \in {v \in DOMAIN maps : v >= version - count} |-> maps[v]]

(* updateNetmap emits a version when the flag is set or a node is stale.   *)
(* The mutant forgets the stale nodes.                                     *)
EmitsVersionMutant(c, changed, n) == changed
EmitsVersion(c, changed, n) == changed \/ NotStale(c, n) # c

(* The tick to epoch n, in a transaction of block b, over candidates c and *)
(* flag "changed" as the transaction has left them so far.                 *)
Tick(c, changed, n, b) ==
    LET kept == NotStale(c, n)
        emits == EmitsVersion(c, changed, n)
        version == IF emits THEN netmapVersion + 1 ELSE netmapVersion
        stored == IF emits THEN Put(netmaps, version, View(kept)) ELSE netmaps
    IN  /\ n > epoch
        /\ n <= MaxEpoch /\ n - epoch <= MaxJump
        /\ b >= LastEpochTime
        /\ epoch' = n
        /\ candidates' = kept
        /\ netmapVersion' = version
        /\ netmaps' = DropNetmaps(stored, version, snapshotCount)
        /\ epochToNetmapVersion' = IF emits
                                   THEN Put(epochToNetmapVersion, n, version)
                                   ELSE epochToNetmapVersion
        /\ netmapChanged' = FALSE
        /\ epochItems' = Put(epochItems, n, b)
        /\ history' = Put(history, n, View(kept))
        /\ UNCHANGED settings

(* A registration; when the container contract has no container it is      *)
(* followed by a tick in the same transaction.                             *)
AddNode(signers, k, attributes, numOfContainers, b) ==
    LET new == Put(candidates, k, [state |-> Online,
                                   attributes |-> attributes,
                                   lastActiveEpoch |-> Epoch])
    IN  /\ {k, Alphabet} \subseteq signers
        /\ \/ /\ numOfContainers = 0
              /\ Tick(new, TRUE, Epoch + 1, b)
           \/ /\ numOfContainers # 0
              /\ candidates' = new
              /\ netmapChanged' = TRUE
              /\ UNCHANGED <<epoch, mapVars, settings>>

(* Offline removes the candidate, present or not; another state needs it   *)
(* present and refreshes its activity.                                     *)
(* The mutants lower a flag that is up, and delete without raising it.     *)
UpdateCandidateStateMutant(k, state) ==
    /\ \/ /\ state = Offline
          /\ candidates' = Without(candidates, k)
          /\ netmapChanged' = TRUE
       \/ /\ state \in {Online, Maintenance}
          /\ k \in DOMAIN candidates
          /\ candidates' = [candidates EXCEPT ![k].state = state]
          /\ netmapChanged' = (candidates[k].state # state)
    /\ UNCHANGED <<epoch, mapVars, settings>>
UpdateCandidateStateMutant2(k, state) ==
    /\ state = Offline
    /\ candidates' = Without(candidates, k)
    /\ UNCHANGED <<epoch, netmapChanged, mapVars, settings>>
UpdateCandidateState(k, state) ==
    /\ \/ /\ state = Offline
          /\ candidates' = Without(candidates, k)
          /\ netmapChanged' = TRUE
       \/ /\ state \in {Online, Maintenance}
          /\ k \in DOMAIN candidates
          /\ candidates' = [candidates EXCEPT ![k] =
                [state |-> state, attributes |-> candidates[k].attributes,
                 lastActiveEpoch |-> Epoch]]
          /\ netmapChanged' = (netmapChanged \/ candidates[k].state # state)
    /\ UNCHANGED <<epoch, mapVars, settings>>

DeleteNode(signers, k) ==
    /\ Alphabet \in signers
    /\ UpdateCandidateState(k, Offline)

UpdateState(signers, state, k) ==
    /\ {k, Alphabet} \subseteq signers
    /\ UpdateCandidateState(k, state)

NewEpoch(signers, n, b) ==
    /\ Alphabet \in signers
    /\ Tick(candidates, netmapChanged, n, b)

UpdateSnapshotCount(signers, count) ==
    /\ Alphabet \in signers
    /\ count >= 0
    /\ count # snapshotCount
    /\ snapshotCount' = count
    /\ netmaps' = DropNetmaps(netmaps, netmapVersion, count)
    /\ UNCHANGED <<epoch, candidates, netmapVersion, epochToNetmapVersion,
                   netmapChanged, cleanupThreshold, epochItems, subscribers,
                   config, history>>

SetCleanupThreshold(signers, val) ==
    /\ val >= 0
    /\ Alphabet \in signers
    /\ cleanupThreshold' = val
    /\ UNCHANGED <<epoch, candidates, netmapChanged, mapVars,
                   snapshotCount, subscribers, config>>

SetConfig(signers, key, val) ==
    /\ Alphabet \in signers
    /\ config' = {r \in config : r[1] # key} \cup {<<key, val>>}
    /\ UNCHANGED <<epoch, candidates, netmapChanged, mapVars,
                   snapshotCount, cleanupThreshold, subscribers>>

(* A second subscription of a contract changes nothing.  The counter is    *)
(* the number of subscriptions found, so that after an unsubscription it   *)
(* may be one that is in use: the key of an entry is both, counter and     *)
(* contract.                                                               *)
SubscribeForNewEpoch(signers, c) ==
    /\ Alphabet \in signers
    /\ subscribers' = IF \E s \in subscribers : s[2] = c
                      THEN subscribers
                      ELSE subscribers \cup {<<Cardinality(subscribers), c>>}
    /\ UNCHANGED <<epoch, candidates, netmapChanged, mapVars,
                   snapshotCount, cleanupThreshold, config>>

(* Only the first entry of the contract, in counter order, is removed.     *)
(* The mutant takes the counter for the key of the entry.                  *)
UnsubscribeFromNewEpochMutant(signers, c) ==
    /\ Alphabet \in signers
    /\ subscribers' = {s \in subscribers :
                          ~ \E t \in subscribers : t[2] = c /\ s[1] = t[1]}
    /\ UNCHANGED <<epoch, candidates, netmapChanged, mapVars,
                   snapshotCount, cleanupThreshold, config>>
UnsubscribeFromNewEpoch(signers, c) ==
    /\ Alphabet \in signers
    /\ subscribers' = {s \in subscribers :
                          ~ /\ s[2] = c
                            /\ \A t \in subscribers :
                                  t[2] = c => s[1] <= t[1]}
    /\ UNCHANGED <<epoch, candidates, netmapChanged, mapVars,
                   snapshotCount, cleanupThreshold, config>>

Next ==
    \E signers \in Signers :
        \/ \E k \in Nodes :
              \/ \E a \in Attributes, total \in {0, 1}, b \in 1..MaxBlock :
                    AddNode(signers, k, a, total, b)
              \/ DeleteNode(signers, k)
              \/ \E s \in StateType : UpdateState(signers, s, k)
        \/ \E n \in 1..MaxEpoch, b \in 1..MaxBlock : NewEpoch(signers, n, b)
        \/ \E count \in SnapshotCounts : UpdateSnapshotCount(signers, count)
        \/ \E val \in Thresholds : SetCleanupThreshold(signers, val)
        \/ \E key \in ConfigKeys, val \in ConfigValues :
              SetConfig(signers, key, val)
        \/ \E c \in Contracts : \/ SubscribeForNewEpoch(signers, c)
                                \/ UnsubscribeFromNewEpoch(signers, c)

Spec == Init /\ [][Next]_vars

-----------------------------------------------------------------------------
(* Properties. *)

TypeOK ==
    /\ epoch \in Nat
    /\ DOMAIN candidates \subseteq Nodes
    /\ candidates \in [DOMAIN candidates -> Candidate]
    /\ netmapVersion \in Nat
    /\ DOMAIN netmaps \subseteq Nat
    /\ \A v \in DOMAIN netmaps : /\ DOMAIN netmaps[v] \subseteq Nodes
                                 /\ netmaps[v] \in [DOMAIN netmaps[v] -> Node2]
    /\ DOMAIN epochToNetmapVersion \subseteq Nat
    /\ epochToNetmapVersion \in [DOMAIN epochToNetmapVersion -> Nat]
    /\ netmapChanged \in BOOLEAN
    /\ snapshotCount \in Nat
    /\ cleanupThreshold \in Nat
    /\ DOMAIN epochItems \subseteq Nat
    /\ epochItems \in [DOMAIN epochItems -> 1..MaxBlock]
    /\ subscribers \subseteq Nat \X Contracts
    /\ IsFiniteSet(subscribers)
    /\ config \subseteq ConfigKeys \X ConfigValues

(* The flag tells the truth: while it is down the map in force is what the *)
(* candidates would make it, so a tick that emits no version misses        *)
(* nothing (setNetmapChangedFlag, updateNetmap).                           *)
FlagAccurate == ~netmapChanged => ListNodes = View(candidates)

(* The epoch-to-version index and the retained versions answer every epoch *)
(* that came with the map of that epoch, as long as its version is stored  *)
(* (nmVersionForEpoch, ListNodesEpoch, IsStorageNodeStatus).               *)
HistoryFaithful ==
    \A e \in DOMAIN history :
        NmVersionForEpoch(e) \in DOMAIN netmaps \cup {0}
            => ListNodesEpoch(e) = history[e]

(* The stored versions are an unbroken run that ends with the current one  *)
(* and is at most snapshotCount versions deep, whatever the order of ticks *)
(* and changes of the history length (dropNetmaps).                        *)
RetentionRun ==
    /\ \A v \in DOMAIN netmaps :
          /\ v \in 1..netmapVersion
          /\ v >= netmapVersion - snapshotCount
          /\ v..netmapVersion \subseteq DOMAIN netmaps
    /\ netmapVersion # 0 => netmapVersion \in DOMAIN netmaps

(* After a tick, even one that jumps over epochs, the epoch before the new *)
(* one is still answered with the map that was in force until the tick,    *)
(* provided one old snapshot is kept: SettleContainerPayment of the        *)
(* balance contract asks for the state of the nodes at that epoch.         *)
TickKeepsPrevious ==
    [][snapshotCount >= 1
          => \A e \in 0..MaxEpoch : e >= epoch /\ e + 1 = epoch'
                            => ListNodesEpoch(e)' = ListNodes]_vars

(* GetEpochBlockByTime returns the block of the latest known epoch that    *)
(* came by the given time, 0 when there is none (its doc comment).         *)
BlockByTimeCorrect(ts) ==
    LET known == {e \in DOMAIN epochItems : epochItems[e] <= ts}
    IN  GetEpochBlockByTime(ts) =
          IF known = {} THEN 0
          ELSE epochItems[CHOOSE e \in known : \A f \in known : f <= e]

(* The search is right for every time as long as no tick skipped an epoch. *)
BlockByTimeWithoutJumps ==
    DOMAIN epochItems = 1..epoch => \A ts \in 0..MaxBlock : BlockByTimeCorrect(ts)

(* How often a tick calls a contract (the loop of cleanup). *)
Calls == [c \in Contracts |-> Cardinality({s \in subscribers : s[2] = c})]

(* A tick calls a contract once if the last thing asked for it was to be   *)
(* subscribed and not at all if it was to be unsubscribed, whatever is     *)
(* asked for others in between and although their numbers are then used    *)
(* again (subscribeForNewEpoch, unsubscribeFromNewEpoch).                  *)
CallsAsAsked ==
    [][\A signers \in Signers, c \in Contracts :
          /\ SubscribeForNewEpoch(signers, c) => Calls' = [Calls EXCEPT ![c] = 1]
          /\ UnsubscribeFromNewEpoch(signers, c)
                => Calls' = [Calls EXCEPT ![c] = 0]]_vars

(* The network map as its users see it. *)
EpochMapView == INSTANCE EpochMap
    WITH NodeInfo <- Node2, proposed <- View(candidates), current <- ListNodes

(* The contract implements the abstract network map: between ticks the map *)
(* in force does not move, a tick makes it the candidates.                 *)
ImplementsEpochMap == EpochMapView!Spec
=============================================================================
