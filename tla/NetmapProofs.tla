---------------------------- MODULE NetmapProofs ----------------------------
(***************************************************************************)
(* Proofs about Netmap for every set of nodes, history length and cleanup  *)
(* threshold.  The argument: the contract keeps, for each epoch that came, *)
(* a key of the epoch-to-version index that answers it (IndexInv); the     *)
(* stored versions are an unbroken run up to the current one               *)
(* (RetentionRun); and the flag is down only while the candidates still    *)
(* look like the current version (FlagAccurate).  The three are inductive  *)
(* together: a tick that emits no version is right only because of the     *)
(* flag, and the flag is about the version the retention keeps.            *)
(***************************************************************************)
EXTENDS Netmap, Sums, FiniteSetTheorems, TLAPS

(* Every epoch that came has its index key, and the version it names is    *)
(* that epoch's map, unless it was dropped.                                *)
IndexInv ==
    /\ epoch \in DOMAIN history
    /\ \A e \in DOMAIN history :
          /\ e \in 0..epoch
          /\ \E k \in DOMAIN epochToNetmapVersion :
                /\ LatestKey(k, e)
                /\ e = epoch => epochToNetmapVersion[k] = netmapVersion
                /\ epochToNetmapVersion[k] \in DOMAIN netmaps \cup {0}
                      => ListNodesVersion(epochToNetmapVersion[k]) = history[e]
    /\ \A k \in DOMAIN epochToNetmapVersion :
          /\ k \in 0..epoch
          /\ epochToNetmapVersion[k] \in 0..netmapVersion

Inv == TypeOK /\ RetentionRun /\ FlagAccurate /\ IndexInv

(* The index key of an epoch is unique, so the scan finds it. *)
LEMMA LatestKeyUnique ==
    ASSUME TypeOK, NEW e \in Nat,
           NEW k \in DOMAIN epochToNetmapVersion, LatestKey(k, e)
    PROVE  NmVersionForEpoch(e) = epochToNetmapVersion[k]
<1>1. \A j \in DOMAIN epochToNetmapVersion : LatestKey(j, e) => j = k
  BY DEF TypeOK, LatestKey
<1>2. (CHOOSE j \in DOMAIN epochToNetmapVersion : LatestKey(j, e)) = k
  BY <1>1
<1> QED BY <1>2 DEF NmVersionForEpoch

LEMMA InitInv == Init => Inv
<1> SUFFICES ASSUME Init PROVE Inv
  OBVIOUS
<1> USE NetmapAssumption
<1>1. TypeOK
  <2>1. DOMAIN Empty = {} /\ Empty \in [{} -> Candidate]
        /\ Empty \in [{} -> 1..MaxBlock]
    BY DEF Empty
  <2>2. DOMAIN candidates \subseteq Nodes /\ candidates \in [DOMAIN candidates -> Candidate]
    BY <2>1 DEF Init
  <2>3. /\ DOMAIN netmaps \subseteq Nat
        /\ \A v \in DOMAIN netmaps : /\ DOMAIN netmaps[v] \subseteq Nodes
                                     /\ netmaps[v] \in [DOMAIN netmaps[v] -> Node2]
    BY <2>1 DEF Init
  <2>4. DOMAIN epochItems \subseteq Nat /\ epochItems \in [DOMAIN epochItems -> 1..MaxBlock]
    BY <2>1 DEF Init
  <2>5. /\ DOMAIN epochToNetmapVersion \subseteq Nat
        /\ epochToNetmapVersion \in [DOMAIN epochToNetmapVersion -> Nat]
    BY DEF Init
  <2> QED BY <2>2, <2>3, <2>4, <2>5, FS_EmptySet DEF Init, TypeOK
<1>2. RetentionRun
  BY DEF Init, RetentionRun, Empty
<1>3. FlagAccurate
  BY DEF Init, FlagAccurate, ListNodes, ListNodesVersion, NetworkMapVersion,
         View, Empty
<1>4. IndexInv
  <2>1. LatestKey(0, 0)
    BY DEF Init, LatestKey
  <2> QED BY <2>1 DEF Init, IndexInv, ListNodesVersion, Empty
<1> QED BY <1>1, <1>2, <1>3, <1>4 DEF Inv

(* What a tick does to the candidates. *)
LEMMA NotStaleType ==
    ASSUME NEW c, DOMAIN c \subseteq Nodes, c \in [DOMAIN c -> Candidate],
           NEW n \in Nat
    PROVE  /\ DOMAIN NotStale(c, n) \subseteq Nodes
           /\ NotStale(c, n) \in [DOMAIN NotStale(c, n) -> Candidate]
BY DEF NotStale

LEMMA ViewType ==
    ASSUME NEW c, DOMAIN c \subseteq Nodes, c \in [DOMAIN c -> Candidate]
    PROVE  /\ DOMAIN View(c) \subseteq Nodes
           /\ View(c) \in [DOMAIN View(c) -> Node2]
BY DEF View, Candidate, Node2

(* A tick keeps the invariant, whatever the same transaction did to the    *)
(* candidates before it, as long as it then raised the flag.               *)
LEMMA TickInv ==
    ASSUME Inv, NEW c, DOMAIN c \subseteq Nodes, c \in [DOMAIN c -> Candidate],
           NEW changed \in BOOLEAN,
           changed \/ (c = candidates /\ ~netmapChanged),
           NEW n \in Nat, NEW b \in 1..MaxBlock,
           Tick(c, changed, n, b)
    PROVE  Inv'
<1> DEFINE kept == NotStale(c, n)
           emits == EmitsVersion(c, changed, n)
           version == IF emits THEN netmapVersion + 1 ELSE netmapVersion
           stored == IF emits THEN Put(netmaps, version, View(kept)) ELSE netmaps
<1>1. /\ n > epoch
      /\ epoch' = n /\ candidates' = kept /\ netmapVersion' = version
      /\ netmaps' = DropNetmaps(stored, version, snapshotCount)
      /\ epochToNetmapVersion' = IF emits THEN Put(epochToNetmapVersion, n, version)
                                 ELSE epochToNetmapVersion
      /\ netmapChanged' = FALSE
      /\ epochItems' = Put(epochItems, n, b)
      /\ history' = Put(history, n, View(kept))
      /\ UNCHANGED settings
  BY DEF Tick
<1>2. /\ DOMAIN kept \subseteq Nodes /\ kept \in [DOMAIN kept -> Candidate]
      /\ DOMAIN View(kept) \subseteq Nodes
      /\ View(kept) \in [DOMAIN View(kept) -> Node2]
  BY NotStaleType, ViewType
<1>3. emits \in BOOLEAN /\ netmapVersion \in Nat /\ snapshotCount \in Nat
      /\ epoch \in Nat /\ version \in Nat
  BY DEF Inv, TypeOK, EmitsVersion
<1> HIDE DEF kept, emits
<1>4. /\ DOMAIN stored = DOMAIN netmaps \cup (IF emits THEN {version} ELSE {})
      /\ \A v \in DOMAIN netmaps : v \in 1..netmapVersion /\ stored[v] = netmaps[v]
      /\ emits => stored[version] = View(kept)
  BY <1>3 DEF Put, Inv, RetentionRun, TypeOK
<1>5. /\ DOMAIN netmaps' = {v \in DOMAIN stored : v >= version - snapshotCount}
      /\ \A v \in DOMAIN netmaps' : netmaps'[v] = stored[v]
  BY <1>1 DEF DropNetmaps
<1> HIDE DEF stored
<1>6. ~emits => View(kept) = ListNodes
  <2> SUFFICES ASSUME ~emits PROVE View(kept) = ListNodes
    OBVIOUS
  <2>1. kept = c /\ ~changed
    BY Zenon DEF emits, EmitsVersion, kept
  <2> QED BY <2>1 DEF Inv, FlagAccurate
<1>7. ListNodes' = View(kept)
  <2>1. CASE emits
    <3>1. version \in DOMAIN netmaps' /\ netmaps'[version] = View(kept)
      BY <1>3, <1>4, <1>5, <2>1
    <3> QED BY <1>1, <3>1 DEF ListNodes, ListNodesVersion, NetworkMapVersion
  <2>2. CASE ~emits
    <3>1. /\ version = netmapVersion /\ version # 0 => version \in DOMAIN netmaps
      BY <2>2 DEF Inv, RetentionRun
    <3>2. version \in DOMAIN netmaps' <=> version \in DOMAIN netmaps
      BY <1>3, <1>4, <1>5, <2>2
    <3> QED BY <1>1, <1>4, <1>5, <1>6, <2>2, <3>1, <3>2
            DEF ListNodesVersion, ListNodes, NetworkMapVersion
  <2> QED BY <2>1, <2>2
<1>8. TypeOK'
  <2>1. (/\ DOMAIN netmaps \subseteq Nat
         /\ \A v \in DOMAIN netmaps : /\ DOMAIN netmaps[v] \subseteq Nodes
                                      /\ netmaps[v] \in [DOMAIN netmaps[v] -> Node2])'
    BY <1>2, <1>3, <1>4, <1>5 DEF Inv, TypeOK
  <2>2. (/\ DOMAIN epochToNetmapVersion \subseteq Nat
         /\ epochToNetmapVersion \in [DOMAIN epochToNetmapVersion -> Nat])'
    BY <1>1, <1>3 DEF Inv, TypeOK, Put
  <2>3. (/\ DOMAIN epochItems \subseteq Nat
         /\ epochItems \in [DOMAIN epochItems -> 1..MaxBlock])'
    BY <1>1 DEF Inv, TypeOK, Put
  <2> QED BY <1>1, <1>2, <1>3, <2>1, <2>2, <2>3 DEF Inv, TypeOK, settings
<1>9. RetentionRun'
  <2>1. \A v \in DOMAIN netmaps' :
           /\ v \in 1..version /\ v >= version - snapshotCount
           /\ \A w \in v..version : w \in DOMAIN netmaps'
    <3> SUFFICES ASSUME NEW v \in DOMAIN netmaps'
                 PROVE  /\ v \in 1..version /\ v >= version - snapshotCount
                        /\ \A w \in v..version : w \in DOMAIN netmaps'
      OBVIOUS
    <3>1. v \in 1..version /\ v >= version - snapshotCount
      BY <1>3, <1>4, <1>5
    <3>2. \A w \in v..version : w \in DOMAIN stored
      BY <1>3, <1>4, <1>5, <3>1 DEF Inv, RetentionRun
    <3> QED BY <1>3, <1>5, <3>1, <3>2
  <2>2. version # 0 => version \in DOMAIN netmaps'
    BY <1>3, <1>4, <1>5 DEF Inv, RetentionRun
  <2> QED BY <1>1, <2>1, <2>2 DEF RetentionRun, settings
<1>10. FlagAccurate'
  BY <1>1, <1>7 DEF FlagAccurate
<1>11. IndexInv'
  <2> DEFINE etv == epochToNetmapVersion
  <2>1. \A k \in DOMAIN etv : k \in 0..epoch /\ etv[k] \in 0..netmapVersion
    BY DEF Inv, IndexInv
  <2>2. /\ \A k \in DOMAIN etv : k \in DOMAIN etv' /\ etv'[k] = etv[k]
        /\ \A k \in DOMAIN etv' : k \in DOMAIN etv \/ (emits /\ k = n)
        /\ emits => n \in DOMAIN etv' /\ etv'[n] = version
    BY <1>1, <1>3, <2>1 DEF Put
  <2>3. /\ DOMAIN history' = DOMAIN history \cup {n}
        /\ history'[n] = View(kept)
        /\ \A e \in DOMAIN history : e \in 0..epoch /\ history'[e] = history[e]
    BY <1>1, <1>3 DEF Put, Inv, IndexInv
  <2>4. \A k \in DOMAIN etv' : k \in 0..n /\ etv'[k] \in 0..version
    BY <1>1, <1>3, <2>1, <2>2
  <2>5. ASSUME NEW e \in DOMAIN history
        PROVE  \E k \in DOMAIN etv' :
                  /\ LatestKey(k, e)'
                  /\ etv'[k] \in DOMAIN netmaps' \cup {0}
                        => ListNodesVersion(etv[k])' = history'[e]
    <3>1. PICK k \in DOMAIN etv :
             /\ LatestKey(k, e)
             /\ etv[k] \in DOMAIN netmaps \cup {0}
                   => ListNodesVersion(etv[k]) = history[e]
      BY DEF Inv, IndexInv
    <3>2. LatestKey(k, e)'
      BY <1>1, <1>3, <2>2, <2>3, <3>1 DEF LatestKey
    <3>3. ASSUME etv[k] \in DOMAIN netmaps' \cup {0}
          PROVE  ListNodesVersion(etv[k])' = history[e]
      <4>1. etv[k] \in DOMAIN netmaps' <=> etv[k] \in DOMAIN netmaps
        BY <1>3, <1>4, <1>5, <2>1, <3>1, <3>3
      <4>2. etv[k] \in DOMAIN netmaps => netmaps'[etv[k]] = netmaps[etv[k]]
        BY <1>4, <1>5, <4>1
      <4> QED BY <2>2, <3>1, <3>3, <4>1, <4>2 DEF ListNodesVersion
    <3> QED BY <2>2, <2>3, <3>1, <3>2, <3>3
  <2>6. \E k \in DOMAIN etv' : /\ LatestKey(k, n)'
                               /\ etv'[k] = version
                               /\ ListNodesVersion(etv[k])' = history'[n]
    <3>1. CASE emits
      <4>1. LatestKey(n, n)'
        BY <1>1, <2>4, <1>3 DEF LatestKey
      <4> QED BY <1>1, <1>7, <2>2, <2>3, <3>1, <4>1
              DEF ListNodes, ListNodesVersion, NetworkMapVersion
    <3>2. CASE ~emits
      <4>1. PICK k \in DOMAIN etv : LatestKey(k, epoch) /\ etv[k] = netmapVersion
        BY DEF Inv, IndexInv
      <4>2. LatestKey(k, n)'
        BY <1>1, <1>3, <2>1, <2>2, <3>2, <4>1 DEF LatestKey
      <4> QED BY <1>1, <1>7, <2>2, <2>3, <3>2, <4>1, <4>2
              DEF ListNodes, ListNodesVersion, NetworkMapVersion
    <3> QED BY <3>1, <3>2
  <2>7. ASSUME NEW e \in DOMAIN history'
        PROVE  /\ e \in 0..n
               /\ \E k \in DOMAIN etv' :
                     /\ LatestKey(k, e)'
                     /\ e = n => etv'[k] = version
                     /\ etv'[k] \in DOMAIN netmaps' \cup {0}
                           => ListNodesVersion(etv[k])' = history'[e]
    <3>1. CASE e = n
      BY <2>6, <3>1, <1>3
    <3>2. CASE e \in DOMAIN history /\ e # n
      BY <1>1, <1>3, <2>3, <2>5, <3>2
    <3> QED BY <2>3, <3>1, <3>2
  <2> QED BY <1>1, <2>3, <2>4, <2>7 DEF IndexInv
<1> QED BY <1>8, <1>9, <1>10, <1>11 DEF Inv

(* Actions that leave the stored maps, the index and the epoch alone keep  *)
(* the invariant if they keep the types and do not lower the flag on a     *)
(* changed candidate.                                                      *)
LEMMA SameMapsInv ==
    ASSUME Inv, TypeOK', UNCHANGED <<epoch, mapVars, snapshotCount>>,
           netmapChanged' \/ UNCHANGED <<candidates, netmapChanged>>
              \/ (netmapChanged' = netmapChanged /\ View(candidates') = View(candidates))
    PROVE  Inv'
<1>1. UNCHANGED <<epoch, netmapVersion, netmaps, epochToNetmapVersion,
                  epochItems, history, snapshotCount>>
  BY DEF mapVars
<1>2. RetentionRun'
  BY <1>1 DEF Inv, RetentionRun
<1>3. ListNodes' = ListNodes
  BY <1>1 DEF ListNodes, ListNodesVersion, NetworkMapVersion
<1>4. FlagAccurate'
  <2>1. CASE netmapChanged'
    BY <2>1 DEF FlagAccurate
  <2>2. CASE netmapChanged' = netmapChanged /\ View(candidates') = View(candidates)
    BY <2>2, <1>3 DEF FlagAccurate, Inv
  <2>3. CASE UNCHANGED <<candidates, netmapChanged>>
    BY <2>3, <1>3 DEF FlagAccurate, Inv
  <2> QED BY <2>1, <2>2, <2>3
<1>5. IndexInv'
  BY <1>1 DEF Inv, IndexInv, LatestKey, ListNodesVersion
<1> QED BY <1>2, <1>4, <1>5 DEF Inv

LEMMA AddNodeInv ==
    ASSUME Inv, NEW signers, NEW k \in Nodes, NEW a \in Attributes,
           NEW total, NEW b \in 1..MaxBlock, AddNode(signers, k, a, total, b)
    PROVE  Inv'
<1> DEFINE new == Put(candidates, k, [state |-> Online, attributes |-> a,
                                      lastActiveEpoch |-> Epoch])
<1>1. DOMAIN new \subseteq Nodes /\ new \in [DOMAIN new -> Candidate]
  BY DEF Put, Inv, TypeOK, Candidate, Epoch, Online
<1> HIDE DEF new
<1>2. CASE Tick(new, TRUE, Epoch + 1, b)
  <2>1. Epoch + 1 \in Nat
    BY DEF Inv, TypeOK, Epoch
  <2> QED BY <1>1, <1>2, <2>1, TickInv
<1>3. CASE /\ candidates' = new /\ netmapChanged' = TRUE
           /\ UNCHANGED <<epoch, mapVars, settings>>
  <2>1. TypeOK'
    BY <1>1, <1>3 DEF Inv, TypeOK, mapVars, settings
  <2> QED BY <1>3, <2>1, SameMapsInv DEF settings
<1> QED BY <1>2, <1>3 DEF AddNode, new

LEMMA UpdateCandidateStateInv ==
    ASSUME Inv, NEW k \in Nodes, NEW state \in StateType,
           UpdateCandidateState(k, state)
    PROVE  Inv'
<1>1. UNCHANGED <<epoch, mapVars, settings>>
  BY DEF UpdateCandidateState
<1>2. CASE /\ candidates' = Without(candidates, k)
           /\ netmapChanged' = TRUE
  <2>1. TypeOK'
    BY <1>1, <1>2 DEF Inv, TypeOK, Without, mapVars, settings
  <2> QED BY <1>1, <1>2, <2>1, SameMapsInv DEF settings
<1>3. CASE /\ state \in {Online, Maintenance}
           /\ k \in DOMAIN candidates
           /\ candidates' = [candidates EXCEPT ![k] =
                 [state |-> state, attributes |-> candidates[k].attributes,
                  lastActiveEpoch |-> Epoch]]
           /\ netmapChanged' = (netmapChanged \/ candidates[k].state # state)
  <2>1. /\ candidates[k] \in Candidate
        /\ candidates' = [candidates EXCEPT ![k] =
              [state |-> state, attributes |-> candidates[k].attributes,
               lastActiveEpoch |-> epoch]]
    BY <1>3 DEF Inv, TypeOK, Epoch
  <2>2. TypeOK'
    <3>1. DOMAIN candidates' \subseteq Nodes
          /\ candidates' \in [DOMAIN candidates' -> Candidate]
      BY <1>3, <2>1 DEF Inv, TypeOK, Candidate
    <3>2. netmapChanged' \in BOOLEAN
      BY <1>3
    <3> QED BY <1>1, <3>1, <3>2 DEF Inv, TypeOK, mapVars, settings
  <2>3. CASE candidates[k].state = state
    <3>1. View(candidates') = View(candidates)
      BY <1>3, <2>1, <2>3 DEF View, Candidate
    <3>2. netmapChanged' = netmapChanged
      BY Zenon, <1>3, <2>3, netmapChanged \in BOOLEAN DEF Inv, TypeOK
    <3> QED BY <1>1, <2>2, <3>1, <3>2, SameMapsInv DEF settings
  <2>4. CASE candidates[k].state # state
    <3>1. netmapChanged'
      BY <1>3, <2>4
    <3> QED BY <1>1, <2>2, <3>1, SameMapsInv DEF settings
  <2> QED BY <2>3, <2>4
<1> QED BY <1>2, <1>3 DEF UpdateCandidateState

LEMMA UpdateSnapshotCountInv ==
    ASSUME Inv, NEW signers, NEW count \in SnapshotCounts,
           UpdateSnapshotCount(signers, count)
    PROVE  Inv' /\ ListNodes' = ListNodes
<1> USE NetmapAssumption
<1>1. /\ count \in Nat /\ snapshotCount' = count
      /\ UNCHANGED <<epoch, candidates, netmapVersion, epochToNetmapVersion,
                     netmapChanged, cleanupThreshold, epochItems, subscribers,
                     config, history>>
  BY DEF UpdateSnapshotCount
<1>2. /\ DOMAIN netmaps' = {v \in DOMAIN netmaps : v >= netmapVersion - count}
      /\ \A v \in DOMAIN netmaps' : netmaps'[v] = netmaps[v]
  BY DEF UpdateSnapshotCount, DropNetmaps
<1>3. /\ netmapVersion \in Nat
      /\ \A v \in DOMAIN netmaps : v \in 1..netmapVersion
  BY DEF Inv, TypeOK, RetentionRun
<1>4. TypeOK'
  BY <1>1, <1>2 DEF Inv, TypeOK
<1>5. RetentionRun'
  <2>1. \A v \in DOMAIN netmaps' : \A w \in v..netmapVersion : w \in DOMAIN netmaps'
    BY <1>1, <1>2, <1>3 DEF Inv, RetentionRun
  <2> QED BY <1>1, <1>2, <1>3, <2>1 DEF Inv, RetentionRun
<1>6. ListNodes' = ListNodes
  BY <1>1, <1>2, <1>3 DEF ListNodes, ListNodesVersion, NetworkMapVersion
<1>7. FlagAccurate'
  BY <1>1, <1>6 DEF Inv, FlagAccurate
<1>8. IndexInv'
  <2> SUFFICES ASSUME NEW e \in DOMAIN history
               PROVE  \E k \in DOMAIN epochToNetmapVersion :
                        /\ LatestKey(k, e)
                        /\ e = epoch => epochToNetmapVersion[k] = netmapVersion
                        /\ epochToNetmapVersion[k] \in DOMAIN netmaps' \cup {0}
                             => ListNodesVersion(epochToNetmapVersion[k])' = history[e]
    BY <1>1 DEF Inv, IndexInv, LatestKey
  <2>1. PICK k \in DOMAIN epochToNetmapVersion :
           /\ LatestKey(k, e)
           /\ e = epoch => epochToNetmapVersion[k] = netmapVersion
           /\ epochToNetmapVersion[k] \in DOMAIN netmaps \cup {0}
                 => ListNodesVersion(epochToNetmapVersion[k]) = history[e]
    BY DEF Inv, IndexInv
  <2> QED BY <1>1, <1>2, <1>3, <2>1 DEF ListNodesVersion
<1> QED BY <1>4, <1>5, <1>6, <1>7, <1>8 DEF Inv

LEMMA SettingsInv ==
    ASSUME Inv, NEW signers,
           \/ \E val \in Thresholds : SetCleanupThreshold(signers, val)
           \/ \E key \in ConfigKeys, val \in ConfigValues :
                 SetConfig(signers, key, val)
           \/ \E c \in Contracts : \/ SubscribeForNewEpoch(signers, c)
                                   \/ UnsubscribeFromNewEpoch(signers, c)
    PROVE  Inv' /\ UNCHANGED <<epoch, candidates, mapVars>>
<1> USE NetmapAssumption
<1>1. UNCHANGED <<epoch, candidates, netmapChanged, mapVars, snapshotCount>>
  BY DEF SetCleanupThreshold, SetConfig, SubscribeForNewEpoch,
         UnsubscribeFromNewEpoch
<1>2. cleanupThreshold' \in Nat
  BY DEF SetCleanupThreshold, SetConfig, SubscribeForNewEpoch,
         UnsubscribeFromNewEpoch, Inv, TypeOK
<1>3. config' \subseteq ConfigKeys \X ConfigValues
  BY DEF SetCleanupThreshold, SetConfig, SubscribeForNewEpoch,
         UnsubscribeFromNewEpoch, Inv, TypeOK
<1>4. subscribers' \subseteq Nat \X Contracts /\ IsFiniteSet(subscribers')
  <2>1. /\ subscribers \subseteq Nat \X Contracts /\ IsFiniteSet(subscribers)
        /\ Cardinality(subscribers) \in Nat
    BY FS_CardinalityType DEF Inv, TypeOK
  <2>2. CASE \E c \in Contracts : SubscribeForNewEpoch(signers, c)
    <3>1. PICK c \in Contracts :
             subscribers' = subscribers
             \/ subscribers' = subscribers \cup {<<Cardinality(subscribers), c>>}
      BY <2>2 DEF SubscribeForNewEpoch
    <3>2. <<Cardinality(subscribers), c>> \in Nat \X Contracts
      BY <2>1
    <3>3. IsFiniteSet(subscribers \cup {<<Cardinality(subscribers), c>>})
      BY <2>1, FS_AddElement
    <3> QED BY <2>1, <3>1, <3>2, <3>3
  <2>3. CASE \E c \in Contracts : UnsubscribeFromNewEpoch(signers, c)
    <3>1. subscribers' \in SUBSET subscribers
      BY <2>3 DEF UnsubscribeFromNewEpoch
    <3> QED BY <2>1, <3>1, FS_Subset
  <2>4. CASE UNCHANGED subscribers
    BY <2>1, <2>4
  <2> QED BY <2>2, <2>3, <2>4 DEF SetCleanupThreshold, SetConfig
<1>5. TypeOK'
  BY <1>1, <1>2, <1>3, <1>4 DEF Inv, TypeOK, mapVars
<1> QED BY <1>1, <1>5, SameMapsInv

LEMMA NextInv == Inv /\ [Next]_vars => Inv'
<1> SUFFICES ASSUME Inv, [Next]_vars PROVE Inv'
  OBVIOUS
<1>1. ASSUME NEW signers, NEW k \in Nodes, NEW a \in Attributes,
             NEW total, NEW b \in 1..MaxBlock,
             AddNode(signers, k, a, total, b)
      PROVE  Inv'
  BY <1>1, AddNodeInv
<1>2. ASSUME NEW signers, NEW k \in Nodes, DeleteNode(signers, k)
      PROVE  Inv'
  BY <1>2, UpdateCandidateStateInv DEF DeleteNode, StateType
<1>3. ASSUME NEW signers, NEW k \in Nodes, NEW s \in StateType,
             UpdateState(signers, s, k)
      PROVE  Inv'
  BY <1>3, UpdateCandidateStateInv DEF UpdateState
<1>4. ASSUME NEW signers, NEW n \in 1..MaxEpoch, NEW b \in 1..MaxBlock,
             NewEpoch(signers, n, b)
      PROVE  Inv'
  <2>1. /\ n \in Nat /\ netmapChanged \in BOOLEAN
        /\ DOMAIN candidates \subseteq Nodes
        /\ candidates \in [DOMAIN candidates -> Candidate]
    BY NetmapAssumption DEF Inv, TypeOK
  <2>2. Tick(candidates, netmapChanged, n, b)
    BY <1>4 DEF NewEpoch
  <2> QED BY <2>1, <2>2, TickInv
<1>5. ASSUME NEW signers, NEW count \in SnapshotCounts,
             UpdateSnapshotCount(signers, count)
      PROVE  Inv'
  BY <1>5, UpdateSnapshotCountInv
<1>6. ASSUME NEW signers,
             \/ \E val \in Thresholds : SetCleanupThreshold(signers, val)
             \/ \E key \in ConfigKeys, val \in ConfigValues :
                   SetConfig(signers, key, val)
             \/ \E c \in Contracts : \/ SubscribeForNewEpoch(signers, c)
                                     \/ UnsubscribeFromNewEpoch(signers, c)
      PROVE  Inv'
  BY <1>6, SettingsInv
<1>7. CASE UNCHANGED vars
  BY <1>7 DEF vars, Inv, TypeOK, RetentionRun, FlagAccurate, IndexInv, LatestKey,
     ListNodes, ListNodesVersion, NetworkMapVersion, View
<1> QED BY <1>1, <1>2, <1>3, <1>4, <1>5, <1>6, <1>7 DEF Next

(* The inductive invariant of the contract: types, the run of stored       *)
(* versions, the truth of the flag and the index of versions by epoch.     *)
THEOREM InvHolds == Spec => []Inv
BY InitInv, NextInv, PTL DEF Spec

(* Every variable keeps its type: no epoch, version or stored map outside  *)
(* what the storage layout in doc.go says.                                 *)
THEOREM TypeCorrect == Spec => []TypeOK
<1>1. Inv => TypeOK
  BY DEF Inv
<1> QED BY <1>1, InvHolds, PTL

(* While the changed flag is down, the map in force is what the candidates *)
(* would make it (setNetmapChangedFlag, updateNetmap).                     *)
THEOREM FlagIsAccurate == Spec => []FlagAccurate
<1>1. Inv => FlagAccurate
  BY DEF Inv
<1> QED BY <1>1, InvHolds, PTL

(* dropNetmaps leaves an unbroken run of at most snapshotCount versions    *)
(* below the current one, and never drops the current one.                 *)
THEOREM RetentionIsRun == Spec => []RetentionRun
<1>1. Inv => RetentionRun
  BY DEF Inv
<1> QED BY <1>1, InvHolds, PTL

(* listNodes and isStorageNodeStatus answer every past epoch whose version *)
(* is still stored with the map that epoch had.                            *)
THEOREM HistoryIsFaithful == Spec => []HistoryFaithful
<1>1. Inv => HistoryFaithful
  <2> SUFFICES ASSUME Inv, NEW e \in DOMAIN history,
                      NmVersionForEpoch(e) \in DOMAIN netmaps \cup {0}
               PROVE  ListNodesEpoch(e) = history[e]
    BY DEF HistoryFaithful
  <2>1. PICK k \in DOMAIN epochToNetmapVersion :
           /\ LatestKey(k, e)
           /\ epochToNetmapVersion[k] \in DOMAIN netmaps \cup {0}
                 => ListNodesVersion(epochToNetmapVersion[k]) = history[e]
    BY DEF Inv, IndexInv
  <2>2. NmVersionForEpoch(e) = epochToNetmapVersion[k]
    <3>1. e \in Nat /\ TypeOK
      BY DEF Inv, IndexInv, TypeOK
    <3> QED BY <2>1, <3>1, LatestKeyUnique
  <2> QED BY <2>1, <2>2 DEF ListNodesEpoch
<1> QED BY <1>1, InvHolds, PTL

(* What a step may do to the candidates, the map in force and the epoch:   *)
(* a tick, or a step that moves neither the epoch nor the map in force.    *)
LEMMA StepKinds ==
    ASSUME Inv, Next
    PROVE  \/ \E c, changed, n, b : n \in Nat /\ Tick(c, changed, n, b)
           \/ epoch' = epoch /\ ListNodes' = ListNodes
<1> DEFINE Ticks == \E c, changed, n, b : n \in Nat /\ Tick(c, changed, n, b)
           Stays == epoch' = epoch /\ ListNodes' = ListNodes
<1>0. ASSUME UNCHANGED <<epoch, mapVars>> PROVE Stays
  BY <1>0 DEF mapVars, ListNodes, ListNodesVersion, NetworkMapVersion
<1>1. ASSUME NEW signers, NEW k \in Nodes, NEW a \in Attributes,
             NEW total, NEW b \in 1..MaxBlock,
             AddNode(signers, k, a, total, b)
      PROVE  Ticks \/ Stays
  <2>1. epoch + 1 \in Nat
    BY DEF Inv, TypeOK
  <2>2. CASE UNCHANGED <<epoch, mapVars>>
    BY <2>2, <1>0
  <2>3. CASE \E c : Tick(c, TRUE, epoch + 1, b)
    BY <2>1, <2>3
  <2> HIDE DEF Ticks, Stays
  <2> QED BY <1>1, <2>2, <2>3 DEF AddNode, Epoch
<1>2. ASSUME NEW signers, NEW n \in 1..MaxEpoch, NEW b \in 1..MaxBlock,
             NewEpoch(signers, n, b)
      PROVE  Ticks
  BY <1>2, NetmapAssumption DEF NewEpoch
<1>3. ASSUME NEW k, NEW s, UpdateCandidateState(k, s)
      PROVE  Stays
  BY <1>3, <1>0 DEF UpdateCandidateState
<1>4. ASSUME NEW signers, NEW count \in SnapshotCounts,
             UpdateSnapshotCount(signers, count)
      PROVE  Stays
  BY <1>4, UpdateSnapshotCountInv DEF UpdateSnapshotCount
<1>5. ASSUME NEW signers,
             \/ \E val \in Thresholds : SetCleanupThreshold(signers, val)
             \/ \E key \in ConfigKeys, val \in ConfigValues :
                   SetConfig(signers, key, val)
             \/ \E c \in Contracts : \/ SubscribeForNewEpoch(signers, c)
                                     \/ UnsubscribeFromNewEpoch(signers, c)
      PROVE  Stays
  BY <1>5, <1>0, SettingsInv
<1>6. Ticks \/ Stays
  <2> HIDE DEF Ticks, Stays
  <2> QED BY <1>1, <1>2, <1>3, <1>4, <1>5 DEF Next, DeleteNode, UpdateState
<1> QED BY <1>6

(* A tick keeps the version of the epoch that it ends.                     *)
LEMMA PreviousKept ==
    ASSUME Inv, [Next]_vars, snapshotCount >= 1,
           NEW e \in 0..MaxEpoch, e >= epoch, e + 1 = epoch'
    PROVE  ListNodesEpoch(e)' = ListNodes
<1>1. epoch \in Nat /\ netmapVersion \in Nat /\ snapshotCount \in Nat
      /\ TypeOK /\ epoch' # epoch
  BY DEF Inv, TypeOK
<1>2. PICK c, changed, n, b : n \in Nat /\ Tick(c, changed, n, b)
  BY <1>1, StepKinds DEF vars
<1> DEFINE emits == EmitsVersion(c, changed, n)
           version == IF emits THEN netmapVersion + 1 ELSE netmapVersion
           stored == IF emits THEN Put(netmaps, version, View(NotStale(c, n)))
                     ELSE netmaps
<1>3. /\ epoch' = n /\ n > epoch
      /\ netmaps' = DropNetmaps(stored, version, snapshotCount)
      /\ epochToNetmapVersion' =
            IF emits THEN Put(epochToNetmapVersion, n, version)
            ELSE epochToNetmapVersion
  BY <1>2 DEF Tick
<1> HIDE DEF emits
<1>4. PICK k \in DOMAIN epochToNetmapVersion :
         LatestKey(k, epoch) /\ epochToNetmapVersion[k] = netmapVersion
  BY DEF Inv, IndexInv
<1>5. \A j \in DOMAIN epochToNetmapVersion : j \in 0..epoch
  BY DEF Inv, IndexInv
<1>6. /\ k \in DOMAIN epochToNetmapVersion'
      /\ epochToNetmapVersion'[k] = netmapVersion
      /\ \A j \in DOMAIN epochToNetmapVersion' :
            j = n \/ j \in DOMAIN epochToNetmapVersion
  BY <1>1, <1>3, <1>4, <1>5 DEF Put
<1>7. \A j \in DOMAIN epochToNetmapVersion' : LatestKey(j, e)' <=> j = k
  BY <1>1, <1>2, <1>3, <1>4, <1>5, <1>6 DEF LatestKey
<1>8. NmVersionForEpoch(e)' = netmapVersion
  <2>1. (CHOOSE j \in DOMAIN epochToNetmapVersion' : LatestKey(j, e)') = k
    BY <1>6, <1>7
  <2> QED BY <1>6, <2>1 DEF NmVersionForEpoch
<1>9. /\ netmapVersion \in DOMAIN netmaps <=> netmapVersion \in DOMAIN netmaps'
      /\ netmapVersion \in DOMAIN netmaps
            => netmaps'[netmapVersion] = netmaps[netmapVersion]
  BY <1>1, <1>3 DEF DropNetmaps, Put
<1> QED BY <1>8, <1>9 DEF ListNodesEpoch, ListNodesVersion, ListNodes,
                          NetworkMapVersion

(* Settlement at epoch e + 1 asks for the nodes of epoch e: one retained   *)
(* snapshot is enough to answer, across any jump.                          *)
THEOREM PreviousEpochIsKept == Spec => TickKeepsPrevious
<1>1. Inv /\ [Next]_vars
         => [snapshotCount >= 1
               => \A e \in 0..MaxEpoch : e >= epoch /\ e + 1 = epoch'
                     => ListNodesEpoch(e)' = ListNodes]_vars
  BY PreviousKept
<1> QED BY <1>1, InvHolds, PTL DEF Spec, TickKeepsPrevious

(* Seen through listNodes, the versioned, flagged, pruned storage is the   *)
(* abstract network map: constant between ticks, the candidates after one. *)
THEOREM NetmapImplementsEpochMap == Spec => ImplementsEpochMap
<1>1. Init => EpochMapView!Init
  <2> SUFFICES ASSUME Init PROVE EpochMapView!Init
    OBVIOUS
  <2>1. View(candidates) \in [{} -> Node2]
    BY DEF Init, View, Empty
  <2>2. ListNodes = View(candidates)
    BY DEF Init, View, Empty, ListNodes, ListNodesVersion, NetworkMapVersion
  <2> QED BY <2>1, <2>2 DEF Init, EpochMapView!Init
<1>2. Inv /\ Inv' /\ [Next]_vars => [EpochMapView!Next]_(EpochMapView!vars)
  <2> SUFFICES ASSUME Inv, Inv', [Next]_vars
               PROVE  EpochMapView!Next \/ UNCHANGED EpochMapView!vars
    OBVIOUS
  <2>1. View(candidates)' \in EpochMapView!Maps
    <3>1. /\ DOMAIN candidates' \subseteq Nodes
          /\ candidates' \in [DOMAIN candidates' -> Candidate]
      BY DEF Inv, TypeOK
    <3>2. /\ DOMAIN View(candidates') \subseteq Nodes
          /\ View(candidates') \in [DOMAIN View(candidates') -> Node2]
      BY <3>1, ViewType
    <3> QED BY <3>2 DEF EpochMapView!Maps, View
  <2>2. CASE UNCHANGED vars
    BY <2>2 DEF vars, EpochMapView!vars, View, ListNodes, ListNodesVersion,
                NetworkMapVersion
  <2>3. ASSUME NEW c, NEW changed, NEW n, NEW b, n \in Nat,
               Tick(c, changed, n, b)
        PROVE  EpochMapView!Tick
    <3>1. epoch' \in Nat /\ epoch' > epoch /\ ~netmapChanged'
      BY <2>3 DEF Tick
    <3>2. ListNodes' = View(candidates)'
      BY <3>1 DEF Inv, FlagAccurate
    <3> QED BY <2>1, <3>1, <3>2 DEF EpochMapView!Tick
  <2>4. CASE epoch' = epoch /\ ListNodes' = ListNodes
    BY <2>1, <2>4 DEF EpochMapView!Next, EpochMapView!Propose
  <2> QED BY <2>2, <2>3, <2>4, StepKinds DEF EpochMapView!Next
<1> QED BY <1>1, <1>2, InvHolds, PTL DEF Spec, ImplementsEpochMap, EpochMapView!Spec

(* A contract is in one entry at most, whoever else subscribes and         *)
(* unsubscribes.                                                           *)
SubscribedOnce == \A s, t \in subscribers : s[2] = t[2] => s = t

LEMMA NoDoubleSubscription == Spec => []SubscribedOnce
<1>1. Init => SubscribedOnce
    BY DEF Init, SubscribedOnce
<1>2. SubscribedOnce /\ [Next]_vars => SubscribedOnce'
  <2> SUFFICES ASSUME SubscribedOnce, [Next]_vars PROVE SubscribedOnce'
      OBVIOUS
  <2>1. CASE UNCHANGED subscribers
      BY <2>1 DEF SubscribedOnce
  <2>2. ASSUME NEW signers, NEW c \in Contracts, SubscribeForNewEpoch(signers, c)
        PROVE SubscribedOnce'
      BY <2>2 DEF SubscribeForNewEpoch, SubscribedOnce
  <2>3. ASSUME NEW signers, NEW c \in Contracts, UnsubscribeFromNewEpoch(signers, c)
        PROVE SubscribedOnce'
      BY <2>3 DEF UnsubscribeFromNewEpoch, SubscribedOnce
  <2>4. \/ UNCHANGED subscribers
        \/ \E signers \in Signers, c \in Contracts :
              \/ SubscribeForNewEpoch(signers, c)
              \/ UnsubscribeFromNewEpoch(signers, c)
    <3>1. ASSUME NEW c, NEW changed, NEW n, NEW b, Tick(c, changed, n, b)
          PROVE UNCHANGED subscribers
        BY <3>1 DEF Tick, settings
    <3>2. ASSUME NEW k, NEW state, UpdateCandidateState(k, state)
          PROVE UNCHANGED subscribers
        BY <3>2 DEF UpdateCandidateState, settings
    <3>3. ASSUME NEW signers, NEW k, NEW a, NEW total, NEW b,
                 AddNode(signers, k, a, total, b)
          PROVE UNCHANGED subscribers
        BY <3>1, <3>3 DEF AddNode, settings
    <3>4. ASSUME NEW signers, NEW x, NEW y,
                 \/ UpdateSnapshotCount(signers, x)
                 \/ SetCleanupThreshold(signers, x)
                 \/ SetConfig(signers, x, y)
          PROVE UNCHANGED subscribers
        BY <3>4 DEF UpdateSnapshotCount, SetCleanupThreshold, SetConfig
    <3>5. UNCHANGED vars => UNCHANGED subscribers
        BY DEF vars
    <3> QED BY <3>1, <3>2, <3>3, <3>4, <3>5 DEF Next, DeleteNode, UpdateState, NewEpoch
  <2> QED BY <2>1, <2>2, <2>3, <2>4
<1> QED BY <1>1, <1>2, PTL DEF Spec

(* What a change of the entries of one contract is for the calls of all:   *)
(* n calls of c, and what others are called for stays.                     *)
Entries(S, c) == {s \in S : s[2] = c}

LEMMA CallsOfOthersStay ==
    ASSUME NEW c \in Contracts, NEW n,
           Cardinality(Entries(subscribers, c)') = n,
           \A d \in Contracts \ {c} :
              Entries(subscribers, d)' = Entries(subscribers, d)
    PROVE  Calls' = [Calls EXCEPT ![c] = n]
<1>1. Calls = [d \in Contracts |-> Cardinality(Entries(subscribers, d))]
  BY DEF Calls, Entries
<1>2. Calls' = [d \in Contracts |-> Cardinality(Entries(subscribers, d)')]
  BY DEF Calls, Entries
<1> QED BY <1>1, <1>2

(* The calls of a tick are those asked for: one of a contract that was     *)
(* last subscribed, none of one that was last unsubscribed, and those of   *)
(* the others stay, although the numbers of entries are used again.        *)
THEOREM TicksCallAsAsked == Spec => CallsAsAsked
<1>1. ASSUME SubscribedOnce, NEW signers, NEW c \in Contracts,
             SubscribeForNewEpoch(signers, c)
      PROVE  Calls' = [Calls EXCEPT ![c] = 1]
  <2>1. \E s : Entries(subscribers, c)' = {s}
    <3>1. CASE \E s \in subscribers : s[2] = c
      BY <1>1, <3>1 DEF SubscribeForNewEpoch, SubscribedOnce, Entries
    <3>2. CASE ~ \E s \in subscribers : s[2] = c
      <4>1. subscribers' = subscribers \cup {<<Cardinality(subscribers), c>>}
        BY <1>1, <3>2 DEF SubscribeForNewEpoch
      <4>2. Entries(subscribers, c)' = {<<Cardinality(subscribers), c>>}
        BY <4>1, <3>2 DEF Entries
      <4> QED BY <4>2
    <3> QED BY <3>1, <3>2
  <2>2. Cardinality(Entries(subscribers, c)') = 1
    BY <2>1, FS_Singleton
  <2>3. \A d \in Contracts \ {c} :
           Entries(subscribers, d)' = Entries(subscribers, d)
    BY <1>1 DEF SubscribeForNewEpoch, Entries
  <2> QED BY <2>2, <2>3, CallsOfOthersStay
<1>2. ASSUME SubscribedOnce, NEW signers, NEW c \in Contracts,
             UnsubscribeFromNewEpoch(signers, c), TypeOK
      PROVE  Calls' = [Calls EXCEPT ![c] = 0]
  <2>1. Entries(subscribers, c)' = {}
    <3> SUFFICES ASSUME NEW s \in subscribers', s[2] = c PROVE FALSE
      BY DEF Entries
    <3>1. s \in subscribers /\ ~ \A t \in subscribers : t[2] = c => s[1] <= t[1]
      BY <1>2 DEF UnsubscribeFromNewEpoch
    <3>2. s[1] \in Nat
      BY <1>2, <3>1 DEF TypeOK
    <3> QED BY <1>2, <3>1, <3>2 DEF SubscribedOnce
  <2>2. Cardinality(Entries(subscribers, c)') = 0
    BY <2>1, FS_EmptySet
  <2>3. \A d \in Contracts \ {c} :
           Entries(subscribers, d)' = Entries(subscribers, d)
    BY <1>2 DEF UnsubscribeFromNewEpoch, Entries
  <2> QED BY <2>2, <2>3, CallsOfOthersStay
<1>3. SubscribedOnce /\ TypeOK
         => [\A signers \in Signers, c \in Contracts :
                /\ SubscribeForNewEpoch(signers, c) => Calls' = [Calls EXCEPT ![c] = 1]
                /\ UnsubscribeFromNewEpoch(signers, c)
                      => Calls' = [Calls EXCEPT ![c] = 0]]_vars
  BY <1>1, <1>2
<1>4. Inv => TypeOK
  BY DEF Inv
<1> QED BY <1>3, <1>4, NoDoubleSubscription, InvHolds, PTL DEF CallsAsAsked

-----------------------------------------------------------------------------
(* The search of epochs by block time. *)

(* The ticks so far came in the order of their epochs, the last one at the *)
(* current epoch.                                                          *)
ItemsInv ==
    /\ DOMAIN epochItems \subseteq 1..epoch
    /\ epoch # 0 => epoch \in DOMAIN epochItems
    /\ \A e, f \in DOMAIN epochItems : e <= f => epochItems[e] <= epochItems[f]

(* What the search of ranges, given its answers s on other ranges, answers *)
(* on a range.                                                             *)
Ranges == (0..(Epoch + 1)) \X ((-1)..Epoch)
Answer(ts, s, range) ==
    LET mid == (range[1] + range[2]) \div 2
        t == GetEpochTime(mid)
        right == s[<<mid + 1, range[2]>>]
    IN  IF range[1] > range[2] THEN 0
        ELSE IF t = 0 THEN right
        ELSE IF t > ts THEN s[<<range[1], mid - 1>>]
        ELSE IF right = 0 THEN t ELSE right
Answers(ts, s) == s = [range \in Ranges |-> Answer(ts, s, range)]

LEMMA SearchDef ==
    ASSUME NEW ts
    PROVE  GetEpochBlockByTime(ts) = (CHOOSE s : Answers(ts, s))[<<0, Epoch>>]
BY DEF GetEpochBlockByTime, Answers, Answer, Ranges

(* The epochs of a range that came by a time, and the tick of the latest.  *)
Known(ts, lo, hi) == {e \in DOMAIN epochItems : lo <= e /\ e <= hi /\ epochItems[e] <= ts}
TickOf(known) ==
    IF known = {} THEN 0
    ELSE epochItems[CHOOSE e \in known : \A f \in known : f <= e]
TickOfLatest(ts, lo, hi) == TickOf(Known(ts, lo, hi))
TicksOfLatest(ts) == [range \in Ranges |-> TickOfLatest(ts, range[1], range[2])]

LEMMA LatestIs ==
    ASSUME TypeOK, NEW ts, NEW lo, NEW hi, NEW e \in Known(ts, lo, hi),
           \A f \in Known(ts, lo, hi) : f <= e
    PROVE  TickOfLatest(ts, lo, hi) = epochItems[e]
<1> DEFINE K == Known(ts, lo, hi)
<1>1. K \subseteq Nat
  BY DEF Known, TypeOK
<1>2. \A d \in K : (\A f \in K : f <= d) => d = e
  BY <1>1
<1>3. (CHOOSE d \in K : \A f \in K : f <= d) = e
  <2> HIDE DEF K
  <2>1. e \in K /\ \A f \in K : f <= e
    BY DEF K
  <2> QED BY <1>2, <2>1
<1> QED BY <1>3 DEF TickOfLatest, TickOf

LEMMA HasLatest ==
    ASSUME TypeOK, ItemsInv, NEW ts, NEW lo, NEW hi, Known(ts, lo, hi) # {}
    PROVE  \E e \in Known(ts, lo, hi) : \A f \in Known(ts, lo, hi) : f <= e
<1> DEFINE K == Known(ts, lo, hi)
<1>1. K \in SUBSET (1..epoch) /\ epoch \in Nat
  BY DEF Known, ItemsInv, TypeOK
<1> HIDE DEF K
<1>2. K # {} => Max(K) \in K /\ \A f \in K : f <= Max(K)
  BY <1>1, MaxIn
<1> QED BY <1>2 DEF K

(* No epoch was skipped: the search halves the range soundly.              *)
LEMMA LatestAnswers ==
    ASSUME TypeOK, ItemsInv, DOMAIN epochItems = 1..epoch, NEW ts \in Int,
           NEW s, NEW range \in Ranges,
           LET mid == (range[1] + range[2]) \div 2
           IN  range[1] <= range[2] =>
                 /\ s[<<mid + 1, range[2]>>] = TickOfLatest(ts, mid + 1, range[2])
                 /\ s[<<range[1], mid - 1>>] = TickOfLatest(ts, range[1], mid - 1)
    PROVE  Answer(ts, s, range) = TickOfLatest(ts, range[1], range[2])
<1> DEFINE lo == range[1]
           hi == range[2]
           mid == (lo + hi) \div 2
           t == GetEpochTime(mid)
<1>1. epoch \in Nat /\ lo \in 0..(epoch + 1) /\ hi \in (-1)..epoch
  BY DEF Ranges, Epoch, TypeOK
<1>2. \A e \in 1..epoch : epochItems[e] \in Int /\ epochItems[e] >= 1
  <2>1. epochItems \in [1..epoch -> 1..MaxBlock] /\ MaxBlock \in Nat
    BY NetmapAssumption DEF TypeOK
  <2> QED BY <2>1
<1>3. Answer(ts, s, range) =
        IF lo > hi THEN 0
        ELSE IF t = 0 THEN s[<<mid + 1, hi>>]
        ELSE IF t > ts THEN s[<<lo, mid - 1>>]
        ELSE IF s[<<mid + 1, hi>>] = 0 THEN t ELSE s[<<mid + 1, hi>>]
  BY DEF Answer
<1>4. lo <= hi => /\ s[<<mid + 1, hi>>] = TickOfLatest(ts, mid + 1, hi)
                  /\ s[<<lo, mid - 1>>] = TickOfLatest(ts, lo, mid - 1)
  OBVIOUS
<1>5. lo <= hi => mid \in lo..hi /\ mid \in 0..epoch
  BY <1>1
<1>6. \A l, h : Known(ts, l, h) = {e \in 1..epoch : l <= e /\ e <= h /\ epochItems[e] <= ts}
  BY DEF Known
<1>7. t = IF mid \in 1..epoch THEN epochItems[mid] ELSE 0
  BY DEF GetEpochTime
<1>8. \A e, f \in 1..epoch : e <= f => epochItems[e] <= epochItems[f]
  BY DEF ItemsInv
<1> HIDE DEF mid, t, lo, hi
<1>9. CASE lo > hi
  <2>1. Known(ts, lo, hi) = {}
    BY <1>1, <1>6, <1>9
  <2> QED BY <1>3, <1>9, <2>1 DEF TickOfLatest, TickOf, lo, hi
<1>10. CASE lo <= hi /\ t = 0
  <2>1. mid = 0
    BY <1>2, <1>5, <1>7, <1>10
  <2>2. Known(ts, mid + 1, hi) = Known(ts, lo, hi)
    <3>1. lo = 0
      BY <1>1, <1>5, <1>10, <2>1
    <3>2. \A e \in 1..epoch : lo <= e /\ mid + 1 <= e
      BY <2>1, <3>1
    <3> QED BY <1>6, <3>2
  <2>3. TickOfLatest(ts, mid + 1, hi) = TickOfLatest(ts, lo, hi)
    BY <2>2 DEF TickOfLatest
  <2>4. ~(lo > hi)
    BY <1>1, <1>10
  <2> QED BY <1>3, <1>4, <1>10, <2>3, <2>4 DEF lo, hi
<1>11. CASE lo <= hi /\ t # 0 /\ t > ts
  <2>1. mid \in 1..epoch /\ t = epochItems[mid]
    BY <1>7, <1>11
  <2>2. \A e \in 1..epoch : epochItems[e] <= ts => ~(mid <= e)
    BY <1>2, <1>8, <1>11, <2>1
  <2>3. Known(ts, lo, mid - 1) = Known(ts, lo, hi)
    <3>1. \A e \in 1..epoch : epochItems[e] <= ts => (e <= mid - 1 <=> e <= hi)
      BY <1>1, <1>5, <1>11, <2>1, <2>2
    <3>2. /\ Known(ts, lo, mid - 1)
               = {e \in 1..epoch : lo <= e /\ e <= mid - 1 /\ epochItems[e] <= ts}
          /\ Known(ts, lo, hi) = {e \in 1..epoch : lo <= e /\ e <= hi /\ epochItems[e] <= ts}
      BY <1>6
    <3>3. \A e \in 1..epoch : lo <= e /\ e <= mid - 1 /\ epochItems[e] <= ts
                              <=> lo <= e /\ e <= hi /\ epochItems[e] <= ts
      BY <3>1
    <3> QED BY <3>2, <3>3
  <2>4. TickOfLatest(ts, lo, mid - 1) = TickOfLatest(ts, lo, hi)
    BY <2>3 DEF TickOfLatest
  <2>5. ~(lo > hi)
    BY <1>1, <1>11
  <2> QED BY <1>3, <1>4, <1>11, <2>4, <2>5 DEF lo, hi
<1>12. CASE lo <= hi /\ t # 0 /\ ~(t > ts)
  <2>1. mid \in 1..epoch /\ t = epochItems[mid] /\ t \in Int /\ t <= ts
    BY <1>2, <1>7, <1>12
  <2>2. mid \in Known(ts, lo, hi)
    BY <1>5, <1>6, <1>12, <2>1
  <2>3. ~(lo > hi)
    BY <1>1, <1>12
  <2>4. CASE Known(ts, mid + 1, hi) = {}
    <3>1. \A f \in Known(ts, lo, hi) : f <= mid
      <4> SUFFICES ASSUME NEW f \in Known(ts, lo, hi), ~(f <= mid) PROVE FALSE
        OBVIOUS
      <4>1. f \in 1..epoch /\ f <= hi /\ epochItems[f] <= ts
        BY <1>6
      <4>2. mid + 1 <= f
        BY <2>1, <4>1
      <4> QED BY <1>6, <2>4, <4>1, <4>2
    <3>2. TickOfLatest(ts, lo, hi) = t
      BY <2>1, <2>2, <3>1, LatestIs
    <3>3. s[<<mid + 1, hi>>] = 0
      BY <1>4, <1>12, <2>4 DEF TickOfLatest, TickOf
    <3> QED BY <1>3, <1>12, <2>3, <3>2, <3>3 DEF lo, hi
  <2>5. CASE Known(ts, mid + 1, hi) # {}
    <3>1. PICK e \in Known(ts, mid + 1, hi) : \A f \in Known(ts, mid + 1, hi) : f <= e
      BY <2>5, HasLatest
    <3>2. TickOfLatest(ts, mid + 1, hi) = epochItems[e]
      BY <3>1, LatestIs
    <3>3. e \in 1..epoch /\ mid + 1 <= e /\ e <= hi /\ epochItems[e] <= ts
      BY <1>6, <3>1
    <3>4. e \in Known(ts, lo, hi)
      BY <1>1, <1>5, <1>6, <1>12, <2>1, <3>3
    <3>5. \A f \in Known(ts, lo, hi) : f <= e
      <4> SUFFICES ASSUME NEW f \in Known(ts, lo, hi), ~(f <= e) PROVE FALSE
        OBVIOUS
      <4>1. f \in 1..epoch /\ f <= hi /\ epochItems[f] <= ts
        BY <1>6
      <4>2. mid + 1 <= f
        BY <2>1, <3>3, <4>1
      <4>3. f \in Known(ts, mid + 1, hi)
        BY <1>6, <4>1, <4>2
      <4> QED BY <3>1, <4>3
    <3>6. TickOfLatest(ts, lo, hi) = epochItems[e]
      BY <3>4, <3>5, LatestIs
    <3>7. s[<<mid + 1, hi>>] = epochItems[e] /\ epochItems[e] # 0
      BY <1>2, <1>4, <1>12, <3>2, <3>3
    <3> QED BY <1>3, <1>12, <2>3, <3>6, <3>7 DEF lo, hi
  <2> QED BY <2>4, <2>5
<1>13. lo > hi \/ lo <= hi
  BY <1>1
<1> QED BY <1>9, <1>10, <1>11, <1>12, <1>13

(* The search finds the tick of the latest known epoch.                    *)
LEMMA SearchFinds ==
    ASSUME TypeOK, ItemsInv, DOMAIN epochItems = 1..epoch, NEW ts \in Int
    PROVE  GetEpochBlockByTime(ts) = TickOfLatest(ts, 0, Epoch)
<1> DEFINE h == TicksOfLatest(ts)
           s == CHOOSE s : Answers(ts, s)
           Size(range) == IF range[1] > range[2] THEN 0 ELSE range[2] - range[1] + 1
           Done(n) == \A range \in Ranges :
                Size(range) <= n => s[range] = TickOfLatest(ts, range[1], range[2])
           Good == {n \in Nat : Done(n)}
<1>0. epoch \in Nat /\ Epoch = epoch
  BY DEF TypeOK, Epoch
<1>1. ASSUME NEW range \in Ranges, range[1] <= range[2]
      PROVE  LET mid == (range[1] + range[2]) \div 2
             IN  /\ <<mid + 1, range[2]>> \in Ranges /\ <<range[1], mid - 1>> \in Ranges
                 /\ Size(<<mid + 1, range[2]>>) <= Size(range) - 1
                 /\ Size(<<range[1], mid - 1>>) <= Size(range) - 1
  <2>1. PICK lo \in 0..(epoch + 1), hi \in (-1)..epoch : range = <<lo, hi>>
    BY <1>0 DEF Ranges
  <2>2. PICK mid \in Int : mid = (lo + hi) \div 2 /\ lo <= mid /\ mid <= hi
    BY <1>0, <1>1, <2>1
  <2>3. /\ mid + 1 \in 0..(epoch + 1) /\ mid - 1 \in (-1)..epoch
        /\ lo <= hi
    BY <1>0, <1>1, <2>1, <2>2
  <2>4. /\ <<mid + 1, hi>> \in Ranges /\ <<lo, mid - 1>> \in Ranges
    BY <1>0, <2>1, <2>3 DEF Ranges
  <2>5. Size(<<mid + 1, hi>>) <= hi - lo /\ Size(<<lo, mid - 1>>) <= hi - lo
    BY <1>0, <2>1, <2>2, <2>3
  <2>6. Size(range) - 1 = hi - lo
    BY <1>0, <2>1, <2>3
  <2> HIDE DEF Size
  <2> QED BY <2>1, <2>2, <2>4, <2>5, <2>6
<1>2. Answers(ts, h)
  <2>1. \A range \in Ranges : h[range] = TickOfLatest(ts, range[1], range[2])
    BY DEF TicksOfLatest
  <2>2. ASSUME NEW range \in Ranges
        PROVE  Answer(ts, h, range) = TickOfLatest(ts, range[1], range[2])
    <3>1. LET mid == (range[1] + range[2]) \div 2
          IN  range[1] <= range[2] =>
                /\ h[<<mid + 1, range[2]>>] = TickOfLatest(ts, mid + 1, range[2])
                /\ h[<<range[1], mid - 1>>] = TickOfLatest(ts, range[1], mid - 1)
      <4> HIDE DEF h, Size
      <4> QED BY <1>1, <2>1
    <3> HIDE DEF h
    <3> QED BY <3>1, LatestAnswers
  <2>3. h = [range \in Ranges |-> Answer(ts, h, range)]
    BY <2>2 DEF TicksOfLatest
  <2> QED BY <2>3 DEF Answers
<1>3. Answers(ts, s)
  BY <1>2
<1>4. \A range \in Ranges : s[range] = Answer(ts, s, range)
  BY <1>3 DEF Answers
<1> HIDE DEF s, h
<1>5. \A range \in Ranges : Size(range) \in Nat /\ (range[1] <= range[2] => Size(range) # 0)
  BY <1>0 DEF Ranges
<1>6. Done(0)
  <2> SUFFICES ASSUME NEW range \in Ranges, Size(range) <= 0
               PROVE  s[range] = TickOfLatest(ts, range[1], range[2])
    OBVIOUS
  <2>1. ~(range[1] <= range[2])
    BY <1>5
  <2>2. Answer(ts, s, range) = TickOfLatest(ts, range[1], range[2])
    BY <2>1, LatestAnswers
  <2> QED BY <1>4, <2>2
<1>7. ASSUME NEW n \in Nat, Done(n)
      PROVE  Done(n + 1)
  <2> SUFFICES ASSUME NEW range \in Ranges, Size(range) <= n + 1
               PROVE  s[range] = TickOfLatest(ts, range[1], range[2])
    OBVIOUS
  <2>1. LET mid == (range[1] + range[2]) \div 2
        IN  range[1] <= range[2] =>
              /\ s[<<mid + 1, range[2]>>] = TickOfLatest(ts, mid + 1, range[2])
              /\ s[<<range[1], mid - 1>>] = TickOfLatest(ts, range[1], mid - 1)
    <3> SUFFICES ASSUME range[1] <= range[2]
                 PROVE  LET mid == (range[1] + range[2]) \div 2
                        IN  /\ s[<<mid + 1, range[2]>>] = TickOfLatest(ts, mid + 1, range[2])
                            /\ s[<<range[1], mid - 1>>] = TickOfLatest(ts, range[1], mid - 1)
      OBVIOUS
    <3> DEFINE mid == (range[1] + range[2]) \div 2
    <3>1. /\ <<mid + 1, range[2]>> \in Ranges /\ <<range[1], mid - 1>> \in Ranges
          /\ Size(<<mid + 1, range[2]>>) <= Size(range) - 1
          /\ Size(<<range[1], mid - 1>>) <= Size(range) - 1
      <4> HIDE DEF Size
      <4> QED BY <1>1
    <3> HIDE DEF mid
    <3>2. Size(<<mid + 1, range[2]>>) <= n /\ Size(<<range[1], mid - 1>>) <= n
      <4>1. Size(<<mid + 1, range[2]>>) \in Nat /\ Size(<<range[1], mid - 1>>) \in Nat
            /\ Size(range) \in Nat
        <5> HIDE DEF Size
        <5> QED BY <1>5, <3>1
      <4> HIDE DEF Size
      <4> QED BY <3>1, <4>1
    <3> HIDE DEF Size
    <3>3. /\ s[<<mid + 1, range[2]>>] = TickOfLatest(ts, mid + 1, range[2])
          /\ s[<<range[1], mid - 1>>] = TickOfLatest(ts, range[1], mid - 1)
      BY <1>7, <3>1, <3>2
    <3> QED BY <3>3 DEF mid
  <2>2. Answer(ts, s, range) = TickOfLatest(ts, range[1], range[2])
    BY <2>1, LatestAnswers
  <2> QED BY <1>4, <2>2
<1>8. Good = Nat
  <2> HIDE DEF Done
  <2>1. 0 \in Good /\ \A n \in Good : n + 1 \in Good
    BY <1>6, <1>7
  <2> HIDE DEF Good
  <2>2. Good \in SUBSET Nat
    BY DEF Good
  <2> QED BY <2>1, <2>2, NatInductive
<1>9. <<0, Epoch>> \in Ranges /\ Size(<<0, Epoch>>) <= epoch + 1 /\ epoch + 1 \in Nat
  BY <1>0 DEF Ranges
<1>10. s[<<0, Epoch>>] = TickOfLatest(ts, 0, Epoch)
  <2>1. Done(epoch + 1)
    <3> HIDE DEF Done
    <3> QED BY <1>8, <1>9
  <2> HIDE DEF Size
  <2> QED BY <1>9, <2>1
<1> QED BY <1>10, SearchDef DEF s

-----------------------------------------------------------------------------
(* The epoch and the blocks of ticks change together, in ticks. *)
LEMMA ItemsStep ==
    ASSUME Next
    PROVE  \/ \E c, changed, n, b : Tick(c, changed, n, b)
           \/ UNCHANGED <<epoch, epochItems>>
BY DEF Next, AddNode, DeleteNode, UpdateState, UpdateCandidateState, NewEpoch,
       UpdateSnapshotCount, SetCleanupThreshold, SetConfig, SubscribeForNewEpoch,
       UnsubscribeFromNewEpoch, mapVars

(* ItemsInv is inductive, relative to the types. *)
LEMMA NextItems == TypeOK /\ TypeOK' /\ ItemsInv /\ [Next]_vars => ItemsInv'
<1> SUFFICES ASSUME TypeOK, TypeOK', ItemsInv, [Next]_vars PROVE ItemsInv'
  OBVIOUS
<1>1. CASE UNCHANGED <<epoch, epochItems>>
  BY <1>1 DEF ItemsInv
<1>2. ASSUME NEW c, NEW changed, NEW n, NEW b, Tick(c, changed, n, b)
      PROVE  ItemsInv'
  <2>1. /\ n > epoch /\ b >= LastEpochTime /\ epoch' = n
        /\ epochItems' = Put(epochItems, n, b)
    BY <1>2 DEF Tick
  <2>2. epoch \in Nat /\ n \in Nat
    BY <2>1 DEF TypeOK
  <2>3. /\ DOMAIN epochItems' = DOMAIN epochItems \cup {n}
        /\ \A e \in DOMAIN epochItems' : epochItems'[e] = IF e = n THEN b ELSE epochItems[e]
    BY <2>1 DEF Put
  <2>4. MaxBlock \in Nat
    BY NetmapAssumption
  <2>5. b \in Int /\ \A e \in DOMAIN epochItems : epochItems[e] \in Int
    <3>1. epochItems' \in [DOMAIN epochItems' -> 1..MaxBlock]
      BY DEF TypeOK
    <3>2. epochItems \in [DOMAIN epochItems -> 1..MaxBlock]
      BY DEF TypeOK
    <3>3. epochItems'[n] \in 1..MaxBlock
      BY <2>3, <3>1
    <3> QED BY <2>3, <2>4, <3>2, <3>3
  <2>6. \A e \in DOMAIN epochItems : e \in 1..epoch /\ epochItems[e] <= b
    <3> SUFFICES ASSUME NEW e \in DOMAIN epochItems
                 PROVE  e \in 1..epoch /\ epochItems[e] <= b
      OBVIOUS
    <3>1. e \in 1..epoch
      BY DEF ItemsInv
    <3>2. epoch \in DOMAIN epochItems
      BY <2>2, <3>1 DEF ItemsInv
    <3>3. epochItems[e] <= epochItems[epoch] /\ LastEpochTime = epochItems[epoch]
      BY <2>2, <3>1, <3>2 DEF ItemsInv, LastEpochTime, GetEpochTime, Epoch
    <3> QED BY <2>1, <2>5, <3>1, <3>2, <3>3
  <2>7. DOMAIN epochItems' \subseteq 1..epoch' /\ epoch' \in DOMAIN epochItems'
    BY <2>1, <2>2, <2>3, <2>6
  <2>8. \A e, f \in DOMAIN epochItems' : e <= f => epochItems'[e] <= epochItems'[f]
    <3> SUFFICES ASSUME NEW e \in DOMAIN epochItems', NEW f \in DOMAIN epochItems', e <= f
                 PROVE  epochItems'[e] <= epochItems'[f]
      OBVIOUS
    <3>1. CASE f = n
      BY <2>3, <2>5, <2>6, <3>1
    <3>2. CASE f # n
      <4>1. e # n
        BY <2>1, <2>2, <2>3, <2>6, <3>2
      <4> QED BY <2>3, <3>2, <4>1 DEF ItemsInv
    <3> QED BY <3>1, <3>2
  <2> QED BY <2>7, <2>8 DEF ItemsInv
<1>3. CASE Next
  BY <1>1, <1>2, <1>3, ItemsStep
<1>4. CASE UNCHANGED vars
  BY <1>1, <1>4 DEF vars
<1> QED BY <1>3, <1>4

(* GetEpochBlockByTime finds the tick of the latest epoch that came by the *)
(* given time, for every time and history of ticks in which no epoch was   *)
(* skipped: the times of ticks grow with their epochs, so the half that    *)
(* the search leaves out holds no answer.                                  *)
THEOREM BlockByTimeIsRight == Spec => []BlockByTimeWithoutJumps
<1>1. TypeOK /\ ItemsInv => BlockByTimeWithoutJumps
  <2> SUFFICES ASSUME TypeOK, ItemsInv, DOMAIN epochItems = 1..epoch, NEW ts \in 0..MaxBlock
               PROVE  BlockByTimeCorrect(ts)
    BY DEF BlockByTimeWithoutJumps
  <2>1. ts \in Int
    BY NetmapAssumption
  <2>2. GetEpochBlockByTime(ts) = TickOfLatest(ts, 0, Epoch)
    BY <2>1, SearchFinds
  <2>3. Known(ts, 0, Epoch) = {e \in DOMAIN epochItems : epochItems[e] <= ts}
    BY DEF Known, Epoch, TypeOK
  <2> QED BY <2>2, <2>3 DEF BlockByTimeCorrect, TickOfLatest, TickOf
<1>2. Init => ItemsInv
  BY DEF Init, ItemsInv, Empty
<1>3. TypeOK /\ TypeOK' /\ ItemsInv /\ [Next]_vars => ItemsInv'
  BY NextItems
<1> QED BY <1>1, <1>2, <1>3, TypeCorrect, PTL DEF Spec
=============================================================================
