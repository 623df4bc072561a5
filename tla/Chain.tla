-------------------------------- MODULE Chain --------------------------------
(***************************************************************************)
(* Netmap, Container and Balance on one chain: the ticks of Netmap move    *)
(* the epoch for all three and call Balance, registrations of nodes ask    *)
(* Container for its containers, and settlement reads the statistics and   *)
(* the reports of Container and the node states that Netmap remembers of   *)
(* the epoch before.                                                       *)
(*                                                                         *)
(* Each action is one transaction: the action of the contract that is      *)
(* called, together with those of the contracts that this one calls.       *)
(* Everybody who has to signs; who has to is checked contract by contract. *)
(***************************************************************************)
EXTENDS Balance, FiniteSets

CONSTANTS Nodes,          \* storage nodes, by account and key alike
          NodeOrder,      \* the nodes in the order of their registration
          Owner,          \* the user who owns the container
          Cid,            \* its ID
          BasicIncomeRate,           \* the key of the rate, ...
          Rate,                      \* ... and the setting
          EpochDuration, ObjectSize,
          Restless,       \* bound: nodes that change state, join and leave
          Sizes,          \* bound: sizes in reports
          MaxReports,
          Funds,          \* bound: tokens of the owner
          MaxMoves,       \* bound: changes of node states and of members
          MaxTime

(* Keys of nodes are no accounts of users or of the Alphabet, and the       *)
(* contract's is neither; no account has two keys in a storage.            *)
ASSUME ChainAssumption ==
    /\ Accounts = Nodes \cup {Owner} /\ Owner \notin Nodes /\ Alphabet \notin Accounts
    /\ "container" \notin Accounts \cup {Alphabet}
    /\ IsInjective(AccountOrder) /\ Cid \in Containers
    /\ NodeOrder \in Seq(Nodes) \ {<<>>} /\ IsInjective(NodeOrder)
    /\ Range(NodeOrder) = Nodes
    /\ Rate \in Nat /\ Funds \in Nat \ {0}
    /\ EpochDuration \in Nat \ {0} /\ ObjectSize \in Nat /\ MaxReports \in Nat \ {0}
    /\ Sizes \subseteq Nat /\ Restless \subseteq Nodes
    /\ MaxMoves \in Nat /\ MaxTime \in Nat \ {0}

VARIABLES
    candidates, netmapVersion, netmaps, epochToNetmapVersion, netmapChanged,
    snapshotCount, cleanupThreshold, epochItems, subscribers, config, history,
    info, index, deleted, eacls, alias, quotas, userQuotas, nodes, nextNodes,
    replicas, reports, stats, summary, taken, domains, records, disturbed, now,
    promised, reborn, skewed, area, lastSpan,
    owed,      \* history variable: <<container, node>> -> the integral of the
               \* load over the last epoch, as it was when that ended
    gone,      \* history variable: nodes that left the container since then
    moves      \* changes of node states and of members, for the bound

Everybody == Accounts \cup {Alphabet}

NM == INSTANCE Netmap WITH
        Attributes <- {"attributes"}, Contracts <- {"balance"},
        Signers <- {Everybody}, ConfigKeys <- {BasicIncomeRate},
        ConfigValues <- {Rate}, DefaultSnapshotCount <- 1,
        DefaultCleanupThreshold <- 0, MaxJump <- 1, MaxBlock <- MaxTime,
        SnapshotCounts <- {}, Thresholds <- {}
CT == INSTANCE Container WITH
        Cids <- {Cid},
        Content <- [c \in {Cid} |-> [owner |-> Owner, lock |-> 0, name |-> Nobody]],
        Names <- {}, NoName <- Nobody, Keys <- {}, AlphabetNodes <- {},
        ContainerFee <- 0, AliasFee <- 0, SECOND <- 1, HEADER <- 1, BASE <- 1,
        Contract <- "container", Committee <- Alphabet, Expire <- 1,
        Strangers <- {}, RecordSets <- {}, EACLs <- {FALSE}, Signers <- {Everybody},
        Receivers <- {}, Locks <- {}, Vectors <- {0}, ReplicaLists <- {<<1>>},
        Objects <- {1}, Limits <- {}, QuotaUsers <- {}, MaxRevision <- 1,
        Funds <- [a \in Accounts |-> 0], funds <- [a \in Accounts |-> 0],
        lastTick <- NM!LastEpochTime

netmapVars == <<candidates, netmapVersion, netmaps, epochToNetmapVersion,
                netmapChanged, snapshotCount, cleanupThreshold, epochItems,
                subscribers, config, history>>
balanceVars == <<ledger, marks>>
containerVars == <<info, index, deleted, eacls, alias, quotas, userQuotas, nodes,
                   nextNodes, replicas, reports, stats, summary, taken, domains, records,
                   disturbed, promised, reborn, skewed, area>>
clock == <<now, lastSpan>>
chainVars == <<epoch, netmapVars, balanceVars, containerVars, clock, owed, gone, moves>>

-----------------------------------------------------------------------------
(* The chain at the time 1, after the nodes were registered, each with a   *)
(* tick since there was no container, and a container was created and all  *)
(* nodes made its members.  Balance has subscribed when it was deployed.   *)
FirstNodes(k) == {NodeOrder[i] : i \in 1..k}
Registered(N) == [n \in N |-> [state |-> NM!Online, attributes |-> "attributes"]]
ChainInit ==
    /\ epoch = Len(NodeOrder)
    /\ candidates = [n \in Nodes |->
          [state |-> NM!Online, attributes |-> "attributes",
           lastActiveEpoch |-> (CHOOSE i \in DOMAIN NodeOrder : NodeOrder[i] = n) - 1]]
    /\ netmapVersion = epoch
    /\ netmaps = [v \in {epoch - 1, epoch} \ {0} |-> Registered(FirstNodes(v))]
    /\ epochToNetmapVersion = [e \in 0..epoch |-> e]
    /\ netmapChanged = FALSE /\ snapshotCount = 1 /\ cleanupThreshold = 0
    /\ epochItems = [e \in 1..epoch |-> 1]
    /\ history = [e \in 0..epoch |-> Registered(FirstNodes(e))]
    /\ subscribers = {<<0, "balance">>}
    /\ config = {<<BasicIncomeRate, Rate>>}
    /\ info = [c \in {Cid} |-> [owner |-> Owner, revision |-> 1, lock |-> 0,
                                attrs |-> {}]]
    /\ index = {<<Owner, Cid>>}
    /\ deleted = {} /\ eacls = {}
    /\ domains = CT!Empty /\ records = CT!Empty /\ disturbed = {}
    /\ alias = CT!Empty /\ quotas = CT!Empty /\ userQuotas = CT!Empty
    /\ nodes = [c \in {Cid} |-> {<<0, n>> : n \in Nodes}]
    /\ nextNodes = [c \in {Cid} |-> {}]
    /\ replicas = [c \in {Cid} |-> <<1>>]
    /\ reports = CT!Empty /\ stats = CT!Empty /\ summary = CT!Empty
    /\ taken = [a \in Accounts |-> 0]
    /\ now = 1
    /\ promised = [c \in {Cid} |-> 0] /\ reborn = {}
    /\ skewed = FALSE /\ area = CT!Empty /\ lastSpan = 0
    /\ accounts = [a \in {Owner} |->
                      [balance |-> Funds, until |-> 0, parent |-> Nobody]]
    /\ supply = Funds /\ lost = 0
    /\ unpaid = [c \in {} |-> 0] /\ paid = [c \in {} |-> 0]
    /\ received = [c \in Containers |-> [a \in Accounts |-> 0]]
    /\ failures = [c \in Containers |-> 0]
    /\ owed = CT!Empty /\ gone = {} /\ moves = 0

-----------------------------------------------------------------------------
(* What a tick is for the others: the call of Balance, which subscribed,    *)
(* and the new epoch in Container's clock.                                 *)
TickSeen ==
    /\ NewEpoch(Everybody, epoch + 1)
    /\ CT!NewEpoch
    /\ owed' = [p \in DOMAIN area |-> area[p].this]
    /\ gone' = {}
    /\ UNCHANGED moves

NetmapNewEpoch ==
    /\ NM!NewEpoch(Everybody, epoch + 1, now)
    /\ TickSeen

Move == moves < MaxMoves /\ moves' = moves + 1
UpdateState(n, state) ==
    /\ Move
    /\ NM!UpdateState(Everybody, state, n)
    /\ UNCHANGED <<epoch, balanceVars, containerVars, clock, owed, gone>>

(* The transactions of Container, of which only PutReport reads another     *)
(* contract: the epoch, its length and its time.                           *)
OthersUnchanged == UNCHANGED <<epoch, netmapVars, balanceVars, owed>>
PutReport(n, size) ==
    /\ OthersUnchanged
    /\ CT!PutReport(Everybody, Cid, n, size, 1)
    /\ UNCHANGED <<gone, moves>>
AddNextEpochNodes(N) ==
    /\ OthersUnchanged
    /\ Move
    /\ CT!AddNextEpochNodes(Everybody, Cid, 0, N)
    /\ UNCHANGED gone
CommitContainerListUpdate ==
    /\ OthersUnchanged
    /\ CT!CommitContainerListUpdate(Everybody, Cid, <<1>>)
    /\ gone' = gone \cup {n \in Nodes : CT!IsMember(Cid, n) /\ ~CT!IsMember(Cid, n)'}
    /\ UNCHANGED moves
Block ==
    /\ OthersUnchanged
    /\ CT!Block(now + 1)
    /\ UNCHANGED <<gone, moves>>

(* What settleContainerPayment reads: the setting of Netmap, the statistics *)
(* of Container in the order of their keys, whether a report of the node   *)
(* is there (getReportByAccount), and its state in the epoch that is paid. *)
HasReport(c, n) == <<c, n>> \in DOMAIN reports
CurrentRate == (CHOOSE r \in config : r[1] = BasicIncomeRate)[2]
(* Mutant: the state in the epoch that has just begun. *)
WasOnlineMutant(n) == NM!IsStorageNodeStatus(n, epoch, NM!Online)
WasOnline(n) == NM!IsStorageNodeStatus(n, epoch - 1, NM!Online)
BillingRow(c, a) == [account |-> a, stat |-> stats[<<c, a>>],
                     reported |-> HasReport(c, a), online |-> WasOnline(a)]
BillingStats(c) ==
    FoldLeft(LAMBDA rows, a : IF <<c, a>> \in DOMAIN stats
                              THEN Append(rows, BillingRow(c, a)) ELSE rows,
             <<>>, AccountOrder)

(* Container's owner panics when there is no such container. *)
SettlePayment(c) ==
    /\ c \in DOMAIN info
    /\ SettleContainerPayment(Everybody, c, CT!OwnerOf(c), CurrentRate, BillingStats(c))
    /\ UNCHANGED <<netmapVars, containerVars, clock, owed, gone, moves>>

(* Bounds: a node that is not restless reports once, only changes of state  *)
(* are made, and a list of members is committed before the next is begun.  *)
ChainNext ==
    \/ NetmapNewEpoch
    \/ \E n \in Restless, state \in {NM!Online, NM!Maintenance} :
          candidates[n].state # state /\ UpdateState(n, state)
    \/ \E n \in Nodes, size \in Sizes :
          (n \in Restless \/ ~HasReport(Cid, n)) /\ PutReport(n, size)
    \/ \E N \in SUBSET Restless :
          nextNodes[Cid] = {} /\ AddNextEpochNodes(N \cup (Nodes \ Restless))
    \/ nextNodes[Cid] # {} /\ CommitContainerListUpdate
    \/ now < MaxTime /\ Block
    \/ SettlePayment(Cid)

ChainSpec == ChainInit /\ [][ChainNext]_chainVars

-----------------------------------------------------------------------------
(* Properties. *)

(* Who served is paid: a container that is marked paid has paid each node   *)
(* for its average load in the epoch before, as it was when that epoch     *)
(* ended, if the node was online in that epoch and did not leave since,    *)
(* and nobody else; whatever reports, node states, members and votes have  *)
(* changed between the tick and the settlement.  For epochs that were as   *)
(* long as they should be (balance.settleContainerPayment).                *)
Gain(n) == BalanceOf(n)' - BalanceOf(n)
Served(n) == <<Cid, n>> \in DOMAIN owed /\ owed[<<Cid, n>>] > 0
             /\ n \in DOMAIN history[epoch - 1]
             /\ history[epoch - 1][n].state = NM!Online
Wage(n) == Price(Rate, owed[<<Cid, n>>] \div CT!Duration)
ServedArePaid ==
    [][paid' # paid /\ lastSpan = CT!Duration =>
          \A n \in Nodes :
              Gain(n) = IF Served(n) /\ n \notin gone THEN Wage(n)
                        ELSE 0]_chainVars
=============================================================================
