--------------------------- MODULE CommitteeProofs ---------------------------
(***************************************************************************)
(* Theorems about the committee: how it gets its Notary role               *)
(* (NotaryDesignation), for any size, any absent and any faulty members    *)
(* and any order of blocks, losses and restarts; that no vote by an        *)
(* outdated list counts (Governance), for every committee, every set of    *)
(* lists and any number of calls on their way; and that the values put for *)
(* a peer are found (Reputation), for any bytes, epochs and keys of peers. *)
(***************************************************************************)
EXTENDS NotaryDesignation, Governance, Sums, FiniteSetTheorems, TLAPS

Recorded == Data \cup {NoDomain, NoRecord}
Monitors == {"register", "record", "designate"}

(* The types of what a turn may send. *)
SentTypes ==
    /\ pool' \subseteq Tx /\ awaited' \subseteq pool'
    /\ pending' \in [Members -> SUBSET Monitors]
    /\ mishaps' \in [losses : Nat, faults : Nat, restarts : Nat]

LEMMA NewDataType == Nonces \ InUse # {} /\ TypeOK => NewData \in Data
  BY NotaryAssumption DEF NewData, Data, TypeOK

LEMMA MishapType ==
    ASSUME TypeOK, NEW kind \in {"losses", "faults", "restarts"}, Mishap(kind)
    PROVE  /\ mishaps' \in [losses : Nat, faults : Nat, restarts : Nat]
           /\ mishaps'.restarts = mishaps.restarts + (IF kind = "restarts" THEN 1 ELSE 0)
  BY DEF TypeOK, Mishap

LEMMA WaitTypes == TypeOK /\ Wait => SentTypes
  BY DEF TypeOK, Wait, SentTypes, Monitors

LEMMA SubmitTypes ==
    ASSUME TypeOK, NEW m \in Members, NEW t \in Tx, NEW monitor \in Monitors,
           NEW ms \in SUBSET Monitors, Submit(m, t, monitor, ms)
    PROVE  SentTypes
<1>1. CASE Fault /\ pending' = [pending EXCEPT ![m] = ms] /\ UNCHANGED <<pool, awaited>>
  <2>1. mishaps' \in [losses : Nat, faults : Nat, restarts : Nat]
    BY <1>1, MishapType DEF Fault
  <2>2. pending' \in [Members -> SUBSET Monitors]
    BY <1>1 DEF TypeOK, Monitors
  <2> QED BY <1>1, <2>1, <2>2 DEF SentTypes, TypeOK
<1>2. CASE /\ pool' = pool \cup {t} /\ awaited' = awaited \cup {t}
           /\ pending' = [pending EXCEPT ![m] = ms \cup {monitor}]
           /\ UNCHANGED mishaps
  <2>1. pending' \in [Members -> SUBSET Monitors]
    BY <1>2 DEF TypeOK, Monitors
  <2> QED BY <1>2, <2>1 DEF SentTypes, TypeOK
<1> QED BY <1>1, <1>2 DEF Submit

LEMMA RegisterTypes == ASSUME TypeOK, NEW m \in Members, RegisterDomain(m) PROVE SentTypes
<1>1. Registration(m) \in Tx
  BY NotaryAssumption DEF Registration, Tx, Members, TypeOK
<1>2. pending[m] \in SUBSET Monitors
  BY DEF TypeOK, Monitors
<1> QED BY <1>1, <1>2, WaitTypes, SubmitTypes DEF RegisterDomain, Monitors

-----------------------------------------------------------------------------
(* What the leader keeps. *)

IsLeader(l) ==
    \E S \in SUBSET Signers :
        l \in [tx : Data \cup {NoTx}, sigs : [S -> Data], txFullySigned : BOOLEAN,
               valid : BOOLEAN, tried : BOOLEAN]

LEMMA LeaderIs == TypeOK => IsLeader(leader)
  BY DEF TypeOK, IsLeader

LEMMA FreshIs ==
    /\ IsLeader(FreshLeader)
    /\ \A b \in BOOLEAN : IsLeader([FreshLeader EXCEPT !.tried = b])
<1>1. FreshLeader
        \in [tx : Data \cup {NoTx}, sigs : [{} -> Data], txFullySigned : BOOLEAN,
             valid : BOOLEAN, tried : BOOLEAN]
  BY DEF FreshLeader, NoSignatures
<1>2. \A b \in BOOLEAN : [FreshLeader EXCEPT !.tried = b]
        \in [tx : Data \cup {NoTx}, sigs : [{} -> Data], txFullySigned : BOOLEAN,
             valid : BOOLEAN, tried : BOOLEAN]
  BY <1>1
<1> QED BY <1>1, <1>2 DEF IsLeader

LEMMA MadeIs ==
    ASSUME IsLeader(leader), NEW d \in Data
    PROVE  /\ IsLeader(Made(d)) /\ Made(d).tx = d
           /\ Made(d).sigs = leader.sigs /\ Made(d).tried = leader.tried
  BY DEF IsLeader, Made

LEMMA CollectedIs ==
    ASSUME IsLeader(leader), NEW d \in Data, n \in Nat
    PROVE  \E S \in SUBSET Signers : Collected(d) \in [S -> Data]
<1>1. PICK S \in SUBSET Signers : leader.sigs \in [S -> Data]
  BY DEF IsLeader
<1> DEFINE old == DOMAIN leader.sigs
           valid == Read(d) \ faulty
           read == {i \in valid : Cardinality(old \cup {j \in valid : j < i}) < NeedRemote}
<1>2. old = S
  BY <1>1
<1>3. read \subseteq Signers
  BY DEF Signers, Read
<1>4. [i \in old \cup read |-> IF i \in read THEN d ELSE leader.sigs[i]] \in [old \cup read -> Data]
  <2> HIDE DEF read
  <2> QED BY <1>1
<1>5. Collected(d) \in [old \cup read -> Data]
  BY <1>4 DEF Collected
<1> HIDE DEF old, read
<1> QED BY <1>2, <1>3, <1>5

LEMMA FinalizedIs ==
    ASSUME NEW l, IsLeader(l), NEW sorted \in BOOLEAN
    PROVE  /\ IsLeader(Finalized(l, sorted))
           /\ Finalized(l, sorted).tx = l.tx /\ Finalized(l, sorted).tried = l.tried
  BY DEF IsLeader, Finalized

-----------------------------------------------------------------------------
(* What turns leave. *)

LEMMA SizeType == TypeOK => n \in Nat \ {0} /\ 0 \in Members
  BY NotaryAssumption DEF TypeOK, setting, Members

LEMMA SharedType == TypeOK /\ shared # NoDomain /\ shared # NoRecord => shared \in Data
  BY DEF TypeOK

LEMMA ShareTypes ==
    ASSUME TypeOK, NEW op \in {"add", "set"}, Share(op)
    PROVE  SentTypes /\ IsLeader(leader')
<1>1. NewData \in Data
  BY NewDataType DEF Share
<1>2. Recording(op, 0, NewData) \in Tx
  BY <1>1 DEF Recording, Tx
<1>3. pending[0] \ {"record"} \in SUBSET Monitors
  BY SizeType DEF TypeOK, Monitors
<1>4. SentTypes
  BY <1>2, <1>3, SizeType, SubmitTypes DEF Share, Monitors
<1>5. leader.tried \in BOOLEAN
  BY DEF TypeOK
<1> QED BY <1>4, <1>5, FreshIs DEF Share

LEMMA SendTypes ==
    ASSUME TypeOK, NEW l, IsLeader(l), SendDesignation(l)
    PROVE  SentTypes /\ IsLeader(leader')
<1>1. CASE /\ leader' = [l EXCEPT !.tried = TRUE]
           /\ pool' = pool \cup {Designation(l.tx)}
           /\ UNCHANGED <<pending, awaited, mishaps>>
  <2>1. Designation(l.tx) \in Tx
    BY DEF Designation, Tx, IsLeader
  <2>2. SentTypes
    BY <1>1, <2>1 DEF SentTypes, TypeOK, Monitors
  <2>3. IsLeader(leader')
    BY <1>1 DEF IsLeader
  <2> QED BY <2>2, <2>3
<1>2. CASE leader' = l /\ Wait
  BY <1>2, WaitTypes
<1>3. CASE Share("set")
  BY <1>3, ShareTypes
<1>4. CASE Fault /\ leader' = l /\ UNCHANGED <<pool, pending, awaited>>
  <2>1. mishaps' \in [losses : Nat, faults : Nat, restarts : Nat]
    BY <1>4, MishapType DEF Fault
  <2> QED BY <1>4, <2>1 DEF SentTypes, TypeOK, Monitors
<1> QED BY <1>1, <1>2, <1>3, <1>4 DEF SendDesignation

(* The leader as it is when signatures have been collected. *)
LEMMA ReadyIs ==
    ASSUME TypeOK, NEW d \in Data, NEW l, l = [Made(d) EXCEPT !.sigs = Collected(d)]
    PROVE  IsLeader(l) /\ l.tried = leader.tried
<1>1. IsLeader(Made(d)) /\ Made(d).tried = leader.tried
  BY LeaderIs, MadeIs
<1>2. PICK S \in SUBSET Signers : Collected(d) \in [S -> Data]
  BY LeaderIs, CollectedIs, SizeType
<1> QED BY <1>1, <1>2 DEF IsLeader

LEMMA DesignateTypes ==
    ASSUME TypeOK, NEW d \in Data, Designate(d)
    PROVE  SentTypes /\ IsLeader(leader')
<1> DEFINE l == [Made(d) EXCEPT !.sigs = Collected(d)]
<1>1. IsLeader(l)
  BY ReadyIs
<1>2. CASE leader' = l /\ Wait
  BY <1>1, <1>2, WaitTypes
<1>3. CASE Share("set")
  BY <1>3, ShareTypes
<1>4. CASE \E sorted \in BOOLEAN : SendDesignation(Finalized(l, sorted))
  <2>1. PICK sorted \in BOOLEAN : SendDesignation(Finalized(l, sorted))
    BY <1>4
  <2>2. IsLeader(Finalized(l, sorted))
    BY <1>1, FinalizedIs
  <2> QED BY <2>1, <2>2, SendTypes
<1> QED BY <1>2, <1>3, <1>4 DEF Designate

(* A turn touches nothing else. *)
LEMMA TurnTypes ==
    ASSUME TypeOK, NEW m \in Members, Turn(m), SentTypes, IsLeader(leader'),
           done' = done \/ done' = done \cup {m}
    PROVE  TypeOK'
<1>1. setting' = setting /\ Members' = Members /\ Signers' = Signers /\ Running' = Running
  BY DEF Turn, setting, Members, Signers, Running
<1>2. m \in Running
  BY DEF Turn
<1>3. shared' = shared /\ signature' = signature /\ role' = role /\ time' = time /\ due' = due
        /\ woken' = woken \ {m}
  BY DEF Turn, chain
<1> QED BY <1>1, <1>2, <1>3 DEF TypeOK, SentTypes, IsLeader, Monitors

LEMMA LeaderTurnTypes ==
    ASSUME TypeOK, LeaderTurn
    PROVE  SentTypes /\ IsLeader(leader')
<1> USE LeaderIs, SizeType, NotaryAssumption
<1>1. CASE shared = NoDomain
  <2>1. RegisterDomain(0) /\ leader' = leader
    BY <1>1 DEF LeaderTurn
  <2> QED BY <2>1, RegisterTypes
<1>2. CASE shared # NoDomain /\ shared = NoRecord
  <2>1. (Wait /\ leader' = leader) \/ Share("add")
    BY <1>2 DEF LeaderTurn
  <2> QED BY <2>1, WaitTypes, ShareTypes
<1>3. CASE shared # NoDomain /\ shared # NoRecord
  <2>1. Share("set") \/ Designate(shared)
    BY <1>3 DEF LeaderTurn
  <2>2. shared \in Data
    BY <1>3, SharedType
  <2> QED BY <2>1, <2>2, ShareTypes, DesignateTypes
<1> QED BY <1>1, <1>2, <1>3

LEMMA SignerTurnTypes ==
    ASSUME TypeOK, NEW m \in Signers, SignerTurn(m)
    PROVE  SentTypes
<1>1. m \in Members /\ pending[m] \in SUBSET Monitors /\ n \in Nat
  BY SizeType DEF Signers, Members, TypeOK, Monitors
<1>2. CASE Wait
  BY <1>2, WaitTypes
<1>3. CASE pending' = [pending EXCEPT ![m] = @ \ {"record"}] /\ UNCHANGED <<pool, awaited, mishaps>>
  BY <1>1, <1>3 DEF SentTypes, TypeOK, Monitors
<1>4. CASE /\ shared \in Data /\ shared # NoDomain /\ shared # NoRecord
           /\ Sign(m, shared)
  <2>1. \A op \in {"add", "set"} : Recording(op, m, shared) \in Tx
    BY <1>1, <1>4 DEF Recording, Tx, Members
  <2>2. \/ RegisterDomain(m) \/ Wait
        \/ \E op \in {"add", "set"} : Submit(m, Recording(op, m, shared), "record", pending[m])
    <3>1. CASE signature[m] = NoDomain
      BY <1>4, <3>1, NotaryAssumption DEF Sign
    <3>2. CASE signature[m] # NoDomain /\ signature[m] = NoRecord
      BY <1>4, <3>2, NotaryAssumption DEF Sign
    <3>3. CASE signature[m] # NoDomain /\ signature[m] # NoRecord
      BY <1>4, <3>3, NotaryAssumption DEF Sign
    <3> QED BY <3>1, <3>2, <3>3
  <2> QED BY <1>1, <2>1, <2>2, RegisterTypes, WaitTypes, SubmitTypes DEF Monitors
<1> QED BY <1>2, <1>3, <1>4, SharedType DEF SignerTurn

LEMMA MemberTypes ==
    ASSUME TypeOK, NEW m \in Running, MemberTurn(m) \/ FailedTurn(m)
    PROVE  TypeOK'
<1>1. m \in Members
  BY DEF Running
<1>2. CASE Return(m)
  BY <1>1, <1>2, WaitTypes, LeaderIs, TurnTypes DEF Return
<1>3. CASE m = 0 /\ SoloTurn
  <2>1. Designation(NoTx) \in Tx /\ pending[0] \in SUBSET Monitors
    BY SizeType DEF Designation, Tx, TypeOK, Monitors
  <2>2. SentTypes
    BY <1>1, <1>3, <2>1, WaitTypes, SubmitTypes DEF SoloTurn, Monitors
  <2> QED BY <1>1, <1>3, <2>2, LeaderIs, TurnTypes DEF SoloTurn
<1>4. CASE m = 0 /\ LeaderTurn
  <2>1. Turn(m) /\ done' = done
    BY <1>4 DEF LeaderTurn
  <2> QED BY <1>1, <1>4, <2>1, LeaderTurnTypes, TurnTypes
<1>5. CASE m \in Signers /\ SignerTurn(m)
  <2>1. Turn(m) /\ done' = done /\ leader' = leader
    BY <1>5 DEF SignerTurn
  <2> QED BY <1>1, <1>5, <2>1, LeaderIs, SignerTurnTypes, TurnTypes
<1>6. CASE FailedTurn(m)
  <2>1. mishaps' \in [losses : Nat, faults : Nat, restarts : Nat]
    BY <1>6, MishapType DEF FailedTurn, Fault
  <2>2. SentTypes
    BY <1>6, <2>1 DEF FailedTurn, SentTypes, TypeOK, Monitors
  <2> QED BY <1>1, <1>6, <2>2, LeaderIs, TurnTypes DEF FailedTurn
<1> QED BY <1>2, <1>3, <1>4, <1>5, <1>6 DEF MemberTurn

-----------------------------------------------------------------------------
(* The steps that are not turns. *)

LEMMA SettleTypes ==
    ASSUME TypeOK, NEW t \in pool, Settle(t)
    PROVE  /\ pool' \subseteq Tx /\ awaited' \subseteq pool'
           /\ due' \in [Members -> SUBSET Monitors]
<1>1. Monitor(t) \in Monitors
  BY DEF Monitor, Monitors, Tx, TypeOK
<1>2. due' \in [Members -> SUBSET Monitors]
  BY <1>1 DEF Settle, TypeOK, Monitors
<1> QED BY <1>2 DEF Settle, TypeOK

LEMMA WrittenType ==
    ASSUME NEW old \in Recorded, NEW t \in Tx, t.kind # "designate"
    PROVE  Written(old, t) \in Recorded
  BY DEF Written, Recorded, Tx

LEMMA AcceptTypes == ASSUME TypeOK, NEW t \in pool, Accept(t) PROVE TypeOK'
<1>1. /\ pool' \subseteq Tx /\ awaited' \subseteq pool'
      /\ due' \in [Members -> SUBSET Monitors]
  BY SettleTypes DEF Accept
<1>2. setting' = setting /\ Members' = Members /\ Signers' = Signers /\ Running' = Running
  BY DEF Accept, Settle, setting, Members, Signers, Running
<1>3. t \in Tx
  BY DEF TypeOK
<1>4. shared' \in Recorded /\ signature' \in [Signers -> Recorded] /\ role' \in BOOLEAN
  <2>1. CASE t.kind = "designate"
    BY <2>1 DEF Accept, TypeOK, Recorded
  <2>2. CASE t.kind # "designate"
    BY <1>3, <2>2, WrittenType DEF Accept, TypeOK, Recorded
  <2> QED BY <2>1, <2>2
<1> QED BY <1>1, <1>2, <1>4 DEF Accept, Settle, TypeOK, Monitors, Recorded

LEMMA LoseTypes == ASSUME TypeOK, NEW t \in pool, Lose(t) PROVE TypeOK'
<1>1. /\ pool' \subseteq Tx /\ awaited' \subseteq pool'
      /\ due' \in [Members -> SUBSET Monitors]
  BY SettleTypes DEF Lose
<1>2. setting' = setting /\ Members' = Members /\ Signers' = Signers /\ Running' = Running
  BY DEF Lose, Settle, setting, Members, Signers, Running
<1>3. mishaps' \in [losses : Nat, faults : Nat, restarts : Nat]
  <2>1. CASE mishaps' = mishaps
    BY <2>1 DEF TypeOK
  <2>2. CASE Mishap("losses")
    BY <2>2, MishapType
  <2> QED BY <2>1, <2>2 DEF Lose
<1> QED BY <1>1, <1>2, <1>3 DEF Lose, Settle, chain, TypeOK, Monitors

LEMMA RestartTypes == ASSUME TypeOK, NEW m \in Running, Restart(m) PROVE TypeOK'
<1>1. setting' = setting /\ Members' = Members /\ Signers' = Signers /\ Running' = Running
  BY DEF Restart, setting, Members, Signers, Running
<1>2. mishaps' \in [losses : Nat, faults : Nat, restarts : Nat]
  BY MishapType DEF Restart
<1>3. IsLeader(leader')
  BY FreshIs, LeaderIs DEF Restart
<1>4. {pending', due'} \subseteq [Members -> SUBSET Monitors]
  BY DEF Restart, TypeOK, Monitors
<1> QED BY <1>1, <1>2, <1>3, <1>4 DEF Restart, chain, TypeOK, Monitors, IsLeader

LEMMA OtherTypes ==
    ASSUME TypeOK, (\E m \in Running : Notice(m)) \/ Block \/ Age \/ UNCHANGED vars
    PROVE  TypeOK'
<1>1. setting' = setting /\ Members' = Members /\ Signers' = Signers /\ Running' = Running
  BY DEF Notice, Block, Age, vars, setting, Members, Signers, Running
<1>2. ASSUME NEW m \in Running, Notice(m) PROVE TypeOK'
  <2>1. PICK monitor \in due[m] : /\ due' = [due EXCEPT ![m] = @ \ {monitor}]
                                  /\ pending' = [pending EXCEPT ![m] = @ \ {monitor}]
    BY <1>2 DEF Notice
  <2>2. due \in [Members -> SUBSET Monitors] /\ pending \in [Members -> SUBSET Monitors]
    BY DEF TypeOK, Monitors
  <2>3. due' \in [Members -> SUBSET Monitors]
    BY <2>1, <2>2
  <2>4. pending' \in [Members -> SUBSET Monitors]
    BY <2>1, <2>2
  <2> QED BY <1>1, <1>2, <2>3, <2>4 DEF Notice, chain, TypeOK, Monitors
<1>3. CASE Block
  BY <1>1, <1>3 DEF Block, chain, local, TypeOK
<1>4. CASE Age
  BY <1>1, <1>4 DEF Age, local, TypeOK
<1>5. CASE UNCHANGED vars
  BY <1>1, <1>5 DEF vars, chain, local, TypeOK
<1> QED BY <1>2, <1>3, <1>4, <1>5

LEMMA InitTypes == Init => TypeOK
<1> SUFFICES ASSUME Init PROVE TypeOK
  OBVIOUS
<1>1. IsLeader(leader)
  BY FreshIs DEF Init
<1>2. setting \in Committees
  BY NotaryAssumption DEF Init, setting
<1> QED BY <1>1, <1>2 DEF Init, TypeOK, IsLeader

(* Types of the whole state, through every turn, block, loss and restart   *)
(* of enableNotary.                                                        *)
THEOREM TypeCorrect == Spec => []TypeOK
<1>1. TypeOK /\ [Next]_vars => TypeOK'
  BY MemberTypes, AcceptTypes, LoseTypes, RestartTypes, OtherTypes DEF Next
<1> QED BY <1>1, InitTypes, PTL DEF Spec

-----------------------------------------------------------------------------
(* Designations on the way. *)

Tried == IF leader.tried THEN 1 ELSE 0

(* What OneDesignation rests on: a designation on the way that was not made *)
(* before a restart is one that the leader remembers having tried.          *)
Remembered ==
    /\ IsFiniteSet(pool)
    /\ n = 1 => Designations \subseteq {Designation(NoTx)}
    /\ n > 1 => Cardinality(Designations) <= Tried + mishaps.restarts

(* No designation is sent, and none is forgotten. *)
Steady ==
    /\ IsFiniteSet(pool') /\ n' = n /\ Designations' \subseteq Designations
    /\ leader'.tried = leader.tried
    /\ mishaps'.restarts = mishaps.restarts

LEMMA SteadyRemembers == TypeOK /\ TypeOK' /\ Remembered /\ Steady => Remembered'
<1> SUFFICES ASSUME TypeOK, TypeOK', Remembered, Steady PROVE Remembered'
  OBVIOUS
<1>1. IsFiniteSet(Designations)
  BY FS_Subset DEF Remembered, Designations
<1>2. /\ Cardinality(Designations') <= Cardinality(Designations)
      /\ Cardinality(Designations') \in Nat /\ Cardinality(Designations) \in Nat
  BY <1>1, FS_Subset, FS_CardinalityType DEF Steady
<1>3. Designations' \subseteq {Designation(NoTx)}' <=> Designations' \subseteq {Designation(NoTx)}
  BY DEF Designation
<1>4. Tried' = Tried /\ Tried \in Nat /\ mishaps.restarts \in Nat
  BY DEF Steady, Tried, TypeOK
<1>5. IsFiniteSet(pool)' /\ n' = n
  BY DEF Steady
<1>6. n = 1 => (Designations \subseteq {Designation(NoTx)})'
  BY <1>3 DEF Remembered, Steady
<1>7. n > 1 => Cardinality(Designations') <= Tried' + mishaps'.restarts
  BY <1>2, <1>4 DEF Remembered, Steady
<1> QED BY <1>5, <1>6, <1>7 DEF Remembered

(* Steady, less what concerns the leader. *)
Quiet ==
    /\ IsFiniteSet(pool') /\ Designations' \subseteq Designations
    /\ mishaps'.restarts = mishaps.restarts

LEMMA WaitQuiet == Remembered /\ Wait => Quiet
  BY DEF Remembered, Wait, Quiet, Designations

LEMMA FaultQuiet == TypeOK /\ Remembered /\ Fault /\ pool' = pool => Quiet
<1> SUFFICES ASSUME TypeOK, Remembered, Fault, pool' = pool PROVE Quiet
  OBVIOUS
<1>1. mishaps'.restarts = mishaps.restarts
  BY DEF Fault, Mishap, TypeOK
<1> QED BY <1>1 DEF Remembered, Quiet, Designations

LEMMA SubmitQuiet ==
    ASSUME TypeOK, Remembered, NEW m, NEW t, NEW monitor, NEW ms,
           Submit(m, t, monitor, ms), t.kind # "designate"
    PROVE  Quiet
<1>1. CASE pool' = pool \cup {t} /\ UNCHANGED mishaps
  <2>1. IsFiniteSet(pool')
    BY <1>1, FS_AddElement DEF Remembered
  <2> QED BY <1>1, <2>1 DEF Quiet, Designations
<1>2. CASE Fault /\ pool' = pool
  BY <1>2, FaultQuiet
<1> QED BY <1>1, <1>2 DEF Submit

LEMMA RegisterQuiet ==
    ASSUME TypeOK, Remembered, NEW m, RegisterDomain(m) PROVE Quiet
<1>1. Registration(m).kind # "designate"
  BY DEF Registration
<1> QED BY <1>1, WaitQuiet, SubmitQuiet DEF RegisterDomain

LEMMA ShareQuiet ==
    ASSUME TypeOK, Remembered, NEW op \in {"add", "set"}, Share(op)
    PROVE  Quiet /\ leader'.tried = leader.tried
<1>1. Recording(op, 0, NewData).kind # "designate"
  BY DEF Recording
<1>2. Quiet
  BY <1>1, SubmitQuiet DEF Share
<1> QED BY <1>2 DEF Share, FreshLeader

LEMMA SignerQuiet ==
    ASSUME TypeOK, Remembered, NEW m \in Signers, SignerTurn(m) PROVE Quiet
<1>1. CASE Wait
  BY <1>1, WaitQuiet
<1>2. CASE UNCHANGED <<pool, awaited, mishaps>>
  BY <1>2 DEF Remembered, Quiet, Designations
<1>3. CASE shared \in Data /\ shared # NoDomain /\ shared # NoRecord /\ Sign(m, shared)
  <2>1. \A op \in {"add", "set"} : Recording(op, m, shared).kind # "designate"
    BY DEF Recording
  <2>2. \/ RegisterDomain(m) \/ Wait
        \/ \E op \in {"add", "set"} : Submit(m, Recording(op, m, shared), "record", pending[m])
    <3>1. CASE signature[m] = NoDomain
      BY <1>3, <3>1, NotaryAssumption DEF Sign
    <3>2. CASE signature[m] # NoDomain /\ signature[m] = NoRecord
      BY <1>3, <3>2, NotaryAssumption DEF Sign
    <3>3. CASE signature[m] # NoDomain /\ signature[m] # NoRecord
      BY <1>3, <3>3, NotaryAssumption DEF Sign
    <3> QED BY <3>1, <3>2, <3>3
  <2> QED BY <2>1, <2>2, RegisterQuiet, WaitQuiet, SubmitQuiet
<1> QED BY <1>1, <1>2, <1>3, SharedType DEF SignerTurn

(* The one place where a designation of several members is sent. *)
LEMMA SendRemembers ==
    ASSUME TypeOK, Remembered, n > 1, n' = n, NEW l, IsLeader(l), l.tried = leader.tried,
           ~l.tried, SendDesignation(l), TypeOK'
    PROVE  Remembered'
<1>1. CASE Quiet /\ leader'.tried = leader.tried
  BY <1>1, SteadyRemembers DEF Quiet, Steady
<1>2. CASE leader' = l
  <2>1. Quiet
    <3>1. CASE Wait
      BY <3>1, WaitQuiet
    <3>2. CASE Fault /\ pool' = pool
      BY <3>2, FaultQuiet
    <3>3. CASE leader' = [l EXCEPT !.tried = TRUE]
      BY <1>2, <3>3 DEF IsLeader
    <3>4. CASE Share("set")
      BY <3>4, ShareQuiet
    <3> QED BY <3>1, <3>2, <3>3, <3>4 DEF SendDesignation
  <2> QED BY <1>1, <1>2, <2>1
<1>3. CASE /\ leader' = [l EXCEPT !.tried = TRUE]
           /\ pool' = pool \cup {Designation(l.tx)}
           /\ UNCHANGED mishaps
  <2>1. leader'.tried
    BY <1>3 DEF IsLeader
  <2>2. Designations' \subseteq Designations \cup {Designation(l.tx)}
    BY <1>3 DEF Designations
  <2>3. IsFiniteSet(Designations)
    BY FS_Subset DEF Remembered, Designations
  <2>4. /\ IsFiniteSet(Designations \cup {Designation(l.tx)})
        /\ Cardinality(Designations) \in Nat
        /\ Cardinality(Designations \cup {Designation(l.tx)}) <= Cardinality(Designations) + 1
    <3> DEFINE D == Designations
               x == Designation(l.tx)
    <3> HIDE DEF D, x
    <3>1. IsFiniteSet(D) /\ Cardinality(D) \in Nat
      BY <2>3, FS_CardinalityType DEF D
    <3>2. IsFiniteSet(D \cup {x}) /\ Cardinality(D \cup {x}) <= Cardinality(D) + 1
      BY <3>1, FS_AddElement
    <3> QED BY <3>1, <3>2 DEF D, x
  <2>5. Cardinality(Designations') <= Cardinality(Designations) + 1
    BY <2>2, <2>4, FS_Subset, FS_CardinalityType
  <2>6. Cardinality(Designations) <= mishaps.restarts /\ mishaps.restarts \in Nat
    BY DEF Remembered, Tried, TypeOK
  <2>7. IsFiniteSet(pool')
    BY <1>3, FS_AddElement DEF Remembered
  <2>8. Cardinality(Designations') \in Nat
    BY <2>2, <2>4, FS_Subset, FS_CardinalityType
  <2> QED BY <1>3, <2>1, <2>4, <2>5, <2>6, <2>7, <2>8, SizeType DEF Remembered, Tried
<1>4. CASE Share("set")
  BY <1>1, <1>4, ShareQuiet
<1> QED BY <1>2, <1>3, <1>4 DEF SendDesignation

LEMMA LeaderRemembers ==
    ASSUME TypeOK, Remembered, LeaderTurn, TypeOK' PROVE Remembered'
<1>1. n > 1 /\ n' = n
  BY DEF LeaderTurn, Turn, setting
<1>2. ASSUME Quiet, leader'.tried = leader.tried PROVE Remembered'
  BY <1>1, <1>2, SteadyRemembers DEF Quiet, Steady
<1>3. CASE shared = NoDomain
  BY <1>2, <1>3, RegisterQuiet, NotaryAssumption DEF LeaderTurn
<1>4. CASE shared # NoDomain /\ shared = NoRecord
  <2>1. (Wait /\ leader' = leader) \/ Share("add")
    BY <1>4 DEF LeaderTurn
  <2> QED BY <1>2, <2>1, WaitQuiet, ShareQuiet
<1>5. CASE shared # NoDomain /\ shared # NoRecord
  <2>1. Share("set") \/ Designate(shared)
    BY <1>5 DEF LeaderTurn
  <2>2. CASE Share("set")
    BY <1>2, <2>2, ShareQuiet
  <2>3. CASE Designate(shared)
    <3> DEFINE l == [Made(shared) EXCEPT !.sigs = Collected(shared)]
    <3>1. IsLeader(l) /\ l.tried = leader.tried
      BY <1>5, SharedType, ReadyIs
    <3> HIDE DEF l
    <3>2. \/ leader' = l /\ Wait
          \/ Share("set")
          \/ ~l.tried /\ \E sorted \in BOOLEAN : SendDesignation(Finalized(l, sorted))
      BY <2>3 DEF Designate, l
    <3>3. CASE leader' = l /\ Wait
      BY <1>2, <3>1, <3>3, WaitQuiet
    <3>4. CASE Share("set")
      BY <1>2, <3>4, ShareQuiet
    <3>5. CASE ~l.tried /\ \E sorted \in BOOLEAN : SendDesignation(Finalized(l, sorted))
      <4>1. PICK sorted \in BOOLEAN : SendDesignation(Finalized(l, sorted))
        BY <3>5
      <4>2. /\ IsLeader(Finalized(l, sorted))
            /\ Finalized(l, sorted).tried = leader.tried /\ ~Finalized(l, sorted).tried
        BY <3>1, <3>5, FinalizedIs
      <4> QED BY <1>1, <4>1, <4>2, SendRemembers
    <3> QED BY <3>2, <3>3, <3>4, <3>5
  <2> QED BY <2>1, <2>2, <2>3
<1> QED BY <1>3, <1>4, <1>5

LEMMA SoloRemembers ==
    ASSUME TypeOK, Remembered, SoloTurn, TypeOK' PROVE Remembered'
<1>1. n = 1 /\ n' = n
  BY DEF SoloTurn, Turn, setting
<1>2. CASE pool' = pool
  BY <1>1, <1>2 DEF Remembered, Designations, Designation
<1>3. CASE pool' = pool \cup {Designation(NoTx)}
  <2>1. IsFiniteSet(pool')
    BY <1>3, FS_AddElement DEF Remembered
  <2>2. Designations' \subseteq {Designation(NoTx)}
    BY <1>1, <1>3 DEF Remembered, Designations
  <2> QED BY <1>1, <2>1, <2>2 DEF Remembered, Designation
<1> QED BY <1>2, <1>3 DEF SoloTurn, Submit, Wait

LEMMA MemberRemembers ==
    ASSUME TypeOK, Remembered, NEW m \in Running, MemberTurn(m) \/ FailedTurn(m), TypeOK'
    PROVE  Remembered'
<1>1. ASSUME Quiet, leader' = leader, n' = n PROVE Remembered'
  BY <1>1, SteadyRemembers DEF Quiet, Steady
<1>2. CASE Return(m)
  BY <1>1, <1>2, WaitQuiet DEF Return, Turn, setting
<1>3. CASE m \in Signers /\ SignerTurn(m)
  <2>1. leader' = leader /\ n' = n
    BY <1>3 DEF SignerTurn, Turn, setting
  <2> QED BY <1>1, <1>3, <2>1, SignerQuiet
<1>4. CASE FailedTurn(m)
  BY <1>1, <1>4, FaultQuiet DEF FailedTurn, Turn, setting
<1> QED BY <1>2, <1>3, <1>4, LeaderRemembers, SoloRemembers DEF MemberTurn

LEMMA RestartRemembers ==
    ASSUME TypeOK, Remembered, NEW m \in Running, Restart(m) PROVE Remembered'
<1>1. mishaps'.restarts = mishaps.restarts + 1 /\ mishaps.restarts \in Nat
  BY DEF Restart, Mishap, TypeOK
<1>2. pool' = pool /\ n' = n /\ Designations' = Designations
  BY DEF Restart, setting, Designations
<1>3. Tried' \in {0, 1} /\ Tried \in {0, 1}
  BY DEF Tried
<1>4. IsFiniteSet(Designations)
  BY FS_Subset DEF Remembered, Designations
<1>5. Cardinality(Designations) \in Nat
  BY <1>4, FS_CardinalityType
<1>6. n > 1 => Cardinality(Designations) <= Tried' + mishaps'.restarts
  BY <1>1, <1>3, <1>5 DEF Remembered
<1> QED BY <1>2, <1>6 DEF Remembered, Designation

LEMMA OthersRemember ==
    ASSUME TypeOK, TypeOK', Remembered,
           \/ \E t \in pool : Accept(t) \/ Lose(t)
           \/ (\E m \in Running : Notice(m)) \/ Block \/ Age \/ UNCHANGED vars
    PROVE  Remembered'
<1>1. n' = n /\ leader' = leader /\ pool' \subseteq pool
  BY DEF Accept, Lose, Settle, Notice, Block, Age, vars, setting, local
<1>2. mishaps'.restarts = mishaps.restarts
  BY DEF Accept, Lose, Mishap, Notice, Block, Age, vars, TypeOK
<1>3. IsFiniteSet(pool') /\ Designations' \subseteq Designations
  BY <1>1, FS_Subset DEF Remembered, Designations
<1> QED BY <1>1, <1>2, <1>3, SteadyRemembers DEF Steady

LEMMA RememberedHolds == Spec => [](TypeOK /\ Remembered)
<1>1. Init => Remembered
  BY FS_EmptySet, NotaryAssumption DEF Init, Remembered, Designations, Tried, FreshLeader
<1>2. TypeOK /\ TypeOK' /\ Remembered /\ [Next]_vars => Remembered'
  BY MemberRemembers, RestartRemembers, OthersRemember DEF Next
<1> QED BY <1>1, <1>2, TypeCorrect, PTL DEF Spec

(* However long the first designation takes, and however often the data is *)
(* shared anew meanwhile (triedDesignateRoleTx), there is no second one on *)
(* the way unless a member restarts.                                       *)
THEOREM DesignatedOnce == Spec => []OneDesignation
<1>1. TypeOK /\ Remembered => OneDesignation
  <2> SUFFICES ASSUME TypeOK, Remembered PROVE OneDesignation
    OBVIOUS
  <2>1. mishaps.restarts \in Nat /\ n \in Nat \ {0}
    BY SizeType DEF TypeOK
  <2>2. CASE n = 1
    <3>1. IsFiniteSet({Designation(NoTx)}) /\ Cardinality({Designation(NoTx)}) = 1
      BY FS_Singleton
    <3>2. Cardinality(Designations) <= 1 /\ Cardinality(Designations) \in Nat
      BY <2>2, <3>1, FS_Subset, FS_CardinalityType DEF Remembered
    <3> QED BY <2>1, <3>2 DEF OneDesignation
  <2>3. CASE n > 1
    <3>1. IsFiniteSet(Designations)
      BY FS_Subset DEF Remembered, Designations
    <3>2. Cardinality(Designations) \in Nat
      BY <3>1, FS_CardinalityType
    <3> QED BY <2>1, <2>3, <3>2 DEF OneDesignation, Remembered, Tried
  <2> QED BY <2>1, <2>2, <2>3
<1> QED BY <1>1, RememberedHolds, PTL

-----------------------------------------------------------------------------
(* Governance. *)

(* A call of Vote has the epoch it was made in and a list that was in      *)
(* force then: if that is the current epoch, the list is a recent one.  An *)
(* epoch that comes is later than those of all calls on their way.         *)
CallsDated ==
    \A call \in calls :
        IsVote(call) => /\ call.epoch \in Nat /\ call.epoch <= epoch
                        /\ call.epoch = epoch => call.list \in recent
Dated == epoch \in Nat /\ wanted \in recent /\ CallsDated

LEMMA DatedInit == GovernanceInit => Dated
  BY DEF GovernanceInit, AlphabetInit, Dated, CallsDated

(* The calls after a step are calls before it, but for a new one of Vote   *)
(* or of Put.                                                              *)
LEMMA DatedStep == Dated /\ [GovernanceNext]_governanceVars => Dated'
<1> SUFFICES ASSUME Dated, [GovernanceNext]_governanceVars PROVE Dated'
  OBVIOUS
<1>1. ASSUME NEW list \in Lists, Decide(list) PROVE Dated'
  BY <1>1 DEF Decide, Dated, CallsDated, alphabetVars, IsVote
<1>2. ASSUME NEW c \in Contracts, SendVote(c) PROVE Dated'
  <2> DEFINE new == [by |-> AlphabetAddress, to |-> c, epoch |-> epoch, list |-> wanted]
  <2>1. calls' = calls \cup {new} /\ UNCHANGED <<epoch, wanted, recent>>
    BY <1>2 DEF SendVote, alphabetVars
  <2>2. new.epoch = epoch /\ new.list = wanted
    OBVIOUS
  <2> QED
    BY <2>1, <2>2 DEF Dated, CallsDated, IsVote
<1>3. ASSUME NEW e \in Epochs, NEW peer \in Peers, SendPut(e, peer) PROVE Dated'
  <2> DEFINE new == [by |-> AlphabetAddress, epoch |-> e, peer |-> peer, value |-> NextValue]
  <2>1. calls' = calls \cup {new} /\ UNCHANGED <<epoch, wanted, recent>>
    BY <1>3 DEF SendPut, alphabetVars
  <2>2. ~IsVote(new)
    BY DEF IsVote
  <2> QED
    BY <2>1, <2>2 DEF Dated, CallsDated, IsVote
<1>4. ASSUME NEW call \in calls, AcceptCall(call) \/ Drop(call) PROVE Dated'
  <2>1. calls' \subseteq calls /\ UNCHANGED <<epoch, wanted, recent>>
    BY <1>4 DEF AcceptCall, Drop, alphabetVars
  <2> QED
    BY <2>1 DEF Dated, CallsDated, IsVote
<1>5. ASSUME Tick, recent' = {wanted}, UNCHANGED rest PROVE Dated'
  <2>1. epoch' = epoch + 1 /\ UNCHANGED <<wanted, calls>>
    BY <1>5 DEF Tick, rest
  <2> QED
    BY <1>5, <2>1 DEF Dated, CallsDated, IsVote
<1>6. ASSUME UNCHANGED <<epoch, wanted, recent, calls>> PROVE Dated'
  BY <1>6 DEF Dated, CallsDated, IsVote
<1> QED
  BY <1>1, <1>2, <1>3, <1>4, <1>5, <1>6
  DEF GovernanceNext, governanceVars, alphabetVars, rest, Emit, Election, Register

-----------------------------------------------------------------------------
(* Votes change by a call of Vote that is accepted, to what the list of    *)
(* the call has for the contract, and only in the epoch of the call.       *)
LEMMA VotesByRecentLists ==
    ASSUME Dated, [GovernanceNext]_governanceVars, NEW c \in Contracts, votes'[c] # votes[c]
    PROVE  \E list \in recent : votes'[c] = VoteOf(c, list)
<1>1. PICK call \in calls : AcceptCall(call)
  BY DEF GovernanceNext, governanceVars, alphabetVars, rest, Decide, SendVote, SendPut, Drop, Emit, Election,
         Register, Tick
<1>2. IsVote(call) /\ Votable(call.by, call.epoch, call.list) /\ Vote(call.to, call.list)
  BY <1>1 DEF AcceptCall
<1>3. call.list \in recent
  BY <1>2 DEF Dated, CallsDated, Votable
<1>4. votes'[c] = VoteOf(c, call.list)
  BY <1>2 DEF Vote
<1> QED
  BY <1>3, <1>4

(* No contract votes by a list that was replaced in an earlier epoch,      *)
(* however late a call comes (alphabet.Vote).                              *)
THEOREM VotesAreCurrent == GovernanceSpec => VotesCurrent
<1>1. Dated /\ [GovernanceNext]_governanceVars => [\A c \in Contracts : votes'[c] # votes[c] =>
                                  \E list \in recent : votes'[c] = VoteOf(c, list)]_governanceVars
  BY VotesByRecentLists
<1> QED
  BY <1>1, DatedInit, DatedStep, PTL DEF GovernanceSpec, VotesCurrent

-----------------------------------------------------------------------------
(* Reputation.  Numbers have bytes, and each its own.                      *)
LEMMA BaseType == Base \in Nat /\ Base >= 2 /\ 0 \in Byte
BY ReputationAssumption DEF Byte

LEMMA DivBase ==
    ASSUME NEW x \in Nat
    PROVE  /\ x \div Base \in Nat /\ x % Base \in Byte
           /\ x = Base * (x \div Base) + (x % Base)
           /\ x > 0 => x \div Base < x
<1>1. Base \in Nat \ {0}
  BY BaseType
<1>2. x = Base * (x \div Base) + (x % Base) /\ x % Base \in 0..(Base - 1)
  BY <1>1
<1>3. x \div Base \in Int
  BY <1>1
<1> DEFINE q == x \div Base
           r == x % Base
<1>4. q >= 0
  <2> SUFFICES ASSUME q < 0 PROVE FALSE
    BY <1>3
  <2>1. PICK k \in Nat : q = -1 - k
    BY <1>3, -1 - q \in Nat
  <2> HIDE DEF q, r
  <2>2. Base * q = -Base - Base * k /\ Base * k \in Nat
    BY <1>1, <2>1
  <2>3. x = Base * q + r /\ r \in 0..(Base - 1)
    BY <1>2 DEF q, r
  <2> QED BY <1>1, <2>2, <2>3
<1>5. x > 0 => q < x
  <2> SUFFICES ASSUME x > 0, q >= x PROVE FALSE
    BY <1>3
  <2>1. PICK b \in Nat : Base = b + 2
    BY BaseType, Base - 2 \in Nat
  <2>2. x = Base * q + r /\ r \in 0..(Base - 1) /\ q \in Nat
    BY <1>2, <1>3, <1>4
  <2> HIDE DEF q, r
  <2>3. Base * q = b * q + 2 * q /\ b * q \in Nat
    BY <2>1, <2>2
  <2> QED BY <2>2, <2>3
<1> QED BY <1>2, <1>3, <1>4, <1>5 DEF Byte

(* The bytes of a number.                                                  *)
LEMMA DigitsAre ==
    /\ Digits \in [Nat -> Seq(Byte)]
    /\ \A x \in Nat : Digits[x] = IF 2 * x < Base THEN <<x>>
                                  ELSE <<x % Base>> \o Digits[x \div Base]
<1> DEFINE Val == Seq(Byte)
           stop == {x \in Nat : 2 * x < Base}
           base == [x \in Nat |-> IF 2 * x < Base THEN <<x>> ELSE <<>>]
           down == [x \in Nat |-> x \div Base]
           F == [p \in Nat \X Val |-> <<p[1] % Base>> \o p[2]]
           Body(f) == [x \in Nat |-> IF 2 * x < Base THEN <<x>>
                                     ELSE <<x % Base>> \o f[x \div Base]]
<1>1. stop \in SUBSET Nat /\ base \in [Nat -> Val] /\ down \in [Nat -> Nat]
  <2>1. \A x \in Nat : x \div Base \in Nat
    BY DivBase
  <2>2. \A x \in Nat : 2 * x < Base => x \in Byte
    BY BaseType DEF Byte
  <2> QED BY <2>1, <2>2
<1>2. F \in [Nat \X Val -> Val]
  <2>1. \A x \in Nat : <<x % Base>> \in Val
    BY DivBase
  <2> QED BY <2>1
<1>3. \A x \in Nat \ stop : down[x] < x
  <2> SUFFICES ASSUME NEW x \in Nat \ stop PROVE x \div Base < x
    OBVIOUS
  <2>1. x > 0
    BY BaseType
  <2> QED BY <2>1, DivBase
<1>4. PICK g \in [Nat -> Val] : \A x \in Nat : Unfolds(g, x, stop, base, F, down)
  <2> HIDE DEF Val, stop, base, down, F
  <2> QED BY <1>1, <1>2, <1>3, RecursionExists
<1>5. g = Body(g)
  <2> SUFFICES ASSUME NEW x \in Nat
               PROVE  g[x] = IF 2 * x < Base THEN <<x>> ELSE <<x % Base>> \o g[x \div Base]
    OBVIOUS
  <2>1. Unfolds(g, x, stop, base, F, down)
    BY <1>4
  <2>2. x \div Base \in Nat /\ g[x \div Base] \in Val
    BY <1>4, DivBase
  <2>3. F[<<x, g[down[x]]>>] = <<x % Base>> \o g[x \div Base]
    BY <2>2
  <2> QED BY <2>1, <2>3 DEF Unfolds
<1>6. Digits = CHOOSE f : f = Body(f)
  BY DEF Digits
<1>7. Digits = Body(Digits)
  <2> HIDE DEF Body
  <2> QED BY <1>5, <1>6
<1>8. \A x \in Nat : Digits[x] = IF 2 * x < Base THEN <<x>>
                                  ELSE <<x % Base>> \o Digits[x \div Base]
  BY <1>7
<1>9. Digits = [x \in Nat |-> Digits[x]]
  <2> DEFINE V(x) == IF 2 * x < Base THEN <<x>> ELSE <<x % Base>> \o Digits[x \div Base]
  <2>1. Digits = [x \in Nat |-> V(x)]
    BY <1>7
  <2> HIDE DEF V
  <2> QED BY <2>1
<1>10. ASSUME NEW x \in Nat, \A y \in 0..x : y < x => Digits[y] \in Val
       PROVE  Digits[x] \in Val
  <2>1. CASE 2 * x < Base
    <3>1. x \in Byte
      BY <2>1, BaseType DEF Byte
    <3>2. <<x>> \in Val
      BY <3>1
    <3>3. Digits[x] = <<x>>
      BY <1>8, <2>1
    <3> QED BY <3>2, <3>3
  <2>2. CASE ~(2 * x < Base)
    <3>1. x > 0
      BY <2>2, BaseType
    <3>2. x % Base \in Byte /\ x \div Base \in 0..x /\ x \div Base < x
      BY <3>1, DivBase
    <3>3. Digits[x \div Base] \in Val
      BY <1>10, <3>2
    <3>4. Digits[x] = <<x % Base>> \o Digits[x \div Base]
      BY <1>8, <2>2
    <3> QED BY <3>2, <3>3, <3>4
  <2> QED BY <2>1, <2>2
<1> DEFINE Good == {top \in Nat : \A x \in 0..top : Digits[x] \in Val}
<1> HIDE DEF Val
<1>11. 0 \in Good
  BY <1>10
<1>12. ASSUME NEW top \in Good PROVE top + 1 \in Good
  BY <1>10
<1>13. Good = Nat
  <2>1. Good \in SUBSET Nat
    OBVIOUS
  <2> HIDE DEF Good
  <2> QED BY <1>11, <1>12, <2>1, NatInductive
<1>14. \A x \in Nat : Digits[x] \in Val
  BY <1>13
<1> QED BY <1>8, <1>9, <1>14 DEF Val

-----------------------------------------------------------------------------
LEMMA DigitsNonempty == \A x \in Nat : Digits[x] \in Seq(Byte) /\ Len(Digits[x]) > 0
<1> SUFFICES ASSUME NEW x \in Nat PROVE Digits[x] \in Seq(Byte) /\ Len(Digits[x]) > 0
  OBVIOUS
<1>1. Digits[x] \in Seq(Byte)
  BY DigitsAre
<1>2. CASE 2 * x < Base
  <2>1. Digits[x] = <<x>>
    BY <1>2, DigitsAre
  <2> QED BY <1>1, <2>1
<1>3. CASE ~(2 * x < Base)
  <2>1. Digits[x] = <<x % Base>> \o Digits[x \div Base]
    BY <1>3, DigitsAre
  <2>2. x % Base \in Byte /\ Digits[x \div Base] \in Seq(Byte)
    BY DivBase, DigitsAre
  <2> QED BY <1>1, <2>1, <2>2
<1> QED BY <1>2, <1>3

(* A number that has more bytes than one. *)
LEMMA LongDigits ==
    ASSUME NEW x \in Nat, ~(2 * x < Base)
    PROVE  /\ Len(Digits[x]) > 1 /\ Digits[x][1] = x % Base
           /\ x \div Base \in Nat /\ x \div Base < x
           /\ Digits[x \div Base] = Tail(Digits[x])
<1>1. Digits[x] = <<x % Base>> \o Digits[x \div Base]
  BY DigitsAre
<1>2. x > 0
  BY BaseType
<1>3. x % Base \in Byte /\ x \div Base \in Nat /\ x \div Base < x
  BY <1>2, DivBase
<1>4. Digits[x \div Base] \in Seq(Byte) /\ Len(Digits[x \div Base]) > 0
  BY <1>3, DigitsNonempty
<1> DEFINE r == x % Base
           t == Digits[x \div Base]
<1>5. Digits[x] = <<r>> \o t /\ r \in Byte /\ t \in Seq(Byte) /\ Len(t) > 0
  BY <1>1, <1>3, <1>4
<1> HIDE DEF r, t
<1>6. Len(<<r>> \o t) > 1 /\ (<<r>> \o t)[1] = r /\ Tail(<<r>> \o t) = t
  BY <1>5
<1> QED BY <1>3, <1>5, <1>6 DEF r, t

LEMMA DigitsInjective == \A x, y \in Nat : Digits[x] = Digits[y] => x = y
<1> DEFINE Apart(x) == \A y \in Nat : Digits[x] = Digits[y] => x = y
           Good == {top \in Nat : \A x \in 0..top : Apart(x)}
<1>1. ASSUME NEW x \in Nat, 2 * x < Base PROVE Digits[x] = <<x>>
  BY <1>1, DigitsAre
<1>2. ASSUME NEW x \in Nat, \A z \in 0..x : z < x => Apart(z) PROVE Apart(x)
  <2> SUFFICES ASSUME NEW y \in Nat, Digits[x] = Digits[y] PROVE x = y
    OBVIOUS
  <2>1. CASE 2 * x < Base /\ 2 * y < Base
    <3>1. <<x>> = <<y>>
      BY <1>1, <2>1
    <3> QED BY <3>1
  <2>2. CASE 2 * x < Base /\ ~(2 * y < Base)
    <3>1. Len(Digits[x]) = 1
      BY <1>1, <2>2
    <3>2. Len(Digits[y]) > 1
      BY <2>2, LongDigits
    <3> QED BY <3>1, <3>2
  <2>3. CASE ~(2 * x < Base) /\ 2 * y < Base
    <3>1. Len(Digits[y]) = 1
      BY <1>1, <2>3
    <3>2. Len(Digits[x]) > 1
      BY <2>3, LongDigits
    <3> QED BY <3>1, <3>2
  <2>4. CASE ~(2 * x < Base) /\ ~(2 * y < Base)
    <3>1. x % Base = y % Base
      BY <2>4, LongDigits
    <3>2. Digits[x \div Base] = Digits[y \div Base]
      BY <2>4, LongDigits
    <3>3. x \div Base \in 0..x /\ x \div Base < x /\ y \div Base \in Nat
      BY <2>4, LongDigits
    <3>4. x \div Base = y \div Base
      BY <1>2, <3>2, <3>3
    <3>5. /\ x = Base * (x \div Base) + (x % Base)
          /\ y = Base * (y \div Base) + (y % Base)
      BY DivBase
    <3> QED BY <3>1, <3>4, <3>5
  <2> QED BY <2>1, <2>2, <2>3, <2>4
<1> HIDE DEF Apart
<1>3. 0 \in Good
  BY <1>2
<1>4. ASSUME NEW top \in Good PROVE top + 1 \in Good
  BY <1>2
<1>5. Good = Nat
  <2>1. Good \in SUBSET Nat
    OBVIOUS
  <2> HIDE DEF Good
  <2> QED BY <1>3, <1>4, <2>1, NatInductive
<1> QED BY <1>5 DEF Apart

LEMMA BytesType == \A x \in Nat : ToBytes(x) \in Seq(Byte)
BY DigitsNonempty DEF ToBytes

LEMMA BytesInjective == \A x, y \in Nat : ToBytes(x) = ToBytes(y) => x = y
<1>1. \A x \in Nat : x # 0 => ToBytes(x) = Digits[x] /\ Len(ToBytes(x)) > 0
  BY DigitsNonempty DEF ToBytes
<1>2. ToBytes(0) = <<>> /\ Len(<<>>) = 0
  BY DEF ToBytes
<1> QED BY <1>1, <1>2, DigitsInjective

(* The first byte of a number that is less than Base is the number. *)
LEMMA FirstByte ==
    ASSUME NEW x \in Nat, 0 < x, x < Base
    PROVE  Len(ToBytes(x)) > 0 /\ ToBytes(x)[1] = x
<1>1. ToBytes(x) = Digits[x] /\ Len(Digits[x]) > 0
  BY DigitsNonempty DEF ToBytes
<1>2. CASE 2 * x < Base
  <2>1. Digits[x] = <<x>>
    BY <1>2, DigitsAre
  <2> QED BY <1>1, <2>1
<1>3. CASE ~(2 * x < Base)
  <2>1. Digits[x][1] = x % Base
    BY <1>3, LongDigits
  <2>2. x % Base = x
    BY BaseType
  <2> QED BY <1>1, <2>1, <2>2
<1> QED BY <1>2, <1>3

-----------------------------------------------------------------------------
(* One key begins with another.                                            *)
LEMMA PrefixIs ==
    ASSUME NEW s \in Seq(Byte), NEW t \in Seq(Byte)
    PROVE  IsPrefix(s, t) <=> Len(s) <= Len(t) /\ \A i \in 1..Len(s) : s[i] = t[i]
<1>1. SubSeq(s, 1, Len(s)) = s
  OBVIOUS
<1>2. ASSUME Len(s) <= Len(t)
      PROVE  /\ SubSeq(t, 1, Len(s)) \in Seq(Byte) /\ Len(SubSeq(t, 1, Len(s))) = Len(s)
             /\ \A i \in 1..Len(s) : SubSeq(t, 1, Len(s))[i] = t[i]
  BY <1>2
<1> QED BY <1>1, <1>2 DEF IsPrefix

LEMMA Joined ==
    ASSUME NEW s \in Seq(Byte), NEW t \in Seq(Byte)
    PROVE  /\ s \o t \in Seq(Byte) /\ Len(s \o t) = Len(s) + Len(t)
           /\ \A i \in 1..Len(s) : (s \o t)[i] = s[i]
           /\ \A i \in 1..Len(t) : (s \o t)[Len(s) + i] = t[i]
           /\ \A i \in (Len(s) + 1)..(Len(s) + Len(t)) : (s \o t)[i] = t[i - Len(s)]
OBVIOUS

LEMMA PrefixOfJoined ==
    ASSUME NEW s \in Seq(Byte), NEW t \in Seq(Byte)
    PROVE  IsPrefix(s, s \o t)
<1>1. /\ s \o t \in Seq(Byte) /\ Len(s) <= Len(s \o t)
      /\ \A i \in 1..Len(s) : s[i] = (s \o t)[i]
  BY Joined
<1> QED BY <1>1, PrefixIs

LEMMA JoinedInjective ==
    ASSUME NEW s \in Seq(Byte), NEW t \in Seq(Byte), NEW u \in Seq(Byte), s \o t = s \o u
    PROVE  t = u
<1>1. Len(t) = Len(u)
  BY Joined
<1>2. ASSUME NEW i \in 1..Len(t) PROVE t[i] = u[i]
  <2>1. (s \o t)[Len(s) + i] = t[i]
    BY Joined
  <2>2. (s \o u)[Len(s) + i] = u[i]
    BY <1>1, Joined
  <2> QED BY <2>1, <2>2
<1> QED BY <1>1, <1>2

-----------------------------------------------------------------------------
LEMMA PeerType ==
    /\ \A e \in Epochs : e \in Nat /\ ToBytes(e) \in Seq(Byte)
    /\ \A p \in Peers : p \in Seq(Byte)
    /\ \A p, q \in Peers : Len(p) = Len(q)
BY ReputationAssumption, BytesType

LEMMA IDType == \A e \in Epochs, p \in Peers : StorageID(e, p) \in Seq(Byte)
BY PeerType DEF StorageID

(* A key that begins with the bytes of a longer epoch would be found for   *)
(* another peer.                                                           *)
LEMMA NoTail ==
    ASSUME NEW e \in Epochs, NEW p \in Peers, NEW q \in Peers,
           NEW d \in 1..Len(ToBytes(e)),
           \A i \in 1..Len(p) :
              p[i] = IF i <= Len(ToBytes(e)) - d + 1 THEN ToBytes(e)[d + i - 1]
                     ELSE q[i - (Len(ToBytes(e)) - d + 1)]
    PROVE  FALSE
<1> DEFINE b == ToBytes(e)
           c == SubSeq(b, d, Len(b))
           len == Len(b) - d + 1
<1>1. b \in Seq(Byte) /\ p \in Seq(Byte) /\ q \in Seq(Byte) /\ Len(p) = Len(q)
  BY PeerType
<1>2. ~IsPrefix(p, c \o q)
  BY <1>1, ReputationAssumption
<1>3. \A i \in 1..Len(p) : p[i] = IF i <= len THEN b[d + i - 1] ELSE q[i - len]
  OBVIOUS
<1>3a. d \in 1..Len(b)
  OBVIOUS
<1> HIDE DEF b
<1>4. c \in Seq(Byte) /\ Len(c) = len /\ \A i \in 1..len : c[i] = b[d + i - 1]
  BY <1>1, <1>3a
<1> HIDE DEF c
<1>5. c \o q \in Seq(Byte) /\ Len(c \o q) = len + Len(q) /\ len \in Nat
  <2>1. len \in Nat
    BY <1>1, <1>3a
  <2>2. c \o q \in Seq(Byte) /\ Len(c \o q) = Len(c) + Len(q)
    BY <1>1, <1>4, Joined
  <2> QED BY <1>4, <2>1, <2>2
<1>6. ASSUME NEW i \in 1..Len(p) PROVE p[i] = (c \o q)[i]
  <2>1. CASE i <= len
    <3>1. i \in 1..Len(c)
      BY <1>4, <2>1
    <3>2. (c \o q)[i] = c[i]
      BY <1>1, <1>4, <3>1, Joined
    <3> QED BY <1>3, <1>4, <2>1, <3>1, <3>2
  <2>2. CASE i > len
    <3>1. i \in (Len(c) + 1)..(Len(c) + Len(q))
      BY <1>1, <1>4, <1>5, <2>2
    <3>2. (c \o q)[i] = q[i - Len(c)]
      BY <1>1, <1>4, <3>1, Joined
    <3> QED BY <1>3, <1>4, <1>5, <2>2, <3>2
  <2> QED BY <1>1, <1>5, <2>1, <2>2
<1>7. Len(p) <= Len(c \o q)
  BY <1>1, <1>5
<1> QED BY <1>1, <1>2, <1>5, <1>6, <1>7, PrefixIs

(* An ID is found with its own values only, however the epochs and peers    *)
(* run together.                                                           *)
LEMMA IDIs ==
    ASSUME NEW e \in Epochs, NEW p \in Peers, NEW number \in Seq(Byte)
    PROVE  LET a == ToBytes(e)
               k == StorageID(e, p) \o number IN
           /\ k \in Seq(Byte) /\ Len(k) = Len(a) + Len(p) + Len(number)
           /\ \A i \in 1..Len(a) : k[i] = a[i]
           /\ \A i \in 1..Len(p) : k[Len(a) + i] = p[i]
<1> DEFINE a == ToBytes(e)
           id == a \o p
           k == id \o number
<1>1. a \in Seq(Byte) /\ p \in Seq(Byte)
  BY PeerType
<1>1a. id = StorageID(e, p)
  BY DEF StorageID
<1> HIDE DEF a
<1>2. /\ id \in Seq(Byte) /\ Len(id) = Len(a) + Len(p)
      /\ \A i \in 1..Len(a) : id[i] = a[i]
      /\ \A i \in 1..Len(p) : id[Len(a) + i] = p[i]
  BY <1>1, Joined
<1> HIDE DEF id
<1>3. k \in Seq(Byte) /\ Len(k) = Len(id) + Len(number)
  BY <1>2, Joined
<1>4. \A i \in 1..Len(id) : k[i] = id[i]
  BY <1>2, Joined
<1>5. \A i \in 1..Len(a) : i \in 1..Len(id)
  BY <1>1, <1>2
<1>6. \A i \in 1..Len(p) : Len(a) + i \in 1..Len(id)
  BY <1>1, <1>2
<1> HIDE DEF k
<1>7. /\ k \in Seq(Byte) /\ Len(k) = Len(a) + Len(p) + Len(number)
      /\ \A i \in 1..Len(a) : k[i] = a[i]
      /\ \A i \in 1..Len(p) : k[Len(a) + i] = p[i]
  BY <1>2, <1>3, <1>4, <1>5, <1>6
<1> QED BY <1>7, <1>1a DEF k, a

LEMMA PrefixFree ==
    ASSUME NEW e \in Epochs, NEW p \in Peers, NEW f \in Epochs, NEW q \in Peers,
           NEW number \in Seq(Byte), IsPrefix(StorageID(e, p), StorageID(f, q) \o number)
    PROVE  e = f /\ p = q
<1> DEFINE a == ToBytes(e)
           b == ToBytes(f)
           id == StorageID(e, p)
           k == StorageID(f, q) \o number
<1>1. /\ a \in Seq(Byte) /\ b \in Seq(Byte) /\ p \in Seq(Byte) /\ q \in Seq(Byte)
      /\ Len(p) = Len(q) /\ e \in Nat /\ f \in Nat
  BY PeerType
<1>2. /\ k \in Seq(Byte) /\ Len(k) = Len(b) + Len(q) + Len(number)
      /\ \A i \in 1..Len(b) : k[i] = b[i]
      /\ \A i \in 1..Len(q) : k[Len(b) + i] = q[i]
  BY IDIs
<1>3. /\ id \in Seq(Byte) /\ Len(id) = Len(a) + Len(p)
      /\ \A i \in 1..Len(a) : id[i] = a[i]
      /\ \A i \in 1..Len(p) : id[Len(a) + i] = p[i]
  BY <1>1, Joined DEF StorageID
<1>4. Len(id) <= Len(k) /\ \A i \in 1..Len(id) : id[i] = k[i]
  BY <1>2, <1>3, PrefixIs
<1> DEFINE A == Len(a)
           B == Len(b)
           L == Len(p)
<1>5. A \in Nat /\ B \in Nat /\ L \in Nat /\ Len(number) \in Nat
  BY <1>1
<1> HIDE DEF id, k
<1>6. CASE A = B
  <2>1. \A i \in 1..A : a[i] = b[i]
    <3>1. \A i \in 1..A : i \in 1..Len(id)
      BY <1>3, <1>5
    <3> QED BY <1>2, <1>3, <1>4, <1>6, <3>1
  <2>2. a = b
    <3> HIDE DEF a, b
    <3> QED BY <1>1, <1>6, <2>1
  <2>3. e = f
    BY <1>1, <2>2, BytesInjective
  <2>4. \A i \in 1..L : p[i] = q[i]
    <3>1. \A i \in 1..L : A + i \in 1..Len(id)
      BY <1>3, <1>5
    <3> HIDE DEF a, b
    <3> QED BY <1>1, <1>2, <1>3, <1>4, <1>5, <1>6, <3>1
  <2>5. p = q
    BY <1>1, <2>4
  <2> QED BY <2>3, <2>5
<1>7. CASE A > B
  <2>1. B + 1 \in 1..A
    BY <1>5, <1>7
  <2>2. ASSUME NEW i \in 1..Len(q)
        PROVE  q[i] = IF i <= A - (B + 1) + 1 THEN a[(B + 1) + i - 1]
                      ELSE p[i - (A - (B + 1) + 1)]
    <3> HIDE DEF a, b
    <3>1a. B + i \in 1..(A + L)
      BY <1>1, <1>5, <1>7
    <3>1. B + i \in 1..Len(id) /\ q[i] = k[B + i]
      BY <1>2, <1>3, <3>1a
    <3>2. q[i] = id[B + i]
      BY <1>4, <3>1
    <3>3. CASE i <= A - B
      <4>1. B + i \in 1..A
        BY <1>1, <1>5, <3>3
      <4> QED BY <1>3, <1>5, <3>2, <3>3, <4>1
    <3>4. CASE i > A - B
      <4>1. i - (A - B) \in 1..L
        BY <1>1, <1>5, <1>7, <3>4
      <4>2. B + i = A + (i - (A - B))
        BY <1>5
      <4>3. id[B + i] = p[i - (A - B)]
        BY <1>3, <4>1, <4>2
      <4> QED BY <1>5, <3>2, <3>4, <4>3
    <3> QED BY <1>5, <3>3, <3>4
  <2> QED BY <2>1, <2>2, NoTail
<1>8. CASE B > A
  <2>1. A + 1 \in 1..B
    BY <1>5, <1>8
  <2>2. ASSUME NEW i \in 1..Len(p)
        PROVE  p[i] = IF i <= B - (A + 1) + 1 THEN b[(A + 1) + i - 1]
                      ELSE q[i - (B - (A + 1) + 1)]
    <3> HIDE DEF a, b
    <3>1. A + i \in 1..Len(id) /\ p[i] = id[A + i]
      BY <1>1, <1>3, <1>5
    <3>2. p[i] = k[A + i]
      BY <1>4, <3>1
    <3>3. CASE i <= B - A
      <4>1. A + i \in 1..B
        BY <1>1, <1>5, <3>3
      <4> QED BY <1>2, <1>5, <3>2, <3>3, <4>1
    <3>4. CASE i > B - A
      <4>1. i - (B - A) \in 1..L
        BY <1>1, <1>5, <1>8, <3>4
      <4>2. A + i = B + (i - (B - A))
        BY <1>5
      <4>3. k[A + i] = q[i - (B - A)]
        BY <1>1, <1>2, <4>1, <4>2
      <4> QED BY <1>5, <3>2, <3>4, <4>3
    <3> QED BY <1>5, <3>3, <3>4
  <2> QED BY <2>1, <2>2, NoTail
<1> QED BY <1>5, <1>6, <1>7, <1>8

-----------------------------------------------------------------------------
(* In a finite set with a strict order, ranks are 0 to the size less 1.    *)
Rank(S, R, x) == Cardinality({y \in S : <<y, x>> \in R})
StrictOrder(S, R) ==
    /\ \A x \in S : <<x, x>> \notin R
    /\ \A x, y \in S : x # y => <<x, y>> \in R \/ <<y, x>> \in R
    /\ \A x, y, z \in S : <<x, y>> \in R /\ <<y, z>> \in R => <<x, z>> \in R

RanksAll(S, R) ==
    /\ Cardinality(S) \in Nat
    /\ \A x \in S : Rank(S, R, x) \in 0..(Cardinality(S) - 1)
    /\ \A x, y \in S : Rank(S, R, x) = Rank(S, R, y) => x = y
    /\ \A i \in 0..(Cardinality(S) - 1) : \E x \in S : Rank(S, R, x) = i

LEMMA Ranked ==
    ASSUME NEW S, IsFiniteSet(S), NEW R, StrictOrder(S, R)
    PROVE  RanksAll(S, R)
<1> DEFINE size == Cardinality(S)
           below(x) == {y \in S : <<y, x>> \in R}
           rank == [x \in S |-> Rank(S, R, x)]
<1>1. size \in Nat
  BY FS_CardinalityType
<1>2. ASSUME NEW x \in S
      PROVE  IsFiniteSet(below(x)) /\ Cardinality(below(x)) \in 0..(size - 1)
  <2>1. below(x) \in SUBSET S /\ below(x) # S
    BY DEF StrictOrder
  <2> HIDE DEF below
  <2>2. IsFiniteSet(below(x)) /\ Cardinality(below(x)) <= size /\ Cardinality(below(x)) # size
    BY <2>1, FS_Subset
  <2>3. Cardinality(below(x)) \in Nat
    BY <2>2, FS_CardinalityType
  <2> QED BY <1>1, <2>2, <2>3
<1>3. ASSUME NEW x \in S, NEW y \in S, <<x, y>> \in R
      PROVE  Cardinality(below(x)) < Cardinality(below(y))
  <2>1. below(x) \in SUBSET below(y) /\ x \in below(y) /\ x \notin below(x)
    BY <1>3 DEF StrictOrder
  <2>2. IsFiniteSet(below(y)) /\ Cardinality(below(x)) \in Int /\ Cardinality(below(y)) \in Int
    BY <1>2
  <2> HIDE DEF below
  <2>3. /\ Cardinality(below(x)) <= Cardinality(below(y))
        /\ Cardinality(below(x)) # Cardinality(below(y))
    BY <2>1, <2>2, FS_Subset
  <2> QED BY <2>2, <2>3
<1>4. \A x \in S : Rank(S, R, x) = Cardinality(below(x))
  BY DEF Rank
<1> HIDE DEF below
<1>5. \A x, y \in S : Rank(S, R, x) = Rank(S, R, y) => x = y
  <2> SUFFICES ASSUME NEW x \in S, NEW y \in S, x # y PROVE Rank(S, R, x) # Rank(S, R, y)
    OBVIOUS
  <2>1. <<x, y>> \in R \/ <<y, x>> \in R
    BY DEF StrictOrder
  <2>2. Cardinality(below(x)) \in Int /\ Cardinality(below(y)) \in Int
    BY <1>2
  <2> QED BY <1>3, <1>4, <2>1, <2>2
<1>6. \A x \in S : Rank(S, R, x) \in 0..(size - 1)
  BY <1>2, <1>4
<1>7. rank \in Injection(S, 0..(size - 1))
  <2>1. rank \in [S -> 0..(size - 1)]
    BY <1>6
  <2>2. \A x, y \in S : rank[x] = rank[y] => x = y
    BY <1>5
  <2> HIDE DEF rank
  <2> QED BY <2>1, <2>2 DEF Injection, IsInjective
<1>8. IsFiniteSet(0..(size - 1)) /\ Cardinality(0..(size - 1)) = size
  BY <1>1, FS_Interval
<1>9. rank \in Surjection(S, 0..(size - 1))
  <2> HIDE DEF rank
  <2> QED BY <1>7, <1>8, FS_Injection
<1>10. \A i \in 0..(size - 1) : \E x \in S : rank[x] = i
  <2> HIDE DEF rank
  <2> QED BY <1>9 DEF Surjection
<1> QED BY <1>1, <1>5, <1>6, <1>10 DEF RanksAll

-----------------------------------------------------------------------------
(* The first place where two keys differ. *)
Splits(a, b, i) ==
    /\ i \in 1..Len(b) /\ i <= Len(a) + 1
    /\ \A j \in 1..(i - 1) : a[j] = b[j]
    /\ i <= Len(a) => a[i] < b[i]

LEMMA BeforeIs ==
    ASSUME NEW a \in Seq(Byte), NEW b \in Seq(Byte)
    PROVE  Before(a, b) <=> \E i \in Nat : Splits(a, b, i)
<1>1. Len(a) \in Nat /\ Len(b) \in Nat /\ DOMAIN a = 1..Len(a) /\ DOMAIN b = 1..Len(b)
  OBVIOUS
<1>2. ASSUME a # b, IsPrefix(a, b) PROVE Splits(a, b, Len(a) + 1)
  <2>1. Len(a) <= Len(b) /\ \A i \in 1..Len(a) : a[i] = b[i]
    BY <1>2, PrefixIs
  <2>2. Len(a) # Len(b)
    BY <1>2, <2>1
  <2>3. Len(a) + 1 \in 1..Len(b) /\ ~(Len(a) + 1 <= Len(a)) /\ (Len(a) + 1) - 1 = Len(a)
    <3>1. \A k, m \in Nat : k <= m /\ k # m =>
             k + 1 \in 1..m /\ ~(k + 1 <= k) /\ (k + 1) - 1 = k
      OBVIOUS
    <3> QED BY <1>1, <2>1, <2>2, <3>1
  <2> QED BY <2>1, <2>3 DEF Splits
<1>3. ASSUME NEW i \in DOMAIN a \cap DOMAIN b, a[i] < b[i], \A j \in 1..(i - 1) : a[j] = b[j]
      PROVE  i \in Nat /\ Splits(a, b, i)
  BY <1>1, <1>3 DEF Splits
<1>4. ASSUME NEW i \in Nat, Splits(a, b, i) PROVE Before(a, b)
  <2>1. CASE i <= Len(a)
    <3>1. i \in DOMAIN a \cap DOMAIN b
      BY <1>1, <1>4, <2>1 DEF Splits
    <3> QED BY <1>4, <2>1, <3>1 DEF Splits, Before
  <2>2. CASE i > Len(a)
    <3>1. i = Len(a) + 1 /\ Len(a) < Len(b) /\ \A j \in 1..Len(a) : a[j] = b[j]
      BY <1>1, <1>4, <2>2 DEF Splits
    <3>2. IsPrefix(a, b) /\ a # b
      BY <1>1, <3>1, PrefixIs
    <3> QED BY <3>2 DEF Before
  <2> QED BY <1>1, <2>1, <2>2
<1>5. Before(a, b) => \E i \in Nat : Splits(a, b, i)
  <2>1. CASE a # b /\ IsPrefix(a, b)
    <3>1. Len(a) + 1 \in Nat
      BY <1>1
    <3> QED BY <1>2, <2>1, <3>1
  <2>2. CASE \E i \in DOMAIN a \cap DOMAIN b : a[i] < b[i] /\ \A j \in 1..(i - 1) : a[j] = b[j]
    BY <1>3, <2>2
  <2> QED BY <2>1, <2>2 DEF Before
<1> QED BY <1>4, <1>5

(* The order of keys is strict and total.                                  *)
LEMMA BeforeIrreflexive == \A a \in Seq(Byte) : ~Before(a, a)
<1> SUFFICES ASSUME NEW a \in Seq(Byte), Before(a, a) PROVE FALSE
  OBVIOUS
<1>1. PICK i \in Nat : Splits(a, a, i)
  BY BeforeIs
<1>2. i \in 1..Len(a) /\ a[i] < a[i]
  BY <1>1 DEF Splits
<1>3. a[i] \in Int
  BY <1>2, BaseType DEF Byte
<1> QED BY <1>2, <1>3

LEMMA BeforeTransitive ==
    ASSUME NEW a \in Seq(Byte), NEW b \in Seq(Byte), NEW c \in Seq(Byte),
           Before(a, b), Before(b, c)
    PROVE  Before(a, c)
<1>1. PICK i \in Nat : Splits(a, b, i)
  BY BeforeIs
<1>2. PICK k \in Nat : Splits(b, c, k)
  BY BeforeIs
<1>3. /\ \A j \in 1..Len(a) : a[j] \in Int
      /\ \A j \in 1..Len(b) : b[j] \in Int
      /\ \A j \in 1..Len(c) : c[j] \in Int
      /\ Len(a) \in Nat /\ Len(b) \in Nat /\ Len(c) \in Nat
  BY BaseType DEF Byte
<1>4. CASE i < k
  <2>1. \A j \in 1..i : b[j] = c[j]
    BY <1>2, <1>4 DEF Splits
  <2>2. i \in 1..Len(c)
    BY <1>1, <1>2, <1>3, <1>4 DEF Splits
  <2>3. \A j \in 1..(i - 1) : a[j] = c[j]
    BY <1>1, <2>1 DEF Splits
  <2>4. i <= Len(a) => a[i] < c[i]
    BY <1>1, <2>1 DEF Splits
  <2>5. Splits(a, c, i)
    BY <1>1, <2>2, <2>3, <2>4 DEF Splits
  <2> QED BY <2>5, BeforeIs
<1>5. CASE i = k
  <2>1. i \in 1..Len(b) /\ i \in 1..Len(c) /\ b[i] < c[i]
    BY <1>1, <1>2, <1>5 DEF Splits
  <2>2. \A j \in 1..(i - 1) : a[j] = c[j]
    BY <1>1, <1>2, <1>5 DEF Splits
  <2>3. i <= Len(a) => a[i] < c[i]
    <3> SUFFICES ASSUME i <= Len(a) PROVE a[i] < c[i]
      OBVIOUS
    <3>1. a[i] < b[i] /\ a[i] \in Int /\ b[i] \in Int /\ c[i] \in Int
      BY <1>1, <1>3, <2>1 DEF Splits
    <3> QED BY <2>1, <3>1
  <2>4. Splits(a, c, i)
    BY <1>1, <2>1, <2>2, <2>3 DEF Splits
  <2> QED BY <2>4, BeforeIs
<1>6. CASE k < i
  <2>1. k \in 1..Len(c) /\ k <= Len(a) /\ k <= Len(b) /\ a[k] = b[k] /\ b[k] < c[k]
    BY <1>1, <1>2, <1>3, <1>6 DEF Splits
  <2>2. \A j \in 1..(k - 1) : a[j] = c[j]
    BY <1>1, <1>2, <1>6 DEF Splits
  <2>3. Splits(a, c, k)
    BY <1>3, <2>1, <2>2 DEF Splits
  <2> QED BY <2>3, BeforeIs
<1> QED BY <1>4, <1>5, <1>6

LEMMA LeastIn ==
    ASSUME NEW S \in SUBSET Nat, S # {}
    PROVE  \E least \in S : \A m \in S : least <= m
<1> DEFINE R == {p \in Nat \X Nat : p[1] < p[2]}
<1>1. PICK least \in S : \A m \in S : ~(<<m, least>> \in R)
  <2>1. IsWellFoundedOn(R, Nat)
    BY NatWellFounded
  <2> HIDE DEF R
  <2> QED BY <2>1, WFMin
<1>2. \A m \in S : least <= m
  <2>1. \A m \in S : <<m, least>> \in R <=> m < least
    OBVIOUS
  <2>2. \A m \in S : m \in Nat /\ least \in Nat
    OBVIOUS
  <2> HIDE DEF R
  <2> TAKE m \in S
  <2>3. ~(m < least)
    BY <1>1, <2>1
  <2>4. m \in Nat /\ least \in Nat
    BY <2>2
  <2> QED BY ONLY <2>3, <2>4
<1> QED BY <1>2

LEMMA BeforeTotal ==
    ASSUME NEW a \in Seq(Byte), NEW b \in Seq(Byte), a # b
    PROVE  Before(a, b) \/ Before(b, a)
<1> DEFINE Common == (1..Len(a)) \cap (1..Len(b))
           Differ == {i \in Common : a[i] # b[i]}
<1>1. /\ \A j \in 1..Len(a) : a[j] \in Int
      /\ \A j \in 1..Len(b) : b[j] \in Int
      /\ Len(a) \in Nat /\ Len(b) \in Nat
      /\ DOMAIN a = 1..Len(a) /\ DOMAIN b = 1..Len(b)
  BY BaseType DEF Byte
<1>2. CASE Differ = {}
  <2>1. CASE Len(a) <= Len(b)
    <3>1. IsPrefix(a, b)
      BY <1>1, <1>2, <2>1, PrefixIs
    <3> QED BY <3>1 DEF Before
  <2>2. CASE Len(b) <= Len(a)
    <3>1. IsPrefix(b, a)
      BY <1>1, <1>2, <2>2, PrefixIs
    <3> QED BY <3>1 DEF Before
  <2> QED BY <1>1, <2>1, <2>2
<1>3. CASE Differ # {}
  <2>1. PICK i \in Differ : \A j \in Differ : i <= j
    <3>1. Differ \in SUBSET Nat
      OBVIOUS
    <3> HIDE DEF Differ
    <3> QED BY <1>3, <3>1, LeastIn
  <2>2. i \in Common /\ a[i] # b[i] /\ a[i] \in Int /\ b[i] \in Int
    BY <1>1
  <2>3. \A j \in 1..(i - 1) : a[j] = b[j]
    <3> SUFFICES ASSUME NEW j \in 1..(i - 1), a[j] # b[j] PROVE FALSE
      OBVIOUS
    <3>1. j \in Common
      BY <1>1, <2>2
    <3>2. j \in Differ
      BY <3>1
    <3> HIDE DEF Differ
    <3> QED BY <1>1, <2>1, <2>2, <3>2
  <2>4. a[i] < b[i] \/ b[i] < a[i]
    BY <2>2
  <2> QED BY <1>1, <2>2, <2>3, <2>4 DEF Before
<1> QED BY <1>2, <1>3

-----------------------------------------------------------------------------
Under(found) == {pair \in found \X found : Before(pair[1], pair[2])}
Found(keys, prefix) == {k \in keys : IsPrefix(prefix, k)}
Below(found, k) == {l \in found : Before(l, k)}

LEMMA KeysOrdered ==
    ASSUME NEW found \in SUBSET Seq(Byte), IsFiniteSet(found)
    PROVE  /\ Cardinality(found) \in Nat
           /\ \A k \in found : Cardinality(Below(found, k)) \in 0..(Cardinality(found) - 1)
           /\ \A k, l \in found :
                 Cardinality(Below(found, k)) = Cardinality(Below(found, l)) => k = l
           /\ \A i \in 0..(Cardinality(found) - 1) :
                 \E k \in found : Cardinality(Below(found, k)) = i
<1> DEFINE R == Under(found)
<1>1. \A k, l \in found : <<k, l>> \in R <=> Before(k, l)
  BY DEF Under
<1>2. \A k \in found : k \in Seq(Byte)
  OBVIOUS
<1> HIDE DEF R
<1>3. StrictOrder(found, R)
  <2>1. \A x \in found : <<x, x>> \notin R
    BY <1>1, <1>2, BeforeIrreflexive
  <2>2. \A x, y \in found : x # y => <<x, y>> \in R \/ <<y, x>> \in R
    BY <1>1, <1>2, BeforeTotal
  <2>3. \A x, y, z \in found : <<x, y>> \in R /\ <<y, z>> \in R => <<x, z>> \in R
    BY <1>1, <1>2, BeforeTransitive
  <2> QED BY <2>1, <2>2, <2>3 DEF StrictOrder
<1>4. ASSUME NEW x \in found PROVE Rank(found, R, x) = Cardinality(Below(found, x))
  <2>1. {y \in found : <<y, x>> \in R} = Below(found, x)
    BY <1>1 DEF Below
  <2> QED BY <2>1 DEF Rank
<1>5. RanksAll(found, R)
  BY <1>3, Ranked
<1> QED BY <1>4, <1>5 DEF RanksAll

(* Find gives each key that is found, once, at the place of its rank. *)
LEMMA FindIs ==
    ASSUME NEW keys \in SUBSET Seq(Byte), IsFiniteSet(keys), NEW prefix
    PROVE  LET found == Found(keys, prefix)
               result == Find(keys, prefix) IN
           /\ Cardinality(found) \in Nat
           /\ DOMAIN result = 1..Cardinality(found) /\ Len(result) = Cardinality(found)
           /\ \A i \in 1..Cardinality(found) : result[i] \in found
           /\ \A k \in found : \E i \in 1..Cardinality(found) :
                 /\ result[i] = k
                 /\ i = Cardinality(Below(found, k)) + 1
<1> DEFINE found == Found(keys, prefix)
           size == Cardinality(found)
           nth(i) == CHOOSE k \in found : Cardinality(Below(found, k)) = i - 1
           result == Find(keys, prefix)
<1>1. result = [i \in 1..size |-> nth(i)]
  BY DEF Find, Found, Below
<1>2. found \in SUBSET Seq(Byte) /\ found \in SUBSET keys
  BY DEF Found
<1> HIDE DEF found, result
<1>3. IsFiniteSet(found)
  BY <1>2, FS_Subset
<1>4. /\ size \in Nat
      /\ \A k \in found : Cardinality(Below(found, k)) \in 0..(size - 1)
      /\ \A k, l \in found :
            Cardinality(Below(found, k)) = Cardinality(Below(found, l)) => k = l
      /\ \A i \in 0..(size - 1) : \E k \in found : Cardinality(Below(found, k)) = i
  BY <1>2, <1>3, KeysOrdered
<1> HIDE DEF size
<1>5. \A i \in 1..size : i - 1 \in 0..(size - 1)
  BY <1>4
<1>6. ASSUME NEW i \in 1..size
      PROVE  nth(i) \in found /\ Cardinality(Below(found, nth(i))) = i - 1
  <2>1. \E k \in found : Cardinality(Below(found, k)) = i - 1
    BY <1>4, <1>5
  <2> QED BY <2>1
<1> HIDE DEF nth
<1>7. result \in [1..size -> found]
  BY <1>1, <1>6
<1>8. result \in Seq(found) /\ Len(result) = size /\ DOMAIN result = 1..size
  BY <1>4, <1>7
<1>9. ASSUME NEW k \in found
      PROVE  \E i \in 1..size : result[i] = k /\ i = Cardinality(Below(found, k)) + 1
  <2> DEFINE i == Cardinality(Below(found, k)) + 1
  <2>1. i \in 1..size /\ i - 1 = Cardinality(Below(found, k))
    BY <1>4
  <2> HIDE DEF i
  <2>2. nth(i) \in found /\ Cardinality(Below(found, nth(i))) = Cardinality(Below(found, k))
    BY <1>6, <2>1
  <2>3. nth(i) = k
    BY <1>4, <2>2
  <2>4. result[i] = k
    BY <1>1, <2>1, <2>3
  <2> QED BY <2>1, <2>4 DEF i
<1>10. \A i \in 1..size : result[i] \in found
  BY <1>7
<1> QED BY <1>4, <1>8, <1>9, <1>10 DEF size, result, found

-----------------------------------------------------------------------------
(* The numbers of the values that are found under an ID. *)
Numbered(id, c) == {id \o ToBytes(j) : j \in 1..c}

LEMMA NumberedAre ==
    ASSUME NEW id \in Seq(Byte), NEW c \in Nat
    PROVE  /\ Numbered(id, c) \in SUBSET Seq(Byte)
           /\ IsFiniteSet(Numbered(id, c)) /\ Cardinality(Numbered(id, c)) = c
           /\ \A i, j \in Nat : id \o ToBytes(i) = id \o ToBytes(j) => i = j
<1> DEFINE key == [j \in 1..c |-> id \o ToBytes(j)]
<1>1. \A j \in Nat : ToBytes(j) \in Seq(Byte) /\ id \o ToBytes(j) \in Seq(Byte)
  BY BytesType, Joined
<1>2. \A i, j \in Nat : id \o ToBytes(i) = id \o ToBytes(j) => i = j
  BY <1>1, JoinedInjective, BytesInjective
<1>3. \A j \in 1..c : j \in Nat
  OBVIOUS
<1>4. Numbered(id, c) \in SUBSET Seq(Byte)
  BY <1>1, <1>3 DEF Numbered
<1>5. key \in Bijection(1..c, Numbered(id, c))
  <2>1. key \in [1..c -> Numbered(id, c)]
    BY DEF Numbered
  <2>2. \A i, j \in 1..c : key[i] = key[j] => i = j
    BY <1>2, <1>3
  <2>3. \A k \in Numbered(id, c) : \E j \in 1..c : key[j] = k
    BY DEF Numbered
  <2> HIDE DEF key
  <2> QED BY <2>1, <2>2, <2>3 DEF Bijection, Injection, Surjection, IsInjective
<1>6. IsFiniteSet(1..c) /\ Cardinality(1..c) = c
  BY FS_Interval
<1>7. ExistsBijection(1..c, Numbered(id, c))
  BY <1>5 DEF ExistsBijection
<1>8. IsFiniteSet(Numbered(id, c)) /\ Cardinality(Numbered(id, c)) = c
  BY <1>6, <1>7, FS_Bijection
<1> QED BY <1>2, <1>4, <1>8

(* While numbers have one byte that counts, they are found in their order. *)
LEMMA NumberedInOrder ==
    ASSUME NEW id \in Seq(Byte), NEW c \in Nat, c < Base, NEW j \in 1..c
    PROVE  Cardinality(Below(Numbered(id, c), id \o ToBytes(j))) + 1 = j
<1> DEFINE key(i) == id \o ToBytes(i)
<1>1. ASSUME NEW i \in 1..c
      PROVE  /\ key(i) \in Seq(Byte)
             /\ Len(key(i)) > Len(id) /\ key(i)[Len(id) + 1] = i
             /\ \A m \in 1..Len(id) : key(i)[m] = id[m]
  <2>1. i \in Nat /\ 0 < i /\ i < Base
    BY BaseType
  <2>2. ToBytes(i) \in Seq(Byte) /\ Len(ToBytes(i)) > 0 /\ ToBytes(i)[1] = i
    BY <2>1, FirstByte, BytesType
  <2> DEFINE t == ToBytes(i)
  <2>3. t \in Seq(Byte) /\ 1 \in 1..Len(t) /\ t[1] = i
    BY <2>2
  <2> HIDE DEF t
  <2>4. /\ id \o t \in Seq(Byte) /\ Len(id \o t) = Len(id) + Len(t)
        /\ \A m \in 1..Len(id) : (id \o t)[m] = id[m]
        /\ (id \o t)[Len(id) + 1] = t[1]
    BY <2>3, Joined
  <2>5. Len(id) \in Nat /\ Len(t) \in Nat
    BY <2>3
  <2>6. Len(id) + Len(t) > Len(id)
    BY <2>3, <2>5
  <2> QED BY <2>3, <2>4, <2>6 DEF t
<1> HIDE DEF key
<1>2. ASSUME NEW i \in 1..c, NEW m \in 1..c, i < m PROVE Before(key(i), key(m))
  <2>1. Len(id) + 1 \in DOMAIN key(i) \cap DOMAIN key(m)
    BY <1>1
  <2>2. \A x \in 1..((Len(id) + 1) - 1) : key(i)[x] = key(m)[x]
    BY <1>1
  <2> QED BY <1>1, <1>2, <2>1, <2>2 DEF Before
<1>3. \A i, m \in 1..c : Before(key(i), key(m)) => i < m
  <2> SUFFICES ASSUME NEW i \in 1..c, NEW m \in 1..c, Before(key(i), key(m)), m <= i PROVE FALSE
    OBVIOUS
  <2>1. m = i \/ Before(key(m), key(i))
    BY <1>2
  <2>2. Before(key(i), key(i))
    BY <1>1, <2>1, BeforeTransitive
  <2> QED BY <1>1, <2>2, BeforeIrreflexive
<1>4. Below(Numbered(id, c), key(j)) = Numbered(id, j - 1)
  <2>1. /\ Numbered(id, c) = {key(i) : i \in 1..c}
        /\ Numbered(id, j - 1) = {key(i) : i \in 1..(j - 1)}
    BY DEF Numbered, key
  <2>2. \A i \in 1..c : Before(key(i), key(j)) <=> i \in 1..(j - 1)
    BY <1>2, <1>3
  <2>3. \A i \in 1..(j - 1) : i \in 1..c
    OBVIOUS
  <2> QED BY <2>1, <2>2, <2>3 DEF Below
<1>5. Cardinality(Numbered(id, j - 1)) = j - 1
  <2>1. j - 1 \in Nat
    OBVIOUS
  <2> QED BY <2>1, NumberedAre
<1> QED BY <1>4, <1>5 DEF key

-----------------------------------------------------------------------------
Less(S) == {pair \in S \X S : pair[1] < pair[2]}

LEMMA NthIs ==
    ASSUME NEW S \in SUBSET Nat, IsFiniteSet(S)
    PROVE  /\ Cardinality(S) \in Nat
           /\ \A i \in S : Nth(i, S) \in 1..Cardinality(S)
           /\ \A j \in 1..Cardinality(S) : \E i \in S : Nth(i, S) = j
<1> DEFINE R == Less(S)
           size == Cardinality(S)
<1>1. \A x, y \in S : <<x, y>> \in R <=> x < y
  BY DEF Less
<1>2. \A x \in S : x \in Nat
  OBVIOUS
<1> HIDE DEF R
<1>3. StrictOrder(S, R)
  BY <1>1, <1>2 DEF StrictOrder
<1>4. /\ size \in Nat
      /\ \A x \in S : Rank(S, R, x) \in 0..(size - 1)
      /\ \A i \in 0..(size - 1) : \E x \in S : Rank(S, R, x) = i
  <2>1. IsFiniteSet(S)
    OBVIOUS
  <2>2. RanksAll(S, R)
    BY <1>3, <2>1, Ranked
  <2> QED BY <2>2 DEF RanksAll
<1>5. ASSUME NEW x \in S PROVE Nth(x, S) = Rank(S, R, x) + 1
  <2> DEFINE below == {y \in S : <<y, x>> \in R}
  <2>1. {y \in S : y <= x} = below \cup {x} /\ x \notin below
    <3>1. \A y \in S : y <= x <=> y < x \/ y = x
      BY <1>2
    <3>2. \A y : y \in below <=> y \in S /\ y < x
      BY <1>1
    <3>3. ~(x < x)
      BY <1>2
    <3> HIDE DEF below
    <3> QED BY <3>1, <3>2, <3>3
  <2>2. below \in SUBSET S
    OBVIOUS
  <2> HIDE DEF below
  <2>3. IsFiniteSet(below)
    BY <2>2, FS_Subset
  <2>4. Cardinality(below \cup {x}) = Cardinality(below) + 1
    BY <2>1, <2>3, FS_AddElement
  <2> QED BY <2>1, <2>4 DEF Nth, Rank, below
<1> HIDE DEF size
<1>6. \A x \in S : Nth(x, S) \in 1..size
  BY <1>4, <1>5
<1>7. ASSUME NEW j \in 1..size PROVE \E x \in S : Nth(x, S) = j
  <2>1. j - 1 \in 0..(size - 1) /\ (j - 1) + 1 = j
    BY <1>4
  <2>2. PICK x \in S : Rank(S, R, x) = j - 1
    BY <1>4, <2>1
  <2> QED BY <1>5, <2>1, <2>2
<1> QED BY <1>4, <1>6, <1>7 DEF size

-----------------------------------------------------------------------------
Trust == [epoch : Epochs, peer : Peers, value : Nat]

(* What is stored for a peer in an epoch are its values, numbered.         *)
ValuesKept(e, p) ==
    LET put == PutFor(e, p)
        id == StorageID(e, p) IN
    /\ Count(id) = Cardinality(put)
    /\ put # {} => id \in DOMAIN counts
    /\ Found(DOMAIN storage, id) = Numbered(id, Cardinality(put))
    /\ \A i \in put : storage[id \o ToBytes(Nth(i, put))] = trusted[i].value

KeysTyped ==
    /\ trusted \in Seq(Trust)
    /\ DOMAIN counts \in SUBSET Seq(Byte) /\ IsFiniteSet(DOMAIN counts)
    /\ DOMAIN storage \in SUBSET Seq(Byte) /\ IsFiniteSet(DOMAIN storage)
AllKept == KeysTyped /\ \A e \in Epochs, p \in Peers : ValuesKept(e, p)

LEMMA PutForIs ==
    ASSUME KeysTyped, NEW e, NEW p
    PROVE  /\ PutFor(e, p) \in SUBSET (1..Len(trusted)) /\ Len(trusted) \in Nat
           /\ IsFiniteSet(PutFor(e, p)) /\ Cardinality(PutFor(e, p)) \in Nat
           /\ PutFor(e, p) \in SUBSET Nat
<1>1. Len(trusted) \in Nat /\ DOMAIN trusted = 1..Len(trusted)
  BY DEF KeysTyped
<1>2. PutFor(e, p) \in SUBSET (1..Len(trusted))
  BY <1>1 DEF PutFor
<1>3. IsFiniteSet(1..Len(trusted))
  BY <1>1, FS_Interval
<1>4. IsFiniteSet(PutFor(e, p))
  BY <1>2, <1>3, FS_Subset
<1>5. Cardinality(PutFor(e, p)) \in Nat
  BY <1>4, FS_CardinalityType
<1> QED BY <1>1, <1>2, <1>4, <1>5

LEMMA KeptInit == ReputationInit => AllKept
<1> SUFFICES ASSUME ReputationInit PROVE AllKept
  OBVIOUS
<1>1. counts = <<>> /\ storage = <<>> /\ trusted = <<>> /\ DOMAIN <<>> = {}
  BY DEF ReputationInit
<1>2. KeysTyped
  BY <1>1, FS_EmptySet DEF KeysTyped
<1>3. ASSUME NEW e \in Epochs, NEW p \in Peers PROVE ValuesKept(e, p)
  <2>1. PutFor(e, p) = {}
    BY <1>1 DEF PutFor
  <2>2. Cardinality(PutFor(e, p)) = 0
    BY <2>1, FS_EmptySet
  <2>3. Numbered(StorageID(e, p), 0) = {}
    BY DEF Numbered
  <2>4. Found({}, StorageID(e, p)) = {}
    BY DEF Found
  <2>5. Count(StorageID(e, p)) = 0
    BY <1>1 DEF Count
  <2> QED BY <1>1, <2>1, <2>2, <2>3, <2>4, <2>5 DEF ValuesKept
<1> QED BY <1>2, <1>3 DEF AllKept

LEMMA KeptProperty == AllKept => ReputationKept
<1> SUFFICES ASSUME AllKept, NEW e \in Epochs, NEW p \in Peers
             PROVE  LET put == PutFor(e, p)
                        got == Get(e, p)
                    IN  /\ Len(got) = Cardinality(put)
                        /\ {got[i] : i \in DOMAIN got} = {trusted[i].value : i \in put}
                        /\ Cardinality(put) < Base =>
                              \A i \in put : got[Nth(i, put)] = trusted[i].value
                        /\ put # {} => StorageID(e, p) \in ToSet(ListByEpoch(e))
  BY DEF ReputationKept
<1> DEFINE put == PutFor(e, p)
           id == StorageID(e, p)
           c == Cardinality(put)
           keys == Find(DOMAIN storage, id)
           got == Get(e, p)
           value(i) == trusted[i].value
<1>1. id \in Seq(Byte)
  BY IDType
<1>2. put \in SUBSET Nat /\ IsFiniteSet(put) /\ c \in Nat
  BY PutForIs DEF AllKept
<1>3. /\ put # {} => id \in DOMAIN counts
      /\ Found(DOMAIN storage, id) = Numbered(id, c)
      /\ \A i \in put : storage[id \o ToBytes(Nth(i, put))] = value(i)
  BY DEF AllKept, ValuesKept
<1>4. got = [i \in DOMAIN keys |-> storage[keys[i]]]
  BY DEF Get, GetByID
<1>5. /\ DOMAIN storage \in SUBSET Seq(Byte) /\ IsFiniteSet(DOMAIN storage)
      /\ DOMAIN counts \in SUBSET Seq(Byte) /\ IsFiniteSet(DOMAIN counts)
  BY DEF AllKept, KeysTyped
<1>6. Cardinality(Numbered(id, c)) = c
  BY <1>1, <1>2, NumberedAre
<1>7. /\ DOMAIN keys = 1..c
      /\ \A i \in 1..c : keys[i] \in Numbered(id, c)
      /\ \A k \in Numbered(id, c) : \E i \in 1..c :
            keys[i] = k /\ i = Cardinality(Below(Numbered(id, c), k)) + 1
  BY <1>3, <1>5, <1>6, FindIs
<1>8. /\ \A i \in put : Nth(i, put) \in 1..c
      /\ \A j \in 1..c : \E i \in put : Nth(i, put) = j
  BY <1>2, NthIs
<1>9. \A k \in Numbered(id, c) : \E j \in 1..c : k = id \o ToBytes(j)
  BY DEF Numbered
<1>9a. \A j \in 1..c : id \o ToBytes(j) \in Numbered(id, c)
  BY DEF Numbered
<1>10. StorageID(e, p) \in ToSet(ListByEpoch(e)) \/ put = {}
  <2> SUFFICES ASSUME put # {} PROVE id \in ToSet(ListByEpoch(e))
    OBVIOUS
  <2>1. IsPrefix(ToBytes(e), id)
    BY PeerType, PrefixOfJoined DEF StorageID
  <2>2. id \in Found(DOMAIN counts, ToBytes(e))
    BY <1>3, <2>1 DEF Found
  <2>3. \E i \in DOMAIN ListByEpoch(e) : ListByEpoch(e)[i] = id
    <3> HIDE DEF id
    <3> QED BY <1>5, <2>2, FindIs DEF ListByEpoch
  <2> QED BY <2>3 DEF ToSet
<1> HIDE DEF put, id, c, keys, got, value
<1>11. DOMAIN got = 1..c /\ Len(got) = c /\ \A i \in 1..c : got[i] = storage[keys[i]]
  BY <1>2, <1>4, <1>7
<1>12. {got[i] : i \in DOMAIN got} = {value(i) : i \in put}
  <2>1. ASSUME NEW i \in 1..c PROVE \E m \in put : got[i] = value(m)
    <3>1. PICK j \in 1..c : keys[i] = id \o ToBytes(j)
      BY <1>7, <1>9
    <3>2. PICK m \in put : Nth(m, put) = j
      BY <1>8
    <3> QED BY <1>3, <1>11, <3>1, <3>2
  <2>2. ASSUME NEW m \in put PROVE \E i \in 1..c : got[i] = value(m)
    <3>1. id \o ToBytes(Nth(m, put)) \in Numbered(id, c)
      BY <1>8, <1>9a
    <3>2. PICK i \in 1..c : keys[i] = id \o ToBytes(Nth(m, put))
      BY <1>7, <3>1
    <3> QED BY <1>3, <1>11, <3>2
  <2> QED BY <1>11, <2>1, <2>2
<1>13. ASSUME c < Base, NEW m \in put PROVE got[Nth(m, put)] = value(m)
  <2>1. Nth(m, put) \in 1..c
    BY <1>8
  <2>2. PICK i \in 1..c : /\ keys[i] = id \o ToBytes(Nth(m, put))
                          /\ i = Cardinality(Below(Numbered(id, c), keys[i])) + 1
    BY <1>7, <1>9a, <2>1
  <2>3. i = Nth(m, put)
    BY <1>1, <1>2, <1>13, <2>1, <2>2, NumberedInOrder
  <2> QED BY <1>3, <1>11, <2>2, <2>3
<1>14. Len(got) = c /\ (put # {} => StorageID(e, p) \in ToSet(ListByEpoch(e)))
  BY <1>10, <1>11
<1> QED BY <1>12, <1>13, <1>14 DEF put, c, got, value

-----------------------------------------------------------------------------
LEMMA PutTyped ==
    ASSUME AllKept, NEW e \in Epochs, NEW p \in Peers, NEW v \in Nat, Put(e, p, v)
    PROVE  /\ KeysTyped'
           /\ Len(trusted') = Len(trusted) + 1
           /\ \A i \in 1..Len(trusted) : trusted'[i] = trusted[i]
           /\ trusted'[Len(trusted) + 1] = [epoch |-> e, peer |-> p, value |-> v]
<1> DEFINE id == StorageID(e, p)
           cnt == Count(id) + 1
           key == id \o ToBytes(cnt)
           new == [epoch |-> e, peer |-> p, value |-> v]
<1>1. /\ DOMAIN counts' = DOMAIN counts \cup {id}
      /\ DOMAIN storage' = DOMAIN storage \cup {key}
      /\ trusted' = Append(trusted, new)
  BY DEF Put, Stored
<1>2. new \in Trust
  BY DEF Trust
<1>3. cnt \in Nat
  BY PutForIs DEF AllKept, ValuesKept
<1>4. id \in Seq(Byte)
  BY IDType
<1>5. key \in Seq(Byte)
  BY <1>3, <1>4, BytesType, Joined
<1> HIDE DEF new, id, key
<1>6. /\ trusted' \in Seq(Trust) /\ Len(trusted') = Len(trusted) + 1
      /\ \A i \in 1..Len(trusted) : trusted'[i] = trusted[i]
      /\ trusted'[Len(trusted) + 1] = new
  BY <1>1, <1>2 DEF KeysTyped, AllKept
<1>7. /\ DOMAIN counts' \in SUBSET Seq(Byte) /\ IsFiniteSet(DOMAIN counts')
      /\ DOMAIN storage' \in SUBSET Seq(Byte) /\ IsFiniteSet(DOMAIN storage')
  <2>1. /\ DOMAIN counts \in SUBSET Seq(Byte) /\ IsFiniteSet(DOMAIN counts)
        /\ DOMAIN storage \in SUBSET Seq(Byte) /\ IsFiniteSet(DOMAIN storage)
    BY DEF AllKept, KeysTyped
  <2>2. IsFiniteSet(DOMAIN counts \cup {id}) /\ IsFiniteSet(DOMAIN storage \cup {key})
    BY <2>1, FS_AddElement
  <2>3. /\ DOMAIN counts \cup {id} \in SUBSET Seq(Byte)
        /\ DOMAIN storage \cup {key} \in SUBSET Seq(Byte)
    BY <1>4, <1>5, <2>1
  <2> QED BY <1>1, <2>2, <2>3
<1> QED BY <1>6, <1>7 DEF new, KeysTyped

(* The numbers of the values before do not change when one is added.       *)
LEMMA NthOfMore ==
    ASSUME NEW len \in Nat, NEW S \in SUBSET (1..len), IsFiniteSet(S)
    PROVE  /\ Cardinality(S \cup {len + 1}) = Cardinality(S) + 1
           /\ \A i \in S : Nth(i, S \cup {len + 1}) = Nth(i, S)
           /\ Nth(len + 1, S \cup {len + 1}) = Cardinality(S) + 1
<1>1. len + 1 \notin S /\ \A i \in S : i \in Nat /\ i <= len
  OBVIOUS
<1>2. Cardinality(S \cup {len + 1}) = Cardinality(S) + 1
  BY <1>1, FS_AddElement
<1>3. \A i \in S : {j \in S \cup {len + 1} : j <= i} = {j \in S : j <= i}
  BY <1>1
<1>4. {j \in S \cup {len + 1} : j <= len + 1} = S \cup {len + 1}
  <2>1. \A j \in S \cup {len + 1} : j <= len + 1
    BY <1>1
  <2> QED BY <2>1
<1> QED BY <1>2, <1>3, <1>4 DEF Nth

LEMMA NumberedMore ==
    ASSUME NEW id, NEW c \in Nat
    PROVE  Numbered(id, c + 1) = Numbered(id, c) \cup {id \o ToBytes(c + 1)}
<1>1. 1..(c + 1) = (1..c) \cup {c + 1}
  OBVIOUS
<1> QED BY <1>1 DEF Numbered

(* Put adds a value to those of its peer and epoch. *)
LEMMA PutKeepsOwn ==
    ASSUME AllKept, NEW e \in Epochs, NEW p \in Peers, NEW v \in Nat, Put(e, p, v)
    PROVE  ValuesKept(e, p)'
<1> DEFINE id == StorageID(e, p)
           put == PutFor(e, p)
           c == Cardinality(put)
           len == Len(trusted)
           key == id \o ToBytes(c + 1)
<1>1. /\ len \in Nat /\ c \in Nat
      /\ put \in SUBSET (1..len) /\ put \in SUBSET Nat /\ IsFiniteSet(put)
      /\ DOMAIN trusted = 1..len
  BY PutForIs DEF AllKept, KeysTyped
<1>2. /\ Count(id) = c
      /\ Found(DOMAIN storage, id) = Numbered(id, c)
      /\ \A i \in put : storage[id \o ToBytes(Nth(i, put))] = trusted[i].value
  BY DEF AllKept, ValuesKept
<1>3. counts' = Stored(counts, id, c + 1) /\ storage' = Stored(storage, key, v)
  BY <1>2 DEF Put
<1>4. /\ Len(trusted') = len + 1
      /\ \A i \in 1..len : trusted'[i] = trusted[i]
      /\ trusted'[len + 1] = [epoch |-> e, peer |-> p, value |-> v]
      /\ trusted' \in Seq(Trust)
  BY PutTyped DEF KeysTyped
<1>5. PutFor(e, p)' = put \cup {len + 1}
  <2>1. DOMAIN trusted' = (1..len) \cup {len + 1}
    BY <1>1, <1>4
  <2>2. PutFor(e, p)' = {i \in DOMAIN trusted' : trusted'[i].epoch = e /\ trusted'[i].peer = p}
    BY DEF PutFor
  <2>3. put = {i \in 1..len : trusted[i].epoch = e /\ trusted[i].peer = p}
    BY <1>1 DEF PutFor
  <2> HIDE DEF put, len
  <2> QED BY <1>4, <2>1, <2>2, <2>3
<1>6. id \in Seq(Byte)
  BY IDType
<1>7. key \in Seq(Byte) /\ IsPrefix(id, key)
  <2>1. c + 1 \in Nat
    BY <1>1
  <2>2. ToBytes(c + 1) \in Seq(Byte)
    BY <2>1, BytesType
  <2> QED BY <1>6, <2>2, Joined, PrefixOfJoined
<1>8. \A j \in 1..c : id \o ToBytes(j) # key
  <2>1. \A j \in 1..c : j \in Nat /\ c + 1 \in Nat /\ j # c + 1
    BY <1>1
  <2>2. \A i, j \in Nat : id \o ToBytes(i) = id \o ToBytes(j) => i = j
    BY <1>1, <1>6, NumberedAre
  <2> HIDE DEF id, c
  <2> QED BY <2>1, <2>2
<1>9. \A i \in put : Nth(i, put) \in 1..c
  BY <1>1, NthIs
<1> HIDE DEF id, put, c, len, key
<1>10. /\ Cardinality(put \cup {len + 1}) = c + 1
       /\ \A i \in put : Nth(i, put \cup {len + 1}) = Nth(i, put)
       /\ Nth(len + 1, put \cup {len + 1}) = c + 1
  BY <1>1, NthOfMore DEF c
<1>11. id \in DOMAIN counts' /\ Count(id)' = c + 1
  BY <1>3 DEF Count, Stored
<1>12. Found(DOMAIN storage', id) = Numbered(id, c + 1)
  <2>1. DOMAIN storage' = DOMAIN storage \cup {key}
    BY <1>3 DEF Stored
  <2>2. Found(DOMAIN storage', id) = Found(DOMAIN storage, id) \cup {key}
    BY <1>7, <2>1 DEF Found
  <2> QED BY <1>1, <1>2, <2>2, NumberedMore DEF key
<1>13. ASSUME NEW i \in put
       PROVE  storage'[id \o ToBytes(Nth(i, put))] = trusted'[i].value
  <2>1. id \o ToBytes(Nth(i, put)) # key
    BY <1>8, <1>9
  <2>2. id \o ToBytes(Nth(i, put)) \in DOMAIN storage
    <3>1. id \o ToBytes(Nth(i, put)) \in Numbered(id, c)
      BY <1>9 DEF Numbered
    <3> QED BY <1>2, <3>1 DEF Found
  <2>3. storage'[id \o ToBytes(Nth(i, put))] = storage[id \o ToBytes(Nth(i, put))]
    BY <1>3, <2>1, <2>2 DEF Stored
  <2>4. trusted'[i] = trusted[i]
    BY <1>1, <1>4
  <2> QED BY <1>2, <2>3, <2>4
<1>14. storage'[id \o ToBytes(c + 1)] = trusted'[len + 1].value
  <2>1. storage'[key] = v
    BY <1>3 DEF Stored
  <2> QED BY <1>4, <2>1 DEF key
<1>15. \A i \in put \cup {len + 1} :
          storage'[id \o ToBytes(Nth(i, put \cup {len + 1}))] = trusted'[i].value
  BY <1>10, <1>13, <1>14
<1>16. ValuesKept(e, p)' =
          LET more == PutFor(e, p)' IN
          /\ Count(id)' = Cardinality(more)
          /\ more # {} => id \in DOMAIN counts'
          /\ Found(DOMAIN storage', id) = Numbered(id, Cardinality(more))
          /\ \A i \in more : storage'[id \o ToBytes(Nth(i, more))] = trusted'[i].value
  BY DEF ValuesKept, id
<1> QED BY <1>5, <1>10, <1>11, <1>12, <1>15, <1>16

(* and leaves those of the others alone. *)
LEMMA PutKeepsOthers ==
    ASSUME AllKept, NEW e \in Epochs, NEW p \in Peers, NEW v \in Nat, Put(e, p, v),
           NEW f \in Epochs, NEW q \in Peers, e # f \/ p # q
    PROVE  ValuesKept(f, q)'
<1> DEFINE id == StorageID(e, p)
           other == StorageID(f, q)
           put == PutFor(f, q)
           len == Len(trusted)
           cnt == Count(id) + 1
           key == id \o ToBytes(cnt)
<1>1. /\ len \in Nat /\ Cardinality(put) \in Nat
      /\ put \in SUBSET (1..len) /\ put \in SUBSET Nat
      /\ DOMAIN trusted = 1..len /\ IsFiniteSet(put)
  BY PutForIs DEF AllKept, KeysTyped
<1>2. /\ Count(other) = Cardinality(put)
      /\ put # {} => other \in DOMAIN counts
      /\ Found(DOMAIN storage, other) = Numbered(other, Cardinality(put))
      /\ \A i \in put : storage[other \o ToBytes(Nth(i, put))] = trusted[i].value
  BY DEF AllKept, ValuesKept
<1>3. counts' = Stored(counts, id, cnt) /\ storage' = Stored(storage, key, v)
  BY DEF Put
<1>4. /\ Len(trusted') = len + 1
      /\ \A i \in 1..len : trusted'[i] = trusted[i]
      /\ trusted'[len + 1] = [epoch |-> e, peer |-> p, value |-> v]
      /\ trusted' \in Seq(Trust)
  BY PutTyped DEF KeysTyped
<1>5. PutFor(f, q)' = put
  <2>1. DOMAIN trusted' = (1..len) \cup {len + 1}
    BY <1>1, <1>4
  <2>2. PutFor(f, q)' = {i \in DOMAIN trusted' : trusted'[i].epoch = f /\ trusted'[i].peer = q}
    BY DEF PutFor
  <2>3. put = {i \in 1..len : trusted[i].epoch = f /\ trusted[i].peer = q}
    BY <1>1 DEF PutFor
  <2> HIDE DEF put, len
  <2> QED BY <1>4, <2>1, <2>2, <2>3
<1>6. cnt \in Nat
  BY PutForIs DEF AllKept, ValuesKept
<1>7. ToBytes(cnt) \in Seq(Byte) /\ id \in Seq(Byte) /\ other \in Seq(Byte)
  BY <1>6, BytesType, IDType
<1>8. ~IsPrefix(other, key)
  BY <1>7, PrefixFree
<1>9. other # id
  <2>1. IsPrefix(id, key)
    BY <1>7, PrefixOfJoined
  <2> QED BY <1>8, <2>1
<1>10. \A i \in put : Nth(i, put) \in 1..Cardinality(put)
  BY <1>1, NthIs
<1>11. \A m \in Nat : IsPrefix(other, other \o ToBytes(m))
  BY <1>7, BytesType, PrefixOfJoined
<1> HIDE DEF id, other, put, len, cnt, key
<1>12. Count(other)' = Count(other) /\ (put # {} => other \in DOMAIN counts')
  BY <1>2, <1>3, <1>9 DEF Count, Stored
<1>13. Found(DOMAIN storage', other) = Found(DOMAIN storage, other)
  <2>1. DOMAIN storage' = DOMAIN storage \cup {key}
    BY <1>3 DEF Stored
  <2> QED BY <1>8, <2>1 DEF Found
<1>14. ASSUME NEW i \in put
       PROVE  storage'[other \o ToBytes(Nth(i, put))] = trusted'[i].value
  <2>1. Nth(i, put) \in Nat
    BY <1>1, <1>10
  <2>2. other \o ToBytes(Nth(i, put)) # key
    BY <1>8, <1>11, <2>1
  <2>3. other \o ToBytes(Nth(i, put)) \in DOMAIN storage
    <3>1. other \o ToBytes(Nth(i, put)) \in Numbered(other, Cardinality(put))
      BY <1>10 DEF Numbered
    <3> QED BY <1>2, <3>1 DEF Found
  <2>4. storage'[other \o ToBytes(Nth(i, put))] = storage[other \o ToBytes(Nth(i, put))]
    BY <1>3, <2>2, <2>3 DEF Stored
  <2>5. trusted'[i] = trusted[i]
    BY <1>1, <1>4
  <2> QED BY <1>2, <2>4, <2>5
<1>15. ValuesKept(f, q)' =
          LET same == PutFor(f, q)' IN
          /\ Count(other)' = Cardinality(same)
          /\ same # {} => other \in DOMAIN counts'
          /\ Found(DOMAIN storage', other) = Numbered(other, Cardinality(same))
          /\ \A i \in same : storage'[other \o ToBytes(Nth(i, same))] = trusted'[i].value
  BY DEF ValuesKept, other
<1> QED BY <1>2, <1>5, <1>12, <1>13, <1>14, <1>15

LEMMA PutKeeps ==
    ASSUME AllKept, NEW e \in Epochs, NEW p \in Peers, NEW v \in Nat, Put(e, p, v)
    PROVE  AllKept'
<1>1. KeysTyped'
  BY PutTyped
<1>2. ASSUME NEW f \in Epochs, NEW q \in Peers PROVE ValuesKept(f, q)'
  <2>1. CASE e = f /\ p = q
    BY <2>1, PutKeepsOwn
  <2>2. CASE e # f \/ p # q
    BY <2>2, PutKeepsOthers
  <2> QED BY <2>1, <2>2
<1> QED BY <1>1, <1>2 DEF AllKept

(* Calls on their way are for epochs and peers there are. *)
CallsTyped ==
    /\ IsFiniteSet(calls)
    /\ \A call \in calls : ~IsVote(call) =>
          call.epoch \in Epochs /\ call.peer \in Peers /\ call.value \in Nat
Reputed == AllKept /\ CallsTyped

LEMMA ReputedInit == GovernanceInit => Reputed
  BY KeptInit, FS_EmptySet DEF GovernanceInit, Reputed, CallsTyped

LEMMA ReputedStep == Reputed /\ [GovernanceNext]_governanceVars => Reputed'
<1> SUFFICES ASSUME Reputed, [GovernanceNext]_governanceVars PROVE Reputed'
  OBVIOUS
<1>1. ASSUME UNCHANGED reputationVars PROVE AllKept'
  <2>1. UNCHANGED <<counts, storage, trusted>> /\ AllKept
    BY <1>1 DEF reputationVars, Reputed
  <2>2. KeysTyped'
    BY <2>1 DEF AllKept, KeysTyped
  <2>3. ASSUME NEW e \in Epochs, NEW p \in Peers PROVE ValuesKept(e, p)'
    <3>1. ValuesKept(e, p)
      BY <2>1 DEF AllKept
    <3>2. PutFor(e, p)' = PutFor(e, p) /\ Count(StorageID(e, p))' = Count(StorageID(e, p))
      BY <2>1 DEF PutFor, Count
    <3> QED BY <2>1, <3>1, <3>2 DEF ValuesKept
  <2> QED BY <2>2, <2>3 DEF AllKept
<1>2. ASSUME UNCHANGED <<reputationVars, calls>> PROVE Reputed'
  BY <1>1, <1>2 DEF Reputed, CallsTyped, IsVote
<1>3. ASSUME NEW list \in Lists, Decide(list) PROVE Reputed'
  BY <1>2, <1>3 DEF Decide
<1>4. ASSUME NEW c \in Contracts, SendVote(c) PROVE Reputed'
  <2> DEFINE new == [by |-> AlphabetAddress, to |-> c, epoch |-> epoch, list |-> wanted]
  <2>1. calls' = calls \cup {new} /\ UNCHANGED reputationVars
    BY <1>4 DEF SendVote
  <2>2. IsVote(new)
    BY DEF IsVote
  <2> HIDE DEF new
  <2>3. IsFiniteSet(calls')
    BY <2>1, FS_AddElement DEF Reputed, CallsTyped
  <2>4. CallsTyped'
    BY <2>1, <2>2, <2>3 DEF Reputed, CallsTyped, IsVote
  <2> QED BY <1>1, <2>1, <2>4 DEF Reputed
<1>5. ASSUME NEW e \in Epochs, NEW p \in Peers, SendPut(e, p) PROVE Reputed'
  <2> DEFINE new == [by |-> AlphabetAddress, epoch |-> e, peer |-> p, value |-> NextValue]
             puts == {call \in calls : ~IsVote(call)}
  <2>1. calls' = calls \cup {new} /\ UNCHANGED reputationVars
    BY <1>5 DEF SendPut
  <2>2. NextValue \in Nat
    <3>1. puts \in SUBSET calls /\ IsFiniteSet(calls)
      BY DEF Reputed, CallsTyped
    <3> HIDE DEF puts
    <3>2. Cardinality(puts) \in Nat
      BY <3>1, FS_Subset, FS_CardinalityType
    <3>3. Len(trusted) \in Nat
      BY DEF Reputed, AllKept, KeysTyped
    <3> QED BY <3>2, <3>3 DEF NextValue, puts
  <2>3. new.epoch = e /\ new.peer = p /\ new.value = NextValue
    OBVIOUS
  <2> HIDE DEF new
  <2>4. IsFiniteSet(calls')
    BY <2>1, FS_AddElement DEF Reputed, CallsTyped
  <2>5. CallsTyped'
    BY <2>1, <2>2, <2>3, <2>4 DEF Reputed, CallsTyped, IsVote
  <2> QED BY <1>1, <2>1, <2>5 DEF Reputed
<1>6. ASSUME NEW call \in calls, calls' = calls \ {call} PROVE CallsTyped'
  <2>1. IsFiniteSet(calls')
    BY <1>6, FS_RemoveElement DEF Reputed, CallsTyped
  <2> QED BY <1>6, <2>1 DEF Reputed, CallsTyped, IsVote
<1>7. ASSUME NEW call \in calls, AcceptCall(call) PROVE Reputed'
  <2>1. CallsTyped'
    BY <1>6, <1>7 DEF AcceptCall
  <2>2. CASE UNCHANGED reputationVars
    BY <1>1, <2>1, <2>2 DEF Reputed
  <2>3. CASE ~IsVote(call) /\ Put(call.epoch, call.peer, call.value)
    BY <2>1, <2>3, PutKeeps DEF Reputed, CallsTyped
  <2> QED BY <1>7, <2>2, <2>3 DEF AcceptCall
<1>8. ASSUME NEW call \in calls, Drop(call) PROVE Reputed'
  BY <1>1, <1>6, <1>8 DEF Drop, Reputed
<1> QED
  BY <1>2, <1>3, <1>4, <1>5, <1>7, <1>8
  DEF GovernanceNext, governanceVars, rest

(* All values put for a peer in an epoch, and no others, are found by Get,  *)
(* whatever epochs, peers and committees there are.                        *)
THEOREM ReputationIsKept == GovernanceSpec => []ReputationKept
  BY ReputedInit, ReputedStep, KeptProperty, PTL DEF GovernanceSpec, Reputed
=============================================================================
