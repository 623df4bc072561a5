----------------------------- MODULE NeoFSProofs -----------------------------
(***************************************************************************)
(* Proofs about the decisions of NeoFS, for Alphabets of every size, every *)
(* set of IDs and every pause after which ballots lapse.  The ballots are  *)
(* what the history of votes says they are (Ledger); so what Vote counts   *)
(* is a set of nodes, and two quorums of one Alphabet share a node.        *)
(***************************************************************************)
EXTENDS NeoFS, WellFoundedInduction, FiniteSetTheorems, SequenceTheorems, TLAPS

Distinct(bs) ==
    /\ \A b, c \in bs : b.id = c.id => b = c
    /\ \A b \in bs : /\ IsFiniteSet(Range(b.voters))
                     /\ Len(b.voters) = Cardinality(Range(b.voters))

(* A new voter lengthens a ballot by one node. *)
LEMMA AppendVoter ==
    ASSUME NEW voters \in Seq(Voters), NEW from \in Voters,
           from \notin Range(voters), IsFiniteSet(Range(voters)),
           Len(voters) = Cardinality(Range(voters))
    PROVE  LET longer == Append(voters, from)
           IN  /\ longer \in Seq(Voters)
               /\ Range(longer) = Range(voters) \cup {from}
               /\ IsFiniteSet(Range(longer))
               /\ Len(longer) = Cardinality(Range(longer))
<1> DEFINE longer == Append(voters, from)
<1>1. /\ longer \in Seq(Voters)
      /\ Len(longer) = Len(voters) + 1
      /\ \A i \in 1..Len(voters) : longer[i] = voters[i]
      /\ longer[Len(voters) + 1] = from
  BY AppendProperties
<1>2. /\ DOMAIN voters = 1..Len(voters) /\ DOMAIN longer = 1..Len(voters) + 1
      /\ Len(voters) \in Nat
  BY <1>1
<1> HIDE DEF longer
<1>3. Range(longer) = Range(voters) \cup {from}
  <2>1. Range(longer) = {longer[i] : i \in 1..Len(voters) + 1}
    BY <1>2 DEF Range
  <2>2. Range(voters) = {voters[i] : i \in 1..Len(voters)}
    BY <1>2 DEF Range
  <2>3. \A i \in 1..Len(voters) + 1 : i \in 1..Len(voters) \/ i = Len(voters) + 1
    BY <1>2
  <2>4. \A i \in 1..Len(voters) + 1 : longer[i] \in Range(voters) \cup {from}
    BY <1>1, <2>2, <2>3
  <2>5. \A i \in 1..Len(voters) : voters[i] \in Range(longer)
    BY <1>1, <1>2, <2>1
  <2>6. from \in Range(longer)
    BY <1>1, <1>2, <2>1
  <2> QED BY <2>1, <2>2, <2>4, <2>5, <2>6
<1>4. /\ IsFiniteSet(Range(voters) \cup {from})
      /\ Cardinality(Range(voters) \cup {from}) = Cardinality(Range(voters)) + 1
  BY FS_AddElement
<1> QED BY <1>1, <1>3, <1>4 DEF longer

LEMMA EmptyBallot == Range(<<>>) = {} /\ IsFiniteSet(Range(<<>>))
                     /\ Len(<<>>) = Cardinality(Range(<<>>)) /\ <<>> \in Seq(Voters)
BY FS_EmptySet DEF Range

(* The ballot b of a decision after a vote: it had the voter before, or got *)
(* it, or is new.                                                          *)
Outcome(bs, id, from, h, b) ==
    LET after == Vote(bs, id, from, h)
    IN  /\ Of(after, id) = {b}
        /\ Count(bs, id, from, h) = Cardinality(Range(b.voters))
        /\ \/ b \in bs /\ h - b.height <= BlockDiff
              /\ from \in Range(b.voters) /\ after = bs
           \/ \E c \in bs :
                /\ c.id = id /\ h - c.height <= BlockDiff
                /\ from \notin Range(c.voters) /\ b.height = h
                /\ Range(b.voters) = Range(c.voters) \cup {from}
           \/ /\ \A c \in bs : c.id = id => h - c.height > BlockDiff
              /\ b.height = h /\ Range(b.voters) = {from}

(* What a vote does to the ballots: the others stay or lapse, and the one   *)
(* of its decision gets the voter.                                         *)
LEMMA VoteFacts ==
    ASSUME NEW bs \in SUBSET Ballot, Distinct(bs), BlockDiff \in Nat,
           NEW id \in Ids, NEW from \in Voters, NEW h \in Nat
    PROVE  LET after == Vote(bs, id, from, h)
           IN  /\ after \in SUBSET Ballot /\ Distinct(after)
               /\ \A b \in after : b.id # id => b \in bs
               /\ \A b \in bs : b.id # id /\ h - b.height <= BlockDiff => b \in after
               /\ \E b \in after : Outcome(bs, id, from, h, b)
<1> DEFINE live == Live(bs, h)
           mine == Of(live, id)
           fresh == [id |-> id, voters |-> <<>>, height |-> h]
           after == Vote(bs, id, from, h)
<1>0. /\ live = {b \in bs : h - b.height <= BlockDiff}
      /\ mine = {b \in live : b.id = id}
      /\ fresh \in Ballot /\ h - h <= BlockDiff
  BY EmptyBallot DEF Live, Of, Ballot
<1>C. ASSUME NEW b, Of(Live(after, h), id) = {b}
      PROVE  Count(bs, id, from, h) = Len(b.voters)
  BY <1>C DEF Count
<1>1. CASE Repeated(bs, id, from, h)
  <2>1. after = bs
    BY <1>1 DEF Vote
  <2>2. PICK b \in mine : from \in Range(b.voters)
    BY <1>1 DEF Repeated
  <2>3. Of(after, id) = {b} /\ Of(Live(after, h), id) = {b} /\ b \in bs
    BY <1>0, <2>1, <2>2 DEF Distinct, Of, Live
  <2>4. Count(bs, id, from, h) = Cardinality(Range(b.voters))
    BY <1>C, <2>3 DEF Distinct
  <2>5. Outcome(bs, id, from, h, b) /\ b \in after
    BY <1>0, <2>1, <2>2, <2>3, <2>4 DEF Outcome
  <2> QED BY <1>0, <2>1, <2>5
<1>2. CASE ~Repeated(bs, id, from, h)
  <2>1. PICK c : /\ c = IF mine = {} THEN fresh ELSE CHOOSE m \in mine : TRUE
    OBVIOUS
  <2>2. /\ c \in Ballot /\ c.id = id
        /\ (IF mine = {} THEN {fresh} ELSE mine) = {c}
        /\ IsFiniteSet(Range(c.voters)) /\ Len(c.voters) = Cardinality(Range(c.voters))
        /\ from \notin Range(c.voters)
    <3>1. CASE mine = {}
      BY <2>1, <3>1, <1>0, EmptyBallot
    <3>2. CASE mine # {}
      <4>1. c \in mine /\ c \in bs /\ c.id = id
        BY <2>1, <3>2, <1>0
      <4>2. mine = {c}
        BY <1>0, <4>1 DEF Distinct
      <4> QED BY <4>1, <4>2, <3>2, <1>2 DEF Distinct, Repeated
    <3> QED BY <3>1, <3>2
  <2> DEFINE b == OnBallot(c, from, h)
  <2>3. after = (live \ mine) \cup {b}
    BY <1>2, <2>2 DEF Vote
  <2>4. /\ b.id = id /\ b.height = h /\ b \in Ballot
        /\ Range(b.voters) = Range(c.voters) \cup {from}
        /\ IsFiniteSet(Range(b.voters)) /\ Len(b.voters) = Cardinality(Range(b.voters))
    <3>1. c.voters \in Seq(Voters)
      BY <2>2 DEF Ballot
    <3> QED BY <2>2, <3>1, AppendVoter DEF OnBallot, Ballot
  <2> HIDE DEF b
  <2>5. Of(after, id) = {b} /\ Of(Live(after, h), id) = {b}
    BY <1>0, <2>3, <2>4 DEF Of, Live
  <2>6. Count(bs, id, from, h) = Cardinality(Range(b.voters))
    BY <1>C, <2>4, <2>5
  <2>7. after \in SUBSET Ballot /\ Distinct(after)
    BY <1>0, <2>3, <2>4 DEF Distinct
  <2>8. \/ \E d \in bs :
              /\ d.id = id /\ h - d.height <= BlockDiff
              /\ from \notin Range(d.voters) /\ b.height = h
              /\ Range(b.voters) = Range(d.voters) \cup {from}
        \/ /\ \A d \in bs : d.id = id => h - d.height > BlockDiff
           /\ b.height = h /\ Range(b.voters) = {from}
    <3>1. CASE mine = {}
      <4>1. Range(b.voters) = {from}
        BY <2>1, <2>4, <3>1, EmptyBallot
      <4>2. \A d \in bs : d.id = id => h - d.height > BlockDiff
        <5>1. \A d \in bs : d.id = id => ~(h - d.height <= BlockDiff)
          BY <3>1, <1>0
        <5>2. \A d \in bs : d.height \in Nat
          BY DEF Ballot
        <5> QED BY <5>1, <5>2
      <4> QED BY <4>1, <4>2, <2>4
    <3>2. CASE mine # {}
      <4>1. c \in mine /\ c \in bs /\ c.id = id
        BY <2>1, <3>2, <1>0
      <4> QED BY <4>1, <1>0, <2>2, <2>4
    <3> QED BY <3>1, <3>2
  <2>9. Outcome(bs, id, from, h, b) /\ b \in after
    BY <2>3, <2>5, <2>6, <2>8 DEF Outcome
  <2> QED BY <1>0, <2>3, <2>4, <2>7, <2>9
<1> QED BY <1>1, <1>2

-----------------------------------------------------------------------------
(* The ballots and the history of votes agree: a ballot lists who voted     *)
(* since the last decision, and where there is none, nobody did, or too    *)
(* long ago.                                                               *)
Ledger ==
    /\ alphabet \in Seq(Nodes) \ {<<>>}
    /\ height \in Nat
    /\ past \in [Ids -> Past]
    /\ ballots \in SUBSET Ballot
    /\ Distinct(ballots)
    /\ \A b \in ballots : /\ b.height = past[b.id].last
                          /\ Range(b.voters) = past[b.id].recent
    /\ \A id \in Ids : Of(ballots, id) = {}
                         => Counted(id) = {}
    /\ DecidedByQuorum
    /\ \A id \in Ids : IsFiniteSet(past[id].by)

(* The ballots after a vote, against the history. *)
LEMMA VoteNoted ==
    ASSUME Ledger, NEW id \in Ids, NEW node \in Voters
    PROVE  LET after == Vote(ballots, id, node, height)
           IN  /\ after \in SUBSET Ballot /\ Distinct(after)
               /\ \A b \in after : b.id # id => b \in ballots
               /\ \A b \in ballots :
                    height - b.height <= BlockDiff
                        => b \in after \/ (b.id = id /\ Noted(id, node) # past[id])
               /\ \E b \in after :
                    /\ Of(after, id) = {b}
                    /\ Count(ballots, id, node, height) = Cardinality(Range(b.voters))
                    /\ b.height = Noted(id, node).last
                    /\ Range(b.voters) = Noted(id, node).recent
<1> DEFINE after == Vote(ballots, id, node, height)
           now == Noted(id, node)
<1>0. BlockDiff \in Nat /\ height \in Nat /\ past[id] \in Past
      /\ ballots \in SUBSET Ballot /\ Distinct(ballots)
  BY NeoFSAssumption DEF Ledger
<1>1. /\ after \in SUBSET Ballot /\ Distinct(after)
      /\ \A b \in after : b.id # id => b \in ballots
      /\ \A b \in ballots : b.id # id /\ height - b.height <= BlockDiff => b \in after
  BY <1>0, VoteFacts DEF Ledger
<1>2. PICK b \in after : Outcome(ballots, id, node, height, b)
  BY <1>0, VoteFacts
<1>7. /\ Of(after, id) = {b}
      /\ Count(ballots, id, node, height) = Cardinality(Range(b.voters))
      /\ \/ b \in ballots /\ height - b.height <= BlockDiff
            /\ node \in Range(b.voters) /\ after = ballots
         \/ \E c \in ballots :
              /\ c.id = id /\ height - c.height <= BlockDiff
              /\ node \notin Range(c.voters) /\ b.height = height
              /\ Range(b.voters) = Range(c.voters) \cup {node}
         \/ /\ \A c \in ballots : c.id = id => height - c.height > BlockDiff
            /\ b.height = height /\ Range(b.voters) = {node}
  BY <1>2 DEF Outcome
<1>3. b.id = id
  BY <1>7 DEF Of
<1> HIDE DEF after
<1>4. CASE b \in ballots /\ height - b.height <= BlockDiff
           /\ node \in Range(b.voters) /\ after = ballots
  <2>1. b.height = past[id].last /\ Range(b.voters) = past[id].recent
    BY <1>3, <1>4 DEF Ledger
  <2>2. Counted(id) = past[id].recent
    BY <1>0, <1>4, <2>1 DEF Counted, Past
  <2>3. now = past[id]
    BY <1>4, <2>1, <2>2 DEF Noted
  <2>4. b.height = now.last /\ Range(b.voters) = now.recent
    BY <2>1, <2>3
  <2>5. \A c \in ballots : c \in after
    BY <1>4
  <2> QED BY <1>1, <1>2, <1>7, <2>4, <2>5 DEF after
<1>5. CASE \E c \in ballots :
             /\ c.id = id /\ height - c.height <= BlockDiff
             /\ node \notin Range(c.voters) /\ b.height = height
             /\ Range(b.voters) = Range(c.voters) \cup {node}
  <2>1. PICK c \in ballots :
             /\ c.id = id /\ height - c.height <= BlockDiff
             /\ node \notin Range(c.voters) /\ b.height = height
             /\ Range(b.voters) = Range(c.voters) \cup {node}
    BY <1>5
  <2>2. c.height = past[id].last /\ Range(c.voters) = past[id].recent
    BY <2>1 DEF Ledger
  <2>3. Counted(id) = past[id].recent
    BY <1>0, <2>1, <2>2 DEF Counted, Past
  <2>4. now = [past[id] EXCEPT !.voted = @ \cup {node},
                               !.recent = past[id].recent \cup {node},
                               !.last = height,
                               !.again = @ \/ node \in past[id].voted]
    BY <2>1, <2>2, <2>3 DEF Noted
  <2>5. now.last = height /\ now.recent = past[id].recent \cup {node}
        /\ node \notin past[id].recent
    BY <1>0, <2>1, <2>2, <2>4 DEF Past
  <2> QED BY <1>1, <1>2, <1>7, <2>1, <2>2, <2>5 DEF after
<1>6. CASE /\ \A c \in ballots : c.id = id => height - c.height > BlockDiff
           /\ b.height = height /\ Range(b.voters) = {node}
  <2>1. Counted(id) = {}
    <3>1. CASE Of(ballots, id) = {}
      BY <3>1 DEF Ledger
    <3>2. CASE Of(ballots, id) # {}
      BY <1>6, <3>2 DEF Ledger, Counted, Of
    <3> QED BY <3>1, <3>2
  <2>2. now = [past[id] EXCEPT !.voted = @ \cup {node},
                               !.recent = {} \cup {node},
                               !.last = height,
                               !.again = @ \/ node \in past[id].voted]
    BY <2>1 DEF Noted
  <2>3. now.last = height /\ now.recent = {node}
    BY <1>0, <2>2 DEF Past
  <2>4. \A c \in ballots : c.id = id => ~(height - c.height <= BlockDiff)
    BY <1>0, <1>6 DEF Ledger, Ballot
  <2> QED BY <1>1, <1>2, <1>7, <1>6, <2>3, <2>4 DEF after
<1> QED BY <1>7, <1>4, <1>5, <1>6

LEMMA NotedType ==
    ASSUME Ledger, NEW id \in Ids, NEW node \in Voters
    PROVE  /\ Noted(id, node) \in Past /\ Decided(Noted(id, node)) \in Past
           /\ Noted(id, node).by = past[id].by
           /\ Noted(id, node).of = past[id].of
           /\ Noted(id, node).decided = past[id].decided
<1>1. past[id] \in Past /\ height \in Nat /\ Counted(id) \in SUBSET Voters
  BY DEF Ledger, Counted, Past
<1>2. Len(alphabet) \in Nat
  BY DEF Ledger
<1>3. /\ Noted(id, node) \in Past
      /\ Noted(id, node).by = past[id].by /\ Noted(id, node).of = past[id].of
      /\ Noted(id, node).decided = past[id].decided
  <2>1. CASE node \in Counted(id)
    BY <1>1, <2>1 DEF Noted
  <2>2. CASE node \notin Counted(id)
    BY <1>1, <2>2 DEF Noted, Past
  <2> QED BY <2>1, <2>2
<1>4. \A p \in Past : Decided(p) \in Past
  <2> TAKE p \in Past
  <2>1. p.decided + 1 \in Nat /\ p.recent \in SUBSET Voters
    BY DEF Past
  <2> DEFINE n == p.decided + 1
             r == p.recent
             l == Len(alphabet)
  <2>2. Decided(p) = [p EXCEPT !.decided = n, !.recent = {}, !.by = r, !.of = l]
    BY DEF Decided
  <2>3. n \in Nat /\ r \in SUBSET Voters /\ l \in Nat
    BY <1>2, <2>1
  <2> HIDE DEF n, r, l
  <2> QED BY <2>2, <2>3 DEF Past
<1> QED BY <1>3, <1>4

LEMMA ThresholdQuorum ==
    ASSUME alphabet \in Seq(Nodes), NEW n \in Nat, n >= Threshold
    PROVE  3 * n > 2 * Len(alphabet)
<1>1. Len(alphabet) \in Nat
  OBVIOUS
<1> QED BY <1>1 DEF Threshold

(* A call with an ID, whatever else it changes.                             *)
LEMMA CollectLedger ==
    ASSUME Ledger, NEW id \in Ids, NEW node \in Voters, Collect(id, node),
           height' = height, alphabet' \in Seq(Nodes) \ {<<>>}
    PROVE  /\ Ledger'
           /\ \A b \in ballots : height - b.height <= BlockDiff
                 => b \in ballots' \/ past'[b.id] # past[b.id]
<1> DEFINE after == Vote(ballots, id, node, height)
           now == Noted(id, node)
<1>1. CASE ~notaryDisabled
  <2>1. ballots' = ballots /\ past' = past
    BY <1>1 DEF Collect
  <2> QED BY <2>1 DEF Ledger, DecidedByQuorum, Counted
<1>2. CASE notaryDisabled
  <2>1. /\ after \in SUBSET Ballot /\ Distinct(after)
        /\ \A b \in after : b.id # id => b \in ballots
        /\ \A b \in ballots : height - b.height <= BlockDiff
                => b \in after \/ (b.id = id /\ now # past[id])
    BY VoteNoted
  <2>2. PICK b \in after : /\ Of(after, id) = {b}
                           /\ Count(ballots, id, node, height) = Cardinality(Range(b.voters))
                           /\ b.height = now.last /\ Range(b.voters) = now.recent
    BY VoteNoted
  <2>3. /\ now \in Past /\ Decided(now) \in Past
        /\ now.by = past[id].by /\ now.of = past[id].of
        /\ now.decided = past[id].decided
    BY NotedType
  <2>4. /\ past \in [Ids -> Past] /\ height \in Nat /\ BlockDiff \in Nat
        /\ \A c \in ballots : c \in Ballot
    BY NeoFSAssumption DEF Ledger
  <2>5. b.id = id /\ b \in Ballot /\ IsFiniteSet(Range(b.voters))
    BY <2>1, <2>2 DEF Of, Distinct
  <2>6. \A c \in after : c.id = id => c = b
    BY <2>2 DEF Of
  <2> HIDE DEF after, now
  <2>7. \A c \in after : c.id # id => /\ c.height = past[c.id].last
                                      /\ Range(c.voters) = past[c.id].recent
    BY <2>1 DEF Ledger
  <2>8. \A i \in Ids : i # id /\ Of(after, i) = {} => Counted(i) = {}
    <3> SUFFICES ASSUME NEW i \in Ids, i # id, Of(after, i) = {}
                 PROVE  Counted(i) = {}
      OBVIOUS
    <3>1. CASE Of(ballots, i) = {}
      BY <3>1 DEF Ledger
    <3>2. CASE Of(ballots, i) # {}
      <4>1. PICK c \in ballots : c.id = i
        BY <3>2 DEF Of
      <4>2. ~(height - c.height <= BlockDiff)
        BY <2>1, <4>1 DEF Of
      <4>3. c.height = past[i].last /\ c.height \in Nat
        BY <2>4, <4>1 DEF Ledger, Ballot
      <4> QED BY <2>4, <4>2, <4>3 DEF Counted
    <3> QED BY <3>1, <3>2
  <2>9. CASE ~Reached(id, node)
    <3>1. ballots' = after /\ past' = [past EXCEPT ![id] = now]
      BY <1>2, <2>9 DEF Collect, after, now
    <3>2. past' \in [Ids -> Past] /\ past'[id] = now
          /\ \A i \in Ids : i # id => past'[i] = past[i]
      BY <2>3, <2>4, <3>1
    <3>3. \A c \in ballots' : /\ c.height = past'[c.id].last
                              /\ Range(c.voters) = past'[c.id].recent
      BY <2>1, <2>2, <2>5, <2>6, <2>7, <3>1, <3>2 DEF Ballot
    <3>4. \A i \in Ids : Of(ballots', i) = {} => Counted(i)' = {}
      BY <2>2, <2>8, <3>1, <3>2 DEF Counted
    <3>5. /\ DecidedByQuorum'
          /\ \A i \in Ids : IsFiniteSet(past'[i].by)
      BY <2>3, <3>2 DEF Ledger, DecidedByQuorum
    <3>6. Ledger'
      BY <2>1, <2>4, <3>1, <3>2, <3>3, <3>4, <3>5 DEF Ledger
    <3>7. \A c \in ballots : height - c.height <= BlockDiff
             => c \in ballots' \/ past'[c.id] # past[c.id]
      BY <2>1, <3>1, <3>2
    <3> QED BY <3>6, <3>7
  <2>10. CASE Reached(id, node)
    <3>1. ballots' = RemoveVotes(after, id)
          /\ past' = [past EXCEPT ![id] = Decided(now)]
      BY <1>2, <2>10 DEF Collect, after, now
    <3>2. ballots' = after \ {b}
      <4>1. (CHOOSE c \in after : Of(after, id) # {} => c \in Of(after, id)) = b
        BY <2>2
      <4> QED BY <3>1, <4>1 DEF RemoveVotes
    <3>3. past' \in [Ids -> Past] /\ past'[id] = Decided(now)
          /\ \A i \in Ids : i # id => past'[i] = past[i]
      BY <2>3, <2>4, <3>1
    <3>4. /\ past'[id].recent = {} /\ past'[id].by = Range(b.voters)
          /\ past'[id].of = Len(alphabet)
          /\ past'[id].decided = past[id].decided + 1
      BY <2>2, <2>3, <3>3 DEF Decided, Past
    <3>5. \A c \in ballots' : /\ c.height = past'[c.id].last
                              /\ Range(c.voters) = past'[c.id].recent
      BY <2>1, <2>6, <2>7, <3>2, <3>3 DEF Ballot
    <3>6. \A i \in Ids : Of(ballots', i) = {} => Counted(i)' = {}
      <4> SUFFICES ASSUME NEW i \in Ids, Of(ballots', i) = {}
                   PROVE  Counted(i)' = {}
        OBVIOUS
      <4>1. CASE i = id
        BY <3>4, <4>1 DEF Counted
      <4>2. CASE i # id
        <5>1. Of(after, i) = {}
          BY <2>5, <3>2, <4>2 DEF Of
        <5> QED BY <2>8, <3>3, <4>2, <5>1 DEF Counted
      <4> QED BY <4>1, <4>2
    <3>7. 3 * Cardinality(Range(b.voters)) > 2 * Len(alphabet)
      <4>1. Cardinality(Range(b.voters)) \in Nat
        BY <2>5, FS_CardinalityType
      <4>2. Cardinality(Range(b.voters)) >= Threshold
        BY <1>2, <2>2, <2>10 DEF Reached
      <4> QED BY <4>1, <4>2, ThresholdQuorum DEF Ledger
    <3>8. /\ DecidedByQuorum'
          /\ \A i \in Ids : IsFiniteSet(past'[i].by)
      BY <2>5, <3>3, <3>4, <3>7 DEF Ledger, DecidedByQuorum
    <3>9. ballots' \in SUBSET Ballot /\ Distinct(ballots')
      BY <2>1, <3>2 DEF Distinct
    <3>10. Ledger'
      BY <2>4, <3>3, <3>5, <3>6, <3>8, <3>9 DEF Ledger
    <3>11. past[id].decided + 1 # past[id].decided
      BY <2>4 DEF Past
    <3>12. \A c \in ballots : height - c.height <= BlockDiff
             => c \in ballots' \/ past'[c.id] # past[c.id]
      BY <2>1, <2>5, <3>2, <3>4, <3>11
    <3> QED BY <3>10, <3>12
  <2> QED BY <2>9, <2>10
<1> QED BY <1>1, <1>2

-----------------------------------------------------------------------------
(* Every set of natural numbers has a least one. *)
LEMMA LeastNatural ==
    ASSUME NEW S \in SUBSET Nat, S # {}
    PROVE  \E i \in S : \A j \in S : i <= j
<1> DEFINE R == OpToRel(<, Nat)
<1>1. PICK m \in S : \A j \in S : ~ (<<j, m>> \in R)
  <2>1. IsWellFoundedOn(R, Nat)
    BY NatLessThanWellFounded
  <2> HIDE DEF R
  <2> QED BY <2>1, WFMin
<1>2. \A j \in S : <<j, m>> \in R <=> j < m
  BY DEF OpToRel
<1>3. \A j \in S : ~(j < m) => m <= j
  OBVIOUS
<1> HIDE DEF R
<1>4. \A j \in S : m <= j
  BY <1>1, <1>2, <1>3
<1> QED BY <1>4

(* The invoker is a node of the list, or nobody. *)
LEMMA InvokerType ==
    ASSUME alphabet \in Seq(Nodes), NEW signers
    PROVE  /\ InnerRingInvoker(signers) \in Voters
           /\ InnerRingInvoker(signers) \in Range(alphabet) \cup {Nobody}
<1> DEFINE signed == {i \in DOMAIN alphabet : alphabet[i] \in signers}
<1>1. CASE signed = {}
  BY <1>1 DEF InnerRingInvoker, Voters
<1>2. CASE signed # {}
  <2>1. signed \in SUBSET Nat /\ DOMAIN alphabet = 1..Len(alphabet)
    OBVIOUS
  <2>2. \E i \in signed : \A j \in signed : i <= j
    BY <1>2, <2>1, LeastNatural
  <2>3. PICK i \in signed : InnerRingInvoker(signers) = alphabet[i]
    BY <1>2, <2>2 DEF InnerRingInvoker
  <2> QED BY <2>1, <2>3 DEF Voters, Range
<1> QED BY <1>1, <1>2

LEMMA InitLedger == Init => Ledger
<1> SUFFICES ASSUME Init PROVE Ledger
  OBVIOUS
<1>1. alphabet \in Seq(Nodes) \ {<<>>} /\ height \in Nat /\ ballots = {}
  <2>1. PICK d \in DeployArgs : alphabet = d.alphabet
    BY NeoFSAssumption DEF Init
  <2>2. alphabet \in Seq(Nodes) \ {<<>>}
    BY <2>1, Zenon DEF DeployArgs
  <2> QED BY <2>2 DEF Init
<1>2. past \in [Ids -> Past] /\ \A id \in Ids : past[id].decided = 0
                             /\ past[id].recent = {} /\ past[id].by = {}
  BY DEF Init, Past
<1>3. \A id \in Ids : Counted(id) = {}
  BY <1>2 DEF Counted
<1>4. Distinct(ballots) /\ ballots \in SUBSET Ballot
  BY <1>1 DEF Distinct
<1>5. DecidedByQuorum /\ \A id \in Ids : IsFiniteSet(past[id].by)
  BY <1>2, FS_EmptySet DEF DecidedByQuorum
<1> QED BY <1>1, <1>2, <1>3, <1>4, <1>5 DEF Ledger

(* The steps that vote, and the others. *)
Voting == \E id \in Ids, node \in Voters :
            /\ Collect(id, node) /\ height' = height
            /\ node \in Range(alphabet) \cup {Nobody}
            /\ alphabet' \in Seq(Nodes) \ {<<>>}
            /\ \/ alphabet' = alphabet /\ changed' = changed
               \/ changed'
Quiet == UNCHANGED <<alphabet, ballots, past, changed>>
         /\ height' \in {height, height + 1}

LEMMA StepKinds ==
    ASSUME alphabet \in Seq(Nodes) \ {<<>>}, [Next]_vars
    PROVE  Voting \/ Quiet
<1> USE DEF Quiet, stored, vars
<1>1. ASSUME NEW signers \in Signers, NEW id \in Ids,
             NEW user \in Users, NEW amount \in Amounts,
             Cheque(signers, id, user, amount)
      PROVE  Voting
  <2>1. /\ Collect(id, InnerRingInvoker(signers)) /\ height' = height
        /\ alphabet' = alphabet /\ changed' = changed
    BY <1>1 DEF Cheque
  <2> QED BY <2>1, InvokerType DEF Voting
<1>2. ASSUME NEW signers \in Signers, NEW id \in Ids, NEW list \in Lists,
             AlphabetUpdate(signers, id, list)
      PROVE  Voting
  <2>1. /\ Collect(id, InnerRingInvoker(signers)) /\ height' = height
        /\ \/ alphabet' = list /\ changed'
           \/ alphabet' = alphabet /\ changed' = changed
        /\ Len(list) > 0
    BY <1>2 DEF AlphabetUpdate
  <2>2. list \in Seq(Nodes) \ {<<>>}
    BY <2>1, NeoFSAssumption
  <2> QED BY <2>1, <2>2, InvokerType DEF Voting
<1>3. ASSUME NEW signers \in Signers, NEW id \in Ids,
             NEW key \in ConfigKeys, NEW val \in ConfigValues,
             SetConfig(signers, id, key, val)
      PROVE  Voting
  <2>1. /\ Collect(id, InnerRingInvoker(signers)) /\ height' = height
        /\ alphabet' = alphabet /\ changed' = changed
    BY <1>3 DEF SetConfig
  <2> QED BY <2>1, InvokerType DEF Voting
<1>4. ASSUME NEW signers \in Signers, NEW user \in Users, NEW amount \in Amounts,
             \/ Withdraw(signers, user, amount)
             \/ \E ignored \in BOOLEAN : Deposit(signers, user, amount, ignored)
      PROVE  Quiet
  BY <1>4 DEF Withdraw, Deposit
<1>5. CASE Block
  BY <1>5 DEF Block
<1>6. CASE UNCHANGED vars
  BY <1>6
<1> QED BY <1>1, <1>2, <1>3, <1>4, <1>5, <1>6 DEF Next

LEMMA NextLedger ==
    ASSUME Ledger, [Next]_vars
    PROVE  /\ Ledger'
           /\ \A b \in ballots : height - b.height <= BlockDiff
                 => b \in ballots' \/ past'[b.id] # past[b.id]
<1>1. CASE Voting
  BY <1>1, CollectLedger DEF Voting
<1>2. CASE Quiet
  <2>1. height' \in Nat /\ BlockDiff \in Nat
    BY <1>2, NeoFSAssumption DEF Quiet, Ledger
  <2>2. \A id \in Ids : Of(ballots', id) = {} => Counted(id)' = {}
    <3> SUFFICES ASSUME NEW id \in Ids, Of(ballots', id) = {} PROVE Counted(id)' = {}
      OBVIOUS
    <3>1. /\ Of(ballots, id) = {} /\ past' = past
          /\ height \in Nat /\ past[id].last \in Nat
      BY <1>2 DEF Quiet, Ledger, Past
    <3>2. \/ height - past[id].last > BlockDiff
          \/ past[id].recent = {}
      BY <3>1 DEF Ledger, Counted
    <3>3. height' - past[id].last > BlockDiff \/ past[id].recent = {}
      BY <1>2, <2>1, <3>1, <3>2 DEF Quiet
    <3> QED BY <3>1, <3>3 DEF Counted
  <2> QED BY <1>2, <2>1, <2>2 DEF Quiet, Ledger, DecidedByQuorum
<1> QED BY <1>1, <1>2, StepKinds DEF Ledger

(* The ballots are what the history of votes makes them, in every state. *)
THEOREM LedgerHolds == Spec => []Ledger
BY InitLedger, NextLedger, PTL DEF Spec

(* The ballots of undecided calls are distinct, and each counts different   *)
(* nodes.                                                                  *)
THEOREM BallotsAreDistinct == Spec => []BallotsDistinct
<1>1. Ledger => BallotsDistinct
  BY DEF Ledger, Distinct, BallotsDistinct
<1> QED BY <1>1, LedgerHolds, PTL

(* Every execution had the votes of more than two thirds of the Alphabet.   *)
THEOREM QuorumDecides == Spec => []DecidedByQuorum
<1>1. Ledger => DecidedByQuorum
  BY DEF Ledger
<1> QED BY <1>1, LedgerHolds, PTL

(* A vote disturbs no other ballot that has not lapsed.                     *)
THEOREM OtherBallotsStay == Spec => OthersBallotsKept
<1>1. Ledger /\ [Next]_vars =>
        [\A b \in ballots :
          height - b.height <= BlockDiff
              => b \in ballots' \/ past'[b.id] # past[b.id]]_vars
  BY NextLedger
<1> QED BY <1>1, LedgerHolds, PTL DEF Spec, OthersBallotsKept

-----------------------------------------------------------------------------
(* The list names at most as many nodes as it is long. *)
LEMMA ListedNodes ==
    ASSUME NEW list \in Seq(Nodes)
    PROVE  IsFiniteSet(Range(list)) /\ Cardinality(Range(list)) <= Len(list)
<1>1. /\ Len(list) \in Nat /\ DOMAIN list = 1..Len(list)
      /\ list \in [1..Len(list) -> Range(list)]
  BY DEF Range
<1>2. list \in Surjection(1..Len(list), Range(list))
  BY <1>1 DEF Surjection, Range
<1>3. IsFiniteSet(1..Len(list)) /\ Cardinality(1..Len(list)) = Len(list)
  BY <1>1, FS_Interval
<1> QED BY <1>2, <1>3, FS_Surjection

(* Two sets of more than two thirds of the list have a node in common. *)
LEMMA QuorumsMeet ==
    ASSUME NEW list \in Seq(Nodes), NEW A \in SUBSET Range(list),
           NEW B \in SUBSET Range(list),
           3 * Cardinality(A) > 2 * Len(list), 3 * Cardinality(B) > 2 * Len(list)
    PROVE  A \cap B # {}
<1>1. IsFiniteSet(Range(list)) /\ Cardinality(Range(list)) <= Len(list)
  BY ListedNodes
<1>2. IsFiniteSet(A) /\ IsFiniteSet(B) /\ A \cup B \in SUBSET Range(list)
  BY <1>1, FS_Subset
<1>3. Cardinality(A \cup B) = Cardinality(A) + Cardinality(B) - Cardinality(A \cap B)
  BY <1>2, FS_Union
<1>4. Cardinality(A \cup B) <= Cardinality(Range(list))
  BY <1>1, <1>2, FS_Subset
<1>5. /\ Cardinality(A) \in Nat /\ Cardinality(B) \in Nat /\ Len(list) \in Nat
      /\ Cardinality(Range(list)) \in Nat /\ Cardinality(A \cup B) \in Nat
  BY <1>1, <1>2, FS_CardinalityType, FS_Subset
<1>6. A \cap B = {} => Cardinality(A \cap B) = 0
  BY FS_EmptySet
<1> QED BY <1>1, <1>3, <1>4, <1>5, <1>6

(* While the Alphabet stays and nobody's vote counts twice, who votes now   *)
(* did not take part in the decision made.                                 *)
OnlyOnce(p) ==
    ~changed /\ ~p.again /\ Nobody \notin p.voted =>
        /\ p.voted \subseteq Range(alphabet) /\ p.recent \subseteq p.voted
        /\ p.decided > 0 => /\ p.decided = 1 /\ p.of = Len(alphabet)
                            /\ p.by \subseteq p.voted /\ p.by \cap p.recent = {}

Once == Ledger /\ \A id \in Ids : OnlyOnce(past[id])

LEMMA NotedOnce ==
    ASSUME Once, NEW id \in Ids, NEW node \in Range(alphabet) \cup {Nobody},
           node \in Voters
    PROVE  OnlyOnce(Noted(id, node))
<1>1. past[id] \in Past /\ OnlyOnce(past[id])
      /\ Counted(id) \subseteq past[id].recent
  BY DEF Once, Ledger, Counted
<1>2. CASE node \in Counted(id)
  BY <1>1, <1>2 DEF Noted
<1>3. CASE node \notin Counted(id)
  <2> DEFINE p == past[id]
             now == Noted(id, node)
  <2>1. /\ now.voted = p.voted \cup {node}
        /\ now.recent = Counted(id) \cup {node}
        /\ now.again = (p.again \/ node \in p.voted)
        /\ now.decided = p.decided /\ now.by = p.by /\ now.of = p.of
    BY <1>1, <1>3 DEF Noted, Past
  <2> HIDE DEF now
  <2> SUFFICES ASSUME ~changed, ~now.again, Nobody \notin now.voted
               PROVE  OnlyOnce(now)
    BY DEF OnlyOnce, now
  <2>2. /\ ~p.again /\ node \notin p.voted /\ Nobody \notin p.voted
        /\ node \in Range(alphabet)
    BY <2>1
  <2>3. /\ p.voted \subseteq Range(alphabet) /\ p.recent \subseteq p.voted
        /\ p.decided > 0 => /\ p.decided = 1 /\ p.of = Len(alphabet)
                            /\ p.by \subseteq p.voted /\ p.by \cap p.recent = {}
    BY <1>1, <2>2 DEF OnlyOnce
  <2> QED BY <1>1, <2>1, <2>2, <2>3 DEF OnlyOnce
<1> QED BY <1>2, <1>3

(* An execution, seen from the votes that it had. *)
LEMMA DecidedStaysOnce ==
    ASSUME alphabet \in Seq(Nodes), NEW p \in Past, OnlyOnce(p),
           3 * Cardinality(p.recent) > 2 * Len(alphabet),
           p.decided > 0 => 3 * Cardinality(p.by) > 2 * p.of
    PROVE  OnlyOnce(Decided(p))
<1> DEFINE d == Decided(p)
<1>1. /\ d.voted = p.voted /\ d.recent = {} /\ d.again = p.again
      /\ d.decided = p.decided + 1 /\ d.by = p.recent /\ d.of = Len(alphabet)
  BY DEF Decided, Past
<1> HIDE DEF d
<1> SUFFICES ASSUME ~changed, ~d.again, Nobody \notin d.voted
             PROVE  OnlyOnce(d)
  BY DEF OnlyOnce, d
<1>2. /\ p.voted \subseteq Range(alphabet) /\ p.recent \subseteq p.voted
      /\ p.decided > 0 => /\ p.of = Len(alphabet)
                          /\ p.by \subseteq p.voted /\ p.by \cap p.recent = {}
  BY <1>1 DEF OnlyOnce
<1>3. p.decided = 0
  <2>1. ASSUME p.decided > 0 PROVE FALSE
    <3>1. /\ p.by \in SUBSET Range(alphabet) /\ p.recent \in SUBSET Range(alphabet)
          /\ 3 * Cardinality(p.by) > 2 * Len(alphabet)
      BY <1>2, <2>1
    <3> QED BY <1>2, <2>1, <3>1, QuorumsMeet
  <2> QED BY <2>1 DEF Past
<1> QED BY <1>1, <1>2, <1>3 DEF OnlyOnce

(* The votes that an execution had are a quorum: what DecidedByQuorum says  *)
(* of the state after it.                                                  *)
LEMMA CollectOnce ==
    ASSUME Once, NEW id \in Ids, NEW node \in Range(alphabet) \cup {Nobody},
           node \in Voters, Collect(id, node), Ledger',
           \/ alphabet' = alphabet /\ changed' = changed
           \/ changed'
    PROVE  Once'
<1>1. CASE changed'
  BY <1>1 DEF Once, OnlyOnce
<1>2. CASE alphabet' = alphabet /\ changed' = changed /\ ~notaryDisabled
  <2>1. past' = past
    BY <1>2 DEF Collect
  <2> QED BY <1>2, <2>1 DEF Once, OnlyOnce
<1>3. CASE alphabet' = alphabet /\ changed' = changed /\ notaryDisabled
  <2> DEFINE now == Noted(id, node)
  <2>1. now \in Past /\ OnlyOnce(now) /\ past \in [Ids -> Past]
        /\ alphabet \in Seq(Nodes)
    BY NotedType, NotedOnce DEF Once, Ledger
  <2>2. now.by = past[id].by /\ now.of = past[id].of /\ now.decided = past[id].decided
    BY NotedType DEF Once
  <2>3. past' = [past EXCEPT ![id] = now] \/ past' = [past EXCEPT ![id] = Decided(now)]
    BY <1>3 DEF Collect
  <2> HIDE DEF now
  <2>4. ASSUME past' = [past EXCEPT ![id] = Decided(now)]
        PROVE  OnlyOnce(Decided(now))
    <3>1. past'[id] = Decided(now)
      BY <2>1, <2>4
    <3>2. /\ past'[id].by = now.recent /\ past'[id].of = Len(alphabet)
          /\ past'[id].decided > 0
      BY <2>1, <3>1 DEF Decided, Past
    <3>3. 3 * Cardinality(now.recent) > 2 * Len(alphabet)
      BY <3>2 DEF Ledger, DecidedByQuorum
    <3>4. now.decided > 0 => 3 * Cardinality(now.by) > 2 * now.of
      BY <2>2 DEF Once, Ledger, DecidedByQuorum
    <3> QED BY <2>1, <3>3, <3>4, DecidedStaysOnce
  <2>5. \A i \in Ids : OnlyOnce(past'[i])
    BY <2>1, <2>3, <2>4 DEF Once
  <2> QED BY <1>3, <2>5 DEF Once, OnlyOnce
<1> QED BY <1>1, <1>2, <1>3

LEMMA InitOnce == Init => Once
BY InitLedger DEF Init, Once, OnlyOnce

LEMMA NextOnce == Once /\ [Next]_vars => Once'
<1> SUFFICES ASSUME Once, [Next]_vars PROVE Once'
  OBVIOUS
<1>1. Ledger'
  BY NextLedger DEF Once
<1>2. CASE Voting
  BY <1>1, <1>2, CollectOnce DEF Voting
<1>3. CASE Quiet
  BY <1>1, <1>3 DEF Quiet, Once, OnlyOnce
<1> QED BY <1>2, <1>3, StepKinds DEF Once, Ledger

(* Late and repeated votes never execute a decision a second time, while    *)
(* the Alphabet stays and nobody's vote counts twice.                      *)
THEOREM DecisionsAreSingle == Spec => []DecidedOnce
<1>1. ASSUME Once PROVE DecidedOnce
  <2> SUFFICES ASSUME NEW id \in Ids, ~changed, ~past[id].again,
                      Nobody \notin past[id].voted
               PROVE  past[id].decided <= 1
    BY DEF DecidedOnce
  <2>1. past[id].decided \in Nat
    BY <1>1 DEF Once, Ledger, Past
  <2>2. past[id].decided > 0 => past[id].decided = 1
    BY <1>1 DEF Once, OnlyOnce
  <2> QED BY <2>1, <2>2
<1> QED BY <1>1, InitOnce, NextOnce, PTL DEF Spec

-----------------------------------------------------------------------------
(* Types.  What voting changes is in Ledger; here is the rest: nobody's     *)
(* GAS is ever negative.                                                   *)
RestType ==
    /\ notaryDisabled \in BOOLEAN
    /\ config \in [ConfigKeys -> Nat]
    /\ gas \in [Accounts -> Nat]
    /\ notified \in [deposits : Nat, ignored : Nat, cheques : Nat]
    /\ changed \in BOOLEAN

LEMMA MovedType ==
    ASSUME NEW g \in [Accounts -> Nat], NEW from \in Accounts, NEW to \in Accounts,
           NEW amount \in Nat, g[from] >= amount
    PROVE  Moved(g, from, to, amount) \in [Accounts -> Nat]
<1> DEFINE debited == [g EXCEPT ![from] = g[from] - amount]
<1>1. debited \in [Accounts -> Nat]
  OBVIOUS
<1>2. Moved(g, from, to, amount) = [debited EXCEPT ![to] = debited[to] + amount]
  BY DEF Moved
<1> HIDE DEF debited
<1> QED BY <1>1, <1>2

LEMMA WithdrawType ==
    ASSUME alphabet \in Seq(Nodes), RestType,
           NEW signers, NEW user \in Users, NEW amount \in Amounts,
           Withdraw(signers, user, amount)
    PROVE  gas' \in [Accounts -> Nat]
<1>1. Payees \in Seq(Nodes \cup {Processing}) /\ Len(Payees) \in Nat
      /\ DOMAIN Payees = 1..Len(Payees)
  <2>1. CASE notaryDisabled
    BY <2>1 DEF Payees
  <2>2. CASE ~notaryDisabled
    BY <2>2 DEF Payees
  <2> QED BY <2>1, <2>2
<1>2. Fee \in Nat
  BY NeoFSAssumption DEF Fee, RestType
<1>3. ASSUME NEW a PROVE FeesTo(a) \in Nat
  <2> DEFINE paid == {i \in DOMAIN Payees : Payees[i] = a}
  <2>1. IsFiniteSet(1..Len(Payees)) /\ paid \in SUBSET (1..Len(Payees))
    BY <1>1, FS_Interval
  <2>2. Cardinality(paid) \in Nat
    BY <2>1, FS_Subset, FS_CardinalityType
  <2> HIDE DEF paid
  <2>3. Fee * Cardinality(paid) \in Nat
    BY <1>2, <2>2
  <2> QED BY <2>3 DEF FeesTo, paid
<1> DEFINE due == Fee * Len(Payees)
<1>4. due \in Nat
  BY <1>1, <1>2
<1>5. gas' = [a \in DOMAIN gas |-> gas[a] + FeesTo(a) - IF a = user THEN due ELSE 0]
      /\ gas[user] >= due /\ gas \in [Accounts -> Nat]
  BY DEF Withdraw, RestType
<1> HIDE DEF due
<1>6. \A a \in Accounts :
         gas[a] + FeesTo(a) - (IF a = user THEN due ELSE 0) \in Nat
  BY <1>3, <1>4, <1>5
<1> QED BY <1>5, <1>6

LEMMA NextRest ==
    ASSUME alphabet \in Seq(Nodes), RestType, [Next]_vars
    PROVE  RestType'
<1> USE DEF RestType, stored, vars
<1>0. Amounts \subseteq Nat /\ Users \subseteq Accounts /\ Contract \in Accounts
  BY NeoFSAssumption DEF Accounts
<1>1. ASSUME NEW signers \in Signers, NEW id \in Ids,
             NEW user \in Users, NEW amount \in Amounts,
             Cheque(signers, id, user, amount)
      PROVE  RestType'
  <2>1. /\ UNCHANGED <<notaryDisabled, config, changed>>
        /\ \/ UNCHANGED <<gas, notified>>
           \/ /\ gas[Contract] >= amount /\ gas' = Moved(gas, Contract, user, amount)
              /\ notified' = [notified EXCEPT !.cheques = @ + amount]
    BY <1>1 DEF Cheque
  <2>2. gas' \in [Accounts -> Nat]
    BY <1>0, <2>1, MovedType
  <2>3. amount \in Nat
    BY <1>0
  <2>4. notified' \in [deposits : Nat, ignored : Nat, cheques : Nat]
    <3>1. notified.cheques + amount \in Nat
      BY <2>3
    <3> QED BY <2>1, <3>1
  <2> QED BY <2>1, <2>2, <2>4
<1>2. ASSUME NEW signers \in Signers, NEW id \in Ids, NEW list \in Lists,
             AlphabetUpdate(signers, id, list)
      PROVE  RestType'
  BY <1>2 DEF AlphabetUpdate
<1>3. ASSUME NEW signers \in Signers, NEW id \in Ids,
             NEW key \in ConfigKeys, NEW val \in ConfigValues,
             SetConfig(signers, id, key, val)
      PROVE  RestType'
  <2>1. val \in Nat
    BY NeoFSAssumption
  <2> QED BY <1>3, <2>1 DEF SetConfig
<1>4. ASSUME NEW signers \in Signers, NEW user \in Users, NEW amount \in Amounts,
             Withdraw(signers, user, amount)
      PROVE  RestType'
  BY <1>4, WithdrawType DEF Withdraw
<1>5. ASSUME NEW signers \in Signers, NEW user \in Users, NEW amount \in Amounts,
             NEW ignored \in BOOLEAN, Deposit(signers, user, amount, ignored)
      PROVE  RestType'
  <2>1. /\ UNCHANGED <<notaryDisabled, config, changed>>
        /\ gas[user] >= amount /\ gas' = Moved(gas, user, Contract, amount)
        /\ notified' = IF ignored THEN [notified EXCEPT !.ignored = @ + amount]
                                  ELSE [notified EXCEPT !.deposits = @ + amount]
    BY <1>5 DEF Deposit
  <2>2. gas' \in [Accounts -> Nat]
    BY <1>0, <2>1, MovedType
  <2>3. amount \in Nat
    BY <1>0
  <2>4. notified' \in [deposits : Nat, ignored : Nat, cheques : Nat]
    <3>1. notified.ignored + amount \in Nat /\ notified.deposits + amount \in Nat
      BY <2>3
    <3>2. CASE ignored
      BY <2>1, <3>1, <3>2
    <3>3. CASE ~ignored
      BY <2>1, <3>1, <3>3
    <3> QED BY <3>2, <3>3
  <2> QED BY <2>1, <2>2, <2>4
<1>6. CASE Block
  BY <1>6 DEF Block
<1>7. CASE UNCHANGED vars
  BY <1>7
<1> QED BY <1>1, <1>2, <1>3, <1>4, <1>5, <1>6, <1>7 DEF Next

(* The types, and with them that no account ever owes GAS.                  *)
THEOREM TypeCorrect == Spec => []TypeOK
<1>1. ASSUME Init PROVE RestType
  <2>1. PICK d \in DeployArgs :
          /\ notaryDisabled = d.notaryDisabled /\ config = d.config
          /\ gas = [a \in Accounts |-> IF a \in Users THEN d.gas[a] ELSE 0]
    BY <1>1, NeoFSAssumption DEF Init
  <2>2. /\ d.notaryDisabled \in BOOLEAN /\ d.config \in [ConfigKeys -> Nat]
        /\ d.gas \in [Users -> Nat]
    BY Zenon DEF DeployArgs
  <2>3. gas \in [Accounts -> Nat]
    BY <2>1, <2>2
  <2>4. /\ changed = FALSE
        /\ notified = [deposits |-> 0, ignored |-> 0, cheques |-> 0]
    BY <1>1 DEF Init
  <2>5. notified \in [deposits : Nat, ignored : Nat, cheques : Nat]
    BY <2>4
  <2> QED BY <2>1, <2>2, <2>3, <2>4, <2>5 DEF RestType
<1>2. Ledger /\ RestType /\ [Next]_vars => RestType'
  BY NextRest DEF Ledger
<1>3. Ledger /\ RestType => TypeOK
  BY DEF Ledger, RestType, TypeOK
<1> QED BY <1>1, <1>2, <1>3, LedgerHolds, PTL DEF Spec

-----------------------------------------------------------------------------
(* The GAS of the contract and of the nodes. *)

(* A transfer between others, or one's own part in a transfer.              *)
LEMMA MovedFacts ==
    ASSUME NEW g \in [Accounts -> Nat], NEW from \in Accounts, NEW to \in Accounts,
           NEW amount \in Nat, from # to
    PROVE  /\ Moved(g, from, to, amount)[from] = g[from] - amount
           /\ Moved(g, from, to, amount)[to] = g[to] + amount
           /\ \A a \in Accounts \ {from, to} : Moved(g, from, to, amount)[a] = g[a]
BY DEF Moved

LEMMA WithdrawFunds ==
    ASSUME Ledger, RestType, FundsAccounted,
           NEW signers, NEW user \in Users, NEW amount \in Amounts,
           Withdraw(signers, user, amount)
    PROVE  FundsAccounted'
<1> DEFINE due == Fee * Len(Payees)
<1>1. /\ gas' = [a \in DOMAIN gas |-> gas[a] + FeesTo(a) - IF a = user THEN due ELSE 0]
      /\ UNCHANGED <<alphabet, notified, changed>> /\ gas \in [Accounts -> Nat]
      /\ alphabet \in Seq(Nodes)
  BY DEF Withdraw, stored, RestType, Ledger
<1> HIDE DEF due
<1>2. /\ Contract \in Accounts /\ Contract # user /\ Contract # Processing
      /\ Contract \notin Nodes /\ Processing \notin Nodes
      /\ Range(alphabet) \subseteq Nodes /\ Nodes \subseteq Accounts
  BY <1>1, NeoFSAssumption DEF Accounts, Range
<1>3. Fee \in Nat
  BY NeoFSAssumption DEF Fee, RestType
<1>4. \A a : a \notin Range(Payees) => FeesTo(a) = 0
  <2> SUFFICES ASSUME NEW a, a \notin Range(Payees) PROVE FeesTo(a) = 0
    OBVIOUS
  <2>1. {i \in DOMAIN Payees : Payees[i] = a} = {}
    BY DEF Range
  <2>2. FeesTo(a) = Fee * 0
    BY <2>1, FS_EmptySet DEF FeesTo
  <2> QED BY <1>3, <2>2
<1>5. EventsMatchFunds'
  <2>1. Contract \notin Range(Payees)
    <3>1. CASE notaryDisabled
      BY <1>2, <3>1 DEF Payees
    <3>2. CASE ~notaryDisabled
      BY <1>2, <3>2 DEF Payees, Range
    <3> QED BY <3>1, <3>2
  <2>2. gas'[Contract] = gas[Contract]
    BY <1>1, <1>2, <1>4, <2>1
  <2> QED BY <1>1, <2>2 DEF FundsAccounted, EventsMatchFunds
<1>6. NodesPaidAlike'
  <2> SUFFICES ASSUME ~changed, NEW a \in Range(alphabet) \ Users,
                      NEW b \in Range(alphabet) \ Users, Listed(a) = Listed(b)
               PROVE  gas'[a] = gas'[b]
    BY <1>1 DEF NodesPaidAlike, Listed
  <2>1. gas[a] = gas[b]
    BY DEF FundsAccounted, NodesPaidAlike
  <2>2. FeesTo(a) = FeesTo(b)
    <3>1. CASE notaryDisabled
      BY <3>1 DEF FeesTo, Payees, Listed
    <3>2. CASE ~notaryDisabled
      <4>1. a # Processing /\ b # Processing
        BY <1>2
      <4>2. a \notin Range(Payees) /\ b \notin Range(Payees)
        BY <3>2, <4>1 DEF Payees, Range
      <4> QED BY <1>4, <4>2
    <3> QED BY <3>1, <3>2
  <2>3. a # user /\ b # user /\ a \in Accounts /\ b \in Accounts
    BY <1>2
  <2> QED BY <1>1, <2>1, <2>2, <2>3
<1> QED BY <1>5, <1>6 DEF FundsAccounted

LEMMA NextFunds ==
    ASSUME Ledger, RestType, FundsAccounted, [Next]_vars
    PROVE  FundsAccounted'
<1>0. /\ Amounts \subseteq Nat /\ Contract \in Accounts /\ Contract \notin Users
      /\ Users \subseteq Accounts /\ gas \in [Accounts -> Nat]
      /\ Contract \notin Nodes /\ Range(alphabet) \subseteq Accounts \ {Contract}
      /\ notified \in [deposits : Nat, ignored : Nat, cheques : Nat]
  BY NeoFSAssumption DEF Accounts, RestType, Ledger, Range
<1>1. ASSUME UNCHANGED <<gas, notified>>,
             changed' \/ UNCHANGED <<alphabet, changed>>
      PROVE  FundsAccounted'
  BY <1>1 DEF FundsAccounted, EventsMatchFunds, NodesPaidAlike, Listed
<1>2. ASSUME NEW user \in Users, NEW amount \in Amounts,
             UNCHANGED <<alphabet, changed>>,
             \/ /\ gas' = Moved(gas, Contract, user, amount)
                /\ notified' = [notified EXCEPT !.cheques = @ + amount]
             \/ /\ gas' = Moved(gas, user, Contract, amount)
                /\ \/ notified' = [notified EXCEPT !.deposits = @ + amount]
                   \/ notified' = [notified EXCEPT !.ignored = @ + amount]
      PROVE  FundsAccounted'
  <2>1. amount \in Nat /\ user \in Accounts /\ user # Contract
    BY <1>0
  <2>2. /\ gas' = Moved(gas, Contract, user, amount) => gas'[Contract] = gas[Contract] - amount
        /\ gas' = Moved(gas, user, Contract, amount) => gas'[Contract] = gas[Contract] + amount
        /\ \A a \in Accounts \ {user, Contract} : gas'[a] = gas[a]
    BY <1>0, <1>2, <2>1, MovedFacts
  <2>3. EventsMatchFunds'
    BY <1>0, <1>2, <2>1, <2>2 DEF FundsAccounted, EventsMatchFunds
  <2>4. NodesPaidAlike'
    <3> SUFFICES ASSUME ~changed, NEW a \in Range(alphabet) \ Users,
                        NEW b \in Range(alphabet) \ Users, Listed(a) = Listed(b)
                 PROVE  gas'[a] = gas'[b]
      BY <1>2 DEF NodesPaidAlike, Listed
    <3>1. gas[a] = gas[b]
      BY DEF FundsAccounted, NodesPaidAlike
    <3>2. a \in Accounts \ {user, Contract} /\ b \in Accounts \ {user, Contract}
      BY <1>0
    <3> QED BY <2>2, <3>1, <3>2
  <2> QED BY <2>3, <2>4 DEF FundsAccounted
<1>3. ASSUME NEW signers, NEW id, NEW user \in Users, NEW amount \in Amounts,
             Cheque(signers, id, user, amount)
      PROVE  FundsAccounted'
  BY <1>1, <1>2, <1>3 DEF Cheque
<1>4. ASSUME NEW signers, NEW user \in Users, NEW amount \in Amounts,
             NEW ignored \in BOOLEAN, Deposit(signers, user, amount, ignored)
      PROVE  FundsAccounted'
  BY <1>2, <1>4 DEF Deposit, stored
<1>5. ASSUME NEW signers, NEW id,
             \/ \E list \in Lists : AlphabetUpdate(signers, id, list)
             \/ \E key \in ConfigKeys, val \in ConfigValues :
                   SetConfig(signers, id, key, val)
             \/ Block \/ UNCHANGED vars
      PROVE  FundsAccounted'
  BY <1>1, <1>5 DEF AlphabetUpdate, SetConfig, Block, vars, stored
<1> QED BY <1>3, <1>4, <1>5, WithdrawFunds DEF Next

(* The GAS of the contract is what the Deposit and Cheque events and the    *)
(* transfers it took silently add up to, whatever transfer fails; and nodes *)
(* that are listed equally often have been paid alike by withdrawals, while *)
(* the list stays.                                                         *)
THEOREM FundsAreAccounted == Spec => []FundsAccounted
<1>1. ASSUME Init PROVE FundsAccounted
  <2>1. PICK d \in DeployArgs :
          /\ alphabet = d.alphabet
          /\ gas = [a \in Accounts |-> IF a \in Users THEN d.gas[a] ELSE 0]
    BY <1>1, NeoFSAssumption DEF Init
  <2>2. d.alphabet \in Seq(Nodes)
    BY Zenon DEF DeployArgs
  <2>3. Range(alphabet) \subseteq Accounts /\ Contract \in Accounts /\ Contract \notin Users
    BY <2>1, <2>2, NeoFSAssumption DEF Accounts, Range
  <2>4. NodesPaidAlike
    BY <2>1, <2>3 DEF NodesPaidAlike
  <2>5. EventsMatchFunds
    BY <1>1, <2>1, <2>3 DEF Init, EventsMatchFunds
  <2> QED BY <2>4, <2>5 DEF FundsAccounted
<1>2. Ledger /\ TypeOK /\ FundsAccounted /\ [Next]_vars => FundsAccounted'
  BY NextFunds DEF TypeOK, RestType
<1> QED BY <1>1, <1>2, LedgerHolds, TypeCorrect, PTL DEF Spec
=============================================================================
