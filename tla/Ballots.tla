------------------------------- MODULE Ballots -------------------------------
(***************************************************************************)
(* The collection of votes of common/vote.go, for chains without a notary  *)
(* service.  A decision has an ID.  Its ballot holds the keys that voted   *)
(* for it, in order, and the height of the last vote; without a vote for   *)
(* BlockDiff blocks it lapses.                                             *)
(*                                                                         *)
(* The ballots are a set here, a slice in the code, whose order matters    *)
(* only where RemoveVotes finds no ballot.                                 *)
(***************************************************************************)
EXTENDS Integers, Sequences, Functions

CONSTANT BlockDiff

(* What is left of the ballots when somebody votes. *)
LiveMutant(bs, height) == bs
Live(bs, height) == {b \in bs : height - b.height <= BlockDiff}

Of(bs, id) == {b \in bs : b.id = id}

(* The voter is on the ballot already: the vote changes nothing, and lapsed *)
(* ballots stay as well.                                                   *)
RepeatedMutant(bs, id, from, height) == FALSE
Repeated(bs, id, from, height) ==
    \E b \in Of(Live(bs, height), id) : from \in Range(b.voters)

OnBallot(b, from, height) ==
    [id |-> b.id, voters |-> Append(b.voters, from), height |-> height]

(* The ballots after a vote. *)
Vote(bs, id, from, height) ==
    LET live == Live(bs, height)
        mine == Of(live, id)
        fresh == [id |-> id, voters |-> <<>>, height |-> height]
    IN  IF Repeated(bs, id, from, height) THEN bs
        ELSE (live \ mine) \cup
             {OnBallot(b, from, height) : b \in IF mine = {} THEN {fresh} ELSE mine}

(* The number of voters that Vote returns. *)
Count(bs, id, from, height) ==
    Len((CHOOSE b \in Of(Live(Vote(bs, id, from, height), height), id) : TRUE).voters)

(* The ballot of a decision goes, or the first one if there is none. *)
RemoveVotesMutant(bs, id) == bs \ {CHOOSE b \in bs : TRUE}
RemoveVotes(bs, id) ==
    bs \ {CHOOSE b \in bs : Of(bs, id) # {} => b \in Of(bs, id)}
=============================================================================
