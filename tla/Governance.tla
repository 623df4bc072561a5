------------------------------ MODULE Governance ------------------------------
(***************************************************************************)
(* How the committee governs the contracts of FS chain and is replaced     *)
(* itself: calls of Vote (Alphabet) and Put (Reputation) carry the multi-  *)
(* signature of the committee at the time they were sent, Proxy pays for   *)
(* them, and epochs, lists and committees change while they are on their   *)
(* way.  The nodes that send them are external.                            *)
(***************************************************************************)
EXTENDS Alphabet, Reputation

CONSTANTS Lists,         \* bound: lists of the Alphabet nodes-to-be
          MaxWork,       \* bound: values put, and a decision counts for two
          Fee,           \* GAS for a call
          MaxLost        \* bound: calls lost

ASSUME GovernanceAssumption ==
    /\ Lists \subseteq Seq(Keys) \ {<<>>}
    /\ MaxWork \in Nat /\ MaxLost \in Nat /\ Fee \in Nat

VARIABLES
    wanted,     \* external: the list decided upon last
    recent,     \* history variable: the lists in force in this epoch
    decisions,  \* how many so far
    calls,      \* calls that are sent and not accepted
    lost        \* how many so far

governanceVars == <<alphabetVars, reputationVars, wanted, recent, decisions, calls, lost>>

(* A call is signed "by" an account; one of Vote has a contract "to" vote   *)
(* by a list in an epoch, one of Put has an epoch, a peer and a value.     *)
IsVote(call) == "to" \in DOMAIN call

(* The nodes that make up the committee send a call when Proxy has the GAS  *)
(* for all that are on their way.                                          *)
Payable == proxyGas >= Fee * (Cardinality(calls) + 1)

(* What a value is put as stands for what it is. *)
NextValue == Len(trusted) + Cardinality({call \in calls : ~IsVote(call)}) + 1
Work == NextValue - 1 + 2 * decisions

Decide(list) ==
    /\ Work + 2 <= MaxWork /\ list # wanted
    /\ decisions' = decisions + 1
    /\ wanted' = list
    /\ recent' = recent \cup {list}
    /\ UNCHANGED <<alphabetVars, reputationVars, calls, lost>>

Satisfied == ToSet(wanted) \subseteq committee

SendVote(c) ==
    /\ ~Satisfied /\ Payable
    /\ calls' = calls \cup {[by |-> AlphabetAddress, to |-> c, epoch |-> epoch, list |-> wanted]}
    /\ UNCHANGED <<alphabetVars, reputationVars, wanted, recent, decisions, lost>>

SendPut(e, peer) ==
    /\ Work < MaxWork /\ Payable
    /\ calls' = calls \cup {[by |-> AlphabetAddress, epoch |-> e, peer |-> peer,
                             value |-> NextValue]}
    /\ UNCHANGED <<alphabetVars, reputationVars, wanted, recent, decisions, lost>>

(* A block accepts a call that Proxy pays for; one that panics changes      *)
(* nothing but is paid for.                                                *)
AcceptCall(call) ==
    /\ Verify(call.by)
    /\ calls' = calls \ {call}
    /\ proxyGas' = proxyGas - Fee
    /\ IF IsVote(call)
       THEN /\ IF Votable(call.by, call.epoch, call.list) THEN Vote(call.to, call.list)
               ELSE UNCHANGED votes
            /\ UNCHANGED reputationVars
       ELSE /\ IF call.by = AlphabetAddress THEN Put(call.epoch, call.peer, call.value)
               ELSE UNCHANGED reputationVars
            /\ UNCHANGED votes
    /\ UNCHANGED <<epoch, committee, registered, gas, wanted, recent, decisions, lost>>

(* A call of a committee that has been replaced is never accepted; another  *)
(* one may be lost.                                                        *)
Drop(call) ==
    /\ IF Verify(call.by) THEN lost < MaxLost /\ lost' = lost + 1 ELSE UNCHANGED lost
    /\ calls' = calls \ {call}
    /\ UNCHANGED <<alphabetVars, reputationVars, wanted, recent, decisions>>
Reject(call) == ~Verify(call.by) /\ Drop(call)

GovernanceInit ==
    /\ AlphabetInit /\ ReputationInit
    /\ wanted = Sorted(Standby) /\ recent = {wanted} /\ decisions = 0
    /\ calls = {} /\ lost = 0

rest == <<reputationVars, wanted, decisions, calls, lost>>

GovernanceNext ==
    \/ \E list \in Lists : Decide(list)
    \/ \E c \in Contracts :
          \/ SendVote(c)
          \/ \E key \in Keys, produced \in Produced :
                Emit(c, key, produced) /\ UNCHANGED <<rest, recent>>
    \/ \E e \in Epochs, peer \in Peers : SendPut(e, peer)
    \/ \E call \in calls : AcceptCall(call) \/ Drop(call)
    \/ Election /\ UNCHANGED <<rest, recent>>
    \/ \E k \in Keys : Register(k) /\ UNCHANGED <<rest, recent>>
    \/ Tick /\ recent' = {wanted} /\ UNCHANGED rest

(* The nodes send their votes to all contracts in every round, register as  *)
(* candidates and let their contracts emit; blocks take up what they can.  *)
GovernanceFairness ==
    /\ \A c \in Contracts :
          /\ SF_governanceVars(SendVote(c))
          /\ WF_governanceVars(\E call \in calls :
                IsVote(call) /\ call.to = c /\ (AcceptCall(call) \/ Reject(call)))
    /\ WF_governanceVars(\E call \in calls : ~IsVote(call) /\ (AcceptCall(call) \/ Reject(call)))
    /\ WF_governanceVars(\E c \in Contracts, key \in Keys, produced \in Produced :
                            Emit(c, key, produced) /\ UNCHANGED <<rest, recent>>)
    /\ WF_governanceVars(Election /\ UNCHANGED <<rest, recent>>)
    /\ \A k \in Keys : WF_governanceVars(Register(k) /\ UNCHANGED <<rest, recent>>)

GovernanceSpec == GovernanceInit /\ [][GovernanceNext]_governanceVars /\ GovernanceFairness

-----------------------------------------------------------------------------
(* The list that is decided upon in the end makes the committee, for good,  *)
(* whatever lists, epochs and committees came while votes were on their    *)
(* way, although each contract gives its votes to one candidate, knows     *)
(* only its own place, and an epoch or a committee that passes takes the   *)
(* calls with it.                                                          *)
TargetElected == <>[]Satisfied

(* No contract votes by a list that was replaced in an earlier epoch,       *)
(* however late a call comes and whatever committee sent it (alphabet.Vote, *)
(* which asks for the epoch of the caller).                                *)
VotesCurrent ==
    [][\A c \in Contracts : votes'[c] # votes[c] =>
          \E list \in recent : votes'[c] = VoteOf(c, list)]_governanceVars

(* All values put for a peer in an epoch, and no others, are found by Get,  *)
(* each once, in their order while they are fewer than a byte has values;  *)
(* and ListByEpoch names the ID they are found under.                      *)
PutFor(e, peer) == {i \in DOMAIN trusted : trusted[i].epoch = e /\ trusted[i].peer = peer}
Nth(i, S) == Cardinality({j \in S : j <= i})
ReputationKept ==
    \A e \in Epochs, peer \in Peers :
        LET put == PutFor(e, peer)
            got == Get(e, peer)
        IN  /\ Len(got) = Cardinality(put)
            /\ {got[i] : i \in DOMAIN got} = {trusted[i].value : i \in put}
            /\ Cardinality(put) < Base =>
                  \A i \in put : got[Nth(i, put)] = trusted[i].value
            /\ put # {} => StorageID(e, peer) \in ToSet(ListByEpoch(e))
=============================================================================
