-------------------------- MODULE NotaryDesignation --------------------------
(***************************************************************************)
(* How the committee gives itself the Notary role when the chain is        *)
(* deployed (deploy/notary.go, enableNotary).  A notary service, by which  *)
(* signatures are collected later on, does not exist yet, so the leader    *)
(* shares the data of the transaction in an NNS record, every other member *)
(* (signer) keeps its signature in a record of its own domain, and the     *)
(* leader collects what a multi-signature needs.                           *)
(*                                                                         *)
(* Members are the indices of the code, the leader is 0.  A turn is one    *)
(* call of tick; a member has one turn per new block at most.  What a turn *)
(* reads does not change while it runs, since it reads one chain state and *)
(* its own variables; monitors are reset by goroutines, asynchronously.    *)
(* Members make the same transaction from the same data, so a signature is *)
(* valid when it is of the data at hand.                                   *)
(***************************************************************************)
EXTENDS Integers, FiniteSets

CONSTANTS Committees,  \* settings: a size, the members that do not run the
                       \* procedure, those whose transaction comes out otherwise
          NoDomain, NoRecord, \* what a lookup finds where there is nothing
          NoTx,        \* no transaction made, nil
          Nonces,      \* bound: random numbers, the next one is one not in use
          Lifetime,    \* of shared data, in units of time (120 blocks)
          MaxTime,     \* bound, by size: units of time
          MaxSent,     \* bound: transactions of a member in flight
          MaxMishaps   \* bound, by size: transactions that are never accepted, calls to
                       \* the chain that fail, and restarts of members

ASSUME NotaryAssumption ==
    /\ Committees \subseteq (Nat \ {0}) \X (SUBSET Nat) \X (SUBSET Nat)
    /\ Nonces \subseteq Nat
    /\ Lifetime \in Nat /\ NoDomain # NoRecord
    /\ MaxSent \in Nat
    /\ \A c \in Committees : MaxMishaps[c[1]] \in Nat /\ MaxTime[c[1]] \in Nat

VARIABLES
    n,          \* len(committee)
    absent,     \* external: members that do not run the procedure
    faulty,     \* external: members whose transaction comes out otherwise
    shared,     \* NNS: record of domainDesignateNotaryTx
    signature,  \* NNS: records of the domains of the signers
    role,       \* do the members have the Notary role?
    pool,       \* external: transactions sent and not accepted yet
    time,       \* external: the height, in units
    leader,     \* variables that the leader keeps between ticks
    pending,    \* monitors of members that are pending
    awaited,    \* transactions in the pool that goroutines of monitors wait for
    due,        \* monitors of members that such a goroutine is about to reset
    woken,      \* members that have seen a block since their turn
    done,       \* members that have returned
    mishaps     \* losses, faults and restarts so far

setting == <<n, absent, faulty>>
chain == <<shared, signature, role, time>>
local == <<leader, pending, awaited, due>>
vars == <<setting, chain, pool, local, woken, done, mishaps>>

Members == 0..(n - 1)
Running == Members \ absent
Signers == 1..(n - 1)

(* smartcontract.GetMajorityHonestNodeCount, and less the leader's own. *)
Need == n - (n - 1) \div 2
NeedRemote == Need - 1

Data == [nonce : Nonces, until : Nat]
Tx == [kind : {"register"}, by : Nat, data : {NoTx}]
        \cup [kind : {"add", "set"}, by : Nat, data : Data]
        \cup [kind : {"designate"}, by : {0}, data : Data \cup {NoTx}]

Expired(d) == time > d.until

Registration(m) == [kind |-> "register", by |-> m, data |-> NoTx]
Recording(op, m, d) == [kind |-> op, by |-> m, data |-> d]
Designation(d) == [kind |-> "designate", by |-> 0, data |-> d]
Designations == {t \in pool : t.kind = "designate"}

NoSignatures == [i \in {} |-> NoTx]
FreshLeader == [tx |-> NoTx, sigs |-> NoSignatures, txFullySigned |-> FALSE,
                valid |-> FALSE, tried |-> FALSE]

(* Data with a new nonce. *)
InUse ==
    LET data == {t.data : t \in pool} \cup {shared, leader.tx}
                  \cup {signature[m] : m \in Signers}
                  \cup {leader.sigs[i] : i \in DOMAIN leader.sigs}
    IN  {d.nonce : d \in data \ {NoTx, NoDomain, NoRecord}}
NewData == [nonce |-> CHOOSE k \in Nonces \ InUse : TRUE, until |-> time + Lifetime]

-----------------------------------------------------------------------------
(* A member's turn. *)

Turn(m) ==
    /\ m \in (woken \cap Running) \ done
    /\ woken' = woken \ {m}
    /\ UNCHANGED <<setting, chain, due>>

Wait == UNCHANGED <<pool, pending, awaited, mishaps>>

Mishap(kind) ==
    /\ mishaps.losses + mishaps.faults + mishaps.restarts < MaxMishaps[n]
    /\ mishaps' = [mishaps EXCEPT ![kind] = @ + 1]
Fault == Mishap("faults")

(* Sends t and has monitor track it, its other monitors being as in ms, *)
(* unless sending fails.                                                *)
Submit(m, t, monitor, ms) ==
    \/ /\ Cardinality({u \in pool \ Designations : u.by = m}) < MaxSent
       /\ pool' = pool \cup {t} /\ awaited' = awaited \cup {t}
       /\ pending' = [pending EXCEPT ![m] = ms \cup {monitor}]
       /\ UNCHANGED mishaps
    \/ /\ Fault
       /\ pending' = [pending EXCEPT ![m] = ms]
       /\ UNCHANGED <<pool, awaited>>

RegisterDomain(m) ==
    IF "register" \in pending[m] THEN Wait
    ELSE Submit(m, Registration(m), "register", pending[m])

(* The role has been designated. *)
Return(m) ==
    /\ Turn(m) /\ role
    /\ done' = done \cup {m}
    /\ Wait /\ UNCHANGED leader

(* A lookup fails. *)
FailedTurn(m) ==
    /\ Turn(m) /\ Fault
    /\ UNCHANGED <<pool, leader, pending, awaited, done>>

(* A committee of one has a single monitor. *)
SoloTurn ==
    /\ n = 1 /\ Turn(0) /\ ~role
    /\ IF "designate" \in pending[0] THEN Wait
       ELSE Submit(0, Designation(NoTx), "designate", pending[0])
    /\ UNCHANGED <<leader, done>>

-----------------------------------------------------------------------------
(* The leader. *)

(* generateAndShareTxData: what was tried is not forgotten. *)
ShareMutant(op) ==
    /\ Nonces \ InUse # {}
    /\ leader' = FreshLeader
    /\ Submit(0, Recording(op, 0, NewData), "record", pending[0] \ {"record"})
Share(op) ==
    /\ Nonces \ InUse # {}
    /\ leader' = [FreshLeader EXCEPT !.tried = leader.tried]
    /\ Submit(0, Recording(op, 0, NewData), "record", pending[0] \ {"record"})

(* The transaction is made anew when the shared data is not that of the    *)
(* last one; collected signatures stay.                                    *)
Made(d) == IF leader.tx = d THEN leader ELSE [leader EXCEPT !.tx = d, !.valid = FALSE]

(* Signatures after the records of members from 0 to n - 2 were read, one  *)
(* after another until there are enough.  The leader has no record.        *)
Read(d) == {i \in 1..(n - 2) : signature[i] = d}
Collected(d) ==
    LET old == DOMAIN leader.sigs
        valid == Read(d) \ faulty
        read == {i \in valid : Cardinality(old \cup {j \in valid : j < i}) < NeedRemote}
    IN  [i \in old \cup read |-> IF i \in read THEN d ELSE leader.sigs[i]]

(* Signatures go into the transaction once, in the random order of a map,  *)
(* while the multi-signature wants that of the keys.                       *)
Finalized(l, sorted) ==
    IF l.txFullySigned THEN l
    ELSE [l EXCEPT !.txFullySigned = TRUE,
                   !.valid = sorted /\ \A i \in DOMAIN l.sigs : l.sigs[i] = l.tx]

SendDesignation(l) ==
    \/ /\ l.valid /\ Designation(l.tx) \notin pool
       /\ leader' = [l EXCEPT !.tried = TRUE]
       /\ pool' = pool \cup {Designation(l.tx)}
       /\ UNCHANGED <<pending, awaited, mishaps>>
    \/ /\ l.valid /\ Designation(l.tx) \in pool
       /\ leader' = l /\ Wait
    \/ ~l.valid /\ Share("set")
    \/ Fault /\ leader' = l /\ UNCHANGED <<pool, pending, awaited>>

(* More signatures are not valid than the multi-signature can spare, and   *)
(* so there are not enough of the others.                                  *)
TooManyInvalid(d) == /\ Cardinality(DOMAIN leader.sigs) < NeedRemote
                     /\ Cardinality(Read(d) \cap faulty) + Need > n

Designate(d) ==
    LET l == [Made(d) EXCEPT !.sigs = Collected(d)]
    IN  IF TooManyInvalid(d) THEN Share("set")
        ELSE IF Cardinality(DOMAIN l.sigs) < NeedRemote \/ "register" \in pending[0]
        THEN leader' = l /\ Wait
        ELSE IF l.tried THEN Share("set")
        ELSE \E sorted \in IF NeedRemote = 1 THEN {TRUE} ELSE BOOLEAN :
                SendDesignation(Finalized(l, sorted))

LeaderTurn ==
    /\ n > 1 /\ Turn(0) /\ ~role
    /\ CASE shared = NoDomain -> RegisterDomain(0) /\ UNCHANGED leader
         [] shared = NoRecord -> IF "record" \in pending[0] THEN Wait /\ UNCHANGED leader
                                 ELSE Share("add")
         [] OTHER -> IF Expired(shared) THEN Share("set") ELSE Designate(shared)
    /\ UNCHANGED done

-----------------------------------------------------------------------------
(* Signers. *)

SignMutant(m, d) ==
    CASE signature[m] = NoDomain -> RegisterDomain(m)
      [] signature[m] = NoRecord -> IF "record" \in pending[m] THEN Wait
                                    ELSE Submit(m, Recording("add", m, d), "record", pending[m])
      [] OTHER -> Wait
Sign(m, d) ==
    CASE signature[m] = NoDomain -> RegisterDomain(m)
      [] signature[m] = NoRecord -> IF "record" \in pending[m] THEN Wait
                                    ELSE Submit(m, Recording("add", m, d), "record", pending[m])
      [] signature[m] = d -> Wait
      [] OTHER -> Submit(m, Recording("set", m, d), "record", pending[m])

SignerTurn(m) ==
    /\ Turn(m) /\ ~role
    /\ IF shared \in {NoDomain, NoRecord} THEN Wait
       ELSE IF Expired(shared)
       THEN /\ pending' = [pending EXCEPT ![m] = @ \ {"record"}]
            /\ UNCHANGED <<pool, awaited, mishaps>>
       ELSE Sign(m, shared)
    /\ UNCHANGED <<leader, done>>

-----------------------------------------------------------------------------
(* The chain, and what happens to members. *)

(* AddRecord appends, and lookups return the first record. *)
Written(old, t) ==
    IF t.kind = "register" THEN IF old = NoDomain THEN NoRecord ELSE old
    ELSE IF t.kind = "set" \/ old = NoRecord THEN t.data ELSE old

Monitor(t) == IF t.kind \in {"add", "set"} THEN "record" ELSE t.kind

(* t leaves the pool; whoever waits for it will know. *)
Settle(t) ==
    /\ t \in pool
    /\ pool' = pool \ {t} /\ awaited' = awaited \ {t}
    /\ due' = IF t \in awaited THEN [due EXCEPT ![t.by] = @ \cup {Monitor(t)}] ELSE due
    /\ UNCHANGED <<setting, leader, pending, done>>

(* A block with t. *)
Accept(t) ==
    /\ Settle(t)
    /\ t.kind = "designate" /\ t.data # NoTx => ~Expired(t.data)
    /\ IF t.kind = "designate" THEN role' = TRUE /\ UNCHANGED <<shared, signature>>
       ELSE /\ shared' = IF t.by = 0 THEN Written(shared, t) ELSE shared
            /\ signature' = [m \in Signers |-> IF t.by = m THEN Written(signature[m], t)
                                                           ELSE signature[m]]
            /\ UNCHANGED role
    /\ woken' = Running
    /\ UNCHANGED <<time, mishaps>>

(* A block without transactions of the procedure. *)
Block == woken' = Running /\ UNCHANGED <<setting, chain, pool, local, done, mishaps>>

(* Many blocks later. *)
Age ==
    /\ time < MaxTime[n]
    /\ time' = time + 1
    /\ woken' = Running
    /\ UNCHANGED <<setting, shared, signature, role, pool, local, done, mishaps>>

Lose(t) ==
    /\ Settle(t)
    /\ IF t.kind = "designate" /\ t.data # NoTx THEN Expired(t.data) /\ UNCHANGED mishaps
       ELSE Mishap("losses")
    /\ UNCHANGED <<chain, woken>>

Notice(m) ==
    /\ due[m] # {}
    /\ \E monitor \in due[m] :
          /\ due' = [due EXCEPT ![m] = @ \ {monitor}]
          /\ pending' = [pending EXCEPT ![m] = @ \ {monitor}]
    /\ UNCHANGED <<setting, chain, pool, leader, awaited, woken, done, mishaps>>

Restart(m) ==
    /\ m \notin done
    /\ Mishap("restarts")
    /\ leader' = IF m = 0 THEN FreshLeader ELSE leader
    /\ pending' = [pending EXCEPT ![m] = {}] /\ due' = [due EXCEPT ![m] = {}]
    /\ awaited' = {t \in awaited : t.by # m}
    /\ woken' = woken \cup {m}
    /\ UNCHANGED <<setting, chain, pool, done>>

Init ==
    /\ \E c \in Committees : n = c[1] /\ absent = c[2] /\ faulty = c[3]
    /\ shared = NoDomain /\ signature = [m \in Signers |-> NoDomain] /\ role = FALSE
    /\ pool = {} /\ time = 0
    /\ leader = FreshLeader
    /\ pending = [m \in Members |-> {}] /\ awaited = {} /\ due = [m \in Members |-> {}]
    /\ woken = Running /\ done = {}
    /\ mishaps = [losses |-> 0, faults |-> 0, restarts |-> 0]

MemberTurn(m) ==
    \/ Return(m)
    \/ m = 0 /\ SoloTurn
    \/ m = 0 /\ LeaderTurn
    \/ m \in Signers /\ SignerTurn(m)

Next ==
    \/ \E m \in Running : MemberTurn(m) \/ FailedTurn(m) \/ Restart(m)
    \/ \E t \in pool : Accept(t) \/ Lose(t)
    \/ \E m \in Running : Notice(m)
    \/ Block \/ Age

(* Blocks keep coming, and a waiting member takes its turn (waitForNextBlock *)
(* and the loop of enableNotary); something of what was sent is accepted at *)
(* some time, and so is a designation; goroutines run.                     *)
Indices == UNION {0..(c[1] - 1) : c \in Committees}
Fairness ==
    /\ WF_vars(Block)
    /\ WF_vars(\E t \in Designations : Accept(t))
    /\ WF_vars(\E t \in pool \ Designations : Accept(t))
    /\ WF_vars(\E m \in Running : Notice(m))
    /\ \A m \in Indices : WF_vars(m \in Running /\ MemberTurn(m))

Spec == Init /\ [][Next]_vars /\ Fairness

-----------------------------------------------------------------------------
(* Properties. *)

(* Types; a goroutine waits only for what was really sent. *)
TypeOK ==
    /\ setting \in Committees
    /\ shared \in Data \cup {NoDomain, NoRecord}
    /\ signature \in [Signers -> Data \cup {NoDomain, NoRecord}]
    /\ role \in BOOLEAN /\ time \in Nat
    /\ pool \subseteq Tx /\ awaited \subseteq pool
    /\ \E S \in SUBSET Signers :
          leader \in [tx : Data \cup {NoTx}, sigs : [S -> Data], txFullySigned : BOOLEAN,
                      valid : BOOLEAN, tried : BOOLEAN]
    /\ {pending, due} \subseteq [Members -> SUBSET {"register", "record", "designate"}]
    /\ woken \subseteq Running /\ done \subseteq Running
    /\ mishaps \in [losses : Nat, faults : Nat, restarts : Nat]

(* A leader that is not restarted never has two designations on the way,   *)
(* though it makes new ones while the first is not accepted yet.           *)
OneDesignation == Cardinality(Designations) <= 1 + mishaps.restarts

(* The leader runs, and enough of those whose signatures it reads.         *)
Enough == /\ 0 \in Running
          /\ Cardinality((1..(n - 2)) \cap (Running \ faulty)) >= NeedRemote

(* The leader remembers that it sent a designation, and there is none that *)
(* could still be accepted.                                                *)
Stuck == /\ leader.tried /\ ~role
         /\ \A t \in Designations : t.data # NoTx /\ Expired(t.data)

(* "enableNotary makes Notary service ready-to-go for the committee        *)
(* members": everybody returns, with the role, if the leader and enough of *)
(* the members 1 to n - 2 run, unless a designation was sent and not       *)
(* accepted in its lifetime.  (Two remote signatures and more also have to *)
(* come out of a map in the order of keys.)  Without enough members nobody *)
(* ever gets the role, and of a committee of two they are never enough.    *)
NotaryEnabled ==
    /\ Enough /\ NeedRemote <= 1 => (<>(role /\ done = Running) \/ <>[]Stuck)
    /\ ~Enough => []~role
=============================================================================
