------------------------------ MODULE Balance -------------------------------
(***************************************************************************)
(* The Balance contract (contracts/balance/contract.go): NeoFS accounts,   *)
(* the token supply, lock accounts that return to their parent, and the    *)
(* settlement of storage payments.                                         *)
(*                                                                         *)
(* One action is one transaction; a panic and a call that returns false    *)
(* change nothing and are disabled actions.  "signers" are the witnesses   *)
(* of the transaction, the calling contract included (isUsableAddress      *)
(* accepts both).                                                          *)
(*                                                                         *)
(* What settlement reads from the Netmap and Container contracts (epoch,   *)
(* rate, owner, load statistics, node states) is an input of the action,   *)
(* except the epoch, which the tick moves.                                 *)
(***************************************************************************)
EXTENDS Billing, Sequences, SequencesExt, Functions

CONSTANTS Accounts,        \* script hashes
          AccountOrder,    \* the accounts in storage key order
          Nobody,          \* the empty script hash
          Alphabet,        \* the Alphabet multi-signature account
          Containers,      \* container IDs
          GIGABYTE,        \* unit of the price
          Amounts,         \* bound: amounts of transfers
          Senders,         \* bound: accounts tokens are moved from
          Receivers,       \* bound: accounts tokens are moved to
          LockAccounts,    \* bound: "to" of lock
          Signers,         \* bound: witnesses of a transaction
          Rates,           \* bound: prices of a gigabyte
          Statistics,      \* bound: load statistics of a container
          MaxSupply,       \* bound: tokens created
          MaxEpoch,        \* bound: highest epoch
          MaxFailures      \* bound: failed settlements of one epoch

Account == [balance : Nat, until : Nat, parent : Accounts \cup {Nobody}]

(* EpochBillingStat of the container contract, with the two facts that     *)
(* settlement asks about its node: whether a report with a public key is   *)
(* stored, and whether the node was online in the paid epoch.              *)
BillingStat == [account : Accounts, stat : EpochBillingStat,
                reported : BOOLEAN, online : BOOLEAN]

ASSUME BalanceAssumption ==
    /\ Nobody \notin Accounts
    /\ GIGABYTE \in Nat \ {0}
    /\ Rates \subseteq Nat
    /\ Amounts \subseteq Int
    /\ MaxEpoch \in Nat
    /\ Senders \cup Receivers \cup LockAccounts \subseteq Accounts
    /\ AccountOrder \in Seq(Accounts) /\ Range(AccountOrder) = Accounts
    /\ Statistics \subseteq Seq(BillingStat)

VARIABLES
    accounts,   \* 'a': account -> Account, a partial function
    supply,     \* 'MainnetGAS'
    unpaid,     \* 'd': container -> epoch, a partial function
    paid,       \* 'e': container -> epoch, a partial function
    epoch,      \* current epoch of the Netmap contract
    lost,       \* history variable: tokens that lock() has overwritten
    received,   \* history variable: payments each account got for a
                \* container in the current epoch
    failures    \* history variable: failed settlements of a container in
                \* the current epoch

ledger == <<accounts, supply, lost>>
marks == <<unpaid, paid, received, failures>>
vars == <<ledger, marks, epoch>>

-----------------------------------------------------------------------------
NoAccount == [balance |-> 0, until |-> 0, parent |-> Nobody]

(* getAccount of a storage s. *)
GetAccount(s, a) == IF a \in DOMAIN s THEN s[a] ELSE NoAccount
BalanceOf(a) == GetAccount(accounts, a).balance

Put(f, k, v) == [x \in DOMAIN f \cup {k} |-> IF x = k THEN v ELSE f[x]]
Without(f, k) == [x \in DOMAIN f \ {k} |-> f[x]]

(* Token.transfer, after canTransfer: the sender is read before the        *)
(* receiver is written, the receiver after the sender is written.  A       *)
(* sender that gives everything away is deleted with its lock, if any.     *)
Debited(s, from, amount) ==
    LET acc == GetAccount(s, from) IN
    IF from = Nobody THEN s
    ELSE IF acc.balance = amount THEN Without(s, from)
    ELSE Put(s, from, [acc EXCEPT !.balance = @ - amount])
Credited(s, to, amount) ==
    IF to = Nobody THEN s
    ELSE LET acc == GetAccount(s, to)
         IN  Put(s, to, [acc EXCEPT !.balance = @ + amount])
(* Mutant: the receiver is read before the sender is written. *)
MovedMutant(s, from, to, amount) ==
    IF to = Nobody THEN Debited(s, from, amount)
    ELSE LET acc == GetAccount(s, to)
         IN  Put(Debited(s, from, amount), to, [acc EXCEPT !.balance = @ + amount])
Moved(s, from, to, amount) == Credited(Debited(s, from, amount), to, amount)

(* Token.canTransfer with innerRing = true.  The mutant forgets to compare *)
(* the amounts.                                                            *)
CanMoveMutant(s, from, amount) == from = Nobody \/ from \in DOMAIN s
CanMove(s, from, amount) ==
    from = Nobody \/ GetAccount(s, from).balance >= amount

(* All tokens held in a storage. *)
Held(s) == [a \in DOMAIN s |-> s[a].balance]
Total(s) == SumFunction(Held(s))

-----------------------------------------------------------------------------
Init ==
    /\ accounts = [a \in {} |-> NoAccount]
    /\ supply = 0
    /\ unpaid = [c \in {} |-> 0]
    /\ paid = [c \in {} |-> 0]
    /\ epoch = 0
    /\ lost = 0
    /\ received = [c \in Containers |-> [a \in Accounts |-> 0]]
    /\ failures = [c \in Containers |-> 0]

(* The owner, or a contract that owns the account, moves its own tokens. *)
Transfer(signers, from, to, amount) ==
    /\ amount >= 0
    /\ to # Nobody
    /\ from # Nobody /\ from \in signers
    /\ GetAccount(accounts, from).balance >= amount
    /\ accounts' = Moved(accounts, from, to, amount)
    /\ UNCHANGED <<supply, lost, epoch, marks>>

(* The Alphabet moves any tokens.  (An empty script hash as "from" or "to" *)
(* would create or destroy tokens; no caller passes one, and none is       *)
(* enumerated.)                                                            *)
TransferX(signers, from, to, amount) ==
    /\ Alphabet \in signers
    /\ amount >= 0
    /\ CanMove(accounts, from, amount)
    /\ accounts' = Moved(accounts, from, to, amount)
    /\ UNCHANGED <<supply, lost, epoch, marks>>

(* A lock account is written before the transfer that fills it, over       *)
(* whatever account had its address.                                       *)
LockAccount(until, from) == [balance |-> 0, until |-> until, parent |-> from]
Lock(signers, from, to, amount, until) ==
    LET opened == Put(accounts, to, LockAccount(until, from)) IN
    /\ Alphabet \in signers
    /\ amount >= 0
    /\ CanMove(opened, from, amount)
    /\ accounts' = Moved(opened, from, to, amount)
    /\ lost' = lost + BalanceOf(to)
    /\ UNCHANGED <<supply, epoch, marks>>

Mint(signers, to, amount) ==
    /\ Alphabet \in signers
    /\ amount >= 0
    /\ supply + amount <= MaxSupply
    /\ accounts' = Moved(accounts, Nobody, to, amount)
    /\ supply' = supply + amount
    /\ UNCHANGED <<lost, epoch, marks>>

Burn(signers, from, amount) ==
    /\ Alphabet \in signers
    /\ amount >= 0
    /\ CanMove(accounts, from, amount)
    /\ supply >= amount
    /\ accounts' = Moved(accounts, from, Nobody, amount)
    /\ supply' = supply - amount
    /\ UNCHANGED <<lost, epoch, marks>>

(* One round of the loop of NewEpoch: the account is read when its turn    *)
(* comes, after the earlier rounds.                                        *)
Expired(acc, n) == acc.until # 0 /\ n >= acc.until
(* Mutant: a lock is released one epoch late. *)
ReleaseMutant(s, a, n) ==
    LET acc == GetAccount(s, a) IN
    IF Expired(acc, n - 1) THEN Moved(s, a, acc.parent, acc.balance) ELSE s
Release(s, a, n) ==
    LET acc == GetAccount(s, a) IN
    IF Expired(acc, n) THEN Moved(s, a, acc.parent, acc.balance) ELSE s

(* The keys are those found before the first round. *)
Released(s, n) ==
    FoldLeft(LAMBDA t, a : IF a \in DOMAIN s THEN Release(t, a, n) ELSE t,
             s, AccountOrder)

(* The tick of the Netmap contract, which calls this one. *)
NewEpoch(signers, n) ==
    /\ Alphabet \in signers
    /\ n > epoch /\ n <= MaxEpoch
    /\ epoch' = n
    /\ accounts' = Released(accounts, n)
    /\ received' = [c \in Containers |-> [a \in Accounts |-> 0]]
    /\ failures' = [c \in Containers |-> 0]
    /\ UNCHANGED <<supply, lost, unpaid, paid>>
-----------------------------------------------------------------------------
(* Settlement of a container for the epoch before the current one. *)

(* Mutant: the current epoch is paid. *)
PaymentEpochMutant == epoch
PaymentEpoch == epoch - 1

(* Mutant: paid for the same epoch again. *)
AlreadyPaidMutant(cid) == cid \in DOMAIN paid /\ paid[cid] > PaymentEpoch
AlreadyPaid(cid) == cid \in DOMAIN paid /\ paid[cid] >= PaymentEpoch

(* The nodes that are paid: with load, a stored report, and online then. *)
Billable(r) == BilledSize(r.stat, epoch) # 0 /\ r.reported /\ r.online

(* At least one token, but for a negative load. *)
Price(rate, size) == LET p == Quotient(rate * size, GIGABYTE)
                     IN  IF p = 0 THEN 1 ELSE p

(* The loop over the statistics: it stops at the first payment that the    *)
(* owner cannot make, and what was paid before stays paid.  A negative     *)
(* payment panics.                                                         *)
Charge(t, owner, rate, r) ==
    LET price == Price(rate, BilledSize(r.stat, epoch)) IN
    IF t.outcome # "ok" \/ ~Billable(r) THEN t
    ELSE IF price < 0 THEN [t EXCEPT !.outcome = "panic"]
    ELSE IF CanMove(t.accounts, owner, price)
         THEN [accounts |-> Moved(t.accounts, owner, r.account, price),
               outcome |-> "ok", payees |-> t.payees \cup {r.account}]
    ELSE [t EXCEPT !.outcome = "short"]

Settlement(owner, rate, stats) ==
    FoldLeft(LAMBDA t, r : Charge(t, owner, rate, r),
             [accounts |-> accounts, outcome |-> "ok", payees |-> {}], stats)

SettleContainerPayment(signers, cid, owner, rate, stats) ==
    LET result == Settlement(owner, rate, stats) IN
    /\ Alphabet \in signers
    /\ rate # 0 /\ PaymentEpoch >= 0
    /\ ~AlreadyPaid(cid)
    /\ accounts' = result.accounts
    /\ received' = [received EXCEPT ![cid] =
                      [a \in Accounts |-> IF a \in result.payees THEN @[a] + 1
                                          ELSE @[a]]]
    /\ \/ /\ result.outcome = "ok"
          /\ unpaid' = Without(unpaid, cid)
          /\ paid' = Put(paid, cid, PaymentEpoch)
          /\ UNCHANGED failures
       \/ /\ result.outcome = "short"
          /\ failures[cid] < MaxFailures
          /\ unpaid' = IF cid \in DOMAIN unpaid THEN unpaid
                       ELSE Put(unpaid, cid, PaymentEpoch)
          /\ failures' = [failures EXCEPT ![cid] = @ + 1]
          /\ UNCHANGED paid
    /\ UNCHANGED <<supply, lost, epoch>>

GetUnpaidContainerEpoch(cid) ==
    IF cid \in DOMAIN unpaid THEN unpaid[cid] ELSE -1

Next ==
    \E signers \in Signers :
        \/ \E from \in Senders, amount \in Amounts :
              \/ \E to \in Receivers : \/ Transfer(signers, from, to, amount)
                                       \/ TransferX(signers, from, to, amount)
              \/ \E to \in LockAccounts, until \in 0..MaxEpoch :
                    Lock(signers, from, to, amount, until)
              \/ Burn(signers, from, amount)
        \/ \E to \in Receivers, amount \in Amounts : Mint(signers, to, amount)
        \/ \E n \in 1..MaxEpoch : NewEpoch(signers, n)
        \/ \E cid \in Containers, owner \in Senders, rate \in Rates,
              stats \in Statistics :
              SettleContainerPayment(signers, cid, owner, rate, stats)

Spec == Init /\ [][Next]_vars

-----------------------------------------------------------------------------
(* Properties. *)

TypeOK ==
    /\ DOMAIN accounts \subseteq Accounts
    /\ accounts \in [DOMAIN accounts -> Account]
    /\ supply \in Nat
    /\ DOMAIN unpaid \subseteq Containers /\ unpaid \in [DOMAIN unpaid -> Nat]
    /\ DOMAIN paid \subseteq Containers /\ paid \in [DOMAIN paid -> Nat]
    /\ epoch \in Nat
    /\ lost \in Nat
    /\ received \in [Containers -> [Accounts -> Nat]]
    /\ failures \in [Containers -> Nat]

(* Nobody owes, and every token of the supply is in an account, or was     *)
(* overwritten by a lock on an account in use: transfers to oneself,       *)
(* nested locks that expire together and half-made settlements create and  *)
(* destroy nothing.                                                        *)
SupplyBacked == TypeOK /\ Total(accounts) + lost = supply

(* After a tick no lock account is overdue, whatever the key order in      *)
(* which locks and their parents are visited, the tokens of those that     *)
(* were are with their parents, and everyone else keeps what he had; the   *)
(* balances are stated for ticks at which no expired lock has an expired   *)
(* lock as its parent (NewEpoch).                                          *)
Due(n) == {a \in DOMAIN accounts : Expired(accounts[a], n)}
DueTo(a, n) == {l \in Due(n) : accounts[l].parent = a}
AfterTick(a, n) ==
    IF a \in Due(n) THEN 0
    ELSE BalanceOf(a) + SumFunctionOnSet(Held(accounts), DueTo(a, n))
TickPaysParents ==
    [][epoch' # epoch =>
          /\ \A a \in DOMAIN accounts' : ~Expired(accounts'[a], epoch')
          /\ (\A l \in Due(epoch') : accounts[l].parent \notin Due(epoch'))
             => \A a \in Accounts : BalanceOf(a)' = AfterTick(a, epoch')]_vars

(* A container that is marked unpaid was last paid for an earlier epoch    *)
(* than the one it is unpaid from, and no container is paid or marked for  *)
(* an epoch that is not over, in any order of failed, repeated and skipped *)
(* settlements.                                                            *)
MarksOrdered ==
    /\ \A c \in DOMAIN unpaid : unpaid[c] < epoch
    /\ \A c \in DOMAIN paid : paid[c] < epoch
    /\ \A c \in DOMAIN paid \cap DOMAIN unpaid : paid[c] < unpaid[c]

(* A node is paid for a container once per epoch, plus once for each       *)
(* settlement of that epoch that failed half way; once the container is    *)
(* paid it is not charged again.                                           *)
PaidOncePerAttempt ==
    \A c \in Containers, a \in Accounts :
        received[c][a] <= failures[c] +
            (IF c \in DOMAIN paid /\ paid[c] = PaymentEpoch THEN 1 ELSE 0)
=============================================================================
