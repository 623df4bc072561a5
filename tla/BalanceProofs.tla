---------------------------- MODULE BalanceProofs ---------------------------
(***************************************************************************)
(* Proofs about Balance, and about the chain on which it settles what      *)
(* Netmap and Container tell it.  The first part is about Balance alone,   *)
(* for every set of accounts and containers, every key order, every        *)
(* statistics and every price; it cites nothing of Chain.                  *)
(*                                                                         *)
(* First the tokens.  Each write of a storage moves the sum of its         *)
(* balances by what the old and the new value differ in, so a transfer     *)
(* keeps it; the loops of the tick and of the settlement keep it by        *)
(* induction over the positions they have visited.  The invariant needs    *)
(* that every lock has an account to return to.  What a tick leaves of the *)
(* locks is the same induction with a stronger claim.                      *)
(*                                                                         *)
(* Then the payment marks.  They depend on the verdict of the settlement   *)
(* loop only, and the argument is the guard on the last paid epoch.        *)
(*                                                                         *)
(* Last the chain.  Its steps are steps of Netmap, Container and Balance,  *)
(* so the invariants of the three hold; what joins them is that the load   *)
(* which statistics will be billed for is the one owed to the node when    *)
(* the epoch ended, for as long as it stays a member.                      *)
(***************************************************************************)
EXTENDS Chain, Sums

Storage ==
    {s \in UNION {[D -> Account] : D \in SUBSET Accounts} :
        /\ IsFiniteSet(DOMAIN s)
        /\ \A a \in DOMAIN s : s[a].until # 0 => s[a].parent \in Accounts}

LEMMA StorageFacts ==
    ASSUME NEW s
    PROVE  s \in Storage <=>
             /\ DOMAIN s \subseteq Accounts
             /\ s \in [DOMAIN s -> Account]
             /\ IsFiniteSet(DOMAIN s)
             /\ \A a \in DOMAIN s : s[a].until # 0 => s[a].parent \in Accounts
BY DEF Storage

LEMMA AccountRead ==
    ASSUME NEW s \in Storage, NEW a
    PROVE  /\ GetAccount(s, a) \in Account
           /\ GetAccount(s, a).until # 0 => GetAccount(s, a).parent \in Accounts
BY StorageFacts DEF GetAccount, NoAccount, Account

LEMMA PutStorage ==
    ASSUME NEW s \in Storage, NEW k \in Accounts, NEW v \in Account,
           v.until # 0 => v.parent \in Accounts
    PROVE  Put(s, k, v) \in Storage
<1>1. /\ DOMAIN Put(s, k, v) = DOMAIN s \cup {k}
      /\ \A x \in DOMAIN s \cup {k} : Put(s, k, v)[x] = IF x = k THEN v ELSE s[x]
  BY DEF Put
<1>2. IsFiniteSet(DOMAIN s \cup {k})
  BY StorageFacts, FS_AddElement
<1>3. Put(s, k, v) \in [DOMAIN s \cup {k} -> Account]
  BY StorageFacts DEF Put
<1> QED BY <1>1, <1>2, <1>3, StorageFacts

LEMMA WithoutStorage ==
    ASSUME NEW s \in Storage, NEW k PROVE Without(s, k) \in Storage
<1>1. /\ DOMAIN Without(s, k) = DOMAIN s \ {k}
      /\ \A x \in DOMAIN s \ {k} : Without(s, k)[x] = s[x]
  BY DEF Without
<1>2. IsFiniteSet(DOMAIN s \ {k})
  BY StorageFacts, FS_RemoveElement
<1>3. Without(s, k) \in [DOMAIN s \ {k} -> Account]
  BY StorageFacts DEF Without
<1> QED BY <1>1, <1>2, <1>3, StorageFacts

LEMMA TotalIs ==
    ASSUME NEW s \in Storage
    PROVE  /\ Total(s) = SumFunctionOnSet(Held(s), DOMAIN s)
           /\ IsFiniteSet(DOMAIN s) /\ DOMAIN Held(s) = DOMAIN s
           /\ \A a \in DOMAIN s : Held(s)[a] \in Nat /\ Held(s)[a] = s[a].balance
           /\ Total(s) \in Nat
<1>1. Total(s) = SumFunctionOnSet(Held(s), DOMAIN s)
  BY DEF Total, Held, SumFunction
<1>2. IsFiniteSet(DOMAIN s) /\ DOMAIN Held(s) = DOMAIN s
  BY StorageFacts DEF Held
<1>3. \A a \in DOMAIN s : Held(s)[a] \in Nat /\ Held(s)[a] = s[a].balance
  BY StorageFacts DEF Held, Account
<1>4. SumFunctionOnSet(Held(s), DOMAIN s) \in Nat
  BY <1>2, <1>3, SumNat
<1> QED BY <1>1, <1>2, <1>3, <1>4

LEMMA WithoutTotal ==
    ASSUME NEW s \in Storage, NEW k
    PROVE  Total(Without(s, k)) = Total(s) - GetAccount(s, k).balance
<1> DEFINE t == Without(s, k)
<1>1. t \in Storage /\ DOMAIN t = DOMAIN s \ {k} /\ \A x \in DOMAIN t : t[x] = s[x]
  BY WithoutStorage DEF Without
<1>2. CASE k \notin DOMAIN s
  <2>1. t = s
    BY <1>2, StorageFacts DEF Without
  <2> QED BY <2>1, <1>2, TotalIs DEF GetAccount, NoAccount
<1>3. CASE k \in DOMAIN s
  <2>1. Total(t) = SumFunctionOnSet(Held(t), DOMAIN s \ {k})
    BY <1>1, TotalIs
  <2>2. /\ IsFiniteSet(DOMAIN s \ {k})
        /\ \A x \in DOMAIN s \ {k} : Held(t)[x] \in Int /\ Held(s)[x] = Held(t)[x]
    <3>1. \A x \in DOMAIN t : Held(t)[x] \in Int /\ Held(t)[x] = t[x].balance
      BY <1>1, TotalIs
    <3>2. \A x \in DOMAIN s : Held(s)[x] = s[x].balance
      BY TotalIs
    <3>3. IsFiniteSet(DOMAIN t)
      BY <1>1, TotalIs
    <3> QED BY <1>1, <3>1, <3>2, <3>3
  <2>3. SumFunctionOnSet(Held(s), DOMAIN s \ {k})
          = SumFunctionOnSet(Held(t), DOMAIN s \ {k})
    BY <2>2, SumAgree
  <2>4. Total(s) = Held(s)[k] + SumFunctionOnSet(Held(s), DOMAIN s \ {k})
    <3>1. IsFiniteSet(DOMAIN s) /\ \A x \in DOMAIN s : Held(s)[x] \in Int
      BY TotalIs
    <3>2. SumFunctionOnSet(Held(s), DOMAIN s)
            = Held(s)[k] + SumFunctionOnSet(Held(s), DOMAIN s \ {k})
      BY <1>3, <3>1, SumRemove
    <3> QED BY <3>2, TotalIs
  <2>5. Held(s)[k] = GetAccount(s, k).balance /\ Held(s)[k] \in Int
    BY <1>3, TotalIs DEF GetAccount
  <2>6. Total(t) \in Int /\ Total(s) \in Int
    BY <1>1, TotalIs
  <2> QED BY <2>1, <2>3, <2>4, <2>5, <2>6
<1> QED BY <1>2, <1>3

LEMMA PutTotal ==
    ASSUME NEW s \in Storage, NEW k \in Accounts, NEW v \in Account,
           v.until # 0 => v.parent \in Accounts
    PROVE  Total(Put(s, k, v)) = Total(s) - GetAccount(s, k).balance + v.balance
<1> DEFINE t == Put(s, k, v)
<1>1. /\ t \in Storage /\ k \in DOMAIN t
      /\ GetAccount(t, k) = v /\ Without(t, k) = Without(s, k)
  <2>1. t \in Storage
    BY PutStorage
  <2>2. k \in DOMAIN t /\ GetAccount(t, k) = v
    BY DEF Put, GetAccount
  <2>3. Without(t, k) = Without(s, k)
    BY DEF Put, Without
  <2> QED BY <2>1, <2>2, <2>3
<1>2. Total(Without(s, k)) = Total(t) - v.balance
  BY <1>1, WithoutTotal
<1>3. Total(Without(s, k)) = Total(s) - GetAccount(s, k).balance
  BY WithoutTotal
<1>4. /\ Total(t) \in Int /\ Total(s) \in Int
      /\ v.balance \in Int /\ GetAccount(s, k).balance \in Int
  BY <1>1, TotalIs, AccountRead DEF Account
<1> QED BY <1>2, <1>3, <1>4

LEMMA DebitedTotal ==
    ASSUME NEW s \in Storage, NEW from \in Accounts, NEW amount \in Nat,
           amount <= GetAccount(s, from).balance
    PROVE  Debited(s, from, amount) \in Storage
           /\ Total(Debited(s, from, amount)) = Total(s) - amount
<1> DEFINE acc == GetAccount(s, from)
           new == [acc EXCEPT !.balance = @ - amount]
<1>1. acc \in Account /\ acc.balance \in Nat /\ (acc.until # 0 => acc.parent \in Accounts)
  BY AccountRead DEF Account
<1>2. from # Nobody
  BY BalanceAssumption
<1>3. CASE acc.balance = amount
  BY <1>2, <1>3, WithoutTotal, WithoutStorage DEF Debited
<1>4. CASE acc.balance # amount
  <2>1. /\ new \in Account /\ new.balance = acc.balance - amount
        /\ new.until # 0 => new.parent \in Accounts
    BY <1>1 DEF Account
  <2>2. Debited(s, from, amount) = Put(s, from, new)
    BY <1>2, <1>4 DEF Debited
  <2>3. Total(s) \in Nat
    BY TotalIs
  <2> HIDE DEF new
  <2>4. /\ Put(s, from, new) \in Storage
        /\ Total(Put(s, from, new)) = Total(s) - acc.balance + new.balance
    BY <2>1, PutTotal, PutStorage
  <2> HIDE DEF acc
  <2> QED BY <2>1, <2>2, <2>3, <2>4, <1>1
<1> QED BY <1>3, <1>4

LEMMA CreditedTotal ==
    ASSUME NEW s \in Storage, NEW to \in Accounts, NEW amount \in Nat
    PROVE  Credited(s, to, amount) \in Storage
           /\ Total(Credited(s, to, amount)) = Total(s) + amount
<1> DEFINE acc == GetAccount(s, to)
           new == [acc EXCEPT !.balance = @ + amount]
<1>1. acc \in Account /\ acc.balance \in Nat /\ (acc.until # 0 => acc.parent \in Accounts)
  BY AccountRead DEF Account
<1>2. /\ new \in Account /\ new.balance = acc.balance + amount
      /\ new.until # 0 => new.parent \in Accounts
  BY <1>1 DEF Account
<1>3. Credited(s, to, amount) = Put(s, to, new)
  BY BalanceAssumption DEF Credited
<1>4. Total(s) \in Nat
  BY TotalIs
<1> HIDE DEF new
<1>5. /\ Put(s, to, new) \in Storage
      /\ Total(Put(s, to, new)) = Total(s) - acc.balance + new.balance
  BY <1>2, PutTotal, PutStorage
<1> HIDE DEF acc
<1> QED BY <1>1, <1>2, <1>3, <1>4, <1>5

(* A transfer keeps the tokens, a transfer to oneself as well.             *)
LEMMA MovedTotal ==
    ASSUME NEW s \in Storage, NEW from \in Accounts, NEW to \in Accounts,
           NEW amount \in Nat, amount <= GetAccount(s, from).balance
    PROVE  Moved(s, from, to, amount) \in Storage
           /\ Total(Moved(s, from, to, amount)) = Total(s)
<1> DEFINE d == Debited(s, from, amount)
<1>1. d \in Storage /\ Total(d) = Total(s) - amount
  BY DebitedTotal
<1>2. Total(s) \in Nat
  BY TotalIs
<1> HIDE DEF d
<1>3. Credited(d, to, amount) \in Storage /\ Total(Credited(d, to, amount)) = Total(d) + amount
  BY <1>1, CreditedTotal
<1> QED BY <1>1, <1>2, <1>3 DEF Moved, d

-----------------------------------------------------------------------------
(* The round of NewEpoch for an account a; s is the storage before the     *)
(* first round, t the one when the round begins.                           *)
Visit(s, t, a, n) == IF a \in DOMAIN s THEN Release(t, a, n) ELSE t

LEMMA VisitKeeps ==
    ASSUME NEW s, NEW t \in Storage, NEW a, NEW n \in Nat
    PROVE  Visit(s, t, a, n) \in Storage /\ Total(Visit(s, t, a, n)) = Total(t)
<1> DEFINE acc == GetAccount(t, a)
<1>1. CASE Expired(acc, n) /\ a \in DOMAIN s
  <2>1. acc.until # 0
    BY <1>1 DEF Expired
  <2>2. a \in DOMAIN t /\ acc \in Account /\ acc.parent \in Accounts
    BY <2>1, AccountRead DEF GetAccount, NoAccount
  <2>3. a \in Accounts /\ acc.balance \in Nat /\ acc.balance <= acc.balance
    BY <2>2, StorageFacts DEF Account
  <2>4. /\ Moved(t, a, acc.parent, acc.balance) \in Storage
        /\ Total(Moved(t, a, acc.parent, acc.balance)) = Total(t)
    BY <2>2, <2>3, MovedTotal
  <2> QED BY <2>4, <1>1 DEF Visit, Release
<1>2. CASE ~(Expired(acc, n) /\ a \in DOMAIN s)
  BY <1>2 DEF Visit, Release
<1> QED BY <1>1, <1>2

Rounds == DOMAIN AccountOrder

(* f[T] is the storage after the rounds of T. *)
Runs(f, s, n) ==
    /\ f \in [SUBSET Rounds -> Storage]
    /\ \A T \in SUBSET Rounds :
          f[T] = IF T = {} THEN s
                 ELSE Visit(s, f[T \ {Max(T)}], AccountOrder[Max(T)], n)

LEMMA RoundsFinite ==
    /\ IsFiniteSet(Rounds)
    /\ \A T \in SUBSET Rounds : T # {} => Max(T) \in T /\ \A i \in T : i <= Max(T)
    /\ Rounds \subseteq Nat
<1>1. Len(AccountOrder) \in Nat /\ Rounds = 1..Len(AccountOrder)
  BY BalanceAssumption DEF Rounds
<1>2. IsFiniteSet(Rounds)
  BY <1>1, FS_Interval
<1> QED BY <1>1, <1>2, MaxIn

LEMMA ReleasedRuns ==
    ASSUME NEW s \in Storage, NEW n \in Nat
    PROVE  \E f : Runs(f, s, n) /\ Released(s, n) = f[Rounds]
<1> DEFINE pick == [T \in SUBSET Rounds |-> Max(T)]
           F == [p \in Storage \X Rounds |-> Visit(s, p[1], AccountOrder[p[2]], n)]
           Body(f) == [T \in SUBSET Rounds |-> IF T = {} THEN s
                 ELSE Visit(s, f[T \ {Max(T)}], AccountOrder[Max(T)], n)]
           iter == CHOOSE f : f = Body(f)
<1>0. IsFiniteSet(Rounds)
  BY RoundsFinite
<1>1. Released(s, n) = iter[Rounds]
  BY DEF Released, FoldLeft, MapThenFoldSet, Visit, Rounds
<1>2. F \in [Storage \X Rounds -> Storage]
  BY VisitKeeps
<1>3. PICK g \in [SUBSET Rounds -> Storage] : FoldsUp(g, s, F, pick, Rounds)
  <2>1. \A T \in SUBSET Rounds : T # {} => pick[T] \in T
    BY RoundsFinite
  <2> HIDE DEF pick, F, Body, iter
  <2> QED BY <1>2, <2>1, RoundsFinite, FoldExists
<1>4. g = Body(g)
  <2>1. ASSUME NEW T \in SUBSET Rounds, T # {}
        PROVE  g[T] = Visit(s, g[T \ {Max(T)}], AccountOrder[Max(T)], n)
    <3>1. Max(T) \in Rounds /\ T \ {Max(T)} \in SUBSET Rounds /\ pick[T] = Max(T)
      BY <2>1, RoundsFinite
    <3>2. g[T] = F[<<g[T \ {Max(T)}], Max(T)>>]
      BY <1>3, <2>1, <3>1 DEF FoldsUp
    <3>3. <<g[T \ {Max(T)}], Max(T)>> \in Storage \X Rounds
      BY <3>1
    <3> HIDE DEF pick
    <3> QED BY <3>2, <3>3
  <2>2. g[{}] = s
    BY <1>3 DEF FoldsUp
  <2> HIDE DEF pick, F
  <2> QED BY <2>1, <2>2
<1>5. iter = Body(iter)
  BY <1>4
<1> HIDE DEF iter, pick, F
<1>6. /\ iter[{}] = s
      /\ \A T \in SUBSET Rounds : T # {} =>
            iter[T] = Visit(s, iter[T \ {Max(T)}], AccountOrder[Max(T)], n)
      /\ \A T \in SUBSET Rounds : iter[T] = Body(iter)[T]
      /\ iter = [T \in SUBSET Rounds |-> iter[T]]
  BY <1>5
<1>7. SUBSET Rounds = {T \in SUBSET Rounds : iter[T] \in Storage}
  <2> DEFINE Good == {T \in SUBSET Rounds : iter[T] \in Storage}
  <2>1. Good \in SUBSET (SUBSET Rounds)
    OBVIOUS
  <2>2. ASSUME NEW T \in SUBSET Rounds, \A x \in T : T \ {x} \in Good
        PROVE  T \in Good
    <3>1. CASE T = {}
      BY <1>6, <3>1
    <3>2. CASE T # {}
      <4>1. iter[T \ {Max(T)}] \in Storage
        BY <2>2, <3>2, RoundsFinite
      <4>2. Visit(s, iter[T \ {Max(T)}], AccountOrder[Max(T)], n) \in Storage
        BY <4>1, VisitKeeps
      <4>3. iter[T] = Visit(s, iter[T \ {Max(T)}], AccountOrder[Max(T)], n)
        BY <3>2, <1>6
      <4> QED BY <4>2, <4>3
    <3> QED BY <3>1, <3>2
  <2> HIDE DEF Good
  <2>3. Good = SUBSET Rounds
    BY <2>1, <2>2, <1>0, SetInductive
  <2> QED BY <2>3 DEF Good
<1>8. iter \in [SUBSET Rounds -> Storage]
  BY <1>6, <1>7
<1> QED BY <1>1, <1>6, <1>8 DEF Runs

LEMMA ReleasedTotal ==
    ASSUME NEW s \in Storage, NEW n \in Nat
    PROVE  Released(s, n) \in Storage /\ Total(Released(s, n)) = Total(s)
<1>0. IsFiniteSet(Rounds)
  BY RoundsFinite
<1>1. PICK f : Runs(f, s, n) /\ Released(s, n) = f[Rounds]
  BY ReleasedRuns
<1> DEFINE Good == {T \in SUBSET Rounds : Total(f[T]) = Total(s)}
<1>2. Good \in SUBSET (SUBSET Rounds)
  OBVIOUS
<1>3. ASSUME NEW T \in SUBSET Rounds, \A x \in T : T \ {x} \in Good
      PROVE  T \in Good
  <2>1. CASE T = {}
    BY <1>1, <2>1 DEF Runs
  <2>2. CASE T # {}
    <3>1. f[T \ {Max(T)}] \in Storage /\ Total(f[T \ {Max(T)}]) = Total(s)
      BY <1>1, <1>3, <2>2, RoundsFinite DEF Runs
    <3> QED BY <1>1, <2>2, <3>1, VisitKeeps DEF Runs
  <2> QED BY <2>1, <2>2
<1> HIDE DEF Good
<1>4. Good = SUBSET Rounds
  BY <1>0, <1>2, <1>3, SetInductive
<1> QED BY <1>1, <1>4 DEF Good, Runs

-----------------------------------------------------------------------------
(* The payments of a settlement. *)

Progress == [accounts : Storage, outcome : {"ok", "short", "panic"},
             payees : SUBSET Accounts]

LEMMA PriceInt ==
    ASSUME NEW rate \in Nat, NEW size \in Int
    PROVE  Price(rate, size) \in Int
<1> DEFINE a == rate * size
<1>1. a \in Int
  OBVIOUS
<1> HIDE DEF a
<1>2. GIGABYTE \in Nat /\ GIGABYTE > 0
  BY BalanceAssumption
<1>3. a \div GIGABYTE \in Int /\ (-a) \div GIGABYTE \in Int
  BY <1>1, <1>2
<1>4. Quotient(a, GIGABYTE) \in Int
  BY <1>3 DEF Quotient
<1> QED BY <1>4 DEF Price, a

LEMMA ChargeKeeps ==
    ASSUME epoch \in Nat, NEW t \in Progress, NEW owner \in Accounts,
           NEW rate \in Nat, NEW r \in BillingStat
    PROVE  /\ Charge(t, owner, rate, r) \in Progress
           /\ Total(Charge(t, owner, rate, r).accounts) = Total(t.accounts)
<1> DEFINE size == BilledSize(r.stat, epoch)
           price == Price(rate, size)
<1>1. size \in Int
  BY DEF BilledSize, BillingStat, EpochBillingStat
<1> HIDE DEF size
<1>2. price \in Int
  BY <1>1, PriceInt
<1> HIDE DEF price
<1>3. CASE t.outcome = "ok" /\ Billable(r) /\ price >= 0 /\ CanMove(t.accounts, owner, price)
  <2>1. /\ owner # Nobody /\ r.account \in Accounts /\ price \in Nat
        /\ t.accounts \in Storage
    BY <1>2, <1>3, BalanceAssumption DEF BillingStat, Progress
  <2>2. price <= GetAccount(t.accounts, owner).balance
    <3>1. GetAccount(t.accounts, owner).balance \in Int
      BY <2>1, AccountRead DEF Account
    <3> QED BY <1>2, <1>3, <2>1, <3>1 DEF CanMove
  <2> DEFINE m == Moved(t.accounts, owner, r.account, price)
  <2>3. m \in Storage /\ Total(m) = Total(t.accounts)
    BY <2>1, <2>2, MovedTotal
  <2>4. Charge(t, owner, rate, r)
           = [accounts |-> m, outcome |-> "ok", payees |-> t.payees \cup {r.account}]
    <3>1. ~(price < 0)
      BY <1>2, <1>3
    <3> QED BY <1>3, <3>1 DEF Charge, price, size
  <2> HIDE DEF m
  <2> QED BY <2>1, <2>3, <2>4 DEF Progress
<1>4. CASE ~(t.outcome = "ok" /\ Billable(r) /\ price >= 0 /\ CanMove(t.accounts, owner, price))
  <2>1. \/ Charge(t, owner, rate, r) = t
        \/ Charge(t, owner, rate, r) = [t EXCEPT !.outcome = "panic"]
        \/ Charge(t, owner, rate, r) = [t EXCEPT !.outcome = "short"]
    <3>1. price < 0 \/ price >= 0
      BY <1>2
    <3> QED BY <1>4, <3>1 DEF Charge, price, size
  <2> QED BY <2>1 DEF Progress
<1> QED BY <1>3, <1>4

(* f[T] is what the settlement has come to after the rows of T. *)
ChargeRuns(f, owner, rate, rows) ==
    /\ f \in [SUBSET DOMAIN rows -> Progress]
    /\ \A T \in SUBSET DOMAIN rows :
          f[T] = IF T = {}
                 THEN [accounts |-> accounts, outcome |-> "ok", payees |-> {}]
                 ELSE Charge(f[T \ {Max(T)}], owner, rate, rows[Max(T)])

LEMMA RowsFinite ==
    ASSUME NEW rows \in Seq(BillingStat)
    PROVE  /\ IsFiniteSet(DOMAIN rows) /\ DOMAIN rows \subseteq Nat
           /\ \A i \in DOMAIN rows : rows[i] \in BillingStat
           /\ \A T \in SUBSET DOMAIN rows :
                 T # {} => Max(T) \in T /\ \A i \in T : i <= Max(T)
<1>1. Len(rows) \in Nat /\ DOMAIN rows = 1..Len(rows)
      /\ \A i \in DOMAIN rows : rows[i] \in BillingStat
  OBVIOUS
<1>2. IsFiniteSet(DOMAIN rows)
  BY <1>1, FS_Interval
<1>3. \A T \in SUBSET DOMAIN rows :
         T # {} => Max(T) \in T /\ \A i \in T : i <= Max(T)
  BY <1>1, MaxIn
<1>4. DOMAIN rows \subseteq Nat
  BY <1>1
<1> QED BY <1>1, <1>2, <1>3, <1>4

LEMMA SettlementRuns ==
    ASSUME epoch \in Nat, accounts \in Storage, NEW owner \in Accounts,
           NEW rate \in Nat, NEW rows \in Seq(BillingStat)
    PROVE  \E f : ChargeRuns(f, owner, rate, rows)
                  /\ Settlement(owner, rate, rows) = f[DOMAIN rows]
<1> DEFINE D == DOMAIN rows
           start == [accounts |-> accounts, outcome |-> "ok", payees |-> {}]
           pick == [T \in SUBSET D |-> Max(T)]
           F == [p \in Progress \X D |-> Charge(p[1], owner, rate, rows[p[2]])]
           Body(f) == [T \in SUBSET D |-> IF T = {} THEN start
                 ELSE Charge(f[T \ {Max(T)}], owner, rate, rows[Max(T)])]
           iter == CHOOSE f : f = Body(f)
<1>1. Settlement(owner, rate, rows) = iter[D]
  BY DEF Settlement, FoldLeft, MapThenFoldSet
<1>2. \A i \in D : rows[i] \in BillingStat
  OBVIOUS
<1>3. IsFiniteSet(D) /\ \A T \in SUBSET D : T # {} => Max(T) \in T
  BY RowsFinite
<1> HIDE DEF D
<1>5. start \in Progress
  BY DEF Progress
<1>6. \A t \in Progress, i \in D : Charge(t, owner, rate, rows[i]) \in Progress
  BY <1>2, ChargeKeeps
<1> HIDE DEF start
<1>7. F \in [Progress \X D -> Progress]
  BY <1>6
<1>8. PICK g \in [SUBSET D -> Progress] : FoldsUp(g, start, F, pick, D)
  <2>1. \A T \in SUBSET D : T # {} => pick[T] \in T
    BY <1>3
  <2> HIDE DEF pick, F, Body, iter
  <2> QED BY <1>3, <1>5, <1>7, <2>1, FoldExists
<1>9. g = Body(g)
  <2>1. ASSUME NEW T \in SUBSET D, T # {}
        PROVE  g[T] = Charge(g[T \ {Max(T)}], owner, rate, rows[Max(T)])
    <3>1. Max(T) \in D /\ T \ {Max(T)} \in SUBSET D /\ pick[T] = Max(T)
      BY <1>3, <2>1
    <3>2. g[T] = F[<<g[T \ {Max(T)}], Max(T)>>]
      BY <1>8, <2>1, <3>1 DEF FoldsUp
    <3>3. <<g[T \ {Max(T)}], Max(T)>> \in Progress \X D
      BY <3>1
    <3> HIDE DEF pick
    <3> QED BY <3>2, <3>3
  <2>2. g[{}] = start
    BY <1>8 DEF FoldsUp
  <2> HIDE DEF pick, F
  <2> QED BY <2>1, <2>2
<1>10. iter = Body(iter)
  BY <1>9
<1> HIDE DEF iter, pick, F
<1>11. /\ iter[{}] = start
       /\ \A T \in SUBSET D : T # {} =>
            iter[T] = Charge(iter[T \ {Max(T)}], owner, rate, rows[Max(T)])
       /\ iter = [T \in SUBSET D |-> iter[T]]
  BY <1>10
<1> DEFINE Good == {T \in SUBSET D : iter[T] \in Progress}
<1>12. Good \in SUBSET (SUBSET D)
  OBVIOUS
<1>13. ASSUME NEW T \in SUBSET D, \A x \in T : T \ {x} \in Good
       PROVE  T \in Good
  <2>1. CASE T = {}
    BY <1>5, <1>11, <2>1
  <2>2. CASE T # {}
    <3>1. Max(T) \in D /\ iter[T \ {Max(T)}] \in Progress
      BY <1>3, <1>13, <2>2
    <3>2. Charge(iter[T \ {Max(T)}], owner, rate, rows[Max(T)]) \in Progress
      BY <3>1, <1>6
    <3> QED BY <3>2, <1>11, <2>2
  <2> QED BY <2>1, <2>2
<1> HIDE DEF Good
<1>14. Good = SUBSET D
  BY <1>3, <1>12, <1>13, SetInductive
<1>15. iter \in [SUBSET D -> Progress]
  BY <1>11, <1>14 DEF Good
<1> QED BY <1>1, <1>11, <1>15 DEF ChargeRuns, D, start

LEMMA SettlementKeeps ==
    ASSUME epoch \in Nat, accounts \in Storage, NEW owner \in Accounts,
           NEW rate \in Nat, NEW rows \in Seq(BillingStat)
    PROVE  /\ Settlement(owner, rate, rows) \in Progress
           /\ Total(Settlement(owner, rate, rows).accounts) = Total(accounts)
<1> DEFINE D == DOMAIN rows
<1>1. PICK f : ChargeRuns(f, owner, rate, rows)
               /\ Settlement(owner, rate, rows) = f[D]
  BY SettlementRuns
<1> DEFINE Good == {T \in SUBSET D : Total(f[T].accounts) = Total(accounts)}
<1>2. Good \in SUBSET (SUBSET D)
  OBVIOUS
<1>3. ASSUME NEW T \in SUBSET D, \A x \in T : T \ {x} \in Good
      PROVE  T \in Good
  <2>1. CASE T = {}
    <3>1. f[T] = [accounts |-> accounts, outcome |-> "ok", payees |-> {}]
      BY <1>1, <2>1 DEF ChargeRuns
    <3> QED BY <3>1
  <2>2. CASE T # {}
    <3>1. /\ rows[Max(T)] \in BillingStat /\ f[T \ {Max(T)}] \in Progress
          /\ Total(f[T \ {Max(T)}].accounts) = Total(accounts)
          /\ f[T] = Charge(f[T \ {Max(T)}], owner, rate, rows[Max(T)])
      BY <1>1, <1>3, <2>2, RowsFinite DEF ChargeRuns
    <3> QED BY <3>1, ChargeKeeps
  <2> QED BY <2>1, <2>2
<1> HIDE DEF Good
<1>4. IsFiniteSet(D)
  BY RowsFinite
<1> HIDE DEF D
<1>5. Good = SUBSET D
  BY <1>2, <1>3, <1>4, SetInductive
<1> QED BY <1>1, <1>5 DEF Good, ChargeRuns, D

-----------------------------------------------------------------------------
(* Every token of the supply is in an account or was overwritten, and a    *)
(* lock has an account to return to: without that an expired lock would    *)
(* burn its tokens.                                                        *)
LedgerInv ==
    /\ accounts \in Storage
    /\ supply \in Nat /\ lost \in Nat /\ epoch \in Nat
    /\ Total(accounts) + lost = supply

LEMMA InitLedger == Init => LedgerInv
<1> SUFFICES ASSUME Init PROVE LedgerInv
  OBVIOUS
<1>1. DOMAIN accounts = {} /\ accounts \in [DOMAIN accounts -> Account]
  BY DEF Init
<1>2. accounts \in Storage
  BY <1>1, StorageFacts, FS_EmptySet
<1>3. Total(accounts) = 0
  BY <1>1, <1>2, TotalIs, SumEmpty
<1> QED BY <1>2, <1>3 DEF Init, LedgerInv

LEMMA TransferLedger ==
    ASSUME LedgerInv, NEW signers, NEW from \in Accounts, NEW to \in Accounts,
           NEW amount \in Int,
           Transfer(signers, from, to, amount) \/ TransferX(signers, from, to, amount)
    PROVE  LedgerInv'
<1>1. GetAccount(accounts, from).balance \in Nat /\ from # Nobody
  BY AccountRead, BalanceAssumption DEF LedgerInv, Account
<1>2. /\ amount \in Nat /\ amount <= GetAccount(accounts, from).balance
      /\ accounts' = Moved(accounts, from, to, amount)
      /\ UNCHANGED <<supply, lost, epoch>>
  BY <1>1 DEF Transfer, TransferX, CanMove
<1>3. accounts' \in Storage /\ Total(accounts') = Total(accounts)
  BY <1>2, MovedTotal DEF LedgerInv
<1> QED BY <1>2, <1>3 DEF LedgerInv

LEMMA LockLedger ==
    ASSUME LedgerInv, NEW signers, NEW from \in Accounts, NEW to \in Accounts,
           NEW amount \in Int, NEW until \in Nat,
           Lock(signers, from, to, amount, until)
    PROVE  LedgerInv'
<1> DEFINE opened == Put(accounts, to, LockAccount(until, from))
<1>1. LockAccount(until, from) \in Account /\ LockAccount(until, from).balance = 0
      /\ LockAccount(until, from).parent = from
  BY DEF LockAccount, Account
<1>2. opened \in Storage /\ Total(opened) = Total(accounts) - BalanceOf(to)
  <2>1. /\ Put(accounts, to, LockAccount(until, from)) \in Storage
        /\ Total(Put(accounts, to, LockAccount(until, from)))
             = Total(accounts) - BalanceOf(to) + LockAccount(until, from).balance
    BY <1>1, PutStorage, PutTotal DEF LedgerInv, BalanceOf
  <2>2. BalanceOf(to) \in Nat /\ Total(accounts) \in Nat
    BY AccountRead, TotalIs DEF LedgerInv, Account, BalanceOf
  <2> QED BY <1>1, <2>1, <2>2
<1> HIDE DEF opened
<1>3. /\ amount >= 0 /\ CanMove(opened, from, amount)
      /\ accounts' = Moved(opened, from, to, amount)
      /\ lost' = lost + BalanceOf(to)
      /\ UNCHANGED <<supply, epoch>>
  BY DEF Lock, opened
<1>4. amount \in Nat /\ amount <= GetAccount(opened, from).balance
  <2>1. GetAccount(opened, from).balance \in Nat /\ from # Nobody
    BY <1>2, AccountRead, BalanceAssumption DEF Account
  <2> QED BY <1>3, <2>1 DEF CanMove
<1>5. accounts' \in Storage /\ Total(accounts') = Total(accounts) - BalanceOf(to)
  BY <1>2, <1>3, <1>4, MovedTotal
<1>6. BalanceOf(to) \in Nat /\ Total(accounts) \in Nat
  BY AccountRead, TotalIs DEF LedgerInv, Account, BalanceOf
<1> QED BY <1>3, <1>5, <1>6 DEF LedgerInv

LEMMA MintLedger ==
    ASSUME LedgerInv, NEW signers, NEW to \in Accounts, NEW amount \in Int,
           Mint(signers, to, amount)
    PROVE  LedgerInv'
<1>1. /\ amount \in Nat /\ accounts' = Credited(accounts, to, amount)
      /\ supply' = supply + amount /\ UNCHANGED <<lost, epoch>>
  BY DEF Mint, Moved, Debited
<1>2. accounts' \in Storage /\ Total(accounts') = Total(accounts) + amount
  BY <1>1, CreditedTotal DEF LedgerInv
<1>3. Total(accounts) \in Nat
  BY TotalIs DEF LedgerInv
<1> QED BY <1>1, <1>2, <1>3 DEF LedgerInv

LEMMA BurnLedger ==
    ASSUME LedgerInv, NEW signers, NEW from \in Accounts, NEW amount \in Int,
           Burn(signers, from, amount)
    PROVE  LedgerInv'
<1>1. GetAccount(accounts, from).balance \in Nat /\ from # Nobody
  BY AccountRead, BalanceAssumption DEF LedgerInv, Account
<1>2. /\ amount \in Nat /\ accounts' = Debited(accounts, from, amount)
      /\ amount <= GetAccount(accounts, from).balance
      /\ supply >= amount /\ supply' = supply - amount /\ UNCHANGED <<lost, epoch>>
  BY <1>1 DEF Burn, Moved, Credited, CanMove
<1>3. accounts' \in Storage /\ Total(accounts') = Total(accounts) - amount
  BY <1>2, DebitedTotal DEF LedgerInv
<1>4. Total(accounts) \in Nat
  BY TotalIs DEF LedgerInv
<1> QED BY <1>2, <1>3, <1>4 DEF LedgerInv

LEMMA TickLedger ==
    ASSUME LedgerInv, NEW signers, NEW n \in 1..MaxEpoch, NewEpoch(signers, n)
    PROVE  LedgerInv'
<1>1. /\ n \in Nat /\ epoch' = n /\ accounts' = Released(accounts, n)
      /\ UNCHANGED <<supply, lost>>
  BY BalanceAssumption DEF NewEpoch
<1>2. accounts' \in Storage /\ Total(accounts') = Total(accounts)
  BY <1>1, ReleasedTotal DEF LedgerInv
<1> QED BY <1>1, <1>2 DEF LedgerInv

LEMMA SettleLedger ==
    ASSUME LedgerInv, NEW signers, NEW cid \in Containers, NEW owner \in Accounts,
           NEW rate \in Nat, NEW rows \in Seq(BillingStat),
           SettleContainerPayment(signers, cid, owner, rate, rows)
    PROVE  LedgerInv'
<1> DEFINE result == Settlement(owner, rate, rows)
<1>1. result \in Progress /\ Total(result.accounts) = Total(accounts)
  BY SettlementKeeps DEF LedgerInv
<1>2. accounts' = result.accounts /\ UNCHANGED <<supply, lost, epoch>>
  BY DEF SettleContainerPayment
<1> HIDE DEF result
<1> QED BY <1>1, <1>2 DEF LedgerInv, Progress

LEMMA NextLedger == LedgerInv /\ [Next]_vars => LedgerInv'
<1> SUFFICES ASSUME LedgerInv, [Next]_vars PROVE LedgerInv'
  OBVIOUS
<1>1. /\ Senders \subseteq Accounts /\ Receivers \subseteq Accounts
      /\ LockAccounts \subseteq Accounts /\ Amounts \subseteq Int /\ Rates \subseteq Nat
      /\ Statistics \subseteq Seq(BillingStat) /\ 0..MaxEpoch \subseteq Nat
  BY BalanceAssumption
<1>2. ASSUME NEW signers \in Signers, NEW from \in Senders, NEW amount \in Amounts,
             NEW to \in Receivers,
             Transfer(signers, from, to, amount) \/ TransferX(signers, from, to, amount)
      PROVE  LedgerInv'
  BY <1>1, <1>2, TransferLedger
<1>3. ASSUME NEW signers \in Signers, NEW from \in Senders, NEW amount \in Amounts,
             NEW to \in LockAccounts, NEW until \in 0..MaxEpoch,
             Lock(signers, from, to, amount, until)
      PROVE  LedgerInv'
  BY <1>1, <1>3, LockLedger
<1>4. ASSUME NEW signers \in Signers, NEW from \in Senders, NEW amount \in Amounts,
             Burn(signers, from, amount)
      PROVE  LedgerInv'
  BY <1>1, <1>4, BurnLedger
<1>5. ASSUME NEW signers \in Signers, NEW to \in Receivers, NEW amount \in Amounts,
             Mint(signers, to, amount)
      PROVE  LedgerInv'
  BY <1>1, <1>5, MintLedger
<1>6. ASSUME NEW signers \in Signers, NEW n \in 1..MaxEpoch, NewEpoch(signers, n)
      PROVE  LedgerInv'
  BY <1>6, TickLedger
<1>7. ASSUME NEW signers \in Signers, NEW cid \in Containers, NEW owner \in Senders,
             NEW rate \in Rates, NEW rows \in Statistics,
             SettleContainerPayment(signers, cid, owner, rate, rows)
      PROVE  LedgerInv'
  BY <1>1, <1>7, SettleLedger
<1>8. CASE UNCHANGED vars
  BY <1>8 DEF LedgerInv, vars, ledger, Total, Held
<1> QED BY <1>2, <1>3, <1>4, <1>5, <1>6, <1>7, <1>8 DEF Next

-----------------------------------------------------------------------------
(* What a tick leaves of the locks. *)

LEMMA GivesAll ==
    ASSUME NEW t \in Storage, NEW a \in Accounts, NEW p \in Accounts,
           NEW b, b = GetAccount(t, a).balance,
           NEW m, m = Moved(t, a, p, b)
    PROVE  /\ \A x : x # a /\ x # p => GetAccount(m, x) = GetAccount(t, x)
           /\ a # p => GetAccount(m, a) = NoAccount
           /\ a # p => GetAccount(m, p) = [GetAccount(t, p) EXCEPT !.balance = @ + b]
           /\ a = p => GetAccount(m, p) = [NoAccount EXCEPT !.balance = @ + b]
<1> DEFINE d == Without(t, a)
<1>1. a # Nobody /\ p # Nobody
  BY BalanceAssumption
<1>2. Debited(t, a, b) = d
  BY <1>1 DEF Debited
<1>3. m = Put(d, p, [GetAccount(d, p) EXCEPT !.balance = @ + b])
  BY <1>1, <1>2 DEF Moved, Credited
<1>4. \A y : GetAccount(d, y) = IF y = a THEN NoAccount ELSE GetAccount(t, y)
  BY DEF GetAccount, Without
<1>5. \A v, y : GetAccount(Put(d, p, v), y) = IF y = p THEN v ELSE GetAccount(d, y)
  BY DEF GetAccount, Put
<1> HIDE DEF d
<1> QED BY <1>3, <1>4, <1>5

DueIn(s, n) == {a \in DOMAIN s : Expired(s[a], n)}
Visited(T) == {AccountOrder[i] : i \in T}

LEMMA VisitedGrows ==
    ASSUME NEW T \in SUBSET Rounds, T # {}
    PROVE  Visited(T) = Visited(T \ {Max(T)}) \cup {AccountOrder[Max(T)]}
BY RoundsFinite DEF Visited

(* Only the locks still to be visited are overdue. *)
LEMMA OverdueShrinks ==
    ASSUME NEW s \in Storage, NEW n \in Nat, NEW f, Runs(f, s, n)
    PROVE  \A T \in SUBSET Rounds : \A a :
              Expired(GetAccount(f[T], a), n) => a \in DueIn(s, n) \ Visited(T)
<1> DEFINE Ok(T) == \A a : Expired(GetAccount(f[T], a), n)
                              => a \in DueIn(s, n) \ Visited(T)
           Good == {T \in SUBSET Rounds : Ok(T)}
<1>1. ~Expired(NoAccount, n)
  BY DEF Expired, NoAccount
<1>2. ASSUME NEW T \in SUBSET Rounds, \A x \in T : T \ {x} \in Good
      PROVE  T \in Good
  <2> SUFFICES Ok(T)
    OBVIOUS
  <2>1. CASE T = {}
    BY <1>1, <2>1 DEF Runs, Visited, DueIn, GetAccount
  <2>2. CASE T # {}
    <3> DEFINE m == Max(T)
               t == f[T \ {m}]
               a0 == AccountOrder[m]
               acc == GetAccount(t, a0)
    <3>1. /\ m \in T /\ t \in Storage /\ f[T] = Visit(s, t, a0, n)
          /\ Ok(T \ {m}) /\ Visited(T) = Visited(T \ {m}) \cup {a0}
      BY <1>2, <2>2, RoundsFinite, VisitedGrows DEF Runs
    <3> HIDE DEF m, t, a0
    <3>2. CASE ~(a0 \in DOMAIN s /\ Expired(acc, n))
      <4>1. f[T] = t
        BY <3>1, <3>2 DEF Visit, Release
      <4>2. ~Expired(GetAccount(f[T], a0), n)
        BY <3>1, <3>2, <4>1 DEF DueIn, t
      <4> QED BY <3>1, <4>1, <4>2 DEF t
    <3>3. CASE a0 \in DOMAIN s /\ Expired(acc, n)
      <4> DEFINE p == acc.parent
                 b == acc.balance
      <4>1. a0 \in Accounts /\ p \in Accounts
        BY <3>1, <3>3, AccountRead, StorageFacts DEF Expired
      <4>2. f[T] = Moved(t, a0, p, b)
        BY <3>1, <3>3 DEF Visit, Release
      <4> HIDE DEF p
      <4>3. /\ \A x : x # a0 /\ x # p => GetAccount(f[T], x) = GetAccount(t, x)
            /\ a0 # p => GetAccount(f[T], a0) = NoAccount
            /\ a0 # p => GetAccount(f[T], p) = [GetAccount(t, p) EXCEPT !.balance = @ + b]
            /\ a0 = p => GetAccount(f[T], p) = [NoAccount EXCEPT !.balance = @ + b]
        BY <3>1, <4>1, <4>2, GivesAll
      <4>4. GetAccount(t, p) \in Account
        BY <3>1, AccountRead
      <4> HIDE DEF b, acc
      <4>5. a0 # p => GetAccount(f[T], p).until = GetAccount(t, p).until
        BY <4>3, <4>4 DEF Account
      <4>6. a0 = p => GetAccount(f[T], p).until = 0
        BY <4>3 DEF NoAccount
      <4>7. ASSUME NEW a, Expired(GetAccount(f[T], a), n)
            PROVE  a # a0 /\ Expired(GetAccount(t, a), n)
        BY <1>1, <4>3, <4>5, <4>6, <4>7 DEF Expired
      <4> QED BY <3>1, <4>7 DEF t
    <3> QED BY <3>2, <3>3
  <2> QED BY <2>1, <2>2
<1>3. Good = SUBSET Rounds
  <2>1. Good \in SUBSET (SUBSET Rounds) /\ IsFiniteSet(Rounds)
    BY RoundsFinite
  <2> HIDE DEF Good
  <2> QED BY <2>1, <1>2, SetInductive
<1> QED BY <1>3

PaidTo(s, n, T, a) == {l \in DueIn(s, n) \cap Visited(T) : s[l].parent = a}

LEMMA PaidToFacts ==
    ASSUME NEW s \in Storage, NEW n, NEW T, NEW a
    PROVE  /\ IsFiniteSet(PaidTo(s, n, T, a))
           /\ PaidTo(s, n, T, a) \subseteq DOMAIN s
           /\ SumFunctionOnSet(Held(s), PaidTo(s, n, T, a)) \in Nat
<1>1. PaidTo(s, n, T, a) \subseteq DOMAIN s
  BY DEF PaidTo, DueIn
<1>2. IsFiniteSet(PaidTo(s, n, T, a))
  BY <1>1, TotalIs, FS_Subset
<1>3. \A l \in PaidTo(s, n, T, a) : Held(s)[l] \in Nat
  BY <1>1, TotalIs
<1> QED BY <1>1, <1>2, <1>3, SumNat

(* When no overdue lock returns to an overdue lock, each is paid out once, *)
(* whole, and to its parent.                                               *)
LEMMA LocksPayParents ==
    ASSUME NEW s \in Storage, NEW n \in Nat, NEW f, Runs(f, s, n),
           \A l \in DueIn(s, n) : s[l].parent \notin DueIn(s, n)
    PROVE  \A T \in SUBSET Rounds : \A a :
              /\ a \in DueIn(s, n) \cap Visited(T) => GetAccount(f[T], a) = NoAccount
              /\ a \in DueIn(s, n) \ Visited(T) => GetAccount(f[T], a) = s[a]
              /\ a \notin DueIn(s, n) => GetAccount(f[T], a).balance =
                   GetAccount(s, a).balance
                     + SumFunctionOnSet(Held(s), PaidTo(s, n, T, a))
<1> DEFINE Due_ == DueIn(s, n)
           Part(T, a) == SumFunctionOnSet(Held(s), PaidTo(s, n, T, a))
           Ok(T) == \A a :
              /\ a \in Due_ \cap Visited(T) => GetAccount(f[T], a) = NoAccount
              /\ a \in Due_ \ Visited(T) => GetAccount(f[T], a) = s[a]
              /\ a \notin Due_ => GetAccount(f[T], a).balance =
                                   GetAccount(s, a).balance + Part(T, a)
           Good == {T \in SUBSET Rounds : Ok(T)}
<1>1. ASSUME NEW T \in SUBSET Rounds, \A x \in T : T \ {x} \in Good
      PROVE  T \in Good
  <2> SUFFICES Ok(T)
    OBVIOUS
  <2>1. CASE T = {}
    <3>1. f[T] = s /\ Visited(T) = {} /\ \A a : PaidTo(s, n, T, a) = {}
      BY <2>1 DEF Runs, Visited, PaidTo
    <3>2. \A a : Part(T, a) = 0
      BY <3>1, SumEmpty
    <3>3. \A a : GetAccount(s, a).balance \in Int
      BY AccountRead DEF Account
    <3>4. \A a \in Due_ : GetAccount(s, a) = s[a]
      BY DEF DueIn, GetAccount
    <3> HIDE DEF Due_, Part
    <3> QED BY <3>1, <3>2, <3>3, <3>4
  <2>2. CASE T # {}
    <3> DEFINE m == Max(T)
               U == T \ {m}
               t == f[U]
               a0 == AccountOrder[m]
               acc == GetAccount(t, a0)
    <3>1. /\ m \in T /\ t \in Storage /\ f[T] = Visit(s, t, a0, n)
          /\ Ok(U) /\ Visited(T) = Visited(U) \cup {a0} /\ U \in SUBSET Rounds
      BY <1>1, <2>2, RoundsFinite, VisitedGrows DEF Runs
    <3> HIDE DEF m, U, a0
    <3>2. Expired(acc, n) => a0 \in Due_ \ Visited(U)
      BY <3>1, OverdueShrinks
    <3>3. a0 \in Due_ \ Visited(U) =>
             acc = s[a0] /\ a0 \in DOMAIN s /\ Expired(acc, n)
      BY <3>1 DEF DueIn
    <3>4. CASE a0 \notin Due_ \ Visited(U)
      <4>1. f[T] = t
        BY <3>1, <3>2, <3>4 DEF Visit, Release
      <4>2. Due_ \cap Visited(T) = Due_ \cap Visited(U)
        BY <3>1, <3>4
      <4>3. \A a : PaidTo(s, n, T, a) = PaidTo(s, n, U, a)
        BY <4>2 DEF PaidTo
      <4>4. \A a : Part(T, a) = Part(U, a)
        BY <4>3
      <4>5. Due_ \ Visited(T) = Due_ \ Visited(U)
        BY <4>2
      <4> HIDE DEF Due_, Part, t
      <4> QED BY <3>1, <4>1, <4>2, <4>4, <4>5 DEF t
    <3>5. CASE a0 \in Due_ \ Visited(U)
      <4> DEFINE p == acc.parent
                 b == acc.balance
      <4>1. a0 \in Accounts /\ p \in Accounts /\ p \notin Due_ /\ a0 # p
        BY <3>1, <3>3, <3>5, AccountRead, StorageFacts DEF Expired
      <4>2. f[T] = Moved(t, a0, p, b)
        BY <3>1, <3>3, <3>5 DEF Visit, Release
      <4>3. b = Held(s)[a0] /\ b \in Nat /\ p = s[a0].parent
        BY <3>3, <3>5, TotalIs
      <4> HIDE DEF p
      <4>4. /\ \A x : x # a0 /\ x # p => GetAccount(f[T], x) = GetAccount(t, x)
            /\ GetAccount(f[T], a0) = NoAccount
            /\ GetAccount(f[T], p) = [GetAccount(t, p) EXCEPT !.balance = @ + b]
        BY <3>1, <4>1, <4>2, GivesAll
      <4>5. GetAccount(t, p) \in Account /\ \A a : GetAccount(s, a).balance \in Int
        BY <3>1, AccountRead DEF Account
      <4> HIDE DEF b
      <4>6. GetAccount(f[T], p).balance = GetAccount(t, p).balance + b
        BY <4>4, <4>5 DEF Account
      <4>7. \A a : PaidTo(s, n, T, a) = IF a = p THEN PaidTo(s, n, U, a) \cup {a0}
                                        ELSE PaidTo(s, n, U, a)
        BY <3>1, <3>5, <4>3 DEF PaidTo
      <4>8. Part(T, p) = b + Part(U, p)
        <5>1. IsFiniteSet(PaidTo(s, n, U, p)) /\ a0 \notin PaidTo(s, n, U, p)
          <6>1. IsFiniteSet(PaidTo(s, n, U, p))
            BY PaidToFacts
          <6>2. a0 \notin PaidTo(s, n, U, p)
            BY <3>5 DEF PaidTo
          <6> QED BY <6>1, <6>2
        <5>2. \A x \in PaidTo(s, n, U, p) \cup {a0} : Held(s)[x] \in Int
          BY PaidToFacts, TotalIs, <4>3
        <5>3. SumFunctionOnSet(Held(s), PaidTo(s, n, U, p) \cup {a0})
                = Held(s)[a0] + SumFunctionOnSet(Held(s), PaidTo(s, n, U, p))
          BY <5>1, <5>2, SumAdd
        <5> QED BY <5>3, <4>3, <4>7
      <4>9. \A a : a # p => Part(T, a) = Part(U, a)
        BY <4>7
      <4>10. Part(U, p) \in Int /\ b \in Int
        BY PaidToFacts, <4>3
      <4>11. /\ a0 \in Due_ /\ a0 \in Visited(T)
             /\ Visited(T) = Visited(U) \cup {a0}
        BY <3>1, <3>5
      <4>12. ASSUME NEW a
             PROVE  /\ a \in Due_ \cap Visited(U) => GetAccount(t, a) = NoAccount
                    /\ a \in Due_ \ Visited(U) => GetAccount(t, a) = s[a]
                    /\ a \notin Due_ => GetAccount(t, a).balance =
                                   GetAccount(s, a).balance + Part(U, a)
        BY <3>1
      <4> HIDE DEF Due_, Part, t, acc
      <4>13. ASSUME NEW a
             PROVE  /\ a \in Due_ \cap Visited(T) => GetAccount(f[T], a) = NoAccount
                    /\ a \in Due_ \ Visited(T) => GetAccount(f[T], a) = s[a]
                    /\ a \notin Due_ => GetAccount(f[T], a).balance =
                                   GetAccount(s, a).balance + Part(T, a)
        <5>1. CASE a = a0
          BY <4>1, <4>4, <4>11, <5>1
        <5>2. CASE a = p
          BY <4>1, <4>5, <4>6, <4>8, <4>10, <4>12, <5>2
        <5>3. CASE a # a0 /\ a # p
          BY <4>4, <4>9, <4>11, <4>12, <5>3
        <5> QED BY <5>1, <5>2, <5>3
      <4> QED BY <4>13
    <3> QED BY <3>4, <3>5
  <2> QED BY <2>1, <2>2
<1>2. Good = SUBSET Rounds
  <2>1. Good \in SUBSET (SUBSET Rounds) /\ IsFiniteSet(Rounds)
    BY RoundsFinite
  <2> HIDE DEF Good
  <2> QED BY <2>1, <1>1, SetInductive
<1> QED BY <1>2

LEMMA AllVisited == Visited(Rounds) = Accounts
BY BalanceAssumption DEF Visited, Rounds, Range

LEMMA TickPays ==
    ASSUME LedgerInv, [Next]_vars, epoch' # epoch
    PROVE  /\ \A a \in DOMAIN accounts' : ~Expired(accounts'[a], epoch')
           /\ (\A l \in Due(epoch') : accounts[l].parent \notin Due(epoch'))
              => \A a \in Accounts : BalanceOf(a)' = AfterTick(a, epoch')
<1>1. PICK n \in 1..MaxEpoch : \E signers \in Signers : NewEpoch(signers, n)
  BY DEF Next, Transfer, TransferX, Lock, Burn, Mint, SettleContainerPayment, vars
<1>2. n \in Nat /\ epoch' = n /\ accounts' = Released(accounts, n)
  BY <1>1, BalanceAssumption DEF NewEpoch
<1>3. accounts \in Storage
  BY DEF LedgerInv
<1>4. PICK f : Runs(f, accounts, n) /\ accounts' = f[Rounds]
  BY <1>2, <1>3, ReleasedRuns
<1>5. Due(epoch') = DueIn(accounts, n) /\ DueIn(accounts, n) \subseteq Accounts
  BY <1>2, <1>3, StorageFacts DEF Due, DueIn
<1>6. ASSUME NEW a \in DOMAIN accounts' PROVE ~Expired(accounts'[a], epoch')
  <2>1. GetAccount(f[Rounds], a) = accounts'[a]
    BY <1>4 DEF GetAccount
  <2>2. DueIn(accounts, n) \ Visited(Rounds) = {}
    BY <1>5, AllVisited
  <2> QED BY <1>2, <1>3, <1>4, <2>1, <2>2, OverdueShrinks
<1>7. ASSUME \A l \in Due(epoch') : accounts[l].parent \notin Due(epoch'),
             NEW a \in Accounts
      PROVE  BalanceOf(a)' = AfterTick(a, epoch')
  <2>1. BalanceOf(a)' = GetAccount(f[Rounds], a).balance
    BY <1>4 DEF BalanceOf
  <2>2. \A l \in DueIn(accounts, n) : accounts[l].parent \notin DueIn(accounts, n)
    BY <1>5, <1>7
  <2>3. /\ a \in DueIn(accounts, n) => GetAccount(f[Rounds], a) = NoAccount
        /\ a \notin DueIn(accounts, n) => GetAccount(f[Rounds], a).balance =
                   GetAccount(accounts, a).balance
                     + SumFunctionOnSet(Held(accounts), PaidTo(accounts, n, Rounds, a))
    BY <1>2, <1>3, <1>4, <2>2, AllVisited, LocksPayParents
  <2>4. PaidTo(accounts, n, Rounds, a) = DueTo(a, epoch')
    BY <1>5, AllVisited DEF PaidTo, DueTo
  <2> QED BY <1>5, <2>1, <2>3, <2>4 DEF AfterTick, BalanceOf, NoAccount
<1> QED BY <1>6, <1>7

-----------------------------------------------------------------------------
(* The marks of payments. *)


MarkTypes ==
    /\ epoch \in Nat
    /\ DOMAIN unpaid \subseteq Containers /\ unpaid \in [DOMAIN unpaid -> Nat]
    /\ DOMAIN paid \subseteq Containers /\ paid \in [DOMAIN paid -> Nat]
    /\ received \in [Containers -> [Accounts -> Nat]]
    /\ failures \in [Containers -> Nat]

MarkInv == MarkTypes /\ MarksOrdered /\ PaidOncePerAttempt

LEMMA InitMarks == Init => MarkInv
BY DEF Init, MarkInv, MarkTypes, MarksOrdered, PaidOncePerAttempt

(* A settlement, with the outcome of its loop as an unknown record. *)
LEMMA SettleMarks ==
    ASSUME MarkInv, NEW signers, NEW cid \in Containers, NEW owner, NEW rate,
           NEW rows, SettleContainerPayment(signers, cid, owner, rate, rows)
    PROVE  MarkInv'
<1> DEFINE result == Settlement(owner, rate, rows)
<1> USE DEF PaymentEpoch
<1>1. /\ epoch' = epoch /\ epoch \in Nat /\ epoch - 1 >= 0
      /\ cid \in DOMAIN paid => paid[cid] < epoch - 1
      /\ received' = [received EXCEPT ![cid] =
              [a \in Accounts |-> IF a \in result.payees THEN @[a] + 1 ELSE @[a]]]
  BY DEF SettleContainerPayment, AlreadyPaid, MarkInv, MarkTypes
<1>2. \/ /\ unpaid' = Without(unpaid, cid)
         /\ paid' = Put(paid, cid, epoch - 1)
         /\ failures' = failures
      \/ /\ unpaid' = IF cid \in DOMAIN unpaid THEN unpaid
                      ELSE Put(unpaid, cid, epoch - 1)
         /\ failures' = [failures EXCEPT ![cid] = @ + 1]
         /\ paid' = paid
  BY DEF SettleContainerPayment
<1> HIDE DEF result
<1>3. /\ received' \in [Containers -> [Accounts -> Nat]]
      /\ \A c \in Containers, a \in Accounts :
            received'[c][a] <= received[c][a] + (IF c = cid THEN 1 ELSE 0)
  BY <1>1 DEF MarkInv, MarkTypes
<1>4. CASE /\ unpaid' = Without(unpaid, cid)
           /\ paid' = Put(paid, cid, epoch - 1)
           /\ failures' = failures
  <2>1. MarkTypes'
    BY <1>1, <1>3, <1>4 DEF MarkInv, MarkTypes, Put, Without
  <2>2. MarksOrdered'
    BY <1>1, <1>4 DEF MarkInv, MarkTypes, MarksOrdered, Put, Without
  <2>3. PaidOncePerAttempt'
    BY <1>1, <1>3, <1>4 DEF MarkInv, MarkTypes, PaidOncePerAttempt, Put
  <2> QED BY <2>1, <2>2, <2>3 DEF MarkInv
<1>5. CASE /\ unpaid' = IF cid \in DOMAIN unpaid THEN unpaid
                        ELSE Put(unpaid, cid, epoch - 1)
           /\ failures' = [failures EXCEPT ![cid] = @ + 1]
           /\ paid' = paid
  <2>1. MarkTypes'
    BY <1>1, <1>3, <1>5 DEF MarkInv, MarkTypes, Put
  <2>2. MarksOrdered'
    BY <1>1, <1>5 DEF MarkInv, MarkTypes, MarksOrdered, Put
  <2>3. PaidOncePerAttempt'
    BY <1>1, <1>3, <1>5 DEF MarkInv, MarkTypes, PaidOncePerAttempt
  <2> QED BY <2>1, <2>2, <2>3 DEF MarkInv
<1> QED BY <1>2, <1>4, <1>5

LEMMA TickMarks ==
    ASSUME MarkInv, NEW signers, NEW n \in 1..MaxEpoch, NewEpoch(signers, n)
    PROVE  MarkInv'
<1>1. /\ n \in Nat /\ n > epoch /\ epoch' = n
      /\ received' = [c \in Containers |-> [a \in Accounts |-> 0]]
      /\ failures' = [c \in Containers |-> 0]
      /\ UNCHANGED <<unpaid, paid>>
  BY BalanceAssumption DEF NewEpoch
<1>2. MarkTypes' /\ MarksOrdered'
  BY <1>1 DEF MarkInv, MarkTypes, MarksOrdered
<1>3. PaidOncePerAttempt'
  BY <1>1 DEF PaidOncePerAttempt, PaymentEpoch
<1> QED BY <1>2, <1>3 DEF MarkInv

LEMMA NextMarks == MarkInv /\ [Next]_vars => MarkInv'
<1> SUFFICES ASSUME MarkInv, [Next]_vars PROVE MarkInv'
  OBVIOUS
<1>1. ASSUME UNCHANGED <<epoch, marks>> PROVE MarkInv'
  BY <1>1 DEF marks, MarkInv, MarkTypes, MarksOrdered, PaidOncePerAttempt,
              PaymentEpoch
<1>2. ASSUME NEW signers, NEW from, NEW to, NEW amount, NEW until,
             \/ Transfer(signers, from, to, amount)
             \/ TransferX(signers, from, to, amount)
             \/ Lock(signers, from, to, amount, until)
             \/ Burn(signers, from, amount)
             \/ Mint(signers, to, amount)
      PROVE  MarkInv'
  BY <1>1, <1>2 DEF Transfer, TransferX, Lock, Burn, Mint
<1>3. CASE UNCHANGED vars
  BY <1>1, <1>3 DEF vars
<1> QED BY <1>2, <1>3, SettleMarks, TickMarks DEF Next

(* Whatever the order of successful, failed and repeated settlements and   *)
(* of ticks, a container is unpaid only from an epoch after the last paid  *)
(* one, and no running epoch is ever marked (SettleContainerPayment).      *)
THEOREM MarksAreOrdered == Spec => []MarksOrdered
<1>1. MarkInv => MarksOrdered
  BY DEF MarkInv
<1> QED BY <1>1, InitMarks, NextMarks, PTL DEF Spec

(* A node is paid for a container and an epoch at most once, plus once per *)
(* settlement that ran out of the owner's tokens half way.                 *)
THEOREM NoDoublePayment == Spec => []PaidOncePerAttempt
<1>1. MarkInv => PaidOncePerAttempt
  BY DEF MarkInv
<1> QED BY <1>1, InitMarks, NextMarks, PTL DEF Spec

(* Nobody owes, and every token of the supply is in an account or was      *)
(* overwritten by a lock: transfers to oneself, locks that expire together *)
(* in any key order and settlements that stop half way create and destroy  *)
(* nothing (Token.transfer, Lock, NewEpoch, SettleContainerPayment).       *)
THEOREM SupplyIsBacked == Spec => []SupplyBacked
<1>1. LedgerInv /\ MarkInv => SupplyBacked
  BY StorageFacts DEF LedgerInv, MarkInv, MarkTypes, SupplyBacked, TypeOK
<1> QED BY <1>1, InitLedger, NextLedger, InitMarks, NextMarks, PTL DEF Spec

(* After a tick no lock is overdue, and if no overdue lock returned to     *)
(* another one, every overdue lock was paid to its parent in full and      *)
(* everyone else kept what he had, whatever the key order (NewEpoch).      *)
THEOREM TicksPayParents == Spec => TickPaysParents
<1>1. LedgerInv /\ [Next]_vars =>
        [epoch' # epoch =>
          /\ \A a \in DOMAIN accounts' : ~Expired(accounts'[a], epoch')
          /\ (\A l \in Due(epoch') : accounts[l].parent \notin Due(epoch'))
             => \A a \in Accounts : BalanceOf(a)' = AfterTick(a, epoch')]_vars
  BY TickPays
<1> QED BY <1>1, InitLedger, NextLedger, PTL DEF Spec, TickPaysParents

-----------------------------------------------------------------------------
(* Who neither pays nor is paid keeps his balance; the payee gets what is  *)
(* paid.                                                                   *)
LEMMA MovedBalance ==
    ASSUME NEW s \in Storage, NEW from \in Accounts, NEW to \in Accounts, from # to,
           NEW amount \in Nat, NEW x, x # from
    PROVE  GetAccount(Moved(s, from, to, amount), x).balance
             = GetAccount(s, x).balance + (IF x = to THEN amount ELSE 0)
<1> DEFINE d == Debited(s, from, amount)
           acc == GetAccount(d, to)
<1>1. from # Nobody /\ to # Nobody
  BY BalanceAssumption
<1>2. \A y : y # from => GetAccount(d, y) = GetAccount(s, y)
  BY <1>1 DEF Debited, GetAccount, Put, Without
<1> HIDE DEF d
<1>3. acc \in Account /\ acc.balance \in Nat
  BY <1>2, AccountRead DEF Account
<1>4. Moved(s, from, to, amount) = Put(d, to, [acc EXCEPT !.balance = @ + amount])
  BY <1>1 DEF Moved, Credited, d
<1> DEFINE new == [acc EXCEPT !.balance = @ + amount]
<1>5. new.balance = acc.balance + amount
  BY <1>3 DEF Account
<1> HIDE DEF new
<1>6. GetAccount(Put(d, to, new), x) = IF x = to THEN new ELSE GetAccount(d, x)
  BY DEF GetAccount, Put
<1>7. GetAccount(s, x).balance \in Nat
  BY AccountRead DEF Account
<1>8. acc = GetAccount(s, to)
  BY <1>2
<1>9. Moved(s, from, to, amount) = Put(d, to, new)
  BY <1>4 DEF new
<1> HIDE DEF acc
<1> QED BY <1>2, <1>5, <1>6, <1>7, <1>8, <1>9

(* A settlement that succeeds has charged every row: it has paid the        *)
(* accounts of the billable rows their prices, and nobody else.            *)
PriceOf(rate, r) == Price(rate, BilledSize(r.stat, epoch))
PaysRow(r, a) == Billable(r) /\ r.account = a
HasPaid(s, rate, rows, T, a) ==
    LET old == GetAccount(accounts, a).balance
        new == GetAccount(s, a).balance
    IN  /\ \A i \in T : PaysRow(rows[i], a) => new = old + PriceOf(rate, rows[i])
        /\ (\A i \in T : ~PaysRow(rows[i], a)) => new = old

LEMMA ChargePays ==
    ASSUME epoch \in Nat, NEW t \in Progress, NEW owner \in Accounts,
           NEW rate \in Nat, NEW r \in BillingStat, r.account # owner,
           Charge(t, owner, rate, r).outcome = "ok"
    PROVE  /\ t.outcome = "ok"
           /\ \A a : a # owner =>
                GetAccount(Charge(t, owner, rate, r).accounts, a).balance
                  = GetAccount(t.accounts, a).balance
                      + (IF PaysRow(r, a) THEN PriceOf(rate, r) ELSE 0)
<1> DEFINE size == BilledSize(r.stat, epoch)
           price == PriceOf(rate, r)
           u == Charge(t, owner, rate, r)
<1>1. size \in Int
  BY DEF BilledSize, BillingStat, EpochBillingStat
<1>2. price \in Int
  BY <1>1, PriceInt DEF PriceOf
<1>3. t.accounts \in Storage /\ r.account \in Accounts
  BY DEF Progress, BillingStat
<1>4. \A a : GetAccount(t.accounts, a).balance \in Nat
  BY <1>3, AccountRead DEF Account
<1>5. CASE t.outcome # "ok" \/ ~Billable(r)
  <2>1. u = t
    BY <1>5 DEF Charge
  <2> HIDE DEF u
  <2> QED BY <1>4, <1>5, <2>1 DEF PaysRow, u
<1>6. CASE t.outcome = "ok" /\ Billable(r)
  <2>1. u = IF price < 0 THEN [t EXCEPT !.outcome = "panic"]
            ELSE IF CanMove(t.accounts, owner, price)
            THEN [accounts |-> Moved(t.accounts, owner, r.account, price),
                  outcome |-> "ok", payees |-> t.payees \cup {r.account}]
            ELSE [t EXCEPT !.outcome = "short"]
    BY <1>6 DEF Charge, PriceOf
  <2>2. [t EXCEPT !.outcome = "panic"].outcome = "panic"
        /\ [t EXCEPT !.outcome = "short"].outcome = "short"
    BY DEF Progress
  <2>3. ~(price < 0) /\ u.accounts = Moved(t.accounts, owner, r.account, price)
    <3> HIDE DEF price
    <3> QED BY <2>1, <2>2
  <2>4. price \in Nat
    BY <1>2, <2>3
  <2> HIDE DEF u, price
  <2>5. ASSUME NEW a, a # owner
        PROVE  GetAccount(u.accounts, a).balance
                 = GetAccount(t.accounts, a).balance + (IF a = r.account THEN price ELSE 0)
    BY <1>3, <2>3, <2>4, <2>5, MovedBalance
  <2> QED BY <1>6, <2>5 DEF PaysRow, u, price
<1> QED BY <1>5, <1>6

LEMMA SettlementPays ==
    ASSUME epoch \in Nat, accounts \in Storage, NEW owner \in Accounts,
           NEW rate \in Nat, NEW rows \in Seq(BillingStat),
           \A i \in DOMAIN rows : rows[i].account # owner,
           \A i, j \in DOMAIN rows : rows[i].account = rows[j].account => i = j,
           Settlement(owner, rate, rows).outcome = "ok", NEW a, a # owner
    PROVE  HasPaid(Settlement(owner, rate, rows).accounts, rate, rows, DOMAIN rows, a)
<1> DEFINE D == DOMAIN rows
<1>1. PICK f : ChargeRuns(f, owner, rate, rows)
               /\ Settlement(owner, rate, rows) = f[D]
  BY SettlementRuns
<1> DEFINE Good == {T \in SUBSET D :
                f[T].outcome = "ok" => HasPaid(f[T].accounts, rate, rows, T, a)}
<1>2. Good \in SUBSET (SUBSET D)
  OBVIOUS
<1>3. ASSUME NEW T \in SUBSET D, \A x \in T : T \ {x} \in Good
      PROVE  T \in Good
  <2>1. CASE T = {}
    <3>1. f[T] = [accounts |-> accounts, outcome |-> "ok", payees |-> {}]
      BY <1>1, <2>1 DEF ChargeRuns
    <3>2. HasPaid(accounts, rate, rows, T, a)
      BY <2>1 DEF HasPaid
    <3> QED BY <3>1, <3>2
  <2>2. CASE T # {} /\ f[T].outcome = "ok"
    <3> DEFINE m == Max(T)
               S == T \ {m}
               new == GetAccount(f[T].accounts, a).balance
               mid == GetAccount(f[S].accounts, a).balance
               old == GetAccount(accounts, a).balance
    <3>1. m \in T /\ m \in D /\ S \in SUBSET D /\ S \in Good
      BY <1>3, <2>2, RowsFinite
    <3>2. rows[m] \in BillingStat /\ f[S] \in Progress
      BY <1>1, <3>1, RowsFinite DEF ChargeRuns
    <3>3. f[T] = Charge(f[S], owner, rate, rows[m])
      BY <1>1, <2>2 DEF ChargeRuns
    <3>4. f[S].outcome = "ok"
          /\ new = mid + (IF PaysRow(rows[m], a) THEN PriceOf(rate, rows[m]) ELSE 0)
      <4> HIDE DEF m, S
      <4> QED BY <2>2, <3>1, <3>2, <3>3, ChargePays
    <3>5. HasPaid(f[S].accounts, rate, rows, S, a)
      BY <3>1, <3>4
    <3>6. old \in Nat /\ mid \in Nat
      BY <3>2, AccountRead DEF Progress, Account
    <3>7. \A i \in S : i # m /\ i \in D /\ i \in T
      BY <3>1
    <3>8. T = S \cup {m}
      BY <3>1
    <3> HIDE DEF m, S, new, mid, old
    <3>9. HasPaid(f[T].accounts, rate, rows, T, a)
      <4>1. CASE PaysRow(rows[m], a)
        <5>1. \A i \in S : ~PaysRow(rows[i], a)
          BY <3>1, <3>7, <4>1 DEF PaysRow
        <5>2. mid = old
          BY <3>5, <5>1 DEF HasPaid, mid, old
        <5>3. new = old + PriceOf(rate, rows[m])
          BY <3>4, <4>1, <5>2
        <5> QED BY <3>8, <4>1, <5>1, <5>3 DEF HasPaid, new, old
      <4>2. CASE ~PaysRow(rows[m], a)
        <5>1. new = mid
          BY <3>4, <3>6, <4>2
        <5> QED BY <3>5, <3>8, <4>2, <5>1 DEF HasPaid, new, mid
      <4> QED BY <4>1, <4>2
    <3> QED BY <3>9
  <2> QED BY <2>1, <2>2
<1> HIDE DEF Good
<1>4. IsFiniteSet(D)
  BY RowsFinite
<1> HIDE DEF D
<1>5. Good = SUBSET D
  BY <1>2, <1>3, <1>4, SetInductive
<1> QED BY <1>1, <1>5 DEF Good, D

-----------------------------------------------------------------------------
(* The chain.  What a step of Chain is for Netmap and for Container: their *)
(* invariants hold on the chain because its steps are steps of theirs.     *)
(* NMP and CTP name their theorems; their definitions are those of NM and  *)
(* CT, and the lemmas below say so where a step or a value needs it.       *)
NMP == INSTANCE NetmapProofs WITH
        Attributes <- {"attributes"}, Contracts <- {"balance"},
        Signers <- {Everybody}, ConfigKeys <- {BasicIncomeRate},
        ConfigValues <- {Rate}, DefaultSnapshotCount <- 1,
        DefaultCleanupThreshold <- 0, MaxJump <- 1, MaxBlock <- MaxTime,
        SnapshotCounts <- {}, Thresholds <- {}
CTP == INSTANCE ContainerProofs WITH
        Cids <- {Cid},
        Content <- [c \in {Cid} |-> [owner |-> Owner, lock |-> 0, name |-> Nobody]],
        Names <- {}, NoName <- Nobody, Keys <- {}, AlphabetNodes <- {},
        ContainerFee <- 0, AliasFee <- 0, SECOND <- 1, HEADER <- 1, BASE <- 1,
        Contract <- "container", Committee <- Alphabet, Expire <- 1,
        Strangers <- {}, RecordSets <- {}, EACLs <- {FALSE}, Signers <- {Everybody},
        Receivers <- {}, Locks <- {}, Vectors <- {0}, ReplicaLists <- {<<1>>},
        Objects <- {1}, Limits <- {}, QuotaUsers <- {}, MaxRevision <- 1,
        Funds <- [a \in Accounts |-> 0], funds <- [a \in Accounts |-> 0],
        lastTick <- NM!LastEpochTime

LEMMA Settings == NMP!NetmapAssumption /\ CTP!ContainerAssumption
<1>1. NMP!NetmapAssumption
  BY ChainAssumption, BalanceAssumption DEF NMP!NetmapAssumption
<1>2. [c \in {Cid} |-> [owner |-> Owner, lock |-> 0, name |-> Nobody]]
         \in [{Cid} -> [owner : Accounts, lock : Nat, name : {} \cup {Nobody}]]
  BY ChainAssumption
<1>3. {<<1>>} \subseteq Seq(Nat)
  OBVIOUS
<1>4. CTP!IsFiniteSet({})
  BY FS_EmptySet DEF IsFiniteSet, CTP!IsFiniteSet
<1>5. [a \in Accounts |-> 0] \in [Accounts -> Nat]
  OBVIOUS
<1>6. /\ Nobody \notin {} /\ FALSE \in BOOLEAN
      /\ 1 \in Nat \ {0} /\ 0 \in Nat /\ {0} \subseteq Nat /\ {1} \subseteq Nat
      /\ {} \subseteq Accounts /\ {} \subseteq Nat /\ {} \subseteq Int
      /\ {} \subseteq SUBSET {Cid}
  OBVIOUS
<1>7. /\ EpochDuration \in Nat \ {0} /\ ObjectSize \in Nat /\ MaxReports \in Nat \ {0}
      /\ MaxTime \in Nat /\ Sizes \subseteq Nat
      /\ "container" \notin Accounts \cup {Alphabet}
  BY ChainAssumption
<1>8. CTP!ContainerAssumption
  BY <1>2, <1>3, <1>4, <1>5, <1>6, <1>7, Zenon DEF CTP!ContainerAssumption
<1> QED BY <1>1, <1>8

LEMMA NetmapTick ==
    NM!NewEpoch(Everybody, epoch + 1, now) => NMP!NewEpoch(Everybody, epoch + 1, now)
BY DEF NM!NewEpoch, NMP!NewEpoch, NM!Tick, NMP!Tick, NM!NotStale, NMP!NotStale,
       NM!EmitsVersion, NMP!EmitsVersion, NM!Put, NMP!Put, NM!View, NMP!View,
       NM!DropNetmaps, NMP!DropNetmaps, NM!LastEpochTime, NMP!LastEpochTime,
       NM!GetEpochTime, NMP!GetEpochTime, NM!Epoch, NMP!Epoch, NM!settings, NMP!settings

LEMMA NetmapUpdate ==
    ASSUME NEW n, NEW state, NM!UpdateState(Everybody, state, n)
    PROVE  NMP!UpdateState(Everybody, state, n)
BY DEF NM!UpdateState, NMP!UpdateState, NM!UpdateCandidateState,
       NMP!UpdateCandidateState, NM!Without, NMP!Without, NM!Offline, NMP!Offline,
       NM!Online, NMP!Online, NM!Maintenance, NMP!Maintenance, NM!Epoch, NMP!Epoch,
       NM!settings, NMP!settings, NM!mapVars, NMP!mapVars

LEMMA NetmapReads ==
    /\ \A e : NM!ListNodesEpoch(e) = NMP!ListNodesEpoch(e)
    /\ NM!LastEpochTime = NMP!LastEpochTime
BY DEF NM!ListNodesEpoch, NMP!ListNodesEpoch, NM!ListNodesVersion, NMP!ListNodesVersion,
       NM!NmVersionForEpoch, NMP!NmVersionForEpoch, NM!LatestKey, NMP!LatestKey,
       NM!Empty, NMP!Empty, NM!LastEpochTime, NMP!LastEpochTime,
       NM!GetEpochTime, NMP!GetEpochTime, NM!Epoch, NMP!Epoch

LEMMA ContainerTick == CT!NewEpoch => CTP!NewEpoch
BY DEF CT!NewEpoch, CTP!NewEpoch, CT!registry, CTP!registry, CT!aliases, CTP!aliases,
       CT!limits, CTP!limits,
       CT!members, CTP!members

LEMMA ContainerReport ==
    ASSUME NEW n, NEW size, CT!PutReport(Everybody, Cid, n, size, 1)
    PROVE  CTP!PutReport(Everybody, Cid, n, size, 1)
BY DEF CT!PutReport, CTP!PutReport, CT!IsMember, CTP!IsMember, CT!Put, CTP!Put,
       CT!FirstStat, CTP!FirstStat, CT!StatOfSameEpoch, CTP!StatOfSameEpoch,
       CT!StatOfNewEpoch, CTP!StatOfNewEpoch, CT!Load, CTP!Load, CT!Quotient,
       CTP!Quotient, CT!Duration, CTP!Duration, CT!EpochRest, CTP!EpochRest,
       CT!AddSpace, CTP!AddSpace, CT!OwnerOf, CTP!OwnerOf, CT!registry, CTP!registry,
       CT!aliases, CTP!aliases,
       CT!limits, CTP!limits, CT!members, CTP!members, CT!clock, CTP!clock

LEMMA ContainerCommit ==
    CT!CommitContainerListUpdate(Everybody, Cid, <<1>>)
       => CTP!CommitContainerListUpdate(Everybody, Cid, <<1>>)
BY DEF CT!CommitContainerListUpdate, CTP!CommitContainerListUpdate, CT!Leavers,
       CTP!Leavers, CT!IsMember, CTP!IsMember, CT!ReportsOf, CTP!ReportsOf, CT!SizeOf,
       CTP!SizeOf, CT!ObjectsOf, CTP!ObjectsOf, CT!SumFunctionOnSet,
       CTP!SumFunctionOnSet, CT!FoldFunctionOnSet, CTP!FoldFunctionOnSet,
       CT!MapThenFoldSet, CTP!MapThenFoldSet, CT!DropNodes, CTP!DropNodes,
       CT!AddSpace, CTP!AddSpace, CT!OwnerOf, CTP!OwnerOf, CT!registry, CTP!registry,
       CT!aliases, CTP!aliases,
       CT!limits, CTP!limits, CT!members, CTP!members, CT!clock, CTP!clock

LEMMA ContainerNodes ==
    ASSUME NEW N, CT!AddNextEpochNodes(Everybody, Cid, 0, N)
    PROVE  CTP!AddNextEpochNodes(Everybody, Cid, 0, N)
BY DEF CT!AddNextEpochNodes, CTP!AddNextEpochNodes, CT!registry, CTP!registry,
       CT!aliases, CTP!aliases,
       CT!limits, CTP!limits, CT!load, CTP!load, CT!clock, CTP!clock

LEMMA ContainerBlock ==
    ASSUME NEW t, CT!Block(t) PROVE CTP!Block(t)
BY DEF CT!Block, CTP!Block, CT!Load, CTP!Load, CT!registry, CTP!registry, CT!aliases,
       CTP!aliases,
       CT!limits, CTP!limits, CT!members, CTP!members

(* A step as the contracts see it.                                         *)
LEMMA ContainerSteps == ASSUME CTP!TypeInv, [ChainNext]_chainVars PROVE [CTP!Next]_(CTP!vars)
<1>0. Restless \subseteq Nodes
  BY ChainAssumption
<1>1. ASSUME UNCHANGED <<epoch, netmapVars, containerVars, clock>> PROVE UNCHANGED CTP!vars
  BY <1>1 DEF netmapVars, containerVars, clock, CTP!vars, CTP!registry, CTP!aliases,
       CTP!limits,
     CTP!members, CTP!load, CTP!clock, NM!LastEpochTime, NM!GetEpochTime, NM!Epoch
<1>2. CASE NetmapNewEpoch
  BY <1>2, ContainerTick DEF NetmapNewEpoch, TickSeen, CTP!Next
<1>3. ASSUME NEW n, NEW state, UpdateState(n, state) PROVE UNCHANGED CTP!vars
  <2>1. /\ UNCHANGED <<epoch, containerVars, clock>>
        /\ NMP!UpdateState(Everybody, state, n)
    BY <1>3, NetmapUpdate DEF UpdateState
  <2>2. UNCHANGED <<epoch, epochItems>>
    BY <2>1 DEF NMP!UpdateState, NMP!UpdateCandidateState, NMP!mapVars
  <2> QED BY <2>1, <2>2 DEF containerVars, clock, CTP!vars, CTP!registry, CTP!aliases,
       CTP!limits,
     CTP!members, CTP!load, CTP!clock, NM!LastEpochTime, NM!GetEpochTime, NM!Epoch
<1>4. ASSUME NEW n \in Nodes, NEW size \in Sizes, PutReport(n, size) PROVE CTP!Next
  BY <1>4, ContainerReport DEF PutReport, CTP!Next
<1>5. ASSUME NEW N \in SUBSET Nodes, AddNextEpochNodes(N) PROVE CTP!Next
  BY <1>5, ContainerNodes DEF AddNextEpochNodes, CTP!Next
<1>6. CASE CommitContainerListUpdate
  BY <1>6, ContainerCommit DEF CommitContainerListUpdate, CTP!Next
<1>7. CASE now < MaxTime /\ Block
  <2>1. now \in Nat /\ MaxTime \in Nat
    BY ChainAssumption DEF CTP!TypeInv, CTP!LoadInv, CTP!RegistryTypeOK
  <2>2. now + 1 \in CTP!Times
    BY <1>7, <2>1 DEF CTP!Times
  <2> QED BY <1>7, <2>2, ContainerBlock DEF Block, CTP!Next
<1>8. CASE SettlePayment(Cid)
  BY <1>1, <1>8 DEF SettlePayment, SettleContainerPayment
<1>9. CASE UNCHANGED chainVars
  BY <1>1, <1>9 DEF chainVars
<1> QED BY <1>0, <1>2, <1>3, <1>4, <1>5, <1>6, <1>7, <1>8, <1>9 DEF ChainNext

LEMMA NetmapSteps ==
    ASSUME epoch \in Nat, now \in 1..MaxTime, [ChainNext]_chainVars
    PROVE  /\ [NMP!Next]_(NMP!vars)
           /\ \/ NetmapNewEpoch
              \/ UNCHANGED <<epoch, netmaps, epochToNetmapVersion, history,
                             snapshotCount, config>>
<1>0. Restless \subseteq Nodes
  BY ChainAssumption
<1>1. ASSUME UNCHANGED <<epoch, netmapVars>>
      PROVE  UNCHANGED NMP!vars /\ UNCHANGED <<epoch, netmaps, epochToNetmapVersion, history,
                             snapshotCount, config>>
  BY <1>1 DEF netmapVars, NMP!vars
<1>2. CASE NetmapNewEpoch
  <2>1. NMP!NewEpoch(Everybody, epoch + 1, now)
    BY <1>2, NetmapTick DEF NetmapNewEpoch
  <2>2. epoch + 1 \in 1..MaxEpoch
    BY <2>1, BalanceAssumption DEF NMP!NewEpoch, NMP!Tick
  <2> QED BY <1>2, <2>1, <2>2 DEF NMP!Next
<1>3. ASSUME NEW n \in Nodes, NEW state \in {NM!Online, NM!Maintenance}, UpdateState(n, state)
      PROVE  NMP!Next /\ UNCHANGED <<epoch, netmaps, epochToNetmapVersion, history,
                             snapshotCount, config>>
  <2>1. NMP!UpdateState(Everybody, state, n) /\ state \in NMP!StateType
    BY <1>3, NetmapUpdate DEF UpdateState, NMP!StateType, NMP!Online, NMP!Maintenance,
       NM!Online, NM!Maintenance
  <2> QED BY <2>1 DEF NMP!Next, NMP!UpdateState, NMP!UpdateCandidateState, NMP!mapVars, NMP!settings
<1>4. CASE \/ \E n, size : PutReport(n, size)
           \/ \E N : AddNextEpochNodes(N)
           \/ CommitContainerListUpdate \/ Block
  BY <1>1, <1>4 DEF PutReport, AddNextEpochNodes, CommitContainerListUpdate, Block, OthersUnchanged
<1>5. CASE SettlePayment(Cid)
  BY <1>1, <1>5 DEF SettlePayment, SettleContainerPayment
<1>6. CASE UNCHANGED chainVars
  BY <1>1, <1>6 DEF chainVars
<1> QED BY <1>0, <1>2, <1>3, <1>4, <1>5, <1>6 DEF ChainNext

-----------------------------------------------------------------------------
(* The invariant of the chain: the ledger is backed, Netmap answers for    *)
(* the last epoch with the map it had, statistics fit the reports, and     *)
(* what they will be billed for is what was owed when the epoch ended.     *)
(* The epoch before the current one is answered with the map it had.       *)
MapInv ==
    /\ NMP!Inv /\ snapshotCount = 1
    /\ epoch >= 1 /\ epoch - 1 \in DOMAIN history
    /\ NMP!ListNodesEpoch(epoch - 1) = history[epoch - 1]
    /\ config = {<<BasicIncomeRate, Rate>>}

(* What the reports of the members will be billed for.                     *)
ReportsInv ==
    /\ CTP!TypeInv /\ CTP!StatsFit
    /\ now \in 1..MaxTime
    /\ \A p \in DOMAIN area : area[p].this \in Nat
    /\ DOMAIN info = {Cid} /\ info[Cid].owner = Owner

(* What is owed to a node is what its report will be billed for, unless it *)
(* left the container since the tick; then a new report counts from zero.  *)
IsOwed(n) == <<Cid, n>> \in DOMAIN owed /\ n \notin gone
OwedInv ==
    /\ \A p \in DOMAIN owed : owed[p] \in Nat
    /\ \A n \in Nodes :
          /\ IsOwed(n) => HasReport(Cid, n)
          /\ HasReport(Cid, n) =>
                area[<<Cid, n>>].last = IF IsOwed(n) THEN owed[<<Cid, n>>] ELSE 0

ChainInv == LedgerInv /\ MapInv /\ ReportsInv /\ OwedInv

LEMMA SameEpoch ==
    ASSUME NEW e
    PROVE  e = epoch - 1 => NMP!ListNodesEpoch(epoch - 1) = NMP!ListNodesEpoch(e)
OBVIOUS

LEMMA MapStep ==
    ASSUME MapInv, epoch \in Nat, now \in 1..MaxTime, [ChainNext]_chainVars
    PROVE  MapInv'
<1>1. [NMP!Next]_(NMP!vars)
  BY NetmapSteps
<1>2. NMP!Inv'
  BY <1>1, Settings, NMP!NextInv DEF MapInv
<1>3. CASE UNCHANGED <<epoch, netmaps, epochToNetmapVersion, history,
                       snapshotCount, config>>
  <2>1. NMP!ListNodesEpoch(epoch - 1)' = NMP!ListNodesEpoch(epoch - 1)
    BY <1>3 DEF NMP!ListNodesEpoch, NMP!ListNodesVersion, NMP!NmVersionForEpoch,
       NMP!LatestKey, NMP!Empty
  <2> QED BY <1>2, <1>3, <2>1 DEF MapInv
<1>4. CASE NetmapNewEpoch
  <2>1. NMP!NewEpoch(Everybody, epoch + 1, now)
    BY <1>4, NetmapTick DEF NetmapNewEpoch
  <2>2. /\ epoch' = epoch + 1 /\ epoch \in 0..MaxEpoch
        /\ \E h : history' = NMP!Put(history, epoch + 1, h)
        /\ UNCHANGED <<snapshotCount, config>>
    BY <2>1, BalanceAssumption DEF NMP!NewEpoch, NMP!Tick, NMP!settings
  <2>3. PICK e \in 0..MaxEpoch : e = epoch
    BY <2>2
  <2>4. NMP!ListNodesEpoch(e)' = NMP!ListNodes
    <3>1. e >= epoch /\ e + 1 = epoch' /\ snapshotCount >= 1 /\ NMP!Inv
      BY <2>2, <2>3 DEF MapInv
    <3> QED BY <1>1, <3>1, Settings, NMP!PreviousKept
  <2>5. NMP!ListNodes = history[epoch] /\ epoch \in DOMAIN history
    <3>1. NMP!IndexInv /\ NMP!RetentionRun /\ NMP!TypeOK
      BY DEF MapInv, NMP!Inv
    <3>2. PICK k \in DOMAIN epochToNetmapVersion :
             /\ epochToNetmapVersion[k] = netmapVersion
             /\ netmapVersion \in DOMAIN netmaps \cup {0}
                  => NMP!ListNodesVersion(netmapVersion) = history[epoch]
      BY <3>1 DEF NMP!IndexInv
    <3>3. netmapVersion \in DOMAIN netmaps \cup {0}
      BY <3>1 DEF NMP!RetentionRun
    <3> QED BY <3>1, <3>2, <3>3 DEF NMP!IndexInv, NMP!ListNodes, NMP!NetworkMapVersion
  <2>6. history'[epoch] = history[epoch] /\ epoch \in DOMAIN history'
    BY <2>2, <2>5 DEF NMP!Put
  <2>7. epoch' - 1 = epoch /\ epoch' >= 1
    BY <2>2
  <2>8. epoch' - 1 = e
    BY <2>2, <2>3
  <2>9. NMP!ListNodesEpoch(epoch - 1)' = NMP!ListNodesEpoch(e)'
    <3>1. (e = epoch - 1 => NMP!ListNodesEpoch(epoch - 1) = NMP!ListNodesEpoch(e))'
      BY SameEpoch, PTL
    <3> QED BY <2>8, <3>1
  <2>10. history'[e] = history[e] /\ e \in DOMAIN history'
    BY <2>3, <2>6
  <2>11. (NMP!ListNodesEpoch(epoch - 1) = history[epoch - 1])'
    BY <2>3, <2>4, <2>5, <2>8, <2>9, <2>10
  <2>12. (snapshotCount = 1 /\ config = {<<BasicIncomeRate, Rate>>})'
    BY <2>2 DEF MapInv
  <2>13. (epoch >= 1 /\ epoch - 1 \in DOMAIN history)'
    BY <2>3, <2>7, <2>8, <2>10
  <2> QED BY <1>2, <2>11, <2>12, <2>13 DEF MapInv
<1> QED BY <1>3, <1>4, NetmapSteps

LEMMA ReportTypes ==
    ASSUME ReportsInv
    PROVE  /\ DOMAIN area = DOMAIN reports /\ DOMAIN reports \subseteq {Cid} \X Nodes
           /\ DOMAIN reports \subseteq DOMAIN stats
           /\ \A p \in DOMAIN reports : /\ area[p] \in [last : Int, this : Int]
                                        /\ area[p].this \in Nat
                                        /\ reports[p].size \in Nat /\ reports[p].objs \in Nat
           /\ NM!LastEpochTime \in Nat /\ now \in Nat /\ NM!LastEpochTime <= now
<1>1. /\ CTP!Partial(reports, {Cid} \X Nodes, CTP!NodeReport)
      /\ CTP!Partial(area, {Cid} \X Nodes, [last : Int, this : Int])
      /\ DOMAIN area = DOMAIN reports /\ DOMAIN reports \subseteq DOMAIN stats
      /\ NM!LastEpochTime \in Nat /\ now \in Nat /\ NM!LastEpochTime <= now
  BY DEF ReportsInv, CTP!TypeInv, CTP!LoadInv, CTP!LoadTypes, CTP!StatTypes, CTP!RegistryTypeOK
<1>2. \A p \in DOMAIN reports : reports[p].size \in Nat /\ reports[p].objs \in Nat
  BY <1>1 DEF CTP!Partial, CTP!NodeReport
<1> QED BY <1>1, <1>2 DEF CTP!Partial, ReportsInv

(* What a step makes of the reports and of what is owed for them.          *)
TickSteps ==
    /\ area' = [p \in DOMAIN area |-> [last |-> area[p].this, this |-> 0]]
    /\ owed' = [p \in DOMAIN area |-> area[p].this] /\ gone' = {}
    /\ UNCHANGED <<reports, now, info>>
ReportSteps(n, size) ==
    LET p == <<Cid, n>> IN
    /\ \E r : reports' = CTP!Put(reports, p, r)
    /\ area' = IF p \in DOMAIN reports THEN area
               ELSE CTP!Put(area, p, [last |-> 0,
                      this |-> CTP!Load(size, 1) * (now - NM!LastEpochTime)])
    /\ UNCHANGED <<owed, gone, now, info>>
CommitSteps(N) ==
    /\ reports' = CTP!DropNodes(reports, Cid, N) /\ area' = CTP!DropNodes(area, Cid, N)
    /\ gone' = gone \cup N
    /\ UNCHANGED <<owed, now, info>>
BlockSteps ==
    /\ now' = now + 1 /\ now' <= MaxTime
    /\ area' = [p \in DOMAIN area |-> [area[p] EXCEPT !.this =
                  @ + CTP!Load(reports[p].size, reports[p].objs) * (now' - now)]]
    /\ UNCHANGED <<reports, owed, gone, info>>
SameReports == UNCHANGED <<reports, area, owed, gone, now, info>>

LEMMA ReportKinds ==
    ASSUME ReportsInv, [ChainNext]_chainVars
    PROVE  \/ TickSteps
           \/ \E n \in Nodes, size \in Sizes : ReportSteps(n, size)
           \/ CommitSteps(CTP!Leavers(Cid, <<1>>))
           \/ BlockSteps \/ SameReports
<1>0. now \in Nat
  BY ReportTypes
<1>1. CASE NetmapNewEpoch
  BY <1>1, ContainerTick DEF NetmapNewEpoch, TickSeen, TickSteps, CTP!NewEpoch,
       CTP!registry, CTP!aliases
<1>2. ASSUME NEW n \in Nodes, NEW size \in Sizes, PutReport(n, size)
      PROVE  ReportSteps(n, size)
  <2>1. CTP!PutReport(Everybody, Cid, n, size, 1) /\ UNCHANGED <<owed, gone>>
    BY <1>2, ContainerReport DEF PutReport, OthersUnchanged
  <2>2. UNCHANGED <<now, info>>
    BY <2>1 DEF CTP!PutReport, CTP!registry, CTP!aliases, CTP!clock
  <2>3. /\ \E r : reports' = CTP!Put(reports, <<Cid, n>>, r)
        /\ area' = IF <<Cid, n>> \in DOMAIN reports THEN area
               ELSE CTP!Put(area, <<Cid, n>>, [last |-> 0,
                      this |-> CTP!Load(size, 1) * (now - NM!LastEpochTime)])
    BY <2>1 DEF CTP!PutReport
  <2> QED BY <2>1, <2>2, <2>3 DEF ReportSteps
<1>3. CASE CommitContainerListUpdate
  <2>1. CTP!CommitContainerListUpdate(Everybody, Cid, <<1>>)
    BY <1>3, ContainerCommit DEF CommitContainerListUpdate
  <2>2. /\ UNCHANGED <<now, info, owed>>
        /\ reports' = CTP!DropNodes(reports, Cid, CTP!Leavers(Cid, <<1>>))
        /\ area' = CTP!DropNodes(area, Cid, CTP!Leavers(Cid, <<1>>))
        /\ nodes' = [nodes EXCEPT ![Cid] = nextNodes[Cid]]
    BY <1>3, <2>1 DEF CommitContainerListUpdate, OthersUnchanged,
       CTP!CommitContainerListUpdate, CTP!registry, CTP!aliases, CTP!clock
  <2>3. nodes'[Cid] = nextNodes[Cid]
    BY <2>2 DEF ReportsInv, CTP!TypeInv, CTP!BookTypes
  <2>4. \A n \in Nodes : CT!IsMember(Cid, n)' <=> <<0, n>> \in nextNodes[Cid]
    BY <2>3 DEF CT!IsMember
  <2>5. \A n \in Nodes : CT!IsMember(Cid, n) <=> CTP!IsMember(Cid, n)
    BY DEF CT!IsMember, CTP!IsMember
  <2>6. CTP!Leavers(Cid, <<1>>) = {n \in Nodes : CTP!IsMember(Cid, n)
                                      /\ <<0, n>> \notin nextNodes[Cid]}
    BY DEF CTP!Leavers
  <2>7. gone' = gone \cup CTP!Leavers(Cid, <<1>>)
    BY <1>3, <2>4, <2>5, <2>6 DEF CommitContainerListUpdate
  <2> QED BY <2>2, <2>7 DEF CommitSteps
<1>4. CASE now < MaxTime /\ Block
  <2>1. CTP!Block(now + 1) /\ UNCHANGED <<owed, gone>>
    BY <1>4, ContainerBlock DEF Block, OthersUnchanged
  <2>2. now + 1 <= MaxTime
    BY <1>0, <1>4, ChainAssumption
  <2>3. now' = now + 1 /\ UNCHANGED <<reports, info>>
    BY <2>1 DEF CTP!Block, CTP!registry, CTP!aliases
  <2>4. area' = [p \in DOMAIN area |-> [area[p] EXCEPT !.this =
                  @ + CTP!Load(reports[p].size, reports[p].objs) * ((now + 1) - now)]]
    BY <2>1, Zenon DEF CTP!Block
  <2> QED BY <2>1, <2>2, <2>3, <2>4 DEF BlockSteps
<1>5. CASE \/ \E n, state : UpdateState(n, state)
           \/ SettlePayment(Cid) \/ UNCHANGED chainVars
  BY <1>5 DEF UpdateState, SettlePayment, chainVars, containerVars, clock, SameReports
<1>6. ASSUME NEW N, AddNextEpochNodes(N) PROVE SameReports
  BY <1>6, ContainerNodes DEF AddNextEpochNodes, OthersUnchanged, CTP!AddNextEpochNodes,
     CTP!registry, CTP!aliases, CTP!load, CTP!clock, SameReports
<1> QED BY <1>1, <1>2, <1>3, <1>4, <1>5, <1>6 DEF ChainNext

(* No load was ever negative.                                              *)
LEMMA AreaStep ==
    ASSUME ReportsInv, [ChainNext]_chainVars
    PROVE  /\ \A p \in DOMAIN area' : area'[p].this \in Nat
           /\ now' \in 1..MaxTime /\ info' = info
<1>1. /\ DOMAIN area = DOMAIN reports
      /\ \A p \in DOMAIN area : area[p] \in [last : Int, this : Int] /\ area[p].this \in Nat
      /\ \A p \in DOMAIN reports : CTP!Load(reports[p].size, reports[p].objs) \in Nat
      /\ now \in 1..MaxTime /\ NM!LastEpochTime \in Nat /\ NM!LastEpochTime <= now
      /\ now \in Nat /\ MaxTime \in Nat
  BY ReportTypes, Settings, CTP!LoadType, ChainAssumption DEF ReportsInv
<1>2. CASE TickSteps
  BY <1>1, <1>2 DEF TickSteps
<1>3. ASSUME NEW n \in Nodes, NEW size \in Sizes, ReportSteps(n, size)
      PROVE  /\ \A p \in DOMAIN area' : area'[p].this \in Nat
             /\ now' \in 1..MaxTime /\ info' = info
  <2> DEFINE l == CTP!Load(size, 1)
             d == now - NM!LastEpochTime
  <2>1. l \in Nat
    <3>1. size \in Nat /\ 1 \in Nat
      BY ChainAssumption
    <3> QED BY <3>1, Settings, CTP!LoadType
  <2>2. d \in Nat
    BY <1>1
  <2>3. /\ area' = IF <<Cid, n>> \in DOMAIN reports THEN area
                   ELSE CTP!Put(area, <<Cid, n>>, [last |-> 0, this |-> l * d])
        /\ UNCHANGED <<now, info>>
    BY <1>3 DEF ReportSteps
  <2> HIDE DEF l, d
  <2>4. l * d \in Nat
    BY <2>1, <2>2
  <2> QED BY <1>1, <2>3, <2>4 DEF CTP!Put
<1>4. CASE CommitSteps(CTP!Leavers(Cid, <<1>>))
  BY <1>1, <1>4 DEF CommitSteps, CTP!DropNodes
<1>5. CASE BlockSteps
  <2>1. now' = now + 1 /\ now' <= MaxTime /\ info' = info
    BY <1>5 DEF BlockSteps
  <2>2. now' - now = 1
    BY <1>1, <2>1
  <2>3. \A p \in DOMAIN area : area'[p].this =
           area[p].this + CTP!Load(reports[p].size, reports[p].objs) * 1
    BY <1>1, <1>5, <2>2 DEF BlockSteps
  <2>4. DOMAIN area' = DOMAIN area
    BY <1>5 DEF BlockSteps
  <2> QED BY <1>1, <2>1, <2>3, <2>4
<1>6. CASE SameReports
  BY <1>1, <1>6 DEF SameReports
<1> QED BY <1>2, <1>3, <1>4, <1>5, <1>6, ReportKinds

LEMMA ReportsStep ==
    ASSUME ReportsInv, [ChainNext]_chainVars
    PROVE  ReportsInv'
<1>1. [CTP!Next]_(CTP!vars)
  BY ContainerSteps DEF ReportsInv
<1>2. CTP!TypeInv'
  BY <1>1, Settings, CTP!TypeStep DEF ReportsInv
<1>3. CTP!StatsFit'
  BY <1>1, Settings, CTP!StatsFitStep DEF ReportsInv
<1> QED BY <1>2, <1>3, AreaStep DEF ReportsInv

LEMMA OwedStep ==
    ASSUME ReportsInv, OwedInv, [ChainNext]_chainVars
    PROVE  OwedInv'
<1>1. /\ DOMAIN area = DOMAIN reports
      /\ \A p \in DOMAIN area : area[p] \in [last : Int, this : Int] /\ area[p].this \in Nat
  BY ReportTypes
<1>2. CASE TickSteps
  BY <1>1, <1>2 DEF OwedInv, TickSteps, IsOwed, HasReport
<1>3. ASSUME NEW n \in Nodes, NEW size \in Sizes, ReportSteps(n, size) PROVE OwedInv'
  <2> DEFINE p == <<Cid, n>>
  <2>1. /\ DOMAIN reports' = DOMAIN reports \cup {p}
        /\ p \in DOMAIN reports => area' = area
        /\ p \notin DOMAIN reports => area'[p].last = 0
        /\ \A q \in DOMAIN reports : q # p => area'[q] = area[q]
        /\ UNCHANGED <<owed, gone>>
    BY <1>1, <1>3 DEF ReportSteps, CTP!Put
  <2>2. \A m \in Nodes : /\ IsOwed(m)' <=> IsOwed(m)
                         /\ HasReport(Cid, m)' <=> HasReport(Cid, m) \/ m = n
    BY <2>1 DEF IsOwed, HasReport
  <2>3. ASSUME NEW m \in Nodes, HasReport(Cid, m)'
        PROVE  area'[<<Cid, m>>].last = IF IsOwed(m) THEN owed[<<Cid, m>>] ELSE 0
    <3>1. CASE HasReport(Cid, m)
      <4>1. area'[<<Cid, m>>] = area[<<Cid, m>>]
        BY <2>1, <3>1 DEF HasReport
      <4> QED BY <3>1, <4>1 DEF OwedInv
    <3>2. CASE ~HasReport(Cid, m)
      <4>1. m = n /\ ~IsOwed(m)
        BY <2>2, <2>3, <3>2 DEF OwedInv
      <4> QED BY <2>1, <3>2, <4>1 DEF HasReport
    <3> QED BY <3>1, <3>2
  <2> QED BY <2>1, <2>2, <2>3 DEF OwedInv
<1>4. CASE CommitSteps(CTP!Leavers(Cid, <<1>>))
  <2> DEFINE N == CTP!Leavers(Cid, <<1>>)
  <2>1. /\ DOMAIN reports' = {q \in DOMAIN reports : ~(q[1] = Cid /\ q[2] \in N)}
        /\ DOMAIN area' = DOMAIN reports'
        /\ \A q \in DOMAIN reports' : area'[q] = area[q]
        /\ gone' = gone \cup N /\ UNCHANGED owed
    <3> HIDE DEF N
    <3> QED BY <1>1, <1>4 DEF CommitSteps, CTP!DropNodes, N
  <2> HIDE DEF N
  <2>2. \A m \in Nodes : /\ IsOwed(m)' <=> IsOwed(m) /\ m \notin N
                         /\ HasReport(Cid, m)' <=> HasReport(Cid, m) /\ m \notin N
    BY <2>1 DEF IsOwed, HasReport
  <2>3. \A m \in Nodes : HasReport(Cid, m)' => area'[<<Cid, m>>] = area[<<Cid, m>>]
    BY <2>1 DEF HasReport
  <2> QED BY <2>1, <2>2, <2>3 DEF OwedInv
<1>5. CASE BlockSteps
  <2>1. /\ UNCHANGED <<reports, owed, gone>>
        /\ \A p \in DOMAIN reports : area'[p].last = area[p].last
    BY <1>1, <1>5 DEF BlockSteps
  <2> QED BY <2>1 DEF OwedInv, IsOwed, HasReport
<1>6. CASE SameReports
  BY <1>6 DEF OwedInv, IsOwed, HasReport, SameReports
<1> QED BY <1>2, <1>3, <1>4, <1>5, <1>6, ReportKinds

-----------------------------------------------------------------------------
(* What the settlement reads and pays.  The loop over the statistics makes *)
(* one row for each node that has any, by induction over the positions of  *)
(* the key order.                                                          *)
(* The statistics that a settlement bills, row by row.                     *)
HasStat(c, a) == <<c, a>> \in DOMAIN stats
IsRowOf(c, T, r) ==
    \E k \in T : HasStat(c, AccountOrder[k]) /\ r = BillingRow(c, AccountOrder[k])
RowsOf(c, T, rows) ==
    /\ \A i \in DOMAIN rows : IsRowOf(c, T, rows[i])
    /\ \A i, j \in DOMAIN rows : rows[i].account = rows[j].account => i = j
    /\ \A k \in T : HasStat(c, AccountOrder[k]) =>
          \E i \in DOMAIN rows : rows[i] = BillingRow(c, AccountOrder[k])

WithRow(c, rows, a) == IF HasStat(c, a) THEN Append(rows, BillingRow(c, a)) ELSE rows
RowRuns(f, c) ==
    /\ f \in [SUBSET Rounds -> Seq(BillingStat)]
    /\ \A T \in SUBSET Rounds :
          f[T] = IF T = {} THEN <<>>
                 ELSE WithRow(c, f[T \ {Max(T)}], AccountOrder[Max(T)])

LEMMA RowType ==
    ASSUME NEW c, NEW a \in Accounts, HasStat(c, a), \A p \in DOMAIN stats : stats[p] \in EpochBillingStat
    PROVE  BillingRow(c, a) \in BillingStat
<1>1. HasReport(c, a) \in BOOLEAN /\ WasOnline(a) \in BOOLEAN
  BY DEF HasReport, WasOnline, NM!IsStorageNodeStatus
<1>2. stats[<<c, a>>] \in EpochBillingStat
  BY DEF HasStat
<1> QED BY <1>1, <1>2 DEF BillingRow, BillingStat

LEMMA StatsRuns ==
    ASSUME NEW c, \A p \in DOMAIN stats : stats[p] \in EpochBillingStat
    PROVE  \E f : RowRuns(f, c) /\ BillingStats(c) = f[Rounds]
<1> DEFINE pick == [T \in SUBSET Rounds |-> Max(T)]
           Val == Seq(BillingStat)
           F == [p \in Val \X Rounds |-> WithRow(c, p[1], AccountOrder[p[2]])]
           Body(f) == [T \in SUBSET Rounds |-> IF T = {} THEN <<>>
                 ELSE WithRow(c, f[T \ {Max(T)}], AccountOrder[Max(T)])]
           iter == CHOOSE f : f = Body(f)
<1>1. BillingStats(c) = iter[Rounds]
  BY DEF BillingStats, FoldLeft, MapThenFoldSet, WithRow, HasStat, Rounds
<1>2. \A k \in Rounds : AccountOrder[k] \in Accounts
  BY BalanceAssumption DEF Rounds
<1>3. IsFiniteSet(Rounds) /\ \A T \in SUBSET Rounds : T # {} => Max(T) \in T
  BY RoundsFinite
<1>5. <<>> \in Val
  OBVIOUS
<1>6. ASSUME NEW t \in Val, NEW k \in Rounds PROVE WithRow(c, t, AccountOrder[k]) \in Val
  <2>1. HasStat(c, AccountOrder[k]) => BillingRow(c, AccountOrder[k]) \in BillingStat
    BY <1>2, RowType
  <2> QED BY <2>1 DEF WithRow
<1> HIDE DEF Val
<1>7. F \in [Val \X Rounds -> Val]
  BY <1>6
<1>8. PICK g \in [SUBSET Rounds -> Val] : FoldsUp(g, <<>>, F, pick, Rounds)
  <2>1. \A T \in SUBSET Rounds : T # {} => pick[T] \in T
    BY <1>3
  <2> HIDE DEF pick, F, Body, iter
  <2> QED BY <1>3, <1>5, <1>7, <2>1, FoldExists
<1>9. g = Body(g)
  <2>1. ASSUME NEW T \in SUBSET Rounds, T # {}
        PROVE  g[T] = WithRow(c, g[T \ {Max(T)}], AccountOrder[Max(T)])
    <3>1. Max(T) \in Rounds /\ T \ {Max(T)} \in SUBSET Rounds /\ pick[T] = Max(T)
      BY <1>3, <2>1
    <3>2. g[T] = F[<<g[T \ {Max(T)}], Max(T)>>]
      BY <1>8, <2>1, <3>1 DEF FoldsUp
    <3>3. <<g[T \ {Max(T)}], Max(T)>> \in Val \X Rounds
      BY <3>1
    <3> HIDE DEF pick
    <3> QED BY <3>2, <3>3
  <2>2. g[{}] = <<>>
    BY <1>8 DEF FoldsUp
  <2> HIDE DEF pick, F
  <2> QED BY <2>1, <2>2
<1>10. iter = Body(iter)
  BY <1>9
<1> HIDE DEF iter, pick, F
<1>11. /\ iter[{}] = <<>>
       /\ \A T \in SUBSET Rounds : T # {} =>
            iter[T] = WithRow(c, iter[T \ {Max(T)}], AccountOrder[Max(T)])
       /\ iter = [T \in SUBSET Rounds |-> iter[T]]
  BY <1>10
<1> DEFINE Good == {T \in SUBSET Rounds : iter[T] \in Val}
<1>12. Good \in SUBSET (SUBSET Rounds)
  OBVIOUS
<1>13. ASSUME NEW T \in SUBSET Rounds, \A x \in T : T \ {x} \in Good
       PROVE  T \in Good
  <2>1. CASE T = {}
    BY <1>5, <1>11, <2>1
  <2>2. CASE T # {}
    <3>1. Max(T) \in Rounds /\ iter[T \ {Max(T)}] \in Val
      BY <1>3, <1>13, <2>2
    <3>2. WithRow(c, iter[T \ {Max(T)}], AccountOrder[Max(T)]) \in Val
      BY <3>1, <1>6
    <3> QED BY <3>2, <1>11, <2>2
  <2> QED BY <2>1, <2>2
<1> HIDE DEF Good
<1>14. Good = SUBSET Rounds
  BY <1>3, <1>12, <1>13, SetInductive
<1>15. iter \in [SUBSET Rounds -> Val]
  BY <1>11, <1>14 DEF Good
<1> QED BY <1>1, <1>11, <1>15 DEF RowRuns, Val

LEMMA BillingRows ==
    ASSUME NEW c, \A p \in DOMAIN stats : stats[p] \in EpochBillingStat
    PROVE  BillingStats(c) \in Seq(BillingStat) /\ RowsOf(c, Rounds, BillingStats(c))
<1>1. PICK f : RowRuns(f, c) /\ BillingStats(c) = f[Rounds]
  BY StatsRuns
<1> DEFINE Good == {T \in SUBSET Rounds : RowsOf(c, T, f[T])}
<1>2. Good \in SUBSET (SUBSET Rounds)
  OBVIOUS
<1>3. ASSUME NEW T \in SUBSET Rounds, \A x \in T : T \ {x} \in Good
      PROVE  T \in Good
  <2>1. CASE T = {}
    <3>1. f[T] = <<>>
      BY <1>1, <2>1 DEF RowRuns
    <3> QED BY <2>1, <3>1 DEF RowsOf
  <2>2. CASE T # {}
    <3> DEFINE m == Max(T)
               S == T \ {m}
               old == f[S]
               new == f[T]
               a == AccountOrder[m]
    <3>1. m \in T /\ m \in Rounds /\ S \in SUBSET Rounds /\ S \in Good
      BY <1>3, <2>2, RoundsFinite
    <3>2. old \in Seq(BillingStat) /\ RowsOf(c, S, old) /\ new = WithRow(c, old, a)
      BY <1>1, <2>2, <3>1 DEF RowRuns
    <3>3. T = S \cup {m} /\ m \notin S
      BY <3>1
    <3>4. \A k \in Rounds : AccountOrder[k] = a => k = m
      BY <3>1, ChainAssumption DEF Rounds, IsInjective
    <3>5. \A k \in S : k \in Rounds
      BY <3>1
    <3> HIDE DEF m, S, old, new
    <3>6. CASE ~HasStat(c, a)
      <4>1. new = old
        BY <3>2, <3>6 DEF WithRow
      <4>2. \A i \in DOMAIN old : IsRowOf(c, T, old[i])
        BY <3>2, <3>3 DEF RowsOf, IsRowOf
      <4>3. \A k \in T : HasStat(c, AccountOrder[k]) => k \in S
        BY <3>3, <3>6
      <4>4. RowsOf(c, T, old)
        BY <3>2, <4>2, <4>3 DEF RowsOf
      <4> QED BY <4>1, <4>4 DEF new
    <3>7. CASE HasStat(c, a)
      <4> DEFINE r == BillingRow(c, a)
                 n == Len(old) + 1
      <4>1. /\ DOMAIN new = DOMAIN old \cup {n} /\ new[n] = r /\ n \notin DOMAIN old
            /\ \A i \in DOMAIN old : new[i] = old[i]
        <5>1. new = Append(old, r)
          BY <3>2, <3>7 DEF WithRow
        <5> HIDE DEF r
        <5> QED BY <3>2, <5>1
      <4>2. r.account = a
        BY DEF BillingRow
      <4>3. \A i \in DOMAIN old : IsRowOf(c, S, old[i]) /\ IsRowOf(c, T, old[i])
        BY <3>2, <3>3 DEF RowsOf, IsRowOf
      <4>4. IsRowOf(c, T, r)
        BY <3>1, <3>7 DEF IsRowOf
      <4>5. \A i \in DOMAIN old : old[i].account # a
        <5> SUFFICES ASSUME NEW i \in DOMAIN old PROVE old[i].account # a
          OBVIOUS
        <5>1. PICK k \in S : old[i] = BillingRow(c, AccountOrder[k])
          BY <4>3 DEF IsRowOf
        <5>2. old[i].account = AccountOrder[k]
          BY <5>1 DEF BillingRow
        <5> QED BY <3>3, <3>4, <3>5, <5>2
      <4> HIDE DEF r, n, a
      <4>6. \A i \in DOMAIN new : IsRowOf(c, T, new[i])
        BY <4>1, <4>3, <4>4
      <4>7. \A i, j \in DOMAIN new : new[i].account = new[j].account => i = j
        BY <3>2, <4>1, <4>2, <4>5 DEF RowsOf
      <4>8. \A k \in T : HasStat(c, AccountOrder[k]) =>
               \E i \in DOMAIN new : new[i] = BillingRow(c, AccountOrder[k])
        BY <3>2, <3>3, <4>1 DEF RowsOf, r, a
      <4> QED BY <4>6, <4>7, <4>8 DEF RowsOf, new
    <3> QED BY <3>6, <3>7
  <2> QED BY <2>1, <2>2
<1> HIDE DEF Good
<1>4. Good = SUBSET Rounds
  BY RoundsFinite, <1>2, <1>3, SetInductive
<1> QED BY <1>1, <1>4 DEF Good, RowRuns

LEMMA StatsAre ==
    ASSUME ReportsInv
    PROVE  /\ DOMAIN stats \subseteq {Cid} \X Nodes
           /\ \A p \in DOMAIN stats : stats[p] \in EpochBillingStat
<1>1. CTP!Partial(stats, {Cid} \X Nodes, CTP!EpochBillingStat)
  BY DEF ReportsInv, CTP!TypeInv, CTP!StatTypes
<1> QED BY <1>1 DEF CTP!Partial, CTP!EpochBillingStat, EpochBillingStat

LEMMA SettlesWith ==
    ASSUME ReportsInv, MapInv, SettlePayment(Cid)
    PROVE  /\ Cid \in Containers /\ Owner \in Accounts /\ Rate \in Nat
           /\ BillingStats(Cid) \in Seq(BillingStat)
           /\ RowsOf(Cid, Rounds, BillingStats(Cid))
           /\ SettleContainerPayment(Everybody, Cid, Owner, Rate, BillingStats(Cid))
<1>1. CT!OwnerOf(Cid) = Owner
  BY DEF CT!OwnerOf, ReportsInv
<1>2. CurrentRate = Rate
  <2>1. config = {<<BasicIncomeRate, Rate>>}
    BY DEF MapInv
  <2>2. (CHOOSE r \in {<<BasicIncomeRate, Rate>>} : r[1] = BasicIncomeRate)
           = <<BasicIncomeRate, Rate>>
    OBVIOUS
  <2> QED BY <2>1, <2>2 DEF CurrentRate
<1>3. SettleContainerPayment(Everybody, Cid, Owner, Rate, BillingStats(Cid))
  BY <1>1, <1>2 DEF SettlePayment
<1>4. Cid \in Containers /\ Owner \in Accounts /\ Rate \in Nat
  BY ChainAssumption
<1> QED BY <1>3, <1>4, StatsAre, BillingRows

LEMMA TokensStep ==
    ASSUME ReportsInv, MapInv, LedgerInv, [ChainNext]_chainVars
    PROVE  LedgerInv'
<1>1. CASE NetmapNewEpoch
  <2>1. NewEpoch(Everybody, epoch + 1)
    BY <1>1 DEF NetmapNewEpoch, TickSeen
  <2>2. epoch + 1 \in 1..MaxEpoch
    BY <2>1, BalanceAssumption DEF NewEpoch, LedgerInv
  <2> QED BY <2>1, <2>2, TickLedger
<1>2. CASE SettlePayment(Cid)
  BY <1>2, SettlesWith, SettleLedger
<1>3. CASE UNCHANGED <<epoch, balanceVars>>
  BY <1>3 DEF balanceVars, ledger, LedgerInv, Total, Held
<1>4. [ChainNext]_chainVars =>
         NetmapNewEpoch \/ SettlePayment(Cid) \/ UNCHANGED <<epoch, balanceVars>>
  BY DEF ChainNext, UpdateState, PutReport, AddNextEpochNodes, CommitContainerListUpdate,
     Block, OthersUnchanged, chainVars
<1> QED BY <1>1, <1>2, <1>3, <1>4

LEMMA ChainStep == ChainInv /\ [ChainNext]_chainVars => ChainInv'
<1> SUFFICES ASSUME ChainInv, [ChainNext]_chainVars PROVE ChainInv'
  OBVIOUS
<1>1. LedgerInv /\ MapInv /\ ReportsInv /\ OwedInv
  BY DEF ChainInv
<1>2. LedgerInv'
  BY <1>1, TokensStep
<1>3. MapInv'
  BY <1>1, MapStep DEF LedgerInv, ReportsInv
<1>4. ReportsInv'
  BY <1>1, ReportsStep
<1>5. OwedInv'
  BY <1>1, OwedStep
<1> QED BY <1>2, <1>3, <1>4, <1>5 DEF ChainInv

(* Who is paid how much when a container is marked paid.                   *)
Billed(n) == BilledSize(stats[<<Cid, n>>], epoch)
LEMMA PaymentStep ==
    ASSUME ChainInv, [ChainNext]_chainVars, paid' # paid, NEW n \in Nodes
    PROVE  Gain(n) = IF HasReport(Cid, n) /\ WasOnline(n) /\ Billed(n) # 0
                     THEN Price(Rate, Billed(n)) ELSE 0
<1>0. LedgerInv /\ MapInv /\ ReportsInv
  BY DEF ChainInv
<1>1. SettlePayment(Cid)
  <2>1. NetmapNewEpoch => UNCHANGED paid
    BY DEF NetmapNewEpoch, TickSeen, NewEpoch
  <2>2. UNCHANGED balanceVars => UNCHANGED paid
    BY DEF balanceVars, marks
  <2> QED BY <2>1, <2>2 DEF ChainNext, UpdateState, PutReport, AddNextEpochNodes,
     CommitContainerListUpdate, Block, OthersUnchanged, chainVars
<1> DEFINE rows == BillingStats(Cid)
           result == Settlement(Owner, Rate, rows)
           D == DOMAIN rows
<1>2. /\ Owner \in Accounts /\ Rate \in Nat /\ rows \in Seq(BillingStat)
      /\ RowsOf(Cid, Rounds, rows)
      /\ SettleContainerPayment(Everybody, Cid, Owner, Rate, rows)
  BY <1>0, <1>1, SettlesWith
<1> HIDE DEF rows
<1>3. result.outcome = "ok" /\ accounts' = result.accounts
  BY <1>2 DEF SettleContainerPayment
<1>4. \A i \in D : \E a \in Nodes : /\ HasStat(Cid, a)
                                    /\ rows[i] = BillingRow(Cid, a) /\ rows[i].account = a
  <2> SUFFICES ASSUME NEW i \in D
               PROVE  \E a \in Nodes : /\ HasStat(Cid, a)
                                    /\ rows[i] = BillingRow(Cid, a) /\ rows[i].account = a
    OBVIOUS
  <2>1. PICK k \in Rounds : HasStat(Cid, AccountOrder[k])
                            /\ rows[i] = BillingRow(Cid, AccountOrder[k])
    BY <1>2 DEF RowsOf, IsRowOf
  <2>2. AccountOrder[k] \in Nodes
    BY <1>0, <2>1, StatsAre DEF HasStat
  <2> QED BY <2>1, <2>2 DEF BillingRow
<1>5. n # Owner /\ \A i \in D : rows[i].account # Owner
  BY <1>4, ChainAssumption
<1>6. HasPaid(result.accounts, Rate, rows, D, n)
  <2>1. \A i, j \in D : rows[i].account = rows[j].account => i = j
    BY <1>2 DEF RowsOf
  <2>2. epoch \in Nat /\ accounts \in Storage
    BY <1>0 DEF LedgerInv
  <2> QED BY <1>2, <1>3, <1>5, <2>1, <2>2, SettlementPays
<1>7. ASSUME NEW i \in D, rows[i].account = n
      PROVE  /\ PaysRow(rows[i], n) <=> HasReport(Cid, n) /\ WasOnline(n) /\ Billed(n) # 0
             /\ PriceOf(Rate, rows[i]) = Price(Rate, Billed(n))
  <2>1. rows[i] = BillingRow(Cid, n)
    BY <1>4, <1>7
  <2> QED BY <1>7, <2>1 DEF PaysRow, Billable, PriceOf, BillingRow, Billed
<1>8. HasReport(Cid, n) => \E i \in D : rows[i].account = n
  <2> SUFFICES ASSUME HasReport(Cid, n) PROVE \E i \in D : rows[i].account = n
    OBVIOUS
  <2>1. HasStat(Cid, n)
    BY <1>0, ReportTypes DEF HasReport, HasStat
  <2>2. PICK k \in Rounds : AccountOrder[k] = n
    BY BalanceAssumption, ChainAssumption DEF Rounds, Range
  <2>3. PICK i \in D : rows[i] = BillingRow(Cid, n)
    BY <1>2, <2>1, <2>2 DEF RowsOf
  <2> QED BY <2>3 DEF BillingRow
<1> DEFINE old == GetAccount(accounts, n).balance
           new == GetAccount(accounts', n).balance
           Pays == HasReport(Cid, n) /\ WasOnline(n) /\ Billed(n) # 0
<1>9. Gain(n) = new - old
  BY DEF Gain, BalanceOf
<1>10. old \in Nat
  BY <1>0, AccountRead DEF LedgerInv, Account
<1>11. CASE Pays
  <2>1. PICK i \in D : rows[i].account = n
    BY <1>8, <1>11
  <2>2. new = old + Price(Rate, Billed(n))
    BY <1>3, <1>6, <1>7, <1>11, <2>1 DEF HasPaid
  <2>3. Price(Rate, Billed(n)) \in Int
    <3>1. stats[<<Cid, n>>] \in EpochBillingStat
      BY <1>0, <1>11, StatsAre, ReportTypes DEF HasReport
    <3>2. Billed(n) \in Int
      <4>1. epoch \in Nat
        BY <1>0 DEF LedgerInv
      <4> QED BY <3>1, <4>1 DEF Billed, BilledSize, EpochBillingStat
    <3> QED BY <1>2, <3>2, PriceInt
  <2> HIDE DEF old, new
  <2> QED BY <1>9, <1>10, <1>11, <2>2, <2>3
<1>12. CASE ~Pays
  <2>1. \A i \in D : ~PaysRow(rows[i], n)
    BY <1>7, <1>12 DEF PaysRow
  <2>2. new = old
    BY <1>3, <1>6, <2>1 DEF HasPaid
  <2> HIDE DEF old, new
  <2> QED BY <1>9, <1>10, <1>12, <2>2
<1> QED BY <1>11, <1>12

-----------------------------------------------------------------------------
(* The first state satisfies the invariant.                                *)
(* Nodes are registered in order.                                          *)
LEMMA OrderFacts ==
    /\ Len(NodeOrder) \in Nat \ {0} /\ DOMAIN NodeOrder = 1..Len(NodeOrder)
    /\ \A i \in 1..Len(NodeOrder) : NodeOrder[i] \in Nodes
    /\ \A k \in 0..Len(NodeOrder) : FirstNodes(k) \subseteq Nodes
    /\ FirstNodes(0) = {} /\ FirstNodes(Len(NodeOrder)) = Nodes
    /\ \A n \in Nodes : (CHOOSE i \in DOMAIN NodeOrder : NodeOrder[i] = n) \in 1..Len(NodeOrder)
<1>1. NodeOrder \in Seq(Nodes) /\ NodeOrder # <<>> /\ Range(NodeOrder) = Nodes
  BY ChainAssumption
<1>2. Len(NodeOrder) \in Nat \ {0} /\ DOMAIN NodeOrder = 1..Len(NodeOrder)
      /\ \A i \in 1..Len(NodeOrder) : NodeOrder[i] \in Nodes
  BY <1>1
<1>3. \A n \in Nodes : \E i \in DOMAIN NodeOrder : NodeOrder[i] = n
  BY <1>1 DEF Range
<1>4. \A n \in Nodes : (CHOOSE i \in DOMAIN NodeOrder : NodeOrder[i] = n) \in 1..Len(NodeOrder)
  BY <1>2, <1>3
<1>5. \A k \in 0..Len(NodeOrder) : FirstNodes(k) \subseteq Nodes
  BY <1>2 DEF FirstNodes
<1>6. FirstNodes(0) = {} /\ FirstNodes(Len(NodeOrder)) = Nodes
  BY <1>2, <1>3 DEF FirstNodes
<1> QED BY <1>2, <1>4, <1>5, <1>6

LEMMA MapInit == ChainInit => MapInv
<1> SUFFICES ASSUME ChainInit PROVE MapInv
  OBVIOUS
<1> DEFINE L == Len(NodeOrder)
           Map(e) == Registered(FirstNodes(e))
<1>1. /\ epoch = L /\ netmapVersion = L
      /\ netmaps = [v \in {L - 1, L} \ {0} |-> Map(v)]
      /\ epochToNetmapVersion = [e \in 0..L |-> e]
      /\ netmapChanged = FALSE /\ snapshotCount = 1 /\ cleanupThreshold = 0
      /\ epochItems = [e \in 1..L |-> 1]
      /\ history = [e \in 0..L |-> Map(e)]
      /\ subscribers = {<<0, "balance">>} /\ config = {<<BasicIncomeRate, Rate>>}
  BY DEF ChainInit
<1>2. /\ DOMAIN candidates = Nodes
      /\ \A n \in Nodes : candidates[n] =
          [state |-> NM!Online, attributes |-> "attributes",
           lastActiveEpoch |-> (CHOOSE i \in DOMAIN NodeOrder : NodeOrder[i] = n) - 1]
      /\ candidates = [n \in Nodes |-> candidates[n]]
  BY DEF ChainInit
<1>3. L \in Nat \ {0} /\ DOMAIN NodeOrder = 1..L
  BY OrderFacts
<1>4. \A e \in 0..L : /\ DOMAIN Map(e) = FirstNodes(e)
                      /\ \A n \in FirstNodes(e) :
                           Map(e)[n] = [state |-> NM!Online, attributes |-> "attributes"]
  BY DEF Registered
<1>5. \A n \in Nodes : candidates[n] \in NMP!Candidate
  <2> SUFFICES ASSUME NEW n \in Nodes PROVE candidates[n] \in NMP!Candidate
    OBVIOUS
  <2> DEFINE i == CHOOSE i \in DOMAIN NodeOrder : NodeOrder[i] = n
  <2>1. i \in 1..L
    BY OrderFacts
  <2>2. candidates[n] = [state |-> NM!Online, attributes |-> "attributes", lastActiveEpoch |-> i - 1]
    BY <1>2
  <2> HIDE DEF i
  <2>3. i - 1 \in Nat
    BY <1>3, <2>1
  <2> QED BY <2>2, <2>3 DEF NMP!Candidate, NMP!Online, NM!Online
<1>6. \A e \in 0..L : Map(e) \in [DOMAIN Map(e) -> NMP!Node2] /\ DOMAIN Map(e) \subseteq Nodes
  BY <1>3, OrderFacts DEF Registered, NMP!Node2, NMP!Online, NM!Online
<1> HIDE DEF L
<1>7. NMP!TypeOK
  <2>1. epoch \in Nat /\ netmapVersion \in Nat /\ snapshotCount \in Nat /\ cleanupThreshold \in Nat
        /\ netmapChanged \in BOOLEAN
    BY <1>1, <1>3
  <2>2. DOMAIN candidates \subseteq Nodes /\ candidates \in [DOMAIN candidates -> NMP!Candidate]
    BY <1>2, <1>5
  <2>3. DOMAIN netmaps \subseteq Nat
        /\ \A v \in DOMAIN netmaps : /\ DOMAIN netmaps[v] \subseteq Nodes
                                     /\ netmaps[v] \in [DOMAIN netmaps[v] -> NMP!Node2]
    <3> SUFFICES ASSUME NEW v \in DOMAIN netmaps
                 PROVE  /\ v \in Nat /\ DOMAIN netmaps[v] \subseteq Nodes
                        /\ netmaps[v] \in [DOMAIN netmaps[v] -> NMP!Node2]
      OBVIOUS
    <3>1. v \in 0..L
      BY <1>1, <1>3
    <3>2. netmaps[v] = Map(v)
      BY <1>1
    <3> HIDE DEF Map
    <3> QED BY <1>6, <3>1, <3>2
  <2>4. /\ DOMAIN epochToNetmapVersion \subseteq Nat
        /\ epochToNetmapVersion \in [DOMAIN epochToNetmapVersion -> Nat]
        /\ DOMAIN epochItems \subseteq Nat
        /\ epochItems \in [DOMAIN epochItems -> 1..MaxTime]
    BY <1>1, <1>3, ChainAssumption
  <2>5. subscribers \subseteq Nat \X {"balance"} /\ config \subseteq {BasicIncomeRate} \X {Rate}
    BY <1>1
  <2>6. NMP!IsFiniteSet(subscribers)
    BY <1>1, FS_Singleton DEF IsFiniteSet, NMP!IsFiniteSet
  <2> QED BY <2>1, <2>2, <2>3, <2>4, <2>5, <2>6 DEF NMP!TypeOK
<1>8. NMP!RetentionRun
  <2>1. DOMAIN netmaps = {L - 1, L} \ {0}
    BY <1>1
  <2> QED BY <1>1, <1>3, <2>1 DEF NMP!RetentionRun
<1>9. NMP!FlagAccurate
  <2>1. netmaps[L] = Map(L) /\ L \in DOMAIN netmaps
    BY <1>1, <1>3
  <2>2. NMP!ListNodes = Map(L)
    BY <1>1, <2>1 DEF NMP!ListNodes, NMP!ListNodesVersion, NMP!NetworkMapVersion
  <2>3. FirstNodes(L) = Nodes
    BY OrderFacts DEF L
  <2>4. NMP!View(candidates) = Map(L)
    BY <1>2, <2>3 DEF NMP!View, Registered
  <2> QED BY <2>2, <2>4 DEF NMP!FlagAccurate
<1>10. ASSUME NEW e \in 0..L
       PROVE  /\ e \in DOMAIN epochToNetmapVersion /\ NMP!LatestKey(e, e)
              /\ epochToNetmapVersion[e] = e
              /\ e \in DOMAIN netmaps \cup {0} => NMP!ListNodesVersion(e) = history[e]
  <2>1. e \in DOMAIN epochToNetmapVersion /\ NMP!LatestKey(e, e) /\ epochToNetmapVersion[e] = e
        /\ history[e] = Map(e)
    BY <1>1, <1>3 DEF NMP!LatestKey
  <2>2. CASE e \in DOMAIN netmaps
    BY <1>1, <2>1, <2>2 DEF NMP!ListNodesVersion
  <2>3. CASE e = 0
    <3>1. Map(0) = NMP!Empty
      BY OrderFacts DEF Registered, NMP!Empty
    <3>2. 0 \notin DOMAIN netmaps
      BY <1>1
    <3> QED BY <2>1, <2>3, <3>1, <3>2 DEF NMP!ListNodesVersion
  <2> QED BY <2>1, <2>2, <2>3
<1>11. NMP!IndexInv
  <2>1. DOMAIN history = 0..L /\ epoch \in DOMAIN history
    BY <1>1, <1>3
  <2>2. \A k \in DOMAIN epochToNetmapVersion : k \in 0..epoch /\ epochToNetmapVersion[k] \in 0..netmapVersion
    BY <1>1, <1>3
  <2>3. ASSUME NEW e \in DOMAIN history
        PROVE  /\ e \in 0..epoch
               /\ \E k \in DOMAIN epochToNetmapVersion :
                     /\ NMP!LatestKey(k, e)
                     /\ e = epoch => epochToNetmapVersion[k] = netmapVersion
                     /\ epochToNetmapVersion[k] \in DOMAIN netmaps \cup {0}
                          => NMP!ListNodesVersion(epochToNetmapVersion[k]) = history[e]
    <3>1. e \in 0..L
      BY <2>1
    <3>2. e = epoch => epochToNetmapVersion[e] = netmapVersion
      BY <1>1, <1>10, <3>1
    <3> QED BY <1>1, <1>10, <3>1, <3>2
  <2> QED BY <2>1, <2>2, <2>3 DEF NMP!IndexInv
<1>12. NMP!Inv
  BY <1>7, <1>8, <1>9, <1>11 DEF NMP!Inv
<1>13. L - 1 \in 0..L /\ L - 1 \in DOMAIN netmaps \cup {0}
  BY <1>1, <1>3
<1>14. NMP!ListNodesEpoch(L - 1) = history[L - 1]
  <2>1. NMP!NmVersionForEpoch(L - 1) = L - 1
    BY <1>7, <1>10, <1>13, Settings, NMP!LatestKeyUnique
  <2> QED BY <1>10, <1>13, <2>1 DEF NMP!ListNodesEpoch
<1> QED BY <1>1, <1>3, <1>12, <1>13, <1>14 DEF MapInv

LEMMA ReportsInit == ChainInit => ReportsInv
<1> SUFFICES ASSUME ChainInit PROVE ReportsInv
  OBVIOUS
<1>1. /\ info = [c \in {Cid} |-> [owner |-> Owner, revision |-> 1, lock |-> 0, attrs |-> {}]]
      /\ index = {<<Owner, Cid>>} /\ deleted = {} /\ eacls = {}
      /\ domains = CT!Empty /\ records = CT!Empty /\ disturbed = {} /\ reborn = {}
      /\ alias = CT!Empty /\ quotas = CT!Empty /\ userQuotas = CT!Empty
      /\ nodes = [c \in {Cid} |-> {<<0, n>> : n \in Nodes}]
      /\ nextNodes = [c \in {Cid} |-> {}] /\ replicas = [c \in {Cid} |-> <<1>>]
      /\ reports = CT!Empty /\ stats = CT!Empty /\ summary = CT!Empty
      /\ taken = [a \in Accounts |-> 0] /\ now = 1 /\ promised = [c \in {Cid} |-> 0]
      /\ skewed = FALSE /\ area = CT!Empty /\ lastSpan = 0
  BY DEF ChainInit
<1>2. CT!Empty = CTP!Empty /\ DOMAIN CTP!Empty = {}
  BY DEF CT!Empty, CTP!Empty
<1>3. \A D, R : CTP!Partial(CTP!Empty, D, R)
  BY DEF CTP!Empty, CTP!Partial
<1>4. CTP!IsFiniteSet({})
  BY FS_EmptySet DEF IsFiniteSet, CTP!IsFiniteSet
<1>5. CTP!RegistryTypeOK
  <2>1. CTP!Partial(info, {Cid}, CTP!Info)
    BY <1>1, ChainAssumption DEF CTP!Partial, CTP!Info
  <2>2. /\ domains \in [{} -> CTP!Domain] /\ records \in [{} -> SUBSET {Cid}]
        /\ disturbed = {} /\ reborn = {}
        /\ promised \in [{Cid} -> Nat] /\ now \in Nat
    BY <1>1, <1>2 DEF CTP!Empty
  <2> QED BY <1>1, <1>2, <1>3, <2>1, <2>2 DEF CTP!RegistryTypeOK
<1>6. CTP!LoadTypes
  BY <1>1, <1>2, <1>3, <1>4 DEF CTP!LoadTypes
<1>7. CTP!SummaryIsSum
  BY <1>1, <1>2 DEF CTP!SummaryIsSum
<1>8. CTP!TakenSpaceIsSum
  <2> SUFFICES ASSUME NEW u \in Accounts PROVE taken[u] = CTP!SpaceOf(u)
    BY DEF CTP!TakenSpaceIsSum
  <2>1. {c \in DOMAIN summary \cap DOMAIN info : CTP!OwnerOf(c) = u} = {}
    BY <1>1, <1>2
  <2>2. CTP!SpaceOf(u) = 0
    BY <2>1, Settings, CTP!SumEmpty DEF CTP!SpaceOf
  <2> QED BY <1>1, <2>2
<1>9. CTP!BookTypes
  <2>1. index \subseteq Accounts \X {Cid}
    BY <1>1, ChainAssumption
  <2>2. /\ nodes \in [{Cid} -> SUBSET ({0} \X Nodes)]
        /\ nextNodes \in [{Cid} -> SUBSET ({0} \X Nodes)]
        /\ replicas \in [{Cid} -> Seq(Nat)]
    BY <1>1
  <2> QED BY <1>1, <1>2, <1>3, <2>1, <2>2 DEF CTP!BookTypes
<1>10. NM!LastEpochTime = 1 /\ epoch \in Nat
  <2>1. epoch = Len(NodeOrder) /\ epochItems = [e \in 1..epoch |-> 1]
    BY DEF ChainInit
  <2>2. epoch \in Nat \ {0}
    BY <2>1, OrderFacts
  <2> QED BY <2>1, <2>2 DEF NM!LastEpochTime, NM!GetEpochTime, NM!Epoch
<1>11. CTP!StatTypes
  BY <1>1, <1>2, <1>3, <1>10 DEF CTP!StatTypes
<1>12. CTP!StatsFit
  BY <1>1, <1>2 DEF CTP!StatsFit
<1>13. CTP!TypeInv
  BY <1>5, <1>6, <1>7, <1>8, <1>9, <1>11 DEF CTP!TypeInv, CTP!LoadInv
<1>14. now \in 1..MaxTime
  BY <1>1, ChainAssumption
<1> QED BY <1>1, <1>2, <1>12, <1>13, <1>14 DEF ReportsInv

LEMMA OwedInit == ChainInit => OwedInv
<1>1. DOMAIN CT!Empty = {}
  BY DEF CT!Empty
<1> QED BY <1>1 DEF ChainInit, OwedInv, IsOwed, HasReport

LEMMA LedgerInit == ChainInit => LedgerInv
<1> SUFFICES ASSUME ChainInit PROVE LedgerInv
  OBVIOUS
<1> DEFINE none == [x \in {} |-> 0]
           own == [balance |-> Funds, until |-> 0, parent |-> Nobody]
<1>1. none \in Storage /\ DOMAIN none = {}
  BY StorageFacts, FS_EmptySet
<1>2. Total(none) = 0 /\ GetAccount(none, Owner).balance = 0
  BY <1>1, TotalIs, SumEmpty DEF GetAccount, NoAccount
<1>3. own \in Account /\ own.until = 0 /\ own.balance = Funds /\ Owner \in Accounts
  BY ChainAssumption DEF Account
<1>4. accounts = Put(none, Owner, own)
  BY <1>1 DEF ChainInit, Put
<1> HIDE DEF none, own
<1>5. accounts \in Storage /\ Total(accounts) = 0 - 0 + Funds
  BY <1>1, <1>2, <1>3, <1>4, PutStorage, PutTotal
<1>6. supply = Funds /\ lost = 0 /\ epoch \in Nat /\ Funds \in Nat
  BY OrderFacts, ChainAssumption DEF ChainInit
<1> QED BY <1>5, <1>6 DEF LedgerInv

LEMMA ChainInitInv == ChainInit => ChainInv
BY LedgerInit, MapInit, ReportsInit, OwedInit DEF ChainInv

-----------------------------------------------------------------------------
(* Who served is paid.                                                     *)
(* What a node is to be paid for, and whether it was online.               *)
LoadDue(n) == IF IsOwed(n) THEN owed[<<Cid, n>>] ELSE 0
ServedOnline(n) == n \in DOMAIN history[epoch - 1]
                   /\ history[epoch - 1][n].state = NM!Online

LEMMA OnlineIsRemembered ==
    ASSUME ChainInv, NEW n PROVE WasOnline(n) <=> ServedOnline(n)
<1>1. /\ epoch >= 1 /\ epoch \in Nat
      /\ NM!ListNodesEpoch(epoch - 1) = history[epoch - 1]
  BY NetmapReads DEF ChainInv, MapInv, LedgerInv
<1>2. NM!Online # NM!Offline /\ epoch - 1 <= epoch
  BY <1>1 DEF NM!Online, NM!Offline
<1> QED BY <1>1, <1>2 DEF WasOnline, NM!IsStorageNodeStatus, NM!Epoch, ServedOnline

PaidFor(n, b) == Gain(n) = IF ServedOnline(n) /\ b # 0 THEN Price(Rate, b) ELSE 0

LEMMA PaidNearly ==
    ASSUME ChainInv, [ChainNext]_chainVars, paid' # paid, lastSpan = CT!Duration,
           NEW n \in Nodes
    PROVE  \E b \in Int : /\ CTP!Near(b * CT!Duration, LoadDue(n), MaxReports)
                          /\ PaidFor(n, b)
<1>1. ReportsInv /\ OwedInv /\ epoch \in Nat /\ epoch > 0
  BY DEF ChainInv, MapInv, LedgerInv
<1>2. Gain(n) = IF HasReport(Cid, n) /\ ServedOnline(n) /\ Billed(n) # 0
                THEN Price(Rate, Billed(n)) ELSE 0
  BY PaymentStep, OnlineIsRemembered
<1>3. CT!Duration = CTP!Duration
  BY DEF CT!Duration, CTP!Duration
<1>4. CASE HasReport(Cid, n)
  <2>1. CTP!BilledNearAverage
    BY <1>1, Settings, CTP!FitsBill DEF ReportsInv
  <2>2. Billed(n) = CTP!BilledSize(stats[<<Cid, n>>], epoch)
    BY DEF Billed, BilledSize, CTP!BilledSize
  <2>3. area[<<Cid, n>>].last = LoadDue(n)
    BY <1>1, <1>4 DEF OwedInv, LoadDue
  <2>4. CTP!Near(Billed(n) * CT!Duration, LoadDue(n), MaxReports)
    BY <1>1, <1>3, <1>4, <2>1, <2>2, <2>3 DEF CTP!BilledNearAverage, HasReport
  <2>5. Billed(n) \in Int
    <3>1. stats[<<Cid, n>>] \in EpochBillingStat
      BY <1>1, <1>4, StatsAre, ReportTypes DEF HasReport
    <3> QED BY <1>1, <3>1 DEF Billed, BilledSize, EpochBillingStat
  <2>6. PaidFor(n, Billed(n))
    BY <1>2, <1>4 DEF PaidFor
  <2> QED BY <2>4, <2>5, <2>6
<1>5. CASE ~HasReport(Cid, n)
  <2>1. LoadDue(n) = 0 /\ PaidFor(n, 0)
    BY <1>1, <1>2, <1>5 DEF OwedInv, LoadDue, PaidFor
  <2>2. CTP!Near(0, 0, MaxReports)
    BY Settings, ChainAssumption, CTP!NearSame
  <2>3. 0 * CT!Duration = 0
    BY <1>3, Settings, CTP!DurationType
  <2> QED BY <2>1, <2>2, <2>3
<1> QED BY <1>4, <1>5

(* Whatever is rounded, a container that is marked paid has paid each node *)
(* that was online and still was a member the price of its average load,   *)
(* up to less than one unit for each report of an epoch, and nobody else.  *)
PaidNear == [][paid' # paid /\ lastSpan = CT!Duration =>
                 \A n \in Nodes : \E b \in Int :
                     /\ CTP!Near(b * CT!Duration, LoadDue(n), MaxReports)
                     /\ PaidFor(n, b)]_chainVars
THEOREM ServedArePaidClosely == ChainSpec => PaidNear
<1>1. ChainInv /\ [ChainNext]_chainVars =>
         [paid' # paid /\ lastSpan = CT!Duration =>
            \A n \in Nodes : \E b \in Int :
                     /\ CTP!Near(b * CT!Duration, LoadDue(n), MaxReports)
                     /\ PaidFor(n, b)]_chainVars
  BY PaidNearly
<1> QED BY <1>1, ChainInitInv, ChainStep, PTL DEF ChainSpec, PaidNear

(* For exactly its average load if no average is ever rounded.             *)
THEOREM ServedArePaidExactly ==
    ASSUME CTP!LoadsDivide
    PROVE  ChainSpec => ServedArePaid
<1> DEFINE D == CT!Duration
<1>1. D \in Nat \ {0}
  BY Settings, CTP!DurationType DEF CT!Duration, CTP!Duration
<1>2. ASSUME ChainInv, [ChainNext]_chainVars, paid' # paid, lastSpan = D,
             NEW n \in Nodes
      PROVE  Gain(n) = IF Served(n) /\ n \notin gone THEN Wage(n) ELSE 0
  <2>1. PICK b \in Int : CTP!Near(b * D, LoadDue(n), MaxReports) /\ PaidFor(n, b)
    BY <1>2, PaidNearly
  <2>2. LoadDue(n) \in Nat
    BY <1>2 DEF ChainInv, OwedInv, LoadDue, IsOwed
  <2>3. b * D = LoadDue(n)
    <3>1. MaxReports * CTP!RoundOff = 0
      BY ChainAssumption DEF CTP!RoundOff
    <3> DEFINE x == b * D
    <3>2. x \in Int
      BY <1>1, <2>1
    <3>3. x - LoadDue(n) <= 0 /\ LoadDue(n) - x <= 0
      BY <2>1, <3>1 DEF CTP!Near
    <3> HIDE DEF x
    <3>4. x = LoadDue(n)
      BY <2>2, <3>2, <3>3
    <3> QED BY <3>4 DEF x
  <2> HIDE DEF D
  <2>4. LoadDue(n) \div D = b /\ (LoadDue(n) > 0 <=> b # 0)
    BY <1>1, <2>1, <2>2, <2>3
  <2> USE DEF D
  <2>5. CASE IsOwed(n)
    BY <2>1, <2>4, <2>5 DEF PaidFor, LoadDue, IsOwed, Served, ServedOnline, Wage
  <2>6. CASE ~IsOwed(n)
    BY <2>1, <2>2, <2>4, <2>6 DEF PaidFor, LoadDue, IsOwed, Served
  <2> QED BY <2>5, <2>6
<1>3. ChainInv /\ [ChainNext]_chainVars =>
         [paid' # paid /\ lastSpan = CT!Duration =>
            \A n \in Nodes :
                Gain(n) = IF Served(n) /\ n \notin gone THEN Wage(n) ELSE 0]_chainVars
  BY <1>2
<1> QED BY <1>3, ChainInitInv, ChainStep, PTL DEF ChainSpec, ServedArePaid
=============================================================================
