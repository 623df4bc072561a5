------------------------------ MODULE NNSProofs ------------------------------
(***************************************************************************)
(* Proofs about NNS, for every set of names and accounts and without the   *)
(* bounds of time: the token indexes, the SOA of live domains, that the    *)
(* contract implements leases; then which domain keeps the records, what   *)
(* changes of records may and must touch, and that records are numbered    *)
(* in order and kept where they are looked for.                            *)
(***************************************************************************)
EXTENDS NNS, FiniteSetTheorems, SequenceTheorems, WellFoundedInduction, TLAPS

Owned(o) == {n \in Minted : names[n].owner = o}

(* What the token methods rely on: TLDs and only they have no owner.       *)
Registry ==
    /\ names \in [Names -> NameState \cup {Unregistered}]
    /\ \A n \in Names : names[n] # Unregistered =>
          /\ names[n].owner \in Owners <=> Len(n) > 1
          /\ Len(n) = 1 => n \in roots
    /\ roots \subseteq Names
    /\ now \in Nat
    /\ price \in 0..MaxRegisterPrice

Indexes ==
    /\ tokens = {<<names[n].owner, n>> : n \in Minted}
    /\ IsFiniteSet(Minted)
    /\ balance \in [Owners -> Nat]
    /\ \A o \in Owners : balance[o] = Cardinality(Owned(o))
    /\ supply = Cardinality(Minted)

(* One domain gets a new state. *)
Saved(n, s) ==
    /\ n \in Names /\ s \in NameState
    /\ s.owner \in Owners <=> Len(n) > 1
    /\ names' = [names EXCEPT ![n] = s]

LEMMA SavedRegistry ==
    ASSUME Registry, NEW n, NEW s, Saved(n, s), UNCHANGED <<price, now>>,
           roots \subseteq roots', roots' \subseteq roots \cup {n}, Len(n) = 1 => n \in roots'
    PROVE  Registry'
BY DEF Registry, Saved

LEMMA SavedMinted ==
    ASSUME Registry, NEW n, NEW s, Saved(n, s), Len(n) > 1
    PROVE  /\ Minted' = Minted \cup {n}
           /\ \A o \in Owners : Owned(o)' = IF o = s.owner THEN Owned(o) \cup {n}
                                                          ELSE Owned(o) \ {n}
<1>0. Unregistered \notin NameState
  BY UnregisteredAssumption
<1>1. \A m \in Names : names'[m] = IF m = n THEN s ELSE names[m]
  BY DEF Registry, Saved
<1>2. s # Unregistered /\ n \in Names
  BY <1>0 DEF Saved
<1>3. Minted' = Minted \cup {n}
  BY <1>1, <1>2 DEF Minted
<1>4. ASSUME NEW o \in Owners
      PROVE  Owned(o)' = IF o = s.owner THEN Owned(o) \cup {n} ELSE Owned(o) \ {n}
  <2>1. Owned(o)' = {m \in Minted \cup {n} : (IF m = n THEN s ELSE names[m]).owner = o}
    <3>1. Minted \cup {n} \in SUBSET Names
      BY <1>2 DEF Minted
    <3> QED BY <1>1, <1>3, <3>1 DEF Owned
  <2> QED BY <2>1 DEF Owned
<1> QED BY <1>3, <1>4

(* The indexes after a domain has gone to another owner, or to its first.  *)
LEMMA MovedIndexes ==
    ASSUME Registry, Indexes, NEW n, NEW s, Saved(n, s), Len(n) > 1,
           MoveToken(n, s.owner),
           supply' = supply + (IF names[n] = Unregistered THEN 1 ELSE 0)
    PROVE  Indexes'
<1> DEFINE from == IF names[n] = Unregistered THEN {} ELSE {names[n].owner}
<1>0. n \in Names /\ s.owner \in Owners /\ Len(n) > 1
  BY DEF Saved
<1>1. /\ Minted' = Minted \cup {n}
      /\ \A o \in Owners : Owned(o)' = IF o = s.owner THEN Owned(o) \cup {n}
                                                     ELSE Owned(o) \ {n}
  BY SavedMinted
<1>2. n \in Minted <=> names[n] # Unregistered
  BY <1>0 DEF Minted
<1>3. /\ IsFiniteSet(Minted')
      /\ Cardinality(Minted') = Cardinality(Minted)
                                + (IF names[n] = Unregistered THEN 1 ELSE 0)
  <2>1. CASE names[n] = Unregistered
    BY <1>1, <1>2, <2>1, FS_AddElement DEF Indexes
  <2>2. CASE names[n] # Unregistered
    <3>1. Minted' = Minted
      BY <1>1, <1>2, <2>2
    <3>2. Cardinality(Minted) \in Nat
      BY FS_CardinalityType DEF Indexes
    <3> QED BY <2>2, <3>1, <3>2 DEF Indexes
  <2> QED BY <2>1, <2>2
<1>4. ASSUME NEW o \in Owners
      PROVE  /\ IsFiniteSet(Owned(o)) /\ Cardinality(Owned(o)) \in Nat
             /\ n \in Owned(o) <=> o \in from
             /\ balance[o] = Cardinality(Owned(o))
  <2>1. IsFiniteSet(Owned(o))
    BY FS_Subset DEF Owned, Indexes
  <2>2. n \in Owned(o) <=> o \in from
    BY <1>2 DEF Owned
  <2> QED BY <2>1, <2>2, FS_CardinalityType DEF Indexes
<1>5. \A o \in Owners : balance'[o] = balance[o] - (IF o \in from THEN 1 ELSE 0)
                                        + (IF o = s.owner THEN 1 ELSE 0)
  BY DEF MoveToken
<1>6. ASSUME NEW o \in Owners
      PROVE  balance'[o] = Cardinality(Owned(o)') /\ balance'[o] \in Nat
  <2>1. CASE o = s.owner /\ o \in from
    <3>1. Owned(o)' = Owned(o) \cup {n} /\ n \in Owned(o)
      BY <1>1, <1>4, <2>1
    <3>2. Owned(o)' = Owned(o)
      BY <3>1
    <3> QED BY <1>4, <1>5, <2>1, <3>2
  <2>2. CASE o = s.owner /\ o \notin from
    <3>1. Owned(o)' = Owned(o) \cup {n}
      BY <1>1, <2>2
    <3>2. Cardinality(Owned(o) \cup {n}) = Cardinality(Owned(o)) + 1
      BY <1>4, <2>2, FS_AddElement
    <3> QED BY <1>4, <1>5, <2>2, <3>1, <3>2
  <2>3. CASE o # s.owner /\ o \in from
    <3>1. Owned(o)' = Owned(o) \ {n}
      BY <1>1, <2>3
    <3>2. Cardinality(Owned(o) \ {n}) = Cardinality(Owned(o)) - 1
      BY <1>4, <2>3, FS_RemoveElement
    <3>3. Cardinality(Owned(o) \ {n}) \in Nat
      BY <1>4, FS_RemoveElement, FS_CardinalityType
    <3> QED BY <1>4, <1>5, <2>3, <3>1, <3>2, <3>3
  <2>4. CASE o # s.owner /\ o \notin from
    <3>1. Owned(o)' = Owned(o) \ {n} /\ n \notin Owned(o)
      BY <1>1, <1>4, <2>4
    <3>2. Owned(o)' = Owned(o)
      BY <3>1
    <3> QED BY <1>4, <1>5, <2>4, <3>2
  <2> QED BY <2>1, <2>2, <2>3, <2>4
<1>7. balance' \in [Owners -> Nat]
  <2>1. DOMAIN balance' = Owners /\ balance' = [o \in Owners |-> balance'[o]]
    BY DEF MoveToken
  <2> QED BY <1>6, <2>1
<1>8. tokens' = {<<names'[m].owner, m>> : m \in Minted'}
  <2>1. tokens' = (tokens \ {<<o, n>> : o \in from}) \cup {<<s.owner, n>>}
    BY DEF MoveToken
  <2>2. \A m \in Minted' : names'[m] = IF m = n THEN s ELSE names[m]
    BY DEF Saved, Registry, Minted
  <2>3. tokens = {<<names[m].owner, m>> : m \in Minted}
    BY DEF Indexes
  <2>4. tokens \ {<<o, n>> : o \in from} = {<<names[m].owner, m>> : m \in Minted \ {n}}
    BY <1>2, <2>3
  <2>5. {<<names'[m].owner, m>> : m \in Minted'}
          = {<<names[m].owner, m>> : m \in Minted \ {n}} \cup {<<s.owner, n>>}
    BY <1>1, <2>2
  <2> QED BY <2>1, <2>4, <2>5
<1> QED BY <1>3, <1>6, <1>7, <1>8 DEF Indexes

(* A domain that keeps its owner. *)
LEMMA KeptIndexes ==
    ASSUME Registry, Indexes, NEW n, NEW s, Saved(n, s), UNCHANGED owned,
           Len(n) > 1 => names[n] # Unregistered /\ s.owner = names[n].owner
    PROVE  Indexes'
<1>0. Unregistered \notin NameState
  BY UnregisteredAssumption
<1>1. \A m \in Names : names'[m] = IF m = n THEN s ELSE names[m]
  BY DEF Registry, Saved
<1>2. \A m \in Names : Len(m) > 1 => /\ names'[m] # Unregistered <=> names[m] # Unregistered
                                     /\ names'[m] # Unregistered => names'[m].owner = names[m].owner
  BY <1>0, <1>1 DEF Saved
<1>3. Minted' = Minted /\ \A m \in Minted : names'[m].owner = names[m].owner
  BY <1>2 DEF Minted
<1>4. \A o : Owned(o)' = Owned(o)
  BY <1>3 DEF Owned
<1>5. {<<names'[m].owner, m>> : m \in Minted'} = {<<names[m].owner, m>> : m \in Minted}
  BY <1>3
<1> QED BY <1>3, <1>4, <1>5 DEF Indexes, owned

LEMMA SameIndexes ==
    ASSUME Registry, Indexes, UNCHANGED <<names, owned>>
    PROVE  Indexes'
BY DEF Indexes, Minted, Owned, owned

-----------------------------------------------------------------------------
(* What the actions do to the domains: at most one gets a new state.       *)

LEMMA RegisterEffect ==
    ASSUME Registry, NEW n \in Domains, NEW signers, Register(n, signers)
    PROVE  \E s : /\ Saved(n, s) /\ s.admin = Nobody /\ MoveToken(n, s.owner)
                  /\ ~Live(names, n)
<1>1. PICK owner \in Owners, expire \in Expires :
        MoveToken(n, owner) /\ SaveDomain(n, owner, expire)
  BY DEF Register
<1> DEFINE s == [owner |-> owner, expiration |-> now + expire, admin |-> Nobody]
<1>2. Expires \subseteq Int /\ n \in Names /\ now \in Int
  BY NNSAssumption DEF Registry
<1>3. s \in NameState
  BY <1>2 DEF NameState
<1>4. Saved(n, s)
  BY <1>1, <1>2, <1>3 DEF Saved, SaveDomain, Register
<1>5. ~Live(names, n)
  BY DEF Register
<1> QED BY <1>1, <1>4, <1>5

LEMMA RegisterTLDEffect ==
    ASSUME Registry, NEW n \in Domains, NEW signers, RegisterTLD(n, signers)
    PROVE  \E s : Saved(n, s) /\ s.admin = Nobody /\ Len(n) = 1 /\ ~Live(names, n)
<1>1. PICK expire \in Expires : SaveDomain(n, Nobody, expire)
  BY DEF RegisterTLD
<1> DEFINE s == [owner |-> Nobody, expiration |-> now + expire, admin |-> Nobody]
<1>2. Expires \subseteq Int /\ n \in Names /\ now \in Int /\ Nobody \notin Owners
  BY NNSAssumption DEF Registry
<1>3. s \in NameState
  BY <1>2 DEF NameState
<1>4. Saved(n, s)
  <2>1. names' = [names EXCEPT ![n] = s]
    BY <1>1 DEF SaveDomain
  <2>2. Len(n) = 1
    BY DEF RegisterTLD
  <2> QED BY <1>2, <1>3, <2>1, <2>2 DEF Saved
<1>5. ~Live(names, n) /\ Len(n) = 1
  BY <1>2 DEF RegisterTLD, Live, Registry
<1> QED BY <1>4, <1>5

(* A live domain's state is a NameState; so is what EXCEPT makes of it.    *)
LEMMA LiveState ==
    ASSUME Registry, NEW n \in Names, Live(names, n)
    PROVE  /\ names[n] \in NameState /\ names[n] # Unregistered
           /\ names[n].owner \in Owners <=> Len(n) > 1
BY DEF Registry, Live

LEMMA TransferEffect ==
    ASSUME Registry, NEW n \in Domains, NEW signers, Transfer(n, signers)
    PROVE  \E s : /\ Saved(n, s) /\ MoveToken(n, s.owner) /\ Live(names, n)
                  /\ s = [names[n] EXCEPT !.owner = s.owner, !.admin = Nobody]
<1>1. PICK to \in Owners :
        /\ names' = [names EXCEPT ![n].owner = to, ![n].admin = Nobody]
        /\ MoveToken(n, to)
  BY DEF Transfer
<1> DEFINE s == [names[n] EXCEPT !.owner = to, !.admin = Nobody]
<1>2. n \in Names /\ Live(names, n) /\ Len(n) > 1
  BY NNSAssumption DEF Transfer
<1>3. names[n] \in NameState
  BY <1>2, LiveState
<1>4. s \in NameState /\ s.owner = to
  BY <1>3 DEF NameState
<1>5. names' = [names EXCEPT ![n] = s]
  BY <1>1
<1>6. Saved(n, s)
  BY <1>1, <1>2, <1>4, <1>5 DEF Saved
<1>7. s = [names[n] EXCEPT !.owner = s.owner, !.admin = Nobody]
  BY <1>4
<1> HIDE DEF s
<1> QED BY <1>1, <1>2, <1>4, <1>6, <1>7

LEMMA RenewEffect ==
    ASSUME Registry, NEW n \in Domains, NEW signers, Renew(n, signers)
    PROVE  \E s : /\ Saved(n, s) /\ Live(names, n)
                  /\ s = [names[n] EXCEPT !.expiration = s.expiration]
                  /\ s.expiration >= names[n].expiration
<1>1. PICK years \in 1..MaxYears :
        names' = [names EXCEPT ![n].expiration = names[n].expiration + Year * years]
  BY DEF Renew
<1> DEFINE s == [names[n] EXCEPT !.expiration = names[n].expiration + Year * years]
<1>2. n \in Names /\ Live(names, n)
  BY NNSAssumption DEF Renew, Usable
<1>3. names[n] \in NameState /\ (names[n].owner \in Owners <=> Len(n) > 1)
  BY <1>2, LiveState
<1>4. Year \in Nat /\ years \in Nat /\ Year * years \in Nat
  BY NNSAssumption
<1>5. s \in NameState /\ s.owner = names[n].owner /\ s.expiration >= names[n].expiration
      /\ s = [names[n] EXCEPT !.expiration = s.expiration]
  <2>1. names[n].expiration \in Int
    BY <1>3 DEF NameState
  <2>2. PICK e \in Int : e = names[n].expiration + Year * years /\ e >= names[n].expiration
    BY <1>4, <2>1
  <2>3. s = [names[n] EXCEPT !.expiration = e]
    BY <2>2
  <2> QED BY <1>3, <2>2, <2>3 DEF NameState
<1>6. names' = [names EXCEPT ![n] = s]
  BY <1>1
<1>7. Saved(n, s)
  BY <1>2, <1>3, <1>5, <1>6 DEF Saved
<1> HIDE DEF s
<1> QED BY <1>2, <1>5, <1>7

LEMMA SetAdminEffect ==
    ASSUME Registry, NEW n \in Domains, NEW signers, SetAdmin(n, signers)
    PROVE  \E s : /\ Saved(n, s) /\ Live(names, n)
                  /\ s = [names[n] EXCEPT !.admin = s.admin]
<1>1. PICK admin \in Owners \cup {Nobody} : names' = [names EXCEPT ![n].admin = admin]
  BY DEF SetAdmin
<1> DEFINE s == [names[n] EXCEPT !.admin = admin]
<1>2. n \in Names /\ Live(names, n)
  BY NNSAssumption DEF SetAdmin, Usable
<1>3. names[n] \in NameState /\ (names[n].owner \in Owners <=> Len(n) > 1)
  BY <1>2, LiveState
<1>4. s \in NameState /\ s.owner = names[n].owner /\ s = [names[n] EXCEPT !.admin = s.admin]
  BY <1>3 DEF NameState
<1>5. names' = [names EXCEPT ![n] = s]
  BY <1>1
<1>6. Saved(n, s)
  BY <1>2, <1>3, <1>4, <1>5 DEF Saved
<1> HIDE DEF s
<1> QED BY <1>2, <1>4, <1>6

LEMMA NextRegistry == Registry /\ Indexes /\ [Next]_vars => Registry' /\ Indexes'
<1> SUFFICES ASSUME Registry, Indexes, [Next]_vars
             PROVE  Registry' /\ Indexes'
  OBVIOUS
<1>0. /\ Domains \subseteq Names /\ \A n \in Names : Len(n) \in Nat \ {0}
      /\ MaxRegisterPrice \in Nat
  <2>1. \A n \in Names : n \in Seq(STRING) /\ n # <<>>
    BY NNSAssumption
  <2> QED BY <2>1, NNSAssumption
<1> SUFFICES ASSUME UNCHANGED vars \/ Tick
                    \/ \E signers \in Signers :
                          \/ \E n \in Domains : DomainStep(n, signers)
                          \/ \E n \in Names : RecordStep(n, signers)
                          \/ SetPrice(signers)
             PROVE  Registry' /\ Indexes'
  BY DEF Next
<1>1. ASSUME NEW signers \in Signers, NEW n \in Domains, Register(n, signers)
      PROVE  Registry' /\ Indexes'
  <2>1. PICK s : Saved(n, s) /\ MoveToken(n, s.owner)
    BY <1>1, RegisterEffect
  <2>2. /\ UNCHANGED <<roots, price, now>> /\ Len(n) > 1
        /\ supply' = supply + (IF names[n] = Unregistered THEN 1 ELSE 0)
    BY <1>1 DEF Register
  <2>3. Len(n) = 1 => n \in roots'
    BY <2>2
  <2>4. Registry'
    BY <2>1, <2>2, <2>3, SavedRegistry
  <2> QED BY <2>1, <2>2, MovedIndexes, <2>4
<1>2. ASSUME NEW signers \in Signers, NEW n \in Domains, RegisterTLD(n, signers)
      PROVE  Registry' /\ Indexes'
  <2>1. PICK s : Saved(n, s) /\ Len(n) = 1
    BY <1>2, RegisterTLDEffect
  <2>2. UNCHANGED <<owned, price, now>> /\ roots' = roots \cup {n}
    BY <1>2 DEF RegisterTLD
  <2>3. /\ roots \subseteq roots' /\ roots' \subseteq roots \cup {n} /\ n \in roots'
        /\ ~(Len(n) > 1)
    BY <2>1, <2>2
  <2>4. Registry'
    BY <2>1, <2>2, <2>3, SavedRegistry
  <2>5. Indexes'
    BY <2>1, <2>2, <2>3, KeptIndexes
  <2> QED BY <2>4, <2>5
<1>3. ASSUME NEW signers \in Signers, NEW n \in Domains, Transfer(n, signers)
      PROVE  Registry' /\ Indexes'
  <2>1. PICK s : Saved(n, s) /\ MoveToken(n, s.owner) /\ Live(names, n)
    BY <1>3, TransferEffect
  <2>2. /\ UNCHANGED <<roots, supply, price, now>> /\ Len(n) > 1
        /\ names[n] # Unregistered
    BY <1>3 DEF Transfer, Live
  <2>3. Registry'
    <3>1. Len(n) = 1 => n \in roots'
      BY <2>2
    <3> QED BY <2>1, <2>2, <3>1, SavedRegistry
  <2>4. supply' = supply + (IF names[n] = Unregistered THEN 1 ELSE 0)
    <3>1. supply \in Nat
      BY FS_CardinalityType DEF Indexes
    <3> QED BY <2>2, <3>1
  <2> QED BY <2>1, <2>2, <2>3, <2>4, MovedIndexes
<1>4. ASSUME NEW signers \in Signers, NEW n \in Domains,
             Renew(n, signers) \/ SetAdmin(n, signers)
      PROVE  Registry' /\ Indexes'
  <2>1. PICK s : Saved(n, s) /\ Live(names, n)
                 /\ (\/ s = [names[n] EXCEPT !.expiration = s.expiration]
                     \/ s = [names[n] EXCEPT !.admin = s.admin])
    BY <1>4, RenewEffect, SetAdminEffect
  <2>2. UNCHANGED <<roots, owned, price, now>>
    BY <1>4 DEF Renew, SetAdmin
  <2>3. n \in Names /\ names[n] \in NameState /\ names[n] # Unregistered
    BY <1>0, <2>1, LiveState
  <2>4. s.owner = names[n].owner
    BY <2>1, <2>3 DEF NameState
  <2>5. Len(n) = 1 => n \in roots
    BY <2>3 DEF Registry
  <2>6. Registry'
    BY <2>1, <2>2, <2>5, SavedRegistry
  <2> QED BY <2>1, <2>2, <2>3, <2>4, <2>6, KeptIndexes
<1>5. ASSUME UNCHANGED <<roots, names, owned>>, now' \in Nat, price' \in 0..MaxRegisterPrice
      PROVE  Registry' /\ Indexes'
  BY <1>5, SameIndexes DEF Registry
<1>6. now \in Nat /\ now + 1 \in Nat /\ price \in 0..MaxRegisterPrice
  BY DEF Registry
<1>7. ASSUME NEW signers \in Signers, NEW n \in Domains, UpdateSOA(n, signers)
      PROVE  Registry' /\ Indexes'
  BY <1>5, <1>6, <1>7 DEF UpdateSOA
<1>8. ASSUME NEW signers \in Signers, NEW n \in Names, RecordStep(n, signers)
      PROVE  Registry' /\ Indexes'
  <2>1. UNCHANGED <<roots, names, owned, price, now>>
    BY <1>8 DEF RecordStep, AddRecord, SetRecord, DeleteRecords, AddNeoRecord,
                DeleteNeoRecord, Change
  <2> QED BY <1>5, <1>6, <2>1
<1>9. ASSUME NEW signers \in Signers, SetPrice(signers)
      PROVE  Registry' /\ Indexes'
  BY <1>5, <1>6, <1>9 DEF SetPrice
<1>10. CASE Tick
  BY <1>5, <1>6, <1>10 DEF Tick
<1>11. CASE UNCHANGED vars
  BY <1>5, <1>6, <1>11 DEF vars
<1> QED BY <1>1, <1>2, <1>3, <1>4, <1>7, <1>8, <1>9, <1>10, <1>11 DEF DomainStep

LEMMA InitRegistry == Init => Registry /\ Indexes
<1> SUFFICES ASSUME Init PROVE Registry /\ Indexes
  OBVIOUS
<1>1. /\ InitialTLDs \subseteq Names /\ \A n \in InitialTLDs : Len(n) = 1
      /\ InitialExpire \in Int /\ Nobody \notin Owners
      /\ DefaultRegisterPrice \in 0..MaxRegisterPrice
      /\ Unregistered \notin NameState
  BY NNSAssumption, UnregisteredAssumption
<1> DEFINE first == [owner |-> Nobody, expiration |-> InitialExpire, admin |-> Nobody]
<1>2. first \in NameState /\ first.owner = Nobody
  BY <1>1 DEF NameState
<1>3. names = [n \in Names |-> IF n \notin InitialTLDs THEN Unregistered ELSE first]
  BY DEF Init
<1> HIDE DEF first
<1>4. Registry
  <2>1. \A n \in Names : /\ names[n] # Unregistered => n \in InitialTLDs /\ names[n] = first
                          /\ names[n] \in NameState \cup {Unregistered}
    BY <1>2, <1>3
  <2>2. names \in [Names -> NameState \cup {Unregistered}]
    BY <1>3, <2>1
  <2>3. roots = InitialTLDs /\ now = 0 /\ price = DefaultRegisterPrice
    BY DEF Init
  <2>4. ASSUME NEW n \in Names, names[n] # Unregistered
        PROVE  /\ names[n].owner \in Owners <=> Len(n) > 1
               /\ Len(n) = 1 => n \in roots
    <3>1. n \in InitialTLDs /\ names[n].owner = Nobody /\ Len(n) = 1
      BY <1>1, <1>2, <2>1, <2>4
    <3>2. ~(Len(n) > 1)
      BY <3>1
    <3> QED BY <1>1, <2>3, <3>1, <3>2
  <2> QED BY <1>1, <2>2, <2>3, <2>4 DEF Registry
<1>5. Minted = {} /\ \A o : Owned(o) = {}
  <2>1. ASSUME NEW n \in Names, names[n] # Unregistered
        PROVE  ~(Len(n) > 1)
    <3>1. Len(n) = 1
      BY <1>1, <1>3, <2>1
    <3> QED BY <3>1
  <2>2. Minted = {}
    BY <2>1 DEF Minted
  <2> QED BY <2>2 DEF Owned
<1>6. Cardinality({}) = 0 /\ IsFiniteSet({})
  BY FS_EmptySet
<1>7. Indexes
  BY <1>5, <1>6 DEF Init, Indexes
<1> QED BY <1>4, <1>7

(* The registry is typed, and the indexes follow the owners, in every state. *)
THEOREM RegistryHolds == Spec => [](Registry /\ Indexes)
BY InitRegistry, NextRegistry, PTL DEF Spec

(* The token indexes agree with the owners, whatever is registered,        *)
(* transferred and registered again (updateBalance).                       *)
THEOREM TokensIndexed == Spec => []IndexesAgree
<1>1. Indexes => IndexesAgree
  BY DEF Indexes, IndexesAgree, Owned
<1> QED BY <1>1, RegistryHolds, PTL

-----------------------------------------------------------------------------
(* The contract implements Leases. *)

LEMMA SavedLease ==
    ASSUME Registry, NEW n, NEW s, Saved(n, s), UNCHANGED now
    PROVE  /\ Lease!Changed(n)
           /\ LeaseOf(n)' = [holder |-> s.owner, deputy |-> s.admin, until |-> s.expiration]
<1> DEFINE term == [holder |-> s.owner, deputy |-> s.admin, until |-> s.expiration]
           leases == [m \in Names |-> LeaseOf(m)]
<1>0. n \in Names /\ s \in NameState /\ Unregistered \notin NameState
  BY UnregisteredAssumption DEF Saved
<1>1. \A m \in Names : names'[m] = IF m = n THEN s ELSE names[m]
  BY DEF Registry, Saved
<1>2. \A m \in Names : LeaseOf(m)' = IF m = n THEN term ELSE LeaseOf(m)
  BY <1>0, <1>1 DEF LeaseOf
<1>3. term \in Lease!Terms
  BY <1>0 DEF NameState, Lease!Terms
<1>4. leases' = [leases EXCEPT ![n] = leases'[n]] /\ leases'[n] = term
  <2> HIDE DEF term
  <2> QED BY <1>0, <1>2
<1>5. Lease!Changed(n)
  BY <1>3, <1>4 DEF Lease!Changed
<1> QED BY <1>0, <1>2, <1>5

(* A live domain is leased, and its lease has the fields of its state.     *)
LEMMA LiveLease ==
    ASSUME Registry, NEW n \in Names
    PROVE  /\ Live(names, n) <=> Lease!Leased(n)
           /\ Live(names, n) => LeaseOf(n) = [holder |-> names[n].owner, deputy |-> names[n].admin,
                                              until |-> names[n].expiration]
<1>1. CASE names[n] = Unregistered
  BY <1>1 DEF Live, Lease!Leased, LeaseOf
<1>2. CASE names[n] # Unregistered
  <2>1. LeaseOf(n) = [holder |-> names[n].owner, deputy |-> names[n].admin,
                      until |-> names[n].expiration]
    BY <1>2 DEF LeaseOf
  <2>2. LeaseOf(n) \in Lease!Terms /\ Unregistered \notin Lease!Terms
    BY <1>2, <2>1, LeaseAssumption DEF Registry, NameState, Lease!Terms
  <2>3. LeaseOf(n).until = names[n].expiration /\ LeaseOf(n) # Unregistered
    BY <2>1, <2>2
  <2>4. Lease!Leased(n) <=> LeaseOf(n) # Unregistered /\ now < LeaseOf(n).until
    BY DEF Lease!Leased
  <2> QED BY <1>2, <2>1, <2>3, <2>4 DEF Live
<1> QED BY <1>1, <1>2

LEMMA StepImplementsLeases == Registry /\ Indexes /\ [Next]_vars =>
                                  [Lease!Next]_<<[n \in Names |-> LeaseOf(n)], now>>
<1> DEFINE leases == [n \in Names |-> LeaseOf(n)]
           Steps == \E signers \in Signers : \/ \E n \in Domains : DomainStep(n, signers)
                                             \/ \E n \in Names : RecordStep(n, signers)
                                             \/ SetPrice(signers)
           Maps == Lease!Next \/ UNCHANGED <<leases, now>>
<1> SUFFICES ASSUME Registry, [Next]_vars
             PROVE  Maps
  OBVIOUS
<1>0. Domains \subseteq Names
  BY NNSAssumption
<1>1. ASSUME NEW n \in Domains, NEW signers, Register(n, signers) \/ RegisterTLD(n, signers)
      PROVE  Lease!Take(n)
  <2>1. PICK s : Saved(n, s) /\ ~Live(names, n)
    BY <1>1, RegisterEffect, RegisterTLDEffect
  <2>2. UNCHANGED now
    BY <1>1 DEF Register, RegisterTLD
  <2>3. Lease!Changed(n)
    BY <2>1, <2>2, SavedLease
  <2>4. ~Lease!Leased(n)
    BY <1>0, <2>1, LiveLease
  <2> QED BY <2>3, <2>4 DEF Lease!Take
<1>2. ASSUME NEW n \in Domains, NEW signers, Transfer(n, signers)
      PROVE  Lease!Hand(n)
  <2>1. PICK s : /\ Saved(n, s) /\ Live(names, n)
                 /\ s = [names[n] EXCEPT !.owner = s.owner, !.admin = Nobody]
    BY <1>2, TransferEffect
  <2>2. UNCHANGED now
    BY <1>2 DEF Transfer
  <2>3. /\ Lease!Changed(n)
        /\ LeaseOf(n)' = [holder |-> s.owner, deputy |-> s.admin, until |-> s.expiration]
    BY <2>1, <2>2, SavedLease
  <2>4. /\ Lease!Leased(n) /\ n \in Names
        /\ LeaseOf(n) = [holder |-> names[n].owner, deputy |-> names[n].admin,
                         until |-> names[n].expiration]
    BY <1>0, <2>1, LiveLease
  <2>5. s.admin = Nobody /\ s.expiration = names[n].expiration
    BY <1>0, <2>1, LiveState DEF NameState
  <2>6. LeaseOf(n)' = [holder |-> LeaseOf(n)'.holder, deputy |-> Nobody,
                       until |-> LeaseOf(n).until]
    BY <2>3, <2>4, <2>5
  <2> QED BY <2>3, <2>4, <2>6 DEF Lease!Hand
<1>3. ASSUME NEW n \in Domains, NEW signers, Renew(n, signers)
      PROVE  Lease!Extend(n)
  <2>1. PICK s : /\ Saved(n, s) /\ Live(names, n) /\ s.expiration >= names[n].expiration
                 /\ s = [names[n] EXCEPT !.expiration = s.expiration]
    BY <1>3, RenewEffect
  <2>2. UNCHANGED now
    BY <1>3 DEF Renew
  <2>3. /\ Lease!Changed(n)
        /\ LeaseOf(n)' = [holder |-> s.owner, deputy |-> s.admin, until |-> s.expiration]
    BY <2>1, <2>2, SavedLease
  <2>4. /\ Lease!Leased(n) /\ n \in Names
        /\ LeaseOf(n) = [holder |-> names[n].owner, deputy |-> names[n].admin,
                         until |-> names[n].expiration]
    BY <1>0, <2>1, LiveLease
  <2>5. s.owner = names[n].owner /\ s.admin = names[n].admin
    BY <1>0, <2>1, LiveState DEF NameState
  <2>6. /\ LeaseOf(n)' = [LeaseOf(n) EXCEPT !.until = LeaseOf(n)'.until]
        /\ LeaseOf(n)'.until >= LeaseOf(n).until
    BY <2>1, <2>3, <2>4, <2>5
  <2> QED BY <2>3, <2>4, <2>6 DEF Lease!Extend
<1>4. ASSUME NEW n \in Domains, NEW signers, SetAdmin(n, signers)
      PROVE  Lease!Depute(n)
  <2>1. PICK s : /\ Saved(n, s) /\ Live(names, n)
                 /\ s = [names[n] EXCEPT !.admin = s.admin]
    BY <1>4, SetAdminEffect
  <2>2. UNCHANGED now
    BY <1>4 DEF SetAdmin
  <2>3. /\ Lease!Changed(n)
        /\ LeaseOf(n)' = [holder |-> s.owner, deputy |-> s.admin, until |-> s.expiration]
    BY <2>1, <2>2, SavedLease
  <2>4. /\ Lease!Leased(n) /\ n \in Names
        /\ LeaseOf(n) = [holder |-> names[n].owner, deputy |-> names[n].admin,
                         until |-> names[n].expiration]
    BY <1>0, <2>1, LiveLease
  <2>5. s.owner = names[n].owner /\ s.expiration = names[n].expiration
    BY <1>0, <2>1, LiveState DEF NameState
  <2>6. LeaseOf(n)' = [LeaseOf(n) EXCEPT !.deputy = LeaseOf(n)'.deputy]
    BY <2>3, <2>4, <2>5
  <2> QED BY <2>3, <2>4, <2>6 DEF Lease!Depute
<1>5. ASSUME UNCHANGED names
      PROVE  UNCHANGED leases
  BY <1>5 DEF LeaseOf
<1>6. ASSUME NEW n \in Names, NEW signers, UpdateSOA(n, signers) \/ RecordStep(n, signers)
      PROVE  UNCHANGED <<names, now>>
  BY <1>6 DEF UpdateSOA, RecordStep, AddRecord, SetRecord, DeleteRecords, AddNeoRecord,
              DeleteNeoRecord, Change
<1>7. ASSUME NEW signers, SetPrice(signers)
      PROVE  UNCHANGED <<names, now>>
  BY <1>7 DEF SetPrice
<1>8. Tick => Maps
  <2> SUFFICES ASSUME Tick PROVE Maps
    OBVIOUS
  <2>1. UNCHANGED names /\ now' = now + 1 /\ now \in Nat
    BY DEF Tick, Registry
  <2> QED BY <1>5, <2>1 DEF Lease!Next, Lease!Pass
<1>9. UNCHANGED vars => Maps
  BY <1>5 DEF vars
<1>10. Steps => Maps
  <2> SUFFICES ASSUME Steps PROVE Maps
    OBVIOUS
  <2>1. PICK signers \in Signers : \/ \E n \in Domains : DomainStep(n, signers)
                                   \/ \E n \in Names : RecordStep(n, signers)
                                   \/ SetPrice(signers)
    OBVIOUS
  <2>2. ASSUME NEW n \in Domains, DomainStep(n, signers)
        PROVE  \/ UNCHANGED <<names, now>>
               \/ Lease!Take(n) \/ Lease!Hand(n) \/ Lease!Extend(n) \/ Lease!Depute(n)
    BY <1>0, <1>1, <1>2, <1>3, <1>4, <1>6, <2>2 DEF DomainStep
  <2>3. \/ UNCHANGED <<names, now>>
        \/ \E n \in Names : Lease!Take(n) \/ Lease!Hand(n) \/ Lease!Extend(n) \/ Lease!Depute(n)
    <3>1. CASE \E n \in Domains : DomainStep(n, signers)
      BY <1>0, <2>2, <3>1
    <3>2. CASE (\E n \in Names : RecordStep(n, signers)) \/ SetPrice(signers)
      BY <1>6, <1>7, <3>2
    <3> QED BY <2>1, <3>1, <3>2
  <2>4. CASE UNCHANGED <<names, now>>
    BY <1>5, <2>4
  <2>5. CASE \E n \in Names : \/ Lease!Take(n) \/ Lease!Hand(n)
                             \/ Lease!Extend(n) \/ Lease!Depute(n)
    BY <2>5 DEF Lease!Next
  <2> QED BY <2>3, <2>4, <2>5
<1>11. Next => Tick \/ Steps
  BY DEF Next
<1> HIDE DEF Maps, Steps
<1> QED BY <1>8, <1>9, <1>10, <1>11

(* A domain stays with whoever has it until it expires, is handed over, or  *)
(* its term grows; its administrator goes with its owner.                  *)
THEOREM LeasesImplemented == Spec => ImplementsLeases
<1>1. Init => Lease!Init
  <2> SUFFICES ASSUME Init PROVE Lease!Init
    OBVIOUS
  <2>1. names \in [Names -> NameState \cup {Unregistered}] /\ now = 0
    BY InitRegistry DEF Registry, Init
  <2>2. \A n \in Names : LeaseOf(n) \in {Unregistered} \cup Lease!Terms
    BY <2>1 DEF LeaseOf, NameState, Lease!Terms
  <2> QED BY <2>1, <2>2 DEF Lease!Init
<1>2. Registry /\ Indexes /\ [Next]_vars => [Lease!Next]_<<[n \in Names |-> LeaseOf(n)], now>>
  BY StepImplementsLeases
<1> QED BY <1>1, <1>2, RegistryHolds, PTL DEF Spec, ImplementsLeases, Lease!Spec

-----------------------------------------------------------------------------
(* The records, and the domains that keep them. *)


(* Every bounded set of natural numbers has a greatest one. *)
LEMMA Greatest ==
    ASSUME NEW b \in Nat, NEW S \in SUBSET (0..b), S # {}
    PROVE  \E i \in S : \A j \in S : j <= i
<1> DEFINE R == OpToRel(<, Nat)
           T == {b - i : i \in S}
<1>1. T \in SUBSET Nat /\ T # {}
  <2>1. \A i \in S : b - i \in Nat
    OBVIOUS
  <2> QED BY <2>1
<1>2. PICK m \in T : \A j \in T : ~ (<<j, m>> \in R)
  <2>1. IsWellFoundedOn(R, Nat)
    BY NatLessThanWellFounded
  <2> HIDE DEF R, T
  <2> QED BY <1>1, <2>1, WFMin
<1>3. \A j \in T : <<j, m>> \in R <=> j < m
  BY <1>1 DEF OpToRel
<1>4. \A j \in T : ~(j < m)
  BY <1>2, <1>3
<1>5. PICK i \in S : m = b - i
  OBVIOUS
<1>6. \A j \in S : ~(b - j < b - i)
  BY <1>4, <1>5
<1> QED BY <1>5, <1>6

-----------------------------------------------------------------------------
(* Names and the domains above them. *)

LEMMA PathFacts ==
    ASSUME NEW n \in Names
    PROVE  /\ Len(n) \in Nat \ {0} /\ n \in Path[n]
           /\ \A d \in Path[n] : /\ d \in Names /\ Len(d) \in 1..Len(n)
                                 /\ Len(d) = Len(n) => d = n
                                 /\ Path[d] \subseteq Path[n]
<1>1. n \in Seq(STRING) /\ n # <<>> /\ Path[n] \subseteq Names
  BY NNSAssumption
<1>2. Len(n) \in Nat \ {0} /\ \A j \in 1..Len(n) : n[j] \in STRING
  BY <1>1
<1>3. SubSeq(n, 1, Len(n)) = n
  BY <1>1, SubSeqFull
<1>4. Path[n] = {SubSeq(n, i, Len(n)) : i \in 1..Len(n)}
  BY DEF Path
<1>5. ASSUME NEW i \in 1..Len(n)
      PROVE  Len(SubSeq(n, i, Len(n))) = Len(n) - i + 1
  BY <1>2, SubSeqProperties
<1>6. ASSUME NEW d \in Path[n]
      PROVE  /\ d \in Names /\ Len(d) \in 1..Len(n)
             /\ Len(d) = Len(n) => d = n
             /\ Path[d] \subseteq Path[n]
  <2>1. PICK i \in 1..Len(n) : d = SubSeq(n, i, Len(n))
    BY <1>4
  <2>2. d \in Names /\ Len(d) = Len(n) - i + 1
    BY <1>1, <1>5, <2>1
  <2>3. Len(d) = Len(n) => d = n
    BY <1>2, <1>3, <2>1, <2>2
  <2>4. ASSUME NEW e \in Path[d]
        PROVE  e \in Path[n]
    <3>1. PICK j \in 1..Len(d) : e = SubSeq(d, j, Len(d))
      BY <2>2 DEF Path
    <3>2. /\ Len(n) \in 1..Len(n) /\ j \in 1..(Len(n) - i + 1)
          /\ Len(n) - i + 1 \in 1..(Len(n) - i + 1)
      BY <1>2, <2>2, <3>1
    <3>3. SubSeq(SubSeq(n, i, Len(n)), j, Len(n) - i + 1)
            = SubSeq(n, i + j - 1, i + (Len(n) - i + 1) - 1)
      BY <1>1, <3>2, SubSeqOfSubSeq
    <3>4. i + (Len(n) - i + 1) - 1 = Len(n) /\ i + j - 1 \in 1..Len(n)
      BY <1>2, <3>2
    <3> QED BY <1>4, <2>1, <2>2, <3>1, <3>3, <3>4
  <2> QED BY <1>2, <2>2, <2>3, <2>4
<1> QED BY <1>2, <1>3, <1>4, <1>6

(* tokenIDFromName finds a domain on the path, and a live domain itself.   *)
LEMMA TokenFacts ==
    ASSUME NEW n \in Names, NEW ns
    PROVE  /\ TokenOf(ns, n) \in Path[n]
           /\ Live(ns, n) => TokenOf(ns, n) = n
<1> DEFINE live == {d \in Path[n] : Len(d) > 1 /\ Live(ns, d)}
<1>0. /\ Len(n) \in Nat \ {0} /\ n \in Path[n]
      /\ \A d \in Path[n] : Len(d) \in 1..Len(n) /\ (Len(d) = Len(n) => d = n)
  BY PathFacts
<1>1. CASE live = {}
  <2>1. TokenOf(ns, n) = n
    BY <1>1 DEF TokenOf
  <2> QED BY <1>0, <2>1
<1>2. CASE live # {}
  <2> DEFINE lens == {Len(d) : d \in live}
             best == CHOOSE d \in live : \A e \in live : Len(e) <= Len(d)
  <2>1. lens \in SUBSET (0..Len(n)) /\ lens # {}
    BY <1>0, <1>2
  <2>2. PICK k \in lens : \A j \in lens : j <= k
    <3> HIDE DEF lens
    <3> QED BY <1>0, <2>1, Greatest
  <2>3. \E d \in live : \A e \in live : Len(e) <= Len(d)
    BY <2>2
  <2>4. best \in live /\ \A e \in live : Len(e) <= Len(best)
    <3> HIDE DEF live
    <3> QED BY <2>3
  <2>5. TokenOf(ns, n) = best
    BY <1>2 DEF TokenOf
  <2>6. best \in Path[n]
    BY <2>4
  <2>7. ASSUME Live(ns, n)
        PROVE  best = n
    <3> HIDE DEF best
    <3>1. CASE Len(n) > 1
      <4>1. n \in live
        BY <1>0, <2>7, <3>1
      <4>2. Len(n) <= Len(best) /\ Len(best) \in 1..Len(n)
        BY <1>0, <2>4, <2>6, <4>1
      <4> QED BY <1>0, <2>6, <4>2
    <3>2. CASE ~(Len(n) > 1)
      BY <1>0, <2>4, <2>6, <3>2
    <3> QED BY <3>1, <3>2
  <2> QED BY <2>5, <2>6, <2>7
<1> QED BY <1>1, <1>2

-----------------------------------------------------------------------------
(* Writing records. *)

RecordTypes == records \subseteq Record /\ IsFiniteSet(records)

(* What rs has and records has not, or the other way, is of one domain and  *)
(* of other types than SOA.                                                *)
Within(rs, token) ==
    /\ rs \subseteq Record /\ IsFiniteSet(rs)
    /\ \A r \in Record : r.token # token \/ r.type = "SOA" => (r \in rs <=> r \in records)

SoaKept(rs) ==
    \A r \in records : r.type = "SOA" =>
        \E q \in rs : q.token = r.token /\ q.name = r.name /\ q.type = "SOA"

LEMMA Stored ==
    ASSUME NEW rs, rs \subseteq Record, IsFiniteSet(rs), NEW q \in Record
    PROVE  /\ StoreRecord(rs, q) \subseteq Record /\ IsFiniteSet(StoreRecord(rs, q))
           /\ q \in StoreRecord(rs, q)
           /\ \A r \in Record : r.token # q.token \/ r.type # q.type =>
                                  (r \in StoreRecord(rs, q) <=> r \in rs)
           /\ \A r \in rs : \E s \in StoreRecord(rs, q) :
                s.token = r.token /\ s.name = r.name /\ s.type = r.type
<1>1. StoreRecord(rs, q) = {s \in rs : ~SameKey(q, s)} \cup {q}
  BY DEF StoreRecord, SameKey
<1>2. IsFiniteSet({s \in rs : ~SameKey(q, s)})
  BY FS_Subset
<1>3. IsFiniteSet(StoreRecord(rs, q))
  BY <1>1, <1>2, FS_AddElement
<1>4. \A r \in Record : r.token # q.token \/ r.type # q.type => ~SameKey(q, r) /\ r # q
  BY DEF SameKey
<1>5. \A r \in rs : SameKey(q, r) => q.token = r.token /\ q.name = r.name /\ q.type = r.type
  BY DEF SameKey
<1> QED BY <1>1, <1>3, <1>4, <1>5

LEMMA SoaType ==
    ASSUME NEW token \in Names, NEW n \in Names, now \in Nat
    PROVE  /\ SoaRecord(token, n) \in Record
           /\ SoaRecord(token, n).token = token /\ SoaRecord(token, n).name = n
           /\ SoaRecord(token, n).type = "SOA"
BY DEF SoaRecord, ARecord, Record, Types

(* What any write of records does to the domain they are kept for. *)
Touched(token) ==
    /\ RecordTypes' /\ SoaKept(records')
    /\ token \in Names /\ SoaRecord(token, token) \in records'
    /\ \A r \in Record : r.token # token => (r \in records' <=> r \in records)

LEMMA ChangeEffect ==
    ASSUME Registry, RecordTypes, NEW n \in Names, NEW rs, Within(rs, TokenOf(names, n)),
           Change(n, rs)
    PROVE  Touched(TokenOf(names, n))
<1> DEFINE token == TokenOf(names, n)
<1>1. token \in Names
  BY TokenFacts, PathFacts
<1> DEFINE soa == SoaRecord(token, token)
<1>2. soa \in Record /\ soa.token = token /\ soa.name = token /\ soa.type = "SOA"
  BY <1>1, SoaType DEF Registry
<1>3. records' = StoreRecord(rs, soa) /\ Within(rs, token)
  BY DEF Change
<1> HIDE DEF token, soa
<1>4. /\ records' \subseteq Record /\ IsFiniteSet(records') /\ soa \in records'
      /\ \A r \in Record : r.token # token => (r \in records' <=> r \in rs)
      /\ \A r \in rs : \E s \in records' : s.token = r.token /\ s.name = r.name /\ s.type = r.type
  BY <1>2, <1>3, Stored DEF Within
<1>5. \A r \in records : r.type = "SOA" => r \in rs
  BY <1>3 DEF Within, RecordTypes
<1>6. \A r \in Record : r.token # token => (r \in records' <=> r \in records)
  BY <1>3, <1>4 DEF Within
<1>7. Touched(token)
  BY <1>1, <1>4, <1>5, <1>6 DEF Touched, RecordTypes, SoaKept, soa
<1> QED BY <1>7 DEF token

LEMMA RecordStepEffect ==
    ASSUME Registry, RecordTypes, NEW n \in Names, NEW signers, RecordStep(n, signers)
    PROVE  /\ Touched(TokenOf(names, n)) /\ Usable(TokenOf(names, n))
           /\ UNCHANGED <<roots, names, owned, price, now>>
<1> DEFINE token == TokenOf(names, n)
<1>1. token \in Names
  BY TokenFacts, PathFacts
<1>2. Usable(token) /\ UNCHANGED <<roots, names, owned, price, now>>
  BY DEF RecordStep, AddRecord, SetRecord, DeleteRecords, AddNeoRecord, DeleteNeoRecord,
         Writable, Change
<1>3. \A type : Targets \subseteq Names /\ DataOf(type) \subseteq Data \cup Names
  BY NNSAssumption DEF DataOf
<1>4. CASE AddRecord(n, signers)
  <2>0. PICK type \in {"A", "CNAME"} : \E data \in DataOf(type) :
          Change(n, records \cup
            {ARecord(token, n, type, Cardinality(RecordsOf(token, n, type)), data)})
    BY <1>4 DEF AddRecord
  <2>1. PICK data \in DataOf(type) :
          Change(n, records \cup
            {ARecord(token, n, type, Cardinality(RecordsOf(token, n, type)), data)})
    BY <2>0
  <2> DEFINE q == ARecord(token, n, type, Cardinality(RecordsOf(token, n, type)), data)
  <2>2. Cardinality(RecordsOf(token, n, type)) \in Nat
    BY FS_Subset, FS_CardinalityType DEF RecordsOf, RecordTypes
  <2>3. q \in Record /\ q.token = token /\ q.type # "SOA"
    BY <1>1, <1>3, <2>2 DEF ARecord, Record, Types
  <2> HIDE DEF q
  <2>4. IsFiniteSet(records \cup {q})
    BY FS_AddElement DEF RecordTypes
  <2>5. Within(records \cup {q}, token)
    BY <2>3, <2>4 DEF Within, RecordTypes
  <2>6. Change(n, records \cup {q})
    BY <2>1 DEF q
  <2> QED BY <1>2, <2>5, <2>6, ChangeEffect
<1>5. CASE SetRecord(n, signers)
  <2>1. PICK r \in AllRecords(n) :
          /\ r.type \in {"A", "CNAME"}
          /\ \E data \in DataOf(r.type) : Change(n, StoreRecord(records, [r EXCEPT !.data = data]))
    BY <1>5 DEF SetRecord
  <2>2. PICK data \in DataOf(r.type) : Change(n, StoreRecord(records, [r EXCEPT !.data = data]))
    BY <2>1
  <2> DEFINE q == [r EXCEPT !.data = data]
  <2>3. r \in Record /\ r.token = token
    BY DEF AllRecords, RecordTypes
  <2>4. q \in Record /\ q.token = token /\ q.type = r.type
    BY <1>3, <2>3 DEF Record
  <2> HIDE DEF q
  <2>5. Within(StoreRecord(records, q), token)
    BY <2>1, <2>4, Stored DEF Within, RecordTypes
  <2>6. Change(n, StoreRecord(records, q))
    BY <2>2 DEF q
  <2> QED BY <1>2, <2>5, <2>6, ChangeEffect
<1>6. CASE DeleteRecords(n, signers)
  <2>1. PICK type \in Types \ {"SOA"} : Change(n, records \ RecordsOf(token, n, type))
    BY <1>6 DEF DeleteRecords
  <2>2. IsFiniteSet(records \ RecordsOf(token, n, type))
    BY FS_Subset DEF RecordTypes
  <2>3. Within(records \ RecordsOf(token, n, type), token)
    BY <2>2 DEF Within, RecordTypes, RecordsOf
  <2> QED BY <1>2, <2>1, <2>3, ChangeEffect
<1>7. ASSUME NEW address \in Addresses
      PROVE  /\ NeoRecord(n, address) \in Record
             /\ NeoRecord(n, address).token = token /\ NeoRecord(n, address).type = "Neo"
  BY <1>1 DEF NeoRecord, ARecord, Record, Types
<1>8. CASE AddNeoRecord(n, signers)
  <2>1. PICK address \in Addresses : Change(n, StoreRecord(records, NeoRecord(n, address)))
    BY <1>8 DEF AddNeoRecord
  <2>2. Within(StoreRecord(records, NeoRecord(n, address)), token)
    BY <1>7, Stored DEF Within, RecordTypes
  <2> QED BY <1>2, <2>1, <2>2, ChangeEffect
<1>9. CASE DeleteNeoRecord(n, signers)
  <2>1. PICK address \in Addresses : Change(n, records \ {NeoRecord(n, address)})
    BY <1>9 DEF DeleteNeoRecord
  <2>2. IsFiniteSet(records \ {NeoRecord(n, address)})
    BY FS_RemoveElement, FS_Subset DEF RecordTypes
  <2>3. Within(records \ {NeoRecord(n, address)}, token)
    BY <1>7, <2>2 DEF Within, RecordTypes
  <2> QED BY <1>2, <2>1, <2>3, ChangeEffect
<1> QED BY <1>4, <1>5, <1>6, <1>8, <1>9 DEF RecordStep

LEMMA SaveDomainEffect ==
    ASSUME Registry, RecordTypes, NEW n \in Names, NEW owner \in Owners \cup {Nobody},
           NEW expire \in Int, SaveDomain(n, owner, expire), UNCHANGED now
    PROVE  /\ RecordTypes' /\ SoaKept(records')
           /\ Live(names, n)' => SoaRecord(n, n) \in records'
           /\ \A r \in Record : r.type # "SOA" => (r \in records' <=> r \in records)
           /\ \E token \in Path[n] : \A r \in Record :
                r.token # token => (r \in records' <=> r \in records)
<1> DEFINE saved == [names EXCEPT ![n] = [owner |-> owner, expiration |-> now + expire,
                                          admin |-> Nobody]]
           token == TokenOf(saved, n)
           soa == SoaRecord(token, n)
<1>1. names' = saved /\ records' = StoreRecord(records, soa)
  BY DEF SaveDomain
<1>2. token \in Path[n] /\ token \in Names
  BY TokenFacts, PathFacts
<1>3. soa \in Record /\ soa.token = token /\ soa.name = n /\ soa.type = "SOA"
  BY <1>2, SoaType DEF Registry
<1>4. Live(names, n)' => Live(saved, n)
  BY <1>1 DEF Live
<1>5. Live(saved, n) => token = n
  BY TokenFacts
<1> HIDE DEF saved, token
<1>6. Live(names, n)' => soa = SoaRecord(n, n)
  BY <1>4, <1>5
<1> HIDE DEF soa
<1>7. /\ records' \subseteq Record /\ IsFiniteSet(records') /\ soa \in records'
      /\ \A r \in Record : r.token # token \/ r.type # "SOA" => (r \in records' <=> r \in records)
      /\ \A r \in records : \E s \in records' :
            s.token = r.token /\ s.name = r.name /\ s.type = r.type
  BY <1>1, <1>3, Stored DEF RecordTypes
<1>8. SoaKept(records')
  BY <1>7 DEF SoaKept
<1> QED BY <1>2, <1>6, <1>7, <1>8 DEF RecordTypes

LEMMA RegisterRecords ==
    ASSUME Registry, RecordTypes, NEW n \in Domains, NEW signers,
           Register(n, signers) \/ RegisterTLD(n, signers)
    PROVE  /\ RecordTypes' /\ SoaKept(records')
           /\ Live(names, n)' => SoaRecord(n, n) \in records'
           /\ \A r \in Record : r.type # "SOA" => (r \in records' <=> r \in records)
           /\ \E token \in Path[n] : \A r \in Record :
                r.token # token => (r \in records' <=> r \in records)
<1>1. n \in Names /\ Expires \subseteq Int
  BY NNSAssumption
<1>2. PICK owner \in Owners \cup {Nobody} : \E expire \in Expires : SaveDomain(n, owner, expire)
  BY DEF Register, RegisterTLD
<1>3. PICK expire \in Int : SaveDomain(n, owner, expire)
  BY <1>1, <1>2
<1>4. UNCHANGED now
  BY DEF Register, RegisterTLD
<1> QED BY <1>1, <1>3, <1>4, SaveDomainEffect

LEMMA UpdateSOAEffect ==
    ASSUME Registry, RecordTypes, NEW n \in Domains, NEW signers, UpdateSOA(n, signers)
    PROVE  /\ RecordTypes' /\ SoaKept(records') /\ Usable(n)
           /\ \A r \in Record : r.token # n \/ r.type # "SOA" => (r \in records' <=> r \in records)
           /\ UNCHANGED <<roots, names, owned, price, now>>
<1>1. n \in Names
  BY NNSAssumption
<1>2. Usable(n) /\ UNCHANGED <<roots, names, owned, price, now>>
      /\ records' = StoreRecord(records, SoaRecord(TokenOf(names, n), n))
  BY DEF UpdateSOA
<1>3. TokenOf(names, n) = n
  BY <1>1, <1>2, TokenFacts DEF Usable
<1> DEFINE soa == SoaRecord(n, n)
<1>4. soa \in Record /\ soa.token = n /\ soa.type = "SOA"
  BY <1>1, SoaType DEF Registry
<1>5. records' = StoreRecord(records, soa)
  BY <1>2, <1>3
<1> HIDE DEF soa
<1>6. /\ records' \subseteq Record /\ IsFiniteSet(records')
      /\ \A r \in Record : r.token # n \/ r.type # "SOA" => (r \in records' <=> r \in records)
      /\ \A r \in records : \E s \in records' :
            s.token = r.token /\ s.name = r.name /\ s.type = r.type
  BY <1>4, <1>5, Stored DEF RecordTypes
<1>7. SoaKept(records')
  BY <1>6 DEF SoaKept
<1> QED BY <1>2, <1>6, <1>7 DEF RecordTypes

-----------------------------------------------------------------------------
(* Types, and the SOA of live domains. *)

LiveAfter(ns) == \A n \in Names : Live(names, n)' => Live(ns, n)

LEMMA NextRecords ==
    ASSUME Registry, Indexes, RecordTypes, LiveHasSoa, [Next]_vars
    PROVE  RecordTypes' /\ LiveHasSoa'
<1> USE DEF LiveAfter
<1>0. Domains \subseteq Names /\ now \in Nat
  BY NNSAssumption DEF Registry
<1>1. ASSUME RecordTypes', SoaKept(records'), LiveAfter(names)
      PROVE  RecordTypes' /\ LiveHasSoa'
  <2> SUFFICES ASSUME NEW n \in Names, Live(names, n)'
               PROVE  RecordsOf(n, n, "SOA")' # {}
    BY <1>1 DEF LiveHasSoa
  <2>1. PICK r \in records : r.token = n /\ r.name = n /\ r.type = "SOA"
    BY <1>1 DEF LiveHasSoa, RecordsOf
  <2>2. PICK q \in records' : q.token = n /\ q.name = n /\ q.type = "SOA"
    BY <1>1, <2>1 DEF SoaKept
  <2> QED BY <2>2 DEF RecordsOf
<1>2. SoaKept(records)
  BY DEF SoaKept
<1>3. ASSUME NEW n \in Names, NEW s, Saved(n, s), UNCHANGED now
      PROVE  \A m \in Names \ {n} : Live(names, m)' => Live(names, m)
  BY <1>3 DEF Saved, Registry, Live
<1>4. ASSUME NEW n \in Domains, NEW signers, Register(n, signers) \/ RegisterTLD(n, signers)
      PROVE  RecordTypes' /\ LiveHasSoa'
  <2>1. PICK s : Saved(n, s)
    BY <1>4, RegisterEffect, RegisterTLDEffect
  <2>2. UNCHANGED now
    BY <1>4 DEF Register, RegisterTLD
  <2>3. /\ RecordTypes' /\ SoaKept(records')
        /\ Live(names, n)' => SoaRecord(n, n) \in records'
    BY <1>4, RegisterRecords
  <2> SUFFICES ASSUME NEW m \in Names, Live(names, m)'
               PROVE  RecordsOf(m, m, "SOA")' # {}
    BY <2>3 DEF LiveHasSoa
  <2>4. CASE m = n
    BY <1>0, <2>3, <2>4, SoaType DEF RecordsOf
  <2>5. CASE m # n
    <3>1. Live(names, m)
      BY <1>0, <1>3, <2>1, <2>2, <2>5
    <3>2. PICK r \in records : r.token = m /\ r.name = m /\ r.type = "SOA"
      BY <3>1 DEF LiveHasSoa, RecordsOf
    <3>3. PICK q \in records' : q.token = m /\ q.name = m /\ q.type = "SOA"
      BY <2>3, <3>2 DEF SoaKept
    <3> QED BY <3>3 DEF RecordsOf
  <2> QED BY <2>4, <2>5
<1>5. ASSUME NEW n \in Domains, NEW signers,
             Transfer(n, signers) \/ Renew(n, signers) \/ SetAdmin(n, signers)
      PROVE  RecordTypes' /\ LiveHasSoa'
  <2>1. PICK s : Saved(n, s) /\ Live(names, n)
    BY <1>5, TransferEffect, RenewEffect, SetAdminEffect
  <2>2. UNCHANGED <<now, records>>
    BY <1>5 DEF Transfer, Renew, SetAdmin
  <2>3. LiveAfter(names)
    BY <1>0, <1>3, <2>1, <2>2
  <2> QED BY <1>1, <1>2, <2>2, <2>3 DEF RecordTypes, SoaKept
<1>6. ASSUME UNCHANGED names, now' \in Int, now' >= now
      PROVE  LiveAfter(names)
  <2> SUFFICES ASSUME NEW n \in Names, names[n] # Unregistered, now' < names[n].expiration
               PROVE  now < names[n].expiration
    BY <1>6 DEF Live
  <2>1. names[n].expiration \in Int
    BY DEF Registry, NameState
  <2> QED BY <1>0, <1>6, <2>1
<1>7. ASSUME NEW n \in Domains, NEW signers, UpdateSOA(n, signers)
      PROVE  RecordTypes' /\ LiveHasSoa'
  BY <1>0, <1>1, <1>6, <1>7, UpdateSOAEffect
<1>8. ASSUME NEW n \in Names, NEW signers, RecordStep(n, signers)
      PROVE  RecordTypes' /\ LiveHasSoa'
  BY <1>0, <1>1, <1>6, <1>8, RecordStepEffect DEF Touched
<1>9. ASSUME UNCHANGED <<names, records>>, now' = now \/ now' = now + 1
      PROVE  RecordTypes' /\ LiveHasSoa'
  <2>1. RecordTypes' /\ SoaKept(records')
    BY <1>2, <1>9 DEF RecordTypes, SoaKept
  <2> QED BY <1>0, <1>1, <1>6, <1>9, <2>1
<1>10. ASSUME NEW signers, SetPrice(signers)
       PROVE  UNCHANGED <<names, records, now>>
  BY <1>10 DEF SetPrice
<1>11. CASE Tick
  BY <1>9, <1>11 DEF Tick
<1>12. CASE UNCHANGED vars
  BY <1>9, <1>12 DEF vars
<1>13. CASE \E signers \in Signers, n \in Domains : DomainStep(n, signers)
  BY <1>4, <1>5, <1>7, <1>13 DEF DomainStep
<1>14. CASE \E signers \in Signers : (\E n \in Names : RecordStep(n, signers)) \/ SetPrice(signers)
  BY <1>8, <1>9, <1>10, <1>14
<1> QED BY <1>11, <1>12, <1>13, <1>14 DEF Next

LEMMA InitRecords == Init => RecordTypes /\ LiveHasSoa
<1> SUFFICES ASSUME Init PROVE RecordTypes /\ LiveHasSoa
  OBVIOUS
<1>1. InitialTLDs \subseteq Names /\ IsFiniteSet(InitialTLDs)
  BY NNSAssumption
<1>2. records = {SoaRecord(n, n) : n \in InitialTLDs} /\ now = 0
  BY DEF Init
<1>3. RecordTypes
  <2> DEFINE f == [n \in InitialTLDs |-> SoaRecord(n, n)]
  <2>1. f \in Surjection(InitialTLDs, records)
    BY <1>2 DEF Surjection
  <2>2. IsFiniteSet(records)
    <3> HIDE DEF f
    <3> QED BY <1>1, <2>1, FS_Surjection
  <2>3. records \subseteq Record
    BY <1>1, <1>2, SoaType
  <2> QED BY <2>2, <2>3 DEF RecordTypes
<1>4. ASSUME NEW n \in Names, Live(names, n)
      PROVE  RecordsOf(n, n, "SOA") # {}
  <2>1. n \in InitialTLDs
    BY <1>4 DEF Live, Init
  <2> QED BY <1>2, <2>1, SoaType DEF RecordsOf
<1> QED BY <1>3, <1>4 DEF LiveHasSoa

(* Records are typed, and live domains have their SOA, in every state. *)
THEOREM RecordsHold == Spec => [](Registry /\ Indexes /\ RecordTypes /\ LiveHasSoa)
<1>1. Init => Registry /\ Indexes /\ RecordTypes /\ LiveHasSoa
  BY InitRegistry, InitRecords
<1>2. Registry /\ Indexes /\ RecordTypes /\ LiveHasSoa /\ [Next]_vars
        => (Registry /\ Indexes /\ RecordTypes /\ LiveHasSoa)'
  BY NextRegistry, NextRecords
<1> QED BY <1>1, <1>2, PTL DEF Spec

(* A live domain has a SOA record of its own: updateSoaSerial never fails   *)
(* on it, also when the first SOA of the domain went to its parent.        *)
THEOREM SoaOfTheLive == Spec => []LiveHasSoa
BY RecordsHold, PTL

(* Every value of the contract has its type. *)
THEOREM TypeCorrect == Spec => []TypeOK
<1>1. Registry /\ Indexes /\ RecordTypes => TypeOK
  <2> SUFFICES ASSUME Registry, Indexes, RecordTypes PROVE TypeOK
    OBVIOUS
  <2>1. supply \in Nat
    BY FS_CardinalityType DEF Indexes
  <2>2. tokens \subseteq Owners \X Names
    BY DEF Indexes, Minted, Registry
  <2> QED BY <2>1, <2>2 DEF TypeOK, Registry, Indexes, RecordTypes
<1> QED BY <1>1, RecordsHold, PTL

-----------------------------------------------------------------------------
(* What a change of records may touch. *)

(* Steps that write records, and for which domain. *)
LEMMA RecordsWrittenBy ==
    ASSUME Registry, RecordTypes, [Next]_vars
    PROVE  \/ UNCHANGED records
           \/ \E n \in Domains, signers \in Signers :
                 Register(n, signers) \/ RegisterTLD(n, signers) \/ UpdateSOA(n, signers)
           \/ \E n \in Names, signers \in Signers : RecordStep(n, signers)
<1>1. ASSUME NEW n \in Domains, NEW signers,
             Transfer(n, signers) \/ Renew(n, signers) \/ SetAdmin(n, signers)
      PROVE  UNCHANGED records
  BY <1>1 DEF Transfer, Renew, SetAdmin
<1>2. ASSUME NEW signers, SetPrice(signers)
      PROVE  UNCHANGED records
  BY <1>2 DEF SetPrice
<1>3. CASE Tick
  BY <1>3 DEF Tick
<1>4. CASE UNCHANGED vars
  BY <1>4 DEF vars
<1>5. CASE \E signers \in Signers, n \in Domains : DomainStep(n, signers)
  BY <1>1, <1>5 DEF DomainStep
<1>6. CASE \E signers \in Signers : (\E n \in Names : RecordStep(n, signers)) \/ SetPrice(signers)
  BY <1>2, <1>6
<1> QED BY <1>3, <1>4, <1>5, <1>6 DEF Next

(* Every change of a domain's records, other than of a SOA, leaves the time *)
(* in the SOA of that domain (updateSoaSerial).                            *)
THEOREM SerialIsTold == Spec => SerialTellsChange
<1> DEFINE Others(rs, n) == {r \in rs : r.token = n /\ r.type # "SOA"}
           Told == \A n \in Names : Others(records, n) # Others(records', n)
                                      => SoaRecord(n, n) \in records'
<1>1. ASSUME Registry, RecordTypes, RecordTypes', [Next]_vars
      PROVE  Told
  <2>1. ASSUME NEW n \in Names, Others(records, n) # Others(records', n)
        PROVE  SoaRecord(n, n) \in records'
    <3>1. PICK r \in Record : /\ r.token = n /\ r.type # "SOA"
                              /\ ~(r \in records' <=> r \in records)
      BY <1>1, <2>1 DEF RecordTypes
    <3>2. \A m \in Domains, signers \in Signers :
            ~(Register(m, signers) \/ RegisterTLD(m, signers) \/ UpdateSOA(m, signers))
      BY <1>1, <3>1, RegisterRecords, UpdateSOAEffect
    <3>3. PICK m \in Names, signers \in Signers : RecordStep(m, signers)
      BY <1>1, <3>1, <3>2, RecordsWrittenBy
    <3>4. Touched(TokenOf(names, m))
      BY <1>1, <3>3, RecordStepEffect
    <3> QED BY <3>1, <3>4 DEF Touched
  <2> QED BY <2>1
<1>2. Registry /\ RecordTypes /\ RecordTypes' /\ [Next]_vars => [Told]_vars
  BY <1>1
<1>3. SerialTellsChange <=> [][Told]_vars
  BY PTL DEF SerialTellsChange
<1> HIDE DEF Told
<1> QED BY <1>2, <1>3, RecordsHold, PTL DEF Spec

(* Below an expired domain nothing is written but owners and administrators *)
(* (getFragmentedNameState).                                               *)
THEOREM BranchesFrozen == Spec => DeadBranchesFrozen
<1> DEFINE Frozen == \A n \in Names : ~ParentsLive(names, n) =>
              /\ names'[n] # names[n] => /\ names[n] # Unregistered
                                         /\ names'[n].expiration = names[n].expiration
              /\ \A r \in records \cup records' : r.token = n => r \in records /\ r \in records'
<1>0. Domains \subseteq Names
  BY NNSAssumption
<1>1. ASSUME Registry, RecordTypes, [Next]_vars, NEW n \in Names, ~ParentsLive(names, n),
             names'[n] # names[n]
      PROVE  names[n] # Unregistered /\ names'[n].expiration = names[n].expiration
  <2>1. ASSUME NEW m \in Names, NEW s, Saved(m, s)
        PROVE  m = n /\ names'[n] = s
    BY <1>1, <2>1 DEF Saved, Registry
  <2>2. ASSUME NEW m \in Domains, NEW signers, Register(m, signers)
        PROVE  FALSE
    BY <1>0, <1>1, <2>1, <2>2, RegisterEffect DEF Register
  <2>3. ASSUME NEW m \in Domains, NEW signers, RegisterTLD(m, signers)
        PROVE  FALSE
    <3>1. m = n /\ Len(n) = 1
      BY <1>0, <1>1, <2>1, <2>3, RegisterTLDEffect
    <3>2. \A d \in Path[n] : d = n
      <4>1. \A d \in Path[n] : Len(d) \in 1..Len(n) /\ (Len(d) = Len(n) => d = n)
        BY PathFacts
      <4>2. \A k \in 1..1 : k = 1
        OBVIOUS
      <4> QED BY <3>1, <4>1, <4>2
    <3> QED BY <1>1, <3>2 DEF ParentsLive, Ancestors
  <2>4. ASSUME NEW m \in Domains, NEW signers, Renew(m, signers) \/ SetAdmin(m, signers)
        PROVE  FALSE
    <3>1. m = n
      BY <1>0, <1>1, <2>1, <2>4, RenewEffect, SetAdminEffect
    <3> QED BY <1>1, <2>4, <3>1 DEF Renew, SetAdmin, Usable
  <2>5. ASSUME NEW m \in Domains, NEW signers, Transfer(m, signers)
        PROVE  names[n] # Unregistered /\ names'[n].expiration = names[n].expiration
    <3>1. PICK s : /\ Saved(m, s) /\ Live(names, m)
                   /\ s = [names[m] EXCEPT !.owner = s.owner, !.admin = Nobody]
      BY <1>1, <2>5, TransferEffect
    <3>2. m = n /\ names'[n] = s
      BY <1>0, <2>1, <3>1
    <3>3. names[n] \in NameState /\ names[n] # Unregistered
      BY <1>1, <3>1, <3>2, LiveState
    <3>4. s.expiration = names[n].expiration
      BY <3>1, <3>2, <3>3 DEF NameState
    <3> QED BY <3>2, <3>3, <3>4
  <2>6. ASSUME NEW signers, NEW m \in Names,
               UpdateSOA(m, signers) \/ RecordStep(m, signers) \/ SetPrice(signers)
        PROVE  FALSE
    BY <1>1, <2>6 DEF UpdateSOA, SetPrice, RecordStep, AddRecord, SetRecord, DeleteRecords,
         AddNeoRecord, DeleteNeoRecord, Change
  <2>7. ~Tick /\ ~UNCHANGED vars
    BY <1>1 DEF Tick, vars
  <2>8. PICK m \in Domains, signers \in Signers : Transfer(m, signers)
    BY <1>0, <1>1, <2>2, <2>3, <2>4, <2>6, <2>7 DEF Next, DomainStep
  <2> QED BY <2>5, <2>8
<1>2. ASSUME Registry, RecordTypes, RecordTypes', [Next]_vars,
             NEW n \in Names, ~ParentsLive(names, n), NEW r \in Record, r.token = n
      PROVE  r \in records' <=> r \in records
  <2>1. CASE UNCHANGED records
    BY <2>1
  <2>2. ASSUME NEW m \in Domains, NEW signers, UpdateSOA(m, signers)
        PROVE  r \in records' <=> r \in records
    BY <1>2, <2>2, UpdateSOAEffect DEF Usable
  <2>3. ASSUME NEW m \in Names, NEW signers, RecordStep(m, signers)
        PROVE  r \in records' <=> r \in records
    BY <1>2, <2>3, RecordStepEffect DEF Touched, Usable
  <2>4. ASSUME NEW m \in Domains, NEW signers, Register(m, signers) \/ RegisterTLD(m, signers)
        PROVE  r \in records' <=> r \in records
    <3>1. PICK token \in Path[m] : \A q \in Record : q.token # token => (q \in records' <=> q \in records)
      BY <1>2, <2>4, RegisterRecords
    <3>2. /\ Len(m) \in Nat /\ m \in Names
          /\ \A d \in Path[m] : /\ d \in Names /\ Len(d) \in 1..Len(m)
                                /\ Len(d) = Len(m) => d = m
                                /\ Path[d] \subseteq Path[m]
      BY <1>0, PathFacts
    <3>3. \A d \in Ancestors(token) : d \in Ancestors(m)
      <4>1. CASE token = m
        BY <4>1
      <4>2. CASE token # m
        <5>1. Len(token) \in 1..Len(m) /\ Len(token) # Len(m) /\ token \in Names
          BY <3>2, <4>2
        <5>2. \A d \in Path[token] : Len(d) \in 1..Len(token)
          BY <5>1, PathFacts
        <5>3. m \notin Path[token]
          BY <3>2, <5>1, <5>2
        <5> QED BY <3>2, <5>3 DEF Ancestors
      <4> QED BY <4>1, <4>2
    <3>4. \A d \in Ancestors(m) : Live(names, d)
      <4>1. CASE Register(m, signers)
        BY <4>1 DEF Register, ParentsLive
      <4>2. CASE RegisterTLD(m, signers)
        <5>1. Len(m) = 1
          BY <4>2 DEF RegisterTLD
        <5>2. Ancestors(m) = {}
          BY <3>2, <5>1 DEF Ancestors
        <5> QED BY <5>2
      <4> QED BY <2>4, <4>1, <4>2
    <3>5. ParentsLive(names, token)
      BY <3>3, <3>4 DEF ParentsLive
    <3>6. token # n
      BY <1>2, <3>5
    <3> QED BY <1>2, <3>1, <3>6
  <2> QED BY <1>2, <2>1, <2>2, <2>3, <2>4, RecordsWrittenBy
<1>3. Registry /\ RecordTypes /\ RecordTypes' /\ [Next]_vars => [Frozen]_vars
  <2> SUFFICES ASSUME Registry, RecordTypes, RecordTypes', [Next]_vars,
                      NEW n \in Names, ~ParentsLive(names, n)
               PROVE  /\ names'[n] # names[n] => /\ names[n] # Unregistered
                                                 /\ names'[n].expiration = names[n].expiration
                      /\ \A r \in records \cup records' :
                            r.token = n => r \in records /\ r \in records'
    OBVIOUS
  <2>1. \A r \in records \cup records' : r \in Record
    BY DEF RecordTypes
  <2> QED BY <1>1, <1>2, <2>1
<1>4. DeadBranchesFrozen <=> [][Frozen]_vars
  BY PTL DEF DeadBranchesFrozen
<1> HIDE DEF Frozen
<1> QED BY <1>3, <1>4, RecordsHold, PTL DEF Spec

-----------------------------------------------------------------------------
(* The deepest live domain on the path of a name is the one that keeps its *)
(* records (tokenIDFromName).                                              *)
LEMMA TokenIsDeepest ==
    ASSUME NEW n \in Names, NEW ns, NEW d \in Path[n], Len(d) > 1, Live(ns, d)
    PROVE  Len(d) <= Len(TokenOf(ns, n))
<1> DEFINE live == {e \in Path[n] : Len(e) > 1 /\ Live(ns, e)}
           lens == {Len(e) : e \in live}
           best == CHOOSE e \in live : \A f \in live : Len(f) <= Len(e)
<1>1. /\ Len(n) \in Nat
      /\ \A e \in Path[n] : Len(e) \in 1..Len(n)
  BY PathFacts
<1>2. d \in live
  OBVIOUS
<1>3. lens \in SUBSET (0..Len(n)) /\ lens # {}
  <2>1. \A e \in live : Len(e) \in 0..Len(n)
    BY <1>1
  <2> HIDE DEF live
  <2> QED BY <1>2, <2>1
<1>4. PICK k \in lens : \A j \in lens : j <= k
  <2> HIDE DEF lens
  <2> QED BY <1>1, <1>3, Greatest
<1>5. \E e \in live : \A f \in live : Len(f) <= Len(e)
  BY <1>4
<1>6. \A f \in live : Len(f) <= Len(best)
  <2> HIDE DEF live
  <2> QED BY <1>5
<1>7. TokenOf(ns, n) = best
  BY <1>2 DEF TokenOf
<1> HIDE DEF best
<1> QED BY <1>2, <1>6, <1>7

(* The domains above a name are its parent and those above its parent.     *)
LEMMA ParentFacts ==
    ASSUME NEW n \in Names, Len(n) > 1
    PROVE  /\ Parent(n) \in Ancestors(n)
           /\ \A d \in Ancestors(n) : d = Parent(n) \/ d \in Ancestors(Parent(n))
<1>1. n \in Seq(STRING) /\ n # <<>> /\ Path[n] \subseteq Names
  BY NNSAssumption
<1>2. Len(n) \in Nat /\ Path[n] = {SubSeq(n, i, Len(n)) : i \in 1..Len(n)}
  BY <1>1 DEF Path
<1>3. Parent(n) = SubSeq(n, 2, Len(n)) /\ Len(Parent(n)) = Len(n) - 1
  <2>1. Tail(n) = SubSeq(n, 2, Len(n)) /\ Len(Tail(n)) = Len(n) - 1
    BY <1>1
  <2> QED BY <2>1 DEF Parent
<1>4. Parent(n) \in Ancestors(n)
  <2>1. Parent(n) \in Path[n]
    BY <1>2, <1>3
  <2> QED BY <1>2, <1>3, <2>1 DEF Ancestors
<1>5. Parent(n) \in Names /\ Len(Parent(n)) \in Nat
  <2>1. Parent(n) \in Path[n]
    BY <1>4 DEF Ancestors
  <2>2. Len(n) - 1 \in Nat
    BY <1>2
  <2> QED BY <1>1, <1>3, <2>1, <2>2
<1>6. ASSUME NEW d \in Ancestors(n), d # Parent(n)
      PROVE  d \in Ancestors(Parent(n))
  <2>1. PICK i \in 1..Len(n) : d = SubSeq(n, i, Len(n))
    BY <1>2 DEF Ancestors
  <2>2. i # 1 /\ i # 2
    <3>1. SubSeq(n, 1, Len(n)) = n
      BY <1>1, SubSeqFull
    <3> QED BY <1>3, <1>6, <2>1, <3>1 DEF Ancestors
  <2>3. i - 1 \in 1..Len(Parent(n))
    BY <1>2, <1>3, <2>1, <2>2
  <2>4. SubSeq(SubSeq(n, 2, Len(n)), i - 1, Len(n) - 1) = SubSeq(n, i, Len(n))
    <3>1. SubSeq(SubSeq(n, 2, Len(n)), i - 1, Len(n) - 1)
            = SubSeq(n, 2 + (i - 1) - 1, 2 + (Len(n) - 1) - 1)
      <4>1. /\ 2 \in 1..Len(n) /\ Len(n) \in 1..Len(n)
            /\ i - 1 \in 1..(Len(n) - 2 + 1)
            /\ Len(n) - 1 \in 1..(Len(n) - 2 + 1)
        BY <1>2, <2>1, <2>2
      <4> QED BY <1>1, <4>1, SubSeqOfSubSeq
    <3>2. 2 + (i - 1) - 1 = i /\ 2 + (Len(n) - 1) - 1 = Len(n)
      BY <1>2, <2>1
    <3> QED BY <3>1, <3>2
  <2>5. d = SubSeq(Parent(n), i - 1, Len(Parent(n)))
    BY <1>3, <2>1, <2>4
  <2>6. d \in Path[Parent(n)]
    BY <1>5, <2>3, <2>5 DEF Path
  <2>7. d # Parent(n)
    BY <1>6
  <2> QED BY <2>6, <2>7 DEF Ancestors
<1> QED BY <1>4, <1>6

(* The text of a name ends with that of each domain above it.              *)
LEMMA TextOfBelow ==
    ASSUME NEW x \in Names, NEW n \in Ancestors(x)
    PROVE  TextEndsWith(x, n)
<1>1. x \in Seq(STRING) /\ x # <<>> /\ Path[x] \subseteq Names
  BY NNSAssumption
<1>2. Len(x) \in Nat /\ Path[x] = {SubSeq(x, i, Len(x)) : i \in 1..Len(x)}
  BY <1>1 DEF Path
<1>3. PICK i \in 1..Len(x) : n = SubSeq(x, i, Len(x))
  BY <1>2 DEF Ancestors
<1>4. i # 1
  BY <1>1, <1>3, SubSeqFull DEF Ancestors
<1>5. /\ Len(n) = Len(x) - i + 1 /\ \A j \in 1..Len(n) : n[j] = x[i + j - 1]
  BY <1>1, <1>2, <1>3, SubSeqProperties
<1>6. Len(x) - Len(n) + 1 = i /\ i > 1 /\ n[1] = x[i]
  BY <1>2, <1>3, <1>4, <1>5
<1>7. SubSeq(x, i + 1, Len(x)) = Tail(n)
  <2>1. n \in Seq(STRING) /\ n # <<>>
    BY <1>1, NNSAssumption DEF Ancestors
  <2> QED BY <1>1, <1>2, <1>3, <1>5, <2>1
<1> QED BY <1>6, <1>7 DEF TextEndsWith

-----------------------------------------------------------------------------
(* Where records are kept. *)

(* The inductive form of NoneShadowed: it holds below expired domains too, *)
(* which a registration may bring back to use.                             *)
LiveSeesAll ==
    \A n \in Names : Live(names, n) =>
        \A r \in records : r.token \in Ancestors(n) => n \notin Ancestors(r.name)

(* A record is where one of its name was, or where its name belongs now.   *)
Placed(ns, r) ==
    \/ \E q \in records : q.token = r.token /\ q.name = r.name
    \/ r.name \in Names /\ r.token = TokenOf(ns, r.name)

(* A name in between a record's domain and its name is not live when the   *)
(* record is put where it belongs.                                         *)
LEMMA BelongsUnshadowed ==
    ASSUME NEW ns, NEW x \in Names, NEW m \in Names, Live(ns, m),
           TokenOf(ns, x) \in Ancestors(m)
    PROVE  m \notin Ancestors(x)
<1> SUFFICES ASSUME m \in Ancestors(x)
             PROVE  FALSE
  OBVIOUS
<1>1. m \in Path[x] /\ Len(m) \in Nat
  BY PathFacts DEF Ancestors
<1>2. Len(TokenOf(ns, x)) \in 1..Len(m) /\ Len(TokenOf(ns, x)) # Len(m)
  BY PathFacts DEF Ancestors
<1>3. Len(m) > 1
  BY <1>1, <1>2
<1>4. Len(m) <= Len(TokenOf(ns, x))
  BY <1>1, <1>3, TokenIsDeepest
<1> QED BY <1>1, <1>2, <1>4

(* A registration finds nothing kept above the domain for names below it.  *)
LEMMA RegisterClear ==
    ASSUME LiveSeesAll, NEW n \in Names, Len(n) > 1, ParentsLive(names, n),
           ~Conflicting(n), NEW r \in records, r.name \in Names, r.token \in Ancestors(n)
    PROVE  n \notin Ancestors(r.name)
<1> SUFFICES ASSUME n \in Ancestors(r.name)
             PROVE  FALSE
  OBVIOUS
<1>1. Parent(n) \in Ancestors(n) /\ \A d \in Ancestors(n) : d = Parent(n) \/ d \in Ancestors(Parent(n))
  BY ParentFacts
<1>2. CASE r.token = Parent(n)
  <2>1. TextEndsWith(r.name, n)
    BY TextOfBelow
  <2> QED BY <1>2, <2>1 DEF Conflicting
<1>3. CASE r.token # Parent(n)
  <2>1. r.token \in Ancestors(Parent(n))
    BY <1>1, <1>3
  <2>2. Parent(n) \in Names /\ Live(names, Parent(n))
    BY <1>1, PathFacts DEF ParentsLive, Ancestors
  <2>3. Parent(n) \in Ancestors(r.name)
    <3>1. n \in Path[r.name] /\ Parent(n) \in Path[n] /\ Parent(n) # n
      BY <1>1 DEF Ancestors
    <3>2. Path[n] \subseteq Path[r.name] /\ Len(n) <= Len(r.name)
      BY <3>1, PathFacts
    <3>3. /\ Len(Parent(n)) \in 1..Len(n) /\ Len(Parent(n)) # Len(n)
          /\ Len(n) \in Nat /\ Len(r.name) \in Nat
      BY <3>1, PathFacts
    <3>4. Parent(n) # r.name
      BY <3>2, <3>3
    <3> QED BY <3>1, <3>2, <3>4 DEF Ancestors
  <2> QED BY <2>1, <2>2, <2>3 DEF LiveSeesAll
<1> QED BY <1>2, <1>3

(* LiveSeesAll is kept when a domain that comes alive is not between a     *)
(* record and the domain that keeps it.                                    *)
LEMMA StillSeesAll ==
    ASSUME LiveSeesAll, UNCHANGED now, \A r \in records' : Placed(names', r),
           \A m \in Names : Live(names', m) =>
              \/ Live(names, m)
              \/ \A r \in records : r.token \in Ancestors(m) => m \notin Ancestors(r.name)
    PROVE  LiveSeesAll'
<1> SUFFICES ASSUME NEW m \in Names, Live(names', m), NEW r \in records',
                    r.token \in Ancestors(m)
             PROVE  m \notin Ancestors(r.name)
  BY DEF LiveSeesAll, Live
<1>1. CASE \E q \in records : q.token = r.token /\ q.name = r.name
  BY <1>1 DEF LiveSeesAll
<1>2. CASE r.name \in Names /\ r.token = TokenOf(names', r.name)
  BY <1>2, BelongsUnshadowed
<1> QED BY <1>1, <1>2 DEF Placed

-----------------------------------------------------------------------------
(* How records are numbered. *)

Of(rs, token, n, type) == {r \in rs : r.token = token /\ r.name = n /\ r.type = type}

Limit(type) == IF type = "A" THEN MaxRecordID + 1 ELSE 1

(* S has k records, numbered from 0. *)
Numbered(S, k) ==
    /\ Cardinality(S) = k
    /\ {s.id : s \in S} = 0..(k - 1)
    /\ \A s, t \in S : s.id = t.id => s = t

InOrder(S, limit) == \E k \in 0..limit : Numbered(S, k)

(* The inductive form of RecordsNumbered. *)
AllInOrder(rs) ==
    \A token \in Names, n \in Names, type \in Types \ {"Neo"} :
        InOrder(Of(rs, token, n, type), Limit(type))

(* A record that is stored takes the place of one with the same key, or is *)
(* of a type that has only the number 0.                                   *)
LEMMA StoreInOrder ==
    ASSUME NEW rs, rs \subseteq Record, IsFiniteSet(rs), AllInOrder(rs), NEW q \in Record,
           \/ q.type = "SOA" /\ q.id = 0
           \/ q.type = "Neo"
           \/ \E r \in rs : SameKey(q, r)
    PROVE  AllInOrder(StoreRecord(rs, q))
<1> SUFFICES ASSUME NEW token \in Names, NEW n \in Names, NEW type \in Types \ {"Neo"}
             PROVE  InOrder(Of(StoreRecord(rs, q), token, n, type), Limit(type))
  BY DEF AllInOrder
<1> DEFINE S == Of(rs, token, n, type)
           T == Of(StoreRecord(rs, q), token, n, type)
<1>1. PICK k \in 0..Limit(type) : Numbered(S, k)
  BY DEF AllInOrder, InOrder
<1>2. IsFiniteSet(S) /\ S \subseteq Record
  BY FS_Subset DEF Of
<1>3. CASE ~(q.token = token /\ q.name = n /\ q.type = type)
  <2>1. T = S
    BY <1>3 DEF Of, StoreRecord, SameKey
  <2> QED BY <1>1, <2>1 DEF InOrder
<1>4. CASE q.token = token /\ q.name = n /\ q.type = type
  <2>1. q.type # "Neo"
    BY <1>4
  <2>2. T = {s \in S : s.id # q.id} \cup {q}
    BY <1>4, <2>1 DEF Of, StoreRecord, SameKey
  <2>3. CASE \E r \in S : r.id = q.id
    <3>1. PICK r \in S : r.id = q.id
      BY <2>3
    <3>2. T = (S \ {r}) \cup {q}
      BY <1>1, <2>2, <3>1 DEF Numbered
    <3>3. \A s \in S \ {r} : s.id # q.id
      BY <1>1, <3>1 DEF Numbered
    <3>4. /\ IsFiniteSet(S \ {r}) /\ Cardinality(S \ {r}) = k - 1
          /\ k \in Nat
      <4>1. Cardinality(S \ {r}) = Cardinality(S) - 1 /\ IsFiniteSet(S \ {r})
        BY <1>2, <3>1, FS_RemoveElement
      <4>2. Cardinality(S) = k /\ k \in Nat
        BY <1>1, <1>2, FS_CardinalityType DEF Numbered
      <4> QED BY <4>1, <4>2
    <3>5. q \notin S \ {r}
      BY <3>3
    <3>6. Cardinality(T) = k
      <4>1. Cardinality((S \ {r}) \cup {q}) = Cardinality(S \ {r}) + 1
        BY <3>4, <3>5, FS_AddElement
      <4> QED BY <3>2, <3>4, <4>1
    <3>7. {s.id : s \in T} = {s.id : s \in S}
      <4> HIDE DEF S, T
      <4> QED BY <3>1, <3>2
    <3>8. \A s, t \in T : s.id = t.id => s = t
      <4>1. \A s, t \in S : s.id = t.id => s = t
        BY <1>1 DEF Numbered
      <4> HIDE DEF S, T
      <4> QED BY <3>2, <3>3, <4>1
    <3>9. Numbered(T, k)
      BY <1>1, <3>6, <3>7, <3>8 DEF Numbered
    <3> QED BY <1>1, <3>9 DEF InOrder
  <2>4. CASE ~ \E r \in S : r.id = q.id
    <3>1. q.type = "SOA" /\ q.id = 0
      BY <1>4, <2>1, <2>4 DEF SameKey, Of
    <3>2. k \in 0..1 /\ {s.id : s \in S} = 0..(k - 1)
      BY <1>1, <1>4, <3>1 DEF Limit, Numbered
    <3>3. S = {}
      <4> SUFFICES ASSUME NEW s \in S PROVE FALSE
        OBVIOUS
      <4>1. s.id \in 0..(k - 1)
        BY <3>2
      <4> HIDE DEF S
      <4>2. s.id = 0
        BY <3>2, <4>1
      <4> QED BY <2>4, <3>1, <4>2
    <3>4. T = {q}
      BY <2>2, <3>3
    <3>5. Numbered(T, 1)
      <4>1. Cardinality({q}) = 1
        BY FS_Singleton
      <4>2. {s.id : s \in {q}} = 0..(1 - 1)
        BY <3>1
      <4> HIDE DEF T
      <4> QED BY <3>4, <4>1, <4>2 DEF Numbered
    <3>6. 1 \in 0..Limit(type)
      BY <1>4, <3>1 DEF Limit
    <3> QED BY <3>5, <3>6 DEF InOrder
  <2> QED BY <2>3, <2>4
<1> QED BY <1>3, <1>4

(* A record that is added gets the number that follows the last one.       *)
LEMMA AddInOrder ==
    ASSUME NEW rs, rs \subseteq Record, IsFiniteSet(rs), AllInOrder(rs), NEW q \in Record,
           q.id = Cardinality(Of(rs, q.token, q.name, q.type)), q.id < Limit(q.type)
    PROVE  AllInOrder(rs \cup {q})
<1> SUFFICES ASSUME NEW token \in Names, NEW n \in Names, NEW type \in Types \ {"Neo"}
             PROVE  InOrder(Of(rs \cup {q}, token, n, type), Limit(type))
  BY DEF AllInOrder
<1> DEFINE S == Of(rs, token, n, type)
           T == Of(rs \cup {q}, token, n, type)
<1>1. PICK k \in 0..Limit(type) : Numbered(S, k)
  BY DEF AllInOrder, InOrder
<1>2. IsFiniteSet(S)
  BY FS_Subset DEF Of
<1>3. CASE ~(q.token = token /\ q.name = n /\ q.type = type)
  <2>1. T = S
    BY <1>3 DEF Of
  <2> QED BY <1>1, <2>1 DEF InOrder
<1>4. CASE q.token = token /\ q.name = n /\ q.type = type
  <2>1. T = S \cup {q}
    BY <1>4 DEF Of
  <2>2. Cardinality(S) = k /\ {s.id : s \in S} = 0..(k - 1)
        /\ \A s, t \in S : s.id = t.id => s = t
    BY <1>1 DEF Numbered
  <2>3. q.id = k /\ k < Limit(type) /\ k \in Nat
    <3>1. q.id = k /\ k < Limit(type)
      BY <1>4, <2>2
    <3> QED BY <3>1, <1>2, <2>2, FS_CardinalityType
  <2>4. \A s \in S : s.id # k
    <3> HIDE DEF S
    <3>1. \A s \in S : s.id \in 0..(k - 1)
      BY <2>2
    <3> QED BY <2>3, <3>1
  <2> HIDE DEF S, T
  <2>5. Cardinality(T) = k + 1
    <3>1. q \notin S
      BY <2>3, <2>4
    <3> QED BY <1>2, <2>1, <2>2, <3>1, FS_AddElement
  <2>6. {s.id : s \in T} = 0..((k + 1) - 1)
    <3>1. {s.id : s \in T} = {s.id : s \in S} \cup {k}
      BY <2>1, <2>3
    <3>2. 0..((k + 1) - 1) = (0..(k - 1)) \cup {k}
      BY <2>3
    <3> QED BY <2>2, <3>1, <3>2
  <2>7. \A s, t \in T : s.id = t.id => s = t
    BY <2>1, <2>2, <2>3, <2>4
  <2>8. k + 1 \in 0..Limit(type)
    BY <1>1, <2>3, NNSAssumption DEF Limit
  <2>9. Numbered(T, k + 1)
    BY <2>5, <2>6, <2>7 DEF Numbered
  <2> QED BY <2>8, <2>9 DEF InOrder, T
<1> QED BY <1>3, <1>4

(* Records of a name and type go together or stay.                         *)
LEMMA LessInOrder ==
    ASSUME NEW rs, NEW less, AllInOrder(rs),
           \A token \in Names, n \in Names, type \in Types \ {"Neo"} :
              Of(less, token, n, type) \in {Of(rs, token, n, type), {}}
    PROVE  AllInOrder(less)
<1>1. Numbered({}, 0)
  <2>1. Cardinality({}) = 0
    BY FS_EmptySet
  <2> QED BY <2>1 DEF Numbered
<1>2. \A type : InOrder({}, Limit(type))
  <2>1. \A type : 0 \in 0..Limit(type)
    BY NNSAssumption DEF Limit
  <2> QED BY <1>1, <2>1 DEF InOrder
<1> QED BY <1>2 DEF AllInOrder

-----------------------------------------------------------------------------
(* The steps keep the records where they belong and in order. *)

(* What a step of owner ns of the names has stored so far. *)
Orderly(ns, rs) ==
    /\ rs \subseteq Record /\ IsFiniteSet(rs) /\ AllInOrder(rs)
    /\ \A r \in rs : Placed(ns, r)

LEMMA StoredOrderly ==
    ASSUME NEW ns, NEW rs, Orderly(ns, rs), NEW q \in Record, Placed(ns, q),
           \/ q.type = "SOA" /\ q.id = 0
           \/ q.type = "Neo"
           \/ \E r \in rs : SameKey(q, r)
    PROVE  Orderly(ns, StoreRecord(rs, q))
<1>1. AllInOrder(StoreRecord(rs, q))
  BY StoreInOrder DEF Orderly
<1>2. StoreRecord(rs, q) \subseteq Record /\ IsFiniteSet(StoreRecord(rs, q))
  BY Stored DEF Orderly
<1>3. \A r \in StoreRecord(rs, q) : r \in rs \/ r = q
  BY DEF StoreRecord
<1> QED BY <1>1, <1>2, <1>3 DEF Orderly

(* The serial of a domain belongs where the domain's records do.           *)
LEMMA SoaOrderly ==
    ASSUME Registry, NEW ns, NEW rs, Orderly(ns, rs), NEW n \in Names
    PROVE  Orderly(ns, StoreRecord(rs, SoaRecord(TokenOf(ns, n), n)))
<1> DEFINE q == SoaRecord(TokenOf(ns, n), n)
<1>1. TokenOf(ns, n) \in Names
  BY TokenFacts, PathFacts
<1>2. q \in Record /\ q.token = TokenOf(ns, n) /\ q.name = n /\ q.type = "SOA"
  BY <1>1, SoaType DEF Registry
<1>3. q.id = 0
  BY DEF SoaRecord, ARecord
<1>4. Placed(ns, q)
  BY <1>2 DEF Placed
<1> HIDE DEF q
<1>5. Orderly(ns, StoreRecord(rs, q))
  BY <1>2, <1>3, <1>4, StoredOrderly
<1> QED BY <1>5 DEF q

(* What a change of records stores, its serial included.                   *)
LEMMA ChangeOrderly ==
    ASSUME Registry, NEW n \in Names, NEW rs, Orderly(names, rs), Change(n, rs),
           Usable(TokenOf(names, n))
    PROVE  Orderly(names, records')
<1> DEFINE token == TokenOf(names, n)
<1>1. token \in Names
  BY TokenFacts, PathFacts
<1>2. TokenOf(names, token) = token
  BY <1>1, TokenFacts DEF Usable
<1>3. records' = StoreRecord(rs, SoaRecord(token, token))
  BY DEF Change
<1> HIDE DEF token
<1>4. Orderly(names, StoreRecord(rs, SoaRecord(TokenOf(names, token), token)))
  BY <1>1, SoaOrderly
<1> QED BY <1>2, <1>3, <1>4

(* Every change of records keeps them in their place and their numbers     *)
(* without gaps.                                                           *)
LEMMA RecordStepOrderly ==
    ASSUME Registry, Orderly(names, records), NEW n \in Names, NEW signers,
           RecordStep(n, signers)
    PROVE  Orderly(names, records')
<1> DEFINE token == TokenOf(names, n)
<1>1. token \in Names /\ records \subseteq Record /\ IsFiniteSet(records) /\ AllInOrder(records)
      /\ \A r \in records : Placed(names, r)
  BY TokenFacts, PathFacts DEF Orderly
<1>2. Usable(token)
  BY DEF RecordStep, AddRecord, SetRecord, DeleteRecords, AddNeoRecord, DeleteNeoRecord,
         Writable
<1>3. \A type : Targets \subseteq Names /\ DataOf(type) \subseteq Data \cup Names
  BY NNSAssumption DEF DataOf
<1>4. \A type : RecordsOf(token, n, type) = Of(records, token, n, type)
  BY DEF RecordsOf, Of
<1>5. CASE AddRecord(n, signers)
  <2>1. PICK type \in {"A", "CNAME"} :
          /\ Cardinality(RecordsOf(token, n, type)) <= MaxRecordID
          /\ type = "CNAME" => RecordsOf(token, n, type) = {}
          /\ \E data \in DataOf(type) : Change(n, records \cup
              {ARecord(token, n, type, Cardinality(RecordsOf(token, n, type)), data)})
    BY <1>5 DEF AddRecord
  <2>2. PICK data \in DataOf(type) : Change(n, records \cup
              {ARecord(token, n, type, Cardinality(RecordsOf(token, n, type)), data)})
    BY <2>1
  <2> DEFINE c == Cardinality(RecordsOf(token, n, type))
             q == ARecord(token, n, type, c, data)
  <2>3. c \in Nat
    BY <1>1, FS_Subset, FS_CardinalityType DEF RecordsOf
  <2>4. /\ q \in Record /\ q.token = token /\ q.name = n /\ q.type = type /\ q.id = c
    BY <1>1, <1>3, <2>3 DEF ARecord, Record, Types
  <2>5. c < Limit(type)
    <3>1. CASE type = "A"
      BY <2>1, <2>3, <3>1, NNSAssumption DEF Limit
    <3>2. CASE type = "CNAME"
      BY <2>1, <3>2, FS_EmptySet DEF Limit
    <3> QED BY <3>1, <3>2
  <2>6. c = Cardinality(Of(records, q.token, q.name, q.type))
    BY <1>4, <2>4
  <2>7. Placed(names, q)
    BY <2>4 DEF Placed
  <2>8. Change(n, records \cup {q})
    BY <2>2
  <2> HIDE DEF c, q
  <2>9. AllInOrder(records \cup {q})
    BY <1>1, <2>4, <2>5, <2>6, AddInOrder
  <2>10. IsFiniteSet(records \cup {q})
    BY <1>1, FS_AddElement
  <2>11. Orderly(names, records \cup {q})
    BY <1>1, <2>4, <2>7, <2>9, <2>10 DEF Orderly
  <2> QED BY <1>2, <2>8, <2>11, ChangeOrderly
<1>6. CASE SetRecord(n, signers)
  <2>1. PICK r \in AllRecords(n) :
          /\ r.type \in {"A", "CNAME"}
          /\ \E data \in DataOf(r.type) : Change(n, StoreRecord(records, [r EXCEPT !.data = data]))
    BY <1>6 DEF SetRecord
  <2>2. PICK data \in DataOf(r.type) : Change(n, StoreRecord(records, [r EXCEPT !.data = data]))
    BY <2>1
  <2> DEFINE q == [r EXCEPT !.data = data]
  <2>3. r \in records /\ r \in Record
    BY <1>1 DEF AllRecords
  <2>4. q \in Record /\ q.token = r.token /\ q.name = r.name /\ q.type = r.type /\ q.id = r.id
    BY <1>3, <2>3 DEF Record
  <2>5. Change(n, StoreRecord(records, q))
    BY <2>2
  <2> HIDE DEF q
  <2>6. SameKey(q, r)
    BY <2>1, <2>4 DEF SameKey
  <2>7. Placed(names, q)
    BY <2>3, <2>4 DEF Placed
  <2>8. Orderly(names, StoreRecord(records, q))
    BY <2>3, <2>4, <2>6, <2>7, StoredOrderly
  <2> QED BY <1>2, <2>5, <2>8, ChangeOrderly
<1>7. ASSUME NEW less \in SUBSET records, Change(n, less),
             \A t \in Names, m \in Names, type \in Types \ {"Neo"} :
                Of(less, t, m, type) \in {Of(records, t, m, type), {}}
      PROVE  Orderly(names, records')
  <2>1. AllInOrder(less)
    BY <1>1, <1>7, LessInOrder
  <2>2. Orderly(names, less)
    BY <1>1, <2>1, FS_Subset DEF Orderly
  <2> QED BY <1>2, <1>7, <2>2, ChangeOrderly
<1>8. CASE DeleteRecords(n, signers)
  <2>1. PICK type \in Types \ {"SOA"} : Change(n, records \ RecordsOf(token, n, type))
    BY <1>8 DEF DeleteRecords
  <2> DEFINE less == records \ RecordsOf(token, n, type)
  <2>2. ASSUME NEW t \in Names, NEW m \in Names, NEW ty \in Types \ {"Neo"}
        PROVE  Of(less, t, m, ty) \in {Of(records, t, m, ty), {}}
    <3>1. CASE t = token /\ m = n /\ ty = type
      <4>1. Of(less, t, m, ty) = {}
        BY <3>1 DEF Of, RecordsOf
      <4> QED BY <4>1
    <3>2. CASE ~(t = token /\ m = n /\ ty = type)
      <4>1. Of(less, t, m, ty) = Of(records, t, m, ty)
        BY <3>2 DEF Of, RecordsOf
      <4> QED BY <4>1
    <3> QED BY <3>1, <3>2
  <2> QED BY <1>7, <2>1, <2>2
<1>9. ASSUME NEW address \in Addresses
      PROVE  /\ NeoRecord(n, address) \in Record
             /\ NeoRecord(n, address).token = token /\ NeoRecord(n, address).name = n
             /\ NeoRecord(n, address).type = "Neo"
  BY <1>1 DEF NeoRecord, ARecord, Record, Types
<1>10. CASE AddNeoRecord(n, signers)
  <2>1. PICK address \in Addresses : Change(n, StoreRecord(records, NeoRecord(n, address)))
    BY <1>10 DEF AddNeoRecord
  <2>2. Placed(names, NeoRecord(n, address))
    BY <1>9 DEF Placed
  <2>3. Orderly(names, StoreRecord(records, NeoRecord(n, address)))
    BY <1>9, <2>2, StoredOrderly
  <2> QED BY <1>2, <2>1, <2>3, ChangeOrderly
<1>11. CASE DeleteNeoRecord(n, signers)
  <2>1. PICK address \in Addresses : Change(n, records \ {NeoRecord(n, address)})
    BY <1>11 DEF DeleteNeoRecord
  <2>2. ASSUME NEW t \in Names, NEW m \in Names, NEW ty \in Types \ {"Neo"}
        PROVE  Of(records \ {NeoRecord(n, address)}, t, m, ty) = Of(records, t, m, ty)
    BY <1>9, <2>2 DEF Of
  <2>3. \A t \in Names, m \in Names, ty \in Types \ {"Neo"} :
          Of(records \ {NeoRecord(n, address)}, t, m, ty) \in {Of(records, t, m, ty), {}}
    BY <2>2
  <2> QED BY <1>7, <2>1, <2>3
<1> QED BY <1>5, <1>6, <1>8, <1>10, <1>11 DEF RecordStep

(* LiveSeesAll and AllInOrder are inductive, relative to the registry. *)
LEMMA NextInPlace ==
    ASSUME Registry, RecordTypes, LiveSeesAll, AllInOrder(records), [Next]_vars
    PROVE  LiveSeesAll' /\ AllInOrder(records')
<1>0. Domains \subseteq Names /\ now \in Nat /\ Expires \subseteq Int
  BY NNSAssumption DEF Registry
<1>1. \A ns : Orderly(ns, records)
  BY DEF Orderly, Placed, RecordTypes
<1>2. ASSUME Orderly(names', records'), UNCHANGED now,
             \A m \in Names : Live(names', m) =>
                \/ Live(names, m)
                \/ \A r \in records : r.token \in Ancestors(m) => m \notin Ancestors(r.name)
      PROVE  LiveSeesAll' /\ AllInOrder(records')
  BY <1>2, StillSeesAll DEF Orderly
<1>3. ASSUME NEW n \in Names, NEW s, Saved(n, s)
      PROVE  \A m \in Names \ {n} : Live(names', m) => Live(names, m)
  BY <1>3 DEF Saved, Registry, Live
<1>4. ASSUME NEW n \in Domains, NEW owner, NEW expire, SaveDomain(n, owner, expire)
      PROVE  Orderly(names', records')
  <2> DEFINE saved == [names EXCEPT ![n] = [owner |-> owner, expiration |-> now + expire,
                                            admin |-> Nobody]]
  <2>1. names' = saved /\ records' = StoreRecord(records, SoaRecord(TokenOf(saved, n), n))
    BY <1>4 DEF SaveDomain
  <2> HIDE DEF saved
  <2>2. Orderly(saved, StoreRecord(records, SoaRecord(TokenOf(saved, n), n)))
    BY <1>0, <1>1, SoaOrderly
  <2> QED BY <2>1, <2>2
<1>5. ASSUME NEW n \in Domains, NEW signers, Register(n, signers)
      PROVE  LiveSeesAll' /\ AllInOrder(records')
  <2>1. PICK owner \in Owners, expire \in Expires : SaveDomain(n, owner, expire)
    BY <1>5 DEF Register
  <2>2. PICK s : Saved(n, s)
    BY <1>5, RegisterEffect
  <2>3. UNCHANGED now /\ Len(n) > 1 /\ ParentsLive(names, n) /\ ~Conflicting(n)
    BY <1>5 DEF Register
  <2>4. \A r \in records : r.name \in Names
    BY DEF RecordTypes, Record
  <2>5. \A r \in records : r.token \in Ancestors(n) => n \notin Ancestors(r.name)
    BY <1>0, <2>3, <2>4, RegisterClear
  <2>6. Orderly(names', records')
    BY <1>4, <2>1
  <2> QED BY <1>0, <1>2, <1>3, <2>2, <2>3, <2>5, <2>6
<1>6. ASSUME NEW n \in Domains, NEW signers, RegisterTLD(n, signers)
      PROVE  LiveSeesAll' /\ AllInOrder(records')
  <2>1. PICK expire \in Expires : SaveDomain(n, Nobody, expire)
    BY <1>6 DEF RegisterTLD
  <2>2. PICK s : Saved(n, s)
    BY <1>6, RegisterTLDEffect
  <2>3. UNCHANGED now /\ Len(n) = 1
    BY <1>6 DEF RegisterTLD
  <2>4. Ancestors(n) = {}
    <3> SUFFICES ASSUME NEW d \in Ancestors(n) PROVE FALSE
      OBVIOUS
    <3>1. d \in Path[n] /\ d # n
      BY DEF Ancestors
    <3>2. Len(d) \in 1..1 /\ (Len(d) = 1 => d = n)
      BY <1>0, <2>3, <3>1, PathFacts
    <3> QED BY <3>1, <3>2
  <2>5. Orderly(names', records')
    BY <1>4, <2>1
  <2> QED BY <1>0, <1>2, <1>3, <2>2, <2>3, <2>4, <2>5
<1>7. ASSUME NEW n \in Domains, NEW signers,
             Transfer(n, signers) \/ Renew(n, signers) \/ SetAdmin(n, signers)
      PROVE  LiveSeesAll' /\ AllInOrder(records')
  <2>1. PICK s : Saved(n, s) /\ Live(names, n)
    BY <1>7, TransferEffect, RenewEffect, SetAdminEffect
  <2>2. UNCHANGED <<now, records>>
    BY <1>7 DEF Transfer, Renew, SetAdmin
  <2>3. Orderly(names', records')
    BY <1>1, <2>2
  <2> QED BY <1>0, <1>2, <1>3, <2>1, <2>2, <2>3
<1>8. ASSUME NEW n \in Domains, NEW signers, UpdateSOA(n, signers)
      PROVE  LiveSeesAll' /\ AllInOrder(records')
  <2>1. UNCHANGED <<names, now>>
        /\ records' = StoreRecord(records, SoaRecord(TokenOf(names, n), n))
    BY <1>8 DEF UpdateSOA
  <2>2. Orderly(names', records')
    BY <1>0, <1>1, <2>1, SoaOrderly
  <2> QED BY <1>2, <2>1, <2>2
<1>9. ASSUME NEW n \in Names, NEW signers, RecordStep(n, signers)
      PROVE  LiveSeesAll' /\ AllInOrder(records')
  <2>1. UNCHANGED <<names, now>>
    BY <1>9, RecordStepEffect
  <2>2. Orderly(names', records')
    BY <1>1, <1>9, <2>1, RecordStepOrderly
  <2> QED BY <1>2, <2>1, <2>2
<1>10. ASSUME UNCHANGED <<names, records>>, now' = now \/ now' = now + 1
       PROVE  LiveSeesAll' /\ AllInOrder(records')
  <2>1. \A m \in Names : Live(names, m)' => Live(names, m)
    <3> SUFFICES ASSUME NEW m \in Names, names[m] # Unregistered, now' < names[m].expiration
                 PROVE  now < names[m].expiration
      BY <1>10 DEF Live
    <3>1. names[m].expiration \in Int
      BY DEF Registry, NameState
    <3> QED BY <1>0, <1>10, <3>1
  <2> QED BY <1>10, <2>1 DEF LiveSeesAll
<1>11. ASSUME NEW signers, SetPrice(signers)
       PROVE  UNCHANGED <<names, records, now>>
  BY <1>11 DEF SetPrice
<1>12. CASE Tick
  BY <1>10, <1>12 DEF Tick
<1>13. CASE UNCHANGED vars
  BY <1>10, <1>13 DEF vars
<1>14. CASE \E signers \in Signers, n \in Domains : DomainStep(n, signers)
  BY <1>5, <1>6, <1>7, <1>8, <1>14 DEF DomainStep
<1>15. CASE \E signers \in Signers : (\E n \in Names : RecordStep(n, signers)) \/ SetPrice(signers)
  BY <1>9, <1>10, <1>11, <1>15
<1> QED BY <1>12, <1>13, <1>14, <1>15 DEF Next

(* LiveSeesAll and AllInOrder hold at first: there are only the SOA        *)
(* records of TLDs.                                                        *)
LEMMA InitInPlace == Init => LiveSeesAll /\ AllInOrder(records)
<1> SUFFICES ASSUME Init PROVE LiveSeesAll /\ AllInOrder(records)
  OBVIOUS
<1>1. Registry /\ InitialTLDs \subseteq {n \in Names : Len(n) = 1}
  BY InitRegistry, NNSAssumption
<1>2. records = {SoaRecord(n, n) : n \in InitialTLDs}
  BY DEF Init
<1>3. ASSUME NEW r \in records
      PROVE  /\ r.name \in InitialTLDs /\ r.token = r.name /\ r.type = "SOA"
             /\ r = SoaRecord(r.name, r.name)
  <2>1. PICK n \in InitialTLDs : r = SoaRecord(n, n)
    BY <1>2
  <2>2. n \in Names
    BY <1>1
  <2> QED BY <1>1, <2>1, <2>2, SoaType DEF Registry
<1>4. LiveSeesAll
  <2> SUFFICES ASSUME NEW n \in Names, NEW r \in records, r.token \in Ancestors(n),
                      n \in Ancestors(r.name)
               PROVE  FALSE
    BY DEF LiveSeesAll
  <2>1. n \in Path[r.name] /\ n # r.name /\ r.name \in Names /\ Len(r.name) = 1
    BY <1>1, <1>3 DEF Ancestors
  <2>2. Len(n) \in 1..1 /\ (Len(n) = 1 => n = r.name)
    BY <2>1, PathFacts
  <2> QED BY <2>1, <2>2
<1>5. ASSUME NEW token \in Names, NEW n \in Names, NEW type \in Types \ {"Neo"}
      PROVE  InOrder(Of(records, token, n, type), Limit(type))
  <2> DEFINE S == Of(records, token, n, type)
  <2>1. CASE S = {}
    <3>1. Numbered(S, 0)
      BY <2>1, FS_EmptySet DEF Numbered
    <3>2. 0 \in 0..Limit(type)
      BY NNSAssumption DEF Limit
    <3> QED BY <3>1, <3>2 DEF InOrder
  <2>2. CASE S # {}
    <3>1. PICK r \in S : TRUE
      BY <2>2
    <3>2. type = "SOA" /\ \A s \in S : s = SoaRecord(n, n)
      BY <1>3 DEF Of
    <3>3. S = {SoaRecord(n, n)}
      BY <3>1, <3>2
    <3>4. SoaRecord(n, n).id = 0
      BY DEF SoaRecord, ARecord
    <3>5. Numbered(S, 1)
      <4> DEFINE q == SoaRecord(n, n)
      <4>1. Cardinality({q}) = 1
        BY FS_Singleton
      <4> HIDE DEF q, S
      <4>2. q.id = 0 /\ S = {q}
        BY <3>3, <3>4 DEF q
      <4> QED BY <4>1, <4>2 DEF Numbered
    <3>6. 1 \in 0..Limit(type)
      BY <3>2 DEF Limit
    <3> QED BY <3>5, <3>6 DEF InOrder
  <2> QED BY <2>1, <2>2
<1> QED BY <1>4, <1>5 DEF AllInOrder

(* Nothing is kept above a live domain for names below it, and the records *)
(* of a name and type are numbered without gaps up to the limit, whatever  *)
(* is registered, expires, and is registered again (getParentConflicting-  *)
(* Record, tokenIDFromName, AddRecord).                                    *)
THEOREM RecordsStayInPlace == Spec => []RecordsInPlace
<1>1. LiveSeesAll => NoneShadowed
  BY DEF LiveSeesAll, NoneShadowed, Usable
<1>2. RecordTypes /\ AllInOrder(records) => RecordsNumbered
  <2> SUFFICES ASSUME RecordTypes, AllInOrder(records), NEW r \in records, r.type # "Neo"
               PROVE  LET ids == {s.id : s \in RecordsOf(r.token, r.name, r.type)}
                      IN  /\ ids = 0..(Cardinality(RecordsOf(r.token, r.name, r.type)) - 1)
                          /\ Cardinality(ids) <= IF r.type = "A" THEN MaxRecordID + 1 ELSE 1
    BY DEF RecordsNumbered
  <2> DEFINE S == RecordsOf(r.token, r.name, r.type)
             ids == {s.id : s \in S}
  <2>1. r.token \in Names /\ r.name \in Names /\ r.type \in Types \ {"Neo"}
    BY DEF RecordTypes, Record
  <2>2. S = Of(records, r.token, r.name, r.type)
    BY DEF RecordsOf, Of
  <2>3. InOrder(S, Limit(r.type))
    BY <2>1, <2>2 DEF AllInOrder
  <2>4. PICK k \in 0..Limit(r.type) : Numbered(S, k)
    BY <2>3 DEF InOrder
  <2>5. Cardinality(S) = k /\ ids = 0..(k - 1) /\ k \in Nat
    <3>1. Limit(r.type) \in Nat
      BY NNSAssumption DEF Limit
    <3> QED BY <2>4, <3>1 DEF Numbered
  <2>6. Cardinality(0..(k - 1)) = k
    <3>1. Cardinality(0..(k - 1)) = IF 0 > k - 1 THEN 0 ELSE (k - 1) - 0 + 1
      BY <2>5, FS_Interval
    <3> QED BY <2>5, <3>1
  <2>7. k <= Limit(r.type)
    BY <2>4
  <2> HIDE DEF S, ids
  <2>8. ids = 0..(Cardinality(S) - 1) /\ Cardinality(ids) <= Limit(r.type)
    BY <2>5, <2>6, <2>7
  <2> QED BY <2>8 DEF S, ids, Limit
<1>3. Registry /\ RecordTypes /\ LiveSeesAll /\ AllInOrder(records) /\ [Next]_vars
        => (LiveSeesAll /\ AllInOrder(records))'
  BY NextInPlace
<1> QED BY <1>1, <1>2, <1>3, InitInPlace, RecordsHold, PTL DEF Spec, RecordsInPlace
=============================================================================
