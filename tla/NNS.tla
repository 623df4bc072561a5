--------------------------------- MODULE NNS ---------------------------------
(***************************************************************************)
(* The name service contract (contracts/nns/contract.go): domains, which   *)
(* are tokens with an owner, an administrator and an expiration, and the   *)
(* records kept for them and for names below them.                         *)
(*                                                                         *)
(* A name is the sequence of its labels, as splitAndCheck returns it; the  *)
(* top-level domain (TLD) comes last.  One action is one transaction, a    *)
(* panic is a disabled action.  The type "A" stands for A, TXT and AAAA,   *)
(* which differ in the text they accept; of a SOA only its serial is kept. *)
(* Burnt GAS is left out.  The receiver of a token is called after the     *)
(* last write, so what it does is a transaction of its own here.           *)
(***************************************************************************)
EXTENDS Integers, Sequences, FiniteSets

CONSTANTS Names,         \* names that are registered or looked up
          Domains,       \* bound: names somebody registers
          LabelEnds,     \* <<l, m>>: label l ends with the shorter label m
          Owners,        \* accounts
          Nobody,        \* nil in place of an account
          Committee,     \* the account of the committee
          Unregistered,  \* no NameState is stored
          Data,          \* data of records of type A
          Targets,       \* bound: data of records of type CNAME
          Addresses,     \* bound: data of records of type Neo
          NoData,        \* in place of the text of a SOA
          InitialTLDs,   \* TLDs that _deploy registers, for InitialExpire
          InitialExpire,
          Expires,       \* bound: durations of Register and RegisterTLD
          Year, MaxYears,        \* Renew: a year, and the most it adds
          DefaultRegisterPrice, MaxRegisterPrice,
          Prices,        \* bound: arguments of SetPrice
          MaxRecordID,
          Signers,       \* bound: sets of witnesses of a transaction
          MaxTime,       \* bound: the time
          MaxExpiration, \* bound: expiration Renew sets
          MaxRecords     \* bound: records at once, SOA apart

Parent(n) == Tail(n)
TLD(n) == <<n[Len(n)]>>
(* A name and the domains above it. *)
Path == [n \in Names |-> {SubSeq(n, i, Len(n)) : i \in 1..Len(n)}]
Ancestors(n) == Path[n] \ {n}

ASSUME NNSAssumption ==
    /\ \A n \in Names : n \in Seq(STRING) /\ n # <<>> /\ Path[n] \subseteq Names
    /\ Domains \subseteq Names /\ Targets \subseteq Names
    /\ Nobody \notin Owners /\ Committee \notin Owners
    /\ InitialTLDs \subseteq {n \in Names : Len(n) = 1}
    /\ IsFiniteSet(InitialTLDs)
    /\ InitialExpire \in Nat \ {0} /\ Expires \subseteq Int
    /\ Year \in Nat /\ MaxYears \in Nat
    /\ DefaultRegisterPrice \in 0..MaxRegisterPrice /\ MaxRegisterPrice \in Nat
    /\ Prices \subseteq Int
    /\ MaxRecordID \in Nat
    /\ MaxTime \in Nat /\ MaxExpiration \in Nat /\ MaxRecords \in Nat

VARIABLES
    roots,        \* prefixRoot: TLDs
    names,        \* prefixName: NameState of a domain
    supply,       \* prefixTotalSupply
    balance,      \* prefixBalance: number of domains of an account
    tokens,       \* prefixAccountToken: <<account, domain>>
    records,      \* prefixRecord
    price,        \* prefixRegisterPrice
    now           \* external: the time of the block

owned == <<supply, balance, tokens>>
vars == <<roots, names, owned, records, price, now>>

NameState == [owner : Owners \cup {Nobody}, expiration : Int,
              admin : Owners \cup {Nobody}]
ASSUME UnregisteredAssumption == Unregistered \notin NameState

Types == {"A", "CNAME", "SOA", "Neo"}
Record == [token : Names, name : Names, type : Types, id : Nat,
           data : Data \cup Addresses \cup Names \cup {NoData}, serial : Nat]
(* Only the SOA has a serial. *)
ARecord(token, n, type, id, data) ==
    [token |-> token, name |-> n, type |-> type, id |-> id, data |-> data, serial |-> 0]
SoaRecord(token, n) ==
    [ARecord(token, n, "SOA", 0, NoData) EXCEPT !.serial = now]

-----------------------------------------------------------------------------
(* Names. *)

(* The NameState of n is stored and has not expired. *)
Live(ns, n) == ns[n] # Unregistered /\ now < ns[n].expiration

(* ~parentExpired(1, fragments of n) *)
ParentsLive(ns, n) == \A p \in Ancestors(n) : Live(ns, p)

(* getNameState does not panic. *)
UsableMutant(n) == Live(names, n)
Usable(n) == Live(names, n) /\ ParentsLive(names, n)

IsAdmin(n, signers) ==
    IF names[n].owner = Nobody THEN Committee \in signers
    ELSE {names[n].owner, names[n].admin} \cap signers # {}

(* tokenIDFromName: the deepest live domain that n is or is below of. *)
TokenOf(ns, n) ==
    LET live == {d \in Path[n] : Len(d) > 1 /\ Live(ns, d)}
    IN  IF live = {} THEN n
        ELSE CHOOSE d \in live : \A e \in live : Len(e) <= Len(d)

RecordsOf(token, n, type) ==
    {r \in records : r.token = token /\ r.name = n /\ r.type = type}

AllRecords(n) == {r \in records : r.token = TokenOf(names, n) /\ r.name = n}

(* The text of r ends with, and is longer than, that of n: r is below n, or *)
(* a label of r ends with the first one of n.                              *)
TextEndsWith(r, n) ==
    LET k == Len(r) - Len(n) + 1
    IN  /\ k > 0
        /\ SubSeq(r, k + 1, Len(r)) = Tail(n)
        /\ (k > 1 /\ r[k] = n[1]) \/ <<r[k], n[1]>> \in LabelEnds

(* getParentConflictingRecord *)
ConflictingMutant(n) == FALSE
Conflicting(n) ==
    \E r \in records : r.token = Parent(n) /\ TextEndsWith(r.name, n)

(* The records of a domain can be read: the iterators deserialize what they *)
(* pass, and AddNeoRecord stores nothing to deserialize.                   *)
Iterable(rs) == \A r \in rs : r.type # "Neo"

(* It panics on a registered TLD that has expired. *)
IsAvailable(n) ==
    IF TLD(n) \notin roots THEN Len(n) = 1
    ELSE /\ ~(Live(names, n) /\ ParentsLive(names, n))
         /\ Len(n) > 1 /\ ~Conflicting(n)
         /\ Iterable({r \in records : r.token = Parent(n)})

-----------------------------------------------------------------------------
(* Domains. *)

SameKey(r, s) ==
    /\ r.token = s.token /\ r.name = s.name /\ r.type = s.type /\ r.id = s.id
    /\ r.type = "Neo" => r.data = s.data
StoreRecord(rs, r) == {s \in rs : ~SameKey(r, s)} \cup {r}

SaveDomainMutant(n, owner, expire) ==
    LET saved == [names EXCEPT ![n] = [owner |-> owner, expiration |-> now + expire,
                                       admin |-> Nobody]]
    IN  /\ names' = saved
        /\ records' = StoreRecord(records, SoaRecord(TokenOf(names, n), n))
SaveDomain(n, owner, expire) ==
    LET saved == [names EXCEPT ![n] = [owner |-> owner, expiration |-> now + expire,
                                       admin |-> Nobody]]
    IN  /\ names' = saved
        /\ records' = StoreRecord(records, SoaRecord(TokenOf(saved, n), n))

(* updateBalance takes n from its owner, if it has one, and gives it to to. *)
MoveTokenMutant(n, to) ==
    /\ balance' = [balance EXCEPT ![to] = @ + 1]
    /\ tokens' = tokens \cup {<<to, n>>}
MoveToken(n, to) ==
    LET from == IF names[n] = Unregistered THEN {} ELSE {names[n].owner}
    IN  /\ balance' = [o \in Owners |-> balance[o] - (IF o \in from THEN 1 ELSE 0)
                                                   + (IF o = to THEN 1 ELSE 0)]
        /\ tokens' = (tokens \ {<<o, n>> : o \in from}) \cup {<<to, n>>}

Register(n, signers) ==
    /\ Len(n) > 1 /\ TLD(n) \in roots /\ ParentsLive(names, n)
    /\ ~Live(names, n)   \* else it returns false
    /\ Len(n) > 2 => IsAdmin(Parent(n), signers)
    /\ ~Conflicting(n) /\ Iterable({r \in records : r.token = Parent(n)})
    /\ supply' = supply + (IF names[n] = Unregistered THEN 1 ELSE 0)
    /\ \E owner \in Owners \cap signers, expire \in Expires :
          MoveToken(n, owner) /\ SaveDomain(n, owner, expire)
    /\ UNCHANGED <<roots, price, now>>

RegisterTLD(n, signers) ==
    /\ Committee \in signers
    /\ Len(n) = 1
    /\ n \in roots => ~Live(names, n)
    /\ roots' = roots \cup {n}
    /\ \E expire \in Expires : SaveDomain(n, Nobody, expire)
    /\ UNCHANGED <<owned, price, now>>

TransferMutant(n, signers) ==
    /\ Len(n) > 1 /\ Live(names, n) /\ names[n].owner \in signers
    /\ \E to \in Owners \ {names[n].owner} :
          names' = [names EXCEPT ![n].owner = to] /\ MoveToken(n, to)
    /\ UNCHANGED <<roots, supply, records, price, now>>
Transfer(n, signers) ==
    /\ Len(n) > 1 /\ Live(names, n)
    /\ names[n].owner \in signers   \* else it returns false
    /\ \E to \in Owners \ {names[n].owner} :
          /\ names' = [names EXCEPT ![n].owner = to, ![n].admin = Nobody]
          /\ MoveToken(n, to)
    /\ UNCHANGED <<roots, supply, records, price, now>>

Renew(n, signers) ==
    /\ Usable(n) /\ IsAdmin(n, signers)
    /\ \E years \in 1..MaxYears :
          LET expiration == names[n].expiration + Year * years
          IN  /\ Len(n) > 1 => expiration <= now + MaxYears * Year
              /\ expiration <= MaxExpiration
              /\ names' = [names EXCEPT ![n].expiration = expiration]
    /\ UNCHANGED <<roots, owned, records, price, now>>

UpdateSOA(n, signers) ==
    /\ Usable(n) /\ IsAdmin(n, signers)
    /\ records' = StoreRecord(records, SoaRecord(TokenOf(names, n), n))
    /\ UNCHANGED <<roots, names, owned, price, now>>

SetAdmin(n, signers) ==
    /\ Len(n) > 1 /\ Usable(n) /\ names[n].owner \in signers
    /\ \E admin \in (Owners \cap signers) \cup {Nobody} :
          names' = [names EXCEPT ![n].admin = admin]
    /\ UNCHANGED <<roots, owned, records, price, now>>

SetPrice(signers) ==
    /\ Committee \in signers
    /\ price' \in Prices \cap 0..MaxRegisterPrice
    /\ UNCHANGED <<roots, names, owned, records, now>>

-----------------------------------------------------------------------------
(* Records. *)

(* Records of n may be changed: the domain is live, its serial can be       *)
(* updated, and its administrator signed.                                  *)
Writable(n, signers) ==
    LET token == TokenOf(names, n)
    IN  /\ Len(token) > 1 /\ Usable(token) /\ IsAdmin(token, signers)
        /\ RecordsOf(token, token, "SOA") # {}

(* What is stored when rs is to be: the serial is updated as well. *)
ChangeMutant(n, rs) ==
    records' = rs /\ UNCHANGED <<roots, names, owned, price, now>>
Change(n, rs) ==
    LET token == TokenOf(names, n)
    IN  /\ records' = StoreRecord(rs, SoaRecord(token, token))
        /\ UNCHANGED <<roots, names, owned, price, now>>

DataOf(type) == IF type = "A" THEN Data ELSE Targets

Room == Cardinality({r \in records : r.type # "SOA"}) < MaxRecords

AddRecord(n, signers) ==
    /\ Room /\ Writable(n, signers)
    /\ \E type \in {"A", "CNAME"} :
          LET token == TokenOf(names, n)
              same == RecordsOf(token, n, type)
          IN  /\ Cardinality(same) <= MaxRecordID
              /\ type = "CNAME" => same = {}
              /\ \E data \in DataOf(type) \ {r.data : r \in same} :
                    Change(n, records \cup
                        {ARecord(token, n, type, Cardinality(same), data)})

SetRecord(n, signers) ==
    /\ Writable(n, signers)
    /\ \E r \in AllRecords(n) :
          /\ r.type \in {"A", "CNAME"}
          /\ \E data \in DataOf(r.type) :
                Change(n, StoreRecord(records, [r EXCEPT !.data = data]))

DeleteRecords(n, signers) ==
    /\ Writable(n, signers)
    /\ \E type \in Types \ {"SOA"} :
          Change(n, records \ RecordsOf(TokenOf(names, n), n, type))

NeoRecord(n, address) == ARecord(TokenOf(names, n), n, "Neo", 0, address)

AddNeoRecord(n, signers) ==
    /\ Room /\ Writable(n, signers)
    /\ \E address \in Addresses : Change(n, StoreRecord(records, NeoRecord(n, address)))

DeleteNeoRecord(n, signers) ==
    /\ Writable(n, signers)
    /\ \E address \in Addresses : Change(n, records \ {NeoRecord(n, address)})

-----------------------------------------------------------------------------
Tick == /\ now < MaxTime
        /\ now' = now + 1
        /\ UNCHANGED <<roots, names, owned, records, price>>

Init ==
    /\ roots = InitialTLDs
    /\ names = [n \in Names |-> IF n \notin InitialTLDs THEN Unregistered
                  ELSE [owner |-> Nobody, expiration |-> InitialExpire, admin |-> Nobody]]
    /\ supply = 0 /\ balance = [o \in Owners |-> 0] /\ tokens = {}
    /\ now = 0
    /\ records = {SoaRecord(n, n) : n \in InitialTLDs}
    /\ price = DefaultRegisterPrice

DomainStep(n, signers) ==
    \/ Register(n, signers)
    \/ RegisterTLD(n, signers)
    \/ Transfer(n, signers)
    \/ Renew(n, signers)
    \/ UpdateSOA(n, signers)
    \/ SetAdmin(n, signers)

RecordStep(n, signers) ==
    \/ AddRecord(n, signers)
    \/ SetRecord(n, signers)
    \/ DeleteRecords(n, signers)
    \/ AddNeoRecord(n, signers)
    \/ DeleteNeoRecord(n, signers)

Next ==
    \/ \E signers \in Signers :
          \/ \E n \in Domains : DomainStep(n, signers)
          \/ \E n \in Names : RecordStep(n, signers)
          \/ SetPrice(signers)
    \/ Tick

Spec == Init /\ [][Next]_vars

-----------------------------------------------------------------------------
(* Properties. *)

TypeOK ==
    /\ roots \subseteq Names
    /\ names \in [Names -> NameState \cup {Unregistered}]
    /\ supply \in Nat /\ balance \in [Owners -> Nat]
    /\ tokens \subseteq Owners \X Names
    /\ records \subseteq Record
    /\ price \in 0..MaxRegisterPrice
    /\ now \in Nat

(* Domains that are tokens: all but TLDs, expired ones too. *)
Minted == {n \in Names : Len(n) > 1 /\ names[n] # Unregistered}

(* The token indexes follow the owners through registration of expired      *)
(* domains and transfers: an account's tokens are the domains it owns, its  *)
(* balance counts them, and the supply counts all (updateBalance,          *)
(* updateTotalSupply).                                                     *)
IndexesAgree ==
    /\ tokens = {<<names[n].owner, n>> : n \in Minted}
    /\ \A o \in Owners : balance[o] = Cardinality({n \in Minted : names[n].owner = o})
    /\ supply = Cardinality(Minted)

(* A live domain has a SOA record of its own, so that no change of its      *)
(* records fails on it (updateSoaSerial), also when the domain was first   *)
(* registered for no time at all and its SOA went to its parent.           *)
LiveHasSoa ==
    \A n \in Names : Live(names, n) => RecordsOf(n, n, "SOA") # {}

(* While a domain is live, no domain above it holds records of names below  *)
(* it, which nobody would find (Register, tokenIDFromName).                *)
NoneShadowed ==
    \A n \in Names : Usable(n) =>
        \A r \in records : r.token \in Ancestors(n) => n \notin Ancestors(r.name)

(* The records of a name and type are numbered from 0 without gaps, up to   *)
(* the limit, and there is one CNAME at most: the next number is their     *)
(* count (AddRecord, DeleteRecords).                                       *)
RecordsNumbered ==
    \A r \in records : r.type # "Neo" =>
        LET ids == {s.id : s \in RecordsOf(r.token, r.name, r.type)}
        IN  /\ ids = 0..(Cardinality(RecordsOf(r.token, r.name, r.type)) - 1)
            /\ Cardinality(ids) <= IF r.type = "A" THEN MaxRecordID + 1 ELSE 1

(* Both: what is stored of a live domain is found where it is looked for,   *)
(* and has the number that the next write takes it to have.                *)
RecordsInPlace == NoneShadowed /\ RecordsNumbered

(* Nothing but its owner and administrator changes of a domain below an     *)
(* expired one, and none of its records (getFragmentedNameState).          *)
DeadBranchesFrozen ==
    [][\A n \in Names : ~ParentsLive(names, n) =>
          /\ names'[n] # names[n] => /\ names[n] # Unregistered
                                     /\ names'[n].expiration = names[n].expiration
          /\ \A r \in records \cup records' :
                r.token = n => r \in records /\ r \in records']_vars

(* Whoever changes records of a domain leaves the time in its serial, by    *)
(* which secondary servers know (updateSoaSerial).                         *)
SerialTellsChange ==
    [][\A n \in Names :
          {r \in records : r.token = n /\ r.type # "SOA"}
            # {r \in records' : r.token = n /\ r.type # "SOA"}
          => SoaRecord(n, n) \in records']_vars

(* The domains as leases. *)
LeaseOf(n) == IF names[n] = Unregistered THEN Unregistered
              ELSE [holder |-> names[n].owner, deputy |-> names[n].admin,
                    until |-> names[n].expiration]
Lease == INSTANCE Leases WITH
    Things <- Names, Holders <- Owners \cup {Nobody}, Free <- Unregistered, clock <- now,
    lease <- [n \in Names |-> LeaseOf(n)]
ASSUME LeaseAssumption == Unregistered \notin Lease!Terms

(* A domain is taken when nobody has it or it has expired, one at a time;   *)
(* until then it changes hands only by transfer and its term only grows;    *)
(* and its administrator goes when its owner does.                         *)
ImplementsLeases == Lease!Spec
=============================================================================
