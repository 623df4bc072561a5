------------------------------ MODULE Reputation ------------------------------
(***************************************************************************)
(* The Reputation contract (contracts/reputation/contract.go): values put  *)
(* for a peer in an epoch, kept under keys that are read by prefix.  A key *)
(* is an ID, the bytes of the epoch and of the peer, and for a value the   *)
(* bytes of its number.  Bytes are digits to the base Base, small so that  *)
(* numbers with several bytes occur.                                       *)
(***************************************************************************)
EXTENDS Integers, Sequences, FiniteSets, SequencesExt

CONSTANTS Base,       \* values of a byte
          Epochs,     \* bound: epochs of values
          Peers       \* keys of peers

Byte == 0..(Base - 1)

(* convert.ToBytes: least significant byte first, none for zero, and one    *)
(* more when the last would have the bit of the sign.                      *)
Digits[x \in Nat] ==
    IF 2 * x < Base THEN <<x>> ELSE <<x % Base>> \o Digits[x \div Base]
ToBytes(x) == IF x = 0 THEN <<>> ELSE Digits[x]

(* Keys of peers are as long as each other, and no key is the last digits   *)
(* of an epoch and a part of a key.                                        *)
ASSUME ReputationAssumption ==
    /\ Base \in Nat \ {0, 1} /\ Epochs \subseteq Nat /\ Peers \subseteq Seq(Byte)
    /\ \A p, q \in Peers : Len(p) = Len(q)
    /\ \A p, q \in Peers, e \in Epochs :
          LET digits == ToBytes(e) IN
          \A d \in DOMAIN digits : ~IsPrefix(p, SubSeq(digits, d, Len(digits)) \o q)

VARIABLES
    counts,    \* 'c': ID -> how many values were put
    storage,   \* 'r': ID and number -> value
    trusted    \* history variable: the values put, in order

StorageID(e, peer) == ToBytes(e) \o peer

Count(id) == IF id \in DOMAIN counts THEN counts[id] ELSE 0

Stored(f, k, v) == [x \in DOMAIN f \cup {k} |-> IF x = k THEN v ELSE f[x]]

(* Mutant: the number of a value is not counted up. *)
PutMutant(e, peer, value) ==
    LET id == StorageID(e, peer)
        cnt == 1
    IN  /\ counts' = Stored(counts, id, cnt)
        /\ storage' = Stored(storage, id \o ToBytes(cnt), value)
        /\ trusted' = Append(trusted, [epoch |-> e, peer |-> peer, value |-> value])
Put(e, peer, value) ==
    LET id == StorageID(e, peer)
        cnt == Count(id) + 1
    IN  /\ counts' = Stored(counts, id, cnt)
        /\ storage' = Stored(storage, id \o ToBytes(cnt), value)
        /\ trusted' = Append(trusted, [epoch |-> e, peer |-> peer, value |-> value])

(* Keys are found in the order of their bytes, a prefix before what it      *)
(* begins.                                                                 *)
Before(a, b) ==
    \/ a # b /\ IsPrefix(a, b)
    \/ \E i \in DOMAIN a \cap DOMAIN b :
          a[i] < b[i] /\ \A j \in 1..(i - 1) : a[j] = b[j]

Find(keys, prefix) ==
    LET found == {k \in keys : IsPrefix(prefix, k)}
    IN  [i \in 1..Cardinality(found) |->
            CHOOSE k \in found : Cardinality({l \in found : Before(l, k)}) = i - 1]

GetByID(id) ==
    LET found == Find(DOMAIN storage, id)
    IN  [i \in DOMAIN found |-> storage[found[i]]]
Get(e, peer) == GetByID(StorageID(e, peer))
ListByEpoch(e) == Find(DOMAIN counts, ToBytes(e))

ReputationInit == counts = <<>> /\ storage = <<>> /\ trusted = <<>>
reputationVars == <<counts, storage, trusted>>
=============================================================================
