---------------------------------- MODULE H3 ----------------------------------
(***************************************************************************)
(* The H3 hash of BloomFilter.h (BloomFilter::hash), shared by every Bloom *)
(* filter of the models.  A hash function is a Q vector of random words    *)
(* of the filter's width; a key hashes to the XOR of the words of its set  *)
(* bits.  Only the words of bits that some key of a model sets are ever    *)
(* read, so a model draws its Q vectors over those bits (UsedBits).        *)
(***************************************************************************)
EXTENDS Integers, Bitwise

CONSTANT QBits      \* the Q words the keys of a model can reach (QLENGTH)

ASSUME QBits \in 1 .. 32

Bit(key, j) == (key \div 2^j) % 2

UsedBits(keys) == {j \in 0 .. QBits - 1 : \E k \in keys : Bit(k, j) = 1}

\* reset_hashes draws each Q word uniformly from 0 .. size-1.
QVectors(keys, size) == [UsedBits(keys) -> 0 .. size - 1]

\* Variant of HashBits that adds the Q words instead of XOR-ing them.
RECURSIVE HashBits_sum(_, _, _)
HashBits_sum(key, q, j) ==
    IF j = QBits THEN 0
    ELSE (IF key % 2 = 1 THEN q[j] ELSE 0) + HashBits_sum(key \div 2, q, j + 1)

\* BloomFilter::hash: XOR of the Q words of the key's set bits, bit 0
\* first, shifting the key right each step.
RECURSIVE HashBits(_, _, _)
HashBits(key, q, j) ==
    IF j = QBits THEN 0
    ELSE (IF key % 2 = 1 THEN q[j] ELSE 0) ^^ HashBits(key \div 2, q, j + 1)

====
