------------------------------- MODULE HashTable -------------------------------
(***************************************************************************)
(* The chained hash table of core/dfs_hashtable.cpp, with hash_low as its  *)
(* hash function and a comparison of the first len bytes, over links the   *)
(* callers own: the table only chains them.  Keys are sequences of small   *)
(* numbers, the characters after string_xxctolower.                        *)
(***************************************************************************)
EXTENDS Integers, SequencesExt, FiniteSetsExt, FiniteSets

CONSTANTS
  Link,          \* the links of the callers
  Keys,          \* their possible keys, all of one length
  HashSizes      \* values of hash_sz

VARIABLES
  ht_size,       \* ht->size
  buckets,       \* the chain of each bucket, 0 .. ht_size - 1
  count,         \* ht->count
  key,           \* the key each link has been given
  joined         \* the links in the table in the order they joined, the latest first

ht_vars == <<ht_size, buckets, count, key, joined>>

dfs_math_is_prime(x) == x > 1 /\ \A i \in 2 .. x : i * i <= x => x % i # 0

dfs_math_find_prime(x) == Min({p \in x .. 2 * x + 2 : dfs_math_is_prime(p)})

\* Keys are texts, and the search for a prime ends, as there is one between x and 2x.
ASSUME HashAssumption ==
  /\ \A k \in Keys : k \in Seq(Nat)
  /\ \A x \in HashSizes : x \in Nat /\ \E p \in x .. 2 * x + 2 : dfs_math_is_prime(p)

\* n[j] is the number after j characters.
dfs_hashtable_hash_low(k, size) ==
  LET n[j \in 0 .. Len(k)] == IF j = 0 THEN 0 ELSE n[j - 1] * 31 + k[j]
  IN  n[Len(k)] % size

\* dfs_hashtable_init with all of its memory.
HtInit ==
  /\ \E hash_sz \in HashSizes : ht_size = dfs_math_find_prime(hash_sz)
  /\ buckets = [i \in 0 .. ht_size - 1 |-> << >>]
  /\ count = 0
  /\ key \in [Link -> Keys]
  /\ joined = << >>

BucketOf(k) == dfs_hashtable_hash_low(k, ht_size)

dfs_hashtable_join(hl) ==
  /\ ~Contains(joined, hl)
  /\ buckets' = [buckets EXCEPT ![BucketOf(key[hl])] = <<hl>> \o @]
  /\ count' = count + 1
  /\ joined' = <<hl>> \o joined
  /\ UNCHANGED <<ht_size, key>>

\* Mutant of unlink: the links before the one taken out go with it.
unlink_head(chain, hl) ==
  SubSeq(chain, SelectInSeq(chain, LAMBDA l : l = hl) + 1, Len(chain))

unlink(chain, hl) == RemoveAt(chain, SelectInSeq(chain, LAMBDA l : l = hl))

\* A link that is not in its chain leaves the table as it was.
dfs_hashtable_remove_link(hl) ==
  LET i == BucketOf(key[hl])
  IN /\ IF Contains(buckets[i], hl)
        THEN /\ buckets' = [buckets EXCEPT ![i] = unlink(@, hl)]
             /\ count' = count - 1
             /\ joined' = RemoveFirst(joined, hl)
        ELSE UNCHANGED <<buckets, count, joined>>
     /\ UNCHANGED <<ht_size, key>>

\* The first link of the chain with the key; nullptr is the empty set.
dfs_hashtable_lookup(k) ==
  LET chain == buckets[BucketOf(k)]
      at == SelectInSeq(chain, LAMBDA l : key[l] = k)
  IN IF at = 0 THEN {} ELSE {chain[at]}

dfs_hashtable_empty == count = 0

HtNext == \E hl \in Link : dfs_hashtable_join(hl) \/ dfs_hashtable_remove_link(hl)

HtSpec == HtInit /\ [][HtNext]_ht_vars

-----------------------------------------------------------------------------
\* A lookup returns the link that joined last of those with its key and still in the
\* table, whatever else hashes to its bucket and in whatever order links are removed, and
\* the table is empty exactly when it says so.
LookupFindsLatest ==
  /\ \A k \in Keys :
       LET latest == SelectInSeq(joined, LAMBDA l : key[l] = k)
       IN dfs_hashtable_lookup(k) = IF latest = 0 THEN {} ELSE {joined[latest]}
  /\ count = Len(joined)
=============================================================================
