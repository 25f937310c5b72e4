------------------------------- MODULE MemPool -------------------------------
(***************************************************************************)
(* The region allocator of core/dfs_memory_pool.cpp and the arrays of      *)
(* core/dfs_array.cpp, which grow in place when they end where the first   *)
(* block of the pool is used up to, and give their space back the same     *)
(* way.  A block is a separate piece of memory with addresses from 0; its  *)
(* header is pool_t in the first block and pool_data_t in the others.      *)
(***************************************************************************)
EXTENDS Integers, Sequences, FiniteSetsExt

CONSTANTS
  PoolSize,      \* bytes of a block
  POOL_T,        \* sizeof(pool_t)
  POOL_DATA_T,   \* sizeof(pool_data_t)
  LARGE_T,       \* sizeof(pool_large_t)
  ALIGN,         \* DFS_ALIGNMENT
  AllocSizes,    \* sizes asked for
  MaxBlocks      \* bound on the blocks; then memory_alloc fails

VARIABLES
  blocks,        \* the blocks in order: last and end
  current,       \* pool->current
  regions,       \* what has been handed out and is in use: block, lo, hi
  nodes,         \* pool->large: where the nodes of the list lie
  array,         \* an array on the pool: block, lo, nelts, nalloc; or none
  stale          \* pool_reset has left nodes on pool->large

mpool_vars == <<blocks, current, regions, nodes, array, stale>>

no_array == [b |-> 0, lo |-> 0, nelts |-> 0, nalloc |-> 0]
elt_size == 1

dfs_align_ptr(k) == ((k + ALIGN - 1) \div ALIGN) * ALIGN

max == PoolSize - POOL_T

\* pool_t begins with its pool_data_t, which ends at an aligned offset or is followed by
\* fields that reach to one, and a block has room for a node of the large list.  Nobody
\* asks for no bytes.
ASSUME PoolAssumption ==
  /\ ALIGN \in Nat \ {0} /\ PoolSize \in Nat /\ POOL_T \in Nat /\ POOL_DATA_T \in Nat
  /\ LARGE_T \in Nat \ {0} /\ AllocSizes \subseteq Nat \ {0}
  /\ POOL_DATA_T <= POOL_T /\ dfs_align_ptr(POOL_DATA_T) <= POOL_T /\ LARGE_T <= max

PoolInit ==
  /\ blocks = <<[last |-> POOL_T, end |-> PoolSize]>>
  /\ current = 1
  /\ regions = {} /\ nodes = {} /\ array = no_array /\ stale = FALSE

\* Mutant of Fits: the space is measured before the address is aligned.
Fits_unaligned(b, size) == blocks[b].end - blocks[b].last >= size

Fits(b, size) == /\ dfs_align_ptr(blocks[b].last) < blocks[b].end
                 /\ blocks[b].end - dfs_align_ptr(blocks[b].last) >= size

\* pool_alloc_block leaves current at the block after the last one that is full, or at
\* the new block.
NextCurrent ==
  LET full == {b \in current .. Len(blocks) - 1 : blocks[b].end - blocks[b].last < ALIGN}
  IN IF full = {} THEN Len(blocks) + 1 ELSE Max(full) + 1

\* pool_alloc of at most max bytes: the region, the blocks and current afterwards.  The
\* block is the first from current on with room, or a new one.
pool_alloc(size) ==
  LET room == {b \in current .. Len(blocks) : Fits(b, size)}
  IN IF room # {}
     THEN LET b == Min(room)
              m == dfs_align_ptr(blocks[b].last)
          IN [region |-> [b |-> b, lo |-> m, hi |-> m + size],
              blocks |-> [blocks EXCEPT ![b].last = m + size], current |-> current]
     ELSE LET m == dfs_align_ptr(POOL_DATA_T)
          IN [region |-> [b |-> Len(blocks) + 1, lo |-> m, hi |-> m + size],
              blocks |-> Append(blocks, [last |-> m + size, end |-> PoolSize]),
              current |-> NextCurrent]

alloc_small(size) ==
  /\ size <= max
  /\ LET a == pool_alloc(size)
     IN /\ Len(a.blocks) <= MaxBlocks
        /\ blocks' = a.blocks /\ current' = a.current
        /\ regions' = regions \cup {a.region}
  /\ UNCHANGED <<nodes, array, stale>>

\* pool_alloc_large and pool_memalign: the memory itself is not of the pool, its node is.
alloc_large ==
  /\ LET a == pool_alloc(LARGE_T)
     IN /\ Len(a.blocks) <= MaxBlocks
        /\ blocks' = a.blocks /\ current' = a.current
        /\ nodes' = nodes \cup {a.region}
  /\ UNCHANGED <<regions, array, stale>>

array_init(k) ==
  /\ array = no_array /\ k * elt_size <= max
  /\ LET a == pool_alloc(k * elt_size)
     IN /\ Len(a.blocks) <= MaxBlocks
        /\ blocks' = a.blocks /\ current' = a.current
        /\ array' = [b |-> a.region.b, lo |-> a.region.lo, nelts |-> 0, nalloc |-> k]
  /\ UNCHANGED <<regions, nodes, stale>>

ArrayEnd == array.lo + elt_size * array.nalloc

\* The array ends where its pool's first block is used up to.
ArrayIsLast == array.b = 1 /\ ArrayEnd = blocks[1].last

array_push_room ==
  /\ array # no_array /\ array.nelts < array.nalloc
  /\ array' = [array EXCEPT !.nelts = @ + 1]
  /\ UNCHANGED <<blocks, current, regions, nodes, stale>>

array_push_extend ==
  /\ array # no_array /\ array.nelts = array.nalloc
  /\ ArrayIsLast /\ blocks[1].last + elt_size <= blocks[1].end
  /\ blocks' = [blocks EXCEPT ![1].last = @ + elt_size]
  /\ array' = [array EXCEPT !.nelts = @ + 1, !.nalloc = @ + 1]
  /\ UNCHANGED <<current, regions, nodes, stale>>

\* The array moves to twice the space; the old space is not used again.
array_push_move ==
  /\ array # no_array /\ array.nelts = array.nalloc
  /\ ~(ArrayIsLast /\ blocks[1].last + elt_size <= blocks[1].end)
  /\ 2 * elt_size * array.nalloc <= max
  /\ LET a == pool_alloc(2 * elt_size * array.nalloc)
     IN /\ Len(a.blocks) <= MaxBlocks
        /\ blocks' = a.blocks /\ current' = a.current
        /\ array' = [b |-> a.region.b, lo |-> a.region.lo, nelts |-> array.nelts + 1,
                     nalloc |-> 2 * array.nalloc]
  /\ UNCHANGED <<regions, nodes, stale>>

array_destroy ==
  /\ array # no_array
  /\ blocks' = IF ArrayIsLast THEN [blocks EXCEPT ![1].last = array.lo] ELSE blocks
  /\ array' = no_array
  /\ UNCHANGED <<current, regions, nodes, stale>>

\* pool_reset frees the large memory but leaves the nodes on the list, in space that is
\* free again.  The users have given up what they had.
pool_reset ==
  /\ blocks' = [b \in DOMAIN blocks |-> [blocks[b] EXCEPT !.last = POOL_T]]
  /\ current' = 1
  /\ regions' = {} /\ array' = no_array
  /\ stale' = (nodes # {})
  /\ UNCHANGED nodes

\* A pool is followed up to the reset that leaves nodes behind.
PoolNext ==
  /\ ~stale
  /\ \/ \E size \in AllocSizes : alloc_small(size) \/ array_init(size)
     \/ alloc_large
     \/ array_push_room \/ array_push_extend \/ array_push_move \/ array_destroy
     \/ pool_reset

PoolSpec == PoolInit /\ [][PoolNext]_mpool_vars

-----------------------------------------------------------------------------
ArraySpace == IF array = no_array THEN {}
              ELSE {[b |-> array.b, lo |-> array.lo, hi |-> ArrayEnd]}

Taken == regions \cup nodes \cup ArraySpace

\* All that has been handed out lies in its block, behind the header and below last, and
\* apart from everything else, however arrays grew in place, moved and were given back,
\* until a reset leaves a node of the large list in space that is free.
PoolSound ==
  ~stale =>
    /\ \A r \in Taken :
         /\ (IF r.b = 1 THEN POOL_T ELSE POOL_DATA_T) <= r.lo
         /\ r.hi <= blocks[r.b].last
         /\ dfs_align_ptr(r.lo) = r.lo
    /\ \A b \in DOMAIN blocks : blocks[b].last <= blocks[b].end
    /\ \A r, q \in Taken : r # q /\ r.b = q.b => r.hi <= q.lo \/ q.hi <= r.lo
    /\ regions \cap nodes = {} /\ ArraySpace \cap (regions \cup nodes) = {}
=============================================================================
