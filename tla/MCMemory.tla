------------------------------ MODULE MCMemory ------------------------------
(***************************************************************************)
(* Small instances of the allocators, which do not interact: shared memory *)
(* and its slabs, the memory pool with its arrays, the half-life pool and  *)
(* the store of blocks.  A behaviour is one of one of them; the others     *)
(* stay as they were made.                                                 *)
(***************************************************************************)
EXTENDS Slabs, MemPool, HalfLifePool, MemBlocks

VARIABLE store       \* the allocator that runs

memory_vars == <<store, vars, mpool_vars, hl_vars, mb_vars>>

\* One way each to be idle.
OthersIdle ==
  /\ store = "slabs" \/ (shm.level = "exp" /\ mgr.up = "power")
  /\ store = "half_life" \/ (min_size = 0 /\ free_q = <<CHOOSE n \in Node : TRUE>>)
  /\ \/ store = "blocks"
     \/ /\ free_blks[1] = CHOOSE b \in Blocks : TRUE
        /\ \A t \in Threads : blk[t] = free_blks[1]

MemoryInit == /\ store \in {"slabs", "pool", "half_life", "blocks"}
              /\ Init /\ PoolInit /\ HlInit /\ MbInit
              /\ OthersIdle

SlabsRun == /\ store = "slabs" /\ Next
            /\ UNCHANGED <<store, mpool_vars, hl_vars, mb_vars>>
PoolRun == /\ store = "pool" /\ PoolNext
           /\ UNCHANGED <<store, vars, hl_vars, mb_vars>>
HalfLifeRun == /\ store = "half_life" /\ HlNext
               /\ UNCHANGED <<store, vars, mpool_vars, mb_vars>>
BlocksRun == /\ store = "blocks" /\ MbNext
             /\ UNCHANGED <<store, vars, mpool_vars, hl_vars>>

MemoryNext == SlabsRun \/ PoolRun \/ HalfLifeRun \/ BlocksRun

MemorySpec == MemoryInit /\ [][MemoryNext]_memory_vars /\ MbFairness
=============================================================================
