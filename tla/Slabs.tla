-------------------------------- MODULE Slabs --------------------------------
(***************************************************************************)
(* The slab manager of core/dfs_slabs.cpp on top of the shared-memory      *)
(* allocator, reached through core/dfs_shmem_allocator.cpp, together with  *)
(* clients that use the same shared memory directly.  A slab call runs the *)
(* allocator's operators inside its own step: nothing in the C code yields *)
(* between them.                                                           *)
(***************************************************************************)
EXTENDS Shmem, Functions

CONSTANTS LINK,         \* sizeof(chunk_link_t)
          ItemMin,      \* item_size_min of dfs_slabs_create
          ItemMax,      \* item_size_max
          SlabFactor,   \* the step of DFS_SLAB_UPTYPE_LINEAR
          MgrSize,      \* the manager and its class array, in shared memory
          W,            \* the statistics are size_t: they wrap at W
          Sizes         \* the sizes clients ask for

VARIABLES shm,          \* the allocator of module Shmem
          mgr           \* dfs_slab_manager_t

vars == <<shm, mgr>>

SPLIT_ID == -5

slab_free_len(up) ==
    1 + (IF up = "linear" THEN Ceil(ItemMax - ItemMin, SlabFactor)
                          ELSE dfslog2_up(Ceil(ItemMax, ItemMin)))

class_size(up, i) ==
    LINK + (IF up = "linear" THEN ItemMin + i * SlabFactor ELSE ItemMin * 2 ^ i)

(* The binary search of dfs_slabs_clsid over classes low .. high.          *)
RECURSIVE search_class(_, _, _, _)
search_class(up, all, low, high) ==
    LET mid == (low + high) \div 2 IN
    IF low > high THEN None
    ELSE IF all <= class_size(up, mid)
         THEN IF all > class_size(up, mid - 1) THEN mid
              ELSE IF all = class_size(up, mid - 1) THEN mid - 1
              ELSE search_class(up, all, low, mid - 1)
         ELSE IF all <= class_size(up, mid + 1) THEN mid + 1
              ELSE search_class(up, all, mid + 1, high)

(* The class of a request, None when no class can hold it.                 *)
clsid(up, size) ==
    LET max_id == slab_free_len(up) - 1
        all    == size + LINK
    IN IF all > class_size(up, max_id) THEN None
       ELSE IF all <= class_size(up, 0) THEN 0
       ELSE IF all = class_size(up, max_id) THEN max_id
       ELSE IF up = "linear" THEN Ceil(size - ItemMin, SlabFactor)
       ELSE search_class(up, all, 1, max_id - 1)

slabs_create(up) ==
    [up |-> up, list |-> [i \in 0 .. slab_free_len(up) - 1 |-> <<>>],
     chunk |-> <<>>, used |-> 0, free |-> 0, chunk_count |-> 0]

Init == \E level \in Levels, up \in {"power", "linear"} :
           LET r == shmem_alloc(shmem_create(level), MgrSize) IN
           /\ shm = r.shm
           /\ mgr = slabs_create(up)

(* The chunk at the head of class i goes back to the allocator.            *)
give_back(x, i) ==
    LET c == Head(x.mgr.list[i]) IN
    [shm |-> shmem_free(x.shm, c).shm,
     mgr |-> [x.mgr EXCEPT !.list[i] = Tail(@),
                           !.free = (@ - (class_size(x.mgr.up, i) - LINK)) % W,
                           !.chunk_count = @ - 1,
                           !.chunk = Restrict(@, DOMAIN @ \ {c})]]

(* dfs_slabs_recover: one chunk of the first larger class that has one;    *)
(* else chunks of the smaller classes, from the largest down, until twice  *)
(* the size wanted is back.                                                *)
RECURSIVE recover_smaller(_, _, _, _)
recover_smaller(x, i, back, wanted) ==
    IF i < 0 THEN x
    ELSE IF x.mgr.list[i] = <<>> THEN recover_smaller(x, i - 1, back, wanted)
    ELSE LET y == give_back(x, i)
             b == back + class_size(x.mgr.up, i)
         IN IF b >= 2 * wanted THEN y ELSE recover_smaller(y, i, b, wanted)

recover(x, id) ==
    LET larger == {i \in DOMAIN x.mgr.list : i > id /\ x.mgr.list[i] # <<>>}
    IN IF larger # {} THEN give_back(x, Min(larger))
       ELSE recover_smaller(x, id - 1, 0, class_size(x.mgr.up, id))

nospace(x, id) == \A i \in DOMAIN x.mgr.list \ {id} : x.mgr.list[i] = <<>>

(* The allocator is asked again after every recovery, until one finds      *)
(* nothing to give back.                                                   *)
RECURSIVE chunk_from_allocator(_, _)
chunk_from_allocator(x, id) ==
    LET r == shmem_alloc(x.shm, class_size(x.mgr.up, id)) IN
    IF r.at # None THEN [shm |-> r.shm, mgr |-> x.mgr, at |-> r.at]
    ELSE IF nospace(x, id) THEN [shm |-> x.shm, mgr |-> x.mgr, at |-> None]
    ELSE chunk_from_allocator(recover(x, id), id)

add_chunk(m, at, id, size) ==
    [m EXCEPT !.chunk = [c \in DOMAIN @ \cup {at} |->
                            IF c = at THEN [id |-> id, size |-> size] ELSE @[c]],
              !.chunk_count = @ + 1,
              !.used = (@ + size) % W]

(* A request no class can hold is refused and changes nothing.            *)
dfs_slabs_alloc(size) ==
    LET id == clsid(mgr.up, size) IN
    /\ id # None
    /\ \/ /\ mgr.list[id] # <<>>
          /\ LET c == Head(mgr.list[id]) IN
             mgr' = [mgr EXCEPT !.list[id] = Tail(@),
                                !.free = (@ - mgr.chunk[c].size) % W,
                                !.used = (@ + mgr.chunk[c].size) % W]
          /\ UNCHANGED shm
       \/ /\ mgr.list[id] = <<>>
          /\ LET x == chunk_from_allocator([shm |-> shm, mgr |-> mgr], id) IN
             /\ shm' = x.shm
             /\ mgr' = IF x.at = None THEN x.mgr
                       ELSE add_chunk(x.mgr, x.at, id, class_size(mgr.up, id) - LINK)

(* The largest free block of the shared memory, whole, if it holds minsize *)
(* bytes; a size above the largest class is refused.                       *)
dfs_slabs_split_alloc(size, minsize) ==
    LET r == shmem_split_alloc(shm, minsize + LINK) IN
    /\ size + LINK <= class_size(mgr.up, slab_free_len(mgr.up) - 1)
    /\ r.at # None
    /\ shm' = r.shm
    /\ mgr' = add_chunk(mgr, r.at, SPLIT_ID, shm.blk[r.at].size - LINK)

Listed == UNION {Range(mgr.list[i]) : i \in DOMAIN mgr.list}
Held == DOMAIN mgr.chunk \ Listed

(* A split chunk goes back to the allocator.  Any other chunk is put on    *)
(* the list of its class before used_size is compared with the class size; *)
(* a smaller used_size ends the call with an error there.                  *)
dfs_slabs_free(c) ==
    LET k == mgr.chunk[c]
        m == [mgr EXCEPT !.list[k.id] = <<c>> \o @]
    IN \/ /\ k.id = SPLIT_ID
          /\ shm' = shmem_free(shm, c).shm
          /\ mgr' = [mgr EXCEPT !.chunk = Restrict(@, DOMAIN @ \ {c}),
                                !.chunk_count = @ - 1,
                                !.used = (@ - k.size) % W]
       \/ /\ k.id # SPLIT_ID
          /\ mgr' = IF mgr.used < class_size(mgr.up, k.id) THEN m
                    ELSE [m EXCEPT !.free = (@ + k.size) % W,
                                   !.used = (@ - k.size) % W]
          /\ UNCHANGED shm

(* Clients of the allocator that do not go through the slab manager.       *)
Direct == Allocated(shm) \ (DOMAIN mgr.chunk \cup {0})

dfs_shmem_allocator_alloc(size) ==
    shm' = shmem_alloc(shm, size).shm /\ UNCHANGED mgr

dfs_shmem_allocator_free(a) ==
    shm' = shmem_free(shm, a).shm /\ UNCHANGED mgr

Next == \/ \E n \in Sizes : dfs_slabs_alloc(n) \/ dfs_shmem_allocator_alloc(n)
        \/ \E n, m \in Sizes : m <= n /\ dfs_slabs_split_alloc(n, m)
        \/ \E c \in Held : dfs_slabs_free(c)
        \/ \E a \in Direct : dfs_shmem_allocator_free(a)

Spec == Init /\ [][Next]_vars

-----------------------------------------------------------------------------
(* The blocks of the shared memory always tile it, no two free blocks are  *)
(* neighbours (dfs_shmem_free joins both sides), each free block is on the *)
(* list its size selects, and used_size is what is allocated.              *)
ArenaSound ==
    /\ Tiled(shm)
    /\ Indexed(shm)
    /\ shm.used = MapThenSumSet(LAMBDA a : shm.blk[a].size, Allocated(shm))

(* Every chunk taken from the allocator is with one client or once on the  *)
(* list of its own class, chunk_count counts them, and used_size plus      *)
(* free_size is their total, though either one may be wrong.               *)
ChunksConserved ==
    /\ DOMAIN mgr.chunk \subseteq Allocated(shm)
    /\ \A i \in DOMAIN mgr.list :
          /\ IsInjective(mgr.list[i])
          /\ \A c \in Range(mgr.list[i]) : c \in DOMAIN mgr.chunk /\ mgr.chunk[c].id = i
    /\ mgr.chunk_count = Cardinality(DOMAIN mgr.chunk)
    /\ (mgr.used + mgr.free) % W =
          MapThenSumSet(LAMBDA c : mgr.chunk[c].size, DOMAIN mgr.chunk) % W

(* A slab request fails only when nothing is left to give back: the class  *)
(* has no chunk, no other class keeps a free chunk, and what is then free  *)
(* in the shared memory has no block for it on the list searched.          *)
FailsOnlyExhausted ==
    \A n \in Sizes :
       LET id == clsid(mgr.up, n)
           x  == chunk_from_allocator([shm |-> shm, mgr |-> mgr], id)
       IN (id # None /\ mgr.list[id] = <<>> /\ x.at = None) =>
             /\ \A i \in DOMAIN mgr.list : x.mgr.list[i] = <<>>
             /\ Tiled(x.shm) /\ Indexed(x.shm)
             /\ shmem_alloc(x.shm, class_size(mgr.up, id)).at = None

(* The index arithmetic finds a block whenever there is one: an allocation *)
(* above min_size is refused only if no free block could hold it.  Up to   *)
(* min_size it may be refused too soon: list 0 also keeps freed blocks     *)
(* smaller than min_size, and no other list is tried after it.             *)
SearchFindsFit ==
    \A n \in MinSize + 1 .. Arena :
       shmem_alloc(shm, n).at = None =>
          \A a \in DOMAIN shm.blk \ Allocated(shm) : shm.blk[a].size < n

(* Both allocators keep account of all of their memory, and refuse a       *)
(* request only when they have none for it.                                *)
StoresSound == ArenaSound /\ ChunksConserved /\ FailsOnlyExhausted /\ SearchFindsFit

(* What slab clients and direct clients hold, as one heap.                 *)
heap == INSTANCE Heap WITH
    regions <- {[at |-> c + HDR + LINK, size |-> mgr.chunk[c].size] : c \in Held}
                 \cup {[at |-> a + HDR, size |-> shm.blk[a].size] : a \in Direct}

(* The two allocators are a heap: what they hand out overlaps nothing that *)
(* is still held, and only what is held is freed.                          *)
ImplementsHeap == heap!HeapSpec
=============================================================================
